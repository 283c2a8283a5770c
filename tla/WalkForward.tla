----------------------------- MODULE WalkForward -----------------------------
(***************************************************************************)
(* The parameter search of scripts/: walkforward.js trains on a window and  *)
(* tests on the next, fold after fold; optimize.js searches one window; both *)
(* write files under client/public that the pages load, and wf-summary.js,  *)
(* a process of its own, reads one of the three that walkforward.js wrote   *)
(* and rewrites the two others, one after the other.  A run of              *)
(* generateSignals and computeMetrics is a free choice of its score and pnl. *)
(***************************************************************************)
EXTENDS Integers, Sequences, SequencesExt, FiniteSetsExt, DataFolds

CONSTANTS
  GridSize,         \* the grid has the combinations 1..GridSize, in the order of the four loops
  Scores,           \* scores to four decimals, as integers; NoScore is not finite
  Pnls,             \* pnl of a test window, in thousandths
  EndMs,            \* the range searched is 0..EndMs
  TrainMs, TestMs,  \* lengths of the windows
  MaxRuns           \* bound: how often walkforward.js is started

VARIABLES
  cur,              \* where the next fold starts
  reported,         \* rows of walkforward.csv so far; "top" is what a fold should have chosen
  equity,           \* cumulated pnl of the folds
  picks,            \* how often each combination was best: bestParamsCount
  total,            \* summary.pnl
  run,              \* which start of walkforward.js this is
  stage,            \* "folds", "csv", "agg", "json", "done" or "crashed"
  csv, agg, json,   \* the three files: the run they tell of and what they say
  summary,          \* wf-summary.js: where it is, the rows it read and the run they are of
  params,           \* config/params.json: the combination written, and how far its score is from the top
  published,        \* history: the rows each run wrote to walkforward.csv
  crossed           \* history: the last walkforward.csv was written between two steps of wf-summary.js

loopVars == <<cur, reported, equity, picks, total>>
walkFiles == <<csv, agg, json>>
walkVars == <<loopVars, run, stage, walkFiles, summary, params, published, crossed>>

NoScore == -99999
Combos == 1..GridSize
Empty == [of |-> 0, says |-> <<>>]    \* a file not there, or truncated and not written
Rewriting == {"json", "agg"}          \* the files that both processes write, the next to be written

ASSUME WalkForwardAssumption ==
  /\ TrainMs \in Nat \ {0} /\ TestMs \in Nat \ {0} /\ EndMs \in Nat /\ MaxRuns \in Nat \ {0}
  /\ Pnls \subseteq Int /\ Scores \subseteq Int \ {NoScore} /\ GridSize \in Nat \ {0}

InitWalk ==
  /\ cur = 0 /\ reported = <<>> /\ equity = <<>> /\ total = 0
  /\ picks = [k \in Combos |-> 0] /\ run = 1 /\ stage = "folds"
  /\ csv = Empty /\ agg = Empty /\ json = Empty /\ params = <<>>
  /\ summary = [pc |-> "none", of |-> 0, rows |-> <<>>, alone |-> FALSE]
  /\ published = [r \in 1..MaxRuns |-> <<>>] /\ crossed = FALSE

TestStart == cur + TrainMs
TestEnd   == TestStart + TestMs
LastOf(s) == IF s = <<>> THEN 0 ELSE s[Len(s)]

\* A number as it is written: two decimals.
Cents(x) == IF x >= 0 THEN (x + 5) \div 10 ELSE -((5 - x) \div 10)

\* Mutant: an equal score replaces the best so far.
Best_Later(score) ==
  LET best[k \in 0..GridSize] ==
        IF k = 0 THEN 0
        ELSE LET b == best[k - 1]
             IN IF score[k] # NoScore /\ (b = 0 \/ score[k] >= score[b]) THEN k ELSE b
  IN best[GridSize]

\* The loops keep a combination when its score is finite and greater than the best so far.
Best(score) ==
  LET best[k \in 0..GridSize] ==
        IF k = 0 THEN 0
        ELSE LET b == best[k - 1]
             IN IF score[k] # NoScore /\ (b = 0 \/ score[k] > score[b]) THEN k ELSE b
  IN best[GridSize]

\* What the two scripts should find: the first of the combinations with the highest score.
FirstHighest(score) ==
  LET finite == {k \in Combos : score[k] # NoScore}
      top == {k \in finite : \A l \in finite : score[l] <= score[k]}
  IN IF finite = {} THEN 0 ELSE Min(top)

FoldsEnd ==
  /\ stage' = "csv"
  /\ UNCHANGED <<loopVars, run, walkFiles, summary, params, published, crossed>>

\* No test window is left, or there are fewer than 300 candles to train on: the loop ends.
NoMoreFolds == stage = "folds" /\ FoldsEnd

\* A fold is skipped when no combination has a score, and counts as a pick but is not
\* reported when its test window has no candles or no finite score.
SkipFold(b) ==
  /\ picks' = IF b = 0 THEN picks ELSE [picks EXCEPT ![b] = @ + 1]
  /\ UNCHANGED <<reported, equity, total>>

ReportFold(b, pnl, top) ==
  /\ b # 0
  /\ picks' = [picks EXCEPT ![b] = @ + 1]
  /\ total' = total + pnl
  /\ equity' = Append(equity, LastOf(equity) + pnl)
  /\ reported' = Append(reported, [train |-> cur, test |-> TestStart, end |-> TestEnd,
                           best |-> b, top |-> top, pnl |-> Cents(pnl)])

\* The next fold trains from where this one's test ended.
NextCur_Overlaps == TestStart
NextCur == TestEnd

Fold ==
  /\ stage = "folds" /\ TestEnd <= EndMs
  /\ \E score \in [Combos -> Scores \cup {NoScore}] :
       \/ SkipFold(Best(score))
       \/ \E pnl \in Pnls : ReportFold(Best(score), pnl, FirstHighest(score))
  /\ cur' = NextCur
  /\ UNCHANGED <<run, stage, walkFiles, summary, params, published, crossed>>

\* The three files, one after the other; idx,equity lines are the cumulated pnl.
WriteCsv ==
  /\ stage = "csv" /\ stage' = "agg"
  /\ csv' = [of |-> run, says |-> reported] /\ published' = [published EXCEPT ![run] = reported]
  /\ crossed' = (summary.pc \in Rewriting)
  /\ UNCHANGED <<loopVars, run, agg, json, summary, params>>

WriteAgg ==
  /\ stage = "agg" /\ stage' = "json"
  /\ agg' = [of |-> run, says |-> [i \in DOMAIN equity |-> Cents(equity[i])]]
  /\ UNCHANGED <<loopVars, run, csv, json, summary, params, published, crossed>>

\* The largest fall of the equity from its highest point so far.
MaxFall(eq) ==
  LET m[i \in 0..Len(eq)] ==
        IF i = 0 THEN [peak |-> 0, maxDD |-> 0]
        ELSE LET before == m[i - 1]
                 peak == IF i = 1 THEN eq[1] ELSE Max({before.peak, eq[i]})
             IN [peak |-> peak, maxDD |-> Max({before.maxDD, peak - eq[i]})]
  IN m[Len(eq)].maxDD

WriteJson ==
  /\ stage = "json" /\ stage' = "done"
  /\ json' = [of |-> run, says |-> <<Len(reported), Cents(total), Cents(MaxFall(equity))>>]
  /\ UNCHANGED <<loopVars, run, csv, agg, summary, params, published, crossed>>

\* A process that dies while it writes a file leaves it truncated, or dies before or after.
TornReport(file) ==
  /\ csv' = IF file = "csv" THEN Empty ELSE csv
  /\ agg' = IF file = "agg" THEN Empty ELSE agg
  /\ json' = IF file = "json" THEN Empty ELSE json

Crash ==
  /\ stage \notin {"done", "crashed"} /\ stage' = "crashed"
  /\ UNCHANGED walkFiles \/ TornReport(stage)
  /\ UNCHANGED <<loopVars, run, summary, params, published, crossed>>

CumulatedPnl(rs) == [i \in DOMAIN rs |-> SumOver([k \in DOMAIN rs |-> rs[k].pnl], 1, i)]

\* wf-summary.js reads walkforward.csv, which must have a row.  It may be started at any time:
\* "alone" says walkforward.js was not between its first and its last file.
SummaryRead ==
  /\ summary.pc \notin Rewriting /\ csv.says # <<>>
  /\ summary' = [pc |-> "json", of |-> csv.of, rows |-> csv.says, alone |-> stage \notin Rewriting]
  /\ UNCHANGED <<loopVars, run, stage, walkFiles, params, published, crossed>>

\* Mutant: it ends without the second file.
SummaryJson_Ends ==
  /\ summary.pc = "json" /\ summary' = [summary EXCEPT !.pc = "ended"]
  /\ json' = [of |-> summary.of,
              says |-> <<Len(summary.rows), LastOf(CumulatedPnl(summary.rows))>>]
  /\ UNCHANGED <<loopVars, run, stage, csv, agg, params, published, crossed>>

\* The first file: the sums of the rows, each kept before its division by the folds.
SummaryJson ==
  /\ summary.pc = "json" /\ summary' = [summary EXCEPT !.pc = "agg"]
  /\ json' = [of |-> summary.of,
              says |-> <<Len(summary.rows), LastOf(CumulatedPnl(summary.rows))>>]
  /\ UNCHANGED <<loopVars, run, stage, csv, agg, params, published, crossed>>

\* The second: the curve anew, from the rows it read.
SummaryAgg ==
  /\ summary.pc = "agg" /\ summary' = [summary EXCEPT !.pc = "ended"]
  /\ agg' = [of |-> summary.of, says |-> CumulatedPnl(summary.rows)]
  /\ UNCHANGED <<loopVars, run, stage, csv, json, params, published, crossed>>

SummaryDies ==
  /\ summary.pc \in Rewriting /\ summary' = [summary EXCEPT !.pc = "dead"]
  /\ UNCHANGED walkFiles \/ TornReport(summary.pc)
  /\ UNCHANGED <<loopVars, run, stage, params, published, crossed>>

WfSummary == SummaryRead \/ SummaryJson \/ SummaryAgg \/ SummaryDies

\* optimize.js rounds the scores to two decimals, sorts (stable, highest first) and takes row 0:
\* no row has a higher score, and none as high stands before it in the grid.
Round2(s) == (s + 50) \div 100
Row0(score) ==
  CHOOSE k \in Combos : \A l \in Combos :
    /\ Round2(score[l]) <= Round2(score[k])
    /\ Round2(score[l]) = Round2(score[k]) => k <= l

\* A score that is not finite makes the comparator NaN: the order is then the engine's.
Optimize ==
  /\ stage = "done" /\ params = <<>>
  /\ \E score \in [Combos -> Scores \cup {NoScore}] :
       LET finite == \A k \in Combos : score[k] # NoScore
       IN \E best \in IF finite THEN {Row0(score)} ELSE Combos :
            params' = <<[best |-> best, finite |-> finite,
                         short |-> IF finite THEN score[FirstHighest(score)] - score[best] ELSE 0]>>
  /\ UNCHANGED <<loopVars, run, stage, walkFiles, summary, published, crossed>>

\* Somebody starts walkforward.js again: the files stay until it writes them.
Rerun ==
  /\ stage \in {"done", "crashed"} /\ run < MaxRuns
  /\ run' = run + 1 /\ stage' = "folds"
  /\ cur' = 0 /\ reported' = <<>> /\ equity' = <<>> /\ total' = 0
  /\ picks' = [k \in Combos |-> 0]
  /\ UNCHANGED <<walkFiles, summary, params, published, crossed>>

NextWalk == NoMoreFolds \/ Fold \/ WriteCsv \/ WriteAgg \/ WriteJson \/ Crash
            \/ WfSummary \/ Optimize \/ Rerun

WalkSpec == InitWalk /\ [][NextWalk]_walkVars

(***************************************************************************)
(* Properties.                                                             *)
(***************************************************************************)

(* No fold is tested on what any fold before it, or itself, was tested or   *)
(* trained on: test windows are apart, in order, inside the range, and each *)
(* begins where its own training ends.                                     *)
TestedOnUnseen ==
  \A i \in DOMAIN reported :
    /\ reported[i].test = reported[i].train + TrainMs /\ reported[i].end <= EndMs
    /\ \A j \in 1..(i - 1) : reported[j].end <= reported[i].train

(* What the pages load fits together.  The equity has a point for each row  *)
(* and its last is the reported pnl; a fold that was dropped leaves only a  *)
(* pick.  Each file tells of one run only, and as its rows do, but for a    *)
(* cent of rounding a row.  A script that has ended leaves the three files  *)
(* of its own folds, whatever an earlier crash left there, unless           *)
(* wf-summary.js had read the rows before it wrote them; one that is at it  *)
(* or died can have truncated a file.  And wf-summary.js, started while     *)
(* walkforward.js was not between its files, brings them back together      *)
(* after a crash.                                                           *)
Bookkept ==
  /\ Len(equity) = Len(reported) /\ LastOf(equity) = total
  /\ SumOver(picks, 1, GridSize) >= Len(reported)

AggTells ==
  LET rows == published[agg.of]
  IN agg.of # 0 => /\ Len(agg.says) = Len(rows)
                   /\ \A i \in 1..Len(rows) : agg.says[i] - CumulatedPnl(rows)[i] \in (-i)..i

JsonTells ==
  LET n == Len(published[json.of])
  IN json.of # 0 => /\ json.says[1] = n
                    /\ json.says[2] - LastOf(CumulatedPnl(published[json.of])) \in (-n)..n

Unfinished == IF summary.pc \in {"none", "ended"} THEN {} ELSE {0}

ReportsAgree ==
  /\ Bookkept /\ AggTells /\ JsonTells
  /\ stage = "done" /\ ~crossed =>
       /\ csv = [of |-> run, says |-> reported]
       /\ {agg.of, json.of} \subseteq {run} \cup Unfinished
  /\ summary.pc = "ended" /\ summary.alone /\ summary.of = csv.of =>
       agg.of = csv.of /\ json.of = csv.of

(* Both searches end at a best combination: the loops at the first of the   *)
(* highest, optimize.js, which rounds first, less than 0.01 below it, when  *)
(* every score is finite.                                                   *)
SearchFindsBest ==
  /\ \A i \in DOMAIN reported : reported[i].best = reported[i].top
  /\ params # <<>> /\ params[1].finite => params[1].short < 100
=============================================================================
