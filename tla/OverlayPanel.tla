---------------------------- MODULE OverlayPanel ----------------------------
(***************************************************************************)
(* The overlay panel of the analytics page (overlays.js), the chart that     *)
(* listens to it (overview.js), and the routes that keep overlay sets and    *)
(* share links (analytics.overlay.sets.js, analytics.overlay.share.js).      *)
(* Every click that fetches awaits its answer while other clicks come in,   *)
(* and nothing tells a late answer from the last one.  The rebase value      *)
(* travels like the alignment and is left out.                             *)
(***************************************************************************)
EXTENDS Integers, Sequences, SequencesExt, DataFolds

CONSTANTS
  Jobs,             \* jobs the list shows
  WithCurve,        \* those that have an equity file
  MaxOverlays,      \* 5: checkboxes that can be ticked, overlays GET /analytics takes
  MaxSetJobs,       \* 12: jobs a set keeps
  SetIds, Tokens,   \* rows of overlay_sets, random tokens
  Payloads,         \* sets saved elsewhere: [jobs, baseline, align, inline]
  MaxActs           \* bound: clicks and requests

VARIABLES
  selected,         \* selectedJobs, in the order of its Map
  controls,         \* the two controls [baseline, align]
  chart,            \* its datasets: [base, items, inline], and the answer they are of
  remembered,       \* originalBaseline and currentSettings of the chart
  stats,            \* rows of the table, and the answer they are of
  flights,          \* requests by number: landed is 0 under way, k for the k-th answer
  sets,             \* overlay_sets: id -> [payload, token]
  shares,           \* overlay_shares: token -> payload
  sharing,          \* POST .../share of a set under way: <<id, token>>, after its SELECT
  links,            \* history: links given out: [token, set or 0, payload]
  acts,
  answers,          \* history: how many answers have come ...
  cleared,          \* ... and how many had when the panel was cleared last
  alone,            \* history: the request that nothing else crossed, or 0
  raced             \* history: sets that two requests shared at once

panelVars == <<selected, controls, chart, remembered, stats, flights, sets, shares, sharing,
               links, acts, answers, cleared, alone, raced>>
pageVars == <<selected, controls, chart, remembered, stats, flights, answers, cleared, alone>>
shareVars == <<sets, shares, sharing, links, raced>>

ASSUME OverlayPanelAssumption ==
  /\ WithCurve \subseteq Jobs /\ MaxOverlays \in Nat \ {0} /\ MaxSetJobs \in Nat
  /\ MaxActs \in Nat /\ 0 \notin Tokens \cup SetIds
  /\ \A p \in Payloads :
       /\ p \in [jobs : {p.jobs}, baseline : BOOLEAN, align : BOOLEAN, inline : BOOLEAN]
       /\ p.jobs \in Seq(Range(p.jobs))

NoPayload == [jobs |-> <<>>, baseline |-> FALSE, align |-> FALSE, inline |-> FALSE]
\* A request that failed.
Failed == -1
Blank == [base |-> "none", items |-> <<>>, inline |-> 0, of |-> 0]

InitPanel ==
  /\ selected = <<>> /\ controls = [baseline |-> FALSE, align |-> FALSE]
  /\ chart = Blank /\ remembered = [base |-> "none", align |-> FALSE]
  /\ stats = [rows |-> <<>>, of |-> 0] /\ flights = <<>> /\ alone = 0 /\ acts = 0
  /\ answers = 0 /\ cleared = 0
  /\ sets = <<>> /\ shares = <<>> /\ sharing = {} /\ links = {} /\ raced = {}

Act == acts < MaxActs /\ acts' = acts + 1
Pick(ids, n) == SubSeq(ids, 1, IF Len(ids) < n THEN Len(ids) ELSE n)

-----------------------------------------------------------------------------
(* The panel.                                                              *)

\* A click crosses what is under way.
Crossed == alone' = 0

Toggle(j) ==
  /\ Act
  /\ selected' = IF j \in Range(selected) THEN Only(selected, Range(selected) \ {j})
                 ELSE IF Len(selected) >= MaxOverlays THEN selected ELSE Append(selected, j)
  /\ Crossed
  /\ UNCHANGED <<controls, chart, remembered, stats, flights, answers, cleared>>
  /\ UNCHANGED shareVars

ChangeControls(baseline, align) ==
  /\ Act
  /\ controls' = [baseline |-> baseline, align |-> align]
  /\ UNCHANGED <<selected, chart, remembered, stats, flights, answers, cleared, alone>>
  /\ UNCHANGED shareVars

\* What the panel asks for: the selection with the controls.
Selection == [jobs |-> selected, baseline |-> controls.baseline, align |-> controls.align,
              inline |-> FALSE]

Request(kind, p, empty) ==
  [kind |-> kind, jobs |-> p.jobs, baseline |-> p.baseline, align |-> p.align,
   inline |-> p.inline, empty |-> empty, landed |-> 0]

\* A live baseline may have no snapshot in the time asked for.
Fetch(kind, p) ==
  /\ \E empty \in BOOLEAN :
       (empty => p.baseline) /\ flights' = Append(flights, Request(kind, p, empty))
  /\ UNCHANGED <<answers, cleared>>
  /\ alone' = IF \E i \in DOMAIN flights : flights[i].landed = 0 THEN 0 ELSE Len(flights) + 1

ApplyOverlays ==
  /\ Act
  /\ selected # <<>>
  /\ Fetch("apply", Selection)
  /\ UNCHANGED <<selected, controls, chart, remembered, stats>> /\ UNCHANGED shareVars

\* A set is applied: the controls and the selection are those of the set at once, of
\* which there may be more than MaxOverlays.
ApplyOverlaySet(p) ==
  /\ controls' = [baseline |-> p.baseline, align |-> p.align]
  /\ selected' = p.jobs
  /\ Fetch("set", p)
  /\ UNCHANGED <<chart, remembered, stats>>

LoadTopNInline ==
  /\ Act
  /\ Fetch("inline", NoPayload)
  /\ UNCHANGED <<selected, controls, chart, remembered, stats>> /\ UNCHANGED shareVars

ClearAll ==
  /\ Act
  /\ selected' = <<>> /\ stats' = [rows |-> <<>>, of |-> 0] /\ chart' = Blank
  /\ cleared' = answers
  /\ Crossed
  /\ UNCHANGED <<controls, remembered, flights, answers>> /\ UNCHANGED shareVars

\* What GET /analytics answers (Analytics has the curves themselves).
Items(f) == Only(Pick(f.jobs, MaxOverlays), WithCurve)
Base(f)  == IF ~f.baseline THEN "none" ELSE IF f.empty THEN "empty" ELSE "live"

\* render: aligning nothing at all throws before the chart is emptied; an empty baseline
\* throws at the label of the first overlay, when its own dataset is in and the chart is
\* not drawn again.  The page goes on behind the event.
Render(n) ==
  LET f == flights[n] items == Items(f) base == Base(f) IN
  /\ remembered' = [base |-> base, align |-> f.align]
  /\ chart' = IF f.align /\ items = <<>> /\ base = "none" THEN chart
              ELSE [base |-> base, inline |-> 0, of |-> n,
                    items |-> IF base = "empty" THEN <<>> ELSE items]

\* The rows are of the jobs selected by now; a job the answer lacks has a row of dashes.
RenderStats(n) ==
  stats' = IF selected = <<>> THEN [rows |-> <<>>, of |-> 0]
           ELSE [rows |-> [i \in DOMAIN selected |->
                   <<selected[i], selected[i] \in Range(Items(flights[n]))>>], of |-> n]

Lands(n, k) == [flights EXCEPT ![n].landed = k]

\* Mutant: the chart is not told of a set that was applied.
Answer_TableOnly(n) ==
  /\ flights[n].landed = 0 /\ flights[n].kind # "inline"
  /\ IF flights[n].kind = "apply" /\ Items(flights[n]) = <<>>
     THEN UNCHANGED <<chart, remembered, stats>>
     ELSE /\ IF flights[n].kind = "set" THEN UNCHANGED <<chart, remembered>> ELSE Render(n)
          /\ RenderStats(n)
  /\ answers' = answers + 1 /\ flights' = Lands(n, answers')
  /\ UNCHANGED <<selected, controls, cleared, alone, acts>> /\ UNCHANGED shareVars

Answer(n) ==
  /\ flights[n].landed = 0 /\ flights[n].kind # "inline"
  /\ IF flights[n].kind = "apply" /\ Items(flights[n]) = <<>>
     THEN UNCHANGED <<chart, remembered, stats>>
     ELSE Render(n) /\ RenderStats(n)
  /\ answers' = answers + 1
  /\ IF flights[n].inline
     THEN /\ flights' = Append(Lands(n, answers + 1), Request("inline", NoPayload, FALSE))
          /\ Crossed
     ELSE flights' = Lands(n, answers + 1) /\ UNCHANGED alone
  /\ UNCHANGED <<selected, controls, cleared, acts>> /\ UNCHANGED shareVars

\* Inline curves are added to what is there, labelled with the remembered baseline: an
\* empty one throws.
AnswerInline(n) ==
  /\ flights[n].landed = 0 /\ flights[n].kind = "inline"
  /\ answers' = answers + 1 /\ flights' = Lands(n, answers + 1) /\ Crossed
  /\ chart' = IF remembered.base = "empty" THEN chart ELSE [chart EXCEPT !.inline = @ + 1]
  /\ UNCHANGED <<selected, controls, remembered, stats, cleared, acts>> /\ UNCHANGED shareVars

\* The request fails: a toast, or nothing.
Fails(n) ==
  /\ flights[n].landed = 0
  /\ flights' = Lands(n, Failed) /\ Crossed
  /\ UNCHANGED <<selected, controls, chart, remembered, stats, answers, cleared, acts>>
  /\ UNCHANGED shareVars

-----------------------------------------------------------------------------
(* Sets and links.                                                         *)

\* A table with a row more.
With(table, id, row) == [i \in DOMAIN table \cup {id} |-> IF i = id THEN row ELSE table[i]]

SanitizePayload(p) == [p EXCEPT !.jobs = Pick(@, MaxSetJobs)]

\* An id is never given twice.
SaveSet(id, p) ==
  /\ Act
  /\ id \notin DOMAIN sets \cup {l.set : l \in links} \cup {s[1] : s \in sharing}
  /\ sets' = With(sets, id, [payload |-> SanitizePayload(p), token |-> 0])
  /\ UNCHANGED <<shares, sharing, links, raced>> /\ UNCHANGED pageVars

UpdateSet(id, p) ==
  /\ Act
  /\ id \in DOMAIN sets
  /\ sets' = [sets EXCEPT ![id].payload = SanitizePayload(p)]
  /\ UNCHANGED <<shares, sharing, links, raced>> /\ UNCHANGED pageVars

DeleteSet(id) ==
  /\ Act
  /\ id \in DOMAIN sets
  /\ sets' = [i \in DOMAIN sets \ {id} |-> sets[i]]
  /\ UNCHANGED <<shares, sharing, links, raced>> /\ UNCHANGED pageVars

Fresh(t) ==
  /\ t \notin DOMAIN shares /\ \A l \in links : l.token # t
  /\ \A s \in sharing : s[2] # t

Given(t, id, p) == links' = links \cup {[token |-> t, set |-> id, payload |-> p]}

\* Mutant: a set that has a token gets another.
ShareSet_Again(id, t) ==
  /\ Act
  /\ id \in DOMAIN sets
  /\ Fresh(t)
  /\ sharing' = sharing \cup {<<id, t>>}
  /\ raced' = IF \E s \in sharing : s[1] = id THEN raced \cup {id} ELSE raced
  /\ UNCHANGED <<links, sets, shares>> /\ UNCHANGED pageVars

\* The set has a token: it is given again.  Otherwise one is made, and written later.
ShareSet(id, t) ==
  /\ Act
  /\ id \in DOMAIN sets
  /\ IF sets[id].token # 0
     THEN /\ Given(sets[id].token, id, NoPayload)
          /\ UNCHANGED <<sharing, raced>>
     ELSE /\ Fresh(t)
          /\ sharing' = sharing \cup {<<id, t>>}
          /\ raced' = IF \E s \in sharing : s[1] = id THEN raced \cup {id} ELSE raced
          /\ UNCHANGED links
  /\ UNCHANGED <<sets, shares>> /\ UNCHANGED pageVars

WriteToken(s) ==
  /\ s \in sharing /\ sharing' = sharing \ {s}
  /\ sets' = IF s[1] \in DOMAIN sets THEN [sets EXCEPT ![s[1]].token = s[2]] ELSE sets
  /\ Given(s[2], s[1], NoPayload)
  /\ UNCHANGED <<shares, raced, acts>> /\ UNCHANGED pageVars

\* Share URL: the selection as it is, without an inline part.
ShareUrl(t) ==
  /\ Act
  /\ selected # <<>> /\ Fresh(t)
  /\ shares' = With(shares, t, Selection) /\ Given(t, 0, Selection)
  /\ UNCHANGED <<sets, sharing, raced>> /\ UNCHANGED pageVars

\* The set with the token, or else the share; a token nobody has is an empty selection.
Resolve(t) ==
  LET owners == {i \in DOMAIN sets : sets[i].token = t}
  IN IF owners # {} THEN sets[CHOOSE i \in owners : TRUE].payload
     ELSE IF t \in DOMAIN shares THEN shares[t] ELSE NoPayload

\* The HTML report of a token asks in the other order, and knows at most as many jobs as a set.
ShareReport(t) ==
  LET owners == {i \in DOMAIN sets : sets[i].token = t}
      p == IF t \in DOMAIN shares THEN shares[t]
           ELSE IF owners # {} THEN sets[CHOOSE i \in owners : TRUE].payload ELSE NoPayload
  IN Pick(p.jobs, MaxSetJobs)

\* The page is opened with ?share=; it starts from nothing.
OpenLink(t) ==
  /\ Act
  /\ flights = <<>> /\ selected = <<>> /\ chart = Blank
  /\ ApplyOverlaySet(Resolve(t))
  /\ UNCHANGED shareVars

\* The panel applies what it listed, of rows that may have changed or gone since.
ApplySavedSet(p) ==
  /\ Act
  /\ ApplyOverlaySet(SanitizePayload(p))
  /\ UNCHANGED shareVars

NextPanel ==
  \/ \E j \in Jobs : Toggle(j)
  \/ \E b, a \in BOOLEAN : ChangeControls(b, a)
  \/ ApplyOverlays \/ LoadTopNInline \/ ClearAll
  \/ \E n \in DOMAIN flights : Answer(n) \/ AnswerInline(n) \/ Fails(n)
  \/ \E id \in SetIds :
       \/ \E p \in Payloads : SaveSet(id, p) \/ UpdateSet(id, p)
       \/ DeleteSet(id)
       \/ \E t \in Tokens : ShareSet(id, t)
  \/ \E p \in Payloads : ApplySavedSet(p)
  \/ \E s \in sharing : WriteToken(s)
  \/ \E t \in Tokens : ShareUrl(t) \/ OpenLink(t)

PanelSpec == InitPanel /\ [][NextPanel]_panelVars

(***************************************************************************)
(* Properties.                                                             *)
(***************************************************************************)

\* An answer the chart can show something of: an empty baseline counts.
HasPicture(f) ==
  /\ f.kind # "inline"
  /\ Items(f) # <<>> \/ (f.kind = "set" /\ (~f.align \/ Base(f) # "none"))

\* The jobs the table has figures of.
Filled == {q[1] : q \in {row \in Range(stats.rows) : row[2]}}

\* The datasets are those of an answer: beside an empty baseline no overlay is drawn.
Shows(c, f) == c.base = Base(f) /\ c.items = IF Base(f) = "empty" THEN <<>> ELSE Items(f)

(* Chart and table are never of two answers, and never of half an answer:   *)
(* the chart has the curves and the baseline of one answer, the table, if   *)
(* it has rows, those of the same, unless the chart could draw nothing of   *)
(* it.  That is the last answer to arrive since the panel was cleared: an   *)
(* earlier request that is answered late takes the place of a later one,    *)
(* and nothing else does.  What no click and no other request crossed shows *)
(* the jobs that were asked for, however late it is answered: in the table, *)
(* and in the chart but where the live baseline asked for has no snapshot:  *)
(* then the first label throws, and the baseline is all the chart has.      *)
PanelShowsOneAnswer ==
  /\ stats.of # 0 =>
       /\ chart.of = stats.of \/ Items(flights[stats.of]) = <<>>
       /\ Filled \subseteq Range(Items(flights[stats.of]))
  /\ chart.of # 0 => Shows(chart, flights[chart.of])
  /\ \A n \in DOMAIN flights :
       HasPicture(flights[n]) /\ flights[n].landed > cleared =>
         chart.of # 0 /\ flights[n].landed <= flights[chart.of].landed
  /\ alone # 0 /\ flights[alone].landed # 0 /\ Items(flights[alone]) # <<>> =>
       Shows(chart, flights[alone]) /\ Filled = Range(Items(flights[alone]))

(* A link leads where it did when it was given out: that of a selection to  *)
(* the selection, for good; that of a set to the set as it is now, as long   *)
(* as it exists and no two requests shared it for the first time at once;   *)
(* and the report of a token is of the jobs the page shows for it.          *)
LinksLead ==
  \A l \in links :
    /\ IF l.set = 0 THEN Resolve(l.token) = l.payload
       ELSE l.set \in DOMAIN sets /\ l.set \notin raced =>
              Resolve(l.token) = sets[l.set].payload
    /\ ShareReport(l.token) = Pick(Resolve(l.token).jobs, MaxSetJobs)
=============================================================================
