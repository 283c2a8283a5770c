----------------------------- MODULE JobWorker -----------------------------
(***************************************************************************)
(* src/jobs/worker.js, its runners, src/jobs/progress.js and fs.js, with   *)
(* the handlers of src/routes/jobs.js.                                     *)
(*                                                                         *)
(* Each process may run one worker: a loop that claims the first queued    *)
(* row, runs it step by step, writes its artifacts and marks its status,   *)
(* and a 1 s interval that looks whether the row has been canceled.        *)
(*                                                                         *)
(* Durations, priorities, log lines, the progress column (written without  *)
(* being awaited) and what the artifacts contain are not modelled.  A      *)
(* process that dies starts again.                                         *)
(***************************************************************************)
EXTENDS Naturals, Sequences, FiniteSets

CONSTANTS
  Jobs,        \* ids of the rows that may be inserted
  Workers,     \* processes that may run a worker
  Files,       \* the artifacts of each type with a runner, in their order
  OtherType,   \* a type without a runner
  Steps,       \* steps of a runner (5 in all of them)
  Cancelable,  \* statuses that the cancel route replaces
  Faults,      \* what may go wrong: a subset of {"crash", "call"}
  NoJob        \* no row

ASSUME JobWorkerAssumption ==
  /\ Jobs \subseteq Nat
  /\ OtherType \notin DOMAIN Files
  /\ \A k \in DOMAIN Files : Files[k] \in Seq(STRING) \ {<<>>}
  /\ Steps \in Nat \ {0}
  /\ Cancelable \subseteq {"queued", "running"}
  /\ NoJob \notin Jobs

Types == DOMAIN Files \cup {OtherType}

VARIABLES
  status,     \* jobs.status, "none" before the INSERT
  kind,       \* jobs.type
  artifacts,  \* rows of job_artifacts, in the order of their INSERTs
  place,      \* where the loop of each worker is
  job,        \* the row it has claimed
  step,       \* steps or files its runner has done
  seen,       \* an answer that says canceled is on its way
  aborted,    \* controller.signal.aborted
  asked,      \* history: rows for which cancel was called
  troubled    \* history: a call has failed or a process has crashed

rowVars  == <<status, kind>>
runVars  == <<place, job, step>>
stopVars == <<seen, aborted>>
pastVars == <<asked, troubled>>
vars == <<rowVars, artifacts, runVars, stopVars, pastVars>>

Terminal == {"succeeded", "failed", "canceled"}
Statuses == {"none", "queued", "running"} \cup Terminal

(* "off" is a process without ENABLE_JOB_WORKER (server.js); some have it.  *)
(* "steps" sleeps; "ok" awaits markStatus in the try block, "cancel" and    *)
(* "fail" in the catch block.                                               *)
Running == {"started", "steps", "files", "ok", "cancel", "fail"}
Places  == {"off", "timer", "loop", "unknown"} \cup Running

Init ==
  /\ status = [j \in Jobs |-> "none"]
  /\ kind = [j \in Jobs |-> OtherType]
  /\ artifacts = [j \in Jobs |-> <<>>]
  /\ place \in [Workers -> {"off", "loop"}] /\ \E w \in Workers : place[w] = "loop"
  /\ job = [w \in Workers |-> NoJob]
  /\ step = [w \in Workers |-> 0]
  /\ seen = [w \in Workers |-> FALSE]
  /\ aborted = [w \in Workers |-> FALSE]
  /\ asked = {}
  /\ troubled = FALSE

-----------------------------------------------------------------------------
(* routes/jobs.js.                                                          *)

PostJob(j) ==
  /\ status[j] = "none"
  /\ \A i \in Jobs : i < j => status[i] # "none"
  /\ status' = [status EXCEPT ![j] = "queued"]
  /\ \E k \in Types : kind' = [kind EXCEPT ![j] = k]
  /\ UNCHANGED <<artifacts, runVars, stopVars, pastVars>>

CancelJob(j) ==
  /\ status[j] # "none"
  /\ status' = [status EXCEPT ![j] = IF @ \in Cancelable THEN "canceled" ELSE @]
  /\ asked' = asked \cup {j}
  /\ UNCHANGED <<kind, artifacts, runVars, stopVars, troubled>>

-----------------------------------------------------------------------------
(* startWorker: the loop.                                                   *)

Mine(w) == job[w]

Goes(w, from, to) ==
  /\ place[w] = from
  /\ place' = [place EXCEPT ![w] = to]

TimerFires(w) ==
  /\ Goes(w, "timer", "loop")
  /\ UNCHANGED <<rowVars, artifacts, job, step, stopVars, pastVars>>

(* The subselect skips the rows that others are claiming.  Which of the     *)
(* queued rows comes first makes no difference here.                        *)
Claimable_Unfinished(j) == status[j] \in {"queued", "canceled"}
Claimable_Running(j) == status[j] \in {"queued", "running"}
Claimable(j) == status[j] = "queued"

(* A type without a runner is marked outside of the try block.              *)
ClaimNextJob(w, j) ==
  /\ Claimable(j)
  /\ Goes(w, "loop", IF kind[j] = OtherType THEN "unknown" ELSE "started")
  /\ status' = [status EXCEPT ![j] = "running"]
  /\ job' = [job EXCEPT ![w] = j]
  /\ UNCHANGED <<kind, artifacts, step, stopVars, pastVars>>

NothingQueued(w) ==
  /\ \A j \in Jobs : ~Claimable(j)
  /\ Goes(w, "loop", "timer")
  /\ UNCHANGED <<rowVars, artifacts, job, step, stopVars, pastVars>>

(* runJob is over: the interval is cleared, the controller is garbage, the  *)
(* client released and the loop's timer armed, whatever happened.           *)
Ends(w) ==
  /\ place' = [place EXCEPT ![w] = "timer"]
  /\ job' = [job EXCEPT ![w] = NoJob]
  /\ step' = [step EXCEPT ![w] = 0]
  /\ seen' = [seen EXCEPT ![w] = FALSE]
  /\ aborted' = [aborted EXCEPT ![w] = FALSE]

-----------------------------------------------------------------------------
(* The cancel check, while the interval is set.                             *)

Look(w) ==
  /\ place[w] \in Running
  /\ status[Mine(w)] = "canceled"
  /\ ~aborted[w]
  /\ seen' = [seen EXCEPT ![w] = TRUE]
  /\ UNCHANGED <<rowVars, artifacts, runVars, aborted, pastVars>>

Abort(w) ==
  /\ seen[w]
  /\ seen' = [seen EXCEPT ![w] = FALSE]
  /\ aborted' = [aborted EXCEPT ![w] = TRUE]
  /\ UNCHANGED <<rowVars, artifacts, runVars, pastVars>>

-----------------------------------------------------------------------------
(* runJob and the runner.                                                   *)

(* markStatus is an UPDATE by id and looks at nothing else.                 *)
Mark(w, s) ==
  /\ status' = [status EXCEPT ![Mine(w)] = s]
  /\ UNCHANGED kind

UnknownType_Silent(w) ==
  /\ place[w] = "unknown"
  /\ Ends(w)
  /\ UNCHANGED <<rowVars, artifacts, pastVars>>

UnknownType(w) ==
  /\ place[w] = "unknown"
  /\ Mark(w, "failed")
  /\ Ends(w)
  /\ UNCHANGED <<artifacts, pastVars>>

(* The catch block looks at the signal once.                                *)
Caught(w) == IF aborted[w] THEN "cancel" ELSE "fail"

(* The runner after n steps: it looks at the signal before it sleeps.       *)
Turn(w, n) ==
  IF n = Steps THEN "files" ELSE IF aborted[w] THEN Caught(w) ELSE "steps"

Started(w) ==
  /\ Goes(w, "started", Turn(w, 0))
  /\ UNCHANGED <<rowVars, artifacts, job, step, stopVars, pastVars>>

StepDone(w) ==
  /\ Goes(w, "steps", Turn(w, step[w] + 1))
  /\ step' = [step EXCEPT ![w] = IF place'[w] = "files" THEN 0 ELSE @ + 1]
  /\ UNCHANGED <<rowVars, artifacts, job, stopVars, pastVars>>

FilesOf(w) == Files[kind[Mine(w)]]

InsertArtifact(w) ==
  artifacts' = [artifacts EXCEPT ![Mine(w)] = Append(@, FilesOf(w)[step[w] + 1])]

FileDone_LastMissing(w) ==
  /\ Goes(w, "files", IF step[w] + 2 >= Len(FilesOf(w)) THEN "ok" ELSE "files")
  /\ step' = [step EXCEPT ![w] = @ + 1]
  /\ InsertArtifact(w)
  /\ UNCHANGED <<rowVars, job, stopVars, pastVars>>

FileDone(w) ==
  /\ Goes(w, "files", IF step[w] + 1 = Len(FilesOf(w)) THEN "ok" ELSE "files")
  /\ step' = [step EXCEPT ![w] = @ + 1]
  /\ InsertArtifact(w)
  /\ UNCHANGED <<rowVars, job, stopVars, pastVars>>

Outcome == [ok |-> "succeeded", cancel |-> "canceled", fail |-> "failed",
            unknown |-> "failed"]

Marked(w) ==
  /\ place[w] \in {"ok", "cancel", "fail"}
  /\ Mark(w, Outcome[place[w]])
  /\ Ends(w)
  /\ UNCHANGED <<artifacts, pastVars>>

-----------------------------------------------------------------------------
(* What goes wrong.  A call that fails may have been carried out.           *)

ClaimFails(w) ==
  /\ "call" \in Faults
  /\ Goes(w, "loop", "timer")
  /\ \/ UNCHANGED rowVars
     \/ \E j \in Jobs : /\ Claimable(j)
                        /\ status' = [status EXCEPT ![j] = "running"]
                        /\ UNCHANGED kind
  /\ troubled' = TRUE
  /\ UNCHANGED <<artifacts, job, step, stopVars, asked>>

(* In the try block: the log line, an artifact, the status.                 *)
TryFails(w) ==
  /\ "call" \in Faults
  /\ \E from \in {"started", "files", "ok"} : Goes(w, from, Caught(w))
  /\ \/ UNCHANGED <<status, artifacts>>
     \/ place[w] = "files" /\ InsertArtifact(w) /\ UNCHANGED status
     \/ place[w] = "ok" /\ Mark(w, "succeeded") /\ UNCHANGED artifacts
  /\ troubled' = TRUE
  /\ UNCHANGED <<kind, job, step, stopVars, asked>>

(* Elsewhere: the error is logged by the loop.                              *)
MarkFails(w) ==
  /\ "call" \in Faults
  /\ place[w] \in {"cancel", "fail", "unknown"}
  /\ UNCHANGED rowVars \/ Mark(w, Outcome[place[w]])
  /\ Ends(w)
  /\ troubled' = TRUE
  /\ UNCHANGED <<artifacts, asked>>

(* The process dies, of a rejection that nobody awaits as well, and starts  *)
(* again.                                                                   *)
CrashRestart(w) ==
  /\ "crash" \in Faults
  /\ place[w] # "off"
  /\ place' = [place EXCEPT ![w] = "loop"]
  /\ job' = [job EXCEPT ![w] = NoJob]
  /\ step' = [step EXCEPT ![w] = 0]
  /\ seen' = [seen EXCEPT ![w] = FALSE]
  /\ aborted' = [aborted EXCEPT ![w] = FALSE]
  /\ troubled' = TRUE
  /\ UNCHANGED <<rowVars, artifacts, asked>>

-----------------------------------------------------------------------------
Advance(w) ==
  \/ TimerFires(w) \/ NothingQueued(w) \/ \E j \in Jobs : ClaimNextJob(w, j)
  \/ UnknownType(w) \/ Started(w) \/ StepDone(w) \/ FileDone(w) \/ Marked(w)

Next ==
  \/ \E j \in Jobs : PostJob(j) \/ CancelJob(j)
  \/ \E w \in Workers : \/ Advance(w) \/ Look(w) \/ Abort(w)
                        \/ ClaimFails(w) \/ TryFails(w) \/ MarkFails(w)
                        \/ CrashRestart(w)

Spec == Init /\ [][Next]_vars

(* Timers fire and awaited calls are answered.                              *)
FairSpec == Spec /\ \A w \in Workers : WF_vars(Advance(w))

-----------------------------------------------------------------------------
(* Types of the variables; a runner never does more than its steps.         *)
TypeOK ==
  /\ status \in [Jobs -> Statuses]
  /\ kind \in [Jobs -> Types]
  /\ artifacts \in [Jobs -> Seq(STRING)]
  /\ place \in [Workers -> Places]
  /\ job \in [Workers -> Jobs \cup {NoJob}]
  /\ step \in [Workers -> Nat]
  /\ \A w \in Workers : place[w] = "steps" => step[w] < Steps
  /\ seen \in [Workers -> BOOLEAN]
  /\ aborted \in [Workers -> BOOLEAN]
  /\ asked \subseteq Jobs
  /\ troubled \in BOOLEAN

(* Two workers never run the same row, in whatever order they claim, are    *)
(* canceled, fail and start again (FOR UPDATE SKIP LOCKED, worker.js).      *)
ClaimExclusive ==
  \A v, w \in Workers : job[v] # NoJob /\ job[v] = job[w] => v = w

(* A job reported succeeded has every artifact of its type, in their order, *)
(* even if a cancel was requested or an answer lost.                        *)
SuccessHasArtifacts ==
  \A j \in Jobs : status[j] = "succeeded" =>
    /\ kind[j] # OtherType
    /\ artifacts[j] = Files[kind[j]]

(* A job ends canceled only if its cancel was called: neither the signal    *)
(* nor a late answer of the interval outlives the job it belongs to.        *)
CanceledWasAsked == \A j \in Jobs : status[j] = "canceled" => j \in asked

(* What the row says once every worker has let go of it: until then it is   *)
(* running, whatever the cancel route or a lost answer has written.         *)
Settled ==
  [j \in Jobs |-> IF \E w \in Workers : job[w] = j THEN "running" ELSE status[j]]

Lifecycle == INSTANCE JobLifecycle WITH Jobs <- Jobs, status <- Settled

(* The worker keeps the life of JobLifecycle with its own wider cancel: a   *)
(* row that no worker has is taken once, and from then on only the worker   *)
(* that took it, or a cancel of a row whose worker died, gives it its final *)
(* status, which does not change.                                           *)
FollowsLifecycle == Lifecycle!Spec

(* A canceled row that no worker runs stays canceled: the cancel of a       *)
(* queued job is never undone by a claim.                                   *)
CancelSticks ==
  [][\A j \in Jobs :
       status[j] = "canceled" /\ (\A w \in Workers : job[w] # j)
         => status'[j] = "canceled"]_vars

(* Unless something fails, a row that a worker runs reaches a final status  *)
(* and is let go.                                                           *)
WorkEnds ==
  \A j \in Jobs : (\E w \in Workers : job[w] = j)
    ~> \/ status[j] \in Terminal /\ \A w \in Workers : job[w] # j
       \/ troubled

(* Unless something fails, every queued row leaves the queue: the loop is   *)
(* armed again however a turn of it ends.                                   *)
EveryQueuedJobLeaves ==
  \A j \in Jobs : status[j] = "queued" ~> status[j] # "queued" \/ troubled
=============================================================================
