------------------------------ MODULE JobRunner ------------------------------
(***************************************************************************)
(* src/jobRunner.js with the job routes of server.js.                      *)
(*                                                                         *)
(* A 2 s interval starts ticks that nothing keeps from overlapping.  Each  *)
(* tick takes a client of the pg pool, claims one queued row inside a      *)
(* transaction, runs the backtest with that client still checked out, asks *)
(* the pool for a second client to record the artifact, and writes the     *)
(* final status.  The cancel route marks an in-memory set and then updates *)
(* the row on a client of its own.  Both may meet a tick at any await.     *)
(***************************************************************************)
EXTENDS Naturals, Sequences, FiniteSets

CONSTANTS
  Jobs,        \* rows that may be inserted
  Ticks,       \* slots for ticks that are under way at the same time
  Priorities,  \* values of the priority column
  PoolSize,    \* clients of the pool (pg's default max is 10)
  Faults,      \* what may go wrong: a subset of {"crash", "db", "stop"}
  NoTick,      \* no tick
  NoJob        \* no job

ASSUME JobRunnerAssumption ==
  /\ IsFiniteSet(Jobs)
  /\ IsFiniteSet(Ticks)
  /\ Priorities \subseteq Nat
  /\ PoolSize \in Nat \ {0}
  /\ NoTick \notin Ticks
  /\ NoJob \notin Jobs

VARIABLES
  status,           \* jobs.status, "none" before the INSERT
  priority,         \* jobs.priority
  created,          \* jobs.created_at, as the rank of the INSERT
  rowLock,          \* the tick whose open transaction has updated the row
  artifacts,        \* jobs with a row in job_artifacts
  timer,            \* loopTimer is armed
  pc,               \* where each tick is suspended
  job,              \* the row a tick has claimed
  outcome,          \* the status a tick is about to write
  free,             \* idle clients of the pool
  queue,            \* the pool's FIFO of callers waiting for a client
  cancelRequested,  \* the Set of jobRunner.js
  canceling         \* cancel handlers awaiting their UPDATE

jobVars    == <<status, priority, created, artifacts>>
tickVars   == <<pc, job, outcome>>
poolVars   == <<free, queue>>
cancelVars == <<cancelRequested, canceling>>
vars == <<jobVars, rowLock, timer, tickVars, poolVars, cancelVars>>

Terminal == {"succeeded", "failed", "canceled"}
Statuses == {"none", "queued", "running"} \cup Terminal

(* The awaits of tick: "connect" and "second" wait for the pool, the others *)
(* for a statement.  "recover" is the UPDATE of a catch block.              *)
Working == {"check", "query", "second", "insert", "progress", "finish",
            "recover"}
Places  == {"idle", "connect", "claim", "commit"} \cup Working

(* requestCancel stores Number(id); pg hands a BIGINT id over as a string,  *)
(* and a Set tells the two apart.                                           *)
CancelKeys == {"number", "string"} \X Jobs

Init ==
  /\ status = [j \in Jobs |-> "none"]
  /\ priority = [j \in Jobs |-> 0]
  /\ created = [j \in Jobs |-> 0]
  /\ rowLock = [j \in Jobs |-> NoTick]
  /\ artifacts = {}
  /\ timer = TRUE
  /\ pc = [t \in Ticks |-> "idle"]
  /\ job = [t \in Ticks |-> NoJob]
  /\ outcome = [t \in Ticks |-> "none"]
  /\ free = PoolSize
  /\ queue = <<>>
  /\ cancelRequested = {}
  /\ canceling = {}

-----------------------------------------------------------------------------
(* The pool.  A one-statement db.query of a handler takes a client and      *)
(* returns it within the step; it gets one only when nobody waits longer.   *)

ClientAtHand == free > 0 /\ queue = <<>>

Granted(t) == free > 0 /\ queue # <<>> /\ t = Head(queue)

Goto(t, place) == pc' = [pc EXCEPT ![t] = place]

(* The finally block: whatever happened, the client goes back.  Without it  *)
(* the early return of a tick that found no job would keep the client.      *)
Release_Leaks(t) ==
  /\ Goto(t, "idle")
  /\ job' = [job EXCEPT ![t] = NoJob]
  /\ outcome' = [outcome EXCEPT ![t] = "none"]
  /\ free' = IF pc[t] = "claim" THEN free ELSE free + 1
  /\ UNCHANGED queue

Release(t) ==
  /\ Goto(t, "idle")
  /\ job' = [job EXCEPT ![t] = NoJob]
  /\ outcome' = [outcome EXCEPT ![t] = "none"]
  /\ free' = free + 1
  /\ UNCHANGED queue

-----------------------------------------------------------------------------
(* The HTTP handlers.                                                       *)

Submitted == {j \in Jobs : status[j] # "none"}

PostBacktest(j, p) ==
  /\ ClientAtHand
  /\ status[j] = "none"
  /\ status' = [status EXCEPT ![j] = "queued"]
  /\ priority' = [priority EXCEPT ![j] = p]
  /\ created' = [created EXCEPT ![j] = Cardinality(Submitted) + 1]
  /\ UNCHANGED <<artifacts, rowLock, timer, tickVars, poolVars, cancelVars>>

RequestCancel(j) ==
  /\ status[j] # "none"
  /\ cancelRequested' = cancelRequested \cup {<<"number", j>>}
  /\ canceling' = canceling \cup {j}
  /\ UNCHANGED <<jobVars, rowLock, timer, tickVars, poolVars>>

(* The statuses the cancel route may overwrite (the unmounted router of     *)
(* routes/jobs.js would have the wider set).                                *)
Cancelable_Running == {"queued", "running"}
Cancelable == {"queued"}

(* The UPDATE waits for the row lock of an open claim and then looks again  *)
(* at the status.                                                           *)
CancelUpdate(j) ==
  /\ ClientAtHand
  /\ j \in canceling
  /\ rowLock[j] = NoTick
  /\ canceling' = canceling \ {j}
  /\ status' = IF status[j] \in Cancelable
                 THEN [status EXCEPT ![j] = "canceled"] ELSE status
  /\ UNCHANGED <<priority, created, artifacts, rowLock, timer, tickVars,
                 poolVars, cancelRequested>>

-----------------------------------------------------------------------------
(* The tick.                                                                *)

Tick(t) ==
  /\ timer
  /\ pc[t] = "idle"
  /\ Goto(t, "connect")
  /\ queue' = Append(queue, t)
  /\ UNCHANGED <<jobVars, rowLock, timer, job, outcome, free, cancelVars>>

Connected(t) ==
  /\ pc[t] = "connect"
  /\ Granted(t)
  /\ Goto(t, "claim")
  /\ free' = free - 1
  /\ queue' = Tail(queue)
  /\ UNCHANGED <<jobVars, rowLock, timer, job, outcome, cancelVars>>

(* The rows the subquery of claimNextJob may return: queued, not locked by  *)
(* another transaction, and first by priority DESC, created_at ASC.         *)
Claimable_Locked == {j \in Jobs : status[j] = "queued"}
Claimable == {j \in Jobs : status[j] = "queued" /\ rowLock[j] = NoTick}

Precedes_NewestFirst(i, j) ==
  \/ priority[i] > priority[j]
  \/ priority[i] = priority[j] /\ created[i] >= created[j]
Precedes(i, j) ==
  \/ priority[i] > priority[j]
  \/ priority[i] = priority[j] /\ created[i] <= created[j]

First(j) == j \in Claimable /\ \A i \in Claimable : Precedes(j, i)

ClaimNextJob(t, j) ==
  /\ pc[t] = "claim"
  /\ First(j)
  /\ rowLock' = [rowLock EXCEPT ![j] = t]
  /\ job' = [job EXCEPT ![t] = j]
  /\ Goto(t, "commit")
  /\ UNCHANGED <<jobVars, timer, outcome, poolVars, cancelVars>>

NothingQueued(t) ==
  /\ pc[t] = "claim"
  /\ Claimable = {}
  /\ Release(t)
  /\ UNCHANGED <<jobVars, rowLock, timer, cancelVars>>

Unlock(t) == rowLock' = [j \in Jobs |-> IF rowLock[j] = t THEN NoTick
                                                          ELSE rowLock[j]]

Commit(t) ==
  /\ pc[t] = "commit"
  /\ status' = [status EXCEPT ![job[t]] = "running"]
  /\ Unlock(t)
  /\ Goto(t, "check")
  /\ UNCHANGED <<priority, created, artifacts, timer, job, outcome, poolVars,
                 cancelVars>>

(* What cancelRequested.has(job.id) answers.                                *)
CancelSeen(j) == <<"string", j>> \in cancelRequested

(* processJob up to the candle query of runBacktest.  Every mounted route   *)
(* inserts the type 'backtest', so the branch on it is always taken.        *)
Check(t) ==
  /\ pc[t] = "check"
  /\ IF CancelSeen(job[t])
       THEN /\ Goto(t, "recover")
            /\ outcome' = [outcome EXCEPT ![t] = "canceled"]
       ELSE /\ Goto(t, "query")
            /\ UNCHANGED outcome
  /\ UNCHANGED <<jobVars, rowLock, timer, job, poolVars, cancelVars>>

(* The candles are here: the csv is written and copied without an await,    *)
(* and db.query of writeJobArtifact queues for a second client.             *)
Candles_NotAwaited(t) ==
  /\ pc[t] = "query"
  /\ Goto(t, "progress")
  /\ UNCHANGED <<jobVars, rowLock, timer, job, outcome, poolVars, cancelVars>>

Candles(t) ==
  /\ pc[t] = "query"
  /\ Goto(t, "second")
  /\ queue' = Append(queue, t)
  /\ UNCHANGED <<jobVars, rowLock, timer, job, outcome, free, cancelVars>>

SecondClient(t) ==
  /\ pc[t] = "second"
  /\ Granted(t)
  /\ Goto(t, "insert")
  /\ free' = free - 1
  /\ queue' = Tail(queue)
  /\ UNCHANGED <<jobVars, rowLock, timer, job, outcome, cancelVars>>

InsertArtifact(t) ==
  /\ pc[t] = "insert"
  /\ artifacts' = artifacts \cup {job[t]}
  /\ Goto(t, "progress")
  /\ free' = free + 1
  /\ UNCHANGED <<status, priority, created, rowLock, timer, job, outcome,
                 queue, cancelVars>>

(* The progress UPDATE returns and processJob picks the final status.       *)
Progress(t) ==
  /\ pc[t] = "progress"
  /\ Goto(t, "finish")
  /\ outcome' = [outcome EXCEPT ![t] =
                   IF CancelSeen(job[t]) THEN "canceled" ELSE "succeeded"]
  /\ UNCHANGED <<jobVars, rowLock, timer, job, poolVars, cancelVars>>

(* The last UPDATE of the row, by id alone, from the try or the catch block.*)
Finish(t) ==
  /\ pc[t] \in {"finish", "recover"}
  /\ status' = [status EXCEPT ![job[t]] = outcome[t]]
  /\ Release(t)
  /\ UNCHANGED <<priority, created, artifacts, rowLock, timer, cancelVars>>

-----------------------------------------------------------------------------
(* What goes wrong.                                                         *)

(* A statement of the try block of processJob fails.  The artifact INSERT   *)
(* gives its own client back first.                                         *)
JobFails(t) ==
  /\ "db" \in Faults
  /\ pc[t] \in {"query", "insert", "progress", "finish"}
  /\ free' = IF pc[t] = "insert" THEN free + 1 ELSE free
  /\ Goto(t, "recover")
  /\ outcome' = [outcome EXCEPT ![t] = "failed"]
  /\ UNCHANGED <<jobVars, rowLock, timer, job, queue, cancelVars>>

(* A failure that only the catch block of tick sees: of the claim, of its   *)
(* COMMIT (which the server may nevertheless have done), or of the UPDATE   *)
(* in the catch block of processJob.  ROLLBACK undoes an open claim.        *)
TickFails(t) ==
  /\ "db" \in Faults
  /\ pc[t] \in {"claim", "commit", "recover"}
  /\ \/ UNCHANGED status
     \/ pc[t] = "commit" /\ status' = [status EXCEPT ![job[t]] = "running"]
  /\ Unlock(t)
  /\ Release(t)
  /\ UNCHANGED <<priority, created, artifacts, timer, cancelVars>>

(* stop(): no further ticks; those under way go on.                         *)
Stop ==
  /\ "stop" \in Faults
  /\ timer
  /\ timer' = FALSE
  /\ UNCHANGED <<jobVars, rowLock, tickVars, poolVars, cancelVars>>

(* The process dies and a new one boots: the server rolls open transactions *)
(* back, the memory is gone, the rows stay, and start() arms the timer.     *)
CrashRestart ==
  /\ "crash" \in Faults
  /\ rowLock' = [j \in Jobs |-> NoTick]
  /\ timer' = TRUE
  /\ pc' = [t \in Ticks |-> "idle"]
  /\ job' = [t \in Ticks |-> NoJob]
  /\ outcome' = [t \in Ticks |-> "none"]
  /\ free' = PoolSize
  /\ queue' = <<>>
  /\ cancelRequested' = {}
  /\ canceling' = {}
  /\ UNCHANGED jobVars

-----------------------------------------------------------------------------
Advance(t) ==
  \/ Connected(t) \/ (\E j \in Jobs : ClaimNextJob(t, j)) \/ NothingQueued(t)
  \/ Commit(t) \/ Check(t) \/ Candles(t) \/ SecondClient(t)
  \/ InsertArtifact(t) \/ Progress(t) \/ Finish(t)

Http(j) ==
  \/ \E p \in Priorities : PostBacktest(j, p)
  \/ RequestCancel(j)
  \/ CancelUpdate(j)

Next ==
  \/ \E j \in Jobs : Http(j)
  \/ \E t \in Ticks : Tick(t) \/ Advance(t) \/ JobFails(t) \/ TickFails(t)
  \/ Stop
  \/ CrashRestart

Spec == Init /\ [][Next]_vars

(* The interval keeps firing while it is armed, and every statement sent to *)
(* a live server is answered.                                               *)
Fairness ==
  /\ WF_vars(\E t \in Ticks : Tick(t))
  /\ \A t \in Ticks : WF_vars(Advance(t))

-----------------------------------------------------------------------------
(* Types of the variables (jobs table, pg pool, module state).              *)
TypeOK ==
  /\ status \in [Jobs -> Statuses]
  /\ priority \in [Jobs -> Nat]
  /\ created \in [Jobs -> Nat]
  /\ rowLock \in [Jobs -> Ticks \cup {NoTick}]
  /\ artifacts \subseteq Jobs
  /\ timer \in BOOLEAN
  /\ pc \in [Ticks -> Places]
  /\ job \in [Ticks -> Jobs \cup {NoJob}]
  /\ outcome \in [Ticks -> {"none"} \cup Terminal]
  /\ free \in Nat
  /\ queue \in Seq(Ticks)
  /\ cancelRequested \subseteq CancelKeys
  /\ canceling \subseteq Jobs

Holders == {t \in Ticks : pc[t] \notin {"idle", "connect"}}
Seconds == {t \in Ticks : pc[t] = "insert"}

(* A row locked by an open claim is still queued and belongs to the tick    *)
(* that will commit it; a tick before its claim has no row.                 *)
ClaimsLocked ==
  /\ \A t \in Ticks : pc[t] = "commit" =>
       /\ job[t] \in Jobs
       /\ status[job[t]] = "queued"
       /\ rowLock[job[t]] = t
  /\ \A j \in Jobs, t \in Ticks : rowLock[j] = t => pc[t] = "commit" /\ job[t] = j
  /\ \A t \in Ticks : pc[t] \in {"idle", "connect", "claim"} => job[t] = NoJob

(* A tick past the artifact INSERT has the row, and only such a tick can be *)
(* about to write succeeded.                                                *)
ArtifactsInHand ==
  /\ \A t \in Ticks : pc[t] = "progress" => job[t] \in artifacts
  /\ \A t \in Ticks : pc[t] = "finish" => outcome[t] \in {"canceled", "succeeded"}
  /\ \A t \in Ticks : pc[t] = "recover" => outcome[t] \in {"canceled", "failed"}
  /\ \A t \in Ticks : pc[t] = "finish" /\ outcome[t] = "succeeded"
                         => job[t] \in artifacts

(* No two ticks work on the same row, however the 2 s interval overlaps     *)
(* them (claimNextJob: FOR UPDATE SKIP LOCKED plus the status filter).      *)
ClaimExclusive ==
  \A t, u \in Ticks : t # u /\ job[t] # NoJob => job[t] # job[u]

(* While a tick works on a row the table says running, so a cancel that won *)
(* the race against the claim is never run and no cancel lands under a      *)
(* running tick (processJob's last UPDATE does not look at the status).     *)
OwnerRuns ==
  \A t \in Ticks :
    pc[t] \in Working => job[t] \in Jobs /\ status[job[t]] = "running"

(* A client is never lost and never handed out twice: the idle clients and  *)
(* those the ticks hold, one each and two during the artifact INSERT, are   *)
(* the whole pool (tick's finally, pool.query in writeJobArtifact).         *)
ClientsAccounted ==
  free + Cardinality(Holders) + Cardinality(Seconds) = PoolSize

(* As long as fewer ticks overlap than the pool has clients, a tick waiting *)
(* for its second client always has somebody to wait for: a tick that holds *)
(* a client and is not itself waiting for the pool.                         *)
OverlapBelowPool == Cardinality(Ticks) < PoolSize
NoPoolDeadlock ==
  OverlapBelowPool /\ free = 0 /\ (\E t \in Ticks : pc[t] = "second")
    => \E u \in Holders : pc[u] # "second"

(* A job that reports success has its artifact row, although the row is     *)
(* written on another connection than the status (runBacktest).             *)
ArtifactBeforeSuccess ==
  \A j \in Jobs : status[j] = "succeeded" => j \in artifacts

(* Without crashes and database failures every running row has a tick that  *)
(* will finish it, also after stop(): only those two leave a row running    *)
(* with nobody to finish it, and nothing in the code picks it up again.     *)
NoOrphan ==
  \A j \in Jobs : status[j] = "running"
    => \E t \in Ticks : job[t] = j /\ pc[t] \in Working

(* succeeded, failed and canceled are final (GET /jobs/:id pollers stop on  *)
(* them), whatever cancel handlers and overlapping ticks do.                *)
TerminalIsFinal ==
  [][\A j \in Jobs : status[j] \in Terminal => status'[j] = status[j]]_vars

(* The runner and the routes move a row only along the life of JobLifecycle.*)
Lifecycle == INSTANCE JobLifecycle WITH Jobs <- Jobs, status <- status
FollowsLifecycle == Lifecycle!Spec

IInv ==
  /\ TypeOK
  /\ ClaimsLocked
  /\ OwnerRuns
  /\ ClaimExclusive
  /\ ArtifactsInHand
  /\ ArtifactBeforeSuccess

(* With fewer ticks than clients and no faults a claimed job reaches a      *)
(* final status, also after stop().                                         *)
EveryClaimedJobEnds ==
  \A j \in Jobs : status[j] = "running" ~> status[j] \in Terminal

(* A job canceled before processJob takes its last look at cancelRequested  *)
(* is not reported as succeeded.                                            *)
CancelIsSeen ==
  [][\A t \in Ticks : pc[t] = "progress" /\ pc'[t] = "finish"
        /\ <<"number", job[t]>> \in cancelRequested
        => outcome'[t] = "canceled"]_vars
=============================================================================
