--------------------------- MODULE JobRunnerProofs ---------------------------
(***************************************************************************)
(* For any number of rows, overlapping ticks, clients and any faults: the  *)
(* claim is exclusive, final statuses stay final, success means an         *)
(* artifact, and the rows follow JobLifecycle.                             *)
(***************************************************************************)
EXTENDS JobRunner, FiniteSetTheorems, TLAPS

(* The rank a new row gets is a number.                                     *)
LEMMA RankIsNat == Cardinality(Submitted) + 1 \in Nat
<1>1. IsFiniteSet(Submitted)
  BY JobRunnerAssumption, FS_Subset DEF Submitted
<1>2. QED BY <1>1, FS_CardinalityType

(* Init establishes the inductive invariant.                                *)
LEMMA InitInductive == Init => IInv
BY JobRunnerAssumption
DEF Init, IInv, TypeOK, ClaimsLocked, OwnerRuns, ClaimExclusive, ArtifactsInHand,
    ArtifactBeforeSuccess, Statuses, Terminal, Places, Working, CancelKeys

(* No handler disturbs a tick: the only status a handler changes is that of *)
(* a row nobody has inserted, or of a queued row without a row lock.        *)
LEMMA HttpInductive ==
  ASSUME IInv, NEW j \in Jobs, Http(j) PROVE IInv'
<1> USE JobRunnerAssumption
    DEF IInv, TypeOK, ClaimsLocked, OwnerRuns, ClaimExclusive, ArtifactsInHand,
        ArtifactBeforeSuccess, jobVars, tickVars, poolVars, cancelVars,
        Statuses, Terminal, Places, Working, CancelKeys
<1>1. ASSUME NEW p \in Priorities, PostBacktest(j, p) PROVE IInv'
  BY <1>1, RankIsNat DEF PostBacktest
<1>2. CASE RequestCancel(j) BY <1>2 DEF RequestCancel
<1>3. CASE CancelUpdate(j) BY <1>3 DEF CancelUpdate, Cancelable
<1>4. QED BY <1>1, <1>2, <1>3 DEF Http

LEMMA AdvanceInductive ==
  ASSUME IInv, NEW t \in Ticks, Advance(t) PROVE IInv'
<1> USE JobRunnerAssumption
    DEF IInv, TypeOK, ClaimsLocked, OwnerRuns, ClaimExclusive, ArtifactsInHand,
        ArtifactBeforeSuccess, jobVars, tickVars, poolVars, cancelVars,
        Statuses, Terminal, Places, Working, Goto
<1>1. CASE Connected(t) BY <1>1 DEF Connected, Granted
<1>2. ASSUME NEW j \in Jobs, ClaimNextJob(t, j) PROVE IInv'
  <2>1. status[j] = "queued" /\ rowLock[j] = NoTick
    BY <1>2 DEF ClaimNextJob, First, Claimable
  <2>2. ASSUME NEW u \in Ticks, job[u] = j PROVE FALSE
    <3>1. pc[u] \notin {"idle", "connect", "claim"} BY <2>2
    <3>2. pc[u] # "commit" BY <2>1, <2>2
    <3>3. pc[u] \notin Working BY <2>1, <2>2
    <3>4. QED BY <3>1, <3>2, <3>3
  <2>3. TypeOK' BY <1>2 DEF ClaimNextJob
  <2>4. ClaimsLocked' BY <1>2, <2>1 DEF ClaimNextJob
  <2>5. OwnerRuns' /\ ClaimExclusive' BY <1>2, <2>2 DEF ClaimNextJob
  <2>6. ArtifactsInHand' /\ ArtifactBeforeSuccess' BY <1>2 DEF ClaimNextJob
  <2>7. QED BY <2>3, <2>4, <2>5, <2>6
<1>3. CASE NothingQueued(t) BY <1>3 DEF NothingQueued, Release
<1>4. CASE Commit(t) BY <1>4 DEF Commit, Unlock
<1>5. CASE Check(t)
  <2>1. /\ pc[t] = "check"
        /\ UNCHANGED <<jobVars, rowLock, timer, job, poolVars, cancelVars>>
    BY <1>5 DEF Check
  <2>2. \/ /\ pc' = [pc EXCEPT ![t] = "recover"]
           /\ outcome' = [outcome EXCEPT ![t] = "canceled"]
        \/ /\ pc' = [pc EXCEPT ![t] = "query"]
           /\ outcome' = outcome
    BY <1>5, Zenon DEF Check, Goto
  <2>3. CASE pc' = [pc EXCEPT ![t] = "recover"]
             /\ outcome' = [outcome EXCEPT ![t] = "canceled"]
    BY <2>1, <2>3
  <2>4. CASE pc' = [pc EXCEPT ![t] = "query"] /\ outcome' = outcome
    BY <2>1, <2>4
  <2>5. QED BY <2>2, <2>3, <2>4
<1>6. CASE Candles(t) BY <1>6 DEF Candles
<1>7. CASE SecondClient(t) BY <1>7 DEF SecondClient, Granted
<1>8. CASE InsertArtifact(t) BY <1>8 DEF InsertArtifact
<1>9. CASE Progress(t) BY <1>9 DEF Progress
<1>10. CASE Finish(t) BY <1>10 DEF Finish, Release
<1>11. QED BY <1>1, <1>2, <1>3, <1>4, <1>5, <1>6, <1>7, <1>8, <1>9, <1>10
           DEF Advance

LEMMA FaultInductive ==
  ASSUME IInv, NEW t \in Ticks, JobFails(t) \/ TickFails(t) PROVE IInv'
<1> USE JobRunnerAssumption
    DEF IInv, TypeOK, ClaimsLocked, OwnerRuns, ClaimExclusive, ArtifactsInHand,
        ArtifactBeforeSuccess, jobVars, tickVars, poolVars, cancelVars,
        Statuses, Terminal, Places, Working, Goto
<1>1. CASE JobFails(t) BY <1>1 DEF JobFails
<1>2. CASE TickFails(t)
  <2>1. CASE UNCHANGED status BY <1>2, <2>1 DEF TickFails, Unlock, Release
  <2>2. CASE pc[t] = "commit" /\ status' = [status EXCEPT ![job[t]] = "running"]
    BY <1>2, <2>2 DEF TickFails, Unlock, Release
  <2>3. QED BY <1>2, <2>1, <2>2 DEF TickFails
<1>3. QED BY <1>1, <1>2

(* The inductive invariant is preserved by every step.                      *)
LEMMA NextInductive == IInv /\ [Next]_vars => IInv'
<1> SUFFICES ASSUME IInv, [Next]_vars PROVE IInv'
  OBVIOUS
<1> USE JobRunnerAssumption
    DEF IInv, TypeOK, ClaimsLocked, OwnerRuns, ClaimExclusive, ArtifactsInHand,
        ArtifactBeforeSuccess, jobVars, tickVars, poolVars, cancelVars,
        Statuses, Terminal, Places, Working, Goto
<1>1. ASSUME NEW t \in Ticks, Tick(t) PROVE IInv'
  BY <1>1 DEF Tick
<1>2. CASE Stop
  <2>1. timer' \in BOOLEAN BY <1>2 DEF Stop
  <2>2. UNCHANGED <<jobVars, rowLock, tickVars, poolVars, cancelVars>>
    BY <1>2 DEF Stop
  <2>3. QED BY <2>1, <2>2
<1>3. CASE CrashRestart BY <1>3 DEF CrashRestart
<1>4. CASE UNCHANGED vars BY <1>4 DEF vars
<1>5. QED
  BY <1>1, <1>2, <1>3, <1>4, HttpInductive, AdvanceInductive, FaultInductive DEF Next

(* Every variable keeps its type.                                           *)
THEOREM TypeCorrect == Spec => []TypeOK
BY InitInductive, NextInductive, PTL DEF Spec, IInv

LEMMA Inductive == Spec => []IInv
BY InitInductive, NextInductive, PTL DEF Spec

(* Two overlapping ticks never hold the same row.                           *)
THEOREM ClaimIsExclusive == Spec => []ClaimExclusive
BY Inductive, PTL DEF IInv

(* A row under a tick is running: a cancel that came first is never run.    *)
THEOREM OwnersRun == Spec => []OwnerRuns
BY Inductive, PTL DEF IInv

(* A row that says succeeded has its artifact.                              *)
THEOREM SuccessHasArtifact == Spec => []ArtifactBeforeSuccess
BY Inductive, PTL DEF IInv

-----------------------------------------------------------------------------
(* The status column, step by step.                                         *)

(* Every step leaves the statuses alone or is a step of JobLifecycle.       *)
LEMMA StepOfLifecycle == IInv /\ [Next]_vars => [Lifecycle!Next]_status
<1> SUFFICES ASSUME IInv, [Next]_vars PROVE [Lifecycle!Next]_status
  OBVIOUS
<1> USE DEF IInv, TypeOK, jobVars, Lifecycle!Next, Lifecycle!Submit, Lifecycle!Withdraw,
            Lifecycle!Claim, Lifecycle!Finish, Lifecycle!Move, Lifecycle!Terminal
<1>1. ASSUME NEW j \in Jobs, Http(j) PROVE [Lifecycle!Next]_status
  BY <1>1 DEF Http, PostBacktest, RequestCancel, CancelUpdate, Cancelable
<1>2. ASSUME NEW t \in Ticks, Tick(t) PROVE [Lifecycle!Next]_status
  BY <1>2 DEF Tick
<1>3. ASSUME NEW t \in Ticks, Advance(t) PROVE [Lifecycle!Next]_status
  <2>1. CASE Commit(t)
    <3>1. job[t] \in Jobs /\ status[job[t]] = "queued"
      BY <2>1 DEF Commit, ClaimsLocked
    <3>2. Lifecycle!Claim(job[t])
      BY <2>1, <3>1 DEF Commit
    <3>3. QED BY <3>1, <3>2
  <2>2. CASE Finish(t)
    <3>1. /\ job[t] \in Jobs
          /\ status[job[t]] = "running"
          /\ outcome[t] \in {"canceled", "succeeded", "failed"}
      BY <2>2 DEF Finish, OwnerRuns, ArtifactsInHand, Working
    <3>2. Lifecycle!Finish(job[t])
      BY <2>2, <3>1 DEF Finish
    <3>3. QED BY <3>1, <3>2
  <2>3. CASE ~Commit(t) /\ ~Finish(t)
    BY <1>3, <2>3 DEF Advance, Connected, ClaimNextJob, NothingQueued, Check, Candles,
       SecondClient, InsertArtifact, Progress
  <2>4. QED BY <2>1, <2>2, <2>3
<1>4. ASSUME NEW t \in Ticks, JobFails(t) PROVE [Lifecycle!Next]_status
  BY <1>4 DEF JobFails
<1>5. ASSUME NEW t \in Ticks, TickFails(t) PROVE [Lifecycle!Next]_status
  <2>1. CASE UNCHANGED status BY <2>1
  <2>2. CASE pc[t] = "commit" /\ status' = [status EXCEPT ![job[t]] = "running"]
    <3>1. job[t] \in Jobs /\ status[job[t]] = "queued"
      BY <2>2 DEF ClaimsLocked
    <3>2. Lifecycle!Claim(job[t])
      BY <2>2, <3>1
    <3>3. QED BY <3>1, <3>2
  <2>3. QED BY <1>5, <2>1, <2>2 DEF TickFails
<1>6. CASE Stop BY <1>6 DEF Stop
<1>7. CASE CrashRestart BY <1>7 DEF CrashRestart
<1>8. CASE UNCHANGED vars BY <1>8 DEF vars
<1>9. QED BY <1>1, <1>2, <1>3, <1>4, <1>5, <1>6, <1>7, <1>8 DEF Next

(* The runner and the routes implement the life of a row.                   *)
THEOREM ImplementsLifecycle == Spec => FollowsLifecycle
<1>1. Init => Lifecycle!Init
  BY DEF Init, Lifecycle!Init
<1>2. QED
  BY <1>1, Inductive, StepOfLifecycle, PTL DEF Spec, FollowsLifecycle, Lifecycle!Spec

(* A final status is final.                                                 *)
THEOREM FinalStaysFinal == Spec => TerminalIsFinal
<1>1. IInv /\ [Next]_vars =>
        [\A j \in Jobs : status[j] \in Terminal => status'[j] = status[j]]_vars
  <2> SUFFICES ASSUME IInv, [Next]_vars, NEW j \in Jobs, status[j] \in Terminal
               PROVE status'[j] = status[j]
    OBVIOUS
  <2>1. [Lifecycle!Next]_status BY StepOfLifecycle
  <2>2. QED
    BY <2>1 DEF IInv, TypeOK, Lifecycle!Next, Lifecycle!Submit, Lifecycle!Withdraw,
       Lifecycle!Claim, Lifecycle!Finish, Lifecycle!Move, Terminal
<1>2. QED BY <1>1, Inductive, PTL DEF Spec, TerminalIsFinal

-----------------------------------------------------------------------------
(* The pool.                                                                *)

LEMMA CountsAreNat ==
  /\ IsFiniteSet(Holders) /\ Cardinality(Holders) \in Nat
  /\ IsFiniteSet(Seconds) /\ Cardinality(Seconds) \in Nat
<1>1. Holders \subseteq Ticks /\ Seconds \subseteq Ticks
  BY DEF Holders, Seconds
<1>2. IsFiniteSet(Holders) /\ IsFiniteSet(Seconds)
  BY <1>1, FS_Subset, JobRunnerAssumption
<1>3. QED BY <1>2, FS_CardinalityType

(* How a tick's move changes the number of clients the ticks hold.          *)
LEMMA CountAfterMove ==
  ASSUME TypeOK, NEW t \in Ticks, NEW place \in Places, Goto(t, place)
  PROVE  /\ Cardinality(Holders') =
               Cardinality(Holders)
               + (IF place \in {"idle", "connect"} THEN 0 ELSE 1)
               - (IF pc[t] \in {"idle", "connect"} THEN 0 ELSE 1)
         /\ Cardinality(Seconds') =
               Cardinality(Seconds) + (IF place = "insert" THEN 1 ELSE 0)
                                    - (IF pc[t] = "insert" THEN 1 ELSE 0)
<1> DEFINE Rest == {u \in Ticks \ {t} : pc[u] \notin {"idle", "connect"}}
           RestS == {u \in Ticks \ {t} : pc[u] = "insert"}
<1>1. pc' = [pc EXCEPT ![t] = place] /\ pc \in [Ticks -> Places]
  BY DEF Goto, TypeOK
<1>2. /\ Holders  = IF pc[t] \in {"idle", "connect"} THEN Rest ELSE Rest \cup {t}
      /\ Holders' = IF place \in {"idle", "connect"} THEN Rest ELSE Rest \cup {t}
  BY <1>1 DEF Holders
<1>3. /\ Seconds  = IF pc[t] = "insert" THEN RestS \cup {t} ELSE RestS
      /\ Seconds' = IF place = "insert" THEN RestS \cup {t} ELSE RestS
  BY <1>1 DEF Seconds
<1>4. IsFiniteSet(Rest) /\ IsFiniteSet(RestS) /\ t \notin Rest /\ t \notin RestS
  <2>1. Rest \subseteq Ticks /\ RestS \subseteq Ticks OBVIOUS
  <2>2. QED BY <2>1, FS_Subset, JobRunnerAssumption
<1>5. /\ Cardinality(Rest) \in Nat /\ Cardinality(RestS) \in Nat
      /\ Cardinality(Rest \cup {t}) = Cardinality(Rest) + 1
      /\ Cardinality(RestS \cup {t}) = Cardinality(RestS) + 1
  BY <1>4, FS_AddElement, FS_CardinalityType
<1> HIDE DEF Rest, RestS
<1>6. QED BY <1>2, <1>3, <1>5

(* No step loses a client or makes one up.                                  *)
LEMMA PoolInductive ==
  ASSUME IInv, ClientsAccounted, [Next]_vars PROVE ClientsAccounted'
<1> USE CountsAreNat, JobRunnerAssumption
    DEF ClientsAccounted, poolVars, tickVars
<1>t. TypeOK BY DEF IInv
<1>a. ASSUME UNCHANGED pc, UNCHANGED free PROVE ClientsAccounted'
  BY <1>a DEF Holders, Seconds
<1>f. free \in Nat BY <1>t DEF TypeOK
<1>1. ASSUME NEW j \in Jobs, Http(j) PROVE ClientsAccounted'
  BY <1>1, <1>a DEF Http, PostBacktest, RequestCancel, CancelUpdate
<1>2. ASSUME NEW t \in Ticks, Tick(t) PROVE ClientsAccounted'
  <2>1. Goto(t, "connect") /\ pc[t] = "idle" /\ free' = free
    BY <1>2 DEF Tick
  <2>2. QED BY <2>1, <1>t, <1>f, CountAfterMove DEF Places
<1>3. ASSUME NEW t \in Ticks, Advance(t) PROVE ClientsAccounted'
  <2>1. CASE Connected(t)
    <3>1. Goto(t, "claim") /\ pc[t] = "connect" /\ free' = free - 1
      BY <2>1 DEF Connected
    <3>2. QED BY <3>1, <1>t, <1>f, CountAfterMove DEF Places
  <2>2. ASSUME NEW j \in Jobs, ClaimNextJob(t, j) PROVE ClientsAccounted'
    <3>1. Goto(t, "commit") /\ pc[t] = "claim" /\ free' = free
      BY <2>2 DEF ClaimNextJob
    <3>2. QED BY <3>1, <1>t, <1>f, CountAfterMove DEF Places
  <2>3. CASE NothingQueued(t)
    <3>1. Goto(t, "idle") /\ pc[t] = "claim" /\ free' = free + 1
      BY <2>3 DEF NothingQueued, Release
    <3>2. QED BY <3>1, <1>t, <1>f, CountAfterMove DEF Places
  <2>4. CASE Commit(t)
    <3>1. Goto(t, "check") /\ pc[t] = "commit" /\ free' = free
      BY <2>4 DEF Commit
    <3>2. QED BY <3>1, <1>t, <1>f, CountAfterMove DEF Places, Working
  <2>5. CASE Check(t)
    <3>1. /\ Goto(t, "recover") \/ Goto(t, "query")
          /\ pc[t] = "check" /\ free' = free
      BY <2>5 DEF Check
    <3>2. QED BY <3>1, <1>t, <1>f, CountAfterMove DEF Places, Working
  <2>6. CASE Candles(t)
    <3>1. Goto(t, "second") /\ pc[t] = "query" /\ free' = free
      BY <2>6 DEF Candles
    <3>2. QED BY <3>1, <1>t, <1>f, CountAfterMove DEF Places, Working
  <2>7. CASE SecondClient(t)
    <3>1. Goto(t, "insert") /\ pc[t] = "second" /\ free' = free - 1
      BY <2>7 DEF SecondClient
    <3>2. QED BY <3>1, <1>t, <1>f, CountAfterMove DEF Places, Working
  <2>8. CASE InsertArtifact(t)
    <3>1. Goto(t, "progress") /\ pc[t] = "insert" /\ free' = free + 1
      BY <2>8 DEF InsertArtifact
    <3>2. QED BY <3>1, <1>t, <1>f, CountAfterMove DEF Places, Working
  <2>9. CASE Progress(t)
    <3>1. Goto(t, "finish") /\ pc[t] = "progress" /\ free' = free
      BY <2>9 DEF Progress
    <3>2. QED BY <3>1, <1>t, <1>f, CountAfterMove DEF Places, Working
  <2>10. CASE Finish(t)
    <3>1. /\ Goto(t, "idle") /\ pc[t] \in {"finish", "recover"}
          /\ free' = free + 1
      BY <2>10 DEF Finish, Release
    <3>2. QED BY <3>1, <1>t, <1>f, CountAfterMove DEF Places, Working
  <2>11. QED BY <1>3, <2>1, <2>2, <2>3, <2>4, <2>5, <2>6, <2>7, <2>8, <2>9, <2>10
             DEF Advance
<1>4. ASSUME NEW t \in Ticks, JobFails(t) PROVE ClientsAccounted'
  <2>1. /\ Goto(t, "recover")
        /\ pc[t] \in {"query", "insert", "progress", "finish"}
        /\ free' = IF pc[t] = "insert" THEN free + 1 ELSE free
    BY <1>4 DEF JobFails
  <2>2. QED BY <2>1, <1>t, <1>f, CountAfterMove DEF Places, Working
<1>5. ASSUME NEW t \in Ticks, TickFails(t) PROVE ClientsAccounted'
  <2>1. /\ Goto(t, "idle") /\ pc[t] \in {"claim", "commit", "recover"}
        /\ free' = free + 1
    BY <1>5 DEF TickFails, Release
  <2>2. QED BY <2>1, <1>t, <1>f, CountAfterMove DEF Places, Working
<1>6. CASE Stop BY <1>6, <1>a DEF Stop
<1>7. CASE CrashRestart
  <2>1. Holders' = {} /\ Seconds' = {} /\ free' = PoolSize
    BY <1>7 DEF CrashRestart, Holders, Seconds
  <2>2. QED BY <2>1, FS_EmptySet
<1>8. CASE UNCHANGED vars BY <1>8, <1>a DEF vars
<1>9. QED BY <1>1, <1>2, <1>3, <1>4, <1>5, <1>6, <1>7, <1>8 DEF Next

(* The idle clients and those held are the whole pool.                      *)
THEOREM PoolIsConserved == Spec => []ClientsAccounted
<1>1. Init => ClientsAccounted
  <2> SUFFICES ASSUME Init PROVE ClientsAccounted
    OBVIOUS
  <2>1. Holders = {} /\ Seconds = {} /\ free = PoolSize
    BY DEF Init, Holders, Seconds
  <2>2. QED BY <2>1, FS_EmptySet, JobRunnerAssumption DEF ClientsAccounted
<1>2. IInv /\ ClientsAccounted /\ [Next]_vars => ClientsAccounted'
  BY PoolInductive
<1>3. QED BY <1>1, <1>2, Inductive, PTL DEF Spec

(* With fewer ticks than clients the hold-and-wait of runBacktest cannot    *)
(* close a cycle.                                                           *)
THEOREM PoolDoesNotDeadlock == Spec => []NoPoolDeadlock
<1>1. ClientsAccounted => NoPoolDeadlock
  <2> SUFFICES ASSUME ClientsAccounted, OverlapBelowPool, free = 0,
                      \A u \in Holders : pc[u] = "second"
               PROVE FALSE
    BY DEF NoPoolDeadlock
  <2>1. Seconds = {}
    BY DEF Seconds, Holders
  <2>2. Cardinality(Holders) = PoolSize
    BY <2>1, CountsAreNat, FS_EmptySet DEF ClientsAccounted
  <2>3. Cardinality(Holders) <= Cardinality(Ticks)
    BY FS_Subset, JobRunnerAssumption DEF Holders
  <2>4. Cardinality(Ticks) \in Nat /\ Cardinality(Holders) \in Nat
    BY CountsAreNat, FS_CardinalityType, JobRunnerAssumption
  <2>5. QED BY <2>2, <2>3, <2>4, JobRunnerAssumption DEF OverlapBelowPool
<1>2. QED BY <1>1, PoolIsConserved, PTL

-----------------------------------------------------------------------------
(* With no fault but stop(), no step takes the tick from a running row: the *)
(* failing steps are not enabled, and Finish lets its row go with a status  *)
(* that is no longer running.                                               *)
LEMMA OwnersStay ==
  ASSUME IInv, NoOrphan, [Next]_vars, Faults \subseteq {"stop"} PROVE NoOrphan'
<1> USE DEF IInv, TypeOK, NoOrphan, Working, jobVars, tickVars
<1>1. ASSUME NEW j \in Jobs, Http(j) PROVE NoOrphan'
  BY <1>1 DEF Http, PostBacktest, RequestCancel, CancelUpdate, Cancelable
<1>2. ASSUME NEW t \in Ticks, Tick(t) PROVE NoOrphan'
  BY <1>2 DEF Tick, Goto
<1>3. ASSUME NEW t \in Ticks, Advance(t) PROVE NoOrphan'
  <2>1. CASE Connected(t) BY <2>1 DEF Connected, Goto
  <2>2. ASSUME NEW j \in Jobs, ClaimNextJob(t, j) PROVE NoOrphan'
    <3>1. /\ pc[t] = "claim" /\ status' = status
          /\ pc' = [pc EXCEPT ![t] = "commit"] /\ job' = [job EXCEPT ![t] = j]
      BY <2>2 DEF ClaimNextJob, Goto
    <3>2. \A u \in Ticks : pc[u] \in Working => pc'[u] = pc[u] /\ job'[u] = job[u]
      BY <3>1
    <3>3. QED BY <3>1, <3>2
  <2>3. CASE NothingQueued(t) BY <2>3 DEF NothingQueued, Release, Goto
  <2>4. CASE Commit(t) BY <2>4 DEF Commit, Goto, ClaimsLocked
  <2>5. CASE Check(t)
    <3>1. /\ UNCHANGED <<status, job>> /\ pc[t] = "check"
          /\ \/ pc' = [pc EXCEPT ![t] = "recover"]
             \/ pc' = [pc EXCEPT ![t] = "query"]
      BY <2>5 DEF Check, Goto
    <3>2. \A u \in Ticks : pc[u] \in Working => pc'[u] \in Working
      BY <3>1
    <3>3. QED BY <3>1, <3>2
  <2>6. CASE Candles(t) BY <2>6 DEF Candles, Goto
  <2>7. CASE SecondClient(t) BY <2>7 DEF SecondClient, Goto
  <2>8. CASE InsertArtifact(t) BY <2>8 DEF InsertArtifact, Goto
  <2>9. CASE Progress(t) BY <2>9 DEF Progress, Goto
  <2>10. CASE Finish(t)
    <3>1. /\ status' = [status EXCEPT ![job[t]] = outcome[t]]
          /\ pc' = [pc EXCEPT ![t] = "idle"]
          /\ job' = [job EXCEPT ![t] = NoJob]
          /\ job[t] \in Jobs /\ outcome[t] # "running"
      BY <2>10 DEF Finish, Release, Goto, OwnerRuns, ArtifactsInHand
    <3>2. SUFFICES ASSUME NEW j \in Jobs, status'[j] = "running"
                   PROVE \E u \in Ticks : job'[u] = j /\ pc'[u] \in Working
      BY DEF NoOrphan
    <3>3. j # job[t] /\ status[j] = "running"
      BY <3>1, <3>2
    <3>4. PICK u \in Ticks : job[u] = j /\ pc[u] \in Working
      BY <3>3
    <3>5. QED BY <3>1, <3>3, <3>4
  <2>11. QED BY <1>3, <2>1, <2>2, <2>3, <2>4, <2>5, <2>6, <2>7, <2>8, <2>9,
                <2>10 DEF Advance
<1>stop. ASSUME Stop \/ vars' = vars PROVE NoOrphan'
  BY <1>stop DEF Stop, vars
<1>faults. ~CrashRestart /\ \A t \in Ticks : ~JobFails(t) /\ ~TickFails(t)
  BY DEF CrashRestart, TickFails, JobFails
<1> QED BY <1>stop, <1>faults, <1>1, <1>2, <1>3 DEF Next

(* When nothing crashes and no statement fails, a running row always has    *)
(* the tick that will finish it, stop() or not.                             *)
THEOREM GracefulLeavesNoOrphan ==
  ASSUME Faults \subseteq {"stop"} PROVE Spec => []NoOrphan
<1>1. Init => NoOrphan
  BY DEF Init, NoOrphan
<1>2. IInv /\ NoOrphan /\ [Next]_vars => NoOrphan'
  BY OwnersStay
<1> QED BY Inductive, <1>1, <1>2, PTL DEF Spec
=============================================================================
