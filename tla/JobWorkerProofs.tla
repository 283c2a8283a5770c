--------------------------- MODULE JobWorkerProofs ---------------------------
(***************************************************************************)
(* Proofs about JobWorker for any number of rows, workers and steps and    *)
(* any lists of artifacts.                                                 *)
(***************************************************************************)
EXTENDS JobWorker, SequenceTheorems, TLAPS

(* A worker has a row exactly while it works, and the row is past the       *)
(* queue, so that no claim returns it a second time.                        *)
Owns ==
  /\ \A w \in Workers : job[w] = NoJob <=> place[w] \in {"off", "timer", "loop"}
  /\ \A w \in Workers : job[w] # NoJob => status[job[w]] \notin {"none", "queued"}
  /\ \A w \in Workers : place[w] \in Running => kind[job[w]] \in DOMAIN Files

(* The counter starts at 0 for the steps and again for the files, and a     *)
(* runner with a file to write has not written them all.                    *)
Counted ==
  /\ \A w \in Workers :
       place[w] \in {"off", "timer", "loop", "unknown", "started"} => step[w] = 0
  /\ \A w \in Workers : place[w] = "files" => step[w] < Len(FilesOf(w))

IInv == TypeOK /\ Owns /\ ClaimExclusive /\ Counted

LEMMA InitInductive == Init => IInv
<1> SUFFICES ASSUME Init PROVE IInv
  OBVIOUS
<1>1. /\ place \in [Workers -> Places] /\ \A w \in Workers : place[w] \in {"off", "loop"}
  BY DEF Init, Places
<1>2. artifacts \in [Jobs -> Seq(STRING)]
  <2>1. << >> \in Seq(STRING)
    BY EmptySeq
  <2> QED
    BY <2>1 DEF Init
<1>3. TypeOK
  BY <1>1, <1>2 DEF Init, TypeOK, Statuses, Types
<1> QED
  BY <1>1, <1>3 DEF Init, IInv, Owns, ClaimExclusive, Counted, Running

LEMMA RouteInductive ==
  ASSUME IInv, NEW j \in Jobs, PostJob(j) \/ CancelJob(j) PROVE IInv'
<1> USE JobWorkerAssumption DEF IInv, rowVars, runVars, stopVars, pastVars
<1>1. CASE PostJob(j)
  <2>1. TypeOK'
    BY <1>1 DEF PostJob, TypeOK, Statuses
  <2>2. \A w \in Workers : job[w] # j
    BY <1>1 DEF PostJob, Owns
  <2>3. \A w \in Workers : job[w] # NoJob =>
          status'[job[w]] = status[job[w]] /\ kind'[job[w]] = kind[job[w]]
    BY <1>1, <2>2 DEF PostJob, TypeOK
  <2>4. \A w \in Workers : place[w] \in Running => job[w] # NoJob
    BY DEF Owns, Running
  <2> QED
    BY <1>1, <2>1, <2>3, <2>4 DEF PostJob, Owns, ClaimExclusive, Counted, FilesOf,
       Mine, Running
<1>2. CASE CancelJob(j)
  <2>1. TypeOK'
    BY <1>2 DEF CancelJob, TypeOK, Statuses, Terminal
  <2>2. \A i \in Jobs : status[i] \notin {"none", "queued"}
                          => status'[i] \notin {"none", "queued"}
    BY <1>2 DEF CancelJob, TypeOK
  <2> QED
    BY <1>2, <2>1, <2>2 DEF CancelJob, Owns, ClaimExclusive, Counted, FilesOf, Mine,
       TypeOK
<1> QED
  BY <1>1, <1>2

(* A worker that lets its row go, whatever it makes of the row's status.    *)
LEMMA EndsInductive ==
  ASSUME IInv, NEW w \in Workers, job[w] # NoJob, Ends(w), UNCHANGED <<kind, artifacts>>,
         asked' \subseteq Jobs, troubled' \in BOOLEAN,
         \/ UNCHANGED status
         \/ \E s \in Terminal : status' = [status EXCEPT ![job[w]] = s]
  PROVE  IInv'
<1> USE DEF IInv, Ends
<1>1. status' \in [Jobs -> Statuses]
  BY DEF TypeOK, Statuses
<1>2. TypeOK'
  BY <1>1 DEF TypeOK, Places
<1>3. \A i \in Jobs : status[i] \notin {"none", "queued"}
                        => status'[i] \notin {"none", "queued"}
  BY DEF Terminal, TypeOK
<1> QED
  BY <1>2, <1>3 DEF Owns, ClaimExclusive, Counted, FilesOf, Mine, TypeOK, Running

(* A worker that goes on with its row.                                      *)
LEMMA GoesInductive ==
  ASSUME IInv, NEW w \in Workers, NEW to \in Running, Goes(w, place[w], to),
         place[w] \in Running, UNCHANGED <<kind, job, seen, aborted, asked>>,
         artifacts' \in [Jobs -> Seq(STRING)], troubled' \in BOOLEAN,
         step' \in [Workers -> Nat],
         \A v \in Workers : v # w => step'[v] = step[v],
         to = "started" => step'[w] = 0,
         to = "steps" => step'[w] < Steps,
         to = "files" => step'[w] < Len(FilesOf(w)),
         \/ UNCHANGED status
         \/ \E s \in Terminal : status' = [status EXCEPT ![job[w]] = s]
  PROVE  IInv'
<1> USE DEF IInv, Goes
<1>1. status' \in [Jobs -> Statuses]
  BY DEF TypeOK, Statuses
<1>2. place' \in [Workers -> Places]
  BY DEF TypeOK, Places
<1>3. TypeOK'
  BY <1>1, <1>2 DEF TypeOK
<1>4. \A i \in Jobs : status[i] \notin {"none", "queued"}
                        => status'[i] \notin {"none", "queued"}
  BY DEF Terminal, TypeOK
<1>5. Owns'
  BY <1>3, <1>4 DEF Owns, TypeOK, Running
<1>6. Counted'
  BY DEF Counted, FilesOf, Mine, TypeOK, Running
<1> QED
  BY <1>3, <1>5, <1>6 DEF ClaimExclusive

(* The claim: the row was queued, so that nobody has it.                    *)
LEMMA ClaimInductive ==
  ASSUME IInv, NEW w \in Workers, NEW j \in Jobs, ClaimNextJob(w, j) PROVE IInv'
<1> USE JobWorkerAssumption
    DEF IInv, ClaimNextJob, Claimable, Goes, stopVars, pastVars
<1>1. TypeOK'
  BY DEF TypeOK, Statuses, Places, Running
<1>2. \A v \in Workers : job[v] # j
  BY DEF Owns
<1>3. \A v \in Workers \ {w} :
        /\ place'[v] = place[v] /\ job'[v] = job[v]
        /\ job[v] # NoJob => status'[job[v]] = status[job[v]]
  BY <1>2 DEF TypeOK
<1>4. place'[w] \in {"unknown", "started"} /\ job'[w] = j /\ status'[j] = "running"
  BY DEF TypeOK
<1>5. kind[j] # OtherType => kind[j] \in DOMAIN Files
  BY DEF TypeOK, Types
<1>6. place'[w] \in Running => kind[j] \in DOMAIN Files
  BY <1>5 DEF TypeOK, Running
<1>7. Owns'
  <2>1. \A v \in Workers : job'[v] = NoJob <=> place'[v] \in {"off", "timer", "loop"}
    BY <1>3, <1>4 DEF Owns
  <2>2. \A v \in Workers : job'[v] # NoJob => status'[job'[v]] \notin {"none", "queued"}
    BY <1>3, <1>4 DEF Owns
  <2>3. \A v \in Workers : place'[v] \in Running => kind'[job'[v]] \in DOMAIN Files
    BY <1>3, <1>4, <1>6 DEF Owns
  <2> QED
    BY <2>1, <2>2, <2>3 DEF Owns
<1>8. ClaimExclusive'
  BY <1>2, <1>3, <1>4 DEF ClaimExclusive
<1>9. Counted'
  <2>1. step[w] = 0
    BY DEF Counted
  <2> QED
    BY <1>3, <1>4, <2>1 DEF Counted, FilesOf, Mine
<1> QED
  BY <1>1, <1>7, <1>8, <1>9

(* The loop and the interval, which change no row but one that is lost.     *)
LEMMA LoopInductive ==
  ASSUME IInv, NEW w \in Workers,
         TimerFires(w) \/ NothingQueued(w) \/ Look(w) \/ Abort(w) \/ ClaimFails(w)
  PROVE  IInv'
<1> USE JobWorkerAssumption
    DEF IInv, TypeOK, rowVars, runVars, stopVars, pastVars, Goes
<1>0. ASSUME /\ \A v \in Workers :
                  \/ place'[v] = place[v]
                  \/ /\ place[v] \in {"timer", "loop"}
                     /\ place'[v] \in {"timer", "loop"},
             \A i \in Jobs : status[i] \notin {"none", "queued"}
                               => status'[i] \notin {"none", "queued"},
             UNCHANGED <<kind, job, step>>
      PROVE  Owns' /\ ClaimExclusive' /\ Counted'
  <2>1. Owns'
    <3>1. /\ \A v \in Workers : job[v] = NoJob <=> place'[v] \in {"off", "timer", "loop"}
          /\ \A v \in Workers : place'[v] \in Running => place[v] \in Running
      BY <1>0 DEF Owns, Running
    <3>2. \A v \in Workers : job[v] # NoJob => status'[job[v]] \notin {"none", "queued"}
      BY <1>0 DEF Owns
    <3>3. UNCHANGED <<kind, job>> /\ Owns
      BY <1>0
    <3> HIDE DEF IInv, TypeOK
    <3> QED
      BY <3>1, <3>2, <3>3 DEF Owns
  <2>2. Counted'
    <3>1. \A v \in Workers : FilesOf(v)' = FilesOf(v)
      BY <1>0 DEF FilesOf, Mine
    <3>2. \A v \in Workers :
             \/ place'[v] = place[v]
             \/ /\ place[v] \notin {"steps", "files"} /\ step[v] = 0
                /\ place'[v] \notin {"steps", "files"}
      BY <1>0 DEF Counted
    <3> HIDE DEF IInv, TypeOK
    <3>3. step' = step /\ Counted
      BY <1>0 DEF IInv
    <3> QED
      BY <3>1, <3>2, <3>3 DEF Counted
  <2>3. ClaimExclusive'
    BY <1>0 DEF ClaimExclusive
  <2> QED
    BY <2>1, <2>2, <2>3
<1>1. CASE TimerFires(w) \/ NothingQueued(w)
  <2>1. \A v \in Workers :
           \/ place'[v] = place[v]
           \/ /\ place[v] \in {"timer", "loop"}
              /\ place'[v] \in {"timer", "loop"}
    BY <1>1 DEF TimerFires, NothingQueued
  <2>2. TypeOK'
    BY <1>1 DEF TimerFires, NothingQueued, Places
  <2>3. UNCHANGED <<status, kind, job, step>>
    BY <1>1 DEF TimerFires, NothingQueued
  <2> QED
    BY <1>0, <2>1, <2>2, <2>3
<1>2. CASE Look(w) \/ Abort(w)
  <2>1. TypeOK'
    BY <1>2 DEF Look, Abort
  <2>2. UNCHANGED <<status, kind, place, job, step, artifacts>>
    BY <1>2 DEF Look, Abort
  <2> QED
    BY <1>0, <2>1, <2>2
<1>3. CASE ClaimFails(w)
  <2>1. TypeOK'
    BY <1>3 DEF ClaimFails, Claimable, Places, Statuses
  <2>2. \A i \in Jobs : status[i] \notin {"none", "queued"}
                          => status'[i] \notin {"none", "queued"}
    BY <1>3 DEF ClaimFails, Claimable
  <2>3. \A v \in Workers :
           \/ place'[v] = place[v]
           \/ /\ place[v] \in {"timer", "loop"}
              /\ place'[v] \in {"timer", "loop"}
    BY <1>3 DEF ClaimFails
  <2>4. UNCHANGED <<kind, job, step>>
    BY <1>3 DEF ClaimFails
  <2> QED
    BY <1>0, <2>1, <2>2, <2>3, <2>4
<1> QED
  BY <1>1, <1>2, <1>3

LEMMA CrashInductive ==
  ASSUME IInv, NEW w \in Workers, CrashRestart(w) PROVE IInv'
<1> USE DEF IInv, TypeOK, CrashRestart, rowVars
<1>1. TypeOK'
  BY DEF Places
<1> QED
  BY <1>1 DEF Owns, ClaimExclusive, Counted, FilesOf, Mine, Running

(* The artifact that a runner writes is one of its type.                    *)
LEMMA FileIsString ==
  ASSUME IInv, NEW w \in Workers, place[w] = "files"
  PROVE  /\ FilesOf(w) \in Seq(STRING)
         /\ step[w] + 1 \in 1..Len(FilesOf(w))
         /\ FilesOf(w)[step[w] + 1] \in STRING
         /\ InsertArtifact(w) => artifacts' \in [Jobs -> Seq(STRING)]
<1> USE JobWorkerAssumption DEF IInv
<1>1. job[w] \in Jobs /\ kind[job[w]] \in DOMAIN Files
  BY DEF Owns, TypeOK, Running
<1>2. FilesOf(w) \in Seq(STRING)
  BY <1>1 DEF FilesOf, Mine
<1>3. step[w] + 1 \in 1..Len(FilesOf(w))
  <2>1. Len(FilesOf(w)) \in Nat
    BY <1>2
  <2> QED
    BY <2>1 DEF Counted, TypeOK
<1>4. FilesOf(w)[step[w] + 1] \in STRING
  BY <1>2, <1>3
<1>5. ASSUME InsertArtifact(w) PROVE artifacts' \in [Jobs -> Seq(STRING)]
  <2>1. artifacts[job[w]] \in Seq(STRING)
    BY <1>1 DEF TypeOK
  <2>2. Append(artifacts[job[w]], FilesOf(w)[step[w] + 1]) \in Seq(STRING)
    BY <1>4, <2>1
  <2> QED
    BY <1>1, <1>5, <2>2 DEF InsertArtifact, Mine, TypeOK
<1> QED
  BY <1>2, <1>3, <1>4, <1>5

LEMMA RunnerInductive ==
  ASSUME IInv, NEW w \in Workers, Started(w) \/ StepDone(w) \/ FileDone(w) PROVE IInv'
<1> USE JobWorkerAssumption DEF rowVars, stopVars, pastVars
<1>0. /\ TypeOK /\ Counted /\ job[w] \in Jobs
      /\ kind[job[w]] \in DOMAIN Files /\ place[w] \in Running
  BY DEF IInv, Owns, TypeOK, Running, Started, StepDone, FileDone, Goes
<1>1. FilesOf(w) \in Seq(STRING) /\ 0 < Len(FilesOf(w))
  <2>1. FilesOf(w) \in Seq(STRING) \ {<< >>}
    BY <1>0 DEF FilesOf, Mine
  <2> QED
    BY <2>1
<1>2. CASE Started(w)
  <2>1. step[w] = 0
    BY <1>0, <1>2 DEF Started, Goes, Counted
  <2>2. PICK to \in Running : /\ Goes(w, place[w], to)
                              /\ to # "started"
    BY <1>2 DEF Started, Turn, Caught, Goes, Running
  <2>3. /\ UNCHANGED <<status, kind, job, seen, aborted, asked, artifacts>>
        /\ UNCHANGED <<troubled, step>>
    BY <1>2 DEF Started
  <2>4. artifacts' \in [Jobs -> Seq(STRING)] /\ troubled' \in BOOLEAN
    BY <1>0, <2>3 DEF TypeOK
  <2>5. step' \in [Workers -> Nat] /\ step'[w] < Steps /\ step'[w] < Len(FilesOf(w))
    BY <1>0, <1>1, <2>1, <2>3 DEF TypeOK
  <2> QED
    BY <1>0, <2>1, <2>2, <2>3, <2>4, <2>5, GoesInductive
<1>3. CASE StepDone(w)
  <2>1. place[w] = "steps" /\ step[w] < Steps
    BY <1>0, <1>3 DEF StepDone, Goes, TypeOK
  <2>2. PICK to \in Running : /\ to = Turn(w, step[w] + 1)
                              /\ Goes(w, place[w], to)
                              /\ to # "started"
    BY <1>3 DEF StepDone, Turn, Caught, Goes, Running
  <2>3. place'[w] = to
    BY <1>0, <2>2 DEF Goes, TypeOK
  <2>4. /\ step' \in [Workers -> Nat]
        /\ \A v \in Workers : v # w => step'[v] = step[v]
        /\ step'[w] = IF to = "files" THEN 0 ELSE step[w] + 1
    BY <1>0, <1>3, <2>3 DEF StepDone, TypeOK
  <2>5. to = "steps" => step[w] + 1 # Steps
    BY <2>2 DEF Turn
  <2>a. step[w] \in Nat /\ Steps \in Nat
    BY <1>0 DEF TypeOK
  <2>6. to = "steps" => step'[w] < Steps
    BY <2>a, <2>1, <2>4, <2>5
  <2>7. UNCHANGED <<status, kind, job, seen, aborted, asked, artifacts, troubled>>
    BY <1>3 DEF StepDone
  <2>8. artifacts' \in [Jobs -> Seq(STRING)] /\ troubled' \in BOOLEAN
    BY <1>0, <2>7 DEF TypeOK
  <2>9. to = "files" => step'[w] < Len(FilesOf(w))
    BY <1>1, <2>4
  <2> QED
    BY <1>0, <2>2, <2>4, <2>6, <2>7, <2>8, <2>9, GoesInductive
<1>4. CASE FileDone(w)
  <2>1. place[w] = "files" /\ step[w] < Len(FilesOf(w))
    BY <1>0, <1>4 DEF FileDone, Goes, Counted
  <2>2. PICK to \in {"ok", "files"} :
               /\ Goes(w, place[w], to)
               /\ to = IF step[w] + 1 = Len(FilesOf(w)) THEN "ok" ELSE "files"
    BY <1>4 DEF FileDone, Goes
  <2>3. artifacts' \in [Jobs -> Seq(STRING)]
    BY <1>4, <2>1, FileIsString DEF FileDone
  <2>4. /\ step' \in [Workers -> Nat]
        /\ \A v \in Workers : v # w => step'[v] = step[v]
        /\ step'[w] = step[w] + 1
    BY <1>0, <1>4 DEF FileDone, TypeOK
  <2>5. to = "files" => step'[w] < Len(FilesOf(w))
    <3>1. Len(FilesOf(w)) \in Nat /\ step[w] \in Nat
      BY <1>0, <1>1 DEF TypeOK
    <3> QED
      BY <2>1, <2>2, <2>4, <3>1
  <2>6. to \in Running
    BY DEF Running
  <2> QED
    BY <1>0, <1>4, <2>2, <2>3, <2>4, <2>5, <2>6, GoesInductive DEF FileDone, TypeOK
<1> QED
  BY <1>2, <1>3, <1>4

LEMMA OutcomeIsFinal ==
  ASSUME NEW p \in {"ok", "cancel", "fail", "unknown"} PROVE Outcome[p] \in Terminal
BY DEF Outcome, Terminal

LEMMA EndInductive ==
  ASSUME IInv, NEW w \in Workers, UnknownType(w) \/ Marked(w) \/ MarkFails(w)
  PROVE  IInv'
<1>1. place[w] \in {"ok", "cancel", "fail", "unknown"} /\ Ends(w)
  BY DEF UnknownType, Marked, MarkFails
<1>2. job[w] # NoJob
  BY <1>1 DEF IInv, Owns
<1>3. \/ UNCHANGED status
      \/ \E s \in Terminal : status' = [status EXCEPT ![job[w]] = s]
  BY <1>1, OutcomeIsFinal DEF UnknownType, Marked, MarkFails, Mark, Mine, Terminal, rowVars
<1>4. UNCHANGED <<kind, artifacts, asked>>
  BY DEF UnknownType, Marked, MarkFails, Mark, rowVars, pastVars
<1>5. asked' \subseteq Jobs /\ troubled' \in BOOLEAN
  BY <1>4 DEF UnknownType, Marked, MarkFails, pastVars, IInv, TypeOK
<1> QED
  BY <1>1, <1>2, <1>3, <1>4, <1>5, EndsInductive

LEMMA TryFailsInductive ==
  ASSUME IInv, NEW w \in Workers, TryFails(w) PROVE IInv'
<1>1. /\ place[w] \in {"started", "files", "ok"} /\ Goes(w, place[w], Caught(w))
      /\ UNCHANGED <<kind, job, step, seen, aborted, asked>> /\ troubled' \in BOOLEAN
  BY DEF TryFails, Goes, stopVars
<1>2. Caught(w) \in {"cancel", "fail"}
  BY DEF Caught
<1>3. \/ UNCHANGED status
      \/ \E s \in Terminal : status' = [status EXCEPT ![job[w]] = s]
  BY DEF TryFails, Mark, Mine, Terminal
<1>4. artifacts' \in [Jobs -> Seq(STRING)]
  <2>1. \/ UNCHANGED artifacts
        \/ place[w] = "files" /\ InsertArtifact(w)
    BY DEF TryFails
  <2> QED
    BY <2>1, FileIsString DEF IInv, TypeOK
<1>5. Caught(w) \in Running /\ place[w] \in Running
  BY <1>1, <1>2 DEF Running
<1>6. step' \in [Workers -> Nat]
  BY <1>1 DEF IInv, TypeOK
<1> QED
  BY <1>1, <1>2, <1>3, <1>4, <1>5, <1>6, GoesInductive

LEMMA NextInductive == IInv /\ [Next]_vars => IInv'
<1> SUFFICES ASSUME IInv, [Next]_vars PROVE IInv'
  OBVIOUS
<1>1. CASE UNCHANGED vars
  BY <1>1 DEF vars, rowVars, runVars, stopVars, pastVars, IInv, TypeOK, Owns,
     ClaimExclusive, Counted, FilesOf, Mine
<1>2. ASSUME NEW j \in Jobs, PostJob(j) \/ CancelJob(j) PROVE IInv'
  BY <1>2, RouteInductive
<1>3. ASSUME NEW w \in Workers, Advance(w) PROVE IInv'
  BY <1>3, ClaimInductive, LoopInductive, RunnerInductive, EndInductive DEF Advance
<1>4. ASSUME NEW w \in Workers, Look(w) \/ Abort(w) \/ ClaimFails(w) PROVE IInv'
  BY <1>4, LoopInductive
<1>5. ASSUME NEW w \in Workers, TryFails(w) \/ MarkFails(w) \/ CrashRestart(w) PROVE IInv'
  BY <1>5, TryFailsInductive, EndInductive, CrashInductive
<1> QED
  BY <1>1, <1>2, <1>3, <1>4, <1>5 DEF Next

LEMMA Inductive == Spec => []IInv
BY InitInductive, NextInductive, PTL DEF Spec

(* The types hold for any rows, workers and artifacts, and a runner that    *)
(* sleeps has a step left (runners/*.js).                                   *)
THEOREM TypeCorrect == Spec => []TypeOK
<1>1. IInv => TypeOK
  BY DEF IInv
<1> QED
  BY <1>1, Inductive, PTL

(* Two workers never have the same row, for any number of processes, with   *)
(* failing calls and crashes (the claim of worker.js).                      *)
THEOREM ClaimIsExclusive == Spec => []ClaimExclusive
<1>1. IInv => ClaimExclusive
  BY DEF IInv
<1> QED
  BY <1>1, Inductive, PTL

-----------------------------------------------------------------------------
(* What a row has of its artifacts before it is claimed and when it has     *)
(* succeeded ...                                                            *)
RowWritten(j) ==
  /\ status[j] \in {"none", "queued"} => artifacts[j] = <<>>
  /\ status[j] = "succeeded" => kind[j] # OtherType /\ artifacts[j] = Files[kind[j]]

(* ... and how far they have come is told by the place of the worker that   *)
(* has the row; until it writes success it has written no final status.     *)
RunWritten(w) ==
  /\ place[w] \in {"started", "steps"} => artifacts[job[w]] = <<>>
  /\ place[w] = "files" =>
       /\ Len(artifacts[job[w]]) = step[w]
       /\ \A i \in 1..step[w] : artifacts[job[w]][i] = FilesOf(w)[i]
  /\ place[w] = "ok" => artifacts[job[w]] = FilesOf(w)
  /\ place[w] \in {"started", "steps", "files", "ok"} => status[job[w]] # "succeeded"

Written ==
  /\ \A j \in Jobs : RowWritten(j)
  /\ \A w \in Workers : RunWritten(w)

(* A worker that touches no row but its own leaves the others' as they are. *)
LEMMA WorkersApart ==
  ASSUME IInv, Written, NEW w \in Workers,
         UNCHANGED kind,
         \A v \in Workers \ {w} :
           place'[v] = place[v] /\ job'[v] = job[v] /\ step'[v] = step[v],
         NEW mine,
         \A v \in Workers \ {w} : job[v] # NoJob => job[v] # mine,
         \A j \in Jobs \ {mine} : status'[j] = status[j] /\ artifacts'[j] = artifacts[j],
         mine \in Jobs => RowWritten(mine)',
         RunWritten(w)'
  PROVE  Written'
<1>1. ASSUME NEW j \in Jobs PROVE RowWritten(j)'
  <2>1. CASE j = mine
    BY <2>1
  <2>2. CASE j # mine
    BY <2>2 DEF Written, RowWritten
  <2> QED
    BY <2>1, <2>2
<1>2. ASSUME NEW v \in Workers PROVE RunWritten(v)'
  <2>1. CASE v = w
    BY <2>1
  <2>2. CASE v # w /\ place[v] \notin Running
    BY <2>2 DEF RunWritten, Running
  <2>3. CASE v # w /\ place[v] \in Running
    <3>1. place[v] \notin {"off", "timer", "loop"}
      BY <2>3 DEF Running
    <3>2. job[v] # NoJob
      BY <3>1 DEF IInv, Owns
    <3>3. job[v] \in Jobs \ {mine}
      BY <2>3, <3>2 DEF IInv, TypeOK
    <3>4. /\ place'[v] = place[v] /\ job'[v] = job[v] /\ step'[v] = step[v]
          /\ status'[job[v]] = status[job[v]] /\ artifacts'[job[v]] = artifacts[job[v]]
      BY <2>3, <3>3
    <3>5. FilesOf(v)' = FilesOf(v)
      BY <3>4 DEF FilesOf, Mine
    <3>6. RunWritten(v)
      BY DEF Written
    <3> QED
      BY <3>4, <3>5, <3>6 DEF RunWritten
  <2> QED
    BY <2>1, <2>2, <2>3
<1> QED
  BY <1>1, <1>2 DEF Written

(* The row of a worker is nobody else's.                                    *)
LEMMA MineAlone ==
  ASSUME IInv, NEW w \in Workers, job[w] # NoJob
  PROVE  /\ job[w] \in Jobs
         /\ \A v \in Workers \ {w} : job[v] # NoJob => job[v] # job[w]
BY DEF IInv, TypeOK, ClaimExclusive

LEMMA RouteWrites ==
  ASSUME IInv, Written, NEW j \in Jobs, PostJob(j) \/ CancelJob(j) PROVE Written'
<1> USE JobWorkerAssumption DEF rowVars, runVars, stopVars, pastVars
<1>1. UNCHANGED <<artifacts, place, job, step>>
  BY DEF PostJob, CancelJob
<1>2. CASE PostJob(j)
  <2>1. \A i \in Jobs \ {j} : status'[i] = status[i] /\ kind'[i] = kind[i]
    BY <1>2 DEF PostJob, IInv, TypeOK
  <2>2. RowWritten(j)'
    BY <1>1, <1>2 DEF PostJob, Written, RowWritten, IInv, TypeOK
  <2>3. \A i \in Jobs : RowWritten(i)'
    BY <1>1, <2>1, <2>2 DEF Written, RowWritten
  <2>4. ASSUME NEW v \in Workers PROVE RunWritten(v)'
    <3>1. CASE place[v] \notin Running
      BY <1>1, <3>1 DEF RunWritten, Running
    <3>2. CASE place[v] \in Running
      <4>1. job[v] \in Jobs \ {j}
        BY <1>2, <3>2 DEF IInv, Owns, TypeOK, Running, PostJob
      <4>2. status'[job[v]] = status[job[v]] /\ FilesOf(v)' = FilesOf(v)
        BY <1>1, <2>1, <4>1 DEF FilesOf, Mine
      <4>3. RunWritten(v)
        BY DEF Written
      <4> QED
        BY <1>1, <4>2, <4>3 DEF RunWritten
    <3> QED
      BY <3>1, <3>2
  <2> QED
    BY <2>3, <2>4 DEF Written
<1>3. CASE CancelJob(j)
  <2>1. UNCHANGED kind
    BY <1>3 DEF CancelJob
  <2>2. \A i \in Jobs :
          \/ status'[i] = status[i]
          \/ status[i] \in {"queued", "running"} /\ status'[i] = "canceled"
    <3>1. status \in [Jobs -> Statuses]
      BY DEF IInv, TypeOK
    <3>2. status'[j] = IF status[j] \in Cancelable THEN "canceled" ELSE status[j]
      BY <1>3, <3>1 DEF CancelJob
    <3>3. \A i \in Jobs \ {j} : status'[i] = status[i]
      BY <1>3, <3>1 DEF CancelJob
    <3> QED
      BY <3>2, <3>3
  <2>3. ASSUME NEW i \in Jobs PROVE RowWritten(i)'
    <3>1. RowWritten(i)
      BY DEF Written
    <3> QED
      BY <1>1, <2>1, <2>2, <3>1 DEF RowWritten
  <2>4. ASSUME NEW v \in Workers PROVE RunWritten(v)'
    <3>1. RunWritten(v) /\ FilesOf(v)' = FilesOf(v)
      BY <1>1, <2>1 DEF Written, FilesOf, Mine
    <3>2. place[v] \in Running => job[v] \in Jobs
      BY DEF IInv, Owns, TypeOK, Running
    <3> QED
      BY <1>1, <2>2, <3>1, <3>2 DEF RunWritten, Running
  <2> QED
    BY <2>3, <2>4 DEF Written
<1> QED
  BY <1>2, <1>3

(* The loop, the interval and a crash change no artifact.                   *)
LEMMA LoopWrites ==
  ASSUME IInv, Written, NEW w \in Workers,
         \/ TimerFires(w) \/ NothingQueued(w) \/ Look(w) \/ Abort(w)
         \/ ClaimFails(w) \/ CrashRestart(w)
  PROVE  Written'
<1> USE DEF rowVars, runVars, stopVars, pastVars
<1>1. CASE Look(w) \/ Abort(w)
  <2>1. UNCHANGED <<status, kind, artifacts, place, job, step>>
    BY <1>1 DEF Look, Abort
  <2> QED
    BY <2>1 DEF Written, RowWritten, RunWritten, FilesOf, Mine
<1>2. CASE \/ TimerFires(w) \/ NothingQueued(w) \/ ClaimFails(w) \/ CrashRestart(w)
  <2>1. /\ UNCHANGED <<kind, artifacts>>
        /\ place' = [place EXCEPT ![w] = place'[w]]
        /\ place'[w] \in {"timer", "loop"}
        /\ \A v \in Workers \ {w} : job'[v] = job[v] /\ step'[v] = step[v]
    BY <1>2 DEF TimerFires, NothingQueued, ClaimFails, CrashRestart, Goes, IInv, TypeOK
  <2>2. \A j \in Jobs : \/ status'[j] = status[j]
                        \/ status[j] = "queued" /\ status'[j] = "running"
    BY <1>2 DEF TimerFires, NothingQueued, ClaimFails, CrashRestart, Claimable, IInv,
       TypeOK
  <2>3. ASSUME NEW j \in Jobs PROVE RowWritten(j)'
    <3>1. RowWritten(j)
      BY DEF Written
    <3> QED
      BY <2>1, <2>2, <3>1 DEF RowWritten
  <2>4. ASSUME NEW v \in Workers PROVE RunWritten(v)'
    <3>1. CASE v = w
      BY <2>1, <3>1 DEF RunWritten
    <3>2. CASE v # w /\ place[v] \notin Running
      BY <2>1, <3>2 DEF RunWritten, Running, IInv, TypeOK
    <3>3. CASE v # w /\ place[v] \in Running
      <4>1. place[v] \notin {"off", "timer", "loop"}
        BY <3>3 DEF Running
      <4>2. job[v] \in Jobs
        BY <4>1 DEF IInv, Owns, TypeOK
      <4>3. place'[v] = place[v] /\ job'[v] = job[v] /\ step'[v] = step[v]
        BY <2>1, <3>3 DEF IInv, TypeOK
      <4>4. FilesOf(v)' = FilesOf(v)
        BY <2>1, <4>3 DEF FilesOf, Mine
      <4>5. RunWritten(v)
        BY DEF Written
      <4> QED
        BY <2>1, <2>2, <4>2, <4>3, <4>4, <4>5 DEF RunWritten
    <3> QED
      BY <3>1, <3>2, <3>3
  <2> QED
    BY <2>3, <2>4 DEF Written
<1> QED
  BY <1>1, <1>2

LEMMA ClaimWrites ==
  ASSUME IInv, Written, NEW w \in Workers, NEW j \in Jobs, ClaimNextJob(w, j)
  PROVE  Written'
<1> USE DEF ClaimNextJob, Claimable, Goes, stopVars, pastVars, IInv, TypeOK
<1>1. /\ status[j] = "queued" /\ status'[j] = "running"
      /\ \A i \in Jobs \ {j} : status'[i] = status[i]
      /\ UNCHANGED <<kind, artifacts, step>>
  OBVIOUS
<1>2. \A v \in Workers : job[v] # j
  BY <1>1, JobWorkerAssumption DEF Owns
<1>3. \A v \in Workers \ {w} : place'[v] = place[v] /\ job'[v] = job[v]
  OBVIOUS
<1>4. place'[w] \in {"unknown", "started"} /\ job'[w] = j
  OBVIOUS
<1>5. RowWritten(j)
  BY DEF Written
<1>6. RowWritten(j)'
  BY <1>1 DEF RowWritten
<1>7. RunWritten(w)'
  BY <1>1, <1>4, <1>5 DEF RunWritten, RowWritten
<1>8. \A v \in Workers \ {w} :
        place'[v] = place[v] /\ job'[v] = job[v] /\ step'[v] = step[v]
  BY <1>1, <1>3
<1>9. \A i \in Jobs \ {j} : status'[i] = status[i] /\ artifacts'[i] = artifacts[i]
  BY <1>1
<1> QED
  BY <1>1, <1>2, <1>6, <1>7, <1>8, <1>9, WorkersApart

(* The last UPDATE says succeeded only from the place "ok".                 *)
LEMMA EndWrites ==
  ASSUME IInv, Written, NEW w \in Workers, UnknownType(w) \/ Marked(w) \/ MarkFails(w)
  PROVE  Written'
<1> USE DEF Ends, pastVars, rowVars
<1>1. /\ place[w] \in {"ok", "cancel", "fail", "unknown"}
      /\ UNCHANGED <<kind, artifacts>>
      /\ place' = [place EXCEPT ![w] = "timer"]
      /\ job' = [job EXCEPT ![w] = NoJob]
      /\ step' = [step EXCEPT ![w] = 0]
  BY DEF UnknownType, Marked, MarkFails, Mark
<1>2. job[w] # NoJob
  BY <1>1 DEF IInv, Owns
<1>3. \/ UNCHANGED status
      \/ status' = [status EXCEPT ![job[w]] = Outcome[place[w]]]
  BY DEF UnknownType, Marked, MarkFails, Mark, Mine, Outcome
<1>4. PICK mine \in Jobs : mine = job[w]
  BY <1>2, MineAlone
<1>5. \A i \in Jobs \ {mine} : status'[i] = status[i] /\ artifacts'[i] = artifacts[i]
  BY <1>1, <1>3, <1>4 DEF IInv, TypeOK
<1>6. \/ status'[mine] = status[mine]
      \/ status'[mine] \in {"canceled", "failed"}
      \/ place[w] = "ok" /\ status'[mine] = "succeeded"
  BY <1>1, <1>3, <1>4 DEF Outcome, IInv, TypeOK
<1>7. RowWritten(mine)'
  <2>1. RowWritten(mine) /\ RunWritten(w)
    BY DEF Written
  <2>2. status[mine] \notin {"none", "queued"}
    BY <1>2, <1>4 DEF IInv, Owns
  <2>3. CASE place[w] = "ok"
    <3>1. kind[mine] # OtherType
      BY <1>4, <2>3, JobWorkerAssumption DEF IInv, Owns, Running
    <3> QED
      BY <1>1, <1>4, <1>6, <2>1, <2>2, <2>3, <3>1
         DEF RowWritten, RunWritten, FilesOf, Mine
  <2>4. CASE place[w] # "ok"
    BY <1>1, <1>6, <2>1, <2>2, <2>4 DEF RowWritten
  <2> QED
    BY <2>3, <2>4
<1>8. RunWritten(w)'
  BY <1>1 DEF RunWritten, IInv, TypeOK
<1>9. \A v \in Workers \ {w} :
        place'[v] = place[v] /\ job'[v] = job[v] /\ step'[v] = step[v]
  BY <1>1 DEF IInv, TypeOK
<1>10. \A v \in Workers \ {w} : job[v] # NoJob => job[v] # mine
  BY <1>2, <1>4, MineAlone
<1> QED
  BY <1>1, <1>5, <1>7, <1>8, <1>9, <1>10, WorkersApart

(* One more file: the row of the worker has one more of its artifacts.      *)
LEMMA FileAppended ==
  ASSUME IInv, Written, NEW w \in Workers, place[w] = "files", InsertArtifact(w),
         NEW mine \in Jobs, mine = job[w]
  PROVE  /\ artifacts'[mine] \in Seq(STRING)
         /\ Len(artifacts'[mine]) = step[w] + 1
         /\ \A i \in 1..(step[w] + 1) : artifacts'[mine][i] = FilesOf(w)[i]
         /\ \A j \in Jobs \ {mine} : artifacts'[j] = artifacts[j]
<1> DEFINE old == artifacts[mine]
           e   == FilesOf(w)[step[w] + 1]
<1>1. artifacts \in [Jobs -> Seq(STRING)] /\ step[w] \in Nat
  BY DEF IInv, TypeOK
<1>2. artifacts' = [artifacts EXCEPT ![mine] = Append(old, e)]
  BY DEF InsertArtifact, Mine
<1>3. e \in STRING
  BY FileIsString
<1>4. old \in Seq(STRING) /\ Len(old) = step[w]
      /\ \A i \in 1..step[w] : old[i] = FilesOf(w)[i]
  BY <1>1 DEF Written, RunWritten
<1>5. artifacts'[mine] = Append(old, e)
  BY <1>1, <1>2
<1> HIDE DEF old, e
<1>6. /\ Append(old, e) \in Seq(STRING)
      /\ Len(Append(old, e)) = step[w] + 1
      /\ \A i \in 1..step[w] : Append(old, e)[i] = old[i]
      /\ Append(old, e)[step[w] + 1] = e
  BY <1>3, <1>4, AppendProperties
<1>7. \A i \in 1..(step[w] + 1) : i \in 1..step[w] \/ i = step[w] + 1
  BY <1>1
<1>8. \A i \in 1..(step[w] + 1) : Append(old, e)[i] = FilesOf(w)[i]
  BY <1>4, <1>6, <1>7 DEF e
<1> QED
  BY <1>1, <1>2, <1>5, <1>6, <1>8

LEMMA RunnerWrites ==
  ASSUME IInv, Written, NEW w \in Workers,
         Started(w) \/ StepDone(w) \/ FileDone(w) \/ TryFails(w)
  PROVE  Written'
<1> USE DEF rowVars, stopVars, pastVars
<1>1. place[w] \in Running /\ TypeOK
  BY DEF Started, StepDone, FileDone, TryFails, Goes, Running, IInv
<1>2. job[w] # NoJob
  BY <1>1 DEF IInv, Owns, Running
<1>3. PICK mine \in Jobs : mine = job[w]
  BY <1>2, MineAlone
<1>4. \A v \in Workers \ {w} : job[v] # NoJob => job[v] # mine
  BY <1>2, <1>3, MineAlone
<1>5. UNCHANGED <<kind, job>> /\ \A v \in Workers \ {w} : place'[v] = place[v]
  BY <1>1 DEF Started, StepDone, FileDone, TryFails, Goes, TypeOK
<1>6. \A v \in Workers \ {w} : step'[v] = step[v]
  BY <1>1 DEF Started, StepDone, FileDone, TryFails, TypeOK
<1>7. RowWritten(mine) /\ RunWritten(w) /\ FilesOf(w)' = FilesOf(w)
  BY <1>5 DEF Written, FilesOf, Mine
<1>8. status[mine] \notin {"none", "queued"}
  BY <1>2, <1>3 DEF IInv, Owns
<1>9. CASE Started(w) \/ StepDone(w)
  <2>1. /\ UNCHANGED <<status, artifacts>>
        /\ place[w] \in {"started", "steps"}
        /\ place'[w] \in {"steps", "files", "cancel", "fail"}
    BY <1>1, <1>9 DEF Started, StepDone, Goes, Turn, Caught, TypeOK
  <2>2. place'[w] = "files" => step'[w] = 0
    BY <1>1, <1>9 DEF Started, StepDone, IInv, Counted, Goes, TypeOK
  <2>3. artifacts[mine] = << >> /\ status[mine] # "succeeded"
    BY <1>3, <1>7, <2>1 DEF RunWritten
  <2>4. RunWritten(w)'
    BY <1>3, <1>5, <2>1, <2>2, <2>3 DEF RunWritten
  <2>5. RowWritten(mine)'
    BY <1>5, <1>7, <2>1 DEF RowWritten
  <2> QED
    BY <1>4, <1>5, <1>6, <2>1, <2>4, <2>5, WorkersApart
<1>10. CASE FileDone(w)
  <2>1. /\ UNCHANGED status /\ InsertArtifact(w) /\ place[w] = "files"
        /\ place'[w] = IF step[w] + 1 = Len(FilesOf(w)) THEN "ok" ELSE "files"
        /\ step'[w] = step[w] + 1
    BY <1>1, <1>10 DEF FileDone, Goes, TypeOK
  <2>2. /\ artifacts'[mine] \in Seq(STRING)
        /\ Len(artifacts'[mine]) = step[w] + 1
        /\ \A i \in 1..(step[w] + 1) : artifacts'[mine][i] = FilesOf(w)[i]
        /\ \A j \in Jobs \ {mine} : artifacts'[j] = artifacts[j]
    BY <1>3, <2>1, FileAppended
  <2>3. status[mine] # "succeeded"
    BY <1>3, <1>7, <2>1 DEF RunWritten
  <2>4. place'[w] = "ok" => artifacts'[mine] = FilesOf(w)
    <3>1. FilesOf(w) \in Seq(STRING)
      BY <2>1, FileIsString
    <3>2. CASE step[w] + 1 = Len(FilesOf(w))
      BY <2>2, <3>1, <3>2, SeqEqual
    <3>3. CASE step[w] + 1 # Len(FilesOf(w))
      BY <2>1, <3>3
    <3> QED
      BY <3>2, <3>3
  <2>5. RunWritten(w)'
    BY <1>3, <1>5, <1>7, <2>1, <2>2, <2>3, <2>4 DEF RunWritten
  <2>6. RowWritten(mine)'
    BY <1>8, <2>1, <2>3 DEF RowWritten
  <2> QED
    BY <1>4, <1>5, <1>6, <2>1, <2>2, <2>5, <2>6, WorkersApart
<1>11. CASE TryFails(w)
  <2>1. /\ place'[w] \in {"cancel", "fail"}
        /\ \/ UNCHANGED <<status, artifacts>>
           \/ place[w] = "files" /\ InsertArtifact(w) /\ UNCHANGED status
           \/ /\ place[w] = "ok" /\ UNCHANGED artifacts
              /\ status' = [status EXCEPT ![mine] = "succeeded"]
    BY <1>1, <1>3, <1>11 DEF TryFails, Goes, Caught, Mark, Mine, TypeOK
  <2>2. \A j \in Jobs \ {mine} : status'[j] = status[j] /\ artifacts'[j] = artifacts[j]
    BY <1>1, <1>3, <2>1, FileAppended DEF TypeOK
  <2>3. RunWritten(w)'
    BY <2>1 DEF RunWritten
  <2>4. RowWritten(mine)'
    <3>1. CASE UNCHANGED <<status, artifacts>>
      BY <1>5, <1>7, <3>1 DEF RowWritten
    <3>2. CASE place[w] = "files" /\ UNCHANGED status
      <4>1. status[mine] # "succeeded"
        BY <1>3, <1>7, <3>2 DEF RunWritten
      <4> QED
        BY <1>8, <3>2, <4>1 DEF RowWritten
    <3>3. CASE /\ place[w] = "ok" /\ UNCHANGED artifacts
               /\ status' = [status EXCEPT ![mine] = "succeeded"]
      <4>1. kind[mine] # OtherType
        BY <1>1, <1>3, JobWorkerAssumption DEF IInv, Owns
      <4>2. artifacts[mine] = Files[kind[mine]]
        BY <1>3, <1>7, <3>3 DEF RunWritten, FilesOf, Mine
      <4> QED
        BY <1>1, <1>5, <3>3, <4>1, <4>2 DEF RowWritten, TypeOK
    <3> QED
      BY <2>1, <3>1, <3>2, <3>3
  <2> QED
    BY <1>4, <1>5, <1>6, <2>2, <2>3, <2>4, WorkersApart
<1> QED
  BY <1>9, <1>10, <1>11

(* A job that says succeeded has every artifact of its type in their order, *)
(* for any runners, failing calls, crashes and cancels (worker.js, fs.js).  *)
THEOREM SuccessIsComplete == Spec => []SuccessHasArtifacts
<1>1. Init => Written
  BY InitInductive DEF Init, Written, RowWritten, RunWritten
<1>2. IInv /\ Written /\ [Next]_vars => Written'
  <2> SUFFICES ASSUME IInv, Written, [Next]_vars PROVE Written'
    OBVIOUS
  <2>1. CASE UNCHANGED vars
    BY <2>1 DEF vars, rowVars, runVars, Written, RowWritten, RunWritten, FilesOf, Mine
  <2>2. ASSUME NEW j \in Jobs, PostJob(j) \/ CancelJob(j) PROVE Written'
    BY <2>2, RouteWrites
  <2>3. ASSUME NEW w \in Workers, Advance(w) PROVE Written'
    BY <2>3, ClaimWrites, LoopWrites, RunnerWrites, EndWrites DEF Advance
  <2>4. ASSUME NEW w \in Workers,
               Look(w) \/ Abort(w) \/ ClaimFails(w) \/ CrashRestart(w)
        PROVE  Written'
    BY <2>4, LoopWrites
  <2>5. ASSUME NEW w \in Workers, TryFails(w) \/ MarkFails(w) PROVE Written'
    BY <2>5, RunnerWrites, EndWrites
  <2> QED
    BY <2>1, <2>2, <2>3, <2>4, <2>5 DEF Next
<1>3. Written => SuccessHasArtifacts
  BY DEF Written, RowWritten, SuccessHasArtifacts
<1> QED
  BY <1>1, <1>2, <1>3, Inductive, PTL DEF Spec

-----------------------------------------------------------------------------
(* The signal, the answer that will raise it and a catch block that has     *)
(* seen it are all of the row that the worker has.                          *)
Signalled ==
  /\ \A w \in Workers : seen[w] \/ aborted[w] => job[w] \in asked
  /\ \A w \in Workers : place[w] = "cancel" => job[w] \in asked
  /\ CanceledWasAsked

(* A job ends canceled only if its cancel was called, however the interval, *)
(* failing calls and crashes fall (worker.js, routes/jobs.js).              *)
THEOREM CancelIsAskedFor == Spec => []CanceledWasAsked
<1>1. Init => Signalled
  BY DEF Init, Signalled, CanceledWasAsked
<1>2. IInv /\ Signalled /\ [Next]_vars => Signalled'
  <2> SUFFICES ASSUME IInv, Signalled, [Next]_vars PROVE Signalled'
    OBVIOUS
  <2> USE DEF rowVars, runVars, stopVars, pastVars, Goes, Ends, Mine,
          Signalled, CanceledWasAsked
  <2>0. TypeOK /\ \A w \in Workers : job[w] = NoJob <=> place[w] \in {"off", "timer", "loop"}
    BY DEF IInv, Owns
  <2>1. CASE UNCHANGED vars
    BY <2>1 DEF vars
  <2>2. ASSUME NEW j \in Jobs, PostJob(j) PROVE Signalled'
    BY <2>0, <2>2 DEF PostJob, TypeOK
  <2>3. ASSUME NEW j \in Jobs, CancelJob(j) PROVE Signalled'
    BY <2>0, <2>3 DEF CancelJob, TypeOK
  <2>4. ASSUME NEW w \in Workers, TimerFires(w) \/ NothingQueued(w) PROVE Signalled'
    BY <2>0, <2>4 DEF TimerFires, NothingQueued, TypeOK
  <2>5. ASSUME NEW w \in Workers, NEW j \in Jobs, ClaimNextJob(w, j) PROVE Signalled'
    <3>1. job[w] = NoJob
      BY <2>0, <2>5 DEF ClaimNextJob
    <3>2. ~seen[w] /\ ~aborted[w]
      BY <2>0, <3>1, JobWorkerAssumption DEF TypeOK
    <3> QED
      BY <2>0, <2>5, <3>2 DEF ClaimNextJob, TypeOK
  <2>6. ASSUME NEW w \in Workers, Look(w) PROVE Signalled'
    <3>1. job[w] \in Jobs
      BY <2>0, <2>6 DEF Look, TypeOK, Running
    <3> QED
      BY <2>0, <2>6, <3>1 DEF Look, TypeOK
  <2>7. ASSUME NEW w \in Workers, Abort(w) PROVE Signalled'
    BY <2>0, <2>7 DEF Abort, TypeOK
  <2>8. ASSUME NEW w \in Workers, UnknownType(w) \/ Marked(w) \/ MarkFails(w)
        PROVE  Signalled'
    <3>1. /\ UNCHANGED asked
          /\ \/ UNCHANGED status
             \/ /\ status' = [status EXCEPT ![job[w]] = Outcome[place[w]]]
                /\ place[w] \in {"ok", "cancel", "fail", "unknown"}
      BY <2>8 DEF UnknownType, Marked, MarkFails, Mark, Outcome
    <3>2. \A j \in Jobs : status'[j] = "canceled" => j \in asked
      BY <2>0, <3>1 DEF Outcome, TypeOK
    <3>3. /\ place' = [place EXCEPT ![w] = "timer"] /\ job' = [job EXCEPT ![w] = NoJob]
          /\ seen' = [seen EXCEPT ![w] = FALSE]
          /\ aborted' = [aborted EXCEPT ![w] = FALSE]
      BY <2>8 DEF UnknownType, Marked, MarkFails
    <3>4. \A v \in Workers : seen'[v] \/ aborted'[v] => job'[v] \in asked
      BY <2>0, <3>3 DEF TypeOK
    <3>5. \A v \in Workers : place'[v] = "cancel" => job'[v] \in asked
      BY <2>0, <3>3 DEF TypeOK
    <3> QED
      BY <3>1, <3>2, <3>4, <3>5
  <2>9. ASSUME NEW w \in Workers, Started(w) \/ StepDone(w) \/ FileDone(w) \/ TryFails(w)
        PROVE  Signalled'
    <3>1. /\ UNCHANGED <<job, seen, aborted, asked>>
          /\ \A v \in Workers \ {w} : place'[v] = place[v]
          /\ place'[w] = "cancel" => aborted[w]
      BY <2>0, <2>9 DEF Started, StepDone, FileDone, TryFails, Turn, Caught, TypeOK
    <3>2. \A j \in Jobs : status'[j] = "canceled" => status[j] = "canceled"
      BY <2>0, <2>9 DEF Started, StepDone, FileDone, TryFails, Mark, TypeOK
    <3> QED
      BY <3>1, <3>2
  <2>10. ASSUME NEW w \in Workers, ClaimFails(w) PROVE Signalled'
    BY <2>0, <2>10 DEF ClaimFails, TypeOK
  <2>11. ASSUME NEW w \in Workers, CrashRestart(w) PROVE Signalled'
    BY <2>0, <2>11 DEF CrashRestart, TypeOK
  <2> QED
    BY <2>1, <2>2, <2>3, <2>4, <2>5, <2>6, <2>7, <2>8, <2>9, <2>10, <2>11
       DEF Next, Advance
<1>3. Signalled => CanceledWasAsked
  BY DEF Signalled
<1> QED
  BY <1>1, <1>2, <1>3, Inductive, PTL DEF Spec

(* A canceled row that no worker has stays canceled (the status filter of   *)
(* the claim and of the cancel route).                                      *)
THEOREM CancelIsKept == Spec => CancelSticks
<1>1. ASSUME TypeOK, [Next]_vars, NEW j \in Jobs, status[j] = "canceled",
             \A w \in Workers : job[w] # j
      PROVE  status'[j] = "canceled"
  <2> USE <1>1, JobWorkerAssumption DEF TypeOK, rowVars
  <2>1. CASE UNCHANGED vars
    BY <2>1 DEF vars
  <2>2. ASSUME NEW i \in Jobs, PostJob(i) \/ CancelJob(i) PROVE status'[j] = "canceled"
    BY <2>2 DEF PostJob, CancelJob
  <2>3. ASSUME NEW w \in Workers, Advance(w) PROVE status'[j] = "canceled"
    BY <2>3 DEF Advance, TimerFires, NothingQueued, ClaimNextJob, Claimable, UnknownType,
       Started, StepDone, FileDone, Marked, Mark, Mine
  <2>4. ASSUME NEW w \in Workers,
               Look(w) \/ Abort(w) \/ ClaimFails(w) \/ CrashRestart(w)
        PROVE  status'[j] = "canceled"
    BY <2>4 DEF Look, Abort, ClaimFails, Claimable, CrashRestart
  <2>5. ASSUME NEW w \in Workers, TryFails(w) \/ MarkFails(w) PROVE status'[j] = "canceled"
    BY <2>5 DEF TryFails, MarkFails, Mark, Mine
  <2> QED
    BY <2>1, <2>2, <2>3, <2>4, <2>5 DEF Next
<1> DEFINE Kept == \A j \in Jobs :
                     status[j] = "canceled" /\ (\A w \in Workers : job[w] # j)
                       => status'[j] = "canceled"
<1>2. TypeOK /\ [Next]_vars => [Kept]_vars
  BY <1>1
<1> QED
  BY <1>2, TypeCorrect, PTL DEF Spec, CancelSticks

-----------------------------------------------------------------------------
(* The refinement.  Only a worker's own row can look different after a step *)
(* of it, and a row nobody has looks as it is.                              *)
LEMMA OthersLook ==
  ASSUME TypeOK, TypeOK', NEW w \in Workers, NEW mine,
         \A v \in Workers \ {w} : job'[v] = job[v],
         job[w] \in {NoJob, mine}, job'[w] \in {NoJob, mine},
         \A i \in Jobs \ {mine} : status'[i] = status[i]
  PROVE  \A i \in Jobs \ {mine} : Settled'[i] = Settled[i]
<1> SUFFICES ASSUME NEW i \in Jobs \ {mine} PROVE Settled'[i] = Settled[i]
  OBVIOUS
<1>1. i # NoJob
  BY JobWorkerAssumption
<1>2. (\E v \in Workers : job'[v] = i) <=> (\E v \in Workers : job[v] = i)
  BY <1>1
<1> QED
  BY <1>2 DEF Settled

LEMMA OneMoves ==
  ASSUME NEW j \in Jobs, NEW to, Settled'[j] = to,
         \A i \in Jobs \ {j} : Settled'[i] = Settled[i]
  PROVE  Settled' = [Settled EXCEPT ![j] = to]
<1>1. DOMAIN Settled = Jobs /\ Settled = [i \in Jobs |-> Settled[i]]
  BY DEF Settled
<1>2. Settled' = [i \in Jobs |-> Settled'[i]]
  BY DEF Settled
<1> QED
  BY <1>1, <1>2

LEMMA QueuedLooksQueued ==
  ASSUME IInv, NEW j \in Jobs, status[j] \in {"none", "queued"}
  PROVE  Settled[j] = status[j] /\ \A v \in Workers : job[v] # j
<1>1. \A v \in Workers : job[v] # j
  BY JobWorkerAssumption DEF IInv, Owns
<1> QED
  BY <1>1 DEF Settled

(* A worker lets its row go, with whatever status the row has by then.      *)
LEMMA EndSettles ==
  ASSUME IInv, IInv', NEW w \in Workers, job[w] # NoJob,
         job' = [job EXCEPT ![w] = NoJob],
         \A i \in Jobs \ {job[w]} : status'[i] = status[i],
         status'[job[w]] \in Terminal \cup {"running"}
  PROVE  [Lifecycle!Next]_Settled
<1>1. /\ job[w] \in Jobs
      /\ \A v \in Workers \ {w} : job'[v] = job[v] /\ job'[v] # job[w]
      /\ job'[w] = NoJob /\ NoJob \notin Jobs
  BY MineAlone, JobWorkerAssumption DEF IInv, TypeOK
<1>2. Settled[job[w]] = "running"
  BY <1>1 DEF Settled
<1>3. Settled'[job[w]] = status'[job[w]]
  <2>1. \A v \in Workers : job'[v] # job[w]
    BY <1>1
  <2> QED
    BY <1>1, <2>1 DEF Settled
<1>4. \A i \in Jobs \ {job[w]} : Settled'[i] = Settled[i]
  BY <1>1, OthersLook DEF IInv
<1>5. Settled' = [Settled EXCEPT ![job[w]] = status'[job[w]]]
  BY <1>1, <1>3, <1>4, OneMoves
<1>6. CASE status'[job[w]] = "running"
  <2>1. Settled' = Settled
    BY <1>2, <1>5, <1>6 DEF Settled
  <2> QED
    BY <2>1
<1>7. CASE status'[job[w]] \in Terminal
  <2>1. Lifecycle!Finish(job[w])
    BY <1>2, <1>5, <1>7
       DEF Lifecycle!Finish, Lifecycle!Move, Lifecycle!Terminal, Terminal
  <2> QED
    BY <1>1, <2>1 DEF Lifecycle!Next
<1> QED
  BY <1>6, <1>7

(* A queued row is claimed, by a worker that learns of it or one that does  *)
(* not.                                                                     *)
LEMMA ClaimSettles ==
  ASSUME IInv, IInv', NEW w \in Workers, NEW j \in Jobs, Claimable(j),
         job[w] = NoJob, job'[w] \in {NoJob, j},
         \A v \in Workers \ {w} : job'[v] = job[v],
         status' = [status EXCEPT ![j] = "running"]
  PROVE  [Lifecycle!Next]_Settled
<1>1. Settled[j] = "queued"
  BY QueuedLooksQueued DEF Claimable
<1>2. status'[j] = "running" /\ \A i \in Jobs \ {j} : status'[i] = status[i]
  BY DEF IInv, TypeOK
<1>3. Settled'[j] = "running"
  BY <1>2 DEF Settled
<1>4. \A i \in Jobs \ {j} : Settled'[i] = Settled[i]
  BY <1>2, OthersLook DEF IInv
<1>5. Settled' = [Settled EXCEPT ![j] = "running"]
  BY <1>3, <1>4, OneMoves
<1> QED
  BY <1>1, <1>5 DEF Lifecycle!Next, Lifecycle!Claim, Lifecycle!Move

LEMMA RouteSettles ==
  ASSUME IInv, NEW j \in Jobs, PostJob(j) \/ CancelJob(j)
  PROVE  [Lifecycle!Next]_Settled
<1>1. job' = job /\ \A i \in Jobs \ {j} : status'[i] = status[i]
  BY DEF PostJob, CancelJob, runVars, IInv, TypeOK
<1>2. \A i \in Jobs \ {j} : Settled'[i] = Settled[i]
  BY <1>1 DEF Settled
<1>3. CASE PostJob(j)
  <2>1. Settled[j] = "none" /\ \A v \in Workers : job[v] # j
    BY <1>3, QueuedLooksQueued DEF PostJob
  <2>2. status'[j] = "queued"
    BY <1>3 DEF PostJob, IInv, TypeOK
  <2>3. Settled'[j] = "queued"
    BY <1>1, <2>1, <2>2 DEF Settled
  <2>4. Settled' = [Settled EXCEPT ![j] = "queued"]
    BY <1>2, <2>3, OneMoves
  <2> QED
    BY <2>1, <2>4 DEF Lifecycle!Next, Lifecycle!Submit, Lifecycle!Move
<1>4. CASE CancelJob(j) /\ (\E v \in Workers : job[v] = j)
  <2>1. Settled'[j] = Settled[j]
    BY <1>1, <1>4 DEF Settled
  <2>2. Settled' = Settled
    BY <1>2, <2>1 DEF Settled
  <2> QED
    BY <2>2
<1>5. CASE CancelJob(j) /\ ~\E v \in Workers : job[v] = j
  <2>1. Settled[j] = status[j] /\ Settled'[j] = status'[j]
    BY <1>1, <1>5 DEF Settled
  <2>2. status'[j] = IF status[j] \in Cancelable THEN "canceled" ELSE status[j]
    BY <1>5 DEF CancelJob, IInv, TypeOK
  <2>3. Settled' = [Settled EXCEPT ![j] = status'[j]]
    BY <1>2, <2>1, OneMoves
  <2>4. CASE status[j] \notin Cancelable
    <3>1. Settled' = Settled
      BY <2>1, <2>2, <2>3, <2>4 DEF Settled
    <3> QED
      BY <3>1
  <2>5. CASE status[j] \in Cancelable
    <3>1. Settled[j] \in {"queued", "running"}
      BY <2>1, <2>5, JobWorkerAssumption
    <3>2. Lifecycle!Withdraw(j) \/ Lifecycle!Finish(j)
      BY <2>2, <2>3, <2>5, <3>1
         DEF Lifecycle!Withdraw, Lifecycle!Finish, Lifecycle!Move, Lifecycle!Terminal
    <3> QED
      BY <3>2 DEF Lifecycle!Next
  <2> QED
    BY <2>4, <2>5
<1> QED
  BY <1>3, <1>4, <1>5

LEMMA StepOfLifecycle == IInv /\ [Next]_vars => [Lifecycle!Next]_Settled
<1> SUFFICES ASSUME IInv, [Next]_vars PROVE [Lifecycle!Next]_Settled
  OBVIOUS
<1>0. IInv'
  BY NextInductive
<1>1. ASSUME status' = status, job' = job PROVE [Lifecycle!Next]_Settled
  BY <1>1 DEF Settled
<1>2. ASSUME NEW j \in Jobs, PostJob(j) \/ CancelJob(j) PROVE [Lifecycle!Next]_Settled
  BY <1>2, RouteSettles
<1>3. ASSUME NEW w \in Workers, NEW j \in Jobs, ClaimNextJob(w, j)
      PROVE  [Lifecycle!Next]_Settled
  <2>1. job[w] = NoJob
    BY <1>3 DEF ClaimNextJob, Goes, IInv, Owns
  <2>2. job'[w] = j /\ \A v \in Workers \ {w} : job'[v] = job[v]
    BY <1>3 DEF ClaimNextJob, IInv, TypeOK
  <2> QED
    BY <1>0, <1>3, <2>1, <2>2, ClaimSettles DEF ClaimNextJob
<1>4. ASSUME NEW w \in Workers, ClaimFails(w) PROVE [Lifecycle!Next]_Settled
  <2>1. job[w] = NoJob /\ job' = job
    BY <1>4 DEF ClaimFails, Goes, IInv, Owns
  <2>2. CASE status' = status
    BY <1>1, <2>1, <2>2
  <2>3. ASSUME NEW j \in Jobs, Claimable(j), status' = [status EXCEPT ![j] = "running"]
        PROVE  [Lifecycle!Next]_Settled
    BY <1>0, <2>1, <2>3, ClaimSettles
  <2> QED
    BY <1>4, <2>2, <2>3 DEF ClaimFails, rowVars
<1>5. ASSUME NEW w \in Workers, UnknownType(w) \/ Marked(w) \/ MarkFails(w)
      PROVE  [Lifecycle!Next]_Settled
  <2>1. /\ job' = [job EXCEPT ![w] = NoJob]
        /\ place[w] \in {"ok", "cancel", "fail", "unknown"}
    BY <1>5 DEF UnknownType, Marked, MarkFails, Ends
  <2>2. job[w] # NoJob /\ job[w] \in Jobs
    BY <2>1, MineAlone DEF IInv, Owns
  <2>3. Outcome[place[w]] \in Terminal
    BY <2>1 DEF Outcome, Terminal
  <2>4. /\ \A i \in Jobs \ {job[w]} : status'[i] = status[i]
        /\ status'[job[w]] \in {status[job[w]]} \cup Terminal
    BY <1>5, <2>2, <2>3 DEF UnknownType, Marked, MarkFails, Mark, Mine, rowVars, IInv, TypeOK,
       Terminal
  <2>5. status[job[w]] \in Terminal \cup {"running"}
    BY <2>2 DEF IInv, Owns, TypeOK, Statuses
  <2> QED
    BY <1>0, <2>1, <2>2, <2>4, <2>5, EndSettles
<1>6. ASSUME NEW w \in Workers, TryFails(w) PROVE [Lifecycle!Next]_Settled
  <2>1. job' = job /\ job[w] # NoJob
    BY <1>6 DEF TryFails, Goes, IInv, Owns
  <2>2. job[w] \in Jobs
    BY <2>1, MineAlone
  <2>3. \A i \in Jobs \ {job[w]} : status'[i] = status[i]
    BY <1>6, <2>2 DEF TryFails, Mark, Mine, IInv, TypeOK
  <2>4. \A i \in Jobs : Settled'[i] = Settled[i]
    BY <2>1, <2>3 DEF Settled
  <2>5. Settled' = Settled
    BY <2>4 DEF Settled
  <2> QED
    BY <2>5
<1>7. ASSUME NEW w \in Workers, CrashRestart(w) PROVE [Lifecycle!Next]_Settled
  <2>1. job' = [job EXCEPT ![w] = NoJob] /\ status' = status
    BY <1>7 DEF CrashRestart, rowVars
  <2>2. CASE job[w] = NoJob
    <3>1. job' = job
      BY <2>1, <2>2 DEF IInv, TypeOK
    <3> QED
      BY <1>1, <2>1, <3>1
  <2>3. CASE job[w] # NoJob
    <3>1. status[job[w]] \in Terminal \cup {"running"}
      BY <2>3, MineAlone DEF IInv, Owns, TypeOK, Statuses
    <3> QED
      BY <1>0, <2>1, <2>3, <3>1, EndSettles
  <2> QED
    BY <2>2, <2>3
<1>8. ASSUME NEW w \in Workers,
             \/ TimerFires(w) \/ NothingQueued(w) \/ Started(w) \/ StepDone(w)
             \/ FileDone(w) \/ Look(w) \/ Abort(w)
      PROVE  [Lifecycle!Next]_Settled
  <2>1. status' = status /\ job' = job
    BY <1>8 DEF TimerFires, NothingQueued, Started, StepDone, FileDone, Look, Abort, rowVars,
       runVars
  <2> QED
    BY <1>1, <2>1
<1>9. CASE UNCHANGED vars
  BY <1>1, <1>9 DEF vars, rowVars, runVars
<1> QED
  BY <1>2, <1>3, <1>4, <1>5, <1>6, <1>7, <1>8, <1>9 DEF Next, Advance

(* The worker, with its cancel of running rows, its lost answers and its    *)
(* crashes, implements the life of a row as seen by whoever waits until no  *)
(* worker has it (worker.js, routes/jobs.js).                               *)
THEOREM ImplementsLifecycle == Spec => FollowsLifecycle
<1>1. ASSUME Init PROVE Lifecycle!Init
  <2>1. \A j \in Jobs : Settled[j] = "none"
    BY <1>1, JobWorkerAssumption DEF Init, Settled
  <2> QED
    BY <2>1 DEF Lifecycle!Init, Settled
<1> QED
  BY <1>1, Inductive, StepOfLifecycle, PTL DEF Spec, FollowsLifecycle, Lifecycle!Spec
=============================================================================
