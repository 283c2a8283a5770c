------------------------------ MODULE JobStream ------------------------------
(***************************************************************************)
(* The job runner under requests that never stop.  A row of jobs is never  *)
(* deleted; here a finished row that nobody has in hand makes room for the *)
(* next INSERT, so that two rows stand for an endless stream of them.      *)
(***************************************************************************)
EXTENDS JobRunner

(* What is left of a row nobody will look at again is forgotten; the rows   *)
(* inserted after it move up by one in the order of created_at.             *)
Forget(j) ==
  /\ status[j] \in Terminal
  /\ j \notin canceling
  /\ \A t \in Ticks : job[t] # j
  /\ status' = [status EXCEPT ![j] = "none"]
  /\ priority' = [priority EXCEPT ![j] = 0]
  /\ created' = [i \in Jobs |-> IF i = j THEN 0
                                ELSE IF created[i] > created[j] THEN created[i] - 1
                                ELSE created[i]]
  /\ artifacts' = artifacts \ {j}
  /\ cancelRequested' = cancelRequested \ {<<"number", j>>, <<"string", j>>}
  /\ UNCHANGED <<rowLock, timer, tickVars, poolVars, canceling>>

StreamNext == Next \/ \E j \in Jobs : Forget(j)

StreamSpec == Init /\ [][StreamNext]_vars /\ Fairness

-----------------------------------------------------------------------------
Queued(j) == status[j] = "queued"

Overtakes(j) ==
  \E i \in Jobs : status[i] = "none" /\ status'[i] = "queued"
                    /\ priority'[i] > priority[j]

(* A queued job is taken or canceled although new jobs never stop coming,   *)
(* unless stop() ends the ticks or the new ones keep having a strictly      *)
(* higher priority.  Jobs of its own priority never starve it, by the       *)
(* created_at of claimNextJob's ORDER BY; those of a higher one can, since  *)
(* nothing in the code ages a row.                                          *)
EveryQueuedJobLeaves ==
  \A j \in Jobs :
    <>[](Queued(j) /\ timer) => []<><<Overtakes(j)>>_vars
=============================================================================
