---------------------------- MODULE JobLifecycle ----------------------------
(***************************************************************************)
(* What the jobs table promises to whoever polls GET /jobs/:id: the life   *)
(* of one row as the statuses of the schema comment, with no word about    *)
(* ticks, locks, connections or processes.  A row is inserted once, is     *)
(* taken at most once, and a final status never changes.                   *)
(***************************************************************************)

CONSTANT Jobs        \* the rows that may ever be inserted

VARIABLE status      \* the status column; "none" before the INSERT

Terminal == {"succeeded", "failed", "canceled"}

Statuses == {"none", "queued", "running"} \cup Terminal

Init == status = [j \in Jobs |-> "none"]

Move(j, from, to) ==
  /\ status[j] = from
  /\ status' = [status EXCEPT ![j] = to]

Submit(j)   == Move(j, "none", "queued")
Withdraw(j) == Move(j, "queued", "canceled")
Claim(j)    == Move(j, "queued", "running")
Finish(j)   == \E s \in Terminal : Move(j, "running", s)

Next == \E j \in Jobs : Submit(j) \/ Withdraw(j) \/ Claim(j) \/ Finish(j)

Spec == Init /\ [][Next]_status
=============================================================================
