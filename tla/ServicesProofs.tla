---------------------------- MODULE ServicesProofs ----------------------------
(***************************************************************************)
(* Proofs about the services, for any subscriptions, webhook requests,      *)
(* intervals, bodies, jobs and overlapping requests: payments, the candle   *)
(* feed, the settings and the overlay panel by themselves, and the whole,   *)
(* whose behaviours are behaviours of each.                                 *)
(***************************************************************************)
EXTENDS Services, AnalyticsProofs

-----------------------------------------------------------------------------
(* Payments.                                                                *)

HookStates == [pc : {"retrieve", "checkout", "update", "insert"}, sub : Subs, n : Nat \ {0}]
Rows == [sub : Subs, email : {"lower", "mixed", "none"}, status : Statuses]

(* Types; an event that is due, handled or written has been raised, and     *)
(* only the first of a subscription is its checkout.                       *)
SubsTypeOK ==
  /\ raised \in [Subs -> Seq(Events)]
  /\ hook \in [Hooks -> {NoHook} \cup HookStates]
  /\ rows \in Seq(Rows)
  /\ cased \in BOOLEAN
  /\ invite \in Subs \cup {"idle"}
  /\ invited \subseteq Subs
  /\ newest \in [Subs -> Nat]
  /\ late \in [Subs -> BOOLEAN]
  /\ lost \in [Subs -> SUBSET Nat]
  /\ due \subseteq Subs \X (Nat \ {0})

Happened ==
  /\ \A s \in Subs : newest[s] <= Len(raised[s])
  /\ \A d \in due : d[2] <= Len(raised[d[1]])
  /\ \A h \in Hooks : hook[h].pc # "idle" => hook[h].n <= Len(raised[hook[h].sub])

CheckoutFirst ==
  /\ \A s \in Subs : \A n \in 1..Len(raised[s]) : raised[s][n].kind = "checkout" => n = 1
  /\ \A h \in Hooks : hook[h].pc \in {"retrieve", "checkout"} => hook[h].n = 1

(* The status of a row is that of an event that was written.                *)
RowsHaveEvents ==
  \A i \in DOMAIN rows : \E n \in 1..newest[rows[i].sub] :
    raised[rows[i].sub][n].status = rows[i].status

Paid(s) ==
  /\ \E i \in RowsOf(s) : rows[i].email = "lower"
  /\ \E n \in 1..newest[s] : raised[s][n].status \in Paying

InvitesPaid == invite # "idle" => Paid(invite)

SubsInv == SubsTypeOK /\ Happened /\ CheckoutFirst /\ RowsHaveEvents
           /\ StatusFollows /\ NothingForgotten /\ InvitesPaid /\ InvitedHasPaid

-----------------------------------------------------------------------------
LEMMA SubsStart == InitSubs => SubsInv
<1> SUFFICES ASSUME InitSubs PROVE SubsInv OBVIOUS
<1> USE DEF InitSubs, NoHook
<1>1. SubsTypeOK BY DEF SubsTypeOK, HookStates
<1>2. Happened /\ CheckoutFirst /\ RowsHaveEvents BY DEF Happened, CheckoutFirst, RowsHaveEvents
<1>3. StatusFollows /\ NothingForgotten BY DEF StatusFollows, RowsOf, NothingForgotten
<1>4. InvitesPaid /\ InvitedHasPaid BY DEF InvitesPaid, InvitedHasPaid
<1> QED BY <1>1, <1>2, <1>3, <1>4 DEF SubsInv

-----------------------------------------------------------------------------
(* A request under way is about an event that was raised.                   *)
LEMMA AtWork ==
  ASSUME SubsTypeOK, Happened, NEW h \in Hooks, hook[h].pc # "idle"
  PROVE  /\ hook[h] \in HookStates /\ hook[h].sub \in Subs
         /\ hook[h].n \in 1..Len(raised[hook[h].sub])
         /\ raised[hook[h].sub] \in Seq(Events)
         /\ raised[hook[h].sub][hook[h].n] \in Events
         /\ Status(h) \in Statuses
<1> USE DEF SubsTypeOK, HookStates, NoHook
<1>1. hook[h] \in HookStates OBVIOUS
<1>2. hook[h].n \in 1..Len(raised[hook[h].sub])
  <2>1. hook[h].n \in Nat \ {0} /\ hook[h].sub \in Subs BY <1>1
  <2>2. Len(raised[hook[h].sub]) \in Nat BY <2>1
  <2>3. hook[h].n <= Len(raised[hook[h].sub]) BY DEF Happened
  <2> QED BY <2>1, <2>2, <2>3
<1>3. raised[hook[h].sub][hook[h].n] \in Events BY <1>1, <1>2
<1> QED BY <1>1, <1>2, <1>3 DEF Status, Events

(* What was paid stays paid while rows are only added and events only later. *)
LEMMA PaidStays ==
  ASSUME SubsInv, SubsTypeOK',
         \A s \in Subs : newest[s] <= newest'[s],
         \A s \in Subs : \A n \in 1..newest[s] : raised'[s][n] = raised[s][n],
         Len(rows) <= Len(rows'),
         \A i \in DOMAIN rows : rows'[i].sub = rows[i].sub /\ rows'[i].email = rows[i].email
  PROVE  \A s \in Subs : Paid(s) => Paid(s)'
<1> SUFFICES ASSUME NEW s \in Subs, Paid(s) PROVE Paid(s)' OBVIOUS
<1> USE DEF SubsInv, SubsTypeOK
<1>1. PICK i \in RowsOf(s) : rows[i].email = "lower" BY DEF Paid
<1>2. PICK n \in 1..newest[s] : raised[s][n].status \in Paying BY DEF Paid
<1>3. i \in DOMAIN rows' /\ rows'[i].sub = s /\ rows'[i].email = "lower"
  <2>1. i \in DOMAIN rows /\ rows[i].sub = s BY DEF RowsOf
  <2>2. DOMAIN rows = 1..Len(rows) /\ DOMAIN rows' = 1..Len(rows') OBVIOUS
  <2> QED BY <1>1, <2>1, <2>2
<1>4. n \in 1..newest'[s] /\ raised'[s][n].status \in Paying BY <1>2
<1> QED BY <1>3, <1>4 DEF Paid, RowsOf

(* A write by h: the history of its subscription.                           *)
LEMMA WriteHistory ==
  ASSUME SubsTypeOK, Happened, NEW h \in Hooks, hook[h].pc # "idle", Wrote(h)
  PROVE  /\ newest' \in [Subs -> Nat] /\ late' \in [Subs -> BOOLEAN] /\ lost' = lost
         /\ \A s \in Subs : newest[s] <= newest'[s] /\ newest'[s] <= Len(raised[s])
         /\ \A s \in Subs : s # hook[h].sub => newest'[s] = newest[s] /\ late'[s] = late[s]
         /\ hook[h].n <= newest'[hook[h].sub]
         /\ ~late'[hook[h].sub] => ~late[hook[h].sub] /\ newest'[hook[h].sub] = hook[h].n
<1> DEFINE s == hook[h].sub
<1> DEFINE n == hook[h].n
<1>1. s \in Subs /\ n \in 1..Len(raised[s]) /\ newest[s] \in Nat /\ newest[s] <= Len(raised[s])
  BY AtWork DEF SubsTypeOK, Happened
<1>2. newest' = [newest EXCEPT ![s] = IF n > @ THEN n ELSE @] BY DEF Wrote
<1>3. late' = [late EXCEPT ![s] = @ \/ n < newest[s]] BY DEF Wrote
<1>4. newest \in [Subs -> Nat] /\ late \in [Subs -> BOOLEAN] BY DEF SubsTypeOK
<1>5. newest'[s] = IF n > newest[s] THEN n ELSE newest[s] BY <1>1, <1>2, <1>4
<1>6. late'[s] = (late[s] \/ n < newest[s]) BY <1>1, <1>3, <1>4, Zenon
<1>7. newest' \in [Subs -> Nat] BY <1>1, <1>2, <1>4
<1>8. late' \in [Subs -> BOOLEAN] BY <1>1, <1>3, <1>4, Zenon
<1>9. \A r \in Subs : r # s => newest'[r] = newest[r] BY <1>1, <1>2, <1>4
<1>10. \A r \in Subs : r # s => late'[r] = late[r] BY <1>1, <1>3, <1>4, Zenon
<1>11. \A r \in Subs : newest[r] <= Len(raised[r]) BY DEF Happened
<1>12. \A r \in Subs : Len(raised[r]) \in Nat BY DEF SubsTypeOK
<1> HIDE DEF s, n
<1>13. \A r \in Subs : newest[r] <= newest'[r] /\ newest'[r] <= Len(raised[r])
  <2> SUFFICES ASSUME NEW r \in Subs
               PROVE  newest[r] <= newest'[r] /\ newest'[r] <= Len(raised[r])
    OBVIOUS
  <2>1. newest[r] \in Nat /\ Len(raised[r]) \in Nat /\ newest[r] <= Len(raised[r])
    BY <1>4, <1>11, <1>12
  <2>2. CASE r # s BY <2>1, <2>2, <1>9
  <2>3. CASE r = s BY <2>1, <2>3, <1>1, <1>5
  <2> QED BY <2>2, <2>3
<1>14. n <= newest'[s] BY <1>1, <1>4, <1>5
<1>15. ASSUME ~late'[s] PROVE ~late[s] /\ newest'[s] = n
  <2>1. ~late[s] /\ ~(n < newest[s]) BY <1>6, <1>15, Zenon
  <2> QED BY <1>1, <1>5, <2>1
<1>16. lost' = lost BY DEF Wrote
<1> QED BY <1>7, <1>8, <1>9, <1>10, <1>13, <1>14, <1>15, <1>16 DEF s, n

(* An event that is no longer due is accounted for by whoever answered it.  *)
LEMMA DueOrDone ==
  ASSUME SubsTypeOK, NothingForgotten, UNCHANGED raised, newest' \in [Subs -> Nat],
         \A s \in Subs : newest[s] <= newest'[s] /\ lost[s] \subseteq lost'[s],
         \A d \in due : d \in due' \/ d[2] <= newest'[d[1]] \/ d[2] \in lost'[d[1]]
  PROVE  NothingForgotten'
<1> SUFFICES ASSUME NEW s \in Subs, NEW n \in 1..Len(raised[s])
             PROVE  <<s, n>> \in due' \/ n <= newest'[s] \/ n \in lost'[s]
  BY DEF NothingForgotten
<1>1. newest[s] \in Nat /\ newest'[s] \in Nat /\ n \in Nat BY DEF SubsTypeOK
<1>2. CASE <<s, n>> \in due BY <1>2
<1>3. CASE n <= newest[s] BY <1>1, <1>3
<1>4. CASE n \in lost[s] BY <1>4
<1> QED BY <1>2, <1>3, <1>4 DEF NothingForgotten

-----------------------------------------------------------------------------
(* Steps that write no row, whatever they do to events and requests.        *)
LEMMA NoWrite ==
  ASSUME SubsInv, SubsTypeOK', rows' = rows, newest' = newest, late' = late,
         \A s \in Subs : \A n \in 1..Len(raised[s]) : raised'[s][n] = raised[s][n]
  PROVE  RowsHaveEvents' /\ StatusFollows' /\ \A s \in Subs : Paid(s) => Paid(s)'
<1> USE DEF SubsInv, SubsTypeOK
<1>1. \A s \in Subs : newest[s] \in Nat /\ Len(raised[s]) \in Nat /\ newest[s] <= Len(raised[s])
  BY DEF Happened
<1>2. \A s \in Subs : \A n \in 1..newest[s] : raised'[s][n] = raised[s][n]
  <2> HIDE DEF SubsInv, SubsTypeOK
  <2> QED BY <1>1
<1>3. \A i \in DOMAIN rows : rows[i].sub \in Subs
  <2>1. \A i \in DOMAIN rows : rows[i] \in Rows BY ElementOfSeq, LenProperties
  <2> QED BY <2>1 DEF Rows
<1>4. RowsHaveEvents'
  <2> SUFFICES ASSUME NEW i \in DOMAIN rows
               PROVE  \E n \in 1..newest[rows[i].sub] : raised'[rows[i].sub][n].status = rows[i].status
    BY DEF RowsHaveEvents
  <2>1. PICK n \in 1..newest[rows[i].sub] : raised[rows[i].sub][n].status = rows[i].status
    BY DEF RowsHaveEvents
  <2>2. raised'[rows[i].sub][n] = raised[rows[i].sub][n] BY <1>2, <1>3
  <2> QED BY <2>1, <2>2
<1>5. StatusFollows'
  <2> SUFFICES ASSUME NEW s \in Subs, ~late'[s], NEW i \in RowsOf(s)
               PROVE  rows[i].status = raised'[s][newest[s]].status
    BY DEF StatusFollows, RowsOf
  <2>1. rows[i].status = raised[s][newest[s]].status BY DEF StatusFollows
  <2>2. i \in DOMAIN rows /\ rows[i].sub = s BY DEF RowsOf
  <2>3. newest[s] \in 1..newest[s] BY <1>1, <2>2 DEF RowsHaveEvents
  <2> QED BY <1>2, <2>1, <2>3
<1>6. \A s \in Subs : Paid(s) => Paid(s)'
  <2>1. \A s \in Subs : newest[s] <= newest'[s] BY <1>1
  <2>2. Len(rows) <= Len(rows')
        /\ \A i \in DOMAIN rows : rows'[i].sub = rows[i].sub /\ rows'[i].email = rows[i].email
    BY LenProperties
  <2> HIDE DEF SubsInv, SubsTypeOK
  <2> QED BY <1>2, <2>1, <2>2, PaidStays
<1> QED BY <1>4, <1>5, <1>6

(* Inserts that the key lets through: the first row of the subscription is   *)
(* that of the event.                                                       *)
LEMMA InsertStep ==
  ASSUME SubsInv, SubsTypeOK', NEW h \in Hooks, hook[h].pc # "idle",
         NEW email \in {"lower", "mixed", "none"}, InsertRow(h, email), RowsOf(hook[h].sub) = {}
  PROVE  RowsHaveEvents' /\ StatusFollows' /\ \A s \in Subs : Paid(s) => Paid(s)'
<1> DEFINE sub == hook[h].sub
<1> DEFINE row == [sub |-> sub, email |-> email, status |-> Status(h)]
<1>0. SubsTypeOK /\ Happened /\ CheckoutFirst /\ RowsHaveEvents /\ StatusFollows BY DEF SubsInv
<1>1. hook[h].pc # "idle" /\ Wrote(h) /\ UNCHANGED raised BY DEF InsertRow
<1>2. sub \in Subs /\ hook[h].n \in 1..Len(raised[sub]) /\ Status(h) \in Statuses
  BY <1>0, <1>1, AtWork
<1>3. Status(h) = raised[sub][hook[h].n].status BY DEF Status
<1>4. rows \in Seq(Rows) /\ rows' = Append(rows, row) /\ row \in Rows
  BY <1>0, <1>2 DEF SubsTypeOK, InsertRow, Rows
<1> HIDE DEF row
<1>5. Len(rows) \in Nat /\ Len(rows') = Len(rows) + 1 /\ rows' \in Seq(Rows)
  BY <1>4, AppendProperties
<1>6. \A i \in 1..Len(rows) : rows'[i] = rows[i] BY <1>4, AppendProperties
<1>7. rows'[Len(rows) + 1] = row BY <1>4, AppendProperties
<1> USE DEF row
<1>8. \A i \in 1..Len(rows) : rows[i].sub \in Subs
  <2>1. \A i \in 1..Len(rows) : rows[i] \in Rows BY <1>4, ElementOfSeq
  <2> QED BY <2>1 DEF Rows
<1>9. \A s \in Subs : newest[s] \in Nat /\ newest'[s] \in Nat /\ newest[s] <= newest'[s]
  BY <1>0, <1>1, WriteHistory DEF SubsTypeOK
<1>10. hook[h].n <= newest'[sub] BY <1>0, <1>1, WriteHistory
<1>11. \A s \in Subs : s # sub => newest'[s] = newest[s] /\ late'[s] = late[s]
  BY <1>0, <1>1, WriteHistory
<1>12. ~late'[sub] => ~late[sub] /\ newest'[sub] = hook[h].n BY <1>0, <1>1, WriteHistory
<1> HIDE DEF sub
<1>14. DOMAIN rows = 1..Len(rows) /\ DOMAIN rows' = 1..(Len(rows) + 1) BY <1>4, <1>5
<1>15. RowsHaveEvents'
  <2> SUFFICES ASSUME NEW i \in 1..(Len(rows) + 1)
               PROVE  \E n \in 1..newest'[rows'[i].sub] : raised[rows'[i].sub][n].status = rows'[i].status
    BY <1>1, <1>14 DEF RowsHaveEvents
  <2>1. CASE i = Len(rows) + 1 BY <2>1, <1>2, <1>3, <1>7, <1>9, <1>10
  <2>2. CASE i \in 1..Len(rows)
    <3>1. PICK n \in 1..newest[rows[i].sub] : raised[rows[i].sub][n].status = rows[i].status
      BY <1>0, <1>14, <2>2 DEF RowsHaveEvents
    <3>2. n \in 1..newest'[rows[i].sub] BY <2>2, <1>8, <1>9
    <3>3. rows'[i] = rows[i] BY <2>2, <1>6
    <3> QED BY <3>1, <3>2, <3>3
  <2> QED BY <2>1, <2>2, <1>5
<1>16. StatusFollows'
  <2> SUFFICES ASSUME NEW s \in Subs, ~late'[s], NEW i \in 1..(Len(rows) + 1), rows'[i].sub = s
               PROVE  rows'[i].status = raised[s][newest'[s]].status
    BY <1>1, <1>14 DEF StatusFollows, RowsOf
  <2>1. CASE i = Len(rows) + 1
    <3>1. s = sub /\ rows'[i].status = Status(h) BY <2>1, <1>7
    <3> QED BY <3>1, <1>3, <1>12
  <2>2. CASE i \in 1..Len(rows)
    <3>1. rows'[i] = rows[i] /\ i \in RowsOf(s) BY <2>2, <1>6, <1>14 DEF RowsOf
    <3>2. s # sub BY <3>1 DEF sub
    <3>3. ~late[s] /\ newest'[s] = newest[s] BY <3>2, <1>11
    <3>4. rows[i].status = raised[s][newest[s]].status BY <1>0, <3>1, <3>3 DEF StatusFollows
    <3> QED BY <3>1, <3>3, <3>4
  <2> QED BY <2>1, <2>2, <1>5
<1>17. \A s \in Subs : Paid(s) => Paid(s)'
  <2>1. \A i \in DOMAIN rows : rows'[i].sub = rows[i].sub /\ rows'[i].email = rows[i].email
    BY <1>6, <1>14
  <2>2. Len(rows) <= Len(rows') BY <1>5
  <2> QED BY <2>1, <2>2, <1>1, <1>9, PaidStays
<1> QED BY <1>15, <1>16, <1>17

(* The UPDATE that finds rows: all of the subscription follow the event.    *)
LEMMA UpdateStep ==
  ASSUME SubsInv, SubsTypeOK', NEW h \in Hooks, At(h, "update"), Wrote(h), UNCHANGED raised,
         rows' = [i \in DOMAIN rows |->
                    IF rows[i].sub = hook[h].sub THEN [rows[i] EXCEPT !.status = Status(h)]
                                                 ELSE rows[i]]
  PROVE  RowsHaveEvents' /\ StatusFollows' /\ \A s \in Subs : Paid(s) => Paid(s)'
<1> DEFINE sub == hook[h].sub
<1>0. SubsTypeOK /\ Happened /\ RowsHaveEvents /\ StatusFollows BY DEF SubsInv
<1>1. hook[h].pc # "idle" BY DEF At
<1>2. sub \in Subs /\ hook[h].n \in 1..Len(raised[sub]) /\ Status(h) \in Statuses
  BY <1>0, <1>1, AtWork
<1>3. Status(h) = raised[sub][hook[h].n].status BY DEF Status
<1>4. \A i \in DOMAIN rows : rows[i] \in Rows
  BY <1>0, ElementOfSeq, LenProperties DEF SubsTypeOK
<1>5. DOMAIN rows' = DOMAIN rows /\ Len(rows') = Len(rows)
  <2>1. rows \in Seq(Rows) /\ rows' \in Seq(Rows) BY <1>0 DEF SubsTypeOK
  <2>2. DOMAIN rows' = DOMAIN rows OBVIOUS
  <2> QED BY <2>1, <2>2, LenProperties
<1>6. \A i \in DOMAIN rows : /\ rows'[i].sub = rows[i].sub /\ rows'[i].email = rows[i].email
                             /\ rows[i].sub = sub => rows'[i].status = Status(h)
                             /\ rows[i].sub # sub => rows'[i].status = rows[i].status
  BY <1>4 DEF Rows
<1>7. \A s \in Subs : newest[s] \in Nat /\ newest'[s] \in Nat /\ newest[s] <= newest'[s]
  BY <1>0, <1>1, WriteHistory DEF SubsTypeOK
<1>8. hook[h].n <= newest'[sub] BY <1>0, <1>1, WriteHistory
<1>9. \A s \in Subs : s # sub => newest'[s] = newest[s] /\ late'[s] = late[s]
  BY <1>0, <1>1, WriteHistory
<1>10. ~late'[sub] => newest'[sub] = hook[h].n BY <1>0, <1>1, WriteHistory
<1>11. \A i \in DOMAIN rows : rows[i].sub \in Subs BY <1>4 DEF Rows
<1> HIDE DEF sub
<1>12. RowsHaveEvents'
  <2> SUFFICES ASSUME NEW i \in DOMAIN rows
               PROVE  \E n \in 1..newest'[rows[i].sub] : raised[rows[i].sub][n].status = rows'[i].status
    BY <1>5, <1>6 DEF RowsHaveEvents
  <2>1. CASE rows[i].sub = sub BY <2>1, <1>2, <1>3, <1>6, <1>7, <1>8
  <2>2. CASE rows[i].sub # sub
    <3>1. PICK n \in 1..newest[rows[i].sub] : raised[rows[i].sub][n].status = rows[i].status
      BY <1>0 DEF RowsHaveEvents
    <3> QED BY <2>2, <3>1, <1>6, <1>7, <1>11
  <2> QED BY <2>1, <2>2
<1>13. StatusFollows'
  <2> SUFFICES ASSUME NEW s \in Subs, ~late'[s], NEW i \in DOMAIN rows, rows[i].sub = s
               PROVE  rows'[i].status = raised[s][newest'[s]].status
    BY <1>5, <1>6 DEF StatusFollows, RowsOf
  <2>1. CASE s = sub BY <2>1, <1>3, <1>6, <1>10
  <2>2. CASE s # sub
    <3>1. rows[i].status = raised[s][newest[s]].status
      BY <2>2, <1>0, <1>9 DEF StatusFollows, RowsOf
    <3> QED BY <2>2, <3>1, <1>6, <1>9
  <2> QED BY <2>1, <2>2
<1>14. \A s \in Subs : Paid(s) => Paid(s)'
  <2>1. Len(rows) <= Len(rows') BY <1>0, <1>5, LenProperties DEF SubsTypeOK
  <2> QED BY <2>1, <1>6, <1>7, PaidStays
<1> QED BY <1>12, <1>13, <1>14

-----------------------------------------------------------------------------
(* Stripe raises an event: it comes behind those before, and is the checkout *)
(* if it is the first.                                                     *)
LEMMA RaiseStep ==
  ASSUME SubsInv, NEW s \in Subs, NEW e \in Events, Raise(s, e)
  PROVE  /\ SubsTypeOK' /\ Happened' /\ CheckoutFirst' /\ NothingForgotten'
         /\ \A r \in Subs : \A n \in 1..Len(raised[r]) : raised'[r][n] = raised[r][n]
<1>0. SubsTypeOK /\ Happened /\ CheckoutFirst /\ NothingForgotten BY DEF SubsInv
<1>1. raised \in [Subs -> Seq(Events)] /\ raised' = [raised EXCEPT ![s] = Append(raised[s], e)]
  BY <1>0 DEF SubsTypeOK, Raise
<1>2. raised' \in [Subs -> Seq(Events)] BY <1>1, AppendProperties
<1>3. \A r \in Subs : r # s => raised'[r] = raised[r] BY <1>1
<1>4. raised'[s] = Append(raised[s], e) /\ raised[s] \in Seq(Events) BY <1>1
<1>5. /\ Len(raised'[s]) = Len(raised[s]) + 1 /\ raised'[s][Len(raised[s]) + 1] = e
      /\ \A n \in 1..Len(raised[s]) : raised'[s][n] = raised[s][n]
  BY <1>4, AppendProperties
<1>6. \A r \in Subs : Len(raised[r]) \in Nat /\ Len(raised'[r]) \in Nat BY <1>1, <1>2
<1>7. \A r \in Subs : Len(raised[r]) <= Len(raised'[r]) BY <1>3, <1>5, <1>6
<1>8. /\ due' = due \cup {<<s, Len(raised[s]) + 1>>}
      /\ UNCHANGED <<hook, rows, cased, invite, invited, newest, late, lost>>
  BY DEF Raise
<1>9. SubsTypeOK' BY <1>0, <1>2, <1>6, <1>8 DEF SubsTypeOK
<1>10. Happened'
  <2>1. \A r \in Subs : newest'[r] <= Len(raised'[r])
    BY <1>0, <1>6, <1>7, <1>8 DEF Happened, SubsTypeOK
  <2>2. \A d \in due' : d[2] <= Len(raised'[d[1]])
    BY <1>0, <1>5, <1>6, <1>7, <1>8 DEF Happened, SubsTypeOK
  <2>3. ASSUME NEW h \in Hooks, hook[h].pc # "idle" PROVE hook[h].n <= Len(raised'[hook[h].sub])
    <3>1. hook[h].sub \in Subs /\ hook[h].n \in 1..Len(raised[hook[h].sub]) BY <1>0, <2>3, AtWork
    <3> QED BY <3>1, <1>6, <1>7
  <2> QED BY <2>1, <2>2, <2>3, <1>8 DEF Happened
<1>11. CheckoutFirst'
  <2>1. ASSUME NEW r \in Subs, NEW n \in 1..Len(raised'[r]), raised'[r][n].kind = "checkout"
        PROVE  n = 1
    <3>1. CASE n \in 1..Len(raised[r])
      BY <3>1, <2>1, <1>0, <1>3, <1>5 DEF CheckoutFirst
    <3>2. CASE r = s /\ n = Len(raised[s]) + 1
      <4>1. raised[s] = <<>> BY <2>1, <3>2, <1>5 DEF Raise
      <4> QED BY <4>1, <3>2
    <3> QED BY <3>1, <3>2, <1>3, <1>5, <1>6
  <2> QED BY <2>1, <1>0, <1>8 DEF CheckoutFirst
<1>12. NothingForgotten'
  <2>1. ASSUME NEW r \in Subs, NEW n \in 1..Len(raised'[r])
        PROVE  <<r, n>> \in due' \/ n <= newest[r] \/ n \in lost[r]
    <3>1. CASE n \in 1..Len(raised[r]) BY <3>1, <1>0, <1>8 DEF NothingForgotten
    <3>2. CASE r = s /\ n = Len(raised[s]) + 1 BY <3>2, <1>8
    <3> QED BY <3>1, <3>2, <1>3, <1>5, <1>6
  <2> QED BY <2>1, <1>8 DEF NothingForgotten
<1> QED BY <1>3, <1>5, <1>9, <1>10, <1>11, <1>12

(* What every step has to keep, whatever it writes.                         *)
Basics == SubsTypeOK /\ Happened /\ CheckoutFirst /\ NothingForgotten

(* A request that ends, with its delivery done or not, leaves nothing behind. *)
LEMMA Acknowledged ==
  ASSUME SubsTypeOK, Happened, CheckoutFirst, NEW h \in Hooks, hook[h].pc # "idle",
         Acknowledge(h), UNCHANGED raised
  PROVE  /\ hook' \in [Hooks -> {NoHook} \cup HookStates] /\ due' \subseteq due
         /\ \A d \in due : d \in due' \/ d = <<hook[h].sub, hook[h].n>>
         /\ \A k \in Hooks : hook'[k].pc # "idle" => hook'[k].n <= Len(raised[hook'[k].sub])
         /\ \A k \in Hooks : hook'[k].pc \in {"retrieve", "checkout"} => hook'[k].n = 1
<1>1. /\ hook' = [hook EXCEPT ![h] = NoHook] /\ due' \subseteq due
      /\ \A d \in due : d \in due' \/ d = <<hook[h].sub, hook[h].n>>
  BY DEF Acknowledge
<1>2. hook' \in [Hooks -> {NoHook} \cup HookStates] BY <1>1 DEF SubsTypeOK
<1>3. \A k \in Hooks : hook'[k].pc # "idle" => hook'[k] = hook[k]
  BY <1>1 DEF SubsTypeOK, NoHook
<1>4. \A k \in Hooks : hook'[k].pc \in {"retrieve", "checkout"} => hook'[k] = hook[k]
  BY <1>3
<1> QED BY <1>1, <1>2, <1>3, <1>4 DEF Happened, CheckoutFirst

(* The steps that write rows.                                               *)
LEMMA WritingStep ==
  ASSUME SubsInv, NEW h \in Hooks, hook[h].pc # "idle", Wrote(h), Acknowledge(h),
         rows' \in Seq(Rows), UNCHANGED <<raised, cased, invite, invited>>
  PROVE  Basics'
<1>0. SubsTypeOK /\ Happened /\ CheckoutFirst /\ NothingForgotten BY DEF SubsInv
<1>1. /\ hook' \in [Hooks -> {NoHook} \cup HookStates] /\ due' \subseteq due
      /\ \A d \in due : d \in due' \/ d = <<hook[h].sub, hook[h].n>>
      /\ \A k \in Hooks : hook'[k].pc # "idle" => hook'[k].n <= Len(raised[hook'[k].sub])
      /\ \A k \in Hooks : hook'[k].pc \in {"retrieve", "checkout"} => hook'[k].n = 1
  BY <1>0, Acknowledged
<1>2. newest' \in [Subs -> Nat] /\ late' \in [Subs -> BOOLEAN] /\ lost' = lost
  BY <1>0, WriteHistory
<1>3. /\ \A s \in Subs : newest[s] <= newest'[s] /\ newest'[s] <= Len(raised[s])
      /\ hook[h].n <= newest'[hook[h].sub]
  BY <1>0, WriteHistory
<1>4. SubsTypeOK' BY <1>0, <1>1, <1>2 DEF SubsTypeOK
<1>5. Happened' BY <1>0, <1>1, <1>3 DEF Happened
<1>6. CheckoutFirst' BY <1>0, <1>1 DEF CheckoutFirst
<1>7. NothingForgotten'
  <2>1. \A d \in due : d \in due' \/ d[2] <= newest'[d[1]] BY <1>1, <1>3
  <2> QED BY <2>1, <1>0, <1>2, <1>3, DueOrDone
<1> QED BY <1>4, <1>5, <1>6, <1>7 DEF Basics

LEMMA InsertedRow ==
  ASSUME SubsInv, NEW h \in Hooks, hook[h].pc # "idle",
         NEW email \in {"lower", "mixed", "none"}, InsertRow(h, email), RowsOf(hook[h].sub) = {}
  PROVE  rows' \in Seq(Rows)
<1>1. hook[h].sub \in Subs /\ Status(h) \in Statuses BY AtWork DEF SubsInv
<1>2. rows \in Seq(Rows) BY DEF SubsInv, SubsTypeOK
<1>3. [sub |-> hook[h].sub, email |-> email, status |-> Status(h)] \in Rows BY <1>1 DEF Rows
<1> QED BY <1>2, <1>3, AppendProperties DEF InsertRow

LEMMA UpdatedRows ==
  ASSUME SubsInv, NEW h \in Hooks, At(h, "update"), Update(h), RowsOf(hook[h].sub) # {}
  PROVE  rows' \in Seq(Rows)
<1>1. Status(h) \in Statuses BY AtWork DEF SubsInv, At
<1>2. rows \in Seq(Rows) BY DEF SubsInv, SubsTypeOK
<1>3. \A i \in 1..Len(rows) : rows[i] \in Rows BY <1>2, ElementOfSeq
<1>4. rows' = [i \in 1..Len(rows) |->
                 IF rows[i].sub = hook[h].sub THEN [rows[i] EXCEPT !.status = Status(h)]
                                              ELSE rows[i]]
  BY <1>2, LenProperties DEF Update
<1>5. \A i \in 1..Len(rows) : rows'[i] \in Rows BY <1>1, <1>3, <1>4 DEF Rows
<1>6. Len(rows) \in Nat /\ rows' \in [1..Len(rows) -> Rows] BY <1>2, <1>4, <1>5
<1> QED BY <1>6, IsASeq

(* The steps of a request that write no row: it arrives, goes on or ends.   *)
LEMMA HookStep ==
  ASSUME SubsInv, NEW h \in Hooks, UNCHANGED <<raised, rows, cased, invite, invited, newest, late>>,
         \/ \E d \in due : Deliver(h, d)
         \/ Retrieve(h)
         \/ Update(h) /\ RowsOf(hook[h].sub) = {}
         \/ hook[h].pc # "idle" /\ Lose(h) /\ Acknowledge(h)
  PROVE  Basics'
<1>0. SubsTypeOK /\ Happened /\ CheckoutFirst /\ NothingForgotten BY DEF SubsInv
<1> DEFINE Good ==
      /\ hook' \in [Hooks -> {NoHook} \cup HookStates] /\ due' \subseteq due
      /\ \A k \in Hooks : hook'[k].pc # "idle" => hook'[k].n <= Len(raised[hook'[k].sub])
      /\ \A k \in Hooks : hook'[k].pc \in {"retrieve", "checkout"} => hook'[k].n = 1
<1>1. Good
  <2>1. CASE \E d \in due : Deliver(h, d)
    <3>1. PICK d \in due : Deliver(h, d) BY <2>1
    <3>2. d[1] \in Subs /\ d[2] \in Nat \ {0} /\ d[2] <= Len(raised[d[1]])
      BY <1>0 DEF SubsTypeOK, Happened
    <3>3. raised[d[1]][d[2]].kind = "checkout" => d[2] = 1
      <4>1. Len(raised[d[1]]) \in Nat BY <1>0, <3>2 DEF SubsTypeOK
      <4>2. d[2] \in 1..Len(raised[d[1]]) BY <3>2, <4>1
      <4> QED BY <1>0, <3>2, <4>2 DEF CheckoutFirst
    <3> DEFINE it == [pc |-> IF raised[d[1]][d[2]].kind = "checkout" THEN "retrieve" ELSE "update",
                      sub |-> d[1], n |-> d[2]]
    <3>4. it \in HookStates /\ it.n <= Len(raised[it.sub])
          /\ (it.pc \in {"retrieve", "checkout"} => it.n = 1)
      BY <3>2, <3>3 DEF HookStates
    <3>5. hook' = [hook EXCEPT ![h] = it] /\ due' = due BY <3>1 DEF Deliver
    <3> HIDE DEF it
    <3>6. hook'[h] = it /\ \A k \in Hooks : k # h => hook'[k] = hook[k]
      BY <3>5, <1>0 DEF SubsTypeOK
    <3>7. hook' \in [Hooks -> {NoHook} \cup HookStates] BY <3>4, <3>5, <1>0 DEF SubsTypeOK
    <3> QED BY <1>0, <3>4, <3>5, <3>6, <3>7 DEF Happened, CheckoutFirst
  <2>2. ASSUME NEW pc \in {"checkout", "insert"}, hook[h].pc # "idle",
               pc = "checkout" => hook[h].pc = "retrieve",
               hook' = [hook EXCEPT ![h].pc = pc], UNCHANGED due
        PROVE  Good
    <3>1. hook[h] \in HookStates BY <1>0, <2>2, AtWork
    <3>2. hook'[h] = [hook[h] EXCEPT !.pc = pc] /\ \A k \in Hooks : k # h => hook'[k] = hook[k]
      BY <2>2, <1>0 DEF SubsTypeOK
    <3>3. hook'[h] \in HookStates /\ hook'[h].pc = pc /\ hook'[h].n = hook[h].n
          /\ hook'[h].sub = hook[h].sub
      BY <3>1, <3>2 DEF HookStates
    <3>4. hook' \in [Hooks -> {NoHook} \cup HookStates] BY <2>2, <3>2, <3>3, <1>0 DEF SubsTypeOK
    <3> QED BY <1>0, <2>2, <3>2, <3>3, <3>4 DEF Happened, CheckoutFirst
  <2>3. CASE Retrieve(h)
    <3>1. hook[h].pc # "idle" /\ hook[h].pc = "retrieve" BY <2>3 DEF Retrieve, At
    <3>2. CASE hook' = [hook EXCEPT ![h].pc = "checkout"]
      BY <3>1, <3>2, <2>2, <2>3 DEF Retrieve
    <3>3. CASE hook' = [hook EXCEPT ![h] = NoHook]
      <4>1. Acknowledge(h) BY <3>3, <2>3 DEF Retrieve, Acknowledge
      <4> QED BY <4>1, <3>1, <1>0, Acknowledged
    <3> QED BY <3>2, <3>3, <2>3 DEF Retrieve
  <2>4. CASE Update(h) /\ RowsOf(hook[h].sub) = {}
    <3>1. hook[h].pc # "idle" /\ UNCHANGED due /\ hook' = [hook EXCEPT ![h].pc = "insert"]
      BY <2>4 DEF Update, At
    <3> QED BY <3>1, <2>2
  <2>5. CASE hook[h].pc # "idle" /\ Acknowledge(h) BY <2>5, <1>0, Acknowledged
  <2> QED BY <2>1, <2>3, <2>4, <2>5
<1>5. /\ lost' \in [Subs -> SUBSET Nat] /\ \A s \in Subs : lost[s] \subseteq lost'[s]
      /\ \A d \in due : d \in due' \/ d[2] \in lost'[d[1]]
  <2>1. CASE lost' = lost /\ due' = due BY <2>1, <1>0 DEF SubsTypeOK
  <2>2. CASE hook[h].pc # "idle" /\ Lose(h) /\ Acknowledge(h)
    <3>1. hook[h].sub \in Subs /\ hook[h].n \in Nat BY <2>2, <1>0, AtWork DEF SubsTypeOK
    <3>2. lost' = [lost EXCEPT ![hook[h].sub] = lost[hook[h].sub] \cup {hook[h].n}]
      BY <2>2, <1>0, <3>1 DEF Lose, SubsTypeOK
    <3>3. lost \in [Subs -> SUBSET Nat] BY <1>0 DEF SubsTypeOK
    <3>4. \A d \in due : d \in due' \/ d = <<hook[h].sub, hook[h].n>> BY <2>2, <1>0, Acknowledged
    <3> QED BY <3>1, <3>2, <3>3, <3>4
  <2>3. CASE Retrieve(h) \/ (Update(h) /\ RowsOf(hook[h].sub) = {}) \/ \E d \in due : Deliver(h, d)
    <3>1. lost' = lost /\ due' = due BY <2>3 DEF Retrieve, Update, Deliver
    <3> QED BY <2>1, <3>1
  <2> QED BY <2>2, <2>3
<1>2. SubsTypeOK' BY <1>0, <1>1, <1>5 DEF SubsTypeOK
<1>3. Happened' BY <1>0, <1>1 DEF Happened
<1>4. CheckoutFirst' BY <1>0, <1>1 DEF CheckoutFirst
<1>6. NothingForgotten'
  <2>1. newest' \in [Subs -> Nat] /\ \A s \in Subs : newest[s] <= newest'[s]
    BY <1>0 DEF SubsTypeOK
  <2> QED BY <2>1, <1>0, <1>5, DueOrDone
<1> QED BY <1>2, <1>3, <1>4, <1>6 DEF Basics

-----------------------------------------------------------------------------
(* An invitation is begun for a paid subscription, and made for it.         *)
LEMMA InviteStep ==
  ASSUME SubsInv, AskInvite \/ CreateInvite
  PROVE  Basics' /\ InvitesPaid' /\ InvitedHasPaid'
<1>0. SubsTypeOK /\ Happened /\ CheckoutFirst /\ RowsHaveEvents /\ InvitesPaid /\ InvitedHasPaid
      /\ NothingForgotten
  BY DEF SubsInv
<1>1. UNCHANGED <<raised, due, hook, rows, cased, newest, late, lost>> BY DEF AskInvite, CreateInvite
<1>a. NothingForgotten' BY <1>0, <1>1 DEF NothingForgotten
<1>2. \A s \in Subs : Paid(s)' = Paid(s) BY <1>1 DEF Paid, RowsOf
<1>3. CASE AskInvite
  <2>1. PICK i \in Mine : rows[i].status \in Paying /\ invite' = rows[i].sub BY <1>3 DEF AskInvite
  <2>2. i \in DOMAIN rows /\ rows[i].email = "lower" BY DEF Mine
  <2>3. rows[i] \in Rows BY <1>0, <2>2, ElementOfSeq, LenProperties DEF SubsTypeOK
  <2>4. invite' \in Subs BY <2>1, <2>3 DEF Rows
  <2>5. Paid(invite') BY <1>0, <2>1, <2>2 DEF RowsHaveEvents, Paid, RowsOf
  <2>6. invited' = invited BY <1>3 DEF AskInvite
  <2>7. SubsTypeOK' BY <1>0, <1>1, <2>4, <2>6 DEF SubsTypeOK
  <2>8. Happened' /\ CheckoutFirst' BY <1>0, <1>1 DEF Happened, CheckoutFirst
  <2>9. InvitesPaid' BY <1>1, <2>4, <2>5 DEF InvitesPaid, Paid, RowsOf
  <2>10. InvitedHasPaid' BY <1>0, <1>1, <2>6 DEF InvitedHasPaid, RowsOf
  <2> QED BY <1>a, <2>7, <2>8, <2>9, <2>10 DEF Basics
<1>4. CASE CreateInvite
  <2>1. invite' = "idle" /\ invite \in Subs /\ invited' \subseteq invited \cup {invite}
    BY <1>4, <1>0 DEF CreateInvite, SubsTypeOK
  <2>2. SubsTypeOK' BY <1>0, <1>1, <2>1 DEF SubsTypeOK
  <2>3. Happened' /\ CheckoutFirst' BY <1>0, <1>1 DEF Happened, CheckoutFirst
  <2>4. InvitesPaid' BY <2>1 DEF InvitesPaid
  <2>5. Paid(invite) BY <1>0, <1>4 DEF InvitesPaid, CreateInvite
  <2>6. \A s \in invited' : Paid(s) BY <1>0, <2>1, <2>5 DEF InvitedHasPaid, Paid
  <2>7. InvitedHasPaid' BY <1>1, <2>6 DEF InvitedHasPaid, Paid, RowsOf
  <2> QED BY <1>a, <2>2, <2>3, <2>4, <2>7 DEF Basics
<1> QED BY <1>3, <1>4

(* Where the invitations are left alone and what was paid stays paid.       *)
LEMMA InvitesKept ==
  ASSUME SubsInv, UNCHANGED <<invite, invited>>, \A s \in Subs : Paid(s) => Paid(s)'
  PROVE  InvitesPaid' /\ InvitedHasPaid'
<1>1. SubsTypeOK /\ InvitesPaid /\ InvitedHasPaid BY DEF SubsInv
<1>2. InvitesPaid' BY <1>1 DEF InvitesPaid, SubsTypeOK
<1>3. \A s \in invited : Paid(s) BY <1>1 DEF InvitedHasPaid, Paid
<1>4. \A s \in invited : Paid(s)' BY <1>1, <1>3 DEF SubsTypeOK
<1>5. InvitedHasPaid' BY <1>4 DEF InvitedHasPaid, Paid
<1> QED BY <1>2, <1>5

LEMMA SubsStep == SubsInv /\ [NextSubs]_subVars => SubsInv'
<1> SUFFICES ASSUME SubsInv, [NextSubs]_subVars PROVE SubsInv' OBVIOUS
<1> DEFINE Rest == RowsHaveEvents' /\ StatusFollows' /\ \A s \in Subs : Paid(s) => Paid(s)'
<1>1. ASSUME Basics', Rest, UNCHANGED <<invite, invited>> PROVE SubsInv'
  <2>1. InvitesPaid' /\ InvitedHasPaid' BY <1>1, InvitesKept
  <2> QED BY <1>1, <2>1 DEF Basics, SubsInv
<1>2. ASSUME NEW s \in Subs, NEW e \in Events, Raise(s, e) PROVE SubsInv'
  <2>1. Basics' BY <1>2, RaiseStep DEF Basics
  <2>2. UNCHANGED <<rows, invite, invited, newest, late>> BY <1>2 DEF Raise
  <2>3. Rest BY <1>2, <2>1, <2>2, RaiseStep, NoWrite DEF Basics
  <2> QED BY <1>1, <2>1, <2>2, <2>3
<1>3. ASSUME NEW h \in Hooks,
             UNCHANGED <<raised, rows, cased, invite, invited, newest, late>>,
             \/ \E d \in due : Deliver(h, d)
             \/ Retrieve(h)
             \/ Update(h) /\ RowsOf(hook[h].sub) = {}
             \/ hook[h].pc # "idle" /\ Lose(h) /\ Acknowledge(h)
      PROVE  SubsInv'
  <2>1. Basics' BY <1>3, HookStep
  <2>2. Rest BY <1>3, <2>1, NoWrite DEF Basics
  <2> QED BY <1>1, <1>3, <2>1, <2>2
<1>4. ASSUME NEW h \in Hooks, hook[h].pc # "idle",
             NEW email \in {"lower", "mixed", "none"}, InsertRow(h, email)
      PROVE  SubsInv'
  <2>1. CASE RowsOf(hook[h].sub) = {}
    <3>1. Wrote(h) /\ Acknowledge(h) /\ UNCHANGED <<raised, cased, invite, invited>>
      BY <1>4, <2>1 DEF InsertRow
    <3>2. Basics' BY <1>4, <2>1, <3>1, InsertedRow, WritingStep
    <3>3. Rest BY <1>4, <2>1, <3>2, InsertStep DEF Basics
    <3> QED BY <1>1, <3>1, <3>2, <3>3
  <2>2. CASE RowsOf(hook[h].sub) # {}
    <3>1. /\ Lose(h) /\ Acknowledge(h)
          /\ UNCHANGED <<raised, rows, cased, invite, invited, newest, late>>
      BY <1>4, <2>2 DEF InsertRow, Lose
    <3> QED BY <1>3, <1>4, <3>1
  <2> QED BY <2>1, <2>2
<1>5. ASSUME NEW h \in Hooks, InsertCheckout(h) \/ InsertUpdate(h) PROVE SubsInv'
  <2>1. PICK email \in {"lower", "mixed", "none"} : InsertRow(h, email)
    BY <1>5 DEF InsertCheckout, InsertUpdate
  <2>2. hook[h].pc # "idle" BY <1>5 DEF InsertCheckout, InsertUpdate, At
  <2> QED BY <1>4, <2>1, <2>2
<1>6. ASSUME NEW h \in Hooks, Update(h), RowsOf(hook[h].sub) # {} PROVE SubsInv'
  <2>1. /\ At(h, "update") /\ hook[h].pc # "idle" /\ Wrote(h) /\ Acknowledge(h)
        /\ UNCHANGED <<raised, cased, invite, invited>>
        /\ rows' = [i \in DOMAIN rows |->
             IF rows[i].sub = hook[h].sub THEN [rows[i] EXCEPT !.status = Status(h)] ELSE rows[i]]
    BY <1>6 DEF Update, At
  <2>2. Basics' BY <1>6, <2>1, UpdatedRows, WritingStep
  <2>3. Rest BY <2>1, <2>2, UpdateStep DEF Basics
  <2> QED BY <1>1, <2>1, <2>2, <2>3
<1>7. ASSUME AskInvite \/ CreateInvite PROVE SubsInv'
  <2>1. Basics' /\ InvitesPaid' /\ InvitedHasPaid' BY <1>7, InviteStep
  <2>2. rows' = rows /\ newest' = newest /\ late' = late /\ raised' = raised
    BY <1>7 DEF AskInvite, CreateInvite
  <2>3. RowsHaveEvents' /\ StatusFollows' BY <2>1, <2>2, NoWrite DEF Basics
  <2> QED BY <2>1, <2>3 DEF Basics, SubsInv
<1>8. ASSUME UNCHANGED subVars PROVE SubsInv'
  BY <1>8 DEF subVars, SubsInv, SubsTypeOK, Happened, CheckoutFirst, RowsHaveEvents,
    StatusFollows, NothingForgotten, RowsOf, InvitesPaid, InvitedHasPaid, Paid
<1>9. ASSUME NEW h \in Hooks, Handle(h) PROVE SubsInv'
  <2>1. CASE Retrieve(h) BY <2>1, <1>3 DEF Retrieve
  <2>2. CASE Update(h) /\ RowsOf(hook[h].sub) = {} BY <2>2, <1>3 DEF Update
  <2> QED BY <1>5, <1>6, <1>9, <2>1, <2>2 DEF Handle
<1>10. ASSUME NEW h \in Hooks, DbError(h) \/ \E d \in due : Deliver(h, d) PROVE SubsInv'
  <2>1. CASE DbError(h)
    <3>1. /\ hook[h].pc # "idle" /\ Lose(h) /\ Acknowledge(h)
          /\ UNCHANGED <<raised, rows, cased, invite, invited, newest, late>>
      BY <2>1 DEF DbError, Lose
    <3> QED BY <1>3, <3>1
  <2>2. CASE \E d \in due : Deliver(h, d) BY <2>2, <1>3 DEF Deliver
  <2> QED BY <1>10, <2>1, <2>2
<1> QED BY <1>2, <1>7, <1>8, <1>9, <1>10 DEF NextSubs

(* The rows follow the events (payments/stripe.js:59-118, under the unique  *)
(* index of the migration), and none is forgotten but for a statement that  *)
(* fails or is refused, for any number of overlapping and repeated          *)
(* deliveries.                                                             *)
THEOREM RowsFollow == SubsSpec => []RowsFollowEvents
<1>1. SubsInv => RowsFollowEvents BY DEF SubsInv, RowsFollowEvents
<1> QED BY <1>1, SubsStart, SubsStep, PTL DEF SubsSpec

(* Nobody is invited who has not subscribed (server.js:301-314).            *)
THEOREM InvitationsArePaid == SubsSpec => []InvitedHasPaid
<1>1. SubsInv => InvitedHasPaid BY DEF SubsInv
<1> QED BY <1>1, SubsStart, SubsStep, PTL DEF SubsSpec

-----------------------------------------------------------------------------
(* The candle feed.  A grid is the multiples of an interval s.              *)

Grid(s, t) == t \in Nat /\ \E n \in Nat : t = s * n

LEMMA GridSteps ==
  ASSUME NEW s \in Nat \ {0}, NEW t, Grid(s, t), NEW i \in Nat
  PROVE  Grid(s, t + s * i)
<1>1. PICK n \in Nat : t = s * n BY DEF Grid
<1>2. n + i \in Nat /\ s * i \in Nat /\ t + s * i = s * (n + i) BY <1>1
<1> QED BY <1>2 DEF Grid

LEMMA StepIs ==
  ASSUME NEW m \in Markets
  PROVE  Step[m] \in Nat \ {0}
BY CandleFeedAssumption

LEMMA EveryMarket == IngestMarket \in Markets /\ EngineMarket \in Markets /\ FillMarket \in Markets
BY DEF Markets

LEMMA OpenedIsGrid ==
  ASSUME clock \in Nat, NEW m \in Markets
  PROVE  \A t : t \in Opened(m) <=> Grid(Step[m], t) /\ t <= clock
<1> SUFFICES ASSUME NEW t PROVE t \in Opened(m) <=> Grid(Step[m], t) /\ t <= clock OBVIOUS
<1> DEFINE s == Step[m]
<1>1. s \in Nat \ {0} BY StepIs
<1>2. Opened(m) = {u \in 0..clock : \E n \in 0..clock : u = s * n} BY DEF Opened
<1> HIDE DEF s
<1>3. ASSUME NEW n \in Nat PROVE n <= s * n
  <2>1. s - 1 \in Nat BY <1>1
  <2>2. (s - 1) * n \in Nat /\ s * n = (s - 1) * n + n BY <1>1, <2>1
  <2> QED BY <2>2
<1>4. t \in Opened(m) => Grid(s, t) /\ t <= clock BY <1>2 DEF Grid
<1>5. Grid(s, t) /\ t <= clock => t \in Opened(m)
  <2> SUFFICES ASSUME Grid(s, t), t <= clock PROVE t \in Opened(m) OBVIOUS
  <2>1. PICK n \in Nat : t = s * n BY DEF Grid
  <2>2. n \in 0..clock BY <1>3, <2>1 DEF Grid
  <2> QED BY <1>2, <2>1, <2>2 DEF Grid
<1> QED BY <1>4, <1>5 DEF s

LEMMA SomethingOpened ==
  ASSUME clock \in Nat, NEW m \in Markets
  PROVE  0 \in Opened(m) /\ Opened(m) \in SUBSET Nat /\ IsFiniteSet(Opened(m))
<1>1. 0 = Step[m] * 0 BY StepIs
<1>2. Opened(m) \in SUBSET (0..clock) BY DEF Opened
<1>3. IsFiniteSet(0..clock) BY FS_Interval
<1> QED BY <1>1, <1>2, <1>3, FS_Subset DEF Opened

-----------------------------------------------------------------------------
(* Pages: consecutive candles of a grid.                                    *)
Consecutive(s, ks) ==
  /\ ks \in Seq(Int)
  /\ Len(ks) >= 1 => Grid(s, ks[1])
  /\ \A i \in 1..Len(ks) : ks[i] = ks[1] + s * (i - 1)
Page(s, ks) == Consecutive(s, ks) /\ Len(ks) >= 1

(* The exchange answers nothing or a page, from the first candle asked for. *)
LEMMA KlinesArePages ==
  ASSUME clock \in Nat, NEW m \in Markets, NEW from \in Int, NEW to \in Int,
         NEW limit \in Nat \ {0}, Klines(m, from, to, limit) # <<>>
  PROVE  /\ Page(Step[m], Klines(m, from, to, limit))
         /\ Grid(Step[m], from) => Klines(m, from, to, limit)[1] = from
<1> DEFINE s == Step[m]
<1> DEFINE asked == {t \in Opened(m) : from <= t /\ t <= to}
<1> DEFINE n == Min({limit, Cardinality(asked)})
<1> DEFINE ks == [i \in 1..n |-> Min(asked) + s * (i - 1)]
<1>0. s \in Nat \ {0} BY StepIs
<1>1. asked # {} /\ Klines(m, from, to, limit) = ks BY DEF Klines
<1>2. asked \in SUBSET Nat /\ IsFiniteSet(asked)
  <2>1. asked \in SUBSET Opened(m) OBVIOUS
  <2> QED BY <2>1, SomethingOpened, FS_Subset
<1>3. Min(asked) \in asked /\ \A t \in asked : Min(asked) <= t BY <1>1, <1>2, MinIs
<1>4. Grid(s, Min(asked)) /\ Min(asked) \in Nat /\ Min(asked) <= clock
  <2>1. Min(asked) \in Opened(m) BY <1>3
  <2> QED BY <2>1, OpenedIsGrid DEF Grid
<1>5. n \in Nat /\ n >= 1
  <2>1. Cardinality(asked) \in Nat /\ Cardinality(asked) # 0
    BY <1>1, <1>2, FS_CardinalityType, FS_EmptySet
  <2> HIDE DEF asked
  <2>2. n = IF limit <= Cardinality(asked) THEN limit ELSE Cardinality(asked) BY <2>1, MinOfTwo
  <2> QED BY <2>1, <2>2
<1>6. Grid(s, from) => Min(asked) = from
  <2> SUFFICES ASSUME Grid(s, from) PROVE Min(asked) = from OBVIOUS
  <2>1. from <= Min(asked) /\ Min(asked) <= to BY <1>3
  <2>2. from \in Opened(m) BY <1>4, <2>1, OpenedIsGrid DEF Grid
  <2>3. from \in asked BY <1>4, <2>1, <2>2
  <2> HIDE DEF asked
  <2>4. Min(asked) <= from BY <1>3, <2>3
  <2> QED BY <1>4, <2>1, <2>4 DEF Grid
<1> HIDE DEF asked, n, s
<1>7. \A i \in 1..n : Min(asked) + s * (i - 1) \in Int BY <1>0, <1>4, <1>5
<1>8. \A i \in 1..n : ks[i] = Min(asked) + s * (i - 1) OBVIOUS
<1>9. ks \in Seq(Int) /\ Len(ks) = n
  <2>1. ks \in [1..n -> Int] BY <1>7
  <2> HIDE DEF ks
  <2> QED BY <1>5, <2>1, IsASeq, LenProperties
<1>10. ks[1] = Min(asked)
  <2>1. 1 \in 1..n BY <1>5
  <2>2. ks[1] = Min(asked) + s * (1 - 1) BY <1>8, <2>1
  <2> QED BY <1>0, <1>4, <2>2
<1> HIDE DEF ks
<1>11. Page(s, ks) BY <1>4, <1>5, <1>8, <1>9, <1>10 DEF Page, Consecutive
<1> QED BY <1>1, <1>6, <1>10, <1>11 DEF s

(* What remains of a page after its first candle.                           *)
LEMMA TailOfPage ==
  ASSUME NEW s \in Nat \ {0}, NEW ks, Page(s, ks)
  PROVE  /\ Consecutive(s, Tail(ks)) /\ Len(Tail(ks)) = Len(ks) - 1
         /\ Len(Tail(ks)) >= 1 => Tail(ks)[1] = ks[1] + s
<1>1. ks \in Seq(Int) /\ Len(ks) \in Nat /\ Len(ks) >= 1 /\ ks # <<>>
  BY LenProperties DEF Page, Consecutive
<1>2. Grid(s, ks[1]) /\ ks[1] \in Nat BY DEF Page, Consecutive, Grid
<1>3. Tail(ks) \in Seq(Int) /\ Len(Tail(ks)) = Len(ks) - 1 BY <1>1, HeadTailProperties
<1>4. \A i \in 1..Len(Tail(ks)) : Tail(ks)[i] = ks[i + 1] BY <1>1, HeadTailProperties
<1>5. \A i \in 1..Len(ks) : ks[i] = ks[1] + s * (i - 1) BY DEF Page, Consecutive
<1>6. \A i \in 1..Len(Tail(ks)) : Tail(ks)[i] = ks[1] + s * i
  <2> TAKE i \in 1..Len(Tail(ks))
  <2>1. i + 1 \in 1..Len(ks) /\ (i + 1) - 1 = i BY <1>1, <1>3
  <2>2. ks[i + 1] = ks[1] + s * i BY <1>5, <2>1
  <2> QED BY <1>4, <2>2
<1>7. Len(Tail(ks)) >= 1 => Tail(ks)[1] = ks[1] + s
  <2> SUFFICES ASSUME Len(Tail(ks)) >= 1 PROVE Tail(ks)[1] = ks[1] + s OBVIOUS
  <2>1. 1 \in 1..Len(Tail(ks)) BY <1>1, <1>3
  <2>2. Tail(ks)[1] = ks[1] + s * 1 BY <1>6, <2>1
  <2> QED BY <2>2
<1>8. Len(Tail(ks)) >= 1 => Grid(s, Tail(ks)[1])
  <2>1. Grid(s, ks[1] + s * 1) BY <1>2, GridSteps
  <2> QED BY <1>7, <2>1
<1>9. ASSUME NEW i \in 1..Len(Tail(ks)) PROVE Tail(ks)[i] = Tail(ks)[1] + s * (i - 1)
  <2>1. Len(Tail(ks)) >= 1 /\ i \in Nat \ {0} BY <1>1, <1>3
  <2>2. s * i = s + s * (i - 1) BY <2>1
  <2> QED BY <1>2, <1>6, <1>7, <2>1, <2>2
<1> QED BY <1>3, <1>7, <1>8, <1>9 DEF Consecutive

(* The engine's history starts with the first candle, or is of full length. *)
LEMMA HistoryIsPage ==
  ASSUME clock \in Nat, NEW m \in Markets
  PROVE  /\ Page(Step[m], LastKlines(m, HistLen))
         /\ Len(LastKlines(m, HistLen)) = HistLen \/ LastKlines(m, HistLen)[1] = 0
<1> DEFINE s == Step[m]
<1> DEFINE all == Klines(m, 0, clock, clock + 1)
<1> DEFINE from == Max({1, Len(all) - HistLen + 1})
<1> DEFINE hist == LastKlines(m, HistLen)
<1>0. s \in Nat \ {0} /\ HistLen \in Nat \ {0} BY StepIs, CandleFeedAssumption
<1>1. all # <<>>
  <2> DEFINE asked == {t \in Opened(m) : 0 <= t /\ t <= clock}
  <2> DEFINE n == Min({clock + 1, Cardinality(asked)})
  <2>1. 0 \in asked /\ asked \in SUBSET Opened(m) BY SomethingOpened
  <2>2. Cardinality(asked) \in Nat /\ Cardinality(asked) # 0
    BY <2>1, SomethingOpened, FS_Subset, FS_CardinalityType, FS_EmptySet
  <2>3. all = [i \in 1..n |-> Min(asked) + Step[m] * (i - 1)] BY <2>1 DEF Klines
  <2> HIDE DEF asked, all
  <2>4. n \in Nat \ {0} BY <2>2, MinOfTwo
  <2> HIDE DEF n
  <2>5. 1 \in DOMAIN all BY <2>3, <2>4
  <2> QED BY <2>5
<1>2. Grid(s, 0)
  <2>1. 0 = s * 0 BY <1>0
  <2> QED BY <2>1 DEF Grid
<1>3. Page(s, all) /\ all[1] = 0 BY <1>1, <1>2, KlinesArePages
<1> HIDE DEF all, s
<1>4. all \in Seq(Int) /\ Len(all) \in Nat /\ Len(all) >= 1
  BY <1>3, LenProperties DEF Page, Consecutive
<1>5. from = IF 1 >= Len(all) - HistLen + 1 THEN 1 ELSE Len(all) - HistLen + 1
  BY <1>0, <1>4, MaxOfTwo
<1>6. from \in 1..Len(all) BY <1>0, <1>4, <1>5
<1>7. hist = SubSeq(all, from, Len(all)) BY DEF LastKlines, all
<1> HIDE DEF from, hist
<1>7a. \A i \in from..Len(all) : all[i] \in Int BY <1>4, <1>6, ElementOfSeq
<1>8. hist \in Seq(Int) /\ Len(hist) = Len(all) - from + 1
  BY <1>4, <1>6, <1>7, <1>7a, SubSeqProperties
<1>9. \A i \in 1..Len(hist) : hist[i] = all[from + i - 1]
  BY <1>4, <1>6, <1>7, <1>7a, <1>8, SubSeqProperties
<1>10. \A i \in 1..Len(hist) : hist[i] = s * (from + i - 2)
  <2> TAKE i \in 1..Len(hist)
  <2>1. from + i - 1 \in 1..Len(all) BY <1>4, <1>6, <1>8
  <2>2. all[from + i - 1] = 0 + s * ((from + i - 1) - 1)
    BY <1>3, <2>1 DEF Page, Consecutive
  <2>3. (from + i - 1) - 1 = from + i - 2 /\ s * (from + i - 2) \in Int BY <1>0, <1>6, <1>8, <1>4
  <2> QED BY <1>9, <2>2, <2>3
<1>11. Len(hist) >= 1 /\ hist[1] = s * (from - 1) /\ Grid(s, hist[1])
  <2>1. 1 \in 1..Len(hist) BY <1>4, <1>6, <1>8
  <2>2. hist[1] = s * (from + 1 - 2) BY <1>10, <2>1
  <2>3. from - 1 \in Nat /\ from + 1 - 2 = from - 1 BY <1>6, <1>4
  <2>4. s * (from - 1) \in Nat BY <1>0, <2>3
  <2> QED BY <2>1, <2>2, <2>3, <2>4 DEF Grid
<1>12. ASSUME NEW i \in 1..Len(hist) PROVE hist[i] = hist[1] + s * (i - 1)
  <2>1. s * (from + i - 2) = s * (from - 1) + s * (i - 1) BY <1>0, <1>4, <1>6, <1>8
  <2> QED BY <1>10, <1>11, <2>1
<1>13. Page(s, hist) BY <1>8, <1>11, <1>12 DEF Page, Consecutive
<1>14. Len(hist) = HistLen \/ hist[1] = 0
  <2>1. CASE from = 1
    <3>1. s * (from - 1) = 0 BY <1>0, <2>1
    <3> QED BY <1>11, <3>1
  <2>2. CASE from # 1 BY <1>0, <1>4, <1>5, <1>8, <2>2
  <2> QED BY <2>1, <2>2
<1> QED BY <1>13, <1>14 DEF hist, s

-----------------------------------------------------------------------------
(* The invariant of paging: what a reader writes next lies on the grid of   *)
(* its market, and follows a candle that was written unless it is its first. *)
States == {"idle", "fetch", "upsert"}
Readers == [pc : States, first : BOOLEAN, cursor : Int, end : Int, got : Seq(Int)]
Engines == [pc : {"off", "hist", "live", "deaf"}, hist : Seq(Int), buffer : Seq(Int)]
Updates == [ts : Int, closed : BOOLEAN]

Follows(m, t) == <<m, t - Step[m]>> \in wrote
Resumes(g, m) ==
  /\ g.pc = "fetch" /\ ~g.first => Grid(Step[m], g.cursor) /\ Follows(m, g.cursor)
  /\ g.pc = "upsert" => Page(Step[m], g.got) /\ (~g.first => Follows(m, g.got[1]))

FeedTypeOK ==
  /\ clock \in Nat
  /\ ingest \in [Calls -> Readers] /\ fill \in Readers
  /\ engine \in Engines
  /\ flying \in SUBSET Updates

TableOnGrid ==
  /\ wrote \subseteq Markets \X Nat
  /\ \A w \in wrote : Grid(Step[w[1]], w[2])
  /\ DOMAIN candles \subseteq Int
  /\ \E b \in Int : \A t \in DOMAIN candles : t <= b

EngineGrid(t) == Grid(Step[EngineMarket], t)

HistResumes ==
  /\ Consecutive(Step[EngineMarket], engine.hist)
  /\ Len(engine.hist) >= 1 =>
       \/ Len(engine.hist) = HistLen \/ engine.hist[1] = 0
       \/ Follows(EngineMarket, engine.hist[1])

Resuming ==
  /\ \A c \in Calls : Resumes(ingest[c], IngestMarket)
  /\ Resumes(fill, FillMarket)
  /\ HistResumes
  /\ \A k \in flying : EngineGrid(k.ts)

PagingInv == FeedTypeOK /\ TableOnGrid /\ Resuming /\ HolesOnlyAtEdges

(* Pages are bounded, and start with their first candle.                    *)
LEMMA InPage ==
  ASSUME NEW s \in Nat \ {0}, NEW ks, Page(s, ks)
  PROVE  /\ 1 \in DOMAIN ks /\ Len(ks) \in DOMAIN ks /\ Last(ks) = ks[Len(ks)]
         /\ DOMAIN ks = 1..Len(ks) /\ Len(ks) \in Nat
         /\ \A i \in DOMAIN ks : ks[i] \in Int /\ Grid(s, ks[i])
         /\ \A i \in DOMAIN ks : ks[i] <= ks[1] + s * Len(ks)
         /\ \A i \in DOMAIN ks : i # 1 => i - 1 \in DOMAIN ks /\ ks[i] - s = ks[i - 1]
<1>1. ks \in Seq(Int) /\ Len(ks) \in Nat /\ Len(ks) >= 1 /\ DOMAIN ks = 1..Len(ks)
  BY LenProperties DEF Page, Consecutive
<1>2. Grid(s, ks[1]) /\ ks[1] \in Nat BY DEF Page, Consecutive, Grid
<1>3. \A i \in 1..Len(ks) : ks[i] = ks[1] + s * (i - 1) BY DEF Page, Consecutive
<1>4. \A i \in 1..Len(ks) : ks[i] \in Int BY <1>1, ElementOfSeq
<1>5. \A i \in 1..Len(ks) : Grid(s, ks[i])
  <2> TAKE i \in 1..Len(ks)
  <2>1. i - 1 \in Nat BY <1>1
  <2>2. Grid(s, ks[1] + s * (i - 1)) BY <1>2, <2>1, GridSteps
  <2> QED BY <1>3, <2>2
<1>6. \A i \in 1..Len(ks) : ks[i] <= ks[1] + s * Len(ks)
  <2> TAKE i \in 1..Len(ks)
  <2>1. Len(ks) - (i - 1) \in Nat BY <1>1
  <2>2. s * (Len(ks) - (i - 1)) \in Nat BY <2>1
  <2>3. s * Len(ks) = s * (i - 1) + s * (Len(ks) - (i - 1)) BY <1>1
  <2>4. s * (i - 1) \in Int /\ s * Len(ks) \in Int BY <1>1
  <2>5. s * (i - 1) <= s * Len(ks) BY <2>2, <2>3, <2>4
  <2> QED BY <1>2, <1>3, <2>4, <2>5
<1>7. \A i \in 1..Len(ks) : i # 1 => i - 1 \in 1..Len(ks) /\ ks[i] - s = ks[i - 1]
  <2> SUFFICES ASSUME NEW i \in 1..Len(ks), i # 1
               PROVE  i - 1 \in 1..Len(ks) /\ ks[i] - s = ks[i - 1]
    OBVIOUS
  <2>1. i - 1 \in 1..Len(ks) BY <1>1
  <2>2. ks[i - 1] = ks[1] + s * ((i - 1) - 1) BY <1>3, <2>1
  <2>3. s * ((i - 1) - 1) = s * (i - 1) - s BY <1>1
  <2>4. s * (i - 1) \in Int BY <1>1
  <2> QED BY <1>2, <1>3, <2>1, <2>2, <2>3, <2>4
<1>8. Last(ks) = ks[Len(ks)] BY DEF Last
<1> QED BY <1>1, <1>4, <1>5, <1>6, <1>7, <1>8

(* Writing a page leaves holes where it was begun only, and loses nothing.  *)
LEMMA PageWritten ==
  ASSUME TableOnGrid, HolesOnlyAtEdges, NEW m \in Markets, NEW ks, Page(Step[m], ks),
         Upsert(m, ks), edges \subseteq edges', <<m, ks[1]>> \in edges' \/ Follows(m, ks[1])
  PROVE  /\ TableOnGrid' /\ HolesOnlyAtEdges'
         /\ DOMAIN candles \subseteq DOMAIN candles' /\ wrote \subseteq wrote'
         /\ \A i \in DOMAIN ks : ks[i] \in DOMAIN candles' /\ <<m, ks[i]>> \in wrote'
<1> DEFINE s == Step[m]
<1>0. s \in Nat \ {0} BY StepIs
<1>1. DOMAIN candles' = DOMAIN candles \cup Range(ks) /\ wrote' = wrote \cup ({m} \X Range(ks))
  BY DEF Upsert
<1>2. Range(ks) = {ks[i] : i \in DOMAIN ks} BY DEF Range
<1>3. \A t \in DOMAIN candles' : t \in DOMAIN candles \/ \E i \in DOMAIN ks : t = ks[i]
  BY <1>1, <1>2
<1>4. \A i \in DOMAIN ks : ks[i] \in DOMAIN candles' /\ <<m, ks[i]>> \in wrote' BY <1>1, <1>2
<1>5. DOMAIN candles \subseteq DOMAIN candles' /\ wrote \subseteq wrote' BY <1>1
<1>6. \A w \in wrote' : w \in wrote \/ \E i \in DOMAIN ks : w = <<m, ks[i]>> BY <1>1, <1>2
<1>7. \A i \in DOMAIN ks : ks[i] \in Nat /\ Grid(s, ks[i]) BY <1>0, InPage DEF Grid
<1>8. TableOnGrid'
  <2>1. \A w \in wrote' : w \in Markets \X Nat /\ Grid(Step[w[1]], w[2])
    <3> SUFFICES ASSUME NEW w \in wrote' PROVE w \in Markets \X Nat /\ Grid(Step[w[1]], w[2])
      OBVIOUS
    <3>1. CASE w \in wrote BY <3>1 DEF TableOnGrid
    <3>2. CASE \E i \in DOMAIN ks : w = <<m, ks[i]>> BY <1>7, <3>2
    <3> QED BY <1>6, <3>1, <3>2
  <2>2. \E b \in Int : \A t \in DOMAIN candles' : t <= b
    <3>1. PICK b \in Int : \A t \in DOMAIN candles : t <= b BY DEF TableOnGrid
    <3> DEFINE c == ks[1] + s * Len(ks)
    <3>2. c \in Int BY <1>0, <1>7, InPage
    <3>3. \A i \in DOMAIN ks : ks[i] <= c BY <1>0, InPage
    <3>4. \A t \in DOMAIN candles' : t \in Int BY <1>3, <1>7 DEF TableOnGrid
    <3> HIDE DEF c
    <3>5. CASE b <= c
      <4>1. \A t \in DOMAIN candles' : t <= c BY <1>3, <3>1, <3>2, <3>3, <3>4, <3>5
      <4> QED BY <3>2, <4>1
    <3>6. CASE c <= b
      <4>1. \A t \in DOMAIN candles' : t <= b BY <1>3, <3>1, <3>2, <3>3, <3>4, <3>6
      <4> QED BY <3>1, <4>1
    <3> QED BY <3>1, <3>2, <3>5, <3>6
  <2>3. DOMAIN candles' \subseteq Int BY <1>3, <1>7 DEF TableOnGrid
  <2> QED BY <2>1, <2>2, <2>3 DEF TableOnGrid, Grid
<1>9. HolesOnlyAtEdges'
  <2> SUFFICES ASSUME NEW w \in wrote'
               PROVE  <<w[1], w[2] - Step[w[1]]>> \in wrote' \/ w \in edges'
    BY DEF HolesOnlyAtEdges
  <2>1. CASE w \in wrote BY <1>5, <2>1 DEF HolesOnlyAtEdges
  <2>2. ASSUME NEW i \in DOMAIN ks, w = <<m, ks[i]>>
        PROVE  <<w[1], w[2] - Step[w[1]]>> \in wrote' \/ w \in edges'
    <3>1. CASE i = 1 BY <1>5, <2>2, <3>1 DEF Follows
    <3>2. CASE i # 1
      <4>1. i - 1 \in DOMAIN ks /\ ks[i] - s = ks[i - 1] BY <1>0, <3>2, InPage
      <4> QED BY <1>4, <2>2, <4>1
    <3> QED BY <3>1, <3>2
  <2> QED BY <1>6, <2>1, <2>2
<1> QED BY <1>4, <1>5, <1>8, <1>9

(* Nothing that was going on loses its place when the table grows.          *)
LEMMA PlacesStay ==
  ASSUME wrote \subseteq wrote'
  PROVE  /\ \A g, m : Resumes(g, m) => (Resumes(g, m))'
         /\ HistResumes /\ UNCHANGED engine.hist => HistResumes'
<1>1. \A m, t : Follows(m, t) => Follows(m, t)' BY DEF Follows
<1>2. \A g, m : Page(Step[m], g.got)' = Page(Step[m], g.got) /\ \A t : Grid(Step[m], t)' = Grid(Step[m], t)
  BY DEF Page, Consecutive, Grid
<1> QED BY <1>1, <1>2 DEF Resumes, HistResumes, Consecutive, Grid, Page, Follows

(* A reader, of ingest or of the backfill, fetches a page and writes it.    *)
LEMMA ReaderFetches ==
  ASSUME clock \in Nat, NEW m \in Markets, NEW g \in Readers, Resumes(g, m), g.pc = "fetch",
         NEW to \in Int, Klines(m, g.cursor, to, Limit) # <<>>
  PROVE  Fetched(g, Klines(m, g.cursor, to, Limit)) \in Readers
         /\ Resumes(Fetched(g, Klines(m, g.cursor, to, Limit)), m)
<1> DEFINE ks == Klines(m, g.cursor, to, Limit)
<1>1. g.cursor \in Int /\ Limit \in Nat \ {0} BY CandleFeedAssumption DEF Readers
<1>2. Page(Step[m], ks) /\ (Grid(Step[m], g.cursor) => ks[1] = g.cursor) BY <1>1, KlinesArePages
<1> HIDE DEF ks
<1>3. ks \in Seq(Int) BY <1>2 DEF Page, Consecutive
<1>4. Fetched(g, ks) \in Readers BY <1>3 DEF Fetched, Readers, States
<1>5. Fetched(g, ks).pc = "upsert" /\ Fetched(g, ks).got = ks /\ Fetched(g, ks).first = g.first
  BY DEF Fetched, Readers
<1>6. ~g.first => Follows(m, ks[1]) BY <1>2 DEF Resumes
<1> QED BY <1>2, <1>4, <1>5, <1>6 DEF Resumes, ks

LEMMA ReaderWrites ==
  ASSUME TableOnGrid, HolesOnlyAtEdges, NEW m \in Markets, NEW g \in Readers, Resumes(g, m),
         g.pc = "upsert", Upsert(m, g.got), Began(g, m)
  PROVE  /\ TableOnGrid' /\ HolesOnlyAtEdges' /\ DOMAIN candles \subseteq DOMAIN candles'
         /\ wrote \subseteq wrote'
         /\ Written(g, m) \in Readers /\ (Resumes(Written(g, m), m))'
<1> DEFINE s == Step[m]
<1> DEFINE ks == g.got
<1>0. s \in Nat \ {0} BY StepIs
<1>1. Page(s, ks) /\ (~g.first => Follows(m, ks[1])) BY DEF Resumes
<1>2. edges \subseteq edges' /\ (<<m, ks[1]>> \in edges' \/ Follows(m, ks[1])) BY <1>1 DEF Began
<1>3. TableOnGrid' /\ HolesOnlyAtEdges' /\ DOMAIN candles \subseteq DOMAIN candles'
      /\ wrote \subseteq wrote' /\ \A i \in DOMAIN ks : <<m, ks[i]>> \in wrote'
  BY <1>1, <1>2, PageWritten
<1>4. <<m, Last(ks)>> \in wrote' /\ Grid(s, Last(ks)) BY <1>0, <1>1, <1>3, InPage
<1>5. Grid(s, Last(ks) + s) /\ Last(ks) \in Nat
  <2>1. Grid(s, Last(ks) + s * 1) BY <1>0, <1>4, GridSteps
  <2>2. s * 1 = s BY <1>0
  <2> QED BY <1>4, <2>1, <2>2 DEF Grid
<1>6. NextPage(m, ks) = Last(ks) + s /\ NextPage(m, ks) \in Int /\ NextPage(m, ks) - s = Last(ks)
  BY <1>0, <1>5 DEF NextPage
<1>7. Written(g, m) \in Readers
  <2>1. <<>> \in Seq(Int) BY EmptySeq
  <2> HIDE DEF ks
  <2> QED BY <1>6, <2>1 DEF Written, Readers, States, ks
<1>8. Written(g, m).pc = "fetch" /\ Written(g, m).cursor = Last(ks) + s
  BY <1>6 DEF Written, Readers
<1>9. (Resumes(Written(g, m), m))'
  <2>1. Follows(m, Last(ks) + s)' BY <1>4, <1>6 DEF Follows
  <2>2. Grid(s, Last(ks) + s)' BY <1>5 DEF Grid
  <2> QED BY <1>8, <2>1, <2>2 DEF Resumes
<1> QED BY <1>3, <1>7, <1>9

(* The first page of ingest follows the newest candle of the table if that  *)
(* is one of its market.                                                    *)
LEMMA AfterNewest ==
  ASSUME TableOnGrid, DOMAIN candles # {}, NEW m \in Markets
  PROVE  /\ Max(DOMAIN candles) \in DOMAIN candles /\ Max(DOMAIN candles) \in Int
         /\ <<m, Max(DOMAIN candles)>> \in wrote =>
              /\ Grid(Step[m], Max(DOMAIN candles) + Step[m])
              /\ Follows(m, Max(DOMAIN candles) + Step[m])
<1> DEFINE s == Step[m]
<1> DEFINE t == Max(DOMAIN candles)
<1>0. s \in Nat \ {0} BY StepIs
<1>1. PICK b \in Int : \A u \in DOMAIN candles : u <= b BY DEF TableOnGrid
<1>2. DOMAIN candles \in SUBSET Int BY DEF TableOnGrid
<1>3. t \in DOMAIN candles /\ t \in Int BY <1>1, <1>2, MaxIs
<1> HIDE DEF t
<1>4. ASSUME <<m, t>> \in wrote PROVE Grid(s, t + s) /\ Follows(m, t + s)
  <2>1. Grid(s, t) BY <1>4 DEF TableOnGrid
  <2>2. Grid(s, t + s * 1) BY <1>0, <2>1, GridSteps
  <2>3. s * 1 = s /\ (t + s) - s = t BY <1>0, <1>3
  <2> QED BY <1>4, <2>2, <2>3 DEF Follows
<1> QED BY <1>3, <1>4 DEF t

-----------------------------------------------------------------------------
LEMMA PagingStart == InitFeed => PagingInv
<1> SUFFICES ASSUME InitFeed PROVE PagingInv OBVIOUS
<1> USE DEF InitFeed
<1>1. <<>> \in Seq(Int) /\ Len(<<>>) = 0 BY EmptySeq
<1>2. Idle \in Readers BY <1>1 DEF Idle, Readers, States
<1>3. FeedTypeOK BY <1>1, <1>2 DEF FeedTypeOK, Engines
<1>4. DOMAIN candles = {} OBVIOUS
<1>5. TableOnGrid /\ HolesOnlyAtEdges
  <2>1. 0 \in Int /\ \A t \in DOMAIN candles : t <= 0 BY <1>4
  <2>2. \E b \in Int : \A t \in DOMAIN candles : t <= b BY <2>1
  <2>3. wrote = {} /\ DOMAIN candles \subseteq Int BY <1>4
  <2> QED BY <2>2, <2>3 DEF TableOnGrid, HolesOnlyAtEdges
<1>6. Resuming BY <1>1 DEF Resuming, Resumes, HistResumes, Consecutive, Idle
<1> QED BY <1>3, <1>5, <1>6 DEF PagingInv

(* The table and its history as they were.                                  *)
LEMMA TableStays ==
  ASSUME TableOnGrid, HolesOnlyAtEdges, UNCHANGED candleTable
  PROVE  TableOnGrid' /\ HolesOnlyAtEdges'
BY DEF TableOnGrid, HolesOnlyAtEdges, Grid, candleTable

(* Ingest.                                                                  *)
LEMMA IngestSteps ==
  ASSUME PagingInv, NEW c \in Calls,
         SelectLastTs(c) \/ FetchKlines(c) \/ UpsertCandles(c) \/ IngestEnds(c)
  PROVE  PagingInv'
<1> DEFINE m == IngestMarket
<1>0. Step[m] \in Nat \ {0} /\ Past \in Nat /\ m \in Markets
  BY StepIs, EveryMarket, CandleFeedAssumption
<1>1. FeedTypeOK /\ TableOnGrid /\ Resuming /\ HolesOnlyAtEdges BY DEF PagingInv
<1>2. ingest \in [Calls -> Readers] /\ fill \in Readers /\ clock \in Nat
      /\ ingest[c] \in Readers /\ Resumes(ingest[c], m)
  BY <1>1 DEF FeedTypeOK, Resuming
<1>3. <<>> \in Seq(Int) BY EmptySeq
<1>4. Idle \in Readers /\ Resumes(Idle, m) BY <1>3 DEF Idle, Readers, States, Resumes
(* What all of them leave alone.                                            *)
<1>5. ASSUME NEW g \in Readers, ingest' = [ingest EXCEPT ![c] = g], (Resumes(g, m))',
             TableOnGrid', HolesOnlyAtEdges', wrote \subseteq wrote',
             UNCHANGED <<clock, engine, fill, flying>>
      PROVE  PagingInv'
  <2>1. FeedTypeOK' BY <1>1, <1>2, <1>5 DEF FeedTypeOK
  <2>2. Resuming'
    <3>1. \A h, n : Resumes(h, n) => (Resumes(h, n))' BY <1>5, PlacesStay
    <3>2. HistResumes' BY <1>1, <1>5, PlacesStay DEF Resuming
    <3>3. ASSUME NEW d \in Calls PROVE (Resumes(ingest[d], IngestMarket))'
      <4>1. CASE d = c
        <5>1. ingest'[d] = g BY <1>2, <1>5, <4>1
        <5> QED BY <1>5, <5>1 DEF Resumes
      <4>2. CASE d # c
        <5>1. ingest'[d] = ingest[d] BY <1>2, <1>5, <4>2
        <5>2. Resumes(ingest[d], IngestMarket) BY <1>1 DEF Resuming
        <5>3. PICK h : h = ingest[d] OBVIOUS
        <5>4. (Resumes(h, IngestMarket))' BY <3>1, <5>2, <5>3
        <5> QED BY <5>1, <5>3, <5>4 DEF Resumes
      <4> QED BY <4>1, <4>2
    <3>4. (Resumes(fill, FillMarket))'
      <4>1. PICK h : h = fill OBVIOUS
      <4>2. (Resumes(h, FillMarket))' BY <1>1, <3>1, <4>1 DEF Resuming
      <4> QED BY <1>5, <4>1, <4>2 DEF Resumes
    <3>5. (\A k \in flying : EngineGrid(k.ts))' BY <1>1, <1>5 DEF Resuming, Grid, EngineGrid
    <3> QED BY <3>2, <3>3, <3>4, <3>5 DEF Resuming
  <2> QED BY <1>5, <2>1, <2>2 DEF PagingInv
<1>6. UNCHANGED candleTable => \A g : Resumes(g, m) => (Resumes(g, m))' BY PlacesStay DEF candleTable
<1>7. UNCHANGED candleTable => TableOnGrid' /\ HolesOnlyAtEdges' BY <1>1, TableStays
<1>7a. UNCHANGED candleTable => wrote \subseteq wrote' BY DEF candleTable
<1>8. CASE SelectLastTs(c)
  <2> DEFINE top == Max(DOMAIN candles)
  <2> DEFINE g == [pc |-> "fetch", end |-> clock - Step[m], got |-> <<>>,
                   first |-> DOMAIN candles = {} \/ <<m, top>> \notin wrote,
                   cursor |-> IF DOMAIN candles = {} THEN clock - Past ELSE top + Step[m]]
  <2>1. g.cursor \in Int
    <3>1. clock - Past \in Int BY <1>0, <1>2
    <3>2. ASSUME DOMAIN candles # {} PROVE top + Step[m] \in Int
      <4>1. top \in Int BY <1>0, <1>1, <3>2, AfterNewest
      <4> HIDE DEF top
      <4> QED BY <1>0, <4>1
    <3> QED BY <3>1, <3>2
  <2>2. g \in Readers
    <3>1. g.first \in BOOLEAN /\ g.end \in Int BY <1>0, <1>2
    <3> QED BY <1>3, <2>1, <3>1 DEF Readers, States
  <2>3. Resumes(g, m)
    <3>1. ~g.first => Grid(Step[m], g.cursor) /\ Follows(m, g.cursor)
      BY <1>0, <1>1, AfterNewest
    <3> QED BY <3>1 DEF Resumes
  <2>4. ingest' = [ingest EXCEPT ![c] = g] /\ UNCHANGED <<clock, engine, fill, flying>>
        /\ UNCHANGED candleTable
    BY <1>8 DEF SelectLastTs, others
  <2> HIDE DEF g
  <2> QED BY <1>5, <1>6, <1>7, <1>7a, <2>2, <2>3, <2>4
<1>9. CASE FetchKlines(c)
  <2> DEFINE ks == Klines(m, ingest[c].cursor, clock, Limit)
  <2>1. ingest' = [ingest EXCEPT ![c] = IF ks = <<>> THEN Idle ELSE Fetched(ingest[c], ks)]
        /\ UNCHANGED <<clock, engine, fill, flying>> /\ UNCHANGED candleTable /\ ingest[c].pc = "fetch"
    BY <1>9 DEF FetchKlines, others
  <2>2. ks # <<>> => Fetched(ingest[c], ks) \in Readers /\ Resumes(Fetched(ingest[c], ks), m)
    BY <1>0, <1>2, <2>1, ReaderFetches
  <2> HIDE DEF ks
  <2>3. CASE ks = <<>> BY <1>4, <1>5, <1>6, <1>7, <1>7a, <2>1, <2>3
  <2>4. CASE ks # <<>> BY <1>5, <1>6, <1>7, <1>7a, <2>1, <2>2, <2>4
  <2> QED BY <2>3, <2>4
<1>10. CASE UpsertCandles(c)
  <2>1. ingest[c].pc = "upsert" /\ Upsert(m, ingest[c].got) /\ Began(ingest[c], m)
        /\ ingest' = [ingest EXCEPT ![c] = Written(ingest[c], m)]
        /\ UNCHANGED <<clock, engine, fill, flying>>
    BY <1>10 DEF UpsertCandles, others
  <2>2. PICK g \in Readers : g = ingest[c] BY <1>2
  <2>3. /\ TableOnGrid' /\ HolesOnlyAtEdges' /\ wrote \subseteq wrote'
        /\ Written(g, m) \in Readers /\ (Resumes(Written(g, m), m))'
    BY <1>0, <1>1, <1>2, <2>1, <2>2, ReaderWrites
  <2>4. PICK w \in Readers : w = Written(g, m) BY <2>3
  <2>5. (Resumes(w, m))' BY <2>3, <2>4 DEF Resumes, Written, NextPage
  <2> QED BY <1>5, <2>1, <2>2, <2>3, <2>4, <2>5
<1>11. CASE IngestEnds(c)
  <2>1. ingest' = [ingest EXCEPT ![c] = Idle]
        /\ UNCHANGED <<clock, engine, fill, flying>> /\ UNCHANGED candleTable
    BY <1>11 DEF IngestEnds, others
  <2> QED BY <1>4, <1>5, <1>6, <1>7, <1>7a, <2>1
<1> QED BY <1>8, <1>9, <1>10, <1>11

(* What keeps the readers' places: no ingest, and the table only grows.     *)
LEMMA ReadersStay ==
  ASSUME Resuming, UNCHANGED ingest, wrote \subseteq wrote'
  PROVE  /\ \A c \in Calls : (Resumes(ingest[c], IngestMarket))'
         /\ UNCHANGED fill => (Resumes(fill, FillMarket))'
         /\ UNCHANGED engine.hist => HistResumes'
<1>1. \A h, m : Resumes(h, m) => (Resumes(h, m))' BY PlacesStay
<1>2. UNCHANGED engine.hist => HistResumes' BY PlacesStay DEF Resuming
<1>3. ASSUME NEW c \in Calls PROVE (Resumes(ingest[c], IngestMarket))'
  <2>1. PICK h : h = ingest[c] OBVIOUS
  <2>2. (Resumes(h, IngestMarket))' BY <1>1, <2>1 DEF Resuming
  <2> QED BY <2>1, <2>2 DEF Resumes
<1>4. UNCHANGED fill => (Resumes(fill, FillMarket))'
  <2>1. PICK h : h = fill OBVIOUS
  <2>2. (Resumes(h, FillMarket))' BY <1>1, <2>1 DEF Resuming
  <2> QED BY <2>1, <2>2 DEF Resumes
<1> QED BY <1>2, <1>3, <1>4

(* The live engine.                                                         *)
LEMMA EngineSteps ==
  ASSUME PagingInv, StartEngine \/ StoreHist \/ OpenStream \/ StreamCloses \/ EngineDies
  PROVE  PagingInv'
<1> DEFINE m == EngineMarket
<1> DEFINE s == Step[m]
<1>0. s \in Nat \ {0} /\ m \in Markets BY StepIs, EveryMarket
<1>1. FeedTypeOK /\ TableOnGrid /\ Resuming /\ HolesOnlyAtEdges BY DEF PagingInv
<1>2. UNCHANGED <<clock, ingest, fill>> /\ flying' \subseteq flying
  BY DEF StartEngine, StoreHist, OpenStream, StreamCloses, EngineDies, others
<1>3. <<>> \in Seq(Int) /\ Len(<<>>) = 0 BY EmptySeq
(* What is left to show of each.                                            *)
<1>4. ASSUME engine' \in Engines, HistResumes', TableOnGrid', HolesOnlyAtEdges',
             wrote \subseteq wrote'
      PROVE  PagingInv'
  <2>1. FeedTypeOK' BY <1>1, <1>2, <1>4 DEF FeedTypeOK
  <2>2. (\A c \in Calls : Resumes(ingest[c], IngestMarket))' /\ (Resumes(fill, FillMarket))'
    BY <1>1, <1>2, <1>4, ReadersStay
  <2>3. (\A k \in flying : EngineGrid(k.ts))' BY <1>1, <1>2 DEF Resuming, Grid, EngineGrid
  <2> QED BY <1>4, <2>1, <2>2, <2>3 DEF PagingInv, Resuming
<1>4a. UNCHANGED candleTable => TableOnGrid' /\ HolesOnlyAtEdges' /\ wrote \subseteq wrote'
  BY <1>1, TableStays DEF candleTable
<1>5. CASE StartEngine
  <2> DEFINE ks == LastKlines(m, HistLen)
  <2> DEFINE n == Min({BufferLen, Len(ks)})
  <2> DEFINE buffer == [i \in 1..n |-> ks[Len(ks) - n + i]]
  <2>1. Page(s, ks) /\ (Len(ks) = HistLen \/ ks[1] = 0)
    BY <1>0, <1>1, HistoryIsPage DEF FeedTypeOK
  <2>2. engine' = [pc |-> "hist", hist |-> ks, buffer |-> buffer] /\ UNCHANGED candleTable
    BY <1>5 DEF StartEngine
  <2> HIDE DEF ks
  <2>3. Len(ks) \in Nat /\ BufferLen \in Nat BY <1>0, <2>1, InPage, CandleFeedAssumption
  <2>4. n = (IF BufferLen <= Len(ks) THEN BufferLen ELSE Len(ks)) BY <2>3, MinOfTwo
  <2>5. \A i \in 1..n : Len(ks) - n + i \in 1..Len(ks) BY <2>3, <2>4
  <2>6. \A i \in 1..Len(ks) : ks[i] \in Int BY <1>0, <2>1, InPage
  <2>7. n \in Nat BY <2>3, <2>4
  <2> HIDE DEF n
  <2>8. buffer \in Seq(Int)
    <3>1. buffer \in [1..n -> Int] BY <2>5, <2>6
    <3> HIDE DEF buffer
    <3> QED BY <2>7, <3>1, IsASeq
  <2> HIDE DEF buffer
  <2>9. ks \in Seq(Int) /\ Consecutive(s, ks) BY <2>1 DEF Page, Consecutive
  <2>10. HistResumes'
    <3>1. engine'.hist = ks BY <2>2
    <3> QED BY <2>1, <2>9, <3>1 DEF HistResumes, Consecutive, Grid
  <2>11. engine' \in Engines BY <2>2, <2>8, <2>9 DEF Engines
  <2> QED BY <1>4, <1>4a, <2>2, <2>10, <2>11
<1>6. CASE StoreHist
  <2> DEFINE ks == engine.hist
  <2> DEFINE one == <<Head(ks)>>
  <2>1. ks # <<>> /\ Upsert(m, one)
        /\ edges' = (IF Len(ks) = HistLen \/ Head(ks) = 0
               THEN edges \cup {<<m, Head(ks)>>} ELSE edges)
        /\ engine' = [engine EXCEPT !.hist = Tail(ks)]
    BY <1>6 DEF StoreHist
  <2>2. ks \in Seq(Int) /\ Consecutive(s, ks)
    BY <1>1 DEF FeedTypeOK, Engines, Resuming, HistResumes
  <2>3. Len(ks) \in Nat /\ Len(ks) >= 1 /\ Head(ks) = ks[1] BY <2>1, <2>2, LenProperties, EmptySeq
  <2>4. Page(s, ks) BY <2>2, <2>3 DEF Page
  <2>5. Len(ks) = HistLen \/ ks[1] = 0 \/ Follows(m, ks[1])
    BY <1>1, <2>3 DEF Resuming, HistResumes
  <2>6. Consecutive(s, Tail(ks)) /\ Len(Tail(ks)) = Len(ks) - 1
        /\ (Len(Tail(ks)) >= 1 => Tail(ks)[1] = ks[1] + s)
    BY <1>0, <2>4, TailOfPage
  <2> HIDE DEF ks, s
  <2>7. Page(s, one) /\ one[1] = ks[1] /\ 1 \in DOMAIN one
    <3>1. ks[1] \in Int /\ Grid(s, ks[1]) BY <1>0, <2>4, InPage
    <3>2. one \in Seq(Int) /\ Len(one) = 1 /\ one[1] = ks[1] BY <2>3, <3>1
    <3>3. ks[1] = ks[1] + s * (1 - 1) BY <1>0, <3>1
    <3> HIDE DEF one
    <3> QED BY <3>1, <3>2, <3>3, LenProperties DEF Page, Consecutive
  <2>8. edges \subseteq edges' /\ (<<m, one[1]>> \in edges' \/ Follows(m, one[1]))
    BY <2>1, <2>3, <2>5, <2>7
  <2> HIDE DEF one
  <2>9. /\ TableOnGrid' /\ HolesOnlyAtEdges' /\ wrote \subseteq wrote'
        /\ <<m, ks[1]>> \in wrote'
    BY <1>0, <1>1, <2>1, <2>7, <2>8, PageWritten DEF s
  <2>10. engine'.hist = Tail(ks) BY <1>1, <2>1 DEF FeedTypeOK, Engines
  <2>11. ks[1] \in Nat BY <1>0, <2>4, InPage DEF Grid
  <2>12. HistResumes'
    <3>1. Len(engine'.hist) >= 1 => (engine'.hist)[1] - s = ks[1] BY <1>0, <2>6, <2>10, <2>11
    <3>2. Len(engine'.hist) >= 1 => <<m, engine'.hist[1] - s>> \in wrote'
      BY <2>9, <3>1
    <3> QED BY <2>6, <2>10, <3>2 DEF HistResumes, Follows, Consecutive, Grid, s
  <2>13. engine' \in Engines
    <3>1. Tail(ks) \in Seq(Int) BY <2>6 DEF Consecutive
    <3> QED BY <1>1, <2>1, <3>1 DEF FeedTypeOK, Engines
  <2> QED BY <1>4, <2>9, <2>12, <2>13
<1>7. CASE OpenStream \/ StreamCloses
  <2>1. engine' \in Engines /\ engine'.hist = engine.hist /\ UNCHANGED candleTable
    BY <1>1, <1>7 DEF OpenStream, StreamCloses, FeedTypeOK, Engines
  <2>2. HistResumes' BY <1>1, <1>2, <1>4a, <2>1, ReadersStay
  <2> QED BY <1>4, <1>4a, <2>1, <2>2
<1>8. CASE EngineDies
  <2>1. engine' = [pc |-> "off", hist |-> <<>>, buffer |-> <<>>] /\ UNCHANGED candleTable
    BY <1>8 DEF EngineDies
  <2>2. engine'.hist = <<>> /\ engine' \in Engines BY <1>3, <2>1 DEF Engines
  <2>3. HistResumes' BY <1>3, <2>2 DEF HistResumes, Consecutive
  <2> QED BY <1>4, <1>4a, <2>1, <2>2, <2>3
<1> QED BY <1>5, <1>6, <1>7, <1>8

(* The stream: what it sends opened, and its first candle is an edge.       *)
LEMMA TickStep ==
  ASSUME PagingInv, Tick
  PROVE  PagingInv'
<1> DEFINE t == Max(Opened(EngineMarket))
<1> DEFINE k == [ts |-> t, closed |-> clock + 1 = t + Step[EngineMarket]]
<1>1. FeedTypeOK /\ TableOnGrid /\ Resuming /\ HolesOnlyAtEdges BY DEF PagingInv
<1>2. clock \in Nat /\ clock' = clock + 1 /\ UNCHANGED <<ingest, engine, fill>> /\ UNCHANGED candleTable
  BY <1>1 DEF FeedTypeOK, Tick
<1>3. t \in Opened(EngineMarket)
  <2>1. Opened(EngineMarket) # {} /\ Opened(EngineMarket) \in SUBSET Int
    BY <1>2, SomethingOpened, EveryMarket
  <2>2. \A u \in Opened(EngineMarket) : u <= clock BY DEF Opened
  <2> QED BY <1>2, <2>1, <2>2, MaxIs
<1>4. EngineGrid(t) BY <1>2, <1>3, OpenedIsGrid, EveryMarket DEF EngineGrid
<1> HIDE DEF t
<1>5. k \in Updates /\ EngineGrid(k.ts) BY <1>4 DEF Updates, Grid, EngineGrid
<1>6. flying' \subseteq flying \cup {k} BY DEF Tick, t
<1> HIDE DEF k
<1>7. FeedTypeOK' BY <1>1, <1>2, <1>5, <1>6 DEF FeedTypeOK
<1>8. TableOnGrid' /\ HolesOnlyAtEdges' /\ wrote \subseteq wrote' BY <1>1, <1>2, TableStays DEF candleTable
<1>9. (\A j \in flying : EngineGrid(j.ts))' BY <1>1, <1>5, <1>6 DEF Resuming, Grid, EngineGrid
<1>10. (\A c \in Calls : Resumes(ingest[c], IngestMarket))' /\ (Resumes(fill, FillMarket))'
       /\ HistResumes'
  BY <1>1, <1>2, <1>8, ReadersStay
<1> QED BY <1>7, <1>8, <1>9, <1>10 DEF PagingInv, Resuming

LEMMA OneCandleIsPage ==
  ASSUME NEW s \in Nat \ {0}, NEW t, Grid(s, t)
  PROVE  Page(s, <<t>>)
<1>1. t \in Int /\ <<t>> \in Seq(Int) /\ Len(<<t>>) = 1 /\ <<t>>[1] = t BY DEF Grid
<1>2. t = t + s * (1 - 1) BY <1>1
<1>3. \A i \in 1..1 : i = 1 OBVIOUS
<1> QED BY <1>1, <1>2, <1>3 DEF Page, Consecutive

LEMMA OnCandleStep ==
  ASSUME PagingInv, NEW k \in flying, OnCandle(k)
  PROVE  PagingInv'
<1> DEFINE m == EngineMarket
<1>0. Step[m] \in Nat \ {0} /\ m \in Markets BY StepIs, EveryMarket
<1>1. FeedTypeOK /\ TableOnGrid /\ Resuming /\ HolesOnlyAtEdges BY DEF PagingInv
<1>2. k \in Updates /\ k.ts \in Int /\ Grid(Step[m], k.ts)
  BY <1>1 DEF FeedTypeOK, Resuming, EngineGrid, Updates
<1>3. /\ Upsert(m, <<k.ts>>) /\ edges' = edges \cup {<<m, k.ts>>}
      /\ flying' = flying \ {k} /\ UNCHANGED <<clock, ingest, fill>>
  BY DEF OnCandle
<1>4. Page(Step[m], <<k.ts>>) BY <1>0, <1>2, OneCandleIsPage
<1>4a. edges \subseteq edges' /\ <<m, <<k.ts>>[1]>> \in edges' BY <1>3
<1>5. TableOnGrid' /\ HolesOnlyAtEdges' /\ wrote \subseteq wrote'
  BY <1>0, <1>1, <1>3, <1>4, <1>4a, PageWritten
<1>6. engine' \in Engines /\ engine'.hist = engine.hist
  <2>0. engine \in Engines BY <1>1 DEF FeedTypeOK
  <2>1. CASE UNCHANGED engine BY <2>0, <2>1
  <2>2. CASE engine' = [engine EXCEPT !.buffer =
               IF Len(@) = BufferMax THEN Append(Tail(@), k.ts) ELSE Append(@, k.ts)]
    <3> DEFINE buffer == engine.buffer
    <3>1. buffer \in Seq(Int) /\ BufferMax \in Nat \ {0}
      BY <2>0, CandleFeedAssumption DEF Engines
    <3>2. engine' = [engine EXCEPT !.buffer =
               IF Len(buffer) = BufferMax THEN Append(Tail(buffer), k.ts) ELSE Append(buffer, k.ts)]
      BY <2>0, <2>2 DEF Engines
    <3> HIDE DEF buffer
    <3>4. Append(buffer, k.ts) \in Seq(Int) BY <1>2, <3>1, AppendProperties
    <3>5. Len(buffer) = BufferMax => Append(Tail(buffer), k.ts) \in Seq(Int)
      <4> SUFFICES ASSUME Len(buffer) = BufferMax PROVE Append(Tail(buffer), k.ts) \in Seq(Int)
        OBVIOUS
      <4>1. buffer # <<>> BY <3>1, EmptySeq
      <4>2. Tail(buffer) \in Seq(Int) BY <3>1, <4>1, HeadTailProperties
      <4> QED BY <1>2, <4>2, AppendProperties
    <3> QED BY <2>0, <3>2, <3>4, <3>5 DEF Engines
  <2> QED BY <2>1, <2>2 DEF OnCandle
<1>7. FeedTypeOK' BY <1>1, <1>3, <1>6 DEF FeedTypeOK
<1>8. (\A j \in flying : EngineGrid(j.ts))' BY <1>1, <1>3 DEF Resuming, Grid, EngineGrid
<1>9. (\A c \in Calls : Resumes(ingest[c], IngestMarket))' /\ (Resumes(fill, FillMarket))'
      /\ HistResumes'
  BY <1>1, <1>3, <1>5, <1>6, ReadersStay
<1> QED BY <1>5, <1>7, <1>8, <1>9 DEF PagingInv, Resuming

(* The backfill.                                                            *)
LEMMA FillSteps ==
  ASSUME PagingInv, StartFill \/ FillFetch \/ FillUpsert \/ FillEnds
  PROVE  PagingInv'
<1> DEFINE m == FillMarket
<1>0. Step[m] \in Nat \ {0} /\ m \in Markets /\ Limit \in Nat \ {0} /\ Window \in Int \X Int
  BY StepIs, EveryMarket, CandleFeedAssumption
<1>1. FeedTypeOK /\ TableOnGrid /\ Resuming /\ HolesOnlyAtEdges BY DEF PagingInv
<1>2. fill \in Readers /\ Resumes(fill, m) /\ clock \in Nat BY <1>1 DEF FeedTypeOK, Resuming
<1>3. <<>> \in Seq(Int) BY EmptySeq
<1>4. UNCHANGED <<clock, ingest, engine, flying>>
  BY DEF StartFill, FillFetch, FillUpsert, FillEnds, others
<1>5. ASSUME fill' \in Readers, (Resumes(fill, m))', TableOnGrid', HolesOnlyAtEdges',
             wrote \subseteq wrote'
      PROVE  PagingInv'
  <2>1. FeedTypeOK' BY <1>1, <1>4, <1>5 DEF FeedTypeOK
  <2>2. (\A c \in Calls : Resumes(ingest[c], IngestMarket))' /\ HistResumes'
    BY <1>1, <1>4, <1>5, ReadersStay
  <2>3. (\A k \in flying : EngineGrid(k.ts))' BY <1>1, <1>4 DEF Resuming, Grid, EngineGrid
  <2> QED BY <1>5, <2>1, <2>2, <2>3 DEF PagingInv, Resuming
<1>6. UNCHANGED candleTable => TableOnGrid' /\ HolesOnlyAtEdges' /\ wrote \subseteq wrote'
  BY <1>1, TableStays DEF candleTable
<1>7. CASE StartFill
  <2>1. fill' = Fill /\ UNCHANGED candleTable BY <1>7 DEF StartFill
  <2>2. fill' \in Readers BY <1>0, <1>3, <2>1 DEF Fill, Readers, States
  <2>3. (Resumes(fill, m))' BY <2>1 DEF Resumes, Fill
  <2> QED BY <1>5, <1>6, <2>1, <2>2, <2>3
<1>8. CASE FillFetch
  <2> DEFINE ahead == fill.cursor + Step[m] * Limit
  <2> DEFINE to == Min({ahead, fill.end})
  <2> DEFINE ks == Klines(m, fill.cursor, to, Limit)
  <2>1. fill.pc = "fetch" /\ UNCHANGED candleTable
        /\ fill' = (IF ks = <<>> THEN [fill EXCEPT !.cursor = @ + Step[m] * Limit, !.first = TRUE]
                    ELSE Fetched(fill, ks))
    BY <1>8 DEF FillFetch
  <2>2. ahead \in Int /\ fill.end \in Int BY <1>0, <1>2 DEF Readers
  <2>2a. [fill EXCEPT !.cursor = @ + Step[m] * Limit, !.first = TRUE]
         = [fill EXCEPT !.cursor = ahead, !.first = TRUE]
    BY <1>2 DEF Readers
  <2> HIDE DEF ahead
  <2>3. to \in Int BY <2>2, MinOfTwo
  <2> HIDE DEF to
  <2>4. CASE ks = <<>>
    <3>1. fill' = [fill EXCEPT !.cursor = ahead, !.first = TRUE] BY <2>1, <2>2a, <2>4
    <3>2. fill' \in Readers BY <1>2, <2>2, <3>1 DEF Readers
    <3>3. fill'.pc = "fetch" /\ fill'.first BY <1>2, <2>1, <3>1 DEF Readers
    <3>4. (Resumes(fill, m))' BY <3>3 DEF Resumes
    <3> QED BY <1>5, <1>6, <2>1, <3>2, <3>4
  <2>5. CASE ks # <<>>
    <3>1. fill' \in Readers /\ fill' = Fetched(fill, ks) /\ Resumes(Fetched(fill, ks), m)
      BY <1>0, <1>2, <2>1, <2>3, <2>5, ReaderFetches
    <3> HIDE DEF ks
    <3>2. PICK g : g = Fetched(fill, ks) OBVIOUS
    <3>3. (Resumes(g, m))' BY <1>6, <2>1, <3>1, <3>2, PlacesStay
    <3>4. (Resumes(fill, m))' BY <3>1, <3>2, <3>3 DEF Resumes
    <3> QED BY <1>5, <1>6, <2>1, <3>1, <3>4
  <2> QED BY <2>4, <2>5
<1>9. CASE FillUpsert
  <2>1. fill.pc = "upsert" /\ Upsert(m, fill.got) /\ Began(fill, m) /\ fill' = Written(fill, m)
    BY <1>9 DEF FillUpsert
  <2>2. PICK g \in Readers : g = fill BY <1>2
  <2>3. /\ TableOnGrid' /\ HolesOnlyAtEdges' /\ wrote \subseteq wrote'
        /\ Written(g, m) \in Readers /\ (Resumes(Written(g, m), m))'
    BY <1>0, <1>1, <1>2, <2>1, <2>2, ReaderWrites
  <2>4. fill' = Written(g, m) BY <2>1, <2>2
  <2>5. (Resumes(fill, m))' BY <2>3, <2>4 DEF Resumes, Written, NextPage
  <2> QED BY <1>5, <2>3, <2>4, <2>5
<1>10. CASE FillEnds
  <2>1. fill' = Idle /\ UNCHANGED candleTable BY <1>10 DEF FillEnds
  <2>2. fill' \in Readers BY <1>3, <2>1 DEF Idle, Readers, States
  <2>3. (Resumes(fill, m))' BY <2>1 DEF Resumes, Idle
  <2> QED BY <1>5, <1>6, <2>1, <2>2, <2>3
<1> QED BY <1>7, <1>8, <1>9, <1>10

(* Signals leave the table and its readers alone.                           *)
LEMMA OtherFeedSteps ==
  ASSUME PagingInv,
         \/ \E t \in judged : SaveSignal(t)
         \/ ReadCandles \/ InsertSignal \/ TgSend \/ UNCHANGED feedVars
  PROVE  PagingInv'
<1>1. UNCHANGED <<clock, ingest, engine, flying, fill>> /\ UNCHANGED candleTable
  BY DEF SaveSignal, ReadCandles, InsertSignal, TgSend, feedVars, candleTable
<1>2. FeedTypeOK /\ TableOnGrid /\ Resuming /\ HolesOnlyAtEdges BY DEF PagingInv
<1>3. FeedTypeOK' BY <1>1, <1>2 DEF FeedTypeOK
<1>4. TableOnGrid' /\ HolesOnlyAtEdges' /\ wrote \subseteq wrote' BY <1>1, <1>2, TableStays DEF candleTable
<1>5. (\A c \in Calls : Resumes(ingest[c], IngestMarket))' /\ (Resumes(fill, FillMarket))'
      /\ HistResumes'
  BY <1>1, <1>2, <1>4, ReadersStay
<1>6. (\A k \in flying : EngineGrid(k.ts))' BY <1>1, <1>2 DEF Resuming, Grid, EngineGrid
<1> QED BY <1>3, <1>4, <1>5, <1>6 DEF PagingInv, Resuming

(* Whatever calls, backfills, engines and restarts overlap or fail, and     *)
(* whatever markets they are of, a hole in the candles of a market lies     *)
(* only where a writer began (ingest.js, fetch-binance.js, engine/live.js). *)
THEOREM PagingMakesNoHole == FeedSpec => []HolesOnlyAtEdges
<1>1. InitFeed => PagingInv BY PagingStart
<1>2. PagingInv /\ [NextFeed]_feedVars => PagingInv'
  <2> SUFFICES ASSUME PagingInv, [NextFeed]_feedVars PROVE PagingInv' OBVIOUS
  <2> QED BY IngestSteps, EngineSteps, TickStep, OnCandleStep, FillSteps, OtherFeedSteps DEF NextFeed
<1>3. PagingInv => HolesOnlyAtEdges BY DEF PagingInv
<1> QED BY <1>1, <1>2, <1>3, PTL DEF FeedSpec

-----------------------------------------------------------------------------
(* Signals.  A candle is over once its close has been sent and dealt with:  *)
(* the stream does not send it again, so it is judged once.                 *)
SignalRows == [ts : Int, by : {"engine", "script"}]
ByEngine(t) == [ts |-> t, by |-> "engine"]
CloseOf(t) == t + Step[EngineMarket]
Over(t) == CloseOf(t) <= clock /\ [ts |-> t, closed |-> TRUE] \notin flying

SignalTypeOK ==
  /\ signals \in Seq(SignalRows)
  /\ judged \subseteq Int
  /\ script \in [pc : {"idle", "insert", "send"}, ts : Int]

Judging ==
  /\ \A k \in flying : k.closed => CloseOf(k.ts) <= clock
  /\ \A t \in judged : t \in DOMAIN candles /\ Over(t) /\ \A i \in DOMAIN signals : signals[i] # ByEngine(t)
  /\ \A i \in DOMAIN signals : signals[i].by = "engine" => Over(signals[i].ts)

Scripting ==
  /\ script.pc # "idle" => script.ts \in DOMAIN candles
  /\ script.pc = "send" => [ts |-> script.ts, by |-> "script"] \in Range(signals)

SignalInv == PagingInv /\ SignalTypeOK /\ Judging /\ Scripting /\ SignalsAreBacked

(* A row is appended, of a candle in the table.                             *)
LEMMA SignalSaved ==
  ASSUME SignalsAreBacked, SignalTypeOK, UNCHANGED candles,
         NEW row \in SignalRows, row.ts \in DOMAIN candles, signals' = Append(signals, row),
         row.by = "engine" => \A i \in DOMAIN signals : signals[i] # row,
         sent' \subseteq sent \cup {row}
  PROVE  /\ SignalsAreBacked' /\ signals' \in Seq(SignalRows) /\ row \in Range(signals)'
         /\ \A i \in DOMAIN signals' : (i \in DOMAIN signals /\ signals'[i] = signals[i]) \/ signals'[i] = row
<1>1. signals \in Seq(SignalRows) /\ Len(signals) \in Nat /\ DOMAIN signals = 1..Len(signals)
  BY LenProperties DEF SignalTypeOK
<1>2. signals' \in Seq(SignalRows) /\ Len(signals') = Len(signals) + 1
      /\ DOMAIN signals' = 1..(Len(signals) + 1)
  BY <1>1, AppendProperties, LenProperties
<1>3. \A i \in DOMAIN signals : signals'[i] = signals[i] BY <1>1, AppendProperties
<1>4. signals'[Len(signals) + 1] = row BY <1>1, AppendProperties
<1>5. \A i \in DOMAIN signals' : i \in DOMAIN signals \/ i = Len(signals) + 1 BY <1>1, <1>2
<1>6. Range(signals)' = Range(signals) \cup {row}
  <2>1. Len(signals) + 1 \in DOMAIN signals' /\ DOMAIN signals \subseteq DOMAIN signals'
        BY <1>1, <1>2
  <2> QED BY <1>3, <1>4, <1>5, <2>1 DEF Range
<1>7. SignalsAreBacked'
  <2>1. ASSUME NEW i \in DOMAIN signals' PROVE signals'[i].ts \in DOMAIN candles'
    BY <1>3, <1>4, <1>5 DEF SignalsAreBacked
  <2>2. ASSUME NEW i \in DOMAIN signals', NEW j \in DOMAIN signals', signals'[i] = signals'[j],
               signals'[i].by = "engine"
        PROVE  i = j
    <3>1. CASE i \in DOMAIN signals /\ j \in DOMAIN signals
      BY <1>3, <2>2, <3>1 DEF SignalsAreBacked
    <3>2. CASE i \notin DOMAIN signals \/ j \notin DOMAIN signals
      BY <1>3, <1>4, <1>5, <2>2, <3>2
    <3> QED BY <3>1, <3>2
  <2>3. sent' \subseteq Range(signals)' BY <1>6 DEF SignalsAreBacked
  <2> QED BY <2>1, <2>2, <2>3 DEF SignalsAreBacked
<1> QED BY <1>2, <1>3, <1>4, <1>5, <1>6, <1>7

LEMMA SignalStart == InitFeed => SignalInv
<1> SUFFICES ASSUME InitFeed PROVE SignalInv OBVIOUS
<1>1. PagingInv BY PagingStart
<1> USE DEF InitFeed
<1>2. DOMAIN signals = {} /\ signals \in Seq(SignalRows) OBVIOUS
<1>3. SignalTypeOK BY <1>2 DEF SignalTypeOK, NoScript
<1>4. Judging /\ Scripting BY <1>2 DEF Judging, Scripting, NoScript
<1>5. SignalsAreBacked BY <1>2 DEF SignalsAreBacked
<1> QED BY <1>1, <1>3, <1>4, <1>5 DEF SignalInv

(* Steps that make no signal: what is over stays over.                      *)
LEMMA SignalsStay ==
  ASSUME SignalInv, FeedTypeOK', clock <= clock', DOMAIN candles \subseteq DOMAIN candles',
         judged' \subseteq judged, UNCHANGED <<script, signals, sent>>,
         \A k \in flying' : k \in flying \/ (k.closed => CloseOf(k.ts) = clock' /\ clock' = clock + 1)
  PROVE  SignalTypeOK' /\ Judging' /\ Scripting' /\ SignalsAreBacked'
<1>0. \A t \in Int : CloseOf(t) \in Int BY StepIs, EveryMarket DEF CloseOf
<1>1. SignalTypeOK /\ Judging /\ Scripting /\ SignalsAreBacked /\ FeedTypeOK
  BY DEF SignalInv, PagingInv
<1>2. clock \in Nat /\ clock' \in Nat /\ \A k \in flying' : k.ts \in Int /\ k.closed \in BOOLEAN
  BY <1>1 DEF FeedTypeOK, Updates
<1>3. SignalTypeOK' BY <1>1 DEF SignalTypeOK
<1>4. \A t \in Int : Over(t) => Over(t)'
  <2> SUFFICES ASSUME NEW t \in Int, Over(t) PROVE Over(t)' OBVIOUS
  <2> DEFINE k == [ts |-> t, closed |-> TRUE]
  <2>1. k.ts = t /\ k.closed OBVIOUS
  <2>2. CloseOf(t) \in Int /\ CloseOf(t) <= clock /\ k \notin flying BY <1>0 DEF Over
  <2> HIDE DEF k
  <2>3. k \in flying' => CloseOf(k.ts) = clock + 1 BY <2>1, <2>2
  <2>4. k \notin flying' BY <1>2, <2>1, <2>2, <2>3
  <2>5. CloseOf(t) <= clock' BY <1>2, <2>2
  <2> QED BY <2>4, <2>5 DEF Over, CloseOf, k
<1>5. \A i \in DOMAIN signals : signals[i].ts \in Int
  <2>1. \A i \in DOMAIN signals : signals[i] \in SignalRows
    BY <1>1, ElementOfSeq, LenProperties DEF SignalTypeOK
  <2> QED BY <2>1 DEF SignalRows
<1>6. Judging'
  <2>1. (\A k \in flying : k.closed => CloseOf(k.ts) <= clock)'
    <3>1. \A k \in flying : k.closed => CloseOf(k.ts) <= clock BY <1>1 DEF Judging
    <3>2. \A k \in flying' : k.closed => CloseOf(k.ts) <= clock' BY <1>0, <1>2, <3>1
    <3> QED BY <3>2 DEF CloseOf
  <2>2. (\A t \in judged : t \in DOMAIN candles /\ Over(t) /\ \A i \in DOMAIN signals : signals[i] # ByEngine(t))'
    BY <1>1, <1>4 DEF Judging, SignalTypeOK, ByEngine
  <2>3. (\A i \in DOMAIN signals : signals[i].by = "engine" => Over(signals[i].ts))'
    <3> SUFFICES ASSUME NEW i \in DOMAIN signals, signals[i].by = "engine"
                 PROVE  (Over(signals[i].ts))'
      OBVIOUS
    <3>1. PICK t \in Int : t = signals[i].ts BY <1>5
    <3>2. Over(t) BY <1>1, <3>1 DEF Judging
    <3>3. Over(t)' BY <1>4, <3>2
    <3> QED BY <3>1, <3>3 DEF Over
  <2> QED BY <2>1, <2>2, <2>3 DEF Judging
<1>7. Scripting' BY <1>1 DEF Scripting, Range
<1>8. SignalsAreBacked' BY <1>1 DEF SignalsAreBacked, Range
<1> QED BY <1>3, <1>6, <1>7, <1>8

LEMMA UpsertGrows ==
  ASSUME NEW m, NEW ks, Upsert(m, ks)
  PROVE  DOMAIN candles \subseteq DOMAIN candles'
BY DEF Upsert

(* Steps of ingest, the backfill, the clock and the engine's start and end. *)
LEMMA SignallessSteps ==
  ASSUME SignalInv, FeedTypeOK',
         \/ \E c \in Calls : SelectLastTs(c) \/ FetchKlines(c) \/ UpsertCandles(c) \/ IngestEnds(c)
         \/ StartEngine \/ StoreHist \/ OpenStream \/ StreamCloses \/ EngineDies
         \/ StartFill \/ FillFetch \/ FillUpsert \/ FillEnds \/ Tick \/ UNCHANGED feedVars
  PROVE  SignalTypeOK' /\ Judging' /\ Scripting' /\ SignalsAreBacked'
<1>1. clock \in Nat BY DEF SignalInv, PagingInv, FeedTypeOK
<1>2. UNCHANGED <<script, signals, sent>> /\ judged' \subseteq judged
  BY DEF SelectLastTs, FetchKlines, UpsertCandles, IngestEnds, StartEngine, StoreHist, OpenStream,
         StreamCloses, EngineDies, StartFill, FillFetch, FillUpsert, FillEnds, Tick, feedVars, others
<1>3. DOMAIN candles \subseteq DOMAIN candles'
  <2>1. UNCHANGED candles \/ \E m, ks : Upsert(m, ks)
    BY DEF SelectLastTs, FetchKlines, UpsertCandles, IngestEnds, StartEngine, StoreHist, OpenStream,
           StreamCloses, EngineDies, StartFill, FillFetch, FillUpsert, FillEnds, Tick, feedVars, others, candleTable
  <2> QED BY <2>1, UpsertGrows
<1>4. CASE Tick
  <2>1. clock' = clock + 1 BY <1>4 DEF Tick
  <2> DEFINE t == Max(Opened(EngineMarket))
  <2> DEFINE k == [ts |-> t, closed |-> clock + 1 = CloseOf(t)]
  <2>3. flying' \subseteq flying \cup {k} BY <1>4 DEF Tick, CloseOf
  <2> HIDE DEF t
  <2>4. k.closed => CloseOf(k.ts) = clock' /\ clock' = clock + 1 BY <2>1
  <2> HIDE DEF k
  <2>5. \A j \in flying' : j \in flying \/ (j.closed => CloseOf(j.ts) = clock' /\ clock' = clock + 1)
    BY <2>3, <2>4
  <2>6. clock <= clock' BY <1>1, <2>1
  <2> QED BY <1>2, <1>3, <2>5, <2>6, SignalsStay
<1>5. CASE ~Tick
  <2>1. clock' = clock /\ flying' \subseteq flying
    BY <1>5 DEF SelectLastTs, FetchKlines, UpsertCandles, IngestEnds, StartEngine, StoreHist,
           OpenStream, StreamCloses, EngineDies, StartFill, FillFetch, FillUpsert, FillEnds, feedVars,
           others
  <2>2. clock <= clock' BY <1>1, <2>1
  <2>3. \A j \in flying' : j \in flying \/ (j.closed => CloseOf(j.ts) = clock' /\ clock' = clock + 1)
    BY <2>1
  <2> QED BY <1>2, <1>3, <2>2, <2>3, SignalsStay
<1> QED BY <1>4, <1>5

(* A closed candle is judged: it was neither judged before nor signalled.   *)
LEMMA JudgeStep ==
  ASSUME SignalInv, FeedTypeOK', NEW k \in flying, OnCandle(k)
  PROVE  SignalTypeOK' /\ Judging' /\ Scripting' /\ SignalsAreBacked'
<1>0. \A t \in Int : CloseOf(t) \in Int BY StepIs, EveryMarket DEF CloseOf
<1>1. SignalTypeOK /\ Judging /\ Scripting /\ SignalsAreBacked /\ FeedTypeOK
  BY DEF SignalInv, PagingInv
<1>2. /\ flying' = flying \ {k} /\ Upsert(EngineMarket, <<k.ts>>)
      /\ UNCHANGED <<clock, script, signals, sent>>
      /\ judged' \subseteq judged \cup {k.ts} /\ (~k.closed => judged' = judged)
  BY DEF OnCandle
<1>3. k \in Updates /\ k = [ts |-> k.ts, closed |-> k.closed] /\ k.ts \in Int /\ k.closed \in BOOLEAN
  BY <1>1 DEF FeedTypeOK, Updates
<1>4. DOMAIN candles \subseteq DOMAIN candles' /\ k.ts \in DOMAIN candles'
  <2>1. DOMAIN candles' = DOMAIN candles \cup Range(<<k.ts>>) BY <1>2 DEF Upsert
  <2>2. 1 \in DOMAIN <<k.ts>> /\ <<k.ts>>[1] = k.ts OBVIOUS
  <2>3. k.ts \in Range(<<k.ts>>) BY <2>2 DEF Range
  <2> QED BY <2>1, <2>3
<1>5. CASE ~k.closed
  <2>1. clock <= clock' BY <1>1, <1>2 DEF FeedTypeOK
  <2>2. \A j \in flying' : j \in flying \/ (j.closed => CloseOf(j.ts) = clock' /\ clock' = clock + 1)
    BY <1>2
  <2>3. judged' \subseteq judged BY <1>2, <1>5
  <2> QED BY <1>2, <1>4, <2>1, <2>2, <2>3, SignalsStay
<1>6. CASE k.closed
  <2>1. SignalTypeOK' BY <1>1, <1>2, <1>3 DEF SignalTypeOK
  <2>2. \A t : Over(t) => Over(t)' BY <1>2 DEF Over, CloseOf
  <2>3. (\A j \in flying : j.closed => CloseOf(j.ts) <= clock)' BY <1>1, <1>2 DEF Judging, CloseOf
  <2>4. (\A i \in DOMAIN signals : signals[i].by = "engine" => Over(signals[i].ts))'
    <3> SUFFICES ASSUME NEW i \in DOMAIN signals, signals[i].by = "engine"
                 PROVE  (Over(signals[i].ts))'
      BY <1>2
    <3>1. PICK t : t = signals[i].ts OBVIOUS
    <3>2. Over(t)' BY <1>1, <2>2, <3>1 DEF Judging
    <3> QED BY <1>2, <3>1, <3>2 DEF Over, CloseOf
  <2>5. ASSUME NEW t \in judged'
        PROVE  t \in DOMAIN candles' /\ Over(t)' /\ \A i \in DOMAIN signals' : signals'[i] # ByEngine(t)
    <3>1. CASE t \in judged BY <1>1, <1>2, <1>4, <2>2, <3>1 DEF Judging
    <3>2. CASE t = k.ts
      <4>1. CloseOf(t) <= clock BY <1>1, <1>6, <3>2 DEF Judging
      <4>2. [ts |-> t, closed |-> TRUE] = k BY <1>3, <1>6, <3>2
      <4>3. Over(t)' BY <1>2, <4>1, <4>2 DEF Over, CloseOf
      <4>4. ASSUME NEW i \in DOMAIN signals, signals[i] = ByEngine(t) PROVE FALSE
        <5>1. signals[i].by = "engine" /\ signals[i].ts = t BY <4>4 DEF ByEngine
        <5>2. Over(t) BY <1>1, <5>1 DEF Judging
        <5> QED BY <4>2, <5>2 DEF Over
      <4> QED BY <1>2, <1>4, <3>2, <4>3, <4>4
    <3> QED BY <1>2, <3>1, <3>2
  <2>6. Judging' BY <2>3, <2>4, <2>5 DEF Judging, ByEngine, Over, CloseOf
  <2>7. Scripting' BY <1>1, <1>2, <1>4 DEF Scripting, Range
  <2>8. SignalsAreBacked' BY <1>1, <1>2, <1>4 DEF SignalsAreBacked, Range
  <2> QED BY <2>1, <2>6, <2>7, <2>8
<1> QED BY <1>5, <1>6

LEMMA SaveStep ==
  ASSUME SignalInv, NEW t \in judged, SaveSignal(t)
  PROVE  SignalTypeOK' /\ Judging' /\ Scripting' /\ SignalsAreBacked'
<1>1. SignalTypeOK /\ Judging /\ Scripting /\ SignalsAreBacked BY DEF SignalInv
<1> DEFINE row == ByEngine(t)
<1>2. /\ judged' = judged \ {t} /\ signals' = Append(signals, row) /\ sent' \subseteq sent \cup {row}
      /\ UNCHANGED <<clock, candles, flying, script>>
  BY DEF SaveSignal, ByEngine, candleTable
<1>3. t \in Int /\ t \in DOMAIN candles /\ Over(t) /\ \A i \in DOMAIN signals : signals[i] # row
  BY <1>1 DEF Judging, SignalTypeOK
<1>4. row \in SignalRows /\ row.ts = t /\ row.by = "engine" BY <1>3 DEF ByEngine, SignalRows
<1> HIDE DEF row
<1>5. /\ SignalsAreBacked' /\ signals' \in Seq(SignalRows)
      /\ \A i \in DOMAIN signals' : (i \in DOMAIN signals /\ signals'[i] = signals[i]) \/ signals'[i] = row
  BY <1>1, <1>2, <1>3, <1>4, SignalSaved
<1>6. SignalTypeOK' BY <1>1, <1>2, <1>5 DEF SignalTypeOK
<1>7. \A u : Over(u)' = Over(u) /\ CloseOf(u)' = CloseOf(u) BY <1>2 DEF Over, CloseOf
<1>8. Judging'
  <2>1. (\A k \in flying : k.closed => CloseOf(k.ts) <= clock)' BY <1>1, <1>2 DEF Judging, CloseOf
  <2>2. ASSUME NEW u \in judged'
        PROVE  u \in DOMAIN candles' /\ Over(u)' /\ \A i \in DOMAIN signals' : signals'[i] # ByEngine(u)
    <3>1. u \in judged /\ u # t BY <1>2
    <3>2. row # ByEngine(u) BY <1>4, <3>1 DEF ByEngine
    <3> QED BY <1>1, <1>2, <1>5, <1>7, <3>1, <3>2 DEF Judging
  <2>3. ASSUME NEW i \in DOMAIN signals', signals'[i].by = "engine"
        PROVE  CloseOf(signals'[i].ts) <= clock' /\ [ts |-> signals'[i].ts, closed |-> TRUE] \notin flying'
    BY <1>1, <1>2, <1>3, <1>4, <1>5, <2>3 DEF Judging, Over
  <2> QED BY <2>1, <2>2, <2>3 DEF Judging, ByEngine, Over, CloseOf
<1>9. Scripting'
  <2>1. Range(signals) \subseteq Range(signals)'
    <3>1. \A i \in DOMAIN signals : i \in DOMAIN signals' /\ signals'[i] = signals[i]
      BY <1>1, <1>2, AppendProperties, LenProperties DEF SignalTypeOK
    <3> QED BY <3>1 DEF Range
  <2> QED BY <1>1, <1>2, <2>1 DEF Scripting
<1> QED BY <1>5, <1>6, <1>8, <1>9

LEMMA ScriptSteps ==
  ASSUME SignalInv, ReadCandles \/ InsertSignal \/ TgSend
  PROVE  SignalTypeOK' /\ Judging' /\ Scripting' /\ SignalsAreBacked'
<1>1. SignalTypeOK /\ Judging /\ Scripting /\ SignalsAreBacked /\ TableOnGrid
  BY DEF SignalInv, PagingInv
<1>2. UNCHANGED <<clock, candles, flying, judged>> BY DEF ReadCandles, InsertSignal, TgSend, candleTable
<1>3. \A u : Over(u)' = Over(u) BY <1>2 DEF Over, CloseOf
<1>4. UNCHANGED signals => Judging' BY <1>1, <1>2 DEF Judging, ByEngine, Over, CloseOf
<1>5. CASE ReadCandles
  <2>1. script' = [pc |-> "insert", ts |-> Max(DOMAIN candles)] /\ UNCHANGED <<signals, sent>>
        /\ Max(DOMAIN candles) \in DOMAIN candles /\ Max(DOMAIN candles) \in Int
    BY <1>1, <1>5, AfterNewest, EveryMarket DEF ReadCandles
  <2>2. SignalTypeOK' BY <1>1, <1>2, <2>1 DEF SignalTypeOK
  <2>3. Scripting' BY <1>2, <2>1 DEF Scripting
  <2>4. SignalsAreBacked' BY <1>1, <1>2, <2>1 DEF SignalsAreBacked, Range
  <2> QED BY <1>4, <2>1, <2>2, <2>3, <2>4
<1>6. CASE InsertSignal
  <2> DEFINE row == [ts |-> script.ts, by |-> "script"]
  <2>1. /\ script.pc = "insert" /\ script' = [script EXCEPT !.pc = "send"]
        /\ signals' = Append(signals, row) /\ UNCHANGED sent
    BY <1>6 DEF InsertSignal
  <2>2. script \in [pc : {"idle", "insert", "send"}, ts : Int] BY <1>1 DEF SignalTypeOK
  <2>3. row \in SignalRows /\ row.ts = script.ts /\ row.by = "script" BY <2>2 DEF SignalRows
  <2>4. script'.pc = "send" /\ script'.ts = script.ts
        /\ script' \in [pc : {"idle", "insert", "send"}, ts : Int]
    BY <2>1, <2>2
  <2>5. script.ts \in DOMAIN candles BY <1>1, <2>1 DEF Scripting
  <2>6. [ts |-> script'.ts, by |-> "script"] = row BY <2>4
  <2> HIDE DEF row
  <2>7. /\ SignalsAreBacked' /\ signals' \in Seq(SignalRows) /\ row \in Range(signals)'
        /\ \A i \in DOMAIN signals' : (i \in DOMAIN signals /\ signals'[i] = signals[i]) \/ signals'[i] = row
    BY <1>1, <1>2, <2>1, <2>3, <2>5, SignalSaved
  <2>8. SignalTypeOK' BY <1>1, <1>2, <2>4, <2>7 DEF SignalTypeOK
  <2>9. Judging'
    <3>1. \A t : ByEngine(t) # row
      <4>1. \A t : ByEngine(t).by = "engine" BY DEF ByEngine
      <4> QED BY <2>3, <4>1
    <3>2. (\A t \in judged : t \in DOMAIN candles /\ Over(t) /\ \A i \in DOMAIN signals : signals[i] # ByEngine(t))'
      BY <1>1, <1>2, <1>3, <2>7, <3>1 DEF Judging, ByEngine
    <3>3. ASSUME NEW i \in DOMAIN signals', signals'[i].by = "engine"
          PROVE  CloseOf(signals'[i].ts) <= clock' /\ [ts |-> signals'[i].ts, closed |-> TRUE] \notin flying'
      BY <1>1, <1>2, <2>3, <2>7, <3>3 DEF Judging, Over
    <3> QED BY <1>1, <1>2, <3>2, <3>3 DEF Judging, Over, CloseOf
  <2>10. Scripting' BY <1>2, <2>4, <2>5, <2>6, <2>7 DEF Scripting
  <2> QED BY <2>7, <2>8, <2>9, <2>10
<1>7. CASE TgSend
  <2> DEFINE row == [ts |-> script.ts, by |-> "script"]
  <2>1. script.pc = "send" /\ script' = NoScript /\ sent' \subseteq sent \cup {row} /\ UNCHANGED signals
    BY <1>7 DEF TgSend
  <2>2. row \in Range(signals) BY <1>1, <2>1 DEF Scripting
  <2>3. SignalsAreBacked' BY <1>1, <1>2, <2>1, <2>2 DEF SignalsAreBacked, Range
  <2>4. SignalTypeOK' /\ Scripting' BY <1>1, <1>2, <2>1 DEF SignalTypeOK, Scripting, NoScript
  <2> QED BY <1>4, <2>1, <2>3, <2>4
<1> QED BY <1>5, <1>6, <1>7

LEMMA FeedSafe == FeedSpec => []SignalInv
<1>1. InitFeed => SignalInv BY SignalStart
<1>2. SignalInv /\ [NextFeed]_feedVars => SignalInv'
  <2> SUFFICES ASSUME SignalInv, [NextFeed]_feedVars PROVE SignalInv' OBVIOUS
  <2>1. PagingInv'
    BY IngestSteps, EngineSteps, TickStep, OnCandleStep, FillSteps, OtherFeedSteps
    DEF NextFeed, SignalInv
  <2>2. FeedTypeOK' BY <2>1 DEF PagingInv
  <2>3. SignalTypeOK' /\ Judging' /\ Scripting' /\ SignalsAreBacked'
    BY <2>2, SignallessSteps, JudgeStep, SaveStep, ScriptSteps DEF NextFeed
  <2> QED BY <2>1, <2>3 DEF SignalInv
<1> QED BY <1>1, <1>2, PTL DEF FeedSpec

(* A signal is about a candle of the table, the engine saves one per candle *)
(* over all restarts, and no message precedes its row (engine/live.js,      *)
(* generate-signals.js).                                                   *)
THEOREM SignalsFollowCandles == FeedSpec => []SignalsAreBacked
<1>1. SignalInv => SignalsAreBacked BY DEF SignalInv
<1> QED BY <1>1, FeedSafe, PTL

-----------------------------------------------------------------------------
(* Sets, shares and links.  A token belongs to one thing only: a share, a    *)
(* set, or a request that will write it; whoever has one had a link.         *)

SharesApart ==
  \A t \in DOMAIN shares :
    /\ t \in Tokens /\ \A i \in DOMAIN sets : sets[i].token # t
    /\ \A s \in sharing : s[2] # t

TokensApart ==
  \A i \in DOMAIN sets :
    /\ sets[i] = [payload |-> sets[i].payload, token |-> sets[i].token]
    /\ sets[i].token # 0 => \E l \in links : l.token = sets[i].token
    /\ \A j \in DOMAIN sets : sets[i].token = sets[j].token /\ sets[i].token # 0 => i = j

SharingApart ==
  \A s \in sharing :
    /\ s \in SetIds \X Tokens
    /\ \A i \in DOMAIN sets : sets[i].token # s[2]
    /\ \A r \in sharing : r[2] = s[2] => r = s
    /\ s[1] \notin raced =>
         /\ \A r \in sharing : r[1] = s[1] => r = s
         /\ \A l \in links : l.set # s[1]
         /\ s[1] \in DOMAIN sets => sets[s[1]].token = 0

LinksKnown ==
  \A l \in links :
    /\ l.token \in Tokens /\ \A s \in sharing : s[2] # l.token
    /\ l.set = 0 => l.token \in DOMAIN shares /\ shares[l.token] = l.payload
    /\ l.set # 0 => l.set \in SetIds /\ l.token \notin DOMAIN shares
    /\ l.set \in DOMAIN sets /\ l.set \notin raced => sets[l.set].token = l.token

LinkInv == SharesApart /\ TokensApart /\ SharingApart /\ LinksKnown /\ DOMAIN sets \subseteq SetIds

LEMMA LinksLeadThen ==
  ASSUME LinkInv
  PROVE  LinksLead
<1>0. 0 \notin Tokens /\ 0 \notin SetIds BY OverlayPanelAssumption
<1> SUFFICES ASSUME NEW l \in links
             PROVE  /\ IF l.set = 0 THEN Resolve(l.token) = l.payload
                       ELSE l.set \in DOMAIN sets /\ l.set \notin raced =>
                              Resolve(l.token) = sets[l.set].payload
                    /\ ShareReport(l.token) = Pick(Resolve(l.token).jobs, MaxSetJobs)
  BY DEF LinksLead
<1> DEFINE owners == {i \in DOMAIN sets : sets[i].token = l.token}
<1>1. l.token \in DOMAIN shares => owners = {} BY DEF LinkInv, SharesApart
<1>2. ShareReport(l.token) = Pick(Resolve(l.token).jobs, MaxSetJobs)
  BY <1>1 DEF ShareReport, Resolve
<1>3. l.set = 0 => Resolve(l.token) = l.payload
  BY <1>1 DEF Resolve, LinkInv, LinksKnown
<1>4. ASSUME l.set # 0, l.set \in DOMAIN sets, l.set \notin raced
      PROVE  Resolve(l.token) = sets[l.set].payload
  <2>1. sets[l.set].token = l.token /\ l.token # 0
    BY <1>0, <1>4 DEF LinkInv, LinksKnown
  <2>2. owners = {l.set} BY <1>4, <2>1 DEF LinkInv, TokensApart
  <2>3. Resolve(l.token) = sets[CHOOSE i \in owners : TRUE].payload BY <2>2 DEF Resolve
  <2> QED BY <2>2, <2>3
<1> QED BY <1>2, <1>3, <1>4

(* Saving, changing and deleting a set touches no token.                    *)
LEMMA SetSteps ==
  ASSUME LinkInv, NEW id \in SetIds,
         (\E p \in Payloads : SaveSet(id, p) \/ UpdateSet(id, p)) \/ DeleteSet(id)
  PROVE  LinkInv'
<1>0. 0 \notin Tokens /\ 0 \notin SetIds BY OverlayPanelAssumption
<1>1. UNCHANGED <<shares, sharing, links, raced>> BY DEF SaveSet, UpdateSet, DeleteSet
<1>2. SharesApart /\ TokensApart /\ SharingApart /\ LinksKnown /\ DOMAIN sets \subseteq SetIds
  BY DEF LinkInv
<1>3. ASSUME NEW p, SaveSet(id, p) PROVE LinkInv'
  <2>1. id \notin DOMAIN sets /\ (\A l \in links : l.set # id) /\ (\A s \in sharing : s[1] # id)
    BY <1>3 DEF SaveSet
  <2>2. sets' = With(sets, id, [payload |-> SanitizePayload(p), token |-> 0]) BY <1>3 DEF SaveSet
  <2>3. DOMAIN sets' = DOMAIN sets \cup {id} /\ (\A i \in DOMAIN sets : sets'[i] = sets[i])
        /\ sets'[id] = [payload |-> SanitizePayload(p), token |-> 0]
    BY <2>1, <2>2 DEF With
  <2>4. sets'[id].token = 0 /\ sets'[id] = [payload |-> sets'[id].payload, token |-> sets'[id].token]
    BY <2>3
  <2>5. SharesApart'
    <3>1. \A t \in DOMAIN shares : t # 0
      BY <1>0, <1>2 DEF SharesApart
    <3> QED BY <1>1, <1>2, <2>3, <2>4, <3>1 DEF SharesApart
  <2>6. TokensApart' BY <1>1, <1>2, <2>3, <2>4 DEF TokensApart
  <2>7. SharingApart'
    <3>1. \A s \in sharing : s[2] # 0 BY <1>0, <1>2 DEF SharingApart
    <3> QED BY <1>1, <1>2, <2>1, <2>3, <2>4, <3>1 DEF SharingApart
  <2>8. LinksKnown' BY <1>1, <1>2, <2>1, <2>3 DEF LinksKnown
  <2> QED BY <1>2, <2>3, <2>5, <2>6, <2>7, <2>8 DEF LinkInv
<1>4. ASSUME NEW p, UpdateSet(id, p) PROVE LinkInv'
  <2>1. id \in DOMAIN sets /\ sets' = [sets EXCEPT ![id].payload = SanitizePayload(p)]
    BY <1>4 DEF UpdateSet
  <2>2. DOMAIN sets' = DOMAIN sets BY <2>1
  <2>3. \A i \in DOMAIN sets : sets'[i].token = sets[i].token
                            /\ sets'[i] = [payload |-> sets'[i].payload, token |-> sets'[i].token]
    <3>1. \A i \in DOMAIN sets : i # id => sets'[i] = sets[i] BY <2>1
    <3>2. sets'[id] = [sets[id] EXCEPT !.payload = SanitizePayload(p)] BY <2>1
    <3>3. PICK a, t : sets[id] = [payload |-> a, token |-> t] BY <1>2, <2>1 DEF TokensApart
    <3>4. sets'[id] = [payload |-> SanitizePayload(p), token |-> t] BY <3>2, <3>3
    <3>5. sets'[id].token = sets[id].token
          /\ sets'[id] = [payload |-> sets'[id].payload, token |-> sets'[id].token]
      BY <3>3, <3>4
    <3> QED BY <1>2, <3>1, <3>5 DEF TokensApart
  <2>4. SharesApart' BY <1>1, <1>2, <2>2, <2>3 DEF SharesApart
  <2>5. TokensApart' BY <1>1, <1>2, <2>2, <2>3 DEF TokensApart
  <2>6. SharingApart' BY <1>1, <1>2, <2>2, <2>3 DEF SharingApart
  <2>7. LinksKnown' BY <1>1, <1>2, <2>2, <2>3 DEF LinksKnown
  <2> QED BY <1>2, <2>2, <2>4, <2>5, <2>6, <2>7 DEF LinkInv
<1>5. CASE DeleteSet(id)
  <2>1. sets' = [i \in DOMAIN sets \ {id} |-> sets[i]] BY <1>5 DEF DeleteSet
  <2>2. DOMAIN sets' = DOMAIN sets \ {id} /\ \A i \in DOMAIN sets' : sets'[i] = sets[i] BY <2>1
  <2>3. SharesApart' BY <1>1, <1>2, <2>2 DEF SharesApart
  <2>4. TokensApart' BY <1>1, <1>2, <2>2 DEF TokensApart
  <2>5. SharingApart' BY <1>1, <1>2, <2>2 DEF SharingApart
  <2>6. LinksKnown' BY <1>1, <1>2, <2>2 DEF LinksKnown
  <2> QED BY <1>2, <2>2, <2>3, <2>4, <2>5, <2>6 DEF LinkInv
<1> QED BY <1>3, <1>4, <1>5

(* A fresh token is nobody's.                                               *)
LEMMA FreshIsFree ==
  ASSUME LinkInv, NEW t \in Tokens, Fresh(t)
  PROVE  /\ t # 0 /\ t \notin DOMAIN shares
         /\ (\A l \in links : l.token # t) /\ (\A s \in sharing : s[2] # t)
         /\ \A i \in DOMAIN sets : sets[i].token # t
<1>1. t # 0 BY OverlayPanelAssumption
<1>2. \A i \in DOMAIN sets : sets[i].token = 0 \/ \E l \in links : l.token = sets[i].token
  BY DEF LinkInv, TokensApart
<1> QED BY <1>1, <1>2 DEF Fresh

LEMMA ShareSetStep ==
  ASSUME LinkInv, NEW id \in SetIds, NEW t \in Tokens, ShareSet(id, t)
  PROVE  LinkInv'
<1>0. 0 \notin Tokens /\ 0 \notin SetIds BY OverlayPanelAssumption
<1>1. UNCHANGED <<sets, shares>> /\ id \in DOMAIN sets BY DEF ShareSet
<1>2. SharesApart /\ TokensApart /\ SharingApart /\ LinksKnown /\ DOMAIN sets \subseteq SetIds
  BY DEF LinkInv
<1>3. CASE sets[id].token # 0
  <2> DEFINE new == [token |-> sets[id].token, set |-> id, payload |-> NoPayload]
  <2>1. UNCHANGED <<sharing, raced>> /\ links' = links \cup {new}
    BY <1>3 DEF ShareSet, Given
  <2>2. new.token = sets[id].token /\ new.set = id OBVIOUS
  <2> HIDE DEF new
  <2>3. new.token \in Tokens /\ new.token \notin DOMAIN shares /\ (\A s \in sharing : s[2] # new.token)
    <3>1. PICK l \in links : l.token = sets[id].token BY <1>1, <1>2, <1>3 DEF TokensApart
    <3> QED BY <1>1, <1>2, <2>2, <3>1 DEF LinksKnown, SharesApart
  <2>4. SharesApart' BY <1>1, <1>2, <2>1 DEF SharesApart
  <2>5. TokensApart' BY <1>1, <1>2, <2>1 DEF TokensApart
  <2>6. SharingApart'
    <3>1. \A s \in sharing : s[1] \notin raced => new.set # s[1]
      BY <1>1, <1>2, <1>3, <2>2 DEF SharingApart
    <3> QED BY <1>1, <1>2, <2>1, <3>1 DEF SharingApart
  <2>7. LinksKnown' BY <1>0, <1>1, <1>2, <2>1, <2>2, <2>3 DEF LinksKnown
  <2> QED BY <1>1, <1>2, <2>4, <2>5, <2>6, <2>7 DEF LinkInv
<1>4. CASE sets[id].token = 0
  <2>1. /\ Fresh(t) /\ sharing' = sharing \cup {<<id, t>>} /\ UNCHANGED links
        /\ raced' = (IF \E s \in sharing : s[1] = id THEN raced \cup {id} ELSE raced)
    BY <1>4 DEF ShareSet
  <2>2. /\ t # 0 /\ t \notin DOMAIN shares
        /\ (\A l \in links : l.token # t) /\ (\A s \in sharing : s[2] # t)
        /\ \A i \in DOMAIN sets : sets[i].token # t
    BY <2>1, FreshIsFree
  <2>3. raced \subseteq raced' BY <2>1
  <2>4. id \notin raced' => (\A r \in sharing : r[1] # id) /\ (\A l \in links : l.set # id)
    <3>1. id \notin raced' => (\A r \in sharing : r[1] # id) BY <2>1
    <3>2. \A l \in links : l.token # 0 BY <1>0, <1>2 DEF LinksKnown
    <3>3. \A l \in links : l.set = id => id \in raced
      BY <1>1, <1>2, <1>4, <3>2 DEF LinksKnown
    <3> QED BY <2>3, <3>1, <3>3
  <2>5. SharesApart' BY <1>1, <1>2, <2>1, <2>2 DEF SharesApart
  <2>6. TokensApart' BY <1>1, <1>2, <2>1 DEF TokensApart
  <2>7. SharingApart'
    <3> DEFINE new == <<id, t>>
    <3>1. new \in SetIds \X Tokens /\ new[1] = id /\ new[2] = t OBVIOUS
    <3>2. sharing' = sharing \cup {new} BY <2>1
    <3>3. \A r \in sharing : r[1] = id => id \in raced' BY <2>4
    <3> HIDE DEF new
    <3>4. ASSUME NEW s \in sharing'
          PROVE  /\ s \in SetIds \X Tokens
                 /\ \A i \in DOMAIN sets : sets[i].token # s[2]
                 /\ \A r \in sharing' : r[2] = s[2] => r = s
      <4>1. CASE s \in sharing BY <1>2, <2>2, <3>1, <3>2, <4>1 DEF SharingApart
      <4>2. CASE s = new BY <1>2, <2>2, <3>1, <3>2, <4>2 DEF SharingApart
      <4> QED BY <3>2, <4>1, <4>2
    <3>5. ASSUME NEW s \in sharing', s[1] \notin raced'
          PROVE  /\ \A r \in sharing' : r[1] = s[1] => r = s
                 /\ \A l \in links : l.set # s[1]
                 /\ s[1] \in DOMAIN sets => sets[s[1]].token = 0
      <4>1. CASE s \in sharing
        <5>1. s[1] # id BY <3>3, <3>5, <4>1
        <5>2. s[1] \notin raced BY <2>3, <3>5
        <5> QED BY <1>2, <3>1, <3>2, <4>1, <5>1, <5>2 DEF SharingApart
      <4>2. CASE s = new BY <1>4, <2>4, <3>1, <3>2, <3>5, <4>2
      <4> QED BY <3>2, <4>1, <4>2
    <3> QED BY <1>1, <2>1, <3>4, <3>5 DEF SharingApart
  <2>8. LinksKnown' BY <1>1, <1>2, <2>1, <2>2, <2>3 DEF LinksKnown
  <2> QED BY <1>1, <1>2, <2>5, <2>6, <2>7, <2>8 DEF LinkInv
<1> QED BY <1>3, <1>4

LEMMA WriteTokenStep ==
  ASSUME LinkInv, NEW s \in sharing, WriteToken(s)
  PROVE  LinkInv'
<1>0. 0 \notin Tokens /\ 0 \notin SetIds BY OverlayPanelAssumption
<1>1. SharesApart /\ TokensApart /\ SharingApart /\ LinksKnown /\ DOMAIN sets \subseteq SetIds
  BY DEF LinkInv
<1> DEFINE id == s[1]
<1> DEFINE t == s[2]
<1> DEFINE new == [token |-> t, set |-> id, payload |-> NoPayload]
<1>2. /\ sharing' = sharing \ {s} /\ links' = links \cup {new} /\ UNCHANGED <<shares, raced>>
      /\ sets' = (IF id \in DOMAIN sets THEN [sets EXCEPT ![id].token = t] ELSE sets)
  BY DEF WriteToken, Given
<1>3. id \in SetIds /\ t \in Tokens /\ t # 0 /\ t \notin DOMAIN shares
      /\ (\A i \in DOMAIN sets : sets[i].token # t) /\ (\A l \in links : l.token # t)
      /\ (\A r \in sharing' : r[2] # t)
  BY <1>0, <1>1, <1>2 DEF SharingApart, SharesApart, LinksKnown
<1>4. new.token = t /\ new.set = id OBVIOUS
<1>5. DOMAIN sets' = DOMAIN sets /\ \A i \in DOMAIN sets : i # id => sets'[i] = sets[i] BY <1>2
<1>6. id \in DOMAIN sets => sets'[id] = [payload |-> sets'[id].payload, token |-> t]
  <2> SUFFICES ASSUME id \in DOMAIN sets
               PROVE  sets'[id] = [payload |-> sets'[id].payload, token |-> t]
    OBVIOUS
  <2>1. sets'[id] = [sets[id] EXCEPT !.token = t] BY <1>2
  <2>2. PICK a, u : sets[id] = [payload |-> a, token |-> u] BY <1>1 DEF TokensApart
  <2>3. sets'[id] = [payload |-> a, token |-> t] BY <2>1, <2>2
  <2> QED BY <2>3
<1>7. id \in DOMAIN sets => sets'[id].token = t BY <1>6
<1>8. id \notin raced =>
        /\ \A r \in sharing : r[1] = id => r = s
        /\ \A l \in links : l.set # id
  BY <1>1 DEF SharingApart
<1> HIDE DEF new, id, t
<1>9. SharesApart' BY <1>1, <1>2, <1>3, <1>5, <1>7 DEF SharesApart
<1>10. TokensApart'
  <2>1. new \in links' /\ links \subseteq links' BY <1>2
  <2>2. \A i \in DOMAIN sets' : sets'[i] = [payload |-> sets'[i].payload, token |-> sets'[i].token]
    BY <1>1, <1>5, <1>6, <1>7 DEF TokensApart
  <2>3. \A i \in DOMAIN sets' : sets'[i].token # 0 => \E l \in links' : l.token = sets'[i].token
    BY <1>1, <1>4, <1>5, <1>7, <2>1 DEF TokensApart
  <2>4. \A i, j \in DOMAIN sets' : sets'[i].token = sets'[j].token /\ sets'[i].token # 0 => i = j
    BY <1>1, <1>3, <1>5, <1>7 DEF TokensApart
  <2> QED BY <2>2, <2>3, <2>4 DEF TokensApart
<1>11. SharingApart'
  <2>1. ASSUME NEW r \in sharing'
        PROVE  /\ r \in SetIds \X Tokens
               /\ \A i \in DOMAIN sets' : sets'[i].token # r[2]
               /\ \A q \in sharing' : q[2] = r[2] => q = r
    BY <1>1, <1>2, <1>3, <1>5, <1>7 DEF SharingApart
  <2>2. ASSUME NEW r \in sharing', r[1] \notin raced'
        PROVE  /\ \A q \in sharing' : q[1] = r[1] => q = r
               /\ \A l \in links' : l.set # r[1]
               /\ r[1] \in DOMAIN sets' => sets'[r[1]].token = 0
    <3>1. r \in sharing /\ r # s /\ r[1] \notin raced BY <1>2, <2>2
    <3>2. r[1] # id BY <1>1, <3>1 DEF SharingApart, id
    <3> QED BY <1>1, <1>2, <1>4, <1>5, <3>1, <3>2 DEF SharingApart
  <2> QED BY <2>1, <2>2 DEF SharingApart
<1>12. LinksKnown'
  <2>1. ASSUME NEW l \in links
        PROVE  /\ l.token \in Tokens /\ \A r \in sharing' : r[2] # l.token
               /\ l.set = 0 => l.token \in DOMAIN shares /\ shares[l.token] = l.payload
               /\ l.set # 0 => l.set \in SetIds /\ l.token \notin DOMAIN shares
               /\ l.set \in DOMAIN sets' /\ l.set \notin raced => sets'[l.set].token = l.token
    <3>1. l.set \notin raced => l.set # id BY <1>8
    <3> QED BY <1>1, <1>2, <1>5, <3>1 DEF LinksKnown
  <2>2. /\ new.token \in Tokens /\ \A r \in sharing' : r[2] # new.token
        /\ new.set # 0 /\ new.set \in SetIds /\ new.token \notin DOMAIN shares
        /\ new.set \in DOMAIN sets' => sets'[new.set].token = new.token
    BY <1>0, <1>3, <1>4, <1>5, <1>7
  <2> QED BY <1>2, <2>1, <2>2 DEF LinksKnown
<1> QED BY <1>1, <1>5, <1>9, <1>10, <1>11, <1>12 DEF LinkInv

LEMMA ShareUrlStep ==
  ASSUME LinkInv, NEW t \in Tokens, ShareUrl(t)
  PROVE  LinkInv'
<1>0. 0 \notin Tokens /\ 0 \notin SetIds BY OverlayPanelAssumption
<1>1. SharesApart /\ TokensApart /\ SharingApart /\ LinksKnown /\ DOMAIN sets \subseteq SetIds
  BY DEF LinkInv
<1>2. PICK p : shares' = With(shares, t, p) /\ Given(t, 0, p) BY DEF ShareUrl
<1> DEFINE new == [token |-> t, set |-> 0, payload |-> p]
<1>3. Fresh(t) /\ UNCHANGED <<sets, sharing, raced>> /\ links' = links \cup {new}
  BY <1>2 DEF ShareUrl, Given
<1>4. /\ t # 0 /\ t \notin DOMAIN shares
      /\ (\A l \in links : l.token # t) /\ (\A s \in sharing : s[2] # t)
      /\ \A i \in DOMAIN sets : sets[i].token # t
  BY <1>3, FreshIsFree
<1>5. DOMAIN shares' = DOMAIN shares \cup {t} /\ (\A u \in DOMAIN shares : shares'[u] = shares[u])
      /\ shares'[t] = p
  BY <1>2, <1>4 DEF With
<1>6. new.token = t /\ new.set = 0 /\ new.payload = p OBVIOUS
<1> HIDE DEF new
<1>7. SharesApart' BY <1>1, <1>3, <1>4, <1>5 DEF SharesApart
<1>8. TokensApart' BY <1>1, <1>3 DEF TokensApart
<1>9. SharingApart'
  <2>1. \A s \in sharing : new.set # s[1] BY <1>0, <1>1, <1>6 DEF SharingApart
  <2> QED BY <1>1, <1>3, <2>1 DEF SharingApart
<1>10. LinksKnown'
  <2>1. 0 \notin DOMAIN sets BY <1>0, <1>1
  <2> QED BY <1>1, <1>3, <1>4, <1>5, <1>6, <2>1 DEF LinksKnown
<1> QED BY <1>1, <1>3, <1>7, <1>8, <1>9, <1>10 DEF LinkInv

(* A link leads where it did when it was given out                          *)
(* (analytics.overlay.sets.js, analytics.overlay.share.js).                *)
THEOREM LinksKeepLeading == PanelSpec => []LinksLead
<1>1. InitPanel => LinkInv
  BY DEF InitPanel, LinkInv, SharesApart, TokensApart, SharingApart, LinksKnown
<1>2. LinkInv /\ [NextPanel]_panelVars => LinkInv'
  <2> SUFFICES ASSUME LinkInv, [NextPanel]_panelVars PROVE LinkInv' OBVIOUS
  <2>1. CASE UNCHANGED shareVars
    BY <2>1 DEF shareVars, LinkInv, SharesApart, TokensApart, SharingApart, LinksKnown
  <2>2. ASSUME NEW p, ApplySavedSet(p) PROVE UNCHANGED shareVars BY <2>2 DEF ApplySavedSet
  <2>3. ASSUME NEW t, OpenLink(t) PROVE UNCHANGED shareVars BY <2>3 DEF OpenLink
  <2>4. ASSUME NEW n, Answer(n) \/ AnswerInline(n) \/ Fails(n) PROVE UNCHANGED shareVars
    BY <2>4 DEF Answer, AnswerInline, Fails
  <2>5. ASSUME ApplyOverlays \/ LoadTopNInline \/ ClearAll \/ (\E j : Toggle(j))
               \/ (\E b, a : ChangeControls(b, a)) \/ UNCHANGED panelVars
        PROVE  UNCHANGED shareVars
    BY <2>5 DEF ApplyOverlays, LoadTopNInline, ClearAll, Toggle, ChangeControls, panelVars, shareVars
  <2>6. ASSUME NextPanel PROVE LinkInv'
    BY <2>1, <2>2, <2>3, <2>4, <2>5, <2>6, SetSteps, ShareSetStep, WriteTokenStep, ShareUrlStep
    DEF NextPanel
  <2> QED BY <2>1, <2>5, <2>6
<1>3. LinkInv => LinksLead BY LinksLeadThen
<1> QED BY <1>1, <1>2, <1>3, PTL DEF PanelSpec

-----------------------------------------------------------------------------
(* Live settings.                                                          *)

Fields == {"slPct", "trailPct", "maxOpenTrades"}
InRange(f, v) ==
  /\ v \in Int /\ v # Absent
  /\ f = "slPct" => v > 0
  /\ f = "trailPct" => v >= 0
  /\ f = "maxOpenTrades" => v >= 10 /\ v % 10 = 0

Writing == [pc : {"open", "write"}, cfg : [Fields -> Int], body : [Fields -> Int],
            alone : BOOLEAN, overtaken : BOOLEAN]

LEMMA FieldsAre ==
  /\ DOMAIN Defaults = Fields /\ NoField \in [Fields -> Int]
  /\ \A f \in Fields : NoField[f] = Absent /\ InRange(f, Defaults[f])
BY DEF Defaults, NoField, Fields, Absent, InRange

LEMMA TensOf ==
  ASSUME NEW v \in Int, v >= 10
  PROVE  v - (v % 10) >= 10 /\ (v - (v % 10)) % 10 = 0 /\ v - (v % 10) \in Int
OBVIOUS

LEMMA KeptInRange ==
  ASSUME NEW f \in Fields, NEW v \in Int, Accepts(f, v)
  PROVE  InRange(f, Kept(f, v))
<1>1. CASE f = "slPct" BY <1>1 DEF Accepts, Kept, InRange
<1>2. CASE f = "trailPct" BY <1>2 DEF Accepts, Kept, InRange
<1>3. CASE f = "maxOpenTrades"
  <2>1. v >= 10 BY <1>3 DEF Accepts
  <2> DEFINE w == v - (v % 10)
  <2>2. w >= 10 /\ w % 10 = 0 /\ w \in Int BY <2>1, TensOf
  <2>3. Kept(f, v) = w BY <1>3 DEF Kept
  <2> HIDE DEF w
  <2>4. w # Absent BY <2>2 DEF Absent
  <2> QED BY <1>3, <2>2, <2>3, <2>4 DEF InRange
<1> QED BY <1>1, <1>2, <1>3 DEF Fields

(* The file holds a setting in its range or none; so do the files to come.  *)
FilesInRange ==
  /\ file \in [Fields -> Int] /\ \A f \in Fields : file[f] = Absent \/ InRange(f, file[f])
  /\ tick \in [Fields -> Int] /\ \A f \in Fields : InRange(f, tick[f])
  /\ held \in [Fields -> Int]
  /\ post = [p \in Posts |-> post[p]]
  /\ \A p \in Posts : post[p] # Resting =>
       post[p] \in Writing /\ \A f \in Fields : InRange(f, post[p].cfg[f])

(* Who runs alone is not overtaken, and is about to write what it was given *)
(* or what held before.                                                    *)
AloneHolds ==
  /\ \A p \in Posts : post[p] # Resting /\ post[p].alone =>
       /\ ~post[p].overtaken /\ \A q \in Posts : q # p => post[q] = Resting
       /\ \A f \in Fields :
            IF Accepts(f, post[p].body[f]) THEN post[p].cfg[f] = Kept(f, post[p].body[f])
            ELSE held[f] # Absent => post[p].cfg[f] = held[f]
  /\ (\A p \in Posts : post[p] = Resting) =>
       \A f \in Fields : held[f] # Absent => GetLiveConfig[f] = held[f]

FileInv == FilesInRange /\ AloneHolds

LEMMA LiveConfigIs ==
  ASSUME FilesInRange
  PROVE  /\ GetLiveConfig \in [Fields -> Int]
         /\ \A f \in Fields : /\ InRange(f, GetLiveConfig[f])
                              /\ file[f] # Absent => GetLiveConfig[f] = file[f]
<1>1. DOMAIN Defaults = Fields /\ \A f \in Fields : InRange(f, Defaults[f]) BY FieldsAre
<1>2. \A f \in Fields : Defaults[f] \in Int BY <1>1 DEF InRange
<1>3. GetLiveConfig = [f \in Fields |-> IF file[f] = Absent THEN Defaults[f] ELSE file[f]]
  BY <1>1 DEF GetLiveConfig
<1> QED BY <1>1, <1>2, <1>3 DEF FilesInRange

LEMMA FileInvHolds ==
  ASSUME FileInv
  PROVE  SettingsHold
<1>1. \A s \in [Fields -> Int] : (\A f \in Fields : InRange(f, s[f])) =>
        s.slPct > 0 /\ s.trailPct >= 0 /\ s.maxOpenTrades >= 10 /\ s.maxOpenTrades % 10 = 0
  BY DEF InRange, Fields
<1>2. \A s \in {GetLiveConfig, tick} :
        s.slPct > 0 /\ s.trailPct >= 0 /\ s.maxOpenTrades >= 10 /\ s.maxOpenTrades % 10 = 0
  BY <1>1, LiveConfigIs DEF FileInv, FilesInRange
<1>3. (\A p \in Posts : post[p] = Resting) =>
        \A f \in DOMAIN held : held[f] # Absent => GetLiveConfig[f] = held[f]
  BY DEF FileInv, FilesInRange, AloneHolds
<1> QED BY <1>2, <1>3 DEF SettingsHold

LEMMA RestingIsIdle ==
  ASSUME NEW w \in Writing
  PROVE  w # Resting
BY DEF Writing, Resting

LEMMA ReadStep ==
  ASSUME FileInv, NEW p \in Posts, NEW body \in Bodies, ReadSettings(p, body)
  PROVE  FileInv'
<1>1. FilesInRange /\ AloneHolds /\ body \in [Fields -> Int]
  BY SettingsAssumption, FieldsAre DEF FileInv
<1> DEFINE cfg == Merged(GetLiveConfig, body)
<1> DEFINE new == [pc |-> "open", cfg |-> cfg, body |-> body,
                   alone |-> Under(p) = {}, overtaken |-> FALSE]
<1>2. /\ post[p] = Resting /\ UNCHANGED <<file, tick>>
      /\ post' = [q \in Posts |-> IF q = p THEN new
                    ELSE IF q \in Under(p) THEN [post[q] EXCEPT !.alone = FALSE] ELSE post[q]]
      /\ held' = (IF Under(p) = {} THEN held ELSE NoField)
  BY DEF ReadSettings
<1>3. GetLiveConfig \in [Fields -> Int] /\ \A f \in Fields : InRange(f, GetLiveConfig[f])
  BY <1>1, LiveConfigIs
<1>4. cfg = [f \in Fields |-> IF Accepts(f, body[f]) THEN Kept(f, body[f]) ELSE GetLiveConfig[f]]
  BY <1>3 DEF Merged
<1>5. \A f \in Fields : InRange(f, cfg[f]) BY <1>1, <1>3, <1>4, KeptInRange
<1>6. cfg \in [Fields -> Int] BY <1>4, <1>5 DEF InRange
<1> HIDE DEF cfg
<1>7. (Under(p) = {}) \in BOOLEAN OBVIOUS
<1>8. new \in Writing /\ new.cfg = cfg /\ new.body = body /\ new.overtaken = FALSE
      /\ (new.alone <=> Under(p) = {})
  BY <1>1, <1>6, <1>7 DEF Writing
<1> HIDE DEF new
<1>9. \A q \in Posts : q # p => (q \in Under(p) <=> post[q] # Resting) BY DEF Under
<1>10. ASSUME NEW q \in Posts, post[q] # Resting
       PROVE  [post[q] EXCEPT !.alone = FALSE] \in Writing
              /\ [post[q] EXCEPT !.alone = FALSE].cfg = post[q].cfg
              /\ [post[q] EXCEPT !.alone = FALSE].alone = FALSE
  <2>1. post[q] \in Writing BY <1>1, <1>10 DEF FilesInRange
  <2> QED BY <2>1 DEF Writing
<1>11. FilesInRange'
  <2>1. held' \in [Fields -> Int] BY <1>1, <1>2, FieldsAre DEF FilesInRange
  <2>2. post' = [q \in Posts |-> post'[q]] BY <1>2
  <2>3. ASSUME NEW q \in Posts, post'[q] # Resting
        PROVE  post'[q] \in Writing /\ \A f \in Fields : InRange(f, post'[q].cfg[f])
    <3>1. CASE q = p BY <1>2, <1>5, <1>8, <3>1
    <3>2. CASE q # p /\ post[q] # Resting
      BY <1>1, <1>2, <1>9, <1>10, <3>2 DEF FilesInRange
    <3>3. CASE q # p /\ post[q] = Resting BY <1>2, <1>9, <2>3, <3>3
    <3> QED BY <3>1, <3>2, <3>3
  <2> QED BY <1>1, <1>2, <2>1, <2>2, <2>3 DEF FilesInRange
<1>12. AloneHolds'
  <2>1. post'[p] = new /\ new # Resting BY <1>2, <1>8, RestingIsIdle
  <2>2. ASSUME NEW q \in Posts, post'[q] # Resting, post'[q].alone
        PROVE  /\ ~post'[q].overtaken /\ \A r \in Posts : r # q => post'[r] = Resting
               /\ \A f \in Fields :
                    IF Accepts(f, post'[q].body[f]) THEN post'[q].cfg[f] = Kept(f, post'[q].body[f])
                    ELSE held'[f] # Absent => post'[q].cfg[f] = held'[f]
    <3>1. q = p BY <1>2, <1>9, <1>10, <2>2
    <3>2. Under(p) = {} BY <1>8, <2>1, <2>2, <3>1
    <3>3. \A r \in Posts : r # p => post[r] = Resting BY <1>9, <3>2
    <3>4. \A r \in Posts : r # p => post'[r] = Resting BY <1>2, <3>2, <3>3
    <3>5. \A f \in Fields : held[f] # Absent => GetLiveConfig[f] = held[f]
      BY <1>1, <1>2, <3>3 DEF AloneHolds
    <3>6. held' = held BY <1>2, <3>2
    <3> QED BY <1>4, <1>8, <2>1, <3>1, <3>4, <3>5, <3>6
  <2> QED BY <2>1, <2>2 DEF AloneHolds
<1> QED BY <1>11, <1>12 DEF FileInv

LEMMA OpenStep ==
  ASSUME FileInv, NEW p \in Posts, OpenFile(p)
  PROVE  FileInv'
<1>1. FilesInRange /\ AloneHolds BY DEF FileInv
<1>2. /\ post[p].pc = "open" /\ file' = NoField /\ UNCHANGED <<tick, held>>
      /\ post' = [post EXCEPT ![p].pc = "write"]
  BY DEF OpenFile, Torn
<1>3. post[p] # Resting BY <1>2 DEF Resting
<1>4. post[p] \in Writing BY <1>1, <1>3 DEF FilesInRange
<1>5. post'[p] = [post[p] EXCEPT !.pc = "write"] /\ \A q \in Posts : q # p => post'[q] = post[q]
  BY <1>1, <1>2 DEF FilesInRange
<1>6. post'[p] \in Writing /\ post'[p].cfg = post[p].cfg /\ post'[p].body = post[p].body
      /\ post'[p].alone = post[p].alone /\ post'[p].overtaken = post[p].overtaken
  BY <1>4, <1>5 DEF Writing
<1>7. post'[p] # Resting BY <1>6, RestingIsIdle
<1>8. FilesInRange'
  <2>1. post' = [q \in Posts |-> post'[q]] BY <1>1, <1>2 DEF FilesInRange
  <2>2. \A q \in Posts : post'[q] # Resting =>
          post'[q] \in Writing /\ \A f \in Fields : InRange(f, post'[q].cfg[f])
    BY <1>1, <1>3, <1>5, <1>6 DEF FilesInRange
  <2>3. file' \in [Fields -> Int] /\ \A f \in Fields : file'[f] = Absent BY <1>2, FieldsAre
  <2> QED BY <1>1, <1>2, <2>1, <2>2, <2>3 DEF FilesInRange
<1>9. AloneHolds' BY <1>1, <1>2, <1>3, <1>5, <1>6, <1>7 DEF AloneHolds
<1> QED BY <1>8, <1>9 DEF FileInv

LEMMA WriteStep ==
  ASSUME FileInv, NEW p \in Posts, WriteFile(p)
  PROVE  FileInv'
<1>1. FilesInRange /\ AloneHolds BY DEF FileInv
<1>2. /\ post[p].pc = "write" /\ UNCHANGED tick
      /\ file' \in {post[p].cfg} \cup (IF post[p].overtaken THEN {NoField} ELSE {})
      /\ post' = [q \in Posts |-> IF q = p THEN Resting
           ELSE IF post[q] # Resting /\ post[q].pc = "write"
               THEN [post[q] EXCEPT !.overtaken = TRUE]
           ELSE post[q]]
      /\ held' = (IF post[p].alone
             THEN [f \in DOMAIN held |->
                     IF Accepts(f, post[p].body[f]) THEN Kept(f, post[p].body[f]) ELSE held[f]]
             ELSE NoField)
  BY DEF WriteFile, Torn
<1>3. post[p] # Resting BY <1>2 DEF Resting
<1>4. post[p] \in Writing /\ \A f \in Fields : InRange(f, post[p].cfg[f])
  BY <1>1, <1>3 DEF FilesInRange
<1>5. post[p].cfg \in [Fields -> Int] /\ post[p].body \in [Fields -> Int] BY <1>4 DEF Writing
<1>6. ASSUME NEW q \in Posts, post[q] # Resting
      PROVE  [post[q] EXCEPT !.overtaken = TRUE] \in Writing
             /\ [post[q] EXCEPT !.overtaken = TRUE].cfg = post[q].cfg
             /\ [post[q] EXCEPT !.overtaken = TRUE].alone = post[q].alone
  <2>1. post[q] \in Writing BY <1>1, <1>6 DEF FilesInRange
  <2> QED BY <2>1 DEF Writing
<1>7. held \in [Fields -> Int] BY <1>1 DEF FilesInRange
<1>8. held' \in [Fields -> Int]
  <2>1. \A f \in Fields : Accepts(f, post[p].body[f]) => Kept(f, post[p].body[f]) \in Int
    BY <1>5, KeptInRange DEF InRange
  <2> QED BY <1>2, <1>7, <2>1, FieldsAre
<1>9. FilesInRange'
  <2>1. post' = [q \in Posts |-> post'[q]] BY <1>2
  <2>2. ASSUME NEW q \in Posts, post'[q] # Resting
        PROVE  post'[q] \in Writing /\ \A f \in Fields : InRange(f, post'[q].cfg[f])
    <3>1. q # p /\ post[q] # Resting BY <1>2, <2>2
    <3> QED BY <1>1, <1>2, <1>6, <3>1 DEF FilesInRange
  <2>3. file' \in [Fields -> Int] /\ \A f \in Fields : file'[f] = Absent \/ InRange(f, file'[f])
    BY <1>2, <1>4, <1>5, FieldsAre
  <2> QED BY <1>1, <1>2, <1>8, <2>1, <2>2, <2>3 DEF FilesInRange
<1>10. CASE post[p].alone
  <2>1. /\ ~post[p].overtaken /\ \A q \in Posts : q # p => post[q] = Resting
        /\ \A f \in Fields :
             IF Accepts(f, post[p].body[f]) THEN post[p].cfg[f] = Kept(f, post[p].body[f])
             ELSE held[f] # Absent => post[p].cfg[f] = held[f]
    BY <1>1, <1>3, <1>10 DEF AloneHolds
  <2>2. \A q \in Posts : post'[q] = Resting BY <1>2, <2>1
  <2>3. file' = post[p].cfg BY <1>2, <2>1
  <2>4. \A f \in Fields : held'[f] # Absent => GetLiveConfig'[f] = held'[f]
    <3>1. ASSUME NEW f \in Fields PROVE GetLiveConfig'[f] = post[p].cfg[f]
      <4>1. DOMAIN Defaults = Fields BY FieldsAre
      <4>2. post[p].cfg[f] # Absent BY <1>4 DEF InRange
      <4> QED BY <2>3, <4>1, <4>2 DEF GetLiveConfig
    <3>2. ASSUME NEW f \in Fields
          PROVE  held'[f] = IF Accepts(f, post[p].body[f])
              THEN Kept(f, post[p].body[f]) ELSE held[f]
      BY <1>2, <1>7, <1>10
    <3> QED BY <2>1, <3>1, <3>2
  <2>5. AloneHolds' BY <2>2, <2>4 DEF AloneHolds
  <2> QED BY <1>9, <2>5 DEF FileInv
<1>11. CASE ~post[p].alone
  <2>1. \A f \in Fields : held'[f] = Absent BY <1>2, <1>11, FieldsAre
  <2>2. ASSUME NEW q \in Posts, post'[q] # Resting, post'[q].alone PROVE FALSE
    <3>1. q # p /\ post[q] # Resting BY <1>2, <2>2
    <3>2. post[q].alone BY <1>2, <1>6, <2>2, <3>1
    <3>3. post[p] = Resting BY <1>1, <3>1, <3>2 DEF AloneHolds
    <3> QED BY <1>3, <3>3
  <2>3. AloneHolds' BY <2>1, <2>2 DEF AloneHolds
  <2> QED BY <1>9, <2>3 DEF FileInv
<1> QED BY <1>10, <1>11

(* The optimizer, a step of the paper trader, the end of the server, and    *)
(* what concerns the strategies.                                           *)
LEMMA OtherFileSteps ==
  ASSUME FileInv, WriteBest \/ TickReads \/ ServerDies \/ UNCHANGED fileVars
  PROVE  FileInv'
<1>1. FilesInRange /\ AloneHolds BY DEF FileInv
<1>2. \A f \in Fields : NoField[f] = Absent /\ NoField \in [Fields -> Int] BY FieldsAre
<1>a. NoField \in [Fields -> Int] BY FieldsAre
<1>3. CASE WriteBest
  <2>1. /\ file' = NoField /\ held' = NoField /\ UNCHANGED tick
        /\ post' = [p \in Posts |-> IF post[p] = Resting THEN Resting
                      ELSE [post[p] EXCEPT !.alone = FALSE, !.overtaken = TRUE]]
    BY <1>3 DEF WriteBest
  <2>2. ASSUME NEW q \in Posts, post'[q] # Resting
        PROVE  post'[q] \in Writing /\ post'[q].cfg = post[q].cfg /\ post[q] # Resting
               /\ ~post'[q].alone
    <3>1. post[q] # Resting /\ post'[q] = [post[q] EXCEPT !.alone = FALSE, !.overtaken = TRUE]
      BY <2>1, <2>2
    <3>2. post[q] \in Writing BY <1>1, <3>1 DEF FilesInRange
    <3> QED BY <3>1, <3>2 DEF Writing
  <2>3. FilesInRange'
    <3>1. post' = [p \in Posts |-> post'[p]] BY <2>1
    <3>2. \A q \in Posts : post'[q] # Resting =>
            post'[q] \in Writing /\ \A f \in Fields : InRange(f, post'[q].cfg[f])
      BY <1>1, <2>2 DEF FilesInRange
    <3> QED BY <1>1, <1>2, <1>a, <2>1, <3>1, <3>2 DEF FilesInRange
  <2>4. AloneHolds' BY <1>2, <2>1, <2>2 DEF AloneHolds
  <2> QED BY <2>3, <2>4 DEF FileInv
<1>4. CASE TickReads
  <2>1. tick' = GetLiveConfig /\ UNCHANGED <<file, post, held>> BY <1>4 DEF TickReads
  <2>2. tick' \in [Fields -> Int] /\ \A f \in Fields : InRange(f, tick'[f])
    BY <1>1, <2>1, LiveConfigIs
  <2>3. FilesInRange' BY <1>1, <2>1, <2>2 DEF FilesInRange
  <2>4. AloneHolds' BY <1>1, <2>1 DEF AloneHolds, GetLiveConfig
  <2> QED BY <2>3, <2>4 DEF FileInv
<1>5. CASE ServerDies
  <2>1. /\ post' = [p \in Posts |-> Resting] /\ UNCHANGED <<file, tick>>
        /\ held' = (IF \E p \in Posts : post[p] # Resting THEN NoField ELSE held)
    BY <1>5 DEF ServerDies
  <2>2. \A p \in Posts : post'[p] = Resting BY <2>1
  <2>3. FilesInRange'
    <3>1. post' = [p \in Posts |-> post'[p]] BY <2>1
    <3> QED BY <1>1, <1>a, <2>1, <2>2, <3>1 DEF FilesInRange
  <2>4. AloneHolds'
    <3>1. \A f \in Fields : held'[f] # Absent => GetLiveConfig'[f] = held'[f]
      BY <1>1, <1>2, <2>1 DEF AloneHolds, GetLiveConfig
    <3> QED BY <2>2, <3>1 DEF AloneHolds
  <2> QED BY <2>3, <2>4 DEF FileInv
<1>6. CASE UNCHANGED fileVars
  <2>1. UNCHANGED <<file, post, tick, held>> BY <1>6 DEF fileVars
  <2> QED BY <1>1, <2>1 DEF FileInv, FilesInRange, AloneHolds, GetLiveConfig
<1> QED BY <1>3, <1>4, <1>5, <1>6

(* A step trades with settings in their range, and what a post that ran     *)
(* alone set holds (live.js, optimize.js).                                 *)
THEOREM SettingsStayInRange == SettingsSpec => []SettingsHold
<1>1. InitSettings => FileInv
  <2> SUFFICES ASSUME InitSettings PROVE FileInv OBVIOUS
  <2>1. file = NoField /\ tick = Defaults /\ held = NoField /\ post = [p \in Posts |-> Resting]
    BY DEF InitSettings
  <2>2. Defaults \in [Fields -> Int] BY FieldsAre DEF Defaults, Fields
  <2>3. \A p \in Posts : post[p] = Resting BY <2>1
  <2>4. post = [p \in Posts |-> post[p]] BY <2>1
  <2>5. FilesInRange BY <2>1, <2>2, <2>3, <2>4, FieldsAre DEF FilesInRange
  <2>6. AloneHolds BY <2>1, <2>3, FieldsAre DEF AloneHolds
  <2> QED BY <2>5, <2>6 DEF FileInv
<1>2. FileInv /\ [NextSettings]_settingsVars => FileInv'
  <2> SUFFICES ASSUME FileInv, [NextSettings]_settingsVars PROVE FileInv' OBVIOUS
  <2>1. ASSUME NEW r, (\E c, apply : PutConfig(r, c, apply)) \/ SaveActiveConfig(r)
                      \/ GetActiveConfig(r) \/ GracefulRestart(r)
        PROVE  UNCHANGED fileVars
    BY <2>1 DEF PutConfig, SaveActiveConfig, GetActiveConfig, GracefulRestart
  <2>2. ASSUME NEW s, SavePreset(s) \/ DeletePreset(s) PROVE UNCHANGED fileVars
    BY <2>2 DEF SavePreset, DeletePreset
  <2>3. CASE NextSettings
    BY <2>1, <2>2, <2>3, ReadStep, OpenStep, WriteStep, OtherFileSteps DEF NextSettings
  <2>4. CASE UNCHANGED settingsVars BY <2>4, OtherFileSteps DEF settingsVars, fileVars
  <2> QED BY <2>3, <2>4
<1>3. FileInv => SettingsHold BY FileInvHolds
<1> QED BY <1>1, <1>2, <1>3, PTL DEF SettingsSpec

-----------------------------------------------------------------------------
(* Strategies.  Who works alone finds its own configuration in the row, and *)
(* nothing counts as applied while a request is under way.                  *)

Configs == {c \in ConfigBodies : ValidateConfig(c)}
Asking == [pc : {"save", "read", "restart"}, cfg : Configs, apply : BOOLEAN,
           got : Configs \cup {<<>>}, alone : BOOLEAN]

RequestsValid ==
  /\ request = [r \in Requests |-> request[r]]
  /\ \A r \in Requests : request[r] # Resting =>
       /\ request[r] \in Asking
       /\ request[r].pc = "restart" => request[r].got \in Configs
  /\ stored \in Configs
  /\ runner # <<>> => runner \in Configs

AloneApplies ==
  /\ \A r \in Requests : request[r] # Resting =>
       /\ applied = <<>>
       /\ request[r].alone =>
            /\ \A q \in Requests : q # r => request[q] = Resting
            /\ request[r].pc # "save" => stored = request[r].cfg
            /\ request[r].pc = "restart" => request[r].got = request[r].cfg
  /\ applied # <<>> => runner = applied /\ stored = applied

PresetsLackSymbols == \A s \in presets : s.symbols = 0 \/ ValidStrategy(s)

RunnerInv == RequestsValid /\ AloneApplies /\ PresetsLackSymbols

LEMMA AskingIsBusy ==
  ASSUME NEW w \in Asking
  PROVE  w # Resting
BY DEF Asking, Resting

LEMMA PutStep ==
  ASSUME RunnerInv, NEW r \in Requests, NEW cfg \in ConfigBodies, NEW apply \in BOOLEAN,
         PutConfig(r, cfg, apply)
  PROVE  RunnerInv'
<1> DEFINE new == [pc |-> "save", cfg |-> cfg, apply |-> apply, got |-> <<>>, alone |-> Others(r) = {}]
<1>1. RequestsValid /\ AloneApplies /\ PresetsLackSymbols BY DEF RunnerInv
<1>2. /\ request[r] = Resting /\ ValidateConfig(cfg) /\ applied' = <<>>
      /\ UNCHANGED <<stored, runner, presets>>
      /\ request' = [q \in Requests |-> IF q = r THEN new
           ELSE IF q \in Others(r) THEN [request[q] EXCEPT !.alone = FALSE] ELSE request[q]]
  BY DEF PutConfig
<1>3. (Others(r) = {}) \in BOOLEAN OBVIOUS
<1>4. new \in Asking /\ new.pc = "save" /\ (new.alone <=> Others(r) = {})
  BY <1>2, <1>3 DEF Asking, Configs
<1> HIDE DEF new
<1>5. \A q \in Requests : q # r => (q \in Others(r) <=> request[q] # Resting) BY DEF Others
<1>6. ASSUME NEW q \in Requests, request[q] # Resting
      PROVE  /\ [request[q] EXCEPT !.alone = FALSE] \in Asking
             /\ [request[q] EXCEPT !.alone = FALSE].got = request[q].got
             /\ [request[q] EXCEPT !.alone = FALSE].pc = request[q].pc
             /\ [request[q] EXCEPT !.alone = FALSE].alone = FALSE
  <2>1. request[q] \in Asking BY <1>1, <1>6 DEF RequestsValid
  <2> QED BY <2>1 DEF Asking
<1>7. ASSUME NEW q \in Requests, q # r, request'[q] # Resting
      PROVE  request[q] # Resting /\ request'[q] = [request[q] EXCEPT !.alone = FALSE]
  BY <1>2, <1>5, <1>7
<1>8. RequestsValid'
  <2>1. request' = [q \in Requests |-> request'[q]] BY <1>2
  <2>2. ASSUME NEW q \in Requests, request'[q] # Resting
        PROVE  request'[q] \in Asking /\ (request'[q].pc = "restart" => request'[q].got \in Configs)
    <3>1. CASE q = r BY <1>2, <1>4, <3>1
    <3>2. CASE q # r BY <1>1, <1>6, <1>7, <2>2, <3>2 DEF RequestsValid
    <3> QED BY <3>1, <3>2
  <2> QED BY <1>1, <1>2, <2>1, <2>2 DEF RequestsValid, Configs
<1>9. AloneApplies'
  <2>1. ASSUME NEW q \in Requests, request'[q] # Resting, request'[q].alone
        PROVE  /\ \A p \in Requests : p # q => request'[p] = Resting
               /\ request'[q].pc = "save"
    <3>1. q = r BY <1>6, <1>7, <2>1
    <3>2. request'[r] = new BY <1>2
    <3>3. Others(r) = {} BY <1>4, <2>1, <3>1, <3>2
    <3>4. \A p \in Requests : p # r => request'[p] = Resting BY <1>2, <1>5, <3>3
    <3> QED BY <1>4, <3>1, <3>2, <3>4
  <2> QED BY <1>2, <2>1 DEF AloneApplies
<1>10. PresetsLackSymbols' BY <1>1, <1>2 DEF PresetsLackSymbols
<1> QED BY <1>8, <1>9, <1>10 DEF RunnerInv

LEMMA RequestSteps ==
  ASSUME RunnerInv, NEW r \in Requests, SaveActiveConfig(r) \/ GetActiveConfig(r) \/ GracefulRestart(r)
  PROVE  RunnerInv'
<1>1. RequestsValid /\ AloneApplies /\ PresetsLackSymbols BY DEF RunnerInv
<1>2. request[r] # Resting
  BY DEF SaveActiveConfig, GetActiveConfig, GracefulRestart, Resting
<1>3. request[r] \in Asking /\ (request[r].pc = "restart" => request[r].got \in Configs)
  BY <1>1, <1>2 DEF RequestsValid
<1>4. PresetsLackSymbols'
  BY <1>1 DEF PresetsLackSymbols, SaveActiveConfig, GetActiveConfig, GracefulRestart
<1>5. applied = <<>> BY <1>1, <1>2 DEF AloneApplies
<1>6. CASE SaveActiveConfig(r)
  <2> DEFINE new == IF request[r].apply THEN [request[r] EXCEPT !.pc = "read"] ELSE Resting
  <2>1. /\ stored' = request[r].cfg /\ UNCHANGED <<runner, presets, applied>>
        /\ request' = [request EXCEPT ![r] = new]
    BY <1>6 DEF SaveActiveConfig
  <2>2. new # Resting => new \in Asking /\ new.pc = "read" /\ new.alone = request[r].alone
                         /\ new.cfg = request[r].cfg
    BY <1>3 DEF Asking
  <2> HIDE DEF new
  <2>3. request'[r] = new /\ \A q \in Requests : q # r => request'[q] = request[q]
    BY <1>1, <2>1 DEF RequestsValid
  <2>4. RequestsValid'
    <3>1. request' = [q \in Requests |-> request'[q]] BY <1>1, <2>1 DEF RequestsValid
    <3>2. stored' \in Configs BY <1>3, <2>1 DEF Asking
    <3>3. \A q \in Requests : request'[q] # Resting =>
            request'[q] \in Asking /\ (request'[q].pc = "restart" => request'[q].got \in Configs)
      BY <1>1, <2>2, <2>3 DEF RequestsValid
    <3> QED BY <1>1, <2>1, <3>1, <3>2, <3>3 DEF RequestsValid, Configs
  <2>5. AloneApplies'
    <3>1. ASSUME NEW q \in Requests, request'[q] # Resting, request'[q].alone
          PROVE  /\ \A p \in Requests : p # q => request'[p] = Resting
                 /\ request'[q].pc # "save" => stored' = request'[q].cfg
                 /\ request'[q].pc = "restart" => request'[q].got = request'[q].cfg
      <4>1. q = r BY <1>1, <1>2, <2>3, <3>1 DEF AloneApplies
      <4> QED BY <1>1, <1>2, <2>1, <2>2, <2>3, <3>1, <4>1 DEF AloneApplies
    <3> QED BY <1>5, <2>1, <3>1 DEF AloneApplies
  <2> QED BY <1>4, <2>4, <2>5 DEF RunnerInv
<1>7. CASE GetActiveConfig(r)
  <2> DEFINE new == [request[r] EXCEPT !.pc = "restart", !.got = stored]
  <2>1. /\ request[r].pc = "read" /\ UNCHANGED <<stored, runner, presets, applied>>
        /\ request' = [request EXCEPT ![r] = new]
    BY <1>7 DEF GetActiveConfig
  <2>2. new \in Asking /\ new.pc = "restart" /\ new.alone = request[r].alone
        /\ new.cfg = request[r].cfg /\ new.got = stored /\ stored \in Configs
    BY <1>1, <1>3 DEF Asking, RequestsValid
  <2> HIDE DEF new
  <2>3. request'[r] = new /\ \A q \in Requests : q # r => request'[q] = request[q]
    BY <1>1, <2>1 DEF RequestsValid
  <2>4. RequestsValid'
    <3>1. request' = [q \in Requests |-> request'[q]] BY <1>1, <2>1 DEF RequestsValid
    <3>2. \A q \in Requests : request'[q] # Resting =>
            request'[q] \in Asking /\ (request'[q].pc = "restart" => request'[q].got \in Configs)
      BY <1>1, <2>2, <2>3 DEF RequestsValid
    <3> QED BY <1>1, <2>1, <3>1, <3>2 DEF RequestsValid, Configs
  <2>5. AloneApplies'
    <3>1. ASSUME NEW q \in Requests, request'[q] # Resting, request'[q].alone
          PROVE  /\ \A p \in Requests : p # q => request'[p] = Resting
                 /\ request'[q].pc # "save" => stored' = request'[q].cfg
                 /\ request'[q].pc = "restart" => request'[q].got = request'[q].cfg
      <4>1. q = r BY <1>1, <1>2, <2>3, <3>1 DEF AloneApplies
      <4> QED BY <1>1, <1>2, <2>1, <2>2, <2>3, <3>1, <4>1 DEF AloneApplies
    <3> QED BY <1>5, <2>1, <3>1 DEF AloneApplies
  <2> QED BY <1>4, <2>4, <2>5 DEF RunnerInv
<1>8. CASE GracefulRestart(r)
  <2>1. /\ request[r].pc = "restart" /\ runner' = request[r].got /\ UNCHANGED <<stored, presets>>
        /\ applied' = (IF request[r].alone THEN request[r].cfg ELSE <<>>)
        /\ request' = [request EXCEPT ![r] = Resting]
    BY <1>8 DEF GracefulRestart
  <2>2. request'[r] = Resting /\ \A q \in Requests : q # r => request'[q] = request[q]
    BY <1>1, <2>1 DEF RequestsValid
  <2>3. RequestsValid'
    <3>1. request' = [q \in Requests |-> request'[q]] BY <1>1, <2>1 DEF RequestsValid
    <3>2. \A q \in Requests : request'[q] # Resting =>
            request'[q] \in Asking /\ (request'[q].pc = "restart" => request'[q].got \in Configs)
      BY <1>1, <2>2 DEF RequestsValid
    <3> QED BY <1>1, <1>3, <2>1, <3>1, <3>2 DEF RequestsValid, Configs
  <2>4. AloneApplies'
    <3>1. CASE request[r].alone
      <4>1. \A q \in Requests : request'[q] = Resting BY <1>1, <1>2, <2>2, <3>1 DEF AloneApplies
      <4>2. stored = request[r].cfg /\ request[r].got = request[r].cfg
        BY <1>1, <1>2, <2>1, <3>1 DEF AloneApplies
      <4> QED BY <2>1, <3>1, <4>1, <4>2 DEF AloneApplies
    <3>2. CASE ~request[r].alone
      <4>1. applied' = <<>> BY <2>1, <3>2
      <4>2. \A q \in Requests : request[q] # Resting /\ q # r => ~request[q].alone
        BY <1>1, <1>2 DEF AloneApplies
      <4>3. \A q \in Requests : request'[q] # Resting => ~request'[q].alone BY <2>2, <4>2
      <4> QED BY <4>1, <4>3 DEF AloneApplies
    <3> QED BY <3>1, <3>2
  <2> QED BY <1>4, <2>3, <2>4 DEF RunnerInv
<1> QED BY <1>6, <1>7, <1>8

(* A preset is validated as it is, or with one symbol if it has none.       *)
LEMMA PresetSteps ==
  ASSUME RunnerInv,
         \/ \E c \in ConfigBodies : c # <<>> /\ SavePreset(c[1])
         \/ \E s \in presets : DeletePreset(s)
  PROVE  RunnerInv'
<1>1. RequestsValid /\ AloneApplies /\ PresetsLackSymbols BY DEF RunnerInv
<1>2. UNCHANGED <<stored, runner, request, applied>> BY DEF SavePreset, DeletePreset
<1>3. RequestsValid' /\ AloneApplies' BY <1>1, <1>2 DEF RequestsValid, AloneApplies, Configs
<1>4. ASSUME NEW c \in ConfigBodies, c # <<>>, SavePreset(c[1]) PROVE PresetsLackSymbols'
  <2> DEFINE s == c[1]
  <2> DEFINE t == [s EXCEPT !.symbols = IF s.symbols = 0 THEN 1 ELSE s.symbols]
  <2>1. s = [id |-> s.id, params |-> s.params, symbols |-> s.symbols]
    BY <1>4, SettingsAssumption
  <2>2. presets' = presets \cup {s} /\ ValidateConfig(<<t>>) BY <1>4 DEF SavePreset
  <2>3. s.symbols # 0 => t = s
    <3>1. PICK a, b, n : s = [id |-> a, params |-> b, symbols |-> n] BY <2>1
    <3> HIDE DEF s
    <3> QED BY <3>1
  <2>4. ValidStrategy(t)
    <3>1. 1 \in DOMAIN <<t>> /\ <<t>>[1] = t OBVIOUS
    <3> HIDE DEF t
    <3> QED BY <2>2, <3>1 DEF ValidateConfig
  <2> HIDE DEF s, t
  <2> QED BY <1>1, <2>2, <2>3, <2>4 DEF PresetsLackSymbols
<1>5. ASSUME NEW s \in presets, DeletePreset(s) PROVE PresetsLackSymbols'
  BY <1>1, <1>5 DEF DeletePreset, PresetsLackSymbols
<1> QED BY <1>3, <1>4, <1>5 DEF RunnerInv

(* The runner has a valid configuration, its own when nobody interfered     *)
(* (config/strategies.js, routes/config.js).                               *)
THEOREM RunnerStaysValid == SettingsSpec => []RunnerIsValid
<1>1. InitSettings => RunnerInv
  <2> SUFFICES ASSUME InitSettings PROVE RunnerInv OBVIOUS
  <2>1. /\ stored \in Configs /\ runner = <<>> /\ presets = {} /\ applied = <<>>
        /\ request = [r \in Requests |-> Resting]
    BY DEF InitSettings, Configs
  <2>2. \A r \in Requests : request[r] = Resting BY <2>1
  <2>3. request = [r \in Requests |-> request[r]] BY <2>1
  <2> QED BY <2>1, <2>2, <2>3 DEF RunnerInv, RequestsValid, AloneApplies, PresetsLackSymbols
<1>2. RunnerInv /\ [NextSettings]_settingsVars => RunnerInv'
  <2> SUFFICES ASSUME RunnerInv, [NextSettings]_settingsVars PROVE RunnerInv' OBVIOUS
  <2>1. CASE UNCHANGED strategyVars
    BY <2>1 DEF strategyVars, RunnerInv, RequestsValid, AloneApplies, PresetsLackSymbols, Configs
  <2>2. CASE ServerDies
    <3>1. request' = [r \in Requests |-> Resting] /\ runner' = <<>> /\ applied' = <<>>
          /\ UNCHANGED <<stored, presets>>
      BY <2>2 DEF ServerDies
    <3>2. \A r \in Requests : request'[r] = Resting BY <3>1
    <3>3. request' = [r \in Requests |-> request'[r]] BY <3>1
    <3> QED BY <3>1, <3>2, <3>3
        DEF RunnerInv, RequestsValid, AloneApplies, PresetsLackSymbols, Configs
  <2>3. ASSUME NEW p, (\E b : ReadSettings(p, b)) \/ OpenFile(p) \/ WriteFile(p)
        PROVE  UNCHANGED strategyVars
    BY <2>3 DEF ReadSettings, OpenFile, WriteFile
  <2>4. WriteBest \/ TickReads \/ UNCHANGED settingsVars => UNCHANGED strategyVars
    BY DEF WriteBest, TickReads, settingsVars, strategyVars
  <2>5. CASE NextSettings
    BY <2>1, <2>2, <2>3, <2>4, <2>5, PutStep, RequestSteps, PresetSteps DEF NextSettings
  <2> QED BY <2>1, <2>4, <2>5
<1>3. RunnerInv => RunnerIsValid
  BY DEF RunnerInv, RunnerIsValid, RequestsValid, AloneApplies, PresetsLackSymbols, Configs
<1> QED BY <1>1, <1>2, <1>3, PTL DEF SettingsSpec

-----------------------------------------------------------------------------
(* What the panel shows.                                                    *)

(* Jobs anybody names.                                                      *)
Ids == Jobs \cup UNION {Range(p.jobs) : p \in Payloads}
Chosen == [jobs : Seq(Ids), baseline : BOOLEAN, align : BOOLEAN, inline : BOOLEAN]
Asked == [kind : {"apply", "set", "inline"}, jobs : Seq(Ids), baseline : BOOLEAN,
          align : BOOLEAN, inline : BOOLEAN, empty : BOOLEAN, landed : Int]

PanelTypes ==
  /\ selected \in Seq(Ids) /\ controls \in [baseline : BOOLEAN, align : BOOLEAN]
  /\ flights \in Seq(Asked)
  /\ \A t \in DOMAIN shares : shares[t] \in Chosen
  /\ \A i \in DOMAIN sets : sets[i] = [payload |-> sets[i].payload, token |-> sets[i].token]
                            /\ sets[i].payload \in Chosen
  /\ chart = [base |-> chart.base, items |-> chart.items, inline |-> chart.inline, of |-> chart.of]

(* The answer shown in the table is in the chart, unless there is nothing to draw of it. *)
TableInv ==
  stats.of # 0 =>
    /\ stats.of \in 1..Len(flights)
    /\ chart.of = stats.of \/ Items(flights[stats.of]) = <<>>
    /\ Filled \subseteq Range(Items(flights[stats.of]))

(* The chart has an answer that came, and the whole of it. *)
ChartInv ==
  chart.of # 0 =>
    /\ chart.of \in 1..Len(flights) /\ flights[chart.of].landed > 0
    /\ Shows(chart, flights[chart.of])

(* No answer that could be drawn came after that of the chart. *)
OrderInv ==
  /\ answers \in Nat /\ cleared \in Nat
  /\ \A n \in 1..Len(flights) :
       /\ flights[n].landed <= answers
       /\ HasPicture(flights[n]) /\ flights[n].landed > cleared =>
            chart.of # 0 /\ flights[n].landed <= flights[chart.of].landed

(* A request that nothing crossed is the only one under way, and its jobs are still the
   selection; answered, it is what the page shows. *)
AloneInv ==
  alone # 0 =>
    /\ alone \in 1..Len(flights)
    /\ \A n \in 1..Len(flights) : n # alone => flights[n].landed # 0
    /\ flights[alone].landed = 0 /\ flights[alone].kind # "inline" => flights[alone].jobs = selected

Shown(f) == Items(f) # <<>> => Shows(chart, f) /\ Filled = Range(Items(f))

ShownInv == alone # 0 /\ flights[alone].landed # 0 => Shown(flights[alone])

PanelInv == PanelTypes /\ TableInv /\ ChartInv /\ OrderInv /\ AloneInv /\ ShownInv

LEMMA PayloadsChosen ==
  /\ \A p \in Payloads : p \in Chosen
  /\ NoPayload \in Chosen
<1>1. ASSUME NEW p \in Payloads PROVE p \in Chosen
  <2>1. /\ p \in [jobs : {p.jobs}, baseline : BOOLEAN, align : BOOLEAN, inline : BOOLEAN]
        /\ p.jobs \in Seq(Range(p.jobs))
    BY OverlayPanelAssumption
  <2>2. Range(p.jobs) \subseteq Ids BY DEF Ids
  <2>3. p.jobs \in Seq(Ids)
    <3>1. p.jobs \in [1..Len(p.jobs) -> Range(p.jobs)] /\ Len(p.jobs) \in Nat
      BY <2>1, LenProperties
    <3>2. p.jobs \in [1..Len(p.jobs) -> Ids] BY <2>2, <3>1
    <3> QED BY <3>1, <3>2, IsASeq
  <2> QED BY <2>1, <2>3 DEF Chosen
<1>2. NoPayload \in Chosen
  <2>1. <<>> \in Seq(Ids) OBVIOUS
  <2> QED BY <2>1 DEF NoPayload, Chosen
<1> QED BY <1>1, <1>2

LEMMA PickIs ==
  ASSUME NEW s \in Seq(Ids), NEW n \in Nat
  PROVE  /\ Pick(s, n) \in Seq(Ids) /\ Range(Pick(s, n)) \subseteq Range(s)
         /\ s = <<>> => Pick(s, n) = <<>>
<1> DEFINE k == IF Len(s) < n THEN Len(s) ELSE n
<1>1. k \in 0..Len(s) /\ Len(s) \in Nat OBVIOUS
<1>2. Pick(s, n) = SubSeq(s, 1, k) BY DEF Pick
<1> HIDE DEF k
<1>3. /\ SubSeq(s, 1, k) \in Seq(Ids) /\ Len(SubSeq(s, 1, k)) = k
      /\ \A i \in 1..k : SubSeq(s, 1, k)[i] = s[i]
  BY <1>1
<1>4. Range(SubSeq(s, 1, k)) \subseteq Range(s)
  <2>1. DOMAIN SubSeq(s, 1, k) = 1..k /\ 1..k \subseteq DOMAIN s BY <1>1, <1>3
  <2> QED BY <1>3, <2>1 DEF Range
<1>5. s = <<>> => k = 0 BY <1>1
<1>6. k = 0 => SubSeq(s, 1, k) = <<>> BY <1>3
<1> QED BY <1>2, <1>3, <1>4, <1>5, <1>6

(* An answer has jobs that were asked for.                                  *)
LEMMA ItemsAre ==
  ASSUME NEW f, f.jobs \in Seq(Ids)
  PROVE  /\ Range(Items(f)) \subseteq Range(f.jobs)
         /\ f.jobs = <<>> => Items(f) = <<>>
<1> DEFINE s == Pick(f.jobs, MaxOverlays)
<1>1. MaxOverlays \in Nat BY OverlayPanelAssumption
<1>2. s \in Seq(Ids) /\ Range(s) \subseteq Range(f.jobs) /\ (f.jobs = <<>> => s = <<>>)
  BY <1>1, PickIs
<1> HIDE DEF s
<1>3. /\ Only(s, WithCurve) \in Seq(Ids)
      /\ \A i \in 1..Len(Only(s, WithCurve)) :
           Only(s, WithCurve)[i] \in WithCurve /\ \E k \in 1..Len(s) : Only(s, WithCurve)[i] = s[k]
  BY <1>2, OnlyHas
<1>4. Range(Only(s, WithCurve)) \subseteq Range(s)
  <2>1. DOMAIN s = 1..Len(s) /\ DOMAIN Only(s, WithCurve) = 1..Len(Only(s, WithCurve))
    BY <1>2, <1>3
  <2> QED BY <1>3, <2>1 DEF Range
<1>5. s = <<>> => Only(s, WithCurve) = <<>>
  <2> SUFFICES ASSUME s = <<>> PROVE Only(s, WithCurve) = <<>> OBVIOUS
  <2>1. Len(s) = 0 OBVIOUS
  <2>2. ~\E i \in 1..Len(Only(s, WithCurve)) : TRUE BY <1>3, <2>1
  <2>3. Len(Only(s, WithCurve)) \in Nat BY <1>3
  <2>4. Len(Only(s, WithCurve)) = 0 BY <2>2, <2>3
  <2> QED BY <1>3, <2>4
<1> QED BY <1>2, <1>4, <1>5 DEF Items, s

LEMMA LandsIs ==
  ASSUME flights \in Seq(Asked), NEW n \in 1..Len(flights), NEW k \in Int
  PROVE  /\ Lands(n, k) \in Seq(Asked) /\ Len(Lands(n, k)) = Len(flights)
         /\ Lands(n, k)[n].landed = k
         /\ \A m \in 1..Len(flights) : m # n => Lands(n, k)[m] = flights[m]
         /\ \A m \in 1..Len(flights) :
              /\ Items(Lands(n, k)[m]) = Items(flights[m]) /\ Base(Lands(n, k)[m]) = Base(flights[m])
              /\ HasPicture(Lands(n, k)[m]) = HasPicture(flights[m])
              /\ Lands(n, k)[m].kind = flights[m].kind /\ Lands(n, k)[m].jobs = flights[m].jobs
<1> DEFINE new == [flights[n] EXCEPT !.landed = k]
<1>1. flights[n] \in Asked OBVIOUS
<1>2. new \in Asked /\ new.landed = k /\ new.kind = flights[n].kind /\ new.jobs = flights[n].jobs
      /\ new.baseline = flights[n].baseline /\ new.empty = flights[n].empty
      /\ new.align = flights[n].align
  BY <1>1 DEF Asked
<1>3. Items(new) = Items(flights[n]) /\ Base(new) = Base(flights[n])
  BY <1>2 DEF Items, Base
<1>4. Lands(n, k) = [flights EXCEPT ![n] = new] BY DEF Lands
<1> HIDE DEF new
<1>5. HasPicture(new) = HasPicture(flights[n]) BY <1>2, <1>3 DEF HasPicture
<1>6. /\ Lands(n, k) \in Seq(Asked) /\ Len(Lands(n, k)) = Len(flights) /\ Lands(n, k)[n] = new
      /\ \A m \in 1..Len(flights) : m # n => Lands(n, k)[m] = flights[m]
  BY <1>2, <1>4
<1> QED BY <1>2, <1>3, <1>5, <1>6

(* A request is sent: it is alone if nothing else is under way, and not yet answered. *)
LEMMA FetchStep ==
  ASSUME PanelInv, NEW kind \in {"apply", "set", "inline"}, NEW p \in Chosen, Fetch(kind, p),
         selected' \in Seq(Ids), kind # "inline" => selected' = p.jobs,
         UNCHANGED <<chart, stats>>,
         controls' \in [baseline : BOOLEAN, align : BOOLEAN], UNCHANGED <<sets, shares>>
  PROVE  PanelInv'
<1>1. PICK empty \in BOOLEAN : flights' = Append(flights, Request(kind, p, empty)) BY DEF Fetch
<1> DEFINE n == Len(flights)
<1> DEFINE new == Request(kind, p, empty)
<1>2. new \in Asked /\ new.landed = 0 /\ new.kind = kind /\ new.jobs = p.jobs
  BY DEF Request, Asked, Chosen
<1> HIDE DEF new
<1>3. flights \in Seq(Asked) /\ n \in Nat BY DEF PanelInv, PanelTypes
<1>4. /\ flights' \in Seq(Asked) /\ Len(flights') = n + 1 /\ flights'[n + 1] = new
      /\ \A m \in 1..n : flights'[m] = flights[m]
  BY <1>1, <1>2, <1>3 DEF new
<1> HIDE DEF n
<1>5. PanelTypes' BY <1>4 DEF PanelInv, PanelTypes
<1>f. UNCHANGED <<answers, cleared>> BY DEF Fetch
<1>6. TableInv'
  <2> SUFFICES ASSUME stats'.of # 0
               PROVE  /\ stats'.of \in 1..Len(flights')
                      /\ chart'.of = stats'.of \/ Items(flights'[stats'.of]) = <<>>
                      /\ Filled' \subseteq Range(Items(flights'[stats'.of]))
    BY DEF TableInv
  <2>1. stats.of \in 1..n /\ (chart.of = stats.of \/ Items(flights[stats.of]) = <<>>)
        /\ Filled' = Filled /\ Filled \subseteq Range(Items(flights[stats.of]))
    BY DEF PanelInv, TableInv, n, Filled
  <2>2. stats.of \in 1..(n + 1) /\ flights'[stats.of] = flights[stats.of] BY <1>3, <1>4, <2>1
  <2> QED BY <1>4, <2>1, <2>2
<1>c. ChartInv'
  <2> SUFFICES ASSUME chart'.of # 0
               PROVE  /\ chart'.of \in 1..Len(flights') /\ flights'[chart'.of].landed > 0
                      /\ Shows(chart', flights'[chart'.of])
    BY DEF ChartInv
  <2>1. chart.of \in 1..n /\ flights[chart.of].landed > 0 /\ Shows(chart, flights[chart.of])
    BY DEF PanelInv, ChartInv, n
  <2>2. chart.of \in 1..(n + 1) /\ flights'[chart.of] = flights[chart.of] BY <1>3, <1>4, <2>1
  <2> QED BY <1>4, <2>1, <2>2 DEF Shows
<1>o. OrderInv'
  <2> SUFFICES ASSUME NEW m \in 1..(n + 1)
               PROVE  /\ flights'[m].landed <= answers
                      /\ HasPicture(flights'[m]) /\ flights'[m].landed > cleared =>
                           chart.of # 0 /\ flights'[m].landed <= flights'[chart.of].landed
    BY <1>4, <1>f DEF PanelInv, OrderInv
  <2>1. answers \in Nat /\ cleared \in Nat BY DEF PanelInv, OrderInv
  <2>2. CASE m = n + 1 BY <1>2, <1>4, <2>1, <2>2
  <2>3. CASE m \in 1..n
    <3>1. /\ flights'[m] = flights[m] /\ flights[m].landed <= answers
          /\ HasPicture(flights[m]) /\ flights[m].landed > cleared =>
               chart.of # 0 /\ flights[m].landed <= flights[chart.of].landed
      BY <1>4, <2>3 DEF PanelInv, OrderInv, n
    <3>2. chart.of # 0 => flights'[chart.of] = flights[chart.of]
      BY <1>4 DEF PanelInv, ChartInv, n
    <3> QED BY <3>1, <3>2
  <2> QED BY <1>3, <2>2, <2>3
<1>7. alone' = 0 \/ (alone' = n + 1 /\ \A m \in 1..n : flights[m].landed # 0)
  <2>1. DOMAIN flights = 1..n BY <1>3 DEF n
  <2> QED BY <2>1 DEF Fetch, n
<1>8. AloneInv'
  <2> SUFFICES ASSUME alone' # 0
               PROVE  /\ alone' \in 1..Len(flights')
                      /\ \A m \in 1..Len(flights') : m # alone' => flights'[m].landed # 0
                      /\ flights'[alone'].kind # "inline" => flights'[alone'].jobs = selected'
    BY DEF AloneInv
  <2>1. \A m \in 1..(n + 1) : m # n + 1 => m \in 1..n BY <1>3
  <2>2. n + 1 \in 1..(n + 1) BY <1>3
  <2> QED BY <1>2, <1>4, <1>7, <2>1, <2>2
<1>9. ShownInv' BY <1>2, <1>4, <1>7 DEF ShownInv
<1> QED BY <1>5, <1>6, <1>8, <1>9, <1>c, <1>o DEF PanelInv

(* The page is as before, but for the request that is alone.               *)
LEMMA RowStep ==
  ASSUME PanelInv, UNCHANGED pageVars,
         \A t \in DOMAIN shares' : shares'[t] \in Chosen,
         \A i \in DOMAIN sets' : /\ sets'[i] = [payload |-> sets'[i].payload, token |-> sets'[i].token]
                                 /\ sets'[i].payload \in Chosen
  PROVE  PanelInv'
<1>1. UNCHANGED <<selected, controls, chart, remembered, stats, flights, answers, cleared, alone>>
  BY DEF pageVars
<1>2. PanelTypes' BY <1>1 DEF PanelInv, PanelTypes
<1>3. TableInv' /\ AloneInv' /\ ShownInv'
  BY <1>1 DEF PanelInv, TableInv, AloneInv, ShownInv, Shown, Shows, Filled
<1>4. ChartInv' /\ OrderInv' BY <1>1 DEF PanelInv, ChartInv, OrderInv, Shows
<1> QED BY <1>2, <1>3, <1>4 DEF PanelInv

LEMMA SanitizeIs == ASSUME NEW p \in Chosen PROVE SanitizePayload(p) \in Chosen
<1>1. MaxSetJobs \in Nat BY OverlayPanelAssumption
<1>2. p.jobs \in Seq(Ids) BY DEF Chosen
<1>3. Pick(p.jobs, MaxSetJobs) \in Seq(Ids) BY <1>1, <1>2, PickIs
<1>4. SanitizePayload(p) = [p EXCEPT !.jobs = Pick(p.jobs, MaxSetJobs)] BY DEF SanitizePayload
<1> HIDE DEF Pick
<1> QED BY <1>3, <1>4 DEF Chosen

(* Sets, shares and links leave the page alone.                             *)
LEMMA TableSteps ==
  ASSUME PanelInv,
         \/ \E id \in SetIds : \/ \E p \in Payloads : SaveSet(id, p) \/ UpdateSet(id, p)
                               \/ DeleteSet(id)
                               \/ \E t \in Tokens : ShareSet(id, t)
         \/ \E s \in sharing : WriteToken(s)
         \/ \E t \in Tokens : ShareUrl(t)
  PROVE  PanelInv'
<1> DEFINE RowOK(r) == r = [payload |-> r.payload, token |-> r.token] /\ r.payload \in Chosen
<1>1. /\ \A t \in DOMAIN shares : shares[t] \in Chosen
      /\ \A i \in DOMAIN sets : RowOK(sets[i])
  BY DEF PanelInv, PanelTypes
<1>2. UNCHANGED pageVars BY DEF SaveSet, UpdateSet, DeleteSet, ShareSet, WriteToken, ShareUrl
<1>3. ASSUME NEW id, NEW p \in Payloads, SaveSet(id, p) PROVE PanelInv'
  <2> DEFINE row == [payload |-> SanitizePayload(p), token |-> 0]
  <2>1. sets' = With(sets, id, row) /\ UNCHANGED shares BY <1>3 DEF SaveSet
  <2>2. SanitizePayload(p) \in Chosen BY PayloadsChosen, SanitizeIs
  <2>3. RowOK(row) BY <2>2
  <2> HIDE DEF row
  <2>4. DOMAIN sets' = DOMAIN sets \cup {id}
        /\ \A i \in DOMAIN sets' : sets'[i] = IF i = id THEN row ELSE sets[i]
    BY <2>1 DEF With
  <2>5. \A i \in DOMAIN sets' : RowOK(sets'[i])
    <3> HIDE DEF RowOK
    <3> QED BY <1>1, <2>3, <2>4
  <2> QED BY <1>1, <1>2, <2>1, <2>5, RowStep
<1>4. ASSUME NEW id, NEW p \in Payloads, UpdateSet(id, p) PROVE PanelInv'
  <2> DEFINE row == [sets[id] EXCEPT !.payload = SanitizePayload(p)]
  <2>1. id \in DOMAIN sets /\ sets' = [sets EXCEPT ![id] = row] /\ UNCHANGED shares
    BY <1>4 DEF UpdateSet
  <2>2. SanitizePayload(p) \in Chosen BY PayloadsChosen, SanitizeIs
  <2>3. RowOK(row)
    <3>1. sets[id] = [payload |-> sets[id].payload, token |-> sets[id].token] BY <1>1, <2>1
    <3>2. PICK a, t : sets[id] = [payload |-> a, token |-> t] BY <3>1
    <3>3. row = [payload |-> SanitizePayload(p), token |-> t] BY <3>2
    <3> QED BY <2>2, <3>3
  <2> HIDE DEF row
  <2>4. DOMAIN sets' = DOMAIN sets /\ sets'[id] = row
        /\ \A i \in DOMAIN sets : i # id => sets'[i] = sets[i]
    BY <2>1
  <2>5. \A i \in DOMAIN sets' : RowOK(sets'[i])
    <3> HIDE DEF RowOK
    <3> QED BY <1>1, <2>3, <2>4
  <2> QED BY <1>1, <1>2, <2>1, <2>5, RowStep
<1>5. ASSUME NEW id, DeleteSet(id) PROVE PanelInv'
  <2>1. sets' = [i \in DOMAIN sets \ {id} |-> sets[i]] /\ UNCHANGED shares BY <1>5 DEF DeleteSet
  <2>2. \A i \in DOMAIN sets' : RowOK(sets'[i]) BY <1>1, <2>1
  <2> QED BY <1>1, <1>2, <2>1, <2>2, RowStep
<1>6. ASSUME NEW id, NEW t, ShareSet(id, t) PROVE PanelInv'
  <2>1. UNCHANGED <<sets, shares>> BY <1>6 DEF ShareSet
  <2> QED BY <1>1, <1>2, <2>1, RowStep
<1>7. ASSUME NEW s, WriteToken(s) PROVE PanelInv'
  <2> DEFINE row == [sets[s[1]] EXCEPT !.token = s[2]]
  <2>1. /\ UNCHANGED shares
        /\ sets' = IF s[1] \in DOMAIN sets THEN [sets EXCEPT ![s[1]] = row] ELSE sets
    BY <1>7 DEF WriteToken
  <2>2. s[1] \in DOMAIN sets => RowOK(row)
    <3> SUFFICES ASSUME s[1] \in DOMAIN sets PROVE RowOK(row) OBVIOUS
    <3>1. RowOK(sets[s[1]]) BY <1>1
    <3>2. PICK a, t : sets[s[1]] = [payload |-> a, token |-> t] BY <3>1
    <3>3. row = [payload |-> a, token |-> s[2]] /\ a \in Chosen BY <3>1, <3>2
    <3> QED BY <3>3
  <2> HIDE DEF row
  <2>3. \A i \in DOMAIN sets' : RowOK(sets'[i]) BY <1>1, <2>1, <2>2
  <2> QED BY <1>1, <1>2, <2>1, <2>3, RowStep
<1>8. ASSUME NEW t, ShareUrl(t) PROVE PanelInv'
  <2>1. shares' = With(shares, t, Selection) /\ UNCHANGED sets BY <1>8 DEF ShareUrl
  <2>2. Selection \in Chosen BY DEF PanelInv, PanelTypes, Selection, Chosen
  <2>3. DOMAIN shares' = DOMAIN shares \cup {t}
        /\ \A u \in DOMAIN shares' : shares'[u] = IF u = t THEN Selection ELSE shares[u]
    BY <2>1 DEF With
  <2>4. \A u \in DOMAIN shares' : shares'[u] \in Chosen BY <1>1, <2>2, <2>3
  <2> QED BY <1>1, <1>2, <2>1, <2>4, RowStep
<1> QED BY <1>3, <1>4, <1>5, <1>6, <1>7, <1>8

LEMMA AskSteps ==
  ASSUME PanelInv, ApplyOverlays \/ LoadTopNInline \/ (\E p \in Payloads : ApplySavedSet(p))
                   \/ (\E t \in Tokens : OpenLink(t))
  PROVE  PanelInv'
<1>1. /\ selected \in Seq(Ids) /\ controls \in [baseline : BOOLEAN, align : BOOLEAN]
      /\ \A t \in DOMAIN shares : shares[t] \in Chosen
      /\ \A i \in DOMAIN sets : sets[i].payload \in Chosen
  BY DEF PanelInv, PanelTypes
<1>2. CASE ApplyOverlays
  <2>1. Fetch("apply", Selection) /\ UNCHANGED <<selected, controls, chart, stats, sets, shares>>
    BY <1>2 DEF ApplyOverlays, shareVars
  <2>2. Selection \in Chosen BY <1>1 DEF Selection, Chosen
  <2>3. Selection.jobs = selected BY DEF Selection
  <2> QED BY <1>1, <2>1, <2>2, <2>3, FetchStep
<1>3. CASE LoadTopNInline
  <2>1. Fetch("inline", NoPayload) /\ UNCHANGED <<selected, controls, chart, stats, sets, shares>>
    BY <1>3 DEF LoadTopNInline, shareVars
  <2> QED BY <1>1, <2>1, FetchStep, PayloadsChosen
<1>4. ASSUME NEW p \in Chosen, ApplyOverlaySet(p), UNCHANGED shareVars PROVE PanelInv'
  <2>1. /\ Fetch("set", p) /\ UNCHANGED <<chart, stats, sets, shares>> /\ selected' = p.jobs
        /\ controls' = [baseline |-> p.baseline, align |-> p.align]
    BY <1>4 DEF ApplyOverlaySet, shareVars
  <2>2. selected' \in Seq(Ids) /\ controls' \in [baseline : BOOLEAN, align : BOOLEAN]
    BY <2>1 DEF Chosen
  <2> QED BY <2>1, <2>2, FetchStep
<1>5. ASSUME NEW p \in Payloads, ApplySavedSet(p) PROVE PanelInv'
  <2>1. SanitizePayload(p) \in Chosen BY PayloadsChosen, SanitizeIs
  <2> QED BY <1>4, <1>5, <2>1 DEF ApplySavedSet
<1>6. ASSUME NEW t \in Tokens, OpenLink(t) PROVE PanelInv'
  <2>1. Resolve(t) \in Chosen
    <3> DEFINE owners == {i \in DOMAIN sets : sets[i].token = t}
    <3>1. owners # {} => sets[CHOOSE i \in owners : TRUE].payload \in Chosen BY <1>1
    <3> QED BY <1>1, <3>1, PayloadsChosen DEF Resolve
  <2> QED BY <1>4, <1>6, <2>1 DEF OpenLink
<1> QED BY <1>2, <1>3, <1>5, <1>6

LEMMA ClickSteps ==
  ASSUME PanelInv, ClearAll \/ (\E j \in Jobs : Toggle(j))
                   \/ (\E b, a \in BOOLEAN : ChangeControls(b, a))
  PROVE  PanelInv'
<1>1. CASE ClearAll
  <2>1. /\ selected' = <<>> /\ stats'.of = 0 /\ chart' = Blank /\ alone' = 0
        /\ cleared' = answers /\ UNCHANGED <<controls, flights, answers, sets, shares>>
    BY <1>1 DEF ClearAll, Crossed, shareVars
  <2>2. <<>> \in Seq(Ids) OBVIOUS
  <2>3. PanelTypes' BY <2>1, <2>2 DEF PanelInv, PanelTypes, Blank
  <2>4. OrderInv'
    <3>1. answers \in Nat /\ \A n \in 1..Len(flights) : flights[n].landed <= answers
      BY DEF PanelInv, OrderInv
    <3>2. \A n \in 1..Len(flights) : flights[n] \in Asked BY DEF PanelInv, PanelTypes
    <3>3. \A n \in 1..Len(flights) : ~(flights[n].landed > answers) BY <3>1, <3>2 DEF Asked
    <3> QED BY <2>1, <3>1, <3>3 DEF OrderInv
  <2>5. chart'.of = 0 BY <2>1 DEF Blank
  <2> QED BY <2>1, <2>3, <2>4, <2>5 DEF PanelInv, TableInv, ChartInv, AloneInv, ShownInv
<1>2. ASSUME NEW j \in Jobs, Toggle(j) PROVE PanelInv'
  <2>1. /\ alone' = 0
        /\ UNCHANGED <<controls, chart, stats, flights, answers, cleared, sets, shares>>
        /\ selected' = IF j \in Range(selected) THEN Only(selected, Range(selected) \ {j})
                       ELSE IF Len(selected) >= MaxOverlays THEN selected ELSE Append(selected, j)
    BY <1>2 DEF Toggle, Crossed, shareVars
  <2>2. selected \in Seq(Ids) /\ j \in Ids BY DEF PanelInv, PanelTypes, Ids
  <2>3. Only(selected, Range(selected) \ {j}) \in Seq(Ids) BY <2>2, OnlyHas
  <2>4. selected' \in Seq(Ids) BY <2>1, <2>2, <2>3
  <2>5. PanelTypes' BY <2>1, <2>4 DEF PanelInv, PanelTypes
  <2>6. TableInv' BY <2>1 DEF PanelInv, TableInv, Filled
  <2>7. ChartInv' /\ OrderInv' BY <2>1 DEF PanelInv, ChartInv, OrderInv, Shows
  <2> QED BY <2>1, <2>5, <2>6, <2>7 DEF PanelInv, AloneInv, ShownInv
<1>3. ASSUME NEW b \in BOOLEAN, NEW a \in BOOLEAN, ChangeControls(b, a) PROVE PanelInv'
  <2>1. /\ controls' = [baseline |-> b, align |-> a]
        /\ UNCHANGED <<selected, chart, stats, flights, answers, cleared, alone, sets, shares>>
    BY <1>3 DEF ChangeControls, shareVars
  <2>2. PanelTypes' BY <2>1 DEF PanelInv, PanelTypes
  <2>3. TableInv' /\ AloneInv' /\ ShownInv'
    BY <2>1 DEF PanelInv, TableInv, AloneInv, ShownInv, Shown, Shows, Filled
  <2>4. ChartInv' /\ OrderInv' BY <2>1 DEF PanelInv, ChartInv, OrderInv, Shows
  <2> QED BY <2>2, <2>3, <2>4 DEF PanelInv
<1> QED BY <1>1, <1>2, <1>3

(* An answer that is not drawn ends what was alone, or is of nothing.        *)
LEMMA LateSteps ==
  ASSUME PanelInv, NEW n \in DOMAIN flights, AnswerInline(n) \/ Fails(n)
  PROVE  PanelInv'
<1>0. flights \in Seq(Asked) /\ n \in 1..Len(flights) BY DEF PanelInv, PanelTypes
<1>1. /\ alone' = 0 /\ flights[n].landed = 0
      /\ UNCHANGED <<selected, controls, stats, cleared, sets, shares>>
  BY DEF AnswerInline, Fails, Crossed, shareVars
<1>2. chart' = chart \/ chart' = [chart EXCEPT !.inline = @ + 1] BY DEF AnswerInline, Fails
<1>a. answers \in Nat /\ cleared \in Nat BY DEF PanelInv, OrderInv
<1>b. PICK k \in Int : /\ flights' = Lands(n, k)
                       /\ \/ k = Failed /\ answers' = answers
                          \/ k = answers + 1 /\ answers' = answers + 1 /\ flights[n].kind = "inline"
  <2>1. Failed \in Int BY DEF Failed
  <2> QED BY <1>a, <2>1 DEF AnswerInline, Fails
<1>3. /\ flights' \in Seq(Asked) /\ Len(flights') = Len(flights) /\ flights'[n].landed = k
      /\ \A m \in 1..Len(flights) :
           /\ Items(flights'[m]) = Items(flights[m]) /\ Base(flights'[m]) = Base(flights[m])
           /\ HasPicture(flights'[m]) = HasPicture(flights[m])
           /\ m # n => flights'[m] = flights[m]
  BY <1>0, <1>b, LandsIs
<1>4. chart' = [base |-> chart'.base, items |-> chart'.items, inline |-> chart'.inline, of |-> chart'.of]
      /\ chart'.of = chart.of /\ chart'.base = chart.base /\ chart'.items = chart.items
  <2>1. PICK a, b, c, d : chart = [base |-> a, items |-> b, inline |-> c, of |-> d]
    BY DEF PanelInv, PanelTypes
  <2> QED BY <1>2, <2>1
<1>5. PanelTypes' BY <1>1, <1>3, <1>4 DEF PanelInv, PanelTypes
<1>6. TableInv' BY <1>1, <1>3, <1>4 DEF PanelInv, TableInv, Filled
<1>7. chart.of # 0 => chart.of # n /\ chart.of \in 1..Len(flights)
  BY <1>1 DEF PanelInv, ChartInv
<1>8. ChartInv'
  <2> SUFFICES ASSUME chart.of # 0
               PROVE  /\ chart.of \in 1..Len(flights') /\ flights'[chart.of].landed > 0
                      /\ Shows(chart', flights'[chart.of])
    BY <1>4 DEF ChartInv
  <2>1. flights'[chart.of] = flights[chart.of] /\ flights[chart.of].landed > 0
        /\ Shows(chart, flights[chart.of])
    BY <1>3, <1>7 DEF PanelInv, ChartInv
  <2> QED BY <1>3, <1>4, <1>7, <2>1 DEF Shows
<1>9. OrderInv'
  <2> SUFFICES ASSUME NEW m \in 1..Len(flights)
               PROVE  /\ flights'[m].landed <= answers'
                      /\ HasPicture(flights'[m]) /\ flights'[m].landed > cleared =>
                           chart.of # 0 /\ flights'[m].landed <= flights'[chart.of].landed
    BY <1>1, <1>3, <1>4, <1>a, <1>b DEF OrderInv
  <2>1. CASE m = n
    <3>1. flights'[n].landed <= answers' BY <1>3, <1>a, <1>b DEF Failed
    <3>2. ~(HasPicture(flights'[n]) /\ flights'[n].landed > cleared)
      BY <1>0, <1>3, <1>a, <1>b DEF Failed, HasPicture
    <3> QED BY <2>1, <3>1, <3>2
  <2>2. CASE m # n
    <3>1. /\ flights'[m] = flights[m] /\ flights[m].landed <= answers /\ flights[m].landed \in Int
          /\ HasPicture(flights[m]) /\ flights[m].landed > cleared =>
               chart.of # 0 /\ flights[m].landed <= flights[chart.of].landed
      <4>1. flights[m] \in Asked BY <1>0
      <4>2. flights[m].landed \in Int
        <5> HIDE DEF PanelInv
        <5> QED BY <4>1 DEF Asked
      <4> QED BY <1>3, <2>2, <4>2 DEF PanelInv, OrderInv
    <3>2. chart.of # 0 => flights'[chart.of] = flights[chart.of] BY <1>3, <1>7
    <3>3. answers <= answers' BY <1>a, <1>b
    <3>4. answers' \in Nat BY <1>a, <1>b
    <3> QED BY <1>a, <3>1, <3>2, <3>3, <3>4
  <2> QED BY <2>1, <2>2
<1> QED BY <1>1, <1>5, <1>6, <1>8, <1>9 DEF PanelInv, AloneInv, ShownInv

(* An answer is drawn in both places: in the chart if there is anything to draw. *)
LEMMA AnswerStep ==
  ASSUME PanelInv, NEW n \in DOMAIN flights, Answer(n)
  PROVE  PanelInv'
<1> DEFINE f == flights[n]
<1> DEFINE Void == f.kind = "apply" /\ Items(f) = <<>>
<1> DEFINE Same == f.align /\ Items(f) = <<>> /\ Base(f) = "none"
<1>0. flights \in Seq(Asked) /\ n \in 1..Len(flights) /\ Len(flights) \in Nat
  BY DEF PanelInv, PanelTypes
<1>a. f \in Asked BY <1>0
<1>b. f.landed = 0 /\ f.kind # "inline" BY DEF Answer
<1>1. f.kind \in {"apply", "set"} /\ f.jobs \in Seq(Ids)
  <2> HIDE DEF f
  <2> QED BY <1>a, <1>b DEF Asked
<1>2. answers' = answers + 1 /\ UNCHANGED <<selected, controls, cleared, sets, shares>>
  BY DEF Answer, shareVars
<1>c. answers \in Nat /\ cleared \in Nat BY DEF PanelInv, OrderInv
<1>3. /\ Len(flights') \in {Len(flights), Len(flights) + 1} /\ flights' \in Seq(Asked)
      /\ flights'[n].landed = answers + 1
      /\ \A m \in 1..Len(flights) : m # n => flights'[m] = flights[m]
      /\ \A m \in 1..Len(flights) :
           /\ Items(flights'[m]) = Items(flights[m]) /\ Base(flights'[m]) = Base(flights[m])
           /\ HasPicture(flights'[m]) = HasPicture(flights[m])
           /\ flights'[m].kind = flights[m].kind /\ flights'[m].jobs = flights[m].jobs
      /\ Len(flights') = Len(flights) + 1 =>
           flights'[Len(flights) + 1].landed = 0 /\ flights'[Len(flights) + 1].kind = "inline"
      /\ alone' = 0 \/ (alone' = alone /\ Len(flights') = Len(flights))
  <2> DEFINE L == Lands(n, answers + 1)
  <2> DEFINE r == Request("inline", NoPayload, FALSE)
  <2>0. answers + 1 \in Int BY <1>c
  <2>1. /\ L \in Seq(Asked) /\ Len(L) = Len(flights) /\ L[n].landed = answers + 1
        /\ \A m \in 1..Len(flights) : m # n => L[m] = flights[m]
        /\ \A m \in 1..Len(flights) :
             /\ Items(L[m]) = Items(flights[m]) /\ Base(L[m]) = Base(flights[m])
             /\ HasPicture(L[m]) = HasPicture(flights[m])
             /\ L[m].kind = flights[m].kind /\ L[m].jobs = flights[m].jobs
    BY <1>0, <2>0, LandsIs
  <2>2. r \in Asked /\ r.landed = 0 /\ r.kind = "inline"
    BY PayloadsChosen DEF Request, Asked, Chosen
  <2>3. (flights' = L /\ alone' = alone) \/ (flights' = Append(L, r) /\ alone' = 0)
    BY DEF Answer, Crossed
  <2> HIDE DEF L, r
  <2>4. CASE flights' = L /\ alone' = alone
    <3>1. Len(flights') # Len(flights) + 1 BY <1>0, <2>1, <2>4
    <3> QED BY <1>0, <2>1, <2>4, <3>1
  <2>5. CASE flights' = Append(L, r) /\ alone' = 0
    <3>1. /\ flights' \in Seq(Asked) /\ Len(flights') = Len(flights) + 1
          /\ flights'[Len(flights) + 1] = r
          /\ \A m \in 1..Len(flights) : flights'[m] = L[m]
      BY <2>1, <2>2, <2>5
    <3> QED BY <1>0, <2>1, <2>2, <2>5, <3>1
  <2> QED BY <2>3, <2>4, <2>5
<1> DEFINE N == Len(flights')
<1>4. N \in Nat /\ \A m \in 1..N : m \in 1..Len(flights) \/ (m = Len(flights) + 1 /\ N = Len(flights) + 1)
  BY <1>0, <1>3
<1>d. /\ ~Void => Render(n) /\ RenderStats(n)
      /\ Void => UNCHANGED <<chart, stats>>
  BY DEF Answer
<1>5. /\ Void \/ Same => chart' = chart
      /\ ~Void /\ ~Same => chart' = [base |-> Base(f), inline |-> 0, of |-> n,
                                   items |-> IF Base(f) = "empty" THEN <<>> ELSE Items(f)]
      /\ Void => stats' = stats
      /\ ~Void => (stats'.of = 0 \/ stats'.of = n)
  BY <1>d DEF Render, RenderStats
<1>6. HasPicture(f) <=> ~Void /\ ~Same
  <2>1. HasPicture(f) <=> Items(f) # <<>> \/ (f.kind = "set" /\ (~f.align \/ Base(f) # "none"))
    BY <1>b DEF HasPicture
  <2> QED BY <1>1, <2>1
<1> HIDE DEF Void, Same
\* The chart is of this answer, or as it was.
<1>7. /\ HasPicture(f) => chart'.of = n /\ Shows(chart', f)
      /\ ~HasPicture(f) => chart' = chart
  BY <1>5, <1>6 DEF Shows
<1>8. \A m \in 1..Len(flights) : \A c : Shows(c, flights'[m]) <=> Shows(c, flights[m])
  BY <1>3 DEF Shows
<1>9. chart.of # 0 => chart.of # n /\ chart.of \in 1..Len(flights) /\ flights'[chart.of] = flights[chart.of]
  BY <1>3, <1>b DEF PanelInv, ChartInv
<1>10. PanelTypes'
  <2>1. chart' = [base |-> chart'.base, items |-> chart'.items, inline |-> chart'.inline,
                  of |-> chart'.of]
    BY <1>5 DEF PanelInv, PanelTypes
  <2> QED BY <1>2, <1>3, <2>1 DEF PanelInv, PanelTypes
<1>11. ~Void => Filled' \subseteq Range(Items(f))
  <2> SUFFICES ASSUME ~Void, NEW j \in Filled' PROVE j \in Range(Items(f)) OBVIOUS
  <2>1. PICK q \in Range(stats'.rows) : q[2] /\ q[1] = j BY DEF Filled
  <2>2. stats'.rows = <<>> \/ stats'.rows = [i \in DOMAIN selected |->
                                <<selected[i], selected[i] \in Range(Items(f))>>]
    BY <1>d DEF RenderStats
  <2>3. PICK i \in DOMAIN stats'.rows : q = stats'.rows[i] BY <2>1 DEF Range
  <2>4. stats'.rows # <<>> BY <2>3
  <2>5. q[1] = selected[i] /\ q[2] = (selected[i] \in Range(Items(f))) BY <2>2, <2>3, <2>4
  <2> QED BY <2>1, <2>5
<1>12. TableInv'
  <2> SUFFICES ASSUME stats'.of # 0
               PROVE  /\ stats'.of \in 1..N
                      /\ chart'.of = stats'.of \/ Items(flights'[stats'.of]) = <<>>
                      /\ Filled' \subseteq Range(Items(flights'[stats'.of]))
    BY DEF TableInv
  <2>1. CASE Void
    <3>1. stats' = stats /\ chart' = chart /\ Filled' = Filled BY <1>5, <2>1 DEF Filled
    <3>2. /\ stats.of \in 1..Len(flights)
          /\ chart.of = stats.of \/ Items(flights[stats.of]) = <<>>
          /\ Filled \subseteq Range(Items(flights[stats.of]))
      BY <3>1 DEF PanelInv, TableInv
    <3>3. stats.of \in 1..N BY <1>0, <1>3, <3>2
    <3> QED BY <1>3, <3>1, <3>2, <3>3
  <2>2. CASE ~Void
    <3>1. stats'.of = n BY <1>5, <2>2
    <3>2. n \in 1..N BY <1>0, <1>3
    <3>3. Items(f) # <<>> => HasPicture(f) BY <1>b DEF HasPicture
    <3>4. Items(flights'[n]) = Items(f) BY <1>0, <1>3
    <3> QED BY <1>7, <1>11, <2>2, <3>1, <3>2, <3>3, <3>4
  <2> QED BY <2>1, <2>2
<1>13. ChartInv'
  <2> SUFFICES ASSUME chart'.of # 0
               PROVE  /\ chart'.of \in 1..N /\ flights'[chart'.of].landed > 0
                      /\ Shows(chart', flights'[chart'.of])
    BY DEF ChartInv
  <2>1. CASE HasPicture(f)
    <3>1. n \in 1..N /\ answers + 1 > 0 BY <1>0, <1>3, <1>c
    <3> QED BY <1>0, <1>3, <1>7, <1>8, <2>1, <3>1
  <2>2. CASE ~HasPicture(f)
    <3>1. chart' = chart BY <1>7, <2>2
    <3>2. chart.of \in 1..Len(flights) /\ flights[chart.of].landed > 0
          /\ Shows(chart, flights[chart.of])
      BY <3>1 DEF PanelInv, ChartInv
    <3>3. chart.of \in 1..N BY <1>0, <1>3, <3>2
    <3> QED BY <1>9, <3>1, <3>2, <3>3
  <2> QED BY <2>1, <2>2
<1>14. OrderInv'
  <2> SUFFICES ASSUME NEW m \in 1..N
               PROVE  /\ flights'[m].landed <= answers + 1
                      /\ HasPicture(flights'[m]) /\ flights'[m].landed > cleared =>
                           chart'.of # 0 /\ flights'[m].landed <= flights'[chart'.of].landed
    <3>1. answers' \in Nat /\ cleared' \in Nat /\ answers' = answers + 1 /\ cleared' = cleared
      BY <1>2, <1>c
    <3> QED BY <3>1 DEF OrderInv
  <2>1. CASE m = Len(flights) + 1 /\ N = Len(flights) + 1
    <3>1. flights'[m].landed = 0 BY <1>3, <2>1
    <3> QED BY <1>c, <3>1
  <2>2. CASE m \in 1..Len(flights) /\ m # n
    <3>1. /\ flights'[m] = flights[m] /\ flights[m].landed <= answers
          /\ HasPicture(flights[m]) /\ flights[m].landed > cleared =>
               chart.of # 0 /\ flights[m].landed <= flights[chart.of].landed
      BY <1>3, <2>2 DEF PanelInv, OrderInv
    <3>2. flights[m].landed \in Int
      <4>1. flights[m] \in Asked BY <1>0, <2>2
      <4> QED BY <4>1 DEF Asked
    <3>3. CASE HasPicture(f)
      <4>1. chart'.of = n /\ n # 0 /\ flights'[n].landed = answers + 1 BY <1>0, <1>3, <1>7, <3>3
      <4> QED BY <1>c, <3>1, <3>2, <4>1
    <3>4. CASE ~HasPicture(f)
      <4>1. chart' = chart BY <1>7, <3>4
      <4> QED BY <1>9, <1>c, <3>1, <3>2, <4>1
    <3> QED BY <3>3, <3>4
  <2>3. CASE m = n
    <3>1. flights'[n].landed = answers + 1 /\ (HasPicture(flights'[n]) <=> HasPicture(f)) /\ n # 0
      BY <1>0, <1>3
    <3> QED BY <1>7, <1>c, <2>3, <3>1
  <2> QED BY <1>4, <2>1, <2>2, <2>3
<1>15. alone' # 0 => /\ alone' = n /\ alone = n /\ N = Len(flights) /\ f.jobs = selected
                     /\ \A m \in 1..Len(flights) : m # n => flights[m].landed # 0
  <2> SUFFICES ASSUME alone' # 0
               PROVE  alone = n /\ f.jobs = selected
                      /\ \A m \in 1..Len(flights) : m # n => flights[m].landed # 0
    BY <1>3
  <2>1. alone = alone' /\ alone # 0 BY <1>3
  <2>2. /\ \A m \in 1..Len(flights) : m # alone => flights[m].landed # 0
        /\ flights[alone].landed = 0 /\ flights[alone].kind # "inline" => flights[alone].jobs = selected
    BY <2>1 DEF PanelInv, AloneInv
  <2>3. alone = n BY <1>0, <1>b, <2>2
  <2> QED BY <1>b, <2>2, <2>3
<1>16. AloneInv'
  <2> SUFFICES ASSUME alone' # 0
               PROVE  /\ alone' \in 1..N
                      /\ \A m \in 1..N : m # alone' => flights'[m].landed # 0
                      /\ flights'[alone'].landed # 0
    BY DEF AloneInv
  <2>1. alone' = n /\ N = Len(flights) BY <1>15
  <2> QED BY <1>0, <1>3, <1>15, <1>c, <2>1
<1>17. ShownInv'
  <2> SUFFICES ASSUME alone' # 0, Items(flights'[alone']) # <<>>
               PROVE  Shows(chart', flights'[alone']) /\ Filled' = Range(Items(flights'[alone']))
    BY DEF ShownInv, Shown
  <2>1. alone' = n /\ f.jobs = selected /\ Items(flights'[n]) = Items(f) /\ Items(f) # <<>>
    BY <1>0, <1>3, <1>15
  <2>2. HasPicture(f) BY <1>b, <2>1 DEF HasPicture
  <2>3. Shows(chart', flights'[n]) BY <1>0, <1>7, <1>8, <2>2
  <2>4. Range(Items(f)) \subseteq Range(selected) /\ selected # <<>>
    BY <1>1, <2>1, ItemsAre
  <2>5. ~Void BY <1>6, <2>2
  <2>6. stats'.rows = [i \in DOMAIN selected |-> <<selected[i], selected[i] \in Range(Items(f))>>]
    BY <1>d, <2>4, <2>5 DEF RenderStats
  <2>7. ASSUME NEW j \in Range(Items(f)) PROVE j \in Filled'
    <3>1. PICK i \in DOMAIN selected : selected[i] = j BY <2>4 DEF Range
    <3>2. stats'.rows[i] \in Range(stats'.rows) BY <2>6 DEF Range
    <3>3. stats'.rows[i][1] = j /\ stats'.rows[i][2] = (j \in Range(Items(f))) BY <2>6, <3>1
    <3> QED BY <3>2, <3>3 DEF Filled
  <2>8. Filled' = Range(Items(f)) BY <1>11, <2>5, <2>7
  <2> QED BY <2>1, <2>3, <2>8
<1> QED BY <1>10, <1>12, <1>13, <1>14, <1>16, <1>17 DEF PanelInv

(* The table and the chart show one answer, the last to arrive, as it is, empty live
   baseline included, and a request that nothing crossed shows what was asked for
   (overlays.js, overview.js). *)
THEOREM PanelIsCoherent == PanelSpec => []PanelShowsOneAnswer
<1>1. InitPanel => PanelInv
  <2> SUFFICES ASSUME InitPanel PROVE PanelInv OBVIOUS
  <2>1. /\ selected = <<>> /\ flights = <<>> /\ sets = <<>> /\ shares = <<>> /\ alone = 0
        /\ stats.of = 0 /\ chart = Blank /\ controls = [baseline |-> FALSE, align |-> FALSE]
        /\ answers = 0 /\ cleared = 0
    BY DEF InitPanel
  <2>2. DOMAIN <<>> = {} /\ <<>> \in Seq(Ids) /\ <<>> \in Seq(Asked) OBVIOUS
  <2>3. PanelTypes BY <2>1, <2>2 DEF PanelTypes, Blank
  <2>4. Len(flights) = 0 BY <2>1
  <2>5. OrderInv BY <2>1, <2>4 DEF OrderInv
  <2>6. chart.of = 0 BY <2>1 DEF Blank
  <2> QED BY <2>1, <2>3, <2>5, <2>6 DEF PanelInv, TableInv, ChartInv, AloneInv, ShownInv
<1>2. PanelInv /\ [NextPanel]_panelVars => PanelInv'
  <2> SUFFICES ASSUME PanelInv, [NextPanel]_panelVars PROVE PanelInv' OBVIOUS
  <2>1. CASE UNCHANGED panelVars
    <3>1. UNCHANGED pageVars /\ UNCHANGED <<sets, shares>> BY <2>1 DEF panelVars, pageVars
    <3> QED BY <3>1, RowStep DEF PanelInv, PanelTypes
  <2>2. CASE NextPanel
    BY <2>2, TableSteps, AskSteps, ClickSteps, LateSteps, AnswerStep DEF NextPanel
  <2> QED BY <2>1, <2>2
<1>3. PanelInv => PanelShowsOneAnswer
  <2> SUFFICES ASSUME PanelInv PROVE PanelShowsOneAnswer OBVIOUS
  <2>1. DOMAIN flights = 1..Len(flights) BY DEF PanelInv, PanelTypes
  <2> QED BY <2>1 DEF PanelInv, TableInv, ChartInv, OrderInv, ShownInv, Shown, PanelShowsOneAnswer
<1> QED BY <1>1, <1>2, <1>3, PTL DEF PanelSpec

-----------------------------------------------------------------------------
(* The whole.  A behaviour of the services is a behaviour of each of them:   *)
(* a step is one of the part in focus, and changes nothing of the others.   *)

THEOREM PartsBehave ==
  Spec => /\ BacktestSpec /\ WalkSpec /\ SubsSpec /\ FeedSpec /\ SettingsSpec
          /\ CurveSpec /\ PanelSpec
<1>1. Init => /\ InitBacktest /\ InitWalk /\ InitSubs /\ InitFeed /\ InitSettings
              /\ InitCurves /\ InitPanel
  BY DEF Init
<1>2. [Next]_vars =>
        /\ [NextCandle]_series /\ [NextWalk]_walkVars /\ [NextSubs]_subVars
        /\ [NextFeed]_feedVars /\ [NextSettings]_settingsVars /\ [NextCurves]_curveVars
        /\ [NextPanel]_panelVars
  BY DEF Next, vars
<1> QED BY <1>1, <1>2, PTL
        DEF Spec, BacktestSpec, WalkSpec, SubsSpec, FeedSpec, SettingsSpec, CurveSpec,
            PanelSpec

(* What each part promises, it promises in the whole.                       *)
THEOREM PartsKeepPromises ==
  Spec => NoLookAhead /\
          []( /\ LossBounded /\ DrawdownIsLargestFall /\ DecisionsAgree
              /\ TestedOnUnseen /\ SearchFindsBest /\ ReportsAgree
              /\ RowsFollowEvents /\ InvitedHasPaid /\ HolesOnlyAtEdges /\ SignalsAreBacked
              /\ SettingsHold /\ RunnerIsValid /\ CurvesAlign /\ ReductionsKeepShape /\ StatisticsAgree
              /\ LinksLead /\ PanelShowsOneAnswer )
BY PartsBehave, NothingLooksAhead, StopsBoundLosses, DrawdownIsFound, LiveDecidesAsBacktest,
   FoldsAreApart, SearchEndsAtBest, FilesAgree,
   RowsFollow, InvitationsArePaid, PagingMakesNoHole, SignalsFollowCandles,
   SettingsStayInRange, RunnerStaysValid, CurvesLineUp, ReductionsKeep, StatisticsHold,
   LinksKeepLeading, PanelIsCoherent, PTL
=============================================================================
