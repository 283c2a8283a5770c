----------------------------- MODULE Subscribers -----------------------------
(***************************************************************************)
(* Payments: what the Stripe webhook (payments/stripe.js) makes of the      *)
(* events of a subscription, and the Telegram invitation that reads it      *)
(* (server.js, notify/telegram.js).  Stripe delivers an event at least once *)
(* and in no order, and two deliveries may be handled at once: an UPDATE     *)
(* that finds no row is followed by an INSERT, with an await between, which *)
(* the unique index on subscription_id refuses if a row came meanwhile.     *)
(***************************************************************************)
EXTENDS Integers, Sequences, SequencesExt

CONSTANTS
  Subs,             \* subscriptions, all of one customer and one e-mail address
  Hooks,            \* webhook requests handled at the same time
  MaxEvents,        \* bound: events Stripe raises per subscription
  DbFails           \* whether a statement may fail

VARIABLES
  raised,           \* raised[s]: the events of s, in the order they happened
  due,              \* <<s, n>>: event n of s is to be delivered (again)
  hook,             \* hook[h]: the request: event, and where its handler is
  rows,             \* subscribers, by id: [sub, email, status]
  cased,            \* the e-mail was typed in lower case
  invite,           \* GET /api/telegram-invite: "idle", "read" or "create"
  invited,          \* the subscriptions an invitation was made for
  newest,           \* history: newest[s], the latest event of s that was written
  late,             \* history: an event of s was written after a later one
  lost              \* history: the events of s whose statement failed or was refused

subVars == <<raised, due, hook, rows, cased, invite, invited, newest, late, lost>>

Kinds    == {"checkout", "updated", "deleted"}
Statuses == {"active", "trialing", "past_due", "canceled"}
Paying   == {"active", "trialing"}
Events   == [kind : Kinds, status : Statuses]
Deliveries == Subs \X (1..MaxEvents)

ASSUME SubscribersAssumption ==
  MaxEvents \in Nat /\ DbFails \in BOOLEAN /\ "idle" \notin Subs

NoHook == [pc |-> "idle"]

InitSubs ==
  /\ raised = [s \in Subs |-> <<>>] /\ due = {} /\ hook = [h \in Hooks |-> NoHook]
  /\ rows = <<>> /\ cased \in BOOLEAN /\ invite = "idle" /\ invited = {}
  /\ newest = [s \in Subs |-> 0] /\ late = [s \in Subs |-> FALSE] /\ lost = [s \in Subs |-> {}]

\* Stripe: a subscription is bought, changes its status, ends.
Raise(s, e) ==
  /\ Len(raised[s]) < MaxEvents
  /\ (raised[s] = <<>>) = (e.kind = "checkout")
  /\ raised[s] # <<>> => Last(raised[s]).kind # "deleted"
  /\ e.kind = "checkout" => e.status = "active"
  /\ (e.kind = "deleted") = (e.status = "canceled")
  /\ raised' = [raised EXCEPT ![s] = Append(@, e)]
  /\ due' = due \cup {<<s, Len(raised[s]) + 1>>}
  /\ UNCHANGED <<hook, rows, cased, invite, invited, newest, late, lost>>

\* A delivery arrives; its signature is good.
Deliver(h, d) ==
  /\ hook[h] = NoHook /\ d \in due
  /\ hook' = [hook EXCEPT ![h] =
       [pc |-> IF raised[d[1]][d[2]].kind = "checkout" THEN "retrieve" ELSE "update",
        sub |-> d[1], n |-> d[2]]]
  /\ UNCHANGED <<raised, due, rows, cased, invite, invited, newest, late, lost>>

At(h, pc)  == hook[h] # NoHook /\ hook[h].pc = pc
Status(h)  == raised[hook[h].sub][hook[h].n].status
RowsOf(s)  == {i \in DOMAIN rows : rows[i].sub = s}

\* What the history remembers of a write by h, and of an event of which none is left.
Wrote(h) ==
  LET s == hook[h].sub n == hook[h].n IN
  /\ newest' = [newest EXCEPT ![s] = IF n > @ THEN n ELSE @]
  /\ late' = [late EXCEPT ![s] = @ \/ n < newest[s]]
  /\ UNCHANGED lost

Lose(h) ==
  /\ lost' = [lost EXCEPT ![hook[h].sub] = @ \cup {hook[h].n}]
  /\ UNCHANGED <<rows, newest, late>>

\* The handler answers 200.  The answer may be lost: the event then stays due.
Acknowledge(h) ==
  /\ hook' = [hook EXCEPT ![h] = NoHook]
  /\ due' \in {due, due \ {<<hook[h].sub, hook[h].n>>}}

\* checkout.session.completed: the session is retrieved (no answer, no 200: it comes again).
Retrieve(h) ==
  /\ At(h, "retrieve")
  /\ \/ hook' = [hook EXCEPT ![h].pc = "checkout"]
     \/ hook' = [hook EXCEPT ![h] = NoHook]
  /\ UNCHANGED <<raised, due, rows, cased, invite, invited, newest, late, lost>>

\* INSERT: the key takes the first row of a subscription and refuses another, which is caught
\* and logged like any failing statement.
InsertRow(h, email) ==
  /\ IF RowsOf(hook[h].sub) = {}
     THEN /\ rows' = Append(rows, [sub |-> hook[h].sub, email |-> email, status |-> Status(h)])
          /\ Wrote(h)
     ELSE Lose(h)
  /\ Acknowledge(h)
  /\ UNCHANGED <<raised, cased, invite, invited>>

\* The row of a checkout, with the e-mail as the customer typed it.
InsertCheckout(h) == At(h, "checkout") /\ InsertRow(h, IF cased THEN "lower" ELSE "mixed")

\* Mutant: an UPDATE that finds no row is taken for done.
Update_Done(h) ==
  /\ At(h, "update")
  /\ IF RowsOf(hook[h].sub) = {}
     THEN UNCHANGED <<rows, newest, late, lost>>
     ELSE /\ rows' = [i \in DOMAIN rows |->
               IF rows[i].sub = hook[h].sub THEN [rows[i] EXCEPT !.status = Status(h)]
                                            ELSE rows[i]]
          /\ Wrote(h)
  /\ Acknowledge(h)
  /\ UNCHANGED <<raised, cased, invite, invited>>

\* UPDATE ... WHERE subscription_id: the row of the subscription, or none.
Update(h) ==
  /\ At(h, "update")
  /\ IF RowsOf(hook[h].sub) = {}
     THEN /\ hook' = [hook EXCEPT ![h].pc = "insert"]
          /\ UNCHANGED <<due, rows, newest, late, lost>>
     ELSE /\ rows' = [i \in DOMAIN rows |->
               IF rows[i].sub = hook[h].sub THEN [rows[i] EXCEPT !.status = Status(h)]
                                            ELSE rows[i]]
          /\ Wrote(h) /\ Acknowledge(h)
  /\ UNCHANGED <<raised, cased, invite, invited>>

\* rowCount = 0: a row without an e-mail.
InsertUpdate(h) == At(h, "insert") /\ InsertRow(h, "none")

\* A failing statement is logged, and the event is acknowledged all the same.
DbError(h) ==
  /\ DbFails /\ hook[h].pc \in {"checkout", "update", "insert"}
  /\ Lose(h) /\ Acknowledge(h)
  /\ UNCHANGED <<raised, cased, invite, invited>>

\* Mutant: a row without an e-mail is anybody's.
Mine_Nobodys == {i \in DOMAIN rows : rows[i].email \in {"lower", "none"}}

\* The e-mail of the request is put in lower case; the last row with it decides.
Mine == {i \in DOMAIN rows : rows[i].email = "lower"}

AskInvite ==
  /\ invite = "idle"
  /\ \E i \in Mine : /\ \A j \in Mine : j <= i
                   /\ rows[i].status \in Paying /\ invite' = rows[i].sub
  /\ UNCHANGED <<raised, due, hook, rows, cased, invited, newest, late, lost>>

CreateInvite ==
  /\ invite # "idle" /\ invite' = "idle"
  /\ \E made \in BOOLEAN : invited' = IF made THEN invited \cup {invite} ELSE invited
  /\ UNCHANGED <<raised, due, hook, rows, cased, newest, late, lost>>

Handle(h) == Retrieve(h) \/ InsertCheckout(h) \/ Update(h) \/ InsertUpdate(h)

NextSubs ==
  \/ \E s \in Subs, e \in Events : Raise(s, e)
  \/ \E h \in Hooks : Handle(h) \/ DbError(h) \/ \E d \in due : Deliver(h, d)
  \/ AskInvite \/ CreateInvite

SubsSpec == InitSubs /\ [][NextSubs]_subVars

(***************************************************************************)
(* Properties.                                                             *)
(***************************************************************************)

(* However often its events come and however they overlap: unless an event  *)
(* was written after a later one, the row of a subscription has the status  *)
(* of the latest event written; and an event that Stripe no longer owes was *)
(* written, or overtaken by a later one, or is lost: its statement failed,  *)
(* or the key refused its INSERT as another delivery had made the row.      *)
StatusFollows ==
  \A s \in Subs : ~late[s] =>
    \A i \in RowsOf(s) : rows[i].status = raised[s][newest[s]].status

NothingForgotten ==
  \A s \in Subs : \A n \in 1..Len(raised[s]) :
    <<s, n>> \in due \/ n <= newest[s] \/ n \in lost[s]

RowsFollowEvents == StatusFollows /\ NothingForgotten

(* Nobody is invited who has not subscribed: an invitation is for a          *)
(* subscription whose checkout came with the e-mail that asks, not for a row *)
(* that an update without an e-mail made, and of which an event was written *)
(* that says active or trialing.                                            *)
InvitedHasPaid ==
  \A s \in invited :
    /\ \E i \in RowsOf(s) : rows[i].email = "lower"
    /\ \E n \in 1..newest[s] : raised[s][n].status \in Paying
=============================================================================
