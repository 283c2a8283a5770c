-------------------------- MODULE UserStreamProofs --------------------------
(***************************************************************************)
(* Theorems about UserStream, for any number of overlapping calls and      *)
(* sockets.                                                                *)
(***************************************************************************)
EXTENDS UserStream, TLAPS

(* The types hold in every reachable state, and with them the range of the  *)
(* backoff index: _scheduleReconnect never leaves BACKOFF.                  *)
THEOREM TypeCorrect == Spec => []TypeOK
<1> USE UserStreamAssumption DEF TypeOK, LastBackoff
<1>1. Init => TypeOK
  <2> SUFFICES ASSUME Init PROVE TypeOK
    OBVIOUS
  <2>1. /\ key \in BOOLEAN
        /\ keepTimer \in BOOLEAN
        /\ recTimer \in BOOLEAN
        /\ stopped \in BOOLEAN
    BY Zenon DEF Init
  <2>2. backoff \in 0..LastBackoff
    BY SMT DEF Init
  <2>3. QED
    BY <2>1, <2>2 DEF Init
<1>2. TypeOK /\ [Next]_vars => TypeOK'
  <2> SUFFICES ASSUME TypeOK, [Next]_vars PROVE TypeOK'
    OBVIOUS
  <2> USE DEF Goes, svcVars, recVars, pastVars
  <2>1. ASSUME NEW c \in Calls, StartNeedsKey(c) \/ StartFails(c) PROVE TypeOK'
    BY <2>1 DEF StartNeedsKey, StartFails, Asks
  <2>2. ASSUME NEW c \in Calls, StartHasKey(c) \/ StartGetsKey(c) PROVE TypeOK'
    BY <2>2 DEF StartHasKey, StartGetsKey, Asks, Ensure, NewSocket
  <2>3. ASSUME NEW c \in Calls, KeepAlive(c) \/ KeptAlive(c) \/ KeepAliveFails(c)
        PROVE  TypeOK'
    BY <2>3 DEF KeepAlive, KeptAlive, KeepAliveFails
  <2>4. ASSUME NEW c \in Calls, ReconnectFires(c) \/ Reconnect(c) PROVE TypeOK'
    BY <2>4 DEF ReconnectFires, Reconnect, NewSocket
  <2>5. ASSUME NEW c \in Calls, ReconnectFails(c) PROVE TypeOK'
    BY <2>5 DEF ReconnectFails, Schedule
  <2>6. ASSUME NEW c \in Calls, Stop(c) PROVE TypeOK'
    BY <2>6 DEF Stop, Asks
  <2>7. ASSUME NEW c \in Calls, StopEnds(c) PROVE TypeOK'
    BY <2>7 DEF StopEnds
  <2>8. ASSUME NEW s \in Sockets, Opened(s) PROVE TypeOK'
    BY <2>8 DEF Opened
  <2>9. ASSUME NEW s \in Sockets, Closed(s) PROVE TypeOK'
    BY <2>9 DEF Closed, Schedule
  <2>10. CASE UNCHANGED vars
    BY <2>10 DEF vars
  <2>11. QED
    BY <2>1, <2>2, <2>3, <2>4, <2>5, <2>6, <2>7, <2>8, <2>9, <2>10
       DEF Next, Answered, Fails
<1>3. QED
  BY <1>1, <1>2, PTL DEF Spec

-----------------------------------------------------------------------------
(* Until the first stop nothing of the stream exists before both its key    *)
(* and its keep-alive timer do.                                             *)
Untouched ==
  /\ ~key
  /\ ~recTimer
  /\ ws = NoSocket
  /\ \A s \in Sockets : sock[s] = "closed"
  /\ \A c \in Calls : call[c] \in {"idle", "startKey"}

KeptInv ==
  /\ ~stopped => Untouched \/ (keepTimer /\ key)
  /\ \A c \in Calls : call[c] = "stopDelete" => stopped

(* A stream that was connected and never stopped has its key and keep-alive *)
(* timer, however start, keepAlive and reconnects overlap.                  *)
THEOREM KeyIsKept == Spec => []KeptWhileConnected
<1> USE UserStreamAssumption DEF TypeOK, KeptInv, Untouched
<1>1. Init => KeptInv
  BY DEF Init
<1>2. TypeOK /\ KeptInv /\ [Next]_vars => KeptInv'
  <2> SUFFICES ASSUME TypeOK, KeptInv, [Next]_vars PROVE KeptInv'
    OBVIOUS
  <2> USE DEF Goes, svcVars, recVars, pastVars
  <2>1. ASSUME NEW c \in Calls, StartNeedsKey(c) \/ StartFails(c) PROVE KeptInv'
    BY <2>1 DEF StartNeedsKey, StartFails, Asks
  <2>2. ASSUME NEW c \in Calls, StartHasKey(c) \/ StartGetsKey(c) PROVE KeptInv'
    BY <2>2 DEF StartHasKey, StartGetsKey, Asks, Ensure
  <2>3. ASSUME NEW c \in Calls, KeepAlive(c) \/ KeptAlive(c) \/ KeepAliveFails(c)
        PROVE  KeptInv'
    BY <2>3 DEF KeepAlive, KeptAlive, KeepAliveFails
  <2>4. ASSUME NEW c \in Calls, ReconnectFires(c) \/ Reconnect(c) PROVE KeptInv'
    BY <2>4 DEF ReconnectFires, Reconnect
  <2>5. ASSUME NEW c \in Calls, ReconnectFails(c) PROVE KeptInv'
    BY <2>5 DEF ReconnectFails, Schedule
  <2>6. ASSUME NEW c \in Calls, Stop(c) PROVE KeptInv'
    BY <2>6 DEF Stop, Asks
  <2>7. ASSUME NEW c \in Calls, StopEnds(c) PROVE KeptInv'
    BY <2>7 DEF StopEnds
  <2>8. ASSUME NEW s \in Sockets, Opened(s) PROVE KeptInv'
    BY <2>8 DEF Opened
  <2>9. ASSUME NEW s \in Sockets, Closed(s) PROVE KeptInv'
    BY <2>9 DEF Closed, Schedule
  <2>10. CASE UNCHANGED vars
    BY <2>10 DEF vars
  <2>11. QED
    BY <2>1, <2>2, <2>3, <2>4, <2>5, <2>6, <2>7, <2>8, <2>9, <2>10
       DEF Next, Answered, Fails
<1>3. KeptInv => KeptWhileConnected
  BY DEF KeptWhileConnected
<1>4. QED
  BY <1>1, <1>2, <1>3, TypeCorrect, PTL DEF Spec

-----------------------------------------------------------------------------
(* A stream that was connected and never stopped always has a socket, a     *)
(* pending reconnect or one under way: it is inductive as it stands.        *)
THEOREM StreamIsNeverStranded == Spec => []NeverStranded
<1> USE UserStreamAssumption DEF TypeOK, NeverStranded
<1>1. Init => NeverStranded
  BY DEF Init
<1>2. TypeOK /\ NeverStranded /\ [Next]_vars => NeverStranded'
  <2> SUFFICES ASSUME TypeOK, NeverStranded, [Next]_vars PROVE NeverStranded'
    OBVIOUS
  <2> USE DEF Goes, svcVars, recVars, pastVars
  <2>1. ASSUME NEW c \in Calls, StartNeedsKey(c) \/ StartFails(c) PROVE NeverStranded'
    BY <2>1 DEF StartNeedsKey, StartFails, Asks
  <2>2. ASSUME NEW c \in Calls, StartHasKey(c) \/ StartGetsKey(c) PROVE NeverStranded'
    <3>1. CASE WsOpen
      <4>1. sock' = sock /\ sock[ws] = "open" /\ ws \in Sockets
        BY <2>2, <3>1 DEF StartHasKey, StartGetsKey, Ensure, WsOpen
      <4>2. QED
        BY <4>1
    <3>2. CASE ~WsOpen
      <4>1. NewSocket
        BY <2>2, <3>2 DEF StartHasKey, StartGetsKey, Ensure
      <4>2. QED
        BY <4>1 DEF NewSocket
    <3>3. QED
      BY <3>1, <3>2
  <2>3. ASSUME NEW c \in Calls, KeepAlive(c) \/ KeptAlive(c) \/ KeepAliveFails(c)
        PROVE  NeverStranded'
    BY <2>3 DEF KeepAlive, KeptAlive, KeepAliveFails
  <2>4. ASSUME NEW c \in Calls, ReconnectFires(c) PROVE NeverStranded'
    BY <2>4 DEF ReconnectFires
  <2>5. ASSUME NEW c \in Calls, Reconnect(c) PROVE NeverStranded'
    BY <2>5 DEF Reconnect, NewSocket
  <2>6. ASSUME NEW c \in Calls, ReconnectFails(c) \/ Stop(c) PROVE NeverStranded'
    BY <2>6 DEF ReconnectFails, Schedule, Stop, Asks
  <2>7. ASSUME NEW c \in Calls, StopEnds(c) PROVE NeverStranded'
    BY <2>7 DEF StopEnds
  <2>8. ASSUME NEW s \in Sockets, Opened(s) PROVE NeverStranded'
    BY <2>8 DEF Opened
  <2>9. ASSUME NEW s \in Sockets, Closed(s) PROVE NeverStranded'
    BY <2>9 DEF Closed, Schedule
  <2>10. CASE UNCHANGED vars
    BY <2>10 DEF vars
  <2>11. QED
    BY <2>1, <2>2, <2>3, <2>4, <2>5, <2>6, <2>7, <2>8, <2>9, <2>10
       DEF Next, Answered, Fails
<1>3. QED
  BY <1>1, <1>2, TypeCorrect, PTL DEF Spec
=============================================================================
