----------------------------- MODULE UserStream -----------------------------
(***************************************************************************)
(* src/integrations/binance/userDataService.js: the connection of the      *)
(* user-data stream.                                                       *)
(*                                                                         *)
(* start, keepAlive and stop come from HTTP routes and from every client   *)
(* of /live/user-stream; keepAlive also from a timer.  Each awaits a call  *)
(* to the exchange, and nothing orders calls that overlap.  A socket that  *)
(* closes, whoever closed it, schedules a reconnect.  What the messages of *)
(* the stream contain is not modelled, nor is the value of the listen key. *)
(***************************************************************************)
EXTENDS Naturals, FiniteSets

CONSTANTS
  Calls,     \* slots for calls under way at the same time
  Sockets,   \* slots for sockets that are not closed yet
  NoSocket   \* this.ws is null

ASSUME UserStreamAssumption == NoSocket \notin Sockets

VARIABLES
  key,        \* this.listenKey is set
  ws,         \* this.ws, which may be a closed socket
  sock,       \* the readyState of each socket; "closed" slots are free
  keepTimer,  \* this.keepAliveTimer is set
  recTimer,   \* this.reconnectTimer is pending
  backoff,    \* this.backoffIdx
  call,       \* what each call awaits
  asked,      \* history: the last of start and stop that was called
  stopped     \* history: stop has been called

svcVars  == <<key, ws, sock, keepTimer>>
recVars  == <<recTimer, backoff>>
pastVars == <<asked, stopped>>
vars == <<svcVars, recVars, call, pastVars>>

LastBackoff == 4  \* the last index of BACKOFF

Init ==
  /\ key = FALSE
  /\ ws = NoSocket
  /\ sock = [s \in Sockets |-> "closed"]
  /\ keepTimer = FALSE
  /\ recTimer = FALSE
  /\ backoff = 0
  /\ call = [c \in Calls |-> "idle"]
  /\ asked = "none"
  /\ stopped = FALSE

-----------------------------------------------------------------------------
Goes(c, from, to) ==
  /\ call[c] = from
  /\ call' = [call EXCEPT ![c] = to]

(* new WebSocket; the slots of Sockets bound how many are open at once.     *)
NewSocket ==
  \E s \in Sockets :
    /\ sock[s] = "closed"
    /\ sock' = [sock EXCEPT ![s] = "connecting"]
    /\ ws' = s

WsOpen == ws # NoSocket /\ sock[ws] = "open"

(* What start does once there is a key.                                     *)
Ensure_NoTimer ==
  IF WsOpen THEN UNCHANGED <<ws, sock>> /\ keepTimer' = TRUE
            ELSE NewSocket /\ UNCHANGED keepTimer

Ensure ==
  /\ IF WsOpen THEN UNCHANGED <<ws, sock>> ELSE NewSocket
  /\ keepTimer' = TRUE

Schedule ==
  /\ recTimer' = TRUE
  /\ backoff' = IF backoff < LastBackoff THEN backoff + 1 ELSE backoff

-----------------------------------------------------------------------------
(* start.                                                                   *)

Asks(what) ==
  /\ asked' = what
  /\ stopped' = (stopped \/ what = "stop")

StartNeedsKey(c) ==
  /\ ~key
  /\ Goes(c, "idle", "startKey")
  /\ Asks("start")
  /\ UNCHANGED <<svcVars, recVars>>

StartHasKey(c) ==
  /\ key
  /\ Goes(c, "idle", "idle")
  /\ Asks("start")
  /\ Ensure
  /\ UNCHANGED <<key, recVars>>

StartGetsKey(c) ==
  /\ Goes(c, "startKey", "idle")
  /\ key' = TRUE
  /\ Ensure
  /\ UNCHANGED <<recVars, pastVars>>

StartFails(c) ==
  /\ Goes(c, "startKey", "idle")
  /\ UNCHANGED <<svcVars, recVars, pastVars>>

-----------------------------------------------------------------------------
(* keepAlive, by the timer or the route; without a key it returns at once.  *)

KeepAlive(c) ==
  /\ key
  /\ Goes(c, "idle", "keepAlive")
  /\ UNCHANGED <<svcVars, recVars, pastVars>>

KeptAlive(c) ==
  /\ Goes(c, "keepAlive", "idle")
  /\ UNCHANGED <<svcVars, recVars, pastVars>>

KeepAliveFails(c) ==
  /\ Goes(c, "keepAlive", "reconnect")
  /\ UNCHANGED <<svcVars, recVars, pastVars>>

-----------------------------------------------------------------------------
(* _reconnect.                                                              *)

ReconnectFires(c) ==
  /\ recTimer
  /\ Goes(c, "idle", "reconnect")
  /\ recTimer' = FALSE
  /\ UNCHANGED <<svcVars, backoff, pastVars>>

Reconnect(c) ==
  /\ Goes(c, "reconnect", "idle")
  /\ key' = TRUE
  /\ NewSocket
  /\ UNCHANGED <<keepTimer, recVars, pastVars>>

ReconnectFails_GivesUp(c) ==
  /\ Goes(c, "reconnect", "idle")
  /\ UNCHANGED <<svcVars, recVars, pastVars>>

ReconnectFails(c) ==
  /\ Goes(c, "reconnect", "idle")
  /\ Schedule
  /\ UNCHANGED <<svcVars, pastVars>>

-----------------------------------------------------------------------------
(* stop.  The handlers of the socket it closes stay registered.             *)

Stop(c) ==
  /\ Goes(c, "idle", IF key THEN "stopDelete" ELSE "idle")
  /\ Asks("stop")
  /\ keepTimer' = FALSE
  /\ recTimer' = FALSE
  /\ sock' = [s \in Sockets |->
                IF s = ws /\ sock[s] # "closed" THEN "closing" ELSE sock[s]]
  /\ ws' = NoSocket
  /\ UNCHANGED <<key, backoff>>

StopEnds(c) ==
  /\ Goes(c, "stopDelete", "idle")
  /\ key' = FALSE
  /\ UNCHANGED <<ws, sock, keepTimer, recVars, pastVars>>

-----------------------------------------------------------------------------
(* The events of a socket.                                                  *)

Opened(s) ==
  /\ sock[s] = "connecting"
  /\ sock' = [sock EXCEPT ![s] = "open"]
  /\ backoff' = 0
  /\ UNCHANGED <<key, ws, keepTimer, recTimer, call, pastVars>>

Closed(s) ==
  /\ sock[s] # "closed"
  /\ sock' = [sock EXCEPT ![s] = "closed"]
  /\ Schedule
  /\ UNCHANGED <<key, ws, keepTimer, call, pastVars>>

-----------------------------------------------------------------------------
Answered(c) ==
  StartGetsKey(c) \/ KeptAlive(c) \/ Reconnect(c) \/ StopEnds(c)

Fails(c) == StartFails(c) \/ KeepAliveFails(c) \/ ReconnectFails(c)

Next ==
  \/ \E c \in Calls :
       \/ StartNeedsKey(c) \/ StartHasKey(c) \/ KeepAlive(c) \/ Stop(c)
       \/ ReconnectFires(c) \/ Answered(c) \/ Fails(c)
  \/ \E s \in Sockets : Opened(s) \/ Closed(s)

Spec == Init /\ [][Next]_vars

(* Timers fire and calls end; the exchange does not refuse for ever: a call *)
(* made again and again is at last answered, and a socket opened.  A timer  *)
(* that is due needs a slot of Calls, which the program does not have, so   *)
(* its fairness is strong.                                                  *)
Fairness ==
  /\ SF_vars(\E c \in Calls : ReconnectFires(c))
  /\ \A c \in Calls : WF_vars(Answered(c) \/ Fails(c)) /\ SF_vars(Reconnect(c))
  /\ \A s \in Sockets : WF_vars(Opened(s) \/ Closed(s)) /\ SF_vars(Opened(s))

FairSpec == Spec /\ Fairness

-----------------------------------------------------------------------------
(* Types of the variables; the backoff index stays within BACKOFF.          *)
TypeOK ==
  /\ key \in BOOLEAN
  /\ ws \in Sockets \cup {NoSocket}
  /\ sock \in [Sockets -> {"closed", "connecting", "open", "closing"}]
  /\ keepTimer \in BOOLEAN
  /\ recTimer \in BOOLEAN
  /\ backoff \in 0..LastBackoff
  /\ call \in [Calls -> {"idle", "startKey", "keepAlive", "reconnect",
                         "stopDelete"}]
  /\ asked \in {"none", "start", "stop"}
  /\ stopped \in BOOLEAN

(* As long as stop has never been called, a stream that was once connected  *)
(* has a socket, a pending reconnect or one under way: no failure of the    *)
(* exchange, nor any overlap of start, keepAlive and the reconnect timer,   *)
(* leaves it with nothing that would bring it back.                         *)
NeverStranded ==
  ~stopped /\ ws # NoSocket =>
    \/ \E s \in Sockets : sock[s] # "closed"
    \/ recTimer
    \/ \E c \in Calls : call[c] = "reconnect"

(* As long as stop has never been called, a connected stream has its key    *)
(* kept alive (a reconnect after stop is one that has not).                 *)
KeptWhileConnected == ~stopped /\ ws # NoSocket => keepTimer /\ key

(* A started stream that loses its socket gets an open one again, unless    *)
(* stop is called.                                                          *)
StreamComesBack ==
  asked = "start" /\ ws # NoSocket
    ~> asked = "stop" \/ \E s \in Sockets : sock[s] = "open"

(* userDataService.js:105 reports the state stopped: after stop, with no    *)
(* start called, no socket is opened.                                       *)
StoppedStaysStopped ==
  [][asked = "stop" /\ asked' = "stop" =>
       \A s \in Sockets : sock[s] = "closed" => sock'[s] = "closed"]_vars
=============================================================================
