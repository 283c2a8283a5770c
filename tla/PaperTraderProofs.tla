-------------------------- MODULE PaperTraderProofs --------------------------
(***************************************************************************)
(* For any number of overlapping steps and handlers, and any limit: how    *)
(* far overlapping steps can exceed maxOpenTrades, and that the book only  *)
(* moves on.                                                               *)
(***************************************************************************)
EXTENDS PaperTrader, FiniteSetTheorems, TLAPS

(* Every variable keeps its type.                                           *)
THEOREM TypeCorrect == Spec => []TypeOK
<1> USE PaperTraderAssumption DEF TypeOK, Signals, Ids, bookVars, stepVars
<1>1. Init => TypeOK
  <2> SUFFICES ASSUME Init PROVE TypeOK
    OBVIOUS
  <2>1. running \in BOOLEAN /\ timer \in BOOLEAN
    BY DEF Init
  <2>2. QED BY <2>1 DEF Init
<1>2. TypeOK /\ [Next]_vars => TypeOK'
  <2> SUFFICES ASSUME TypeOK, [Next]_vars PROVE TypeOK'
    OBVIOUS
  <2>1. CASE Boot BY <2>1 DEF Boot, BootRead, BootArm, BootFails
  <2>2. ASSUME NEW h \in Handlers, Handle(h) PROVE TypeOK'
    <3>1. CASE StartUpdate(h) BY <3>1 DEF StartUpdate, At
    <3>2. CASE StartArm(h) BY <3>2 DEF StartArm, At
    <3>3. CASE StopUpdate(h) BY <3>3 DEF StopUpdate, At
    <3>4. CASE ResetCommit(h) BY <3>4 DEF ResetCommit, At
    <3>5. CASE Disarm(h) BY <3>5 DEF Disarm, At
    <3>6. QED BY <2>2, <3>1, <3>2, <3>3, <3>4, <3>5 DEF Handle
  <2>3. ASSUME NEW s \in Steps, Fire(s) PROVE TypeOK'
    BY <2>3 DEF Fire, Goto
  <2>4. ASSUME NEW s \in Steps, Advance(s) PROVE TypeOK'
    <3>1. CASE CheckRunning(s) BY <3>1 DEF CheckRunning, Goto
    <3>2. CASE TooFewCandles(s) BY <3>2 DEF TooFewCandles, Goto
    <3>3. ASSUME NEW sig \in Signals, Snapshot(s, sig) PROVE TypeOK'
      BY <3>3 DEF Snapshot, Goto, Open
    <3>4. CASE Buy(s) BY <3>4 DEF Buy, Goto
    <3>5. CASE Sell(s)
      <4>1. PICK p \in Ids : Close(p) BY <3>5 DEF Sell
      <4>2. /\ trade' \in [Ids -> {"none", "OPEN", "CLOSED", "deleted"}]
            /\ exits' \in [Ids -> Nat]
        BY <4>1 DEF Close
      <4>3. QED BY <3>5, <4>2 DEF Sell, Goto
    <3>6. CASE NoTrade(s) BY <3>6 DEF NoTrade, Goto
    <3>7. CASE LoadStops(s) BY <3>7 DEF LoadStops, Goto, Open
    <3>8. ASSUME NEW p \in Ids, VisitStop(s, p) PROVE TypeOK'
      <4>1. Close(p) \/ UNCHANGED <<trade, exits>>
        BY <3>8 DEF VisitStop
      <4>2. /\ trade' \in [Ids -> {"none", "OPEN", "CLOSED", "deleted"}]
            /\ exits' \in [Ids -> Nat]
        <5>1. CASE Close(p) BY <5>1 DEF Close
        <5>2. CASE UNCHANGED <<trade, exits>> BY <5>2
        <5>3. QED BY <4>1, <5>1, <5>2
      <4>3. seen' \in [Steps -> SUBSET Ids]
        BY <3>8 DEF VisitStop
      <4>4. QED BY <3>8, <4>2, <4>3 DEF VisitStop
    <3>9. CASE StepDone(s) BY <3>9 DEF StepDone, Goto
    <3>10. QED BY <2>4, <3>1, <3>2, <3>3, <3>4, <3>5, <3>6, <3>7, <3>8, <3>9
               DEF Advance
  <2>5. CASE CrashRestart BY <2>5 DEF CrashRestart
  <2>6. CASE UNCHANGED vars BY <2>6 DEF vars
  <2>7. QED BY <2>1, <2>2, <2>3, <2>4, <2>5, <2>6 DEF Next
<1>3. QED BY <1>1, <1>2, PTL DEF Spec

-----------------------------------------------------------------------------
LEMMA CountsAreNat ==
  /\ IsFiniteSet(Open) /\ Cardinality(Open) \in Nat
  /\ IsFiniteSet(Buying) /\ Cardinality(Buying) \in Nat
  /\ Cardinality(Buying) <= Cardinality(Steps)
  /\ Cardinality(Steps) \in Nat
<1>1. Open \subseteq 1..MaxInserts /\ Buying \subseteq Steps
  BY DEF Open, Ids, Buying
<1>2. IsFiniteSet(1..MaxInserts)
  BY FS_Interval, PaperTraderAssumption
<1>3. QED BY <1>1, <1>2, FS_Subset, FS_CardinalityType, PaperTraderAssumption

(* Neither set grows: the room that is taken does not grow either.          *)
LEMMA RoomShrinks ==
  ASSUME RoomReserved, Open' \subseteq Open, Buying' \subseteq Buying
  PROVE  RoomReserved'
<1>1. /\ Cardinality(Open') <= Cardinality(Open) /\ Cardinality(Open') \in Nat
      /\ Cardinality(Buying') <= Cardinality(Buying) /\ Cardinality(Buying') \in Nat
  BY CountsAreNat, FS_Subset, FS_CardinalityType
<1>2. QED BY <1>1, CountsAreNat, PaperTraderAssumption DEF RoomReserved

(* A step that goes elsewhere than to "trade" and keeps the snapshots of    *)
(* the others does not add to Buying.                                       *)
LEMMA LeavesBuying ==
  ASSUME TypeOK, NEW s \in Steps, NEW place, place # "trade", Goto(s, place),
         \A u \in Steps \ {s} : signal'[u] = signal[u] /\ seen'[u] = seen[u]
  PROVE  Buying' \subseteq Buying \ {s}
<1>1. pc' = [pc EXCEPT ![s] = place] /\ pc \in [Steps -> {"idle", "state", "positions", "trade", "stops", "loop"}]
  BY DEF Goto, TypeOK
<1>2. SUFFICES ASSUME NEW u \in Steps, pc'[u] = "trade", MayBuy(u)'
               PROVE  u \in Buying \ {s}
  BY DEF Buying
<1>3. u # s /\ pc[u] = "trade" BY <1>1, <1>2
<1>4. MayBuy(u) BY <1>2, <1>3 DEF MayBuy
<1>5. QED BY <1>3, <1>4 DEF Buying

(* closePosition opens nothing.                                             *)
LEMMA CloseOpensNothing ==
  ASSUME TypeOK, NEW p \in Ids, Close(p) \/ UNCHANGED <<trade, exits>>
  PROVE  Open' \subseteq Open
BY DEF Close, Open, TypeOK

LEMMA RoomInductive ==
  ASSUME TypeOK, RoomReserved, [Next]_vars PROVE RoomReserved'
<1> USE PaperTraderAssumption DEF bookVars, stepVars
<1>1. ASSUME UNCHANGED <<trade, pc, signal, seen>> PROVE RoomReserved'
  BY <1>1, RoomShrinks DEF Open, Buying, MayBuy
<1>2. CASE Boot BY <1>1, <1>2 DEF Boot, BootRead, BootArm, BootFails
<1>3. ASSUME NEW h \in Handlers, Handle(h) PROVE RoomReserved'
  <2>1. CASE ResetCommit(h)
    <3>1. Open' \subseteq Open /\ Buying' \subseteq Buying
      BY <2>1 DEF ResetCommit, Open, Buying, MayBuy
    <3>2. QED BY <3>1, RoomShrinks
  <2>2. QED BY <1>1, <1>3, <2>1 DEF Handle, StartUpdate, StartArm, StopUpdate, Disarm
<1>4. ASSUME NEW s \in Steps, Fire(s) PROVE RoomReserved'
  <2>1. Goto(s, "state") /\ UNCHANGED <<trade, signal, seen>> BY <1>4 DEF Fire
  <2>2. Open' \subseteq Open BY <2>1 DEF Open
  <2>3. QED BY <2>1, <2>2, LeavesBuying, RoomShrinks
<1>5. ASSUME NEW s \in Steps, Advance(s) PROVE RoomReserved'
  <2>1. ASSUME NEW place, place # "trade", Goto(s, place),
               UNCHANGED <<signal, seen>>, Open' \subseteq Open
        PROVE RoomReserved'
    BY <2>1, LeavesBuying, RoomShrinks
  <2>2. CASE CheckRunning(s) \/ TooFewCandles(s) \/ NoTrade(s) \/ StepDone(s)
    BY <2>1, <2>2 DEF CheckRunning, TooFewCandles, NoTrade, StepDone, Open
  <2>3. ASSUME NEW sig \in Signals, Snapshot(s, sig) PROVE RoomReserved'
    <3>1. /\ pc' = [pc EXCEPT ![s] = "trade"] /\ pc[s] = "positions"
          /\ signal' = [signal EXCEPT ![s] = sig]
          /\ seen' = [seen EXCEPT ![s] = Open]
          /\ trade' = trade
      BY <2>3 DEF Snapshot, Goto
    <3>2. Open' = Open BY <3>1 DEF Open
    <3>3. \A u \in Steps \ {s} : u \in Buying' <=> u \in Buying
      BY <3>1 DEF Buying, MayBuy, TypeOK
    <3>4. CASE s \in Buying'
      <4>1. Cardinality(Open) < MaxOpenTrades
        BY <3>1, <3>4 DEF Buying, MayBuy, TypeOK
      <4>2. Buying' \subseteq Steps BY DEF Buying
      <4>3. Cardinality(Buying') <= Cardinality(Steps) /\ Cardinality(Buying') \in Nat
        BY <4>2, FS_Subset, FS_CardinalityType
      <4>4. QED BY <3>2, <4>1, <4>3, CountsAreNat DEF RoomReserved
    <3>5. CASE s \notin Buying'
      <4>1. Buying' \subseteq Buying BY <3>3, <3>5 DEF Buying
      <4>2. QED BY <3>2, <4>1, RoomShrinks
    <3>6. QED BY <3>4, <3>5
  <2>4. CASE Buy(s)
    <3>1. /\ pc[s] = "trade" /\ MayBuy(s) /\ Goto(s, "stops")
          /\ nextId \in Ids /\ trade' = [trade EXCEPT ![nextId] = "OPEN"]
          /\ UNCHANGED <<signal, seen>>
      BY <2>4 DEF Buy
    <3>2. Buying' \subseteq Buying \ {s}
      BY <3>1, LeavesBuying
    <3>3. s \in Buying BY <3>1 DEF Buying
    <3>4. /\ Cardinality(Buying \ {s}) = Cardinality(Buying) - 1
          /\ IsFiniteSet(Buying \ {s})
      BY <3>3, CountsAreNat, FS_RemoveElement
    <3>5. Cardinality(Buying') <= Cardinality(Buying) - 1 /\ Cardinality(Buying') \in Nat
      BY <3>2, <3>4, FS_Subset, FS_CardinalityType
    <3>6. Open' \subseteq Open \cup {nextId}
      BY <3>1 DEF Open, TypeOK
    <3>7. /\ IsFiniteSet(Open \cup {nextId})
          /\ Cardinality(Open \cup {nextId}) <= Cardinality(Open) + 1
          /\ Cardinality(Open \cup {nextId}) \in Nat
      <4>1. IsFiniteSet(Open) /\ Cardinality(Open) \in Nat
        BY CountsAreNat
      <4>2. /\ IsFiniteSet(Open \cup {nextId})
            /\ Cardinality(Open \cup {nextId}) =
                 IF nextId \in Open THEN Cardinality(Open) ELSE Cardinality(Open) + 1
        BY <4>1, FS_AddElement
      <4>3. QED BY <4>1, <4>2
    <3>8. Cardinality(Open') <= Cardinality(Open) + 1 /\ Cardinality(Open') \in Nat
      BY <3>6, <3>7, FS_Subset, FS_CardinalityType
    <3>9. QED BY <3>5, <3>8, CountsAreNat DEF RoomReserved
  <2>5. CASE Sell(s)
    <3>1. PICK p \in Ids : Close(p) BY <2>5 DEF Sell
    <3>2. QED BY <2>1, <2>5, <3>1, CloseOpensNothing DEF Sell
  <2>6. CASE LoadStops(s)
    <3>1. /\ Goto(s, "loop") /\ UNCHANGED <<trade, signal>>
          /\ \A u \in Steps \ {s} : seen'[u] = seen[u]
      BY <2>6 DEF LoadStops, TypeOK
    <3>2. Open' \subseteq Open BY <3>1 DEF Open
    <3>3. QED BY <3>1, <3>2, LeavesBuying, RoomShrinks
  <2>7. ASSUME NEW p \in Ids, VisitStop(s, p) PROVE RoomReserved'
    <3>1. Open' \subseteq Open BY <2>7, CloseOpensNothing DEF VisitStop
    <3>2. Buying' \subseteq Buying
      BY <2>7 DEF VisitStop, Buying, MayBuy, TypeOK
    <3>3. QED BY <3>1, <3>2, RoomShrinks
  <2>8. QED BY <1>5, <2>2, <2>3, <2>4, <2>5, <2>6, <2>7 DEF Advance
<1>6. CASE CrashRestart
  <2>1. Open' \subseteq Open /\ Buying' \subseteq Buying
    BY <1>6 DEF CrashRestart, Open, Buying
  <2>2. QED BY <2>1, RoomShrinks
<1>7. CASE UNCHANGED vars BY <1>1, <1>7 DEF vars
<1>8. QED BY <1>2, <1>3, <1>4, <1>5, <1>6, <1>7 DEF Next

(* n overlapping steps leave at most n - 1 positions above maxOpenTrades.   *)
THEOREM OverlapIsBounded == Spec => []OpenTradesBounded
<1>1. Init => RoomReserved
  <2> SUFFICES ASSUME Init, Steps # {} PROVE Cardinality(Open) + Cardinality(Buying) + 1
                                  <= MaxOpenTrades + Cardinality(Steps)
    BY DEF RoomReserved
  <2>1. Open = {} /\ Buying = {}
    BY DEF Init, Open, Buying
  <2>2. QED BY <2>1, FS_EmptySet, CountsAreNat, PaperTraderAssumption
<1>2. TypeOK /\ RoomReserved /\ [Next]_vars => RoomReserved'
  BY RoomInductive
<1>3. RoomReserved => OpenTradesBounded
  BY CountsAreNat, PaperTraderAssumption DEF RoomReserved, OpenTradesBounded
<1>4. QED BY <1>1, <1>2, <1>3, TypeCorrect, PTL DEF Spec

MovesOn ==
  \A p \in Ids : /\ trade[p] = "CLOSED" => trade'[p] \in {"CLOSED", "deleted"}
                 /\ trade[p] = "deleted" => trade'[p] = "deleted"

LEMMA IdsAreNat == Ids \subseteq Nat
BY PaperTraderAssumption DEF Ids

LEMMA BookInductive ==
  ASSUME TypeOK, IdsFresh, [Next]_vars PROVE IdsFresh' /\ MovesOn
<1> USE IdsAreNat DEF bookVars, stepVars, TypeOK, IdsFresh, MovesOn
<1>1. ASSUME UNCHANGED <<trade, nextId>> PROVE IdsFresh' /\ MovesOn
  BY <1>1
<1>2. ASSUME NEW p \in Ids, Close(p) \/ UNCHANGED <<trade, exits>>, nextId' = nextId
      PROVE  IdsFresh' /\ MovesOn
  BY <1>2 DEF Close
<1>3. CASE Boot BY <1>1, <1>3 DEF Boot, BootRead, BootArm, BootFails
<1>4. ASSUME NEW h \in Handlers, Handle(h) PROVE IdsFresh' /\ MovesOn
  <2>1. CASE ResetCommit(h) BY <2>1 DEF ResetCommit
  <2>2. QED BY <1>1, <1>4, <2>1 DEF Handle, StartUpdate, StartArm, StopUpdate, Disarm
<1>5. ASSUME NEW s \in Steps, Fire(s) PROVE IdsFresh' /\ MovesOn
  BY <1>1, <1>5 DEF Fire
<1>6. ASSUME NEW s \in Steps, Advance(s) PROVE IdsFresh' /\ MovesOn
  <2>1. CASE Buy(s)
    <3>1. nextId \in Ids /\ trade' = [trade EXCEPT ![nextId] = "OPEN"]
          /\ nextId' = nextId + 1
      BY <2>1 DEF Buy
    <3>2. QED BY <3>1, PaperTraderAssumption
  <2>2. CASE Sell(s)
    <3>1. PICK p \in Ids : Close(p) BY <2>2 DEF Sell
    <3>2. QED BY <1>2, <2>2, <3>1 DEF Sell
  <2>3. ASSUME NEW p \in Ids, VisitStop(s, p) PROVE IdsFresh' /\ MovesOn
    BY <1>2, <2>3 DEF VisitStop
  <2>4. CASE ~Buy(s) /\ ~Sell(s) /\ ~\E p \in Ids : VisitStop(s, p)
    BY <1>1, <1>6, <2>4 DEF Advance, CheckRunning, TooFewCandles, Snapshot, NoTrade,
       LoadStops, StepDone
  <2>5. QED BY <2>1, <2>2, <2>3, <2>4
<1>7. CASE CrashRestart BY <1>1, <1>7 DEF CrashRestart
<1>8. CASE UNCHANGED vars BY <1>1, <1>8 DEF vars
<1>9. QED BY <1>3, <1>4, <1>5, <1>6, <1>7, <1>8 DEF Next

(* Ids that the sequence has not given out have no row (INSERT of           *)
(* openPosition).                                                           *)
THEOREM FreshIds == Spec => []IdsFresh
<1>1. Init => IdsFresh BY DEF Init, IdsFresh
<1>2. TypeOK /\ IdsFresh /\ [Next]_vars => IdsFresh' BY BookInductive
<1>3. QED BY <1>1, <1>2, TypeCorrect, PTL DEF Spec

(* No step reopens a closed trade or brings a deleted one back.             *)
THEOREM BookMovesOn == Spec => BookOnlyMovesOn
<1>1. TypeOK /\ IdsFresh /\ [Next]_vars => [MovesOn]_vars
  BY BookInductive DEF MovesOn
<1>2. QED BY <1>1, TypeCorrect, FreshIds, PTL DEF Spec, BookOnlyMovesOn, MovesOn

-----------------------------------------------------------------------------
(* Steps that may still close a trade: they have read it as open.           *)
Closing(p) == {s \in Steps : pc[s] \in {"trade", "loop"} /\ p \in seen[s]}

(* A trade that has an exit is not read as open any more, and the steps     *)
(* that still hold it are those that have not written theirs.               *)
ExitsInv ==
  /\ \A p \in Ids : exits[p] # 0 => trade[p] \in {"CLOSED", "deleted"}
  /\ \A p \in Ids : exits[p] + Cardinality(Closing(p)) <= Cardinality(Steps)

LEMMA ClosingIsFinite ==
  ASSUME NEW p
  PROVE  /\ IsFiniteSet(Closing(p)) /\ Cardinality(Closing(p)) \in Nat
         /\ Cardinality(Closing(p)) <= Cardinality(Steps)
         /\ Cardinality(Steps) \in Nat
<1>1. Closing(p) \subseteq Steps BY DEF Closing
<1>2. QED BY <1>1, FS_Subset, FS_CardinalityType, PaperTraderAssumption

(* What a step may do to the count of one trade: nothing, an exit by a step *)
(* that lets the trade go, or a reading of a trade without exits.           *)
LEMMA ExitsAccounted ==
  ASSUME TypeOK, TypeOK', ExitsInv, NEW p \in Ids,
         \/ exits'[p] = exits[p] /\ Closing(p)' \subseteq Closing(p)
         \/ /\ exits'[p] = exits[p] + 1
            /\ \E s \in Closing(p) : Closing(p)' \subseteq Closing(p) \ {s}
         \/ exits'[p] = 0 /\ Closing(p)' \subseteq Steps
  PROVE  exits'[p] + Cardinality(Closing(p)') <= Cardinality(Steps)
<1>1. /\ exits[p] \in Nat /\ exits'[p] \in Nat
      /\ exits[p] + Cardinality(Closing(p)) <= Cardinality(Steps)
  BY DEF TypeOK, ExitsInv
<1>2. ASSUME Closing(p)' \subseteq Closing(p)
      PROVE  Cardinality(Closing(p)') <= Cardinality(Closing(p))
             /\ Cardinality(Closing(p)') \in Nat
  BY <1>2, ClosingIsFinite, FS_Subset, FS_CardinalityType
<1>3. CASE exits'[p] = exits[p] /\ Closing(p)' \subseteq Closing(p)
  BY <1>1, <1>2, <1>3, ClosingIsFinite
<1>4. ASSUME exits'[p] = exits[p] + 1, NEW s \in Closing(p),
             Closing(p)' \subseteq Closing(p) \ {s}
      PROVE  exits'[p] + Cardinality(Closing(p)') <= Cardinality(Steps)
  <2>1. /\ Cardinality(Closing(p) \ {s}) = Cardinality(Closing(p)) - 1
        /\ IsFiniteSet(Closing(p) \ {s})
    BY ClosingIsFinite, FS_RemoveElement
  <2>2. Cardinality(Closing(p)') <= Cardinality(Closing(p)) - 1
        /\ Cardinality(Closing(p)') \in Nat
    BY <1>4, <2>1, FS_Subset, FS_CardinalityType
  <2>3. QED BY <1>1, <1>4, <2>2, ClosingIsFinite
<1>5. CASE exits'[p] = 0 /\ Closing(p)' \subseteq Steps
  <2>1. Cardinality(Closing(p)') <= Cardinality(Steps) /\ Cardinality(Closing(p)') \in Nat
    BY <1>5, FS_Subset, FS_CardinalityType, PaperTraderAssumption
  <2>2. QED BY <1>5, <2>1
<1>6. QED BY <1>3, <1>4, <1>5

(* A step that moves away from "trade" and "loop", or was not there.        *)
LEMMA ElsewhereClosesNothing ==
  ASSUME TypeOK, NEW s \in Steps, NEW place, place \notin {"trade", "loop"},
         Goto(s, place), seen' = seen, NEW p
  PROVE  Closing(p)' \subseteq Closing(p) \ {s}
BY DEF Closing, Goto, TypeOK

LEMMA ReadingIsFresh ==
  ASSUME TypeOK, ExitsInv, NEW s \in Steps, NEW place, Goto(s, place),
         seen' = [seen EXCEPT ![s] = Open], exits' = exits, NEW p \in Ids
  PROVE  \/ exits'[p] = exits[p] /\ Closing(p)' \subseteq Closing(p)
         \/ exits'[p] = 0 /\ Closing(p)' \subseteq Steps
<1>1. CASE p \in Open
  <2>1. exits'[p] = 0 BY <1>1 DEF Open, ExitsInv
  <2>2. QED BY <2>1 DEF Closing
<1>2. CASE p \notin Open
  BY <1>2 DEF Closing, Goto, TypeOK
<1>3. QED BY <1>1, <1>2

LEMMA ExitsInductive ==
  ASSUME TypeOK, TypeOK', IdsFresh, ExitsInv, [Next]_vars PROVE ExitsInv'
<1> USE DEF bookVars, stepVars
<1> DEFINE Counted(p) ==
             \/ exits'[p] = exits[p] /\ Closing(p)' \subseteq Closing(p)
             \/ /\ exits'[p] = exits[p] + 1
                /\ \E s \in Closing(p) : Closing(p)' \subseteq Closing(p) \ {s}
             \/ exits'[p] = 0 /\ Closing(p)' \subseteq Steps
           Past == \A p \in Ids : exits'[p] # 0 => trade'[p] \in {"CLOSED", "deleted"}
<1>1. SUFFICES Past /\ \A p \in Ids : Counted(p)
  BY ExitsAccounted DEF ExitsInv
<1>2. ASSUME UNCHANGED <<exits, pc, seen>>, trade' = trade
      PROVE  Past /\ \A p \in Ids : Counted(p)
  BY <1>2 DEF Closing, ExitsInv
<1>3. CASE Boot BY <1>2, <1>3 DEF Boot, BootRead, BootArm, BootFails
<1>4. ASSUME NEW h \in Handlers, Handle(h) PROVE Past /\ \A p \in Ids : Counted(p)
  <2>1. CASE ResetCommit(h)
    <3>1. UNCHANGED <<exits, pc, seen>> BY <2>1 DEF ResetCommit
    <3>2. \A p \in Ids : Counted(p) BY <3>1 DEF Closing
    <3>3. Past BY <2>1 DEF ResetCommit, ExitsInv, TypeOK
    <3>4. QED BY <3>2, <3>3
  <2>2. QED BY <1>2, <1>4, <2>1 DEF Handle, StartUpdate, StartArm, StopUpdate, Disarm
<1>5. ASSUME NEW s \in Steps, NEW place, place \notin {"trade", "loop"}, Goto(s, place),
             UNCHANGED <<trade, exits, seen>>
      PROVE  Past /\ \A p \in Ids : Counted(p)
  <2>1. \A p \in Ids : Closing(p)' \subseteq Closing(p) \ {s}
    BY <1>5, ElsewhereClosesNothing
  <2>2. QED BY <1>5, <2>1 DEF ExitsInv
<1>6. ASSUME NEW s \in Steps, Fire(s) PROVE Past /\ \A p \in Ids : Counted(p)
  BY <1>5, <1>6 DEF Fire
<1>7. ASSUME NEW q \in Ids, Close(q) \/ UNCHANGED <<trade, exits>>
      PROVE  /\ Past
             /\ \A p \in Ids \ {q} : exits'[p] = exits[p]
             /\ exits'[q] \in {exits[q], exits[q] + 1}
  BY <1>7 DEF Close, ExitsInv, TypeOK
<1>8. ASSUME NEW s \in Steps, Advance(s) PROVE Past /\ \A p \in Ids : Counted(p)
  <2>1. CASE CheckRunning(s) \/ TooFewCandles(s) \/ NoTrade(s) \/ StepDone(s)
    BY <1>5, <2>1 DEF CheckRunning, TooFewCandles, NoTrade, StepDone
  <2>2. ASSUME NEW sig \in Signals, Snapshot(s, sig)
        PROVE  Past /\ \A p \in Ids : Counted(p)
    <3>1. /\ Goto(s, "trade") /\ seen' = [seen EXCEPT ![s] = Open]
          /\ UNCHANGED <<trade, exits>>
      BY <2>2 DEF Snapshot
    <3>2. QED BY <3>1, ReadingIsFresh DEF ExitsInv
  <2>3. CASE LoadStops(s)
    <3>1. /\ Goto(s, "loop") /\ seen' = [seen EXCEPT ![s] = Open]
          /\ UNCHANGED <<trade, exits>>
      BY <2>3 DEF LoadStops
    <3>2. QED BY <3>1, ReadingIsFresh DEF ExitsInv
  <2>4. CASE Buy(s)
    <3>1. /\ Goto(s, "stops") /\ UNCHANGED <<exits, seen>>
          /\ nextId \in Ids /\ trade' = [trade EXCEPT ![nextId] = "OPEN"]
      BY <2>4 DEF Buy
    <3>2. \A p \in Ids : Closing(p)' \subseteq Closing(p) \ {s}
      BY <3>1, ElsewhereClosesNothing
    <3>3. nextId >= nextId
      BY <3>1, IdsAreNat
    <3>4. exits[nextId] = 0
      BY <3>1, <3>3 DEF IdsFresh, ExitsInv
    <3>5. Past BY <3>1, <3>4 DEF ExitsInv, TypeOK
    <3>6. QED BY <3>1, <3>2, <3>5
  <2>5. CASE Sell(s)
    <3>1. PICK q \in Ids : q \in seen[s] /\ Close(q) BY <2>5 DEF Sell, Oldest
    <3>2. /\ pc[s] = "trade" /\ Goto(s, "stops") /\ seen' = seen BY <2>5 DEF Sell
    <3>3. \A p \in Ids : Closing(p)' \subseteq Closing(p) \ {s}
      BY <3>2, ElsewhereClosesNothing
    <3>4. s \in Closing(q) BY <3>1, <3>2 DEF Closing
    <3>5. QED BY <1>7, <3>1, <3>3, <3>4
  <2>6. ASSUME NEW q \in Ids, VisitStop(s, q) PROVE Past /\ \A p \in Ids : Counted(p)
    <3>1. /\ pc' = pc /\ pc[s] = "loop" /\ q \in seen[s]
          /\ seen' = [seen EXCEPT ![s] = @ \ {q}]
          /\ Close(q) \/ UNCHANGED <<trade, exits>>
      BY <2>6 DEF VisitStop, Oldest
    <3>2. /\ s \in Closing(q) /\ Closing(q)' \subseteq Closing(q) \ {s}
          /\ \A p \in Ids \ {q} : Closing(p)' \subseteq Closing(p)
      BY <3>1 DEF Closing, TypeOK
    <3>3. QED BY <1>7, <3>1, <3>2
  <2>7. QED BY <1>8, <2>1, <2>2, <2>3, <2>4, <2>5, <2>6 DEF Advance
<1>9. CASE CrashRestart
  <2>1. UNCHANGED <<trade, exits>> /\ \A p \in Ids : Closing(p)' \subseteq Closing(p)
    BY <1>9 DEF CrashRestart, Closing
  <2>2. QED BY <2>1 DEF ExitsInv
<1>10. CASE UNCHANGED vars BY <1>2, <1>10 DEF vars
<1>11. QED BY <1>3, <1>4, <1>6, <1>8, <1>9, <1>10 DEF Next

(* A trade gets at most one exit from each step that can overlap, for any   *)
(* number of steps: alone, a step closes a trade once.                      *)
THEOREM ExitsAreBounded == Spec => []ExitsBounded
<1>1. Init => ExitsInv /\ IdsFresh
  <2> SUFFICES ASSUME Init PROVE ExitsInv /\ IdsFresh OBVIOUS
  <2>1. ASSUME NEW p \in Ids PROVE exits[p] + Cardinality(Closing(p)) <= Cardinality(Steps)
    <3>1. exits[p] = 0 /\ Closing(p) = {} BY DEF Init, Closing
    <3>2. QED BY <3>1, ClosingIsFinite, FS_EmptySet
  <2>2. QED BY <2>1 DEF Init, ExitsInv, IdsFresh
<1>2. TypeOK /\ TypeOK' /\ IdsFresh /\ ExitsInv /\ [Next]_vars => ExitsInv'
  BY ExitsInductive
<1>3. TypeOK /\ ExitsInv => ExitsBounded
  <2> SUFFICES ASSUME TypeOK, ExitsInv, NEW p \in Ids PROVE exits[p] <= Cardinality(Steps)
    BY DEF ExitsBounded
  <2>1. exits[p] \in Nat /\ exits[p] + Cardinality(Closing(p)) <= Cardinality(Steps)
    BY DEF TypeOK, ExitsInv
  <2>2. QED BY <2>1, ClosingIsFinite
<1>4. QED BY <1>1, <1>2, <1>3, TypeCorrect, FreshIds, PTL DEF Spec

-----------------------------------------------------------------------------
(* Once stop or reset is answered and no step is past its look at running,  *)
(* no step, boot or crash touches the book before the next start.           *)
THEOREM StoppedStaysQuiet == Spec => StoppedIsQuiet
<1> DEFINE Stays ==
      Quiet => /\ Quiet' \/ running'
               /\ trade' = trade \/ \A p \in Ids : trade'[p] \in {"none", "deleted"}
<1>1. TypeOK /\ [Next]_vars => [Stays]_vars
  <2> SUFFICES ASSUME TypeOK, [Next]_vars, Quiet
               PROVE  /\ Quiet' \/ running'
                      /\ trade' = trade \/ \A p \in Ids : trade'[p] \in {"none", "deleted"}
    OBVIOUS
  <2> USE DEF TypeOK, Quiet, bookVars, stepVars
  <2>1. CASE Boot
    BY <2>1 DEF Boot, BootRead, BootArm, BootFails
  <2>2. ASSUME NEW h \in Handlers, Handle(h) PROVE Stays
    BY <2>2 DEF Handle, StartUpdate, StartArm, StopUpdate, ResetCommit, Disarm
  <2>3. ASSUME NEW s \in Steps, Fire(s) PROVE Stays
    BY <2>3 DEF Fire, Goto
  <2>4. ASSUME NEW s \in Steps, Advance(s) PROVE Stays
    <3>1. pc[s] \in {"idle", "state"} /\ ~running
      OBVIOUS
    <3>2. CheckRunning(s)
      BY <2>4, <3>1 DEF Advance, TooFewCandles, Snapshot, Buy, Sell, NoTrade, LoadStops,
         VisitStop, StepDone
    <3>3. QED BY <3>1, <3>2 DEF CheckRunning, Goto
  <2>5. CASE CrashRestart BY <2>5 DEF CrashRestart
  <2>6. CASE UNCHANGED vars BY <2>6 DEF vars
  <2>7. QED BY <2>1, <2>2, <2>3, <2>4, <2>5, <2>6 DEF Next
<1>2. QED BY <1>1, TypeCorrect, PTL DEF Spec, StoppedIsQuiet
=============================================================================
