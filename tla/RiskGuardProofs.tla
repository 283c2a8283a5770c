--------------------------- MODULE RiskGuardProofs ---------------------------
(***************************************************************************)
(* Theorems about RiskGuard, for any number of overlapping runs, symbols,  *)
(* strategies and operators, and any configuration.                        *)
(***************************************************************************)
EXTENDS RiskGuard, FiniteSetTheorems, TLAPS

(* Where a run may go when it leaves an item: the next one, or out.         *)
LEMMA ItemTypes ==
  ASSUME TypeOK, NEW r \in Runs,
         NextItem(r) \/ NextSymbol(r) \/ Return(r)
  PROVE  /\ pc' \in [Runs -> Places]
         /\ cursor' \in [Runs -> Symbols \X (1..NStrategies)]
         /\ account' \in [Runs -> [equity: Nat, exposure: Nat]]
         /\ mine' \in [Runs -> Nat]
         /\ cfg' = cfg
         /\ pc'[r] \in {"idle", "item"}
         /\ \A q \in Runs \ {r} : pc'[q] = pc[q] /\ cursor'[q] = cursor[q]
                                  /\ mine'[q] = mine[q]
<1> USE RiskGuardAssumption DEF TypeOK, Places, Symbols, NoAccount, FirstItem, Goto
<1>1. CASE Return(r)
  <2>1. /\ pc' = [pc EXCEPT ![r] = "idle"]
        /\ cursor' = [cursor EXCEPT ![r] = <<1, 1>>]
        /\ account' = [account EXCEPT ![r] = [equity |-> 0, exposure |-> 0]]
        /\ mine' = [mine EXCEPT ![r] = 0]
        /\ cfg' = cfg
    BY <1>1 DEF Return
  <2>2. <<1, 1>> \in Symbols \X (1..NStrategies)
    OBVIOUS
  <2>3. cursor' \in [Runs -> Symbols \X (1..NStrategies)]
    BY <2>1, <2>2
  <2>4. /\ pc' \in [Runs -> Places]
        /\ account' \in [Runs -> [equity: Nat, exposure: Nat]]
        /\ mine' \in [Runs -> Nat]
    BY <2>1
  <2>5. QED
    BY <2>1, <2>3, <2>4
<1>2. ASSUME NEW i \in (1..NSymbols + 1) \X (1..NStrategies), MoveTo(r, i)
      PROVE  /\ pc' \in [Runs -> Places]
             /\ cursor' \in [Runs -> Symbols \X (1..NStrategies)]
             /\ account' \in [Runs -> [equity: Nat, exposure: Nat]]
             /\ mine' \in [Runs -> Nat]
             /\ cfg' = cfg
             /\ pc'[r] \in {"idle", "item"}
             /\ \A q \in Runs \ {r} : pc'[q] = pc[q] /\ cursor'[q] = cursor[q]
                                      /\ mine'[q] = mine[q]
  <2>1. CASE i[1] \in Symbols
    <3>1. i \in Symbols \X (1..NStrategies)
      BY <2>1
    <3>2. /\ cursor' = [cursor EXCEPT ![r] = i]
          /\ pc' = [pc EXCEPT ![r] = "item"]
          /\ account' = [account EXCEPT ![r] = NoAccount]
          /\ mine' = [mine EXCEPT ![r] = 0]
          /\ UNCHANGED cfg
      BY <1>2, <2>1, Zenon DEF MoveTo
    <3>3. QED
      BY <3>1, <3>2
  <2>2. CASE i[1] \notin Symbols
    BY <1>1, <1>2, <2>2, Zenon DEF MoveTo
  <2>3. QED
    BY <2>1, <2>2
<1>3. /\ Sym(r) \in Symbols
      /\ cursor[r][2] \in 1..NStrategies
  BY DEF Sym
<1>4. CASE NextSymbol(r)
  <2>1. <<Sym(r) + 1, 1>> \in (1..NSymbols + 1) \X (1..NStrategies)
    BY <1>3
  <2>2. QED
    BY <1>2, <1>4, <2>1 DEF NextSymbol
<1>5. CASE NextItem(r)
  <2>1. CASE cursor[r][2] < NStrategies
    <3>1. <<Sym(r), cursor[r][2] + 1>> \in (1..NSymbols + 1) \X (1..NStrategies)
      BY <1>3, <2>1
    <3>2. QED
      BY <1>2, <1>5, <2>1, <3>1 DEF NextItem
  <2>2. CASE ~(cursor[r][2] < NStrategies)
    BY <1>4, <1>5, <2>2 DEF NextItem
  <2>3. QED
    BY <2>1, <2>2
<1>6. QED
  BY <1>1, <1>4, <1>5

(* Setting what exists of one entry keeps the table's type.                 *)
LEMMA PartsTypes ==
  ASSUME TypeOK, NEW s \in Symbols, NEW n, NEW x \in SUBSET Parts
  PROVE  [parts EXCEPT ![s][n] = x] \in [Symbols -> [Entries -> SUBSET Parts]]
<1>1. [parts[s] EXCEPT ![n] = x] \in [Entries -> SUBSET Parts]
  BY DEF TypeOK
<1>2. QED
  BY <1>1 DEF TypeOK

-----------------------------------------------------------------------------
(* Types, with the numbers of entries and the places of the runs.           *)
THEOREM TypeCorrect == Spec => []TypeOK
<1> USE RiskGuardAssumption DEF TypeOK
<1>1. Init => TypeOK
  <2> SUFFICES ASSUME Init PROVE TypeOK
    OBVIOUS
  <2>1. riskRow \in BOOLEAN
    BY Zenon DEF Init
  <2>2. /\ FirstItem \in Symbols \X (1..NStrategies)
        /\ NoAccount \in [equity: Nat, exposure: Nat]
    BY DEF FirstItem, NoAccount, Symbols
  <2>3. cfg \in [Runs -> Configs]
    BY DEF Init
  <2>4. QED
    BY <2>1, <2>2, <2>3 DEF Init, Places
<1>2. TypeOK /\ [Next]_vars => TypeOK'
  <2> SUFFICES ASSUME TypeOK, [Next]_vars PROVE TypeOK'
    OBVIOUS
  <2> USE DEF rowVars, haltVars, timerVars, tradeVars, setVars, runVars, worldVars
  <2> DEFINE Local(r) ==
        /\ pc' \in [Runs -> Places]
        /\ cursor' \in [Runs -> Symbols \X (1..NStrategies)]
        /\ account' \in [Runs -> [equity: Nat, exposure: Nat]]
        /\ mine' \in [Runs -> Nat]
        /\ cfg' = cfg
  <2>i. ASSUME NEW r \in Runs, NextItem(r) \/ NextSymbol(r) \/ Return(r)
        PROVE  Local(r)
    BY <2>i, ItemTypes
  <2>a. ASSUME NEW r \in Runs, NEW from, NEW to \in Places, At(r, from, to)
        PROVE  Local(r)
    BY <2>a DEF At, Goto
  <2>n. ASSUME NEW s \in Symbols, NewEntry(s)
        PROVE  /\ sent' \in [Symbols -> 0..MaxEntries]
               /\ parts' \in [Symbols -> [Entries -> SUBSET Parts]]
               /\ late' \in Nat
    <3>1. /\ sent[s] \in 0..MaxEntries
          /\ sent[s] < MaxEntries
          /\ sent[s] + 1 \in 0..MaxEntries
          /\ {"entry"} \subseteq Parts
      BY <2>n DEF NewEntry, Parts
    <3>2. sent' \in [Symbols -> 0..MaxEntries]
      BY <2>n, <3>1 DEF NewEntry
    <3>3. parts' \in [Symbols -> [Entries -> SUBSET Parts]]
      BY <2>n, <3>1, PartsTypes DEF NewEntry
    <3>4. late' = late + 1 \/ late' = late
      BY <2>n, Zenon DEF NewEntry
    <3>5. QED
      BY <3>2, <3>3, <3>4
  <2>s. ASSUME NEW s \in {"RUNNING", "HALTED"}, SetState(s)
        PROVE  /\ riskState' \in {"RUNNING", "HALTED"}
               /\ riskRow' \in BOOLEAN
               /\ dayStart' = dayStart /\ base' = base /\ high' = high
               /\ late' \in Nat
    <3>1. late' = 0 \/ late' = late
      BY <2>s, Zenon DEF SetState
    <3>2. QED
      BY <2>s, <3>1 DEF SetState
  <2>y. ASSUME NEW r \in Runs PROVE Sym(r) \in Symbols
    BY DEF Sym
  <2> HIDE DEF Local
  <2>1. CASE Market
    BY <2>1 DEF Market
  <2>2. CASE NextDay
    BY <2>2 DEF NextDay
  <2>3. CASE PutConfig
    BY <2>3 DEF PutConfig
  <2>4. CASE TimerFires
    BY <2>4 DEF TimerFires
  <2>5. CASE AutoResume
    BY <2>5, <2>s DEF AutoResume
  <2>6. CASE AutoLog
    BY <2>6 DEF AutoLog
  <2>7. CASE CrashRestart
    <3>1. /\ FirstItem \in Symbols \X (1..NStrategies)
          /\ NoAccount \in [equity: Nat, exposure: Nat]
      BY DEF FirstItem, NoAccount, Symbols
    <3>2. QED
      BY <2>7, <3>1 DEF CrashRestart, Places
  <2>8. ASSUME NEW s \in Symbols, ClosePosition(s) PROVE TypeOK'
    BY <2>8 DEF ClosePosition, Parts
  <2>9. ASSUME NEW h \in Handlers, PostHalt(h) \/ PostResume(h) PROVE TypeOK'
    <3>1. PICK s \in {"RUNNING", "HALTED"}, place \in {"HALT", "RESUME"} :
            PostSet(h, s, place)
      BY <2>9 DEF PostHalt, PostResume
    <3>2. SetState(s)
      BY <3>1 DEF PostSet
    <3>3. QED
      BY <2>s, <3>1, <3>2 DEF PostSet
  <2>10. ASSUME NEW h \in Handlers, PostLog(h) PROVE TypeOK'
    BY <2>10 DEF PostLog
  <2>11. ASSUME NEW r \in Runs, Begin(r) PROVE TypeOK'
    <3>1. Local(r)
      BY <2>11, <2>a DEF Begin, Places
    <3>2. QED
      BY <2>11, <3>1 DEF Begin, Local
  <2>12. ASSUME NEW r \in Runs, NoSignal(r) PROVE TypeOK'
    BY <2>12, <2>i DEF NoSignal, Local
  <2>13. ASSUME NEW r \in Runs, ReadAccount(r) PROVE TypeOK'
    <3>1. Exposure(Sym(r)) \in Nat
      <4>1. IsFiniteSet(Entries)
        BY FS_Interval DEF Entries
      <4>2. IsFiniteSet(OpenEntries(Sym(r)))
        BY <4>1, FS_Subset DEF OpenEntries
      <4>3. QED
        BY <4>2, FS_CardinalityType DEF Exposure
    <3>2. QED
      BY <2>13, <3>1 DEF ReadAccount, Goto, Places
  <2>14. ASSUME NEW r \in Runs, DayRead(r) PROVE TypeOK'
    <3>1. DayPlace(account[r].equity) \in Places
      BY DEF DayPlace, Places
    <3>2. Local(r)
      BY <2>14, <3>1, <2>a DEF DayRead
    <3>3. account[r].equity \in Nat
      OBVIOUS
    <3>4. QED
      BY <2>14, <3>2, <3>3 DEF DayRead, Local
  <2>15. ASSUME NEW r \in Runs, DayInsert(r) PROVE TypeOK'
    <3>1. Local(r)
      BY <2>15, <2>a DEF DayInsert, Places
    <3>2. account[r].equity \in Nat
      OBVIOUS
    <3>3. QED
      BY <2>15, <3>1, <3>2 DEF DayInsert, Local
  <2>16. ASSUME NEW r \in Runs, DayInsertConflict(r) PROVE TypeOK'
    BY <2>16, <2>i DEF DayInsertConflict, Local
  <2>17. ASSUME NEW r \in Runs, DayUpdate(r) PROVE TypeOK'
    <3>1. Local(r)
      BY <2>17, <2>a DEF DayUpdate, Places
    <3>2. account[r].equity \in Nat
      OBVIOUS
    <3>3. /\ high' = account[r].equity
          /\ \/ dayStart' = today /\ base' = account[r].equity
             \/ dayStart' = dayStart /\ base' = base
      BY <2>17, Zenon DEF DayUpdate
    <3>4. QED
      BY <2>17, <3>1, <3>2, <3>3 DEF DayUpdate, Local
  <2>18. ASSUME NEW r \in Runs, SetLeverage(r) \/ SetMode(r) \/ SettingsDone(r)
         PROVE  TypeOK'
    <3>1. Local(r)
      BY <2>18, <2>a DEF SetLeverage, SetMode, SettingsDone, Places
    <3>2. settled' \in [Symbols -> SUBSET Configured]
      <4>1. CASE SettingsDone(r)
        BY <4>1 DEF SettingsDone
      <4>2. CASE SetLeverage(r) \/ SetMode(r)
        <5>1. PICK more \in SUBSET Configured :
                settled' = [settled EXCEPT ![Sym(r)] = @ \cup more]
          BY <4>2 DEF SetLeverage, SetMode
        <5>2. QED
          BY <2>y, <5>1
      <4>3. QED
        BY <2>18, <4>1, <4>2
    <3>3. applied' \subseteq Symbols
      BY <2>18, <2>y DEF SetLeverage, SetMode, SettingsDone
    <3>4. QED
      BY <2>18, <3>1, <3>2, <3>3 DEF SetLeverage, SetMode, SettingsDone, Local
  <2>19. ASSUME NEW r \in Runs, LoadConfig(r) PROVE TypeOK'
    BY <2>19 DEF LoadConfig, Goto, Places
  <2>20. ASSUME NEW r \in Runs, IsHalted(r) \/ CheckThrows(r) \/ Refused(r)
         PROVE  TypeOK'
    BY <2>20, <2>i DEF IsHalted, CheckThrows, Refused, Verdict, Local
  <2>21. ASSUME NEW r \in Runs, TripsBreaker(r) \/ Passes(r) PROVE TypeOK'
    <3>1. Local(r)
      BY <2>21, <2>a DEF TripsBreaker, Passes, Places
    <3>2. QED
      BY <2>21, <3>1 DEF TripsBreaker, Passes, Verdict, Local
  <2>22. ASSUME NEW r \in Runs, HaltSet(r) PROVE TypeOK'
    <3>1. Local(r)
      BY <2>22, <2>a DEF HaltSet, Places
    <3>2. QED
      BY <2>22, <2>s, <3>1 DEF HaltSet, Local
  <2>23. ASSUME NEW r \in Runs, HaltLog(r) PROVE TypeOK'
    BY <2>23, <2>i DEF HaltLog, Rearmed, Local
  <2>24. ASSUME NEW r \in Runs, SendEntry(r) PROVE TypeOK'
    BY <2>24, <2>n, <2>y DEF SendEntry, Goto, Places
  <2>25. ASSUME NEW r \in Runs, SendStop(r) \/ SendTarget(r) \/ InsertRow(r)
         PROVE  TypeOK'
    <3>1. Local(r)
      BY <2>25, <2>a, <2>i DEF SendStop, SendTarget, InsertRow, Places
    <3>2. parts' \in [Symbols -> [Entries -> SUBSET Parts]]
      <4>1. PICK part \in Parts : Add(r, part)
        BY <2>25 DEF SendStop, SendTarget, InsertRow, Parts
      <4>2. parts' = [parts EXCEPT ![Sym(r)][mine[r]] = @ \cup {part}]
        BY <4>1 DEF Add
      <4>3. [parts[Sym(r)] EXCEPT ![mine[r]] = @ \cup {part}]
              \in [Entries -> SUBSET Parts]
        <5>1. parts[Sym(r)] \in [Entries -> SUBSET Parts]
          BY <2>y
        <5>2. \A n : \A f \in [Entries -> SUBSET Parts] :
                [f EXCEPT ![n] = @ \cup {part}] \in [Entries -> SUBSET Parts]
          OBVIOUS
        <5>3. QED
          BY <5>1, <5>2
      <4>4. QED
        <5>1. [parts EXCEPT ![Sym(r)] = [parts[Sym(r)] EXCEPT
                 ![mine[r]] = @ \cup {part}]]
                \in [Symbols -> [Entries -> SUBSET Parts]]
          BY <2>y, <4>3
        <5>2. QED
          BY <4>2, <5>1
    <3>3. QED
      BY <2>25, <3>1, <3>2 DEF SendStop, SendTarget, InsertRow, Add, Local
  <2>26. ASSUME NEW r \in Runs, OrderFails(r) PROVE TypeOK'
    <3>1. /\ sent' \in [Symbols -> 0..MaxEntries]
          /\ parts' \in [Symbols -> [Entries -> SUBSET Parts]]
          /\ late' \in Nat
      BY <2>26, <2>n, <2>y DEF OrderFails
    <3>2. QED
      BY <2>26, <2>i, <3>1 DEF OrderFails, Local
  <2>27. ASSUME NEW r \in Runs, RunFails(r) PROVE TypeOK'
    BY <2>27, <2>i DEF RunFails, Local
  <2>28. CASE UNCHANGED vars
    BY <2>28 DEF vars
  <2>29. QED
    BY <2>1, <2>2, <2>3, <2>4, <2>5, <2>6, <2>7, <2>8, <2>9, <2>10, <2>11,
       <2>12, <2>13, <2>14, <2>15, <2>16, <2>17, <2>18, <2>19, <2>20, <2>21,
       <2>22, <2>23, <2>24, <2>25, <2>26, <2>27, <2>28
       DEF Next, Resume, Advance, Check
<1>3. QED
  BY <1>1, <1>2, PTL DEF Spec

-----------------------------------------------------------------------------
(* A run's step leaves the place, the item and the entry of the other runs  *)
(* alone.                                                                   *)
RunStep(r) == Begin(r) \/ Advance(r) \/ OrderFails(r) \/ RunFails(r)

Apart(r) ==
  \A q \in Runs \ {r} : /\ pc'[q] = pc[q]
                        /\ cursor'[q] = cursor[q]
                        /\ mine'[q] = mine[q]
                        /\ account'[q] = account[q]

LEMMA RunsApart ==
  ASSUME TypeOK, NEW r \in Runs, RunStep(r)
  PROVE  Apart(r)
<1> USE DEF TypeOK, Apart, Goto
<1>1. CASE Begin(r)
  BY <1>1 DEF Begin, At
<1>2. ASSUME NextItem(r) \/ NextSymbol(r) \/ Return(r) PROVE Apart(r)
  <2>1. ASSUME NEW i, MoveTo(r, i) PROVE Apart(r)
    <3>1. CASE i[1] \in Symbols
      BY <2>1, <3>1 DEF MoveTo
    <3>2. CASE ~(i[1] \in Symbols)
      BY <2>1, <3>2 DEF MoveTo, Return
    <3>3. QED
      BY <3>1, <3>2
  <2>2. CASE Return(r)
    BY <2>2 DEF Return
  <2>3. CASE NextSymbol(r)
    BY <2>1, <2>3, Zenon DEF NextSymbol
  <2>4. CASE NextItem(r)
    BY <2>1, <2>3, <2>4, Zenon DEF NextItem
  <2>5. QED
    BY <1>2, <2>2, <2>3, <2>4
<1>3. ASSUME NEW from, NEW to, At(r, from, to) PROVE Apart(r)
  BY <1>3 DEF At
<1>4. CASE ReadAccount(r) \/ LoadConfig(r) \/ SendEntry(r)
  BY <1>4 DEF ReadAccount, LoadConfig, SendEntry
<1> HIDE DEF Apart
<1>5. CASE Check(r)
  BY <1>2, <1>3, <1>4, <1>5, Zenon
     DEF Check, IsHalted, CheckThrows, Refused, TripsBreaker, Passes,
         HaltSet, HaltLog
<1>6. CASE DayUpdate(r)
  BY <1>3, <1>6 DEF DayUpdate
<1>7. CASE Advance(r)
  BY <1>2, <1>3, <1>4, <1>5, <1>6, <1>7, Zenon
     DEF Advance, NoSignal, DayRead, DayInsert, DayInsertConflict, SetLeverage,
         SetMode, SettingsDone, SendStop, SendTarget, InsertRow
<1>8. CASE OrderFails(r) \/ RunFails(r)
  BY <1>2, <1>8, Zenon DEF OrderFails, RunFails
<1>9. QED
  BY <1>1, <1>7, <1>8 DEF RunStep

(* Where a run's step takes it: off the item, or along it to a place that   *)
(* only the action named here leads to.                                     *)
Before == {"day", "dayInsert", "dayReset", "dayHigh", "settings", "mode",
           "config", "look", "entry"}

Along(r) ==
  /\ cursor'[r] = cursor[r]
  /\ pc'[r] \in Before \ {"day"} =>
       pc[r] \in Before \ {"entry"} /\ account'[r] = account[r]
  /\ pc'[r] = "day"    => ReadAccount(r)
  /\ pc'[r] = "mode"   => SetLeverage(r)
  /\ pc'[r] = "config" => SetMode(r) \/ SettingsDone(r)
  /\ pc'[r] = "look"   => LoadConfig(r)
  /\ pc'[r] = "entry"  => Passes(r)
  /\ pc'[r] = "sl"     => SendEntry(r)
  /\ pc'[r] = "tp"     => SendStop(r)
  /\ pc'[r] = "row"    => SendTarget(r)

LEMMA RunGoes ==
  ASSUME TypeOK, NEW r \in Runs, RunStep(r)
  PROVE  pc'[r] \in {"idle", "item"} \/ Along(r)
<1> USE DEF TypeOK, Goto, Places, Along, Before
<1>1. ASSUME NEW from, NEW to \in Places, At(r, from, to)
      PROVE  /\ cursor'[r] = cursor[r] /\ account'[r] = account[r]
             /\ pc[r] = from /\ pc'[r] = to
  BY <1>1 DEF At
<1>2. ASSUME NextItem(r) \/ NextSymbol(r) \/ Return(r)
      PROVE  pc'[r] \in {"idle", "item"}
  BY <1>2, ItemTypes
<1>3. CASE ReadAccount(r)
  BY <1>3 DEF ReadAccount
<1>4. CASE LoadConfig(r)
  BY <1>4 DEF LoadConfig
<1>5. CASE SendEntry(r)
  BY <1>5 DEF SendEntry
<1>6. CASE IsHalted(r) \/ CheckThrows(r) \/ Refused(r) \/ HaltLog(r)
           \/ NoSignal(r) \/ DayInsertConflict(r) \/ InsertRow(r)
           \/ OrderFails(r) \/ RunFails(r)
  BY <1>2, <1>6, Zenon
     DEF IsHalted, CheckThrows, Refused, HaltLog, NoSignal, DayInsertConflict,
         InsertRow, OrderFails, RunFails
<1>7. CASE DayRead(r)
  <2>1. DayPlace(account[r].equity)
          \in {"dayInsert", "dayReset", "dayHigh", "settings"}
    BY DEF DayPlace
  <2>2. QED
    BY <1>1, <1>7, <2>1 DEF DayRead
<1>8. CASE Begin(r) \/ DayInsert(r) \/ DayUpdate(r) \/ TripsBreaker(r) \/ HaltSet(r)
  <2>1. /\ cursor'[r] = cursor[r] /\ account'[r] = account[r]
        /\ pc'[r] \in {"item", "settings", "haltSet", "haltLog"}
        /\ pc'[r] = "settings" => pc[r] \in {"dayInsert", "dayReset", "dayHigh"}
    BY <1>1, <1>8 DEF Begin, DayInsert, DayUpdate, TripsBreaker, HaltSet
  <2>2. QED
    BY <2>1
<1>9. CASE SetLeverage(r) \/ SetMode(r) \/ SettingsDone(r)
  BY <1>1, <1>9 DEF SetLeverage, SetMode, SettingsDone
<1>10. CASE Passes(r) \/ SendStop(r) \/ SendTarget(r)
  BY <1>1, <1>10 DEF Passes, SendStop, SendTarget
<1>11. QED
  BY <1>3, <1>4, <1>5, <1>6, <1>7, <1>8, <1>9, <1>10, Zenon
     DEF RunStep, Advance, Check

(* What a run's step does to the entries and to the symbol settings.        *)
LEMMA RunTouches ==
  ASSUME TypeOK, NEW r \in Runs, RunStep(r)
  PROVE  /\ \/ UNCHANGED setVars
            \/ SetLeverage(r) \/ SetMode(r)
         /\ \/ UNCHANGED tradeVars
            \/ pc[r] = "entry" /\ NewEntry(Sym(r))
            \/ SendStop(r) \/ SendTarget(r) \/ InsertRow(r)
<1> USE DEF tradeVars, setVars
<1>1. CASE Check(r)
  BY <1>1 DEF Check, LoadConfig, IsHalted, CheckThrows, Refused, TripsBreaker,
              Passes, Verdict, HaltSet, HaltLog
<1>2. CASE Advance(r) /\ ~Check(r)
  BY <1>2 DEF Advance, NoSignal, ReadAccount, DayRead, DayInsert,
              DayInsertConflict, DayUpdate, SetLeverage, SetMode,
              SettingsDone, SendEntry, SendStop, SendTarget, InsertRow, Add
<1>3. CASE Begin(r) \/ OrderFails(r) \/ RunFails(r)
  BY <1>3 DEF Begin, OrderFails, RunFails
<1>4. QED
  BY <1>1, <1>2, <1>3 DEF RunStep

-----------------------------------------------------------------------------
(* After a halt at most one more entry per run under way: each run counted  *)
(* late has left the place before its entry order, and while trading is     *)
(* halted no run gets there.                                                *)
LateInv ==
  /\ riskState = "RUNNING" => late = 0
  /\ late + Cardinality(Entering) <= Cardinality(Runs)

(* After a halt no more entries are sent than runs can be under way, however *)
(* halts, resumes, timers, failing calls and crashes fall (checkPreEntry).  *)
THEOREM LateEntriesAreBounded == Spec => []LateEntriesBounded
<1> USE RiskGuardAssumption
<1>0. ASSUME NEW S \in SUBSET Runs
      PROVE  /\ IsFiniteSet(S)
             /\ Cardinality(S) \in Nat
             /\ Cardinality(S) <= Cardinality(Runs)
             /\ Cardinality(Runs) \in Nat
  BY FS_Subset, FS_CardinalityType
<1>1. Init => LateInv
  BY <1>0 DEF Init, LateInv, Entering
<1>2. TypeOK /\ TypeOK' /\ LateInv /\ [Next]_vars => LateInv'
  <2> SUFFICES ASSUME TypeOK, TypeOK', LateInv, [Next]_vars PROVE LateInv'
    OBVIOUS
  <2> USE DEF LateInv
  <2>n. /\ late \in Nat /\ late' \in Nat
        /\ Cardinality(Entering) \in Nat /\ Cardinality(Entering') \in Nat
        /\ Cardinality(Entering') <= Cardinality(Runs)
        /\ Cardinality(Runs) \in Nat
    BY <1>0 DEF Entering, TypeOK
  <2>a. ASSUME Entering' \subseteq Entering, riskState' = riskState, late' = late
        PROVE  LateInv'
    <3>1. Cardinality(Entering') <= Cardinality(Entering)
      BY <1>0, <2>a, FS_Subset DEF Entering
    <3>2. QED
      BY <2>a, <2>n, <3>1
  <2>b. ASSUME NEW r \in Runs, pc[r] = "entry", Entering' = Entering \ {r},
               late' = late \/ (late' = late + 1 /\ riskState = "HALTED"),
               riskState' = riskState
        PROVE  LateInv'
    <3>1. Cardinality(Entering') = Cardinality(Entering) - 1
      <4>1. r \in Entering /\ IsFiniteSet(Entering)
        BY <1>0, <2>b DEF Entering
      <4>2. QED
        BY <2>b, <4>1, FS_RemoveElement
    <3>2. QED
      BY <2>b, <2>n, <3>1
  <2>s. ASSUME NEW s \in {"RUNNING", "HALTED"}, SetState(s), Entering' \subseteq Entering
        PROVE  LateInv'
    <3>1. CASE s = "RUNNING"
      BY <2>n, <2>s, <3>1 DEF SetState
    <3>2. CASE s = "HALTED"
      <4>1. riskState' = "HALTED" /\ late' = late
        BY <2>s, <3>2 DEF SetState
      <4>2. Cardinality(Entering') <= Cardinality(Entering)
        BY <1>0, <2>s, FS_Subset DEF Entering
      <4>3. QED
        BY <2>n, <4>1, <4>2
    <3>3. QED
      BY <3>1, <3>2
  <2>e. ASSUME NEW r \in Runs, Apart(r), pc[r] = "entry" \/ pc'[r] # "entry"
        PROVE  Entering' \subseteq Entering
    BY <2>e DEF Apart, Entering
  <2> HIDE DEF LateInv
  <2>1. CASE Market \/ NextDay \/ PutConfig
    BY <2>1, <2>a DEF Market, NextDay, PutConfig, haltVars, runVars, Entering
  <2>2. CASE TimerFires \/ AutoLog
    BY <2>2, <2>a DEF TimerFires, AutoLog, haltVars, runVars, Entering
  <2>3. CASE AutoResume
    BY <2>3, <2>s DEF AutoResume, runVars, Entering
  <2>4. CASE CrashRestart
    <3>1. Entering' = {}
      BY <2>4 DEF CrashRestart, Entering
    <3>2. QED
      BY <2>4, <2>a, <3>1 DEF CrashRestart, haltVars
  <2>5. ASSUME NEW s \in Symbols, ClosePosition(s) PROVE LateInv'
    BY <2>5, <2>a DEF ClosePosition, haltVars, runVars, Entering
  <2>6. ASSUME NEW h \in Handlers, PostHalt(h) \/ PostResume(h) PROVE LateInv'
    <3>1. PICK s \in {"RUNNING", "HALTED"}, place \in {"HALT", "RESUME"} :
            PostSet(h, s, place)
      BY <2>6 DEF PostHalt, PostResume
    <3>2. QED
      BY <2>s, <3>1 DEF PostSet, runVars, Entering
  <2>7. ASSUME NEW h \in Handlers, PostLog(h) PROVE LateInv'
    BY <2>7, <2>a DEF PostLog, runVars, Entering
  <2>8. ASSUME NEW r \in Runs, RunStep(r) PROVE LateInv'
    <3>1. Apart(r)
      BY <2>8, RunsApart
    <3>2. CASE Passes(r)
      <4>1. riskState # "HALTED" /\ UNCHANGED <<riskState, late>>
        BY <3>2 DEF Passes, Verdict, Proceeds, haltVars
      <4>2. QED
        BY <2>n, <4>1 DEF LateInv, TypeOK
    <3>3. CASE ~Passes(r)
      <4>1. Entering' \subseteq Entering
        BY <2>8, <2>e, <3>1, <3>3, RunGoes DEF Along
      <4>2. CASE HaltSet(r)
        BY <2>s, <4>1, <4>2 DEF HaltSet
      <4>3. CASE SendEntry(r)
                 \/ (OrderFails(r) /\ pc[r] = "entry" /\ NewEntry(Sym(r)))
        <5>1. NewEntry(Sym(r)) /\ riskState' = riskState
          BY <4>3 DEF SendEntry, OrderFails
        <5>2. late' = late \/ (late' = late + 1 /\ riskState = "HALTED")
          <6>1. late' = IF riskState = "HALTED" THEN late + 1 ELSE late
            BY <5>1, Zenon DEF NewEntry
          <6>2. QED
            BY <6>1
        <5>3. pc[r] = "entry" /\ pc'[r] # "entry"
          <6>1. CASE SendEntry(r)
            BY <6>1 DEF SendEntry, Goto, TypeOK
          <6>2. CASE OrderFails(r)
            BY <4>3, <6>2, ItemTypes DEF OrderFails, SendEntry
          <6>3. QED
            BY <4>3, <6>1, <6>2
        <5>4. Entering' = Entering \ {r}
          BY <3>1, <5>3 DEF Apart, Entering
        <5>5. QED
          BY <2>b, <5>1, <5>2, <5>3, <5>4
      <4>4. CASE UNCHANGED <<riskState, late>>
        BY <2>a, <4>1, <4>4
      <4>5. CASE OrderFails(r)
        <5>1. \/ UNCHANGED <<riskState, late>>
              \/ pc[r] = "entry" /\ NewEntry(Sym(r))
          BY <4>5 DEF OrderFails
        <5>2. QED
          BY <4>3, <4>4, <4>5, <5>1
      <4>6. CASE Check(r)
        <5>1. HaltSet(r) \/ UNCHANGED <<riskState, late>>
          BY <4>6, <3>3
             DEF Check, LoadConfig, IsHalted, CheckThrows, Refused,
                 TripsBreaker, Verdict, HaltLog, haltVars
        <5>2. QED
          BY <4>2, <4>4, <5>1
      <4>7. CASE Advance(r) /\ ~Check(r)
        <5>1. SendEntry(r) \/ UNCHANGED <<riskState, late>>
          BY <4>7
             DEF Advance, NoSignal, ReadAccount, DayRead, DayInsert,
                 DayInsertConflict, DayUpdate, SetLeverage, SetMode,
                 SettingsDone, SendStop, SendTarget, InsertRow, Add, haltVars
        <5>2. QED
          BY <4>3, <4>4, <5>1
      <4>8. CASE Begin(r) \/ RunFails(r)
        BY <4>4, <4>8 DEF Begin, RunFails, haltVars
      <4>9. QED
        BY <2>8, <4>5, <4>6, <4>7, <4>8 DEF RunStep
    <3>4. QED
      BY <3>2, <3>3
  <2>9. CASE UNCHANGED vars
    BY <2>9, <2>a DEF vars, haltVars, runVars, Entering
  <2>10. QED
    BY <2>1, <2>2, <2>3, <2>4, <2>5, <2>6, <2>7, <2>8, <2>9
       DEF Next, Resume, RunStep
<1>3. TypeOK /\ LateInv => LateEntriesBounded
  <2> SUFFICES ASSUME TypeOK, LateInv PROVE LateEntriesBounded
    OBVIOUS
  <2>1. Cardinality(Entering) \in Nat /\ Cardinality(Runs) \in Nat /\ late \in Nat
    BY <1>0 DEF Entering, TypeOK
  <2>2. QED
    BY <2>1 DEF LateInv, LateEntriesBounded
<1>4. QED
  BY <1>1, <1>2, <1>3, TypeCorrect, PTL DEF Spec

-----------------------------------------------------------------------------
(* No entry before both settings: the symbol is marked as done only after   *)
(* both calls, a run between them has made the first, and a run past them   *)
(* has found the mark or made both.                                         *)
Settled(part, done) == part \in Configured => part \in done

SettledInv ==
  /\ \A s \in applied : settled[s] = Configured
  /\ \A r \in Runs : pc[r] = "mode" => Settled("leverage", settled[Sym(r)])
  /\ \A r \in Runs :
       pc[r] \in {"config", "look", "entry"} => settled[Sym(r)] = Configured
  /\ SettingsBeforeEntry

(* No entry is sent before what is configured of them has been accepted,    *)
(* for any number of runs and symbols (ensureSymbolSettings).               *)
THEOREM SettingsComeFirst == Spec => []SettingsBeforeEntry
<1> USE RiskGuardAssumption
<1>1. Init => SettledInv
  BY DEF Init, SettledInv, SettingsBeforeEntry
<1>2. TypeOK /\ TypeOK' /\ SettledInv /\ [Next]_vars => SettledInv'
  <2> SUFFICES ASSUME TypeOK, TypeOK', SettledInv, [Next]_vars
               PROVE  SettledInv'
    OBVIOUS
  <2> USE DEF Settled
  <2>a. ASSUME UNCHANGED <<settled, applied, sent, pc, cursor>>
        PROVE  SettledInv'
    BY <2>a DEF SettledInv, SettingsBeforeEntry, Sym
  <2>1. CASE Market \/ NextDay \/ PutConfig
    BY <2>1, <2>a DEF Market, NextDay, PutConfig, tradeVars, setVars, runVars
  <2>2. CASE Resume
    BY <2>2, <2>a DEF Resume, TimerFires, AutoResume, AutoLog, tradeVars,
                      setVars, runVars
  <2>3. CASE CrashRestart
    BY <2>3 DEF CrashRestart, tradeVars, SettledInv, SettingsBeforeEntry
  <2>4. ASSUME NEW s \in Symbols, ClosePosition(s) PROVE SettledInv'
    BY <2>4, <2>a DEF ClosePosition, setVars, runVars
  <2>5. ASSUME NEW h \in Handlers, PostHalt(h) \/ PostResume(h) \/ PostLog(h)
        PROVE  SettledInv'
    BY <2>5, <2>a DEF PostHalt, PostResume, PostSet, PostLog, tradeVars,
                      setVars, runVars
  <2>6. ASSUME NEW r \in Runs, RunStep(r) PROVE SettledInv'
    <3>1. Apart(r)
      BY <2>6, RunsApart
    <3>2. pc'[r] \in {"idle", "item"} \/ Along(r)
      BY <2>6, RunGoes
    <3>y. Sym(r) \in Symbols
      BY DEF Sym, TypeOK
    <3>3. CASE SetLeverage(r)
      <4>1. /\ settled' = [settled EXCEPT ![Sym(r)] = @ \cup ({"leverage"} \cap Configured)]
            /\ applied' = applied /\ sent' = sent
            /\ pc[r] = "settings" /\ pc'[r] = "mode" /\ cursor' = cursor
        BY <3>3 DEF SetLeverage, At, Goto, tradeVars, TypeOK
      <4>2. \A s \in Symbols : settled[s] \subseteq settled'[s]
        BY <3>y, <4>1 DEF TypeOK
      <4>3. ASSUME NEW s \in Symbols, settled[s] = Configured
            PROVE  settled'[s] = Configured
        <5>1. settled'[s] \subseteq Configured
          BY DEF TypeOK
        <5>2. Configured \subseteq settled'[s]
          BY <4>2, <4>3
        <5>3. QED
          BY <5>1, <5>2
      <4>4. \A q \in Runs : Sym(q) \in Symbols /\ Sym(q)' = Sym(q)
        BY <4>1 DEF Sym, TypeOK
      <4>5. Settled("leverage", settled'[Sym(r)])
        BY <3>y, <4>1 DEF TypeOK
      <4>6. QED
        BY <3>1, <4>1, <4>2, <4>3, <4>4, <4>5
           DEF Apart, SettledInv, SettingsBeforeEntry, TypeOK
    <3>4. CASE SetMode(r)
      <4>1. /\ settled' = [settled EXCEPT ![Sym(r)] = @ \cup ({"mode"} \cap Configured)]
            /\ applied' = applied \cup {Sym(r)} /\ sent' = sent
            /\ pc[r] = "mode" /\ pc'[r] = "config" /\ cursor' = cursor
        BY <3>4 DEF SetMode, At, Goto, tradeVars, TypeOK
      <4>2. \A s \in Symbols : settled[s] \subseteq settled'[s]
        BY <3>y, <4>1 DEF TypeOK
      <4>3. ASSUME NEW s \in Symbols, settled[s] = Configured
            PROVE  settled'[s] = Configured
        <5>1. settled'[s] \subseteq Configured
          BY DEF TypeOK
        <5>2. Configured \subseteq settled'[s]
          BY <4>2, <4>3
        <5>3. QED
          BY <5>1, <5>2
      <4>4. \A q \in Runs : Sym(q) \in Symbols /\ Sym(q)' = Sym(q)
        BY <4>1 DEF Sym, TypeOK
      <4>5. settled'[Sym(r)] = Configured
        <5>1. Settled("leverage", settled[Sym(r)]) /\ settled[Sym(r)] \subseteq Configured
          BY <3>y, <4>1 DEF TypeOK, SettledInv
        <5>2. settled'[Sym(r)] = settled[Sym(r)] \cup ({"mode"} \cap Configured)
          BY <3>y, <4>1 DEF TypeOK
        <5>3. QED
          BY <5>1, <5>2
      <4>6. \A s \in applied' : settled'[s] = Configured
        BY <3>y, <4>1, <4>3, <4>5 DEF SettledInv, TypeOK
      <4>7. \A q \in Runs : pc'[q] = "mode" => Settled("leverage", settled'[Sym(q)'])
        BY <3>1, <4>1, <4>2, <4>4 DEF Apart, SettledInv
      <4>8. \A q \in Runs :
              pc'[q] \in {"config", "look", "entry"} => settled'[Sym(q)'] = Configured
        BY <3>1, <4>1, <4>3, <4>4, <4>5 DEF Apart, SettledInv
      <4>9. SettingsBeforeEntry'
        BY <4>1, <4>3 DEF SettledInv, SettingsBeforeEntry
      <4>10. QED
        BY <4>6, <4>7, <4>8, <4>9 DEF SettledInv
    <3>5. CASE UNCHANGED setVars /\ ~SetLeverage(r) /\ ~SetMode(r)
      <4>1. settled' = settled /\ applied' = applied
        BY <3>5 DEF setVars
      <4>2. \A s \in Symbols : sent'[s] > 0 => settled[s] = Configured
        <5>1. CASE pc[r] = "entry" /\ NewEntry(Sym(r))
          BY <3>y, <5>1 DEF NewEntry, SettledInv, SettingsBeforeEntry, TypeOK
        <5>2. CASE sent' = sent
          BY <5>2 DEF SettledInv, SettingsBeforeEntry
        <5>3. QED
          BY <2>6, <5>1, <5>2, RunTouches
             DEF tradeVars, SendStop, SendTarget, InsertRow, Add
      <4>3. pc'[r] # "mode"
        BY <3>2, <3>5 DEF Along
      <4>4. pc'[r] \in {"config", "look", "entry"} => settled[Sym(r)] = Configured
        <5>1. CASE SettingsDone(r)
          BY <5>1 DEF SettingsDone, SettledInv
        <5>2. CASE LoadConfig(r) \/ Passes(r)
          BY <5>2 DEF LoadConfig, Passes, Verdict, SettledInv
        <5>3. QED
          BY <3>2, <3>5, <5>1, <5>2 DEF Along
      <4>5. pc'[r] \in {"config", "look", "entry"} => Sym(r)' = Sym(r)
        BY <3>2 DEF Along, Sym
      <4>6. \A q \in Runs \ {r} : Sym(q)' = Sym(q) /\ pc'[q] = pc[q]
        BY <3>1 DEF Apart, Sym
      <4>7. QED
        BY <4>1, <4>2, <4>3, <4>4, <4>5, <4>6
           DEF SettledInv, SettingsBeforeEntry
    <3>6. QED
      BY <2>6, <3>3, <3>4, <3>5, RunTouches
  <2>7. CASE UNCHANGED vars
    BY <2>7, <2>a DEF vars, tradeVars, setVars, runVars
  <2>8. QED
    BY <2>1, <2>2, <2>3, <2>4, <2>5, <2>6, <2>7 DEF Next, RunStep
<1>3. SettledInv => SettingsBeforeEntry
  BY DEF SettledInv
<1>4. QED
  BY <1>1, <1>2, <1>3, TypeCorrect, PTL DEF Spec

-----------------------------------------------------------------------------
(* A row means both protective orders: each run places the orders of an     *)
(* entry of its own, numbered when it was sent, and is at its row only with *)
(* both of them there.  What exists of an entry never shrinks.              *)
Placed(r, part) == part \in parts[Sym(r)][mine[r]]

RowInv ==
  /\ \A s \in Symbols, e \in Entries : e > sent[s] => parts[s][e] = {}
  /\ \A r \in Runs : pc[r] \in {"sl", "tp", "row"} =>
       mine[r] \in 1..sent[Sym(r)] /\ Placed(r, "entry")
  /\ \A r \in Runs : pc[r] \in {"tp", "row"} => Placed(r, "sl")
  /\ \A r \in Runs : pc[r] = "row" => Placed(r, "tp")
  /\ RowMeansProtected

(* What exists of the entries grows, and a row comes only with the rest.    *)
Grows ==
  /\ \A s \in Symbols : sent[s] <= sent'[s]
  /\ \A s \in Symbols, e \in Entries : parts[s][e] \subseteq parts'[s][e]

(* A trade row has its entry and both protective orders, for any number of  *)
(* runs, failing calls and crashes (runOnce).                               *)
THEOREM RowsMeanProtection == Spec => []RowMeansProtected
<1> USE RiskGuardAssumption
<1>1. Init => RowInv
  BY DEF Init, RowInv, RowMeansProtected
<1>2. TypeOK /\ TypeOK' /\ RowInv /\ [Next]_vars => RowInv'
  <2> SUFFICES ASSUME TypeOK, TypeOK', RowInv, [Next]_vars PROVE RowInv'
    OBVIOUS
  <2>a. ASSUME UNCHANGED <<sent, parts, pc, cursor, mine>>
        PROVE  RowInv'
    BY <2>a DEF RowInv, RowMeansProtected, Placed, Sym
  <2>1. CASE Market \/ NextDay \/ PutConfig
    BY <2>1, <2>a DEF Market, NextDay, PutConfig, tradeVars, runVars
  <2>2. CASE Resume
    BY <2>2, <2>a DEF Resume, TimerFires, AutoResume, AutoLog, tradeVars, runVars
  <2>3. CASE CrashRestart
    BY <2>3 DEF CrashRestart, tradeVars, RowInv, RowMeansProtected, Placed
  <2>4. ASSUME NEW h \in Handlers, PostHalt(h) \/ PostResume(h) \/ PostLog(h)
        PROVE  RowInv'
    BY <2>4, <2>a DEF PostHalt, PostResume, PostSet, PostLog, tradeVars, runVars
  <2>y. \A r \in Runs : Sym(r) \in Symbols
    BY DEF Sym, TypeOK
  <2>m. \A r \in Runs : pc[r] \in {"sl", "tp", "row"} => mine[r] \in Entries
    <3>1. \A s \in Symbols : sent[s] \in 0..MaxEntries
      BY DEF TypeOK
    <3>2. QED
      BY <2>y, <3>1 DEF RowInv, Entries
  <2>t. \A u \in Symbols : sent[u] \in Nat /\ sent[u] <= sent[u]
    BY DEF TypeOK
  <2>k. ASSUME Grows, NEW q \in Runs, pc'[q] = pc[q], mine'[q] = mine[q],
               cursor'[q] = cursor[q]
        PROVE  /\ pc'[q] \in {"sl", "tp", "row"} =>
                    mine'[q] \in 1..sent'[Sym(q)'] /\ Placed(q, "entry")'
               /\ pc'[q] \in {"tp", "row"} => Placed(q, "sl")'
               /\ pc'[q] = "row" => Placed(q, "tp")'
    <3>1. Sym(q)' = Sym(q) /\ Sym(q) \in Symbols
      BY <2>k, <2>y DEF Sym
    <3>2. sent[Sym(q)] <= sent'[Sym(q)] /\ sent[Sym(q)] \in Nat /\ sent'[Sym(q)] \in Nat
      BY <2>k, <3>1 DEF Grows, TypeOK
    <3>3. \A part : pc[q] \in {"sl", "tp", "row"} /\ Placed(q, part)
                      => Placed(q, part)'
      BY <2>k, <2>m, <3>1 DEF Grows, Placed
    <3>4. QED
      BY <2>k, <3>1, <3>2, <3>3 DEF RowInv
  <2>5. ASSUME NEW s \in Symbols, ClosePosition(s) PROVE RowInv'
    <3>1. /\ parts' = [parts EXCEPT ![s] = [e \in Entries |->
                         IF e \in OpenEntries(s) THEN parts[s][e] \cup {"closed"}
                         ELSE parts[s][e]]]
          /\ sent' = sent /\ pc' = pc /\ mine' = mine /\ cursor' = cursor
      BY <2>5 DEF ClosePosition, runVars
    <3>2. \A u \in Symbols, e \in Entries :
            \/ parts'[u][e] = parts[u][e]
            \/ "entry" \in parts[u][e] /\ parts'[u][e] = parts[u][e] \cup {"closed"}
      BY <3>1 DEF TypeOK, OpenEntries
    <3>3. Grows
      BY <3>1, <3>2 DEF Grows, TypeOK
    <3>4. \A u \in Symbols, e \in Entries : e > sent'[u] => parts'[u][e] = {}
      BY <3>1, <3>2 DEF RowInv
    <3>5. RowMeansProtected'
      BY <3>2 DEF RowInv, RowMeansProtected
    <3>6. QED
      BY <2>k, <3>1, <3>3, <3>4, <3>5 DEF RowInv
  <2>6. ASSUME NEW r \in Runs, RunStep(r) PROVE RowInv'
    <3>1. Apart(r)
      BY <2>6, RunsApart
    <3>2. pc'[r] \in {"idle", "item"} \/ Along(r)
      BY <2>6, RunGoes
    <3>o. ASSUME Grows, NEW q \in Runs \ {r}
          PROVE  /\ pc'[q] \in {"sl", "tp", "row"} =>
                      mine'[q] \in 1..sent'[Sym(q)'] /\ Placed(q, "entry")'
                 /\ pc'[q] \in {"tp", "row"} => Placed(q, "sl")'
                 /\ pc'[q] = "row" => Placed(q, "tp")'
      BY <2>k, <3>o, <3>1 DEF Apart
    <3>3. CASE pc[r] = "entry" /\ NewEntry(Sym(r))
      <4> DEFINE s == Sym(r)
                 n == sent[s] + 1
      <4>1. s \in Symbols /\ n \in Entries /\ n > sent[s] /\ sent[s] \in Nat
        <5>1. s \in Symbols /\ sent[s] < MaxEntries
          BY <2>y, <3>3 DEF NewEntry
        <5>2. sent[s] \in 0..MaxEntries
          BY <5>1 DEF TypeOK
        <5> HIDE DEF s
        <5>3. QED
          BY <5>1, <5>2, RiskGuardAssumption DEF Entries
      <4>2. /\ sent' = [sent EXCEPT ![s] = n]
            /\ parts' = [parts EXCEPT ![s] = [parts[s] EXCEPT ![n] = {"entry"}]]
        BY <3>3 DEF NewEntry
      <4> HIDE DEF n
      <4>3. parts[s][n] = {}
        BY <4>1 DEF RowInv
      <4>4. \A u \in Symbols, e \in Entries :
              \/ u = s /\ e = n /\ parts'[u][e] = {"entry"}
              \/ ~(u = s /\ e = n) /\ parts'[u][e] = parts[u][e]
        BY <4>1, <4>2 DEF TypeOK
      <4>5. Grows
        <5>1. \A u \in Symbols : sent[u] <= sent'[u]
          BY <4>1, <4>2 DEF TypeOK
        <5>2. \A u \in Symbols, e \in Entries : parts[u][e] \subseteq parts'[u][e]
          BY <4>3, <4>4
        <5>3. QED
          BY <5>1, <5>2 DEF Grows
      <4>6. \A u \in Symbols, e \in Entries : e > sent'[u] => parts'[u][e] = {}
        <5>1. \A u \in Symbols : u # s => sent'[u] = sent[u]
          BY <4>1, <4>2 DEF TypeOK
        <5>2. sent'[s] = n
          BY <4>1, <4>2 DEF TypeOK
        <5>3. \A e \in Entries : e > n => e > sent[s] /\ e # n
          BY <4>1 DEF Entries
        <5>4. QED
          BY <4>4, <5>1, <5>2, <5>3 DEF RowInv
      <4>7. RowMeansProtected'
        BY <4>4 DEF RowInv, RowMeansProtected
      <4>8. /\ pc'[r] \notin {"tp", "row"}
            /\ pc'[r] = "sl" => mine'[r] = n /\ Sym(r)' = s
        BY <3>2, <3>3 DEF Along, SendStop, SendTarget, At, SendEntry, Sym, n, TypeOK
      <4>9. pc'[r] = "sl" => mine'[r] \in 1..sent'[Sym(r)'] /\ Placed(r, "entry")'
        BY <4>1, <4>2, <4>4, <4>8 DEF Placed, TypeOK, Entries
      <4>10. QED
        BY <3>o, <4>5, <4>6, <4>7, <4>8, <4>9 DEF RowInv
    <3>4. ASSUME NEW part \in {"sl", "tp", "row"}, pc[r] = part, Add(r, part),
                 part = "row" => pc'[r] \in {"idle", "item"}
          PROVE  RowInv'
      <4> DEFINE s == Sym(r)
                 n == mine[r]
      <4>1. s \in Symbols /\ n \in Entries /\ n \in 1..sent[s]
        BY <2>y, <2>m, <3>4 DEF RowInv
      <4>2. parts' = [parts EXCEPT ![s] = [parts[s] EXCEPT ![n] = @ \cup {part}]]
        BY <3>4 DEF Add
      <4>3. sent' = sent
        BY <3>4 DEF Add
      <4>4. \A u \in Symbols, e \in Entries :
              \/ u = s /\ e = n /\ parts'[u][e] = parts[u][e] \cup {part}
              \/ ~(u = s /\ e = n) /\ parts'[u][e] = parts[u][e]
        BY <4>1, <4>2 DEF TypeOK
      <4>5. Grows
        <5>1. \A u \in Symbols, e \in Entries : parts[u][e] \subseteq parts'[u][e]
          BY <4>4
        <5>2. QED
          BY <2>t, <4>3, <5>1 DEF Grows
      <4>6. \A u \in Symbols, e \in Entries : e > sent'[u] => parts'[u][e] = {}
        <5>1. ~(n > sent[s])
          BY <2>t, <4>1 DEF Entries
        <5>2. QED
          BY <4>3, <4>4, <5>1 DEF RowInv
      <4>7. RowMeansProtected'
        <5>1. part = "row" => {"entry", "sl", "tp"} \subseteq parts[s][n]
          BY <3>4 DEF RowInv, Placed
        <5>2. QED
          BY <3>4, <4>4, <5>1 DEF RowInv, RowMeansProtected
      <4>8. \/ pc'[r] \in {"idle", "item"}
            \/ part = "sl" /\ SendStop(r)
            \/ part = "tp" /\ SendTarget(r)
            \/ pc'[r] \notin {"sl", "tp", "row"}
        BY <3>2, <3>4 DEF Along, SendEntry, SendStop, SendTarget, At
      <4>9. /\ pc'[r] \in {"sl", "tp", "row"} =>
                 mine'[r] \in 1..sent'[Sym(r)'] /\ Placed(r, "entry")'
            /\ pc'[r] \in {"tp", "row"} => Placed(r, "sl")'
            /\ pc'[r] = "row" => Placed(r, "tp")'
        <5>1. CASE part = "sl" /\ SendStop(r)
          <6>1. pc'[r] = "tp" /\ mine'[r] = n /\ Sym(r)' = s
            BY <5>1 DEF SendStop, At, Goto, Sym, TypeOK
          <6>2. "entry" \in parts[s][n]
            BY <3>4 DEF RowInv, Placed
          <6>3. QED
            BY <4>1, <4>3, <4>4, <5>1, <6>1, <6>2 DEF Placed
        <5>2. CASE part = "tp" /\ SendTarget(r)
          <6>1. pc'[r] = "row" /\ mine'[r] = n /\ Sym(r)' = s
            BY <5>2 DEF SendTarget, At, Goto, Sym, TypeOK
          <6>2. {"entry", "sl"} \subseteq parts[s][n]
            BY <3>4, <5>2 DEF RowInv, Placed
          <6>3. QED
            BY <4>1, <4>3, <4>4, <5>2, <6>1, <6>2 DEF Placed
        <5>3. QED
          BY <4>8, <5>1, <5>2
      <4>10. QED
        BY <3>o, <4>5, <4>6, <4>7, <4>9 DEF RowInv
    <3>5. CASE SendStop(r)
      BY <3>4, <3>5 DEF SendStop, At
    <3>6. CASE SendTarget(r)
      BY <3>4, <3>6 DEF SendTarget, At
    <3>7. CASE InsertRow(r)
      BY <3>4, <3>7, ItemTypes DEF InsertRow
    <3>8. CASE UNCHANGED tradeVars
      <4>1. sent' = sent /\ parts' = parts
        BY <3>8 DEF tradeVars
      <4>2. Grows
        BY <4>1 DEF Grows, TypeOK
      <4>3. CASE pc'[r] \notin {"sl", "tp", "row"}
        BY <3>o, <4>1, <4>2, <4>3 DEF RowInv, RowMeansProtected
      <4>4. CASE pc'[r] \in {"sl", "tp", "row"}
        <5>1. SendEntry(r) \/ SendStop(r) \/ SendTarget(r)
          BY <3>2, <4>4 DEF Along
        <5>2. QED
          BY <3>3, <3>5, <3>6, <5>1 DEF SendEntry
      <4>5. QED
        BY <4>3, <4>4
    <3>9. QED
      BY <2>6, <3>3, <3>5, <3>6, <3>7, <3>8, RunTouches
  <2>7. CASE UNCHANGED vars
    BY <2>7, <2>a DEF vars, tradeVars, runVars
  <2>8. QED
    BY <2>1, <2>2, <2>3, <2>4, <2>5, <2>6, <2>7 DEF Next, RunStep
<1>3. RowInv => RowMeansProtected
  BY DEF RowInv
<1>4. QED
  BY <1>1, <1>2, <1>3, TypeCorrect, PTL DEF Spec

-----------------------------------------------------------------------------
(* The exposure limit is exceeded by no more than one entry per run: a run  *)
(* that may still send an entry has read an exposure within the limit, and  *)
(* each entry takes one such run away.                                      *)
Holding(s) == {r \in Runs : /\ Sym(r) = s
                            /\ pc[r] \in Before
                            /\ account[r].exposure <= MaxExposure}

ExposureInv ==
  /\ \A s \in Symbols :
       Exposure(s) + Cardinality(Holding(s)) <= MaxExposure + Cardinality(Runs)
  /\ \A r \in Runs : pc[r] = "entry" => account[r].exposure <= MaxExposure

LEMMA Counts ==
  ASSUME TypeOK, NEW s \in Symbols
  PROVE  /\ IsFiniteSet(OpenEntries(s)) /\ Exposure(s) \in Nat
         /\ IsFiniteSet(Holding(s)) /\ Cardinality(Holding(s)) \in Nat
         /\ Cardinality(Holding(s)) <= Cardinality(Runs)
         /\ Cardinality(Runs) \in Nat
<1> USE RiskGuardAssumption
<1>1. IsFiniteSet(Entries)
  BY FS_Interval DEF Entries
<1>2. OpenEntries(s) \subseteq Entries /\ Holding(s) \subseteq Runs
  BY DEF OpenEntries, Holding
<1>3. QED
  BY <1>1, <1>2, FS_Subset, FS_CardinalityType DEF Exposure

(* The exposure of a symbol exceeds its limit by at most one entry per run  *)
(* that can overlap (the account is read before the check).                 *)
THEOREM ExposureIsBounded == Spec => []ExposureBounded
<1> USE RiskGuardAssumption
<1>1. Init => ExposureInv
  <2> SUFFICES ASSUME Init PROVE ExposureInv
    OBVIOUS
  <2>1. ASSUME NEW s \in Symbols PROVE OpenEntries(s) = {} /\ Holding(s) = {}
    BY DEF Init, OpenEntries, Holding, Before
  <2>2. Cardinality({}) = 0 /\ Cardinality(Runs) \in Nat
    BY FS_EmptySet, FS_CardinalityType
  <2>3. \A s \in Symbols :
          Exposure(s) + Cardinality(Holding(s)) <= MaxExposure + Cardinality(Runs)
    BY <2>1, <2>2 DEF Exposure
  <2>4. QED
    BY <2>3 DEF ExposureInv, Init
<1>2. TypeOK /\ TypeOK' /\ ExposureInv /\ [Next]_vars => ExposureInv'
  <2> SUFFICES ASSUME TypeOK, TypeOK', ExposureInv, [Next]_vars
               PROVE  ExposureInv'
    OBVIOUS
  <2>n. ASSUME NEW s \in Symbols
        PROVE  /\ Exposure(s) \in Nat /\ Exposure(s)' \in Nat
               /\ Cardinality(Holding(s)) \in Nat
               /\ Cardinality(Holding(s)') \in Nat
               /\ Cardinality(Holding(s)') <= Cardinality(Runs)
               /\ IsFiniteSet(Holding(s)) /\ IsFiniteSet(OpenEntries(s))
               /\ Cardinality(Runs) \in Nat /\ MaxExposure \in Nat
               /\ Exposure(s) + Cardinality(Holding(s))
                    <= MaxExposure + Cardinality(Runs)
    <3>1. TypeOK /\ s \in Symbols => /\ Exposure(s) \in Nat
                                     /\ Cardinality(Holding(s)) \in Nat
                                     /\ Cardinality(Holding(s)) <= Cardinality(Runs)
      BY Counts
    <3>2. (TypeOK /\ s \in Symbols => /\ Exposure(s) \in Nat
                                      /\ Cardinality(Holding(s)) \in Nat
                                      /\ Cardinality(Holding(s)) <= Cardinality(Runs))'
      BY <3>1, Counts, PTL
    <3>3. QED
      BY <3>1, <3>2, Counts DEF ExposureInv
  <2>a. ASSUME NEW s \in Symbols, OpenEntries(s)' \subseteq OpenEntries(s),
               Holding(s)' \subseteq Holding(s)
        PROVE  Exposure(s)' + Cardinality(Holding(s)')
                 <= MaxExposure + Cardinality(Runs)
    <3>1. /\ Exposure(s)' <= Exposure(s)
          /\ Cardinality(Holding(s)') <= Cardinality(Holding(s))
      BY <2>a, <2>n, FS_Subset DEF Exposure
    <3>2. QED
      BY <2>n, <3>1
  <2>b. ASSUME UNCHANGED <<pc, cursor, account>>,
               \A s \in Symbols : OpenEntries(s)' \subseteq OpenEntries(s)
        PROVE  ExposureInv'
    <3>1. \A s \in Symbols : Holding(s)' \subseteq Holding(s)
      BY <2>b DEF Holding, Sym
    <3>2. QED
      BY <2>a, <2>b, <3>1 DEF ExposureInv
  <2>c. ASSUME parts' = parts
        PROVE  \A s \in Symbols : OpenEntries(s)' = OpenEntries(s)
    BY <2>c DEF OpenEntries
  <2>1. CASE Market \/ NextDay \/ PutConfig
    BY <2>1, <2>b, <2>c DEF Market, NextDay, PutConfig, tradeVars, runVars
  <2>2. CASE Resume
    BY <2>2, <2>b, <2>c DEF Resume, TimerFires, AutoResume, AutoLog, tradeVars,
                            runVars
  <2>3. CASE CrashRestart
    <3>1. \A s \in Symbols : Holding(s)' = {}
      BY <2>3 DEF CrashRestart, Holding, Before
    <3>2. \A r \in Runs : pc'[r] = "idle"
      BY <2>3 DEF CrashRestart
    <3>3. parts' = parts
      BY <2>3 DEF CrashRestart, tradeVars
    <3>4. QED
      BY <2>a, <2>c, <3>1, <3>2, <3>3 DEF ExposureInv
  <2>4. ASSUME NEW h \in Handlers, PostHalt(h) \/ PostResume(h) \/ PostLog(h)
        PROVE  ExposureInv'
    BY <2>4, <2>b, <2>c DEF PostHalt, PostResume, PostSet, PostLog, tradeVars,
                            runVars
  <2>5. ASSUME NEW u \in Symbols, ClosePosition(u) PROVE ExposureInv'
    <3>1. \A s \in Symbols, e \in Entries :
            \/ parts'[s][e] = parts[s][e]
            \/ parts'[s][e] = parts[s][e] \cup {"closed"}
      BY <2>5 DEF ClosePosition, TypeOK
    <3>2. \A s \in Symbols : OpenEntries(s)' \subseteq OpenEntries(s)
      BY <3>1 DEF OpenEntries
    <3>3. QED
      BY <2>5, <2>b, <3>2 DEF ClosePosition, runVars
  <2>6. ASSUME NEW r \in Runs, RunStep(r) PROVE ExposureInv'
    <3>1. Apart(r)
      BY <2>6, RunsApart
    <3>2. pc'[r] \in {"idle", "item"} \/ Along(r)
      BY <2>6, RunGoes
    <3>3. \A s \in Symbols : Holding(s)' \ {r} \subseteq Holding(s)
      BY <3>1 DEF Apart, Holding, Sym
    <3>4. pc'[r] = "entry" => account'[r].exposure <= MaxExposure
      BY <3>2 DEF Along, Passes, WithinExposure, At, Before
    <3>5. \A q \in Runs : pc'[q] = "entry" => account'[q].exposure <= MaxExposure
      BY <3>1, <3>4 DEF Apart, ExposureInv
    <3>6. SUFFICES ASSUME NEW s \in Symbols
                   PROVE  Exposure(s)' + Cardinality(Holding(s)')
                            <= MaxExposure + Cardinality(Runs)
      BY <3>5 DEF ExposureInv
    <3>7. CASE ReadAccount(r)
      <4>1. OpenEntries(s)' = OpenEntries(s)
        BY <2>c, <3>7 DEF ReadAccount, tradeVars
      <4>2. CASE Exposure(s) <= MaxExposure
        BY <2>n, <4>1, <4>2 DEF Exposure
      <4>3. CASE ~(Exposure(s) <= MaxExposure)
        <5>1. r \notin Holding(s)'
          <6>1. account'[r].exposure = Exposure(Sym(r)) /\ Sym(r)' = Sym(r)
            BY <3>7 DEF ReadAccount, Sym, TypeOK
          <6>2. QED
            BY <4>3, <6>1 DEF Holding
        <5>2. QED
          BY <2>a, <3>3, <4>1, <5>1
      <4>4. QED
        BY <4>2, <4>3
    <3>8. ASSUME ~ReadAccount(r) PROVE Holding(s)' \subseteq Holding(s)
      <4>1. r \in Holding(s)' => r \in Holding(s)
        BY <3>2, <3>8 DEF Along, Holding, Sym, Before
      <4>2. QED
        BY <3>3, <4>1
    <3>9. CASE pc[r] = "entry" /\ NewEntry(Sym(r))
      <4> DEFINE n == sent[Sym(r)] + 1
      <4>1. Sym(r) \in Symbols /\ n \in Entries
        BY <3>9 DEF NewEntry, TypeOK, Entries, Sym
      <4>2. parts' = [parts EXCEPT ![Sym(r)] = [parts[Sym(r)] EXCEPT ![n] = {"entry"}]]
        BY <3>9 DEF NewEntry
      <4> HIDE DEF n
      <4>3. ~ReadAccount(r)
        BY <3>9 DEF ReadAccount
      <4>4. CASE s = Sym(r)
        <5>1. OpenEntries(s)' \subseteq OpenEntries(s) \cup {n}
          BY <4>1, <4>2, <4>4 DEF OpenEntries, TypeOK
        <5>2. Exposure(s)' <= Exposure(s) + 1
          <6>1. /\ IsFiniteSet(OpenEntries(s) \cup {n})
                /\ Cardinality(OpenEntries(s) \cup {n}) <= Exposure(s) + 1
            <7>1. /\ Cardinality(OpenEntries(s)) \in Nat
                  /\ Exposure(s) = Cardinality(OpenEntries(s))
                  /\ IsFiniteSet(OpenEntries(s))
              BY <2>n DEF Exposure
            <7>2. /\ IsFiniteSet(OpenEntries(s) \cup {n})
                  /\ \/ Cardinality(OpenEntries(s) \cup {n}) = Exposure(s)
                     \/ Cardinality(OpenEntries(s) \cup {n}) = Exposure(s) + 1
              BY <7>1, FS_AddElement
            <7>3. QED
              BY <7>1, <7>2
          <6>2. /\ Cardinality(OpenEntries(s)') <= Cardinality(OpenEntries(s) \cup {n})
                /\ Cardinality(OpenEntries(s) \cup {n}) \in Nat
            BY <5>1, <6>1, FS_Subset, FS_CardinalityType
          <6>3. QED
            BY <2>n, <6>1, <6>2 DEF Exposure
        <5>3. r \in Holding(s)
          BY <3>9, <4>4 DEF Holding, ExposureInv, Before
        <5>4. r \notin Holding(s)'
          <6>1. pc'[r] \notin Before
            BY <3>2, <3>9, <4>3 DEF Along, Before
          <6>2. QED
            BY <6>1 DEF Holding
        <5>5. Cardinality(Holding(s)') <= Cardinality(Holding(s)) - 1
          <6>1. Holding(s)' \subseteq Holding(s) \ {r}
            BY <3>8, <4>3, <5>4
          <6>2. /\ IsFiniteSet(Holding(s) \ {r})
                /\ Cardinality(Holding(s) \ {r}) = Cardinality(Holding(s)) - 1
            BY <2>n, <5>3, FS_RemoveElement
          <6>3. QED
            BY <6>1, <6>2, FS_Subset
        <5>6. QED
          BY <2>n, <5>2, <5>5
      <4>5. CASE s # Sym(r)
        <5>1. OpenEntries(s)' = OpenEntries(s)
          BY <4>1, <4>2, <4>5 DEF OpenEntries, TypeOK
        <5>2. QED
          BY <2>a, <3>8, <4>3, <5>1
      <4>6. QED
        BY <4>4, <4>5
    <3>10. CASE SendStop(r) \/ SendTarget(r) \/ InsertRow(r)
      <4>1. PICK part \in {"sl", "tp", "row"} : Add(r, part)
        BY <3>10 DEF SendStop, SendTarget, InsertRow
      <4>2. \A e \in Entries : \/ parts'[s][e] = parts[s][e]
                               \/ parts'[s][e] = parts[s][e] \cup {part}
        BY <4>1 DEF Add, TypeOK
      <4>3. OpenEntries(s)' \subseteq OpenEntries(s)
        BY <4>2 DEF OpenEntries
      <4>4. QED
        BY <2>a, <3>7, <3>8, <4>3
    <3>11. CASE UNCHANGED tradeVars
      <4>1. OpenEntries(s)' = OpenEntries(s)
        BY <2>c, <3>11 DEF tradeVars
      <4>2. QED
        BY <2>a, <3>7, <3>8, <4>1
    <3>12. QED
      BY <2>6, <3>9, <3>10, <3>11, RunTouches
  <2>7. CASE UNCHANGED vars
    BY <2>7, <2>b, <2>c DEF vars, tradeVars, runVars
  <2>8. QED
    BY <2>1, <2>2, <2>3, <2>4, <2>5, <2>6, <2>7 DEF Next, RunStep
<1>3. TypeOK /\ ExposureInv => ExposureBounded
  BY Counts DEF ExposureInv, ExposureBounded
<1>4. QED
  BY <1>1, <1>2, <1>3, TypeCorrect, PTL DEF Spec
=============================================================================
