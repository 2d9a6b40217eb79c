-------------------------- MODULE AdaptiveGridProofs --------------------------
(***************************************************************************)
(* Proofs about the single-market controller: its types, that no level     *)
(* ever has two executors, the caps and the limits of the exposure, that   *)
(* no order is left that would take, and that what a mainnet canary        *)
(* creates is within the budget of its configuration.                      *)
(***************************************************************************)
EXTENDS AdaptiveGrid, MainnetCanary, FiniteSetTheorems, WellFoundedInduction, TLAPS

(* The operators the steps are built from. *)

\* What the assumptions say of the constants, with the sets unfolded.
LEMMA Parameters ==
    /\ Buys \in Nat /\ Sells \in Nat
    /\ MaxLifetime \in Nat /\ StaleTimeout \in Nat /\ PauseSeconds \in Nat
    /\ IsFiniteSet(Slots)
    /\ \A q \in Quotes : q.bid \in Nat /\ q.ask \in Nat
    /\ \A s \in Shapes : /\ s.ok \in BOOLEAN /\ s.significant \in BOOLEAN
                         /\ s.soft \in BOOLEAN /\ s.prices \in [Levels -> Nat]
  BY LimitsAssumption, InputsAssumption

\* An executor is what its fields say.
LEMMA ExecutorType ==
  ASSUME NEW phase \in Phases, NEW level \in Levels \union {0}, NEW price \in Nat,
         NEW age \in 0..MaxLifetime, NEW stopping \in BOOLEAN
  PROVE  /\ Executor(phase, level, price, age, stopping) \in Executors
         /\ Executor(phase, level, price, age, stopping).phase = phase
         /\ Executor(phase, level, price, age, stopping).level = level
  BY DEF Executor, Executors

LEMMA TerminalType ==
  ASSUME NEW phase \in Phases
  PROVE  /\ Terminal(phase) \in Executors
         /\ Terminal(phase).phase = phase /\ Terminal(phase).level = 0
<1>1. 0 \in Levels \union {0} /\ 0 \in Nat /\ 0 \in 0..MaxLifetime
  BY Parameters
<1> QED BY <1>1 DEF Terminal, Executor, Executors

\* The price of an order is a natural number.
LEMMA DesiredPriceType ==
  ASSUME TypeOK, NEW l \in Levels
  PROVE  DesiredPrice(l) \in Nat
<1>1. plan.prices[l] \in Nat
  BY DEF TypeOK, Plans
<1>2. market.bid \in Nat /\ market.ask \in Nat
  BY Parameters DEF TypeOK
<1> QED BY <1>1, <1>2 DEF DesiredPrice, MakerPrice

\* The errors and the pause after a tick has recorded the executors that closed.
LEMMA RecordType ==
  ASSUME TypeOK, RecordEnds(ErrorsNow, PauseNow)
  PROVE  /\ consecutive_order_errors' \in Nat
         /\ pause_left' \in {NoPause} \union (0..PauseSeconds)
<1>1. ErrorsNow \in Nat /\ PauseNow \in {NoPause} \union (0..PauseSeconds)
  BY DEF TypeOK, ErrorsNow, PauseNow
<1>2. PICK last \in 0..Cardinality(Ended("failed")), armed \in BOOLEAN :
        /\ consecutive_order_errors' = IF Cardinality(Ended("profit")) = 0
                                       THEN ErrorsNow + last ELSE last
        /\ pause_left' = IF armed THEN PausedAgain(PauseNow) ELSE PauseNow
  BY DEF RecordEnds
<1>3. Cardinality(Ended("failed")) \in Nat
  <2>1. Ended("failed") \subseteq Slots
    BY DEF Ended
  <2> QED BY <2>1, Parameters, FS_Subset, FS_CardinalityType
<1>4. PausedAgain(PauseNow) \in {NoPause} \union (0..PauseSeconds)
  BY <1>1, Parameters DEF PausedAgain, NoPause
<1> QED BY <1>1, <1>2, <1>3, <1>4

\* What a tick makes of a place: the executor there stays, on its level; or the
\* place is free and takes the entry of a level that had none; or it is left
\* empty.
LEMMA CarriedType ==
  ASSUME TypeOK, NEW C, C \subseteq Missing,
         NEW at \in [C -> Slots \ Active],
         \A l, m \in C : at[l] = at[m] => l = m,
         NEW e \in Slots, NEW n, n = Carried(e, Stops, C, at)
  PROVE  /\ n \in Executors
         /\ n.level = 0 <=> n.phase \notin {"resting", "filled"}
         /\ n.phase \in {"resting", "filled"} =>
              \/ e \in Active /\ n.level = executors[e].level
              \/ e \notin Active /\ n.level \in C /\ at[n.level] = e
<1>1. executors[e] \in Executors /\ (executors[e].level = 0 <=> e \notin Active)
  BY DEF TypeOK
<1>2. CASE e \in Stops
  <2>1. e \in Resting
    BY <1>2 DEF Stops
  <2>2. n = [phase |-> executors[e].phase, level |-> executors[e].level,
             price |-> executors[e].price, age |-> executors[e].age, stopping |-> TRUE]
    BY <1>2 DEF Carried, Executor
  <2> QED BY <1>1, <2>1, <2>2 DEF Executors, Resting, Active
<1>3. CASE e \notin Stops /\ e \in {at[l] : l \in C}
  <2>1. PICK l \in C : at[l] = e
    BY <1>3
  <2>2. (CHOOSE m \in C : at[m] = e) = l
    BY <2>1
  <2>3. n = Executor("resting", l, DesiredPrice(l), 0, FALSE)
    BY <1>3, <2>2 DEF Carried
  <2>4. l \in Levels /\ l # 0 /\ 0 \in 0..MaxLifetime
    BY <2>1, Parameters DEF Missing, Levels
  <2>5. DesiredPrice(l) \in Nat
    BY <2>4, DesiredPriceType
  <2>6. n \in Executors /\ n.phase = "resting" /\ n.level = l
    BY <2>3, <2>4, <2>5 DEF Executor, Executors, Phases
  <2> QED BY <2>1, <2>4, <2>6
<1>4. CASE e \notin Stops /\ e \notin {at[l] : l \in C} /\ executors[e].phase \in Closed
  <2>1. n = Terminal("none")
    BY <1>4 DEF Carried
  <2>2. n \in Executors /\ n.phase = "none" /\ n.level = 0
    BY <2>1, TerminalType DEF Phases
  <2> QED BY <2>2
<1>5. CASE e \notin Stops /\ e \notin {at[l] : l \in C} /\ executors[e].phase \notin Closed
  <2>1. n = executors[e]
    BY <1>5 DEF Carried
  <2> QED BY <1>1, <2>1 DEF Active
<1> QED BY <1>2, <1>3, <1>4, <1>5

-----------------------------------------------------------------------------
(* Every step keeps the inductive invariant. *)

IInv == TypeOK /\ OneEntryPerLevel

LEMMA InitInvariant == Init => IInv
<1> SUFFICES ASSUME Init PROVE IInv
  OBVIOUS
<1>1. Terminal("none") \in Executors /\ Terminal("none").phase = "none"
      /\ Terminal("none").level = 0
  BY TerminalType DEF Phases
<1>2. Active = {}
  BY <1>1 DEF Init, Active
<1>3. NoPlan \in Plans
  BY Parameters DEF NoPlan, Plans
<1>4. executors \in [Slots -> Executors]
      /\ \A e \in Slots : executors[e].level = 0 <=> e \notin Active
  BY <1>1, <1>2 DEF Init
<1>5. plan \in Plans /\ market \in Quotes /\ ready \in BOOLEAN
  BY <1>3 DEF Init
<1>6. /\ position \in Int /\ reported \in Int /\ consecutive_order_errors \in Nat
      /\ pause_left \in {NoPause} \union (0..PauseSeconds)
  BY DEF Init
<1>7. TypeOK
  BY <1>4, <1>5, <1>6 DEF TypeOK
<1> QED BY <1>2, <1>7 DEF IInv, OneEntryPerLevel

\* A step that leaves the executors in their places and on their levels, or
\* takes them away, leaves each level its one entry.
LEMMA FewerEntries ==
  ASSUME IInv, executors' \in [Slots -> Executors],
         \A e \in Slots : executors'[e].phase \in {"resting", "filled"} =>
            e \in Active /\ executors'[e].level = executors[e].level
  PROVE  OneEntryPerLevel'
  BY DEF IInv, OneEntryPerLevel, Active

LEMMA TickStep == IInv /\ Tick => IInv'
<1> SUFFICES ASSUME IInv, Tick PROVE IInv'
  OBVIOUS
<1>1. TypeOK /\ OneEntryPerLevel
  BY DEF IInv
<1>0. PICK C \in SUBSET Levels :
        /\ IsCreates(C)
        /\ \E at \in [C -> Slots \ Active] :
              /\ \A l, m \in C : at[l] = at[m] => l = m
              /\ executors' = [e \in Slots |-> Carried(e, Stops, C, at)]
  BY DEF Tick
<1>2. PICK at \in [C -> Slots \ Active] :
        /\ \A l, m \in C : at[l] = at[m] => l = m
        /\ executors' = [e \in Slots |-> Carried(e, Stops, C, at)]
  BY <1>0
<1>3. C \subseteq Missing
  BY <1>0 DEF IsCreates
<1>4. \A e \in Slots : 
        /\ executors'[e] \in Executors
        /\ executors'[e].level = 0 <=> executors'[e].phase \notin {"resting", "filled"}
        /\ executors'[e].phase \in {"resting", "filled"} =>
             \/ e \in Active /\ executors'[e].level = executors[e].level
             \/ e \notin Active /\ executors'[e].level \in C /\ at[executors'[e].level] = e
  <2> TAKE e \in Slots
  <2>1. executors'[e] = Carried(e, Stops, C, at)
    BY <1>2
  <2> QED BY <1>1, <1>2, <1>3, <2>1, CarriedType
<1>5. executors' \in [Slots -> Executors]
  BY <1>2, <1>4
<1>6. TypeOK'
  <2>1. consecutive_order_errors' \in Nat /\ pause_left' \in {NoPause} \union (0..PauseSeconds)
    BY <1>1, RecordType DEF Tick
  <2>2. \A e \in Slots : executors'[e].level = 0 <=> e \notin Active'
    BY <1>4 DEF Active
  <2>3. UNCHANGED <<plan, market, ready, position, reported>>
    BY DEF Tick
  <2> QED BY <1>1, <1>5, <2>1, <2>2, <2>3 DEF TypeOK
<1>7. OneEntryPerLevel'
  <2> SUFFICES ASSUME NEW e \in Active', NEW f \in Active',
                      executors'[e].level = executors'[f].level
               PROVE  e = f
    BY DEF OneEntryPerLevel
  <2>1. /\ e \in Slots /\ executors'[e].phase \in {"resting", "filled"}
        /\ f \in Slots /\ executors'[f].phase \in {"resting", "filled"}
    BY DEF Active
  <2>2. CASE e \in Active /\ f \in Active
    BY <1>1, <1>4, <2>1, <2>2 DEF OneEntryPerLevel
  <2>3. CASE e \notin Active /\ f \notin Active
    BY <1>4, <2>1, <2>3
  <2>4. \A d \in Active : executors[d].level \notin C
    BY <1>3 DEF Missing, LevelsOf
  <2> QED BY <1>4, <2>1, <2>2, <2>3, <2>4
<1> QED BY <1>6, <1>7 DEF IInv

\* A tick that raises only records the executors that have closed.
LEMMA TickRaisesStep == IInv /\ TickRaises => IInv'
<1> SUFFICES ASSUME IInv, TickRaises PROVE IInv'
  OBVIOUS
<1>1. TypeOK
  BY DEF IInv
<1>2. Terminal("none") \in Executors /\ Terminal("none").phase = "none"
      /\ Terminal("none").level = 0
  BY TerminalType DEF Phases
<1>3. \A e \in Slots : \/ executors'[e] = executors[e]
                       \/ executors'[e] = Terminal("none") /\ e \notin Active
  BY DEF TickRaises, Active, Closed
<1>4. executors' \in [Slots -> Executors]
  <2>1. executors' = [e \in Slots |-> executors'[e]]
    BY DEF TickRaises
  <2>2. \A e \in Slots : executors'[e] \in Executors
    BY <1>1, <1>2, <1>3 DEF TypeOK
  <2> QED BY <2>1, <2>2
<1>5. \A e \in Slots : executors'[e].level = 0 <=> e \notin Active'
  BY <1>1, <1>2, <1>3 DEF TypeOK, Active
<1>6. consecutive_order_errors' \in Nat /\ pause_left' \in {NoPause} \union (0..PauseSeconds)
  BY <1>1, RecordType DEF TickRaises
<1>7. TypeOK'
  BY <1>1, <1>4, <1>5, <1>6 DEF TypeOK, TickRaises
<1>8. OneEntryPerLevel'
  BY <1>2, <1>3, <1>4, FewerEntries DEF Active
<1> QED BY <1>7, <1>8 DEF IInv

\* Time only changes ages.
LEMMA AdvanceStep == IInv /\ Advance => IInv'
<1> SUFFICES ASSUME IInv, Advance PROVE IInv'
  OBVIOUS
<1>1. TypeOK
  BY DEF IInv
<1>2. \A e \in Slots : /\ executors'[e] \in Executors
                       /\ executors'[e].phase = executors[e].phase
                       /\ executors'[e].level = executors[e].level
  <2> TAKE e \in Slots
  <2>1. executors[e] \in Executors
    BY <1>1 DEF TypeOK
  <2>2. CASE executors[e].phase # "resting"
    BY <2>1, <2>2 DEF Advance
  <2>3. CASE executors[e].phase = "resting"
    <3>1. executors'[e] = [phase |-> executors[e].phase, level |-> executors[e].level,
             price |-> executors[e].price, age |-> Least(executors[e].age + 1, MaxLifetime),
             stopping |-> executors[e].stopping]
      BY <2>3 DEF Advance, Executor
    <3>2. Least(executors[e].age + 1, MaxLifetime) \in 0..MaxLifetime
      BY <2>1, Parameters DEF Least, Executors
    <3> QED BY <2>1, <3>1, <3>2 DEF Executors
  <2> QED BY <2>2, <2>3
<1>3. executors' \in [Slots -> Executors]
  <2>1. executors' = [e \in Slots |-> executors'[e]]
    BY DEF Advance
  <2> QED BY <1>2, <2>1
<1>4. Active' = Active
  BY <1>2 DEF Active
<1>5. plan' \in Plans
  <2>1. Least(plan.age + 1, StaleTimeout + 1) \in 0..(StaleTimeout + 1)
    BY <1>1, Parameters DEF Least, TypeOK, Plans
  <2> QED BY <1>1, <2>1 DEF Advance, TypeOK, Plans
<1>6. pause_left' \in {NoPause} \union (0..PauseSeconds)
  BY <1>1, Parameters DEF Advance, TypeOK, NoPause
<1>7. TypeOK'
  BY <1>1, <1>2, <1>3, <1>4, <1>5, <1>6 DEF Advance, TypeOK
<1>8. OneEntryPerLevel'
  BY <1>2, <1>3, FewerEntries DEF Active
<1> QED BY <1>7, <1>8 DEF IInv

\* What the surroundings do but for the executors changes no executor.
LEMMA SurroundingsStep ==
  IInv /\ (WritePlan \/ MarketMoves \/ HealthChanges \/ PositionReport) => IInv'
<1> SUFFICES ASSUME IInv, WritePlan \/ MarketMoves \/ HealthChanges \/ PositionReport
             PROVE  IInv'
  OBVIOUS
<1>1. TypeOK
  BY DEF IInv
<1>2. executors' = executors
  BY DEF WritePlan, MarketMoves, HealthChanges, PositionReport
<1>3. Active' = Active
  BY <1>2 DEF Active
<1>4. OneEntryPerLevel'
  BY <1>2, <1>3 DEF IInv, OneEntryPerLevel
<1>5. CASE WritePlan
  <2>1. PICK s \in Shapes :
          plan' = [ok |-> s.ok, significant |-> s.significant, soft |-> s.soft, age |-> 0,
                   prices |-> s.prices]
    BY <1>5 DEF WritePlan
  <2>2. plan' \in Plans
    BY <2>1, Parameters DEF Plans
  <2> QED BY <1>1, <1>2, <1>3, <1>4, <1>5, <2>2 DEF IInv, TypeOK, WritePlan
<1>6. CASE MarketMoves
  BY <1>1, <1>2, <1>3, <1>4, <1>6 DEF IInv, TypeOK, MarketMoves
<1>7. CASE HealthChanges
  BY <1>1, <1>2, <1>3, <1>4, <1>7 DEF IInv, TypeOK, HealthChanges
<1>8. CASE PositionReport
  BY <1>1, <1>2, <1>3, <1>4, <1>8 DEF IInv, TypeOK, PositionReport
<1> QED BY <1>5, <1>6, <1>7, <1>8

\* A step of one executor moves it from its level, if at all, to none.
LEMMA ExecutorStepInvariant ==
  ASSUME NEW e \in Slots
  PROVE  IInv /\ ExecutorStep(e) => IInv'
<1> SUFFICES ASSUME IInv, ExecutorStep(e) PROVE IInv'
  OBVIOUS
<1>1. TypeOK
  BY DEF IInv
<1>2. PICK x : /\ executors' = [executors EXCEPT ![e] = x]
               /\ x \in Executors
               /\ x.level = 0 <=> x.phase \notin {"resting", "filled"}
               /\ x.phase \in {"resting", "filled"} =>
                    e \in Active /\ x.level = executors[e].level
  <2>1. executors[e] \in Executors /\ (executors[e].level = 0 <=> e \notin Active)
    BY <1>1 DEF TypeOK
  <2>2. \A phase \in Closed : /\ Terminal(phase) \in Executors /\ Terminal(phase).level = 0
                              /\ Terminal(phase).phase \notin {"resting", "filled"}
    BY TerminalType DEF Closed, Phases
  <2>3. CASE Fill(e)
    <3> DEFINE x == [phase |-> "filled", level |-> executors[e].level, price |-> 0, age |-> 0,
                     stopping |-> executors[e].stopping]
    <3>1. executors' = [executors EXCEPT ![e] = x] /\ executors[e].phase = "resting"
      BY <2>3 DEF Fill, Executor
    <3>2. e \in Active
      BY <3>1 DEF Active
    <3>3. 0 \in 0..MaxLifetime
      BY Parameters
    <3>4. x \in Executors
      BY <2>1, <3>3 DEF Executors, Phases
    <3>5. x.phase = "filled" /\ x.level = executors[e].level
      OBVIOUS
    <3> HIDE DEF x
    <3> QED BY <2>1, <3>1, <3>2, <3>4, <3>5
  <2>4. CASE Exit(e, "profit")
    BY <2>2, <2>4 DEF Exit, Closed
  <2>5. CASE Exit(e, "stopped")
    BY <2>2, <2>5 DEF Exit, Closed
  <2>6. CASE Fail(e)
    BY <2>2, <2>6 DEF Fail, Closed
  <2>7. CASE Stopped(e)
    BY <2>2, <2>7 DEF Stopped, Closed
  <2> QED BY <2>3, <2>4, <2>5, <2>6, <2>7 DEF ExecutorStep
<1>3. executors' \in [Slots -> Executors]
  BY <1>1, <1>2 DEF TypeOK
<1>4. \A f \in Slots : executors'[f] = IF f = e THEN x ELSE executors[f]
  BY <1>1, <1>2 DEF TypeOK
<1>5. \A f \in Slots : executors'[f].level = 0 <=> f \notin Active'
  BY <1>1, <1>2, <1>4 DEF TypeOK, Active
<1>6. OneEntryPerLevel'
  BY <1>2, <1>3, <1>4, FewerEntries DEF Active
<1>7. position' \in Int /\ reported' \in Int
  BY <1>1 DEF TypeOK, ExecutorStep, Fill, Exit, Fail, Stopped, Moved, Signed
<1>8. UNCHANGED <<plan, market, ready, consecutive_order_errors, pause_left>>
  BY DEF ExecutorStep, Fill, Exit, Fail, Stopped
<1>9. TypeOK'
  BY <1>1, <1>3, <1>5, <1>7, <1>8 DEF TypeOK
<1> QED BY <1>6, <1>9 DEF IInv

LEMMA StutterStep == IInv /\ UNCHANGED vars => IInv'
  BY DEF IInv, TypeOK, OneEntryPerLevel, Active, vars

LEMMA StepInvariant == IInv /\ [Next]_vars => IInv'
  BY TickStep, TickRaisesStep, AdvanceStep, SurroundingsStep, ExecutorStepInvariant,
     StutterStep
  DEF Next

-----------------------------------------------------------------------------
THEOREM Invariant == Spec => []IInv
  BY InitInvariant, StepInvariant, PTL DEF Spec

\* The variables of the controller keep their types, for any limits, clocks,
\* quotes and plans.
THEOREM TypeCorrect == Spec => []TypeOK
<1>1. IInv => TypeOK
  BY DEF IInv
<1> QED BY <1>1, Invariant, PTL

\* The reconciliation never leaves two executors on one level: replacements
\* wait until the executor before them has closed, and fills, exits, failures
\* and stops in between only ever free a level.
THEOREM NoDuplicateEntries == Spec => []OneEntryPerLevel
<1>1. IInv => OneEntryPerLevel
  BY DEF IInv
<1> QED BY <1>1, Invariant, PTL

-----------------------------------------------------------------------------
(* What a tick creates. *)

\* A set of levels that is not empty has a last one.
LEMMA LastLevel ==
  ASSUME NEW n \in Nat, NEW S \in SUBSET (1..n), S # {}
  PROVE  \E l \in S : \A m \in S : m <= l
<1> DEFINE R == {ss \in Nat \X Nat : ss[1] < ss[2]}
           T == {n - m : m \in S}
<1>1. T \in SUBSET Nat /\ T # {}
  <2>1. \A m \in S : n - m \in Nat
    OBVIOUS
  <2>2. PICK m \in S : TRUE
    OBVIOUS
  <2>3. n - m \in T
    BY <2>2
  <2> QED BY <2>1, <2>3
<1>2. IsWellFoundedOn(R, Nat)
  BY NatLessThanWellFounded DEF OpToRel
<1>3. PICK x \in T : \A y \in T : ~(<<y, x>> \in R)
  <2> HIDE DEF R, T
  <2> QED BY <1>1, <1>2, WFMin
<1>4. PICK l \in S : x = n - l
  BY <1>3
<1>5. ASSUME NEW m \in S PROVE m <= l
  <2>1. n - m \in T /\ n - m \in Nat /\ n - l \in Nat
    BY <1>1, <1>4
  <2>2. ~(<<n - m, n - l>> \in R)
    BY <1>3, <1>4, <2>1
  <2>3. ~(n - m < n - l)
    BY <2>1, <2>2
  <2>4. n \in Int /\ m \in Int /\ l \in Int
    OBVIOUS
  <2> HIDE DEF R, T
  <2> QED BY <2>3, <2>4
<1> QED BY <1>5

LEMMA LevelsFinite ==
  /\ IsFiniteSet(Levels) /\ Buys + Sells \in Nat
  /\ \A C \in SUBSET Levels : IsFiniteSet(C) /\ Cardinality(C) \in Nat
<1>1. Buys + Sells \in Nat /\ 1 \in Int /\ Buys + Sells \in Int
  BY Parameters
<1>2. IsFiniteSet(Levels)
  BY <1>1, FS_Interval DEF Levels
<1> QED BY <1>1, <1>2, FS_Subset, FS_CardinalityType

LEMMA PlacesFinite == \A S \in SUBSET Slots : IsFiniteSet(S) /\ Cardinality(S) \in Nat
  BY Parameters, FS_Subset, FS_CardinalityType

\* The last level that a tick creates of some is admitted after all the others.
LEMMA LastAdmitted ==
  ASSUME NEW C \in SUBSET Levels, IsCreates(C), NEW S \in SUBSET C, S # {}
  PROVE  \E l \in S : Admitted(l, {m \in C : m < l}) /\ \A m \in S : m # l => m < l
<1>1. S \in SUBSET (1..(Buys + Sells))
  BY DEF Levels
<1>2. PICK l \in S : \A m \in S : m <= l
  BY <1>1, LevelsFinite, LastLevel
<1>3. \A m \in S : m # l => m < l
  BY <1>1, <1>2, LevelsFinite
<1>4. l \in Missing /\ l \in C
  BY DEF IsCreates
<1>5. Admitted(l, {m \in C : m < l})
  BY <1>4 DEF IsCreates
<1> QED BY <1>3, <1>5

\* The executors that carry the entries of a tick are as many as these.
LEMMA PlacesOfCreates ==
  ASSUME NEW C \in SUBSET Levels, NEW at \in [C -> Slots \ Active], NEW S \in SUBSET C
  PROVE  /\ {at[l] : l \in S} \in SUBSET Slots
         /\ Cardinality({at[l] : l \in S}) <= Cardinality(S)
<1> DEFINE R == {at[l] : l \in S}
           f == [l \in S |-> at[l]]
<1>1. f \in Surjection(S, R)
  BY DEF Surjection
<1>2. IsFiniteSet(S)
  BY LevelsFinite
<1> HIDE DEF f
<1>3. Cardinality(R) <= Cardinality(S)
  BY <1>1, <1>2, FS_Surjection
<1> QED BY <1>3

\* What a tick leaves in a place where an order rests: the order that was there,
\* asked to stop or as it was, or the entry of a level that had none.
LEMMA CarriedOrder ==
  ASSUME TypeOK, NEW C, C \subseteq Missing,
         NEW at \in [C -> Slots \ Active],
         \A l, m \in C : at[l] = at[m] => l = m,
         NEW e \in Slots, NEW n, n = Carried(e, Stops, C, at), n.phase = "resting"
  PROVE  \/ e \in Stops /\ n.level = executors[e].level /\ n.stopping
         \/ e \in Resting \ Stops /\ n = executors[e]
         \/ e \notin Active /\ n.level \in C /\ at[n.level] = e /\ n.price = DesiredPrice(n.level)
<1>1. executors[e] \in Executors
  BY DEF TypeOK
<1>2. CASE e \in Stops
  BY <1>2 DEF Carried, Executor
<1>3. CASE e \notin Stops /\ e \in {at[l] : l \in C}
  <2>1. PICK l \in C : at[l] = e
    BY <1>3
  <2>2. (CHOOSE m \in C : at[m] = e) = l
    BY <2>1
  <2>3. n = Executor("resting", l, DesiredPrice(l), 0, FALSE)
    BY <1>3, <2>2 DEF Carried
  <2> QED BY <2>1, <2>3 DEF Executor
<1>4. CASE e \notin Stops /\ e \notin {at[l] : l \in C} /\ executors[e].phase \in Closed
  <2>1. n = Terminal("none")
    BY <1>4 DEF Carried
  <2> QED BY <2>1, TerminalType DEF Phases
<1>5. CASE e \notin Stops /\ e \notin {at[l] : l \in C} /\ executors[e].phase \notin Closed
  <2>1. n = executors[e]
    BY <1>5 DEF Carried
  <2> QED BY <1>5, <2>1 DEF Resting
<1> QED BY <1>2, <1>3, <1>4, <1>5

\* A tick, taken apart: what is active and what rests was there, or is the entry
\* of a level that is created.
LEMMA TickCreates ==
  ASSUME TypeOK, Tick
  PROVE  \E C \in SUBSET Levels : \E at \in [C -> Slots \ Active] :
            /\ IsCreates(C) /\ C \subseteq Missing
            /\ \A e \in Slots : 
                  executors'[e].phase \in {"resting", "filled"} =>
                    \/ e \in Active /\ executors'[e].level = executors[e].level
                    \/ executors'[e].level \in C /\ at[executors'[e].level] = e
            /\ \A e \in Slots :
                  executors'[e].phase = "resting" =>
                    \/ e \in Stops /\ executors'[e].level = executors[e].level
                       /\ executors'[e].stopping
                    \/ e \in Resting \ Stops /\ executors'[e] = executors[e]
                    \/ /\ executors'[e].level \in C /\ at[executors'[e].level] = e
                       /\ executors'[e].price = DesiredPrice(executors'[e].level)
<1>1. PICK C \in SUBSET Levels :
        /\ IsCreates(C)
        /\ \E at \in [C -> Slots \ Active] :
              /\ \A l, m \in C : at[l] = at[m] => l = m
              /\ executors' = [e \in Slots |-> Carried(e, Stops, C, at)]
  BY DEF Tick
<1>2. PICK at \in [C -> Slots \ Active] :
        /\ \A l, m \in C : at[l] = at[m] => l = m
        /\ executors' = [e \in Slots |-> Carried(e, Stops, C, at)]
  BY <1>1
<1>3. C \subseteq Missing
  BY <1>1 DEF IsCreates
<1>4. \A e \in Slots : executors'[e] = Carried(e, Stops, C, at)
  BY <1>2
<1>5. \A e \in Slots : executors'[e].phase \in {"resting", "filled"} =>
         \/ e \in Active /\ executors'[e].level = executors[e].level
         \/ executors'[e].level \in C /\ at[executors'[e].level] = e
  BY <1>2, <1>3, <1>4, CarriedType
<1>6. \A e \in Slots : executors'[e].phase = "resting" =>
         \/ e \in Stops /\ executors'[e].level = executors[e].level /\ executors'[e].stopping
         \/ e \in Resting \ Stops /\ executors'[e] = executors[e]
         \/ /\ executors'[e].level \in C /\ at[executors'[e].level] = e
            /\ executors'[e].price = DesiredPrice(executors'[e].level)
  BY <1>2, <1>3, <1>4, CarriedOrder
<1> QED BY <1>1, <1>2, <1>3, <1>5, <1>6

\* What is in one of two sets is no more than they are.
LEMMA NoMoreThanBoth ==
  ASSUME NEW S, NEW T, IsFiniteSet(S), IsFiniteSet(T), NEW A \in SUBSET (S \union T)
  PROVE  /\ IsFiniteSet(A) /\ Cardinality(A) \in Nat
         /\ Cardinality(A) <= Cardinality(S) + Cardinality(T)
<1>1. /\ IsFiniteSet(S \union T)
      /\ Cardinality(S \union T) = Cardinality(S) + Cardinality(T) - Cardinality(S \cap T)
  BY FS_Union
<1>2. Cardinality(S \cap T) \in Nat /\ Cardinality(S) \in Nat /\ Cardinality(T) \in Nat
  BY FS_Intersection, FS_CardinalityType
<1>3. IsFiniteSet(A) /\ Cardinality(A) <= Cardinality(S \union T) /\ Cardinality(A) \in Nat
  BY <1>1, FS_Subset, FS_CardinalityType
<1> QED BY <1>1, <1>2, <1>3

-----------------------------------------------------------------------------
(* The caps *)

LEMMA PlacesAndLevels ==
  ASSUME TypeOK
  PROVE  /\ IsFiniteSet(Active) /\ IsFiniteSet(Resting) /\ IsFiniteSet(LevelsOf(Active))
         /\ IsFiniteSet(RestingBuys) /\ IsFiniteSet(RestingSells)
         /\ Cardinality(Active) \in Nat /\ Cardinality(Resting) \in Nat
         /\ Cardinality(LevelsOf(Active)) \in Nat
         /\ Cardinality(RestingBuys) \in Nat /\ Cardinality(RestingSells) \in Nat
<1>1. /\ Active \in SUBSET Slots /\ Resting \in SUBSET Slots
      /\ RestingBuys \in SUBSET Slots /\ RestingSells \in SUBSET Slots
  BY DEF Active, Resting, RestingBuys, RestingSells
<1>2. LevelsOf(Active) \in SUBSET Levels
  BY DEF TypeOK, LevelsOf, Active, Executors
<1> QED BY <1>1, <1>2, PlacesFinite, LevelsFinite

\* Without a new entry, and without a level for an executor, the caps are kept.
LEMMA CapsStay ==
  ASSUME TypeOK, CapsRespected, 
         \A e \in Slots : executors'[e].phase \in {"resting", "filled"} =>
            e \in Active /\ executors'[e].level = executors[e].level,
         \A e \in Slots : executors'[e].phase = "resting" => e \in Resting
  PROVE  CapsRespected'
<1>1. /\ Active' \in SUBSET Active /\ Resting' \in SUBSET Resting
      /\ LevelsOf(Active)' \in SUBSET LevelsOf(Active)
  BY DEF Active, Resting, LevelsOf
<1>2. /\ Cardinality(Active') <= Cardinality(Active)
      /\ Cardinality(Resting') <= Cardinality(Resting)
      /\ Cardinality(LevelsOf(Active)') <= Cardinality(LevelsOf(Active))
  BY <1>1, PlacesAndLevels, FS_Subset
<1>3. /\ Cardinality(Active') \in Nat /\ Cardinality(Resting') \in Nat
      /\ Cardinality(LevelsOf(Active)') \in Nat
  BY <1>1, PlacesAndLevels, FS_Subset, FS_CardinalityType
<1> QED BY <1>2, <1>3, PlacesAndLevels, LimitsAssumption DEF CapsRespected

LEMMA TickCaps == ASSUME TypeOK, CapsRespected, Tick PROVE CapsRespected'
<1>1. PICK C \in SUBSET Levels : \E at \in [C -> Slots \ Active] :
        /\ IsCreates(C) /\ C \subseteq Missing
        /\ \A e \in Slots : executors'[e].phase \in {"resting", "filled"} =>
              \/ e \in Active /\ executors'[e].level = executors[e].level
              \/ executors'[e].level \in C /\ at[executors'[e].level] = e
        /\ \A e \in Slots : executors'[e].phase = "resting" =>
              \/ e \in Stops \/ e \in Resting \ Stops
              \/ executors'[e].level \in C /\ at[executors'[e].level] = e
  BY TickCreates
<1>2. PICK at \in [C -> Slots \ Active] :
        /\ IsCreates(C) /\ C \subseteq Missing
        /\ \A e \in Slots : executors'[e].phase \in {"resting", "filled"} =>
              \/ e \in Active /\ executors'[e].level = executors[e].level
              \/ executors'[e].level \in C /\ at[executors'[e].level] = e
        /\ \A e \in Slots : executors'[e].phase = "resting" =>
              \/ e \in Stops \/ e \in Resting \ Stops
              \/ executors'[e].level \in C /\ at[executors'[e].level] = e
  BY <1>1
<1> DEFINE R == {at[l] : l \in C}
<1>3. IsFiniteSet(R) /\ Cardinality(R) \in Nat /\ Cardinality(R) <= Cardinality(C)
      /\ IsFiniteSet(C) /\ Cardinality(C) \in Nat
  BY PlacesOfCreates, PlacesFinite, LevelsFinite
<1>4. /\ Active' \in SUBSET (Active \union R)
      /\ LevelsOf(Active)' \in SUBSET (LevelsOf(Active) \union C)
      /\ Resting' \in SUBSET (Resting \union R)
  <2>1. Stops \subseteq Resting
    BY DEF Stops
  <2>2. Active' \in SUBSET (Active \union R)
    BY <1>2 DEF Active
  <2>3. Resting' \in SUBSET (Resting \union R)
    BY <1>2, <2>1 DEF Resting
  <2>4. LevelsOf(Active)' \in SUBSET (LevelsOf(Active) \union C)
    BY <1>2 DEF LevelsOf, Active
  <2> QED BY <2>2, <2>3, <2>4
<1> HIDE DEF R
<1>5. /\ Cardinality(Active') <= Cardinality(Active) + Cardinality(C)
      /\ Cardinality(LevelsOf(Active)') <= Cardinality(LevelsOf(Active)) + Cardinality(C)
      /\ Cardinality(Resting') <= Cardinality(Resting) + Cardinality(C)
      /\ Cardinality(Active') \in Nat /\ Cardinality(LevelsOf(Active)') \in Nat
      /\ Cardinality(Resting') \in Nat
  <2>1. /\ Cardinality(Active') <= Cardinality(Active) + Cardinality(R)
        /\ Cardinality(Active') \in Nat
    BY <1>3, <1>4, PlacesAndLevels, NoMoreThanBoth
  <2>2. /\ Cardinality(Resting') <= Cardinality(Resting) + Cardinality(R)
        /\ Cardinality(Resting') \in Nat
    BY <1>3, <1>4, PlacesAndLevels, NoMoreThanBoth
  <2>3. /\ Cardinality(LevelsOf(Active)') <= Cardinality(LevelsOf(Active)) + Cardinality(C)
        /\ Cardinality(LevelsOf(Active)') \in Nat
    BY <1>3, <1>4, PlacesAndLevels, NoMoreThanBoth
  <2> QED BY <1>3, <2>1, <2>2, <2>3, PlacesAndLevels
<1>6. CASE C = {}
  <2>1. Cardinality(C) = 0
    BY <1>6, FS_EmptySet
  <2> QED BY <1>5, <2>1, PlacesAndLevels, LimitsAssumption DEF CapsRespected
<1>7. CASE C # {}
  <2>1. PICK l \in C : Admitted(l, {m \in C : m < l}) /\ \A m \in C : m # l => m < l
    BY <1>2, <1>7, LastAdmitted
  <2>2. {m \in C : m < l} = C \ {l}
    <3>1. \A m \in C : m \in Int
      BY LevelsFinite DEF Levels
    <3>2. ~(l < l)
      BY <3>1
    <3> QED BY <2>1, <3>2
  <2>3. Cardinality(C \ {l}) = Cardinality(C) - 1
    BY <1>3, FS_RemoveElement
  <2>4. /\ Cardinality(C \ {l}) < Least(MaxExecutors - Cardinality(Active),
                                        MaxLevels - Cardinality(LevelsOf(Active)))
        /\ Cardinality(Resting) + Cardinality(C \ {l}) + 1 <= Collateral
    BY <2>1, <2>2 DEF Admitted
  <2>5. {MaxExecutors, MaxLevels, Collateral} \subseteq Nat
    BY LimitsAssumption
  <2> QED BY <1>3, <1>5, <2>3, <2>4, <2>5, PlacesAndLevels DEF Least, CapsRespected
<1> QED BY <1>6, <1>7

\* The other steps create nothing.
LEMMA OtherSteps ==
  ASSUME TypeOK, Next, ~Tick
  PROVE  /\ \A e \in Slots : executors'[e].phase \in {"resting", "filled"} =>
              e \in Active /\ executors'[e].level = executors[e].level
         /\ \A e \in Slots : executors'[e].phase = "resting" => e \in Resting
<1>1. CASE TickRaises
  BY <1>1, TerminalType DEF TickRaises, Active, Resting, Phases, Closed
<1>2. CASE Advance
  BY <1>2 DEF Advance, Active, Resting, Executor
<1>3. CASE WritePlan \/ MarketMoves \/ HealthChanges \/ PositionReport
  BY <1>3 DEF WritePlan, MarketMoves, HealthChanges, PositionReport, Active, Resting
<1>4. ASSUME NEW f \in Slots, ExecutorStep(f)
      PROVE  /\ \A e \in Slots : executors'[e].phase \in {"resting", "filled"} =>
                  e \in Active /\ executors'[e].level = executors[e].level
             /\ \A e \in Slots : executors'[e].phase = "resting" => e \in Resting
  <2>1. executors \in [Slots -> Executors]
    BY DEF TypeOK
  <2>2. CASE Fill(f)
    BY <2>1, <2>2 DEF Fill, Executor, Active, Resting
  <2>3. CASE Exit(f, "profit") \/ Exit(f, "stopped") \/ Fail(f) \/ Stopped(f)
    <3>1. PICK phase \in Closed : executors' = [executors EXCEPT ![f] = Terminal(phase)]
      BY <2>3 DEF Exit, Fail, Stopped, Closed
    <3>2. Terminal(phase).phase \notin {"resting", "filled"}
      BY <3>1, TerminalType DEF Phases, Closed
    <3> QED BY <2>1, <3>1, <3>2 DEF Active, Resting
  <2> QED BY <1>4, <2>2, <2>3 DEF ExecutorStep
<1> QED BY <1>1, <1>2, <1>3, <1>4 DEF Next

CapsInv == IInv /\ CapsRespected

LEMMA CapsInit == Init => CapsInv
<1> SUFFICES ASSUME Init PROVE CapsInv
  OBVIOUS
<1>1. Active = {} /\ Resting = {} /\ LevelsOf(Active) = {}
  BY TerminalType DEF Init, Active, Resting, LevelsOf, Phases
<1> QED BY <1>1, InitInvariant, FS_EmptySet, LimitsAssumption DEF CapsInv, CapsRespected

LEMMA CapsStep == CapsInv /\ [Next]_vars => CapsInv'
<1> SUFFICES ASSUME CapsInv, [Next]_vars PROVE CapsInv'
  OBVIOUS
<1>1. IInv' /\ TypeOK /\ CapsRespected
  BY StepInvariant DEF CapsInv, IInv
<1>2. CASE Tick
  BY <1>1, <1>2, TickCaps DEF CapsInv
<1>3. CASE Next /\ ~Tick
  BY <1>1, <1>3, OtherSteps, CapsStay DEF CapsInv
<1>4. CASE UNCHANGED vars
  BY <1>1, <1>4 DEF CapsInv, CapsRespected, Active, Resting, LevelsOf, vars
<1> QED BY <1>2, <1>3, <1>4

\* The caps on executors and levels and the collateral hold at all times: what
\* several creates of one tick take is counted against what is left for it
\* (reconcile_grid_plan).
THEOREM CapsAlwaysRespected == Spec => []CapsRespected
<1>1. CapsInv => CapsRespected
  BY DEF CapsInv
<1> QED BY CapsInit, CapsStep, <1>1, PTL DEF Spec

-----------------------------------------------------------------------------
(* The limits of the exposure *)

OrdersOn(buys) == {e \in Resting : Buy(executors[e].level) = buys}

LEMMA SidesOfOrders ==
  ASSUME TypeOK
  PROVE  /\ RestingBuys = OrdersOn(TRUE) /\ RestingSells = OrdersOn(FALSE)
         /\ \A b \in BOOLEAN : OrdersOn(b) \in SUBSET Slots
  BY DEF RestingBuys, RestingSells, OrdersOn, Resting, Buy

\* What a tick adds to a side either is nothing, or stays within its limit with
\* all that rests on it and the position.
LEMMA TickOnSide ==
  ASSUME TypeOK, Tick, NEW b \in BOOLEAN
  PROVE  \/ Cardinality(OrdersOn(b)') <= Cardinality(OrdersOn(b))
         \/ Positive(IF b THEN reported ELSE -reported) + Cardinality(OrdersOn(b)') <= MaxSide
<1>1. PICK C \in SUBSET Levels : \E at \in [C -> Slots \ Active] :
        /\ IsCreates(C) /\ C \subseteq Missing
        /\ \A e \in Slots : executors'[e].phase = "resting" =>
              \/ e \in Stops /\ executors'[e].level = executors[e].level
              \/ e \in Resting \ Stops /\ executors'[e].level = executors[e].level
              \/ executors'[e].level \in C /\ at[executors'[e].level] = e
  BY TickCreates
<1>2. PICK at \in [C -> Slots \ Active] :
        /\ IsCreates(C) /\ C \subseteq Missing
        /\ \A e \in Slots : executors'[e].phase = "resting" =>
              \/ e \in Stops /\ executors'[e].level = executors[e].level
              \/ e \in Resting \ Stops /\ executors'[e].level = executors[e].level
              \/ executors'[e].level \in C /\ at[executors'[e].level] = e
  BY <1>1
<1> DEFINE S == {l \in C : Buy(l) = b}
           R == {at[l] : l \in S}
           after == OrdersOn(b)'
<1>3. /\ IsFiniteSet(R) /\ Cardinality(R) \in Nat /\ Cardinality(R) <= Cardinality(S)
      /\ IsFiniteSet(S) /\ Cardinality(S) \in Nat
  <2>1. S \in SUBSET C /\ S \in SUBSET Levels
    OBVIOUS
  <2> QED BY <2>1, PlacesOfCreates, PlacesFinite, LevelsFinite
<1>4. after \in SUBSET (OrdersOn(b) \union R)
  <2>1. Stops \subseteq Resting
    BY DEF Stops
  <2>2. Resting' = {e \in Slots : executors'[e].phase = "resting"}
    BY DEF Resting
  <2>3. after = {e \in Resting' : Buy(executors'[e].level) = b}
    BY DEF OrdersOn, Buy
  <2> SUFFICES ASSUME NEW e \in after PROVE e \in OrdersOn(b) \union R
    OBVIOUS
  <2>4. e \in Slots /\ executors'[e].phase = "resting" /\ Buy(executors'[e].level) = b
    BY <2>2, <2>3
  <2>5. CASE e \in Resting /\ executors'[e].level = executors[e].level
    BY <2>4, <2>5 DEF OrdersOn
  <2>6. CASE executors'[e].level \in C /\ at[executors'[e].level] = e
    BY <2>4, <2>6
  <2> QED BY <1>2, <2>1, <2>4, <2>5, <2>6
<1>5. IsFiniteSet(OrdersOn(b)) /\ Cardinality(OrdersOn(b)) \in Nat
  BY SidesOfOrders, PlacesFinite
<1> HIDE DEF R, after
<1>6. /\ Cardinality(after) \in Nat
      /\ Cardinality(after) <= Cardinality(OrdersOn(b)) + Cardinality(S)
  <2>1. /\ Cardinality(after) \in Nat
        /\ Cardinality(after) <= Cardinality(OrdersOn(b)) + Cardinality(R)
    BY <1>3, <1>4, <1>5, NoMoreThanBoth
  <2> QED BY <1>3, <1>5, <2>1
<1>7. CASE S = {}
  <2>1. Cardinality(S) = 0
    BY <1>7, FS_EmptySet
  <2> HIDE DEF S
  <2>2. Cardinality(after) <= Cardinality(OrdersOn(b))
    BY <1>5, <1>6, <2>1
  <2> QED BY <2>2 DEF after
<1>8. CASE S # {}
  <2>1. PICK l \in S : Admitted(l, {m \in C : m < l}) /\ \A m \in S : m # l => m < l
    <3>1. S \in SUBSET C
      OBVIOUS
    <3> HIDE DEF S
    <3> QED BY <1>2, <1>8, <3>1, LastAdmitted
  <2>2. OnSide(l, {m \in C : m < l}) = S \ {l}
    <3>1. \A m \in C : m \in Int
      BY LevelsFinite DEF Levels
    <3>2. ~(l < l) /\ Buy(l) = b
      BY <3>1
    <3> QED BY <2>1, <3>2 DEF OnSide
  <2>3. Cardinality(S \ {l}) = Cardinality(S) - 1
    BY <1>3, FS_RemoveElement
  <2>4. Buy(l) = b
    OBVIOUS
  <2>5. PendingOn(l) = Cardinality(OrdersOn(b))
    BY <2>4, SidesOfOrders DEF PendingOn
  <2>6. HeldOn(l) = Positive(IF b THEN reported ELSE -reported)
    BY <2>4 DEF HeldOn
  <2>7. HeldOn(l) + PendingOn(l) + Cardinality(OnSide(l, {m \in C : m < l})) + 1 <= MaxSide
    BY <2>1 DEF Admitted
  <2>8. HeldOn(l) \in Int /\ MaxSide \in Nat
    BY LimitsAssumption DEF TypeOK, HeldOn, Positive
  <2> HIDE DEF S
  <2>9. HeldOn(l) + Cardinality(after) <= MaxSide
    <3>1. Cardinality(OnSide(l, {m \in C : m < l})) = Cardinality(S) - 1
      BY <2>2, <2>3
    <3>2. HeldOn(l) + Cardinality(OrdersOn(b)) + (Cardinality(S) - 1) + 1 <= MaxSide
      BY <2>5, <2>7, <3>1
    <3> QED BY <1>3, <1>5, <1>6, <2>8, <3>2
  <2> QED BY <2>6, <2>9 DEF after
<1> QED BY <1>7, <1>8

LEMMA TickInTotal ==
  ASSUME TypeOK, Tick
  PROVE  \/ Cardinality(Resting') <= Cardinality(Resting)
         \/ Distance(0, reported) + Cardinality(Resting') <= MaxTotal
<1>1. PICK C \in SUBSET Levels : \E at \in [C -> Slots \ Active] :
        /\ IsCreates(C) /\ C \subseteq Missing
        /\ \A e \in Slots : executors'[e].phase = "resting" =>
              \/ e \in Stops \/ e \in Resting \ Stops
              \/ executors'[e].level \in C /\ at[executors'[e].level] = e
  BY TickCreates
<1>2. PICK at \in [C -> Slots \ Active] :
        /\ IsCreates(C) /\ C \subseteq Missing
        /\ \A e \in Slots : executors'[e].phase = "resting" =>
              \/ e \in Stops \/ e \in Resting \ Stops
              \/ executors'[e].level \in C /\ at[executors'[e].level] = e
  BY <1>1
<1> DEFINE R == {at[l] : l \in C}
           after == Resting'
<1>3. IsFiniteSet(R) /\ Cardinality(R) \in Nat /\ Cardinality(R) <= Cardinality(C)
      /\ IsFiniteSet(C) /\ Cardinality(C) \in Nat
  BY PlacesOfCreates, PlacesFinite, LevelsFinite
<1>4. after \in SUBSET (Resting \union R)
  <2>1. Stops \subseteq Resting
    BY DEF Stops
  <2> QED BY <1>2, <2>1 DEF Resting
<1> HIDE DEF R, after
<1>5. Cardinality(after) <= Cardinality(Resting) + Cardinality(C) /\ Cardinality(after) \in Nat
  <2>1. Cardinality(after) <= Cardinality(Resting) + Cardinality(R) /\ Cardinality(after) \in Nat
    BY <1>3, <1>4, PlacesAndLevels, NoMoreThanBoth
  <2> QED BY <1>3, <2>1, PlacesAndLevels
<1>6. CASE C = {}
  <2>1. Cardinality(C) = 0
    BY <1>6, FS_EmptySet
  <2> QED BY <1>5, <2>1, PlacesAndLevels DEF after
<1>7. CASE C # {}
  <2>1. PICK l \in C : Admitted(l, {m \in C : m < l}) /\ \A m \in C : m # l => m < l
    BY <1>2, <1>7, LastAdmitted
  <2>2. {m \in C : m < l} = C \ {l}
    <3>1. \A m \in C : m \in Int
      BY LevelsFinite DEF Levels
    <3>2. ~(l < l)
      BY <3>1
    <3> QED BY <2>1, <3>2
  <2>3. Cardinality(C \ {l}) = Cardinality(C) - 1
    BY <1>3, FS_RemoveElement
  <2>4. Distance(0, reported) + Cardinality(Resting) + Cardinality(C \ {l}) + 1 <= MaxTotal
    BY <2>1, <2>2 DEF Admitted
  <2>5. MaxTotal \in Nat /\ Distance(0, reported) \in Int
    BY LimitsAssumption DEF TypeOK, Distance
  <2>6. Distance(0, reported) + Cardinality(after) <= MaxTotal
    BY <1>3, <1>5, <2>3, <2>4, <2>5, PlacesAndLevels
  <2> QED BY <2>6 DEF after
<1> QED BY <1>6, <1>7

\* Fewer orders, and the position as it was: no exposure grows.
LEMMA FewerOrders ==
  ASSUME TypeOK, position' = position,
         \A e \in Slots : executors'[e].phase = "resting" =>
            e \in Resting /\ executors'[e].level = executors[e].level
  PROVE  /\ LongExposure' <= LongExposure /\ ShortExposure' <= ShortExposure
         /\ TotalExposure' <= TotalExposure
<1>1. /\ RestingBuys' \in SUBSET RestingBuys /\ RestingSells' \in SUBSET RestingSells
      /\ Resting' \in SUBSET Resting
  BY DEF Resting, RestingBuys, RestingSells, Buy
<1>2. /\ Cardinality(RestingBuys') <= Cardinality(RestingBuys)
      /\ Cardinality(RestingSells') <= Cardinality(RestingSells)
      /\ Cardinality(Resting') <= Cardinality(Resting)
      /\ Cardinality(RestingBuys') \in Nat /\ Cardinality(RestingSells') \in Nat
      /\ Cardinality(Resting') \in Nat
  BY <1>1, PlacesAndLevels, FS_Subset, FS_CardinalityType
<1>3. Positive(position) \in Int /\ Positive(-position) \in Int /\ Distance(0, position) \in Int
  BY DEF TypeOK, Positive, Distance
<1>4. /\ Positive(position)' = Positive(position) /\ Positive(-position)' = Positive(-position)
      /\ Distance(0, position)' = Distance(0, position)
  BY DEF Positive, Distance
<1> QED BY <1>2, <1>3, <1>4, PlacesAndLevels DEF LongExposure, ShortExposure, TotalExposure

\* A fill turns an order into position: no exposure grows either.
LEMMA FillExposure ==
  ASSUME TypeOK, NEW e \in Slots, Fill(e)
  PROVE  /\ LongExposure' <= LongExposure /\ ShortExposure' <= ShortExposure
         /\ TotalExposure' <= TotalExposure
<1> DEFINE level == executors[e].level
<1>1. /\ executors \in [Slots -> Executors] /\ position \in Int
      /\ executors[e].phase = "resting" /\ position' = position + Signed(level)
      /\ executors' = [executors EXCEPT ![e] = Executor("filled", level, 0, 0,
                                                        executors[e].stopping)]
  BY DEF TypeOK, Fill, Moved
<1>2. /\ Resting' = Resting \ {e} /\ e \in Resting
      /\ RestingBuys' = RestingBuys \ {e} /\ RestingSells' = RestingSells \ {e}
      /\ IF Buy(level) THEN e \in RestingBuys ELSE e \in RestingSells
  <2>1. e \in Resting /\ Resting' = Resting \ {e}
    BY <1>1 DEF Resting, Executor
  <2>2. \A f \in Slots \ {e} : executors'[f] = executors[f]
    BY <1>1
  <2>3. RestingBuys' = {f \in Resting' : Buy(executors'[f].level)}
    BY DEF RestingBuys, Buy
  <2>4. RestingSells' = {f \in Resting' : ~Buy(executors'[f].level)}
    BY DEF RestingSells, Buy
  <2>5. Resting \subseteq Slots
    BY DEF Resting
  <2>6. RestingBuys' = RestingBuys \ {e}
    BY <2>1, <2>2, <2>3, <2>5 DEF RestingBuys
  <2>7. RestingSells' = RestingSells \ {e}
    BY <2>1, <2>2, <2>4, <2>5 DEF RestingSells
  <2> QED BY <2>1, <2>6, <2>7 DEF RestingBuys, RestingSells
<1> HIDE DEF level
<1>3. Cardinality(Resting') = Cardinality(Resting) - 1
  BY <1>2, PlacesAndLevels, FS_RemoveElement
<1>4. CASE Buy(level)
  <2>1. Cardinality(RestingBuys') = Cardinality(RestingBuys) - 1
    BY <1>2, <1>4, PlacesAndLevels, FS_RemoveElement
  <2>2. Cardinality(RestingSells') <= Cardinality(RestingSells)
        /\ Cardinality(RestingSells') \in Nat
    BY <1>2, PlacesAndLevels, FS_Subset, FS_CardinalityType
  <2>3. position' = position + 1
    BY <1>1, <1>4 DEF Signed
  <2>4. /\ Positive(position') <= Positive(position) + 1
        /\ Positive(-position') <= Positive(-position)
        /\ Distance(0, position') <= Distance(0, position) + 1
        /\ {Positive(position'), Positive(position), Positive(-position'), Positive(-position),
            Distance(0, position'), Distance(0, position)} \subseteq Int
    BY <1>1, <2>3 DEF Positive, Distance
  <2> QED BY <1>3, <2>1, <2>2, <2>4, PlacesAndLevels
          DEF LongExposure, ShortExposure, TotalExposure
<1>5. CASE ~Buy(level)
  <2>1. Cardinality(RestingSells') = Cardinality(RestingSells) - 1
    BY <1>2, <1>5, PlacesAndLevels, FS_RemoveElement
  <2>2. Cardinality(RestingBuys') <= Cardinality(RestingBuys)
        /\ Cardinality(RestingBuys') \in Nat
    BY <1>2, PlacesAndLevels, FS_Subset, FS_CardinalityType
  <2>3. position' = position - 1
    BY <1>1, <1>5 DEF Signed
  <2>4. /\ Positive(position') <= Positive(position)
        /\ Positive(-position') <= Positive(-position) + 1
        /\ Distance(0, position') <= Distance(0, position) + 1
        /\ {Positive(position'), Positive(position), Positive(-position'), Positive(-position),
            Distance(0, position'), Distance(0, position)} \subseteq Int
    BY <1>1, <2>3 DEF Positive, Distance
  <2> QED BY <1>3, <2>1, <2>2, <2>4, PlacesAndLevels
          DEF LongExposure, ShortExposure, TotalExposure
<1> QED BY <1>4, <1>5

LEMMA TickExposure ==
  ASSUME TypeOK, Tick, reported = position
  PROVE  EntriesStep
<1>1. position' = position /\ position \in Int
  BY DEF Tick, TypeOK
<1>2. \/ Cardinality(RestingBuys') <= Cardinality(RestingBuys)
      \/ Positive(position) + Cardinality(RestingBuys') <= MaxSide
  <2>1. RestingBuys = OrdersOn(TRUE) /\ RestingBuys' = OrdersOn(TRUE)'
    BY SidesOfOrders DEF RestingBuys, OrdersOn, Resting, Buy
  <2> QED BY <2>1, TickOnSide
<1>3. \/ Cardinality(RestingSells') <= Cardinality(RestingSells)
      \/ Positive(-position) + Cardinality(RestingSells') <= MaxSide
  <2>1. RestingSells = OrdersOn(FALSE) /\ RestingSells' = OrdersOn(FALSE)'
    BY SidesOfOrders DEF RestingSells, OrdersOn, Resting, Buy
  <2> QED BY <2>1, TickOnSide
<1>4. \/ Cardinality(Resting') <= Cardinality(Resting)
      \/ Distance(0, position) + Cardinality(Resting') <= MaxTotal
  BY TickInTotal
<1>5. /\ Cardinality(RestingBuys') \in Nat /\ Cardinality(RestingSells') \in Nat
      /\ Cardinality(Resting') \in Nat
  <2>1. RestingBuys' \in SUBSET Slots /\ RestingSells' \in SUBSET Slots /\ Resting' \in SUBSET Slots
    BY DEF RestingBuys, RestingSells, Resting
  <2> QED BY <2>1, PlacesFinite
<1>6. Positive(position) \in Int /\ Positive(-position) \in Int /\ Distance(0, position) \in Int
  BY <1>1 DEF Positive, Distance
<1>7. /\ Positive(position)' = Positive(position) /\ Positive(-position)' = Positive(-position)
      /\ Distance(0, position)' = Distance(0, position)
  BY <1>1 DEF Positive, Distance
<1> QED BY <1>2, <1>3, <1>4, <1>5, <1>6, <1>7, PlacesAndLevels
        DEF EntriesStep, LongExposure, ShortExposure, TotalExposure

LEMMA OtherExposure ==
  ASSUME TypeOK, Next, ~Tick
  PROVE  EntriesStep
<1>1. CASE TickRaises \/ Advance \/ WritePlan \/ MarketMoves \/ HealthChanges \/ PositionReport
  <2>1. position' = position
    BY <1>1 DEF TickRaises, Advance, WritePlan, MarketMoves, HealthChanges, PositionReport
  <2>2. \A e \in Slots : executors'[e].phase = "resting" => e \in Active
                                          /\ executors'[e].level = executors[e].level
    BY OtherSteps
  <2> QED BY <2>1, <2>2, OtherSteps, FewerOrders DEF EntriesStep
<1>2. ASSUME NEW e \in Slots, ExecutorStep(e) PROVE EntriesStep
  <2>1. CASE Fill(e)
    BY <2>1, FillExposure DEF EntriesStep
  <2>2. CASE Exit(e, "profit") \/ Exit(e, "stopped")
    <3>1. PICK phase \in {"profit", "stopped"} :
             /\ executors[e].phase = "filled"
             /\ executors' = [executors EXCEPT ![e] = Terminal(phase)]
      BY <2>2 DEF Exit
    <3>2. executors'[e].phase \in Closed
      BY <3>1 DEF TypeOK, Terminal, Executor, Closed
    <3> QED BY <3>1, <3>2 DEF EntriesStep, Exits
  <2>3. CASE Fail(e) \/ Stopped(e)
    <3>1. position' = position
      BY <2>3 DEF Fail, Stopped
    <3> QED BY <3>1, OtherSteps, FewerOrders DEF EntriesStep
  <2> QED BY <1>2, <2>1, <2>2, <2>3 DEF ExecutorStep
<1> QED BY <1>1, <1>2 DEF Next

\* With a report of the position that does not lag, whatever the limits are, an
\* exposure passes its limit only when an executor exits (reconcile_grid_plan).
THEOREM EntriesKeepLimits ==
  ASSUME ~PositionLag
  PROVE  Spec => EntriesWithinLimits
<1> DEFINE Inv == IInv /\ reported = position
<1>1. Init => Inv
  BY InitInvariant DEF Init
<1>2. Inv /\ [Next]_vars => Inv'
  <2>1. IInv /\ [Next]_vars => IInv'
    BY StepInvariant
  <2>2. reported = position /\ [Next]_vars => reported' = position'
    BY DEF vars, Next, Tick, TickRaises, Advance, WritePlan, MarketMoves, HealthChanges,
           PositionReport, ExecutorStep, Fill, Exit, Fail, Stopped, Moved
  <2> QED BY <2>1, <2>2
<1>3. Inv /\ [Next]_vars => [EntriesStep]_vars
  BY TickExposure, OtherExposure DEF IInv
<1> QED BY <1>1, <1>2, <1>3, PTL DEF Spec, EntriesWithinLimits

-----------------------------------------------------------------------------
(* The orders that would take *)

\* A price that the plan asks for is moved off the touch (quantize_level).
LEMMA DesiredRests ==
  ASSUME TypeOK, NEW l \in Levels, l \in Missing
  PROVE  ~Crossing(l, DesiredPrice(l))
<1>1. market.bid \in Nat /\ market.ask \in Nat /\ 0 < market.bid /\ market.bid < market.ask
  BY InputsAssumption DEF TypeOK
<1>2. plan.prices[l] \in Nat
  BY DEF TypeOK, Plans
<1>3. DesiredPrice(l) = MakerPrice(l, plan.prices[l])
  BY DEF Missing, DesiredPrice
<1> QED BY <1>1, <1>2, <1>3 DEF MakerPrice, Crossing

\* Where a pause takes the orders back, no order is left by a tick that would
\* take, unless it is asked to stop, however young it is and whatever pauses
\* (reconcile_grid_plan).
THEOREM OrdersStayMakers ==
  ASSUME CancelOnPause
  PROVE  Spec => MakerSafety
<1>1. IInv /\ [Next]_vars => [MakerStep]_vars
  <2> SUFFICES ASSUME TypeOK, Tick, NEW e \in Slots, executors'[e].phase = "resting"
               PROVE  \/ ~Crossing(executors'[e].level, executors'[e].price)
                      \/ executors'[e].stopping
    BY DEF IInv, MakerStep
  <2>1. market' = market
    BY DEF Tick
  <2>2. PICK C \in SUBSET Levels : \E at \in [C -> Slots \ Active] :
          /\ C \subseteq Missing
          /\ \/ e \in Stops /\ executors'[e].stopping
             \/ e \in Resting \ Stops /\ executors'[e] = executors[e]
             \/ /\ executors'[e].level \in C
                /\ executors'[e].price = DesiredPrice(executors'[e].level)
    BY TickCreates
  <2>3. CASE e \in Resting \ Stops /\ executors'[e] = executors[e]
    <3>1. ~Paused /\ ~StopDue(e)
      BY <2>3 DEF Stops
    <3> QED BY <2>3, <3>1 DEF StopDue
  <2>4. CASE executors'[e].level \in C /\ executors'[e].price = DesiredPrice(executors'[e].level)
    BY <2>2, <2>4, DesiredRests
  <2> QED BY <2>2, <2>3, <2>4
<1> QED BY <1>1, Invariant, PTL DEF Spec, MakerSafety

-----------------------------------------------------------------------------
(* The canary on mainnet *)

\* The network a configuration is of is no field that a later file changes.
CanaryInv ==
    /\ config.environment = "mainnet" /\ Updatable \subseteq DOMAIN config
    /\ config.max_order \in Int /\ config.max_total \in Int /\ config.max_loss \in Int
    /\ config.stop_loss \in Int /\ config.order_scale \in Int
    /\ holding \in Int
    /\ DOMAIN entries = EntrySides
    /\ \A s \in EntrySides : /\ DOMAIN entries[s] = {"phase", "notional"}
                             /\ entries[s].notional \in Int

EntriesTyped(es) ==
    DOMAIN es = EntrySides
      /\ \A s \in EntrySides : DOMAIN es[s] = {"phase", "notional"} /\ es[s].notional \in Int

\* The sides are told apart.
LEMMA TwoSides == EntrySides = {"buy", "sell"} /\ "buy" # "sell"
  BY DEF EntrySides

\* What rests is what rests on each side.
LEMMA RestingIs ==
  ASSUME NEW es, EntriesTyped(es)
  PROVE  /\ RestingNotional(es, EntrySides) \in Int
         /\ RestingNotional(es, EntrySides) =
              (IF es["buy"].phase = "resting" THEN es["buy"].notional ELSE 0)
              + (IF es["sell"].phase = "resting" THEN es["sell"].notional ELSE 0)
  BY DEF RestingNotional, RestingSides, EntrySides, EntriesTyped

\* An entry is created only within every budget, and only on its own side.
LEMMA CreateWithin ==
  ASSUME CanaryInv, NEW es, EntriesTyped(es), NEW side \in EntrySides, NEW notional \in Int
  PROVE  LET after == CreateEntry(es, side, notional)
         IN  /\ EntriesTyped(after)
             /\ \A s \in EntrySides \ {side} : after[s] = es[s]
             /\ \/ after = es
                \/ /\ es[side].phase = "none" /\ after[side].phase = "resting"
                   /\ after[side].notional <= config.max_order
                   /\ Total + RestingNotional(after, EntrySides) <= config.max_total
  <1> DEFINE after == [es EXCEPT ![side] = [phase |-> "resting", notional |-> notional]]
  <1>1. CASE Creatable(es, side, notional)
    <2>1. CreateEntry(es, side, notional) = after
      BY <1>1 DEF CreateEntry
    <2>2. EntriesTyped(after) /\ \A s \in EntrySides \ {side} : after[s] = es[s]
      BY DEF EntriesTyped
    <2>3. after[side].phase = "resting" /\ after[side].notional = notional
      BY DEF EntriesTyped
    <2>4. /\ es[side].phase = "none" /\ notional <= config.max_order
          /\ Total + RestingNotional(es, EntrySides) + notional <= config.max_total
      BY <1>1 DEF Creatable
    <2> HIDE DEF after
    <2>5. RestingNotional(after, EntrySides) = RestingNotional(es, EntrySides) + notional
      <3>1. CASE side = "buy"
        BY <2>2, <2>3, <2>4, <3>1, RestingIs, TwoSides DEF EntriesTyped
      <3>2. CASE side = "sell"
        BY <2>2, <2>3, <2>4, <3>2, RestingIs, TwoSides DEF EntriesTyped
      <3> QED
        BY <3>1, <3>2, TwoSides
    <2>6. /\ RestingNotional(es, EntrySides) \in Int /\ Total \in Int
          /\ config.max_total \in Int
      BY RestingIs DEF CanaryInv, Total, PositionOn
    <2>7. Total + RestingNotional(after, EntrySides) <= config.max_total
      BY <2>4, <2>5, <2>6
    <2> QED
      BY <2>1, <2>2, <2>3, <2>4, <2>7
  <1>2. CASE ~Creatable(es, side, notional)
    BY <1>2 DEF CreateEntry
  <1> QED
    BY <1>1, <1>2

\* What a tick creates leaves all that rests and is held within the total.
LEMMA TickWithin ==
  ASSUME CanaryInv, CanaryTick
  PROVE  /\ EntriesTyped(entries')
         /\ CanaryPaused => entries' = entries
         /\ \/ Created = {}
            \/ /\ Total + RestingNotional(entries', EntrySides) <= config.max_total
               /\ \A s \in Created : entries'[s].notional <= config.max_order
  <1>1. EntriesTyped(entries)
    BY DEF CanaryInv, EntriesTyped
  <1>2. CASE CanaryPaused
    BY <1>1, <1>2 DEF CanaryTick, Created
  <1>3. CASE ~CanaryPaused
    <2>1. PICK buy \in PlanQuotes, sell \in PlanQuotes :
             entries' = CreateEntry(CreateEntry(entries, "buy", buy * config.order_scale),
                                    "sell", sell * config.order_scale)
      BY <1>3 DEF CanaryTick
    <2> DEFINE bought == CreateEntry(entries, "buy", buy * config.order_scale)
    <2>2. buy * config.order_scale \in Int /\ sell * config.order_scale \in Int
      <3>1. buy \in Int /\ sell \in Int /\ config.order_scale \in Int
        BY CanaryAssumption DEF CanaryInv
      <3> QED
        BY <3>1
    <2>3. /\ EntriesTyped(bought) /\ bought["sell"] = entries["sell"]
          /\ \/ bought = entries
             \/ /\ entries["buy"].phase = "none" /\ bought["buy"].phase = "resting"
                /\ bought["buy"].notional <= config.max_order
                /\ Total + RestingNotional(bought, EntrySides) <= config.max_total
      BY <1>1, <2>2, CreateWithin, TwoSides
    <2> HIDE DEF bought
    <2>4. /\ EntriesTyped(entries') /\ entries'["buy"] = bought["buy"]
          /\ \/ entries' = bought
             \/ /\ bought["sell"].phase = "none" /\ entries'["sell"].phase = "resting"
                /\ entries'["sell"].notional <= config.max_order
                /\ Total + RestingNotional(entries', EntrySides) <= config.max_total
      BY <2>1, <2>2, <2>3, CreateWithin, TwoSides DEF bought
    <2>5. /\ "buy" \in Created => /\ bought # entries
                                  /\ entries'["buy"].notional <= config.max_order
          /\ "sell" \in Created => /\ entries' # bought
                                   /\ entries'["sell"].notional <= config.max_order
      BY <2>3, <2>4 DEF Created
    <2>6. Created \subseteq {"buy", "sell"}
      BY TwoSides DEF Created
    <2> QED
      BY <1>3, <2>3, <2>4, <2>5, <2>6
  <1> QED
    BY <1>2, <1>3

LEMMA CanaryStarts == CanaryInit => CanaryInv
  <1> SUFFICES ASSUME CanaryInit PROVE CanaryInv
    OBVIOUS
  <1>1. /\ config \in Files /\ config.environment = "mainnet" /\ holding \in Int
        /\ entries = [s \in EntrySides |-> [phase |-> "none", notional |-> 0]]
    BY CanaryAssumption DEF CanaryInit
  <1>2. /\ DOMAIN entries = EntrySides
        /\ \A s \in EntrySides : entries[s] = [phase |-> "none", notional |-> 0]
    BY <1>1
  <1>3. \A s \in EntrySides : /\ DOMAIN entries[s] = {"phase", "notional"}
                              /\ entries[s].notional \in Int
    BY <1>2
  <1> QED
    BY <1>1, <1>2, <1>3, CanaryAssumption DEF CanaryInv

LEMMA CanaryStep == CanaryInv /\ [CanaryNext]_canaryVars => CanaryInv'
  <1> SUFFICES ASSUME CanaryInv, [CanaryNext]_canaryVars PROVE CanaryInv'
    OBVIOUS
  <1>1. CASE CanaryTick
    <2>1. config' = config /\ holding' = holding
      BY <1>1 DEF CanaryTick
    <2> QED
      BY <1>1, <2>1, TickWithin DEF CanaryInv, EntriesTyped
  <1>2. CASE ConfigUpdated
    <2>1. PICK file \in Files : config' = Updated(config, file)
      BY <1>2 DEF ConfigUpdated
    <2>2. /\ Updatable \subseteq DOMAIN config'
          /\ config'.environment = config.environment /\ config'.stop_loss = config.stop_loss
          /\ config'.max_order = file.max_order /\ config'.max_total = file.max_total
          /\ config'.max_loss = file.max_loss /\ config'.order_scale = file.order_scale
      BY <2>1 DEF Updated, CanaryInv, Updatable
    <2>3. holding' = holding /\ entries' = entries
      BY <1>2 DEF ConfigUpdated
    <2> QED
      BY <2>2, <2>3, CanaryAssumption DEF CanaryInv
  <1>3. CASE Reported \/ UNCHANGED canaryVars
    BY <1>3 DEF Reported, canaryVars, CanaryInv
  <1>4. ASSUME NEW side \in EntrySides, EntryFilled(side) PROVE CanaryInv'
    <2>1. /\ config' = config /\ holding' \in Int
          /\ entries' = [entries EXCEPT ![side] = [entries[side] EXCEPT !.phase = "filled"]]
      BY <1>4 DEF EntryFilled, CanaryInv
    <2> QED
      BY <2>1 DEF CanaryInv
  <1>5. ASSUME NEW side \in EntrySides, EntryEnded(side) PROVE CanaryInv'
    <2>1. /\ config' = config /\ holding' \in Int
          /\ entries' = [entries EXCEPT ![side] = [phase |-> "none", notional |-> 0]]
      BY <1>5 DEF EntryEnded, CanaryInv
    <2> QED
      BY <2>1 DEF CanaryInv
  <1> QED
    BY <1>1, <1>2, <1>3, <1>4, <1>5 DEF CanaryNext

\* On mainnet an entry is created only with every approval given and within the
\* budgets: all that rests and is held, stopped out together, loses no more than
\* the loss budget (reconcile_grid_plan, CanaryRiskLimits.blockers).
THEOREM CanaryStaysWithinBudget == CanarySpec => CanaryWithinBudget
  <1> DEFINE Within ==
        \A s \in Created :
          /\ connector.environment = "mainnet" /\ Consistent(config, "mainnet")
          /\ config.allow_mainnet_trading /\ config.execution_enabled /\ config.acknowledged
          /\ config.account_verified
          /\ entries'[s].notional <= config.max_order
          /\ (Total + RestingNotional(entries', EntrySides)) * config.stop_loss
               <= 100 * config.max_loss
  <1>1. CanaryInv /\ [CanaryNext]_canaryVars => [Within]_canaryVars
    <2> SUFFICES ASSUME CanaryInv, CanaryNext, Created # {} PROVE Within
      BY DEF canaryVars
    <2>1. CASE CanaryTick
      <3>1. ~CanaryPaused
        BY <2>1, TickWithin DEF Created
      <3>2. /\ ReadyForNewEntries /\ Configured(config.stop_loss)
            /\ ~(config.max_total * config.stop_loss > 100 * config.max_loss)
        BY <3>1 DEF CanaryPaused
      <3>3. /\ connector.environment = "mainnet" /\ Consistent(config, "mainnet")
            /\ config.allow_mainnet_trading /\ config.execution_enabled /\ config.acknowledged
            /\ config.account_verified
        BY <3>2 DEF CanaryInv, ReadyForNewEntries, Unblocked
      <3> DEFINE all == Total + RestingNotional(entries', EntrySides)
      <3>4. /\ all <= config.max_total
            /\ \A s \in Created : entries'[s].notional <= config.max_order
        BY <2>1, TickWithin
      <3>5. /\ all \in Int /\ config.max_total \in Int /\ config.stop_loss \in Nat
            /\ config.max_loss \in Int
        BY <2>1, <3>2, TickWithin, RestingIs
        DEF CanaryInv, Total, PositionOn, Configured, EntriesTyped
      <3> HIDE DEF all
      <3>6. all * config.stop_loss <= config.max_total * config.stop_loss
        BY <3>4, <3>5
      <3>7. all * config.stop_loss <= 100 * config.max_loss
        BY <3>2, <3>5, <3>6
      <3> QED
        BY <3>3, <3>4, <3>7 DEF all
    <2>2. CASE ConfigUpdated \/ Reported
      BY <2>2 DEF ConfigUpdated, Reported, Created
    <2>3. ASSUME NEW side \in EntrySides, EntryFilled(side) \/ EntryEnded(side) PROVE FALSE
      <3>1. \A s \in EntrySides : entries'[s].phase = "resting" => entries[s].phase = "resting"
        BY <2>3 DEF EntryFilled, EntryEnded, CanaryInv
      <3> QED
        BY <3>1 DEF Created
    <2> QED
      BY <2>1, <2>2, <2>3 DEF CanaryNext
  <1> QED
    BY CanaryStarts, CanaryStep, <1>1, PTL DEF CanarySpec, CanaryWithinBudget
=============================================================================
