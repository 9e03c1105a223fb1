--------------------------- MODULE PeriodicProofs ---------------------------
(***************************************************************************)
(* The periodic task for any number of callers, calls and timers.  The     *)
(* bound on the chains becomes inductive once the mark is counted: a task  *)
(* that is not running has paid for every chain with a Close.              *)
(***************************************************************************)
EXTENDS Periodic, FiniteSetTheorems, TLAPS

NoFailure == canFail \/ \A g \in Goroutines : pc[g] \notin {"fail", "failStart"}

MarkedChainBound ==
  canFail \/ Cardinality(Chains) <= closes + (IF running THEN 1 ELSE 0)

IInv ==
  /\ TypeOK
  /\ RunningHasChain
  /\ NoFailure
  /\ MarkedChainBound

\* There are finitely many goroutines, so the chains can be counted.
LEMMA ChainsFinite ==
  IsFiniteSet(Chains) /\ Cardinality(Chains) \in Nat
  <1>1. IsFiniteSet(Goroutines)
    BY PeriodicAssumption, FS_Union DEF Goroutines
  <1>2. Chains \subseteq Goroutines
    BY DEF Chains
  <1> QED
    BY <1>1, <1>2, FS_Subset, FS_CardinalityType

\* Adding a chain (a Start that finds the task stopped) adds at most one.
LEMMA AddOne ==
  ASSUME NEW S, IsFiniteSet(S), NEW c
  PROVE  IsFiniteSet(S \cup {c}) /\ Cardinality(S \cup {c}) <= Cardinality(S) + 1
  <1>1. Cardinality(S) \in Nat
    BY FS_CardinalityType
  <1>2. /\ IsFiniteSet(S \cup {c})
        /\ Cardinality(S \cup {c}) = IF c \in S THEN Cardinality(S) ELSE Cardinality(S) + 1
    BY FS_AddElement
  <1> QED
    BY <1>1, <1>2

\* Replacing one chain by another (the round of a timer ends by arming one) does
\* not add a chain.
LEMMA ReplaceOne ==
  ASSUME NEW S, IsFiniteSet(S), NEW T, NEW g \in S, NEW t, T \subseteq (S \ {g}) \cup {t}
  PROVE  Cardinality(T) <= Cardinality(S)
  <1>1. IsFiniteSet(S \ {g}) /\ Cardinality(S \ {g}) = Cardinality(S) - 1
    BY FS_RemoveElement
  <1>2. /\ IsFiniteSet((S \ {g}) \cup {t})
        /\ Cardinality((S \ {g}) \cup {t}) <= Cardinality(S)
    <2>1. Cardinality(S) \in Nat
      BY FS_CardinalityType
    <2> DEFINE R == S \ {g}
    <2>2. IsFiniteSet(R) /\ Cardinality(R) = Cardinality(S) - 1
      BY <1>1
    <2> HIDE DEF R
    <2>3. /\ IsFiniteSet(R \cup {t})
          /\ Cardinality(R \cup {t}) = IF t \in R THEN Cardinality(R) ELSE Cardinality(R) + 1
      BY <2>2, FS_AddElement
    <2>4. IsFiniteSet(R \cup {t}) /\ Cardinality(R \cup {t}) <= Cardinality(S)
      BY <2>1, <2>2, <2>3
    <2> QED
      BY <2>4 DEF R
  <1>3. Cardinality(T) <= Cardinality((S \ {g}) \cup {t})
    BY <1>2, FS_Subset
  <1>4. /\ Cardinality(T) \in Nat
        /\ Cardinality((S \ {g}) \cup {t}) \in Nat
        /\ Cardinality(S) \in Nat
    BY <1>2, FS_Subset, FS_CardinalityType
  <1> QED
    BY <1>2, <1>3, <1>4

\* TypeOK is preserved by every step.
LEMMA TypeStep == TypeOK /\ [Next]_vars => TypeOK'
  <1> SUFFICES ASSUME TypeOK, [Next]_vars PROVE TypeOK'
    OBVIOUS
  <1> USE PeriodicAssumption DEF TypeOK, ChainPCs, Goroutines
  <1>1. ASSUME NEW c \in Callers, Start(c) PROVE TypeOK'
    <2>1. starts' \in 0..MaxStarts
      BY <1>1 DEF Start
    <2>2. /\ pc' \in [Goroutines -> ChainPCs \cup {"idle", "fail", "failStart"}]
          /\ \A g \in Goroutines : pc'[g] = pc[g] \/ pc'[g] = "check"
      BY <1>1 DEF Start
    <2>3. running' \in BOOLEAN /\ stopped' \in BOOLEAN /\ owed' \in BOOLEAN
      BY <1>1, Zenon DEF Start
    <2> QED
      BY <1>1, <2>1, <2>2, <2>3 DEF Start
  <1>2. ASSUME NEW c \in Callers, Close(c) PROVE TypeOK'
    <2>1. closes' \in 0..MaxCloses
      BY <1>2 DEF Close
    <2>2. \A g \in Goroutines : pc'[g] = pc[g] \/ pc'[g] = "idle"
      BY <1>2 DEF Close, StopTimer
    <2>3. pc' \in [Goroutines -> ChainPCs \cup {"idle", "fail", "failStart"}]
      BY <1>2 DEF Close, StopTimer
    <2> QED
      BY <1>2, <2>1, <2>2, <2>3 DEF Close, StopTimer
  <1>3. ASSUME NEW g \in Goroutines, HasClosed(g) PROVE TypeOK'
    BY <1>3 DEF HasClosed
  <1>4. ASSUME NEW g \in Goroutines, Execute(g) PROVE TypeOK'
    BY <1>4 DEF Execute
  <1>5. ASSUME NEW g \in Goroutines, Rearm(g) PROVE TypeOK'
    BY <1>5 DEF Rearm
  <1>6. ASSUME NEW g \in Goroutines, Fail(g) PROVE TypeOK'
    BY <1>6 DEF Fail
  <1>7. ASSUME NEW c \in Callers, FailStart(c) PROVE TypeOK'
    BY <1>7 DEF FailStart
  <1>8. ASSUME NEW t \in Timers, Fire(t) PROVE TypeOK'
    BY <1>8 DEF Fire
  <1>9. ASSUME UNCHANGED vars PROVE TypeOK'
    BY <1>9 DEF vars
  <1> QED
    BY <1>1, <1>2, <1>3, <1>4, <1>5, <1>6, <1>7, <1>8, <1>9 DEF Next, Round

\* The mark is never left without a goroutine that honours or clears it.
LEMMA RunningStep == TypeOK /\ RunningHasChain /\ [Next]_vars => RunningHasChain'
  <1> SUFFICES ASSUME TypeOK, RunningHasChain, [Next]_vars PROVE RunningHasChain'
    OBVIOUS
  <1> USE DEF RunningHasChain, TypeOK, ChainPCs, Goroutines
  <1>1. ASSUME NEW c \in Callers, Start(c) PROVE RunningHasChain'
    BY <1>1 DEF Start
  <1>2. ASSUME NEW c \in Callers, Close(c) PROVE RunningHasChain'
    BY <1>2 DEF Close
  <1>3. ASSUME NEW g \in Goroutines, HasClosed(g) PROVE RunningHasChain'
    BY <1>3 DEF HasClosed
  <1>4. ASSUME NEW g \in Goroutines, Execute(g) PROVE RunningHasChain'
    BY <1>4 DEF Execute
  <1>5. ASSUME NEW g \in Goroutines, Rearm(g) PROVE RunningHasChain'
    BY <1>5 DEF Rearm
  <1>6. ASSUME NEW g \in Goroutines, Fail(g) PROVE RunningHasChain'
    BY <1>6 DEF Fail
  <1>7. ASSUME NEW c \in Callers, FailStart(c) PROVE RunningHasChain'
    BY <1>7 DEF FailStart
  <1>8. ASSUME NEW t \in Timers, Fire(t) PROVE RunningHasChain'
    BY <1>8 DEF Fire
  <1>9. ASSUME UNCHANGED vars PROVE RunningHasChain'
    BY <1>9 DEF vars
  <1> QED
    BY <1>1, <1>2, <1>3, <1>4, <1>5, <1>6, <1>7, <1>8, <1>9 DEF Next, Round

\* A task whose Execute does not fail never takes the error path.
LEMMA NoFailureStep == TypeOK /\ NoFailure /\ [Next]_vars => NoFailure'
  <1> SUFFICES ASSUME TypeOK, NoFailure, [Next]_vars, ~canFail'
               PROVE  (\A g \in Goroutines : pc[g] \notin {"fail", "failStart"})'
    BY DEF NoFailure
  <1>1. ~canFail
    BY DEF Next, Round, Start, Close, HasClosed, Execute, Rearm, Fail, FailStart, Fire, vars
  <1> USE DEF NoFailure, TypeOK, ChainPCs, Goroutines
  <1> QED
    BY <1>1 DEF Next, Round, Start, Close, StopTimer, HasClosed, Execute, Rearm, Fail,
           FailStart, Fire, vars

\* A step that turns no goroutine into a chain leaves at most as many of them.
LEMMA FewerChains ==
  ASSUME Chains' \subseteq Chains
  PROVE  Cardinality(Chains') <= Cardinality(Chains) /\ Cardinality(Chains') \in Nat
  <1>1. IsFiniteSet(Chains')
    BY ChainsFinite, FS_Subset
  <1> QED
    BY <1>1, ChainsFinite, FS_Subset, FS_CardinalityType

\* The number of chains is paid for by the calls of Close and by the mark.
LEMMA ChainStep ==
  TypeOK /\ NoFailure /\ MarkedChainBound /\ [Next]_vars => MarkedChainBound'
  <1> SUFFICES ASSUME TypeOK, NoFailure, MarkedChainBound, [Next]_vars, ~canFail'
               PROVE  (Cardinality(Chains) <= closes + (IF running THEN 1 ELSE 0))'
    BY DEF MarkedChainBound
  <1> ~canFail
    BY DEF Next, Round, Start, Close, HasClosed, Execute, Rearm, Fail, FailStart, Fire, vars
  <1> DEFINE Goal == (Cardinality(Chains) <= closes + (IF running THEN 1 ELSE 0))'
  <1> closes \in Nat /\ running \in BOOLEAN /\ Cardinality(Chains) \in Nat
    BY PeriodicAssumption, ChainsFinite DEF TypeOK
  <1>0. Cardinality(Chains) <= closes + (IF running THEN 1 ELSE 0)
    BY DEF MarkedChainBound
  <1>1. ASSUME NEW c \in Callers, Start(c) PROVE Goal
    <2>1. CASE running
      <3>1. Chains' \subseteq Chains
        BY <1>1, <2>1 DEF Start, Chains
      <3> QED
        BY <1>0, <1>1, <2>1, <3>1, FewerChains DEF Start
    <2>2. CASE ~running
      <3>1. Chains' \subseteq Chains \cup {c}
        BY <1>1, <2>2 DEF Start, Chains, TypeOK
      <3>2. /\ IsFiniteSet(Chains \cup {c})
            /\ Cardinality(Chains \cup {c}) <= Cardinality(Chains) + 1
        <4>1. IsFiniteSet(Chains)
          BY ChainsFinite
        <4> QED
          BY <4>1, AddOne
      <3>3. /\ Cardinality(Chains') <= Cardinality(Chains \cup {c})
            /\ Cardinality(Chains') \in Nat
            /\ Cardinality(Chains \cup {c}) \in Nat
        BY <3>1, <3>2, FS_Subset, FS_CardinalityType
      <3>4. Cardinality(Chains') <= closes + 1
        BY <1>0, <2>2, <3>2, <3>3
      <3> QED
        BY <1>1, <3>4 DEF Start
    <2> QED
      BY <2>1, <2>2
  <1>2. ASSUME NEW c \in Callers, Close(c) PROVE Goal
    <2>1. Chains' \subseteq Chains
      BY <1>2 DEF Close, StopTimer, Chains, ChainPCs
    <2> QED
      BY <1>0, <1>2, <2>1, FewerChains DEF Close
  <1>3. ASSUME NEW g \in Goroutines, HasClosed(g) \/ Execute(g) PROVE Goal
    <2>1. Chains' \subseteq Chains
      BY <1>3 DEF HasClosed, Execute, Chains, ChainPCs, TypeOK
    <2> QED
      BY <1>0, <1>3, <2>1, FewerChains DEF HasClosed, Execute
  <1>4. ASSUME NEW g \in Goroutines, Rearm(g) PROVE Goal
    <2>1. g \in Chains
      BY <1>4 DEF Rearm, Chains, ChainPCs
    <2>2. PICK t : Chains' \subseteq (Chains \ {g}) \cup {t}
      BY <1>4 DEF Rearm, Chains, ChainPCs, TypeOK, Goroutines
    <2>3. IsFiniteSet(Chains)
      BY ChainsFinite
    <2>4. Cardinality(Chains') <= Cardinality(Chains)
      BY <2>1, <2>2, <2>3, ReplaceOne
    <2>5. Cardinality(Chains') \in Nat
      <3>1. IsFiniteSet(Chains \cup {t})
        BY <2>3, FS_AddElement
      <3>2. Chains' \subseteq Chains \cup {t}
        BY <2>2
      <3> QED
        BY <3>1, <3>2, FS_Subset, FS_CardinalityType
    <2> QED
      BY <1>0, <1>4, <2>4, <2>5 DEF Rearm
  <1>5. ASSUME NEW g \in Goroutines, Fail(g) \/ FailStart(g) PROVE Goal
    BY <1>5 DEF NoFailure, Fail, FailStart
  <1>6. ASSUME NEW t \in Timers, Fire(t) PROVE Goal
    <2>1. Chains' \subseteq Chains
      BY <1>6 DEF Fire, Chains, ChainPCs, TypeOK, Goroutines
    <2> QED
      BY <1>0, <1>6, <2>1, FewerChains DEF Fire
  <1>7. ASSUME UNCHANGED vars PROVE Goal
    <2>1. Chains' = Chains
      BY <1>7 DEF vars, Chains
    <2> QED
      BY <1>0, <1>7, <2>1 DEF vars
  <1> QED
    BY <1>1, <1>2, <1>3, <1>4, <1>5, <1>6, <1>7 DEF Next, Round, Goroutines

\* IInv holds in every state the task can reach.
LEMMA Inductive == Spec => []IInv
  <1>1. Init => IInv
    <2> SUFFICES ASSUME Init PROVE IInv
      OBVIOUS
    <2>1. TypeOK
      <3>0. canFail \in BOOLEAN
        BY PeriodicAssumption DEF Init
      <3>1. running \in BOOLEAN /\ owed \in BOOLEAN /\ stopped \in BOOLEAN
        BY Zenon DEF Init
      <3>2. timer \in Timers \cup {NoTimer} /\ starts \in 0..MaxStarts /\ closes \in 0..MaxCloses
        BY PeriodicAssumption DEF Init
      <3>3. /\ pc \in [Goroutines -> ChainPCs \cup {"idle", "fail", "failStart"}]
            /\ \A g \in Goroutines : pc[g] = "idle"
        BY DEF Init
      <3>4. \A g \in Goroutines : pc[g] # "failStart" /\ pc[g] # "armed"
        BY <3>3
      <3> QED
        BY <3>0, <3>1, <3>2, <3>3, <3>4 DEF TypeOK
    <2>5. RunningHasChain
      BY Zenon DEF Init, RunningHasChain
    <2>4. NoFailure
      BY DEF Init, NoFailure
    <2>2. Chains = {}
      BY DEF Init, Chains, ChainPCs
    <2>3. MarkedChainBound
      BY <2>2, FS_EmptySet DEF Init, MarkedChainBound
    <2> QED
      BY <2>1, <2>3, <2>4, <2>5 DEF IInv
  <1>2. IInv /\ [Next]_vars => IInv'
    BY TypeStep, RunningStep, NoFailureStep, ChainStep DEF IInv
  <1> QED
    BY <1>1, <1>2, PTL DEF Spec

\* Type correctness of periodic.go's state for every number of callers and timers.
THEOREM TypeCorrect == Spec => []TypeOK
  <1>1. IInv => TypeOK
    BY DEF IInv
  <1> QED
    BY <1>1, Inductive, PTL

\* A task marked running is never orphaned, with or without failing Execute.
THEOREM RunningIsServed == Spec => []RunningHasChain
  <1>1. IInv => RunningHasChain
    BY DEF IInv
  <1> QED
    BY <1>1, Inductive, PTL

\* However Start and Close interleave with a running Execute, the chains of a
\* task that does not fail are at most one more than the calls of Close.
THEOREM ChainsBounded == Spec => []ChainBound
  <1>1. IInv => ChainBound
    <2> SUFFICES ASSUME IInv, ~canFail PROVE Cardinality(Chains) <= 1 + closes
      BY DEF ChainBound
    <2>1. closes \in Nat /\ Cardinality(Chains) \in Nat
      BY PeriodicAssumption, ChainsFinite DEF IInv, TypeOK
    <2> QED
      BY <2>1 DEF IInv, MarkedChainBound
  <1> QED
    BY <1>1, Inductive, PTL

=============================================================================
