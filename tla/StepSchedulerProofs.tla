------------------------- MODULE StepSchedulerProofs -------------------------
(***************************************************************************)
(* What dependsOn is worth, for every set of steps and every dependsOn.    *)
(***************************************************************************)
EXTENDS StepScheduler, FiniteSetTheorems, WellFoundedInduction, TLAPS

\* Every step has one of the four states.
THEOREM StatusTyped == SchedulerSpec => []StatusOK
  <1>1. SchedulerInit => StatusOK
    BY DEF SchedulerInit, StatusOK, Statuses, Settled
  <1>2. StatusOK /\ [SchedulerNext]_status => StatusOK'
    BY DEF StatusOK, SchedulerNext, Start, Settle, Statuses, Settled
  <1> QED  BY <1>1, <1>2, PTL DEF SchedulerSpec

\* A step never becomes pending again, nor unsettled.
LEMMA SettledStays ==
    ASSUME StatusOK, SchedulerNext, NEW s \in Steps
    PROVE  /\ status[s] \in Settled => status'[s] \in Settled
           /\ status'[s] # "pending" =>
                 status[s] # "pending" \/ \A d \in DependsOn[s] : status[d] \in Settled
  BY DEF StatusOK, SchedulerNext, Start, Ready, Settle, Settled, Statuses

\* A step that has started finds everything it builds on settled.
THEOREM StartedAfterAncestors == SchedulerSpec => []InputsSettled
  <1>1. SchedulerInit => InputsSettled
    BY DEF SchedulerInit, InputsSettled
  <1>2. StatusOK /\ InputsSettled /\ [SchedulerNext]_status => InputsSettled'
    <2> SUFFICES ASSUME StatusOK, InputsSettled, SchedulerNext,
                        NEW s \in Steps, status'[s] # "pending",
                        NEW a \in Ancestors[s]
                 PROVE  status'[a] \in Settled
      BY DEF InputsSettled
    <2>1. a \in Steps
      BY AncestorsAssumption
    <2>2. CASE status[s] # "pending"
      BY <2>1, <2>2, SettledStays DEF InputsSettled
    <2>3. CASE \A d \in DependsOn[s] : status[d] \in Settled
      <3>1. PICK d \in DependsOn[s] : a = d \/ a \in Ancestors[d]
        BY AncestorsAssumption
      <3>2. d \in Steps /\ status[d] # "pending"
        BY <2>3, DependsOnAssumption DEF Settled
      <3>3. status[a] \in Settled
        BY <2>3, <3>1, <3>2 DEF InputsSettled
      <3> QED  BY <2>1, <3>3, SettledStays
    <2> QED  BY <2>2, <2>3, SettledStays
  <1> QED  BY <1>1, <1>2, StatusTyped, PTL DEF SchedulerSpec
-----------------------------------------------------------------------------
(* The scheduler never gets stuck.                                          *)

\* Where no step builds on itself, some step of each set waits for none of that set.
LEMMA OneWaitsForNone ==
    ASSUME IsFiniteSet(Steps), \A s \in Steps : s \notin Ancestors[s],
           NEW T \in SUBSET Steps, T # {}
    PROVE  \E s \in T : DependsOn[s] \cap T = {}
  <1> DEFINE Before == {Ancestors[s] : s \in T}
  <1>1. Before \subseteq SUBSET Steps /\ Before # {}
    BY AncestorsAssumption
  <1>2. IsWellFoundedOn(StrictSubsetOrdering(Steps), SUBSET Steps)
    BY FS_StrictSubsetOrderingWellFounded, FS_FiniteSubsetsOfFinite
  <1>3. PICK least \in Before : \A b \in Before : <<b, least>> \notin StrictSubsetOrdering(Steps)
    BY <1>1, <1>2, WFMin
  <1>4. PICK s \in T : least = Ancestors[s]
    OBVIOUS
  <1>5. ASSUME NEW d \in DependsOn[s], d \in T
        PROVE  FALSE
    <2>1. /\ d \in Ancestors[s] /\ d \notin Ancestors[d]
          /\ Ancestors[d] \subseteq Ancestors[s] /\ Ancestors[s] \subseteq Steps
      BY <1>5, AncestorsAssumption
    <2>2. <<Ancestors[d], Ancestors[s]>> \in StrictSubsetOrdering(Steps)
      BY <2>1 DEF StrictSubsetOrdering
    <2> QED  BY <1>3, <1>4, <1>5, <2>2
  <1> QED  BY <1>5

\* Where no step builds on itself, a step builds on all that its ancestors build on.
LEMMA AncestorsAreTransitive ==
    ASSUME IsFiniteSet(Steps), \A s \in Steps : s \notin Ancestors[s],
           NEW s \in Steps, NEW a \in Ancestors[s]
    PROVE  a \in Steps /\ Ancestors[a] \subseteq Ancestors[s]
  <1> DEFINE Astray == {x \in Steps : \E y \in Ancestors[x] : ~(Ancestors[y] \subseteq Ancestors[x])}
  <1>1. ASSUME Astray # {}
        PROVE  FALSE
    <2>1. PICK x \in Astray : DependsOn[x] \cap Astray = {}
      BY <1>1, OneWaitsForNone
    <2>2. PICK y \in Ancestors[x] : ~(Ancestors[y] \subseteq Ancestors[x])
      BY <2>1
    <2>3. PICK d \in DependsOn[x] : y = d \/ y \in Ancestors[d]
      BY <2>1, <2>2, AncestorsAssumption
    <2>4. d \in Steps /\ d \notin Astray /\ Ancestors[d] \subseteq Ancestors[x]
      BY <2>1, <2>3, DependsOnAssumption, AncestorsAssumption
    <2> QED  BY <2>2, <2>3, <2>4
  <1> QED  BY <1>1, AncestorsAssumption

\* Some step of each set builds on none of that set.
LEMMA OneBuildsOnNone ==
    ASSUME IsFiniteSet(Steps), \A s \in Steps : s \notin Ancestors[s],
           NEW T \in SUBSET Steps, T # {}
    PROVE  \E s \in T : Ancestors[s] \cap T = {}
  <1> DEFINE Above == {s \in Steps : \E t \in T : s = t \/ t \in Ancestors[s]}
  <1>1. PICK s \in Above : DependsOn[s] \cap Above = {}
    BY OneWaitsForNone
  <1>2. ASSUME NEW t \in T, t \in Ancestors[s]
        PROVE  FALSE
    <2>1. PICK d \in DependsOn[s] : t = d \/ t \in Ancestors[d]
      BY <1>2, AncestorsAssumption
    <2>2. d \in Above
      BY <2>1, DependsOnAssumption
    <2> QED  BY <1>1, <2>1, <2>2
  <1> QED  BY <1>2

\* A set with all that its steps name in dependsOn has all that they build on.
LEMMA ClosedUnderAncestors ==
    ASSUME IsFiniteSet(Steps), \A s \in Steps : s \notin Ancestors[s],
           NEW S \in SUBSET Steps, \A s \in S : DependsOn[s] \subseteq S
    PROVE  \A s \in S : Ancestors[s] \subseteq S
  <1> DEFINE Open == {s \in S : ~(Ancestors[s] \subseteq S)}
  <1>1. ASSUME Open # {}
        PROVE  FALSE
    <2>1. PICK s \in Open : DependsOn[s] \cap Open = {}
      BY <1>1, OneWaitsForNone
    <2>2. \A d \in DependsOn[s] : d \in S /\ Ancestors[d] \subseteq S
      BY <2>1
    <2> QED  BY <2>1, <2>2, AncestorsAssumption
  <1> QED  BY <1>1

\* While a step has not settled, one is running or can start: whatever the order, and
\* whichever steps fail, a schedule comes to rest only when every step has settled.
THEOREM NeverStuck ==
    ASSUME IsFiniteSet(Steps), \A s \in Steps : s \notin Ancestors[s]
    PROVE  SchedulerSpec =>
              [](AllSettled \/ \E s \in Steps : status[s] = "running" \/ Ready(s))
  <1>1. StatusOK => AllSettled \/ \E s \in Steps : status[s] = "running" \/ Ready(s)
    <2> SUFFICES ASSUME StatusOK, ~AllSettled, \A s \in Steps : status[s] # "running"
                 PROVE  \E s \in Steps : Ready(s)
      OBVIOUS
    <2> DEFINE Pending == {s \in Steps : status[s] = "pending"}
    <2>1. \A s \in Steps : s \in Pending \/ status[s] \in Settled
      BY DEF StatusOK, Statuses
    <2>2. PICK s \in Pending : DependsOn[s] \cap Pending = {}
      BY <2>1, OneWaitsForNone DEF AllSettled
    <2>3. \A d \in DependsOn[s] : status[d] \in Settled
      BY <2>1, <2>2, DependsOnAssumption
    <2> QED  BY <2>2, <2>3 DEF Ready
  <1> QED  BY <1>1, StatusTyped, PTL
=============================================================================
