--------------------------- MODULE IngestionProofs ---------------------------
(***************************************************************************)
(* What holds in a run for every table of steps, every configuration and    *)
(* every interleaving.                                                      *)
(***************************************************************************)
EXTENDS Ingestion, StepSchedulerProofs

\* How the state of one step changes: it starts, or runs at once; or it settles.
Moves(s) ==
    \/ status'[s] = status[s]
    \/ CanBegin(s) /\ status'[s] # "pending"
    \/ status[s] = "running" /\ status'[s] \in Settled

\* Whatever happens, each step stays as it is, starts when it can begin, or settles.
LEMMA EveryStepMoves ==
    ASSUME StatusOK, focus \in Foci, [Next]_vars
    PROVE  /\ StatusOK'
           /\ enabled' = enabled /\ focus' = focus
           /\ \A s \in Steps : Moves(s)
  <1>1. focus \subseteq Steps
    BY FociAssumption
  <1>2. CASE UNCHANGED vars
    BY <1>2 DEF vars, StatusOK, Moves
  <1>3. CASE RunBackground
    <2>1. PICK B \in {Background} \ {{}} :
             status' = [s \in Steps |-> IF s \notin B THEN status[s]
                                        ELSE IF Throws(s) THEN "failed" ELSE "done"]
      BY <1>3 DEF RunBackground
    <2>2. StatusOK'
      BY <2>1 DEF StatusOK, Statuses, Settled
    <2>3. ASSUME NEW s \in Steps PROVE Moves(s)
      BY <2>1 DEF Moves, Background
    <2> QED  BY <1>3, <2>2, <2>3 DEF RunBackground
  <1>4. ASSUME NEW s \in focus, Begin(s)
        PROVE  /\ StatusOK' /\ enabled' = enabled /\ focus' = focus
               /\ \A x \in Steps : Moves(x)
    BY <1>1, <1>4 DEF Begin, Start, StatusOK, Statuses, Moves
  <1>5. ASSUME NEW s \in focus, NEW outcome \in Settled, Settle(s, outcome),
               UNCHANGED <<enabled, focus>>
        PROVE  /\ StatusOK' /\ enabled' = enabled /\ focus' = focus
               /\ \A x \in Steps : Moves(x)
    BY <1>1, <1>5 DEF Settle, StatusOK, Statuses, Moves
  <1>6. ASSUME NEW s \in focus, Finish(s)
        PROVE  \E outcome \in Settled : Settle(s, outcome) /\ UNCHANGED <<enabled, focus>>
    <2>1. (IF Throws(s) THEN "failed" ELSE "done") \in Settled
      BY DEF Settled
    <2> QED  BY <1>6, <2>1 DEF Finish
  <1>7. ASSUME NEW s \in focus, FailAtOnce(s) \/ FailLate(s)
        PROVE  \E outcome \in Settled : Settle(s, outcome) /\ UNCHANGED <<enabled, focus>>
    BY <1>7 DEF FailAtOnce, FailLate, MayFail, Settled
  <1> QED
    BY <1>2, <1>3, <1>4, <1>5, <1>6, <1>7 DEF Next, Progress, Failure, RunOver
-----------------------------------------------------------------------------
\* Only enabled steps start.
OnlyEnabledStart == \A s \in Steps : status[s] # "pending" => s \in enabled

\* Once a step of the last graph has started, the others have come to rest.
LastWaits == \A s \in LastGraph : status[s] # "pending" => DefaultGraphIdle

Order ==
    /\ StatusOK /\ enabled \in StartStates /\ focus \in Foci
    /\ InputsSettled /\ OnlyEnabledStart /\ LastWaits

\* A step that has begun, or can, builds on steps that have settled.
LEMMA BegunAfterAncestors ==
    ASSUME InputsSettled, NEW s \in Steps, status[s] # "pending" \/ CanBegin(s),
           NEW a \in Ancestors[s]
    PROVE  a \in Steps /\ status[a] \in Settled
  <1>1. a \in Steps
    BY AncestorsAssumption
  <1>2. CASE status[s] # "pending"
    BY <1>1, <1>2 DEF InputsSettled
  <1>3. CASE CanBegin(s)
    <2>1. PICK d \in DependsOn[s] : a = d \/ a \in Ancestors[d]
      BY AncestorsAssumption
    <2>2. d \in Steps /\ status[d] \in Settled
      BY <1>3, <2>1, DependsOnAssumption DEF CanBegin, Ready
    <2>3. status[d] # "pending"
      BY <2>2 DEF Settled
    <2> QED  BY <1>1, <2>1, <2>2, <2>3 DEF InputsSettled
  <1> QED  BY <1>2, <1>3

\* When a step of the last graph has started or starts, no step of the default
\* graph moves.
LEMMA DefaultGraphRests ==
    ASSUME Order, [Next]_vars, DefaultGraphIdle
    PROVE  DefaultGraphIdle'
  <1>0. enabled \subseteq Steps /\ enabled' = enabled
    BY EveryStepMoves, StartStatesAssumption DEF Order
  <1>1. ASSUME NEW d \in Steps \ LastGraph PROVE status'[d] = status[d]
    <2>1. Moves(d)
      BY EveryStepMoves DEF Order
    <2>2. CASE d \in enabled
      BY <2>1, <2>2, <1>1 DEF Moves, CanBegin, DefaultGraphIdle
    <2>3. CASE d \notin enabled
      BY <2>1, <2>3 DEF Moves, CanBegin, Order, OnlyEnabledStart
    <2> QED  BY <2>2, <2>3
  <1>2. SUFFICES ASSUME NEW d \in enabled \ LastGraph
                 PROVE  status'[d] # "running" /\ ~Ready(d)'
    BY <1>0 DEF DefaultGraphIdle
  <1>3. d \in Steps \ LastGraph /\ status[d] # "running" /\ ~Ready(d)
    BY <1>0 DEF DefaultGraphIdle
  <1>4. \A x \in DependsOn[d] : status'[x] = status[x]
    BY <1>1, <1>3, DependsOnAssumption, LastGraphAssumption
  <1> QED  BY <1>1, <1>3, <1>4 DEF Ready

\* What the order of the steps rests on holds throughout.
LEMMA OrderHolds == Spec => []Order
  <1>1. Init => Order
    BY StartStatesAssumption, LastGraphAssumption
    DEF Init, SchedulerInit, Order, StatusOK, Statuses, InputsSettled, OnlyEnabledStart,
        LastWaits
  <1>2. Order /\ [Next]_vars => Order'
    <2> SUFFICES ASSUME Order, [Next]_vars PROVE Order'
      OBVIOUS
    <2>1. /\ StatusOK' /\ enabled' = enabled /\ focus' = focus
          /\ \A s \in Steps : Moves(s)
      BY EveryStepMoves DEF Order
    <2>2. OnlyEnabledStart'
      BY <2>1 DEF Order, OnlyEnabledStart, Moves, CanBegin
    <2>3. InputsSettled'
      <3> SUFFICES ASSUME NEW s \in Steps, status'[s] # "pending", NEW a \in Ancestors[s]
                   PROVE  status'[a] \in Settled
        BY DEF InputsSettled
      <3>1. status[s] # "pending" \/ CanBegin(s)
        BY <2>1 DEF Moves
      <3>2. a \in Steps /\ status[a] \in Settled
        BY <3>1, BegunAfterAncestors DEF Order
      <3> QED  BY <2>1, <3>2 DEF Moves, CanBegin, Ready, Settled
    <2>4. LastWaits'
      <3> SUFFICES ASSUME NEW s \in LastGraph, status'[s] # "pending"
                   PROVE  DefaultGraphIdle'
        BY DEF LastWaits
      <3>1. s \in Steps
        BY LastGraphAssumption
      <3>2. status[s] # "pending" \/ CanBegin(s)
        BY <2>1, <3>1 DEF Moves
      <3>3. DefaultGraphIdle
        BY <3>2 DEF Order, LastWaits, CanBegin
      <3> QED  BY <3>3, DefaultGraphRests
    <2> QED  BY <2>1, <2>2, <2>3, <2>4 DEF Order
  <1> QED  BY <1>1, <1>2, PTL DEF Spec
-----------------------------------------------------------------------------
\* Who is at work in a step of the run: one of the steps in focus, or the background.
AtWork(B) ==
    \/ \E s \in focus : B = {s} /\ status[s] = "running"
    \/ B = Background /\ \A s \in B : CanBegin(s)

\* A step of the run leaves the job state as it is, or some steps are at work, which have
\* started then.
LEMMA SomeAreAtWork ==
    ASSUME Order, Next
    PROVE  \/ UNCHANGED store
           \/ \E B \in SUBSET (focus \cup Background) :
                 /\ AtWork(B) /\ Execute(B) /\ (ExecuteAll(B) \/ UNCHANGED jobData)
                 /\ \A s \in B : status'[s] # "pending"
  <1>0. focus \subseteq Steps /\ status \in [Steps -> Statuses]
    BY FociAssumption DEF Order, StatusOK
  <1>1. CASE RunBackground
    <2>1. /\ ExecuteAll(Background) /\ AtWork(Background)
          /\ status' = [s \in Steps |-> IF s \notin Background THEN status[s]
                                        ELSE IF Throws(s) THEN "failed" ELSE "done"]
      BY <1>1 DEF RunBackground, AtWork, Background
    <2>2. \A s \in Background : status'[s] # "pending"
      BY <2>1 DEF Background
    <2> QED  BY <2>1, <2>2 DEF ExecuteAll
  <1>2. ASSUME NEW s \in focus, Finish(s) \/ FailLate(s)
        PROVE  \E B \in SUBSET (focus \cup Background) :
                  /\ AtWork(B) /\ Execute(B) /\ (ExecuteAll(B) \/ UNCHANGED jobData)
                  /\ \A x \in B : status'[x] # "pending"
    <2>1. AtWork({s}) /\ status'[s] # "pending"
      BY <1>0, <1>2 DEF Finish, FailLate, MayFail, Settle, AtWork
    <2>2. Execute({s}) /\ (ExecuteAll({s}) \/ UNCHANGED jobData)
      BY <1>2 DEF Finish, FailLate, ExecuteAll
    <2> QED  BY <2>1, <2>2
  <1>3. ASSUME UNCHANGED vars \/ \E s \in focus : Begin(s) \/ FailAtOnce(s)
        PROVE  UNCHANGED store
    BY <1>3 DEF vars, store, Begin, FailAtOnce
  <1> QED
    BY <1>1, <1>2, <1>3 DEF Next, Progress, Failure, RunOver

\* What is new in the job state comes from the steps at work.
LEMMA WorkYields ==
    ASSUME NEW B, Execute(B), ExecuteAll(B) \/ UNCHANGED jobData
    PROVE  /\ jobEntities' \subseteq jobEntities \cup UNION {Added(s) \X {s} : s \in B}
           /\ jobRelationships' \subseteq
                 jobRelationships \cup UNION {{s} \X RelationshipsMade(s) : s \in B}
           /\ jobData' \subseteq jobData \cup UNION {Handler[s].sets \X {s} : s \in B}
  <1>1. jobEntities' \subseteq jobEntities \cup UNION {Added(s) \X {s} : s \in B}
    BY DEF Execute
  <1>2. jobRelationships' \subseteq
           jobRelationships \cup UNION {{s} \X RelationshipsMade(s) : s \in B}
    BY DEF Execute
  <1>3. jobData' \subseteq jobData \cup UNION {Handler[s].sets \X {s} : s \in B}
    BY DEF ExecuteAll
  <1> QED  BY <1>1, <1>2, <1>3

\* A handler adds nothing but what it may add.
LEMMA AddsOnlyWritten ==
    ASSUME NEW s \in Steps
    PROVE  Added(s) \subseteq Written[s]
  BY DEF Added, Written

\* A step makes no relationship but those its handler declares.
LEMMA MakesOnlyRelated ==
    ASSUME NEW s \in Steps
    PROVE  RelationshipsMade(s) \subseteq Handler[s].relates
  BY DEF RelationshipsMade

\* The steps at work are enabled, and either running or about to start.
LEMMA WorkersAreEnabled ==
    ASSUME Order, NEW B, AtWork(B), NEW p \in B
    PROVE  /\ p \in Steps /\ p \in enabled
           /\ status[p] = "running" \/ CanBegin(p)
  BY StartStatesAssumption, FociAssumption
  DEF Order, AtWork, OnlyEnabledStart, CanBegin, StatusOK

\* A step that the table puts before s is not at work when s has started or starts.
LEMMA PredecessorsAreDone ==
    ASSUME Order, [Next]_vars, NEW B, AtWork(B), NEW p \in B, NEW s \in Steps,
           status'[s] # "pending",
           p \in Ancestors[s] \/ (s \in LastGraph /\ p \notin LastGraph)
    PROVE  FALSE
  <1>1. /\ p \in Steps /\ p \in enabled
        /\ status[p] = "running" \/ CanBegin(p)
    BY WorkersAreEnabled
  <1>2. status[p] \notin Settled
    BY <1>1 DEF CanBegin, Ready, Settled
  <1>3. Moves(s)
    BY EveryStepMoves DEF Order
  <1>4. status[s] # "pending" \/ CanBegin(s)
    BY <1>3 DEF Moves
  <1>5. CASE p \in Ancestors[s]
    BY <1>2, <1>4, <1>5, BegunAfterAncestors DEF Order
  <1>6. CASE s \in LastGraph /\ p \notin LastGraph
    <2>1. DefaultGraphIdle
      BY <1>4, <1>6 DEF Order, LastWaits, CanBegin
    <2> QED  BY <1>1, <1>6, <2>1 DEF DefaultGraphIdle, CanBegin
  <1> QED  BY <1>5, <1>6

\* If dependsOn orders every step after those whose entities and data it looks for, nothing
\* turns up that a step which has started looks for: in no order of the steps does what a
\* handler finds depend on when it looks.
THEOREM InputsAreFinal ==
    ASSUME \A p, s \in Steps : p # s => Precedes(p, s)
    PROVE  Spec => NothingArrivesLate
  <1>1. ASSUME Order, [Next]_vars
        PROVE  /\ \A e \in jobEntities' \ jobEntities :
                     \A s \in Seekers[e[1]] : ~ArrivesLate(e[2], s)
               /\ \A d \in jobData' \ jobData :
                     \A s \in Steps : d[1] \in ReadKeys[s] => ~ArrivesLate(d[2], s)
    <2>1. CASE UNCHANGED store
      BY <2>1 DEF store
    <2>2. ASSUME NEW B, AtWork(B), Execute(B), ExecuteAll(B) \/ UNCHANGED jobData,
                 NEW e \in jobEntities' \ jobEntities, NEW s \in Seekers[e[1]]
          PROVE  ~ArrivesLate(e[2], s)
      <3>1. PICK p \in B : e \in Added(p) \X {p}
        BY <2>2, WorkYields
      <3>2. p \in Steps /\ e[2] = p /\ e[1] \in Written[p]
        BY <2>2, <3>1, <1>1, WorkersAreEnabled, AddsOnlyWritten
      <3>3. s \in Steps /\ e[1] \in LookedFor[s]
        BY <3>2 DEF Seekers, Types
      <3>4. SUFFICES ASSUME ArrivesLate(p, s) PROVE FALSE
        BY <3>2
      <3>5. p \in Ancestors[s] \/ (s \in LastGraph /\ p \notin LastGraph)
        BY <3>2, <3>3, <3>4 DEF Precedes, ArrivesLate
      <3>6. status'[s] # "pending"
        BY <3>4 DEF ArrivesLate
      <3> QED  BY <1>1, <2>2, <3>3, <3>5, <3>6, PredecessorsAreDone
    <2>3. ASSUME NEW B, AtWork(B), Execute(B), ExecuteAll(B) \/ UNCHANGED jobData,
                 NEW d \in jobData' \ jobData, NEW s \in Steps, d[1] \in ReadKeys[s]
          PROVE  ~ArrivesLate(d[2], s)
      <3>1. PICK p \in B : d \in Handler[p].sets \X {p}
        BY <2>3, WorkYields
      <3>2. p \in Steps /\ d[2] = p /\ d[1] \in Handler[p].sets
        BY <2>3, <3>1, <1>1, WorkersAreEnabled
      <3>3. SUFFICES ASSUME ArrivesLate(p, s) PROVE FALSE
        BY <3>2
      <3>4. p \in Ancestors[s] \/ (s \in LastGraph /\ p \notin LastGraph)
        BY <2>3, <3>2, <3>3 DEF Precedes, ArrivesLate
      <3>5. status'[s] # "pending"
        BY <3>3 DEF ArrivesLate
      <3> QED  BY <1>1, <2>3, <3>4, <3>5, PredecessorsAreDone
    <2> QED  BY <1>1, <2>1, <2>2, <2>3, SomeAreAtWork DEF vars, store
  <1> QED  BY <1>1, OrderHolds, PTL DEF Spec, NothingArrivesLate
-----------------------------------------------------------------------------
\* What the job state holds is what the enabled steps may put there.
StoreOK ==
    /\ jobEntities \subseteq UNION {Written[s] \X {s} : s \in enabled}
    /\ jobRelationships \subseteq UNION {{s} \X Handler[s].relates : s \in enabled}
    /\ jobData \subseteq UNION {Handler[s].sets \X {s} : s \in enabled}

\* Every action leaves the job state with what enabled steps may put there.
LEMMA StoreStaysOK ==
    ASSUME Order, StoreOK, [Next]_vars
    PROVE  StoreOK'
  <1>1. enabled' = enabled
    BY EveryStepMoves DEF Order
  <1>2. CASE UNCHANGED store
    BY <1>1, <1>2 DEF StoreOK, store
  <1>3. ASSUME NEW B, AtWork(B), Execute(B), ExecuteAll(B) \/ UNCHANGED jobData
        PROVE  StoreOK'
    <2>1. \A s \in B : s \in Steps /\ s \in enabled
      BY <1>3, WorkersAreEnabled
    <2>2. \A s \in B : /\ Added(s) \subseteq Written[s]
                       /\ RelationshipsMade(s) \subseteq Handler[s].relates
      BY <2>1, AddsOnlyWritten, MakesOnlyRelated
    <2>3. jobEntities' \subseteq UNION {Written[s] \X {s} : s \in enabled}
      <3> SUFFICES ASSUME NEW e \in jobEntities'
                   PROVE  \E s \in enabled : e \in Written[s] \X {s}
        OBVIOUS
      <3>1. CASE e \in jobEntities
        BY <3>1 DEF StoreOK
      <3>2. CASE e \notin jobEntities
        <4>1. PICK s \in B : e \in Added(s) \X {s}
          BY <1>3, <3>2, WorkYields
        <4> QED  BY <2>1, <2>2, <4>1
      <3> QED  BY <3>1, <3>2
    <2>4. jobRelationships' \subseteq UNION {{s} \X Handler[s].relates : s \in enabled}
      <3> SUFFICES ASSUME NEW e \in jobRelationships'
                   PROVE  \E s \in enabled : e \in {s} \X Handler[s].relates
        OBVIOUS
      <3>1. CASE e \in jobRelationships
        BY <3>1 DEF StoreOK
      <3>2. CASE e \notin jobRelationships
        <4>1. PICK s \in B : e \in {s} \X RelationshipsMade(s)
          BY <1>3, <3>2, WorkYields
        <4> QED  BY <2>1, <2>2, <4>1
      <3> QED  BY <3>1, <3>2
    <2>5. jobData' \subseteq UNION {Handler[s].sets \X {s} : s \in enabled}
      <3> SUFFICES ASSUME NEW d \in jobData'
                   PROVE  \E s \in enabled : d \in Handler[s].sets \X {s}
        OBVIOUS
      <3>1. CASE d \in jobData
        BY <3>1 DEF StoreOK
      <3>2. CASE d \notin jobData
        <4>1. PICK s \in B : d \in Handler[s].sets \X {s}
          BY <1>3, <3>2, WorkYields
        <4> QED  BY <2>1, <4>1
      <3> QED  BY <3>1, <3>2
    <2> QED  BY <1>1, <2>3, <2>4, <2>5 DEF StoreOK
  <1> QED  BY <1>2, <1>3, SomeAreAtWork DEF vars, store

\* A step that threw failed when it did, and stays so.
LEMMA ThrownStayFailed ==
    ASSUME Order, threw \subseteq Failed, [Next]_vars
    PROVE  (threw \subseteq Failed)'
  <1>1. /\ focus \subseteq Steps
        /\ \A s \in Steps : Moves(s)
    BY EveryStepMoves, FociAssumption DEF Order
  <1>2. Failed \subseteq Failed'
    BY <1>1 DEF Failed, Moves, CanBegin, Ready, Settled
  <1>3. CASE threw' = threw
    BY <1>2, <1>3
  <1>4. CASE RunBackground
    <2>1. PICK B \in {Background} \ {{}} :
             /\ ExecuteAll(B)
             /\ status' = [s \in Steps |-> IF s \notin B THEN status[s]
                                           ELSE IF Throws(s) THEN "failed" ELSE "done"]
      BY <1>4 DEF RunBackground
    <2>2. \A s \in threw' : s \in threw \/ (s \in B /\ Throws(s))
      BY <2>1 DEF ExecuteAll, Execute
    <2>3. \A s \in B : s \in Steps /\ (Throws(s) => status'[s] = "failed")
      BY <2>1 DEF Background
    <2> QED  BY <1>2, <2>2, <2>3 DEF Failed
  <1>5. ASSUME NEW s \in focus, Finish(s)
        PROVE  threw' \subseteq Failed'
    <2>1. threw' \subseteq threw \cup {s} /\ (s \in threw' => s \in threw \/ Throws(s))
      BY <1>5 DEF Finish, ExecuteAll, Execute
    <2>2. Throws(s) => status'[s] = "failed"
      BY <1>1, <1>5 DEF Finish, Settle, Order, StatusOK
    <2> QED  BY <1>1, <1>2, <2>1, <2>2 DEF Failed
  <1>6. ASSUME NEW s \in focus, FailLate(s)
        PROVE  threw' = threw
    BY <1>6 DEF FailLate, Execute
  <1> QED
    BY <1>3, <1>4, <1>5, <1>6
    DEF Next, Progress, Failure, RunOver, Begin, FailAtOnce, vars

\* The job state holds what the enabled steps may put there, each under the name of the
\* step that did, and only failed steps have thrown.
THEOREM IngestionTyped == Spec => []TypeOK
  <1>1. Init => StoreOK /\ threw \subseteq Failed
    BY DEF Init, StoreOK
  <1>2. Order /\ StoreOK /\ threw \subseteq Failed /\ [Next]_vars
           => StoreOK' /\ (threw \subseteq Failed)'
    BY StoreStaysOK, ThrownStayFailed
  <1>3. Order /\ StoreOK /\ threw \subseteq Failed => TypeOK
    BY DEF Order, StoreOK, TypeOK
  <1> QED  BY <1>1, <1>2, <1>3, OrderHolds, PTL DEF Spec
-----------------------------------------------------------------------------
\* Every relationship has its ends, and data stands for entities that are there.
Anchored ==
    /\ \A e \in jobRelationships : \A type \in {e[2][1], e[2][3]} :
          Found(type) \/ <<e[1], type>> \in Unchecked
    /\ \A d \in jobData : \A type \in Handler[d[2]].adds : <<type, d[2]>> \in jobEntities

\* What is found stays, as nothing leaves the job state.
LEMMA FoundStays ==
    ASSUME jobEntities \subseteq jobEntities', NEW type, Found(type)
    PROVE  Found(type)'
  BY DEF Found

\* An entity in the job state is found by its type.
LEMMA AddedIsFound ==
    ASSUME NEW s \in Steps, NEW type \in Written[s], <<type, s>> \in jobEntities'
    PROVE  Found(type)'
  <1>1. type \in Types /\ s \in Writers[type]
    BY DEF Types, Writers
  <1>2. type \in Means(type)
    BY <1>1, WildcardsAssumption DEF Means
  <1> QED  BY <1>1, <1>2 DEF Found

\* The ends of a relationship that is made are there afterwards.
LEMMA MadeIsAnchored ==
    ASSUME EndsAreKnown, StoreOK, enabled \subseteq Steps, Anchored,
           jobEntities \subseteq jobEntities',
           NEW s \in Steps, Added(s) \X {s} \subseteq jobEntities',
           NEW r \in RelationshipsMade(s), NEW type \in {r[1], r[3]}
    PROVE  Found(type)' \/ <<s, type>> \in Unchecked
  <1>1. r \in Handler[s].relates /\ EndAtHand(s, type)
    BY DEF RelationshipsMade
  <1>2. CASE type \in Handler[s].iterates \cup Handler[s].finds \cup Written[s]
    <2>1. Found(type) \/ type \in Added(s)
      BY <1>1, <1>2 DEF EndAtHand
    <2>2. CASE Found(type)
      BY <2>2, FoundStays
    <2>3. CASE type \in Added(s)
      BY <2>3, AddsOnlyWritten, AddedIsFound
    <2> QED  BY <2>1, <2>2, <2>3
  <1>3. CASE /\ type \notin Handler[s].iterates \cup Handler[s].finds \cup Written[s]
             /\ <<s, type>> \notin Unchecked
    <2>1. PICK k \in Handler[s].knows :
             /\ k[1] = type
             /\ \A p \in Steps : k[2] \in Handler[p].sets => type \in Handler[p].adds
      BY <1>1, <1>3 DEF EndsAreKnown
    <2>2. HasData(k[2])
      BY <1>1, <1>3, <2>1 DEF EndAtHand
    <2>3. PICK d \in jobData : d[1] = k[2]
      BY <2>2 DEF HasData
    <2>4. d[2] \in Steps /\ d[1] \in Handler[d[2]].sets
      BY DEF StoreOK
    <2>5. type \in Handler[d[2]].adds
      BY <2>1, <2>3, <2>4
    <2>6. <<type, d[2]>> \in jobEntities'
      BY <2>5 DEF Anchored
    <2> QED  BY <2>4, <2>5, <2>6, AddedIsFound DEF Written
  <1> QED  BY <1>2, <1>3

\* Every action leaves each relationship anchored at both ends.
LEMMA StaysAnchored ==
    ASSUME EndsAreKnown, Order, StoreOK, Anchored, [Next]_vars
    PROVE  Anchored'
  <1>1. CASE UNCHANGED store
    BY <1>1 DEF Anchored, store, Found
  <1>2. ASSUME NEW B, AtWork(B), Execute(B), ExecuteAll(B) \/ UNCHANGED jobData
        PROVE  Anchored'
    <2> DEFINE able == {s \in B : ~Throws(s)}
    <2>1. /\ enabled \subseteq Steps
          /\ \A s \in B : s \in Steps
      BY <1>2, WorkersAreEnabled, StartStatesAssumption DEF Order
    <2>2. /\ jobEntities \subseteq jobEntities'
          /\ \A s \in able : Added(s) \X {s} \subseteq jobEntities'
      BY <1>2 DEF Execute
    <2>3. ASSUME NEW e \in jobRelationships', NEW type \in {e[2][1], e[2][3]}
          PROVE  Found(type)' \/ <<e[1], type>> \in Unchecked
      <3>1. CASE e \in jobRelationships
        BY <2>2, <3>1, FoundStays DEF Anchored
      <3>2. CASE e \notin jobRelationships
        <4>1. PICK s \in able : e \in {s} \X RelationshipsMade(s)
          BY <1>2, <3>2 DEF Execute
        <4>2. s \in Steps /\ e[1] = s /\ e[2] \in RelationshipsMade(s)
          BY <2>1, <4>1
        <4> QED  BY <2>1, <2>2, <2>3, <4>1, <4>2, MadeIsAnchored
      <3> QED  BY <3>1, <3>2
    <2>4. ASSUME NEW d \in jobData', NEW type \in Handler[d[2]].adds
          PROVE  <<type, d[2]>> \in jobEntities'
      <3>1. CASE d \in jobData
        BY <2>2, <2>4, <3>1 DEF Anchored
      <3>2. CASE d \notin jobData
        <4>1. PICK s \in able : d \in Handler[s].sets \X {s}
          BY <1>2, <3>2 DEF ExecuteAll
        <4>2. d[2] = s
          BY <4>1
        <4>3. type \in Added(s)
          BY <2>4, <4>2 DEF Added
        <4> QED  BY <2>2, <4>1, <4>2, <4>3
      <3> QED  BY <3>1, <3>2
    <2> QED  BY <2>3, <2>4 DEF Anchored
  <1> QED  BY <1>1, <1>2, SomeAreAtWork DEF vars, store

\* Where every handler looks for the ends of the relationships that it makes, or has them
\* from data whose writer added them, no relationship is left without its ends, whatever
\* fails.
THEOREM EdgesHaveTheirEnds ==
    ASSUME EndsAreKnown
    PROVE  Spec => []NoDanglingEdge
  <1>1. Init => StoreOK /\ Anchored
    BY DEF Init, StoreOK, Anchored
  <1>2. Order /\ StoreOK /\ Anchored /\ [Next]_vars => StoreOK' /\ Anchored'
    BY StoreStaysOK, StaysAnchored
  <1>3. Anchored => NoDanglingEdge
    BY DEF Anchored, NoDanglingEdge
  <1> QED  BY <1>1, <1>2, <1>3, OrderHolds, PTL DEF Spec
-----------------------------------------------------------------------------
\* The steps that succeed or throw in a step of the run were at work in it.
LEMMA WorkEnds ==
    ASSUME Order, [Next]_vars
    PROVE  /\ UNCHANGED threw \/ \E B : AtWork(B) /\ threw' = threw \cup {s \in B : Throws(s)}
           /\ \A p \in Steps :
                 status[p] # "done" /\ status'[p] = "done" =>
                     \E B : AtWork(B) /\ ExecuteAll(B) /\ p \in B /\ ~Throws(p)
  <1>1. focus \subseteq Steps
    BY FociAssumption DEF Order
  <1>2. ASSUME NEW B, Execute(B)
        PROVE  threw' = threw \cup {s \in B : Throws(s)}
    BY <1>2 DEF Execute
  <1>3. CASE RunBackground
    <2>1. /\ ExecuteAll(Background) /\ AtWork(Background)
          /\ status' = [s \in Steps |-> IF s \notin Background THEN status[s]
                                        ELSE IF Throws(s) THEN "failed" ELSE "done"]
      BY <1>3 DEF RunBackground, AtWork, Background
    <2> QED  BY <1>2, <2>1 DEF ExecuteAll
  <1>4. ASSUME NEW s \in focus, Finish(s)
        PROVE  /\ AtWork({s}) /\ ExecuteAll({s})
               /\ \A p \in Steps : status[p] # "done" /\ status'[p] = "done"
                                      => p = s /\ ~Throws(s)
    BY <1>1, <1>4 DEF Finish, Settle, AtWork, Order, StatusOK
  <1>5. ASSUME NEW s \in focus, FailAtOnce(s) \/ FailLate(s)
        PROVE  /\ threw' = threw
               /\ \A p \in Steps : status[p] # "done" => status'[p] # "done"
    <2>1. threw' = threw
      BY <1>5 DEF FailAtOnce, FailLate, Execute
    <2>2. Settle(s, "failed")
      BY <1>5 DEF FailAtOnce, FailLate, MayFail
    <2> QED  BY <1>1, <2>1, <2>2 DEF Settle, Order, StatusOK
  <1>6. ASSUME UNCHANGED vars \/ \E s \in focus : Begin(s)
        PROVE  /\ threw' = threw
               /\ \A p \in Steps : status[p] # "done" => status'[p] # "done"
    BY <1>1, <1>6 DEF vars, Begin, Start, Order, StatusOK
  <1>7. ASSUME NEW s \in focus, Finish(s)
        PROVE  /\ \E B : AtWork(B) /\ threw' = threw \cup {x \in B : Throws(x)}
               /\ \A p \in Steps : status[p] # "done" /\ status'[p] = "done" =>
                     \E B : AtWork(B) /\ ExecuteAll(B) /\ p \in B /\ ~Throws(p)
    BY <1>2, <1>4, <1>7 DEF ExecuteAll
  <1> QED
    BY <1>3, <1>5, <1>6, <1>7 DEF Next, Progress, Failure, RunOver

\* What a step that succeeds leaves behind: its data and, if no step it builds on has failed,
\* of the types that it is sure to add some entity.
Leaves(sure) ==
    /\ \A p \in Steps : status[p] = "done" => Handler[p].sets \X {p} \subseteq jobData
    /\ \A x \in sure : status[x[1]] = "done" /\ Ancestors[x[1]] \cap Failed = {}
                          => <<x[2], x[1]>> \in jobEntities

\* A step at work that builds on no failed step builds on steps that succeeded.
LEMMA AncestorsSucceeded ==
    ASSUME Order, NEW B, AtWork(B), NEW s \in B, Ancestors[s] \cap Failed = {},
           NEW p \in Ancestors[s]
    PROVE  p \in Steps /\ status[p] = "done"
  <1>1. /\ s \in Steps
        /\ status[s] # "pending" \/ CanBegin(s)
    BY WorkersAreEnabled
  <1>2. p \in Steps /\ status[p] \in Settled
    BY <1>1, BegunAfterAncestors DEF Order
  <1> QED  BY <1>2 DEF Failed, Settled

\* What a step is sure to add is among what it may add.
LEMMA SureIsWritten ==
    ASSUME NEW sure, NEW s \in Steps
    PROVE  SureToAdd(sure, s) \subseteq Written[s]
  BY DEF SureToAdd, Written

\* The more is sure upstream, the more a step is sure to add.
LEMMA MoreIsSure ==
    ASSUME NEW sure, NEW more, sure \subseteq more, NEW s
    PROVE  SureToAdd(sure, s) \subseteq SureToAdd(more, s)
  <1>1. \A type : SureToFind(sure, s, type) => SureToFind(more, s, type)
    BY DEF SureToFind
  <1> QED  BY <1>1 DEF SureToAdd

\* A round that takes nothing back leads to another one,
LEMMA RoundsGoOn ==
    ASSUME NEW sure, sure \subseteq Deeper(sure)
    PROVE  AreSure(sure) /\ Deeper(sure) \subseteq Deeper(Deeper(sure))
  <1>1. \A x \in sure : \E s \in Steps : x \in {s} \X SureToAdd(sure, s)
    BY DEF Deeper
  <1>2. ASSUME NEW x \in Deeper(sure)
        PROVE  x \in Deeper(Deeper(sure))
    <2>1. PICK s \in Steps : x \in {s} \X SureToAdd(sure, s)
      BY DEF Deeper
    <2>2. x \in {s} \X SureToAdd(Deeper(sure), s)
      BY <2>1, MoreIsSure
    <2> QED  BY <2>2 DEF Deeper
  <1> QED  BY <1>1, <1>2 DEF AreSure

\* so that what the handlers are sure to add, four levels down, is sure for every table:
\* AreSure of it, from which the theorems below start, need not be checked.
THEOREM TableSureIsSure == AreSure(TableSure)
  <1>1. {} \subseteq Deeper({})
    OBVIOUS
  <1>2. Deeper({}) \subseteq Deeper(Deeper({}))
    BY <1>1, RoundsGoOn
  <1>3. Deeper(Deeper({})) \subseteq Deeper(Deeper(Deeper({})))
    BY <1>2, RoundsGoOn
  <1>4. Deeper(Deeper(Deeper({}))) \subseteq TableSure
    BY <1>3, RoundsGoOn DEF TableSure
  <1>5. TableSure \subseteq Deeper(TableSure)
    BY <1>4, RoundsGoOn DEF TableSure
  <1> QED  BY <1>5, RoundsGoOn

\* A step at work that builds on no failed step finds what it is sure to find,
LEMMA UpstreamLeft ==
    ASSUME NEW sure, AreSure(sure), Order, Leaves(sure),
           NEW B, AtWork(B), NEW s \in B, Ancestors[s] \cap Failed = {},
           NEW type, SureToFind(sure, s, type)
    PROVE  Found(type)
  <1>1. PICK p \in Ancestors[s], t \in Means(type) : <<p, t>> \in sure
    BY DEF SureToFind
  <1>2. Ancestors[p] \cap Failed = {}
    BY WorkersAreEnabled, AncestorsAreTransitive, StepsAssumption
  <1>3. p \in Steps /\ status[p] = "done"
    BY AncestorsSucceeded
  <1>4. <<t, p>> \in jobEntities
    BY <1>1, <1>2, <1>3 DEF Leaves
  <1>5. t \in Written[p]
    BY <1>1, <1>3, SureIsWritten DEF AreSure
  <1> QED  BY <1>1, <1>3, <1>4, <1>5 DEF Found, Types, Writers

\* and adds what it is sure to add.
LEMMA SureIsAdded ==
    ASSUME NEW sure, AreSure(sure), Order, Leaves(sure),
           NEW B, AtWork(B), NEW s \in B, Ancestors[s] \cap Failed = {}
    PROVE  SureToAdd(sure, s) \subseteq Added(s)
  <1>1. \A c \in Handler[s].each : SureToFind(sure, s, c[1]) => Found(c[1])
    BY UpstreamLeft
  <1> QED  BY <1>1 DEF SureToAdd, Added

\* A step that has failed stays failed.
LEMMA FailedStay ==
    ASSUME Order, [Next]_vars
    PROVE  Failed \subseteq Failed'
  BY EveryStepMoves DEF Order, Failed, Moves, CanBegin, Ready, Settled

\* Nothing leaves the job state.
LEMMA JobStateStays ==
    ASSUME Order, [Next]_vars
    PROVE  /\ jobEntities \subseteq jobEntities' /\ jobData \subseteq jobData'
           /\ jobRelationships \subseteq jobRelationships'
  <1>1. ASSUME NEW B, Execute(B), ExecuteAll(B) \/ UNCHANGED jobData
        PROVE  /\ jobEntities \subseteq jobEntities' /\ jobData \subseteq jobData'
               /\ jobRelationships \subseteq jobRelationships'
    BY <1>1 DEF Execute, ExecuteAll
  <1> QED  BY <1>1, SomeAreAtWork DEF vars, store

\* A step that succeeds in this step of the run leaves what it is sure to.
LEMMA StillLeaves ==
    ASSUME NEW sure, AreSure(sure), Order, Leaves(sure), [Next]_vars
    PROVE  Leaves(sure)'
  <1>1. jobEntities \subseteq jobEntities' /\ jobData \subseteq jobData'
    BY JobStateStays
  <1>2. ASSUME NEW p \in Steps, status'[p] = "done"
        PROVE  Handler[p].sets \X {p} \subseteq jobData'
    <2>1. CASE status[p] = "done"
      BY <1>1, <2>1 DEF Leaves
    <2>2. CASE status[p] # "done"
      <3>1. PICK B : ExecuteAll(B) /\ p \in B /\ ~Throws(p)
        BY <1>2, <2>2, WorkEnds
      <3> QED  BY <3>1 DEF ExecuteAll
    <2> QED  BY <2>1, <2>2
  <1>3. ASSUME NEW x \in sure, status'[x[1]] = "done", Ancestors[x[1]] \cap Failed' = {}
        PROVE  <<x[2], x[1]>> \in jobEntities'
    <2> DEFINE p == x[1]
    <2>1. p \in Steps /\ Ancestors[p] \cap Failed = {}
      BY <1>3, FailedStay DEF AreSure
    <2>2. CASE status[p] = "done"
      BY <1>1, <2>1, <2>2 DEF Leaves
    <2>3. CASE status[p] # "done"
      <3>1. PICK B : AtWork(B) /\ ExecuteAll(B) /\ p \in B /\ ~Throws(p)
        BY <1>3, <2>1, <2>3, WorkEnds
      <3>2. x[2] \in Added(p)
        BY <2>1, <3>1, SureIsAdded DEF AreSure
      <3> QED  BY <3>1, <3>2 DEF ExecuteAll, Execute
    <2> QED  BY <2>2, <2>3
  <1> QED  BY <1>2, <1>3 DEF Leaves

\* A handler at work that throws builds on a step that failed.
LEMMA ThrowsForAReason ==
    ASSUME NEW sure, AreSure(sure), DemandsAreMet(sure), Order, Leaves(sure),
           NEW B, AtWork(B), NEW s \in B, Throws(s)
    PROVE  s \in Steps /\ Ancestors[s] \cap Failed # {}
  <1>1. s \in Steps
    BY WorkersAreEnabled
  <1>2. SUFFICES ASSUME Ancestors[s] \cap Failed = {} PROVE FALSE
    BY <1>1
  <1>3. CASE \E key \in Handler[s].gets : ~HasData(key)
    <2>1. PICK key \in Handler[s].gets : ~HasData(key)
      BY <1>3
    <2>2. PICK p \in Ancestors[s] : key \in Handler[p].sets
      BY <1>1 DEF DemandsAreMet
    <2>3. p \in Steps /\ status[p] = "done"
      BY <1>2, AncestorsSucceeded
    <2>4. <<key, p>> \in jobData
      BY <2>2, <2>3 DEF Leaves
    <2> QED  BY <2>1, <2>4 DEF HasData
  <1>4. CASE \E d \in Handler[s].demands : ~Found(d[2])
    <2>1. PICK d \in Handler[s].demands : ~Found(d[2])
      BY <1>4
    <2>2. SureToFind(sure, s, d[2])
      BY <1>1 DEF DemandsAreMet
    <2> QED  BY <1>2, <2>1, <2>2, UpstreamLeft
  <1> QED  BY <1>3, <1>4 DEF Throws

\* Where every handler has what it cannot do without from the steps it depends on, none
\* throws unless one of these has failed: whatever is enabled, and in every order.
THEOREM ThrowsHaveACause ==
    ASSUME NEW sure, AreSure(sure), DemandsAreMet(sure)
    PROVE  Spec => []ThrowsOnlyAfterFailure
  <1> DEFINE Cause == threw \subseteq Steps /\ ThrowsOnlyAfterFailure
  <1>1. Init => Leaves(sure) /\ Cause
    BY DEF Init, SchedulerInit, Leaves, AreSure, ThrowsOnlyAfterFailure
  <1>2. Order /\ Leaves(sure) /\ Cause /\ [Next]_vars => Leaves(sure)' /\ Cause'
    <2> SUFFICES ASSUME Order, Leaves(sure), Cause, [Next]_vars
                 PROVE  Leaves(sure)' /\ Cause'
      OBVIOUS
    <2>1. Leaves(sure)'
      BY StillLeaves
    <2>2. Failed \subseteq Failed'
      BY FailedStay
    <2>3. ASSUME NEW s \in threw' PROVE s \in Steps /\ Ancestors[s] \cap Failed # {}
      <3>1. CASE s \in threw
        BY <3>1 DEF ThrowsOnlyAfterFailure
      <3>2. CASE s \notin threw
        <4>1. PICK B : AtWork(B) /\ s \in B /\ Throws(s)
          BY <2>3, <3>2, WorkEnds
        <4> QED  BY <4>1, ThrowsForAReason
      <3> QED  BY <3>1, <3>2
    <2> QED  BY <2>1, <2>2, <2>3 DEF ThrowsOnlyAfterFailure
  <1>3. Cause => ThrowsOnlyAfterFailure
    OBVIOUS
  <1> QED  BY <1>1, <1>2, <1>3, OrderHolds, PTL DEF Spec
-----------------------------------------------------------------------------
\* When the run is over, every step whose dependencies are enabled has ended: of those that
\* have not, one with the fewest ancestors could begin.
LEMMA RunnableHaveEnded ==
    ASSUME Order, Idle, NEW s \in Runnable
    PROVE  s \in Steps /\ status[s] \in Settled
  <1>1. enabled \subseteq Steps
    BY StartStatesAssumption DEF Order
  <1> DEFINE Waiting == {x \in Runnable : status[x] = "pending"}
  <1>2. ASSUME NEW x \in Runnable
        PROVE  x \in Steps /\ status[x] \in {"pending"} \cup Settled
    BY <1>1, <1>2 DEF Order, StatusOK, Statuses, Idle, Runnable
  <1>3. ASSUME NEW x \in Waiting
        PROVE  \E d \in DependsOn[x] : d \in Waiting
    <2>1. x \in Steps /\ x \in enabled /\ Ancestors[x] \subseteq enabled
      BY <1>2 DEF Runnable
    <2>2. DefaultGraphIdle
      BY <1>1 DEF Idle, CanBegin, DefaultGraphIdle
    <2>3. PICK d \in DependsOn[x] : status[d] \notin Settled
      BY <2>1, <2>2 DEF Idle, CanBegin, Ready
    <2>4. d \in Steps /\ d \in Ancestors[x] /\ Ancestors[d] \subseteq Ancestors[x]
      BY <2>1, DependsOnAssumption, AncestorsAssumption
    <2>5. d \in Runnable
      BY <2>1, <2>4 DEF Runnable
    <2> QED  BY <1>2, <2>3, <2>5
  <1>4. Waiting = {}
    BY <1>2, <1>3, StepsAssumption, OneWaitsForNone
  <1> QED  BY <1>2, <1>4

\* What a step that succeeds relates, if no step it builds on has failed.
Related ==
    \A s \in Steps : status[s] = "done" /\ Ancestors[s] \cap Failed = {} =>
        \A r \in Handler[s].relates : <<s, r>> \in jobRelationships \/ MayMiss(s, r)

\* A handler at work that builds on no failed step has at hand what the table says it has.
LEMMA SureIsAtHand ==
    ASSUME NEW sure, AreSure(sure), Order, Leaves(sure),
           NEW B, AtWork(B), NEW s \in B, Ancestors[s] \cap Failed = {},
           NEW type, EndIsSure(sure, s, type)
    PROVE  EndAtHand(s, type)
  <1> DEFINE looked == Handler[s].iterates \cup Handler[s].finds \cup Written[s]
  <1>1. CASE type \in looked
    <2>1. SureToFind(sure, s, type) \/ <<s, type>> \in sure
      BY <1>1 DEF EndIsSure
    <2>2. SureToFind(sure, s, type) => Found(type)
      BY UpstreamLeft
    <2>3. <<s, type>> \in sure => type \in Added(s)
      BY SureIsAdded DEF AreSure
    <2> QED  BY <1>1, <2>1, <2>2, <2>3 DEF EndAtHand
  <1>2. CASE type \notin looked
    <2>1. ASSUME NEW k \in Handler[s].knows, k[1] = type
          PROVE  HasData(k[2])
      <3>1. PICK p \in Ancestors[s] : k[2] \in Handler[p].sets
        BY <1>2, <2>1 DEF EndIsSure
      <3>2. p \in Steps /\ status[p] = "done"
        BY AncestorsSucceeded
      <3>3. <<k[2], p>> \in jobData
        BY <3>1, <3>2 DEF Leaves
      <3> QED  BY <3>3 DEF HasData
    <2> QED  BY <1>2, <2>1 DEF EndAtHand
  <1> QED  BY <1>1, <1>2

\* A step that succeeds relates all that, and what is related stays so.
LEMMA StillRelated ==
    ASSUME NEW sure, AreSure(sure), AllIsSure(sure), Order, Leaves(sure), Related, [Next]_vars
    PROVE  Related'
  <1> SUFFICES ASSUME NEW s \in Steps, status'[s] = "done", Ancestors[s] \cap Failed' = {},
                      NEW r \in Handler[s].relates, ~MayMiss(s, r)
               PROVE  <<s, r>> \in jobRelationships'
    BY DEF Related, MayMiss
  <1>1. Ancestors[s] \cap Failed = {}
    BY FailedStay
  <1>2. CASE status[s] = "done"
    BY <1>1, <1>2, JobStateStays DEF Related
  <1>3. CASE status[s] # "done"
    <2>1. PICK B : AtWork(B) /\ ExecuteAll(B) /\ s \in B /\ ~Throws(s)
      BY <1>3, WorkEnds
    <2> DEFINE needed == {n[2] : n \in {m \in Handler[s].needs : m[1] = r}}
    <2>2. /\ EndIsSure(sure, s, r[1]) /\ EndIsSure(sure, s, r[3])
          /\ needed # {} => \E type \in needed : SureToFind(sure, s, type)
      BY DEF AllIsSure
    <2>3. EndAtHand(s, r[1]) /\ EndAtHand(s, r[3])
      BY <1>1, <2>1, <2>2, SureIsAtHand
    <2>4. needed # {} => \E type \in needed : Found(type)
      BY <1>1, <2>1, <2>2, UpstreamLeft
    <2>5. r \in RelationshipsMade(s)
      BY <2>3, <2>4 DEF RelationshipsMade
    <2> QED  BY <2>1, <2>5 DEF ExecuteAll, Execute
  <1> QED  BY <1>2, <1>3

\* Where every step declares what it may make, and makes all of it when the steps it builds
\* on succeed, a run ends with nothing lost but what the runtime keeps from the last run:
\* for every choice of enabled steps, every order and any number of failures.
THEOREM LossesAreDeclared ==
    ASSUME NEW sure, AreSure(sure), AllIsSure(sure), AllIsDeclared
    PROVE  Spec => []NothingLostSilently
  <1>1. Init => Leaves(sure) /\ Related
    BY DEF Init, SchedulerInit, Leaves, AreSure, Related
  <1>2. Order /\ Leaves(sure) /\ Related /\ [Next]_vars => Leaves(sure)' /\ Related'
    BY StillLeaves, StillRelated
  <1>3. ASSUME Order, Leaves(sure), Related, Idle, NEW s \in Runnable
        PROVE  /\ \A type \in Written[s] :
                     \/ <<type, s>> \in jobEntities
                     \/ KeptFromLastRun(s) /\ type \in Declared[s].entities
               /\ \A r \in Handler[s].relates :
                     \/ <<s, r>> \in jobRelationships
                     \/ KeptFromLastRun(s) /\ Declares(s, r)
                     \/ ~KeptFromLastRun(s) /\ MayMiss(s, r)
    <2>1. s \in Steps /\ status[s] \in Settled
      BY <1>3, RunnableHaveEnded
    <2>2. CASE KeptFromLastRun(s)
      BY <2>1, <2>2 DEF AllIsDeclared
    <2>3. CASE ~KeptFromLastRun(s)
      <3>1. status[s] = "done" /\ Ancestors[s] \cap Failed = {}
        BY <2>1, <2>3 DEF KeptFromLastRun, Failed, Settled
      <3>2. \A type \in Written[s] : <<s, type>> \in sure
        BY <2>1 DEF AllIsSure
      <3>3. \A type \in Written[s] : <<type, s>> \in jobEntities
        BY <1>3, <3>1, <3>2 DEF Leaves
      <3> QED  BY <1>3, <2>1, <2>3, <3>1, <3>3 DEF Related
    <2> QED  BY <2>2, <2>3
  <1>4. Order /\ Leaves(sure) /\ Related => NothingLostSilently
    BY <1>3 DEF NothingLostSilently
  <1> QED  BY <1>1, <1>2, <1>4, OrderHolds, PTL DEF Spec

\* When nothing is at work and nothing can begin, every step whose dependencies are enabled
\* has settled: neither a disabled step nor the order of the two graphs leaves one behind.
THEOREM NoneIsLeftBehind == Spec => [](Idle => \A s \in Runnable : status[s] \in Settled)
  <1>1. Order => (Idle => \A s \in Runnable : status[s] \in Settled)
    BY RunnableHaveEnded
  <1> QED  BY <1>1, OrderHolds, PTL

-----------------------------------------------------------------------------
(* What a run leaves in which no listing fails.                             *)

\* What is in the job state is there because a step has started.
HasOrigin ==
    /\ \A e \in jobEntities : status[e[2]] # "pending"
    /\ \A e \in jobRelationships : status[e[1]] # "pending"
    /\ \A d \in jobData : status[d[2]] # "pending"

\* Only the steps at work add to the job state, and these have started.
LEMMA StillHasOrigin ==
    ASSUME Order, StoreOK, HasOrigin, [Next]_vars
    PROVE  HasOrigin'
  <1>1. \A s \in Steps : status[s] # "pending" => status'[s] # "pending"
    BY EveryStepMoves DEF Order, Moves, Settled
  <1>2. enabled \subseteq Steps
    BY StartStatesAssumption DEF Order
  <1>3. /\ \A e \in jobEntities : status'[e[2]] # "pending"
        /\ \A e \in jobRelationships : status'[e[1]] # "pending"
        /\ \A d \in jobData : status'[d[2]] # "pending"
    BY <1>1, <1>2 DEF StoreOK, HasOrigin
  <1>4. CASE UNCHANGED store
    BY <1>3, <1>4 DEF store, HasOrigin
  <1>5. ASSUME NEW B, Execute(B), ExecuteAll(B) \/ UNCHANGED jobData,
               \A s \in B : status'[s] # "pending"
        PROVE  HasOrigin'
    <2>1. \A e \in jobEntities' : e \in jobEntities \/ \E s \in B : e \in Added(s) \X {s}
      BY <1>5, WorkYields
    <2>2. \A e \in jobRelationships' :
             e \in jobRelationships \/ \E s \in B : e \in {s} \X RelationshipsMade(s)
      BY <1>5, WorkYields
    <2>3. \A d \in jobData' : d \in jobData \/ \E s \in B : d \in Handler[s].sets \X {s}
      BY <1>5, WorkYields
    <2> QED  BY <1>3, <1>5, <2>1, <2>2, <2>3 DEF HasOrigin
  <1> QED  BY <1>4, <1>5, SomeAreAtWork DEF vars, store

\* A step that has started is one whose dependencies are all enabled.
LEMMA StartedIsRunnable ==
    ASSUME Order, NEW s \in enabled, status[s] # "pending"
    PROVE  s \in Runnable
  <1>1. s \in Steps
    BY StartStatesAssumption DEF Order
  <1>2. \A a \in Ancestors[s] : a \in Steps /\ status[a] \in Settled
    BY <1>1, BegunAfterAncestors DEF Order
  <1> QED  BY <1>2 DEF Runnable, Order, OnlyEnabledStart, Settled

\* The job state has nothing that is not of a runnable step.
LEMMA NothingElseIsThere ==
    ASSUME Order, StoreOK, HasOrigin
    PROVE  /\ jobEntities \subseteq FullEntities /\ jobData \subseteq FullData
           /\ jobRelationships \subseteq FullRelationships
  <1>1. ASSUME NEW e \in jobEntities PROVE e \in FullEntities
    <2>1. PICK s \in enabled : e \in Written[s] \X {s}
      BY DEF StoreOK
    <2>2. status[s] # "pending"
      BY <2>1 DEF HasOrigin
    <2> QED  BY <2>1, <2>2, StartedIsRunnable DEF FullEntities
  <1>2. ASSUME NEW d \in jobData PROVE d \in FullData
    <2>1. PICK s \in enabled : d \in Handler[s].sets \X {s}
      BY DEF StoreOK
    <2>2. status[s] # "pending"
      BY <2>1 DEF HasOrigin
    <2> QED  BY <2>1, <2>2, StartedIsRunnable DEF FullData
  <1>3. ASSUME NEW e \in jobRelationships PROVE e \in FullRelationships
    <2>1. PICK s \in enabled : e \in {s} \X Handler[s].relates
      BY DEF StoreOK
    <2>2. status[s] # "pending"
      BY <2>1 DEF HasOrigin
    <2> QED  BY <2>1, <2>2, StartedIsRunnable DEF FullRelationships
  <1> QED  BY <1>1, <1>2, <1>3

\* If no step fails for a reason of its own, none fails: of those that have, the first had
\* no cause.
LEMMA NoneHasFailed ==
    ASSUME ThrowsOnlyAfterFailure, Failed \subseteq threw
    PROVE  Failed = {}
  <1>1. Failed \subseteq Steps /\ \A s \in Failed : Ancestors[s] \cap Failed # {}
    BY DEF Failed, ThrowsOnlyAfterFailure
  <1> QED  BY <1>1, StepsAssumption, OneBuildsOnNone

\* At the end of a run without a failure the job state has all of the runnable steps.
LEMMA AllIsThere ==
    ASSUME NEW sure, AllIsSure(sure), Order, Leaves(sure), Related, Idle, Failed = {}
    PROVE  /\ FullEntities \subseteq jobEntities /\ FullData \subseteq jobData
           /\ \A e \in FullRelationships \ jobRelationships : MayMiss(e[1], e[2])
  <1>1. ASSUME NEW s \in Runnable
        PROVE  s \in Steps /\ status[s] = "done" /\ Ancestors[s] \cap Failed = {}
    BY <1>1, RunnableHaveEnded DEF Failed, Settled
  <1>2. ASSUME NEW s \in Runnable, NEW type \in Written[s]
        PROVE  <<type, s>> \in jobEntities
    <2>1. <<s, type>> \in sure
      BY <1>1, <1>2 DEF AllIsSure
    <2> QED  BY <1>1, <2>1 DEF Leaves
  <1>3. FullEntities \subseteq jobEntities
    <2> SUFFICES ASSUME NEW s \in Runnable PROVE Written[s] \X {s} \subseteq jobEntities
      BY DEF FullEntities
    <2> QED  BY <1>2
  <1>4. FullData \subseteq jobData
    BY <1>1 DEF FullData, Leaves
  <1>5. ASSUME NEW e \in FullRelationships \ jobRelationships
        PROVE  MayMiss(e[1], e[2])
    <2>1. PICK s \in Runnable : e \in {s} \X Handler[s].relates
      BY <1>5 DEF FullRelationships
    <2>2. e[1] = s /\ e[2] \in Handler[s].relates /\ <<s, e[2]>> \notin jobRelationships
      BY <1>5, <2>1
    <2> QED  BY <1>1, <2>2 DEF Related
  <1> QED  BY <1>3, <1>4, <1>5

\* Where every handler has what it demands, and adds and relates all it may when those it
\* builds on succeed, a run in which no listing fails ends with one and the same job state,
\* whatever the order of the steps: but for the relationships of the last graph and of races,
\* it depends on nothing but which steps are enabled.
THEOREM OneOutcome ==
    ASSUME NEW sure, AreSure(sure), DemandsAreMet(sure), AllIsSure(sure)
    PROVE  Spec => []OutcomeIsDetermined
  <1> DEFINE IInv == StoreOK /\ HasOrigin /\ Leaves(sure) /\ Related
  <1>1. Init => IInv
    BY DEF Init, SchedulerInit, StoreOK, HasOrigin, Leaves, AreSure, Related
  <1>2. Order /\ IInv /\ [Next]_vars => IInv'
    BY StoreStaysOK, StillHasOrigin, StillLeaves, StillRelated
  <1>3. Order /\ IInv /\ ThrowsOnlyAfterFailure => OutcomeIsDetermined
    <2> SUFFICES ASSUME Order, IInv, ThrowsOnlyAfterFailure, Idle, Failed \subseteq threw
                 PROVE  /\ Failed = {}
                        /\ jobEntities = FullEntities /\ jobData = FullData
                        /\ jobRelationships \subseteq FullRelationships
                        /\ \A e \in FullRelationships \ jobRelationships : MayMiss(e[1], e[2])
      BY DEF OutcomeIsDetermined
    <2>1. Failed = {}
      BY NoneHasFailed
    <2>2. /\ jobEntities \subseteq FullEntities /\ jobData \subseteq FullData
          /\ jobRelationships \subseteq FullRelationships
      BY NothingElseIsThere
    <2>3. /\ FullEntities \subseteq jobEntities /\ FullData \subseteq jobData
          /\ \A e \in FullRelationships \ jobRelationships : MayMiss(e[1], e[2])
      BY <2>1, AllIsThere
    <2> QED  BY <2>1, <2>2, <2>3
  <1> QED  BY <1>1, <1>2, <1>3, OrderHolds, ThrowsHaveACause, PTL DEF Spec

-----------------------------------------------------------------------------
(* The groups of steps that a configuration enables.                        *)

\* A configuration enables a group of steps with all they build on, if it enables each with
\* what it names in dependsOn.
LEMMA GroupsAreWhole ==
    ASSUME GroupsAreClosed, Order, enabled \in FullStates
    PROVE  Runnable = enabled
  <1>1. enabled \subseteq Steps /\ \A s \in enabled : DependsOn[s] \subseteq enabled
    BY StartStatesAssumption DEF Order, GroupsAreClosed
  <1>2. \A s \in enabled : Ancestors[s] \subseteq enabled
    BY <1>1, StepsAssumption, ClosedUnderAncestors
  <1> QED  BY <1>2 DEF Runnable

\* Where a configuration names with each step what this one depends on, no step of a group
\* builds, however indirectly, on a step that is not enabled.
THEOREM GroupsStandAlone ==
    ASSUME GroupsAreClosed
    PROVE  Spec => []GroupsAreIsolated
  <1>1. Order => GroupsAreIsolated
    BY GroupsAreWhole DEF GroupsAreIsolated
  <1> QED  BY <1>1, OrderHolds, PTL

\* Then, without a disabled source, the run comes to rest only when all that the
\* configuration enables has ended.
THEOREM GroupsRunToTheEnd ==
    ASSUME GroupsAreClosed
    PROVE  Spec => [](enabled \in FullStates /\ Idle => \A s \in enabled : status[s] \in Settled)
  <1>1. Order => (enabled \in FullStates /\ Idle => \A s \in enabled : status[s] \in Settled)
    <2> SUFFICES ASSUME Order, enabled \in FullStates, Idle, NEW s \in enabled
                 PROVE  status[s] \in Settled
      OBVIOUS
    <2>1. s \in Runnable
      BY GroupsAreWhole
    <2> QED  BY <2>1, RunnableHaveEnded
  <1> QED  BY <1>1, OrderHolds, PTL
=============================================================================
