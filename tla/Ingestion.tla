------------------------------ MODULE Ingestion ------------------------------
(***************************************************************************)
(* One run of the integration: the steps of the table in src/index.ts, put  *)
(* together.  StepScheduler says when a step may start, StepStartStates     *)
(* which of them are enabled, StepEffects what its handler does.  The job   *)
(* state is told apart by type only: an entity of a type is there once a    *)
(* step that adds the type has ended.                                       *)
(*                                                                         *)
(* A handler looks at the job state while it runs, at moments of its own.   *)
(* Here it looks when it ends; NothingArrivesLate says that it might have   *)
(* looked at any time since it started.                                     *)
(*                                                                         *)
(* For TLC the interleaving is limited to the steps in focus: the others    *)
(* run as soon as they can, all at once.  With Foci = {Steps} that is no    *)
(* limit at all, and the theorems hold for every choice of Foci.            *)
(*                                                                         *)
(* getAccountEntity throws an error marked fatal, which ends the whole run. *)
(* Here it fails its step only, and the runs that go on are more.           *)
(*                                                                         *)
(* A definition marked FAULT is no part of the specification: it is a bug   *)
(* the definition after it could have, and shows what a property excludes.  *)
(***************************************************************************)
EXTENDS StepScheduler, StepEffects, Naturals, FiniteSets

CONSTANTS
    Handler,        \* Handler[s]: the effect of the execution handler of step s
    Declared,       \* Declared[s]: the entities and relationships that step s declares
    LastGraph,      \* the steps with dependencyGraphId 'last'
    StartStates,    \* the sets of steps that some configuration enables
    FullStates,     \* those it enables when no ingestion source is disabled
    Wildcards,      \* Wildcards[type]: the types that a name such as ANY_SCOPE stands for
    Races,          \* pairs <<p, s>>: s looks for what p adds and does not wait for it
    Undeclared,     \* pairs <<s, r>>: step s makes a relationship r that it does not declare
    Unchecked,      \* pairs <<s, type>>: s relates entities of the type by a key it made up
    Foci,           \* the sets of steps whose interleavings are looked at
    Losses          \* bound: how many steps fail for a reason of their own

\* No step depends on itself, however indirectly: the executor does not run such a table.
ASSUME StepsAssumption ==
    /\ IsFiniteSet(Steps)
    /\ \A s \in Steps : s \notin Ancestors[s]

ASSUME StartStatesAssumption == StartStates \subseteq SUBSET Steps

ASSUME LastGraphAssumption ==
    /\ LastGraph \subseteq Steps
    /\ \A s \in Steps \ LastGraph : DependsOn[s] \cap LastGraph = {}

ASSUME FociAssumption == Foci \subseteq SUBSET Steps

VARIABLES
    enabled,        \* the steps that the configuration enables
    focus,
    jobEntities,       \* pairs <<type, writer>>
    jobRelationships,  \* pairs <<writer, relationship>>
    jobData,           \* pairs <<key, writer>>
    threw           \* the steps whose handler threw for want of what it looked for

store == <<jobEntities, jobRelationships, jobData>>
vars  == <<status, enabled, focus, store, threw>>

\* The types that step s looks for, the keys it reads, and the types it may add.
Means(type) == IF type \in DOMAIN Wildcards THEN Wildcards[type] ELSE {type}

LookedFor ==
    [s \in Steps |-> UNION {Means(t) : t \in Handler[s].iterates \cup Handler[s].finds
                                               \cup {n[2] : n \in Handler[s].needs}}]

ReadKeys ==
    [s \in Steps |-> Handler[s].gets \cup Handler[s].reads \cup {k[2] : k \in Handler[s].knows}]

Written == [s \in Steps |-> Handler[s].adds \cup {e[2] : e \in Handler[s].each}]

Types == UNION {Written[s] : s \in Steps}

\* A name for any type is no type.
ASSUME WildcardsAssumption == DOMAIN Wildcards \cap Types = {}

Writers == [t \in Types |-> {s \in Steps : t \in Written[s]}]
Seekers == [t \in Types |-> {s \in Steps : t \in LookedFor[s]}]

Failed == {s \in Steps : status[s] = "failed"}

\* A step whose dependencies are not all enabled never starts.
Runnable == {s \in enabled : Ancestors[s] \subseteq enabled}
-----------------------------------------------------------------------------
(* When a step starts.                                                      *)

\* FAULT: the steps of the last graph wait for steps that never start, too.
DefaultGraphIdleAllSettled == \A d \in Steps \ LastGraph : status[d] \in Settled

DefaultGraphIdle ==
    \A d \in enabled \ LastGraph : status[d] # "running" /\ ~Ready(d)

CanBegin(s) == s \in enabled /\ Ready(s) /\ (s \in LastGraph => DefaultGraphIdle)

Background == {s \in Steps \ focus : CanBegin(s)}
-----------------------------------------------------------------------------
(* What a step does.                                                        *)

Found(type) ==
    \E t \in Means(type) \cap Types : \E p \in Writers[t] : <<t, p>> \in jobEntities

HasData(key) == \E d \in jobData : d[1] = key

Throws(s) ==
    \/ \E key \in Handler[s].gets : ~HasData(key)
    \/ \E d \in Handler[s].demands : (d[1] = Always \/ Found(d[1])) /\ ~Found(d[2])

\* Entities that come with a parent, found or new, which may itself come with one.
Added(s) ==
    LET h == Handler[s]
        children == h.adds \cup {e[2] : e \in {c \in h.each : Found(c[1]) \/ c[1] \in h.adds}}
    IN  children \cup {e[2] : e \in {c \in h.each : c[1] \in children}}

\* FAULT: a relationship is made without a look whether its ends are there.
EndAtHandUnchecked(s, type) == TRUE

\* An end that the handler neither adds nor looks for is taken on trust.
EndAtHand(s, type) ==
    LET h == Handler[s]
    IN  IF type \in h.iterates \cup h.finds \cup Written[s]
          THEN Found(type) \/ type \in Added(s)
          ELSE \A k \in h.knows : k[1] = type => HasData(k[2])

RelationshipsMade(s) ==
    {r \in Handler[s].relates :
        /\ EndAtHand(s, r[1]) /\ EndAtHand(s, r[3])
        /\ LET needed == {n[2] : n \in {m \in Handler[s].needs : m[1] = r}}
           IN  needed # {} => \E type \in needed : Found(type)}

\* The handlers of the steps in B add what they have; one that throws adds nothing.
Execute(B) ==
    LET able == {s \in B : ~Throws(s)}
    IN  /\ jobEntities' = jobEntities \cup UNION {Added(s) \X {s} : s \in able}
        /\ jobRelationships' = jobRelationships \cup UNION {{s} \X RelationshipsMade(s) : s \in able}
        /\ threw' = threw \cup (B \ able)

\* setData is the last thing that a handler does.
ExecuteAll(B) ==
    /\ Execute(B)
    /\ jobData' = jobData \cup UNION {Handler[s].sets \X {s} : s \in {x \in B : ~Throws(x)}}
-----------------------------------------------------------------------------
Init ==
    /\ SchedulerInit
    /\ enabled \in StartStates
    /\ focus \in Foci
    /\ jobEntities = {} /\ jobRelationships = {} /\ jobData = {} /\ threw = {}

RunBackground ==
    /\ \E B \in {Background} \ {{}} :
          /\ ExecuteAll(B)
          /\ status' = [s \in Steps |-> IF s \notin B THEN status[s]
                                        ELSE IF Throws(s) THEN "failed" ELSE "done"]
    /\ UNCHANGED <<enabled, focus>>

Begin(s) ==
    /\ CanBegin(s)
    /\ Start(s)
    /\ UNCHANGED <<enabled, focus, store, threw>>

\* FAULT: an error thrown by the handler is swallowed.
FinishAlwaysDone(s) ==
    Settle(s, "done") /\ ExecuteAll({s}) /\ UNCHANGED <<enabled, focus>>

Finish(s) ==
    /\ Settle(s, IF Throws(s) THEN "failed" ELSE "done")
    /\ ExecuteAll({s})
    /\ UNCHANGED <<enabled, focus>>

MayFail(s) == Cardinality(Failed \ threw) < Losses /\ Settle(s, "failed")

\* A listing throws before the handler has added anything,
FailAtOnce(s) == MayFail(s) /\ UNCHANGED <<enabled, focus, store, threw>>

\* or when it has added everything, but before setData.
FailLate(s) ==
    MayFail(s) /\ ~Throws(s) /\ Execute({s}) /\ UNCHANGED <<enabled, focus, jobData>>

Idle == \A s \in Steps : status[s] # "running" /\ ~CanBegin(s)

\* The run is over.
RunOver == Idle /\ UNCHANGED vars

Progress ==
    \/ RunBackground
    \/ Background = {} /\ \E s \in focus : Begin(s) \/ Finish(s)

Failure == Background = {} /\ \E s \in focus : FailAtOnce(s) \/ FailLate(s)

Next == Progress \/ Failure \/ RunOver

Spec == Init /\ [][Next]_vars

\* The runtime starts what can start, and every handler ends.
FairSpec == Spec /\ WF_vars(Progress)
-----------------------------------------------------------------------------
(* Properties.                                                              *)

\* What is in the job state was put there by an enabled step that may put it there, and a
\* step that threw has failed.
TypeOK ==
    /\ StatusOK
    /\ enabled \in StartStates /\ focus \in Foci
    /\ jobEntities \subseteq UNION {Written[s] \X {s} : s \in enabled}
    /\ jobRelationships \subseteq UNION {{s} \X Handler[s].relates : s \in enabled}
    /\ jobData \subseteq UNION {Handler[s].sets \X {s} : s \in enabled}
    /\ threw \subseteq Failed

\* What step s looks for and step p adds is there when s starts: s depends on p, or runs
\* in the last graph and p does not.  Races lists the exceptions.
Precedes(p, s) ==
    \/ p \in Ancestors[s]
    \/ s \in LastGraph /\ p \notin LastGraph
    \/ Written[p] \cap LookedFor[s] = {} /\ Handler[p].sets \cap ReadKeys[s] = {}
    \/ <<p, s>> \in Races

\* Something of p turns up after s has started.
ArrivesLate(p, s) == p # s /\ status'[s] # "pending" /\ <<p, s>> \notin Races

\* No entity and no data turns up that a step which has started looks for: what a
\* handler finds does not depend on when it looks.
NothingArrivesLate ==
    [][/\ \A e \in jobEntities' \ jobEntities : \A s \in Seekers[e[1]] : ~ArrivesLate(e[2], s)
       /\ \A d \in jobData' \ jobData :
             \A s \in Steps : d[1] \in ReadKeys[s] => ~ArrivesLate(d[2], s)]_vars

\* Where the ends of a relationship come from: the handler looks for them, adds them, or
\* learns of them from data whose writer adds them.  Unchecked lists the exceptions.
EndsAreKnown ==
    \A s \in Steps : \A r \in Handler[s].relates : \A type \in {r[1], r[3]} :
        \/ type \in Handler[s].iterates \cup Handler[s].finds \cup Written[s]
        \/ \E k \in Handler[s].knows :
              k[1] = type /\ \A p \in Steps : k[2] \in Handler[p].sets => type \in Handler[p].adds
        \/ <<s, type>> \in Unchecked

\* A relationship between entities has both its ends in the end, also when a step has
\* failed: the graph drops the others.
NoDanglingEdge ==
    Idle => \A e \in jobRelationships : \A type \in {e[2][1], e[2][3]} :
               Found(type) \/ <<e[1], type>> \in Unchecked

\* A set of pairs <<p, type>>: if p and all before it succeed, p leaves entities of the type.
\* What step s is sure to find then, and to add; compare Found and Added.
SureToFind(sure, s, type) == \E p \in Ancestors[s] : \E t \in Means(type) : <<p, t>> \in sure

SureToAdd(sure, s) ==
    LET h == Handler[s]
        children == h.adds \cup {e[2] : e \in {c \in h.each : \/ SureToFind(sure, s, c[1])
                                                               \/ c[1] \in h.adds}}
    IN  children \cup {e[2] : e \in {c \in h.each : c[1] \in children}}

AreSure(sure) == \A x \in sure : x[1] \in Steps /\ x[2] \in SureToAdd(sure, x[1])

\* From what is sure, one level further down; from nothing, what the handlers add anyway.
Deeper(sure) == UNION {{s} \X SureToAdd(sure, s) : s \in Steps}

\* The entities a step is sure to add, four levels down.
TableSure == Deeper(Deeper(Deeper(Deeper({}))))

\* What a handler cannot do without, it gets from a step upstream.
DemandsAreMet(sure) ==
    \A s \in Steps :
        /\ \A key \in Handler[s].gets : \E p \in Ancestors[s] : key \in Handler[p].sets
        /\ \A d \in Handler[s].demands : SureToFind(sure, s, d[2])

\* A handler throws for want of an entity or of data only if a step it depends on has
\* failed: with all well, no order of the steps and no disabled source makes a step fail.
ThrowsOnlyAfterFailure == \A s \in threw : Ancestors[s] \cap Failed # {}

\* The runtime keeps what a failed step, or one that depends on it, declares as it was in
\* the last run.
KeptFromLastRun(s) == s \in Failed \/ Ancestors[s] \cap Failed # {}

Declares(s, r) ==
    \/ <<s, r>> \in Undeclared
    \/ \E d \in Declared[s].relationships :
          /\ d[2] = r[2]
          /\ d[1] \in {r[1], "ANY_RESOURCE", "ANY_SCOPE"} /\ d[3] \in {r[3], "ANY_SCOPE"}

\* Step s looked before what it needs for r was there, or may have.
MayMiss(s, r) ==
    LET types == {r[1], r[3]} \cup {n[2] : n \in Handler[s].needs}
    IN  s \in LastGraph \/ \E p \in Steps : <<p, s>> \in Races /\ Written[p] \cap types # {}

\* A step declares all it may add and relate: what the last run had of it is kept.
AllIsDeclared ==
    \A s \in Steps :
        /\ Written[s] \subseteq Declared[s].entities
        /\ \A r \in Handler[s].relates : Declares(s, r)

\* What step s relates entities of the type by is there when it runs; compare EndAtHand.
EndIsSure(sure, s, type) ==
    LET h == Handler[s]
    IN  IF type \in h.iterates \cup h.finds \cup Written[s]
          THEN SureToFind(sure, s, type) \/ <<s, type>> \in sure
          ELSE \A k \in h.knows : k[1] = type => \E p \in Ancestors[s] : k[2] \in Handler[p].sets

\* A step adds and relates all it may when those it builds on succeed, but in the last graph
\* and in a race.
AllIsSure(sure) ==
    \A s \in Steps :
        /\ {s} \X Written[s] \subseteq sure
        /\ \A r \in Handler[s].relates :
              \/ MayMiss(s, r)
              \/ /\ EndIsSure(sure, s, r[1]) /\ EndIsSure(sure, s, r[3])
                 /\ LET needed == {n[2] : n \in {m \in Handler[s].needs : m[1] = r}}
                    IN  needed # {} => \E type \in needed : SureToFind(sure, s, type)

\* What a step does not make is declared by it, and the step has failed or depends on one
\* that has: nothing of the last run is deleted because a listing failed in this one.  The
\* steps of the last graph depend on no one and the steps in a race find what they find; these
\* are excepted.
NothingLostSilently ==
    Idle => \A s \in Runnable :
        /\ \A type \in Written[s] :
              \/ <<type, s>> \in jobEntities
              \/ KeptFromLastRun(s) /\ type \in Declared[s].entities
        /\ \A r \in Handler[s].relates :
              \/ <<s, r>> \in jobRelationships
              \/ KeptFromLastRun(s) /\ Declares(s, r)
              \/ ~KeptFromLastRun(s) /\ MayMiss(s, r)

\* Everything that the runnable steps may add, set and relate.
FullEntities == UNION {Written[s] \X {s} : s \in Runnable}
FullData == UNION {Handler[s].sets \X {s} : s \in Runnable}
FullRelationships == UNION {{s} \X Handler[s].relates : s \in Runnable}

\* When no listing fails, no step does, and how the run ends does not depend on the order of
\* the steps: the job state has all that the runnable steps may put there and nothing of any
\* other step.  Only in the last graph and in a race may a relationship be missing.
OutcomeIsDetermined ==
    Idle /\ Failed \subseteq threw =>
        /\ Failed = {}
        /\ jobEntities = FullEntities /\ jobData = FullData
        /\ jobRelationships \subseteq FullRelationships
        /\ \A e \in FullRelationships \ jobRelationships : MayMiss(e[1], e[2])

\* What a configuration enables names in dependsOn nothing else.
GroupsAreClosed == \A S \in FullStates : \A s \in S : DependsOn[s] \subseteq S

\* What a configuration enables is enabled with all it builds on, however indirectly: a group
\* of steps needs no step of another, only the account (toHaveIsolatedDependencies in
\* src/getStepStartStates.test.ts).
GroupsAreIsolated == enabled \in FullStates => Runnable = enabled

\* Every step whose dependencies are enabled runs in the end, the last graph's too: no
\* step waits for one that the configuration has disabled.
EveryRunnableStepSettles == <>(\A s \in Runnable : status[s] \in Settled)
=============================================================================
