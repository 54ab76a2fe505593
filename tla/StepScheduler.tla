---------------------------- MODULE StepScheduler ----------------------------
(***************************************************************************)
(* How the JupiterOne SDK runs the steps of an integration, as the steps of *)
(* this repository rely on it: each step names in dependsOn the steps whose *)
(* results it uses, and starts once those are settled.  Steps that do not   *)
(* depend on each other run concurrently.  A step settles whether or not it *)
(* succeeded: a failed dependency does not stop its dependents.             *)
(*                                                                         *)
(* The scheduler is no code of this repository.  Nothing more is assumed of *)
(* it than what is said here: not the order of independent steps, not how   *)
(* many run at once, not that a step starts as soon as it can.              *)
(***************************************************************************)

CONSTANTS
    Steps,          \* the ids of the steps
    DependsOn,      \* DependsOn[s]: the steps named in dependsOn of step s
    Ancestors       \* Ancestors[s]: the steps s depends on, directly or not

ASSUME DependsOnAssumption == DependsOn \in [Steps -> SUBSET Steps]

\* A step inherits its ancestors from the steps it depends on.
ASSUME AncestorsAssumption ==
    /\ Ancestors \in [Steps -> SUBSET Steps]
    /\ \A s \in Steps :
          Ancestors[s] = UNION {{d} \cup Ancestors[d] : d \in DependsOn[s]}

VARIABLE status     \* the state of each step

Settled  == {"done", "failed"}
Statuses == {"pending", "running"} \cup Settled

Ready(s) == status[s] = "pending" /\ \A d \in DependsOn[s] : status[d] \in Settled

Start(s) == Ready(s) /\ status' = [status EXCEPT ![s] = "running"]

Settle(s, outcome) ==
    /\ status[s] = "running"
    /\ status' = [status EXCEPT ![s] = outcome]

AllSettled == \A s \in Steps : status[s] \in Settled

SchedulerInit == status = [s \in Steps |-> "pending"]

SchedulerNext == \E s \in Steps : Start(s) \/ \E outcome \in Settled : Settle(s, outcome)

SchedulerSpec == SchedulerInit /\ [][SchedulerNext]_status
-----------------------------------------------------------------------------
StatusOK == status \in [Steps -> Statuses]

\* Whatever order the scheduler chooses, a step that has started finds settled
\* not only the steps it names but every step they build on.
InputsSettled ==
    \A s \in Steps :
        status[s] # "pending" => \A a \in Ancestors[s] : status[a] \in Settled
=============================================================================
