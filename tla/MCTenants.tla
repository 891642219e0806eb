----------------------------- MODULE MCTenants -----------------------------
(***************************************************************************)
(* Instances of Membership, Billing and ActionPipeline for TLC. They share *)
(* no state: a behaviour takes the steps of one of them, chosen at the     *)
(* start, and the variables of the others keep their first values. The     *)
(* users press the buttons, and as many webhooks as calls are handled at   *)
(* the same time, so that one symmetry is sound for all three.             *)
(***************************************************************************)
EXTENDS Membership, TLC

CONSTANTS
  Subs, Plans, MaxEvents, MaxDeliveries,  \* Billing
  MaxRetries                       \* ActionPipeline

\* No subscription has the name of the NULL of a row without one, no paid plan that of the
\* free one; retries are counted.
ASSUME TenantsAssumption == "none" \notin Subs /\ "free" \notin Plans /\ MaxRetries \in Nat

VARIABLES
  part,
  stripe, sent, row, recorded, handling, received, turn, orderly, untold, missed,
  changed, cut, billFaults,
  stored, click, phase, tries, job, status, approvals, overlapped, executed, actionFaults

Bill   == INSTANCE Billing WITH Handlers <- Calls, faults <- billFaults
Action == INSTANCE ActionPipeline WITH Clicks <- Users, faults <- actionFaults

billVars   == <<stripe, sent, row, recorded, handling, received, turn, orderly, untold, missed,
                changed, cut, billFaults>>
actionVars == <<stored, click, phase, tries, job, status, approvals, overlapped, executed,
                actionFaults>>
allVars    == <<part, vars, billVars, actionVars>>

AllInit ==
  /\ part \in {"team", "billing", "action"}
  /\ Init /\ Bill!Init /\ Action!Init
  /\ part # "team" => Cardinality(Members) = 1 /\ Owners = Members
  /\ part # "billing" => ~row.exists

AllNext ==
  /\ UNCHANGED part
  /\ \/ part = "team" /\ Next /\ UNCHANGED <<billVars, actionVars>>
     \/ part = "billing" /\ Bill!Next /\ UNCHANGED <<vars, actionVars>>
     \/ part = "action" /\ Action!Next /\ UNCHANGED <<vars, billVars>>

AllSpec == AllInit /\ [][AllNext]_allVars

Identical == Permutations(Users) \cup Permutations(Calls)
             \cup Permutations(Subs) \cup Permutations(Plans)
-----------------------------------------------------------------------------
\* The type invariant of each part.
TypesOK == TypeOK /\ Bill!TypeOK /\ Action!TypeOK

\* Events in order leave the row as Stripe has the subscription.
InSync == Bill!InSync

\* A subscription that ended leaves its tenant on the free plan.
CanceledIsFree == Bill!CanceledIsFree

\* An action is executed once, but for presses that overlap and for faults.
ExecutedOnce == Action!ExecutedOnce
=============================================================================
