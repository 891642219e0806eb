---------------------------- MODULE MCSmallParts ----------------------------
(***************************************************************************)
(* Instances of CircuitBreaker, ResilientClient, CiAggregation,            *)
(* AnalysisJobs, AnalysisBudget and WebhookIntake for TLC. They share no   *)
(* state: a behaviour takes the steps of one of them, chosen at the start, *)
(* and the variables of the others keep their first values.                *)
(***************************************************************************)
EXTENDS CircuitBreaker, FiniteSets

CONSTANTS
  Requests, MaxRetries,                       \* ResilientClient
  Checks, Pollers, FailureLimit,              \* CiAggregation
  Jobs, Loops, MaxConcurrent,                 \* AnalysisJobs
  AnalysisLimit,                              \* AnalysisBudget
  Handlers, MaxAttempts,                      \* WebhookIntake
  MaxFaults

\* Each part has finitely many actors, and limits that are numbers. MaxConcurrent and
\* AnalysisLimit come from constants and configuration that are not 0.
ASSUME PartsAssumption ==
  /\ MaxFaults \in Nat
  /\ MaxRetries \in Nat
  /\ IsFiniteSet(Pollers)
  /\ IsFiniteSet(Jobs) /\ IsFiniteSet(Loops) /\ MaxConcurrent \in Nat \ {0}
  /\ IsFiniteSet(Calls) /\ Calls # {} /\ AnalysisLimit \in Nat \ {0}
  /\ IsFiniteSet(Handlers) /\ MaxAttempts \in Nat

VARIABLES
  part,
  isOpen, clientFailures, clientElapsed, request, up,
  meta, stored, debounce, passed, check, poller, enqueued, added, excused, ciFaults,
  row, fetched, tasks, activeJobs, analyses, struck, workerFaults,
  count, ttl, call, analysed, budgetFaults,
  source, marked, activity, attempt, received, handled, failed, skipped, overlapped, forgotten,
  intakeFaults

Client == INSTANCE ResilientClient WITH failures <- clientFailures, elapsed <- clientElapsed
Ci     == INSTANCE CiAggregation WITH Limit <- FailureLimit, faults <- ciFaults
Worker == INSTANCE AnalysisJobs WITH faults <- workerFaults
Budget == INSTANCE AnalysisBudget WITH Limit <- AnalysisLimit, faults <- budgetFaults
Intake == INSTANCE WebhookIntake WITH faults <- intakeFaults

clientVars == <<isOpen, clientFailures, clientElapsed, request, up>>
ciVars     == <<meta, stored, debounce, passed, check, poller, enqueued, added, excused,
                ciFaults>>
workerVars == <<row, fetched, tasks, activeJobs, analyses, struck, workerFaults>>
budgetVars == <<count, ttl, call, analysed, budgetFaults>>
intakeVars == <<source, marked, activity, attempt, received, handled, failed, skipped,
                overlapped, forgotten, intakeFaults>>
allVars    == <<part, vars, clientVars, ciVars, workerVars, budgetVars, intakeVars>>

AllInit ==
  /\ part \in {"circuit", "client", "ci", "worker", "budget", "intake"}
  /\ Init /\ Client!Init /\ Ci!Init /\ Worker!Init /\ Budget!Init
  /\ Intake!Init /\ (part # "intake" => source = "github")

AllNext ==
  /\ UNCHANGED part
  /\ \/ /\ part = "circuit" /\ Next
        /\ UNCHANGED <<clientVars, ciVars, workerVars, budgetVars, intakeVars>>
     \/ /\ part = "client" /\ Client!Next
        /\ UNCHANGED <<vars, ciVars, workerVars, budgetVars, intakeVars>>
     \/ /\ part = "ci" /\ Ci!Next
        /\ UNCHANGED <<vars, clientVars, workerVars, budgetVars, intakeVars>>
     \/ /\ part = "worker" /\ Worker!Next
        /\ UNCHANGED <<vars, clientVars, ciVars, budgetVars, intakeVars>>
     \/ /\ part = "budget" /\ Budget!Next
        /\ UNCHANGED <<vars, clientVars, ciVars, workerVars, intakeVars>>
     \/ /\ part = "intake" /\ Intake!Next
        /\ UNCHANGED <<vars, clientVars, ciVars, workerVars, budgetVars>>

\* Each part is fair as its FairSpec says.
CircuitFair ==
  /\ WF_vars(part = "circuit" /\ Elapse)
  /\ \A c \in Calls : /\ WF_vars(part = "circuit" /\ Begin(c))
                      /\ WF_vars(part = "circuit" /\ Finish(c))
ClientFair ==
  /\ WF_clientVars(part = "client" /\ Client!Elapse)
  /\ \A r \in Requests : /\ WF_clientVars(part = "client" /\ Client!Begin(r))
                         /\ WF_clientVars(part = "client" /\ Client!Try(r))
CiFair ==
  /\ WF_ciVars(part = "ci" /\ Ci!DebounceExpires)
  /\ \A c \in Checks : WF_ciVars(part = "ci" /\ Ci!Complete(c))
  /\ \A p \in Pollers : WF_ciVars(part = "ci" /\ Ci!Poll(p))
WorkerFair ==
  \A l \in Loops :
    /\ WF_workerVars(part = "worker" /\ Worker!Select(l))
    /\ WF_workerVars(part = "worker" /\ Worker!StartJobs(l))
    /\ \A j \in Jobs : WF_workerVars(part = "worker" /\ Worker!Process(l, j))

AllSpec ==
  /\ AllInit /\ [][AllNext]_allVars
  /\ CircuitFair /\ ClientFair /\ CiFair /\ WorkerFair
-----------------------------------------------------------------------------
\* The type invariant of each part.
TypesOK ==
  /\ TypeOK /\ Client!TypeOK /\ Ci!TypeOK /\ Worker!TypeOK /\ Budget!TypeOK
  /\ Intake!TypeOK

\* Every request ends, whatever the host answers.
EveryRequestEnds == Client!EveryRequestEnds

\* A service or host that stays up gets its circuit closed for good.
CircuitsClose == ClosesForGood /\ Client!ClosesForGood

\* A completed check is lost only to the races and failures that the aggregation admits.
OnlyKnownLosses == Ci!OnlyKnownLosses

\* An aggregation is enqueued again only by another replica or after a failed delete.
BoundedDuplicates == Ci!BoundedDuplicates

\* Completed checks get enqueued.
EventuallyEnqueued == Ci!EventuallyEnqueued

\* Rows being processed have a job in hand, and are not analysed without end.
JobsAccounted == Worker!JobsAccounted

\* Every job finishes, or was struck by a fault.
EventuallyFinished == Worker!EventuallyFinished

\* The budget is overrun by the race between check and increment only, and ends with the
\* day.
QuotaSound == Budget!QuotaSound

\* A delivery is not handled again, and not dropped as a duplicate of nothing.
ReplaysSound == Intake!ReplaysSound
=============================================================================
