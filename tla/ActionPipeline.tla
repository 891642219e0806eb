--------------------------- MODULE ActionPipeline ---------------------------
(***************************************************************************)
(* An action that waits for approval in Slack: the button handlers of      *)
(* services/slack-bot (actionHandler.ts), the payload store of the process *)
(* (packages/shared/src/actions/actionPayloadStore.ts) and the queue's     *)
(* handler (actionQueueProcessor.ts). The queue itself is what JobLifecycle*)
(* promises and ReliableQueue implements.                                  *)
(*                                                                         *)
(* One action of a handler is one awaited call.                            *)
(***************************************************************************)
EXTENDS Naturals, FiniteSets

CONSTANTS
  Clicks,      \* presses of a button, each with its message id if it enqueues one
  MaxRetries,  \* of the action queue
  MaxFaults    \* bound on failed calls and crashes

VARIABLES
  stored,      \* whether the payload store has the action
  click,       \* each press: the await its handler is in
  phase, tries, \* the queue's messages, see JobLifecycle
  job,         \* what the worker of a running message is about to do
  status,      \* action_proposals.status
  faults,
  \* history of the run
  approvals,   \* presses of approve that retrieved the payload
  overlapped,  \* one of them did while another was being handled
  executed     \* successful executions of the action

queue   == <<phase, tries>>
history == <<approvals, overlapped>>
vars == <<stored, click, queue, job, status, faults, history, executed>>

Queue == INSTANCE JobLifecycle WITH
  Jobs <- Clicks, MaxTries <- MaxRetries + 1, faulty <- FALSE

Init ==
  /\ stored = TRUE
  /\ click = [c \in Clicks |-> "new"]
  /\ Queue!Init
  /\ job = [c \in Clicks |-> "none"]
  /\ status = "proposed" /\ faults = 0
  /\ approvals = {} /\ overlapped = FALSE /\ executed = 0

Goto(c, at) == click' = [click EXCEPT ![c] = at]
Fault       == faults < MaxFaults /\ faults' = faults + 1
InHand(c)   == click[c] \notin {"new", "done", "reject", "rejected"}

-----------------------------------------------------------------------------
(* handleActionApproval and executeStoredAction *)

\* getActionPayload, at the start of both handlers.
Approve(c) ==
  /\ click[c] = "new" /\ stored
  /\ Goto(c, "prepare")
  /\ approvals' = approvals \cup {c}
  /\ overlapped' = (overlapped \/ \E d \in Clicks : InHand(d))
  /\ UNCHANGED <<stored, queue, job, status, faults, executed>>

\* Restrictions, audits and the health check of Redis, by which the action is queued
\* or executed at once. A restricted action stays in the store.
Prepare(c) ==
  /\ click[c] = "prepare"
  /\ \E at \in {"enqueue", "execute", "done"} : Goto(c, at)
  /\ UNCHANGED <<stored, queue, job, status, faults, history, executed>>

\* enqueueAction.
Enqueue(c) ==
  /\ click[c] = "enqueue"
  /\ Queue!Submit(c)
  /\ Goto(c, "approved")
  /\ UNCHANGED <<stored, job, status, faults, history, executed>>

\* executeAction in the handler itself.
ExecuteNow(c) ==
  /\ click[c] = "execute"
  /\ \/ Goto(c, "executed") /\ executed' = executed + 1
     \/ Goto(c, "failed") /\ UNCHANGED executed
  /\ UNCHANGED <<stored, queue, job, status, faults, history>>

\* persistActionStatus, which logs its errors and goes on.
Persist(c) ==
  /\ click[c] \in {"approved", "executed", "failed", "rejected"}
  /\ \/ status' = click[c] /\ UNCHANGED faults
     \/ Fault /\ UNCHANGED status
  /\ Goto(c, IF click[c] = "rejected" THEN "done" ELSE "say")
  /\ UNCHANGED <<stored, queue, job, history, executed>>

\* Mutant: the payload stays in the store.
KeepPayload(c) ==
  /\ click[c] = "say"
  /\ Goto(c, "done")
  /\ UNCHANGED <<stored, queue, job, status, faults, history, executed>>

\* The last message to Slack, then deleteActionPayload.
Delete(c) ==
  /\ click[c] = "say"
  /\ stored' = FALSE
  /\ Goto(c, "done")
  /\ UNCHANGED <<queue, job, status, faults, history, executed>>

\* A call rejects: the handler ends, the payload is not deleted. A command of Redis may
\* have been applied all the same.
Fail(c) ==
  /\ click[c] \notin {"new", "done", "approved", "executed", "failed", "rejected"}
  /\ Fault
  /\ IF click[c] = "enqueue" THEN Queue!Submit(c) \/ UNCHANGED queue ELSE UNCHANGED queue
  /\ Goto(c, "done")
  /\ UNCHANGED <<stored, job, status, history, executed>>

-----------------------------------------------------------------------------
(* handleActionRejection *)

Reject(c) ==
  /\ click[c] = "new" /\ stored
  /\ Goto(c, "reject")
  /\ UNCHANGED <<stored, queue, job, status, faults, history, executed>>

\* The audit entry and the message to Slack.
Dismiss(c) ==
  /\ click[c] = "reject"
  /\ Goto(c, "rejected")
  /\ UNCHANGED <<stored, queue, job, status, faults, history, executed>>

-----------------------------------------------------------------------------
(* processActionJob *)

Work(c, next) == job' = [job EXCEPT ![c] = next]

Start(c) ==
  /\ Queue!Start(c)
  /\ Work(c, "execute")
  /\ UNCHANGED <<stored, click, status, faults, history, executed>>

Execute(c) ==
  /\ job[c] = "execute"
  /\ \/ Work(c, "publish") /\ executed' = executed + 1
     \/ Work(c, "again") /\ UNCHANGED executed
     \/ Work(c, "refused") /\ UNCHANGED executed
  /\ UNCHANGED <<stored, click, queue, status, faults, history>>

\* publish, in the same try block as executeAction: if it rejects, the job has failed. A
\* failure is retried if its text is of a retryable error.
Publish(c) ==
  /\ job[c] \in {"publish", "again", "refused"}
  /\ LET retry == IF tries[c] <= MaxRetries THEN Queue!Retry(c) ELSE Queue!Bury(c)
     IN  \/ /\ UNCHANGED faults
            /\ CASE job[c] = "publish" -> Queue!Succeed(c)
                 [] job[c] = "again"   -> retry
                 [] job[c] = "refused" -> Queue!Bury(c)
         \/ Fault /\ (retry \/ Queue!Bury(c))
  /\ Work(c, "none")
  /\ UNCHANGED <<stored, click, status, history, executed>>

\* A worker's process dies with the messages its loops have in hand.
Lose(S) ==
  /\ S # {} /\ \A c \in S : job[c] # "none"
  /\ Fault /\ Queue!Lose(S)
  /\ job' = [c \in Clicks |-> IF c \in S THEN "none" ELSE job[c]]
  /\ UNCHANGED <<stored, click, status, history, executed>>

-----------------------------------------------------------------------------
(* The slack-bot process *)

\* The payload's time is up, or it is the oldest of a full store.
Expire ==
  /\ stored /\ stored' = FALSE
  /\ UNCHANGED <<click, queue, job, status, faults, history, executed>>

\* The store is in memory, and so are the handlers.
Restart ==
  /\ stored /\ Fault
  /\ stored' = FALSE
  /\ click' = [c \in Clicks |-> IF click[c] = "new" THEN "new" ELSE "done"]
  /\ UNCHANGED <<queue, job, status, history, executed>>

Handle(c) ==
  \/ Prepare(c) \/ Enqueue(c) \/ ExecuteNow(c) \/ Persist(c) \/ Delete(c) \/ Dismiss(c)

Run(c) == Start(c) \/ Execute(c) \/ Publish(c)

Next ==
  \/ \E c \in Clicks : Approve(c) \/ Reject(c) \/ Handle(c) \/ Fail(c) \/ Run(c)
  \/ \E S \in SUBSET Clicks : Lose(S)
  \/ Expire \/ Restart

Spec == Init /\ [][Next]_vars

-----------------------------------------------------------------------------
(* Properties *)

\* Types; a message is in a worker's hands exactly while it runs.
TypeOK ==
  /\ stored \in BOOLEAN
  /\ click \in [Clicks -> {"new", "prepare", "enqueue", "execute", "approved", "executed",
                           "failed", "say", "reject", "rejected", "done"}]
  /\ phase \in [Clicks -> Queue!Phases] /\ tries \in [Clicks -> 0..(MaxRetries + 1)]
  /\ job \in [Clicks -> {"none", "execute", "publish", "again", "refused"}]
  /\ \A c \in Clicks : job[c] # "none" <=> phase[c] = "running"
  /\ status \in {"proposed", "approved", "executed", "failed", "rejected"}
  /\ approvals \subseteq Clicks /\ overlapped \in BOOLEAN /\ executed \in Nat

\* An action is carried out once, however often it is approved and retried; once more for
\* each fault, and once per approval if approvals were handled at the same time.
ExecutedOnce ==
  executed <= (IF overlapped THEN Cardinality(approvals) ELSE 1) + faults

\* A dismissed action is cleaned up, as handleActionRejection says: it is approved no more.
DismissedStays == [][approvals' # approvals => status # "rejected"]_vars
=============================================================================
