---------------------------- MODULE WebhookIntake ----------------------------
(***************************************************************************)
(* Replay protection of webhooks: one delivery id, sent again and again,   *)
(* at the route of GitHub and the one of GitLab (services/github-app) or   *)
(* of a deployment platform (services/api), over the key in Redis          *)
(* (packages/shared/src/cache/webhookDedup.ts) and the rows of             *)
(* webhook_activity. GitHub's route uses both, GitLab's the rows only, the *)
(* deployments' the key only.                                              *)
(*                                                                         *)
(* One action is one command of Redis, one SQL statement or one run of the *)
(* event's handler.                                                        *)
(***************************************************************************)
EXTENDS Naturals, FiniteSets

CONSTANTS
  Handlers,    \* attempts handled at the same time
  MaxAttempts, \* bound on attempts received
  MaxFaults    \* bound on failed commands and crashes

VARIABLES
  source,      \* the route
  marked,      \* the key kenchi:webhook-dedup:<source>:<delivery>
  activity,    \* the statuses of the delivery's rows in webhook_activity
  attempt,     \* each attempt: the await it is in and the writes nobody waits for
  faults,
  \* history of the run
  received,    \* attempts received
  handled,     \* attempts whose handler succeeded
  failed,      \* whether an attempt's handler failed
  skipped,     \* whether an attempt was answered as a duplicate
  overlapped,  \* whether an attempt was received while another was in hand
  forgotten    \* losses of the last record the route looks up

history == <<received, handled, failed, skipped, overlapped, forgotten>>
vars == <<source, marked, activity, attempt, faults, history>>

Writes == {"mark", "processed", "failed"}
Idle   == [at |-> "idle", writes |-> {}]

Init ==
  /\ source \in {"github", "gitlab", "deploy"}
  /\ marked = FALSE /\ activity = {}
  /\ attempt = [h \in Handlers |-> Idle]
  /\ faults = 0
  /\ received = 0 /\ handled = 0 /\ failed = FALSE /\ skipped = FALSE
  /\ overlapped = FALSE /\ forgotten = 0

Goto(h, at)       == attempt' = [attempt EXCEPT ![h] = [at |-> at, writes |-> {}]]
Answer(h, writes) == attempt' = [attempt EXCEPT ![h] =
                       IF writes = {} THEN Idle ELSE [at |-> "answered", writes |-> writes]]
Fault == faults < MaxFaults /\ faults' = faults + 1

Receive(h) ==
  /\ attempt[h] = Idle /\ received < MaxAttempts
  /\ received' = received + 1
  /\ overlapped' = (overlapped \/ \E g \in Handlers : attempt[g] # Idle)
  /\ Goto(h, IF source = "gitlab" THEN "activity" ELSE "key")
  /\ UNCHANGED <<source, marked, activity, faults, handled, failed, skipped, forgotten>>

\* isWebhookDuplicate, which lets the attempt pass if Redis does not answer.
FindKey(h) ==
  LET next == IF source = "github" THEN "activity" ELSE "handle"
  IN  /\ attempt[h].at = "key"
      /\ \/ marked /\ Answer(h, {}) /\ skipped' = TRUE /\ UNCHANGED faults
         \/ ~marked /\ Goto(h, next) /\ UNCHANGED <<skipped, faults>>
         \/ Fault /\ Goto(h, next) /\ UNCHANGED skipped
      /\ UNCHANGED <<source, marked, activity, received, handled, failed, overlapped, forgotten>>

\* findWebhookActivityByDeliveryId: any row will do; GitHub's route then sets the key.
FindActivity(h) ==
  /\ attempt[h].at = "activity"
  /\ \/ /\ activity # {} /\ skipped' = TRUE
        /\ Answer(h, IF source = "github" THEN {"mark"} ELSE {})
        /\ UNCHANGED faults
     \/ activity = {} /\ Goto(h, "handle") /\ UNCHANGED <<skipped, faults>>
     \/ Fault /\ Goto(h, "handle") /\ UNCHANGED skipped
  /\ UNCHANGED <<source, marked, activity, received, handled, failed, overlapped, forgotten>>

\* GitHub's route refuses a source over its rate limit.
Refuse(h) ==
  /\ source = "github" /\ attempt[h].at = "handle"
  /\ Goto(h, "idle")
  /\ UNCHANGED <<source, marked, activity, faults, history>>

\* Only the deployments' route waits for its mark before it answers.
Succeed(h) ==
  /\ attempt[h].at = "handle"
  /\ handled' = handled + 1
  /\ CASE source = "github" -> Answer(h, {"mark", "processed"})
       [] source = "gitlab" -> Answer(h, {"processed"})
       [] source = "deploy" -> Goto(h, "mark")
  /\ UNCHANGED <<source, marked, activity, faults, received, failed, skipped,
                 overlapped, forgotten>>

\* Mutant: the key is set whether or not the handler succeeded.
FailMarked(h) ==
  /\ attempt[h].at = "handle"
  /\ failed' = TRUE
  /\ Answer(h, IF source = "deploy" THEN {"mark"} ELSE {"mark", "failed"})
  /\ UNCHANGED <<source, marked, activity, faults, received, handled, skipped,
                 overlapped, forgotten>>

\* The error is logged to webhook_activity and raised.
Fail(h) ==
  /\ attempt[h].at = "handle"
  /\ failed' = TRUE
  /\ Answer(h, IF source = "deploy" THEN {} ELSE {"failed"})
  /\ UNCHANGED <<source, marked, activity, faults, received, handled, skipped,
                 overlapped, forgotten>>

\* markWebhookProcessed of the deployments' route, which ignores its failure.
Mark(h) ==
  /\ attempt[h].at = "mark"
  /\ \/ marked' = TRUE /\ UNCHANGED faults
     \/ Fault /\ marked' \in {marked, TRUE}
  /\ Goto(h, "idle")
  /\ UNCHANGED <<source, activity, history>>

\* A write that nobody waits for: markWebhookProcessed or logWebhookActivity.
Write(h, w) ==
  /\ w \in attempt[h].writes
  /\ \/ /\ marked' = (marked \/ w = "mark")
        /\ activity' = activity \cup ({w} \ {"mark"})
        /\ UNCHANGED faults
     \/ Fault /\ UNCHANGED <<marked, activity>>
  /\ Answer(h, attempt[h].writes \ {w})
  /\ UNCHANGED <<source, history>>

\* Whether the route would find a record of the delivery.
Known ==
  \/ marked /\ source # "gitlab"
  \/ activity # {} /\ source # "deploy"

Forget == forgotten' = IF Known /\ ~Known' THEN forgotten + 1 ELSE forgotten

\* The key's seven days are over.
Expire ==
  /\ marked /\ marked' = FALSE
  /\ UNCHANGED <<source, activity, attempt, faults, received, handled, failed, skipped,
                 overlapped>>
  /\ Forget

\* hardDeleteTenant: the rows of webhook_activity go with their tenant's.
Purge ==
  /\ activity # {} /\ activity' = {}
  /\ UNCHANGED <<source, marked, attempt, faults, received, handled, failed, skipped,
                 overlapped>>
  /\ Forget

Crash(h) ==
  /\ attempt[h] # Idle
  /\ Fault /\ Goto(h, "idle")
  /\ UNCHANGED <<source, marked, activity, history>>

Next ==
  \/ \E h \in Handlers :
       \/ Receive(h) \/ FindKey(h) \/ FindActivity(h) \/ Refuse(h)
       \/ Succeed(h) \/ Fail(h) \/ Mark(h) \/ Crash(h)
       \/ \E w \in Writes : Write(h, w)
  \/ Expire \/ Purge

Spec == Init /\ [][Next]_vars

-----------------------------------------------------------------------------
(* Properties *)

\* Types.
TypeOK ==
  /\ source \in {"github", "gitlab", "deploy"} /\ marked \in BOOLEAN
  /\ activity \subseteq Writes \ {"mark"}
  /\ attempt \in [Handlers -> [at : {"idle", "key", "activity", "handle", "mark", "answered"},
                               writes : SUBSET Writes]]
  /\ faults \in 0..MaxFaults /\ received \in 0..MaxAttempts /\ handled \in 0..MaxAttempts
  /\ {failed, skipped, overlapped} \subseteq BOOLEAN /\ forgotten \in Nat

\* A delivery is handled once, and once more for each fault and each time the last record
\* of it was lost: a deployment's when its key expires, GitLab's when the tenant is
\* deleted, GitHub's when both have happened. Attempts that overlap may each be handled.
HandledOnce == overlapped \/ handled <= 1 + faults + forgotten

\* A delivery that was never handled is answered as a duplicate only after an attempt
\* failed, and never by the deployments' route.
DuplicateWasHandled == skipped /\ handled = 0 => failed /\ source # "deploy"

\* A delivery is not handled again, and not dropped as a duplicate of nothing.
ReplaysSound == HandledOnce /\ DuplicateWasHandled
=============================================================================
