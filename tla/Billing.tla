------------------------------- MODULE Billing -------------------------------
(***************************************************************************)
(* The subscription of one tenant: the Stripe webhook of services/api      *)
(* (packages/shared/src/billing/webhookHandler.ts) and the plan changes of *)
(* database/subscription/repository.ts.                                    *)
(*                                                                         *)
(* Stripe delivers an event at any time after it sent it, in any order and *)
(* more than once. One action of a handler is one SQL statement.           *)
(***************************************************************************)
EXTENDS Naturals, Sequences

CONSTANTS
  Subs,       \* Stripe subscriptions of the tenant, one after the other
  Plans,      \* the paid plans; the row of a tenant without one says "free"
  Handlers,   \* webhooks handled at the same time
  MaxEvents, MaxDeliveries, MaxFaults  \* bounds

VARIABLES
  stripe,     \* the status and the plan Stripe has of each subscription
  sent,       \* the events Stripe sent, in order
  row,        \* the tenant's row of tenant_subscriptions
  recorded,   \* billing_events
  handling,   \* each webhook: the statement it is at and its event
  received, faults,
  turn,       \* how many events were received when it was their turn
  orderly,    \* every event was received in its turn, when no other was being handled,
              \* and handled to its end
  untold,     \* what of each subscription changed in an event that does not carry it
  missed,     \* the last checkout handled found no row to write to
  changed,    \* the plan was changed by hand
  cut         \* a deletion ended between its two statements

history == <<turn, orderly, untold, missed, changed, cut>>
vars == <<stripe, sent, row, recorded, handling, received, faults, history>>

Kinds    == {"checkout", "paid", "failed", "updated", "deleted"}
Statuses == {"trialing", "active", "past_due", "canceled"}
Row   == [exists : BOOLEAN, sub : Subs \cup {"none"}, plan : Plans \cup {"free"},
          status : Statuses]
NoRow == [exists |-> FALSE, sub |-> "none", plan |-> "free", status |-> "active"]
Fresh == [NoRow EXCEPT !.exists = TRUE]
Idle  == [at |-> "idle", event |-> 0]
Event == [kind : Kinds, sub : Subs, status : Statuses, plan : Plans,
          tells : BOOLEAN]  \* whether an update names its plan, an invoice its period

\* A trial is entered by hand: no code writes one, expireTrials ends it.
Init ==
  /\ stripe = [s \in Subs |-> [status |-> "none", plan |-> "free"]]
  /\ sent = <<>> /\ recorded = {}
  /\ row \in {NoRow, Fresh}
             \cup {[Fresh EXCEPT !.status = "trialing", !.plan = plan] : plan \in Plans}
  /\ handling = [h \in Handlers |-> Idle]
  /\ received = 0 /\ faults = 0
  /\ turn = 0 /\ orderly = TRUE /\ untold = [s \in Subs |-> {}] /\ missed = FALSE
  /\ changed = FALSE /\ cut = FALSE

-----------------------------------------------------------------------------
(* Stripe *)

Live(s) == stripe[s].status \in {"trialing", "active", "past_due"}

\* What an event leaves untold: an update without a plan says nothing to the handler, an
\* invoice that was paid only with its period, and no invoice says anything of the plan.
Untold(s, e) ==
  CASE e.kind \in {"checkout", "deleted"}       -> {}
    [] e.kind = "updated" /\ e.tells            -> {}
    [] e.kind \in {"paid", "failed"} /\ e.tells -> untold[s] \ {"status"}
    [] OTHER -> untold[s] \cup (IF e.status # stripe[s].status THEN {"status"} ELSE {})
                         \cup (IF e.plan # stripe[s].plan THEN {"plan"} ELSE {})

Send(e) ==
  /\ Len(sent) < MaxEvents
  /\ stripe' = [stripe EXCEPT ![e.sub] = [status |-> e.status, plan |-> e.plan]]
  /\ sent' = Append(sent, e)
  /\ untold' = [untold EXCEPT ![e.sub] = Untold(e.sub, e)]
  /\ UNCHANGED <<row, recorded, handling, received, faults, turn, orderly, missed, changed,
                 cut>>

Says(s, kind, status, plan, tells) ==
  [kind |-> kind, sub |-> s, status |-> status, plan |-> plan, tells |-> tells]

\* A checkout asks for no trial; its metadata names the plan.
Subscribe(s, plan) ==
  /\ stripe[s].status = "none" /\ \A t \in Subs : ~Live(t)
  /\ Send(Says(s, "checkout", "active", plan, TRUE))

\* An invoice; the one of a trial is paid without ending it.
Charge(s, kind, period) ==
  /\ Live(s)
  /\ \/ kind = "paid"
        /\ Send(Says(s, kind, IF stripe[s].status = "trialing" THEN "trialing" ELSE "active",
                     stripe[s].plan, period))
     \/ kind = "failed" /\ period /\ Send(Says(s, kind, "past_due", stripe[s].plan, TRUE))

\* A change of one thing, or of neither, at Stripe or in its portal. The adapter puts the
\* plan into the metadata of the session, not of the subscription, whose events name one
\* only when somebody added it.
Change(s, status, plan, named) ==
  /\ Live(s) /\ status # "canceled"
  /\ status = stripe[s].status \/ plan = stripe[s].plan
  /\ Send(Says(s, "updated", status, plan, named))

End(s) == Live(s) /\ Send(Says(s, "deleted", "canceled", stripe[s].plan, TRUE))

-----------------------------------------------------------------------------
(* processStripeWebhook *)

Busy(h)   == handling[h].at # "idle"
EventOf(h) == sent[handling[h].event]
Goto(h, at) == handling' = [handling EXCEPT ![h].at = at]
Done(h)   == handling' = [handling EXCEPT ![h] = Idle]

Receive(h, e) ==
  /\ ~Busy(h) /\ e \in 1..Len(sent)
  /\ received < MaxDeliveries /\ received' = received + 1
  /\ handling' = [handling EXCEPT ![h] = [at |-> "check", event |-> e]]
  /\ turn' = IF e = turn + 1 THEN e ELSE turn
  /\ orderly' = (orderly /\ e <= turn + 1 /\ \A g \in Handlers : ~Busy(g))
  /\ UNCHANGED <<stripe, sent, row, recorded, faults, untold, missed, changed, cut>>

\* Mutant: the events on record are not looked up.
CheckNothing(h) ==
  /\ handling[h].at = "check"
  /\ Goto(h, CASE EventOf(h).kind = "checkout" -> "link"
               [] EventOf(h).kind = "deleted"  -> "cancel"
               [] OTHER                      -> "find")
  /\ UNCHANGED <<stripe, sent, row, recorded, received, faults, history>>

\* isEventProcessed.
Check(h) ==
  /\ handling[h].at = "check"
  /\ IF handling[h].event \in recorded THEN Done(h)
     ELSE Goto(h, CASE EventOf(h).kind = "checkout" -> "link"
                    [] EventOf(h).kind = "deleted"  -> "cancel"
                    [] OTHER                      -> "find")
  /\ UNCHANGED <<stripe, sent, row, recorded, received, faults, history>>

\* An UPDATE of a tenant without a row changes nothing.
Set(new) == row' = IF row.exists THEN new ELSE row

\* handleCheckoutCompleted, by tenant.
Link(h) ==
  LET e == EventOf(h)
  IN  /\ handling[h].at = "link"
      /\ Set([row EXCEPT !.sub = e.sub, !.plan = e.plan, !.status = "active"])
      /\ missed' = ~row.exists
      /\ Goto(h, "record")
      /\ UNCHANGED <<stripe, sent, recorded, received, faults, turn, orderly, untold, changed,
                     cut>>

\* FIND_BY_STRIPE_SUBSCRIPTION: an event of another subscription is not recorded.
Find(h) ==
  /\ handling[h].at = "find"
  /\ IF row.sub = EventOf(h).sub THEN Goto(h, "apply") ELSE Done(h)
  /\ UNCHANGED <<stripe, sent, row, recorded, received, faults, history>>

\* handleInvoicePaid and handlePaymentFailed write by subscription, the first only when
\* the invoice has its period; handleSubscriptionUpdated, when the event names a plan, by
\* tenant, with every status but "active" as "past_due".
Apply(h) ==
  LET e == EventOf(h)
      status == IF e.kind = "paid" \/ (e.kind = "updated" /\ e.status = "active")
                THEN "active" ELSE "past_due"
  IN  /\ handling[h].at = "apply"
      /\ IF ~e.tells THEN UNCHANGED row
         ELSE IF e.kind = "updated"
              THEN Set([row EXCEPT !.sub = e.sub, !.plan = e.plan, !.status = status])
              ELSE row' = IF row.sub = e.sub THEN [row EXCEPT !.status = status] ELSE row
      /\ Goto(h, "record")
      /\ UNCHANGED <<stripe, sent, recorded, received, faults, history>>

\* CANCEL_SUBSCRIPTION, by subscription.
Cancel(h) ==
  /\ handling[h].at = "cancel"
  /\ IF row.sub = EventOf(h).sub
     THEN /\ row' = [row EXCEPT !.status = "canceled", !.sub = "none"]
          /\ Goto(h, "downgrade")
     ELSE Done(h) /\ UNCHANGED row
  /\ UNCHANGED <<stripe, sent, recorded, received, faults, history>>

\* Mutant: the plan is left as it is.
KeepPlan(h) ==
  /\ handling[h].at = "downgrade"
  /\ Goto(h, "record")
  /\ UNCHANGED <<stripe, sent, row, recorded, received, faults, history>>

\* DOWNGRADE_TO_FREE, by tenant.
Downgrade(h) ==
  /\ handling[h].at = "downgrade"
  /\ Set([row EXCEPT !.plan = "free"])
  /\ Goto(h, "record")
  /\ UNCHANGED <<stripe, sent, recorded, received, faults, history>>

\* recordBillingEvent, the last statement of every handler.
Record(h) ==
  /\ handling[h].at = "record"
  /\ recorded' = recorded \cup {handling[h].event}
  /\ Done(h)
  /\ UNCHANGED <<stripe, sent, row, received, faults, history>>

\* A statement rejects or the process stops. The record of a failure names a tenant that
\* does not exist, and is rejected as well.
Abort(h) ==
  /\ Busy(h)
  /\ faults < MaxFaults /\ faults' = faults + 1
  /\ cut' = (cut \/ handling[h].at = "downgrade")
  /\ orderly' = FALSE
  /\ Done(h)
  /\ UNCHANGED <<stripe, sent, row, recorded, received, turn, untold, missed, changed>>

-----------------------------------------------------------------------------
(* The other statements that write the row *)

\* ensureSubscription.
Ensure ==
  /\ ~row.exists
  /\ row' = Fresh
  /\ UNCHANGED <<stripe, sent, recorded, handling, received, faults, history>>

\* changePlan, after its ensureSubscription.
ChangePlan(plan) ==
  /\ row.exists /\ row.plan # plan
  /\ row' = [row EXCEPT !.plan = plan]
  /\ changed' = TRUE
  /\ UNCHANGED <<stripe, sent, recorded, handling, received, faults, turn, orderly, untold,
                 missed, cut>>

\* expireTrials, once a day, when trial_ends_at has passed; the flag it sets is not the row.
ExpireTrial ==
  /\ row.status = "trialing"
  /\ row' = [row EXCEPT !.status = "past_due"]
  /\ UNCHANGED <<stripe, sent, recorded, handling, received, faults, history>>

Handle(h) ==
  \/ Check(h) \/ Link(h) \/ Find(h) \/ Apply(h) \/ Cancel(h) \/ Downgrade(h) \/ Record(h)

Next ==
  \/ \E s \in Subs :
       \/ \E plan \in Plans : Subscribe(s, plan)
       \/ \E kind \in {"paid", "failed"}, period \in BOOLEAN : Charge(s, kind, period)
       \/ \E status \in Statuses, plan \in Plans, named \in BOOLEAN :
            Change(s, status, plan, named)
       \/ End(s)
  \/ \E h \in Handlers : Handle(h) \/ Abort(h) \/ \E e \in 1..MaxEvents : Receive(h, e)
  \/ Ensure \/ ExpireTrial
  \/ \E plan \in Plans \cup {"free"} : ChangePlan(plan)

Spec == Init /\ [][Next]_vars

-----------------------------------------------------------------------------
(* Properties *)

\* Types; a row that does not exist has its default values.
TypeOK ==
  /\ stripe \in [Subs -> [status : Statuses \cup {"none"}, plan : Plans \cup {"free"}]]
  /\ sent \in Seq(Event)
  /\ row \in Row /\ (~row.exists => row = NoRow)
  /\ recorded \subseteq 1..Len(sent)
  /\ handling \in [Handlers -> [at : {"idle", "check", "link", "find", "apply", "cancel",
                                      "downgrade", "record"},
                                event : 0..Len(sent)]]
  /\ turn \in 0..Len(sent)
  /\ orderly \in BOOLEAN /\ untold \in [Subs -> SUBSET {"status", "plan"}]
  /\ missed \in BOOLEAN /\ changed \in BOOLEAN /\ cut \in BOOLEAN

\* What the row may say of a status: there are two for a trial at Stripe, which an update
\* writes as overdue and a paid invoice as active.
Shown(status) ==
  IF status = "trialing" THEN {"active", "past_due"} ELSE {status}

\* When the events were received in the order they were sent, one at a time, all of them
\* were handled, and the last checkout found a row, the row says what Stripe says, however
\* often each was delivered: but for a status or a plan that changed in an event without
\* it, until one that carries it, and for a plan changed by hand.
Agrees(s) ==
  /\ Live(s) => /\ row.sub = s
                /\ "status" \in untold[s] \/ row.status \in Shown(stripe[s].status)
                /\ "plan" \in untold[s] \/ changed \/ row.plan = stripe[s].plan
  /\ row.sub = s => Live(s)
InSync ==
  orderly /\ ~missed /\ turn = Len(sent) /\ (\A h \in Handlers : ~Busy(h)) =>
    \A s \in Subs : Agrees(s)

\* A canceled row keeps a paid plan only until the deletion's second statement, unless
\* that statement was never run or the plan was changed by hand.
CanceledIsFree ==
  row.status = "canceled" /\ row.plan \in Plans =>
    cut \/ changed \/ \E h \in Handlers : handling[h].at = "downgrade"
=============================================================================
