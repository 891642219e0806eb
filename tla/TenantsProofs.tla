---------------------------- MODULE TenantsProofs ----------------------------
(* Theorems about Billing and ActionPipeline, for every number of subscriptions, events,
   webhooks, presses, retries and faults, and about the sum of them and Membership. *)
EXTENDS MCTenants, MembershipProofs, Sequences

USE MembershipAssumption, TenantsAssumption

(***************************************************************************)
(* Types. An invoice leaves the subscription with a status of its kind, a  *)
(* subscription that began has a paid plan, and a handler past its look-up *)
(* has an event of the kind that it handles.                               *)
(***************************************************************************)
Places == {"idle", "check", "link", "find", "apply", "cancel", "downgrade", "record"}
Told(e) ==
  /\ e.kind = "deleted" <=> e.status = "canceled"
  /\ e.kind = "checkout" => e.status = "active"
  /\ e.kind = "paid" => e.status \in {"active", "trialing"}
  /\ e.kind = "failed" => e.status = "past_due" /\ e.tells

SentOK == sent \in Seq(Bill!Event) /\ \A i \in 1..Len(sent) : Told(sent[i])

PlaceOK(p) ==
  /\ p \in [at : Places, event : 0..Len(sent)]
  /\ p.at # "idle" => p.event \in 1..Len(sent)
  /\ p.at = "link" => sent[p.event].kind = "checkout"
  /\ p.at \in {"find", "apply"} => sent[p.event].kind \notin {"checkout", "deleted"}
  /\ p.at \in {"cancel", "downgrade"} => sent[p.event].kind = "deleted"

HandlingOK ==
  /\ handling \in [Calls -> [at : Places, event : 0..Len(sent)]]
  /\ \A h \in Calls : PlaceOK(handling[h])

RowOK == row \in Bill!Row /\ (~row.exists => row = Bill!NoRow)

RestOK ==
  /\ stripe \in [Subs -> [status : Bill!Statuses \cup {"none"}, plan : Plans \cup {"free"}]]
  /\ \A s \in Subs : stripe[s].status # "none" => stripe[s].plan \in Plans
  /\ untold \in [Subs -> SUBSET {"status", "plan"}]
  /\ recorded \subseteq 1..Len(sent) /\ turn \in 0..Len(sent)
  /\ orderly \in BOOLEAN /\ missed \in BOOLEAN /\ changed \in BOOLEAN /\ cut \in BOOLEAN

BillTypes == SentOK /\ HandlingOK /\ RowOK /\ RestOK

-----------------------------------------------------------------------------
(* The rows a tenant may begin with. *)
LEMMA Rows ==
  /\ Bill!NoRow \in Bill!Row /\ ~Bill!NoRow.exists /\ Bill!NoRow.sub = "none"
  /\ Bill!NoRow.plan = "free" /\ Bill!NoRow.status = "active"
  /\ Bill!Fresh \in Bill!Row /\ Bill!Fresh.exists /\ Bill!Fresh.sub = "none"
  /\ Bill!Fresh.plan = "free" /\ Bill!Fresh.status = "active"
BY DEF Bill!NoRow, Bill!Fresh, Bill!Row, Bill!Statuses

LEMMA FirstRow ==
  ASSUME Bill!Init
  PROVE  /\ row \in Bill!Row /\ row.sub = "none" /\ row.status \in {"active", "trialing"}
         /\ ~row.exists => row = Bill!NoRow
<1>1. CASE row \in {Bill!NoRow, Bill!Fresh} BY <1>1, Rows
<1>2. ASSUME NEW plan \in Plans, row = [Bill!Fresh EXCEPT !.status = "trialing", !.plan = plan]
      PROVE  /\ row \in Bill!Row /\ row.sub = "none" /\ row.status \in {"active", "trialing"}
             /\ ~row.exists => row = Bill!NoRow
  <2>1. PICK fresh : fresh = Bill!Fresh OBVIOUS
  <2>2. row = [fresh EXCEPT !.status = "trialing", !.plan = plan] BY <1>2, <2>1
  <2> QED BY <2>1, <2>2, Rows DEF Bill!Row, Bill!Statuses
<1>3. \/ row \in {Bill!NoRow, Bill!Fresh}
      \/ \E plan \in Plans : row = [Bill!Fresh EXCEPT !.status = "trialing", !.plan = plan]
  BY Zenon DEF Bill!Init
<1> QED BY <1>1, <1>2, <1>3

(* The types hold of a tenant without a subscription. *)
LEMMA BillInitTypes == Bill!Init => BillTypes
<1> SUFFICES ASSUME Bill!Init PROVE BillTypes OBVIOUS
<1>1. /\ sent = <<>> /\ recorded = {} /\ turn = 0 /\ orderly = TRUE /\ missed = FALSE
      /\ changed = FALSE /\ cut = FALSE
      /\ stripe = [s \in Subs |-> [status |-> "none", plan |-> "free"]]
      /\ untold = [s \in Subs |-> {}] /\ handling = [h \in Calls |-> Bill!Idle]
  BY Zenon DEF Bill!Init
<1>2. SentOK BY <1>1 DEF SentOK
<1>3. HandlingOK BY <1>1 DEF HandlingOK, PlaceOK, Bill!Idle, Places
<1>4. RowOK BY FirstRow DEF RowOK
<1>5. RestOK
  <2>1. stripe \in [Subs -> [status : Bill!Statuses \cup {"none"}, plan : Plans \cup {"free"}]]
        /\ \A s \in Subs : stripe[s].status # "none" => stripe[s].plan \in Plans
    BY <1>1
  <2>2. untold \in [Subs -> SUBSET {"status", "plan"}] BY <1>1
  <2>3. recorded \subseteq 1..Len(sent) /\ turn \in 0..Len(sent) BY <1>1
  <2>4. orderly \in BOOLEAN /\ missed \in BOOLEAN /\ changed \in BOOLEAN /\ cut \in BOOLEAN
    BY <1>1, Zenon
  <2> QED BY <2>1, <2>2, <2>3, <2>4 DEF RestOK
<1> QED BY <1>2, <1>3, <1>4, <1>5 DEF BillTypes

(* What is untold after an event: nothing, or as much as before, but for a status that an
   invoice told and with what changed in an event that does not tell. *)
Left(old, e) ==
  IF e.kind \in {"checkout", "deleted"} \/ (e.kind = "updated" /\ e.tells) THEN {}
  ELSE IF e.tells THEN old.untold \ {"status"}
  ELSE old.untold \cup (IF e.status # old.status THEN {"status"} ELSE {})
                  \cup (IF e.plan # old.plan THEN {"plan"} ELSE {})

(* What Stripe has of each subscription, with what is untold of it. *)
Account == [status : Bill!Statuses \cup {"none"}, plan : Plans \cup {"free"},
            untold : SUBSET {"status", "plan"}]
Books == [s \in Subs |-> [status |-> stripe[s].status, plan |-> stripe[s].plan,
                          untold |-> untold[s]]]

LEMMA BooksType ==
  ASSUME BillTypes
  PROVE  /\ Books \in [Subs -> Account]
         /\ \A s \in Subs : /\ Books[s].status = stripe[s].status
                            /\ Books[s].plan = stripe[s].plan /\ Books[s].untold = untold[s]
BY DEF BillTypes, RestOK, Books, Account

LEMMA UntoldIsLeft ==
  ASSUME BillTypes, NEW e \in Bill!Event
  PROVE  /\ Bill!Untold(e.sub, e) = Left(Books[e.sub], e)
         /\ Bill!Untold(e.sub, e) \in SUBSET {"status", "plan"}
<1> DEFINE s == e.sub
<1>1. s \in Subs /\ e.tells \in BOOLEAN BY DEF Bill!Event
<1>2. /\ Books[s].status = stripe[s].status /\ Books[s].plan = stripe[s].plan
      /\ Books[s].untold = untold[s]
  BY <1>1, BooksType
<1>3. untold[s] \in SUBSET {"status", "plan"} BY <1>1 DEF BillTypes, RestOK
<1> HIDE DEF s
<1>4. CASE e.kind \in {"checkout", "deleted"}
  <2>1. Bill!Untold(s, e) = {} BY <1>4 DEF Bill!Untold
  <2> QED BY <1>4, <2>1 DEF Left, s
<1>5. CASE e.kind = "updated" /\ e.tells
  <2>1. Bill!Untold(s, e) = {} BY <1>5 DEF Bill!Untold
  <2> QED BY <1>5, <2>1 DEF Left, s
<1>6. CASE e.kind \in {"paid", "failed"} /\ e.tells
  <2>1. Bill!Untold(s, e) = untold[s] \ {"status"} BY <1>6 DEF Bill!Untold
  <2> QED BY <1>2, <1>3, <1>6, <2>1 DEF Left, s
<1>7. CASE e.kind \notin {"checkout", "deleted"} /\ ~e.tells
  <2> DEFINE state == IF e.status # stripe[s].status THEN {"status"} ELSE {}
             plan == IF e.plan # stripe[s].plan THEN {"plan"} ELSE {}
  <2>1. Bill!Untold(s, e) = untold[s] \cup state \cup plan BY <1>7 DEF Bill!Untold
  <2>2. state \in SUBSET {"status", "plan"} /\ plan \in SUBSET {"status", "plan"} OBVIOUS
  <2>3. Left(Books[s], e) = untold[s] \cup state \cup plan BY <1>2, <1>7 DEF Left
  <2> HIDE DEF state, plan
  <2>4. Bill!Untold(s, e) \in SUBSET {"status", "plan"} BY <1>3, <2>1, <2>2
  <2> QED BY <2>1, <2>3, <2>4 DEF s
<1>8. e.kind \in {"checkout", "deleted", "updated", "paid", "failed"}
  BY DEF Bill!Event, Bill!Kinds
<1> QED BY <1>1, <1>4, <1>5, <1>6, <1>7, <1>8

(* An event more changes none of those that were sent. *)
LEMMA SendTypes ==
  ASSUME BillTypes, NEW e \in Bill!Event, Told(e), Bill!Send(e)
  PROVE  BillTypes'
<1>1. sent \in Seq(Bill!Event) /\ sent' = Append(sent, e) BY DEF BillTypes, SentOK, Bill!Send
<1>2. e.sub \in Subs /\ e.status \in Bill!Statuses /\ e.plan \in Plans BY DEF Bill!Event
<1>3. /\ sent' \in Seq(Bill!Event) /\ Len(sent') = Len(sent) + 1 /\ Len(sent) \in Nat
      /\ \A i \in 1..Len(sent) : sent'[i] = sent[i]
      /\ sent'[Len(sent) + 1] = e
  BY <1>1
<1>4. SentOK'
  <2> SUFFICES ASSUME NEW i \in 1..Len(sent') PROVE Told(sent'[i])
    BY <1>3 DEF SentOK, Told
  <2>1. CASE i \in 1..Len(sent) BY <1>3, <2>1 DEF BillTypes, SentOK
  <2>2. CASE i = Len(sent) + 1 BY <1>3, <2>2
  <2> QED BY <1>3, <2>1, <2>2
<1>5. HandlingOK'
  <2>1. handling' = handling BY DEF Bill!Send
  <2>2. \A h \in Calls : PlaceOK(handling[h]) BY DEF BillTypes, HandlingOK
  <2>3. \A n \in 0..Len(sent) : n \in 0..Len(sent') BY <1>3
  <2>4. handling' \in [Calls -> [at : Places, event : 0..Len(sent')]]
    <3>1. handling \in [Calls -> [at : Places, event : 0..Len(sent)]]
      BY DEF BillTypes, HandlingOK
    <3> QED BY <2>1, <2>3, <3>1
  <2>5. ASSUME NEW h \in Calls PROVE PlaceOK(handling[h])'
    <3> DEFINE p == handling[h]
    <3>1. PlaceOK(p) /\ p.event \in 0..Len(sent) BY <2>2 DEF PlaceOK
    <3>2. p' = p BY <2>1
    <3>3. p \in [at : Places, event : 0..Len(sent')] BY <2>1, <2>4
    <3>4. p.event \in 1..Len(sent) => sent'[p.event] = sent[p.event]
                                      /\ p.event \in 1..Len(sent')
      BY <1>3
    <3> HIDE DEF p
    <3>5. PlaceOK(p)' BY <3>1, <3>2, <3>3, <3>4 DEF PlaceOK
    <3> QED BY <3>5 DEF p
  <2> QED BY <2>4, <2>5 DEF HandlingOK
<1>6. RowOK' BY DEF BillTypes, RowOK, Bill!Send
<1>7. RestOK'
  <2>1. /\ stripe' = [stripe EXCEPT ![e.sub] = [status |-> e.status, plan |-> e.plan]]
        /\ untold' = [untold EXCEPT ![e.sub] = Bill!Untold(e.sub, e)]
        /\ recorded' = recorded /\ turn' = turn /\ missed' = missed
        /\ orderly' = orderly /\ changed' = changed /\ cut' = cut
    BY DEF Bill!Send
  <2>2. /\ stripe' \in [Subs -> [status : Bill!Statuses \cup {"none"}, plan : Plans \cup {"free"}]]
        /\ \A s \in Subs : stripe'[s].status # "none" => stripe'[s].plan \in Plans
    BY <1>2, <2>1 DEF BillTypes, RestOK
  <2>3. untold' \in [Subs -> SUBSET {"status", "plan"}]
    <3>1. Bill!Untold(e.sub, e) \in SUBSET {"status", "plan"} BY UntoldIsLeft
    <3> QED BY <1>2, <2>1, <3>1 DEF BillTypes, RestOK
  <2>4. recorded' \subseteq 1..Len(sent') /\ turn' \in 0..Len(sent')
    BY <1>3, <2>1 DEF BillTypes, RestOK
  <2> QED BY <2>1, <2>2, <2>3, <2>4 DEF BillTypes, RestOK
<1> QED BY <1>4, <1>5, <1>6, <1>7 DEF BillTypes

Stripe(s) ==
  \/ \E plan \in Plans : Bill!Subscribe(s, plan)
  \/ \E kind \in {"paid", "failed"}, period \in BOOLEAN : Bill!Charge(s, kind, period)
  \/ \E state \in Bill!Statuses, plan \in Plans, named \in BOOLEAN :
       Bill!Change(s, state, plan, named)
  \/ Bill!End(s)

(* Every event of Stripe is of the one live subscription, or begins the first; it tells its
   status, and an invoice leaves the plan. *)
LEMMA StripeSends ==
  ASSUME BillTypes, NEW s \in Subs, Stripe(s)
  PROVE  \E e \in Bill!Event :
           /\ Bill!Send(e) /\ Told(e) /\ e.sub = s
           /\ e.kind = "checkout" => stripe[s].status = "none" /\ \A t \in Subs : ~Bill!Live(t)
           /\ e.kind # "checkout" => Bill!Live(s)
           /\ e.kind \in {"paid", "failed"} => e.plan = stripe[s].plan
<1>1. Bill!Live(s) => stripe[s].plan \in Plans /\ stripe[s].status \in Bill!Statuses
  BY DEF Bill!Live, BillTypes, RestOK, Bill!Statuses
<1>2. ASSUME NEW plan \in Plans, Bill!Subscribe(s, plan)
      PROVE  \E e \in Bill!Event :
           /\ Bill!Send(e) /\ Told(e) /\ e.sub = s
           /\ e.kind = "checkout" => stripe[s].status = "none" /\ \A t \in Subs : ~Bill!Live(t)
           /\ e.kind # "checkout" => Bill!Live(s)
           /\ e.kind \in {"paid", "failed"} => e.plan = stripe[s].plan
  <2> DEFINE e == Bill!Says(s, "checkout", "active", plan, TRUE)
  <2>1. e \in Bill!Event /\ Told(e) /\ e.sub = s /\ e.kind = "checkout"
    BY DEF Bill!Says, Bill!Event, Told, Bill!Kinds, Bill!Statuses
  <2> HIDE DEF e
  <2>2. Bill!Send(e) /\ stripe[s].status = "none" /\ \A t \in Subs : ~Bill!Live(t)
    BY <1>2 DEF Bill!Subscribe, e
  <2> QED BY <2>1, <2>2
<1>3. ASSUME NEW kind \in {"paid", "failed", "updated", "deleted"}, NEW state \in Bill!Statuses,
             NEW plan \in Plans, NEW tells \in BOOLEAN, Bill!Live(s),
             Bill!Send(Bill!Says(s, kind, state, plan, tells)),
             kind = "deleted" <=> state = "canceled",
             kind = "paid" => state \in {"active", "trialing"},
             kind = "failed" => state = "past_due" /\ tells,
             kind \in {"paid", "failed"} => plan = stripe[s].plan
      PROVE  \E e \in Bill!Event :
           /\ Bill!Send(e) /\ Told(e) /\ e.sub = s
           /\ e.kind = "checkout" => stripe[s].status = "none" /\ \A t \in Subs : ~Bill!Live(t)
           /\ e.kind # "checkout" => Bill!Live(s)
           /\ e.kind \in {"paid", "failed"} => e.plan = stripe[s].plan
  <2> DEFINE e == Bill!Says(s, kind, state, plan, tells)
  <2>1. e \in Bill!Event BY DEF Bill!Says, Bill!Event, Bill!Kinds
  <2>2. e.kind = kind /\ e.status = state /\ e.sub = s /\ e.plan = plan /\ e.tells = tells
    BY DEF Bill!Says
  <2>3. Bill!Send(e) BY <1>3
  <2> HIDE DEF e
  <2>4. Told(e) BY <1>3, <2>2 DEF Told
  <2> QED BY <1>3, <2>1, <2>2, <2>3, <2>4
<1>4. ASSUME NEW kind \in {"paid", "failed"}, NEW period \in BOOLEAN, Bill!Charge(s, kind, period)
      PROVE  \E state \in Bill!Statuses, tells \in BOOLEAN :
               /\ Bill!Send(Bill!Says(s, kind, state, stripe[s].plan, tells))
               /\ kind = "paid" => state \in {"active", "trialing"}
               /\ kind = "failed" => state = "past_due" /\ tells
               /\ state # "canceled"
  <2> DEFINE state == IF stripe[s].status = "trialing" THEN "trialing" ELSE "active"
  <2>1. state \in {"active", "trialing"} OBVIOUS
  <2>2. \/ kind = "paid" /\ Bill!Send(Bill!Says(s, kind, state, stripe[s].plan, period))
        \/ kind = "failed" /\ Bill!Send(Bill!Says(s, kind, "past_due", stripe[s].plan, TRUE))
    BY <1>4 DEF Bill!Charge
  <2> HIDE DEF state
  <2>3. CASE kind = "paid" /\ Bill!Send(Bill!Says(s, kind, state, stripe[s].plan, period))
    <3>1. kind # "failed" /\ state \in Bill!Statuses /\ state # "canceled"
      BY <2>1, <2>3 DEF Bill!Statuses
    <3> QED BY <2>1, <2>3, <3>1
  <2>4. CASE kind = "failed" /\ Bill!Send(Bill!Says(s, kind, "past_due", stripe[s].plan, TRUE))
    <3>1. kind # "paid" /\ "past_due" \in Bill!Statuses /\ TRUE \in BOOLEAN
      BY <2>4 DEF Bill!Statuses
    <3> QED BY <2>4, <3>1
  <2> QED BY <2>2, <2>3, <2>4
<1>5. ASSUME NEW kind \in {"paid", "failed"}, NEW period \in BOOLEAN, Bill!Charge(s, kind, period)
      PROVE  \E e \in Bill!Event :
           /\ Bill!Send(e) /\ Told(e) /\ e.sub = s
           /\ e.kind = "checkout" => stripe[s].status = "none" /\ \A t \in Subs : ~Bill!Live(t)
           /\ e.kind # "checkout" => Bill!Live(s)
           /\ e.kind \in {"paid", "failed"} => e.plan = stripe[s].plan
  <2>1. PICK state \in Bill!Statuses, tells \in BOOLEAN :
               /\ Bill!Send(Bill!Says(s, kind, state, stripe[s].plan, tells))
               /\ kind = "paid" => state \in {"active", "trialing"}
               /\ kind = "failed" => state = "past_due" /\ tells
               /\ state # "canceled"
    BY <1>4, <1>5
  <2>2. Bill!Live(s) BY <1>5 DEF Bill!Charge
  <2>3. stripe[s].plan \in Plans /\ kind # "deleted" BY <1>1, <2>2
  <2>4. PICK plan \in Plans : plan = stripe[s].plan BY <2>3
  <2>5. Bill!Send(Bill!Says(s, kind, state, plan, tells)) BY <2>1, <2>4
  <2> QED BY <1>3, <2>1, <2>2, <2>3, <2>4, <2>5
<1>6. ASSUME NEW state \in Bill!Statuses, NEW plan \in Plans, NEW named \in BOOLEAN,
             Bill!Change(s, state, plan, named)
      PROVE  \E e \in Bill!Event :
           /\ Bill!Send(e) /\ Told(e) /\ e.sub = s
           /\ e.kind = "checkout" => stripe[s].status = "none" /\ \A t \in Subs : ~Bill!Live(t)
           /\ e.kind # "checkout" => Bill!Live(s)
           /\ e.kind \in {"paid", "failed"} => e.plan = stripe[s].plan
  <2>1. /\ Bill!Live(s) /\ state # "canceled"
        /\ Bill!Send(Bill!Says(s, "updated", state, plan, named))
    BY <1>6 DEF Bill!Change
  <2> QED BY <1>3, <2>1
<1>7. ASSUME Bill!End(s)
      PROVE  \E e \in Bill!Event :
           /\ Bill!Send(e) /\ Told(e) /\ e.sub = s
           /\ e.kind = "checkout" => stripe[s].status = "none" /\ \A t \in Subs : ~Bill!Live(t)
           /\ e.kind # "checkout" => Bill!Live(s)
           /\ e.kind \in {"paid", "failed"} => e.plan = stripe[s].plan
  <2>1. Bill!Live(s) /\ Bill!Send(Bill!Says(s, "deleted", "canceled", stripe[s].plan, TRUE))
    BY <1>7 DEF Bill!End
  <2>2. PICK plan \in Plans : plan = stripe[s].plan BY <1>1, <2>1
  <2>3. "canceled" \in Bill!Statuses /\ TRUE \in BOOLEAN
        /\ Bill!Send(Bill!Says(s, "deleted", "canceled", plan, TRUE))
    BY <2>1, <2>2 DEF Bill!Statuses
  <2> QED BY <1>3, <2>1, <2>3
<1> QED BY <1>2, <1>5, <1>6, <1>7 DEF Stripe

LEMMA StripeTypes ==
  ASSUME BillTypes, NEW s \in Subs, Stripe(s)
  PROVE  BillTypes'
BY StripeSends, SendTypes

(* A handler that goes on, or ends. *)
LEMMA MoveTypes ==
  ASSUME BillTypes, NEW h \in Calls, NEW p, PlaceOK(p),
         handling' = [handling EXCEPT ![h] = p], sent' = sent
  PROVE  HandlingOK'
<1>1. p \in [at : Places, event : 0..Len(sent)] BY DEF PlaceOK
<1>2. handling' \in [Calls -> [at : Places, event : 0..Len(sent')]]
  BY <1>1 DEF BillTypes, HandlingOK
<1>3. \A g \in Calls : PlaceOK(handling'[g]) BY DEF BillTypes, HandlingOK
<1>4. \A g \in Calls : PlaceOK(handling[g])'
  BY <1>3 DEF PlaceOK
<1> QED BY <1>2, <1>4 DEF HandlingOK

(* A handler that ends has no event in hand. *)
LEMMA DoneTypes ==
  ASSUME BillTypes, NEW h \in Calls, Bill!Done(h), sent' = sent
  PROVE  HandlingOK'
<1>1. PlaceOK(Bill!Idle) BY DEF BillTypes, SentOK, PlaceOK, Bill!Idle, Places
<1> QED BY <1>1, MoveTypes DEF Bill!Done

(* A handler that goes on keeps its event, and gets to statements of that event only. *)
LEMMA GotoTypes ==
  ASSUME BillTypes, NEW h \in Calls, NEW at \in Places, Bill!Goto(h, at), sent' = sent,
         handling[h].at # "idle",
         at = "link" => Bill!EventOf(h).kind = "checkout",
         at \in {"find", "apply"} => Bill!EventOf(h).kind \notin {"checkout", "deleted"},
         at \in {"cancel", "downgrade"} => Bill!EventOf(h).kind = "deleted"
  PROVE  HandlingOK'
<1> DEFINE p == [handling[h] EXCEPT !.at = at]
<1>1. /\ handling[h] \in [at : Places, event : 0..Len(sent)]
      /\ handling[h].event \in 1..Len(sent)
  BY DEF BillTypes, HandlingOK, PlaceOK
<1>2. /\ p.at = at /\ p.event = handling[h].event
      /\ p \in [at : Places, event : 0..Len(sent)]
  BY <1>1
<1>3. handling' = [handling EXCEPT ![h] = p] BY DEF Bill!Goto
<1> HIDE DEF p
<1>4. PlaceOK(p) BY <1>1, <1>2 DEF PlaceOK, Bill!EventOf
<1> QED BY <1>3, <1>4, MoveTypes

(* What the handlers leave alone stays typed. *)
LEMMA RestStays ==
  ASSUME BillTypes, sent' = sent, stripe' = stripe, untold' = untold,
         recorded' \subseteq 1..Len(sent), turn' \in 0..Len(sent), orderly' \in BOOLEAN,
         missed' \in BOOLEAN, changed' \in BOOLEAN, cut' \in BOOLEAN
  PROVE  SentOK' /\ RestOK'
BY DEF BillTypes, SentOK, RestOK, Told

(* What a handler has in hand. *)
LEMMA InHandTypes ==
  ASSUME BillTypes, NEW h \in Calls, Bill!Busy(h)
  PROVE  /\ handling[h] \in [at : Places, event : 0..Len(sent)]
         /\ handling[h].event \in 1..Len(sent)
         /\ Bill!EventOf(h) \in Bill!Event /\ Told(Bill!EventOf(h)) /\ PlaceOK(handling[h])
BY DEF BillTypes, HandlingOK, PlaceOK, SentOK, Bill!Busy, Bill!EventOf

(* The steps of a webhook keep the types. *)
LEMMA ReceiveTypes ==
  ASSUME BillTypes, NEW h \in Calls, NEW e, Bill!Receive(h, e)
  PROVE  BillTypes'
<1>1. e \in 1..Len(sent) /\ Len(sent) \in Nat BY DEF Bill!Receive, BillTypes, SentOK
<1> DEFINE p == [at |-> "check", event |-> e]
<1>2. PlaceOK(p) BY <1>1 DEF PlaceOK, Places
<1>3. handling' = [handling EXCEPT ![h] = p] /\ sent' = sent BY DEF Bill!Receive
<1> HIDE DEF p
<1>4. HandlingOK' BY <1>2, <1>3, MoveTypes
<1>5. turn' \in 0..Len(sent)
  <2>1. turn' = e \/ turn' = turn BY DEF Bill!Receive
  <2> QED BY <1>1, <2>1 DEF BillTypes, RestOK
<1>6. /\ stripe' = stripe /\ recorded' \subseteq 1..Len(sent) /\ orderly' \in BOOLEAN
      /\ untold' = untold /\ missed' \in BOOLEAN /\ changed' \in BOOLEAN
      /\ cut' \in BOOLEAN /\ row' = row
  BY DEF Bill!Receive, BillTypes, RestOK
<1>7. SentOK' /\ RestOK' BY <1>3, <1>5, <1>6, RestStays
<1>8. RowOK' BY <1>6 DEF BillTypes, RowOK
<1> QED BY <1>4, <1>7, <1>8 DEF BillTypes

LEMMA CheckTypes ==
  ASSUME BillTypes, NEW h \in Calls, Bill!Check(h) \/ Bill!Find(h)
  PROVE  BillTypes'
<1>1. Bill!Busy(h) /\ sent' = sent /\ row' = row BY DEF Bill!Busy, Bill!Check, Bill!Find
<1>2. HandlingOK'
  <2>1. CASE Bill!Done(h) BY <1>1, <2>1, DoneTypes
  <2>2. CASE Bill!Check(h) /\ ~Bill!Done(h)
    <3> DEFINE at == CASE Bill!EventOf(h).kind = "checkout" -> "link"
                       [] Bill!EventOf(h).kind = "deleted"  -> "cancel"
                       [] OTHER                      -> "find"
    <3>1. Bill!Goto(h, at) BY <2>2 DEF Bill!Check
    <3>2. /\ at \in Places
          /\ at = "link" => Bill!EventOf(h).kind = "checkout"
          /\ at \in {"find", "apply"} => Bill!EventOf(h).kind \notin {"checkout", "deleted"}
          /\ at \in {"cancel", "downgrade"} => Bill!EventOf(h).kind = "deleted"
      BY DEF Places
    <3> HIDE DEF at
    <3> QED BY <1>1, <3>1, <3>2, GotoTypes DEF Bill!Busy
  <2>3. CASE Bill!Find(h) /\ ~Bill!Done(h)
    <3>1. Bill!Goto(h, "apply") /\ handling[h].at = "find" BY <2>3 DEF Bill!Find
    <3>2. Bill!EventOf(h).kind \notin {"checkout", "deleted"}
      BY <1>1, <3>1, InHandTypes DEF PlaceOK, Bill!EventOf
    <3> QED BY <1>1, <3>1, <3>2, GotoTypes DEF Bill!Busy, Places
  <2> QED BY <2>1, <2>2, <2>3
<1>3. SentOK' /\ RestOK' BY RestStays DEF Bill!Check, Bill!Find, Bill!history, BillTypes, RestOK
<1>4. RowOK' BY <1>1 DEF BillTypes, RowOK
<1> QED BY <1>2, <1>3, <1>4 DEF BillTypes

(* The statements that write the row. *)
LEMMA SetTypes ==
  ASSUME BillTypes, NEW new \in Bill!Row, new.exists = row.exists, Bill!Set(new)
  PROVE  RowOK'
BY DEF BillTypes, RowOK, Bill!Row, Bill!NoRow, Bill!Set

(* A checkout writes the subscription of its event. *)
LEMMA LinkTypes ==
  ASSUME BillTypes, NEW h \in Calls, Bill!Link(h)
  PROVE  BillTypes'
<1>1. Bill!Busy(h) /\ sent' = sent /\ Bill!Goto(h, "record") BY DEF Bill!Busy, Bill!Link
<1>2. HandlingOK' BY <1>1, GotoTypes DEF Bill!Busy, Places
<1>3. SentOK' /\ RestOK'
  <2>1. missed' \in BOOLEAN BY Zenon DEF Bill!Link
  <2> QED BY <2>1, RestStays DEF Bill!Link, BillTypes, RestOK
<1> DEFINE new == [row EXCEPT !.sub = Bill!EventOf(h).sub, !.plan = Bill!EventOf(h).plan,
                              !.status = "active"]
<1>4. new \in Bill!Row /\ new.exists = row.exists
  BY <1>1, InHandTypes DEF BillTypes, RowOK, Bill!Row, Bill!Event, Bill!Statuses
<1>5. Bill!Set(new) BY DEF Bill!Link
<1> HIDE DEF new
<1>6. RowOK' BY <1>4, <1>5, SetTypes
<1> QED BY <1>2, <1>3, <1>6 DEF BillTypes

(* An invoice or an update writes a row that exists. *)
LEMMA ApplyTypes ==
  ASSUME BillTypes, NEW h \in Calls, Bill!Apply(h)
  PROVE  BillTypes'
<1>1. Bill!Busy(h) /\ sent' = sent /\ Bill!Goto(h, "record") BY DEF Bill!Busy, Bill!Apply
<1>2. HandlingOK' BY <1>1, GotoTypes DEF Bill!Busy, Places
<1>3. SentOK' /\ RestOK' BY RestStays DEF Bill!Apply, Bill!history, BillTypes, RestOK
<1> DEFINE e   == Bill!EventOf(h)
           state == IF e.kind = "paid" \/ (e.kind = "updated" /\ e.status = "active")
                     THEN "active" ELSE "past_due"
           bill == [row EXCEPT !.status = state]
           new == [row EXCEPT !.sub = e.sub, !.plan = e.plan, !.status = state]
<1>4. e.sub \in Subs /\ e.plan \in Plans /\ state \in Bill!Statuses
  BY <1>1, InHandTypes DEF Bill!Event, Bill!Statuses
<1>5. new \in Bill!Row /\ new.exists = row.exists /\ bill \in Bill!Row /\ bill.exists = row.exists
  <2> HIDE DEF e, state
  <2> QED BY <1>4 DEF BillTypes, RowOK, Bill!Row
<1>6. row' = row \/ Bill!Set(new) \/ (row.sub = e.sub /\ row' = bill) BY Zenon DEF Bill!Apply
<1> HIDE DEF e, state
<1>7. row.sub = e.sub => row.exists BY <1>4 DEF BillTypes, RowOK, Bill!NoRow
<1> HIDE DEF new, bill
<1>8. RowOK'
  <2>1. CASE row' = row BY <2>1 DEF BillTypes, RowOK
  <2>2. CASE Bill!Set(new) BY <1>5, <2>2, SetTypes
  <2>3. CASE row.sub = e.sub /\ row' = bill BY <1>5, <1>7, <2>3 DEF BillTypes, RowOK
  <2> QED BY <1>6, <2>1, <2>2, <2>3
<1> QED BY <1>2, <1>3, <1>8 DEF BillTypes

(* So does a deletion, which writes a row found by its subscription. *)
LEMMA CancelTypes ==
  ASSUME BillTypes, NEW h \in Calls, Bill!Cancel(h)
  PROVE  BillTypes'
<1>1. Bill!Busy(h) /\ sent' = sent /\ handling[h].at = "cancel" BY DEF Bill!Busy, Bill!Cancel
<1>2. Bill!EventOf(h).kind = "deleted" /\ Bill!EventOf(h).sub \in Subs
  BY <1>1, InHandTypes DEF PlaceOK, Bill!EventOf, Bill!Event
<1>3. HandlingOK'
  <2>1. Bill!Goto(h, "downgrade") \/ Bill!Done(h) BY DEF Bill!Cancel
  <2> QED BY <1>1, <1>2, <2>1, GotoTypes, DoneTypes DEF Bill!Busy, Places
<1>4. SentOK' /\ RestOK' BY RestStays DEF Bill!Cancel, Bill!history, BillTypes, RestOK
<1>5. RowOK'
  <2> DEFINE new == [row EXCEPT !.status = "canceled", !.sub = "none"]
  <2>1. new \in Bill!Row /\ new.exists = row.exists
    BY DEF BillTypes, RowOK, Bill!Row, Bill!Statuses
  <2>2. row.sub = Bill!EventOf(h).sub => row.exists BY <1>2 DEF BillTypes, RowOK, Bill!NoRow
  <2>3. row' = row \/ (row.sub = Bill!EventOf(h).sub /\ row' = new) BY DEF Bill!Cancel
  <2> HIDE DEF new
  <2> QED BY <2>1, <2>2, <2>3 DEF BillTypes, RowOK
<1> QED BY <1>3, <1>4, <1>5 DEF BillTypes

(* Its second statement writes by tenant, and may find no row. *)
LEMMA DowngradeTypes ==
  ASSUME BillTypes, NEW h \in Calls, Bill!Downgrade(h)
  PROVE  BillTypes'
<1>1. Bill!Busy(h) /\ sent' = sent /\ Bill!Goto(h, "record") BY DEF Bill!Busy, Bill!Downgrade
<1>2. HandlingOK' BY <1>1, GotoTypes DEF Bill!Busy, Places
<1>3. SentOK' /\ RestOK' BY RestStays DEF Bill!Downgrade, Bill!history, BillTypes, RestOK
<1>4. RowOK' BY DEF Bill!Downgrade, Bill!Set, BillTypes, RowOK, Bill!Row, Bill!NoRow
<1> QED BY <1>2, <1>3, <1>4 DEF BillTypes

(* Only events that were sent are recorded. *)
LEMMA RecordTypes ==
  ASSUME BillTypes, NEW h \in Calls, Bill!Record(h) \/ Bill!Abort(h)
  PROVE  BillTypes'
<1>1. Bill!Busy(h) /\ sent' = sent /\ Bill!Done(h) /\ row' = row
  BY DEF Bill!Busy, Bill!Record, Bill!Abort
<1>2. HandlingOK' BY <1>1, DoneTypes
<1>3. /\ recorded' \subseteq 1..Len(sent) /\ stripe' = stripe /\ turn' = turn
      /\ untold' = untold /\ missed' = missed
      /\ orderly' \in BOOLEAN /\ changed' \in BOOLEAN /\ cut' \in BOOLEAN
  BY <1>1, InHandTypes DEF Bill!Record, Bill!Abort, Bill!history, BillTypes, RestOK
<1>4. SentOK' /\ RestOK' BY <1>1, <1>3, RestStays DEF BillTypes, RestOK
<1>5. RowOK' BY <1>1 DEF BillTypes, RowOK
<1> QED BY <1>2, <1>4, <1>5 DEF BillTypes

(* The statements outside the webhook keep the types. *)
ByHand ==
  \/ Bill!Ensure \/ Bill!ExpireTrial
  \/ \E plan \in Plans \cup {"free"} : Bill!ChangePlan(plan)

LEMMA PlanTypes ==
  ASSUME BillTypes, ByHand
  PROVE  BillTypes'
<1>1. handling' = handling /\ sent' = sent
  BY DEF ByHand, Bill!Ensure, Bill!ChangePlan, Bill!ExpireTrial
<1>2. HandlingOK' BY <1>1 DEF BillTypes, HandlingOK, PlaceOK
<1>3. SentOK' /\ RestOK'
  BY RestStays
  DEF ByHand, Bill!Ensure, Bill!ChangePlan, Bill!ExpireTrial, Bill!history, BillTypes, RestOK
<1>4. RowOK'
  <2>1. CASE Bill!Ensure BY <2>1, Rows DEF Bill!Ensure, RowOK
  <2>2. ASSUME NEW plan \in Plans \cup {"free"}, Bill!ChangePlan(plan) PROVE RowOK'
    BY <2>2 DEF Bill!ChangePlan, BillTypes, RowOK, Bill!Row
  <2>3. CASE Bill!ExpireTrial
    <3>1. row.exists BY <2>3, Rows DEF Bill!ExpireTrial, BillTypes, RowOK
    <3> QED BY <2>3, <3>1 DEF Bill!ExpireTrial, BillTypes, RowOK, Bill!Row, Bill!Statuses
  <2> QED BY <2>1, <2>2, <2>3 DEF ByHand
<1> QED BY <1>2, <1>3, <1>4 DEF BillTypes

(* Every step keeps the types. *)
LEMMA BillNextTypes == BillTypes /\ [Bill!Next]_(Bill!vars) => BillTypes'
<1> SUFFICES ASSUME BillTypes, [Bill!Next]_(Bill!vars) PROVE BillTypes' OBVIOUS
<1>1. CASE UNCHANGED Bill!vars
  <2>1. /\ sent' = sent /\ handling' = handling /\ row' = row /\ stripe' = stripe
        /\ recorded' = recorded /\ UNCHANGED Bill!history
    BY <1>1 DEF Bill!vars
  <2>2. HandlingOK' BY <2>1 DEF BillTypes, HandlingOK, PlaceOK
  <2>3. SentOK' /\ RestOK' BY <2>1, RestStays DEF Bill!history, BillTypes, RestOK
  <2> QED BY <2>1, <2>2, <2>3 DEF BillTypes, RowOK
<1>2. ASSUME NEW s \in Subs, Stripe(s) PROVE BillTypes'
  BY <1>2, StripeTypes
<1>3. ASSUME NEW h \in Calls,
             \/ Bill!Handle(h) \/ Bill!Abort(h)
             \/ \E e \in 1..MaxEvents : Bill!Receive(h, e)
      PROVE  BillTypes'
  BY <1>3, CheckTypes, LinkTypes, ApplyTypes, CancelTypes, DowngradeTypes, RecordTypes,
     ReceiveTypes DEF Bill!Handle
<1> QED BY <1>1, <1>2, <1>3, PlanTypes DEF Bill!Next, Stripe, ByHand

(* The types are those of the run. *)
LEMMA BillTypesSuffice == BillTypes => Bill!TypeOK
BY DEF BillTypes, SentOK, HandlingOK, RowOK, RestOK, Bill!TypeOK, Places

-----------------------------------------------------------------------------
(* A row that is canceled and paid. *)

(* A handler that is not at the second statement of a deletion leaves the others there. *)
LEMMA DowngradeStays ==
  ASSUME BillTypes, Bill!CanceledIsFree, NEW h \in Calls, NEW p,
         handling' = [handling EXCEPT ![h] = p], handling[h].at # "downgrade",
         row' = row, changed' = changed, cut => cut'
  PROVE  Bill!CanceledIsFree'
<1> SUFFICES ASSUME row.status = "canceled", row.plan \in Plans, ~cut', ~changed'
             PROVE  \E g \in Calls : handling'[g].at = "downgrade"
  BY DEF Bill!CanceledIsFree
<1>1. PICK g \in Calls : handling[g].at = "downgrade" BY DEF Bill!CanceledIsFree
<1>2. handling'[g] = handling[g] BY <1>1 DEF BillTypes, HandlingOK
<1> QED BY <1>1, <1>2

(* A handler's step that cancels the row goes on to downgrade it, and one that does not
   downgrade it leaves a row that is not canceled. *)
LEMMA HandlerCanceled ==
  ASSUME BillTypes, Bill!CanceledIsFree, NEW h \in Calls, Bill!Handle(h) \/ Bill!Abort(h)
  PROVE  Bill!CanceledIsFree'
<1>1. CASE Bill!Check(h) \/ Bill!Find(h) \/ Bill!Record(h)
  <2>1. /\ \E p : handling' = [handling EXCEPT ![h] = p]
        /\ handling[h].at # "downgrade" /\ row' = row /\ changed' = changed /\ cut' = cut
    BY <1>1 DEF Bill!Check, Bill!Find, Bill!Record, Bill!Goto, Bill!Done, Bill!history
  <2> QED BY <2>1, DowngradeStays
<1>2. CASE Bill!Abort(h)
  <2>1. /\ handling' = [handling EXCEPT ![h] = Bill!Idle]
        /\ row' = row /\ changed' = changed /\ cut' = (cut \/ handling[h].at = "downgrade")
    BY <1>2 DEF Bill!Abort, Bill!Done
  <2>2. CASE handling[h].at = "downgrade" BY <2>1, <2>2 DEF Bill!CanceledIsFree
  <2>3. CASE handling[h].at # "downgrade" BY <2>1, <2>3, DowngradeStays
  <2> QED BY <2>2, <2>3
<1>3. CASE Bill!Link(h)
  <2>1. CASE row.exists
    <3>1. row'.status = "active"
      BY <1>3, <2>1 DEF Bill!Link, Bill!Set, BillTypes, RowOK, Bill!Row
    <3> QED BY <3>1 DEF Bill!CanceledIsFree
  <2>2. CASE ~row.exists
    <3>1. row'.status = "active"
      BY <1>3, <2>2 DEF Bill!Link, Bill!Set, BillTypes, RowOK, Bill!NoRow
    <3> QED BY <3>1 DEF Bill!CanceledIsFree
  <2> QED BY <2>1, <2>2
<1>4. CASE Bill!Apply(h)
  <2> DEFINE e == Bill!EventOf(h)
             state == IF e.kind = "paid" \/ (e.kind = "updated" /\ e.status = "active")
                       THEN "active" ELSE "past_due"
  <2>1. CASE row' = row
    <3>1. /\ handling' = [handling EXCEPT ![h] = [handling[h] EXCEPT !.at = "record"]]
          /\ handling[h].at # "downgrade" /\ changed' = changed /\ cut' = cut
      BY <1>4 DEF Bill!Apply, Bill!Goto, Bill!history
    <3> QED BY <2>1, <3>1, DowngradeStays
  <2>2. CASE row' # row
    <3>1. \/ row' = [row EXCEPT !.status = state]
          \/ row' = [row EXCEPT !.sub = e.sub, !.plan = e.plan, !.status = state]
      <4>1. \/ row' = row \/ row' = [row EXCEPT !.status = state]
            \/ row' = [row EXCEPT !.sub = e.sub, !.plan = e.plan, !.status = state]
        BY <1>4, Zenon DEF Bill!Apply, Bill!Set
      <4> QED BY <2>2, <4>1
    <3>2. row \in Bill!Row BY DEF BillTypes, RowOK
    <3>3. state # "canceled" OBVIOUS
    <3> HIDE DEF e, state
    <3>4. row'.status = state BY <3>1, <3>2 DEF Bill!Row
    <3> QED BY <3>3, <3>4 DEF Bill!CanceledIsFree
  <2> QED BY <2>1, <2>2
<1>5. CASE Bill!Cancel(h)
  <2>1. CASE Bill!Goto(h, "downgrade")
    <3>1. handling'[h].at = "downgrade" BY <2>1 DEF Bill!Goto, BillTypes, HandlingOK
    <3> QED BY <3>1 DEF Bill!CanceledIsFree
  <2>2. CASE Bill!Done(h) /\ UNCHANGED row
    <3>1. /\ handling' = [handling EXCEPT ![h] = Bill!Idle]
          /\ handling[h].at # "downgrade" /\ changed' = changed /\ cut' = cut
      BY <1>5, <2>2 DEF Bill!Cancel, Bill!Done, Bill!history
    <3> QED BY <2>2, <3>1, DowngradeStays
  <2> QED BY <1>5, <2>1, <2>2 DEF Bill!Cancel
<1>6. CASE Bill!Downgrade(h)
  <2>1. CASE row.exists
    <3>1. row'.plan = "free"
      BY <1>6, <2>1 DEF Bill!Downgrade, Bill!Set, BillTypes, RowOK, Bill!Row
    <3> QED BY <3>1 DEF Bill!CanceledIsFree
  <2>2. CASE ~row.exists
    <3>1. row'.plan = "free"
      BY <1>6, <2>2 DEF Bill!Downgrade, Bill!Set, BillTypes, RowOK, Bill!NoRow
    <3> QED BY <3>1 DEF Bill!CanceledIsFree
  <2> QED BY <2>1, <2>2
<1> QED BY <1>1, <1>2, <1>3, <1>4, <1>5, <1>6 DEF Bill!Handle

(* Every step keeps the property: it is inductive with the types. *)
LEMMA NextCanceled ==
  ASSUME BillTypes, Bill!CanceledIsFree, [Bill!Next]_(Bill!vars)
  PROVE  Bill!CanceledIsFree'
<1>1. ASSUME handling' = handling, row' = row, changed' = changed, cut' = cut
      PROVE  Bill!CanceledIsFree'
  BY <1>1 DEF Bill!CanceledIsFree
<1>2. CASE UNCHANGED Bill!vars BY <1>1, <1>2 DEF Bill!vars, Bill!history
<1>3. ASSUME NEW s \in Subs, Stripe(s) PROVE Bill!CanceledIsFree'
  BY <1>1, <1>3, StripeSends DEF Bill!Send
<1>4. ASSUME NEW h \in Calls, NEW e \in 1..MaxEvents, Bill!Receive(h, e)
      PROVE  Bill!CanceledIsFree'
  <2>1. /\ handling' = [handling EXCEPT ![h] = [at |-> "check", event |-> e]]
        /\ handling[h].at # "downgrade" /\ row' = row /\ changed' = changed /\ cut' = cut
    BY <1>4 DEF Bill!Receive, Bill!Busy
  <2> QED BY <2>1, DowngradeStays
<1>5. CASE Bill!Ensure
  <2>1. row'.plan = "free" BY <1>5, Rows DEF Bill!Ensure
  <2> QED BY <2>1 DEF Bill!CanceledIsFree
<1>6. ASSUME NEW plan \in Plans \cup {"free"}, Bill!ChangePlan(plan)
      PROVE  Bill!CanceledIsFree'
  BY <1>6 DEF Bill!ChangePlan, Bill!CanceledIsFree
<1>7. CASE Bill!ExpireTrial
  <2>1. row'.status = "past_due" BY <1>7 DEF Bill!ExpireTrial, BillTypes, RowOK, Bill!Row
  <2> QED BY <2>1 DEF Bill!CanceledIsFree
<1> QED BY <1>2, <1>3, <1>4, <1>5, <1>6, <1>7, HandlerCanceled DEF Bill!Next, Stripe

(* It holds at the start, where no row is canceled. *)
LEMMA InitCanceled == Bill!Init => Bill!CanceledIsFree
<1> SUFFICES ASSUME Bill!Init PROVE Bill!CanceledIsFree OBVIOUS
<1>1. row.status # "canceled" BY FirstRow
<1> QED BY <1>1 DEF Bill!CanceledIsFree

-----------------------------------------------------------------------------
(***************************************************************************)
(* Events in order. p is what Stripe had of each subscription after each   *)
(* event, and what of it was untold: one subscription at most is live, and *)
(* an event but for a checkout is of the one that is. While all events are *)
(* received in order, the row is what Stripe had after as many events as   *)
(* had their turn, or before the last of these if its handler has not yet  *)
(* written; or the checkout found no row, and no event of its subscription *)
(* will find one.                                                          *)
(***************************************************************************)
Alive(now, s) == now[s].status \in {"trialing", "active", "past_due"}

Changes(old, e, new) ==
  /\ new = [old EXCEPT ![e.sub] = [status |-> e.status, plan |-> e.plan,
                                   untold |-> Left(old[e.sub], e)]]
  /\ e.kind = "checkout" => old[e.sub].status = "none" /\ \A s \in Subs : ~Alive(old, s)
  /\ e.kind # "checkout" => Alive(old, e.sub)
  /\ e.kind \in {"paid", "failed"} => e.plan = old[e.sub].plan

Past(p) ==
  /\ p \in [0..Len(sent) -> [Subs -> Account]]
  /\ \A s \in Subs : ~Alive(p[0], s)
  /\ \A i \in 1..Len(sent) : Changes(p[i - 1], sent[i], p[i])
  /\ \A i \in 0..Len(sent) : \A s, t \in Subs : Alive(p[i], s) /\ Alive(p[i], t) => s = t
  /\ p[Len(sent)] = Books

Same(account) ==
  /\ "status" \in account.untold \/ row.status \in Bill!Shown(account.status)
  /\ "plan" \in account.untold \/ changed \/ row.plan = account.plan

Agree(now) ==
  /\ \A s \in Subs : /\ Alive(now, s) /\ ~missed => row.sub = s /\ Same(now[s])
                     /\ row.sub = s => Alive(now, s)
  /\ missed => row.sub = "none"

\* An event of a subscription that the row does not have and will not get again.
Strange(i, now) ==
  /\ sent[i].kind # "checkout" /\ now[sent[i].sub].status # "none"
  /\ row.sub # sent[i].sub

\* The first n events are on record or strange.
Dealt(n, now) == \A i \in 1..n : i \in recorded \/ Strange(i, now)

Handled(p) == Dealt(turn, p[turn]) /\ Agree(p[turn])

\* A handler has an event that was handled before, or that has its turn.
Again(h, p) ==
  /\ Handled(p) /\ handling[h].at \in {"check", "find", "cancel"}
  /\ handling[h].event \in recorded => handling[h].at = "check"

HisTurn(h, p) ==
  /\ handling[h].event = turn /\ turn \notin recorded
  /\ Dealt(turn - 1, p[turn - 1])
  /\ Agree(p[IF handling[h].at \in {"downgrade", "record"} THEN turn ELSE turn - 1])
  /\ handling[h].at = "apply" => row.sub = sent[turn].sub

HandOK(h, p) == handling[h].event \in 1..turn /\ (Again(h, p) \/ HisTurn(h, p))

Follows(p) ==
  /\ \A g, h \in Calls : Bill!Busy(g) /\ Bill!Busy(h) => g = h
  /\ recorded \subseteq 1..turn
  /\ (\A h \in Calls : ~Bill!Busy(h)) => Handled(p)
  /\ \A h \in Calls : Bill!Busy(h) => HandOK(h, p)

SyncInv == BillTypes /\ \E p : Past(p) /\ (orderly => Follows(p))

(* The number of events sent, and which of them have had their turn. *)
LEMMA Turns ==
  ASSUME BillTypes
  PROVE  Len(sent) \in Nat /\ turn \in 0..Len(sent)
BY DEF BillTypes, SentOK, RestOK

(* The past is about what Stripe sent, and nothing else. *)
LEMMA PastStays ==
  ASSUME NEW p, Past(p), sent' = sent, stripe' = stripe, untold' = untold
  PROVE  Past(p)'
BY DEF Past, Alive, Changes, Left, Books

(* An event more is one step more of the past. *)
LEMMA PastGrows ==
  ASSUME BillTypes, NEW p, Past(p), NEW e \in Bill!Event, Bill!Send(e),
         e.kind = "checkout" => stripe[e.sub].status = "none" /\ \A t \in Subs : ~Bill!Live(t),
         e.kind # "checkout" => Bill!Live(e.sub),
         e.kind \in {"paid", "failed"} => e.plan = stripe[e.sub].plan
  PROVE  \E q : /\ Past(q)' /\ \A i \in 0..Len(sent) : q[i] = p[i]
<1> DEFINE n == Len(sent)
           old == Books
           now == [old EXCEPT ![e.sub] = [status |-> e.status, plan |-> e.plan,
                                          untold |-> Left(old[e.sub], e)]]
<1>1. /\ n \in Nat /\ Len(sent') = n + 1 /\ sent'[n + 1] = e
      /\ \A i \in 1..n : sent'[i] = sent[i]
  <2>1. sent \in Seq(Bill!Event) BY DEF BillTypes, SentOK
  <2>2. sent' = Append(sent, e) BY DEF Bill!Send
  <2> QED BY <2>1, <2>2
<1>2. e.sub \in Subs /\ e.status \in Bill!Statuses /\ e.plan \in Plans BY DEF Bill!Event
<1>3. /\ old \in [Subs -> Account]
      /\ \A s \in Subs : /\ old[s].status = stripe[s].status
                         /\ old[s].plan = stripe[s].plan /\ old[s].untold = untold[s]
  BY BooksType
<1>4. Books' = now
  <2>1. /\ stripe' = [stripe EXCEPT ![e.sub] = [status |-> e.status, plan |-> e.plan]]
        /\ untold' = [untold EXCEPT ![e.sub] = Bill!Untold(e.sub, e)]
    BY DEF Bill!Send
  <2>2. Bill!Untold(e.sub, e) = Left(old[e.sub], e) BY UntoldIsLeft
  <2>3. PICK left : left = Left(old[e.sub], e) OBVIOUS
  <2>4. /\ stripe'[e.sub].status = e.status /\ stripe'[e.sub].plan = e.plan
        /\ untold'[e.sub] = left
        /\ \A s \in Subs : s # e.sub => stripe'[s] = stripe[s] /\ untold'[s] = untold[s]
    BY <1>2, <2>1, <2>2, <2>3 DEF BillTypes, RestOK
  <2>5. Books' = [s \in Subs |-> [status |-> stripe'[s].status, plan |-> stripe'[s].plan,
                                  untold |-> untold'[s]]]
    BY DEF Books
  <2>6. now = [old EXCEPT ![e.sub] = [status |-> e.status, plan |-> e.plan, untold |-> left]]
    BY <2>3
  <2>7. old = [s \in Subs |-> [status |-> stripe[s].status, plan |-> stripe[s].plan,
                               untold |-> untold[s]]]
    BY DEF Books
  <2> HIDE DEF old, now
  <2> QED BY <1>2, <2>4, <2>5, <2>6, <2>7
<1>5. now \in [Subs -> Account]
  <2>1. Bill!Untold(e.sub, e) = Left(old[e.sub], e)
        /\ Bill!Untold(e.sub, e) \in SUBSET {"status", "plan"}
    BY UntoldIsLeft
  <2>2. PICK left \in SUBSET {"status", "plan"} : left = Left(old[e.sub], e) BY <2>1
  <2>3. [status |-> e.status, plan |-> e.plan, untold |-> left] \in Account
    BY <1>2, <2>2 DEF Account
  <2> HIDE DEF old
  <2> QED BY <1>3, <2>2, <2>3
<1>6. Changes(old, e, now)
  <2>1. \A s \in Subs : Alive(old, s) <=> Bill!Live(s) BY <1>3 DEF Alive, Bill!Live
  <2> HIDE DEF old
  <2> QED BY <1>2, <1>3, <2>1 DEF Changes
<1>7. /\ p \in [0..n -> [Subs -> Account]] /\ p[n] = old
      /\ \A i \in 1..n : Changes(p[i - 1], sent[i], p[i])
      /\ \A i \in 0..n : \A t, u \in Subs : Alive(p[i], t) /\ Alive(p[i], u) => t = u
      /\ \A t \in Subs : ~Alive(p[0], t)
  BY DEF Past
<1>8. \A t, u \in Subs : Alive(now, t) /\ Alive(now, u) => t = u
  <2>1. \A t \in Subs : t # e.sub => now[t] = old[t] BY <1>2, <1>3
  <2>2. \A t, u \in Subs : Alive(old, t) /\ Alive(old, u) => t = u
    BY <1>1, <1>7
  <2>3. (\A t \in Subs : ~Alive(old, t)) \/ Alive(old, e.sub)
    BY <1>6 DEF Changes
  <2> HIDE DEF old, now
  <2> QED BY <1>2, <2>1, <2>2, <2>3 DEF Alive
<1> HIDE DEF old, now
<1>9. PICK q : q = [i \in 0..(n + 1) |-> IF i = n + 1 THEN now ELSE p[i]] OBVIOUS
<1>10. /\ q \in [0..Len(sent') -> [Subs -> Account]]
       /\ \A i \in 0..n : q[i] = p[i]
       /\ q[n + 1] = now
  BY <1>1, <1>5, <1>7, <1>9
<1> HIDE DEF n
<1>11. ASSUME NEW i \in 1..Len(sent') PROVE Changes(q[i - 1], sent'[i], q[i])
  <2>1. CASE i = n + 1
    <3>1. q[i - 1] = old BY <1>1, <1>7, <1>10, <2>1
    <3> QED BY <1>1, <1>6, <1>10, <2>1, <3>1
  <2>2. CASE i # n + 1
    <3>1. i \in 1..n /\ i - 1 \in 0..n /\ i \in 0..n BY <1>1, <2>2
    <3> QED BY <1>1, <1>7, <1>10, <3>1
  <2> QED BY <2>1, <2>2
<1>12. ASSUME NEW i \in 0..Len(sent'), NEW t \in Subs, NEW u \in Subs,
             Alive(q[i], t), Alive(q[i], u)
      PROVE  t = u
  <2>1. CASE i = n + 1 BY <1>8, <1>10, <1>12, <2>1
  <2>2. CASE i # n + 1
    <3>1. i \in 0..n BY <1>1, <2>2
    <3> QED BY <1>7, <1>10, <1>12, <3>1
  <2> QED BY <2>1, <2>2
<1>13. (\A t \in Subs : ~Alive(q[0], t)) /\ q[Len(sent')] = Books'
  BY <1>1, <1>4, <1>7, <1>10
<1>14. Past(q)'
  BY <1>10, <1>11, <1>12, <1>13 DEF Past, Changes, Alive, Left, Account
<1> QED BY <1>10, <1>14 DEF n

(* An event that is sent changes nothing of those that had their turn. *)
LEMMA StripeSync ==
  ASSUME BillTypes, NEW p, Past(p), orderly => Follows(p), NEW s \in Subs, Stripe(s)
  PROVE  \E q : Past(q)' /\ (orderly' => Follows(q)')
<1>1. PICK e \in Bill!Event :
        /\ Bill!Send(e) /\ Told(e) /\ e.sub = s
        /\ e.kind = "checkout" => stripe[s].status = "none" /\ \A t \in Subs : ~Bill!Live(t)
        /\ e.kind # "checkout" => Bill!Live(s)
        /\ e.kind \in {"paid", "failed"} => e.plan = stripe[s].plan
  BY StripeSends
<1>2. PICK q : Past(q)' /\ \A i \in 0..Len(sent) : q[i] = p[i]
  BY <1>1, PastGrows
<1>3. /\ row' = row /\ recorded' = recorded /\ handling' = handling /\ turn' = turn
      /\ orderly' = orderly /\ missed' = missed /\ changed' = changed
  BY <1>1 DEF Bill!Send
<1>4. \A i \in 1..Len(sent) : sent'[i] = sent[i]
  BY <1>1 DEF Bill!Send, BillTypes, SentOK
<1>5. ASSUME NEW k \in 0..Len(sent)
      PROVE  /\ Agree(p[k]) => Agree(q[k])'
             /\ \A n \in 0..Len(sent) : Dealt(n, p[k]) => Dealt(n, q[k])'
  <2>1. PICK now : now = p[k] /\ now = q[k] BY <1>2
  <2>2. Agree(now) => Agree(now)' BY <1>3 DEF Agree, Alive, Same
  <2>3. ASSUME NEW n \in 0..Len(sent), Dealt(n, now) PROVE Dealt(n, now)'
    <3>1. \A i \in 1..n : i \in 1..Len(sent) BY Turns
    <3> QED BY <1>3, <1>4, <2>3, <3>1 DEF Dealt, Strange
  <2> QED BY <2>1, <2>2, <2>3
<1>6. ASSUME orderly, Follows(p) PROVE Follows(q)'
  <2>1. \A g \in Calls : Bill!Busy(g)' <=> Bill!Busy(g) BY <1>3 DEF Bill!Busy
  <2>2. Handled(p) => Handled(q)'
    <3>1. turn \in 0..Len(sent) BY Turns
    <3>2. PICK k \in 0..Len(sent) : k = turn BY <3>1
    <3>3. turn' = k BY <1>3, <3>2
    <3>4. Agree(p[k]) => Agree(q[k])' BY <1>5
    <3>5. Dealt(k, p[k]) => Dealt(k, q[k])' BY <1>5
    <3>6. Handled(p) => Dealt(k, p[k]) /\ Agree(p[k]) BY <3>2 DEF Handled
    <3>7. Dealt(k, q[k])' /\ Agree(q[k])' => Handled(q)' BY <3>3 DEF Handled
    <3> QED BY <3>4, <3>5, <3>6, <3>7
  <2>3. ASSUME NEW h \in Calls, HandOK(h, p) PROVE HandOK(h, q)'
    <3>1. turn \in 0..Len(sent) /\ Len(sent) \in Nat /\ turn >= 1
      BY <2>3, Turns DEF HandOK
    <3>2. PICK k \in 0..Len(sent), m \in 0..Len(sent) :
            /\ k = IF handling[h].at \in {"downgrade", "record"} THEN turn ELSE turn - 1
            /\ m = turn - 1
      BY <3>1
    <3>3. (Agree(p[k]) => Agree(q[k])') /\ (Dealt(m, p[m]) => Dealt(m, q[m])')
      BY <1>5
    <3>4. sent'[turn] = sent[turn] BY <1>4, <3>1
    <3> QED BY <1>3, <2>2, <2>3, <3>2, <3>3, <3>4 DEF HandOK, Again, HisTurn
  <2> QED BY <1>3, <1>6, <2>1, <2>2, <2>3 DEF Follows
<1> QED BY <1>2, <1>3, <1>6

-----------------------------------------------------------------------------
(* The webhooks that are received in order. *)

(* What one event changes of a subscription. *)
LEMMA Changed ==
  ASSUME NEW old \in [Subs -> Account], NEW e \in Bill!Event, NEW new, Changes(old, e, new)
  PROVE  /\ new[e.sub] = [status |-> e.status, plan |-> e.plan,
                          untold |-> Left(old[e.sub], e)]
         /\ new[e.sub].status = e.status
         /\ \A s \in Subs \ {e.sub} : new[s] = old[s]
         /\ \A s \in Subs : old[s].status # "none" => new[s].status # "none"
<1>1. /\ new[e.sub] = [status |-> e.status, plan |-> e.plan,
                          untold |-> Left(old[e.sub], e)]
      /\ \A s \in Subs \ {e.sub} : new[s] = old[s]
  BY DEF Changes, Bill!Event
<1>2. new[e.sub].status = e.status BY <1>1
<1>3. e.status # "none" BY DEF Bill!Event, Bill!Statuses
<1> QED BY <1>1, <1>2, <1>3

(* The handler of the event in turn is alone. *)
LEMMA AtWork ==
  ASSUME BillTypes, NEW p, Past(p), Follows(p), NEW h \in Calls, Bill!Busy(h), HisTurn(h, p)
  PROVE  /\ turn \in 1..Len(sent) /\ handling[h].event = turn /\ Bill!EventOf(h) = sent[turn]
         /\ sent[turn] \in Bill!Event
         /\ p[turn - 1] \in [Subs -> Account] /\ p[turn] \in [Subs -> Account]
         /\ Changes(p[turn - 1], sent[turn], p[turn])
         /\ \A s, t \in Subs : Alive(p[turn - 1], s) /\ Alive(p[turn - 1], t) => s = t
         /\ \A g \in Calls \ {h} : ~Bill!Busy(g)
<1>1. turn \in 0..Len(sent) /\ Len(sent) \in Nat /\ handling[h].event \in 1..turn
  BY Turns DEF Follows, HandOK
<1>2. handling[h].event = turn /\ turn \in 1..Len(sent) /\ turn - 1 \in 0..Len(sent)
  BY <1>1 DEF HisTurn
<1>3. Bill!EventOf(h) = sent[turn] BY <1>2 DEF Bill!EventOf
<1>4. \A g \in Calls \ {h} : ~Bill!Busy(g) BY DEF Follows
<1>5. sent[turn] \in Bill!Event BY <1>2 DEF BillTypes, SentOK
<1> QED BY <1>1, <1>2, <1>3, <1>4, <1>5 DEF Past

(* Its event changes its subscription, and no other. *)
LEMMA TurnChanges ==
  ASSUME BillTypes, NEW p, Past(p), Follows(p), NEW h \in Calls, Bill!Busy(h), HisTurn(h, p)
  PROVE  /\ p[turn][sent[turn].sub].status = sent[turn].status
         /\ \A s \in Subs \ {sent[turn].sub} : p[turn][s] = p[turn - 1][s]
         /\ \A s \in Subs :
              p[turn - 1][s].status # "none" => p[turn][s].status # "none"
<1>1. PICK old \in [Subs -> Account], e \in Bill!Event, new \in [Subs -> Account] :
        old = p[turn - 1] /\ e = sent[turn] /\ new = p[turn] /\ Changes(old, e, new)
  BY AtWork
<1>2. new[e.sub] = [status |-> e.status, plan |-> e.plan, untold |-> Left(old[e.sub], e)]
  BY <1>1, Changed
<1>3. \A s \in Subs \ {e.sub} : new[s] = old[s] BY <1>1 DEF Changes
<1>4. e.status # "none" BY DEF Bill!Event, Bill!Statuses
<1> QED BY <1>1, <1>2, <1>3, <1>4

(* The other handlers stay idle, and one that goes on keeps its event. *)
LEMMA Moved ==
  ASSUME BillTypes, NEW p, Follows(p), NEW h \in Calls, Bill!Busy(h)
  PROVE  /\ Bill!Done(h) => \A g \in Calls : ~Bill!Busy(g)'
         /\ \A at \in Places \ {"idle"} : Bill!Goto(h, at) =>
              /\ handling'[h].at = at /\ handling'[h].event = handling[h].event
              /\ \A g \in Calls \ {h} : ~Bill!Busy(g)'
<1>1. \A g \in Calls \ {h} : ~Bill!Busy(g) BY DEF Follows
<1>2. handling \in [Calls -> [at : Places, event : 0..Len(sent)]]
  BY DEF BillTypes, HandlingOK
<1> QED BY <1>1, <1>2 DEF Bill!Done, Bill!Goto, Bill!Busy, Bill!Idle

(* A handler ends, and all events that had their turn are dealt with. *)
LEMMA Ends ==
  ASSUME BillTypes, NEW p, Follows(p), NEW h \in Calls, Bill!Busy(h), Bill!Done(h),
         turn' = turn, recorded' \subseteq 1..turn, Handled(p)'
  PROVE  Follows(p)'
BY Moved DEF Follows

(* What was dealt with stays so while the row gets no other subscription. *)
LEMMA DealtStays ==
  ASSUME BillTypes, NEW n \in 0..Len(sent), NEW now, Dealt(n, now), sent' = sent,
         recorded \subseteq recorded', row'.sub \in {row.sub, "none"}
  PROVE  Dealt(n, now)'
<1>1. ASSUME NEW i \in 1..n PROVE sent[i].sub # "none"
  <2>1. i \in 1..Len(sent) BY Turns
  <2>2. sent[i] \in Bill!Event BY <2>1 DEF BillTypes, SentOK
  <2> QED BY <2>2 DEF Bill!Event
<1> QED BY <1>1 DEF Dealt, Strange

LEMMA HandledStays ==
  ASSUME BillTypes, NEW p, Handled(p), sent' = sent, recorded' = recorded, row' = row,
         turn' = turn, missed' = missed, changed' = changed
  PROVE  Handled(p)'
BY DEF Handled, Dealt, Strange, Agree, Alive, Same

(* After one event more it still is, with that event. *)
LEMMA DealtGrows ==
  ASSUME BillTypes, NEW p, Past(p), Follows(p), NEW h \in Calls, Bill!Busy(h), HisTurn(h, p),
         Dealt(turn - 1, p[turn - 1])', turn' = turn, sent' = sent,
         turn \in recorded' \/ Strange(turn, p[turn])'
  PROVE  Dealt(turn, p[turn])'
<1>1. /\ turn \in 1..Len(sent) /\ p[turn - 1] \in [Subs -> Account] /\ Len(sent) \in Nat
      /\ Changes(p[turn - 1], sent[turn], p[turn]) /\ sent[turn] \in Bill!Event
  BY AtWork, Turns
<1>2. \A s \in Subs : p[turn - 1][s].status # "none" => p[turn][s].status # "none"
  BY TurnChanges
<1>3. ASSUME NEW i \in 1..(turn - 1) PROVE i \in recorded' \/ Strange(i, p[turn])'
  <2>1. sent[i].sub \in Subs
    <3>1. i \in 1..Len(sent) BY <1>1
    <3>2. sent[i] \in Bill!Event BY <3>1 DEF BillTypes, SentOK
    <3> QED BY <3>2 DEF Bill!Event
  <2>2. i \in recorded' \/ Strange(i, p[turn - 1])' BY DEF Dealt
  <2> QED BY <1>2, <2>1, <2>2 DEF Strange
<1>4. \A i \in 1..turn : i \in 1..(turn - 1) \/ i = turn BY <1>1
<1> QED BY <1>3, <1>4 DEF Dealt

(* The handler in turn goes on, with the row as it should be at its next statement. *)
LEMMA GoesOn ==
  ASSUME BillTypes, NEW p, Past(p), Follows(p), NEW h \in Calls, Bill!Busy(h),
         HisTurn(h, p), NEW at \in Places \ {"idle"}, Bill!Goto(h, at), sent' = sent,
         recorded' = recorded, turn' = turn,
         Dealt(turn - 1, p[turn - 1])',
         Agree(p[IF at \in {"downgrade", "record"} THEN turn ELSE turn - 1])',
         at = "apply" => row'.sub = sent[turn].sub
  PROVE  Follows(p)'
<1>1. turn \in 1..Len(sent) /\ handling[h].event = turn BY AtWork
<1>2. /\ handling'[h].at = at /\ handling'[h].event = turn
      /\ \A g \in Calls \ {h} : ~Bill!Busy(g)'
  BY <1>1, Moved
<1>3. Bill!Busy(h)' BY <1>2 DEF Bill!Busy
<1>4. recorded' \subseteq 1..turn' BY DEF Follows
<1>5. HisTurn(h, p)' BY <1>2 DEF HisTurn
<1>6. HandOK(h, p)'
  <2>1. handling'[h].event \in 1..turn' BY <1>1, <1>2, Turns
  <2> QED BY <1>5, <2>1 DEF HandOK
<1> QED BY <1>2, <1>3, <1>4, <1>6 DEF Follows

(* A handler that sees a handled event again goes on as it was, and changes nothing. *)
LEMMA GoesOnAgain ==
  ASSUME BillTypes, NEW p, Follows(p), NEW h \in Calls, Bill!Busy(h), Again(h, p),
         handling[h].event \notin recorded,
         NEW at \in {"find", "cancel"}, Bill!Goto(h, at), sent' = sent, row' = row,
         recorded' = recorded, turn' = turn, missed' = missed, changed' = changed
  PROVE  Follows(p)'
<1>1. /\ handling'[h].at = at /\ handling'[h].event = handling[h].event
      /\ \A g \in Calls \ {h} : ~Bill!Busy(g)'
  <2>1. at \in Places \ {"idle"} BY DEF Places
  <2> QED BY <2>1, Moved
<1>2. Bill!Busy(h)' BY <1>1 DEF Bill!Busy
<1>3. handling[h].event \in 1..turn /\ recorded \subseteq 1..turn BY DEF Follows, HandOK
<1>4. Handled(p)' BY HandledStays DEF Again
<1>5. HandOK(h, p)' BY <1>1, <1>3, <1>4 DEF HandOK, Again
<1> QED BY <1>1, <1>2, <1>3, <1>5 DEF Follows

LEMMA EndsAgain ==
  ASSUME BillTypes, NEW p, Follows(p), NEW h \in Calls, Bill!Busy(h), Again(h, p),
         Bill!Done(h), sent' = sent, row' = row,
         recorded' = recorded, turn' = turn, missed' = missed, changed' = changed
  PROVE  Follows(p)'
<1>1. Handled(p)' BY HandledStays DEF Again
<1>2. recorded' \subseteq 1..turn BY DEF Follows
<1> QED BY <1>1, <1>2, Ends

(* The event that such a handler has is strange to the row. *)
LEMMA StrangeAgain ==
  ASSUME BillTypes, NEW p, Follows(p), NEW h \in Calls, Bill!Busy(h), Again(h, p),
         handling[h].event \notin recorded
  PROVE  Bill!EventOf(h).kind # "checkout" /\ row.sub # Bill!EventOf(h).sub
BY DEF Follows, HandOK, Again, Handled, Dealt, Strange, Bill!EventOf

(* An event in turn that finds no row is of a subscription whose checkout found none. *)
LEMMA NotFound ==
  ASSUME BillTypes, NEW p, Past(p), Follows(p), NEW h \in Calls, Bill!Busy(h),
         HisTurn(h, p), handling[h].at \in {"find", "cancel"}, Bill!Done(h), sent' = sent,
         row.sub # sent[turn].sub, row' = row, recorded' = recorded, turn' = turn,
         missed' = missed, changed' = changed
  PROVE  Follows(p)'
<1> DEFINE e == sent[turn]
<1>1. /\ turn \in 1..Len(sent) /\ Bill!EventOf(h) = e /\ e \in Bill!Event
      /\ p[turn - 1] \in [Subs -> Account] /\ Changes(p[turn - 1], e, p[turn])
  BY AtWork
<1>2. e.kind # "checkout" /\ e.sub \in Subs /\ e.status # "none"
  BY <1>1, InHandTypes DEF PlaceOK, Bill!EventOf, Bill!Event, Bill!Statuses
<1>3. Agree(p[turn - 1]) BY DEF HisTurn
<1> HIDE DEF e
<1>4. missed /\ row.sub = "none" BY <1>1, <1>2, <1>3 DEF Agree, Changes, e
<1>5. Agree(p[turn])'
  <2>1. \A s \in Subs : s # "none" OBVIOUS
  <2> QED BY <1>4, <2>1 DEF Agree
<1>6. Strange(turn, p[turn])'
  <2>1. p[turn][e.sub].status = e.status BY TurnChanges DEF e
  <2> QED BY <1>2, <2>1 DEF Strange, e
<1>7. Dealt(turn - 1, p[turn - 1])' BY DEF HisTurn, Dealt, Strange
<1>8. Handled(p)'
  <2>1. Dealt(turn, p[turn])' BY <1>6, <1>7, DealtGrows
  <2> QED BY <1>5, <2>1 DEF Handled
<1>9. recorded' \subseteq 1..turn BY DEF Follows
<1> QED BY <1>8, <1>9, Ends

(* The event next in turn finds the row as Stripe had it before that event, and one
   delivered again finds that it was dealt with. *)
LEMMA ReceiveSync ==
  ASSUME BillTypes, NEW p, Past(p), orderly => Follows(p), NEW h \in Calls, NEW e,
         Bill!Receive(h, e), orderly'
  PROVE  Follows(p)'
<1>1. /\ Follows(p) /\ \A g \in Calls : ~Bill!Busy(g)
      /\ e \in 1..Len(sent) /\ e <= turn + 1
      /\ turn' = IF e = turn + 1 THEN e ELSE turn
      /\ handling' = [handling EXCEPT ![h] = [at |-> "check", event |-> e]]
      /\ row' = row /\ recorded' = recorded /\ sent' = sent /\ changed' = changed
      /\ missed' = missed
  BY DEF Bill!Receive
<1>2. recorded \subseteq 1..turn /\ Handled(p)
  BY <1>1 DEF Follows
<1>3. /\ \A g \in Calls \ {h} : handling'[g] = handling[g]
      /\ handling'[h].at = "check" /\ handling'[h].event = e
  BY <1>1 DEF BillTypes, HandlingOK
<1>4. Bill!Busy(h)' /\ \A g \in Calls \ {h} : ~Bill!Busy(g)'
  BY <1>1, <1>3 DEF Bill!Busy
<1>5. turn \in Nat /\ e \in Nat /\ Len(sent) \in Nat BY <1>1, Turns
<1>6. CASE e = turn + 1
  <2>1. turn' = turn + 1 /\ turn' - 1 = turn BY <1>1, <1>5, <1>6
  <2>2. PICK now : now = p[turn] OBVIOUS
  <2>3. (p[turn - 1])' = now BY <2>1, <2>2
  <2>4. Agree(now)' BY <1>1, <1>2, <2>2 DEF Handled, Agree, Alive, Same
  <2>5. Dealt(turn, now)
    BY <1>2, <2>2 DEF Handled
  <2>6. Dealt(turn - 1, now)' BY <1>1, <2>1, <2>5 DEF Dealt, Strange
  <2>7. e = turn' /\ turn' \notin recorded' /\ recorded' \subseteq 1..turn' /\ e \in 1..turn'
    BY <1>1, <1>2, <1>5, <1>6, <2>1
  <2>8. Agree(p[turn - 1])' /\ Dealt(turn - 1, p[turn - 1])' BY <2>3, <2>4, <2>6
  <2>9. HisTurn(h, p)' BY <1>3, <2>7, <2>8 DEF HisTurn
  <2> QED BY <1>3, <1>4, <2>7, <2>9 DEF Follows, HandOK
<1>7. CASE e # turn + 1
  <2>1. turn' = turn BY <1>1, <1>7
  <2>2. e \in 1..turn' /\ recorded' \subseteq 1..turn'
    BY <1>1, <1>2, <1>5, <1>7, <2>1
  <2>3. Handled(p)' BY <1>1, <1>2, <2>1, HandledStays
  <2>4. HandOK(h, p)' BY <1>3, <2>2, <2>3 DEF HandOK, Again
  <2> QED BY <1>4, <2>2, <2>4 DEF Follows
<1> QED BY <1>6, <1>7

(* An event on record is done with; any other goes to its first statement. *)
LEMMA CheckSync ==
  ASSUME BillTypes, NEW p, Past(p), Follows(p), NEW h \in Calls, Bill!Check(h)
  PROVE  Follows(p)'
<1>1. /\ Bill!Busy(h) /\ handling[h].at = "check"
      /\ row' = row /\ recorded' = recorded /\ turn' = turn /\ sent' = sent
      /\ missed' = missed /\ changed' = changed
  BY DEF Bill!Check, Bill!Busy, Bill!history
<1>2. HandOK(h, p) BY <1>1 DEF Follows
<1>3. CASE handling[h].event \in recorded
  <2>1. Bill!Done(h) BY <1>3 DEF Bill!Check
  <2>2. Again(h, p) BY <1>2, <1>3 DEF HandOK, HisTurn
  <2> QED BY <1>1, <2>1, <2>2, EndsAgain
<1>4. CASE handling[h].event \notin recorded
  <2>1. \/ Bill!Goto(h, "link") /\ Bill!EventOf(h).kind = "checkout"
        \/ Bill!Goto(h, "cancel") \/ Bill!Goto(h, "find")
    BY <1>4 DEF Bill!Check
  <2>2. CASE Again(h, p)
    <3>1. Bill!EventOf(h).kind # "checkout" BY <1>1, <1>4, <2>2, StrangeAgain
    <3>2. PICK at \in {"cancel", "find"} : Bill!Goto(h, at) BY <2>1, <3>1
    <3> QED BY <1>1, <1>4, <2>2, <3>2, GoesOnAgain
  <2>3. CASE HisTurn(h, p)
    <3>1. PICK at \in {"link", "cancel", "find"} : Bill!Goto(h, at) BY <2>1
    <3>2. PICK now : now = p[turn - 1] OBVIOUS
    <3>3. Agree(now) /\ Dealt(turn - 1, now) BY <1>1, <2>3, <3>2 DEF HisTurn
    <3>4. Agree(now)' BY <1>1, <3>3 DEF Agree, Alive, Same
    <3>5. Dealt(turn - 1, now)' BY <1>1, <3>3 DEF Dealt, Strange
    <3>6. /\ at \in Places \ {"idle"} /\ at # "apply" /\ Dealt(turn - 1, p[turn - 1])'
          /\ Agree(p[IF at \in {"downgrade", "record"} THEN turn ELSE turn - 1])'
      BY <1>1, <3>2, <3>4, <3>5 DEF Places
    <3> QED BY <1>1, <2>3, <3>1, <3>6, GoesOn
  <2> QED BY <1>2, <2>2, <2>3 DEF HandOK
<1> QED BY <1>3, <1>4

(* The statements of a handler in turn find the row of the one live subscription, unless
   its checkout found no row. *)
LEMMA FindSync ==
  ASSUME BillTypes, NEW p, Past(p), Follows(p), NEW h \in Calls, Bill!Find(h)
  PROVE  Follows(p)'
<1>1. /\ Bill!Busy(h) /\ handling[h].at = "find"
      /\ row' = row /\ recorded' = recorded /\ turn' = turn /\ sent' = sent
      /\ missed' = missed /\ changed' = changed
  BY DEF Bill!Find, Bill!Busy, Bill!history
<1>2. HandOK(h, p) BY <1>1 DEF Follows
<1>3. IF row.sub = Bill!EventOf(h).sub THEN Bill!Goto(h, "apply") ELSE Bill!Done(h)
  BY DEF Bill!Find
<1>4. CASE Again(h, p)
  <2>1. handling[h].event \notin recorded BY <1>1, <1>4 DEF Again
  <2>2. Bill!Done(h) BY <1>1, <1>3, <1>4, <2>1, StrangeAgain
  <2> QED BY <1>1, <1>4, <2>2, EndsAgain
<1>5. CASE HisTurn(h, p)
  <2>1. Bill!EventOf(h) = sent[turn] BY <1>1, <1>5, AtWork
  <2>2. CASE row.sub # sent[turn].sub
    BY <1>1, <1>3, <1>5, <2>1, <2>2, NotFound
  <2>3. CASE row.sub = sent[turn].sub
    <3>1. PICK now : now = p[turn - 1] OBVIOUS
    <3>2. Agree(now) /\ Dealt(turn - 1, now) BY <1>1, <1>5, <3>1 DEF HisTurn
    <3>3. Agree(now)' BY <1>1, <3>2 DEF Agree, Alive, Same
    <3>4. Dealt(turn - 1, now)' BY <1>1, <3>2 DEF Dealt, Strange
    <3>5. PICK at : at = "apply" OBVIOUS
    <3>6. /\ at \in Places \ {"idle"} /\ Bill!Goto(h, at) /\ row'.sub = sent[turn].sub
          /\ Dealt(turn - 1, p[turn - 1])'
          /\ Agree(p[IF at \in {"downgrade", "record"} THEN turn ELSE turn - 1])'
      BY <1>1, <1>3, <2>1, <2>3, <3>1, <3>3, <3>4, <3>5 DEF Places
    <3> QED BY <1>1, <1>5, <3>6, GoesOn
  <2> QED BY <2>2, <2>3
<1> QED BY <1>2, <1>4, <1>5 DEF HandOK

(* A checkout writes the one subscription that is live after it, if there is a row. *)
LEMMA LinkSync ==
  ASSUME BillTypes, NEW p, Past(p), Follows(p), NEW h \in Calls, Bill!Link(h)
  PROVE  Follows(p)'
<1> DEFINE e == sent[turn]
<1>1. /\ Bill!Busy(h) /\ handling[h].at = "link" /\ Bill!Goto(h, "record")
      /\ recorded' = recorded /\ turn' = turn /\ sent' = sent
      /\ changed' = changed /\ missed' = ~row.exists
  BY DEF Bill!Link, Bill!Busy
<1>2. HisTurn(h, p) BY <1>1 DEF Follows, HandOK, Again
<1>3. /\ Bill!EventOf(h) = e /\ e \in Bill!Event /\ turn \in 1..Len(sent)
      /\ Changes(p[turn - 1], e, p[turn]) /\ p[turn - 1] \in [Subs -> Account]
  BY <1>1, <1>2, AtWork
<1>4. e.kind = "checkout" /\ e.status = "active" /\ e.sub \in Subs
  BY <1>1, <1>3, InHandTypes DEF PlaceOK, Bill!EventOf, Bill!Event, Told
<1>5. row \in Bill!Row /\ (~row.exists => row = Bill!NoRow) BY DEF BillTypes, RowOK
<1>6. row' = IF row.exists THEN [row EXCEPT !.sub = e.sub, !.plan = e.plan, !.status = "active"]
             ELSE row
  BY <1>3 DEF Bill!Link, Bill!Set
<1> HIDE DEF e
<1>7. /\ p[turn][e.sub].status = "active" /\ p[turn][e.sub].plan = e.plan
      /\ \A s \in Subs \ {e.sub} : p[turn][s] = p[turn - 1][s]
      /\ p[turn - 1][e.sub].status = "none" /\ \A s \in Subs : ~Alive(p[turn - 1], s)
  <2>1. /\ p[turn][e.sub] = [status |-> e.status, plan |-> e.plan,
                             untold |-> Left(p[turn - 1][e.sub], e)]
        /\ \A s \in Subs \ {e.sub} : p[turn][s] = p[turn - 1][s]
    BY <1>3, Changed
  <2>2. p[turn - 1][e.sub].status = "none" /\ \A s \in Subs : ~Alive(p[turn - 1], s)
    BY <1>3, <1>4 DEF Changes
  <2> QED BY <1>4, <2>1, <2>2
<1>8. PICK now : now = p[turn] OBVIOUS
<1>9. /\ now[e.sub].status = "active" /\ now[e.sub].plan = e.plan
      /\ \A s \in Subs \ {e.sub} : ~Alive(now, s)
      /\ Alive(now, e.sub)
  BY <1>4, <1>7, <1>8 DEF Alive
<1>10. CASE row.exists
  <2>1. /\ row'.sub = e.sub /\ row'.plan = e.plan /\ row'.status = "active" /\ ~missed'
        /\ row'.sub # "none"
    BY <1>1, <1>4, <1>5, <1>6, <1>10 DEF Bill!Row
  <2>2. Agree(now)' BY <1>4, <1>9, <2>1 DEF Agree, Alive, Same, Bill!Shown
  <2>3. Dealt(turn - 1, p[turn - 1])'
    <3> SUFFICES ASSUME NEW i \in 1..(turn - 1)
                 PROVE  i \in recorded \/ Strange(i, p[turn - 1])'
      BY <1>1 DEF Dealt
    <3>1. i \in recorded \/ Strange(i, p[turn - 1]) BY <1>2 DEF HisTurn, Dealt
    <3> QED BY <1>1, <1>7, <2>1, <3>1 DEF Strange
  <2>4. PICK at : at = "record" OBVIOUS
  <2>5. /\ at \in Places \ {"idle"} /\ at # "apply" /\ Bill!Goto(h, at)
        /\ Agree(p[IF at \in {"downgrade", "record"} THEN turn ELSE turn - 1])'
    BY <1>1, <1>8, <2>2, <2>4 DEF Places
  <2> QED BY <1>1, <1>2, <2>3, <2>5, GoesOn
<1>11. CASE ~row.exists
  <2>1. row' = row /\ row.sub = "none" /\ missed' BY <1>1, <1>5, <1>6, <1>11, Rows
  <2>2. Agree(now)'
    <3>1. \A s \in Subs : s # "none" OBVIOUS
    <3> QED BY <2>1, <3>1 DEF Agree
  <2>3. Dealt(turn - 1, p[turn - 1])' BY <1>1, <1>2, <2>1 DEF HisTurn, Dealt, Strange
  <2>4. PICK at : at = "record" OBVIOUS
  <2>5. /\ at \in Places \ {"idle"} /\ at # "apply" /\ Bill!Goto(h, at)
        /\ Agree(p[IF at \in {"downgrade", "record"} THEN turn ELSE turn - 1])'
    BY <1>1, <1>8, <2>2, <2>4 DEF Places
  <2> QED BY <1>1, <1>2, <2>3, <2>5, GoesOn
<1> QED BY <1>10, <1>11

(* Invoices and updates write what their event tells of the status and the plan; the rest
   stays as it was, or is untold. *)
LEMMA Telling ==
  ASSUME BillTypes, NEW h \in Calls, Bill!Apply(h), NEW account \in Account, Same(account),
         NEW e \in Bill!Event, e = Bill!EventOf(h), row.sub = e.sub,
         e.kind \in {"paid", "failed"} => e.plan = account.plan, NEW new,
         new = [status |-> e.status, plan |-> e.plan, untold |-> Left(account, e)]
  PROVE  row'.sub = row.sub /\ Same(new)'
<1> DEFINE state == IF e.kind = "paid" \/ (e.kind = "updated" /\ e.status = "active")
                     THEN "active" ELSE "past_due"
           left == Left(account, e)
<1>1. /\ Bill!Busy(h) /\ handling[h].at = "apply" /\ changed' = changed
  BY DEF Bill!Apply, Bill!Busy, Bill!history
<1>2. e.kind \in {"paid", "failed", "updated"} /\ Told(e)
  BY <1>1, InHandTypes DEF PlaceOK, Bill!EventOf, Bill!Event, Bill!Kinds
<1>3. row \in Bill!Row /\ row.exists
  <2>1. row \in Bill!Row /\ (~row.exists => row.sub = "none")
    BY Rows DEF BillTypes, RowOK
  <2> QED BY <2>1 DEF Bill!Event
<1>4. /\ ~e.tells => row' = row
      /\ e.tells /\ e.kind = "updated" =>
           row' = [row EXCEPT !.sub = e.sub, !.plan = e.plan, !.status = state]
      /\ e.tells /\ e.kind # "updated" => row' = [row EXCEPT !.status = state]
  BY <1>3, Zenon DEF Bill!Apply, Bill!Set
<1>5. state \in Bill!Shown(e.status)
  <2>1. e.status \in {"trialing", "active", "past_due"}
    BY <1>2 DEF Told, Bill!Event, Bill!Statuses
  <2> QED BY <1>2, <2>1 DEF Bill!Shown, Told
<1>6. PICK shown \in SUBSET {"trialing", "active", "past_due", "canceled", "none"} :
        shown = Bill!Shown(account.status)
  BY DEF Bill!Shown, Account, Bill!Statuses
<1>7. ("status" \in account.untold \/ row.status \in shown)
      /\ ("plan" \in account.untold \/ changed \/ row.plan = account.plan)
  BY <1>6 DEF Same
<1>8. new.status = e.status /\ new.plan = e.plan /\ new.untold = left OBVIOUS
<1> HIDE DEF state, left
<1>9. CASE ~e.tells
  <2>1. /\ account.untold \subseteq left
        /\ e.status # account.status => "status" \in left
        /\ e.plan # account.plan => "plan" \in left
    BY <1>2, <1>9 DEF left, Left
  <2>2. "status" \in left \/ row.status \in Bill!Shown(e.status)
    BY <1>6, <1>7, <2>1
  <2>3. "plan" \in left \/ changed \/ row.plan = e.plan BY <1>7, <2>1
  <2>4. row' = row BY <1>4, <1>9
  <2>5. Same(new)' BY <1>1, <1>8, <2>2, <2>3, <2>4 DEF Same
  <2> QED BY <2>4, <2>5
<1>10. CASE e.tells /\ e.kind = "updated"
  <2>1. row'.sub = e.sub /\ row'.plan = e.plan /\ row'.status = state
    BY <1>3, <1>4, <1>10 DEF Bill!Row
  <2>2. Same(new)' BY <1>5, <1>8, <2>1 DEF Same
  <2> QED BY <1>10, <2>1, <2>2
<1>11. CASE e.tells /\ e.kind # "updated"
  <2>1. row'.sub = row.sub /\ row'.plan = row.plan /\ row'.status = state
    BY <1>3, <1>4, <1>11 DEF Bill!Row
  <2>2. "plan" \in account.untold => "plan" \in left BY <1>2, <1>11 DEF left, Left
  <2>3. e.plan = account.plan BY <1>2, <1>11
  <2>4. Same(new)' BY <1>1, <1>5, <1>7, <1>8, <2>1, <2>2, <2>3 DEF Same
  <2> QED BY <2>1, <2>4
<1> QED BY <1>9, <1>10, <1>11 DEF Bill!Event

LEMMA ApplySync ==
  ASSUME BillTypes, NEW p, Past(p), Follows(p), NEW h \in Calls, Bill!Apply(h)
  PROVE  Follows(p)'
<1> DEFINE e == sent[turn]
<1>1. /\ Bill!Busy(h) /\ handling[h].at = "apply" /\ Bill!Goto(h, "record")
      /\ recorded' = recorded /\ turn' = turn /\ sent' = sent
      /\ missed' = missed /\ changed' = changed
  BY DEF Bill!Apply, Bill!Busy, Bill!history
<1>2. HisTurn(h, p) BY <1>1 DEF Follows, HandOK, Again
<1>3. /\ Bill!EventOf(h) = e /\ e \in Bill!Event /\ turn \in 1..Len(sent) /\ e.sub \in Subs
      /\ Changes(p[turn - 1], e, p[turn]) /\ p[turn - 1] \in [Subs -> Account]
      /\ \A s, t \in Subs : Alive(p[turn - 1], s) /\ Alive(p[turn - 1], t) => s = t
  BY <1>1, <1>2, AtWork DEF Bill!Event
<1>4. e.kind \in {"paid", "failed", "updated"} /\ Told(e)
  BY <1>1, <1>3, InHandTypes DEF PlaceOK, Bill!EventOf, Bill!Event, Bill!Kinds
<1>5. row.sub = e.sub /\ Agree(p[turn - 1]) BY <1>1, <1>2 DEF HisTurn
<1> HIDE DEF e
<1>6. PICK old \in [Subs -> Account] : old = p[turn - 1] BY <1>3
<1>7. /\ Alive(old, e.sub) /\ ~missed /\ Same(old[e.sub])
      /\ e.kind \in {"paid", "failed"} => e.plan = old[e.sub].plan
  <2>1. /\ Alive(old, e.sub)
        /\ e.kind \in {"paid", "failed"} => e.plan = old[e.sub].plan
    BY <1>3, <1>4, <1>6 DEF Changes
  <2>2. row.sub # "none" BY <1>3, <1>5
  <2>3. ~missed BY <1>5, <2>2 DEF Agree
  <2>4. Same(old[e.sub]) BY <1>3, <1>5, <1>6, <2>1, <2>3 DEF Agree
  <2> QED BY <2>1, <2>3, <2>4
<1>8. PICK now : now = p[turn] OBVIOUS
<1>9. /\ now[e.sub] = [status |-> e.status, plan |-> e.plan, untold |-> Left(old[e.sub], e)]
      /\ \A s \in Subs \ {e.sub} : now[s] = old[s]
      /\ now[e.sub].status = e.status
  BY <1>3, <1>6, <1>8, Changed
<1>10. PICK account, new : account \in Account /\ account = old[e.sub] /\ new = now[e.sub]
  BY <1>3
<1>11. row'.sub = row.sub /\ Same(new)'
  <2>1. new = [status |-> e.status, plan |-> e.plan, untold |-> Left(account, e)]
    BY <1>9, <1>10
  <2>2. Same(account) /\ (e.kind \in {"paid", "failed"} => e.plan = account.plan)
    BY <1>7, <1>10
  <2> QED BY <1>3, <1>5, <1>10, <2>1, <2>2, Telling
<1>12. Alive(now, e.sub) /\ \A s \in Subs \ {e.sub} : ~Alive(now, s)
  <2>1. e.status \in {"trialing", "active", "past_due"}
    BY <1>3, <1>4 DEF Told, Bill!Event, Bill!Statuses
  <2>2. \A s \in Subs \ {e.sub} : ~Alive(old, s) BY <1>3, <1>6, <1>7
  <2> QED BY <1>9, <2>1, <2>2 DEF Alive
<1>13. Agree(now)'
  <2>1. row'.sub = e.sub /\ e.sub # "none" /\ ~missed' BY <1>1, <1>3, <1>5, <1>7, <1>11
  <2>2. ASSUME NEW s \in Subs
        PROVE  (/\ Alive(now, s) /\ ~missed => row.sub = s /\ Same(now[s])
                /\ row.sub = s => Alive(now, s))'
    <3>1. CASE s = e.sub BY <1>10, <1>11, <1>12, <2>1, <3>1 DEF Alive, Same, Bill!Shown
    <3>2. CASE s # e.sub BY <1>12, <2>1, <3>2 DEF Alive
    <3> QED BY <3>1, <3>2
  <2> QED BY <2>1, <2>2 DEF Agree
<1>14. Dealt(turn - 1, p[turn - 1])' BY <1>1, <1>2, <1>11 DEF HisTurn, Dealt, Strange
<1>15. PICK at : at = "record" OBVIOUS
<1>16. /\ at \in Places \ {"idle"} /\ at # "apply" /\ Bill!Goto(h, at)
       /\ Agree(p[IF at \in {"downgrade", "record"} THEN turn ELSE turn - 1])'
  BY <1>1, <1>8, <1>13, <1>15 DEF Places
<1> QED BY <1>1, <1>2, <1>14, <1>16, GoesOn

(* A deletion leaves no subscription live, *)
LEMMA Deleted ==
  ASSUME BillTypes, NEW p, Past(p), Follows(p), NEW h \in Calls, Bill!Busy(h),
         HisTurn(h, p), handling[h].at \in {"cancel", "downgrade"}
  PROVE  /\ \A s \in Subs : ~Alive(p[turn], s)
         /\ sent[turn].sub \in Subs /\ Alive(p[turn - 1], sent[turn].sub)
<1> DEFINE e == sent[turn]
<1>1. /\ Bill!EventOf(h) = e /\ e \in Bill!Event
      /\ Changes(p[turn - 1], e, p[turn]) /\ p[turn - 1] \in [Subs -> Account]
      /\ \A s, t \in Subs : Alive(p[turn - 1], s) /\ Alive(p[turn - 1], t) => s = t
  BY AtWork
<1>2. e.kind = "deleted" /\ e.status = "canceled" /\ e.sub \in Subs
  BY <1>1, InHandTypes DEF PlaceOK, Bill!EventOf, Bill!Event, Told
<1> HIDE DEF e
<1>3. Alive(p[turn - 1], e.sub) BY <1>1, <1>2 DEF Changes
<1>4. /\ p[turn][e.sub].status = "canceled"
      /\ \A s \in Subs \ {e.sub} : p[turn][s] = p[turn - 1][s]
  BY <1>2, TurnChanges DEF e
<1> QED BY <1>1, <1>2, <1>3, <1>4 DEF Alive, e

(* and none in the row. *)
LEMMA CancelSync ==
  ASSUME BillTypes, NEW p, Past(p), Follows(p), NEW h \in Calls, Bill!Cancel(h)
  PROVE  Follows(p)'
<1>1. /\ Bill!Busy(h) /\ handling[h].at = "cancel"
      /\ recorded' = recorded /\ turn' = turn /\ sent' = sent
      /\ missed' = missed /\ changed' = changed
  BY DEF Bill!Cancel, Bill!Busy, Bill!history
<1>2. HandOK(h, p) BY <1>1 DEF Follows
<1>3. IF row.sub = Bill!EventOf(h).sub
      THEN /\ row' = [row EXCEPT !.status = "canceled", !.sub = "none"]
           /\ Bill!Goto(h, "downgrade")
      ELSE Bill!Done(h) /\ row' = row
  BY DEF Bill!Cancel
<1>4. CASE Again(h, p)
  <2>1. handling[h].event \notin recorded BY <1>1, <1>4 DEF Again
  <2>2. Bill!Done(h) /\ row' = row BY <1>1, <1>3, <1>4, <2>1, StrangeAgain
  <2> QED BY <1>1, <1>4, <2>2, EndsAgain
<1>5. CASE HisTurn(h, p)
  <2>1. Bill!EventOf(h) = sent[turn] /\ turn \in 1..Len(sent) BY <1>1, <1>5, AtWork
  <2>2. CASE row.sub # sent[turn].sub
    BY <1>1, <1>3, <1>5, <2>1, <2>2, NotFound
  <2>3. CASE row.sub = sent[turn].sub
    <3>1. row'.sub = "none" /\ Bill!Goto(h, "downgrade")
      BY <1>3, <2>1, <2>3 DEF BillTypes, RowOK, Bill!Row
    <3>2. PICK now : now = p[turn] OBVIOUS
    <3>3. Agree(now)'
      <4>1. \A s \in Subs : s # "none" OBVIOUS
      <4>2. \A s \in Subs : ~Alive(now, s) BY <1>1, <1>5, <3>2, Deleted
      <4> QED BY <3>1, <4>1, <4>2 DEF Agree, Alive
    <3>4. Dealt(turn - 1, p[turn - 1])'
      <4>1. PICK old : old = p[turn - 1] OBVIOUS
      <4>2. PICK n \in 0..Len(sent) : n = turn - 1 BY <2>1, Turns
      <4>3. Dealt(n, old) BY <1>5, <4>1, <4>2 DEF HisTurn
      <4>4. Dealt(n, old)' BY <1>1, <3>1, <4>3, DealtStays
      <4> QED BY <1>1, <4>1, <4>2, <4>4
    <3>5. PICK at : at = "downgrade" OBVIOUS
    <3>6. /\ at \in Places \ {"idle"} /\ at # "apply" /\ Bill!Goto(h, at)
          /\ Agree(p[IF at \in {"downgrade", "record"} THEN turn ELSE turn - 1])'
      BY <1>1, <3>1, <3>2, <3>3, <3>5 DEF Places
    <3> QED BY <1>1, <1>5, <3>4, <3>6, GoesOn
  <2> QED BY <2>2, <2>3
<1> QED BY <1>2, <1>4, <1>5 DEF HandOK

(* The plan does not matter to a row without a live subscription. *)
LEMMA DowngradeSync ==
  ASSUME BillTypes, NEW p, Past(p), Follows(p), NEW h \in Calls, Bill!Downgrade(h)
  PROVE  Follows(p)'
<1>1. /\ Bill!Busy(h) /\ handling[h].at = "downgrade" /\ Bill!Goto(h, "record")
      /\ recorded' = recorded /\ turn' = turn /\ sent' = sent
      /\ missed' = missed /\ changed' = changed
  BY DEF Bill!Downgrade, Bill!Busy, Bill!history
<1>2. HisTurn(h, p) BY <1>1 DEF Follows, HandOK, Again
<1>3. row'.sub = row.sub BY DEF Bill!Downgrade, Bill!Set, BillTypes, RowOK, Bill!Row
<1>4. PICK now : now = p[turn] OBVIOUS
<1>5. Agree(now) BY <1>1, <1>2, <1>4 DEF HisTurn
<1>6. \A s \in Subs : ~Alive(now, s) BY <1>1, <1>2, <1>4, Deleted
<1>7. Agree(now)' BY <1>1, <1>3, <1>5, <1>6 DEF Agree, Alive
<1>8. Dealt(turn - 1, p[turn - 1])' BY <1>1, <1>2, <1>3 DEF HisTurn, Dealt, Strange
<1>9. PICK at : at = "record" OBVIOUS
<1>10. /\ at \in Places \ {"idle"} /\ at # "apply" /\ Bill!Goto(h, at)
       /\ Agree(p[IF at \in {"downgrade", "record"} THEN turn ELSE turn - 1])'
  BY <1>1, <1>4, <1>7, <1>9 DEF Places
<1> QED BY <1>1, <1>2, <1>8, <1>10, GoesOn

(* An event that is recorded has had its effect. *)
LEMMA RecordSync ==
  ASSUME BillTypes, NEW p, Past(p), Follows(p), NEW h \in Calls, Bill!Record(h)
  PROVE  Follows(p)'
<1>1. /\ Bill!Busy(h) /\ handling[h].at = "record" /\ Bill!Done(h)
      /\ recorded' = recorded \cup {handling[h].event} /\ turn' = turn /\ sent' = sent
      /\ missed' = missed /\ changed' = changed /\ row' = row
  BY DEF Bill!Record, Bill!Busy, Bill!history
<1>2. HisTurn(h, p) BY <1>1 DEF Follows, HandOK, Again
<1>3. handling[h].event = turn /\ turn \in 1..Len(sent) BY <1>1, <1>2, AtWork
<1>4. PICK now : now = p[turn] OBVIOUS
<1>5. Agree(now)' BY <1>1, <1>2, <1>4 DEF HisTurn, Agree, Alive, Same
<1>6. Dealt(turn - 1, p[turn - 1])' BY <1>1, <1>2 DEF HisTurn, Dealt, Strange
<1>7. Handled(p)'
  <2>1. turn \in recorded' BY <1>1, <1>3
  <2>2. Dealt(turn, p[turn])' BY <1>1, <1>2, <1>6, <2>1, DealtGrows
  <2> QED BY <1>1, <1>4, <1>5, <2>2 DEF Handled
<1>8. recorded' \subseteq 1..turn
  <2>1. recorded \subseteq 1..turn BY DEF Follows
  <2>2. turn \in 1..turn BY <1>3, Turns
  <2> QED BY <1>1, <1>3, <2>1, <2>2
<1> QED BY <1>1, <1>7, <1>8, Ends

(* A row that is entered, a plan that is changed by hand and a trial that expires leave the
   subscription of the row, and a status or a plan only where it may differ. *)
LEMMA ChangeSync ==
  ASSUME BillTypes, NEW p, Past(p), Follows(p), ByHand
  PROVE  Follows(p)'
<1>1. /\ handling' = handling /\ recorded' = recorded /\ turn' = turn /\ sent' = sent
      /\ missed' = missed /\ row'.sub = row.sub
  <2>1. /\ handling' = handling /\ recorded' = recorded /\ turn' = turn /\ sent' = sent
        /\ missed' = missed
    BY DEF ByHand, Bill!Ensure, Bill!ChangePlan, Bill!ExpireTrial, Bill!history
  <2>2. row'.sub = row.sub
    <3>1. CASE Bill!Ensure BY <3>1, Rows DEF Bill!Ensure, BillTypes, RowOK
    <3>2. ASSUME NEW plan, Bill!ChangePlan(plan) PROVE row'.sub = row.sub
      BY <3>2 DEF Bill!ChangePlan, BillTypes, RowOK, Bill!Row
    <3>3. CASE Bill!ExpireTrial
      BY <3>3 DEF Bill!ExpireTrial, BillTypes, RowOK, Bill!Row
    <3> QED BY <3>1, <3>2, <3>3 DEF ByHand
  <2> QED BY <2>1, <2>2
<1>2. ASSUME NEW account \in Account, Same(account), row.sub # "none" PROVE Same(account)'
  <2>1. row \in Bill!Row /\ row.exists BY <1>2, Rows DEF BillTypes, RowOK
  <2>2. ASSUME NEW plan, Bill!ChangePlan(plan) PROVE Same(account)'
    <3>1. row'.status = row.status /\ changed' BY <2>1, <2>2 DEF Bill!ChangePlan, Bill!Row
    <3> QED BY <1>2, <3>1 DEF Same
  <2>3. CASE Bill!ExpireTrial
    <3>1. row.status = "trialing" /\ row'.plan = row.plan /\ changed' = changed
      BY <2>1, <2>3 DEF Bill!ExpireTrial, Bill!Row, Bill!history
    <3>2. row.status \notin Bill!Shown(account.status) BY <3>1 DEF Bill!Shown
    <3> QED BY <1>2, <3>1, <3>2 DEF Same
  <2> QED BY <2>1, <2>2, <2>3 DEF ByHand, Bill!Ensure
<1>3. ASSUME NEW now, Agree(now), \A s \in Subs : now[s] \in Account PROVE Agree(now)'
  <2>1. \A s \in Subs : s # "none" OBVIOUS
  <2>2. \A s \in Subs : Alive(now, s) /\ ~missed => Same(now[s])'
    BY <1>2, <1>3, <2>1 DEF Agree
  <2> QED BY <1>1, <1>3, <2>2 DEF Agree, Alive
<1>4. ASSUME NEW k \in 0..Len(sent), Agree(p[k]) PROVE Agree(p[k])'
  <2>1. PICK now : now = p[k] OBVIOUS
  <2>2. \A s \in Subs : now[s] \in Account BY <2>1 DEF Past
  <2>3. Agree(now)' BY <1>3, <1>4, <2>1, <2>2
  <2> QED BY <2>1, <2>3
<1>5. turn \in 0..Len(sent) /\ Len(sent) \in Nat BY Turns
<1>6. Handled(p) => Handled(p)'
  <2>1. Dealt(turn, p[turn]) => Dealt(turn, p[turn])' BY <1>1 DEF Dealt, Strange
  <2>2. Agree(p[turn]) => Agree(p[turn])'
    <3>1. PICK k \in 0..Len(sent) : k = turn BY <1>5
    <3> QED BY <1>1, <1>4, <3>1
  <2> QED BY <2>1, <2>2 DEF Handled
<1>7. ASSUME NEW h \in Calls, HandOK(h, p) PROVE HandOK(h, p)'
  <2>1. handling[h].event \in 1..turn BY <1>7 DEF HandOK
  <2>2. CASE Again(h, p) BY <1>1, <1>6, <2>1, <2>2 DEF HandOK, Again
  <2>3. CASE HisTurn(h, p)
    <3>1. PICK k \in 0..Len(sent) :
            k = IF handling[h].at \in {"downgrade", "record"} THEN turn ELSE turn - 1
      BY <1>5, <2>1
    <3>2. Agree(p[k])' BY <1>4, <2>3, <3>1 DEF HisTurn
    <3>3. Dealt(turn - 1, p[turn - 1])' BY <1>1, <2>3 DEF HisTurn, Dealt, Strange
    <3>4. HisTurn(h, p)' BY <1>1, <2>3, <3>1, <3>2, <3>3 DEF HisTurn
    <3> QED BY <1>1, <2>1, <3>4 DEF HandOK
  <2> QED BY <1>7, <2>2, <2>3 DEF HandOK
<1>8. \A g \in Calls : Bill!Busy(g)' <=> Bill!Busy(g) BY <1>1 DEF Bill!Busy
<1> QED BY <1>1, <1>6, <1>7, <1>8 DEF Follows

(* Every step keeps the invariant, with a past that may be longer by one event. *)
LEMMA NextSync == SyncInv /\ [Bill!Next]_(Bill!vars) => SyncInv'
<1> SUFFICES ASSUME SyncInv, [Bill!Next]_(Bill!vars)
             PROVE  \E q : Past(q)' /\ (orderly' => Follows(q)')
  BY BillNextTypes DEF SyncInv
<1> USE DEF SyncInv
<1>1. PICK p : Past(p) /\ (orderly => Follows(p)) OBVIOUS
<1>2. ASSUME sent' = sent, stripe' = stripe, untold' = untold, orderly' => Follows(p)'
      PROVE  \E q : Past(q)' /\ (orderly' => Follows(q)')
  BY <1>1, <1>2, PastStays
<1>3. CASE UNCHANGED Bill!vars
  <2>1. /\ sent' = sent /\ stripe' = stripe /\ orderly' = orderly /\ row' = row
        /\ recorded' = recorded /\ handling' = handling /\ turn' = turn
        /\ changed' = changed /\ missed' = missed /\ untold' = untold
    BY <1>3 DEF Bill!vars, Bill!history
  <2>2. ASSUME Follows(p) PROVE Follows(p)'
    <3>1. \A g \in Calls : Bill!Busy(g)' <=> Bill!Busy(g) BY <2>1 DEF Bill!Busy
    <3>2. Handled(p) => Handled(p)' BY <2>1, HandledStays
    <3>3. ASSUME NEW h \in Calls, HisTurn(h, p) PROVE HisTurn(h, p)'
      BY <2>1, <3>3 DEF HisTurn, Dealt, Strange, Agree, Alive, Same
    <3>4. ASSUME NEW h \in Calls, HandOK(h, p) PROVE HandOK(h, p)'
      BY <2>1, <3>2, <3>3, <3>4 DEF HandOK, Again
    <3> QED BY <2>1, <2>2, <3>1, <3>2, <3>4 DEF Follows
  <2> QED BY <1>1, <1>2, <2>1, <2>2
<1>4. ASSUME NEW s \in Subs, Stripe(s)
      PROVE  \E q : Past(q)' /\ (orderly' => Follows(q)')
  BY <1>1, <1>4, StripeSync
<1>5. ASSUME NEW h \in Calls, NEW e \in 1..MaxEvents, Bill!Receive(h, e)
      PROVE  \E q : Past(q)' /\ (orderly' => Follows(q)')
  <2>1. sent' = sent /\ stripe' = stripe /\ untold' = untold BY <1>5 DEF Bill!Receive
  <2>2. orderly' => Follows(p)' BY <1>1, <1>5, ReceiveSync
  <2> QED BY <1>2, <2>1, <2>2
<1>6. ASSUME NEW h \in Calls, Bill!Handle(h)
      PROVE  \E q : Past(q)' /\ (orderly' => Follows(q)')
  <2>1. sent' = sent /\ stripe' = stripe /\ untold' = untold /\ orderly' = orderly
    BY <1>6
    DEF Bill!Handle, Bill!Check, Bill!Link, Bill!Find, Bill!Apply, Bill!Cancel, Bill!Downgrade,
        Bill!Record, Bill!history
  <2>2. Follows(p) => Follows(p)'
    BY <1>1, <1>6, CheckSync, LinkSync, FindSync, ApplySync, CancelSync, DowngradeSync,
       RecordSync DEF Bill!Handle
  <2> QED BY <1>1, <1>2, <2>1, <2>2
<1>7. ASSUME NEW h \in Calls, Bill!Abort(h)
      PROVE  \E q : Past(q)' /\ (orderly' => Follows(q)')
  BY <1>2, <1>7 DEF Bill!Abort
<1>8. CASE ByHand
  <2>1. sent' = sent /\ stripe' = stripe /\ untold' = untold /\ orderly' = orderly
    BY <1>8 DEF ByHand, Bill!Ensure, Bill!ChangePlan, Bill!ExpireTrial, Bill!history
  <2> QED BY <1>1, <1>2, <1>8, <2>1, ChangeSync
<1> QED BY <1>3, <1>4, <1>5, <1>6, <1>7, <1>8 DEF Bill!Next, Stripe, ByHand

(* Before the first event no subscription is live. *)
LEMMA InitSync == Bill!Init => SyncInv
<1> SUFFICES ASSUME Bill!Init PROVE SyncInv OBVIOUS
<1>1. /\ Len(sent) = 0 /\ turn = 0 /\ recorded = {} /\ missed = FALSE
      /\ \A h \in Calls : ~Bill!Busy(h)
      /\ \A s \in Subs : stripe[s].status = "none"
  BY DEF Bill!Init, Bill!Busy, Bill!Idle
<1>2. BillTypes BY BillInitTypes
<1>3. PICK none \in [Subs -> Account] :
        none = Books /\ \A s \in Subs : none[s].status = "none"
  BY <1>1, <1>2, BooksType
<1>4. PICK p : p = [i \in 0..0 |-> none] OBVIOUS
<1>5. p \in [0..0 -> [Subs -> Account]] /\ p[0] = none BY <1>4
<1>6. \A s \in Subs : ~Alive(none, s) BY <1>3 DEF Alive
<1>7. Past(p) BY <1>1, <1>3, <1>5, <1>6 DEF Past
<1>8. Agree(none)
  <2>1. row.sub = "none" BY FirstRow
  <2> QED BY <1>1, <1>6, <2>1 DEF Agree
<1>9. Dealt(0, none) BY DEF Dealt
<1>10. Handled(p) BY <1>1, <1>5, <1>8, <1>9 DEF Handled
<1>11. Follows(p) BY <1>1, <1>10 DEF Follows
<1> QED BY <1>2, <1>7, <1>11 DEF SyncInv

(* After the last turn the row is what Stripe has now. *)
LEMMA SyncSuffices == SyncInv => Bill!InSync
<1> SUFFICES ASSUME SyncInv, orderly, ~missed, turn = Len(sent),
                    \A h \in Calls : ~Bill!Busy(h), NEW s \in Subs
             PROVE  Bill!Agrees(s)
  BY DEF Bill!InSync
<1>1. PICK p : Past(p) /\ Follows(p) BY DEF SyncInv
<1>2. PICK now : now = Books OBVIOUS
<1>3. Agree(now) BY <1>1, <1>2 DEF Follows, Handled, Past
<1>4. /\ now[s].status = stripe[s].status /\ now[s].plan = stripe[s].plan
      /\ now[s].untold = untold[s]
  BY <1>2, BooksType DEF SyncInv
<1>5. Bill!Live(s) <=> Alive(now, s) BY <1>4 DEF Alive, Bill!Live
<1> QED BY <1>3, <1>4, <1>5 DEF Agree, Same, Bill!Agrees

(* Every state of the subscription is typed, and a row that does not exist has its default
   values. *)
THEOREM BillingTypeCorrect == Bill!Spec => []Bill!TypeOK
BY BillInitTypes, BillNextTypes, BillTypesSuffice, PTL DEF Bill!Spec

(* A canceled row keeps a paid plan only while the deletion is at its second statement,
   unless that was cut off or the plan was changed by hand. *)
THEOREM CanceledPlanIsFree == Bill!Spec => []Bill!CanceledIsFree
<1>1. Bill!Init => BillTypes /\ Bill!CanceledIsFree BY BillInitTypes, InitCanceled
<1>2. BillTypes /\ Bill!CanceledIsFree /\ [Bill!Next]_(Bill!vars)
      => BillTypes' /\ Bill!CanceledIsFree'
  BY BillNextTypes, NextCanceled
<1> QED BY <1>1, <1>2, PTL DEF Bill!Spec

(* Events received in order and handled one at a time, to their end, leave the row as Stripe
   has the subscription, however often each is delivered, if the last checkout found a row:
   but for a status or a plan that changed in an event without it, a trial, which the row
   shows as overdue or as active, and a plan changed by hand. *)
THEOREM OrderedEventsAgree == Bill!Spec => []Bill!InSync
BY InitSync, NextSync, SyncSuffices, PTL DEF Bill!Spec

-----------------------------------------------------------------------------
(***************************************************************************)
(* The invariant. An approval is open while it may still execute the       *)
(* action without another fault: its handler has not queued or executed    *)
(* it, or its message waits, or runs and has not succeeded. Each approval  *)
(* is good for one execution, and so is each fault. As long as approvals   *)
(* are handled one after another they are good for one execution together, *)
(* and for none while the payload is stored and no handler is at work.     *)
(***************************************************************************)
Open == {c \in Users :
           \/ click[c] \in {"prepare", "enqueue", "execute"}
           \/ phase[c] = "queued"
           \/ job[c] \in {"execute", "again"}}

Charged == executed + Cardinality(Open)

InHands == \E c \in Users : Action!InHand(c)

Budget ==
  /\ Charged <= Cardinality(approvals) + actionFaults
  /\ ~overlapped => Charged <= 1 + actionFaults
  /\ ~overlapped /\ stored /\ ~InHands => Charged <= actionFaults

\* No message is sent before its handler gets to it, and no press is handled twice.
Fresh ==
  \A c \in Users :
     /\ click[c] \in {"new", "prepare", "enqueue", "execute"} => phase[c] = "new"
     /\ c \in approvals => click[c] # "new"

ClickStates == {"new", "prepare", "enqueue", "execute", "approved", "executed",
                "failed", "say", "reject", "rejected", "done"}
JobStates   == {"none", "execute", "publish", "again", "refused"}

ClickOK == click \in [Users -> ClickStates]

QueueOK ==
  /\ phase \in [Users -> Action!Queue!Phases] /\ tries \in [Users -> 0..(MaxRetries + 1)]
  /\ job \in [Users -> JobStates]
  /\ \A c \in Users : job[c] # "none" <=> phase[c] = "running"

ExecutedOK == approvals \subseteq Users /\ executed \in Nat /\ actionFaults \in 0..MaxFaults

FlagsOK ==
  /\ stored \in BOOLEAN /\ overlapped \in BOOLEAN
  /\ status \in {"proposed", "approved", "executed", "failed", "rejected"}

ActionTypes == ClickOK /\ QueueOK /\ ExecutedOK /\ FlagsOK
ActionInv   == ActionTypes /\ Fresh /\ Budget

-----------------------------------------------------------------------------
(* Types *)

(* The types hold of an action that was just proposed. *)
LEMMA ActionInitTypes == Action!Init => ActionTypes
<1> SUFFICES ASSUME Action!Init PROVE ActionTypes OBVIOUS
<1>1. ClickOK BY DEF Action!Init, ClickOK, ClickStates
<1>2. QueueOK
  BY DEF Action!Init, QueueOK, JobStates, Action!Queue!Init, Action!Queue!Phases
<1>3. ExecutedOK BY DEF Action!Init, ExecutedOK
<1>4. FlagsOK BY DEF Action!Init, FlagsOK
<1> QED BY <1>1, <1>2, <1>3, <1>4 DEF ActionTypes

(* What a step of a handler does to the parts that have a type. *)
LEMMA HandlersTyped ==
  ASSUME ActionTypes, NEW c \in Users,
         Action!Approve(c) \/ Action!Reject(c) \/ Action!Handle(c) \/ Action!Fail(c)
  PROVE  ActionTypes'
<1>1. ClickOK'
  <2>1. \E at \in ClickStates : Action!Goto(c, at)
    BY DEF ClickStates, Action!Approve, Action!Reject, Action!Handle, Action!Prepare,
           Action!Enqueue, Action!ExecuteNow, Action!Persist, Action!Delete, Action!Dismiss,
           Action!Fail
  <2> QED BY <2>1 DEF ActionTypes, ClickOK, Action!Goto
<1>2. QueueOK'
  <2>1. UNCHANGED Action!queue \/ Action!Queue!Submit(c)
    BY DEF Action!Approve, Action!Reject, Action!Handle, Action!Prepare, Action!Enqueue,
           Action!ExecuteNow, Action!Persist, Action!Delete, Action!Dismiss, Action!Fail
  <2>2. job' = job
    BY DEF Action!Approve, Action!Reject, Action!Handle, Action!Prepare, Action!Enqueue,
           Action!ExecuteNow, Action!Persist, Action!Delete, Action!Dismiss, Action!Fail
  <2> QED
    BY <2>1, <2>2
    DEF ActionTypes, QueueOK, Action!queue, Action!Queue!Submit, Action!Queue!Move,
        Action!Queue!Phases
<1>3. ExecutedOK'
  <2>1. executed' \in {executed, executed + 1}
    BY DEF Action!Approve, Action!Reject, Action!Handle, Action!Prepare, Action!Enqueue,
           Action!ExecuteNow, Action!Persist, Action!Delete, Action!Dismiss, Action!Fail
  <2>2. actionFaults' = actionFaults \/ Action!Fault
    BY DEF Action!Approve, Action!Reject, Action!Handle, Action!Prepare, Action!Enqueue,
           Action!ExecuteNow, Action!Persist, Action!Delete, Action!Dismiss, Action!Fail
  <2>3. approvals' \in {approvals, approvals \cup {c}}
    BY DEF Action!history, Action!Approve, Action!Reject, Action!Handle, Action!Prepare,
           Action!Enqueue, Action!ExecuteNow, Action!Persist, Action!Delete, Action!Dismiss,
           Action!Fail
  <2> QED BY <2>1, <2>2, <2>3 DEF ActionTypes, ExecutedOK, Action!Fault
<1>4. FlagsOK'
  <2>1. stored' \in {stored, FALSE}
    BY DEF Action!Approve, Action!Reject, Action!Handle, Action!Prepare, Action!Enqueue,
           Action!ExecuteNow, Action!Persist, Action!Delete, Action!Dismiss, Action!Fail
  <2>2. overlapped' \in BOOLEAN
    BY DEF ActionTypes, FlagsOK, Action!history, Action!Approve, Action!Reject, Action!Handle,
           Action!Prepare, Action!Enqueue, Action!ExecuteNow, Action!Persist, Action!Delete,
           Action!Dismiss, Action!Fail
  <2>3. status' = status \/ status' \in {"approved", "executed", "failed", "rejected"}
    BY DEF Action!Approve, Action!Reject, Action!Handle, Action!Prepare, Action!Enqueue,
           Action!ExecuteNow, Action!Persist, Action!Delete, Action!Dismiss, Action!Fail
  <2> QED BY <2>1, <2>2, <2>3 DEF ActionTypes, FlagsOK
<1> QED BY <1>1, <1>2, <1>3, <1>4 DEF ActionTypes

(* The same of a step of a worker, *)
LEMMA WorkersTyped ==
  ASSUME ActionTypes, NEW c \in Users, Action!Run(c)
  PROVE  ActionTypes'
<1>1. ClickOK'
  BY DEF ActionTypes, ClickOK, Action!Run, Action!Start, Action!Execute, Action!Publish
<1>2. QueueOK'
  <2>1. CASE Action!Start(c)
    BY <2>1
    DEF ActionTypes, QueueOK, JobStates, Action!Start, Action!Work,
        Action!Queue!Start, Action!Queue!Move, Action!Queue!Phases
  <2>2. CASE Action!Execute(c)
    BY <2>2 DEF ActionTypes, QueueOK, JobStates, Action!Execute, Action!Work, Action!queue
  <2>3. CASE Action!Publish(c)
    <3>1. Action!Queue!Retry(c) \/ Action!Queue!Bury(c) \/ Action!Queue!Succeed(c)
      BY <2>3 DEF Action!Publish
    <3> QED
      BY <2>3, <3>1
      DEF ActionTypes, QueueOK, JobStates, Action!Publish, Action!Work, Action!Queue!Retry,
          Action!Queue!Bury, Action!Queue!Succeed, Action!Queue!Move, Action!Queue!Phases
  <2> QED BY <2>1, <2>2, <2>3 DEF Action!Run
<1>3. ExecutedOK'
  <2>1. executed' \in {executed, executed + 1}
    BY DEF Action!Run, Action!Start, Action!Execute, Action!Publish
  <2>2. actionFaults' = actionFaults \/ Action!Fault
    BY DEF Action!Run, Action!Start, Action!Execute, Action!Publish
  <2>3. approvals' = approvals
    BY DEF Action!history, Action!Run, Action!Start, Action!Execute, Action!Publish
  <2> QED BY <2>1, <2>2, <2>3 DEF ActionTypes, ExecutedOK, Action!Fault
<1>4. FlagsOK'
  BY DEF ActionTypes, FlagsOK, Action!history, Action!Run, Action!Start, Action!Execute,
         Action!Publish
<1> QED BY <1>1, <1>2, <1>3, <1>4 DEF ActionTypes

(* of the death of one, *)
LEMMA LoseTyped ==
  ASSUME ActionTypes, NEW S \in SUBSET Users, Action!Lose(S)
  PROVE  ActionTypes'
<1>1. /\ UNCHANGED <<stored, click, status, Action!history, executed>> /\ Action!Fault
      /\ job' = [c \in Users |-> IF c \in S THEN "none" ELSE job[c]]
      /\ phase' = [c \in Users |-> IF c \in S THEN "lost" ELSE phase[c]] /\ tries' = tries
  BY DEF Action!Lose, Action!Queue!Lose
<1>2. QueueOK' BY <1>1 DEF ActionTypes, QueueOK, JobStates, Action!Queue!Phases
<1>3. ClickOK' /\ FlagsOK' BY <1>1 DEF ActionTypes, ClickOK, FlagsOK, Action!history
<1>4. ExecutedOK' BY <1>1 DEF ActionTypes, ExecutedOK, Action!history, Action!Fault
<1> QED BY <1>2, <1>3, <1>4 DEF ActionTypes

(* and of the process. *)
LEMMA ProcessTyped ==
  ASSUME ActionTypes, Action!Expire \/ Action!Restart
  PROVE  ActionTypes'
<1>1. ClickOK'
  <2>1. CASE Action!Expire BY <2>1 DEF Action!Expire, ActionTypes, ClickOK
  <2>2. CASE Action!Restart BY <2>2 DEF Action!Restart, ActionTypes, ClickOK, ClickStates
  <2> QED BY <2>1, <2>2
<1>2. QueueOK' BY DEF Action!Expire, Action!Restart, ActionTypes, QueueOK, Action!queue
<1>3. ExecutedOK'
  BY DEF Action!Expire, Action!Restart, Action!Fault, ActionTypes, ExecutedOK, Action!history
<1>4. FlagsOK' BY DEF Action!Expire, Action!Restart, ActionTypes, FlagsOK, Action!history
<1> QED BY <1>1, <1>2, <1>3, <1>4 DEF ActionTypes

(* Every step keeps the types. *)
LEMMA ActionNextTypes ==
  ASSUME ActionTypes, [Action!Next]_(Action!vars)
  PROVE  ActionTypes'
<1>1. CASE UNCHANGED Action!vars
  BY <1>1
  DEF Action!vars, Action!queue, Action!history, ActionTypes, ClickOK, QueueOK, ExecutedOK,
      FlagsOK
<1> QED BY <1>1, HandlersTyped, WorkersTyped, LoseTyped, ProcessTyped DEF Action!Next

(* Every state is typed, and a message is in a worker's hands exactly while it runs. *)
THEOREM ActionTypeCorrect == Action!Spec => []Action!TypeOK
<1>1. ActionTypes => Action!TypeOK
  BY DEF ActionTypes, ClickOK, QueueOK, ExecutedOK, FlagsOK, ClickStates, JobStates,
         Action!TypeOK
<1> QED BY <1>1, ActionInitTypes, ActionNextTypes, PTL DEF Action!Spec

-----------------------------------------------------------------------------
(* Sets of presses *)

(* A set of presses is finite. *)
LEMMA Counted ==
  ASSUME NEW S \in SUBSET Users
  PROVE  IsFiniteSet(S) /\ Cardinality(S) \in Nat
BY FS_Subset, FS_CardinalityType

(* Of two such sets the smaller has no more presses, *)
LEMMA FewerOrSame ==
  ASSUME NEW S \in SUBSET Users, NEW T \in SUBSET S
  PROVE  Cardinality(T) <= Cardinality(S)
BY Counted, FS_Subset

(* one press more at most if it was added, *)
LEMMA OneMore ==
  ASSUME NEW S \in SUBSET Users, NEW c \in Users,
         NEW T \in SUBSET (S \cup {c})
  PROVE  Cardinality(T) <= Cardinality(S) + 1
<1>1. IsFiniteSet(S) /\ Cardinality(S) \in Nat BY Counted
<1>2. IsFiniteSet(S \cup {c})
      /\ Cardinality(S \cup {c}) = IF c \in S THEN Cardinality(S) ELSE Cardinality(S) + 1
  BY <1>1, FS_AddElement
<1>3. Cardinality(T) <= Cardinality(S \cup {c}) BY <1>2, FS_Subset
<1>4. T \in SUBSET Users OBVIOUS
<1>5. Cardinality(T) \in Nat BY <1>4, Counted
<1> QED BY <1>1, <1>2, <1>3, <1>5

(* and one less if it was taken out. *)
LEMMA OneLess ==
  ASSUME NEW S \in SUBSET Users, NEW c \in S,
         NEW T \in SUBSET (S \ {c})
  PROVE  Cardinality(T) + 1 <= Cardinality(S)
<1>1. IsFiniteSet(S) /\ Cardinality(S) \in Nat BY Counted
<1>2. IsFiniteSet(S \ {c}) /\ Cardinality(S \ {c}) = Cardinality(S) - 1
  BY <1>1, FS_RemoveElement
<1>3. Cardinality(T) <= Cardinality(S \ {c}) BY <1>2, FS_Subset
<1>4. T \in SUBSET Users OBVIOUS
<1>5. Cardinality(T) \in Nat BY <1>4, Counted
<1> QED BY <1>1, <1>2, <1>3, <1>5

-----------------------------------------------------------------------------
(* Each action keeps the budget. *)

(* What the budget adds up. *)
LEMMA Numbers ==
  ASSUME ActionTypes
  PROVE  /\ executed \in Nat /\ actionFaults \in Nat /\ Cardinality(approvals) \in Nat
         /\ Open \in SUBSET Users /\ Cardinality(Open) \in Nat /\ Charged \in Nat
<1>1. executed \in Nat /\ actionFaults \in Nat /\ approvals \in SUBSET Users
  BY DEF ActionTypes, ExecutedOK
<1>2. Open \in SUBSET Users BY DEF Open
<1>3. Cardinality(approvals) \in Nat /\ Cardinality(Open) \in Nat BY <1>1, <1>2, Counted
<1> QED BY <1>1, <1>2, <1>3 DEF Charged

(* A step that costs no more than it pays for stays within what there was. *)
LEMMA Paid ==
  ASSUME NEW w \in Nat, NEW v \in Nat, NEW f \in Nat, NEW g \in Nat, v + f <= w + g
  PROVE  /\ \A n \in Nat : w <= n + f => v <= n + g
         /\ w <= f => v <= g
         /\ v + f + 1 <= w + g /\ w <= 1 + f => v <= g
OBVIOUS

(* A step that costs nothing pays, and pays one over if it closes an approval or is a
   fault. *)
LEMMA PaidOver ==
  ASSUME NEW w \in Nat, NEW v \in Nat, NEW f \in Nat, NEW g \in {f, f + 1}, v <= w
  PROVE  /\ v + f <= w + g
         /\ v + 1 <= w \/ g = f + 1 => v + f + 1 <= w + g
OBVIOUS

(* A fault pays for one execution. *)
LEMMA PaidByFault ==
  ASSUME NEW w \in Nat, NEW v \in Nat, NEW f \in Nat, v <= w + 1
  PROVE  v + f <= w + (f + 1)
OBVIOUS

(* A step that opens or executes nothing it does not pay for, and that neither approves
   nor ends a handler, unless it pays for that too or the payload is gone. *)
LEMMA Steady ==
  ASSUME ActionInv, ActionTypes', UNCHANGED Action!history, stored' => stored,
         Charged' + actionFaults <= Charged + actionFaults',
         \/ InHands => InHands'
         \/ ~stored'
         \/ Charged' + actionFaults + 1 <= Charged + actionFaults'
  PROVE  Budget'
<1>1. /\ Charged \in Nat /\ actionFaults \in Nat /\ Cardinality(approvals) \in Nat
      /\ Charged' \in Nat /\ actionFaults' \in Nat
  <2>1. actionFaults' \in Nat /\ executed' \in Nat BY DEF ActionTypes, ExecutedOK
  <2>2. Open' \in SUBSET Users BY DEF Open
  <2>3. Cardinality(Open') \in Nat BY <2>2, Counted
  <2>4. Charged' \in Nat BY <2>1, <2>3 DEF Charged
  <2> QED BY <2>1, <2>4, Numbers DEF ActionInv
<1>2. approvals' = approvals /\ overlapped' = overlapped BY DEF Action!history
<1>3. /\ \A n \in Nat : Charged <= n + actionFaults => Charged' <= n + actionFaults'
      /\ Charged <= actionFaults => Charged' <= actionFaults'
      /\ Charged' + actionFaults + 1 <= Charged + actionFaults' /\ Charged <= 1 + actionFaults
         => Charged' <= actionFaults'
  BY <1>1, Paid
<1>4. Charged' <= Cardinality(approvals') + actionFaults'
  BY <1>1, <1>2, <1>3 DEF ActionInv, Budget
<1>5. ASSUME ~overlapped' PROVE Charged' <= 1 + actionFaults'
  <2>1. Charged <= 1 + actionFaults BY <1>2, <1>5 DEF ActionInv, Budget
  <2> QED BY <1>3, <2>1
<1>6. ASSUME ~overlapped', stored', ~InHands' PROVE Charged' <= actionFaults'
  <2>1. CASE ~InHands
    <3>1. Charged <= actionFaults BY <1>2, <1>6, <2>1 DEF ActionInv, Budget
    <3> QED BY <1>3, <3>1
  <2>2. CASE InHands
    <3>1. Charged' + actionFaults + 1 <= Charged + actionFaults' BY <1>6, <2>2
    <3>2. Charged <= 1 + actionFaults BY <1>2, <1>6 DEF ActionInv, Budget
    <3> QED BY <1>3, <3>1, <3>2
  <2> QED BY <2>1, <2>2
<1> QED BY <1>4, <1>5, <1>6 DEF Budget

(* What a step that opens, closes or executes costs. *)
LEMMA Costs ==
  ASSUME ActionTypes, ActionTypes', NEW c \in Users
  PROVE  /\ executed' = executed /\ Open' \subseteq Open => Charged' <= Charged
         /\ executed' = executed /\ Open' \subseteq Open \cup {c} => Charged' <= Charged + 1
         /\ executed' = executed /\ c \in Open /\ Open' \subseteq Open \ {c}
            => Charged' + 1 <= Charged
         /\ executed' = executed + 1 /\ c \in Open /\ Open' \subseteq Open \ {c}
            => Charged' <= Charged
<1> DEFINE S == Open
           T == Open'
<1>1. S \in SUBSET Users /\ T \in SUBSET Users BY DEF Open
<1>2. Cardinality(S) \in Nat /\ Cardinality(T) \in Nat BY <1>1, Counted
<1>3. executed \in Nat BY DEF ActionTypes, ExecutedOK
<1>4. Charged = executed + Cardinality(S) /\ Charged' = executed' + Cardinality(T)
  BY DEF Charged
<1> HIDE DEF S, T
<1>5. ASSUME T \subseteq S PROVE Cardinality(T) <= Cardinality(S)
  BY <1>1, <1>5, FewerOrSame
<1>6. ASSUME T \subseteq S \cup {c} PROVE Cardinality(T) <= Cardinality(S) + 1
  BY <1>1, <1>6, OneMore
<1>7. ASSUME c \in S, T \subseteq S \ {c} PROVE Cardinality(T) + 1 <= Cardinality(S)
  BY <1>1, <1>7, OneLess
<1>8. /\ executed' = executed /\ T \subseteq S => Charged' <= Charged
      /\ executed' = executed /\ T \subseteq S \cup {c} => Charged' <= Charged + 1
      /\ executed' = executed /\ c \in S /\ T \subseteq S \ {c} => Charged' + 1 <= Charged
      /\ executed' = executed + 1 /\ c \in S /\ T \subseteq S \ {c} => Charged' <= Charged
  BY <1>2, <1>3, <1>4, <1>5, <1>6, <1>7
<1> QED BY <1>8 DEF S, T

(* A step that costs nothing, and leaves the faults alone or adds one. *)
LEMMA Free ==
  ASSUME ActionInv, ActionTypes', UNCHANGED Action!history, stored' => stored,
         Charged' <= Charged, actionFaults' = actionFaults \/ Action!Fault,
         (InHands => InHands') \/ ~stored' \/ Charged' + 1 <= Charged \/ Action!Fault
  PROVE  Budget'
<1>1. Charged \in Nat /\ actionFaults \in Nat BY Numbers DEF ActionInv
<1>2. Charged' \in Nat
  <2>1. executed' \in Nat /\ Open' \in SUBSET Users BY DEF ActionTypes, ExecutedOK, Open
  <2>2. Cardinality(Open') \in Nat BY <2>1, Counted
  <2> QED BY <2>1, <2>2 DEF Charged
<1>3. /\ actionFaults' \in {actionFaults, actionFaults + 1}
      /\ Action!Fault => actionFaults' = actionFaults + 1
  BY DEF Action!Fault
<1>4. Charged' + actionFaults <= Charged + actionFaults'
  BY <1>1, <1>2, <1>3, PaidOver
<1>5. Charged' + 1 <= Charged \/ Action!Fault
      => Charged' + actionFaults + 1 <= Charged + actionFaults'
  BY <1>1, <1>2, <1>3, PaidOver
<1>6. (InHands => InHands') \/ ~stored' \/ Charged' + actionFaults + 1 <= Charged + actionFaults'
  BY <1>5
<1> QED BY <1>4, <1>6, Steady

(* A fault pays for what it opens. *)
LEMMA OnFault ==
  ASSUME ActionInv, ActionTypes', UNCHANGED Action!history, stored' => stored,
         Charged' <= Charged + 1, Action!Fault, InHands => InHands'
  PROVE  Budget'
<1>1. Charged \in Nat /\ actionFaults \in Nat BY Numbers DEF ActionInv
<1>2. Charged' \in Nat
  <2>1. executed' \in Nat /\ Open' \in SUBSET Users BY DEF ActionTypes, ExecutedOK, Open
  <2>2. Cardinality(Open') \in Nat BY <2>1, Counted
  <2> QED BY <2>1, <2>2 DEF Charged
<1>3. actionFaults' = actionFaults + 1 BY DEF Action!Fault
<1>4. Charged' + actionFaults <= Charged + (actionFaults + 1) BY <1>1, <1>2, PaidByFault
<1>5. Charged' + actionFaults <= Charged + actionFaults' BY <1>3, <1>4
<1> QED BY <1>5, Steady

(* The handlers. *)
LEMMA ApproveInv ==
  ASSUME ActionInv, ActionTypes', NEW c \in Users, Action!Approve(c)
  PROVE  Fresh' /\ Budget'
<1>1. /\ click[c] = "new" /\ stored /\ click' = [click EXCEPT ![c] = "prepare"]
      /\ approvals' = approvals \cup {c}
      /\ UNCHANGED <<Action!queue, job, actionFaults, executed>>
  BY DEF Action!Approve, Action!Goto
<1>2. overlapped' = (overlapped \/ InHands) BY DEF Action!Approve, InHands
<1>3. click \in [Users -> ClickStates] BY DEF ActionInv, ActionTypes, ClickOK
<1>4. Fresh' BY <1>1, <1>3 DEF ActionInv, Fresh, Action!queue
<1>5. Open' \subseteq Open \cup {c} BY <1>1, <1>3 DEF Open, Action!queue
<1>6. Charged' <= Charged + 1 BY <1>1, <1>5, Costs DEF ActionInv
<1>7. c \notin approvals /\ IsFiniteSet(approvals)
  <2>1. approvals \in SUBSET Users BY DEF ActionInv, ActionTypes, ExecutedOK
  <2> QED BY <1>1, <2>1, Counted DEF ActionInv, Fresh
<1>8. Cardinality(approvals') = Cardinality(approvals) + 1
  BY <1>1, <1>7, FS_AddElement
<1>9. Charged \in Nat /\ actionFaults \in Nat /\ Cardinality(approvals) \in Nat
  BY Numbers DEF ActionInv
<1>10. Charged' \in Nat
  <2>1. executed' \in Nat /\ Open' \in SUBSET Users BY DEF ActionTypes, ExecutedOK, Open
  <2>2. Cardinality(Open') \in Nat BY <2>1, Counted
  <2> QED BY <2>1, <2>2 DEF Charged
<1>11. Charged' <= Cardinality(approvals') + actionFaults'
  <2>1. Charged <= Cardinality(approvals) + actionFaults BY DEF ActionInv, Budget
  <2> QED BY <1>1, <1>6, <1>8, <1>9, <1>10, <2>1
<1>12. ASSUME ~overlapped' PROVE Charged' <= 1 + actionFaults'
  <2>1. Charged <= actionFaults BY <1>1, <1>2, <1>12 DEF ActionInv, Budget
  <2> QED BY <1>1, <1>6, <1>9, <1>10, <2>1
<1>13. InHands' BY <1>1, <1>3 DEF InHands, Action!InHand
<1> QED BY <1>4, <1>11, <1>12, <1>13 DEF Budget

(* A dismissal opens no approval. *)
LEMMA RejectInv ==
  ASSUME ActionInv, ActionTypes', NEW c \in Users, Action!Reject(c) \/ Action!Dismiss(c)
  PROVE  Fresh' /\ Budget'
<1>1. UNCHANGED <<stored, Action!queue, job, actionFaults, Action!history, executed>>
  BY DEF Action!Reject, Action!Dismiss
<1>2. \/ click[c] = "new" /\ click' = [click EXCEPT ![c] = "reject"]
      \/ click[c] = "reject" /\ click' = [click EXCEPT ![c] = "rejected"]
  BY DEF Action!Reject, Action!Dismiss, Action!Goto
<1>3. click \in [Users -> ClickStates] BY DEF ActionInv, ActionTypes, ClickOK
<1>4. Fresh' BY <1>1, <1>2, <1>3 DEF ActionInv, Fresh, Action!queue, Action!history
<1>5. Open' \subseteq Open BY <1>1, <1>2, <1>3 DEF Open, Action!queue
<1>6. Charged' <= Charged BY <1>1, <1>5, Costs DEF ActionInv
<1>7. InHands => InHands' BY <1>2, <1>3 DEF InHands, Action!InHand
<1> QED BY <1>1, <1>4, <1>6, <1>7, Free

(* A handler that refuses closes its approval. *)
LEMMA PrepareInv ==
  ASSUME ActionInv, ActionTypes', NEW c \in Users, Action!Prepare(c)
  PROVE  Fresh' /\ Budget'
<1>1. /\ click[c] = "prepare"
      /\ UNCHANGED <<stored, Action!queue, job, actionFaults, Action!history, executed>>
      /\ \E at \in {"enqueue", "execute", "done"} : click' = [click EXCEPT ![c] = at]
  BY DEF Action!Prepare, Action!Goto
<1>2. click \in [Users -> ClickStates] BY DEF ActionInv, ActionTypes, ClickOK
<1>3. Fresh' BY <1>1, <1>2 DEF ActionInv, Fresh, Action!queue, Action!history
<1>4. Open' \subseteq Open BY <1>1, <1>2 DEF Open, Action!queue
<1>5. Charged' <= Charged BY <1>1, <1>4, Costs DEF ActionInv
<1>6. CASE click'[c] # "done"
  <2>1. InHands' BY <1>1, <1>2, <1>6 DEF InHands, Action!InHand
  <2> QED BY <1>1, <1>3, <1>5, <2>1, Free
<1>7. CASE click'[c] = "done"
  <2>1. phase[c] = "new" BY <1>1 DEF ActionInv, Fresh
  <2>2. job[c] = "none" BY <2>1 DEF ActionInv, ActionTypes, QueueOK, JobStates
  <2>3. c \in Open /\ Open' \subseteq Open \ {c}
    BY <1>1, <1>2, <1>7, <2>1, <2>2 DEF Open, Action!queue
  <2>4. Charged' + 1 <= Charged BY <1>1, <2>3, Costs DEF ActionInv
  <2> QED BY <1>1, <1>3, <1>5, <2>4, Free
<1> QED BY <1>6, <1>7

(* The approval of a handler that enqueues goes over to its message. *)
LEMMA EnqueueInv ==
  ASSUME ActionInv, ActionTypes', NEW c \in Users, Action!Enqueue(c)
  PROVE  Fresh' /\ Budget'
<1>1. /\ click[c] = "enqueue" /\ UNCHANGED <<stored, job, actionFaults, Action!history, executed>>
      /\ click' = [click EXCEPT ![c] = "approved"]
      /\ phase' = [phase EXCEPT ![c] = "queued"]
  BY DEF Action!Enqueue, Action!Goto, Action!Queue!Submit, Action!Queue!Move
<1>2. click \in [Users -> ClickStates] /\ phase \in [Users -> Action!Queue!Phases]
  BY DEF ActionInv, ActionTypes, ClickOK, QueueOK
<1>3. Fresh' BY <1>1, <1>2 DEF ActionInv, Fresh, Action!history
<1>4. Open' \subseteq Open BY <1>1, <1>2 DEF Open
<1>5. Charged' <= Charged BY <1>1, <1>4, Costs DEF ActionInv
<1>6. InHands' BY <1>1, <1>2 DEF InHands, Action!InHand
<1> QED BY <1>1, <1>3, <1>5, <1>6, Free

(* An execution closes the approval it uses, and so does a failed one. *)
LEMMA ExecuteNowInv ==
  ASSUME ActionInv, ActionTypes', NEW c \in Users, Action!ExecuteNow(c)
  PROVE  Fresh' /\ Budget'
<1>1. /\ click[c] = "execute"
      /\ UNCHANGED <<stored, Action!queue, job, actionFaults, Action!history>>
      /\ \E at \in {"executed", "failed"} : click' = [click EXCEPT ![c] = at]
      /\ executed' \in {executed, executed + 1}
  BY DEF Action!ExecuteNow, Action!Goto
<1>2. click \in [Users -> ClickStates] BY DEF ActionInv, ActionTypes, ClickOK
<1>3. Fresh' BY <1>1, <1>2 DEF ActionInv, Fresh, Action!queue, Action!history
<1>4. phase[c] = "new" BY <1>1 DEF ActionInv, Fresh
<1>5. job[c] = "none" BY <1>4 DEF ActionInv, ActionTypes, QueueOK, JobStates
<1>6. c \in Open /\ Open' \subseteq Open \ {c}
  BY <1>1, <1>2, <1>4, <1>5 DEF Open, Action!queue
<1>7. Charged' <= Charged BY <1>1, <1>6, Costs DEF ActionInv
<1>8. InHands' BY <1>1, <1>2 DEF InHands, Action!InHand
<1> QED BY <1>1, <1>3, <1>7, <1>8, Free

(* Writing the status costs nothing, and pays if it fails. *)
LEMMA PersistInv ==
  ASSUME ActionInv, ActionTypes', NEW c \in Users, Action!Persist(c)
  PROVE  Fresh' /\ Budget'
<1>1. /\ click[c] \in {"approved", "executed", "failed", "rejected"}
      /\ click' = [click EXCEPT ![c] = IF click[c] = "rejected" THEN "done" ELSE "say"]
      /\ UNCHANGED <<stored, Action!queue, job, Action!history, executed>>
  BY DEF Action!Persist, Action!Goto
<1>2. actionFaults' = actionFaults \/ Action!Fault BY DEF Action!Persist
<1>3. click \in [Users -> ClickStates] BY DEF ActionInv, ActionTypes, ClickOK
<1>4. Fresh' BY <1>1, <1>3 DEF ActionInv, Fresh, Action!queue, Action!history
<1>5. Open' \subseteq Open BY <1>1, <1>3 DEF Open, Action!queue
<1>6. Charged' <= Charged BY <1>1, <1>5, Costs DEF ActionInv
<1>7. InHands => InHands' BY <1>1, <1>3 DEF InHands, Action!InHand
<1> QED BY <1>1, <1>2, <1>4, <1>6, <1>7, Free

(* A handler that ends as it should takes the payload with it. *)
LEMMA DeleteInv ==
  ASSUME ActionInv, ActionTypes', NEW c \in Users, Action!Delete(c)
  PROVE  Fresh' /\ Budget'
<1>1. /\ click[c] = "say" /\ click' = [click EXCEPT ![c] = "done"] /\ ~stored'
      /\ UNCHANGED <<Action!queue, job, actionFaults, Action!history, executed>>
  BY DEF Action!Delete, Action!Goto
<1>2. click \in [Users -> ClickStates] BY DEF ActionInv, ActionTypes, ClickOK
<1>3. Fresh' BY <1>1, <1>2 DEF ActionInv, Fresh, Action!queue, Action!history
<1>4. Open' \subseteq Open BY <1>1, <1>2 DEF Open, Action!queue
<1>5. Charged' <= Charged BY <1>1, <1>4, Costs DEF ActionInv
<1> QED BY <1>1, <1>3, <1>5, Free

(* A handler that a fault ends leaves the payload, and the fault pays for the next one. *)
LEMMA FailInv ==
  ASSUME ActionInv, ActionTypes', NEW c \in Users, Action!Fail(c)
  PROVE  Fresh' /\ Budget'
<1>1. /\ click[c] # "new" /\ click' = [click EXCEPT ![c] = "done"]
      /\ UNCHANGED <<stored, job, Action!history, executed>> /\ Action!Fault
  BY DEF Action!Fail, Action!Goto
<1>2. \/ phase' = phase
      \/ click[c] = "enqueue" /\ phase' = [phase EXCEPT ![c] = "queued"]
  BY DEF Action!Fail, Action!queue, Action!Queue!Submit, Action!Queue!Move
<1>3. click \in [Users -> ClickStates] /\ phase \in [Users -> Action!Queue!Phases]
  BY DEF ActionInv, ActionTypes, ClickOK, QueueOK
<1>4. Fresh' BY <1>1, <1>2, <1>3 DEF ActionInv, Fresh, Action!history
<1>5. Open' \subseteq Open BY <1>1, <1>2, <1>3 DEF Open
<1>6. Charged' <= Charged BY <1>1, <1>5, Costs DEF ActionInv
<1> QED BY <1>1, <1>4, <1>6, Free

(* The worker. *)
LEMMA StartInv ==
  ASSUME ActionInv, ActionTypes', NEW c \in Users, Action!Start(c)
  PROVE  Fresh' /\ Budget'
<1>1. /\ phase[c] = "queued" /\ phase' = [phase EXCEPT ![c] = "running"]
      /\ job' = [job EXCEPT ![c] = "execute"]
      /\ UNCHANGED <<stored, click, actionFaults, Action!history, executed>>
  BY DEF Action!Start, Action!Work, Action!Queue!Start, Action!Queue!Move
<1>2. phase \in [Users -> Action!Queue!Phases] /\ job \in [Users -> JobStates]
  BY DEF ActionInv, ActionTypes, QueueOK
<1>3. Fresh' BY <1>1, <1>2 DEF ActionInv, Fresh, Action!history
<1>4. Open' \subseteq Open BY <1>1, <1>2 DEF Open
<1>5. Charged' <= Charged BY <1>1, <1>4, Costs DEF ActionInv
<1>6. InHands' = InHands BY <1>1 DEF InHands, Action!InHand
<1> QED BY <1>1, <1>3, <1>5, <1>6, Free

(* An execution by the worker uses the approval of its message. *)
LEMMA ExecuteInv ==
  ASSUME ActionInv, ActionTypes', NEW c \in Users, Action!Execute(c)
  PROVE  Fresh' /\ Budget'
<1>1. /\ job[c] = "execute"
      /\ UNCHANGED <<stored, click, Action!queue, actionFaults, Action!history>>
      /\ \/ job' = [job EXCEPT ![c] = "publish"] /\ executed' = executed + 1
         \/ job' = [job EXCEPT ![c] = "again"] /\ executed' = executed
         \/ job' = [job EXCEPT ![c] = "refused"] /\ executed' = executed
  BY DEF Action!Execute, Action!Work
<1>2. phase[c] = "running" /\ job \in [Users -> JobStates]
  BY <1>1 DEF ActionInv, ActionTypes, QueueOK
<1>3. click[c] \notin {"prepare", "enqueue", "execute"}
  BY <1>2 DEF ActionInv, Fresh
<1>4. Fresh' BY <1>1 DEF ActionInv, Fresh, Action!queue, Action!history
<1>5. /\ c \in Open /\ Open' \subseteq Open
      /\ executed' = executed + 1 => Open' \subseteq Open \ {c}
      /\ executed' \in {executed, executed + 1}
  <2>1. c \in Open /\ Open' \subseteq Open /\ executed' \in {executed, executed + 1}
    BY <1>1, <1>2 DEF Open, Action!queue
  <2>2. executed \in Nat BY DEF ActionInv, ActionTypes, ExecutedOK
  <2>3. ASSUME executed' = executed + 1 PROVE job' = [job EXCEPT ![c] = "publish"]
    BY <1>1, <2>2, <2>3
  <2>4. ASSUME executed' = executed + 1 PROVE Open' \subseteq Open \ {c}
    BY <1>1, <1>2, <1>3, <2>3, <2>4 DEF Open, Action!queue
  <2> QED BY <2>1, <2>4
<1>6. Charged' <= Charged BY <1>5, Costs DEF ActionInv
<1>7. InHands' = InHands BY <1>1 DEF InHands, Action!InHand
<1> QED BY <1>1, <1>4, <1>6, <1>7, Free

(* A result that is not published runs the action again, at the price of a fault. *)
LEMMA PublishInv ==
  ASSUME ActionInv, ActionTypes', NEW c \in Users, Action!Publish(c)
  PROVE  Fresh' /\ Budget'
<1>1. /\ job[c] \in {"publish", "again", "refused"} /\ job' = [job EXCEPT ![c] = "none"]
      /\ UNCHANGED <<stored, click, Action!history, executed>>
  BY DEF Action!Publish, Action!Work
<1>2. \E to \in {"queued", "done", "dead"} :
         /\ phase' = [phase EXCEPT ![c] = to]
         /\ \/ Action!Fault
            \/ actionFaults' = actionFaults /\ (to = "queued" => job[c] = "again")
  BY DEF Action!Publish, Action!Queue!Retry, Action!Queue!Bury, Action!Queue!Succeed,
         Action!Queue!Move
<1>3. /\ phase[c] = "running" /\ phase \in [Users -> Action!Queue!Phases]
      /\ job \in [Users -> JobStates]
  BY <1>1 DEF ActionInv, ActionTypes, QueueOK
<1>4. Fresh' BY <1>1, <1>2, <1>3 DEF ActionInv, Fresh, Action!history
<1>5. InHands' = InHands BY <1>1 DEF InHands, Action!InHand
<1>6. CASE Action!Fault
  <2>1. Open' \subseteq Open \cup {c} BY <1>1, <1>2, <1>3 DEF Open
  <2>2. Charged' <= Charged + 1 BY <1>1, <2>1, Costs DEF ActionInv
  <2> QED BY <1>1, <1>4, <1>5, <1>6, <2>2, OnFault
<1>7. CASE ~Action!Fault
  <2>1. Open' \subseteq Open BY <1>1, <1>2, <1>3, <1>7 DEF Open
  <2>2. Charged' <= Charged BY <1>1, <2>1, Costs DEF ActionInv
  <2>3. actionFaults' = actionFaults BY <1>2, <1>7
  <2> QED BY <1>1, <1>4, <1>5, <2>2, <2>3, Free
<1> QED BY <1>6, <1>7

(* Messages that are lost close their approvals. *)
LEMMA LoseInv ==
  ASSUME ActionInv, ActionTypes', NEW S \in SUBSET Users, Action!Lose(S)
  PROVE  Fresh' /\ Budget'
<1>1. /\ \A c \in S : phase[c] = "running"
      /\ phase' = [c \in Users |-> IF c \in S THEN "lost" ELSE phase[c]]
      /\ job' = [c \in Users |-> IF c \in S THEN "none" ELSE job[c]]
      /\ UNCHANGED <<stored, click, Action!history, executed>> /\ Action!Fault
  BY DEF Action!Lose, Action!Queue!Lose
<1>2. phase \in [Users -> Action!Queue!Phases] /\ job \in [Users -> JobStates]
  BY DEF ActionInv, ActionTypes, QueueOK
<1>3. Fresh' BY <1>1, <1>2 DEF ActionInv, Fresh, Action!history
<1>4. Open' \subseteq Open BY <1>1, <1>2 DEF Open
<1>5. Charged' <= Charged
  <2>1. Cardinality(Open') <= Cardinality(Open) BY <1>4, Numbers, FewerOrSame DEF ActionInv
  <2>2. Cardinality(Open') \in Nat /\ Cardinality(Open) \in Nat /\ executed \in Nat
    <3>1. Open' \in SUBSET Users BY DEF Open
    <3> QED BY <3>1, Counted, Numbers DEF ActionInv
  <2> QED BY <1>1, <2>1, <2>2 DEF Charged
<1> QED BY <1>1, <1>3, <1>5, Free

(* The process. *)
LEMMA ProcessInv ==
  ASSUME ActionInv, ActionTypes', Action!Expire \/ Action!Restart
  PROVE  Fresh' /\ Budget'
<1>1. ~stored' /\ UNCHANGED <<Action!queue, job, Action!history, executed>>
  BY DEF Action!Expire, Action!Restart
<1>2. actionFaults' = actionFaults \/ Action!Fault BY DEF Action!Expire, Action!Restart
<1>3. \/ click' = click
      \/ click' = [c \in Users |-> IF click[c] = "new" THEN "new" ELSE "done"]
  BY DEF Action!Expire, Action!Restart
<1>4. Fresh' BY <1>1, <1>3 DEF ActionInv, Fresh, Action!queue, Action!history
<1>5. Charged' <= Charged
  <2>1. Open' \subseteq Open BY <1>1, <1>3 DEF Open, Action!queue
  <2>2. Cardinality(Open') <= Cardinality(Open) BY <2>1, Numbers, FewerOrSame DEF ActionInv
  <2>3. Cardinality(Open') \in Nat /\ Cardinality(Open) \in Nat /\ executed \in Nat
    <3>1. Open' \in SUBSET Users BY DEF Open
    <3> QED BY <3>1, Counted, Numbers DEF ActionInv
  <2> QED BY <1>1, <2>2, <2>3 DEF Charged
<1> QED BY <1>1, <1>2, <1>4, <1>5, Free

-----------------------------------------------------------------------------
(* The theorem *)

(* Nothing is charged at the start. *)
LEMMA ActionInit == Action!Init => ActionInv
<1> SUFFICES ASSUME Action!Init PROVE ActionInv OBVIOUS
<1>1. ActionTypes BY ActionInitTypes
<1>2. Fresh BY DEF Action!Init, Fresh, Action!Queue!Init
<1>3. Open = {} BY DEF Action!Init, Open, Action!Queue!Init
<1>4. Charged = 0 /\ actionFaults = 0 /\ Cardinality(approvals) = 0
  BY <1>3, FS_EmptySet DEF Charged, Action!Init
<1>5. Budget BY <1>4 DEF Budget
<1> QED BY <1>1, <1>2, <1>5 DEF ActionInv

(* Every step keeps the budget. *)
LEMMA ActionNext ==
  ASSUME ActionInv, [Action!Next]_(Action!vars)
  PROVE  ActionInv'
<1>1. ActionTypes' BY ActionNextTypes DEF ActionInv
<1>2. CASE UNCHANGED Action!vars
  <2>1. Open' = Open BY <1>2 DEF Action!vars, Action!queue, Open
  <2>2. InHands' = InHands BY <1>2 DEF Action!vars, InHands, Action!InHand
  <2>3. Budget' BY <1>2, <2>1, <2>2 DEF Action!vars, Action!history, ActionInv, Budget, Charged
  <2>4. Fresh' BY <1>2 DEF Action!vars, Action!queue, Action!history, ActionInv, Fresh
  <2> QED BY <1>1, <2>3, <2>4 DEF ActionInv
<1>3. CASE Action!Next
  <2>1. Fresh' /\ Budget'
    BY <1>1, <1>3, ApproveInv, RejectInv, PrepareInv, EnqueueInv, ExecuteNowInv, PersistInv,
       DeleteInv, FailInv, StartInv, ExecuteInv, PublishInv, LoseInv, ProcessInv
    DEF Action!Next, Action!Handle, Action!Run
  <2> QED BY <1>1, <2>1 DEF ActionInv
<1> QED BY <1>2, <1>3

(* The instance's Cardinality is that of FiniteSets. *)
LEMMA ActionSets == \A S : Action!Cardinality(S) = Cardinality(S)
  BY Zenon DEF Action!Cardinality, Cardinality

(* An action is carried out once, and once more per fault; once per approval, and per
   fault, if approvals were handled at the same time. *)
THEOREM ExecutedOncePerApproval == Action!Spec => []Action!ExecutedOnce
<1>1. ActionInv => Action!ExecutedOnce
  <2> SUFFICES ASSUME ActionInv PROVE Action!ExecutedOnce OBVIOUS
  <2>1. /\ executed \in Nat /\ actionFaults \in Nat /\ Cardinality(Open) \in Nat
        /\ Cardinality(approvals) \in Nat
    BY Numbers DEF ActionInv
  <2>2. executed <= Charged BY <2>1 DEF Charged
  <2>3. Charged \in Nat BY Numbers DEF ActionInv
  <2>4. CASE overlapped
    BY <2>1, <2>2, <2>3, <2>4, ActionSets DEF ActionInv, Budget, Action!ExecutedOnce
  <2>5. CASE ~overlapped
    BY <2>1, <2>2, <2>3, <2>5 DEF ActionInv, Budget, Action!ExecutedOnce
  <2> QED BY <2>4, <2>5
<1> QED BY <1>1, ActionInit, ActionNext, PTL DEF Action!Spec

-----------------------------------------------------------------------------
(***************************************************************************)
(* The specification of all three: what a step of it does to the variables *)
(* of one part is a step of that part, or nothing.                         *)
(***************************************************************************)
LEMMA TeamPart == AllSpec => Spec
<1>1. AllInit => Init BY DEF AllInit
<1>2. [AllNext]_allVars => [Next]_vars
  <2>1. CASE AllNext BY <2>1 DEF AllNext
  <2>2. CASE UNCHANGED allVars BY <2>2 DEF allVars
  <2> QED BY <2>1, <2>2
<1> QED BY <1>1, <1>2, PTL DEF AllSpec, Spec

(* The same of the subscription, *)
LEMMA BillPart == AllSpec => Bill!Spec
<1>1. AllInit => Bill!Init BY DEF AllInit
<1>2. [AllNext]_allVars => [Bill!Next]_(Bill!vars)
  <2>1. UNCHANGED billVars => UNCHANGED Bill!vars
    BY DEF billVars, Bill!vars, Bill!history
  <2>2. CASE AllNext BY <2>1, <2>2 DEF AllNext
  <2>3. CASE UNCHANGED allVars BY <2>1, <2>3 DEF allVars
  <2> QED BY <2>2, <2>3
<1> QED BY <1>1, <1>2, PTL DEF AllSpec, Bill!Spec

(* and of the action. *)
LEMMA ActionPart == AllSpec => Action!Spec
<1>1. AllInit => Action!Init BY DEF AllInit
<1>2. [AllNext]_allVars => [Action!Next]_(Action!vars)
  <2>1. UNCHANGED actionVars => UNCHANGED Action!vars
    BY DEF actionVars, Action!vars, Action!queue, Action!history
  <2>2. CASE AllNext BY <2>1, <2>2 DEF AllNext
  <2>3. CASE UNCHANGED allVars BY <2>1, <2>3 DEF allVars
  <2> QED BY <2>2, <2>3
<1> QED BY <1>1, <1>2, PTL DEF AllSpec, Action!Spec

(* The rows and calls of a team, the subscription, and the pipeline of an action are typed. *)
THEOREM AllTyped == AllSpec => []TypesOK
BY TeamPart, BillPart, ActionPart, MembershipTypeCorrect, BillingTypeCorrect,
   ActionTypeCorrect, PTL DEF TypesOK

(* Events in order leave the row as Stripe has the subscription. *)
THEOREM RowFollowsStripe == AllSpec => []InSync
BY BillPart, OrderedEventsAgree, PTL DEF InSync

(* A subscription that ended leaves its tenant on the free plan. *)
THEOREM EndedIsFree == AllSpec => []CanceledIsFree
BY BillPart, CanceledPlanIsFree, PTL DEF CanceledIsFree

(* An action is executed once, but for presses that overlap and for faults. *)
THEOREM ActionsRunOnce == AllSpec => []ExecutedOnce
BY ActionPart, ExecutedOncePerApproval, PTL DEF ExecutedOnce

(* What holds of the steps of a team holds of them among the steps of the others: its last
   owner is lost only to an outdated read, its plan is exceeded only by a repair or an outdated
   count, and deleting an account takes the organization from newcomers only. *)
THEOREM TeamStepsKept ==
  AllSpec => LastOwnerKept /\ TeamWithinPlan /\ TakesOnlyNewcomers
BY TeamPart, LastOwnerProtected, TeamStaysWithinPlan, OnlyNewcomersLose, PTL
=============================================================================
