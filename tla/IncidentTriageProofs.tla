------------------------ MODULE IncidentTriageProofs ------------------------
(* Theorems about IncidentTriage, for every number of deliveries, fingerprints and replicas
   and every bound: its types, which deliveries may be dropped as duplicates, which alerts
   may be set aside, and how often a fingerprint notifies. *)
EXTENDS IncidentTriage, FiniteSetTheorems, TLAPS

USE TriageAssumption

(***************************************************************************)
(* Types. A process that is past Take has a job, and a request past        *)
(* Receive an alert; both keep it until they are done.                     *)
(***************************************************************************)
Busy(p) == worker[p].at # "idle"

Engaged ==
  /\ \A p \in Processes : Busy(p) => worker[p].job \in Job
  /\ \A r \in Requests : request[r].at # "idle" => request[r].alert \in Alerts

TypeInv == TypeOK /\ Engaged

Statuses == {"absent", "received", "processing", "deduped", "error", "triaged"}
Stages == {"handle", "mark", "check", "skip", "register", "analyse", "dispatch",
           "record", "finish", "reset", "failed", "done"}

\* The steps of a worker that keeps its job.
Pipeline(p) ==
  \/ Dispatch(p)
  \/ \E reply \in Replies :
       \/ Handle(p, reply) \/ Mark(p, reply) \/ Check(p, reply) \/ Skip(p, reply)
       \/ Register(p, reply) \/ Analyse(p, reply) \/ RecordDispatch(p, reply)
       \/ Finish(p, reply) \/ Reset(p, reply)

\* The steps by which the loop takes a job from the queue and puts it away.
PollStep(p) == \E reply \in Replies : Take(p, reply) \/ Ack(p, reply) \/ Settle(p, reply)

LEMMA WorkSteps == \A p : Work(p) <=> PollStep(p) \/ Pipeline(p)
BY DEF Work, Pipeline, PollStep

LEMMA ReplyType ==
  ASSUME TypeInv, NEW reply \in Replies, Reply(reply)
  PROVE  /\ faults' \in 0..MaxFaults /\ faults \in Nat
         /\ reply # "ok" => faults' = faults + 1
         /\ reply = "ok" => faults' = faults
BY DEF Reply, TypeInv, TypeOK

LEMMA HandlingType ==
  ASSUME TypeInv, NEW p \in Processes, Busy(p)
  PROVE  /\ worker[p].job \in Job /\ Handling(p) \in Alerts
         /\ FingerprintOf(p) \in Fingerprints \cup {None}
         /\ FingerprintOf(p) # None => Handling(p) \in Same(FingerprintOf(p))
<1>1. worker[p].job \in Job
  BY DEF TypeInv, Engaged
<1>2. Handling(p) \in Alerts
  BY <1>1 DEF Job, Handling
<1>3. QED
  BY <1>1, <1>2 DEF FingerprintOf, Same

\* Goto moves one worker, which keeps its job.
LEMMA GotoMoves ==
  ASSUME TypeInv, NEW p \in Processes, Busy(p), NEW at \in Stages, Goto(p, at)
  PROVE  /\ worker' \in [Processes -> Worker]
         /\ worker'[p].at = at /\ worker'[p].job = worker[p].job
         /\ \A q \in Processes \ {p} : worker'[q] = worker[q]
         /\ \A q \in Processes : worker'[q].at # "idle" => worker'[q].job \in Job
         /\ \A q \in Processes : worker'[q].at # "idle" <=> worker[q].at # "idle"
         /\ \A q \in Processes : worker'[q].job = worker[q].job
<1>1. worker \in [Processes -> Worker] /\ worker[p].job \in Job
      /\ \A q \in Processes : worker[q].at # "idle" => worker[q].job \in Job
  BY DEF TypeInv, TypeOK, Engaged, Busy
<1>2. worker[p] \in Worker
  BY <1>1
<1> DEFINE r == [worker[p] EXCEPT !.at = at]
<1>3. r \in Worker /\ r.at = at /\ r.job = worker[p].job
  BY <1>2 DEF Worker, Stages
<1>4. worker' = [worker EXCEPT ![p] = r]
  BY DEF Goto
<1>5. at # "idle"
  BY DEF Stages
<1> HIDE DEF r
<1>6. worker'[p] = r /\ \A q \in Processes \ {p} : worker'[q] = worker[q]
  BY <1>1, <1>4
<1>7. worker' \in [Processes -> Worker]
  BY <1>1, <1>3, <1>4
<1>8. QED
  BY <1>1, <1>3, <1>5, <1>6, <1>7 DEF Busy

LEMMA StatusSet ==
  ASSUME TypeInv, NEW a \in Alerts, NEW s \in Statuses \ {"absent"}, NEW reply,
         SetStatus(a, s, reply)
  PROVE  /\ status' \in [Alerts -> Statuses]
         /\ \A b \in Alerts : status'[b] = status[b] \/ (b = a /\ status'[b] = s)
         /\ \A b \in Alerts : status[b] # "absent" => status'[b] # "absent"
         /\ Applied(reply) => status'[a] = s
BY DEF SetStatus, TypeInv, TypeOK, Statuses

\* What no step of the pipeline touches, and what it does to the rest.
LEMMA PipelineMoves ==
  ASSUME TypeInv, NEW p \in Processes, Pipeline(p)
  PROVE  /\ Busy(p) /\ UNCHANGED <<queue, dead, request, enqueued, skipped, expiries,
                                   dropped, cutOff, receipts, crashes>>
         /\ \E at \in Stages : Goto(p, at)
         /\ faults' \in 0..MaxFaults /\ (faults' = faults \/ faults' = faults + 1)
         /\ status' \in [Alerts -> Statuses]
         /\ \A b \in Alerts : status[b] # "absent" => status'[b] # "absent"
         /\ \A b \in Alerts : status'[b] = status[b] \/ b = Handling(p)
<1>1. Busy(p) /\ UNCHANGED <<queue, dead, request, enqueued, skipped, expiries,
                             dropped, cutOff, receipts, crashes>>
  BY DEF Pipeline, Dispatch, Handle, Mark, Check, Skip, Register, Analyse, RecordDispatch,
         Finish, Reset, At, Busy
<1>2. \E at \in Stages : Goto(p, at)
  <2>1. Stages = {"handle", "mark", "check", "skip", "register", "analyse", "dispatch",
                  "record", "finish", "reset", "failed", "done"}
    BY DEF Stages
  <2> DEFINE Goes(at) == Goto(p, at)
  <2>2. (\E at \in Stages : Goes(at)) <=> \E at : at \in Stages /\ Goes(at)
    OBVIOUS
  <2>3. \E at : at \in Stages /\ Goes(at)
    <3>1. CASE Dispatch(p)
      BY <2>1, <3>1 DEF Dispatch
    <3>2. ASSUME NEW reply \in Replies, Handle(p, reply) PROVE \E at : at \in Stages /\ Goes(at)
      BY <2>1, <3>2 DEF Handle
    <3>3. ASSUME NEW reply \in Replies, Mark(p, reply) PROVE \E at : at \in Stages /\ Goes(at)
      BY <2>1, <3>3 DEF Mark
    <3>4. ASSUME NEW reply \in Replies, Check(p, reply) PROVE \E at : at \in Stages /\ Goes(at)
      BY <2>1, <3>4 DEF Check
    <3>5. ASSUME NEW reply \in Replies, Skip(p, reply) PROVE \E at : at \in Stages /\ Goes(at)
      BY <2>1, <3>5 DEF Skip
    <3>6. ASSUME NEW reply \in Replies, Register(p, reply) PROVE \E at : at \in Stages /\ Goes(at)
      BY <2>1, <3>6 DEF Register
    <3>7. ASSUME NEW reply \in Replies, Analyse(p, reply) PROVE \E at : at \in Stages /\ Goes(at)
      BY <2>1, <3>7 DEF Analyse
    <3>8. ASSUME NEW reply \in Replies, RecordDispatch(p, reply) PROVE \E at : at \in Stages /\ Goes(at)
      BY <2>1, <3>8 DEF RecordDispatch
    <3>9. ASSUME NEW reply \in Replies, Finish(p, reply) PROVE \E at : at \in Stages /\ Goes(at)
      BY <2>1, <3>9 DEF Finish
    <3>10. ASSUME NEW reply \in Replies, Reset(p, reply) PROVE \E at : at \in Stages /\ Goes(at)
      BY <2>1, <3>10 DEF Reset
    <3>11. QED
      BY <3>1, <3>2, <3>3, <3>4, <3>5, <3>6, <3>7, <3>8, <3>9, <3>10 DEF Pipeline
  <2>4. QED
    BY <2>3
<1>3. faults' \in 0..MaxFaults /\ (faults' = faults \/ faults' = faults + 1)
  <2>1. CASE Dispatch(p)
    BY <2>1 DEF Dispatch, TypeInv, TypeOK
  <2>2. ASSUME NEW reply \in Replies, Reply(reply)
        PROVE  faults' \in 0..MaxFaults /\ (faults' = faults \/ faults' = faults + 1)
    BY <2>2, ReplyType
  <2>3. QED
    BY <2>1, <2>2 DEF Pipeline, Handle, Mark, Check, Skip, Register, Analyse, RecordDispatch,
                      Finish, Reset
<1>4. \/ UNCHANGED status
      \/ \E s \in Statuses \ {"absent"} : \E reply \in Replies : SetStatus(Handling(p), s, reply)
  BY DEF Statuses, Pipeline, Dispatch, Handle, Mark, Check, Skip, Register, Analyse,
         RecordDispatch, Finish, Reset
<1>5. /\ status' \in [Alerts -> Statuses]
      /\ \A b \in Alerts : status[b] # "absent" => status'[b] # "absent"
      /\ \A b \in Alerts : status'[b] = status[b] \/ b = Handling(p)
  <2>1. CASE UNCHANGED status
    BY <2>1 DEF TypeInv, TypeOK, Statuses
  <2>2. CASE \E s \in Statuses \ {"absent"} : \E reply \in Replies :
               SetStatus(Handling(p), s, reply)
    <3>1. PICK a \in Alerts : a = Handling(p)
      BY <1>1, HandlingType
    <3>2. PICK s \in Statuses \ {"absent"}, reply \in Replies : SetStatus(a, s, reply)
      BY <2>2, <3>1
    <3>3. QED
      BY <3>1, <3>2, StatusSet
  <2>3. QED
    BY <1>4, <2>1, <2>2
<1>6. QED
  BY <1>1, <1>2, <1>3, <1>5

LEMMA TypeInit == Init => TypeInv
<1> SUFFICES ASSUME Init PROVE TypeInv
  OBVIOUS
<1>1. NoRequest \in Request /\ Polling \in Worker /\ NoRequest.at = "idle" /\ Polling.at = "idle"
  BY DEF NoRequest, Polling, Request, Worker
<1>2. queue \in Seq(Job)
  BY DEF Init
<1>3. request \in [Requests -> Request] /\ worker \in [Processes -> Worker]
  BY <1>1 DEF Init
<1>4. /\ races \in [Fingerprints -> Nat] /\ expiries \in [Fingerprints -> 0..MaxExpiries]
      /\ dispatched \in [Alerts -> Nat]
      /\ receipts \in 0..MaxReceipts /\ faults \in 0..MaxFaults /\ crashes \in 0..MaxCrashes
  BY DEF Init
<1>5. TypeOK
  BY <1>2, <1>3, <1>4 DEF Init, TypeOK
<1>6. Engaged
  BY <1>1 DEF Init, Engaged, Busy
<1>7. QED
  BY <1>5, <1>6 DEF TypeInv

\* An answer ends a request, or moves it on with its alert.
LEMMA RequestMoves ==
  ASSUME TypeInv, NEW r \in Requests, NEW new \in Request, new.at # "idle" => new.alert \in Alerts,
         request' = [request EXCEPT ![r] = new]
  PROVE  /\ request' \in [Requests -> Request] /\ request'[r] = new
         /\ \A q \in Requests \ {r} : request'[q] = request[q]
         /\ \A q \in Requests : request'[q].at # "idle" => request'[q].alert \in Alerts
<1>1. request \in [Requests -> Request]
      /\ \A q \in Requests : request[q].at # "idle" => request[q].alert \in Alerts
  BY DEF TypeInv, TypeOK, Engaged
<1>2. QED
  BY <1>1

LEMMA RequestTypes ==
  /\ NoRequest \in Request /\ NoRequest.at = "idle"
  /\ \A a \in Alerts, at \in {"insert", "enqueue"}, p \in Processes \cup {None} :
       /\ [at |-> at, alert |-> a, by |-> p] \in Request
       /\ [at |-> at, alert |-> a, by |-> p].at = at
       /\ [at |-> at, alert |-> a, by |-> p].alert = a
BY DEF NoRequest, Request

LEMMA InsertMoves ==
  ASSUME TypeInv, NEW r \in Requests, NEW reply \in Replies, Insert(r, reply)
  PROVE  \E a \in Alerts, new \in Request :
           /\ request[r].alert = a /\ request[r].at = "insert"
           /\ status' \in [Alerts -> Statuses]
           /\ \A b \in Alerts \ {a} : status'[b] = status[b]
           /\ \/ status[a] = "absent" /\ status'[a] = "received" /\ reply # "rejected"
              \/ status'[a] = status[a]
           /\ request' = [request EXCEPT ![r] = new]
           /\ new.at # "idle" => new.alert = a
           /\ new.at = IF reply = "ok" /\ status[a] = "absent" THEN "enqueue" ELSE "idle"
           /\ reply = "ok" => status'[a] # "absent"
<1>1. PICK a \in Alerts : request[r].alert = a /\ request[r].at = "insert"
  BY DEF Insert, TypeInv, Engaged
<1>2. request[r] \in Request /\ status \in [Alerts -> Statuses]
  BY DEF TypeInv, TypeOK, Statuses
<1> DEFINE new == IF reply = "ok" /\ status[a] = "absent"
                  THEN [request[r] EXCEPT !.at = "enqueue"] ELSE NoRequest
<1>3. /\ new \in Request /\ (new.at # "idle" => new.alert = a)
      /\ new.at = IF reply = "ok" /\ status[a] = "absent" THEN "enqueue" ELSE "idle"
  <2>1. CASE reply = "ok" /\ status[a] = "absent"
    BY <1>1, <1>2, <2>1 DEF Request
  <2>2. CASE ~(reply = "ok" /\ status[a] = "absent")
    BY <2>2, RequestTypes
  <2>3. QED
    BY <2>1, <2>2
<1>4. request' = [request EXCEPT ![r] = new]
  BY <1>1 DEF Insert
<1> HIDE DEF new
<1>5. CASE status[a] = "absent"
  <2>1. SetStatus(a, "received", reply)
    BY <1>1, <1>5 DEF Insert
  <2>2. /\ status' \in [Alerts -> Statuses]
        /\ \A b \in Alerts \ {a} : status'[b] = status[b]
        /\ \/ status'[a] = "received" /\ reply # "rejected"
           \/ status'[a] = status[a] /\ reply = "rejected"
    BY <1>2, <2>1 DEF SetStatus, Applied, Statuses
  <2>3. QED
    BY <1>1, <1>3, <1>4, <1>5, <2>2
<1>6. CASE status[a] # "absent"
  <2>1. status' = status
    BY <1>1, <1>6 DEF Insert
  <2>2. QED
    BY <1>1, <1>2, <1>3, <1>4, <1>6, <2>1
<1>7. QED
  BY <1>5, <1>6

LEMMA RequestType ==
  ASSUME TypeInv, NEW r \in Requests,
         Respond(r) \/ \E p \in Processes, a \in Alerts : Receive(r, p, a)
  PROVE  TypeInv'
<1>1. TypeOK /\ Engaged
  BY DEF TypeInv
<1>2. UNCHANGED <<window, dead, worker, dispatched, expiries, races, dropped, cutOff, crashes>>
  BY DEF Respond, Insert, Enqueue, Receive
<1>3. ASSUME NEW p \in Processes, NEW a \in Alerts, Receive(r, p, a) PROVE TypeInv'
  <2>1. UNCHANGED <<status, queue, enqueued, faults>> /\ receipts' \in 0..MaxReceipts
        /\ skipped' \subseteq Alerts
    BY <1>1, <1>3 DEF Receive, TypeOK
  <2>2. request' \in [Requests -> Request]
        /\ \A q \in Requests : request'[q].at # "idle" => request'[q].alert \in Alerts
    <3>1. CASE request' = request
      BY <1>1, <3>1 DEF TypeOK, Engaged
    <3>2. CASE request' = [request EXCEPT ![r] = [at |-> "insert", alert |-> a, by |-> p]]
      BY <3>2, RequestTypes, RequestMoves
    <3>3. QED
      BY <1>3, <3>1, <3>2 DEF Receive
  <2>3. TypeOK'
    BY <1>1, <1>2, <2>1, <2>2 DEF TypeOK
  <2>4. QED
    BY <1>1, <1>2, <2>2, <2>3 DEF TypeInv, Engaged, Busy
<1>4. ASSUME NEW reply \in Replies, Insert(r, reply) PROVE TypeInv'
  <2>1. UNCHANGED <<queue, enqueued, skipped, receipts>> /\ faults' \in 0..MaxFaults
    BY <1>4, ReplyType DEF Insert
  <2>2. PICK a \in Alerts, new \in Request :
          /\ status' \in [Alerts -> Statuses]
          /\ request' = [request EXCEPT ![r] = new]
          /\ new.at # "idle" => new.alert = a
    BY <1>4, InsertMoves
  <2>3. request' \in [Requests -> Request]
        /\ \A q \in Requests : request'[q].at # "idle" => request'[q].alert \in Alerts
    BY <2>2, RequestMoves
  <2>4. TypeOK'
    BY <1>1, <1>2, <2>1, <2>2, <2>3 DEF TypeOK, Statuses
  <2>5. QED
    BY <1>1, <1>2, <2>3, <2>4 DEF TypeInv, Engaged, Busy
<1>5. ASSUME NEW reply \in Replies, Enqueue(r, reply) PROVE TypeInv'
  <2>1. UNCHANGED <<status, skipped, receipts>> /\ faults' \in 0..MaxFaults
        /\ request' = [request EXCEPT ![r] = NoRequest]
    BY <1>5, ReplyType DEF Enqueue
  <2>2. request' \in [Requests -> Request]
        /\ \A q \in Requests : request'[q].at # "idle" => request'[q].alert \in Alerts
    BY <2>1, RequestTypes, RequestMoves
  <2>3. PICK a \in Alerts : a = request[r].alert
    BY <1>1, <1>5 DEF Enqueue, Engaged
  <2>4. [alert |-> a, retry |-> 0] \in Job
    BY DEF Job
  <2>5. queue' \in Seq(Job) /\ enqueued' \subseteq Alerts
    <3>1. queue \in Seq(Job) /\ enqueued \subseteq Alerts
      BY <1>1 DEF TypeOK
    <3>2. \/ UNCHANGED <<queue, enqueued>>
          \/ /\ queue' = Append(queue, [alert |-> a, retry |-> 0])
             /\ enqueued' = enqueued \cup {a}
      BY <1>5, <2>3 DEF Enqueue
    <3> DEFINE j == [alert |-> a, retry |-> 0]
    <3>3. /\ j \in Job
          /\ \/ UNCHANGED <<queue, enqueued>>
             \/ queue' = Append(queue, j) /\ enqueued' = enqueued \cup {a}
      BY <2>4, <3>2
    <3> HIDE DEF j
    <3>4. queue' \in Seq(Job)
      BY <3>1, <3>3
    <3>5. enqueued' \subseteq Alerts
      BY <3>1, <3>3
    <3>6. QED
      BY <3>4, <3>5
  <2>6. TypeOK'
    BY <1>1, <1>2, <2>1, <2>2, <2>5 DEF TypeOK
  <2>7. QED
    BY <1>1, <1>2, <2>2, <2>6 DEF TypeInv, Engaged, Busy
<1>6. QED
  BY <1>3, <1>4, <1>5 DEF Respond

\* A worker takes a job, or puts it away.
LEMMA WorkerMoves ==
  ASSUME TypeInv, NEW p \in Processes, NEW r \in Worker, r.at # "idle" => r.job \in Job,
         worker' = [worker EXCEPT ![p] = r]
  PROVE  /\ worker' \in [Processes -> Worker] /\ worker'[p] = r
         /\ \A q \in Processes \ {p} : worker'[q] = worker[q]
         /\ \A q \in Processes : worker'[q].at # "idle" => worker'[q].job \in Job
<1>1. worker \in [Processes -> Worker]
      /\ \A q \in Processes : worker[q].at # "idle" => worker[q].job \in Job
  BY DEF TypeInv, TypeOK, Engaged, Busy
<1>2. QED
  BY <1>1

LEMMA PollingType ==
  Polling \in Worker /\ Polling.at = "idle" /\ Polling.job = None /\ Polling.caught = FALSE
BY DEF Polling, Worker

LEMMA TakeMoves ==
  ASSUME TypeInv, NEW p \in Processes, NEW reply \in Replies, Take(p, reply)
  PROVE  /\ queue \in Seq(Job) /\ queue # <<>> /\ Head(queue) \in Job
         /\ queue' = Tail(queue) \/ queue' = queue
         /\ queue' \in Seq(Job) /\ worker[p].at = "idle"
         /\ \/ worker' = worker
            \/ \E new \in Worker :
                 /\ worker' = [worker EXCEPT ![p] = new]
                 /\ new.at = "handle" /\ new.job = Head(queue)
<1>1. queue \in Seq(Job) /\ queue # <<>>
  BY DEF TypeInv, TypeOK, Take
<1>2. Head(queue) \in Job /\ Tail(queue) \in Seq(Job)
  BY <1>1
<1>3. queue' = Tail(queue) \/ queue' = queue
  BY DEF Take
<1>4. worker[p].at = "idle"
  BY DEF Take, At
<1>5. CASE reply # "ok"
  BY <1>1, <1>2, <1>3, <1>4, <1>5 DEF Take
<1>6. CASE reply = "ok"
  <2> DEFINE new == [Polling EXCEPT !.at = "handle", !.job = Head(queue)]
  <2>1. new \in Worker /\ new.at = "handle" /\ new.job = Head(queue)
    BY <1>2 DEF Polling, Worker
  <2>2. worker' = [worker EXCEPT ![p] = new]
    BY <1>6 DEF Take
  <2> HIDE DEF new
  <2>3. QED
    BY <1>1, <1>2, <1>3, <1>4, <2>1, <2>2
<1>7. QED
  BY <1>5, <1>6

\* A worker keeps a job it could not put away, for the catch block; with a reply it polls.
LEMMA PutAway ==
  ASSUME TypeInv, NEW p \in Processes, NEW reply \in Replies, Ack(p, reply) \/ Settle(p, reply)
  PROVE  /\ Busy(p) /\ worker[p].at \in {"done", "failed"}
         /\ \E new \in Worker :
              /\ worker' = [worker EXCEPT ![p] = new] /\ new.at \in {"idle", "failed"}
              /\ new.at # "idle" => new.job = worker[p].job /\ reply # "ok"
<1>1. Busy(p) /\ worker[p].at \in {"done", "failed"}
  BY DEF Ack, Settle, At, Busy
<1>2. worker[p] \in Worker /\ worker \in [Processes -> Worker]
  BY DEF TypeInv, TypeOK
<1> DEFINE new == [worker[p] EXCEPT !.at = "failed", !.caught = TRUE]
<1>3. new \in Worker /\ new.at = "failed" /\ new.job = worker[p].job
  BY <1>2 DEF Worker
<1>4. CASE reply = "ok"
  <2>1. worker' = [worker EXCEPT ![p] = Polling]
    BY <1>4 DEF Ack, Settle
  <2>2. QED
    BY <1>1, <2>1, PollingType
<1>5. CASE reply # "ok"
  <2>1. CASE Ack(p, reply)
    <3>1. worker' = [worker EXCEPT ![p] = new]
      BY <1>5, <2>1 DEF Ack
    <3> HIDE DEF new
    <3>2. QED
      BY <1>1, <1>3, <1>5, <3>1
  <2>2. CASE Settle(p, reply) /\ worker[p].caught
    <3>1. worker' = [worker EXCEPT ![p] = Polling]
      BY <2>2 DEF Settle
    <3>2. QED
      BY <1>1, <3>1, PollingType
  <2>3. CASE Settle(p, reply) /\ ~worker[p].caught
    <3> DEFINE kept == [worker[p] EXCEPT !.caught = TRUE]
    <3>1. kept \in Worker /\ kept.at = "failed" /\ kept.job = worker[p].job
      BY <1>2, <2>3 DEF Worker, Settle, At
    <3>2. worker' = [worker EXCEPT ![p] = kept]
      BY <1>5, <2>3 DEF Settle
    <3> HIDE DEF kept
    <3>3. QED
      BY <1>1, <1>5, <3>1, <3>2
  <2>4. QED
    BY <2>1, <2>2, <2>3
<1>6. QED
  BY <1>4, <1>5

LEMMA SettleMoves ==
  ASSUME TypeInv, NEW p \in Processes, NEW reply \in Replies, Settle(p, reply)
  PROVE  /\ dead' \subseteq Alerts /\ dropped' \subseteq Alerts /\ queue' \in Seq(Job)
         /\ \/ queue' = queue
            \/ \E j \in Job : j.alert = Handling(p) /\ queue' = Append(queue, j)
<1>1. worker[p].job \in Job /\ queue \in Seq(Job) /\ worker[p].job.alert \in Alerts
  BY PutAway, HandlingType DEF TypeInv, TypeOK, Handling
<1>2. \/ queue' = queue
      \/ \E j \in Job : j.alert = Handling(p) /\ queue' = Append(queue, j)
  <2>1. CASE Applied(reply) /\ worker[p].job.retry < MaxRetries
    <3> DEFINE j == [worker[p].job EXCEPT !.retry = @ + 1]
    <3>1. j \in Job /\ j.alert = worker[p].job.alert
      <4>1. worker[p].job.retry + 1 \in 0..MaxRetries
        BY <1>1, <2>1 DEF Job
      <4>2. QED
        BY <1>1, <4>1 DEF Job
    <3>2. queue' = Append(queue, j)
      BY <2>1 DEF Settle
    <3>3. QED
      BY <3>1, <3>2 DEF Handling
  <2>2. CASE ~(Applied(reply) /\ worker[p].job.retry < MaxRetries)
    BY <2>2 DEF Settle
  <2>3. QED
    BY <2>1, <2>2
<1>3. queue' \in Seq(Job)
  BY <1>1, <1>2
<1>4. dead' \subseteq Alerts /\ dropped' \subseteq Alerts
  BY <1>1 DEF Settle, TypeInv, TypeOK
<1>5. QED
  BY <1>2, <1>3, <1>4

\* What taking a job and putting it away leave alone, and what they do to the worker.
LEMMA PollMoves ==
  ASSUME TypeInv, NEW p \in Processes, PollStep(p)
  PROVE  /\ UNCHANGED <<status, window, request, enqueued, skipped, dispatched, expiries,
                         races, cutOff, receipts, crashes>>
         /\ faults' \in 0..MaxFaults /\ (faults' = faults \/ faults' = faults + 1)
         /\ worker' \in [Processes -> Worker]
         /\ \A q \in Processes \ {p} : worker'[q] = worker[q]
         /\ \A q \in Processes : worker'[q].at # "idle" => worker'[q].job \in Job
         /\ \/ worker'[p] = worker[p]
            \/ /\ worker'[p].at \in {"idle", "handle", "failed"}
               /\ worker[p].at \in {"idle", "failed", "done"}
<1>1. PICK reply \in Replies : Take(p, reply) \/ Ack(p, reply) \/ Settle(p, reply)
  BY DEF PollStep
<1>2. UNCHANGED <<status, window, request, enqueued, skipped, dispatched, expiries,
                  races, cutOff, receipts, crashes>>
  BY <1>1 DEF Take, Ack, Settle
<1>3. faults' \in 0..MaxFaults /\ (faults' = faults \/ faults' = faults + 1)
  BY <1>1, ReplyType DEF Take, Ack, Settle
<1>4. /\ worker \in [Processes -> Worker]
      /\ \A q \in Processes : worker[q].at # "idle" => worker[q].job \in Job
  BY DEF TypeInv, TypeOK, Engaged, Busy
<1>5. CASE worker' = worker
  BY <1>2, <1>3, <1>4, <1>5
<1>6. CASE worker' # worker
  <2>1. PICK new \in Worker :
          /\ worker' = [worker EXCEPT ![p] = new] /\ new.at \in {"idle", "handle", "failed"}
          /\ new.at # "idle" => new.job \in Job
    <3>1. CASE Take(p, reply)
      BY <1>6, <3>1, TakeMoves
    <3>2. CASE Ack(p, reply) \/ Settle(p, reply)
      BY <1>4, <3>2, PutAway DEF Busy
    <3>3. QED
      BY <1>1, <3>1, <3>2
  <2>2. /\ worker' \in [Processes -> Worker] /\ worker'[p] = new
        /\ \A q \in Processes \ {p} : worker'[q] = worker[q]
        /\ \A q \in Processes : worker'[q].at # "idle" => worker'[q].job \in Job
    BY <2>1, WorkerMoves
  <2>3. worker[p].at \in {"idle", "failed", "done"}
    BY <1>1, TakeMoves, PutAway
  <2>4. QED
    BY <1>2, <1>3, <2>1, <2>2, <2>3
<1>7. QED
  BY <1>5, <1>6

LEMMA PollLists ==
  ASSUME TypeInv, NEW p \in Processes, PollStep(p)
  PROVE  queue' \in Seq(Job) /\ dead' \subseteq Alerts /\ dropped' \subseteq Alerts
<1>1. queue \in Seq(Job) /\ dead \subseteq Alerts /\ dropped \subseteq Alerts
  BY DEF TypeInv, TypeOK
<1>2. ASSUME NEW reply \in Replies, Take(p, reply)
      PROVE  queue' \in Seq(Job) /\ dead' \subseteq Alerts /\ dropped' \subseteq Alerts
  <2>1. queue' \in Seq(Job) /\ Head(queue).alert \in Alerts
    BY <1>2, TakeMoves DEF Job
  <2>2. QED
    BY <1>1, <1>2, <2>1 DEF Take
<1>3. ASSUME NEW reply \in Replies, Ack(p, reply)
      PROVE  queue' \in Seq(Job) /\ dead' \subseteq Alerts /\ dropped' \subseteq Alerts
  BY <1>1, <1>3 DEF Ack
<1>4. QED
  BY <1>2, <1>3, SettleMoves DEF PollStep

LEMMA WorkType ==
  ASSUME TypeInv, NEW p \in Processes, Work(p)
  PROVE  TypeInv'
<1>1. TypeOK /\ Engaged
  BY DEF TypeInv
<1>2. CASE PollStep(p)
  <2>1. /\ UNCHANGED <<status, window, request, enqueued, skipped, dispatched, expiries,
                        races, cutOff, receipts, crashes>>
        /\ faults' \in 0..MaxFaults /\ worker' \in [Processes -> Worker]
        /\ \A q \in Processes : worker'[q].at # "idle" => worker'[q].job \in Job
    BY <1>2, PollMoves
  <2>2. queue' \in Seq(Job) /\ dead' \subseteq Alerts /\ dropped' \subseteq Alerts
    BY <1>2, PollLists
  <2>3. TypeOK'
    BY <1>1, <2>1, <2>2 DEF TypeOK
  <2>4. QED
    BY <1>1, <2>1, <2>3 DEF TypeInv, Engaged, Busy
<1>4. CASE Pipeline(p)
  <2>1. /\ Busy(p) /\ UNCHANGED <<queue, dead, request, enqueued, skipped, expiries,
                                  dropped, cutOff, receipts, crashes>>
        /\ faults' \in 0..MaxFaults /\ status' \in [Alerts -> Statuses]
    BY <1>4, PipelineMoves
  <2>2. /\ worker' \in [Processes -> Worker]
        /\ \A q \in Processes : worker'[q].at # "idle" => worker'[q].job \in Job
    BY <1>4, <2>1, PipelineMoves, GotoMoves
  <2>3. PICK a \in Alerts, f \in Fingerprints \cup {None} :
          a = Handling(p) /\ f = FingerprintOf(p)
    BY <2>1, HandlingType
  <2>4. dispatched' \in [Alerts -> Nat]
    <3>1. dispatched' = dispatched \/ dispatched' = [dispatched EXCEPT ![a] = @ + 1]
      BY <1>4, <2>3 DEF Pipeline, Dispatch, Handle, Mark, Check, Skip, Register, Analyse,
                        RecordDispatch, Finish, Reset
    <3>2. dispatched \in [Alerts -> Nat]
      BY <1>1 DEF TypeOK
    <3>3. QED
      BY <3>1, <3>2
  <2>5. window' \in [Fingerprints -> Alerts \cup {None}] /\ races' \in [Fingerprints -> Nat]
    <3>1. CASE UNCHANGED <<window, races>>
      BY <1>1, <3>1 DEF TypeOK
    <3>2. CASE /\ f # None /\ window' = [window EXCEPT ![f] = a]
               /\ races' = [races EXCEPT ![f] = IF window[f] = None THEN @ ELSE @ + 1]
      BY <1>1, <3>2 DEF TypeOK
    <3>3. QED
      BY <1>4, <2>3, <3>1, <3>2 DEF Pipeline, Dispatch, Handle, Mark, Check, Skip, Register,
                                    Analyse, RecordDispatch, Finish, Reset
  <2>6. TypeOK'
    BY <1>1, <2>1, <2>2, <2>4, <2>5 DEF TypeOK, Statuses
  <2>7. QED
    BY <1>1, <2>1, <2>2, <2>6 DEF TypeInv, Engaged, Busy
<1>5. QED
  BY <1>2, <1>4, WorkSteps

\* A crash ends the requests of a replica and the job of its loop.
LEMMA CrashMoves ==
  ASSUME TypeInv, NEW p \in Processes, Crash(p)
  PROVE  /\ worker' \in [Processes -> Worker] /\ worker'[p] = Polling
         /\ \A q \in Processes \ {p} : worker'[q] = worker[q]
         /\ \A q \in Processes : Busy(q)' => Busy(q) /\ worker'[q] = worker[q]
         /\ request' \in [Requests -> Request]
         /\ \A r \in Requests : request[r].by # p => request'[r] = request[r]
         /\ \A r \in Requests : request'[r].at # "idle" => request'[r] = request[r]
         /\ UNCHANGED <<status, window, queue, dead, enqueued, skipped, dispatched,
                        expiries, races, receipts, faults>>
         /\ crashes' = crashes + 1
<1>1. worker \in [Processes -> Worker] /\ request \in [Requests -> Request]
  BY DEF TypeInv, TypeOK
<1>2. worker' \in [Processes -> Worker] /\ worker'[p] = Polling
      /\ \A q \in Processes \ {p} : worker'[q] = worker[q]
  BY <1>1, PollingType DEF Crash
<1>3. \A q \in Processes : Busy(q)' => Busy(q) /\ worker'[q] = worker[q]
  BY <1>2, PollingType DEF Busy
<1>4. \A r \in Requests :
        request'[r] = IF request[r].by = p THEN NoRequest ELSE request[r]
  BY DEF Crash
<1>5. request' \in [Requests -> Request]
  <2>1. request' = [r \in Requests |-> IF request[r].by = p THEN NoRequest ELSE request[r]]
    BY DEF Crash
  <2>2. \A r \in Requests :
          (IF request[r].by = p THEN NoRequest ELSE request[r]) \in Request
    BY <1>1, RequestTypes
  <2>3. QED
    BY <2>1, <2>2
<1>6. /\ \A r \in Requests : request[r].by # p => request'[r] = request[r]
      /\ \A r \in Requests : request'[r].at # "idle" => request'[r] = request[r]
  BY <1>4, RequestTypes
<1>7. QED
  BY <1>2, <1>3, <1>5, <1>6 DEF Crash

\* The requests a crash of p ends between the INSERT and the enqueue.
CutBy(p) == {r \in Requests : request[r].by = p /\ request[r].at = "enqueue"}

LEMMA CutIsFinite == \A p : IsFiniteSet(CutBy(p)) /\ Cardinality(CutBy(p)) \in Nat
<1>1. \A p : CutBy(p) \subseteq Requests
  BY DEF CutBy
<1>2. IsFiniteSet(Requests)
  OBVIOUS
<1>3. QED
  BY <1>1, <1>2, FS_Subset, FS_CardinalityType

LEMMA EnvironmentType ==
  ASSUME TypeInv, (\E f \in Fingerprints : Expire(f)) \/ \E p \in Processes : Crash(p)
  PROVE  TypeInv'
<1>1. TypeOK /\ Engaged
  BY DEF TypeInv
<1>2. ASSUME NEW f \in Fingerprints, Expire(f) PROVE TypeInv'
  <2>1. /\ window' \in [Fingerprints -> Alerts \cup {None}]
        /\ expiries' \in [Fingerprints -> 0..MaxExpiries]
    BY <1>1, <1>2 DEF Expire, TypeOK
  <2>2. UNCHANGED <<status, queue, dead, request, worker, enqueued, skipped, dispatched,
                    races, dropped, cutOff, receipts, faults, crashes>>
    BY <1>2 DEF Expire
  <2>3. TypeOK'
    BY <1>1, <2>1, <2>2 DEF TypeOK
  <2>4. QED
    BY <1>1, <2>2, <2>3 DEF TypeInv, Engaged, Busy
<1>3. ASSUME NEW p \in Processes, Crash(p) PROVE TypeInv'
  <2>1. /\ worker' \in [Processes -> Worker] /\ request' \in [Requests -> Request]
        /\ UNCHANGED <<status, window, queue, dead, enqueued, skipped, dispatched,
                       expiries, races, receipts, faults>>
    BY <1>3, CrashMoves
  <2>2. crashes' \in 0..MaxCrashes
    BY <1>1, <1>3 DEF Crash, TypeOK
  <2>3. cutOff' \in Nat
    <3>1. cutOff' = cutOff + Cardinality(CutBy(p)) /\ cutOff \in Nat
      BY <1>1, <1>3 DEF Crash, CutBy, TypeOK
    <3>2. Cardinality(CutBy(p)) \in Nat
      BY CutIsFinite
    <3>3. QED
      BY <3>1, <3>2
  <2>4. dropped' \subseteq Alerts
    <3>1. Busy(p) => Handling(p) \in Alerts
      BY HandlingType
    <3>2. QED
      BY <1>1, <1>3, <3>1 DEF Crash, TypeOK, Busy
  <2>5. TypeOK'
    BY <1>1, <2>1, <2>2, <2>3, <2>4 DEF TypeOK
  <2>6. Engaged'
    <3>1. \A q \in Processes : Busy(q)' => worker'[q].job \in Job
      <4>1. \A q \in Processes : Busy(q)' => Busy(q) /\ worker'[q] = worker[q]
        BY <1>3, CrashMoves
      <4>2. QED
        BY <1>1, <4>1 DEF Engaged
    <3>2. \A r \in Requests : request'[r].at # "idle" => request'[r].alert \in Alerts
      <4>1. \A r \in Requests : request'[r].at # "idle" => request'[r] = request[r]
        BY <1>3, CrashMoves
      <4>2. QED
        BY <1>1, <4>1 DEF Engaged
    <3>3. QED
      BY <3>1, <3>2 DEF Engaged
  <2>7. QED
    BY <2>5, <2>6 DEF TypeInv
<1>4. QED
  BY <1>2, <1>3

LEMMA NextType == TypeInv /\ [Next]_vars => TypeInv'
<1> SUFFICES ASSUME TypeInv, [Next]_vars PROVE TypeInv'
  OBVIOUS
<1>1. CASE UNCHANGED vars
  BY <1>1 DEF vars, TypeInv, TypeOK, Engaged, Busy
<1>2. QED
  BY <1>1, RequestType, WorkType, EnvironmentType DEF Next

\* The rows, the windows, the queue and the locals of every request and worker, in every run:
\* no job carries more retries than configured.
THEOREM TriageTypeCorrect == Spec => []TypeOK
<1>1. TypeInv => TypeOK
  BY DEF TypeInv
<1>2. QED
  BY <1>1, TypeInit, NextType, PTL DEF Spec

(***************************************************************************)
(* What is known of a job: the alert of every job, waiting or in hand, was *)
(* queued, and its row and that of every request past its INSERT exist.    *)
(***************************************************************************)
Asks(r) == request[r].at = "enqueue"

Known ==
  /\ \A i \in DOMAIN queue : queue[i].alert \in enqueued
  /\ \A p \in Processes : Busy(p) => Handling(p) \in enqueued
  /\ \A r \in Requests : Asks(r) => status[request[r].alert] # "absent"
  /\ \A a \in enqueued : status[a] # "absent"
  /\ \A a \in skipped : status[a] # "absent"

\* What an append, or a removal from the head, leaves in a queue.
LEMMA AppendJob ==
  ASSUME NEW q \in Seq(Job), NEW j \in Job
  PROVE  /\ DOMAIN Append(q, j) = DOMAIN q \cup {Len(q) + 1}
         /\ Len(q) + 1 \notin DOMAIN q
         /\ Append(q, j)[Len(q) + 1] = j
         /\ \A i \in DOMAIN q : Append(q, j)[i] = q[i]
OBVIOUS

LEMMA TailJob ==
  ASSUME NEW q \in Seq(Job), q # <<>>
  PROVE  /\ 1 \in DOMAIN q /\ Head(q) = q[1]
         /\ \A i \in DOMAIN Tail(q) : i + 1 \in DOMAIN q /\ i \in Nat /\ i # 0
                                      /\ Tail(q)[i] = q[i + 1]
<1>1. Len(q) \in Nat /\ Len(q) # 0 /\ DOMAIN q = 1..Len(q)
  OBVIOUS
<1>2. DOMAIN Tail(q) = 1..(Len(q) - 1)
  <2>1. Len(Tail(q)) = Len(q) - 1 /\ DOMAIN Tail(q) = 1..Len(Tail(q))
    BY <1>1
  <2>2. QED
    BY <2>1
<1>3. \A i \in 1..(Len(q) - 1) : Tail(q)[i] = q[i + 1]
  BY <1>1
<1>4. \A i \in 1..(Len(q) - 1) : i \in Nat /\ i # 0 /\ i + 1 \in 1..Len(q)
  BY <1>1
<1>5. 1 \in DOMAIN q /\ Head(q) = q[1]
  BY <1>1
<1>6. ASSUME NEW i \in DOMAIN Tail(q)
      PROVE  i + 1 \in DOMAIN q /\ i \in Nat /\ i # 0 /\ Tail(q)[i] = q[i + 1]
  <2>1. i \in 1..(Len(q) - 1)
    BY <1>2
  <2>2. i \in Nat /\ i # 0 /\ i + 1 \in 1..Len(q) /\ Tail(q)[i] = q[i + 1]
    BY <1>3, <1>4, <2>1
  <2>3. QED
    BY <1>1, <2>2
<1>7. QED
  BY <1>5, <1>6

LEMMA RequestKnows ==
  ASSUME TypeInv, Known, NEW r \in Requests,
         Respond(r) \/ \E p \in Processes, a \in Alerts : Receive(r, p, a)
  PROVE  Known'
<1>1. status \in [Alerts -> Statuses] /\ UNCHANGED worker
      /\ \A q \in Requests : request[q].at # "idle" => request[q].alert \in Alerts
  BY DEF TypeInv, TypeOK, Engaged, Statuses, Respond, Insert, Enqueue, Receive
<1>2. ASSUME NEW p \in Processes, NEW a \in Alerts, Receive(r, p, a) PROVE Known'
  <2> DEFINE new == [at |-> "insert", alert |-> a, by |-> p]
  <2>1. UNCHANGED <<status, queue, enqueued>>
        /\ (\/ UNCHANGED request /\ skipped' = skipped \cup {a} /\ status[a] # "absent"
            \/ request' = [request EXCEPT ![r] = new] /\ UNCHANGED skipped)
    BY <1>2 DEF Receive
  <2>2. new \in Request /\ new.at = "insert" /\ new.alert = a
    BY RequestTypes
  <2> HIDE DEF new
  <2>3. \A q \in Requests : Asks(q)' => Asks(q) /\ request'[q] = request[q]
    <3>1. CASE request' = [request EXCEPT ![r] = new]
      BY <2>2, <3>1, RequestMoves DEF Asks
    <3>2. QED
      BY <2>1, <3>1 DEF Asks
  <2>4. QED
    BY <1>1, <2>1, <2>3 DEF Known, Busy, Handling
<1>3. ASSUME NEW reply \in Replies, Insert(r, reply) PROVE Known'
  <2>1. UNCHANGED <<queue, enqueued, skipped>>
    BY <1>3 DEF Insert
  <2>2. PICK a \in Alerts, new \in Request :
          /\ \A b \in Alerts \ {a} : status'[b] = status[b]
          /\ \/ status[a] = "absent" /\ status'[a] = "received" /\ reply # "rejected"
             \/ status'[a] = status[a]
          /\ request' = [request EXCEPT ![r] = new]
          /\ new.at # "idle" => new.alert = a
          /\ new.at = IF reply = "ok" /\ status[a] = "absent" THEN "enqueue" ELSE "idle"
          /\ reply = "ok" => status'[a] # "absent"
    BY <1>3, InsertMoves
  <2>3. \A b \in Alerts : status[b] # "absent" => status'[b] # "absent"
    BY <2>2
  <2>4. request'[r] = new /\ \A q \in Requests \ {r} : request'[q] = request[q]
    BY <2>2, RequestMoves
  <2>5. \A q \in Requests : Asks(q)' => status'[request'[q].alert] # "absent"
    <3>1. Asks(r)' => request'[r].alert = a /\ reply = "ok"
      BY <2>2, <2>4 DEF Asks
    <3>2. \A q \in Requests \ {r} : Asks(q)' => status'[request'[q].alert] # "absent"
      BY <1>1, <2>3, <2>4 DEF Known, Asks
    <3>3. QED
      BY <2>2, <3>1, <3>2
  <2>6. enqueued \subseteq Alerts /\ skipped \subseteq Alerts
    BY DEF TypeInv, TypeOK
  <2>7. QED
    BY <1>1, <2>1, <2>3, <2>5, <2>6 DEF Known, Busy, Handling
<1>4. ASSUME NEW reply \in Replies, Enqueue(r, reply) PROVE Known'
  <2>1. UNCHANGED <<status, skipped>> /\ request' = [request EXCEPT ![r] = NoRequest]
        /\ Asks(r)
    BY <1>4 DEF Enqueue, Asks
  <2>2. \A q \in Requests : Asks(q)' => Asks(q) /\ request'[q] = request[q]
    BY <2>1, RequestTypes, RequestMoves DEF Asks
  <2>3. PICK a \in Alerts : a = request[r].alert
    BY <1>1, <2>1 DEF Asks
  <2>4. CASE UNCHANGED <<queue, enqueued>>
    BY <1>1, <2>1, <2>2, <2>4 DEF Known, Busy, Handling
  <2>5. CASE /\ queue' = Append(queue, [alert |-> a, retry |-> 0])
             /\ enqueued' = enqueued \cup {a}
    <3> DEFINE j == [alert |-> a, retry |-> 0]
    <3>1. j \in Job /\ j.alert = a /\ queue \in Seq(Job)
      BY DEF Job, TypeInv, TypeOK
    <3> HIDE DEF j
    <3>2. \A i \in DOMAIN queue' : queue'[i].alert = a
                                   \/ (i \in DOMAIN queue /\ queue'[i] = queue[i])
      BY <2>5, <3>1, AppendJob DEF j
    <3>3. \A i \in DOMAIN queue' : queue'[i].alert \in enqueued'
      BY <2>5, <3>2 DEF Known
    <3>4. status[a] # "absent"
      BY <2>1, <2>3 DEF Known
    <3>5. QED
      BY <1>1, <2>1, <2>2, <2>5, <3>3, <3>4 DEF Known, Busy, Handling
  <2>6. QED
    BY <1>4, <2>3, <2>4, <2>5 DEF Enqueue
<1>5. QED
  BY <1>2, <1>3, <1>4 DEF Respond

LEMMA WorkKnows ==
  ASSUME TypeInv, Known, NEW p \in Processes, Work(p)
  PROVE  Known'
<1>1. enqueued \subseteq Alerts /\ skipped \subseteq Alerts /\ queue \in Seq(Job)
      /\ \A q \in Requests : request[q].at # "idle" => request[q].alert \in Alerts
  BY DEF TypeInv, TypeOK, Engaged
<1>2. ASSUME UNCHANGED <<status, request, enqueued, skipped>>,
             \A q \in Processes : Busy(q)' => Handling(q)' \in enqueued,
             \A i \in DOMAIN queue' : queue'[i].alert \in enqueued
      PROVE  Known'
  BY <1>2 DEF Known, Asks
<1>3. ASSUME NEW reply \in Replies, Take(p, reply) PROVE Known'
  <2>1. UNCHANGED <<status, request, enqueued, skipped>>
    BY <1>3 DEF Take
  <2>2. queue # <<>> /\ (queue' = Tail(queue) \/ queue' = queue)
    BY <1>3, TakeMoves
  <2>3. Head(queue) = queue[1] /\ 1 \in DOMAIN queue
    BY <1>1, <2>2, TailJob
  <2>4. Head(queue).alert \in enqueued
    BY <2>3 DEF Known
  <2>5. \A q \in Processes : Busy(q)' => Handling(q)' \in enqueued
    <3>1. CASE worker' = worker
      BY <3>1 DEF Known, Busy, Handling
    <3>2. ASSUME NEW new \in Worker, worker' = [worker EXCEPT ![p] = new],
                 new.at = "handle", new.job = Head(queue)
          PROVE  \A q \in Processes : Busy(q)' => Handling(q)' \in enqueued
      <4>1. new.job \in Job
        BY <1>3, <3>2, TakeMoves
      <4>2. worker'[p] = new /\ \A q \in Processes \ {p} : worker'[q] = worker[q]
        BY <3>2, <4>1, WorkerMoves
      <4>3. QED
        BY <2>4, <3>2, <4>2 DEF Known, Busy, Handling
    <3>3. QED
      BY <1>3, <3>1, <3>2, TakeMoves
  <2>6. \A i \in DOMAIN queue' : queue'[i].alert \in enqueued
    <3>1. CASE queue' = Tail(queue)
      BY <1>1, <2>2, <3>1, TailJob DEF Known
    <3>2. QED
      BY <2>2, <3>1 DEF Known
  <2>7. QED
    BY <1>2, <2>1, <2>5, <2>6
<1>4. ASSUME NEW reply \in Replies, Ack(p, reply) \/ Settle(p, reply) PROVE Known'
  <2>1. UNCHANGED <<status, request, enqueued, skipped>>
    BY <1>4 DEF Ack, Settle
  <2>2. Busy(p) /\ Handling(p) \in enqueued
    BY <1>4, PutAway DEF Known
  <2>3. \A q \in Processes : Busy(q)' => Handling(q)' \in enqueued
    <3>1. PICK new \in Worker :
            /\ worker' = [worker EXCEPT ![p] = new]
            /\ new.at # "idle" => new.job = worker[p].job
      BY <1>4, PutAway
    <3>2. new.at # "idle" => new.job \in Job
      <4>1. worker[p].job \in Job
        BY <2>2, HandlingType
      <4>2. QED
        BY <3>1, <4>1
    <3>3. worker'[p] = new /\ \A q \in Processes \ {p} : worker'[q] = worker[q]
      BY <3>1, <3>2, WorkerMoves
    <3>4. Busy(p)' => Handling(p)' \in enqueued
      BY <2>2, <3>1, <3>3 DEF Busy, Handling
    <3>5. \A q \in Processes \ {p} : Busy(q)' => Handling(q)' \in enqueued
      BY <3>3 DEF Known, Busy, Handling
    <3>6. QED
      BY <3>4, <3>5
  <2>4. \A i \in DOMAIN queue' : queue'[i].alert \in enqueued
    <3>1. CASE queue' = queue
      BY <3>1 DEF Known
    <3>2. ASSUME NEW j \in Job, j.alert = Handling(p), queue' = Append(queue, j)
          PROVE  \A i \in DOMAIN queue' : queue'[i].alert \in enqueued
      BY <1>1, <2>2, <3>2, AppendJob DEF Known
    <3>3. CASE Ack(p, reply)
      BY <3>1, <3>3 DEF Ack
    <3>4. QED
      BY <1>4, <3>1, <3>2, <3>3, SettleMoves
  <2>5. QED
    BY <1>2, <2>1, <2>3, <2>4
<1>5. CASE Pipeline(p)
  <2>1. /\ Busy(p) /\ UNCHANGED <<queue, request, enqueued, skipped>>
        /\ \A b \in Alerts : status[b] # "absent" => status'[b] # "absent"
    BY <1>5, PipelineMoves
  <2>2. \A q \in Processes : Busy(q)' => Busy(q) /\ worker'[q].job = worker[q].job
    BY <1>5, PipelineMoves, GotoMoves DEF Busy
  <2>3. QED
    BY <1>1, <2>1, <2>2 DEF Known, Asks, Handling
<1>6. QED
  BY <1>3, <1>4, <1>5, WorkSteps DEF PollStep

LEMMA NextKnows == TypeInv /\ Known /\ [Next]_vars => Known'
<1> SUFFICES ASSUME TypeInv, Known, [Next]_vars PROVE Known'
  OBVIOUS
<1>1. ASSUME NEW p \in Processes, Crash(p) PROVE Known'
  <2>1. UNCHANGED <<status, queue, enqueued, skipped>>
    BY <1>1, CrashMoves
  <2>2. \A q \in Processes : Busy(q)' => Busy(q) /\ worker'[q] = worker[q]
    BY <1>1, CrashMoves
  <2>3. \A r \in Requests : request'[r].at # "idle" => request'[r] = request[r]
    BY <1>1, CrashMoves
  <2>4. QED
    BY <2>1, <2>2, <2>3 DEF Known, Handling, Asks
<1>2. CASE UNCHANGED <<status, queue, enqueued, skipped, request, worker>>
  BY <1>2 DEF Known, Busy, Asks, Handling
<1>3. CASE (\E f \in Fingerprints : Expire(f)) \/ UNCHANGED vars
  BY <1>2, <1>3 DEF Expire, vars
<1>4. QED
  BY <1>1, <1>3, RequestKnows, WorkKnows DEF Next

LEMMA InitKnows == Init => Known
<1> SUFFICES ASSUME Init PROVE Known
  OBVIOUS
<1>1. DOMAIN queue = {} /\ enqueued = {} /\ skipped = {}
  BY DEF Init
<1>2. (\A p \in Processes : ~Busy(p)) /\ (\A r \in Requests : ~Asks(r))
  BY DEF Init, Busy, Asks, NoRequest, Polling
<1>3. QED
  BY <1>1, <1>2 DEF Known

(***************************************************************************)
(* Deliveries answered "duplicate". An alert that is stored and not queued *)
(* was struck by a failed command between its INSERT and its enqueue, or   *)
(* its request was one of those a crash cut off there.                     *)
(***************************************************************************)
Lost == {a \in Alerts : status[a] # "absent" /\ ~Queued(a)}
LostInv == Cardinality(Lost) <= faults + cutOff

LEMMA QueuedMeans ==
  \A a : Queued(a) <=> a \in enqueued \/ \E r \in Requests : Asks(r) /\ request[r].alert = a
BY DEF Queued, Asks

LEMMA StaysBounded ==
  ASSUME NEW S, IsFiniteSet(S), NEW C, IsFiniteSet(C), NEW T, T \subseteq S \cup C,
         NEW a \in Nat, NEW b \in Nat, NEW n \in Nat,
         Cardinality(S) <= a, Cardinality(C) <= n, b >= a + n
  PROVE  Cardinality(T) <= b
<1>1. Cardinality(S) \in Nat /\ Cardinality(C) \in Nat
  BY FS_CardinalityType
<1>2. /\ IsFiniteSet(S \cup C) /\ IsFiniteSet(S \cap C)
      /\ Cardinality(S \cup C) = Cardinality(S) + Cardinality(C) - Cardinality(S \cap C)
  BY FS_Union, FS_Intersection
<1>3. Cardinality(S \cap C) \in Nat
  BY <1>2, FS_CardinalityType
<1>4. Cardinality(T) <= Cardinality(S \cup C) /\ Cardinality(T) \in Nat
      /\ Cardinality(S \cup C) \in Nat
  BY <1>2, FS_Subset, FS_CardinalityType
<1>5. QED
  BY <1>1, <1>2, <1>3, <1>4

LEMMA SumType ==
  ASSUME NEW a \in Nat, NEW b \in Nat PROVE a + b \in Nat
OBVIOUS

\* A step that loses the alerts of C, and counts as many.
LEMMA LosesOnly ==
  ASSUME TypeInv, TypeInv', LostInv, NEW C, IsFiniteSet(C), Lost' \subseteq Lost \cup C,
         NEW n \in Nat, Cardinality(C) <= n, faults' + cutOff' >= faults + cutOff + n
  PROVE  LostInv'
<1>1. faults + cutOff \in Nat /\ faults' + cutOff' \in Nat
  <2>1. faults \in Nat /\ cutOff \in Nat
    BY DEF TypeInv, TypeOK
  <2>2. faults' \in Nat /\ cutOff' \in Nat
    BY DEF TypeInv, TypeOK
  <2>3. faults + cutOff \in Nat
    BY <2>1, SumType
  <2>4. faults' + cutOff' \in Nat
    BY <2>2, SumType
  <2>5. QED
    BY <2>3, <2>4
<1>2. IsFiniteSet(Lost)
  <2>1. Lost \subseteq Alerts /\ IsFiniteSet(Alerts)
    BY DEF Lost
  <2>2. QED
    BY <2>1, FS_Subset
<1>3. Cardinality(Lost) <= faults + cutOff
  BY DEF LostInv
<1> DEFINE x == faults + cutOff
           y == faults' + cutOff'
<1>4. x \in Nat /\ y \in Nat /\ Cardinality(Lost) <= x /\ y >= x + n
  BY <1>1, <1>3
<1> HIDE DEF x, y
<1>5. Cardinality(Lost') <= y
  BY <1>2, <1>4, StaysBounded
<1>6. QED
  BY <1>5 DEF LostInv, y

LEMMA LosesNone ==
  ASSUME TypeInv, TypeInv', LostInv, Lost' \subseteq Lost, UNCHANGED cutOff,
         faults' = faults \/ faults' = faults + 1
  PROVE  LostInv'
<1>1. IsFiniteSet({}) /\ Cardinality({}) = 0 /\ 0 \in Nat
  BY FS_EmptySet
<1>2. faults' + cutOff' >= faults + cutOff + 0
  <2>1. faults \in Nat /\ cutOff \in Nat
    BY DEF TypeInv, TypeOK
  <2>2. QED
    BY <2>1
<1>3. Lost' \subseteq Lost \cup {}
  OBVIOUS
<1>4. Cardinality({}) <= 0
  BY <1>1
<1>5. QED
  BY <1>1, <1>2, <1>3, <1>4, LosesOnly

LEMMA LosesOne ==
  ASSUME TypeInv, TypeInv', LostInv, NEW a, Lost' \subseteq Lost \cup {a}, UNCHANGED cutOff,
         faults' = faults + 1
  PROVE  LostInv'
<1>1. IsFiniteSet({a}) /\ Cardinality({a}) = 1 /\ 1 \in Nat
  BY FS_Singleton
<1>2. faults' + cutOff' >= faults + cutOff + 1
  BY DEF TypeInv, TypeOK
<1>3. QED
  BY <1>1, <1>2, LosesOnly

\* A set of requests asks for no more alerts than it has requests.
LEMMA AlertsOf ==
  ASSUME NEW R, IsFiniteSet(R)
  PROVE  /\ IsFiniteSet({request[r].alert : r \in R})
         /\ Cardinality({request[r].alert : r \in R}) <= Cardinality(R)
<1> DEFINE T == {request[r].alert : r \in R}
           f == [r \in R |-> request[r].alert]
<1>1. f \in Surjection(R, T)
  BY DEF Surjection
<1>2. QED
  BY <1>1, FS_Surjection

LEMMA NextLoses == TypeInv /\ Known /\ LostInv /\ [Next]_vars => LostInv'
<1> SUFFICES ASSUME TypeInv, Known, LostInv, [Next]_vars PROVE LostInv'
  OBVIOUS
<1>0. TypeInv'
  BY NextType
<1>1. \A q \in Requests : request[q].at # "idle" => request[q].alert \in Alerts
  BY DEF TypeInv, Engaged
<1>2. \A a : /\ Queued(a) <=> a \in enqueued
                              \/ \E q \in Requests : Asks(q) /\ request[q].alert = a
             /\ Queued(a)' <=> a \in enqueued'
                               \/ \E q \in Requests : Asks(q)' /\ request'[q].alert = a
  BY DEF Queued, Asks
<1>3. ASSUME NEW r \in Requests, NEW p \in Processes, NEW a \in Alerts, Receive(r, p, a)
      PROVE  LostInv'
  <2> DEFINE new == [at |-> "insert", alert |-> a, by |-> p]
  <2>1. UNCHANGED <<status, enqueued, faults, cutOff>> /\ request[r] = NoRequest
        /\ (UNCHANGED request \/ request' = [request EXCEPT ![r] = new])
    BY <1>3 DEF Receive
  <2>2. new \in Request /\ new.at = "insert" /\ new.alert = a
    BY RequestTypes
  <2> HIDE DEF new
  <2>3. \A q \in Requests : Asks(q) => Asks(q)' /\ request'[q] = request[q]
    <3>1. CASE request' = [request EXCEPT ![r] = new]
      <4>1. ~Asks(r)
        BY <2>1, RequestTypes DEF Asks
      <4>2. \A q \in Requests \ {r} : request'[q] = request[q]
        BY <2>2, <3>1, RequestMoves
      <4>3. QED
        BY <4>1, <4>2 DEF Asks
    <3>2. QED
      BY <2>1, <3>1 DEF Asks
  <2>4. Lost' \subseteq Lost
    BY <1>2, <2>1, <2>3 DEF Lost
  <2>5. QED
    BY <1>0, <2>1, <2>4, LosesNone
<1>4. ASSUME NEW r \in Requests, NEW reply \in Replies, Insert(r, reply) PROVE LostInv'
  <2>1. UNCHANGED <<enqueued, cutOff>>
    BY <1>4 DEF Insert
  <2>2. PICK a \in Alerts, new \in Request :
          /\ request[r].at = "insert"
          /\ \A b \in Alerts \ {a} : status'[b] = status[b]
          /\ \/ status[a] = "absent" /\ status'[a] = "received" /\ reply # "rejected"
             \/ status'[a] = status[a]
          /\ request' = [request EXCEPT ![r] = new]
          /\ new.at # "idle" => new.alert = a
          /\ new.at = IF reply = "ok" /\ status[a] = "absent" THEN "enqueue" ELSE "idle"
    BY <1>4, InsertMoves
  <2>3. request'[r] = new /\ \A q \in Requests \ {r} : request'[q] = request[q]
    BY <2>2, RequestMoves
  <2>4. \A q \in Requests : Asks(q) => Asks(q)' /\ request'[q] = request[q]
    BY <2>2, <2>3 DEF Asks
  <2>5. Lost' \subseteq Lost \cup {a}
    BY <1>2, <2>1, <2>2, <2>4 DEF Lost
  <2>6. CASE reply = "ok"
    <3>1. status[a] = "absent" => Queued(a)'
      <4>1. status[a] = "absent" => Asks(r)' /\ request'[r].alert = a
        BY <2>2, <2>3, <2>6 DEF Asks
      <4>2. QED
        BY <1>2, <4>1
    <3>2. Lost' \subseteq Lost
      <4>1. status[a] # "absent" => status'[a] = status[a]
        BY <2>2
      <4>2. QED
        BY <1>2, <2>1, <2>2, <2>4, <3>1, <4>1 DEF Lost
    <3>3. faults' = faults
      BY <1>4, <2>6, ReplyType DEF Insert
    <3>4. QED
      BY <1>0, <2>1, <3>2, <3>3, LosesNone
  <2>7. CASE reply # "ok"
    <3>1. faults' = faults + 1
      BY <1>4, <2>7, ReplyType DEF Insert
    <3>2. QED
      BY <1>0, <2>1, <2>5, <3>1, LosesOne
  <2>8. QED
    BY <2>6, <2>7
<1>5. ASSUME NEW r \in Requests, NEW reply \in Replies, Enqueue(r, reply) PROVE LostInv'
  <2>1. UNCHANGED <<status, cutOff>> /\ request' = [request EXCEPT ![r] = NoRequest]
        /\ Asks(r)
    BY <1>5 DEF Enqueue, Asks
  <2>2. \A q \in Requests \ {r} : Asks(q) => Asks(q)' /\ request'[q] = request[q]
    BY <2>1, RequestTypes, RequestMoves DEF Asks
  <2>3. PICK a \in Alerts : a = request[r].alert
    BY <1>1, <2>1 DEF Asks
  <2>4. CASE Applied(reply)
    <3>1. enqueued' = enqueued \cup {a}
      BY <1>5, <2>3, <2>4 DEF Enqueue
    <3>2. Lost' \subseteq Lost
      BY <1>2, <2>1, <2>2, <2>3, <3>1 DEF Lost
    <3>3. faults' = faults \/ faults' = faults + 1
      BY <1>5, ReplyType DEF Enqueue
    <3>4. QED
      BY <1>0, <2>1, <3>2, <3>3, LosesNone
  <2>5. CASE ~Applied(reply)
    <3>1. enqueued' = enqueued /\ faults' = faults + 1
      BY <1>5, <2>5, ReplyType DEF Enqueue, Applied
    <3>2. Lost' \subseteq Lost \cup {a}
      BY <1>2, <2>1, <2>2, <2>3, <3>1 DEF Lost
    <3>3. QED
      BY <1>0, <2>1, <3>1, <3>2, LosesOne
  <2>6. QED
    BY <2>4, <2>5
<1>6. ASSUME NEW p \in Processes, Work(p) PROVE LostInv'
  <2>1. UNCHANGED <<request, enqueued, cutOff>> /\ (faults' = faults \/ faults' = faults + 1)
        /\ \A b \in Alerts : status'[b] = status[b] \/ b \in enqueued
    <3>1. CASE Pipeline(p)
      <4>1. Handling(p) \in enqueued
        BY <3>1, PipelineMoves DEF Known
      <4>2. QED
        BY <3>1, <4>1, PipelineMoves
    <3>2. CASE PollStep(p)
      BY <3>2, PollMoves
    <3>3. QED
      BY <1>6, <3>1, <3>2, WorkSteps
  <2>2. Lost' \subseteq Lost
    BY <1>2, <2>1 DEF Lost, Asks
  <2>3. QED
    BY <1>0, <2>1, <2>2, LosesNone
<1>7. ASSUME NEW p \in Processes, Crash(p) PROVE LostInv'
  <2> DEFINE C == {request[r].alert : r \in CutBy(p)}
  <2>1. UNCHANGED <<status, enqueued, faults>>
    BY <1>7, CrashMoves
  <2>2. \A q \in Requests : request[q].by # p => request'[q] = request[q]
    BY <1>7, CrashMoves
  <2>3. IsFiniteSet(CutBy(p)) /\ Cardinality(CutBy(p)) \in Nat
    BY CutIsFinite
  <2>4. IsFiniteSet(C) /\ Cardinality(C) <= Cardinality(CutBy(p))
    BY <2>3, AlertsOf
  <2>5. \A q \in Requests : Asks(q) => \/ Asks(q)' /\ request'[q] = request[q]
                                      \/ request[q].alert \in C
    BY <2>2 DEF Asks, CutBy
  <2>6. \A a \in Alerts : Queued(a) => Queued(a)' \/ a \in C
    BY <1>2, <2>1, <2>5
  <2>7. Lost' \subseteq Lost \cup C
    BY <2>1, <2>6 DEF Lost
  <2> HIDE DEF C
  <2>8. faults' + cutOff' >= faults + cutOff + Cardinality(CutBy(p))
    <3>1. cutOff' = cutOff + Cardinality(CutBy(p)) /\ faults' = faults
      BY <1>7 DEF Crash, CutBy
    <3>2. cutOff \in Nat /\ faults \in Nat
      BY DEF TypeInv, TypeOK
    <3>3. QED
      BY <2>3, <3>1, <3>2
  <2>9. QED
    BY <1>0, <2>3, <2>4, <2>7, <2>8, LosesOnly
<1>8. CASE UNCHANGED <<status, enqueued, request, faults, cutOff>>
  BY <1>8 DEF LostInv, Lost, Queued
<1>9. CASE (\E f \in Fingerprints : Expire(f)) \/ UNCHANGED vars
  BY <1>8, <1>9 DEF Expire, vars
<1>10. QED
  BY <1>3, <1>4, <1>5, <1>6, <1>7, <1>9 DEF Next, Respond

LEMMA InitLoses == Init => LostInv
<1> SUFFICES ASSUME Init PROVE LostInv
  OBVIOUS
<1>1. Lost = {} /\ faults = 0 /\ cutOff = 0
  BY DEF Init, Lost
<1>2. QED
  BY <1>1, FS_EmptySet DEF LostInv

\* However providers redeliver and replicas fail, the deliveries answered "duplicate" of an
\* alert that nobody will triage are at most one for each failed command and one for each
\* request that a crash of its replica cut off between the INSERT and the enqueue.
THEOREM DuplicatesWereQueued == Spec => []SkippedIsQueued
<1>1. TypeInv /\ Known /\ LostInv => SkippedIsQueued
  <2> SUFFICES ASSUME TypeInv, Known, LostInv PROVE SkippedIsQueued
    OBVIOUS
  <2> DEFINE S == {a \in skipped : ~Queued(a)}
  <2>1. S \subseteq Lost /\ S \subseteq Alerts /\ Lost \subseteq Alerts
    BY DEF Known, Lost, TypeInv, TypeOK
  <2>2. Cardinality(S) <= Cardinality(Lost) /\ Cardinality(S) \in Nat
        /\ Cardinality(Lost) \in Nat
    BY <2>1, FS_Subset, FS_CardinalityType
  <2>3. faults + cutOff \in Nat
    BY SumType DEF TypeInv, TypeOK
  <2> HIDE DEF S
  <2>4. Cardinality(S) <= faults + cutOff
    BY <2>2, <2>3 DEF LostInv
  <2>5. QED
    BY <2>4 DEF S, SkippedIsQueued
<1>2. QED
  BY <1>1, TypeInit, NextType, InitKnows, NextKnows, InitLoses, NextLoses, PTL DEF Spec

(***************************************************************************)
(* Alerts set aside. While nothing fails, an entry of the dedup window     *)
(* belongs to an alert whose worker dispatched it or is on its way to, and *)
(* so whoever finds the entry stands behind such an alert.                 *)
(***************************************************************************)
Covered(b) ==
  \/ dispatched[b] > 0
  \/ \E p \in Processes : worker[p].at \in {"analyse", "dispatch"} /\ Handling(p) = b

CoverInv ==
  faults = 0 /\ crashes = 0 =>
    /\ \A f \in Fingerprints, b \in Alerts :
         window[f] = b => b \in Same(f) /\ Covered(b)
    /\ \A p \in Processes :
         At(p, "skip") => \E b \in Same(FingerprintOf(p)) : Covered(b)
    /\ \A a \in Alerts :
         status[a] = "deduped" => \E b \in Same(Fingerprint[a]) : Covered(b)

\* What a pipeline step that succeeds does beyond moving on.
LEMMA PipelineEffects ==
  ASSUME TypeInv, NEW p \in Processes, Pipeline(p), faults' = 0
  PROVE  /\ \A b \in Alerts : dispatched'[b] \in Nat /\ dispatched'[b] >= dispatched[b]
         /\ At(p, "analyse") => worker'[p].at = "dispatch"
         /\ At(p, "dispatch") => dispatched'[Handling(p)] > 0
         /\ At(p, "register") => worker'[p].at = "analyse"
         /\ worker'[p].at = "skip" => /\ FingerprintOf(p) # None
                                      /\ window[FingerprintOf(p)] # None
         /\ \A f \in Fingerprints :
              \/ window'[f] = window[f]
              \/ At(p, "register") /\ f = FingerprintOf(p) /\ window'[f] = Handling(p)
         /\ \A b \in Alerts : \/ status'[b] = status[b] \/ status'[b] # "deduped"
                              \/ b = Handling(p) /\ At(p, "skip")
<1>1. Busy(p) /\ \E at \in Stages : Goto(p, at)
  BY PipelineMoves
<1>2. PICK a \in Alerts, g \in Fingerprints \cup {None} :
        a = Handling(p) /\ g = FingerprintOf(p)
  BY <1>1, HandlingType
<1>3. /\ dispatched \in [Alerts -> Nat] /\ status \in [Alerts -> Statuses]
      /\ window \in [Fingerprints -> Alerts \cup {None}] /\ faults \in Nat
  BY DEF TypeInv, TypeOK, Statuses
<1>4. \A reply \in Replies : Reply(reply) => reply = "ok"
  BY <1>3, ReplyType
<1>5. \A at \in Stages : Goto(p, at) => worker'[p].at = at
  BY <1>1, GotoMoves
<1>6. CASE Dispatch(p)
  <2>1. /\ At(p, "dispatch") /\ UNCHANGED <<status, window>> /\ Goto(p, "record")
        /\ dispatched' = [dispatched EXCEPT ![a] = @ + 1]
    BY <1>2, <1>6 DEF Dispatch
  <2>2. worker'[p].at = "record"
    BY <1>5, <2>1 DEF Stages
  <2>3. \A b \in Alerts : /\ dispatched'[b] \in Nat /\ dispatched'[b] >= dispatched[b]
                          /\ b = a => dispatched'[b] > 0
    BY <1>3, <2>1
  <2>4. ~At(p, "analyse") /\ ~At(p, "register")
    BY <2>1 DEF At
  <2>5. QED
    BY <1>2, <2>1, <2>2, <2>3, <2>4
<1>7. ASSUME UNCHANGED dispatched, ~At(p, "dispatch")
      PROVE  /\ \A b \in Alerts : dispatched'[b] \in Nat /\ dispatched'[b] >= dispatched[b]
             /\ At(p, "dispatch") => dispatched'[Handling(p)] > 0
  <2>1. \A b \in Alerts : dispatched[b] \in Nat /\ dispatched'[b] = dispatched[b]
    BY <1>3, <1>7
  <2>2. QED
    BY <1>7, <2>1
<1>8. CASE Handle(p, "ok") \/ Mark(p, "ok")
  <2>1. /\ UNCHANGED <<dispatched, window>> /\ (At(p, "handle") \/ At(p, "mark"))
        /\ (\E at \in {"mark", "failed", "check"} : Goto(p, at))
        /\ (UNCHANGED status \/ SetStatus(a, "processing", "ok"))
    BY <1>2, <1>8 DEF Handle, Mark
  <2>2. worker'[p].at \in {"mark", "failed", "check"}
    BY <1>5, <2>1 DEF Stages
  <2>3. \A b \in Alerts : status'[b] = status[b] \/ status'[b] # "deduped"
    BY <1>3, <2>1 DEF SetStatus, Applied
  <2>4. QED
    BY <1>7, <2>1, <2>2, <2>3 DEF At
<1>9. CASE Check(p, "ok")
  <2>1. /\ UNCHANGED <<dispatched, window, status>> /\ At(p, "check")
        /\ Goto(p, IF g # None /\ window[g] # None THEN "skip" ELSE "register")
    BY <1>2, <1>9 DEF Check
  <2>2. worker'[p].at = IF g # None /\ window[g] # None THEN "skip" ELSE "register"
    BY <1>5, <2>1 DEF Stages
  <2>3. QED
    BY <1>2, <1>7, <2>1, <2>2 DEF At
<1>10. CASE Skip(p, "ok")
  <2>1. /\ UNCHANGED <<dispatched, window>> /\ At(p, "skip") /\ Goto(p, "done")
        /\ SetStatus(a, "deduped", "ok")
    BY <1>2, <1>10 DEF Skip
  <2>2. worker'[p].at = "done"
    BY <1>5, <2>1 DEF Stages
  <2>3. \A b \in Alerts : status'[b] = status[b] \/ b = a
    BY <1>3, <2>1 DEF SetStatus
  <2>4. QED
    BY <1>2, <1>7, <2>1, <2>2, <2>3 DEF At
<1>11. CASE Register(p, "ok")
  <2>1. /\ UNCHANGED <<dispatched, status>> /\ At(p, "register") /\ Goto(p, "analyse")
        /\ \/ UNCHANGED window
           \/ g # None /\ window' = [window EXCEPT ![g] = a]
    BY <1>2, <1>11 DEF Register
  <2>2. worker'[p].at = "analyse"
    BY <1>5, <2>1 DEF Stages
  <2>3. \A f \in Fingerprints : window'[f] = window[f] \/ (f = g /\ window'[f] = a)
    BY <1>3, <2>1
  <2>4. QED
    BY <1>2, <1>7, <2>1, <2>2, <2>3 DEF At
<1>12. CASE Analyse(p, "ok") \/ RecordDispatch(p, "ok")
  <2>1. /\ UNCHANGED <<dispatched, status, window>>
        /\ \/ At(p, "analyse") /\ Goto(p, "dispatch")
           \/ At(p, "record") /\ Goto(p, "finish")
    BY <1>12 DEF Analyse, RecordDispatch
  <2>2. \/ At(p, "analyse") /\ worker'[p].at = "dispatch"
        \/ At(p, "record") /\ worker'[p].at = "finish"
    BY <1>5, <2>1 DEF Stages
  <2>3. QED
    BY <1>7, <2>1, <2>2 DEF At
<1>13. CASE Finish(p, "ok") \/ Reset(p, "ok")
  <2>1. /\ UNCHANGED <<dispatched, window>> /\ (At(p, "finish") \/ At(p, "reset"))
        /\ (Goto(p, "done") \/ Goto(p, "failed"))
        /\ (SetStatus(a, "triaged", "ok") \/ SetStatus(a, "error", "ok"))
    BY <1>2, <1>13 DEF Finish, Reset
  <2>2. worker'[p].at \in {"done", "failed"}
    BY <1>5, <2>1 DEF Stages
  <2>3. \A b \in Alerts : status'[b] = status[b] \/ status'[b] # "deduped"
    BY <1>3, <2>1 DEF SetStatus, Applied
  <2>4. QED
    BY <1>7, <2>1, <2>2, <2>3 DEF At
<1>14. QED
  <2>1. \E reply \in Replies :
          \/ Dispatch(p) \/ Handle(p, reply) \/ Mark(p, reply) \/ Check(p, reply)
          \/ Skip(p, reply) \/ Register(p, reply) \/ Analyse(p, reply)
          \/ RecordDispatch(p, reply) \/ Finish(p, reply) \/ Reset(p, reply)
    BY DEF Pipeline, Replies
  <2>2. Dispatch(p) \/ \E reply \in Replies :
          /\ Reply(reply)
          /\ \/ Handle(p, reply) \/ Mark(p, reply) \/ Check(p, reply)
             \/ Skip(p, reply) \/ Register(p, reply) \/ Analyse(p, reply)
             \/ RecordDispatch(p, reply) \/ Finish(p, reply) \/ Reset(p, reply)
    BY <2>1 DEF Handle, Mark, Check, Skip, Register, Analyse, RecordDispatch, Finish, Reset
  <2>3. QED
    BY <1>4, <1>6, <1>8, <1>9, <1>10, <1>11, <1>12, <1>13, <2>2

\* The steps of requests and of the poll loop around the pipeline.
QuietStep ==
  \/ \E p \in Processes : PollStep(p)
  \/ \E r \in Requests : Respond(r) \/ \E p \in Processes, a \in Alerts : Receive(r, p, a)

LEMMA NextSteps ==
  ASSUME [Next]_vars
  PROVE  \/ QuietStep
         \/ \E p \in Processes : Pipeline(p) \/ Crash(p)
         \/ (\E f \in Fingerprints : Expire(f)) \/ UNCHANGED vars
BY WorkSteps DEF Next, QuietStep

LEMMA RestEffects ==
  ASSUME TypeInv, QuietStep
  PROVE  /\ UNCHANGED <<dispatched, window, expiries, races, crashes>>
         /\ faults' = faults \/ faults' = faults + 1
         /\ \A b \in Alerts : status'[b] = status[b] \/ status'[b] # "deduped"
         /\ \A q \in Processes : \/ worker'[q] = worker[q]
                                 \/ /\ worker'[q].at \in {"idle", "handle", "failed"}
                                    /\ worker[q].at \in {"idle", "failed", "done"}
<1>1. ASSUME NEW p \in Processes, PollStep(p)
      PROVE  /\ UNCHANGED <<dispatched, window, expiries, races, crashes, status>>
             /\ faults' = faults \/ faults' = faults + 1
             /\ \A q \in Processes : \/ worker'[q] = worker[q]
                                     \/ /\ worker'[q].at \in {"idle", "handle", "failed"}
                                        /\ worker[q].at \in {"idle", "failed", "done"}
  BY <1>1, PollMoves
<1>2. ASSUME NEW r \in Requests, NEW p \in Processes, NEW a \in Alerts, Receive(r, p, a)
      PROVE  UNCHANGED <<dispatched, window, expiries, races, crashes, status, worker, faults>>
  BY <1>2 DEF Receive
<1>3. ASSUME NEW r \in Requests, NEW reply \in Replies, Enqueue(r, reply)
      PROVE  /\ UNCHANGED <<dispatched, window, expiries, races, crashes, status, worker>>
             /\ faults' = faults \/ faults' = faults + 1
  BY <1>3, ReplyType DEF Enqueue
<1>4. ASSUME NEW r \in Requests, NEW reply \in Replies, Insert(r, reply)
      PROVE  /\ UNCHANGED <<dispatched, window, expiries, races, crashes, worker>>
             /\ faults' = faults \/ faults' = faults + 1
             /\ \A b \in Alerts : status'[b] = status[b] \/ status'[b] # "deduped"
  <2>1. PICK a \in Alerts :
          /\ \A b \in Alerts \ {a} : status'[b] = status[b]
          /\ status'[a] = "received" \/ status'[a] = status[a]
    BY <1>4, InsertMoves
  <2>2. \A b \in Alerts : status'[b] = status[b] \/ status'[b] # "deduped"
    BY <2>1
  <2>3. QED
    BY <1>4, <2>2, ReplyType DEF Insert
<1>5. QED
  BY <1>1, <1>2, <1>3, <1>4 DEF QuietStep, Respond

\* While nothing fails, covered stays covered.
LEMMA StaysCovered ==
  ASSUME TypeInv, [Next]_vars, faults' = 0, crashes' = 0, NEW b \in Alerts, Covered(b)
  PROVE  Covered(b)'
<1>1. dispatched \in [Alerts -> Nat] /\ crashes \in Nat
  BY DEF TypeInv, TypeOK
<1>2. CASE QuietStep
  <2>1. /\ UNCHANGED dispatched
        /\ \A q \in Processes : \/ worker'[q] = worker[q]
                                \/ worker[q].at \in {"idle", "failed", "done"}
    BY <1>2, RestEffects
  <2>2. QED
    BY <2>1 DEF Covered, Handling
<1>3. ASSUME NEW p \in Processes, Pipeline(p) PROVE Covered(b)'
  <2>1. /\ dispatched'[b] \in Nat /\ dispatched'[b] >= dispatched[b]
        /\ At(p, "analyse") => worker'[p].at = "dispatch"
        /\ At(p, "dispatch") => dispatched'[Handling(p)] > 0
    BY <1>3, PipelineEffects
  <2>2. /\ \A q \in Processes \ {p} : worker'[q] = worker[q]
        /\ worker'[p].job = worker[p].job
    BY <1>3, PipelineMoves, GotoMoves
  <2>3. CASE dispatched[b] > 0
    <3>1. dispatched'[b] > 0
      BY <1>1, <2>1, <2>3
    <3>2. QED
      BY <3>1 DEF Covered
  <2>4. CASE \E q \in Processes \ {p} : worker[q].at \in {"analyse", "dispatch"}
                                        /\ Handling(q) = b
    BY <2>2, <2>4 DEF Covered, Handling
  <2>5. CASE worker[p].at \in {"analyse", "dispatch"} /\ Handling(p) = b
    BY <2>1, <2>2, <2>5 DEF Covered, Handling, At
  <2>6. QED
    BY <2>3, <2>4, <2>5 DEF Covered
<1>4. ASSUME NEW p \in Processes, Crash(p) PROVE Covered(b)'
  BY <1>1, <1>4 DEF Crash
<1>5. CASE UNCHANGED <<dispatched, worker>>
  BY <1>5 DEF Covered, Handling
<1>6. CASE (\E f \in Fingerprints : Expire(f)) \/ UNCHANGED vars
  BY <1>5, <1>6 DEF Expire, vars
<1>7. QED
  BY <1>2, <1>3, <1>4, <1>6, NextSteps

LEMMA NextCovers == TypeInv /\ CoverInv /\ [Next]_vars => CoverInv'
<1> SUFFICES ASSUME TypeInv, CoverInv, [Next]_vars, faults' = 0, crashes' = 0
             PROVE  /\ \A f \in Fingerprints, b \in Alerts :
                         window'[f] = b => b \in Same(f) /\ Covered(b)'
                    /\ \A p \in Processes :
                         At(p, "skip")' => \E b \in Same(FingerprintOf(p)') : Covered(b)'
                    /\ \A a \in Alerts :
                         status'[a] = "deduped" => \E b \in Same(Fingerprint[a]) : Covered(b)'
  BY DEF CoverInv, Same
<1>1. /\ window \in [Fingerprints -> Alerts \cup {None}]
      /\ faults \in Nat /\ crashes \in Nat /\ status \in [Alerts -> Statuses]
  BY DEF TypeInv, TypeOK, Statuses
<1>2. faults = 0 /\ crashes = 0
  <2>1. (faults' = faults \/ faults' = faults + 1) /\ (crashes' = crashes \/ crashes' = crashes + 1)
    <3>1. ASSUME NEW p \in Processes, Pipeline(p)
          PROVE  (faults' = faults \/ faults' = faults + 1) /\ crashes' = crashes
      BY <3>1, PipelineMoves
    <3>2. CASE QuietStep
      BY <3>2, RestEffects
    <3>3. CASE UNCHANGED <<faults, crashes>>
      BY <3>3
    <3>4. ASSUME NEW p \in Processes, Crash(p)
          PROVE  faults' = faults /\ crashes' = crashes + 1
      BY <3>4, CrashMoves
    <3>5. (\E f \in Fingerprints : Expire(f)) \/ UNCHANGED vars => UNCHANGED <<faults, crashes>>
      BY DEF Expire, vars
    <3>6. QED
      BY <3>1, <3>2, <3>3, <3>4, <3>5, NextSteps
  <2>2. QED
    BY <1>1, <2>1
<1>3. /\ \A f \in Fingerprints, b \in Alerts :
           window[f] = b => b \in Same(f) /\ Covered(b)
      /\ \A p \in Processes :
           At(p, "skip") => \E b \in Same(FingerprintOf(p)) : Covered(b)
      /\ \A a \in Alerts :
           status[a] = "deduped" => \E b \in Same(Fingerprint[a]) : Covered(b)
  BY <1>2 DEF CoverInv
<1>4. \A b \in Alerts : Covered(b) => Covered(b)'
  BY StaysCovered
<1>5. \A f : Same(f) \subseteq Alerts
  BY DEF Same
<1>6. ASSUME \A f \in Fingerprints : window'[f] = window[f] \/ window'[f] = None,
             \A p \in Processes : At(p, "skip")' => worker'[p] = worker[p],
             \A b \in Alerts : status'[b] = status[b] \/ status'[b] # "deduped"
      PROVE  /\ \A f \in Fingerprints, b \in Alerts :
                  window'[f] = b => b \in Same(f) /\ Covered(b)'
             /\ \A p \in Processes :
                  At(p, "skip")' => \E b \in Same(FingerprintOf(p)') : Covered(b)'
             /\ \A a \in Alerts :
                  status'[a] = "deduped" => \E b \in Same(Fingerprint[a]) : Covered(b)'
  <2>1. ASSUME NEW f \in Fingerprints, NEW b \in Alerts, window'[f] = b
        PROVE  b \in Same(f) /\ Covered(b)'
    <3>1. window[f] = b
      BY <1>6, <2>1
    <3>2. QED
      BY <1>3, <1>4, <3>1
  <2>2. ASSUME NEW p \in Processes, At(p, "skip")'
        PROVE  \E b \in Same(FingerprintOf(p)') : Covered(b)'
    <3>1. At(p, "skip") /\ FingerprintOf(p)' = FingerprintOf(p)
      BY <1>6, <2>2 DEF At, FingerprintOf, Handling
    <3>2. QED
      BY <1>3, <1>4, <1>5, <3>1
  <2>3. QED
    BY <1>3, <1>4, <1>5, <1>6, <2>1, <2>2
<1>7. ASSUME QuietStep
      PROVE  /\ \A f \in Fingerprints : window'[f] = window[f] \/ window'[f] = None
             /\ \A q \in Processes : At(q, "skip")' => worker'[q] = worker[q]
             /\ \A b \in Alerts : status'[b] = status[b] \/ status'[b] # "deduped"
  <2>1. /\ UNCHANGED window
        /\ \A b \in Alerts : status'[b] = status[b] \/ status'[b] # "deduped"
        /\ \A q \in Processes : \/ worker'[q] = worker[q]
                                \/ worker'[q].at \in {"idle", "handle", "failed"}
    BY <1>7, RestEffects
  <2>2. \A q \in Processes : At(q, "skip")' => worker'[q] = worker[q]
    BY <2>1 DEF At
  <2>3. QED
    BY <2>1, <2>2
<1>8. ASSUME NEW f \in Fingerprints, Expire(f)
      PROVE  /\ \A g \in Fingerprints : window'[g] = window[g] \/ window'[g] = None
             /\ \A q \in Processes : At(q, "skip")' => worker'[q] = worker[q]
             /\ \A b \in Alerts : status'[b] = status[b] \/ status'[b] # "deduped"
  BY <1>1, <1>8 DEF Expire
<1>9. CASE UNCHANGED vars
  BY <1>6, <1>9 DEF vars
<1>10. ASSUME NEW p \in Processes, Crash(p) PROVE FALSE
  BY <1>1, <1>10 DEF Crash
<1>11. ASSUME NEW p \in Processes, Pipeline(p)
       PROVE  /\ \A f \in Fingerprints, b \in Alerts :
                   window'[f] = b => b \in Same(f) /\ Covered(b)'
              /\ \A q \in Processes :
                   At(q, "skip")' => \E b \in Same(FingerprintOf(q)') : Covered(b)'
              /\ \A a \in Alerts :
                   status'[a] = "deduped" => \E b \in Same(Fingerprint[a]) : Covered(b)'
  <2>1. /\ At(p, "register") => worker'[p].at = "analyse"
        /\ worker'[p].at = "skip" => /\ FingerprintOf(p) # None
                                     /\ window[FingerprintOf(p)] # None
        /\ \A f \in Fingerprints :
             \/ window'[f] = window[f]
             \/ At(p, "register") /\ f = FingerprintOf(p) /\ window'[f] = Handling(p)
        /\ \A b \in Alerts : \/ status'[b] = status[b] \/ status'[b] # "deduped"
                             \/ b = Handling(p) /\ At(p, "skip")
    BY <1>11, PipelineEffects
  <2>2. /\ \A q \in Processes \ {p} : worker'[q] = worker[q]
        /\ worker'[p].job = worker[p].job /\ Busy(p)
    BY <1>11, PipelineMoves, GotoMoves
  <2>3. PICK a \in Alerts, g \in Fingerprints \cup {None} :
          a = Handling(p) /\ g = FingerprintOf(p) /\ g = Fingerprint[a]
          /\ (g # None => a \in Same(g))
    BY <2>2, HandlingType DEF FingerprintOf
  <2>4. Handling(p)' = a /\ FingerprintOf(p)' = g
    BY <2>2, <2>3 DEF Handling, FingerprintOf
  <2>5. ASSUME NEW f \in Fingerprints, NEW b \in Alerts, window'[f] = b
        PROVE  b \in Same(f) /\ Covered(b)'
    <3>1. CASE window'[f] = window[f]
      BY <1>3, <1>4, <2>5, <3>1
    <3>2. CASE At(p, "register") /\ f = g /\ b = a
      <4>1. worker'[p].at = "analyse" /\ Handling(p)' = a
        BY <2>1, <2>4, <3>2
      <4>2. Covered(a)'
        BY <4>1 DEF Covered
      <4>3. f # None
        OBVIOUS
      <4>4. QED
        BY <2>3, <3>2, <4>2, <4>3
    <3>3. QED
      BY <2>1, <2>3, <2>5, <3>1, <3>2
  <2>6. ASSUME NEW q \in Processes, At(q, "skip")'
        PROVE  \E b \in Same(FingerprintOf(q)') : Covered(b)'
    <3>1. CASE q # p
      <4>1. At(q, "skip") /\ FingerprintOf(q)' = FingerprintOf(q)
        BY <2>2, <2>6, <3>1 DEF At, FingerprintOf, Handling
      <4>2. QED
        BY <1>3, <1>4, <1>5, <4>1
    <3>2. CASE q = p
      <4>1. g # None /\ g \in Fingerprints /\ window[g] # None
        BY <2>1, <2>3, <2>6, <3>2 DEF At
      <4>2. PICK b \in Alerts : window[g] = b
        BY <1>1, <4>1
      <4>3. b \in Same(g) /\ Covered(b)'
        BY <1>3, <1>4, <4>1, <4>2
      <4>4. QED
        BY <2>4, <3>2, <4>3
    <3>3. QED
      BY <3>1, <3>2
  <2>7. ASSUME NEW b \in Alerts, status'[b] = "deduped"
        PROVE  \E c \in Same(Fingerprint[b]) : Covered(c)'
    <3>1. CASE status[b] = "deduped"
      BY <1>3, <1>4, <1>5, <3>1
    <3>2. CASE b = a /\ At(p, "skip")
      BY <1>3, <1>4, <1>5, <2>3, <3>2
    <3>3. QED
      BY <2>1, <2>3, <2>7, <3>1, <3>2
  <2>8. QED
    BY <2>5, <2>6, <2>7
<1>12. QED
  BY <1>6, <1>7, <1>8, <1>9, <1>10, <1>11, NextSteps

\* While nothing fails, whatever requests and workers interleave and windows expire, an alert
\* that is set aside has an alert of its fingerprint that was dispatched, or will be next.
THEOREM SetAsideIsCovered == Spec => []SuppressedIsCovered
<1>1. Init => CoverInv
  BY DEF Init, CoverInv, At, Polling
<1>2. CoverInv => SuppressedIsCovered
  BY DEF CoverInv, SuppressedIsCovered, Covered
<1>3. QED
  BY <1>1, <1>2, TypeInit, NextType, NextCovers, PTL DEF Spec

(***************************************************************************)
(* One dispatch for each window. An unexpired entry is paid for by the     *)
(* worker that registered it: 1 + expiries + races bounds the rounds there *)
(* were, the workers on their way to one and the entry still free. It is   *)
(* of no consequence how many jobs an alert has, or which worker has them. *)
(***************************************************************************)
Owing(f) == {p \in Processes : worker[p].at \in {"analyse", "dispatch"} /\ FingerprintOf(p) = f}
Free(f) == IF window[f] = None THEN 1 ELSE 0

RoundInv ==
  \A f \in Fingerprints :
    /\ IsFiniteSet(Rounds(f))
    /\ Cardinality(Rounds(f)) + Cardinality(Owing(f)) + Free(f) <= 1 + expiries[f] + races[f]

\* What a pipeline step does to the rounds, the window and the workers that owe a round.
LEMMA RoundSteps ==
  ASSUME TypeInv, NEW p \in Processes, Pipeline(p)
  PROVE  \/ Dispatch(p)
         \/ \E reply \in Replies : Register(p, reply)
         \/ /\ UNCHANGED <<dispatched, window, expiries, races>>
            /\ worker'[p].at \in {"analyse", "dispatch"} => worker[p].at \in {"analyse", "dispatch"}
<1>1. Busy(p) /\ \A at \in Stages : Goto(p, at) => worker'[p].at = at
  BY PipelineMoves, GotoMoves
<1>2. \A at \in Stages \ {"analyse", "dispatch"} :
        Goto(p, at) => worker'[p].at \notin {"analyse", "dispatch"}
  BY <1>1
<1>3. ASSUME NEW reply \in Replies, Handle(p, reply) \/ Mark(p, reply) \/ Check(p, reply)
      PROVE  /\ UNCHANGED <<dispatched, window, expiries, races>>
             /\ worker'[p].at \notin {"analyse", "dispatch"}
  <2>1. \/ Goto(p, "mark") \/ Goto(p, "check") \/ Goto(p, "failed") \/ Goto(p, "reset")
        \/ Goto(p, "skip") \/ Goto(p, "register")
    BY <1>3 DEF Handle, Mark, Check
  <2>2. {"mark", "check", "failed", "reset", "skip", "register"}
          \subseteq Stages \ {"analyse", "dispatch"}
    BY DEF Stages
  <2>3. QED
    BY <1>2, <1>3, <2>1, <2>2 DEF Handle, Mark, Check
<1>4. ASSUME NEW reply \in Replies, Analyse(p, reply)
      PROVE  /\ UNCHANGED <<dispatched, window, expiries, races>>
             /\ worker[p].at = "analyse"
  BY <1>4 DEF Analyse, At
<1>5. ASSUME NEW reply \in Replies,
             \/ Skip(p, reply) \/ RecordDispatch(p, reply)
             \/ Finish(p, reply) \/ Reset(p, reply)
      PROVE  /\ UNCHANGED <<dispatched, window, expiries, races>>
             /\ worker'[p].at \notin {"analyse", "dispatch"}
  <2>1. Goto(p, "reset") \/ Goto(p, "done") \/ Goto(p, "finish") \/ Goto(p, "failed")
    BY <1>5 DEF Skip, RecordDispatch, Finish, Reset
  <2>2. {"reset", "done", "finish", "failed"} \subseteq Stages \ {"analyse", "dispatch"}
    BY DEF Stages
  <2>3. QED
    BY <1>2, <1>5, <2>1, <2>2 DEF Skip, RecordDispatch, Finish, Reset
<1>6. QED
  BY <1>3, <1>4, <1>5 DEF Pipeline

\* Counting: a subset, a set with one element more, and one with an element less.
LEMMA Counts ==
  ASSUME NEW S, IsFiniteSet(S)
  PROVE  /\ Cardinality(S) \in Nat
         /\ \A T \in SUBSET S : IsFiniteSet(T) /\ Cardinality(T) \in Nat
                                /\ Cardinality(T) <= Cardinality(S)
         /\ \A x : \A T \in SUBSET (S \cup {x}) :
              IsFiniteSet(T) /\ Cardinality(T) \in Nat /\ Cardinality(T) <= Cardinality(S) + 1
         /\ \A x \in S : \A T \in SUBSET (S \ {x}) :
              IsFiniteSet(T) /\ Cardinality(T) \in Nat /\ Cardinality(T) + 1 <= Cardinality(S)
<1>1. Cardinality(S) \in Nat
  BY FS_CardinalityType
<1>2. ASSUME NEW T \in SUBSET S
      PROVE  IsFiniteSet(T) /\ Cardinality(T) \in Nat /\ Cardinality(T) <= Cardinality(S)
  BY FS_Subset, FS_CardinalityType
<1>3. ASSUME NEW x, NEW T \in SUBSET (S \cup {x})
      PROVE  IsFiniteSet(T) /\ Cardinality(T) \in Nat /\ Cardinality(T) <= Cardinality(S) + 1
  <2>1. /\ IsFiniteSet(S \cup {x}) /\ Cardinality(S \cup {x}) \in Nat
        /\ Cardinality(S \cup {x}) <= Cardinality(S) + 1
    <3>1. /\ IsFiniteSet(S \cup {x})
          /\ \/ Cardinality(S \cup {x}) = Cardinality(S)
             \/ Cardinality(S \cup {x}) = Cardinality(S) + 1
      BY FS_AddElement
    <3>2. QED
      BY <1>1, <3>1
  <2>2. IsFiniteSet(T) /\ Cardinality(T) \in Nat /\ Cardinality(T) <= Cardinality(S \cup {x})
    BY <2>1, FS_Subset, FS_CardinalityType
  <2>3. QED
    BY <1>1, <2>1, <2>2
<1>4. ASSUME NEW x \in S, NEW T \in SUBSET (S \ {x})
      PROVE  IsFiniteSet(T) /\ Cardinality(T) \in Nat /\ Cardinality(T) + 1 <= Cardinality(S)
  <2>1. /\ IsFiniteSet(S \ {x}) /\ Cardinality(S \ {x}) \in Nat
        /\ Cardinality(S \ {x}) = Cardinality(S) - 1
    BY <1>1, FS_RemoveElement, FS_CardinalityType
  <2>2. IsFiniteSet(T) /\ Cardinality(T) \in Nat /\ Cardinality(T) <= Cardinality(S \ {x})
    BY <2>1, FS_Subset, FS_CardinalityType
  <2>3. QED
    BY <1>1, <2>1, <2>2
<1>5. QED
  BY <1>1, <1>2, <1>3, <1>4

\* A round is paid for by a worker that owed it, an entry by an expiry or a race.
LEMMA Balanced ==
  ASSUME NEW r \in Nat, NEW o \in Nat, NEW w \in {0, 1}, NEW e \in Nat, NEW x \in Nat,
         NEW r1 \in Nat, NEW o1 \in Nat, NEW w1 \in {0, 1}, NEW e1 \in Nat, NEW x1 \in Nat,
         r + o + w <= 1 + e + x,
         \/ r1 <= r /\ o1 <= o /\ w1 = w /\ e1 = e /\ x1 = x
         \/ r1 <= r + 1 /\ o1 + 1 <= o /\ w1 = w /\ e1 = e /\ x1 = x
         \/ r1 <= r /\ o1 <= o + 1 /\ w = 1 /\ w1 = 0 /\ e1 = e /\ x1 = x
         \/ r1 <= r /\ o1 <= o + 1 /\ w1 = w /\ e1 = e /\ x1 = x + 1
         \/ r1 <= r /\ o1 <= o /\ w = 0 /\ w1 = 1 /\ e1 = e + 1 /\ x1 = x
  PROVE  r1 + o1 + w1 <= 1 + e1 + x1
OBVIOUS

\* How the rounds, the workers that owe one and the entry of f may change together.
Moves(f) ==
  \/ /\ Rounds(f)' \subseteq Rounds(f) /\ Owing(f)' \subseteq Owing(f)
     /\ Free(f)' = Free(f) /\ expiries'[f] = expiries[f] /\ races'[f] = races[f]
  \/ /\ \E x : Rounds(f)' \subseteq Rounds(f) \cup {x}
     /\ \E p \in Owing(f) : Owing(f)' \subseteq Owing(f) \ {p}
     /\ Free(f)' = Free(f) /\ expiries'[f] = expiries[f] /\ races'[f] = races[f]
  \/ /\ Rounds(f)' \subseteq Rounds(f) /\ \E p : Owing(f)' \subseteq Owing(f) \cup {p}
     /\ Free(f) = 1 /\ Free(f)' = 0 /\ expiries'[f] = expiries[f] /\ races'[f] = races[f]
  \/ /\ Rounds(f)' \subseteq Rounds(f) /\ \E p : Owing(f)' \subseteq Owing(f) \cup {p}
     /\ Free(f)' = Free(f) /\ expiries'[f] = expiries[f] /\ races'[f] = races[f] + 1
  \/ /\ Rounds(f)' \subseteq Rounds(f) /\ Owing(f)' \subseteq Owing(f)
     /\ Free(f) = 0 /\ Free(f)' = 1 /\ expiries'[f] = expiries[f] + 1
     /\ races'[f] = races[f]

LEMMA MovesKeep ==
  ASSUME TypeInv, TypeInv', RoundInv, NEW f \in Fingerprints, Moves(f)
  PROVE  /\ IsFiniteSet(Rounds(f)')
         /\ Cardinality(Rounds(f)') + Cardinality(Owing(f)') + Free(f)'
              <= 1 + expiries'[f] + races'[f]
<1>1. PICK R, R1, O, O1, w, w1, e, e1, x, x1 :
        /\ R = Rounds(f) /\ R1 = Rounds(f)' /\ O = Owing(f) /\ O1 = Owing(f)'
        /\ w = Free(f) /\ w1 = Free(f)' /\ e = expiries[f] /\ e1 = expiries'[f]
        /\ x = races[f] /\ x1 = races'[f]
  OBVIOUS
<1>2. /\ w \in {0, 1} /\ w1 \in {0, 1}
      /\ e \in Nat /\ e1 \in Nat /\ x \in Nat /\ x1 \in Nat
  BY <1>1 DEF Free, TypeInv, TypeOK
<1>3. O \subseteq Processes /\ O1 \subseteq Processes /\ IsFiniteSet(O) /\ IsFiniteSet(O1)
  <2>1. O \subseteq Processes /\ O1 \subseteq Processes
    BY <1>1 DEF Owing
  <2>2. QED
    BY <2>1, FS_Subset
<1>4. /\ IsFiniteSet(R)
      /\ Cardinality(R) + Cardinality(O) + w <= 1 + e + x
  BY <1>1 DEF RoundInv
<1>5. Cardinality(R) \in Nat /\ Cardinality(O) \in Nat /\ Cardinality(O1) \in Nat
  BY <1>3, <1>4, FS_CardinalityType
<1>6. \/ R1 \subseteq R /\ O1 \subseteq O /\ w1 = w /\ e1 = e /\ x1 = x
      \/ /\ \E y : R1 \subseteq R \cup {y}
         /\ \E p \in O : O1 \subseteq O \ {p}
         /\ w1 = w /\ e1 = e /\ x1 = x
      \/ /\ R1 \subseteq R /\ \E p : O1 \subseteq O \cup {p}
         /\ w = 1 /\ w1 = 0 /\ e1 = e /\ x1 = x
      \/ /\ R1 \subseteq R /\ \E p : O1 \subseteq O \cup {p}
         /\ w1 = w /\ e1 = e /\ x1 = x + 1
      \/ R1 \subseteq R /\ O1 \subseteq O /\ w = 0 /\ w1 = 1 /\ e1 = e + 1 /\ x1 = x
  BY <1>1 DEF Moves
<1>7. /\ R1 \subseteq R => IsFiniteSet(R1) /\ Cardinality(R1) \in Nat
                           /\ Cardinality(R1) <= Cardinality(R)
      /\ (\E y : R1 \subseteq R \cup {y}) =>
           IsFiniteSet(R1) /\ Cardinality(R1) \in Nat /\ Cardinality(R1) <= Cardinality(R) + 1
  BY <1>4, Counts
<1>8. /\ O1 \subseteq O => Cardinality(O1) <= Cardinality(O)
      /\ (\E p : O1 \subseteq O \cup {p}) => Cardinality(O1) <= Cardinality(O) + 1
      /\ (\E p \in O : O1 \subseteq O \ {p}) => Cardinality(O1) + 1 <= Cardinality(O)
  BY <1>3, Counts
<1>9. IsFiniteSet(R1) /\ Cardinality(R1) \in Nat
  BY <1>6, <1>7
<1>10. PICK r \in Nat, r1 \in Nat, o \in Nat, o1 \in Nat :
         /\ r = Cardinality(R) /\ r1 = Cardinality(R1)
         /\ o = Cardinality(O) /\ o1 = Cardinality(O1)
  BY <1>5, <1>9
<1>11. \/ r1 <= r /\ o1 <= o /\ w1 = w /\ e1 = e /\ x1 = x
       \/ r1 <= r + 1 /\ o1 + 1 <= o /\ w1 = w /\ e1 = e /\ x1 = x
       \/ r1 <= r /\ o1 <= o + 1 /\ w = 1 /\ w1 = 0 /\ e1 = e /\ x1 = x
       \/ r1 <= r /\ o1 <= o + 1 /\ w1 = w /\ e1 = e /\ x1 = x + 1
       \/ r1 <= r /\ o1 <= o /\ w = 0 /\ w1 = 1 /\ e1 = e + 1 /\ x1 = x
  BY <1>6, <1>7, <1>8, <1>10
<1>12. r1 + o1 + w1 <= 1 + e1 + x1
  BY <1>2, <1>4, <1>10, <1>11, Balanced
<1>13. QED
  BY <1>1, <1>9, <1>10, <1>12

\* A dispatch adds one round, to the fingerprint of its alert.
LEMMA DispatchAdds ==
  ASSUME TypeInv, NEW p \in Processes, Dispatch(p), NEW f \in Fingerprints
  PROVE  /\ FingerprintOf(p) # f => Rounds(f)' \subseteq Rounds(f)
         /\ \E x : Rounds(f)' \subseteq Rounds(f) \cup {x}
<1>1. Busy(p)
  BY DEF Dispatch, At, Busy
<1>2. PICK a \in Alerts : a = Handling(p) /\ Fingerprint[a] = FingerprintOf(p)
  BY <1>1, HandlingType DEF FingerprintOf
<1>3. dispatched \in [Alerts -> Nat] /\ dispatched' = [dispatched EXCEPT ![a] = @ + 1]
  BY <1>2 DEF Dispatch, TypeInv, TypeOK
<1>4. \A b \in Alerts : b # a => dispatched'[b] = dispatched[b]
  BY <1>3
<1>5. dispatched'[a] = dispatched[a] + 1 /\ dispatched[a] \in Nat
  BY <1>3
<1>6. 1..dispatched'[a] \subseteq (1..dispatched[a]) \cup {dispatched[a] + 1}
  BY <1>5
<1>7. ASSUME NEW y \in Rounds(f)'
      PROVE  y \in Rounds(f) \/ (FingerprintOf(p) = f /\ y = <<a, dispatched[a] + 1>>)
  <2>1. PICK b \in Same(f) : y \in {b} \X (1..dispatched'[b])
    BY DEF Rounds
  <2>2. b \in Alerts /\ Fingerprint[b] = f
    BY DEF Same
  <2>3. CASE b # a
    <3>1. y \in {b} \X (1..dispatched[b])
      BY <1>4, <2>1, <2>2, <2>3
    <3>2. QED
      BY <3>1 DEF Rounds
  <2>4. CASE b = a
    <3>1. PICK n \in 1..dispatched'[a] : y = <<a, n>>
      BY <2>1, <2>4
    <3>2. CASE n \in 1..dispatched[a]
      <4>1. y \in {b} \X (1..dispatched[b])
        BY <2>4, <3>1, <3>2
      <4>2. QED
        BY <4>1 DEF Rounds
    <3>3. CASE n = dispatched[a] + 1
      BY <1>2, <2>2, <2>4, <3>1, <3>3
    <3>4. QED
      BY <1>6, <3>1, <3>2, <3>3
  <2>5. QED
    BY <2>3, <2>4
<1>8. QED
  BY <1>7

LEMMA PipelineRounds ==
  ASSUME TypeInv, NEW p \in Processes, Pipeline(p), NEW f \in Fingerprints
  PROVE  Moves(f)
<1>1. /\ Busy(p) /\ UNCHANGED expiries
      /\ \A q \in Processes \ {p} : worker'[q] = worker[q]
      /\ \A q \in Processes : worker'[q].job = worker[q].job
  BY PipelineMoves, GotoMoves
<1>2. PICK a \in Alerts, g \in Fingerprints \cup {None} : a = Handling(p) /\ g = FingerprintOf(p)
  BY <1>1, HandlingType
<1>3. \A q \in Processes : FingerprintOf(q)' = FingerprintOf(q)
  BY <1>1 DEF FingerprintOf, Handling
<1>4. Owing(f)' \subseteq Owing(f) \cup {p}
  BY <1>1, <1>3 DEF Owing
<1>5. g # f => Owing(f)' \subseteq Owing(f)
  BY <1>1, <1>2, <1>3 DEF Owing
<1>6. window \in [Fingerprints -> Alerts \cup {None}] /\ races \in [Fingerprints -> Nat]
  BY DEF TypeInv, TypeOK
<1>7. UNCHANGED dispatched => Rounds(f)' \subseteq Rounds(f)
  BY DEF Rounds
<1>8. UNCHANGED window => Free(f)' = Free(f)
  BY DEF Free
<1>9. CASE Dispatch(p)
  <2>1. At(p, "dispatch") /\ Goto(p, "record") /\ UNCHANGED <<window, expiries, races>>
    BY <1>9 DEF Dispatch
  <2>2. "record" \in Stages
    BY DEF Stages
  <2>3. worker'[p].at = "record" /\ worker[p].at = "dispatch"
    BY <1>1, <2>1, <2>2, GotoMoves DEF At
  <2>4. p \notin Owing(f)'
    BY <2>3 DEF Owing
  <2>5. g = f => p \in Owing(f)
    BY <1>2, <2>3 DEF Owing
  <2>6. Free(f)' = Free(f) /\ expiries'[f] = expiries[f] /\ races'[f] = races[f]
    BY <1>8, <2>1
  <2>7. CASE g = f
    <3>1. Owing(f)' \subseteq Owing(f) \ {p}
      BY <1>4, <2>4
    <3>2. \E x : Rounds(f)' \subseteq Rounds(f) \cup {x}
      BY <1>9, DispatchAdds
    <3>3. QED
      BY <2>5, <2>6, <2>7, <3>1, <3>2 DEF Moves
  <2>8. CASE g # f
    <3>1. Rounds(f)' \subseteq Rounds(f)
      BY <1>2, <1>9, <2>8, DispatchAdds
    <3>2. QED
      BY <1>5, <2>6, <2>8, <3>1 DEF Moves
  <2>9. QED
    BY <2>7, <2>8
<1>10. ASSUME NEW reply \in Replies, Register(p, reply) PROVE Moves(f)
  <2>1. /\ At(p, "register") /\ UNCHANGED <<dispatched, expiries>>
        /\ Goto(p, "analyse") \/ Goto(p, "reset")
    BY <1>10 DEF Register
  <2>2. Rounds(f)' \subseteq Rounds(f) /\ expiries'[f] = expiries[f]
    BY <1>7, <2>1
  <2>3. CASE g # f
    <3>1. window'[f] = window[f] /\ races'[f] = races[f]
      BY <1>2, <1>6, <1>10, <2>3 DEF Register
    <3>2. Free(f)' = Free(f)
      BY <3>1 DEF Free
    <3>3. QED
      BY <1>5, <2>2, <2>3, <3>1, <3>2 DEF Moves
  <2>4. CASE g = f /\ ~Applied(reply)
    <3>1. UNCHANGED <<window, races>> /\ reply # "ok" /\ Goto(p, "reset")
      BY <1>2, <1>10, <2>4 DEF Register, Applied
    <3>2. "reset" \in Stages
      BY DEF Stages
    <3>3. worker'[p].at = "reset"
      BY <1>1, <3>1, <3>2, GotoMoves
    <3>4. Owing(f)' \subseteq Owing(f)
      BY <1>4, <3>3 DEF Owing
    <3>5. QED
      BY <1>8, <2>2, <3>1, <3>4 DEF Moves
  <2>5. CASE g = f /\ Applied(reply)
    <3>1. /\ window' = [window EXCEPT ![f] = a]
          /\ races' = [races EXCEPT ![f] = IF window[f] = None THEN @ ELSE @ + 1]
      BY <1>2, <1>10, <2>5 DEF Register
    <3>2. window'[f] = a /\ a # None
      BY <1>6, <3>1
    <3>3. Free(f)' = 0
      BY <3>2 DEF Free
    <3>4. CASE window[f] = None
      <4>1. races'[f] = races[f]
        BY <1>6, <3>1, <3>4
      <4>2. Free(f) = 1
        BY <3>4 DEF Free
      <4>3. QED
        BY <1>4, <2>2, <3>3, <4>1, <4>2 DEF Moves
    <3>5. CASE window[f] # None
      <4>1. races'[f] = races[f] + 1
        BY <1>6, <3>1, <3>5
      <4>2. Free(f) = 0
        BY <3>5 DEF Free
      <4>3. QED
        BY <1>4, <2>2, <3>3, <4>1, <4>2 DEF Moves
    <3>6. QED
      BY <3>4, <3>5
  <2>6. QED
    BY <2>3, <2>4, <2>5
<1>11. CASE /\ UNCHANGED <<dispatched, window, expiries, races>>
            /\ worker'[p].at \in {"analyse", "dispatch"} => worker[p].at \in {"analyse", "dispatch"}
  <2>1. Owing(f)' \subseteq Owing(f)
    BY <1>1, <1>3, <1>11 DEF Owing
  <2>2. QED
    BY <1>7, <1>8, <1>11, <2>1 DEF Moves
<1>12. QED
  BY <1>9, <1>10, <1>11, RoundSteps

LEMMA NextRounds ==
  TypeInv /\ TypeInv' /\ RoundInv /\ [Next]_vars => RoundInv'
<1> SUFFICES ASSUME TypeInv, TypeInv', RoundInv, [Next]_vars,
                    NEW f \in Fingerprints
             PROVE  Moves(f)
  BY MovesKeep DEF RoundInv
<1>1. window \in [Fingerprints -> Alerts \cup {None}] /\ expiries \in [Fingerprints -> 0..MaxExpiries]
  BY DEF TypeInv, TypeOK
<1>2. ASSUME UNCHANGED <<dispatched, window, expiries, races>>,
             \A q \in Processes : \/ worker'[q] = worker[q]
                                  \/ worker'[q].at \notin {"analyse", "dispatch"}
      PROVE  Moves(f)
  <2>1. Rounds(f)' \subseteq Rounds(f) /\ Free(f)' = Free(f)
    BY <1>2 DEF Rounds, Free
  <2>2. Owing(f)' \subseteq Owing(f)
    BY <1>2 DEF Owing, FingerprintOf, Handling
  <2>3. QED
    BY <1>2, <2>1, <2>2 DEF Moves
<1>3. CASE QuietStep
  <2>1. /\ UNCHANGED <<dispatched, window, expiries, races>>
        /\ \A q \in Processes : \/ worker'[q] = worker[q]
                                \/ worker'[q].at \in {"idle", "handle", "failed"}
    BY <1>3, RestEffects
  <2>2. QED
    BY <1>2, <2>1
<1>4. ASSUME NEW p \in Processes, Crash(p) PROVE Moves(f)
  <2>1. \A q \in Processes : worker'[q] = worker[q] \/ worker'[q].at = "idle"
    <3>1. worker'[p] = Polling /\ \A q \in Processes \ {p} : worker'[q] = worker[q]
      BY <1>4, CrashMoves
    <3>2. QED
      BY <3>1, PollingType
  <2>2. UNCHANGED <<dispatched, window, expiries, races>>
    BY <1>4 DEF Crash
  <2>3. QED
    BY <1>2, <2>1, <2>2
<1>5. ASSUME NEW g \in Fingerprints, Expire(g) PROVE Moves(f)
  <2>1. /\ UNCHANGED <<dispatched, worker, races>> /\ window[g] # None
        /\ window' = [window EXCEPT ![g] = None]
        /\ expiries' = [expiries EXCEPT ![g] = @ + 1]
    BY <1>5 DEF Expire
  <2>2. Rounds(f)' \subseteq Rounds(f) /\ Owing(f)' \subseteq Owing(f)
    BY <2>1 DEF Rounds, Owing, FingerprintOf, Handling
  <2>3. CASE f = g
    <3>1. Free(f) = 0 /\ Free(f)' = 1
      BY <1>1, <2>1, <2>3 DEF Free
    <3>2. expiries'[f] = expiries[f] + 1
      BY <1>1, <2>1, <2>3
    <3>3. QED
      BY <2>1, <2>2, <3>1, <3>2 DEF Moves
  <2>4. CASE f # g
    <3>1. window'[f] = window[f] /\ expiries'[f] = expiries[f]
      BY <1>1, <2>1, <2>4
    <3>2. Free(f)' = Free(f)
      BY <3>1 DEF Free
    <3>3. QED
      BY <2>1, <2>2, <3>1, <3>2 DEF Moves
  <2>5. QED
    BY <2>3, <2>4
<1>6. CASE UNCHANGED vars
  BY <1>2, <1>6 DEF vars
<1>7. QED
  BY <1>3, <1>4, <1>5, <1>6, PipelineRounds, NextSteps

LEMMA InitRounds == Init => RoundInv
<1> SUFFICES ASSUME Init PROVE RoundInv
  OBVIOUS
<1>1. \A p \in Processes : worker[p].at = "idle"
  BY DEF Init, Polling
<1>2. ASSUME NEW f \in Fingerprints
      PROVE  /\ IsFiniteSet(Rounds(f))
             /\ Cardinality(Rounds(f)) + Cardinality(Owing(f)) + Free(f)
                  <= 1 + expiries[f] + races[f]
  <2>1. Rounds(f) = {}
    <3>1. \A a \in Same(f) : 1..dispatched[a] = {}
      BY DEF Init, Same
    <3>2. QED
      BY <3>1 DEF Rounds
  <2>2. Owing(f) = {}
    BY <1>1 DEF Owing
  <2>3. Free(f) = 1 /\ expiries[f] = 0 /\ races[f] = 0
    BY DEF Init, Free
  <2>4. QED
    BY <2>1, <2>2, <2>3, FS_EmptySet
<1>3. QED
  BY <1>2 DEF RoundInv

LEMMA RoundsBounded == TypeInv /\ RoundInv => OneDispatchPerWindow
<1> SUFFICES ASSUME TypeInv, RoundInv, NEW f \in Fingerprints
             PROVE  Cardinality(Rounds(f)) <= 1 + expiries[f] + races[f]
  BY DEF OneDispatchPerWindow
<1>1. /\ IsFiniteSet(Rounds(f))
      /\ Cardinality(Rounds(f)) + Cardinality(Owing(f)) + Free(f) <= 1 + expiries[f] + races[f]
  BY DEF RoundInv
<1>2. IsFiniteSet(Owing(f))
  BY FS_Subset DEF Owing
<1>3. Cardinality(Rounds(f)) \in Nat /\ Cardinality(Owing(f)) \in Nat /\ Free(f) \in Nat
  BY <1>1, <1>2, FS_CardinalityType DEF Free
<1>4. expiries[f] \in Nat /\ races[f] \in Nat
  BY DEF TypeInv, TypeOK
<1>5. QED
  BY <1>1, <1>3, <1>4

\* A fingerprint notifies once for each window, and once more for each registration over an
\* entry that had not expired, whatever is retried, redelivered, queued twice or crashes.
THEOREM NotifiesOncePerWindow == Spec => []OneDispatchPerWindow
BY TypeInit, NextType, InitRounds, NextRounds,
   RoundsBounded, PTL DEF Spec
============================================================================
