--------------------------- MODULE IncidentTriage ---------------------------
(***************************************************************************)
(* The incident-triage service: the webhook pipeline that stores an alert  *)
(* and queues it (routes/processWebhookAlert.ts), and the worker that      *)
(* takes it through deduplication, analysis and dispatch                   *)
(* (workers/triageWorker.ts). One action is one database or Redis command. *)
(* The queue is the one ReliableQueue details, kept here to what the       *)
(* pipeline relies on: first in, first out, MaxRetries re-queues, then the *)
(* dead letter list. Its commands fail like all others; the processing     *)
(* list is left out, so an LREM and the LPUSH after it are one step.       *)
(***************************************************************************)
EXTENDS Naturals, Sequences, FiniteSets

CONSTANTS
  None,         \* no fingerprint, no alert
  Alerts,       \* webhook deliveries, each the id of the alert row it becomes
  Fingerprints,
  Fingerprint,  \* the fingerprint an adapter computes for each, or None
  Tenantless,   \* the deliveries that name no tenant
  Processes,    \* replicas of the service, each with one poll loop
  Requests,     \* webhook requests in flight at once, at whichever replica
  MaxRetries,   \* QUEUE_RETRY_CONFIG.INCIDENT_TRIAGE
  MaxReceipts,  \* bound on webhook requests, redeliveries included
  MaxExpiries,  \* bound on windows that expire, per fingerprint
  MaxFaults,    \* bound on failed commands
  MaxCrashes    \* bound on crashes of a process

ASSUME TriageAssumption ==
  /\ Fingerprint \in [Alerts -> Fingerprints \cup {None}]
  /\ None \notin Fingerprints \cup Alerts \cup Processes
  /\ Tenantless \subseteq Alerts
  /\ {MaxRetries, MaxReceipts, MaxExpiries, MaxFaults, MaxCrashes} \subseteq Nat
  /\ IsFiniteSet(Alerts) /\ IsFiniteSet(Processes) /\ IsFiniteSet(Requests)

Same(f) == {a \in Alerts : Fingerprint[a] = f}

VARIABLES
  status,      \* incident_alerts.status, "absent" before the row exists
  window,      \* incident_dedup_window: the alert of the unexpired entry, or None
  queue,       \* jobs waiting
  dead,        \* alerts whose job is in the dead letter list
  request,     \* each request: how far it is, and the replica that answers it
  worker,      \* each process: where its poll loop is
  enqueued,    \* history: alerts whose job was ever queued
  skipped,     \* history: deliveries answered "duplicate"
  dispatched,  \* history: dispatch rounds of each alert
  expiries,    \* history: windows of each fingerprint that expired
  races,       \* history: registrations over an unexpired entry
  dropped,     \* history: alerts a job of which the queue's own commands lost
  cutOff,      \* history: requests a crash ended between INSERT and enqueue
  receipts, faults, crashes

vars == <<status, window, queue, dead, request, worker, enqueued, skipped,
          dispatched, expiries, races, dropped, cutOff, receipts, faults, crashes>>

Job == [alert : Alerts, retry : 0..MaxRetries]
Request == [at : {"idle", "insert", "enqueue"}, alert : Alerts \cup {None},
            by : Processes \cup {None}]
Worker ==
  [at : {"idle", "handle", "mark", "check", "skip", "register", "analyse", "dispatch",
         "record", "finish", "reset", "failed", "done"},
   job : Job \cup {None},
   caught : BOOLEAN]  \* whether the catch block of process() settles the job

NoRequest == [at |-> "idle", alert |-> None, by |-> None]
Polling   == [at |-> "idle", job |-> None, caught |-> FALSE]

Init ==
  /\ status = [a \in Alerts |-> "absent"]
  /\ window = [f \in Fingerprints |-> None]
  /\ queue = <<>> /\ dead = {}
  /\ request = [r \in Requests |-> NoRequest]
  /\ worker = [p \in Processes |-> Polling]
  /\ enqueued = {} /\ skipped = {}
  /\ dispatched = [a \in Alerts |-> 0]
  /\ expiries = [f \in Fingerprints |-> 0] /\ races = [f \in Fingerprints |-> 0]
  /\ dropped = {} /\ cutOff = 0
  /\ receipts = 0 /\ faults = 0 /\ crashes = 0

\* A command resolves, fails, or fails after the server applied it.
Replies == {"ok", "rejected", "unconfirmed"}
Applied(reply) == reply # "rejected"
Reply(reply) ==
  /\ reply # "ok" => faults < MaxFaults
  /\ faults' = IF reply = "ok" THEN faults ELSE faults + 1

SetStatus(a, s, reply) ==
  status' = IF Applied(reply) THEN [status EXCEPT ![a] = s] ELSE status

-----------------------------------------------------------------------------
(* Webhook requests: processWebhookAlert *)

\* findAlertByDeliveryId.
Receive(r, p, a) ==
  /\ request[r] = NoRequest /\ receipts < MaxReceipts
  /\ receipts' = receipts + 1
  /\ IF status[a] # "absent"
     THEN skipped' = skipped \cup {a} /\ UNCHANGED request
     ELSE /\ request' = [request EXCEPT ![r] = [at |-> "insert", alert |-> a, by |-> p]]
          /\ UNCHANGED skipped
  /\ UNCHANGED <<status, window, queue, dead, worker, enqueued, dispatched,
                 expiries, races, dropped, cutOff, faults, crashes>>

\* Mutant: the fingerprint is registered when the alert is stored.
InsertRegisters(r, reply) ==
  LET a == request[r].alert
  IN  /\ request[r].at = "insert" /\ Reply(reply)
      /\ SetStatus(a, "received", reply)
      /\ window' = IF Fingerprint[a] = None THEN window
                   ELSE [window EXCEPT ![Fingerprint[a]] = a]
      /\ request' = [request EXCEPT ![r] = [@ EXCEPT !.at = "enqueue"]]
      /\ UNCHANGED <<queue, dead, worker, enqueued, skipped, dispatched,
                     expiries, races, dropped, cutOff, receipts, crashes>>

\* createIncidentAlert; delivery_id has a unique index, so the loser of two
\* concurrent deliveries fails here.
Insert(r, reply) ==
  LET a == request[r].alert
  IN  /\ request[r].at = "insert"
      /\ Reply(reply)
      /\ IF status[a] = "absent" THEN SetStatus(a, "received", reply) ELSE UNCHANGED status
      /\ request' = [request EXCEPT ![r] =
                       IF reply = "ok" /\ status[a] = "absent"
                       THEN [@ EXCEPT !.at = "enqueue"] ELSE NoRequest]
      /\ UNCHANGED <<window, queue, dead, worker, enqueued, skipped, dispatched,
                     expiries, races, dropped, cutOff, receipts, crashes>>

\* Mutant: the answer does not wait for the enqueue, which is lost.
EnqueueForgotten(r, reply) ==
  /\ request[r].at = "enqueue" /\ Reply(reply)
  /\ request' = [request EXCEPT ![r] = NoRequest]
  /\ UNCHANGED <<status, window, queue, dead, worker, enqueued, skipped, dispatched,
                 expiries, races, dropped, cutOff, receipts, crashes>>

Enqueue(r, reply) ==
  LET a == request[r].alert
  IN  /\ request[r].at = "enqueue" /\ Reply(reply)
      /\ IF Applied(reply)
         THEN /\ queue' = Append(queue, [alert |-> a, retry |-> 0])
              /\ enqueued' = enqueued \cup {a}
         ELSE UNCHANGED <<queue, enqueued>>
      /\ request' = [request EXCEPT ![r] = NoRequest]
      /\ UNCHANGED <<status, window, dead, worker, skipped, dispatched, expiries, races,
                     dropped, cutOff, receipts, crashes>>

-----------------------------------------------------------------------------
(* The poll loop: handleQueueMessage, processAlert, runTriagePipeline *)

At(p, at) == worker[p].at = at
Goto(p, at) == worker' = [worker EXCEPT ![p].at = at]
Handling(p) == worker[p].job.alert
FingerprintOf(p) == Fingerprint[Handling(p)]

\* RPOPLPUSH; when it fails the loop logs the error and polls again, and a job that
\* was moved all the same stays in the processing list.
Take(p, reply) ==
  /\ At(p, "idle") /\ queue # <<>>
  /\ Reply(reply)
  /\ queue' = IF Applied(reply) THEN Tail(queue) ELSE queue
  /\ worker' = IF reply # "ok" THEN worker
               ELSE [worker EXCEPT ![p] = [Polling EXCEPT !.at = "handle", !.job = Head(queue)]]
  /\ dropped' = IF reply = "unconfirmed" THEN dropped \cup {Head(queue).alert} ELSE dropped
  /\ UNCHANGED <<status, window, dead, request, enqueued, skipped, dispatched,
                 expiries, races, cutOff, receipts, crashes>>

\* The payload checks, then getAlertById, outside the try block of processAlert.
Handle(p, reply) ==
  /\ At(p, "handle")
  /\ Handling(p) \in Tenantless => reply = "ok"
  /\ Reply(reply)
  /\ Goto(p, IF reply = "ok" /\ Handling(p) \notin Tenantless THEN "mark" ELSE "failed")
  /\ UNCHANGED <<status, window, queue, dead, request, enqueued, skipped, dispatched,
                 expiries, races, dropped, cutOff, receipts, crashes>>

Mark(p, reply) ==
  /\ At(p, "mark") /\ Reply(reply)
  /\ SetStatus(Handling(p), "processing", reply)
  /\ Goto(p, IF reply = "ok" THEN "check" ELSE "failed")
  /\ UNCHANGED <<window, queue, dead, request, enqueued, skipped, dispatched,
                 expiries, races, dropped, cutOff, receipts, crashes>>

\* The entry found is not compared with the alert itself.
Check(p, reply) ==
  /\ At(p, "check") /\ Reply(reply)
  /\ FingerprintOf(p) = None => reply = "ok"
  /\ Goto(p, IF reply # "ok" THEN "reset"
             ELSE IF FingerprintOf(p) # None /\ window[FingerprintOf(p)] # None
                  THEN "skip" ELSE "register")
  /\ UNCHANGED <<status, window, queue, dead, request, enqueued, skipped, dispatched,
                 expiries, races, dropped, cutOff, receipts, crashes>>

Skip(p, reply) ==
  /\ At(p, "skip") /\ Reply(reply)
  /\ SetStatus(Handling(p), "deduped", reply)
  /\ Goto(p, IF reply = "ok" THEN "done" ELSE "reset")
  /\ UNCHANGED <<window, queue, dead, request, enqueued, skipped, dispatched,
                 expiries, races, dropped, cutOff, receipts, crashes>>

\* Mutant: the fingerprint is registered only when the pipeline has finished.
RegisterLate(p, reply) ==
  /\ At(p, "register") /\ Reply(reply)
  /\ Goto(p, IF reply = "ok" THEN "analyse" ELSE "reset")
  /\ UNCHANGED <<status, window, queue, dead, request, enqueued, skipped, dispatched,
                 expiries, races, dropped, cutOff, receipts, crashes>>

\* upsertDedupEntry: the last writer owns the entry. A registration over an entry
\* that has not expired is a race: the check before it found none.
Register(p, reply) ==
  /\ At(p, "register") /\ Reply(reply)
  /\ IF FingerprintOf(p) = None
     THEN reply = "ok" /\ UNCHANGED <<window, races>>
     ELSE IF Applied(reply)
          THEN /\ window' = [window EXCEPT ![FingerprintOf(p)] = Handling(p)]
               /\ races' = [races EXCEPT ![FingerprintOf(p)] =
                              IF window[FingerprintOf(p)] = None THEN @ ELSE @ + 1]
          ELSE UNCHANGED <<window, races>>
  /\ Goto(p, IF reply = "ok" THEN "analyse" ELSE "reset")
  /\ UNCHANGED <<status, queue, dead, request, enqueued, skipped, dispatched,
                 expiries, dropped, cutOff, receipts, crashes>>

\* Severity, runbooks, correlation, evidence and summary, and the rows of
\* incident_triage_results they are stored in.
Analyse(p, reply) ==
  /\ At(p, "analyse") /\ Reply(reply)
  /\ Goto(p, IF reply = "ok" THEN "dispatch" ELSE "reset")
  /\ UNCHANGED <<status, window, queue, dead, request, enqueued, skipped, dispatched,
                 expiries, races, dropped, cutOff, receipts, crashes>>

\* Promise.allSettled: a target that fails is recorded, never raised.
Dispatch(p) ==
  /\ At(p, "dispatch")
  /\ dispatched' = [dispatched EXCEPT ![Handling(p)] = @ + 1]
  /\ Goto(p, "record")
  /\ UNCHANGED <<status, window, queue, dead, request, enqueued, skipped,
                 expiries, races, dropped, cutOff, receipts, faults, crashes>>

RecordDispatch(p, reply) ==
  /\ At(p, "record") /\ Reply(reply)
  /\ Goto(p, IF reply = "ok" THEN "finish" ELSE "reset")
  /\ UNCHANGED <<status, window, queue, dead, request, enqueued, skipped, dispatched,
                 expiries, races, dropped, cutOff, receipts, crashes>>

Finish(p, reply) ==
  /\ At(p, "finish") /\ Reply(reply)
  /\ SetStatus(Handling(p), "triaged", reply)
  /\ Goto(p, IF reply = "ok" THEN "done" ELSE "reset")
  /\ UNCHANGED <<window, queue, dead, request, enqueued, skipped, dispatched,
                 expiries, races, dropped, cutOff, receipts, crashes>>

\* The catch block of processAlert; its own failure replaces the error.
Reset(p, reply) ==
  /\ At(p, "reset") /\ Reply(reply)
  /\ SetStatus(Handling(p), "error", reply)
  /\ Goto(p, "failed")
  /\ UNCHANGED <<window, queue, dead, request, enqueued, skipped, dispatched,
                 expiries, races, dropped, cutOff, receipts, crashes>>

\* LREM of a handled job; a failure is caught in process(), which fails the job.
Ack(p, reply) ==
  /\ At(p, "done") /\ Reply(reply)
  /\ worker' = [worker EXCEPT ![p] = IF reply = "ok" THEN Polling
                                     ELSE [@ EXCEPT !.at = "failed", !.caught = TRUE]]
  /\ UNCHANGED <<status, window, queue, dead, request, enqueued, skipped, dispatched,
                 expiries, races, dropped, cutOff, receipts, crashes>>

\* Mutant: a retry more than configured.
SettleOnceMore(p, reply) ==
  LET job == worker[p].job
  IN  /\ At(p, "failed") /\ Reply(reply)
      /\ queue' = IF Applied(reply) /\ job.retry <= MaxRetries
                  THEN Append(queue, [job EXCEPT !.retry = @ + 1]) ELSE queue
      /\ worker' = [worker EXCEPT ![p] = Polling]
      /\ UNCHANGED <<status, window, dead, request, enqueued, skipped, dispatched,
                     expiries, races, dropped, cutOff, receipts, crashes>>

\* Mutant: a failed job goes back whatever its retry count.
SettleForever(p, reply) ==
  /\ At(p, "failed") /\ Reply(reply)
  /\ queue' = IF Applied(reply) THEN Append(queue, worker[p].job) ELSE queue
  /\ worker' = [worker EXCEPT ![p] = Polling]
  /\ UNCHANGED <<status, window, dead, request, enqueued, skipped, dispatched,
                 expiries, races, dropped, cutOff, receipts, crashes>>

\* handleJobFailure: re-queue or give up. When a command of it fails in the try block
\* of process(), the catch block does it again; there, the error ends the call.
Settle(p, reply) ==
  LET job == worker[p].job
  IN  /\ At(p, "failed") /\ Reply(reply)
      /\ queue' = IF Applied(reply) /\ job.retry < MaxRetries
                  THEN Append(queue, [job EXCEPT !.retry = @ + 1]) ELSE queue
      /\ dead' = IF Applied(reply) /\ job.retry = MaxRetries
                 THEN dead \cup {job.alert} ELSE dead
      /\ worker' = [worker EXCEPT ![p] = IF reply = "ok" \/ @.caught THEN Polling
                                         ELSE [@ EXCEPT !.caught = TRUE]]
      /\ dropped' = IF reply = "rejected" /\ worker[p].caught
                    THEN dropped \cup {job.alert} ELSE dropped
      /\ UNCHANGED <<status, window, request, enqueued, skipped, dispatched,
                     expiries, races, cutOff, receipts, crashes>>

-----------------------------------------------------------------------------
(* The environment *)

\* expires_at passes; the cleanup job only deletes what the query already hides.
Expire(f) ==
  /\ window[f] # None /\ expiries[f] < MaxExpiries
  /\ window' = [window EXCEPT ![f] = None]
  /\ expiries' = [expiries EXCEPT ![f] = @ + 1]
  /\ UNCHANGED <<status, queue, dead, request, worker, enqueued, skipped, dispatched,
                 races, dropped, cutOff, receipts, faults, crashes>>

\* A replica dies, with every request it is answering and its poll loop, and is
\* restarted; the job it held stays in the processing list.
Crash(p) ==
  /\ crashes < MaxCrashes
  /\ worker[p] # Polling \/ \E r \in Requests : request[r].by = p
  /\ crashes' = crashes + 1
  /\ cutOff' = cutOff + Cardinality({r \in Requests : request[r].by = p
                                                    /\ request[r].at = "enqueue"})
  /\ dropped' = dropped \cup (IF worker[p].at \in {"idle", "done"} THEN {} ELSE {Handling(p)})
  /\ request' = [r \in Requests |-> IF request[r].by = p THEN NoRequest ELSE request[r]]
  /\ worker' = [worker EXCEPT ![p] = Polling]
  /\ UNCHANGED <<status, window, queue, dead, enqueued, skipped, dispatched,
                 expiries, races, receipts, faults>>

Respond(r) == \E reply \in Replies : Insert(r, reply) \/ Enqueue(r, reply)

Work(p) ==
  \/ Dispatch(p)
  \/ \E reply \in Replies :
       \/ Take(p, reply) \/ Ack(p, reply) \/ Settle(p, reply)
       \/ Handle(p, reply) \/ Mark(p, reply) \/ Check(p, reply) \/ Skip(p, reply)
       \/ Register(p, reply) \/ Analyse(p, reply) \/ RecordDispatch(p, reply)
       \/ Finish(p, reply) \/ Reset(p, reply)

Next ==
  \/ \E r \in Requests : \/ \E p \in Processes, a \in Alerts : Receive(r, p, a)
                         \/ Respond(r)
  \/ \E p \in Processes : Work(p) \/ Crash(p)
  \/ \E f \in Fingerprints : Expire(f)

Spec == Init /\ [][Next]_vars

\* A request and a poll loop make progress while their process is up; nothing
\* makes a provider send, a window expire or a command fail.
FairSpec ==
  /\ Spec
  /\ \A r \in Requests : WF_vars(Respond(r))
  /\ \A p \in Processes : WF_vars(Work(p))

-----------------------------------------------------------------------------
(* Properties *)

\* Every variable stays in its type.
TypeOK ==
  /\ status \in [Alerts -> {"absent", "received", "processing", "deduped",
                            "error", "triaged"}]
  /\ window \in [Fingerprints -> Alerts \cup {None}]
  /\ queue \in Seq(Job) /\ dead \subseteq Alerts
  /\ request \in [Requests -> Request] /\ worker \in [Processes -> Worker]
  /\ enqueued \subseteq Alerts /\ skipped \subseteq Alerts
  /\ dispatched \in [Alerts -> Nat] /\ expiries \in [Fingerprints -> 0..MaxExpiries]
  /\ races \in [Fingerprints -> Nat] /\ dropped \subseteq Alerts /\ cutOff \in Nat
  /\ receipts \in 0..MaxReceipts /\ faults \in 0..MaxFaults /\ crashes \in 0..MaxCrashes

Queued(a) ==
  a \in enqueued \/ \E r \in Requests : request[r].at = "enqueue" /\ request[r].alert = a

\* A delivery answered "duplicate" belongs to an alert that was queued, or that the
\* first request is about to queue: the idempotency check of processWebhookAlert
\* acknowledges one alert nobody will triage for each failed command and for each
\* request a crash cut off between the INSERT and the enqueue, and no other.
SkippedIsQueued == Cardinality({a \in skipped : ~Queued(a)}) <= faults + cutOff

\* While nothing fails, an alert set aside as a duplicate stands behind an alert of the
\* same fingerprint that was dispatched or is past its registration: deduplication
\* never silences an incident altogether.
SuppressedIsCovered ==
  faults = 0 /\ crashes = 0 =>
    \A a \in Alerts : status[a] = "deduped" =>
      \E b \in Same(Fingerprint[a]) :
        \/ dispatched[b] > 0
        \/ \E p \in Processes :
             worker[p].at \in {"analyse", "dispatch"} /\ Handling(p) = b

\* The dispatch rounds of a fingerprint, as alert and number.
Rounds(f) == UNION {{a} \X (1..dispatched[a]) : a \in Same(f)}

\* Within one dedup window the alerts of a fingerprint cause one dispatch round, and
\* one more for each registration over an entry that came between its check and it:
\* a retry, a crash or a job the queue holds twice never notify twice by themselves.
OneDispatchPerWindow ==
  \A f \in Fingerprints : Cardinality(Rounds(f)) <= 1 + expiries[f] + races[f]

\* A queued alert ends triaged, set aside or in the dead letter list, with no job of
\* it left behind, unless a job of it was lost: with the worker that crashed, to an
\* RPOPLPUSH without a reply, or to a failure in the catch block of process().
EventuallySettled ==
  <>[](\A a \in enqueued : \/ a \in dead \/ status[a] \in {"triaged", "deduped"}
                           \/ a \in dropped)

\* deduplicationService.ts: the registration is for future alerts; so the entry that
\* sets an alert aside is not its own.
OnlyFutureAlerts ==
  \A p \in Processes : At(p, "skip") => window[FingerprintOf(p)] # Handling(p)
=============================================================================
