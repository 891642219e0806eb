--------------------------- MODULE ReliableQueue ---------------------------
(***************************************************************************)
(* The Redis job queue of packages/shared/src/queue/messageQueue.ts and    *)
(* the worker loops that drain it (slackNotificationProcessor.ts,          *)
(* actionQueueProcessor.ts).                                               *)
(*                                                                         *)
(* One action is one Redis command or one handler outcome: between two     *)
(* awaited commands every other worker, every producer, a crash of a       *)
(* process, with all the loops it runs, and a failure of Redis may         *)
(* intervene.                                                              *)
(***************************************************************************)
EXTENDS Naturals, Sequences, FiniteSets

CONSTANTS
  None,            \* no entry held
  Jobs,            \* message ids, one per call of enqueue
  Workers,         \* worker loops, over all processes
  Processes,       \* the processes, each as the set of the loops it runs
  MaxRetries,      \* QueueConfig.maxRetries
  MaxCrashes,      \* bound on crashes of a process
  MaxRedisErrors   \* bound on Redis commands whose promise rejects

ASSUME QueueAssumption ==
  /\ None \notin [job : Jobs, retry : 0..MaxRetries]
  /\ MaxRetries \in Nat
  /\ MaxCrashes \in Nat
  /\ MaxRedisErrors \in Nat

ASSUME ProcessAssumption == IsFiniteSet(Workers) /\ Processes \subseteq SUBSET Workers

VARIABLES
  pending,      \* the list <name>; its right end, the next out, is Head
  processing,   \* the list <name>:processing, as the count of each entry
  dead,         \* the dead letter list, as the count of each entry
  worker,       \* each worker loop: where it is and the locals of process()
  crashes,      \* crashes so far
  redisErrors,  \* rejected commands so far
  cutOff,       \* history: loops a crash stopped between LREM and LPUSH
  submitted,    \* history: ids enqueue was called for
  accepted,     \* history: ids enqueue returned
  settled,      \* history: jobs a confirmed LREM acknowledged
  succeeded,    \* history: jobs a handler run succeeded on
  declined,     \* history: jobs a handler refused to have retried
  runs          \* history: handler runs started, per job, up to RunCap

lists   == <<pending, processing, dead>>
faults  == <<crashes, cutOff, redisErrors>>
history == <<submitted, accepted, settled, succeeded, declined, runs>>
vars == <<lists, worker, faults, history>>

Entry == [job : Jobs, retry : 0..MaxRetries]

\* at: the await the loop is in; held: message and data; plan: what
\* handleJobFailure chose; caught: inside the catch block of process().
Worker == [at : {"idle", "handling", "ack", "remove", "push", "ended", "down"},
           held : Entry \cup {None},
           plan : {"retry", "dead"},
           caught : BOOLEAN]

RunCap == MaxRetries + 2

Empty(state) == [at |-> state, held |-> None, plan |-> "dead", caught |-> FALSE]

\* A command resolves, is rejected before it reaches the server (the client
\* has enableOfflineQueue off), or is applied but its reply is lost.
Replies == {"ok", "rejected", "unconfirmed"}
Applied(reply) == reply # "rejected"

Init ==
  /\ pending = <<>>
  /\ processing = [e \in Entry |-> 0]
  /\ dead = [e \in Entry |-> 0]
  /\ worker = [w \in Workers |-> Empty("idle")]
  /\ crashes = 0 /\ cutOff = 0 /\ redisErrors = 0
  /\ submitted = {} /\ accepted = {} /\ settled = {}
  /\ succeeded = {} /\ declined = {}
  /\ runs = [j \in Jobs |-> 0]

-----------------------------------------------------------------------------
(* Redis lists and replies *)

Pushed(list, e) == [list EXCEPT ![e] = @ + 1]

LRem(list, e) == [list EXCEPT ![e] = IF @ > 0 THEN @ - 1 ELSE 0]

Reply(reply) ==
  /\ reply # "ok" => redisErrors < MaxRedisErrors
  /\ redisErrors' = IF reply = "ok" THEN redisErrors ELSE redisErrors + 1

Step(w, next) == worker' = [worker EXCEPT ![w] = next]

-----------------------------------------------------------------------------
(* Producers *)

Enqueue(j, reply) ==
  /\ j \notin submitted
  /\ Reply(reply)
  /\ submitted' = submitted \cup {j}
  /\ accepted' = IF reply = "ok" THEN accepted \cup {j} ELSE accepted
  /\ pending' = IF Applied(reply)
                THEN Append(pending, [job |-> j, retry |-> 0])
                ELSE pending
  /\ UNCHANGED <<processing, dead, worker, crashes, cutOff,
                 settled, succeeded, declined, runs>>

-----------------------------------------------------------------------------
(* Workers: process() *)

\* Mutant: RPOP, so that a job being handled is in no list.
FetchByRpop(w) ==
  /\ worker[w].at = "idle" /\ pending # <<>>
  /\ pending' = Tail(pending)
  /\ runs' = [runs EXCEPT ![Head(pending).job] = IF @ < RunCap THEN @ + 1 ELSE @]
  /\ Step(w, [Empty("handling") EXCEPT !.held = Head(pending)])
  /\ UNCHANGED <<processing, dead, faults,
                 submitted, accepted, settled, succeeded, declined>>

\* Mutant: the job is read and copied, and removed from the queue by nobody.
FetchByLrange(w) ==
  /\ worker[w].at = "idle" /\ pending # <<>>
  /\ processing' = Pushed(processing, Head(pending))
  /\ runs' = [runs EXCEPT ![Head(pending).job] = IF @ < RunCap THEN @ + 1 ELSE @]
  /\ Step(w, [Empty("handling") EXCEPT !.held = Head(pending)])
  /\ UNCHANGED <<pending, dead, faults,
                 submitted, accepted, settled, succeeded, declined>>

\* RPOPLPUSH, then the handler is called.
Fetch(w) ==
  /\ worker[w].at = "idle" /\ pending # <<>>
  /\ pending' = Tail(pending)
  /\ processing' = Pushed(processing, Head(pending))
  /\ runs' = [runs EXCEPT ![Head(pending).job] = IF @ < RunCap THEN @ + 1 ELSE @]
  /\ Step(w, [Empty("handling") EXCEPT !.held = Head(pending)])
  /\ UNCHANGED <<dead, faults, submitted, accepted, settled, succeeded, declined>>

\* RPOPLPUSH rejects: process() rejects, and the loop, which has a finally but
\* no catch, ends for good.
FetchFails(w, reply) ==
  /\ worker[w].at = "idle" /\ reply # "ok"
  /\ Reply(reply)
  /\ IF Applied(reply) /\ pending # <<>>
     THEN /\ pending' = Tail(pending)
          /\ processing' = Pushed(processing, Head(pending))
     ELSE UNCHANGED <<pending, processing>>
  /\ Step(w, Empty("ended"))
  /\ UNCHANGED <<dead, crashes, cutOff, history>>

\* Mutant: <= for <, one retry too many.
PlanForOneMore(e, limit) == IF e.retry <= limit THEN "retry" ELSE "dead"

\* Mutant: counts the first run as a retry, one retry too few.
PlanForOneLess(e, limit) == IF e.retry + 1 < limit THEN "retry" ELSE "dead"

\* handleJobFailure: retry while the limit it was given leaves an attempt.
PlanFor(e, limit) == IF e.retry < limit THEN "retry" ELSE "dead"

Failed(w, limit, inCatch) ==
  [worker[w] EXCEPT !.at = "remove",
                    !.plan = PlanFor(worker[w].held, limit),
                    !.caught = inCatch]

\* The handler resolves with success, with a failure, with a failure that must
\* not be retried (shouldRetry === false), or throws.
Outcomes == {"success", "failure", "permanent", "throws"}

Handle(w, outcome) ==
  LET job == worker[w].held.job
  IN  /\ worker[w].at = "handling"
      /\ Step(w, CASE outcome = "success"   -> [worker[w] EXCEPT !.at = "ack"]
                   [] outcome = "failure"   -> Failed(w, MaxRetries, FALSE)
                   [] outcome = "permanent" -> Failed(w, 0, FALSE)
                   [] outcome = "throws"    -> Failed(w, MaxRetries, TRUE))
      /\ succeeded' = succeeded \cup (IF outcome = "success" THEN {job} ELSE {})
      /\ declined' = declined \cup (IF outcome = "permanent" THEN {job} ELSE {})
      /\ UNCHANGED <<lists, faults, submitted, accepted, settled, runs>>

\* A command rejected inside the try block enters the catch block, which fails
\* the job again with the full retry limit; inside the catch it ends the loop.
Rejected(w) ==
  IF worker[w].caught THEN Empty("ended") ELSE Failed(w, MaxRetries, TRUE)

\* LREM after a successful run: the acknowledgment.
Ack(w, reply) ==
  /\ worker[w].at = "ack"
  /\ Reply(reply)
  /\ processing' = IF Applied(reply) THEN LRem(processing, worker[w].held)
                                     ELSE processing
  /\ settled' = IF reply = "ok" THEN settled \cup {worker[w].held.job} ELSE settled
  /\ Step(w, IF reply = "ok" THEN Empty("idle") ELSE Rejected(w))
  /\ UNCHANGED <<pending, dead, crashes, cutOff,
                 submitted, accepted, succeeded, declined, runs>>

\* First half of retryJob and moveToDeadLetter: LREM.
Remove(w, reply) ==
  /\ worker[w].at = "remove"
  /\ Reply(reply)
  /\ processing' = IF Applied(reply) THEN LRem(processing, worker[w].held)
                                     ELSE processing
  /\ Step(w, IF reply = "ok" THEN [worker[w] EXCEPT !.at = "push"] ELSE Rejected(w))
  /\ UNCHANGED <<pending, dead, crashes, cutOff, history>>

\* Mutant: the message is pushed back with its old retryCount.
PushUncounted(w, reply) ==
  LET entry == worker[w].held
      plan  == worker[w].plan
  IN  /\ worker[w].at = "push"
      /\ Reply(reply)
      /\ pending' = IF Applied(reply) /\ plan = "retry" THEN Append(pending, entry)
                                                        ELSE pending
      /\ dead' = IF Applied(reply) /\ plan = "dead" THEN Pushed(dead, entry) ELSE dead
      /\ Step(w, IF reply = "ok" THEN Empty("idle") ELSE Rejected(w))
      /\ UNCHANGED <<processing, crashes, cutOff, history>>

\* Second half: LPUSH of the message with retryCount + 1, or of the original
\* message onto the dead letter list.
Push(w, reply) ==
  LET entry == worker[w].held
      plan  == worker[w].plan
  IN  /\ worker[w].at = "push"
      /\ Reply(reply)
      /\ pending' = IF Applied(reply) /\ plan = "retry"
                    THEN Append(pending, [entry EXCEPT !.retry = @ + 1])
                    ELSE pending
      /\ dead' = IF Applied(reply) /\ plan = "dead" THEN Pushed(dead, entry) ELSE dead
      /\ Step(w, IF reply = "ok" THEN Empty("idle") ELSE Rejected(w))
      /\ UNCHANGED <<processing, crashes, cutOff, history>>

-----------------------------------------------------------------------------
(* The process *)

Become(p, state) ==
  worker' = [w \in Workers |-> IF w \in p THEN Empty(state) ELSE worker[w]]

\* A container dies, and every worker loop of its process with it.
Crash(p) ==
  /\ crashes < MaxCrashes
  /\ \E w \in p : worker[w].at # "down"
  /\ crashes' = crashes + 1
  /\ cutOff' = cutOff + Cardinality({w \in p : worker[w].at = "push"})
  /\ Become(p, "down")
  /\ UNCHANGED <<lists, redisErrors, history>>

\* Mutant: a restart requeues whatever is in the processing list, finished or not.
RestartRequeues(p) ==
  /\ \A w \in p : worker[w].at = "down"
  /\ IF \E e \in Entry : processing[e] > 0
     THEN \E e \in {f \in Entry : processing[f] > 0} :
            /\ pending' = Append(pending, e)
            /\ processing' = LRem(processing, e)
     ELSE UNCHANGED <<pending, processing>>
  /\ Become(p, "idle")
  /\ UNCHANGED <<dead, faults, history>>

\* The container is restarted; it starts its worker loops and looks at no list.
Restart(p) ==
  /\ \A w \in p : worker[w].at = "down"
  /\ Become(p, "idle")
  /\ UNCHANGED <<lists, faults, history>>

-----------------------------------------------------------------------------

Command(w) ==
  \/ Fetch(w)
  \/ \E reply \in Replies : FetchFails(w, reply) \/ Ack(w, reply)
                            \/ Remove(w, reply) \/ Push(w, reply)

Next ==
  \/ \E j \in Jobs, reply \in Replies : Enqueue(j, reply)
  \/ \E w \in Workers : Command(w)
  \/ \E w \in Workers, outcome \in Outcomes : Handle(w, outcome)
  \/ \E p \in Processes : Crash(p) \/ Restart(p)

Spec == Init /\ [][Next]_vars

\* A live loop keeps polling, a handler call returns, a command is answered, and
\* a container is restarted (docker-compose: restart: unless-stopped).
Fairness ==
  /\ \A w \in Workers : /\ WF_vars(Command(w))
                        /\ WF_vars(\E outcome \in Outcomes : Handle(w, outcome))
  /\ \A p \in Processes : WF_vars(Restart(p))

FairSpec == Spec /\ Fairness

-----------------------------------------------------------------------------
(* Where a job is *)

PendingJobs    == {pending[i].job : i \in DOMAIN pending}
ProcessingJobs == {e.job : e \in {f \in Entry : processing[f] > 0}}
DeadJobs       == {e.job : e \in {f \in Entry : dead[f] > 0}}
Carried        == {worker[w].held.job : w \in {v \in Workers : worker[v].at = "push"}}
Busy(w)        == worker[w].at \in {"handling", "ack", "remove"}
Stored         == PendingJobs \cup ProcessingJobs \cup DeadJobs \cup Carried

-----------------------------------------------------------------------------
(* Properties *)

\* Types; in particular no entry ever carries a retryCount above maxRetries,
\* although the catch block fails a job a second time with the full limit.
TypeOK ==
  /\ pending \in Seq(Entry)
  /\ processing \in [Entry -> Nat] /\ dead \in [Entry -> Nat]
  /\ worker \in [Workers -> Worker]
  /\ \A w \in Workers : Busy(w) \/ worker[w].at = "push" => worker[w].held \in Entry
  /\ crashes \in Nat /\ cutOff \in Nat /\ redisErrors \in Nat
  /\ accepted \subseteq submitted /\ submitted \subseteq Jobs
  /\ settled \subseteq Jobs /\ succeeded \subseteq Jobs /\ declined \subseteq Jobs
  /\ runs \in [Jobs -> Nat]

\* While every Redis command is answered, crashes included, a job is in at most
\* one place: one list entry, or carried by one worker between LREM and LPUSH.
OnePlace ==
  redisErrors = 0 =>
    /\ \A i, k \in DOMAIN pending : pending[i].job = pending[k].job => i = k
    /\ \A e, f \in Entry :
         /\ processing[e] > 0 /\ processing[f] > 0 /\ e.job = f.job
              => e = f /\ processing[e] = 1
         /\ dead[e] > 0 /\ dead[f] > 0 /\ e.job = f.job => e = f /\ dead[e] = 1
    /\ PendingJobs \cap ProcessingJobs = {}
    /\ PendingJobs \cap DeadJobs = {} /\ ProcessingJobs \cap DeadJobs = {}
    /\ Carried \cap (PendingJobs \cup ProcessingJobs \cup DeadJobs) = {}

\* While every Redis command is answered, no two workers are at work on the same
\* job, whatever crashes and retries came before.
NoConcurrentRuns ==
  redisErrors = 0 =>
    \A v, w \in Workers :
      /\ worker[v].held # None /\ worker[w].held # None
      /\ worker[v].held.job = worker[w].held.job
      => v = w

\* A job is run at most once more than it may be retried, crashes included: a
\* crash never makes a second copy of a job.
RunBudget == redisErrors = 0 => \A j \in Jobs : runs[j] <= MaxRetries + 1

\* A job that was handled, or that its handler declined to have retried, is not
\* handed to a handler again as long as every Redis command is answered.
NeverRunAgain ==
  [][redisErrors' = 0 =>
       \A j \in succeeded \cup declined : runs'[j] = runs[j]]_vars

\* An entry reaches the dead letter list only after its last attempt or because
\* the handler declined a retry; with no failed command, never after a success.
DeadJustified ==
  \A e \in Entry : dead[e] > 0 =>
    /\ e.retry = MaxRetries \/ e.job \in declined
    /\ redisErrors = 0 => e.job \notin succeeded

\* A crash loses the accepted jobs that the loops of its process carry between LREM and
\* LPUSH, one for each such loop, and a failed command at most one: all others, those being
\* handled at a crash included, are acknowledged or still in a list or with a worker.
LossBound ==
  Cardinality(accepted \ (settled \cup Stored)) <= cutOff + redisErrors

\* Nobody will look at the job again: no worker holds it and it is not queued.
Abandoned(j) ==
  /\ j \notin PendingJobs
  /\ \A w \in Workers : worker[w].held # None => worker[w].held.job # j

AllLoopsEnded == \A w \in Workers : worker[w].at = "ended"

\* Every accepted job is acknowledged or dead-lettered, unless a fault hit the
\* job itself or ended every worker loop.
EventuallySettled ==
  \A j \in Jobs :
    j \in accepted ~> (j \in settled \cup DeadJobs \/ Abandoned(j) \/ AllLoopsEnded)

-----------------------------------------------------------------------------
(* What the documentation says and the code does not do *)

\* packages/shared/src/queue/types.ts: a job is hidden for the visibility timeout
\* while processing; so a job whose worker died becomes visible again.
VisibleAgain ==
  \A j \in Jobs :
    (j \in ProcessingJobs \ succeeded /\ Abandoned(j)) ~> j \in PendingJobs \cup DeadJobs

-----------------------------------------------------------------------------
(* Refinement: the life of a job as its producer may rely on it *)

Phase(j) ==
  IF j \in settled THEN "done"
  ELSE IF j \in DeadJobs THEN "dead"
  ELSE IF j \in PendingJobs THEN "queued"
  ELSE IF j \in ProcessingJobs \cup Carried THEN "running"
  ELSE IF j \in submitted THEN "lost" ELSE "new"

Contract == INSTANCE JobLifecycle WITH
  phase <- [j \in Jobs |-> Phase(j)],
  tries <- runs,
  MaxTries <- MaxRetries + 1,
  faulty <- (redisErrors # 0)

ImplementsLifecycle == Contract!Spec
=============================================================================
