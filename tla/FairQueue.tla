----------------------------- MODULE FairQueue -----------------------------
(***************************************************************************)
(* The fair scheduler of packages/shared/src/queue/fairScheduler.ts: one   *)
(* Redis list per tenant, a set of active tenants a worker picks from at   *)
(* random, and the base list as the fallback. One action is one Redis      *)
(* command or one handler outcome. The worker loops are those of           *)
(* aggregation/analysisQueueProcessor.ts, which survive a rejected call.   *)
(***************************************************************************)
EXTENDS Naturals, Sequences, FiniteSets

CONSTANTS
  None,                \* no tenant, no entry
  Tenants,
  Base,                \* the base queue, for jobs without a tenant
  Jobs,                \* message ids in flight; a job that is gone frees its id
  Workers,
  MaxRetries,          \* FairQueueConfig.maxRetries
  MaxTenantsPerRound,  \* FairQueueConfig.maxTenantsPerRound
  MaxCrashes,          \* bound on loops that crashes stop
  MaxRedisErrors       \* bound on Redis commands whose promise rejects

ASSUME FairQueueAssumption ==
  /\ MaxRetries \in Nat /\ MaxTenantsPerRound \in Nat
  /\ MaxCrashes \in Nat /\ MaxRedisErrors \in Nat
  /\ IsFiniteSet(Workers)
  /\ Base \notin Tenants /\ None \notin Tenants \cup {Base}
  /\ None \notin [job : Jobs, retry : 0..MaxRetries]

Lists == Tenants \cup {Base}
Entry == [job : Jobs, retry : 0..MaxRetries]

VARIABLES
  queue,        \* <name>:tenant:<t> for each tenant, <name> for Base
  processing,   \* the processing list of each, as the count of each entry
  dead,         \* the dead letter list, as the count of each entry
  active,       \* <name>:active-tenants
  producer,     \* per job: the tenant whose SADD is still to come, or None
  worker,       \* each worker loop: where it is and the locals of the call
  crashes,      \* loops that crashes stopped so far
  redisErrors,  \* rejected commands so far
  \* history of the run
  overtaken,    \* tenants a SREM removed while their list had a job
  unsent        \* tenants with a SADD that failed or was not sent since the last one

history == <<overtaken, unsent>>
redis == <<queue, processing, dead, active, history>>
vars == <<redis, producer, worker, crashes, redisErrors>>

\* at: the await the loop is in; left: attemptsRemaining; tenant: whose lists it
\* uses; held, plan, caught: as in ReliableQueue.
Worker == [at : {"idle", "pop", "unregister", "base", "handling", "ack", "count",
                 "clear", "remove", "push", "activate", "down"},
           left : 0..MaxTenantsPerRound,
           tenant : Lists \cup {None},
           held : Entry \cup {None},
           plan : {"retry", "dead"},
           caught : BOOLEAN]

Fresh(state) == [at |-> state, left |-> MaxTenantsPerRound, tenant |-> None,
                 held |-> None, plan |-> "dead", caught |-> FALSE]

Replies == {"ok", "rejected", "unconfirmed"}
Applied(reply) == reply # "rejected"

Init ==
  /\ queue = [t \in Lists |-> <<>>]
  /\ processing = [t \in Lists |-> [e \in Entry |-> 0]]
  /\ dead = [e \in Entry |-> 0] /\ active = {} /\ overtaken = {} /\ unsent = {}
  /\ producer = [j \in Jobs |-> None]
  /\ worker = [w \in Workers |-> Fresh("idle")]
  /\ crashes = 0 /\ redisErrors = 0

-----------------------------------------------------------------------------
(* Redis *)

Reply(reply) ==
  /\ reply # "ok" => redisErrors < MaxRedisErrors
  /\ redisErrors' = IF reply = "ok" THEN redisErrors ELSE redisErrors + 1

LPush(t, e) == queue' = [queue EXCEPT ![t] = Append(@, e)]

RPopLPush(t) ==
  /\ queue' = [queue EXCEPT ![t] = Tail(@)]
  /\ processing' = [processing EXCEPT ![t][Head(queue[t])] = @ + 1]

LRem(t, e) == processing' = [processing EXCEPT ![t][e] = IF @ > 0 THEN @ - 1 ELSE 0]

SRem(t) ==
  /\ active' = active \ {t}
  /\ overtaken' = IF t \in active /\ queue[t] # <<>> THEN overtaken \cup {t}
                                                      ELSE overtaken
  /\ UNCHANGED unsent

SAdd(t) ==
  /\ active' = active \cup {t}
  /\ overtaken' = overtaken \ {t} /\ unsent' = unsent \ {t}

NoSAdd(t) == unsent' = unsent \cup {t} /\ UNCHANGED <<active, overtaken>>

Buried(e) == [dead EXCEPT ![e] = @ + 1]

Step(w, next) == worker' = [worker EXCEPT ![w] = next]

-----------------------------------------------------------------------------
(* Where a job is *)

InQueue(t, j)      == \E i \in DOMAIN queue[t] : queue[t][i].job = j
InProcessing(t, j) == \E e \in Entry : e.job = j /\ processing[t][e] > 0
WithWorker(w, j)   == worker[w].held # None /\ worker[w].held.job = j
Gone(j) ==
  /\ \A t \in Lists : ~InQueue(t, j) /\ ~InProcessing(t, j)
  /\ \A w \in Workers : ~WithWorker(w, j)
  /\ \A e \in Entry : e.job = j => dead[e] = 0
  /\ producer[j] = None

-----------------------------------------------------------------------------
(* Producers *)

\* enqueueFair sends LPUSH and SADD together, LPUSH first; the commands of other
\* clients may run between the two.
EnqueueFair(j, t, reply) ==
  /\ t \in Tenants /\ Gone(j)
  /\ Reply(reply)
  /\ IF Applied(reply) THEN LPush(t, [job |-> j, retry |-> 0]) ELSE UNCHANGED queue
  /\ producer' = [producer EXCEPT ![j] = t]
  /\ UNCHANGED <<processing, dead, active, worker, crashes, history>>

Register(j, reply) ==
  /\ producer[j] # None
  /\ Reply(reply)
  /\ IF Applied(reply) THEN SAdd(producer[j]) ELSE NoSAdd(producer[j])
  /\ producer' = [producer EXCEPT ![j] = None]
  /\ UNCHANGED <<queue, processing, dead, worker, crashes>>

\* The base queue's enqueue, for jobs no tenant was found for.
EnqueueBase(j, reply) ==
  /\ Gone(j)
  /\ Reply(reply)
  /\ IF Applied(reply) THEN LPush(Base, [job |-> j, retry |-> 0]) ELSE UNCHANGED queue
  /\ UNCHANGED <<processing, dead, active, producer, worker, crashes, history>>

-----------------------------------------------------------------------------
(* Workers: processFair and processTenantJob *)

\* Mutant: SMEMBERS, then always the same member.
PickFirst(w, t) ==
  /\ worker[w].at = "idle" /\ worker[w].left > 0
  /\ t \in active
  /\ t = CHOOSE s \in active : TRUE
  /\ Step(w, [worker[w] EXCEPT !.at = "pop", !.tenant = t])
  /\ UNCHANGED <<redis, producer, crashes, redisErrors>>

\* Mutant: the recursion does not stop at maxTenantsPerRound.
PickUnbounded(w, t) ==
  /\ worker[w].at = "idle"
  /\ t \in active
  /\ Step(w, [worker[w] EXCEPT !.at = "pop", !.tenant = t])
  /\ UNCHANGED <<redis, producer, crashes, redisErrors>>

\* SRANDMEMBER.
Pick(w, t) ==
  /\ worker[w].at = "idle" /\ worker[w].left > 0
  /\ t \in active
  /\ Step(w, [worker[w] EXCEPT !.at = "pop", !.tenant = t])
  /\ UNCHANGED <<redis, producer, crashes, redisErrors>>

\* No active tenant, or no attempt left: fall back to the base queue.
FallBack(w) ==
  /\ worker[w].at = "idle" /\ (worker[w].left = 0 \/ active = {})
  /\ Step(w, [worker[w] EXCEPT !.at = "base", !.tenant = Base])
  /\ UNCHANGED <<redis, producer, crashes, redisErrors>>

\* RPOPLPUSH of the picked tenant, or of the base queue.
Pop(w) ==
  LET t == worker[w].tenant
  IN  /\ worker[w].at \in {"pop", "base"}
      /\ IF queue[t] # <<>>
         THEN /\ RPopLPush(t)
              /\ Step(w, [worker[w] EXCEPT !.at = "handling", !.held = Head(queue[t])])
         ELSE /\ Step(w, IF t = Base THEN Fresh("idle")
                                     ELSE [worker[w] EXCEPT !.at = "unregister"])
              /\ UNCHANGED <<queue, processing>>
      /\ UNCHANGED <<dead, active, history, producer, crashes, redisErrors>>

\* SREM of a tenant whose list was found empty, then the next attempt.
Unregister(w) ==
  /\ worker[w].at = "unregister"
  /\ SRem(worker[w].tenant)
  /\ Step(w, [Fresh("idle") EXCEPT !.left = worker[w].left - 1])
  /\ UNCHANGED <<queue, processing, dead, producer, crashes, redisErrors>>

\* A command before the try block rejects; the worker loop catches it and polls
\* again.
PollFails(w, reply) ==
  LET t == worker[w].tenant
  IN  /\ worker[w].at \in {"idle", "pop", "unregister", "base"} /\ reply # "ok"
      /\ Reply(reply)
      /\ IF Applied(reply) /\ worker[w].at \in {"pop", "base"} /\ queue[t] # <<>>
         THEN RPopLPush(t) ELSE UNCHANGED <<queue, processing>>
      /\ IF Applied(reply) /\ worker[w].at = "unregister"
         THEN SRem(t) ELSE UNCHANGED <<active, history>>
      /\ Step(w, Fresh("idle"))
      /\ UNCHANGED <<dead, producer, crashes>>

PlanFor(e, limit) == IF e.retry < limit THEN "retry" ELSE "dead"

Failed(w, limit, inCatch) ==
  [worker[w] EXCEPT !.at = "remove",
                    !.plan = PlanFor(worker[w].held, limit),
                    !.caught = inCatch]

Outcomes == {"success", "failure", "permanent", "throws"}

Handle(w, outcome) ==
  /\ worker[w].at = "handling"
  /\ Step(w, CASE outcome = "success"   -> [worker[w] EXCEPT !.at = "ack"]
               [] outcome = "failure"   -> Failed(w, MaxRetries, FALSE)
               [] outcome = "permanent" -> Failed(w, 0, FALSE)
               [] outcome = "throws"    -> Failed(w, MaxRetries, TRUE))
  /\ UNCHANGED <<redis, producer, crashes, redisErrors>>

\* Inside the try block a rejected command fails the job again; inside the catch
\* block it ends the call.
Rejected(w) ==
  IF worker[w].caught THEN Fresh("idle") ELSE Failed(w, MaxRetries, TRUE)

Then(w, reply, next) == Step(w, IF reply = "ok" THEN next ELSE Rejected(w))
Goto(w, state) == [worker[w] EXCEPT !.at = state]

Ack(w, reply) ==
  /\ worker[w].at = "ack"
  /\ Reply(reply)
  /\ IF Applied(reply) THEN LRem(worker[w].tenant, worker[w].held)
                       ELSE UNCHANGED processing
  /\ Then(w, reply, IF worker[w].tenant = Base THEN Fresh("idle") ELSE Goto(w, "count"))
  /\ UNCHANGED <<queue, dead, active, history, producer, crashes>>

\* LLEN of the tenant's list after a success.
Count(w, reply) ==
  /\ worker[w].at = "count"
  /\ Reply(reply)
  /\ Then(w, reply, IF queue[worker[w].tenant] = <<>> THEN Goto(w, "clear")
                                                       ELSE Fresh("idle"))
  /\ UNCHANGED <<redis, producer, crashes>>

\* SREM, on what LLEN said one command earlier.
Clear(w, reply) ==
  /\ worker[w].at = "clear"
  /\ Reply(reply)
  /\ IF Applied(reply) THEN SRem(worker[w].tenant) ELSE UNCHANGED <<active, history>>
  /\ Then(w, reply, Fresh("idle"))
  /\ UNCHANGED <<queue, processing, dead, producer, crashes>>

\* Mutant: LREM on the base queue's processing list.
RemoveFromBase(w, reply) ==
  /\ worker[w].at = "remove"
  /\ Reply(reply)
  /\ IF Applied(reply) THEN LRem(Base, worker[w].held) ELSE UNCHANGED processing
  /\ Then(w, reply, Goto(w, "push"))
  /\ UNCHANGED <<queue, dead, active, history, producer, crashes>>

Remove(w, reply) ==
  /\ worker[w].at = "remove"
  /\ Reply(reply)
  /\ IF Applied(reply) THEN LRem(worker[w].tenant, worker[w].held)
                       ELSE UNCHANGED processing
  /\ Then(w, reply, Goto(w, "push"))
  /\ UNCHANGED <<queue, dead, active, history, producer, crashes>>

\* Mutant: a retried job does not register its tenant again.
PushOnly(w, reply) ==
  LET entry == worker[w].held
      t     == worker[w].tenant
  IN  /\ worker[w].at = "push"
      /\ Reply(reply)
      /\ IF Applied(reply) /\ worker[w].plan = "retry"
         THEN LPush(t, [entry EXCEPT !.retry = @ + 1])
         ELSE UNCHANGED queue
      /\ dead' = IF Applied(reply) /\ worker[w].plan = "dead" THEN Buried(entry) ELSE dead
      /\ Then(w, reply, Fresh("idle"))
      /\ UNCHANGED <<processing, active, history, producer, crashes>>

Push(w, reply) ==
  LET entry == worker[w].held
      t     == worker[w].tenant
  IN  /\ worker[w].at = "push"
      /\ Reply(reply)
      /\ IF Applied(reply) /\ worker[w].plan = "retry"
         THEN LPush(t, [entry EXCEPT !.retry = @ + 1])
         ELSE UNCHANGED queue
      /\ dead' = IF Applied(reply) /\ worker[w].plan = "dead" THEN Buried(entry) ELSE dead
      /\ Then(w, reply, IF worker[w].plan = "retry" /\ t # Base THEN Goto(w, "activate")
                                                                 ELSE Fresh("idle"))
      /\ unsent' = IF /\ reply = "unconfirmed" /\ worker[w].plan = "retry"
                      /\ t # Base
                   THEN unsent \cup {t} ELSE unsent
      /\ UNCHANGED <<processing, active, overtaken, producer, crashes>>

\* SADD after a retry.
Activate(w, reply) ==
  /\ worker[w].at = "activate"
  /\ Reply(reply)
  /\ IF Applied(reply) THEN SAdd(worker[w].tenant) ELSE NoSAdd(worker[w].tenant)
  /\ Then(w, reply, Fresh("idle"))
  /\ UNCHANGED <<queue, processing, dead, producer, crashes>>

-----------------------------------------------------------------------------
(* The process *)

\* A process dies with all its loops, here one loop after the other: with no step in
\* between they are down together.
Crash(w) ==
  /\ worker[w].at # "down" /\ crashes < MaxCrashes
  /\ crashes' = crashes + 1
  /\ Step(w, Fresh("down"))
  /\ IF worker[w].at = "activate" THEN NoSAdd(worker[w].tenant)
                                  ELSE UNCHANGED <<active, history>>
  /\ UNCHANGED <<queue, processing, dead, producer, redisErrors>>

Restart(w) ==
  /\ worker[w].at = "down"
  /\ Step(w, Fresh("idle"))
  /\ UNCHANGED <<redis, producer, crashes, redisErrors>>

-----------------------------------------------------------------------------

Finish(w, reply) ==
  \/ Ack(w, reply) \/ Count(w, reply) \/ Clear(w, reply)
  \/ Remove(w, reply) \/ Push(w, reply) \/ Activate(w, reply)

Next ==
  \/ \E j \in Jobs, reply \in Replies :
       \/ Register(j, reply) \/ EnqueueBase(j, reply)
       \/ \E t \in Tenants : EnqueueFair(j, t, reply)
  \/ \E w \in Workers :
       \/ \E t \in Tenants : Pick(w, t)
       \/ FallBack(w) \/ Pop(w) \/ Unregister(w)
       \/ \E outcome \in Outcomes : Handle(w, outcome)
       \/ \E reply \in Replies : Finish(w, reply) \/ PollFails(w, reply)
       \/ Crash(w) \/ Restart(w)

Spec == Init /\ [][Next]_vars

\* Loops poll, handlers return and commands are answered (weak fairness);
\* SRANDMEMBER, picking again and again, picks every member (strong fairness).
Fairness ==
  /\ \A j \in Jobs : WF_vars(Register(j, "ok"))
  /\ \A w \in Workers :
       /\ WF_vars(FallBack(w) \/ Pop(w) \/ Unregister(w) \/ Restart(w))
       /\ WF_vars(\E outcome \in Outcomes : Handle(w, outcome))
       /\ WF_vars(\E reply \in Replies : Finish(w, reply))
       /\ \A t \in Tenants : SF_vars(Pick(w, t))

FairSpec == Spec /\ Fairness

-----------------------------------------------------------------------------
(* Properties *)

\* Types of the lists, the active set and the locals of the loops.
TypeOK ==
  /\ queue \in [Lists -> Seq(Entry)]
  /\ processing \in [Lists -> [Entry -> Nat]]
  /\ dead \in [Entry -> Nat] /\ active \subseteq Tenants
  /\ overtaken \subseteq Tenants /\ unsent \subseteq Tenants
  /\ producer \in [Jobs -> Tenants \cup {None}]
  /\ worker \in [Workers -> Worker]

\* A tenant with a queued job is registered, or its SADD is on its way, or a SREM decided
\* on an earlier, empty list overtook the job, or its last SADD failed or was cut off by a
\* crash or an unconfirmed LPUSH: nothing else takes a tenant with work out of the rotation.
WorkIsRegistered ==
  \A t \in Tenants :
    queue[t] # <<>> =>
      \/ t \in active \/ t \in overtaken \/ t \in unsent
      \/ \E j \in Jobs : producer[j] = t
      \/ \E w \in Workers : worker[w].at = "activate" /\ worker[w].tenant = t

\* Each failed command forks a job at most once: with every command answered a
\* job is in one list only, once, or carried by one worker between LREM and
\* LPUSH, whatever crashes, retries and tenants' registrations did; an entry pushed
\* twice onto the dead letter list counts twice.
Queued(j) ==
  UNION {{<<t, i>> : i \in {k \in DOMAIN queue[t] : queue[t][k].job = j}} : t \in Lists}
InHands(j) ==
  UNION {{<<t, e, n>> : n \in 1..processing[t][e]} :
           t \in Lists, e \in {d \in Entry : d.job = j}}
Carried(j)   == {w \in Workers : worker[w].at = "push" /\ WithWorker(w, j)}
GivenUp(j)   == UNION {{<<e, n>> : n \in 1..dead[e]} : e \in {d \in Entry : d.job = j}}
Copies(j) ==
  Cardinality(Queued(j)) + Cardinality(InHands(j))
  + Cardinality(Carried(j)) + Cardinality(GivenUp(j))
CopyBound == \A j \in Jobs : Copies(j) <= 1 + redisErrors

\* A registered tenant does not wait for ever while other tenants keep the
\* workers busy: its oldest job is taken, or its registration is lost.
Waiting(t, e) == t \in active /\ queue[t] # <<>> /\ Head(queue[t]) = e
NoStarvation == \A t \in Tenants, e \in Entry : []<>~Waiting(t, e)
=============================================================================
