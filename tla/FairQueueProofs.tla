-------------------------- MODULE FairQueueProofs --------------------------
(* Theorems about FairQueue, for every number of tenants, jobs, workers, retries, rounds,
   crashes and rejected commands: its types, that a tenant with work is registered, and how
   many copies of a job there are. *)
EXTENDS FairQueue, FiniteSetTheorems, TLAPS

USE FairQueueAssumption

(***************************************************************************)
(* Types. TypeOK alone is not inductive: that a command is sent for a list *)
(* there is, with an entry to send, and that a retried entry stays within  *)
(* maxRetries, is in the locals of the loop.                               *)
(***************************************************************************)
Local(r) ==
  /\ r \in Worker
  /\ r.at \in {"pop", "unregister"} => r.tenant \in Tenants /\ r.left > 0
  /\ r.at = "base" => r.tenant = Base
  /\ r.at \in {"handling", "ack", "remove", "push"} => r.tenant \in Lists /\ r.held \in Entry
  /\ r.at \in {"count", "clear", "activate"} => r.tenant \in Tenants /\ r.held \in Entry
  /\ r.at \in {"remove", "push"} /\ r.plan = "retry" => r.held.retry < MaxRetries

Locals == \A w \in Workers : Local(worker[w])

RedisOK ==
  /\ queue \in [Lists -> Seq(Entry)]
  /\ processing \in [Lists -> [Entry -> Nat]]
  /\ dead \in [Entry -> Nat] /\ active \subseteq Tenants
  /\ overtaken \subseteq Tenants /\ unsent \subseteq Tenants
  /\ producer \in [Jobs -> Tenants \cup {None}]
  /\ crashes \in Nat /\ redisErrors \in Nat

TypeInv == RedisOK /\ worker \in [Workers -> Worker] /\ Locals

LEMMA NamesApart ==
  /\ Base \in Lists /\ Tenants \subseteq Lists /\ None \notin Lists
  /\ \A t \in Lists : t # Base <=> t \in Tenants
BY DEF Lists

LEMMA ReplyType ==
  ASSUME RedisOK, NEW reply \in Replies, Reply(reply)
  PROVE  redisErrors' \in Nat /\ redisErrors' >= redisErrors
         /\ (reply # "ok" => redisErrors' = redisErrors + 1)
         /\ (reply = "ok" => redisErrors' = redisErrors)
BY DEF Reply, RedisOK

\* A worker that moves leaves the others where they are.
LEMMA StepType ==
  ASSUME TypeInv, NEW w \in Workers, NEW f, Local(f), Step(w, f), RedisOK'
  PROVE  TypeInv'
<1>1. \A v \in Workers : worker'[v] = IF v = w THEN f ELSE worker[v]
  BY DEF Step, TypeInv
<1>2. worker' \in [Workers -> Worker]
  BY DEF Step, TypeInv, Local
<1>3. Locals'
  BY <1>1 DEF TypeInv, Locals
<1>4. QED
  BY <1>2, <1>3 DEF TypeInv

LEMMA FreshLocal ==
  ASSUME NEW state \in {"idle", "down"}
  PROVE  Local(Fresh(state)) /\ Fresh(state).at = state /\ Fresh(state).held = None
<1>1. MaxTenantsPerRound \in 0..MaxTenantsPerRound
  BY DEF FairQueueAssumption
<1>2. QED
  BY <1>1 DEF Fresh, Local, Worker

LEMMA NextTurnLocal ==
  ASSUME NEW n \in 0..MaxTenantsPerRound
  PROVE  Local([Fresh("idle") EXCEPT !.left = n])
BY DEF Fresh, Local, Worker

\* A worker that fails its job holds it and a plan it can keep.
LEMMA FailedLocal ==
  ASSUME NEW w \in Workers, Local(worker[w]), worker[w].tenant \in Lists, worker[w].held \in Entry,
         NEW limit \in 0..MaxRetries, NEW inCatch \in BOOLEAN
  PROVE  LET f == Failed(w, limit, inCatch)
         IN  /\ Local(f) /\ f.at = "remove" /\ f.held = worker[w].held
             /\ f.tenant = worker[w].tenant
<1> DEFINE p == PlanFor(worker[w].held, limit)
<1>1. worker[w] \in Worker
  BY DEF Local
<1>2. p \in {"retry", "dead"} /\ (p = "retry" => worker[w].held.retry < MaxRetries)
  BY DEF PlanFor, Entry
<1>3. Failed(w, limit, inCatch)
        = [worker[w] EXCEPT !.at = "remove", !.plan = p, !.caught = inCatch]
  BY DEF Failed
<1> HIDE DEF p
<1>4. /\ Failed(w, limit, inCatch) \in Worker
      /\ Failed(w, limit, inCatch).at = "remove"
      /\ Failed(w, limit, inCatch).held = worker[w].held
      /\ Failed(w, limit, inCatch).tenant = worker[w].tenant
      /\ Failed(w, limit, inCatch).plan = p
  BY <1>1, <1>2, <1>3 DEF Worker
<1>5. QED
  BY <1>2, <1>4 DEF Local

LEMMA RejectedLocal ==
  ASSUME NEW w \in Workers, Local(worker[w]), worker[w].tenant \in Lists, worker[w].held \in Entry
  PROVE  LET f == Rejected(w)
         IN  /\ Local(f)
             /\ \/ f = Fresh("idle")
                \/ f.at = "remove" /\ f.held = worker[w].held /\ f.tenant = worker[w].tenant
<1>1. MaxRetries \in 0..MaxRetries
  BY DEF FairQueueAssumption
<1>2. QED
  BY <1>1, FreshLocal, FailedLocal DEF Rejected

\* A worker that goes on keeps its tenant, its job and its plan.
LEMMA GotoLocal ==
  ASSUME NEW w \in Workers, Local(worker[w]),
         NEW state \in {"ack", "push", "count", "clear", "activate"},
         worker[w].at \in {"handling", "ack", "remove", "push", "count"}, worker[w].held \in Entry,
         state = "push" => worker[w].at = "remove",
         state \in {"count", "clear", "activate"} => worker[w].tenant \in Tenants
  PROVE  LET f == Goto(w, state)
         IN  /\ Local(f) /\ f.at = state /\ f.held = worker[w].held
             /\ f.tenant = worker[w].tenant /\ f.plan = worker[w].plan
<1>1. worker[w] \in Worker /\ worker[w].tenant \in Lists
  BY NamesApart DEF Local
<1>2. /\ Goto(w, state) \in Worker
      /\ Goto(w, state).at = state
      /\ Goto(w, state).held = worker[w].held
      /\ Goto(w, state).tenant = worker[w].tenant
      /\ Goto(w, state).plan = worker[w].plan
  BY <1>1 DEF Goto, Worker
<1>3. QED
  BY <1>1, <1>2 DEF Local

\* What the commands do to the lists.
LEMMA LPushType ==
  ASSUME RedisOK, NEW t \in Lists, NEW e \in Entry, LPush(t, e)
  PROVE  queue' \in [Lists -> Seq(Entry)]
BY DEF RedisOK, LPush

LEMMA PopType ==
  ASSUME RedisOK, NEW t \in Lists, queue[t] # <<>>, RPopLPush(t)
  PROVE  /\ Head(queue[t]) \in Entry
         /\ queue' \in [Lists -> Seq(Entry)]
         /\ processing' \in [Lists -> [Entry -> Nat]]
<1>1. queue[t] \in Seq(Entry) /\ processing[t] \in [Entry -> Nat]
  BY DEF RedisOK
<1>2. Head(queue[t]) \in Entry /\ Tail(queue[t]) \in Seq(Entry)
  BY <1>1
<1>3. QED
  BY <1>1, <1>2 DEF RedisOK, RPopLPush

LEMMA LRemType ==
  ASSUME RedisOK, NEW t \in Lists, NEW e \in Entry, LRem(t, e)
  PROVE  processing' \in [Lists -> [Entry -> Nat]]
BY DEF RedisOK, LRem

LEMMA BuriedType ==
  ASSUME RedisOK, NEW e \in Entry
  PROVE  Buried(e) \in [Entry -> Nat]
<1>1. dead \in [Entry -> Nat] /\ dead[e] \in Nat
  BY DEF RedisOK
<1>2. dead[e] + 1 \in Nat
  BY <1>1
<1>3. QED
  BY <1>1, <1>2 DEF Buried

LEMMA SetType ==
  ASSUME RedisOK, NEW t \in Tenants, SRem(t) \/ SAdd(t) \/ NoSAdd(t) \/ UNCHANGED <<active, history>>
  PROVE  active' \subseteq Tenants /\ overtaken' \subseteq Tenants /\ unsent' \subseteq Tenants
BY DEF RedisOK, SRem, SAdd, NoSAdd, history

LEMMA NewEntry ==
  ASSUME NEW j \in Jobs
  PROVE  [job |-> j, retry |-> 0] \in Entry /\ [job |-> j, retry |-> 0].job = j
BY DEF Entry, FairQueueAssumption

\* What a retry pushes.
LEMMA AgainType ==
  ASSUME NEW e \in Entry
  PROVE  LET again == [e EXCEPT !.retry = @ + 1]
         IN  again.job = e.job /\ (e.retry < MaxRetries => again \in Entry)
BY DEF Entry, FairQueueAssumption

-----------------------------------------------------------------------------
(* Each step keeps the types; what it does is restated for a worker that moves to f. *)

LEMMA TypeInit == Init => TypeInv
<1> SUFFICES ASSUME Init PROVE TypeInv
  OBVIOUS
<1>1. \A w \in Workers : Local(worker[w])
  BY FreshLocal DEF Init, FairQueueAssumption
<1>2. queue \in [Lists -> Seq(Entry)] /\ processing \in [Lists -> [Entry -> Nat]]
  BY DEF Init
<1>3. RedisOK
  BY <1>2 DEF Init, RedisOK
<1>4. QED
  BY <1>1, <1>3 DEF Init, TypeInv, Locals, Local

LEMMA ProducerType ==
  ASSUME TypeInv, NEW j \in Jobs, NEW reply \in Replies,
         \/ Register(j, reply) \/ EnqueueBase(j, reply)
         \/ \E t \in Tenants : EnqueueFair(j, t, reply)
  PROVE  TypeInv'
<1> USE NamesApart
<1>1. RedisOK /\ worker' = worker
  BY DEF TypeInv, Register, EnqueueBase, EnqueueFair
<1>2. redisErrors' \in Nat /\ crashes' \in Nat
  BY <1>1, ReplyType DEF RedisOK, Register, EnqueueBase, EnqueueFair
<1>3. RedisOK'
  <2>1. CASE Register(j, reply)
    <3>1. producer[j] \in Tenants /\ producer' = [producer EXCEPT ![j] = None]
      BY <1>1, <2>1 DEF Register, RedisOK
    <3>2. active' \subseteq Tenants /\ overtaken' \subseteq Tenants /\ unsent' \subseteq Tenants
      BY <1>1, <2>1, <3>1, SetType DEF Register
    <3>3. UNCHANGED <<queue, processing, dead>>
      BY <2>1 DEF Register
    <3>4. QED
      BY <1>1, <1>2, <3>1, <3>2, <3>3 DEF RedisOK
  <2>2. CASE EnqueueBase(j, reply)
    <3>1. queue' \in [Lists -> Seq(Entry)]
      BY <1>1, <2>2, NewEntry, LPushType DEF EnqueueBase, RedisOK
    <3>2. UNCHANGED <<processing, dead, active, overtaken, unsent, producer>>
      BY <2>2 DEF EnqueueBase, history
    <3>3. QED
      BY <1>1, <1>2, <3>1, <3>2 DEF RedisOK
  <2>3. ASSUME NEW t \in Tenants, EnqueueFair(j, t, reply) PROVE RedisOK'
    <3>1. queue' \in [Lists -> Seq(Entry)]
      BY <1>1, <2>3, NewEntry, LPushType DEF EnqueueFair, RedisOK
    <3>2. /\ UNCHANGED <<processing, dead, active, overtaken, unsent>>
          /\ producer' = [producer EXCEPT ![j] = t]
      BY <2>3 DEF EnqueueFair, history
    <3>3. QED
      BY <1>1, <1>2, <3>1, <3>2 DEF RedisOK
  <2>4. QED
    BY <2>1, <2>2, <2>3
<1>4. QED
  BY <1>1, <1>3 DEF TypeInv, Locals

\* SRANDMEMBER, the fallback, and the RPOPLPUSH and SREM of a poll.
LEMMA PollType ==
  ASSUME TypeInv, NEW w \in Workers,
         \/ \E t \in Tenants : Pick(w, t)
         \/ FallBack(w) \/ Pop(w) \/ Unregister(w)
  PROVE  TypeInv'
<1> USE NamesApart
<1>1. RedisOK /\ Local(worker[w]) /\ worker[w] \in Worker
  BY DEF TypeInv, Locals, Local
<1>2. ASSUME NEW t \in Tenants, Pick(w, t) PROVE TypeInv'
  <2> DEFINE f == [worker[w] EXCEPT !.at = "pop", !.tenant = t]
  <2>1. worker[w].left > 0 /\ Step(w, f) /\ UNCHANGED <<redis, producer, crashes, redisErrors>>
    BY <1>2 DEF Pick
  <2>2. Local(f)
    BY <1>1, <2>1 DEF Local, Worker
  <2> HIDE DEF f
  <2>3. RedisOK'
    BY <1>1, <2>1 DEF RedisOK, redis, history
  <2>4. QED
    BY <2>1, <2>2, <2>3, StepType
<1>3. CASE FallBack(w)
  <2> DEFINE f == [worker[w] EXCEPT !.at = "base", !.tenant = Base]
  <2>1. Step(w, f) /\ UNCHANGED <<redis, producer, crashes, redisErrors>>
    BY <1>3 DEF FallBack
  <2>2. Local(f)
    BY <1>1 DEF Local, Worker
  <2> HIDE DEF f
  <2>3. RedisOK'
    BY <1>1, <2>1 DEF RedisOK, redis, history
  <2>4. QED
    BY <2>1, <2>2, <2>3, StepType
<1>4. CASE Pop(w)
  <2> DEFINE t == worker[w].tenant
             f == [worker[w] EXCEPT !.at = "handling", !.held = Head(queue[t])]
             g == IF t = Base THEN Fresh("idle") ELSE [worker[w] EXCEPT !.at = "unregister"]
  <2>1. t \in Lists /\ worker[w].at \in {"pop", "base"}
    BY <1>1, <1>4 DEF Pop, Local
  <2>2. UNCHANGED <<dead, active, overtaken, unsent, producer, crashes, redisErrors>>
    BY <1>4 DEF Pop, history
  <2>3. CASE queue[t] # <<>>
    <3>1. RPopLPush(t) /\ Step(w, f)
      BY <1>4, <2>3 DEF Pop
    <3>2. Head(queue[t]) \in Entry /\ queue' \in [Lists -> Seq(Entry)]
          /\ processing' \in [Lists -> [Entry -> Nat]]
      BY <1>1, <2>1, <2>3, <3>1, PopType
    <3>3. Local(f)
      BY <1>1, <2>1, <3>2 DEF Local, Worker
    <3>4. RedisOK'
      BY <1>1, <2>2, <3>2 DEF RedisOK
    <3> HIDE DEF f
    <3>5. QED
      BY <3>1, <3>3, <3>4, StepType
  <2>4. CASE queue[t] = <<>>
    <3>1. Step(w, g) /\ UNCHANGED <<queue, processing>>
      BY <1>4, <2>4 DEF Pop
    <3>2. CASE t = Base
      <4>1. g = Fresh("idle")
        BY <3>2
      <4>2. Local(g)
        BY <4>1, FreshLocal DEF FairQueueAssumption
      <4>3. RedisOK'
        BY <1>1, <2>2, <3>1 DEF RedisOK
      <4> HIDE DEF g
      <4>4. QED
        BY <3>1, <4>2, <4>3, StepType
    <3>3. CASE t # Base
      <4>1. worker[w].at = "pop" /\ g = [worker[w] EXCEPT !.at = "unregister"]
        BY <1>1, <2>1, <3>3 DEF Local
      <4>2. Local(g)
        BY <1>1, <4>1 DEF Local, Worker
      <4>3. RedisOK'
        BY <1>1, <2>2, <3>1 DEF RedisOK
      <4> HIDE DEF g
      <4>4. QED
        BY <3>1, <4>2, <4>3, StepType
    <3>4. QED
      BY <3>2, <3>3
  <2>5. QED
    BY <2>3, <2>4
<1>5. CASE Unregister(w)
  <2> DEFINE n == worker[w].left - 1
             f == [Fresh("idle") EXCEPT !.left = n]
  <2>1. worker[w].at = "unregister" /\ SRem(worker[w].tenant) /\ Step(w, f)
        /\ UNCHANGED <<queue, processing, dead, producer, crashes, redisErrors>>
    BY <1>5 DEF Unregister
  <2>2. worker[w].tenant \in Tenants /\ n \in 0..MaxTenantsPerRound
    BY <1>1, <2>1 DEF Local, Worker, FairQueueAssumption
  <2>3. Local(f)
    BY <2>2, NextTurnLocal
  <2>4. RedisOK'
    BY <1>1, <2>1, <2>2, SetType DEF RedisOK
  <2> HIDE DEF f
  <2>5. QED
    BY <2>1, <2>3, <2>4, StepType
<1>6. QED
  BY <1>2, <1>3, <1>4, <1>5

LEMMA PollFailsType ==
  ASSUME TypeInv, NEW w \in Workers, NEW reply \in Replies, PollFails(w, reply)
  PROVE  TypeInv'
<1> USE NamesApart
<1> DEFINE t == worker[w].tenant
<1>1. RedisOK /\ Local(worker[w]) /\ worker[w] \in Worker
  BY DEF TypeInv, Locals, Local
<1>2. /\ redisErrors' \in Nat /\ UNCHANGED <<dead, producer, crashes>>
      /\ Step(w, Fresh("idle"))
  BY <1>1, ReplyType DEF PollFails
<1>3. /\ queue' \in [Lists -> Seq(Entry)] /\ processing' \in [Lists -> [Entry -> Nat]]
  <2>1. CASE worker[w].at \in {"pop", "base"} /\ queue[t] # <<>> /\ RPopLPush(t)
    <3>1. t \in Lists
      BY <1>1, <2>1 DEF Local
    <3>2. QED
      BY <1>1, <2>1, <3>1, PopType
  <2>2. CASE UNCHANGED <<queue, processing>>
    BY <1>1, <2>2 DEF RedisOK
  <2>3. QED
    BY <2>1, <2>2 DEF PollFails
<1>4. active' \subseteq Tenants /\ overtaken' \subseteq Tenants /\ unsent' \subseteq Tenants
  <2>1. CASE worker[w].at = "unregister" /\ SRem(t)
    <3>1. t \in Tenants
      BY <1>1, <2>1 DEF Local
    <3>2. QED
      BY <1>1, <2>1, <3>1, SetType
  <2>2. CASE UNCHANGED <<active, history>>
    BY <1>1, <2>2 DEF RedisOK, history
  <2>3. QED
    BY <2>1, <2>2 DEF PollFails
<1>5. RedisOK'
  BY <1>1, <1>2, <1>3, <1>4 DEF RedisOK
<1>6. Local(Fresh("idle"))
  BY FreshLocal DEF FairQueueAssumption
<1>7. QED
  BY <1>2, <1>5, <1>6, StepType

LEMMA HandleType ==
  ASSUME TypeInv, NEW w \in Workers, NEW outcome \in Outcomes, Handle(w, outcome)
  PROVE  TypeInv'
<1>1. RedisOK /\ Local(worker[w]) /\ worker[w].at = "handling"
      /\ worker[w].held \in Entry /\ worker[w].tenant \in Lists
  BY DEF TypeInv, Locals, Local, Handle
<1>2. RedisOK'
  BY <1>1 DEF Handle, RedisOK, redis, history
<1>3. Local(Goto(w, "ack"))
  BY <1>1, GotoLocal
<1>4. \A limit \in {0, MaxRetries}, inCatch \in BOOLEAN : Local(Failed(w, limit, inCatch))
  BY <1>1, FailedLocal DEF FairQueueAssumption
<1>5. PICK f : Step(w, f) /\ Local(f)
  BY <1>3, <1>4 DEF Handle, Outcomes, Goto
<1>6. QED
  BY <1>2, <1>5, StepType

\* A command of processTenantJob that was answered, or failed the call.
LEMMA ThenType ==
  ASSUME TypeInv, RedisOK', NEW w \in Workers, NEW reply \in Replies, NEW next,
         worker[w].tenant \in Lists, worker[w].held \in Entry,
         Local(next), Then(w, reply, next)
  PROVE  TypeInv'
<1>1. Local(worker[w])
  BY DEF TypeInv, Locals
<1>2. PICK f : Step(w, f) /\ Local(f)
  BY <1>1, RejectedLocal DEF Then
<1>3. QED
  BY <1>2, StepType

\* LREM after the handler, and LLEN and SREM after a success.
LEMMA AckType ==
  ASSUME TypeInv, NEW w \in Workers, NEW reply \in Replies,
         Ack(w, reply) \/ Count(w, reply) \/ Clear(w, reply)
  PROVE  TypeInv'
<1> USE NamesApart
<1>1. RedisOK /\ Local(worker[w]) /\ Local(Fresh("idle"))
  BY FreshLocal DEF TypeInv, Locals
<1>2. CASE Ack(w, reply)
  <2>1. worker[w].at = "ack" /\ worker[w].tenant \in Lists /\ worker[w].held \in Entry
    BY <1>1, <1>2 DEF Ack, Local
  <2>2. processing' \in [Lists -> [Entry -> Nat]]
    BY <1>1, <1>2, <2>1, LRemType DEF Ack, RedisOK
  <2>3. RedisOK'
    BY <1>1, <1>2, <2>2, ReplyType DEF Ack, RedisOK, history
  <2>4. worker[w].tenant # Base => Local(Goto(w, "count"))
    BY <1>1, <2>1, GotoLocal
  <2>5. QED
    BY <1>1, <1>2, <2>1, <2>3, <2>4, ThenType DEF Ack
<1>3. CASE Count(w, reply)
  <2>1. worker[w].at = "count" /\ worker[w].tenant \in Tenants /\ worker[w].held \in Entry
    BY <1>1, <1>3 DEF Count, Local
  <2>2. RedisOK'
    BY <1>1, <1>3, ReplyType DEF Count, RedisOK, history, redis
  <2>3. Local(Goto(w, "clear"))
    BY <1>1, <2>1, GotoLocal
  <2>4. QED
    BY <1>1, <1>3, <2>1, <2>2, <2>3, ThenType DEF Count
<1>4. CASE Clear(w, reply)
  <2>1. worker[w].at = "clear" /\ worker[w].tenant \in Tenants /\ worker[w].held \in Entry
    BY <1>1, <1>4 DEF Clear, Local
  <2>2. active' \subseteq Tenants /\ overtaken' \subseteq Tenants /\ unsent' \subseteq Tenants
    BY <1>1, <1>4, <2>1, SetType DEF Clear
  <2>3. RedisOK'
    BY <1>1, <1>4, <2>2, ReplyType DEF Clear, RedisOK
  <2>4. QED
    BY <1>1, <1>4, <2>1, <2>3, ThenType DEF Clear
<1>5. QED
  BY <1>2, <1>3, <1>4

\* LREM, LPUSH and SADD of a failed job.
LEMMA RetryType ==
  ASSUME TypeInv, NEW w \in Workers, NEW reply \in Replies,
         Remove(w, reply) \/ Push(w, reply) \/ Activate(w, reply)
  PROVE  TypeInv'
<1> USE NamesApart
<1>1. RedisOK /\ Local(worker[w]) /\ Local(Fresh("idle"))
  BY FreshLocal DEF TypeInv, Locals
<1>2. CASE Remove(w, reply)
  <2>1. worker[w].at = "remove" /\ worker[w].tenant \in Lists /\ worker[w].held \in Entry
    BY <1>1, <1>2 DEF Remove, Local
  <2>2. processing' \in [Lists -> [Entry -> Nat]]
    BY <1>1, <1>2, <2>1, LRemType DEF Remove, RedisOK
  <2>3. RedisOK'
    BY <1>1, <1>2, <2>2, ReplyType DEF Remove, RedisOK, history
  <2>4. Local(Goto(w, "push"))
    BY <1>1, <2>1, GotoLocal
  <2>5. QED
    BY <1>1, <1>2, <2>1, <2>3, <2>4, ThenType DEF Remove
<1>3. CASE Push(w, reply)
  <2> DEFINE t == worker[w].tenant
             entry == worker[w].held
             again == [entry EXCEPT !.retry = @ + 1]
             next == IF worker[w].plan = "retry" /\ t # Base THEN Goto(w, "activate")
                                                             ELSE Fresh("idle")
  <2>1. worker[w].at = "push" /\ t \in Lists /\ entry \in Entry
        /\ (worker[w].plan = "retry" => again \in Entry)
    BY <1>1, <1>3, AgainType DEF Push, Local
  <2>2. queue' \in [Lists -> Seq(Entry)]
    <3>1. CASE worker[w].plan = "retry" /\ LPush(t, again)
      <4>1. again \in Entry
        BY <2>1, <3>1
      <4> HIDE DEF again
      <4>2. QED
        BY <1>1, <2>1, <3>1, <4>1, LPushType
    <3>2. CASE UNCHANGED queue
      BY <1>1, <3>2 DEF RedisOK
    <3>3. QED
      BY <1>3, <3>1, <3>2 DEF Push
  <2>3. dead' \in [Entry -> Nat] /\ unsent' \subseteq Tenants
    <3>1. Buried(entry) \in [Entry -> Nat]
      BY <1>1, <2>1, BuriedType
    <3>2. dead \in [Entry -> Nat] /\ unsent \subseteq Tenants
      BY <1>1 DEF RedisOK
    <3>3. dead' \in {dead, Buried(entry)}
      BY <1>3 DEF Push
    <3>4. t # Base => t \in Tenants
      BY <2>1 DEF Lists
    <3>5. unsent' \in {unsent, unsent \cup {t}} /\ (unsent' # unsent => t # Base)
      BY <1>3 DEF Push
    <3> HIDE DEF entry, t
    <3>6. QED
      BY <3>1, <3>2, <3>3, <3>4, <3>5
  <2>4. RedisOK'
    BY <1>1, <1>3, <2>2, <2>3, ReplyType DEF Push, RedisOK
  <2>5. t # Base => Local(Goto(w, "activate"))
    BY <1>1, <2>1, GotoLocal
  <2>6. Local(next) /\ Then(w, reply, next)
    BY <1>1, <1>3, <2>5 DEF Push
  <2> HIDE DEF next
  <2>7. QED
    BY <2>1, <2>4, <2>6, ThenType
<1>4. CASE Activate(w, reply)
  <2>1. worker[w].at = "activate" /\ worker[w].tenant \in Tenants /\ worker[w].held \in Entry
    BY <1>1, <1>4 DEF Activate, Local
  <2>2. active' \subseteq Tenants /\ overtaken' \subseteq Tenants /\ unsent' \subseteq Tenants
    BY <1>1, <1>4, <2>1, SetType DEF Activate
  <2>3. RedisOK'
    BY <1>1, <1>4, <2>2, ReplyType DEF Activate, RedisOK
  <2>4. QED
    BY <1>1, <1>4, <2>1, <2>3, ThenType DEF Activate
<1>5. QED
  BY <1>2, <1>3, <1>4

LEMMA ProcessType ==
  ASSUME TypeInv, NEW w \in Workers, Crash(w) \/ Restart(w)
  PROVE  TypeInv'
<1>1. RedisOK /\ Local(worker[w]) /\ Local(Fresh("idle")) /\ Local(Fresh("down"))
  BY FreshLocal DEF TypeInv, Locals
<1>2. CASE Crash(w)
  <2>1. active' \subseteq Tenants /\ overtaken' \subseteq Tenants /\ unsent' \subseteq Tenants
    <3>1. CASE worker[w].at = "activate" /\ NoSAdd(worker[w].tenant)
      <4>1. worker[w].tenant \in Tenants
        BY <1>1, <3>1 DEF Local
      <4>2. QED
        BY <1>1, <3>1, <4>1, SetType
    <3>2. CASE UNCHANGED <<active, history>>
      BY <1>1, <3>2 DEF RedisOK, history
    <3>3. QED
      BY <1>2, <3>1, <3>2 DEF Crash
  <2>2. RedisOK'
    BY <1>1, <1>2, <2>1 DEF Crash, RedisOK
  <2>3. QED
    BY <1>1, <1>2, <2>2, StepType DEF Crash
<1>3. CASE Restart(w)
  <2>1. RedisOK'
    BY <1>1, <1>3 DEF Restart, RedisOK, redis, history
  <2>2. QED
    BY <1>1, <1>3, <2>1, StepType DEF Restart
<1>4. QED
  BY <1>2, <1>3

LEMMA NextType == TypeInv /\ [Next]_vars => TypeInv'
<1> SUFFICES ASSUME TypeInv, [Next]_vars PROVE TypeInv'
  OBVIOUS
<1>1. CASE UNCHANGED vars
  BY <1>1 DEF vars, redis, history, TypeInv, RedisOK, Locals
<1>2. ASSUME NEW j \in Jobs, NEW reply \in Replies,
             \/ Register(j, reply) \/ EnqueueBase(j, reply)
             \/ \E t \in Tenants : EnqueueFair(j, t, reply)
      PROVE  TypeInv'
  BY <1>2, ProducerType
<1>3. ASSUME NEW w \in Workers,
             \/ \E t \in Tenants : Pick(w, t)
             \/ FallBack(w) \/ Pop(w) \/ Unregister(w)
             \/ \E outcome \in Outcomes : Handle(w, outcome)
             \/ \E reply \in Replies : Finish(w, reply) \/ PollFails(w, reply)
             \/ Crash(w) \/ Restart(w)
      PROVE  TypeInv'
  BY <1>3, PollType, PollFailsType, HandleType, AckType, RetryType, ProcessType DEF Finish
<1>4. QED
  BY <1>1, <1>2, <1>3 DEF Next

\* The values of the lists, the active set and the locals of the loops, in every run.
THEOREM TypesHold == Spec => []TypeOK
<1>1. TypeInv => TypeOK
  BY DEF TypeInv, RedisOK, TypeOK
<1>2. QED
  BY <1>1, TypeInit, NextType, PTL DEF Spec

(***************************************************************************)
(* Registration. A step that is not about to send a SADD and fills no      *)
(* list can disturb WorkIsRegistered only with a SREM, and a SREM over a   *)
(* list with a job is what "overtaken" records. The steps that fill a list *)
(* or end a SADD are the producer's, Push, Activate and a crash.           *)
(***************************************************************************)
LEMMA StaysRegistered ==
  ASSUME TypeInv, WorkIsRegistered, NEW w \in Workers, NEW f, Step(w, f),
         worker[w].at # "activate", UNCHANGED producer,
         \A t \in Tenants : queue[t] = <<>> => queue'[t] = <<>>,
         UNCHANGED <<active, history>> \/ \E s \in Lists : SRem(s)
  PROVE  WorkIsRegistered'
<1> SUFFICES ASSUME NEW t \in Tenants, queue'[t] # <<>>
             PROVE  \/ t \in active' \/ t \in overtaken' \/ t \in unsent'
                    \/ \E j \in Jobs : producer'[j] = t
                    \/ \E v \in Workers : worker'[v].at = "activate" /\ worker'[v].tenant = t
  BY DEF WorkIsRegistered
<1>1. queue[t] # <<>>
  OBVIOUS
<1>2. t \in active \cup overtaken \cup unsent => t \in active' \cup overtaken' \cup unsent'
  BY <1>1 DEF SRem, history
<1>3. ASSUME NEW v \in Workers, worker[v].at = "activate" PROVE worker'[v] = worker[v]
  BY <1>3 DEF Step, TypeInv
<1>4. QED
  BY <1>1, <1>2, <1>3 DEF WorkIsRegistered

LEMMA ProducerRegisters ==
  ASSUME TypeInv, WorkIsRegistered, NEW j \in Jobs, NEW reply \in Replies,
         \/ Register(j, reply) \/ EnqueueBase(j, reply)
         \/ \E t \in Tenants : EnqueueFair(j, t, reply)
  PROVE  WorkIsRegistered'
<1> SUFFICES ASSUME NEW s \in Tenants, queue'[s] # <<>>
             PROVE  \/ s \in active' \/ s \in overtaken' \/ s \in unsent'
                    \/ \E i \in Jobs : producer'[i] = s
                    \/ \E v \in Workers : worker'[v].at = "activate" /\ worker'[v].tenant = s
  BY DEF WorkIsRegistered
<1>1. worker' = worker /\ RedisOK
  BY DEF Register, EnqueueBase, EnqueueFair, TypeInv
<1>2. CASE Register(j, reply)
  <2>1. /\ queue' = queue /\ producer[j] \in Tenants
        /\ producer' = [producer EXCEPT ![j] = None]
        /\ SAdd(producer[j]) \/ NoSAdd(producer[j])
    BY <1>1, <1>2 DEF Register, RedisOK
  <2>2. s = producer[j] => s \in active' \/ s \in unsent'
    BY <2>1 DEF SAdd, NoSAdd
  <2>3. s # producer[j] => (s \in active \cup overtaken \cup unsent
                             => s \in active' \cup overtaken' \cup unsent')
    BY <2>1 DEF SAdd, NoSAdd
  <2>4. \A i \in Jobs : producer[i] = s /\ s # producer[j] => producer'[i] = s
    BY <1>1, <2>1 DEF RedisOK
  <2>5. QED
    BY <1>1, <2>1, <2>2, <2>3, <2>4 DEF WorkIsRegistered
<1>3. CASE EnqueueBase(j, reply)
  <2>1. queue'[s] = queue[s]
    BY <1>1, <1>3, NamesApart DEF EnqueueBase, LPush, RedisOK
  <2>2. UNCHANGED <<active, overtaken, unsent, producer>>
    BY <1>3 DEF EnqueueBase, history
  <2>3. QED
    BY <1>1, <2>1, <2>2 DEF WorkIsRegistered
<1>4. ASSUME NEW t \in Tenants, EnqueueFair(j, t, reply)
      PROVE  \/ s \in active' \/ s \in overtaken' \/ s \in unsent'
             \/ \E i \in Jobs : producer'[i] = s
             \/ \E v \in Workers : worker'[v].at = "activate" /\ worker'[v].tenant = s
  <2>1. /\ producer[j] = None /\ producer' = [producer EXCEPT ![j] = t]
        /\ UNCHANGED <<active, overtaken, unsent>>
    BY <1>4 DEF EnqueueFair, Gone, history
  <2>2. producer'[j] = t /\ \A i \in Jobs : producer[i] = s => producer'[i] = s
    BY <1>1, <2>1 DEF RedisOK
  <2>3. s # t => queue'[s] = queue[s]
    BY <1>1, <1>4, NamesApart DEF EnqueueFair, LPush, RedisOK
  <2>4. QED
    BY <1>1, <2>1, <2>2, <2>3 DEF WorkIsRegistered
<1>5. QED
  BY <1>2, <1>3, <1>4

LEMMA PollRegisters ==
  ASSUME TypeInv, WorkIsRegistered, NEW w \in Workers,
         \/ \E t \in Tenants : Pick(w, t)
         \/ FallBack(w) \/ Pop(w) \/ Unregister(w) \/ Restart(w)
         \/ \E reply \in Replies : PollFails(w, reply)
         \/ \E outcome \in Outcomes : Handle(w, outcome)
  PROVE  WorkIsRegistered'
<1>1. RedisOK /\ Local(worker[w]) /\ worker[w].at # "activate" /\ producer' = producer
  BY DEF TypeInv, Locals, Pick, FallBack, Pop, Unregister, PollFails, Handle, Restart
<1>2. PICK f : Step(w, f)
  BY DEF Pick, FallBack, Pop, Unregister, PollFails, Handle, Restart, Step
<1>3. \A t \in Tenants : queue[t] = <<>> => queue'[t] = <<>>
  <2>1. CASE queue' = queue
    BY <2>1
  <2>2. CASE queue[worker[w].tenant] # <<>> /\ RPopLPush(worker[w].tenant)
    BY <1>1, <2>2, NamesApart DEF RPopLPush, RedisOK
  <2>3. QED
    BY <2>1, <2>2 DEF Pick, FallBack, Pop, Unregister, PollFails, Handle, Restart, redis
<1>4. UNCHANGED <<active, history>> \/ \E s \in Lists : SRem(s)
  <2>1. CASE worker[w].at = "unregister" /\ SRem(worker[w].tenant)
    BY <1>1, <2>1, NamesApart DEF Local
  <2>2. CASE UNCHANGED <<active, history>>
    BY <2>2
  <2>3. QED
    BY <2>1, <2>2 DEF Pick, FallBack, Pop, Unregister, PollFails, Handle, Restart, redis
<1>5. QED
  BY <1>1, <1>2, <1>3, <1>4, StaysRegistered

LEMMA FinishRegisters ==
  ASSUME TypeInv, WorkIsRegistered, NEW w \in Workers, NEW reply \in Replies,
         Finish(w, reply)
  PROVE  WorkIsRegistered'
<1>1. RedisOK /\ Local(worker[w]) /\ producer' = producer
  BY DEF TypeInv, Locals, Finish, Ack, Count, Clear, Remove, Push, Activate
<1>2. PICK f : Step(w, f)
  BY DEF Finish, Ack, Count, Clear, Remove, Push, Activate, Then, Step
<1>3. \A v \in Workers \ {w} : worker'[v] = worker[v]
  BY <1>2 DEF Step, TypeInv
<1>4. CASE Ack(w, reply) \/ Count(w, reply) \/ Clear(w, reply) \/ Remove(w, reply)
  <2>1. worker[w].at # "activate" /\ queue' = queue
    BY <1>4 DEF Ack, Count, Clear, Remove, redis
  <2>2. UNCHANGED <<active, history>> \/ \E s \in Lists : SRem(s)
    BY <1>1, <1>4, NamesApart DEF Ack, Count, Clear, Remove, redis, Local
  <2>3. QED
    BY <1>1, <1>2, <2>1, <2>2, StaysRegistered
<1>5. CASE Push(w, reply)
  <2> DEFINE t == worker[w].tenant
  <2>1. t \in Lists /\ worker[w].at = "push" /\ UNCHANGED <<active, overtaken>>
    BY <1>1, <1>5 DEF Push, Local
  <2>2. \A s \in Tenants : s # t \/ worker[w].plan # "retry" \/ reply = "rejected"
                           => queue'[s] = queue[s]
    BY <1>1, <1>5, <2>1, NamesApart DEF Push, LPush, Applied, RedisOK
  <2>3. unsent \subseteq unsent'
    BY <1>5 DEF Push
  <2>4. ASSUME worker[w].plan = "retry", t \in Tenants, reply # "rejected"
        PROVE  \/ t \in unsent'
               \/ worker'[w].at = "activate" /\ worker'[w].tenant = t
    <3>1. CASE reply = "unconfirmed"
      BY <1>5, <2>4, <3>1, NamesApart DEF Push
    <3>2. CASE reply = "ok"
      <4>1. Step(w, Goto(w, "activate"))
        BY <1>5, <2>4, <3>2, NamesApart DEF Push, Then
      <4>2. worker'[w] = Goto(w, "activate")
        BY <4>1 DEF Step, TypeInv
      <4>3. worker[w].held \in Entry /\ worker[w] \in Worker
        BY <1>1, <2>1 DEF Local
      <4>4. QED
        BY <4>2, <4>3 DEF Goto, Worker
    <3>3. QED
      BY <2>4, <3>1, <3>2 DEF Replies
  <2>5. ASSUME NEW s \in Tenants, queue'[s] # <<>>
        PROVE  \/ s \in active' \/ s \in overtaken' \/ s \in unsent'
               \/ \E j \in Jobs : producer'[j] = s
               \/ \E v \in Workers : worker'[v].at = "activate" /\ worker'[v].tenant = s
    <3>1. CASE s = t /\ worker[w].plan = "retry" /\ reply # "rejected"
      BY <2>4, <3>1
    <3>2. CASE ~(s = t /\ worker[w].plan = "retry" /\ reply # "rejected")
      <4>1. queue[s] # <<>>
        BY <2>2, <2>5, <3>2
      <4>2. QED
        BY <1>1, <1>3, <2>1, <2>3, <4>1 DEF WorkIsRegistered
    <3>3. QED
      BY <3>1, <3>2
  <2>6. QED
    BY <2>5 DEF WorkIsRegistered
<1>6. CASE Activate(w, reply)
  <2> DEFINE t == worker[w].tenant
  <2>1. t \in Tenants /\ queue' = queue /\ (SAdd(t) \/ NoSAdd(t))
    BY <1>1, <1>6 DEF Activate, Local
  <2>2. t \in active' \/ t \in unsent'
    BY <2>1 DEF SAdd, NoSAdd
  <2>3. \A s \in Tenants \ {t} : s \in active \cup overtaken \cup unsent
                                => s \in active' \cup overtaken' \cup unsent'
    BY <2>1 DEF SAdd, NoSAdd
  <2>4. QED
    BY <1>1, <1>3, <2>1, <2>2, <2>3 DEF WorkIsRegistered
<1>7. QED
  BY <1>4, <1>5, <1>6 DEF Finish

LEMMA CrashRegisters ==
  ASSUME TypeInv, WorkIsRegistered, NEW w \in Workers, Crash(w)
  PROVE  WorkIsRegistered'
<1>1. Step(w, Fresh("down")) /\ UNCHANGED <<queue, producer>> /\ Local(worker[w])
  BY DEF Crash, TypeInv, Locals
<1>2. CASE worker[w].at # "activate"
  <2>1. UNCHANGED <<active, history>>
    BY <1>2 DEF Crash
  <2>2. QED
    BY <1>1, <1>2, <2>1, StaysRegistered
<1>3. CASE worker[w].at = "activate"
  <2> DEFINE t == worker[w].tenant
  <2>1. t \in Tenants /\ NoSAdd(t)
    BY <1>1, <1>3 DEF Crash, Local
  <2>2. unsent' = unsent \cup {t} /\ UNCHANGED <<active, overtaken>>
    BY <2>1 DEF NoSAdd
  <2>3. \A v \in Workers \ {w} : worker'[v] = worker[v]
    BY <1>1 DEF Step, TypeInv
  <2>4. QED
    BY <1>1, <2>2, <2>3 DEF WorkIsRegistered
<1>4. QED
  BY <1>2, <1>3

LEMMA NextRegisters == TypeInv /\ WorkIsRegistered /\ [Next]_vars => WorkIsRegistered'
<1> SUFFICES ASSUME TypeInv, WorkIsRegistered, [Next]_vars PROVE WorkIsRegistered'
  OBVIOUS
<1>1. CASE UNCHANGED vars
  BY <1>1 DEF vars, redis, history, WorkIsRegistered
<1>2. ASSUME NEW j \in Jobs, NEW reply \in Replies,
             \/ Register(j, reply) \/ EnqueueBase(j, reply)
             \/ \E t \in Tenants : EnqueueFair(j, t, reply)
      PROVE  WorkIsRegistered'
  BY <1>2, ProducerRegisters
<1>3. ASSUME NEW w \in Workers,
             \/ \E t \in Tenants : Pick(w, t)
             \/ FallBack(w) \/ Pop(w) \/ Unregister(w)
             \/ \E outcome \in Outcomes : Handle(w, outcome)
             \/ \E reply \in Replies : Finish(w, reply) \/ PollFails(w, reply)
             \/ Crash(w) \/ Restart(w)
      PROVE  WorkIsRegistered'
  BY <1>3, PollRegisters, FinishRegisters, CrashRegisters
<1>4. QED
  BY <1>1, <1>2, <1>3 DEF Next

\* Whatever the interleaving of producers and workers, the failed commands and the crashes:
\* a tenant with a queued job is in the active set, is about to be, or one of the two ways
\* the code loses a registration (a SREM on a stale LLEN, a SADD never applied) took it out.
THEOREM WorkStaysRegistered == Spec => []WorkIsRegistered
<1>1. Init => WorkIsRegistered
  <2> SUFFICES ASSUME Init, NEW t \in Tenants PROVE queue[t] = <<>>
    BY DEF WorkIsRegistered
  <2>1. QED
    BY NamesApart DEF Init
<1>2. QED
  BY <1>1, TypeInit, NextType, NextRegisters, PTL DEF Spec

(***************************************************************************)
(* Copies. Copies(j) is not inductive: a LREM that was applied but not     *)
(* confirmed leaves a worker that removes the job again, from nothing, and *)
(* then pushes it. Such a worker still owes the list one removal, so what  *)
(* is counted is, per list and entry, the larger of the entries in the     *)
(* processing list and of the workers that are about to remove one. With   *)
(* that no answered command adds a copy, and a failed one adds at most one.*)
(***************************************************************************)
Holds(r, t, e) == r.at \in {"handling", "ack", "remove"} /\ r.tenant = t /\ r.held = e
Pushes(r, j)   == r.at = "push" /\ r.held.job = j

Holders(t, e) == {w \in Workers : Holds(worker[w], t, e)}
Pushers(j)    == {w \in Workers : Pushes(worker[w], j)}
Marks(t, e)   == IF processing[t][e] >= Cardinality(Holders(t, e))
                 THEN processing[t][e] ELSE Cardinality(Holders(t, e))

Spots(j) == {p \in Lists \X (Nat \ {0}) :
               p[2] \in DOMAIN queue[p[1]] /\ queue[p[1]][p[2]].job = j}
Owed(j)  == {p \in Lists \X Entry \X (Nat \ {0}) :
               p[2].job = j /\ p[3] <= Marks(p[1], p[2])}

Finite(j) == IsFiniteSet(Spots(j)) /\ IsFiniteSet(Owed(j)) /\ IsFiniteSet(GivenUp(j))
Weight(j) == Cardinality(Spots(j)) + Cardinality(Owed(j))
             + Cardinality(Pushers(j)) + Cardinality(GivenUp(j))
CopyInv   == \A j \in Jobs : Finite(j) /\ Weight(j) <= 1 + redisErrors

\* What a step does to a set, and to the number of its elements.
LEMMA Shrinks ==
  ASSUME NEW S, IsFiniteSet(S), NEW T, T \subseteq S
  PROVE  /\ IsFiniteSet(T) /\ Cardinality(T) \in Nat /\ Cardinality(S) \in Nat
         /\ Cardinality(T) <= Cardinality(S)
BY FS_Subset, FS_CardinalityType

LEMMA Gains ==
  ASSUME NEW S, IsFiniteSet(S), NEW T, NEW x, T \subseteq S \cup {x}
  PROVE  /\ IsFiniteSet(T) /\ Cardinality(T) \in Nat /\ Cardinality(S) \in Nat
         /\ Cardinality(T) <= Cardinality(S) + 1
<1>1. IsFiniteSet(S \cup {x}) /\ Cardinality(S \cup {x}) <= Cardinality(S) + 1
      /\ Cardinality(S) \in Nat /\ Cardinality(S \cup {x}) \in Nat
  <2>1. Cardinality(S) \in Nat
    BY FS_CardinalityType
  <2>2. IsFiniteSet(S \cup {x})
        /\ Cardinality(S \cup {x}) = IF x \in S THEN Cardinality(S) ELSE Cardinality(S) + 1
    BY FS_AddElement
  <2>3. QED
    BY <2>1, <2>2
<1>2. IsFiniteSet(T) /\ Cardinality(T) <= Cardinality(S \cup {x}) /\ Cardinality(T) \in Nat
  BY <1>1, FS_Subset, FS_CardinalityType
<1>3. QED
  BY <1>1, <1>2

LEMMA Drops ==
  ASSUME NEW S, IsFiniteSet(S), NEW T, NEW x \in S, T \subseteq S \ {x}
  PROVE  /\ IsFiniteSet(T) /\ Cardinality(T) \in Nat /\ Cardinality(S) \in Nat
         /\ Cardinality(T) + 1 <= Cardinality(S)
<1>1. IsFiniteSet(S \ {x}) /\ Cardinality(S \ {x}) = Cardinality(S) - 1
      /\ Cardinality(S) \in Nat /\ Cardinality(S \ {x}) \in Nat
  BY FS_RemoveElement, FS_CardinalityType
<1>2. IsFiniteSet(T) /\ Cardinality(T) <= Cardinality(S \ {x}) /\ Cardinality(T) \in Nat
  BY <1>1, FS_Subset, FS_CardinalityType
<1>3. QED
  BY <1>1, <1>2

LEMMA FewWorkers ==
  ASSUME NEW S, S \subseteq Workers
  PROVE  IsFiniteSet(S) /\ Cardinality(S) \in Nat
BY FS_Subset, FS_CardinalityType

MarksFacts ==
  \A t \in Lists, e \in Entry :
    /\ IsFiniteSet(Holders(t, e)) /\ Cardinality(Holders(t, e)) \in Nat
    /\ processing[t][e] \in Nat /\ Marks(t, e) \in Nat
    /\ processing[t][e] <= Marks(t, e) /\ Cardinality(Holders(t, e)) <= Marks(t, e)
    /\ Marks(t, e) = processing[t][e] \/ Marks(t, e) = Cardinality(Holders(t, e))

LEMMA MarksType == TypeInv => MarksFacts
<1> SUFFICES ASSUME TypeInv, NEW t \in Lists, NEW e \in Entry
             PROVE  /\ IsFiniteSet(Holders(t, e)) /\ Cardinality(Holders(t, e)) \in Nat
                    /\ processing[t][e] \in Nat /\ Marks(t, e) \in Nat
                    /\ processing[t][e] <= Marks(t, e)
                    /\ Cardinality(Holders(t, e)) <= Marks(t, e)
                    /\ \/ Marks(t, e) = processing[t][e]
                       \/ Marks(t, e) = Cardinality(Holders(t, e))
  BY DEF MarksFacts
<1>1. IsFiniteSet(Holders(t, e)) /\ Cardinality(Holders(t, e)) \in Nat
  BY FewWorkers DEF Holders
<1>2. processing[t][e] \in Nat
  BY DEF TypeInv, RedisOK
<1>3. QED
  BY <1>1, <1>2 DEF Marks

LEMMA NextMarks == TypeInv' => MarksFacts'
BY MarksType, PTL

-----------------------------------------------------------------------------
(* The three sets under what a step does *)

\* No entry is added and no worker starts to owe one.
LEMMA OwedShrinks ==
  ASSUME TypeInv, TypeInv',
         \A t \in Lists, e \in Entry : /\ processing'[t][e] <= processing[t][e]
                                       /\ Holders(t, e)' \subseteq Holders(t, e)
  PROVE  \A j \in Jobs : Owed(j)' \subseteq Owed(j)
<1>1. MarksFacts /\ MarksFacts'
  BY MarksType, NextMarks
<1>2. ASSUME NEW t \in Lists, NEW e \in Entry PROVE Marks(t, e)' <= Marks(t, e)
  <2>1. Cardinality(Holders(t, e)') <= Cardinality(Holders(t, e))
    BY <1>1, Shrinks DEF MarksFacts
  <2>2. QED
    BY <1>1, <2>1 DEF MarksFacts
<1>3. \A t \in Lists, e \in Entry : Marks(t, e) \in Nat /\ Marks(t, e)' \in Nat
  BY <1>1 DEF MarksFacts
<1>4. QED
  BY <1>2, <1>3 DEF Owed

\* One entry is added, or one worker starts to owe it, or both.
LEMMA OwedGrows ==
  ASSUME TypeInv, TypeInv', NEW t \in Lists, NEW e \in Entry, NEW w \in Workers,
         processing'[t][e] <= processing[t][e] + 1,
         Holders(t, e)' \subseteq Holders(t, e) \cup {w},
         \A s \in Lists, d \in Entry :
           s # t \/ d # e => /\ processing'[s][d] <= processing[s][d]
                             /\ Holders(s, d)' \subseteq Holders(s, d)
  PROVE  \A j \in Jobs : /\ Owed(j)' \subseteq Owed(j) \cup {<<t, e, Marks(t, e) + 1>>}
                         /\ e.job # j => Owed(j)' \subseteq Owed(j)
<1>1. MarksFacts /\ MarksFacts'
  BY MarksType, NextMarks
<1>2. ASSUME NEW s \in Lists, NEW d \in Entry, s # t \/ d # e PROVE Marks(s, d)' <= Marks(s, d)
  <2>1. Cardinality(Holders(s, d)') <= Cardinality(Holders(s, d))
    BY <1>1, <1>2, Shrinks DEF MarksFacts
  <2>2. QED
    BY <1>1, <1>2, <2>1 DEF MarksFacts
<1>3. Marks(t, e)' <= Marks(t, e) + 1
  <2>1. Cardinality(Holders(t, e)') <= Cardinality(Holders(t, e)) + 1
    BY <1>1, Gains DEF MarksFacts
  <2>2. QED
    BY <1>1, <2>1 DEF MarksFacts
<1>4. \A s \in Lists, d \in Entry : Marks(s, d) \in Nat /\ Marks(s, d)' \in Nat
  BY <1>1 DEF MarksFacts
<1>5. ASSUME NEW j \in Jobs, NEW p \in Owed(j)', p \notin Owed(j)
      PROVE  p = <<t, e, Marks(t, e) + 1>> /\ e.job = j
  <2>1. /\ p = <<p[1], p[2], p[3]>> /\ p[1] \in Lists /\ p[2] \in Entry /\ p[3] \in Nat \ {0}
        /\ p[2].job = j /\ p[3] <= Marks(p[1], p[2])' /\ ~(p[3] <= Marks(p[1], p[2]))
    BY <1>5 DEF Owed
  <2>2. p[1] = t /\ p[2] = e
    BY <1>2, <1>4, <2>1
  <2>3. QED
    BY <1>3, <1>4, <2>1, <2>2
<1>6. QED
  BY <1>5

\* A worker that owed an entry has removed it.
LEMMA OwedDrops ==
  ASSUME TypeInv, TypeInv', NEW t \in Lists, NEW e \in Entry, NEW w \in Holders(t, e),
         processing'[t][e] = IF processing[t][e] > 0 THEN processing[t][e] - 1 ELSE 0,
         Holders(t, e)' \subseteq Holders(t, e) \ {w},
         \A s \in Lists, d \in Entry :
           s # t \/ d # e => /\ processing'[s][d] <= processing[s][d]
                             /\ Holders(s, d)' \subseteq Holders(s, d)
  PROVE  \A j \in Jobs :
           /\ Owed(j)' \subseteq Owed(j)
           /\ e.job = j => /\ <<t, e, Marks(t, e)>> \in Owed(j)
                           /\ Owed(j)' \subseteq Owed(j) \ {<<t, e, Marks(t, e)>>}
<1>1. MarksFacts /\ MarksFacts'
  BY MarksType, NextMarks
<1>2. ASSUME NEW s \in Lists, NEW d \in Entry, s # t \/ d # e PROVE Marks(s, d)' <= Marks(s, d)
  <2>1. Cardinality(Holders(s, d)') <= Cardinality(Holders(s, d))
    BY <1>1, <1>2, Shrinks DEF MarksFacts
  <2>2. QED
    BY <1>1, <1>2, <2>1 DEF MarksFacts
<1>3. Marks(t, e)' + 1 <= Marks(t, e)
  <2>1. Cardinality(Holders(t, e)') + 1 <= Cardinality(Holders(t, e))
    BY <1>1, Drops DEF MarksFacts
  <2>2. QED
    BY <1>1, <2>1 DEF MarksFacts
<1>4. \A s \in Lists, d \in Entry : Marks(s, d) \in Nat /\ Marks(s, d)' \in Nat
  BY <1>1 DEF MarksFacts
<1>5. ASSUME NEW j \in Jobs, NEW p \in Owed(j)'
      PROVE  p \in Owed(j) /\ p # <<t, e, Marks(t, e)>>
  <2>1. /\ p = <<p[1], p[2], p[3]>> /\ p[1] \in Lists /\ p[2] \in Entry /\ p[3] \in Nat \ {0}
        /\ p[2].job = j /\ p[3] <= Marks(p[1], p[2])'
    BY <1>5 DEF Owed
  <2>2. p[3] <= Marks(p[1], p[2])
    BY <1>2, <1>3, <1>4, <2>1
  <2>3. p[1] = t /\ p[2] = e => p[3] # Marks(t, e)
    BY <1>3, <1>4, <2>1
  <2>4. QED
    BY <2>1, <2>2, <2>3 DEF Owed
<1>6. Marks(t, e) \in Nat \ {0}
  BY <1>3, <1>4
<1>7. \A j \in Jobs : e.job = j => <<t, e, Marks(t, e)>> \in Owed(j)
  BY <1>6 DEF Owed
<1>8. QED
  BY <1>5, <1>7

LEMMA SpotsGrow ==
  ASSUME TypeInv, NEW t \in Lists, NEW e \in Entry, LPush(t, e)
  PROVE  \A j \in Jobs : /\ Spots(j)' \subseteq Spots(j) \cup {<<t, Len(queue[t]) + 1>>}
                         /\ e.job # j => Spots(j)' \subseteq Spots(j)
<1>1. queue \in [Lists -> Seq(Entry)] /\ queue[t] \in Seq(Entry)
  BY DEF TypeInv, RedisOK
<1>2. queue'[t] = Append(queue[t], e) /\ \A s \in Lists \ {t} : queue'[s] = queue[s]
  BY <1>1 DEF LPush
<1>3. /\ Len(queue[t]) \in Nat
      /\ DOMAIN queue[t] = 1..Len(queue[t]) /\ DOMAIN queue'[t] = 1..(Len(queue[t]) + 1)
      /\ queue'[t][Len(queue[t]) + 1] = e
      /\ \A i \in 1..Len(queue[t]) : queue'[t][i] = queue[t][i]
  BY <1>1, <1>2
<1>4. ASSUME NEW j \in Jobs, NEW p \in Spots(j)', p \notin Spots(j)
      PROVE  p = <<t, Len(queue[t]) + 1>> /\ e.job = j
  <2>1. /\ p = <<p[1], p[2]>> /\ p[1] \in Lists /\ p[2] \in Nat \ {0}
        /\ p[2] \in DOMAIN queue'[p[1]] /\ queue'[p[1]][p[2]].job = j
        /\ ~(p[2] \in DOMAIN queue[p[1]] /\ queue[p[1]][p[2]].job = j)
    BY <1>4 DEF Spots
  <2>2. p[1] = t
    BY <1>2, <2>1
  <2>3. p[2] = Len(queue[t]) + 1
    BY <1>3, <2>1, <2>2
  <2>4. QED
    BY <1>3, <2>1, <2>2, <2>3
<1>5. QED
  BY <1>4

\* RPOPLPUSH moves the others one place to the front.
LEMMA SpotsPop ==
  ASSUME TypeInv, NEW t \in Lists, queue[t] # <<>>, RPopLPush(t),
         NEW j \in Jobs, IsFiniteSet(Spots(j))
  PROVE  /\ IsFiniteSet(Spots(j)') /\ Cardinality(Spots(j)') <= Cardinality(Spots(j))
         /\ Head(queue[t]).job = j => Cardinality(Spots(j)') + 1 <= Cardinality(Spots(j))
<1> DEFINE after == Spots(j)'
           rest == Spots(j) \ {<<t, 1>>}
           f == [p \in after |-> IF p[1] = t THEN <<t, p[2] + 1>> ELSE p]
<1>1. queue \in [Lists -> Seq(Entry)] /\ queue[t] \in Seq(Entry) /\ Len(queue[t]) \in Nat
  BY DEF TypeInv, RedisOK
<1>2. queue'[t] = Tail(queue[t]) /\ \A s \in Lists \ {t} : queue'[s] = queue[s]
  BY <1>1 DEF RPopLPush
<1>3. /\ DOMAIN queue[t] = 1..Len(queue[t]) /\ DOMAIN queue'[t] = 1..(Len(queue[t]) - 1)
      /\ \A i \in 1..(Len(queue[t]) - 1) : queue'[t][i] = queue[t][i + 1]
      /\ Len(queue[t]) > 0 /\ Head(queue[t]) = queue[t][1]
  BY <1>1, <1>2
<1>4. ASSUME NEW p \in after
      PROVE  /\ p[1] \in Lists /\ p[2] \in Nat \ {0} /\ p = <<p[1], p[2]>>
             /\ f[p] = IF p[1] = t THEN <<t, p[2] + 1>> ELSE p
             /\ f[p] \in rest
  <2>1. /\ p = <<p[1], p[2]>> /\ p[1] \in Lists /\ p[2] \in Nat \ {0}
        /\ p[2] \in DOMAIN queue'[p[1]] /\ queue'[p[1]][p[2]].job = j
    BY <1>4 DEF Spots
  <2>2. f[p] = IF p[1] = t THEN <<t, p[2] + 1>> ELSE p
    BY <1>4
  <2>3. CASE p[1] = t
    <3>1. PICK i \in Nat \ {0} : i = p[2]
      BY <2>1
    <3>2. i \in 1..(Len(queue[t]) - 1) /\ queue'[t][i].job = j
      BY <1>3, <2>1, <2>3, <3>1
    <3>3. i + 1 \in DOMAIN queue[t] /\ queue[t][i + 1].job = j
          /\ i + 1 \in Nat \ {0} /\ i + 1 # 1
      BY <1>1, <1>3, <3>2
    <3>4. <<t, p[2] + 1>> \in rest
      BY <3>1, <3>3 DEF Spots
    <3>5. QED
      BY <2>1, <2>2, <2>3, <3>4
  <2>4. CASE p[1] # t
    <3>1. p \in Spots(j) /\ p # <<t, 1>>
      BY <1>2, <2>1, <2>4 DEF Spots
    <3>2. QED
      BY <2>1, <2>2, <2>4, <3>1
  <2>5. QED
    BY <2>3, <2>4
<1>5. f \in Injection(after, rest)
  <2>1. f \in [after -> rest]
    BY <1>4
  <2>2. ASSUME NEW p \in after, NEW q \in after, f[p] = f[q] PROVE p = q
    <3>1. CASE p[1] = t /\ q[1] = t
      <4>1. <<t, p[2] + 1>> = <<t, q[2] + 1>> /\ p[2] \in Nat /\ q[2] \in Nat
        BY <1>4, <2>2, <3>1
      <4>2. p[2] = q[2]
        BY <4>1
      <4>3. p = <<t, p[2]>> /\ q = <<t, q[2]>>
        BY <1>4, <3>1
      <4> HIDE DEF f, after, rest
      <4>4. QED
        BY <4>2, <4>3
    <3>2. CASE p[1] # t \/ q[1] # t
      BY <1>4, <2>2, <3>2
    <3>3. QED
      BY <3>1, <3>2
  <2> HIDE DEF f, after, rest
  <2>3. DOMAIN f = after
    BY <2>1
  <2>4. QED
    BY <2>1, <2>2, <2>3 DEF Injection, IsInjective
<1> HIDE DEF f, after
<1>6. IsFiniteSet(rest) /\ Cardinality(rest) <= Cardinality(Spots(j))
      /\ Cardinality(Spots(j)) \in Nat /\ Cardinality(rest) \in Nat
  BY Shrinks
<1>7. Head(queue[t]).job = j => Cardinality(rest) + 1 <= Cardinality(Spots(j))
  <2> SUFFICES ASSUME Head(queue[t]).job = j
               PROVE  Cardinality(rest) + 1 <= Cardinality(Spots(j))
    OBVIOUS
  <2>1. <<t, 1>> \in Spots(j)
    BY <1>3 DEF Spots
  <2>2. QED
    BY <2>1, Drops
<1> HIDE DEF rest
<1>8. IsFiniteSet(after) /\ Cardinality(after) <= Cardinality(rest) /\ Cardinality(after) \in Nat
  BY <1>5, <1>6, FS_Injection, FS_CardinalityType
<1>9. QED
  BY <1>6, <1>7, <1>8 DEF after

\* What the step of a worker that moves to f does to who owes and who pushes.
LEMMA WorkersMove ==
  ASSUME TypeInv, NEW w \in Workers, NEW f, Step(w, f)
  PROVE  /\ \A t \in Lists, e \in Entry :
              /\ Holders(t, e)' \subseteq Holders(t, e) \cup {w}
              /\ Holds(worker[w], t, e) => Holders(t, e)' \subseteq Holders(t, e)
              /\ ~Holds(f, t, e) => Holders(t, e)' \subseteq Holders(t, e) \ {w}
         /\ \A j \in Jobs :
              /\ Pushers(j)' \subseteq Pushers(j) \cup {w}
              /\ ~Pushes(f, j) => Pushers(j)' \subseteq Pushers(j) \ {w}
<1>1. worker'[w] = f /\ \A v \in Workers \ {w} : worker'[v] = worker[v]
  BY DEF Step, TypeInv
<1>2. QED
  BY <1>1 DEF Holders, Pushers

\* One copy of i is added to a list or to the dead letters, or none.
Lands(i) ==
  \/ UNCHANGED <<queue, dead>>
  \/ \E t \in Lists, e \in Entry : e.job = i /\ LPush(t, e) /\ dead' = dead
  \/ \E e \in Entry : e.job = i /\ dead' = Buried(e) /\ queue' = queue

Stored(j) == Cardinality(Spots(j)) + Cardinality(GivenUp(j))

\* A dead letter is one copy more, of its job only.
LEMMA GraveGrows ==
  ASSUME TypeInv, NEW e \in Entry, dead' = Buried(e)
  PROVE  \A j \in Jobs : /\ GivenUp(j)' \subseteq GivenUp(j) \cup {<<e, dead[e] + 1>>}
                         /\ e.job # j => GivenUp(j)' \subseteq GivenUp(j)
<1>1. dead \in [Entry -> Nat]
  BY DEF TypeInv, RedisOK
<1>2. dead'[e] = dead[e] + 1 /\ \A d \in Entry \ {e} : dead'[d] = dead[d]
  BY <1>1 DEF Buried
<1>3. ASSUME NEW j \in Jobs, NEW x \in GivenUp(j)', x \notin GivenUp(j)
      PROVE  x = <<e, dead[e] + 1>> /\ e.job = j
  <2>1. PICK d \in Entry : d.job = j /\ \E n \in 1..dead'[d] : x = <<d, n>>
    BY <1>3 DEF GivenUp
  <2>2. PICK n \in 1..dead'[d] : x = <<d, n>>
    BY <2>1
  <2>3. n \notin 1..dead[d]
    <3>1. SUFFICES ASSUME n \in 1..dead[d] PROVE x \in GivenUp(j)
      BY <1>3
    <3>2. QED
      BY <2>1, <2>2, <3>1 DEF GivenUp
  <2>4. d = e
    BY <1>2, <2>2, <2>3
  <2>5. dead[e] \in Nat /\ n \in 1..(dead[e] + 1) /\ n \notin 1..dead[e]
    BY <1>1, <1>2, <2>2, <2>3, <2>4
  <2>6. n = dead[e] + 1
    BY <2>5
  <2>7. QED
    BY <2>1, <2>2, <2>4, <2>6
<1>4. QED
  BY <1>3

LEMMA Landing ==
  ASSUME TypeInv, CopyInv, NEW i, Lands(i), NEW j \in Jobs
  PROVE  /\ IsFiniteSet(Spots(j)') /\ IsFiniteSet(GivenUp(j)')
         /\ Stored(j) \in Nat /\ Stored(j)' \in Nat
         /\ Stored(j)' <= Stored(j) + 1
         /\ i # j \/ UNCHANGED <<queue, dead>> => Stored(j)' <= Stored(j)
<1>1. IsFiniteSet(Spots(j)) /\ IsFiniteSet(GivenUp(j))
      /\ Cardinality(Spots(j)) \in Nat /\ Cardinality(GivenUp(j)) \in Nat
  BY FS_CardinalityType DEF CopyInv, Finite
<1>2. CASE UNCHANGED <<queue, dead>>
  <2>1. Spots(j)' = Spots(j) /\ GivenUp(j)' = GivenUp(j)
    BY <1>2 DEF Spots, GivenUp
  <2>2. QED
    BY <1>1, <2>1 DEF Stored
<1>3. ASSUME NEW t \in Lists, NEW e \in Entry, e.job = i, LPush(t, e), dead' = dead
      PROVE  /\ IsFiniteSet(Spots(j)') /\ IsFiniteSet(GivenUp(j)')
             /\ Stored(j) \in Nat /\ Stored(j)' \in Nat
             /\ Stored(j)' <= Stored(j) + 1
             /\ i # j => Stored(j)' <= Stored(j)
  <2>1. GivenUp(j)' = GivenUp(j)
    BY <1>3 DEF GivenUp
  <2>2. /\ Spots(j)' \subseteq Spots(j) \cup {<<t, Len(queue[t]) + 1>>}
        /\ i # j => Spots(j)' \subseteq Spots(j)
    BY <1>3, SpotsGrow
  <2>3. IsFiniteSet(Spots(j)') /\ Cardinality(Spots(j)') \in Nat
        /\ Cardinality(Spots(j)') <= Cardinality(Spots(j)) + 1
    BY <1>1, <2>2, Gains
  <2>4. i # j => Cardinality(Spots(j)') <= Cardinality(Spots(j))
    BY <1>1, <2>2, Shrinks
  <2>5. QED
    BY <1>1, <2>1, <2>3, <2>4 DEF Stored
<1>4. ASSUME NEW e \in Entry, e.job = i, dead' = Buried(e), queue' = queue
      PROVE  /\ IsFiniteSet(Spots(j)') /\ IsFiniteSet(GivenUp(j)')
             /\ Stored(j) \in Nat /\ Stored(j)' \in Nat
             /\ Stored(j)' <= Stored(j) + 1
             /\ i # j => Stored(j)' <= Stored(j)
  <2>1. Spots(j)' = Spots(j)
    BY <1>4 DEF Spots
  <2>2. /\ GivenUp(j)' \subseteq GivenUp(j) \cup {<<e, dead[e] + 1>>}
        /\ i # j => GivenUp(j)' \subseteq GivenUp(j)
    BY <1>4, GraveGrows
  <2>3. IsFiniteSet(GivenUp(j)') /\ Cardinality(GivenUp(j)') \in Nat
        /\ Cardinality(GivenUp(j)') <= Cardinality(GivenUp(j)) + 1
    BY <1>1, <2>2, Gains
  <2>4. i # j => Cardinality(GivenUp(j)') <= Cardinality(GivenUp(j))
    BY <1>1, <2>2, Shrinks
  <2>5. QED
    BY <1>1, <2>1, <2>3, <2>4 DEF Stored
<1>5. CASE UNCHANGED <<queue, dead>> \/ i = j
  BY <1>2, <1>3, <1>4, <1>5 DEF Lands
<1>6. CASE i # j
  BY <1>2, <1>3, <1>4, <1>6 DEF Lands
<1>7. QED
  BY <1>2, <1>5, <1>6

\* The four numbers of one job, as naturals.
LEMMA Weighed ==
  ASSUME TypeInv, CopyInv, NEW j \in Jobs
  PROVE  /\ IsFiniteSet(Spots(j)) /\ IsFiniteSet(Owed(j)) /\ IsFiniteSet(GivenUp(j))
         /\ IsFiniteSet(Pushers(j))
         /\ Stored(j) \in Nat /\ Cardinality(Owed(j)) \in Nat
         /\ Cardinality(Pushers(j)) \in Nat /\ Cardinality(Spots(j)) \in Nat
         /\ Cardinality(GivenUp(j)) \in Nat /\ redisErrors \in Nat
         /\ Stored(j) + Cardinality(Owed(j)) + Cardinality(Pushers(j)) <= 1 + redisErrors
<1>1. IsFiniteSet(Pushers(j))
  BY FewWorkers DEF Pushers
<1>2. IsFiniteSet(Spots(j)) /\ IsFiniteSet(Owed(j)) /\ IsFiniteSet(GivenUp(j))
      /\ Weight(j) <= 1 + redisErrors /\ redisErrors \in Nat
  BY DEF CopyInv, Finite, TypeInv, RedisOK
<1>3. Cardinality(Spots(j)) \in Nat /\ Cardinality(Owed(j)) \in Nat
      /\ Cardinality(Pushers(j)) \in Nat /\ Cardinality(GivenUp(j)) \in Nat
  BY <1>1, <1>2, FS_CardinalityType
<1>4. QED
  BY <1>1, <1>2, <1>3 DEF Weight, Stored

\* The same after a step, from what became of each number.
LEMMA Balance ==
  ASSUME TypeInv', NEW j \in Jobs,
         IsFiniteSet(Spots(j)'), IsFiniteSet(Owed(j)'), IsFiniteSet(GivenUp(j)'),
         Stored(j)' + Cardinality(Owed(j)') + Cardinality(Pushers(j)') <= 1 + redisErrors'
  PROVE  (Finite(j) /\ Weight(j) <= 1 + redisErrors)'
<1>1. IsFiniteSet(Pushers(j)')
  BY FewWorkers DEF Pushers
<1>2. Cardinality(Spots(j)') \in Nat /\ Cardinality(Owed(j)') \in Nat
      /\ Cardinality(Pushers(j)') \in Nat /\ Cardinality(GivenUp(j)') \in Nat
  BY <1>1, FS_CardinalityType
<1>3. QED
  BY <1>2 DEF Finite, Weight, Stored

-----------------------------------------------------------------------------
(* The steps *)

\* Nothing is stored, no worker starts to owe an entry or to carry one.
LEMMA NothingGrows ==
  ASSUME TypeInv, CopyInv, TypeInv', NEW w \in Workers, NEW f, Step(w, f),
         UNCHANGED <<queue, dead>>, redisErrors' >= redisErrors,
         \A t \in Lists, e \in Entry : /\ processing'[t][e] <= processing[t][e]
                                       /\ Holds(f, t, e) => Holds(worker[w], t, e),
         f.at # "push"
  PROVE  CopyInv'
<1> SUFFICES ASSUME NEW j \in Jobs PROVE (Finite(j) /\ Weight(j) <= 1 + redisErrors)'
  BY DEF CopyInv
<1>1. \A t \in Lists, e \in Entry : Holders(t, e)' \subseteq Holders(t, e)
  BY WorkersMove
<1>2. Owed(j)' \subseteq Owed(j)
  BY <1>1, OwedShrinks
<1>3. Pushers(j)' \subseteq Pushers(j)
  BY WorkersMove DEF Pushes
<1>4. IsFiniteSet(Spots(j)') /\ IsFiniteSet(GivenUp(j)') /\ Stored(j)' \in Nat
      /\ Stored(j)' <= Stored(j)
  BY Landing DEF Lands
<1>5. IsFiniteSet(Owed(j)') /\ Cardinality(Owed(j)') \in Nat
      /\ Cardinality(Owed(j)') <= Cardinality(Owed(j))
  BY <1>2, Weighed, Shrinks
<1>6. Cardinality(Pushers(j)') \in Nat /\ Cardinality(Pushers(j)') <= Cardinality(Pushers(j))
  BY <1>3, Weighed, Shrinks
<1>7. redisErrors' \in Nat
  BY DEF TypeInv, RedisOK
<1>8. Stored(j)' + Cardinality(Owed(j)') + Cardinality(Pushers(j)') <= 1 + redisErrors'
  BY <1>4, <1>5, <1>6, <1>7, Weighed
<1>9. QED
  BY <1>4, <1>5, <1>8, Balance

\* A push stores the carried copy, and a failed command lets the worker owe it again.
LEMMA OneStored ==
  ASSUME TypeInv, CopyInv, TypeInv', NEW w \in Workers, NEW f, Step(w, f),
         worker[w].held \in Entry, worker[w].tenant \in Lists,
         \/ UNCHANGED <<queue, dead>>
         \/ worker[w].at = "push" /\ Lands(worker[w].held.job),
         processing' = processing, redisErrors' >= redisErrors,
         f.at # "push",
         \/ \A t \in Lists, e \in Entry : ~Holds(f, t, e)
         \/ /\ f.at = "remove" /\ f.tenant = worker[w].tenant /\ f.held = worker[w].held
            /\ redisErrors' = redisErrors + 1
  PROVE  CopyInv'
<1> SUFFICES ASSUME NEW j \in Jobs PROVE (Finite(j) /\ Weight(j) <= 1 + redisErrors)'
  BY DEF CopyInv
<1> PICK t \in Lists, e \in Entry : t = worker[w].tenant /\ e = worker[w].held
  OBVIOUS
<1>1. redisErrors' \in Nat /\ redisErrors \in Nat
      /\ \A s \in Lists, d \in Entry : processing[s][d] \in Nat
  BY DEF TypeInv, RedisOK
<1>2. Lands(e.job)
  BY DEF Lands
<1>3. /\ IsFiniteSet(Spots(j)') /\ IsFiniteSet(GivenUp(j)') /\ Stored(j)' \in Nat
      /\ Stored(j)' <= Stored(j) + 1
      /\ e.job # j \/ UNCHANGED <<queue, dead>> => Stored(j)' <= Stored(j)
  BY <1>2, Landing
<1>4. Pushers(j)' \subseteq Pushers(j) \ {w} /\ IsFiniteSet(Pushers(j))
  BY WorkersMove, Weighed DEF Pushes
<1>5. Cardinality(Pushers(j)') \in Nat /\ Cardinality(Pushers(j)') <= Cardinality(Pushers(j))
  BY <1>4, Shrinks
<1>6. worker[w].at = "push" /\ e.job = j
        => Cardinality(Pushers(j)') + 1 <= Cardinality(Pushers(j))
  <2> SUFFICES ASSUME worker[w].at = "push", e.job = j
               PROVE  Cardinality(Pushers(j)') + 1 <= Cardinality(Pushers(j))
    OBVIOUS
  <2>1. w \in Pushers(j)
    BY DEF Pushers, Pushes
  <2>2. QED
    BY <1>4, <2>1, Drops
<1>7. Stored(j)' + Cardinality(Pushers(j)') <= Stored(j) + Cardinality(Pushers(j))
  <2>1. Stored(j) \in Nat /\ Cardinality(Pushers(j)) \in Nat
    BY Weighed
  <2>2. CASE e.job = j /\ worker[w].at = "push"
    BY <1>3, <1>5, <1>6, <2>1, <2>2
  <2>3. CASE ~(e.job = j /\ worker[w].at = "push")
    BY <1>3, <1>5, <2>1, <2>3
  <2>4. QED
    BY <2>2, <2>3
<1>8. CASE \A s \in Lists, d \in Entry : ~Holds(f, s, d)
  <2>1. \A s \in Lists, d \in Entry : /\ processing'[s][d] <= processing[s][d]
                                     /\ Holders(s, d)' \subseteq Holders(s, d)
    BY <1>1, <1>8, WorkersMove
  <2>2. Owed(j)' \subseteq Owed(j)
    BY <2>1, OwedShrinks
  <2>3. IsFiniteSet(Owed(j)') /\ Cardinality(Owed(j)') \in Nat
        /\ Cardinality(Owed(j)') <= Cardinality(Owed(j))
    BY <2>2, Weighed, Shrinks
  <2>4. Stored(j)' + Cardinality(Owed(j)') + Cardinality(Pushers(j)') <= 1 + redisErrors'
    BY <1>1, <1>3, <1>5, <1>7, <2>3, Weighed
  <2>5. QED
    BY <1>3, <2>3, <2>4, Balance
<1>9. CASE f.at = "remove" /\ f.tenant = t /\ f.held = e /\ redisErrors' = redisErrors + 1
  <2>1. \A s \in Lists, d \in Entry :
          s # t \/ d # e => /\ processing'[s][d] <= processing[s][d]
                            /\ Holders(s, d)' \subseteq Holders(s, d)
    BY <1>1, <1>9, WorkersMove DEF Holds
  <2>2. processing'[t][e] <= processing[t][e] + 1
        /\ Holders(t, e)' \subseteq Holders(t, e) \cup {w}
    <3>1. processing'[t][e] = processing[t][e] /\ processing[t][e] \in Nat
      BY <1>1
    <3>2. QED
      BY <3>1, WorkersMove
  <2>3. Owed(j)' \subseteq Owed(j) \cup {<<t, e, Marks(t, e) + 1>>}
    BY <2>1, <2>2, OwedGrows
  <2>4. IsFiniteSet(Owed(j)') /\ Cardinality(Owed(j)') \in Nat
        /\ Cardinality(Owed(j)') <= Cardinality(Owed(j)) + 1
    BY <2>3, Weighed, Gains
  <2>5. Stored(j)' + Cardinality(Owed(j)') + Cardinality(Pushers(j)') <= 1 + redisErrors'
    BY <1>1, <1>3, <1>5, <1>7, <1>9, <2>4, Weighed
  <2>6. QED
    BY <1>3, <2>4, <2>5, Balance
<1>10. QED
  BY <1>8, <1>9

\* LREM, answered: the worker owes one removal less and carries the job.
LEMMA RemovedOnce ==
  ASSUME TypeInv, CopyInv, TypeInv', NEW w \in Workers, NEW f, Step(w, f),
         NEW t \in Lists, NEW e \in Entry, Holds(worker[w], t, e), LRem(t, e),
         f.at = "push", f.held = e, UNCHANGED <<queue, dead>>, redisErrors' = redisErrors
  PROVE  CopyInv'
<1> SUFFICES ASSUME NEW j \in Jobs PROVE (Finite(j) /\ Weight(j) <= 1 + redisErrors)'
  BY DEF CopyInv
<1>1. /\ processing'[t][e] = IF processing[t][e] > 0 THEN processing[t][e] - 1 ELSE 0
      /\ \A s \in Lists, d \in Entry :
           s # t \/ d # e => processing'[s][d] = processing[s][d]
      /\ \A s \in Lists, d \in Entry : processing[s][d] \in Nat
  BY DEF TypeInv, RedisOK, LRem
<1>2. w \in Holders(t, e) /\ \A s \in Lists, d \in Entry : ~Holds(f, s, d)
  BY DEF Holders, Holds
<1>3. \A s \in Lists, d \in Entry : Holders(s, d)' \subseteq Holders(s, d) \ {w}
  BY <1>2, WorkersMove
<1>4. \A s \in Lists, d \in Entry :
        s # t \/ d # e => /\ processing'[s][d] <= processing[s][d]
                          /\ Holders(s, d)' \subseteq Holders(s, d)
  BY <1>1, <1>3
<1>5. /\ Owed(j)' \subseteq Owed(j)
      /\ e.job = j => /\ <<t, e, Marks(t, e)>> \in Owed(j)
                      /\ Owed(j)' \subseteq Owed(j) \ {<<t, e, Marks(t, e)>>}
  BY <1>1, <1>2, <1>3, <1>4, OwedDrops
<1>6. IsFiniteSet(Owed(j)') /\ Cardinality(Owed(j)') \in Nat
      /\ Cardinality(Owed(j)') <= Cardinality(Owed(j))
  BY <1>5, Weighed, Shrinks
<1>7. e.job = j => Cardinality(Owed(j)') + 1 <= Cardinality(Owed(j))
  BY <1>5, Weighed, Drops
<1>8. /\ Pushers(j)' \subseteq Pushers(j) \cup {w}
      /\ e.job # j => Pushers(j)' \subseteq Pushers(j)
  BY WorkersMove DEF Pushes
<1>9. Cardinality(Pushers(j)') \in Nat /\ Cardinality(Pushers(j)') <= Cardinality(Pushers(j)) + 1
  BY <1>8, Weighed, Gains
<1>10. e.job # j => Cardinality(Pushers(j)') <= Cardinality(Pushers(j))
  BY <1>8, Weighed, Shrinks
<1>11. IsFiniteSet(Spots(j)') /\ IsFiniteSet(GivenUp(j)') /\ Stored(j)' \in Nat
       /\ Stored(j)' <= Stored(j)
  BY Landing DEF Lands
<1>12. Stored(j)' + Cardinality(Owed(j)') + Cardinality(Pushers(j)') <= 1 + redisErrors'
  <2>1. CASE e.job = j
    BY <1>6, <1>7, <1>9, <1>11, <2>1, Weighed
  <2>2. CASE e.job # j
    BY <1>6, <1>10, <1>9, <1>11, <2>2, Weighed
  <2>3. QED
    BY <2>1, <2>2
<1>13. QED
  BY <1>6, <1>11, <1>12, Balance

\* RPOPLPUSH, seen by its worker or not: one place less in the list, one entry more.
LEMMA Popped ==
  ASSUME TypeInv, CopyInv, TypeInv', NEW w \in Workers, NEW f, Step(w, f),
         NEW t \in Lists, queue[t] # <<>>, RPopLPush(t), dead' = dead,
         redisErrors' >= redisErrors, f.at # "push",
         \A s \in Lists, d \in Entry : Holds(f, s, d) => s = t /\ d = Head(queue[t])
  PROVE  CopyInv'
<1> SUFFICES ASSUME NEW j \in Jobs PROVE (Finite(j) /\ Weight(j) <= 1 + redisErrors)'
  BY DEF CopyInv
<1>1. Head(queue[t]) \in Entry /\ redisErrors' \in Nat /\ redisErrors \in Nat
  BY PopType DEF TypeInv, RedisOK
<1> PICK e \in Entry : e = Head(queue[t])
  BY <1>1
<1>2. /\ processing'[t][e] = processing[t][e] + 1
      /\ \A s \in Lists, d \in Entry :
           s # t \/ d # e => processing'[s][d] = processing[s][d]
      /\ \A s \in Lists, d \in Entry : processing[s][d] \in Nat
  BY DEF TypeInv, RedisOK, RPopLPush
<1>3. \A s \in Lists, d \in Entry :
        s # t \/ d # e => /\ processing'[s][d] <= processing[s][d]
                          /\ Holders(s, d)' \subseteq Holders(s, d)
  BY <1>2, WorkersMove
<1>4. processing'[t][e] <= processing[t][e] + 1
      /\ Holders(t, e)' \subseteq Holders(t, e) \cup {w}
  <2>1. processing'[t][e] = processing[t][e] + 1 /\ processing[t][e] \in Nat
    BY <1>2
  <2>2. QED
    BY <2>1, WorkersMove
<1>5. /\ Owed(j)' \subseteq Owed(j) \cup {<<t, e, Marks(t, e) + 1>>}
      /\ e.job # j => Owed(j)' \subseteq Owed(j)
  BY <1>3, <1>4, OwedGrows
<1>6. IsFiniteSet(Owed(j)') /\ Cardinality(Owed(j)') \in Nat
      /\ Cardinality(Owed(j)') <= Cardinality(Owed(j)) + 1
  BY <1>5, Weighed, Gains
<1>7. e.job # j => Cardinality(Owed(j)') <= Cardinality(Owed(j))
  BY <1>5, Weighed, Shrinks
<1>8. /\ IsFiniteSet(Spots(j)') /\ Cardinality(Spots(j)') <= Cardinality(Spots(j))
      /\ e.job = j => Cardinality(Spots(j)') + 1 <= Cardinality(Spots(j))
      /\ Cardinality(Spots(j)') \in Nat
  BY Weighed, SpotsPop, FS_CardinalityType
<1>9. GivenUp(j)' = GivenUp(j)
  BY DEF GivenUp
<1>10. Cardinality(Pushers(j)') \in Nat /\ Cardinality(Pushers(j)') <= Cardinality(Pushers(j))
  <2>1. Pushers(j)' \subseteq Pushers(j)
    BY WorkersMove DEF Pushes
  <2>2. QED
    BY <2>1, Weighed, Shrinks
<1>11. Cardinality(Spots(j)) + Cardinality(GivenUp(j)) + Cardinality(Owed(j))
       + Cardinality(Pushers(j)) <= 1 + redisErrors
  BY Weighed DEF Stored
<1>12. /\ Cardinality(Spots(j)) \in Nat /\ Cardinality(GivenUp(j)) \in Nat
       /\ Cardinality(Owed(j)) \in Nat /\ Cardinality(GivenUp(j)') = Cardinality(GivenUp(j))
       /\ Cardinality(Pushers(j)) \in Nat
  BY <1>9, Weighed
<1>13. Cardinality(Spots(j)') + Cardinality(GivenUp(j)') + Cardinality(Owed(j)')
       + Cardinality(Pushers(j)') <= 1 + redisErrors'
  <2>1. CASE e.job = j
    BY <1>1, <1>6, <1>8, <1>10, <1>11, <1>12, <2>1
  <2>2. CASE e.job # j
    BY <1>1, <1>6, <1>7, <1>8, <1>10, <1>11, <1>12, <2>2
  <2>3. QED
    BY <2>1, <2>2
<1>14. IsFiniteSet(GivenUp(j)')
  BY <1>9, Weighed
<1>15. QED
  BY <1>6, <1>8, <1>13, <1>14, Balance DEF Stored

\* A producer pushes a job there is no copy of.
LEMMA Enqueued ==
  ASSUME TypeInv, CopyInv, TypeInv', NEW i \in Jobs, Gone(i), Lands(i),
         UNCHANGED <<worker, processing>>, redisErrors' >= redisErrors
  PROVE  CopyInv'
<1> SUFFICES ASSUME NEW j \in Jobs PROVE (Finite(j) /\ Weight(j) <= 1 + redisErrors)'
  BY DEF CopyInv
<1>1. redisErrors' \in Nat /\ redisErrors \in Nat
  BY DEF TypeInv, RedisOK
<1>2. /\ IsFiniteSet(Spots(j)') /\ IsFiniteSet(GivenUp(j)') /\ Stored(j)' \in Nat
      /\ Stored(j)' <= Stored(j) + 1
      /\ i # j => Stored(j)' <= Stored(j)
  BY Landing
<1>3. Owed(j)' = Owed(j) /\ Pushers(j)' = Pushers(j)
  BY DEF Owed, Marks, Holders, Pushers
<1>4. CASE i # j
  <2>1. Stored(j)' + Cardinality(Owed(j)') + Cardinality(Pushers(j)') <= 1 + redisErrors'
    BY <1>1, <1>2, <1>3, <1>4, Weighed
  <2>2. QED
    BY <1>2, <1>3, <2>1, Weighed, Balance
<1>5. CASE i = j
  <2>1. Spots(j) = {} /\ GivenUp(j) = {}
    BY <1>5 DEF Gone, InQueue, Spots, GivenUp
  <2>2. \A w \in Workers : worker[w].at \in {"handling", "ack", "remove", "push"}
                            => worker[w].held \in Entry /\ worker[w].held.job # j
    BY <1>5 DEF Gone, WithWorker, TypeInv, Locals, Local, Entry
  <2>3. Pushers(j) = {}
    BY <2>2 DEF Pushers, Pushes
  <2>4. ASSUME NEW t \in Lists, NEW e \in Entry, e.job = j PROVE Marks(t, e) = 0
    <3>1. Holders(t, e) = {}
      BY <2>2, <2>4 DEF Holders, Holds
    <3>2. ~(processing[t][e] > 0) /\ processing[t][e] \in Nat
      BY <1>5, <2>4 DEF Gone, InProcessing, TypeInv, RedisOK
    <3>3. Cardinality(Holders(t, e)) = 0
      BY <3>1, FS_EmptySet
    <3>4. QED
      BY <3>2, <3>3 DEF Marks
  <2>5. Owed(j) = {}
    BY <2>4 DEF Owed
  <2>6. Stored(j) = 0 /\ Cardinality(Owed(j)) = 0 /\ Cardinality(Pushers(j)) = 0
    BY <2>1, <2>3, <2>5, FS_EmptySet DEF Stored
  <2>7. Stored(j)' + Cardinality(Owed(j)') + Cardinality(Pushers(j)') <= 1 + redisErrors'
    BY <1>1, <1>2, <1>3, <2>6
  <2>8. QED
    BY <1>2, <1>3, <2>7, Weighed, Balance
<1>6. QED
  BY <1>4, <1>5

-----------------------------------------------------------------------------
(* The actions *)

LEMMA ProducerCopies ==
  ASSUME TypeInv, CopyInv, TypeInv', NEW j \in Jobs, NEW reply \in Replies,
         \/ Register(j, reply) \/ EnqueueBase(j, reply)
         \/ \E t \in Tenants : EnqueueFair(j, t, reply)
  PROVE  CopyInv'
<1>1. UNCHANGED <<worker, processing, dead>> /\ redisErrors' >= redisErrors
  BY ReplyType DEF Register, EnqueueBase, EnqueueFair, TypeInv
<1>2. CASE Register(j, reply)
  <2>1. queue' = queue
    BY <1>2 DEF Register
  <2>2. ASSUME NEW i \in Jobs PROVE (Finite(i) /\ Weight(i) <= 1 + redisErrors)'
    <3>1. Owed(i)' = Owed(i) /\ Pushers(i)' = Pushers(i)
          /\ Spots(i)' = Spots(i) /\ GivenUp(i)' = GivenUp(i)
      BY <1>1, <2>1 DEF Owed, Marks, Holders, Pushers, Spots, GivenUp
    <3>2. Stored(i)' = Stored(i)
      BY <3>1 DEF Stored
    <3>3. redisErrors' \in Nat
      BY DEF TypeInv, RedisOK
    <3>4. Stored(i)' + Cardinality(Owed(i)') + Cardinality(Pushers(i)') <= 1 + redisErrors'
      BY <1>1, <3>1, <3>2, <3>3, Weighed
    <3>5. QED
      BY <3>1, <3>4, Weighed, Balance
  <2>3. QED
    BY <2>2 DEF CopyInv
<1>3. CASE EnqueueBase(j, reply) \/ \E t \in Tenants : EnqueueFair(j, t, reply)
  <2>1. Gone(j) /\ Lands(j)
    BY <1>1, <1>3, NewEntry, NamesApart DEF EnqueueBase, EnqueueFair, Lands
  <2>2. QED
    BY <1>1, <2>1, Enqueued
<1>4. QED
  BY <1>2, <1>3

LEMMA PollCopies ==
  ASSUME TypeInv, CopyInv, TypeInv', NEW w \in Workers,
         \/ \E t \in Tenants : Pick(w, t)
         \/ FallBack(w) \/ Pop(w) \/ Unregister(w)
         \/ \E reply \in Replies : PollFails(w, reply)
  PROVE  CopyInv'
<1> USE NamesApart
<1>1. Local(worker[w]) /\ worker[w] \in Worker /\ dead' = dead /\ RedisOK
      /\ redisErrors \in Nat
      /\ \A s \in Lists, d \in Entry : processing[s][d] \in Nat
  <2>1. dead' = dead
    BY DEF Pick, FallBack, Pop, Unregister, PollFails, redis
  <2>2. QED
    BY <2>1 DEF TypeInv, RedisOK, Locals, Local
<1>2. redisErrors' >= redisErrors
  <2>1. CASE redisErrors' = redisErrors
    BY <1>1, <2>1
  <2>2. ASSUME NEW reply \in Replies, PollFails(w, reply) PROVE redisErrors' >= redisErrors
    BY <1>1, <2>2, ReplyType DEF PollFails
  <2>3. QED
    BY <2>1, <2>2 DEF Pick, FallBack, Pop, Unregister
<1>3. CASE queue[worker[w].tenant] # <<>> /\ RPopLPush(worker[w].tenant)
           /\ worker[w].at \in {"pop", "base"}
  <2> PICK t \in Lists : t = worker[w].tenant
    BY <1>1, <1>3 DEF Local
  <2>1. PICK f : /\ Step(w, f) /\ f.at # "push"
                 /\ \A s \in Lists, d \in Entry : Holds(f, s, d) => s = t /\ d = Head(queue[t])
    <3>1. CASE Step(w, Fresh("idle"))
      BY <3>1, FreshLocal DEF Holds
    <3>2. CASE Pop(w)
      <4> DEFINE f == [worker[w] EXCEPT !.at = "handling", !.held = Head(queue[t])]
      <4>1. f.at = "handling" /\ f.tenant = t /\ f.held = Head(queue[t])
        BY <1>1 DEF Worker
      <4>2. Step(w, f)
        BY <1>3, <3>2 DEF Pop
      <4> HIDE DEF f
      <4>3. QED
        BY <4>1, <4>2 DEF Holds
    <3>3. QED
      BY <1>3, <3>1, <3>2 DEF Pick, FallBack, Unregister, PollFails
  <2>2. QED
    BY <1>1, <1>2, <1>3, <2>1, Popped
<1>4. CASE UNCHANGED <<queue, processing>>
  <2>1. PICK f : /\ Step(w, f) /\ f.at # "push"
                 /\ \A s \in Lists, d \in Entry : Holds(f, s, d) => Holds(worker[w], s, d)
    <3>1. CASE Step(w, Fresh("idle"))
      BY <3>1, FreshLocal DEF Holds
    <3>2. ASSUME NEW t \in Tenants, Pick(w, t)
          PROVE  \E f : /\ Step(w, f) /\ f.at # "push"
                        /\ \A s \in Lists, d \in Entry : Holds(f, s, d) => Holds(worker[w], s, d)
      <4> DEFINE f == [worker[w] EXCEPT !.at = "pop", !.tenant = t]
      <4>1. f.at = "pop" /\ Step(w, f)
        BY <1>1, <3>2 DEF Worker, Pick
      <4> HIDE DEF f
      <4>2. QED
        BY <4>1 DEF Holds
    <3>3. CASE FallBack(w)
      <4> DEFINE f == [worker[w] EXCEPT !.at = "base", !.tenant = Base]
      <4>1. f.at = "base" /\ Step(w, f)
        BY <1>1, <3>3 DEF Worker, FallBack
      <4> HIDE DEF f
      <4>2. QED
        BY <4>1 DEF Holds
    <3>4. CASE Pop(w)
      <4>1. CASE queue[worker[w].tenant] = <<>>
        <5> DEFINE f == [worker[w] EXCEPT !.at = "unregister"]
        <5>1. f.at = "unregister" /\ (Step(w, f) \/ Step(w, Fresh("idle")))
          BY <1>1, <3>4, <4>1 DEF Worker, Pop
        <5> HIDE DEF f
        <5>2. QED
          BY <3>1, <5>1 DEF Holds
      <4>2. CASE queue[worker[w].tenant] # <<>>
        <5> PICK t \in Lists : t = worker[w].tenant
          BY <1>1, <3>4 DEF Local, Pop
        <5>1. queue[t] \in Seq(Entry) /\ queue'[t] = Tail(queue[t]) /\ queue[t] # <<>>
          BY <1>1, <3>4, <4>2 DEF Pop, RPopLPush, RedisOK
        <5>2. queue'[t] # queue[t]
          <6>1. Len(Tail(queue[t])) = Len(queue[t]) - 1 /\ Len(queue[t]) \in Nat
            BY <5>1
          <6>2. Len(queue'[t]) # Len(queue[t])
            BY <5>1, <6>1
          <6>3. QED
            BY <6>2
        <5>3. QED
          BY <1>4, <5>2
      <4>3. QED
        BY <4>1, <4>2
    <3>5. CASE Unregister(w)
      <4> DEFINE f == [Fresh("idle") EXCEPT !.left = worker[w].left - 1]
      <4>1. f.at = "idle" /\ Step(w, f)
        BY <3>5 DEF Fresh, Unregister
      <4> HIDE DEF f
      <4>2. QED
        BY <4>1 DEF Holds
    <3>6. QED
      BY <3>1, <3>2, <3>3, <3>4, <3>5 DEF PollFails
  <2>2. \A s \in Lists, d \in Entry : processing'[s][d] <= processing[s][d]
    BY <1>1, <1>4
  <2>3. QED
    BY <1>1, <1>2, <1>4, <2>1, <2>2, NothingGrows
<1>5. QED
  BY <1>3, <1>4 DEF Pick, FallBack, Pop, Unregister, PollFails, redis

\* The handler's outcome keeps the entry with its worker; a crash or a restart drops it.
LEMMA HandleCopies ==
  ASSUME TypeInv, CopyInv, TypeInv', NEW w \in Workers,
         Crash(w) \/ Restart(w) \/ \E outcome \in Outcomes : Handle(w, outcome)
  PROVE  CopyInv'
<1>1. Local(worker[w]) /\ UNCHANGED <<queue, processing, dead, redisErrors>>
      /\ redisErrors' >= redisErrors
  <2>1. UNCHANGED <<queue, processing, dead, redisErrors>>
    BY DEF Crash, Restart, Handle, redis
  <2>2. Local(worker[w]) /\ redisErrors \in Nat
    BY DEF TypeInv, RedisOK, Locals
  <2>3. QED
    BY <2>1, <2>2
<1>2. PICK f : /\ Step(w, f) /\ f.at # "push"
               /\ \A s \in Lists, d \in Entry : Holds(f, s, d) => Holds(worker[w], s, d)
  <2>1. CASE Crash(w) \/ Restart(w)
    BY <2>1, FreshLocal DEF Crash, Restart, Holds
  <2>2. ASSUME NEW outcome \in Outcomes, Handle(w, outcome)
        PROVE  \E f : /\ Step(w, f) /\ f.at # "push"
                      /\ \A s \in Lists, d \in Entry : Holds(f, s, d) => Holds(worker[w], s, d)
    <3>1. worker[w].at = "handling" /\ worker[w].held \in Entry /\ worker[w].tenant \in Lists
      BY <1>1, <2>2 DEF Handle, Local
    <3>2. LET f == Goto(w, "ack")
          IN  f.at = "ack" /\ f.held = worker[w].held /\ f.tenant = worker[w].tenant
      BY <1>1, <3>1, GotoLocal
    <3>3. \A limit \in {0, MaxRetries}, inCatch \in BOOLEAN :
            LET f == Failed(w, limit, inCatch)
            IN  f.at = "remove" /\ f.held = worker[w].held /\ f.tenant = worker[w].tenant
      BY <1>1, <3>1, FailedLocal DEF FairQueueAssumption
    <3>4. PICK f : Step(w, f) /\ f.at \in {"ack", "remove"} /\ f.held = worker[w].held
                   /\ f.tenant = worker[w].tenant
      BY <2>2, <3>2, <3>3 DEF Handle, Outcomes, Goto
    <3>5. QED
      BY <3>1, <3>4 DEF Holds
  <2>3. QED
    BY <2>1, <2>2
<1>3. \A s \in Lists, d \in Entry : processing'[s][d] <= processing[s][d]
  BY <1>1 DEF TypeInv, RedisOK
<1>4. QED
  BY <1>1, <1>2, <1>3, NothingGrows

\* The two LREMs: the one that acknowledges, and the one before a retry.
LEMMA RemoveCopies ==
  ASSUME TypeInv, CopyInv, TypeInv', NEW w \in Workers, NEW reply \in Replies,
         Ack(w, reply) \/ Remove(w, reply)
  PROVE  CopyInv'
<1>1. RedisOK /\ Local(worker[w]) /\ worker[w].at \in {"ack", "remove"}
      /\ worker[w].held \in Entry /\ worker[w].tenant \in Lists
  BY DEF TypeInv, Locals, Local, Ack, Remove
<1> PICK t \in Lists, e \in Entry : t = worker[w].tenant /\ e = worker[w].held
  BY <1>1
<1>2. UNCHANGED <<queue, dead>> /\ redisErrors' >= redisErrors
      /\ (reply = "ok" => redisErrors' = redisErrors)
      /\ (LRem(t, e) \/ reply # "ok") /\ (LRem(t, e) \/ processing' = processing)
  BY <1>1, ReplyType DEF Ack, Remove, Applied
<1>3. \A s \in Lists, d \in Entry : processing'[s][d] <= processing[s][d]
  <2>1. \A s \in Lists, d \in Entry : processing[s][d] \in Nat
    BY <1>1 DEF RedisOK
  <2>2. CASE processing' = processing
    BY <2>1, <2>2
  <2>3. CASE LRem(t, e)
    BY <1>1, <2>1, <2>3 DEF LRem, RedisOK
  <2>4. QED
    BY <1>2, <2>2, <2>3
<1>4. Holds(worker[w], t, e)
  BY <1>1 DEF Holds
<1>5. CASE Remove(w, reply) /\ reply = "ok"
  <2>1. PICK f : Step(w, f) /\ f.at = "push" /\ f.held = e
    BY <1>1, <1>5, GotoLocal DEF Remove, Then
  <2>2. QED
    BY <1>2, <1>4, <1>5, <2>1, RemovedOnce
<1>6. CASE ~(Remove(w, reply) /\ reply = "ok")
  <2>1. PICK f : /\ Step(w, f) /\ f.at # "push"
                 /\ \A s \in Lists, d \in Entry : Holds(f, s, d) => Holds(worker[w], s, d)
    <3>1. CASE Step(w, Fresh("idle"))
      BY <3>1, FreshLocal DEF Holds
    <3>2. CASE Step(w, Rejected(w))
      BY <1>1, <3>1, <3>2, RejectedLocal DEF Holds
    <3>3. CASE Step(w, Goto(w, "count")) /\ worker[w].tenant # Base
      BY <1>1, <1>6, <3>3, GotoLocal, NamesApart DEF Holds, Ack, Remove
    <3>4. QED
      BY <1>6, <3>1, <3>2, <3>3 DEF Ack, Remove, Then
  <2>2. QED
    BY <1>2, <1>3, <2>1, NothingGrows
<1>7. QED
  BY <1>5, <1>6

\* The commands after them.
LEMMA AfterCopies ==
  ASSUME TypeInv, CopyInv, TypeInv', NEW w \in Workers, NEW reply \in Replies,
         Count(w, reply) \/ Clear(w, reply) \/ Push(w, reply) \/ Activate(w, reply)
  PROVE  CopyInv'
<1>1. RedisOK /\ Local(worker[w]) /\ worker[w].at \in {"count", "clear", "push", "activate"}
      /\ worker[w].held \in Entry /\ worker[w].tenant \in Lists
  BY NamesApart DEF TypeInv, Locals, Local, Count, Clear, Push, Activate
<1>2. processing' = processing /\ redisErrors' >= redisErrors
      /\ (reply # "ok" => redisErrors' = redisErrors + 1)
  BY <1>1, ReplyType DEF Count, Clear, Push, Activate, redis
<1>3. \/ UNCHANGED <<queue, dead>>
      \/ worker[w].at = "push" /\ Lands(worker[w].held.job)
  <2>1. CASE Count(w, reply) \/ Clear(w, reply) \/ Activate(w, reply)
    BY <2>1 DEF Count, Clear, Activate, redis
  <2>2. CASE Push(w, reply)
    <3> PICK t \in Lists, e \in Entry : t = worker[w].tenant /\ e = worker[w].held
      BY <1>1
    <3> DEFINE again == [e EXCEPT !.retry = @ + 1]
    <3>1. again.job = e.job /\ (worker[w].plan = "retry" => again \in Entry)
      BY <1>1, <2>2, AgainType DEF Push, Local
    <3>2. CASE worker[w].plan = "retry"
      <4>1. dead' = dead /\ (queue' = queue \/ LPush(t, again))
        BY <2>2, <3>2 DEF Push
      <4>2. again \in Entry
        BY <3>1, <3>2
      <4> HIDE DEF again
      <4>3. QED
        BY <2>2, <3>1, <4>1, <4>2 DEF Lands, Push
    <3>3. CASE worker[w].plan # "retry"
      <4>1. queue' = queue /\ (dead' = dead \/ dead' = Buried(e))
        BY <2>2, <3>3 DEF Push
      <4>2. QED
        BY <2>2, <4>1 DEF Lands, Push
    <3>4. QED
      BY <3>2, <3>3
  <2>3. QED
    BY <2>1, <2>2
<1>4. PICK f : /\ Step(w, f) /\ f.at # "push"
               /\ \/ \A s \in Lists, d \in Entry : ~Holds(f, s, d)
                  \/ /\ f.at = "remove" /\ f.tenant = worker[w].tenant
                     /\ f.held = worker[w].held /\ reply # "ok"
  <2>1. CASE Step(w, Fresh("idle"))
    BY <2>1, FreshLocal DEF Holds
  <2>2. CASE Step(w, Rejected(w)) /\ reply # "ok"
    BY <1>1, <2>1, <2>2, RejectedLocal
  <2>3. ASSUME NEW state \in {"clear", "activate"}, Step(w, Goto(w, state)),
               worker[w].tenant \in Tenants, worker[w].at \in {"count", "push"}
        PROVE  \E f : /\ Step(w, f) /\ f.at # "push"
                      /\ \A s \in Lists, d \in Entry : ~Holds(f, s, d)
    BY <1>1, <2>3, GotoLocal DEF Holds
  <2>4. CASE reply # "ok"
    BY <2>2, <2>4 DEF Count, Clear, Push, Activate, Then
  <2>5. CASE reply = "ok" /\ Count(w, reply)
    <3>1. worker[w].tenant \in Tenants
      BY <1>1, <2>5 DEF Count, Local
    <3>2. QED
      BY <2>1, <2>3, <2>5, <3>1 DEF Count, Then
  <2>6. CASE reply = "ok" /\ Push(w, reply)
    BY <1>1, <2>1, <2>3, <2>6, NamesApart DEF Push, Then
  <2>7. CASE reply = "ok" /\ (Clear(w, reply) \/ Activate(w, reply))
    BY <2>1, <2>7 DEF Clear, Activate, Then
  <2>8. QED
    BY <2>4, <2>5, <2>6, <2>7
<1>5. QED
  BY <1>1, <1>2, <1>3, <1>4, OneStored

LEMMA CopyInit == Init => CopyInv
<1> SUFFICES ASSUME Init, NEW j \in Jobs PROVE Finite(j) /\ Weight(j) <= 1 + redisErrors
  BY DEF CopyInv
<1>1. Spots(j) = {} /\ GivenUp(j) = {}
  BY DEF Init, Spots, GivenUp
<1>2. \A w \in Workers : worker[w].at = "idle"
  BY FreshLocal DEF Init
<1>3. Pushers(j) = {} /\ \A t \in Lists, e \in Entry : Holders(t, e) = {}
  BY <1>2 DEF Pushers, Pushes, Holders, Holds
<1>4. \A t \in Lists, e \in Entry : Marks(t, e) = 0
  BY <1>3, FS_EmptySet DEF Init, Marks
<1>5. Owed(j) = {}
  BY <1>4 DEF Owed
<1>6. redisErrors = 0
  BY DEF Init
<1>7. QED
  BY <1>1, <1>3, <1>5, <1>6, FS_EmptySet DEF Finite, Weight

LEMMA NextCopies == TypeInv /\ CopyInv /\ [Next]_vars => CopyInv'
<1> SUFFICES ASSUME TypeInv, CopyInv, [Next]_vars PROVE CopyInv'
  OBVIOUS
<1>1. TypeInv'
  BY NextType
<1>2. CASE UNCHANGED vars
  <2>1. UNCHANGED <<queue, processing, dead, worker, redisErrors>>
    BY <1>2 DEF vars, redis
  <2>2. \A t \in Lists, e \in Entry : Marks(t, e)' = Marks(t, e)
    BY <2>1 DEF Marks, Holders
  <2>3. \A j : /\ Spots(j)' = Spots(j) /\ Pushers(j)' = Pushers(j)
               /\ GivenUp(j)' = GivenUp(j)
    BY <2>1 DEF Spots, Pushers, GivenUp
  <2>4. \A j : Owed(j)' = Owed(j)
    BY <2>2 DEF Owed
  <2>5. QED
    BY <2>1, <2>3, <2>4 DEF CopyInv, Finite, Weight
<1>3. ASSUME NEW j \in Jobs, NEW reply \in Replies,
             \/ Register(j, reply) \/ EnqueueBase(j, reply)
             \/ \E t \in Tenants : EnqueueFair(j, t, reply)
      PROVE  CopyInv'
  BY <1>1, <1>3, ProducerCopies
<1>4. ASSUME NEW w \in Workers,
             \/ \E t \in Tenants : Pick(w, t)
             \/ FallBack(w) \/ Pop(w) \/ Unregister(w)
             \/ \E outcome \in Outcomes : Handle(w, outcome)
             \/ \E reply \in Replies : Finish(w, reply) \/ PollFails(w, reply)
             \/ Crash(w) \/ Restart(w)
      PROVE  CopyInv'
  BY <1>1, <1>4, PollCopies, HandleCopies, RemoveCopies, AfterCopies DEF Finish
<1>5. QED
  BY <1>2, <1>3, <1>4 DEF Next

LEMMA CopiesWeigh == TypeInv /\ CopyInv => CopyBound
<1> SUFFICES ASSUME TypeInv, CopyInv, NEW j \in Jobs PROVE Copies(j) <= 1 + redisErrors
  BY DEF CopyBound
<1>1. Queued(j) \subseteq Spots(j)
  <2> SUFFICES ASSUME NEW t \in Lists, NEW i \in DOMAIN queue[t], queue[t][i].job = j
               PROVE  <<t, i>> \in Spots(j)
    BY DEF Queued
  <2>1. queue[t] \in Seq(Entry)
    BY DEF TypeInv, RedisOK
  <2>2. i \in Nat \ {0}
    BY <2>1
  <2>3. QED
    BY <2>2 DEF Spots
<1>2. InHands(j) \subseteq Owed(j)
  <2> SUFFICES ASSUME NEW t \in Lists, NEW e \in Entry, e.job = j,
                      NEW n \in 1..processing[t][e]
               PROVE  <<t, e, n>> \in Owed(j)
    BY DEF InHands
  <2>1. processing[t][e] \in Nat /\ Marks(t, e) \in Nat /\ processing[t][e] <= Marks(t, e)
    BY MarksType DEF MarksFacts
  <2>2. n \in Nat \ {0} /\ n <= Marks(t, e)
    BY <2>1
  <2>3. QED
    BY <2>2 DEF Owed
<1>3. Carried(j) \subseteq Pushers(j)
  BY DEF Carried, WithWorker, Pushers, Pushes
<1>4. Cardinality(Queued(j)) \in Nat /\ Cardinality(Queued(j)) <= Cardinality(Spots(j))
  BY <1>1, Weighed, Shrinks
<1>5. Cardinality(InHands(j)) \in Nat /\ Cardinality(InHands(j)) <= Cardinality(Owed(j))
  BY <1>2, Weighed, Shrinks
<1>6. Cardinality(Carried(j)) \in Nat /\ Cardinality(Carried(j)) <= Cardinality(Pushers(j))
  BY <1>3, Weighed, Shrinks
<1>7. Cardinality(Spots(j)) + Cardinality(GivenUp(j)) + Cardinality(Owed(j))
      + Cardinality(Pushers(j)) <= 1 + redisErrors
  BY Weighed DEF Stored
<1>8. QED
  BY <1>4, <1>5, <1>6, <1>7, Weighed DEF Copies

\* For every number of jobs, tenants, workers and retries: a crash, a retry or a tenant's
\* registration never forks a job, and k commands that failed, applied or not, leave at
\* most k copies too many.
THEOREM CopiesAreBounded == Spec => []CopyBound
BY TypeInit, NextType, CopyInit, NextCopies, CopiesWeigh, PTL DEF Spec
=============================================================================
