------------------------ MODULE ReliableQueueProofs ------------------------
(* Theorems about ReliableQueue, for every number of jobs, workers, retries, crashes and
   rejected commands: its types, the one place of a job, and how many jobs can be lost. *)
EXTENDS ReliableQueue, FiniteSetTheorems, TLAPS

USE QueueAssumption

(***************************************************************************)
(* Types. TypeOK alone is not inductive: a retried entry stays within      *)
(* maxRetries only because a worker never plans a retry its entry has no   *)
(* attempt left for.                                                       *)
(***************************************************************************)
PlanInv ==
  \A w \in Workers :
    worker[w].at \in {"remove", "push"} /\ worker[w].plan = "retry"
      => worker[w].held.retry < MaxRetries

TypeInv == TypeOK /\ PlanInv

LEMMA ReplyType ==
  ASSUME TypeOK, NEW reply \in Replies, Reply(reply)
  PROVE  redisErrors' \in Nat /\ (redisErrors' = 0 => redisErrors = 0 /\ reply = "ok")
BY DEF Reply, TypeOK

LEMMA LRemType ==
  ASSUME NEW list \in [Entry -> Nat], NEW e \in Entry
  PROVE  /\ LRem(list, e) \in [Entry -> Nat]
         /\ Pushed(list, e) \in [Entry -> Nat]
BY DEF LRem, Pushed

LEMMA EmptyType ==
  ASSUME NEW state \in {"idle", "handling", "ack", "remove", "push", "ended", "down"}
  PROVE  Empty(state) \in Worker
BY DEF Empty, Worker

\* A worker that fails its job holds a typed entry and a plan it can keep.
LEMMA FailedType ==
  ASSUME TypeOK, NEW w \in Workers, worker[w].held \in Entry,
         NEW limit \in 0..MaxRetries, NEW inCatch \in BOOLEAN
  PROVE  LET f == Failed(w, limit, inCatch)
         IN  /\ f \in Worker
             /\ f.at = "remove" /\ f.held = worker[w].held
             /\ f.plan = "retry" => f.held.retry < MaxRetries
<1> DEFINE p == PlanFor(worker[w].held, limit)
<1>1. worker[w] \in Worker
  BY DEF TypeOK
<1>2. p \in {"retry", "dead"} /\ (p = "retry" => worker[w].held.retry < MaxRetries)
  BY DEF PlanFor, Entry
<1>3. Failed(w, limit, inCatch)
        = [worker[w] EXCEPT !.at = "remove", !.plan = p, !.caught = inCatch]
  BY DEF Failed
<1> HIDE DEF p
<1>4. QED
  BY <1>1, <1>2, <1>3 DEF Worker

LEMMA RejectedType ==
  ASSUME TypeOK, NEW w \in Workers, worker[w].held \in Entry
  PROVE  LET f == Rejected(w)
         IN  /\ f \in Worker
             /\ \/ f = Empty("ended")
                \/ /\ f.at = "remove" /\ f.held = worker[w].held
                   /\ f.plan = "retry" => f.held.retry < MaxRetries
<1>1. MaxRetries \in 0..MaxRetries
  OBVIOUS
<1>2. Empty("ended") \in Worker
  BY EmptyType
<1>3. QED
  BY <1>1, <1>2, FailedType DEF Rejected

\* What a step of one worker must establish about that worker.
GoodWorker(f) ==
  /\ f \in Worker
  /\ f.at \in {"handling", "ack", "remove", "push"} => f.held \in Entry
  /\ f.at \in {"remove", "push"} /\ f.plan = "retry" => f.held.retry < MaxRetries

LEMMA StepType ==
  ASSUME TypeInv, NEW w \in Workers, NEW f, GoodWorker(f), Step(w, f)
  PROVE  /\ worker' \in [Workers -> Worker]
         /\ \A v \in Workers : Busy(v)' \/ worker'[v].at = "push" => worker'[v].held \in Entry
         /\ PlanInv'
BY DEF TypeInv, TypeOK, PlanInv, GoodWorker, Step, Busy

\* A crash or a restart replaces the loops of the process and touches no list.
LEMMA StopStep ==
  ASSUME TypeInv, NEW p \in Processes, Crash(p) \/ Restart(p)
  PROVE  /\ \E state \in {"down", "idle"} : \A v \in Workers :
              worker'[v] = IF v \in p THEN Empty(state) ELSE worker[v]
         /\ worker' \in [Workers -> Worker]
         /\ cutOff' \in Nat /\ crashes' \in Nat /\ redisErrors' = redisErrors
         /\ UNCHANGED <<pending, processing, dead>>
         /\ UNCHANGED <<submitted, accepted, settled, succeeded, declined, runs>>
<1>1. PICK state \in {"down", "idle"} : Become(p, state)
  BY DEF Crash, Restart
<1>2. \A v \in Workers : worker'[v] = IF v \in p THEN Empty(state) ELSE worker[v]
  BY <1>1 DEF Become
<1>3. worker' \in [Workers -> Worker]
  BY <1>1, EmptyType DEF Become, TypeInv, TypeOK
<1>4. Cardinality({w \in p : worker[w].at = "push"}) \in Nat
  <2>1. {w \in p : worker[w].at = "push"} \subseteq Workers
    BY ProcessAssumption
  <2>2. QED
    BY <2>1, ProcessAssumption, FS_Subset, FS_CardinalityType
<1>5. cutOff' \in Nat /\ crashes' \in Nat /\ redisErrors' = redisErrors
  BY <1>4 DEF Crash, Restart, faults, TypeInv, TypeOK
<1>6. QED
  BY <1>2, <1>3, <1>5 DEF Crash, Restart, lists, history

LEMMA TypeInit == Init => TypeInv
BY DEF Init, TypeInv, TypeOK, PlanInv, Empty, Worker, Entry, Busy

LEMMA TypeStep == TypeInv /\ [Next]_vars => TypeInv'
<1> SUFFICES ASSUME TypeInv, [Next]_vars PROVE TypeInv'
  OBVIOUS
<1> USE DEF TypeInv
<1>1. ASSUME NEW j \in Jobs, NEW reply \in Replies, Enqueue(j, reply) PROVE TypeInv'
  <2>1. [job |-> j, retry |-> 0] \in Entry
    BY DEF Entry
  <2>2. pending' \in Seq(Entry)
    BY <1>1, <2>1 DEF Enqueue, TypeOK
  <2>3. QED
    BY <1>1, <2>2, ReplyType DEF Enqueue, TypeOK, PlanInv, Busy
<1>2. ASSUME NEW w \in Workers, Fetch(w) PROVE TypeInv'
  <2>1. Head(pending) \in Entry /\ pending' \in Seq(Entry)
    BY <1>2 DEF Fetch, TypeOK
  <2>2. GoodWorker([Empty("handling") EXCEPT !.held = Head(pending)])
    BY <2>1 DEF GoodWorker, Empty, Worker
  <2>3. processing' \in [Entry -> Nat]
    BY <1>2, <2>1, LRemType DEF Fetch, TypeOK
  <2>4. runs' \in [Jobs -> Nat]
    <3>1. Head(pending).job \in Jobs /\ runs \in [Jobs -> Nat]
      BY <2>1 DEF TypeOK, Entry
    <3>2. QED
      BY <1>2, <3>1 DEF Fetch
  <2>5. QED
    BY <1>2, <2>1, <2>2, <2>3, <2>4, StepType DEF Fetch, TypeOK, faults
<1>3. ASSUME NEW w \in Workers, NEW reply \in Replies, FetchFails(w, reply) PROVE TypeInv'
  <2>1. GoodWorker(Empty("ended"))
    BY DEF GoodWorker, Empty, Worker
  <2>2. pending' \in Seq(Entry) /\ processing' \in [Entry -> Nat]
    <3>1. CASE Applied(reply) /\ pending # <<>>
      <4>1. Head(pending) \in Entry /\ Tail(pending) \in Seq(Entry)
        BY <3>1 DEF TypeOK
      <4>2. Pushed(processing, Head(pending)) \in [Entry -> Nat]
        BY <4>1, LRemType DEF TypeOK
      <4>3. QED
        BY <1>3, <3>1, <4>1, <4>2 DEF FetchFails
    <3>2. CASE ~(Applied(reply) /\ pending # <<>>)
      BY <1>3, <3>2 DEF FetchFails, TypeOK
    <3>3. QED
      BY <3>1, <3>2
  <2>3. QED
    BY <1>3, <2>1, <2>2, StepType, ReplyType DEF FetchFails, TypeOK, history
<1>4. ASSUME NEW w \in Workers, NEW reply \in Replies, Ack(w, reply) PROVE TypeInv'
  <2>1. worker[w].held \in Entry
    BY <1>4 DEF Ack, TypeOK, Busy
  <2>2. GoodWorker(IF reply = "ok" THEN Empty("idle") ELSE Rejected(w))
    BY <2>1, RejectedType, EmptyType DEF GoodWorker, Empty
  <2>3. processing' \in [Entry -> Nat]
    BY <1>4, <2>1, LRemType DEF Ack, TypeOK
  <2>4. settled' \subseteq Jobs
    BY <1>4, <2>1 DEF Ack, TypeOK, Entry
  <2>5. QED
    BY <1>4, <2>2, <2>3, <2>4, StepType, ReplyType DEF Ack, TypeOK
<1>5. ASSUME NEW w \in Workers, NEW reply \in Replies, Remove(w, reply) PROVE TypeInv'
  <2>1. worker[w].held \in Entry
    BY <1>5 DEF Remove, TypeOK, Busy
  <2>2. GoodWorker(IF reply = "ok" THEN [worker[w] EXCEPT !.at = "push"] ELSE Rejected(w))
    <3>1. CASE reply = "ok"
      BY <1>5, <2>1, <3>1 DEF GoodWorker, Remove, TypeOK, PlanInv, Worker
    <3>2. CASE reply # "ok"
      BY <2>1, <3>2, RejectedType DEF GoodWorker, Empty
    <3>3. QED
      BY <3>1, <3>2
  <2>3. processing' \in [Entry -> Nat]
    BY <1>5, <2>1, LRemType DEF Remove, TypeOK
  <2>4. QED
    BY <1>5, <2>2, <2>3, StepType, ReplyType DEF Remove, TypeOK, history
<1>6. ASSUME NEW w \in Workers, NEW reply \in Replies, Push(w, reply) PROVE TypeInv'
  <2>1. worker[w].held \in Entry
    BY <1>6 DEF Push, TypeOK, Busy
  <2>2. GoodWorker(IF reply = "ok" THEN Empty("idle") ELSE Rejected(w))
    BY <2>1, RejectedType, EmptyType DEF GoodWorker, Empty
  <2>3. worker[w].plan = "retry" => [worker[w].held EXCEPT !.retry = @ + 1] \in Entry
    BY <1>6, <2>1 DEF Push, PlanInv, Entry
  <2>4. pending' \in Seq(Entry)
    BY <1>6, <2>3 DEF Push, TypeOK
  <2>5. dead' \in [Entry -> Nat]
    BY <1>6, <2>1, LRemType DEF Push, TypeOK
  <2>6. QED
    BY <1>6, <2>2, <2>4, <2>5, StepType, ReplyType DEF Push, TypeOK, history
<1>7. ASSUME NEW w \in Workers, NEW outcome \in Outcomes, Handle(w, outcome) PROVE TypeInv'
  <2>1. worker[w].held \in Entry
    BY <1>7 DEF Handle, TypeOK, Busy
  <2>2. ASSUME NEW limit \in 0..MaxRetries, NEW inCatch \in BOOLEAN
        PROVE  GoodWorker(Failed(w, limit, inCatch))
    BY <2>1, FailedType DEF GoodWorker
  <2>3. GoodWorker([worker[w] EXCEPT !.at = "ack"])
    BY <2>1 DEF GoodWorker, TypeOK, Worker
  <2>4. 0 \in 0..MaxRetries /\ MaxRetries \in 0..MaxRetries
    OBVIOUS
  <2>5. \E f : GoodWorker(f) /\ Step(w, f)
    BY <1>7, <2>2, <2>3, <2>4 DEF Handle, Outcomes
  <2>6. succeeded' \subseteq Jobs /\ declined' \subseteq Jobs
    BY <1>7, <2>1 DEF Handle, TypeOK, Entry
  <2>7. QED
    BY <1>7, <2>5, <2>6, StepType DEF Handle, TypeOK, lists, faults
<1>8. ASSUME NEW p \in Processes, Crash(p) \/ Restart(p) PROVE TypeInv'
  <2>1. PICK state \in {"down", "idle"} : \A v \in Workers :
          worker'[v] = IF v \in p THEN Empty(state) ELSE worker[v]
    BY <1>8, StopStep
  <2>2. \A v \in Workers : Busy(v)' \/ worker'[v].at = "push" => worker'[v].held \in Entry
    BY <2>1 DEF TypeOK, Busy, Empty
  <2>3. PlanInv'
    BY <2>1 DEF PlanInv, Empty
  <2>4. QED
    BY <1>8, <2>2, <2>3, StopStep DEF TypeOK
<1>9. CASE UNCHANGED vars
  BY <1>9 DEF vars, lists, faults, history, TypeOK, PlanInv, Busy
<1>10. QED
  BY <1>1, <1>2, <1>3, <1>4, <1>5, <1>6, <1>7, <1>8, <1>9 DEF Next, Command

\* Every reachable state is typed: no entry of any list carries a retryCount
\* above maxRetries, although process() may fail one job twice.
THEOREM TypeCorrect == Spec => []TypeOK
<1>1. TypeInv => TypeOK
  BY DEF TypeInv
<1>2. QED
  BY <1>1, TypeInit, TypeStep, PTL DEF Spec

(***************************************************************************)
(* One place. OnePlace and NoConcurrentRuns say nothing of how a worker's  *)
(* entry relates to the lists; PlaceInv adds that a busy worker's entry is *)
(* in the processing list, that a worker holds an entry only while busy or *)
(* carrying it, and that only submitted jobs are anywhere.                 *)
(***************************************************************************)
InSeq(s, j)    == \E i \in 1..Len(s) : s[i].job = j
Distinct(s)    == \A i, k \in 1..Len(s) : s[i].job = s[k].job => i = k
InBag(list, j) == \E e \in Entry : list[e] > 0 /\ e.job = j
Single(list)   ==
  \A e, f \in Entry :
    list[e] > 0 /\ list[f] > 0 /\ e.job = f.job => e = f /\ list[e] = 1
InHand(j)      == \E w \in Workers : worker[w].at = "push" /\ worker[w].held.job = j

Apart(j) ==
  /\ InSeq(pending, j) => ~InBag(processing, j) /\ ~InBag(dead, j) /\ ~InHand(j)
  /\ InBag(processing, j) => ~InBag(dead, j) /\ ~InHand(j)
  /\ InBag(dead, j) => ~InHand(j)

Known(j) ==
  InSeq(pending, j) \/ InBag(processing, j) \/ InBag(dead, j) \/ InHand(j)
    => j \in submitted

HeldInv(w) ==
  /\ worker[w].held # None => Busy(w) \/ worker[w].at = "push"
  /\ Busy(w) => processing[worker[w].held] > 0

Alone(v, w) ==
  worker[v].held # None /\ worker[w].held # None
    /\ worker[v].held.job = worker[w].held.job => v = w

PlaceInv ==
  /\ Distinct(pending) /\ Single(processing) /\ Single(dead)
  /\ \A j \in Jobs : Apart(j) /\ Known(j)
  /\ \A w \in Workers : HeldInv(w)
  /\ \A v, w \in Workers : Alone(v, w)

\* The right end leaves a list of distinct jobs.
LEMMA TailJobs ==
  ASSUME NEW s \in Seq(Entry), s # <<>>, Distinct(s)
  PROVE  /\ Distinct(Tail(s))
         /\ \A j : InSeq(Tail(s), j) <=> InSeq(s, j) /\ j # Head(s).job
<1>1. /\ Len(s) \in Nat /\ Len(s) > 0 /\ Len(Tail(s)) = Len(s) - 1 /\ Head(s) = s[1]
      /\ \A i \in 1..(Len(s) - 1) : Tail(s)[i] = s[i + 1]
  OBVIOUS
<1>2. Distinct(Tail(s))
  BY <1>1 DEF Distinct
<1>3. ASSUME NEW j, InSeq(Tail(s), j) PROVE InSeq(s, j) /\ j # Head(s).job
  <2>1. PICK i \in 1..(Len(s) - 1) : s[i + 1].job = j
    BY <1>1, <1>3 DEF InSeq
  <2>2. QED
    BY <1>1, <2>1 DEF InSeq, Distinct
<1>4. ASSUME NEW j, InSeq(s, j), j # Head(s).job PROVE InSeq(Tail(s), j)
  <2>1. PICK i \in 1..Len(s) : s[i].job = j
    BY <1>4 DEF InSeq
  <2>2. i - 1 \in 1..(Len(s) - 1) /\ Tail(s)[i - 1] = s[i]
    BY <1>1, <1>4, <2>1
  <2>3. QED
    BY <1>1, <2>1, <2>2 DEF InSeq
<1>5. QED
  BY <1>2, <1>3, <1>4

\* A job that is not in the list is added to it.
LEMMA AppendJobs ==
  ASSUME NEW s \in Seq(Entry), NEW e \in Entry, Distinct(s), ~InSeq(s, e.job)
  PROVE  /\ Distinct(Append(s, e))
         /\ \A j : InSeq(Append(s, e), j) <=> InSeq(s, j) \/ j = e.job
<1>1. /\ Len(s) \in Nat /\ Len(Append(s, e)) = Len(s) + 1
      /\ \A i \in 1..Len(s) : Append(s, e)[i] = s[i]
      /\ Append(s, e)[Len(s) + 1] = e
  OBVIOUS
<1>2. \A i \in 1..(Len(s) + 1) : i \in 1..Len(s) \/ i = Len(s) + 1
  BY <1>1
<1>3. Distinct(Append(s, e))
  BY <1>1, <1>2 DEF Distinct, InSeq
<1>4. \A j : InSeq(Append(s, e), j) <=> InSeq(s, j) \/ j = e.job
  BY <1>1, <1>2 DEF InSeq
<1>5. QED
  BY <1>3, <1>4

\* LPUSH of a job that is not in the list.
LEMMA PushedJobs ==
  ASSUME NEW list \in [Entry -> Nat], NEW e \in Entry, Single(list), ~InBag(list, e.job)
  PROVE  /\ Single(Pushed(list, e))
         /\ \A j : InBag(Pushed(list, e), j) <=> InBag(list, j) \/ j = e.job
<1>1. list[e] = 0
  BY DEF InBag
<1>2. \A f \in Entry : Pushed(list, e)[f] = IF f = e THEN 1 ELSE list[f]
  BY <1>1 DEF Pushed
<1>3. QED
  BY <1>2 DEF Single, InBag

\* LREM of an entry that is in the list once.
LEMMA LRemJobs ==
  ASSUME NEW list \in [Entry -> Nat], NEW e \in Entry, Single(list), list[e] > 0
  PROVE  /\ Single(LRem(list, e))
         /\ \A j : InBag(LRem(list, e), j) <=> InBag(list, j) /\ j # e.job
<1>1. list[e] = 1
  BY DEF Single
<1>2. \A f \in Entry : LRem(list, e)[f] = IF f = e THEN 0 ELSE list[f]
  BY <1>1 DEF LRem
<1>3. QED
  BY <1>1, <1>2 DEF Single, InBag

\* An entry a worker holds is in the processing list or in that worker's hands.
LEMMA HeldSomewhere ==
  ASSUME TypeInv, PlaceInv, NEW v \in Workers, worker[v].held # None
  PROVE  /\ worker[v].held \in Entry
         /\ InBag(processing, worker[v].held.job) \/ InHand(worker[v].held.job)
<1>1. HeldInv(v)
  BY DEF PlaceInv
<1>2. Busy(v) \/ worker[v].at = "push"
  BY <1>1 DEF HeldInv
<1>3. worker[v].held \in Entry
  BY <1>2 DEF TypeInv, TypeOK
<1>4. QED
  BY <1>1, <1>2, <1>3 DEF HeldInv, InBag, InHand

\* Taking a job nobody holds, keeping one's job or dropping it leaves it to one worker.
LEMMA AloneStep ==
  ASSUME TypeInv, PlaceInv, NEW w \in Workers, NEW f, Step(w, f),
         \/ f.held = None \/ f.held = worker[w].held
         \/ \A v \in Workers : worker[v].held # None => worker[v].held.job # f.held.job
  PROVE  \A u, v \in Workers : Alone(u, v)'
<1>1. \A v \in Workers : worker'[v] = IF v = w THEN f ELSE worker[v]
  BY DEF Step, TypeInv, TypeOK
<1>2. \A u, v \in Workers : Alone(u, v)
  BY DEF PlaceInv
<1>3. QED
  BY <1>1, <1>2 DEF Alone

\* The jobs carried between LREM and LPUSH, after a step of worker w.
LEMMA HandStep ==
  ASSUME TypeInv, PlaceInv, NEW w \in Workers, NEW f, Step(w, f), NEW j
  PROVE  /\ worker[w].at # "push"
              => (InHand(j)' <=> InHand(j) \/ (f.at = "push" /\ f.held.job = j))
         /\ worker[w].at = "push" /\ f.at # "push"
              => (InHand(j)' <=> InHand(j) /\ j # worker[w].held.job)
<1>1. \A v \in Workers : worker'[v] = IF v = w THEN f ELSE worker[v]
  BY DEF Step, TypeInv, TypeOK
<1>2. ASSUME worker[w].at # "push"
      PROVE  InHand(j)' <=> InHand(j) \/ (f.at = "push" /\ f.held.job = j)
  BY <1>1, <1>2 DEF InHand
<1>3. ASSUME worker[w].at = "push", f.at # "push"
      PROVE  InHand(j)' <=> InHand(j) /\ j # worker[w].held.job
  <2>1. \A v \in Workers : worker[v].at = "push" => worker[v].held # None
    BY QueueAssumption DEF TypeInv, TypeOK, Entry
  <2>2. \A v \in Workers :
          worker[v].at = "push" /\ worker[v].held.job = worker[w].held.job => v = w
    BY <1>3, <2>1 DEF PlaceInv, Alone
  <2>3. QED
    BY <1>1, <1>3, <2>2 DEF InHand
<1>4. QED
  BY <1>2, <1>3

\* The other workers' entries stay in the processing list when w's is removed.
LEMMA OthersKept ==
  ASSUME TypeInv, PlaceInv, NEW w \in Workers, Busy(w), NEW v \in Workers, Busy(v), v # w
  PROVE  LRem(processing, worker[w].held)[worker[v].held] > 0
<1>1. worker[v].held \in Entry /\ worker[w].held \in Entry
  BY DEF TypeInv, TypeOK
<1>2. worker[v].held # None /\ worker[w].held # None
  BY <1>1, QueueAssumption DEF Entry
<1>3. worker[v].held # worker[w].held
  BY <1>2 DEF PlaceInv, Alone
<1>4. processing[worker[v].held] > 0
  BY DEF PlaceInv, HeldInv
<1>5. QED
  BY <1>1, <1>3, <1>4 DEF LRem, TypeInv, TypeOK

LEMMA PlaceInit == Init => PlaceInv
<1> SUFFICES ASSUME Init PROVE PlaceInv
  OBVIOUS
<1>1. Len(pending) = 0 /\ \A e \in Entry : processing[e] = 0 /\ dead[e] = 0
  BY DEF Init
<1>2. \A w \in Workers : worker[w].at = "idle" /\ worker[w].held = None
  BY DEF Init, Empty
<1>3. QED
  BY <1>1, <1>2
  DEF PlaceInv, Distinct, Single, Apart, Known, InSeq, InBag, InHand, HeldInv, Busy, Alone

LEMMA PlaceStep ==
  TypeInv /\ (redisErrors = 0 => PlaceInv) /\ [Next]_vars => (redisErrors' = 0 => PlaceInv')
<1> SUFFICES ASSUME TypeInv, redisErrors = 0 => PlaceInv, [Next]_vars, redisErrors' = 0
             PROVE  PlaceInv'
  OBVIOUS
<1> USE DEF TypeInv
<1>1. ASSUME NEW j \in Jobs, NEW reply \in Replies, Enqueue(j, reply) PROVE PlaceInv'
  <2> DEFINE e == [job |-> j, retry |-> 0]
  <2>1. PlaceInv /\ pending' = Append(pending, e)
    BY <1>1, ReplyType DEF Enqueue, Applied
  <2>2. e \in Entry /\ e.job = j
    BY DEF Entry
  <2>3. Distinct(pending) /\ Single(processing) /\ Single(dead)
    BY <2>1 DEF PlaceInv
  <2>4. \A i \in Jobs : Apart(i) /\ Known(i)
    BY <2>1 DEF PlaceInv
  <2>5. ~InSeq(pending, j) /\ ~InBag(processing, j) /\ ~InBag(dead, j) /\ ~InHand(j)
    BY <1>1, <2>4 DEF Enqueue, Known
  <2> HIDE DEF e
  <2>6. Distinct(pending') /\ \A i : InSeq(pending', i) <=> InSeq(pending, i) \/ i = j
    BY <2>1, <2>2, <2>3, <2>5, AppendJobs DEF TypeOK
  <2>7. /\ processing' = processing /\ dead' = dead /\ worker' = worker
        /\ submitted' = submitted \cup {j}
    BY <1>1 DEF Enqueue
  <2>8. \A i : InHand(i)' <=> InHand(i)
    BY <2>7 DEF InHand
  <2>9. \A i \in Jobs : Apart(i)' /\ Known(i)'
    BY <2>4, <2>5, <2>6, <2>7, <2>8 DEF Apart, Known
  <2>10. QED
    BY <2>1, <2>3, <2>6, <2>7, <2>9 DEF PlaceInv, HeldInv, Alone, Busy
<1>2. ASSUME NEW w \in Workers, Fetch(w) PROVE PlaceInv'
  <2> DEFINE e == Head(pending)
             f == [Empty("handling") EXCEPT !.held = e]
  <2>1. /\ PlaceInv /\ Step(w, f) /\ pending # <<>> /\ worker[w].at = "idle"
        /\ pending' = Tail(pending) /\ processing' = Pushed(processing, e)
        /\ dead' = dead /\ submitted' = submitted
    BY <1>2 DEF Fetch, faults
  <2>2. e \in Entry /\ e.job \in Jobs /\ InSeq(pending, e.job)
    <3>1. Len(pending) \in Nat \ {0} /\ e = pending[1] /\ e \in Entry
      BY <2>1 DEF TypeOK
    <3>2. QED
      BY <3>1 DEF InSeq, Entry
  <2>3. f.held = e /\ f.at = "handling"
    BY DEF Empty
  <2>4. Distinct(pending) /\ Single(processing) /\ Single(dead)
    BY <2>1 DEF PlaceInv
  <2>5. \A i \in Jobs : Apart(i) /\ Known(i)
    BY <2>1 DEF PlaceInv
  <2>6. ~InBag(processing, e.job) /\ ~InBag(dead, e.job) /\ ~InHand(e.job)
    BY <2>2, <2>5 DEF Apart
  <2> HIDE DEF e, f
  <2>7. /\ Distinct(pending')
        /\ \A i : InSeq(pending', i) <=> InSeq(pending, i) /\ i # e.job
    BY <2>1, <2>4, TailJobs DEF TypeOK, e
  <2>8. /\ Single(processing')
        /\ \A i : InBag(processing', i) <=> InBag(processing, i) \/ i = e.job
    BY <2>1, <2>2, <2>4, <2>6, PushedJobs DEF TypeOK
  <2>9. \A i : InHand(i)' <=> InHand(i)
    BY <2>1, <2>3, HandStep
  <2>10. \A i \in Jobs : Apart(i)' /\ Known(i)'
    BY <2>1, <2>2, <2>5, <2>6, <2>7, <2>8, <2>9 DEF Apart, Known
  <2>11. \A v \in Workers : worker[v].held # None => worker[v].held.job # e.job
    BY <2>1, <2>6, HeldSomewhere
  <2>12. \A u, v \in Workers : Alone(u, v)'
    BY <2>1, <2>3, <2>11, AloneStep
  <2>13. ASSUME NEW v \in Workers PROVE HeldInv(v)'
    <3>1. worker'[v] = IF v = w THEN f ELSE worker[v]
      BY <2>1 DEF Step, TypeOK
    <3>2. processing'[e] > 0 /\ \A g \in Entry : processing'[g] >= processing[g]
      BY <2>1, <2>2 DEF Pushed, TypeOK
    <3>3. HeldInv(v) /\ (Busy(v) => worker[v].held \in Entry)
      BY <2>1 DEF PlaceInv, TypeOK
    <3>4. Busy(v) => processing[worker[v].held] \in Nat /\ processing'[worker[v].held] \in Nat
      <4>1. processing \in [Entry -> Nat] /\ processing' \in [Entry -> Nat]
        BY <2>1, <2>2, LRemType DEF TypeOK
      <4>2. QED
        BY <3>3, <4>1
    <3>5. CASE v = w
      BY <2>3, <3>1, <3>2, <3>5 DEF HeldInv, Busy
    <3>6. CASE v # w
      BY <3>1, <3>2, <3>3, <3>4, <3>6 DEF HeldInv, Busy
    <3>7. QED
      BY <3>5, <3>6
  <2>14. QED
    BY <2>1, <2>4, <2>7, <2>8, <2>10, <2>12, <2>13 DEF PlaceInv
<1>3. ASSUME NEW w \in Workers, NEW reply \in Replies, FetchFails(w, reply) PROVE PlaceInv'
  BY <1>3, ReplyType DEF FetchFails
<1>4. ASSUME NEW w \in Workers, NEW reply \in Replies, Ack(w, reply) \/ Remove(w, reply)
      PROVE  PlaceInv'
  <2> DEFINE e == worker[w].held
             f == IF worker[w].at = "ack" THEN Empty("idle")
                                          ELSE [worker[w] EXCEPT !.at = "push"]
  <2>1. /\ PlaceInv /\ Step(w, f) /\ Busy(w) /\ worker[w].at \in {"ack", "remove"}
        /\ processing' = LRem(processing, e)
        /\ pending' = pending /\ dead' = dead /\ submitted' = submitted
    BY <1>4, ReplyType DEF Ack, Remove, Applied, Busy, history
  <2>2. e \in Entry /\ e.job \in Jobs /\ processing[e] > 0 /\ InBag(processing, e.job)
    BY <2>1 DEF PlaceInv, HeldInv, TypeOK, InBag, Entry
  <2>3. /\ f.at = "push" => f.held = e
        /\ f.held = e \/ f.held = None
        /\ f.at \in {"idle", "push"} /\ (f.at = "idle" => f.held = None)
    BY DEF Empty, TypeOK, Worker
  <2>4. Single(processing) /\ Distinct(pending) /\ Single(dead)
    BY <2>1 DEF PlaceInv
  <2>5. \A i \in Jobs : Apart(i) /\ Known(i)
    BY <2>1 DEF PlaceInv
  <2>6. /\ Single(processing')
        /\ \A i : InBag(processing', i) <=> InBag(processing, i) /\ i # e.job
    BY <2>1, <2>2, <2>4, LRemJobs DEF TypeOK
  <2>7. \A u, v \in Workers : Alone(u, v)'
    BY <2>1, <2>3, AloneStep
  <2>8. ASSUME NEW v \in Workers PROVE HeldInv(v)'
    <3>1. worker'[v] = IF v = w THEN f ELSE worker[v]
      BY <2>1 DEF Step, TypeOK
    <3>2. HeldInv(v)
      BY <2>1 DEF PlaceInv
    <3>3. v # w /\ Busy(v) => processing'[worker[v].held] > 0
      BY <2>1, OthersKept
    <3> HIDE DEF e, f
    <3>4. QED
      BY <2>3, <3>1, <3>2, <3>3 DEF HeldInv, Busy
  <2> HIDE DEF e, f
  <2>9. \A i : InHand(i)' <=> InHand(i) \/ (f.at = "push" /\ f.held.job = i)
    BY <2>1, HandStep
  <2>10. \A i \in Jobs : Apart(i)' /\ Known(i)'
    BY <2>1, <2>2, <2>3, <2>5, <2>6, <2>9 DEF Apart, Known
  <2>11. QED
    BY <2>1, <2>4, <2>6, <2>7, <2>8, <2>10 DEF PlaceInv
<1>5. ASSUME NEW w \in Workers, NEW reply \in Replies, Push(w, reply) PROVE PlaceInv'
  <2> DEFINE e == worker[w].held
             n == [e EXCEPT !.retry = @ + 1]
  <2>1. /\ PlaceInv /\ Step(w, Empty("idle")) /\ worker[w].at = "push"
        /\ pending' = IF worker[w].plan = "retry" THEN Append(pending, n) ELSE pending
        /\ dead' = IF worker[w].plan = "dead" THEN Pushed(dead, e) ELSE dead
        /\ processing' = processing /\ submitted' = submitted
        /\ worker[w].plan \in {"retry", "dead"}
    BY <1>5, ReplyType DEF Push, Applied, history, TypeOK, Worker
  <2>2. e \in Entry /\ e.job \in Jobs /\ InHand(e.job)
    BY <2>1 DEF TypeOK, Entry, InHand
  <2>3. worker[w].plan = "retry" => n \in Entry /\ n.job = e.job
    BY <2>1, <2>2 DEF PlanInv, Entry
  <2>4. Single(processing) /\ Distinct(pending) /\ Single(dead)
    BY <2>1 DEF PlaceInv
  <2>5. \A i \in Jobs : Apart(i) /\ Known(i)
    BY <2>1 DEF PlaceInv
  <2>6. ~InSeq(pending, e.job) /\ ~InBag(dead, e.job)
    BY <2>2, <2>5 DEF Apart
  <2>7. \A i : InHand(i)' <=> InHand(i) /\ i # e.job
    BY <2>1, HandStep DEF Empty
  <2>8. \A u, v \in Workers : Alone(u, v)'
    BY <2>1, AloneStep DEF Empty
  <2>9. \A v \in Workers : HeldInv(v)'
    BY <2>1 DEF PlaceInv, HeldInv, Step, Busy, Empty, TypeOK
  <2> HIDE DEF e, n
  <2>10. /\ Distinct(pending')
         /\ \A i : InSeq(pending', i) <=>
                    InSeq(pending, i) \/ (worker[w].plan = "retry" /\ i = e.job)
    <3>1. CASE worker[w].plan = "retry"
      BY <2>1, <2>3, <2>4, <2>6, <3>1, AppendJobs DEF TypeOK
    <3>2. CASE worker[w].plan # "retry"
      BY <2>1, <2>4, <3>2
    <3>3. QED
      BY <3>1, <3>2
  <2>11. /\ Single(dead')
         /\ \A i : InBag(dead', i) <=>
                    InBag(dead, i) \/ (worker[w].plan = "dead" /\ i = e.job)
    <3>1. CASE worker[w].plan = "dead"
      BY <2>1, <2>2, <2>4, <2>6, <3>1, PushedJobs DEF TypeOK
    <3>2. CASE worker[w].plan # "dead"
      BY <2>1, <2>4, <3>2
    <3>3. QED
      BY <3>1, <3>2
  <2>12. \A i \in Jobs : Apart(i)' /\ Known(i)'
    BY <2>1, <2>2, <2>5, <2>7, <2>10, <2>11 DEF Apart, Known
  <2>13. QED
    BY <2>1, <2>4, <2>8, <2>9, <2>10, <2>11, <2>12 DEF PlaceInv
<1>6. ASSUME NEW w \in Workers, NEW outcome \in Outcomes, Handle(w, outcome)
      PROVE  PlaceInv'
  <2>1. PlaceInv /\ worker[w].at = "handling" /\ worker[w].held \in Entry
    BY <1>6 DEF Handle, faults, TypeOK, Busy
  <2>2. PICK f : /\ Step(w, f) /\ f.held = worker[w].held
                 /\ f.at \in {"ack", "remove"}
    <3>1. \A limit \in 0..MaxRetries, inCatch \in BOOLEAN :
            /\ Failed(w, limit, inCatch).held = worker[w].held
            /\ Failed(w, limit, inCatch).at = "remove"
      BY <2>1, FailedType
    <3>2. LET g == [worker[w] EXCEPT !.at = "ack"]
          IN  g.held = worker[w].held /\ g.at = "ack"
      BY DEF TypeOK, Worker
    <3>3. 0 \in 0..MaxRetries /\ MaxRetries \in 0..MaxRetries
      OBVIOUS
    <3>4. QED
      BY <1>6, <3>1, <3>2, <3>3 DEF Handle, Outcomes
  <2>3. /\ pending' = pending /\ processing' = processing /\ dead' = dead
        /\ submitted' = submitted
    BY <1>6 DEF Handle, lists
  <2>4. \A i : InHand(i)' <=> InHand(i)
    BY <2>1, <2>2, HandStep
  <2>5. \A u, v \in Workers : Alone(u, v)'
    BY <2>1, <2>2, AloneStep
  <2>6. \A v \in Workers : HeldInv(v)'
    BY <2>1, <2>2, <2>3 DEF PlaceInv, HeldInv, Step, Busy, TypeOK
  <2>7. \A i \in Jobs : Apart(i)' /\ Known(i)'
    BY <2>1, <2>3, <2>4 DEF PlaceInv, Apart, Known
  <2>8. QED
    BY <2>1, <2>3, <2>5, <2>6, <2>7 DEF PlaceInv
<1>7. ASSUME NEW p \in Processes, Crash(p) \/ Restart(p) PROVE PlaceInv'
  <2>2. /\ PlaceInv /\ pending' = pending /\ processing' = processing /\ dead' = dead
        /\ submitted' = submitted
    BY <1>7, StopStep
  <2>3. PICK state \in {"down", "idle"} : \A v \in Workers :
          worker'[v] = IF v \in p THEN Empty(state) ELSE worker[v]
    BY <1>7, StopStep
  <2>4. \A i : InHand(i)' => InHand(i)
    BY <2>3 DEF InHand, Empty
  <2>5. \A u, v \in Workers : Alone(u, v)'
    BY <2>2, <2>3 DEF PlaceInv, Alone, Empty
  <2>6. \A v \in Workers : HeldInv(v)'
    BY <2>2, <2>3 DEF PlaceInv, HeldInv, Busy, Empty
  <2>7. \A i \in Jobs : Apart(i)' /\ Known(i)'
    BY <2>2, <2>4 DEF PlaceInv, Apart, Known
  <2>8. QED
    BY <2>2, <2>5, <2>6, <2>7 DEF PlaceInv
<1>8. CASE UNCHANGED vars
  <2>1. PlaceInv /\ UNCHANGED <<pending, processing, dead, worker, submitted>>
    BY <1>8 DEF vars, lists, faults, history
  <2>2. \A i : InHand(i)' <=> InHand(i)
    BY <2>1 DEF InHand
  <2>3. \A i \in Jobs : Apart(i)' /\ Known(i)'
    BY <2>1, <2>2 DEF PlaceInv, Apart, Known
  <2>4. QED
    BY <2>1, <2>3 DEF PlaceInv, HeldInv, Busy, Alone
<1>9. QED
  BY <1>1, <1>2, <1>3, <1>4, <1>5, <1>6, <1>7, <1>8 DEF Next, Command

LEMMA PlaceCorrect == Spec => [](TypeInv /\ (redisErrors = 0 => PlaceInv))
<1>1. Init => TypeInv /\ (redisErrors = 0 => PlaceInv)
  BY TypeInit, PlaceInit
<1>2. TypeInv /\ (redisErrors = 0 => PlaceInv) /\ [Next]_vars
        => (TypeInv /\ (redisErrors = 0 => PlaceInv))'
  BY TypeStep, PlaceStep
<1>3. QED
  BY <1>1, <1>2, PTL DEF Spec

(* The invariant in the words of the properties. *)

LEMMA PlaceIsOnePlace == TypeInv /\ PlaceInv => OnePlace
<1> SUFFICES ASSUME TypeInv, PlaceInv PROVE OnePlace
  OBVIOUS
<1>1. DOMAIN pending = 1..Len(pending) /\ \A i \in 1..Len(pending) : pending[i] \in Entry
  BY DEF TypeInv, TypeOK
<1>2. /\ \A j : j \in PendingJobs <=> InSeq(pending, j)
      /\ \A j : j \in ProcessingJobs <=> InBag(processing, j)
      /\ \A j : j \in DeadJobs <=> InBag(dead, j)
      /\ \A j : j \in Carried <=> InHand(j)
  BY <1>1 DEF PendingJobs, ProcessingJobs, DeadJobs, Carried, InSeq, InBag, InHand
<1>3. \A j : InSeq(pending, j) \/ InBag(processing, j) \/ InBag(dead, j) => j \in Jobs
  BY <1>1 DEF InSeq, InBag, Entry
<1>4. \A j \in Jobs : Apart(j)
  BY DEF PlaceInv
<1>5. /\ PendingJobs \cap ProcessingJobs = {}
      /\ PendingJobs \cap DeadJobs = {} /\ ProcessingJobs \cap DeadJobs = {}
      /\ Carried \cap (PendingJobs \cup ProcessingJobs \cup DeadJobs) = {}
  BY <1>2, <1>3, <1>4 DEF Apart
<1>6. Distinct(pending) /\ Single(processing) /\ Single(dead)
  BY DEF PlaceInv
<1>7. QED
  BY <1>1, <1>5, <1>6 DEF OnePlace, Distinct, Single

\* However workers crash and restart, while Redis answers every command a job is
\* in one list, once, or in the hands of one worker between LREM and LPUSH.
THEOREM StaysInOnePlace == Spec => []OnePlace
<1>1. TypeInv /\ (redisErrors = 0 => PlaceInv) => OnePlace
  BY PlaceIsOnePlace DEF OnePlace
<1>2. QED
  BY <1>1, PlaceCorrect, PTL

\* However workers crash and restart, while Redis answers every command no two
\* of them are at work on the same job.
THEOREM NeverRunTwiceAtOnce == Spec => []NoConcurrentRuns
<1>1. TypeInv /\ (redisErrors = 0 => PlaceInv) => NoConcurrentRuns
  BY DEF NoConcurrentRuns, PlaceInv, Alone
<1>2. QED
  BY <1>1, PlaceCorrect, PTL

(***************************************************************************)
(* Loss. A job is lost when no confirmed LREM acknowledged it and it is in *)
(* no list and in no worker's hands. A step loses no job, or it is a fault *)
(* and loses the one whose LREM or LPUSH went wrong, or those the loops of *)
(* the crashed process carried.                                            *)
(***************************************************************************)
Somewhere(j) == InSeq(pending, j) \/ InBag(processing, j) \/ InBag(dead, j) \/ InHand(j)

Lost == accepted \ (settled \cup Stored)

LossInv == IsFiniteSet(accepted) /\ Cardinality(Lost) <= cutOff + redisErrors

\* Jobs lost by a step are among S.
LosesOnly(S) ==
  /\ \A j \in accepted' \ accepted : Somewhere(j)'
  /\ \A j \in Jobs : j \in settled \/ Somewhere(j) => j \in settled' \/ Somewhere(j)' \/ j \in S

StoredFacts == \A j : j \in Stored <=> Somewhere(j)

LEMMA StoredIs == TypeInv => StoredFacts
<1> SUFFICES ASSUME TypeInv, NEW j PROVE j \in Stored <=> Somewhere(j)
  BY DEF StoredFacts
<1>1. DOMAIN pending = 1..Len(pending)
  BY DEF TypeInv, TypeOK
<1>2. QED
  BY <1>1 DEF Stored, Somewhere, PendingJobs, ProcessingJobs, DeadJobs, Carried, InSeq,
              InBag, InHand

LEMMA StoredIsNext == TypeInv' => StoredFacts'
BY StoredIs, PTL

\* What each command leaves in a list, distinct jobs or not.
LEMMA SeqKeeps ==
  ASSUME NEW s \in Seq(Entry), NEW j
  PROVE  /\ s # <<>> /\ InSeq(s, j) => InSeq(Tail(s), j) \/ j = Head(s).job
         /\ \A e \in Entry : /\ InSeq(s, j) => InSeq(Append(s, e), j)
                             /\ InSeq(Append(s, e), e.job)
<1>1. ASSUME s # <<>>, InSeq(s, j), j # Head(s).job PROVE InSeq(Tail(s), j)
  <2>1. /\ Len(s) \in Nat /\ Len(s) > 0 /\ Len(Tail(s)) = Len(s) - 1 /\ Head(s) = s[1]
        /\ \A i \in 1..(Len(s) - 1) : Tail(s)[i] = s[i + 1]
    BY <1>1
  <2>2. PICK i \in 1..Len(s) : s[i].job = j
    BY <1>1 DEF InSeq
  <2>3. i - 1 \in 1..(Len(s) - 1) /\ Tail(s)[i - 1] = s[i]
    BY <1>1, <2>1, <2>2
  <2>4. QED
    BY <2>1, <2>2, <2>3 DEF InSeq
<1>2. ASSUME NEW e \in Entry
      PROVE  (InSeq(s, j) => InSeq(Append(s, e), j)) /\ InSeq(Append(s, e), e.job)
  <2>1. /\ Len(s) \in Nat /\ Len(Append(s, e)) = Len(s) + 1
        /\ \A i \in 1..Len(s) : Append(s, e)[i] = s[i]
        /\ Append(s, e)[Len(s) + 1] = e
    OBVIOUS
  <2>2. QED
    BY <2>1 DEF InSeq
<1>3. QED
  BY <1>1, <1>2

LEMMA BagKeeps ==
  ASSUME NEW list \in [Entry -> Nat], NEW e \in Entry, NEW j
  PROVE  /\ InBag(list, j) => InBag(Pushed(list, e), j)
         /\ InBag(Pushed(list, e), e.job)
         /\ InBag(list, j) => InBag(LRem(list, e), j) \/ j = e.job
<1>1. \A f \in Entry : /\ Pushed(list, e)[f] = IF f = e THEN list[e] + 1 ELSE list[f]
                       /\ f # e => LRem(list, e)[f] = list[f]
  BY DEF Pushed, LRem
<1>2. QED
  BY <1>1 DEF InBag

LEMMA HandKeeps ==
  ASSUME TypeInv, NEW w \in Workers, NEW f, Step(w, f), NEW j
  PROVE  /\ InHand(j) => InHand(j)' \/ (worker[w].at = "push" /\ j = worker[w].held.job)
         /\ f.at = "push" /\ f.held.job = j => InHand(j)'
<1>1. \A v \in Workers : worker'[v] = IF v = w THEN f ELSE worker[v]
  BY DEF Step, TypeInv, TypeOK
<1>2. QED
  BY <1>1 DEF InHand

Fault == cutOff' + redisErrors' = cutOff + redisErrors + 1

CutOff(p) == {w \in p : worker[w].at = "push"}

LEMMA ReplyCounts ==
  ASSUME TypeInv, NEW reply \in Replies, Reply(reply), cutOff' = cutOff
  PROVE  reply # "ok" => Fault
BY DEF Reply, Fault, TypeInv, TypeOK

LEMMA EnqueueLoss ==
  ASSUME TypeInv, NEW j \in Jobs, NEW reply \in Replies, Enqueue(j, reply)
  PROVE  LosesOnly({})
<1> DEFINE e == [job |-> j, retry |-> 0]
<1>1. e \in Entry /\ e.job = j
  BY DEF Entry
<1> pending \in Seq(Entry)
  BY DEF TypeInv, TypeOK
<1>2. /\ pending' = IF Applied(reply) THEN Append(pending, e) ELSE pending
      /\ accepted' = IF reply = "ok" THEN accepted \cup {j} ELSE accepted
      /\ UNCHANGED <<processing, dead, worker, settled>>
  BY DEF Enqueue
<1> HIDE DEF e
<1>3. \A i : InSeq(pending, i) => InSeq(pending', i)
  BY <1>1, <1>2, SeqKeeps
<1>4. reply = "ok" => InSeq(pending', j)
  BY <1>1, <1>2, SeqKeeps DEF Applied
<1>5. \A i : (InHand(i) <=> InHand(i)')
  BY <1>2 DEF InHand
<1>6. QED
  BY <1>2, <1>3, <1>4, <1>5 DEF LosesOnly, Somewhere

\* The entry that leaves the right end is put into the processing list.
LEMMA PopLoss ==
  ASSUME TypeInv, NEW w \in Workers, NEW f, Step(w, f), worker[w].at = "idle", pending # <<>>,
         pending' = Tail(pending), processing' = Pushed(processing, Head(pending)),
         UNCHANGED <<dead, accepted, settled>>
  PROVE  LosesOnly({})
<1>1. Head(pending) \in Entry /\ pending \in Seq(Entry) /\ processing \in [Entry -> Nat]
  BY DEF TypeInv, TypeOK
<1>2. \A j : InSeq(pending, j) => InSeq(pending', j) \/ InBag(processing', j)
  BY <1>1, SeqKeeps, BagKeeps
<1>3. \A j : InBag(processing, j) => InBag(processing', j)
  BY <1>1, BagKeeps
<1>4. \A j : InHand(j) => InHand(j)'
  BY HandKeeps
<1>5. QED
  BY <1>2, <1>3, <1>4 DEF LosesOnly, Somewhere

\* A step that touches no list loses at most what its worker carried.
LEMMA HandLoss ==
  ASSUME TypeInv, NEW w \in Workers, NEW f, Step(w, f), UNCHANGED <<lists, accepted, settled>>
  PROVE  /\ LosesOnly({worker[w].held.job})
         /\ worker[w].at # "push" => LosesOnly({})
<1>1. \A j : InHand(j) => InHand(j)' \/ (worker[w].at = "push" /\ j = worker[w].held.job)
  BY HandKeeps
<1>2. QED
  BY <1>1 DEF LosesOnly, Somewhere, lists

\* An LREM loses at most the job it is for.
LEMMA LRemLoss ==
  ASSUME TypeInv, NEW w \in Workers, NEW f, Step(w, f), worker[w].at \in {"ack", "remove"},
         processing' \in {processing, LRem(processing, worker[w].held)},
         UNCHANGED <<pending, dead, accepted>>, settled \subseteq settled'
  PROVE  /\ LosesOnly({worker[w].held.job})
         /\ worker[w].held.job \in settled' => LosesOnly({})
         /\ f.at = "push" /\ f.held = worker[w].held => LosesOnly({})
<1>1. worker[w].held \in Entry /\ processing \in [Entry -> Nat]
  BY DEF TypeInv, TypeOK, Busy
<1>2. \A j : InBag(processing, j) => InBag(processing', j) \/ j = worker[w].held.job
  BY <1>1, BagKeeps
<1>3. \A j : InHand(j) => InHand(j)'
  BY HandKeeps
<1>4. \A j : f.at = "push" /\ f.held.job = j => InHand(j)'
  BY HandKeeps
<1>5. QED
  BY <1>2, <1>3, <1>4 DEF LosesOnly, Somewhere

LEMMA AckLoss ==
  ASSUME TypeInv, NEW w \in Workers, NEW reply \in Replies, Ack(w, reply)
  PROVE  LosesOnly({}) \/ (Fault /\ \E j : LosesOnly({j}))
<1> DEFINE f == IF reply = "ok" THEN Empty("idle") ELSE Rejected(w)
<1>1. /\ Step(w, f) /\ worker[w].at \in {"ack", "remove"} /\ Reply(reply) /\ cutOff' = cutOff
      /\ processing' \in {processing, LRem(processing, worker[w].held)}
      /\ UNCHANGED <<pending, dead, accepted>> /\ settled \subseteq settled'
      /\ reply = "ok" => worker[w].held.job \in settled'
  BY DEF Ack
<1> HIDE DEF f
<1>2. QED
  BY <1>1, LRemLoss, ReplyCounts

LEMMA RemoveLoss ==
  ASSUME TypeInv, NEW w \in Workers, NEW reply \in Replies, Remove(w, reply)
  PROVE  LosesOnly({}) \/ (Fault /\ \E j : LosesOnly({j}))
<1> DEFINE f == IF reply = "ok" THEN [worker[w] EXCEPT !.at = "push"] ELSE Rejected(w)
<1>1. /\ Step(w, f) /\ worker[w].at \in {"ack", "remove"} /\ Reply(reply) /\ cutOff' = cutOff
      /\ processing' \in {processing, LRem(processing, worker[w].held)}
      /\ UNCHANGED <<pending, dead, accepted>> /\ settled \subseteq settled'
  BY DEF Remove, history
<1>2. reply = "ok" => f.at = "push" /\ f.held = worker[w].held
  BY DEF TypeInv, TypeOK, Worker
<1> HIDE DEF f
<1>3. QED
  BY <1>1, <1>2, LRemLoss, ReplyCounts

\* What a retry pushes.
LEMMA AgainType ==
  ASSUME NEW e \in Entry
  PROVE  LET again == [e EXCEPT !.retry = @ + 1]
         IN  again.job = e.job /\ (e.retry < MaxRetries => again \in Entry)
BY DEF Entry

LEMMA PushLoss ==
  ASSUME TypeInv, NEW w \in Workers, NEW reply \in Replies, Push(w, reply)
  PROVE  LosesOnly({}) \/ (Fault /\ \E j : LosesOnly({j}))
<1> DEFINE f == IF reply = "ok" THEN Empty("idle") ELSE Rejected(w)
           e == worker[w].held
           again == [e EXCEPT !.retry = @ + 1]
<1>1. worker[w].at = "push" /\ e \in Entry /\ worker[w].plan \in {"retry", "dead"}
  BY DEF Push, TypeInv, TypeOK, Worker
<1>2. worker[w].plan = "retry" => e.retry < MaxRetries
  BY <1>1 DEF TypeInv, PlanInv
<1>3. again.job = e.job /\ (worker[w].plan = "retry" => again \in Entry)
  BY <1>1, <1>2, AgainType
<1>4. /\ Step(w, f) /\ Reply(reply) /\ cutOff' = cutOff
      /\ pending' = IF Applied(reply) /\ worker[w].plan = "retry"
                    THEN Append(pending, again) ELSE pending
      /\ dead' = IF Applied(reply) /\ worker[w].plan = "dead" THEN Pushed(dead, e) ELSE dead
      /\ UNCHANGED <<processing, accepted, settled>>
  BY DEF Push, history
<1>5. pending \in Seq(Entry) /\ dead \in [Entry -> Nat]
  BY DEF TypeInv, TypeOK
<1> HIDE DEF f, e, again
<1>6. \A j : /\ InSeq(pending, j) => InSeq(pending', j)
             /\ InBag(dead, j) => InBag(dead', j)
  BY <1>1, <1>3, <1>4, <1>5, SeqKeeps, BagKeeps
<1>7. Applied(reply) => InSeq(pending', e.job) \/ InBag(dead', e.job)
  BY <1>1, <1>3, <1>4, <1>5, SeqKeeps, BagKeeps
<1>8. \A j : InHand(j) => InHand(j)' \/ j = e.job
  BY <1>4, HandKeeps DEF e
<1>9. CASE Applied(reply)
  <2>1. LosesOnly({})
    BY <1>4, <1>6, <1>7, <1>8, <1>9 DEF LosesOnly, Somewhere
  <2>2. QED
    BY <2>1
<1>10. CASE ~Applied(reply)
  <2>1. LosesOnly({e.job})
    BY <1>4, <1>6, <1>8, <1>10 DEF LosesOnly, Somewhere
  <2>2. Fault
    BY <1>4, <1>10, ReplyCounts DEF Applied
  <2>3. QED
    BY <2>1, <2>2
<1>11. QED
  BY <1>9, <1>10

LEMMA NextLoss ==
  ASSUME TypeInv, [Next]_vars
  PROVE  \/ LosesOnly({})
         \/ Fault /\ \E j : LosesOnly({j})
         \/ \E p \in Processes : /\ cutOff' + redisErrors'
                                       = cutOff + redisErrors + Cardinality(CutOff(p))
                                  /\ LosesOnly({worker[w].held.job : w \in CutOff(p)})
<1>1. ASSUME NEW w \in Workers, Fetch(w) PROVE LosesOnly({})
  <2>1. /\ Step(w, [Empty("handling") EXCEPT !.held = Head(pending)])
        /\ worker[w].at = "idle" /\ pending # <<>> /\ pending' = Tail(pending)
        /\ processing' = Pushed(processing, Head(pending))
        /\ UNCHANGED <<dead, accepted, settled>>
    BY <1>1 DEF Fetch
  <2>2. QED
    BY <2>1, PopLoss
<1>2. ASSUME NEW w \in Workers, NEW reply \in Replies, FetchFails(w, reply)
      PROVE  LosesOnly({})
  <2>1. /\ Step(w, Empty("ended")) /\ worker[w].at = "idle"
        /\ UNCHANGED <<dead, accepted, settled>>
        /\ \/ /\ pending # <<>> /\ pending' = Tail(pending)
              /\ processing' = Pushed(processing, Head(pending))
           \/ UNCHANGED <<pending, processing>>
    BY <1>2 DEF FetchFails, history
  <2>2. QED
    BY <2>1, PopLoss, HandLoss DEF lists
<1>3. ASSUME NEW w \in Workers, NEW outcome \in Outcomes, Handle(w, outcome)
      PROVE  LosesOnly({})
  <2>1. PICK f : Step(w, f)
    BY <1>3 DEF Handle
  <2>2. worker[w].at = "handling" /\ UNCHANGED <<lists, accepted, settled>>
    BY <1>3 DEF Handle
  <2>3. QED
    BY <2>1, <2>2, HandLoss
<1>4. ASSUME NEW p \in Processes, Crash(p)
      PROVE  /\ cutOff' + redisErrors' = cutOff + redisErrors + Cardinality(CutOff(p))
             /\ LosesOnly({worker[w].held.job : w \in CutOff(p)})
  <2>1. \A v \in Workers : worker'[v] = worker[v] \/ v \in p
    BY <1>4, StopStep
  <2>2. \A j : InHand(j) => InHand(j)' \/ j \in {worker[w].held.job : w \in CutOff(p)}
    BY <2>1 DEF InHand, CutOff
  <2>3. UNCHANGED <<pending, processing, dead, accepted, settled>>
    BY <1>4, StopStep
  <2>4. LosesOnly({worker[w].held.job : w \in CutOff(p)})
    BY <2>2, <2>3 DEF LosesOnly, Somewhere
  <2>5. Cardinality(CutOff(p)) \in Nat
    <3>1. CutOff(p) \subseteq Workers
      BY ProcessAssumption DEF CutOff
    <3>2. QED
      BY <3>1, ProcessAssumption, FS_Subset, FS_CardinalityType
  <2>6. cutOff' = cutOff + Cardinality(CutOff(p)) /\ redisErrors' = redisErrors
    BY <1>4 DEF Crash, CutOff
  <2>7. QED
    BY <2>4, <2>5, <2>6 DEF TypeInv, TypeOK
<1>5. ASSUME NEW p \in Processes, Restart(p) PROVE LosesOnly({})
  <2>1. \A v \in Workers : worker'[v] = worker[v] \/ worker[v].at # "push"
    <3>1. \A v \in Workers : worker'[v] = worker[v] \/ v \in p
      BY <1>5, StopStep
    <3>2. QED
      BY <1>5, <3>1 DEF Restart
  <2>2. \A j : InHand(j) => InHand(j)'
    BY <2>1 DEF InHand
  <2>3. QED
    BY <1>5, <2>2, StopStep DEF LosesOnly, Somewhere
<1>6. CASE UNCHANGED vars
  BY <1>6 DEF vars, lists, history, LosesOnly, Somewhere, InHand
<1>7. QED
  BY <1>1, <1>2, <1>3, <1>4, <1>5, <1>6, EnqueueLoss, AckLoss, RemoveLoss, PushLoss
  DEF Next, Command

\* Faults are never taken back, and enqueue accepts one job at a time.
LEMMA FaultsGrow ==
  ASSUME TypeInv, [Next]_vars
  PROVE  /\ cutOff' + redisErrors' >= cutOff + redisErrors
         /\ accepted' = accepted \/ \E j : accepted' = accepted \cup {j}
<1>1. cutOff \in Nat /\ redisErrors \in Nat
  BY DEF TypeInv, TypeOK
<1>2. cutOff' + redisErrors' >= cutOff + redisErrors
  <2>1. ASSUME NEW reply \in Replies, Reply(reply), cutOff' = cutOff
        PROVE  cutOff' + redisErrors' >= cutOff + redisErrors
    BY <1>1, <2>1 DEF Reply
  <2>2. ASSUME UNCHANGED <<cutOff, redisErrors>>
        PROVE  cutOff' + redisErrors' >= cutOff + redisErrors
    BY <1>1, <2>2
  <2>3. ASSUME NEW p \in Processes, Crash(p)
        PROVE  cutOff' + redisErrors' >= cutOff + redisErrors
    <3>1. CutOff(p) \subseteq Workers
      BY ProcessAssumption DEF CutOff
    <3>2. Cardinality(CutOff(p)) \in Nat
      BY <3>1, ProcessAssumption, FS_Subset, FS_CardinalityType
    <3>3. cutOff' = cutOff + Cardinality(CutOff(p)) /\ redisErrors' = redisErrors
      BY <2>3 DEF Crash, CutOff
    <3>4. QED
      BY <1>1, <3>2, <3>3
  <2>4. QED
    BY <2>1, <2>2, <2>3 DEF Next, Command, vars, faults, Enqueue, Fetch, FetchFails, Ack,
                            Remove, Push, Handle, Restart
<1>3. accepted' = accepted \/ \E j : accepted' = accepted \cup {j}
  BY DEF Next, Command, vars, history, Enqueue, Fetch, FetchFails, Ack, Remove, Push, Handle,
         Crash, Restart
<1>4. QED
  BY <1>2, <1>3

\* A bounded finite set stays bounded by what it is bounded by, if that grows by as many
\* as may have come.
LEMMA StaysBounded ==
  ASSUME NEW S, IsFiniteSet(S), NEW C, IsFiniteSet(C), NEW T, T \subseteq S \cup C,
         NEW a \in Nat, NEW b \in Nat, NEW n \in Nat,
         Cardinality(S) <= a, Cardinality(C) <= n, b >= a + n
  PROVE  Cardinality(T) <= b
<1>1. Cardinality(S) \in Nat /\ Cardinality(C) \in Nat
  BY FS_CardinalityType
<1>2. /\ IsFiniteSet(S \cup C) /\ IsFiniteSet(S \cap C)
      /\ Cardinality(S \cup C) = Cardinality(S) + Cardinality(C) - Cardinality(S \cap C)
  BY FS_Union, FS_Intersection
<1>3. Cardinality(S \cap C) \in Nat
  BY <1>2, FS_CardinalityType
<1>4. Cardinality(T) <= Cardinality(S \cup C) /\ Cardinality(T) \in Nat
      /\ Cardinality(S \cup C) \in Nat
  BY <1>2, FS_Subset, FS_CardinalityType
<1>5. QED
  BY <1>1, <1>2, <1>3, <1>4

LEMMA SumType ==
  ASSUME NEW a \in Nat, NEW b \in Nat PROVE a + b \in Nat
OBVIOUS

\* A set of loops holds no more jobs than it has loops.
LEMMA JobsOf ==
  ASSUME NEW W, IsFiniteSet(W)
  PROVE  /\ IsFiniteSet({worker[w].held.job : w \in W})
         /\ Cardinality({worker[w].held.job : w \in W}) <= Cardinality(W)
<1> DEFINE T == {worker[w].held.job : w \in W}
           f == [w \in W |-> worker[w].held.job]
<1>1. f \in Surjection(W, T)
  BY DEF Surjection
<1>2. QED
  BY <1>1, FS_Surjection

LEMMA LossStep == TypeInv /\ LossInv /\ [Next]_vars => LossInv'
<1> SUFFICES ASSUME TypeInv, LossInv, [Next]_vars PROVE LossInv'
  OBVIOUS
<1>1. TypeInv' /\ accepted' \subseteq Jobs /\ accepted \subseteq Jobs
  BY TypeStep DEF TypeInv, TypeOK
<1>2. IsFiniteSet(accepted')
  BY FaultsGrow, FS_AddElement DEF LossInv
<1>3. IsFiniteSet(Lost) /\ Cardinality(Lost) <= cutOff + redisErrors
  BY FS_Subset DEF LossInv, Lost
<1>4. ASSUME NEW S, LosesOnly(S) PROVE Lost' \subseteq Lost \cup S
  BY <1>1, <1>4, StoredIs, StoredIsNext DEF StoredFacts, LosesOnly, Lost
<1>5. cutOff + redisErrors \in Nat /\ cutOff' + redisErrors' \in Nat
  <2>1. /\ cutOff \in Nat /\ redisErrors \in Nat
        /\ cutOff' \in Nat /\ redisErrors' \in Nat
    BY <1>1 DEF TypeInv, TypeOK
  <2>2. QED
    BY <2>1, SumType
<1> DEFINE Bounded == Cardinality(Lost') <= cutOff' + redisErrors'
<1>6. ASSUME NEW C, IsFiniteSet(C), NEW n \in Nat, Cardinality(C) <= n, LosesOnly(C),
             cutOff' + redisErrors' >= cutOff + redisErrors + n
      PROVE  Bounded
  BY <1>3, <1>4, <1>5, <1>6, StaysBounded
<1> HIDE DEF Bounded
<1>7. ASSUME LosesOnly({}) PROVE Bounded
  <2>1. IsFiniteSet({}) /\ Cardinality({}) = 0
    BY FS_EmptySet
  <2>2. cutOff' + redisErrors' >= cutOff + redisErrors + 0
    BY <1>5, FaultsGrow DEF TypeInv, TypeOK
  <2>3. 0 \in Nat /\ Cardinality({}) <= 0
    BY <2>1
  <2>4. QED
    BY <1>6, <1>7, <2>1, <2>2, <2>3
<1>8. ASSUME Fault, NEW j, LosesOnly({j}) PROVE Bounded
  <2>1. IsFiniteSet({j}) /\ Cardinality({j}) = 1
    BY FS_Singleton
  <2>2. cutOff' + redisErrors' >= cutOff + redisErrors + 1
    BY <1>5, <1>8 DEF Fault
  <2>3. QED
    BY <1>6, <1>8, <2>1, <2>2
<1>9. ASSUME NEW p \in Processes,
             cutOff' + redisErrors' = cutOff + redisErrors + Cardinality(CutOff(p)),
             LosesOnly({worker[w].held.job : w \in CutOff(p)})
      PROVE  Bounded
  <2> DEFINE C == {worker[w].held.job : w \in CutOff(p)}
  <2>1. CutOff(p) \subseteq Workers
    BY ProcessAssumption DEF CutOff
  <2>2. IsFiniteSet(CutOff(p)) /\ Cardinality(CutOff(p)) \in Nat
    BY <2>1, ProcessAssumption, FS_Subset, FS_CardinalityType
  <2>3. IsFiniteSet(C) /\ Cardinality(C) <= Cardinality(CutOff(p))
    BY <2>2, JobsOf
  <2> HIDE DEF C
  <2>4. cutOff' + redisErrors' >= cutOff + redisErrors + Cardinality(CutOff(p))
    BY <1>5, <1>9, <2>2
  <2>5. LosesOnly(C)
    BY <1>9 DEF C
  <2>6. QED
    BY <1>6, <2>2, <2>3, <2>4, <2>5
<1>10. QED
  BY <1>2, <1>7, <1>8, <1>9, NextLoss DEF LossInv, Bounded

\* Whatever is rejected or crashes, the jobs that enqueue returned and that are lost are at
\* most one for each failed command and one for each loop that a crash of its process caught
\* between LREM and LPUSH: all others are acknowledged, in a list, or with a worker.
THEOREM LossIsBounded == Spec => []LossBound
<1>1. Init => LossInv
  <2> SUFFICES ASSUME Init PROVE LossInv
    OBVIOUS
  <2>1. accepted = {}
    BY DEF Init
  <2>2. cutOff = 0 /\ redisErrors = 0
    BY DEF Init
  <2>3. Lost = {}
    BY <2>1 DEF Lost
  <2>4. QED
    BY <2>1, <2>2, <2>3, FS_EmptySet DEF LossInv
<1>2. LossInv => LossBound
  BY DEF LossInv, LossBound, Lost
<1>3. QED
  BY <1>1, <1>2, TypeInit, TypeStep, LossStep, PTL DEF Spec

(***************************************************************************)
(* A job that is done waits in no list, and the worker that still holds it *)
(* will not put it back.                                                   *)
(***************************************************************************)
DoneJobs == succeeded \cup declined

Leaving(w) ==
  \/ worker[w].at = "ack"
  \/ worker[w].at \in {"remove", "push"} /\ worker[w].plan = "dead"

DoneInv ==
  \A j \in DoneJobs :
    /\ j \in submitted
    /\ ~InSeq(pending, j)
    /\ \A w \in Workers : worker[w].held # None /\ worker[w].held.job = j => Leaving(w)

(***************************************************************************)
(* The retryCount of an entry counts the runs of its job: all of them while *)
(* it waits, all but the present one while a worker holds it.              *)
(***************************************************************************)
RunInv ==
  /\ \A i \in 1..Len(pending) : runs[pending[i].job] <= pending[i].retry
  /\ \A w \in Workers :
       worker[w].held # None => runs[worker[w].held.job] <= worker[w].held.retry + 1
  /\ \A j \in Jobs : runs[j] <= MaxRetries + 1 /\ (j \notin submitted => runs[j] = 0)

\* The next job out was submitted, no worker holds it, and it is in the list once.
LEMMA NextOut ==
  ASSUME TypeInv, PlaceInv, pending # <<>>
  PROVE  /\ Head(pending) \in Entry /\ Head(pending).job \in Jobs
         /\ Head(pending).job \in submitted /\ InSeq(pending, Head(pending).job)
         /\ \A v \in Workers :
              worker[v].held # None => worker[v].held.job # Head(pending).job
         /\ runs[Head(pending).job] \in Nat
<1>1. Len(pending) \in Nat \ {0} /\ Head(pending) = pending[1] /\ Head(pending) \in Entry
  BY DEF TypeInv, TypeOK
<1>2. Head(pending).job \in Jobs /\ InSeq(pending, Head(pending).job)
  BY <1>1 DEF Entry, InSeq
<1>3. Apart(Head(pending).job) /\ Known(Head(pending).job)
  BY <1>2 DEF PlaceInv
<1>4. QED
  BY <1>1, <1>2, <1>3, HeldSomewhere DEF Apart, Known, TypeInv, TypeOK

\* The job a worker holds was submitted, no other worker holds it, and it does not wait.
LEMMA HeldAlone ==
  ASSUME TypeInv, PlaceInv, NEW w \in Workers, worker[w].held # None
  PROVE  /\ worker[w].held \in Entry /\ worker[w].held.job \in Jobs
         /\ worker[w].held.job \in submitted /\ ~InSeq(pending, worker[w].held.job)
         /\ \A v \in Workers :
              worker[v].held # None /\ worker[v].held.job = worker[w].held.job => v = w
<1>1. /\ worker[w].held \in Entry
      /\ InBag(processing, worker[w].held.job) \/ InHand(worker[w].held.job)
  BY HeldSomewhere
<1>2. worker[w].held.job \in Jobs
  BY <1>1 DEF Entry
<1>3. Apart(worker[w].held.job) /\ Known(worker[w].held.job)
  BY <1>2 DEF PlaceInv
<1>4. QED
  BY <1>1, <1>2, <1>3 DEF Apart, Known, PlaceInv, Alone

LEMMA DoneInit == Init => DoneInv
BY DEF Init, DoneInv, DoneJobs

LEMMA DoneStep ==
  ASSUME TypeInv, PlaceInv, DoneInv, [Next]_vars, redisErrors' = 0
  PROVE  DoneInv'
<1>1. ASSUME NEW j \in Jobs, NEW reply \in Replies, Enqueue(j, reply) PROVE DoneInv'
  <2>1. /\ DoneJobs' = DoneJobs /\ worker' = worker /\ submitted' = submitted \cup {j}
        /\ j \notin DoneJobs
        /\ pending' = pending \/ pending' = Append(pending, [job |-> j, retry |-> 0])
    BY <1>1 DEF Enqueue, DoneJobs, DoneInv
  <2>2. \A i : InSeq(pending', i) => InSeq(pending, i) \/ i = j
    <3>1. pending \in Seq(Entry) /\ [job |-> j, retry |-> 0] \in Entry
      BY DEF TypeInv, TypeOK, Entry
    <3>2. \A i \in 1..Len(pending') :
            \/ i \in 1..Len(pending) /\ pending'[i] = pending[i]
            \/ pending'[i].job = j
      BY <2>1, <3>1
    <3>3. QED
      BY <3>2 DEF InSeq
  <2>3. QED
    BY <2>1, <2>2 DEF DoneInv, Leaving
<1>2. ASSUME NEW w \in Workers, Fetch(w) PROVE DoneInv'
  <2> DEFINE e == Head(pending)
             f == [Empty("handling") EXCEPT !.held = e]
  <2>1. /\ DoneJobs' = DoneJobs /\ submitted' = submitted /\ pending # <<>>
        /\ pending' = Tail(pending) /\ Step(w, f)
    BY <1>2 DEF Fetch, DoneJobs
  <2>2. InSeq(pending, e.job) /\ f.held = e
    BY <2>1, NextOut DEF Empty
  <2> HIDE DEF e, f
  <2>3. \A i : InSeq(pending', i) => InSeq(pending, i)
    BY <2>1, TailJobs DEF TypeInv, TypeOK, PlaceInv
  <2>4. \A v \in Workers : worker'[v] = IF v = w THEN f ELSE worker[v]
    BY <2>1 DEF Step, TypeInv, TypeOK
  <2>5. QED
    BY <2>1, <2>2, <2>3, <2>4 DEF DoneInv, Leaving
<1>3. ASSUME NEW w \in Workers, NEW reply \in Replies, FetchFails(w, reply) PROVE DoneInv'
  BY <1>3, ReplyType DEF FetchFails, TypeInv
<1>4. ASSUME NEW w \in Workers, NEW reply \in Replies, Ack(w, reply) \/ Remove(w, reply)
      PROVE  DoneInv'
  <2> DEFINE f == IF worker[w].at = "ack" THEN Empty("idle")
                                          ELSE [worker[w] EXCEPT !.at = "push"]
  <2>1. /\ DoneJobs' = DoneJobs /\ submitted' = submitted /\ pending' = pending
        /\ Step(w, f) /\ worker[w].at \in {"ack", "remove"}
    BY <1>4, ReplyType DEF Ack, Remove, history, DoneJobs, TypeInv
  <2>2. \/ f.held = None
        \/ /\ worker[w].at = "remove" /\ f.at = "push"
           /\ f.held = worker[w].held /\ f.plan = worker[w].plan
    BY <2>1 DEF Empty, TypeInv, TypeOK, Worker
  <2> HIDE DEF f
  <2>3. \A v \in Workers : worker'[v] = IF v = w THEN f ELSE worker[v]
    BY <2>1 DEF Step, TypeInv, TypeOK
  <2>4. QED
    BY <2>1, <2>2, <2>3 DEF DoneInv, Leaving
<1>5. ASSUME NEW w \in Workers, NEW reply \in Replies, Push(w, reply) PROVE DoneInv'
  <2> DEFINE e == worker[w].held
             n == [e EXCEPT !.retry = @ + 1]
  <2>1. /\ DoneJobs' = DoneJobs /\ submitted' = submitted /\ worker[w].at = "push"
        /\ Step(w, Empty("idle"))
        /\ pending' = IF worker[w].plan = "retry" THEN Append(pending, n) ELSE pending
    BY <1>5, ReplyType DEF Push, Applied, history, DoneJobs, TypeInv
  <2>2. e \in Entry /\ e # None
    BY <2>1, QueueAssumption DEF TypeInv, TypeOK, Entry
  <2>3. worker[w].plan = "retry" => n \in Entry /\ n.job = e.job /\ e.job \notin DoneJobs
    BY <2>1, <2>2 DEF TypeInv, PlanInv, Entry, DoneInv, Leaving
  <2> HIDE DEF e, n
  <2>4. ASSUME NEW i \in DoneJobs PROVE ~InSeq(pending', i)
    <3>1. ~InSeq(pending, i) /\ pending \in Seq(Entry)
      BY DEF DoneInv, TypeInv, TypeOK
    <3>2. CASE worker[w].plan = "retry"
      <4>1. \A k \in 1..Len(pending') :
              \/ k \in 1..Len(pending) /\ pending'[k] = pending[k]
              \/ pending'[k] = n
        BY <2>1, <2>3, <3>1, <3>2
      <4>2. QED
        BY <2>3, <3>1, <3>2, <4>1 DEF InSeq
    <3>3. QED
      BY <2>1, <3>1, <3>2
  <2>5. \A v \in Workers : worker'[v] = IF v = w THEN Empty("idle") ELSE worker[v]
    BY <2>1 DEF Step, TypeInv, TypeOK
  <2>6. QED
    BY <2>1, <2>4, <2>5 DEF DoneInv, Leaving, Empty
<1>6. ASSUME NEW w \in Workers, NEW outcome \in Outcomes, Handle(w, outcome)
      PROVE  DoneInv'
  <2> DEFINE job == worker[w].held.job
  <2>1. /\ worker[w].at = "handling" /\ worker[w].held # None
        /\ pending' = pending /\ submitted' = submitted
    BY <1>6, QueueAssumption DEF Handle, lists, TypeInv, TypeOK, Busy, Entry
  <2>2. /\ job \in submitted /\ ~InSeq(pending, job)
        /\ \A v \in Workers : worker[v].held # None /\ worker[v].held.job = job => v = w
    BY <2>1, HeldAlone
  <2>3. job \notin DoneJobs
    BY <2>1 DEF DoneInv, Leaving
  <2>4. worker[w] \in Worker /\ worker[w].held.retry \in Nat
    BY <2>1, HeldAlone DEF TypeInv, TypeOK, Entry
  <2>5. CASE outcome \in {"success", "permanent"}
    <3>1. DoneJobs' = DoneJobs \cup {job}
      BY <1>6, <2>5 DEF Handle, DoneJobs
    <3>2. Leaving(w)'
      BY <1>6, <2>4, <2>5
      DEF Handle, Leaving, Step, Failed, PlanFor, Worker, TypeInv, TypeOK
    <3>3. \A v \in Workers : v # w => worker'[v] = worker[v]
      BY <1>6, <2>5 DEF Handle, Step, TypeInv, TypeOK
    <3>4. QED
      BY <2>1, <2>2, <3>1, <3>2, <3>3 DEF DoneInv, Leaving
  <2>6. CASE outcome \in {"failure", "throws"}
    <3>1. DoneJobs' = DoneJobs
      BY <1>6, <2>6 DEF Handle, DoneJobs
    <3>2. worker'[w].held = worker[w].held
      BY <1>6, <2>4, <2>6 DEF Handle, Step, Failed, Worker, TypeInv, TypeOK
    <3>3. \A v \in Workers : v # w => worker'[v] = worker[v]
      BY <1>6, <2>6 DEF Handle, Step, TypeInv, TypeOK
    <3>4. QED
      BY <2>1, <2>3, <3>1, <3>2, <3>3 DEF DoneInv, Leaving
  <2>7. QED
    BY <2>5, <2>6 DEF Outcomes
<1>7. ASSUME NEW p \in Processes, Crash(p) \/ Restart(p) PROVE DoneInv'
  <2>2. DoneJobs' = DoneJobs /\ submitted' = submitted /\ pending' = pending
    BY <1>7, StopStep DEF DoneJobs
  <2>3. PICK state \in {"down", "idle"} : \A v \in Workers :
          worker'[v] = IF v \in p THEN Empty(state) ELSE worker[v]
    BY <1>7, StopStep
  <2>4. QED
    BY <2>2, <2>3 DEF DoneInv, Leaving, Empty
<1>8. CASE UNCHANGED vars
  BY <1>8 DEF vars, lists, faults, history, DoneInv, DoneJobs, Leaving
<1>9. QED
  BY <1>1, <1>2, <1>3, <1>4, <1>5, <1>6, <1>7, <1>8 DEF Next, Command

LEMMA RunInit == Init => RunInv
<1> SUFFICES ASSUME Init PROVE RunInv
  OBVIOUS
<1>1. Len(pending) = 0 /\ \A w \in Workers : worker[w].held = None
  BY DEF Init, Empty
<1>2. QED
  BY <1>1 DEF Init, RunInv

LEMMA RunStep ==
  ASSUME TypeInv, PlaceInv, RunInv, [Next]_vars, redisErrors' = 0
  PROVE  RunInv'
<1>1. ASSUME NEW j \in Jobs, NEW reply \in Replies, Enqueue(j, reply) PROVE RunInv'
  <2> DEFINE e == [job |-> j, retry |-> 0]
  <2>1. /\ pending' = Append(pending, e) \/ pending' = pending
        /\ runs' = runs /\ worker' = worker /\ submitted' = submitted \cup {j}
        /\ j \notin submitted
    BY <1>1 DEF Enqueue
  <2>2. pending \in Seq(Entry) /\ e \in Entry /\ e.job = j /\ e.retry = 0
    BY DEF TypeInv, TypeOK, Entry
  <2> HIDE DEF e
  <2>3. \A i \in 1..Len(pending') :
          \/ i \in 1..Len(pending) /\ pending'[i] = pending[i]
          \/ pending'[i] = e
    BY <2>1, <2>2
  <2>4. QED
    BY <2>1, <2>2, <2>3 DEF RunInv
<1>2. ASSUME NEW w \in Workers, Fetch(w) PROVE RunInv'
  <2> DEFINE e == Head(pending)
             f == [Empty("handling") EXCEPT !.held = e]
  <2>1. /\ submitted' = submitted /\ pending # <<>> /\ pending' = Tail(pending) /\ Step(w, f)
        /\ runs' = [runs EXCEPT ![e.job] = IF @ < RunCap THEN @ + 1 ELSE @]
    BY <1>2 DEF Fetch
  <2>2. /\ e \in Entry /\ e.job \in Jobs /\ e.job \in submitted /\ f.held = e
        /\ \A v \in Workers : worker[v].held # None => worker[v].held.job # e.job
    BY <2>1, NextOut DEF Empty
  <2>3. /\ pending \in Seq(Entry) /\ Len(pending) \in Nat \ {0} /\ e = pending[1]
        /\ Len(pending') = Len(pending) - 1
        /\ \A i \in 1..Len(pending') : pending'[i] = pending[i + 1]
        /\ runs \in [Jobs -> Nat] /\ e.retry \in 0..MaxRetries
    BY <2>1, <2>2 DEF TypeInv, TypeOK, Entry
  <2> HIDE DEF e, f
  <2>4. runs[e.job] <= e.retry
    BY <2>3 DEF RunInv
  <2>5. runs'[e.job] \in Nat /\ runs'[e.job] <= e.retry + 1
    BY <2>1, <2>2, <2>3, <2>4 DEF RunCap
  <2>6. \A j \in Jobs : j # e.job => runs'[j] = runs[j]
    BY <2>1, <2>3
  <2>7. \A v \in Workers : worker'[v] = IF v = w THEN f ELSE worker[v]
    BY <2>1 DEF Step, TypeInv, TypeOK
  <2>8. ASSUME NEW i \in 1..Len(pending') PROVE runs'[pending'[i].job] <= pending'[i].retry
    <3>1. i + 1 \in 1..Len(pending) /\ pending'[i] = pending[i + 1] /\ i + 1 # 1
      BY <2>3
    <3>2. pending[i + 1] \in Entry /\ 1 \in 1..Len(pending)
      BY <2>3, <3>1
    <3>3. pending[i + 1].job # e.job /\ pending[i + 1].job \in Jobs
      BY <2>3, <3>1, <3>2 DEF PlaceInv, Distinct, Entry
    <3>4. QED
      BY <2>6, <3>1, <3>3 DEF RunInv
  <2>9. ASSUME NEW v \in Workers, worker'[v].held # None
        PROVE  runs'[worker'[v].held.job] <= worker'[v].held.retry + 1
    <3>1. CASE v = w
      BY <2>2, <2>5, <2>7, <3>1
    <3>2. CASE v # w
      <4>1. worker[v].held # None /\ worker'[v] = worker[v]
        BY <2>7, <2>9, <3>2
      <4>2. worker[v].held.job \in Jobs /\ worker[v].held.job # e.job
        BY <2>2, <4>1, HeldAlone
      <4>3. QED
        BY <2>6, <4>1, <4>2 DEF RunInv
    <3>3. QED
      BY <3>1, <3>2
  <2>10. \A j \in Jobs : runs'[j] <= MaxRetries + 1 /\ (j \notin submitted => runs'[j] = 0)
    BY <2>2, <2>3, <2>5, <2>6 DEF RunInv
  <2>11. QED
    BY <2>1, <2>8, <2>9, <2>10 DEF RunInv
<1>3. ASSUME NEW w \in Workers, NEW reply \in Replies, FetchFails(w, reply) PROVE RunInv'
  BY <1>3, ReplyType DEF FetchFails, TypeInv
<1>4. ASSUME NEW w \in Workers, NEW reply \in Replies, Push(w, reply) PROVE RunInv'
  <2> DEFINE e == worker[w].held
             n == [e EXCEPT !.retry = @ + 1]
  <2>1. /\ submitted' = submitted /\ runs' = runs /\ worker[w].at = "push"
        /\ Step(w, Empty("idle"))
        /\ pending' = IF worker[w].plan = "retry" THEN Append(pending, n) ELSE pending
    BY <1>4, ReplyType DEF Push, Applied, history, TypeInv
  <2>2. e \in Entry /\ e # None
    BY <2>1, QueueAssumption DEF TypeInv, TypeOK, Entry
  <2>3. worker[w].plan = "retry" => n \in Entry /\ n.job = e.job /\ n.retry = e.retry + 1
    BY <2>1, <2>2 DEF TypeInv, PlanInv, Entry
  <2>4. runs[e.job] <= e.retry + 1
    BY <2>2 DEF RunInv
  <2>5. \A v \in Workers : worker'[v] = IF v = w THEN Empty("idle") ELSE worker[v]
    BY <2>1 DEF Step, TypeInv, TypeOK
  <2> HIDE DEF e, n
  <2>6. ASSUME NEW i \in 1..Len(pending') PROVE runs'[pending'[i].job] <= pending'[i].retry
    <3>1. CASE worker[w].plan = "retry"
      <4>1. pending \in Seq(Entry)
        BY DEF TypeInv, TypeOK
      <4>2. \/ i \in 1..Len(pending) /\ pending'[i] = pending[i]
            \/ pending'[i] = n
        BY <2>1, <2>3, <3>1, <4>1
      <4>3. QED
        BY <2>1, <2>3, <2>4, <3>1, <4>2 DEF RunInv
    <3>2. CASE worker[w].plan # "retry"
      BY <2>1, <3>2 DEF RunInv
    <3>3. QED
      BY <3>1, <3>2
  <2>7. QED
    BY <2>1, <2>5, <2>6 DEF RunInv, Empty
<1>5. ASSUME NEW w \in Workers, NEW f, Step(w, f), f.held \in {None, worker[w].held},
             UNCHANGED <<pending, runs, submitted>>
      PROVE  RunInv'
  <2>1. \A v \in Workers : worker'[v] = IF v = w THEN f ELSE worker[v]
    BY <1>5 DEF Step, TypeInv, TypeOK
  <2>2. QED
    BY <1>5, <2>1 DEF RunInv
<1>6. ASSUME NEW w \in Workers, NEW reply \in Replies, Ack(w, reply) \/ Remove(w, reply)
      PROVE  RunInv'
  <2>1. /\ UNCHANGED <<pending, runs, submitted>>
        /\ \/ Step(w, Empty("idle"))
           \/ Step(w, [worker[w] EXCEPT !.at = "push"])
    BY <1>6, ReplyType DEF Ack, Remove, history, TypeInv
  <2>2. QED
    BY <1>5, <2>1 DEF Empty, TypeInv, TypeOK, Worker
<1>7. ASSUME NEW w \in Workers, NEW outcome \in Outcomes, Handle(w, outcome) PROVE RunInv'
  <2>1. UNCHANGED <<pending, runs, submitted>>
    BY <1>7 DEF Handle, lists
  <2>2. PICK f : Step(w, f) /\ f.held = worker[w].held
    <3>1. \A limit \in 0..MaxRetries, inCatch \in BOOLEAN :
            Failed(w, limit, inCatch).held = worker[w].held
      BY DEF Failed, TypeInv, TypeOK, Worker
    <3>2. [worker[w] EXCEPT !.at = "ack"].held = worker[w].held
      BY DEF TypeInv, TypeOK, Worker
    <3>3. 0 \in 0..MaxRetries /\ MaxRetries \in 0..MaxRetries
      OBVIOUS
    <3>4. QED
      BY <1>7, <3>1, <3>2, <3>3 DEF Handle, Outcomes
  <2>3. QED
    BY <1>5, <2>1, <2>2
<1>8. ASSUME NEW p \in Processes, Crash(p) \/ Restart(p) PROVE RunInv'
  <2>1. UNCHANGED <<pending, runs, submitted>>
    BY <1>8, StopStep
  <2>2. PICK state \in {"down", "idle"} : \A v \in Workers :
          worker'[v] = IF v \in p THEN Empty(state) ELSE worker[v]
    BY <1>8, StopStep
  <2>3. QED
    BY <2>1, <2>2 DEF RunInv, Empty
<1>9. CASE UNCHANGED vars
  BY <1>9 DEF vars, lists, history, RunInv
<1>10. QED
  BY <1>1, <1>2, <1>3, <1>4, <1>6, <1>7, <1>8, <1>9 DEF Next, Command

(* While Redis answers, everything holds together. *)
LifeInv == TypeInv /\ (redisErrors = 0 => PlaceInv /\ DoneInv /\ RunInv)

LEMMA ErrorsStay == TypeInv /\ [Next]_vars /\ redisErrors' = 0 => redisErrors = 0
BY ReplyType
DEF TypeInv, Next, Command, Enqueue, Fetch, FetchFails, Handle, Ack, Remove, Push, Crash,
    Restart, faults, vars

LEMMA LifeCorrect == Spec => []LifeInv
<1>1. Init => LifeInv
  BY TypeInit, PlaceInit, DoneInit, RunInit DEF LifeInv
<1>2. LifeInv /\ [Next]_vars => LifeInv'
  BY TypeStep, PlaceStep, DoneStep, RunStep, ErrorsStay DEF LifeInv
<1>3. QED
  BY <1>1, <1>2, PTL DEF Spec

\* Whatever workers crash and restart, while Redis answers every command a job is
\* run at most maxRetries + 1 times.
THEOREM RunsAreBounded == Spec => []RunBudget
<1>1. LifeInv => RunBudget
  BY DEF LifeInv, RunBudget, RunInv
<1>2. QED
  BY <1>1, LifeCorrect, PTL

\* While Redis answers every command, a job that succeeded, or whose handler
\* declined a retry, is never handed to a handler again.
THEOREM DoneIsDone == Spec => NeverRunAgain
<1> DEFINE Kept == redisErrors' = 0 => \A j \in DoneJobs : runs'[j] = runs[j]
<1>1. ASSUME LifeInv, [Next]_vars, redisErrors' = 0, NEW j \in DoneJobs
      PROVE  runs'[j] = runs[j]
  <2>1. TypeInv /\ PlaceInv /\ DoneInv
    BY <1>1, ErrorsStay DEF LifeInv
  <2>2. ASSUME NEW w \in Workers, Fetch(w) PROVE runs'[j] = runs[j]
    <3>1. Head(pending).job # j
      BY <2>1, <2>2, NextOut DEF Fetch, DoneInv
    <3>2. QED
      BY <2>1, <2>2, <3>1 DEF Fetch, TypeInv, TypeOK
  <2>3. ~(\E w \in Workers : Fetch(w)) => runs' = runs
    BY <1>1 DEF Next, Command, Enqueue, FetchFails, Handle, Ack, Remove, Push, Crash,
                Restart, history, vars
  <2>4. QED
    BY <2>2, <2>3
<1>2. LifeInv /\ [Next]_vars => Kept
  BY <1>1
<1>3. Kept => (redisErrors' = 0 =>
                 \A j \in succeeded \cup declined : runs'[j] = runs[j])
  BY DEF DoneJobs
<1>4. QED
  BY <1>2, <1>3, LifeCorrect, PTL DEF Spec, NeverRunAgain

-----------------------------------------------------------------------------
(* What reaches the dead letter list *)

(***************************************************************************)
(* An entry on its way to the dead letter list has no attempt left, or its *)
(* handler declined one: also if the first plan was given up for that of   *)
(* the catch block.                                                        *)
(***************************************************************************)
Earned(e, jobs) == e.retry = MaxRetries \/ e.job \in jobs

Dying(f) == f.at \in {"remove", "push"} /\ f.plan = "dead"

DeadInv ==
  /\ \A e \in Entry : dead[e] > 0 => Earned(e, declined)
  /\ \A w \in Workers : Dying(worker[w]) => Earned(worker[w].held, declined)

(* While Redis answers, a job that succeeded is not in the dead letter list, and its worker
   only acknowledges it. *)
WonInv ==
  \A j \in succeeded :
    /\ ~InBag(dead, j)
    /\ \A w \in Workers :
         worker[w].held # None /\ worker[w].held.job = j => worker[w].at = "ack"

(* A worker's step keeps DeadInv if what the worker plans is earned. *)
LEMMA DyingStep ==
  ASSUME TypeInv, DeadInv, NEW w \in Workers, NEW f, Step(w, f), dead' = dead,
         declined \subseteq declined', Dying(f) => Earned(f.held, declined')
  PROVE  DeadInv'
<1>1. \A v \in Workers : worker'[v] = IF v = w THEN f ELSE worker[v]
  BY DEF Step, TypeInv, TypeOK
<1>2. \A e : Earned(e, declined) => Earned(e, declined')
  BY DEF Earned
<1>3. QED
  BY <1>1, <1>2 DEF DeadInv, Earned

(* With the full limit a job is given up only after its last attempt. *)
LEMMA FailedEarned ==
  ASSUME TypeInv, NEW w \in Workers, worker[w].held \in Entry, NEW inCatch \in BOOLEAN,
         Dying(Failed(w, MaxRetries, inCatch))
  PROVE  Failed(w, MaxRetries, inCatch).held.retry = MaxRetries
<1>1. MaxRetries \in 0..MaxRetries /\ worker[w] \in Worker
  BY DEF TypeInv, TypeOK
<1>2. Failed(w, MaxRetries, inCatch).held = worker[w].held
      /\ Failed(w, MaxRetries, inCatch).plan = PlanFor(worker[w].held, MaxRetries)
  BY <1>1 DEF Failed, Worker
<1>3. PlanFor(worker[w].held, MaxRetries) = "dead"
  BY <1>2 DEF Dying
<1>4. worker[w].held.retry \in 0..MaxRetries /\ ~(worker[w].held.retry < MaxRetries)
  BY <1>3 DEF PlanFor, Entry
<1>5. QED
  BY <1>2, <1>4

LEMMA RejectedEarned ==
  ASSUME TypeInv, NEW w \in Workers, worker[w].held \in Entry, Dying(Rejected(w))
  PROVE  Rejected(w).held.retry = MaxRetries
<1>1. ~Dying(Empty("ended"))
  BY DEF Dying, Empty
<1>2. QED
  BY <1>1, FailedEarned DEF Rejected

LEMMA DeadStep == TypeInv /\ DeadInv /\ [Next]_vars => DeadInv'
<1> SUFFICES ASSUME TypeInv, DeadInv, [Next]_vars PROVE DeadInv'
  OBVIOUS
<1>1. ASSUME NEW state \in {"handling", "idle", "ended", "down"} PROVE ~Dying(Empty(state))
  BY DEF Dying, Empty
<1>2. CASE \E j \in Jobs, reply \in Replies : Enqueue(j, reply)
  BY <1>2 DEF Enqueue, DeadInv, Earned
<1>3. ASSUME NEW w \in Workers, Fetch(w) PROVE DeadInv'
  <2>1. ~Dying([Empty("handling") EXCEPT !.held = Head(pending)])
    BY DEF Dying, Empty
  <2>2. QED
    BY <1>3, <2>1, DyingStep DEF Fetch
<1>4. ASSUME NEW w \in Workers, NEW reply \in Replies, FetchFails(w, reply) PROVE DeadInv'
  BY <1>1, <1>4, DyingStep DEF FetchFails, history
<1>5. ASSUME NEW w \in Workers, NEW reply \in Replies, Ack(w, reply) PROVE DeadInv'
  <2>1. worker[w].held \in Entry
    BY <1>5 DEF Ack, TypeInv, TypeOK, Busy
  <2>2. Step(w, IF reply = "ok" THEN Empty("idle") ELSE Rejected(w))
        /\ dead' = dead /\ declined' = declined
    BY <1>5 DEF Ack
  <2>3. Dying(Rejected(w)) => Earned(Rejected(w).held, declined')
    BY <2>1, <2>2, RejectedEarned DEF Earned
  <2>4. QED
    BY <1>1, <2>2, <2>3, DyingStep
<1>6. ASSUME NEW w \in Workers, NEW reply \in Replies, Remove(w, reply) PROVE DeadInv'
  <2> DEFINE f == [worker[w] EXCEPT !.at = "push"]
  <2>1. worker[w].held \in Entry /\ worker[w] \in Worker /\ worker[w].at = "remove"
    BY <1>6 DEF Remove, TypeInv, TypeOK, Busy
  <2>2. Step(w, IF reply = "ok" THEN f ELSE Rejected(w))
        /\ dead' = dead /\ declined' = declined
    BY <1>6 DEF Remove, history
  <2>3. Dying(Rejected(w)) => Earned(Rejected(w).held, declined')
    BY <2>1, <2>2, RejectedEarned DEF Earned
  <2>4. f.held = worker[w].held /\ f.plan = worker[w].plan
    BY <2>1 DEF Worker
  <2>5. Dying(f) => Earned(f.held, declined')
    BY <2>1, <2>2, <2>4 DEF Dying, DeadInv, Earned
  <2> HIDE DEF f
  <2>6. QED
    BY <2>2, <2>3, <2>5, DyingStep
<1>7. ASSUME NEW w \in Workers, NEW reply \in Replies, Push(w, reply) PROVE DeadInv'
  <2> DEFINE f == IF reply = "ok" THEN Empty("idle") ELSE Rejected(w)
             e == worker[w].held
  <2>1. e \in Entry /\ worker[w].at = "push"
    BY <1>7 DEF Push, TypeInv, TypeOK
  <2>2. /\ Step(w, f) /\ declined' = declined
        /\ dead' = IF Applied(reply) /\ worker[w].plan = "dead"
                   THEN Pushed(dead, e) ELSE dead
    BY <1>7 DEF Push, history
  <2>3. Dying(f) => Earned(f.held, declined')
    BY <1>1, <2>1, <2>2, RejectedEarned DEF Earned
  <2>4. ASSUME NEW d \in Entry, dead'[d] > 0 PROVE Earned(d, declined)
    <3>1. CASE dead' = dead
      BY <2>4, <3>1 DEF DeadInv
    <3>2. CASE dead' = Pushed(dead, e) /\ worker[w].plan = "dead"
      <4>1. Earned(e, declined)
        BY <2>1, <3>2 DEF DeadInv, Dying
      <4>2. d # e => dead'[d] = dead[d]
        BY <2>1, <3>2 DEF Pushed, TypeInv, TypeOK
      <4>3. QED
        BY <2>4, <4>1, <4>2 DEF DeadInv
    <3>3. QED
      BY <2>2, <3>1, <3>2
  <2>5. \A v \in Workers : worker'[v] = IF v = w THEN f ELSE worker[v]
    BY <2>2 DEF Step, TypeInv, TypeOK
  <2> HIDE DEF f, e
  <2>6. QED
    BY <2>2, <2>3, <2>4, <2>5 DEF DeadInv, Earned
<1>8. ASSUME NEW w \in Workers, NEW outcome \in Outcomes, Handle(w, outcome) PROVE DeadInv'
  <2>1. worker[w].held \in Entry /\ worker[w] \in Worker /\ worker[w].at = "handling"
    BY <1>8 DEF Handle, TypeInv, TypeOK, Busy
  <2>2. dead' = dead /\ declined \subseteq declined'
        /\ (outcome = "permanent" => worker[w].held.job \in declined')
    BY <1>8 DEF Handle, lists
  <2>3. CASE outcome = "success"
    <3>1. Step(w, [worker[w] EXCEPT !.at = "ack"])
      BY <1>8, <2>3 DEF Handle
    <3>2. ~Dying([worker[w] EXCEPT !.at = "ack"])
      BY <2>1 DEF Dying, Worker
    <3>3. QED
      BY <2>2, <3>1, <3>2, DyingStep
  <2>4. CASE outcome = "permanent"
    <3>1. Step(w, Failed(w, 0, FALSE))
      BY <1>8, <2>4 DEF Handle
    <3>2. Failed(w, 0, FALSE).held = worker[w].held
      BY <2>1 DEF Failed, Worker
    <3>3. Earned(Failed(w, 0, FALSE).held, declined')
      BY <2>2, <2>4, <3>2 DEF Earned
    <3>4. QED
      BY <2>2, <3>1, <3>3, DyingStep
  <2>5. CASE outcome \in {"failure", "throws"}
    <3>1. PICK inCatch \in BOOLEAN : Step(w, Failed(w, MaxRetries, inCatch))
      BY <1>8, <2>5 DEF Handle
    <3>2. Dying(Failed(w, MaxRetries, inCatch))
          => Earned(Failed(w, MaxRetries, inCatch).held, declined')
      BY <2>1, FailedEarned DEF Earned
    <3>3. QED
      BY <2>2, <3>1, <3>2, DyingStep
  <2>6. QED
    BY <2>3, <2>4, <2>5 DEF Outcomes
<1>9. ASSUME NEW p \in Processes, Crash(p) \/ Restart(p) PROVE DeadInv'
  <2>1. PICK state \in {"down", "idle"} : \A v \in Workers :
          worker'[v] = IF v \in p THEN Empty(state) ELSE worker[v]
    BY <1>9, StopStep
  <2>2. dead' = dead /\ declined' = declined
    BY <1>9, StopStep
  <2>3. QED
    BY <1>1, <2>1, <2>2 DEF DeadInv, Earned
<1>10. CASE UNCHANGED vars
  BY <1>10 DEF vars, lists, history, DeadInv, Earned
<1>11. QED
  BY <1>2, <1>3, <1>4, <1>5, <1>6, <1>7, <1>8, <1>9, <1>10 DEF Next, Command

(* A worker's step keeps WonInv if the worker holds no job that succeeded, or acknowledges
   it. *)
LEMMA WonWorker ==
  ASSUME TypeInv, WonInv, NEW w \in Workers, NEW f, Step(w, f),
         succeeded' = succeeded, dead' = dead,
         f.held = None \/ f.held.job \notin succeeded
  PROVE  WonInv'
<1>1. \A v \in Workers : worker'[v] = IF v = w THEN f ELSE worker[v]
  BY DEF Step, TypeInv, TypeOK
<1>2. QED
  BY <1>1 DEF WonInv

LEMMA WonStep ==
  ASSUME TypeInv, PlaceInv, DoneInv, WonInv, [Next]_vars, redisErrors' = 0
  PROVE  WonInv'
<1>1. CASE \E j \in Jobs, reply \in Replies : Enqueue(j, reply)
  BY <1>1 DEF Enqueue, WonInv
<1>2. ASSUME NEW w \in Workers, Fetch(w) PROVE WonInv'
  <2> DEFINE f == [Empty("handling") EXCEPT !.held = Head(pending)]
  <2>1. /\ pending # <<>> /\ Step(w, f)
        /\ succeeded' = succeeded /\ dead' = dead
    BY <1>2 DEF Fetch
  <2>2. f.held = Head(pending) /\ Head(pending).job \notin succeeded
    BY <2>1, NextOut DEF Empty, DoneInv, DoneJobs
  <2> HIDE DEF f
  <2>3. QED
    BY <2>1, <2>2, WonWorker
<1>3. ASSUME NEW w \in Workers, NEW reply \in Replies,
             FetchFails(w, reply) \/ Ack(w, reply)
      PROVE  WonInv'
  <2>1. PICK state \in {"ended", "idle"} : Step(w, Empty(state))
    BY <1>3, ReplyType DEF FetchFails, Ack, TypeInv
  <2>2. succeeded' = succeeded /\ dead' = dead
    BY <1>3 DEF FetchFails, Ack, history
  <2>3. Empty(state).held = None
    BY DEF Empty
  <2>4. QED
    BY <2>1, <2>2, <2>3, WonWorker
<1>4. ASSUME NEW w \in Workers, NEW reply \in Replies, Remove(w, reply) PROVE WonInv'
  <2> DEFINE f == [worker[w] EXCEPT !.at = "push"]
  <2>1. /\ worker[w].at = "remove" /\ Step(w, f)
        /\ succeeded' = succeeded /\ dead' = dead
    BY <1>4, ReplyType DEF Remove, history, TypeInv
  <2>2. f.held = worker[w].held
    BY DEF TypeInv, TypeOK, Worker
  <2>3. f.held = None \/ f.held.job \notin succeeded
    BY <2>1, <2>2 DEF WonInv
  <2> HIDE DEF f
  <2>4. QED
    BY <2>1, <2>3, WonWorker
<1>5. ASSUME NEW w \in Workers, NEW reply \in Replies, Push(w, reply) PROVE WonInv'
  <2> DEFINE e == worker[w].held
  <2>1. /\ worker[w].at = "push" /\ Step(w, Empty("idle")) /\ succeeded' = succeeded
        /\ dead' = dead \/ dead' = Pushed(dead, e)
    BY <1>5, ReplyType DEF Push, history, TypeInv
  <2>2. e \in Entry /\ e # None
    BY <2>1, QueueAssumption DEF TypeInv, TypeOK, Entry
  <2>3. e.job \notin succeeded
    BY <2>1, <2>2 DEF WonInv
  <2>4. \A j : InBag(dead', j) => InBag(dead, j) \/ j = e.job
    BY <2>1, <2>2 DEF InBag, Pushed, TypeInv, TypeOK
  <2>5. \A v \in Workers : worker'[v] = IF v = w THEN Empty("idle") ELSE worker[v]
    BY <2>1 DEF Step, TypeInv, TypeOK
  <2> HIDE DEF e
  <2>6. QED
    BY <2>1, <2>3, <2>4, <2>5 DEF WonInv, Empty
<1>6. ASSUME NEW w \in Workers, NEW outcome \in Outcomes, Handle(w, outcome) PROVE WonInv'
  <2> DEFINE job == worker[w].held.job
  <2>1. /\ worker[w].at = "handling" /\ worker[w] \in Worker /\ dead' = dead
        /\ worker[w].held \in Entry /\ worker[w].held # None
    BY <1>6, QueueAssumption DEF Handle, lists, TypeInv, TypeOK, Busy, Entry
  <2>2. job \in Jobs /\ InBag(processing, job)
    BY <2>1 DEF PlaceInv, HeldInv, Busy, InBag, Entry
  <2>3. ~InBag(dead, job)
    BY <2>2 DEF PlaceInv, Apart
  <2>4. \A v \in Workers : worker[v].held # None /\ worker[v].held.job = job => v = w
    BY <2>1, HeldAlone
  <2>5. job \notin succeeded
    BY <2>1 DEF WonInv
  <2>6. CASE outcome = "success"
    <3>1. succeeded' = succeeded \cup {job} /\ Step(w, [worker[w] EXCEPT !.at = "ack"])
      BY <1>6, <2>6 DEF Handle
    <3>2. worker'[w].at = "ack" /\ \A v \in Workers : v # w => worker'[v] = worker[v]
      BY <2>1, <3>1 DEF Step, TypeInv, TypeOK, Worker
    <3>3. QED
      BY <2>1, <2>3, <2>4, <3>1, <3>2 DEF WonInv
  <2>7. CASE outcome # "success"
    <3>1. succeeded' = succeeded
      BY <1>6, <2>7 DEF Handle
    <3>2. PICK limit \in {0, MaxRetries}, inCatch \in BOOLEAN :
            Step(w, Failed(w, limit, inCatch))
      BY <1>6, <2>7 DEF Handle, Outcomes
    <3>3. Failed(w, limit, inCatch).held = worker[w].held
      BY <2>1 DEF Failed, Worker
    <3>4. QED
      BY <2>1, <2>5, <3>1, <3>2, <3>3, WonWorker
  <2>8. QED
    BY <2>6, <2>7
<1>7. ASSUME NEW p \in Processes, Crash(p) \/ Restart(p) PROVE WonInv'
  <2>1. PICK state \in {"down", "idle"} : \A v \in Workers :
          worker'[v] = IF v \in p THEN Empty(state) ELSE worker[v]
    BY <1>7, StopStep
  <2>2. succeeded' = succeeded /\ dead' = dead /\ Empty(state).held = None
    BY <1>7, StopStep DEF Empty
  <2>3. QED
    BY <2>1, <2>2 DEF WonInv
<1>8. CASE UNCHANGED vars
  BY <1>8 DEF vars, lists, history, WonInv
<1>9. QED
  BY <1>1, <1>2, <1>3, <1>4, <1>5, <1>6, <1>7, <1>8 DEF Next, Command

(* An entry reaches the dead letter list only after its last attempt or because the handler
   declined a retry; with no failed command, never after a success. *)
THEOREM DeadIsJustified == Spec => []DeadJustified
<1>1. Init => DeadInv /\ WonInv
  <2>1. \A w \in Workers : ~Dying(Empty("idle"))
    BY DEF Dying, Empty
  <2>2. QED
    BY <2>1 DEF Init, DeadInv, WonInv
<1>2. LifeInv /\ DeadInv /\ [Next]_vars => DeadInv'
  BY DeadStep DEF LifeInv
<1>3. LifeInv /\ (redisErrors = 0 => WonInv) /\ [Next]_vars => (redisErrors = 0 => WonInv)'
  BY WonStep, ErrorsStay DEF LifeInv
<1>4. DeadInv /\ (redisErrors = 0 => WonInv) => DeadJustified
  BY DEF DeadInv, Earned, WonInv, InBag, DeadJustified
<1>5. QED
  BY <1>1, <1>2, <1>3, <1>4, LifeCorrect, PTL DEF Spec

-----------------------------------------------------------------------------
(* The queue implements JobLifecycle while Redis answers *)

(***************************************************************************)
(* What a job's phase is, by where the job is. Settled jobs are in no list *)
(* a worker reads, because they succeeded.                                 *)
(***************************************************************************)
PhaseFacts ==
  \A j \in Jobs :
    /\ j \in settled => Phase(j) = "done"
    /\ j \notin settled =>
         /\ InBag(dead, j) => Phase(j) = "dead"
         /\ InSeq(pending, j) => Phase(j) = "queued"
         /\ InBag(processing, j) \/ InHand(j) => Phase(j) = "running"
         /\ ~InBag(dead, j) /\ ~InSeq(pending, j) /\ ~InBag(processing, j) /\ ~InHand(j)
              => Phase(j) = IF j \in submitted THEN "lost" ELSE "new"

LEMMA PhaseIs == TypeInv /\ PlaceInv => PhaseFacts
<1> SUFFICES ASSUME TypeInv, PlaceInv, NEW j \in Jobs
             PROVE  PhaseFacts!(j)
  BY DEF PhaseFacts
<1>1. DOMAIN pending = 1..Len(pending)
  BY DEF TypeInv, TypeOK
<1>2. /\ j \in PendingJobs <=> InSeq(pending, j)
      /\ j \in ProcessingJobs <=> InBag(processing, j)
      /\ j \in DeadJobs <=> InBag(dead, j)
      /\ j \in Carried <=> InHand(j)
  BY <1>1 DEF PendingJobs, ProcessingJobs, DeadJobs, Carried, InSeq, InBag, InHand
<1>3. Apart(j)
  BY DEF PlaceInv
<1>4. j \in settled => Phase(j) = "done"
  BY DEF Phase
<1>5. ASSUME j \notin settled, InBag(dead, j) PROVE Phase(j) = "dead"
  BY <1>2, <1>5 DEF Phase
<1>6. ASSUME j \notin settled, InSeq(pending, j) PROVE Phase(j) = "queued"
  BY <1>2, <1>3, <1>6 DEF Phase, Apart
<1>7. ASSUME j \notin settled, InBag(processing, j) \/ InHand(j) PROVE Phase(j) = "running"
  BY <1>2, <1>3, <1>7 DEF Phase, Apart
<1>8. ASSUME j \notin settled, ~InBag(dead, j), ~InSeq(pending, j), ~InBag(processing, j),
             ~InHand(j)
      PROVE  Phase(j) = IF j \in submitted THEN "lost" ELSE "new"
  BY <1>2, <1>8 DEF Phase
<1>9. QED
  BY <1>4, <1>5, <1>6, <1>7, <1>8

\* Acknowledged jobs succeeded; so they are done.
SettledInv ==
  /\ settled \subseteq succeeded
  /\ \A w \in Workers : worker[w].at = "ack" => worker[w].held.job \in succeeded

QueueInv == LifeInv /\ SettledInv

LEMMA AllAnswered ==
  ASSUME redisErrors = 0, redisErrors' = 0, NEW reply \in Replies, Reply(reply)
  PROVE  reply = "ok"
BY DEF Reply

LEMMA SettledStep == TypeInv /\ SettledInv /\ [Next]_vars => SettledInv'
<1> SUFFICES ASSUME TypeInv, SettledInv, [Next]_vars PROVE SettledInv'
  OBVIOUS
<1>1. ASSUME NEW w \in Workers, NEW f, Step(w, f), f.at = "ack" => f.held.job \in succeeded',
             settled' \subseteq succeeded', succeeded \subseteq succeeded'
      PROVE  SettledInv'
  BY <1>1 DEF Step, SettledInv, TypeInv, TypeOK
<1>2. ASSUME NEW state \in {"handling", "idle", "ended", "down"} PROVE Empty(state).at # "ack"
  BY <1>2 DEF Empty
<1>3. ASSUME NEW w \in Workers PROVE Rejected(w).at # "ack"
  BY DEF Rejected, Failed, Empty, TypeInv, TypeOK, Worker
<1>4. CASE \E j \in Jobs, reply \in Replies : Enqueue(j, reply)
  BY <1>4 DEF Enqueue, SettledInv
<1>5. ASSUME NEW w \in Workers, Fetch(w) PROVE SettledInv'
  <2>1. [Empty("handling") EXCEPT !.held = Head(pending)].at # "ack"
    BY DEF Empty
  <2>2. QED
    BY <1>1, <1>5, <2>1 DEF Fetch, SettledInv
<1>6. ASSUME NEW w \in Workers, NEW reply \in Replies, FetchFails(w, reply) PROVE SettledInv'
  BY <1>1, <1>2, <1>6 DEF FetchFails, history, SettledInv
<1>7. ASSUME NEW w \in Workers, NEW reply \in Replies, Ack(w, reply) PROVE SettledInv'
  BY <1>1, <1>2, <1>3, <1>7 DEF Ack, SettledInv
<1>8. ASSUME NEW w \in Workers, NEW reply \in Replies, Remove(w, reply) PROVE SettledInv'
  <2>1. [worker[w] EXCEPT !.at = "push"].at # "ack"
    BY DEF TypeInv, TypeOK, Worker
  <2>2. QED
    BY <1>1, <1>3, <1>8, <2>1 DEF Remove, history, SettledInv
<1>9. ASSUME NEW w \in Workers, NEW reply \in Replies, Push(w, reply) PROVE SettledInv'
  BY <1>1, <1>2, <1>3, <1>9 DEF Push, history, SettledInv
<1>10. ASSUME NEW w \in Workers, NEW outcome \in Outcomes, Handle(w, outcome)
       PROVE  SettledInv'
  <2>1. \A limit, inCatch : Failed(w, limit, inCatch).at = "remove"
    BY DEF Failed, TypeInv, TypeOK, Worker
  <2>2. [worker[w] EXCEPT !.at = "ack"].held.job = worker[w].held.job
    BY DEF TypeInv, TypeOK, Worker
  <2>3. settled' = settled /\ succeeded \subseteq succeeded'
    BY <1>10 DEF Handle
  <2>4. CASE outcome = "success"
    <3>1. /\ Step(w, [worker[w] EXCEPT !.at = "ack"])
          /\ worker[w].held.job \in succeeded'
      BY <1>10, <2>4 DEF Handle
    <3>2. QED
      BY <1>1, <2>2, <2>3, <3>1 DEF SettledInv
  <2>5. CASE outcome # "success"
    <3>1. PICK f : Step(w, f) /\ f.at = "remove"
      BY <1>10, <2>1, <2>5 DEF Handle, Outcomes
    <3>2. QED
      BY <1>1, <2>3, <3>1 DEF SettledInv
  <2>6. QED
    BY <2>4, <2>5
<1>11. ASSUME NEW p \in Processes, Crash(p) \/ Restart(p) PROVE SettledInv'
  <2>1. PICK state \in {"down", "idle"} : \A v \in Workers :
          worker'[v] = IF v \in p THEN Empty(state) ELSE worker[v]
    BY <1>11, StopStep
  <2>2. settled' = settled /\ succeeded' = succeeded
    BY <1>11, StopStep
  <2>3. QED
    BY <1>2, <2>1, <2>2 DEF SettledInv
<1>12. CASE UNCHANGED vars
  BY <1>12 DEF vars, history, SettledInv
<1>13. QED
  BY <1>4, <1>5, <1>6, <1>7, <1>8, <1>9, <1>10, <1>11, <1>12 DEF Next, Command

LEMMA QueueCorrect == Spec => []QueueInv
<1>1. Init => QueueInv
  <2>1. Init => LifeInv
    BY TypeInit, PlaceInit, DoneInit, RunInit DEF LifeInv
  <2>2. Init => SettledInv
    BY DEF Init, SettledInv, Empty
  <2>3. QED
    BY <2>1, <2>2 DEF QueueInv
<1>2. QueueInv /\ [Next]_vars => QueueInv'
  <2>1. LifeInv /\ [Next]_vars => LifeInv'
    BY TypeStep, PlaceStep, DoneStep, RunStep, ErrorsStay DEF LifeInv
  <2>2. QED
    BY <2>1, SettledStep DEF QueueInv, LifeInv
<1>3. QED
  BY <1>1, <1>2, PTL DEF Spec

LEMMA PhaseIsNext == TypeInv' /\ PlaceInv' => PhaseFacts'
BY PhaseIs, PTL

\* A job that stays where it is stays in its phase; one that is done stays done.
LEMMA SamePhase ==
  ASSUME PhaseFacts, PhaseFacts', NEW i \in Jobs, settled \subseteq settled',
         \/ i \in settled
         \/ /\ i \notin settled' /\ (i \in submitted' <=> i \in submitted)
            /\ InBag(dead', i) <=> InBag(dead, i)
            /\ InSeq(pending', i) <=> InSeq(pending, i)
            /\ InBag(processing', i) \/ InHand(i)' <=> InBag(processing, i) \/ InHand(i)
  PROVE  Phase(i)' = Phase(i)
BY DEF PhaseFacts

\* One job moves and no other does.
LEMMA MoveOne ==
  ASSUME NEW j \in Jobs, NEW from, NEW to, Phase(j) = from, Phase(j)' = to,
         \A i \in Jobs : i # j => Phase(i)' = Phase(i)
  PROVE  Contract!Move(j, from, to)
BY DEF Contract!Move

LEMMA MoveNone ==
  ASSUME \A i \in Jobs : Phase(i)' = Phase(i)
  PROVE  UNCHANGED [j \in Jobs |-> Phase(j)]
OBVIOUS

Tick == Contract!Live \/ UNCHANGED <<[j \in Jobs |-> Phase(j)], runs>>

\* While Redis answers, every step of the queue is a step in the life of one job, or none.
LEMMA LifeStep ==
  ASSUME QueueInv, [Next]_vars, redisErrors = 0, redisErrors' = 0
  PROVE  Tick
<1>1. TypeInv /\ PlaceInv /\ DoneInv /\ RunInv /\ SettledInv
  BY DEF QueueInv, LifeInv
<1>2. redisErrors = 0 /\ redisErrors' = 0
  OBVIOUS
<1>3. TypeInv' /\ PlaceInv' /\ DoneInv' /\ RunInv'
  BY <1>1, <1>2, TypeStep, PlaceStep, DoneStep, RunStep
<1>4. PhaseFacts /\ PhaseFacts'
  BY <1>1, <1>3, PhaseIs, PhaseIsNext
<1>5. /\ Distinct(pending) /\ Single(processing) /\ Single(dead)
      /\ \A i \in Jobs : Apart(i) /\ Known(i)
      /\ \A i \in Jobs : Apart(i)' /\ Known(i)'
      /\ \A i \in Jobs : i \in settled => i \in DoneJobs
  BY <1>1, <1>3 DEF PlaceInv, SettledInv, DoneJobs
<1>6. ASSUME NEW j \in Jobs, NEW reply \in Replies, Enqueue(j, reply) PROVE Tick
  <2> DEFINE e == [job |-> j, retry |-> 0]
  <2>1. /\ j \notin submitted /\ submitted' = submitted \cup {j}
        /\ pending' = Append(pending, e) /\ processing' = processing /\ dead' = dead
        /\ worker' = worker /\ settled' = settled /\ runs' = runs
    BY <1>2, <1>6, ReplyType, <1>1 DEF Enqueue, Applied, TypeInv
  <2>2. ~InSeq(pending, j) /\ ~InBag(processing, j) /\ ~InBag(dead, j) /\ ~InHand(j)
        /\ j \notin settled
    BY <1>1, <1>5, <2>1 DEF Known, DoneInv
  <2>3. e \in Entry /\ e.job = j /\ pending \in Seq(Entry)
    BY <1>1 DEF Entry, TypeInv, TypeOK
  <2> HIDE DEF e
  <2>4. \A i : InSeq(pending', i) <=> InSeq(pending, i) \/ i = j
    BY <1>5, <2>1, <2>2, <2>3, AppendJobs
  <2>5. \A i : InHand(i)' <=> InHand(i)
    BY <2>1 DEF InHand
  <2>6. Phase(j) = "new" /\ Phase(j)' = "queued"
    BY <1>4, <2>1, <2>2, <2>4 DEF PhaseFacts
  <2>7. \A i \in Jobs : i # j => Phase(i)' = Phase(i)
    BY <1>4, <2>1, <2>4, <2>5, SamePhase
  <2>8. Contract!Move(j, "new", "queued")
    BY <2>6, <2>7, MoveOne
  <2>9. QED
    BY <2>1, <2>8 DEF Tick, Contract!Live, Contract!Submit
<1>7. ASSUME NEW w \in Workers, Fetch(w) PROVE Tick
  <2> DEFINE e == Head(pending)
             f == [Empty("handling") EXCEPT !.held = e]
  <2>1. /\ pending # <<>> /\ worker[w].at = "idle" /\ Step(w, f)
        /\ pending' = Tail(pending) /\ processing' = Pushed(processing, e) /\ dead' = dead
        /\ submitted' = submitted /\ settled' = settled
        /\ runs' = [runs EXCEPT ![e.job] = IF @ < RunCap THEN @ + 1 ELSE @]
    BY <1>7 DEF Fetch
  <2>2. PICK j \in Jobs : e \in Entry /\ j = e.job /\ InSeq(pending, j)
    BY <1>1, <2>1, NextOut
  <2>3. runs[j] <= e.retry /\ runs[j] \in Nat /\ e.retry \in 0..MaxRetries
    <3>1. 1 \in 1..Len(pending) /\ e = pending[1] /\ runs[j] \in Nat
      BY <1>1, <2>1, <2>2 DEF TypeInv, TypeOK
    <3>2. QED
      BY <1>1, <2>2, <3>1 DEF RunInv, Entry
  <2>4. /\ ~InBag(processing, j) /\ ~InBag(dead, j) /\ ~InHand(j)
        /\ j \notin settled
    BY <1>1, <1>5, <2>2 DEF Apart, DoneInv
  <2>5. f.at = "handling"
    BY DEF Empty
  <2> HIDE DEF e, f
  <2>6. \A i : InSeq(pending', i) <=> InSeq(pending, i) /\ i # j
    BY <1>1, <1>5, <2>1, <2>2, TailJobs DEF TypeInv, TypeOK, e
  <2>7. \A i : InBag(processing', i) <=> InBag(processing, i) \/ i = j
    BY <1>1, <1>5, <2>1, <2>2, <2>4, PushedJobs DEF TypeInv, TypeOK
  <2>8. \A i : InHand(i)' <=> InHand(i)
    BY <1>1, <2>1, <2>5, HandStep
  <2>9. Phase(j) = "queued" /\ Phase(j)' = "running"
    BY <1>4, <2>1, <2>2, <2>4, <2>7 DEF PhaseFacts
  <2>10. \A i \in Jobs : i # j => Phase(i)' = Phase(i)
    BY <1>4, <2>1, <2>6, <2>7, <2>8, SamePhase
  <2>11. Contract!Move(j, "queued", "running")
    BY <2>2, <2>9, <2>10, MoveOne
  <2>12. runs[j] < MaxRetries + 1 /\ runs' = [runs EXCEPT ![j] = @ + 1]
    <3>1. runs[j] < MaxRetries + 1 /\ runs[j] < RunCap
      BY <2>3 DEF RunCap
    <3>2. runs' = [runs EXCEPT ![j] = IF @ < RunCap THEN @ + 1 ELSE @]
      BY <2>1, <2>2
    <3>3. QED
      BY <3>1, <3>2
  <2>13. QED
    BY <2>2, <2>11, <2>12 DEF Tick, Contract!Live, Contract!Start
<1>8. ASSUME NEW w \in Workers, NEW reply \in Replies, FetchFails(w, reply) PROVE Tick
  BY <1>2, <1>8, AllAnswered DEF FetchFails
<1>9. ASSUME NEW w \in Workers, NEW reply \in Replies, Ack(w, reply) PROVE Tick
  <2> DEFINE e == worker[w].held
  <2>1. /\ worker[w].at = "ack" /\ Step(w, Empty("idle")) /\ processing' = LRem(processing, e)
        /\ pending' = pending /\ dead' = dead /\ submitted' = submitted /\ runs' = runs
        /\ settled' = settled \cup {e.job}
    BY <1>2, <1>9, AllAnswered DEF Ack, Applied
  <2>2. PICK j \in Jobs :
          e \in Entry /\ j = e.job /\ InBag(processing, j) /\ processing[e] > 0
    BY <1>1, <2>1 DEF PlaceInv, HeldInv, Busy, TypeInv, TypeOK, InBag, Entry
  <2> HIDE DEF e
  <2>3. \A i : InBag(processing', i) <=> InBag(processing, i) /\ i # j
    BY <1>1, <1>5, <2>1, <2>2, LRemJobs DEF TypeInv, TypeOK
  <2>4. \A i : InHand(i)' <=> InHand(i)
    BY <1>1, <2>1, HandStep DEF Empty
  <2>5. \A i \in Jobs : i # j => Phase(i)' = Phase(i)
    BY <1>4, <2>1, <2>2, <2>3, <2>4, SamePhase
  <2>6. Phase(j)' = "done"
    BY <1>4, <2>1, <2>2 DEF PhaseFacts
  <2>7. CASE j \in settled
    <3>1. Phase(j)' = Phase(j)
      BY <1>4, <2>2, <2>6, <2>7 DEF PhaseFacts
    <3>2. QED
      BY <2>1, <2>5, <3>1, MoveNone DEF Tick
  <2>8. CASE j \notin settled
    <3>1. Phase(j) = "running"
      BY <1>4, <2>2, <2>8 DEF PhaseFacts
    <3>2. Contract!Move(j, "running", "done")
      BY <2>2, <2>5, <2>6, <3>1, MoveOne
    <3>3. QED
      BY <2>1, <2>2, <3>2 DEF Tick, Contract!Live, Contract!Succeed
  <2>9. QED
    BY <2>7, <2>8
<1>10. ASSUME NEW w \in Workers, NEW reply \in Replies, Remove(w, reply) PROVE Tick
  <2> DEFINE e == worker[w].held
             f == [worker[w] EXCEPT !.at = "push"]
  <2>1. /\ worker[w].at = "remove" /\ Step(w, f) /\ processing' = LRem(processing, e)
        /\ pending' = pending /\ dead' = dead /\ submitted' = submitted /\ runs' = runs
        /\ settled' = settled
    BY <1>2, <1>10, AllAnswered DEF Remove, Applied, history
  <2>2. e \in Entry /\ e.job \in Jobs /\ InBag(processing, e.job) /\ processing[e] > 0
    BY <1>1, <2>1 DEF PlaceInv, HeldInv, Busy, TypeInv, TypeOK, InBag, Entry
  <2>3. f.at = "push" /\ f.held = e
    BY <1>1 DEF TypeInv, TypeOK, Worker
  <2> HIDE DEF e, f
  <2>4. \A i : InBag(processing', i) <=> InBag(processing, i) /\ i # e.job
    BY <1>1, <1>5, <2>1, <2>2, LRemJobs DEF TypeInv, TypeOK
  <2>5. \A i : InHand(i)' <=> InHand(i) \/ i = e.job
    BY <1>1, <2>1, <2>3, HandStep
  <2>6. \A i \in Jobs : Phase(i)' = Phase(i)
    BY <1>4, <2>1, <2>2, <2>4, <2>5, SamePhase
  <2>7. QED
    BY <2>1, <2>6, MoveNone DEF Tick
<1>11. ASSUME NEW w \in Workers, NEW reply \in Replies, Push(w, reply) PROVE Tick
  <2> DEFINE e == worker[w].held
             n == [e EXCEPT !.retry = @ + 1]
  <2>1. /\ worker[w].at = "push" /\ Step(w, Empty("idle"))
        /\ pending' = IF worker[w].plan = "retry" THEN Append(pending, n) ELSE pending
        /\ dead' = IF worker[w].plan = "dead" THEN Pushed(dead, e) ELSE dead
        /\ processing' = processing /\ submitted' = submitted /\ runs' = runs
        /\ settled' = settled
    BY <1>2, <1>11, AllAnswered DEF Push, Applied, history
  <2>2. PICK j \in Jobs : e \in Entry /\ j = e.job /\ e # None /\ InHand(j)
    BY <1>1, <2>1, QueueAssumption DEF TypeInv, TypeOK, Entry, InHand
  <2>3. ~InSeq(pending, j) /\ ~InBag(dead, j) /\ ~InBag(processing, j)
    BY <1>5, <2>2 DEF Apart
  <2>4. \A i : InHand(i)' <=> InHand(i) /\ i # j
    BY <1>1, <2>1, <2>2, HandStep DEF Empty
  <2>5. CASE worker[w].plan = "retry"
    <3>1. n \in Entry /\ n.job = j
      BY <1>1, <2>1, <2>2, <2>5 DEF TypeInv, PlanInv, Entry
    <3>2. runs[j] < MaxRetries + 1
      <4>1. e.retry < MaxRetries /\ e.retry \in 0..MaxRetries
        BY <1>1, <2>1, <2>2, <2>5 DEF TypeInv, PlanInv, Entry
      <4>2. runs[j] <= e.retry + 1 /\ runs[j] \in Nat
        BY <1>1, <2>2 DEF RunInv, TypeInv, TypeOK
      <4>3. QED
        BY <4>1, <4>2
    <3>3. j \notin settled
      BY <1>1, <1>5, <2>1, <2>2, <2>5 DEF DoneInv, Leaving
    <3> HIDE DEF e, n
    <3>4. \A i : InSeq(pending', i) <=> InSeq(pending, i) \/ i = j
      BY <1>1, <1>5, <2>1, <2>3, <2>5, <3>1, AppendJobs DEF TypeInv, TypeOK
    <3>5. Phase(j) = "running" /\ Phase(j)' = "queued"
      BY <1>4, <2>1, <2>2, <3>3, <3>4 DEF PhaseFacts
    <3>6. dead' = dead
      BY <2>1, <2>5
    <3>7. \A i \in Jobs : i # j => Phase(i)' = Phase(i)
      BY <1>4, <2>1, <2>4, <3>4, <3>6, SamePhase
    <3>8. Contract!Move(j, "running", "queued")
      BY <2>2, <3>5, <3>7, MoveOne
    <3>9. QED
      BY <2>1, <2>2, <3>2, <3>8 DEF Tick, Contract!Live, Contract!Retry
  <2>6. CASE worker[w].plan # "retry"
    <3>1. worker[w].plan = "dead"
      BY <1>1, <2>6 DEF TypeInv, TypeOK, Worker
    <3> HIDE DEF e, n
    <3>2. \A i : InBag(dead', i) <=> InBag(dead, i) \/ i = j
      BY <1>1, <1>5, <2>1, <2>2, <2>3, <3>1, PushedJobs DEF TypeInv, TypeOK
    <3>3. \A i \in Jobs : i # j => Phase(i)' = Phase(i)
      BY <1>4, <2>1, <2>4, <2>6, <3>2, SamePhase
    <3>4. CASE j \in settled
      <4>1. Phase(j)' = Phase(j)
        BY <1>4, <2>1, <2>2, <3>4, SamePhase
      <4>2. QED
        BY <2>1, <3>3, <4>1, MoveNone DEF Tick
    <3>5. CASE j \notin settled
      <4>1. Phase(j) = "running" /\ Phase(j)' = "dead"
        BY <1>4, <2>1, <2>2, <3>2, <3>5 DEF PhaseFacts
      <4>2. Contract!Move(j, "running", "dead")
        BY <2>2, <3>3, <4>1, MoveOne
      <4>3. QED
        BY <2>1, <2>2, <4>2 DEF Tick, Contract!Live, Contract!Bury
    <3>6. QED
      BY <3>4, <3>5
  <2>7. QED
    BY <2>5, <2>6
<1>12. ASSUME NEW w \in Workers, NEW outcome \in Outcomes, Handle(w, outcome) PROVE Tick
  <2>1. /\ UNCHANGED <<pending, processing, dead, submitted, settled, runs>>
        /\ worker[w].at = "handling"
    BY <1>12 DEF Handle, lists
  <2>2. PICK f : Step(w, f) /\ f.at # "push"
    <3>1. \A limit, inCatch : Failed(w, limit, inCatch).at = "remove"
      BY <1>1 DEF Failed, TypeInv, TypeOK, Worker
    <3>2. [worker[w] EXCEPT !.at = "ack"].at = "ack"
      BY <1>1 DEF TypeInv, TypeOK, Worker
    <3>3. QED
      BY <1>12, <3>1, <3>2 DEF Handle, Outcomes
  <2>3. \A i : InHand(i)' <=> InHand(i)
    BY <1>1, <2>1, <2>2, HandStep
  <2>4. \A i \in Jobs : Phase(i)' = Phase(i)
    BY <1>4, <2>1, <2>3, SamePhase
  <2>5. QED
    BY <2>1, <2>4, MoveNone DEF Tick
<1>13. ASSUME NEW p \in Processes, Crash(p) \/ Restart(p) PROVE Tick
  <2>0. TypeInv
    BY <1>1
  <2> DEFINE Going == {i \in Jobs : i \notin settled /\ InHand(i) /\ ~InHand(i)'}
  <2>1. UNCHANGED <<pending, processing, dead, submitted, settled, runs>>
    BY <1>13, <2>0, StopStep
  <2>2. PICK state \in {"down", "idle"} : \A v \in Workers :
          worker'[v] = IF v \in p THEN Empty(state) ELSE worker[v]
    BY <1>13, <2>0, StopStep
  <2>3. \A i : InHand(i)' => InHand(i)
    BY <2>2 DEF InHand, Empty
  <2>4. ASSUME NEW i \in Jobs, i \notin Going PROVE Phase(i)' = Phase(i)
    BY <1>4, <2>1, <2>3, <2>4, SamePhase
  <2>5. ASSUME NEW i \in Going PROVE Phase(i) = "running" /\ Phase(i)' = "lost"
    <3>1. i \in Jobs /\ i \notin settled /\ InHand(i) /\ ~InHand(i)'
      OBVIOUS
    <3>2. /\ ~InSeq(pending, i) /\ ~InBag(dead, i) /\ ~InBag(processing, i)
          /\ i \in submitted
      BY <1>5, <3>1 DEF Apart, Known
    <3>3. QED
      BY <1>4, <2>1, <3>1, <3>2 DEF PhaseFacts
  <2> HIDE DEF Going
  <2>6. Going \in SUBSET Jobs
    BY DEF Going
  <2>7. Contract!Lose(Going)
    BY <2>1, <2>4, <2>5, <2>6 DEF Contract!Lose
  <2>8. QED
    BY <2>6, <2>7 DEF Tick, Contract!Live
<1>14. CASE UNCHANGED vars
  <2>1. UNCHANGED <<pending, processing, dead, worker, submitted, settled, runs>>
    BY <1>14 DEF vars, lists, history
  <2>2. \A i : InHand(i)' <=> InHand(i)
    BY <2>1 DEF InHand
  <2>3. \A i \in Jobs : Phase(i)' = Phase(i)
    BY <1>4, <2>1, <2>2, SamePhase
  <2>4. QED
    BY <2>1, <2>3, MoveNone DEF Tick
<1>15. QED
  BY <1>6, <1>7, <1>8, <1>9, <1>10, <1>11, <1>12, <1>13, <1>14 DEF Next, Command

\* Every behaviour of the queue is one of JobLifecycle: until a command of Redis fails, a
\* job is queued once, is run by one worker at a time at most maxRetries + 1 times, and
\* ends done, dead, or lost with a crashed process.
THEOREM QueueImplementsLifecycle == Spec => ImplementsLifecycle
<1>1. Init => Contract!Init
  <2> SUFFICES ASSUME Init PROVE Contract!Init
    OBVIOUS
  <2>1. PhaseFacts /\ \A j \in Jobs : Known(j)
    BY TypeInit, PlaceInit, PhaseIs DEF PlaceInv
  <2>2. submitted = {} /\ settled = {} /\ runs = [j \in Jobs |-> 0] /\ redisErrors = 0
    BY DEF Init
  <2>3. \A j \in Jobs : Phase(j) = "new"
    BY <2>1, <2>2 DEF PhaseFacts, Known
  <2>4. QED
    BY <2>2, <2>3 DEF Contract!Init
<1>2. QueueInv /\ [Next]_vars =>
        [Contract!Next]_<<[j \in Jobs |-> Phase(j)], runs, redisErrors # 0>>
  <2> SUFFICES ASSUME QueueInv, [Next]_vars
               PROVE  [Contract!Next]_<<[j \in Jobs |-> Phase(j)], runs, redisErrors # 0>>
    OBVIOUS
  <2>1. CASE redisErrors' # 0
    BY <2>1 DEF Contract!Next
  <2>2. CASE redisErrors' = 0
    <3>1. redisErrors = 0
      BY <2>2, ErrorsStay DEF QueueInv, LifeInv
    <3>2. Tick
      BY <2>2, <3>1, LifeStep
    <3>3. QED
      BY <2>2, <3>1, <3>2 DEF Tick, Contract!Next
  <2>3. QED
    BY <2>1, <2>2
<1>3. QED
  BY <1>1, <1>2, QueueCorrect, PTL DEF Spec, ImplementsLifecycle, Contract!Spec
=============================================================================
