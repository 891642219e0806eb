---------------------------- MODULE CiAggregation ----------------------------
(***************************************************************************)
(* The aggregation of one commit's failed CI checks                        *)
(* (packages/shared/src/aggregation): webhooks add checks to a Redis hash, *)
(* a poller in each replica finds the aggregation ready, asks GitHub       *)
(* whether checks are still running, enqueues one analysis job with all    *)
(* checks and deletes the aggregation. One action is one Redis or GitHub   *)
(* call, or the commands that Promise.all or a pipeline sends together.    *)
(* Of a time, only whether it passed a limit is kept.                      *)
(***************************************************************************)
EXTENDS Naturals, FiniteSets

CONSTANTS
  Checks,    \* check runs of the commit that end in failure
  Pollers,   \* aggregator workers, one per replica
  Limit,     \* maxFailuresPerCommit
  MaxFaults  \* bound on failed calls and on crashes of a poller

VARIABLES
  meta,      \* the metadata hash: none, or whether firstFailureAt is past maxWaitMs
  stored,    \* the failures hash
  debounce,  \* whether the debounce key exists
  passed,    \* whether a poll passed over the aggregation once it was old
  check,     \* each check: where it is, and the metadata its webhook read
  poller,    \* each poller: where it is, and the checks it read
  enqueued,  \* history: jobs each check is in
  added,     \* history: checks that were ever stored
  excused,   \* history: checks stored behind a poller's back, deleted by a poller
             \* that could not read them, or expired
  faults

vars == <<meta, stored, debounce, passed, check, poller, enqueued, added, excused, faults>>

aggregation == <<meta, stored, debounce, passed>>
history == <<enqueued, added, excused>>

Metas == {"none", "young", "old"}
CheckState == [at : {"running", "failed", "write", "done"}, seen : Metas]
PollerState == [at : {"idle", "ready", "runs", "meta", "checks", "enqueue", "delete"},
                checks : SUBSET Checks]

Idle == [at |-> "idle", checks |-> {}]

Init ==
  /\ meta = "none" /\ stored = {} /\ debounce = FALSE /\ passed = FALSE
  /\ check = [c \in Checks |-> [at |-> "running", seen |-> "none"]]
  /\ poller = [p \in Pollers |-> Idle]
  /\ enqueued = [c \in Checks |-> 0] /\ added = {} /\ excused = {} /\ faults = 0

Replies == {"ok", "rejected", "unconfirmed"}
Applied(reply) == reply # "rejected"
Reply(reply) ==
  /\ reply # "ok" => faults < MaxFaults
  /\ faults' = IF reply = "ok" THEN faults ELSE faults + 1

-----------------------------------------------------------------------------
(* processCIFailure and addToAggregation: one webhook per failed check *)

\* GitHub completes the check run and sends its webhook.
Complete(c) ==
  /\ check[c].at = "running"
  /\ check' = [check EXCEPT ![c].at = "failed"]
  /\ UNCHANGED <<aggregation, poller, history, faults>>

\* HGETALL and HLEN. A full aggregation takes no more; an error is swallowed.
ReadState(c, reply) ==
  /\ check[c].at = "failed" /\ Reply(reply)
  /\ check' = [check EXCEPT ![c] =
       IF reply = "ok" /\ Cardinality(stored) < Limit
       THEN [at |-> "write", seen |-> meta] ELSE [@ EXCEPT !.at = "done"]]
  /\ UNCHANGED <<aggregation, poller, history>>

\* A poller that has read the checks deletes whatever is there.
Deleting == {p \in Pollers : poller[p].at \in {"enqueue", "delete"}}

\* Mutant: the pipeline sets the metadata only.
WriteMetaOnly(c, reply) ==
  /\ check[c].at = "write" /\ Reply(reply)
  /\ meta' = "young" /\ added' = added \cup {c}
  /\ check' = [check EXCEPT ![c].at = "done"]
  /\ UNCHANGED <<stored, debounce, passed, poller, enqueued, excused>>

\* The pipeline: HSET of the check and of the metadata, with the firstFailureAt that
\* was read or the present, EXPIRE of both, SET of the debounce key.
Write(c, reply) ==
  /\ check[c].at = "write" /\ Reply(reply)
  /\ IF Applied(reply)
     THEN /\ \E first \in {"young", "old"} :
               /\ check[c].seen = "none" => first = "young"
               /\ check[c].seen = "old" => first = "old"
               /\ meta' = first
          /\ stored' = stored \cup {c} /\ debounce' = TRUE /\ passed' = FALSE
          /\ added' = added \cup {c}
          /\ excused' = IF Deleting = {} THEN excused ELSE excused \cup {c}
     ELSE UNCHANGED <<aggregation, added, excused>>
  /\ check' = [check EXCEPT ![c].at = "done"]
  /\ UNCHANGED <<poller, enqueued>>

-----------------------------------------------------------------------------
(* poll: findReadyAggregations, checkAllRunsCompleted, enqueuePendingAggregation *)

\* The poller waits for its next poll.
GiveUp(p) ==
  /\ poller' = [poller EXCEPT ![p] = Idle]
  /\ passed' = (passed \/ meta = "old")

GoTo(p, at) == poller' = [poller EXCEPT ![p].at = at] /\ UNCHANGED passed

\* SCAN finds the metadata key.
Scan(p) ==
  /\ poller[p].at = "idle" /\ meta # "none"
  /\ GoTo(p, "ready")
  /\ UNCHANGED <<meta, stored, debounce, check, history, faults>>

\* EXISTS of the debounce key, HGET of firstFailureAt. A key that is gone counts as
\* expired; an error counts as not ready.
CheckReady(p, reply) ==
  /\ poller[p].at = "ready" /\ Reply(reply)
  /\ IF reply = "ok" /\ (~debounce \/ meta = "old") THEN GoTo(p, "runs") ELSE GiveUp(p)
  /\ UNCHANGED <<meta, stored, debounce, check, history>>

\* checkAllRunsCompleted: defers while a run is in progress, goes on after an error.
CheckRuns(p, reply) ==
  /\ poller[p].at = "runs" /\ Reply(reply)
  /\ IF reply = "ok" /\ meta # "none" /\ \E c \in Checks : check[c].at = "running"
     THEN GiveUp(p) ELSE GoTo(p, "meta")
  /\ UNCHANGED <<meta, stored, debounce, check, history>>

\* getPendingAggregationFromRedis makes null of an error as of an absent aggregation,
\* and null is deleted.
Unreadable(p, reply) ==
  /\ GoTo(p, "delete")
  /\ excused' = IF reply = "ok" THEN excused ELSE excused \cup stored

\* HGETALL of the metadata.
ReadMeta(p, reply) ==
  /\ poller[p].at = "meta" /\ Reply(reply)
  /\ IF reply = "ok" /\ meta # "none"
     THEN GoTo(p, "checks") /\ UNCHANGED excused ELSE Unreadable(p, reply)
  /\ UNCHANGED <<meta, stored, debounce, check, enqueued, added>>

\* Mutant: HGET of one check.
ReadOneCheck(p, reply) ==
  /\ poller[p].at = "checks" /\ reply = "ok"
  /\ \E c \in stored : poller' = [poller EXCEPT ![p] = [at |-> "enqueue", checks |-> {c}]]
  /\ UNCHANGED <<aggregation, check, history, faults>>

\* HGETALL of the checks.
ReadChecks(p, reply) ==
  /\ poller[p].at = "checks" /\ Reply(reply)
  /\ IF reply = "ok" /\ stored # {}
     THEN /\ poller' = [poller EXCEPT ![p] = [at |-> "enqueue", checks |-> stored]]
          /\ UNCHANGED <<passed, excused>>
     ELSE Unreadable(p, reply)
  /\ UNCHANGED <<meta, stored, debounce, check, enqueued, added>>

\* Mutant: a job that was not confirmed is taken for enqueued.
EnqueueAndForget(p, reply) ==
  /\ poller[p].at = "enqueue" /\ Reply(reply)
  /\ IF Applied(reply)
     THEN enqueued' = [c \in Checks |-> IF c \in poller[p].checks THEN enqueued[c] + 1
                                                                  ELSE enqueued[c]]
     ELSE UNCHANGED enqueued
  /\ poller' = [poller EXCEPT ![p] = [at |-> "delete", checks |-> {}]]
  /\ UNCHANGED <<aggregation, check, added, excused>>

\* enqueueFair or enqueue of the job. An error leaves the aggregation to the next poll.
Enqueue(p, reply) ==
  /\ poller[p].at = "enqueue" /\ Reply(reply)
  /\ enqueued' = [c \in Checks |-> IF Applied(reply) /\ c \in poller[p].checks
                                   THEN enqueued[c] + 1 ELSE enqueued[c]]
  /\ IF reply = "ok"
     THEN poller' = [poller EXCEPT ![p] = [at |-> "delete", checks |-> {}]] /\ UNCHANGED passed
     ELSE GiveUp(p)
  /\ UNCHANGED <<meta, stored, debounce, check, added, excused>>

Gone == meta' = "none" /\ stored' = {} /\ debounce' = FALSE /\ passed' = FALSE

\* Mutant: DEL of the debounce key only.
DeleteSome(p, reply) ==
  /\ poller[p].at = "delete" /\ Reply(reply)
  /\ debounce' = FALSE
  /\ poller' = [poller EXCEPT ![p] = Idle]
  /\ UNCHANGED <<meta, stored, passed, check, history>>

\* DEL of the three keys; an error is swallowed.
Delete(p, reply) ==
  /\ poller[p].at = "delete" /\ Reply(reply)
  /\ IF Applied(reply) THEN Gone ELSE UNCHANGED aggregation
  /\ poller' = [poller EXCEPT ![p] = Idle]
  /\ UNCHANGED <<check, history>>

-----------------------------------------------------------------------------
(* Time and crashes *)

DebounceExpires ==
  /\ debounce /\ debounce' = FALSE
  /\ UNCHANGED <<meta, stored, passed, check, poller, history, faults>>

GrowOld ==
  /\ meta = "young" /\ meta' = "old"
  /\ UNCHANGED <<stored, debounce, passed, check, poller, history, faults>>

\* The time to live exceeds maxWaitMs by a minute, many polls.
Expire ==
  /\ meta = "old" /\ ~debounce /\ passed /\ \A p \in Pollers : poller[p].at = "idle"
  /\ Gone /\ excused' = excused \cup stored
  /\ UNCHANGED <<check, poller, enqueued, added, faults>>

Crash(p) ==
  /\ poller[p].at # "idle" /\ faults < MaxFaults /\ faults' = faults + 1
  /\ poller' = [poller EXCEPT ![p] = Idle]
  /\ UNCHANGED <<aggregation, check, history>>

Add(c) == Complete(c) \/ \E reply \in Replies : ReadState(c, reply) \/ Write(c, reply)

Poll(p) ==
  \/ Scan(p)
  \/ \E reply \in Replies :
       \/ CheckReady(p, reply) \/ CheckRuns(p, reply) \/ ReadMeta(p, reply)
       \/ ReadChecks(p, reply) \/ Enqueue(p, reply) \/ Delete(p, reply)

Next ==
  \/ \E c \in Checks : Add(c)
  \/ \E p \in Pollers : Poll(p) \/ Crash(p)
  \/ DebounceExpires \/ GrowOld \/ Expire

Spec == Init /\ [][Next]_vars

\* GitHub completes every run, pollers poll, Redis expires the debounce key.
FairSpec ==
  /\ Spec /\ WF_vars(DebounceExpires)
  /\ \A c \in Checks : WF_vars(Complete(c))
  /\ \A p \in Pollers : WF_vars(Poll(p))

-----------------------------------------------------------------------------
(* Properties *)

\* Every variable stays in its type; checks are stored with their metadata.
TypeOK ==
  /\ meta \in Metas /\ stored \subseteq Checks
  /\ (meta = "none") <=> (stored = {})
  /\ debounce \in BOOLEAN /\ passed \in BOOLEAN
  /\ check \in [Checks -> CheckState] /\ poller \in [Pollers -> PollerState]
  /\ enqueued \in [Checks -> Nat] /\ added \subseteq Checks /\ excused \subseteq Checks
  /\ faults \in 0..MaxFaults

Safe(c) == c \in stored \/ enqueued[c] > 0

\* A check that was added is in the aggregation or in a job: no poller is ever the only one
\* that has it. The known ways to lose one are an add after a poller read the aggregation
\* it will delete, a read that fails and counts as empty, and expiry.
OnlyKnownLosses == \A c \in added : Safe(c) \/ c \in excused

\* Each replica enqueues a check once, and once more per failed call or crash.
BoundedDuplicates == \A c \in Checks : enqueued[c] <= Cardinality(Pollers) + faults

\* A stored check reaches a job, unless it was lost in a known way.
EventuallyEnqueued ==
  \A c \in Checks : (c \in stored) ~> (enqueued[c] > 0 \/ c \in excused)

\* What a poller deletes is in a job: a check that arrives later waits for its own.
DeletesOnlyEnqueued ==
  [][(stored' = {} /\ \E p \in Pollers : poller[p].at = "delete" /\ poller'[p].at = "idle")
     => \A c \in stored : enqueued[c] > 0]_vars
=============================================================================
