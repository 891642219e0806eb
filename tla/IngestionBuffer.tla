-------------------------- MODULE IngestionBuffer --------------------------
(***************************************************************************)
(* The log buffer of one deployment (packages/shared/src/ingestion): a     *)
(* sorted set of lines scored by the time they were produced, a metadata   *)
(* hash with the time of the last flush, and a flush lock. Log drains      *)
(* append while the flush-trigger worker and the drains themselves flush;  *)
(* a deploy webhook or the worker closes. One action is one Redis command, *)
(* or the commands one Promise.all sends together.                         *)
(***************************************************************************)
EXTENDS Naturals, FiniteSets, FiniteSetsExt

CONSTANTS
  Lines,       \* log lines, equal when their text is
  Appenders,   \* calls of append in flight
  Flushers,    \* calls of flush in flight
  MaxLines,    \* lines above which an append evicts (MAX_BUFFER_TOKENS)
  MaxTime,     \* bound on the clock, and on the times providers give their lines
  MaxAppends,  \* bound on lines sent
  MaxFlushes,  \* bound on flushes triggered
  MaxCloses,   \* bound on closes
  MaxFaults    \* bound on rejected commands and on crashes of a flusher

ASSUME BufferAssumption ==
  /\ {MaxLines, MaxTime, MaxAppends, MaxFlushes, MaxCloses, MaxFaults} \subseteq Nat
  /\ MaxTime > 0 /\ IsFiniteSet(Lines) /\ IsFiniteSet(Flushers)

Never == 0      \* no score, no last flush
Time == 1..MaxTime

VARIABLES
  now,       \* the clock of the replicas, in units the code can tell apart
  score,     \* the sorted set: each line's score, or Never
  meta,      \* the metadata hash: whether it has its entity, and lastFlushAt
  lock,      \* whether the flush lock exists
  appender,  \* each append: where it is, and the metadata it read
  flusher,   \* each flush: where it is, lastFlushScore, and the lines it fetched
  flushed,   \* history: how often each buffered line was returned by a flush
  sent,      \* history: lines that were ever buffered
  marked,    \* history: the time of the last mark, which an append may set back
  late,      \* history: lines that came behind a flush's back, or that a failed
             \* flush had already marked
  rollbacks, \* history: marks lost: an append set lastFlushAt back, or the hash a
             \* close deleted had no entity when it was marked, which reads as no mark
  ahead,     \* history: marks made at a time before that of a line just fetched
  appends, flushes, closes, faults

vars == <<now, score, meta, lock, appender, flusher, flushed, sent, marked, late,
          rollbacks, ahead, appends, flushes, closes, faults>>

bounds == <<appends, flushes, closes>>
history == <<flushed, sent, marked, late, rollbacks, ahead>>

NoMeta == [entity |-> FALSE, at |-> Never]
Meta == [entity : BOOLEAN, at : {Never} \cup Time]
Appender == [at : {"idle", "read", "write", "evict"}, seen : Meta, size : Nat]
Flusher == [at : {"idle", "lock", "meta", "fetch", "mark", "trim", "unlock"},
            from : {Never} \cup Time, lines : SUBSET Lines]

Done == [at |-> "idle", from |-> Never, lines |-> {}]
Sent == [at |-> "idle", seen |-> NoMeta, size |-> 0]
Buffered == {l \in Lines : score[l] # Never}

\* flush fetches the lines above lastFlushScore, or all of them.
Since(t) == {l \in Buffered : score[l] > t}

Init ==
  /\ now = 1 /\ score = [l \in Lines |-> Never] /\ meta = NoMeta /\ lock = FALSE
  /\ appender = [a \in Appenders |-> Sent]
  /\ flusher = [f \in Flushers |-> Done]
  /\ flushed = [l \in Lines |-> 0] /\ sent = {}
  /\ marked = Never /\ late = {} /\ ahead = [l \in Lines |-> 0]
  /\ rollbacks = 0 /\ appends = 0 /\ flushes = 0 /\ closes = 0 /\ faults = 0

Replies == {"ok", "rejected", "unconfirmed"}
Applied(reply) == reply # "rejected"
Reply(reply) ==
  /\ reply # "ok" => faults < MaxFaults
  /\ faults' = IF reply = "ok" THEN faults ELSE faults + 1

Drop(lines) == score' = [l \in Lines |-> IF l \in lines THEN Never ELSE score[l]]

-----------------------------------------------------------------------------
(* append *)

\* ZADD NX of a line; its time is the provider's, which may be behind the clock of the
\* replicas or ahead of it. A text that comes back after it left the buffer is
\* another line.
Add(a, l, t, reply) ==
  /\ appender[a].at = "idle" /\ appends < MaxAppends
  /\ l \in Buffered \/ l \notin sent
  /\ Reply(reply)
  /\ appends' = appends + 1
  /\ IF Applied(reply) /\ l \notin Buffered
     THEN /\ score' = [score EXCEPT ![l] = t]
          /\ sent' = sent \cup {l}
          /\ late' = IF t <= marked \/ \E f \in Flushers : flusher[f].at = "mark"
                     THEN late \cup {l} ELSE late
     ELSE UNCHANGED <<score, sent, late>>
  /\ appender' = IF reply = "ok" THEN [appender EXCEPT ![a].at = "read"] ELSE appender
  /\ UNCHANGED <<now, meta, lock, flusher, flushed, marked, rollbacks, ahead, flushes, closes>>

\* EXPIRE, HGETALL and ZCARD.
ReadBuffer(a, reply) ==
  /\ appender[a].at = "read" /\ Reply(reply)
  /\ appender' = [appender EXCEPT ![a] =
       IF reply = "ok" THEN [at |-> "write", seen |-> meta, size |-> Cardinality(Buffered)]
                       ELSE Sent]
  /\ UNCHANGED <<now, score, meta, lock, flusher, bounds, history>>

\* HSET of the whole hash, lastFlushAt as it was read.
WriteMeta(a, reply) ==
  LET seen == appender[a].seen
      at == IF seen.entity THEN seen.at ELSE Never
  IN  /\ appender[a].at = "write" /\ Reply(reply)
      /\ IF Applied(reply)
         THEN /\ meta' = [entity |-> TRUE, at |-> at]
              /\ rollbacks' = IF at < meta.at THEN rollbacks + 1 ELSE rollbacks
         ELSE UNCHANGED <<meta, rollbacks>>
      /\ appender' = [appender EXCEPT ![a] =
           IF reply = "ok" /\ appender[a].size > MaxLines THEN [@ EXCEPT !.at = "evict"]
                                                         ELSE Sent]
      /\ UNCHANGED <<now, score, lock, flusher, flushed, marked, late, ahead, sent, bounds>>

\* ZREMRANGEBYRANK of the lowest scores, EVICTION_RATIO of the size that was read.
Oldest(lines, n) ==
  lines \subseteq Buffered /\ Cardinality(lines) = n
  /\ \A l \in lines, k \in Buffered \ lines : score[l] <= score[k]

Evict(a, reply) ==
  LET count == Min({(appender[a].size + 4) \div 5, Cardinality(Buffered)})
  IN  /\ appender[a].at = "evict" /\ Reply(reply)
      /\ IF Applied(reply)
         THEN \E lines \in SUBSET Buffered : Oldest(lines, count) /\ Drop(lines)
         ELSE UNCHANGED score
      /\ appender' = [appender EXCEPT ![a] = Sent]
      /\ UNCHANGED <<now, meta, lock, flusher, bounds, history>>

-----------------------------------------------------------------------------
(* flush *)

\* checkFlushTriggers finds an active buffer whose window elapsed or filled.
Trigger(f) ==
  /\ flusher[f].at = "idle" /\ flushes < MaxFlushes
  /\ meta.entity
  /\ flushes' = flushes + 1
  /\ flusher' = [flusher EXCEPT ![f].at = "lock"]
  /\ UNCHANGED <<now, score, meta, lock, appender, appends, closes, faults, history>>

\* Mutant: SET without NX.
LockAlways(f, reply) ==
  /\ flusher[f].at = "lock" /\ Reply(reply)
  /\ lock' = (lock \/ Applied(reply))
  /\ flusher' = [flusher EXCEPT ![f] = IF reply = "ok" THEN [@ EXCEPT !.at = "meta"]
                                                       ELSE Done]
  /\ UNCHANGED <<now, score, meta, appender, bounds, history>>

\* SET NX EX; a flush that finds the lock held returns nothing.
Lock(f, reply) ==
  /\ flusher[f].at = "lock" /\ Reply(reply)
  /\ lock' = (lock \/ Applied(reply))
  /\ flusher' = [flusher EXCEPT ![f] =
       IF reply = "ok" /\ ~lock THEN [@ EXCEPT !.at = "meta"] ELSE Done]
  /\ UNCHANGED <<now, score, meta, appender, bounds, history>>

\* The finally block: the result of a failed flush is empty.
Abandon(f) == flusher' = [flusher EXCEPT ![f] = [Done EXCEPT !.at = "unlock"]]

ReadMeta(f, reply) ==
  /\ flusher[f].at = "meta" /\ Reply(reply)
  /\ IF reply = "ok"
     THEN flusher' = [flusher EXCEPT ![f] =
            [@ EXCEPT !.at = "fetch", !.from = IF meta.entity THEN meta.at ELSE Never]]
     ELSE Abandon(f)
  /\ UNCHANGED <<now, score, meta, lock, appender, bounds, history>>

\* Mutant: the range is limited to one line.
FetchOne(f, reply) ==
  /\ flusher[f].at = "fetch" /\ Reply(reply)
  /\ \/ /\ Since(flusher[f].from) = {} \/ reply # "ok"
        /\ Abandon(f)
     \/ \E l \in Since(flusher[f].from) :
          flusher' = [flusher EXCEPT ![f] = [@ EXCEPT !.at = "mark", !.lines = {l}]]
  /\ UNCHANGED <<now, score, meta, lock, appender, bounds, history>>

\* ZRANGEBYSCORE, and the summary with it.
Fetch(f, reply) ==
  LET lines == Since(flusher[f].from)
  IN  /\ flusher[f].at = "fetch" /\ Reply(reply)
      /\ IF reply = "ok" /\ lines # {}
         THEN flusher' = [flusher EXCEPT ![f] = [@ EXCEPT !.at = "mark", !.lines = lines]]
         ELSE Abandon(f)
      /\ UNCHANGED <<now, score, meta, lock, appender, bounds, history>>

\* Mutant: lastFlushAt is not written.
MarkNothing(f, reply) ==
  /\ flusher[f].at = "mark" /\ Reply(reply)
  /\ flusher' = [flusher EXCEPT ![f].at = "trim"]
  /\ UNCHANGED <<now, score, meta, lock, appender, bounds, history>>

\* Mutant: the mark is rounded up.
MarkAhead(f, reply) ==
  /\ flusher[f].at = "mark" /\ Reply(reply)
  /\ meta' = [meta EXCEPT !.at = now + 1]
  /\ flusher' = [flusher EXCEPT ![f].at = "trim"]
  /\ UNCHANGED <<now, score, lock, appender, bounds, history>>

\* HSET of lastFlushAt and windowCount.
Mark(f, reply) ==
  /\ flusher[f].at = "mark" /\ Reply(reply)
  /\ IF Applied(reply)
     THEN /\ meta' = [meta EXCEPT !.at = now] /\ marked' = now
          /\ late' = IF reply = "ok" THEN late ELSE late \cup flusher[f].lines
          /\ rollbacks' = IF meta.entity THEN rollbacks ELSE rollbacks + 1
          /\ ahead' = [l \in Lines |-> IF l \in flusher[f].lines /\ now < score[l]
                                       THEN ahead[l] + 1 ELSE ahead[l]]
     ELSE UNCHANGED <<meta, marked, late, rollbacks, ahead>>
  /\ IF reply = "ok" THEN flusher' = [flusher EXCEPT ![f].at = "trim"] ELSE Abandon(f)
  /\ UNCHANGED <<now, score, lock, appender, flushed, sent, bounds>>

\* ZREMRANGEBYSCORE of what earlier flushes returned.
Trim(f, reply) ==
  /\ flusher[f].at = "trim" /\ Reply(reply)
  /\ flusher[f].from = Never => reply = "ok"
  /\ IF Applied(reply) THEN Drop(Buffered \ Since(flusher[f].from)) ELSE UNCHANGED score
  /\ IF reply = "ok" THEN flusher' = [flusher EXCEPT ![f].at = "unlock"] ELSE Abandon(f)
  /\ late' = IF reply = "ok" THEN late ELSE late \cup flusher[f].lines
  /\ UNCHANGED <<now, meta, lock, appender, flushed, marked, rollbacks, ahead, sent, bounds>>

\* DEL of the lock, whoever holds it, and the return of the lines.
Unlock(f, reply) ==
  /\ flusher[f].at = "unlock" /\ Reply(reply)
  /\ lock' = (lock /\ ~Applied(reply))
  /\ flushed' = [l \in Lines |-> IF l \in flusher[f].lines THEN flushed[l] + 1
                                                           ELSE flushed[l]]
  /\ flusher' = [flusher EXCEPT ![f] = Done]
  /\ UNCHANGED <<now, score, meta, appender, marked, late, rollbacks, ahead, sent, bounds>>

-----------------------------------------------------------------------------
(* The environment *)

\* close: one DEL of the four keys.
Close ==
  /\ closes < MaxCloses /\ closes' = closes + 1
  /\ Drop(Lines) /\ meta' = NoMeta /\ lock' = FALSE
  /\ UNCHANGED <<now, appender, flusher, appends, faults, flushes, history>>

Crash(f) ==
  /\ flusher[f].at # "idle" /\ faults < MaxFaults /\ faults' = faults + 1
  /\ flusher' = [flusher EXCEPT ![f] = Done]
  /\ late' = IF flusher[f].at \in {"trim", "unlock"} THEN late \cup flusher[f].lines
                                                    ELSE late
  /\ UNCHANGED <<now, score, meta, lock, appender, flushed, marked, rollbacks, ahead, sent,
                 bounds>>

\* Mutant: SET NX without EX.
LockStays == FALSE /\ UNCHANGED vars

\* The lock's time to live is many command timeouts: no holder outlives it.
LockExpires ==
  /\ lock /\ \A f \in Flushers : flusher[f].at \in {"idle", "lock"}
  /\ lock' = FALSE
  /\ UNCHANGED <<now, score, meta, appender, flusher, faults, bounds, history>>

Tick ==
  /\ now < MaxTime /\ now' = now + 1
  /\ UNCHANGED <<score, meta, lock, appender, flusher, faults, bounds, history>>

AppendStep(a) ==
  \E reply \in Replies :
    \/ \E l \in Lines, t \in Time : Add(a, l, t, reply)
    \/ ReadBuffer(a, reply) \/ WriteMeta(a, reply) \/ Evict(a, reply)

Finish(f) ==
  \E reply \in Replies :
    \/ Lock(f, reply) \/ ReadMeta(f, reply) \/ Fetch(f, reply)
    \/ Mark(f, reply) \/ Trim(f, reply) \/ Unlock(f, reply)

Flush(f) == Trigger(f) \/ Finish(f)

Next ==
  \/ \E a \in Appenders : AppendStep(a)
  \/ \E f \in Flushers : Flush(f) \/ Crash(f)
  \/ Close \/ LockExpires \/ Tick

Spec == Init /\ [][Next]_vars

\* A flush that began runs to its end, and Redis expires keys.
FairSpec == Spec /\ WF_vars(LockExpires) /\ \A f \in Flushers : WF_vars(Finish(f))

-----------------------------------------------------------------------------
(* Properties *)

\* Every variable stays in its type; marks never lie in the future.
TypeOK ==
  /\ now \in Time /\ score \in [Lines -> {Never} \cup Time]
  /\ meta \in Meta /\ meta.at <= now /\ lock \in BOOLEAN
  /\ appender \in [Appenders -> Appender] /\ flusher \in [Flushers -> Flusher]
  /\ flushed \in [Lines -> Nat] /\ sent \subseteq Lines /\ late \subseteq Lines
  /\ marked \in 0..now
  /\ rollbacks \in Nat /\ ahead \in [Lines -> Nat]
  /\ appends \in 0..MaxAppends /\ flushes \in 0..MaxFlushes
  /\ closes \in 0..MaxCloses /\ faults \in 0..MaxFaults

Flushing == {f \in Flushers : flusher[f].at \notin {"idle", "lock"}}

\* At most one flush is between its lock and its release, but for each close, which
\* deletes the lock under the flush that holds it.
OneFlusher == Cardinality(Flushing) <= 1 + closes

\* A buffered line is returned once, and once more for each flush that closes, which
\* delete the lock of a running flush, let run beside the first; and as often again for
\* each mark that was lost, to an append that set lastFlushAt back or to a close, and
\* for each mark that fell before the line, whose time is ahead of the replicas.
BoundedDuplicates ==
  \A l \in Buffered : flushed[l] <= (1 + closes) * (1 + rollbacks + ahead[l])

\* A buffered line that the next flush would pass over unread came late: with a
\* time before the last mark, between the fetch and the mark of a flush, or in a
\* flush that failed once it was marked. No other line is lost.
OnlyLateLinesSkipped ==
  (Flushing = {} /\ closes = 0) =>
    \A l \in Buffered \ Since(meta.at) : flushed[l] > 0 \/ l \in late

\* The lock does not outlive the flush that took it.
LockFreed == lock ~> ~lock
=============================================================================
