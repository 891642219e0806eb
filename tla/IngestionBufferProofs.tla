----------------------- MODULE IngestionBufferProofs -----------------------
(* Theorems about IngestionBuffer, for every number of lines, appends, flushes, closes and
   faults and every bound of the clock: its types, who may flush at the same time, how
   often a line is returned, and which lines may be skipped. *)
EXTENDS IngestionBuffer, FiniteSetTheorems, TLAPS

USE BufferAssumption DEF Never, Time

(***************************************************************************)
(* Types. No metadata an append or a flush carries is ahead of the last    *)
(* mark, and no call holds a line that was never buffered.                 *)
(***************************************************************************)
Order ==
  /\ meta.at <= marked
  /\ \A a \in Appenders : appender[a].seen.at <= marked
  /\ \A f \in Flushers : flusher[f].from <= marked

Known ==
  /\ Buffered \subseteq sent
  /\ \A f \in Flushers : flusher[f].lines \subseteq sent
  /\ \A l \in Lines : flushed[l] > 0 => l \in sent

TypeInv == TypeOK /\ Order /\ Known

LEMMA Times ==
  /\ 0..MaxTime = {Never} \cup Time
  /\ Meta = [entity : BOOLEAN, at : 0..MaxTime]
  /\ NoMeta \in Meta /\ NoMeta.at = 0 /\ Sent \in Appender /\ Done \in Flusher
  /\ Sent.seen.at = 0 /\ Done.from = 0 /\ Done.lines = {}
  /\ Sent.at = "idle" /\ Done.at = "idle" /\ NoMeta.entity = FALSE
<1>1. 0..MaxTime = {Never} \cup Time
  OBVIOUS
<1>2. Meta = [entity : BOOLEAN, at : 0..MaxTime]
  BY <1>1 DEF Meta
<1>3. NoMeta \in Meta
  BY <1>2 DEF NoMeta
<1>4. QED
  BY <1>1, <1>2, <1>3 DEF NoMeta, Sent, Done, Appender, Flusher

LEMMA FewBuffered == TypeInv => IsFiniteSet(Buffered) /\ Cardinality(Buffered) \in Nat
BY FS_Subset, FS_CardinalityType DEF Buffered

\* A command's reply counts a fault.
LEMMA ReplyType ==
  ASSUME TypeInv, NEW reply \in Replies, Reply(reply)
  PROVE  /\ faults' \in 0..MaxFaults
         /\ reply # "ok" => faults' = faults + 1
         /\ reply = "ok" => faults' = faults
BY DEF Reply, TypeInv, TypeOK

\* One appender, or one flusher, moves.
LEMMA AppenderMoves ==
  ASSUME TypeInv, NEW a \in Appenders, NEW r \in Appender, r.seen.at <= marked',
         marked' >= marked, marked' \in Nat, appender' = [appender EXCEPT ![a] = r]
  PROVE  /\ appender' \in [Appenders -> Appender]
         /\ \A b \in Appenders : appender'[b].seen.at <= marked'
<1>1. appender \in [Appenders -> Appender] /\ marked \in Nat
      /\ \A b \in Appenders : appender[b].seen.at <= marked
  BY DEF TypeInv, TypeOK, Order
<1>2. \A b \in Appenders : appender[b].seen.at \in Nat
  BY <1>1, Times DEF Appender
<1>3. QED
  BY <1>1, <1>2

LEMMA FlusherMoves ==
  ASSUME TypeInv, NEW f \in Flushers, NEW r \in Flusher, r.from <= marked',
         r.lines \subseteq sent', sent \subseteq sent',
         marked' >= marked, marked' \in Nat, flusher' = [flusher EXCEPT ![f] = r]
  PROVE  /\ flusher' \in [Flushers -> Flusher]
         /\ \A g \in Flushers : flusher'[g].from <= marked' /\ flusher'[g].lines \subseteq sent'
<1>1. flusher \in [Flushers -> Flusher] /\ marked \in Nat
      /\ \A g \in Flushers : flusher[g].from <= marked /\ flusher[g].lines \subseteq sent
  BY DEF TypeInv, TypeOK, Order, Known
<1>2. \A g \in Flushers : flusher[g].from \in Nat
  BY <1>1, Times DEF Flusher
<1>3. QED
  BY <1>1, <1>2

LEMMA DropType ==
  ASSUME TypeInv, NEW lines, Drop(lines)
  PROVE  /\ score' \in [Lines -> {Never} \cup Time]
         /\ Buffered' = Buffered \ lines
         /\ \A l \in Lines : score'[l] = score[l] \/ score'[l] = 0
         /\ \A l \in Buffered' : score'[l] = score[l]
<1>1. score \in [Lines -> {Never} \cup Time]
  BY DEF TypeInv, TypeOK
<1>2. \A l \in Lines : score'[l] = IF l \in lines THEN 0 ELSE score[l]
  BY DEF Drop
<1>3. score' \in [Lines -> {Never} \cup Time]
  BY <1>1 DEF Drop
<1>4. QED
  BY <1>1, <1>2, <1>3 DEF Buffered

LEMMA TypeInit == Init => TypeInv
<1> SUFFICES ASSUME Init PROVE TypeInv
  OBVIOUS
<1>1. /\ appender \in [Appenders -> Appender] /\ flusher \in [Flushers -> Flusher]
      /\ \A a \in Appenders : appender[a].seen.at = 0
      /\ \A f \in Flushers : flusher[f].from = 0 /\ flusher[f].lines = {}
  BY Times DEF Init
<1>2. /\ now = 1 /\ marked = 0 /\ meta \in Meta /\ meta.at = 0 /\ Buffered = {}
      /\ score \in [Lines -> {Never} \cup Time] /\ \A l \in Lines : score[l] = 0
      /\ flushed \in [Lines -> Nat] /\ \A l \in Lines : flushed[l] = 0
  BY Times DEF Init, Buffered
<1>3. /\ now \in Time /\ meta.at <= now /\ marked \in 0..now /\ lock \in BOOLEAN
      /\ sent \subseteq Lines /\ late \subseteq Lines /\ rollbacks \in Nat
      /\ ahead \in [Lines -> Nat]
  <2>1. MaxTime \in Nat /\ MaxTime > 0
    BY DEF BufferAssumption
  <2>2. now \in Time /\ meta.at <= now /\ marked \in 0..now
    BY <1>2, <2>1
  <2>3. lock \in BOOLEAN /\ sent \subseteq Lines /\ late \subseteq Lines
    BY DEF Init
  <2>4. rollbacks \in Nat /\ ahead \in [Lines -> Nat]
    BY DEF Init
  <2>5. QED
    BY <2>2, <2>3, <2>4
<1>4. /\ appends \in 0..MaxAppends /\ flushes \in 0..MaxFlushes
      /\ closes \in 0..MaxCloses /\ faults \in 0..MaxFaults
  BY DEF Init
<1>5. TypeOK
  BY <1>1, <1>2, <1>3, <1>4 DEF TypeOK
<1>6. QED
  BY <1>1, <1>2, <1>5 DEF TypeInv, Order, Known

LEMMA AppendType ==
  ASSUME TypeInv, NEW a \in Appenders, AppendStep(a)
  PROVE  TypeInv'
<1> PICK reply \in Replies :
      \/ \E l \in Lines, t \in Time : Add(a, l, t, reply)
      \/ ReadBuffer(a, reply) \/ WriteMeta(a, reply) \/ Evict(a, reply)
  BY DEF AppendStep
<1>1. /\ TypeOK /\ Order /\ Known /\ appender[a] \in Appender
      /\ appender[a].seen \in Meta /\ appender[a].seen.at <= marked
      /\ marked \in Nat /\ meta \in Meta
  BY DEF TypeInv, TypeOK, Order, Appender
<1>2. UNCHANGED <<now, lock, flusher, flushed, marked, ahead, flushes, closes>>
      /\ faults' \in 0..MaxFaults /\ sent \subseteq sent'
  <2>1. UNCHANGED <<now, lock, flusher, flushed, marked, ahead, flushes, closes>> /\ sent \subseteq sent'
    BY DEF Add, ReadBuffer, WriteMeta, Evict, bounds, history
  <2>2. faults' \in 0..MaxFaults
    BY ReplyType DEF Add, ReadBuffer, WriteMeta, Evict
  <2>3. QED
    BY <2>1, <2>2
<1>3. ASSUME NEW l \in Lines, NEW t \in Time, Add(a, l, t, reply) PROVE TypeInv'
  <2>1. appender' = appender \/ appender' = [appender EXCEPT ![a] = [@ EXCEPT !.at = "read"]]
    BY <1>3 DEF Add
  <2>2. [appender[a] EXCEPT !.at = "read"] \in Appender
        /\ [appender[a] EXCEPT !.at = "read"].seen = appender[a].seen
    BY <1>1 DEF Appender
  <2>3. /\ appender' \in [Appenders -> Appender]
        /\ \A b \in Appenders : appender'[b].seen.at <= marked'
    <3>1. CASE appender' = appender
      BY <1>1, <1>2, <3>1 DEF TypeOK, Order
    <3>2. CASE appender' = [appender EXCEPT ![a] = [@ EXCEPT !.at = "read"]]
      <4> DEFINE r == [appender[a] EXCEPT !.at = "read"]
      <4>1. r \in Appender /\ r.seen.at <= marked' /\ appender' = [appender EXCEPT ![a] = r]
            /\ marked' >= marked /\ marked' \in Nat
        BY <1>1, <1>2, <2>2, <3>2
      <4> HIDE DEF r
      <4>2. QED
        BY <4>1, AppenderMoves
    <3>3. QED
      BY <2>1, <3>1, <3>2
  <2>4. /\ score' \in [Lines -> {Never} \cup Time]
        /\ Buffered' \subseteq sent' /\ sent' \subseteq Lines /\ late' \subseteq Lines
    BY <1>1, <1>2, <1>3 DEF Add, TypeOK, Order, Known, Buffered
  <2>5. /\ UNCHANGED <<meta, rollbacks>> /\ appends' \in 0..MaxAppends
    BY <1>1, <1>3 DEF Add, TypeOK
  <2>6. TypeOK'
    BY <1>1, <1>2, <2>3, <2>4, <2>5 DEF TypeOK
  <2>7. Order' /\ Known'
    BY <1>1, <1>2, <2>3, <2>4, <2>5 DEF Order, Known
  <2>8. QED
    BY <2>6, <2>7 DEF TypeInv
<1>4. CASE ReadBuffer(a, reply)
  <2> DEFINE r == IF reply = "ok"
                  THEN [at |-> "write", seen |-> meta, size |-> Cardinality(Buffered)] ELSE Sent
  <2>1. appender' = [appender EXCEPT ![a] = r]
        /\ UNCHANGED <<score, meta, late, rollbacks, sent, appends>>
    BY <1>4 DEF ReadBuffer, bounds, history
  <2>2. r \in Appender /\ r.seen.at <= marked' /\ marked' >= marked /\ marked' \in Nat
    BY <1>1, <1>2, Times, FewBuffered DEF Appender, Order
  <2> HIDE DEF r
  <2>3. /\ appender' \in [Appenders -> Appender]
        /\ \A b \in Appenders : appender'[b].seen.at <= marked'
    BY <2>1, <2>2, AppenderMoves
  <2>4. TypeOK'
    BY <1>1, <1>2, <2>1, <2>3 DEF TypeOK
  <2>5. Order' /\ Known'
    BY <1>1, <1>2, <2>1, <2>3 DEF Order, Known, Buffered
  <2>6. QED
    BY <2>4, <2>5 DEF TypeInv
<1>5. CASE WriteMeta(a, reply)
  <2> DEFINE r == IF reply = "ok" /\ appender[a].size > MaxLines
                  THEN [appender[a] EXCEPT !.at = "evict"] ELSE Sent
  <2>1. appender' = [appender EXCEPT ![a] = r]
        /\ UNCHANGED <<score, late, sent, appends>>
    BY <1>5 DEF WriteMeta, bounds
  <2>2. r \in Appender /\ r.seen.at <= marked' /\ marked' >= marked /\ marked' \in Nat
    BY <1>1, <1>2, Times DEF Appender
  <2> HIDE DEF r
  <2>3. /\ appender' \in [Appenders -> Appender]
        /\ \A b \in Appenders : appender'[b].seen.at <= marked'
    BY <2>1, <2>2, AppenderMoves
  <2>4. meta' \in Meta /\ meta'.at <= marked' /\ rollbacks' \in Nat /\ marked' <= now'
    <3> DEFINE at == IF appender[a].seen.entity THEN appender[a].seen.at ELSE Never
    <3>1. at \in 0..MaxTime /\ at <= marked
      BY <1>1, Times
    <3>2. meta' = meta \/ meta' = [entity |-> TRUE, at |-> at]
      BY <1>5 DEF WriteMeta
    <3>3. rollbacks' \in Nat /\ marked' <= now'
      BY <1>1, <1>2, <1>5 DEF WriteMeta, TypeOK
    <3> HIDE DEF at
    <3>4. meta' \in Meta /\ meta'.at <= marked
      <4>1. CASE meta' = meta
        BY <1>1, <4>1 DEF Order
      <4>2. CASE meta' = [entity |-> TRUE, at |-> at]
        <5>1. [entity |-> TRUE, at |-> at] \in Meta
          BY <3>1, Times
        <5>2. meta'.at = at
          BY <4>2
        <5>3. QED
          BY <3>1, <4>2, <5>1, <5>2
      <4>3. QED
        BY <3>2, <4>1, <4>2
    <3>5. QED
      BY <1>2, <3>3, <3>4
  <2>5. meta'.at <= now'
    BY <1>1, <1>2, <2>4, Times DEF TypeOK
  <2>6. QED
    BY <1>1, <1>2, <2>1, <2>3, <2>4, <2>5 DEF TypeInv, TypeOK, Order, Known, Buffered
<1>6. CASE Evict(a, reply)
  <2>1. appender' = [appender EXCEPT ![a] = Sent]
        /\ UNCHANGED <<meta, late, rollbacks, sent, appends>>
        /\ (score' = score \/ \E lines \in SUBSET Buffered : Drop(lines))
    BY <1>6 DEF Evict, bounds, history
  <2>2. Sent \in Appender /\ Sent.seen.at <= marked' /\ marked' >= marked /\ marked' \in Nat
    BY <1>1, <1>2, Times
  <2>3. /\ appender' \in [Appenders -> Appender]
        /\ \A b \in Appenders : appender'[b].seen.at <= marked'
    BY <2>1, <2>2, AppenderMoves
  <2>4. /\ score' \in [Lines -> {Never} \cup Time]
        /\ Buffered' \subseteq sent'
    <3>1. CASE score' = score
      BY <1>1, <1>2, <2>1, <3>1 DEF TypeOK, Order, Known, Buffered
    <3>2. ASSUME NEW lines, Drop(lines)
          PROVE  /\ score' \in [Lines -> {Never} \cup Time]
                 /\ Buffered' \subseteq sent'
      BY <1>1, <1>2, <2>1, <3>2, DropType DEF Known
    <3>3. QED
      BY <2>1, <3>1, <3>2
  <2>5. QED
    BY <1>1, <1>2, <2>1, <2>3, <2>4 DEF TypeInv, TypeOK, Order, Known
<1>7. QED
  BY <1>3, <1>4, <1>5, <1>6

\* Where a flush can move to.
LEMMA FlusherGoes ==
  ASSUME NEW r \in Flusher, NEW state \in {"lock", "meta", "fetch", "mark", "trim", "unlock"}
  PROVE  /\ [r EXCEPT !.at = state] \in Flusher
         /\ [r EXCEPT !.at = state].at = state
         /\ [r EXCEPT !.at = state].from = r.from
         /\ [r EXCEPT !.at = state].lines = r.lines
BY DEF Flusher

\* What one step of a flush does to the flush; each case names the action's conditions.
Moves(f, r) == flusher' = [flusher EXCEPT ![f] = r]
Abandoned == [Done EXCEPT !.at = "unlock"]

LEMMA AbandonedType ==
  /\ Abandoned \in Flusher /\ Abandoned.at = "unlock" /\ Abandoned.from = 0
  /\ Abandoned.lines = {}
BY Times DEF Abandoned, Done, Flusher

LEMMA FlushType ==
  ASSUME TypeInv, NEW f \in Flushers, Flush(f) \/ Crash(f)
  PROVE  TypeInv'
<1>1. /\ TypeOK /\ Order /\ Known /\ flusher[f] \in Flusher
      /\ flusher[f].from <= marked /\ flusher[f].lines \subseteq sent
      /\ flusher[f].lines \subseteq Lines
      /\ marked \in Nat /\ now \in Nat /\ now <= MaxTime /\ marked <= now /\ meta \in Meta
  BY DEF TypeInv, TypeOK, Order, Known, Flusher
<1>2. UNCHANGED <<now, appender, sent, appends, closes>>
  BY DEF Flush, Finish, Trigger, Lock, ReadMeta, Fetch, Mark, Trim, Unlock, Crash, history, bounds
<1>3. faults' \in 0..MaxFaults /\ flushes' \in 0..MaxFlushes
  <2>1. flushes' \in 0..MaxFlushes
    BY <1>1 DEF TypeOK, Flush, Finish, Trigger, Lock, ReadMeta, Fetch, Mark, Trim, Unlock, Crash,
                bounds
  <2>2. CASE Trigger(f) \/ Crash(f)
    BY <1>1, <2>1, <2>2 DEF TypeOK, Trigger, Crash
  <2>3. CASE Finish(f)
    BY <2>1, <2>3, ReplyType DEF Finish, Lock, ReadMeta, Fetch, Mark, Trim, Unlock
  <2>4. QED
    BY <2>2, <2>3 DEF Flush
<1>4. marked' \in Nat /\ marked' >= marked /\ marked' \in 0..now'
  BY <1>1, <1>2 DEF Flush, Finish, Trigger, Lock, ReadMeta, Fetch, Mark, Trim, Unlock, Crash, history
<1>5. PICK r \in Flusher : Moves(f, r) /\ r.from <= marked' /\ r.lines \subseteq sent'
  <2>1. CASE Moves(f, Done) \/ Moves(f, Abandoned)
    BY <1>4, <2>1, Times, AbandonedType
  <2>2. ASSUME NEW state \in {"lock", "meta", "fetch", "mark", "trim", "unlock"},
               Moves(f, [flusher[f] EXCEPT !.at = state])
        PROVE  \E r \in Flusher : Moves(f, r) /\ r.from <= marked' /\ r.lines \subseteq sent'
    <3> DEFINE r == [flusher[f] EXCEPT !.at = state]
    <3>1. r \in Flusher /\ r.from = flusher[f].from /\ r.lines = flusher[f].lines
      BY <1>1, FlusherGoes
    <3> HIDE DEF r
    <3>2. r.from <= marked' /\ r.lines \subseteq sent'
      <4>1. flusher[f].from \in Nat
        BY <1>1, Times DEF Flusher
      <4>2. QED
        BY <1>1, <1>2, <1>4, <3>1, <4>1
    <3>3. QED
      BY <2>2, <3>1, <3>2 DEF r
  <2>3. ASSUME NEW reply \in Replies, ReadMeta(f, reply), reply = "ok"
        PROVE  \E r \in Flusher : Moves(f, r) /\ r.from <= marked' /\ r.lines \subseteq sent'
    <3> DEFINE t == IF meta.entity THEN meta.at ELSE Never
               r == [flusher[f] EXCEPT !.at = "fetch", !.from = t]
    <3>1. t \in 0..MaxTime /\ t <= marked' /\ marked' = marked
      BY <1>1, <1>4, <2>3, Times DEF Meta, Order, ReadMeta, history
    <3>2. r \in Flusher /\ r.from = t /\ r.lines = flusher[f].lines
      BY <1>1, <3>1, Times DEF Flusher
    <3>3. Moves(f, r)
      BY <2>3 DEF ReadMeta, Moves
    <3> HIDE DEF t, r
    <3>4. QED
      BY <1>1, <1>2, <3>1, <3>2, <3>3
  <2>4. ASSUME NEW reply \in Replies, Fetch(f, reply), reply = "ok",
               Since(flusher[f].from) # {}
        PROVE  \E r \in Flusher : Moves(f, r) /\ r.from <= marked' /\ r.lines \subseteq sent'
    <3> DEFINE lines == Since(flusher[f].from)
               r == [flusher[f] EXCEPT !.at = "mark", !.lines = lines]
    <3>1. lines \subseteq Buffered /\ lines \subseteq Lines /\ marked' = marked
      BY <2>4 DEF Since, Buffered, Fetch, history
    <3>2. r \in Flusher /\ r.from = flusher[f].from /\ r.lines = lines
      BY <1>1, <3>1 DEF Flusher
    <3>3. Moves(f, r)
      BY <2>4 DEF Fetch, Moves
    <3> HIDE DEF lines, r
    <3>4. QED
      BY <1>1, <1>2, <3>1, <3>2, <3>3 DEF Known
  <2>5. CASE Trigger(f)
    BY <2>2, <2>5 DEF Trigger, Moves
  <2>6. CASE Crash(f)
    BY <2>1, <2>6 DEF Crash, Moves
  <2>7. ASSUME NEW reply \in Replies, Lock(f, reply) \/ Unlock(f, reply)
        PROVE  \E r \in Flusher : Moves(f, r) /\ r.from <= marked' /\ r.lines \subseteq sent'
    BY <2>1, <2>2, <2>7 DEF Lock, Unlock, Moves
  <2>8. ASSUME NEW reply \in Replies, ReadMeta(f, reply) \/ Fetch(f, reply)
        PROVE  \E r \in Flusher : Moves(f, r) /\ r.from <= marked' /\ r.lines \subseteq sent'
    BY <2>1, <2>3, <2>4, <2>8 DEF ReadMeta, Fetch, Moves, Abandon, Abandoned
  <2>9. ASSUME NEW reply \in Replies, Mark(f, reply) \/ Trim(f, reply)
        PROVE  \E r \in Flusher : Moves(f, r) /\ r.from <= marked' /\ r.lines \subseteq sent'
    BY <2>1, <2>2, <2>9 DEF Mark, Trim, Moves, Abandon, Abandoned
  <2>10. QED
    BY <2>5, <2>6, <2>7, <2>8, <2>9 DEF Flush, Finish
<1>6. /\ flusher' \in [Flushers -> Flusher]
      /\ \A g \in Flushers : flusher'[g].from <= marked' /\ flusher'[g].lines \subseteq sent'
  BY <1>2, <1>4, <1>5, FlusherMoves DEF Moves
<1>7. meta' \in Meta /\ meta'.at <= marked' /\ meta'.at <= now'
  <2>1. CASE meta' = meta
    BY <1>1, <1>2, <1>4, <2>1, Times DEF Order, Meta, TypeOK
  <2>2. CASE meta' = [meta EXCEPT !.at = now] /\ marked' = now
    BY <1>1, <1>2, <2>2, Times DEF Meta
  <2>3. QED
    BY <2>1, <2>2 DEF Flush, Finish, Trigger, Lock, ReadMeta, Fetch, Mark, Trim, Unlock, Crash
<1>8. /\ score' \in [Lines -> {Never} \cup Time]
      /\ Buffered' \subseteq sent'
  <2>1. CASE score' = score
    BY <1>1, <1>2, <2>1 DEF TypeOK, Order, Known, Buffered
  <2>2. ASSUME NEW lines, Drop(lines)
        PROVE  /\ score' \in [Lines -> {Never} \cup Time]
               /\ Buffered' \subseteq sent'
    BY <1>1, <1>2, <2>2, DropType DEF Known
  <2>3. QED
    BY <2>1, <2>2 DEF Flush, Finish, Trigger, Lock, ReadMeta, Fetch, Mark, Trim, Unlock, Crash
<1>9. lock' \in BOOLEAN
  BY <1>1 DEF TypeOK, Flush, Finish, Trigger, Lock, ReadMeta, Fetch, Mark, Trim, Unlock, Crash
<1>10. late' \subseteq Lines /\ rollbacks' \in Nat
  BY <1>1 DEF TypeOK, Flush, Finish, Trigger, Lock, ReadMeta, Fetch, Mark, Trim, Unlock, Crash, history
<1>11. flushed' \in [Lines -> Nat] /\ \A l \in Lines : flushed'[l] > 0 => l \in sent'
  <2>1. CASE flushed' = flushed
    BY <1>1, <1>2, <2>1 DEF TypeOK, Known
  <2>2. CASE flushed' = [l \in Lines |-> IF l \in flusher[f].lines THEN flushed[l] + 1
                                                                 ELSE flushed[l]]
    BY <1>1, <1>2, <2>2 DEF TypeOK, Known
  <2>3. QED
    BY <2>1, <2>2 DEF Flush, Finish, Trigger, Lock, ReadMeta, Fetch, Mark, Trim, Unlock, Crash, history
<1>12. ahead' \in [Lines -> Nat]
  <2>1. CASE ahead' = ahead
    BY <1>1, <2>1 DEF TypeOK
  <2>2. CASE ahead' = [l \in Lines |-> IF l \in flusher[f].lines /\ now < score[l]
                                      THEN ahead[l] + 1 ELSE ahead[l]]
    BY <1>1, <2>2 DEF TypeOK
  <2>3. QED
    BY <2>1, <2>2 DEF Flush, Finish, Trigger, Lock, ReadMeta, Fetch, Mark, Trim, Unlock, Crash, history
<1>13. TypeOK'
  BY <1>1, <1>2, <1>3, <1>4, <1>6, <1>7, <1>8, <1>9, <1>10, <1>11, <1>12 DEF TypeOK
<1>14. Order' /\ Known'
  <2>1. \A a \in Appenders : appender'[a].seen.at <= marked'
    <3>1. \A a \in Appenders : appender[a].seen.at \in Nat /\ appender[a].seen.at <= marked
      BY <1>1, Times DEF TypeOK, Order, Appender
    <3>2. QED
      BY <1>1, <1>2, <1>4, <3>1
  <2>2. Order'
    BY <1>6, <1>7, <1>8, <2>1 DEF Order
  <2>3. Known'
    BY <1>6, <1>8, <1>11 DEF Known
  <2>4. QED
    BY <2>2, <2>3
<1>15. QED
  BY <1>13, <1>14 DEF TypeInv

LEMMA EnvironmentType ==
  ASSUME TypeInv, Close \/ LockExpires \/ Tick
  PROVE  TypeInv'
<1>1. TypeOK /\ Order /\ Known
  BY DEF TypeInv
<1>2. CASE Close
  <2>1. Drop(Lines) /\ meta' = NoMeta /\ lock' = FALSE /\ closes' \in 0..MaxCloses
        /\ UNCHANGED <<now, appender, flusher, appends, faults, flushes, flushed, sent, marked,
                       late, rollbacks, ahead>>
    BY <1>1, <1>2 DEF Close, TypeOK, history
  <2>2. score' \in [Lines -> {Never} \cup Time] /\ Buffered' \subseteq Buffered
    BY <2>1, DropType
  <2>3. meta' \in Meta /\ meta'.at = 0 /\ lock' \in BOOLEAN
    BY <2>1, Times
  <2>4. TypeOK'
    BY <1>1, <2>1, <2>2, <2>3 DEF TypeOK
  <2>5. Order' /\ Known'
    BY <1>1, <2>1, <2>2, <2>3 DEF TypeOK, Order, Known
  <2>6. QED
    BY <2>4, <2>5 DEF TypeInv
<1>3. CASE LockExpires
  BY <1>1, <1>3 DEF LockExpires, TypeInv, TypeOK, Order, Known, Buffered, bounds, history
<1>4. CASE Tick
  <2>1. now' = now + 1 /\ now' \in Time /\ now \in Nat
        /\ UNCHANGED <<score, meta, lock, appender, flusher, faults, appends, flushes, closes,
                       flushed, sent, marked, late, rollbacks, ahead>>
    BY <1>1, <1>4 DEF Tick, TypeOK, bounds, history
  <2>2. meta.at \in Nat /\ meta.at <= now' /\ marked \in 0..now'
    BY <1>1, <2>1, Times DEF TypeOK, Order, Meta
  <2>3. TypeOK'
    BY <1>1, <2>1, <2>2 DEF TypeOK
  <2>4. Order' /\ Known'
    BY <1>1, <2>1, <2>2 DEF Order, Known, Buffered
  <2>5. QED
    BY <2>3, <2>4 DEF TypeInv
<1>5. QED
  BY <1>2, <1>3, <1>4

LEMMA NextType == TypeInv /\ [Next]_vars => TypeInv'
<1> SUFFICES ASSUME TypeInv, [Next]_vars PROVE TypeInv'
  OBVIOUS
<1>1. CASE UNCHANGED vars
  BY <1>1 DEF vars, TypeInv, TypeOK, Order, Known, Buffered
<1>2. QED
  BY <1>1, AppendType, FlushType, EnvironmentType DEF Next

\* The buffer, the metadata and the locals of every append and flush, in every run: no mark
\* lies in the future, whatever closes, rollbacks and failed commands came before.
THEOREM BufferTypeCorrect == Spec => []TypeOK
<1>1. TypeInv => TypeOK
  BY DEF TypeInv
<1>2. QED
  BY <1>1, TypeInit, NextType, PTL DEF Spec

(***************************************************************************)
(* The lock. A flush is past it only with a lock that is still held, or    *)
(* that one of the closes deleted.                                         *)
(***************************************************************************)
LockInv == Cardinality(Flushing) <= (IF lock THEN 1 ELSE 0) + closes

LEMMA FlushingFinite ==
  IsFiniteSet(Flushing) /\ Cardinality(Flushing) \in Nat
BY FS_Subset, FS_CardinalityType DEF Flushing

\* What a step does to a set of flushes, and to its size.
LEMMA FewerFlushes ==
  ASSUME NEW S, NEW T, S \subseteq Flushers, T \subseteq S
  PROVE  Cardinality(S) \in Nat /\ Cardinality(T) \in Nat /\ Cardinality(T) <= Cardinality(S)
<1>1. IsFiniteSet(S)
  BY FS_Subset
<1>2. QED
  BY <1>1, FS_Subset, FS_CardinalityType

LEMMA OneMoreFlush ==
  ASSUME NEW S, NEW T, NEW f \in Flushers, S \subseteq Flushers, T \subseteq S \cup {f}
  PROVE  Cardinality(S) \in Nat /\ Cardinality(T) \in Nat /\ Cardinality(T) <= Cardinality(S) + 1
<1>1. IsFiniteSet(S) /\ S \cup {f} \subseteq Flushers
  BY FS_Subset
<1>2. Cardinality(S \cup {f}) = IF f \in S THEN Cardinality(S) ELSE Cardinality(S) + 1
  BY <1>1, FS_AddElement
<1>3. Cardinality(S) \in Nat /\ Cardinality(T) \in Nat /\ Cardinality(S \cup {f}) \in Nat
      /\ Cardinality(T) <= Cardinality(S \cup {f})
  BY <1>1, FewerFlushes
<1>4. QED
  BY <1>2, <1>3

LEMMA OneFlushLess ==
  ASSUME NEW S, NEW T, NEW f \in S, S \subseteq Flushers, T \subseteq S \ {f}
  PROVE  Cardinality(S) \in Nat /\ Cardinality(T) \in Nat /\ Cardinality(T) + 1 <= Cardinality(S)
<1>1. IsFiniteSet(S) /\ S \ {f} \subseteq Flushers
  BY FS_Subset
<1>2. Cardinality(S \ {f}) = Cardinality(S) - 1
  BY <1>1, FS_RemoveElement
<1>3. Cardinality(S) \in Nat /\ Cardinality(T) \in Nat /\ Cardinality(S \ {f}) \in Nat
      /\ Cardinality(T) <= Cardinality(S \ {f})
  BY <1>1, FewerFlushes
<1>4. QED
  BY <1>2, <1>3

LEMMA FlushingMoves ==
  ASSUME TypeInv, NEW f \in Flushers, NEW r, Moves(f, r)
  PROVE  /\ flusher'[f] = r /\ \A g \in Flushers \ {f} : flusher'[g] = flusher[g]
         /\ Flushing' \subseteq Flushing \cup {f}
         /\ r.at \in {"idle", "lock"} => Flushing' \subseteq Flushing \ {f}
         /\ flusher[f].at \notin {"idle", "lock"} => Flushing' \subseteq Flushing
BY DEF TypeInv, TypeOK, Moves, Flushing

\* Every step of a flush after the lock, seen from the lock: it stays, or it leaves.
LEMMA Underway ==
  ASSUME TypeInv, NEW f \in Flushers, NEW reply \in Replies,
         \/ ReadMeta(f, reply) \/ Fetch(f, reply) \/ Mark(f, reply) \/ Trim(f, reply)
  PROVE  /\ flusher[f].at \in {"meta", "fetch", "mark", "trim"}
         /\ UNCHANGED <<lock, closes>> /\ \E r : Moves(f, r)
BY DEF ReadMeta, Fetch, Mark, Trim, Moves, Abandon, bounds

LEMMA FlushLocks ==
  ASSUME TypeInv, LockInv, NEW f \in Flushers, Flush(f) \/ Crash(f)
  PROVE  LockInv'
<1>1. closes \in Nat /\ closes' = closes /\ lock \in BOOLEAN
  BY DEF TypeInv, TypeOK, Flush, Finish, Trigger, Lock, ReadMeta, Fetch, Mark, Trim, Unlock,
         Crash, bounds
<1>2. Cardinality(Flushing) \in Nat /\ Flushing \subseteq Flushers
  BY FlushingFinite DEF Flushing
<1>3. CASE Flushing' \subseteq Flushing /\ (lock => lock')
  <2>1. Cardinality(Flushing') <= Cardinality(Flushing) /\ Cardinality(Flushing') \in Nat
    BY <1>2, <1>3, FewerFlushes
  <2>2. QED
    BY <1>1, <1>2, <1>3, <2>1 DEF LockInv
<1>4. CASE Trigger(f)
  <2>1. flusher[f].at = "idle" /\ Moves(f, [flusher[f] EXCEPT !.at = "lock"]) /\ lock' = lock
    BY <1>4 DEF Trigger, Moves
  <2>2. flusher[f] \in Flusher
    BY DEF TypeInv, TypeOK
  <2>3. [flusher[f] EXCEPT !.at = "lock"].at = "lock"
    BY <2>2 DEF Flusher
  <2>4. Flushing' \subseteq Flushing
    BY <2>1, <2>3, FlushingMoves
  <2>5. QED
    BY <1>3, <2>1, <2>4
<1>5. CASE Crash(f)
  <2>1. Moves(f, Done) /\ lock' = lock
    BY <1>5 DEF Crash, Moves
  <2>2. Flushing' \subseteq Flushing
    BY <2>1, FlushingMoves, Times
  <2>3. QED
    BY <1>3, <2>1, <2>2
<1>6. ASSUME NEW reply \in Replies, Lock(f, reply) PROVE LockInv'
  <2>1. CASE reply = "ok" /\ ~lock
    <3>1. lock' = TRUE /\ \E r : Moves(f, r)
      BY <1>6, <2>1 DEF Lock, Applied, Moves
    <3>2. Flushing' \subseteq Flushing \cup {f}
      BY <3>1, FlushingMoves
    <3>3. Cardinality(Flushing') <= Cardinality(Flushing) + 1 /\ Cardinality(Flushing') \in Nat
      BY <1>2, <3>2, OneMoreFlush
    <3>4. Cardinality(Flushing) <= closes
      BY <1>1, <2>1 DEF LockInv
    <3>5. QED
      BY <1>1, <1>2, <3>1, <3>3, <3>4 DEF LockInv
  <2>2. CASE ~(reply = "ok" /\ ~lock)
    <3>1. Moves(f, Done) /\ (lock => lock')
      BY <1>6, <2>2 DEF Lock, Moves
    <3>2. Flushing' \subseteq Flushing
      BY <3>1, FlushingMoves, Times
    <3>3. QED
      BY <1>3, <3>1, <3>2
  <2>3. QED
    BY <2>1, <2>2
<1>7. ASSUME NEW reply \in Replies,
             \/ ReadMeta(f, reply) \/ Fetch(f, reply) \/ Mark(f, reply) \/ Trim(f, reply)
      PROVE  LockInv'
  <2>1. Flushing' \subseteq Flushing /\ lock' = lock
    BY <1>7, Underway, FlushingMoves
  <2>2. QED
    BY <1>3, <2>1
<1>8. ASSUME NEW reply \in Replies, Unlock(f, reply) PROVE LockInv'
  <2>1. f \in Flushing /\ Moves(f, Done)
    BY <1>8 DEF Unlock, Flushing, Moves
  <2>2. Flushing' \subseteq Flushing \ {f}
    BY <2>1, FlushingMoves, Times
  <2>3. Cardinality(Flushing') + 1 <= Cardinality(Flushing) /\ Cardinality(Flushing') \in Nat
    BY <1>2, <2>1, <2>2, OneFlushLess
  <2>4. Cardinality(Flushing') <= closes
    BY <1>1, <1>2, <2>3 DEF LockInv
  <2>5. QED
    BY <1>1, <2>3, <2>4 DEF LockInv
<1>9. QED
  BY <1>4, <1>5, <1>6, <1>7, <1>8 DEF Flush, Finish

LEMMA NextLocks == TypeInv /\ LockInv /\ [Next]_vars => LockInv'
<1> SUFFICES ASSUME TypeInv, LockInv, [Next]_vars PROVE LockInv'
  OBVIOUS
<1>1. closes \in Nat /\ lock \in BOOLEAN /\ Cardinality(Flushing) \in Nat
  BY FlushingFinite DEF TypeInv, TypeOK
<1>2. CASE UNCHANGED <<flusher, lock, closes>>
  BY <1>2 DEF LockInv, Flushing
<1>3. ASSUME NEW a \in Appenders, AppendStep(a) PROVE LockInv'
  BY <1>2, <1>3 DEF AppendStep, Add, ReadBuffer, WriteMeta, Evict, bounds
<1>4. CASE Close
  <2>1. closes' = closes + 1 /\ Flushing' = Flushing
    BY <1>4 DEF Close, Flushing
  <2>2. Cardinality(Flushing) <= 1 + closes
    BY <1>1 DEF LockInv
  <2>3. QED
    BY <1>1, <2>1, <2>2 DEF LockInv
<1>5. CASE LockExpires
  <2>1. Flushing' = {} /\ closes' = closes
    BY <1>5 DEF LockExpires, Flushing, bounds
  <2>2. Cardinality(Flushing') = 0
    BY <2>1, FS_EmptySet
  <2>3. QED
    BY <1>1, <2>1, <2>2 DEF LockInv
<1>6. CASE Tick
  BY <1>2, <1>6 DEF Tick, bounds
<1>7. CASE UNCHANGED vars
  BY <1>2, <1>7 DEF vars
<1>8. QED
  BY <1>3, <1>4, <1>5, <1>6, <1>7, FlushLocks DEF Next

LEMMA LockInit == Init => LockInv
<1> SUFFICES ASSUME Init PROVE LockInv
  OBVIOUS
<1>1. Flushing = {} /\ closes = 0
  BY Times DEF Init, Flushing
<1>2. QED
  BY <1>1, FS_EmptySet DEF LockInv

\* For any number of flushes, replies and crashes: as many flushes are past the lock at once
\* as closes were sent, and one more.
THEOREM FlushesExclude == Spec => []OneFlusher
<1>1. TypeInv /\ LockInv => OneFlusher
  <2> SUFFICES ASSUME TypeInv, LockInv PROVE Cardinality(Flushing) <= 1 + closes
    BY DEF OneFlusher
  <2>1. closes \in Nat /\ Cardinality(Flushing) \in Nat
    BY FlushingFinite DEF TypeInv, TypeOK
  <2>2. QED
    BY <2>1 DEF LockInv
<1>2. QED
  BY <1>1, TypeInit, NextType, LockInit, NextLocks, PTL DEF Spec

(***************************************************************************)
(* Skipped lines. While no close was sent there is one flush, and the      *)
(* lines behind the last mark are late, were returned, or are in its       *)
(* hands; when it is about to mark, so are all lines of the buffer.        *)
(***************************************************************************)
Settled(l) == flushed[l] > 0 \/ l \in late
Returning(f, l) == flusher[f].at \in {"trim", "unlock"} /\ l \in flusher[f].lines

SkipInv ==
  closes = 0 =>
    \A l \in Buffered :
      /\ score[l] <= marked => Settled(l) \/ \E f \in Flushers : Returning(f, l)
      /\ \A f \in Flushers : flusher[f].at = "mark" => l \in flusher[f].lines \/ Settled(l)

LEMMA OnlyOne ==
  ASSUME TypeInv, LockInv, closes = 0, NEW f \in Flushing, NEW g \in Flushing
  PROVE  f = g
<1> SUFFICES ASSUME f # g PROVE FALSE
  OBVIOUS
<1>1. Flushing \subseteq Flushers /\ Cardinality(Flushing) \in Nat /\ Cardinality(Flushing) <= 1
  BY FlushingFinite DEF LockInv, Flushing
<1>2. Cardinality(Flushing \ {f}) + 1 <= Cardinality(Flushing)
      /\ Cardinality(Flushing \ {f}) \in Nat
  BY <1>1, OneFlushLess
<1>3. Cardinality(Flushing \ {f}) = 0 /\ IsFiniteSet(Flushing \ {f})
  BY <1>1, <1>2, FlushingFinite, FS_RemoveElement
<1>4. Flushing \ {f} = {}
  BY <1>3, FS_EmptySet
<1>5. QED
  BY <1>4

\* What an append does to the lines and to the flushes.
LEMMA AppendLines ==
  ASSUME TypeInv, NEW a \in Appenders, AppendStep(a)
  PROVE  /\ UNCHANGED <<flusher, flushed, marked, closes>> /\ late \subseteq late'
         /\ \A l \in Buffered' :
              \/ l \in Buffered /\ score'[l] = score[l]
              \/ /\ l \notin sent
                 /\ score'[l] <= marked \/ (\E f \in Flushers : flusher[f].at = "mark")
                      => l \in late'
<1> PICK reply \in Replies :
      \/ \E l \in Lines, t \in Time : Add(a, l, t, reply)
      \/ ReadBuffer(a, reply) \/ WriteMeta(a, reply) \/ Evict(a, reply)
  BY DEF AppendStep
<1>1. UNCHANGED <<flusher, flushed, marked, closes>> /\ late \subseteq late'
  BY DEF Add, ReadBuffer, WriteMeta, Evict, bounds, history
<1>2. CASE score' = score
  BY <1>1, <1>2 DEF Buffered
<1>3. CASE Evict(a, reply)
  <2>1. CASE \E lines : Drop(lines)
    BY <1>1, <2>1, DropType
  <2>2. QED
    BY <1>2, <1>3, <2>1 DEF Evict
<1>4. ASSUME NEW l \in Lines, NEW t \in Time, Add(a, l, t, reply), l \notin Buffered,
             score' = [score EXCEPT ![l] = t],
             late' = IF t <= marked \/ \E f \in Flushers : flusher[f].at = "mark"
                     THEN late \cup {l} ELSE late
      PROVE  \A k \in Buffered' :
              \/ k \in Buffered /\ score'[k] = score[k]
              \/ /\ k \notin sent
                 /\ score'[k] <= marked \/ (\E f \in Flushers : flusher[f].at = "mark")
                      => k \in late'
  <2>1. score \in [Lines -> {Never} \cup Time]
    BY DEF TypeInv, TypeOK
  <2>2. l \notin sent /\ score'[l] = t /\ \A k \in Lines \ {l} : score'[k] = score[k]
    BY <1>4, <2>1 DEF Add
  <2>3. QED
    BY <1>4, <2>1, <2>2 DEF Buffered
<1>5. QED
  BY <1>1, <1>2, <1>3, <1>4 DEF Add, ReadBuffer, WriteMeta

\* What a step of a flush does to the lines.
LEMMA FlushLines ==
  ASSUME TypeInv, NEW f \in Flushers, Flush(f) \/ Crash(f)
  PROVE  /\ UNCHANGED <<now, sent, closes>> /\ late \subseteq late'
         /\ \A l \in Buffered' : l \in Buffered /\ score'[l] = score[l]
         /\ \A l \in Lines : \/ flushed'[l] = flushed[l]
                             \/ flusher[f].at = "unlock" /\ l \in flusher[f].lines
                                /\ flushed'[l] = flushed[l] + 1
<1>1. UNCHANGED <<now, sent, closes>> /\ late \subseteq late'
  BY DEF Flush, Finish, Trigger, Lock, ReadMeta, Fetch, Mark, Trim, Unlock, Crash, history, bounds
<1>2. score' = score \/ \E lines : Drop(lines)
  BY DEF Flush, Finish, Trigger, Lock, ReadMeta, Fetch, Mark, Trim, Unlock, Crash
<1>3. \A l \in Buffered' : l \in Buffered /\ score'[l] = score[l]
  <2>1. CASE score' = score
    BY <2>1 DEF Buffered
  <2>2. QED
    BY <1>2, <2>1, DropType
<1>4. \/ flushed' = flushed
      \/ /\ flusher[f].at = "unlock"
         /\ flushed' = [l \in Lines |-> IF l \in flusher[f].lines THEN flushed[l] + 1
                                                                  ELSE flushed[l]]
  BY DEF Flush, Finish, Trigger, Lock, ReadMeta, Fetch, Mark, Trim, Unlock, Crash, history
<1>5. QED
  BY <1>1, <1>3, <1>4

\* Once settled, for ever settled.
LEMMA StaysSettled ==
  ASSUME TypeInv, NEW f \in Flushers, Flush(f) \/ Crash(f), NEW l \in Lines, Settled(l)
  PROVE  Settled(l)'
<1>1. flushed[l] \in Nat
  BY DEF TypeInv, TypeOK
<1>2. late \subseteq late' /\ (flushed'[l] = flushed[l] \/ flushed'[l] = flushed[l] + 1)
  BY FlushLines
<1>3. QED
  BY <1>1, <1>2 DEF Settled

\* One flush moves on, and leaves no line behind.
LEMMA SkipMoves ==
  ASSUME TypeInv, SkipInv, closes = 0, NEW f \in Flushers, NEW r, Moves(f, r),
         Flush(f) \/ Crash(f),
         \A l \in Buffered' : Returning(f, l)
                              => Settled(l)' \/ (r.at \in {"trim", "unlock"} /\ l \in r.lines),
         \A l \in Buffered' : r.at = "mark" => l \in r.lines \/ Settled(l)',
         \/ marked' = marked
         \/ \A l \in Buffered' : Settled(l)' \/ (r.at \in {"trim", "unlock"} /\ l \in r.lines)
  PROVE  SkipInv'
<1>1. flusher'[f] = r /\ \A g \in Flushers \ {f} : flusher'[g] = flusher[g]
  BY FlushingMoves
<1>2. SUFFICES ASSUME NEW l \in Buffered'
               PROVE  /\ score'[l] <= marked'
                         => Settled(l)' \/ \E g \in Flushers : Returning(g, l)'
                      /\ \A g \in Flushers :
                           flusher'[g].at = "mark" => l \in flusher'[g].lines \/ Settled(l)'
  BY DEF SkipInv
<1>3. l \in Buffered /\ l \in Lines /\ score'[l] = score[l]
  BY FlushLines DEF Buffered
<1>4. Settled(l) => Settled(l)'
  BY <1>3, StaysSettled
<1>5. /\ score[l] <= marked => Settled(l) \/ \E g \in Flushers : Returning(g, l)
      /\ \A g \in Flushers : flusher[g].at = "mark" => l \in flusher[g].lines \/ Settled(l)
  BY <1>3 DEF SkipInv
<1>6. \A g \in Flushers : Returning(g, l) => Settled(l)' \/ Returning(g, l)'
  BY <1>1, <1>2 DEF Returning
<1>7. (r.at \in {"trim", "unlock"} /\ l \in r.lines) => Returning(f, l)'
  BY <1>1 DEF Returning
<1>8. \A g \in Flushers :
        flusher'[g].at = "mark" => l \in flusher'[g].lines \/ Settled(l)'
  BY <1>1, <1>2, <1>4, <1>5
<1>9. score'[l] <= marked' => Settled(l)' \/ \E g \in Flushers : Returning(g, l)'
  <2>1. CASE marked' = marked
    BY <1>3, <1>4, <1>5, <1>6, <2>1
  <2>2. CASE \A k \in Buffered' :
               Settled(k)' \/ (r.at \in {"trim", "unlock"} /\ k \in r.lines)
    BY <1>2, <1>7, <2>2
  <2>3. QED
    BY <2>1, <2>2
<1>10. QED
  BY <1>8, <1>9

LEMMA FlushSkips ==
  ASSUME TypeInv, LockInv, SkipInv, closes = 0, NEW f \in Flushers, Flush(f) \/ Crash(f)
  PROVE  SkipInv'
<1>1. /\ flusher[f] \in Flusher /\ Done.at = "idle" /\ flusher[f].from <= marked
      /\ flusher[f].from \in Nat /\ marked \in Nat /\ \A l \in Lines : score[l] \in Nat
  BY Times DEF TypeInv, TypeOK, Order, Flusher
<1>2. \A l \in Buffered' : l \in Buffered /\ l \in Lines /\ score'[l] = score[l]
  BY FlushLines DEF Buffered
<1>3. ASSUME NEW state \in {"lock", "meta", "fetch", "unlock"},
             flusher[f].at \notin {"trim", "unlock"}, marked' = marked,
             NEW r, Moves(f, r), r.at = state \/ r = Done
      PROVE  SkipInv'
  BY <1>1, <1>3, SkipMoves DEF Returning
<1>4. CASE Trigger(f)
  <2>1. Moves(f, [flusher[f] EXCEPT !.at = "lock"]) /\ marked' = marked
        /\ flusher[f].at = "idle"
    BY <1>4 DEF Trigger, Moves, history
  <2>2. [flusher[f] EXCEPT !.at = "lock"].at = "lock"
    BY <1>1, FlusherGoes
  <2>3. QED
    BY <1>3, <2>1, <2>2
<1>5. ASSUME NEW reply \in Replies, Lock(f, reply) PROVE SkipInv'
  <2>1. flusher[f].at = "lock" /\ marked' = marked
        /\ (Moves(f, [flusher[f] EXCEPT !.at = "meta"]) \/ Moves(f, Done))
    BY <1>5 DEF Lock, Moves, history
  <2>2. [flusher[f] EXCEPT !.at = "meta"].at = "meta"
    BY <1>1, FlusherGoes
  <2>3. QED
    BY <1>3, <2>1, <2>2
<1>6. ASSUME NEW reply \in Replies, ReadMeta(f, reply) PROVE SkipInv'
  <2> DEFINE r == [flusher[f] EXCEPT !.at = "fetch",
                                     !.from = IF meta.entity THEN meta.at ELSE Never]
  <2>1. flusher[f].at = "meta" /\ marked' = marked
        /\ (Moves(f, r) \/ Moves(f, Abandoned))
    BY <1>6 DEF ReadMeta, Moves, history, Abandon, Abandoned
  <2>2. r.at = "fetch" /\ Abandoned.at = "unlock"
    BY <1>1, AbandonedType DEF Flusher
  <2> HIDE DEF r
  <2>3. QED
    BY <1>3, <2>1, <2>2
<1>7. ASSUME NEW reply \in Replies, Fetch(f, reply) PROVE SkipInv'
  <2>1. flusher[f].at = "fetch" /\ marked' = marked
    BY <1>7 DEF Fetch, history
  <2>2. CASE Moves(f, Abandoned)
    BY <1>3, <2>1, <2>2, AbandonedType
  <2>3. CASE Moves(f, [flusher[f] EXCEPT !.at = "mark", !.lines = Since(flusher[f].from)])
    <3> DEFINE r == [flusher[f] EXCEPT !.at = "mark", !.lines = Since(flusher[f].from)]
    <3>1. r.at = "mark" /\ r.lines = Since(flusher[f].from) /\ Moves(f, r)
      BY <1>1, <2>3 DEF Flusher
    <3> HIDE DEF r
    <3>2. \A l \in Buffered' : l \in r.lines \/ Settled(l)'
      <4> SUFFICES ASSUME NEW l \in Buffered', l \notin r.lines PROVE Settled(l)'
        OBVIOUS
      <4>1. l \in Buffered /\ l \in Lines
        BY <1>2
      <4>2. score[l] <= marked
        BY <1>1, <3>1, <4>1 DEF Since
      <4>3. Settled(l) \/ \E g \in Flushers : Returning(g, l)
        BY <4>1, <4>2 DEF SkipInv
      <4>4. ~ \E g \in Flushers : Returning(g, l)
        <5> SUFFICES ASSUME NEW g \in Flushers, Returning(g, l) PROVE FALSE
          OBVIOUS
        <5>1. f \in Flushing /\ g \in Flushing
          BY <2>1 DEF Flushing, Returning
        <5>2. f = g
          BY <5>1, OnlyOne
        <5>3. QED
          BY <2>1, <5>2 DEF Returning
      <4>5. QED
        BY <4>1, <4>3, <4>4, StaysSettled
    <3>3. QED
      BY <2>1, <3>1, <3>2, SkipMoves DEF Returning
  <2>4. QED
    BY <1>7, <2>2, <2>3 DEF Fetch, Abandon, Abandoned, Moves
<1>8. ASSUME NEW reply \in Replies, Mark(f, reply) PROVE SkipInv'
  <2>1. flusher[f].at = "mark"
    BY <1>8 DEF Mark
  <2>2. \A l \in Buffered' : l \in flusher[f].lines \/ Settled(l)'
    <3> SUFFICES ASSUME NEW l \in Buffered', l \notin flusher[f].lines PROVE Settled(l)'
      OBVIOUS
    <3>1. l \in Buffered /\ l \in Lines
      BY <1>2
    <3>2. Settled(l)
      BY <2>1, <3>1 DEF SkipInv
    <3>3. QED
      BY <3>1, <3>2, StaysSettled
  <2>3. CASE reply = "ok"
    <3> DEFINE r == [flusher[f] EXCEPT !.at = "trim"]
    <3>1. Moves(f, r)
      BY <1>8, <2>3 DEF Mark, Moves
    <3>2. r.at = "trim" /\ r.lines = flusher[f].lines
      BY <1>1, FlusherGoes
    <3> HIDE DEF r
    <3>3. \A l \in Buffered' : Settled(l)' \/ (r.at \in {"trim", "unlock"} /\ l \in r.lines)
      BY <2>2, <3>2
    <3>4. QED
      BY <2>1, <3>1, <3>2, <3>3, SkipMoves DEF Returning
  <2>4. CASE reply = "unconfirmed"
    <3>1. Moves(f, Abandoned) /\ late' = late \cup flusher[f].lines
      BY <1>8, <2>4 DEF Mark, Moves, Abandon, Abandoned, Applied
    <3>2. \A l \in Buffered' : Settled(l)'
      BY <2>2, <3>1 DEF Settled
    <3>3. QED
      BY <2>1, <3>1, <3>2, SkipMoves, AbandonedType DEF Returning
  <2>5. CASE reply = "rejected"
    <3>1. Moves(f, Abandoned) /\ marked' = marked
      BY <1>8, <2>5 DEF Mark, Moves, Abandon, Abandoned, Applied
    <3>2. QED
      BY <1>3, <2>1, <3>1, AbandonedType
  <2>6. QED
    BY <2>3, <2>4, <2>5 DEF Replies
<1>9. ASSUME NEW reply \in Replies, Trim(f, reply) PROVE SkipInv'
  <2>1. marked' = marked
    BY <1>9 DEF Trim
  <2>2. CASE reply = "ok"
    <3> DEFINE r == [flusher[f] EXCEPT !.at = "unlock"]
    <3>1. Moves(f, r)
      BY <1>9, <2>2 DEF Trim, Moves
    <3>2. r.at = "unlock" /\ r.lines = flusher[f].lines
      BY <1>1, FlusherGoes
    <3> HIDE DEF r
    <3>3. QED
      BY <2>1, <3>1, <3>2, SkipMoves DEF Returning
  <2>3. CASE reply # "ok"
    <3>1. Moves(f, Abandoned) /\ late' = late \cup flusher[f].lines
      BY <1>9, <2>3 DEF Trim, Moves, Abandon, Abandoned
    <3>2. \A l \in Buffered' : Returning(f, l) => Settled(l)'
      BY <3>1 DEF Settled, Returning
    <3>3. QED
      BY <2>1, <3>1, <3>2, SkipMoves, AbandonedType
  <2>4. QED
    BY <2>2, <2>3
<1>10. ASSUME NEW reply \in Replies, Unlock(f, reply) PROVE SkipInv'
  <2>1. marked' = marked /\ Moves(f, Done) /\ flusher[f].at = "unlock"
    BY <1>10 DEF Unlock, Moves
  <2>2. \A l \in Lines : l \in flusher[f].lines => flushed'[l] = flushed[l] + 1
    BY <1>10 DEF Unlock
  <2>3. \A l \in Buffered' : Returning(f, l) => Settled(l)'
    <3> SUFFICES ASSUME NEW l \in Buffered', Returning(f, l) PROVE Settled(l)'
      OBVIOUS
    <3>1. l \in Lines
      BY <1>2
    <3>2. flushed'[l] = flushed[l] + 1 /\ flushed[l] \in Nat
      BY <2>2, <3>1 DEF Returning, TypeInv, TypeOK
    <3>3. flushed'[l] > 0
      BY <3>2
    <3>4. QED
      BY <3>3 DEF Settled
  <2>4. QED
    BY <1>1, <2>1, <2>3, SkipMoves
<1>11. CASE Crash(f)
  <2>1. marked' = marked /\ Moves(f, Done)
    BY <1>11 DEF Crash, Moves
  <2>2. \A l \in Buffered' : Returning(f, l) => Settled(l)'
    BY <1>11 DEF Crash, Returning, Settled
  <2>3. QED
    BY <1>1, <2>1, <2>2, SkipMoves
<1>12. QED
  BY <1>4, <1>5, <1>6, <1>7, <1>8, <1>9, <1>10, <1>11 DEF Flush, Finish

LEMMA NextSkips == TypeInv /\ LockInv /\ SkipInv /\ [Next]_vars => SkipInv'
<1> SUFFICES ASSUME TypeInv, LockInv, SkipInv, [Next]_vars PROVE SkipInv'
  OBVIOUS
<1>1. closes \in Nat
  BY DEF TypeInv, TypeOK
<1>2. ASSUME NEW a \in Appenders, AppendStep(a) PROVE SkipInv'
  <2>1. /\ UNCHANGED <<flusher, flushed, marked, closes>> /\ late \subseteq late'
        /\ \A l \in Buffered' :
             \/ l \in Buffered /\ score'[l] = score[l]
             \/ /\ l \notin sent
                /\ score'[l] <= marked \/ (\E f \in Flushers : flusher[f].at = "mark")
                     => l \in late'
    BY <1>2, AppendLines
  <2> SUFFICES ASSUME closes = 0, NEW l \in Buffered'
               PROVE  /\ score'[l] <= marked'
                         => Settled(l)' \/ \E g \in Flushers : Returning(g, l)'
                      /\ \A g \in Flushers :
                           flusher'[g].at = "mark" => l \in flusher'[g].lines \/ Settled(l)'
    BY <2>1 DEF SkipInv
  <2>2. CASE l \in Buffered /\ score'[l] = score[l]
    BY <2>1, <2>2 DEF SkipInv, Settled, Returning
  <2>3. CASE score'[l] <= marked \/ (\E f \in Flushers : flusher[f].at = "mark")
               => l \in late'
    BY <2>1, <2>3 DEF Settled
  <2>4. QED
    BY <2>1, <2>2, <2>3
<1>3. ASSUME NEW f \in Flushers, Flush(f) \/ Crash(f) PROVE SkipInv'
  <2>1. CASE closes = 0
    BY <1>3, <2>1, FlushSkips
  <2>2. CASE closes # 0
    <3>1. closes' = closes
      BY <1>3, FlushLines
    <3>2. QED
      BY <2>2, <3>1 DEF SkipInv
  <2>3. QED
    BY <2>1, <2>2
<1>4. CASE Close
  BY <1>1, <1>4 DEF Close, SkipInv
<1>5. CASE UNCHANGED <<score, flusher, flushed, late, marked, closes>>
  BY <1>5 DEF SkipInv, Buffered, Settled, Returning
<1>6. CASE LockExpires \/ Tick \/ UNCHANGED vars
  BY <1>5, <1>6 DEF LockExpires, Tick, vars, bounds, history
<1>7. QED
  BY <1>2, <1>3, <1>4, <1>6 DEF Next

\* Whatever appends and flushes interleave and fail: as long as no close came, a line that is
\* still buffered and that the next flush would not read was returned, or came late.
THEOREM OnlyLateLinesAreSkipped == Spec => []OnlyLateLinesSkipped
<1>1. Init => SkipInv
  BY DEF Init, SkipInv, Buffered
<1>2. TypeInv /\ SkipInv => OnlyLateLinesSkipped
  <2> SUFFICES ASSUME TypeInv, SkipInv, Flushing = {}, closes = 0,
                      NEW l \in Buffered \ Since(meta.at)
               PROVE  flushed[l] > 0 \/ l \in late
    BY DEF OnlyLateLinesSkipped
  <2>1. score[l] \in Nat /\ meta.at \in Nat /\ marked \in Nat /\ meta.at <= marked
    BY Times DEF Buffered, TypeInv, TypeOK, Order, Meta
  <2>2. score[l] <= marked
    BY <2>1 DEF Since
  <2>3. Settled(l) \/ \E f \in Flushers : Returning(f, l)
    BY <2>2 DEF SkipInv
  <2>4. \A f \in Flushers : Returning(f, l) => f \in Flushing
    BY DEF Returning, Flushing
  <2>5. QED
    BY <2>3, <2>4 DEF Settled
<1>3. QED
  BY <1>1, <1>2, TypeInit, NextType, LockInit, NextLocks, NextSkips, PTL DEF Spec

(***************************************************************************)
(* Duplicates. A line before the last flush the hash tells of can still be *)
(* returned by the flushes that hold it or that read the metadata before.  *)
(* A line after it will be fetched again, by as many flushes as run beside *)
(* each other: so a mark that is lost, or that falls before a line that is *)
(* ahead of the replicas, costs one more round of 1 + closes.              *)
(***************************************************************************)
LastFlush == IF meta.entity THEN meta.at ELSE Never
Holding(l) == {f \in Flushers : Returning(f, l)}
Coming(l) == {f \in Flushers : \/ flusher[f].at = "mark" /\ l \in flusher[f].lines
                               \/ flusher[f].at = "fetch" /\ flusher[f].from < score[l]}
Returned(l) == flushed[l] + Cardinality(Holding(l))
Possible(l) == Returned(l) + Cardinality(Coming(l))
Lags(l) == rollbacks + ahead[l]
Share(l) == (1 + closes) * Lags(l)
Limit(l) == (1 + closes) * (1 + Lags(l))

DupInv ==
  \A l \in Buffered :
    /\ score[l] <= LastFlush => Possible(l) <= Limit(l)
    /\ score[l] > LastFlush => Returned(l) <= Share(l)

\* One round more.
LEMMA Rounds ==
  ASSUME NEW k \in Nat, NEW r \in Nat
  PROVE  k * r \in Nat /\ k * (r + 1) \in Nat /\ k * (1 + r) = k * r + k
         /\ k * (r + 1) = k * r + k
OBVIOUS

LEMMA CountTypes ==
  ASSUME TypeInv, NEW l \in Lines
  PROVE  /\ Holding(l) \subseteq Flushers /\ Coming(l) \subseteq Flushing
         /\ Coming(l) \subseteq Flushers
         /\ Cardinality(Holding(l)) \in Nat /\ Cardinality(Coming(l)) \in Nat
         /\ flushed[l] \in Nat /\ Returned(l) \in Nat /\ Possible(l) \in Nat
         /\ score[l] \in Nat /\ LastFlush \in Nat
         /\ Share(l) \in Nat /\ Limit(l) \in Nat /\ Limit(l) = Share(l) + (1 + closes)
<1>1. Holding(l) \subseteq Flushers /\ Coming(l) \subseteq Flushing /\ Coming(l) \subseteq Flushers
  BY DEF Holding, Coming, Flushing
<1>2. Cardinality(Holding(l)) \in Nat /\ Cardinality(Coming(l)) \in Nat
  BY <1>1, FewerFlushes
<1>3. flushed[l] \in Nat /\ score[l] \in Nat
  BY DEF TypeInv, TypeOK
<1>4. LastFlush \in Nat
  BY Times DEF LastFlush, TypeInv, TypeOK, Meta
<1>5. 1 + closes \in Nat /\ Lags(l) \in Nat
  BY DEF TypeInv, TypeOK, Lags
<1>6. Share(l) \in Nat /\ Limit(l) \in Nat /\ Limit(l) = Share(l) + (1 + closes)
  BY <1>5, Rounds DEF Share, Limit
<1>7. QED
  BY <1>1, <1>2, <1>3, <1>4, <1>6 DEF Returned, Possible

LEMMA WithinLimit ==
  ASSUME TypeInv, LockInv, DupInv, NEW l \in Buffered
  PROVE  Possible(l) <= Limit(l)
<1>1. l \in Lines
  BY DEF Buffered
<1>2. CASE score[l] <= LastFlush
  BY <1>2 DEF DupInv
<1>3. CASE score[l] > LastFlush
  <2>1. Returned(l) <= Share(l)
    BY <1>3 DEF DupInv
  <2>2. Cardinality(Flushing) <= 1 + closes /\ Cardinality(Flushing) \in Nat /\ closes \in Nat
    <3>1. closes \in Nat /\ Cardinality(Flushing) \in Nat
      BY FlushingFinite DEF TypeInv, TypeOK
    <3>2. QED
      BY <3>1 DEF LockInv
  <2>3. Cardinality(Coming(l)) <= Cardinality(Flushing)
    BY <1>1, CountTypes, FewerFlushes DEF Flushing
  <2>4. QED
    BY <1>1, <2>1, <2>2, <2>3, CountTypes DEF Possible
<1>4. QED
  BY <1>1, <1>2, <1>3, CountTypes

\* One flush moves: who holds a line, and who will fetch it.
LEMMA CountMoves ==
  ASSUME TypeInv, NEW f \in Flushers, NEW r, Moves(f, r), NEW l \in Lines,
         score'[l] = score[l]
  PROVE  /\ \A g \in Flushers \ {f} : /\ g \in Holding(l)' <=> g \in Holding(l)
                                      /\ g \in Coming(l)' <=> g \in Coming(l)
         /\ f \in Holding(l)' <=> r.at \in {"trim", "unlock"} /\ l \in r.lines
         /\ f \in Coming(l)' <=> \/ r.at = "mark" /\ l \in r.lines
                                 \/ r.at = "fetch" /\ r.from < score[l]
BY FlushingMoves DEF Holding, Coming, Returning

\* A flush that neither marks nor returns takes no line on; only when it reads the
\* metadata it will fetch the lines after the last flush.
LEMMA OtherCounts ==
  ASSUME TypeInv, NEW f \in Flushers, NEW reply \in Replies, NEW l \in Buffered',
         \/ Trigger(f) \/ Lock(f, reply) \/ ReadMeta(f, reply) \/ Fetch(f, reply)
         \/ Trim(f, reply) \/ Crash(f)
  PROVE  /\ Holding(l)' \subseteq Holding(l)
         /\ score[l] <= LastFlush => Coming(l)' \subseteq Coming(l)
<1>1. l \in Buffered /\ l \in Lines /\ score'[l] = score[l]
  <2>1. Flush(f) \/ Crash(f)
    BY DEF Flush, Finish
  <2>2. QED
    BY <2>1, FlushLines DEF Buffered
<1>2. flusher[f] \in Flusher /\ Done.at = "idle" /\ score[l] \in Nat
  BY <1>1, Times DEF TypeInv, TypeOK
<1>3. Holding(l)' \subseteq Flushers /\ Coming(l)' \subseteq Flushers
  BY DEF Holding, Coming
<1>4. ASSUME NEW r, Moves(f, r),
             r.at \in {"trim", "unlock"} /\ l \in r.lines => f \in Holding(l),
             (score[l] <= LastFlush /\ \/ r.at = "mark" /\ l \in r.lines
                                       \/ r.at = "fetch" /\ r.from < score[l])
               => f \in Coming(l)
      PROVE  /\ Holding(l)' \subseteq Holding(l)
             /\ score[l] <= LastFlush => Coming(l)' \subseteq Coming(l)
  BY <1>1, <1>3, <1>4, CountMoves
<1>5. CASE Moves(f, Done)
  BY <1>2, <1>4, <1>5
<1>6. CASE Moves(f, Abandoned)
  BY <1>4, <1>6, AbandonedType
<1>7. ASSUME NEW state \in {"lock", "meta"}, Moves(f, [flusher[f] EXCEPT !.at = state])
      PROVE  /\ Holding(l)' \subseteq Holding(l)
             /\ score[l] <= LastFlush => Coming(l)' \subseteq Coming(l)
  <2>1. [flusher[f] EXCEPT !.at = state].at = state
    BY <1>2, FlusherGoes
  <2>2. QED
    BY <1>4, <1>7, <2>1
<1>8. CASE Trigger(f)
  BY <1>7, <1>8 DEF Trigger, Moves
<1>9. CASE Lock(f, reply)
  BY <1>5, <1>7, <1>9 DEF Lock, Moves
<1>10. CASE ReadMeta(f, reply)
  <2> DEFINE r == [flusher[f] EXCEPT !.at = "fetch", !.from = LastFlush]
  <2>1. Moves(f, r) \/ Moves(f, Abandoned)
    BY <1>10 DEF ReadMeta, Moves, Abandon, Abandoned, LastFlush
  <2>2. r.at = "fetch" /\ r.from = LastFlush
    BY <1>2 DEF Flusher
  <2>3. LastFlush \in Nat
    BY <1>1, CountTypes
  <2> HIDE DEF r
  <2>4. CASE Moves(f, r)
    <3>1. ~ (score[l] <= LastFlush /\ r.from < score[l])
      BY <1>2, <2>2, <2>3
    <3>2. QED
      BY <1>4, <2>2, <2>4, <3>1
  <2>5. QED
    BY <1>6, <2>1, <2>4
<1>11. CASE Fetch(f, reply)
  <2> DEFINE r == [flusher[f] EXCEPT !.at = "mark", !.lines = Since(flusher[f].from)]
  <2>1. flusher[f].at = "fetch" /\ (Moves(f, r) \/ Moves(f, Abandoned))
    BY <1>11 DEF Fetch, Moves, Abandon, Abandoned
  <2>2. r.at = "mark" /\ r.lines = Since(flusher[f].from)
    BY <1>2 DEF Flusher
  <2> HIDE DEF r
  <2>3. flusher[f].from \in Nat
    BY <1>2, Times DEF Flusher
  <2>4. l \in r.lines => flusher[f].from < score[l]
    BY <1>2, <2>2, <2>3 DEF Since
  <2>5. l \in r.lines => f \in Coming(l)
    BY <2>1, <2>4 DEF Coming
  <2>6. QED
    BY <1>4, <1>6, <2>1, <2>2, <2>5
<1>12. CASE Trim(f, reply)
  <2>1. flusher[f].at = "trim"
        /\ (Moves(f, [flusher[f] EXCEPT !.at = "unlock"]) \/ Moves(f, Abandoned))
    BY <1>12 DEF Trim, Moves, Abandon, Abandoned
  <2> DEFINE r == [flusher[f] EXCEPT !.at = "unlock"]
  <2>2. r.at = "unlock" /\ r.lines = flusher[f].lines
    BY <1>2, FlusherGoes
  <2> HIDE DEF r
  <2>3. l \in flusher[f].lines => f \in Holding(l)
    BY <2>1 DEF Holding, Returning
  <2>4. CASE Moves(f, r)
    BY <1>4, <2>2, <2>3, <2>4
  <2>5. QED
    BY <1>6, <2>1, <2>4 DEF r
<1>13. CASE Crash(f)
  BY <1>5, <1>13 DEF Crash, Moves
<1>14. QED
  BY <1>8, <1>9, <1>10, <1>11, <1>12, <1>13

LEMMA OtherDuplicates ==
  ASSUME TypeInv, LockInv, DupInv, NEW f \in Flushers, NEW reply \in Replies,
         \/ Trigger(f) \/ Lock(f, reply) \/ ReadMeta(f, reply) \/ Fetch(f, reply)
         \/ Trim(f, reply) \/ Crash(f)
  PROVE  DupInv'
<1>1. UNCHANGED <<meta, flushed, rollbacks, ahead, closes>>
  BY DEF Trigger, Lock, ReadMeta, Fetch, Trim, Crash, history, bounds
<1>2. LastFlush' = LastFlush
      /\ \A l \in Lines : Share(l)' = Share(l) /\ Limit(l)' = Limit(l)
  BY <1>1 DEF LastFlush, Share, Limit, Lags
<1>3. SUFFICES ASSUME NEW l \in Buffered'
               PROVE  /\ score'[l] <= LastFlush => Possible(l)' <= Limit(l)
                      /\ score'[l] > LastFlush => Returned(l)' <= Share(l)
  BY <1>2 DEF DupInv, Buffered
<1>4. l \in Buffered /\ l \in Lines /\ score'[l] = score[l]
  <2>1. Flush(f) \/ Crash(f)
    BY DEF Flush, Finish
  <2>2. QED
    BY <2>1, FlushLines DEF Buffered
<1>5. /\ Holding(l)' \subseteq Holding(l)
      /\ score[l] <= LastFlush => Coming(l)' \subseteq Coming(l)
  BY OtherCounts
<1>6. /\ Holding(l) \subseteq Flushers /\ Coming(l) \subseteq Flushers
      /\ Cardinality(Holding(l)) \in Nat /\ Cardinality(Coming(l)) \in Nat
      /\ flushed[l] \in Nat /\ Share(l) \in Nat /\ Limit(l) \in Nat
  BY <1>4, CountTypes
<1>7. Cardinality(Holding(l)') \in Nat /\ Cardinality(Holding(l)') <= Cardinality(Holding(l))
  BY <1>5, <1>6, FewerFlushes
<1>8. Returned(l)' <= Returned(l) /\ Returned(l)' \in Nat /\ Returned(l) \in Nat
  <2>1. Returned(l)' = flushed[l] + Cardinality(Holding(l)')
    BY <1>1 DEF Returned
  <2>2. QED
    BY <1>6, <1>7, <2>1 DEF Returned
<1>9. CASE score[l] <= LastFlush
  <2>1. Cardinality(Coming(l)') \in Nat /\ Cardinality(Coming(l)') <= Cardinality(Coming(l))
    BY <1>5, <1>6, <1>9, FewerFlushes
  <2>2. Possible(l) <= Limit(l)
    BY <1>4, <1>9 DEF DupInv
  <2>3. Possible(l)' = Returned(l)' + Cardinality(Coming(l)')
    BY DEF Possible
  <2>4. Possible(l)' <= Limit(l)
    BY <1>6, <1>8, <2>1, <2>2, <2>3 DEF Possible
  <2>5. score[l] \in Nat /\ LastFlush \in Nat
    BY <1>4, CountTypes
  <2>6. QED
    BY <1>4, <1>9, <2>4, <2>5
<1>10. CASE score[l] > LastFlush
  <2>1. Returned(l) <= Share(l)
    BY <1>4, <1>10 DEF DupInv
  <2>2. Returned(l)' <= Share(l)
    BY <1>6, <1>8, <2>1
  <2>3. score[l] \in Nat /\ LastFlush \in Nat
    BY <1>4, CountTypes
  <2>4. QED
    BY <1>4, <1>10, <2>2, <2>3
<1>11. QED
  BY <1>4, <1>9, <1>10, CountTypes

\* A flush that marks goes from those that come to those that hold; the mark is now, or it
\* is lost. A line that is ahead of the mark was in the flush, and then the mark counts as
\* one that lags, or it was ahead of the last mark too.
LEMMA MarkDuplicates ==
  ASSUME TypeInv, LockInv, DupInv, NEW f \in Flushers, NEW reply \in Replies, Mark(f, reply)
  PROVE  DupInv'
<1>1. UNCHANGED <<flushed, closes, score>> /\ flusher[f].at = "mark" /\ flusher[f] \in Flusher
  BY DEF Mark, bounds, TypeInv, TypeOK
<1>2. SUFFICES ASSUME NEW l \in Buffered'
               PROVE  /\ score'[l] <= LastFlush' => Possible(l)' <= Limit(l)'
                      /\ score'[l] > LastFlush' => Returned(l)' <= Share(l)'
  BY DEF DupInv
<1>3. l \in Buffered /\ l \in Lines /\ score'[l] = score[l]
  BY <1>1, <1>2 DEF Buffered
<1>4. /\ Holding(l) \subseteq Flushers /\ Coming(l) \subseteq Flushers
      /\ Cardinality(Holding(l)) \in Nat /\ Cardinality(Coming(l)) \in Nat
      /\ flushed[l] \in Nat /\ Share(l) \in Nat /\ Limit(l) \in Nat /\ Limit(l) = Share(l) + (1 + closes)
      /\ score[l] \in Nat /\ LastFlush \in Nat
  BY <1>3, CountTypes
<1>5. Possible(l)' \in Nat /\ Returned(l)' \in Nat /\ Possible(l)' <= Possible(l)
      /\ Returned(l)' <= Possible(l)'
      /\ (reply # "ok" \/ l \notin flusher[f].lines => Returned(l)' <= Returned(l))
  <2>1. /\ Returned(l)' = flushed[l] + Cardinality(Holding(l)')
        /\ Possible(l)' = Returned(l)' + Cardinality(Coming(l)')
    BY <1>1 DEF Returned, Possible
  <2>2. Holding(l)' \subseteq Flushers /\ Coming(l)' \subseteq Flushers
    BY DEF Holding, Coming
  <2>3. Cardinality(Holding(l)') \in Nat /\ Cardinality(Coming(l)') \in Nat
    BY <2>2, FewerFlushes
  <2>4. CASE reply = "ok" /\ l \in flusher[f].lines
    <3> DEFINE r == [flusher[f] EXCEPT !.at = "trim"]
    <3>1. Moves(f, r)
      BY <2>4 DEF Mark, Moves
    <3>2. r.at = "trim"
      BY <1>1, FlusherGoes
    <3> HIDE DEF r
    <3>3. f \in Coming(l) /\ f \notin Coming(l)'
      BY <1>1, <1>3, <2>4, <3>1, <3>2, CountMoves DEF Coming
    <3>4. Coming(l)' \subseteq Coming(l) \ {f} /\ Holding(l)' \subseteq Holding(l) \cup {f}
      BY <1>3, <2>2, <3>1, <3>3, CountMoves
    <3>5. Cardinality(Coming(l)') + 1 <= Cardinality(Coming(l))
      BY <1>4, <3>3, <3>4, OneFlushLess
    <3>6. Cardinality(Holding(l)') <= Cardinality(Holding(l)) + 1
      BY <1>4, <3>4, OneMoreFlush
    <3>7. QED
      BY <1>4, <2>1, <2>3, <2>4, <3>5, <3>6 DEF Returned, Possible
  <2>5. CASE ~(reply = "ok" /\ l \in flusher[f].lines)
    <3>1. PICK r : /\ Moves(f, r) /\ r.at \in {"trim", "unlock"} /\ l \notin r.lines
      <4>1. CASE reply = "ok"
        <5>1. Moves(f, [flusher[f] EXCEPT !.at = "trim"])
          BY <4>1 DEF Mark, Moves
        <5>2. [flusher[f] EXCEPT !.at = "trim"].at = "trim"
              /\ [flusher[f] EXCEPT !.at = "trim"].lines = flusher[f].lines
          BY <1>1, FlusherGoes
        <5>3. QED
          BY <2>5, <4>1, <5>1, <5>2
      <4>2. CASE reply # "ok"
        BY <4>2, AbandonedType DEF Mark, Moves, Abandon, Abandoned
      <4>3. QED
        BY <4>1, <4>2
    <3>2. Coming(l)' \subseteq Coming(l) /\ Holding(l)' \subseteq Holding(l)
      BY <1>3, <2>2, <3>1, CountMoves
    <3>3. /\ Cardinality(Coming(l)') <= Cardinality(Coming(l))
          /\ Cardinality(Holding(l)') <= Cardinality(Holding(l))
      BY <1>4, <3>2, FewerFlushes
    <3>4. QED
      BY <1>4, <2>1, <2>3, <3>3 DEF Returned, Possible
  <2>6. QED
    BY <2>4, <2>5
<1>6. Possible(l) <= Limit(l) /\ Possible(l) \in Nat /\ Returned(l) \in Nat
  BY <1>3, WithinLimit, CountTypes
<1>7. CASE ~Applied(reply)
  <2>1. UNCHANGED <<meta, rollbacks, ahead>> /\ reply # "ok"
    BY <1>7 DEF Mark, Applied
  <2>2. LastFlush' = LastFlush /\ Limit(l)' = Limit(l) /\ Share(l)' = Share(l)
    BY <1>1, <2>1 DEF LastFlush, Limit, Share, Lags
  <2>3. score[l] > LastFlush => Returned(l) <= Share(l)
    BY <1>3 DEF DupInv
  <2>4. QED
    BY <1>3, <1>4, <1>5, <1>6, <2>1, <2>2, <2>3
<1>8. /\ rollbacks \in Nat /\ ahead[l] \in Nat /\ 1 + closes \in Nat /\ Lags(l) \in Nat
      /\ Applied(reply) => ahead'[l] = (IF l \in flusher[f].lines /\ now < score[l]
                                        THEN ahead[l] + 1 ELSE ahead[l])
  <2>1. rollbacks \in Nat /\ ahead[l] \in Nat /\ 1 + closes \in Nat
    BY <1>3 DEF TypeInv, TypeOK
  <2>2. Lags(l) \in Nat
    BY <2>1 DEF Lags
  <2>3. QED
    BY <1>3, <2>1, <2>2 DEF Mark
\* A mark that lags behind the line gives it a round.
<1>9. ASSUME Lags(l)' = Lags(l) + 1 \/ Lags(l)' = Lags(l) + 2
      PROVE  Share(l)' \in Nat /\ Limit(l)' \in Nat /\ Share(l)' >= Limit(l)
             /\ Limit(l)' >= Limit(l)
  <2>1. PICK k \in Nat, r \in Nat : k = 1 + closes /\ r = Lags(l)
    BY <1>8
  <2>2. /\ k * (r + 1) \in Nat /\ k * (1 + r) = k * (r + 1)
        /\ k * (r + 2) = k * (r + 1) + k /\ k * (r + 3) = k * (r + 2) + k
    <3>1. r + 1 \in Nat /\ r + 2 \in Nat
      BY <2>1
    <3>2. k * ((r + 1) + 1) = k * (r + 1) + k /\ k * ((r + 2) + 1) = k * (r + 2) + k
      BY <3>1, Rounds
    <3>3. (r + 1) + 1 = r + 2 /\ (r + 2) + 1 = r + 3 /\ 1 + r = r + 1
      BY <2>1
    <3>4. QED
      BY <2>1, <3>2, <3>3, Rounds
  <2>3. Limit(l) = k * (r + 1)
    BY <2>1, <2>2 DEF Limit
  <2>4. CASE Lags(l)' = Lags(l) + 1
    <3>1. Share(l)' = k * (r + 1)
      BY <1>1, <2>1, <2>4 DEF Share
    <3>2. Limit(l)' = k * (r + 2)
      <4>1. 1 + (r + 1) = r + 2
        BY <2>1
      <4>2. Limit(l)' = k * (1 + (r + 1))
        BY <1>1, <2>1, <2>4 DEF Limit
      <4>3. QED
        BY <4>1, <4>2
    <3>3. QED
      BY <2>1, <2>2, <2>3, <3>1, <3>2
  <2>5. CASE Lags(l)' = Lags(l) + 2
    <3>1. Share(l)' = k * (r + 2)
      BY <1>1, <2>1, <2>5 DEF Share
    <3>2. Limit(l)' = k * (r + 3)
      <4>1. 1 + (r + 2) = r + 3
        BY <2>1
      <4>2. Limit(l)' = k * (1 + (r + 2))
        BY <1>1, <2>1, <2>5 DEF Limit
      <4>3. QED
        BY <4>1, <4>2
    <3>3. QED
      BY <2>1, <2>2, <2>3, <3>1, <3>2
  <2>6. QED
    BY <1>9, <2>4, <2>5
<1>10. CASE Applied(reply) /\ meta.entity
  <2>1. meta' = [meta EXCEPT !.at = now] /\ rollbacks' = rollbacks
    BY <1>10 DEF Mark
  <2>2. LastFlush' = now /\ now \in Nat
    <3>1. meta'.entity = meta.entity /\ meta'.at = now
      BY <2>1 DEF TypeInv, TypeOK, Meta
    <3>2. QED
      BY <1>1, <1>10, <2>1, <3>1 DEF LastFlush, TypeInv, TypeOK
  <2>3. LastFlush <= now
    BY Times DEF TypeInv, TypeOK, LastFlush, Meta
  <2>4. CASE ahead'[l] = ahead[l]
    <3>1. Limit(l)' = Limit(l) /\ Share(l)' = Share(l)
      BY <1>1, <2>1, <2>4 DEF Limit, Share, Lags
    <3>2. CASE score[l] <= now
      BY <1>3, <1>4, <1>5, <1>6, <2>2, <3>1, <3>2
    <3>3. CASE now < score[l]
      <4>1. l \notin flusher[f].lines
        BY <1>8, <1>10, <2>4, <3>3
      <4>2. Returned(l) <= Share(l)
        BY <1>3, <1>4, <2>2, <2>3, <3>3 DEF DupInv
      <4>3. Returned(l)' <= Share(l)'
        BY <1>4, <1>5, <1>6, <3>1, <4>1, <4>2
      <4>4. QED
        BY <1>3, <1>4, <2>2, <3>3, <4>3
    <3>4. QED
      BY <1>4, <2>2, <3>2, <3>3
  <2>5. CASE ahead'[l] = ahead[l] + 1
    <3>1. Lags(l)' = Lags(l) + 1
      BY <1>8, <2>1, <2>5 DEF Lags
    <3>2. /\ Share(l)' \in Nat /\ Limit(l)' \in Nat /\ Share(l)' >= Limit(l)
          /\ Limit(l)' >= Limit(l)
      BY <1>9, <3>1
    <3>3. QED
      BY <1>4, <1>5, <1>6, <3>2
  <2>6. QED
    BY <1>8, <1>10, <2>4, <2>5
<1>11. CASE Applied(reply) /\ ~meta.entity
  <2>1. meta' = [meta EXCEPT !.at = now] /\ rollbacks' = rollbacks + 1
    BY <1>11 DEF Mark
  <2>2. Lags(l)' = Lags(l) + 1 \/ Lags(l)' = Lags(l) + 2
    <3>1. ahead'[l] = ahead[l] \/ ahead'[l] = ahead[l] + 1
      BY <1>8, <1>11
    <3>2. QED
      BY <1>8, <2>1, <3>1 DEF Lags
  <2>3. /\ Share(l)' \in Nat /\ Limit(l)' \in Nat /\ Share(l)' >= Limit(l)
        /\ Limit(l)' >= Limit(l)
    BY <1>9, <2>2
  <2>4. QED
    BY <1>4, <1>5, <1>6, <2>3
<1>12. QED
  BY <1>7, <1>10, <1>11

LEMMA UnlockDuplicates ==
  ASSUME TypeInv, LockInv, DupInv, NEW f \in Flushers, NEW reply \in Replies,
         Unlock(f, reply)
  PROVE  DupInv'
<1>1. UNCHANGED <<closes, score, meta, rollbacks, ahead>> /\ flusher[f].at = "unlock"
      /\ Moves(f, Done) /\ Done.at = "idle"
  BY Times DEF Unlock, bounds, Moves
<1>2. LastFlush' = LastFlush
      /\ \A l \in Lines : Share(l)' = Share(l) /\ Limit(l)' = Limit(l)
  BY <1>1 DEF LastFlush, Share, Limit, Lags
<1>3. SUFFICES ASSUME NEW l \in Buffered'
               PROVE  /\ score'[l] <= LastFlush => Possible(l)' <= Limit(l)
                      /\ score'[l] > LastFlush => Returned(l)' <= Share(l)
  BY <1>2 DEF DupInv, Buffered
<1>4. l \in Buffered /\ l \in Lines /\ score'[l] = score[l]
  BY <1>1, <1>3 DEF Buffered
<1>5. /\ Holding(l) \subseteq Flushers /\ Coming(l) \subseteq Flushers
      /\ Cardinality(Holding(l)) \in Nat /\ Cardinality(Coming(l)) \in Nat
      /\ flushed[l] \in Nat /\ Share(l) \in Nat /\ Limit(l) \in Nat
      /\ Returned(l) \in Nat /\ Possible(l) \in Nat
  BY <1>4, CountTypes
<1>6. /\ Holding(l)' \subseteq Holding(l) \ {f} /\ Coming(l)' \subseteq Coming(l)
  <2>1. Holding(l)' \subseteq Flushers /\ Coming(l)' \subseteq Flushers
    BY DEF Holding, Coming
  <2>2. f \notin Holding(l)' /\ f \notin Coming(l)'
    BY <1>1, <1>4, CountMoves
  <2>3. QED
    BY <1>1, <1>4, <2>1, <2>2, CountMoves
<1>7. Cardinality(Coming(l)') \in Nat /\ Cardinality(Coming(l)') <= Cardinality(Coming(l))
  BY <1>5, <1>6, FewerFlushes
<1>8. /\ Returned(l)' = flushed'[l] + Cardinality(Holding(l)')
      /\ Possible(l)' = Returned(l)' + Cardinality(Coming(l)')
  BY DEF Returned, Possible
<1>9. Returned(l)' <= Returned(l) /\ Returned(l)' \in Nat
  <2>1. CASE l \in flusher[f].lines
    <3>1. flushed'[l] = flushed[l] + 1 /\ f \in Holding(l)
      BY <1>1, <1>4, <2>1 DEF Unlock, Holding, Returning
    <3>2. Cardinality(Holding(l)') + 1 <= Cardinality(Holding(l))
          /\ Cardinality(Holding(l)') \in Nat
      BY <1>5, <1>6, <3>1, OneFlushLess
    <3>3. QED
      BY <1>5, <1>8, <3>1, <3>2 DEF Returned
  <2>2. CASE l \notin flusher[f].lines
    <3>1. flushed'[l] = flushed[l]
      BY <1>4, <2>2 DEF Unlock
    <3>2. Holding(l)' \subseteq Holding(l)
      BY <1>6
    <3>3. Cardinality(Holding(l)') <= Cardinality(Holding(l))
          /\ Cardinality(Holding(l)') \in Nat
      BY <1>5, <3>2, FewerFlushes
    <3>4. QED
      BY <1>5, <1>8, <3>1, <3>3 DEF Returned
  <2>3. QED
    BY <2>1, <2>2
<1>10. Possible(l)' <= Possible(l) /\ Possible(l)' \in Nat
  BY <1>5, <1>7, <1>8, <1>9 DEF Possible
<1>11. /\ score[l] <= LastFlush => Possible(l) <= Limit(l)
       /\ score[l] > LastFlush => Returned(l) <= Share(l)
  BY <1>4 DEF DupInv
<1>12. QED
  BY <1>4, <1>5, <1>9, <1>10, <1>11

LEMMA AppendDuplicates ==
  ASSUME TypeInv, LockInv, DupInv, NEW a \in Appenders, AppendStep(a)
  PROVE  DupInv'
<1>1. UNCHANGED <<flusher, flushed, ahead, closes>>
  <2>1. ahead' = ahead
    BY DEF AppendStep, Add, ReadBuffer, WriteMeta, Evict, history
  <2>2. QED
    BY <2>1, AppendLines
<1>2. SUFFICES ASSUME NEW l \in Buffered'
               PROVE  /\ score'[l] <= LastFlush' => Possible(l)' <= Limit(l)'
                      /\ score'[l] > LastFlush' => Returned(l)' <= Share(l)'
  BY DEF DupInv
<1>3. l \in Lines
  BY <1>2 DEF Buffered
<1>4. /\ Holding(l) \subseteq Flushers /\ Coming(l) \subseteq Flushers
      /\ Cardinality(Holding(l)) \in Nat /\ Cardinality(Coming(l)) \in Nat
      /\ flushed[l] \in Nat /\ Share(l) \in Nat /\ Limit(l) \in Nat /\ Limit(l) = Share(l) + (1 + closes)
      /\ LastFlush \in Nat /\ Returned(l) \in Nat /\ Possible(l) \in Nat
      /\ closes \in Nat /\ rollbacks \in Nat /\ 1 + closes \in Nat /\ ahead[l] \in Nat
  BY <1>3, CountTypes DEF TypeInv, TypeOK
<1>5. Holding(l)' = Holding(l) /\ Returned(l)' = Returned(l)
  BY <1>1 DEF Holding, Returning, Returned
<1>6. LastFlush' \in Nat /\ score'[l] \in Nat /\ rollbacks' \in Nat
      /\ Share(l)' \in Nat /\ Limit(l)' \in Nat /\ Limit(l)' = Share(l)' + (1 + closes)
  <2>1. TypeInv'
    BY AppendType
  <2>2. rollbacks' \in Nat /\ score'[l] \in Nat
    BY <1>3, <2>1 DEF TypeInv, TypeOK
  <2>3. meta'.at \in Nat /\ LastFlush' = (IF meta'.entity THEN meta'.at ELSE 0)
    BY <2>1, Times DEF TypeInv, TypeOK, Meta, LastFlush
  <2>4. Share(l)' = (1 + closes) * Lags(l)' /\ Limit(l)' = (1 + closes) * (1 + Lags(l)')
    BY <1>1 DEF Share, Limit
  <2>5. PICK k \in Nat, r \in Nat : k = 1 + closes /\ r = Lags(l)'
    <3>1. Lags(l)' \in Nat
      BY <1>1, <1>4, <2>2 DEF Lags
    <3>2. QED
      BY <1>4, <3>1
  <2>6. k * r \in Nat /\ k * (1 + r) = k * r + k
    BY Rounds
  <2>7. Share(l)' = k * r /\ Limit(l)' = k * (1 + r)
    BY <2>4, <2>5
  <2>8. Share(l)' \in Nat /\ Limit(l)' \in Nat /\ Limit(l)' = Share(l)' + (1 + closes)
    BY <2>5, <2>6, <2>7
  <2>9. QED
    BY <2>2, <2>3, <2>8
<1>7. CASE l \in Buffered /\ score'[l] = score[l]
  <2>1. Coming(l)' = Coming(l) /\ Possible(l)' = Possible(l)
    BY <1>1, <1>5, <1>7 DEF Coming, Possible
  <2>2. Possible(l) <= Limit(l) /\ Returned(l) <= Possible(l)
    BY <1>4, <1>7, WithinLimit DEF Possible
  <2>3. \/ rollbacks' = rollbacks /\ LastFlush' >= LastFlush
        \/ rollbacks' = rollbacks + 1
    <3>1. CASE UNCHANGED <<meta, rollbacks>>
      BY <1>4, <3>1 DEF LastFlush
    <3>2. ASSUME NEW t \in Nat, meta' = [entity |-> TRUE, at |-> t],
                 rollbacks' = IF t < meta.at THEN rollbacks + 1 ELSE rollbacks
          PROVE  \/ rollbacks' = rollbacks /\ LastFlush' >= LastFlush
                 \/ rollbacks' = rollbacks + 1
      <4>1. LastFlush' = t
        BY <3>2 DEF LastFlush
      <4>2. meta.at \in Nat /\ LastFlush <= meta.at
        BY Times DEF TypeInv, TypeOK, Meta, LastFlush
      <4>3. QED
        BY <1>4, <3>2, <4>1, <4>2
    <3>3. (IF appender[a].seen.entity THEN appender[a].seen.at ELSE Never) \in Nat
      BY Times DEF TypeInv, TypeOK, Appender
    <3>4. QED
      BY <3>1, <3>2, <3>3 DEF AppendStep, Add, ReadBuffer, WriteMeta, Evict, history
  <2>4. CASE rollbacks' = rollbacks /\ LastFlush' >= LastFlush
    <3>1. Share(l)' = Share(l) /\ Limit(l)' = Limit(l)
      BY <1>1, <2>4 DEF Share, Limit, Lags
    <3>2. score[l] > LastFlush => Returned(l) <= Share(l)
      BY <1>7 DEF DupInv
    <3>3. score[l] \in Nat
      BY <1>6, <1>7
    <3>4. QED
      BY <1>4, <1>5, <1>6, <1>7, <2>1, <2>2, <2>4, <3>1, <3>2, <3>3
  <2>5. CASE rollbacks' = rollbacks + 1
    <3>1. Share(l)' = Limit(l)
      <4>1. Lags(l)' = 1 + Lags(l)
        BY <1>1, <1>4, <2>5 DEF Lags
      <4>2. QED
        BY <1>1, <4>1 DEF Share, Limit
    <3>2. QED
      BY <1>4, <1>5, <1>6, <2>1, <2>2, <3>1
  <2>6. QED
    BY <2>3, <2>4, <2>5
<1>8. CASE l \notin sent
  <2>1. flushed[l] = 0 /\ \A f \in Flushers : l \notin flusher[f].lines
    BY <1>3, <1>4, <1>8 DEF TypeInv, Known
  <2>2. Holding(l) = {}
    BY <2>1 DEF Holding, Returning
  <2>3. Returned(l) = 0
    BY <2>1, <2>2, FS_EmptySet DEF Returned
  <2>4. Coming(l)' \subseteq Flushing
    BY <1>1 DEF Coming, Flushing
  <2>5. Cardinality(Coming(l)') <= Cardinality(Flushing) /\ Cardinality(Coming(l)') \in Nat
    BY <2>4, FewerFlushes DEF Flushing
  <2>6. Cardinality(Flushing) <= 1 + closes /\ Cardinality(Flushing) \in Nat
    BY <1>4, FlushingFinite DEF LockInv
  <2>7. Possible(l)' = Returned(l)' + Cardinality(Coming(l)')
    BY DEF Possible
  <2>8. Possible(l)' <= Limit(l)' /\ Returned(l)' <= Share(l)'
    BY <1>4, <1>5, <1>6, <2>3, <2>5, <2>6, <2>7
  <2>9. QED
    BY <2>8
<1>9. QED
  BY <1>2, <1>7, <1>8, AppendLines

LEMMA NextDuplicates == TypeInv /\ LockInv /\ DupInv /\ [Next]_vars => DupInv'
<1> SUFFICES ASSUME TypeInv, LockInv, DupInv, [Next]_vars PROVE DupInv'
  OBVIOUS
<1>1. ASSUME NEW f \in Flushers, Flush(f) \/ Crash(f) PROVE DupInv'
  <2>1. "ok" \in Replies
    BY DEF Replies
  <2>2. QED
    BY <1>1, <2>1, OtherDuplicates, MarkDuplicates, UnlockDuplicates DEF Flush, Finish
<1>2. CASE Close
  <2>1. Buffered' = {}
    BY <1>2, DropType DEF Close, Buffered
  <2>2. QED
    BY <2>1 DEF DupInv
<1>3. CASE UNCHANGED <<score, meta, flusher, flushed, rollbacks, ahead, closes>>
  BY <1>3 DEF DupInv, Buffered, LastFlush, Possible, Returned, Holding, Returning, Coming,
              Limit, Share, Lags
<1>4. CASE LockExpires \/ Tick \/ UNCHANGED vars
  BY <1>3, <1>4 DEF LockExpires, Tick, vars, bounds, history
<1>5. QED
  BY <1>1, <1>2, <1>4, AppendDuplicates DEF Next

\* In every run, while a line is buffered it is returned at most 1 + closes times, and as
\* often again for each mark that was lost and for each that fell before the line, whose
\* time the provider gave ahead of the replicas.
THEOREM DuplicatesAreBounded == Spec => []BoundedDuplicates
<1>1. Init => DupInv
  BY DEF Init, DupInv, Buffered
<1>2. TypeInv /\ LockInv /\ DupInv => BoundedDuplicates
  <2> SUFFICES ASSUME TypeInv, LockInv, DupInv, NEW l \in Buffered
               PROVE  flushed[l] <= (1 + closes) * (1 + rollbacks + ahead[l])
    BY DEF BoundedDuplicates
  <2>1. l \in Lines
    BY DEF Buffered
  <2>2. Possible(l) <= Limit(l)
    BY WithinLimit
  <2>3. flushed[l] <= Possible(l)
    BY <2>1, CountTypes DEF Returned, Possible
  <2>4. flushed[l] \in Nat /\ Possible(l) \in Nat /\ Limit(l) \in Nat
    BY <2>1, CountTypes
  <2>5. flushed[l] <= Limit(l)
    BY <2>2, <2>3, <2>4
  <2>6. 1 + Lags(l) = 1 + rollbacks + ahead[l]
    BY <2>1 DEF Lags, TypeInv, TypeOK
  <2>7. QED
    BY <2>5, <2>6 DEF Limit
<1>3. QED
  BY <1>1, <1>2, TypeInit, NextType, LockInit, NextLocks, NextDuplicates, PTL DEF Spec
=============================================================================
