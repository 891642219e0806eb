--------------------------- MODULE WorkPartsProofs ---------------------------
(***************************************************************************)
(* Proofs about the CI aggregation (CiAggregation) and the analysis jobs   *)
(* (AnalysisJobs), for any finite sets of pollers, jobs and loops, any     *)
(* checks and any bound on faults. SmallPartsProofs concludes about the    *)
(* sum of the parts.                                                       *)
(***************************************************************************)
EXTENDS MCSmallParts, FiniteSetTheorems, TLAPS

USE CircuitAssumption, PartsAssumption

(* The instance's Cardinality is that of FiniteSets. *)
LEMMA CiSets == \A S : Ci!Cardinality(S) = Cardinality(S)
  BY Zenon DEF Ci!Cardinality, Cardinality

(***************************************************************************)
(* CI aggregation: types. Only a poller about to enqueue has checks.       *)
(***************************************************************************)
PollerSteps(p) == Ci!Poll(p) \/ Ci!Crash(p)

(* A command that is not answered as it should is a fault. *)
LEMMA ReplyFaults ==
  ASSUME Ci!TypeOK, NEW reply \in Ci!Replies, Ci!Reply(reply)
  PROVE  /\ ciFaults' \in 0..MaxFaults /\ ciFaults \in Nat
         /\ reply # "ok" => ciFaults' = ciFaults + 1
         /\ reply = "ok" => ciFaults' = ciFaults
BY DEF Ci!TypeOK, Ci!Reply

(* The steps of addFailure keep the types. *)
LEMMA AddType ==
  ASSUME Ci!TypeOK, NEW c \in Checks, Ci!Add(c)
  PROVE  Ci!TypeOK'
<1>1. check \in [Checks -> Ci!CheckState] /\ check[c] \in Ci!CheckState
  BY DEF Ci!TypeOK
<1>2. ASSUME Ci!Complete(c) PROVE Ci!TypeOK'
  <2>1. [check[c] EXCEPT !.at = "failed"] \in Ci!CheckState
    BY <1>1 DEF Ci!CheckState
  <2>2. check' \in [Checks -> Ci!CheckState]
    BY <1>1, <1>2, <2>1 DEF Ci!Complete
  <2>3. QED
    BY <1>2, <2>2 DEF Ci!TypeOK, Ci!Complete, Ci!aggregation, Ci!history
<1>3. ASSUME NEW reply \in Ci!Replies, Ci!ReadState(c, reply) PROVE Ci!TypeOK'
  <2>1. [check[c] EXCEPT !.at = "done"] \in Ci!CheckState
    BY <1>1 DEF Ci!CheckState
  <2>2. [at |-> "write", seen |-> meta] \in Ci!CheckState
    BY DEF Ci!CheckState, Ci!TypeOK
  <2>3. check' \in [Checks -> Ci!CheckState]
    BY <1>1, <1>3, <2>1, <2>2 DEF Ci!ReadState
  <2>4. ciFaults' \in 0..MaxFaults
    BY <1>3, ReplyFaults DEF Ci!ReadState
  <2>5. QED
    BY <1>3, <2>3, <2>4 DEF Ci!TypeOK, Ci!ReadState, Ci!aggregation, Ci!history
<1>4. ASSUME NEW reply \in Ci!Replies, Ci!Write(c, reply) PROVE Ci!TypeOK'
  <2>1. [check[c] EXCEPT !.at = "done"] \in Ci!CheckState
    BY <1>1 DEF Ci!CheckState
  <2>2. check' \in [Checks -> Ci!CheckState]
    BY <1>1, <1>4, <2>1 DEF Ci!Write
  <2>3. ciFaults' \in 0..MaxFaults
    BY <1>4, ReplyFaults DEF Ci!Write
  <2>4. /\ meta' \in Ci!Metas /\ stored' \subseteq Checks
        /\ (meta' = "none") <=> (stored' = {})
        /\ debounce' \in BOOLEAN /\ passed' \in BOOLEAN
        /\ added' \subseteq Checks /\ excused' \subseteq Checks
    BY <1>4 DEF Ci!Write, Ci!TypeOK, Ci!Metas, Ci!aggregation
  <2>5. QED
    BY <1>4, <2>2, <2>3, <2>4 DEF Ci!TypeOK, Ci!Write
<1>5. QED
  BY <1>2, <1>3, <1>4 DEF Ci!Add

\* A poller that moves keeps its checks; one that gives up has none.
LEMMA PollerMoves ==
  ASSUME Ci!TypeOK, NEW p \in Pollers, NEW s \in Ci!PollerState,
         poller' = [poller EXCEPT ![p] = s]
  PROVE  /\ poller' \in [Pollers -> Ci!PollerState] /\ poller'[p] = s
         /\ \A q \in Pollers \ {p} : poller'[q] = poller[q]
BY DEF Ci!TypeOK

Spots == {"idle", "ready", "runs", "meta", "checks", "enqueue", "delete"}

(* A poller that goes on to its next command keeps its checks. *)
LEMMA GoToMoves ==
  ASSUME Ci!TypeOK, NEW p \in Pollers, NEW at \in Spots, Ci!GoTo(p, at)
  PROVE  /\ poller' \in [Pollers -> Ci!PollerState]
         /\ poller'[p].at = at /\ poller'[p].checks = poller[p].checks
         /\ \A q \in Pollers \ {p} : poller'[q] = poller[q]
         /\ passed' = passed
<1> DEFINE s == [poller[p] EXCEPT !.at = at]
<1>1. poller[p] \in Ci!PollerState
  BY DEF Ci!TypeOK
<1>2. s \in Ci!PollerState /\ s.at = at /\ s.checks = poller[p].checks
  BY <1>1 DEF Ci!PollerState, Spots
<1>3. poller' = [poller EXCEPT ![p] = s]
  BY DEF Ci!GoTo
<1> HIDE DEF s
<1>4. QED
  BY <1>2, <1>3, PollerMoves DEF Ci!GoTo

(* An idle poller has no checks in hand. *)
LEMMA IdleType == Ci!Idle \in Ci!PollerState /\ Ci!Idle.at = "idle" /\ Ci!Idle.checks = {}
BY DEF Ci!Idle, Ci!PollerState

(* A poller that gives up is idle again. *)
LEMMA GiveUpMoves ==
  ASSUME Ci!TypeOK, NEW p \in Pollers, Ci!GiveUp(p)
  PROVE  /\ poller' \in [Pollers -> Ci!PollerState] /\ poller'[p] = Ci!Idle
         /\ \A q \in Pollers \ {p} : poller'[q] = poller[q]
         /\ passed' \in BOOLEAN
BY IdleType, PollerMoves DEF Ci!GiveUp, Ci!TypeOK

\* What the steps of a poller have in common, by what they do to the aggregation.
PollEffects(p) ==
  /\ poller' \in [Pollers -> Ci!PollerState]
  /\ \A q \in Pollers \ {p} : poller'[q] = poller[q]
  /\ passed' \in BOOLEAN /\ ciFaults' \in 0..MaxFaults
  /\ UNCHANGED <<check, added>>
  /\ \/ /\ UNCHANGED <<meta, stored, debounce, enqueued, excused>>
        /\ ciFaults' >= ciFaults /\ (poller[p].at = "delete" => ciFaults' >= ciFaults + 1)
        /\ \/ poller'[p] = Ci!Idle
           \/ /\ poller'[p].at \notin {"enqueue", "delete"} /\ poller[p].at # "enqueue"
              /\ poller'[p].checks = poller[p].checks
           \/ /\ poller'[p] = [at |-> "enqueue", checks |-> stored]
              /\ poller[p].at = "checks"
     \/ /\ poller'[p].at = "delete" /\ poller'[p].checks = poller[p].checks
        /\ poller[p].at \in {"meta", "checks"}
        /\ UNCHANGED <<meta, stored, debounce, enqueued>> /\ ciFaults' >= ciFaults
        /\ (excused' = excused /\ stored = {}) \/ excused' = excused \cup stored
     \/ /\ poller[p].at = "enqueue" /\ poller'[p].checks = {}
        /\ UNCHANGED <<meta, stored, debounce, excused>>
        /\ \/ poller'[p].at = "delete" /\ ciFaults' = ciFaults
           \/ poller'[p].at = "idle" /\ ciFaults' = ciFaults + 1
        /\ \/ enqueued' = [c \in Checks |-> IF c \in poller[p].checks THEN enqueued[c] + 1
                                                                      ELSE enqueued[c]]
           \/ enqueued' = enqueued /\ poller'[p].at = "idle"
     \/ /\ poller[p].at = "delete" /\ poller'[p] = Ci!Idle /\ Ci!Gone
        /\ UNCHANGED <<enqueued, excused>> /\ ciFaults' >= ciFaults

(* Every step of a poller has PollEffects. *)
LEMMA PollMoves ==
  ASSUME Ci!TypeOK, NEW p \in Pollers, Ci!Poll(p) \/ Ci!Crash(p)
  PROVE  PollEffects(p)
<1>1. /\ poller \in [Pollers -> Ci!PollerState] /\ poller[p] \in Ci!PollerState
      /\ ciFaults \in 0..MaxFaults /\ passed \in BOOLEAN /\ stored \subseteq Checks
      /\ (meta = "none") <=> (stored = {})
      /\ enqueued \in [Checks -> Nat]
  BY DEF Ci!TypeOK
<1>2. ASSUME NEW reply \in Ci!Replies, Ci!Reply(reply)
      PROVE  ciFaults' \in 0..MaxFaults /\ ciFaults' >= ciFaults
  BY <1>1, <1>2, ReplyFaults
<1>3. CASE Ci!Scan(p)
  <2>1. "ready" \in Spots /\ Ci!GoTo(p, "ready")
    BY <1>3 DEF Spots, Ci!Scan
  <2>2. /\ poller' \in [Pollers -> Ci!PollerState] /\ poller'[p].at = "ready"
        /\ poller'[p].checks = poller[p].checks
        /\ \A q \in Pollers \ {p} : poller'[q] = poller[q] /\ passed' = passed
    BY <2>1, GoToMoves
  <2>3. QED
    BY <1>1, <1>3, <2>2, GoToMoves, <2>1 DEF Ci!Scan, PollEffects, Ci!history
<1>4. ASSUME NEW reply \in Ci!Replies, Ci!CheckReady(p, reply) \/ Ci!CheckRuns(p, reply)
      PROVE  PollEffects(p)
  <2>1. Ci!Reply(reply) /\ poller[p].at \in {"ready", "runs"}
        /\ UNCHANGED <<meta, stored, debounce, check, Ci!history>>
        /\ (Ci!GoTo(p, "runs") \/ Ci!GoTo(p, "meta") \/ Ci!GiveUp(p))
    BY <1>4 DEF Ci!CheckReady, Ci!CheckRuns
  <2>2. {"runs", "meta"} \subseteq Spots
    BY DEF Spots
  <2>3. CASE Ci!GiveUp(p)
    BY <1>1, <1>2, <2>1, <2>3, GiveUpMoves, IdleType DEF PollEffects, Ci!history
  <2>4. ASSUME NEW at \in {"runs", "meta"}, Ci!GoTo(p, at) PROVE PollEffects(p)
    <3>1. /\ poller' \in [Pollers -> Ci!PollerState]
          /\ poller'[p].at = at /\ poller'[p].checks = poller[p].checks
          /\ \A q \in Pollers \ {p} : poller'[q] = poller[q]
          /\ passed' = passed
      BY <2>2, <2>4, GoToMoves
    <3>2. QED
      BY <1>1, <1>2, <2>1, <3>1 DEF PollEffects, Ci!history
  <2>5. QED
    BY <2>1, <2>3, <2>4
<1>5. ASSUME NEW reply \in Ci!Replies, Ci!Unreadable(p, reply), Ci!Reply(reply),
             reply = "ok" => stored = {}, poller[p].at \in {"meta", "checks"},
             UNCHANGED <<meta, stored, debounce, check, enqueued, added>>
      PROVE  PollEffects(p)
  <2>1. "delete" \in Spots /\ Ci!GoTo(p, "delete")
    BY <1>5 DEF Spots, Ci!Unreadable
  <2>2. /\ poller' \in [Pollers -> Ci!PollerState]
        /\ poller'[p].at = "delete" /\ poller'[p].checks = poller[p].checks
        /\ \A q \in Pollers \ {p} : poller'[q] = poller[q]
        /\ passed' = passed
    BY <2>1, GoToMoves
  <2>3. (excused' = excused /\ stored = {}) \/ excused' = excused \cup stored
    BY <1>5 DEF Ci!Unreadable
  <2>4. QED
    BY <1>1, <1>2, <1>5, <2>2, <2>3 DEF PollEffects
<1>6. ASSUME NEW reply \in Ci!Replies, Ci!ReadMeta(p, reply) PROVE PollEffects(p)
  <2>1. CASE Ci!GoTo(p, "checks") /\ UNCHANGED excused
    <3>1. "checks" \in Spots
      BY DEF Spots
    <3>2. /\ poller' \in [Pollers -> Ci!PollerState]
          /\ poller'[p].at = "checks" /\ poller'[p].checks = poller[p].checks
          /\ \A q \in Pollers \ {p} : poller'[q] = poller[q]
          /\ passed' = passed
      BY <2>1, <3>1, GoToMoves
    <3>3. QED
      BY <1>1, <1>2, <1>6, <2>1, <3>2 DEF PollEffects, Ci!ReadMeta
  <2>2. CASE Ci!Unreadable(p, reply) /\ ~(reply = "ok" /\ meta # "none")
    BY <1>1, <1>5, <1>6, <2>2 DEF Ci!ReadMeta
  <2>3. QED
    BY <1>6, <2>1, <2>2 DEF Ci!ReadMeta
<1>7. ASSUME NEW reply \in Ci!Replies, Ci!ReadChecks(p, reply) PROVE PollEffects(p)
  <2>1. CASE /\ poller' = [poller EXCEPT ![p] = [at |-> "enqueue", checks |-> stored]]
             /\ UNCHANGED <<passed, excused>>
    <3>1. [at |-> "enqueue", checks |-> stored] \in Ci!PollerState
      BY <1>1 DEF Ci!PollerState
    <3>2. /\ poller' \in [Pollers -> Ci!PollerState]
          /\ poller'[p] = [at |-> "enqueue", checks |-> stored]
          /\ \A q \in Pollers \ {p} : poller'[q] = poller[q]
      BY <2>1, <3>1, PollerMoves
    <3>3. QED
      BY <1>1, <1>2, <1>7, <2>1, <3>2 DEF PollEffects, Ci!ReadChecks
  <2>2. CASE Ci!Unreadable(p, reply) /\ ~(reply = "ok" /\ stored # {})
    BY <1>5, <1>7, <2>2 DEF Ci!ReadChecks
  <2>3. QED
    BY <1>7, <2>1, <2>2 DEF Ci!ReadChecks
<1>8. ASSUME NEW reply \in Ci!Replies, Ci!Enqueue(p, reply) PROVE PollEffects(p)
  <2>1. /\ poller[p].at = "enqueue" /\ Ci!Reply(reply)
        /\ UNCHANGED <<meta, stored, debounce, check, added, excused>>
    BY <1>8 DEF Ci!Enqueue
  <2>2. \/ enqueued' = [c \in Checks |-> IF c \in poller[p].checks THEN enqueued[c] + 1
                                                                   ELSE enqueued[c]]
        \/ enqueued' = enqueued /\ reply # "ok"
    BY <1>1, <1>8 DEF Ci!Enqueue, Ci!Applied
  <2>3. CASE reply = "ok"
    <3>1. [at |-> "delete", checks |-> {}] \in Ci!PollerState
      BY DEF Ci!PollerState
    <3>2. /\ poller' = [poller EXCEPT ![p] = [at |-> "delete", checks |-> {}]]
          /\ passed' = passed
      BY <1>8, <2>3 DEF Ci!Enqueue
    <3>3. /\ poller' \in [Pollers -> Ci!PollerState]
          /\ poller'[p] = [at |-> "delete", checks |-> {}]
          /\ \A q \in Pollers \ {p} : poller'[q] = poller[q]
      BY <3>1, <3>2, PollerMoves
    <3>4. ciFaults' = ciFaults
      BY <2>1, <2>3, ReplyFaults
    <3>5. QED
      BY <1>1, <2>1, <2>2, <2>3, <3>2, <3>3, <3>4 DEF PollEffects
  <2>4. CASE reply # "ok"
    <3>1. Ci!GiveUp(p) /\ ciFaults' = ciFaults + 1 /\ ciFaults' \in 0..MaxFaults
      BY <1>8, <2>1, <2>4, ReplyFaults DEF Ci!Enqueue
    <3>2. /\ poller' \in [Pollers -> Ci!PollerState] /\ poller'[p] = Ci!Idle
          /\ \A q \in Pollers \ {p} : poller'[q] = poller[q]
          /\ passed' \in BOOLEAN
      BY <3>1, GiveUpMoves
    <3>3. QED
      BY <1>1, <2>1, <2>2, <3>1, <3>2, IdleType DEF PollEffects
  <2>5. QED
    BY <2>3, <2>4
<1>9. ASSUME NEW reply \in Ci!Replies, Ci!Delete(p, reply) PROVE PollEffects(p)
  <2>1. /\ poller[p].at = "delete" /\ Ci!Reply(reply)
        /\ UNCHANGED <<check, enqueued, added, excused>>
        /\ poller' = [poller EXCEPT ![p] = Ci!Idle]
    BY <1>9 DEF Ci!Delete, Ci!history
  <2>2. /\ poller' \in [Pollers -> Ci!PollerState] /\ poller'[p] = Ci!Idle
        /\ \A q \in Pollers \ {p} : poller'[q] = poller[q]
    BY <2>1, IdleType, PollerMoves
  <2>3. CASE Ci!Gone
    BY <1>1, <1>2, <2>1, <2>2, <2>3 DEF PollEffects, Ci!Gone
  <2>4. CASE UNCHANGED Ci!aggregation /\ reply # "ok"
    <3>1. ciFaults' = ciFaults + 1 /\ ciFaults' \in 0..MaxFaults
      BY <2>1, <2>4, ReplyFaults
    <3>2. QED
      BY <1>1, <2>1, <2>2, <2>4, <3>1, IdleType DEF PollEffects, Ci!aggregation
  <2>5. QED
    BY <1>9, <2>3, <2>4 DEF Ci!Delete, Ci!Applied
<1>10. CASE Ci!Crash(p)
  <2>1. /\ poller' = [poller EXCEPT ![p] = Ci!Idle]
        /\ ciFaults' = ciFaults + 1 /\ ciFaults' \in 0..MaxFaults
        /\ UNCHANGED <<Ci!aggregation, check, Ci!history>>
    BY <1>1, <1>10 DEF Ci!Crash
  <2>2. /\ poller' \in [Pollers -> Ci!PollerState] /\ poller'[p] = Ci!Idle
        /\ \A q \in Pollers \ {p} : poller'[q] = poller[q]
    BY <2>1, IdleType, PollerMoves
  <2>3. QED
    BY <1>1, <2>1, <2>2, IdleType DEF PollEffects, Ci!aggregation, Ci!history
<1>11. QED
  BY <1>3, <1>4, <1>6, <1>7, <1>8, <1>9, <1>10 DEF Ci!Poll

(* The types hold of an empty Redis. *)
LEMMA CiInitType == Ci!Init => Ci!TypeOK
<1> SUFFICES ASSUME Ci!Init PROVE Ci!TypeOK
  OBVIOUS
<1>1. [at |-> "running", seen |-> "none"] \in Ci!CheckState
  BY DEF Ci!CheckState, Ci!Metas
<1>2. /\ check \in [Checks -> Ci!CheckState] /\ poller \in [Pollers -> Ci!PollerState]
      /\ enqueued \in [Checks -> Nat]
  BY <1>1, IdleType DEF Ci!Init
<1>3. ciFaults \in 0..MaxFaults
  <2>1. 0 \in 0..MaxFaults
    OBVIOUS
  <2> QED BY <2>1 DEF Ci!Init
<1>4. debounce \in BOOLEAN /\ passed \in BOOLEAN
  BY Zenon DEF Ci!Init
<1>5. meta \in Ci!Metas /\ stored \subseteq Checks /\ added \subseteq Checks /\ excused \subseteq Checks
      /\ ((meta = "none") <=> (stored = {}))
  BY DEF Ci!Init, Ci!Metas
<1>6. QED
  BY <1>2, <1>3, <1>4, <1>5 DEF Ci!TypeOK

(* The steps of a poller keep the types. *)
LEMMA PollType ==
  ASSUME Ci!TypeOK, NEW p \in Pollers, PollEffects(p)
  PROVE  Ci!TypeOK'
<1>1. UNCHANGED <<meta, stored, debounce>> \/ Ci!Gone
  BY DEF PollEffects
<1>2. /\ meta' \in Ci!Metas /\ stored' \subseteq Checks /\ debounce' \in BOOLEAN
      /\ (meta' = "none") <=> (stored' = {})
  BY <1>1 DEF Ci!Gone, Ci!TypeOK, Ci!Metas
<1>3. excused' \subseteq Checks
  BY DEF PollEffects, Ci!TypeOK
<1>4. enqueued' \in [Checks -> Nat]
  BY DEF PollEffects, Ci!TypeOK
<1>5. poller' \in [Pollers -> Ci!PollerState] /\ passed' \in BOOLEAN /\ ciFaults' \in 0..MaxFaults
      /\ check' = check /\ added' = added
  BY DEF PollEffects
<1>6. QED
  BY <1>2, <1>3, <1>4, <1>5 DEF Ci!TypeOK

(* So does the time that passes. *)
LEMMA TimeType ==
  ASSUME Ci!TypeOK, Ci!DebounceExpires \/ Ci!GrowOld \/ Ci!Expire
  PROVE  Ci!TypeOK'
<1>1. CASE Ci!DebounceExpires
  BY <1>1 DEF Ci!DebounceExpires, Ci!TypeOK, Ci!history
<1>2. CASE Ci!GrowOld
  BY <1>2 DEF Ci!GrowOld, Ci!TypeOK, Ci!history, Ci!Metas
<1>3. CASE Ci!Expire
  <2>1. meta' \in Ci!Metas /\ stored' = {} /\ meta' = "none" /\ debounce' \in BOOLEAN
        /\ passed' \in BOOLEAN /\ excused' \subseteq Checks
    BY <1>3 DEF Ci!Expire, Ci!Gone, Ci!TypeOK, Ci!Metas
  <2>2. QED
    BY <1>3, <2>1 DEF Ci!Expire, Ci!TypeOK
<1>4. QED
  BY <1>1, <1>2, <1>3

(* Every step keeps the types. *)
LEMMA CiNextType == Ci!TypeOK /\ [Ci!Next]_(Ci!vars) => Ci!TypeOK'
<1>1. Ci!TypeOK /\ UNCHANGED Ci!vars => Ci!TypeOK'
  BY DEF Ci!TypeOK, Ci!vars, Ci!aggregation, Ci!history
<1>2. QED
  BY <1>1, AddType, PollMoves, PollType, TimeType DEF Ci!Next

(***************************************************************************)
(* CI aggregation: where an added check is. What a poller is about to      *)
(* delete it has read and enqueued, or is excused from.                    *)
(***************************************************************************)
Covers(c) == enqueued[c] > 0 \/ c \in excused

KeptInv ==
  /\ \A p \in Pollers : poller[p].at # "enqueue" => poller[p].checks = {}
  /\ \A p \in Pollers : poller[p].at = "enqueue" =>
       \A c \in stored : c \in poller[p].checks \/ Covers(c)
  /\ \A p \in Pollers : poller[p].at = "delete" => \A c \in stored : Covers(c)
  /\ \A c \in added : c \in stored \/ Covers(c)

(* A check that is covered stays so when a poller moves. *)
LEMMA CoversGrows ==
  ASSUME Ci!TypeOK, NEW p \in Pollers, PollEffects(p), NEW c \in Checks
  PROVE  /\ enqueued'[c] \in Nat /\ enqueued'[c] \in {enqueued[c], enqueued[c] + 1}
         /\ Covers(c) => Covers(c)'
<1>1. enqueued \in [Checks -> Nat]
  BY DEF Ci!TypeOK
<1>2. enqueued'[c] \in Nat /\ enqueued'[c] \in {enqueued[c], enqueued[c] + 1}
  BY <1>1 DEF PollEffects
<1>3. enqueued[c] > 0 => enqueued'[c] > 0
  BY <1>1, <1>2
<1>4. excused \subseteq excused'
  BY DEF PollEffects
<1>5. QED
  BY <1>2, <1>3, <1>4 DEF Covers

(* A poller that deletes has covered what it read. *)
LEMMA PollKeeps ==
  ASSUME Ci!TypeOK, KeptInv, NEW p \in Pollers, PollEffects(p)
  PROVE  KeptInv'
<1>1. /\ \A q \in Pollers \ {p} : poller'[q] = poller[q]
      /\ added' = added /\ added \subseteq Checks /\ stored \subseteq Checks
      /\ poller[p] \in Ci!PollerState
  BY DEF PollEffects, Ci!TypeOK
<1>2. \A c \in Checks : Covers(c) => Covers(c)'
  BY CoversGrows
<1>3. stored' \subseteq stored
  BY DEF PollEffects, Ci!Gone
<1>4. \A q \in Pollers \ {p} :
        /\ poller'[q].at # "enqueue" => poller'[q].checks = {}
        /\ poller'[q].at = "enqueue" => \A c \in stored' : c \in poller'[q].checks \/ Covers(c)'
        /\ poller'[q].at = "delete" => \A c \in stored' : Covers(c)'
  BY <1>1, <1>2, <1>3 DEF KeptInv
<1>5. poller'[p].at # "enqueue" => poller'[p].checks = {}
  BY IdleType DEF PollEffects, KeptInv
<1>6. poller'[p].at = "enqueue" => \A c \in stored' : c \in poller'[p].checks
  BY <1>3, IdleType DEF PollEffects
<1>7. ASSUME poller'[p].at = "delete", NEW c \in stored' PROVE Covers(c)'
  <2>1. \/ excused' = excused \cup stored \/ stored = {}
        \/ /\ poller[p].at = "enqueue"
           /\ enqueued' = [d \in Checks |-> IF d \in poller[p].checks THEN enqueued[d] + 1
                                                                      ELSE enqueued[d]]
    BY <1>7, IdleType DEF PollEffects
  <2>2. CASE excused' = excused \cup stored
    BY <1>3, <1>7, <2>2 DEF Covers
  <2>3. CASE /\ poller[p].at = "enqueue"
             /\ enqueued' = [d \in Checks |-> IF d \in poller[p].checks THEN enqueued[d] + 1
                                                                        ELSE enqueued[d]]
    <3>1. c \in Checks /\ c \in stored
      BY <1>1, <1>3, <1>7
    <3>2. CASE c \in poller[p].checks
      <4>1. enqueued'[c] = enqueued[c] + 1 /\ enqueued[c] \in Nat
        BY <2>3, <3>1, <3>2 DEF Ci!TypeOK
      <4>2. enqueued'[c] > 0
        BY <4>1
      <4>3. QED
        BY <4>2 DEF Covers
    <3>3. CASE c \notin poller[p].checks
      BY <1>2, <2>3, <3>1, <3>3 DEF KeptInv
    <3>4. QED
      BY <3>2, <3>3
  <2>4. CASE stored = {}
    BY <1>3, <1>7, <2>4
  <2>5. QED
    BY <2>1, <2>2, <2>3, <2>4
<1>8. ASSUME NEW c \in added' PROVE c \in stored' \/ Covers(c)'
  <2>1. c \in Checks /\ (c \in stored \/ Covers(c))
    BY <1>1, <1>8 DEF KeptInv
  <2>2. stored' = stored \/ (poller[p].at = "delete" /\ stored' = {})
    BY DEF PollEffects, Ci!Gone
  <2>3. CASE poller[p].at = "delete"
    BY <1>2, <2>1, <2>3 DEF KeptInv
  <2>4. QED
    BY <1>2, <2>1, <2>2, <2>3
<1>9. QED
  BY <1>4, <1>5, <1>6, <1>7, <1>8 DEF KeptInv

(* Every step keeps the invariant of the losses. *)
LEMMA NextKeeps == Ci!TypeOK /\ KeptInv /\ [Ci!Next]_(Ci!vars) => KeptInv'
<1> SUFFICES ASSUME Ci!TypeOK, KeptInv, [Ci!Next]_(Ci!vars) PROVE KeptInv'
  OBVIOUS
<1>1. ASSUME UNCHANGED <<stored, poller, enqueued, excused, added>> PROVE KeptInv'
  BY <1>1 DEF KeptInv, Covers
<1>2. ASSUME NEW c \in Checks, Ci!Add(c) PROVE KeptInv'
  <2>1. CASE Ci!Complete(c) \/ \E reply \in Ci!Replies : Ci!ReadState(c, reply)
    BY <1>1, <2>1 DEF Ci!Complete, Ci!ReadState, Ci!aggregation, Ci!history
  <2>2. ASSUME NEW reply \in Ci!Replies, Ci!Write(c, reply) PROVE KeptInv'
    <3>1. CASE ~Ci!Applied(reply)
      BY <1>1, <2>2, <3>1 DEF Ci!Write, Ci!aggregation
    <3>2. CASE Ci!Applied(reply)
      <4>1. /\ stored' = stored \cup {c} /\ added' = added \cup {c}
            /\ excused' = (IF Ci!Deleting = {} THEN excused ELSE excused \cup {c})
            /\ UNCHANGED <<poller, enqueued>>
        BY <2>2, <3>2 DEF Ci!Write
      <4>2. \A d : Covers(d) => Covers(d)'
        BY <4>1 DEF Covers
      <4>3. \A p \in Pollers : poller[p].at \in {"enqueue", "delete"} => Covers(c)'
        BY <4>1 DEF Ci!Deleting, Covers
      <4>4. QED
        BY <4>1, <4>2, <4>3 DEF KeptInv
    <3>3. QED
      BY <3>1, <3>2
  <2>3. QED
    BY <1>2, <2>1, <2>2 DEF Ci!Add
<1>3. ASSUME NEW p \in Pollers, Ci!Poll(p) \/ Ci!Crash(p) PROVE KeptInv'
  BY <1>3, PollMoves, PollKeeps
<1>4. CASE Ci!Expire
  <2>1. /\ stored' = {} /\ excused' = excused \cup stored
        /\ UNCHANGED <<poller, enqueued, added>>
    BY <1>4 DEF Ci!Expire, Ci!Gone
  <2>2. \A d : Covers(d) => Covers(d)'
    BY <2>1 DEF Covers
  <2>3. \A d \in stored : Covers(d)'
    BY <2>1 DEF Covers
  <2>4. QED
    BY <2>1, <2>2, <2>3 DEF KeptInv
<1>5. CASE Ci!DebounceExpires \/ Ci!GrowOld \/ UNCHANGED Ci!vars
  BY <1>1, <1>5 DEF Ci!DebounceExpires, Ci!GrowOld, Ci!vars, Ci!aggregation, Ci!history
<1>6. QED
  BY <1>2, <1>3, <1>4, <1>5 DEF Ci!Next

(* It holds at the start. *)
LEMMA InitKeeps == Ci!Init => KeptInv
BY IdleType DEF Ci!Init, KeptInv

(* A completed check is stored, was enqueued, or is excused: Redis loses no other. *)
THEOREM CiLosesOnlyKnown == Ci!Spec => []Ci!OnlyKnownLosses
<1>1. KeptInv => Ci!OnlyKnownLosses
  BY DEF KeptInv, Ci!OnlyKnownLosses, Ci!Safe, Covers
<1>2. QED
  BY <1>1, CiInitType, CiNextType, InitKeeps, NextKeeps, PTL DEF Ci!Spec

(***************************************************************************)
(* CI aggregation: how often a check is enqueued. A stored check was       *)
(* enqueued by pollers that have yet to delete it, or by faults; once it   *)
(* is deleted only the pollers that read it before can enqueue it.         *)
(***************************************************************************)
AtDelete == {p \in Pollers : poller[p].at = "delete"}
Holders(c) == {p \in Pollers : c \in poller[p].checks}

FreshInv ==
  \A c \in Checks : check[c].at # "done" =>
    enqueued[c] = 0 /\ c \notin stored /\ Holders(c) = {}

CopiesInv ==
  \A c \in Checks :
    /\ c \in stored => enqueued[c] <= Ci!Cardinality(AtDelete) + ciFaults
    /\ c \notin stored => enqueued[c] + Ci!Cardinality(Holders(c))
           <= Ci!Cardinality(Pollers) + ciFaults

(* How many pollers a set of them has. *)
LEMMA PollerSets ==
  /\ Ci!Cardinality(Pollers) \in Nat
  /\ \A S \in SUBSET Pollers :
       /\ IsFiniteSet(S) /\ Ci!Cardinality(S) \in Nat
       /\ Ci!Cardinality(S) <= Ci!Cardinality(Pollers)
       /\ \A T \in SUBSET S : Ci!Cardinality(T) <= Ci!Cardinality(S)
       /\ \A p \in Pollers : \A T \in SUBSET Pollers :
            /\ S \subseteq T \cup {p} => Ci!Cardinality(S) <= Ci!Cardinality(T) + 1
            /\ p \in T /\ S \subseteq T \ {p} => Ci!Cardinality(S) + 1 <= Ci!Cardinality(T)
       /\ \A T \in SUBSET Pollers :
            S \cap T = {} => Ci!Cardinality(S) + Ci!Cardinality(T) <= Ci!Cardinality(Pollers)
<1>1. Ci!Cardinality(Pollers) \in Nat
  BY FS_CardinalityType, CiSets
<1>2. \A S \in SUBSET Pollers :
        /\ IsFiniteSet(S) /\ Ci!Cardinality(S) \in Nat
        /\ Ci!Cardinality(S) <= Ci!Cardinality(Pollers)
  BY <1>1, FS_Subset, FS_CardinalityType, CiSets
<1>3. \A S \in SUBSET Pollers : \A T \in SUBSET S : Ci!Cardinality(T) <= Ci!Cardinality(S)
  BY <1>2, FS_Subset, CiSets
<1>4. ASSUME NEW S \in SUBSET Pollers, NEW T \in SUBSET Pollers, NEW p \in Pollers,
             S \subseteq T \cup {p}
      PROVE  Ci!Cardinality(S) <= Ci!Cardinality(T) + 1
  <2>1. T \cup {p} \in SUBSET Pollers
    OBVIOUS
  <2>2. \/ Ci!Cardinality(T \cup {p}) = Ci!Cardinality(T)
        \/ Ci!Cardinality(T \cup {p}) = Ci!Cardinality(T) + 1
    BY <1>2, FS_AddElement, CiSets
  <2>3. Ci!Cardinality(S) <= Ci!Cardinality(T \cup {p})
    BY <1>3, <1>4, <2>1
  <2>4. Ci!Cardinality(S) \in Nat /\ Ci!Cardinality(T) \in Nat
    BY <1>2
  <2>5. QED
    BY <2>2, <2>3, <2>4
<1>5. ASSUME NEW S \in SUBSET Pollers, NEW T \in SUBSET Pollers, NEW p \in T,
             S \subseteq T \ {p}
      PROVE  Ci!Cardinality(S) + 1 <= Ci!Cardinality(T)
  <2>1. T \ {p} \in SUBSET Pollers
    OBVIOUS
  <2>2. Ci!Cardinality(T \ {p}) = Ci!Cardinality(T) - 1
    BY <1>2, FS_RemoveElement, CiSets
  <2>3. Ci!Cardinality(S) <= Ci!Cardinality(T \ {p})
    BY <1>3, <1>5, <2>1
  <2>4. Ci!Cardinality(S) \in Nat /\ Ci!Cardinality(T) \in Nat
    BY <1>2
  <2>5. QED
    BY <2>2, <2>3, <2>4
<1>6. ASSUME NEW S \in SUBSET Pollers, NEW T \in SUBSET Pollers, S \cap T = {}
      PROVE  Ci!Cardinality(S) + Ci!Cardinality(T) <= Ci!Cardinality(Pollers)
  <2>1. Ci!Cardinality(S \cup T) = Ci!Cardinality(S) + Ci!Cardinality(T) - Ci!Cardinality(S \cap T)
    BY <1>2, FS_Union, CiSets
  <2>2. Ci!Cardinality(S \cap T) = 0
    BY <1>6, FS_EmptySet, CiSets
  <2>3. S \cup T \in SUBSET Pollers
    OBVIOUS
  <2>4. Ci!Cardinality(S \cup T) <= Ci!Cardinality(Pollers)
    BY <1>2, <2>3
  <2>5. Ci!Cardinality(S) \in Nat /\ Ci!Cardinality(T) \in Nat
    BY <1>2
  <2>6. QED
    BY <2>1, <2>2, <2>4, <2>5
<1>7. QED
  BY <1>1, <1>2, <1>3, <1>4, <1>5, <1>6

(* Nothing is known of a check before it completes, and no step changes that. *)
LEMMA NextFresh == Ci!TypeOK /\ FreshInv /\ [Ci!Next]_(Ci!vars) => FreshInv'
<1> SUFFICES ASSUME Ci!TypeOK, FreshInv, [Ci!Next]_(Ci!vars), NEW c \in Checks,
                    check'[c].at # "done"
             PROVE  enqueued'[c] = 0 /\ c \notin stored' /\ Holders(c)' = {}
  BY DEF FreshInv
<1>1. check \in [Checks -> Ci!CheckState] /\ enqueued \in [Checks -> Nat]
  BY DEF Ci!TypeOK
<1>2. ASSUME check[c].at # "done", UNCHANGED <<stored, poller, enqueued>>
      PROVE  enqueued'[c] = 0 /\ c \notin stored' /\ Holders(c)' = {}
  BY <1>2 DEF FreshInv, Holders
<1>3. ASSUME NEW d \in Checks, Ci!Complete(d)
      PROVE  enqueued'[c] = 0 /\ c \notin stored' /\ Holders(c)' = {}
  <2>1. check[c].at # "done"
    BY <1>1, <1>3 DEF Ci!Complete
  <2>2. QED
    BY <1>2, <1>3, <2>1 DEF Ci!Complete, Ci!aggregation, Ci!history
<1>4. ASSUME NEW d \in Checks, NEW reply \in Ci!Replies, Ci!ReadState(d, reply)
      PROVE  enqueued'[c] = 0 /\ c \notin stored' /\ Holders(c)' = {}
  <2>1. check[c].at # "done"
    BY <1>1, <1>4 DEF Ci!ReadState
  <2>2. QED
    BY <1>2, <1>4, <2>1 DEF Ci!ReadState, Ci!aggregation, Ci!history
<1>5. ASSUME NEW d \in Checks, NEW reply \in Ci!Replies, Ci!Write(d, reply)
      PROVE  enqueued'[c] = 0 /\ c \notin stored' /\ Holders(c)' = {}
  <2>1. check' = [check EXCEPT ![d].at = "done"] /\ UNCHANGED <<poller, enqueued>>
    BY <1>5 DEF Ci!Write
  <2>2. c # d /\ check'[c] = check[c]
    <3>1. Ci!CheckState = [at : {"running", "failed", "write", "done"}, seen : Ci!Metas]
      BY DEF Ci!CheckState
    <3>2. [check[d] EXCEPT !.at = "done"].at = "done"
      BY <1>1, <3>1
    <3>3. check'[d].at = "done"
      BY <1>1, <2>1, <3>2
    <3>4. QED
      BY <1>1, <2>1, <3>3
  <2>3. stored' = stored \/ stored' = stored \cup {d}
    BY <1>5 DEF Ci!Write, Ci!aggregation
  <2>4. QED
    BY <2>1, <2>2, <2>3 DEF FreshInv, Holders
<1>6. ASSUME NEW p \in Pollers, Ci!Poll(p) \/ Ci!Crash(p)
      PROVE  enqueued'[c] = 0 /\ c \notin stored' /\ Holders(c)' = {}
  <2>1. PollEffects(p)
    BY <1>6, PollMoves
  <2>2. check[c].at # "done"
    BY <2>1 DEF PollEffects
  <2>3. /\ enqueued[c] = 0 /\ c \notin stored
        /\ \A q \in Pollers : c \notin poller[q].checks
    BY <2>2 DEF FreshInv, Holders
  <2>4. enqueued'[c] = enqueued[c] /\ c \notin stored'
    BY <1>1, <2>1, <2>3 DEF PollEffects, Ci!Gone
  <2>5. c \notin poller'[p].checks
    BY <2>1, <2>3, IdleType DEF PollEffects
  <2>6. \A q \in Pollers \ {p} : poller'[q] = poller[q]
    BY <2>1 DEF PollEffects
  <2>7. QED
    BY <2>3, <2>4, <2>5, <2>6 DEF Holders
<1>7. CASE Ci!Expire
  <2>1. stored' = {} /\ UNCHANGED <<check, poller, enqueued>>
    BY <1>7 DEF Ci!Expire, Ci!Gone
  <2>2. QED
    BY <2>1 DEF FreshInv, Holders
<1>8. CASE Ci!DebounceExpires \/ Ci!GrowOld \/ UNCHANGED Ci!vars
  <2>1. UNCHANGED <<check, stored, poller, enqueued>>
    BY <1>8 DEF Ci!DebounceExpires, Ci!GrowOld, Ci!vars, Ci!aggregation, Ci!history
  <2>2. QED
    BY <1>2, <2>1
<1>9. QED
  BY <1>3, <1>4, <1>5, <1>6, <1>7, <1>8 DEF Ci!Next, Ci!Add

\* The arithmetic of a poller's step: what it enqueues it deletes, or pays a fault for.
LEMMA Paid ==
  ASSUME NEW e \in Nat, NEW e1 \in Nat, NEW d \in Nat, NEW d1 \in Nat, NEW h \in Nat,
         NEW h1 \in Nat, NEW f \in Nat, NEW f1 \in Nat, NEW n \in Nat, f <= f1
  PROVE  /\ e <= d + f /\ e1 = e /\ d <= d1 + 1 /\ f + 1 <= f1 => e1 <= d1 + f1
         /\ e <= d + f /\ e1 = e /\ d <= d1 => e1 <= d1 + f1
         /\ e <= d + f /\ e1 <= e + 1 /\ (d + 1 <= d1 \/ (d <= d1 /\ f + 1 <= f1)) => e1 <= d1 + f1
         /\ e + h <= n + f /\ e1 = e /\ h1 <= h => e1 + h1 <= n + f1
         /\ e + h <= n + f /\ e1 <= e + 1 /\ h1 + 1 <= h => e1 + h1 <= n + f1
         /\ e <= d + f /\ d + h <= n /\ e1 = e /\ h1 <= h => e1 + h1 <= n + f1
OBVIOUS

(* A step of a poller keeps the bound on the copies of a check. *)
LEMMA PollCopies ==
  ASSUME Ci!TypeOK, KeptInv, CopiesInv, NEW p \in Pollers, PollEffects(p)
  PROVE  CopiesInv'
<1> SUFFICES ASSUME NEW c \in Checks
             PROVE  /\ c \in stored' => enqueued'[c] <= Ci!Cardinality(AtDelete') + ciFaults'
                    /\ c \notin stored' => enqueued'[c] + Ci!Cardinality(Holders(c)')
                                             <= Ci!Cardinality(Pollers) + ciFaults'
  BY DEF CopiesInv
<1>1. PICK e, e1, f, f1, D, D1, H, H1 :
        /\ e = enqueued[c] /\ e1 = enqueued'[c] /\ f = ciFaults /\ f1 = ciFaults'
        /\ D = AtDelete /\ D1 = AtDelete' /\ H = Holders(c) /\ H1 = Holders(c)'
  OBVIOUS
<1>2. /\ D \in SUBSET Pollers /\ D1 \in SUBSET Pollers /\ H \in SUBSET Pollers
      /\ H1 \in SUBSET Pollers
  BY <1>1 DEF AtDelete, Holders
<1>3. /\ e \in Nat /\ e1 \in Nat /\ f \in Nat /\ f1 \in Nat /\ f <= f1
      /\ Ci!Cardinality(Pollers) \in Nat
      /\ Ci!Cardinality(D) \in Nat /\ Ci!Cardinality(D1) \in Nat
      /\ Ci!Cardinality(H) \in Nat /\ Ci!Cardinality(H1) \in Nat
  <2>1. e \in Nat /\ e1 \in Nat
    BY <1>1, CoversGrows DEF Ci!TypeOK
  <2>2. f \in Nat /\ f1 \in Nat
    BY <1>1 DEF Ci!TypeOK, PollEffects
  <2>3. f <= f1
    BY <1>1, <2>2 DEF PollEffects
  <2>4. QED
    BY <1>2, <2>1, <2>2, <2>3, PollerSets
<1>4. /\ c \in stored => e <= Ci!Cardinality(D) + f
      /\ c \notin stored => e + Ci!Cardinality(H) <= Ci!Cardinality(Pollers) + f
  BY <1>1 DEF CopiesInv
<1>5. \A q \in Pollers \ {p} : poller'[q] = poller[q]
  BY DEF PollEffects
<1>6. D \subseteq D1 \cup {p} /\ (poller[p].at # "delete" => D \subseteq D1)
  BY <1>1, <1>5 DEF AtDelete
<1>7. poller'[p].checks \subseteq poller[p].checks => H1 \subseteq H
  BY <1>1, <1>5 DEF Holders
<1>8. D \cap H = {}
  BY <1>1 DEF KeptInv, AtDelete, Holders
<1>9. CASE /\ UNCHANGED <<stored, enqueued>>
           /\ poller[p].at = "delete" => f + 1 <= f1
           /\ poller'[p].checks \subseteq poller[p].checks \/ poller'[p].checks = stored
  <2>1. e1 = e
    BY <1>1, <1>9
  <2>2. CASE c \in stored
    <3>1. Ci!Cardinality(D) <= Ci!Cardinality(D1) + 1
          /\ (poller[p].at # "delete" => Ci!Cardinality(D) <= Ci!Cardinality(D1))
      BY <1>2, <1>6, PollerSets
    <3>2. e1 <= Ci!Cardinality(D1) + f1
      BY <1>3, <1>4, <1>9, <2>1, <2>2, <3>1, Paid
    <3>3. QED
      BY <1>1, <1>9, <2>2, <3>2
  <2>3. CASE c \notin stored
    <3>1. H1 \subseteq H
      BY <1>1, <1>5, <1>7, <1>9, <2>3 DEF Holders
    <3>2. Ci!Cardinality(H1) <= Ci!Cardinality(H)
      BY <1>2, <3>1, PollerSets
    <3>3. e1 + Ci!Cardinality(H1) <= Ci!Cardinality(Pollers) + f1
      BY <1>3, <1>4, <2>1, <2>3, <3>2, Paid
    <3>4. QED
      BY <1>1, <1>9, <2>3, <3>3
  <2>4. QED
    BY <2>2, <2>3
<1>10. CASE /\ poller[p].at = "enqueue" /\ poller'[p].checks = {} /\ UNCHANGED stored
            /\ \/ poller'[p].at = "delete" /\ ciFaults' = ciFaults
               \/ poller'[p].at = "idle" /\ ciFaults' = ciFaults + 1
            /\ \/ enqueued' = [d \in Checks |-> IF d \in poller[p].checks THEN enqueued[d] + 1
                                                                          ELSE enqueued[d]]
               \/ enqueued' = enqueued
  <2>1. e1 <= e + 1 /\ (c \notin poller[p].checks => e1 = e)
    BY <1>1, <1>3, <1>10
  <2>2. Ci!Cardinality(D) <= Ci!Cardinality(D1) /\ H1 \subseteq H
    BY <1>2, <1>6, <1>7, <1>10, PollerSets
  <2>3. CASE c \in stored
    <3>1. Ci!Cardinality(D) + 1 <= Ci!Cardinality(D1) \/ f + 1 <= f1
      <4>1. CASE poller'[p].at = "delete"
        <5>1. p \in D1 /\ D \subseteq D1 \ {p}
          BY <1>1, <1>6, <1>10, <4>1 DEF AtDelete
        <5>2. QED
          BY <1>2, <5>1, PollerSets
      <4>2. CASE ciFaults' = ciFaults + 1
        BY <1>1, <1>3, <4>2
      <4>3. QED
        BY <1>10, <4>1, <4>2
    <3>2. e1 <= Ci!Cardinality(D1) + f1
      BY <1>3, <1>4, <2>1, <2>2, <2>3, <3>1, Paid
    <3>3. QED
      BY <1>1, <1>10, <2>3, <3>2
  <2>4. CASE c \notin stored
    <3>1. CASE c \in poller[p].checks
      <4>1. p \in H /\ H1 \subseteq H \ {p}
        BY <1>1, <1>5, <1>10, <3>1 DEF Holders
      <4>2. Ci!Cardinality(H1) + 1 <= Ci!Cardinality(H)
        BY <1>2, <4>1, PollerSets
      <4>3. e1 + Ci!Cardinality(H1) <= Ci!Cardinality(Pollers) + f1
        BY <1>3, <1>4, <2>1, <2>4, <4>2, Paid
      <4>4. QED
        BY <1>1, <1>10, <2>4, <4>3
    <3>2. CASE c \notin poller[p].checks
      <4>1. Ci!Cardinality(H1) <= Ci!Cardinality(H)
        BY <1>2, <2>2, PollerSets
      <4>2. e1 + Ci!Cardinality(H1) <= Ci!Cardinality(Pollers) + f1
        BY <1>3, <1>4, <2>1, <2>4, <3>2, <4>1, Paid
      <4>3. QED
        BY <1>1, <1>10, <2>4, <4>2
    <3>3. QED
      BY <3>1, <3>2
  <2>5. QED
    BY <2>3, <2>4
<1>11. CASE /\ poller[p].at = "delete" /\ poller'[p] = Ci!Idle /\ Ci!Gone /\ UNCHANGED enqueued
  <2>1. e1 = e /\ c \notin stored'
    BY <1>1, <1>11 DEF Ci!Gone
  <2>2. H1 \subseteq H
    BY <1>7, <1>11, IdleType
  <2>3. /\ Ci!Cardinality(H1) <= Ci!Cardinality(H)
        /\ Ci!Cardinality(D) + Ci!Cardinality(H) <= Ci!Cardinality(Pollers)
    BY <1>2, <1>8, <2>2, PollerSets
  <2>4. e1 + Ci!Cardinality(H1) <= Ci!Cardinality(Pollers) + f1
    BY <1>3, <1>4, <2>1, <2>3, Paid
  <2>5. QED
    BY <1>1, <2>1, <2>4
<1>12. QED
  <2>1. CASE /\ UNCHANGED <<stored, enqueued>>
             /\ poller[p].at = "delete" => ciFaults + 1 <= ciFaults'
             /\ poller'[p].checks \subseteq poller[p].checks \/ poller'[p].checks = stored
    <3>1. poller[p].at = "delete" => f + 1 <= f1
      BY <1>1, <2>1
    <3>2. QED
      BY <1>9, <2>1, <3>1
  <2>2. \/ /\ UNCHANGED <<stored, enqueued>>
           /\ poller[p].at = "delete" => ciFaults + 1 <= ciFaults'
           /\ poller'[p].checks \subseteq poller[p].checks \/ poller'[p].checks = stored
        \/ /\ poller[p].at = "enqueue" /\ poller'[p].checks = {} /\ UNCHANGED stored
           /\ \/ poller'[p].at = "delete" /\ ciFaults' = ciFaults
              \/ poller'[p].at = "idle" /\ ciFaults' = ciFaults + 1
           /\ \/ enqueued' = [d \in Checks |-> IF d \in poller[p].checks THEN enqueued[d] + 1
                                                                         ELSE enqueued[d]]
              \/ enqueued' = enqueued
        \/ poller[p].at = "delete" /\ poller'[p] = Ci!Idle /\ Ci!Gone /\ UNCHANGED enqueued
    BY <1>1, <1>3, IdleType DEF PollEffects
  <2>3. QED
    BY <1>10, <1>11, <2>1, <2>2

(* So does every other step. *)
LEMMA NextCopies == Ci!TypeOK /\ KeptInv /\ FreshInv /\ CopiesInv /\ [Ci!Next]_(Ci!vars)
    => CopiesInv'
<1> SUFFICES ASSUME Ci!TypeOK, KeptInv, FreshInv, CopiesInv, [Ci!Next]_(Ci!vars) PROVE CopiesInv'
  OBVIOUS
<1>1. enqueued \in [Checks -> Nat] /\ ciFaults \in Nat
      /\ \A S \in SUBSET Pollers : Ci!Cardinality(S) \in Nat
  BY PollerSets DEF Ci!TypeOK
<1>2. /\ Ci!Cardinality(AtDelete) \in Nat /\ Ci!Cardinality(Pollers) \in Nat
      /\ \A c \in Checks : Ci!Cardinality(Holders(c)) \in Nat
  BY <1>1 DEF AtDelete, Holders
<1>3. ASSUME UNCHANGED <<stored, poller, enqueued>>,
             ciFaults' = ciFaults \/ ciFaults' = ciFaults + 1
      PROVE  CopiesInv'
  <2>1. AtDelete' = AtDelete /\ \A c : Holders(c)' = Holders(c)
    BY <1>3 DEF AtDelete, Holders
  <2>2. ASSUME NEW c \in Checks
        PROVE  /\ c \in stored' => enqueued'[c] <= Ci!Cardinality(AtDelete') + ciFaults'
               /\ c \notin stored' => enqueued'[c] + Ci!Cardinality(Holders(c)')
                                        <= Ci!Cardinality(Pollers) + ciFaults'
    <3>1. /\ enqueued[c] \in Nat /\ Ci!Cardinality(Holders(c)) \in Nat
          /\ c \in stored => enqueued[c] <= Ci!Cardinality(AtDelete) + ciFaults
          /\ c \notin stored => enqueued[c] + Ci!Cardinality(Holders(c))
                 <= Ci!Cardinality(Pollers) + ciFaults
      BY <1>1, <1>2 DEF CopiesInv
    <3>2. QED
      BY <1>1, <1>2, <1>3, <2>1, <3>1
  <2>3. QED
    BY <2>2 DEF CopiesInv
<1>4. ASSUME NEW c \in Checks, Ci!Add(c) PROVE CopiesInv'
  <2>1. CASE Ci!Complete(c) \/ \E reply \in Ci!Replies : Ci!ReadState(c, reply)
    <3>1. ciFaults' = ciFaults \/ ciFaults' = ciFaults + 1
      BY <2>1, ReplyFaults DEF Ci!Complete, Ci!ReadState
    <3>2. QED
      BY <1>3, <2>1, <3>1 DEF Ci!Complete, Ci!ReadState, Ci!aggregation, Ci!history
  <2>2. ASSUME NEW reply \in Ci!Replies, Ci!Write(c, reply) PROVE CopiesInv'
    <3>1. /\ ciFaults' = ciFaults \/ ciFaults' = ciFaults + 1
          /\ UNCHANGED <<poller, enqueued>> /\ check[c].at = "write"
      BY <2>2, ReplyFaults DEF Ci!Write
    <3>2. CASE ~Ci!Applied(reply)
      BY <1>3, <2>2, <3>1, <3>2 DEF Ci!Write, Ci!aggregation
    <3>3. CASE Ci!Applied(reply)
      <4>1. stored' = stored \cup {c}
        BY <2>2, <3>3 DEF Ci!Write
      <4>2. enqueued[c] = 0
        BY <3>1 DEF FreshInv
      <4>3. AtDelete' = AtDelete /\ \A d : Holders(d)' = Holders(d)
        BY <3>1 DEF AtDelete, Holders
      <4>4. ASSUME NEW d \in Checks
            PROVE  /\ d \in stored' => enqueued'[d] <= Ci!Cardinality(AtDelete') + ciFaults'
                   /\ d \notin stored' => enqueued'[d] + Ci!Cardinality(Holders(d)')
                                            <= Ci!Cardinality(Pollers) + ciFaults'
        <5>1. /\ enqueued[d] \in Nat /\ Ci!Cardinality(Holders(d)) \in Nat
              /\ d \in stored => enqueued[d] <= Ci!Cardinality(AtDelete) + ciFaults
              /\ d \notin stored => enqueued[d] + Ci!Cardinality(Holders(d))
                     <= Ci!Cardinality(Pollers) + ciFaults
          BY <1>1, <1>2 DEF CopiesInv
        <5>2. QED
          BY <1>1, <1>2, <3>1, <4>1, <4>2, <4>3, <5>1
      <4>5. QED
        BY <4>4 DEF CopiesInv
    <3>4. QED
      BY <3>2, <3>3
  <2>3. QED
    BY <1>4, <2>1, <2>2 DEF Ci!Add
<1>5. ASSUME NEW p \in Pollers, Ci!Poll(p) \/ Ci!Crash(p) PROVE CopiesInv'
  BY <1>5, PollMoves, PollCopies
<1>6. CASE Ci!Expire
  <2>1. /\ stored' = {} /\ UNCHANGED <<poller, enqueued, ciFaults>>
        /\ \A p \in Pollers : poller[p].at = "idle"
    BY <1>6 DEF Ci!Expire, Ci!Gone
  <2>2. AtDelete = {} /\ \A c : Holders(c) = {}
    BY <2>1 DEF AtDelete, Holders, KeptInv
  <2>3. Ci!Cardinality(AtDelete) = 0 
        /\ \A c : Ci!Cardinality(Holders(c)) = 0 /\ Holders(c)' = Holders(c)
    BY <2>1, <2>2, FS_EmptySet, CiSets DEF Holders
  <2>4. ASSUME NEW c \in Checks
        PROVE  enqueued'[c] + Ci!Cardinality(Holders(c)') <= Ci!Cardinality(Pollers) + ciFaults'
    <3>1. enqueued[c] \in Nat /\ (\/ enqueued[c] <= 0 + ciFaults
                                  \/ enqueued[c] + 0 <= Ci!Cardinality(Pollers) + ciFaults)
      BY <1>1, <2>3 DEF CopiesInv
    <3>2. QED
      BY <1>1, <1>2, <2>1, <2>3, <3>1
  <2>5. QED
    BY <2>1, <2>4 DEF CopiesInv
<1>7. CASE Ci!DebounceExpires \/ Ci!GrowOld \/ UNCHANGED Ci!vars
  BY <1>3, <1>7 DEF Ci!DebounceExpires, Ci!GrowOld, Ci!vars, Ci!aggregation, Ci!history
<1>8. QED
  BY <1>4, <1>5, <1>6, <1>7 DEF Ci!Next

(* Both invariants hold at the start. *)
LEMMA InitCopies == Ci!Init => FreshInv /\ CopiesInv
<1> SUFFICES ASSUME Ci!Init PROVE FreshInv /\ CopiesInv
  OBVIOUS
<1>1. \A c : Holders(c) = {}
  BY IdleType DEF Ci!Init, Holders
<1>2. \A c : Ci!Cardinality(Holders(c)) = 0
  BY <1>1, FS_EmptySet, CiSets
<1>3. Ci!Cardinality(Pollers) \in Nat
  BY PollerSets
<1>4. QED
  BY <1>1, <1>2, <1>3 DEF Ci!Init, FreshInv, CopiesInv

(* A check is enqueued once, and once more per other replica and per fault. *)
THEOREM CiCopiesBounded == Ci!Spec => []Ci!BoundedDuplicates
<1>1. Ci!TypeOK /\ CopiesInv => Ci!BoundedDuplicates
  <2> SUFFICES ASSUME Ci!TypeOK, CopiesInv, NEW c \in Checks
               PROVE  enqueued[c] <= Ci!Cardinality(Pollers) + ciFaults
    BY DEF Ci!BoundedDuplicates
  <2>1. /\ enqueued[c] \in Nat /\ ciFaults \in Nat /\ Ci!Cardinality(Pollers) \in Nat
        /\ AtDelete \in SUBSET Pollers /\ Holders(c) \in SUBSET Pollers
    BY PollerSets DEF Ci!TypeOK, AtDelete, Holders
  <2>2. /\ Ci!Cardinality(AtDelete) \in Nat /\ Ci!Cardinality(AtDelete) <= Ci!Cardinality(Pollers)
        /\ Ci!Cardinality(Holders(c)) \in Nat
    BY <2>1, PollerSets
  <2>3. \/ enqueued[c] <= Ci!Cardinality(AtDelete) + ciFaults
        \/ enqueued[c] + Ci!Cardinality(Holders(c)) <= Ci!Cardinality(Pollers) + ciFaults
    BY DEF CopiesInv
  <2>4. QED
    BY <2>1, <2>2, <2>3
<1>2. QED
  BY <1>1, CiInitType, CiNextType, InitKeeps, NextKeeps, NextFresh, NextCopies, InitCopies,
     PTL DEF Ci!Spec
-----------------------------------------------------------------------------
(* The instance's Cardinality is that of FiniteSets. *)
LEMMA WorkerSets == \A S : Worker!Cardinality(S) = Cardinality(S)
  BY Zenon DEF Worker!Cardinality, Cardinality

(***************************************************************************)
(* Analysis jobs: types. A step of a job changes one slot of its loop.     *)
(***************************************************************************)
Statuses == {"none", "pending", "processing"} \cup Worker!Finished

\* What a step of one of the jobs does to the slot it is in.
Moves(l, s, j, from, task) ==
  /\ tasks[l][s] = [job |-> j, at |-> from]
  /\ tasks' = [tasks EXCEPT ![l][s] = task]
  /\ activeJobs' = IF task = Worker!Free THEN [activeJobs EXCEPT ![l] = @ - 1] ELSE activeJobs
  /\ fetched' = fetched

(* How many slots or jobs a set of them has. *)
LEMMA SlotSets ==
  /\ IsFiniteSet(Worker!Slots) /\ Worker!Cardinality(Worker!Slots) = MaxConcurrent
  /\ \A S \in SUBSET Worker!Slots :
       IsFiniteSet(S) /\ Worker!Cardinality(S) \in Nat /\ Worker!Cardinality(S) <= MaxConcurrent
  /\ \A S \in SUBSET Jobs : IsFiniteSet(S) /\ Worker!Cardinality(S) \in Nat
<1>1. IsFiniteSet(Worker!Slots) /\ Worker!Cardinality(Worker!Slots) = MaxConcurrent
  BY FS_Interval, WorkerSets DEF Worker!Slots
<1>2. \A S \in SUBSET Worker!Slots :
        IsFiniteSet(S) /\ Worker!Cardinality(S) \in Nat /\ Worker!Cardinality(S) <= MaxConcurrent
  BY <1>1, FS_Subset, FS_CardinalityType, WorkerSets
<1>3. \A S \in SUBSET Jobs : IsFiniteSet(S) /\ Worker!Cardinality(S) \in Nat
  BY FS_Subset, FS_CardinalityType, WorkerSets
<1>4. QED
  BY <1>1, <1>2, <1>3

(* A task is not the free slot, and its job and statement are its own. *)
LEMMA FreeIsNoTask ==
  /\ Worker!Free \notin Worker!Task
  /\ \A j \in Jobs, at \in Worker!Stages :
       [job |-> j, at |-> at] \in Worker!Task /\ [job |-> j, at |-> at] # Worker!Free
  /\ \A j, k \in Jobs, at, to \in Worker!Stages :
       [job |-> j, at |-> at] = [job |-> k, at |-> to] => j = k /\ at = to
<1>1. Worker!Free.at = "free" /\ "free" \notin Worker!Stages
  BY DEF Worker!Free, Worker!Stages
<1>2. \A t \in Worker!Task : t.at \in Worker!Stages
  BY DEF Worker!Task
<1>3. \A j \in Jobs, at \in Worker!Stages :
        [job |-> j, at |-> at] \in Worker!Task /\ [job |-> j, at |-> at].at = at
        /\ [job |-> j, at |-> at].job = j
  BY DEF Worker!Task
<1>4. QED
  BY <1>1, <1>2, <1>3

\* What the step does besides: a statement that is done or one that is rejected.
Done(j, from, task) ==
  /\ UNCHANGED <<workerFaults, struck>>
  /\ \/ /\ from = "check" /\ UNCHANGED <<row, analyses>>
        /\ \E to \in {"block", "mark"} : task = [job |-> j, at |-> to]
     \/ /\ from = "mark" /\ task = [job |-> j, at |-> "analyze"]
        /\ row' = [row EXCEPT ![j] = "processing"]
        /\ analyses' = [analyses EXCEPT ![j] = @ + 1]
     \/ /\ from = "analyze" /\ UNCHANGED <<row, analyses>>
        /\ \E to \in {"complete", "fail"} : task = [job |-> j, at |-> to]
     \/ /\ from \in {"block", "complete", "fail"} /\ task = Worker!Free /\ UNCHANGED analyses
        /\ \E status \in Worker!Finished : row' = [row EXCEPT ![j] = status]

Rejected(j, from, task) ==
  /\ workerFaults < MaxFaults /\ workerFaults' = workerFaults + 1
  /\ struck' = struck \cup {j} /\ UNCHANGED analyses
  /\ row' = row \/ \E status \in Worker!Finished \cup {"processing"} :
         row' = [row EXCEPT ![j] = status]
  /\ \/ from = "block" /\ task = [job |-> j, at |-> "mark"]
     \/ from \in {"mark", "complete"} /\ task = [job |-> j, at |-> "fail"]
     \/ from = "fail" /\ task = Worker!Free

JobStep(l, j) ==
  \E s \in Worker!Slots, from \in Worker!Stages, task \in Worker!Task \cup {Worker!Free} :
    /\ Moves(l, s, j, from, task)
    /\ Done(j, from, task) \/ Rejected(j, from, task)

(* So it is for a task that starts. *)
LEMMA NewTask == \A j \in Jobs :
  [job |-> j, at |-> "check"] \in Worker!Task /\ [job |-> j, at |-> "check"] # Worker!Free
<1>1. "check" \in Worker!Stages
  BY DEF Worker!Stages
<1>2. QED
  BY <1>1, FreeIsNoTask

(* A job that goes on to its next statement moves. *)
LEMMA GotoMoves ==
  ASSUME NEW l \in Loops, NEW j \in Jobs, NEW from \in Worker!Stages, NEW to \in Worker!Stages,
         Worker!Goto(l, j, from, to), fetched' = fetched
  PROVE  /\ [job |-> j, at |-> to] \in Worker!Task
         /\ \E s \in Worker!Slots : Moves(l, s, j, from, [job |-> j, at |-> to])
BY FreeIsNoTask DEF Worker!Goto, Worker!Put, Moves

(* A job that ends leaves its slot free. *)
LEMMA LeaveMoves ==
  ASSUME NEW l \in Loops, NEW j \in Jobs, NEW from \in Worker!Stages,
         Worker!Leave(l, j, from), fetched' = fetched
  PROVE  \E s \in Worker!Slots : Moves(l, s, j, from, Worker!Free)
BY DEF Worker!Leave, Worker!Put, Moves

(* The statements, and the statuses of a finished row, by name. *)
LEMMA StageNames ==
  /\ Worker!Stages = {"check", "block", "mark", "analyze", "complete", "fail"}
  /\ Worker!Finished = {"completed", "failed"}
BY DEF Worker!Stages, Worker!Finished

\* Every statement of a job is such a step.
LEMMA ProcessSteps ==
  ASSUME NEW l \in Loops, NEW j \in Jobs, Worker!Process(l, j)
  PROVE  JobStep(l, j)
<1>1. ASSUME Worker!Check(l, j) PROVE JobStep(l, j)
  <2>1. PICK to \in {"block", "mark"} : Worker!Goto(l, j, "check", to)
    BY <1>1 DEF Worker!Check
  <2>2. Done(j, "check", [job |-> j, at |-> to])
    BY <1>1 DEF Worker!Check, Done
  <2>3. QED
    BY <1>1, <2>1, <2>2, GotoMoves, StageNames DEF Worker!Check, JobStep
<1>2. ASSUME Worker!Analyze(l, j) PROVE JobStep(l, j)
  <2>1. PICK to \in {"complete", "fail"} : Worker!Goto(l, j, "analyze", to)
    BY <1>2 DEF Worker!Analyze
  <2>2. Done(j, "analyze", [job |-> j, at |-> to])
    BY <1>2 DEF Worker!Analyze, Done
  <2>3. QED
    BY <1>2, <2>1, <2>2, GotoMoves, StageNames DEF Worker!Analyze, JobStep
<1>3. ASSUME Worker!Mark(l, j) PROVE JobStep(l, j)
  <2>1. Done(j, "mark", [job |-> j, at |-> "analyze"])
    BY <1>3 DEF Worker!Mark, Worker!Write, Done
  <2>2. QED
    BY <1>3, <2>1, GotoMoves, StageNames DEF Worker!Mark, JobStep
<1>4. ASSUME NEW from \in {"block", "complete", "fail"}, NEW status \in Worker!Finished,
             Worker!Leave(l, j, from), Worker!Write(j, status),
             UNCHANGED <<fetched, workerFaults, analyses, struck>>
      PROVE  JobStep(l, j)
  <2>1. Done(j, from, Worker!Free)
    BY <1>4 DEF Worker!Write, Done
  <2>2. QED
    BY <1>4, <2>1, LeaveMoves, StageNames DEF JobStep
<1>5. QED
  BY <1>1, <1>2, <1>3, <1>4, StageNames
  DEF Worker!Process, Worker!Block, Worker!Complete, Worker!Fail

(* A rejected statement is such a step too. *)
LEMMA RejectSteps ==
  ASSUME NEW l \in Loops, NEW j \in Jobs, Worker!Reject(l, j)
  PROVE  JobStep(l, j)
<1>1. /\ workerFaults < MaxFaults /\ workerFaults' = workerFaults + 1 /\ struck' = struck \cup {j}
      /\ UNCHANGED <<fetched, analyses>>
  BY DEF Worker!Reject, Worker!Fault
<1>2. row' = row \/ \E status \in Worker!Finished \cup {"processing"} :
          row' = [row EXCEPT ![j] = status]
  BY StageNames DEF Worker!Reject, Worker!Write
<1>3. ASSUME Worker!Leave(l, j, "fail") PROVE JobStep(l, j)
  <2>1. Rejected(j, "fail", Worker!Free)
    BY <1>1, <1>2 DEF Rejected
  <2>2. QED
    BY <1>1, <1>3, <2>1, LeaveMoves, StageNames DEF JobStep
<1>4. ASSUME NEW from \in {"block", "mark", "complete"}, NEW to \in {"mark", "fail"},
             Worker!Goto(l, j, from, to), from = "block" <=> to = "mark"
      PROVE  JobStep(l, j)
  <2>1. Rejected(j, from, [job |-> j, at |-> to])
    BY <1>1, <1>2, <1>4 DEF Rejected
  <2>2. QED
    BY <1>1, <1>4, <2>1, GotoMoves, StageNames DEF JobStep
<1>5. QED
  BY <1>3, <1>4 DEF Worker!Reject

\* A move keeps the types, and the loop's count of its jobs.
LEMMA MoveType ==
  ASSUME Worker!TypeOK, NEW l \in Loops, NEW s \in Worker!Slots, NEW j \in Jobs,
         NEW from \in Worker!Stages,
         NEW task \in Worker!Task \cup {Worker!Free}, Moves(l, s, j, from, task)
  PROVE  /\ fetched' \in [Loops -> SUBSET Jobs]
         /\ tasks' \in [Loops -> [Worker!Slots -> Worker!Task \cup {Worker!Free}]]
         /\ activeJobs' \in [Loops -> 0..MaxConcurrent]
         /\ \A m \in Loops :
              /\ activeJobs'[m] = Worker!Cardinality(Worker!Busy(m)')
              /\ activeJobs'[m] + Worker!Cardinality(fetched'[m]) <= MaxConcurrent
<1>1. /\ tasks \in [Loops -> [Worker!Slots -> Worker!Task \cup {Worker!Free}]]
      /\ fetched \in [Loops -> SUBSET Jobs]
      /\ activeJobs \in [Loops -> 0..MaxConcurrent] /\ tasks[l][s] # Worker!Free
  BY FreeIsNoTask DEF Worker!TypeOK, Moves
<1>2. \A m \in Loops : /\ activeJobs[m] = Worker!Cardinality(Worker!Busy(m))
                       /\ activeJobs[m] \in 0..MaxConcurrent
                       /\ activeJobs[m] + Worker!Cardinality(fetched[m]) <= MaxConcurrent
                       /\ Worker!Cardinality(fetched[m]) \in Nat
                       /\ Worker!Busy(m) \in SUBSET Worker!Slots
  BY <1>1, SlotSets DEF Worker!TypeOK, Worker!Busy
<1>3. tasks' = [tasks EXCEPT ![l][s] = task] /\ fetched' = fetched
  BY DEF Moves
<1>4. tasks' \in [Loops -> [Worker!Slots -> Worker!Task \cup {Worker!Free}]]
  BY <1>1, <1>3
<1>5. \A m \in Loops : m # l => Worker!Busy(m)' = Worker!Busy(m) /\ activeJobs'[m] = activeJobs[m]
  BY <1>1, <1>3 DEF Worker!Busy, Moves
<1>6. Worker!Busy(l)' = IF task = Worker!Free THEN Worker!Busy(l) \ {s} ELSE Worker!Busy(l)
  BY <1>1, <1>3 DEF Worker!Busy
<1>7. s \in Worker!Busy(l)
  BY <1>1 DEF Worker!Busy
<1>8. /\ Worker!Cardinality(Worker!Busy(l) \ {s}) = Worker!Cardinality(Worker!Busy(l)) - 1
      /\ Worker!Cardinality(Worker!Busy(l)) \in Nat \ {0}
  BY <1>2, <1>7, SlotSets, FS_RemoveElement, FS_EmptySet, WorkerSets
<1>9. activeJobs'[l] = Worker!Cardinality(Worker!Busy(l)') /\ activeJobs'[l] \in 0..activeJobs[l]
  <2>1. CASE task = Worker!Free
    <3>1. activeJobs' = [activeJobs EXCEPT ![l] = activeJobs[l] - 1]
      BY <2>1 DEF Moves
    <3>2. activeJobs'[l] = activeJobs[l] - 1
      BY <1>1, <3>1
    <3>3. QED
      BY <1>2, <1>6, <1>8, <2>1, <3>2
  <2>2. CASE task # Worker!Free
    BY <1>2, <1>6, <2>2 DEF Moves
  <2>3. QED
    BY <2>1, <2>2
<1>10. activeJobs' \in [Loops -> 0..MaxConcurrent]
  <2>1. activeJobs' = [activeJobs EXCEPT ![l] = activeJobs'[l]] \/ activeJobs' = activeJobs
    BY <1>1 DEF Moves
  <2>2. activeJobs'[l] \in 0..MaxConcurrent
    BY <1>2, <1>9
  <2>3. QED
    BY <1>1, <2>1, <2>2
<1>11. \A m \in Loops : /\ activeJobs'[m] = Worker!Cardinality(Worker!Busy(m)')
                        /\ activeJobs'[m] + Worker!Cardinality(fetched'[m]) <= MaxConcurrent
  BY <1>2, <1>3, <1>5, <1>9
<1>12. QED
  BY <1>1, <1>3, <1>4, <1>10, <1>11

(* What a job writes keeps the types of the rows. *)
LEMMA RowTypes ==
  ASSUME Worker!TypeOK, NEW j \in Jobs, NEW from, NEW task,
         Done(j, from, task) \/ Rejected(j, from, task)
  PROVE  /\ row' \in [Jobs -> Statuses] /\ workerFaults' \in 0..MaxFaults
         /\ analyses' \in [Jobs -> Nat] /\ struck' \subseteq Jobs
<1>1. /\ row \in [Jobs -> Statuses] /\ workerFaults \in 0..MaxFaults
      /\ analyses \in [Jobs -> Nat] /\ struck \subseteq Jobs
  BY DEF Worker!TypeOK, Statuses
<1>2. Worker!Finished \cup {"processing"} \subseteq Statuses
  BY DEF Statuses
<1>3. CASE Done(j, from, task)
  <2>1. analyses' = analyses \/ analyses' = [analyses EXCEPT ![j] = analyses[j] + 1]
    BY <1>3 DEF Done
  <2>2. analyses' \in [Jobs -> Nat]
    BY <1>1, <2>1
  <2>3. row' = row \/ \E status \in Worker!Finished \cup {"processing"} :
            row' = [row EXCEPT ![j] = status]
    BY <1>3 DEF Done
  <2>4. row' \in [Jobs -> Statuses]
    BY <1>1, <1>2, <2>3
  <2>5. QED
    BY <1>1, <1>3, <2>2, <2>4 DEF Done
<1>4. CASE Rejected(j, from, task)
  <2>1. row' \in [Jobs -> Statuses]
    BY <1>1, <1>2, <1>4 DEF Rejected
  <2>2. workerFaults' \in 0..MaxFaults
    BY <1>1, <1>4 DEF Rejected
  <2>3. QED
    BY <1>1, <1>4, <2>1, <2>2 DEF Rejected
<1>5. QED
  BY <1>3, <1>4

(* The steps of a job keep the types. *)
LEMMA JobStepType ==
  ASSUME Worker!TypeOK, NEW l \in Loops, NEW j \in Jobs, JobStep(l, j)
  PROVE  Worker!TypeOK'
<1>1. PICK s \in Worker!Slots, from \in Worker!Stages, task \in Worker!Task \cup {Worker!Free} :
        /\ Moves(l, s, j, from, task)
        /\ Done(j, from, task) \/ Rejected(j, from, task)
  BY DEF JobStep
<1>2. QED
  BY <1>1, MoveType, RowTypes DEF Worker!TypeOK, Statuses

\* The jobs of a batch take as many free slots.
LEMMA StartsInSlots ==
  ASSUME Worker!TypeOK, NEW l \in Loops, Worker!StartJobs(l)
  PROVE  \E slot \in [fetched[l] -> Worker!Slots] :
           /\ \A j, k \in fetched[l] : slot[j] = slot[k] => j = k
           /\ \A j \in fetched[l] : tasks[l][slot[j]] = Worker!Free
           /\ tasks' \in [Loops -> [Worker!Slots -> Worker!Task \cup {Worker!Free}]]
           /\ \A m \in Loops : m # l => tasks'[m] = tasks[m]
           /\ \A j \in fetched[l] : tasks'[l][slot[j]] = [job |-> j, at |-> "check"]
           /\ \A s \in Worker!Slots : (\A j \in fetched[l] : slot[j] # s)
                  => tasks'[l][s] = tasks[l][s]
<1>1. PICK slot \in Worker!Injection(fetched[l], Worker!Slots \ Worker!Busy(l)) :
        tasks' = [tasks EXCEPT ![l] =
          [s \in Worker!Slots |-> IF \E j \in fetched[l] : slot[j] = s
                           THEN [job |-> CHOOSE j \in fetched[l] : slot[j] = s, at |-> "check"]
                           ELSE tasks[l][s]]]
  BY DEF Worker!StartJobs
<1>2. /\ slot \in [fetched[l] -> Worker!Slots \ Worker!Busy(l)]
      /\ \A j, k \in fetched[l] : slot[j] = slot[k] => j = k
  BY <1>1 DEF Worker!Injection, Worker!IsInjective
<1>3. /\ tasks \in [Loops -> [Worker!Slots -> Worker!Task \cup {Worker!Free}]]
      /\ fetched[l] \subseteq Jobs
  BY DEF Worker!TypeOK
<1>4. \A j \in fetched[l] : (CHOOSE k \in fetched[l] : slot[k] = slot[j]) = j
  BY <1>2
<1>5. \A j \in fetched[l] : slot[j] \in Worker!Slots /\ tasks[l][slot[j]] = Worker!Free
  BY <1>2 DEF Worker!Busy
<1> DEFINE row2 == [s \in Worker!Slots |-> IF \E j \in fetched[l] : slot[j] = s
                           THEN [job |-> CHOOSE j \in fetched[l] : slot[j] = s, at |-> "check"]
                           ELSE tasks[l][s]]
<1>6. \A s \in Worker!Slots : (\E j \in fetched[l] : slot[j] = s) =>
                         (CHOOSE j \in fetched[l] : slot[j] = s) \in Jobs
  BY <1>3
<1>7. row2 \in [Worker!Slots -> Worker!Task \cup {Worker!Free}]
  <2>1. ASSUME NEW s \in Worker!Slots PROVE row2[s] \in Worker!Task \cup {Worker!Free}
    <3>1. CASE \E j \in fetched[l] : slot[j] = s
      <4>1. PICK k \in Jobs : k = CHOOSE j \in fetched[l] : slot[j] = s
        BY <1>6, <3>1
      <4>2. row2[s] = [job |-> k, at |-> "check"]
        BY <3>1, <4>1
      <4>3. QED
        BY <4>2, NewTask
    <3>2. CASE ~\E j \in fetched[l] : slot[j] = s
      BY <1>3, <3>2
    <3>3. QED
      BY <3>1, <3>2
  <2>2. QED
    BY <2>1
<1>8. \A j \in fetched[l] : row2[slot[j]] = [job |-> j, at |-> "check"]
  <2>1. ASSUME NEW j \in fetched[l] PROVE row2[slot[j]] = [job |-> j, at |-> "check"]
    <3>1. slot[j] \in Worker!Slots /\ \E k \in fetched[l] : slot[k] = slot[j]
      BY <1>5
    <3>2. row2[slot[j]] = [job |-> CHOOSE k \in fetched[l] : slot[k] = slot[j], at |-> "check"]
      BY <3>1
    <3>3. QED
      BY <3>2, <1>4
  <2>2. QED
    BY <2>1
<1>9. \A s \in Worker!Slots : (\A j \in fetched[l] : slot[j] # s) => row2[s] = tasks[l][s]
  OBVIOUS
<1>10. tasks' = [tasks EXCEPT ![l] = row2]
  BY <1>1
<1> HIDE DEF row2
<1>11. /\ tasks' \in [Loops -> [Worker!Slots -> Worker!Task \cup {Worker!Free}]]
       /\ tasks'[l] = row2
       /\ \A m \in Loops : m # l => tasks'[m] = tasks[m]
  BY <1>3, <1>7, <1>10
<1>12. slot \in [fetched[l] -> Worker!Slots]
  BY <1>2
<1>13. QED
  BY <1>2, <1>5, <1>8, <1>9, <1>11, <1>12

(* Starting the fetched jobs keeps the types, and fills no more slots than there are. *)
LEMMA StartType ==
  ASSUME Worker!TypeOK, NEW l \in Loops, Worker!StartJobs(l)
  PROVE  Worker!TypeOK'
<1>1. PICK slot \in [fetched[l] -> Worker!Slots] :
        /\ \A j, k \in fetched[l] : slot[j] = slot[k] => j = k
        /\ \A j \in fetched[l] : tasks[l][slot[j]] = Worker!Free
        /\ tasks' \in [Loops -> [Worker!Slots -> Worker!Task \cup {Worker!Free}]]
        /\ \A m \in Loops : m # l => tasks'[m] = tasks[m]
        /\ \A j \in fetched[l] : tasks'[l][slot[j]] = [job |-> j, at |-> "check"]
        /\ \A s \in Worker!Slots : (\A j \in fetched[l] : slot[j] # s) => tasks'[l][s] = tasks[l][s]
  BY StartsInSlots
<1> DEFINE new == {slot[j] : j \in fetched[l]}
           n == Worker!Cardinality(fetched[l])
<1>2. /\ fetched \in [Loops -> SUBSET Jobs] /\ fetched[l] \subseteq Jobs
      /\ activeJobs \in [Loops -> 0..MaxConcurrent]
      /\ activeJobs' = [activeJobs EXCEPT ![l] = @ + n] /\ fetched' = [fetched EXCEPT ![l] = {}]
      /\ UNCHANGED <<row, workerFaults, analyses, struck>>
  BY DEF Worker!TypeOK, Worker!StartJobs
<1>3. Worker!Busy(l)' = Worker!Busy(l) \cup new /\ Worker!Busy(l) \cap new = {}
  <2>1. \A j \in fetched[l] : tasks'[l][slot[j]] # Worker!Free
    <3>1. ASSUME NEW j \in fetched[l] PROVE tasks'[l][slot[j]] # Worker!Free
      <4>1. tasks'[l][slot[j]] = [job |-> j, at |-> "check"] /\ j \in Jobs
        BY <1>1, <1>2
      <4>2. QED
        BY <4>1, NewTask
    <3>2. QED
      BY <3>1
  <2>2. \A s \in Worker!Slots : s \notin new => tasks'[l][s] = tasks[l][s]
    BY <1>1
  <2>3. new \subseteq Worker!Slots /\ \A s \in new : tasks[l][s] = Worker!Free
    BY <1>1
  <2>4. QED
    BY <2>1, <2>2, <2>3 DEF Worker!Busy
<1>4. /\ IsFiniteSet(fetched[l]) /\ n \in Nat /\ Worker!Busy(l) \in SUBSET Worker!Slots
      /\ new \in SUBSET Worker!Slots
  BY <1>2, SlotSets DEF Worker!Busy
<1>5. Worker!Cardinality(new) = n
  <2>1. slot \in [fetched[l] -> new] /\ Worker!IsInjective(slot)
    BY <1>1 DEF Worker!IsInjective
  <2>2. \A s \in new : \E j \in fetched[l] : slot[j] = s
    OBVIOUS
  <2>3. slot \in Bijection(fetched[l], new)
    BY <2>1, <2>2 DEF Bijection, Injection, IsInjective, Worker!IsInjective, Surjection
  <2>4. ExistsBijection(fetched[l], new)
    BY <2>3 DEF ExistsBijection
  <2>5. QED
    BY <1>4, <2>4, FS_Bijection, WorkerSets
<1>6. Worker!Cardinality(Worker!Busy(l)') = Worker!Cardinality(Worker!Busy(l)) + n
  <2>1. Worker!Cardinality(Worker!Busy(l) \cup new)
          = Worker!Cardinality(Worker!Busy(l)) + Worker!Cardinality(new)
              - Worker!Cardinality(Worker!Busy(l) \cap new)
    BY <1>4, SlotSets, FS_Union, WorkerSets
  <2>2. /\ Worker!Cardinality(Worker!Busy(l) \cap new) = 0
        /\ Worker!Cardinality(Worker!Busy(l)) \in Nat
    BY <1>3, <1>4, SlotSets, FS_EmptySet, WorkerSets
  <2>3. QED
    BY <1>3, <1>4, <1>5, <2>1, <2>2
<1>7. activeJobs[l] = Worker!Cardinality(Worker!Busy(l)) /\ activeJobs[l] + n <= MaxConcurrent
      /\ activeJobs[l] \in Nat
  BY <1>2 DEF Worker!TypeOK
<1> HIDE DEF n, new
<1>8. activeJobs'[l] = activeJobs[l] + n /\ activeJobs[l] + n \in 0..MaxConcurrent
  BY <1>2, <1>4, <1>7
<1>9. activeJobs' \in [Loops -> 0..MaxConcurrent]
  BY <1>2, <1>8
<1>10. fetched' \in [Loops -> SUBSET Jobs] /\ fetched'[l] = {} /\ Worker!Cardinality({}) = 0
  BY <1>2, FS_EmptySet, WorkerSets
<1>11. ASSUME NEW m \in Loops
       PROVE  /\ activeJobs'[m] = Worker!Cardinality(Worker!Busy(m)')
              /\ activeJobs'[m] + Worker!Cardinality(fetched'[m]) <= MaxConcurrent
  <2>1. CASE m = l
    <3>1. activeJobs'[l] = Worker!Cardinality(Worker!Busy(l)')
      BY <1>6, <1>7, <1>8
    <3>2. activeJobs'[l] \in Nat /\ activeJobs'[l] <= MaxConcurrent
      BY <1>8
    <3>3. activeJobs'[l] + Worker!Cardinality(fetched'[l]) <= MaxConcurrent
      BY <1>10, <3>2
    <3>4. QED
      BY <2>1, <3>1, <3>3
  <2>2. CASE m # l
    <3>1. /\ Worker!Busy(m)' = Worker!Busy(m) /\ activeJobs'[m] = activeJobs[m]
          /\ fetched'[m] = fetched[m]
      BY <1>1, <1>2, <2>2 DEF Worker!Busy
    <3>2. QED
      BY <3>1 DEF Worker!TypeOK
  <2>3. QED
    BY <2>1, <2>2
<1>12. QED
  BY <1>1, <1>2, <1>9, <1>10, <1>11 DEF Worker!TypeOK

(* Fetching rows keeps the types. *)
LEMMA SelectType ==
  ASSUME Worker!TypeOK, NEW l \in Loops, Worker!Select(l)
  PROVE  Worker!TypeOK'
<1>1. PICK S \in SUBSET Worker!Pending :
        /\ Worker!Cardinality(S) + activeJobs[l] <= MaxConcurrent
        /\ fetched' = [fetched EXCEPT ![l] = S]
  BY DEF Worker!Select
<1>2. UNCHANGED <<row, tasks, activeJobs, workerFaults, analyses, struck>> /\ S \subseteq Jobs
  BY DEF Worker!Select, Worker!Pending
<1>3. fetched \in [Loops -> SUBSET Jobs] /\ fetched' \in [Loops -> SUBSET Jobs]
  BY <1>1, <1>2 DEF Worker!TypeOK
<1>4. ASSUME NEW m \in Loops
      PROVE  /\ activeJobs'[m] = Worker!Cardinality(Worker!Busy(m)')
             /\ activeJobs'[m] + Worker!Cardinality(fetched'[m]) <= MaxConcurrent
  <2>1. /\ Worker!Busy(m)' = Worker!Busy(m) /\ activeJobs[m] \in 0..MaxConcurrent
        /\ Worker!Cardinality(S) \in Nat
    BY <1>2, SlotSets DEF Worker!Busy, Worker!TypeOK
  <2>2. CASE m = l
    BY <1>1, <1>2, <1>3, <2>1, <2>2 DEF Worker!TypeOK
  <2>3. CASE m # l
    BY <1>1, <1>2, <1>3, <2>1, <2>3 DEF Worker!TypeOK
  <2>4. QED
    BY <2>2, <2>3
<1>5. QED
  BY <1>2, <1>3, <1>4 DEF Worker!TypeOK

(* A process that stops keeps the types. *)
LEMMA StopType ==
  ASSUME Worker!TypeOK, NEW l \in Loops, Worker!Stop(l)
  PROVE  Worker!TypeOK'
<1>1. /\ fetched' = [fetched EXCEPT ![l] = {}] /\ tasks' = [tasks EXCEPT ![l] = Worker!NoTask]
      /\ activeJobs' = [activeJobs EXCEPT ![l] = 0] /\ UNCHANGED <<row, analyses>>
      /\ workerFaults < MaxFaults /\ workerFaults' = workerFaults + 1
  BY DEF Worker!Stop, Worker!Fault
<1>2. struck' \subseteq Jobs
  BY DEF Worker!Stop, Worker!TypeOK
<1>3. /\ fetched \in [Loops -> SUBSET Jobs]
      /\ tasks \in [Loops -> [Worker!Slots -> Worker!Task \cup {Worker!Free}]]
      /\ activeJobs \in [Loops -> 0..MaxConcurrent] /\ 0 \in 0..MaxConcurrent
      /\ Worker!NoTask \in [Worker!Slots -> Worker!Task \cup {Worker!Free}]
      /\ \A s \in Worker!Slots : Worker!NoTask[s] = Worker!Free
  BY DEF Worker!TypeOK, Worker!NoTask
<1>4. /\ fetched' \in [Loops -> SUBSET Jobs]
      /\ tasks' \in [Loops -> [Worker!Slots -> Worker!Task \cup {Worker!Free}]]
      /\ activeJobs' \in [Loops -> 0..MaxConcurrent]
  BY <1>1, <1>3
<1>5. fetched'[l] = {} /\ activeJobs'[l] = 0 /\ Worker!Busy(l)' = {}
  BY <1>1, <1>3 DEF Worker!Busy
<1>6. ASSUME NEW m \in Loops
      PROVE  /\ activeJobs'[m] = Worker!Cardinality(Worker!Busy(m)')
             /\ activeJobs'[m] + Worker!Cardinality(fetched'[m]) <= MaxConcurrent
  <2>1. CASE m = l
    BY <1>5, <2>1, FS_EmptySet, WorkerSets
  <2>2. CASE m # l
    <3>1. /\ Worker!Busy(m)' = Worker!Busy(m) /\ activeJobs'[m] = activeJobs[m]
          /\ fetched'[m] = fetched[m]
      BY <1>1, <1>3, <2>2 DEF Worker!Busy
    <3>2. QED
      BY <3>1 DEF Worker!TypeOK
  <2>3. QED
    BY <2>1, <2>2
<1>7. workerFaults' \in 0..MaxFaults
  BY <1>1 DEF Worker!TypeOK
<1>8. QED
  BY <1>1, <1>2, <1>4, <1>6, <1>7 DEF Worker!TypeOK

(* Inserting a row keeps the types. *)
LEMMA InsertType ==
  ASSUME Worker!TypeOK, NEW j \in Jobs, Worker!Insert(j)
  PROVE  Worker!TypeOK'
<1>1. /\ row' \in [Jobs -> Statuses]
      /\ UNCHANGED <<fetched, tasks, activeJobs, workerFaults, analyses, struck>>
  BY DEF Worker!Insert, Worker!TypeOK, Statuses
<1>2. \A m \in Loops : Worker!Busy(m)' = Worker!Busy(m)
  BY <1>1 DEF Worker!Busy
<1>3. QED
  BY <1>1, <1>2 DEF Worker!TypeOK, Statuses

(* The types hold at the start. *)
LEMMA JobsInitType == Worker!Init => Worker!TypeOK
<1> SUFFICES ASSUME Worker!Init PROVE Worker!TypeOK
  OBVIOUS
<1>1. /\ row \in [Jobs -> Statuses] /\ analyses \in [Jobs -> Nat] /\ struck \subseteq Jobs
      /\ fetched \in [Loops -> SUBSET Jobs]
  BY DEF Worker!Init, Statuses
<1>2. 0 \in 0..MaxConcurrent /\ 0 \in 0..MaxFaults
  OBVIOUS
<1>3. activeJobs \in [Loops -> 0..MaxConcurrent] /\ workerFaults \in 0..MaxFaults
  BY <1>2 DEF Worker!Init
<1>4. /\ Worker!NoTask \in [Worker!Slots -> Worker!Task \cup {Worker!Free}]
      /\ \A s \in Worker!Slots : Worker!NoTask[s] = Worker!Free
  BY DEF Worker!NoTask
<1>5. /\ tasks \in [Loops -> [Worker!Slots -> Worker!Task \cup {Worker!Free}]]
      /\ \A l \in Loops : Worker!Busy(l) = {}
  BY <1>4 DEF Worker!Init, Worker!Busy
<1>6. \A l \in Loops : activeJobs[l] = 0 /\ fetched[l] = {}
  BY DEF Worker!Init
<1>7. \A l \in Loops : /\ activeJobs[l] = Worker!Cardinality(Worker!Busy(l))
                       /\ activeJobs[l] + Worker!Cardinality(fetched[l]) <= MaxConcurrent
  <2>1. ASSUME NEW l \in Loops
        PROVE  /\ activeJobs[l] = Worker!Cardinality(Worker!Busy(l))
               /\ activeJobs[l] + Worker!Cardinality(fetched[l]) <= MaxConcurrent
    <3>1. /\ activeJobs[l] = 0 /\ Worker!Cardinality(fetched[l]) = 0
          /\ Worker!Cardinality(Worker!Busy(l)) = 0
      BY <1>5, <1>6, FS_EmptySet, WorkerSets
    <3>2. QED
      BY <3>1
  <2>2. QED
    BY <2>1
<1>8. QED
  BY <1>1, <1>3, <1>5, <1>7 DEF Worker!TypeOK, Statuses

(* Every step keeps the types. *)
LEMMA JobsNextType == Worker!TypeOK /\ [Worker!Next]_(Worker!vars) => Worker!TypeOK'
<1> SUFFICES ASSUME Worker!TypeOK, [Worker!Next]_(Worker!vars) PROVE Worker!TypeOK'
  OBVIOUS
<1>1. CASE UNCHANGED Worker!vars
  <2>1. \A m \in Loops : Worker!Busy(m)' = Worker!Busy(m)
    BY <1>1 DEF Worker!vars, Worker!Busy
  <2>2. QED
    BY <1>1, <2>1 DEF Worker!vars, Worker!TypeOK
<1>2. QED
  BY <1>1, InsertType, SelectType, StartType, StopType, JobStepType, ProcessSteps, RejectSteps
  DEF Worker!Next

(***************************************************************************)
(* Analysis jobs: a row being processed is in hand.                        *)
(***************************************************************************)
Late == {"analyze", "complete", "fail"}

(* The jobs in the other slots run as before. *)
LEMMA MoveRuns ==
  ASSUME Worker!TypeOK, NEW l \in Loops, NEW s \in Worker!Slots, NEW j \in Jobs,
         NEW from \in Worker!Stages,
         NEW task \in Worker!Task \cup {Worker!Free}, Moves(l, s, j, from, task)
  PROVE  /\ tasks'[l][s] = task
         /\ \A m \in Loops, r \in Worker!Slots : <<m, r>> # <<l, s>> => tasks'[m][r] = tasks[m][r]
<1>1. tasks \in [Loops -> [Worker!Slots -> Worker!Task \cup {Worker!Free}]]
  BY DEF Worker!TypeOK
<1>2. QED
  BY <1>1 DEF Moves

(* The step of a job leaves every row that is being processed in hand. *)
LEMMA StepInHand ==
  ASSUME Worker!TypeOK, Worker!RowsInHand, NEW l \in Loops, NEW j \in Jobs, JobStep(l, j)
  PROVE  Worker!RowsInHand'
<1>1. PICK s \in Worker!Slots, from \in Worker!Stages, task \in Worker!Task \cup {Worker!Free} :
        /\ Moves(l, s, j, from, task)
        /\ Done(j, from, task) \/ Rejected(j, from, task)
  BY DEF JobStep
<1>2. /\ tasks'[l][s] = task /\ tasks[l][s] = [job |-> j, at |-> from]
      /\ \A m \in Loops, r \in Worker!Slots : <<m, r>> # <<l, s>> => tasks'[m][r] = tasks[m][r]
  <2>1. Moves(l, s, j, from, task)
    BY <1>1
  <2>2. tasks[l][s] = [job |-> j, at |-> from]
    BY <2>1 DEF Moves
  <2>3. QED
    BY <2>1, <2>2, MoveRuns
<1>3. row \in [Jobs -> Statuses] /\ struck \subseteq struck'
  BY <1>1 DEF Worker!TypeOK, Statuses, Done, Rejected
<1>4. ASSUME NEW k \in Jobs, row'[k] = "processing", k \notin struck'
      PROVE  \E m \in Loops, at \in Late : Worker!Running(m, k, at)'
  <2>1. CASE row[k] = "processing" /\ (k # j \/ from \notin Late)
    <3>1. PICK m \in Loops, r \in Worker!Slots, at \in Late : tasks[m][r] = [job |-> k, at |-> at]
      BY <1>3, <1>4, <2>1 DEF Worker!RowsInHand, Worker!Running, Late
    <3>2. at \in Worker!Stages
      BY DEF Late, Worker!Stages
    <3>3. <<m, r>> # <<l, s>>
      BY <1>2, <2>1, <3>1, <3>2, FreeIsNoTask
    <3>4. tasks'[m][r] = [job |-> k, at |-> at]
      BY <1>2, <3>1, <3>3
    <3>5. QED
      BY <3>4 DEF Worker!Running
  <2>2. CASE k # j /\ row[k] # "processing"
    <3>1. row'[k] = row[k]
      BY <1>1, <1>3, <2>2 DEF Done, Rejected
    <3>2. QED
      BY <1>4, <2>2, <3>1
  <2>3. CASE k = j
    <3>1. j \notin struck' /\ Done(j, from, task)
      BY <1>1, <1>4, <2>3 DEF Rejected
    <3>2. \A status \in Worker!Finished : status # "processing"
      BY DEF Worker!Finished
    <3>3. CASE from = "mark" /\ task = [job |-> j, at |-> "analyze"]
      BY <1>2, <2>3, <3>3 DEF Worker!Running, Late
    <3>4. CASE from = "analyze" /\ \E to \in {"complete", "fail"} : task = [job |-> j, at |-> to]
      BY <1>2, <2>3, <3>4 DEF Worker!Running, Late
    <3>5. CASE from = "check" /\ row' = row
      <4>1. from \notin Late
        BY <3>5 DEF Late
      <4>2. QED
        BY <1>4, <2>1, <3>5, <4>1
    <3>6. CASE \E status \in Worker!Finished : row' = [row EXCEPT ![j] = status]
      BY <1>3, <1>4, <2>3, <3>2, <3>6
    <3>7. QED
      BY <3>1, <3>3, <3>4, <3>5, <3>6 DEF Done
  <2>4. QED
    BY <2>1, <2>2, <2>3
<1>5. QED
  BY <1>4 DEF Worker!RowsInHand, Late

(* Every step does. *)
LEMMA JobsInHand == Worker!TypeOK /\ Worker!RowsInHand /\ [Worker!Next]_(Worker!vars)
    => Worker!RowsInHand'
<1> SUFFICES ASSUME Worker!TypeOK, Worker!RowsInHand, [Worker!Next]_(Worker!vars)
             PROVE Worker!RowsInHand'
  OBVIOUS
<1>1. ASSUME NEW j \in Jobs, Worker!Insert(j) PROVE Worker!RowsInHand'
  BY <1>1 DEF Worker!Insert, Worker!RowsInHand, Worker!Running, Worker!TypeOK
<1>2. ASSUME NEW l \in Loops, Worker!Select(l) PROVE Worker!RowsInHand'
  BY <1>2 DEF Worker!Select, Worker!RowsInHand, Worker!Running
<1>3. ASSUME NEW l \in Loops, Worker!StartJobs(l) PROVE Worker!RowsInHand'
  <2>1. PICK slot \in [fetched[l] -> Worker!Slots] :
          /\ \A j \in fetched[l] : tasks[l][slot[j]] = Worker!Free
          /\ \A m \in Loops : m # l => tasks'[m] = tasks[m]
          /\ \A s \in Worker!Slots : (\A j \in fetched[l] : slot[j] # s)
                 => tasks'[l][s] = tasks[l][s]
    BY <1>3, StartsInSlots
  <2>2. \A m \in Loops, s \in Worker!Slots : tasks[m][s] # Worker!Free => tasks'[m][s] = tasks[m][s]
    BY <2>1
  <2>3. \A j \in Jobs, at \in Late : [job |-> j, at |-> at] # Worker!Free
    BY FreeIsNoTask DEF Late, Worker!Stages
  <2>4. \A m \in Loops, j \in Jobs, at \in Late : Worker!Running(m, j, at)
            => Worker!Running(m, j, at)'
    BY <2>2, <2>3 DEF Worker!Running
  <2>5. row' = row /\ struck' = struck
    BY <1>3 DEF Worker!StartJobs
  <2>6. QED
    BY <2>4, <2>5 DEF Worker!RowsInHand, Late
<1>4. ASSUME NEW l \in Loops, Worker!Stop(l) PROVE Worker!RowsInHand'
  <2>1. /\ row' = row /\ tasks' = [tasks EXCEPT ![l] = Worker!NoTask]
        /\ struck' = struck \cup {j \in Jobs : \E at \in Worker!Stages : Worker!Running(l, j, at)}
    BY <1>4 DEF Worker!Stop
  <2>2. /\ tasks \in [Loops -> [Worker!Slots -> Worker!Task \cup {Worker!Free}]]
        /\ Late \subseteq Worker!Stages
    BY DEF Worker!TypeOK, Late, Worker!Stages
  <2>3. \A m \in Loops, j \in Jobs, at \in Late :
          Worker!Running(m, j, at) => j \in struck' \/ Worker!Running(m, j, at)'
    BY <2>1, <2>2 DEF Worker!Running
  <2>4. QED
    BY <2>1, <2>3 DEF Worker!RowsInHand, Late
<1>5. CASE UNCHANGED Worker!vars
  BY <1>5 DEF Worker!vars, Worker!RowsInHand, Worker!Running
<1>6. QED
  BY <1>1, <1>2, <1>3, <1>4, <1>5, StepInHand, ProcessSteps, RejectSteps DEF Worker!Next

(***************************************************************************)
(* Analysis jobs: how often a row is analysed. The analyses of a row and   *)
(* the jobs that are still about to mark it fit in the slots of all loops: *)
(* a row is not selected once it is marked, and not marked while pending.  *)
(***************************************************************************)
TaskPlaces == Loops \X Worker!Slots
Early == {"check", "block", "mark"}
Claims(j) ==
  {p \in TaskPlaces : \E at \in Early : tasks[p[1]][p[2]] = [job |-> j, at |-> at]}
FetchedBy(j) == {l \in Loops : j \in fetched[l]}
Waiting(j) == row[j] \in {"none", "pending"}

ClaimInv ==
  \A j \in Jobs :
    /\ Waiting(j) => analyses[j] = 0
    /\ analyses[j] + Worker!Cardinality(Claims(j)) + Worker!Cardinality(FetchedBy(j))
           <= Worker!Cardinality(TaskPlaces)

(* How many slots of all loops, or loops, a set of them has. *)
LEMMA PlaceSets ==
  /\ IsFiniteSet(TaskPlaces)
  /\ Worker!Cardinality(TaskPlaces) = Worker!Cardinality(Loops) * MaxConcurrent
  /\ Worker!Cardinality(TaskPlaces) \in Nat
  /\ \A S \in SUBSET TaskPlaces :
       /\ IsFiniteSet(S) /\ Worker!Cardinality(S) \in Nat
       /\ Worker!Cardinality(S) <= Worker!Cardinality(TaskPlaces)
       /\ \A x : /\ x \notin S => Worker!Cardinality(S \cup {x}) = Worker!Cardinality(S) + 1
                 /\ x \in S => Worker!Cardinality(S \ {x}) = Worker!Cardinality(S) - 1
       /\ \A T \in SUBSET S : Worker!Cardinality(T) <= Worker!Cardinality(S)
  /\ \A S \in SUBSET Loops :
       /\ IsFiniteSet(S) /\ Worker!Cardinality(S) \in Nat
       /\ \A x : x \in S => Worker!Cardinality(S \ {x}) = Worker!Cardinality(S) - 1
       /\ \A T \in SUBSET S : Worker!Cardinality(T) <= Worker!Cardinality(S)
<1>1. /\ IsFiniteSet(TaskPlaces)
      /\ Worker!Cardinality(TaskPlaces) = Worker!Cardinality(Loops) * MaxConcurrent
  BY SlotSets, FS_Product, WorkerSets DEF TaskPlaces
<1>2. Worker!Cardinality(TaskPlaces) \in Nat
  BY <1>1, FS_CardinalityType, WorkerSets
<1>3. ASSUME NEW S \in SUBSET TaskPlaces
      PROVE  /\ IsFiniteSet(S) /\ Worker!Cardinality(S) \in Nat
             /\ Worker!Cardinality(S) <= Worker!Cardinality(TaskPlaces)
             /\ \A x : /\ x \notin S => Worker!Cardinality(S \cup {x}) = Worker!Cardinality(S) + 1
                       /\ x \in S => Worker!Cardinality(S \ {x}) = Worker!Cardinality(S) - 1
             /\ \A T \in SUBSET S : Worker!Cardinality(T) <= Worker!Cardinality(S)
  <2>1. IsFiniteSet(S) /\ Worker!Cardinality(S) <= Worker!Cardinality(TaskPlaces)
    BY <1>1, FS_Subset, WorkerSets
  <2>2. QED
    BY <2>1, FS_CardinalityType, FS_AddElement, FS_RemoveElement, FS_Subset, WorkerSets
<1>4. ASSUME NEW S \in SUBSET Loops
      PROVE  /\ IsFiniteSet(S) /\ Worker!Cardinality(S) \in Nat
             /\ \A x : x \in S => Worker!Cardinality(S \ {x}) = Worker!Cardinality(S) - 1
             /\ \A T \in SUBSET S : Worker!Cardinality(T) <= Worker!Cardinality(S)
  <2>1. IsFiniteSet(S)
    BY FS_Subset, WorkerSets
  <2>2. QED
    BY <2>1, FS_CardinalityType, FS_RemoveElement, FS_Subset, WorkerSets
<1>5. QED
  BY <1>1, <1>2, <1>3, <1>4

(* A slot of a loop, by its two parts. *)
LEMMA Pairs ==
  /\ \A l, s : <<l, s>>[1] = l /\ <<l, s>>[2] = s
  /\ \A p \in TaskPlaces : p[1] \in Loops /\ p[2] \in Worker!Slots /\ p = <<p[1], p[2]>>
BY DEF TaskPlaces

(* The claims on a job are slots, and the loops that fetched it are loops. *)
LEMMA ClaimTypes ==
  ASSUME Worker!TypeOK, NEW j \in Jobs
  PROVE  /\ Claims(j) \in SUBSET TaskPlaces /\ FetchedBy(j) \in SUBSET Loops
         /\ Worker!Cardinality(Claims(j)) \in Nat /\ Worker!Cardinality(FetchedBy(j)) \in Nat
         /\ analyses[j] \in Nat
<1>1. Claims(j) \in SUBSET TaskPlaces /\ FetchedBy(j) \in SUBSET Loops
  BY DEF Claims, FetchedBy
<1>2. QED
  BY <1>1, PlaceSets DEF Worker!TypeOK

\* Before a row is marked, its jobs and the batches with it have a slot each.
LEMMA ClaimsFit ==
  ASSUME Worker!TypeOK, NEW j \in Jobs
  PROVE  Worker!Cardinality(Claims(j)) + Worker!Cardinality(FetchedBy(j))
      <= Worker!Cardinality(TaskPlaces)
<1>1. \A l \in FetchedBy(j) : \E s \in Worker!Slots : tasks[l][s] = Worker!Free
  <2>1. ASSUME NEW l \in FetchedBy(j) PROVE \E s \in Worker!Slots : tasks[l][s] = Worker!Free
    <3>1. l \in Loops /\ j \in fetched[l] /\ fetched[l] \subseteq Jobs
      BY DEF FetchedBy, Worker!TypeOK
    <3>2. Worker!Cardinality(fetched[l]) \in Nat \ {0}
      BY <3>1, SlotSets, FS_EmptySet, WorkerSets
    <3>3. Worker!Cardinality(Worker!Busy(l)) < MaxConcurrent
      <4>1. /\ activeJobs[l] = Worker!Cardinality(Worker!Busy(l))
            /\ activeJobs[l] \in 0..MaxConcurrent
            /\ activeJobs[l] + Worker!Cardinality(fetched[l]) <= MaxConcurrent
        BY <3>1 DEF Worker!TypeOK
      <4>2. QED
        BY <3>2, <4>1
    <3>4. Worker!Busy(l) # Worker!Slots
      BY <3>3, SlotSets
    <3>5. QED
      BY <3>4 DEF Worker!Busy
  <2>2. QED
    BY <2>1
<1> DEFINE free == [l \in FetchedBy(j) |-> <<l, CHOOSE s \in Worker!Slots : tasks[l][s] = Worker!Free>>]
           F == {free[l] : l \in FetchedBy(j)}
<1>2. \A l \in FetchedBy(j) : \E s \in Worker!Slots : free[l] = <<l, s>> /\ tasks[l][s] = Worker!Free
  BY <1>1
<1>3. free \in [FetchedBy(j) -> F]
  OBVIOUS
<1> HIDE DEF free
<1>4. F \subseteq TaskPlaces /\ F \cap Claims(j) = {}
  <2>1. \A l \in FetchedBy(j) : l \in Loops
    BY DEF FetchedBy
  <2>2. F \subseteq TaskPlaces
    BY <1>2, <2>1 DEF TaskPlaces
  <2>3. \A at \in Early : [job |-> j, at |-> at] # Worker!Free
    BY FreeIsNoTask DEF Early, Worker!Stages
  <2>4. ASSUME NEW l \in FetchedBy(j), free[l] \in Claims(j) PROVE FALSE
    <3>1. PICK s \in Worker!Slots : free[l] = <<l, s>> /\ tasks[l][s] = Worker!Free
      BY <1>2
    <3>2. free[l][1] = l /\ free[l][2] = s
      BY <3>1
    <3>3. QED
      BY <2>3, <2>4, <3>1, <3>2 DEF Claims
  <2>5. QED
    BY <2>2, <2>4
<1>5. Worker!Cardinality(F) = Worker!Cardinality(FetchedBy(j))
  <2>1. \A l, m \in FetchedBy(j) : free[l] = free[m] => l = m
    BY <1>2
  <2>2. DOMAIN free = FetchedBy(j)
    BY <1>3
  <2>3. Worker!IsInjective(free)
    BY <2>1, <2>2 DEF Worker!IsInjective
  <2>4. free \in Bijection(FetchedBy(j), F)
    BY <1>3, <2>3 DEF Bijection, Injection, IsInjective, Worker!IsInjective, Surjection
  <2>5. ExistsBijection(FetchedBy(j), F)
    BY <2>4 DEF ExistsBijection
  <2>6. IsFiniteSet(FetchedBy(j))
    BY PlaceSets DEF FetchedBy
  <2>7. QED
    BY <2>5, <2>6, FS_Bijection, WorkerSets
<1> HIDE DEF F
<1>6. /\ Claims(j) \in SUBSET TaskPlaces /\ F \in SUBSET TaskPlaces
      /\ Claims(j) \cup F \in SUBSET TaskPlaces
  BY <1>4 DEF Claims
<1>7. /\ IsFiniteSet(F) /\ IsFiniteSet(Claims(j)) /\ Worker!Cardinality(F) \in Nat
      /\ Worker!Cardinality(Claims(j)) \in Nat
      /\ Worker!Cardinality(Claims(j) \cup F) <= Worker!Cardinality(TaskPlaces)
  BY <1>6, PlaceSets
<1>8. Worker!Cardinality(Claims(j) \cup F)
        = Worker!Cardinality(Claims(j)) + Worker!Cardinality(F)
            - Worker!Cardinality(Claims(j) \cap F)
  BY <1>7, FS_Union, WorkerSets
<1>9. Worker!Cardinality(Claims(j) \cap F) = 0
  BY <1>4, FS_EmptySet, WorkerSets
<1>10. QED
  BY <1>5, <1>7, <1>8, <1>9

ClaimFacts ==
  \A j \in Jobs :
    /\ Claims(j) \in SUBSET TaskPlaces /\ FetchedBy(j) \in SUBSET Loops
    /\ Worker!Cardinality(Claims(j)) \in Nat /\ Worker!Cardinality(FetchedBy(j)) \in Nat
    /\ analyses[j] \in Nat
    /\ Worker!Cardinality(Claims(j)) + Worker!Cardinality(FetchedBy(j))
           <= Worker!Cardinality(TaskPlaces)

(* The facts on claims, of a state *)
LEMMA ClaimsAre == Worker!TypeOK => ClaimFacts
BY ClaimTypes, ClaimsFit DEF ClaimFacts

(* and of the next. *)
LEMMA NextClaimsAre == Worker!TypeOK' => ClaimFacts'
BY ClaimsAre, PTL

\* A step keeps the bound of a row if it leaves the row waiting, or adds nothing to the sum.
Lighter(j) ==
  \/ Waiting(j)' /\ analyses'[j] = 0
  \/ /\ ~Waiting(j)'
     /\ analyses'[j] + Worker!Cardinality(Claims(j))' + Worker!Cardinality(FetchedBy(j))'
          <= analyses[j] + Worker!Cardinality(Claims(j)) + Worker!Cardinality(FetchedBy(j))

(* A step that makes no job heavier keeps the invariant. *)
LEMMA LighterKeeps ==
  ASSUME Worker!TypeOK, Worker!TypeOK', ClaimInv, \A j \in Jobs : Lighter(j)
  PROVE  ClaimInv'
<1>1. ASSUME NEW j \in Jobs
      PROVE  /\ Waiting(j)' => analyses'[j] = 0
             /\ analyses'[j] + Worker!Cardinality(Claims(j))' + Worker!Cardinality(FetchedBy(j))'
                  <= Worker!Cardinality(TaskPlaces)
  <2>1. CASE Waiting(j)' /\ analyses'[j] = 0
    <3>1. Worker!Cardinality(Claims(j))' + Worker!Cardinality(FetchedBy(j))'
              <= Worker!Cardinality(TaskPlaces)
      BY NextClaimsAre DEF ClaimFacts
    <3>2. Worker!Cardinality(Claims(j))' \in Nat /\ Worker!Cardinality(FetchedBy(j))' \in Nat
      BY NextClaimsAre DEF ClaimFacts
    <3>3. QED
      BY <2>1, <3>1, <3>2
  <2>2. CASE /\ ~Waiting(j)'
             /\ analyses'[j] + Worker!Cardinality(Claims(j))' + Worker!Cardinality(FetchedBy(j))'
                  <= analyses[j] + Worker!Cardinality(Claims(j)) + Worker!Cardinality(FetchedBy(j))
    <3>1. /\ Worker!Cardinality(Claims(j))' \in Nat /\ Worker!Cardinality(FetchedBy(j))' \in Nat
          /\ analyses'[j] \in Nat
      BY NextClaimsAre DEF ClaimFacts
    <3>2. /\ Worker!Cardinality(Claims(j)) \in Nat /\ Worker!Cardinality(FetchedBy(j)) \in Nat
          /\ analyses[j] \in Nat /\ Worker!Cardinality(TaskPlaces) \in Nat
      BY ClaimTypes, PlaceSets
    <3>3. analyses[j] + Worker!Cardinality(Claims(j)) + Worker!Cardinality(FetchedBy(j))
              <= Worker!Cardinality(TaskPlaces)
      BY DEF ClaimInv
    <3>4. QED
      BY <2>2, <3>1, <3>2, <3>3
  <2>3. QED
    BY <2>1, <2>2 DEF Lighter
<1>2. QED
  BY <1>1 DEF ClaimInv

(* A job whose row, analyses and claims stay or shrink is not heavier. *)
LEMMA SameIsLighter ==
  ASSUME Worker!TypeOK, Worker!TypeOK', ClaimInv, NEW j \in Jobs, row'[j] = row[j],
         analyses'[j] = analyses[j],
         Claims(j)' \subseteq Claims(j), FetchedBy(j)' \subseteq FetchedBy(j)
  PROVE  Lighter(j)
<1>1. CASE Waiting(j)
  BY <1>1 DEF Lighter, Waiting, ClaimInv
<1>2. CASE ~Waiting(j)
  <2>1. Worker!Cardinality(Claims(j)') <= Worker!Cardinality(Claims(j))
        /\ Worker!Cardinality(FetchedBy(j)') <= Worker!Cardinality(FetchedBy(j))
    BY ClaimTypes, PlaceSets
  <2>2. Worker!Cardinality(Claims(j)') \in Nat /\ Worker!Cardinality(FetchedBy(j)') \in Nat
    <3> QED BY NextClaimsAre DEF ClaimFacts
  <2>3. QED
    BY <1>2, <2>1, <2>2, ClaimTypes DEF Lighter, Waiting
<1>3. QED
  BY <1>1, <1>2

(* The step of a job turns a claim into an analysis, or gives it up. *)
LEMMA StepClaims ==
  ASSUME Worker!TypeOK, Worker!TypeOK', ClaimInv, NEW l \in Loops, NEW j \in Jobs, JobStep(l, j),
         NEW k \in Jobs
  PROVE  Lighter(k)
<1>1. PICK s \in Worker!Slots, from \in Worker!Stages, task \in Worker!Task \cup {Worker!Free} :
        /\ Moves(l, s, j, from, task)
        /\ Done(j, from, task) \/ Rejected(j, from, task)
  BY DEF JobStep
<1>2. /\ tasks'[l][s] = task /\ tasks[l][s] = [job |-> j, at |-> from]
      /\ \A m \in Loops, r \in Worker!Slots : <<m, r>> # <<l, s>> => tasks'[m][r] = tasks[m][r]
  <2>1. Moves(l, s, j, from, task)
    BY <1>1
  <2>2. tasks[l][s] = [job |-> j, at |-> from]
    BY <2>1 DEF Moves
  <2>3. QED
    BY <2>1, <2>2, MoveRuns
<1>3. FetchedBy(k)' = FetchedBy(k)
  BY <1>1 DEF FetchedBy, Moves
<1>4. row \in [Jobs -> Statuses] /\ analyses \in [Jobs -> Nat] /\ Early \subseteq Worker!Stages
  BY DEF Worker!TypeOK, Statuses, Early, Worker!Stages
<1>5. \A at \in Early : task = [job |-> k, at |-> at] => k = j /\ from \in Early
  <2>1. \A at \in Early : at \in Worker!Stages /\ at \notin {"analyze", "complete", "fail"}
    BY DEF Early, Worker!Stages
  <2>2. \A to \in {"block", "mark", "analyze", "complete", "fail"} : to \in Worker!Stages
    BY DEF Worker!Stages
  <2>3. \/ from \in Early /\ \E to \in {"block", "mark"} : task = [job |-> j, at |-> to]
        \/ \E to \in {"analyze", "complete", "fail"} : task = [job |-> j, at |-> to]
        \/ task = Worker!Free
    BY <1>1 DEF Done, Rejected, Early
  <2>4. QED
    BY <2>1, <2>2, <2>3, FreeIsNoTask
<1>6. Claims(k)' \subseteq Claims(k)
  <2>1. ASSUME NEW m \in Loops, NEW r \in Worker!Slots, NEW at \in Early,
               tasks'[m][r] = [job |-> k, at |-> at]
        PROVE  <<m, r>> \in Claims(k)
    <3>1. CASE <<m, r>> # <<l, s>>
      BY <1>2, <2>1, <3>1 DEF Claims, TaskPlaces
    <3>2. CASE <<m, r>> = <<l, s>>
      <4>1. m = l /\ r = s
        BY <3>2
      <4>2. k = j /\ from \in Early
        BY <1>2, <1>5, <2>1, <4>1
      <4>3. QED
        BY <1>2, <4>1, <4>2 DEF Claims, TaskPlaces
    <3>3. QED
      BY <3>1, <3>2
  <2>2. ASSUME NEW p \in Claims(k)' PROVE p \in Claims(k)
    <3>1. p \in TaskPlaces /\ \E at \in Early : tasks'[p[1]][p[2]] = [job |-> k, at |-> at]
      BY DEF Claims
    <3>2. <<p[1], p[2]>> \in Claims(k)
      BY <2>1, <3>1, Pairs
    <3>3. QED
      BY <3>1, <3>2, Pairs
  <2>3. QED
    BY <2>2
<1>7. CASE row'[k] = row[k] /\ analyses'[k] = analyses[k]
  BY <1>3, <1>6, <1>7, SameIsLighter
<1>8. CASE ~(row'[k] = row[k] /\ analyses'[k] = analyses[k])
  <2>1. k = j
    BY <1>1, <1>4, <1>8 DEF Done, Rejected
  <2>2. row'[k] \in Worker!Finished \cup {"processing"} /\ ~Waiting(k)'
    <3>1. \E status \in Worker!Finished \cup {"processing"} : row' = [row EXCEPT ![j] = status]
      BY <1>1, <1>4, <1>8, <2>1 DEF Done, Rejected
    <3>2. QED
      BY <1>4, <2>1, <3>1 DEF Waiting, Worker!Finished
  <2>3. /\ Worker!Cardinality(Claims(k)') \in Nat
        /\ Worker!Cardinality(Claims(k)') <= Worker!Cardinality(Claims(k))
        /\ Worker!Cardinality(Claims(k)) \in Nat /\ Worker!Cardinality(FetchedBy(k)) \in Nat
        /\ analyses[k] \in Nat
    <3>1. Worker!Cardinality(Claims(k)') <= Worker!Cardinality(Claims(k))
      BY <1>6, ClaimTypes, PlaceSets
    <3>2. Worker!Cardinality(Claims(k))' \in Nat
      BY NextClaimsAre DEF ClaimFacts
    <3>3. QED
      BY <3>1, <3>2, ClaimTypes
  <2>4. CASE analyses'[k] = analyses[k]
    BY <1>3, <2>2, <2>3, <2>4 DEF Lighter
  <2>5. CASE analyses'[k] # analyses[k]
    <3>1. from = "mark" /\ task = [job |-> j, at |-> "analyze"] /\ analyses'[k] = analyses[k] + 1
      BY <1>1, <1>4, <2>1, <2>5 DEF Done, Rejected
    <3>2. <<l, s>> \in Claims(k)
      BY <1>2, <2>1, <3>1 DEF Claims, TaskPlaces, Early
    <3>3. <<l, s>> \notin Claims(k)'
      <4>1. "analyze" \in Worker!Stages /\ "analyze" \notin Early
        BY DEF Worker!Stages, Early
      <4>2. \A at \in Early : tasks'[l][s] # [job |-> k, at |-> at]
        BY <1>2, <1>4, <2>1, <3>1, <4>1, FreeIsNoTask
      <4>3. QED
        BY <4>2 DEF Claims
    <3>4. Claims(k)' \in SUBSET (Claims(k) \ {<<l, s>>})
      BY <1>6, <3>3
    <3>5. Worker!Cardinality(Claims(k) \ {<<l, s>>}) = Worker!Cardinality(Claims(k)) - 1
          /\ Claims(k) \ {<<l, s>>} \in SUBSET TaskPlaces
      BY <3>2, ClaimTypes, PlaceSets
    <3>6. Worker!Cardinality(Claims(k)') <= Worker!Cardinality(Claims(k)) - 1
      BY <3>4, <3>5, PlaceSets
    <3>7. QED
      BY <1>3, <2>2, <2>3, <3>1, <3>6 DEF Lighter
  <2>6. QED
    BY <2>4, <2>5
<1>9. QED
  BY <1>7, <1>8

(* Starting the fetched jobs turns a batch that has the job into a claim. *)
LEMMA StartClaims ==
  ASSUME Worker!TypeOK, Worker!TypeOK', ClaimInv, NEW l \in Loops, Worker!StartJobs(l),
         NEW k \in Jobs
  PROVE  Lighter(k)
<1>1. PICK slot \in [fetched[l] -> Worker!Slots] :
        /\ \A i, j \in fetched[l] : slot[i] = slot[j] => i = j
        /\ \A j \in fetched[l] : tasks[l][slot[j]] = Worker!Free
        /\ \A m \in Loops : m # l => tasks'[m] = tasks[m]
        /\ \A j \in fetched[l] : tasks'[l][slot[j]] = [job |-> j, at |-> "check"]
        /\ \A s \in Worker!Slots : (\A j \in fetched[l] : slot[j] # s) => tasks'[l][s] = tasks[l][s]
  BY StartsInSlots
<1>2. /\ row' = row /\ analyses' = analyses /\ fetched' = [fetched EXCEPT ![l] = {}]
      /\ fetched \in [Loops -> SUBSET Jobs] /\ fetched[l] \subseteq Jobs
  BY DEF Worker!StartJobs, Worker!TypeOK
<1>3. FetchedBy(k)' = FetchedBy(k) \ {l}
  BY <1>2 DEF FetchedBy
<1>4. ASSUME NEW m \in Loops, NEW s \in Worker!Slots, NEW at \in Early,
             tasks'[m][s] = [job |-> k, at |-> at]
      PROVE  <<m, s>> \in Claims(k) \/ (m = l /\ k \in fetched[l] /\ s = slot[k])
  <2>1. CASE tasks'[m][s] = tasks[m][s]
    BY <1>4, <2>1 DEF Claims, TaskPlaces
  <2>2. CASE tasks'[m][s] # tasks[m][s]
    <3>1. m = l /\ \E j \in fetched[l] : slot[j] = s
      BY <1>1, <2>2
    <3>2. PICK j \in fetched[l] : slot[j] = s
      BY <3>1
    <3>3. tasks'[l][s] = [job |-> j, at |-> "check"] /\ j \in Jobs
      BY <1>1, <1>2, <3>2
    <3>4. j = k
      BY <1>4, <3>1, <3>3
    <3>5. QED
      BY <3>1, <3>2, <3>4
  <2>3. QED
    BY <2>1, <2>2
<1> DEFINE new == IF k \in fetched[l] THEN {<<l, slot[k]>>} ELSE {}
<1>7. ASSUME NEW p \in Claims(k)' PROVE p \in Claims(k) \cup new
  <2>1. p \in TaskPlaces /\ \E at \in Early : tasks'[p[1]][p[2]] = [job |-> k, at |-> at]
    BY DEF Claims
  <2>2. <<p[1], p[2]>> \in Claims(k) \/ (p[1] = l /\ k \in fetched[l] /\ p[2] = slot[k])
    BY <1>4, <2>1, Pairs
  <2>3. QED
    BY <2>1, <2>2, Pairs
<1>5. CASE k \notin fetched[l]
  <2>1. Claims(k)' \subseteq Claims(k)
    BY <1>5, <1>7
  <2>2. QED
    BY <1>2, <1>3, <2>1, SameIsLighter
<1>6. CASE k \in fetched[l]
  <2>1. Claims(k)' \in SUBSET (Claims(k) \cup {<<l, slot[k]>>})
    BY <1>6, <1>7
  <2>2. <<l, slot[k]>> \notin Claims(k) /\ <<l, slot[k]>> \in TaskPlaces
    <3>1. \A at \in Early : [job |-> k, at |-> at] # Worker!Free
      BY FreeIsNoTask DEF Early, Worker!Stages
    <3>2. tasks[l][slot[k]] = Worker!Free /\ slot[k] \in Worker!Slots
      BY <1>1, <1>6
    <3>3. QED
      BY <3>1, <3>2 DEF Claims, TaskPlaces
  <2>3. Worker!Cardinality(Claims(k)') <= Worker!Cardinality(Claims(k)) + 1
    <3>1. Claims(k) \cup {<<l, slot[k]>>} \in SUBSET TaskPlaces
      BY <2>2, ClaimTypes
    <3>2. Worker!Cardinality(Claims(k) \cup {<<l, slot[k]>>}) = Worker!Cardinality(Claims(k)) + 1
      BY <2>2, ClaimTypes, PlaceSets
    <3>3. QED
      BY <2>1, <3>1, <3>2, PlaceSets
  <2>4. Worker!Cardinality(FetchedBy(k)') = Worker!Cardinality(FetchedBy(k)) - 1
    <3>1. l \in FetchedBy(k)
      BY <1>6 DEF FetchedBy
    <3>2. QED
      BY <1>3, <3>1, ClaimTypes, PlaceSets
  <2>5. CASE Waiting(k)
    BY <1>2, <2>5 DEF Lighter, Waiting, ClaimInv
  <2>6. CASE ~Waiting(k)
    <3>1. ~Waiting(k)' /\ analyses'[k] = analyses[k]
      BY <1>2, <2>6 DEF Waiting
    <3>2. Worker!Cardinality(Claims(k))' \in Nat /\ Worker!Cardinality(Claims(k)) \in Nat
          /\ Worker!Cardinality(FetchedBy(k)) \in Nat /\ analyses[k] \in Nat
      BY ClaimTypes, NextClaimsAre DEF ClaimFacts
    <3>3. QED
      BY <2>3, <2>4, <3>1, <3>2 DEF Lighter
  <2>7. QED
    BY <2>5, <2>6
<1>8. QED
  BY <1>5, <1>6

(* Every step keeps the bound on analyses and claims. *)
LEMMA ClaimsKept == Worker!TypeOK /\ ClaimInv /\ [Worker!Next]_(Worker!vars) => ClaimInv'
<1> SUFFICES ASSUME Worker!TypeOK, ClaimInv, [Worker!Next]_(Worker!vars) PROVE ClaimInv'
  OBVIOUS
<1>1. Worker!TypeOK'
  BY JobsNextType
<1>2. ASSUME NEW k \in Jobs PROVE Lighter(k)
  <2>1. ASSUME NEW j \in Jobs, Worker!Insert(j) PROVE Lighter(k)
    <3>1. /\ Claims(k)' = Claims(k) /\ FetchedBy(k)' = FetchedBy(k) /\ analyses' = analyses
          /\ row[j] = "none" /\ row' = [row EXCEPT ![j] = "pending"] /\ row \in [Jobs -> Statuses]
      BY <2>1 DEF Worker!Insert, Claims, FetchedBy, Worker!TypeOK, Statuses
    <3>2. CASE k = j
      BY <3>1, <3>2 DEF Lighter, Waiting, ClaimInv
    <3>3. CASE k # j
      BY <3>1, <3>3, <1>1, SameIsLighter
    <3>4. QED
      BY <3>2, <3>3
  <2>2. ASSUME NEW l \in Loops, Worker!Select(l) PROVE Lighter(k)
    <3>1. PICK S \in SUBSET Worker!Pending : fetched' = [fetched EXCEPT ![l] = S]
      BY <2>2 DEF Worker!Select
    <3>2. /\ Claims(k)' = Claims(k) /\ analyses' = analyses /\ row' = row
          /\ fetched \in [Loops -> SUBSET Jobs]
      BY <2>2 DEF Worker!Select, Claims, Worker!TypeOK
    <3>3. CASE k \in S
      BY <3>2, <3>3 DEF Worker!Pending, Lighter, Waiting, ClaimInv
    <3>4. CASE k \notin S
      <4>1. FetchedBy(k)' \subseteq FetchedBy(k)
        BY <3>1, <3>2, <3>4 DEF FetchedBy
      <4>2. QED
        BY <1>1, <3>2, <4>1, SameIsLighter
    <3>5. QED
      BY <3>3, <3>4
  <2>3. ASSUME NEW l \in Loops, Worker!Stop(l) PROVE Lighter(k)
    <3>1. /\ row' = row /\ analyses' = analyses /\ tasks' = [tasks EXCEPT ![l] = Worker!NoTask]
          /\ fetched' = [fetched EXCEPT ![l] = {}]
          /\ tasks \in [Loops -> [Worker!Slots -> Worker!Task \cup {Worker!Free}]]
          /\ fetched \in [Loops -> SUBSET Jobs]
      BY <2>3 DEF Worker!Stop, Worker!TypeOK
    <3>2. FetchedBy(k)' \subseteq FetchedBy(k)
      BY <3>1 DEF FetchedBy
    <3>3. \A at \in Early : [job |-> k, at |-> at] # Worker!Free
      BY FreeIsNoTask DEF Early, Worker!Stages
    <3>4. \A m \in Loops, s \in Worker!Slots : tasks'[m][s] = IF m = l THEN Worker!Free ELSE tasks[m][s]
      BY <3>1 DEF Worker!NoTask
    <3>5. Claims(k)' \subseteq Claims(k)
      BY <3>3, <3>4 DEF Claims, TaskPlaces
    <3>6. QED
      BY <1>1, <3>1, <3>2, <3>5, SameIsLighter
  <2>4. CASE UNCHANGED Worker!vars
    <3>1. Claims(k)' = Claims(k) /\ FetchedBy(k)' = FetchedBy(k) /\ row' = row
          /\ analyses' = analyses
      BY <2>4 DEF Worker!vars, Claims, FetchedBy
    <3>2. QED
      BY <1>1, <3>1, SameIsLighter
  <2>5. QED
    BY <1>1, <2>1, <2>2, <2>3, <2>4, StartClaims, StepClaims, ProcessSteps, RejectSteps
    DEF Worker!Next
<1>3. QED
  BY <1>1, <1>2, LighterKeeps

(* It holds at the start, as no job is there. *)
LEMMA ClaimsInit == Worker!Init => ClaimInv /\ Worker!RowsInHand
<1> SUFFICES ASSUME Worker!Init PROVE ClaimInv /\ Worker!RowsInHand
  OBVIOUS
<1>1. Worker!TypeOK
  BY JobsInitType
<1>2. \A j \in Jobs : row[j] = "none" /\ analyses[j] = 0
  BY DEF Worker!Init
<1>3. ASSUME NEW j \in Jobs
      PROVE analyses[j] + Worker!Cardinality(Claims(j)) + Worker!Cardinality(FetchedBy(j))
          <= Worker!Cardinality(TaskPlaces)
  BY <1>1, <1>2, ClaimsFit, ClaimTypes
<1>4. QED
  BY <1>2, <1>3 DEF ClaimInv, Worker!RowsInHand

(* A row being processed has a job in hand or was struck, and no job is analysed more
   often than all loops have slots. *)
THEOREM AllJobsAccounted == Worker!Spec => []Worker!JobsAccounted
<1> DEFINE Inv == Worker!TypeOK /\ Worker!RowsInHand /\ ClaimInv
<1>1. Worker!Init => Inv
  BY JobsInitType, ClaimsInit
<1>2. Inv /\ [Worker!Next]_(Worker!vars) => Inv'
  BY JobsNextType, JobsInHand, ClaimsKept
<1>3. Inv => Worker!JobsAccounted
  <2> SUFFICES ASSUME Inv, NEW j \in Jobs
               PROVE  /\ Worker!RowsInHand
                      /\ analyses[j] <= Worker!Cardinality(Loops) * MaxConcurrent
    BY DEF Worker!JobsAccounted, Worker!AnalysedOncePerSlot
  <2>1. /\ Worker!Cardinality(Claims(j)) \in Nat /\ Worker!Cardinality(FetchedBy(j)) \in Nat
        /\ analyses[j] \in Nat /\ Worker!Cardinality(TaskPlaces) \in Nat
        /\ Worker!Cardinality(TaskPlaces) = Worker!Cardinality(Loops) * MaxConcurrent
    BY ClaimTypes, PlaceSets
  <2>2. analyses[j] <= Worker!Cardinality(TaskPlaces)
    BY <2>1 DEF ClaimInv
  <2>3. QED
    BY <2>1, <2>2
<1>4. QED
  BY <1>1, <1>2, <1>3, PTL DEF Worker!Spec
=============================================================================
