-------------------------- MODULE SmallPartsProofs ---------------------------
(***************************************************************************)
(* Proofs about the circuit breaker, the HTTP client, the analysis budget  *)
(* and the webhook intake, for any finite sets of calls and handlers, any  *)
(* requests and any limits; and what the sum of all the parts keeps.       *)
(***************************************************************************)
EXTENDS WorkPartsProofs

USE CircuitAssumption, PartsAssumption

(* The counters of the record against the outcomes in a row: in a closed circuit the   *)
(* two counts of failures agree, and the successes counted are all in the last row.    *)
Counted ==
  /\ state = "closed" => failures = lost
  /\ successes <= won

CircuitInv == TypeOK /\ NoLeftoverSuccesses /\ Counted

(* A counter that is counted up to a limit stays a number within it. *)
LEMMA UpToType ==
  ASSUME NEW limit \in Nat, NEW n \in 0..limit
  PROVE  UpTo(n, limit) \in 0..limit
  BY DEF UpTo

(* The invariant holds of a new record. *)
LEMMA CircuitInit == Init => CircuitInv
  BY DEF Init, CircuitInv, TypeOK, States, NoLeftoverSuccesses, Counted

(* What every step does to the record keeps the invariant, and a step that opens or    *)
(* closes the circuit has the row of outcomes to show for it.                          *)
Justified ==
  /\ (state = "closed" /\ state' = "open") => lost' = Threshold
  /\ (state # "closed" /\ state' = "closed") => won' = SuccessThreshold

(* canExecute keeps the invariant: the circuit it half opens has counted no success. *)
LEMMA BeginStep ==
  ASSUME CircuitInv, NEW c \in Calls, Begin(c)
  PROVE  CircuitInv' /\ Justified
<1>1. TypeOK'
  BY DEF CircuitInv, TypeOK, States, Begin, history
<1>2. NoLeftoverSuccesses' /\ Counted' /\ Justified
  BY DEF CircuitInv, TypeOK, States, NoLeftoverSuccesses, Counted, Justified, Begin, history
<1> QED BY <1>1, <1>2 DEF CircuitInv

(* recordSuccess keeps the invariant and closes the circuit only when it is due. *)
LEMMA SucceedStep ==
  ASSUME CircuitInv, NEW c \in Calls, Succeed(c)
  PROVE  CircuitInv' /\ Justified
<1>1. won' \in 0..SuccessThreshold /\ won' = UpTo(won, SuccessThreshold) /\ lost' = 0
  BY UpToType DEF CircuitInv, TypeOK, Succeed
<1>2. CASE state # "half-open"
  <2>1. TypeOK'
    BY <1>1, <1>2 DEF CircuitInv, TypeOK, Succeed
  <2>2. NoLeftoverSuccesses' /\ Counted' /\ Justified
    BY <1>1, <1>2
    DEF CircuitInv, TypeOK, NoLeftoverSuccesses, Counted, Justified, Succeed, UpTo
  <2> QED BY <2>1, <2>2 DEF CircuitInv
<1>3. CASE state = "half-open" /\ successes + 1 >= SuccessThreshold
  <2>1. TypeOK'
    BY <1>1, <1>3 DEF CircuitInv, TypeOK, States, Succeed
  <2>2. NoLeftoverSuccesses' /\ Counted' /\ Justified
    BY <1>1, <1>3
    DEF CircuitInv, TypeOK, NoLeftoverSuccesses, Counted, Justified, Succeed, UpTo
  <2> QED BY <2>1, <2>2 DEF CircuitInv
<1>4. CASE state = "half-open" /\ ~(successes + 1 >= SuccessThreshold)
  <2>1. TypeOK'
    BY <1>1, <1>4 DEF CircuitInv, TypeOK, States, Succeed
  <2>2. NoLeftoverSuccesses' /\ Counted' /\ Justified
    BY <1>1, <1>4
    DEF CircuitInv, TypeOK, NoLeftoverSuccesses, Counted, Justified, Succeed, UpTo
  <2> QED BY <2>1, <2>2 DEF CircuitInv
<1> QED BY <1>2, <1>3, <1>4

(* recordFailure keeps the invariant and opens the circuit only when it is due. *)
LEMMA FailStep ==
  ASSUME CircuitInv, NEW c \in Calls, Fail(c)
  PROVE  CircuitInv' /\ Justified
<1>1. /\ lost' \in 0..Threshold /\ lost' = UpTo(lost, Threshold) /\ won' = 0
      /\ failures' \in 0..Threshold /\ failures' = UpTo(failures, Threshold)
  BY UpToType DEF CircuitInv, TypeOK, Fail
<1>2. TypeOK'
  <2>1. state' \in States
    BY DEF CircuitInv, TypeOK, States, Fail
  <2>2. successes' \in 0..(SuccessThreshold - 1) /\ won' \in 0..SuccessThreshold
    BY <1>1 DEF Fail
  <2>3. elapsed' \in BOOLEAN /\ running' \subseteq Calls /\ healthy' \in BOOLEAN
    BY DEF CircuitInv, TypeOK, Fail
  <2> QED BY <1>1, <2>1, <2>2, <2>3 DEF TypeOK
<1>3. NoLeftoverSuccesses' /\ Counted' /\ Justified
  BY <1>1 DEF CircuitInv, TypeOK, States, NoLeftoverSuccesses, Counted, Justified, Fail
<1> QED BY <1>2, <1>3 DEF CircuitInv

(* Every step keeps the invariant and justifies what it does to the state. *)
LEMMA CircuitNext == CircuitInv /\ [Next]_vars => CircuitInv' /\ Justified
<1> SUFFICES ASSUME CircuitInv, [Next]_vars PROVE CircuitInv' /\ Justified OBVIOUS
<1>1. ASSUME NEW c \in Calls, Begin(c) PROVE CircuitInv' /\ Justified
  BY <1>1, BeginStep
<1>2. ASSUME NEW c \in Calls, Finish(c) PROVE CircuitInv' /\ Justified
  BY <1>2, SucceedStep, FailStep DEF Finish
<1>3. CASE Evict
  BY <1>3
  DEF CircuitInv, TypeOK, States, NoLeftoverSuccesses, Counted, Justified, Evict, history
<1>4. CASE Elapse
  BY <1>4 DEF CircuitInv, TypeOK, NoLeftoverSuccesses, Counted, Justified, Elapse, history
<1>5. CASE Recover \/ Break
  BY <1>5
  DEF CircuitInv, TypeOK, NoLeftoverSuccesses, Counted, Justified, Recover, Break, record, history
<1>6. CASE UNCHANGED vars
  BY <1>6 DEF CircuitInv, TypeOK, NoLeftoverSuccesses, Counted, Justified, vars, record, history
<1> QED BY <1>1, <1>2, <1>3, <1>4, <1>5, <1>6 DEF Next

(* The record stays in its type, whatever the order in which calls end. *)
THEOREM CircuitTypeCorrect == Spec => []TypeOK
<1>1. CircuitInv => TypeOK BY DEF CircuitInv
<1> QED BY <1>1, CircuitInit, CircuitNext, PTL DEF Spec

(* No half-open period begins with the successes of an earlier one. *)
THEOREM SuccessesAreFresh == Spec => []NoLeftoverSuccesses
<1>1. CircuitInv => NoLeftoverSuccesses BY DEF CircuitInv
<1> QED BY <1>1, CircuitInit, CircuitNext, PTL DEF Spec

(* A closed circuit opens only on Threshold failures in a row. *)
THEOREM OpeningJustified == Spec => OpensAfterThreshold
<1>1. CircuitInv /\ [Next]_vars => [(state = "closed" /\ state' = "open") => lost' = Threshold]_vars
  BY CircuitNext DEF Justified
<1> QED BY <1>1, CircuitInit, CircuitNext, PTL DEF Spec, OpensAfterThreshold

(* A circuit closes only on SuccessThreshold successes in a row. *)
THEOREM ClosingJustified == Spec => ClosesWhenEarned
<1>1. CircuitInv /\ [Next]_vars
      => [(state # "closed" /\ state' = "closed") => won' = SuccessThreshold]_vars
  BY CircuitNext DEF Justified
<1> QED BY <1>1, CircuitInit, CircuitNext, PTL DEF Spec, ClosesWhenEarned

(* What the run checks: whatever calls overlap, the circuit opens and closes only on
   outcomes recorded in a row. *)
THEOREM TransitionsJustified == Spec => TransitionsEarned
<1>1. Spec => OpensAfterThreshold BY OpeningJustified
<1>2. Spec => ClosesWhenEarned BY ClosingJustified
<1> QED BY <1>1, <1>2 DEF TransitionsEarned
-----------------------------------------------------------------------------
(***************************************************************************)
(* HTTP client: types. An open circuit has counted up to the threshold.    *)
(***************************************************************************)
LEMMA RequestStates == Client!Idle \in Client!RequestState /\ Client!First \in Client!RequestState
BY DEF Client!Idle, Client!First, Client!RequestState

(* The types hold at the start. *)
LEMMA ClientInitType == Client!Init => Client!TypeOK
<1> SUFFICES ASSUME Client!Init PROVE Client!TypeOK
  OBVIOUS
<1>2. request \in [Requests -> Client!RequestState] /\ clientFailures \in 0..Threshold
  BY RequestStates DEF Client!Init
<1>3. isOpen \in BOOLEAN /\ clientElapsed \in BOOLEAN /\ up \in BOOLEAN /\ ~isOpen
  BY Zenon DEF Client!Init
<1>4. QED
  BY <1>2, <1>3 DEF Client!TypeOK

(* A recorded failure keeps the types. *)
LEMMA RecordType ==
  ASSUME Client!TypeOK, NEW r \in Requests, Client!RecordFailure(r), UNCHANGED up
  PROVE  Client!TypeOK'
<1>1. request' \in [Requests -> Client!RequestState]
  BY RequestStates DEF Client!RecordFailure, Client!End, Client!TypeOK
<1>2. /\ clientFailures \in 0..Threshold /\ (isOpen => clientFailures = Threshold)
      /\ isOpen \in BOOLEAN /\ up \in BOOLEAN
  BY DEF Client!TypeOK
<1>3. /\ clientFailures' \in 0..Threshold /\ clientFailures <= clientFailures'
      /\ clientFailures' >= Threshold => clientFailures' = Threshold
  BY <1>2 DEF Client!RecordFailure
<1>4. isOpen' => clientFailures' = Threshold
  BY <1>2, <1>3 DEF Client!RecordFailure
<1>5. isOpen' \in BOOLEAN /\ clientElapsed' \in BOOLEAN
  BY Zenon DEF Client!RecordFailure
<1>6. QED
  BY <1>1, <1>2, <1>3, <1>4, <1>5 DEF Client!TypeOK

(* An attempt keeps the types. *)
LEMMA TryType ==
  ASSUME Client!TypeOK, NEW r \in Requests, Client!Try(r)
  PROVE  Client!TypeOK'
<1>1. CASE Client!Succeed(r)
  <2>1. request' \in [Requests -> Client!RequestState]
    BY <1>1, RequestStates DEF Client!Succeed, Client!End, Client!TypeOK
  <2>2. /\ clientFailures' \in 0..Threshold /\ isOpen' = FALSE
        /\ clientElapsed' = clientElapsed /\ up' = up
    BY <1>1 DEF Client!Succeed
  <2>3. isOpen' \in BOOLEAN /\ ~isOpen'
    BY <2>2, Zenon
  <2>4. QED
    BY <2>1, <2>2, <2>3 DEF Client!TypeOK
<1>2. ASSUME NEW error \in Client!Errors, Client!Attempt(r, error) PROVE Client!TypeOK'
  <2>1. CASE Client!Retryable(r, error)
    <3>1. request[r] \in Client!RequestState /\ request[r].attempt <= MaxRetries
      BY <2>1 DEF Client!TypeOK, Client!Retryable
    <3>2. [attempt |-> request[r].attempt + 1, again |-> error = "status"] \in Client!RequestState
      BY <3>1 DEF Client!RequestState
    <3>3. /\ request' = [request EXCEPT ![r] = [attempt |-> request[r].attempt + 1,
                                                again |-> error = "status"]]
          /\ UNCHANGED <<isOpen, clientFailures, clientElapsed, up>>
      BY <1>2, <2>1 DEF Client!Attempt, Client!circuit
    <3>4. QED
      BY <3>2, <3>3 DEF Client!TypeOK
  <2>2. CASE ~Client!Retryable(r, error)
    BY <1>2, <2>2, RecordType DEF Client!Attempt
  <2>3. QED
    BY <2>1, <2>2
<1>3. QED
  BY <1>1, <1>2 DEF Client!Try

(* Every step keeps the types. *)
LEMMA ClientNextType == Client!TypeOK /\ [Client!Next]_(Client!vars) => Client!TypeOK'
<1> SUFFICES ASSUME Client!TypeOK, [Client!Next]_(Client!vars) PROVE Client!TypeOK'
  OBVIOUS
<1>1. ASSUME NEW r \in Requests, Client!Begin(r) PROVE Client!TypeOK'
  <2>1. request' \in [Requests -> Client!RequestState]
    BY <1>1, RequestStates DEF Client!Begin, Client!TypeOK
  <2>2. UNCHANGED <<clientFailures, clientElapsed, up>> /\ isOpen' = FALSE
    BY <1>1 DEF Client!Begin
  <2>3. isOpen' \in BOOLEAN /\ ~isOpen'
    BY <2>2, Zenon
  <2>4. QED
    BY <2>1, <2>2, <2>3 DEF Client!TypeOK
<1>2. CASE Client!Elapse
  BY <1>2 DEF Client!Elapse, Client!TypeOK
<1>3. CASE Client!Change
  BY <1>3 DEF Client!Change, Client!circuit, Client!TypeOK
<1>4. CASE UNCHANGED Client!vars
  BY <1>4 DEF Client!vars, Client!TypeOK
<1>5. QED
  BY <1>1, <1>2, <1>3, <1>4, TryType DEF Client!Next
-----------------------------------------------------------------------------
(* The instance's Cardinality is that of FiniteSets. *)
LEMMA BudgetSets == \A S : Budget!Cardinality(S) = Cardinality(S)
  BY Zenon DEF Budget!Cardinality, Cardinality

Awaits == {"idle", "analyse", "increment", "expire"}
NumAt(where) == Budget!Cardinality(Budget!At(where))

(***************************************************************************)
(* The invariant. An analysis that succeeded is in the counter, is about   *)
(* to be counted, or was lost to a failed command; the analyses made and   *)
(* under way exceed the limit by the calls that overlap, but one, and by   *)
(* the failed commands.                                                    *)
(***************************************************************************)
AllCounted == analysed <= count + NumAt("increment") + budgetFaults

Overrun == analysed + NumAt("analyse") + 1
    <= AnalysisLimit + Budget!Cardinality(Calls) + budgetFaults

BudgetInv == Budget!TypeOK /\ AllCounted /\ Overrun /\ Budget!CounterExpires

-----------------------------------------------------------------------------
(* Two sets of calls that share none hold no more calls than there are. *)
LEMMA DisjointCalls ==
  ASSUME NEW S \in SUBSET Calls, NEW T \in SUBSET Calls, S \cap T = {}
  PROVE  Budget!Cardinality(S) + Budget!Cardinality(T) <= Budget!Cardinality(Calls)
<1>1. /\ IsFiniteSet(S) /\ IsFiniteSet(T) /\ Budget!Cardinality(S) \in Nat
      /\ Budget!Cardinality(T) \in Nat
  BY FS_Subset, FS_CardinalityType, BudgetSets
<1>2. Budget!Cardinality(S \cup T) = Budget!Cardinality(S) + Budget!Cardinality(T)
          - Budget!Cardinality(S \cap T)
  BY <1>1, FS_Union, BudgetSets
<1>3. Budget!Cardinality(S \cap T) = 0 BY FS_EmptySet, BudgetSets
<1>4. Budget!Cardinality(S \cup T) <= Budget!Cardinality(Calls)
  BY FS_Subset, BudgetSets
<1> QED BY <1>1, <1>2, <1>3, <1>4

(* The calls at an await are finitely many. *)
LEMMA CallsAt ==
  /\ Budget!Cardinality(Calls) \in Nat \ {0}
         /\ \A w \in Awaits : IsFiniteSet(Budget!At(w)) /\ NumAt(w) \in Nat
<1>1. Budget!Cardinality(Calls) \in Nat /\ Budget!Cardinality(Calls) # 0
  BY FS_CardinalityType, FS_EmptySet, BudgetSets
<1>2. ASSUME NEW w \in Awaits PROVE IsFiniteSet(Budget!At(w)) /\ NumAt(w) \in Nat
  <2>1. Budget!At(w) \subseteq Calls BY DEF Budget!At
  <2> QED BY <2>1, FS_Subset, FS_CardinalityType, BudgetSets DEF NumAt
<1> QED BY <1>1, <1>2

(* A call that moves leaves one await and is at the next. *)
LEMMA CallMoves ==
  ASSUME call \in [Calls -> Awaits], NEW c \in Calls,
         NEW from \in Awaits, NEW to \in Awaits, from # to, Budget!Goto(c, from, to)
  PROVE  /\ call' \in [Calls -> Awaits]
         /\ NumAt(from)' = NumAt(from) - 1
         /\ NumAt(to)' = NumAt(to) + 1
         /\ \A w \in Awaits \ {from, to} : Budget!At(w)' = Budget!At(w) /\ NumAt(w)' = NumAt(w)
         /\ c \in Budget!At(to)'
<1>1. call' \in [Calls -> Awaits] /\ call[c] = from /\ call' = [call EXCEPT ![c] = to]
  BY DEF Budget!Goto
<1>2. Budget!At(from)' = Budget!At(from) \ {c} /\ c \in Budget!At(from)
  BY <1>1 DEF Budget!At
<1>3. Budget!At(to)' = Budget!At(to) \cup {c} /\ c \notin Budget!At(to)
  BY <1>1 DEF Budget!At
<1>4. \A w \in Awaits \ {from, to} : Budget!At(w)' = Budget!At(w)
  BY <1>1 DEF Budget!At
<1>5. IsFiniteSet(Budget!At(from)) /\ IsFiniteSet(Budget!At(to))
  BY CallsAt
<1>6. Budget!Cardinality(Budget!At(from)') = Budget!Cardinality(Budget!At(from)) - 1
  BY <1>2, <1>5, FS_RemoveElement, BudgetSets
<1>7. Budget!Cardinality(Budget!At(to)') = Budget!Cardinality(Budget!At(to)) + 1
  BY <1>3, <1>5, FS_AddElement, BudgetSets
<1> QED BY <1>1, <1>3, <1>4, <1>6, <1>7 DEF NumAt

-----------------------------------------------------------------------------
(* Each action keeps the invariant. *)
LEMMA BudgetInit == Budget!Init => BudgetInv
<1> SUFFICES ASSUME Budget!Init PROVE BudgetInv OBVIOUS
<1>1. Budget!At("analyse") = {} /\ Budget!At("increment") = {} BY DEF Budget!Init, Budget!At
<1>2. NumAt("analyse") = 0 /\ NumAt("increment") = 0
  BY <1>1, FS_EmptySet, BudgetSets DEF NumAt
<1>3. Budget!Cardinality(Calls) \in Nat \ {0} BY CallsAt
<1>4. Budget!TypeOK
  <2>1. ttl \in BOOLEAN BY DEF Budget!Init
  <2>2. count \in Nat /\ analysed \in Nat /\ budgetFaults \in 0..MaxFaults
    BY DEF Budget!Init
  <2>3. call \in [Calls -> {"idle", "analyse", "increment", "expire"}]
    BY DEF Budget!Init
  <2> QED BY <2>1, <2>2, <2>3 DEF Budget!TypeOK
<1>5. AllCounted BY <1>2 DEF Budget!Init, AllCounted
<1>6. Overrun BY <1>2, <1>3 DEF Budget!Init, Overrun
<1>7. Budget!CounterExpires BY DEF Budget!Init, Budget!CounterExpires
<1> QED BY <1>4, <1>5, <1>6, <1>7 DEF BudgetInv

(* A check that passes read a counter below the limit; what the counter lacks is about to be
   counted by calls that are not analysing, or was paid for by a fault. *)
LEMMA CheckInv ==
  ASSUME BudgetInv, NEW c \in Calls, Budget!Check(c)
  PROVE  BudgetInv'
<1>1. call \in [Calls -> Awaits] /\ "idle" \in Awaits /\ "analyse" \in Awaits
  BY DEF BudgetInv, Budget!TypeOK, Awaits
<1>2. /\ call' \in [Calls -> Awaits]
      /\ NumAt("analyse")' = NumAt("analyse") + 1
      /\ NumAt("increment")' = NumAt("increment")
      /\ Budget!At("expire")' = Budget!At("expire")
  BY <1>1, CallMoves DEF Budget!Check, Awaits
<1>3. UNCHANGED <<count, ttl, analysed>>
      /\ \/ count < AnalysisLimit /\ budgetFaults' = budgetFaults
         \/ budgetFaults < MaxFaults /\ budgetFaults' = budgetFaults + 1
  BY DEF Budget!Check, Budget!Fault
<1>4. Budget!TypeOK' BY <1>2, <1>3 DEF BudgetInv, Budget!TypeOK, Awaits
<1>5. /\ NumAt("analyse") \in Nat /\ NumAt("increment") \in Nat
      /\ Budget!Cardinality(Calls) \in Nat /\ count \in Nat /\ analysed \in Nat
      /\ budgetFaults \in Nat
      /\ AnalysisLimit \in Nat
  BY CallsAt DEF BudgetInv, Budget!TypeOK, Awaits
<1>6. AllCounted' BY <1>2, <1>3, <1>5 DEF BudgetInv, AllCounted
<1>7. NumAt("analyse")' + NumAt("increment")' <= Budget!Cardinality(Calls)
  <2>1. Budget!At("analyse")' \cap Budget!At("increment")' = {}
        /\ Budget!At("analyse")' \cup Budget!At("increment")' \subseteq Calls
    BY DEF Budget!At
  <2>2. Budget!Cardinality(Budget!At("analyse")') + Budget!Cardinality(Budget!At("increment")')
            <= Budget!Cardinality(Calls)
    BY <2>1, DisjointCalls
  <2> QED BY <2>2 DEF NumAt
<1>8. Overrun' BY <1>2, <1>3, <1>5, <1>7 DEF BudgetInv, AllCounted, Overrun
<1>9. Budget!CounterExpires' BY <1>2, <1>3, <1>5 DEF BudgetInv, Budget!CounterExpires
<1> QED BY <1>4, <1>6, <1>8, <1>9 DEF BudgetInv

(* An analysis that succeeded is about to be counted. *)
LEMMA AnalyseInv ==
  ASSUME BudgetInv, NEW c \in Calls, Budget!Analyse(c)
  PROVE  BudgetInv'
<1>1. call \in [Calls -> Awaits] BY DEF BudgetInv, Budget!TypeOK, Awaits
<1>2. UNCHANGED <<count, ttl, budgetFaults>> BY DEF Budget!Analyse
<1>3. /\ NumAt("analyse") \in Nat /\ NumAt("increment") \in Nat
      /\ Budget!Cardinality(Calls) \in Nat /\ count \in Nat /\ analysed \in Nat
      /\ budgetFaults \in Nat
      /\ AnalysisLimit \in Nat
  BY CallsAt DEF BudgetInv, Budget!TypeOK, Awaits
<1>4. \/ /\ NumAt("increment")' = NumAt("increment") + 1 /\ analysed' = analysed + 1
      \/ /\ NumAt("increment")' = NumAt("increment") /\ UNCHANGED analysed
  BY <1>1, CallMoves DEF Budget!Analyse, Awaits
<1>5. /\ call' \in [Calls -> Awaits]
      /\ NumAt("analyse")' = NumAt("analyse") - 1
      /\ Budget!At("expire")' = Budget!At("expire")
  BY <1>1, CallMoves DEF Budget!Analyse, Awaits
<1>6. Budget!TypeOK' BY <1>2, <1>3, <1>4, <1>5 DEF BudgetInv, Budget!TypeOK, Awaits
<1>7. AllCounted' /\ Overrun' BY <1>2, <1>3, <1>4, <1>5 DEF BudgetInv, AllCounted, Overrun
<1>8. Budget!CounterExpires' BY <1>2, <1>5 DEF BudgetInv, Budget!CounterExpires
<1> QED BY <1>6, <1>7, <1>8 DEF BudgetInv

(* A counter that is incremented catches up; the first to count is to set its expiry. *)
LEMMA IncrementInv ==
  ASSUME BudgetInv, NEW c \in Calls, Budget!Increment(c)
  PROVE  BudgetInv'
<1>1. call \in [Calls -> Awaits] BY DEF BudgetInv, Budget!TypeOK, Awaits
<1>2. UNCHANGED <<ttl, analysed>> BY DEF Budget!Increment
<1>3. /\ NumAt("analyse") \in Nat /\ NumAt("increment") \in Nat
      /\ Budget!Cardinality(Calls) \in Nat /\ count \in Nat /\ analysed \in Nat
      /\ budgetFaults \in Nat
      /\ AnalysisLimit \in Nat
  BY CallsAt DEF BudgetInv, Budget!TypeOK, Awaits
<1>4. PICK to \in {"expire", "idle"} :
        /\ Budget!Goto(c, "increment", to)
        /\ \/ count' = count + 1 /\ UNCHANGED budgetFaults /\ (count = 0 => to = "expire")
           \/ /\ budgetFaults < MaxFaults /\ budgetFaults' = budgetFaults + 1
              /\ count' \in {count, count + 1}
              /\ to = "idle"
        /\ (to = "expire" => count = 0)
  BY DEF Budget!Increment, Budget!Fault
<1>5. /\ call' \in [Calls -> Awaits]
      /\ NumAt("increment")' = NumAt("increment") - 1
      /\ NumAt("analyse")' = NumAt("analyse")
      /\ to = "expire" => c \in Budget!At("expire")'
      /\ to = "idle" => Budget!At("expire")' = Budget!At("expire")
  BY <1>1, <1>4, CallMoves DEF Awaits
<1>6. Budget!TypeOK' BY <1>2, <1>3, <1>4, <1>5 DEF BudgetInv, Budget!TypeOK, Awaits
<1>7. AllCounted' /\ Overrun' BY <1>2, <1>3, <1>4, <1>5 DEF BudgetInv, AllCounted, Overrun
<1>8. Budget!CounterExpires' BY <1>2, <1>3, <1>4, <1>5 DEF BudgetInv, Budget!CounterExpires
<1> QED BY <1>6, <1>7, <1>8 DEF BudgetInv

(* The expiry is set, or a fault left the counter without. *)
LEMMA ExpireInv ==
  ASSUME BudgetInv, NEW c \in Calls, Budget!Expire(c)
  PROVE  BudgetInv'
<1>1. call \in [Calls -> Awaits] BY DEF BudgetInv, Budget!TypeOK, Awaits
<1>2. /\ count' = count /\ analysed' = analysed
      /\ \/ budgetFaults' = budgetFaults
         \/ budgetFaults < MaxFaults /\ budgetFaults' = budgetFaults + 1
  BY DEF Budget!Expire, Budget!Fault
<1>3. ttl' \in BOOLEAN /\ (ttl' \/ budgetFaults' = budgetFaults + 1)
  BY DEF Budget!Expire, Budget!Fault, BudgetInv, Budget!TypeOK
<1>4. /\ NumAt("analyse") \in Nat /\ NumAt("increment") \in Nat
      /\ Budget!Cardinality(Calls) \in Nat /\ count \in Nat /\ analysed \in Nat
      /\ budgetFaults \in Nat
      /\ AnalysisLimit \in Nat
  BY CallsAt DEF BudgetInv, Budget!TypeOK, Awaits
<1>5. /\ call' \in [Calls -> Awaits]
      /\ NumAt("analyse")' = NumAt("analyse")
      /\ NumAt("increment")' = NumAt("increment")
  BY <1>1, CallMoves DEF Budget!Expire, Awaits
<1>6. Budget!TypeOK' BY <1>2, <1>4, <1>5, <1>3 DEF BudgetInv, Budget!TypeOK, Awaits
<1>7. AllCounted' /\ Overrun' BY <1>2, <1>4, <1>5 DEF BudgetInv, AllCounted, Overrun
<1>8. Budget!CounterExpires'
  <2>1. CASE ttl' BY <2>1 DEF Budget!CounterExpires
  <2>2. CASE budgetFaults' = budgetFaults + 1
    <3>1. budgetFaults' > 0 BY <2>2, <1>4
    <3> QED BY <3>1 DEF Budget!CounterExpires
  <2> QED BY <1>3, <2>1, <2>2
<1> QED BY <1>6, <1>7, <1>8 DEF BudgetInv

(* Every step keeps the invariant. *)
LEMMA BudgetNext ==
  ASSUME BudgetInv, [Budget!Next]_(Budget!vars)
  PROVE  BudgetInv'
<1>1. CASE UNCHANGED Budget!vars
  BY <1>1
  DEF Budget!vars, BudgetInv, Budget!TypeOK, AllCounted, Overrun,
      Budget!CounterExpires, NumAt, Budget!At
<1> QED BY <1>1, CheckInv, AnalyseInv, IncrementInv, ExpireInv DEF Budget!Next

(* The analyses of a day exceed the limit by no more than the calls that overlap, but one,
   and one per failed command; and the counter expires unless a command failed. *)
THEOREM OverrunIsBounded == Budget!Spec => []Budget!QuotaSound
<1>1. BudgetInv => Budget!QuotaSound
  <2> SUFFICES ASSUME BudgetInv PROVE Budget!QuotaSound OBVIOUS
  <2>1. /\ NumAt("analyse") \in Nat /\ Budget!Cardinality(Calls) \in Nat /\ analysed \in Nat
        /\ budgetFaults \in Nat /\ AnalysisLimit \in Nat
    BY CallsAt DEF BudgetInv, Budget!TypeOK, Awaits
  <2> QED BY <2>1 DEF BudgetInv, Overrun, Budget!QuotaSound, Budget!OverrunBounded
<1> QED BY <1>1, BudgetInit, BudgetNext, PTL DEF Budget!Spec
-----------------------------------------------------------------------------
(* The instance's Cardinality is that of FiniteSets. *)
LEMMA IntakeSets == \A S : Intake!Cardinality(S) = Cardinality(S)
  BY Zenon DEF Intake!Cardinality, Cardinality

(***************************************************************************)
(* Webhook intake: types. An attempt that is answered has writes to do.    *)
(***************************************************************************)
AttemptPlaces == {"idle", "key", "activity", "handle", "mark", "answered"}
AttemptState == [at : AttemptPlaces, writes : SUBSET Intake!Writes]

\* Attempts before the end of their handler.
Open == {h \in Handlers : attempt[h].at \in {"key", "activity", "handle"}}
Room == handled + Intake!Cardinality(Open) <= received
Shape ==
  \A h \in Handlers :
    /\ attempt[h].writes # {} <=> attempt[h].at = "answered"
    /\ attempt[h].at = "mark" => source = "deploy"
    /\ attempt[h].at = "activity" => source # "deploy"
    /\ attempt[h].at = "key" => source # "gitlab"
    /\ source = "deploy" => attempt[h].writes = {}

TypeInv == Intake!TypeOK /\ Shape /\ Room

\* What a step of an attempt makes of it.
Becomes(h, at, writes) ==
  /\ at \in AttemptPlaces /\ writes \in SUBSET Intake!Writes
  /\ writes # {} <=> at = "answered"
  /\ attempt' = [attempt EXCEPT ![h] = [at |-> at, writes |-> writes]]

(* An attempt that goes on has no writes to do, *)
LEMMA GotoBecomes ==
  ASSUME NEW h, NEW at \in AttemptPlaces \ {"answered"}, Intake!Goto(h, at)
  PROVE  Becomes(h, at, {})
BY DEF Intake!Goto, Becomes

(* and one that is answered is done when it has none. *)
LEMMA AnswerBecomes ==
  ASSUME NEW h, NEW writes \in SUBSET Intake!Writes, Intake!Answer(h, writes)
  PROVE  Becomes(h, IF writes = {} THEN "idle" ELSE "answered", writes)
BY DEF Intake!Answer, Becomes, Intake!Idle, AttemptPlaces

(* Faults stay within their bound. *)
LEMMA FaultType ==
  ASSUME intakeFaults \in 0..MaxFaults, Intake!Fault \/ UNCHANGED intakeFaults
  PROVE  intakeFaults' \in 0..MaxFaults
BY DEF Intake!Fault

(* An attempt that moves stays an attempt, and the others stay as they are. *)
LEMMA BecomesType ==
  ASSUME Intake!TypeOK, NEW h \in Handlers, NEW at, NEW writes, Becomes(h, at, writes)
  PROVE  /\ attempt' \in [Handlers -> AttemptState]
         /\ attempt'[h].at = at /\ attempt'[h].writes = writes
         /\ \A g \in Handlers : g # h => attempt'[g] = attempt[g]
BY DEF Intake!TypeOK, Becomes, AttemptState, AttemptPlaces

(* How many attempts a set of them has. *)
LEMMA OpenSets ==
  \A S \in SUBSET Handlers :
    /\ IsFiniteSet(S) /\ Intake!Cardinality(S) \in Nat
    /\ \A h \in Handlers :
         /\ h \notin S => Intake!Cardinality(S \cup {h}) = Intake!Cardinality(S) + 1
         /\ h \in S => Intake!Cardinality(S \ {h}) = Intake!Cardinality(S) - 1
<1> SUFFICES ASSUME NEW S \in SUBSET Handlers
             PROVE  /\ IsFiniteSet(S) /\ Intake!Cardinality(S) \in Nat
                    /\ \A h \in Handlers :
                         /\ h \notin S => Intake!Cardinality(S \cup {h}) = Intake!Cardinality(S) + 1
                         /\ h \in S => Intake!Cardinality(S \ {h}) = Intake!Cardinality(S) - 1
  OBVIOUS
<1>1. IsFiniteSet(S) /\ Intake!Cardinality(S) \in Nat
  BY FS_Subset, FS_CardinalityType, IntakeSets
<1>2. QED
  BY <1>1, FS_AddElement, FS_RemoveElement, IntakeSets

\* Where the step leaves the count of the attempts that may still be handled.
IsOpen(at) == at \in {"key", "activity", "handle"}

(* The attempts not yet answered, counted as one of them moves. *)
LEMMA OpenMoves ==
  ASSUME Intake!TypeOK, NEW h \in Handlers, NEW at, NEW writes, Becomes(h, at, writes)
  PROVE  /\ Intake!Cardinality(Open) \in Nat /\ Intake!Cardinality(Open)' \in Nat
         /\ IsOpen(attempt[h].at) /\ IsOpen(at)
                => Intake!Cardinality(Open)' = Intake!Cardinality(Open)
         /\ ~IsOpen(attempt[h].at) /\ IsOpen(at)
                => Intake!Cardinality(Open)' = Intake!Cardinality(Open) + 1
         /\ IsOpen(attempt[h].at) /\ ~IsOpen(at)
                => Intake!Cardinality(Open)' = Intake!Cardinality(Open) - 1
         /\ ~IsOpen(attempt[h].at) /\ ~IsOpen(at)
                => Intake!Cardinality(Open)' = Intake!Cardinality(Open)
<1>1. /\ attempt'[h].at = at
      /\ \A g \in Handlers : g # h => attempt'[g] = attempt[g]
  BY BecomesType
<1>2. h \in Open <=> IsOpen(attempt[h].at)
  BY DEF Open, IsOpen
<1>3. Open' = IF IsOpen(at) THEN Open \cup {h} ELSE Open \ {h}
  BY <1>1 DEF Open, IsOpen
<1>4. Open \in SUBSET Handlers /\ Open' \in SUBSET Handlers
  BY DEF Open
<1>5. /\ IsOpen(attempt[h].at) /\ IsOpen(at) => Open' = Open
      /\ ~IsOpen(attempt[h].at) /\ ~IsOpen(at) => Open' = Open
  BY <1>2, <1>3
<1>6. QED
  BY <1>2, <1>3, <1>4, <1>5, OpenSets

\* The steps of an attempt, with what the properties ask of them.
Received(h) ==
  /\ attempt[h] = Intake!Idle /\ received < MaxAttempts /\ received' = received + 1
  /\ overlapped' = (overlapped \/ \E g \in Handlers : attempt[g] # Intake!Idle)
  /\ Becomes(h, IF source = "gitlab" THEN "activity" ELSE "key", {})
  /\ UNCHANGED <<marked, activity, intakeFaults, handled, failed, skipped>>
FoundNothing(h) ==
  /\ \/ attempt[h].at = "key" /\ ((~marked /\ UNCHANGED intakeFaults) \/ Intake!Fault)
        /\ Becomes(h, IF source = "github" THEN "activity" ELSE "handle", {})
     \/ attempt[h].at = "activity" /\ ((activity = {} /\ UNCHANGED intakeFaults) \/ Intake!Fault)
        /\ Becomes(h, "handle", {})
  /\ UNCHANGED <<marked, activity, received, handled, failed, skipped, overlapped>>
Skipped(h) ==
  /\ skipped' = TRUE
  /\ \/ attempt[h].at = "key" /\ marked /\ Becomes(h, "idle", {})
     \/ attempt[h].at = "activity" /\ activity # {}
        /\ IF source = "github" THEN Becomes(h, "answered", {"mark"}) ELSE Becomes(h, "idle", {})
  /\ UNCHANGED <<marked, activity, intakeFaults, received, handled, failed, overlapped>>
Handled(h) ==
  /\ attempt[h].at = "handle"
  /\ \/ /\ handled' = handled + 1 /\ UNCHANGED failed
        /\ \/ source = "github" /\ Becomes(h, "answered", {"mark", "processed"})
           \/ source = "gitlab" /\ Becomes(h, "answered", {"processed"})
           \/ source = "deploy" /\ Becomes(h, "mark", {})
     \/ /\ failed' = TRUE /\ UNCHANGED handled
        /\ IF source = "deploy" THEN Becomes(h, "idle", {}) ELSE Becomes(h, "answered", {"failed"})
     \/ /\ UNCHANGED <<failed, handled>> /\ Becomes(h, "idle", {})
  /\ UNCHANGED <<marked, activity, intakeFaults, received, skipped, overlapped>>
Marked(h) ==
  /\ attempt[h].at = "mark" /\ Becomes(h, "idle", {})
  /\ (marked' = TRUE /\ UNCHANGED intakeFaults) \/ (Intake!Fault /\ marked' \in {marked, TRUE})
  /\ UNCHANGED <<activity, received, handled, failed, skipped, overlapped>>
Wrote(h, w) ==
  /\ w \in attempt[h].writes
  /\ \/ marked' = (marked \/ w = "mark") /\ activity' = activity \cup ({w} \ {"mark"})
        /\ UNCHANGED intakeFaults
     \/ Intake!Fault /\ UNCHANGED <<marked, activity>>
  /\ Becomes(h, IF attempt[h].writes = {w} THEN "idle" ELSE "answered", attempt[h].writes \ {w})
  /\ UNCHANGED <<received, handled, failed, skipped, overlapped>>
Crashed(h) ==
  /\ attempt[h] # Intake!Idle /\ Intake!Fault /\ Becomes(h, "idle", {})
  /\ UNCHANGED <<marked, activity, received, handled, failed, skipped, overlapped>>

AttemptStep(h) ==
  \/ Received(h) \/ FoundNothing(h) \/ Skipped(h) \/ Handled(h) \/ Marked(h) \/ Crashed(h)
  \/ \E w \in Intake!Writes : Wrote(h, w)

(* Every step of an attempt is one of these. *)
LEMMA StepCases ==
  ASSUME Intake!TypeOK, NEW h \in Handlers,
         \/ Intake!Receive(h) \/ Intake!FindKey(h) \/ Intake!FindActivity(h) \/ Intake!Refuse(h)
         \/ Intake!Succeed(h) \/ Intake!Fail(h) \/ Intake!Mark(h) \/ Intake!Crash(h)
         \/ \E w \in Intake!Writes : Intake!Write(h, w)
  PROVE  AttemptStep(h) /\ UNCHANGED <<source, forgotten>>
<1>1. /\ "key" \in AttemptPlaces \ {"answered"} /\ "activity" \in AttemptPlaces \ {"answered"}
      /\ "handle" \in AttemptPlaces \ {"answered"} /\ "mark" \in AttemptPlaces \ {"answered"}
      /\ "idle" \in AttemptPlaces \ {"answered"}
  BY DEF AttemptPlaces
<1>2. /\ {} \in SUBSET Intake!Writes /\ {"mark"} \in SUBSET Intake!Writes
      /\ {"processed"} \in SUBSET Intake!Writes
      /\ {"failed"} \in SUBSET Intake!Writes /\ {"mark", "processed"} \in SUBSET Intake!Writes
  BY DEF Intake!Writes
<1>3. source \in {"github", "gitlab", "deploy"} /\ attempt \in [Handlers -> AttemptState]
  BY DEF Intake!TypeOK, AttemptState, AttemptPlaces
<1>4. \A at \in AttemptPlaces \ {"answered"} : Intake!Goto(h, at) => Becomes(h, at, {})
  BY GotoBecomes
<1>5. /\ Intake!Answer(h, {}) => Becomes(h, "idle", {})
      /\ Intake!Answer(h, {"mark"}) => Becomes(h, "answered", {"mark"})
      /\ Intake!Answer(h, {"processed"}) => Becomes(h, "answered", {"processed"})
      /\ Intake!Answer(h, {"failed"}) => Becomes(h, "answered", {"failed"})
      /\ Intake!Answer(h, {"mark", "processed"}) => Becomes(h, "answered", {"mark", "processed"})
  BY <1>2, AnswerBecomes
<1>6. ASSUME Intake!Receive(h) PROVE Received(h) /\ UNCHANGED <<source, forgotten>>
  BY <1>1, <1>4, <1>6 DEF Intake!Receive, Received
<1>7. ASSUME Intake!FindKey(h)
      PROVE (FoundNothing(h) \/ Skipped(h)) /\ UNCHANGED <<source, forgotten>>
  <2>1. UNCHANGED <<source, marked, activity, received, handled, failed, overlapped, forgotten>>
        /\ attempt[h].at = "key"
    BY <1>7 DEF Intake!FindKey
  <2>2. CASE marked /\ Intake!Answer(h, {}) /\ skipped' = TRUE /\ UNCHANGED intakeFaults
    BY <1>5, <2>1, <2>2 DEF Skipped
  <2>3. ASSUME Intake!Goto(h, IF source = "github" THEN "activity" ELSE "handle"),
               (~marked /\ UNCHANGED intakeFaults) \/ Intake!Fault, UNCHANGED skipped
        PROVE  FoundNothing(h)
    BY <1>1, <1>4, <2>1, <2>3 DEF FoundNothing
  <2>4. QED
    BY <1>7, <2>1, <2>2, <2>3 DEF Intake!FindKey
<1>8. ASSUME Intake!FindActivity(h)
      PROVE  (FoundNothing(h) \/ Skipped(h)) /\ UNCHANGED <<source, forgotten>>
  <2>1. UNCHANGED <<source, marked, activity, received, handled, failed, overlapped, forgotten>>
        /\ attempt[h].at = "activity"
    BY <1>8 DEF Intake!FindActivity
  <2>2. CASE activity # {} /\ skipped' = TRUE /\ UNCHANGED intakeFaults
             /\ Intake!Answer(h, IF source = "github" THEN {"mark"} ELSE {})
    BY <1>5, <2>1, <2>2 DEF Skipped
  <2>3. ASSUME Intake!Goto(h, "handle"),
               (activity = {} /\ UNCHANGED intakeFaults) \/ Intake!Fault, UNCHANGED skipped
        PROVE  FoundNothing(h)
    BY <1>1, <1>4, <2>1, <2>3 DEF FoundNothing
  <2>4. QED
    BY <1>8, <2>1, <2>2, <2>3 DEF Intake!FindActivity
<1>9. ASSUME Intake!Refuse(h) PROVE Handled(h) /\ UNCHANGED <<source, forgotten>>
  BY <1>1, <1>4, <1>9 DEF Intake!Refuse, Handled, Intake!history
<1>10. ASSUME Intake!Succeed(h) PROVE Handled(h) /\ UNCHANGED <<source, forgotten>>
  BY <1>1, <1>3, <1>4, <1>5, <1>10 DEF Intake!Succeed, Handled
<1>11. ASSUME Intake!Fail(h) PROVE Handled(h) /\ UNCHANGED <<source, forgotten>>
  BY <1>5, <1>11 DEF Intake!Fail, Handled
<1>12. ASSUME Intake!Mark(h) PROVE Marked(h) /\ UNCHANGED <<source, forgotten>>
  BY <1>1, <1>4, <1>12 DEF Intake!Mark, Marked, Intake!history
<1>13. ASSUME Intake!Crash(h) PROVE Crashed(h) /\ UNCHANGED <<source, forgotten>>
  BY <1>1, <1>4, <1>13 DEF Intake!Crash, Crashed, Intake!history
<1>14. ASSUME NEW w \in Intake!Writes, Intake!Write(h, w)
       PROVE Wrote(h, w) /\ UNCHANGED <<source, forgotten>>
  <2>1. attempt[h].writes \ {w} \in SUBSET Intake!Writes /\ w \in attempt[h].writes
    BY <1>3, <1>14 DEF AttemptState, Intake!Write
  <2>2. Becomes(h, IF attempt[h].writes \ {w} = {} THEN "idle" ELSE "answered",
                attempt[h].writes \ {w})
    BY <1>14, <2>1, AnswerBecomes DEF Intake!Write
  <2>3. (attempt[h].writes \ {w} = {}) <=> (attempt[h].writes = {w})
    BY <2>1
  <2>4. QED
    BY <1>14, <2>2, <2>3 DEF Intake!Write, Wrote, Intake!history
<1>15. QED
  BY <1>6, <1>7, <1>8, <1>9, <1>10, <1>11, <1>12, <1>13, <1>14 DEF AttemptStep

(* A step of an attempt keeps to the awaits of its route. *)
LEMMA StepShape ==
  ASSUME Intake!TypeOK, Shape, NEW h \in Handlers, AttemptStep(h), UNCHANGED source
  PROVE  Shape' /\ attempt' \in [Handlers -> AttemptState]
<1>1. \E at, writes :
        /\ Becomes(h, at, writes)
        /\ at = "mark" => source = "deploy"
        /\ at = "activity" => source # "deploy"
        /\ at = "key" => source # "gitlab"
        /\ source = "deploy" => writes = {}
  <2>1. source \in {"github", "gitlab", "deploy"}
    BY DEF Intake!TypeOK
  <2>2. CASE Received(h)
    BY <2>1, <2>2 DEF Received
  <2>3. CASE FoundNothing(h)
    BY <2>1, <2>3 DEF FoundNothing
  <2>4. CASE Skipped(h)
    BY <2>1, <2>4 DEF Skipped, Shape
  <2>5. CASE Handled(h)
    BY <2>1, <2>5 DEF Handled
  <2>6. CASE Marked(h) \/ Crashed(h)
    BY <2>1, <2>6 DEF Marked, Crashed
  <2>7. ASSUME NEW w \in Intake!Writes, Wrote(h, w)
        PROVE  \E at, writes :
                 /\ Becomes(h, at, writes)
                 /\ at = "mark" => source = "deploy"
                 /\ at = "activity" => source # "deploy"
                 /\ at = "key" => source # "gitlab"
                 /\ source = "deploy" => writes = {}
    <3>1. source # "deploy"
      BY <2>7 DEF Wrote, Shape
    <3>2. QED
      BY <2>7, <3>1 DEF Wrote
  <2>8. QED
    BY <2>2, <2>3, <2>4, <2>5, <2>6, <2>7 DEF AttemptStep
<1>2. PICK at, writes :
        /\ Becomes(h, at, writes)
        /\ at = "mark" => source = "deploy"
        /\ at = "activity" => source # "deploy"
        /\ at = "key" => source # "gitlab"
        /\ source = "deploy" => writes = {}
  BY <1>1
<1>3. /\ attempt' \in [Handlers -> AttemptState]
      /\ attempt'[h].at = at /\ attempt'[h].writes = writes
      /\ \A g \in Handlers : g # h => attempt'[g] = attempt[g]
  BY <1>2, BecomesType
<1>4. writes # {} <=> at = "answered"
  BY <1>2 DEF Becomes
<1>5. ASSUME NEW g \in Handlers
      PROVE  /\ attempt'[g].writes # {} <=> attempt'[g].at = "answered"
             /\ attempt'[g].at = "mark" => source = "deploy"
             /\ attempt'[g].at = "activity" => source # "deploy"
             /\ attempt'[g].at = "key" => source # "gitlab"
             /\ source = "deploy" => attempt'[g].writes = {}
  <2>1. CASE g = h
    BY <1>2, <1>3, <1>4, <2>1
  <2>2. CASE g # h
    BY <1>3, <2>2 DEF Shape
  <2>3. QED
    BY <2>1, <2>2
<1>6. QED
  BY <1>3, <1>5 DEF Shape

\* An attempt is handled out of the room that its receipt made.
LEMMA StepRoom ==
  ASSUME Intake!TypeOK, Shape, Room, NEW h \in Handlers, AttemptStep(h)
  PROVE  Room' /\ handled' \in Nat /\ received' \in 0..MaxAttempts
<1>1. handled \in Nat /\ received \in 0..MaxAttempts /\ Intake!Cardinality(Open) \in Nat
  <2>1. Open \in SUBSET Handlers
    BY DEF Open
  <2>2. QED
    BY <2>1, OpenSets DEF Intake!TypeOK
<1>2. handled + Intake!Cardinality(Open) <= received
  BY DEF Room
<1> DEFINE n == Intake!Cardinality(Open)
           m == Intake!Cardinality(Open)'
<1>3. CASE Received(h)
  <2>1. ~IsOpen(attempt[h].at)
    BY <1>3 DEF Received, Intake!Idle, IsOpen
  <2>2. m = n + 1
    <3>1. IsOpen(IF source = "gitlab" THEN "activity" ELSE "key")
      BY DEF IsOpen
    <3>2. QED
      BY <1>3, <2>1, <3>1, OpenMoves DEF Received
  <2>3. QED
    BY <1>1, <1>2, <1>3, <2>2 DEF Received, Room
<1>4. CASE FoundNothing(h)
  <2>1. IsOpen(attempt[h].at) /\ IsOpen("activity") /\ IsOpen("handle")
    BY <1>4 DEF FoundNothing, IsOpen
  <2>2. m = n
    BY <1>4, <2>1, OpenMoves DEF FoundNothing
  <2>3. QED
    BY <1>1, <1>2, <1>4, <2>2 DEF FoundNothing, Room
<1>5. CASE Skipped(h)
  <2>1. IsOpen(attempt[h].at) /\ ~IsOpen("idle") /\ ~IsOpen("answered")
    BY <1>5 DEF Skipped, IsOpen
  <2>2. m = n - 1
    BY <1>5, <2>1, OpenMoves DEF Skipped
  <2>3. QED
    BY <1>1, <1>2, <1>5, <2>2 DEF Skipped, Room
<1>6. CASE Handled(h)
  <2>1. IsOpen(attempt[h].at) /\ ~IsOpen("idle") /\ ~IsOpen("answered") /\ ~IsOpen("mark")
    BY <1>6 DEF Handled, IsOpen
  <2>2. m = n - 1
    BY <1>6, <2>1, OpenMoves DEF Handled
  <2>3. handled' \in {handled, handled + 1} /\ received' = received
    BY <1>6 DEF Handled
  <2>4. QED
    BY <1>1, <1>2, <2>2, <2>3 DEF Room
<1>7. CASE Marked(h) \/ Crashed(h)
  <2>1. ~IsOpen("idle") /\ Becomes(h, "idle", {})
    BY <1>7 DEF Marked, Crashed, IsOpen
  <2>2. m \in Nat /\ m <= n
    BY <1>1, <2>1, OpenMoves
  <2>3. handled' = handled /\ received' = received
    BY <1>7 DEF Marked, Crashed
  <2>4. QED
    BY <1>1, <1>2, <2>2, <2>3 DEF Room
<1>8. ASSUME NEW w \in Intake!Writes, Wrote(h, w)
      PROVE Room' /\ handled' = handled /\ received' = received
  <2>1. ~IsOpen("idle") /\ ~IsOpen("answered")
    BY DEF IsOpen
  <2>2. m \in Nat /\ m <= n
    BY <1>1, <1>8, <2>1, OpenMoves DEF Wrote
  <2>3. handled' = handled /\ received' = received
    BY <1>8 DEF Wrote
  <2>4. QED
    BY <1>1, <1>2, <2>2, <2>3 DEF Room
<1>9. QED
  BY <1>1, <1>3, <1>4, <1>5, <1>6, <1>7, <1>8 DEF AttemptStep

(* A step of an attempt keeps the types of the rest. *)
LEMMA StepVars ==
  ASSUME Intake!TypeOK, NEW h \in Handlers, AttemptStep(h)
  PROVE  /\ marked' \in BOOLEAN /\ activity' \subseteq Intake!Writes \ {"mark"}
         /\ intakeFaults' \in 0..MaxFaults
         /\ failed' \in BOOLEAN /\ skipped' \in BOOLEAN /\ overlapped' \in BOOLEAN
<1>1. /\ marked \in BOOLEAN /\ activity \subseteq Intake!Writes \ {"mark"}
      /\ intakeFaults \in 0..MaxFaults
      /\ failed \in BOOLEAN /\ skipped \in BOOLEAN /\ overlapped \in BOOLEAN
  BY DEF Intake!TypeOK
<1>2. Intake!Fault \/ UNCHANGED intakeFaults
  BY DEF AttemptStep, Received, FoundNothing, Skipped, Handled, Marked, Crashed, Wrote
<1>3. intakeFaults' \in 0..MaxFaults
  BY <1>1, <1>2, FaultType
<1>4. failed' \in BOOLEAN /\ skipped' \in BOOLEAN
  BY <1>1 DEF AttemptStep, Received, FoundNothing, Skipped, Handled, Marked, Crashed, Wrote
<1>5. overlapped' \in BOOLEAN
  BY <1>1 DEF AttemptStep, Received, FoundNothing, Skipped, Handled, Marked, Crashed, Wrote
<1>6. marked' \in BOOLEAN
  BY <1>1 DEF AttemptStep, Received, FoundNothing, Skipped, Handled, Marked, Crashed, Wrote
<1>7. activity' \subseteq Intake!Writes \ {"mark"}
  BY <1>1 DEF AttemptStep, Received, FoundNothing, Skipped, Handled, Marked, Crashed, Wrote
<1>8. QED
  BY <1>3, <1>4, <1>5, <1>6, <1>7

(* Every step keeps the types. *)
LEMMA IntakeNextType == TypeInv /\ [Intake!Next]_(Intake!vars) => TypeInv'
<1> SUFFICES ASSUME TypeInv, [Intake!Next]_(Intake!vars) PROVE TypeInv'
  OBVIOUS
<1>1. ASSUME NEW h \in Handlers, AttemptStep(h), UNCHANGED <<source, forgotten>> PROVE TypeInv'
  <2>1. Shape' /\ attempt' \in [Handlers -> AttemptState]
    BY <1>1, StepShape DEF TypeInv
  <2>2. Room' /\ handled' \in Nat /\ received' \in 0..MaxAttempts
    BY <1>1, StepRoom DEF TypeInv
  <2>3. handled' \in 0..MaxAttempts
    <3>1. Intake!Cardinality(Open)' \in Nat
      <4>1. Open' \in SUBSET Handlers
        BY DEF Open
      <4>2. QED
        BY <4>1, OpenSets
    <3>2. QED
      BY <2>2, <3>1 DEF Room
  <2>4. QED
    BY <1>1, <2>1, <2>2, <2>3, StepVars DEF TypeInv, Intake!TypeOK, AttemptState, AttemptPlaces
<1>2. CASE Intake!Expire \/ Intake!Purge
  <2>1. /\ UNCHANGED <<source, attempt, intakeFaults, received, handled, failed, skipped,
                      overlapped>>
        /\ (marked' = FALSE /\ activity' = activity) \/ (marked' = marked /\ activity' = {})
        /\ forgotten' \in {forgotten, forgotten + 1}
    BY <1>2 DEF Intake!Expire, Intake!Purge, Intake!Forget
  <2>2. marked' \in BOOLEAN /\ activity' \subseteq Intake!Writes \ {"mark"}
    BY <2>1 DEF TypeInv, Intake!TypeOK
  <2>3. forgotten' \in Nat
    BY <2>1 DEF TypeInv, Intake!TypeOK
  <2>4. Intake!TypeOK'
    BY <2>1, <2>2, <2>3 DEF TypeInv, Intake!TypeOK
  <2>5. QED
    BY <2>1, <2>4 DEF TypeInv, Shape, Room, Open
<1>3. CASE UNCHANGED Intake!vars
  BY <1>3 DEF Intake!vars, Intake!history, TypeInv, Intake!TypeOK, Shape, Room, Open
<1>4. QED
  BY <1>1, <1>2, <1>3, StepCases DEF Intake!Next, TypeInv

(* They hold at the start. *)
LEMMA IntakeInitType == Intake!Init => TypeInv
<1> SUFFICES ASSUME Intake!Init PROVE TypeInv
  OBVIOUS
<1>1. \A h \in Handlers : attempt[h].at = "idle" /\ attempt[h].writes = {}
  BY DEF Intake!Init, Intake!Idle
<1>2. attempt \in [Handlers -> AttemptState]
  BY DEF Intake!Init, Intake!Idle, AttemptState, AttemptPlaces
<1>3. 0 \in 0..MaxFaults /\ 0 \in 0..MaxAttempts
  OBVIOUS
<1>4. /\ source \in {"github", "gitlab", "deploy"} /\ activity \subseteq Intake!Writes \ {"mark"}
      /\ intakeFaults \in 0..MaxFaults /\ received \in 0..MaxAttempts
      /\ handled \in 0..MaxAttempts
  BY <1>3 DEF Intake!Init
<1>5. marked \in BOOLEAN /\ {failed, skipped, overlapped} \subseteq BOOLEAN /\ forgotten = 0
  BY Zenon DEF Intake!Init
<1>6. Intake!TypeOK
  BY <1>2, <1>4, <1>5 DEF Intake!TypeOK, AttemptState, AttemptPlaces
<1>7. Shape
  BY <1>1 DEF Shape
<1>8. Open = {}
  BY <1>1 DEF Open
<1>9. Room
  BY <1>8, FS_EmptySet, IntakeSets DEF Intake!Init, Room
<1>10. QED
  BY <1>6, <1>7, <1>9 DEF TypeInv

(***************************************************************************)
(* Webhook intake: whatever makes an attempt a duplicate was left by one   *)
(* that was handled or, but for deployments, that failed.                  *)
(***************************************************************************)
Trace ==
  \/ marked \/ activity # {}
  \/ \E h \in Handlers : attempt[h].at = "mark" \/ attempt[h].writes # {}
Cause == handled > 0 \/ (failed /\ source # "deploy")

TraceInv == (Trace => Cause) /\ (skipped => Cause)

(* A trace of the delivery is left by an attempt that handled it, or failed. *)
LEMMA StepTrace ==
  ASSUME TypeInv, TraceInv, NEW h \in Handlers, AttemptStep(h), UNCHANGED source
  PROVE  TraceInv'
<1>1. handled \in Nat /\ Intake!TypeOK /\ Shape
  BY DEF TypeInv, Intake!TypeOK
<1>2. Cause => Cause'
  <2>1. handled' \in {handled, handled + 1}
    BY DEF AttemptStep, Received, FoundNothing, Skipped, Handled, Marked, Crashed, Wrote
  <2>2. failed' = failed \/ failed' = TRUE
    BY DEF AttemptStep, Received, FoundNothing, Skipped, Handled, Marked, Crashed, Wrote
  <2>3. handled > 0 => handled' > 0
    BY <1>1, <2>1
  <2>4. failed => failed'
    BY <2>2
  <2>5. QED
    BY <2>3, <2>4 DEF Cause
<1>3. skipped' => skipped \/ Trace
  <2>1. CASE Skipped(h)
    BY <2>1 DEF Skipped, Trace
  <2>2. CASE ~Skipped(h)
    BY <2>2 DEF AttemptStep, Received, FoundNothing, Handled, Marked, Crashed, Wrote
  <2>3. QED
    BY <2>1, <2>2
<1>4. ASSUME NEW at, NEW writes, Becomes(h, at, writes), at # "mark", writes = {} \/ Trace,
             marked' => Trace, activity' # {} => Trace
      PROVE  Trace' => Trace
  <2>1. /\ attempt'[h].at = at /\ attempt'[h].writes = writes
        /\ \A g \in Handlers : g # h => attempt'[g] = attempt[g]
    BY <1>1, <1>4, BecomesType
  <2>2. QED
    BY <1>4, <2>1 DEF Trace
<1>5. (marked => Trace) /\ (activity # {} => Trace)
  BY DEF Trace
<1>6. Trace' => Trace \/ Cause'
  <2>1. CASE Received(h)
    <3>1. marked' = marked /\ activity' = activity
          /\ Becomes(h, IF source = "gitlab" THEN "activity" ELSE "key", {})
      BY <2>1 DEF Received
    <3>2. QED
      BY <1>4, <1>5, <3>1
  <2>2. CASE FoundNothing(h)
    <3>1. marked' = marked /\ activity' = activity
          /\ (Becomes(h, "activity", {}) \/ Becomes(h, "handle", {}))
      BY <2>2 DEF FoundNothing
    <3>2. QED
      BY <1>4, <1>5, <3>1
  <2>3. CASE Skipped(h)
    BY <2>3 DEF Skipped, Trace
  <2>4. CASE Handled(h)
    <3>1. CASE handled' = handled + 1
      BY <1>1, <3>1 DEF Cause
    <3>2. CASE failed' = TRUE /\ source # "deploy"
      BY <3>2 DEF Cause
    <3>3. CASE Becomes(h, "idle", {})
      <4>1. marked' = marked /\ activity' = activity
        BY <2>4 DEF Handled
      <4>2. QED
        BY <1>4, <1>5, <3>3, <4>1
    <3>4. QED
      BY <2>4, <3>1, <3>2, <3>3 DEF Handled
  <2>5. CASE Marked(h)
    BY <2>5 DEF Marked, Trace
  <2>6. CASE Crashed(h)
    <3>1. marked' = marked /\ activity' = activity /\ Becomes(h, "idle", {})
      BY <2>6 DEF Crashed
    <3>2. QED
      BY <1>4, <1>5, <3>1
  <2>7. ASSUME NEW w \in Intake!Writes, Wrote(h, w) PROVE Trace
    BY <2>7 DEF Wrote, Trace
  <2>8. QED
    BY <2>1, <2>2, <2>3, <2>4, <2>5, <2>6, <2>7 DEF AttemptStep
<1>7. QED
  BY <1>2, <1>3, <1>6 DEF TraceInv

(* Every step keeps that. *)
LEMMA TraceKept == TypeInv /\ TraceInv /\ [Intake!Next]_(Intake!vars) => TraceInv'
<1> SUFFICES ASSUME TypeInv, TraceInv, [Intake!Next]_(Intake!vars) PROVE TraceInv'
  OBVIOUS
<1>1. CASE Intake!Expire \/ Intake!Purge
  BY <1>1 DEF Intake!Expire, Intake!Purge, TraceInv, Trace, Cause
<1>2. CASE UNCHANGED Intake!vars
  BY <1>2 DEF Intake!vars, Intake!history, TraceInv, Trace, Cause
<1>3. QED
  BY <1>1, <1>2, StepCases, StepTrace DEF Intake!Next, TypeInv

(***************************************************************************)
(* Webhook intake: how often a delivery is handled. While attempts come    *)
(* one after another, one that was handled leaves a record that the next   *)
(* ones find, unless a fault took the record or hid it, or the last record *)
(* was lost.                                                               *)
(***************************************************************************)
Handling(h) == attempt[h].at # "idle"
Causes == intakeFaults + forgotten
Alone == \A g, h \in Handlers : Handling(g) /\ Handling(h) => g = h
Guarded ==
  /\ \A h \in Handlers : /\ attempt[h].at # "handle"
                         /\ attempt[h].at = "activity" => source = "gitlab" \/ ~marked
  /\ \/ Intake!Known
     \/ IF source = "deploy" THEN \E h \in Handlers : attempt[h].at = "mark"
        ELSE \E h \in Handlers : "processed" \in attempt[h].writes

OnceInv ==
  ~overlapped => /\ Alone /\ handled <= 1 + Causes
                 /\ handled = 1 + Causes => Guarded

(* A step of an attempt keeps the bound on what was handled. *)
LEMMA StepOnce ==
  ASSUME TypeInv, OnceInv, NEW h \in Handlers, AttemptStep(h), UNCHANGED <<source, forgotten>>
  PROVE  OnceInv'
<1> SUFFICES ASSUME ~overlapped'
             PROVE  /\ Alone' /\ handled' <= 1 + Causes'
                    /\ (handled' = 1 + Causes' => Guarded')
  BY DEF OnceInv
<1>0. /\ Causes \in Nat
      /\ Intake!Fault => Causes' = Causes + 1
      /\ UNCHANGED intakeFaults => Causes' = Causes
  BY DEF TypeInv, Intake!TypeOK, Causes, Intake!Fault
<1>1. /\ handled \in Nat /\ Intake!TypeOK /\ Shape
      /\ source \in {"github", "gitlab", "deploy"} /\ attempt \in [Handlers -> AttemptState]
  BY DEF TypeInv, Intake!TypeOK, AttemptState, AttemptPlaces
<1>2. overlapped => overlapped'
  BY DEF AttemptStep, Received, FoundNothing, Skipped, Handled, Marked, Crashed, Wrote
<1>3. Alone /\ handled <= 1 + Causes /\ (handled = 1 + Causes => Guarded)
  BY <1>2 DEF OnceInv
<1>4. \A g \in Handlers : ~Handling(g) => attempt[g].writes = {} /\ attempt[g].at = "idle"
  BY <1>1 DEF Shape, Handling
<1>5. \A g \in Handlers : g # h => attempt'[g] = attempt[g]
  <2>1. \E at, writes : Becomes(h, at, writes)
    BY DEF AttemptStep, Received, FoundNothing, Skipped, Handled, Marked, Crashed, Wrote
  <2>2. QED
    BY <1>1, <2>1, BecomesType
<1>6. ASSUME NEW at, NEW writes, Becomes(h, at, writes)
      PROVE  attempt'[h].at = at /\ attempt'[h].writes = writes
  BY <1>1, <1>6, BecomesType
<1>7. \A g \in Handlers : g # h => ~Handling(g)
  <2>1. CASE Received(h)
    <3>1. \A g \in Handlers : attempt[g] = Intake!Idle
      BY <2>1 DEF Received
    <3>2. QED
      BY <3>1 DEF Handling, Intake!Idle
  <2>2. CASE ~Received(h)
    <3>1. Handling(h)
      <4>1. attempt[h].writes # {} \/ attempt[h] # Intake!Idle => Handling(h)
        <5>1. attempt[h] = [at |-> attempt[h].at, writes |-> attempt[h].writes]
          BY <1>1 DEF AttemptState
        <5>2. QED
          BY <1>4, <5>1 DEF Intake!Idle
      <4>2. QED
        BY <2>2, <4>1
        DEF AttemptStep, FoundNothing, Skipped, Handled, Marked, Wrote, Crashed, Handling
    <3>2. QED
      BY <1>3, <3>1 DEF Alone
  <2>3. QED
    BY <2>1, <2>2
<1>8. /\ \A g \in Handlers : g # h => attempt[g].writes = {} /\ attempt[g].at = "idle"
      /\ \A g \in Handlers : g # h => attempt'[g].writes = {} /\ attempt'[g].at = "idle"
  BY <1>4, <1>5, <1>7
<1>9. Alone'
  BY <1>8 DEF Alone, Handling
<1> SUFFICES handled' <= 1 + Causes' /\ (handled' = 1 + Causes' => Guarded')
  BY <1>9
<1>10. ASSUME handled = 1 + Causes
       PROVE  /\ attempt[h].at # "handle"
              /\ attempt[h].at = "activity" => source = "gitlab" \/ ~marked
              /\ attempt[h].at # "mark" /\ attempt[h].writes = {} => Intake!Known
  BY <1>3, <1>8, <1>10 DEF Guarded
<1>11. ASSUME NEW at, NEW writes, Becomes(h, at, writes), at # "handle", UNCHANGED source,
              at = "activity" => source = "gitlab" \/ ~marked',
              Intake!Known' \/ IF source = "deploy" THEN at = "mark" ELSE "processed" \in writes
       PROVE  Guarded'
  <2>1. attempt'[h].at = at /\ attempt'[h].writes = writes
    BY <1>6, <1>11
  <2>2. \A g \in Handlers : /\ attempt'[g].at # "handle"
                            /\ attempt'[g].at = "activity" => source = "gitlab" \/ ~marked'
    BY <1>8, <1>11, <2>1
  <2>3. QED
    BY <1>11, <2>1, <2>2 DEF Guarded
<1>12. ASSUME UNCHANGED handled, Intake!Fault
       PROVE  handled' <= 1 + Causes' /\ handled' # 1 + Causes'
  BY <1>0, <1>1, <1>3, <1>12
<1>13. ASSUME UNCHANGED <<handled, intakeFaults>>, handled # 1 + Causes
       PROVE  handled' <= 1 + Causes' /\ handled' # 1 + Causes'
  BY <1>0, <1>1, <1>3, <1>13
<1>14. ASSUME NEW at, NEW writes, Becomes(h, at, writes), at # "handle",
              at = "activity" => source = "gitlab" \/ ~marked,
              UNCHANGED <<source, marked, activity, handled, intakeFaults>>,
              attempt[h].at # "mark", attempt[h].writes = {}
       PROVE  handled' <= 1 + Causes' /\ (handled' = 1 + Causes' => Guarded')
  <2>1. CASE handled = 1 + Causes
    <3>1. Intake!Known
      BY <1>10, <1>14, <2>1
    <3>2. Intake!Known'
      BY <1>14, <3>1 DEF Intake!Known
    <3>3. Guarded'
      BY <1>11, <1>14, <3>2
    <3>4. QED
      BY <1>0, <1>1, <1>14, <2>1, <3>3
  <2>2. CASE handled # 1 + Causes
    BY <1>13, <1>14, <2>2
  <2>3. QED
    BY <2>1, <2>2
<1>15. CASE Received(h)
  <2>1. attempt[h].at # "mark" /\ attempt[h].writes = {}
    BY <1>15 DEF Received, Intake!Idle
  <2>2. QED
    BY <1>14, <1>15, <2>1 DEF Received
<1>16. CASE FoundNothing(h)
  <2>1. handled' = handled /\ UNCHANGED <<source, marked, activity>>
        /\ attempt[h].at \in {"key", "activity"}
    BY <1>16 DEF FoundNothing
  <2>2. attempt[h].writes = {}
    BY <1>1, <2>1 DEF Shape
  <2>3. CASE Intake!Fault
    BY <1>12, <2>1, <2>3
  <2>4. CASE UNCHANGED intakeFaults /\ attempt[h].at = "key" /\ source = "github"
    <3>1. Becomes(h, "activity", {})
      BY <1>16, <2>4 DEF FoundNothing
    <3>2. ~Intake!Fault
      BY <1>0, <2>4
    <3>3. ~marked
      BY <1>16, <2>4, <3>2 DEF FoundNothing
    <3>4. QED
      BY <1>14, <2>1, <2>2, <2>4, <3>1, <3>3
  <2>5. CASE /\ UNCHANGED intakeFaults
             /\ attempt[h].at = "activity" /\ (source = "gitlab" \/ ~marked) => ~Intake!Known
             /\ attempt[h].at = "key" => ~Intake!Known
    <3>1. handled # 1 + Causes
      BY <1>10, <2>1, <2>2, <2>5
    <3>2. QED
      BY <1>13, <2>1, <2>5, <3>1
  <2>6. UNCHANGED intakeFaults \/ Intake!Fault
    BY <1>16 DEF FoundNothing
  <2>7. ~Intake!Fault => \/ attempt[h].at = "key" /\ source = "github"
                         \/ attempt[h].at = "key" /\ source = "deploy" /\ ~marked
                         \/ attempt[h].at = "activity" /\ source # "deploy" /\ activity = {}
    BY <1>1, <1>16 DEF FoundNothing, Shape
  <2>8. QED
    BY <1>1, <2>3, <2>4, <2>5, <2>6, <2>7 DEF Intake!Known
<1>17. CASE Skipped(h)
  <2>1. UNCHANGED <<source, marked, activity, handled, intakeFaults>>
        /\ attempt[h].at \in {"key", "activity"}
        /\ \E at, writes : at \notin {"handle", "activity"} /\ Becomes(h, at, writes)
    BY <1>17 DEF Skipped
  <2>2. attempt[h].writes = {}
    BY <1>1, <2>1 DEF Shape
  <2>3. QED
    BY <1>14, <2>1, <2>2
<1>18. CASE Handled(h)
  <2>1. handled # 1 + Causes /\ UNCHANGED intakeFaults
    BY <1>10, <1>18 DEF Handled
  <2>2. CASE handled' = handled
    BY <1>13, <2>1, <2>2
  <2>3. CASE handled' = handled + 1
    <3>1. \/ source = "github" /\ Becomes(h, "answered", {"mark", "processed"})
          \/ source = "gitlab" /\ Becomes(h, "answered", {"processed"})
          \/ source = "deploy" /\ Becomes(h, "mark", {})
      BY <1>1, <1>18, <2>3 DEF Handled
    <3>2. Guarded'
      BY <1>11, <3>1
    <3>3. handled' <= 1 + Causes'
      BY <1>0, <1>1, <1>3, <2>1, <2>3
    <3>4. QED
      BY <3>2, <3>3
  <2>4. QED
    BY <1>18, <2>2, <2>3 DEF Handled
<1>19. CASE Marked(h)
  <2>1. handled' = handled /\ Becomes(h, "idle", {}) /\ source = "deploy"
    BY <1>1, <1>19 DEF Marked, Shape
  <2>2. CASE Intake!Fault
    BY <1>12, <2>1, <2>2
  <2>3. CASE marked' = TRUE /\ UNCHANGED intakeFaults
    <3>1. Intake!Known'
      BY <2>1, <2>3 DEF Intake!Known
    <3>2. Guarded'
      BY <1>11, <2>1, <3>1
    <3>3. QED
      BY <1>0, <1>3, <2>1, <2>3, <3>2
  <2>4. QED
    BY <1>19, <2>2, <2>3 DEF Marked
<1>20. CASE Crashed(h)
  BY <1>12, <1>20 DEF Crashed
<1>21. ASSUME NEW w \in Intake!Writes, Wrote(h, w)
       PROVE  handled' <= 1 + Causes' /\ (handled' = 1 + Causes' => Guarded')
  <2> DEFINE at == IF attempt[h].writes = {w} THEN "idle" ELSE "answered"
  <2>1. /\ handled' = handled /\ w \in attempt[h].writes /\ source # "deploy"
        /\ Becomes(h, at, attempt[h].writes \ {w}) /\ at \notin {"handle", "activity"}
    BY <1>1, <1>21 DEF Wrote, Shape
  <2>2. CASE Intake!Fault
    BY <1>12, <2>1, <2>2
  <2>3. CASE /\ UNCHANGED intakeFaults /\ activity' = activity \cup ({w} \ {"mark"})
             /\ marked' = (marked \/ w = "mark")
    <3>1. CASE handled = 1 + Causes
      <4>1. Intake!Known \/ "processed" \in attempt[h].writes
        BY <1>3, <1>8, <2>1, <3>1 DEF Guarded
      <4>2. Intake!Known' \/ "processed" \in attempt[h].writes \ {w}
        BY <2>1, <2>3, <4>1 DEF Intake!Known
      <4>3. Guarded'
        <5> HIDE DEF at
        <5> QED BY <1>11, <2>1, <4>2
      <4>4. QED
        BY <1>0, <1>3, <2>1, <2>3, <4>3
    <3>2. CASE handled # 1 + Causes
      BY <1>13, <2>1, <2>3, <3>2
    <3>3. QED
      BY <3>1, <3>2
  <2>4. QED
    BY <1>21, <2>2, <2>3 DEF Wrote
<1>22. QED
  BY <1>15, <1>16, <1>17, <1>18, <1>19, <1>20, <1>21 DEF AttemptStep

(* Every step keeps it. *)
LEMMA OnceKept == TypeInv /\ OnceInv /\ [Intake!Next]_(Intake!vars) => OnceInv'
<1> SUFFICES ASSUME TypeInv, OnceInv, [Intake!Next]_(Intake!vars) PROVE OnceInv'
  OBVIOUS
<1>1. CASE Intake!Expire \/ Intake!Purge
  <2>1. /\ UNCHANGED <<source, attempt, intakeFaults, handled, overlapped>>
        /\ marked' => marked
        /\ forgotten' = IF Intake!Known /\ ~Intake!Known' THEN forgotten + 1 ELSE forgotten
    BY <1>1 DEF Intake!Expire, Intake!Purge, Intake!Forget
  <2>2. handled \in Nat /\ Causes \in Nat
    BY DEF TypeInv, Intake!TypeOK, Causes
  <2>3. Causes' = IF Intake!Known /\ ~Intake!Known' THEN Causes + 1 ELSE Causes
    BY <2>1 DEF TypeInv, Intake!TypeOK, Causes
  <2>4. Alone => Alone'
    BY <2>1 DEF Alone, Handling
  <2>5. Guarded /\ (Intake!Known => Intake!Known') => Guarded'
    BY <2>1 DEF Guarded
  <2>6. QED
    BY <2>1, <2>2, <2>3, <2>4, <2>5 DEF OnceInv
<1>2. CASE UNCHANGED Intake!vars
  BY <1>2 DEF Intake!vars, Intake!history, OnceInv, Causes, Alone, Handling, Guarded, Intake!Known
<1>3. QED
  BY <1>1, <1>2, StepCases, StepOnce DEF Intake!Next, TypeInv

(* A delivery is not dropped as the duplicate of nothing, and not handled again but for a
   fault, an overlap or a loss of its last record, by expiry or with its tenant. *)
THEOREM DeliveriesHandledOnce == Intake!Spec => []Intake!ReplaysSound
<1> DEFINE Inv == TypeInv /\ TraceInv /\ OnceInv
<1>1. Intake!Init => Inv
  <2> SUFFICES ASSUME Intake!Init PROVE Inv
    OBVIOUS
  <2>1. \A h \in Handlers : attempt[h].at = "idle" /\ attempt[h].writes = {}
    BY DEF Intake!Init, Intake!Idle
  <2>2. TraceInv
    BY <2>1 DEF Intake!Init, TraceInv, Trace
  <2>3. OnceInv
    BY <2>1 DEF Intake!Init, OnceInv, Causes, Alone, Handling
  <2>4. QED
    BY <2>2, <2>3, IntakeInitType
<1>2. Inv /\ [Intake!Next]_(Intake!vars) => Inv'
  BY IntakeNextType, TraceKept, OnceKept
<1>3. Inv => Intake!ReplaysSound
  <2> SUFFICES ASSUME Inv PROVE Intake!HandledOnce /\ Intake!DuplicateWasHandled
    BY DEF Intake!ReplaysSound
  <2>1. Intake!HandledOnce
    <3>1. handled \in Nat /\ intakeFaults \in Nat /\ forgotten \in Nat
      BY DEF TypeInv, Intake!TypeOK
    <3>2. QED
      BY <3>1 DEF OnceInv, Causes, Intake!HandledOnce
  <2>2. handled \in Nat
    BY DEF TypeInv, Intake!TypeOK
  <2>3. Intake!DuplicateWasHandled
    BY <2>2 DEF TraceInv, Cause, Intake!DuplicateWasHandled
  <2>4. QED
    BY <2>1, <2>3
<1>4. QED
  BY <1>1, <1>2, <1>3, PTL DEF Intake!Spec
-----------------------------------------------------------------------------
(***************************************************************************)
(* The sum of the parts: a step of it is a step of one part, or none.      *)
(***************************************************************************)
LEMMA CircuitPart == AllSpec => Spec
<1>1. AllInit => Init BY DEF AllInit
<1>2. [AllNext]_allVars => [Next]_vars BY DEF AllNext, allVars
<1> QED BY <1>1, <1>2, PTL DEF AllSpec, Spec

(* So it is for the HTTP client, *)
LEMMA ClientPart == AllSpec => Client!Spec
<1>1. AllInit => Client!Init BY DEF AllInit
<1>2. [AllNext]_allVars => [Client!Next]_(Client!vars)
  BY DEF AllNext, allVars, clientVars, Client!vars
<1> QED BY <1>1, <1>2, PTL DEF AllSpec, Client!Spec

(* the CI aggregation, *)
LEMMA CiPart == AllSpec => Ci!Spec
<1>1. AllInit => Ci!Init BY DEF AllInit
<1>2. [AllNext]_allVars => [Ci!Next]_(Ci!vars)
  BY DEF AllNext, allVars, ciVars, Ci!vars
<1> QED BY <1>1, <1>2, PTL DEF AllSpec, Ci!Spec

(* the analysis jobs, *)
LEMMA WorkerPart == AllSpec => Worker!Spec
<1>1. AllInit => Worker!Init BY DEF AllInit
<1>2. [AllNext]_allVars => [Worker!Next]_(Worker!vars)
  BY DEF AllNext, allVars, workerVars, Worker!vars
<1> QED BY <1>1, <1>2, PTL DEF AllSpec, Worker!Spec

(* the analysis budget, *)
LEMMA BudgetPart == AllSpec => Budget!Spec
<1>1. AllInit => Budget!Init BY DEF AllInit
<1>2. [AllNext]_allVars => [Budget!Next]_(Budget!vars)
  BY DEF AllNext, allVars, budgetVars, Budget!vars
<1> QED BY <1>1, <1>2, PTL DEF AllSpec, Budget!Spec

(* and the webhook intake. *)
LEMMA IntakePart == AllSpec => Intake!Spec
<1>1. AllInit => Intake!Init BY DEF AllInit
<1>2. [AllNext]_allVars => [Intake!Next]_(Intake!vars)
  BY DEF AllNext, allVars, intakeVars, Intake!vars, Intake!history
<1> QED BY <1>1, <1>2, PTL DEF AllSpec, Intake!Spec

(* Every part stays in its types. *)
THEOREM PartsTypeCorrect == AllSpec => []TypesOK
<1>1. AllSpec => []TypeOK BY CircuitPart, CircuitTypeCorrect, PTL
<1>2. AllSpec => []Client!TypeOK
  BY ClientPart, ClientInitType, ClientNextType, PTL DEF Client!Spec
<1>3. AllSpec => []Ci!TypeOK
  BY CiPart, CiInitType, CiNextType, PTL DEF Ci!Spec
<1>4. AllSpec => []Worker!TypeOK
  BY WorkerPart, JobsInitType, JobsNextType, PTL DEF Worker!Spec
<1>5. AllSpec => []Budget!TypeOK
  <2>1. BudgetInv => Budget!TypeOK BY DEF BudgetInv
  <2> QED BY <2>1, BudgetPart, BudgetInit, BudgetNext, PTL DEF Budget!Spec
<1>6. AllSpec => []Intake!TypeOK
  <2>1. TypeInv => Intake!TypeOK BY DEF TypeInv
  <2> QED BY <2>1, IntakePart, IntakeInitType, IntakeNextType, PTL DEF Intake!Spec
<1> QED BY <1>1, <1>2, <1>3, <1>4, <1>5, <1>6, PTL DEF TypesOK

(* addFailure and the aggregator worker lose a completed check only to the races and
   failures that the aggregation admits. *)
THEOREM LossesAreKnown == AllSpec => []OnlyKnownLosses
BY CiPart, CiLosesOnlyKnown, PTL DEF OnlyKnownLosses

(* The aggregator workers enqueue a check again only because of another replica or a
   failed command. *)
THEOREM DuplicatesAreBounded == AllSpec => []BoundedDuplicates
BY CiPart, CiCopiesBounded, PTL DEF BoundedDuplicates

(* The loops of the analysis worker leave no row in processing without a job, but for a
   fault, and do not analyse a job without end. *)
THEOREM RowsAreAccounted == AllSpec => []JobsAccounted
BY WorkerPart, AllJobsAccounted, PTL DEF JobsAccounted

(* The analyses of a day exceed the budget only by the race of the check and the
   increment, and by failed commands. *)
THEOREM BudgetHolds == AllSpec => []QuotaSound
BY BudgetPart, OverrunIsBounded, PTL DEF QuotaSound

(* The intake drops no delivery as the duplicate of nothing, and handles none twice but for
   the causes counted. *)
THEOREM ReplaysAreSound == AllSpec => []ReplaysSound
BY IntakePart, DeliveriesHandledOnce, PTL DEF ReplaysSound

(* The circuit opens and closes only on outcomes recorded in a row. *)
THEOREM PartsTransitionsEarned == AllSpec => TransitionsEarned
BY CircuitPart, TransitionsJustified, PTL
=============================================================================
