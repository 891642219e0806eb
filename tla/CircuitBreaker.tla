--------------------------- MODULE CircuitBreaker ---------------------------
(***************************************************************************)
(* The circuit of one service key (packages/shared/src/http/               *)
(* circuitBreaker.ts), shared by the calls of one process. A call checks   *)
(* the circuit, awaits its operation while other calls begin and end, and  *)
(* records the outcome against whatever state the circuit is in by then.   *)
(***************************************************************************)
EXTENDS Naturals

CONSTANTS
  Calls,            \* calls that may be in flight together
  Threshold,        \* failures that open a closed circuit
  SuccessThreshold  \* successes that close a half-open circuit

ASSUME CircuitAssumption ==
  Threshold \in Nat \ {0} /\ SuccessThreshold \in Nat \ {0}

VARIABLES
  state,      \* "closed", "open" or "half-open"
  failures,   \* counted up to Threshold: only the comparison with it is used
  successes,
  elapsed,    \* whether resetTimeout has passed since lastFailure
  running,    \* calls whose operation is in flight
  healthy,    \* whether the service answers well
  lost,       \* history: failures recorded in a row, counted up to Threshold
  won         \* history: successes recorded in a row, counted up to SuccessThreshold

record == <<state, failures, successes, elapsed>>
history == <<lost, won>>
vars == <<record, running, healthy, history>>

States == {"closed", "open", "half-open"}

Init ==
  /\ state = "closed" /\ failures = 0 /\ successes = 0 /\ elapsed = TRUE
  /\ running = {} /\ healthy = TRUE /\ lost = 0 /\ won = 0

UpTo(n, limit) == IF n < limit THEN n + 1 ELSE limit

\* canExecute: an open circuit whose reset timeout has passed becomes half-open; a
\* half-open one lets every call through.
Begin(c) ==
  /\ c \notin running
  /\ state = "open" => elapsed
  /\ state' = IF state = "open" THEN "half-open" ELSE state
  /\ running' = running \cup {c}
  /\ UNCHANGED <<failures, successes, elapsed, healthy, history>>

\* Mutant: successes are counted in the closed state only.
SucceedUncounted(c) ==
  /\ c \in running
  /\ running' = running \ {c}
  /\ won' = UpTo(won, SuccessThreshold) /\ lost' = 0
  /\ IF state # "half-open" THEN failures' = 0 ELSE UNCHANGED failures
  /\ UNCHANGED <<state, successes, elapsed, healthy>>

\* recordSuccess.
Succeed(c) ==
  /\ c \in running
  /\ running' = running \ {c}
  /\ won' = UpTo(won, SuccessThreshold) /\ lost' = 0
  /\ IF state # "half-open"
     THEN failures' = 0 /\ UNCHANGED <<state, successes>>
     ELSE IF successes + 1 >= SuccessThreshold
          THEN state' = "closed" /\ failures' = 0 /\ successes' = 0
          ELSE successes' = successes + 1 /\ UNCHANGED <<state, failures>>
  /\ UNCHANGED <<elapsed, healthy>>

\* Mutant: one failure too few opens the circuit.
FailEarly(c) ==
  /\ c \in running
  /\ running' = running \ {c}
  /\ lost' = UpTo(lost, Threshold) /\ won' = 0
  /\ state' = IF state = "half-open" \/ failures + 2 >= Threshold THEN "open" ELSE state
  /\ failures' = UpTo(failures, Threshold) /\ successes' = 0 /\ elapsed' = FALSE
  /\ UNCHANGED healthy

\* recordFailure.
Fail(c) ==
  /\ c \in running
  /\ running' = running \ {c}
  /\ lost' = UpTo(lost, Threshold) /\ won' = 0
  /\ failures' = UpTo(failures, Threshold)
  /\ successes' = 0 /\ elapsed' = FALSE
  /\ state' = IF state = "half-open" \/ failures' >= Threshold THEN "open" ELSE state
  /\ UNCHANGED healthy

\* evictIdleCircuits: the next call finds a new record.
Evict ==
  /\ state = "closed" /\ failures = 0
  /\ successes' = 0 /\ elapsed' = TRUE
  /\ UNCHANGED <<state, failures, running, healthy, history>>

Elapse ==
  /\ ~elapsed /\ elapsed' = TRUE
  /\ UNCHANGED <<state, failures, successes, running, healthy, history>>

Recover == healthy' = TRUE /\ UNCHANGED <<record, running, history>>
Break == healthy' = FALSE /\ UNCHANGED <<record, running, history>>

Finish(c) ==
  \/ healthy /\ Succeed(c)
  \/ ~healthy /\ Fail(c)

Next ==
  \/ \E c \in Calls : Begin(c) \/ Finish(c)
  \/ Evict \/ Elapse \/ Recover \/ Break

Spec == Init /\ [][Next]_vars

\* Callers keep calling and their operations end; time passes.
FairSpec ==
  /\ Spec /\ WF_vars(Elapse)
  /\ \A c \in Calls : WF_vars(Begin(c)) /\ WF_vars(Finish(c))

-----------------------------------------------------------------------------
(* Properties *)

\* Every variable stays in its type; a circuit with enough successes has closed.
TypeOK ==
  /\ state \in States /\ failures \in 0..Threshold
  /\ successes \in 0..(SuccessThreshold - 1) /\ elapsed \in BOOLEAN
  /\ running \subseteq Calls /\ healthy \in BOOLEAN
  /\ lost \in 0..Threshold /\ won \in 0..SuccessThreshold

\* Successes are kept for one half-open period only: none is left over from an earlier
\* one, whatever calls end in between.
NoLeftoverSuccesses == successes > 0 => state = "half-open"

\* A closed circuit opens only when Threshold failures in a row have been recorded, by
\* whichever calls.
OpensAfterThreshold == [][(state = "closed" /\ state' = "open") => lost' = Threshold]_vars

\* A circuit closes only when SuccessThreshold successes in a row have been recorded: a
\* failure of any call in between starts the count anew.
ClosesWhenEarned == [][(state # "closed" /\ state' = "closed") => won' = SuccessThreshold]_vars

\* A circuit changes state only for outcomes recorded in a row: Threshold failures open a
\* closed one, SuccessThreshold successes close it, whichever calls they come from.
TransitionsEarned == OpensAfterThreshold /\ ClosesWhenEarned

\* A service that stays healthy gets its circuit closed for good, though calls from
\* before it recovered are still to end.
ClosesForGood == <>[]healthy => <>[](state = "closed")
=============================================================================
