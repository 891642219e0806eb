--------------------------- MODULE ResilientClient ---------------------------
(***************************************************************************)
(* The HTTP client of the services (packages/shared/src/http/              *)
(* resilientClient.ts): requests to one host retry on their own and share  *)
(* a circuit, which they check once, before the first attempt, and record  *)
(* to once, after the last.                                                *)
(***************************************************************************)
EXTENDS Naturals

CONSTANTS
  Requests,    \* requests that may be in flight together
  Threshold,   \* CIRCUIT_BREAKER_THRESHOLD
  MaxRetries   \* retries after the first attempt

VARIABLES
  isOpen,
  failures,  \* counted up to Threshold: only the comparison with it is used
  elapsed,   \* whether CIRCUIT_BREAKER_RESET_MS has passed since lastFailure
  request,   \* each request: the attempt it is at (0 when idle), and whether the last
             \* status it saw is retryable
  up         \* whether the host answers every attempt

vars == <<isOpen, failures, elapsed, request, up>>
circuit == <<isOpen, failures, elapsed>>

Idle == [attempt |-> 0, again |-> FALSE]
First == [attempt |-> 1, again |-> FALSE]
RequestState == [attempt : 0..(MaxRetries + 1), again : BOOLEAN]

Init ==
  /\ isOpen = FALSE /\ failures = 0 /\ elapsed = TRUE
  /\ request = [r \in Requests |-> Idle] /\ up = TRUE

Pending(r) == request[r].attempt > 0

\* isCircuitOpen: past the reset timeout the circuit is marked as not open.
Begin(r) ==
  /\ ~Pending(r)
  /\ isOpen => elapsed
  /\ isOpen' = FALSE
  /\ request' = [request EXCEPT ![r] = First]
  /\ UNCHANGED <<failures, elapsed, up>>

End(r) == request' = [request EXCEPT ![r] = Idle]

\* handleSuccess and recordSuccess.
Succeed(r) ==
  /\ Pending(r) /\ End(r)
  /\ failures' = 0 /\ isOpen' = FALSE
  /\ UNCHANGED <<elapsed, up>>

\* recordFailure, after the last attempt.
RecordFailure(r) ==
  /\ End(r)
  /\ failures' = IF failures < Threshold THEN failures + 1 ELSE Threshold
  /\ isOpen' = (isOpen \/ failures' >= Threshold)
  /\ elapsed' = FALSE

\* What an attempt ends with: a network error or an HTTP status, to retry or not.
Errors == {"network", "fatal", "status", "refused"}

\* shouldRetry. A network error is retried for its own sake or for the status of the
\* attempt before it.
Retryable(r, error) ==
  /\ error \in {"network", "status"} \/ (error = "fatal" /\ request[r].again)
  /\ request[r].attempt <= MaxRetries

\* Mutant: the attempt is not counted.
AttemptAgain(r, error) ==
  /\ Pending(r)
  /\ IF Retryable(r, error)
     THEN request' = [request EXCEPT ![r].again = (error = "status")]
          /\ UNCHANGED circuit
     ELSE RecordFailure(r)
  /\ UNCHANGED up

\* attemptWithRetry: an attempt that fails.
Attempt(r, error) ==
  /\ Pending(r)
  /\ IF Retryable(r, error)
     THEN /\ request' = [request EXCEPT ![r] = [attempt |-> @.attempt + 1,
                                                again |-> error = "status"]]
          /\ UNCHANGED circuit
     ELSE RecordFailure(r)
  /\ UNCHANGED up

Elapse ==
  /\ ~elapsed /\ elapsed' = TRUE
  /\ UNCHANGED <<isOpen, failures, request, up>>

Change == up' \in BOOLEAN /\ UNCHANGED <<circuit, request>>

\* One attempt: the host may answer an attempt even while it is not well.
Try(r) == Succeed(r) \/ (~up /\ \E error \in Errors : Attempt(r, error))

Next == (\E r \in Requests : Begin(r) \/ Try(r)) \/ Elapse \/ Change

Spec == Init /\ [][Next]_vars

\* Callers keep calling, attempts and delays end, time passes.
FairSpec ==
  /\ Spec /\ WF_vars(Elapse)
  /\ \A r \in Requests : WF_vars(Begin(r)) /\ WF_vars(Try(r))

-----------------------------------------------------------------------------
(* Properties *)

\* Every variable stays in its type; an open circuit has counted its failures.
TypeOK ==
  /\ isOpen \in BOOLEAN /\ failures \in 0..Threshold /\ elapsed \in BOOLEAN
  /\ request \in [Requests -> RequestState] /\ up \in BOOLEAN
  /\ isOpen => failures = Threshold

\* Whatever its attempts meet, a request ends.
EveryRequestEnds == \A r \in Requests : Pending(r) ~> ~Pending(r)

\* Once the host is up for good the circuit opens no more and is not left open.
ClosesForGood == <>[]up => <>[](~isOpen /\ failures = 0)
=============================================================================
