--------------------------- MODULE AnalysisBudget ---------------------------
(***************************************************************************)
(* The daily analysis budget of one tenant: the counter in Redis of        *)
(* packages/shared/src/queue/alertBudgetQuota.ts, checked before an        *)
(* analysis and incremented after it by incident-triage                    *)
(* (alertAnalysisService.ts) and api (deployAnalysisService.ts).           *)
(*                                                                         *)
(* One action is one command of Redis or one analysis, within one day.     *)
(***************************************************************************)
EXTENDS Naturals, FiniteSets

CONSTANTS
  Calls,      \* alerts and deployments analysed at the same time, one after another each
  Limit,      \* maxAnalysesPerDay, not 0
  MaxFaults   \* bound on commands that fail

VARIABLES
  count, ttl,  \* the day's key: its counter and whether it expires
  call,        \* each call: the await it is in
  analysed,    \* analyses that succeeded
  faults

vars == <<count, ttl, call, analysed, faults>>

Init ==
  /\ count = 0 /\ ttl = FALSE
  /\ call = [c \in Calls |-> "idle"]
  /\ analysed = 0 /\ faults = 0

Goto(c, from, to) ==
  /\ call[c] = from
  /\ call' = [call EXCEPT ![c] = to]
Fault == faults < MaxFaults /\ faults' = faults + 1

\* Mutant: the budget may be used up and one more.
CheckInclusive(c) ==
  /\ Goto(c, "idle", "analyse")
  /\ \/ count <= Limit /\ UNCHANGED faults
     \/ Fault
  /\ UNCHANGED <<count, ttl, analysed>>

\* checkAlertAnalysisQuota: without an answer from Redis the analysis goes on.
Check(c) ==
  /\ Goto(c, "idle", "analyse")
  /\ \/ count < Limit /\ UNCHANGED faults
     \/ Fault
  /\ UNCHANGED <<count, ttl, analysed>>

\* analyzeAlert and performAnalysis: only a success is counted.
Analyse(c) ==
  /\ \/ Goto(c, "analyse", "increment") /\ analysed' = analysed + 1
     \/ Goto(c, "analyse", "idle") /\ UNCHANGED analysed
  /\ UNCHANGED <<count, ttl, faults>>

\* incrementAlertAnalysisCount. A command that failed, or whose process died waiting for
\* it, may have been applied.
Increment(c) ==
  /\ \/ Goto(c, "increment", IF count = 0 THEN "expire" ELSE "idle")
        /\ count' = count + 1 /\ UNCHANGED faults
     \/ Goto(c, "increment", "idle") /\ Fault /\ count' \in {count, count + 1}
  /\ UNCHANGED <<ttl, analysed>>

Expire(c) ==
  /\ Goto(c, "expire", "idle")
  /\ \/ ttl' = TRUE /\ UNCHANGED faults
     \/ Fault /\ ttl' \in {ttl, TRUE}
  /\ UNCHANGED <<count, analysed>>

Next == \E c \in Calls : Check(c) \/ Analyse(c) \/ Increment(c) \/ Expire(c)

Spec == Init /\ [][Next]_vars

-----------------------------------------------------------------------------
(* Properties *)

At(where) == {c \in Calls : call[c] = where}

\* Types.
TypeOK ==
  /\ count \in Nat /\ ttl \in BOOLEAN
  /\ call \in [Calls -> {"idle", "analyse", "increment", "expire"}]
  /\ analysed \in Nat /\ faults \in 0..MaxFaults

\* The day's budget is overrun by no more than the calls that read the counter at the same
\* time, but one, and by one analysis for each failed command or crash, which may keep an
\* analysis from being counted.
OverrunBounded == analysed < Limit + Cardinality(Calls) + faults

\* The counter expires, unless a command failed or the first increment's EXPIRE is next.
CounterExpires == count > 0 => ttl \/ faults > 0 \/ At("expire") # {}

\* The budget is overrun by the race between check and increment only, and ends with the
\* day.
QuotaSound == OverrunBounded /\ CounterExpires
=============================================================================
