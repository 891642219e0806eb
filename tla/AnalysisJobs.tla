---------------------------- MODULE AnalysisJobs ----------------------------
(***************************************************************************)
(* The analysis jobs of services/api: rows of analysis_jobs inserted by    *)
(* routes/analysisRoutes.ts and drained by the polling loops of            *)
(* workers/analysisWorker.ts, one loop per process.                        *)
(*                                                                         *)
(* One action is one SQL statement of a loop or of a job that the loop     *)
(* started and does not wait for. A loop may have one job several times.   *)
(***************************************************************************)
EXTENDS Naturals, FiniteSets, Functions

CONSTANTS
  Jobs,
  Loops,          \* worker loops, one per process
  MaxConcurrent,  \* jobs a loop processes at a time, DEFAULT_MAX_CONCURRENT
  MaxFaults       \* bound on statements that reject and processes that stop

VARIABLES
  row,        \* analysis_jobs.status of each job
  fetched,    \* each loop: the rows its SELECT returned, until it starts them
  tasks,      \* each loop: the jobs it started, in as many slots as it runs at a time
  activeJobs, \* state.activeJobs of each loop
  faults,
  \* history of the run
  analyses,   \* analyses started of each job
  struck      \* jobs that were being processed when a fault hit them

vars == <<row, fetched, tasks, activeJobs, faults, analyses, struck>>

\* "block": the UPDATE_FAILED of a job whose subscription is not active.
Stages == {"check", "block", "mark", "analyze", "complete", "fail"}
Slots  == 1..MaxConcurrent
Task   == [job : Jobs, at : Stages]
Free   == [at |-> "free"]
NoTask == [s \in Slots |-> Free]

Init ==
  /\ row = [j \in Jobs |-> "none"]
  /\ fetched = [l \in Loops |-> {}]
  /\ tasks = [l \in Loops |-> NoTask]
  /\ activeJobs = [l \in Loops |-> 0]
  /\ faults = 0 /\ struck = {}
  /\ analyses = [j \in Jobs |-> 0]

Fault     == faults < MaxFaults /\ faults' = faults + 1
Pending   == {j \in Jobs : row[j] = "pending"}
Busy(l)   == {s \in Slots : tasks[l][s] # Free}
Running(l, j, at) == \E s \in Slots : tasks[l][s] = [job |-> j, at |-> at]

\* handleAnalyze.
Insert(j) ==
  /\ row[j] = "none"
  /\ row' = [row EXCEPT ![j] = "pending"]
  /\ UNCHANGED <<fetched, tasks, activeJobs, faults, analyses, struck>>

-----------------------------------------------------------------------------
(* processLoop *)

\* Mutant: rows whose jobs are being processed are selected as well.
SelectUnfinished(l) ==
  /\ fetched[l] = {} /\ activeJobs[l] < MaxConcurrent
  /\ \E S \in SUBSET {j \in Jobs : row[j] \in {"pending", "processing"}} :
       /\ S # {} /\ Cardinality(S) + activeJobs[l] <= MaxConcurrent
       /\ fetched' = [fetched EXCEPT ![l] = S]
  /\ UNCHANGED <<row, tasks, activeJobs, faults, analyses, struck>>

\* fetchPendingJobs. Rows that another SELECT has locked, and those over the tenant's
\* share, are left out; the locks are gone when the statement ends.
Select(l) ==
  /\ fetched[l] = {} /\ activeJobs[l] < MaxConcurrent
  /\ \E S \in SUBSET Pending :
       /\ S # {} /\ Cardinality(S) + activeJobs[l] <= MaxConcurrent
       /\ fetched' = [fetched EXCEPT ![l] = S]
  /\ UNCHANGED <<row, tasks, activeJobs, faults, analyses, struck>>

\* The for loop, which does not wait for processJobSafely.
StartJobs(l) ==
  /\ fetched[l] # {}
  /\ \E slot \in Injection(fetched[l], Slots \ Busy(l)) :
       tasks' = [tasks EXCEPT ![l] =
         [s \in Slots |-> IF \E j \in fetched[l] : slot[j] = s
                          THEN [job |-> CHOOSE j \in fetched[l] : slot[j] = s, at |-> "check"]
                          ELSE @[s]]]
  /\ activeJobs' = [activeJobs EXCEPT ![l] = @ + Cardinality(fetched[l])]
  /\ fetched' = [fetched EXCEPT ![l] = {}]
  /\ UNCHANGED <<row, faults, analyses, struck>>

-----------------------------------------------------------------------------
(* processJob *)

\* One of the loop's tasks of the job changes its statement, or ends.
Put(l, j, from, task) ==
  \E s \in Slots :
    /\ tasks[l][s] = [job |-> j, at |-> from]
    /\ tasks' = [tasks EXCEPT ![l][s] = task]
Goto(l, j, from, to) ==
  /\ Put(l, j, from, [job |-> j, at |-> to])
  /\ UNCHANGED activeJobs
Leave(l, j, from) ==
  /\ Put(l, j, from, Free)
  /\ activeJobs' = [activeJobs EXCEPT ![l] = @ - 1]
Write(j, status) == row' = [row EXCEPT ![j] = status]

\* getSubscriptionByTenant; if it fails, the job goes on.
Check(l, j) ==
  /\ \E to \in {"block", "mark"} : Goto(l, j, "check", to)
  /\ UNCHANGED <<row, fetched, faults, analyses, struck>>

Block(l, j) ==
  /\ Leave(l, j, "block")
  /\ Write(j, "failed")
  /\ UNCHANGED <<fetched, faults, analyses, struck>>

\* MARK_PROCESSING, whatever the row says, and the start of performAnalysis.
Mark(l, j) ==
  /\ Goto(l, j, "mark", "analyze")
  /\ Write(j, "processing")
  /\ analyses' = [analyses EXCEPT ![j] = @ + 1]
  /\ UNCHANGED <<fetched, faults, struck>>

\* The end of performAnalysis.
Analyze(l, j) ==
  /\ \E to \in {"complete", "fail"} : Goto(l, j, "analyze", to)
  /\ UNCHANGED <<row, fetched, faults, analyses, struck>>

Complete(l, j) ==
  /\ Leave(l, j, "complete")
  /\ Write(j, "completed")
  /\ UNCHANGED <<fetched, faults, analyses, struck>>

\* Mutant: a failure is logged and the row left as it is.
FailSilently(l, j) ==
  /\ Leave(l, j, "fail")
  /\ UNCHANGED <<row, fetched, faults, analyses, struck>>

Fail(l, j) ==
  /\ Leave(l, j, "fail")
  /\ Write(j, "failed")
  /\ UNCHANGED <<fetched, faults, analyses, struck>>

\* A statement rejects, applied or not: after the block the job goes on, after the mark
\* and the completion it fails, after the failure it is left as it is.
Reject(l, j) ==
  /\ Fault
  /\ \/ Goto(l, j, "block", "mark") /\ (UNCHANGED row \/ Write(j, "failed"))
     \/ Goto(l, j, "mark", "fail") /\ (UNCHANGED row \/ Write(j, "processing"))
     \/ Goto(l, j, "complete", "fail") /\ (UNCHANGED row \/ Write(j, "completed"))
     \/ Leave(l, j, "fail") /\ UNCHANGED row
  /\ struck' = struck \cup {j}
  /\ UNCHANGED <<fetched, analyses>>

\* The process stops, crashed or replaced by a new one, with its jobs.
Stop(l) ==
  /\ Fault
  /\ struck' = struck \cup {j \in Jobs : \E at \in Stages : Running(l, j, at)}
  /\ fetched' = [fetched EXCEPT ![l] = {}]
  /\ tasks' = [tasks EXCEPT ![l] = NoTask]
  /\ activeJobs' = [activeJobs EXCEPT ![l] = 0]
  /\ UNCHANGED <<row, analyses>>

Process(l, j) ==
  \/ Check(l, j) \/ Block(l, j) \/ Mark(l, j) \/ Analyze(l, j) \/ Complete(l, j)
  \/ Fail(l, j)

Next ==
  \/ \E j \in Jobs : Insert(j)
  \/ \E l \in Loops :
       \/ Select(l) \/ StartJobs(l) \/ Stop(l)
       \/ \E j \in Jobs : Process(l, j) \/ Reject(l, j)

Spec == Init /\ [][Next]_vars

\* The loops poll, and statements and analyses end.
FairSpec ==
  /\ Spec
  /\ \A l \in Loops :
       /\ WF_vars(Select(l)) /\ WF_vars(StartJobs(l))
       /\ \A j \in Jobs : WF_vars(Process(l, j))

-----------------------------------------------------------------------------
(* Properties *)

Finished == {"completed", "failed"}

\* Types, and no loop runs more jobs than it may.
TypeOK ==
  /\ row \in [Jobs -> {"none", "pending", "processing"} \cup Finished]
  /\ fetched \in [Loops -> SUBSET Jobs]
  /\ tasks \in [Loops -> [Slots -> Task \cup {Free}]]
  /\ activeJobs \in [Loops -> 0..MaxConcurrent]
  /\ \A l \in Loops :
       /\ activeJobs[l] = Cardinality(Busy(l))
       /\ activeJobs[l] + Cardinality(fetched[l]) <= MaxConcurrent
  /\ faults \in 0..MaxFaults
  /\ analyses \in [Jobs -> Nat] /\ struck \subseteq Jobs

\* No query selects a row that is being processed: such a row has a job that will finish
\* it, unless a fault struck the job.
RowsInHand ==
  \A j \in Jobs :
    row[j] = "processing" =>
      \/ j \in struck
      \/ \E l \in Loops, at \in {"analyze", "complete", "fail"} : Running(l, j, at)

\* A row can be selected until the first of its jobs marks it: it is analysed at most once
\* per slot of all loops.
AnalysedOncePerSlot ==
  \A j \in Jobs : analyses[j] <= Cardinality(Loops) * MaxConcurrent

\* Rows being processed have a job in hand, and no row is analysed more often than the
\* race for it allows.
JobsAccounted == RowsInHand /\ AnalysedOncePerSlot

\* Every job ends completed or failed for good, or was struck by a fault.
EventuallyFinished ==
  \A j \in Jobs : <>[](row[j] \in Finished \cup {"none"} \/ j \in struck)
=============================================================================
