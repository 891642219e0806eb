---------------------------- MODULE JobLifecycle ----------------------------
(***************************************************************************)
(* What the queue promises a producer about each job, until a command of   *)
(* Redis fails: the job is queued, run by one worker at a time, and ends   *)
(* done, dead, or lost with the process that was running it.               *)
(* packages/shared/src/queue.                                              *)
(***************************************************************************)
EXTENDS Naturals

CONSTANTS Jobs, MaxTries

VARIABLES
  phase,   \* the phase each job is in
  tries,   \* the handler runs started for each job
  faulty   \* whether a command has failed

Phases == {"new", "queued", "running", "done", "dead", "lost"}

Init ==
  /\ phase = [j \in Jobs |-> "new"]
  /\ tries = [j \in Jobs |-> 0]
  /\ faulty = FALSE

Move(j, from, to) ==
  /\ phase[j] = from
  /\ phase' = [phase EXCEPT ![j] = to]

Submit(j)  == Move(j, "new", "queued") /\ UNCHANGED tries
Start(j)   == /\ Move(j, "queued", "running")
              /\ tries[j] < MaxTries
              /\ tries' = [tries EXCEPT ![j] = @ + 1]
Retry(j)   == /\ Move(j, "running", "queued")
              /\ tries[j] < MaxTries
              /\ UNCHANGED tries
Succeed(j) == Move(j, "running", "done") /\ UNCHANGED tries
Bury(j)    == Move(j, "running", "dead") /\ UNCHANGED tries

\* A process ends, and the jobs it carried with it.
Lose(S) ==
  /\ \A j \in S : phase[j] = "running"
  /\ phase' = [j \in Jobs |-> IF j \in S THEN "lost" ELSE phase[j]]
  /\ UNCHANGED tries

Live == \/ \E j \in Jobs : \/ Submit(j) \/ Start(j) \/ Retry(j)
                            \/ Succeed(j) \/ Bury(j)
        \/ \E S \in SUBSET Jobs : Lose(S)

\* With the first command that fails the promise ends.
Next == (Live /\ ~faulty /\ ~faulty') \/ faulty'

Spec == Init /\ [][Next]_<<phase, tries, faulty>>
=============================================================================
