---------------------------- MODULE JobLifecycle ----------------------------
(***************************************************************************)
(* What the job pipeline promises about one enhancement job, whatever the  *)
(* queue, the workers, the event stream and the gateway replicas do: a job *)
(* is created queued, may be seen processing, is settled once as done or   *)
(* failed and never leaves that state, gets its results recorded at most   *)
(* once and only after it was settled as done, and disappears with its     *)
(* upload.  JobPipeline implements this specification.                     *)
(***************************************************************************)
EXTENDS Naturals

CONSTANT Jobs

VARIABLES
  status,    \* enhancement_jobs.status, "none" before the row and "gone" after it
  results    \* how many times the job's artifacts were inserted

vars == <<status, results>>

Live     == {"queued", "processing"}
Terminal == {"done", "failed"}
Statuses == {"none", "gone"} \cup Live \cup Terminal

\* Type invariant: a job's results are there or they are not.
TypeOK ==
  /\ status \in [Jobs -> Statuses]
  /\ results \in [Jobs -> 0 .. 1]

Init ==
  /\ status = [j \in Jobs |-> "none"]
  /\ results = [j \in Jobs |-> 0]

Create(j) ==
  /\ status[j] = "none"
  /\ status' = [status EXCEPT ![j] = "queued"]
  /\ UNCHANGED results

Start(j) ==
  /\ status[j] = "queued"
  /\ status' = [status EXCEPT ![j] = "processing"]
  /\ UNCHANGED results

Settle(j, outcome) ==
  /\ status[j] \in Live
  /\ status' = [status EXCEPT ![j] = outcome]
  /\ UNCHANGED results

Record(j) ==
  /\ status[j] = "done"
  /\ results[j] = 0
  /\ results' = [results EXCEPT ![j] = 1]
  /\ UNCHANGED status

\* An upload goes and takes every one of its jobs, and their results, along.
Forget(S) ==
  /\ S # {}
  /\ \A j \in S : status[j] \notin {"none", "gone"}
  /\ status' = [j \in Jobs |-> IF j \in S THEN "gone" ELSE status[j]]
  /\ results' = [j \in Jobs |-> IF j \in S THEN 0 ELSE results[j]]

Next ==
  \/ \E j \in Jobs : Create(j) \/ Start(j) \/ Record(j)
  \/ \E j \in Jobs, outcome \in Terminal : Settle(j, outcome)
  \/ \E S \in SUBSET Jobs : Forget(S)

Spec == Init /\ [][Next]_vars
=============================================================================
