------------------------------ MODULE JobQueue ------------------------------
(***************************************************************************)
(* What the experiment queue (tools/experiment_queue.py) promises: the     *)
(* jobs of a plan run in their order, each after all those before it have  *)
(* finished; a job that is not safe to resume is run at most once; what    *)
(* has finished stays finished; and once the queue has halted nothing      *)
(* runs or finishes any more.                                              *)
(***************************************************************************)
EXTENDS Naturals

CONSTANTS
  N,          \* number of jobs
  ResumeSafe  \* the jobs that may be run again

Jobs == 1 .. N

VARIABLES
  status,     \* "open", "halted", "complete"
  finished,   \* the jobs that have finished
  runs        \* how often each job has been run

vars == <<status, finished, runs>>

Init == status = "open" /\ finished = {} /\ runs = [j \in Jobs |-> 0]

MyTurn(j) == status = "open" /\ j \notin finished /\ \A k \in 1 .. j - 1 : k \in finished

Run(j) ==
  /\ MyTurn(j)
  /\ runs[j] = 0 \/ j \in ResumeSafe
  /\ runs' = [runs EXCEPT ![j] = @ + 1]
  /\ UNCHANGED <<status, finished>>

(* A job may have finished without a run: its result was there already.     *)
Finish(j) ==
  /\ MyTurn(j)
  /\ finished' = finished \cup {j}
  /\ UNCHANGED <<status, runs>>

Complete ==
  /\ status = "open" /\ finished = Jobs
  /\ status' = "complete"
  /\ UNCHANGED <<finished, runs>>

(* Even a complete queue halts when its evidence turns out to have changed. *)
Halt == status' = "halted" /\ UNCHANGED <<finished, runs>>

Next == (\E j \in Jobs : Run(j) \/ Finish(j)) \/ Complete \/ Halt
Spec == Init /\ [][Next]_vars
=============================================================================
