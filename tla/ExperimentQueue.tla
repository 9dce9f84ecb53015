-------------------------- MODULE ExperimentQueue --------------------------
(***************************************************************************)
(* The experiment queue (tools/experiment_queue.py): a runner takes the    *)
(* jobs of a pinned plan one after the other, starts each as a process     *)
(* group of its own, watches it, validates the artifact it leaves behind   *)
(* and records all of this in a state file.  The runner may be killed or   *)
(* interrupted anywhere and started again; the process groups outlive it.  *)
(*                                                                         *)
(* The runner holds a lock on the state file, so there is one at a time.   *)
(* The plan and the files it pins are one bit, `drift`: they are no longer *)
(* what they were when the queue was created.                              *)
(***************************************************************************)
EXTENDS Naturals, FiniteSets

CONSTANTS
  N,           \* number of jobs
  ResumeSafe,  \* jobs whose plan says resume_safe
  Accepts,     \* the contents each job's validator and digest accept
  Unit,        \* TRUE: run by training/systemd/experiment-queue@.service, which
               \* takes all processes down with the runner (KillMode=control-group)
  Slots,       \* process slots: bound on the process groups alive at a time
  MaxFaults    \* bound on crashes, failed calls and signals

Jobs == 1 .. N
Good == {"v1", "v2"}
Content == {"missing", "partial"} \cup Good
NoDigest == "none"
NoSlot == 0

ASSUME JobsAssumption == N \in Nat \ {0} /\ ResumeSafe \subseteq Jobs
ASSUME AcceptsAssumption == Accepts \in [Jobs -> SUBSET Good]
ASSUME UnitAssumption == Unit \in BOOLEAN
ASSUME SlotsAssumption == Slots \in Nat \ {0} /\ MaxFaults \in Nat

VARIABLES
  queue, job, digest,  \* the state file: "state", each job's and "success_sha256"
  artifact,            \* the success artifacts on disk
  drift,               \* the plan or a pinned file has changed
  slot,                \* the process groups: job and stage, or Free
  pc, at,              \* where the runner is ("down": not running), and its job
  child,               \* slot of the process it has started
  exit,                \* what the child's leader exited with
  noted,               \* success_sha256 in memory, not yet published
  seen                 \* checks of the evidence done: two for each job

(* History: how often each job was started; how often a runner has died or  *)
(* was interrupted before it could stop its child; whether the runner has   *)
(* been interrupted since it was started; jobs that ran while inputs drifted*)
VARIABLES spawns, abandoned, interrupted, tainted, faults

file  == <<queue, job, digest>>
run   == <<child, exit, noted, seen>>
past  == <<spawns, abandoned, interrupted, tainted, faults>>
vars == <<file, artifact, drift, slot, pc, at, run, past>>

Free == [job |-> 0, stage |-> "free"]
Live == {s \in 1 .. Slots : slot[s] # Free}

Init ==
  /\ queue = "absent" /\ job = [j \in Jobs |-> "pending"]
  /\ digest = [j \in Jobs |-> NoDigest]
  /\ artifact \in [Jobs -> {"missing", "v1"}] /\ drift = FALSE
  /\ slot = [s \in 1 .. Slots |-> Free]
  /\ pc = "down" /\ at = 1 /\ child = NoSlot /\ exit = "none" /\ noted = NoDigest
  /\ seen = 0 /\ spawns = [j \in Jobs |-> 0] /\ abandoned = 0 /\ interrupted = FALSE
  /\ tainted = {} /\ faults = 0

Fault == faults < MaxFaults /\ faults' = faults + 1

(* The runner returns or dies; what it knew is gone.                        *)
Forget == child' = NoSlot /\ exit' = "none" /\ noted' = NoDigest /\ seen' = 0
Down == pc' = "down" /\ at' = 1 /\ Forget /\ interrupted' = FALSE

HaltWith(s) ==
  /\ queue' = "halted" /\ job' = [job EXCEPT ![at] = s]
  /\ Down /\ UNCHANGED digest
Halt == HaltWith(job[at])

GoTo(p) == pc' = p /\ UNCHANGED <<at, run, interrupted>>

\* mutant: the loop does not move on
Following_Same == at
Following == at + 1

NextJob ==
  /\ at' = Following
  /\ pc' = IF at' > N THEN "final" ELSE "loop"
  /\ Forget /\ UNCHANGED interrupted

Quiet == UNCHANGED <<artifact, drift, slot, spawns, abandoned, tainted, faults>>

----------------------------------------------------------------------------
(* Evidence.                                                                *)

Valid(j) == artifact[j] \in Accepts[j]

(* The completed jobs' digests, with that of the job about to be published. *)
Recorded == IF pc = "evidence" THEN [digest EXCEPT ![at] = noted] ELSE digest

\* mutant: the digest is not compared with the recorded one
SameBytes_Any(j) == TRUE
SameBytes(j) == artifact[j] = Recorded[j]

(* Job by job: the artifact validates, and is what was recorded.            *)
EvidenceStep ==
  /\ pc \in {"preflight", "evidence", "final"} /\ seen < 2 * N
  /\ LET j == seen \div 2 + 1 IN
       \/ Recorded[j] = NoDigest
       \/ IF seen % 2 = 0 THEN Valid(j) ELSE SameBytes(j)
  /\ seen' = seen + 1
  /\ UNCHANGED <<file, pc, at, child, exit, noted, interrupted>> /\ Quiet

EvidenceHolds == seen = 2 * N

----------------------------------------------------------------------------
(* The runner, from its start to the loop over the jobs.                    *)

Start ==
  /\ pc = "down" /\ queue # "halted"
  /\ Unit => Live = {}
  /\ queue' = IF queue = "absent" THEN "pending" ELSE queue
  /\ GoTo("pins") /\ Quiet /\ UNCHANGED <<job, digest>>

(* "A persisted safety halt is terminal": the runner returns at once.       *)
StartHalted == pc = "down" /\ queue = "halted" /\ UNCHANGED vars

PinsChecked ==
  /\ pc = "pins" /\ Quiet
  /\ \/ drift /\ Halt
     \/ ~drift /\ GoTo("preflight") /\ UNCHANGED file

(* Drifted evidence, a validator that fails or a hot GPU.            *)
PreflightHalts == pc = "preflight" /\ Halt /\ Quiet

PreflightPasses ==
  /\ pc = "preflight" /\ EvidenceHolds
  /\ \/ queue = "complete" /\ Down /\ UNCHANGED queue
     \/ /\ queue # "complete" /\ queue' = "running"
        /\ pc' = "loop" /\ Forget /\ UNCHANGED <<at, interrupted>>
  /\ Quiet /\ UNCHANGED <<job, digest>>

(* The temperature query fails: an exception that nobody handles.           *)
PreflightRaises ==
  /\ pc = "preflight" /\ EvidenceHolds /\ queue # "complete"
  /\ queue' = "running" /\ Down /\ Fault
  /\ UNCHANGED <<artifact, drift, slot, spawns, abandoned, tainted, job, digest>>

\* mutant: only a job seen running counts as interrupted
Interrupted_Launched == job[at] = "running"
Interrupted == job[at] \in {"launching", "running"}

LoopHalts ==
  /\ pc = "loop"
  /\ drift \/ job[at] \in {"failed", "halted"} \/ (Interrupted /\ at \notin ResumeSafe)
  /\ Halt /\ Quiet

LoopGoesOn ==
  /\ pc = "loop" /\ ~drift /\ job[at] \notin {"failed", "halted"}
  /\ Interrupted => at \in ResumeSafe
  /\ GoTo("recover") /\ Quiet /\ UNCHANGED file

(* Is the artifact there already?  A validator that could not finish counts *)
(* as one that has rejected it; the disks may be too full to go on.         *)
RecoverFails ==
  /\ pc = "recover" /\ Quiet
  /\ \/ Halt
     \/ job[at] # "complete" /\ GoTo("launch") /\ UNCHANGED file

RecoverFinds ==
  /\ pc = "recover" /\ Valid(at)
  /\ GoTo("record") /\ Quiet /\ UNCHANGED file

Publish(d) ==
  job' = [job EXCEPT ![at] = "complete"] /\ digest' = [digest EXCEPT ![at] = d]

RecordHalts ==
  /\ pc = "record"
  /\ drift \/ digest[at] \notin {NoDigest, artifact[at]}
  /\ Halt /\ Quiet

Record ==
  /\ pc = "record" /\ ~drift /\ digest[at] \in {NoDigest, artifact[at]}
  /\ Publish(artifact[at]) /\ NextJob /\ Quiet /\ UNCHANGED queue

----------------------------------------------------------------------------
(* A job is launched, watched, and stopped.                                 *)
Watched == {"popen", "spawned", "monitor", "ending", "stopping", "dying"}

Launch ==
  /\ pc = "launch"
  /\ job' = [job EXCEPT ![at] = "launching"]
  /\ GoTo("spawn") /\ Quiet /\ UNCHANGED <<queue, digest>>

(* A new process group for the job `at`.                                    *)
NewGroup(s) ==
  /\ slot[s] = Free
  /\ slot' = [slot EXCEPT ![s] = [job |-> at, stage |-> "started"]]
  /\ spawns' = [spawns EXCEPT ![at] = @ + 1]
  /\ tainted' = IF drift THEN tainted \cup {at} ELSE tainted

(* Inside Popen, after the fork: the child is there, the runner does not    *)
(* know of it yet.                                                          *)
Spawn(s) ==
  /\ pc = "spawn" /\ NewGroup(s)
  /\ child' = s /\ pc' = "popen"
  /\ UNCHANGED <<file, artifact, drift, at, exit, noted, seen, abandoned, interrupted, faults>>

Spawned == pc = "popen" /\ GoTo("spawned") /\ Quiet /\ UNCHANGED file

SpawnRaises ==
  /\ pc = "spawn" /\ Down /\ Fault
  /\ UNCHANGED <<file, artifact, drift, slot, spawns, abandoned, tainted>>

PublishRunning ==
  /\ pc = "spawned"
  /\ job' = [job EXCEPT ![at] = "running"]
  /\ GoTo("monitor") /\ Quiet /\ UNCHANGED <<queue, digest>>

(* What _terminate_group leaves: the whole group is gone.                   *)
Kill == slot' = [slot EXCEPT ![child] = Free]

(* The state file cannot be written: the child is stopped on the way out.   *)
PublishRaises ==
  /\ pc = "spawned" /\ Kill /\ Down /\ Fault
  /\ UNCHANGED <<file, artifact, drift, spawns, abandoned, tainted>>

(* A guard trips (disk, runtime, heat, progress) or cannot be evaluated.    *)
MonitorGuard ==
  /\ pc = "monitor" /\ exit = "none"
  /\ Kill /\ HaltWith("halted")
  /\ UNCHANGED <<artifact, drift, spawns, abandoned, tainted, faults>>

MonitorEnds ==
  /\ pc = "monitor" /\ exit # "none"
  /\ GoTo("ending") /\ Quiet /\ UNCHANGED file

\* mutant: a group whose leader has exited is left alone
Reap_Leaderless == IF slot[child].stage = "rest" THEN UNCHANGED slot ELSE Kill
Reap == Kill

(* The finally clause: the group is signalled even if its leader is gone.   *)
Ending ==
  /\ pc = "ending" /\ Reap
  /\ GoTo("judge")
  /\ UNCHANGED <<file, artifact, drift, spawns, abandoned, tainted, faults>>

(* An interrupt reaches the runner while it watches: it stops the child and *)
(* halts.                                                                   *)
Stopping ==
  /\ pc = "stopping" /\ Kill /\ HaltWith("halted")
  /\ UNCHANGED <<artifact, drift, spawns, abandoned, tainted, faults>>

(* A second one while it stops the child: only the finally clause is left.  *)
Dying ==
  /\ pc = "dying" /\ Kill /\ Down
  /\ UNCHANGED <<file, artifact, drift, spawns, abandoned, tainted, faults>>

----------------------------------------------------------------------------
(* The child has ended: is its artifact accepted?                           *)

\* mutant: the inputs are not looked at again after the job has run
InputsPinned_Trusted == TRUE
InputsPinned == ~drift

JudgeFails ==
  /\ pc = "judge" /\ (exit # "ok" \/ ~InputsPinned)
  /\ HaltWith("failed") /\ Quiet

JudgePasses ==
  /\ pc = "judge" /\ exit = "ok" /\ InputsPinned
  /\ GoTo("validate") /\ Quiet /\ UNCHANGED file

ValidateFails == pc = "validate" /\ HaltWith("failed") /\ Quiet
ValidatePasses ==
  /\ pc = "validate" /\ Valid(at)
  /\ GoTo("note") /\ Quiet /\ UNCHANGED file

NoteFails == pc = "note" /\ ~InputsPinned /\ HaltWith("failed") /\ Quiet
Note ==
  /\ pc = "note" /\ InputsPinned
  /\ noted' = artifact[at] /\ pc' = "evidence"
  /\ Quiet /\ UNCHANGED <<file, at, child, exit, seen, interrupted>>

(* The evidence again, this job's included, before it is published.  The    *)
(* digest of a job that fails here is published with the halt.              *)
EvidenceFails ==
  /\ pc = "evidence" /\ Quiet
  /\ queue' = "halted" /\ job' = [job EXCEPT ![at] = "failed"]
  /\ digest' = [digest EXCEPT ![at] = noted] /\ Down
EvidencePasses ==
  /\ pc = "evidence" /\ EvidenceHolds
  /\ Publish(noted) /\ NextJob /\ Quiet /\ UNCHANGED queue

FinalFails ==
  /\ pc = "final" /\ queue' = "halted" /\ Down
  /\ Quiet /\ UNCHANGED <<job, digest>>
FinalPasses ==
  /\ pc = "final" /\ EvidenceHolds
  /\ queue' = "complete" /\ Down
  /\ Quiet /\ UNCHANGED <<job, digest>>

----------------------------------------------------------------------------
(* The process groups (their code is not part of the queue).  One that is   *)
(* `started` opens its artifact, writes it, and may touch an earlier one;   *)
(* its leader exits, at any time, and may leave others of the group behind. *)

Writes(s) ==
  LET j == slot[s].job IN
  /\ \/ slot[s].stage = "started" /\ slot' = [slot EXCEPT ![s].stage = "writing"]
        /\ artifact' = [artifact EXCEPT ![j] = "partial"]
     \/ slot[s].stage = "writing" /\ slot' = [slot EXCEPT ![s].stage = "written"]
        /\ \E c \in Good : artifact' = [artifact EXCEPT ![j] = c]
     \/ slot[s].stage = "written" /\ UNCHANGED slot
        /\ \E k \in 1 .. j - 1 : artifact' = [artifact EXCEPT ![k] = "v2"]
  /\ UNCHANGED <<file, drift, pc, at, run, past>>

LeaderExits(s) ==
  /\ s \in Live /\ slot[s].stage # "rest"
  /\ \/ slot' = [slot EXCEPT ![s].stage = "rest"]
     \/ slot' = [slot EXCEPT ![s] = Free]
  /\ exit' \in IF s = child THEN {"ok", "bad"} ELSE {exit}
  /\ UNCHANGED <<file, artifact, drift, pc, at, child, noted, seen, past>>

RestExits(s) ==
  /\ slot[s].stage = "rest"
  /\ slot' = [slot EXCEPT ![s] = Free]
  /\ UNCHANGED <<file, artifact, drift, pc, at, run, past>>

(* The unit's runner has gone: systemd kills what is left before it starts  *)
(* another.                                                                 *)
Sweep ==
  /\ Unit /\ pc = "down" /\ Live # {}
  /\ slot' = [s \in 1 .. Slots |-> Free]
  /\ UNCHANGED <<file, artifact, drift, pc, at, run, past>>

----------------------------------------------------------------------------
(* What can go wrong around the runner.                                     *)

(* Somebody changes the plan or a pinned file.                              *)
Drift ==
  /\ ~drift /\ queue # "absent" /\ drift' = TRUE
  /\ tainted' = IF pc \in Watched THEN tainted \cup {at}
                ELSE tainted
  /\ UNCHANGED <<file, artifact, slot, pc, at, run, spawns, abandoned, interrupted, faults>>

(* The runner goes while its child is there.                                *)
Outlived == child # NoSlot /\ slot[child] # Free

(* Killed, or signalled where the default action stands.                    *)
Crash ==
  /\ pc # "down" /\ Down /\ Fault
  /\ abandoned' = abandoned + IF Outlived THEN 1 ELSE 0
  /\ UNCHANGED <<file, artifact, drift, slot, spawns, tainted>>

(* SIGINT or SIGTERM where the runner handles it: while it watches a child, *)
Signal ==
  /\ Fault
  /\ \/ /\ pc \in {"spawned", "monitor"}
        /\ pc' = "stopping" /\ interrupted' = TRUE
        /\ UNCHANGED <<file, at, run, abandoned, slot, spawns, tainted>>
     \/ /\ pc = "stopping"
        /\ pc' = "dying"
        /\ UNCHANGED <<file, at, run, abandoned, interrupted, slot, spawns, tainted>>
     \/ /\ pc \in {"ending", "dying"}
        /\ Down
        /\ abandoned' = abandoned + IF Outlived THEN 1 ELSE 0
        /\ UNCHANGED <<file, slot, spawns, tainted>>
     \/ /\ pc \in {"spawn", "popen"}
        /\ HaltWith("halted")
        /\ abandoned' = abandoned + IF Outlived THEN 1 ELSE 0
        /\ UNCHANGED <<slot, spawns, tainted>>
  /\ UNCHANGED <<artifact, drift>>

(* or while a validator runs, where it becomes the validator's failure: the *)
(* queue halts (as it does when one fails), but not while it recovers.      *)
SignalValidator ==
  /\ Fault
  /\ pc = "recover" /\ job[at] # "complete" /\ artifact[at] # "missing"
  /\ pc' = "launch" /\ interrupted' = TRUE /\ UNCHANGED <<file, at, run>>
  /\ UNCHANGED <<artifact, drift, slot, spawns, abandoned, tainted>>

----------------------------------------------------------------------------
Runner ==
  \/ PinsChecked \/ EvidenceStep \/ PreflightHalts \/ PreflightPasses \/ LoopHalts \/ LoopGoesOn
  \/ RecoverFails \/ RecoverFinds \/ RecordHalts \/ Record
  \/ Launch \/ (\E s \in 1 .. Slots : Spawn(s)) \/ Spawned \/ PublishRunning
  \/ MonitorGuard \/ MonitorEnds \/ Ending \/ Stopping \/ Dying
  \/ JudgeFails \/ JudgePasses \/ ValidateFails \/ ValidatePasses
  \/ NoteFails \/ Note \/ EvidenceFails \/ EvidencePasses
  \/ FinalFails \/ FinalPasses

Raises == PreflightRaises \/ SpawnRaises \/ PublishRaises
Group == \E s \in 1 .. Slots : Writes(s) \/ LeaderExits(s) \/ RestExits(s)

Next ==
  \/ Start \/ StartHalted \/ Runner \/ Raises \/ Group \/ Sweep \/ Drift
  \/ Crash \/ Signal \/ SignalValidator

Spec == Init /\ [][Next]_vars

(* The runner is started again until the queue has settled, and runs; every *)
(* plan bounds the run time of its jobs, so a child ends or a guard trips.  *)
FairSpec == Spec /\ WF_vars(Start) /\ WF_vars(Runner) /\ WF_vars(Sweep)

----------------------------------------------------------------------------
JobStates == {"pending", "launching", "running", "complete", "failed", "halted"}
Places == {"down", "pins", "preflight", "loop", "recover", "record", "launch", "spawn", "popen", "spawned",
           "monitor", "ending", "stopping", "dying", "judge", "validate", "note",
           "evidence", "final"}

Processes == [job : Jobs, stage : {"started", "writing", "written", "rest"}]

(* The variables have their types; a completed job has a digest, and no     *)
(* other one has, but for one that failed on the evidence.                  *)
StateFile ==
  /\ queue \in {"absent", "pending", "running", "halted", "complete"}
  /\ job \in [Jobs -> JobStates] /\ digest \in [Jobs -> Content \cup {NoDigest}]

Digested ==
  \A j \in Jobs : /\ job[j] = "complete" => digest[j] # NoDigest
                  /\ digest[j] # NoDigest => job[j] \in {"complete", "failed"}

RunnerState ==
  /\ pc \in Places /\ at \in 1 .. N + 1 /\ child \in 0 .. Slots
  /\ exit \in {"none", "ok", "bad"} /\ seen \in 0 .. 2 * N /\ noted \in Content \cup {NoDigest}

World ==
  /\ artifact \in [Jobs -> Content] /\ drift \in BOOLEAN
  /\ slot \in [1 .. Slots -> Processes \cup {Free}]

History ==
  /\ spawns \in [Jobs -> Nat] /\ abandoned \in 0 .. MaxFaults /\ interrupted \in BOOLEAN
  /\ tainted \subseteq Jobs /\ faults \in 0 .. MaxFaults

TypeOK == StateFile /\ Digested /\ RunnerState /\ World /\ History

(* The queue keeps what JobQueue promises, over any number of restarts: the *)
(* order of the jobs, one run at most of those not safe to resume, and a    *)
(* halt that holds.                                                         *)
Promise == INSTANCE JobQueue WITH
  status <- IF queue \in {"halted", "complete"} THEN queue ELSE "open",
  finished <- {j \in Jobs : job[j] = "complete"},
  runs <- spawns
KeepsPromise == Promise!Spec

(* A complete queue records, for every job, a digest of contents that the   *)
(* job's validator accepts, even if a process that a killed runner left     *)
(* behind writes to the artifact while the queue recovers from it.  (With   *)
(* two of these, one can spoil the artifact between every validation and    *)
(* the digest that follows it.)                                             *)
EvidenceRecorded ==
  queue = "complete" /\ abandoned <= 1 =>
    \A j \in Jobs : job[j] = "complete" /\ digest[j] \in Accepts[j]

(* Run by its unit, a complete queue's artifacts are those it recorded and  *)
(* that the validators accept, whatever was killed or interrupted, and even *)
(* if a job has written to the artifact of an earlier one.                  *)
EvidenceOnDisk ==
  queue = "complete" /\ Unit =>
    \A j \in Jobs : artifact[j] = digest[j] /\ artifact[j] \in Accepts[j]

(* No job counts as complete if the plan or a pinned file changed while its *)
(* process was running.                                                     *)
DriftNeverCounts == \A j \in tainted : job[j] # "complete"

(* Unless a runner was killed, or interrupted while it was starting or      *)
(* stopping a child, no process of any group outlives the watch over it:    *)
(* "a faulty wrapper must not strand same-group GPU descendants".           *)
NothingStrays == abandoned = 0 => \A s \in Live : s = child /\ pc \in Watched

(* Under the unit there is never more than one job's process group, so no   *)
(* job runs beside another or beside an earlier run of its own.             *)
OneAtATime == Unit => Cardinality(Live) <= 1

(* "Otherwise an interruption halts the queue" (experiment_queue.py:6-7): a *)
(* runner that was interrupted starts nothing more.                         *)
InterruptHalts == [][interrupted => spawns' = spawns]_vars

(* The queue settles: it completes or halts, and stays so.                  *)
Settled == queue \in {"halted", "complete"}
Settles == <>[]Settled
=============================================================================
