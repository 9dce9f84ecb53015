------------------------ MODULE ExperimentQueue_proofs ------------------------
(***************************************************************************)
(* Proofs about ExperimentQueue, for every number of jobs, every choice of *)
(* those safe to resume and of the contents their validators accept, and   *)
(* any number of crashes, signals and processes left behind.               *)
(*                                                                         *)
(* The argument is one inductive invariant, QueueInv (ExperimentQueueInv), *)
(* and for what is recorded without the unit another one on top, Traced.   *)
(* One lemma per part shows that a step from QueueInv keeps that part, with*)
(* a case for each action, or for a few that have the same effect on it.   *)
(***************************************************************************)
EXTENDS ExperimentQueueInv, TLAPS, FiniteSetTheorems

USE JobsAssumption, SlotsAssumption
USE DEF Jobs, NoDigest, NoSlot, Free, file, run, past, Down, Forget, GoTo, HaltWith,
        Quiet, Fault, Watched

(* The check that comes after an odd number of checks compares the bytes.   *)
LEMMA Odd ==
  ASSUME NEW i \in Nat, NEW n \in Nat, n = 2 * i + 1
  PROVE  n \div 2 = i /\ n % 2 = 1
OBVIOUS

(* Every step writes values of their types to the state file.               *)
LEMMA StateFileStep ==
  ASSUME QueueInv, [Next]_vars
  PROVE  StateFile'
<1> USE DEF QueueInv, TypeOK, StateFile, RunnerState, World, JobStates
<1>1. CASE Start \/ PinsChecked \/ EvidenceStep \/ LoopGoesOn \/ RecoverFails \/
   RecoverFinds \/ Spawned \/ MonitorEnds \/ JudgePasses \/ ValidatePasses \/ Note \/
   SignalValidator
  BY <1>1 DEF Start, PinsChecked, EvidenceStep, LoopGoesOn, RecoverFails, RecoverFinds,
     Spawned, MonitorEnds, JudgePasses, ValidatePasses, Note, SignalValidator, Halt,
     Interrupted, InputsPinned
<1>2. CASE JudgeFails \/ ValidateFails \/ NoteFails
  BY <1>2 DEF JudgeFails, ValidateFails, NoteFails, Halt
<1>3. CASE EvidenceFails
  BY <1>3 DEF EvidenceFails, Halt
<1>4. CASE PreflightHalts \/ LoopHalts \/ RecordHalts \/ FinalFails
  BY <1>4 DEF PreflightHalts, LoopHalts, RecordHalts, FinalFails, Halt
<1>5. CASE EvidencePasses
  BY <1>5 DEF EvidencePasses, Publish, Following, NextJob
<1>6. CASE Record
  BY <1>6 DEF Record, Publish, Following, NextJob
<1>7. CASE PreflightPasses \/ PreflightRaises \/ FinalPasses
  BY <1>7 DEF PreflightPasses, PreflightRaises, FinalPasses, EvidenceHolds
<1>8. CASE Launch \/ PublishRunning
  BY <1>8 DEF Launch, PublishRunning
<1>9. ASSUME NEW s \in 1 .. Slots, Spawn(s) PROVE StateFile'
  BY <1>9 DEF Spawn, NewGroup
<1>10. CASE SpawnRaises \/ PublishRaises \/ MonitorGuard \/ Ending \/ Stopping \/ Dying
  BY <1>10 DEF SpawnRaises, PublishRaises, MonitorGuard, Ending, Stopping, Dying, Reap,
     Kill
<1>11. ASSUME NEW s \in 1 .. Slots, Writes(s) PROVE StateFile'
  BY <1>11 DEF Writes
<1>12. ASSUME NEW s \in 1 .. Slots, LeaderExits(s) PROVE StateFile'
  BY <1>12 DEF LeaderExits
<1>13. ASSUME NEW s \in 1 .. Slots, RestExits(s) PROVE StateFile'
  BY <1>13 DEF RestExits
<1>14. CASE Sweep \/ Drift \/ Crash \/ Signal
  BY <1>14 DEF Sweep, Drift, Crash, Signal, Outlived
<1>15. CASE UNCHANGED vars
  BY <1>15 DEF vars, StartHalted
<1> QED
  BY <1>1, <1>2, <1>3, <1>4, <1>5, <1>6, <1>7, <1>8, <1>9, <1>10, <1>11, <1>12, <1>13,
     <1>14, <1>15 DEF Next, Runner, Raises, Group, StartHalted

(* A job gets its digest in the step that completes it, or that fails it on *)
(* the evidence, and is then not written again.                             *)
LEMMA DigestedStep ==
  ASSUME QueueInv, [Next]_vars
  PROVE  Digested'
<1> USE DEF QueueInv, TypeOK, StateFile, World, Digested, Placed, Ordered, Good, Content
<1>1. CASE Start \/ PinsChecked \/ EvidenceStep \/ LoopGoesOn \/ RecoverFails \/
   RecoverFinds \/ Spawned \/ MonitorEnds \/ JudgePasses \/ ValidatePasses \/ Note \/
   SignalValidator
  BY <1>1 DEF Start, PinsChecked, EvidenceStep, LoopGoesOn, RecoverFails, RecoverFinds,
     Spawned, MonitorEnds, JudgePasses, ValidatePasses, Note, SignalValidator, Halt,
     Interrupted, InputsPinned
<1>2. CASE PreflightHalts \/ LoopHalts \/ RecordHalts \/ JudgeFails \/ ValidateFails \/
   NoteFails \/ EvidenceFails \/ FinalFails
  BY <1>2 DEF PreflightHalts, LoopHalts, RecordHalts, JudgeFails, ValidateFails,
     NoteFails, EvidenceFails, FinalFails, Halt
<1>3. CASE Record \/ EvidencePasses
  BY <1>3 DEF Record, EvidencePasses, Publish, Following, NextJob
<1>4. CASE PreflightPasses \/ PreflightRaises \/ FinalPasses
  BY <1>4 DEF PreflightPasses, PreflightRaises, FinalPasses, EvidenceHolds
<1>5. CASE Launch \/ PublishRunning
  BY <1>5 DEF Launch, PublishRunning
<1>6. ASSUME NEW s \in 1 .. Slots, Spawn(s) PROVE Digested'
  BY <1>6 DEF Spawn, NewGroup
<1>7. CASE SpawnRaises \/ PublishRaises \/ MonitorGuard \/ Ending \/ Stopping \/ Dying
  BY <1>7 DEF SpawnRaises, PublishRaises, MonitorGuard, Ending, Stopping, Dying, Reap,
     Kill
<1>8. ASSUME NEW s \in 1 .. Slots, Writes(s) PROVE Digested'
  BY <1>8 DEF Writes
<1>9. ASSUME NEW s \in 1 .. Slots, LeaderExits(s) PROVE Digested'
  BY <1>9 DEF LeaderExits
<1>10. ASSUME NEW s \in 1 .. Slots, RestExits(s) PROVE Digested'
  BY <1>10 DEF RestExits
<1>11. CASE Sweep \/ Drift \/ Crash \/ Signal
  BY <1>11 DEF Sweep, Drift, Crash, Signal, Outlived
<1>12. CASE UNCHANGED vars
  BY <1>12 DEF vars, StartHalted
<1> QED
  BY <1>1, <1>2, <1>3, <1>4, <1>5, <1>6, <1>7, <1>8, <1>9, <1>10, <1>11, <1>12 DEF Next,
     Runner, Raises, Group, StartHalted

(* The runner is always in one of its places, at one of the jobs or past    *)
(* them all.                                                                *)
LEMMA RunnerStateStep ==
  ASSUME QueueInv, [Next]_vars
  PROVE  RunnerState'
<1> USE DEF QueueInv, TypeOK, StateFile, RunnerState, World, Placed, Places
<1>1. CASE Start \/ PinsChecked \/ EvidenceStep \/ LoopGoesOn \/ RecoverFails \/
   RecoverFinds \/ Spawned \/ MonitorEnds \/ JudgePasses \/ ValidatePasses \/ Note \/
   SignalValidator
  BY <1>1 DEF Start, PinsChecked, EvidenceStep, LoopGoesOn, RecoverFails, RecoverFinds,
     Spawned, MonitorEnds, JudgePasses, ValidatePasses, Note, SignalValidator, Halt,
     Interrupted, InputsPinned
<1>2. CASE PreflightHalts \/ LoopHalts \/ RecordHalts \/ JudgeFails \/ ValidateFails \/
   NoteFails \/ EvidenceFails \/ FinalFails
  BY <1>2 DEF PreflightHalts, LoopHalts, RecordHalts, JudgeFails, ValidateFails,
     NoteFails, EvidenceFails, FinalFails, Halt
<1>3. CASE Record \/ EvidencePasses
  BY <1>3 DEF Record, EvidencePasses, Publish, Following, NextJob
<1>4. CASE PreflightPasses \/ PreflightRaises \/ FinalPasses
  BY <1>4 DEF PreflightPasses, PreflightRaises, FinalPasses, EvidenceHolds
<1>5. CASE Launch \/ PublishRunning
  BY <1>5 DEF Launch, PublishRunning
<1>6. ASSUME NEW s \in 1 .. Slots, Spawn(s) PROVE RunnerState'
  BY <1>6 DEF Spawn, NewGroup
<1>7. CASE SpawnRaises \/ PublishRaises \/ MonitorGuard \/ Ending \/ Stopping \/ Dying
  BY <1>7 DEF SpawnRaises, PublishRaises, MonitorGuard, Ending, Stopping, Dying, Reap,
     Kill
<1>8. ASSUME NEW s \in 1 .. Slots, Writes(s) PROVE RunnerState'
  BY <1>8 DEF Writes
<1>9. ASSUME NEW s \in 1 .. Slots, LeaderExits(s) PROVE RunnerState'
  BY <1>9 DEF LeaderExits
<1>10. ASSUME NEW s \in 1 .. Slots, RestExits(s) PROVE RunnerState'
  BY <1>10 DEF RestExits
<1>11. CASE Sweep \/ Drift \/ Crash \/ Signal
  BY <1>11 DEF Sweep, Drift, Crash, Signal, Outlived
<1>12. CASE UNCHANGED vars
  BY <1>12 DEF vars, StartHalted
<1> QED
  BY <1>1, <1>2, <1>3, <1>4, <1>5, <1>6, <1>7, <1>8, <1>9, <1>10, <1>11, <1>12 DEF Next,
     Runner, Raises, Group, StartHalted

(* The process groups stay within their slots, whatever they do.            *)
LEMMA WorldStep ==
  ASSUME QueueInv, [Next]_vars
  PROVE  World'
<1> USE DEF QueueInv, TypeOK, World, Placed, Ordered, Good, Content, Processes, Live
<1>1. CASE Start \/ PinsChecked \/ EvidenceStep \/ LoopGoesOn \/ RecoverFails \/
   RecoverFinds \/ Spawned \/ MonitorEnds \/ JudgePasses \/ ValidatePasses \/ Note \/
   SignalValidator
  BY <1>1 DEF Start, PinsChecked, EvidenceStep, LoopGoesOn, RecoverFails, RecoverFinds,
     Spawned, MonitorEnds, JudgePasses, ValidatePasses, Note, SignalValidator, Halt,
     Interrupted, InputsPinned
<1>2. CASE PreflightHalts \/ LoopHalts \/ RecordHalts \/ JudgeFails \/ ValidateFails \/
   NoteFails \/ EvidenceFails \/ FinalFails
  BY <1>2 DEF PreflightHalts, LoopHalts, RecordHalts, JudgeFails, ValidateFails,
     NoteFails, EvidenceFails, FinalFails, Halt
<1>3. CASE Record \/ EvidencePasses
  BY <1>3 DEF Record, EvidencePasses, Publish, Following, NextJob
<1>4. CASE PreflightPasses \/ PreflightRaises \/ FinalPasses
  BY <1>4 DEF PreflightPasses, PreflightRaises, FinalPasses, EvidenceHolds
<1>5. CASE Launch \/ PublishRunning
  BY <1>5 DEF Launch, PublishRunning
<1>6. ASSUME NEW s \in 1 .. Slots, Spawn(s) PROVE World'
  BY <1>6 DEF Spawn, NewGroup
<1>7. CASE SpawnRaises \/ PublishRaises \/ MonitorGuard \/ Ending \/ Stopping \/ Dying
  BY <1>7 DEF SpawnRaises, PublishRaises, MonitorGuard, Ending, Stopping, Dying, Reap,
     Kill
<1>8. ASSUME NEW s \in 1 .. Slots, Writes(s) PROVE World'
  <2>1. slot[s] \in Processes
    BY <1>8 DEF Writes
  <2>2. \A x \in {"writing", "written"} : [slot[s] EXCEPT !.stage = x] \in Processes
    BY <2>1
  <2>3. slot' \in [1 .. Slots -> Processes \cup {Free}]
    BY <1>8, <2>2, Zenon DEF Writes
  <2>4. artifact' \in [Jobs -> Content]
    BY <1>8, <2>1 DEF Writes
  <2> QED
    BY <1>8, <2>3, <2>4 DEF Writes
<1>9. ASSUME NEW s \in 1 .. Slots, LeaderExits(s) PROVE World'
  <2>1. slot[s] \in Processes
    BY <1>9 DEF LeaderExits
  <2>2. [slot[s] EXCEPT !.stage = "rest"] \in Processes
    BY <2>1
  <2>3. slot' \in [1 .. Slots -> Processes \cup {Free}]
    BY <1>9, <2>2 DEF LeaderExits
  <2> QED
    BY <1>9, <2>3 DEF LeaderExits
<1>10. ASSUME NEW s \in 1 .. Slots, RestExits(s) PROVE World'
  BY <1>10 DEF RestExits
<1>11. CASE Sweep \/ Drift \/ Crash \/ Signal
  BY <1>11 DEF Sweep, Drift, Crash, Signal, Outlived
<1>12. CASE UNCHANGED vars
  BY <1>12 DEF vars, StartHalted
<1> QED
  BY <1>1, <1>2, <1>3, <1>4, <1>5, <1>6, <1>7, <1>8, <1>9, <1>10, <1>11, <1>12 DEF Next,
     Runner, Raises, Group, StartHalted

(* Only a fault can abandon a child, so that there are never more children  *)
(* abandoned than faults.                                                   *)
LEMMA HistoryStep ==
  ASSUME QueueInv, [Next]_vars
  PROVE  History'
<1> USE DEF QueueInv, TypeOK, RunnerState, History, Placed
<1>1. CASE Start \/ EvidenceStep \/ LoopGoesOn \/ RecoverFails \/ RecoverFinds \/
   Spawned \/ MonitorEnds \/ JudgePasses \/ ValidatePasses \/ Note
  BY <1>1 DEF Start, EvidenceStep, LoopGoesOn, RecoverFails, RecoverFinds, Spawned,
     MonitorEnds, JudgePasses, ValidatePasses, Note, Halt, Interrupted, InputsPinned
<1>2. CASE PinsChecked \/ SignalValidator
  <2>1. interrupted' \in BOOLEAN
    BY <1>2, Zenon DEF PinsChecked, SignalValidator, Halt, Interrupted, InputsPinned
  <2>2. abandoned' \in 0 .. MaxFaults /\ faults' \in 0 .. MaxFaults
    BY <1>2 DEF PinsChecked, SignalValidator, Halt, Interrupted, InputsPinned
  <2>3. spawns' = spawns /\ tainted' = tainted
    BY <1>2 DEF PinsChecked, SignalValidator, Halt, Interrupted, InputsPinned
  <2> QED
    BY <2>1, <2>2, <2>3
<1>3. CASE PreflightHalts \/ LoopHalts \/ RecordHalts \/ JudgeFails \/ ValidateFails \/
   NoteFails \/ EvidenceFails \/ FinalFails
  BY <1>3 DEF PreflightHalts, LoopHalts, RecordHalts, JudgeFails, ValidateFails,
     NoteFails, EvidenceFails, FinalFails, Halt
<1>4. CASE Record \/ EvidencePasses
  BY <1>4 DEF Record, EvidencePasses, Publish, Following, NextJob
<1>5. CASE PreflightPasses \/ PreflightRaises \/ FinalPasses
  <2>1. interrupted' \in BOOLEAN
    BY <1>5, Zenon DEF PreflightPasses, PreflightRaises, FinalPasses, EvidenceHolds
  <2>2. abandoned' \in 0 .. MaxFaults /\ faults' \in 0 .. MaxFaults
    BY <1>5 DEF PreflightPasses, PreflightRaises, FinalPasses, EvidenceHolds
  <2>3. spawns' = spawns /\ tainted' = tainted
    BY <1>5 DEF PreflightPasses, PreflightRaises, FinalPasses, EvidenceHolds
  <2> QED
    BY <2>1, <2>2, <2>3
<1>6. CASE Launch \/ PublishRunning
  BY <1>6 DEF Launch, PublishRunning
<1>7. ASSUME NEW s \in 1 .. Slots, Spawn(s) PROVE History'
  BY <1>7 DEF Spawn, NewGroup
<1>8. CASE SpawnRaises \/ PublishRaises \/ MonitorGuard \/ Ending \/ Stopping \/ Dying
  <2>1. interrupted' \in BOOLEAN
    BY <1>8, Zenon DEF SpawnRaises, PublishRaises, MonitorGuard, Ending, Stopping,
       Dying, Reap, Kill
  <2>2. abandoned' \in 0 .. MaxFaults /\ faults' \in 0 .. MaxFaults
    BY <1>8 DEF SpawnRaises, PublishRaises, MonitorGuard, Ending, Stopping, Dying, Reap,
       Kill
  <2>3. spawns' = spawns /\ tainted' = tainted
    BY <1>8 DEF SpawnRaises, PublishRaises, MonitorGuard, Ending, Stopping, Dying, Reap,
       Kill
  <2> QED
    BY <2>1, <2>2, <2>3
<1>9. ASSUME NEW s \in 1 .. Slots, Writes(s) PROVE History'
  BY <1>9 DEF Writes
<1>10. ASSUME NEW s \in 1 .. Slots, LeaderExits(s) PROVE History'
  BY <1>10 DEF LeaderExits
<1>11. ASSUME NEW s \in 1 .. Slots, RestExits(s) PROVE History'
  BY <1>11 DEF RestExits
<1>12. CASE Sweep \/ Drift \/ Crash \/ Signal
  <2>1. interrupted' \in BOOLEAN
    BY <1>12, Zenon DEF Sweep, Drift, Crash, Signal, Outlived
  <2>2. abandoned' \in 0 .. MaxFaults /\ faults' \in 0 .. MaxFaults
    BY <1>12 DEF Sweep, Drift, Crash, Signal, Outlived
  <2>3. spawns' = spawns /\ tainted' \subseteq Jobs
    BY <1>12 DEF Sweep, Drift, Crash, Signal, Outlived
  <2> QED
    BY <2>1, <2>2, <2>3
<1>13. CASE UNCHANGED vars
  BY <1>13 DEF vars, StartHalted
<1> QED
  BY <1>1, <1>2, <1>3, <1>4, <1>5, <1>6, <1>7, <1>8, <1>9, <1>10, <1>11, <1>12, <1>13
     DEF Next, Runner, Raises, Group, StartHalted

(* What a step leaves to the next one: a job to work on, the child to       *)
(* watch, the digest to publish.                                            *)
LEMMA PlaceStep ==
  ASSUME QueueInv, [Next]_vars
  PROVE  Placed'
<1> USE DEF QueueInv, TypeOK, StateFile, World, History, Placed, Early, Checking
<1>1. CASE Start \/ PinsChecked \/ EvidenceStep \/ LoopGoesOn \/ RecoverFails \/
   RecoverFinds \/ Spawned \/ MonitorEnds \/ JudgePasses \/ ValidatePasses \/
   SignalValidator
  BY <1>1 DEF Start, PinsChecked, EvidenceStep, LoopGoesOn, RecoverFails, RecoverFinds,
     Spawned, MonitorEnds, JudgePasses, ValidatePasses, SignalValidator, Halt,
     Interrupted, InputsPinned
<1>2. CASE Note
  BY <1>2 DEF Note, Halt, Interrupted, InputsPinned, Content, Good
<1>3. CASE PreflightHalts \/ LoopHalts \/ RecordHalts \/ JudgeFails \/ ValidateFails \/
   NoteFails \/ EvidenceFails \/ FinalFails
  BY <1>3 DEF PreflightHalts, LoopHalts, RecordHalts, JudgeFails, ValidateFails,
     NoteFails, EvidenceFails, FinalFails, Halt
<1>4. CASE Record \/ EvidencePasses
  BY <1>4 DEF Record, EvidencePasses, Publish, Following, NextJob
<1>5. CASE PreflightPasses \/ PreflightRaises \/ FinalPasses
  BY <1>5 DEF PreflightPasses, PreflightRaises, FinalPasses, EvidenceHolds
<1>6. CASE Launch \/ PublishRunning
  BY <1>6 DEF Launch, PublishRunning
<1>7. ASSUME NEW s \in 1 .. Slots, Spawn(s) PROVE Placed'
  BY <1>7 DEF Spawn, NewGroup
<1>8. CASE SpawnRaises \/ PublishRaises \/ MonitorGuard \/ Ending \/ Stopping \/ Dying
  BY <1>8 DEF SpawnRaises, PublishRaises, MonitorGuard, Ending, Stopping, Dying, Reap,
     Kill
<1>9. ASSUME NEW s \in 1 .. Slots, Writes(s) PROVE Placed'
  BY <1>9 DEF Writes
<1>10. ASSUME NEW s \in 1 .. Slots, LeaderExits(s) PROVE Placed'
  BY <1>10 DEF LeaderExits
<1>11. ASSUME NEW s \in 1 .. Slots, RestExits(s) PROVE Placed'
  BY <1>11 DEF RestExits
<1>12. CASE Sweep \/ Drift \/ Crash \/ Signal
  BY <1>12 DEF Sweep, Drift, Crash, Signal, Outlived
<1>13. CASE UNCHANGED vars
  BY <1>13 DEF vars, StartHalted
<1> QED
  BY <1>1, <1>2, <1>3, <1>4, <1>5, <1>6, <1>7, <1>8, <1>9, <1>10, <1>11, <1>12, <1>13
     DEF Next, Runner, Raises, Group, StartHalted

(* The runner goes on to the next job only when this one is complete, and   *)
(* back to the first one only when it starts again.                         *)
LEMMA OrderStep ==
  ASSUME QueueInv, [Next]_vars
  PROVE  Ordered'
<1> USE DEF QueueInv, TypeOK, StateFile, Placed, Ordered, Early, Closing, JobStates
<1>1. CASE Start \/ PinsChecked \/ EvidenceStep \/ LoopGoesOn \/ RecoverFails \/
   RecoverFinds \/ Spawned \/ MonitorEnds \/ JudgePasses \/ ValidatePasses \/ Note \/
   SignalValidator
  BY <1>1 DEF Start, PinsChecked, EvidenceStep, LoopGoesOn, RecoverFails, RecoverFinds,
     Spawned, MonitorEnds, JudgePasses, ValidatePasses, Note, SignalValidator, Halt,
     Interrupted, InputsPinned
<1>2. CASE PreflightHalts \/ LoopHalts \/ RecordHalts \/ JudgeFails \/ ValidateFails \/
   NoteFails \/ EvidenceFails \/ FinalFails
  BY <1>2 DEF PreflightHalts, LoopHalts, RecordHalts, JudgeFails, ValidateFails,
     NoteFails, EvidenceFails, FinalFails, Halt
<1>3. CASE Record \/ EvidencePasses
  BY <1>3 DEF Record, EvidencePasses, Publish, Following, NextJob
<1>4. CASE PreflightPasses \/ PreflightRaises \/ FinalPasses
  BY <1>4 DEF PreflightPasses, PreflightRaises, FinalPasses, EvidenceHolds
<1>5. CASE Launch \/ PublishRunning
  BY <1>5 DEF Launch, PublishRunning
<1>6. ASSUME NEW s \in 1 .. Slots, Spawn(s) PROVE Ordered'
  BY <1>6 DEF Spawn, NewGroup
<1>7. CASE SpawnRaises \/ PublishRaises \/ MonitorGuard \/ Ending \/ Stopping \/ Dying
  BY <1>7 DEF SpawnRaises, PublishRaises, MonitorGuard, Ending, Stopping, Dying, Reap,
     Kill
<1>8. ASSUME NEW s \in 1 .. Slots, Writes(s) PROVE Ordered'
  BY <1>8 DEF Writes
<1>9. ASSUME NEW s \in 1 .. Slots, LeaderExits(s) PROVE Ordered'
  BY <1>9 DEF LeaderExits
<1>10. ASSUME NEW s \in 1 .. Slots, RestExits(s) PROVE Ordered'
  BY <1>10 DEF RestExits
<1>11. CASE Sweep \/ Drift \/ Crash \/ Signal
  BY <1>11 DEF Sweep, Drift, Crash, Signal, Outlived
<1>12. CASE UNCHANGED vars
  BY <1>12 DEF vars, StartHalted
<1> QED
  BY <1>1, <1>2, <1>3, <1>4, <1>5, <1>6, <1>7, <1>8, <1>9, <1>10, <1>11, <1>12 DEF Next,
     Runner, Raises, Group, StartHalted

(* A job is `launching` in the state file before its process is started,    *)
(* and LoopHalts then stops all runners that come after, unless it is safe  *)
(* to resume.                                                               *)
LEMMA OnceStep ==
  ASSUME QueueInv, [Next]_vars
  PROVE  Once'
<1> USE DEF QueueInv, TypeOK, StateFile, History, Placed, Ordered, Once, JobStates
<1>1. CASE Start \/ PinsChecked \/ EvidenceStep \/ LoopGoesOn \/ RecoverFails \/
   RecoverFinds \/ Spawned \/ MonitorEnds \/ JudgePasses \/ ValidatePasses \/ Note \/
   SignalValidator
  BY <1>1 DEF Start, PinsChecked, EvidenceStep, LoopGoesOn, RecoverFails, RecoverFinds,
     Spawned, MonitorEnds, JudgePasses, ValidatePasses, Note, SignalValidator, Halt,
     Interrupted, InputsPinned
<1>2. CASE PreflightHalts \/ LoopHalts \/ RecordHalts \/ JudgeFails \/ ValidateFails \/
   NoteFails \/ EvidenceFails \/ FinalFails
  BY <1>2 DEF PreflightHalts, LoopHalts, RecordHalts, JudgeFails, ValidateFails,
     NoteFails, EvidenceFails, FinalFails, Halt
<1>3. CASE Record \/ EvidencePasses
  BY <1>3 DEF Record, EvidencePasses, Publish, Following, NextJob
<1>4. CASE PreflightPasses \/ PreflightRaises \/ FinalPasses
  BY <1>4 DEF PreflightPasses, PreflightRaises, FinalPasses, EvidenceHolds
<1>5. CASE Launch \/ PublishRunning
  BY <1>5 DEF Launch, PublishRunning
<1>6. ASSUME NEW s \in 1 .. Slots, Spawn(s) PROVE Once'
  BY <1>6 DEF Spawn, NewGroup
<1>7. CASE SpawnRaises \/ PublishRaises \/ MonitorGuard \/ Ending \/ Stopping \/ Dying
  BY <1>7 DEF SpawnRaises, PublishRaises, MonitorGuard, Ending, Stopping, Dying, Reap,
     Kill
<1>8. ASSUME NEW s \in 1 .. Slots, Writes(s) PROVE Once'
  BY <1>8 DEF Writes
<1>9. ASSUME NEW s \in 1 .. Slots, LeaderExits(s) PROVE Once'
  BY <1>9 DEF LeaderExits
<1>10. ASSUME NEW s \in 1 .. Slots, RestExits(s) PROVE Once'
  BY <1>10 DEF RestExits
<1>11. CASE Sweep \/ Drift \/ Crash \/ Signal
  BY <1>11 DEF Sweep, Drift, Crash, Signal, Outlived
<1>12. CASE UNCHANGED vars
  BY <1>12 DEF vars, StartHalted
<1> QED
  BY <1>1, <1>2, <1>3, <1>4, <1>5, <1>6, <1>7, <1>8, <1>9, <1>10, <1>11, <1>12 DEF Next,
     Runner, Raises, Group, StartHalted

(* Drift is final, and it is looked for after the process has ended.        *)
LEMMA TaintStep ==
  ASSUME QueueInv, [Next]_vars
  PROVE  Untainted'
<1> USE DEF QueueInv, TypeOK, StateFile, History, Ordered, Untainted, DriftNeverCounts
<1>1. CASE Start \/ PinsChecked \/ EvidenceStep \/ LoopGoesOn \/ RecoverFails \/
   RecoverFinds \/ Spawned \/ MonitorEnds \/ JudgePasses \/ ValidatePasses \/ Note \/
   SignalValidator
  BY <1>1 DEF Start, PinsChecked, EvidenceStep, LoopGoesOn, RecoverFails, RecoverFinds,
     Spawned, MonitorEnds, JudgePasses, ValidatePasses, Note, SignalValidator, Halt,
     Interrupted, InputsPinned
<1>2. CASE PreflightHalts \/ LoopHalts \/ RecordHalts \/ JudgeFails \/ ValidateFails \/
   NoteFails \/ EvidenceFails \/ FinalFails
  BY <1>2 DEF PreflightHalts, LoopHalts, RecordHalts, JudgeFails, ValidateFails,
     NoteFails, EvidenceFails, FinalFails, Halt
<1>3. CASE Record \/ EvidencePasses
  BY <1>3 DEF Record, EvidencePasses, Publish, Following, NextJob
<1>4. CASE PreflightPasses \/ PreflightRaises \/ FinalPasses
  BY <1>4 DEF PreflightPasses, PreflightRaises, FinalPasses, EvidenceHolds
<1>5. CASE Launch \/ PublishRunning
  BY <1>5 DEF Launch, PublishRunning
<1>6. ASSUME NEW s \in 1 .. Slots, Spawn(s) PROVE Untainted'
  BY <1>6 DEF Spawn, NewGroup
<1>7. CASE SpawnRaises \/ PublishRaises \/ MonitorGuard \/ Ending \/ Stopping \/ Dying
  BY <1>7 DEF SpawnRaises, PublishRaises, MonitorGuard, Ending, Stopping, Dying, Reap,
     Kill
<1>8. ASSUME NEW s \in 1 .. Slots, Writes(s) PROVE Untainted'
  BY <1>8 DEF Writes
<1>9. ASSUME NEW s \in 1 .. Slots, LeaderExits(s) PROVE Untainted'
  BY <1>9 DEF LeaderExits
<1>10. ASSUME NEW s \in 1 .. Slots, RestExits(s) PROVE Untainted'
  BY <1>10 DEF RestExits
<1>11. CASE Sweep \/ Drift \/ Crash \/ Signal
  BY <1>11 DEF Sweep, Drift, Crash, Signal, Outlived
<1>12. CASE UNCHANGED vars
  BY <1>12 DEF vars, StartHalted
<1> QED
  BY <1>1, <1>2, <1>3, <1>4, <1>5, <1>6, <1>7, <1>8, <1>9, <1>10, <1>11, <1>12 DEF Next,
     Runner, Raises, Group, StartHalted

(* Under the unit nobody writes while the evidence is checked: the artifact *)
(* that was validated is the one whose digest is compared.                  *)
LEMMA CheckedStep ==
  ASSUME QueueInv, [Next]_vars
  PROVE  Checked'
<1> USE DEF QueueInv, TypeOK, StateFile, RunnerState, World, History, Digested, Placed,
       Ordered, Alone, Live, Early, Closing, Checking, Checked, Recorded, Valid,
       SameBytes, EvidenceOnDisk
<1>1. CASE Start \/ PinsChecked \/ LoopGoesOn \/ RecoverFails \/ RecoverFinds \/ Spawned
   \/ MonitorEnds \/ JudgePasses \/ ValidatePasses \/ Note \/ SignalValidator
  BY <1>1 DEF Start, PinsChecked, LoopGoesOn, RecoverFails, RecoverFinds, Spawned,
     MonitorEnds, JudgePasses, ValidatePasses, Note, SignalValidator, Halt,
     Interrupted, InputsPinned
<1>2. CASE EvidenceStep
  <2> SUFFICES ASSUME Unit PROVE Checked'
    BY DEF Checked
  <2>1. /\ UNCHANGED <<pc, at, noted, digest, artifact, queue, slot>>
        /\ seen' = seen + 1 /\ seen \in Nat /\ pc \in Checking
    BY <1>2 DEF EvidenceStep
  <2>2. ASSUME NEW j \in Jobs, Recorded[j] # NoDigest
        PROVE  (seen' >= 2 * j - 1 => Valid(j)) /\ (seen' >= 2 * j => SameBytes(j))
    <3>1. CASE seen = 2 * (j - 1)
      <4>1. seen \div 2 + 1 = j /\ seen % 2 = 0
        BY <2>1, <3>1
      <4> QED
        BY <1>2, <2>1, <2>2, <3>1, <4>1 DEF EvidenceStep
    <3>2. CASE seen = 2 * (j - 1) + 1
      <4>1. j - 1 \in Nat /\ seen = 2 * (j - 1) + 1 /\ seen \in Nat
        BY <2>1, <3>2
      <4>2. seen \div 2 = j - 1 /\ seen % 2 = 1
        BY <4>1, Odd, Zenon
      <4>3. seen \div 2 + 1 = j /\ seen % 2 # 0
        BY <4>2
      <4>4. SameBytes(j)
        BY <1>2, <2>2, <4>3 DEF EvidenceStep
      <4>5. Valid(j)
        BY <2>1, <2>2, <3>2
      <4> QED
        BY <4>4, <4>5
    <3> QED
      BY <2>1, <2>2, <3>1, <3>2
  <2> QED
    BY <2>1, <2>2
<1>3. CASE PreflightHalts \/ LoopHalts \/ RecordHalts \/ JudgeFails \/ ValidateFails \/
   NoteFails \/ EvidenceFails \/ FinalFails
  BY <1>3 DEF PreflightHalts, LoopHalts, RecordHalts, JudgeFails, ValidateFails,
     NoteFails, EvidenceFails, FinalFails, Halt
<1>4. CASE Record \/ EvidencePasses
  BY <1>4 DEF Record, EvidencePasses, Publish, Following, NextJob
<1>5. CASE PreflightPasses \/ PreflightRaises
  BY <1>5 DEF PreflightPasses, PreflightRaises, EvidenceHolds
<1>6. CASE FinalPasses
  <2>1. \A j \in Jobs : Recorded[j] = digest[j] /\ digest[j] # NoDigest
    BY <1>6 DEF FinalPasses
  <2>2. seen = 2 * N /\ \A j \in Jobs : seen >= 2 * j /\ seen >= 2 * j - 1
    BY <1>6 DEF FinalPasses, EvidenceHolds
  <2>3. Unit => \A j \in Jobs : artifact[j] = digest[j] /\ artifact[j] \in Accepts[j]
    BY <1>6, <2>1, <2>2 DEF FinalPasses
  <2> QED
    BY <1>6, <2>3 DEF FinalPasses
<1>7. CASE Launch \/ PublishRunning
  BY <1>7 DEF Launch, PublishRunning
<1>8. ASSUME NEW s \in 1 .. Slots, Spawn(s) PROVE Checked'
  BY <1>8 DEF Spawn, NewGroup
<1>9. CASE SpawnRaises \/ PublishRaises \/ MonitorGuard \/ Ending \/ Stopping \/ Dying
  BY <1>9 DEF SpawnRaises, PublishRaises, MonitorGuard, Ending, Stopping, Dying, Reap,
     Kill
<1>10. ASSUME NEW s \in 1 .. Slots, Writes(s) PROVE Checked'
  <2>1. s \in Live
    BY <1>10 DEF Writes
  <2>2. Unit => pc \notin Checking /\ queue # "complete"
    BY <2>1
  <2> QED
    BY <1>10, <2>2 DEF Writes
<1>11. ASSUME NEW s \in 1 .. Slots, LeaderExits(s) PROVE Checked'
  BY <1>11 DEF LeaderExits
<1>12. ASSUME NEW s \in 1 .. Slots, RestExits(s) PROVE Checked'
  BY <1>12 DEF RestExits
<1>13. CASE Sweep \/ Drift \/ Crash \/ Signal
  BY <1>13 DEF Sweep, Drift, Crash, Signal, Outlived
<1>14. CASE UNCHANGED vars
  BY <1>14 DEF vars, StartHalted
<1> QED
  BY <1>1, <1>2, <1>3, <1>4, <1>5, <1>6, <1>7, <1>8, <1>9, <1>10, <1>11, <1>12, <1>13,
     <1>14 DEF Next, Runner, Raises, Group, StartHalted

(* A child is killed on every way out of the watch but a fault, and the     *)
(* unit does not start a runner before the last one's processes are gone.   *)
LEMMA AloneStep ==
  ASSUME QueueInv, [Next]_vars
  PROVE  Alone'
<1> USE DEF QueueInv, TypeOK, World, History, Alone, Live
<1>1. CASE Start \/ PinsChecked \/ EvidenceStep \/ LoopGoesOn \/ RecoverFails \/
   RecoverFinds \/ Spawned \/ MonitorEnds \/ JudgePasses \/ ValidatePasses \/ Note \/
   SignalValidator
  BY <1>1 DEF Start, PinsChecked, EvidenceStep, LoopGoesOn, RecoverFails, RecoverFinds,
     Spawned, MonitorEnds, JudgePasses, ValidatePasses, Note, SignalValidator, Halt,
     Interrupted, InputsPinned
<1>2. CASE PreflightHalts \/ LoopHalts \/ RecordHalts \/ JudgeFails \/ ValidateFails \/
   NoteFails \/ EvidenceFails \/ FinalFails
  BY <1>2 DEF PreflightHalts, LoopHalts, RecordHalts, JudgeFails, ValidateFails,
     NoteFails, EvidenceFails, FinalFails, Halt
<1>3. CASE Record \/ EvidencePasses
  BY <1>3 DEF Record, EvidencePasses, Publish, Following, NextJob
<1>4. CASE PreflightPasses \/ PreflightRaises \/ FinalPasses
  BY <1>4 DEF PreflightPasses, PreflightRaises, FinalPasses, EvidenceHolds
<1>5. CASE Launch \/ PublishRunning
  BY <1>5 DEF Launch, PublishRunning
<1>6. ASSUME NEW s \in 1 .. Slots, Spawn(s) PROVE Alone'
  BY <1>6 DEF Spawn, NewGroup
<1>7. CASE SpawnRaises
  BY <1>7 DEF SpawnRaises, Reap, Kill
<1>8. CASE PublishRaises \/ MonitorGuard \/ Ending \/ Stopping \/ Dying
  <2>1. Kill /\ pc \in Watched /\ UNCHANGED abandoned
    BY <1>8 DEF PublishRaises, MonitorGuard, Ending, Stopping, Dying, Reap, Kill
  <2>2. abandoned = 0 \/ Unit => Live' = {}
    BY <2>1 DEF Kill
  <2> QED
    BY <1>8, <2>1, <2>2 DEF PublishRaises, MonitorGuard, Ending, Stopping, Dying, Reap,
       Kill
<1>9. ASSUME NEW s \in 1 .. Slots, Writes(s) PROVE Alone'
  <2>1. slot[s] # Free /\ \A x \in {"writing", "written"} : [slot[s] EXCEPT !.stage = x]
     # Free
    BY <1>9 DEF Writes, Processes
  <2>2. ASSUME NEW t \in 1 .. Slots PROVE slot'[t] # Free <=> slot[t] # Free
    BY <1>9, <2>1 DEF Writes
  <2>3. Live' = Live
    BY <2>2
  <2> QED
    BY <1>9, <2>3 DEF Writes
<1>10. ASSUME NEW s \in 1 .. Slots, LeaderExits(s) PROVE Alone'
  BY <1>10 DEF LeaderExits
<1>11. ASSUME NEW s \in 1 .. Slots, RestExits(s) PROVE Alone'
  BY <1>11 DEF RestExits
<1>12. CASE Sweep \/ Drift \/ Crash
  BY <1>12 DEF Sweep, Drift, Crash, Outlived
<1>13. CASE Signal
  <2>1. CASE pc \in {"spawned", "monitor", "stopping"}
    BY <1>13, <2>1 DEF Signal, Outlived
  <2>2. CASE pc \notin {"spawned", "monitor", "stopping"}
    BY <1>13, <2>2 DEF Signal, Outlived
  <2> QED
    BY <2>1, <2>2
<1>14. CASE UNCHANGED vars
  BY <1>14 DEF vars, StartHalted
<1> QED
  BY <1>1, <1>2, <1>3, <1>4, <1>5, <1>6, <1>7, <1>8, <1>9, <1>10, <1>11, <1>12, <1>13,
     <1>14 DEF Next, Runner, Raises, Group, StartHalted

(* Every step is one of JobQueue's or changes nothing that it shows.        *)
LEMMA PromiseStep ==
  ASSUME QueueInv, [Next]_vars
  PROVE  [Promise!Next]_(Promise!vars)
<1> USE DEF QueueInv, TypeOK, StateFile, Placed, Ordered, Once, Early, Closing,
       Promise!Next, Promise!vars, Promise!Halt, Promise!Finish, Promise!Run,
       Promise!Complete, Promise!MyTurn, Promise!Jobs
<1>1. CASE Start \/ PinsChecked \/ EvidenceStep \/ LoopGoesOn \/ RecoverFails \/
   RecoverFinds \/ Spawned \/ MonitorEnds \/ JudgePasses \/ ValidatePasses \/ Note \/
   SignalValidator
  BY <1>1 DEF Start, PinsChecked, EvidenceStep, LoopGoesOn, RecoverFails, RecoverFinds,
     Spawned, MonitorEnds, JudgePasses, ValidatePasses, Note, SignalValidator, Halt,
     Interrupted, InputsPinned
<1>2. CASE PreflightHalts \/ LoopHalts \/ RecordHalts \/ JudgeFails \/ ValidateFails \/
   NoteFails \/ EvidenceFails \/ FinalFails
  BY <1>2 DEF PreflightHalts, LoopHalts, RecordHalts, JudgeFails, ValidateFails,
     NoteFails, EvidenceFails, FinalFails, Halt
<1>3. CASE Record
  BY <1>3 DEF Record, Publish, Following, NextJob
<1>4. CASE EvidencePasses
  <2>1. at \in Jobs /\ Promise!MyTurn(at)
    BY <1>4 DEF EvidencePasses
  <2>2. queue' = queue /\ job' = [job EXCEPT ![at] = "complete"] /\ spawns' = spawns
    BY <1>4 DEF EvidencePasses, Publish, Following, NextJob
  <2>3. Promise!Finish(at)
    BY <2>1, <2>2
  <2> QED
    BY <2>1, <2>3
<1>5. CASE PreflightPasses \/ PreflightRaises \/ FinalPasses
  BY <1>5 DEF PreflightPasses, PreflightRaises, FinalPasses, EvidenceHolds
<1>6. CASE Launch \/ PublishRunning
  BY <1>6 DEF Launch, PublishRunning
<1>7. ASSUME NEW s \in 1 .. Slots, Spawn(s) PROVE [Promise!Next]_(Promise!vars)
  <2>1. at \in Jobs /\ Promise!MyTurn(at) /\ (spawns[at] = 0 \/ at \in ResumeSafe)
    BY <1>7 DEF Spawn
  <2>2. queue' = queue /\ job' = job /\ spawns' = [spawns EXCEPT ![at] = @ + 1]
    BY <1>7 DEF Spawn, NewGroup
  <2>3. Promise!Run(at)
    BY <2>1, <2>2
  <2> QED
    BY <2>1, <2>3
<1>8. CASE SpawnRaises \/ PublishRaises \/ MonitorGuard \/ Ending \/ Stopping \/ Dying
  BY <1>8 DEF SpawnRaises, PublishRaises, MonitorGuard, Ending, Stopping, Dying, Reap,
     Kill
<1>9. ASSUME NEW s \in 1 .. Slots, Writes(s) PROVE [Promise!Next]_(Promise!vars)
  BY <1>9 DEF Writes
<1>10. ASSUME NEW s \in 1 .. Slots, LeaderExits(s) PROVE [Promise!Next]_(Promise!vars)
  BY <1>10 DEF LeaderExits
<1>11. ASSUME NEW s \in 1 .. Slots, RestExits(s) PROVE [Promise!Next]_(Promise!vars)
  BY <1>11 DEF RestExits
<1>12. CASE Sweep \/ Drift \/ Crash \/ Signal
  BY <1>12 DEF Sweep, Drift, Crash, Signal, Outlived
<1>13. CASE UNCHANGED vars
  BY <1>13 DEF vars, StartHalted
<1> QED
  BY <1>1, <1>2, <1>3, <1>4, <1>5, <1>6, <1>7, <1>8, <1>9, <1>10, <1>11, <1>12, <1>13
     DEF Next, Runner, Raises, Group, StartHalted

----------------------------------------------------------------------------
(* Processes that a runner has left behind.                                 *)

(* What a process does to itself: it goes on, rests, or goes.               *)
Ages(g, h) ==
  \/ h = g \/ h = Free
  \/ h.job = g.job /\ g.stage = "started" /\ h.stage = "writing"
  \/ h.job = g.job /\ g.stage = "writing" /\ h.stage = "written"
  \/ h.job = g.job /\ h.stage = "rest"

(* No process comes to write what it did not write before.                  *)
LEMMA AgesCalmly ==
  ASSUME NEW g, NEW h, Ages(g, h), NEW j \in Jobs, NEW c, MayWrite(h, j, c)
  PROVE  MayWrite(g, j, c)
BY DEF Ages, MayWrite, Good

(* A new one writes to the artifacts of other jobs nothing but "v2".        *)
LEMMA NewcomerWrites ==
  ASSUME NEW j \in Jobs, NEW k, k # j, NEW c, MayWrite([job |-> k, stage |-> "started"], j, c)
  PROVE  c = "v2"
BY DEF MayWrite

(* Contents that are stuck stay so.                                         *)
LEMMA StuckStays ==
  ASSUME NEW old, NEW new, NEW a, NEW b \in Content, NEW j \in Jobs, NEW d \in Content,
         Stuck(old, a, j, d),
         \A s \in 1 .. Slots, c \in Content :
           MayWrite(new[s], j, c) => MayWrite(old[s], j, c) \/ c = "v2",
         b = a \/ \E s \in 1 .. Slots : MayWrite(old[s], j, b)
  PROVE  Stuck(new, b, j, d)
<1>1. CASE d = "v2"
  BY <1>1 DEF Stuck
<1>2. CASE d # "v2"
  BY <1>2 DEF Stuck
<1> QED
  BY <1>1, <1>2

(* The contents c of job j's artifact are what the process h has written.    *)
Wrote(h, j, c) ==
  \/ h.job = j /\ h.stage = "writing" /\ c = "partial"
  \/ h.job = j /\ h.stage = "written"
  \/ h.job > j /\ h.job \in Jobs /\ c = "v2"

(* The process that has just written is the only one: what it wrote, if it  *)
(* is not accepted, is stuck.                                               *)
LEMMA WrittenSticks ==
  ASSUME NEW j \in Jobs, NEW s \in 1 .. Slots, NEW groups, NEW d \in Content,
         \A t \in 1 .. Slots : t # s => groups[t] = Free,
         Wrote(groups[s], j, d)
  PROVE  Stuck(groups, d, j, d)
<1>1. \A t \in 1 .. Slots, c \in Content : MayWrite(groups[t], j, c) => t = s
  BY DEF MayWrite
<1>2. CASE d = "v2"
  BY <1>1, <1>2 DEF Stuck, MayWrite, Wrote
<1>3. CASE d # "v2"
  BY <1>1, <1>3 DEF Stuck, MayWrite, Wrote, Good, Content
<1> QED
  BY <1>2, <1>3

(* What a step does to the process groups.                                  *)
LEMMA GroupsStep ==
  ASSUME QueueInv, [Next]_vars, NEW s \in 1 .. Slots
  PROVE  \/ Ages(slot[s], slot'[s])
         \/ pc = "spawn" /\ slot'[s] = [job |-> at, stage |-> "started"]
<1> USE DEF QueueInv, TypeOK, World, RunnerState, Placed, Ages
<1>1. CASE Start \/ PinsChecked \/ EvidenceStep \/ LoopGoesOn \/ RecoverFails \/
   RecoverFinds \/ Spawned \/ MonitorEnds \/ JudgePasses \/ ValidatePasses \/ Note \/
   SignalValidator
  BY <1>1 DEF Start, PinsChecked, EvidenceStep, LoopGoesOn, RecoverFails, RecoverFinds,
     Spawned, MonitorEnds, JudgePasses, ValidatePasses, Note, SignalValidator
<1>2. CASE PreflightHalts \/ LoopHalts \/ RecordHalts \/ JudgeFails \/ ValidateFails \/
   NoteFails \/ EvidenceFails \/ FinalFails
  BY <1>2 DEF PreflightHalts, LoopHalts, RecordHalts, JudgeFails, ValidateFails,
     NoteFails, EvidenceFails, FinalFails
<1>3. CASE Record \/ EvidencePasses \/ PreflightPasses \/ PreflightRaises \/ FinalPasses
  BY <1>3 DEF Record, EvidencePasses, PreflightPasses, PreflightRaises, FinalPasses
<1>4. CASE Launch \/ PublishRunning \/ SpawnRaises
  BY <1>4 DEF Launch, PublishRunning, SpawnRaises
<1>5. ASSUME NEW t \in 1 .. Slots, Spawn(t)
      PROVE  \/ Ages(slot[s], slot'[s])
             \/ pc = "spawn" /\ slot'[s] = [job |-> at, stage |-> "started"]
  BY <1>5 DEF Spawn, NewGroup
<1>6. CASE PublishRaises \/ MonitorGuard \/ Ending \/ Stopping \/ Dying
  BY <1>6 DEF PublishRaises, MonitorGuard, Ending, Stopping, Dying, Reap, Kill
<1>7. ASSUME NEW t \in 1 .. Slots, Writes(t) PROVE Ages(slot[s], slot'[s])
  <2>1. slot[t] \in Processes
    BY <1>7 DEF Writes
  <2> QED
    BY <1>7, <2>1 DEF Writes, Processes
<1>8. ASSUME NEW t \in 1 .. Slots, LeaderExits(t) PROVE Ages(slot[s], slot'[s])
  <2>1. slot[t] \in Processes
    BY <1>8 DEF LeaderExits, Live
  <2> QED
    BY <1>8, <2>1 DEF LeaderExits, Processes
<1>9. ASSUME NEW t \in 1 .. Slots, RestExits(t) PROVE Ages(slot[s], slot'[s])
  BY <1>9 DEF RestExits
<1>10. CASE Sweep \/ Drift \/ Crash \/ Signal
  BY <1>10 DEF Sweep, Drift, Crash, Signal
<1>11. CASE UNCHANGED vars
  BY <1>11 DEF vars, StartHalted
<1> QED
  BY <1>1, <1>2, <1>3, <1>4, <1>5, <1>6, <1>7, <1>8, <1>9, <1>10, <1>11 DEF Next,
     Runner, Raises, Group, StartHalted

(* Only a process group changes an artifact, and it is still there then.    *)
LEMMA WriterStep ==
  ASSUME QueueInv, [Next]_vars, NEW j \in Jobs, artifact'[j] # artifact[j]
  PROVE  \E s \in 1 .. Slots :
           MayWrite(slot[s], j, artifact'[j]) /\ Wrote(slot'[s], j, artifact'[j])
<1> USE DEF QueueInv, TypeOK, World
<1>1. ASSUME NEW s \in 1 .. Slots, Writes(s)
      PROVE  MayWrite(slot[s], j, artifact'[j]) /\ Wrote(slot'[s], j, artifact'[j])
  <2>1. slot[s] \in Processes
    BY <1>1 DEF Writes
  <2>2. slot[s].job \in Jobs
    BY <2>1 DEF Processes
  <2>3. CASE slot[s].stage = "started"
    <3>1. slot'[s].job = slot[s].job /\ slot'[s].stage = "writing"
      BY <1>1, <2>1, <2>3 DEF Writes, Processes
    <3>2. artifact' = [artifact EXCEPT ![slot[s].job] = "partial"]
      BY <1>1, <2>3 DEF Writes
    <3> QED
      BY <2>2, <2>3, <3>1, <3>2 DEF MayWrite, Wrote
  <2>4. CASE slot[s].stage = "writing"
    <3>1. slot'[s].job = slot[s].job /\ slot'[s].stage = "written"
      BY <1>1, <2>1, <2>4 DEF Writes, Processes
    <3>2. \E c \in Good : artifact' = [artifact EXCEPT ![slot[s].job] = c]
      BY <1>1, <2>4 DEF Writes
    <3> QED
      BY <2>2, <2>4, <3>1, <3>2 DEF MayWrite, Wrote
  <2>5. CASE slot[s].stage = "written"
    <3>1. slot' = slot
      BY <1>1, <2>5 DEF Writes
    <3>2. PICK k \in 1 .. slot[s].job - 1 : artifact' = [artifact EXCEPT ![k] = "v2"]
      BY <1>1, <2>5 DEF Writes
    <3> QED
      BY <2>2, <2>5, <3>1, <3>2 DEF MayWrite, Wrote
  <2> QED
    BY <1>1, <2>3, <2>4, <2>5 DEF Writes
<1>2. CASE Start \/ PinsChecked \/ EvidenceStep \/ LoopGoesOn \/ RecoverFails \/
   RecoverFinds \/ Spawned \/ MonitorEnds \/ JudgePasses \/ ValidatePasses \/ Note \/
   SignalValidator
  BY <1>2 DEF Start, PinsChecked, EvidenceStep, LoopGoesOn, RecoverFails, RecoverFinds,
     Spawned, MonitorEnds, JudgePasses, ValidatePasses, Note, SignalValidator
<1>3. CASE PreflightHalts \/ LoopHalts \/ RecordHalts \/ JudgeFails \/ ValidateFails \/
   NoteFails \/ EvidenceFails \/ FinalFails
  BY <1>3 DEF PreflightHalts, LoopHalts, RecordHalts, JudgeFails, ValidateFails,
     NoteFails, EvidenceFails, FinalFails
<1>4. CASE Record \/ EvidencePasses \/ PreflightPasses \/ PreflightRaises \/ FinalPasses
  BY <1>4 DEF Record, EvidencePasses, PreflightPasses, PreflightRaises, FinalPasses
<1>5. CASE Launch \/ PublishRunning \/ SpawnRaises \/ \E t \in 1 .. Slots : Spawn(t)
  BY <1>5 DEF Launch, PublishRunning, SpawnRaises, Spawn
<1>6. CASE PublishRaises \/ MonitorGuard \/ Ending \/ Stopping \/ Dying
  BY <1>6 DEF PublishRaises, MonitorGuard, Ending, Stopping, Dying
<1>7. CASE \E t \in 1 .. Slots : LeaderExits(t) \/ RestExits(t)
  BY <1>7 DEF LeaderExits, RestExits
<1>8. CASE Sweep \/ Drift \/ Crash \/ Signal
  BY <1>8 DEF Sweep, Drift, Crash, Signal
<1>9. CASE UNCHANGED vars
  BY <1>9 DEF vars, StartHalted
<1> QED
  BY <1>1, <1>2, <1>3, <1>4, <1>5, <1>6, <1>7, <1>8, <1>9 DEF Next,
     Runner, Raises, Group, StartHalted

(* So contents stuck in the artifact of a job that is not being started     *)
(* stay so.                                                                 *)
LEMMA StuckStep ==
  ASSUME QueueInv, [Next]_vars, World', NEW j \in Jobs, pc # "spawn" \/ j # at,
         NEW d \in Content, Stuck(slot, artifact[j], j, d)
  PROVE  Stuck(slot', artifact'[j], j, d)
<1>1. artifact'[j] \in Content
  BY DEF World
<1>2. ASSUME NEW s \in 1 .. Slots, NEW c \in Content, MayWrite(slot'[s], j, c)
      PROVE  MayWrite(slot[s], j, c) \/ c = "v2"
  <2>1. CASE Ages(slot[s], slot'[s])
    BY <1>2, <2>1, AgesCalmly
  <2>2. CASE pc = "spawn" /\ slot'[s] = [job |-> at, stage |-> "started"]
    BY <1>2, <2>2, NewcomerWrites
  <2> QED
    BY <2>1, <2>2, GroupsStep
<1>3. artifact'[j] = artifact[j] \/ \E s \in 1 .. Slots : MayWrite(slot[s], j, artifact'[j])
  BY WriterStep
<1> QED
  BY <1>1, <1>2, <1>3, StuckStays

(* A killed runner leaves the one process it had started, and this is       *)
(* counted; any other way out of the watch kills it.                        *)
LEMMA OneStrayStep ==
  ASSUME QueueInv, OneStray, [Next]_vars, abandoned' <= 1
  PROVE  OneStray'
<1> USE DEF QueueInv, TypeOK, World, RunnerState, History, Placed, Live, Stray
<1>1. CASE Start \/ PinsChecked \/ EvidenceStep \/ LoopGoesOn \/ RecoverFails \/
   RecoverFinds \/ Spawned \/ MonitorEnds \/ JudgePasses \/ ValidatePasses \/ Note \/
   SignalValidator
  BY <1>1 DEF OneStray, Start, PinsChecked, EvidenceStep, LoopGoesOn, RecoverFails,
     RecoverFinds, Spawned, MonitorEnds, JudgePasses, ValidatePasses, Note,
     SignalValidator, Halt
<1>2. CASE PreflightHalts \/ LoopHalts \/ RecordHalts \/ JudgeFails \/ ValidateFails \/
   NoteFails \/ EvidenceFails \/ FinalFails
  BY <1>2 DEF OneStray, PreflightHalts, LoopHalts, RecordHalts, JudgeFails, ValidateFails,
     NoteFails, EvidenceFails, FinalFails, Halt
<1>3. CASE Record \/ EvidencePasses \/ PreflightPasses \/ PreflightRaises \/ FinalPasses
  BY <1>3 DEF OneStray, Record, EvidencePasses, PreflightPasses, PreflightRaises,
     FinalPasses, NextJob
<1>4. CASE Launch \/ PublishRunning \/ SpawnRaises
  BY <1>4 DEF OneStray, Launch, PublishRunning, SpawnRaises
<1>5. ASSUME NEW s \in 1 .. Slots, Spawn(s) PROVE OneStray'
  <2>1. \A t \in 1 .. Slots : Stray(t)' => Stray(t)
    BY <1>5 DEF Spawn, NewGroup
  <2> QED
    BY <2>1 DEF OneStray
<1>6. CASE PublishRaises \/ MonitorGuard \/ Ending \/ Stopping \/ Dying
  <2>1. Kill /\ pc \in Watched
    BY <1>6 DEF PublishRaises, MonitorGuard, Ending, Stopping, Dying, Reap
  <2>2. \A t \in 1 .. Slots : Stray(t)' => Stray(t)
    BY <2>1 DEF Kill
  <2> QED
    BY <2>2 DEF OneStray
<1>7. ASSUME NEW s \in 1 .. Slots, Writes(s) PROVE OneStray'
  <2>1. slot[s] \in Processes
    BY <1>7 DEF Writes
  <2>2. \A t \in 1 .. Slots : Stray(t)' => Stray(t)
    BY <1>7, <2>1 DEF Writes, Processes
  <2> QED
    BY <2>2 DEF OneStray
<1>8. ASSUME NEW s \in 1 .. Slots, LeaderExits(s) PROVE OneStray'
  <2>1. \A t \in 1 .. Slots : Stray(t)' => Stray(t)
    BY <1>8 DEF LeaderExits
  <2> QED
    BY <2>1 DEF OneStray
<1>9. ASSUME NEW s \in 1 .. Slots, RestExits(s) PROVE OneStray'
  <2>1. \A t \in 1 .. Slots : Stray(t)' => Stray(t)
    BY <1>9 DEF RestExits
  <2> QED
    BY <2>1 DEF OneStray
<1>10. CASE Sweep \/ Drift
  BY <1>10 DEF OneStray, Sweep, Drift
<1>11. CASE Crash \/ Signal
  <2>1. CASE pc \in {"spawned", "monitor", "stopping"} /\ pc' # "down"
    BY <1>11, <2>1 DEF OneStray, Signal, Crash
  <2>2. CASE ~(pc \in {"spawned", "monitor", "stopping"} /\ pc' # "down")
    <3>1. /\ UNCHANGED slot
          /\ abandoned' = abandoned + IF Outlived THEN 1 ELSE 0
      BY <1>11, <2>2 DEF Signal, Crash
    <3>2. CASE Outlived
      BY <3>1, <3>2 DEF OneStray, Alone
    <3>3. CASE ~Outlived
      BY <3>1, <3>3 DEF OneStray, Outlived
    <3> QED
      BY <3>2, <3>3
  <2> QED
    BY <2>1, <2>2
<1>12. CASE UNCHANGED vars
  BY <1>12 DEF OneStray, vars, StartHalted
<1> QED
  BY <1>1, <1>2, <1>3, <1>4, <1>5, <1>6, <1>7, <1>8, <1>9, <1>10, <1>11, <1>12 DEF Next,
     Runner, Raises, Group, StartHalted

(* The runner digests an artifact right after it has validated it.          *)
LEMMA DigestPlaceStep ==
  ASSUME QueueInv, [Next]_vars, pc' \in {"record", "note"}
  PROVE  \/ UNCHANGED <<pc, at>>
         \/ at' = at /\ Valid(at) /\ UNCHANGED artifact
<1> USE DEF QueueInv, TypeOK, RunnerState, Placed
<1>1. CASE Start \/ PinsChecked \/ EvidenceStep \/ LoopGoesOn \/ RecoverFails \/
   RecoverFinds \/ Spawned \/ MonitorEnds \/ JudgePasses \/ ValidatePasses \/ Note \/
   SignalValidator
  BY <1>1 DEF Start, PinsChecked, EvidenceStep, LoopGoesOn, RecoverFails,
     RecoverFinds, Spawned, MonitorEnds, JudgePasses, ValidatePasses, Note,
     SignalValidator, Halt
<1>2. CASE PreflightHalts \/ LoopHalts \/ RecordHalts \/ JudgeFails \/ ValidateFails \/
   NoteFails \/ EvidenceFails \/ FinalFails
  BY <1>2 DEF PreflightHalts, LoopHalts, RecordHalts, JudgeFails, ValidateFails,
     NoteFails, EvidenceFails, FinalFails, Halt
<1>3. CASE Record \/ EvidencePasses \/ PreflightPasses \/ PreflightRaises \/ FinalPasses
  BY <1>3 DEF Record, EvidencePasses, PreflightPasses, PreflightRaises, FinalPasses, NextJob
<1>4. CASE Launch \/ PublishRunning \/ SpawnRaises \/ \E s \in 1 .. Slots : Spawn(s)
  BY <1>4 DEF Launch, PublishRunning, SpawnRaises, Spawn
<1>5. CASE PublishRaises \/ MonitorGuard \/ Ending \/ Stopping \/ Dying
  BY <1>5 DEF PublishRaises, MonitorGuard, Ending, Stopping, Dying
<1>6. CASE \E s \in 1 .. Slots : Writes(s) \/ LeaderExits(s) \/ RestExits(s)
  BY <1>6 DEF Writes, LeaderExits, RestExits
<1>7. CASE Sweep \/ Drift \/ Crash \/ Signal
  BY <1>7 DEF Sweep, Drift, Crash, Signal
<1>8. CASE UNCHANGED vars
  BY <1>8 DEF vars, StartHalted
<1> QED
  BY <1>1, <1>2, <1>3, <1>4, <1>5, <1>6, <1>7, <1>8 DEF Next, Runner, Raises, Group,
     StartHalted

(* Once validated, an artifact is replaced by the one process left behind,  *)
(* if at all.                                                               *)
LEMMA UndigestedStep ==
  ASSUME QueueInv, QueueInv', Undigested, [Next]_vars, OneStray'
  PROVE  Undigested'
<1> SUFFICES ASSUME pc' \in {"record", "note"}, artifact'[at'] \notin Accepts[at']
             PROVE  Stuck(slot', artifact'[at'], at', artifact'[at'])
  BY DEF Undigested, Valid
<1>1. at' \in Jobs
  BY DEF QueueInv, Placed
<1>2. artifact'[at'] \in Content
  BY <1>1 DEF QueueInv, TypeOK, World
<1>3. UNCHANGED <<pc, at>> \/ (at' = at /\ Valid(at) /\ UNCHANGED artifact)
  BY DigestPlaceStep
<1>4. at' = at
  BY <1>3
<1>5. CASE artifact'[at] = artifact[at]
  <2>1. UNCHANGED pc /\ ~Valid(at)
    BY <1>3, <1>4, <1>5 DEF Valid
  <2>2. Stuck(slot, artifact[at], at, artifact[at]) /\ pc # "spawn"
    BY <2>1 DEF Undigested
  <2>3. Stuck(slot', artifact'[at], at, artifact[at])
    BY <2>2, <1>1, <1>2, <1>4, <1>5, StuckStep DEF QueueInv, TypeOK
  <2> QED
    BY <2>3, <1>4, <1>5
<1>6. CASE artifact'[at] # artifact[at]
  <2>1. PICK s \in 1 .. Slots : Wrote(slot'[s], at, artifact'[at])
    BY <1>1, <1>4, <1>6, WriterStep
  <2>2. slot'[s] # Free
    BY <2>1, <1>1, <1>4 DEF Wrote
  <2>3. \A t \in 1 .. Slots : slot'[t] # Free => Stray(t)'
    BY DEF Stray, Live
  <2>4. \A t \in 1 .. Slots : t # s => slot'[t] = Free
    BY <2>2, <2>3 DEF OneStray
  <2> QED
    BY <1>1, <1>2, <1>4, <2>1, <2>4, WrittenSticks
<1> QED
  BY <1>5, <1>6

(* How the digests and the checks of the evidence change.                   *)
LEMMA RecordedStep ==
  ASSUME QueueInv, [Next]_vars
  PROVE  \/ Record \/ Note \/ EvidenceStep
         \/ /\ \A j \in Jobs : Recorded'[j] \in {Recorded[j], NoDigest}
            /\ pc' \notin Checking \/ seen' = 0 \/ UNCHANGED <<pc, seen>>
<1> DEFINE Kept == /\ \A j \in Jobs : Recorded'[j] \in {Recorded[j], NoDigest}
                   /\ pc' \notin Checking \/ seen' = 0 \/ UNCHANGED <<pc, seen>>
<1> USE DEF QueueInv, TypeOK, StateFile, Digested, RunnerState, Placed, Ordered, Closing,
       Checking, Recorded
<1>1. CASE Start \/ PinsChecked \/ LoopGoesOn \/ RecoverFails \/ RecoverFinds \/ Spawned
   \/ MonitorEnds \/ JudgePasses \/ ValidatePasses \/ SignalValidator
  BY <1>1 DEF Start, PinsChecked, LoopGoesOn, RecoverFails, RecoverFinds, Spawned,
     MonitorEnds, JudgePasses, ValidatePasses, SignalValidator, Halt
<1>2. CASE PreflightHalts \/ LoopHalts \/ RecordHalts \/ JudgeFails \/ ValidateFails \/
   NoteFails \/ EvidenceFails \/ FinalFails
  BY <1>2 DEF PreflightHalts, LoopHalts, RecordHalts, JudgeFails, ValidateFails,
     NoteFails, EvidenceFails, FinalFails, Halt
<1>3. CASE EvidencePasses \/ PreflightPasses \/ PreflightRaises \/ FinalPasses
  BY <1>3 DEF EvidencePasses, PreflightPasses, PreflightRaises, FinalPasses,
     NextJob, Publish
<1>4. CASE Launch \/ PublishRunning \/ SpawnRaises \/ \E s \in 1 .. Slots : Spawn(s)
  BY <1>4 DEF Launch, PublishRunning, SpawnRaises, Spawn
<1>5. CASE PublishRaises \/ MonitorGuard \/ Ending \/ Stopping \/ Dying
  BY <1>5 DEF PublishRaises, MonitorGuard, Ending, Stopping, Dying
<1>6. CASE \E s \in 1 .. Slots : Writes(s) \/ LeaderExits(s) \/ RestExits(s)
  BY <1>6 DEF Writes, LeaderExits, RestExits
<1>7. CASE Sweep \/ Drift \/ Crash \/ Signal
  BY <1>7 DEF Sweep, Drift, Crash, Signal
<1>8. CASE UNCHANGED vars
  BY <1>8 DEF vars, StartHalted
<1> QED
  BY <1>1, <1>2, <1>3, <1>4, <1>5, <1>6, <1>7, <1>8 DEF Next, Runner, Raises, Group,
     StartHalted

(* A digest of contents that the validator rejects never passes both checks.*)
LEMMA SpoiltStep ==
  ASSUME QueueInv, QueueInv', Undigested, Spoilt, [Next]_vars
  PROVE  Spoilt'
<1> SUFFICES ASSUME NEW j \in Jobs, Recorded'[j] \notin Accepts[j] \cup {NoDigest}
             PROVE  /\ Stuck(slot', artifact'[j], j, Recorded'[j])
                    /\ pc' \in Checking => seen' < 2 * j
                    /\ pc' \in Checking /\ seen' = 2 * j - 1 => artifact'[j] # Recorded'[j]
  BY DEF Spoilt
<1>1. artifact[j] \in Content /\ seen \in Nat /\ j \in Nat \ {0} /\ artifact'[j] \in Content
  BY DEF QueueInv, TypeOK, World, RunnerState
<1>2. CASE Record \/ Note
  <2>1. /\ UNCHANGED <<artifact, slot>> /\ seen' = 0 /\ pc # "spawn"
        /\ pc \in {"record", "note"} /\ at \in Jobs
    BY <1>2 DEF Record, Note, NextJob, QueueInv, Placed, Checking
  <2>2. /\ j # at => Recorded'[j] = Recorded[j]
        /\ j = at => Recorded'[j] = artifact[j]
    <3>1. CASE Record
      BY <3>1 DEF Record, Publish, NextJob, Recorded, QueueInv, Placed, TypeOK, StateFile
    <3>2. CASE Note
      BY <3>2 DEF Note, Recorded, QueueInv, Placed, TypeOK, StateFile
    <3> QED
      BY <1>2, <3>1, <3>2
  <2>3. Stuck(slot, artifact[j], j, Recorded'[j])
    <3>1. CASE j = at
      BY <2>1, <2>2, <3>1 DEF Undigested, Valid
    <3>2. CASE j # at
      BY <2>2, <3>2 DEF Spoilt
    <3> QED
      BY <3>1, <3>2
  <2> QED
    BY <2>1, <2>3, <1>1
<1>3. CASE EvidenceStep
  <2>1. /\ UNCHANGED <<artifact, slot, pc, noted, digest, at>> /\ seen' = seen + 1
        /\ pc \in Checking
    BY <1>3 DEF EvidenceStep, Checking
  <2>2. Recorded' = Recorded
    BY <2>1 DEF Recorded
  <2>3. /\ Stuck(slot, artifact[j], j, Recorded[j]) /\ seen < 2 * j
        /\ seen = 2 * j - 1 => artifact[j] # Recorded[j]
    BY <2>1, <2>2 DEF Spoilt
  <2>4. seen # 2 * j - 1
    <3> SUFFICES ASSUME seen = 2 * j - 1 PROVE FALSE
      OBVIOUS
    <3>1. j - 1 \in Nat /\ seen = 2 * (j - 1) + 1
      BY <1>1
    <3>2. seen \div 2 = j - 1 /\ seen % 2 = 1
      BY <3>1, <1>1, Odd, Zenon
    <3>3. seen \div 2 + 1 = j /\ seen % 2 # 0
      BY <3>2, <1>1
    <3>4. SameBytes(j)
      BY <1>3, <2>2, <3>3 DEF EvidenceStep
    <3> QED
      BY <2>3, <3>4 DEF SameBytes
  <2>5. ASSUME seen' = 2 * j - 1 PROVE artifact[j] # Recorded[j]
    <3>1. seen = 2 * (j - 1)
      BY <2>1, <2>5, <1>1
    <3>2. seen \div 2 + 1 = j /\ seen % 2 = 0
      BY <3>1, <1>1
    <3>3. Valid(j)
      BY <1>3, <2>2, <3>2 DEF EvidenceStep
    <3> QED
      BY <2>2, <3>3 DEF Valid
  <2>6. seen' < 2 * j
    BY <2>1, <2>3, <2>4, <1>1
  <2> QED
    BY <2>1, <2>2, <2>3, <2>5, <2>6
<1>4. CASE ~(Record \/ Note \/ EvidenceStep)
  <2>1. /\ Recorded'[j] = Recorded[j]
        /\ pc' \notin Checking \/ seen' = 0 \/ UNCHANGED <<pc, seen>>
    BY <1>4, RecordedStep
  <2>2. /\ Stuck(slot, artifact[j], j, Recorded[j])
        /\ pc \in Checking => seen < 2 * j
    BY <2>1 DEF Spoilt
  <2>3. pc # "spawn" \/ j # at
    BY <2>1 DEF QueueInv, TypeOK, StateFile, Digested, Ordered, Closing, Recorded
  <2>4. Recorded[j] \in Content
    BY <2>1 DEF QueueInv, TypeOK, StateFile, RunnerState, Recorded
  <2>5. Stuck(slot', artifact'[j], j, Recorded[j])
    BY <2>2, <2>3, <2>4, StuckStep DEF QueueInv, TypeOK
  <2>6. pc' \in Checking => seen' < 2 * j
    BY <2>1, <2>2, <1>1
  <2>7. ASSUME pc' \in Checking, seen' = 2 * j - 1 PROVE artifact'[j] # Recorded[j]
    <3>1. UNCHANGED <<pc, seen>>
      BY <2>1, <2>7, <1>1
    <3>2. artifact[j] # Recorded[j]
      BY <2>1, <2>7, <3>1 DEF Spoilt
    <3>3. CASE artifact'[j] = artifact[j]
      BY <3>2, <3>3
    <3>4. CASE artifact'[j] # artifact[j]
      <4>1. PICK s \in 1 .. Slots : MayWrite(slot[s], j, artifact'[j])
        BY <3>4, WriterStep
      <4> QED
        BY <2>2, <3>2, <4>1, <1>1 DEF Stuck
    <3> QED
      BY <3>3, <3>4
  <2> QED
    BY <2>1, <2>5, <2>6, <2>7
<1> QED
  BY <1>2, <1>3, <1>4

(* The queue completes when all evidence has passed, and does not change    *)
(* its records after that.                                                  *)
LEMMA CompletedStep ==
  ASSUME QueueInv, [Next]_vars, queue' = "complete"
  PROVE  UNCHANGED <<queue, job, digest>> \/ (FinalPasses /\ UNCHANGED <<job, digest>>)
<1> USE DEF QueueInv, TypeOK, StateFile, RunnerState, Placed, Ordered, Early, Closing
<1>1. CASE Start \/ PinsChecked \/ EvidenceStep \/ LoopGoesOn \/ RecoverFails \/
   RecoverFinds \/ Spawned \/ MonitorEnds \/ JudgePasses \/ ValidatePasses \/ Note \/
   SignalValidator
  BY <1>1 DEF Start, PinsChecked, EvidenceStep, LoopGoesOn, RecoverFails,
     RecoverFinds, Spawned, MonitorEnds, JudgePasses, ValidatePasses, Note,
     SignalValidator, Halt
<1>2. CASE PreflightHalts \/ LoopHalts \/ RecordHalts \/ JudgeFails \/ ValidateFails \/
   NoteFails \/ EvidenceFails \/ FinalFails
  BY <1>2 DEF PreflightHalts, LoopHalts, RecordHalts, JudgeFails, ValidateFails,
     NoteFails, EvidenceFails, FinalFails, Halt
<1>3. CASE Record \/ EvidencePasses \/ PreflightPasses \/ PreflightRaises \/ FinalPasses
  BY <1>3 DEF Record, EvidencePasses, PreflightPasses, PreflightRaises, FinalPasses
<1>4. CASE Launch \/ PublishRunning \/ SpawnRaises \/ \E s \in 1 .. Slots : Spawn(s)
  BY <1>4 DEF Launch, PublishRunning, SpawnRaises, Spawn
<1>5. CASE PublishRaises \/ MonitorGuard \/ Ending \/ Stopping \/ Dying
  BY <1>5 DEF PublishRaises, MonitorGuard, Ending, Stopping, Dying
<1>6. CASE \E s \in 1 .. Slots : Writes(s) \/ LeaderExits(s) \/ RestExits(s)
  BY <1>6 DEF Writes, LeaderExits, RestExits
<1>7. CASE Sweep \/ Drift \/ Crash \/ Signal
  BY <1>7 DEF Sweep, Drift, Crash, Signal
<1>8. CASE UNCHANGED vars
  BY <1>8 DEF vars, StartHalted
<1> QED
  BY <1>1, <1>2, <1>3, <1>4, <1>5, <1>6, <1>7, <1>8 DEF Next, Runner, Raises, Group,
     StartHalted

(* A queue that completes has in its records what the checks have accepted. *)
LEMMA CompleteStep ==
  ASSUME QueueInv, Spoilt, EvidenceRecorded, [Next]_vars, abandoned <= 1
  PROVE  EvidenceRecorded'
<1> SUFFICES ASSUME queue' = "complete", NEW j \in Jobs
             PROVE  job'[j] = "complete" /\ digest'[j] \in Accepts[j]
  BY DEF EvidenceRecorded
<1>1. CASE UNCHANGED <<queue, job, digest>>
  BY <1>1 DEF EvidenceRecorded
<1>2. CASE FinalPasses /\ UNCHANGED <<job, digest>>
  <2>1. pc = "final" /\ seen = 2 * N /\ at = N + 1
    BY <1>2 DEF FinalPasses, EvidenceHolds, QueueInv, Placed
  <2>2. job[j] = "complete"
    BY <2>1 DEF QueueInv, Ordered, Early
  <2>3. digest[j] # NoDigest /\ Recorded[j] = digest[j]
    BY <2>1, <2>2 DEF QueueInv, TypeOK, Digested, Recorded
  <2>4. ~(seen < 2 * j)
    BY <2>1
  <2>5. digest[j] \in Accepts[j]
    BY <2>1, <2>3, <2>4 DEF Spoilt, Checking
  <2> QED
    BY <1>2, <2>2, <2>5
<1> QED
  BY <1>1, <1>2, CompletedStep

(* Nobody takes an abandoned process back.                                  *)
LEMMA HistoryGrows ==
  ASSUME QueueInv, [Next]_vars
  PROVE  abandoned <= abandoned'
<1> USE DEF QueueInv, TypeOK, History
<1>1. CASE Start \/ PinsChecked \/ EvidenceStep \/ LoopGoesOn \/ RecoverFails \/
   RecoverFinds \/ Spawned \/ MonitorEnds \/ JudgePasses \/ ValidatePasses \/ Note \/
   SignalValidator
  BY <1>1 DEF Start, PinsChecked, EvidenceStep, LoopGoesOn, RecoverFails, RecoverFinds,
     Spawned, MonitorEnds, JudgePasses, ValidatePasses, Note, SignalValidator
<1>2. CASE PreflightHalts \/ LoopHalts \/ RecordHalts \/ JudgeFails \/ ValidateFails \/
   NoteFails \/ EvidenceFails \/ FinalFails
  BY <1>2 DEF PreflightHalts, LoopHalts, RecordHalts, JudgeFails, ValidateFails,
     NoteFails, EvidenceFails, FinalFails
<1>3. CASE Record \/ EvidencePasses \/ PreflightPasses \/ PreflightRaises \/ FinalPasses
  BY <1>3 DEF Record, EvidencePasses, PreflightPasses, PreflightRaises, FinalPasses
<1>4. CASE Launch \/ PublishRunning \/ SpawnRaises \/ \E s \in 1 .. Slots : Spawn(s)
  BY <1>4 DEF Launch, PublishRunning, SpawnRaises, Spawn
<1>5. CASE PublishRaises \/ MonitorGuard \/ Ending \/ Stopping \/ Dying
  BY <1>5 DEF PublishRaises, MonitorGuard, Ending, Stopping, Dying
<1>6. CASE \E s \in 1 .. Slots : Writes(s) \/ LeaderExits(s) \/ RestExits(s)
  BY <1>6 DEF Writes, LeaderExits, RestExits
<1>7. CASE Sweep \/ Drift \/ Crash \/ Signal
  BY <1>7 DEF Sweep, Drift, Crash, Signal
<1>8. CASE UNCHANGED vars
  BY <1>8 DEF vars, StartHalted
<1> QED
  BY <1>1, <1>2, <1>3, <1>4, <1>5, <1>6, <1>7, <1>8 DEF Next, Runner, Raises, Group,
     StartHalted

(* Runners are abandoned one by one.                                        *)
LEMMA TracedStep ==
  ASSUME QueueInv, QueueInv', Traced, [Next]_vars
  PROVE  Traced'
<1> SUFFICES ASSUME abandoned' <= 1 PROVE (OneStray /\ Undigested /\ Spoilt /\ EvidenceRecorded)'
  BY DEF Traced
<1>1. abandoned <= abandoned'
  BY HistoryGrows
<1>2. OneStray /\ Undigested /\ Spoilt /\ EvidenceRecorded /\ abandoned <= 1
  BY <1>1 DEF Traced, QueueInv, TypeOK, History
<1>3. OneStray'
  BY <1>2, OneStrayStep
<1>4. Undigested'
  BY <1>2, <1>3, UndigestedStep
<1>5. Spoilt'
  BY <1>2, SpoiltStep
<1>6. EvidenceRecorded'
  BY <1>2, CompleteStep
<1> QED
  BY <1>3, <1>4, <1>5, <1>6

----------------------------------------------------------------------------
(* Initially nothing has run, and nobody is there.                          *)
LEMMA InitInv == Init => QueueInv
<1> SUFFICES ASSUME Init PROVE QueueInv
  OBVIOUS
<1>1. StateFile /\ Digested
  BY DEF Init, StateFile, Digested, JobStates, Content
<1>2. RunnerState
  BY DEF Init, RunnerState, Places
<1>3. World
  BY DEF Init, World, Content, Good
<1>4. History
  <2>1. interrupted \in BOOLEAN
    BY Zenon DEF Init
  <2>2. spawns \in [Jobs -> Nat] /\ abandoned \in 0 .. MaxFaults /\ faults \in 0 .. MaxFaults
    BY DEF Init
  <2>3. tainted \subseteq Jobs
    BY DEF Init
  <2> QED
    BY <2>1, <2>2, <2>3 DEF History
<1>5. Placed /\ Ordered /\ Once
  BY DEF Init, Placed, Ordered, Once, Early, Checking, Closing
<1>6. Untainted
  BY DEF Init, Untainted, DriftNeverCounts
<1>7. Alone /\ Checked
  BY DEF Init, Alone, Live, Checked, Checking, EvidenceOnDisk
<1> QED
  BY <1>1, <1>2, <1>3, <1>4, <1>5, <1>6, <1>7 DEF QueueInv, TypeOK

(* QueueInv holds in every reachable state.                                 *)
THEOREM QueueInvariance == Spec => []QueueInv
<1>1. QueueInv /\ [Next]_vars => QueueInv'
  BY StateFileStep, DigestedStep, RunnerStateStep, WorldStep, HistoryStep, PlaceStep,
     OrderStep, OnceStep, TaintStep, AloneStep, CheckedStep DEF QueueInv, TypeOK
<1> QED
  BY InitInv, <1>1, PTL DEF Spec

(* The variables have their types, and the completed jobs their digests.    *)
THEOREM QueueTypeCorrect == Spec => []TypeOK
BY QueueInvariance, PTL DEF QueueInv

(* A job whose inputs changed while it ran never counts as complete.        *)
THEOREM DriftVoids == Spec => []DriftNeverCounts
BY QueueInvariance, PTL DEF QueueInv, Untainted

(* Without a kill, no process outlives the watch over its job.              *)
THEOREM NoProcessStrays == Spec => []NothingStrays
<1>1. QueueInv => NothingStrays
  BY DEF QueueInv, Alone, NothingStrays
<1> QED
  BY QueueInvariance, <1>1, PTL

(* Run by its unit, the queue never has two process groups alive.           *)
THEOREM NeverTwoJobs == Spec => []OneAtATime
<1>1. QueueInv => OneAtATime
  <2> SUFFICES ASSUME QueueInv, Unit PROVE Cardinality(Live) <= 1
    BY DEF OneAtATime
  <2>1. \A s, t \in Live : s = t
    BY DEF QueueInv, Alone
  <2>2. CASE Live = {}
    BY <2>2, FS_EmptySet
  <2>3. CASE Live # {}
    <3>1. PICK s \in Live : TRUE
      BY <2>3
    <3>2. Live = {s}
      BY <2>1, <3>1
    <3>3. Cardinality({s}) = 1
      BY FS_Singleton
    <3> QED
      BY <3>2, <3>3
  <2> QED
    BY <2>2, <2>3
<1> QED
  BY QueueInvariance, <1>1, PTL

(* Run by its unit, a complete queue has on disk what it has recorded.      *)
THEOREM EvidenceStands == Spec => []EvidenceOnDisk
<1>1. QueueInv => EvidenceOnDisk
  BY DEF QueueInv, Checked, EvidenceOnDisk
<1> QED
  BY QueueInvariance, <1>1, PTL

(* Initially no process is there, and nothing has been recorded.            *)
LEMMA InitTraced == Init => Traced
<1> SUFFICES ASSUME Init PROVE Traced
  OBVIOUS
<1>1. OneStray /\ Undigested
  BY DEF Init, OneStray, Stray, Live, Undigested
<1>2. Spoilt /\ EvidenceRecorded
  BY DEF Init, Spoilt, Recorded, EvidenceRecorded
<1> QED
  BY <1>1, <1>2 DEF Traced

(* Run by hand, where the processes of a killed runner live on: a complete  *)
(* queue has recorded contents that the validators accept, as long as at    *)
(* most one process was left behind.                                        *)
THEOREM RecordsWereValid == Spec => []EvidenceRecorded
<1>1. QueueInv /\ Traced /\ QueueInv' /\ [Next]_vars => Traced'
  BY TracedStep
<1>2. QueueInv /\ Traced => EvidenceRecorded
  BY DEF Traced, EvidenceRecorded
<1> QED
  BY QueueInvariance, InitTraced, <1>1, <1>2, PTL DEF Spec

(* The queue implements JobQueue: the jobs in order, those not safe to      *)
(* resume once, and nothing after a halt.                                   *)
THEOREM PromiseKept == Spec => KeepsPromise
<1>1. Init => Promise!Init
  BY DEF Init, Promise!Init, Promise!Jobs
<1>2. QueueInv /\ [Next]_vars => [Promise!Next]_(Promise!vars)
  BY PromiseStep
<1> QED
  BY QueueInvariance, <1>1, <1>2, PTL DEF Spec, KeepsPromise, Promise!Spec
=============================================================================
