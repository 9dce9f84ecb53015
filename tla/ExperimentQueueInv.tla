------------------------- MODULE ExperimentQueueInv -------------------------
(***************************************************************************)
(* The inductive invariant of ExperimentQueue, by parts: where the runner  *)
(* is, what the state file says of the jobs before, at and after that      *)
(* place, which process groups can be alive, and what the checks of the    *)
(* evidence have established so far.                                       *)
(***************************************************************************)
EXTENDS ExperimentQueue

Early == {"down", "pins", "preflight"}
Checking == {"preflight", "evidence", "final"}
Closing == {"judge", "validate", "note", "evidence"}

(* The runner's place and what it must know there.                          *)
Placed ==
  /\ IF pc = "final" THEN at = N + 1 ELSE at \in Jobs
  /\ pc \in Early => at = 1
  /\ pc \in Watched => child # NoSlot
  /\ pc = "evidence" => noted # NoDigest
  /\ pc \notin Checking => seen = 0
  /\ abandoned <= faults

(* A runner past the preflight works on an open queue, on the first job     *)
(* that is not complete.                                                    *)
Ordered ==
  /\ pc # "down" => queue \notin {"absent", "halted"}
  /\ pc \notin Early => queue = "running" /\ \A k \in Jobs : k < at => job[k] = "complete"
  /\ pc \in {"recover", "record"} => job[at] \notin {"failed", "halted"}
  /\ pc = "launch" => job[at] \in {"pending", "launching", "running"}
  /\ pc \in {"spawn"} \cup Watched \cup Closing => job[at] \in {"launching", "running"}

(* A job that was started is not pending any more, so one that is not safe  *)
(* to resume is not started again.                                          *)
Once ==
  /\ \A j \in Jobs \ ResumeSafe : spawns[j] > 0 => job[j] # "pending"
  /\ pc \in {"recover", "record", "launch", "spawn"} =>
       at \in ResumeSafe \/ spawns[at] = 0 \/ job[at] = "complete"

Untainted ==
  /\ tainted # {} => drift
  /\ DriftNeverCounts
  /\ pc = "evidence" => at \notin tainted

(* Where nothing has been abandoned, and anywhere in a run of the unit, the *)
(* only process group is that of the child.                                 *)
Alone ==
  /\ abandoned = 0 \/ (Unit /\ pc # "down") => \A s \in Live : s = child /\ pc \in Watched
  /\ Unit => \A s, t \in Live : s = t

(* The evidence checked so far holds, as nobody writes while it is checked. *)
Checked ==
  Unit =>
    /\ pc \in Checking =>
         \A j \in Jobs : Recorded[j] # NoDigest =>
           /\ seen >= 2 * j - 1 => Valid(j)
           /\ seen >= 2 * j => SameBytes(j)
    /\ queue = "complete" => Live = {}
    /\ EvidenceOnDisk

QueueInv == TypeOK /\ Placed /\ Ordered /\ Once /\ Untainted /\ Alone /\ Checked

----------------------------------------------------------------------------
(* Where no unit sweeps the process groups: what one of them may still      *)
(* write to the artifact of a job, and why one that was left behind cannot  *)
(* make a digest of rejected contents pass the checks.                      *)
MayWrite(g, j, c) ==
  \/ g.job = j /\ g.stage = "started" /\ c = "partial"
  \/ g.job = j /\ g.stage \in {"started", "writing"} /\ c \in Good
  \/ g.job > j /\ g.stage # "rest" /\ c = "v2"

(* Contents d are stuck in an artifact with contents a, or kept out of it:  *)
(* those a later job writes ("v2") are there and nobody writes other ones,  *)
(* any others are not written by anybody.                                   *)
Stuck(groups, a, j, d) ==
  IF d = "v2"
  THEN a = "v2" /\ \A s \in 1 .. Slots, c \in Content : MayWrite(groups[s], j, c) => c = "v2"
  ELSE \A s \in 1 .. Slots : ~MayWrite(groups[s], j, d)

(* At most one process is left behind: a runner killed once leaves no more. *)
Stray(s) == s \in Live /\ ~(s = child /\ pc \in Watched)
OneStray == \A s, t \in 1 .. Slots : Stray(s) /\ Stray(t) => s = t

(* It can replace the contents that were validated before they are digested,*)
Undigested ==
  pc \in {"record", "note"} /\ ~Valid(at) => Stuck(slot, artifact[at], at, artifact[at])

(* but then not also put back, between the two checks of the evidence, what *)
(* was digested in the place of what validates.                             *)
Spoilt ==
  \A j \in Jobs : Recorded[j] \notin Accepts[j] \cup {NoDigest} =>
    /\ Stuck(slot, artifact[j], j, Recorded[j])
    /\ pc \in Checking => seen < 2 * j
    /\ pc \in Checking /\ seen = 2 * j - 1 => artifact[j] # Recorded[j]

Traced == abandoned <= 1 => OneStray /\ Undigested /\ Spoilt /\ EvidenceRecorded
=============================================================================
