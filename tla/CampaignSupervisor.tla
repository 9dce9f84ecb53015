------------------------ MODULE CampaignSupervisor ------------------------
(***************************************************************************)
(* The campaign supervisor (tools/campaign_supervisor.py): a timer runs it *)
(* for one tick at a time, and a tick launches the first stage whose       *)
(* success artifact is missing, unless a trainer is running.  What it      *)
(* launches outlives the tick: a launcher that trains now and then, and    *)
(* that a tick recognises only while it does.                              *)
(*                                                                         *)
(* A lock makes ticks exclusive, so a tick's copy of the state is the file.*)
(***************************************************************************)
EXTENDS Naturals, FiniteSets

CONSTANTS
  N,            \* number of stages
  Cap,          \* max_attempts of each stage
  Slots,        \* bound of the model on launchers alive at a time
  MaxCrashes    \* bound of the model on ticks that are killed, and reboots

Stages == 1 .. N

ASSUME StagesAssumption == N \in Nat \ {0} /\ Cap \in Nat \ {0}
ASSUME BoundsAssumption == Slots \in Nat \ {0} /\ MaxCrashes \in Nat

VARIABLES
  attempts, halted, complete,  \* the state file
  artifact,                    \* stages whose success artifact exists
  tick, cur,                   \* where the tick is, and its stage
  slot,                        \* the launchers: stage and what they do, or Free
  launched, crashes            \* history: launches of each stage, counted up to
                               \* TooMany; crashes

file == <<attempts, halted, complete>>
vars == <<file, artifact, tick, cur, slot, launched, crashes>>

Free == [stage |-> 0, does |-> "nothing"]
Doing(what) == {s \in 1 .. Slots : slot[s].does = what}

Init ==
  /\ attempts = [n \in Stages |-> 0] /\ halted = FALSE /\ complete = FALSE
  /\ artifact = {} /\ tick = "idle" /\ cur = 1
  /\ slot = [s \in 1 .. Slots |-> Free]
  /\ launched = [n \in Stages |-> 0] /\ crashes = 0

TooMany == Cap + MaxCrashes + 1

Incomplete == Stages \ artifact

----------------------------------------------------------------------------
(* A tick.                                                                  *)

\* mutant: the halt is not looked at
MayAct_Halted == TRUE
MayAct == ~halted

(* The first stage without its artifact.                                    *)
TickBegins ==
  /\ tick = "idle" /\ MayAct
  /\ tick' = "probe"
  /\ cur' \in {n \in Incomplete : \A k \in Incomplete : n <= k}
  /\ UNCHANGED <<file, artifact, slot, launched, crashes>>

TickCompletes ==
  /\ tick = "idle" /\ ~halted /\ Incomplete = {}
  /\ complete' = TRUE
  /\ UNCHANGED <<attempts, halted, artifact, tick, cur, slot, launched, crashes>>

(* A trainer is alive, or the probe itself failed.                          *)
Busy ==
  /\ tick = "probe"
  /\ tick' = "idle"
  /\ UNCHANGED <<file, artifact, cur, slot, launched, crashes>>

Idle == tick = "probe" /\ Doing("training") = {}

Exhausted == attempts[cur] >= Cap

TickHalts ==
  /\ Idle /\ Exhausted
  /\ halted' = TRUE /\ tick' = "idle"
  /\ UNCHANGED <<attempts, complete, artifact, cur, slot, launched, crashes>>

Launch(s) ==
  /\ Idle /\ ~Exhausted /\ slot[s] = Free
  /\ slot' = [slot EXCEPT ![s] = [stage |-> cur, does |-> "starting"]]
  /\ launched' = [launched EXCEPT ![cur] = IF @ < TooMany THEN @ + 1 ELSE @]
  /\ tick' = "write"
  /\ UNCHANGED <<file, artifact, cur, crashes>>

\* mutant: the attempt is not counted
Counted_Not == UNCHANGED attempts
Counted == attempts' = [attempts EXCEPT ![cur] = @ + 1]

TickWrites ==
  /\ tick = "write"
  /\ Counted /\ tick' = "idle"
  /\ UNCHANGED <<halted, complete, artifact, cur, slot, launched, crashes>>

----------------------------------------------------------------------------
(* The launchers, as the supervisor sees them.                              *)

(* A launcher may exit at once, as run_reward_ablation.sh does when another *)
(* one holds its lock.                                                      *)
Starts(s) ==
  /\ slot[s].does = "starting"
  /\ slot' \in {[slot EXCEPT ![s] = Free], [slot EXCEPT ![s].does = "preparing"]}
  /\ UNCHANGED <<file, artifact, tick, cur, launched, crashes>>

Trains(s) ==
  /\ slot[s].does = "preparing"
  /\ slot' = [slot EXCEPT ![s].does = "training"]
  /\ UNCHANGED <<file, artifact, tick, cur, launched, crashes>>

(* An arm is trained: there may be another one to prepare.                  *)
Pauses(s) ==
  /\ slot[s].does = "training"
  /\ slot' = [slot EXCEPT ![s].does = "preparing"]
  /\ UNCHANGED <<file, artifact, tick, cur, launched, crashes>>

Ends(s) ==
  /\ slot[s].does \in {"preparing", "training"}
  /\ slot' = [slot EXCEPT ![s] = Free]
  /\ artifact' \in {artifact, artifact \cup {slot[s].stage}}
  /\ UNCHANGED <<file, tick, cur, launched, crashes>>

----------------------------------------------------------------------------
Crash ==
  /\ crashes < MaxCrashes /\ crashes' = crashes + 1
  /\ tick' = "idle"
  /\ slot' \in {slot, [s \in 1 .. Slots |-> Free]}
  /\ UNCHANGED <<file, artifact, cur, launched>>

Tick ==
  \/ TickBegins \/ TickCompletes \/ Busy \/ TickHalts \/ TickWrites
  \/ \E s \in 1 .. Slots : Launch(s)
Launcher(s) == Starts(s) \/ Trains(s) \/ Pauses(s) \/ Ends(s)

(* A halted campaign's ticks change nothing.                                *)
TickOnHalt == halted /\ UNCHANGED vars

Next == Tick \/ TickOnHalt \/ (\E s \in 1 .. Slots : Launcher(s)) \/ Crash
Spec == Init /\ [][Next]_vars

(* The timer fires for ever, probes succeed again and again, and every      *)
(* launcher ends (its own integrity guard ends a run that is stuck).        *)
FairSpec ==
  /\ Spec /\ WF_vars(Tick) /\ SF_vars(TickHalts \/ \E s \in 1 .. Slots : Launch(s))
  /\ \A s \in 1 .. Slots : WF_vars(Starts(s)) /\ SF_vars(Ends(s))

----------------------------------------------------------------------------
(* The variables have their types.                                          *)
TypeOK ==
  /\ attempts \in [Stages -> 0 .. Cap] /\ halted \in BOOLEAN /\ complete \in BOOLEAN
  /\ artifact \subseteq Stages /\ tick \in {"idle", "probe", "write"} /\ cur \in Stages
  /\ slot \in [1 .. Slots ->
                 [stage : Stages, does : {"starting", "preparing", "training"}] \cup {Free}]
  /\ launched \in [Stages -> 0 .. TooMany] /\ crashes \in 0 .. MaxCrashes

(* "A halt is sticky": once a tick has halted the campaign no tick launches *)
(* anything, not even one that began before.                                *)
HaltSticks == [][halted => halted' /\ launched' = launched]_vars

(* Unless a tick is killed, no stage is launched more often than its cap    *)
(* allows, however ticks and launchers interleave; every kill can cost one  *)
(* launch that is not counted.                                              *)
CapKept == \A n \in Stages : launched[n] <= Cap + crashes

(* The campaign completes or halts.                                         *)
Settles == <>(halted \/ complete)
=============================================================================
