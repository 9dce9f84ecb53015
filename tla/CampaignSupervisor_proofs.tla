--------------------- MODULE CampaignSupervisor_proofs ---------------------
(***************************************************************************)
(* Theorems about the campaign supervisor, for any number of stages,       *)
(* attempts, launchers and killed ticks.                                   *)
(***************************************************************************)
EXTENDS CampaignSupervisor, TLAPS

(* A tick that is about to count a launch is within the cap, and that      *)
(* launch is the only one not counted but for those whose tick was killed. *)
(* No tick is under way once the campaign has halted.                      *)
Uncounted(n) == IF tick = "write" /\ cur = n THEN 1 ELSE 0
Budgeted ==
  /\ tick = "write" => attempts[cur] < Cap
  /\ \A n \in Stages : launched[n] <= attempts[n] + crashes + Uncounted(n)
HaltIsIdle == halted => tick = "idle"
TickInv == TypeOK /\ Budgeted /\ HaltIsIdle

USE StagesAssumption, BoundsAssumption

(* A fresh campaign: no attempt counted, nothing launched, no tick.        *)
LEMMA TickInvInit == Init => TickInv
  <1> SUFFICES ASSUME Init PROVE TickInv
    OBVIOUS
  <1>1. TypeOK
    <2>1. /\ attempts \in [Stages -> 0 .. Cap] /\ cur \in Stages
          /\ launched \in [Stages -> 0 .. TooMany] /\ crashes \in 0 .. MaxCrashes
      BY DEF Init, Stages, TooMany
    <2> QED
      BY <2>1 DEF Init, TypeOK
  <1>2. Budgeted /\ HaltIsIdle
    BY DEF Init, Budgeted, HaltIsIdle, Uncounted, Stages
  <1> QED
    BY <1>1, <1>2 DEF TickInv

(* Counting stays within the cap because the tick that counts is below it. *)
LEMMA TypeOKStep == TypeOK /\ Budgeted /\ [Next]_vars => TypeOK'
  <1> SUFFICES ASSUME TypeOK, Budgeted, [Next]_vars PROVE TypeOK'
    OBVIOUS
  <1> USE DEF TypeOK
  <1>1. CASE TickBegins
    BY <1>1 DEF TickBegins, file, Incomplete
  <1>2. CASE TickCompletes \/ Busy \/ TickHalts
    BY <1>2 DEF TickCompletes, Busy, TickHalts, Idle, file
  <1>3. CASE TickWrites
    BY <1>3 DEF TickWrites, Counted, Budgeted
  <1>4. ASSUME NEW s \in 1 .. Slots, Launch(s) PROVE TypeOK'
    <2>1. slot' \in [1 .. Slots ->
                       [stage : Stages, does : {"starting", "preparing", "training"}] \cup {Free}]
      BY <1>4 DEF Launch
    <2>2. launched' \in [Stages -> 0 .. TooMany]
      BY <1>4 DEF Launch, TooMany
    <2> QED
      BY <1>4, <2>1, <2>2 DEF Launch, file
  <1>5. ASSUME NEW s \in 1 .. Slots, Launcher(s) PROVE TypeOK'
    <2> DEFINE Launchers == [stage : Stages, does : {"starting", "preparing", "training"}]
    <2>1. /\ slot[s].does \in {"starting", "preparing", "training"}
          /\ UNCHANGED <<file, tick, cur, launched, crashes>>
      BY <1>5 DEF Launcher, Starts, Trains, Pauses, Ends
    <2>2. slot[s] \in Launchers
      BY <2>1 DEF Free
    <2>3. \A what \in {"preparing", "training"} : [slot[s] EXCEPT !.does = what] \in Launchers
      BY <2>2
    <2>4. \/ slot' = [slot EXCEPT ![s] = Free]
          \/ \E what \in {"preparing", "training"} :
               slot' = [slot EXCEPT ![s] = [slot[s] EXCEPT !.does = what]]
      BY <1>5 DEF Launcher, Starts, Trains, Pauses, Ends
    <2>5. slot' \in [1 .. Slots -> Launchers \cup {Free}]
      BY <2>3, <2>4
    <2>6. artifact' \subseteq Stages
      BY <1>5, <2>2 DEF Launcher, Starts, Trains, Pauses, Ends
    <2> QED
      BY <2>1, <2>5, <2>6 DEF file
  <1>6. CASE Crash
    BY <1>6 DEF Crash, file
  <1>7. CASE TickOnHalt \/ UNCHANGED vars
    BY <1>7 DEF TickOnHalt, vars, file
  <1> QED
    BY <1>1, <1>2, <1>3, <1>4, <1>5, <1>6, <1>7 DEF Next, Tick

(* Only a killed tick leaves a launch uncounted, and it is counted once.   *)
LEMMA BudgetedStep == TickInv /\ [Next]_vars => Budgeted' /\ HaltIsIdle'
  <1> SUFFICES ASSUME TickInv, [Next]_vars PROVE Budgeted' /\ HaltIsIdle'
    OBVIOUS
  <1> USE DEF TickInv, TypeOK, Budgeted, HaltIsIdle, Uncounted
  <1>1. CASE TickBegins
    BY <1>1 DEF TickBegins, file, MayAct
  <1>2. CASE TickCompletes \/ Busy \/ TickHalts
    BY <1>2 DEF TickCompletes, Busy, TickHalts, Idle, file
  <1>3. CASE TickWrites
    BY <1>3 DEF TickWrites, Counted
  <1>4. ASSUME NEW s \in 1 .. Slots, Launch(s) PROVE Budgeted' /\ HaltIsIdle'
    BY <1>4 DEF Launch, Idle, Exhausted, file, TooMany
  <1>5. ASSUME NEW s \in 1 .. Slots, Launcher(s) PROVE Budgeted' /\ HaltIsIdle'
    BY <1>5 DEF Launcher, Starts, Trains, Pauses, Ends, file
  <1>6. CASE Crash
    BY <1>6 DEF Crash, file
  <1>7. CASE TickOnHalt \/ UNCHANGED vars
    BY <1>7 DEF TickOnHalt, vars, file
  <1> QED
    BY <1>1, <1>2, <1>3, <1>4, <1>5, <1>6, <1>7 DEF Next, Tick

(* What the tick relies on holds in every reachable state.                 *)
THEOREM TickInvariance == Spec => []TickInv
  <1>1. Init => TickInv
    BY TickInvInit
  <1>2. TickInv /\ [Next]_vars => TickInv'
    BY TypeOKStep, BudgetedStep DEF TickInv
  <1> QED
    BY <1>1, <1>2, PTL DEF Spec

(* Every variable of the supervisor has its type.                          *)
THEOREM CampaignTypeCorrect == Spec => []TypeOK
  <1>1. TickInv => TypeOK
    BY DEF TickInv
  <1> QED
    BY <1>1, TickInvariance, PTL

(* However ticks, launchers, kills and reboots interleave, a stage is       *)
(* launched no more often than its cap and the kills allow                 *)
(* (campaign_supervisor.py:300-320).                                       *)
THEOREM NeverOverCap == Spec => []CapKept
  <1>1. TickInv => CapKept
    BY DEF TickInv, TypeOK, Budgeted, Uncounted, CapKept
  <1> QED
    BY <1>1, TickInvariance, PTL

(* A halted campaign stays halted and launches nothing.                    *)
THEOREM HaltIsFinal == Spec => HaltSticks
  <1>1. TickInv /\ [Next]_vars => [halted => halted' /\ launched' = launched]_vars
    <2> SUFFICES ASSUME TickInv, Next, halted PROVE halted' /\ launched' = launched
      BY DEF vars
    <2> USE DEF TickInv, HaltIsIdle
    <2>1. CASE Tick
      BY <2>1 DEF Tick, TickBegins, TickCompletes, Busy, TickHalts, TickWrites, Launch, Idle, MayAct
    <2>2. CASE \E s \in 1 .. Slots : Launcher(s)
      BY <2>2 DEF Launcher, Starts, Trains, Pauses, Ends, file
    <2>3. CASE Crash
      BY <2>3 DEF Crash, file
    <2>4. CASE TickOnHalt
      BY <2>4 DEF TickOnHalt, vars, file
    <2> QED
      BY <2>1, <2>2, <2>3, <2>4 DEF Next
  <1> QED
    BY <1>1, TickInvariance, PTL DEF Spec, HaltSticks
=============================================================================
