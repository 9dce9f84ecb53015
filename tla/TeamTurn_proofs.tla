-------------------------- MODULE TeamTurn_proofs --------------------------
(***************************************************************************)
(* Theorems about team turns and activations, for any squads, skills and   *)
(* budgets of the Charge!.                                                 *)
(***************************************************************************)
EXTENDS TeamTurn, TLAPS

Charging == proc = "KICKOFF" /\ phase = 7

(* Where an ACTIVATION can be, and where its player goes down.             *)
Framed ==
  /\ cast \in Casts
  /\ act = None \/ (act.player \in Player /\ (act.charge <=> Charging))
  /\ act # None => Charging \/ (proc = "TEAM_TURN" /\ phase = 1)
  /\ play \in {"move", "landed"} => act # None
  /\ play = "crowd" =>
       victim \in Player /\ stance[victim] = "STANDING" /\ (Charging \/ InTurn)
  /\ act # None /\ act.phase = 3 => act.player \in used \ activating

(* Between a turn or a Charge! and the next, nothing has been spent.       *)
Afresh ==
  ~InTurn /\ ~Charging => declared = NoneOf /\ acted = [p \in Player |-> 0] /\ ~lost

(* Whoever has been activated is marked, or is the one being activated.    *)
Marked ==
  /\ \A p \in Player : acted[p] <= 1
  /\ InTurn => \A p \in Player : acted[p] > 0 => p \in used \/ p = act.player
  /\ Charging => \A p \in Player : acted[p] > 0 => p \in picked
  /\ proc # "END_DRIVE" => activating \subseteq {act.player}

(* A ball that is lost keeps the latch up.                                 *)
Over == lost => turnover

(* How long those who are stunned have been so.                            *)
Sitting ==
  /\ proc = "SETUP" => stance = [p \in Player |-> "STANDING"]
  /\ proc # "END_DRIVE" => \A p \in pitch :
       /\ stance[p] = "STUNNED" => sat[p] = 0
       /\ stance[p] = "STUNNED_USED" =>
            sat[p] = IF InTurn /\ p \in Squad(team) THEN 1 ELSE 0

TurnInv == TypeOK /\ Framed /\ Afresh /\ Marked /\ Over /\ OwnLatches /\ Sitting
----------------------------------------------------------------------------
USE SquadsAssumption
USE DEF frame, charge, runs, body, flags, past, vars

(* A fresh match.                                                          *)
LEMMA TurnInvInit == Init /\ cast \in Casts => TurnInv
  <1> SUFFICES ASSUME Init, cast \in Casts PROVE TurnInv
    OBVIOUS
  <1>1. FramesTyped
    BY CastsAssumption DEF Init, FramesTyped, Teams, None, Kinds, ChargeBudget
  <1>2. PlayersTyped
    BY DEF Init, PlayersTyped, NoneOf, Stances
  <1>3. BallTyped
    BY DEF Init, BallTyped
  <1>4. Framed /\ Afresh /\ Over /\ OwnLatches
    BY DEF Init, Framed, Afresh, Over, OwnLatches, InTurn, Charging, NoneOf, None
  <1>5. Marked
    BY DEF Init, Marked, InTurn, Charging, None
  <1>6. Sitting
    BY DEF Init, Sitting, InTurn
  <1> QED
    BY <1>1, <1>2, <1>3, <1>4, <1>5, <1>6 DEF TurnInv, TypeOK

(* However a declaration or a gate comes out, the frame stays the player's *)
(* and of its own kind of turn; only his own flags change.                 *)
Gated(p, k) == GateWindow(p, k) \/ GateFails(p, k) \/ TakesRoot(p, k) \/ BeginAction(p, k)
LEMMA GateEffect ==
  ASSUME FramesTyped, PlayersTyped, act.player \in Player, "MOVE" \in Kinds, NEW k \in Kinds,
         play = "none", Gated(act.player, k)
  PROVE /\ act' \in [player : {act.player}, phase : {1, 2}, kind : {k, "MOVE"},
                     charge : {act.charge}]
        /\ play' = "none" \/ (play' = "move" /\ act'.phase = 1)
        /\ victim' = victim
        /\ used' \in {used, used \cup {act.player}}
        /\ activating' \in {activating, activating \ {act.player}}
        /\ distracted' \subseteq Player /\ rooted' \subseteq Player
  <1> USE DEF FramesTyped, PlayersTyped
  <1>1. CASE GateWindow(act.player, k)
    BY <1>1 DEF GateWindow
  <1>2. CASE GateFails(act.player, k)
    BY <1>2 DEF GateFails
  <1>3. CASE TakesRoot(act.player, k)
    BY <1>3 DEF TakesRoot
  <1>4. CASE BeginAction(act.player, k)
    <2>1. /\ \E c \in {k, "MOVE"} : act' = [act EXCEPT !.phase = 1, !.kind = c]
          /\ play' \in {"none", "move"} /\ victim' = victim
          /\ used' \in {used, used \cup {act.player}}
          /\ activating' \in {activating, activating \ {act.player}}
      BY <1>4 DEF BeginAction
    <2>2. distracted' \subseteq Player /\ rooted' \subseteq Player
      BY <1>4 DEF BeginAction
    <2> QED
      BY <2>1, <2>2
  <1> QED
    BY <1>1, <1>2, <1>3, <1>4 DEF Gated

(* Where the armour and injury rolls leave a player.                       *)
LEMMA LaidTyped ==
  ASSUME PlayersTyped, NEW p \in Player,
         \E to \in {"PRONE", "STUNNED", "off"} : Laid(p, to)
  PROVE /\ pitch' \subseteq pitch /\ stance' \in [Player -> Stances]
        /\ stance' = [stance EXCEPT ![p] = stance'[p]] /\ stance'[p] # "STUNNED_USED"
        /\ sat' = [sat EXCEPT ![p] = 0] /\ sat' \in [Player -> 0 .. 2]
  BY DEF PlayersTyped, Laid, Stances

(* Who may be gated, and what else a declaration or a decision changes.    *)
LEMMA GateSteps ==
  ASSUME TypeOK, Framed, NEW k \in Kinds, Declare(k) \/ (GateDecision /\ k = act.kind)
  PROVE /\ Gated(act.player, k) /\ act.player \in Player /\ play = "none"
        /\ act # None /\ act.phase \in {0, 2}
        /\ (Declare(k) => act.phase = 0 /\ act.player \in activating)
        /\ UNCHANGED <<frame, active, turnover, picked, left, body, moved, acted, lost, sat>>
        /\ UNCHANGED <<latched, budget, declared>> \/
           (/\ latched' = latched \cup ({k} \cap OncePerTurn)
            /\ budget' \in {budget, budget \cup ({k} \cap ({"BLITZ"} \cup Throws))}
            /\ declared' = IF k \in OncePerTurn THEN [declared EXCEPT ![k] = Counted(@)]
                           ELSE declared)
  BY DEF Declare, GateDecision, Active, Latch, Gated, Framed, None

(* The frames have their types.                                           *)
LEMMA FramesTypedStep == TypeOK /\ Framed /\ Next /\ UNCHANGED cast => FramesTyped'
  <1> SUFFICES ASSUME TypeOK, Framed, Next, UNCHANGED cast PROVE FramesTyped'
    OBVIOUS
  <1> USE DEF TypeOK, FramesTyped, Teams, Other, None
  <1>0. /\ cast' = cast /\ ChargeBudget' = ChargeBudget /\ Kinds' = Kinds
        /\ ChargeBudget \in Nat /\ "MOVE" \in Kinds
    BY CastsAssumption DEF Framed, ChargeBudget, Kinds
  <1>1. CASE (\E k \in Teams : KickOff(k)) \/ PushTeamTurn \/ PushEndDrive
    BY <1>0, <1>1 DEF KickOff, PushTeamTurn, PushEndDrive
  <1>2. CASE KickoffEvent \/ EndDrive
    BY <1>0, <1>2 DEF KickoffEvent, EndDrive, EndDriveFlags
  <1>3. CASE TurnStart
    BY <1>0, <1>3 DEF TurnStart, TurnLatches, Rested, Counted
  <1>4. CASE EndTurn \/ EndTurnStalling
    BY <1>0, <1>4 DEF EndTurn, EndTurnStalling, CanActivate, PlayersTyped
  <1>5. CASE TurnEnd
    BY <1>0, <1>5 DEF TurnEnd, RolledOver, Forget, NoneOf
  <1>6. CASE ChargeEvent \/ ChargeEnd
    BY <1>0, <1>6 DEF ChargeEvent, ChargeEnd, Forget, NoneOf
  <1>7. ASSUME NEW p \in Player, Activate(p) PROVE FramesTyped'
    BY <1>0, <1>7 DEF Activate, Frame, Counted
  <1>8. ASSUME NEW p \in Player, ChargeActivate(p) PROVE FramesTyped'
    BY <1>0, <1>8 DEF ChargeActivate, Frame, Pick, ChargeGoesOn, Counted
  <1>9. CASE Recover \/ CrowdDone
    <2>0. None \in [player : Player \cup {NoPlayer}, phase : 0 .. 3, kind : Kinds, charge : BOOLEAN]
      BY <1>0
    <2>1. act' = act \/ act' = None \/ act' = [act EXCEPT !.phase = 3]
      BY <1>9 DEF Recover, CrowdDone
    <2>2. UNCHANGED <<frame, active, latched, charge>>
      BY <1>9 DEF Recover, CrowdDone, ActivationEnds
    <2>3. play' \in {"none", "crowd"} /\ victim' \in Player \cup {NoPlayer}
      BY <1>9 DEF Recover, CrowdDone, ActivationEnds, Active, Framed
    <2>4. act' \in [player : Player \cup {NoPlayer}, phase : 0 .. 3, kind : Kinds, charge : BOOLEAN]
      <3>1. CASE act' = None
        BY <2>0, <3>1
      <3>2. CASE act' = act
        BY <3>2
      <3>3. CASE act' = [act EXCEPT !.phase = 3]
        BY <3>3
      <3> QED
        BY <2>1, <3>1, <3>2, <3>3
    <2> QED
      BY <1>0, <2>2, <2>3, <2>4
  <1>10. CASE ActivationEnds
    <2>0. None \in [player : Player \cup {NoPlayer}, phase : 0 .. 3, kind : Kinds, charge : BOOLEAN]
      BY <1>0
    <2>1. act' = act \/ act' = None \/ act' = [act EXCEPT !.phase = 3]
      BY <1>10 DEF ActivationEnds
    <2>2. UNCHANGED <<frame, active, latched, charge>>
      BY <1>10 DEF Recover, CrowdDone, ActivationEnds
    <2>3. play' \in {"none", "crowd"} /\ victim' \in Player \cup {NoPlayer}
      BY <1>10 DEF Recover, CrowdDone, ActivationEnds, Active, Framed
    <2>4. act' \in [player : Player \cup {NoPlayer}, phase : 0 .. 3, kind : Kinds, charge : BOOLEAN]
      <3>1. CASE act' = None
        BY <2>0, <3>1
      <3>2. CASE act' = act
        BY <3>2
      <3>3. CASE act' = [act EXCEPT !.phase = 3]
        BY <3>3
      <3> QED
        BY <2>1, <3>1, <3>2, <3>3
    <2> QED
      BY <1>0, <2>2, <2>3, <2>4
  <1>11. CASE GateDecision
    BY <1>0, <1>11, GateSteps, GateEffect DEF GateDecision
  <1>12. ASSUME NEW k \in Kinds, Declare(k) PROVE FramesTyped'
    <2>1. act' \in [player : Player \cup {NoPlayer}, phase : 0 .. 3, kind : Kinds, charge : BOOLEAN]
      BY <1>0, <1>12, GateSteps, GateEffect
    <2>2. play' \in {"none", "move"} /\ victim' = victim
      BY <1>0, <1>12, GateSteps, GateEffect
    <2>3. UNCHANGED <<frame, active, picked, left>>
      BY <1>12, GateSteps
    <2>4. latched' \subseteq OncePerTurn /\ budget' \subseteq OncePerTurn
      BY <1>12, GateSteps DEF Throws, OncePerTurn
    <2> QED
      BY <1>0, <2>1, <2>2, <2>3, <2>4
  <1>13. CASE MoveEnds \/ Turnover \/ Moves \/ StandsUp
    BY <1>0, <1>13 DEF MoveEnds, Turnover, Moves, StandsUp, Playing, Moving, Framed
  <1>14. CASE Touchdown
    BY <1>0, <1>14 DEF Touchdown, Forget, NoneOf
  <1>15. CASE CrowdKnockdown
    BY <1>0, <1>15 DEF CrowdKnockdown, Framed
  <1>16. ASSUME NEW p \in Player, GoesDown(p) PROVE FramesTyped'
    BY <1>0, <1>16 DEF GoesDown
  <1>17. ASSUME NEW p \in Player, PlacedProne(p) PROVE FramesTyped'
    BY <1>0, <1>17 DEF PlacedProne
  <1>18. ASSUME NEW p \in Player, Injured(p) PROVE FramesTyped'
    BY <1>0, <1>18 DEF Injured
  <1>19. ASSUME NEW p \in Player, Leaves(p) PROVE FramesTyped'
    BY <1>0, <1>19 DEF Leaves
  <1>20. ASSUME NEW p \in Player, Gaze(p) PROVE FramesTyped'
    BY <1>0, <1>20 DEF Gaze
  <1>21. ASSUME NEW p \in Player, Throw(p) PROVE FramesTyped'
    BY <1>0, <1>21 DEF Throw
  <1> QED
    BY <1>1, <1>2, <1>3, <1>4, <1>5, <1>6, <1>7, <1>8, <1>9, <1>10, <1>11, <1>12, <1>13,
       <1>14, <1>15, <1>16, <1>17, <1>18, <1>19, <1>20, <1>21
    DEF Next, Turn, Charge, Activation, Wrapup, Pitch

(* The players' flags, stances and history have theirs.                    *)
LEMMA PlayersTypedStep == TypeOK /\ Framed /\ Next /\ UNCHANGED cast => PlayersTyped'
  <1> SUFFICES ASSUME TypeOK, Framed, Next, UNCHANGED cast PROVE PlayersTyped'
    OBVIOUS
  <1> USE DEF TypeOK, FramesTyped, PlayersTyped, Stances, None
  <1>0. /\ cast' = cast /\ ChargeBudget' = ChargeBudget /\ Kinds' = Kinds
        /\ ChargeBudget \in Nat /\ "MOVE" \in Kinds
    BY CastsAssumption DEF Framed, ChargeBudget, Kinds
  <1>1. CASE (\E k \in Teams : KickOff(k)) \/ PushTeamTurn \/ PushEndDrive
    BY <1>0, <1>1 DEF KickOff, PushTeamTurn, PushEndDrive
  <1>2. CASE KickoffEvent \/ EndDrive
    BY <1>0, <1>2 DEF KickoffEvent, EndDrive, EndDriveFlags
  <1>3. CASE TurnStart
    BY <1>0, <1>3 DEF TurnStart, TurnLatches, Rested, Counted
  <1>4. CASE EndTurn \/ EndTurnStalling
    BY <1>0, <1>4 DEF EndTurn, EndTurnStalling, CanActivate
  <1>5. CASE TurnEnd
    BY <1>0, <1>5 DEF TurnEnd, RolledOver, Forget, NoneOf
  <1>6. CASE ChargeEvent \/ ChargeEnd
    BY <1>0, <1>6 DEF ChargeEvent, ChargeEnd, Forget, NoneOf
  <1>7. ASSUME NEW p \in Player, Activate(p) PROVE PlayersTyped'
    BY <1>0, <1>7 DEF Activate, Frame, Counted
  <1>8. ASSUME NEW p \in Player, ChargeActivate(p) PROVE PlayersTyped'
    BY <1>0, <1>8 DEF ChargeActivate, Frame, Pick, ChargeGoesOn, Counted
  <1>9. CASE Recover \/ CrowdDone
    BY <1>0, <1>9 DEF Recover, CrowdDone, Active, Framed
  <1>10. CASE ActivationEnds
    BY <1>0, <1>10 DEF ActivationEnds, Finished, Active, Framed
  <1>11. CASE GateDecision
    BY <1>0, <1>11, GateSteps, GateEffect DEF GateDecision
  <1>12. ASSUME NEW k \in Kinds, Declare(k) PROVE PlayersTyped'
    BY <1>0, <1>12, GateSteps, GateEffect DEF Counted, OncePerTurn
  <1>13. CASE MoveEnds \/ Turnover \/ Moves \/ StandsUp
    BY <1>0, <1>13 DEF MoveEnds, Turnover, Moves, StandsUp, Playing, Moving, Framed
  <1>14. CASE Touchdown
    BY <1>0, <1>14 DEF Touchdown, Forget, NoneOf
  <1>15. CASE CrowdKnockdown
    BY <1>0, <1>15, LaidTyped DEF CrowdKnockdown, Framed
  <1>16. ASSUME NEW p \in Player, GoesDown(p) PROVE PlayersTyped'
    BY <1>0, <1>16, LaidTyped DEF GoesDown
  <1>17. ASSUME NEW p \in Player, PlacedProne(p) PROVE PlayersTyped'
    BY <1>0, <1>17, LaidTyped DEF PlacedProne
  <1>18. ASSUME NEW p \in Player, Injured(p) PROVE PlayersTyped'
    BY <1>0, <1>18, LaidTyped DEF Injured
  <1>19. ASSUME NEW p \in Player, Leaves(p) PROVE PlayersTyped'
    BY <1>0, <1>19, LaidTyped DEF Leaves
  <1>20. ASSUME NEW p \in Player, Gaze(p) PROVE PlayersTyped'
    BY <1>0, <1>20 DEF Gaze
  <1>21. ASSUME NEW p \in Player, Throw(p) PROVE PlayersTyped'
    BY <1>0, <1>21 DEF Throw
  <1> QED
    BY <1>1, <1>2, <1>3, <1>4, <1>5, <1>6, <1>7, <1>8, <1>9, <1>10, <1>11, <1>12, <1>13,
       <1>14, <1>15, <1>16, <1>17, <1>18, <1>19, <1>20, <1>21
    DEF Next, Turn, Charge, Activation, Wrapup, Pitch

(* The latches of the ball are Boolean.                                     *)
LEMMA BallTypedStep == TypeOK /\ Next /\ UNCHANGED cast => BallTyped'
  <1> SUFFICES ASSUME TypeOK, Next, UNCHANGED cast PROVE BallTyped'
    OBVIOUS
  <1> USE DEF TypeOK, BallTyped
  <1>1. CASE (\E k \in Teams : KickOff(k)) \/ PushTeamTurn \/ PushEndDrive
    BY <1>1 DEF KickOff, PushTeamTurn, PushEndDrive
  <1>2. CASE KickoffEvent \/ EndDrive
    BY <1>2 DEF KickoffEvent, EndDrive, EndDriveFlags
  <1>3. CASE TurnStart
    BY <1>3 DEF TurnStart, TurnLatches, Rested, Counted
  <1>4. CASE EndTurn \/ EndTurnStalling
    BY <1>4 DEF EndTurn, EndTurnStalling, CanActivate
  <1>5. CASE TurnEnd
    BY <1>5 DEF TurnEnd, RolledOver, Forget, NoneOf
  <1>6. CASE ChargeEvent \/ ChargeEnd
    BY <1>6 DEF ChargeEvent, ChargeEnd, Forget, NoneOf
  <1>7. ASSUME NEW p \in Player, Activate(p) PROVE BallTyped'
    BY <1>7 DEF Activate, Frame, Counted
  <1>8. ASSUME NEW p \in Player, ChargeActivate(p) PROVE BallTyped'
    BY <1>8 DEF ChargeActivate, Frame, Pick, ChargeGoesOn, Counted
  <1>9. CASE Recover \/ CrowdDone
    BY <1>9 DEF Recover, CrowdDone, Active, Framed
  <1>10. CASE ActivationEnds
    BY <1>10 DEF ActivationEnds, Finished, Active, Framed
  <1>11. CASE GateDecision
    BY <1>11 DEF GateDecision
  <1>12. ASSUME NEW k \in Kinds, Declare(k) PROVE BallTyped'
    BY <1>12 DEF Declare
  <1>13. CASE MoveEnds \/ Turnover \/ Moves \/ StandsUp
    BY <1>13 DEF MoveEnds, Turnover, Moves, StandsUp, Playing, Moving, Framed
  <1>14. CASE Touchdown
    BY <1>14 DEF Touchdown, Forget, NoneOf
  <1>15. CASE CrowdKnockdown
    BY <1>15 DEF CrowdKnockdown, Framed
  <1>16. ASSUME NEW p \in Player, GoesDown(p) PROVE BallTyped'
    BY <1>16 DEF GoesDown
  <1>17. ASSUME NEW p \in Player, PlacedProne(p) PROVE BallTyped'
    BY <1>17 DEF PlacedProne
  <1>18. ASSUME NEW p \in Player, Injured(p) PROVE BallTyped'
    BY <1>18 DEF Injured
  <1>19. ASSUME NEW p \in Player, Leaves(p) PROVE BallTyped'
    BY <1>19 DEF Leaves
  <1>20. ASSUME NEW p \in Player, Gaze(p) PROVE BallTyped'
    BY <1>20 DEF Gaze
  <1>21. ASSUME NEW p \in Player, Throw(p) PROVE BallTyped'
    BY <1>21 DEF Throw
  <1> QED
    BY <1>1, <1>2, <1>3, <1>4, <1>5, <1>6, <1>7, <1>8, <1>9, <1>10, <1>11, <1>12, <1>13,
       <1>14, <1>15, <1>16, <1>17, <1>18, <1>19, <1>20, <1>21
    DEF Next, Turn, Charge, Activation, Wrapup, Pitch

(* What an action on the pitch leaves alone, and how it changes the rest.  *)
PlayStep == Pitch \/ MoveEnds \/ CrowdKnockdown
PlayFrame ==
  /\ play # "none" /\ play' \in {play, "none", "landed"}
  /\ play = "crowd" => play' = "none"
  /\ UNCHANGED <<frame, active, latched, charge, act, used, activating, declared, acted>>
  /\ UNCHANGED <<turnover, lost>> \/ lost' = turnover'
  /\ pitch' \subseteq pitch

LEMMA PlayKeeps == TypeOK /\ Framed /\ PlayStep => PlayFrame
  <1> SUFFICES ASSUME TypeOK, Framed, PlayStep PROVE PlayFrame
    OBVIOUS
  <1> USE DEF PlayFrame
  <1>1. CASE MoveEnds \/ Turnover \/ Moves \/ StandsUp
    BY <1>1 DEF MoveEnds, Turnover, Moves, StandsUp, Playing, Moving
  <1>2. ASSUME NEW p \in Player, \E to \in {"PRONE", "STUNNED", "off"} : Laid(p, to)
        PROVE pitch' \subseteq pitch
    BY <1>2 DEF Laid
  <1>3. CASE CrowdKnockdown
    BY <1>2, <1>3 DEF CrowdKnockdown, Framed
  <1>4. ASSUME NEW p \in Player, GoesDown(p) PROVE PlayFrame
    BY <1>2, <1>4 DEF GoesDown, Moving
  <1>5. ASSUME NEW p \in Player, PlacedProne(p) PROVE PlayFrame
    BY <1>2, <1>5 DEF PlacedProne, Moving
  <1>6. ASSUME NEW p \in Player, Injured(p) PROVE PlayFrame
    BY <1>2, <1>6 DEF Injured, Moving
  <1>7. ASSUME NEW p \in Player, Leaves(p) PROVE PlayFrame
    BY <1>2, <1>7 DEF Leaves, Moving
  <1>8. ASSUME NEW p \in Player, Throw(p) PROVE PlayFrame
    BY <1>8 DEF Throw, Moving
  <1>9. ASSUME NEW p \in Player, Gaze(p) PROVE PlayFrame
    BY <1>9 DEF Gaze, Moving
  <1> QED
    BY <1>1, <1>3, <1>4, <1>5, <1>6, <1>7, <1>8, <1>9 DEF PlayStep, Pitch

(* The same of a declaration or a decision on a gate: no latch without a   *)
(* count.                                                                  *)
GateStep == GateDecision \/ \E k \in Kinds : Declare(k)
GateFrame ==
  /\ play = "none" /\ act # None /\ act.phase \in {0, 2}
  /\ act' # None /\ act'.player = act.player /\ act'.charge = act.charge
  /\ act'.phase \in {1, 2} /\ play' \in {"none", "move"} /\ victim' = victim
  /\ used \subseteq used' /\ activating' \subseteq activating
  /\ UNCHANGED <<frame, active, turnover, picked, left, body, moved, acted, lost, sat>>
  /\ \A k \in OncePerTurn : declared[k] > 0 => declared'[k] > 0
  /\ \A k \in latched' \ latched : declared'[k] > 0

LEMMA GateKeeps == TypeOK /\ Framed /\ GateStep => GateFrame
  <1> SUFFICES ASSUME TypeOK, Framed, NEW k \in Kinds,
                      Declare(k) \/ (GateDecision /\ k = act.kind)
               PROVE GateFrame
    BY DEF GateStep, TypeOK, FramesTyped
  <1>0. "MOVE" \in Kinds
    BY CastsAssumption DEF Framed, Kinds
  <1>1. /\ act.player \in Player /\ play = "none" /\ act # None /\ act.phase \in {0, 2}
        /\ UNCHANGED <<frame, active, turnover, picked, left, body, moved, acted, lost, sat>>
    BY GateSteps
  <1>2. /\ act' \in [player : {act.player}, phase : {1, 2}, kind : {k, "MOVE"},
                     charge : {act.charge}]
        /\ play' \in {"none", "move"} /\ victim' = victim
        /\ used \subseteq used' /\ activating' \subseteq activating
    BY <1>0, GateSteps, GateEffect DEF TypeOK
  <1>3. act' # None /\ act'.player = act.player /\ act'.charge = act.charge
        /\ act'.phase \in {1, 2}
    BY <1>1, <1>2 DEF None
  <1>4. /\ \A c \in OncePerTurn : declared[c] > 0 => declared'[c] > 0
        /\ \A c \in latched' \ latched : declared'[c] > 0
    <2>1. CASE UNCHANGED <<latched, budget, declared>>
      BY <2>1
    <2>2. CASE /\ latched' = latched \cup ({k} \cap OncePerTurn)
               /\ declared' = IF k \in OncePerTurn THEN [declared EXCEPT ![k] = Counted(@)]
                              ELSE declared
      <3>1. declared \in [OncePerTurn -> 0 .. 2]
        BY DEF TypeOK, PlayersTyped
      <3> QED
        BY <2>2, <3>1 DEF Counted
    <2> QED
      BY <2>1, <2>2, GateSteps
  <1> QED
    BY <1>1, <1>2, <1>3, <1>4 DEF GateFrame
(* The frames stay where they belong.                                      *)
LEMMA FramedStep == TypeOK /\ Framed /\ Next /\ UNCHANGED cast => Framed'
  <1> SUFFICES ASSUME TypeOK, Framed, Next, UNCHANGED cast PROVE Framed'
    OBVIOUS
  <1> USE DEF Framed, Charging, InTurn, None
  <1>1. ASSUME NEW k \in Teams, KickOff(k) PROVE Framed'
    BY <1>1 DEF KickOff
  <1>2. CASE KickoffEvent
    BY <1>2 DEF KickoffEvent
  <1>3. CASE PushTeamTurn \/ PushEndDrive
    BY <1>3 DEF PushTeamTurn, PushEndDrive
  <1>4. CASE EndDrive
    BY <1>4 DEF EndDrive, EndDriveFlags
  <1>5. CASE TurnStart
    BY <1>5 DEF TurnStart
  <1>6. CASE EndTurn
    BY <1>6 DEF EndTurn, Nobody
  <1>7. CASE EndTurnStalling
    BY <1>7 DEF EndTurnStalling, CanActivate, Nobody, NoDie, TypeOK, PlayersTyped
  <1>8. CASE TurnEnd
    BY <1>8 DEF TurnEnd, Forget, Nobody
  <1>9. ASSUME NEW p \in Player, Activate(p) PROVE Framed'
    BY <1>9 DEF Activate, Frame
  <1>10. CASE ChargeEvent
    BY <1>10 DEF ChargeEvent
  <1>11. CASE ChargeEnd
    BY <1>11 DEF ChargeEnd, Forget, Nobody
  <1>12. ASSUME NEW p \in Player, ChargeActivate(p) PROVE Framed'
    BY <1>12 DEF ChargeActivate, Frame
  <1>13. CASE Recover
    BY <1>13 DEF Recover
  <1>14. CASE ActivationEnds
    BY <1>14 DEF ActivationEnds, Active, Finished, NoDie, TypeOK, FramesTyped
  <1>15. CASE CrowdDone
    BY <1>15 DEF CrowdDone, Active
  <1>16. CASE GateStep
    BY <1>16, GateKeeps DEF GateFrame
  <1>17. CASE Touchdown
    BY <1>17 DEF Touchdown, Forget
  <1>18. CASE PlayStep
    BY <1>18, PlayKeeps DEF PlayFrame, TypeOK, FramesTyped
  <1> QED
    BY <1>1, <1>2, <1>3, <1>4, <1>5, <1>6, <1>7, <1>8, <1>9, <1>10, <1>11, <1>12, <1>13,
       <1>14, <1>15, <1>16, <1>17, <1>18
    DEF Next, Turn, Charge, Activation, Wrapup, GateStep, PlayStep

(* Whatever ends a turn or a Charge! forgets what it has seen.             *)
LEMMA AfreshStep == TypeOK /\ Framed /\ Afresh /\ Next /\ UNCHANGED cast => Afresh'
  <1> SUFFICES ASSUME TypeOK, Framed, Afresh, Next, UNCHANGED cast PROVE Afresh'
    OBVIOUS
  <1> USE DEF Afresh, InTurn, Charging
  <1>1. ASSUME NEW k \in Teams, KickOff(k) PROVE Afresh'
    BY <1>1 DEF KickOff
  <1>2. CASE KickoffEvent
    BY <1>2 DEF KickoffEvent
  <1>3. CASE PushTeamTurn \/ PushEndDrive
    BY <1>3 DEF PushTeamTurn, PushEndDrive
  <1>4. CASE EndDrive
    BY <1>4 DEF EndDrive, EndDriveFlags
  <1>5. CASE TurnStart
    BY <1>5 DEF TurnStart
  <1>6. CASE EndTurn
    BY <1>6 DEF EndTurn
  <1>7. CASE EndTurnStalling
    BY <1>7 DEF EndTurnStalling, CanActivate
  <1>8. CASE TurnEnd
    BY <1>8 DEF TurnEnd, Forget
  <1>9. ASSUME NEW p \in Player, Activate(p) PROVE Afresh'
    BY <1>9 DEF Activate, Frame
  <1>10. CASE ChargeEvent
    BY <1>10 DEF ChargeEvent
  <1>11. CASE ChargeEnd
    BY <1>11 DEF ChargeEnd, Forget
  <1>12. ASSUME NEW p \in Player, ChargeActivate(p) PROVE Afresh'
    BY <1>12 DEF ChargeActivate, Frame
  <1>13. CASE Recover
    BY <1>13 DEF Recover
  <1>14. CASE ActivationEnds
    BY <1>14 DEF ActivationEnds
  <1>15. CASE CrowdDone
    BY <1>15 DEF CrowdDone
  <1>16. CASE GateStep
    BY <1>16, GateKeeps DEF GateFrame, Framed
  <1>17. CASE Touchdown
    BY <1>17 DEF Touchdown, Forget
  <1>18. CASE PlayStep
    BY <1>18, PlayKeeps DEF PlayFrame, Framed, TypeOK, FramesTyped
  <1> QED
    BY <1>1, <1>2, <1>3, <1>4, <1>5, <1>6, <1>7, <1>8, <1>9, <1>10, <1>11, <1>12, <1>13,
       <1>14, <1>15, <1>16, <1>17, <1>18
    DEF Next, Turn, Charge, Activation, Wrapup, GateStep, PlayStep

(* Nobody is activated who is marked, and whoever has been is.             *)
LEMMA MarkedStep == TypeOK /\ Framed /\ Afresh /\ Marked /\ Next /\ UNCHANGED cast => Marked'
  <1> SUFFICES ASSUME TypeOK, Framed, Afresh, Marked, Next, UNCHANGED cast PROVE Marked'
    OBVIOUS
  <1> USE DEF Marked, InTurn, Charging
  <1>1. ASSUME NEW k \in Teams, KickOff(k) PROVE Marked'
    BY <1>1 DEF KickOff
  <1>2. CASE KickoffEvent
    BY <1>2 DEF KickoffEvent
  <1>3. CASE PushTeamTurn \/ PushEndDrive
    BY <1>3 DEF PushTeamTurn, PushEndDrive
  <1>4. CASE EndDrive
    BY <1>4 DEF EndDrive, EndDriveFlags
  <1>5. CASE TurnStart
    BY <1>5 DEF TurnStart, Afresh
  <1>6. CASE EndTurn
    BY <1>6 DEF EndTurn
  <1>7. CASE EndTurnStalling
    BY <1>7 DEF EndTurnStalling, CanActivate
  <1>8. CASE TurnEnd
    BY <1>8 DEF TurnEnd, Forget
  <1>9. ASSUME NEW p \in Player, Activate(p) PROVE Marked'
    BY <1>9 DEF Activate, Frame, Nobody, CanActivate, Counted, None, TypeOK, PlayersTyped
  <1>10. CASE ChargeEvent
    BY <1>10 DEF ChargeEvent, Afresh
  <1>11. CASE ChargeEnd
    BY <1>11 DEF ChargeEnd, Forget
  <1>12. ASSUME NEW p \in Player, ChargeActivate(p) PROVE Marked'
    BY <1>12 DEF ChargeActivate, Frame, Nobody, Counted, None, TypeOK, PlayersTyped, Pick
  <1>13. CASE Recover
    BY <1>13 DEF Recover
  <1>14. CASE ActivationEnds
    BY <1>14 DEF ActivationEnds, Finished, Active, None, TypeOK, PlayersTyped, Framed
  <1>15. CASE CrowdDone
    BY <1>15 DEF CrowdDone, Active, None, Framed, TypeOK, PlayersTyped
  <1>16. CASE GateStep
    BY <1>16, GateKeeps DEF GateFrame
  <1>17. CASE Touchdown
    BY <1>17 DEF Touchdown, Forget
  <1>18. CASE PlayStep
    BY <1>18, PlayKeeps DEF PlayFrame
  <1> QED
    BY <1>1, <1>2, <1>3, <1>4, <1>5, <1>6, <1>7, <1>8, <1>9, <1>10, <1>11, <1>12, <1>13,
       <1>14, <1>15, <1>16, <1>17, <1>18
    DEF Next, Turn, Charge, Activation, Wrapup, GateStep, PlayStep

(* The latch goes down only with the turn.                                 *)
LEMMA OverStep == TypeOK /\ Framed /\ Afresh /\ Over /\ Next /\ UNCHANGED cast => Over'
  <1> SUFFICES ASSUME TypeOK, Framed, Afresh, Over, Next, UNCHANGED cast PROVE Over'
    OBVIOUS
  <1> USE DEF Over, Afresh, InTurn, Charging
  <1>1. ASSUME NEW k \in Teams, KickOff(k) PROVE Over'
    BY <1>1 DEF KickOff
  <1>2. CASE KickoffEvent
    BY <1>2 DEF KickoffEvent
  <1>3. CASE PushTeamTurn \/ PushEndDrive
    BY <1>3 DEF PushTeamTurn, PushEndDrive
  <1>4. CASE EndDrive
    BY <1>4 DEF EndDrive, EndDriveFlags
  <1>5. CASE TurnStart
    BY <1>5 DEF TurnStart
  <1>6. CASE EndTurn
    BY <1>6 DEF EndTurn
  <1>7. CASE EndTurnStalling
    BY <1>7 DEF EndTurnStalling, CanActivate
  <1>8. CASE TurnEnd
    BY <1>8 DEF TurnEnd, Forget
  <1>9. ASSUME NEW p \in Player, Activate(p) PROVE Over'
    BY <1>9 DEF Activate, Frame
  <1>10. CASE ChargeEvent
    BY <1>10 DEF ChargeEvent
  <1>11. CASE ChargeEnd
    BY <1>11 DEF ChargeEnd, Forget
  <1>12. ASSUME NEW p \in Player, ChargeActivate(p) PROVE Over'
    BY <1>12 DEF ChargeActivate, Frame
  <1>13. CASE Recover
    BY <1>13 DEF Recover
  <1>14. CASE ActivationEnds
    BY <1>14 DEF ActivationEnds
  <1>15. CASE CrowdDone
    BY <1>15 DEF CrowdDone
  <1>16. CASE GateStep
    BY <1>16, GateKeeps DEF GateFrame
  <1>17. CASE Touchdown
    BY <1>17 DEF Touchdown, Forget
  <1>18. CASE PlayStep
    BY <1>18, PlayKeeps DEF PlayFrame
  <1> QED
    BY <1>1, <1>2, <1>3, <1>4, <1>5, <1>6, <1>7, <1>8, <1>9, <1>10, <1>11, <1>12, <1>13,
       <1>14, <1>15, <1>16, <1>17, <1>18
    DEF Next, Turn, Charge, Activation, Wrapup, GateStep, PlayStep

(* A latch goes up with a declaration that is counted.                     *)
LEMMA LatchesStep == TypeOK /\ Framed /\ OwnLatches /\ Next /\ UNCHANGED cast => OwnLatches'
  <1> SUFFICES ASSUME TypeOK, Framed, OwnLatches, Next, UNCHANGED cast PROVE OwnLatches'
    OBVIOUS
  <1> USE DEF OwnLatches, InTurn
  <1>1. ASSUME NEW k \in Teams, KickOff(k) PROVE OwnLatches'
    BY <1>1 DEF KickOff
  <1>2. CASE KickoffEvent
    BY <1>2 DEF KickoffEvent
  <1>3. CASE PushTeamTurn \/ PushEndDrive
    BY <1>3 DEF PushTeamTurn, PushEndDrive
  <1>4. CASE EndDrive
    BY <1>4 DEF EndDrive, EndDriveFlags
  <1>5. CASE TurnStart
    BY <1>5 DEF TurnStart, TurnLatches
  <1>6. CASE EndTurn
    BY <1>6 DEF EndTurn
  <1>7. CASE EndTurnStalling
    BY <1>7 DEF EndTurnStalling, CanActivate
  <1>8. CASE TurnEnd
    BY <1>8 DEF TurnEnd, Forget
  <1>9. ASSUME NEW p \in Player, Activate(p) PROVE OwnLatches'
    BY <1>9 DEF Activate, Frame
  <1>10. CASE ChargeEvent
    BY <1>10 DEF ChargeEvent
  <1>11. CASE ChargeEnd
    BY <1>11 DEF ChargeEnd, Forget
  <1>12. ASSUME NEW p \in Player, ChargeActivate(p) PROVE OwnLatches'
    BY <1>12 DEF ChargeActivate, Frame
  <1>13. CASE Recover
    BY <1>13 DEF Recover
  <1>14. CASE ActivationEnds
    BY <1>14 DEF ActivationEnds
  <1>15. CASE CrowdDone
    BY <1>15 DEF CrowdDone
  <1>16. CASE GateStep
    BY <1>16, GateKeeps DEF GateFrame, TypeOK, FramesTyped
  <1>17. CASE Touchdown
    BY <1>17 DEF Touchdown, Forget
  <1>18. CASE PlayStep
    BY <1>18, PlayKeeps DEF PlayFrame
  <1> QED
    BY <1>1, <1>2, <1>3, <1>4, <1>5, <1>6, <1>7, <1>8, <1>9, <1>10, <1>11, <1>12, <1>13,
       <1>14, <1>15, <1>16, <1>17, <1>18
    DEF Next, Turn, Charge, Activation, Wrapup, GateStep, PlayStep

(* On the pitch nobody is stunned but afresh, and nobody stunned recovers  *)
(* but by a throw.                                                         *)
StunFrame(p) ==
  /\ \/ stance'[p] = stance[p] /\ sat'[p] = sat[p]
     \/ stance'[p] = "STANDING"
     \/ stance'[p] # "STUNNED_USED" /\ sat'[p] = 0
  /\ p \in pitch' /\ Stunned(p) => Stunned(p)' \/ act.kind \in Throws

LEMMA PlayStuns ==
  ASSUME TypeOK, Framed, PlayStep
  PROVE \A p \in Player : StunFrame(p)
  <1> USE DEF TypeOK, PlayersTyped, StunFrame, Stunned
  <1>1. CASE MoveEnds \/ Turnover \/ Moves
    BY <1>1 DEF MoveEnds, Turnover, Moves
  <1>2. CASE StandsUp
    BY <1>2 DEF StandsUp
  <1>3. ASSUME NEW q \in Player, NEW to \in {"PRONE", "STUNNED", "off"}, Laid(q, to),
               to # "PRONE" \/ ~Stunned(q)
        PROVE \A p \in Player : StunFrame(p)
    BY <1>3 DEF Laid
  <1>4. CASE CrowdKnockdown
    <2>1. CASE UNCHANGED <<body, sat>>
      BY <2>1
    <2>2. CASE \E to \in {"PRONE", "STUNNED", "off"} : Laid(victim, to)
      <3>1. victim \in Player /\ ~Stunned(victim)
        BY <1>4 DEF CrowdKnockdown, Framed
      <3> QED
        BY <1>3, <2>2, <3>1
    <2> QED
      BY <1>4, <2>1, <2>2 DEF CrowdKnockdown
  <1>5. ASSUME NEW q \in Player, GoesDown(q) \/ PlacedProne(q)
        PROVE \A p \in Player : StunFrame(p)
    <2>1. ~Stunned(q) /\ \E to \in {"PRONE", "STUNNED", "off"} : Laid(q, to)
      BY <1>5 DEF GoesDown, PlacedProne
    <2> QED
      BY <1>3, <2>1
  <1>6. ASSUME NEW q \in Player, Injured(q) \/ Leaves(q)
        PROVE \A p \in Player : StunFrame(p)
    <2>1. \E to \in {"STUNNED", "off"} : Laid(q, to)
      BY <1>6 DEF Injured, Leaves
    <2> QED
      BY <1>3, <2>1
  <1>7. ASSUME NEW q \in Player, Throw(q) PROVE \A p \in Player : StunFrame(p)
    <2>1. act.kind \in Throws
      BY <1>7 DEF Throw
    <2>2. ASSUME NEW hit \in SUBSET (pitch \ {q}),
                 NEW to \in [Player -> {"STANDING", "PRONE", "STUNNED", "off"}],
                 stance' = [p \in Player |-> CASE p \notin hit \cup {q} -> stance[p]
                                              [] to[p] = "off" -> "STANDING"
                                              [] OTHER -> to[p]],
                 sat' = [p \in Player |-> IF p \in hit \cup {q} THEN 0 ELSE sat[p]]
          PROVE \A p \in Player : StunFrame(p)
      BY <2>1, <2>2
    <2> QED
      BY <1>7, <2>2 DEF Throw
  <1>8. ASSUME NEW q \in Player, Gaze(q) PROVE \A p \in Player : StunFrame(p)
    BY <1>8 DEF Gaze
  <1> QED
    BY <1>1, <1>2, <1>4, <1>5, <1>6, <1>7, <1>8 DEF PlayStep, Pitch

(* The count of the turns sat out follows the stance.                      *)
LEMMA SittingStep == TypeOK /\ Framed /\ Sitting /\ Next /\ UNCHANGED cast => Sitting'
  <1> SUFFICES ASSUME TypeOK, Framed, Sitting, Next, UNCHANGED cast PROVE Sitting'
    OBVIOUS
  <1> USE DEF Sitting, InTurn
  <1>1. ASSUME NEW k \in Teams, KickOff(k) PROVE Sitting'
    BY <1>1 DEF KickOff
  <1>2. CASE KickoffEvent
    BY <1>2 DEF KickoffEvent, TypeOK, PlayersTyped
  <1>3. CASE PushTeamTurn \/ PushEndDrive
    BY <1>3 DEF PushTeamTurn, PushEndDrive
  <1>4. CASE EndDrive
    BY <1>4 DEF EndDrive, EndDriveFlags
  <1>5. CASE TurnStart
    BY <1>5 DEF TurnStart, TypeOK, PlayersTyped, Counted, Stunned
  <1>6. CASE EndTurn
    BY <1>6 DEF EndTurn
  <1>7. CASE EndTurnStalling
    BY <1>7 DEF EndTurnStalling, CanActivate
  <1>8. CASE TurnEnd
    BY <1>8 DEF TurnEnd, Forget, RolledOver, TurnsProne, Other, TypeOK, FramesTyped,
      PlayersTyped, Teams, Squad, HelpedUp
  <1>9. ASSUME NEW p \in Player, Activate(p) PROVE Sitting'
    BY <1>9 DEF Activate, Frame
  <1>10. CASE ChargeEvent
    BY <1>10 DEF ChargeEvent
  <1>11. CASE ChargeEnd
    BY <1>11 DEF ChargeEnd, Forget
  <1>12. ASSUME NEW p \in Player, ChargeActivate(p) PROVE Sitting'
    BY <1>12 DEF ChargeActivate, Frame
  <1>13. CASE Recover
    BY <1>13 DEF Recover
  <1>14. CASE ActivationEnds
    BY <1>14 DEF ActivationEnds
  <1>15. CASE CrowdDone
    BY <1>15 DEF CrowdDone
  <1>16. CASE GateStep
    BY <1>16, GateKeeps DEF GateFrame
  <1>17. CASE Touchdown
    BY <1>17 DEF Touchdown, Forget
  <1>18. CASE PlayStep
    <2>1. PlayFrame /\ \A p \in Player : StunFrame(p)
      BY <1>18, PlayKeeps, PlayStuns
    <2>2. proc /= "SETUP"
      BY <2>1 DEF PlayFrame, Framed, Charging, InTurn, TypeOK, FramesTyped
    <2> QED
      BY <2>1, <2>2 DEF PlayFrame, StunFrame, TypeOK, PlayersTyped
  <1> QED
    BY <1>1, <1>2, <1>3, <1>4, <1>5, <1>6, <1>7, <1>8, <1>9, <1>10, <1>11, <1>12, <1>13,
       <1>14, <1>15, <1>16, <1>17, <1>18
    DEF Next, Turn, Charge, Activation, Wrapup, GateStep, PlayStep

(* A step that changes nothing.                                            *)
LEMMA TurnInvStutter == TurnInv /\ UNCHANGED <<vars, cast>> => TurnInv'
  <1> SUFFICES ASSUME TurnInv, UNCHANGED <<vars, cast>> PROVE TurnInv'
    OBVIOUS
  <1> USE DEF TurnInv, TypeOK
  <1>1. FramesTyped'
    BY DEF FramesTyped, Kinds, ChargeBudget
  <1>2. PlayersTyped' /\ BallTyped'
    BY DEF PlayersTyped, BallTyped
  <1>3. Framed' /\ Afresh' /\ Over' /\ OwnLatches'
    BY DEF Framed, Afresh, Over, OwnLatches, InTurn, Charging
  <1>4. Marked' /\ Sitting'
    BY DEF Marked, Sitting, InTurn, Charging
  <1> QED
    BY <1>1, <1>2, <1>3, <1>4

(* What a turn relies on holds in every reachable state.                   *)
THEOREM TurnInvariance == Spec => []TurnInv
  <1>1. Init /\ cast \in Casts => TurnInv
    BY TurnInvInit
  <1>2. TurnInv /\ [Next /\ UNCHANGED cast]_<<vars, cast>> => TurnInv'
    <2>1. TurnInv /\ Next /\ UNCHANGED cast => TurnInv'
      BY FramesTypedStep, PlayersTypedStep, BallTypedStep, FramedStep, AfreshStep, MarkedStep,
         OverStep, LatchesStep, SittingStep DEF TurnInv, TypeOK
    <2> QED
      BY <2>1, TurnInvStutter
  <1>3. Init => cast \in Casts
    BY DEF Init
  <1> QED
    BY <1>1, <1>2, <1>3, PTL DEF Spec

(* The variables of turns and activations have their types.                *)
THEOREM TurnTypeCorrect == Spec => []TypeOK
  <1>1. TurnInv => TypeOK
    BY DEF TurnInv
  <1> QED
    BY <1>1, TurnInvariance, PTL

(* Nobody is activated twice in a turn or in a Charge!, and the flag of    *)
(* the active player is on nobody else.                                    *)
THEOREM NobodyActsTwice == Spec => []ActsOnce
  <1>1. TurnInv => ActsOnce
    BY DEF TurnInv, Marked, ActsOnce
  <1> QED
    BY <1>1, TurnInvariance, PTL

(* A turn withholds only what it has itself spent.                         *)
THEOREM LatchesAreOwn == Spec => []OwnLatches
  <1>1. TurnInv => OwnLatches
    BY DEF TurnInv
  <1> QED
    BY <1>1, TurnInvariance, PTL

(* Nobody is activated after a turnover.                                   *)
THEOREM LostIsOver == Spec => LostMeansOver
  <1>1. TurnInv /\ [Next /\ UNCHANGED cast]_<<vars, cast>> => [lost /\ act = None => act' = None]_vars
    <2> SUFFICES ASSUME TurnInv, Next, lost, act = None, act' # act PROVE FALSE
      OBVIOUS
    <2> USE DEF TurnInv
    <2>1. turnover
      BY DEF Over
    <2>2. ~\E p \in Player : Activate(p) \/ ChargeActivate(p)
      BY <2>1 DEF Activate, ChargeActivate, TurnGoesOn, ChargeGoesOn
    <2>3. ~Recover /\ ~ActivationEnds /\ ~CrowdDone
      BY DEF Recover, ActivationEnds, CrowdDone, Active
    <2>4. ~GateStep
      BY GateKeeps DEF GateFrame
    <2>5. ~PlayStep
      BY PlayKeeps DEF PlayFrame
    <2>6. ~(TurnStart \/ EndTurn \/ EndTurnStalling \/ TurnEnd)
      BY DEF TurnStart, EndTurn, EndTurnStalling, TurnEnd
    <2>7. ~(ChargeEvent \/ ChargeEnd \/ Touchdown)
      BY DEF ChargeEvent, ChargeEnd, Touchdown
    <2>8. ~(\E k \in Teams : KickOff(k)) /\ ~KickoffEvent
      BY DEF KickOff, KickoffEvent
    <2>9. ~(PushTeamTurn \/ PushEndDrive \/ EndDrive)
      BY DEF PushTeamTurn, PushEndDrive, EndDrive
    <2> QED
      BY <2>2, <2>3, <2>4, <2>5, <2>6, <2>7, <2>8, <2>9
      DEF Next, Turn, Charge, Activation, Wrapup, GateStep, PlayStep
  <1> QED
    BY <1>1, TurnInvariance, PTL DEF Spec, LostMeansOver

(* Whoever is stunned sits out one whole turn of his team.                 *)
THEOREM StunIsServed == Spec => StunServed
  <1> DEFINE Served(p) ==
        \/ sat[p] = 1
        \/ Helped(p)
        \/ act.kind \in Throws
  <1>1. TurnInv /\ [Next /\ UNCHANGED cast]_<<vars, cast>> =>
          [\A p \in Player : Recovers(p) => Served(p)]_vars
    <2> SUFFICES ASSUME TurnInv, Next, NEW p \in Player, Recovers(p) PROVE Served(p)
      OBVIOUS
    <2> USE DEF TurnInv, Recovers, Stunned
    <2>1. CASE stance' = stance
      BY <2>1
    <2>2. CASE PlayStep
      BY <2>2, PlayStuns DEF StunFrame
    <2>3. CASE TurnEnd
      <3>1. PICK up \in HelpedUp :
              stance' = [q \in Player |->
                           CASE q \in up -> "STANDING"
                             [] q \in Squad(team) \cap pitch /\ TurnsProne(q) -> "PRONE"
                             [] OTHER -> RolledOver(q)]
        BY <2>3 DEF TurnEnd
      <3>2. InTurn /\ phase = 2
        BY <2>3 DEF TurnEnd, InTurn
      <3>3. CASE p \in up
        <4>1. p \notin Squad(team)
          BY <3>3 DEF HelpedUp, Squad, Other, Teams, TypeOK, FramesTyped
        <4>2. stance'[p] = "STANDING"
          BY <3>1, <3>3, <4>1
        <4> QED
          BY <3>2, <4>2 DEF Helped, InTurn
      <3>4. CASE p \notin up /\ p \in Squad(team) \cap pitch /\ TurnsProne(p)
        BY <3>2, <3>4 DEF TurnsProne, Sitting, InTurn
      <3>5. CASE p \notin up /\ ~(p \in Squad(team) \cap pitch /\ TurnsProne(p))
        BY <3>1, <3>5 DEF RolledOver
      <3> QED
        BY <3>3, <3>4, <3>5
    <2>4. CASE EndDrive
      BY <2>4 DEF EndDrive
    <2>5. CASE KickoffEvent
      BY <2>5 DEF KickoffEvent
    <2>6. CASE TurnStart
      BY <2>6 DEF TurnStart
    <2>7. CASE \E q \in Player : Activate(q) \/ ChargeActivate(q)
      BY <2>1, <2>7 DEF Activate, ChargeActivate
    <2>8. CASE Recover \/ ActivationEnds \/ CrowdDone
      BY <2>1, <2>8 DEF Recover, ActivationEnds, CrowdDone
    <2>9. CASE GateStep
      BY <2>1, <2>9, GateKeeps DEF GateFrame
    <2>10. CASE EndTurn \/ EndTurnStalling \/ ChargeEvent \/ ChargeEnd \/ Touchdown
      BY <2>1, <2>10 DEF EndTurn, EndTurnStalling, ChargeEvent, ChargeEnd, Touchdown
    <2>11. CASE (\E k \in Teams : KickOff(k)) \/ PushTeamTurn \/ PushEndDrive
      BY <2>1, <2>11 DEF KickOff, PushTeamTurn, PushEndDrive
    <2> QED
      BY <2>2, <2>3, <2>4, <2>5, <2>6, <2>7, <2>8, <2>9, <2>10, <2>11
      DEF Next, Turn, Charge, Activation, Wrapup, GateStep, PlayStep
  <1> QED
    BY <1>1, TurnInvariance, PTL DEF Spec, StunServed
=============================================================================
