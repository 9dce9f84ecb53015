------------------------------ MODULE TeamTurn ------------------------------
(***************************************************************************)
(* The team turn and the activation of a player (engine/src/proc_turn.c),  *)
(* with the Charge! of the kick-off, which activates players through the   *)
(* same ACTIVATION frame (engine/src/proc_match.c, KICKOFF phase 7).       *)
(*                                                                         *)
(* The module owns what a turn latches: who has activated, who is active,  *)
(* who lies where and for how long, which once-per-turn actions are spent, *)
(* and the turnover latch.  It follows these latches over many turns and   *)
(* drives.  What an action does on the pitch (the MOVE frame and all that  *)
(* it pushes) is `play`: while it runs, players move, stand up, go down,   *)
(* are stunned or carried off, and the ball may be turned over or scored.  *)
(***************************************************************************)
EXTENDS Naturals, FiniteSets

CONSTANTS
  Player,      \* everybody who can be fielded
  Home,        \* those of team 0; the others are team 1
  NoPlayer,    \* no player
  Casts        \* the matches played: what may spoil a player's activation
               \* (trait), who has Throw Team-mate (throws), Kick Team-mate
               \* (kicks) and Pick-Me-Up (helps), the kinds of action that can
               \* be declared (kinds), and the most players a Charge! can
               \* activate (budget; D3 + 3 in the code)

Teams == {0, 1}
Other(t) == 1 - t
Squad(t) == IF t = 0 THEN Home ELSE Player \ Home
TeamOf(p) == IF p \in Home THEN 0 ELSE 1

OncePerTurn == {"BLITZ", "PASS", "HANDOFF", "FOUL", "SECURE", "TTM", "KTM"}
Traits == {"none", "fury", "bonehead", "takeroot", "savage", "bloodlust", "animosity"}
Throws == {"TTM", "KTM"}

ASSUME SquadsAssumption == Home \subseteq Player /\ NoPlayer \notin Player
ASSUME CastsAssumption ==
  \A c \in Casts :
    /\ c.trait \in [Player -> Traits]
    /\ "MOVE" \in c.kinds
    /\ c.kinds \subseteq OncePerTurn \cup {"MOVE", "BLOCK", "GAZE", "SPECIAL"}
    /\ c.budget \in Nat \ {0}

VARIABLES
  cast,        \* which of the Casts plays; it never changes
  proc,        \* "SETUP" (between drives), "KICKOFF", "TEAM_TURN", "MATCH", "END_DRIVE"
  phase, team, \* phase of that frame, and the team it was pushed for
  active, turnover,
  latched,     \* once-per-turn actions spent: blitz_used, pass_used, ...
  picked,      \* KICKOFF data: players this Charge! has activated
  left,        \* KICKOFF x: activations left in the Charge!
  budget,      \* KICKOFF y: the free actions of the Charge! already taken
  act,         \* the ACTIVATION frame, or None
  play,        \* "none", "move" (the MOVE frame), "landed" (after TTM), or
               \* "crowd" (the KNOCKDOWN of a player who stalled)
  victim,      \* the player that KNOCKDOWN is for
  pitch,       \* players on the pitch
  stance,
  used, activating, distracted, rooted,   \* the players with that flag
  moved        \* players whose moved or rushes counter is not zero

(* History: what this turn or Charge! has seen so far, and how many of his  *)
(* team's turns a stunned player has sat out.                               *)
VARIABLES declared, acted, lost, sat

frame  == <<proc, phase, team>>
charge == <<picked, left, budget>>
runs   == <<act, play, victim>>
body   == <<pitch, stance>>
flags  == <<used, activating, distracted, rooted>>
past   == <<declared, acted, lost, sat>>
vars == <<frame, active, turnover, latched, charge, runs, body, flags, moved, past>>

Trait == cast.trait
Throwers == cast.throws
Kickers == cast.kicks
Helpers == cast.helps
Kinds == cast.kinds
ChargeBudget == cast.budget

None == [player |-> NoPlayer, phase |-> 0, kind |-> "MOVE", charge |-> FALSE]
Nobody == play = "none" /\ act = None

Stunned(p) == stance[p] \in {"STUNNED", "STUNNED_USED"}
NoneOf == [k \in OncePerTurn |-> 0]

(* History tells one from more than one.                                    *)
Counted(n) == IF n < 2 THEN n + 1 ELSE 2

(* History starts afresh when a turn or a Charge! is over.                  *)
Forget == declared' = NoneOf /\ acted' = [p \in Player |-> 0] /\ lost' = FALSE

Init ==
  /\ cast \in Casts
  /\ proc = "SETUP" /\ phase = 0 /\ team = 0
  /\ active = 0 /\ turnover = FALSE /\ latched = {}
  /\ picked = {} /\ left = 0 /\ budget = {}
  /\ act = None /\ play = "none" /\ victim = NoPlayer
  /\ pitch = {} /\ stance = [p \in Player |-> "STANDING"]
  /\ used = {} /\ activating = {} /\ distracted = {} /\ rooted = {}
  /\ moved = {}
  /\ declared = NoneOf /\ acted = [p \in Player |-> 0] /\ lost = FALSE
  /\ sat = [p \in Player |-> 0]

----------------------------------------------------------------------------
(* The frames around the turns, as far as they touch this state.            *)

(* SETUP puts players on the pitch, and the team `k` kicks off.             *)
KickOff(k) ==
  /\ proc = "SETUP"
  /\ proc' = "KICKOFF" /\ phase' = 1 /\ team' = k /\ active' = Other(k)
  /\ pitch' \in SUBSET Player
  /\ picked' = {} /\ left' = 0 /\ budget' = {}
  /\ UNCHANGED <<turnover, latched, runs, stance, flags, moved, past>>

(* A kick-off event may stun players; then the first turn can begin.        *)
KickoffEvent ==
  /\ proc = "KICKOFF" /\ phase = 1
  /\ \E hit \in SUBSET pitch :
       /\ stance' = [q \in Player |-> IF q \in hit THEN "STUNNED" ELSE stance[q]]
       /\ sat' = [q \in Player |-> IF q \in hit THEN 0 ELSE sat[q]]
  /\ proc' = "MATCH" /\ phase' = 0 /\ team' = 0
  /\ UNCHANGED <<active, turnover, latched, charge, runs, pitch, flags, moved, declared,
                 acted, lost>>

(* MATCH hands the turn to the team `active` names.                         *)
PushTeamTurn ==
  /\ proc = "MATCH"
  /\ proc' = "TEAM_TURN" /\ phase' = 0 /\ team' = active
  /\ UNCHANGED <<active, turnover, latched, charge, runs, body, flags, moved, past>>

(* The half has run out.                                                    *)
PushEndDrive ==
  /\ proc = "MATCH"
  /\ proc' = "END_DRIVE" /\ phase' = 0
  /\ UNCHANGED <<team, active, turnover, latched, charge, runs, body, flags, moved, past>>

EndDriveFlags == used' = {} /\ activating' = {} /\ distracted' = {} /\ rooted' = {}

EndDrive ==
  /\ proc = "END_DRIVE"
  /\ proc' = "SETUP"
  /\ pitch' = {} /\ stance' = [p \in Player |-> "STANDING"]
  /\ EndDriveFlags
  /\ turnover' = FALSE
  /\ sat' = [p \in Player |-> 0]
  /\ UNCHANGED <<phase, team, active, latched, charge, runs, moved, declared, acted, lost>>

----------------------------------------------------------------------------
(* Charge!                                                                  *)

ChargeEvent ==
  /\ proc = "KICKOFF" /\ phase = 1
  /\ phase' = 7 /\ left' \in 1 .. ChargeBudget /\ budget' = {} /\ picked' = {}
  /\ active' = team
  /\ UNCHANGED <<proc, team, turnover, latched, runs, body, flags, moved, past>>

Pick(p) == picked' = picked \cup {p}

ChargeGoesOn == ~turnover /\ left > 0

Frame(p, c) == [player |-> p, phase |-> 0, kind |-> "MOVE", charge |-> c]

ChargeActivate(p) ==
  /\ proc = "KICKOFF" /\ phase = 7 /\ Nobody
  /\ ChargeGoesOn
  /\ p \in (pitch \cap Squad(team)) \ picked /\ stance[p] = "STANDING"
  /\ Pick(p) /\ left' = left - 1
  /\ act' = Frame(p, TRUE)
  /\ acted' = [acted EXCEPT ![p] = Counted(@)]
  /\ UNCHANGED <<frame, active, turnover, latched, budget, play, victim, body, flags,
                 moved, declared, lost, sat>>

(* charge_end: by the latch, an empty budget, nobody Open, or the coach.    *)
ChargeEnd ==
  /\ proc = "KICKOFF" /\ phase = 7 /\ Nobody
  /\ turnover' = FALSE /\ active' = Other(team)
  /\ proc' = "MATCH" /\ phase' = 0 /\ team' = 0
  /\ picked' = {} /\ left' = 0 /\ budget' = {}
  /\ Forget
  /\ UNCHANGED <<latched, runs, body, flags, moved, sat>>

----------------------------------------------------------------------------
(* TEAM_TURN.                                                               *)

\* mutant: the blitz latch is forgotten, as ktm_used is
TurnLatches_NoBlitz == latched \cap {"KTM", "BLITZ"}
\* turn_start clears every latch but ktm_used.
TurnLatches == latched \cap {"KTM"}

Rested(t) == moved \ Squad(t)

TurnStart ==
  /\ proc = "TEAM_TURN" /\ phase = 0
  /\ active' = team /\ turnover' = FALSE
  /\ latched' = TurnLatches
  /\ used' = used \ Squad(team) /\ activating' = activating \ Squad(team)
  /\ moved' = Rested(team)
  /\ stance' = [p \in Player |-> IF p \in Squad(team) \cap pitch /\ stance[p] = "STUNNED"
                                 THEN "STUNNED_USED" ELSE stance[p]]
  /\ phase' = 1
  /\ sat' = [p \in Player |-> IF p \in Squad(team) \cap pitch /\ Stunned(p)
                              THEN Counted(sat[p]) ELSE sat[p]]
  /\ UNCHANGED <<proc, team, charge, runs, pitch, distracted, rooted, declared, acted, lost>>

\* mutant: a turnover is only looked at when nobody is left
TurnGoesOn_Blind == TRUE
TurnGoesOn == ~turnover

CanActivate == {p \in pitch \cap Squad(team) : p \notin used /\ ~Stunned(p)}

Activate(p) ==
  /\ proc = "TEAM_TURN" /\ phase = 1 /\ Nobody
  /\ TurnGoesOn /\ p \in CanActivate
  /\ act' = Frame(p, FALSE)
  /\ acted' = [acted EXCEPT ![p] = Counted(@)]
  /\ UNCHANGED <<frame, active, turnover, latched, charge, play, victim, body, flags,
                 moved, declared, lost, sat>>

(* By the turnover latch, because nobody can activate, or by the coach.     *)
EndTurn ==
  /\ proc = "TEAM_TURN" /\ phase = 1 /\ Nobody
  /\ phase' = 2
  /\ UNCHANGED <<proc, team, active, turnover, latched, charge, runs, body, flags, moved,
                 past>>

(* Who can score without a die: not if a gate has to be passed first.       *)
NoDie(p) == stance[p] = "STANDING" /\ Trait[p] \in {"none", "animosity"}

(* The coach ends the turn although the ball carrier, who could still act,  *)
(* would score without a die: it is used up, and the crowd may act.         *)
EndTurnStalling ==
  /\ proc = "TEAM_TURN" /\ phase = 1 /\ Nobody /\ ~turnover
  /\ phase' = 2
  /\ \E p \in CanActivate :
       /\ NoDie(p)
       /\ used' = used \cup {p}
       /\ \/ play' = "crowd" /\ victim' = p
          \/ UNCHANGED <<play, victim>>
  /\ UNCHANGED <<proc, team, active, turnover, latched, charge, act, body, activating,
                 distracted, rooted, moved, past>>

(* Phase 2.  The incoming team's stunned players roll over and its          *)
(* Pick-Me-Ups help; then the outgoing team's own stunned players, if they  *)
(* were so at the start of its turn, become prone.                          *)
RolledOver(p) ==
  IF p \in Squad(Other(team)) \cap pitch /\ stance[p] = "STUNNED"
  THEN "STUNNED_USED" ELSE stance[p]

CanHelp == \E p \in Helpers \cap Squad(Other(team)) \cap pitch :
             stance[p] = "STANDING" /\ p \notin distracted
HelpedUp ==
  SUBSET {p \in Squad(Other(team)) \cap pitch :
            CanHelp /\ RolledOver(p) \in {"PRONE", "STUNNED_USED"}}

\* mutant: everyone stunned gets up at the end of the own turn
TurnsProne_All(p) == stance[p] \in {"STUNNED", "STUNNED_USED"}
TurnsProne(p) == stance[p] = "STUNNED_USED"

TurnEnd ==
  /\ proc = "TEAM_TURN" /\ phase = 2 /\ Nobody
  /\ \E up \in HelpedUp :
       stance' = [p \in Player |->
                    CASE p \in up -> "STANDING"
                      [] p \in Squad(team) \cap pitch /\ TurnsProne(p) -> "PRONE"
                      [] OTHER -> RolledOver(p)]
  /\ turnover' = FALSE /\ active' = Other(team)
  /\ proc' = "MATCH" /\ phase' = 0 /\ team' = 0
  /\ Forget
  /\ sat' = [p \in Player |-> IF stance'[p] \in {"STUNNED", "STUNNED_USED"} THEN sat[p] ELSE 0]
  /\ UNCHANGED <<latched, charge, runs, pitch, flags, moved>>

----------------------------------------------------------------------------
(* ACTIVATION.                                                              *)

Active == act # None /\ play = "none"

(* What the coach may declare: a Charge! has a budget of its own.           *)
Offered(p) ==
  {"MOVE"} \cup
  {k \in Kinds :
     /\ k \in OncePerTurn => k \notin IF act.charge THEN budget ELSE latched
     /\ act.charge => k \in {"BLITZ"} \cup Throws
     /\ k = "TTM" => p \in Throwers /\ stance[p] = "STANDING"
     /\ k = "KTM" => p \in Kickers /\ stance[p] = "STANDING"}

(* BLOODLUST may downgrade the action, ANIMAL SAVAGERY may distract (or     *)
(* lash out at a team-mate, who then goes down in the play that follows),   *)
(* ANIMOSITY may refuse: nothing is pushed and the activation is lost.      *)
BeginAction(p, k) ==
  \/ /\ act' = [act EXCEPT !.phase = 1,
                           !.kind = IF Trait[p] = "bloodlust" THEN "MOVE" ELSE k]
     /\ Trait[p] = "bloodlust"
     /\ play' = "move"
     /\ UNCHANGED <<victim, used, activating, distracted, rooted>>
  \/ /\ act' = [act EXCEPT !.phase = 1, !.kind = k]
     /\ play' = "move"
     /\ distracted' \in IF Trait[p] = "savage" THEN {distracted, distracted \cup {p}}
                        ELSE {distracted}
     /\ UNCHANGED <<victim, used, activating, rooted>>
  \/ /\ Trait[p] = "animosity" /\ k \in {"PASS", "HANDOFF"}
     /\ act' = [act EXCEPT !.phase = 1, !.kind = k]
     /\ used' = used \cup {p} /\ activating' = activating \ {p}
     /\ UNCHANGED <<play, victim, distracted, rooted>>

(* The gate's roll has failed for good: a rooted player acts on the spot,   *)
(* for the others the activation is lost.                                   *)
GateFails(p, k) ==
  /\ Trait[p] \in {"fury", "bonehead"}
  /\ act' = [act EXCEPT !.phase = 1, !.kind = k]
  /\ used' = used \cup {p} /\ activating' = activating \ {p}
  /\ distracted' = IF Trait[p] = "bonehead" THEN distracted \cup {p} ELSE distracted
  /\ UNCHANGED <<play, victim, rooted>>

TakesRoot(p, k) ==
  /\ Trait[p] = "takeroot" /\ p \notin rooted /\ stance[p] = "STANDING"
  /\ act' = [act EXCEPT !.phase = 1, !.kind = k]
  /\ play' = "move" /\ rooted' = rooted \cup {p}
  /\ UNCHANGED <<victim, used, activating, distracted>>

HasGate(p) ==
  \/ Trait[p] \in {"fury", "bonehead"}
  \/ Trait[p] = "takeroot" /\ p \notin rooted /\ stance[p] = "STANDING"

(* A failed gate may be re-rolled: the window is phase 2.                   *)
GateWindow(p, k) ==
  /\ HasGate(p)
  /\ act' = [act EXCEPT !.phase = 2, !.kind = k]
  /\ UNCHANGED <<play, victim, used, activating, distracted, rooted>>

(* Phase 0 up to the decision: the player recovers, and is the active one.  *)
Recover ==
  /\ Active /\ act.phase = 0 /\ act.player \notin activating
  /\ activating' = activating \cup {act.player}
  /\ distracted' = distracted \ {act.player}
  /\ UNCHANGED <<frame, active, turnover, latched, charge, runs, body, used, rooted,
                 moved, past>>

Latch(k) == latched' = latched \cup ({k} \cap OncePerTurn)

Declare(k) ==
  LET p == act.player IN
  /\ Active /\ act.phase = 0 /\ p \in activating /\ k \in Offered(p)
  /\ GateWindow(p, k) \/ GateFails(p, k) \/ TakesRoot(p, k) \/ BeginAction(p, k)
  /\ budget' = IF act.charge THEN budget \cup ({k} \cap ({"BLITZ"} \cup Throws)) ELSE budget
  /\ Latch(k)
  /\ declared' = IF k \in OncePerTurn THEN [declared EXCEPT ![k] = Counted(@)] ELSE declared
  /\ UNCHANGED <<frame, active, turnover, picked, left, body, moved, acted, lost, sat>>

(* The re-roll window: declined, wasted or failed again, or passed.         *)
GateDecision ==
  /\ Active /\ act.phase = 2
  /\ LET p == act.player
     IN GateFails(p, act.kind) \/ TakesRoot(p, act.kind) \/ BeginAction(p, act.kind)
  /\ UNCHANGED <<frame, active, turnover, latched, charge, body, moved, past>>

\* mutant: the player is not marked as used
Finished_Unused(p) == UNCHANGED used
Finished(p) == used' = used \cup {p}

(* Phase 1 again: the child is gone.  A carrier that could have scored and  *)
(* still stands there brings the crowd down on itself, and the frame stays  *)
(* below the KNOCKDOWN.                                                     *)
ActivationEnds ==
  LET p == act.player IN
  /\ Active /\ act.phase = 1
  /\ Finished(p) /\ activating' = activating \ {p}
  /\ \/ act' = None /\ UNCHANGED <<play, victim>>
     \/ /\ ~turnover /\ p \in pitch /\ NoDie(p)
        /\ act' = [act EXCEPT !.phase = 3] /\ play' = "crowd" /\ victim' = p
  /\ UNCHANGED <<frame, active, turnover, latched, charge, body, distracted, rooted, moved,
                 past>>

CrowdDone ==
  /\ Active /\ act.phase = 3
  /\ act' = None
  /\ UNCHANGED <<frame, active, turnover, latched, charge, play, victim, body, flags, moved,
                 past>>

----------------------------------------------------------------------------
(* What happens on the pitch.                                               *)

Moving == play = "move"
Playing == play \in {"move", "landed"}

(* Where the armour and injury rolls leave a player.                        *)
Laid(p, to) ==
  /\ stance' = [stance EXCEPT ![p] = IF to = "off" THEN "STANDING" ELSE to]
  /\ pitch' = IF to = "off" THEN pitch \ {p} ELSE pitch
  /\ sat' = [sat EXCEPT ![p] = 0]

Moves ==
  LET p == act.player IN
  /\ Moving /\ ~turnover /\ act.kind # "BLOCK"
  /\ p \in pitch /\ stance[p] = "STANDING" /\ p \notin rooted
  /\ moved' = moved \cup {p}
  /\ UNCHANGED <<frame, active, turnover, latched, charge, runs, body, flags, past>>

(* Standing up costs movement, unless the player jumps up.                  *)
StandsUp ==
  LET p == act.player IN
  /\ Moving /\ ~turnover /\ p \in pitch /\ stance[p] = "PRONE" /\ p \notin moved
  /\ stance' = [stance EXCEPT ![p] = "STANDING"]
  /\ moved' \in {moved, moved \cup {p}}
  /\ UNCHANGED <<frame, active, turnover, latched, charge, runs, pitch, flags, past>>

Contact == act.kind \in {"BLOCK", "BLITZ"}
(* Stab, Chainsaw, Breathe Fire and Projectile Vomit are SPECIAL.           *)
Assault == Contact \/ act.kind = "SPECIAL"
Savaged(p) == p # act.player /\ TeamOf(p) = active /\ Trait[act.player] = "savage"

(* KNOCKDOWN, with the ARMOUR and INJURY behind it, of a player who is not  *)
(* stunned: the mover, whom it attacks, or whom it savages.  For the active *)
(* team it is a turnover; but a savaged team-mate, and the blocker of a     *)
(* Saboteur, turn the ball over only with the ball in hand, and a Saboteur  *)
(* who knocks himself out does not at all.                                  *)
GoesDown(p) ==
  /\ Moving /\ p \in pitch /\ ~Stunned(p)
  /\ p = act.player \/ (Assault /\ TeamOf(p) # active) \/ Savaged(p)
  /\ \E to \in {"PRONE", "STUNNED", "off"} : Laid(p, to)
  /\ rooted' = rooted \ {p}
  /\ turnover' \in IF TeamOf(p) # active THEN {turnover}
                   ELSE IF Contact \/ Savaged(p) THEN {turnover, TRUE} ELSE {TRUE}
  /\ lost' = turnover'
  /\ UNCHANGED <<frame, active, latched, charge, runs, used, activating, distracted, moved,
                 declared, acted>>

(* Placed Prone, without armour.  Wrestle un-roots both, and turns the ball *)
(* over if the active team's carrier is placed; Breathe Fire and Diving     *)
(* Tackle place an opponent, and do not un-root it.                         *)
PlacedProne(p) ==
  /\ Moving /\ p \in pitch /\ stance[p] = "STANDING"
  /\ Laid(p, "PRONE")
  /\ \/ /\ Contact /\ rooted' = rooted \ {p}
        /\ p = act.player \/ TeamOf(p) # active
        /\ turnover' \in IF p = act.player THEN {turnover, TRUE} ELSE {turnover}
     \/ /\ act.kind # "BLOCK" /\ TeamOf(p) # active
        /\ UNCHANGED <<rooted, turnover>>
  /\ lost' = turnover'
  /\ UNCHANGED <<frame, active, latched, charge, runs, used, activating, distracted, moved,
                 declared, acted>>

(* Injury without a knockdown: a foul on a player who is down, or a special *)
(* attack, of which vomit may hit whoever spits it.                         *)
Injured(p) ==
  /\ Moving /\ p \in pitch
  /\ \/ TeamOf(p) # active /\ act.kind = "FOUL" /\ stance[p] # "STANDING"
     \/ TeamOf(p) # active /\ act.kind \in {"BLITZ", "SPECIAL"} /\ stance[p] = "STANDING"
     \/ p = act.player /\ act.kind = "SPECIAL"
  /\ \E to \in {"STUNNED", "off"} : Laid(p, to)
  /\ turnover' \in IF p = act.player THEN {turnover, TRUE} ELSE {turnover}
  /\ lost' = turnover'
  /\ UNCHANGED <<frame, active, latched, charge, runs, flags, moved, declared, acted>>

(* Pushed into the crowd, or sent off.                                      *)
Leaves(p) ==
  /\ Moving /\ p \in pitch
  /\ Contact \/ (act.kind = "FOUL" /\ p = act.player)
  /\ Laid(p, "off")
  /\ turnover' = (turnover \/ TeamOf(p) = active)
  /\ lost' = turnover'
  /\ UNCHANGED <<frame, active, latched, charge, runs, flags, moved, declared, acted>>

(* TTM, with the KNOCKDOWNs it pushes.  The mate `q` crashes through `hit`, *)
(* who are Knocked Down (even if already down), and then falls, or lands on *)
(* its feet; it may be eaten, kicked out or thrown into the crowd instead.  *)
(* A turnover is certain when one of the active team is hit.                *)
Throw(q) ==
  /\ Moving /\ act.kind \in Throws /\ ~turnover
  /\ stance[act.player] = "STANDING" /\ act.player \in pitch
  /\ q \in (pitch \cap Squad(TeamOf(act.player))) \ {act.player}
  /\ \E hit \in SUBSET (pitch \ {q}), to \in [Player -> {"STANDING", "PRONE", "STUNNED", "off"}] :
       LET down == hit \cup (IF to[q] = "STANDING" THEN {} ELSE {q}) IN
       /\ \A p \in hit : to[p] # "STANDING"
       /\ \A p \in Player \ (hit \cup {q}) : to[p] = "STANDING"
       /\ stance' = [p \in Player |-> CASE p \notin hit \cup {q} -> stance[p]
                                        [] to[p] = "off" -> "STANDING"
                                        [] OTHER -> to[p]]
       /\ pitch' = pitch \ {p \in down : to[p] = "off"}
       /\ rooted' = rooted \ down
       /\ sat' = [p \in Player |-> IF p \in hit \cup {q} THEN 0 ELSE sat[p]]
       /\ turnover' \in IF \E p \in hit : TeamOf(p) = active THEN {TRUE}
                        ELSE {turnover, TRUE}
       /\ lost' = turnover'
  /\ play' = "landed"
  /\ UNCHANGED <<frame, active, latched, charge, act, victim, used, activating, distracted,
                 moved, declared, acted>>

(* HYPNOTIC GAZE: it ends the activation, whether it works or not.          *)
Gaze(p) ==
  /\ Moving /\ act.kind = "GAZE" /\ ~turnover
  /\ p \in pitch /\ TeamOf(p) # active /\ stance[p] = "STANDING"
  /\ stance[act.player] = "STANDING"
  /\ distracted' \in {distracted, distracted \cup {p}}
  /\ play' = "none"
  /\ UNCHANGED <<frame, active, turnover, latched, charge, act, victim, body, used,
                 activating, rooted, moved, past>>

(* Every turnover that knocks nobody down.                                  *)
Turnover ==
  /\ Playing /\ ~turnover
  /\ turnover' = TRUE /\ lost' = TRUE
  /\ UNCHANGED <<frame, active, latched, charge, runs, body, flags, moved, declared, acted,
                 sat>>

MoveEnds ==
  /\ Playing
  /\ play' = "none"
  /\ UNCHANGED <<frame, active, turnover, latched, charge, act, victim, body, flags, moved,
                 past>>

(* The KNOCKDOWN of a stalling player: Steady Footing, or down and turnover.*)
CrowdKnockdown ==
  /\ play = "crowd"
  /\ play' = "none" /\ victim' = NoPlayer
  /\ \/ UNCHANGED <<body, rooted, turnover, lost, sat>>
     \/ /\ \E to \in {"PRONE", "STUNNED", "off"} : Laid(victim, to)
        /\ rooted' = rooted \ {victim}
        /\ turnover' = TRUE /\ lost' = TRUE
  /\ UNCHANGED <<frame, active, latched, charge, act, used, activating, distracted, moved,
                 declared, acted>>

(* TOUCHDOWN drops everything above MATCH, the flags stay as they are.      *)
Touchdown ==
  /\ Playing /\ proc = "TEAM_TURN"
  /\ proc' = "END_DRIVE" /\ phase' = 0
  /\ act' = None /\ play' = "none" /\ turnover' = FALSE /\ team' = 0
  /\ Forget
  /\ UNCHANGED <<active, latched, charge, victim, body, flags, moved, sat>>

----------------------------------------------------------------------------
Turn == TurnStart \/ EndTurn \/ EndTurnStalling \/ TurnEnd \/ \E p \in Player : Activate(p)
Charge == ChargeEvent \/ ChargeEnd \/ \E p \in Player : ChargeActivate(p)
Activation ==
  \/ Recover \/ GateDecision \/ ActivationEnds \/ CrowdDone
  \/ \E k \in Kinds : Declare(k)
Wrapup == MoveEnds \/ CrowdKnockdown \/ Touchdown
Pitch ==
  \/ Moves \/ StandsUp \/ Turnover
  \/ \E p \in Player : GoesDown(p) \/ PlacedProne(p) \/ Injured(p) \/ Leaves(p)
                     \/ Throw(p) \/ Gaze(p)

Next ==
  \/ \E k \in Teams : KickOff(k)
  \/ KickoffEvent \/ PushTeamTurn \/ PushEndDrive \/ EndDrive
  \/ Turn \/ Charge \/ Activation \/ Wrapup \/ Pitch

Spec == Init /\ [][Next /\ UNCHANGED cast]_<<vars, cast>>

(* bb_advance runs every frame until a coach has to decide, and the coaches *)
(* decide; an action on the pitch ends (every step of MOVE spends movement).*)
FairSpec ==
  Spec /\ WF_vars(Turn \/ Charge \/ Activation) /\ WF_vars(Wrapup)

----------------------------------------------------------------------------
Stances == {"STANDING", "PRONE", "STUNNED", "STUNNED_USED"}

(* The variables have their types.                                          *)
FramesTyped ==
  /\ proc \in {"SETUP", "KICKOFF", "TEAM_TURN", "MATCH", "END_DRIVE"}
  /\ phase \in {0, 1, 2, 7} /\ team \in Teams /\ active \in Teams
  /\ latched \subseteq OncePerTurn /\ budget \subseteq OncePerTurn
  /\ picked \subseteq Player /\ left \in 0 .. ChargeBudget
  /\ act \in [player : Player \cup {NoPlayer}, phase : 0 .. 3, kind : Kinds,
              charge : BOOLEAN]
  /\ play \in {"none", "move", "landed", "crowd"} /\ victim \in Player \cup {NoPlayer}
PlayersTyped ==
  /\ pitch \subseteq Player /\ stance \in [Player -> Stances]
  /\ used \subseteq Player /\ activating \subseteq Player
  /\ distracted \subseteq Player /\ rooted \subseteq Player /\ moved \subseteq Player
  /\ declared \in [OncePerTurn -> 0 .. 2]
  /\ acted \in [Player -> 0 .. 2] /\ sat \in [Player -> 0 .. 2]
BallTyped == turnover \in BOOLEAN /\ lost \in BOOLEAN
TypeOK == FramesTyped /\ PlayersTyped /\ BallTyped

(* Nobody is activated twice in a team turn or in a Charge!, however the    *)
(* first activation ended: by a lost gate, by a refusal, by the crowd.      *)
(* And while anything can still ask for it (the Pro skill re-rolls only in  *)
(* its owner's activation), the flag of the active player is on the player  *)
(* of the ACTIVATION frame and on nobody else, whatever a touchdown cut     *)
(* short.                                                                  *)
ActsOnce ==
  /\ \A p \in Player : acted[p] <= 1
  /\ proc \in {"KICKOFF", "TEAM_TURN", "MATCH"} => activating \subseteq {act.player}

(* What a turn withholds it has itself spent: no latch of an earlier turn,  *)
(* or of a Charge!, is left up.  (Kick Team-mate is the exception, see      *)
(* KickEveryTurn.)                                                          *)
InTurn == proc = "TEAM_TURN" /\ phase > 0
OwnLatches == InTurn => \A k \in latched \ {"KTM"} : declared[k] > 0

(* bb_match.h:105 and bb_actions.h:78 call Kick Team-mate's budget a        *)
(* once-per-turn budget of its own: it is there again the next turn.        *)
KickEveryTurn == InTurn /\ "KTM" \in latched => declared["KTM"] > 0

(* Once the ball has been turned over nobody else is activated, in a turn   *)
(* or in a Charge!, until the other team has taken over.                    *)
LostMeansOver == [][lost /\ act = None => act' = None]_vars

(* Whoever is stunned sits out one whole turn of his team, no more and no   *)
(* less: he rolls over at its end, unless a team-mate's Pick-Me-Up helps    *)
(* him up, he is thrown or landed on, or the drive ends.                    *)
Recovers(p) == p \in pitch /\ p \in pitch' /\ Stunned(p) /\ ~Stunned(p)'
Helped(p) == proc = "TEAM_TURN" /\ phase = 2 /\ stance'[p] = "STANDING"

StunServed ==
  [][\A p \in Player : Recovers(p) =>
       \/ sat[p] = 1
       \/ Helped(p)
       \/ act.kind \in Throws]_vars

(* Every team turn comes to its end.                                        *)
TurnsEnd == proc = "TEAM_TURN" ~> proc # "TEAM_TURN"
=============================================================================
