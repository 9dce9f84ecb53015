---------------------------- MODULE MatchDriver ----------------------------
(***************************************************************************)
(* The match driver of the engine (engine/src/proc_match.c and the turn    *)
(* procedure of engine/src/proc_turn.c): the MATCH frame at the bottom of  *)
(* the procedure stack, the frame it pushes on top of itself (PREGAME,     *)
(* SETUP, KICKOFF, TEAM_TURN or END_DRIVE), and whatever those push, kept  *)
(* abstract as `play`.  The module owns the clock, the score, the two      *)
(* team latches (active_team, kicking_team), the turnover latch and the    *)
(* team re-roll pools.  Where players stand and who has the ball is the    *)
(* business of other modules; here an activation may turn the ball over,   *)
(* spend re-rolls, lose the Leader, score, or none of these.               *)
(*                                                                         *)
(* One action is one call of a handler: an `advance` of the top frame, or  *)
(* an `apply` of a coach's decision followed by the early return that      *)
(* hands control back to bb_advance.                                       *)
(***************************************************************************)
EXTENDS Integers, FiniteSets

CONSTANTS
  TurnsPerHalf,    \* 8 in the code: the marker value that ends a team's half
  TimeOutFrom,     \* 6 in the code: from this marker on a Time-Out rewinds
  LeaderTeams,     \* teams that field a Leader
  RerollsStart,    \* purchased re-rolls of each team
  Squad,           \* most activations a team turn can hold
  ChargeBudget,    \* most activations a Charge! can hold (D3+3 in the code)
  MaxScore,        \* bound of the model on each team's score
  MaxTimeOuts      \* bound of the model on Time-Out events

Teams == {0, 1}
NoTeam == 2
Other(t) == 1 - t

ASSUME TurnsPerHalfAssumption == TurnsPerHalf \in Nat \ {0}
ASSUME TimeOutFromAssumption == TimeOutFrom \in 1 .. TurnsPerHalf
ASSUME RerollsStartAssumption == RerollsStart \in [Teams -> Nat]
ASSUME LeaderTeamsAssumption == LeaderTeams \subseteq Teams
ASSUME BudgetAssumption == Squad \in Nat /\ ChargeBudget \in Nat \ {0}
ASSUME BoundsAssumption == MaxScore \in [Teams -> Nat] /\ MaxTimeOuts \in Nat

VARIABLES
  over,       \* status = BB_STATUS_MATCH_OVER: the stack is empty
  mphase,     \* phase of the MATCH frame, 0..4
  td,         \* MD_TD, the touchdown latch in the MATCH frame's data
  h1,         \* MD_H1_KICKER_SET / MD_H1_KICKER: NoTeam until latched
  proc,       \* procedure of the frame above MATCH; "MATCH" when there is none
  phase,      \* phase of that frame
  owner,      \* parameter a of that frame: the team it was pushed for
  left,       \* activations it may still start (KICKOFF x, or unused players)
  picked,     \* KICKOFF's data: its Charge! has activated somebody
  play,       \* what runs above it: "none", "activation", "landing", "touchdown"
  scorer,     \* team of the TOUCHDOWN frame's player while play = "touchdown"
  half, turn, score, active, kicking, turnover,
  rerolls, bonus,       \* team re-rolls; those among them scoped to this drive
  leaders,              \* teams whose Leader has not left the match
  completed             \* turns_completed

(* History variables: what happened, recorded independently of the code.   *)
VARIABLES
  opener,     \* who kicked the match off, once the toss is decided
  started,    \* number of times each team's turn has started
  carried,    \* re-rolls each team brought into this drive
  earned,     \* re-rolls won for this drive
  spent,      \* re-rolls spent in this drive
  scored,     \* this drive has ended in a touchdown
  gifts,      \* kick-off touchdowns scored against each team
  skipped,    \* this half's turns a team's own kick-off touchdowns cost it
  timeOuts    \* Time-Out events so far (bounds the model)

frame   == <<proc, phase, owner, left, picked>>
clock   == <<half, turn, score, active, kicking>>
pools   == <<rerolls, bonus, leaders>>
matchfr == <<over, mphase, td, h1>>
booking == <<gifts, skipped>>
history == <<opener, started, carried, earned, spent, scored, booking, timeOuts>>
vars == <<matchfr, frame, play, scorer, clock, turnover, pools, completed, history>>

Init ==
  /\ over = FALSE /\ mphase = 0 /\ td = FALSE /\ h1 = NoTeam
  /\ proc = "MATCH" /\ phase = 0 /\ owner = 0 /\ left = 0 /\ picked = FALSE
  /\ play = "none" /\ scorer = NoTeam
  /\ half = 1 /\ turn = [t \in Teams |-> 0] /\ score = [t \in Teams |-> 0]
  /\ active = 0 /\ kicking = 0 /\ turnover = FALSE
  /\ rerolls = RerollsStart /\ bonus = [t \in Teams |-> 0]
  /\ leaders = LeaderTeams
  /\ completed = [t \in Teams |-> 0]
  /\ opener = NoTeam /\ timeOuts = 0 /\ scored = FALSE
  /\ started = [t \in Teams |-> 0] /\ carried = RerollsStart
  /\ earned = [t \in Teams |-> 0] /\ spent = [t \in Teams |-> 0]
  /\ gifts = [t \in Teams |-> 0] /\ skipped = [t \in Teams |-> 0]

Push(p, t) == proc' = p /\ phase' = 0 /\ owner' = t /\ left' = 0 /\ picked' = FALSE
Pop == Push("MATCH", 0)
OnTop(p) == ~over /\ proc = p /\ play = "none"

HalfOver == \A t \in Teams : turn[t] >= TurnsPerHalf

(* The per-half re-roll of a team that still has its Leader.                *)
WithLeader(pool) == [t \in Teams |-> pool[t] + IF t \in leaders THEN 1 ELSE 0]

----------------------------------------------------------------------------
(* MATCH: the driver itself, and PREGAME.                                   *)

MatchPushPregame ==
  /\ OnTop("MATCH") /\ mphase = 0
  /\ mphase' = 1 /\ Push("PREGAME", 0)
  /\ UNCHANGED <<over, td, h1, play, scorer, clock, turnover, pools, completed, history>>

(* Leader re-rolls are handed out and the toss winner is asked.             *)
PregameToss ==
  /\ OnTop("PREGAME") /\ phase = 0
  /\ phase' = 1 /\ owner' \in Teams
  /\ rerolls' = WithLeader(rerolls)
  /\ UNCHANGED <<matchfr, proc, left, picked, play, scorer, clock, turnover, bonus,
                 leaders, completed, history>>

PregameChoose ==
  /\ OnTop("PREGAME") /\ phase = 1
  /\ \E k \in {owner, Other(owner)} : kicking' = k /\ opener' = k
  /\ Pop
  /\ UNCHANGED <<matchfr, play, scorer, half, turn, score, active, turnover, pools,
                 completed, started, carried, earned, spent, scored, booking, timeOuts>>

MatchPushSetup ==
  /\ OnTop("MATCH") /\ mphase = 1
  /\ h1' = IF h1 = NoTeam THEN kicking ELSE h1
  /\ mphase' = 2 /\ Push("SETUP", kicking)
  /\ carried' = rerolls
  /\ earned' = [t \in Teams |-> 0] /\ spent' = [t \in Teams |-> 0]
  /\ UNCHANGED <<over, td, play, scorer, clock, turnover, pools, completed,
                 opener, started, scored, booking, timeOuts>>

(* The kicking team's formation is accepted, then the receiving team's.     *)
SetupDone ==
  /\ OnTop("SETUP")
  /\ \/ phase = 0 /\ phase' = 1 /\ UNCHANGED <<proc, owner, left, picked>>
     \/ phase = 1 /\ Pop
  /\ UNCHANGED <<matchfr, play, scorer, clock, turnover, pools, completed, history>>

MatchPushKickoff ==
  /\ OnTop("MATCH") /\ mphase = 2
  /\ mphase' = 3 /\ active' = Other(kicking) /\ Push("KICKOFF", kicking)
  /\ scored' = FALSE
  /\ UNCHANGED <<over, td, h1, play, scorer, half, turn, score, kicking, turnover,
                 pools, completed, opener, started, carried, earned, spent, booking,
                 timeOuts>>

(* Phase 3 of MATCH, after a touchdown or when both markers have run out.   *)
MatchPushEndDrive ==
  /\ OnTop("MATCH") /\ mphase = 3 /\ (td \/ HalfOver)
  /\ td' = FALSE /\ mphase' = 4 /\ Push("END_DRIVE", 0)
  /\ UNCHANGED <<over, h1, play, scorer, clock, turnover, pools, completed, history>>

(* The team `active` names, unless it has no turns left.                    *)
NextTeam == IF turn[active] >= TurnsPerHalf THEN Other(active) ELSE active

MatchPushTeamTurn ==
  /\ OnTop("MATCH") /\ mphase = 3 /\ ~td /\ ~HalfOver
  /\ Push("TEAM_TURN", NextTeam)
  /\ UNCHANGED <<matchfr, play, scorer, clock, turnover, pools, completed, history>>

(* Phase 4 of MATCH: the next drive, the second half, or the end.           *)
MatchNextDrive ==
  /\ OnTop("MATCH") /\ mphase = 4 /\ ~HalfOver
  /\ mphase' = 1
  /\ UNCHANGED <<over, td, h1, frame, play, scorer, clock, turnover, pools, completed,
                 history>>

\* mutant: the roles of the last drive are swapped instead of those of the first
SecondHalfKicker_Last == Other(kicking)
SecondHalfKicker == Other(h1)

MatchSecondHalf ==
  /\ OnTop("MATCH") /\ mphase = 4 /\ HalfOver /\ half < 2
  /\ half' = 2 /\ turn' = [t \in Teams |-> 0]
  /\ skipped' = [t \in Teams |-> 0]
  /\ rerolls' = WithLeader(RerollsStart)
  /\ kicking' = SecondHalfKicker
  /\ mphase' = 1
  /\ UNCHANGED <<over, td, h1, frame, play, scorer, score, active, turnover, bonus, leaders,
                 completed, opener, started, carried, earned, spent, scored, gifts,
                 timeOuts>>

MatchOver ==
  /\ OnTop("MATCH") /\ mphase = 4 /\ HalfOver /\ half >= 2
  /\ over' = TRUE
  /\ UNCHANGED <<mphase, td, h1, frame, play, scorer, clock, turnover, pools, completed,
                 history>>

----------------------------------------------------------------------------
(* KICKOFF.                                                                 *)

KickTarget ==
  /\ OnTop("KICKOFF") /\ phase = 0
  /\ phase' = 1
  /\ UNCHANGED <<matchfr, proc, owner, left, picked, play, scorer, clock, turnover, pools,
                 completed, history>>

(* kickoff_land: the ball comes down on the pitch, and a catch or a bounce  *)
(* runs above the frame, or it is already out and the frame settles at once *)
KickoffLand ==
  /\ phase' = 3 /\ play' \in {"none", "landing"}
  /\ UNCHANGED <<proc, owner, left, picked>>

\* Late in the half both markers go back a turn, before that both go forward.
TimeOutMarkers ==
  IF turn[owner] >= TimeOutFrom
  THEN [t \in Teams |-> IF turn[t] > 0 THEN turn[t] - 1 ELSE 0]
  ELSE [t \in Teams |-> turn[t] + 1]

TimeOut ==
  /\ OnTop("KICKOFF") /\ phase = 1 /\ timeOuts < MaxTimeOuts
  /\ turn' = TimeOutMarkers
  /\ KickoffLand
  /\ timeOuts' = timeOuts + 1
  /\ UNCHANGED <<matchfr, scorer, half, score, active, kicking, turnover, pools,
                 completed, opener, started, carried, earned, spent, scored, booking>>

BrilliantCoaching(t) ==
  /\ OnTop("KICKOFF") /\ phase = 1
  /\ rerolls' = [rerolls EXCEPT ![t] = @ + 1]
  /\ bonus' = [bonus EXCEPT ![t] = @ + 1]
  /\ KickoffLand
  /\ earned' = [earned EXCEPT ![t] = @ + 1]
  /\ UNCHANGED <<matchfr, scorer, clock, turnover, leaders, completed,
                 opener, started, carried, spent, scored, booking, timeOuts>>

(* Every event that neither pauses nor touches this module's state: a tied  *)
(* Brilliant Coaching, weather, bribes, Cheering Fans, snacks, stuns.       *)
QuietEvent ==
  /\ OnTop("KICKOFF") /\ phase = 1
  /\ KickoffLand
  /\ UNCHANGED <<matchfr, scorer, clock, turnover, pools, completed, history>>

(* High Kick (4), Solid Defence (5) and Quick Snap (6) ask a coach first.   *)
WindowEvent ==
  /\ OnTop("KICKOFF") /\ phase = 1
  /\ phase' \in {4, 5, 6}
  /\ UNCHANGED <<matchfr, proc, owner, left, picked, play, scorer, clock, turnover, pools,
                 completed, history>>

WindowDone ==
  /\ OnTop("KICKOFF") /\ phase \in {4, 5, 6}
  /\ KickoffLand
  /\ UNCHANGED <<matchfr, scorer, clock, turnover, pools, completed, history>>

ChargeEvent ==
  /\ OnTop("KICKOFF") /\ phase = 1
  /\ phase' = 7 /\ left' \in 1 .. ChargeBudget
  /\ active' = owner
  /\ UNCHANGED <<matchfr, proc, owner, picked, play, scorer, half, turn, score, kicking,
                 turnover, pools, completed, history>>

ChargeActivate ==
  /\ OnTop("KICKOFF") /\ phase = 7 /\ ~turnover /\ left > 0
  /\ left' = left - 1 /\ picked' = TRUE /\ play' = "activation"
  /\ UNCHANGED <<matchfr, proc, phase, owner, scorer, clock, turnover, pools, completed,
                 history>>

HandBack == active' = Other(owner) /\ turnover' = FALSE

(* charge_end: by the turnover latch, an exhausted budget, nobody Open, or  *)
(* the coach's own decision.                                                *)
ChargeEnd ==
  /\ OnTop("KICKOFF") /\ phase = 7
  /\ HandBack
  /\ KickoffLand
  /\ UNCHANGED <<matchfr, scorer, half, turn, score, kicking, pools, completed, history>>

(* Phase 3: the ball is in the receiving half, or it is a touchback.        *)
KickoffSettle ==
  /\ OnTop("KICKOFF") /\ phase = 3
  /\ \/ Pop
     \/ phase' = 2 /\ UNCHANGED <<proc, owner, left, picked>>
  /\ UNCHANGED <<matchfr, play, scorer, clock, turnover, pools, completed, history>>

Touchback ==
  /\ OnTop("KICKOFF") /\ phase = 2
  /\ Pop
  /\ UNCHANGED <<matchfr, play, scorer, clock, turnover, pools, completed, history>>

----------------------------------------------------------------------------
(* TEAM_TURN.                                                               *)

TurnStart ==
  /\ OnTop("TEAM_TURN") /\ phase = 0
  /\ active' = owner
  /\ turn' = [turn EXCEPT ![owner] = @ + 1]
  /\ turnover' = FALSE
  /\ phase' = 1 /\ left' \in 0 .. Squad
  /\ started' = [started EXCEPT ![owner] = @ + 1]
  /\ UNCHANGED <<matchfr, proc, owner, picked, play, scorer, half, score, kicking, pools,
                 completed, opener, carried, earned, spent, scored, booking, timeOuts>>

\* mutant: BB_PF_USED is not set, the player may activate again
AfterActivation_Unused == 0 .. left
AfterActivation == 0 .. left - 1

(* A player is used up by activating, and an activation may cost others.    *)
Activate ==
  /\ OnTop("TEAM_TURN") /\ phase = 1 /\ ~turnover /\ left > 0
  /\ left' \in AfterActivation /\ play' = "activation"
  /\ UNCHANGED <<matchfr, proc, phase, owner, picked, scorer, clock, turnover, pools,
                 completed, history>>

(* The turn is over: by the turnover latch, because nobody can activate, or *)
(* by the coach, whose idle ball carrier the crowd may then knock down.     *)
EndTurn ==
  /\ OnTop("TEAM_TURN") /\ phase = 1
  /\ phase' = 2
  /\ play' \in IF turnover \/ left = 0 THEN {"none"} ELSE {"none", "activation"}
  /\ UNCHANGED <<matchfr, proc, owner, left, picked, scorer, clock, turnover, pools,
                 completed, history>>

TurnEnd ==
  /\ OnTop("TEAM_TURN") /\ phase = 2
  /\ completed' = [completed EXCEPT ![owner] = @ + 1]
  /\ turnover' = FALSE /\ active' = Other(owner)
  /\ Pop
  /\ UNCHANGED <<matchfr, play, scorer, half, turn, score, kicking, pools, history>>

----------------------------------------------------------------------------
(* What runs above the frame: the activation of a player, with everything   *)
(* it pushes, or the catch and bounces of a landing kick.                   *)

Running == ~over /\ play \in {"activation", "landing"}

MakeTurnover ==
  /\ Running /\ play = "activation" /\ ~turnover
  /\ turnover' = TRUE
  /\ UNCHANGED <<matchfr, frame, play, scorer, clock, pools, completed, history>>

\* mutant: the kick-off is not excluded, although active_team already names
\* the receiving team before its turn has begun
TeamRerollAvailable_Early(t) == rerolls[t] > 0 /\ active = t
TeamRerollAvailable(t) ==
  /\ rerolls[t] > 0 /\ active = t
  /\ proc = "KICKOFF" => phase = 7

SpendReroll(t) ==
  /\ Running /\ TeamRerollAvailable(t)
  /\ rerolls' = [rerolls EXCEPT ![t] = @ - 1]
  /\ bonus' = [bonus EXCEPT ![t] = IF @ > 0 THEN @ - 1 ELSE 0]
  /\ spent' = [spent EXCEPT ![t] = @ + 1]
  /\ UNCHANGED <<matchfr, frame, play, scorer, clock, turnover, leaders, completed,
                 opener, started, carried, earned, scored, booking, timeOuts>>

LoseLeader(t) ==
  /\ Running /\ play = "activation" /\ t \in leaders
  /\ leaders' = leaders \ {t}
  /\ UNCHANGED <<matchfr, frame, play, scorer, clock, turnover, rerolls, bonus, completed,
                 history>>

PlayEnds ==
  /\ Running
  /\ play' = "none"
  /\ UNCHANGED <<matchfr, frame, scorer, clock, turnover, pools, completed, history>>

(* bb_check_td finds the carrier in the end zone: during a team turn it may *)
(* be either team's; while a kick lands only the kicking team's, and only   *)
(* after a Charge! that took one of its players that far.                   *)
CheckTd(t) ==
  /\ Running /\ score[t] < MaxScore[t]
  /\ \/ play = "activation" /\ proc = "TEAM_TURN"
     \/ play = "landing" /\ picked /\ t = owner
  /\ play' = "touchdown" /\ scorer' = t
  /\ UNCHANGED <<matchfr, frame, clock, turnover, pools, completed, history>>

\* mutant: the scoring team is credited with the turn that ends
BookedTeam_Scorer == scorer
BookedTeam == active

\* mutant: a team that scores in the other team's turn keeps its marker
TouchdownMarkers_Kept == turn
\* A team that scores in the other team's turn skips its own next one.
TouchdownMarkers ==
  IF scorer # active /\ turn[scorer] < TurnsPerHalf
  THEN [turn EXCEPT ![scorer] = @ + 1] ELSE turn

(* What a touchdown of the kicking team does to the clock although no turn  *)
(* has begun: a turn is booked that nobody has played, and the scorer's     *)
(* marker is a turn further on.                                             *)
GiftTurn ==
  /\ gifts' = [gifts EXCEPT ![Other(scorer)] = @ + 1]
  /\ skipped' = [skipped EXCEPT ![scorer] =
                    IF turn[scorer] < TurnsPerHalf THEN @ + 1 ELSE @]

(* TOUCHDOWN unwinds the stack to the MATCH frame.                          *)
Touchdown ==
  /\ ~over /\ play = "touchdown"
  /\ completed' = [completed EXCEPT ![BookedTeam] = @ + 1]
  /\ score' = [score EXCEPT ![scorer] = @ + 1]
  /\ turn' = TouchdownMarkers
  /\ kicking' = scorer
  /\ td' = TRUE /\ turnover' = FALSE
  /\ Pop /\ play' = "none" /\ scorer' = NoTeam
  /\ scored' = TRUE
  /\ IF proc = "KICKOFF" THEN GiftTurn ELSE UNCHANGED booking
  /\ UNCHANGED <<over, mphase, h1, half, active, pools,
                 opener, started, carried, earned, spent, timeOuts>>

(* END_DRIVE: the pitch is cleared (a Secret Weapon may be the Leader) and  *)
(* what is left of the drive's own re-rolls expires.                        *)
\* mutant: the pool is clamped to the purchased re-rolls, Leader's included
Expiring_Clamp(t) == IF rerolls[t] > RerollsStart[t] THEN rerolls[t] - RerollsStart[t] ELSE 0
Expiring(t) == IF bonus[t] < rerolls[t] THEN bonus[t] ELSE rerolls[t]

EndDrive ==
  /\ OnTop("END_DRIVE")
  /\ turnover' = FALSE
  /\ leaders' \in SUBSET leaders
  /\ rerolls' = [t \in Teams |-> rerolls[t] - Expiring(t)]
  /\ bonus' = [t \in Teams |-> 0]
  /\ Pop
  /\ UNCHANGED <<matchfr, play, scorer, clock, completed, history>>

(* bb_advance returns at once when the match is over.                       *)
Finished == over /\ UNCHANGED vars

Next ==
  \/ MatchPushPregame \/ PregameToss \/ PregameChoose
  \/ MatchPushSetup \/ SetupDone \/ MatchPushKickoff
  \/ MatchPushEndDrive \/ MatchPushTeamTurn
  \/ MatchNextDrive \/ MatchSecondHalf \/ MatchOver
  \/ KickTarget \/ TimeOut \/ QuietEvent \/ WindowEvent \/ WindowDone
  \/ \E t \in Teams : BrilliantCoaching(t)
  \/ ChargeEvent \/ ChargeActivate \/ ChargeEnd
  \/ KickoffSettle \/ Touchback
  \/ TurnStart \/ Activate \/ EndTurn \/ TurnEnd
  \/ MakeTurnover \/ PlayEnds
  \/ \E t \in Teams : SpendReroll(t) \/ LoseLeader(t) \/ CheckTd(t)
  \/ Touchdown \/ EndDrive \/ Finished

Spec == Init /\ [][Next]_vars

(* bb_advance loops while it is running and the coaches keep deciding: some *)
(* step is always taken.                                                    *)
FairSpec == Spec /\ WF_vars(Next)

----------------------------------------------------------------------------
Procs == {"MATCH", "PREGAME", "SETUP", "KICKOFF", "TEAM_TURN", "END_DRIVE"}

(* Every variable has its type, and the phases a frame can be in are those  *)
(* its handler switches on.                                                 *)
TypeOK ==
  /\ over \in BOOLEAN /\ td \in BOOLEAN /\ turnover \in BOOLEAN
  /\ mphase \in 0 .. 4 /\ h1 \in Teams \cup {NoTeam}
  /\ proc \in Procs /\ phase \in 0 .. 7 /\ owner \in Teams /\ left \in Nat
  /\ picked \in BOOLEAN
  /\ play \in {"none", "activation", "landing", "touchdown"}
  /\ scorer \in Teams \cup {NoTeam}
  /\ half \in {1, 2} /\ active \in Teams /\ kicking \in Teams
  /\ turn \in [Teams -> Nat] /\ score \in [Teams -> Nat]
  /\ rerolls \in [Teams -> Nat] /\ bonus \in [Teams -> Nat]
  /\ leaders \in SUBSET Teams
  /\ completed \in [Teams -> Nat]
  /\ opener \in Teams \cup {NoTeam} /\ timeOuts \in Nat /\ scored \in BOOLEAN
  /\ started \in [Teams -> Nat] /\ carried \in [Teams -> Nat]
  /\ earned \in [Teams -> Nat] /\ spent \in [Teams -> Nat]
  /\ gifts \in [Teams -> Nat] /\ skipped \in [Teams -> Nat]

(* How many turns the marker of team t is ahead of the other team's.        *)
Ahead(t) == turn[t] - turn[Other(t)]

(* Team t is level with the other team or `lo` turns behind, `hi` ahead,    *)
(* give or take the turns that kick-off touchdowns have cost either.        *)
InStep(t, lo, hi) ==
  Ahead(t) >= lo - skipped[Other(t)] /\ Ahead(t) <= hi + skipped[t]

(* However touchdowns and Time-Outs move the markers, whoever is to move    *)
(* next is level with the other team or one turn behind, the team that is   *)
(* moving is level or one turn ahead, and no marker passes the last turn of *)
(* the half: they only get out of step, and only by as much, through the    *)
(* turns that kick-off touchdowns take from the team that scores them.      *)
(* (turn_start, the Time-Out event and the marker a touchdown advances are  *)
(* three unrelated places that write the clock.)                            *)
ClockInStep ==
  /\ \A t \in Teams : turn[t] <= TurnsPerHalf + skipped[t]
  /\ (mphase \in {2, 3} /\ proc \in {"SETUP", "KICKOFF"}) => InStep(owner, 0, 1)
  /\ (proc = "TEAM_TURN" /\ phase = 0) => InStep(owner, -1, 0)
  /\ (proc = "TEAM_TURN" /\ phase > 0) => InStep(owner, 0, 1)
  /\ (proc = "MATCH" /\ mphase = 3) => (~td => InStep(active, -1, 0))

(* The turn always goes to the team that `active` names: the hand-over to   *)
(* the other team when that one has no turns left, which gives somebody two *)
(* turns running within a drive, needs a kick-off touchdown of that team    *)
(* earlier in the half.                                                     *)
TurnsAlternate ==
  [][proc = "MATCH" /\ proc' = "TEAM_TURN" =>
       owner' = active \/ skipped[active] > 0]_vars

(* Outside a Charge! the kick-off belongs to the receiving team, which then *)
(* takes the first turn, and the turnover latch is down whenever nobody is  *)
(* playing: what went wrong in a Charge! or in a finished turn cannot count *)
(* against the next team.                                                   *)
LatchesScoped ==
  /\ (proc = "KICKOFF" /\ phase # 7) => active = Other(kicking)
  /\ (proc = "KICKOFF" /\ phase = 7) => active = kicking
  /\ turnover => /\ proc = "KICKOFF" => phase = 7
                 /\ proc = "TEAM_TURN" => phase > 0 /\ active = owner
                 /\ proc \in {"KICKOFF", "TEAM_TURN"}

(* The re-rolls a team had before the drive survive it except for those     *)
(* spent beyond what the drive itself brought: drive re-rolls are spent     *)
(* first, they are never lost to the pool nor left behind in it, and        *)
(* clearing the pitch takes back exactly the unspent ones.                  *)
Overspent(t) == IF spent[t] > earned[t] THEN spent[t] - earned[t] ELSE 0

OwnPoolKept ==
  (mphase \in {2, 3, 4}) =>
    \A t \in Teams : /\ bonus[t] <= rerolls[t]
                     /\ rerolls[t] - bonus[t] = carried[t] - Overspent(t)
                     /\ (mphase = 4 /\ proc = "MATCH") => bonus[t] = 0

(* A team re-roll is spent only in the team's own turn or its own Charge!,  *)
(* never on the catch of a landing kick or in the other team's turn.        *)
OwnTurnOnly(t) ==
  /\ owner = t
  /\ \/ proc = "TEAM_TURN" /\ phase > 0
     \/ proc = "KICKOFF" /\ phase = 7

RerollsInOwnTurn ==
  [][\A t \in Teams : spent'[t] > spent[t] => OwnTurnOnly(t)]_vars

(* Each team turn is booked exactly once, at its own boundary, whether it   *)
(* ends through turn_end or is unwound by a touchdown; what is booked       *)
(* beyond that is one turn for every kick-off touchdown against the team.   *)
InTurn(t) == proc = "TEAM_TURN" /\ phase > 0 /\ owner = t

TurnsBooked ==
  \A t \in Teams : completed[t] = started[t] + gifts[t] - IF InTurn(t) THEN 1 ELSE 0

(* The match is the abstract cycle of drives.                               *)
Stage ==
  CASE over -> "over"
    [] ~over /\ (mphase = 0 \/ proc = "PREGAME") -> "toss"
    [] ~over /\ mphase \in {1, 2} /\ proc # "PREGAME" -> "setup"
    [] ~over /\ mphase = 3 /\ proc = "KICKOFF" -> "kickoff"
    [] ~over /\ mphase = 3 /\ proc # "KICKOFF" /\ ~td -> "play"
    [] OTHER -> "cleanup"

Cycle == INSTANCE DriveCycle WITH stage <- Stage, kicker <- kicking
RefinesDriveCycle == Cycle!Spec

(* Every match comes to an end, as long as the dice come up Time-Out only   *)
(* finitely often.                                                          *)
Termination == <>over
=============================================================================
