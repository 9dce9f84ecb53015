------------------------------ MODULE MCPitch ------------------------------
EXTENDS EnvMoves, TLC

(* A pitch five long and three wide, up to three players a side.  Player 0 acts.   *)
Foe == TeamSlots
Foe2 == TeamSlots + 1
Nobody == [p \in Slots |-> {}]
Skilled(p, skills) == [Nobody EXCEPT ![p] = skills]

Scene(kind, at, skills, holder) ==
  [stack |-> <<Frame("TEAM_TURN", 0, 0, NoSq), Frame("ACTIVATION", 0, 0, NoSq),
               [Frame("MOVE", 0, 0, NoSq) EXCEPT !.k = kind, !.c = 0]>>,
   status |-> "running", asks |-> 0, ret |-> {},
   loc |-> [p \in Slots |-> IF p \in DOMAIN at THEN "pitch" ELSE "reserves"],
   at |-> [p \in Slots |-> IF p \in DOMAIN at THEN at[p] ELSE NoSq],
   grid |-> [q \in Squares |-> IF \E p \in DOMAIN at : at[p] = q
                               THEN CHOOSE p \in DOMAIN at : at[p] = q ELSE NoPlayer],
   stance |-> [p \in Slots |-> "standing"],
   skills |-> skills,
   st |-> [p \in Slots |-> 3], ma |-> [p \in Slots |-> 3],
   moved |-> [p \in Slots |-> IF p = 0 /\ kind # "BLOCK" THEN 2 ELSE 0], rushes |-> [p \in Slots |-> 0],
   has |-> {holder} \cap Slots, distracted |-> {}, rooted |-> {}, gouged |-> {},
   cheer |-> {}, usedPro |-> {}, skillUsed |-> {}, acting |-> 0, active |-> 0,
   rerolls |-> [t \in Teams |-> 0], bribes |-> [t \in Teams |-> 0],
   apothecary |-> [t \in Teams |-> 0], ejected |-> {}, turnover |-> FALSE,
   from |-> [kind |-> kind, ours |-> holder \in {0, 1}, kicker |-> 1, macro |-> FALSE],
   ball |-> IF holder \in Slots
            THEN [state |-> "held", carrier |-> holder, sq |-> at[holder]]
            ELSE [state |-> "ground", carrier |-> NoPlayer, sq |-> <<3, 2>>]]

Four == (0 :> <<1, 1>>) @@ (1 :> <<3, 0>>) @@ (Foe :> <<2, 1>>) @@ (Foe2 :> <<4, 2>>)


With(s, p, skills) == [s EXCEPT !.skills[p] = @ \cup skills]
Rerolls(s) == [s EXCEPT !.rerolls[0] = 1]

Close == (0 :> <<2, 1>>) @@ (1 :> <<1, 1>>) @@ (Foe :> <<3, 1>>) @@ (Foe2 :> <<4, 1>>)
Duel == (0 :> <<2, 1>>) @@ (Foe :> <<3, 1>>)
Pair == (0 :> <<1, 1>>) @@ (1 :> <<2, 1>>) @@ (Foe :> <<3, 1>>)
Cell == (0 :> <<0, 0>>) @@ (1 :> <<0, 1>>) @@ (Foe :> <<1, 0>>) @@ (Foe2 :> <<3, 1>>)
(* A step and a rush left; one rush; nothing left to move with, only what  *)
(* the activation was declared for.                                        *)
Tired(s) == [s EXCEPT !.rushes[0] = 1]
Beat(s) == [s EXCEPT !.moved[0] = 3, !.rushes[0] = 1]
Spent(s) == [s EXCEPT !.moved[0] = 3, !.rushes[0] = 2]
Wall == (0 :> <<1, 1>>) @@ (Foe :> <<2, 1>>) @@ (Foe2 :> <<3, 1>>) @@ (1 :> <<4, 1>>)

BallStarts ==
  LET pass == Scene("PASS", Four, Nobody, 0)
      hand == Scene("HANDOFF", Four, Nobody, 0)
      move == Scene("MOVE", Four, Nobody, NoPlayer) IN
  {Spent(Rerolls(With(With(pass, 0, {"LONER", "PRO", "PASS"}), Foe, {"NO_BALL"}))),
   Tired(With(pass, 0, {"NO_PA"})),
   Tired(With(hand, 0, {"GIVE_AND_GO"})), With(move, 0, {"NO_BALL", "LEAP"}),
   With(With(move, Foe, {"TENTACLES"}), 0, {"CATCH"}), Scene("SECURE", Four, Nobody, NoPlayer),
   Spent(Scene("PASS", Wall, Nobody, 0)),
   Spent(Scene("PASS", Wall, Skilled(0, {"HAIL_MARY_PASS", "SAFE_PASS", "GIVE_AND_GO"}), 0))}

Prone(s, p) == [s EXCEPT !.stance[p] = "prone"]
Fresh(s) == [s EXCEPT !.moved[0] = 0]
Doctors(s) == [s EXCEPT !.apothecary = [t \in Teams |-> 1]]
Clumsy(s) == [s EXCEPT !.ma[0] = 2]

Corner == (0 :> <<2, 1>>) @@ (Foe :> <<3, 2>>) @@ (Foe2 :> <<4, 2>>) @@ (1 :> <<4, 1>>)

BlockStarts ==
  LET block == Scene("BLOCK", Close, Nobody, Foe)
      blitz == Scene("BLITZ", Close, Nobody, 0)
      duel == Scene("BLOCK", Duel, Nobody, Foe)
      edge == Scene("BLITZ", Duel, Nobody, Foe)
      ours == Scene("BLITZ", Duel, Nobody, 0) IN
  {block, Tired(Scene("BLITZ", Cell, Nobody, 0)), Rerolls(With(With(duel, 0, {"DAUNTLESS", "TACKLE"}), Foe, {"BLOCK"})),
   With(With(block, 0, {"FRENZY"}), Foe, {"SIDESTEP"}),
   Beat(With(With(blitz, 0, {"FRENZY", "BLOCK"}), Foe, {"WRESTLE"})),
   Tired(With(With(edge, 0, {"FRENZY", "WRESTLE", "HORNS"}), Foe, {"WRESTLE", "FEND"})),
   With(With(block, 0, {"STRIP_BALL", "HIT_AND_RUN"}), Foe, {"STAND_FIRM"}),
   Beat(With(With(blitz, 0, {"JUGGERNAUT", "GRAB"}), Foe, {"STAND_FIRM", "DODGE"})),
   With(block, Foe, {"TRICKSTER"}), With(block, Foe, {"DUMP_OFF"}),
   With(duel, Foe, {"SABOTEUR"}), Beat(With(ours, 0, {"SABOTEUR"})),
   With(block, Foe, {"SAFE_PAIR_OF_HANDS", "STUNTY"}),
   With(Prone(duel, 0), 0, {"JUMP_UP"}), Doctors(duel),
   With(duel, Foe, {"REGENERATION", "STEADY_FOOTING"}),
   Scene("BLOCK", Corner, Nobody, Foe),
   Scene("BLOCK", Corner, Skilled(Foe2, {"STAND_FIRM"}), Foe2)}
FoulStarts ==
  LET foul == Tired(Prone(Scene("FOUL", Pair, Nobody, 0), Foe)) IN
  {[s EXCEPT !.bribes[0] = b, !.ret = {"spotted"}] :
     s \in {foul, With(foul, 0, {"QUICK_FOUL", "SNEAKY_GIT"})}, b \in 0 .. 1}
SpecialStarts ==
  {Scene(kind, Duel, Skilled(0, {"STAB"}), Foe) : kind \in {"STAB", "GAZE"}}
  \cup {Beat(Scene("BLITZ", Duel, Skilled(0, {"STAB"}), Foe))}
  \cup {Beat(Scene(kind, Duel, Nobody, 0)) : kind \in {"CHAINSAW", "BREATHE_FIRE", "VOMIT"}}
(* A carrier one push away from the end zone he scores in, or there by a    *)
(* skill of his; a player on the loose ball, or about to come upon it.      *)
Lying(s, q) == [s EXCEPT !.ball.sq = q]
AtLine == (0 :> <<3, 0>>) @@ (Foe :> <<4, 1>>)
AtWall == (0 :> <<3, 1>>) @@ (Foe :> <<4, 1>>)
AtHome == (0 :> <<2, 1>>) @@ (Foe :> <<1, 1>>)
Away == (0 :> <<0, 1>>) @@ (Foe :> <<1, 2>>)
LineStarts ==
  LET drive == Scene("BLOCK", AtLine, Nobody, 0)
      home(skill) == Scene("BLOCK", AtHome, Skilled(Foe, {skill}), Foe)
      loose(at, skills) == Scene("BLOCK", at, skills, NoPlayer)
      leave(holder) == Tired(Scene("MOVE", Away, Skilled(Foe, {"SHADOWING"}), holder)) IN
  {drive, With(drive, Foe, {"STEADY_FOOTING"}), Scene("BLOCK", AtWall, Nobody, 0),
   [Scene("BLITZ", AtLine, Skilled(0, {"FRENZY"}), 0) EXCEPT !.moved[0] = 3],
   home("TRICKSTER"), Scene("BLOCK", AtHome @@ (Foe2 :> <<0, 1>>), Skilled(Foe, {"DUMP_OFF"}), Foe),
   leave(Foe), Lying(leave(NoPlayer), <<0, 1>>),
   Beat(Scene("MOVE", 0 :> <<3, 1>>, Skilled(0, {"STEADY_FOOTING"}), 0)),
   Beat(Scene("MOVE", 0 :> <<2, 1>>, Skilled(0, {"STEADY_FOOTING"}), NoPlayer)),
   Lying(loose(Duel, Nobody), <<3, 1>>), Lying(loose(Duel, Skilled(0, {"HIT_AND_RUN"})), <<1, 0>>),
   Lying(loose(AtHome, Skilled(Foe, {"TRICKSTER"})), <<0, 0>>),
   Lying(Prone(Fresh(Scene("MOVE", Duel, Nobody, NoPlayer)), 0), <<2, 1>>)}
HitStarts == BlockStarts \cup FoulStarts \cup SpecialStarts \cup LineStarts

ThrowStarts ==
  LET toss(kind, holder, brute) ==
        With(With(Spent(Scene(kind, Pair, Nobody, holder)), 1, {"RIGHT_STUFF"}), 0, brute)
      walk == Scene("TTM", Duel @@ (1 :> <<1, 1>>), Skilled(1, {"RIGHT_STUFF"}), NoPlayer)
      kinds == {"TTM", "KTM"} IN
  {toss("TTM", 1, {"ALWAYS_HUNGRY"}), toss("TTM", NoPlayer, {}), toss("KTM", 1, {}), [walk EXCEPT !.rushes[0] = 2]}
  \cup {toss(kind, 1, {"NO_PA"}) : kind \in kinds} \cup {toss(kind, Foe, {}) : kind \in kinds}
RiseStarts ==
  {Prone(Clumsy(Fresh(Scene("MOVE", Duel, Nobody, NoPlayer))), 0),
   Prone(Fresh(Scene("MOVE", Duel, Nobody, NoPlayer)), 0),
   Prone(Scene("MOVE", Duel, Skilled(Foe, {"SHADOWING", "DIVING_TACKLE"}), 0), Foe),
   Tired(Scene("MOVE", Duel, Skilled(Foe, {"SHADOWING", "DIVING_TACKLE"}), 0))}
FlightStarts == BallStarts \cup ThrowStarts \cup RiseStarts

(* Setups and kick-offs: team 1 kicks.                                     *)
Kickoff(at, skills, proc, phase) ==
  [Scene("KICK", at, skills, NoPlayer) EXCEPT
     !.stack = <<Frame("MATCH", 0, 0, NoSq), [Frame(proc, 1, 0, NoSq) EXCEPT !.phase = phase]>>,
     !.ma = [p \in Slots |-> 1], !.rushes = [p \in Slots |-> 2], !.moved[0] = 0,
     !.acting = NoPlayer, !.active = 1, !.from.kind = IF proc = "SETUP" THEN proc ELSE "KICK",
     !.ball = [state |-> "off", carrier |-> NoPlayer, sq |-> NoSq]]
Injured(s, p) == [s EXCEPT !.loc[p] = "cas"]
Kick == (0 :> <<1, 1>>) @@ (1 :> <<0, 0>>) @@ (Foe :> <<2, 1>>) @@ (Foe2 :> <<3, 2>>)
(* A Quick Snap for two receivers who each have three squares to go to.     *)
Snap ==
  LET at == (0 :> <<0, 0>>) @@ (1 :> <<0, 2>>) @@ (Foe :> <<3, 1>>)
      s == Kickoff(at, Nobody, "KICKOFF", 6) IN
  [s EXCEPT !.stack[2].sq = <<4, 0>>, !.ball.state = "air", !.ball.sq = <<1, 1>>]
KickStarts ==
  {Snap, Kickoff(Kick, Skilled(Foe, {"KICK"}), "KICKOFF", 0),
   [Kickoff(Kick, Nobody, "KICKOFF", 1) EXCEPT !.stack[2].sq = <<1, 1>>],
   Kickoff(<<>>, Nobody, "SETUP", 1),
   Injured(Injured(Kickoff(<<>>, Nobody, "SETUP", 0), 0), Foe)}

(* Walks the environment plans: a carrier just within reach of the end zone, *)
(* one who is marked and may re-roll a dodge, one who may blitz on his way.  *)
Lane == (0 :> <<1, 1>>) @@ (Foe :> <<3, 2>>)
Scramble == (0 :> <<1, 1>>) @@ (Foe :> <<3, 0>>)
Guarded == (0 :> <<1, 1>>) @@ (Foe :> <<1, 0>>)
(* Two who would have to dodge away, and then to rush, to get at him.      *)
Hunted ==
  LET at == (0 :> <<0, 1>>) @@ (1 :> <<4, 1>>) @@ (Foe :> <<3, 2>>) @@ (Foe2 :> <<3, 0>>) IN
  [Scene("MOVE", at, [Nobody EXCEPT ![1] = {"TACKLE"}, ![Foe] = {"DODGE", "SURE_FEET"},
                                    ![Foe2] = {"SURE_FEET"}], 0)
     EXCEPT !.moved = [@ EXCEPT ![Foe] = 2, ![Foe2] = 3]]
Planned(s, moved, rushes) ==
  [s EXCEPT !.from.macro = TRUE, !.moved[0] = moved, !.rushes[0] = rushes]
RouteStarts ==
  {Planned(Scene("MOVE", Lane, Nobody, 0), 0, 2),
   Planned(Rerolls(Scene("MOVE", Guarded, Skilled(Foe, {"SHADOWING"}), 0)), 2, 1),
   Planned(Hunted, 2, 1),
   Planned(Scene("BLITZ", Scramble, Nobody, NoPlayer), 2, 1),
   Planned(Prone(Clumsy(Scene("BLITZ", Scramble, Nobody, NoPlayer)), 0), 0, 0)}

AllStarts == RouteStarts \cup FlightStarts \cup HitStarts \cup KickStarts

(* Where the code and what is said of it part.                             *)
RiseBlockStarts ==
  {Prone(Clumsy(Fresh(Scene("BLOCK", Duel, Skilled(Foe, {"WRESTLE"}), NoPlayer))), 0),
   Prone(Clumsy(Fresh(Scene("BLOCK", Pair, Nobody, 1))), 0)}
OddsStarts ==
  {Tired(With(Scene("BLITZ", Close, Nobody, 0), 0, {"FRENZY", "BLOCK"}))}
(* A block by the side line of the whole pitch, where all twenty-two stand *)
(* so close that each push is handed on, until it comes back to the player *)
(* who was hit.                                                            *)
Ring ==
  LET squares ==
        <<<<9, 0>>, <<11, 0>>, <<12, 1>>, <<12, 2>>, <<11, 3>>, <<10, 3>>, <<9, 2>>, <<9, 1>>,
          <<11, 1>>, <<12, 0>>, <<13, 1>>,
          <<10, 0>>, <<13, 2>>, <<12, 3>>, <<13, 3>>, <<10, 4>>, <<11, 4>>, <<9, 3>>, <<9, 4>>,
          <<8, 1>>, <<8, 2>>, <<8, 0>>>> IN
  [p \in Slots |-> squares[p + 1]]
RingStarts == {Scene("BLOCK", Ring, Nobody, NoPlayer)}
=============================================================================
