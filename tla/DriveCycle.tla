----------------------------- MODULE DriveCycle -----------------------------
(***************************************************************************)
(* What a match promises, seen from the stands: two halves made of drives. *)
(* A drive is set up, kicked off and played; it ends with at most one      *)
(* touchdown or because the half has run out, and the pitch is then        *)
(* cleared.  Another drive of the same half follows a touchdown, and only  *)
(* a touchdown, and the team that scored kicks it off.  The team that      *)
(* received the opening kick kicks off the second half.                    *)
(***************************************************************************)
EXTENDS Naturals

CONSTANT NoTeam   \* no one: before the toss

Teams == {0, 1}
Stages == {"toss", "setup", "kickoff", "play", "cleanup", "over"}

VARIABLES
  stage,
  half,
  kicker,   \* the team that kicks this drive off (or kicked, or will kick it)
  opener,   \* the team that kicked the match off
  scored,   \* the last drive kicked off has ended in a touchdown
  score

vars == <<stage, half, kicker, opener, scored, score>>

Init ==
  /\ stage = "toss" /\ half = 1 /\ kicker = 0 /\ opener = NoTeam
  /\ scored = FALSE /\ score = [t \in Teams |-> 0]

Toss(t) ==
  /\ stage = "toss"
  /\ stage' = "setup" /\ kicker' = t /\ opener' = t
  /\ UNCHANGED <<half, scored, score>>

KickOff ==
  /\ stage = "setup"
  /\ stage' = "kickoff" /\ scored' = FALSE
  /\ UNCHANGED <<half, kicker, opener, score>>

Play ==
  /\ stage = "kickoff"
  /\ stage' = "play"
  /\ UNCHANGED <<half, kicker, opener, scored, score>>

Score(t) ==
  /\ stage \in {"kickoff", "play"}
  /\ stage' = "cleanup" /\ scored' = TRUE /\ kicker' = t
  /\ score' = [score EXCEPT ![t] = @ + 1]
  /\ UNCHANGED <<half, opener>>

TimeRunsOut ==
  /\ stage = "play"
  /\ stage' = "cleanup"
  /\ UNCHANGED <<half, kicker, opener, scored, score>>

NextDrive ==
  /\ stage = "cleanup" /\ scored
  /\ stage' = "setup"
  /\ UNCHANGED <<half, kicker, opener, scored, score>>

SecondHalf ==
  /\ stage = "cleanup" /\ half = 1
  /\ stage' = "setup" /\ half' = 2 /\ kicker' = 1 - opener
  /\ UNCHANGED <<opener, scored, score>>

FinalWhistle ==
  /\ stage = "cleanup" /\ half = 2
  /\ stage' = "over"
  /\ UNCHANGED <<half, kicker, opener, scored, score>>

Next ==
  \/ \E t \in Teams : Toss(t) \/ Score(t)
  \/ KickOff \/ Play \/ TimeRunsOut \/ NextDrive \/ SecondHalf \/ FinalWhistle

Spec == Init /\ [][Next]_vars
=============================================================================
