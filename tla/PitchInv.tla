------------------------------ MODULE PitchInv ------------------------------
(***************************************************************************)
(* What holds of the match record and the procedure stack between any two  *)
(* handlers of PitchPlay: enough to show, for every board and every start,  *)
(* that the three copies of who has the ball agree.  PitchPlay_proofs has  *)
(* the proofs.                                                             *)
(***************************************************************************)
EXTENDS PitchPlay

(* ------------------------------- the frames ---------------------------- *)
Marks == {"proc", "phase", "a", "b", "k", "sq", "c", "data"}

(* A MOVE waits for one thing at a time; a step or a jump it waits for ends *)
(* on the pitch, and the target of a block that is to follow is a player.  *)
MoveOk(f) ==
  /\ \A x, y \in {"await_test", "await_pickup", "stand_pend", "await_action"} :
       {x, y} \subseteq f.data => x = y
  /\ {"jump", "block_rush"} \cap f.data # {} => "await_test" \in f.data
  /\ ~({"jump", "block_rush"} \subseteq f.data)
  /\ "await_test" \in f.data => f.sq \in Squares
  /\ f.k = "BLOCK" \/ "block_rush" \in f.data => f.c \in Slots
  /\ "jump" \in f.data => f.k # "BLOCK"

FrameOk(f) ==
  /\ f = [x \in Marks |-> f[x]]
  /\ f.proc \in {"MOVE", "TEST", "CATCH", "PASS", "BLOCK", "PUSH", "KNOCKDOWN", "ARMOUR",
                 "INJURY", "KO_RECOVERY", "CASUALTY", "FOUL", "TTM"} => f.a \in Slots
  /\ f.proc \in {"HANDOFF", "BLOCK", "PUSH", "FOUL", "TTM"} => f.b \in Slots
  /\ f.proc = "PASS" /\ f.phase = 3 => f.b \in Slots
  /\ f.proc \in {"PASS", "PUSH"} => f.sq \in Squares
  /\ f.proc \in {"KNOCKDOWN", "ARMOUR"} => f.c \in Slots \cup {NoPlayer}
  /\ f.proc \in {"SETUP", "KICKOFF"} => f.a \in Teams
  /\ f.proc = "MOVE" => MoveOk(f)

(* A frame that the answer to a die will wake, and who must still be there *)
(* by then: the one the ball goes to.                                      *)
Due(f) ==
  \/ f.proc \in {"CATCH", "PASS"} /\ f.phase \in {1, 3}
  \/ f.proc = "PUSH" /\ f.phase = 6
  \/ f.proc = "MOVE" /\ {"await_test", "await_pickup", "stand_pend"} \cap f.data # {}
Sees(s, f) ==
  /\ f.proc = "CATCH" => OnPitch(s, f.a)
  /\ f.proc = "PASS" /\ f.phase = 3 => OnPitch(s, f.b)
  /\ f.proc = "MOVE" /\ "await_pickup" \in f.data => OnPitch(s, f.a)

(* A frame that may have others above it, for as long as they take.        *)
Resting(f) == ~Due(f) /\ f.proc \notin {"TEST", "KO_RECOVERY", "CASUALTY"}

(* A frame that the ball is loose for.                                     *)
BallFrame(f) ==
  \/ f.proc \in {"SCATTER", "THROW_IN", "CATCH", "PASS", "HANDOFF"}
  \/ f.proc = "MOVE" /\ "await_pickup" \in f.data

(* ------------------------------- the stack ----------------------------- *)
IsStack(S) == S \in Seq({S[i] : i \in DOMAIN S})
(* A setup or a kick-off, before the ball comes down and once it has.      *)
Opening(S) == Len(S) > 1 /\ S[2].proc \in {"SETUP", "KICKOFF"}
Settling(S) == Len(S) > 1 /\ S[2].proc = "KICKOFF" /\ S[2].phase = 3
Hushed(s) == s.has = {} /\ s.ball.state # "ground"

Based(s) ==
  LET S == s.stack IN
  /\ IsStack(S) /\ Len(S) > 0 /\ S[1].proc \in {"TEAM_TURN", "MATCH"}
  /\ \A i \in 1 .. Len(S) : FrameOk(S[i]) /\ (S[i].proc \in {"SETUP", "KICKOFF"} => i = 2)
  /\ ~Settling(S)
  /\ Opening(S) => Hushed(s) /\ \A i \in 1 .. Len(S) : ~BallFrame(S[i])
RestTo(S, n) == \A i \in 1 .. n : Resting(S[i])

(* Nobody waits for a die, and a coach who is asked how to go on has       *)
(* nothing open; the apothecary is at somebody who has not got the ball; a *)
(* frame has its answer; or a die is rolled for the frame below.           *)
Calm(s) ==
  /\ RestTo(s.stack, Len(s.stack))
  /\ s.status = "decision" /\ Top(s).proc = "MOVE" => "await_action" \notin Top(s).data
Nursing(s) ==
  /\ Len(s.stack) > 1 /\ RestTo(s.stack, Len(s.stack) - 1)
  /\ Top(s).proc \in {"KO_RECOVERY", "CASUALTY"} /\ Top(s).a \notin s.has
Woken(s) ==
  /\ Len(s.stack) > 1 /\ RestTo(s.stack, Len(s.stack) - 1)
  /\ Due(Top(s)) /\ Sees(s, Top(s)) /\ s.status = "running"
Testing(s) ==
  LET n == Len(s.stack) IN
  /\ n > 2 /\ RestTo(s.stack, n - 2) /\ Top(s).proc = "TEST"
  /\ Due(s.stack[n - 1]) /\ Sees(s, s.stack[n - 1])
Playing(s) == Based(s) /\ (Calm(s) \/ Nursing(s) \/ Woken(s) \/ Testing(s))

(* The kick has come down: it bounces, somebody tries for it, or has it.   *)
Settles(s) ==
  LET S == s.stack
      n == Len(S) IN
  /\ IsStack(S) /\ Settling(S) /\ S[1].proc \in {"TEAM_TURN", "MATCH"}
  /\ \A i \in 1 .. n : FrameOk(S[i])
  /\ S[n].proc \in {"SCATTER", "CATCH", "TEST"} => s.has = {}
  /\ \/ n = 2
     \/ n = 3 /\ S[3].proc \in {"SCATTER", "TOUCHDOWN"}
     \/ n = 3 /\ S[3].proc = "CATCH" /\ (S[3].phase = 0 \/ (S[3].phase = 1 /\ OnPitch(s, S[3].a)))
     \/ /\ n = 4 /\ S[3].proc = "CATCH" /\ S[3].phase = 1 /\ OnPitch(s, S[3].a)
        /\ S[4].proc = "TEST"

PitchOk(s) == Board(s) /\ (s.status # "error" => Playing(s) \/ Settles(s))
PitchInv == PitchOk(m)

(* ------------------------ the carrier and the foul --------------------- *)
(* Whoever a die may give the ball to is on his feet.                      *)
Fit(s, f) ==
  /\ f.proc = "CATCH" /\ f.phase = 1 => f.a \in OnFeet(s)
  /\ f.proc = "PASS" /\ f.phase = 3 => f.b \in OnFeet(s)
  /\ f.proc = "MOVE" /\ {"await_test", "await_pickup"} \cap f.data # {} => f.a \in OnFeet(s)

(* A foul is on top, or has only the fouled player's armour, injury or     *)
(* casualty above it; he is not on his feet, so he has no ball to lose.    *)
Harms == {"ARMOUR", "INJURY", "KO_RECOVERY", "CASUALTY"}
FoulOk(s) ==
  LET S == s.stack
      n == Len(S) IN
  \A i \in 1 .. n :
    S[i].proc = "FOUL" =>
      \/ i = n /\ (S[i].phase = 0 => ~Standing(s, S[i].b))
      \/ /\ i = n - 1 /\ S[i].phase # 0 /\ S[n].proc \in Harms
         /\ S[n].proc \in {"ARMOUR", "INJURY"} => ~Standing(s, S[n].a)
         /\ S[n].proc = "ARMOUR" => "spotted" \notin s.ret

CarryOk(s) ==
  /\ s.stance \in [Slots -> Stances]
  /\ s.status # "error" =>
       CarrierStands(s) /\ FoulOk(s) /\ \A i \in 1 .. Len(s.stack) : Fit(s, s.stack[i])
CarryInv == CarryOk(m)
=============================================================================
