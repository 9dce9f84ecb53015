-------------------------- MODULE PitchSteps_proofs ---------------------------
(***************************************************************************)
(* What the handlers of PitchPlay are made of (bb_push, bb_pop, bb_give_ball, *)
(* bb_place_player, bb_player_down ...) does to the invariant of PitchInv:  *)
(* the board agrees after each call, and the frames under a handler's own  *)
(* keep still.  PitchPlay_proofs puts the handlers together from it.       *)
(***************************************************************************)
EXTENDS PitchInv, WellFoundedInduction, TLAPS

USE PitchAssumption

(* ------------------------------- the stack ----------------------------- *)
Below(S) == SubSeq(S, 1, Len(S) - 1)
Reset(S, f) == [S EXCEPT ![Len(S)] = f]

(* A pushed frame is the last of a stack, and those below it stay.         *)
LEMMA PushedStack ==
  ASSUME NEW S, IsStack(S), NEW f
  PROVE  LET T == Append(S, f) IN
         /\ IsStack(T) /\ Len(T) = Len(S) + 1 /\ T[Len(T)] = f
         /\ \A i \in 1 .. Len(S) : T[i] = S[i]
  BY DEF IsStack

(* A sequence over any set is one over its own elements.                   *)
LEMMA StackByItself ==
  ASSUME NEW X, NEW S \in Seq(X)
  PROVE  IsStack(S)
  <1> DEFINE Y == {S[i] : i \in DOMAIN S}
  <1>1. \A i \in 1 .. Len(S) : S[i] \in Y
    OBVIOUS
  <1> HIDE DEF Y
  <1>2. S \in Seq(Y)
    BY <1>1
  <1> QED
    BY <1>2 DEF Y, IsStack

(* What is left of a sequence without its last element.                    *)
LEMMA FrontOfSeq ==
  ASSUME NEW X, NEW S \in Seq(X), NEW n \in Nat, Len(S) = n + 1
  PROVE  /\ SubSeq(S, 1, n) \in Seq(X) /\ Len(SubSeq(S, 1, n)) = n
         /\ \A i \in 1 .. n : SubSeq(S, 1, n)[i] = S[i]
  OBVIOUS

(* Popping leaves the frames below as they are.                            *)
LEMMA PoppedStack ==
  ASSUME NEW S, IsStack(S), NEW n \in Nat, Len(S) = n + 1, NEW T, T = SubSeq(S, 1, n)
  PROVE  IsStack(T) /\ Len(T) = n /\ \A i \in 1 .. n : T[i] = S[i]
  <1> DEFINE X == {S[i] : i \in DOMAIN S}
  <1>1. S \in Seq(X)
    BY DEF IsStack
  <1> HIDE DEF X
  <1>2. T \in Seq(X) /\ Len(T) = n /\ \A i \in 1 .. n : T[i] = S[i]
    BY <1>1, FrontOfSeq
  <1> QED
    BY <1>2, StackByItself

(* The frames below the one on top are a stack.                            *)
LEMMA FrontStack ==
  ASSUME NEW S, IsStack(S), Len(S) > 0
  PROVE  /\ IsStack(Below(S)) /\ Len(Below(S)) = Len(S) - 1
         /\ \A i \in 1 .. Len(S) - 1 : Below(S)[i] = S[i]
  <1>1. Len(S) - 1 \in Nat /\ Len(S) = (Len(S) - 1) + 1
    BY DEF IsStack
  <1> QED
    BY <1>1, PoppedStack, Zenon DEF Below

(* Writing the frame on top leaves those below alone.                      *)
LEMMA ResetStack ==
  ASSUME NEW S, IsStack(S), Len(S) > 0, NEW f
  PROVE  /\ IsStack(Reset(S, f)) /\ Len(Reset(S, f)) = Len(S) /\ Reset(S, f)[Len(S)] = f
         /\ \A i \in 1 .. Len(S) - 1 : Reset(S, f)[i] = S[i]
  <1> DEFINE X == {S[i] : i \in DOMAIN S}
             T == [S EXCEPT ![Len(S)] = f]
  <1>1. S \in Seq(X)
    BY DEF IsStack
  <1> HIDE DEF X
  <1>2. T \in Seq(X \cup {f}) /\ Len(T) = Len(S) /\ T[Len(T)] = f
    BY <1>1
  <1>3. \A i \in 1 .. Len(S) - 1 : T[i] = S[i]
    BY <1>1
  <1> QED
    BY <1>2, <1>3, StackByItself DEF Reset

(* --------------------------- between two steps ------------------------- *)
(* What a handler is made of keeps the state steady: the board agrees, and *)
(* unless the stack has overflowed nobody waits for anything.              *)
Steady(s) ==
  Board(s) /\ (s.status # "error" => Based(s) /\ RestTo(s.stack, Len(s.stack)))
(* No setup or kick-off is under way: the ball may be anywhere.            *)
Closed(s) == s.status # "error" => ~Opening(s.stack)
(* The frame on top has still to be dealt with.                            *)
Doze(s) ==
  /\ Board(s) /\ s.status # "error" /\ Based(s)
  /\ Len(s.stack) > 1 /\ RestTo(s.stack, Len(s.stack) - 1)

SameBoard(s, t) == \A x \in {"loc", "at", "grid", "has", "ball"} : t[x] = s[x]
Kept(s, t) == t.stack = s.stack /\ t.status = s.status
Alike(s, t) ==
  /\ IsMatch(t) /\ SameBoard(s, t) /\ t.stack = s.stack
  /\ s.status = "error" => t.status = "error"

(* What is done never opens a kick-off, and never asks a coach.            *)
Goes(s, t) == (Closed(s) => Closed(t)) /\ t.status \in {s.status, "error"}

(* The board agrees as long as nothing that belongs to it changes.         *)
LEMMA BoardAlike ==
  ASSUME NEW s, NEW t, Board(s), IsMatch(t), SameBoard(s, t)
  PROVE  Board(t)
  <1>1. t.loc = s.loc /\ t.at = s.at /\ t.grid = s.grid /\ t.has = s.has /\ t.ball = s.ball
    BY DEF SameBoard
  <1>2. Typed(t) /\ IsBall(t.ball)
    BY <1>1 DEF Board, Typed
  <1>3. BallAgrees(t)
    BY <1>1 DEF Board, BallAgrees, OnPitch
  <1> QED
    BY <1>2, <1>3 DEF Board, Typed

(* The stack is in order as long as it does not change and, in a kick-off, *)
(* the ball stays up.                                                      *)
LEMMA BasedAlike ==
  ASSUME NEW s, NEW t, Based(s), t.stack = s.stack, Hushed(t) \/ ~Opening(s.stack)
  PROVE  Based(t)
  BY DEF Based

(* What changes neither board nor stack keeps a state steady ...           *)
LEMMA SteadyAlike ==
  ASSUME NEW s, NEW t, Steady(s), Alike(s, t)
  PROVE  Steady(t) /\ (Closed(s) => Closed(t))
  <1>1. Board(t)
    BY BoardAlike DEF Steady, Alike
  <1>2. ASSUME t.status # "error" PROVE Based(t)
    <2>1. Based(s) /\ t.has = s.has /\ t.ball = s.ball /\ t.stack = s.stack
      BY <1>2 DEF Steady, Alike, SameBoard
    <2>2. Opening(s.stack) => Hushed(t)
      BY <2>1 DEF Based, Hushed
    <2> QED BY <2>1, <2>2, BasedAlike
  <1> QED BY <1>1, <1>2 DEF Steady, Closed, Alike

(* ... and leaves the frame on top to be dealt with.                       *)
LEMMA DozeAlike ==
  ASSUME NEW s, NEW t, Doze(s), Alike(s, t), t.status # "error"
  PROVE  Doze(t)
  <1>1. Board(t)
    BY BoardAlike DEF Doze, Alike
  <1>2. Based(s) /\ t.has = s.has /\ t.ball = s.ball /\ t.stack = s.stack
    BY DEF Doze, Alike, SameBoard
  <1>3. Opening(s.stack) => Hushed(t)
    BY <1>2 DEF Based, Hushed
  <1> QED BY <1>1, <1>2, <1>3, BasedAlike DEF Doze

(* A board that has changed and still agrees keeps a state steady ...      *)
LEMMA SteadyKept ==
  ASSUME NEW s, NEW t, Steady(s), Board(t), Kept(s, t), Hushed(t) \/ Closed(s)
  PROVE  Steady(t) /\ (Closed(s) => Closed(t))
  BY BasedAlike DEF Steady, Kept, Closed

(* ... and leaves the frame on top to be dealt with.                       *)
LEMMA DozeKept ==
  ASSUME NEW s, NEW t, Doze(s), Board(t), Kept(s, t), Hushed(t) \/ Closed(s)
  PROVE  Doze(t) /\ (Closed(s) => Closed(t))
  BY BasedAlike DEF Doze, Kept, Closed

(* A ball that somebody has or that lies on the ground is in play.         *)
LEMMA LiveBall ==
  ASSUME NEW s, Steady(s) \/ Doze(s), s.has # {} \/ s.ball.state = "ground" \/ s.ball.carrier # NoPlayer
  PROVE  Closed(s)
  BY DEF Steady, Doze, Closed, Based, Hushed, Board, BallAgrees

(* ------------------------------ one by one ----------------------------- *)
(* bb_push of a frame that is not waiting, and does not need a loose ball  *)
(* in a kick-off, keeps the state steady; if the stack is full only the    *)
(* status changes.                                                         *)
LEMMA SteadyPush ==
  ASSUME NEW s, Steady(s), NEW f, FrameOk(f), Resting(f), f.proc \notin {"SETUP", "KICKOFF"},
         Closed(s) \/ ~BallFrame(f)
  PROVE LET t == Push(s, f) IN
        /\ Steady(t) /\ Goes(s, t) /\ SameBoard(s, t)
        /\ t.status # "error" => t.stack = Append(s.stack, f)
  <1> DEFINE t == Push(s, f)
  <1>1. IsMatch(t) /\ SameBoard(s, t)
    BY DEF Push, SameBoard, Steady, Board, Fields, IsMatch, Typed
  <1>2. Board(t)
    BY <1>1, BoardAlike DEF Steady
  <1>3. CASE s.status = "error" \/ Len(s.stack) >= StackMax
    <2>1. t.status = "error"
      BY <1>3 DEF Push, Steady, Board, Fields, IsMatch, Typed
    <2> QED BY <1>1, <1>2, <2>1 DEF Steady, Closed, Goes
  <1>4. CASE s.status # "error" /\ ~(Len(s.stack) >= StackMax)
    <2>1. t.stack = Append(s.stack, f) /\ t.status = s.status
      BY <1>4 DEF Push, Steady, Board, Fields, IsMatch, Typed
    <2> DEFINE S == s.stack  T == t.stack
    <2>2. /\ IsStack(T) /\ Len(T) = Len(S) + 1 /\ T[Len(T)] = f
          /\ \A i \in 1 .. Len(S) : T[i] = S[i]
      BY <2>1, <1>4, PushedStack DEF Steady, Based
    <2>3. Len(S) \in Nat
      BY <1>4 DEF Steady, Based, IsStack
    <2>4. RestTo(T, Len(T))
      BY <1>4, <2>2, <2>3 DEF Steady, RestTo
    <2>5. (Opening(T) <=> Opening(S)) /\ ~Settling(T) /\ T[1] = S[1]
      BY <1>4, <2>2, <2>3 DEF Steady, Based, Opening, Settling
    <2>6. \A i \in 1 .. Len(T) : FrameOk(T[i]) /\ (T[i].proc \in {"SETUP", "KICKOFF"} => i = 2)
      BY <1>4, <2>2, <2>3 DEF Steady, Based
    <2>7. ASSUME Opening(T) PROVE Hushed(t) /\ \A i \in 1 .. Len(T) : ~BallFrame(T[i])
      <3>1. Hushed(s) /\ (\A i \in 1 .. Len(S) : ~BallFrame(S[i])) /\ ~BallFrame(f)
        BY <1>4, <2>5, <2>7 DEF Steady, Based, Closed
      <3>2. t.has = s.has /\ t.ball = s.ball
        BY <1>1 DEF SameBoard
      <3> QED BY <2>2, <2>3, <3>1, <3>2 DEF Hushed
    <2>8. Based(t)
      BY <1>4, <2>2, <2>3, <2>5, <2>6, <2>7 DEF Steady, Based
    <2> QED BY <1>1, <1>2, <1>4, <2>1, <2>4, <2>5, <2>8 DEF Steady, Closed, Goes
  <1> QED BY <1>3, <1>4
(* bb_pop of the frame on top leaves nothing but those that rest.          *)
LEMMA SteadyPop ==
  ASSUME NEW s, Doze(s)
  PROVE  LET t == Pop(s) IN
         /\ Steady(t) /\ SameBoard(s, t) /\ t.status = s.status /\ Goes(s, t)
         /\ Len(t.stack) = Len(s.stack) - 1
         /\ t = [s EXCEPT !.stack = t.stack]
  <1> DEFINE t == Pop(s)
  <1>1. /\ IsMatch(t) /\ SameBoard(s, t) /\ t.status = s.status
        /\ t.stack = Below(s.stack)
        /\ t = [s EXCEPT !.stack = t.stack]
    BY DEF Pop, SameBoard, Doze, Board, Fields, IsMatch, Typed, Below
  <1> HIDE DEF t
  <1>2. Board(t)
    BY <1>1, BoardAlike DEF Doze
  <1> DEFINE S == s.stack  T == t.stack
  <1>3. Len(S) \in Nat
    BY DEF Doze, Based, IsStack
  <1>4. /\ IsStack(T) /\ Len(T) = Len(S) - 1 /\ \A i \in 1 .. Len(T) : T[i] = S[i]
    <2>1. IsStack(S) /\ Len(S) > 0
      BY <1>3 DEF Doze, Based
    <2> QED BY <1>1, <2>1, FrontStack, Zenon
  <1>5. (Opening(T) => Opening(S)) /\ ~Settling(T) /\ T[1] = S[1]
    BY <1>3, <1>4 DEF Doze, Based, Opening, Settling
  <1>6. Len(T) > 0 /\ \A i \in 1 .. Len(T) : FrameOk(T[i]) /\ (T[i].proc \in {"SETUP", "KICKOFF"} => i = 2)
    BY <1>3, <1>4 DEF Doze, Based
  <1>7. ASSUME Opening(T) PROVE Hushed(t) /\ \A i \in 1 .. Len(T) : ~BallFrame(T[i])
    <2>1. Hushed(s) /\ (\A i \in 1 .. Len(S) : ~BallFrame(S[i]))
      BY <1>5, <1>7 DEF Doze, Based
    <2>2. t.has = s.has /\ t.ball = s.ball
      BY <1>1 DEF SameBoard
    <2> QED BY <1>3, <1>4, <2>1, <2>2 DEF Hushed
  <1>8. Based(t)
    BY <1>4, <1>5, <1>6, <1>7 DEF Doze, Based
  <1>9. RestTo(T, Len(T))
    BY <1>3, <1>4 DEF Doze, RestTo
  <1> QED BY <1>1, <1>2, <1>4, <1>5, <1>8, <1>9 DEF Steady, Closed, t, Goes, Doze

(* A frame on top that is replaced by another of its procedure is still    *)
(* the only one to be dealt with.                                          *)
LEMMA DozeSetTop ==
  ASSUME NEW s, Doze(s), NEW f, FrameOk(f), ~BallFrame(f) \/ Closed(s), f.proc = Top(s).proc,
         f.proc = "KICKOFF" => f.phase # 3
  PROVE  LET t == SetTop(s, f) IN
         /\ Doze(t) /\ SameBoard(s, t) /\ t.status = s.status /\ (Closed(s) => Closed(t))
         /\ Top(t) = f /\ Len(t.stack) = Len(s.stack)
  <1> DEFINE t == SetTop(s, f)
  <1>1. /\ IsMatch(t) /\ SameBoard(s, t) /\ t.status = s.status
        /\ t.stack = Reset(s.stack, f)
    BY DEF SetTop, SameBoard, Doze, Board, Fields, IsMatch, Typed, Reset
  <1> HIDE DEF t
  <1>2. Board(t)
    BY <1>1, BoardAlike DEF Doze
  <1> DEFINE S == s.stack  T == t.stack
  <1>3. Len(S) \in Nat /\ Len(S) > 1
    BY DEF Doze, Based, IsStack
  <1>4. /\ IsStack(T) /\ Len(T) = Len(S) /\ T[Len(T)] = f
        /\ \A i \in 1 .. Len(S) - 1 : T[i] = S[i]
    <2>1. IsStack(S) /\ Len(S) > 0
      BY <1>3 DEF Doze, Based
    <2>2. T = Reset(S, f)
      BY <1>1
    <2>3. LET U == Reset(S, f) IN
          /\ IsStack(U) /\ Len(U) = Len(S) /\ U[Len(S)] = f
          /\ \A i \in 1 .. Len(S) - 1 : U[i] = S[i]
      BY <2>1, ResetStack
    <2> HIDE DEF T
    <2> QED BY <2>2, <2>3, Zenon
  <1>5. (Opening(T) <=> Opening(S)) /\ ~Settling(T) /\ T[1] = S[1]
    BY <1>3, <1>4 DEF Doze, Based, Opening, Settling, Top
  <1>6. \A i \in 1 .. Len(T) : FrameOk(T[i]) /\ (T[i].proc \in {"SETUP", "KICKOFF"} => i = 2)
    BY <1>3, <1>4 DEF Doze, Based, Top
  <1>7. ASSUME Opening(T) PROVE Hushed(t) /\ \A i \in 1 .. Len(T) : ~BallFrame(T[i])
    <2>1. Hushed(s) /\ (\A i \in 1 .. Len(S) : ~BallFrame(S[i])) /\ ~BallFrame(f)
      BY <1>5, <1>7 DEF Doze, Based, Closed
    <2>2. t.has = s.has /\ t.ball = s.ball
      BY <1>1 DEF SameBoard
    <2> QED BY <1>3, <1>4, <2>1, <2>2 DEF Hushed
  <1>8. Based(t)
    BY <1>3, <1>4, <1>5, <1>6, <1>7 DEF Doze, Based
  <1>9. RestTo(T, Len(T) - 1)
    BY <1>3, <1>4 DEF Doze, RestTo
  <1> QED BY <1>1, <1>2, <1>3, <1>4, <1>5, <1>8, <1>9 DEF Doze, Closed, Top, t

(* If the frame on top waits for no die, nobody does.                      *)
LEMMA DozeRests ==
  ASSUME NEW s, Doze(s), Resting(Top(s))
  PROVE  Steady(s)
  BY DEF Doze, Steady, Based, RestTo, Top, IsStack

(* The frame on top is in order, and has to do with the ball outside a     *)
(* kick-off only.                                                          *)
LEMMA TopOk ==
  ASSUME NEW s, Doze(s)
  PROVE  FrameOk(Top(s)) /\ (BallFrame(Top(s)) => Closed(s))
  BY DEF Doze, Based, Top, IsStack, Closed
(* ------------------------------- the board ----------------------------- *)
(* BB_NO_PLAYER is not a slot.                                             *)
LEMMA NobodyIsNoPlayer == NoPlayer \notin Slots
  BY DEF NoPlayer, Slots

(* The ball's square changes without its state or carrier.                 *)
LEMMA BallMoved ==
  ASSUME NEW b, IsBall(b), NEW q, NEW c, c = [b EXCEPT !.sq = q]
  PROVE  IsBall(c) /\ c.state = b.state /\ c.carrier = b.carrier /\ c.sq = q
  BY DEF IsBall

(* bb_give_ball to a player on the pitch makes him the only one with the   *)
(* ball.                                                                   *)
LEMMA GiveBoard ==
  ASSUME NEW s, Board(s), NEW p \in Slots, OnPitch(s, p)
  PROVE  LET t == GiveBall(s, p) IN
         Board(t) /\ Kept(s, t) /\ t.has = {p} /\ t.loc = s.loc /\ t.at = s.at /\ t.grid = s.grid
  <1> DEFINE t == GiveBall(s, p)
  <1>1. /\ t.has = (s.has \ {s.ball.carrier}) \cup {p}
        /\ t.ball = [state |-> "held", carrier |-> p, sq |-> s.at[p]]
        /\ t.loc = s.loc /\ t.at = s.at /\ t.grid = s.grid
        /\ IsMatch(t) /\ Kept(s, t)
    BY DEF GiveBall, Board, Fields, IsMatch, Typed, Kept
  <1>2. Typed(s) /\ IsBall(s.ball) /\ BallAgrees(s)
    BY DEF Board
  <1> HIDE DEF t
  <1>3. t.has = {p}
    BY <1>1, <1>2 DEF BallAgrees
  <1>4. Typed(t)
    BY <1>1, <1>2, <1>3 DEF Typed
  <1>5. BallAgrees(t)
    BY <1>1, <1>3 DEF BallAgrees, OnPitch
  <1>6. IsBall(t.ball)
    BY <1>1 DEF IsBall
  <1> QED
    BY <1>1, <1>3, <1>4, <1>5, <1>6 DEF Board, t

(* A ball put down on a square is nobody's.                                *)
LEMMA ToBoard ==
  ASSUME NEW s, Board(s), NEW q \in Squares
  PROVE  LET t == BallTo(s, q) IN
         /\ Board(t) /\ Kept(s, t) /\ t.has = {} /\ t.loc = s.loc /\ t.at = s.at /\ t.grid = s.grid
         /\ t.ball.state = "ground"
  <1> DEFINE t == BallTo(s, q)
  <1>1. /\ t.has = s.has \ {s.ball.carrier}
        /\ t.ball = [state |-> "ground", carrier |-> NoPlayer, sq |-> q]
        /\ t.loc = s.loc /\ t.at = s.at /\ t.grid = s.grid
        /\ IsMatch(t) /\ Kept(s, t)
    BY DEF BallTo, Board, Fields, IsMatch, Kept
  <1>2. Typed(s) /\ IsBall(s.ball) /\ BallAgrees(s)
    BY DEF Board
  <1> HIDE DEF t
  <1>3. t.has = {}
    BY <1>1, <1>2 DEF BallAgrees
  <1>4. Typed(t)
    BY <1>1, <1>2, <1>3 DEF Typed
  <1>5. BallAgrees(t)
    BY <1>1, <1>3 DEF BallAgrees
  <1>6. IsBall(t.ball)
    BY <1>1 DEF IsBall
  <1> QED
    BY <1>1, <1>3, <1>4, <1>5, <1>6 DEF Board, t

(* bb_drop_ball leaves the ball with nobody; without a carrier it does     *)
(* nothing.                                                                *)
LEMMA DropBoard ==
  ASSUME NEW s, Board(s)
  PROVE  LET t == DropBall(s) IN
         /\ Board(t) /\ Kept(s, t) /\ t.has = {} /\ t.loc = s.loc /\ t.at = s.at /\ t.grid = s.grid
         /\ s.has = {} => t = s
  <1> DEFINE t == DropBall(s)
  <1>1. CASE s.ball.carrier = NoPlayer
    <2>1. t = s
      BY <1>1 DEF DropBall
    <2>2. s.has = {}
      BY <1>1, NobodyIsNoPlayer DEF Board, BallAgrees, Typed
    <2> QED BY <2>1, <2>2 DEF Kept
  <1>2. CASE s.ball.carrier # NoPlayer
    <2>1. /\ t.has = s.has \ {s.ball.carrier}
          /\ t.ball = [state |-> "ground", carrier |-> NoPlayer, sq |-> s.ball.sq]
          /\ t.loc = s.loc /\ t.at = s.at /\ t.grid = s.grid
          /\ IsMatch(t) /\ Kept(s, t)
      BY <1>2 DEF DropBall, Board, Fields, IsMatch, IsBall, Kept
    <2>2. s.has = {s.ball.carrier} /\ s.ball.sq \in Squares
      BY <1>2 DEF Board, BallAgrees, Typed
    <2>3. Typed(s)
      BY DEF Board
    <2> HIDE DEF t
    <2>4. t.has = {} /\ s.has # {}
      BY <2>1, <2>2
    <2>5. Typed(t)
      BY <2>1, <2>3, <2>4 DEF Typed
    <2>6. BallAgrees(t)
      BY <2>1, <2>2, <2>4 DEF BallAgrees
    <2>7. IsBall(t.ball)
      BY <2>1 DEF IsBall
    <2> QED
      BY <2>1, <2>4, <2>5, <2>6, <2>7 DEF Board, t
  <1> QED
    BY <1>1, <1>2

(* bb_place_player moves a player who has not got the ball, and nothing of *)
(* the ball.                                                               *)
LEMMA PlaceBoard ==
  ASSUME NEW s, Board(s), NEW p \in Slots, NEW q \in Squares, p \notin s.has
  PROVE  LET t == Place(s, p, q) IN
         /\ Board(t) /\ Kept(s, t) /\ t.has = s.has /\ t.ball = s.ball
         /\ t.loc = [s.loc EXCEPT ![p] = "pitch"] /\ t.at = [s.at EXCEPT ![p] = q]
  <1> DEFINE l == Lift(s, p)  t == Place(s, p, q)
  <1>1. /\ IsMatch(l) /\ Kept(s, l) /\ l.has = s.has /\ l.ball = s.ball
        /\ l.loc = s.loc /\ l.at = s.at /\ l.grid \in [Squares -> Slots \cup {NoPlayer}]
    BY DEF Lift, Board, Fields, IsMatch, Typed, Kept
  <1> HIDE DEF l
  <1>2. /\ IsMatch(t) /\ Kept(l, t) /\ t.has = l.has /\ t.ball = l.ball
        /\ t.loc = [l.loc EXCEPT ![p] = "pitch"] /\ t.at = [l.at EXCEPT ![p] = q]
        /\ t.grid = [l.grid EXCEPT ![q] = p]
    BY <1>1 DEF Place, Fields, IsMatch, Typed, Kept, l
  <1> HIDE DEF t
  <1>3. Typed(s) /\ IsBall(s.ball) /\ BallAgrees(s)
    BY DEF Board
  <1>4. Typed(t) /\ IsBall(t.ball)
    BY <1>1, <1>2, <1>3 DEF Typed, Locations
  <1>5. BallAgrees(t)
    BY <1>1, <1>2, <1>3 DEF BallAgrees, OnPitch, Typed
  <1> QED
    BY <1>1, <1>2, <1>4, <1>5 DEF Board, Kept, t

(* bb_move_player moves a player and the ball he carries.                  *)
LEMMA RelocateBoard ==
  ASSUME NEW s, Board(s), NEW p \in Slots, NEW q \in Squares
  PROVE  LET t == Relocate(s, p, q) IN
         /\ Board(t) /\ Kept(s, t) /\ t.has = s.has /\ t.ball.state = s.ball.state
         /\ t.loc = [s.loc EXCEPT ![p] = "pitch"] /\ t.at = [s.at EXCEPT ![p] = q]
  <1> DEFINE l == Lift(s, p)  u == Place(s, p, q)  t == Relocate(s, p, q)
  <1>1. /\ IsMatch(l) /\ Kept(s, l) /\ l.has = s.has /\ l.ball = s.ball
        /\ l.loc = s.loc /\ l.at = s.at /\ l.grid \in [Squares -> Slots \cup {NoPlayer}]
    BY DEF Lift, Board, Fields, IsMatch, Typed, Kept
  <1> HIDE DEF l
  <1>2. /\ IsMatch(u) /\ Kept(l, u) /\ u.has = l.has /\ u.ball = l.ball
        /\ u.loc = [l.loc EXCEPT ![p] = "pitch"] /\ u.at = [l.at EXCEPT ![p] = q]
        /\ u.grid = [l.grid EXCEPT ![q] = p]
    BY <1>1 DEF Place, Fields, IsMatch, Typed, Kept, l
  <1>3. t = IF p \in u.has THEN [u EXCEPT !.ball.sq = u.at[p]] ELSE u
    BY DEF Relocate, Carry
  <1> HIDE DEF u, t
  <1>4. /\ IsMatch(t) /\ Kept(u, t) /\ t.has = u.has
        /\ t.loc = u.loc /\ t.at = u.at /\ t.grid = u.grid
        /\ t.ball = IF p \in u.has THEN [u.ball EXCEPT !.sq = q] ELSE u.ball
    BY <1>1, <1>2, <1>3 DEF Fields, IsMatch, Typed, Kept, Board
  <1>5. Typed(s) /\ IsBall(s.ball) /\ BallAgrees(s)
    BY DEF Board
  <1>6. /\ IsBall(t.ball) /\ t.ball.state = s.ball.state /\ t.ball.carrier = s.ball.carrier
        /\ t.ball.sq = IF p \in s.has THEN q ELSE s.ball.sq
    <2>1. s.ball = u.ball /\ s.has = u.has
      BY <1>1, <1>2
    <2>2. CASE p \in s.has
      BY <1>4, <1>5, <2>1, <2>2, BallMoved
    <2>3. CASE p \notin s.has
      BY <1>4, <1>5, <2>1, <2>3
    <2> QED BY <2>2, <2>3
  <1>7. Typed(t)
    BY <1>1, <1>2, <1>4, <1>5 DEF Typed, Locations
  <1>8. /\ t.loc = [s.loc EXCEPT ![p] = "pitch"] /\ t.at = [s.at EXCEPT ![p] = q]
        /\ t.has = s.has
    BY <1>1, <1>2, <1>4
  <1>9. BallAgrees(t)
    BY <1>5, <1>6, <1>8 DEF BallAgrees, OnPitch, Typed
  <1> QED
    BY <1>1, <1>2, <1>4, <1>6, <1>7, <1>8, <1>9 DEF Board, Kept, t

(* bb_remove_from_pitch takes a player who has not got the ball off, and   *)
(* nothing of the ball.                                                    *)
LEMMA RemoveBoard ==
  ASSUME NEW s, Board(s), NEW p \in Slots, NEW l \in Locations, p \notin s.has
  PROVE  LET t == Remove(s, p, l) IN
         Board(t) /\ Kept(s, t) /\ t.has = s.has /\ t.ball = s.ball /\ t.at = s.at
  <1> DEFINE u == Lift(s, p)  t == Remove(s, p, l)
  <1>1. /\ IsMatch(u) /\ Kept(s, u) /\ u.has = s.has /\ u.ball = s.ball
        /\ u.loc = s.loc /\ u.at = s.at /\ u.grid \in [Squares -> Slots \cup {NoPlayer}]
    BY DEF Lift, Board, Fields, IsMatch, Typed, Kept
  <1> HIDE DEF u
  <1>2. /\ IsMatch(t) /\ Kept(u, t) /\ t.has = u.has \ {p} /\ t.ball = u.ball
        /\ t.loc = [u.loc EXCEPT ![p] = l] /\ t.at = u.at /\ t.grid = u.grid
    BY <1>1 DEF Remove, Fields, IsMatch, Typed, Kept, u
  <1> HIDE DEF t
  <1>3. Typed(s) /\ IsBall(s.ball) /\ BallAgrees(s)
    BY DEF Board
  <1>4. t.has = s.has
    BY <1>1, <1>2
  <1>5. Typed(t) /\ IsBall(t.ball)
    BY <1>1, <1>2, <1>3 DEF Typed
  <1>6. BallAgrees(t)
    BY <1>1, <1>2, <1>3, <1>4 DEF BallAgrees, OnPitch, Typed
  <1> QED
    BY <1>1, <1>2, <1>4, <1>5, <1>6 DEF Board, Kept, t

(* So does a change of his box.                                            *)
LEMMA LocBoard ==
  ASSUME NEW s, Board(s), NEW p \in Slots, NEW l \in Locations, p \notin s.has
  PROVE  LET t == [s EXCEPT !.loc[p] = l] IN
         Board(t) /\ Kept(s, t) /\ t.has = s.has /\ t.ball = s.ball /\ t.at = s.at
  <1> DEFINE t == [s EXCEPT !.loc[p] = l]
  <1>1. /\ IsMatch(t) /\ Kept(s, t) /\ t.has = s.has /\ t.ball = s.ball
        /\ t.loc = [s.loc EXCEPT ![p] = l] /\ t.at = s.at /\ t.grid = s.grid
    BY DEF Board, Fields, IsMatch, Typed, Kept
  <1>2. Typed(t) /\ IsBall(t.ball)
    BY <1>1 DEF Board, Typed
  <1>3. BallAgrees(t)
    BY <1>1 DEF Board, BallAgrees, OnPitch, Typed
  <1> QED
    BY <1>1, <1>2, <1>3 DEF Board
(* ---------------------- the board in a steady state -------------------- *)
(* A handler's next call on a board that agrees: the state stays steady.   *)
LEMMA Onward ==
  ASSUME NEW s, Steady(s), NEW t, Board(t), Kept(s, t), Hushed(t) \/ Closed(s)
  PROVE  Steady(t) /\ Goes(s, t)
  BY SteadyKept DEF Goes, Kept

(* What leaves the ball alone.                                             *)
LEMMA OnwardQuiet ==
  ASSUME NEW s, Steady(s), NEW t, Board(t), Kept(s, t), t.has = s.has,
         t.ball.state = s.ball.state
  PROVE  Steady(t) /\ Goes(s, t)
  <1>1. Hushed(t) \/ Closed(s)
    BY DEF Steady, Closed, Based, Hushed
  <1> QED BY <1>1, Onward

(* The same calls from a steady state: bb_give_ball,                       *)
LEMMA SteadyGive ==
  ASSUME NEW s, Steady(s), Closed(s), NEW p \in Slots, OnPitch(s, p)
  PROVE  LET t == GiveBall(s, p) IN
         /\ Steady(t) /\ Goes(s, t) /\ Kept(s, t) /\ t.has = {p}
         /\ t.loc = s.loc /\ t.at = s.at /\ t.grid = s.grid
  BY GiveBoard, Onward DEF Steady

(* the ball put down on a square,                                          *)
LEMMA SteadyTo ==
  ASSUME NEW s, Steady(s), Closed(s), NEW q \in Squares
  PROVE  LET t == BallTo(s, q) IN
         /\ Steady(t) /\ Goes(s, t) /\ Kept(s, t) /\ t.has = {}
         /\ t.loc = s.loc /\ t.at = s.at /\ t.grid = s.grid
  BY ToBoard, Onward DEF Steady

(* bb_drop_ball,                                                           *)
LEMMA SteadyDrop ==
  ASSUME NEW s, Steady(s)
  PROVE  LET t == DropBall(s) IN
         /\ Steady(t) /\ Goes(s, t) /\ Kept(s, t) /\ t.has = {}
         /\ t.loc = s.loc /\ t.at = s.at /\ t.grid = s.grid
  <1> DEFINE t == DropBall(s)
  <1>1. /\ Board(t) /\ Kept(s, t) /\ t.has = {} /\ (s.has = {} => t = s)
        /\ t.loc = s.loc /\ t.at = s.at /\ t.grid = s.grid
    BY DropBoard DEF Steady
  <1> HIDE DEF t
  <1>2. CASE s.has = {}
    BY <1>1, <1>2 DEF t, Goes
  <1>3. CASE s.has # {}
    BY <1>1, <1>3, LiveBall, Onward DEF t
  <1> QED BY <1>2, <1>3

(* bb_place_player,                                                        *)
LEMMA SteadyPlace ==
  ASSUME NEW s, Steady(s), NEW p \in Slots, NEW q \in Squares, p \notin s.has
  PROVE  LET t == Place(s, p, q) IN
         /\ Steady(t) /\ Goes(s, t) /\ Kept(s, t) /\ t.has = s.has /\ t.ball = s.ball
         /\ t.loc = [s.loc EXCEPT ![p] = "pitch"] /\ t.at = [s.at EXCEPT ![p] = q]
  <1> DEFINE t == Place(s, p, q)
  <1>1. /\ Board(t) /\ Kept(s, t) /\ t.has = s.has /\ t.ball = s.ball
        /\ t.loc = [s.loc EXCEPT ![p] = "pitch"] /\ t.at = [s.at EXCEPT ![p] = q]
    BY PlaceBoard DEF Steady
  <1> HIDE DEF t
  <1> QED BY <1>1, OnwardQuiet DEF t

(* bb_move_player,                                                         *)
LEMMA SteadyRelocate ==
  ASSUME NEW s, Steady(s), NEW p \in Slots, NEW q \in Squares
  PROVE  LET t == Relocate(s, p, q) IN
         /\ Steady(t) /\ Goes(s, t) /\ Kept(s, t) /\ t.has = s.has
         /\ t.ball.state = s.ball.state
         /\ t.loc = [s.loc EXCEPT ![p] = "pitch"] /\ t.at = [s.at EXCEPT ![p] = q]
  <1> DEFINE t == Relocate(s, p, q)
  <1>1. /\ Board(t) /\ Kept(s, t) /\ t.has = s.has /\ t.ball.state = s.ball.state
        /\ t.loc = [s.loc EXCEPT ![p] = "pitch"] /\ t.at = [s.at EXCEPT ![p] = q]
    BY RelocateBoard DEF Steady
  <1> HIDE DEF t
  <1> QED BY <1>1, OnwardQuiet DEF t

(* bb_remove_from_pitch,                                                   *)
LEMMA SteadyRemove ==
  ASSUME NEW s, Steady(s), NEW p \in Slots, NEW l \in Locations, p \notin s.has
  PROVE  LET t == Remove(s, p, l) IN
         /\ Steady(t) /\ Goes(s, t) /\ Kept(s, t) /\ t.has = s.has /\ t.ball = s.ball
         /\ t.at = s.at
  <1> DEFINE t == Remove(s, p, l)
  <1>1. Board(t) /\ Kept(s, t) /\ t.has = s.has /\ t.ball = s.ball /\ t.at = s.at
    BY RemoveBoard DEF Steady
  <1> HIDE DEF t
  <1> QED BY <1>1, OnwardQuiet DEF t

(* a change of box,                                                        *)
LEMMA SteadyLoc ==
  ASSUME NEW s, Steady(s), NEW p \in Slots, NEW l \in Locations, p \notin s.has
  PROVE  LET t == [s EXCEPT !.loc[p] = l] IN
         /\ Steady(t) /\ Goes(s, t) /\ Kept(s, t) /\ t.has = s.has /\ t.ball = s.ball
         /\ t.at = s.at
  <1> DEFINE t == [s EXCEPT !.loc[p] = l]
  <1>1. Board(t) /\ Kept(s, t) /\ t.has = s.has /\ t.ball = s.ball /\ t.at = s.at
    BY LocBoard DEF Steady
  <1> HIDE DEF t
  <1> QED BY <1>1, OnwardQuiet DEF t

(* and a player sent away for good.                                        *)
LEMMA SteadyBanish ==
  ASSUME NEW s, Steady(s), NEW p \in Slots, NEW l \in Locations, p \notin s.has
  PROVE  LET t == Banish(s, p, l) IN Steady(t) /\ Goes(s, t) /\ Kept(s, t)
  BY SteadyRemove, SteadyLoc DEF Banish

(* ------------------------ frames in a steady state --------------------- *)
(* A frame that may be pushed at any time.                                 *)
Quiet(f) == FrameOk(f) /\ Resting(f) /\ f.proc \notin {"SETUP", "KICKOFF"}
IsFrame(f) == f = [x \in Marks |-> f[x]]

(* The fields of a frame as bb_push lays it out,                           *)
LEMMA BareFrame ==
  ASSUME NEW proc, NEW a, NEW b, NEW q, NEW f, f = Frame(proc, a, b, q)
  PROVE  IsFrame(f) /\ f.proc = proc /\ f.phase = 0 /\ f.a = a /\ f.b = b /\ f.sq = q
  BY DEF Frame, IsFrame, Marks

(* with who caused it,                                                     *)
LEMMA CausedFrame ==
  ASSUME NEW proc, NEW a, NEW b, NEW q, NEW c, NEW f, f = [Frame(proc, a, b, q) EXCEPT !.c = c]
  PROVE  IsFrame(f) /\ f.proc = proc /\ f.phase = 0 /\ f.a = a /\ f.b = b /\ f.sq = q /\ f.c = c
  BY DEF Frame, IsFrame, Marks

(* with its kind as well,                                                  *)
LEMMA KindFrame ==
  ASSUME NEW proc, NEW a, NEW b, NEW q, NEW k, NEW c, NEW f,
         f = [Frame(proc, a, b, q) EXCEPT !.k = k, !.c = c]
  PROVE  IsFrame(f) /\ f.proc = proc /\ f.phase = 0 /\ f.a = a /\ f.b = b /\ f.sq = q /\ f.c = c
  BY DEF Frame, IsFrame, Marks

(* or with its flags.                                                      *)
LEMMA MarkedFrame ==
  ASSUME NEW proc, NEW a, NEW b, NEW q, NEW d, NEW f,
         f = [Frame(proc, a, b, q) EXCEPT !.data = d]
  PROVE  IsFrame(f) /\ f.proc = proc /\ f.phase = 0 /\ f.a = a /\ f.b = b /\ f.sq = q
  BY DEF Frame, IsFrame, Marks

(* The frames the handlers push need nothing but players and squares to be *)
(* in order.                                                               *)
LEMMA QuietFrame ==
  ASSUME NEW f, IsFrame(f), f.phase = 0
  PROVE  /\ f.proc \in {"SCATTER", "THROW_IN", "TOUCHDOWN"} => Quiet(f)
         /\ f.proc \in {"CATCH", "INJURY"} /\ f.a \in Slots => Quiet(f)
         /\ f.proc \in {"KNOCKDOWN", "ARMOUR"} /\ f.a \in Slots /\ f.c \in Slots \cup {NoPlayer}
              => Quiet(f)
         /\ f.proc \in {"BLOCK", "FOUL", "TTM"} /\ f.a \in Slots /\ f.b \in Slots => Quiet(f)
         /\ f.proc = "HANDOFF" /\ f.b \in Slots => Quiet(f)
         /\ f.proc = "PUSH" /\ f.a \in Slots /\ f.b \in Slots /\ f.sq \in Squares => Quiet(f)
         /\ f.proc = "PASS" /\ f.a \in Slots /\ f.sq \in Squares => Quiet(f)
  BY DEF IsFrame, Quiet, FrameOk, Resting, Due

(* Only the ball's own procedures and a pick-up need the ball to be loose. *)
LEMMA LooseFrame ==
  ASSUME NEW f, f.proc \notin {"SCATTER", "THROW_IN", "CATCH", "PASS", "HANDOFF", "MOVE"}
  PROVE  ~BallFrame(f)
  BY DEF BallFrame

(* Pushing such a frame keeps the state steady.                            *)
LEMMA SteadyQuiet ==
  ASSUME NEW s, Steady(s), NEW f, Quiet(f), Closed(s) \/ ~BallFrame(f)
  PROVE  LET t == Push(s, f) IN
         /\ Steady(t) /\ Goes(s, t) /\ SameBoard(s, t)
         /\ t.status # "error" => t.stack = Append(s.stack, f)
  BY SteadyPush DEF Quiet

(* What handlers push, one by one: a bounce,                               *)
LEMMA SteadyBounce ==
  ASSUME NEW s, Steady(s), Closed(s), NEW q
  PROVE  LET t == Bounce(s, q) IN Steady(t) /\ Goes(s, t) /\ SameBoard(s, t)
  <1> DEFINE f == Frame("SCATTER", 0, 1, q)
  <1>0. IsFrame(f) /\ f.phase = 0 /\ f.proc = "SCATTER"
    BY BareFrame
  <1> HIDE DEF f
  <1>1. Quiet(f)
    BY <1>0, QuietFrame
  <1>2. LET t == Push(s, f) IN Steady(t) /\ Goes(s, t) /\ SameBoard(s, t)
    BY <1>1, SteadyQuiet
  <1> QED BY <1>2 DEF Bounce, f

(* a throw-in,                                                             *)
LEMMA SteadyThrowIn ==
  ASSUME NEW s, Steady(s), Closed(s), NEW q
  PROVE  LET t == Push(s, Frame("THROW_IN", 0, 0, q)) IN Steady(t) /\ Goes(s, t) /\ SameBoard(s, t)
  <1> DEFINE f == Frame("THROW_IN", 0, 0, q)
  <1>0. IsFrame(f) /\ f.phase = 0 /\ f.proc = "THROW_IN"
    BY BareFrame
  <1> HIDE DEF f
  <1>1. Quiet(f)
    BY <1>0, QuietFrame
  <1>2. LET t == Push(s, f) IN Steady(t) /\ Goes(s, t) /\ SameBoard(s, t)
    BY <1>1, SteadyQuiet
  <1> QED BY <1>2 DEF f

(* a catch,                                                                *)
LEMMA SteadyCatch ==
  ASSUME NEW s, Steady(s), Closed(s), NEW p \in Slots
  PROVE  LET t == Push(s, Frame("CATCH", p, 0, NoSq)) IN Steady(t) /\ Goes(s, t) /\ SameBoard(s, t)
  <1> DEFINE f == Frame("CATCH", p, 0, NoSq)
  <1>0. IsFrame(f) /\ f.phase = 0 /\ f.proc = "CATCH" /\ f.a = p
    BY BareFrame
  <1> HIDE DEF f
  <1>1. Quiet(f)
    BY <1>0, QuietFrame
  <1>2. LET t == Push(s, f) IN Steady(t) /\ Goes(s, t) /\ SameBoard(s, t)
    BY <1>1, SteadyQuiet
  <1> QED BY <1>2 DEF f

(* a touchdown, if somebody has scored,                                    *)
LEMMA SteadyTd ==
  ASSUME NEW s, Steady(s)
  PROVE  LET t == CheckTd(s) IN Steady(t) /\ Goes(s, t) /\ SameBoard(s, t)
  <1> DEFINE f == Frame("TOUCHDOWN", s.ball.carrier, 0, NoSq)
  <1>0. IsFrame(f) /\ f.phase = 0 /\ f.proc = "TOUCHDOWN"
    BY BareFrame
  <1> HIDE DEF f
  <1>1. Quiet(f) /\ ~BallFrame(f)
    BY <1>0, QuietFrame, LooseFrame
  <1>2. LET t == Push(s, f) IN Steady(t) /\ Goes(s, t) /\ SameBoard(s, t)
    BY <1>1, SteadyQuiet
  <1>3. CASE Scores(s)
    BY <1>2, <1>3 DEF CheckTd, f
  <1>4. CASE ~Scores(s)
    BY <1>4 DEF CheckTd, Goes, SameBoard
  <1> QED BY <1>3, <1>4

(* a knockdown,                                                            *)
LEMMA SteadyDown ==
  ASSUME NEW s, Steady(s), NEW p \in Slots, NEW c \in Slots \cup {NoPlayer}, NEW k
  PROVE  LET t == KnockDown(s, p, k, c) IN Steady(t) /\ Goes(s, t) /\ SameBoard(s, t)
  <1> DEFINE f == [Frame("KNOCKDOWN", p, 0, NoSq) EXCEPT !.k = k, !.c = c]
  <1>0. IsFrame(f) /\ f.phase = 0 /\ f.proc = "KNOCKDOWN" /\ f.a = p /\ f.c = c
    BY DEF Frame, IsFrame, Marks
  <1> HIDE DEF f
  <1>1. Quiet(f) /\ ~BallFrame(f)
    BY <1>0, QuietFrame, LooseFrame
  <1>2. LET t == Push(s, f) IN Steady(t) /\ Goes(s, t) /\ SameBoard(s, t)
    BY <1>1, SteadyQuiet
  <1> QED BY <1>2 DEF KnockDown, f

(* an armour roll,                                                         *)
LEMMA SteadyArmour ==
  ASSUME NEW s, Steady(s), NEW p \in Slots, NEW c \in Slots \cup {NoPlayer}, NEW k
  PROVE  LET t == Armour(s, p, k, c) IN Steady(t) /\ Goes(s, t) /\ SameBoard(s, t)
  <1> DEFINE f == [Frame("ARMOUR", p, 0, NoSq) EXCEPT !.k = k, !.c = c]
  <1>0. IsFrame(f) /\ f.phase = 0 /\ f.proc = "ARMOUR" /\ f.a = p /\ f.c = c
    BY DEF Frame, IsFrame, Marks
  <1> HIDE DEF f
  <1>1. Quiet(f) /\ ~BallFrame(f)
    BY <1>0, QuietFrame, LooseFrame
  <1>2. LET t == Push(s, f) IN Steady(t) /\ Goes(s, t) /\ SameBoard(s, t)
    BY <1>1, SteadyQuiet
  <1> QED BY <1>2 DEF Armour, f

(* and an injury roll.                                                     *)
LEMMA SteadyInjury ==
  ASSUME NEW s, Steady(s), NEW p \in Slots, NEW c, NEW b
  PROVE  LET t == Push(s, [Frame("INJURY", p, b, NoSq) EXCEPT !.c = c]) IN
         Steady(t) /\ Goes(s, t) /\ SameBoard(s, t)
  <1> DEFINE f == [Frame("INJURY", p, b, NoSq) EXCEPT !.c = c]
  <1>0. IsFrame(f) /\ f.phase = 0 /\ f.proc = "INJURY" /\ f.a = p
    BY DEF Frame, IsFrame, Marks
  <1> HIDE DEF f
  <1>1. Quiet(f) /\ ~BallFrame(f)
    BY <1>0, QuietFrame, LooseFrame
  <1>2. LET t == Push(s, f) IN Steady(t) /\ Goes(s, t) /\ SameBoard(s, t)
    BY <1>1, SteadyQuiet
  <1> QED BY <1>2 DEF f

(* A player who goes down drops the ball he has and leaves it bouncing.    *)
LEMMA SteadySpill ==
  ASSUME NEW s, Steady(s), NEW p \in Slots
  PROVE  LET t == Spill(s, p) IN
         Steady(t) /\ Goes(s, t) /\ p \notin t.has /\ t.loc = s.loc /\ t.at = s.at
  <1>1. CASE p \notin s.has
    BY <1>1 DEF Spill, Goes
  <1>2. CASE p \in s.has
    <2> DEFINE d == DropBall(s)
    <2>1. /\ Steady(d) /\ Goes(s, d) /\ d.has = {} /\ d.loc = s.loc /\ d.at = s.at
      BY SteadyDrop
    <2>2. Closed(s)
      BY <1>2, LiveBall
    <2>3. Closed(d)
      BY <2>1, <2>2 DEF Goes
    <2> HIDE DEF d
    <2>4. Steady(Bounce(d, s.at[p])) /\ Goes(d, Bounce(d, s.at[p])) /\ SameBoard(d, Bounce(d, s.at[p]))
      BY <2>1, <2>3, SteadyBounce
    <2> QED BY <1>2, <2>1, <2>4 DEF Spill, Goes, SameBoard, d
  <1> QED BY <1>1, <1>2

(* --------------------------- what is not the board --------------------- *)
Mere(s, t) == IsMatch(t) /\ SameBoard(s, t) /\ Kept(s, t)

(* What touches neither the stack nor the board keeps a state steady ...   *)
LEMMA SteadyMere ==
  ASSUME NEW s, Steady(s), NEW t, Mere(s, t)
  PROVE  Steady(t) /\ Goes(s, t)
  <1>1. Alike(s, t)
    BY DEF Mere, Alike, Kept
  <1> QED BY <1>1, SteadyAlike DEF Mere, Kept, Goes

(* ... and leaves the frame on top to be dealt with.                       *)
LEMMA DozeMere ==
  ASSUME NEW s, Doze(s), NEW t, Mere(s, t)
  PROVE  Doze(t) /\ Goes(s, t) /\ Top(t) = Top(s)
  <1>1. Alike(s, t) /\ t.status # "error" /\ t.stack = s.stack /\ t.status = s.status
    BY DEF Mere, Alike, Kept, Doze
  <1> QED BY <1>1, DozeAlike DEF Goes, Closed, Top

(* A turnover is such a change.                                            *)
LEMMA SteadyTurnover ==
  ASSUME NEW s, Steady(s), NEW c
  PROVE  /\ LET t == TurnoverIf(s, c) IN Steady(t) /\ Goes(s, t) /\ Mere(s, t)
         /\ LET t == MakeTurnover(s) IN Steady(t) /\ Goes(s, t) /\ Mere(s, t)
  <1>1. Mere(s, s) /\ Mere(s, MakeTurnover(s))
    BY DEF Steady, Board, IsMatch, Fields, SameBoard, Kept, Mere, MakeTurnover
  <1>2. Mere(s, TurnoverIf(s, c))
    BY <1>1 DEF TurnoverIf
  <1> QED BY <1>1, <1>2, SteadyMere

(* So is a coach's answer, but for the status, with the frame on top still *)
(* to be dealt with ...                                                    *)
LEMMA AnsweredDoze ==
  ASSUME NEW s, Doze(s)
  PROVE  LET t == Answered(s) IN
         /\ Doze(t) /\ SameBoard(s, t) /\ t.stack = s.stack /\ t.status = "running"
         /\ (Closed(s) => Closed(t)) /\ Top(t) = Top(s)
  <1> DEFINE t == Answered(s)
  <1>1. Alike(s, t) /\ t.status = "running" /\ t.stack = s.stack /\ SameBoard(s, t)
    BY DEF Doze, Board, IsMatch, Fields, SameBoard, Alike, Answered
  <1> HIDE DEF t
  <1>2. Doze(t) /\ (Closed(s) => Closed(t)) /\ Top(t) = Top(s)
    BY <1>1, DozeAlike DEF Closed, Top, Doze
  <1> QED BY <1>1, <1>2 DEF t

(* ... or with none.                                                       *)
LEMMA AnsweredSteady ==
  ASSUME NEW s, Steady(s), s.status # "error"
  PROVE  LET t == Answered(s) IN
         /\ Steady(t) /\ SameBoard(s, t) /\ t.stack = s.stack /\ t.status = "running"
         /\ (Closed(s) => Closed(t))
  <1> DEFINE t == Answered(s)
  <1>1. Alike(s, t) /\ t.status = "running" /\ t.stack = s.stack /\ SameBoard(s, t)
    BY DEF Steady, Board, IsMatch, Fields, SameBoard, Alike, Answered
  <1> HIDE DEF t
  <1>2. Steady(t) /\ (Closed(s) => Closed(t))
    BY <1>1, SteadyAlike
  <1> QED BY <1>1, <1>2 DEF t

(* --------------------------- when a handler ends ----------------------- *)
Still(s) == PitchOk(s) /\ ~AwaitsDie(s)

(* A frame that waits for a die is one its answer would wake.              *)
LEMMA AwaitsDue ==
  ASSUME NEW s, AwaitsDie(s)
  PROVE  s.status = "running" /\ Due(Top(s))
  BY DEF AwaitsDie, Due

(* A handler that ends in a steady state, with nobody asked, keeps the     *)
(* invariant and wakes nobody.                                             *)
LEMMA SteadyStill ==
  ASSUME NEW s, Steady(s), s.status # "decision"
  PROVE  Still(s)
  <1>1. CASE s.status = "error"
    BY <1>1, AwaitsDue DEF Steady, Still, PitchOk
  <1>2. CASE s.status # "error"
    <2>1. Based(s) /\ RestTo(s.stack, Len(s.stack)) /\ Board(s)
      BY <1>2 DEF Steady
    <2>2. Resting(Top(s))
      BY <2>1 DEF RestTo, Based, IsStack, Top
    <2>3. ~AwaitsDie(s)
      BY <2>2, AwaitsDue DEF Resting
    <2> QED BY <2>1, <2>3 DEF Still, PitchOk, Playing, Calm
  <1> QED BY <1>1, <1>2

(* So does one that asks a coach, unless a MOVE has something open.        *)
LEMMA DecideStill ==
  ASSUME NEW s, Steady(s), s.status # "error", NEW team,
         Top(s).proc = "MOVE" => "await_action" \notin Top(s).data
  PROVE  Still(Decide(s, team))
  <1> DEFINE t == Decide(s, team)
  <1>1. Alike(s, t) /\ t.status = "decision" /\ t.stack = s.stack
    BY DEF Steady, Board, IsMatch, Fields, SameBoard, Alike, Decide
  <1> HIDE DEF t
  <1>2. Steady(t)
    BY <1>1, SteadyAlike
  <1>3. Based(t) /\ RestTo(t.stack, Len(t.stack)) /\ Board(t)
    BY <1>1, <1>2 DEF Steady
  <1>4. Top(t) = Top(s)
    BY <1>1 DEF Top
  <1>5. ~AwaitsDie(t)
    BY <1>1, AwaitsDue
  <1> QED BY <1>1, <1>3, <1>4, <1>5 DEF Still, PitchOk, Playing, Calm, t

(* What a pushed frame needs for the stack to stay in order.               *)
LEMMA BasedPush ==
  ASSUME NEW s, Based(s), NEW f, FrameOk(f), f.proc \notin {"SETUP", "KICKOFF"},
         ~Opening(s.stack) \/ ~BallFrame(f),
         NEW t, SameBoard(s, t), t.stack = Append(s.stack, f)
  PROVE  /\ Based(t) /\ Len(t.stack) = Len(s.stack) + 1 /\ Top(t) = f
         /\ Len(s.stack) \in Nat \ {0}
         /\ \A i \in 1 .. Len(s.stack) : t.stack[i] = s.stack[i]
  <1> DEFINE S == s.stack  T == t.stack
  <1>1. /\ IsStack(T) /\ Len(T) = Len(S) + 1 /\ T[Len(T)] = f
        /\ \A i \in 1 .. Len(S) : T[i] = S[i]
    BY PushedStack DEF Based
  <1>2. Len(S) \in Nat \ {0}
    BY DEF Based, IsStack
  <1>3. (Opening(T) <=> Opening(S)) /\ ~Settling(T) /\ T[1] = S[1]
    BY <1>1, <1>2 DEF Based, Opening, Settling
  <1>4. \A i \in 1 .. Len(T) : FrameOk(T[i]) /\ (T[i].proc \in {"SETUP", "KICKOFF"} => i = 2)
    BY <1>1, <1>2 DEF Based
  <1>5. ASSUME Opening(T) PROVE Hushed(t) /\ \A i \in 1 .. Len(T) : ~BallFrame(T[i])
    <2>1. Hushed(s) /\ (\A i \in 1 .. Len(S) : ~BallFrame(S[i])) /\ ~BallFrame(f)
      BY <1>3, <1>5 DEF Based
    <2>2. t.has = s.has /\ t.ball = s.ball
      BY DEF SameBoard
    <2> QED BY <1>1, <1>2, <2>1, <2>2 DEF Hushed
  <1> QED BY <1>1, <1>2, <1>3, <1>4, <1>5 DEF Based, Top

(* A push that does not overflow leaves the board alone; one that does,    *)
(* too.                                                                    *)
LEMMA PushCases ==
  ASSUME NEW s, Board(s), NEW f, NEW t, t = Push(s, f)
  PROVE  /\ Board(t) /\ SameBoard(s, t)
         /\ \/ t.status = "error"
            \/ t.stack = Append(s.stack, f) /\ t.status = s.status
  <1>1. IsMatch(t) /\ SameBoard(s, t)
    BY DEF Push, SameBoard, Board, Fields, IsMatch
  <1>2. t.status = "error" \/ (t.stack = Append(s.stack, f) /\ t.status = s.status)
    BY DEF Push, Board, Fields, IsMatch
  <1> QED BY <1>1, <1>2, BoardAlike

(* A die rolled for a frame that waits for it keeps the invariant: the     *)
(* test is on top of the frame its answer wakes.                           *)
LEMMA TestStill ==
  ASSUME NEW s, Doze(s), s.status = "running", Due(Top(s)), Sees(s, Top(s)),
         NEW p \in Slots, NEW k, NEW o
  PROVE  Still(Test(s, p, k, o))
  <1> DEFINE f == [Frame("TEST", p, 0, NoSq) EXCEPT !.k = k, !.c = o]  t == Push(s, f)
  <1>1. IsFrame(f) /\ f.proc = "TEST" /\ f.a = p
    BY DEF Frame, IsFrame, Marks
  <1> HIDE DEF f
  <1>2. FrameOk(f) /\ ~BallFrame(f) /\ ~Due(f)
    BY <1>1 DEF FrameOk, BallFrame, Due, IsFrame
  <1>3. Test(s, p, k, o) = t
    BY DEF Test, f
  <1>4. /\ Board(t) /\ SameBoard(s, t)
        /\ \/ t.status = "error"
           \/ t.stack = Append(s.stack, f) /\ t.status = s.status
    BY PushCases DEF Doze
  <1> HIDE DEF t
  <1>5. CASE t.status = "error"
    BY <1>3, <1>4, <1>5, AwaitsDue DEF Still, PitchOk
  <1>6. CASE t.status = "running" /\ t.stack = Append(s.stack, f)
    <2> DEFINE n == Len(s.stack)
    <2>1. /\ Based(t) /\ Len(t.stack) = n + 1 /\ Top(t) = f /\ n \in Nat \ {0}
          /\ \A i \in 1 .. n : t.stack[i] = s.stack[i]
      BY <1>1, <1>2, <1>4, <1>6, BasedPush DEF Doze
    <2>2. n > 1 /\ RestTo(s.stack, n - 1)
      BY DEF Doze
    <2> HIDE DEF n
    <2>3. RestTo(t.stack, n - 1) /\ t.stack[n] = Top(s)
      BY <2>1, <2>2 DEF RestTo, Top, n
    <2>4. Sees(t, Top(s))
      BY <1>4 DEF SameBoard, Sees, OnPitch
    <2>5. Testing(t)
      BY <1>1, <2>1, <2>2, <2>3, <2>4 DEF Testing
    <2>6. ~AwaitsDie(t)
      BY <1>2, <2>1, AwaitsDue
    <2> QED BY <1>3, <1>4, <2>1, <2>5, <2>6 DEF Still, PitchOk, Playing
  <1> QED BY <1>4, <1>5, <1>6

(* So does the apothecary called to somebody who has not got the ball.     *)
LEMMA NurseStill ==
  ASSUME NEW s, Steady(s), s.status = "running", NEW f, FrameOk(f),
         f.proc \in {"KO_RECOVERY", "CASUALTY"}, f.a \notin s.has,
         NEW t, Board(t), SameBoard(s, t), t.stack = Append(s.stack, f), t.status = "running"
  PROVE  Still(t)
  <1>1. ~BallFrame(f) /\ ~Due(f)
    BY DEF BallFrame, Due
  <1> DEFINE n == Len(s.stack)
  <1>2. Based(s) /\ RestTo(s.stack, n)
    BY DEF Steady
  <1>3. /\ Based(t) /\ Len(t.stack) = n + 1 /\ Top(t) = f /\ n \in Nat \ {0}
        /\ \A i \in 1 .. n : t.stack[i] = s.stack[i]
    BY <1>1, <1>2, BasedPush
  <1> HIDE DEF n
  <1>4. RestTo(t.stack, n)
    BY <1>2, <1>3 DEF RestTo
  <1>5. t.has = s.has
    BY DEF SameBoard
  <1>6. Nursing(t)
    BY <1>3, <1>4, <1>5 DEF Nursing
  <1>7. ~AwaitsDie(t)
    BY <1>1, <1>3, AwaitsDue
  <1> QED BY <1>3, <1>6, <1>7 DEF Still, PitchOk, Playing

(* -------------------------- when a handler begins ---------------------- *)
(* Everything but a die, the ends of an activation and the end of a        *)
(* kick-off.                                                               *)
Elsewhere(f) ==
  /\ f.proc \notin {"TEST", "TEAM_TURN", "MATCH", "SCATTER", "CATCH", "TOUCHDOWN"}
  /\ ~(f.proc = "KICKOFF" /\ f.phase = 3)

(* While a kick settles no other procedure than the ball's is on top.      *)
LEMMA TopSettles ==
  ASSUME NEW s, Settles(s)
  PROVE  ~Elsewhere(Top(s))
  BY DEF Settles, Elsewhere, Top, Settling

(* A handler that begins has only its own frame to deal with.              *)
LEMMA Awake ==
  ASSUME NEW s, PitchOk(s), s.status # "error", ~Settles(s),
         Top(s).proc \notin {"TEST", "TEAM_TURN", "MATCH"}
  PROVE  Doze(s)
  <1> DEFINE n == Len(s.stack)
  <1>1. Board(s) /\ Playing(s) /\ Based(s)
    BY DEF PitchOk, Playing
  <1>2. n \in Nat /\ n > 0
    BY <1>1 DEF Based, IsStack
  <1>3. n > 1
    BY <1>1, <1>2 DEF Based, Top
  <1>4. RestTo(s.stack, n - 1)
    BY <1>1, <1>2 DEF Playing, Calm, Nursing, Woken, Testing, RestTo
  <1> QED BY <1>1, <1>3, <1>4 DEF Doze

(* If its frame waits for no die, nobody waits for anything.               *)
LEMMA Rested ==
  ASSUME NEW s, PitchOk(s), s.status # "error", ~Settles(s),
         Resting(Top(s)), Top(s).proc \notin {"TEAM_TURN", "MATCH"}
  PROVE  Doze(s) /\ Steady(s)
  <1>1. Doze(s)
    BY Awake DEF Resting
  <1> QED BY <1>1, DozeRests

(* The answer has come: what the frame waits for is still there.           *)
LEMMA Awoken ==
  ASSUME NEW s, PitchOk(s), s.status # "error", ~Settles(s), Due(Top(s))
  PROVE  Doze(s) /\ Sees(s, Top(s)) /\ s.status = "running"
  <1>1. Top(s).proc \in {"CATCH", "PASS", "PUSH", "MOVE"}
    BY DEF Due
  <1>2. Doze(s)
    BY <1>1, Awake
  <1>3. ~Calm(s)
    BY <1>2 DEF Calm, RestTo, Top, Doze, Based, IsStack, Resting
  <1>4. Woken(s)
    BY <1>1, <1>3 DEF PitchOk, Playing, Nursing, Testing
  <1> QED BY <1>2, <1>4 DEF Woken

(* A casualty being treated has not got the ball.                          *)
LEMMA Nursed ==
  ASSUME NEW s, PitchOk(s), s.status # "error", Top(s).proc \in {"KO_RECOVERY", "CASUALTY"}
  PROVE  Doze(s) /\ Top(s).a \notin s.has /\ Top(s).a \in Slots
  <1>1. Elsewhere(Top(s))
    BY DEF Elsewhere
  <1>2. ~Settles(s)
    BY <1>1, TopSettles
  <1>3. Doze(s)
    BY <1>2, Awake
  <1>4. ~Calm(s)
    BY <1>3 DEF Calm, RestTo, Top, Doze, Based, IsStack, Resting
  <1>5. Nursing(s)
    BY <1>2, <1>4 DEF PitchOk, Playing, Woken, Testing, Due
  <1>6. FrameOk(Top(s))
    BY <1>3, TopOk
  <1> QED BY <1>3, <1>5, <1>6 DEF Nursing, FrameOk

(* A coach is asked how to go on: nothing is open.                         *)
LEMMA AskedMove ==
  ASSUME NEW s, PitchOk(s), s.status = "decision", Top(s).proc = "MOVE"
  PROVE  /\ Doze(s) /\ Steady(s) /\ MoveOk(Top(s)) /\ Top(s).a \in Slots
         /\ {"await_test", "await_pickup", "await_action", "stand_pend", "jump", "block_rush"}
              \cap Top(s).data = {}
  <1>1. Elsewhere(Top(s))
    BY DEF Elsewhere
  <1>2. ~Settles(s)
    BY <1>1, TopSettles
  <1>3. Doze(s)
    BY <1>2, Awake
  <1>4. FrameOk(Top(s))
    BY <1>3, TopOk
  <1>5. Calm(s)
    BY <1>2 DEF PitchOk, Playing, Nursing, Woken, Testing
  <1>6. Resting(Top(s))
    BY <1>3, <1>5 DEF Calm, RestTo, Top, Doze, Based, IsStack
  <1>7. Steady(s)
    BY <1>3, <1>6, DozeRests
  <1>8. MoveOk(Top(s)) /\ Top(s).a \in Slots
    BY <1>4 DEF FrameOk
  <1>9. "await_action" \notin Top(s).data
    BY <1>5 DEF Calm
  <1>10. {"await_test", "await_pickup", "stand_pend"} \cap Top(s).data = {}
    BY <1>6 DEF Resting, Due
  <1> QED BY <1>3, <1>7, <1>8, <1>9, <1>10 DEF MoveOk
(* ---------------------------- the first square ------------------------- *)
(* Numbers have a least one: the order of Nat is well-founded.             *)
LEMMA LeastNat ==
  ASSUME NEW T \in SUBSET Nat, T # {}
  PROVE  \E x \in T : \A y \in T : x <= y
  <1> DEFINE R == {ss \in Nat \X Nat : ss[1] < ss[2]}
  <1>1. IsWellFoundedOn(R, Nat)
    BY NatLessThanWellFounded DEF OpToRel
  <1>2. \E x \in T : \A y \in T : ~(<<y, x>> \in R)
    <2> HIDE DEF R
    <2> QED BY <1>1, WFMin, Zenon
  <1>3. \E x \in T : \A y \in T : ~(y < x)
    BY <1>2
  <1> HIDE DEF R
  <1> QED BY <1>3

(* Of the squares a handler looks through there is one that comes first.   *)
LEMMA FirstIn ==
  ASSUME NEW S, S \subseteq Squares, S # {}
  PROVE  First(S) \in S
  <1>0. S \subseteq Nat \X Nat
    BY DEF Squares
  <1> DEFINE T == {q[1] : q \in S}
  <1>1. T \in SUBSET Nat /\ T # {}
    BY <1>0
  <1>2. PICK x \in T : \A y \in T : x <= y
    <2> HIDE DEF T
    <2> QED BY <1>1, LeastNat
  <1> DEFINE U == {q[2] : q \in {r \in S : r[1] = x}}
  <1>3. U \in SUBSET Nat /\ U # {}
    BY <1>0
  <1>4. PICK z \in U : \A y \in U : z <= y
    <2> HIDE DEF U
    <2> QED BY <1>3, LeastNat
  <1>5. PICK q \in S : q[1] = x /\ q[2] = z
    OBVIOUS
  <1>6. \A r \in S : r[1] \in T /\ (r[1] = x => r[2] \in U)
    OBVIOUS
  <1>7. ASSUME NEW r \in S \ {q} PROVE Before(q, r)
    <2>1. q \in Nat \X Nat /\ r \in Nat \X Nat /\ r # q
      BY <1>0
    <2>2. q[1] <= r[1] /\ (r[1] = q[1] => q[2] <= r[2])
      <3> HIDE DEF T, U
      <3> QED BY <1>2, <1>4, <1>5, <1>6
    <2> HIDE DEF T, U
    <2> QED BY <2>1, <2>2 DEF Before
  <1> QED BY <1>7 DEF First

(* ------------------------- the frame on top ---------------------------- *)
(* Of the stack only the frame on top has changed, and of that no more     *)
(* than X; of the board nothing.                                           *)
Alters(f, g, X) == IsFrame(g) /\ \A y \in Marks \ X : g[y] = f[y]
Edit(s, t, X) ==
  /\ IsMatch(t) /\ SameBoard(s, t)
  /\ t.stack = Reset(s.stack, Top(t)) /\ Alters(Top(s), Top(t), X)

(* Replacing the frame on top by one that differs in X edits X.            *)
LEMMA EditSet ==
  ASSUME NEW s, Doze(s), NEW f, NEW X, Alters(Top(s), f, X)
  PROVE  LET t == SetTop(s, f) IN Edit(s, t, X) /\ Top(t) = f /\ t.status = s.status
  <1> DEFINE t == SetTop(s, f)
  <1>1. /\ IsMatch(t) /\ SameBoard(s, t) /\ t.status = s.status
        /\ t.stack = Reset(s.stack, f)
    BY DEF SetTop, SameBoard, Doze, Board, Fields, IsMatch, Reset
  <1>2. IsStack(s.stack) /\ Len(s.stack) > 0
    BY DEF Doze, Based
  <1> HIDE DEF t
  <1>3. Top(t) = f
    BY <1>1, <1>2, ResetStack DEF Top
  <1> QED BY <1>1, <1>3 DEF Edit, t

(* Two edits are one.                                                      *)
LEMMA EditTwice ==
  ASSUME NEW s, Doze(s), NEW X, NEW Y, NEW t, Edit(s, t, X), NEW u, Edit(t, u, Y)
  PROVE  Edit(s, u, X \cup Y)
  <1> DEFINE S == s.stack  f == Top(t)  g == Top(u)
  <1>1. IsStack(S) /\ Len(S) > 0
    BY DEF Doze, Based
  <1>2. t.stack = Reset(S, f) /\ u.stack = Reset(t.stack, g)
    BY DEF Edit
  <1> HIDE DEF f, g
  <1>3. u.stack = Reset(S, g)
    <2>1. Len(t.stack) = Len(S)
      BY <1>1, <1>2, ResetStack
    <2>2. \A S_1, n_1, a_1, b_1 : [[S_1 EXCEPT ![n_1] = a_1] EXCEPT ![n_1] = b_1] = [S_1 EXCEPT ![n_1] = b_1]
      OBVIOUS
    <2> QED BY <1>2, <2>1, <2>2 DEF Reset
  <1>4. IsMatch(u) /\ SameBoard(s, u)
    BY DEF Edit, SameBoard
  <1>5. Alters(Top(s), g, X \cup Y)
    BY DEF Edit, Alters, g
  <1> QED BY <1>3, <1>4, <1>5 DEF Edit, g

(* An edited frame that is still in order is still the only one to be      *)
(* dealt with.                                                             *)
LEMMA DozeEdit ==
  ASSUME NEW s, Doze(s), NEW t, NEW X, Edit(s, t, X), "proc" \notin X, t.status # "error",
         FrameOk(Top(t)), ~BallFrame(Top(t)) \/ Closed(s),
         Top(t).proc = "KICKOFF" => Top(t).phase # 3
  PROVE  Doze(t) /\ (Closed(s) => Closed(t))
  <1> DEFINE f == Top(t)
  <1>1. IsMatch(t) /\ SameBoard(s, t) /\ t.stack = Reset(s.stack, f) /\ f.proc = Top(s).proc
    BY DEF Edit, Alters, Marks
  <1>2. Board(t)
    BY <1>1, BoardAlike DEF Doze
  <1> DEFINE S == s.stack  T == t.stack
  <1> HIDE DEF f
  <1>3. Len(S) \in Nat /\ Len(S) > 1
    BY DEF Doze, Based, IsStack
  <1>4. /\ IsStack(T) /\ Len(T) = Len(S) /\ T[Len(T)] = f
        /\ \A i \in 1 .. Len(S) - 1 : T[i] = S[i]
    <2>1. IsStack(S) /\ Len(S) > 0
      BY <1>3 DEF Doze, Based
    <2>2. T = Reset(S, f)
      BY <1>1
    <2>3. LET U == Reset(S, f) IN
          /\ IsStack(U) /\ Len(U) = Len(S) /\ U[Len(S)] = f
          /\ \A i \in 1 .. Len(S) - 1 : U[i] = S[i]
      BY <2>1, ResetStack
    <2> HIDE DEF T
    <2> QED BY <2>2, <2>3, Zenon
  <1>0. FrameOk(f) /\ (~BallFrame(f) \/ Closed(s)) /\ (f.proc = "KICKOFF" => f.phase # 3)
    BY DEF f
  <1>5. (Opening(T) <=> Opening(S)) /\ ~Settling(T) /\ T[1] = S[1]
    BY <1>0, <1>1, <1>3, <1>4 DEF Doze, Based, Opening, Settling, Top
  <1>6. \A i \in 1 .. Len(T) : FrameOk(T[i]) /\ (T[i].proc \in {"SETUP", "KICKOFF"} => i = 2)
    BY <1>0, <1>1, <1>3, <1>4 DEF Doze, Based, Top
  <1>7. ASSUME Opening(T) PROVE Hushed(t) /\ \A i \in 1 .. Len(T) : ~BallFrame(T[i])
    <2>1. Hushed(s) /\ (\A i \in 1 .. Len(S) : ~BallFrame(S[i])) /\ ~BallFrame(f)
      BY <1>0, <1>5, <1>7 DEF Doze, Based, Closed
    <2>2. t.has = s.has /\ t.ball = s.ball
      BY <1>1 DEF SameBoard
    <2> QED BY <1>3, <1>4, <2>1, <2>2 DEF Hushed
  <1>8. Based(t)
    BY <1>3, <1>4, <1>5, <1>6, <1>7 DEF Doze, Based
  <1>9. RestTo(T, Len(T) - 1)
    BY <1>3, <1>4 DEF Doze, RestTo
  <1> QED BY <1>1, <1>2, <1>3, <1>4, <1>5, <1>8, <1>9 DEF Doze, Closed

(* What the handlers write in a frame: its phase,                          *)
LEMMA EditPhase ==
  ASSUME NEW s, Doze(s), NEW n
  PROVE  LET t == Phase(s, n) IN
         Edit(s, t, {"phase"}) /\ Top(t).phase = n /\ t.status = s.status /\ t.ret = s.ret
  <1> DEFINE f == [Top(s) EXCEPT !.phase = n]
  <1>1. Alters(Top(s), f, {"phase"}) /\ f.phase = n
    BY TopOk DEF FrameOk, Alters, IsFrame, Marks
  <1>2. Phase(s, n) = SetTop(s, f) /\ Phase(s, n).ret = s.ret
    BY DEF Doze, Board, IsMatch, Fields, Phase, SetTop, Top
  <1> HIDE DEF f
  <1> QED BY <1>1, <1>2, EditSet

(* a flag set,                                                             *)
LEMMA EditMark ==
  ASSUME NEW s, Doze(s), NEW d
  PROVE  LET t == Mark(s, d) IN
         /\ Edit(s, t, {"data"}) /\ Top(t).data = Top(s).data \cup d
         /\ t.status = s.status /\ t.ret = s.ret
  <1> DEFINE f == [Top(s) EXCEPT !.data = @ \cup d]
  <1>1. Alters(Top(s), f, {"data"}) /\ f.data = Top(s).data \cup d
    BY TopOk DEF FrameOk, Alters, IsFrame, Marks
  <1>2. Mark(s, d) = SetTop(s, f) /\ Mark(s, d).ret = s.ret
    BY DEF Doze, Board, IsMatch, Fields, Mark, SetTop, Top
  <1> HIDE DEF f
  <1> QED BY <1>1, <1>2, EditSet

(* a flag cleared,                                                         *)
LEMMA EditUnmark ==
  ASSUME NEW s, Doze(s), NEW d
  PROVE  LET t == Unmark(s, d) IN
         /\ Edit(s, t, {"data"}) /\ Top(t).data = Top(s).data \ d
         /\ t.status = s.status /\ t.ret = s.ret
  <1> DEFINE f == [Top(s) EXCEPT !.data = @ \ d]
  <1>1. Alters(Top(s), f, {"data"}) /\ f.data = Top(s).data \ d
    BY TopOk DEF FrameOk, Alters, IsFrame, Marks
  <1>2. Unmark(s, d) = SetTop(s, f) /\ Unmark(s, d).ret = s.ret
    BY DEF Doze, Board, IsMatch, Fields, Unmark, SetTop, Top
  <1> HIDE DEF f
  <1> QED BY <1>1, <1>2, EditSet

(* its counter,                                                            *)
LEMMA EditNote ==
  ASSUME NEW s, Doze(s), NEW c
  PROVE  LET t == Note(s, c) IN
         Edit(s, t, {"c"}) /\ Top(t).c = c /\ t.status = s.status /\ t.ret = s.ret
  <1> DEFINE f == [Top(s) EXCEPT !.c = c]
  <1>1. Alters(Top(s), f, {"c"}) /\ f.c = c
    BY TopOk DEF FrameOk, Alters, IsFrame, Marks
  <1>2. Note(s, c) = SetTop(s, f) /\ Note(s, c).ret = s.ret
    BY DEF Doze, Board, IsMatch, Fields, Note, SetTop, Top
  <1> HIDE DEF f
  <1> QED BY <1>1, <1>2, EditSet

(* and its square.                                                         *)
LEMMA EditAim ==
  ASSUME NEW s, Doze(s), NEW q
  PROVE  LET t == Aim(s, q) IN
         Edit(s, t, {"sq"}) /\ Top(t).sq = q /\ t.status = s.status /\ t.ret = s.ret
  <1> DEFINE f == [Top(s) EXCEPT !.sq = q]
  <1>1. Alters(Top(s), f, {"sq"}) /\ f.sq = q
    BY TopOk DEF FrameOk, Alters, IsFrame, Marks
  <1>2. Aim(s, q) = SetTop(s, f) /\ Aim(s, q).ret = s.ret
    BY DEF Doze, Board, IsMatch, Fields, Aim, SetTop, Top
  <1> HIDE DEF f
  <1> QED BY <1>1, <1>2, EditSet

(* What leaves the stack alone leaves the frame on top alone.              *)
LEMMA EditNone ==
  ASSUME NEW s, Doze(s), NEW t, IsMatch(t), SameBoard(s, t), t.stack = s.stack
  PROVE  Edit(s, t, {}) /\ Top(t) = Top(s)
  <1> DEFINE S == s.stack
  <1>1. IsStack(S) /\ Len(S) > 0
    BY DEF Doze, Based
  <1>2. Reset(S, S[Len(S)]) = S
    BY <1>1 DEF Reset, IsStack
  <1>3. Alters(Top(s), Top(s), {})
    BY TopOk DEF FrameOk, Alters, IsFrame
  <1> QED BY <1>2, <1>3 DEF Edit, Top

(* A frame other than MOVE stays what it is when its flags change, and,    *)
(* but for a throw that may be intercepted, when its phase does.           *)
LEMMA FrameAlters ==
  ASSUME NEW f, FrameOk(f), NEW g, Alters(f, g, {"phase", "data"}), f.proc # "MOVE",
         f.proc = "PASS" => g.phase # 3
  PROVE  FrameOk(g) /\ (BallFrame(g) <=> BallFrame(f)) /\ g.proc = f.proc
  <1>1. /\ IsFrame(g) /\ g.proc = f.proc /\ g.a = f.a /\ g.b = f.b /\ g.sq = f.sq /\ g.c = f.c
        /\ g.k = f.k
    BY DEF Alters, Marks
  <1>2. FrameOk(g)
    BY <1>1 DEF FrameOk, IsFrame
  <1>3. BallFrame(g) <=> BallFrame(f)
    BY <1>1 DEF BallFrame
  <1> QED BY <1>1, <1>2, <1>3

(* A frame other than MOVE stays the only one to be dealt with when its    *)
(* phase or its flags change.                                              *)
LEMMA DozeAlters ==
  ASSUME NEW s, Doze(s), NEW t, Edit(s, t, {"phase", "data"}), t.status # "error",
         Top(s).proc # "MOVE", Top(s).proc \in {"PASS", "KICKOFF"} => Top(t).phase # 3
  PROVE  /\ Doze(t) /\ (Closed(s) => Closed(t)) /\ Top(t).proc = Top(s).proc
         /\ FrameOk(Top(t)) /\ (BallFrame(Top(t)) => Closed(s))
  <1>1. FrameOk(Top(s)) /\ (BallFrame(Top(s)) => Closed(s))
    BY TopOk
  <1>2. Alters(Top(s), Top(t), {"phase", "data"})
    BY DEF Edit
  <1>3. FrameOk(Top(t)) /\ (BallFrame(Top(t)) <=> BallFrame(Top(s))) /\ Top(t).proc = Top(s).proc
    BY <1>1, <1>2, FrameAlters
  <1>4. Doze(t) /\ (Closed(s) => Closed(t))
    BY <1>1, <1>3, DozeEdit
  <1> QED BY <1>1, <1>3, <1>4

(* An edit of few fields is one of more.                                   *)
LEMMA EditMore ==
  ASSUME NEW s, NEW t, NEW X, Edit(s, t, X), NEW Y, X \subseteq Y
  PROVE  Edit(s, t, Y)
  BY DEF Edit, Alters

(* --------------------------- begin and end ----------------------------- *)
(* What every handler can start from: its own frame is in order and,       *)
(* unless it waits for a die, nothing is open once it is popped.           *)
LEMMA Begin ==
  ASSUME NEW s, PitchOk(s), s.status # "error", Elsewhere(Top(s))
  PROVE  /\ Doze(s) /\ FrameOk(Top(s)) /\ (BallFrame(Top(s)) => Closed(s))
         /\ Resting(Top(s)) => Steady(s)
         /\ Steady(Pop(s)) /\ Goes(s, Pop(s)) /\ SameBoard(s, Pop(s)) /\ Pop(s).status = s.status
  <1>1. ~Settles(s)
    BY TopSettles
  <1>2. Doze(s)
    BY <1>1, Awake DEF Elsewhere
  <1> QED BY <1>2, TopOk, DozeRests, SteadyPop

(* A handler that ends steady keeps the invariant and wakes nobody.        *)
LEMMA End ==
  ASSUME NEW s, s.status = "running", NEW t, Steady(t), Goes(s, t)
  PROVE  Still(t)
  BY SteadyStill DEF Goes

(* One call after another opens no kick-off and asks no coach.             *)
LEMMA GoesOn ==
  ASSUME NEW s, NEW t, NEW u, Goes(s, t), Goes(t, u)
  PROVE  Goes(s, u)
  BY DEF Goes

(* A coach's answer that ends the frame leaves nothing open.               *)
LEMMA AnsweredPop ==
  ASSUME NEW s, Doze(s)
  PROVE  LET t == Answered(Pop(s)) IN
         /\ Steady(t) /\ t.status = "running" /\ SameBoard(s, t) /\ (Closed(s) => Closed(t))
         /\ Answered(Pop(s)) = Pop(Answered(s))
  <1> DEFINE u == Pop(s)
  <1>1. Steady(u) /\ SameBoard(s, u) /\ u.status = s.status /\ Goes(s, u)
    BY SteadyPop
  <1>2. s.status # "error"
    BY DEF Doze
  <1>3. Answered(u) = Pop(Answered(s))
    BY DEF Doze, Board, IsMatch, Fields, Pop, Answered
  <1> HIDE DEF u
  <1>4. LET t == Answered(u) IN
         /\ Steady(t) /\ SameBoard(u, t) /\ t.stack = u.stack /\ t.status = "running"
         /\ (Closed(u) => Closed(t))
    BY <1>1, <1>2, AnsweredSteady
  <1> QED BY <1>1, <1>3, <1>4 DEF u, Goes, SameBoard

(* A frame is pushed: it overflows, or it is to be dealt with.             *)
LEMMA DozePush ==
  ASSUME NEW s, Steady(s), s.status # "error", NEW f, FrameOk(f),
         f.proc \notin {"SETUP", "KICKOFF"}, Closed(s) \/ ~BallFrame(f),
         NEW t, t = Push(s, f)
  PROVE  /\ Board(t) /\ SameBoard(s, t)
         /\ \/ t.status = "error"
            \/ Doze(t) /\ Top(t) = f /\ t.status = s.status /\ (Closed(s) => Closed(t))
  <1>1. /\ Board(t) /\ SameBoard(s, t)
        /\ \/ t.status = "error"
           \/ t.stack = Append(s.stack, f) /\ t.status = s.status
    BY PushCases DEF Steady
  <1>2. ASSUME t.stack = Append(s.stack, f), t.status = s.status
        PROVE  Doze(t) /\ Top(t) = f /\ (Closed(s) => Closed(t))
    <2> DEFINE n == Len(s.stack)
    <2>1. Based(s) /\ RestTo(s.stack, n) /\ (Closed(s) <=> ~Opening(s.stack))
      BY DEF Steady, Closed
    <2>2. /\ Based(t) /\ Len(t.stack) = n + 1 /\ Top(t) = f /\ n \in Nat \ {0}
          /\ \A i \in 1 .. n : t.stack[i] = s.stack[i]
      BY <1>1, <1>2, <2>1, BasedPush
    <2> HIDE DEF n
    <2>3. RestTo(t.stack, n)
      BY <2>1, <2>2 DEF RestTo
    <2>4. Opening(t.stack) => Opening(s.stack)
      <3>1. CASE n = 1
        BY <2>2, <3>1 DEF Opening, Top
      <3>2. CASE n > 1
        BY <2>2, <3>2 DEF Opening, n
      <3> QED BY <2>2, <3>1, <3>2
    <2>5. Closed(s) => Closed(t)
      BY <2>4 DEF Closed
    <2> QED BY <1>1, <1>2, <2>2, <2>3, <2>5 DEF Doze, n
  <1> QED BY <1>1, <1>2

(* An error keeps the board.                                               *)
LEMMA ErrorStill ==
  ASSUME NEW s, Board(s), s.status = "error"
  PROVE  Still(s)
  BY AwaitsDue DEF Still, PitchOk

(* A casualty's frame may be on top of frames that rest.                   *)
LEMMA NurseDoze ==
  ASSUME NEW s, Doze(s), Top(s).proc \in {"KO_RECOVERY", "CASUALTY"}, Top(s).a \notin s.has
  PROVE  Still(s)
  <1>1. Nursing(s) /\ Based(s) /\ Board(s)
    BY DEF Doze, Nursing
  <1>2. ~AwaitsDie(s)
    BY AwaitsDue DEF Due
  <1> QED BY <1>1, <1>2 DEF Still, PitchOk, Playing

(* ------------------------------ the boundary --------------------------- *)
(* What the helpers keep of a match record wherever it comes from, a bank  *)
(* of saved states as well: as far as the board and the ball go, it is     *)
(* whole.                                                                  *)
BoardFields == {"loc", "at", "grid", "stance", "has", "ball"}
Balls == [state : {"off", "air", "ground", "held"}, carrier : Slots \cup {NoPlayer},
         sq : Int \X Int]
Whole(s) ==
  /\ s = [f \in DOMAIN s |-> s[f]] /\ BoardFields \subseteq DOMAIN s
  /\ s.loc \in [Slots -> Locations] /\ s.stance \in [Slots -> Stances]
  /\ s.at \in [Slots -> Int \X Int]
  /\ s.grid \in [Squares -> Slots \cup {NoPlayer}]
  /\ s.has \subseteq Slots /\ s.ball \in Balls

(* A square of the pitch is a pair of coordinates.                         *)
LEMMA SquaresArePairs == Squares \subseteq Int \X Int
  BY DEF Squares

(* bb_give_ball: whoever had the ball, only p has it now, where he stands. *)
LEMMA GivenBallAgrees ==
  ASSUME NEW s, Whole(s), BallAgrees(s), NEW p \in Slots, OnPitch(s, p)
  PROVE Whole(GiveBall(s, p)) /\ BallAgrees(GiveBall(s, p))
  <1> DEFINE t == GiveBall(s, p)
  <1>1. /\ t.has = (s.has \ {s.ball.carrier}) \cup {p}
        /\ t.ball = [state |-> "held", carrier |-> p, sq |-> s.at[p]]
        /\ t.loc = s.loc /\ t.at = s.at /\ t.grid = s.grid /\ t.stance = s.stance
        /\ DOMAIN t = DOMAIN s /\ t = [f \in DOMAIN t |-> t[f]]
    BY DEF GiveBall, Whole, BoardFields
  <1> QED
    BY <1>1, NobodyIsNoPlayer DEF Whole, BallAgrees, OnPitch, Balls

(* bb_ball_to: the ball is loose on a square of the pitch and nobody's.    *)
LEMMA BallOnGroundAgrees ==
  ASSUME NEW s, Whole(s), BallAgrees(s), NEW q \in Squares
  PROVE Whole(BallTo(s, q)) /\ BallAgrees(BallTo(s, q))
  <1> DEFINE t == BallTo(s, q)
  <1>1. /\ t.has = s.has \ {s.ball.carrier}
        /\ t.ball = [state |-> "ground", carrier |-> NoPlayer, sq |-> q]
        /\ t.loc = s.loc /\ t.at = s.at /\ t.grid = s.grid /\ t.stance = s.stance
        /\ DOMAIN t = DOMAIN s /\ t = [f \in DOMAIN t |-> t[f]]
    BY DEF BallTo, Whole, BoardFields
  <1>2. t.has = {}
    BY <1>1 DEF BallAgrees
  <1> QED
    BY <1>1, <1>2, SquaresArePairs DEF Whole, BallAgrees, OnPitch, Balls

(* bb_drop_ball: the ball is let go where its carrier is, so on the pitch; *)
(* that much the grid must vouch for.                                      *)
LEMMA DroppedBallAgrees ==
  ASSUME NEW s, Whole(s), BoundaryValid(s)
  PROVE Whole(DropBall(s)) /\ BallAgrees(DropBall(s))
  <1>1. CASE s.ball.carrier = NoPlayer
    BY <1>1 DEF DropBall, BoundaryValid
  <1>2. CASE s.ball.carrier # NoPlayer
    <2> DEFINE t == DropBall(s)
    <2>1. /\ t.has = s.has \ {s.ball.carrier}
          /\ t.ball = [state |-> "ground", carrier |-> NoPlayer, sq |-> s.ball.sq]
          /\ t.loc = s.loc /\ t.at = s.at /\ t.grid = s.grid /\ t.stance = s.stance
          /\ DOMAIN t = DOMAIN s /\ t = [f \in DOMAIN t |-> t[f]]
      BY <1>2 DEF DropBall, Whole, BoardFields, Balls
    <2>2. s.has = {s.ball.carrier} /\ s.ball.sq \in Squares
      BY <1>2 DEF BoundaryValid, BallAgrees, GridAgrees, Whole
    <2> QED
      BY <2>1, <2>2, SquaresArePairs DEF Whole, BallAgrees, OnPitch, Balls
  <1> QED
    BY <1>1, <1>2

(* Taking p off his square leaves the rest of the board as it was.         *)
LEMMA LiftedRecord ==
  ASSUME NEW s, Whole(s), GridAgrees(s), NEW p \in Slots
  PROVE /\ Whole(Lift(s, p)) /\ DOMAIN Lift(s, p) = DOMAIN s
        /\ \A f \in DOMAIN s \ {"grid"} : Lift(s, p)[f] = s[f]
        /\ \A q \in Squares :
             Lift(s, p).grid[q] = IF s.grid[q] = p THEN NoPlayer ELSE s.grid[q]
  <1> DEFINE t == Lift(s, p)
  <1>1. CASE OnPitch(s, p)
    <2>1. /\ s.at[p] \in Squares /\ s.grid[s.at[p]] = p
          /\ \A q \in Squares : s.grid[q] = p => q = s.at[p]
      BY <1>1, NobodyIsNoPlayer DEF GridAgrees, Empty, SlotAt
    <2>2. /\ t.grid = [s.grid EXCEPT ![s.at[p]] = NoPlayer]
          /\ \A f \in DOMAIN s \ {"grid"} : t[f] = s[f]
          /\ DOMAIN t = DOMAIN s /\ t = [f \in DOMAIN t |-> t[f]]
      BY <1>1 DEF Lift, Whole, BoardFields
    <2>3. t.grid \in [Squares -> Slots \cup {NoPlayer}]
      BY <2>1, <2>2 DEF Whole
    <2>4. \A q \in Squares : t.grid[q] = IF s.grid[q] = p THEN NoPlayer ELSE s.grid[q]
      BY <2>1, <2>2 DEF Whole
    <2>5. /\ t.loc = s.loc /\ t.at = s.at /\ t.stance = s.stance
          /\ t.has = s.has /\ t.ball = s.ball
      BY <2>2 DEF Whole, BoardFields
    <2> QED
      BY <2>2, <2>3, <2>4, <2>5 DEF Whole
  <1>2. CASE ~OnPitch(s, p)
    <2>1. \A q \in Squares : s.grid[q] # p
      BY <1>2, NobodyIsNoPlayer DEF GridAgrees, Empty, SlotAt
    <2> QED
      BY <1>2, <2>1 DEF Lift
  <1> QED
    BY <1>1, <1>2

(* bb_place, with the carrier's ball taken along as its callers do: p ends *)
(* on a free square or stays on his own, and board and ball agree.         *)
LEMMA PlacedPlayerAgrees ==
  ASSUME NEW s, Whole(s), BoundaryValid(s), NEW p \in Slots, NEW q \in Squares,
         s.grid[q] \in {p, NoPlayer}
  PROVE LET t == Carry(Place(s, p, q), p) IN Whole(t) /\ BoundaryValid(t)
  <1> DEFINE l == Lift(s, p)
             u == Place(s, p, q)
             t == Carry(u, p)
  <1>1. /\ Whole(l) /\ DOMAIN l = DOMAIN s
        /\ \A f \in DOMAIN s \ {"grid"} : l[f] = s[f]
        /\ \A r \in Squares :
             l.grid[r] = IF s.grid[r] = p THEN NoPlayer ELSE s.grid[r]
    BY LiftedRecord DEF BoundaryValid
  <1>2. /\ l.loc = s.loc /\ l.at = s.at /\ l.stance = s.stance
        /\ l.has = s.has /\ l.ball = s.ball
    BY <1>1 DEF Whole, BoardFields
  <1>3. /\ u.loc = [s.loc EXCEPT ![p] = "pitch"] /\ u.at = [s.at EXCEPT ![p] = q]
        /\ u.grid = [l.grid EXCEPT ![q] = p]
        /\ u.stance = s.stance /\ u.has = s.has /\ u.ball = s.ball
        /\ DOMAIN u = DOMAIN s /\ u = [f \in DOMAIN u |-> u[f]]
    BY <1>1, <1>2 DEF Place, Whole, BoardFields
  <1>4. /\ t.loc = u.loc /\ t.at = u.at /\ t.grid = u.grid
        /\ t.stance = u.stance /\ t.has = u.has
        /\ t.ball = IF p \in s.has THEN [s.ball EXCEPT !.sq = q] ELSE s.ball
        /\ DOMAIN t = DOMAIN s /\ t = [f \in DOMAIN t |-> t[f]]
    <2>1. u.at[p] = q
      BY <1>3 DEF Whole
    <2>2. CASE p \in s.has
      BY <1>3, <2>1, <2>2, ZenonT(30) DEF Carry, Whole, BoardFields
    <2>3. CASE p \notin s.has
      BY <1>3, <2>3 DEF Carry
    <2> QED
      BY <2>2, <2>3
  <1>5. q \in Int \X Int
    BY SquaresArePairs
  <1>6. Whole(t)
    <2>1. t.loc \in [Slots -> Locations] /\ t.at \in [Slots -> Int \X Int]
      BY <1>3, <1>4, <1>5 DEF Whole, Locations
    <2>2. t.grid \in [Squares -> Slots \cup {NoPlayer}]
      BY <1>1, <1>3, <1>4 DEF Whole
    <2>3. t.ball \in Balls
      BY <1>4, <1>5 DEF Whole, Balls
    <2> QED
      BY <1>3, <1>4, <2>1, <2>2, <2>3 DEF Whole
  <1>7. /\ \A o \in Slots : t.loc[o] = IF o = p THEN "pitch" ELSE s.loc[o]
        /\ \A o \in Slots : t.at[o] = IF o = p THEN q ELSE s.at[o]
        /\ \A r \in Squares :
             t.grid[r] = IF r = q THEN p
                         ELSE IF s.grid[r] = p THEN NoPlayer ELSE s.grid[r]
    BY <1>1, <1>3, <1>4 DEF Whole
  <1>8. GridAgrees(t)
    <2>1. ASSUME NEW o \in Slots, OnPitch(t, o)
          PROVE t.at[o] \in Squares /\ t.grid[t.at[o]] = o
      <3>1. CASE o = p
        BY <1>7, <3>1
      <3>2. CASE o # p
        <4>1. s.at[o] \in Squares /\ s.grid[s.at[o]] = o
          BY <1>7, <2>1, <3>2 DEF BoundaryValid, GridAgrees, OnPitch
        <4>2. s.at[o] # q
          BY <4>1, <3>2, NobodyIsNoPlayer
        <4> QED
          BY <1>7, <3>2, <4>1, <4>2
      <3> QED
        BY <3>1, <3>2
    <2>2. ASSUME NEW r \in Squares, ~Empty(t, r)
          PROVE OnPitch(t, SlotAt(t, r)) /\ t.at[SlotAt(t, r)] = r
      <3>1. CASE r = q
        BY <1>7, <3>1 DEF OnPitch, SlotAt
      <3>2. CASE r # q
        <4>1. s.grid[r] # p /\ t.grid[r] = s.grid[r] /\ s.grid[r] # NoPlayer
          BY <1>7, <2>2, <3>2 DEF Empty
        <4>2. s.grid[r] \in Slots
          BY <4>1 DEF Whole
        <4>3. OnPitch(s, s.grid[r]) /\ s.at[s.grid[r]] = r
          BY <4>1 DEF BoundaryValid, GridAgrees, Empty, SlotAt
        <4> QED
          BY <1>7, <4>1, <4>2, <4>3 DEF OnPitch, SlotAt
      <3> QED
        BY <3>1, <3>2
    <2> QED
      BY <2>1, <2>2 DEF GridAgrees
  <1>9. BallAgrees(t)
    <2>1. t.has = s.has /\ s.has \subseteq Slots
      BY <1>3, <1>4 DEF Whole
    <2>2. \A o \in t.has : OnPitch(t, o)
      BY <1>7, <2>1 DEF BoundaryValid, BallAgrees, OnPitch
    <2>3. CASE s.ball.state = "held"
      <3>1. s.has = {s.ball.carrier} /\ s.ball.sq = s.at[s.ball.carrier]
        BY <2>3 DEF BoundaryValid, BallAgrees
      <3>2. /\ t.ball.state = "held" /\ t.ball.carrier = s.ball.carrier
            /\ t.ball.sq = IF p \in s.has THEN q ELSE s.ball.sq
        BY <1>4, <2>3 DEF Whole, Balls
      <3>3. t.ball.sq = t.at[t.ball.carrier]
        BY <1>7, <2>1, <3>1, <3>2
      <3> QED
        BY <2>1, <2>2, <3>1, <3>2, <3>3 DEF BallAgrees
    <2>4. CASE s.ball.state # "held"
      BY <1>4, <2>1, <2>4 DEF BoundaryValid, BallAgrees
    <2> QED
      BY <2>3, <2>4
  <1> QED
    BY <1>6, <1>8, <1>9 DEF BoundaryValid

(* bb_remove_from_pitch clears a player's HAS_BALL and leaves              *)
(* ball.carrier to the caller: once the ball is somebody else's or         *)
(* nobody's, board and ball agree after it.                                *)
LEMMA RemovedPlayerAgrees ==
  ASSUME NEW s, Whole(s), BoundaryValid(s), NEW p \in Slots \ s.has,
         NEW l \in Locations \ {"pitch"}
  PROVE Whole(Remove(s, p, l)) /\ BoundaryValid(Remove(s, p, l))
  <1> DEFINE b == Lift(s, p)
             t == Remove(s, p, l)
  <1>1. /\ Whole(b) /\ DOMAIN b = DOMAIN s
        /\ \A f \in DOMAIN s \ {"grid"} : b[f] = s[f]
        /\ \A r \in Squares :
             b.grid[r] = IF s.grid[r] = p THEN NoPlayer ELSE s.grid[r]
    BY LiftedRecord DEF BoundaryValid
  <1>2. /\ b.loc = s.loc /\ b.at = s.at /\ b.stance = s.stance
        /\ b.has = s.has /\ b.ball = s.ball
    BY <1>1 DEF Whole, BoardFields
  <1>3. /\ t.loc = [s.loc EXCEPT ![p] = l] /\ t.at = s.at /\ t.grid = b.grid
        /\ t.stance = [s.stance EXCEPT ![p] = "standing"]
        /\ t.has = s.has /\ t.ball = s.ball
        /\ DOMAIN t = DOMAIN s /\ t = [f \in DOMAIN t |-> t[f]]
    BY <1>1, <1>2 DEF Remove, Whole, BoardFields
  <1>4. Whole(t)
    BY <1>1, <1>3 DEF Whole, Locations, Stances
  <1>5. \A o \in Slots : OnPitch(t, o) <=> o # p /\ OnPitch(s, o)
    BY <1>3 DEF Whole, OnPitch
  <1>6. GridAgrees(t)
    <2>1. ASSUME NEW o \in Slots, OnPitch(t, o)
          PROVE t.at[o] \in Squares /\ t.grid[t.at[o]] = o
      BY <1>1, <1>3, <1>5, <2>1 DEF BoundaryValid, GridAgrees
    <2>2. ASSUME NEW r \in Squares, ~Empty(t, r)
          PROVE OnPitch(t, SlotAt(t, r)) /\ t.at[SlotAt(t, r)] = r
      <3>1. s.grid[r] # p /\ t.grid[r] = s.grid[r] /\ s.grid[r] # NoPlayer
        BY <1>1, <1>3, <2>2 DEF Empty
      <3>2. s.grid[r] \in Slots /\ OnPitch(s, s.grid[r]) /\ s.at[s.grid[r]] = r
        BY <3>1 DEF BoundaryValid, GridAgrees, Empty, SlotAt, Whole
      <3> QED
        BY <1>3, <1>5, <3>1, <3>2 DEF SlotAt
    <2> QED
      BY <2>1, <2>2 DEF GridAgrees
  <1>7. BallAgrees(t)
    BY <1>3, <1>5 DEF BoundaryValid, BallAgrees, Whole
  <1> QED
    BY <1>4, <1>6, <1>7 DEF BoundaryValid

(* The operations on the ball leave the board alone, so all five keep what *)
(* the bank of states demands: the grid and the players name each other,   *)
(* and the ball's record, its carrier's flag and his square agree.         *)
THEOREM HelpersKeepBoundary ==
  ASSUME NEW s, Whole(s), BoundaryValid(s), NEW p \in Slots, NEW q \in Squares
  PROVE /\ OnPitch(s, p) => BoundaryValid(GiveBall(s, p))
        /\ BoundaryValid(BallTo(s, q))
        /\ BoundaryValid(DropBall(s))
        /\ s.grid[q] \in {p, NoPlayer} => BoundaryValid(Carry(Place(s, p, q), p))
        /\ \A l \in Locations \ {"pitch"} :
             p \notin s.has => BoundaryValid(Remove(s, p, l))
  <1>1. ASSUME NEW t, t.loc = s.loc, t.at = s.at, t.grid = s.grid, BallAgrees(t)
        PROVE BoundaryValid(t)
    BY <1>1 DEF BoundaryValid, GridAgrees, OnPitch, Empty, SlotAt
  <1>2. ASSUME OnPitch(s, p) PROVE BoundaryValid(GiveBall(s, p))
    <2>1. /\ GiveBall(s, p).loc = s.loc /\ GiveBall(s, p).at = s.at
          /\ GiveBall(s, p).grid = s.grid
      BY DEF GiveBall, Whole, BoardFields
    <2> QED
      BY <1>1, <1>2, <2>1, GivenBallAgrees DEF BoundaryValid
  <1>3. BoundaryValid(BallTo(s, q))
    <2>1. BallTo(s, q).loc = s.loc /\ BallTo(s, q).at = s.at /\ BallTo(s, q).grid = s.grid
      BY DEF BallTo, Whole, BoardFields
    <2> QED
      BY <1>1, <2>1, BallOnGroundAgrees DEF BoundaryValid
  <1>4. BoundaryValid(DropBall(s))
    <2>1. DropBall(s).loc = s.loc /\ DropBall(s).at = s.at /\ DropBall(s).grid = s.grid
      BY DEF DropBall, Whole, BoardFields
    <2> QED
      BY <1>1, <2>1, DroppedBallAgrees
  <1> QED
    BY <1>2, <1>3, <1>4, PlacedPlayerAgrees, RemovedPlayerAgrees
=============================================================================
