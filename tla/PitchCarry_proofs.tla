-------------------------- MODULE PitchCarry_proofs --------------------------
(***************************************************************************)
(* Three things no handler of PitchPlay breaks: the frames below its own   *)
(* stay as they are, whoever has the ball stands, and a foul has only what *)
(* becomes of the fouled player above it.  From the last two the double    *)
(* that gives a fouler away is still in m->ret when FOUL looks for it.     *)
(***************************************************************************)
EXTENDS PitchPlay_proofs

USE PitchAssumption

(* ------------------------ half way through a handler ------------------- *)
(* The frames below the handler's own, and those it leaves above them.     *)
Under == Len(m.stack) - 1
Upper(s) == Under + 1 .. Len(s.stack)
Stays(s) ==
  /\ IsStack(s.stack) /\ Under \in Nat /\ Len(s.stack) >= Under
  /\ \A i \in 1 .. Under : s.stack[i] = m.stack[i]

(* A frame that is no foul, and one that waits for no die either.          *)
Plain(f) == IsFrame(f) /\ f.proc # "FOUL"
Mute(f) == Plain(f) /\ ~Due(f)

(* At most the carrier has the ball, and he stands unless he is in F.      *)
Body(s, F) ==
  /\ IsMatch(s) /\ IsBall(s.ball) /\ s.from = m.from /\ s.stance \in [Slots -> Stances]
  /\ s.status # "error" =>
       /\ \A p \in s.has : p \in Slots /\ p = s.ball.carrier
       /\ s.has \subseteq OnFeet(s) \cup F

(* The handler's own frame, edited or not, is still there and the only one; *)
(* or it is gone, or waits for nothing, like those pushed after it.        *)
Lone(s, F) ==
  /\ Body(s, F) /\ s.status # "error" /\ Stays(s)
  /\ Len(s.stack) = Under + 1 /\ IsFrame(Top(s))
Holding(s, F) ==
  Body(s, F) /\ (s.status # "error" => Stays(s) /\ \A i \in Upper(s) : Mute(s.stack[i]))

(* What a handler ends with.                                               *)
Sound(s) ==
  /\ Body(s, {})
  /\ s.status # "error" => Stays(s) /\ \A i \in Upper(s) : Plain(s.stack[i]) /\ Fit(s, s.stack[i])

(* A frame that waits for no die needs nobody on his feet.                 *)
LEMMA RestFit ==
  ASSUME NEW s, NEW f, ~Due(f)
  PROVE  Fit(s, f)
  BY DEF Due, Fit

(* A handler that leaves nobody waiting is through.                        *)
LEMMA HoldSound ==
  ASSUME NEW s, Holding(s, {})
  PROVE  Sound(s)
  BY RestFit DEF Holding, Sound, Mute

(* So is one that leaves its own frame on top, waiting or not.             *)
LEMMA LoneSound ==
  ASSUME NEW s, Lone(s, {}), Top(s).proc # "FOUL", Fit(s, Top(s))
  PROVE  Sound(s)
  <1>1. \A i \in Upper(s) : s.stack[i] = Top(s)
    BY DEF Lone, Stays, Upper, Top
  <1> QED BY <1>1 DEF Lone, Sound, Plain

(* The handler's own frame is like any other if it does not wait.          *)
LEMMA LoneHolds ==
  ASSUME NEW s, NEW F, Lone(s, F), Top(s).proc # "FOUL", ~Due(Top(s))
  PROVE  Holding(s, F)
  <1>1. \A i \in Upper(s) : s.stack[i] = Top(s)
    BY DEF Lone, Stays, Upper, Top
  <1> QED BY <1>1 DEF Lone, Holding, Plain, Mute

(* Once it is popped nothing is above the others.                          *)
LEMMA LonePop ==
  ASSUME NEW s, NEW F, Lone(s, F)
  PROVE  LET t == Pop(s) IN
         /\ Holding(t, F) /\ Len(t.stack) = Under /\ t.stance = s.stance /\ t.has = s.has
         /\ t.ball = s.ball /\ t.status = s.status /\ t.ret = s.ret
  <1> DEFINE t == Pop(s)  S == s.stack  T == t.stack
  <1>1. /\ IsMatch(t) /\ t.from = s.from /\ t.has = s.has /\ t.stance = s.stance
        /\ t.status = s.status /\ T = Below(S) /\ t.ball = s.ball /\ t.ret = s.ret
    BY DEF Pop, Lone, Body, IsMatch, Fields, Below
  <1> HIDE DEF t
  <1>2. Len(S) \in Nat /\ Under \in Nat /\ Len(S) = Under + 1 /\ IsStack(S)
    BY DEF Lone, Stays
  <1>3. IsStack(T) /\ Len(T) = Under /\ \A i \in 1 .. Under : T[i] = S[i]
    BY <1>1, <1>2, FrontStack
  <1>4. OnFeet(t) = OnFeet(s)
    BY <1>1 DEF OnFeet, Standing
  <1>5. Body(t, F)
    BY <1>1, <1>4 DEF Lone, Body
  <1>6. Stays(t) /\ Upper(t) = {}
    BY <1>2, <1>3 DEF Lone, Stays, Upper
  <1>7. Holding(t, F)
    BY <1>5, <1>6 DEF Holding
  <1> QED BY <1>1, <1>3, <1>7 DEF t

(* bb_push of a frame that waits for nothing; the stack may be full.       *)
LEMMA HoldPush ==
  ASSUME NEW s, NEW F, Holding(s, F), NEW f, Mute(f)
  PROVE  LET t == Push(s, f) IN
         /\ Holding(t, F) /\ t.stance = s.stance /\ t.has = s.has /\ t.ball = s.ball
         /\ t.ret = s.ret
         /\ t.status = "error" \/ (t.stack = Append(s.stack, f) /\ t.status = s.status)
  <1> DEFINE t == Push(s, f)  S == s.stack  T == t.stack
  <1>1. /\ IsMatch(t) /\ t.from = s.from /\ t.has = s.has /\ t.stance = s.stance
        /\ t.ball = s.ball /\ t.ret = s.ret
        /\ \/ t.status = "error"
           \/ s.status # "error" /\ t.status = s.status /\ T = Append(S, f)
    BY DEF Push, Holding, Body, IsMatch, Fields
  <1> HIDE DEF t
  <1>2. OnFeet(t) = OnFeet(s)
    BY <1>1 DEF OnFeet, Standing
  <1>3. Body(t, F)
    BY <1>1, <1>2 DEF Holding, Body
  <1>4. ASSUME t.status # "error" PROVE Stays(t) /\ \A i \in Upper(t) : Mute(T[i])
    <2>0. IsStack(S) /\ T = Append(S, f)
      BY <1>1, <1>4 DEF Holding, Stays
    <2>1. /\ IsStack(T) /\ Len(T) = Len(S) + 1 /\ T[Len(T)] = f
          /\ \A i \in 1 .. Len(S) : T[i] = S[i]
      <3> HIDE DEF S, T
      <3> QED BY <2>0, PushedStack
    <2>2. Len(S) \in Nat /\ Under \in Nat /\ Len(S) >= Under
      BY <1>1, <1>4 DEF Holding, Stays, IsStack
    <2>3. \A i \in Upper(t) : i = Len(T) \/ (i \in Upper(s) /\ T[i] = S[i])
      BY <2>1, <2>2 DEF Upper
    <2>4. \A i \in 1 .. Under : i \in 1 .. Len(S)
      BY <2>2
    <2> QED BY <1>1, <1>4, <2>1, <2>2, <2>3, <2>4 DEF Holding, Stays
  <1>5. Holding(t, F)
    BY <1>3, <1>4 DEF Holding
  <1> QED BY <1>1, <1>5 DEF t

(* A die is rolled for the handler's own frame.                            *)
LEMMA LoneTest ==
  ASSUME NEW s, Lone(s, {}), Top(s).proc # "FOUL", Fit(s, Top(s)), NEW p, NEW k, NEW o
  PROVE  Sound(Test(s, p, k, o))
  <1> DEFINE f == [Frame("TEST", p, 0, NoSq) EXCEPT !.k = k, !.c = o]
             t == Push(s, f)  S == s.stack  T == t.stack
  <1>0. IsFrame(f) /\ f.proc = "TEST"
    BY DEF Frame, IsFrame, Marks
  <1> HIDE DEF f
  <1>1. /\ IsMatch(t) /\ t.from = s.from /\ t.has = s.has /\ t.stance = s.stance
        /\ t.ball = s.ball
        /\ t.status = "error" \/ T = Append(S, f)
    BY DEF Push, Lone, Body, IsMatch, Fields
  <1> HIDE DEF t
  <1>2. OnFeet(t) = OnFeet(s) /\ \A g : Fit(s, g) => Fit(t, g)
    BY <1>1 DEF OnFeet, Standing, Fit
  <1>3. Body(t, {})
    BY <1>1, <1>2 DEF Lone, Body
  <1>4. ASSUME t.status # "error"
        PROVE  Stays(t) /\ \A i \in Upper(t) : Plain(T[i]) /\ Fit(t, T[i])
    <2>0. IsStack(S) /\ T = Append(S, f)
      BY <1>1, <1>4 DEF Lone, Stays
    <2>1. /\ IsStack(T) /\ Len(T) = Len(S) + 1 /\ T[Len(T)] = f
          /\ \A i \in 1 .. Len(S) : T[i] = S[i]
      <3> HIDE DEF S, T
      <3> QED BY <2>0, PushedStack
    <2>2. Len(S) \in Nat /\ Under \in Nat /\ Len(S) = Under + 1
      BY DEF Lone, Stays, IsStack
    <2>3. \A i \in Upper(t) : T[i] = f \/ T[i] = Top(s)
      BY <2>1, <2>2 DEF Upper, Top
    <2>4. \A i \in 1 .. Under : i \in 1 .. Len(S)
      BY <2>2
    <2>5. Plain(f) /\ Fit(t, f)
      BY <1>0 DEF Plain, Fit
    <2>6. Plain(Top(s)) /\ Fit(t, Top(s))
      BY <1>2 DEF Lone, Plain
    <2>7. Stays(t)
      BY <2>1, <2>2, <2>4 DEF Lone, Stays
    <2> QED BY <2>3, <2>5, <2>6, <2>7
  <1>5. Sound(t)
    BY <1>3, <1>4 DEF Sound
  <1> QED BY <1>5 DEF Test, t, f

(* ----------------------------- call by call ---------------------------- *)
(* What leaves the stack alone leaves the frames as they are.              *)
LEMMA KeptOn ==
  ASSUME NEW s, NEW t, NEW F, NEW G, Body(t, G), Kept(s, t)
  PROVE  /\ Holding(s, F) => Holding(t, G)
         /\ Lone(s, F) => Lone(t, G) /\ Top(t) = Top(s)
  BY DEF Kept, Holding, Lone, Stays, Upper, Top

(* What leaves the ball and the players' stances alone changes nothing.    *)
LEMMA SameOn ==
  ASSUME NEW s, NEW t, NEW F, IsMatch(t), t.from = s.from, t.stance = s.stance,
         t.has = s.has, t.ball = s.ball, Kept(s, t)
  PROVE  /\ Holding(s, F) => Holding(t, F)
         /\ Lone(s, F) => Lone(t, F) /\ Top(t) = Top(s)
  <1>1. OnFeet(t) = OnFeet(s)
    BY DEF OnFeet, Standing
  <1>2. Body(s, F) => Body(t, F)
    BY <1>1 DEF Body, Kept
  <1> QED BY <1>2, KeptOn DEF Holding, Lone

(* What a call leaves alone.                                               *)
Same(s, t) ==
  /\ Kept(s, t) /\ t.stance = s.stance /\ t.has = s.has /\ t.ball = s.ball /\ t.ret = s.ret

(* A turnover.                                                             *)
LEMMA HoldTurnover ==
  ASSUME NEW s, NEW F
  PROVE  /\ Holding(s, F) => Holding(MakeTurnover(s), F) /\ Same(s, MakeTurnover(s))
         /\ Lone(s, F) => Lone(MakeTurnover(s), F) /\ Same(s, MakeTurnover(s))
                            /\ Top(MakeTurnover(s)) = Top(s)
  <1> DEFINE t == MakeTurnover(s)
  <1>1. IsMatch(s) => IsMatch(t) /\ t.from = s.from /\ Same(s, t)
    BY DEF MakeTurnover, IsMatch, Fields, Same, Kept
  <1>2. Holding(s, F) \/ Lone(s, F) => IsMatch(s)
    BY DEF Holding, Lone, Body
  <1> HIDE DEF t
  <1> QED BY <1>1, <1>2, SameOn DEF Same, t

(* or none, as the case may be.                                            *)
LEMMA HoldTurnoverIf ==
  ASSUME NEW s, NEW F, NEW c
  PROVE  /\ Holding(s, F) => Holding(TurnoverIf(s, c), F) /\ Same(s, TurnoverIf(s, c))
         /\ Lone(s, F) => Lone(TurnoverIf(s, c), F) /\ Same(s, TurnoverIf(s, c))
                            /\ Top(TurnoverIf(s, c)) = Top(s)
  <1>1. Same(s, s)
    BY DEF Same, Kept
  <1> QED BY <1>1, HoldTurnover DEF TurnoverIf

(* bb_drop_ball: nobody has the ball any more,                             *)
LEMMA HoldDrop ==
  ASSUME NEW s, NEW F, Holding(s, F) \/ Lone(s, F)
  PROVE  LET t == DropBall(s) IN
         /\ Holding(s, F) => Holding(t, {})
         /\ Lone(s, F) => Lone(t, {}) /\ Top(t) = Top(s)
         /\ Kept(s, t) /\ t.stance = s.stance /\ t.ret = s.ret
         /\ s.status # "error" => t.has = {}
  <1> DEFINE t == DropBall(s)
  <1>1. Body(s, F)
    BY DEF Holding, Lone
  <1>2. /\ IsMatch(t) /\ t.from = s.from /\ t.stance = s.stance /\ t.ret = s.ret /\ Kept(s, t)
        /\ IsBall(t.ball) /\ t.has = IF s.ball.carrier = NoPlayer THEN s.has
                                     ELSE s.has \ {s.ball.carrier}
    BY <1>1 DEF Body, DropBall, IsMatch, Fields, IsBall, Kept
  <1> HIDE DEF t
  <1>3. s.status # "error" => t.has = {}
    BY <1>1, <1>2, NobodyIsNoPlayer DEF Body
  <1>4. Body(t, {})
    BY <1>1, <1>2, <1>3 DEF Body, Kept
  <1> QED BY <1>2, <1>3, <1>4, KeptOn DEF t

(* the ball put down on a square,                                          *)
LEMMA HoldTo ==
  ASSUME NEW s, NEW F, Holding(s, F) \/ Lone(s, F), NEW q
  PROVE  LET t == BallTo(s, q) IN
         /\ Holding(s, F) => Holding(t, {})
         /\ Lone(s, F) => Lone(t, {}) /\ Top(t) = Top(s)
         /\ Kept(s, t) /\ t.stance = s.stance /\ t.ret = s.ret
         /\ s.status # "error" => t.has = {}
  <1> DEFINE t == BallTo(s, q)
  <1>1. Body(s, F)
    BY DEF Holding, Lone
  <1>2. /\ IsMatch(t) /\ t.from = s.from /\ t.stance = s.stance /\ t.ret = s.ret /\ Kept(s, t)
        /\ IsBall(t.ball) /\ t.has = s.has \ {s.ball.carrier}
    BY <1>1 DEF Body, BallTo, IsMatch, Fields, IsBall, Kept
  <1> HIDE DEF t
  <1>3. s.status # "error" => t.has = {}
    BY <1>1, <1>2 DEF Body
  <1>4. Body(t, {})
    BY <1>1, <1>2, <1>3 DEF Body, Kept
  <1> QED BY <1>2, <1>3, <1>4, KeptOn DEF t

(* bb_give_ball, to somebody on his feet.                                  *)
LEMMA HoldGive ==
  ASSUME NEW s, NEW F, Holding(s, F) \/ Lone(s, F), NEW p \in OnFeet(s)
  PROVE  LET t == GiveBall(s, p) IN
         /\ Holding(s, F) => Holding(t, {})
         /\ Lone(s, F) => Lone(t, {}) /\ Top(t) = Top(s)
         /\ Kept(s, t) /\ t.stance = s.stance /\ t.ret = s.ret
  <1> DEFINE t == GiveBall(s, p)
  <1>1. Body(s, F)
    BY DEF Holding, Lone
  <1>2. /\ IsMatch(t) /\ t.from = s.from /\ t.stance = s.stance /\ t.ret = s.ret /\ Kept(s, t)
        /\ IsBall(t.ball) /\ t.ball.carrier = p /\ t.has = (s.has \ {s.ball.carrier}) \cup {p}
    BY <1>1 DEF Body, GiveBall, IsMatch, Fields, IsBall, Kept
  <1> HIDE DEF t
  <1>3. s.status # "error" => t.has = {p}
    BY <1>1, <1>2 DEF Body
  <1>4. p \in Slots /\ p \in OnFeet(t)
    BY <1>2 DEF OnFeet, Standing
  <1>5. Body(t, {})
    BY <1>1, <1>2, <1>3, <1>4 DEF Body, Kept
  <1> QED BY <1>2, <1>5, KeptOn DEF t

(* bb_place_player,                                                        *)
LEMMA HoldPlace ==
  ASSUME NEW s, NEW F, Holding(s, F) \/ Lone(s, F), NEW p, NEW q
  PROVE  LET t == Place(s, p, q) IN
         /\ Holding(s, F) => Holding(t, F)
         /\ Lone(s, F) => Lone(t, F) /\ Top(t) = Top(s)
         /\ Same(s, t)
  <1> DEFINE t == Place(s, p, q)
  <1>1. IsMatch(s)
    BY DEF Holding, Lone, Body
  <1>2. IsMatch(t) /\ t.from = s.from /\ Same(s, t)
    BY <1>1, ZenonT(30) DEF Place, Lift, IsMatch, Fields, Same, Kept
  <1> HIDE DEF t
  <1> QED BY <1>2, SameOn DEF Same, t

(* the ball carried along,                                                 *)
LEMMA HoldCarry ==
  ASSUME NEW s, NEW F, Holding(s, F) \/ Lone(s, F), NEW p
  PROVE  LET t == Carry(s, p) IN
         /\ Holding(s, F) => Holding(t, F)
         /\ Lone(s, F) => Lone(t, F) /\ Top(t) = Top(s)
         /\ Kept(s, t) /\ t.stance = s.stance /\ t.ret = s.ret /\ t.has = s.has
  <1> DEFINE t == Carry(s, p)
  <1>1. Body(s, F)
    BY DEF Holding, Lone
  <1>2. /\ IsMatch(t) /\ t.from = s.from /\ t.stance = s.stance /\ t.ret = s.ret /\ Kept(s, t)
        /\ IsBall(t.ball) /\ t.ball.carrier = s.ball.carrier /\ t.has = s.has
    BY <1>1 DEF Body, Carry, IsMatch, Fields, IsBall, Kept
  <1> HIDE DEF t
  <1>3. OnFeet(t) = OnFeet(s)
    BY <1>2 DEF OnFeet, Standing
  <1>4. Body(t, F)
    BY <1>1, <1>2, <1>3 DEF Body, Kept
  <1> QED BY <1>2, <1>4, KeptOn DEF t

(* bb_move_player,                                                         *)
LEMMA HoldRelocate ==
  ASSUME NEW s, NEW F, Holding(s, F) \/ Lone(s, F), NEW p, NEW q
  PROVE  LET t == Relocate(s, p, q) IN
         /\ Holding(s, F) => Holding(t, F)
         /\ Lone(s, F) => Lone(t, F) /\ Top(t) = Top(s)
         /\ Kept(s, t) /\ t.stance = s.stance /\ t.ret = s.ret /\ t.has = s.has
  BY HoldPlace, HoldCarry DEF Relocate, Same, Kept

(* bb_remove_from_pitch,                                                   *)
LEMMA HoldRemove ==
  ASSUME NEW s, NEW F, Holding(s, F) \/ Lone(s, F), NEW p, NEW l
  PROVE  LET t == Remove(s, p, l) IN
         /\ Holding(s, F) => Holding(t, F)
         /\ Lone(s, F) => Lone(t, F) /\ Top(t) = Top(s)
         /\ Kept(s, t) /\ t.ret = s.ret /\ t.has = s.has \ {p}
         /\ OnFeet(s) \subseteq OnFeet(t)
  <1> DEFINE t == Remove(s, p, l)
  <1>1. Body(s, F)
    BY DEF Holding, Lone
  <1>2. /\ IsMatch(t) /\ t.from = s.from /\ t.ret = s.ret /\ Kept(s, t) /\ t.ball = s.ball
        /\ t.has = s.has \ {p} /\ t.stance = [s.stance EXCEPT ![p] = "standing"]
    BY <1>1, ZenonT(30) DEF Body, Remove, Lift, IsMatch, Fields, Kept
  <1> HIDE DEF t
  <1>3. t.stance \in [Slots -> Stances] /\ OnFeet(s) \subseteq OnFeet(t)
    BY <1>1, <1>2 DEF Body, OnFeet, Standing, Stances
  <1>4. Body(t, F)
    BY <1>1, <1>2, <1>3 DEF Body, Kept
  <1> QED BY <1>2, <1>3, <1>4, KeptOn DEF t

(* a player sent away for good,                                            *)
LEMMA HoldBanish ==
  ASSUME NEW s, NEW F, Holding(s, F), NEW p, NEW l
  PROVE  LET t == Banish(s, p, l) IN Holding(t, F) /\ Kept(s, t) /\ t.ret = s.ret
  <1> DEFINE u == [s EXCEPT !.loc[p] = l]
  <1>1. Holding(u, F) /\ Kept(s, u) /\ u.ret = s.ret
    <2>1. IsMatch(s)
      BY DEF Holding, Body
    <2>2. /\ IsMatch(u) /\ u.from = s.from /\ u.stance = s.stance /\ u.has = s.has
          /\ u.ball = s.ball /\ Kept(s, u) /\ u.ret = s.ret
      BY <2>1 DEF IsMatch, Fields, Kept
    <2> HIDE DEF u
    <2> QED BY <2>2, SameOn
  <1> HIDE DEF u
  <1> QED BY <1>1, HoldRemove DEF Banish, u

(* and a player laid down, with the ball perhaps.                          *)
LEMMA HoldLaid ==
  ASSUME NEW s, NEW F, Holding(s, F) \/ Lone(s, F), NEW p, NEW x \in Stances
  PROVE  LET t == [s EXCEPT !.stance[p] = x] IN
         /\ Holding(s, F) => Holding(t, F \cup {p})
         /\ Lone(s, F) => Lone(t, F \cup {p}) /\ Top(t) = Top(s)
         /\ p \notin s.has \/ x = "standing" =>
              /\ Holding(s, F) => Holding(t, F)
              /\ Lone(s, F) => Lone(t, F)
         /\ Kept(s, t) /\ t.ret = s.ret /\ t.has = s.has
  <1> DEFINE t == [s EXCEPT !.stance[p] = x]
  <1>1. Body(s, F)
    BY DEF Holding, Lone
  <1>2. /\ IsMatch(t) /\ t.from = s.from /\ t.ret = s.ret /\ Kept(s, t) /\ t.ball = s.ball
        /\ t.has = s.has /\ t.stance = [s.stance EXCEPT ![p] = x]
    BY <1>1 DEF Body, IsMatch, Fields, Kept
  <1> HIDE DEF t
  <1>3. /\ t.stance \in [Slots -> Stances] /\ OnFeet(s) \subseteq OnFeet(t) \cup {p}
        /\ x = "standing" => OnFeet(s) \subseteq OnFeet(t)
    BY <1>1, <1>2 DEF Body, OnFeet, Standing
  <1>4. Body(t, F \cup {p})
    BY <1>1, <1>2, <1>3 DEF Body, Kept
  <1>5. p \notin s.has \/ x = "standing" => Body(t, F)
    BY <1>1, <1>2, <1>3 DEF Body, Kept
  <1> QED BY <1>2, <1>4, <1>5, KeptOn DEF t

(* ------------------------------ what is pushed ------------------------- *)
Adds(s, t) == t.stance = s.stance /\ t.has = s.has /\ t.ball = s.ball /\ t.ret = s.ret

(* Frames as they are laid out wait for nothing.                           *)
LEMMA NewMute ==
  ASSUME NEW proc, proc \notin {"FOUL", "MOVE"}, NEW a, NEW b, NEW q, NEW k, NEW c, NEW d
  PROVE  /\ Mute(Frame(proc, a, b, q)) /\ Mute([Frame(proc, a, b, q) EXCEPT !.c = c])
         /\ Mute([Frame(proc, a, b, q) EXCEPT !.k = k, !.c = c])
         /\ Mute([Frame(proc, a, b, q) EXCEPT !.data = d])
  <1> DEFINE g == Frame(proc, a, b, q)
  <1>1. IsFrame(g) /\ g.proc = proc /\ g.phase = 0 /\ IsFrame([g EXCEPT !.c = c])
        /\ [g EXCEPT !.c = c].proc = proc /\ [g EXCEPT !.c = c].phase = 0
    BY DEF Frame, IsFrame, Marks
  <1>2. LET f == [g EXCEPT !.k = k, !.c = c] IN IsFrame(f) /\ f.proc = proc /\ f.phase = 0
    BY DEF Frame, IsFrame, Marks
  <1>3. LET f == [g EXCEPT !.data = d] IN IsFrame(f) /\ f.proc = proc /\ f.phase = 0
    BY DEF Frame, IsFrame, Marks
  <1> HIDE DEF g
  <1>4. \A f : IsFrame(f) /\ f.proc = proc /\ f.phase = 0 => Mute(f)
    BY DEF Mute, Plain, Due
  <1> QED BY <1>1, <1>2, <1>3, <1>4 DEF g

(* A bounce,                                                               *)
LEMMA HoldBounce ==
  ASSUME NEW s, NEW F, Holding(s, F), NEW q
  PROVE  Holding(Bounce(s, q), F) /\ Adds(s, Bounce(s, q))
  BY NewMute, HoldPush DEF Bounce, Adds

(* a knockdown,                                                            *)
LEMMA HoldDown ==
  ASSUME NEW s, NEW F, Holding(s, F), NEW p, NEW k, NEW c
  PROVE  Holding(KnockDown(s, p, k, c), F) /\ Adds(s, KnockDown(s, p, k, c))
  BY NewMute, HoldPush DEF KnockDown, Adds

(* an armour roll,                                                         *)
LEMMA HoldArmour ==
  ASSUME NEW s, NEW F, Holding(s, F), NEW p, NEW k, NEW c
  PROVE  Holding(Armour(s, p, k, c), F) /\ Adds(s, Armour(s, p, k, c))
  BY NewMute, HoldPush DEF Armour, Adds

(* a touchdown, if somebody has scored,                                    *)
LEMMA HoldTd ==
  ASSUME NEW s, NEW F, Holding(s, F)
  PROVE  Holding(CheckTd(s), F) /\ Adds(s, CheckTd(s))
  BY NewMute, HoldPush DEF CheckTd, Adds

(* and any other frame.                                                    *)
LEMMA HoldFrame ==
  ASSUME NEW s, NEW F, Holding(s, F), NEW proc, proc \notin {"FOUL", "MOVE"},
         NEW a, NEW b, NEW q, NEW c, NEW d
  PROVE  /\ Holding(Push(s, Frame(proc, a, b, q)), F) /\ Adds(s, Push(s, Frame(proc, a, b, q)))
         /\ Holding(Push(s, [Frame(proc, a, b, q) EXCEPT !.c = c]), F)
         /\ Adds(s, Push(s, [Frame(proc, a, b, q) EXCEPT !.c = c]))
         /\ Holding(Push(s, [Frame(proc, a, b, q) EXCEPT !.data = d]), F)
         /\ Adds(s, Push(s, [Frame(proc, a, b, q) EXCEPT !.data = d]))
  BY NewMute, HoldPush DEF Adds

(* The ball leaves a player who has been laid down.                        *)
LEMMA HoldSpill ==
  ASSUME NEW s, NEW p, Holding(s, {p})
  PROVE  LET t == Spill(s, p) IN
         Holding(t, {}) /\ t.stance = s.stance /\ t.ret = s.ret /\ (t.status # "error" => p \notin t.has)
  <1>1. CASE p \in s.has
    <2> DEFINE d == DropBall(s)
    <2>1. /\ Holding(d, {}) /\ d.stance = s.stance /\ d.ret = s.ret /\ d.status = s.status
          /\ s.status # "error" => d.has = {}
      BY HoldDrop DEF Kept
    <2> HIDE DEF d
    <2>2. Holding(Bounce(d, s.at[p]), {}) /\ Adds(d, Bounce(d, s.at[p]))
      BY <2>1, HoldBounce
    <2>3. Bounce(d, s.at[p]).status # "error" => d.status # "error"
      BY <2>1 DEF Bounce, Push, Holding, Body, IsMatch, Fields
    <2> QED BY <1>1, <2>1, <2>2, <2>3 DEF Spill, Adds, d
  <1>2. CASE p \notin s.has
    <2>1. Holding(s, {})
      BY <1>2 DEF Holding, Body
    <2> QED BY <1>2, <2>1 DEF Spill
  <1> QED BY <1>1, <1>2

(* So does it one who has not got it or stands.                            *)
LEMMA HoldSpilt ==
  ASSUME NEW s, NEW p, Holding(s, {})
  PROVE  LET t == Spill(s, p) IN
         Holding(t, {}) /\ t.stance = s.stance /\ t.ret = s.ret /\ (t.status # "error" => p \notin t.has)
  <1>1. Holding(s, {p})
    BY DEF Holding, Body
  <1> QED BY <1>1, HoldSpill

(* The ball comes down on a square ...                                     *)
LEMMA HoldLand ==
  ASSUME NEW s, Holding(s, {}), NEW q, NEW rests
  PROVE  Holding(Land(s, q, rests), {})
  <1> DEFINE on == BallTo(s, q)
  <1>1. Holding(on, {})
    BY HoldTo
  <1> HIDE DEF on
  <1>2. Holding(Bounce(on, q), {}) /\ Holding(Push(on, Frame("CATCH", SlotAt(s, q), 0, NoSq)), {})
    BY <1>1, HoldBounce, HoldFrame
  <1> QED BY <1>1, <1>2 DEF Land, on

(* ... or where a throw goes.                                              *)
LEMMA HoldFlight ==
  ASSUME NEW s, Holding(s, {}), NEW f
  PROVE  Holding(Flight(s, f), {})
  <1> DEFINE on == BallTo(s, f.sq)
  <1>1. Holding(on, {})
    BY HoldTo
  <1> HIDE DEF on
  <1>2. /\ Holding(Bounce(on, f.sq), {})
        /\ Holding(Push(on, Frame("CATCH", SlotAt(s, f.sq), 0, NoSq)), {})
        /\ Holding(Push(on, [Frame("SCATTER", 0, 3, f.sq) EXCEPT !.data = {"flight"}]), {})
    BY <1>1, HoldBounce, HoldFrame
  <1> QED BY <1>1, <1>2 DEF Flight, on

(* A coach answers, or is asked.                                           *)
LEMMA HoldAsk ==
  ASSUME NEW s, NEW F, s.status # "error", Holding(s, F) \/ Lone(s, F), NEW team,
         NEW t, t \in {Answered(s), Decide(s, team)}
  PROVE  /\ Holding(s, F) => Holding(t, F)
         /\ Lone(s, F) => Lone(t, F) /\ Top(t) = Top(s)
         /\ t.status # "error" /\ t.stack = s.stack /\ Adds(s, t)
  <1>1. Body(s, F)
    BY DEF Holding, Lone
  <1>2. /\ IsMatch(t) /\ t.from = s.from /\ Adds(s, t) /\ t.stack = s.stack
        /\ t.status \in {"running", "decision"}
    BY <1>1, ZenonT(30) DEF Body, Answered, Decide, IsMatch, Fields, Adds
  <1>3. OnFeet(t) = OnFeet(s)
    BY <1>2 DEF OnFeet, Standing, Adds
  <1>4. Body(t, F)
    BY <1>1, <1>2, <1>3 DEF Body, Adds
  <1> QED BY <1>2, <1>4 DEF Holding, Lone, Stays, Upper, Top

(* A coach answers;                                                        *)
LEMMA HoldAnswered ==
  ASSUME NEW s, NEW F, s.status # "error", Holding(s, F) \/ Lone(s, F)
  PROVE  /\ Holding(s, F) => Holding(Answered(s), F)
         /\ Lone(s, F) => Lone(Answered(s), F) /\ Top(Answered(s)) = Top(s)
         /\ Answered(s).status # "error" /\ Adds(s, Answered(s))
  BY HoldAsk

(* a coach is asked.                                                       *)
LEMMA HoldDecide ==
  ASSUME NEW s, NEW F, s.status # "error", Holding(s, F) \/ Lone(s, F), NEW team
  PROVE  /\ Holding(s, F) => Holding(Decide(s, team), F)
         /\ Lone(s, F) => Lone(Decide(s, team), F) /\ Top(Decide(s, team)) = Top(s)
         /\ Decide(s, team).status # "error" /\ Adds(s, Decide(s, team))
  BY HoldAsk

(* The handler's own frame is written over.                                *)
LEMMA LoneSet ==
  ASSUME NEW s, NEW F, Lone(s, F), NEW g, IsFrame(g),
         NEW t, IsMatch(t), t.stack = Reset(s.stack, g), t.status = s.status, t.from = s.from,
         Adds(s, t)
  PROVE  Lone(t, F) /\ Top(t) = g
  <1> DEFINE S == s.stack  T == t.stack
  <1>1. IsStack(S) /\ Len(S) \in Nat /\ Len(S) = Under + 1 /\ Under \in Nat
    BY DEF Lone, Stays
  <1>2. /\ IsStack(T) /\ Len(T) = Len(S) /\ T[Len(S)] = g
        /\ \A i \in 1 .. Len(S) - 1 : T[i] = S[i]
    BY <1>1, ResetStack
  <1>3. OnFeet(t) = OnFeet(s)
    BY DEF OnFeet, Standing, Adds
  <1>4. Body(t, F)
    BY <1>3 DEF Lone, Body, Adds
  <1>5. Stays(t) /\ Top(t) = g
    BY <1>1, <1>2 DEF Lone, Stays, Top
  <1> QED BY <1>1, <1>2, <1>4, <1>5 DEF Lone

(* t is s with g for the frame on top.                                     *)
Writes(s, t, F, g) ==
  Lone(t, F) /\ Top(t) = g /\ Adds(s, t) /\ t.status = s.status
(* bb_frame.phase is set.                                                  *)
LEMMA LonePhase ==
  ASSUME NEW s, NEW F, Lone(s, F), NEW n
  PROVE  Writes(s, Phase(s, n), F, [Top(s) EXCEPT !.phase = n])
  <1> DEFINE g == [Top(s) EXCEPT !.phase = n]  t == Phase(s, n)
  <1>1. IsFrame(g)
    BY DEF Lone, IsFrame, Marks
  <1>2. IsMatch(t) /\ t.stack = Reset(s.stack, g) /\ t.status = s.status /\ t.from = s.from /\ Adds(s, t)
    BY DEF Lone, Body, IsMatch, Fields, Phase, Top, Reset, Adds
  <1> HIDE DEF g, t
  <1>3. Writes(s, t, F, g)
    BY <1>1, <1>2, LoneSet DEF Writes
  <1> QED BY <1>3 DEF g, t

(* Its flags are set                                                       *)
LEMMA LoneMark ==
  ASSUME NEW s, NEW F, Lone(s, F), NEW d
  PROVE  Writes(s, Mark(s, d), F, [Top(s) EXCEPT !.data = @ \cup d])
  <1> DEFINE g == [Top(s) EXCEPT !.data = @ \cup d]  t == Mark(s, d)
  <1>1. IsFrame(g)
    BY DEF Lone, IsFrame, Marks
  <1>2. IsMatch(t) /\ t.stack = Reset(s.stack, g) /\ t.status = s.status /\ t.from = s.from /\ Adds(s, t)
    BY DEF Lone, Body, IsMatch, Fields, Mark, Top, Reset, Adds
  <1> HIDE DEF g, t
  <1>3. Writes(s, t, F, g)
    BY <1>1, <1>2, LoneSet DEF Writes
  <1> QED BY <1>3 DEF g, t

(* or cleared,                                                             *)
LEMMA LoneUnmark ==
  ASSUME NEW s, NEW F, Lone(s, F), NEW d
  PROVE  Writes(s, Unmark(s, d), F, [Top(s) EXCEPT !.data = @ \ d])
  <1> DEFINE g == [Top(s) EXCEPT !.data = @ \ d]  t == Unmark(s, d)
  <1>1. IsFrame(g)
    BY DEF Lone, IsFrame, Marks
  <1>2. IsMatch(t) /\ t.stack = Reset(s.stack, g) /\ t.status = s.status /\ t.from = s.from /\ Adds(s, t)
    BY DEF Lone, Body, IsMatch, Fields, Unmark, Top, Reset, Adds
  <1> HIDE DEF g, t
  <1>3. Writes(s, t, F, g)
    BY <1>1, <1>2, LoneSet DEF Writes
  <1> QED BY <1>3 DEF g, t

(* its counter is                                                          *)
LEMMA LoneNote ==
  ASSUME NEW s, NEW F, Lone(s, F), NEW c
  PROVE  Writes(s, Note(s, c), F, [Top(s) EXCEPT !.c = c])
  <1> DEFINE g == [Top(s) EXCEPT !.c = c]  t == Note(s, c)
  <1>1. IsFrame(g)
    BY DEF Lone, IsFrame, Marks
  <1>2. IsMatch(t) /\ t.stack = Reset(s.stack, g) /\ t.status = s.status /\ t.from = s.from /\ Adds(s, t)
    BY DEF Lone, Body, IsMatch, Fields, Note, Top, Reset, Adds
  <1> HIDE DEF g, t
  <1>3. Writes(s, t, F, g)
    BY <1>1, <1>2, LoneSet DEF Writes
  <1> QED BY <1>3 DEF g, t

(* and its square,                                                         *)
LEMMA LoneAim ==
  ASSUME NEW s, NEW F, Lone(s, F), NEW q
  PROVE  Writes(s, Aim(s, q), F, [Top(s) EXCEPT !.sq = q])
  <1> DEFINE g == [Top(s) EXCEPT !.sq = q]  t == Aim(s, q)
  <1>1. IsFrame(g)
    BY DEF Lone, IsFrame, Marks
  <1>2. IsMatch(t) /\ t.stack = Reset(s.stack, g) /\ t.status = s.status /\ t.from = s.from /\ Adds(s, t)
    BY DEF Lone, Body, IsMatch, Fields, Aim, Top, Reset, Adds
  <1> HIDE DEF g, t
  <1>3. Writes(s, t, F, g)
    BY <1>1, <1>2, LoneSet DEF Writes
  <1> QED BY <1>3 DEF g, t

(* or all of it.                                                           *)
LEMMA LoneSetTop ==
  ASSUME NEW s, NEW F, Lone(s, F), NEW g, IsFrame(g)
  PROVE  Writes(s, SetTop(s, g), F, g)
  <1> DEFINE t == SetTop(s, g)
  <1>1. IsMatch(t) /\ t.stack = Reset(s.stack, g) /\ t.status = s.status /\ t.from = s.from /\ Adds(s, t)
    BY DEF Lone, Body, IsMatch, Fields, SetTop, Reset, Adds
  <1> HIDE DEF t
  <1>2. Writes(s, t, F, g)
    BY <1>1, LoneSet DEF Writes
  <1> QED BY <1>2 DEF t

(* ------------------------- where a handler begins ---------------------- *)
(* Every handler finds its own frame on top of the others.                 *)
LEMMA BeginLone ==
  ASSUME PitchInv, CarryInv, m.status # "error"
  PROVE  Lone(m, {})
  <1> DEFINE S == m.stack
  <1>1. Board(m) /\ IsStack(S) /\ Len(S) > 0 /\ \A i \in 1 .. Len(S) : FrameOk(S[i])
    BY DEF PitchInv, PitchOk, Playing, Based, Settles, Settling
  <1>2. Len(S) \in Nat /\ Len(S) = Under + 1 /\ Under \in Nat
    BY <1>1 DEF IsStack, Under
  <1>3. IsFrame(Top(m))
    BY <1>1, <1>2 DEF FrameOk, IsFrame, Top
  <1>4. \A p \in m.has : p \in Slots /\ p = m.ball.carrier
    BY <1>1 DEF Board, Typed, BallAgrees
  <1>5. Body(m, {})
    BY <1>1, <1>4 DEF Board, Body, CarryInv, CarryOk, CarrierStands
  <1> QED BY <1>1, <1>2, <1>3, <1>5 DEF Lone, Stays

(* The frames below wait for no die, unless theirs is being rolled.        *)
LEMMA BelowRest ==
  ASSUME PitchInv, CarryInv, m.status # "error", Top(m).proc # "TEST"
  PROVE  \A i \in 1 .. Under : ~Due(m.stack[i])
  <1>1. Under \in Nat /\ Len(m.stack) = Under + 1
    BY BeginLone DEF Lone, Stays
  <1>2. CASE Settles(m)
    BY <1>1, <1>2 DEF Settles, Settling, Due, Top
  <1>3. CASE Playing(m)
    <2>1. RestTo(m.stack, Under)
      BY <1>1, <1>3 DEF Playing, Calm, Nursing, Woken, Testing, RestTo
    <2> QED BY <2>1 DEF RestTo, Resting
  <1> QED BY <1>2, <1>3 DEF PitchInv, PitchOk

(* --------------------------- where it ends ----------------------------- *)
(* What is shown of every handler.                                         *)
Carries(t) ==
  CarryOk(t) /\ t.from = m.from /\ (t.status # "error" => Stays(t))

(* A sound handler, other than of a foul, keeps the frames below fit.      *)
LEMMA EndCarried ==
  ASSUME PitchInv, CarryInv, m.status # "error", NEW t, Sound(t),
         Top(m).proc = "TEST" => t.stance = m.stance, t.status # "error" => FoulOk(t)
  PROVE  Carries(t)
  <1>1. Body(t, {}) /\ t.stance \in [Slots -> Stances]
    BY DEF Sound, Body
  <1>2. ASSUME t.status # "error"
        PROVE  CarrierStands(t) /\ Stays(t) /\ \A i \in 1 .. Len(t.stack) : Fit(t, t.stack[i])
    <2>1. CarrierStands(t)
      BY <1>1, <1>2 DEF Body, CarrierStands
    <2>2. /\ Stays(t) /\ Under \in Nat /\ Len(t.stack) \in Nat
          /\ \A i \in Upper(t) : Fit(t, t.stack[i])
      BY <1>2 DEF Sound, Stays, IsStack
    <2>3. Len(m.stack) = Under + 1
      BY BeginLone DEF Lone
    <2>4. \A i \in 1 .. Under : Fit(t, m.stack[i])
      <3>1. CASE Top(m).proc # "TEST"
        BY <3>1, BelowRest, RestFit
      <3>2. CASE Top(m).proc = "TEST"
        <4>1. \A i \in 1 .. Under : Fit(m, m.stack[i])
          BY <2>2, <2>3 DEF CarryInv, CarryOk
        <4>2. OnFeet(t) = OnFeet(m)
          BY <3>2 DEF OnFeet, Standing
        <4> QED BY <4>1, <4>2 DEF Fit
      <3> QED BY <3>1, <3>2
    <2>5. \A i \in 1 .. Len(t.stack) : i \in 1 .. Under \/ i \in Upper(t)
      BY <2>2 DEF Upper
    <2> QED BY <2>1, <2>2, <2>4, <2>5 DEF Stays
  <1> QED BY <1>1, <1>2 DEF Carries, CarryOk, Body

(* Unless somebody's injuries are being seen to, nobody is fouling.        *)
LEMMA EndSound ==
  ASSUME PitchInv, CarryInv, m.status # "error", NEW t, Sound(t),
         Top(m).proc = "TEST" => t.stance = m.stance, Top(m).proc \notin Harms
  PROVE  Carries(t)
  <1>1. Under \in Nat /\ Len(m.stack) = Under + 1 /\ Top(m) = m.stack[Under + 1]
    BY BeginLone DEF Lone, Stays, Top
  <1>2. \A i \in 1 .. Under : m.stack[i].proc # "FOUL"
    BY <1>1 DEF CarryInv, CarryOk, FoulOk
  <1>3. ASSUME t.status # "error" PROVE FoulOk(t)
    <2>1. Stays(t) /\ Len(t.stack) \in Nat /\ \A i \in Upper(t) : t.stack[i].proc # "FOUL"
      BY <1>3 DEF Sound, Stays, IsStack, Plain
    <2>2. \A i \in 1 .. Len(t.stack) : i \in 1 .. Under \/ i \in Upper(t)
      BY <1>1, <2>1 DEF Upper
    <2>3. \A i \in 1 .. Len(t.stack) : t.stack[i].proc # "FOUL"
      BY <1>2, <2>1, <2>2 DEF Stays
    <2> QED BY <2>3 DEF FoulOk
  <1> QED BY <1>3, EndCarried

(* The ends most handlers come to: nobody waits,                           *)
LEMMA EndHeld ==
  ASSUME PitchInv, CarryInv, m.status # "error", NEW t, Holding(t, {}),
         Top(m).proc \notin Harms \cup {"FOUL", "TEST"}
  PROVE  Carries(t)
  BY HoldSound, EndSound

(* its own frame is still there,                                           *)
LEMMA EndLone ==
  ASSUME PitchInv, CarryInv, m.status # "error", NEW t, Lone(t, {}), Fit(t, Top(t)),
         Top(t).proc # "FOUL", Top(m).proc \notin Harms \cup {"FOUL", "TEST"}
  PROVE  Carries(t)
  BY LoneSound, EndSound

(* and waits for a die.                                                    *)
LEMMA EndTest ==
  ASSUME PitchInv, CarryInv, m.status # "error", NEW s, Lone(s, {}), Fit(s, Top(s)),
         Top(s).proc # "FOUL", Top(m).proc \notin Harms \cup {"FOUL", "TEST"},
         NEW p, NEW k, NEW o
  PROVE  Carries(Test(s, p, k, o))
  BY LoneTest, EndSound

(* A frame of another procedure gives nobody the ball.                     *)
LEMMA OtherFit ==
  ASSUME NEW s, NEW f, f.proc \notin {"CATCH", "PASS", "MOVE"}
  PROVE  Fit(s, f)
  BY DEF Fit

(* So its handler may leave it on top.                                     *)
LEMMA EndOther ==
  ASSUME PitchInv, CarryInv, m.status # "error", NEW t, Lone(t, {}),
         Top(t).proc \notin {"CATCH", "PASS", "MOVE", "FOUL"},
         Top(m).proc \notin Harms \cup {"FOUL", "TEST"}
  PROVE  Carries(t)
  BY OtherFit, EndLone

(* An edit of the frame keeps its procedure.                               *)
LEMMA WritesOn ==
  ASSUME NEW s, NEW F, Lone(s, F), NEW x,
         NEW t \in {Phase(s, x), Mark(s, x), Unmark(s, x), Note(s, x), Aim(s, x)}
  PROVE  /\ Lone(t, F) /\ Top(t).proc = Top(s).proc /\ Top(t).a = Top(s).a
         /\ Adds(s, t) /\ t.status = s.status
  <1>1. IsFrame(Top(s))
    BY DEF Lone
  <1>2. PICK g : Writes(s, t, F, g) /\ g.proc = Top(s).proc /\ g.a = Top(s).a
    <2>1. CASE t = Phase(s, x)
      <3> DEFINE g == [Top(s) EXCEPT !.phase = x]
      <3>1. g.proc = Top(s).proc /\ g.a = Top(s).a /\ Writes(s, t, F, g)
        BY <1>1, <2>1, LonePhase DEF IsFrame, Marks
      <3> QED BY <3>1
    <2>2. CASE t = Mark(s, x)
      <3> DEFINE g == [Top(s) EXCEPT !.data = @ \cup x]
      <3>1. g.proc = Top(s).proc /\ g.a = Top(s).a /\ Writes(s, t, F, g)
        BY <1>1, <2>2, LoneMark DEF IsFrame, Marks
      <3> QED BY <3>1
    <2>3. CASE t = Unmark(s, x)
      <3> DEFINE g == [Top(s) EXCEPT !.data = @ \ x]
      <3>1. g.proc = Top(s).proc /\ g.a = Top(s).a /\ Writes(s, t, F, g)
        BY <1>1, <2>3, LoneUnmark DEF IsFrame, Marks
      <3> QED BY <3>1
    <2>4. CASE t = Note(s, x)
      <3> DEFINE g == [Top(s) EXCEPT !.c = x]
      <3>1. g.proc = Top(s).proc /\ g.a = Top(s).a /\ Writes(s, t, F, g)
        BY <1>1, <2>4, LoneNote DEF IsFrame, Marks
      <3> QED BY <3>1
    <2>5. CASE t = Aim(s, x)
      <3> DEFINE g == [Top(s) EXCEPT !.sq = x]
      <3>1. g.proc = Top(s).proc /\ g.a = Top(s).a /\ Writes(s, t, F, g)
        BY <1>1, <2>5, LoneAim DEF IsFrame, Marks
      <3> QED BY <3>1
    <2> QED BY <2>1, <2>2, <2>3, <2>4, <2>5
  <1> QED BY <1>2 DEF Writes

(* ---------------------------------- BLOCK ------------------------------ *)
(* Trickster.                                                              *)
LEMMA BlockTrickCarries ==
  ASSUME PitchInv, CarryInv, BlockTrick
  PROVE  Carries(m')
  <1>1. Top(m).proc = "BLOCK" /\ m.status # "error"
    BY DEF BlockTrick, Runs
  <1>2. Holding(Pop(m), {})
    BY <1>1, BeginLone, LonePop
  <1>3. PICK q : m' = Carry(Place(Pop(m), Top(m).b, q), Top(m).b)
    BY DEF BlockTrick
  <1>4. Holding(m', {})
    BY <1>2, <1>3, HoldPlace, HoldCarry
  <1> QED BY <1>1, <1>4, EndHeld DEF Harms

(* Dump-Off: to somebody who stands.                                       *)
LEMMA BlockDumpCarries ==
  ASSUME PitchInv, CarryInv, BlockDump
  PROVE  Carries(m')
  <1>1. Top(m).proc = "BLOCK" /\ m.status # "error"
    BY DEF BlockDump, Runs
  <1>2. Holding(m, {})
    BY <1>1, BeginLone, LoneHolds DEF Due
  <1> DEFINE d == DropBall(m)
  <1>3. PICK r \in Dump(m, Top(m)) :
          m' = GiveBall(d, r) \/ \E q : m' = Bounce(BallTo(d, q), q)
    BY DEF BlockDump
  <1>4. r \in OnFeet(m)
    BY <1>3 DEF Dump, CanCatch, ExertsTz, OnFeet
  <1>5. Holding(d, {}) /\ d.stance = m.stance
    BY <1>2, HoldDrop
  <1> HIDE DEF d
  <1>6. r \in OnFeet(d)
    BY <1>4, <1>5 DEF OnFeet, Standing
  <1>7. Holding(m', {})
    BY <1>3, <1>5, <1>6, HoldGive, HoldTo, HoldBounce
  <1> QED BY <1>1, <1>7, EndHeld DEF Harms

(* The dice are rolled.                                                    *)
LEMMA BlockRollCarries ==
  ASSUME PitchInv, CarryInv, BlockRoll
  PROVE  Carries(m')
  <1> DEFINE f == Top(m)  team == TeamOf(f.a)
             fans == IF team = m.active THEN [m EXCEPT !.cheer = @ \ {team}] ELSE m
             G(w) == [f EXCEPT !.data = (@ \cap {"blitz", "frenzy2"}) \cup Flag(w, "def_chooses")]
  <1>1. f.proc = "BLOCK" /\ m.status # "error"
    BY DEF BlockRoll, Runs
  <1>2. Lone(m, {})
    BY <1>1, BeginLone
  <1>3. \E w, n, who : m' = Decide(Phase(SetTop(fans, G(w)), n), who)
    BY Zenon DEF BlockRoll
  <1>4. Lone(fans, {}) /\ fans.status # "error"
    <2>1. /\ IsMatch(fans) /\ fans.from = m.from /\ fans.stance = m.stance
          /\ fans.has = m.has /\ fans.ball = m.ball /\ Kept(m, fans)
      BY <1>2 DEF Lone, Body, IsMatch, Fields, Kept
    <2> HIDE DEF fans
    <2> QED BY <1>1, <1>2, <2>1, SameOn DEF Kept
  <1>5. \A w : IsFrame(G(w)) /\ G(w).proc = "BLOCK"
    BY <1>1, <1>2 DEF Lone, IsFrame, Marks
  <1> HIDE DEF f, fans, G
  <1>6. PICK w, n, who : m' = Decide(Phase(SetTop(fans, G(w)), n), who)
    BY <1>3
  <1> DEFINE s == SetTop(fans, G(w))  t == Phase(s, n)
  <1>7. Lone(s, {}) /\ Top(s).proc = "BLOCK" /\ s.status # "error"
    BY <1>4, <1>5, LoneSetTop DEF Writes
  <1> HIDE DEF s
  <1>8. Lone(t, {}) /\ Top(t).proc = "BLOCK" /\ t.status # "error"
    BY <1>7, WritesOn
  <1>9. m' = Decide(t, who)
    BY <1>6 DEF s
  <1> HIDE DEF t
  <1>10. Lone(m', {}) /\ Top(m').proc = "BLOCK"
    BY <1>8, <1>9, HoldDecide
  <1> QED BY <1>1, <1>10, EndOther DEF f, Harms

(* A re-roll, or none.                                                     *)
LEMMA BlockRerollCarries ==
  ASSUME PitchInv, CarryInv, BlockReroll
  PROVE  Carries(m')
  <1>1. Top(m).proc = "BLOCK" /\ m.status # "error"
    BY DEF BlockReroll, Asks
  <1>2. Lone(m, {})
    BY <1>1, BeginLone
  <1> DEFINE s == [m EXCEPT !.rerolls[TeamOf(Top(m).a)] = @ - 1]
  <1>3. m' = Answered(Phase(m, 2)) \/ m' = Answered(Phase(Mark(s, {"rr_used"}), 2))
    BY DEF BlockReroll
  <1>4. Lone(s, {}) /\ Top(s).proc = "BLOCK" /\ s.status # "error"
    <2>1. /\ IsMatch(s) /\ s.from = m.from /\ s.stance = m.stance
          /\ s.has = m.has /\ s.ball = m.ball /\ Kept(m, s)
      BY <1>2 DEF Lone, Body, IsMatch, Fields, Kept
    <2> HIDE DEF s
    <2> QED BY <1>1, <1>2, <2>1, SameOn DEF Kept
  <1> HIDE DEF s
  <1>5. ASSUME NEW t, Lone(t, {}), Top(t).proc = "BLOCK", t.status # "error"
        PROVE  LET u == Answered(Phase(t, 2)) IN Lone(u, {}) /\ Top(u).proc = "BLOCK"
    <2> DEFINE u == Phase(t, 2)
    <2>1. Lone(u, {}) /\ Top(u).proc = "BLOCK" /\ u.status # "error"
      BY <1>5, WritesOn
    <2> HIDE DEF u
    <2>2. Lone(Answered(u), {}) /\ Top(Answered(u)).proc = "BLOCK"
      BY <2>1, HoldAnswered
    <2> QED BY <2>2 DEF u
  <1>6. LET t == Mark(s, {"rr_used"}) IN
        Lone(t, {}) /\ Top(t).proc = "BLOCK" /\ t.status # "error"
    BY <1>4, WritesOn
  <1>7. Lone(m', {}) /\ Top(m').proc = "BLOCK"
    BY <1>1, <1>2, <1>3, <1>5, <1>6
  <1> QED BY <1>1, <1>7, EndOther DEF Harms

(* A coach is asked.                                                       *)
LEMMA BlockAskCarries ==
  ASSUME PitchInv, CarryInv, BlockAsk
  PROVE  Carries(m')
  <1>1. Top(m).proc = "BLOCK" /\ m.status # "error" /\ \E who : m' = Decide(m, who)
    BY DEF BlockAsk, Runs
  <1>2. Lone(m', {}) /\ Top(m').proc = "BLOCK"
    BY <1>1, BeginLone, HoldDecide
  <1> QED BY <1>1, <1>2, EndOther DEF Harms

(* Both go down, each unless he has Block.                                 *)
LEMMA HoldBothFall ==
  ASSUME NEW s, Lone(s, {}), NEW f
  PROVE  Holding(BothFall(s, f), {}) /\ Holding(ToPush(s, f, TRUE), {}) /\ Holding(ToPush(s, f, FALSE), {})
  <1>1. Holding(Pop(s), {})
    BY LonePop
  <1> DEFINE a == IF Falls(s, f.a) THEN KnockDown(Pop(s), f.a, "block", f.b) ELSE Pop(s)
  <1>2. Holding(a, {})
    BY <1>1, HoldDown
  <1> HIDE DEF a
  <1>3. Holding(BothFall(s, f), {})
    BY <1>2, HoldDown DEF BothFall, a
  <1>4. Holding(ToPush(s, f, TRUE), {}) /\ Holding(ToPush(s, f, FALSE), {})
    BY <1>1, HoldFrame DEF ToPush
  <1> QED BY <1>3, <1>4

(* A wrestled player goes down and leaves the ball.                        *)
LEMMA HoldWrestleDown ==
  ASSUME NEW s, Holding(s, {}), NEW p
  PROVE  Holding(WrestleDown(s, p), {})
  <1> DEFINE u == PlaceProne(s, p)  down == [u EXCEPT !.rooted = @ \ {p}]
  <1>1. Holding(u, {} \cup {p})
    BY HoldLaid DEF PlaceProne, Stances
  <1> HIDE DEF u
  <1>2. Holding(down, {p})
    <2>1. /\ IsMatch(down) /\ down.from = u.from /\ down.stance = u.stance
          /\ down.has = u.has /\ down.ball = u.ball /\ Kept(u, down)
      BY <1>1 DEF Holding, Body, IsMatch, Fields, Kept
    <2> HIDE DEF down
    <2>2. {} \cup {p} = {p}
      OBVIOUS
    <2> QED BY <1>1, <2>1, <2>2, SameOn
  <1> DEFINE t == TurnoverIf(down, p \in s.has /\ TeamOf(p) = s.active)
  <1> HIDE DEF down
  <1>3. Holding(t, {p})
    BY <1>2, HoldTurnoverIf
  <1> HIDE DEF t
  <1>4. Holding(Spill(t, p), {})
    BY <1>3, HoldSpill
  <1> QED BY <1>4 DEF WrestleDown, t, down, u

(* A die is chosen.                                                        *)
LEMMA ChooseDieCarries ==
  ASSUME PitchInv, CarryInv, ChooseDie
  PROVE  Carries(m')
  <1> DEFINE s == Answered(m)  f == Top(m)
  <1>1. f.proc = "BLOCK" /\ m.status # "error"
    BY DEF ChooseDie, Asks
  <1>2. Lone(s, {}) /\ Top(s).proc = "BLOCK" /\ s.status # "error"
    BY <1>1, BeginLone, HoldAnswered
  <1>3. PICK face : m' = Resolved(s, f, face)
    BY DEF ChooseDie
  <1>4. \/ m' = KnockDown(Pop(s), f.a, "block", f.b)
        \/ m' = ToPush(s, f, FALSE) \/ m' = ToPush(s, f, TRUE)
        \/ \E n, who : m' = Decide(Phase(s, n), who)
        \/ m' = BothFall(s, f)
    <2> DEFINE pow == face = "pow" \/ (face = "stumble" /\ ~(/\ Has(s, f.b, "DODGE") /\ f.b \notin s.distracted
                /\ ~Has(s, f.a, "TACKLE")))
    <2>1. pow \in {TRUE, FALSE}
      OBVIOUS
    <2>2. m' = ToPush(s, f, pow) => m' = ToPush(s, f, FALSE) \/ m' = ToPush(s, f, TRUE)
      BY <2>1
    <2> HIDE DEF s, f
    <2> QED BY <1>3, <2>2 DEF Resolved
  <1> HIDE DEF s, f
  <1>5. CASE \E n, who : m' = Decide(Phase(s, n), who)
    <2>1. Lone(m', {}) /\ Top(m').proc = "BLOCK"
      BY <1>2, <1>5, WritesOn, HoldDecide
    <2> QED BY <1>1, <2>1, EndOther DEF f, Harms
  <1>6. CASE ~\E n, who : m' = Decide(Phase(s, n), who)
    <2>1. Holding(Pop(s), {})
      BY <1>2, LonePop
    <2>2. Holding(KnockDown(Pop(s), f.a, "block", f.b), {})
      BY <2>1, HoldDown
    <2>3. Holding(m', {})
      BY <1>2, <1>4, <1>6, <2>2, HoldBothFall
    <2> QED BY <1>1, <2>3, EndHeld DEF f, Harms
  <1> QED BY <1>5, <1>6

(* Wrestle, or not.                                                        *)
LEMMA WrestleChoiceCarries ==
  ASSUME PitchInv, CarryInv, WrestleChoice
  PROVE  Carries(m')
  <1> DEFINE s == Answered(m)  f == Top(m)
  <1>1. f.proc = "BLOCK" /\ m.status # "error"
    BY DEF WrestleChoice, Asks
  <1>2. Lone(s, {}) /\ Top(s).proc = "BLOCK" /\ s.status # "error"
    BY <1>1, BeginLone, HoldAnswered
  <1>3. m' = BothWrestle(s, f) \/ m' = Phase(s, 5) \/ m' = BothFall(s, f)
    BY DEF WrestleChoice
  <1> HIDE DEF s, f
  <1>4. CASE m' = Phase(s, 5)
    <2>1. Lone(m', {}) /\ Top(m').proc = "BLOCK"
      BY <1>2, <1>4, WritesOn
    <2> QED BY <1>1, <2>1, EndOther DEF f, Harms
  <1>5. CASE m' = BothWrestle(s, f)
    <2>1. Holding(m', {})
      BY <1>2, <1>5, LonePop, HoldWrestleDown DEF BothWrestle
    <2> QED BY <1>1, <2>1, EndHeld DEF f, Harms
  <1>6. CASE m' = BothFall(s, f)
    BY <1>1, <1>2, <1>6, HoldBothFall, EndHeld DEF f, Harms
  <1> QED BY <1>3, <1>4, <1>5, <1>6

(* ---------------------------------- PUSH ------------------------------- *)
(* The handler's own frame is on top, with its procedure and its player.   *)
Own(s) == Lone(s, {}) /\ Top(s).proc = Top(m).proc /\ Top(s).a = Top(m).a

(* It is when the handler begins,                                          *)
LEMMA OwnBegin ==
  ASSUME PitchInv, CarryInv, m.status # "error"
  PROVE  Own(m)
  BY BeginLone DEF Own

(* while it is edited, asked about or answered,                            *)
LEMMA OwnOn ==
  ASSUME NEW s, Own(s), NEW x
  PROVE  /\ Own(Phase(s, x)) /\ Own(Mark(s, x)) /\ Own(Unmark(s, x)) /\ Own(Note(s, x))
         /\ Own(Aim(s, x)) /\ Own(Answered(s)) /\ Own(Decide(s, x))
  <1>1. ASSUME NEW t \in {Phase(s, x), Mark(s, x), Unmark(s, x), Note(s, x), Aim(s, x)}
        PROVE  Own(t)
    BY WritesOn DEF Own
  <1>2. Own(Answered(s)) /\ Own(Decide(s, x))
    BY HoldAnswered, HoldDecide DEF Own, Lone
  <1> QED BY <1>1, <1>2

(* and while something else is written down.                               *)
LEMMA OwnSame ==
  ASSUME NEW s, Own(s), NEW t, IsMatch(t), t.from = s.from, t.stance = s.stance,
         t.has = s.has, t.ball = s.ball, Kept(s, t)
  PROVE  Own(t)
  BY SameOn DEF Own

(* A handler that leaves it for later is through.                          *)
LEMMA OwnEnd ==
  ASSUME PitchInv, CarryInv, NEW t, Own(t),
         Top(m).proc \notin Harms \cup {"FOUL", "TEST", "CATCH", "PASS", "MOVE"}
  PROVE  m.status # "error" => Carries(t)
  BY EndOther DEF Own

(* A push that waits for no rush is like any other frame.                  *)
LEMMA PushHolds ==
  ASSUME NEW s, Own(s), Top(m).proc = "PUSH", Top(s).phase # 6
  PROVE  Holding(s, {})
  BY LoneHolds DEF Own, Due

(* The push begins, and its player's coach is asked;                       *)
LEMMA PushBeginCarries ==
  ASSUME PitchInv, CarryInv, PushBegin
  PROVE  Carries(m')
  <1>1. Top(m).proc = "PUSH" /\ m.status # "error"
    BY DEF PushBegin, Runs
  <1>2. Own(m)
    BY <1>1, OwnBegin
  <1>3. Own(Phase(Mark(m, {"stood_firm"}), 5)) /\ \A team : Own(Decide(Phase(m, 4), team))
    <2>1. Own(Mark(m, {"stood_firm"})) /\ Own(Phase(m, 4))
      BY <1>2, OwnOn
    <2> QED BY <2>1, OwnOn
  <1>4. \A team : Own(Decide(m, team))
    BY <1>2, OwnOn
  <1>5. Own(m')
    BY <1>3, <1>4 DEF PushBegin
  <1> QED BY <1>1, <1>5, OwnEnd DEF Harms

(* he stands firm, or not;                                                 *)
LEMMA StandFirmCarries ==
  ASSUME PitchInv, CarryInv, StandFirm
  PROVE  Carries(m')
  <1>1. Top(m).proc = "PUSH" /\ m.status # "error"
    BY DEF StandFirm, Asks
  <1>2. \A d : Own(Mark(m, d))
    BY <1>1, OwnBegin, OwnOn
  <1>3. \A d, n : Own(Phase(Mark(m, d), n))
    BY <1>2, OwnOn
  <1>4. \A d, n : Own(Answered(Phase(Mark(m, d), n)))
    BY <1>3, OwnOn
  <1>5. Own(m')
    BY <1>4 DEF StandFirm
  <1> QED BY <1>1, <1>5, OwnEnd DEF Harms

(* a square is chosen,                                                     *)
LEMMA OwnChosen ==
  ASSUME NEW s, Own(s), NEW q, NEW n
  PROVE  Own(Chosen(s, q, n)) /\ Top(Chosen(s, q, n)).phase = n
  <1> DEFINE u == Answered(s)  v == Aim(u, q)  t == Phase(v, n)
  <1>1. Own(u) /\ Own(v) /\ Len(v.stack) = Len(u.stack) /\ u.stack = s.stack
    <2>1. Own(u) /\ u.stack = s.stack
      <3>1. Own(u)
        BY OwnOn
      <3>2. u.stack = s.stack
        BY DEF Own, Lone, Body, Answered, IsMatch, Fields
      <3> QED BY <3>1, <3>2
    <2> HIDE DEF u
    <2>2. Own(v)
      BY <2>1, OwnOn
    <2> QED BY <2>1, <2>2 DEF Own, Lone
  <1>2. Chosen(s, q, n) = t
    <2>1. IsMatch(u)
      BY <1>1 DEF Own, Lone, Body
    <2>2. Chosen(s, q, n) = [v EXCEPT !.stack[Len(u.stack)].phase = n]
      BY <1>1, <2>1, Zenon DEF Chosen, Aim
    <2> QED BY <1>1, <2>2, Zenon DEF Phase
  <1> HIDE DEF u, v
  <1>3. Own(t)
    BY <1>1, OwnOn
  <1>4. Writes(v, t, {}, [Top(v) EXCEPT !.phase = n])
    BY <1>1, LonePhase DEF Own
  <1>5. Top(t).phase = n
    BY <1>1, <1>4 DEF Writes, Own, Lone, IsFrame, Marks
  <1> QED BY <1>2, <1>3, <1>5

(* his square is known, or the crowd's;                                    *)
LEMMA PushToCarries ==
  ASSUME PitchInv, CarryInv, PushTo \/ PushCrowd
  PROVE  Carries(m')
  <1>1. Top(m).proc = "PUSH" /\ m.status # "error"
    BY DEF PushTo, PushCrowd, Asks
  <1>2. Own(m)
    BY <1>1, OwnBegin
  <1>3. Own(Mark(m, {"crowd"}))
    BY <1>2, OwnOn
  <1>4. Own(Phase(Mark(m, {"crowd"}), 2))
    BY <1>3, OwnOn
  <1>5. Own(Answered(Phase(Mark(m, {"crowd"}), 2)))
    BY <1>4, OwnOn
  <1>6. \A q : Own(Chosen(m, q, 2))
    BY <1>2, OwnChosen
  <1>7. Own(m')
    BY <1>5, <1>6 DEF PushTo, PushCrowd
  <1> QED BY <1>1, <1>7, OwnEnd DEF Harms

(* or somebody is in the way, and is pushed first,                         *)
LEMMA PushChainCarries ==
  ASSUME PitchInv, CarryInv, PushChain
  PROVE  Carries(m')
  <1>1. Top(m).proc = "PUSH" /\ m.status # "error"
    BY DEF PushChain, Asks
  <1>2. PICK q : m' = Push(Chosen(m, q, 1), [Frame("PUSH", Top(m).b, SlotAt(m, q), m.at[Top(m).b])
                                               EXCEPT !.data = {"chain"}])
    BY Zenon DEF PushChain
  <1> DEFINE s == Chosen(m, q, 1)
  <1>3. Holding(s, {})
    BY <1>1, OwnBegin, OwnChosen, PushHolds
  <1> HIDE DEF s
  <1>4. Holding(Push(s, [Frame("PUSH", Top(m).b, SlotAt(m, q), m.at[Top(m).b])
                           EXCEPT !.data = {"chain"}]), {})
    BY <1>3, HoldFrame
  <1> QED BY <1>1, <1>2, <1>4, EndHeld DEF Harms, s

(* and the push comes back to its own player.                              *)
LEMMA PushChainedCarries ==
  ASSUME PitchInv, CarryInv, PushChained
  PROVE  Carries(m')
  <1>1. Top(m).proc = "PUSH" /\ m.status # "error"
    BY DEF PushChained, Runs
  <1>2. Own(m)
    BY <1>1, OwnBegin
  <1>3. Own(Phase(m, 2)) /\ Own(Mark(m, {"stood_firm"}))
    BY <1>2, OwnOn
  <1>4. Own(Phase(Mark(m, {"stood_firm"}), 5))
    BY <1>3, OwnOn
  <1>5. Own(m')
    BY <1>3, <1>4 DEF PushChained
  <1> QED BY <1>1, <1>5, OwnEnd DEF Harms

(* The frame goes back to the pushed player's square.                      *)
LEMMA PushBack ==
  ASSUME PitchInv, CarryInv, Runs("PUSH", 2)
  PROVE  Holding(StepBack(m, Top(m)), {}) /\ Adds(m, StepBack(m, Top(m)))
  <1> DEFINE f == Top(m)  g == [f EXCEPT !.phase = 3, !.sq = m.at[f.b]]
  <1>1. Lone(m, {}) /\ f.proc = "PUSH"
    BY BeginLone DEF Runs
  <1>2. StepBack(m, f) = SetTop(m, g)
    <2>1. IsMatch(m)
      BY <1>1 DEF Lone, Body
    <2> QED BY <2>1, ZenonT(30) DEF IsMatch, Fields, StepBack, Phase, SetTop, Top
  <1>3. IsFrame(g) /\ g.proc = "PUSH" /\ g.phase = 3
    BY <1>1 DEF Lone, IsFrame, Marks
  <1> HIDE DEF g, f
  <1>4. Writes(m, SetTop(m, g), {}, g)
    BY <1>1, <1>3, LoneSetTop
  <1>5. Holding(SetTop(m, g), {})
    BY <1>3, <1>4, LoneHolds DEF Writes, Due
  <1> QED BY <1>2, <1>4, <1>5 DEF Writes, f

(* A player pushed into the crowd leaves the ball behind;                  *)
LEMMA PushSurfCarries ==
  ASSUME PitchInv, CarryInv, PushSurf
  PROVE  Carries(m')
  <1> DEFINE f == Top(m)  p == f.b  held == p \in m.has
             b == StepBack(m, f)
             s == TurnoverIf(b, TeamOf(p) = m.active)
             d == IF held THEN DropBall(s) ELSE s
             off == Remove(d, p, "reserves")
             hurt == Push(off, [Frame("INJURY", p, 1, NoSq) EXCEPT !.c = NoPlayer])
             t == IF held THEN Push(hurt, Frame("THROW_IN", 0, 0, m.at[p])) ELSE hurt
  <1>1. m' = t
    BY DEF PushSurf
  <1>2. Holding(b, {}) /\ f.proc = "PUSH" /\ m.status # "error"
    BY PushBack DEF PushSurf, Runs
  <1> HIDE DEF b
  <1>3. Holding(s, {})
    BY <1>2, HoldTurnoverIf
  <1> HIDE DEF s
  <1>4. Holding(d, {})
    BY <1>3, HoldDrop
  <1> HIDE DEF d
  <1>5. Holding(off, {})
    BY <1>4, HoldRemove
  <1> HIDE DEF off
  <1>6. Holding(hurt, {})
    BY <1>5, HoldFrame
  <1> HIDE DEF hurt
  <1>7. Holding(t, {})
    BY <1>6, HoldFrame
  <1> QED BY <1>1, <1>2, <1>7, EndHeld DEF Harms

(* one who is moved takes it along, unless it is stripped from him.        *)
LEMMA PushMoveCarries ==
  ASSUME PitchInv, CarryInv, PushMove
  PROVE  Carries(m')
  <1> DEFINE f == Top(m)  p == f.b  q == f.sq
             b == StepBack(m, f)  moved == Place(b, p, q)
             gouged == [moved EXCEPT !.gouged = @ \cup {p}]
  <1>1. PICK s \in {moved, gouged} : m' \in {Bounce(DropBall(s), q), Carry(s, p), Bounce(s, q), s}
    BY DEF PushMove
  <1>2. Holding(b, {}) /\ f.proc = "PUSH" /\ m.status # "error"
    BY PushBack DEF PushMove, Runs
  <1> HIDE DEF b, p, q
  <1>3. Holding(moved, {})
    BY <1>2, HoldPlace
  <1> HIDE DEF moved
  <1>4. Holding(gouged, {})
    <2>1. /\ IsMatch(gouged) /\ gouged.from = moved.from /\ gouged.stance = moved.stance
          /\ gouged.has = moved.has /\ gouged.ball = moved.ball /\ Kept(moved, gouged)
      BY <1>3 DEF Holding, Body, IsMatch, Fields, Kept
    <2> HIDE DEF gouged
    <2> QED BY <1>3, <2>1, SameOn
  <1>5. Holding(s, {})
    BY <1>3, <1>4
  <1>6. Holding(DropBall(s), {}) /\ Holding(Carry(s, p), {})
    BY <1>5, HoldDrop, HoldCarry
  <1>7. Holding(Bounce(DropBall(s), q), {}) /\ Holding(Bounce(s, q), {})
    BY <1>5, <1>6, HoldBounce
  <1>8. Holding(m', {})
    BY <1>1, <1>5, <1>6, <1>7
  <1> QED BY <1>2, <1>8, EndHeld DEF Harms

(* The pusher follows up, or does not;                                     *)
LEMMA PushFollowCarries ==
  ASSUME PitchInv, CarryInv, PushFollow \/ FollowUp
  PROVE  Carries(m')
  <1> DEFINE f == Top(m)  s == FollowTo(m, f)
  <1>1. f.proc = "PUSH" /\ m.status # "error"
    BY DEF PushFollow, FollowUp, Runs, Asks
  <1>2. \/ m' \in {Phase(m, 5), Phase(s, 5), Answered(Phase(m, 5)), Answered(Phase(s, 5))}
        \/ \E team : m' = Decide(m, team)
    BY DEF PushFollow, FollowUp
  <1>3. Own(m)
    BY <1>1, OwnBegin
  <1>4. Own(s)
    <2> DEFINE u == Place(m, f.a, f.sq)
    <2>1. Lone(u, {}) /\ Top(u) = Top(m)
      BY <1>3, HoldPlace DEF Own
    <2> HIDE DEF u
    <2>2. Lone(Carry(u, f.a), {}) /\ Top(Carry(u, f.a)) = Top(u)
      BY <2>1, HoldCarry
    <2> QED BY <2>1, <2>2 DEF Own, FollowTo, u
  <1> HIDE DEF s
  <1>5. Own(Phase(m, 5)) /\ Own(Phase(s, 5)) /\ \A team : Own(Decide(m, team))
    BY <1>3, <1>4, OwnOn
  <1>6. Own(Answered(Phase(m, 5))) /\ Own(Answered(Phase(s, 5)))
    BY <1>5, OwnOn
  <1>7. Own(m')
    BY <1>2, <1>5, <1>6
  <1> QED BY <1>1, <1>7, OwnEnd DEF Harms

(* what becomes of the pushed player, or a rush for the second block,      *)
LEMMA PushEndCarries ==
  ASSUME PitchInv, CarryInv, PushEnd
  PROVE  Carries(m')
  <1> DEFINE f == Top(m)  s == Pop(m)  six == Phase(m, 6)
             due == [six EXCEPT !.rushes[f.a] = @ + 1]
             on == [s EXCEPT !.moved[f.a] = @ + 1]
  <1>1. f.proc = "PUSH" /\ m.status # "error"
    BY DEF PushEnd, Runs
  <1>2. \/ m' = Test(due, f.a, "RUSH", NoPlayer)
        \/ m' \in {s, KnockDown(s, f.b, "block", f.a), CheckTd(s),
                   BlockAgain(on, f, {"blitz"}), BlockAgain(s, f, {})}
    BY DEF PushEnd
  <1>3. Own(m)
    BY <1>1, OwnBegin
  <1>4. CASE m' = Test(due, f.a, "RUSH", NoPlayer)
    <2>1. Own(six)
      BY <1>3, OwnOn
    <2> HIDE DEF six
    <2>2. /\ IsMatch(due) /\ due.from = six.from /\ due.stance = six.stance
          /\ due.has = six.has /\ due.ball = six.ball /\ Kept(six, due)
      BY <2>1 DEF Own, Lone, Body, IsMatch, Fields, Kept
    <2> HIDE DEF due
    <2>3. Own(due)
      BY <2>1, <2>2, OwnSame
    <2>4. Fit(due, Top(due)) /\ Lone(due, {}) /\ Top(due).proc = "PUSH"
      BY <1>1, <2>3, OtherFit DEF Own
    <2> QED BY <1>1, <1>4, <2>4, EndTest DEF Harms
  <1>5. CASE m' \in {s, KnockDown(s, f.b, "block", f.a), CheckTd(s),
                     BlockAgain(on, f, {"blitz"}), BlockAgain(s, f, {})}
    <2>1. Holding(s, {})
      BY <1>3, LonePop DEF Own
    <2> HIDE DEF s, f
    <2>2. Holding(on, {})
      <3>1. /\ IsMatch(on) /\ on.from = s.from /\ on.stance = s.stance
            /\ on.has = s.has /\ on.ball = s.ball /\ Kept(s, on)
        BY <2>1 DEF Holding, Body, IsMatch, Fields, Kept
      <3> HIDE DEF on
      <3> QED BY <2>1, <3>1, SameOn
    <2> HIDE DEF on
    <2>3. Holding(BlockAgain(on, f, {"blitz"}), {}) /\ Holding(BlockAgain(s, f, {}), {})
      BY <2>1, <2>2, HoldFrame DEF BlockAgain
    <2>4. Holding(KnockDown(s, f.b, "block", f.a), {}) /\ Holding(CheckTd(s), {})
      BY <2>1, HoldDown, HoldTd
    <2>5. Holding(m', {})
      BY <1>5, <2>1, <2>3, <2>4
    <2> QED BY <1>1, <2>5, EndHeld DEF Harms, f
  <1> QED BY <1>2, <1>4, <1>5

(* which comes to a block or a fall.                                       *)
LEMMA FrenzyRushCarries ==
  ASSUME PitchInv, CarryInv, FrenzyRush
  PROVE  Carries(m')
  <1> DEFINE f == Top(m)  s == Pop(m)
  <1>1. f.proc = "PUSH" /\ m.status # "error"
    BY DEF FrenzyRush, Runs
  <1>2. Holding(s, {})
    BY <1>1, BeginLone, LonePop
  <1>3. m' \in {BlockAgain(s, f, {"blitz"}), KnockDown(s, f.a, "rush", NoPlayer)}
    BY DEF FrenzyRush
  <1> HIDE DEF s, f
  <1>4. Holding(BlockAgain(s, f, {"blitz"}), {}) /\ Holding(KnockDown(s, f.a, "rush", NoPlayer), {})
    BY <1>2, HoldFrame, HoldDown DEF BlockAgain
  <1> QED BY <1>1, <1>3, <1>4, EndHeld DEF Harms, f

(* Kept by everything in a block and its pushes.                           *)
LEMMA BlockCarries ==
  ASSUME PitchInv, CarryInv, BlockNext
  PROVE  Carries(m')
  BY BlockTrickCarries, BlockDumpCarries, BlockRollCarries, BlockRerollCarries,
     BlockAskCarries, ChooseDieCarries, WrestleChoiceCarries, PushBeginCarries,
     StandFirmCarries, PushToCarries, PushChainCarries, PushChainedCarries, PushSurfCarries,
     PushMoveCarries, PushFollowCarries, PushEndCarries, FrenzyRushCarries DEF BlockNext

(* ------------------------------- KNOCKDOWN ----------------------------- *)
(* A player who goes down loses the ball first;                            *)
LEMMA HoldDowned ==
  ASSUME NEW s, Holding(s, {}), NEW f
  PROVE  Holding(Downed(s, f), {})
  <1> DEFINE p == f.a
             u == PlaceProne(s, p)
             prone == [u EXCEPT !.rooted = @ \ {p}]
             s1 == TurnoverIf(prone, IF f.k = "ttm" THEN p \in s.has ELSE TeamOf(p) = s.active)
             safe == IF p \in s.has /\ Has(s, p, "SAFE_PAIR_OF_HANDS") THEN Free(s, p) ELSE {}
             s2 == IF safe # {} THEN BallTo(DropBall(s1), First(safe)) ELSE Spill(s1, p)
  <1>1. Holding(u, {} \cup {p})
    BY HoldLaid DEF PlaceProne, Stances
  <1>2. Downed(s, f) = IF OnPitch(s, p) THEN Armour(s2, p, "hit", f.c) ELSE s
    BY DEF Downed
  <1> HIDE DEF u
  <1>3. Holding(prone, {p})
    <2>1. /\ IsMatch(prone) /\ prone.from = u.from /\ prone.stance = u.stance
          /\ prone.has = u.has /\ prone.ball = u.ball /\ Kept(u, prone)
      BY <1>1 DEF Holding, Body, IsMatch, Fields, Kept
    <2> HIDE DEF prone
    <2>2. {} \cup {p} = {p}
      OBVIOUS
    <2> QED BY <1>1, <2>1, <2>2, SameOn
  <1> HIDE DEF prone
  <1>4. Holding(s1, {p})
    BY <1>3, HoldTurnoverIf
  <1> HIDE DEF s1
  <1>5. Holding(DropBall(s1), {}) /\ Holding(Spill(s1, p), {})
    BY <1>4, HoldDrop, HoldSpill
  <1>6. Holding(s2, {})
    BY <1>5, HoldTo
  <1> HIDE DEF s2
  <1>7. Holding(Armour(s2, p, "hit", f.c), {})
    BY <1>6, HoldArmour
  <1> QED BY <1>2, <1>7

(* so does a saboteur, who is taken off.                                   *)
LEMMA HoldSabotage ==
  ASSUME NEW s, Holding(s, {}), NEW f
  PROVE  Holding(Sabotage(s, f), {})
  <1> DEFINE held == f.a \in s.has
             d == IF held THEN DropBall(s) ELSE s
             off == Remove(d, f.a, "ko")
             b == IF held THEN Bounce(off, s.at[f.a]) ELSE off
  <1>1. Sabotage(s, f) = KnockDown(b, f.c, "ttm", NoPlayer)
    BY DEF Sabotage
  <1>2. Holding(d, {})
    BY HoldDrop
  <1> HIDE DEF d
  <1>3. Holding(off, {})
    BY <1>2, HoldRemove
  <1> HIDE DEF off
  <1>4. Holding(b, {})
    BY <1>3, HoldBounce
  <1> HIDE DEF b
  <1> QED BY <1>1, <1>4, HoldDown

(* Kept by a knockdown.                                                    *)
LEMMA KnockedDownCarries ==
  ASSUME PitchInv, CarryInv, KnockedDown
  PROVE  Carries(m')
  <1> DEFINE f == Top(m)  s == Pop(m)
  <1>1. f.proc = "KNOCKDOWN" /\ m.status # "error"
    BY DEF KnockedDown, Runs
  <1>2. m' \in {Downed(s, f), s, Sabotage(s, f)}
    BY DEF KnockedDown
  <1>3. Holding(s, {})
    BY <1>1, BeginLone, LonePop
  <1> HIDE DEF s, f
  <1>4. Holding(m', {})
    BY <1>2, <1>3, HoldDowned, HoldSabotage
  <1> QED BY <1>1, <1>4, EndHeld DEF Harms, f

(* --------------------------------- TEST -------------------------------- *)
(* While a die is rolled nobody gets up or goes down.                      *)
Rolls(s) == Own(s) /\ s.stance = m.stance

(* Its own frame may be edited,                                            *)
LEMMA RollsOn ==
  ASSUME NEW s, Rolls(s), NEW x
  PROVE  Rolls(Phase(s, x)) /\ Rolls(Mark(s, x)) /\ Rolls(Answered(s)) /\ Rolls(Decide(s, x))
  <1>1. ASSUME NEW t \in {Phase(s, x), Mark(s, x)} PROVE t.stance = s.stance
    BY WritesOn DEF Rolls, Own, Adds
  <1>2. Answered(s).stance = s.stance /\ Decide(s, x).stance = s.stance
    BY HoldAnswered, HoldDecide DEF Rolls, Own, Lone, Adds
  <1> QED BY <1>1, <1>2, OwnOn DEF Rolls

(* left for the coach,                                                     *)
LEMMA RollsEnd ==
  ASSUME PitchInv, CarryInv, Top(m).proc = "TEST", NEW t, Rolls(t)
  PROVE  m.status # "error" => Carries(t)
  BY OtherFit, LoneSound, EndSound DEF Rolls, Own, Harms

(* or popped with the result.                                              *)
LEMMA ReturnCarries ==
  ASSUME PitchInv, CarryInv, Top(m).proc = "TEST", m.status # "error", NEW o
  PROVE  Carries(Return(m, o)) /\ Carries(Answered(Return(m, o)))
  <1> DEFINE s == Pop(m)  t == [s EXCEPT !.ret = o]
  <1>1. Holding(s, {}) /\ s.stance = m.stance /\ s.status # "error"
    BY BeginLone, LonePop
  <1> HIDE DEF s
  <1>2. /\ IsMatch(t) /\ t.from = s.from /\ t.stance = s.stance
        /\ t.has = s.has /\ t.ball = s.ball /\ Kept(s, t)
    BY <1>1 DEF Holding, Body, IsMatch, Fields, Kept
  <1> HIDE DEF t
  <1>3. Holding(t, {}) /\ t.stance = m.stance /\ t.status # "error"
    BY <1>1, <1>2, SameOn DEF Kept
  <1>4. Holding(Answered(t), {}) /\ Answered(t).stance = m.stance
    BY <1>3, HoldAnswered DEF Adds
  <1>5. Carries(t) /\ Carries(Answered(t))
    BY <1>3, <1>4, HoldSound, EndSound DEF Harms
  <1> QED BY <1>5 DEF Return, t, s

(* Kept by a die and its re-rolls.                                         *)
LEMMA TestCarries ==
  ASSUME PitchInv, CarryInv, TestNext
  PROVE  Carries(m')
  <1> DEFINE pro == [m EXCEPT !.usedPro = @ \cup {Top(m).a}]
             team == [m EXCEPT !.rerolls[TeamOf(Top(m).a)] = @ - 1]
             skill == [m EXCEPT !.skillUsed = @ \cup {<<Top(m).a, Top(m).k>>}]
  <1>1. Top(m).proc = "TEST" /\ m.status # "error"
    BY DEF TestNext, TestRoll, TestReroll, TestWasted, TestDecline, TestPro, TestTeamReroll,
           TestSkillReroll, Runs, Asks
  <1>2. \/ \E o : m' = Return(m, o) \/ m' = Answered(Return(m, o))
        \/ \E o, t : m' = Decide(Mark(Phase(m, 1), o), t)
        \/ \E s \in {pro, team, skill} : \E d, n : m' = Answered(Phase(Mark(s, d), n))
    <2>1. CASE TestRoll
      BY <2>1, Zenon DEF TestRoll
    <2>2. CASE TestReroll \/ TestWasted \/ TestDecline
      BY <2>2, Zenon DEF TestReroll, TestWasted, TestDecline
    <2>3. CASE TestPro
      BY <2>3, Zenon DEF TestPro
    <2>4. CASE TestTeamReroll
      BY <2>4, Zenon DEF TestTeamReroll
    <2>5. CASE TestSkillReroll
      BY <2>5, Zenon DEF TestSkillReroll
    <2> QED BY <2>1, <2>2, <2>3, <2>4, <2>5 DEF TestNext
  <1>3. Rolls(m)
    BY <1>1, OwnBegin DEF Rolls
  <1>4. CASE \E o : m' = Return(m, o) \/ m' = Answered(Return(m, o))
    BY <1>1, <1>4, ReturnCarries
  <1>5. CASE \E o, t : m' = Decide(Mark(Phase(m, 1), o), t)
    <2>1. PICK o, t : m' = Decide(Mark(Phase(m, 1), o), t)
      BY <1>5
    <2>2. Rolls(Phase(m, 1))
      BY <1>3, RollsOn
    <2>3. Rolls(Mark(Phase(m, 1), o))
      BY <2>2, RollsOn
    <2>4. Rolls(m')
      BY <2>1, <2>3, RollsOn
    <2> QED BY <1>1, <2>4, RollsEnd
  <1>6. CASE \E s \in {pro, team, skill} : \E d, n : m' = Answered(Phase(Mark(s, d), n))
    <2>0. PICK s \in {pro, team, skill} : \E d, n : m' = Answered(Phase(Mark(s, d), n))
      BY <1>6
    <2>1. PICK d, n : m' = Answered(Phase(Mark(s, d), n))
      BY <2>0
    <2>2. /\ IsMatch(s) /\ s.from = m.from /\ s.stance = m.stance
          /\ s.has = m.has /\ s.ball = m.ball /\ Kept(m, s)
      BY <1>3 DEF Rolls, Own, Lone, Body, IsMatch, Fields, Kept
    <2>3. Rolls(s)
      BY <1>3, <2>2, OwnSame DEF Rolls
    <2>4. Rolls(Mark(s, d))
      BY <2>3, RollsOn
    <2>5. Rolls(Phase(Mark(s, d), n))
      BY <2>4, RollsOn
    <2>6. Rolls(m')
      BY <2>1, <2>5, RollsOn
    <2> QED BY <1>1, <2>6, RollsEnd
  <1> QED BY <1>2, <1>4, <1>5, <1>6

(* ------------------------------- the ball ------------------------------ *)
(* Whoever the ball may go to is on his feet when the handler begins,      *)
LEMMA TopFit ==
  ASSUME PitchInv, CarryInv, m.status # "error"
  PROVE  Fit(m, Top(m)) /\ Lone(m, {})
  <1>1. Lone(m, {}) /\ Len(m.stack) \in 1 .. Len(m.stack)
    BY BeginLone DEF Lone, Stays
  <1> QED BY <1>1 DEF CarryInv, CarryOk, Top

(* and is as long as nobody's stance is changed.                           *)
LEMMA FeetOn ==
  ASSUME NEW s, NEW t, t.stance = s.stance
  PROVE  OnFeet(t) = OnFeet(s) /\ \A f : Fit(s, f) => Fit(t, f)
  BY DEF OnFeet, Standing, Fit

(* The ball that leaves the pitch during a kick-off is nobody's.           *)
LEMMA HoldOff ==
  ASSUME NEW s, Holding(s, {}), s.has = {}
  PROVE  Holding([s EXCEPT !.ball.state = "off", !.ball.carrier = NoPlayer], {})
  <1> DEFINE t == [s EXCEPT !.ball.state = "off", !.ball.carrier = NoPlayer]
  <1>1. /\ IsMatch(t) /\ t.from = s.from /\ t.stance = s.stance /\ Kept(s, t)
        /\ IsBall(t.ball) /\ t.has = s.has
    BY DEF Holding, Body, IsMatch, Fields, IsBall, Kept
  <1> HIDE DEF t
  <1>2. Body(t, {})
    BY <1>1 DEF Holding, Body, Kept
  <1>3. Holding(t, {})
    BY <1>1, <1>2, KeptOn
  <1> QED BY <1>3 DEF t

(* Kept by a bounce.                                                       *)
LEMMA ScatterCarries ==
  ASSUME PitchInv, CarryInv, Scatter
  PROVE  Carries(m')
  <1> DEFINE s == Pop(m)
  <1>1. m.status = "running" /\ Top(m).proc = "SCATTER"
    BY DEF Scatter, Runs
  <1>2. PICK q, r : m' = LeavePitch(s, q) \/ m' = Land(s, q, r)
    <2>1. PICK o, r : m' = IF o.out THEN LeavePitch(s, o.sq) ELSE Land(s, o.sq, r)
      BY Zenon DEF Scatter
    <2> QED BY <2>1, Zenon
  <1>3. Holding(s, {}) /\ s.has = m.has
    BY <1>1, BeginLone, LonePop
  <1>4. InKickoff(s) => s.has = {}
    <2>1. CASE Settles(m)
      BY <1>1, <1>3, <2>1 DEF Settles, Top
    <2>2. CASE ~Settles(m)
      <3>1. Doze(m) /\ Closed(m)
        BY <1>1, <2>2, Awake, TopOk DEF PitchInv, BallFrame
      <3>2. Steady(s) /\ Closed(s) /\ s.status = "running"
        BY <1>1, <3>1, SteadyPop DEF Goes
      <3> QED BY <3>2, NoKickoff
    <2> QED BY <2>1, <2>2
  <1> HIDE DEF s
  <1>5. CASE m' = LeavePitch(s, q)
    <2>1. CASE InKickoff(s)
      <3> DEFINE o == [s EXCEPT !.ball.state = "off", !.ball.carrier = NoPlayer]
      <3>1. m' = o
        BY <1>5, <2>1, Zenon DEF LeavePitch
      <3>2. Holding(o, {})
        BY <1>3, <1>4, <2>1, HoldOff, Zenon
      <3> HIDE DEF o
      <3> QED BY <1>1, <3>1, <3>2, EndHeld DEF Harms
    <2>2. CASE ~InKickoff(s)
      <3>1. m' = Push(s, Frame("THROW_IN", 0, 0, q))
        BY <1>5, <2>2 DEF LeavePitch
      <3>2. Holding(m', {})
        BY <1>3, <3>1, HoldFrame
      <3> QED BY <1>1, <3>2, EndHeld DEF Harms
    <2> QED BY <2>1, <2>2
  <1>6. CASE m' = Land(s, q, r)
    BY <1>1, <1>3, <1>6, HoldLand, EndHeld DEF Harms
  <1> QED BY <1>2, <1>5, <1>6

(* Kept by a throw-in.                                                     *)
LEMMA ThrowInCarries ==
  ASSUME PitchInv, CarryInv, ThrowIn
  PROVE  Carries(m')
  <1> DEFINE s == Pop(m)
  <1>1. m.status = "running" /\ Top(m).proc = "THROW_IN"
    BY DEF ThrowIn, Runs
  <1>2. PICK q : m' \in {Land(s, q, TRUE), Push(s, Frame("THROW_IN", 0, 0, q))}
    <2>1. PICK d, n :
            LET q == Along(Top(m).sq, d, n) IN
            m' = IF q \in Squares THEN Land(s, q, TRUE)
                 ELSE Push(s, Frame("THROW_IN", 0, 0, Exit(Top(m).sq, d)))
      BY Zenon DEF ThrowIn
    <2> QED BY <2>1, Zenon
  <1>3. Holding(s, {})
    BY <1>1, BeginLone, LonePop
  <1> HIDE DEF s
  <1>4. Holding(Land(s, q, TRUE), {}) /\ Holding(Push(s, Frame("THROW_IN", 0, 0, q)), {})
    BY <1>3, HoldLand, HoldFrame
  <1> QED BY <1>1, <1>2, <1>4, EndHeld DEF Harms

(* Kept by a catch that is tried: by a player on his feet,                 *)
LEMMA CatchTryCarries ==
  ASSUME PitchInv, CarryInv, CatchTry
  PROVE  Carries(m')
  <1> DEFINE p == Top(m).a  t == Phase(m, 1)
  <1>1. m.status = "running" /\ Top(m).proc = "CATCH"
    BY DEF CatchTry, Runs
  <1>2. \/ Standing(m, p) /\ m' = Test(t, p, "CATCH", NoPlayer)
        \/ m' = Bounce(Pop(m), m.at[p])
    BY DEF CatchTry, CanCatch, ExertsTz
  <1>3. Own(m) /\ p \in Slots
    <2>1. FrameOk(Top(m))
      <3>1. Len(m.stack) \in 1 .. Len(m.stack)
        BY <1>1, BeginLone DEF Lone, Stays
      <3>2. \A i \in 1 .. Len(m.stack) : FrameOk(m.stack[i])
        BY <1>1 DEF PitchInv, PitchOk, Playing, Based, Settles
      <3> QED BY <3>1, <3>2 DEF Top
    <2> QED BY <1>1, <2>1, OwnBegin DEF FrameOk
  <1>4. CASE Standing(m, p) /\ m' = Test(t, p, "CATCH", NoPlayer)
    <2>1. Own(t) /\ t.stance = m.stance
      BY <1>3, WritesOn, OwnOn DEF Own, Adds
    <2> HIDE DEF t
    <2>2. p \in OnFeet(t)
      BY <1>3, <1>4, <2>1 DEF OnFeet, Standing
    <2>3. Fit(t, Top(t)) /\ Lone(t, {}) /\ Top(t).proc = "CATCH"
      BY <1>1, <2>1, <2>2 DEF Own, Fit
    <2> QED BY <1>1, <1>4, <2>3, EndTest DEF Harms
  <1>5. CASE m' = Bounce(Pop(m), m.at[p])
    <2>1. Holding(Pop(m), {})
      BY <1>3, LonePop DEF Own
    <2> QED BY <1>1, <1>5, <2>1, HoldBounce, EndHeld DEF Harms
  <1> QED BY <1>2, <1>4, <1>5

(* who still is when it is made.                                           *)
LEMMA CatchDoneCarries ==
  ASSUME PitchInv, CarryInv, CatchDone
  PROVE  Carries(m')
  <1> DEFINE p == Top(m).a  s == Pop(m)  g == GiveBall(s, p)
  <1>1. m.status = "running" /\ Top(m).proc = "CATCH" /\ Top(m).phase = 1
    BY DEF CatchDone, Runs
  <1>2. PICK c : m' \in {Bounce(s, m.at[p]), CheckTd(TurnoverIf(g, c))}
    BY DEF CatchDone
  <1>3. Holding(s, {}) /\ p \in OnFeet(s)
    <2>1. Holding(s, {}) /\ s.stance = m.stance
      BY <1>1, BeginLone, LonePop
    <2>2. p \in OnFeet(m)
      BY <1>1, TopFit DEF Fit
    <2> QED BY <2>1, <2>2, FeetOn
  <1> HIDE DEF s, p
  <1>4. Holding(g, {})
    BY <1>3, HoldGive
  <1> HIDE DEF g
  <1>5. Holding(TurnoverIf(g, c), {})
    BY <1>4, HoldTurnoverIf
  <1>6. Holding(CheckTd(TurnoverIf(g, c)), {}) /\ Holding(Bounce(s, m.at[p]), {})
    BY <1>3, <1>5, HoldTd, HoldBounce
  <1> QED BY <1>1, <1>2, <1>6, EndHeld DEF Harms

(* A throw's frame gives the ball to nobody until it has an interceptor.   *)
LEMMA PassFit ==
  ASSUME NEW s, Own(s), Top(m).proc = "PASS", NEW n, n # 3
  PROVE  LET t == Phase(s, n) IN
         Own(t) /\ Lone(t, {}) /\ Fit(t, Top(t)) /\ Top(t).proc = "PASS"
  <1> DEFINE t == Phase(s, n)
  <1>1. Own(t) /\ Top(t).proc = "PASS"
    BY OwnOn DEF Own
  <1>2. Top(t).phase = n
    BY LonePhase DEF Own, Lone, Writes, IsFrame, Marks
  <1> HIDE DEF t
  <1> QED BY <1>1, <1>2 DEF Own, Fit, t

(* Kept by a throw that is rolled for.                                     *)
LEMMA PassThrowCarries ==
  ASSUME PitchInv, CarryInv, PassThrow
  PROVE  Carries(m')
  <1>1. m.status = "running" /\ Top(m).proc = "PASS"
    BY DEF PassThrow, Runs
  <1>2. PICK d : \/ m' = MakeTurnover(Pop(m))
                 \/ m' = Test(Phase(Mark(m, d), 1), Top(m).a, "PASS", NoPlayer)
    BY DEF PassThrow
  <1>3. Own(Mark(m, d)) /\ Holding(Pop(m), {})
    BY <1>1, OwnBegin, OwnOn, LonePop DEF Own
  <1> DEFINE t == Phase(Mark(m, d), 1)
  <1>4. Lone(t, {}) /\ Fit(t, Top(t)) /\ Top(t).proc = "PASS"
    BY <1>1, <1>3, PassFit
  <1> HIDE DEF t
  <1>5. Carries(Test(t, Top(m).a, "PASS", NoPlayer))
    BY <1>1, <1>4, EndTest DEF Harms
  <1>6. Carries(MakeTurnover(Pop(m)))
    BY <1>1, <1>3, HoldTurnover, EndHeld DEF Harms
  <1> QED BY <1>2, <1>5, <1>6 DEF t

(* An interceptor is on his feet.                                          *)
LEMMA InterceptionCarries ==
  ASSUME PitchInv, CarryInv, m.status # "error", NEW s, Own(s), Top(m).proc = "PASS",
         s.stance = m.stance, NEW o \in Interceptors(m, Top(m).a, Top(m).sq)
  PROVE  Carries(StartInterception(s, o))
  <1> DEFINE f == [Top(s) EXCEPT !.b = o, !.phase = 3]  t == SetTop(s, f)
  <1>1. IsFrame(f) /\ f.proc = "PASS" /\ f.b = o
    BY DEF Own, Lone, IsFrame, Marks
  <1>2. Writes(s, t, {}, f)
    BY <1>1, LoneSetTop DEF Own
  <1>3. StartInterception(s, o) = Test(t, o, "CATCH", Top(s).a)
    BY DEF StartInterception
  <1> HIDE DEF t, f
  <1>4. o \in OnFeet(m)
    <2>1. Board(m) /\ FrameOk(Top(m))
      <3>1. Len(m.stack) \in 1 .. Len(m.stack)
        BY BeginLone DEF Lone, Stays
      <3>2. Board(m) /\ \A i \in 1 .. Len(m.stack) : FrameOk(m.stack[i])
        BY DEF PitchInv, PitchOk, Playing, Based, Settles
      <3> QED BY <3>1, <3>2 DEF Top
    <2>2. o \in Slots
      BY <2>1, InterceptorsFit DEF FrameOk
    <2> QED BY <2>2 DEF Interceptors, ExertsTz, OnFeet
  <1>5. o \in OnFeet(t)
    BY <1>2, <1>4, FeetOn DEF Writes, Adds
  <1>6. Lone(t, {}) /\ Top(t).proc = "PASS" /\ Fit(t, Top(t))
    BY <1>1, <1>2, <1>5 DEF Writes, Fit
  <1> QED BY <1>3, <1>6, EndTest DEF Harms

(* Kept by the throw's answer.                                             *)
LEMMA PassRolledCarries ==
  ASSUME PitchInv, CarryInv, PassRolled
  PROVE  Carries(m')
  <1> DEFINE a == Top(m).a  q == Top(m).sq
  <1>1. m.status = "running" /\ Top(m).proc = "PASS"
    BY DEF PassRolled, Runs
  <1>2. PICK missed :
          LET air == DropBall(Mark(m, missed)) IN
          \/ m' \in {Pop(m), Fumble(m, a)}
          \/ \E team : m' = Decide(Phase(air, 2), team)
          \/ \E o \in Interceptors(m, a, q) : m' = StartInterception(air, o)
          \/ m' = Flight(Pop(air), Top(air))
    <2> DEFINE hmp == "hmp" \in Top(m).data
               missed == IF "ok" \in m.ret /\ ~hmp THEN {} ELSE {"inaccurate"}
               air == DropBall(Mark(m, missed))
               may == IF hmp THEN {} ELSE Interceptors(m, a, q)
    <2>1. m' = IF m.ret \cap {"one", "low"} # {}
               THEN IF "one" \in m.ret /\ Has(m, a, "SAFE_PASS") THEN Pop(m)
                    ELSE Fumble(m, a)
               ELSE IF Cardinality(may) > 1 THEN Decide(Phase(air, 2), 1 - TeamOf(a))
               ELSE IF may # {} THEN StartInterception(air, CHOOSE o \in may : TRUE)
               ELSE Flight(Pop(air), Top(air))
      BY Zenon DEF PassRolled
    <2>2. may # {} => (CHOOSE o \in may : TRUE) \in Interceptors(m, a, q)
      OBVIOUS
    <2> HIDE DEF air, may, hmp
    <2>3. \/ m' \in {Pop(m), Fumble(m, a)}
          \/ \E team : m' = Decide(Phase(air, 2), team)
          \/ \E o \in Interceptors(m, a, q) : m' = StartInterception(air, o)
          \/ m' = Flight(Pop(air), Top(air))
      BY <2>1, <2>2
    <2> QED BY <2>3, Zenon DEF air
  <1> DEFINE s == Mark(m, missed)  air == DropBall(s)
  <1>3. Own(m) /\ Holding(Pop(m), {})
    BY <1>1, OwnBegin, LonePop DEF Own
  <1>4. Own(s) /\ s.stance = m.stance
    BY <1>3, WritesOn, OwnOn DEF Own, Adds
  <1> HIDE DEF s
  <1>5. Own(air) /\ air.stance = m.stance
    BY <1>4, HoldDrop DEF Own
  <1> HIDE DEF air
  <1>6. Holding(Pop(air), {})
    BY <1>5, LonePop DEF Own
  <1>7. CASE m' \in {Pop(m), Fumble(m, a)}
    <2> DEFINE d == DropBall(Pop(m))
    <2>1. Holding(d, {})
      BY <1>3, HoldDrop
    <2> HIDE DEF d
    <2>2. Holding(MakeTurnover(d), {})
      BY <2>1, HoldTurnover
    <2>3. Holding(Bounce(MakeTurnover(d), m.at[a]), {})
      BY <2>2, HoldBounce
    <2>4. Holding(m', {})
      BY <1>3, <1>7, <2>3 DEF Fumble, d
    <2> QED BY <1>1, <2>4, EndHeld DEF Harms
  <1>8. CASE \E team : m' = Decide(Phase(air, 2), team)
    <2> DEFINE t == Phase(air, 2)
    <2>1. PICK team : m' = Decide(t, team)
      BY <1>8
    <2>2. Lone(t, {}) /\ Fit(t, Top(t)) /\ Top(t).proc = "PASS"
      BY <1>1, <1>5, PassFit
    <2> HIDE DEF t
    <2>3. Lone(m', {}) /\ Top(m') = Top(t) /\ m'.stance = t.stance
      BY <2>1, <2>2, HoldDecide DEF Lone, Adds
    <2>4. Fit(m', Top(m'))
      BY <2>2, <2>3, FeetOn
    <2> QED BY <1>1, <2>2, <2>3, <2>4, EndLone DEF Harms
  <1>9. CASE \E o \in Interceptors(m, a, q) : m' = StartInterception(air, o)
    BY <1>1, <1>5, <1>9, InterceptionCarries
  <1>10. CASE m' = Flight(Pop(air), Top(air))
    BY <1>1, <1>6, <1>10, HoldFlight, EndHeld DEF Harms
  <1> QED BY <1>2, <1>7, <1>8, <1>9, <1>10 DEF air, s

(* Kept by the choice of an interceptor.                                   *)
LEMMA PassInterceptCarries ==
  ASSUME PitchInv, CarryInv, PassIntercept \/ PassLetGo
  PROVE  Carries(m')
  <1> DEFINE s == Answered(m)  t == Answered(Pop(m))
  <1>1. m.status # "error" /\ Top(m).proc = "PASS"
    BY DEF PassIntercept, PassLetGo, Asks
  <1>2. \/ \E o \in Interceptors(m, Top(m).a, Top(m).sq) : m' = StartInterception(s, o)
        \/ m' = Flight(t, Top(m))
    BY DEF PassIntercept, PassLetGo
  <1>3. Own(m) /\ Holding(Pop(m), {}) /\ Pop(m).status # "error"
    BY <1>1, OwnBegin, LonePop DEF Own
  <1>4. Own(s) /\ s.stance = m.stance
    BY <1>1, <1>3, OwnOn, HoldAnswered DEF Own, Adds
  <1>5. Holding(t, {})
    BY <1>3, HoldAnswered
  <1> HIDE DEF s, t
  <1>6. CASE m' = Flight(t, Top(m))
    BY <1>1, <1>5, <1>6, HoldFlight, EndHeld DEF Harms
  <1>7. CASE \E o \in Interceptors(m, Top(m).a, Top(m).sq) : m' = StartInterception(s, o)
    BY <1>1, <1>4, <1>7, InterceptionCarries
  <1> QED BY <1>2, <1>6, <1>7

(* Kept by an interception: the interceptor stood throughout.              *)
LEMMA PassCaughtCarries ==
  ASSUME PitchInv, CarryInv, PassCaught
  PROVE  Carries(m')
  <1> DEFINE b == Top(m).b  s == Pop(m)  g == GiveBall(s, b)  t == MakeTurnover(g)
  <1>1. m.status = "running" /\ Top(m).proc = "PASS" /\ Top(m).phase = 3
    BY DEF PassCaught, Runs
  <1>2. m' \in {CheckTd(t), Flight(s, Top(m))}
    BY DEF PassCaught
  <1>3. Holding(s, {}) /\ b \in OnFeet(s)
    <2>1. Holding(s, {}) /\ s.stance = m.stance
      BY <1>1, BeginLone, LonePop
    <2>2. b \in OnFeet(m)
      BY <1>1, TopFit DEF Fit
    <2> QED BY <2>1, <2>2, FeetOn
  <1> HIDE DEF s, b
  <1>4. Holding(g, {})
    BY <1>3, HoldGive
  <1> HIDE DEF g
  <1>5. Holding(t, {})
    BY <1>4, HoldTurnover
  <1> HIDE DEF t
  <1>6. Holding(CheckTd(t), {}) /\ Holding(Flight(s, Top(m)), {})
    BY <1>3, <1>5, HoldTd, HoldFlight
  <1> QED BY <1>1, <1>2, <1>6, EndHeld DEF Harms

(* Kept by a hand-off.                                                     *)
LEMMA HandOffCarries ==
  ASSUME PitchInv, CarryInv, HandOff
  PROVE  Carries(m')
  <1> DEFINE b == Top(m).b  s == Pop(m)  d == DropBall(s)  on == BallTo(d, m.at[b])
  <1>1. m.status = "running" /\ Top(m).proc = "HANDOFF"
    BY DEF HandOff, Runs
  <1>2. m' = Push(on, Frame("CATCH", b, 0, NoSq))
    BY DEF HandOff
  <1>3. Holding(s, {})
    BY <1>1, BeginLone, LonePop
  <1> HIDE DEF s
  <1>4. Holding(d, {})
    BY <1>3, HoldDrop
  <1> HIDE DEF d
  <1>5. Holding(on, {})
    BY <1>4, HoldTo
  <1> HIDE DEF on
  <1>6. Holding(m', {})
    BY <1>2, <1>5, HoldFrame
  <1> QED BY <1>1, <1>6, EndHeld DEF Harms

(* Kept by everything the ball does.                                       *)
LEMMA BallCarries ==
  ASSUME PitchInv, CarryInv, BallNext
  PROVE  Carries(m')
  BY ScatterCarries, ThrowInCarries, CatchTryCarries, CatchDoneCarries, PassThrowCarries,
     PassRolledCarries, PassInterceptCarries, PassCaughtCarries, HandOffCarries DEF BallNext
(* --------------------------------- MOVE -------------------------------- *)
(* The mover's frame, with its flags, while nobody has gone down.          *)
Strides(s, d) == Own(s) /\ OnFeet(m) \subseteq OnFeet(s) /\ Top(s).data = d
Dice == {"await_test", "await_pickup", "stand_pend"}

(* Its flags, its target and its square may be written,                    *)
LEMMA StridesOn ==
  ASSUME NEW s, NEW d, Strides(s, d), NEW x
  PROVE  /\ Strides(Mark(s, x), d \cup x) /\ Strides(Unmark(s, x), d \ x)
         /\ Strides(Note(s, x), d) /\ Strides(Aim(s, x), d)
         /\ Strides(Answered(s), d) /\ Strides(Decide(s, x), d)
  <1>1. Lone(s, {}) /\ IsFrame(Top(s)) /\ s.status # "error"
    BY DEF Strides, Own, Lone
  <1>2. ASSUME NEW t, NEW e, Own(t), t.stance = s.stance, Top(t).data = e
        PROVE  Strides(t, e)
    BY <1>2, FeetOn DEF Strides
  <1>3. ASSUME NEW t, NEW g, Own(t), Writes(s, t, {}, g)
        PROVE  Strides(t, g.data)
    BY <1>2, <1>3 DEF Writes, Adds
  <1>4. /\ Own(Mark(s, x)) /\ Own(Unmark(s, x)) /\ Own(Note(s, x)) /\ Own(Aim(s, x))
        /\ Own(Answered(s)) /\ Own(Decide(s, x))
    BY OwnOn DEF Strides
  <1>5. Strides(Mark(s, x), d \cup x)
    <2> DEFINE g == [Top(s) EXCEPT !.data = @ \cup x]
    <2>1. g.data = d \cup x
      BY <1>1 DEF IsFrame, Marks, Strides
    <2>2. Writes(s, Mark(s, x), {}, g)
      BY <1>1, LoneMark
    <2> HIDE DEF g
    <2> QED BY <1>3, <1>4, <2>1, <2>2
  <1>6. Strides(Unmark(s, x), d \ x)
    <2> DEFINE g == [Top(s) EXCEPT !.data = @ \ x]
    <2>1. g.data = d \ x
      BY <1>1 DEF IsFrame, Marks, Strides
    <2>2. Writes(s, Unmark(s, x), {}, g)
      BY <1>1, LoneUnmark
    <2> HIDE DEF g
    <2> QED BY <1>3, <1>4, <2>1, <2>2
  <1>7. Strides(Note(s, x), d)
    <2> DEFINE g == [Top(s) EXCEPT !.c = x]
    <2>1. g.data = d
      BY <1>1 DEF IsFrame, Marks, Strides
    <2>2. Writes(s, Note(s, x), {}, g)
      BY <1>1, LoneNote
    <2> HIDE DEF g
    <2> QED BY <1>3, <1>4, <2>1, <2>2
  <1>8. Strides(Aim(s, x), d)
    <2> DEFINE g == [Top(s) EXCEPT !.sq = x]
    <2>1. g.data = d
      BY <1>1 DEF IsFrame, Marks, Strides
    <2>2. Writes(s, Aim(s, x), {}, g)
      BY <1>1, LoneAim
    <2> HIDE DEF g
    <2> QED BY <1>3, <1>4, <2>1, <2>2
  <1>9. Strides(Answered(s), d) /\ Strides(Decide(s, x), d)
    <2>1. Top(Answered(s)) = Top(s) /\ Answered(s).stance = s.stance
      BY <1>1, HoldAnswered DEF Adds
    <2>2. Top(Decide(s, x)) = Top(s) /\ Decide(s, x).stance = s.stance
      BY <1>1, HoldDecide DEF Adds
    <2> QED BY <1>2, <1>4, <2>1, <2>2 DEF Strides
  <1> QED BY <1>5, <1>6, <1>7, <1>8, <1>9

(* what it costs written down,                                             *)
LEMMA StridesCost ==
  ASSUME NEW s, NEW d, Strides(s, d), NEW p, NEW a, NEW b
  PROVE  /\ Strides([s EXCEPT !.moved[p] = a], d) /\ Strides([s EXCEPT !.rushes[p] = a], d)
         /\ Strides([s EXCEPT !.moved[p] = a, !.rushes[p] = b], d)
         /\ Strides([s EXCEPT !.ret = a], d)
         /\ Strides(TurnoverIf(s, a), d)
  <1>1. ASSUME NEW t, IsMatch(t), t.from = s.from, t.stance = s.stance,
               t.has = s.has, t.ball = s.ball, Kept(s, t)
        PROVE  Strides(t, d)
    <2>1. Own(t)
      BY <1>1, OwnSame DEF Strides
    <2>2. Top(t) = Top(s)
      BY <1>1 DEF Kept, Top
    <2> QED BY <1>1, <2>1, <2>2, FeetOn DEF Strides
  <1>2. IsMatch(s)
    BY DEF Strides, Own, Lone, Body
  <1>3. Strides([s EXCEPT !.moved[p] = a], d)
    BY <1>1, <1>2 DEF IsMatch, Fields, Kept
  <1>4. Strides([s EXCEPT !.rushes[p] = a], d)
    BY <1>1, <1>2 DEF IsMatch, Fields, Kept
  <1>5. Strides([s EXCEPT !.moved[p] = a, !.rushes[p] = b], d)
    BY <1>1, <1>2 DEF IsMatch, Fields, Kept
  <1>6. Strides([s EXCEPT !.ret = a], d)
    BY <1>1, <1>2 DEF IsMatch, Fields, Kept
  <1>7. Strides(MakeTurnover(s), d)
    BY <1>1, <1>2 DEF IsMatch, Fields, Kept, MakeTurnover
  <1> QED BY <1>3, <1>4, <1>5, <1>6, <1>7 DEF TurnoverIf

(* and the mover, or another player, moved.                                *)
LEMMA StridesRelocate ==
  ASSUME NEW s, NEW d, Strides(s, d), NEW p, NEW q
  PROVE  Strides(Relocate(s, p, q), d)
  <1> DEFINE t == Relocate(s, p, q)
  <1>1. Lone(t, {}) /\ Top(t) = Top(s) /\ t.stance = s.stance
    BY HoldRelocate DEF Strides, Own
  <1> HIDE DEF t
  <1>2. Strides(t, d)
    BY <1>1, FeetOn DEF Strides, Own
  <1> QED BY <1>2 DEF t

(* It is so when the handler begins, or its coach answers.                 *)
LEMMA StridesBegin ==
  ASSUME PitchInv, CarryInv, Top(m).proc = "MOVE", m.status # "error"
  PROVE  /\ Strides(m, Top(m).data) /\ Strides(Answered(m), Top(m).data)
         /\ {"await_test", "await_pickup"} \cap Top(m).data # {} => Mover \in OnFeet(m)
         /\ Holding(Pop(m), {}) /\ Pop(m).status # "error"
  <1>1. Own(m) /\ Fit(m, Top(m))
    BY OwnBegin, TopFit
  <1>2. Strides(m, Top(m).data)
    BY <1>1 DEF Strides
  <1>3. Holding(Pop(m), {}) /\ Pop(m).status # "error"
    BY <1>1, LonePop DEF Own
  <1> QED BY <1>1, <1>2, <1>3, StridesOn DEF Fit, Mover

(* When he is asked no die is waited for.                                  *)
LEMMA StridesAsked ==
  ASSUME PitchInv, CarryInv, Asks("MOVE", 0)
  PROVE  /\ Top(m).proc = "MOVE" /\ m.status # "error"
         /\ Strides(m, Top(m).data) /\ Strides(Answered(m), Top(m).data)
         /\ Dice \cap Top(m).data = {}
         /\ Standing(m, Mover) => Mover \in OnFeet(m)
  <1>1. Top(m).proc = "MOVE" /\ m.status # "error"
    BY DEF Asks
  <1>2. Idle(Top(m)) /\ Top(m).a \in Slots
    BY MoveAsked
  <1> QED BY <1>1, <1>2, StridesBegin DEF Idle, Pending, Dice, OnFeet, Mover

(* A frame that waits for no die may have others above it;                 *)
LEMMA StridesHolds ==
  ASSUME NEW s, NEW d, Strides(s, d), Top(m).proc = "MOVE"
  PROVE  /\ Dice \cap d = {} => Holding(s, {})
         /\ Holding(Pop(s), {}) /\ s.status # "error" /\ Pop(s).status # "error"
  <1>1. Lone(s, {}) /\ Top(s).proc = "MOVE" /\ Top(s).data = d
    BY DEF Strides, Own
  <1>2. Dice \cap d = {} => ~Due(Top(s))
    BY <1>1 DEF Due, Dice
  <1>3. Holding(Pop(s), {}) /\ s.status # "error" /\ Pop(s).status # "error"
    BY <1>1, LonePop DEF Lone
  <1> QED BY <1>1, <1>2, <1>3, LoneHolds

(* one that waits for a die to step or to pick up is of a player who       *)
(* stands.                                                                 *)
LEMMA StridesTest ==
  ASSUME PitchInv, CarryInv, Top(m).proc = "MOVE", m.status # "error",
         NEW s, NEW d, Strides(s, d),
         {"await_test", "await_pickup"} \cap d # {} => Mover \in OnFeet(m),
         NEW p, NEW k, NEW o
  PROVE  Carries(s) /\ Carries(Test(s, p, k, o))
  <1>1. Lone(s, {}) /\ Top(s).proc = "MOVE" /\ Top(s).data = d /\ Top(s).a = Mover
    BY DEF Strides, Own, Mover
  <1>2. Fit(s, Top(s))
    BY <1>1 DEF Fit, Strides
  <1> QED BY <1>1, <1>2, EndTest, EndLone DEF Harms

(* A handler of MOVE that leaves nobody waiting.                           *)
LEMMA MoveEnd ==
  ASSUME PitchInv, CarryInv, Top(m).proc = "MOVE", m.status # "error",
         NEW t, Holding(t, {})
  PROVE  Carries(t)
  BY EndHeld DEF Harms

(* The coach is asked how to go on.                                        *)
LEMMA StridesAsking ==
  ASSUME PitchInv, CarryInv, Top(m).proc = "MOVE", m.status # "error",
         NEW s, NEW d, Strides(s, d), Dice \cap d = {}
  PROVE  Carries(Asking(s))
  <1>1. \/ Asking(s) = Pop(s)
        \/ \E team : Asking(s) = Decide(s, team)
    BY DEF Asking
  <1>2. Holding(s, {}) /\ Holding(Pop(s), {}) /\ s.status # "error"
    BY StridesHolds
  <1>3. \A team : Holding(Decide(s, team), {})
    BY <1>2, HoldDecide
  <1> QED BY <1>1, <1>2, <1>3, MoveEnd

(* A mover on his feet has come to a square.                               *)
LEMMA StridesArrived ==
  ASSUME PitchInv, CarryInv, Top(m).proc = "MOVE", m.status # "error",
         NEW s, NEW d, Strides(s, d), Dice \cap d = {}, Mover \in OnFeet(m), NEW p, NEW q, NEW k
  PROVE  Carries(Arrived(s, p, q, k))
  <1> DEFINE t == Mark(s, {"await_pickup"})  u == MakeTurnover(Pop(s))
  <1>1. Arrived(s, p, q, k) \in {s, CheckTd(s), Bounce(u, q), Test(t, p, k, NoPlayer)}
    BY DEF Arrived
  <1>2. Holding(s, {}) /\ Holding(Pop(s), {})
    BY StridesHolds
  <1>3. Holding(u, {})
    BY <1>2, HoldTurnover
  <1> HIDE DEF u
  <1>4. Holding(CheckTd(s), {}) /\ Holding(Bounce(u, q), {})
    BY <1>2, <1>3, HoldTd, HoldBounce
  <1>5. Strides(t, d \cup {"await_pickup"})
    BY StridesOn
  <1> HIDE DEF t
  <1>6. Carries(Test(t, p, k, NoPlayer))
    BY <1>5, StridesTest
  <1> QED BY <1>1, <1>2, <1>4, <1>6, MoveEnd

(* Kept by the rush before a jump.                                         *)
LEMMA JumpRushedCarries ==
  ASSUME PitchInv, CarryInv, JumpRushed
  PROVE  Carries(m')
  <1> DEFINE f == Top(m)  u == Unmark(m, {"await_test", "rush_pend"})  s == Note(u, f.c - 1)
             r == [s EXCEPT !.rushes[f.a] = @ + 1]
             v == Mark(r, {"await_test", "rush_pend"} \cup {})  w == Mark(s, {"await_test"})
             d == f.data \ {"await_test", "rush_pend"}
  <1>1. Top(m).proc = "MOVE" /\ m.status # "error" /\ "await_test" \in f.data
    BY DEF JumpRushed, Waits, Runs
  <1>2. \/ m' = KnockDown(Pop(m), f.a, "rush", NoPlayer)
        \/ m' = Test(v, f.a, "RUSH", NoPlayer) \/ m' = Test(w, f.a, "JUMP", NoPlayer)
    BY DEF JumpRushed, Mover, RushFor
  <1>3. Strides(m, f.data) /\ Mover \in OnFeet(m) /\ Holding(Pop(m), {})
    BY <1>1, StridesBegin
  <1>4. Strides(u, d)
    BY <1>3, StridesOn
  <1> HIDE DEF u
  <1>5. Strides(s, d)
    BY <1>4, StridesOn
  <1> HIDE DEF s
  <1>6. Strides(r, d)
    BY <1>5, StridesCost, Zenon
  <1> HIDE DEF r
  <1>7. Strides(v, d \cup ({"await_test", "rush_pend"} \cup {})) /\ Strides(w, d \cup {"await_test"})
    BY <1>5, <1>6, StridesOn
  <1> HIDE DEF v, w, d
  <1>8. Carries(Test(v, f.a, "RUSH", NoPlayer)) /\ Carries(Test(w, f.a, "JUMP", NoPlayer))
    BY <1>1, <1>3, <1>7, StridesTest
  <1>9. Holding(KnockDown(Pop(m), f.a, "rush", NoPlayer), {})
    BY <1>3, HoldDown
  <1> QED BY <1>1, <1>2, <1>8, <1>9, MoveEnd

(* Kept by a jump that lands.                                              *)
LEMMA JumpLandedCarries ==
  ASSUME PitchInv, CarryInv, JumpLanded
  PROVE  Carries(m')
  <1> DEFINE f == Top(m)  u == Unmark(m, {"await_test", "jump"})  s == Relocate(u, f.a, f.sq)
             d == f.data \ {"await_test", "jump"}
  <1>1. Runs("MOVE", 0) /\ f.proc = "MOVE" /\ m.status # "error" /\ "await_test" \in f.data
    BY DEF JumpLanded, Waits, Runs
  <1>2. \/ m' = Arrived(s, f.a, f.sq, "PICKUP")
        \/ m' = KnockDown(Pop(s), f.a, "dodge", NoPlayer)
    BY DEF JumpLanded
  <1>3. Strides(m, f.data) /\ Mover \in OnFeet(m)
    BY <1>1, StridesBegin
  <1>4. Dice \cap d = {}
    BY <1>1, MoveWoken DEF MoveOk, Dice
  <1>5. Strides(u, d)
    BY <1>3, StridesOn
  <1> HIDE DEF u
  <1>6. Strides(s, d)
    BY <1>5, StridesRelocate
  <1> HIDE DEF s, d
  <1>7. Carries(Arrived(s, f.a, f.sq, "PICKUP"))
    BY <1>1, <1>3, <1>4, <1>6, StridesArrived
  <1>8. Holding(Pop(s), {})
    BY <1>1, <1>6, StridesHolds
  <1>9. Holding(KnockDown(Pop(s), f.a, "dodge", NoPlayer), {})
    BY <1>8, HoldDown
  <1> QED BY <1>1, <1>2, <1>7, <1>9, MoveEnd

(* Kept by the rush before a blow.                                         *)
LEMMA BlockRushedCarries ==
  ASSUME PitchInv, CarryInv, BlockRushed
  PROVE  Carries(m')
  <1> DEFINE f == Top(m)  u == Unmark(m, {"await_test", "rush_pend", "block_rush"})
             s == Note(u, 0)  v == Mark(s, {"await_action"})  w == Mark(s, {"await_block"})
             d == f.data \ {"await_test", "rush_pend", "block_rush"}
  <1>1. Runs("MOVE", 0) /\ f.proc = "MOVE" /\ m.status # "error" /\ "await_test" \in f.data
    BY DEF BlockRushed, Waits, Runs
  <1>2. \/ m' = KnockDown(Pop(m), f.a, "rush", NoPlayer)
        \/ m' = Armour(v, f.c, "stab", f.a)
        \/ m' = Push(w, [Frame("BLOCK", f.a, f.c, NoSq) EXCEPT !.data = {"blitz"}])
    BY DEF BlockRushed, Mover
  <1>3. Strides(m, f.data) /\ Holding(Pop(m), {})
    BY <1>1, StridesBegin
  <1>4. Dice \cap (d \cup {"await_action"}) = {} /\ Dice \cap (d \cup {"await_block"}) = {}
    BY <1>1, MoveWoken DEF MoveOk, Dice
  <1>5. Strides(u, d)
    BY <1>3, StridesOn
  <1> HIDE DEF u
  <1>6. Strides(s, d)
    BY <1>5, StridesOn
  <1> HIDE DEF s
  <1>7. Strides(v, d \cup {"await_action"}) /\ Strides(w, d \cup {"await_block"})
    BY <1>6, StridesOn
  <1> HIDE DEF v, w, d
  <1>8. Holding(v, {}) /\ Holding(w, {})
    BY <1>1, <1>4, <1>7, StridesHolds
  <1>9. /\ Holding(KnockDown(Pop(m), f.a, "rush", NoPlayer), {})
        /\ Holding(Armour(v, f.c, "stab", f.a), {})
        /\ Holding(Push(w, [Frame("BLOCK", f.a, f.c, NoSq) EXCEPT !.data = {"blitz"}]), {})
    BY <1>3, <1>8, HoldDown, HoldArmour, HoldFrame
  <1> QED BY <1>1, <1>2, <1>9, MoveEnd

(* Whoever shadows the mover does it on his feet.                          *)
LEMMA StridesShadows ==
  ASSUME NEW s, NEW d, Strides(s, d), NEW p, NEW q, NEW r, NEW t \in Shadows(s, p, q, r)
  PROVE  Strides(t, d)
  <1> DEFINE able == {x \in Near(q) : LET o == SlotAt(s, x) IN
                        /\ ~Empty(s, x) /\ TeamOf(o) # TeamOf(p) /\ ExertsTz(s, o)
                        /\ Has(s, o, "SHADOWING") /\ ~Adjacent(x, r)}
  <1>1. t = s \/ t = Relocate(s, SlotAt(s, First(able)), q)
    BY Zenon DEF Shadows
  <1> HIDE DEF able
  <1> QED BY <1>1, StridesRelocate

(* A step is taken by a player on his feet.                                *)
LEMMA StridesExecute ==
  ASSUME PitchInv, CarryInv, Top(m).proc = "MOVE", m.status # "error",
         NEW s, NEW d, Strides(s, d), Dice \cap d = {}, Mover \in OnFeet(m),
         NEW t \in ExecuteStep(s)
  PROVE  Carries(t)
  <1> DEFINE f == Top(s)  p == f.a  c == Charge(s, p)  u == Relocate(c, p, f.sq)
  <1>1. PICK v \in Shadows(u, p, s.at[p], f.sq) : \E kind : t = Arrived(v, p, f.sq, kind)
    BY Zenon DEF ExecuteStep
  <1>2. Strides(c, d)
    BY StridesCost, Zenon DEF Charge
  <1> HIDE DEF c
  <1>3. Strides(u, d)
    BY <1>2, StridesRelocate
  <1> HIDE DEF u
  <1>4. Strides(v, d)
    BY <1>3, StridesShadows
  <1> QED BY <1>1, <1>4, StridesArrived

(* A diving tackler has not got the ball, and goes down with the mover.    *)
LEMMA StridesFailed ==
  ASSUME PitchInv, CarryInv, Top(m).proc = "MOVE", m.status # "error",
         NEW s, NEW d, Strides(s, d), NEW diver, diver \notin s.has \/ diver = NoPlayer, NEW cause
  PROVE  Carries(StepFailed(s, cause, diver))
  <1> DEFINE f == Top(s)  p == f.a  c == Charge(s, p)  u == Relocate(c, p, f.sq)
             v == Place(u, diver, s.at[p])
             e == IF diver = NoPlayer THEN u ELSE PlaceProne(v, diver)
  <1>1. StepFailed(s, cause, diver) = KnockDown(Pop(e), p, cause, NoPlayer)
    BY Zenon DEF StepFailed
  <1>2. Strides(c, d)
    BY StridesCost, Zenon DEF Charge
  <1>0. c.has = s.has
    BY DEF Charge, Strides, Own, Lone, Body, IsMatch, Fields
  <1> HIDE DEF c
  <1>3. Strides(u, d) /\ u.has = s.has
    BY <1>0, <1>2, StridesRelocate, HoldRelocate DEF Strides, Own
  <1> HIDE DEF u
  <1>4. Lone(v, {}) /\ v.has = s.has
    BY <1>3, HoldPlace DEF Strides, Own, Same
  <1> HIDE DEF v
  <1>5. diver # NoPlayer => Lone(PlaceProne(v, diver), {})
    BY <1>4, HoldLaid DEF PlaceProne, Stances
  <1>6. Lone(e, {})
    BY <1>3, <1>5 DEF Strides, Own
  <1> HIDE DEF e
  <1>7. Holding(KnockDown(Pop(e), p, cause, NoPlayer), {})
    BY <1>6, LonePop, HoldDown
  <1> QED BY <1>1, <1>7, MoveEnd

(* Kept by the answer to a rush or a dodge.                                *)
LEMMA StepTestedCarries ==
  ASSUME PitchInv, CarryInv, StepTested
  PROVE  Carries(m')
  <1> DEFINE f == Top(m)  s == Unmark(m, {"await_test", "rush_pend"})
             lost == [s EXCEPT !.ret = @ \ {"ok"}]
             v == Unmark(s, {"dodge_pend"})  w == Mark(v, {"await_test"})
             d == f.data \ {"await_test", "rush_pend"}
  <1>1. Runs("MOVE", 0) /\ f.proc = "MOVE" /\ m.status # "error" /\ "await_test" \in f.data
    BY DEF StepTested, Waits, Runs
  <1>2. \/ \E divers : /\ divers # {} /\ divers \subseteq Divers(m, f.a)
                       /\ m' = StepFailed(lost, "dodge", SlotAt(m, First(divers)))
        \/ \E cause : m' = StepFailed(s, cause, NoPlayer)
        \/ m' = Test(w, f.a, "DODGE", NoPlayer)
        \/ m' \in ExecuteStep(s)
    <2> DEFINE rush == "rush_pend" \in f.data
               divers == IF ~rush /\ Passed /\ "close" \in m.ret THEN Divers(m, f.a) ELSE {}
    <2>1. IF divers # {}
          THEN m' = StepFailed(lost, "dodge", SlotAt(m, First(divers)))
          ELSE IF ~Passed THEN m' = StepFailed(s, IF rush THEN "rush" ELSE "dodge", NoPlayer)
          ELSE IF "dodge_pend" \in f.data
          THEN m' = Test(w, f.a, "DODGE", NoPlayer)
          ELSE m' \in ExecuteStep(s)
      BY Zenon DEF StepTested
    <2>2. divers \subseteq Divers(m, f.a)
      OBVIOUS
    <2> HIDE DEF divers, rush, w, s, lost
    <2> QED BY <2>1, <2>2
  <1>3. Strides(m, f.data) /\ Mover \in OnFeet(m)
    BY <1>1, StridesBegin
  <1>4. Dice \cap d = {}
    BY <1>1, MoveWoken DEF MoveOk, Dice
  <1>5. Strides(s, d) /\ s.has = m.has
    <2>1. Strides(s, d)
      BY <1>3, StridesOn
    <2>2. s.has = m.has
      BY <1>3, WritesOn DEF Strides, Own, Adds
    <2> QED BY <2>1, <2>2
  <1> HIDE DEF s
  <1>6. Strides(lost, d) /\ lost.has = m.has
    <2>1. Strides(lost, d)
      BY <1>5, StridesCost, Zenon
    <2> QED BY <1>5, <2>1 DEF Strides, Own, Lone, Body, IsMatch, Fields
  <1>7. Strides(v, d \ {"dodge_pend"})
    BY <1>5, StridesOn
  <1> HIDE DEF v, lost
  <1>8. Strides(w, (d \ {"dodge_pend"}) \cup {"await_test"})
    BY <1>7, StridesOn
  <1> HIDE DEF w, d
  <1>9. CASE \E divers : /\ divers # {} /\ divers \subseteq Divers(m, f.a)
                         /\ m' = StepFailed(lost, "dodge", SlotAt(m, First(divers)))
    <2>1. PICK divers : /\ divers # {} /\ divers \subseteq Divers(m, f.a)
                        /\ m' = StepFailed(lost, "dodge", SlotAt(m, First(divers)))
      BY <1>9
    <2>2. divers \subseteq Squares /\ \A q \in divers : SlotAt(m, q) \notin m.has
      BY <2>1 DEF Divers, Near
    <2>3. First(divers) \in divers
      BY <2>1, <2>2, FirstIn
    <2> QED BY <1>1, <1>6, <2>1, <2>2, <2>3, StridesFailed
  <1>10. CASE \E cause : m' = StepFailed(s, cause, NoPlayer)
    BY <1>1, <1>5, <1>10, StridesFailed
  <1>11. CASE m' = Test(w, f.a, "DODGE", NoPlayer)
    BY <1>1, <1>3, <1>8, <1>11, StridesTest
  <1>12. CASE m' \in ExecuteStep(s)
    BY <1>1, <1>3, <1>4, <1>5, <1>12, StridesExecute
  <1> QED BY <1>2, <1>9, <1>10, <1>11, <1>12

(* Kept by the answer to a pick-up: the mover stood throughout.            *)
LEMMA PickupTestedCarries ==
  ASSUME PitchInv, CarryInv, PickupTested
  PROVE  Carries(m')
  <1> DEFINE f == Top(m)  u == Unmark(m, {"await_pickup"})  s == GiveBall(u, f.a)
             b == MakeTurnover(Pop(m))  d == f.data \ {"await_pickup"}
  <1>1. Runs("MOVE", 0) /\ f.proc = "MOVE" /\ m.status # "error" /\ "await_pickup" \in f.data
    BY DEF PickupTested, Waits, Runs
  <1>2. m' \in {Bounce(b, m.ball.sq), CheckTd(s), Pop(s), Asking(s)}
    BY DEF PickupTested, Mover
  <1>3. Strides(m, f.data) /\ f.a \in OnFeet(m) /\ Holding(Pop(m), {})
    BY <1>1, StridesBegin DEF Mover
  <1>4. Dice \cap d = {}
    BY <1>1, MoveWoken DEF MoveOk, Dice
  <1>5. Strides(u, d) /\ f.a \in OnFeet(u)
    BY <1>3, StridesOn DEF Strides
  <1> HIDE DEF u
  <1>6. Strides(s, d)
    <2>1. Lone(s, {}) /\ Top(s) = Top(u) /\ s.stance = u.stance
      BY <1>5, HoldGive DEF Strides, Own
    <2> HIDE DEF s
    <2> QED BY <1>5, <2>1, FeetOn DEF Strides, Own
  <1> HIDE DEF s, d
  <1>7. Holding(s, {}) /\ Holding(Pop(s), {}) /\ Carries(Asking(s))
    BY <1>1, <1>4, <1>6, StridesHolds, StridesAsking
  <1>8. Holding(b, {})
    BY <1>3, HoldTurnover
  <1> HIDE DEF b
  <1>9. Holding(CheckTd(s), {}) /\ Holding(Bounce(b, m.ball.sq), {})
    BY <1>7, <1>8, HoldTd, HoldBounce
  <1> QED BY <1>1, <1>2, <1>7, <1>9, MoveEnd

(* Kept by an action that is over.                                         *)
LEMMA ActionOverCarries ==
  ASSUME PitchInv, CarryInv, ActionOver
  PROVE  Carries(m')
  <1> DEFINE f == Top(m)  u == Unmark(m, {"await_block", "await_action"})
             d == f.data \ {"await_block", "await_action"}
  <1>1. Runs("MOVE", 0) /\ f.proc = "MOVE" /\ m.status # "error" /\ "await_action" \in f.data
        /\ {"await_test", "await_pickup"} \cap f.data = {}
    BY DEF ActionOver, Waits, Clears, Runs
  <1>2. PICK c : \/ \E team : m' = Decide(TurnoverIf(u, c), team)
                 \/ m' = Pop(TurnoverIf(u, c))
    BY Zenon DEF ActionOver
  <1> DEFINE s == TurnoverIf(u, c)
  <1>3. Dice \cap d = {}
    <2>1. CASE "stand_pend" \in f.data
      BY <1>1, <2>1, MoveWoken DEF MoveOk
    <2> QED BY <1>1, <2>1 DEF Dice
  <1>4. Strides(u, d)
    BY <1>1, StridesBegin, StridesOn
  <1> HIDE DEF u
  <1>5. Strides(s, d)
    BY <1>4, StridesCost, Zenon
  <1> HIDE DEF s, d
  <1>6. Holding(s, {}) /\ Holding(Pop(s), {}) /\ s.status # "error"
    BY <1>1, <1>3, <1>5, StridesHolds
  <1>7. Holding(m', {})
    BY <1>2, <1>6, HoldDecide DEF s
  <1> QED BY <1>1, <1>7, MoveEnd

(* A player gets up.                                                       *)
LEMMA StridesUp ==
  ASSUME NEW s, NEW d, Strides(s, d), NEW p
  PROVE  Strides([s EXCEPT !.stance[p] = "standing"], d)
  <1> DEFINE t == [s EXCEPT !.stance[p] = "standing"]
  <1>1. Lone(t, {}) /\ Top(t) = Top(s)
    BY HoldLaid DEF Strides, Own, Stances
  <1>2. t.stance = [s.stance EXCEPT ![p] = "standing"] /\ s.stance \in [Slots -> Stances]
    BY DEF Strides, Own, Lone, Body, IsMatch, Fields
  <1> HIDE DEF t
  <1>3. OnFeet(s) \subseteq OnFeet(t)
    BY <1>2 DEF OnFeet, Standing
  <1>4. Strides(t, d)
    BY <1>1, <1>3 DEF Strides, Own
  <1> QED BY <1>4 DEF t

(* Kept by the roll to stand up.                                           *)
LEMMA StandUpTestedCarries ==
  ASSUME PitchInv, CarryInv, StandUpTested
  PROVE  Carries(m')
  <1> DEFINE f == Top(m)  p == f.a  s == Unmark(m, {"stand_pend", "await_block"})
             up == [s EXCEPT !.stance[p] = "standing"]
             n == Note(up, 0)  w == Mark(n, {"await_block", "block_done"})
             ask == [up EXCEPT !.moved[p] = m.ma[p], !.rushes[p] = MaxRushes(m, p)]
             d == f.data \ {"stand_pend", "await_block"}
  <1>1. Runs("MOVE", 0) /\ f.proc = "MOVE" /\ m.status # "error" /\ "stand_pend" \in f.data
    BY DEF StandUpTested, Waits, Runs
  <1>2. m' \in {Pop(s), Asking(ask), Push(w, Frame("BLOCK", p, f.c, NoSq))}
    BY DEF StandUpTested
  <1>3. Dice \cap d = {} /\ Dice \cap (d \cup {"await_block", "block_done"}) = {}
    BY <1>1, MoveWoken DEF MoveOk, Dice
  <1>4. Strides(s, d)
    BY <1>1, StridesBegin, StridesOn
  <1> HIDE DEF s
  <1>5. Strides(up, d)
    BY <1>4, StridesUp
  <1> HIDE DEF up
  <1>6. Strides(n, d)
    BY <1>5, StridesOn
  <1>10. Strides(ask, d)
    BY <1>5, StridesCost, Zenon
  <1> HIDE DEF n, ask
  <1>7. Strides(w, d \cup {"await_block", "block_done"})
    BY <1>6, StridesOn
  <1> HIDE DEF w, d
  <1>8. Holding(w, {}) /\ Holding(Pop(s), {}) /\ Carries(Asking(ask))
    BY <1>1, <1>3, <1>4, <1>7, <1>10, StridesHolds, StridesAsking
  <1>9. Holding(Push(w, Frame("BLOCK", p, f.c, NoSq)), {})
    BY <1>8, HoldFrame
  <1> QED BY <1>1, <1>2, <1>8, <1>9, MoveEnd

(* Kept by a mover asked how to go on.                                     *)
LEMMA MoveAskCarries ==
  ASSUME PitchInv, CarryInv, MoveAsk
  PROVE  Carries(m')
  <1> DEFINE f == Top(m)  s == Unmark(m, {"await_block"})  d == f.data \ {"await_block"}
  <1>1. f.proc = "MOVE" /\ m.status # "error" /\ Dice \cap d = {} /\ m' = Asking(s)
    BY DEF MoveAsk, Clears, Dice, Runs
  <1>2. Strides(s, d)
    BY <1>1, StridesBegin, StridesOn
  <1> HIDE DEF s, d
  <1> QED BY <1>1, <1>2, StridesAsking

(* Kept by a mover who stops.                                              *)
LEMMA EndActivationCarries ==
  ASSUME PitchInv, CarryInv, EndActivation
  PROVE  Carries(m')
  <1>1. Top(m).proc = "MOVE" /\ m.status # "error" /\ m' = Answered(Pop(m))
    BY DEF EndActivation, Asks
  <1>2. Holding(Pop(m), {}) /\ Pop(m).status # "error"
    BY <1>1, StridesBegin
  <1>3. Holding(m', {})
    BY <1>1, <1>2, HoldAnswered
  <1> QED BY <1>1, <1>3, MoveEnd

(* Kept by one who stands up.                                              *)
LEMMA StandUpCarries ==
  ASSUME PitchInv, CarryInv, StandUp
  PROVE  Carries(m')
  <1> DEFINE p == Mover  s == Answered(m)  up == [s EXCEPT !.stance[p] = "standing"]
             on == [up EXCEPT !.moved[p] = 3]  t == Mark(s, {"stand_pend"})  d == Top(m).data
  <1>1. Asks("MOVE", 0) /\ (m' = up \/ m' = on \/ m' = Test(t, p, "STANDUP", NoPlayer))
    BY Zenon DEF StandUp
  <1>2. Top(m).proc = "MOVE" /\ m.status # "error" /\ Strides(s, d) /\ Dice \cap d = {}
    BY <1>1, StridesAsked
  <1>3. {"await_test", "await_pickup"} \cap (d \cup {"stand_pend"}) = {}
    BY <1>2 DEF Dice
  <1> HIDE DEF s, d, p
  <1>4. Strides(up, d)
    BY <1>2, StridesUp, Zenon
  <1> HIDE DEF up
  <1>5. Strides(on, d)
    BY <1>4, StridesCost, Zenon
  <1> HIDE DEF on
  <1>6. Strides(t, d \cup {"stand_pend"})
    BY <1>2, StridesOn
  <1> HIDE DEF t
  <1>7. Carries(Test(t, p, "STANDUP", NoPlayer))
    BY <1>2, <1>3, <1>6, StridesTest
  <1>8. Holding(up, {}) /\ Holding(on, {})
    BY <1>2, <1>4, <1>5, StridesHolds
  <1> QED BY <1>1, <1>2, <1>7, <1>8, MoveEnd

(* Whoever may step or jump is on his feet.                                *)
LEMMA StridesMay ==
  ASSUME PitchInv, CarryInv, MayMove
  PROVE  /\ Asks("MOVE", 0) /\ Top(m).proc = "MOVE" /\ m.status # "error"
         /\ Strides(Answered(m), Top(m).data) /\ Dice \cap Top(m).data = {}
         /\ Mover \in OnFeet(m) /\ Holding(Pop(m), {}) /\ Pop(m).status # "error"
  <1>1. Asks("MOVE", 0) /\ Standing(m, Mover)
    BY DEF MayMove, CanStep
  <1>2. Top(m).proc = "MOVE" /\ m.status # "error"
    BY <1>1 DEF Asks
  <1> QED BY <1>1, <1>2, StridesAsked, StridesBegin

(* Kept by one who steps.                                                  *)
LEMMA StepCarries ==
  ASSUME PitchInv, CarryInv, Step
  PROVE  Carries(m')
  <1> DEFINE p == Mover  a == Answered(m)
  <1>1. MayMove /\ \E q \in Free(m, p) : StepTo(q)
    BY DEF Step
  <1>2. PICK q \in Free(m, p) : StepTo(q)
    BY <1>1
  <1> DEFINE s == Aim(a, q)  e == Top(m).data
  <1>3. \/ m' = Answered(Pop(m))
        \/ \E x, k : m' = Test(Mark(s, x), p, k, NoPlayer)
        \/ m' \in ExecuteStep(s)
    BY <1>2, Zenon DEF StepTo
  <1>4. /\ Top(m).proc = "MOVE" /\ m.status # "error" /\ Strides(a, e) /\ Dice \cap e = {}
        /\ Mover \in OnFeet(m) /\ Holding(Pop(m), {}) /\ Pop(m).status # "error"
    BY <1>1, StridesMay
  <1> HIDE DEF a, e, p
  <1>5. Strides(s, e)
    BY <1>4, StridesOn
  <1> HIDE DEF s
  <1>6. CASE m' = Answered(Pop(m))
    <2>1. Holding(m', {})
      BY <1>4, <1>6, HoldAnswered
    <2> QED BY <1>4, <2>1, MoveEnd
  <1>7. CASE \E x, k : m' = Test(Mark(s, x), p, k, NoPlayer)
    <2>1. PICK x, k : m' = Test(Mark(s, x), p, k, NoPlayer)
      BY <1>7
    <2>2. Strides(Mark(s, x), e \cup x)
      BY <1>5, StridesOn
    <2> QED BY <1>4, <2>1, <2>2, StridesTest
  <1>8. CASE m' \in ExecuteStep(s)
    BY <1>4, <1>5, <1>8, StridesExecute
  <1> QED BY <1>3, <1>6, <1>7, <1>8

(* A blow or a jump that costs a rush first.                               *)
LEMMA StridesRush ==
  ASSUME PitchInv, CarryInv, Top(m).proc = "MOVE", m.status # "error", Mover \in OnFeet(m),
         NEW s, NEW d, Strides(s, d), NEW p, NEW flags
  PROVE  Carries(RushFor(s, p, flags))
  <1> DEFINE r == [s EXCEPT !.rushes[p] = @ + 1]  x == {"await_test", "rush_pend"} \cup flags
             w == Mark(r, x)
  <1>1. RushFor(s, p, flags) = Test(w, p, "RUSH", NoPlayer)
    BY Zenon DEF RushFor
  <1>2. Strides(r, d)
    BY StridesCost, Zenon
  <1> HIDE DEF r, x
  <1>3. Strides(w, d \cup x)
    BY <1>2, StridesOn
  <1> HIDE DEF w
  <1> QED BY <1>1, <1>3, StridesTest

(* Kept by one who jumps.                                                  *)
LEMMA JumpCarries ==
  ASSUME PitchInv, CarryInv, Jump
  PROVE  Carries(m')
  <1> DEFINE p == Mover  a == Answered(m)  e == Top(m).data
             need == IF Left(m, p) < 2 THEN 2 - Left(m, p) ELSE 0
             spent == m.moved[p] + 2 - need
             b == [a EXCEPT !.moved[p] = Bounded(spent, m.ma[p])]
  <1>1. MayMove /\ \E q \in JumpSquares(m, p) :
          LET s == Mark(Note(Aim(b, q), need), {"jump"}) IN
          m' = IF need > 0 THEN RushFor(s, p, {})
               ELSE Test(Mark(s, {"await_test"}), p, "JUMP", NoPlayer)
    BY Zenon DEF Jump
  <1>2. PICK q : LET s == Mark(Note(Aim(b, q), need), {"jump"}) IN
                 m' = RushFor(s, p, {}) \/ m' = Test(Mark(s, {"await_test"}), p, "JUMP", NoPlayer)
    BY <1>1, Zenon
  <1> DEFINE x == Aim(b, q)  y == Note(x, need)  s == Mark(y, {"jump"})  w == Mark(s, {"await_test"})
  <1>3. m' = RushFor(s, p, {}) \/ m' = Test(w, p, "JUMP", NoPlayer)
    BY <1>2, Zenon
  <1>4. /\ Top(m).proc = "MOVE" /\ m.status # "error" /\ Strides(a, e) /\ Mover \in OnFeet(m)
    BY <1>1, StridesMay
  <1> HIDE DEF a, e, p, need
  <1>5. Strides(b, e)
    BY <1>4, StridesCost, Zenon
  <1> HIDE DEF b
  <1>6. Strides(x, e)
    BY <1>5, StridesOn
  <1> HIDE DEF x
  <1>7. Strides(y, e)
    BY <1>6, StridesOn
  <1> HIDE DEF y
  <1>8. Strides(s, e \cup {"jump"})
    BY <1>7, StridesOn
  <1> HIDE DEF s
  <1>9. Strides(w, (e \cup {"jump"}) \cup {"await_test"})
    BY <1>8, StridesOn
  <1> HIDE DEF w
  <1> QED BY <1>3, <1>4, <1>8, <1>9, StridesRush, StridesTest

(* The mover's frame rests while what he does is played out.               *)
LEMMA StridesActing ==
  ASSUME NEW s, NEW d, Strides(s, d), Top(m).proc = "MOVE", Dice \cap d = {}
  PROVE  Strides(Acting(s), d \cup {"await_action", "action_done"}) /\ Holding(Acting(s), {})
  <1>1. Strides(Acting(s), d \cup {"await_action", "action_done"})
    BY StridesOn DEF Acting
  <1>2. Dice \cap (d \cup {"await_action", "action_done"}) = {}
    BY DEF Dice
  <1> QED BY <1>1, <1>2, StridesHolds

(* Kept by one who passes or hands off.                                    *)
LEMMA PassTargetCarries ==
  ASSUME PitchInv, CarryInv, PassTarget \/ HandOffTarget
  PROVE  Carries(m')
  <1> DEFINE p == Mover  a == Answered(m)  d == Top(m).data
  <1>1. Asks("MOVE", 0)
    BY DEF PassTarget, HandOffTarget, BallAction
  <1>2. \/ \E q, r : m' = Push(Acting(Aim(a, r)), Frame("PASS", p, 0, q))
        \/ \E r : m' = Push(Acting(a), Frame("HANDOFF", p, r, NoSq))
    BY Zenon DEF PassTarget, HandOffTarget
  <1>3. Top(m).proc = "MOVE" /\ m.status # "error" /\ Strides(a, d) /\ Dice \cap d = {}
    BY <1>1, StridesAsked
  <1> HIDE DEF a, d
  <1>4. \A r : Strides(Aim(a, r), d)
    BY <1>3, StridesOn
  <1>5. Holding(Acting(a), {}) /\ \A r : Holding(Acting(Aim(a, r)), {})
    BY <1>3, <1>4, StridesActing
  <1>6. \A q, r : Holding(Push(Acting(Aim(a, r)), Frame("PASS", p, 0, q)), {})
    BY <1>5, HoldFrame
  <1>7. \A r : Holding(Push(Acting(a), Frame("HANDOFF", p, r, NoSq)), {})
    BY <1>5, HoldFrame
  <1>8. Holding(m', {})
    BY <1>2, <1>6, <1>7, Zenon
  <1> QED BY <1>3, <1>8, MoveEnd

(* Kept by one who blocks.                                                 *)
LEMMA BlockTargetCarries ==
  ASSUME PitchInv, CarryInv, BlockTarget
  PROVE  Carries(m')
  <1> DEFINE p == Mover  a == Answered(m)  ready == Mark(a, {"await_block", "block_done"})
             on == [ready EXCEPT !.moved[p] = @ + 1]  d == Top(m).data
             e == d \cup {"await_block", "block_done"}
  <1>1. Asks("MOVE", 0)
    BY DEF BlockTarget
  <1>2. PICK o :
          \/ m' = Test(Note(Mark(a, {"stand_pend"}), o), p, "GENERIC", NoPlayer)
          \/ m' = Push(ready, Frame("BLOCK", p, o, NoSq))
          \/ m' = Push(on, [Frame("BLOCK", p, o, NoSq) EXCEPT !.data = {"blitz"}])
          \/ /\ Standing(m, p)
             /\ m' = RushFor(Note(Aim(ready, m.at[p]), o), p, {"block_rush"})
    BY Zenon DEF BlockTarget, Mover
  <1>3. /\ Top(m).proc = "MOVE" /\ m.status # "error" /\ Strides(a, d) /\ Dice \cap d = {}
        /\ Standing(m, Mover) => Mover \in OnFeet(m)
    BY <1>1, StridesAsked
  <1>4. Dice \cap e = {} /\ {"await_test", "await_pickup"} \cap (d \cup {"stand_pend"}) = {}
    BY <1>3 DEF Dice
  <1> HIDE DEF a, d
  <1>5. Strides(ready, e)
    BY <1>3, StridesOn
  <1> HIDE DEF ready, e
  <1>6. Strides(on, e)
    BY <1>5, StridesCost, Zenon
  <1> HIDE DEF on
  <1>7. Holding(ready, {}) /\ Holding(on, {})
    BY <1>3, <1>4, <1>5, <1>6, StridesHolds
  <1>8. /\ Holding(Push(ready, Frame("BLOCK", p, o, NoSq)), {})
        /\ Holding(Push(on, [Frame("BLOCK", p, o, NoSq) EXCEPT !.data = {"blitz"}]), {})
    BY <1>7, HoldFrame
  <1>9. Carries(Test(Note(Mark(a, {"stand_pend"}), o), p, "GENERIC", NoPlayer))
    <2> DEFINE x == Mark(a, {"stand_pend"})  y == Note(x, o)
    <2>1. Strides(x, d \cup {"stand_pend"})
      BY <1>3, StridesOn
    <2> HIDE DEF x
    <2>2. Strides(y, d \cup {"stand_pend"})
      BY <2>1, StridesOn
    <2> HIDE DEF y
    <2>3. Carries(Test(y, p, "GENERIC", NoPlayer))
      BY <1>3, <1>4, <2>2, StridesTest
    <2> QED BY <2>3 DEF y, x
  <1>10. ASSUME Standing(m, p)
         PROVE  Carries(RushFor(Note(Aim(ready, m.at[p]), o), p, {"block_rush"}))
    <2>1. Strides(Aim(ready, m.at[p]), e)
      BY <1>5, StridesOn
    <2>2. Strides(Note(Aim(ready, m.at[p]), o), e)
      BY <2>1, StridesOn
    <2> QED BY <1>3, <1>10, <2>2, StridesRush
  <1>11. Carries(Push(ready, Frame("BLOCK", p, o, NoSq)))
         /\ Carries(Push(on, [Frame("BLOCK", p, o, NoSq) EXCEPT !.data = {"blitz"}]))
    BY <1>3, <1>8, MoveEnd
  <1> QED BY <1>2, <1>9, <1>10, <1>11

(* Kept by one who stabs.                                                  *)
LEMMA StabCarries ==
  ASSUME PitchInv, CarryInv, Stab
  PROVE  Carries(m')
  <1> DEFINE p == Mover  a == Answered(m)  blitz == Mark(a, {"block_done"})
             on == [blitz EXCEPT !.moved[p] = @ + 1]  d == Top(m).data
             e == d \cup {"block_done"}
  <1>1. Asks("MOVE", 0) /\ Standing(m, p)
    BY DEF Stab
  <1>2. PICK o :
          \/ m' = Armour(Acting(a), o, "stab", p)
          \/ m' = Armour(Acting(on), o, "stab", p)
          \/ m' = RushFor(Note(Aim(blitz, m.at[p]), o), p, {"block_rush", "action_done"})
    BY Zenon DEF Stab, Mover
  <1>3. /\ Top(m).proc = "MOVE" /\ m.status # "error" /\ Strides(a, d) /\ Dice \cap d = {}
        /\ Mover \in OnFeet(m)
    BY <1>1, StridesAsked
  <1>4. Dice \cap e = {}
    BY <1>3 DEF Dice
  <1> HIDE DEF a, d
  <1>5. Strides(blitz, e)
    BY <1>3, StridesOn
  <1> HIDE DEF blitz, e
  <1>6. Strides(on, e)
    BY <1>5, StridesCost, Zenon
  <1> HIDE DEF on
  <1>7. Holding(Acting(a), {}) /\ Holding(Acting(on), {})
    BY <1>3, <1>4, <1>6, StridesActing
  <1>8. Holding(Armour(Acting(a), o, "stab", p), {}) /\ Holding(Armour(Acting(on), o, "stab", p), {})
    BY <1>7, HoldArmour
  <1>9. Carries(RushFor(Note(Aim(blitz, m.at[p]), o), p, {"block_rush", "action_done"}))
    <2>1. Strides(Aim(blitz, m.at[p]), e)
      BY <1>5, StridesOn
    <2>2. Strides(Note(Aim(blitz, m.at[p]), o), e)
      BY <2>1, StridesOn
    <2> QED BY <1>3, <2>2, StridesRush
  <1>10. /\ Carries(Armour(Acting(a), o, "stab", p))
         /\ Carries(Armour(Acting(on), o, "stab", p))
    BY <1>3, <1>8, MoveEnd
  <1> QED BY <1>2, <1>9, <1>10

(* Kept by one who uses a chainsaw, fire or vomit.                         *)
LEMMA AttackCarries ==
  ASSUME PitchInv, CarryInv, Chainsaw \/ BreatheFire \/ Vomit
  PROVE  Carries(m')
  <1> DEFINE p == Mover  s == Acting(Answered(m))
             fell(o, c) == TurnoverIf(PlaceProne(s, o), c)
  <1>1. Asks("MOVE", 0)
    BY DEF Chainsaw, BreatheFire, Vomit, Attack, Plays
  <1>2. PICK o :
          \/ \E v, k : m' = Armour(s, v, k, p)
          \/ \E v, c : m' = KnockDown(s, v, "other", c)
          \/ m' = s
          \/ \E c : m' = Spill(fell(o, c), o)
    <2>1. CASE Chainsaw
      BY <2>1, Zenon DEF Chainsaw
    <2>2. CASE BreatheFire
      <3>1. \E o \in StandingFoes(m, p) :
              m' \in {s, KnockDown(s, p, "other", NoPlayer), KnockDown(s, o, "other", p),
                      Spill(TurnoverIf(PlaceProne(s, o), o \in m.has /\ TeamOf(o) = m.active), o)}
        BY <2>2, Zenon DEF BreatheFire
      <3> HIDE DEF s, p, fell
      <3> QED BY <3>1, Zenon DEF fell
    <2>3. CASE Vomit
      BY <2>3, Zenon DEF Vomit
    <2> QED BY <2>1, <2>2, <2>3
  <1>3. Top(m).proc = "MOVE" /\ m.status # "error" /\ Holding(s, {})
    BY <1>1, StridesAsked, StridesActing
  <1> HIDE DEF s, p
  <1>4. CASE \E v, k : m' = Armour(s, v, k, p)
    BY <1>3, <1>4, HoldArmour, MoveEnd
  <1>5. CASE \E v, c : m' = KnockDown(s, v, "other", c)
    BY <1>3, <1>5, HoldDown, MoveEnd
  <1>6. CASE m' = s
    BY <1>3, <1>6, MoveEnd
  <1>7. CASE \E c : m' = Spill(fell(o, c), o)
    <2>1. PICK c : m' = Spill(fell(o, c), o)
      BY <1>7
    <2> DEFINE u == PlaceProne(s, o)  w == TurnoverIf(u, c)
    <2>2. Holding(u, {} \cup {o})
      BY <1>3, HoldLaid DEF PlaceProne, Stances
    <2>3. m' = Spill(w, o) /\ {} \cup {o} = {o}
      BY <2>1
    <2> HIDE DEF u
    <2>4. Holding(w, {o})
      BY <2>2, <2>3, HoldTurnoverIf
    <2> HIDE DEF w
    <2>5. Holding(m', {})
      BY <2>3, <2>4, HoldSpill
    <2> QED BY <1>3, <2>5, MoveEnd
  <1> QED BY <1>2, <1>4, <1>5, <1>6, <1>7

(* Kept by one who gazes.                                                  *)
LEMMA GazeCarries ==
  ASSUME PitchInv, CarryInv, Gaze
  PROVE  Carries(m')
  <1>1. PICK d : m' = Answered(Pop([m EXCEPT !.distracted = d]))
    BY Zenon DEF Gaze
  <1> DEFINE s == [m EXCEPT !.distracted = d]
  <1>2. Top(m).proc = "MOVE" /\ m.status # "error"
    BY DEF Gaze, Attack, Plays, Asks
  <1>3. Own(m)
    BY <1>2, OwnBegin
  <1>4. /\ IsMatch(s) /\ s.from = m.from /\ s.stance = m.stance
        /\ s.has = m.has /\ s.ball = m.ball /\ Kept(m, s)
    BY <1>3 DEF Own, Lone, Body, IsMatch, Fields, Kept
  <1> HIDE DEF s
  <1>5. Own(s)
    BY <1>3, <1>4, OwnSame
  <1>6. Holding(Pop(s), {}) /\ Pop(s).status # "error"
    BY <1>2, <1>4, <1>5, LonePop DEF Own, Kept
  <1>7. Holding(m', {})
    BY <1>1, <1>6, HoldAnswered DEF s
  <1> QED BY <1>2, <1>7, MoveEnd

(* Kept by one who hits and runs.                                          *)
LEMMA HitAndRunCarries ==
  ASSUME PitchInv, CarryInv, HitAndRun
  PROVE  Carries(m')
  <1> DEFINE p == Mover  a == Answered(m)  d == Top(m).data
  <1>1. PICK q : m' \in {CheckTd(Relocate(a, p, q)), Pop(Relocate(a, p, q))}
    BY Zenon DEF HitAndRun
  <1> DEFINE s == Relocate(a, p, q)
  <1>2. Top(m).proc = "MOVE" /\ m.status # "error" /\ Strides(a, d) /\ Dice \cap d = {}
    BY StridesAsked DEF HitAndRun, Plays
  <1> HIDE DEF a, d
  <1>3. Strides(s, d)
    BY <1>2, StridesRelocate
  <1> HIDE DEF s
  <1>4. Holding(s, {}) /\ Holding(Pop(s), {})
    BY <1>2, <1>3, StridesHolds
  <1>5. Holding(m', {})
    BY <1>1, <1>4, HoldTd DEF s
  <1> QED BY <1>2, <1>5, MoveEnd

(* Kept by one who picks up a team-mate.                                   *)
LEMMA PickMateCarries ==
  ASSUME PitchInv, CarryInv, PickMate
  PROVE  Carries(m')
  <1> DEFINE a == Answered(m)  s == Mark(a, {"block_done"})  d == Top(m).data
             e == d \cup {"block_done"}
  <1>1. PICK r : m' = Note(s, r)
    BY Zenon DEF PickMate
  <1>2. Top(m).proc = "MOVE" /\ m.status # "error" /\ Strides(a, d) /\ Dice \cap e = {}
    BY StridesAsked DEF PickMate, Throws, Plays, Dice
  <1> HIDE DEF a, d
  <1>3. Strides(s, e)
    BY <1>2, StridesOn
  <1> HIDE DEF s, e
  <1>4. Strides(m', e)
    BY <1>1, <1>3, StridesOn
  <1> QED BY <1>2, <1>4, StridesHolds, MoveEnd

(* Kept by one who throws him.                                             *)
LEMMA ThrowTargetCarries ==
  ASSUME PitchInv, CarryInv, ThrowTarget
  PROVE  Carries(m')
  <1> DEFINE f == Top(m)  p == Mover  a == Answered(m)  d == Top(m).data
  <1>1. \/ \E q, e : m' = Push(Acting(a), [Frame("TTM", f.c, p, q) EXCEPT !.data = e])
        \/ m' = Err(a)
    <2> DEFINE fits == /\ f.c \in Slots /\ OnPitch(m, f.c) /\ TeamOf(f.c) = TeamOf(f.a)
                       /\ Adjacent(m.at[f.c], m.at[f.a]) /\ Has(m, f.c, "RIGHT_STUFF")
    <2>1. \E q : m' = IF fits THEN Push(Acting(a), [Frame("TTM", f.c, p, q)
                                            EXCEPT !.data = Flag(f.k = "KTM", "kick")])
                      ELSE Err(a)
      BY Zenon DEF ThrowTarget, Mover
    <2> HIDE DEF fits
    <2> QED BY <2>1
  <1>2. Top(m).proc = "MOVE" /\ m.status # "error" /\ Strides(a, d) /\ Dice \cap d = {}
    BY StridesAsked DEF ThrowTarget, Throws, Plays
  <1> HIDE DEF a, d, p, f
  <1>3. CASE \E q, e : m' = Push(Acting(a), [Frame("TTM", f.c, p, q) EXCEPT !.data = e])
    <2>1. Holding(Acting(a), {})
      BY <1>2, StridesActing
    <2>2. \A q, e : Holding(Push(Acting(a), [Frame("TTM", f.c, p, q) EXCEPT !.data = e]), {})
      BY <2>1, HoldFrame
    <2>3. Holding(m', {})
      BY <1>3, <2>2, Zenon
    <2> QED BY <1>2, <2>3, MoveEnd
  <1>4. CASE m' = Err(a)
    <2>1. Body(a, {})
      BY <1>2 DEF Strides, Own, Lone
    <2>2. IsMatch(m') /\ IsBall(m'.ball) /\ m'.from = m.from /\ m'.stance \in [Slots -> Stances]
          /\ m'.status = "error"
      BY <1>4, <2>1 DEF Body, Err, IsMatch, Fields
    <2> QED BY <2>2 DEF Carries, CarryOk
  <1> QED BY <1>1, <1>3, <1>4

(* Kept by one who fouls: the fouled player is not on his feet.            *)
LEMMA FoulTargetCarries ==
  ASSUME PitchInv, CarryInv, FoulTarget
  PROVE  Carries(m')
  <1> DEFINE a == Answered(m)  s == Acting(a)  d == Top(m).data  S == s.stack  T == m'.stack
  <1>1. PICK o : ~Standing(m, o) /\ m' = Push(s, Frame("FOUL", Mover, o, NoSq))
    BY Zenon DEF FoulTarget
  <1>2. Top(m).proc = "MOVE" /\ m.status # "error" /\ Strides(a, d) /\ Dice \cap d = {}
    BY StridesAsked DEF FoulTarget, BallAction
  <1>3. a.stance = m.stance
    BY <1>2, OwnBegin, HoldAnswered DEF Own, Adds
  <1> HIDE DEF a, d
  <1>4. s.stance = m.stance
    BY <1>2, <1>3, WritesOn DEF Strides, Own, Acting, Adds
  <1>5. Lone(s, {}) /\ Holding(s, {}) /\ Top(s).proc = "MOVE"
    BY <1>2, StridesActing DEF Strides, Own
  <1> HIDE DEF s
  <1> DEFINE f == Frame("FOUL", Mover, o, NoSq)
  <1>6. f.proc = "FOUL" /\ f.b = o
    BY DEF Frame
  <1>7. m' = Push(s, f)
    BY <1>1
  <1> HIDE DEF f
  <1>8. /\ IsMatch(m') /\ m'.from = s.from /\ m'.has = s.has /\ m'.stance = s.stance
        /\ m'.ball = s.ball /\ (m'.status = "error" \/ T = Append(S, f))
    BY <1>5, <1>7 DEF Push, Lone, Body, IsMatch, Fields
  <1>9. CASE m'.status = "error"
    BY <1>5, <1>8, <1>9 DEF Carries, CarryOk, Lone, Body
  <1>10. CASE m'.status # "error"
    <2>1. IsStack(S) /\ Len(S) = Under + 1 /\ Len(S) \in Nat /\ Under \in Nat /\ T = Append(S, f)
      BY <1>5, <1>8, <1>10 DEF Lone, Stays
    <2>2. /\ IsStack(T) /\ Len(T) = Len(S) + 1 /\ T[Len(T)] = f
          /\ \A i \in 1 .. Len(S) : T[i] = S[i]
      <3> HIDE DEF S, T
      <3> QED BY <2>1, PushedStack
    <2>3. Stays(m')
      BY <1>5, <2>1, <2>2 DEF Lone, Stays
    <2>4. \A i \in 1 .. Under : m.stack[i].proc # "FOUL" /\ ~Due(m.stack[i])
      <3>1. Len(m.stack) = Under + 1 /\ Top(m) = m.stack[Under + 1]
        BY <1>2, BeginLone DEF Lone, Top
      <3>2. \A i \in 1 .. Under : m.stack[i].proc # "FOUL"
        BY <1>2, <2>1, <3>1 DEF CarryInv, CarryOk, FoulOk, Harms
      <3> QED BY <1>2, <3>2, BelowRest
    <2>5. S[Len(S)].proc = "MOVE" /\ ~Due(S[Len(S)])
      <3>1. Len(S) \in Upper(s)
        BY <2>1 DEF Upper
      <3>2. Mute(S[Len(S)])
        BY <1>5, <3>1 DEF Holding, Lone
      <3> QED BY <1>5, <3>2 DEF Mute, Top
    <2>6. \A i \in 1 .. Len(T) : i = Len(T) \/ (T[i].proc # "FOUL" /\ ~Due(T[i]))
      <3> TAKE i \in 1 .. Len(T)
      <3>1. i = Len(T) \/ i = Len(S) \/ i \in 1 .. Under
        <4> DEFINE l == Len(T)  k == Len(S)
        <4>1. k \in Nat /\ Under \in Nat /\ k = Under + 1 /\ l = k + 1 /\ i \in 1 .. l
          BY <2>1, <2>2
        <4> HIDE DEF k, l
        <4> QED BY <4>1 DEF k, l
      <3>2. CASE i = Len(S)
        BY <2>1, <2>2, <2>5, <3>2
      <3>3. CASE i \in 1 .. Under
        BY <2>3, <2>4, <3>3 DEF Stays
      <3> QED BY <3>1, <3>2, <3>3
    <2>7. FoulOk(m')
      <3>1. ~Standing(m', o)
        BY <1>1, <1>4, <1>8 DEF Standing
      <3> QED BY <1>6, <2>2, <2>6, <3>1 DEF FoulOk
    <2>8. \A i \in 1 .. Len(T) : Fit(m', T[i])
      BY <1>6, <2>2, <2>6, RestFit, OtherFit
    <2>9. CarrierStands(m')
      <3>1. OnFeet(m') = OnFeet(s)
        BY <1>8, FeetOn
      <3> QED BY <1>5, <1>8, <3>1 DEF Lone, Body, CarrierStands
    <2> QED BY <1>5, <1>8, <2>3, <2>7, <2>8, <2>9 DEF Carries, CarryOk, Lone, Body
  <1> QED BY <1>9, <1>10

(* Kept by everything in a move.                                           *)
LEMMA MoveCarries ==
  ASSUME PitchInv, CarryInv, MoveNext
  PROVE  Carries(m')
  BY JumpRushedCarries, JumpLandedCarries, BlockRushedCarries, StepTestedCarries,
     PickupTestedCarries, ActionOverCarries, StandUpTestedCarries, MoveAskCarries,
     EndActivationCarries, StandUpCarries, StepCarries, JumpCarries, BlockTargetCarries,
     PassTargetCarries, FoulTargetCarries, StabCarries, AttackCarries, GazeCarries,
     HitAndRunCarries, PickMateCarries, ThrowTargetCarries DEF MoveNext

(* -------------------------------- injuries ----------------------------- *)
(* Who gets hurt may have been fouled: the frame below is the foul then,   *)
(* and he was not on his feet.                                             *)
Beneath == \E i \in 1 .. Under : m.stack[i].proc = "FOUL"
LEMMA FoulBelow ==
  ASSUME PitchInv, CarryInv, m.status # "error"
  PROVE  /\ Under \in Nat /\ Len(m.stack) = Under + 1
         /\ \A i \in 1 .. Under : m.stack[i].proc = "FOUL" => i = Under /\ m.stack[i].phase # 0
         /\ Beneath /\ Top(m).proc \in {"ARMOUR", "INJURY"} =>
              ~Standing(m, Top(m).a) /\ Top(m).a \notin m.has
  <1>1. Lone(m, {}) /\ Under \in Nat /\ Len(m.stack) = Under + 1 /\ Top(m) = m.stack[Under + 1]
    BY BeginLone DEF Lone, Stays, Top
  <1>2. ASSUME NEW i \in 1 .. Under, m.stack[i].proc = "FOUL"
        PROVE  /\ i = Under /\ m.stack[i].phase # 0
               /\ Top(m).proc \in {"ARMOUR", "INJURY"} => ~Standing(m, Top(m).a)
    BY <1>1, <1>2 DEF CarryInv, CarryOk, FoulOk
  <1>3. \A p : ~Standing(m, p) => p \notin m.has
    BY <1>1 DEF Lone, Body, OnFeet
  <1> QED BY <1>1, <1>2, <1>3 DEF Beneath

(* What is left above a foul when somebody has been hurt.                  *)
Spare(t) ==
  Beneath /\ t.status # "error" =>
    \/ Len(t.stack) = Under
    \/ /\ Len(t.stack) = Under + 1 /\ Top(t).proc \in Harms \ {"ARMOUR"}
       /\ Top(t).proc = "INJURY" => ~Standing(t, Top(t).a)
LEMMA EndHarm ==
  ASSUME PitchInv, CarryInv, m.status # "error", NEW t, Holding(t, {}), Spare(t),
         Top(m).proc \in Harms
  PROVE  Carries(t)
  <1>1. ASSUME t.status # "error" PROVE FoulOk(t)
    <2>1. /\ Stays(t) /\ Len(t.stack) \in Nat /\ Under \in Nat
          /\ \A i \in Upper(t) : t.stack[i].proc # "FOUL"
      BY <1>1 DEF Holding, Mute, Plain, Stays, IsStack
    <2> SUFFICES ASSUME NEW i \in 1 .. Len(t.stack), t.stack[i].proc = "FOUL"
                 PROVE  \/ i = Len(t.stack) /\ (t.stack[i].phase = 0 => ~Standing(t, t.stack[i].b))
                        \/ /\ i = Len(t.stack) - 1 /\ t.stack[i].phase # 0 /\ Top(t).proc \in Harms
                           /\ Top(t).proc \in {"ARMOUR", "INJURY"} => ~Standing(t, Top(t).a)
                           /\ Top(t).proc = "ARMOUR" => "spotted" \notin t.ret
      BY DEF FoulOk, Top
    <2>2. i \in 1 .. Under
      BY <2>1 DEF Upper
    <2>3. m.stack[i].proc = "FOUL" /\ t.stack[i] = m.stack[i]
      BY <2>1, <2>2 DEF Stays
    <2>4. Beneath /\ i = Under /\ t.stack[i].phase # 0
      BY <2>2, <2>3, FoulBelow DEF Beneath
    <2>5. \/ Len(t.stack) = Under
          \/ /\ Len(t.stack) = Under + 1 /\ Top(t).proc \in Harms \ {"ARMOUR"}
             /\ Top(t).proc = "INJURY" => ~Standing(t, Top(t).a)
      BY <1>1, <2>4 DEF Spare
    <2> DEFINE l == Len(t.stack)
    <2>6. l \in Nat /\ Under \in Nat /\ i = Under
      BY <2>1, <2>4
    <2>7. CASE l = Under
      BY <2>4, <2>6, <2>7
    <2>8. CASE l = Under + 1
      <3>1. i = l - 1
        <4> HIDE DEF l
        <4> QED BY <2>6, <2>8
      <3>2. l # Under
        <4> HIDE DEF l
        <4> QED BY <2>6, <2>8
      <3> QED BY <2>4, <2>5, <3>1, <3>2
    <2> QED BY <2>5, <2>7, <2>8
  <1>2. Sound(t)
    BY HoldSound
  <1>3. Top(m).proc # "TEST"
    BY DEF Harms
  <1> QED BY <1>1, <1>2, <1>3, EndCarried

(* Nothing is left above it,                                               *)
Clear(s) == Holding(s, {}) /\ (Beneath /\ s.status # "error" => Len(s.stack) = Under)
LEMMA ClearPop ==
  ASSUME PitchInv, CarryInv, m.status # "error"
  PROVE  /\ Clear(Pop(m)) /\ Len(Pop(m).stack) = Under /\ Pop(m).status # "error"
         /\ Pop(m).stance = m.stance /\ Pop(m).has = m.has /\ Pop(m).ret = m.ret
         /\ Clear(Answered(Pop(m))) /\ Answered(Pop(m)).status # "error"
  <1> DEFINE s == Pop(m)
  <1>1. /\ Holding(s, {}) /\ Len(s.stack) = Under /\ s.status # "error"
        /\ s.stance = m.stance /\ s.has = m.has /\ s.ret = m.ret
    BY BeginLone, LonePop
  <1> HIDE DEF s
  <1>2. Holding(Answered(s), {}) /\ Answered(s).stack = s.stack /\ Answered(s).status # "error"
    BY <1>1, HoldAsk
  <1> QED BY <1>1, <1>2 DEF Clear, s

(* whatever else is written down,                                          *)
LEMMA ClearKept ==
  ASSUME NEW s, Clear(s), NEW t, Kept(s, t), Holding(t, {})
  PROVE  Clear(t)
  BY DEF Clear, Kept

(* and the handler is through,                                             *)
LEMMA ClearEnd ==
  ASSUME PitchInv, CarryInv, m.status # "error", NEW t, Clear(t), Top(m).proc \in Harms
  PROVE  Carries(t)
  BY EndHarm DEF Clear, Spare

(* or pushes the next of the injured player's frames.                      *)
LEMMA ClearPush ==
  ASSUME PitchInv, CarryInv, m.status # "error", NEW s, Clear(s), Top(m).proc \in Harms,
         NEW f, Mute(f), f.proc \in Harms \ {"ARMOUR"},
         f.proc = "INJURY" /\ Beneath => ~Standing(s, f.a)
  PROVE  Carries(Push(s, f))
  <1> DEFINE t == Push(s, f)  S == s.stack  T == t.stack
  <1>1. /\ Holding(t, {}) /\ t.stance = s.stance
        /\ t.status = "error" \/ (T = Append(S, f) /\ t.status = s.status)
    BY HoldPush DEF Clear
  <1> HIDE DEF t
  <1>2. Spare(t)
    <2> SUFFICES ASSUME Beneath, t.status # "error"
                 PROVE  /\ Len(T) = Under + 1 /\ Top(t).proc \in Harms \ {"ARMOUR"}
                        /\ Top(t).proc = "INJURY" => ~Standing(t, Top(t).a)
      BY DEF Spare
    <2>1. IsStack(S) /\ T = Append(S, f) /\ Len(S) = Under
      BY <1>1 DEF Clear, Holding, Stays
    <2>2. Len(T) = Len(S) + 1 /\ T[Len(T)] = f
      <3> HIDE DEF S, T
      <3> QED BY <2>1, PushedStack
    <2>3. Top(t) = f
      BY <2>2 DEF Top
    <2> QED BY <1>1, <2>1, <2>2, <2>3 DEF Standing
  <1>3. Carries(t)
    BY <1>1, <1>2, EndHarm
  <1> QED BY <1>3 DEF t

(* Kept by an armour roll.                                                 *)
LEMMA ArmourRollCarries ==
  ASSUME PitchInv, CarryInv, ArmourRoll
  PROVE  Carries(m')
  <1> DEFINE f == Top(m)  s == Pop(m)
  <1>1. f.proc = "ARMOUR" /\ m.status # "error"
    BY DEF ArmourRoll, Runs
  <1>2. PICK r, b : m' \in {Push([s EXCEPT !.ret = r], [Frame("INJURY", f.a, b, NoSq) EXCEPT !.c = f.c]),
                            [s EXCEPT !.ret = r]}
    BY Zenon DEF ArmourRoll, Return
  <1>3. Clear(s) /\ s.stance = m.stance
    BY <1>1, ClearPop
  <1>4. Beneath => ~Standing(m, f.a)
    BY <1>1, FoulBelow
  <1>5. f.proc \in Harms
    BY <1>1 DEF Harms
  <1> HIDE DEF s
  <1> DEFINE t == [s EXCEPT !.ret = r]
  <1>6. /\ IsMatch(t) /\ t.from = s.from /\ t.stance = s.stance /\ t.has = s.has
        /\ t.ball = s.ball /\ Kept(s, t)
    BY <1>3 DEF Clear, Holding, Body, IsMatch, Fields, Kept
  <1> DEFINE g == [Frame("INJURY", f.a, b, NoSq) EXCEPT !.c = f.c]
  <1>7. Mute(g) /\ g.proc = "INJURY" /\ g.a = f.a
    <2>1. IsFrame(g) /\ g.proc = "INJURY" /\ g.a = f.a
      BY DEF Frame, IsFrame, Marks
    <2> HIDE DEF g
    <2> QED BY <2>1 DEF Mute, Plain, Due
  <1>8. m' \in {Push(t, g), t}
    BY <1>2
  <1> HIDE DEF t, g, f
  <1>9. Clear(t) /\ t.stance = m.stance
    BY <1>3, <1>6, SameOn, ClearKept DEF Clear
  <1>10. Beneath => ~Standing(t, g.a)
    BY <1>4, <1>7, <1>9 DEF Standing
  <1>11. Top(m).proc \in Harms /\ g.proc \in Harms \ {"ARMOUR"}
    BY <1>5, <1>7 DEF Harms, f
  <1>12. Carries(t) /\ Carries(Push(t, g))
    BY <1>1, <1>7, <1>9, <1>10, <1>11, ClearEnd, ClearPush
  <1> QED BY <1>8, <1>12

(* Kept by an injury roll.                                                 *)
LEMMA InjuryRollCarries ==
  ASSUME PitchInv, CarryInv, InjuryRoll
  PROVE  Carries(m')
  <1> DEFINE f == Top(m)  p == f.a  u == Pop(m)
             v == TurnoverIf(u, p \in m.has /\ TeamOf(p) = m.active)
             spilt == Spill(v, p)
             S(c) == IF c THEN [spilt EXCEPT !.ret = @ \cup {"spotted"}] ELSE spilt
  <1>1. f.proc = "INJURY" /\ m.status # "error" /\ f.proc \in Harms
    BY DEF InjuryRoll, Runs, Harms
  <1>2. PICK double \in BOOLEAN, hurt \in Hurts(m, p) :
          LET s == S(f.b = 2 /\ double) IN
          m' = CASE hurt = "stun" /\ f.b = 1 -> [s EXCEPT !.loc[p] = "reserves"]
              [] hurt = "stun" /\ f.b # 1 -> [s EXCEPT !.stance[p] = "stunned"]
              [] hurt = "ko" -> IF m.apothecary[TeamOf(p)] > 0
                                THEN Push(s, Frame("KO_RECOVERY", p, f.b, NoSq))
                                ELSE Banish(s, p, "ko")
              [] hurt = "bh" -> Banish(s, p, "cas")
              [] hurt = "cas" -> Push(s, [Frame("CASUALTY", p, f.b, NoSq) EXCEPT !.c = f.c])
    BY Zenon DEF InjuryRoll
  <1> DEFINE s == S(f.b = 2 /\ double)
  <1>3. \/ m' = [s EXCEPT !.loc[p] = "reserves"]
        \/ m' = [s EXCEPT !.stance[p] = "stunned"]
        \/ m' = Push(s, Frame("KO_RECOVERY", p, f.b, NoSq))
        \/ \E l \in {"ko", "cas"} : m' = Banish(s, p, l)
        \/ m' = Push(s, [Frame("CASUALTY", p, f.b, NoSq) EXCEPT !.c = f.c])
    BY <1>2 DEF Hurts, Flag
  <1>4. Clear(u) /\ u.has = m.has /\ u.status # "error"
    BY <1>1, ClearPop
  <1>5. Beneath => p \notin m.has
    BY <1>1, FoulBelow
  <1> HIDE DEF u
  <1>6. Clear(v) /\ v.has = m.has
    BY <1>4, HoldTurnoverIf, ClearKept DEF Clear, Same
  <1> HIDE DEF v, p
  <1>7. Clear(spilt) /\ (spilt.status # "error" => p \notin spilt.has)
    <2>1. Holding(spilt, {}) /\ (spilt.status # "error" => p \notin spilt.has)
      BY <1>6, HoldSpilt DEF Clear
    <2>2. Beneath => spilt = v
      BY <1>5, <1>6 DEF Spill
    <2> HIDE DEF spilt
    <2> QED BY <1>6, <2>1, <2>2 DEF Clear
  <1> HIDE DEF spilt
  <1>8. /\ IsMatch(s) /\ s.from = spilt.from /\ s.stance = spilt.stance /\ s.has = spilt.has
        /\ s.ball = spilt.ball /\ Kept(spilt, s)
    BY <1>7 DEF Clear, Holding, Body, IsMatch, Fields, Kept
  <1> HIDE DEF s
  <1>9. Clear(s) /\ (s.status # "error" => p \notin s.has)
    <2>1. Holding(s, {})
      BY <1>7, <1>8, SameOn DEF Clear
    <2> QED BY <1>7, <1>8, <2>1, ClearKept DEF Kept
  <1>10. Top(m).proc \in Harms
    BY <1>1
  <1> HIDE DEF f
  <1>a. CASE m' = [s EXCEPT !.loc[p] = "reserves"]
    <2>1. /\ IsMatch(m') /\ m'.from = s.from /\ m'.stance = s.stance /\ m'.has = s.has
          /\ m'.ball = s.ball /\ Kept(s, m')
      BY <1>9, <1>a DEF Clear, Holding, Body, IsMatch, Fields, Kept
    <2>2. Holding(m', {})
      BY <1>9, <2>1, SameOn DEF Clear
    <2>3. Clear(m')
      BY <1>9, <2>1, <2>2, ClearKept
    <2> QED BY <1>1, <1>10, <2>3, ClearEnd
  <1>b. CASE m' = [s EXCEPT !.stance[p] = "stunned"]
    <2>1. /\ Holding(m', {} \cup {p}) /\ (p \notin s.has => Holding(m', {})) /\ Kept(s, m')
      BY <1>9, <1>b, HoldLaid DEF Clear, Stances
    <2>2. Holding(m', {})
      <3>1. CASE s.status # "error"
        BY <1>9, <2>1, <3>1
      <3>2. CASE s.status = "error"
        BY <2>1, <3>2 DEF Holding, Body, Kept
      <3> QED BY <3>1, <3>2
    <2>3. Clear(m')
      BY <1>9, <2>1, <2>2, ClearKept
    <2> QED BY <1>1, <1>10, <2>3, ClearEnd
  <1>c. CASE \E l \in {"ko", "cas"} : m' = Banish(s, p, l)
    <2>1. PICK l : m' = Banish(s, p, l)
      BY <1>c
    <2>2. Clear(m')
      BY <1>9, <2>1, HoldBanish, ClearKept DEF Clear
    <2> QED BY <1>1, <1>10, <2>2, ClearEnd
  <1>d. CASE m' = Push(s, Frame("KO_RECOVERY", p, f.b, NoSq))
    <2> DEFINE g == Frame("KO_RECOVERY", p, f.b, NoSq)
    <2>1. Mute(g) /\ g.proc = "KO_RECOVERY"
      <3>1. IsFrame(g) /\ g.proc = "KO_RECOVERY"
        BY BareFrame
      <3> HIDE DEF g
      <3> QED BY <3>1 DEF Mute, Plain, Due
    <2>2. m' = Push(s, g)
      BY <1>d
    <2> HIDE DEF g
    <2>3. g.proc \in Harms \ {"ARMOUR"} /\ g.proc # "INJURY"
      BY <2>1 DEF Harms
    <2> QED BY <1>1, <1>9, <1>10, <2>1, <2>2, <2>3, ClearPush
  <1>e. CASE m' = Push(s, [Frame("CASUALTY", p, f.b, NoSq) EXCEPT !.c = f.c])
    <2> DEFINE g == [Frame("CASUALTY", p, f.b, NoSq) EXCEPT !.c = f.c]
    <2>1. Mute(g) /\ g.proc = "CASUALTY"
      <3>1. IsFrame(g) /\ g.proc = "CASUALTY"
        BY DEF Frame, IsFrame, Marks
      <3> HIDE DEF g
      <3> QED BY <3>1 DEF Mute, Plain, Due
    <2>2. m' = Push(s, g)
      BY <1>e
    <2> HIDE DEF g
    <2>3. g.proc \in Harms \ {"ARMOUR"} /\ g.proc # "INJURY"
      BY <2>1 DEF Harms
    <2> QED BY <1>1, <1>9, <1>10, <2>1, <2>2, <2>3, ClearPush
  <1> QED BY <1>3, <1>a, <1>b, <1>c, <1>d, <1>e

(* The coach of the injured player is asked, over his own frame.           *)
LEMMA HarmLone ==
  ASSUME PitchInv, CarryInv, m.status # "error", NEW t, Own(t),
         Top(m).proc \in {"KO_RECOVERY", "CASUALTY"}
  PROVE  Carries(t)
  <1>1. Holding(t, {}) /\ Len(t.stack) = Under + 1 /\ Top(t).proc = Top(m).proc
    BY LoneHolds DEF Own, Lone, Due
  <1>2. Spare(t)
    BY <1>1 DEF Spare, Harms
  <1> QED BY <1>1, <1>2, EndHarm DEF Harms

(* Kept by an apothecary asked for and used.                               *)
LEMMA PatchCarries ==
  ASSUME PitchInv, CarryInv, PatchAsk \/ Patch
  PROVE  Carries(m')
  <1> DEFINE p == Top(m).a
  <1>1. Top(m).proc = "KO_RECOVERY" /\ m.status # "error" /\ Top(m).proc \in Harms
    BY DEF PatchAsk, Patch, Runs, Asks, Harms
  <1>2. p \notin m.has
    BY <1>1, Nursed DEF PitchInv
  <1>3. CASE PatchAsk
    <2>1. m' = Decide(m, TeamOf(Top(m).a))
      BY <1>3 DEF PatchAsk
    <2>2. Own(m')
      BY <1>1, <2>1, OwnBegin, OwnOn
    <2> QED BY <1>1, <2>2, HarmLone
  <1>4. CASE Patch
    <2> DEFINE s == Answered(Pop(m))  cured == Apothecary(s, p)
    <2>1. Clear(s) /\ s.has = m.has
      <3>1. Clear(s) /\ Pop(m).has = m.has
        BY <1>1, ClearPop
      <3>2. s.has = Pop(m).has
        <4>1. Holding(Pop(m), {}) /\ Pop(m).status # "error"
          BY <1>1, ClearPop DEF Clear
        <4> QED BY <4>1, HoldAnswered DEF Adds
      <3> QED BY <3>1, <3>2
    <2>2. \/ m' = [cured EXCEPT !.loc[p] = "reserves"]
          \/ m' = [cured EXCEPT !.stance[p] = "stunned"]
          \/ m' = Banish(s, p, "ko")
      BY <1>4, Zenon DEF Patch
    <2> HIDE DEF s, p
    <2>3. /\ IsMatch(cured) /\ cured.from = s.from /\ cured.stance = s.stance
          /\ cured.has = s.has /\ cured.ball = s.ball /\ Kept(s, cured)
      BY <2>1 DEF Clear, Holding, Body, IsMatch, Fields, Kept, Apothecary
    <2> HIDE DEF cured
    <2>4. Clear(cured) /\ p \notin cured.has
      BY <1>2, <2>1, <2>3, SameOn, ClearKept DEF Clear
    <2>5. CASE m' = [cured EXCEPT !.loc[p] = "reserves"]
      <3>1. /\ IsMatch(m') /\ m'.from = cured.from /\ m'.stance = cured.stance
            /\ m'.has = cured.has /\ m'.ball = cured.ball /\ Kept(cured, m')
        BY <2>4, <2>5 DEF Clear, Holding, Body, IsMatch, Fields, Kept
      <3>2. Clear(m')
        BY <2>4, <3>1, SameOn, ClearKept DEF Clear
      <3> QED BY <1>1, <3>2, ClearEnd
    <2>6. CASE m' = [cured EXCEPT !.stance[p] = "stunned"]
      <3>1. Holding(m', {}) /\ Kept(cured, m')
        BY <2>4, <2>6, HoldLaid DEF Clear, Stances
      <3>2. Clear(m')
        BY <2>4, <3>1, ClearKept
      <3> QED BY <1>1, <3>2, ClearEnd
    <2>7. CASE m' = Banish(s, p, "ko")
      <3>1. Clear(m')
        BY <2>1, <2>7, HoldBanish, ClearKept DEF Clear
      <3> QED BY <1>1, <3>1, ClearEnd
    <2> QED BY <2>2, <2>5, <2>6, <2>7
  <1> QED BY <1>3, <1>4

(* Kept by a casualty roll.                                                *)
LEMMA CasualtyRollCarries ==
  ASSUME PitchInv, CarryInv, CasualtyRoll
  PROVE  Carries(m')
  <1> DEFINE p == Top(m).a  s == Pop(m)
  <1>1. Top(m).proc = "CASUALTY" /\ m.status # "error" /\ Top(m).proc \in Harms
    BY DEF CasualtyRoll, Runs, Harms
  <1>2. Clear(s) /\ Len(s.stack) = Under
    BY <1>1, ClearPop
  <1>3. \/ \E l : m' = Banish(s, p, l)
        \/ \E rolled : m' = Phase(Mark(Push(s, Frame("CASUALTY", p, 1, NoSq)), rolled), 1)
    BY Zenon DEF CasualtyRoll
  <1> HIDE DEF s, p
  <1>4. CASE \E l : m' = Banish(s, p, l)
    <2>1. Clear(m')
      BY <1>2, <1>4, HoldBanish, ClearKept DEF Clear
    <2> QED BY <1>1, <2>1, ClearEnd
  <1>5. ASSUME NEW rolled, m' = Phase(Mark(Push(s, Frame("CASUALTY", p, 1, NoSq)), rolled), 1)
        PROVE  Carries(m')
    <2> DEFINE f == Frame("CASUALTY", p, 1, NoSq)  u == Push(s, f)
    <2>1. IsFrame(f) /\ f.proc = "CASUALTY" /\ f.a = p
      BY BareFrame
    <2> HIDE DEF f
    <2>2. Mute(f)
      BY <2>1 DEF Mute, Plain, Due
    <2>3. Holding(u, {})
      BY <1>2, <2>2, HoldPush DEF Clear
    <2>7. u.status = "error" \/ (u.stack = Append(s.stack, f) /\ u.status = s.status)
      BY <1>2, <2>2, HoldPush DEF Clear
    <2>4. m' = Phase(Mark(u, rolled), 1)
      BY <1>5 DEF u, f
    <2> HIDE DEF u
    <2> DEFINE v == Mark(u, rolled)
    <2>5. CASE u.status = "error"
      <3>1. IsMatch(v) /\ v.status = "error" /\ v.from = u.from /\ v.stance = u.stance
        BY <2>3, <2>5 DEF Holding, Body, IsMatch, Fields, Mark
      <3>2. m' = Phase(v, 1)
        BY <2>4
      <3> HIDE DEF v
      <3>3. m'.status = "error" /\ m'.from = u.from /\ m'.stance = u.stance
        BY <3>1, <3>2 DEF IsMatch, Fields, Phase
      <3> QED BY <2>3, <3>3 DEF Carries, CarryOk, Holding, Body
    <2>6. CASE u.status # "error"
      <3>1. IsStack(s.stack) /\ u.stack = Append(s.stack, f) /\ s.status # "error"
        BY <1>2, <2>7, <2>6 DEF Clear, Holding, Stays
      <3>2. Len(u.stack) = Under + 1 /\ u.stack[Len(u.stack)] = f
        BY <1>2, <3>1, PushedStack
      <3>3. Lone(u, {}) /\ Top(u) = f
        BY <2>1, <2>3, <2>6, <3>2 DEF Lone, Holding, Top
      <3>4. Lone(v, {}) /\ Top(v).proc = "CASUALTY"
        BY <2>1, <3>3, WritesOn
      <3> HIDE DEF v
      <3>5. Lone(m', {}) /\ Top(m').proc = "CASUALTY"
        BY <2>4, <3>4, WritesOn DEF v
      <3>6. Holding(m', {}) /\ Len(m'.stack) = Under + 1
        BY <3>5, LoneHolds DEF Lone, Due
      <3>7. Spare(m')
        BY <3>5, <3>6 DEF Spare, Harms
      <3> QED BY <1>1, <3>6, <3>7, EndHarm
    <2> QED BY <2>5, <2>6
  <1> QED BY <1>3, <1>4, <1>5

(* Kept by a casualty's coach asked, and his choice.                       *)
LEMMA CasualtyCarries ==
  ASSUME PitchInv, CarryInv, CasualtyAsk \/ CasualtyChoice \/ CasualtyPick
  PROVE  Carries(m')
  <1> DEFINE p == Top(m).a  s == Answered(Pop(m))
  <1>1. Top(m).proc = "CASUALTY" /\ m.status # "error" /\ Top(m).proc \in Harms
    BY DEF CasualtyAsk, CasualtyChoice, CasualtyPick, Runs, Asks, Harms
  <1>2. Clear(s)
    BY <1>1, ClearPop
  <1>3. \/ \E team : m' = Decide(m, team)
        \/ \E l : m' = Banish(s, p, l)
        \/ \E rolled : m' = Answered(Phase(Mark(Apothecary(m, p), rolled), 2))
    BY Zenon DEF CasualtyAsk, CasualtyChoice, CasualtyPick
  <1>4. Own(m)
    BY <1>1, OwnBegin
  <1> HIDE DEF s
  <1>5. CASE \E team : m' = Decide(m, team)
    <2>1. Own(m')
      BY <1>4, <1>5, OwnOn
    <2> QED BY <1>1, <2>1, HarmLone
  <1>6. CASE \E l : m' = Banish(s, p, l)
    <2>1. Clear(m')
      BY <1>2, <1>6, HoldBanish, ClearKept DEF Clear
    <2> QED BY <1>1, <2>1, ClearEnd
  <1>7. ASSUME NEW rolled, m' = Answered(Phase(Mark(Apothecary(m, p), rolled), 2))
        PROVE  Carries(m')
    <2> DEFINE cured == Apothecary(m, p)
    <2>1. /\ IsMatch(cured) /\ cured.from = m.from /\ cured.stance = m.stance
          /\ cured.has = m.has /\ cured.ball = m.ball /\ Kept(m, cured)
      BY <1>4 DEF Own, Lone, Body, IsMatch, Fields, Kept, Apothecary
    <2> HIDE DEF cured
    <2>2. Own(cured)
      BY <1>4, <2>1, OwnSame
    <2>3. Own(Mark(cured, rolled))
      BY <2>2, OwnOn
    <2>4. Own(Phase(Mark(cured, rolled), 2))
      BY <2>3, OwnOn
    <2>5. Own(m')
      BY <1>7, <2>4, OwnOn DEF cured
    <2> QED BY <1>1, <2>5, HarmLone
  <1> QED BY <1>3, <1>5, <1>6, <1>7

(* --------------------------------- FOUL -------------------------------- *)
(* A foul on top has no other below it.                                    *)
LEMMA AloneFoul ==
  ASSUME PitchInv, CarryInv, m.status # "error", Top(m).proc = "FOUL"
  PROVE  /\ \A i \in 1 .. Under : m.stack[i].proc # "FOUL"
         /\ Top(m).phase = 0 => ~Standing(m, Top(m).b)
  <1>1. Len(m.stack) = Under + 1 /\ Under \in Nat /\ Top(m) = m.stack[Len(m.stack)]
    BY BeginLone DEF Lone, Stays, Top
  <1>2. FoulOk(m)
    BY DEF CarryInv, CarryOk
  <1> QED BY <1>1, <1>2 DEF FoulOk, Harms

(* The referee waits for the coach, or looks later.                        *)
LEMMA EndFouling ==
  ASSUME PitchInv, CarryInv, m.status # "error", Top(m).proc = "FOUL",
         NEW t, Own(t), Top(t).phase # 0
  PROVE  Carries(t)
  <1>1. /\ Lone(t, {}) /\ Top(t).proc = "FOUL" /\ Stays(t) /\ Len(t.stack) = Under + 1
        /\ Under \in Nat /\ Top(t) = t.stack[Under + 1]
    BY DEF Own, Lone, Stays, Top
  <1>2. \A i \in 1 .. Len(t.stack) : i = Len(t.stack) \/ i \in 1 .. Under
    BY <1>1
  <1>3. FoulOk(t)
    <2>1. \A i \in 1 .. Under : t.stack[i].proc # "FOUL"
      BY <1>1, AloneFoul DEF Stays
    <2>2. t.stack[Len(t.stack)].phase # 0
      BY <1>1
    <2> QED BY <1>2, <2>1, <2>2 DEF FoulOk
  <1>4. \A i \in 1 .. Len(t.stack) : Fit(t, t.stack[i])
    <2>1. \A i \in 1 .. Under : Fit(t, t.stack[i])
      BY <1>1, BelowRest, RestFit DEF Stays
    <2> QED BY <1>1, <1>2, <2>1, OtherFit
  <1> QED BY <1>1, <1>3, <1>4 DEF Lone, Body, CarrierStands, Carries, CarryOk

(* Kept by a foul: its frame waits below the fouled player's armour.       *)
LEMMA FoulRollCarries ==
  ASSUME PitchInv, CarryInv, FoulRoll
  PROVE  Carries(m')
  <1> DEFINE o == Top(m).b  u == Phase(m, 1)  s == [u EXCEPT !.ret = {}]
             S == s.stack  T == m'.stack
  <1>1. Top(m).proc = "FOUL" /\ Top(m).phase = 0 /\ m.status # "error"
    BY DEF FoulRoll, Runs
  <1>2. m' = Armour(s, o, "foul", Top(m).a)
    BY DEF FoulRoll
  <1>3. /\ ~Standing(m, o) /\ \A i \in 1 .. Under : m.stack[i].proc # "FOUL" /\ ~Due(m.stack[i])
    BY <1>1, AloneFoul, BelowRest
  <1> HIDE DEF o
  <1>4. Own(u) /\ Top(u).phase = 1 /\ u.stance = m.stance
    <2>1. Own(m) /\ Lone(m, {})
      BY <1>1, OwnBegin DEF Own
    <2>2. Writes(m, u, {}, [Top(m) EXCEPT !.phase = 1]) /\ "phase" \in DOMAIN Top(m)
      BY <2>1, LonePhase DEF Lone, IsFrame, Marks
    <2>3. Own(u)
      BY <2>1, OwnOn
    <2> HIDE DEF u
    <2> QED BY <2>2, <2>3 DEF Writes, Adds
  <1> HIDE DEF u
  <1>5. /\ IsMatch(s) /\ s.from = u.from /\ s.stance = u.stance /\ s.has = u.has
        /\ s.ball = u.ball /\ Kept(u, s) /\ s.ret = {}
    BY <1>4 DEF Own, Lone, Body, IsMatch, Fields, Kept
  <1> HIDE DEF s
  <1>6. Own(s) /\ Lone(s, {}) /\ Top(s).proc = "FOUL" /\ Top(s).phase = 1
    BY <1>1, <1>4, <1>5, OwnSame DEF Own, Top, Kept
  <1> DEFINE f == [Frame("ARMOUR", o, 0, NoSq) EXCEPT !.k = "foul", !.c = Top(m).a]
  <1>7. f.proc = "ARMOUR" /\ f.a = o
    BY DEF Frame
  <1>8. m' = Push(s, f)
    BY <1>2 DEF Armour
  <1> HIDE DEF f
  <1>9. /\ IsMatch(m') /\ m'.from = s.from /\ m'.has = s.has /\ m'.stance = s.stance
        /\ m'.ball = s.ball /\ m'.ret = s.ret
        /\ m'.status = "error" \/ T = Append(S, f)
    BY <1>6, <1>8 DEF Push, Lone, Body, IsMatch, Fields
  <1>10. CASE m'.status = "error"
    BY <1>6, <1>9, <1>10 DEF Carries, CarryOk, Lone, Body
  <1>11. CASE m'.status # "error"
    <2>1. IsStack(S) /\ Len(S) = Under + 1 /\ Len(S) \in Nat /\ Under \in Nat /\ T = Append(S, f)
      BY <1>6, <1>9, <1>11 DEF Lone, Stays
    <2>2. /\ IsStack(T) /\ Len(T) = Len(S) + 1 /\ T[Len(T)] = f
          /\ \A i \in 1 .. Len(S) : T[i] = S[i]
      <3> HIDE DEF S, T
      <3> QED BY <2>1, PushedStack
    <2> DEFINE n == Len(T)
    <2>3. n \in Nat /\ n = Under + 2 /\ T[n] = f
      <3> DEFINE k == Len(S)
      <3>1. k = Under + 1 /\ n = k + 1 /\ T[n] = f
        BY <2>1, <2>2
      <3> HIDE DEF n, k
      <3> QED BY <2>1, <3>1
    <2>4. Stays(m')
      BY <1>6, <2>1, <2>2 DEF Lone, Stays
    <2>5. T[Under + 1] = Top(s)
      BY <2>1, <2>2 DEF Top
    <2>6. \A i \in 1 .. n : i = n \/ i = Under + 1 \/ i \in 1 .. Under
      <3> HIDE DEF n
      <3> QED BY <2>1, <2>3
    <2>7. \A i \in 1 .. Under : T[i].proc # "FOUL" /\ ~Due(T[i])
      BY <1>3, <2>4 DEF Stays
    <2>8. FoulOk(m')
      <3>1. ~Standing(m', f.a) /\ "spotted" \notin m'.ret
        BY <1>3, <1>4, <1>5, <1>7, <1>9 DEF Standing
      <3>2. \A i \in 1 .. n : T[i].proc = "FOUL" => i = Under + 1 /\ T[i].phase = 1
        BY <1>6, <1>7, <2>3, <2>5, <2>6, <2>7
      <3>3. n - 1 = Under + 1
        <4> HIDE DEF n
        <4> QED BY <2>1, <2>3
      <3>4. T[n].proc \in Harms /\ T[n].proc = "ARMOUR" /\ T[n].a = f.a
        BY <1>7, <2>3 DEF Harms
      <3> QED BY <3>1, <3>2, <3>3, <3>4 DEF FoulOk
    <2>9. \A i \in 1 .. n : Fit(m', T[i])
      <3>1. Fit(m', f) /\ Fit(m', Top(s))
        BY <1>6, <1>7, OtherFit
      <3> QED BY <2>3, <2>5, <2>6, <2>7, <3>1, RestFit
    <2>10. CarrierStands(m')
      <3>1. OnFeet(m') = OnFeet(s)
        BY <1>9, FeetOn
      <3> QED BY <1>6, <1>9, <3>1 DEF Lone, Body, CarrierStands
    <2> QED BY <1>6, <1>9, <2>4, <2>8, <2>9, <2>10 DEF Carries, CarryOk, Lone, Body
  <1> QED BY <1>10, <1>11

(* A player who is sent off leaves the ball, which bounces.                *)
LEMMA HoldSendOff ==
  ASSUME NEW s, Holding(s, {}), NEW p
  PROVE  Holding(SendOff(s, p), {})
  <1> DEFINE d == IF p \in s.has THEN Bounce(DropBall(s), s.at[p]) ELSE s
             r == Remove(d, p, "sent_off")
  <1>1. d = Spill(s, p)
    BY DEF Spill
  <1>2. Holding(d, {})
    <2> HIDE DEF d
    <2> QED BY <1>1, HoldSpilt
  <1> HIDE DEF d
  <1>3. Holding(r, {})
    BY <1>2, HoldRemove
  <1>4. SendOff(s, p) = MakeTurnover(r)
    BY DEF SendOff, r, d
  <1> HIDE DEF r
  <1> QED BY <1>3, <1>4, HoldTurnover

(* Kept by the referee.                                                    *)
LEMMA FoulSeenCarries ==
  ASSUME PitchInv, CarryInv, FoulSeen
  PROVE  Carries(m')
  <1> DEFINE f == Top(m)  p == f.a  team == TeamOf(p)
             paid == [m EXCEPT !.bribes[team] = @ - 1]
             caught(s) == IF team \in s.ejected THEN SendOff(Pop(s), p)
                          ELSE Decide(Phase(s, 2), team)
  <1>1. Top(m).proc = "FOUL" /\ m.status # "error"
    BY DEF FoulSeen, Runs
  <1>2. m' \in {Pop(m), caught(m), [Pop(paid) EXCEPT !.turnover = FALSE], caught(paid)}
    BY DEF FoulSeen
  <1>3. Own(m)
    BY <1>1, OwnBegin
  <1>4. Own(paid)
    <2>1. /\ IsMatch(paid) /\ paid.from = m.from /\ paid.stance = m.stance /\ paid.has = m.has
          /\ paid.ball = m.ball /\ Kept(m, paid)
      BY <1>3 DEF Own, Lone, Body, IsMatch, Fields, Kept
    <2> HIDE DEF paid
    <2> QED BY <1>3, <2>1, OwnSame
  <1> HIDE DEF p
  <1>5. ASSUME NEW s, Own(s)
        PROVE  Carries(Pop(s)) /\ Carries([Pop(s) EXCEPT !.turnover = FALSE]) /\ Carries(caught(s))
    <2> DEFINE u == Pop(s)  t == [u EXCEPT !.turnover = FALSE]
    <2>1. Holding(u, {})
      BY <1>5, LonePop DEF Own
    <2>2. Holding(SendOff(u, p), {})
      <3> HIDE DEF u
      <3> QED BY <2>1, HoldSendOff
    <2>3. /\ IsMatch(t) /\ t.from = u.from /\ t.stance = u.stance /\ t.has = u.has
          /\ t.ball = u.ball /\ Kept(u, t)
      BY <2>1 DEF Holding, Body, IsMatch, Fields, Kept
    <2>4. Holding(t, {})
      <3> HIDE DEF u, t
      <3> QED BY <2>1, <2>3, SameOn
    <2>5. Carries(u) /\ Carries(t) /\ Carries(SendOff(u, p))
      <3> HIDE DEF u, t
      <3> QED BY <1>1, <2>1, <2>2, <2>4, HoldSound, EndSound DEF Harms
    <2> DEFINE v == Phase(s, 2)
    <2>6. Own(v) /\ Top(v).phase = 2
      <3>1. Lone(s, {}) /\ IsFrame(Top(s))
        BY <1>5 DEF Own, Lone
      <3>2. Writes(s, v, {}, [Top(s) EXCEPT !.phase = 2])
        BY <3>1, LonePhase
      <3>3. Own(v)
        BY <1>5, OwnOn
      <3> HIDE DEF v
      <3> QED BY <3>1, <3>2, <3>3 DEF Writes, IsFrame, Marks
    <2> HIDE DEF v, team
    <2>7. Own(Decide(v, team)) /\ Top(Decide(v, team)) = Top(v)
      BY <2>6, OwnOn, HoldDecide DEF Own, Lone
    <2>8. Carries(Decide(v, team))
      BY <1>1, <2>6, <2>7, EndFouling
    <2> QED BY <2>5, <2>8 DEF v
  <1> HIDE DEF paid, caught
  <1> QED BY <1>2, <1>3, <1>4, <1>5 DEF caught

(* Kept by a coach who argues the call.                                    *)
LEMMA ArgueCarries ==
  ASSUME PitchInv, CarryInv, Argue
  PROVE  Carries(m')
  <1> DEFINE p == Top(m).a  s == Answered(Pop(m))
             t == [s EXCEPT !.ejected = @ \cup {TeamOf(p)}]
  <1>1. Top(m).proc = "FOUL" /\ m.status # "error"
    BY DEF Argue, Asks
  <1>2. Holding(s, {})
    BY <1>1, ClearPop DEF Clear
  <1>3. m' \in {SendOff(s, p), SendOff(t, p), MakeTurnover(s)}
    BY DEF Argue
  <1> HIDE DEF s, p
  <1>4. /\ IsMatch(t) /\ t.from = s.from /\ t.stance = s.stance /\ t.has = s.has
        /\ t.ball = s.ball /\ Kept(s, t)
    BY <1>2 DEF Holding, Body, IsMatch, Fields, Kept
  <1> HIDE DEF t
  <1>5. Holding(t, {})
    BY <1>2, <1>4, SameOn
  <1>6. Holding(m', {})
    BY <1>2, <1>3, <1>5, HoldSendOff, HoldTurnover
  <1> QED BY <1>1, <1>6, HoldSound, EndSound DEF Harms

(* Kept by everything from a knockdown to a foul.                          *)
LEMMA HurtCarries ==
  ASSUME PitchInv, CarryInv, HurtNext
  PROVE  Carries(m')
  BY KnockedDownCarries, ArmourRollCarries, InjuryRollCarries, PatchCarries,
     CasualtyRollCarries, CasualtyCarries, FoulRollCarries, FoulSeenCarries, ArgueCarries
     DEF HurtNext

(* --------------------------------- TTM --------------------------------- *)
(* Those the thrown player falls on go down with him.                      *)
LEMMA HoldFelled ==
  ASSUME NEW s, Holding(s, {}), NEW mate, NEW n \in Nat, NEW w, DOMAIN w = 1 .. n
  PROVE  Holding(Felled(s, mate, w), {})
  <1> DEFINE D == [i \in DOMAIN w |-> [Frame("KNOCKDOWN", SlotAt(s, w[i]), 0, NoSq)
                                        EXCEPT !.k = "other", !.c = mate]]
             g(i) == [Frame("KNOCKDOWN", SlotAt(s, w[i]), 0, NoSq) EXCEPT !.k = "other", !.c = mate]
             t == Felled(s, mate, w)  S == s.stack  T == t.stack
             u == [s EXCEPT !.stack = @ \o D]
  <1>1. ASSUME NEW i \in 1 .. n PROVE Mute(g(i))
    <2> DEFINE f == g(i)
    <2>1. IsFrame(f) /\ f.proc = "KNOCKDOWN"
      BY DEF Frame, IsFrame, Marks
    <2> HIDE DEF f, g
    <2>2. Mute(f)
      BY <2>1 DEF Mute, Plain, Due
    <2> QED BY <2>2 DEF f
  <1> DEFINE X == {g(i) : i \in 1 .. n}
  <1>2. D = [i \in 1 .. n |-> g(i)]
    OBVIOUS
  <1>3. t = Err(s) \/ t = u
    BY Zenon DEF Felled
  <1> HIDE DEF t, D, g
  <1>4. D \in Seq(X) /\ Len(D) = n /\ \A i \in 1 .. n : D[i] = g(i)
    BY <1>2
  <1>5. IsStack(D) /\ \A i \in 1 .. Len(D) : Mute(D[i])
    <2>1. IsStack(D)
      BY <1>4, StackByItself
    <2>2. \A i \in 1 .. Len(D) : Mute(D[i])
      BY <1>1, <1>4
    <2> QED BY <2>1, <2>2
  <1>6. CASE t = Err(s)
    <2>1. /\ IsMatch(t) /\ IsBall(t.ball) /\ t.from = s.from /\ t.stance = s.stance
          /\ t.status = "error"
      BY <1>6 DEF Err, Holding, Body, IsMatch, Fields
    <2> QED BY <2>1 DEF Holding, Body, t
  <1>7. CASE t = u
    <2>1. /\ IsMatch(t) /\ t.ball = s.ball /\ t.from = s.from /\ t.stance = s.stance
          /\ t.has = s.has /\ t.status = s.status /\ T = S \o D
      BY <1>7 DEF Holding, Body, IsMatch, Fields
    <2>2. OnFeet(t) = OnFeet(s)
      BY <2>1, FeetOn
    <2>3. Body(t, {})
      BY <2>1, <2>2 DEF Holding, Body
    <2>4. ASSUME t.status # "error" PROVE Stays(t) /\ \A i \in Upper(t) : Mute(T[i])
      <3>1. IsStack(S) /\ Len(S) \in Nat /\ Len(D) \in Nat /\ Under \in Nat /\ Len(S) >= Under
        BY <1>5, <2>1, <2>4 DEF Holding, Stays, IsStack
      <3>2. /\ IsStack(T) /\ Len(T) = Len(S) + Len(D)
            /\ \A i \in 1 .. Len(S) : T[i] = S[i]
            /\ \A i \in 1 .. Len(T) : i > Len(S) => T[i] = D[i - Len(S)]
        BY <1>5, <2>1, <3>1, JoinedStack
      <3>3. \A i \in 1 .. Under : i \in 1 .. Len(S)
        BY <3>1
      <3>4. Stays(t)
        BY <2>1, <2>4, <3>1, <3>2, <3>3 DEF Holding, Stays
      <3>5. ASSUME NEW i \in Upper(t) PROVE Mute(T[i])
        <4> DEFINE l == Len(T)  k == Len(S)  d == Len(D)
        <4>1. i \in Under + 1 .. l /\ l = k + d /\ k \in Nat /\ d \in Nat /\ k >= Under
          BY <3>1, <3>2 DEF Upper
        <4>2. \/ i \in Under + 1 .. k /\ i \in 1 .. k
              \/ i \in 1 .. l /\ i > k /\ i - k \in 1 .. d
          <5> HIDE DEF l, k, d
          <5> QED BY <3>1, <4>1
        <4>3. CASE i \in Under + 1 .. k /\ i \in 1 .. k
          BY <2>1, <2>4, <3>2, <4>3 DEF Holding, Upper
        <4>4. CASE i \in 1 .. l /\ i > k /\ i - k \in 1 .. d
          BY <1>5, <3>2, <4>4
        <4> QED BY <4>2, <4>3, <4>4
      <3> QED BY <3>4, <3>5
    <2>5. Holding(t, {})
      BY <2>3, <2>4 DEF Holding
    <2> QED BY <2>5 DEF t
  <1> QED BY <1>3, <1>6, <1>7

(* A player picked up keeps what he has.                                   *)
LEMMA HoldLifted ==
  ASSUME NEW s, Holding(s, {}), NEW p
  PROVE  Holding(Lifted(s, p), {})
  <1> DEFINE t == Lifted(s, p)
  <1>1. /\ IsMatch(t) /\ t.from = s.from /\ t.stance = s.stance /\ t.has = s.has
        /\ t.ball = s.ball /\ Kept(s, t)
    BY DEF Lifted, Holding, Body, IsMatch, Fields, Kept
  <1> HIDE DEF t
  <1>2. Holding(t, {})
    BY <1>1, SameOn
  <1> QED BY <1>2 DEF t

(* He comes down on his feet, or falls.                                    *)
LEMMA HoldTouches ==
  ASSUME NEW l, Holding(l.s, {}), NEW p, NEW dazed, NEW t \in Touches(l, p, dazed)
  PROVE  Holding(t, {})
  <1> DEFINE s == l.s  u == Place(s, p, l.q)  v == [u EXCEPT !.stance[p] = "standing"]
             w == Carry(v, p)
  <1>1. t \in {KnockDown(w, p, "ttm", NoPlayer), CheckTd(w), w}
    BY DEF Touches
  <1>2. Holding(u, {})
    BY HoldPlace
  <1> HIDE DEF u
  <1>3. Holding(v, {})
    BY <1>2, HoldLaid DEF Stances
  <1> HIDE DEF v
  <1>4. Holding(w, {})
    BY <1>3, HoldCarry
  <1> HIDE DEF w
  <1> QED BY <1>1, <1>4, HoldDown, HoldTd

(* Who flies into the crowd leaves the ball to it.                         *)
LEMMA HoldIntoCrowd ==
  ASSUME NEW s, Holding(s, {}), NEW p, NEW q
  PROVE  Holding(IntoCrowd(s, p, q), {})
  <1> DEFINE t == MakeTurnover(s)
             loose == [t EXCEPT !.has = @ \ {p}, !.ball.carrier = NoPlayer, !.ball.state = "off"]
             in == IF p \in s.has THEN Push(loose, Frame("THROW_IN", 0, 0, Clamp(q))) ELSE t
             off == [in EXCEPT !.loc[p] = "reserves"]
             end == Push(off, Frame("INJURY", p, 1, NoSq))
  <1>1. IntoCrowd(s, p, q) = end
    BY DEF IntoCrowd
  <1>2. Holding(t, {}) /\ t.has = s.has
    BY HoldTurnover DEF Same
  <1> HIDE DEF t
  <1>3. Holding(in, {})
    <2>1. CASE p \in s.has
      <3>1. /\ IsMatch(loose) /\ IsBall(loose.ball) /\ loose.from = t.from
            /\ loose.stance = t.stance /\ loose.has = t.has \ {p} /\ Kept(t, loose)
        BY <1>2, ZenonT(30) DEF Holding, Body, IsMatch, Fields, IsBall, Kept
      <3> HIDE DEF loose
      <3>2. t.status # "error" => loose.has = {}
        BY <1>2, <2>1, <3>1 DEF Holding, Body
      <3>3. Body(loose, {})
        BY <1>2, <3>1, <3>2 DEF Holding, Body, Kept
      <3>4. Holding(loose, {})
        BY <1>2, <3>1, <3>3, KeptOn
      <3> DEFINE c == Clamp(q)
      <3>5. in = Push(loose, Frame("THROW_IN", 0, 0, c))
        BY <2>1
      <3> HIDE DEF c, in
      <3> QED BY <3>4, <3>5, HoldFrame
    <2>2. CASE p \notin s.has
      BY <1>2, <2>2
    <2> QED BY <2>1, <2>2
  <1> HIDE DEF in
  <1>4. Holding(off, {})
    <2>1. /\ IsMatch(off) /\ off.from = in.from /\ off.stance = in.stance /\ off.has = in.has
          /\ off.ball = in.ball /\ Kept(in, off)
      BY <1>3 DEF Holding, Body, IsMatch, Fields, Kept
    <2> HIDE DEF off
    <2> QED BY <1>3, <2>1, SameOn
  <1> HIDE DEF off
  <1>5. Holding(end, {})
    BY <1>4, HoldFrame
  <1> QED BY <1>1, <1>5

(* A player kicked rather than thrown.                                     *)
LEMMA HoldKickedDown ==
  ASSUME NEW s, Holding(s, {}), NEW p, NEW q, NEW t \in KickedDown(s, p, q)
  PROVE  Holding(t, {})
  <1> DEFINE l == IF q \in Squares /\ Empty(s, q) THEN q ELSE s.at[p]
             u == Place(s, p, l)  down == PlaceProne(u, p)
             lost == TurnoverIf(down, TeamOf(p) = s.active)
             d == DropBall(lost)
             spilt == IF p \in s.has THEN Bounce(d, l) ELSE down
             f == Frame("CASUALTY", p, 0, NoSq)
  <1>1. t \in {Remove(spilt, p, "ko"), Push(spilt, f)}
    BY DEF KickedDown
  <1> HIDE DEF l
  <1>2. Holding(u, {}) /\ u.has = s.has
    BY HoldPlace DEF Same
  <1> HIDE DEF u
  <1>3. Holding(down, {} \cup {p}) /\ (p \notin s.has => Holding(down, {}))
    BY <1>2, HoldLaid DEF PlaceProne, Stances
  <1> HIDE DEF down
  <1>4. Holding(lost, {} \cup {p})
    BY <1>3, HoldTurnoverIf
  <1> HIDE DEF lost
  <1>5. Holding(d, {})
    BY <1>4, HoldDrop
  <1> HIDE DEF d
  <1>6. Holding(Bounce(d, l), {})
    BY <1>5, HoldBounce
  <1>7. Holding(spilt, {})
    BY <1>3, <1>6
  <1> HIDE DEF spilt
  <1>8. Holding(Remove(spilt, p, "ko"), {}) /\ Holding(Push(spilt, f), {})
    BY <1>7, HoldRemove, HoldFrame
  <1> QED BY <1>1, <1>8

(* Kept by every flight of a thrown player.                                *)
LEMMA HoldFlights ==
  ASSUME NEW s, Holding(s, {}), NEW f, NEW fumble, NEW t \in Flights(s, f, fumble)
  PROVE  Holding(t, {})
  <1> DEFINE p == f.a  dazed == ~Standing(s, p) \/ p \in s.distracted  air == Lifted(s, p)
             ends == IF fumble THEN Around(s.at[f.b]) ELSE Wander(Wander(Wander({f.sq})))
  <1>1. \/ \E q \in ends : t \in KickedDown(air, p, q)
        \/ \E l \in Landings(air, p, ends) :
             IF l.q \in Squares THEN t \in Touches(l, p, dazed) ELSE t = IntoCrowd(l.s, p, l.q)
    <2> DEFINE hit == fumble /\ "kick" \in f.data
    <2>1. t \in IF hit THEN UNION {KickedDown(air, p, q) : q \in ends}
                ELSE UNION {IF l.q \in Squares THEN Touches(l, p, dazed)
                            ELSE {IntoCrowd(l.s, p, l.q)} : l \in Landings(air, p, ends)}
      BY Zenon DEF Flights
    <2> HIDE DEF hit, p, air, ends, dazed
    <2>2. \/ t \in UNION {KickedDown(air, p, q) : q \in ends}
          \/ t \in UNION {IF l.q \in Squares THEN Touches(l, p, dazed)
                          ELSE {IntoCrowd(l.s, p, l.q)} : l \in Landings(air, p, ends)}
      BY <2>1
    <2> QED BY <2>2
  <1>2. Holding(air, {})
    BY HoldLifted
  <1> HIDE DEF air, ends, dazed
  <1>3. CASE \E q \in ends : t \in KickedDown(air, p, q)
    BY <1>2, <1>3, HoldKickedDown
  <1>4. CASE \E l \in Landings(air, p, ends) :
               IF l.q \in Squares THEN t \in Touches(l, p, dazed) ELSE t = IntoCrowd(l.s, p, l.q)
    <2>1. PICK l \in Landings(air, p, ends) :
               IF l.q \in Squares THEN t \in Touches(l, p, dazed) ELSE t = IntoCrowd(l.s, p, l.q)
      BY <1>4
    <2>2. PICK w \in Tumbles(air, ends) : l.s = Felled(air, p, w)
      BY DEF Landings
    <2>3. PICK n \in Nat : w \in [1 .. n -> {q \in Squares : ~Empty(air, q)}]
      BY DEF Tumbles
    <2>4. Holding(l.s, {})
      BY <1>2, <2>2, <2>3, HoldFelled
    <2> QED BY <2>1, <2>4, HoldTouches, HoldIntoCrowd
  <1> QED BY <1>1, <1>3, <1>4

(* A player who is eaten leaves the ball, which bounces.                   *)
LEMMA HoldEaten ==
  ASSUME NEW s, Holding(s, {}), NEW p
  PROVE  Holding(Eaten(s, p), {})
  <1> DEFINE d == IF p \in s.has THEN DropBall(s) ELSE s  r == Remove(d, p, "cas")
             gone == MakeTurnover(r)
  <1>1. Eaten(s, p) = IF p \in s.has THEN Bounce(gone, s.at[p]) ELSE gone
    BY DEF Eaten
  <1>2. Holding(d, {})
    BY HoldDrop
  <1> HIDE DEF d
  <1>3. Holding(r, {})
    BY <1>2, HoldRemove
  <1> HIDE DEF r
  <1>4. Holding(gone, {})
    BY <1>3, HoldTurnover
  <1> HIDE DEF gone
  <1> QED BY <1>1, <1>4, HoldBounce

(* Kept by everything in Throw Team-mate.                                  *)
LEMMA TtmCarries ==
  ASSUME PitchInv, CarryInv, Ttm
  PROVE  Carries(m')
  <1> DEFINE f == Top(m)  s == Pop(m)
  <1>1. m.status # "error" /\ Top(m).proc = "TTM"
    BY DEF Ttm, Runs
  <1>2. \/ m' = Eaten(s, f.a)
        \/ \E fumble : m' \in Flights(s, f, fumble)
    BY Zenon DEF Ttm
  <1>3. Holding(s, {})
    BY <1>1, BeginLone, LonePop
  <1> HIDE DEF s, f
  <1>4. Holding(m', {})
    BY <1>2, <1>3, HoldEaten, HoldFlights
  <1> QED BY <1>1, <1>4, EndHeld DEF Harms

(* ------------------------------- setting up ---------------------------- *)
(* The handler's own frame is on top and nobody has the ball.              *)
Airy(s) == Own(s) /\ s.has = {}

(* So it is in a setup and in a kick-off, until the ball has come down.    *)
LEMMA AiryBegin ==
  ASSUME PitchInv, CarryInv, m.status = "decision" \/ m.status = "running",
         Top(m).proc \in {"SETUP", "KICKOFF"}, Top(m).proc = "KICKOFF" => Top(m).phase # 3
  PROVE  Airy(m) /\ Airy(Answered(m)) /\ m.status # "error" /\ Top(m).a \in Teams
  <1>1. m.has = {} /\ m.status # "error" /\ Top(m).a \in Teams
    BY OpenAsked
  <1>2. Own(m) /\ Own(Answered(m))
    BY <1>1, OwnBegin, OwnOn
  <1>3. Answered(m).has = {}
    BY OpenAsked
  <1> QED BY <1>1, <1>2, <1>3 DEF Airy

(* Then what becomes of the players does not matter,                       *)
LEMMA AiryOn ==
  ASSUME NEW s, Airy(s), NEW t, IsMatch(t), t.from = s.from, Kept(s, t), IsBall(t.ball),
         t.has = {}, t.stance \in [Slots -> Stances]
  PROVE  Airy(t)
  <1>1. Body(t, {})
    BY DEF Airy, Own, Lone, Body
  <1> QED BY <1>1, KeptOn DEF Airy, Own

(* nor what the handler writes in its own frame or asks.                   *)
LEMMA AiryWrites ==
  ASSUME NEW s, Airy(s), NEW x
  PROVE  /\ Airy(Phase(s, x)) /\ Airy(Mark(s, x)) /\ Airy(Aim(s, x))
         /\ Airy(Answered(s)) /\ Airy(Decide(s, x))
  <1>1. Lone(s, {}) /\ s.status # "error"
    BY DEF Airy, Own, Lone
  <1>2. /\ Phase(s, x).has = {} /\ Mark(s, x).has = {} /\ Aim(s, x).has = {}
        /\ Answered(s).has = {} /\ Decide(s, x).has = {}
    BY <1>1, WritesOn, HoldAnswered, HoldDecide DEF Airy, Adds
  <1> QED BY <1>2, OwnOn DEF Airy

(* The coach's moves,                                                      *)
LEMMA AiryMoves ==
  ASSUME NEW s, Airy(s), NEW p, NEW q, NEW l
  PROVE  Airy(Place(s, p, q)) /\ Airy(Remove(s, p, l))
  <1>1. Lone(s, {}) /\ s.has = {}
    BY DEF Airy, Own
  <1>2. Airy(Place(s, p, q))
    BY <1>1, HoldPlace DEF Airy, Own, Same
  <1>3. Airy(Remove(s, p, l))
    BY <1>1, HoldRemove DEF Airy, Own
  <1> QED BY <1>2, <1>3

(* players put on squares,                                                 *)
LEMMA AirySeated ==
  ASSUME NEW s, Airy(s), NEW P, NEW Q, NEW way
  PROVE  Airy(Seated(s, P, Q, way))
  <1> DEFINE t == Seated(s, P, Q, way)
  <1>1. PICK l, a, g : t = [s EXCEPT !.loc = l, !.at = a, !.grid = g]
    BY Zenon DEF Seated
  <1> HIDE DEF t
  <1>2. IsMatch(s) /\ IsBall(s.ball) /\ s.stance \in [Slots -> Stances] /\ s.has = {}
    BY DEF Airy, Own, Lone, Body
  <1>3. /\ IsMatch(t) /\ t.from = s.from /\ Kept(s, t) /\ t.ball = s.ball
        /\ t.has = {} /\ t.stance = s.stance
    BY <1>1, <1>2 DEF IsMatch, Fields, Kept
  <1>4. Airy(t)
    BY <1>2, <1>3, AiryOn
  <1> QED BY <1>4 DEF t

(* those over the limit taken off,                                         *)
LEMMA AirySurplus ==
  ASSUME NEW s, Airy(s), NEW team
  PROVE  Airy(SurplusOff(s, team))
  <1> DEFINE t == SurplusOff(s, team)
             off == {p \in OnSide(s, team) : Rank(p, OnSide(s, team)) >= Wanted(s, team)}
             x == [p \in Slots |-> IF p \in off THEN "standing" ELSE s.stance[p]]
  <1>1. PICK l, g, h : t = [s EXCEPT !.loc = l, !.stance = x, !.grid = g, !.has = @ \ h]
    BY Zenon DEF SurplusOff
  <1> HIDE DEF t, off
  <1>2. IsMatch(s) /\ IsBall(s.ball) /\ s.stance \in [Slots -> Stances] /\ s.has = {}
    BY DEF Airy, Own, Lone, Body
  <1>3. x \in [Slots -> Stances]
    BY <1>2 DEF Stances
  <1> HIDE DEF x
  <1>4. /\ IsMatch(t) /\ t.from = s.from /\ Kept(s, t) /\ t.ball = s.ball
        /\ t.has = {} /\ t.stance = x
    BY <1>1, <1>2 DEF IsMatch, Fields, Kept
  <1>5. Airy(t)
    BY <1>2, <1>3, <1>4, AiryOn
  <1> QED BY <1>5 DEF t

(* and the whole of setup_autofix.                                         *)
LEMMA AiryRepaired ==
  ASSUME NEW s, Airy(s), NEW team
  PROVE  Airy(Repaired(s, team))
  <1> DEFINE a == SurplusOff(s, team)  b == WideCleared(a, team, "top")
             c == WideCleared(b, team, "bottom")  d == LineManned(c, team)
             e == FilledUp(d, team)
  <1>1. Repaired(s, team) \in {s, e}
    BY Zenon DEF Repaired, Autofix
  <1>2. Airy(a)
    BY AirySurplus
  <1> HIDE DEF a
  <1>3. Airy(b)
    <2>1. \E P, Q, way : b = Seated(a, P, Q, way)
      BY Zenon DEF WideCleared
    <2> QED BY <1>2, <2>1, AirySeated
  <1> HIDE DEF b
  <1>4. Airy(c)
    <2>1. \E P, Q, way : c = Seated(b, P, Q, way)
      BY Zenon DEF WideCleared
    <2> QED BY <1>3, <2>1, AirySeated
  <1> HIDE DEF c
  <1>5. Airy(d)
    <2>1. \E P, Q, way : d = Seated(c, P, Q, way)
      BY Zenon DEF LineManned
    <2> QED BY <1>4, <2>1, AirySeated
  <1> HIDE DEF d
  <1>6. Airy(e)
    <2>1. \E P, Q, way : e = Seated(d, P, Q, way)
      BY Zenon DEF FilledUp
    <2> QED BY <1>5, <2>1, AirySeated
  <1> HIDE DEF e
  <1> QED BY <1>1, <1>6

(* A frame of SETUP or of a KICKOFF may be written over.                   *)
LEMMA AirySet ==
  ASSUME NEW s, Airy(s), NEW f, IsFrame(f), f.proc = Top(s).proc, f.a = Top(s).a
  PROVE  Airy(SetTop(s, f))
  BY LoneSetTop DEF Airy, Own, Writes, Adds

(* Through with nobody waiting.                                            *)
LEMMA AiryEnd ==
  ASSUME PitchInv, CarryInv, NEW t, Airy(t), Top(m).proc \in {"SETUP", "KICKOFF"},
         m.status # "error"
  PROVE  Carries(t) /\ Carries(Pop(t))
  <1>1. Carries(t)
    BY OwnEnd DEF Airy, Harms
  <1>2. Holding(Pop(t), {})
    BY LonePop DEF Airy, Own
  <1> QED BY <1>1, <1>2, EndHeld DEF Harms

(* Kept by everything in a setup.                                          *)
LEMMA SetupCarries ==
  ASSUME PitchInv, CarryInv, SetupNext
  PROVE  Carries(m')
  <1> DEFINE a == Answered(m)  u == Used(m)
  <1>1. Top(m).proc = "SETUP" /\ (m.status = "running" \/ m.status = "decision")
    BY DEF SetupNext, SetupAsk, SetupPlace, SetupRemove, SetupDone, SettingUp
  <1>2. Airy(m) /\ Airy(a) /\ m.status # "error"
    BY <1>1, AiryBegin
  <1>3. Airy(u)
    <2> DEFINE f == [Top(m) EXCEPT !.b = @ + 1]
    <2>1. IsFrame(Top(m)) /\ IsMatch(m)
      BY <1>2 DEF Airy, Own, Lone, Body
    <2>2. IsFrame(f) /\ f.proc = Top(m).proc /\ f.a = Top(m).a
      BY <2>1 DEF IsFrame, Marks
    <2>3. u = SetTop(m, f)
      BY <2>1 DEF IsMatch, Fields, Used, SetTop, Top
    <2> HIDE DEF f, u
    <2> QED BY <1>2, <2>2, <2>3, AirySet
  <1> HIDE DEF u, a
  <1>4. CASE SetupAsk
    <2>1. \/ \E team : m' = Decide(m, team)
          \/ m' = Pop(m)
      BY <1>4 DEF SetupAsk
    <2> QED BY <1>1, <1>2, <2>1, AiryWrites, AiryEnd
  <1>5. CASE SetupPlace
    <2>1. PICK p, q : m' = Answered(Place(u, p, q))
      BY <1>5, Zenon DEF SetupPlace, u
    <2>2. Airy(Place(u, p, q))
      BY <1>3, AiryMoves
    <2> QED BY <1>1, <1>2, <2>1, <2>2, AiryWrites, AiryEnd
  <1>6. CASE SetupRemove
    <2>1. PICK p : m' = Answered(Remove(u, p, "reserves"))
      BY <1>6, Zenon DEF SetupRemove, u
    <2>2. Airy(Remove(u, p, "reserves"))
      BY <1>3, AiryMoves
    <2> QED BY <1>1, <1>2, <2>1, <2>2, AiryWrites, AiryEnd
  <1>7. CASE SetupDone
    <2> DEFINE s == Repaired(a, SetupTeam)
               t == [s EXCEPT !.stack[Len(s.stack)].b = 0, !.stack[Len(s.stack)].phase = @ + 1]
               f == [Top(s) EXCEPT !.b = 0, !.phase = @ + 1]
    <2>1. m' = t
      BY <1>7, Zenon DEF SetupDone, a
    <2>2. Airy(s)
      BY <1>2, AiryRepaired
    <2> HIDE DEF s
    <2>3. IsFrame(Top(s)) /\ IsMatch(s)
      BY <2>2 DEF Airy, Own, Lone, Body
    <2>4. IsFrame(f) /\ f.proc = Top(s).proc /\ f.a = Top(s).a
      BY <2>3 DEF IsFrame, Marks
    <2>5. IsStack(s.stack) /\ Len(s.stack) > 0
      BY <2>2 DEF Airy, Own, Lone, Stays
    <2>6. t = SetTop(s, f)
      BY <2>3, <2>5, ZenonT(30) DEF IsMatch, Fields, SetTop, Top
    <2> HIDE DEF f, t
    <2> QED BY <1>1, <1>2, <2>1, <2>2, <2>4, <2>6, AirySet, AiryEnd
  <1> QED BY <1>4, <1>5, <1>6, <1>7 DEF SetupNext

(* ------------------------------- kicking off --------------------------- *)
(* The kick comes down.                                                    *)
LEMMA KickLandsCarries ==
  ASSUME PitchInv, CarryInv, m.status # "error", NEW s, Airy(s), Top(m).proc = "KICKOFF"
  PROVE  Carries(KickLands(s))
  <1> DEFINE on == Phase(s, 3)
  <1>1. \/ KickLands(s) = on
        \/ \E q : KickLands(s) = Push(on, Frame("CATCH", SlotAt(s, q), 0, NoSq))
        \/ \E q : KickLands(s) = Bounce(on, q)
    BY DEF KickLands
  <1>2. Airy(on)
    BY AiryWrites
  <1> HIDE DEF on
  <1>3. Holding(on, {})
    BY <1>2, LoneHolds DEF Airy, Own, Due
  <1>4. \A p : Holding(Push(on, Frame("CATCH", p, 0, NoSq)), {})
    BY <1>3, HoldFrame
  <1>5. Holding(KickLands(s), {})
    BY <1>1, <1>3, <1>4, HoldBounce
  <1> QED BY <1>5, EndHeld DEF Harms

(* The kick deviates, and the ball is blown about in the air.              *)
LEMMA AiryFlown ==
  ASSUME NEW s, Airy(s), NEW q
  PROVE  Airy([s EXCEPT !.ball.sq = q]) /\ Airy(InAir(s, q))
  <1>1. IsMatch(s) /\ IsBall(s.ball) /\ s.stance \in [Slots -> Stances] /\ s.has = {}
    BY DEF Airy, Own, Lone, Body
  <1>2. ASSUME NEW t, t = [s EXCEPT !.ball.sq = q] \/ t = InAir(s, q)
        PROVE  Airy(t)
    <2>1. /\ IsMatch(t) /\ t.from = s.from /\ Kept(s, t) /\ t.has = {}
          /\ t.stance = s.stance
          /\ t.ball \in {[s.ball EXCEPT !.sq = q], [s.ball EXCEPT !.state = "air", !.sq = q]}
      BY <1>1, <1>2, ZenonT(30) DEF IsMatch, Fields, Kept, InAir
    <2>2. IsBall(t.ball)
      BY <1>1, <2>1 DEF IsBall
    <2> QED BY <1>1, <2>1, <2>2, AiryOn
  <1> QED BY <1>2

(* The events of the kick-off give nobody the ball: Changing Weather,      *)
LEMMA AiryGust ==
  ASSUME NEW s, Airy(s), NEW t \in Gust(s)
  PROVE  Airy(t)
  <1> DEFINE blown(u) == {[u EXCEPT !.ball.sq = Byte(q)] : q \in Around(u.ball.sq)}
             on(ts) == UNION {IF Misplaced(u, Top(s).a) THEN {u} ELSE blown(u) : u \in ts}
  <1>1. t \in on(on(blown(s)))
    BY Zenon DEF Gust
  <1>2. \A u : Airy(u) => \A v \in blown(u) : Airy(v)
    BY AiryFlown
  <1>3. \A u \in blown(s) : Airy(u)
    BY <1>2
  <1> HIDE DEF blown
  <1>4. ASSUME NEW ts, \A u \in ts : Airy(u)
        PROVE  \A v \in on(ts) : Airy(v)
    <2> TAKE v \in on(ts)
    <2>1. PICK u \in ts : v \in IF Misplaced(u, Top(s).a) THEN {u} ELSE blown(u)
      OBVIOUS
    <2>2. Airy(u)
      BY <1>4
    <2>3. v = u \/ v \in blown(u)
      BY <2>1
    <2> QED BY <1>2, <2>2, <2>3
  <1> HIDE DEF on
  <1>5. \A v \in on(on(blown(s))) : Airy(v)
    BY <1>3, <1>4
  <1> QED BY <1>1, <1>5

(* what touches neither the players nor the ball,                          *)
LEMMA AirySame ==
  ASSUME NEW s, Airy(s), NEW t, NEW x, NEW y,
         \/ t = [s EXCEPT !.bribes = x]
         \/ t = [s EXCEPT !.cheer = x]
         \/ t = [s EXCEPT !.ma[y] = x]
         \/ t = [s EXCEPT !.active = x]
         \/ t = [s EXCEPT !.turnover = y, !.active = x]
         \/ t = [s EXCEPT !.acting = x]
  PROVE  Airy(t)
  <1>1. IsMatch(s) /\ IsBall(s.ball) /\ s.stance \in [Slots -> Stances] /\ s.has = {}
    BY DEF Airy, Own, Lone, Body
  <1> DEFINE Like == /\ IsMatch(t) /\ t.from = s.from /\ Kept(s, t) /\ t.has = {}
                     /\ t.stance = s.stance /\ t.ball = s.ball
  <1>2. CASE t = [s EXCEPT !.ma[y] = x]
    <2>1. Like
      BY <1>1, <1>2, Zenon DEF IsMatch, Fields, Kept
    <2> QED BY <1>1, <2>1, AiryOn
  <1>3. CASE t = [s EXCEPT !.bribes = x] \/ t = [s EXCEPT !.cheer = x]
    <2>1. Like
      BY <1>1, <1>3 DEF IsMatch, Fields, Kept
    <2> QED BY <1>1, <2>1, AiryOn
  <1>4. CASE t = [s EXCEPT !.active = x] \/ t = [s EXCEPT !.acting = x]
    <2>1. Like
      BY <1>1, <1>4 DEF IsMatch, Fields, Kept
    <2> QED BY <1>1, <2>1, AiryOn
  <1>5. CASE t = [s EXCEPT !.turnover = y, !.active = x]
    <2> DEFINE u == [s EXCEPT !.turnover = y]
    <2>1. IsMatch(u) /\ u.from = s.from /\ Kept(s, u) /\ u.has = {} /\ u.stance = s.stance
          /\ u.ball = s.ball /\ t = [u EXCEPT !.active = x]
      BY <1>1, <1>5 DEF IsMatch, Fields, Kept
    <2> HIDE DEF u
    <2>2. Like
      BY <1>1, <2>1, Zenon DEF IsMatch, Fields, Kept
    <2> QED BY <1>1, <2>2, AiryOn
  <1> QED BY <1>2, <1>3, <1>4, <1>5

(* Dodgy Snack,                                                            *)
LEMMA AirySnacked ==
  ASSUME NEW s, Airy(s), NEW team, NEW t \in Snacked(s, team)
  PROVE  Airy(t)
  <1>1. \/ t = s
        \/ \E p \in OnSide(s, team) : \/ t = [s EXCEPT !.ma[p] = IF @ > 1 THEN @ - 1 ELSE @]
                                      \/ t = Remove(s, p, "reserves")
    BY DEF Snacked
  <1>2. ASSUME NEW p, t = [s EXCEPT !.ma[p] = IF @ > 1 THEN @ - 1 ELSE @]
        PROVE  Airy(t)
    <2>1. \E x : t = [s EXCEPT !.ma[p] = x]
      BY <1>2, Zenon
    <2> QED BY <2>1, AirySame, Zenon
  <1>3. ASSUME NEW p, t = Remove(s, p, "reserves")
        PROVE  Airy(t)
    BY <1>3, AiryMoves
  <1> QED BY <1>1, <1>2, <1>3

(* and the others that no coach is asked about.                            *)
LEMMA AiryEvent ==
  ASSUME NEW s, Airy(s), NEW t \in QuietEvents(s)
  PROVE  Airy(t)
  <1> DEFINE invaded == UNION {Invaded(s, ts) : ts \in {{0}, {1}, Teams}}
             gusty == IF Misplaced(s, Top(s).a) THEN {} ELSE Gust(s)
             bribed == {[s EXCEPT !.bribes = [x \in Teams |-> @[x] + 1]]}
             cheered == {[s EXCEPT !.cheer = @ \cup ts] : ts \in {{0}, {1}, Teams}}
             both == UNION {Snacked(u, 1) : u \in Snacked(s, 0)}
  <1>1. QuietEvents(s) = {s} \cup invaded \cup gusty \cup bribed \cup cheered
                           \cup Snacked(s, 0) \cup Snacked(s, 1) \cup both
    BY Zenon DEF QuietEvents
  <1>2. t \in invaded => \E ts : t \in Invaded(s, ts)
    OBVIOUS
  <1>3. t \in gusty => t \in Gust(s)
    OBVIOUS
  <1>4. t \in bribed => \E x : t = [s EXCEPT !.bribes = x]
    BY Zenon
  <1>5. t \in cheered => \E x : t = [s EXCEPT !.cheer = x]
    BY Zenon
  <1>6. t \in both => \E u \in Snacked(s, 0) : t \in Snacked(u, 1)
    OBVIOUS
  <1> HIDE DEF invaded, gusty, bribed, cheered, both
  <1>7. \/ t = s
        \/ \E ts : t \in Invaded(s, ts)
        \/ t \in Gust(s)
        \/ \E x : t = [s EXCEPT !.bribes = x]
        \/ \E x : t = [s EXCEPT !.cheer = x]
        \/ t \in Snacked(s, 0)
        \/ t \in Snacked(s, 1)
        \/ \E u \in Snacked(s, 0) : t \in Snacked(u, 1)
    BY <1>1, <1>2, <1>3, <1>4, <1>5, <1>6
  <1>8. ASSUME NEW ts, t \in Invaded(s, ts) PROVE Airy(t)
    <2>1. PICK ps : t = Stun(s, ps)
      BY <1>8 DEF Invaded
    <2> DEFINE x == [p \in Slots |-> IF p \in ps THEN "stunned" ELSE s.stance[p]]
    <2>2. t = [s EXCEPT !.stance = x]
      BY <2>1, Zenon DEF Stun
    <2>3. IsMatch(s) /\ IsBall(s.ball) /\ s.stance \in [Slots -> Stances] /\ s.has = {}
      BY DEF Airy, Own, Lone, Body
    <2>4. x \in [Slots -> Stances]
      BY <2>3 DEF Stances
    <2> HIDE DEF x
    <2>5. /\ IsMatch(t) /\ t.from = s.from /\ Kept(s, t) /\ t.has = {} /\ t.ball = s.ball
          /\ t.stance = x
      BY <2>2, <2>3 DEF IsMatch, Fields, Kept
    <2> QED BY <2>3, <2>4, <2>5, AiryOn
  <1>9. CASE \/ \E x : t = [s EXCEPT !.bribes = x]
             \/ \E x : t = [s EXCEPT !.cheer = x]
    BY <1>9, AirySame, Zenon
  <1>10. CASE t \in Gust(s)
    BY <1>10, AiryGust
  <1>11. CASE \/ t \in Snacked(s, 0) \/ t \in Snacked(s, 1)
              \/ \E u \in Snacked(s, 0) : t \in Snacked(u, 1)
    BY <1>11, AirySnacked
  <1> QED BY <1>7, <1>8, <1>9, <1>10, <1>11

(* What a handler of the KICKOFF begins with, before the ball is down.     *)
LEMMA AiryKick ==
  ASSUME PitchInv, CarryInv, NEW n, n # 3, Runs("KICKOFF", n) \/ Asks("KICKOFF", n)
  PROVE  /\ Airy(m) /\ Airy(Answered(m)) /\ m.status # "error" /\ Top(m).proc = "KICKOFF"
  <1>1. Top(m).proc = "KICKOFF" /\ (m.status = "running" \/ m.status = "decision") /\ Top(m).phase # 3
    BY DEF Runs, Asks
  <1> QED BY <1>1, AiryBegin

(* A coach is asked in the window an event opens.                          *)
LEMMA AiryWindow ==
  ASSUME NEW s, Airy(s), NEW n, NEW x, NEW y, NEW team
  PROVE  Airy(Window(s, n, x, y, team))
  <1> DEFINE u == Aim(s, <<x, y>>)  v == Phase(u, n)
  <1>1. Window(s, n, x, y, team) = Decide(v, team)
    BY DEF Window, Budgets, Aim
  <1>2. Airy(u)
    BY AiryWrites
  <1> HIDE DEF u
  <1>3. Airy(v)
    BY <1>2, AiryWrites
  <1> HIDE DEF v
  <1> QED BY <1>1, <1>3, AiryWrites

(* Kept by the kick.                                                       *)
LEMMA KickOffCarries ==
  ASSUME PitchInv, CarryInv, KickOff
  PROVE  Carries(m')
  <1>1. Airy(m) /\ m.status # "error" /\ Top(m).proc = "KICKOFF"
    <2>1. Runs("KICKOFF", 1)
      BY DEF KickOff
    <2> QED BY <2>1, AiryKick
  <1>2. PICK s \in Deviations(m) :
       \/ \E t \in QuietEvents(s) : m' = KickLands(t)
       \/ m' = Decide(Phase(s, 4), Receiver)
       \/ \E n \in 4 .. 6 :
            \/ m' = Window(s, 5, n, SetupBudget, Kicker)
            \/ m' = Window(s, 6, n, 0, Receiver)
            \/ m' = [Window(s, 7, n, 0, Kicker) EXCEPT !.active = Kicker]
    BY Zenon DEF KickOff
  <1>3. Airy(s)
    <2> DEFINE most == IF \E p \in OnSide(m, Top(m).a) : Has(m, p, "KICK")
                       THEN 0 .. FarthestKick \div 2 ELSE 1 .. FarthestKick
    <2>1. Deviations(m) = {InAir(m, Byte(Along(Top(m).sq, d, n))) : d \in Dirs, n \in most}
      BY DEF Deviations
    <2> HIDE DEF most
    <2>2. \E q : s = InAir(m, q)
      BY <2>1
    <2> QED BY <1>1, <2>2, AiryFlown
  <1>4. CASE \E t \in QuietEvents(s) : m' = KickLands(t)
    BY <1>1, <1>3, <1>4, AiryEvent, KickLandsCarries
  <1>5. CASE m' = Decide(Phase(s, 4), Receiver)
    <2>1. Airy(Phase(s, 4))
      BY <1>3, AiryWrites
    <2>2. Airy(m')
      BY <1>5, <2>1, AiryWrites
    <2> QED BY <1>1, <2>2, AiryEnd
  <1>6. ASSUME NEW n, m' = Window(s, 5, n, SetupBudget, Kicker) \/ m' = Window(s, 6, n, 0, Receiver)
        PROVE  Carries(m')
    <2>1. Airy(m')
      BY <1>3, <1>6, AiryWindow
    <2> QED BY <1>1, <2>1, AiryEnd
  <1>7. ASSUME NEW n, m' = [Window(s, 7, n, 0, Kicker) EXCEPT !.active = Kicker]
        PROVE  Carries(m')
    <2> DEFINE w == Window(s, 7, n, 0, Kicker)
    <2>1. Airy(w)
      BY <1>3, AiryWindow
    <2> HIDE DEF w
    <2>2. \E x : m' = [w EXCEPT !.active = x]
      BY <1>7, Zenon DEF w
    <2>3. Airy(m')
      BY <2>1, <2>2, AirySame, Zenon
    <2> QED BY <1>1, <2>3, AiryEnd
  <1> QED BY <1>2, <1>4, <1>5, <1>6, <1>7

(* Kept by the coaches asked for a target and in a window.                 *)
LEMMA KickAskCarries ==
  ASSUME PitchInv, CarryInv, KickAsk \/ KickTarget \/ WindowAsk
  PROVE  Carries(m')
  <1>1. \E n : n # 3 /\ (Runs("KICKOFF", n) \/ Asks("KICKOFF", n))
    BY DEF KickAsk, WindowAsk, KickTarget
  <1>2. Airy(m) /\ m.status # "error" /\ Top(m).proc = "KICKOFF"
    BY <1>1, AiryKick
  <1>3. CASE KickAsk \/ WindowAsk
    <2>1. \E team : m' = Decide(m, team)
      BY <1>3 DEF KickAsk, WindowAsk
    <2> QED BY <1>2, <2>1, AiryWrites, AiryEnd
  <1>4. CASE KickTarget
    <2>1. PICK q : m' = Answered(Phase(Aim(m, q), 1))
      BY <1>4, Zenon DEF KickTarget
    <2>2. Airy(Aim(m, q))
      BY <1>2, AiryWrites
    <2>3. Airy(Phase(Aim(m, q), 1))
      BY <2>2, AiryWrites
    <2>4. Airy(m')
      BY <2>1, <2>3, AiryWrites
    <2> QED BY <1>2, <2>4, AiryEnd
  <1> QED BY <1>3, <1>4

(* Kept by High Kick.                                                      *)
LEMMA HighKickCarries ==
  ASSUME PitchInv, CarryInv, HighKick
  PROVE  Carries(m')
  <1> DEFINE s == Answered(m)
  <1>1. Airy(s) /\ m.status # "error" /\ Top(m).proc = "KICKOFF"
    <2>1. Asks("KICKOFF", 4)
      BY DEF HighKick
    <2> QED BY <2>1, AiryKick
  <1>2. \/ m' = KickLands(s)
        \/ \E p, q : m' = KickLands(Place(s, p, q))
    BY Zenon DEF HighKick
  <1> HIDE DEF s
  <1> QED BY <1>1, <1>2, AiryMoves, KickLandsCarries

(* Whom a player used in a window places or takes off has not got the ball. *)
LEMMA SpentCarries ==
  ASSUME PitchInv, CarryInv, NEW n, n # 3, Asks("KICKOFF", n), NEW r, NEW p, NEW q
  PROVE  LET u == Spend(m, r) IN
         /\ Carries(Answered(Place(u, p, q)))
         /\ Carries(Answered(Remove(u, p, "reserves")))
  <1> DEFINE u == Spend(m, r)
  <1>1. Airy(m) /\ m.status # "error" /\ Top(m).proc = "KICKOFF"
    BY AiryKick
  <1>2. Airy(u)
    <2>1. PICK x : u = Aim(Mark(m, {r}), x)
      BY Zenon DEF Spend
    <2>2. Airy(Mark(m, {r}))
      BY <1>1, AiryWrites
    <2> QED BY <2>1, <2>2, AiryWrites
  <1> HIDE DEF u
  <1>3. Airy(Place(u, p, q)) /\ Airy(Remove(u, p, "reserves"))
    BY <1>2, AiryMoves
  <1>4. Airy(Answered(Place(u, p, q))) /\ Airy(Answered(Remove(u, p, "reserves")))
    BY <1>3, AiryWrites
  <1> QED BY <1>1, <1>4, AiryEnd DEF u

(* Kept by Solid Defence,                                                  *)
LEMMA SolidDefenceCarries ==
  ASSUME PitchInv, CarryInv, SolidDefence
  PROVE  Carries(m')
  <1>1. Asks("KICKOFF", 5)
    BY DEF SolidDefence
  <1>2. \E p : \/ m' = Answered(Remove(Spend(m, p), p, "reserves"))
               \/ \E q : m' = Answered(Place(Spend(m, p), p, q))
    BY Zenon DEF SolidDefence
  <1> QED BY <1>1, <1>2, SpentCarries

(* by its end,                                                             *)
LEMMA SolidDoneCarries ==
  ASSUME PitchInv, CarryInv, SolidDone
  PROVE  Carries(m')
  <1>1. Airy(Answered(m)) /\ m.status # "error" /\ Top(m).proc = "KICKOFF"
    <2>1. Asks("KICKOFF", 5)
      BY DEF SolidDone
    <2> QED BY <2>1, AiryKick
  <1>2. m' = KickLands(Repaired(Answered(m), Kicker))
    BY Zenon DEF SolidDone
  <1> QED BY <1>1, <1>2, AiryRepaired, KickLandsCarries

(* and by Quick Snap.                                                      *)
LEMMA QuickSnapCarries ==
  ASSUME PitchInv, CarryInv, QuickSnap
  PROVE  Carries(m')
  <1>1. Asks("KICKOFF", 6)
    BY DEF QuickSnap
  <1>2. Airy(Answered(m)) /\ m.status # "error" /\ Top(m).proc = "KICKOFF"
    BY <1>1, AiryKick
  <1>3. \/ m' = KickLands(Answered(m))
        \/ \E p, q : m' = Answered(Place(Spend(m, p), p, q))
    BY Zenon DEF QuickSnap
  <1> QED BY <1>1, <1>2, <1>3, SpentCarries, KickLandsCarries

(* Charge! ends with the ball coming down.                                 *)
LEMMA ChargeEndCarries ==
  ASSUME PitchInv, CarryInv, m.status # "error", Top(m).proc = "KICKOFF", NEW s, Airy(s)
  PROVE  Carries(ChargeEnd(s))
  <1> DEFINE t == [s EXCEPT !.turnover = FALSE, !.active = 1 - Top(s).a]
  <1>1. ChargeEnd(s) = KickLands(t)
    BY DEF ChargeEnd
  <1>2. \E x, y : t = [s EXCEPT !.turnover = y, !.active = x]
    BY Zenon
  <1> HIDE DEF t
  <1>3. Airy(t)
    BY <1>2, AirySame, Zenon
  <1> QED BY <1>1, <1>3, KickLandsCarries

(* Kept by Charge!.                                                        *)
LEMMA ChargeCarries ==
  ASSUME PitchInv, CarryInv, ChargeAsk \/ ChargeOn
  PROVE  Carries(m')
  <1> DEFINE s == Answered(m)
  <1>1. Airy(m) /\ Airy(s) /\ m.status # "error" /\ Top(m).proc = "KICKOFF"
    <2>1. Runs("KICKOFF", 7) \/ Asks("KICKOFF", 7)
      BY Zenon DEF ChargeAsk, ChargeOn
    <2> QED BY <2>1, AiryKick
  <1>2. CASE ChargeAsk
    <2>1. m' = ChargeEnd(m) \/ m' = Decide(m, Kicker)
      BY <1>2 DEF ChargeAsk
    <2> QED BY <1>1, <2>1, ChargeEndCarries, AiryWrites, AiryEnd
  <1>3. CASE ChargeOn
    <2>1. \/ m' = ChargeEnd(s)
          \/ \E p \in Side(Kicker), kind \in {"MOVE", "BLITZ"} :
               LET f == [Top(m) EXCEPT !.data = @ \cup {p},
                           !.sq = <<@[1] - 1, IF kind = "BLITZ" THEN 1 ELSE @[2]>>] IN
               m' = Push([Answered(SetTop(m, f)) EXCEPT !.acting = p],
                         [Frame("MOVE", p, 0, NoSq) EXCEPT !.k = kind, !.c = 0])
      BY <1>3, Zenon DEF ChargeOn
    <2>2. ASSUME NEW p \in Side(Kicker), NEW kind \in {"MOVE", "BLITZ"},
                 LET f == [Top(m) EXCEPT !.data = @ \cup {p},
                           !.sq = <<@[1] - 1, IF kind = "BLITZ" THEN 1 ELSE @[2]>>] IN
                 m' = Push([Answered(SetTop(m, f)) EXCEPT !.acting = p],
                           [Frame("MOVE", p, 0, NoSq) EXCEPT !.k = kind, !.c = 0])
          PROVE  Carries(m')
      <3> DEFINE f == [Top(m) EXCEPT !.data = @ \cup {p},
                         !.sq = <<@[1] - 1, IF kind = "BLITZ" THEN 1 ELSE @[2]>>]
                 t == SetTop(m, f)  u == Answered(t)  v == [u EXCEPT !.acting = p]
                 g == [Frame("MOVE", p, 0, NoSq) EXCEPT !.k = kind, !.c = 0]
      <3>1. IsFrame(f) /\ f.proc = Top(m).proc /\ f.a = Top(m).a
        <4>1. IsFrame(Top(m))
          BY <1>1 DEF Airy, Own, Lone
        <4> QED BY <4>1 DEF IsFrame, Marks
      <3>2. m' = Push(v, g)
        BY <2>2
      <3> HIDE DEF f
      <3>3. Airy(t)
        BY <1>1, <3>1, AirySet
      <3> HIDE DEF t
      <3>4. Airy(u)
        BY <3>3, AiryWrites
      <3> HIDE DEF u
      <3>5. Airy(v)
        BY <3>4, AirySame, Zenon
      <3> HIDE DEF v
      <3>6. Holding(v, {})
        BY <1>1, <3>5, LoneHolds DEF Airy, Own, Due
      <3>7. IsFrame(g) /\ g.proc = "MOVE" /\ g.data = {}
        BY DEF Frame, IsFrame, Marks
      <3> HIDE DEF g
      <3>8. Mute(g)
        BY <3>7 DEF Mute, Plain, Due
      <3>9. Holding(Push(v, g), {})
        BY <3>6, <3>8, HoldPush
      <3> QED BY <1>1, <3>2, <3>9, EndHeld DEF Harms
    <2> QED BY <1>1, <2>1, <2>2, ChargeEndCarries, Zenon
  <1> QED BY <1>2, <1>3

(* Kept by a kick that has settled, even in a player's hands,              *)
LEMMA KickSettledCarries ==
  ASSUME PitchInv, CarryInv, KickSettled
  PROVE  Carries(m')
  <1>1. m.status # "error" /\ Top(m).proc = "KICKOFF"
    BY DEF KickSettled, Runs
  <1>2. Lone(m, {})
    BY <1>1, BeginLone
  <1>3. \/ m' = Pop(m)
        \/ m' = Decide(Phase([DropBall(m) EXCEPT !.ball.state = "off"], 2), Receiver)
    BY Zenon DEF KickSettled
  <1>4. CASE m' = Pop(m)
    <2>1. Holding(m', {})
      BY <1>2, <1>4, LonePop
    <2> QED BY <1>1, <2>1, EndHeld DEF Harms
  <1>5. CASE m' = Decide(Phase([DropBall(m) EXCEPT !.ball.state = "off"], 2), Receiver)
    <2> DEFINE d == DropBall(m)  o == [d EXCEPT !.ball.state = "off"]  t == Phase(o, 2)
    <2>1. Airy(d)
      BY <1>1, <1>2, HoldDrop DEF Airy, Own
    <2> HIDE DEF d
    <2>2. IsMatch(d) /\ IsBall(d.ball) /\ d.stance \in [Slots -> Stances] /\ d.has = {}
      BY <2>1 DEF Airy, Own, Lone, Body
    <2>3. /\ IsMatch(o) /\ o.from = d.from /\ Kept(d, o) /\ o.has = {} /\ o.stance = d.stance
          /\ o.ball = [d.ball EXCEPT !.state = "off"]
      BY <2>2 DEF IsMatch, Fields, Kept
    <2> HIDE DEF o
    <2>4. IsBall(o.ball)
      BY <2>2, <2>3 DEF IsBall
    <2>5. Airy(o)
      BY <2>1, <2>2, <2>3, <2>4, AiryOn
    <2>6. Airy(t)
      BY <2>5, AiryWrites
    <2> HIDE DEF t
    <2>7. Airy(Decide(t, Receiver))
      BY <2>6, AiryWrites
    <2> QED BY <1>1, <1>5, <2>7, AiryEnd DEF t, o, d
  <1> QED BY <1>3, <1>4, <1>5

(* and by a touchback, which gives the ball to somebody on his feet.       *)
LEMMA TouchbackCarries ==
  ASSUME PitchInv, CarryInv, Touchback
  PROVE  Carries(m')
  <1> DEFINE s == Answered(m)  t == Pop(s)
  <1>1. Asks("KICKOFF", 2)
    BY DEF Touchback
  <1>2. Airy(s) /\ Airy(m) /\ m.status # "error" /\ Top(m).proc = "KICKOFF"
    BY <1>1, AiryKick
  <1>3. Side(Receiver) \subseteq Slots
    BY <1>1, KickRuns
  <1>4. s.stance = m.stance
    BY <1>2, HoldAnswered DEF Airy, Own, Adds
  <1>5. \/ \E p \in OnSide(m, Receiver) : Standing(m, p) /\ m' = Pop(GiveBall(s, p))
        \/ \E q : m' = Pop(BallTo(s, q))
    BY Zenon DEF Touchback
  <1> HIDE DEF s
  <1>6. Holding(t, {}) /\ t.stance = s.stance /\ IsMatch(s)
    BY <1>2, LonePop DEF Airy, Own, Lone, Body
  <1>7. /\ \A p : Pop(GiveBall(s, p)) = GiveBall(t, p)
        /\ \A q : Pop(BallTo(s, q)) = BallTo(t, q)
    BY <1>6, ZenonT(30) DEF IsMatch, Fields, Pop, GiveBall, BallTo
  <1> HIDE DEF t
  <1>8. ASSUME NEW p \in OnSide(m, Receiver), Standing(m, p), m' = Pop(GiveBall(s, p))
        PROVE  Carries(m')
    <2>1. p \in OnFeet(t)
      BY <1>3, <1>4, <1>6, <1>8 DEF OnFeet, OnSide, Standing
    <2>2. Holding(m', {})
      BY <1>6, <1>7, <1>8, <2>1, HoldGive
    <2> QED BY <1>2, <2>2, EndHeld DEF Harms
  <1>9. ASSUME NEW q, m' = Pop(BallTo(s, q))
        PROVE  Carries(m')
    <2>1. Holding(m', {})
      BY <1>6, <1>7, <1>9, HoldTo
    <2> QED BY <1>2, <2>1, EndHeld DEF Harms
  <1> QED BY <1>5, <1>8, <1>9

(* Kept by everything in a kick-off.                                       *)
LEMMA KickCarries ==
  ASSUME PitchInv, CarryInv, KickNext
  PROVE  Carries(m')
  BY KickAskCarries, KickOffCarries, HighKickCarries, SolidDefenceCarries, SolidDoneCarries,
     QuickSnapCarries, ChargeCarries, KickSettledCarries, TouchbackCarries DEF KickNext

(* ------------------------------- every step ---------------------------- *)
(* Kept by every handler.                                                  *)
LEMMA NextCarries ==
  ASSUME PitchInv, CarryInv, Next
  PROVE  Carries(m')
  <1>1. CASE Done
    <2>1. m.status # "error" /\ m' = m
      BY <1>1 DEF Done, Settled
    <2>2. Stays(m)
      BY <2>1, BeginLone DEF Lone
    <2> QED BY <2>1, <2>2 DEF Carries, CarryInv
  <1>2. CASE TestNext \/ BallNext \/ BlockNext \/ HurtNext \/ MoveNext \/ Ttm
    BY <1>2, TestCarries, BallCarries, BlockCarries, HurtCarries, MoveCarries, TtmCarries
  <1>3. CASE SetupNext \/ KickNext
    BY <1>3, SetupCarries, KickCarries
  <1> QED BY <1>1, <1>2, <1>3 DEF Next

(* Nobody fouls and nothing waits for a die where a match is taken up.     *)
LEMMA InitCarries ==
  ASSUME Init
  PROVE  CarryInv
  <1> DEFINE S == m.stack
  <1>1. CarrierStands(m) /\ (Declared(S) \/ Called(S))
    BY StartsAssumption, CarrierAssumption DEF Init
  <1>2. \A i \in 1 .. Len(S) : S[i].proc # "FOUL" /\ Fit(m, S[i])
    <2>1. CASE Declared(S)
      <3>1. /\ Len(S) = 3 /\ S[1].proc = "TEAM_TURN" /\ S[2].proc = "ACTIVATION"
            /\ S[3].proc = "MOVE" /\ S[3].data = {}
        BY <2>1, DeclaredStack
      <3>2. \A i \in 1 .. 3 : i \in {1, 2, 3}
        OBVIOUS
      <3> QED BY <3>1, <3>2 DEF Fit
    <2>2. CASE Called(S)
      <3>1. Len(S) = 2 /\ S[1].proc = "MATCH" /\ S[2].proc \in {"SETUP", "KICKOFF"}
        BY <2>2, CalledStack
      <3>2. \A i \in 1 .. 2 : i \in {1, 2}
        OBVIOUS
      <3> QED BY <3>1, <3>2 DEF Fit
    <2> QED BY <1>1, <2>1, <2>2
  <1>3. FoulOk(m)
    BY <1>2 DEF FoulOk
  <1> QED BY <1>1, <1>2, <1>3 DEF CarryInv, CarryOk, CarrierStands

(* Between any two handlers whoever has the ball is on his feet, a die may *)
(* only give it to somebody who is, and above a foul there is nothing but  *)
(* what becomes of the fouled player, who is not.                          *)
THEOREM CarryInvHolds == Spec => []CarryInv
  <1>1. Init => CarryInv
    BY InitCarries
  <1>2. PitchInv /\ CarryInv /\ [Next]_m => CarryInv'
    <2> SUFFICES ASSUME PitchInv, CarryInv, [Next]_m PROVE CarryInv'
      OBVIOUS
    <2>1. CASE Next
      BY <2>1, NextCarries DEF Carries, CarryInv
    <2>2. CASE UNCHANGED m
      BY <2>2 DEF CarryInv
    <2> QED BY <2>1, <2>2
  <1> QED BY <1>1, <1>2, PitchInvHolds, PTL DEF Spec

(* Nobody who is prone or stunned has the ball: not after the push, fall,  *)
(* throw or blow that laid him down, and not by a catch, a pick-up or an   *)
(* interception that a die decides after he fell.                          *)
CarrierUp == m.status # "error" => \A p \in m.has : p \in Slots /\ Standing(m, p)
THEOREM CarriersStand == Spec => []CarrierUp
  <1>1. CarryInv => CarrierUp
    BY DEF CarryInv, CarryOk, CarrierStands, CarrierUp, OnFeet
  <1> QED BY <1>1, CarryInvHolds, PTL

(* The procedure stack is a stack: whatever a handler pops, pushes or      *)
(* writes, the frames below its own are still there and unchanged when     *)
(* their turn comes (bb_frame.data is all they remember).                  *)
Layered ==
  [][m'.status # "error" =>
       /\ Len(m'.stack) >= Len(m.stack) - 1
       /\ \A i \in 1 .. Len(m.stack) - 1 : m'.stack[i] = m.stack[i]]_m
THEOREM StackIsLayered == Spec => Layered
  <1> DEFINE A == m'.status # "error" =>
                    /\ Len(m'.stack) >= Len(m.stack) - 1
                    /\ \A i \in 1 .. Len(m.stack) - 1 : m'.stack[i] = m.stack[i]
  <1>1. PitchInv /\ CarryInv /\ [Next]_m => [A]_m
    <2> SUFFICES ASSUME PitchInv, CarryInv, Next PROVE A
      OBVIOUS
    <2> QED BY NextCarries DEF Carries, Stays, Under
  <1> QED BY <1>1, PitchInvHolds, CarryInvHolds, PTL DEF Spec, Layered

(* ------------------------------ the double ----------------------------- *)
(* The handlers that run while a player's injuries are seen to.            *)
LEMMA HarmRuns ==
  ASSUME Next, Top(m).proc \in Harms
  PROVE  /\ m.status # "error"
         /\ \/ ArmourRoll \/ InjuryRoll \/ PatchAsk \/ Patch
            \/ CasualtyRoll \/ CasualtyAsk \/ CasualtyChoice \/ CasualtyPick
  <1>1. ~Done
    BY DEF Done, Settled, Harms
  <1>2. ~TestNext
    BY DEF TestNext, TestRoll, TestReroll, TestWasted, TestDecline, TestPro, TestTeamReroll,
           TestSkillReroll, Runs, Asks, Harms
  <1>3. ~BallNext
    BY DEF BallNext, Scatter, ThrowIn, CatchTry, CatchDone, PassThrow, PassRolled,
           PassIntercept, PassLetGo, PassCaught, HandOff, Runs, Asks, Harms
  <1>4. ~BlockNext
    BY DEF BlockNext, BlockTrick, BlockDump, BlockRoll, BlockReroll, BlockAsk, ChooseDie,
           WrestleChoice, PushBegin, StandFirm, PushTo, PushCrowd, PushChain, PushChained,
           PushMove, PushSurf, PushFollow, FollowUp, PushEnd, FrenzyRush, Runs, Asks, Harms
  <1>5. ~MoveNext
    <2>1. ~JumpRushed /\ ~JumpLanded /\ ~BlockRushed /\ ~StepTested /\ ~PickupTested
      BY DEF JumpRushed, JumpLanded, BlockRushed, StepTested, PickupTested, Waits, Runs, Harms
    <2>2. ~ActionOver /\ ~StandUpTested /\ ~MoveAsk /\ ~EndActivation /\ ~StandUp /\ ~Step /\ ~Jump
      BY DEF ActionOver, StandUpTested, MoveAsk, EndActivation, StandUp, Step, Jump,
             Waits, MayMove, Runs, Asks, Harms
    <2>3. ~BlockTarget /\ ~PassTarget /\ ~HandOffTarget /\ ~FoulTarget /\ ~Stab
      BY DEF BlockTarget, PassTarget, HandOffTarget, FoulTarget, Stab, BallAction, Asks, Harms
    <2>4. ~Chainsaw /\ ~BreatheFire /\ ~Vomit /\ ~Gaze /\ ~HitAndRun /\ ~PickMate /\ ~ThrowTarget
      BY DEF Chainsaw, BreatheFire, Vomit, Gaze, HitAndRun, PickMate, ThrowTarget, Attack, Throws,
             Plays, Asks, Harms
    <2> QED BY <2>1, <2>2, <2>3, <2>4 DEF MoveNext
  <1>6. ~Ttm /\ ~SetupNext
    BY DEF Ttm, SetupNext, SetupAsk, SetupPlace, SetupRemove, SetupDone, SettingUp, Runs, Harms
  <1>7. ~KickNext
    <2>1. ~KickAsk /\ ~KickTarget /\ ~HighKick /\ ~WindowAsk /\ ~SolidDefence /\ ~SolidDone
      BY DEF KickAsk, KickTarget, HighKick, WindowAsk, SolidDefence, SolidDone, Runs, Asks, Harms
    <2>2. ~QuickSnap /\ ~ChargeAsk /\ ~KickSettled /\ ~Touchback
      BY DEF QuickSnap, ChargeAsk, KickSettled, Touchback, Runs, Asks, Harms
    <2>3. ~KickOff
      BY DEF KickOff, Runs, Harms
    <2>4. ~ChargeOn
      BY Zenon DEF ChargeOn, Asks, Harms
    <2> QED BY <2>1, <2>2, <2>3, <2>4 DEF KickNext
  <1>8. ~KnockedDown /\ ~FoulRoll /\ ~FoulSeen /\ ~Argue
    BY DEF KnockedDown, FoulRoll, FoulSeen, Argue, Runs, Asks, Harms
  <1>9. \/ ArmourRoll \/ InjuryRoll \/ PatchAsk \/ Patch
        \/ CasualtyRoll \/ CasualtyAsk \/ CasualtyChoice \/ CasualtyPick
    BY <1>1, <1>2, <1>3, <1>4, <1>5, <1>6, <1>7, <1>8 DEF Next, HurtNext
  <1>10. m.status # "error"
    BY <1>9 DEF ArmourRoll, InjuryRoll, PatchAsk, Patch, CasualtyRoll, CasualtyAsk,
           CasualtyChoice, CasualtyPick, Runs, Asks
  <1> QED BY <1>9, <1>10

(* A double that has been written down stays written down                  *)
Noted(s) == IsMatch(s) /\ "spotted" \in s.ret

(* whatever happens on the board,                                          *)
LEMMA NotedBoard ==
  ASSUME NEW s, Noted(s), NEW p, NEW l
  PROVE  /\ Noted(Banish(s, p, l)) /\ Noted(Spill(s, p)) /\ Noted(Apothecary(s, p))
         /\ Noted([s EXCEPT !.loc[p] = l]) /\ Noted([s EXCEPT !.stance[p] = l])
         /\ Noted(TurnoverIf(s, l))
  <1>1. Noted([s EXCEPT !.loc[p] = l]) /\ Noted([s EXCEPT !.stance[p] = l])
    BY DEF Noted, IsMatch, Fields
  <1>2. Noted(Lift(s, p))
    BY DEF Noted, IsMatch, Fields, Lift
  <1>3. ASSUME NEW t, Noted(t)
        PROVE  Noted([t EXCEPT !.loc[p] = l, !.stance[p] = "standing", !.has = @ \ {p}])
    BY <1>3 DEF Noted, IsMatch, Fields
  <1>4. Noted(Banish(s, p, l))
    BY <1>1, <1>2, <1>3, Zenon DEF Banish, Remove
  <1>5. Noted(DropBall(s))
    BY DEF Noted, IsMatch, Fields, DropBall
  <1>6. ASSUME NEW t, Noted(t), NEW f
        PROVE  Noted(Push(t, f))
    BY <1>6 DEF Noted, IsMatch, Fields, Push
  <1>7. Noted(Spill(s, p))
    BY <1>5, <1>6 DEF Spill, Bounce
  <1>8. Noted(Apothecary(s, p))
    BY DEF Noted, IsMatch, Fields, Apothecary
  <1>9. Noted(TurnoverIf(s, l))
    BY DEF Noted, IsMatch, Fields, TurnoverIf, MakeTurnover
  <1> QED BY <1>1, <1>4, <1>7, <1>8, <1>9

LEMMA NotedGone ==
  ASSUME NEW s, Noted(s)
  PROVE  \A p, l : Noted(Banish(s, p, l))
  <1> TAKE p, l
  <1> DEFINE t == Banish(s, p, l)
  <1>1. Noted(t)
    BY NotedBoard
  <1> HIDE DEF t
  <1> QED BY <1>1 DEF t

(* or to the stack.                                                        *)
LEMMA NotedStack ==
  ASSUME NEW s, Noted(s), NEW x
  PROVE  /\ Noted(Pop(s)) /\ Noted(Push(s, x)) /\ Noted(Phase(s, x)) /\ Noted(Mark(s, x))
         /\ Noted(Decide(s, x)) /\ Noted(Answered(s))
  <1>1. Noted(Pop(s)) /\ Noted(Push(s, x))
    BY DEF Noted, IsMatch, Fields, Pop, Push
  <1>2. Noted(Phase(s, x)) /\ Noted(Mark(s, x))
    BY DEF Noted, IsMatch, Fields, Phase, Mark
  <1>3. Noted(Decide(s, x)) /\ Noted(Answered(s))
    BY DEF Noted, IsMatch, Fields, Decide, Answered
  <1> QED BY <1>1, <1>2, <1>3

(* The injury roll may add one and takes none away,                        *)
LEMMA InjuryNotes ==
  ASSUME Noted(m), InjuryRoll
  PROVE  Noted(m')
  <1> DEFINE f == Top(m)  p == f.a  v == TurnoverIf(Pop(m), p \in m.has /\ TeamOf(p) = m.active)
             spilt == Spill(v, p)
             S(c) == IF c THEN [spilt EXCEPT !.ret = @ \cup {"spotted"}] ELSE spilt
  <1>1. PICK double \in BOOLEAN, hurt \in Hurts(m, p) :
          LET s == S(f.b = 2 /\ double) IN
          m' = CASE hurt = "stun" /\ f.b = 1 -> [s EXCEPT !.loc[p] = "reserves"]
              [] hurt = "stun" /\ f.b # 1 -> [s EXCEPT !.stance[p] = "stunned"]
              [] hurt = "ko" -> IF m.apothecary[TeamOf(p)] > 0
                                THEN Push(s, Frame("KO_RECOVERY", p, f.b, NoSq))
                                ELSE Banish(s, p, "ko")
              [] hurt = "bh" -> Banish(s, p, "cas")
              [] hurt = "cas" -> Push(s, [Frame("CASUALTY", p, f.b, NoSq) EXCEPT !.c = f.c])
    BY Zenon DEF InjuryRoll
  <1> DEFINE s == S(f.b = 2 /\ double)
  <1>2. \/ m' = [s EXCEPT !.loc[p] = "reserves"]
        \/ m' = [s EXCEPT !.stance[p] = "stunned"]
        \/ \E g : m' = Push(s, g)
        \/ \E l : m' = Banish(s, p, l)
    BY <1>1 DEF Hurts, Flag
  <1>3. Noted(Pop(m))
    BY NotedStack
  <1>4. Noted(v)
    BY <1>3, NotedBoard
  <1> HIDE DEF v, p
  <1>5. Noted(spilt)
    BY <1>4, NotedBoard
  <1> HIDE DEF spilt
  <1>6. Noted(s)
    BY <1>5 DEF Noted, IsMatch, Fields
  <1> HIDE DEF s
  <1>7. CASE m' = [s EXCEPT !.loc[p] = "reserves"]
    BY <1>6, <1>7, NotedBoard
  <1>8. CASE m' = [s EXCEPT !.stance[p] = "stunned"]
    BY <1>6, <1>8, NotedBoard
  <1>9. CASE \E g : m' = Push(s, g)
    BY <1>6, <1>9, NotedStack
  <1>10. CASE \E l : m' = Banish(s, p, l)
    BY <1>6, <1>10, NotedGone
  <1> QED BY <1>2, <1>7, <1>8, <1>9, <1>10

(* nor does the apothecary,                                                *)
LEMMA PatchNotes ==
  ASSUME Noted(m), PatchAsk \/ Patch
  PROVE  Noted(m')
  <1> DEFINE p == Top(m).a  s == Answered(Pop(m))
  <1>1. \/ m' = Decide(m, TeamOf(p))
        \/ m' = [Apothecary(s, p) EXCEPT !.loc[p] = "reserves"]
        \/ m' = [Apothecary(s, p) EXCEPT !.stance[p] = "stunned"]
        \/ m' = Banish(s, p, "ko")
    BY Zenon DEF PatchAsk, Patch
  <1>2. Noted(s)
    BY NotedStack
  <1> HIDE DEF s, p
  <1>3. Noted(Apothecary(s, p))
    BY <1>2, NotedBoard
  <1>4. CASE m' = Decide(m, TeamOf(p))
    BY <1>4, NotedStack
  <1>5. CASE \/ m' = [Apothecary(s, p) EXCEPT !.loc[p] = "reserves"]
             \/ m' = [Apothecary(s, p) EXCEPT !.stance[p] = "stunned"]
    <2> DEFINE t == Apothecary(s, p)
    <2>1. Noted(t)
      BY <1>3
    <2>2. m' = [t EXCEPT !.loc[p] = "reserves"] \/ m' = [t EXCEPT !.stance[p] = "stunned"]
      BY <1>5
    <2> HIDE DEF t
    <2>3. Noted([t EXCEPT !.loc[p] = "reserves"]) /\ Noted([t EXCEPT !.stance[p] = "stunned"])
      BY <2>1, NotedBoard
    <2> QED BY <2>2, <2>3
  <1>6. CASE m' = Banish(s, p, "ko")
    BY <1>2, <1>6, NotedGone
  <1> QED BY <1>1, <1>4, <1>5, <1>6

(* nor a casualty.                                                         *)
LEMMA CasualtyNotes ==
  ASSUME Noted(m), CasualtyRoll \/ CasualtyAsk \/ CasualtyChoice \/ CasualtyPick
  PROVE  Noted(m')
  <1> DEFINE p == Top(m).a
  <1>1. \/ \E l : m' = Banish(Pop(m), p, l) \/ m' = Banish(Answered(Pop(m)), p, l)
        \/ \E f, rolled : m' = Phase(Mark(Push(Pop(m), f), rolled), 1)
        \/ \E team : m' = Decide(m, team)
        \/ \E rolled : m' = Answered(Phase(Mark(Apothecary(m, p), rolled), 2))
    <2>1. CASE CasualtyRoll
      BY <2>1, Zenon DEF CasualtyRoll
    <2>2. CASE CasualtyAsk
      BY <2>2, Zenon DEF CasualtyAsk
    <2>3. CASE CasualtyChoice
      BY <2>3, Zenon DEF CasualtyChoice
    <2>4. CASE CasualtyPick
      BY <2>4, Zenon DEF CasualtyPick
    <2> QED BY <2>1, <2>2, <2>3, <2>4
  <1>2. Noted(Pop(m)) /\ Noted(Answered(Pop(m))) /\ Noted(Apothecary(m, p))
    BY NotedStack, NotedBoard
  <1>3. ASSUME NEW s, Noted(s), NEW x, NEW y
        PROVE  Noted(Phase(Mark(s, x), y))
    BY <1>3, NotedStack
  <1> HIDE DEF p
  <1>4. CASE \E l : m' = Banish(Pop(m), p, l) \/ m' = Banish(Answered(Pop(m)), p, l)
    BY <1>2, <1>4, NotedGone
  <1>5. CASE \E f, rolled : m' = Phase(Mark(Push(Pop(m), f), rolled), 1)
    <2>1. PICK f, rolled : m' = Phase(Mark(Push(Pop(m), f), rolled), 1)
      BY <1>5
    <2>2. Noted(Push(Pop(m), f))
      BY <1>2, NotedStack
    <2> QED BY <1>3, <2>1, <2>2
  <1>6. CASE \E team : m' = Decide(m, team)
    BY <1>6, NotedStack
  <1>7. CASE \E rolled : m' = Answered(Phase(Mark(Apothecary(m, p), rolled), 2))
    <2>1. PICK rolled : m' = Answered(Phase(Mark(Apothecary(m, p), rolled), 2))
      BY <1>7
    <2>2. Noted(Phase(Mark(Apothecary(m, p), rolled), 2))
      BY <1>2, <1>3
    <2> QED BY <2>1, <2>2, NotedStack
  <1> QED BY <1>1, <1>4, <1>5, <1>6, <1>7

(* No handler runs once the match is in error.                             *)
LEMMA NextRuns ==
  ASSUME Next
  PROVE  m.status # "error"
  <1>1. CASE Done
    BY <1>1 DEF Done, Settled
  <1>2. CASE TestNext
    BY <1>2 DEF TestNext, TestRoll, TestReroll, TestWasted, TestDecline, TestPro, TestTeamReroll,
       TestSkillReroll, Runs, Asks
  <1>3. CASE BallNext
    BY <1>3 DEF BallNext, Scatter, ThrowIn, CatchTry, CatchDone, PassThrow, PassRolled,
       PassIntercept, PassLetGo, PassCaught, HandOff, Runs, Asks
  <1>4. CASE BlockNext
    BY <1>4 DEF BlockNext, BlockTrick, BlockDump, BlockRoll, BlockReroll, BlockAsk, ChooseDie,
       WrestleChoice, PushBegin, StandFirm, PushTo, PushCrowd, PushChain, PushChained,
       PushMove, PushSurf, PushFollow, FollowUp, PushEnd, FrenzyRush, Runs, Asks
  <1>5. CASE MoveNext
    <2>1. CASE JumpRushed \/ JumpLanded \/ BlockRushed \/ StepTested \/ PickupTested
      BY <2>1 DEF JumpRushed, JumpLanded, BlockRushed, StepTested, PickupTested, Waits, Runs
    <2>2. CASE ActionOver \/ StandUpTested \/ MoveAsk \/ EndActivation \/ StandUp \/ Step \/ Jump
      BY <2>2 DEF ActionOver, StandUpTested, MoveAsk, EndActivation, StandUp, Step, Jump,
         Waits, MayMove, Runs, Asks
    <2>3. CASE BlockTarget \/ PassTarget \/ HandOffTarget \/ FoulTarget \/ Stab
      BY <2>3 DEF BlockTarget, PassTarget, HandOffTarget, FoulTarget, Stab, BallAction, Asks
    <2>4. CASE Chainsaw \/ BreatheFire \/ Vomit \/ Gaze \/ HitAndRun \/ PickMate \/ ThrowTarget
      BY <2>4 DEF Chainsaw, BreatheFire, Vomit, Gaze, HitAndRun, PickMate, ThrowTarget, Attack,
         Throws, Plays, Asks
    <2> QED BY <1>5, <2>1, <2>2, <2>3, <2>4 DEF MoveNext
  <1>6. CASE Ttm \/ SetupNext
    BY <1>6 DEF Ttm, SetupNext, SetupAsk, SetupPlace, SetupRemove, SetupDone, SettingUp, Runs, Asks
  <1>7. CASE KickNext
    <2>1. CASE KickAsk \/ KickTarget \/ HighKick \/ WindowAsk \/ SolidDefence \/ SolidDone
      BY <2>1 DEF KickAsk, KickTarget, HighKick, WindowAsk, SolidDefence, SolidDone, Runs, Asks
    <2>2. CASE QuickSnap \/ ChargeAsk \/ KickSettled \/ Touchback \/ KickOff
      BY <2>2 DEF QuickSnap, ChargeAsk, KickSettled, Touchback, KickOff, Runs, Asks
    <2>3. CASE ChargeOn
      <3>1. Asks("KICKOFF", 7)
        BY <2>3, Zenon DEF ChargeOn
      <3> QED BY <3>1 DEF Asks
    <2> QED BY <1>7, <2>1, <2>2, <2>3 DEF KickNext
  <1>8. CASE HurtNext
    <2>1. CASE KnockedDown \/ FoulRoll \/ FoulSeen \/ Argue
      BY <2>1 DEF KnockedDown, FoulRoll, FoulSeen, Argue, Runs, Asks
    <2>2. CASE ArmourRoll \/ InjuryRoll \/ PatchAsk \/ Patch
      BY <2>2 DEF ArmourRoll, InjuryRoll, PatchAsk, Patch, Runs, Asks
    <2>3. CASE CasualtyRoll \/ CasualtyAsk \/ CasualtyChoice \/ CasualtyPick
      BY <2>3 DEF CasualtyRoll, CasualtyAsk, CasualtyChoice, CasualtyPick, Runs, Asks
    <2> QED BY <1>8, <2>1, <2>2, <2>3 DEF HurtNext
  <1> QED BY <1>1, <1>2, <1>3, <1>4, <1>5, <1>6, <1>7, <1>8 DEF Next

(* A double on a foul's armour or injury roll reaches FOUL whatever the    *)
(* injury led to in between, and what an earlier foul left in the return   *)
(* register is gone when its armour is rolled.                             *)
THEOREM DoubleReachesFoul == Spec => DoubleSeen
  <1> DEFINE A == Fouling(m) /\ Top(m).proc # "FOUL" =>
                    CASE Top(m).proc = "ARMOUR" -> "spotted" \notin m.ret
                      [] OTHER -> "spotted" \in m.ret => "spotted" \in m'.ret
  <1>1. PitchInv /\ CarryInv /\ [Next]_m => [A]_m
    <2> SUFFICES ASSUME PitchInv, CarryInv, Next, Fouling(m), Top(m).proc # "FOUL"
                 PROVE  CASE Top(m).proc = "ARMOUR" -> "spotted" \notin m.ret
                          [] OTHER -> "spotted" \in m.ret => "spotted" \in m'.ret
      OBVIOUS
    <2>1. m.status # "error"
      BY NextRuns
    <2>2. Top(m).proc \in Harms /\ (Top(m).proc = "ARMOUR" => "spotted" \notin m.ret)
      BY <2>1 DEF CarryInv, CarryOk, FoulOk, Fouling, Top
    <2>3. CASE Top(m).proc = "ARMOUR"
      BY <2>2, <2>3
    <2>4. CASE Top(m).proc # "ARMOUR"
      <3>1. IsMatch(m)
        BY <2>1, BeginLone DEF Lone, Body
      <3>2. SUFFICES ASSUME "spotted" \in m.ret PROVE "spotted" \in m'.ret
        BY <2>4
      <3>3. Noted(m)
        BY <3>1, <3>2 DEF Noted
      <3>4. ~ArmourRoll
        BY <2>4 DEF ArmourRoll, Runs
      <3>5. Noted(m')
        BY <2>2, <3>3, <3>4, HarmRuns, InjuryNotes, PatchNotes, CasualtyNotes
      <3> QED BY <3>5 DEF Noted
    <2> QED BY <2>3, <2>4
  <1> QED BY <1>1, PitchInvHolds, CarryInvHolds, PTL DEF Spec, DoubleSeen
=============================================================================
