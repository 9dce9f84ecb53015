-------------------------- MODULE PitchPlay_proofs ---------------------------
(***************************************************************************)
(* Every handler of PitchPlay keeps the invariant of PitchInv, one lemma    *)
(* for each, by its calls in their order; hence the ball is kept, and every *)
(* answer of a die goes to the frame it was rolled for.                    *)
(***************************************************************************)
EXTENDS PitchSteps_proofs

USE PitchAssumption

(* -------------------------------- injuries ----------------------------- *)
(* Only squares of the pitch are free.                                     *)
LEMMA FreeSquares ==
  ASSUME NEW s, NEW p
  PROVE  Free(s, p) \subseteq Squares
  BY DEF Free, Near

(* A player who goes down loses the ball, and his armour is rolled.        *)
LEMMA SteadyDowned ==
  ASSUME NEW s, Steady(s), NEW f, f.a \in Slots, f.c \in Slots \cup {NoPlayer}
  PROVE  LET t == Downed(s, f) IN Steady(t) /\ Goes(s, t)
  <1> DEFINE p == f.a
             prone == [PlaceProne(s, p) EXCEPT !.rooted = @ \ {p}]
             s1 == TurnoverIf(prone, IF f.k = "ttm" THEN p \in s.has ELSE TeamOf(p) = s.active)
             safe == IF p \in s.has /\ Has(s, p, "SAFE_PAIR_OF_HANDS") THEN Free(s, p) ELSE {}
             s2 == IF safe # {} THEN BallTo(DropBall(s1), First(safe)) ELSE Spill(s1, p)
  <1>1. Mere(s, prone)
    BY DEF Steady, Board, IsMatch, Fields, Mere, SameBoard, Kept, PlaceProne
  <1>2. Steady(prone) /\ Goes(s, prone)
    BY <1>1, SteadyMere
  <1> HIDE DEF prone
  <1>3. Steady(s1) /\ Goes(prone, s1) /\ Mere(prone, s1)
    BY <1>2, SteadyTurnover
  <1>4. s1.has = s.has
    BY <1>1, <1>3 DEF Mere, SameBoard
  <1> HIDE DEF s1
  <1>5. Steady(s2) /\ Goes(s1, s2)
    <2>1. CASE safe # {}
      <3> DEFINE d == DropBall(s1)
      <3>1. Steady(d) /\ Goes(s1, d)
        BY <1>3, SteadyDrop
      <3>2. s1.has # {}
        BY <1>4, <2>1
      <3>3. Closed(s1)
        BY <1>3, <3>2, LiveBall
      <3>4. Closed(d)
        BY <3>1, <3>3 DEF Goes
      <3>5. First(safe) \in Squares
        BY <2>1, FreeSquares, FirstIn
      <3> HIDE DEF d, safe
      <3>6. Steady(BallTo(d, First(safe))) /\ Goes(d, BallTo(d, First(safe)))
        BY <3>1, <3>4, <3>5, SteadyTo
      <3> QED BY <2>1, <3>1, <3>6, GoesOn DEF d
    <2>2. CASE safe = {}
      BY <1>3, <2>2, SteadySpill
    <2> QED BY <2>1, <2>2
  <1> HIDE DEF s2
  <1> DEFINE t == Armour(s2, p, "hit", f.c)
  <1>6. Steady(t) /\ Goes(s2, t)
    BY <1>5, SteadyArmour
  <1>7. Downed(s, f) = IF OnPitch(s, p) THEN t ELSE s
    BY DEF Downed, s2, s1, prone
  <1> HIDE DEF t
  <1>8. Goes(s, t) /\ Goes(s, s)
    BY <1>2, <1>3, <1>5, <1>6 DEF Goes
  <1> QED BY <1>6, <1>7, <1>8

(* So do those a saboteur takes with him.                                  *)
LEMMA SteadySabotage ==
  ASSUME NEW s, Steady(s), NEW f, f.a \in Slots, f.c \in Slots
  PROVE  LET t == Sabotage(s, f) IN Steady(t) /\ Goes(s, t)
  <1> DEFINE held == f.a \in s.has
             d == IF held THEN DropBall(s) ELSE s
             off == Remove(d, f.a, "ko")
             b == IF held THEN Bounce(off, s.at[f.a]) ELSE off
             t == KnockDown(b, f.c, "ttm", NoPlayer)
  <1>1. Steady(d) /\ Goes(s, d) /\ f.a \notin d.has /\ (held => Closed(d))
    <2>1. CASE held
      BY <2>1, SteadyDrop, LiveBall DEF Goes
    <2>2. CASE ~held
      BY <2>2 DEF Goes
    <2> QED BY <2>1, <2>2
  <1> HIDE DEF d
  <1>2. Steady(off) /\ Goes(d, off)
    BY <1>1, SteadyRemove DEF Locations
  <1> HIDE DEF off
  <1>3. Steady(b) /\ Goes(off, b)
    <2>1. CASE held
      BY <1>1, <1>2, <2>1, SteadyBounce DEF Goes
    <2>2. CASE ~held
      BY <1>2, <2>2 DEF Goes
    <2> QED BY <2>1, <2>2
  <1> HIDE DEF b
  <1>4. Steady(t) /\ Goes(b, t)
    BY <1>3, SteadyDown
  <1>5. Sabotage(s, f) = t
    BY DEF Sabotage, t, b, off, d
  <1> HIDE DEF t
  <1> QED BY <1>1, <1>2, <1>3, <1>4, <1>5, GoesOn

(* Kept by proc_knockdown.                                                 *)
LEMMA KnockedDownStill ==
  ASSUME PitchInv, KnockedDown
  PROVE  Still(m')
  <1> DEFINE f == Top(m)  s == Pop(m)
  <1>1. f.proc = "KNOCKDOWN" /\ m.status = "running"
    BY DEF KnockedDown, Runs
  <1>2. Steady(s) /\ s.status = "running" /\ f.a \in Slots /\ f.c \in Slots \cup {NoPlayer}
    BY <1>1, Begin DEF PitchInv, Elsewhere, FrameOk
  <1>3. \/ m' = Downed(s, f)
        \/ m' = s
        \/ f.c # NoPlayer /\ m' = Sabotage(s, f)
    BY DEF KnockedDown
  <1> HIDE DEF s, f
  <1>4. Goes(s, s)
    BY DEF Goes
  <1>5. Steady(m') /\ Goes(s, m')
    BY <1>2, <1>3, <1>4, SteadyDowned, SteadySabotage
  <1> QED BY <1>2, <1>5, End

(* Kept by an armour roll.                                                 *)
LEMMA ArmourRollStill ==
  ASSUME PitchInv, ArmourRoll
  PROVE  Still(m')
  <1> DEFINE f == Top(m)  s == Pop(m)
  <1>1. f.proc = "ARMOUR" /\ m.status = "running"
    BY DEF ArmourRoll, Runs
  <1>2. Steady(s) /\ s.status = "running" /\ f.a \in Slots
    BY <1>1, Begin DEF PitchInv, Elsewhere, FrameOk
  <1>3. PICK r, b : m' \in {Push([s EXCEPT !.ret = r], [Frame("INJURY", f.a, b, NoSq) EXCEPT !.c = f.c]),
                            [s EXCEPT !.ret = r]}
    BY Zenon DEF ArmourRoll, Return
  <1> HIDE DEF s, f
  <1> DEFINE t == [s EXCEPT !.ret = r]
  <1>4. Mere(s, t)
    BY <1>2 DEF Steady, Board, IsMatch, Fields, Mere, SameBoard, Kept
  <1>5. Steady(t) /\ Goes(s, t)
    BY <1>2, <1>4, SteadyMere
  <1> DEFINE u == Push(t, [Frame("INJURY", f.a, b, NoSq) EXCEPT !.c = f.c])
  <1>6. m' \in {t, u}
    BY <1>3
  <1> HIDE DEF t
  <1>7. Steady(u) /\ Goes(t, u)
    BY <1>2, <1>5, SteadyInjury
  <1> HIDE DEF u
  <1>8. Steady(m') /\ Goes(s, m')
    BY <1>5, <1>6, <1>7, GoesOn
  <1> QED BY <1>2, <1>8, End

(* Somebody is being treated: the frame is pushed, or the stack is full.   *)
LEMMA NursePush ==
  ASSUME NEW s, Steady(s), s.status # "error", NEW f, IsFrame(f),
         f.proc \in {"KO_RECOVERY", "CASUALTY"}, f.a \in Slots, f.a \notin s.has
  PROVE  Still(Push(s, f))
  <1> DEFINE t == Push(s, f)
  <1>1. FrameOk(f) /\ ~BallFrame(f) /\ f.proc \notin {"SETUP", "KICKOFF"}
    BY DEF FrameOk, IsFrame, BallFrame
  <1>2. /\ Board(t) /\ SameBoard(s, t)
        /\ \/ t.status = "error"
           \/ Doze(t) /\ Top(t) = f /\ t.status = s.status /\ (Closed(s) => Closed(t))
    BY <1>1, DozePush
  <1>3. t.has = s.has
    BY <1>2 DEF SameBoard
  <1> HIDE DEF t
  <1>4. Still(t)
    BY <1>2, <1>3, ErrorStill, NurseDoze
  <1> QED BY <1>4 DEF t

(* Kept by an injury roll, with the ko and casualty it leads to.           *)
LEMMA InjuryRollStill ==
  ASSUME PitchInv, InjuryRoll
  PROVE  Still(m')
  <1> DEFINE f == Top(m)  p == f.a  u == Pop(m)
             v == TurnoverIf(u, p \in m.has /\ TeamOf(p) = m.active)
             spilt == Spill(v, p)
             S(c) == IF c THEN [spilt EXCEPT !.ret = @ \cup {"spotted"}] ELSE spilt
  <1>1. f.proc = "INJURY" /\ m.status = "running"
    BY DEF InjuryRoll, Runs
  <1>2. Steady(u) /\ u.status = "running" /\ p \in Slots
    BY <1>1, Begin DEF PitchInv, Elsewhere, FrameOk
  <1>3. PICK double \in BOOLEAN, hurt \in Hurts(m, p) :
          LET s == S(f.b = 2 /\ double) IN
          m' = CASE hurt = "stun" /\ f.b = 1 -> [s EXCEPT !.loc[p] = "reserves"]
              [] hurt = "stun" /\ f.b # 1 -> [s EXCEPT !.stance[p] = "stunned"]
              [] hurt = "ko" -> IF m.apothecary[TeamOf(p)] > 0
                                THEN Push(s, Frame("KO_RECOVERY", p, f.b, NoSq))
                                ELSE Banish(s, p, "ko")
              [] hurt = "bh" -> Banish(s, p, "cas")
              [] hurt = "cas" -> Push(s, [Frame("CASUALTY", p, f.b, NoSq) EXCEPT !.c = f.c])
    BY Zenon DEF InjuryRoll
  <1> DEFINE s == S(f.b = 2 /\ double)
  <1>4. Steady(v) /\ Goes(u, v)
    <2> HIDE DEF u
    <2> QED BY <1>2, SteadyTurnover
  <1> HIDE DEF v
  <1>5. Steady(spilt) /\ Goes(v, spilt) /\ p \notin spilt.has
    BY <1>2, <1>4, SteadySpill
  <1> HIDE DEF spilt
  <1>6. Mere(spilt, s)
    BY <1>5 DEF Steady, Board, IsMatch, Fields, Mere, SameBoard, Kept
  <1>7. Steady(s) /\ Goes(spilt, s) /\ p \notin s.has
    <2>1. s.has = spilt.has
      BY <1>6 DEF Mere, SameBoard
    <2> HIDE DEF s
    <2> QED BY <1>5, <1>6, <2>1, SteadyMere
  <1>8. Goes(u, s)
    BY <1>4, <1>5, <1>7, GoesOn
  <1>9. \/ m' = [s EXCEPT !.loc[p] = "reserves"]
        \/ m' = [s EXCEPT !.stance[p] = "stunned"]
        \/ m' = Push(s, Frame("KO_RECOVERY", p, f.b, NoSq))
        \/ \E l \in {"ko", "cas"} : m' = Banish(s, p, l)
        \/ m' = Push(s, [Frame("CASUALTY", p, f.b, NoSq) EXCEPT !.c = f.c])
    BY <1>3 DEF Hurts, Flag
  <1> HIDE DEF s, p, f, u
  <1>a. CASE m' = [s EXCEPT !.loc[p] = "reserves"]
    BY <1>a, <1>2, <1>7, <1>8, SteadyLoc, GoesOn, End DEF Locations
  <1>b. CASE m' = [s EXCEPT !.stance[p] = "stunned"]
    <2>1. Mere(s, m')
      BY <1>b, <1>7 DEF Steady, Board, IsMatch, Fields, Mere, SameBoard, Kept
    <2> QED BY <2>1, <1>2, <1>7, <1>8, SteadyMere, GoesOn, End
  <1>c. CASE \E l \in {"ko", "cas"} : m' = Banish(s, p, l)
    BY <1>c, <1>2, <1>7, <1>8, SteadyBanish, GoesOn, End DEF Locations
  <1>d. ASSUME NEW g, IsFrame(g), g.proc \in {"KO_RECOVERY", "CASUALTY"}, g.a = p, m' = Push(s, g)
        PROVE  Still(m')
    <2>1. CASE s.status = "error"
      <3>1. Board(m') /\ m'.status = "error"
        <4>1. Board(s)
          BY <1>7 DEF Steady
        <4>2. /\ Board(m') /\ SameBoard(s, m')
              /\ \/ m'.status = "error"
                 \/ m'.stack = Append(s.stack, g) /\ m'.status = s.status
          BY <1>d, <4>1, PushCases
        <4> QED BY <2>1, <4>2
      <3> QED BY <3>1, ErrorStill
    <2>2. CASE s.status # "error"
      BY <1>d, <2>2, <1>2, <1>7, NursePush
    <2> QED BY <2>1, <2>2
  <1>e. CASE m' = Push(s, Frame("KO_RECOVERY", p, f.b, NoSq))
    BY <1>d, <1>e, BareFrame
  <1>g. CASE m' = Push(s, [Frame("CASUALTY", p, f.b, NoSq) EXCEPT !.c = f.c])
    <2> DEFINE g == [Frame("CASUALTY", p, f.b, NoSq) EXCEPT !.c = f.c]
    <2>1. IsFrame(g) /\ g.proc = "CASUALTY" /\ g.a = p
      BY DEF Frame, IsFrame, Marks
    <2> HIDE DEF g
    <2> QED BY <1>d, <1>g, <2>1 DEF g
  <1> QED BY <1>9, <1>a, <1>b, <1>c, <1>e, <1>g

(* The casualty's coach is asked.                                          *)
LEMMA AskNurse ==
  ASSUME NEW s, Doze(s), Top(s).proc \in {"KO_RECOVERY", "CASUALTY"}, Top(s).a \notin s.has,
         NEW team
  PROVE  Still(Decide(s, team))
  <1> DEFINE t == Decide(s, team)
  <1>1. Alike(s, t) /\ t.status = "decision" /\ t.stack = s.stack
    BY DEF Doze, Board, IsMatch, Fields, SameBoard, Alike, Decide
  <1> HIDE DEF t
  <1>2. Doze(t) /\ Top(t) = Top(s) /\ t.has = s.has
    BY <1>1, DozeAlike DEF Top, Alike, SameBoard
  <1>3. Still(t)
    BY <1>2, NurseDoze
  <1> QED BY <1>3 DEF t

(* Kept by an apothecary asked for and used.                               *)
LEMMA PatchStill ==
  ASSUME PitchInv, PatchAsk \/ Patch
  PROVE  Still(m')
  <1> DEFINE p == Top(m).a
  <1>1. Top(m).proc = "KO_RECOVERY" /\ m.status # "error"
    BY DEF PatchAsk, Patch, Runs, Asks
  <1>2. Doze(m) /\ p \notin m.has /\ p \in Slots
    BY <1>1, Nursed DEF PitchInv
  <1>3. CASE PatchAsk
    BY <1>1, <1>2, <1>3, AskNurse DEF PatchAsk
  <1>4. CASE Patch
    <2> DEFINE s == Answered(Pop(m))  cured == Apothecary(s, p)
    <2>1. Steady(s) /\ s.status = "running" /\ p \notin s.has
      BY <1>2, AnsweredPop DEF SameBoard
    <2>2. \/ m' = [cured EXCEPT !.loc[p] = "reserves"]
          \/ m' = [cured EXCEPT !.stance[p] = "stunned"]
          \/ m' = Banish(s, p, "ko")
      BY <1>4, Zenon DEF Patch
    <2> HIDE DEF s, p
    <2>3. Mere(s, cured) /\ p \notin cured.has
      BY <2>1 DEF Steady, Board, IsMatch, Fields, Mere, SameBoard, Kept, Apothecary
    <2> HIDE DEF cured
    <2>4. Steady(cured) /\ Goes(s, cured)
      BY <2>1, <2>3, SteadyMere
    <2>5. CASE m' = [cured EXCEPT !.loc[p] = "reserves"]
      BY <1>2, <2>1, <2>3, <2>4, <2>5, SteadyLoc, GoesOn, End DEF Locations
    <2>6. CASE m' = [cured EXCEPT !.stance[p] = "stunned"]
      <3>1. Mere(cured, m')
        BY <2>4, <2>6 DEF Steady, Board, IsMatch, Fields, Mere, SameBoard, Kept
      <3> QED BY <2>1, <2>4, <3>1, SteadyMere, GoesOn, End
    <2>7. CASE m' = Banish(s, p, "ko")
      BY <1>2, <2>1, <2>7, SteadyBanish, End DEF Locations
    <2> QED BY <2>2, <2>5, <2>6, <2>7
  <1> QED BY <1>3, <1>4

(* The casualty's frame as its coach is asked about it.                    *)
LEMMA MarkedDoze ==
  ASSUME NEW s, Doze(s), Top(s).proc \notin {"MOVE", "PASS", "KICKOFF"}, NEW d, NEW n
  PROVE  LET t == Phase(Mark(s, d), n) IN
         /\ Doze(t) /\ Top(t).proc = Top(s).proc /\ Top(t).a = Top(s).a /\ SameBoard(s, t)
         /\ t.status = s.status /\ (Closed(s) => Closed(t)) /\ Top(t).phase = n
  <1> DEFINE u == Mark(s, d)  t == Phase(u, n)
  <1>1. Edit(s, u, {"data"}) /\ u.status = s.status
    BY EditMark
  <1>2. s.status # "error"
    BY DEF Doze
  <1> HIDE DEF u
  <1>3. Edit(s, u, {"phase", "data"})
    BY <1>1, EditMore
  <1>4. Doze(u) /\ Top(u).proc = Top(s).proc /\ (Closed(s) => Closed(u))
    BY <1>1, <1>2, <1>3, DozeAlters
  <1>5. Edit(u, t, {"phase"}) /\ t.status = u.status /\ Top(t).phase = n
    BY <1>4, EditPhase
  <1> HIDE DEF t
  <1>6. Edit(u, t, {"phase", "data"})
    BY <1>5, EditMore
  <1>7. Doze(t) /\ Top(t).proc = Top(u).proc /\ (Closed(u) => Closed(t))
    BY <1>1, <1>2, <1>4, <1>5, <1>6, DozeAlters
  <1>8. Top(u).a = Top(s).a /\ Top(t).a = Top(u).a
    BY <1>3, <1>6 DEF Edit, Alters, Marks
  <1>9. SameBoard(s, t)
    BY <1>3, <1>6 DEF Edit, SameBoard
  <1> QED BY <1>1, <1>4, <1>5, <1>7, <1>8, <1>9 DEF t, u

(* Kept by a casualty roll.                                                *)
LEMMA CasualtyRollStill ==
  ASSUME PitchInv, CasualtyRoll
  PROVE  Still(m')
  <1> DEFINE p == Top(m).a  s == Pop(m)
  <1>1. Top(m).proc = "CASUALTY" /\ m.status = "running"
    BY DEF CasualtyRoll, Runs
  <1>2. Doze(m) /\ p \notin m.has /\ p \in Slots
    BY <1>1, Nursed DEF PitchInv
  <1>3. Steady(s) /\ s.status = "running" /\ p \notin s.has
    BY <1>1, <1>2, SteadyPop DEF SameBoard
  <1>4. \/ \E l \in {"reserves", "cas"} : m' = Banish(s, p, l)
        \/ \E rolled : m' = Phase(Mark(Push(s, Frame("CASUALTY", p, 1, NoSq)), rolled), 1)
    BY Zenon DEF CasualtyRoll
  <1> HIDE DEF s, p
  <1>5. CASE \E l \in {"reserves", "cas"} : m' = Banish(s, p, l)
    BY <1>2, <1>3, <1>5, SteadyBanish, End DEF Locations
  <1>6. ASSUME NEW rolled, m' = Phase(Mark(Push(s, Frame("CASUALTY", p, 1, NoSq)), rolled), 1)
        PROVE  Still(m')
    <2> DEFINE f == Frame("CASUALTY", p, 1, NoSq)  u == Push(s, f)
    <2>1. IsFrame(f) /\ f.proc = "CASUALTY" /\ f.a = p
      BY BareFrame
    <2> HIDE DEF f
    <2>2. FrameOk(f) /\ ~BallFrame(f)
      BY <1>2, <2>1 DEF FrameOk, IsFrame, BallFrame
    <2>3. /\ Board(u) /\ SameBoard(s, u)
          /\ u.status = "error" \/ (Doze(u) /\ Top(u) = f)
      BY <1>3, <2>1, <2>2, DozePush
    <2>4. m' = Phase(Mark(u, rolled), 1)
      BY <1>6 DEF u, f
    <2> HIDE DEF u
    <2>5. CASE u.status = "error"
      <3>0. /\ IsMatch(Mark(u, rolled)) /\ SameBoard(u, Mark(u, rolled))
            /\ Mark(u, rolled).status = "error"
        BY <2>3, <2>5 DEF Board, IsMatch, Fields, Mark, SameBoard
      <3>1. IsMatch(m') /\ SameBoard(u, m') /\ m'.status = "error"
        <4> DEFINE v == Mark(u, rolled)
        <4>1. m' = Phase(v, 1)
          BY <2>4
        <4> HIDE DEF v
        <4> QED BY <3>0, <4>1 DEF IsMatch, Fields, Phase, SameBoard, v
      <3> QED BY <2>3, <3>1, BoardAlike, ErrorStill
    <2>6. CASE Doze(u) /\ Top(u) = f
      <3>1. /\ Doze(m') /\ Top(m').proc = "CASUALTY" /\ Top(m').a = p /\ SameBoard(u, m')
        BY <2>1, <2>4, <2>6, MarkedDoze
      <3>2. m'.has = s.has
        BY <2>3, <3>1 DEF SameBoard
      <3> QED BY <1>3, <3>1, <3>2, NurseDoze
    <2> QED BY <2>3, <2>5, <2>6
  <1> QED BY <1>4, <1>5, <1>6

(* Kept by a casualty's coach asked, and his choice.                       *)
LEMMA CasualtyStill ==
  ASSUME PitchInv, CasualtyAsk \/ CasualtyChoice \/ CasualtyPick
  PROVE  Still(m')
  <1> DEFINE p == Top(m).a
  <1>1. Top(m).proc = "CASUALTY" /\ m.status # "error"
    BY DEF CasualtyAsk, CasualtyChoice, CasualtyPick, Runs, Asks
  <1>2. Doze(m) /\ p \notin m.has /\ p \in Slots
    BY <1>1, Nursed DEF PitchInv
  <1> DEFINE s == Answered(Pop(m))
  <1>3. Steady(s) /\ s.status = "running" /\ p \notin s.has
    BY <1>2, AnsweredPop DEF SameBoard
  <1>4. \/ \E team : m' = Decide(m, team)
        \/ \E l \in {"reserves", "cas"} : m' = Banish(s, p, l)
        \/ \E rolled : m' = Answered(Phase(Mark(Apothecary(m, p), rolled), 2))
    BY Zenon DEF CasualtyAsk, CasualtyChoice, CasualtyPick
  <1> HIDE DEF s
  <1>5. CASE \E team : m' = Decide(m, team)
    BY <1>1, <1>2, <1>5, AskNurse
  <1>6. CASE \E l \in {"reserves", "cas"} : m' = Banish(s, p, l)
    BY <1>2, <1>3, <1>6, SteadyBanish, End DEF Locations
  <1>7. ASSUME NEW rolled, m' = Answered(Phase(Mark(Apothecary(m, p), rolled), 2))
        PROVE  Still(m')
    <2> DEFINE cured == Apothecary(m, p)  u == Phase(Mark(cured, rolled), 2)
    <2>1. Mere(m, cured)
      BY <1>2 DEF Doze, Board, IsMatch, Fields, Mere, SameBoard, Kept, Apothecary
    <2> HIDE DEF cured
    <2>2. Doze(cured) /\ Top(cured) = Top(m)
      BY <1>2, <2>1, DozeMere
    <2>3. Doze(u) /\ Top(u).proc = "CASUALTY" /\ Top(u).a = p /\ SameBoard(cured, u)
      BY <1>1, <2>2, MarkedDoze
    <2> HIDE DEF u
    <2>4. Doze(m') /\ Top(m') = Top(u) /\ SameBoard(u, m')
      BY <1>7, <2>3, AnsweredDoze DEF u, cured
    <2>5. m'.has = m.has
      BY <2>1, <2>3, <2>4 DEF SameBoard, Mere
    <2> QED BY <1>2, <2>3, <2>4, <2>5, NurseDoze
  <1> QED BY <1>4, <1>5, <1>6, <1>7

(* A frame that is not waited for moves on to its next phase.              *)
LEMMA RestPhase ==
  ASSUME NEW s, Doze(s), Top(s).proc \notin {"MOVE", "PASS", "KICKOFF", "TEST", "KO_RECOVERY", "CASUALTY", "CATCH"},
         NEW n, Top(s).proc = "PUSH" => n # 6
  PROVE  LET t == Phase(s, n) IN
         Doze(t) /\ Steady(t) /\ Goes(s, t) /\ SameBoard(s, t) /\ t.status = s.status
           /\ Top(t).proc = Top(s).proc
  <1> DEFINE t == Phase(s, n)
  <1>1. Edit(s, t, {"phase"}) /\ t.status = s.status /\ Top(t).phase = n
    BY EditPhase
  <1>2. s.status # "error"
    BY DEF Doze
  <1> HIDE DEF t
  <1>3. Edit(s, t, {"phase", "data"})
    BY <1>1, EditMore
  <1>4. Doze(t) /\ Top(t).proc = Top(s).proc /\ (Closed(s) => Closed(t))
    BY <1>1, <1>2, <1>3, DozeAlters
  <1>5. Resting(Top(t))
    BY <1>1, <1>4 DEF Resting, Due
  <1>6. SameBoard(s, t)
    BY <1>1 DEF Edit
  <1> QED BY <1>1, <1>4, <1>5, <1>6, DozeRests DEF Goes, t

(* Kept by a foul.                                                         *)
LEMMA FoulRollStill ==
  ASSUME PitchInv, FoulRoll
  PROVE  Still(m')
  <1> DEFINE f == Top(m)  s == Phase(m, 1)  t == [s EXCEPT !.ret = {}]
  <1>1. f.proc = "FOUL" /\ m.status = "running"
    BY DEF FoulRoll, Runs
  <1>2. Doze(m) /\ f.a \in Slots /\ f.b \in Slots
    BY <1>1, Begin DEF PitchInv, Elsewhere, FrameOk
  <1>3. Steady(s) /\ Goes(m, s)
    BY <1>1, <1>2, RestPhase
  <1>4. m' = Armour(t, f.b, "foul", f.a)
    BY DEF FoulRoll
  <1> HIDE DEF s, f
  <1>5. Mere(s, t)
    BY <1>3 DEF Steady, Board, IsMatch, Fields, Mere, SameBoard, Kept
  <1>6. Steady(t) /\ Goes(s, t)
    BY <1>3, <1>5, SteadyMere
  <1> HIDE DEF t
  <1>7. Steady(m') /\ Goes(t, m')
    BY <1>2, <1>4, <1>6, SteadyArmour
  <1>8. Goes(m, m')
    BY <1>3, <1>6, <1>7, GoesOn
  <1> QED BY <1>1, <1>7, <1>8, End

(* A player who is sent off leaves the ball, which bounces.                *)
LEMMA SteadySendOff ==
  ASSUME NEW s, Steady(s), NEW p \in Slots
  PROVE  LET t == SendOff(s, p) IN Steady(t) /\ Goes(s, t)
  <1> DEFINE d == IF p \in s.has THEN Bounce(DropBall(s), s.at[p]) ELSE s
             r == Remove(d, p, "sent_off")
  <1>1. d = Spill(s, p)
    BY DEF Spill
  <1>2. Steady(d) /\ Goes(s, d) /\ p \notin d.has
    <2> HIDE DEF d
    <2> QED BY <1>1, SteadySpill
  <1> HIDE DEF d
  <1>3. Steady(r) /\ Goes(d, r)
    BY <1>2, SteadyRemove DEF Locations
  <1>4. SendOff(s, p) = MakeTurnover(r)
    BY DEF SendOff, r, d
  <1> HIDE DEF r
  <1>5. Steady(MakeTurnover(r)) /\ Goes(r, MakeTurnover(r))
    BY <1>3, SteadyTurnover
  <1>6. Goes(s, MakeTurnover(r))
    BY <1>2, <1>3, <1>5 DEF Goes
  <1> QED BY <1>4, <1>5, <1>6

(* Kept by the referee.                                                    *)
LEMMA FoulSeenStill ==
  ASSUME PitchInv, FoulSeen
  PROVE  Still(m')
  <1> DEFINE f == Top(m)  p == f.a  team == TeamOf(p)
             paid == [m EXCEPT !.bribes[team] = @ - 1]
             caught(s) == IF team \in s.ejected THEN SendOff(Pop(s), p)
                          ELSE Decide(Phase(s, 2), team)
  <1>1. f.proc = "FOUL" /\ m.status = "running"
    BY DEF FoulSeen, Runs
  <1>2. Doze(m) /\ p \in Slots
    BY <1>1, Begin DEF PitchInv, Elsewhere, FrameOk
  <1>3. m' \in {Pop(m), caught(m), [Pop(paid) EXCEPT !.turnover = FALSE], caught(paid)}
    BY DEF FoulSeen
  <1>4. Mere(m, m) /\ Mere(m, paid)
    BY <1>2 DEF Doze, Board, IsMatch, Fields, Mere, SameBoard, Kept
  <1> HIDE DEF p
  <1>5. ASSUME NEW s, Mere(m, s)
        PROVE  Still(Pop(s)) /\ Still([Pop(s) EXCEPT !.turnover = FALSE]) /\ Still(caught(s))
    <2>1. Doze(s) /\ Top(s) = f /\ s.status = "running"
      BY <1>1, <1>2, <1>5, DozeMere DEF Mere, Kept
    <2> DEFINE u == Pop(s)  t == [u EXCEPT !.turnover = FALSE]
    <2>2. Steady(u) /\ u.status = "running"
      BY <2>1, SteadyPop
    <2>3. Steady(SendOff(u, p)) /\ Goes(u, SendOff(u, p))
      <3> HIDE DEF u
      <3> QED BY <1>2, <2>2, SteadySendOff
    <2>4. Still(SendOff(u, p))
      BY <2>2, <2>3, End
    <2>5. Mere(u, t)
      BY <2>2 DEF Steady, Board, IsMatch, Fields, Mere, SameBoard, Kept
    <2>6. Still(u) /\ Still(t)
      <3> HIDE DEF u, t
      <3>1. Steady(t) /\ t.status = "running"
        BY <2>2, <2>5, SteadyMere DEF Mere, Kept
      <3> QED BY <2>2, <3>1, SteadyStill
    <2> DEFINE v == Phase(s, 2)
    <2>7. Steady(v) /\ v.status = "running" /\ Top(v).proc = "FOUL"
      BY <1>1, <2>1, RestPhase
    <2>8. Still(Decide(v, team))
      <3> HIDE DEF v, team
      <3> QED BY <2>7, DecideStill
    <2> QED BY <2>4, <2>6, <2>8
  <1> HIDE DEF paid, caught
  <1> QED BY <1>3, <1>4, <1>5 DEF caught

(* Kept by a coach who argues the call.                                    *)
LEMMA ArgueStill ==
  ASSUME PitchInv, Argue
  PROVE  Still(m')
  <1> DEFINE p == Top(m).a  s == Answered(Pop(m))
             t == [s EXCEPT !.ejected = @ \cup {TeamOf(p)}]
  <1>1. Top(m).proc = "FOUL" /\ m.status # "error"
    BY DEF Argue, Asks
  <1>2. Doze(m) /\ p \in Slots
    BY <1>1, Begin DEF PitchInv, Elsewhere, FrameOk
  <1>3. Steady(s) /\ s.status = "running"
    BY <1>2, AnsweredPop
  <1>4. m' \in {SendOff(s, p), SendOff(t, p), MakeTurnover(s)}
    BY DEF Argue
  <1> HIDE DEF s, p
  <1>5. Mere(s, t)
    BY <1>3 DEF Steady, Board, IsMatch, Fields, Mere, SameBoard, Kept
  <1> HIDE DEF t
  <1>6. Steady(t) /\ Goes(s, t)
    BY <1>3, <1>5, SteadyMere
  <1>7. Steady(SendOff(s, p)) /\ Goes(s, SendOff(s, p))
    BY <1>2, <1>3, SteadySendOff
  <1>8. Steady(SendOff(t, p)) /\ Goes(t, SendOff(t, p))
    BY <1>2, <1>6, SteadySendOff
  <1>9. Steady(MakeTurnover(s)) /\ Goes(s, MakeTurnover(s))
    BY <1>3, SteadyTurnover
  <1> QED BY <1>3, <1>4, <1>6, <1>7, <1>8, <1>9, GoesOn, End

(* Kept by everything from a knockdown to a foul.                          *)
LEMMA HurtStill ==
  ASSUME PitchInv, HurtNext
  PROVE  Still(m')
  BY KnockedDownStill, ArmourRollStill, InjuryRollStill, PatchStill, CasualtyRollStill,
     CasualtyStill, FoulRollStill, FoulSeenStill, ArgueStill DEF HurtNext

(* ------------------------------ blocks --------------------------------- *)
(* BLOCK, PUSH and FOUL may change their phase and flags while nobody      *)
(* waits for a die.                                                        *)
LEMMA RestEdit ==
  ASSUME NEW s, Doze(s), NEW t, Edit(s, t, {"phase", "data"}), t.status = s.status,
         Top(s).proc \in {"BLOCK", "PUSH", "FOUL"}, Top(s).proc = "PUSH" => Top(t).phase # 6
  PROVE  Doze(t) /\ Steady(t) /\ Goes(s, t) /\ Top(t).proc = Top(s).proc
  <1>1. s.status # "error"
    BY DEF Doze
  <1>2. Doze(t) /\ Top(t).proc = Top(s).proc /\ (Closed(s) => Closed(t))
    BY <1>1, DozeAlters
  <1>3. Resting(Top(t))
    BY <1>2 DEF Resting, Due
  <1> QED BY <1>2, <1>3, DozeRests DEF Goes

(* A player placed on a square takes the ball he carries along.            *)
LEMMA SteadyFollow ==
  ASSUME NEW s, Steady(s), NEW p \in Slots, NEW q \in Squares
  PROVE  LET t == Carry(Place(s, p, q), p) IN Steady(t) /\ Goes(s, t) /\ Kept(s, t)
  BY SteadyRelocate DEF Relocate

(* Kept by Trickster.                                                      *)
LEMMA BlockTrickStill ==
  ASSUME PitchInv, BlockTrick
  PROVE  Still(m')
  <1> DEFINE f == Top(m)  s == Pop(m)
  <1>1. f.proc = "BLOCK" /\ m.status = "running"
    BY DEF BlockTrick, Runs
  <1>2. Steady(s) /\ s.status = "running" /\ f.b \in Slots
    BY <1>1, Begin DEF PitchInv, Elsewhere, FrameOk
  <1>3. PICK q \in Trick(m, f) : m' = Carry(Place(s, f.b, q), f.b)
    BY DEF BlockTrick
  <1>4. q \in Squares
    <2> DEFINE open == Fewest(m, TeamOf(f.b), Free(m, f.b))
    <2>1. open \subseteq Squares
      BY FreeSquares DEF Fewest
    <2>2. open # {} /\ q = First(open)
      BY DEF Trick
    <2> HIDE DEF open
    <2> QED BY <2>1, <2>2, FirstIn
  <1> HIDE DEF s, f
  <1>5. Steady(m') /\ Goes(s, m')
    BY <1>2, <1>3, <1>4, SteadyFollow
  <1> QED BY <1>2, <1>5, End

(* Kept by a dump-off.                                                     *)
LEMMA BlockDumpStill ==
  ASSUME PitchInv, BlockDump
  PROVE  Still(m')
  <1> DEFINE f == Top(m)  d == DropBall(m)
  <1>1. f.proc = "BLOCK" /\ m.status = "running"
    BY DEF BlockDump, Runs
  <1>2. Steady(m) /\ f.b \in Slots
    BY <1>1, Begin DEF PitchInv, Elsewhere, FrameOk, Resting, Due
  <1>3. PICK r \in Dump(m, f) :
          m' \in {GiveBall(d, r)} \cup {Bounce(BallTo(d, m.at[p]), m.at[p]) : p \in {r, f.b}}
    BY DEF BlockDump
  <1>4. r \in Slots /\ OnPitch(m, r) /\ f.b \in m.has
    BY DEF Dump, CanCatch, ExertsTz
  <1>5. Closed(m)
    BY <1>2, <1>4, LiveBall
  <1>6. Steady(d) /\ Goes(m, d) /\ d.loc = m.loc
    BY <1>2, SteadyDrop
  <1> HIDE DEF d, f
  <1>7. Closed(d) /\ OnPitch(d, r)
    BY <1>4, <1>5, <1>6 DEF Goes, OnPitch
  <1>8. Steady(GiveBall(d, r)) /\ Goes(d, GiveBall(d, r))
    BY <1>4, <1>6, <1>7, SteadyGive
  <1>9. ASSUME NEW p \in {r, f.b}
        PROVE  LET t == Bounce(BallTo(d, m.at[p]), m.at[p]) IN Steady(t) /\ Goes(d, t)
    <2> DEFINE b == BallTo(d, m.at[p])
    <2>1. m.at[p] \in Squares
      BY <1>2, <1>4 DEF Steady, Board, Typed
    <2>2. Steady(b) /\ Goes(d, b) /\ Closed(b)
      BY <1>6, <1>7, <2>1, SteadyTo DEF Goes
    <2> HIDE DEF b
    <2>3. Steady(Bounce(b, m.at[p])) /\ Goes(b, Bounce(b, m.at[p]))
      BY <2>2, SteadyBounce
    <2> QED BY <2>2, <2>3, GoesOn DEF b
  <1>10. Steady(m') /\ Goes(d, m')
    BY <1>3, <1>8, <1>9
  <1>11. Goes(m, m')
    BY <1>6, <1>10, GoesOn
  <1> QED BY <1>1, <1>10, <1>11, End

(* Kept by the block dice.                                                 *)
LEMMA BlockRollStill ==
  ASSUME PitchInv, BlockRoll
  PROVE  Still(m')
  <1> DEFINE f == Top(m)  team == TeamOf(f.a)
             fans == IF team = m.active THEN [m EXCEPT !.cheer = @ \ {team}] ELSE m
  <1>1. f.proc = "BLOCK" /\ m.status = "running"
    BY DEF BlockRoll, Runs
  <1>2. Doze(m)
    BY <1>1, Begin DEF PitchInv, Elsewhere
  <1>3. PICK d, c, t : m' = Decide(Phase(SetTop(fans, [f EXCEPT !.data = d]), c), t)
    BY Zenon DEF BlockRoll
  <1>4. Mere(m, fans)
    BY <1>2 DEF Doze, Board, IsMatch, Fields, Mere, SameBoard, Kept
  <1> HIDE DEF fans
  <1>5. Doze(fans) /\ Top(fans) = f /\ fans.status = "running"
    BY <1>1, <1>2, <1>4, DozeMere DEF Mere, Kept
  <1> DEFINE g == [f EXCEPT !.data = d]  u == SetTop(fans, g)  v == Phase(u, c)
  <1>6. Alters(f, g, {"data"})
    BY <1>5, TopOk DEF FrameOk, Alters, IsFrame, Marks
  <1> HIDE DEF g, f
  <1>7. Edit(fans, u, {"data"}) /\ u.status = "running"
    BY <1>5, <1>6, EditSet
  <1> HIDE DEF u
  <1>8. Doze(u) /\ Top(u).proc = "BLOCK"
    BY <1>1, <1>5, <1>7, EditMore, RestEdit
  <1>9. Steady(v) /\ v.status = "running" /\ Top(v).proc = "BLOCK"
    BY <1>7, <1>8, RestPhase
  <1>10. m' = Decide(v, t)
    BY <1>3 DEF v, u, g
  <1> HIDE DEF v
  <1> QED BY <1>9, <1>10, DecideStill

(* Kept by their re-roll.                                                  *)
LEMMA BlockRerollStill ==
  ASSUME PitchInv, BlockReroll \/ BlockAsk
  PROVE  Still(m')
  <1>1. Top(m).proc = "BLOCK" /\ m.status # "error"
    BY DEF BlockReroll, BlockAsk, Runs, Asks
  <1>2. Doze(m) /\ Steady(m)
    BY <1>1, Begin DEF PitchInv, Elsewhere, Resting, Due
  <1>3. CASE BlockAsk
    BY <1>1, <1>2, <1>3, DecideStill DEF BlockAsk
  <1>4. CASE BlockReroll
    <2> DEFINE paid == [m EXCEPT !.rerolls[TeamOf(Top(m).a)] = @ - 1]
               s == Phase(m, 2)  t == Phase(Mark(paid, {"rr_used"}), 2)
    <2>1. m' = Answered(s) \/ m' = Answered(t)
      BY <1>4 DEF BlockReroll
    <2>2. Mere(m, paid)
      BY <1>2 DEF Doze, Board, IsMatch, Fields, Mere, SameBoard, Kept
    <2> HIDE DEF paid
    <2>3. Doze(paid) /\ Top(paid) = Top(m)
      BY <1>2, <2>2, DozeMere
    <2>4. Doze(t) /\ Top(t).proc = "BLOCK"
      BY <1>1, <2>3, MarkedDoze
    <2>5. Doze(s) /\ Top(s).proc = "BLOCK"
      BY <1>1, <1>2, RestPhase
    <2> HIDE DEF s, t
    <2>6. Doze(m') /\ m'.status = "running" /\ Top(m').proc = "BLOCK"
      BY <2>1, <2>4, <2>5, AnsweredDoze
    <2> QED BY <2>6, DozeRests, SteadyStill DEF Resting, Due
  <1> QED BY <1>3, <1>4

(* A push of one player by another.                                        *)
LEMMA SteadyShove ==
  ASSUME NEW s, Steady(s), NEW a \in Slots, NEW b \in Slots, NEW q \in Squares, NEW d
  PROVE  LET t == Push(s, [Frame("PUSH", a, b, q) EXCEPT !.data = d]) IN
         Steady(t) /\ Goes(s, t) /\ SameBoard(s, t)
  <1> DEFINE f == [Frame("PUSH", a, b, q) EXCEPT !.data = d]
  <1>0. IsFrame(f) /\ f.phase = 0 /\ f.proc = "PUSH" /\ f.a = a /\ f.b = b /\ f.sq = q
    BY DEF Frame, IsFrame, Marks
  <1> HIDE DEF f
  <1>1. Quiet(f) /\ ~BallFrame(f)
    BY <1>0, QuietFrame, LooseFrame
  <1>2. LET t == Push(s, f) IN Steady(t) /\ Goes(s, t) /\ SameBoard(s, t)
    BY <1>1, SteadyQuiet
  <1> QED BY <1>2 DEF f

(* A player's square is on the pitch's map wherever he is.                 *)
LEMMA AtSquare ==
  ASSUME NEW s, Board(s), NEW p \in Slots
  PROVE  s.at[p] \in Squares
  BY DEF Board, Typed

(* What a die face chosen by a coach leads to: a push,                     *)
LEMMA SteadyToPush ==
  ASSUME NEW s, Doze(s), NEW f, f.a \in Slots, f.b \in Slots, NEW pow
  PROVE  LET t == ToPush(s, f, pow) IN Steady(t) /\ Goes(s, t)
  <1> DEFINE u == Pop(s)
  <1>1. Steady(u) /\ Goes(s, u)
    BY SteadyPop
  <1>2. s.at[f.a] \in Squares
    BY AtSquare DEF Doze
  <1> DEFINE d == Flag(pow, "pow") \cup Flag("blitz" \in f.data, "from_blitz")
                    \cup Flag("frenzy2" \in f.data, "frenzy_done")
  <1>3. ToPush(s, f, pow) = Push(u, [Frame("PUSH", f.a, f.b, s.at[f.a]) EXCEPT !.data = d])
    BY Zenon DEF ToPush
  <1> HIDE DEF u, d
  <1>4. LET t == Push(u, [Frame("PUSH", f.a, f.b, s.at[f.a]) EXCEPT !.data = d]) IN
        Steady(t) /\ Goes(u, t)
    BY <1>1, <1>2, SteadyShove, Zenon
  <1> QED BY <1>1, <1>3, <1>4, GoesOn, Zenon

(* both players down,                                                      *)
LEMMA SteadyBothFall ==
  ASSUME NEW s, Doze(s), NEW f, f.a \in Slots, f.b \in Slots
  PROVE  LET t == BothFall(s, f) IN Steady(t) /\ Goes(s, t)
  <1> DEFINE u == Pop(s)
             a == IF Falls(s, f.a) THEN KnockDown(u, f.a, "block", f.b) ELSE u
             t == IF Falls(s, f.b) THEN KnockDown(a, f.b, "block", f.a) ELSE a
  <1>1. Steady(u) /\ Goes(s, u)
    BY SteadyPop
  <1>2. BothFall(s, f) = t
    BY DEF BothFall
  <1> HIDE DEF u
  <1>3. Steady(a) /\ Goes(u, a)
    BY <1>1, SteadyDown DEF Goes
  <1> HIDE DEF a
  <1>4. Steady(t) /\ Goes(a, t)
    BY <1>3, SteadyDown DEF Goes
  <1> QED BY <1>1, <1>2, <1>3, <1>4, GoesOn

(* a player laid down by Wrestle,                                          *)
LEMMA SteadyWrestleDown ==
  ASSUME NEW s, Steady(s), NEW p \in Slots
  PROVE  LET t == WrestleDown(s, p) IN Steady(t) /\ Goes(s, t)
  <1> DEFINE down == [PlaceProne(s, p) EXCEPT !.rooted = @ \ {p}]
             u == TurnoverIf(down, p \in s.has /\ TeamOf(p) = s.active)
  <1>1. Mere(s, down)
    BY DEF Steady, Board, IsMatch, Fields, Mere, SameBoard, Kept, PlaceProne
  <1>2. Steady(down) /\ Goes(s, down)
    BY <1>1, SteadyMere
  <1> HIDE DEF down
  <1>3. Steady(u) /\ Goes(down, u)
    BY <1>2, SteadyTurnover
  <1>4. WrestleDown(s, p) = Spill(u, p)
    BY DEF WrestleDown, u, down
  <1> HIDE DEF u
  <1>5. Steady(Spill(u, p)) /\ Goes(u, Spill(u, p))
    BY <1>3, SteadySpill
  <1> QED BY <1>2, <1>3, <1>4, <1>5, GoesOn

(* or both.                                                                *)
LEMMA SteadyBothWrestle ==
  ASSUME NEW s, Doze(s), NEW f, f.a \in Slots, f.b \in Slots
  PROVE  LET t == BothWrestle(s, f) IN Steady(t) /\ Goes(s, t)
  <1> DEFINE u == Pop(s)  v == WrestleDown(u, f.b)
  <1>1. Steady(u) /\ Goes(s, u)
    BY SteadyPop
  <1>2. BothWrestle(s, f) = WrestleDown(v, f.a)
    BY DEF BothWrestle
  <1> HIDE DEF u
  <1>3. Steady(v) /\ Goes(u, v)
    BY <1>1, SteadyWrestleDown
  <1> HIDE DEF v
  <1>4. Steady(WrestleDown(v, f.a)) /\ Goes(v, WrestleDown(v, f.a))
    BY <1>3, SteadyWrestleDown
  <1> QED BY <1>1, <1>2, <1>3, <1>4, GoesOn

(* Kept by the die chosen.                                                 *)
LEMMA ChooseDieStill ==
  ASSUME PitchInv, ChooseDie
  PROVE  Still(m')
  <1> DEFINE f == Top(m)  s == Answered(m)
  <1>1. f.proc = "BLOCK" /\ m.status # "error"
    BY DEF ChooseDie, Asks
  <1>2. Doze(m) /\ f.a \in Slots /\ f.b \in Slots
    BY <1>1, Begin DEF PitchInv, Elsewhere, FrameOk
  <1>3. Doze(s) /\ Top(s) = f /\ s.status = "running"
    BY <1>2, AnsweredDoze
  <1>4. PICK face \in Faces : m' = Resolved(s, f, face)
    BY DEF ChooseDie
  <1> HIDE DEF s
  <1>5. \/ m' = KnockDown(Pop(s), f.a, "block", f.b)
        \/ \E pow : m' = ToPush(s, f, pow)
        \/ \E n \in {4, 5} : \E team : m' = Decide(Phase(s, n), team)
        \/ m' = BothFall(s, f)
    <2>1. CASE face = "attacker_down"
      BY <1>4, <2>1 DEF Resolved
    <2>2. CASE face = "both_down"
      BY <1>4, <2>2 DEF Resolved
    <2>3. CASE face \notin {"attacker_down", "both_down"}
      BY <1>4, <2>3 DEF Resolved, Faces
    <2> QED BY <2>1, <2>2, <2>3
  <1> HIDE DEF f
  <1>6. CASE m' = KnockDown(Pop(s), f.a, "block", f.b)
    <2>1. Steady(Pop(s)) /\ Pop(s).status = "running"
      BY <1>3, SteadyPop
    <2>2. Steady(m') /\ Goes(Pop(s), m')
      BY <1>2, <1>6, <2>1, SteadyDown
    <2> QED BY <2>1, <2>2, End
  <1>7. CASE \E pow : m' = ToPush(s, f, pow)
    BY <1>2, <1>3, <1>7, SteadyToPush, End
  <1>8. CASE \E n \in {4, 5} : \E team : m' = Decide(Phase(s, n), team)
    <2>1. PICK n \in {4, 5} : \E team : m' = Decide(Phase(s, n), team)
      BY <1>8
    <2>2. Steady(Phase(s, n)) /\ Phase(s, n).status = "running" /\ Top(Phase(s, n)).proc = "BLOCK"
      BY <1>1, <1>3, RestPhase
    <2> QED BY <2>1, <2>2, DecideStill
  <1>9. CASE m' = BothFall(s, f)
    BY <1>2, <1>3, <1>9, SteadyBothFall, End
  <1> QED BY <1>5, <1>6, <1>7, <1>8, <1>9

(* Kept by the choice to wrestle.                                          *)
LEMMA WrestleChoiceStill ==
  ASSUME PitchInv, WrestleChoice
  PROVE  Still(m')
  <1> DEFINE f == Top(m)  s == Answered(m)
  <1>1. f.proc = "BLOCK" /\ m.status # "error"
    BY DEF WrestleChoice, Asks
  <1>2. Doze(m) /\ f.a \in Slots /\ f.b \in Slots
    BY <1>1, Begin DEF PitchInv, Elsewhere, FrameOk
  <1>3. Doze(s) /\ Top(s) = f /\ s.status = "running"
    BY <1>2, AnsweredDoze
  <1>4. m' \in {BothWrestle(s, f), Phase(s, 5), BothFall(s, f)}
    BY DEF WrestleChoice
  <1> HIDE DEF s, f
  <1>5. Steady(Phase(s, 5)) /\ Goes(s, Phase(s, 5))
    BY <1>1, <1>3, RestPhase
  <1>6. Steady(m') /\ Goes(s, m')
    BY <1>2, <1>3, <1>4, <1>5, SteadyBothFall, SteadyBothWrestle
  <1> QED BY <1>3, <1>6, End

(* -------------------------------- pushes ------------------------------- *)
(* BLOCK, PUSH and FOUL set a flag and go to their next phase.             *)
LEMMA RestMark ==
  ASSUME NEW s, Doze(s), Top(s).proc \in {"BLOCK", "PUSH", "FOUL"}, NEW d, NEW n,
         Top(s).proc = "PUSH" => n # 6
  PROVE  LET t == Phase(Mark(s, d), n) IN
         Doze(t) /\ Steady(t) /\ Goes(s, t) /\ Top(t).proc = Top(s).proc /\ t.status = s.status
  <1> DEFINE t == Phase(Mark(s, d), n)
  <1>1. /\ Doze(t) /\ Top(t).proc = Top(s).proc
        /\ t.status = s.status /\ (Closed(s) => Closed(t)) /\ Top(t).phase = n
    BY MarkedDoze
  <1> HIDE DEF t
  <1>2. Resting(Top(t))
    BY <1>1 DEF Resting, Due
  <1> QED BY <1>1, <1>2, DozeRests DEF Goes, t

(* The square of a push is set together with its phase.                    *)
LEMMA RestAim ==
  ASSUME NEW s, Doze(s), Top(s).proc = "PUSH", NEW t, Edit(s, t, {"phase", "sq"}),
         t.status \in {s.status, "running"}, Top(t).phase # 6, Top(t).sq \in Squares
  PROVE  Doze(t) /\ Steady(t) /\ Top(t).proc = "PUSH" /\ (Closed(s) => Closed(t))
  <1> DEFINE f == Top(s)  g == Top(t)
  <1>1. FrameOk(f) /\ s.status # "error"
    BY TopOk DEF Doze
  <1>2. IsFrame(g) /\ g.proc = "PUSH" /\ g.a = f.a /\ g.b = f.b /\ g.c = f.c /\ g.k = f.k
    BY DEF Edit, Alters, Marks
  <1> HIDE DEF f, g
  <1>3. FrameOk(g) /\ ~BallFrame(g) /\ Resting(g)
    BY <1>1, <1>2 DEF FrameOk, IsFrame, BallFrame, Resting, Due, f, g
  <1>4. Doze(t) /\ (Closed(s) => Closed(t))
    BY <1>1, <1>2, <1>3, DozeEdit DEF g
  <1> QED BY <1>2, <1>3, <1>4, DozeRests DEF g

(* The push has its square.                                                *)
LEMMA RestChosen ==
  ASSUME NEW s, Doze(s), Top(s).proc = "PUSH", Top(s).phase # 6, NEW q \in Squares,
         NEW n, n # 6
  PROVE  LET t == Chosen(s, q, n) IN
         Doze(t) /\ Steady(t) /\ t.status = "running" /\ SameBoard(s, t)
           /\ (Closed(s) => Closed(t))
  <1> DEFINE u == Answered(s)  v == Aim(u, q)  t == Phase(v, n)
  <1>1. /\ Doze(u) /\ Top(u) = Top(s) /\ u.status = "running" /\ SameBoard(s, u)
        /\ (Closed(s) => Closed(u))
    BY AnsweredDoze
  <1>2. Chosen(s, q, n) = Phase(v, n)
    <2>1. IsMatch(u) /\ u.stack = s.stack
      BY <1>1 DEF Doze, Board, Answered
    <2>2. Chosen(s, q, n) = [v EXCEPT !.stack[Len(u.stack)].phase = n]
      BY <2>1, Zenon DEF Chosen, Aim
    <2>3. Len(v.stack) = Len(u.stack)
      <3>1. IsStack(u.stack) /\ Len(u.stack) > 0
        BY <1>1 DEF Doze, Based
      <3>2. Edit(u, v, {"sq"})
        BY <1>1, EditAim
      <3> HIDE DEF u, v
      <3> QED BY <3>1, <3>2, ResetStack DEF Edit
    <2> QED BY <2>2, <2>3, Zenon DEF Phase
  <1> HIDE DEF u
  <1>3. Edit(u, v, {"sq"}) /\ Top(v).sq = q /\ v.status = u.status
    BY <1>1, EditAim
  <1> HIDE DEF v
  <1>4. Edit(u, v, {"phase", "sq"}) /\ Top(v).phase = Top(u).phase
    BY <1>3, EditMore DEF Edit, Alters, Marks
  <1>5. Doze(v) /\ Top(v).proc = "PUSH" /\ (Closed(u) => Closed(v))
    BY <1>1, <1>3, <1>4, RestAim
  <1>6. Doze(t) /\ Steady(t) /\ SameBoard(v, t) /\ t.status = v.status /\ Goes(v, t)
    BY <1>5, RestPhase
  <1> HIDE DEF t
  <1>7. SameBoard(s, t)
    BY <1>1, <1>3, <1>6 DEF SameBoard, Edit
  <1>8. Closed(s) => Closed(t)
    BY <1>1, <1>5, <1>6 DEF Goes
  <1> QED BY <1>1, <1>2, <1>3, <1>6, <1>7, <1>8 DEF t

(* A push goes back to its next phase from the pushed player's square.     *)
LEMMA EditStepBack ==
  ASSUME NEW s, Doze(s), NEW f
  PROVE  LET t == StepBack(s, f) IN
         /\ Edit(s, t, {"phase", "sq"}) /\ Top(t).phase = 3 /\ Top(t).sq = s.at[f.b]
         /\ t.status = s.status
  <1> DEFINE g == [Top(s) EXCEPT !.phase = 3, !.sq = s.at[f.b]]
  <1>1. StepBack(s, f) = SetTop(s, g)
    BY ZenonT(30) DEF Doze, Board, IsMatch, Fields, StepBack, Phase, SetTop, Top
  <1>2. Alters(Top(s), g, {"phase", "sq"}) /\ g.phase = 3 /\ g.sq = s.at[f.b]
    BY TopOk DEF FrameOk, Alters, IsFrame, Marks
  <1> HIDE DEF g
  <1> QED BY <1>1, <1>2, EditSet

(* ------------- a player moved, the ball not yet seen to ----------------- *)
Away(s, p, q, u) ==
  /\ IsMatch(u) /\ Typed(u) /\ Kept(s, u) /\ u.has = s.has /\ u.ball = s.ball
  /\ u.loc = [s.loc EXCEPT ![p] = "pitch"] /\ u.at = [s.at EXCEPT ![p] = q]

(* bb_place_player takes a player away from where he was.                  *)
LEMMA PlaceAway ==
  ASSUME NEW s, Board(s), NEW p \in Slots, NEW q \in Squares
  PROVE  Away(s, p, q, Place(s, p, q))
  <1> DEFINE l == Lift(s, p)  u == Place(s, p, q)
  <1>1. /\ IsMatch(l) /\ Kept(s, l) /\ l.has = s.has /\ l.ball = s.ball
        /\ l.loc = s.loc /\ l.at = s.at /\ l.grid \in [Squares -> Slots \cup {NoPlayer}]
    BY DEF Lift, Board, Fields, IsMatch, Typed, Kept
  <1> HIDE DEF l
  <1>2. /\ IsMatch(u) /\ Kept(l, u) /\ u.has = l.has /\ u.ball = l.ball
        /\ u.loc = [l.loc EXCEPT ![p] = "pitch"] /\ u.at = [l.at EXCEPT ![p] = q]
        /\ u.grid = [l.grid EXCEPT ![q] = p]
    BY <1>1 DEF Place, Fields, IsMatch, Typed, Kept, l
  <1> HIDE DEF u
  <1>3. Typed(u)
    BY <1>1, <1>2 DEF Board, Typed, Locations
  <1> QED BY <1>1, <1>2, <1>3 DEF Away, Kept, u

(* What happens elsewhere does not bring him back.                         *)
LEMMA AwayMere ==
  ASSUME NEW s, NEW p, NEW q, NEW u, Away(s, p, q, u), NEW v, Mere(u, v)
  PROVE  Away(s, p, q, v)
  BY DEF Away, Mere, Typed, SameBoard, Kept

(* If he has not got the ball the board agrees all the same.               *)
LEMMA AwayRest ==
  ASSUME NEW s, Board(s), NEW p \in Slots, NEW q \in Squares, NEW u, Away(s, p, q, u),
         p \notin s.has
  PROVE  Board(u)
  <1>1. IsBall(u.ball)
    BY DEF Board, Away
  <1>2. BallAgrees(u)
    BY DEF Board, BallAgrees, OnPitch, Typed, Away
  <1> QED BY <1>1, <1>2 DEF Board, Away

(* If he has, it does once the ball is carried along,                      *)
LEMMA AwayCarry ==
  ASSUME NEW s, Board(s), NEW p \in Slots, NEW q \in Squares, NEW u, Away(s, p, q, u)
  PROVE  LET t == Carry(u, p) IN
         Board(t) /\ Kept(s, t) /\ t.has = s.has /\ t.ball.state = s.ball.state
           /\ t.loc = u.loc /\ t.at = u.at
  <1> DEFINE t == Carry(u, p)
  <1>1. CASE p \notin s.has
    <2>1. t = u
      BY <1>1 DEF Carry, Away
    <2> QED BY <1>1, <2>1, AwayRest DEF Away
  <1>2. CASE p \in s.has
    <2>1. IsBall(s.ball) /\ BallAgrees(s) /\ Typed(s)
      BY DEF Board
    <2>2. /\ IsMatch(t) /\ Kept(u, t) /\ t.has = u.has
          /\ t.loc = u.loc /\ t.at = u.at /\ t.grid = u.grid
          /\ t.ball = [u.ball EXCEPT !.sq = u.at[p]]
      BY <1>2 DEF Carry, Away, IsMatch, Fields, Kept
    <2>3. u.at[p] = q /\ u.ball = s.ball
      BY <2>1 DEF Away, Typed
    <2> HIDE DEF t
    <2>4. /\ IsBall(t.ball) /\ t.ball.state = s.ball.state /\ t.ball.carrier = s.ball.carrier
          /\ t.ball.sq = q
      BY <2>1, <2>2, <2>3, BallMoved
    <2>5. Typed(t)
      BY <2>2 DEF Away, Typed
    <2>6. BallAgrees(t)
      BY <1>2, <2>1, <2>2, <2>3, <2>4 DEF Away, BallAgrees, OnPitch, Typed
    <2> QED BY <2>2, <2>4, <2>5, <2>6 DEF Board, Away, Kept, t
  <1> QED BY <1>1, <1>2

(* or dropped.                                                             *)
LEMMA AwayDrop ==
  ASSUME NEW s, Board(s), NEW p \in Slots, NEW q \in Squares, NEW u, Away(s, p, q, u),
         p \in s.has
  PROVE  LET t == DropBall(u) IN
         Board(t) /\ Kept(s, t) /\ t.has = {} /\ t.loc = u.loc /\ t.at = u.at
  <1> DEFINE t == DropBall(u)
  <1>1. /\ s.has = {p} /\ s.ball.carrier = p /\ s.ball.sq \in Squares /\ p # NoPlayer
    BY NobodyIsNoPlayer DEF Board, BallAgrees, Typed
  <1>a. IsMatch(u) /\ IsBall(u.ball) /\ u.ball.carrier = p /\ u.ball.sq = s.ball.sq
    BY <1>1 DEF Away, Board
  <1>b. t = [u EXCEPT !.has = @ \ {p}, !.ball.carrier = NoPlayer, !.ball.state = "ground"]
    BY <1>1, <1>a DEF DropBall
  <1> HIDE DEF t
  <1>2. /\ t.has = u.has \ {p}
        /\ t.ball = [state |-> "ground", carrier |-> NoPlayer, sq |-> s.ball.sq]
        /\ t.loc = u.loc /\ t.at = u.at /\ t.grid = u.grid
        /\ IsMatch(t) /\ Kept(u, t)
    BY <1>a, <1>b DEF Fields, IsMatch, IsBall, Kept
  <1> HIDE DEF t
  <1>3. t.has = {}
    BY <1>1, <1>2 DEF Away
  <1>4. Typed(t)
    BY <1>2, <1>3 DEF Away, Typed
  <1>5. BallAgrees(t)
    BY <1>1, <1>2, <1>3 DEF BallAgrees
  <1>6. IsBall(t.ball)
    BY <1>2 DEF IsBall
  <1> QED BY <1>2, <1>3, <1>4, <1>5, <1>6 DEF Board, Away, Kept, t

(* Either way the state is steady again, before the handler returns.       *)
LEMMA SteadyAway ==
  ASSUME NEW s, Steady(s), NEW p \in Slots, NEW q \in Squares, NEW u, Away(s, p, q, u)
  PROVE  /\ p \notin s.has => Steady(u) /\ Goes(s, u)
         /\ LET t == Carry(u, p) IN
            Steady(t) /\ Goes(s, t) /\ Kept(s, t) /\ t.has = s.has /\ t.ball.state = s.ball.state
         /\ p \in s.has =>
              LET t == DropBall(u) IN
              Steady(t) /\ Goes(s, t) /\ Kept(s, t) /\ t.has = {} /\ Closed(t)
  <1>0. Board(s)
    BY DEF Steady
  <1>1. ASSUME p \notin s.has PROVE Steady(u) /\ Goes(s, u)
    <2>1. Board(u) /\ Kept(s, u) /\ u.has = s.has /\ u.ball.state = s.ball.state
      BY <1>0, <1>1, AwayRest DEF Away
    <2> QED BY <2>1, OnwardQuiet
  <1>2. LET t == Carry(u, p) IN
        Steady(t) /\ Goes(s, t) /\ Kept(s, t) /\ t.has = s.has /\ t.ball.state = s.ball.state
    <2> DEFINE t == Carry(u, p)
    <2>1. Board(t) /\ Kept(s, t) /\ t.has = s.has /\ t.ball.state = s.ball.state
      BY <1>0, AwayCarry
    <2> HIDE DEF t
    <2>2. Steady(t) /\ Goes(s, t)
      BY <2>1, OnwardQuiet
    <2> QED BY <2>1, <2>2 DEF t
  <1>3. ASSUME p \in s.has
        PROVE  LET t == DropBall(u) IN
               Steady(t) /\ Goes(s, t) /\ Kept(s, t) /\ t.has = {} /\ Closed(t)
    <2> DEFINE t == DropBall(u)
    <2>1. Board(t) /\ Kept(s, t) /\ t.has = {}
      BY <1>0, <1>3, AwayDrop
    <2>2. Closed(s)
      BY <1>3, LiveBall
    <2> HIDE DEF t
    <2>3. Steady(t) /\ Goes(s, t)
      BY <2>1, <2>2, Onward
    <2> QED BY <2>1, <2>2, <2>3 DEF t, Goes
  <1> QED BY <1>1, <1>2, <1>3

(* What a PUSH handler begins with.                                        *)
LEMMA PushOn ==
  ASSUME PitchInv, Top(m).proc = "PUSH", m.status # "error"
  PROVE  /\ Doze(m) /\ Top(m).a \in Slots /\ Top(m).b \in Slots /\ Top(m).sq \in Squares
         /\ Top(m).phase # 6 => Steady(m)
         /\ Steady(Pop(m)) /\ Goes(m, Pop(m)) /\ SameBoard(m, Pop(m)) /\ Pop(m).status = m.status
  BY Begin DEF PitchInv, Elsewhere, FrameOk, Resting, Due

(* Kept by a push that begins.                                             *)
LEMMA PushBeginStill ==
  ASSUME PitchInv, PushBegin
  PROVE  Still(m')
  <1>1. Top(m).proc = "PUSH" /\ m.status = "running" /\ Top(m).phase = 0
    BY DEF PushBegin, Runs
  <1>2. Doze(m) /\ Steady(m)
    BY <1>1, PushOn
  <1>3. \/ m' = Phase(Mark(m, {"stood_firm"}), 5)
        \/ \E team : m' \in {Decide(Phase(m, 4), team), Decide(m, team)}
    BY DEF PushBegin
  <1>4. CASE m' = Phase(Mark(m, {"stood_firm"}), 5)
    BY <1>1, <1>2, <1>4, RestMark, SteadyStill
  <1>5. CASE \E team : m' \in {Decide(Phase(m, 4), team), Decide(m, team)}
    <2>1. Steady(Phase(m, 4)) /\ Phase(m, 4).status = "running" /\ Top(Phase(m, 4)).proc = "PUSH"
      BY <1>1, <1>2, RestPhase
    <2> QED BY <1>1, <1>2, <1>5, <2>1, DecideStill
  <1> QED BY <1>3, <1>4, <1>5

(* A coach has answered, and the frame goes on.                            *)
LEMMA AnswerStill ==
  ASSUME NEW s, Steady(s), s.status # "error"
  PROVE  Still(Answered(s))
  BY AnsweredSteady, SteadyStill

(* Kept by Stand Firm, and a push towards the crowd.                       *)
LEMMA StandFirmStill ==
  ASSUME PitchInv, StandFirm \/ PushCrowd
  PROVE  Still(m')
  <1>1. Top(m).proc = "PUSH" /\ m.status = "decision"
    BY DEF StandFirm, PushCrowd, Asks
  <1>2. Doze(m)
    BY <1>1, PushOn
  <1>3. PICK d, n : n \in {0, 2, 5} /\ m' = Answered(Phase(Mark(m, d), n))
    BY Zenon DEF StandFirm, PushCrowd
  <1>4. Steady(Phase(Mark(m, d), n)) /\ Phase(Mark(m, d), n).status = "decision"
    BY <1>1, <1>2, <1>3, RestMark
  <1> QED BY <1>3, <1>4, AnswerStill

(* Kept by the choice of a square.                                         *)
LEMMA PushToStill ==
  ASSUME PitchInv, PushTo
  PROVE  Still(m')
  <1>1. Top(m).proc = "PUSH" /\ m.status = "decision" /\ Top(m).phase = 0
    BY DEF PushTo, Asks
  <1>2. Doze(m)
    BY <1>1, PushOn
  <1>3. PICK q \in Open(m, Top(m)) : m' = Chosen(m, q, 2)
    BY DEF PushTo
  <1>4. q \in Squares
    BY FreeSquares DEF Open
  <1>5. Steady(m') /\ m'.status = "running"
    BY <1>1, <1>2, <1>3, <1>4, RestChosen
  <1> QED BY <1>5, SteadyStill

(* Kept by a square that is taken.                                         *)
LEMMA PushChainStill ==
  ASSUME PitchInv, PushChain
  PROVE  Still(m')
  <1> DEFINE f == Top(m)
  <1>1. f.proc = "PUSH" /\ m.status = "decision" /\ f.phase = 0
    BY DEF PushChain, Asks
  <1>2. Doze(m) /\ f.b \in Slots
    BY <1>1, PushOn
  <1>3. PICK q \in Behind(m, f) \cap Squares :
          m' = Push(Chosen(m, q, 1),
                 [Frame("PUSH", f.b, SlotAt(m, q), m.at[f.b]) EXCEPT !.data = {"chain"}])
    BY DEF PushChain
  <1>4. SlotAt(m, q) \in Slots
    <2>1. Open(m, f) = {}
      BY DEF PushChain
    <2>2. ~SideSteps(m, f)
      BY <2>1 DEF Open, SideSteps
    <2>3. ~Empty(m, q)
      BY <2>1, <2>2 DEF Open
    <2>4. m.grid \in [Squares -> Slots \cup {NoPlayer}]
      BY <1>2 DEF Doze, Board, Typed
    <2> QED BY <2>3, <2>4 DEF Empty, SlotAt
  <1> DEFINE s == Chosen(m, q, 1)
  <1>5. Steady(s) /\ s.status = "running"
    <2> HIDE DEF f
    <2> QED BY <1>1, <1>2, RestChosen DEF f
  <1>6. m.at[f.b] \in Squares
    BY <1>2, AtSquare DEF Doze
  <1> HIDE DEF s
  <1>7. LET t == Push(s, [Frame("PUSH", f.b, SlotAt(m, q), m.at[f.b]) EXCEPT !.data = {"chain"}])
        IN  Steady(t) /\ Goes(s, t)
    BY <1>2, <1>4, <1>5, <1>6, SteadyShove, Zenon
  <1>8. Steady(m') /\ Goes(s, m')
    BY <1>3, <1>7, Zenon DEF s
  <1> QED BY <1>5, <1>8, End

(* Kept by a chain push that comes back.                                   *)
LEMMA PushChainedStill ==
  ASSUME PitchInv, PushChained
  PROVE  Still(m')
  <1>1. Top(m).proc = "PUSH" /\ m.status = "running"
    BY DEF PushChained, Runs
  <1>2. Doze(m)
    BY <1>1, PushOn
  <1>3. m' \in {Phase(m, 2), Phase(Mark(m, {"stood_firm"}), 5)}
    BY DEF PushChained
  <1>4. Steady(m') /\ m'.status = "running"
    BY <1>1, <1>2, <1>3, RestMark, RestPhase
  <1> QED BY <1>4, SteadyStill

(* A push that has its square begins to move its player.                   *)
LEMMA PushedBack ==
  ASSUME PitchInv, Runs("PUSH", 2)
  PROVE  LET s == StepBack(m, Top(m)) IN
         /\ Steady(s) /\ s.status = "running" /\ SameBoard(m, s) /\ Top(m).b \in Slots
         /\ Top(m).sq \in Squares
  <1> DEFINE f == Top(m)  s == StepBack(m, f)
  <1>1. f.proc = "PUSH" /\ m.status = "running" /\ f.phase = 2
    BY DEF Runs
  <1>2. Doze(m) /\ f.b \in Slots /\ f.sq \in Squares
    BY <1>1, PushOn
  <1>3. /\ Edit(m, s, {"phase", "sq"}) /\ Top(s).phase = 3 /\ Top(s).sq = m.at[f.b]
        /\ s.status = m.status
    BY <1>2, EditStepBack
  <1>4. m.at[f.b] \in Squares
    BY <1>2, AtSquare DEF Doze
  <1> HIDE DEF s
  <1>5. Steady(s)
    BY <1>1, <1>2, <1>3, <1>4, RestAim
  <1> QED BY <1>1, <1>2, <1>3, <1>5 DEF s, Edit

(* Kept by a player pushed into the crowd, the ball thrown in.             *)
LEMMA PushSurfStill ==
  ASSUME PitchInv, PushSurf
  PROVE  Still(m')
  <1> DEFINE f == Top(m)  p == f.b  held == p \in m.has
             b == StepBack(m, f)
             s == TurnoverIf(b, TeamOf(p) = m.active)
             d == IF held THEN DropBall(s) ELSE s
             off == Remove(d, p, "reserves")
             hurt == Push(off, [Frame("INJURY", p, 1, NoSq) EXCEPT !.c = NoPlayer])
             t == IF held THEN Push(hurt, Frame("THROW_IN", 0, 0, m.at[p])) ELSE hurt
  <1>1. m' = t
    BY DEF PushSurf
  <1>2. Steady(b) /\ b.status = "running" /\ SameBoard(m, b) /\ p \in Slots
    BY PushedBack DEF PushSurf
  <1> HIDE DEF b
  <1>3. Steady(s) /\ Goes(b, s) /\ s.has = m.has
    BY <1>2, SteadyTurnover DEF Mere, SameBoard
  <1> HIDE DEF s, p
  <1>4. held => Closed(s)
    BY <1>3, LiveBall
  <1>5. Steady(d) /\ Goes(s, d) /\ p \notin d.has
    <2>1. CASE held
      BY <1>3, <2>1, SteadyDrop
    <2>2. CASE ~held
      BY <1>3, <2>2 DEF Goes
    <2> QED BY <2>1, <2>2
  <1> HIDE DEF d
  <1>6. Steady(off) /\ Goes(d, off)
    BY <1>2, <1>5, SteadyRemove DEF Locations
  <1> HIDE DEF off
  <1>7. Steady(hurt) /\ Goes(off, hurt)
    BY <1>2, <1>6, SteadyInjury, Zenon
  <1> HIDE DEF hurt
  <1>8. held => Closed(hurt)
    BY <1>4, <1>5, <1>6, <1>7 DEF Goes
  <1>9. Steady(t) /\ Goes(hurt, t)
    BY <1>7, <1>8, SteadyThrowIn DEF Goes
  <1> HIDE DEF t
  <1>10. Goes(b, t)
    BY <1>3, <1>5, <1>6, <1>7, <1>9 DEF Goes
  <1> QED BY <1>1, <1>2, <1>9, <1>10, End

(* Kept by the pushed player moved, or the ball stripped from him.         *)
LEMMA PushMoveStill ==
  ASSUME PitchInv, PushMove
  PROVE  Still(m')
  <1> DEFINE f == Top(m)  p == f.b  q == f.sq
             b == StepBack(m, f)  moved == Place(b, p, q)
             gouged == [moved EXCEPT !.gouged = @ \cup {p}]
  <1>1. PICK s \in {moved, gouged} :
          \/ p \in m.has /\ m' = Bounce(DropBall(s), q)
          \/ p \in m.has /\ m' = Carry(s, p)
          \/ p \notin m.has /\ Loose(s, q) /\ m' = Bounce(s, q)
          \/ p \notin m.has /\ m' = s
    BY DEF PushMove
  <1>2. Steady(b) /\ b.status = "running" /\ SameBoard(m, b) /\ p \in Slots /\ q \in Squares
    BY PushedBack DEF PushMove
  <1> HIDE DEF b, p, q, f
  <1>3. Away(b, p, q, moved)
    BY <1>2, PlaceAway DEF Steady
  <1> HIDE DEF moved
  <1>4. Mere(moved, gouged)
    BY <1>3 DEF Away, IsMatch, Fields, Mere, SameBoard, Kept
  <1>5. Away(b, p, q, s)
    BY <1>3, <1>4, AwayMere
  <1>6. b.has = m.has
    BY <1>2 DEF SameBoard
  <1>7. /\ p \notin b.has => Steady(s) /\ Goes(b, s)
        /\ Steady(Carry(s, p)) /\ Goes(b, Carry(s, p))
        /\ p \in b.has => Steady(DropBall(s)) /\ Goes(b, DropBall(s)) /\ Closed(DropBall(s))
    BY <1>2, <1>5, SteadyAway
  <1>8. CASE p \in m.has /\ m' = Bounce(DropBall(s), q)
    <2> DEFINE d == DropBall(s)
    <2>1. Steady(d) /\ Goes(b, d) /\ Closed(d)
      BY <1>6, <1>7, <1>8
    <2> HIDE DEF d
    <2>2. Steady(Bounce(d, q)) /\ Goes(d, Bounce(d, q))
      BY <2>1, SteadyBounce
    <2> QED BY <1>2, <1>8, <2>1, <2>2, GoesOn, End DEF d
  <1>9. CASE p \notin m.has /\ Loose(s, q) /\ m' = Bounce(s, q)
    <2>1. Steady(s) /\ Goes(b, s)
      BY <1>6, <1>7, <1>9
    <2>2. Closed(s)
      BY <1>9, <2>1, LiveBall DEF Loose
    <2>3. Steady(Bounce(s, q)) /\ Goes(s, Bounce(s, q))
      BY <2>1, <2>2, SteadyBounce
    <2> QED BY <1>2, <1>9, <2>1, <2>3, GoesOn, End
  <1>10. CASE p \in m.has /\ m' = Carry(s, p)
    BY <1>2, <1>7, <1>10, End
  <1>11. CASE p \notin m.has /\ m' = s
    BY <1>2, <1>6, <1>7, <1>11, End
  <1> QED BY <1>1, <1>8, <1>9, <1>10, <1>11

(* A board whose ball and carrier are unchanged leaves the frame on top to *)
(* be dealt with.                                                          *)
LEMMA DozeQuiet ==
  ASSUME NEW s, Doze(s), NEW t, Board(t), Kept(s, t), t.has = s.has,
         t.ball.state = s.ball.state
  PROVE  Doze(t) /\ Goes(s, t) /\ Top(t) = Top(s)
  <1>1. Hushed(t) \/ Closed(s)
    BY DEF Doze, Closed, Based, Hushed
  <1>2. Doze(t) /\ (Closed(s) => Closed(t))
    BY <1>1, DozeKept
  <1> QED BY <1>2 DEF Goes, Kept, Top

(* So does the pusher's following up.                                      *)
LEMMA DozeFollow ==
  ASSUME NEW s, Doze(s), NEW p \in Slots, NEW q \in Squares
  PROVE  LET t == Carry(Place(s, p, q), p) IN
         Doze(t) /\ Goes(s, t) /\ Top(t) = Top(s) /\ t.status = s.status /\ t.has = s.has
  <1> DEFINE t == Carry(Place(s, p, q), p)
  <1>1. Board(t) /\ Kept(s, t) /\ t.has = s.has /\ t.ball.state = s.ball.state
    BY RelocateBoard DEF Relocate, Doze
  <1> HIDE DEF t
  <1>2. Doze(t) /\ Goes(s, t) /\ Top(t) = Top(s)
    BY <1>1, DozeQuiet
  <1> QED BY <1>1, <1>2 DEF t, Kept

(* Kept by the follow-up.                                                  *)
LEMMA PushFollowStill ==
  ASSUME PitchInv, PushFollow \/ FollowUp
  PROVE  Still(m')
  <1> DEFINE f == Top(m)  s == FollowTo(m, f)
  <1>1. f.proc = "PUSH" /\ m.status # "error" /\ f.phase = 3
    BY DEF PushFollow, FollowUp, Runs, Asks
  <1>2. Doze(m) /\ Steady(m) /\ f.a \in Slots /\ f.sq \in Squares
    BY <1>1, PushOn
  <1>3. Doze(s) /\ Top(s) = f /\ s.status = m.status
    BY <1>2, DozeFollow DEF FollowTo
  <1>4. \/ m.status = "running" /\ m' \in {Phase(m, 5), Phase(s, 5)}
        \/ m' \in {Answered(Phase(m, 5)), Answered(Phase(s, 5))}
        \/ \E team : m' = Decide(m, team)
    BY DEF PushFollow, FollowUp, Runs
  <1> HIDE DEF s, f
  <1>5. /\ Steady(Phase(m, 5)) /\ Phase(m, 5).status = m.status
        /\ Steady(Phase(s, 5)) /\ Phase(s, 5).status = m.status
    BY <1>1, <1>2, <1>3, RestPhase DEF f
  <1>6. CASE m.status = "running" /\ m' \in {Phase(m, 5), Phase(s, 5)}
    BY <1>5, <1>6, SteadyStill
  <1>7. CASE m' \in {Answered(Phase(m, 5)), Answered(Phase(s, 5))}
    BY <1>1, <1>5, <1>7, AnswerStill
  <1>8. CASE \E team : m' = Decide(m, team)
    BY <1>1, <1>2, <1>8, DecideStill DEF f
  <1> QED BY <1>4, <1>6, <1>7, <1>8

(* A second block against the same opponent.                               *)
LEMMA SteadyBlockAgain ==
  ASSUME NEW s, Steady(s), NEW f, f.a \in Slots, f.b \in Slots, NEW flags
  PROVE  LET t == BlockAgain(s, f, flags) IN Steady(t) /\ Goes(s, t)
  <1> DEFINE g == [Frame("BLOCK", f.a, f.b, NoSq) EXCEPT !.data = {"frenzy2"} \cup flags]
  <1>1. IsFrame(g) /\ g.phase = 0 /\ g.proc = "BLOCK" /\ g.a = f.a /\ g.b = f.b
    BY DEF Frame, IsFrame, Marks
  <1>2. BlockAgain(s, f, flags) = Push(s, g)
    BY DEF BlockAgain
  <1> HIDE DEF g
  <1>3. Quiet(g) /\ ~BallFrame(g)
    BY <1>1, QuietFrame, LooseFrame
  <1> QED BY <1>2, <1>3, SteadyQuiet

(* Kept by the end of a push.                                              *)
LEMMA PushEndStill ==
  ASSUME PitchInv, PushEnd
  PROVE  Still(m')
  <1> DEFINE f == Top(m)  s == Pop(m)  six == Phase(m, 6)
             due == [six EXCEPT !.rushes[f.a] = @ + 1]
             on == [s EXCEPT !.moved[f.a] = @ + 1]
  <1>1. f.proc = "PUSH" /\ m.status = "running" /\ f.phase = 5
    BY DEF PushEnd, Runs
  <1>2. Doze(m) /\ f.a \in Slots /\ f.b \in Slots /\ Steady(s) /\ s.status = "running"
    BY <1>1, PushOn
  <1>3. \/ m' = Test(due, f.a, "RUSH", NoPlayer)
        \/ m' \in {s, KnockDown(s, f.b, "block", f.a), CheckTd(s),
                   BlockAgain(on, f, {"blitz"}), BlockAgain(s, f, {})}
    BY DEF PushEnd
  <1>4. CASE m' = Test(due, f.a, "RUSH", NoPlayer)
    <2>1. /\ Edit(m, six, {"phase"}) /\ Top(six).phase = 6 /\ six.status = m.status
      BY <1>2, EditPhase
    <2>2. Doze(six) /\ Top(six).proc = "PUSH"
      <3> HIDE DEF six
      <3>1. Edit(m, six, {"phase", "data"})
        BY <2>1, EditMore
      <3>2. Top(m).proc = "PUSH"
        BY <1>1
      <3> QED BY <1>1, <1>2, <2>1, <3>1, <3>2, DozeAlters
    <2> HIDE DEF six
    <2>3. Mere(six, due)
      BY <2>2 DEF Doze, Board, IsMatch, Fields, Mere, SameBoard, Kept
    <2>4. Doze(due) /\ Top(due) = Top(six) /\ due.status = "running"
      <3> HIDE DEF due
      <3> QED BY <1>1, <2>1, <2>2, <2>3, DozeMere DEF Mere, Kept
    <2> HIDE DEF due
    <2>5. Due(Top(due)) /\ Sees(due, Top(due))
      BY <2>1, <2>2, <2>4 DEF Due, Sees
    <2> QED BY <1>2, <1>4, <2>4, <2>5, TestStill
  <1>5. CASE m' \in {s, KnockDown(s, f.b, "block", f.a), CheckTd(s),
                     BlockAgain(on, f, {"blitz"}), BlockAgain(s, f, {})}
    <2> HIDE DEF s, f
    <2>1. Mere(s, on)
      BY <1>2 DEF Steady, Board, IsMatch, Fields, Mere, SameBoard, Kept
    <2> HIDE DEF on
    <2>2. Steady(on) /\ Goes(s, on)
      BY <1>2, <2>1, SteadyMere
    <2>3. /\ Steady(BlockAgain(on, f, {"blitz"})) /\ Goes(on, BlockAgain(on, f, {"blitz"}))
          /\ Steady(BlockAgain(s, f, {})) /\ Goes(s, BlockAgain(s, f, {}))
      BY <1>2, <2>2, SteadyBlockAgain
    <2>4. Steady(CheckTd(s)) /\ Goes(s, CheckTd(s))
      BY <1>2, SteadyTd
    <2>5. LET t == KnockDown(s, f.b, "block", f.a) IN Steady(t) /\ Goes(s, t)
      BY <1>2, SteadyDown
    <2>6. Goes(s, s)
      BY DEF Goes
    <2>7. Steady(m') /\ Goes(s, m')
      BY <1>2, <1>5, <2>2, <2>3, <2>4, <2>5, <2>6, GoesOn
    <2> QED BY <1>2, <2>7, End
  <1> QED BY <1>3, <1>4, <1>5

(* Kept by the rush for a second block.                                    *)
LEMMA FrenzyRushStill ==
  ASSUME PitchInv, FrenzyRush
  PROVE  Still(m')
  <1> DEFINE f == Top(m)  s == Pop(m)
  <1>1. f.proc = "PUSH" /\ m.status = "running"
    BY DEF FrenzyRush, Runs
  <1>2. f.a \in Slots /\ f.b \in Slots /\ Steady(s) /\ s.status = "running"
    BY <1>1, PushOn
  <1>3. m' \in {BlockAgain(s, f, {"blitz"}), KnockDown(s, f.a, "rush", NoPlayer)}
    BY DEF FrenzyRush
  <1> HIDE DEF s, f
  <1>4. Steady(m') /\ Goes(s, m')
    BY <1>2, <1>3, SteadyBlockAgain, SteadyDown
  <1> QED BY <1>2, <1>4, End

(* Kept by everything in a block and its pushes.                           *)
LEMMA BlockStill ==
  ASSUME PitchInv, BlockNext
  PROVE  Still(m')
  BY BlockTrickStill, BlockDumpStill, BlockRollStill, BlockRerollStill, ChooseDieStill,
     WrestleChoiceStill, PushBeginStill, StandFirmStill, PushToStill, PushChainStill,
     PushChainedStill, PushSurfStill, PushMoveStill, PushFollowStill, PushEndStill,
     FrenzyRushStill DEF BlockNext

(* ----------------------- the kick has come down ------------------------ *)
(* A frame goes to its next phase, whatever it waits for.                  *)
LEMMA PhaseStack ==
  ASSUME NEW s, Board(s), IsStack(s.stack), Len(s.stack) > 0, FrameOk(Top(s)), NEW n
  PROVE  LET t == Phase(s, n) IN
         /\ Board(t) /\ SameBoard(s, t) /\ t.status = s.status
         /\ IsStack(t.stack) /\ Len(t.stack) = Len(s.stack)
         /\ \A i \in 1 .. Len(s.stack) - 1 : t.stack[i] = s.stack[i]
         /\ Top(t).phase = n /\ Alters(Top(s), Top(t), {"phase"})
  <1> DEFINE f == [Top(s) EXCEPT !.phase = n]  t == Phase(s, n)
  <1>1. Alters(Top(s), f, {"phase"}) /\ f.phase = n
    BY DEF FrameOk, Alters, IsFrame, Marks
  <1>2. /\ IsMatch(t) /\ SameBoard(s, t) /\ t.status = s.status
        /\ t.stack = Reset(s.stack, f)
    BY DEF Board, IsMatch, Fields, Phase, Top, SameBoard, Reset
  <1> HIDE DEF f, t
  <1>3. /\ IsStack(t.stack) /\ Len(t.stack) = Len(s.stack) /\ Top(t) = f
        /\ \A i \in 1 .. Len(s.stack) - 1 : t.stack[i] = s.stack[i]
    BY <1>2, ResetStack DEF Top
  <1> QED BY <1>1, <1>2, <1>3, BoardAlike DEF t

Bare(s) == Board(s) /\ s.status # "error" /\ Settles(s) /\ Len(s.stack) = 2

(* A kick-off on its own, the ball down, keeps the invariant,              *)
LEMMA BareStill ==
  ASSUME NEW s, Bare(s)
  PROVE  Still(s)
  BY DEF Bare, Still, PitchOk, AwaitsDie, Settles, Settling, Top

(* whatever happens on the board,                                          *)
LEMMA BareKept ==
  ASSUME NEW s, Bare(s), NEW t, Board(t), Kept(s, t)
  PROVE  Bare(t)
  BY DEF Bare, Settles, Settling, Kept

(* and if a bounce, a catch or a touchdown is pushed:                      *)
LEMMA BarePush ==
  ASSUME NEW s, Bare(s), NEW f, FrameOk(f), f.phase = 0,
         f.proc \in {"SCATTER", "CATCH", "TOUCHDOWN"}, f.proc # "TOUCHDOWN" => s.has = {}
  PROVE  Still(Push(s, f))
  <1> DEFINE t == Push(s, f)
  <1>1. /\ Board(t) /\ SameBoard(s, t)
        /\ t.status = "error" \/ (t.stack = Append(s.stack, f) /\ t.status = s.status)
    BY PushCases DEF Bare
  <1> HIDE DEF t
  <1>2. CASE t.status = "error"
    BY <1>1, <1>2, ErrorStill DEF t
  <1>3. CASE t.stack = Append(s.stack, f)
    <2>1. /\ IsStack(t.stack) /\ Len(t.stack) = 3 /\ t.stack[3] = f
          /\ t.stack[1] = s.stack[1] /\ t.stack[2] = s.stack[2]
      BY <1>3, PushedStack DEF Bare, Settles
    <2>2. t.has = s.has
      BY <1>1 DEF SameBoard
    <2>3. Settles(t)
      BY <2>1, <2>2 DEF Bare, Settles, Settling
    <2>4. ~AwaitsDie(t)
      BY <2>1 DEF AwaitsDie, Top
    <2> QED BY <1>1, <2>3, <2>4 DEF Still, PitchOk, t
  <1> QED BY <1>1, <1>2, <1>3

(* their frames need a player at most.                                     *)
LEMMA BallFrameOk ==
  ASSUME NEW f, IsFrame(f)
  PROVE  /\ f.proc \in {"SCATTER", "TOUCHDOWN"} => FrameOk(f)
         /\ f.proc = "CATCH" /\ f.a \in Slots => FrameOk(f)
  BY DEF FrameOk, IsFrame

(* A bounce after the kick,                                                *)
LEMMA BareBounce ==
  ASSUME NEW s, Bare(s), s.has = {}, NEW q
  PROVE  Still(Bounce(s, q))
  <1> DEFINE f == Frame("SCATTER", 0, 1, q)
  <1>1. IsFrame(f) /\ f.phase = 0 /\ f.proc = "SCATTER"
    BY BareFrame
  <1>2. Bounce(s, q) = Push(s, f)
    BY DEF Bounce
  <1> HIDE DEF f
  <1> QED BY <1>1, <1>2, BallFrameOk, BarePush

(* a catch,                                                                *)
LEMMA BareCatch ==
  ASSUME NEW s, Bare(s), s.has = {}, NEW p \in Slots
  PROVE  Still(Push(s, Frame("CATCH", p, 0, NoSq)))
  <1> DEFINE f == Frame("CATCH", p, 0, NoSq)
  <1>1. IsFrame(f) /\ f.phase = 0 /\ f.proc = "CATCH" /\ f.a = p
    BY BareFrame
  <1> HIDE DEF f
  <1>2. Still(Push(s, f))
    BY <1>1, BallFrameOk, BarePush
  <1> QED BY <1>2 DEF f

(* and a touchdown by whoever has caught it.                               *)
LEMMA BareTd ==
  ASSUME NEW s, Bare(s)
  PROVE  Still(CheckTd(s))
  <1> DEFINE f == Frame("TOUCHDOWN", s.ball.carrier, 0, NoSq)
  <1>1. IsFrame(f) /\ f.phase = 0 /\ f.proc = "TOUCHDOWN"
    BY BareFrame
  <1>2. CheckTd(s) \in {s, Push(s, f)}
    BY DEF CheckTd
  <1> HIDE DEF f
  <1> QED BY <1>1, <1>2, BallFrameOk, BarePush, BareStill

(* A bounce or a catch that ends leaves the kick-off on its own.           *)
LEMMA SettlesPop ==
  ASSUME NEW s, PitchOk(s), s.status # "error", Settles(s), Top(s).proc \in {"SCATTER", "CATCH"}
  PROVE  /\ Len(s.stack) = 3 /\ s.has = {} /\ FrameOk(Top(s)) /\ Top(s) = s.stack[3]
         /\ Bare(Pop(s)) /\ SameBoard(s, Pop(s)) /\ Pop(s).status = s.status
         /\ InKickoff(Pop(s))
  <1> DEFINE t == Pop(s)  S == s.stack
  <1>1. Board(s)
    BY DEF PitchOk
  <1>2. Len(S) = 3 /\ s.has = {} /\ FrameOk(Top(s)) /\ IsStack(S) /\ Top(s) = S[3]
    BY DEF Settles, Settling, Top
  <1>3. /\ IsMatch(t) /\ SameBoard(s, t) /\ t.status = s.status
        /\ t.stack = Below(S)
    BY <1>1 DEF Pop, SameBoard, Board, Fields, IsMatch, Below
  <1> HIDE DEF t
  <1>4. IsStack(t.stack) /\ Len(t.stack) = 2 /\ t.stack[1] = S[1] /\ t.stack[2] = S[2]
    <2> HIDE DEF S
    <2>1. LET U == Below(S) IN
          IsStack(U) /\ Len(U) = Len(S) - 1 /\ \A i \in 1 .. Len(S) - 1 : U[i] = S[i]
      <3>1. Len(S) > 0
        BY <1>2
      <3> QED BY <1>2, <3>1, FrontStack, Zenon
    <2> QED BY <1>2, <1>3, <2>1
  <1>5. Settles(t)
    BY <1>2, <1>4 DEF Settles, Settling
  <1>6. Bare(t)
    BY <1>1, <1>3, <1>4, <1>5, BoardAlike DEF Bare
  <1>7. InKickoff(t)
    <2>1. 2 \in DOMAIN t.stack
      BY <1>4 DEF IsStack
    <2>2. t.stack[2].proc = "KICKOFF"
      BY <1>5 DEF Settles, Settling
    <2> QED BY <2>1, <2>2 DEF InKickoff
  <1> QED BY <1>2, <1>3, <1>6, <1>7 DEF t

(* ------------------------------- the ball ------------------------------ *)
(* A bounce that does not leave the pitch ends on a square of it,          *)
LEMMA HopInside ==
  ASSUME NEW P, NEW o \in Hop(P), ~o.out
  PROVE  o.sq \in Squares
  <1>1. PICK b \in P : o \in IF b.out THEN {b}
                            ELSE {[sq |-> IF r \in Squares THEN r ELSE b.sq,
                                   out |-> r \notin Squares] : r \in Around(b.sq)}
    BY Zenon DEF Hop
  <1>2. ~b.out
    BY <1>1
  <1>3. PICK r : o = [sq |-> IF r \in Squares THEN r ELSE b.sq, out |-> r \notin Squares]
    BY <1>1, <1>2
  <1>4. r \in Squares
    BY <1>3
  <1> QED BY <1>3, <1>4

(* and so do several.                                                      *)
LEMMA HopsInside ==
  ASSUME NEW q, NEW n, NEW o \in Hops(q, n), ~o.out
  PROVE  o.sq \in Squares
  <1>1. \E P : o \in Hop(P)
    BY Zenon DEF Hops
  <1> QED BY <1>1, HopInside

(* Whoever is found on the grid is a player.                               *)
LEMMA GridSlots ==
  ASSUME NEW s, Board(s), NEW q \in Squares
  PROVE  /\ ~Empty(s, q) => SlotAt(s, q) \in Slots
         /\ \A Q : Q \subseteq Squares => Occupied(s, Q) \subseteq Slots
  BY DEF Board, Typed, Empty, SlotAt, Occupied

(* bb_ball_lands: the ball comes down on a square, under a player who      *)
(* tries for it, on an empty square, or it bounces on.                     *)
LEMMA SteadyLand ==
  ASSUME NEW s, Steady(s), Closed(s), NEW q \in Squares, NEW rests
  PROVE  LET t == Land(s, q, rests) IN Steady(t) /\ Goes(s, t)
  <1> DEFINE on == BallTo(s, q)  p == SlotAt(s, q)
  <1>1. Steady(on) /\ Goes(s, on) /\ Closed(on)
    BY SteadyTo DEF Goes
  <1>2. \/ Land(s, q, rests) \in {on, Bounce(on, q)}
        \/ p \in Slots /\ Land(s, q, rests) = Push(on, Frame("CATCH", p, 0, NoSq))
    BY GridSlots DEF Land, Steady
  <1> HIDE DEF on, p
  <1>3. LET t == Bounce(on, q) IN Steady(t) /\ Goes(on, t)
    BY <1>1, SteadyBounce
  <1>4. CASE Land(s, q, rests) \in {on, Bounce(on, q)}
    BY <1>1, <1>3, <1>4, GoesOn
  <1>5. CASE p \in Slots /\ Land(s, q, rests) = Push(on, Frame("CATCH", p, 0, NoSq))
    BY <1>1, <1>5, SteadyCatch, GoesOn
  <1> QED BY <1>2, <1>4, <1>5

(* The same during a kick-off.                                             *)
LEMMA BareLand ==
  ASSUME NEW s, Bare(s), NEW q \in Squares, NEW rests
  PROVE  Still(Land(s, q, rests))
  <1> DEFINE on == BallTo(s, q)  p == SlotAt(s, q)
  <1>1. Bare(on) /\ on.has = {}
    BY ToBoard, BareKept DEF Bare
  <1>2. \/ Land(s, q, rests) \in {on, Bounce(on, q)}
        \/ p \in Slots /\ Land(s, q, rests) = Push(on, Frame("CATCH", p, 0, NoSq))
    BY GridSlots DEF Land, Bare
  <1> HIDE DEF on, p
  <1> QED BY <1>1, <1>2, BareStill, BareBounce, BareCatch

(* Outside a kick-off nobody is given the ball for a touchback.            *)
LEMMA NoKickoff ==
  ASSUME NEW s, Steady(s), Closed(s), s.status # "error"
  PROVE  ~InKickoff(s)
  BY DEF Steady, Closed, Based, Opening, InKickoff, IsStack

(* A ball out of play is nobody's.                                         *)
LEMMA BoardOff ==
  ASSUME NEW s, Board(s), s.has = {},
         NEW t, t = [s EXCEPT !.ball.state = "off", !.ball.carrier = NoPlayer]
  PROVE  Board(t) /\ Kept(s, t)
  <1>1. /\ t.has = {} /\ t.loc = s.loc /\ t.at = s.at /\ t.grid = s.grid
        /\ t.ball = [s.ball EXCEPT !.state = "off", !.carrier = NoPlayer]
        /\ IsMatch(t) /\ Kept(s, t)
    BY DEF Board, Fields, IsMatch, Kept
  <1>2. IsBall(t.ball) /\ t.ball.state = "off" /\ t.ball.carrier = NoPlayer
    BY <1>1 DEF Board, IsBall
  <1>3. Typed(t)
    BY <1>1 DEF Board, Typed
  <1>4. BallAgrees(t)
    BY <1>1, <1>2 DEF BallAgrees
  <1> QED BY <1>1, <1>2, <1>3, <1>4 DEF Board

(* Kept by a bounce.                                                       *)
LEMMA ScatterStill ==
  ASSUME PitchInv, Scatter
  PROVE  Still(m')
  <1>1. m.status = "running" /\ Top(m).proc = "SCATTER"
    BY DEF Scatter, Runs
  <1>2. PICK o \in Hops(Top(m).sq, Top(m).b) :
          m' = IF o.out THEN LeavePitch(Pop(m), o.sq)
               ELSE Land(Pop(m), o.sq, "flight" \notin Top(m).data)
    BY Zenon DEF Scatter
  <1>3. ~o.out => o.sq \in Squares
    BY HopsInside
  <1> DEFINE s == Pop(m)
  <1>4. CASE Settles(m)
    <2>1. Bare(s) /\ s.has = {} /\ InKickoff(s)
      BY <1>1, <1>4, SettlesPop DEF PitchInv, SameBoard
    <2> HIDE DEF s
    <2>2. CASE o.out
      <3>1. m' = [s EXCEPT !.ball.state = "off", !.ball.carrier = NoPlayer]
        BY <1>2, <2>1, <2>2 DEF LeavePitch, s
      <3>2. Board(m') /\ Kept(s, m')
        BY <2>1, <3>1, BoardOff DEF Bare
      <3> QED BY <2>1, <3>2, BareKept, BareStill
    <2>3. CASE ~o.out
      BY <1>2, <1>3, <2>1, <2>3, BareLand DEF s
    <2> QED BY <2>2, <2>3
  <1>5. CASE ~Settles(m)
    <2>1. Doze(m) /\ Closed(m)
      BY <1>1, <1>5, Awake, TopOk DEF PitchInv, BallFrame
    <2>2. Steady(s) /\ Closed(s) /\ s.status = "running"
      BY <1>1, <2>1, SteadyPop DEF Goes
    <2> HIDE DEF s
    <2>3. CASE o.out
      <3>1. m' = Push(s, Frame("THROW_IN", 0, 0, o.sq))
        BY <1>2, <2>2, <2>3, NoKickoff DEF LeavePitch, s
      <3> QED BY <2>2, <3>1, SteadyThrowIn, End
    <2>4. CASE ~o.out
      BY <1>2, <1>3, <2>2, <2>4, SteadyLand, End DEF s
    <2> QED BY <2>3, <2>4
  <1> QED BY <1>4, <1>5

(* Kept by a throw-in.                                                     *)
LEMMA ThrowInStill ==
  ASSUME PitchInv, ThrowIn
  PROVE  Still(m')
  <1> DEFINE s == Pop(m)
  <1>1. m.status = "running" /\ Top(m).proc = "THROW_IN"
    BY DEF ThrowIn, Runs
  <1>2. \E q : \/ q \in Squares /\ m' = Land(s, q, TRUE)
               \/ m' = Push(s, Frame("THROW_IN", 0, 0, q))
    <2>1. PICK d, n :
            LET q == Along(Top(m).sq, d, n) IN
            m' = IF q \in Squares THEN Land(s, q, TRUE)
                 ELSE Push(s, Frame("THROW_IN", 0, 0, Exit(Top(m).sq, d)))
      BY Zenon DEF ThrowIn
    <2> QED BY <2>1, Zenon
  <1>3. Elsewhere(Top(m)) /\ BallFrame(Top(m))
    BY <1>1 DEF Elsewhere, BallFrame
  <1>4. Steady(s) /\ Closed(s) /\ s.status = "running"
    BY <1>1, <1>3, Begin DEF PitchInv, Goes
  <1> HIDE DEF s
  <1> QED BY <1>2, <1>4, SteadyLand, SteadyThrowIn, End

(* A die rolled for a catch during a kick-off is the fourth frame.         *)
LEMMA FourthFrame ==
  ASSUME NEW S, IsStack(S), NEW f, NEW T, T = Append(S, f)
  PROVE  /\ IsStack(T)
         /\ Len(S) = 3 => Len(T) = 4 /\ T[4] = f /\ T[3] = S[3] /\ T[2] = S[2] /\ T[1] = S[1]
  <1>1. /\ IsStack(T) /\ Len(T) = Len(S) + 1 /\ T[Len(T)] = f
        /\ \A i \in 1 .. Len(S) : T[i] = S[i]
    BY PushedStack
  <1>2. Len(S) = 3 => Len(T) = 4 /\ T[4] = f /\ T[3] = S[3] /\ T[2] = S[2] /\ T[1] = S[1]
    BY <1>1
  <1> QED BY <1>1, <1>2

(* Kept by a catch that is tried.                                          *)
LEMMA CatchTryStill ==
  ASSUME PitchInv, CatchTry
  PROVE  Still(m')
  <1> DEFINE p == Top(m).a  t == Phase(m, 1)  s == Pop(m)
  <1>1. m.status = "running" /\ Top(m).proc = "CATCH" /\ Top(m).phase = 0
    BY DEF CatchTry, Runs
  <1>2. \/ OnPitch(m, p) /\ m' = Test(t, p, "CATCH", NoPlayer)
        \/ m' = Bounce(s, m.at[p])
    BY DEF CatchTry, CanCatch, ExertsTz
  <1>3. CASE Settles(m)
    <2>1. /\ Bare(s) /\ s.has = {} /\ Len(m.stack) = 3 /\ m.has = {} /\ Top(m) = m.stack[3]
          /\ FrameOk(Top(m)) /\ Board(m) /\ IsStack(m.stack)
      BY <1>1, <1>3, SettlesPop DEF PitchInv, PitchOk, SameBoard, Settles
    <2>2. /\ Board(t) /\ SameBoard(m, t) /\ t.status = m.status
          /\ IsStack(t.stack) /\ Len(t.stack) = 3
          /\ \A i \in 1 .. 2 : t.stack[i] = m.stack[i]
          /\ Top(t).phase = 1 /\ Alters(Top(m), Top(t), {"phase"})
      BY <2>1, PhaseStack
    <2> HIDE DEF s, t
    <2>3. FrameOk(Top(t)) /\ Top(t).proc = "CATCH" /\ Top(t).a = p /\ Top(t) = t.stack[3]
      <3>1. Alters(Top(m), Top(t), {"phase", "data"})
        BY <2>2 DEF Alters
      <3>2. FrameOk(Top(t)) /\ Top(t).proc = "CATCH"
        BY <1>1, <2>1, <3>1, FrameAlters
      <3>3. Top(t).a = Top(m).a
        BY <2>2 DEF Alters, Marks
      <3> QED BY <2>2, <3>2, <3>3 DEF Top
    <2>4. CASE OnPitch(m, p) /\ m' = Test(t, p, "CATCH", NoPlayer)
      <3> DEFINE f == [Frame("TEST", p, 0, NoSq) EXCEPT !.k = "CATCH", !.c = NoPlayer]
      <3>1. IsFrame(f) /\ f.proc = "TEST" /\ f.a = p
        BY DEF Frame, IsFrame, Marks
      <3>2. m' = Push(t, f)
        BY <2>4 DEF Test
      <3> HIDE DEF f
      <3>3. FrameOk(f)
        BY <2>1, <1>1, <3>1 DEF FrameOk, IsFrame
      <3>4. /\ Board(m') /\ SameBoard(t, m')
            /\ m'.status = "error" \/ (m'.stack = Append(t.stack, f) /\ m'.status = t.status)
        BY <2>2, <3>2, PushCases
      <3>5. CASE m'.status = "error"
        BY <3>4, <3>5, ErrorStill
      <3>6. CASE m'.stack = Append(t.stack, f)
        <4>1. /\ IsStack(m'.stack) /\ Len(m'.stack) = 4 /\ m'.stack[4] = f
              /\ m'.stack[3] = t.stack[3] /\ m'.stack[2] = m.stack[2] /\ m'.stack[1] = m.stack[1]
          <5>1. IsStack(t.stack) /\ Len(t.stack) = 3 /\ t.stack[1] = m.stack[1]
                /\ t.stack[2] = m.stack[2]
            BY <2>2
          <5> DEFINE V == t.stack  T == m'.stack
          <5>2. T = Append(V, f)
            BY <3>6
          <5> HIDE DEF V, T
          <5>3. IsStack(V) => IsStack(T)
            BY <5>2, FourthFrame, Zenon
          <5>4. IsStack(V) /\ Len(V) = 3 =>
                  Len(T) = 4 /\ T[4] = f /\ T[3] = V[3] /\ T[2] = V[2] /\ T[1] = V[1]
            BY <5>2, FourthFrame
          <5> QED BY <5>1, <5>3, <5>4 DEF V, T
        <4>2. m'.has = {} /\ OnPitch(m', p)
          BY <2>1, <2>2, <2>4, <3>4 DEF SameBoard, OnPitch
        <4>3. Settles(m')
          BY <1>3, <2>1, <2>2, <2>3, <3>1, <3>3, <4>1, <4>2 DEF Settles, Settling
        <4>4. ~AwaitsDie(m')
          BY <3>1, <4>1 DEF AwaitsDie, Top
        <4> QED BY <3>4, <4>3, <4>4 DEF Still, PitchOk
      <3> QED BY <3>4, <3>5, <3>6
    <2>5. CASE m' = Bounce(s, m.at[p])
      BY <2>1, <2>5, BareBounce
    <2> QED BY <1>2, <2>4, <2>5
  <1>4. CASE ~Settles(m)
    <2>1. Doze(m) /\ Closed(m) /\ p \in Slots
      BY <1>1, <1>4, Awake, TopOk DEF PitchInv, BallFrame, FrameOk
    <2>2. Steady(s) /\ Closed(s) /\ s.status = "running"
      BY <1>1, <2>1, SteadyPop DEF Goes
    <2>3. Edit(m, t, {"phase"}) /\ Top(t).phase = 1 /\ t.status = m.status
      BY <2>1, EditPhase
    <2> HIDE DEF s, t
    <2>4. Doze(t) /\ Top(t).proc = "CATCH" /\ Top(t).a = p /\ SameBoard(m, t)
      <3>1. Edit(m, t, {"phase", "data"})
        BY <2>3, EditMore
      <3>2. Doze(t) /\ Top(t).proc = "CATCH"
        BY <1>1, <2>1, <2>3, <3>1, DozeAlters
      <3>3. Top(t).a = p /\ SameBoard(m, t)
        BY <2>3 DEF Edit, Alters, Marks
      <3> QED BY <3>2, <3>3
    <2>5. CASE OnPitch(m, p) /\ m' = Test(t, p, "CATCH", NoPlayer)
      <3>1. Due(Top(t)) /\ Sees(t, Top(t))
        BY <2>3, <2>4, <2>5 DEF Due, Sees, SameBoard, OnPitch
      <3> QED BY <1>1, <2>1, <2>3, <2>4, <2>5, <3>1, TestStill
    <2>6. CASE m' = Bounce(s, m.at[p])
      BY <2>2, <2>6, SteadyBounce, End
    <2> QED BY <1>2, <2>5, <2>6
  <1> QED BY <1>3, <1>4

(* A turnover leaves stack and board alone.                                *)
LEMMA MereTurnover ==
  ASSUME NEW s, Board(s), NEW c
  PROVE  Mere(s, TurnoverIf(s, c)) /\ Mere(s, MakeTurnover(s))
  <1>1. Mere(s, s) /\ Mere(s, MakeTurnover(s))
    BY DEF Board, IsMatch, Fields, SameBoard, Kept, Mere, MakeTurnover
  <1> QED BY <1>1 DEF TurnoverIf

(* Kept by a catch that is made or missed.                                 *)
LEMMA CatchDoneStill ==
  ASSUME PitchInv, CatchDone
  PROVE  Still(m')
  <1> DEFINE p == Top(m).a  s == Pop(m)  g == GiveBall(s, p)
  <1>1. m.status = "running" /\ Top(m).proc = "CATCH" /\ Top(m).phase = 1
    BY DEF CatchDone, Runs
  <1>2. \/ m' = Bounce(s, m.at[p])
        \/ \E c : m' = CheckTd(TurnoverIf(g, c))
    BY DEF CatchDone
  <1>3. CASE Settles(m)
    <2>1. Bare(s) /\ s.has = {} /\ SameBoard(m, s) /\ FrameOk(Top(m))
      BY <1>1, <1>3, SettlesPop DEF PitchInv, SameBoard
    <2>2. p \in Slots /\ OnPitch(m, p)
      BY <1>1, <1>3, <2>1 DEF FrameOk, Settles, Settling, Top
    <2> HIDE DEF s
    <2>3. OnPitch(s, p)
      BY <2>1, <2>2 DEF SameBoard, OnPitch
    <2>4. Bare(g)
      BY <2>1, <2>2, <2>3, GiveBoard, BareKept DEF Bare
    <2> HIDE DEF g, p
    <2>5. CASE \E c : m' = CheckTd(TurnoverIf(g, c))
      <3>1. PICK c : m' = CheckTd(TurnoverIf(g, c))
        BY <2>5
      <3>2. Bare(TurnoverIf(g, c))
        <4>1. Board(g)
          BY <2>4 DEF Bare
        <4>2. Board(TurnoverIf(g, c)) /\ Kept(g, TurnoverIf(g, c))
          BY <4>1, MereTurnover, BoardAlike DEF Mere
        <4> QED BY <2>4, <4>2, BareKept
      <3> QED BY <3>1, <3>2, BareTd
    <2>6. CASE m' = Bounce(s, m.at[p])
      BY <2>1, <2>6, BareBounce
    <2> QED BY <1>2, <2>5, <2>6
  <1>4. CASE ~Settles(m)
    <2>1. Doze(m) /\ Sees(m, Top(m)) /\ Closed(m) /\ p \in Slots
      BY <1>1, <1>4, Awoken, TopOk DEF PitchInv, BallFrame, FrameOk, Due
    <2>2. Steady(s) /\ Closed(s) /\ s.status = "running" /\ SameBoard(m, s)
      BY <1>1, <2>1, SteadyPop DEF Goes
    <2> HIDE DEF s
    <2>3. OnPitch(s, p)
      BY <1>1, <2>1, <2>2 DEF Sees, SameBoard, OnPitch
    <2>4. Steady(g) /\ Goes(s, g)
      BY <2>1, <2>2, <2>3, SteadyGive
    <2> HIDE DEF g, p
    <2>5. CASE \E c : m' = CheckTd(TurnoverIf(g, c))
      <3>1. PICK c : m' = CheckTd(TurnoverIf(g, c))
        BY <2>5
      <3> DEFINE t == TurnoverIf(g, c)
      <3>2. Steady(t) /\ Goes(g, t)
        BY <2>4, SteadyTurnover
      <3> HIDE DEF t
      <3>3. Steady(m') /\ Goes(t, m')
        BY <3>1, <3>2, SteadyTd DEF t
      <3> QED BY <2>2, <2>4, <3>2, <3>3, GoesOn, End
    <2>6. CASE m' = Bounce(s, m.at[p])
      BY <2>2, <2>6, SteadyBounce, End
    <2> QED BY <1>2, <2>5, <2>6
  <1> QED BY <1>3, <1>4

(* A frame that goes on after its player lost the ball.                    *)
LEMMA DozeDrop ==
  ASSUME NEW s, Doze(s)
  PROVE  LET t == DropBall(s) IN
         /\ Doze(t) /\ Goes(s, t) /\ Top(t) = Top(s) /\ t.status = s.status /\ t.loc = s.loc
  <1> DEFINE t == DropBall(s)
  <1>1. Board(t) /\ Kept(s, t) /\ t.has = {} /\ t.loc = s.loc /\ (s.has = {} => t = s)
    BY DropBoard DEF Doze
  <1> HIDE DEF t
  <1>2. CASE s.has = {}
    BY <1>1, <1>2 DEF Goes, t
  <1>3. CASE s.has # {}
    <2>1. Closed(s)
      BY <1>3, LiveBall
    <2>2. Doze(t) /\ (Closed(s) => Closed(t))
      BY <1>1, <2>1, DozeKept
    <2> QED BY <1>1, <2>2 DEF Goes, Kept, Top, t
  <1> QED BY <1>2, <1>3

(* The ball thrown comes down at its square.                               *)
LEMMA SteadyFlight ==
  ASSUME NEW s, Steady(s), Closed(s), NEW f, f.sq \in Squares
  PROVE  LET t == Flight(s, f) IN Steady(t) /\ Goes(s, t)
  <1> DEFINE on == BallTo(s, f.sq)  p == SlotAt(s, f.sq)
             g == [Frame("SCATTER", 0, 3, f.sq) EXCEPT !.data = {"flight"}]
  <1>1. Steady(on) /\ Goes(s, on) /\ Closed(on)
    BY SteadyTo DEF Goes
  <1>2. \/ Flight(s, f) = Push(on, g)
        \/ Flight(s, f) = Bounce(on, f.sq)
        \/ p \in Slots /\ Flight(s, f) = Push(on, Frame("CATCH", p, 0, NoSq))
    BY GridSlots DEF Flight, Steady
  <1>3. IsFrame(g) /\ g.phase = 0 /\ g.proc = "SCATTER"
    BY DEF Frame, IsFrame, Marks
  <1> HIDE DEF on, p, g
  <1>4. Quiet(g)
    BY <1>3, QuietFrame
  <1>5. CASE Flight(s, f) = Push(on, g)
    BY <1>1, <1>4, <1>5, SteadyQuiet, GoesOn
  <1>6. CASE Flight(s, f) = Bounce(on, f.sq)
    BY <1>1, <1>6, SteadyBounce, GoesOn
  <1>7. CASE p \in Slots /\ Flight(s, f) = Push(on, Frame("CATCH", p, 0, NoSq))
    BY <1>1, <1>7, SteadyCatch, GoesOn
  <1> QED BY <1>2, <1>5, <1>6, <1>7

(* A throw's frame with its flags or its phase changed.                    *)
LEMMA PassOn ==
  ASSUME NEW s, Doze(s), Top(s).proc = "PASS", NEW t, Edit(s, t, {"phase", "data"}),
         t.status = s.status, Top(t).phase # 3
  PROVE  /\ Doze(t) /\ Closed(t) /\ Top(t).proc = "PASS" /\ SameBoard(s, t)
         /\ Top(t).a = Top(s).a /\ Top(t).sq = Top(s).sq
         /\ Top(t).a \in Slots /\ Top(t).sq \in Squares
  <1>1. FrameOk(Top(s)) /\ Closed(s)
    BY TopOk DEF BallFrame
  <1>2. Doze(t) /\ (Closed(s) => Closed(t)) /\ Top(t).proc = "PASS" /\ FrameOk(Top(t))
    BY DozeAlters DEF Doze
  <1>3. SameBoard(s, t) /\ Top(t).a = Top(s).a /\ Top(t).sq = Top(s).sq
    BY DEF Edit, Alters, Marks
  <1> QED BY <1>1, <1>2, <1>3 DEF FrameOk

(* A throw's frame with a flag,                                            *)
LEMMA PassMark ==
  ASSUME NEW s, Doze(s), Top(s).proc = "PASS", NEW d, Top(s).phase # 3
  PROVE  LET t == Mark(s, d) IN
         /\ Doze(t) /\ Closed(t) /\ Top(t).proc = "PASS" /\ SameBoard(s, t)
         /\ Top(t).a = Top(s).a /\ Top(t).sq = Top(s).sq /\ Top(t).phase = Top(s).phase
         /\ Top(t).a \in Slots /\ Top(t).sq \in Squares /\ t.status = s.status
  <1> DEFINE t == Mark(s, d)
  <1>1. Edit(s, t, {"data"}) /\ t.status = s.status
    BY EditMark
  <1> HIDE DEF t
  <1>2. Edit(s, t, {"phase", "data"}) /\ Top(t).phase = Top(s).phase
    BY <1>1, EditMore DEF Edit, Alters, Marks
  <1>3. /\ Doze(t) /\ Closed(t) /\ Top(t).proc = "PASS" /\ SameBoard(s, t)
        /\ Top(t).a = Top(s).a /\ Top(t).sq = Top(s).sq
        /\ Top(t).a \in Slots /\ Top(t).sq \in Squares
    BY <1>1, <1>2, PassOn
  <1> QED BY <1>1, <1>2, <1>3 DEF t

(* and in its next phase, is still the one to be dealt with.               *)
LEMMA PassPhase ==
  ASSUME NEW s, Doze(s), Top(s).proc = "PASS", NEW n, n # 3
  PROVE  LET t == Phase(s, n) IN
         /\ Doze(t) /\ Closed(t) /\ Top(t).proc = "PASS" /\ SameBoard(s, t)
         /\ Top(t).a = Top(s).a /\ Top(t).sq = Top(s).sq /\ Top(t).phase = n
         /\ Top(t).a \in Slots /\ Top(t).sq \in Squares /\ t.status = s.status
  <1> DEFINE t == Phase(s, n)
  <1>1. Edit(s, t, {"phase"}) /\ t.status = s.status /\ Top(t).phase = n
    BY EditPhase
  <1> HIDE DEF t
  <1>2. Edit(s, t, {"phase", "data"})
    BY <1>1, EditMore
  <1>3. /\ Doze(t) /\ Closed(t) /\ Top(t).proc = "PASS" /\ SameBoard(s, t)
        /\ Top(t).a = Top(s).a /\ Top(t).sq = Top(s).sq
        /\ Top(t).a \in Slots /\ Top(t).sq \in Squares
    BY <1>1, <1>2, PassOn
  <1> QED BY <1>1, <1>2, <1>3 DEF t

(* Kept by a throw that is rolled for.                                     *)
LEMMA PassThrowStill ==
  ASSUME PitchInv, PassThrow
  PROVE  Still(m')
  <1> DEFINE a == Top(m).a
  <1>1. m.status = "running" /\ Top(m).proc = "PASS" /\ Top(m).phase = 0
    BY DEF PassThrow, Runs
  <1>2. \/ m' = MakeTurnover(Pop(m))
        \/ \E d : m' = Test(Phase(Mark(m, d), 1), a, "PASS", NoPlayer)
    BY DEF PassThrow
  <1>3. Doze(m) /\ Steady(Pop(m)) /\ Pop(m).status = "running"
    BY <1>1, Begin DEF Elsewhere, PitchInv
  <1>4. CASE m' = MakeTurnover(Pop(m))
    BY <1>3, <1>4, SteadyTurnover, End
  <1>5. CASE \E d : m' = Test(Phase(Mark(m, d), 1), a, "PASS", NoPlayer)
    <2>1. PICK d : m' = Test(Phase(Mark(m, d), 1), a, "PASS", NoPlayer)
      BY <1>5
    <2> DEFINE s == Mark(m, d)  t == Phase(s, 1)
    <2>2. Doze(s) /\ Top(s).proc = "PASS" /\ Top(s).a = a /\ s.status = "running"
      BY <1>1, <1>3, PassMark
    <2> HIDE DEF s
    <2>3. /\ Doze(t) /\ Top(t).proc = "PASS" /\ Top(t).a = a /\ Top(t).phase = 1
          /\ Top(t).a \in Slots /\ t.status = "running"
      BY <2>2, PassPhase
    <2>4. m' = Test(t, a, "PASS", NoPlayer)
      BY <2>1 DEF s
    <2> HIDE DEF t
    <2>5. Due(Top(t)) /\ Sees(t, Top(t))
      BY <2>3 DEF Due, Sees
    <2> QED BY <2>3, <2>4, <2>5, TestStill
  <1> QED BY <1>2, <1>4, <1>5

(* A product is monotonic.                                                 *)
LEMMA Product ==
  ASSUME NEW a \in Nat, NEW b \in Nat, NEW c \in Nat, a <= b
  PROVE  c * a <= c * b /\ c * a >= 0
  <1>1. c * (b - a) >= 0 /\ c * a >= 0
    OBVIOUS
  <1>2. c * (b - a) = c * b - c * a
    OBVIOUS
  <1> QED BY <1>1, <1>2

(* A point of the ruler from q to t, a number of sixty-fourths along the   *)
(* way, lies between them (64 steps, rounded).                             *)
LEMMA Between ==
  ASSUME NEW l \in Nat, NEW q \in 0 .. l, NEW t \in 0 .. l, NEW i \in 1 .. 63
  PROVE  (64 * q + (t - q) * i + 32) \div 64 \in 0 .. l
  <1> DEFINE A == (64 - i) * q  B == i * t
  <1>1. 64 * q + (t - q) * i = A + B
    OBVIOUS
  <1>2. A \in Nat /\ B \in Nat
    OBVIOUS
  <1>3. A <= (64 - i) * l /\ B <= i * l
    BY Product
  <1>4. (64 - i) * l + i * l = 64 * l
    OBVIOUS
  <1> HIDE DEF A, B
  <1> DEFINE X == (64 - i) * l  Y == i * l
  <1>5. X \in Nat /\ Y \in Nat
    OBVIOUS
  <1> HIDE DEF X, Y
  <1>6. A + B \in 0 .. 64 * l
    BY <1>2, <1>3, <1>4, <1>5 DEF X, Y
  <1> DEFINE n == A + B
  <1> HIDE DEF n
  <1>7. (n + 32) \div 64 \in 0 .. l
    BY <1>6 DEF n
  <1> QED BY <1>1, <1>7 DEF n

(* Hence the squares under a throw are squares of the pitch,               *)
LEMMA RulerInside ==
  ASSUME NEW q \in Squares, NEW t \in Squares
  PROVE  Ruler(q, t) \subseteq Squares
  <1> SUFFICES ASSUME NEW i \in 1 .. 63
               PROVE  << (64 * q[1] + (t[1] - q[1]) * i + 32) \div 64,
                         (64 * q[2] + (t[2] - q[2]) * i + 32) \div 64 >> \in Squares
    BY DEF Ruler
  <1>1. /\ q[1] \in 0 .. PitchLen - 1 /\ q[2] \in 0 .. PitchWid - 1
        /\ t[1] \in 0 .. PitchLen - 1 /\ t[2] \in 0 .. PitchWid - 1
    BY DEF Squares
  <1>2. PitchLen - 1 \in Nat /\ PitchWid - 1 \in Nat
    BY DEF PitchAssumption
  <1>3. /\ (64 * q[1] + (t[1] - q[1]) * i + 32) \div 64 \in 0 .. PitchLen - 1
        /\ (64 * q[2] + (t[2] - q[2]) * i + 32) \div 64 \in 0 .. PitchWid - 1
    BY <1>1, <1>2, Between
  <1> QED BY <1>3 DEF Squares

(* and whoever stands there to intercept it is a player on the pitch.      *)
LEMMA InterceptorsFit ==
  ASSUME NEW s, Board(s), NEW p \in Slots, NEW q \in Squares, NEW o \in Interceptors(s, p, q)
  PROVE  o \in Slots /\ OnPitch(s, o)
  <1>1. s.at[p] \in Squares
    BY AtSquare
  <1>2. Ruler(s.at[p], q) \subseteq Squares
    BY <1>1, RulerInside
  <1>3. o \in Occupied(s, Ruler(s.at[p], q)) /\ ExertsTz(s, o)
    BY DEF Interceptors
  <1> QED BY <1>2, <1>3, GridSlots DEF ExertsTz

(* An interceptor's die is rolled for the throw that waits for it.         *)
LEMMA InterceptionStill ==
  ASSUME NEW s, Doze(s), s.status = "running", Top(s).proc = "PASS",
         NEW o \in Slots, OnPitch(s, o)
  PROVE  Still(StartInterception(s, o))
  <1> DEFINE f == [Top(s) EXCEPT !.b = o, !.phase = 3]  t == SetTop(s, f)
  <1>1. FrameOk(Top(s)) /\ Closed(s)
    BY TopOk DEF BallFrame
  <1>2. /\ Alters(Top(s), f, {"b", "phase"}) /\ f.phase = 3 /\ f.b = o
    BY <1>1 DEF FrameOk, Alters, IsFrame, Marks
  <1> HIDE DEF f
  <1>3. FrameOk(f) /\ f.proc = "PASS" /\ f.a = Top(s).a
    <2>1. IsFrame(f) /\ f.proc = "PASS" /\ f.a = Top(s).a /\ f.sq = Top(s).sq
      BY <1>2 DEF Alters, Marks
    <2> QED BY <1>1, <1>2, <2>1 DEF FrameOk, IsFrame
  <1>4. Edit(s, t, {"b", "phase"}) /\ Top(t) = f /\ t.status = s.status
    BY <1>2, EditSet
  <1>5. StartInterception(s, o) = Test(t, o, "CATCH", Top(s).a)
    BY DEF StartInterception, f
  <1> HIDE DEF t
  <1>6. Doze(t)
    BY <1>1, <1>3, <1>4, DozeEdit
  <1>7. Due(Top(t)) /\ Sees(t, Top(t))
    BY <1>2, <1>3, <1>4 DEF Due, Sees, Edit, SameBoard, OnPitch
  <1> QED BY <1>4, <1>5, <1>6, <1>7, TestStill

(* A fumbled ball bounces from the thrower.                                *)
LEMMA SteadyFumble ==
  ASSUME NEW s, Doze(s), Closed(s), NEW p
  PROVE  LET t == Fumble(s, p) IN Steady(t) /\ Goes(s, t)
  <1> DEFINE d == DropBall(Pop(s))  t == MakeTurnover(d)
  <1>1. Steady(Pop(s)) /\ Goes(s, Pop(s))
    BY SteadyPop
  <1>2. Steady(d) /\ Goes(s, d)
    BY <1>1, SteadyDrop, GoesOn
  <1>3. Fumble(s, p) = Bounce(t, s.at[p])
    BY DEF Fumble
  <1> HIDE DEF d
  <1>4. Steady(t) /\ Goes(s, t)
    BY <1>2, SteadyTurnover, GoesOn
  <1> HIDE DEF t
  <1>5. Closed(t)
    BY <1>4 DEF Goes
  <1> QED BY <1>3, <1>4, <1>5, SteadyBounce, GoesOn

(* Kept by the throw's answer.                                             *)
LEMMA PassRolledStill ==
  ASSUME PitchInv, PassRolled
  PROVE  Still(m')
  <1> DEFINE a == Top(m).a  q == Top(m).sq
  <1>1. m.status = "running" /\ Top(m).proc = "PASS" /\ Top(m).phase = 1
    BY DEF PassRolled, Runs
  <1>2. PICK missed :
          LET air == DropBall(Mark(m, missed)) IN
          \/ m' \in {Pop(m), Fumble(m, a)}
          \/ \E team : m' = Decide(Phase(air, 2), team)
          \/ \E o \in Interceptors(m, a, q) : m' = StartInterception(air, o)
          \/ m' = Flight(Pop(air), Top(air))
    <2> DEFINE hmp == "hmp" \in Top(m).data
               missed == IF "ok" \in m.ret /\ ~hmp THEN {} ELSE {"inaccurate"}
               air == DropBall(Mark(m, missed))
               may == IF hmp THEN {} ELSE Interceptors(m, a, q)
    <2>1. m' = IF m.ret \cap {"one", "low"} # {}
               THEN IF "one" \in m.ret /\ Has(m, a, "SAFE_PASS") THEN Pop(m)
                    ELSE Fumble(m, a)
               ELSE IF Cardinality(may) > 1 THEN Decide(Phase(air, 2), 1 - TeamOf(a))
               ELSE IF may # {} THEN StartInterception(air, CHOOSE o \in may : TRUE)
               ELSE Flight(Pop(air), Top(air))
      BY Zenon DEF PassRolled
    <2>2. may # {} => (CHOOSE o \in may : TRUE) \in Interceptors(m, a, q)
      OBVIOUS
    <2> HIDE DEF air, may, hmp
    <2>3. \/ m' \in {Pop(m), Fumble(m, a)}
          \/ \E team : m' = Decide(Phase(air, 2), team)
          \/ \E o \in Interceptors(m, a, q) : m' = StartInterception(air, o)
          \/ m' = Flight(Pop(air), Top(air))
      BY <2>1, <2>2
    <2> QED BY <2>3, Zenon DEF air
  <1> DEFINE s == Mark(m, missed)  air == DropBall(s)
  <1>3. Doze(m) /\ Closed(m) /\ a \in Slots /\ q \in Squares /\ Board(m)
    BY <1>1, Begin DEF Elsewhere, PitchInv, BallFrame, FrameOk, Doze
  <1>4. Doze(s) /\ Top(s).proc = "PASS" /\ Top(s).sq = q /\ s.status = "running" /\ SameBoard(m, s)
        /\ Closed(s)
    BY <1>1, <1>3, PassMark
  <1> HIDE DEF s
  <1>5. /\ Doze(air) /\ Closed(air) /\ Top(air).proc = "PASS" /\ Top(air).sq = q
        /\ air.status = "running" /\ air.loc = m.loc
    BY <1>4, DozeDrop DEF Goes, SameBoard
  <1> HIDE DEF air
  <1>6. CASE m' \in {Pop(m), Fumble(m, a)}
    BY <1>1, <1>3, <1>6, SteadyPop, SteadyFumble, End
  <1>7. CASE \E team : m' = Decide(Phase(air, 2), team)
    <2> DEFINE t == Phase(air, 2)
    <2>1. Doze(t) /\ Top(t).proc = "PASS" /\ Top(t).phase = 2 /\ t.status = "running"
      BY <1>5, PassPhase
    <2> HIDE DEF t
    <2>2. Steady(t)
      BY <2>1, DozeRests DEF Resting, Due
    <2> QED BY <1>7, <2>1, <2>2, DecideStill DEF t
  <1>8. CASE \E o \in Interceptors(m, a, q) : m' = StartInterception(air, o)
    <2>1. PICK o \in Interceptors(m, a, q) : m' = StartInterception(air, o)
      BY <1>8
    <2>2. o \in Slots /\ OnPitch(m, o)
      BY <1>3, InterceptorsFit
    <2>3. OnPitch(air, o)
      BY <1>5, <2>2 DEF OnPitch
    <2> QED BY <1>5, <2>1, <2>2, <2>3, InterceptionStill
  <1>9. CASE m' = Flight(Pop(air), Top(air))
    <2> DEFINE t == Pop(air)
    <2>1. Steady(t) /\ Closed(t) /\ t.status = "running"
      BY <1>5, SteadyPop DEF Goes
    <2> HIDE DEF t
    <2>2. Steady(m') /\ Goes(t, m')
      BY <1>3, <1>5, <1>9, <2>1, SteadyFlight DEF t
    <2> QED BY <2>1, <2>2, End
  <1> QED BY <1>2, <1>6, <1>7, <1>8, <1>9 DEF air, s

(* Kept by the choice of an interceptor.                                   *)
LEMMA PassInterceptStill ==
  ASSUME PitchInv, PassIntercept \/ PassLetGo
  PROVE  Still(m')
  <1> DEFINE a == Top(m).a  q == Top(m).sq
  <1>1. m.status = "decision" /\ Top(m).proc = "PASS"
    BY DEF PassIntercept, PassLetGo, Asks
  <1>2. \/ \E o \in Interceptors(m, a, q) : m' = StartInterception(Answered(m), o)
        \/ m' = Flight(Answered(Pop(m)), Top(m))
    BY DEF PassIntercept, PassLetGo
  <1>3. Doze(m) /\ Closed(m) /\ a \in Slots /\ q \in Squares /\ Board(m)
    BY <1>1, Begin DEF Elsewhere, PitchInv, BallFrame, FrameOk, Doze
  <1>4. CASE \E o \in Interceptors(m, a, q) : m' = StartInterception(Answered(m), o)
    <2>1. PICK o \in Interceptors(m, a, q) : m' = StartInterception(Answered(m), o)
      BY <1>4
    <2>2. o \in Slots /\ OnPitch(m, o)
      BY <1>3, InterceptorsFit
    <2> DEFINE s == Answered(m)
    <2>3. Doze(s) /\ SameBoard(m, s) /\ s.status = "running" /\ Top(s) = Top(m)
      BY <1>3, AnsweredDoze
    <2> HIDE DEF s
    <2>4. OnPitch(s, o)
      BY <2>2, <2>3 DEF OnPitch, SameBoard
    <2> QED BY <1>1, <2>1, <2>2, <2>3, <2>4, InterceptionStill DEF s
  <1>5. CASE m' = Flight(Answered(Pop(m)), Top(m))
    <2> DEFINE t == Answered(Pop(m))
    <2>1. Steady(t) /\ Closed(t) /\ t.status = "running"
      BY <1>3, AnsweredPop
    <2> HIDE DEF t
    <2>2. Steady(m') /\ Goes(t, m')
      BY <1>3, <1>5, <2>1, SteadyFlight DEF t
    <2> QED BY <2>1, <2>2, End
  <1> QED BY <1>2, <1>4, <1>5

(* Kept by an interception.                                                *)
LEMMA PassCaughtStill ==
  ASSUME PitchInv, PassCaught
  PROVE  Still(m')
  <1> DEFINE b == Top(m).b  q == Top(m).sq  s == Pop(m)
             g == GiveBall(s, b)  t == MakeTurnover(g)
  <1>1. m.status = "running" /\ Top(m).proc = "PASS" /\ Top(m).phase = 3
    BY DEF PassCaught, Runs
  <1>2. m' \in {CheckTd(t), Flight(s, Top(m))}
    BY DEF PassCaught
  <1>3. ~Settles(m)
    BY <1>1, TopSettles DEF Elsewhere
  <1>4. Doze(m) /\ Closed(m) /\ b \in Slots /\ q \in Squares /\ OnPitch(m, b)
    BY <1>1, <1>3, Awoken, TopOk DEF PitchInv, Due, Sees, BallFrame, FrameOk
  <1>5. Steady(s) /\ Closed(s) /\ s.status = "running" /\ OnPitch(s, b)
    BY <1>1, <1>4, SteadyPop DEF Goes, SameBoard, OnPitch
  <1> HIDE DEF s
  <1>6. Steady(g) /\ Goes(s, g)
    BY <1>4, <1>5, SteadyGive
  <1> HIDE DEF g
  <1>7. Steady(t) /\ Goes(s, t)
    BY <1>6, SteadyTurnover, GoesOn
  <1> HIDE DEF t
  <1>8. Steady(CheckTd(t)) /\ Goes(s, CheckTd(t))
    BY <1>7, SteadyTd, GoesOn
  <1>9. Steady(Flight(s, Top(m))) /\ Goes(s, Flight(s, Top(m)))
    BY <1>4, <1>5, SteadyFlight
  <1> QED BY <1>2, <1>5, <1>8, <1>9, End

(* Kept by a hand-off.                                                     *)
LEMMA HandOffStill ==
  ASSUME PitchInv, HandOff
  PROVE  Still(m')
  <1> DEFINE b == Top(m).b  s == Pop(m)  d == DropBall(s)  on == BallTo(d, m.at[b])
  <1>1. m.status = "running" /\ Top(m).proc = "HANDOFF"
    BY DEF HandOff, Runs
  <1>2. m' = Push(on, Frame("CATCH", b, 0, NoSq))
    BY DEF HandOff
  <1>3. Doze(m) /\ Closed(m) /\ b \in Slots /\ Steady(s) /\ Goes(m, s) /\ s.status = "running"
    BY <1>1, Begin DEF Elsewhere, PitchInv, BallFrame, FrameOk
  <1>4. m.at[b] \in Squares
    BY <1>3, AtSquare DEF Doze
  <1> HIDE DEF s
  <1>5. Steady(d) /\ Goes(m, d)
    BY <1>3, SteadyDrop, GoesOn
  <1> HIDE DEF d
  <1>6. Steady(on) /\ Goes(m, on)
    BY <1>3, <1>4, <1>5, SteadyTo, GoesOn DEF Goes
  <1> HIDE DEF on, b
  <1>7. Closed(on)
    BY <1>3, <1>6 DEF Goes
  <1>8. Steady(m') /\ Goes(on, m')
    BY <1>2, <1>3, <1>6, <1>7, SteadyCatch
  <1> QED BY <1>1, <1>6, <1>8, GoesOn, End

(* Kept by everything the ball does.                                       *)
LEMMA BallStill ==
  ASSUME PitchInv, BallNext
  PROVE  Still(m')
  BY ScatterStill, ThrowInStill, CatchTryStill, CatchDoneStill, PassThrowStill,
     PassRolledStill, PassInterceptStill, PassCaughtStill, HandOffStill DEF BallNext

(* -------------------------------- moves -------------------------------- *)
(* What is left of MOVE's frame while its square, its count and its flags   *)
(* change.                                                                 *)
Moved(s, t) == Edit(s, t, {"sq", "c", "data"})
Pending == {"await_test", "await_pickup", "stand_pend", "await_action"}
Idle(f) == (Pending \cup {"jump", "block_rush"}) \cap f.data = {}

(* Such a frame is still the mover's.                                      *)
LEMMA MovedFrame ==
  ASSUME NEW s, NEW t, Moved(s, t)
  PROVE  /\ SameBoard(s, t) /\ IsMatch(t) /\ IsFrame(Top(t))
         /\ Top(t).proc = Top(s).proc /\ Top(t).phase = Top(s).phase
         /\ Top(t).a = Top(s).a /\ Top(t).b = Top(s).b /\ Top(t).k = Top(s).k
  BY DEF Moved, Edit, Alters, Marks

(* It is so to begin with,                                                 *)
LEMMA MovedSelf ==
  ASSUME NEW s, Doze(s)
  PROVE  Moved(s, s)
  BY EditNone, EditMore DEF Moved, Doze, Board, SameBoard

(* after any write to those fields:                                        *)
LEMMA MovedSet ==
  ASSUME NEW s, Doze(s), NEW t, Moved(s, t), NEW f, Alters(Top(t), f, {"sq", "c", "data"})
  PROVE  LET u == SetTop(t, f) IN Moved(s, u) /\ Top(u) = f /\ u.status = t.status
  <1> DEFINE u == SetTop(t, f)  S == s.stack  g == Top(t)
  <1>1. IsStack(S) /\ Len(S) > 0
    BY DEF Doze, Based
  <1>2. IsMatch(t) /\ SameBoard(s, t) /\ t.stack = Reset(S, g) /\ Alters(Top(s), g, {"sq", "c", "data"})
    BY DEF Moved, Edit
  <1>3. /\ IsMatch(u) /\ SameBoard(t, u) /\ u.status = t.status /\ u.stack = Reset(t.stack, f)
    BY <1>2 DEF SetTop, SameBoard, Fields, IsMatch, Reset
  <1>4. Alters(Top(s), f, {"sq", "c", "data"})
    BY <1>2 DEF Alters
  <1> HIDE DEF u, g
  <1>5. IsStack(t.stack) /\ Len(t.stack) = Len(S) /\ Len(t.stack) > 0
    BY <1>1, <1>2, ResetStack
  <1>6. Top(u) = f
    BY <1>3, <1>5, ResetStack DEF Top
  <1>7. u.stack = Reset(S, f)
    <2>1. \A S_1, n_1, a_1, b_1 : [[S_1 EXCEPT ![n_1] = a_1] EXCEPT ![n_1] = b_1] = [S_1 EXCEPT ![n_1] = b_1]
      OBVIOUS
    <2> QED BY <1>2, <1>3, <1>5, <2>1 DEF Reset
  <1>8. SameBoard(s, u)
    BY <1>2, <1>3 DEF SameBoard
  <1> QED BY <1>3, <1>4, <1>6, <1>7, <1>8 DEF Moved, Edit, u

(* a flag set,                                                             *)
LEMMA MovedMark ==
  ASSUME NEW s, Doze(s), NEW t, Moved(s, t), NEW d
  PROVE  LET u == Mark(t, d) IN
         /\ Moved(s, u) /\ u.status = t.status /\ Top(u).data = Top(t).data \cup d
         /\ Top(u).sq = Top(t).sq /\ Top(u).c = Top(t).c
  <1> DEFINE f == [Top(t) EXCEPT !.data = @ \cup d]
  <1>1. /\ Alters(Top(t), f, {"sq", "c", "data"}) /\ f.data = Top(t).data \cup d
        /\ f.sq = Top(t).sq /\ f.c = Top(t).c
    BY MovedFrame DEF Alters, IsFrame, Marks
  <1>2. Mark(t, d) = SetTop(t, f)
    BY MovedFrame DEF IsMatch, Fields, Mark, SetTop, Top
  <1> HIDE DEF f
  <1> QED BY <1>1, <1>2, MovedSet

(* a flag cleared,                                                         *)
LEMMA MovedUnmark ==
  ASSUME NEW s, Doze(s), NEW t, Moved(s, t), NEW d
  PROVE  LET u == Unmark(t, d) IN
         /\ Moved(s, u) /\ u.status = t.status /\ Top(u).data = Top(t).data \ d
         /\ Top(u).sq = Top(t).sq /\ Top(u).c = Top(t).c
  <1> DEFINE f == [Top(t) EXCEPT !.data = @ \ d]
  <1>1. /\ Alters(Top(t), f, {"sq", "c", "data"}) /\ f.data = Top(t).data \ d
        /\ f.sq = Top(t).sq /\ f.c = Top(t).c
    BY MovedFrame DEF Alters, IsFrame, Marks
  <1>2. Unmark(t, d) = SetTop(t, f)
    BY MovedFrame DEF IsMatch, Fields, Unmark, SetTop, Top
  <1> HIDE DEF f
  <1> QED BY <1>1, <1>2, MovedSet

(* its target,                                                             *)
LEMMA MovedNote ==
  ASSUME NEW s, Doze(s), NEW t, Moved(s, t), NEW c
  PROVE  LET u == Note(t, c) IN
         /\ Moved(s, u) /\ u.status = t.status /\ Top(u).data = Top(t).data
         /\ Top(u).sq = Top(t).sq /\ Top(u).c = c
  <1> DEFINE f == [Top(t) EXCEPT !.c = c]
  <1>1. /\ Alters(Top(t), f, {"sq", "c", "data"}) /\ f.data = Top(t).data
        /\ f.sq = Top(t).sq /\ f.c = c
    BY MovedFrame DEF Alters, IsFrame, Marks
  <1>2. Note(t, c) = SetTop(t, f)
    BY MovedFrame DEF IsMatch, Fields, Note, SetTop, Top
  <1> HIDE DEF f
  <1> QED BY <1>1, <1>2, MovedSet

(* its square,                                                             *)
LEMMA MovedAim ==
  ASSUME NEW s, Doze(s), NEW t, Moved(s, t), NEW q
  PROVE  LET u == Aim(t, q) IN
         /\ Moved(s, u) /\ u.status = t.status /\ Top(u).data = Top(t).data
         /\ Top(u).sq = q /\ Top(u).c = Top(t).c
  <1> DEFINE f == [Top(t) EXCEPT !.sq = q]
  <1>1. /\ Alters(Top(t), f, {"sq", "c", "data"}) /\ f.data = Top(t).data
        /\ f.sq = q /\ f.c = Top(t).c
    BY MovedFrame DEF Alters, IsFrame, Marks
  <1>2. Aim(t, q) = SetTop(t, f)
    BY MovedFrame DEF IsMatch, Fields, Aim, SetTop, Top
  <1> HIDE DEF f
  <1> QED BY <1>1, <1>2, MovedSet

(* and after what touches neither stack nor board.                         *)
LEMMA MovedMere ==
  ASSUME NEW s, NEW t, Moved(s, t), NEW u, Mere(t, u)
  PROVE  Moved(s, u) /\ Top(u) = Top(t) /\ u.status = t.status
  BY DEF Moved, Edit, Mere, SameBoard, Kept, Top

(* What a move costs.                                                      *)
LEMMA MereSpent ==
  ASSUME NEW s, IsMatch(s), NEW p, NEW a, NEW b
  PROVE  /\ Mere(s, [s EXCEPT !.moved[p] = a]) /\ Mere(s, [s EXCEPT !.rushes[p] = a])
         /\ Mere(s, [s EXCEPT !.moved[p] = a, !.rushes[p] = b])
  BY DEF Mere, Kept, SameBoard, IsMatch, Fields

(* Once its flags are in order it is a frame like any other.               *)
LEMMA MovedDoze ==
  ASSUME NEW s, Doze(s), Top(s).proc = "MOVE", NEW t, Moved(s, t), t.status # "error",
         MoveOk(Top(t)), "await_pickup" \in Top(t).data => Closed(s)
  PROVE  /\ Doze(t) /\ (Closed(s) => Closed(t)) /\ Top(t).proc = "MOVE"
         /\ Top(t).a \in Slots /\ Top(t).a = Top(s).a /\ SameBoard(s, t)
         /\ Top(t).data \cap {"await_test", "await_pickup", "stand_pend"} = {} => Steady(t)
  <1>1. /\ SameBoard(s, t) /\ IsFrame(Top(t)) /\ Top(t).proc = "MOVE" /\ Top(t).a = Top(s).a
    BY MovedFrame
  <1>2. FrameOk(Top(s))
    BY TopOk
  <1>3. FrameOk(Top(t)) /\ Top(t).a \in Slots
    BY <1>1, <1>2 DEF FrameOk, IsFrame
  <1>4. Edit(s, t, {"sq", "c", "data"})
    BY DEF Moved
  <1>5. Doze(t) /\ (Closed(s) => Closed(t))
    BY <1>1, <1>3, <1>4, DozeEdit DEF BallFrame
  <1>6. Top(t).data \cap {"await_test", "await_pickup", "stand_pend"} = {} => Steady(t)
    BY <1>1, <1>5, DozeRests DEF Resting, Due
  <1> QED BY <1>1, <1>3, <1>5, <1>6

(* A die rolled for a MOVE that waits for it.                              *)
LEMMA MovedTest ==
  ASSUME NEW s, Doze(s), Top(s).proc = "MOVE", NEW t, Moved(s, t), t.status = "running",
         MoveOk(Top(t)), "await_pickup" \notin Top(t).data,
         "await_test" \in Top(t).data \/ "stand_pend" \in Top(t).data,
         NEW k, NEW o, NEW p \in Slots
  PROVE  Still(Test(t, p, k, o))
  <1>1. Doze(t) /\ Top(t).proc = "MOVE"
    BY MovedDoze
  <1>2. Due(Top(t)) /\ Sees(t, Top(t))
    BY <1>1 DEF Due, Sees
  <1> QED BY <1>1, <1>2, TestStill

(* The coach is asked how to go on, if nothing is open.                    *)
LEMMA AskingStill ==
  ASSUME NEW s, Doze(s), Steady(s), s.status = "running", "await_action" \notin Top(s).data
  PROVE  Still(Asking(s))
  <1>1. \/ Asking(s) = Pop(s)
        \/ \E team : Asking(s) = Decide(s, team)
    BY DEF Asking
  <1>2. Steady(Pop(s)) /\ Goes(s, Pop(s))
    BY SteadyPop
  <1> QED BY <1>1, <1>2, End, DecideStill

(* A mover who has come to a square looks for a touchdown and picks up the *)
(* ball, which may need a die.                                             *)
LEMMA ArrivedStill ==
  ASSUME NEW s, Doze(s), s.status = "running", Top(s).proc = "MOVE", MoveOk(Top(s)),
         Idle(Top(s)), OnPitch(s, Top(s).a), NEW q, NEW kind
  PROVE  Still(Arrived(s, Top(s).a, q, kind))
  <1> DEFINE p == Top(s).a  t == Mark(s, {"await_pickup"})
  <1>1. Steady(s) /\ p \in Slots
    BY DozeRests, TopOk DEF Resting, Due, Idle, Pending, FrameOk
  <1>2. CASE Arrived(s, p, q, kind) \in {s, CheckTd(s)}
    BY <1>1, <1>2, SteadyTd, SteadyStill, End
  <1>3. CASE ~(Arrived(s, p, q, kind) \in {s, CheckTd(s)})
    <2>1. /\ Loose(s, q)
          /\ Arrived(s, p, q, kind) \in {Bounce(MakeTurnover(Pop(s)), q), Test(t, p, kind, NoPlayer)}
      BY <1>3 DEF Arrived
    <2>2. Closed(s)
      BY <2>1, LiveBall DEF Loose
    <2> DEFINE d == MakeTurnover(Pop(s))
    <2>3. Steady(Pop(s)) /\ Goes(s, Pop(s))
      BY SteadyPop
    <2>4. Steady(d) /\ Goes(s, d)
      BY <2>3, SteadyTurnover, GoesOn
    <2> HIDE DEF d
    <2>5. Steady(Bounce(d, q)) /\ Goes(s, Bounce(d, q))
      BY <2>2, <2>4, SteadyBounce, GoesOn DEF Goes
    <2>6. Moved(s, t) /\ t.status = "running" /\ Top(t).data = Top(s).data \cup {"await_pickup"}
          /\ Top(t).c = Top(s).c
      BY MovedSelf, MovedMark
    <2> HIDE DEF t
    <2>7. MoveOk(Top(t))
      <3>1. Top(t).k = Top(s).k
        BY <2>6, MovedFrame
      <3> QED BY <2>6, <3>1 DEF MoveOk, Idle, Pending
    <2>8. Doze(t) /\ Top(t).proc = "MOVE" /\ Top(t).a = p /\ SameBoard(s, t)
      BY <2>2, <2>6, <2>7, MovedDoze
    <2>9. Due(Top(t)) /\ Sees(t, Top(t))
      BY <2>6, <2>8 DEF Due, Sees, OnPitch, SameBoard
    <2>10. Still(Test(t, p, kind, NoPlayer))
      BY <1>1, <2>6, <2>8, <2>9, TestStill
    <2> QED BY <2>1, <2>5, <2>10, End DEF d
  <1> QED BY <1>2, <1>3

(* A MOVE that runs, or that its coach has answered.                       *)
LEMMA MoveWoken ==
  ASSUME PitchInv, Runs("MOVE", 0), Top(m).data \cap {"await_test", "await_pickup", "stand_pend"} # {}
  PROVE  /\ Doze(m) /\ m.status = "running" /\ Top(m).proc = "MOVE" /\ MoveOk(Top(m))
         /\ Top(m).a \in Slots /\ Moved(m, m)
         /\ "await_pickup" \in Top(m).data => OnPitch(m, Top(m).a) /\ Closed(m)
         /\ Steady(Pop(m)) /\ Goes(m, Pop(m))
  <1>1. m.status = "running" /\ Top(m).proc = "MOVE"
    BY DEF Runs
  <1>2. ~Settles(m)
    BY <1>1, TopSettles DEF Elsewhere
  <1>3. Due(Top(m))
    BY <1>1 DEF Due
  <1>4. Doze(m) /\ Sees(m, Top(m))
    BY <1>1, <1>2, <1>3, Awoken DEF PitchInv
  <1>5. FrameOk(Top(m)) /\ (BallFrame(Top(m)) => Closed(m))
    BY <1>4, TopOk
  <1>6. MoveOk(Top(m)) /\ Top(m).a \in Slots
    BY <1>1, <1>5 DEF FrameOk
  <1> QED BY <1>1, <1>4, <1>5, <1>6, MovedSelf, SteadyPop DEF Sees, BallFrame

(* A MOVE that runs and waits for no die has nothing open.                 *)
LEMMA MoveRests ==
  ASSUME PitchInv, Runs("MOVE", 0), Top(m).data \cap {"await_test", "await_pickup", "stand_pend"} = {}
  PROVE  /\ Doze(m) /\ Steady(m) /\ m.status = "running" /\ Top(m).proc = "MOVE" /\ MoveOk(Top(m))
         /\ Top(m).a \in Slots /\ Moved(m, m) /\ {"jump", "block_rush"} \cap Top(m).data = {}
  <1>1. m.status = "running" /\ Top(m).proc = "MOVE"
    BY DEF Runs
  <1>2. ~Settles(m)
    BY <1>1, TopSettles DEF Elsewhere
  <1>3. Doze(m) /\ Steady(m)
    BY <1>1, <1>2, Rested DEF PitchInv, Resting, Due
  <1>4. MoveOk(Top(m)) /\ Top(m).a \in Slots
    BY <1>1, <1>3, TopOk DEF FrameOk
  <1>5. {"jump", "block_rush"} \cap Top(m).data = {}
    BY <1>4 DEF MoveOk
  <1> QED BY <1>1, <1>3, <1>4, <1>5, MovedSelf

(* Kept by the rush before a jump.                                         *)
LEMMA JumpRushedStill ==
  ASSUME PitchInv, JumpRushed
  PROVE  Still(m')
  <1> DEFINE f == Top(m)  u == Unmark(m, {"await_test", "rush_pend"})  s == Note(u, f.c - 1)
  <1>1. Runs("MOVE", 0) /\ {"await_test", "jump"} \subseteq f.data
    BY DEF JumpRushed, Waits
  <1>2. \/ m' = KnockDown(Pop(m), f.a, "rush", NoPlayer)
        \/ m' = RushFor(s, f.a, {})
        \/ m' = Test(Mark(s, {"await_test"}), f.a, "JUMP", NoPlayer)
    BY DEF JumpRushed, Mover
  <1>3. /\ Doze(m) /\ m.status = "running" /\ f.proc = "MOVE" /\ MoveOk(f) /\ f.a \in Slots
        /\ Moved(m, m) /\ Steady(Pop(m)) /\ Goes(m, Pop(m))
    BY <1>1, MoveWoken
  <1>4. Moved(m, u) /\ u.status = "running" /\ Top(u).data = f.data \ {"await_test", "rush_pend"}
        /\ Top(u).sq = f.sq
    BY <1>3, MovedUnmark
  <1> HIDE DEF u
  <1>5. Moved(m, s) /\ s.status = "running" /\ Top(s).data = f.data \ {"await_test", "rush_pend"}
        /\ Top(s).sq = f.sq
    BY <1>3, <1>4, MovedNote
  <1> HIDE DEF s
  <1>6. CASE m' = KnockDown(Pop(m), f.a, "rush", NoPlayer)
    BY <1>3, <1>6, SteadyDown, GoesOn, End
  <1>7. ASSUME NEW t, Moved(m, t), t.status = "running", Top(t).sq = f.sq, NEW d,
               d \in SUBSET {"await_test", "rush_pend"}, "await_test" \in d,
               Top(t).data = (f.data \ {"await_test", "rush_pend"}) \cup d, NEW k
        PROVE  Still(Test(t, f.a, k, NoPlayer))
    <2>1. MoveOk(Top(t)) /\ "await_test" \in Top(t).data /\ "await_pickup" \notin Top(t).data
      <3>1. Top(t).k = f.k
        BY <1>7, MovedFrame
      <3> QED BY <1>1, <1>3, <1>7, <3>1 DEF MoveOk
    <2> QED BY <1>3, <1>7, <2>1, MovedTest
  <1>8. CASE m' = Test(Mark(s, {"await_test"}), f.a, "JUMP", NoPlayer)
    <2> DEFINE t == Mark(s, {"await_test"})
    <2>1. Moved(m, t) /\ t.status = "running" /\ Top(t).sq = f.sq
          /\ Top(t).data = (f.data \ {"await_test", "rush_pend"}) \cup {"await_test"}
      BY <1>3, <1>5, MovedMark
    <2> HIDE DEF t
    <2> QED BY <1>7, <1>8, <2>1 DEF t
  <1>9. CASE m' = RushFor(s, f.a, {})
    <2> DEFINE r == [s EXCEPT !.rushes[f.a] = @ + 1]  t == Mark(r, {"await_test", "rush_pend"} \cup {})
    <2>1. Mere(s, r)
      BY <1>5, MovedFrame DEF Mere, Kept, SameBoard, IsMatch, Fields
    <2>2. m' = Test(t, f.a, "RUSH", NoPlayer)
      BY <1>9 DEF RushFor
    <2> HIDE DEF r
    <2>3. Moved(m, r) /\ Top(r) = Top(s) /\ r.status = "running"
      BY <1>5, <2>1, MovedMere
    <2>4. Moved(m, t) /\ t.status = "running" /\ Top(t).sq = f.sq
          /\ Top(t).data = (f.data \ {"await_test", "rush_pend"}) \cup {"await_test", "rush_pend"}
      BY <1>3, <1>5, <2>3, MovedMark
    <2> HIDE DEF t
    <2> QED BY <1>7, <2>2, <2>4
  <1> QED BY <1>2, <1>6, <1>8, <1>9

(* bb_move_player under a MOVE: the mover, and everybody who was on the    *)
(* pitch, is on it after.                                                  *)
LEMMA DozeRelocate ==
  ASSUME NEW s, Doze(s), NEW p \in Slots, NEW q \in Squares
  PROVE  LET t == Relocate(s, p, q) IN
         /\ Doze(t) /\ Goes(s, t) /\ Top(t) = Top(s) /\ t.status = s.status /\ t.has = s.has
         /\ OnPitch(t, p) /\ \A o : OnPitch(s, o) => OnPitch(t, o)
  <1> DEFINE t == Relocate(s, p, q)
  <1>1. /\ Board(t) /\ Kept(s, t) /\ t.has = s.has /\ t.ball.state = s.ball.state
        /\ t.loc = [s.loc EXCEPT ![p] = "pitch"]
    BY RelocateBoard, ZenonT(30) DEF Doze
  <1>2. Typed(s)
    BY DEF Doze, Board
  <1> HIDE DEF t
  <1>3. Doze(t) /\ Goes(s, t) /\ Top(t) = Top(s)
    BY <1>1, DozeQuiet
  <1>4. OnPitch(t, p) /\ \A o : OnPitch(s, o) => OnPitch(t, o)
    BY <1>1, <1>2 DEF OnPitch, Typed
  <1> QED BY <1>1, <1>3, <1>4 DEF t, Kept

(* Kept by a jump that lands.                                              *)
LEMMA JumpLandedStill ==
  ASSUME PitchInv, JumpLanded
  PROVE  Still(m')
  <1> DEFINE f == Top(m)  u == Unmark(m, {"await_test", "jump"})  s == Relocate(u, f.a, f.sq)
  <1>1. Runs("MOVE", 0) /\ {"await_test", "jump"} \subseteq f.data
    BY DEF JumpLanded, Waits
  <1>2. \/ m' = Arrived(s, f.a, f.sq, "PICKUP")
        \/ m' = KnockDown(Pop(s), f.a, "dodge", NoPlayer)
    BY DEF JumpLanded
  <1>3. /\ Doze(m) /\ m.status = "running" /\ f.proc = "MOVE" /\ MoveOk(f) /\ f.a \in Slots
        /\ Moved(m, m)
    BY <1>1, MoveWoken
  <1>4. Moved(m, u) /\ u.status = "running" /\ Top(u).data = f.data \ {"await_test", "jump"}
        /\ Top(u).sq = f.sq /\ Top(u).c = f.c
    BY <1>3, MovedUnmark
  <1> HIDE DEF u
  <1>5. MoveOk(Top(u)) /\ Idle(Top(u)) /\ f.sq \in Squares
    <2>1. Top(u).k = f.k
      BY <1>4, MovedFrame
    <2> QED BY <1>1, <1>3, <1>4, <2>1 DEF MoveOk, Idle, Pending
  <1>6. Doze(u) /\ Top(u).proc = "MOVE" /\ Top(u).a = f.a
    BY <1>3, <1>4, <1>5, MovedDoze DEF Idle, Pending
  <1>7. /\ Doze(s) /\ Top(s) = Top(u) /\ s.status = "running" /\ OnPitch(s, f.a)
    BY <1>3, <1>4, <1>5, <1>6, DozeRelocate
  <1> HIDE DEF s
  <1>8. CASE m' = Arrived(s, f.a, f.sq, "PICKUP")
    BY <1>5, <1>6, <1>7, <1>8, ArrivedStill
  <1>9. CASE m' = KnockDown(Pop(s), f.a, "dodge", NoPlayer)
    <2>1. Steady(Pop(s)) /\ Goes(s, Pop(s))
      BY <1>7, SteadyPop
    <2>2. Steady(m') /\ Goes(Pop(s), m')
      BY <1>3, <1>9, <2>1, SteadyDown
    <2> QED BY <1>7, <2>1, <2>2, GoesOn, End
  <1> QED BY <1>2, <1>8, <1>9

(* Kept by the rush before a blow.                                         *)
LEMMA BlockRushedStill ==
  ASSUME PitchInv, BlockRushed
  PROVE  Still(m')
  <1> DEFINE f == Top(m)  u == Unmark(m, {"await_test", "rush_pend", "block_rush"})  s == Note(u, 0)
  <1>1. Runs("MOVE", 0) /\ {"await_test", "block_rush"} \subseteq f.data /\ "jump" \notin f.data
    BY DEF BlockRushed, Waits, Clears
  <1>2. \/ m' = KnockDown(Pop(m), f.a, "rush", NoPlayer)
        \/ m' = Armour(Mark(s, {"await_action"}), f.c, "stab", f.a)
        \/ m' = Push(Mark(s, {"await_block"}), [Frame("BLOCK", f.a, f.c, NoSq) EXCEPT !.data = {"blitz"}])
    BY DEF BlockRushed, Mover
  <1>3. /\ Doze(m) /\ m.status = "running" /\ f.proc = "MOVE" /\ MoveOk(f) /\ f.a \in Slots
        /\ Moved(m, m) /\ Steady(Pop(m)) /\ Goes(m, Pop(m))
    BY <1>1, MoveWoken
  <1>4. Moved(m, u) /\ u.status = "running"
        /\ Top(u).data = f.data \ {"await_test", "rush_pend", "block_rush"}
    BY <1>3, MovedUnmark
  <1> HIDE DEF u
  <1>5. Moved(m, s) /\ s.status = "running" /\ Top(s).c = 0
        /\ Top(s).data = f.data \ {"await_test", "rush_pend", "block_rush"}
    BY <1>3, <1>4, MovedNote
  <1> HIDE DEF s
  <1>6. f.c \in Slots
    BY <1>1, <1>3 DEF MoveOk
  <1>7. ASSUME NEW d, d \in {{"await_action"}, {"await_block"}}
        PROVE  Steady(Mark(s, d)) /\ Mark(s, d).status = "running"
    <2> DEFINE t == Mark(s, d)
    <2>1. Moved(m, t) /\ t.status = "running" /\ Top(t).c = 0
          /\ Top(t).data = (f.data \ {"await_test", "rush_pend", "block_rush"}) \cup d
      BY <1>3, <1>5, MovedMark
    <2> HIDE DEF t
    <2>2. MoveOk(Top(t)) /\ Top(t).data \cap {"await_test", "await_pickup", "stand_pend"} = {}
      <3>1. Top(t).k = f.k
        BY <2>1, MovedFrame
      <3>2. 0 \in Slots
        BY DEF Slots, PitchAssumption
      <3> QED BY <1>1, <1>3, <1>7, <2>1, <3>1, <3>2 DEF MoveOk
    <2> QED BY <1>3, <2>1, <2>2, MovedDoze DEF t
  <1>8. CASE m' = KnockDown(Pop(m), f.a, "rush", NoPlayer)
    BY <1>3, <1>8, SteadyDown, GoesOn, End
  <1>9. CASE m' = Armour(Mark(s, {"await_action"}), f.c, "stab", f.a)
    BY <1>3, <1>6, <1>7, <1>9, SteadyArmour, End
  <1>10. CASE m' = Push(Mark(s, {"await_block"}),
                        [Frame("BLOCK", f.a, f.c, NoSq) EXCEPT !.data = {"blitz"}])
    <2> DEFINE g == [Frame("BLOCK", f.a, f.c, NoSq) EXCEPT !.data = {"blitz"}]
    <2>1. IsFrame(g) /\ g.proc = "BLOCK" /\ g.phase = 0 /\ g.a = f.a /\ g.b = f.c
      BY DEF Frame, IsFrame, Marks
    <2> DEFINE t == Mark(s, {"await_block"})
    <2>2. Steady(t) /\ t.status = "running"
      BY <1>7
    <2>3. m' = Push(t, g)
      BY <1>10
    <2> HIDE DEF g, t
    <2>4. Quiet(g) /\ ~BallFrame(g)
      BY <1>3, <1>6, <2>1, QuietFrame, LooseFrame
    <2> QED BY <2>2, <2>3, <2>4, SteadyQuiet, End
  <1> QED BY <1>2, <1>8, <1>9, <1>10

(* Players who shadow the mover leave his frame alone and are on the       *)
(* pitch.                                                                  *)
LEMMA ShadowsStill ==
  ASSUME NEW s, Doze(s), NEW p, NEW q \in Squares, NEW r, NEW t \in Shadows(s, p, q, r)
  PROVE  /\ Doze(t) /\ Top(t) = Top(s) /\ t.status = s.status
         /\ \A o : OnPitch(s, o) => OnPitch(t, o)
  <1> DEFINE able == {x \in Near(q) : LET o == SlotAt(s, x) IN
                        /\ ~Empty(s, x) /\ TeamOf(o) # TeamOf(p) /\ ExertsTz(s, o)
                        /\ Has(s, o, "SHADOWING") /\ ~Adjacent(x, r)}
  <1>1. t = s \/ (able # {} /\ t = Relocate(s, SlotAt(s, First(able)), q))
    BY Zenon DEF Shadows
  <1>2. CASE able # {} /\ t = Relocate(s, SlotAt(s, First(able)), q)
    <2>1. able \subseteq Squares /\ \A x \in able : ~Empty(s, x)
      BY DEF Near
    <2> HIDE DEF able
    <2>2. First(able) \in able
      BY <1>2, <2>1, FirstIn
    <2>3. SlotAt(s, First(able)) \in Slots
      BY <2>1, <2>2, GridSlots DEF Doze
    <2> QED BY <1>2, <2>3, DozeRelocate
  <1> QED BY <1>1, <1>2

(* What a move costs leaves stack and board alone.                         *)
LEMMA ChargeMere ==
  ASSUME NEW s, Doze(s), NEW p
  PROVE  LET t == Charge(s, p) IN
         /\ Doze(t) /\ Top(t) = Top(s) /\ t.status = s.status
         /\ SameBoard(s, t) /\ t.stack = s.stack
  <1> DEFINE t == Charge(s, p)
  <1>1. Mere(s, t)
    BY DEF Charge, Mere, Kept, SameBoard, IsMatch, Fields, Doze, Board
  <1> HIDE DEF t
  <1>2. Doze(t) /\ Top(t) = Top(s)
    BY <1>1, DozeMere
  <1> QED BY <1>1, <1>2 DEF Mere, Kept, t

(* The step itself: the mover and the ball he carries on the next square,  *)
(* and whoever shadows him, in whatever way their dice fall.               *)
LEMMA ExecuteStill ==
  ASSUME NEW s, Doze(s), s.status = "running", Top(s).proc = "MOVE", MoveOk(Top(s)),
         Idle(Top(s)), Top(s).sq \in Squares, NEW t \in ExecuteStep(s)
  PROVE  Still(t)
  <1> DEFINE f == Top(s)  p == f.a  c == Charge(s, p)  u == Relocate(c, p, f.sq)
  <1>1. PICK v \in Shadows(u, p, s.at[p], f.sq) : \E kind : t = Arrived(v, p, f.sq, kind)
    BY Zenon DEF ExecuteStep
  <1>2. p \in Slots /\ s.at[p] \in Squares
    BY TopOk, AtSquare DEF FrameOk, Doze
  <1>3. Doze(c) /\ Top(c) = f /\ c.status = "running"
    BY ChargeMere
  <1> HIDE DEF c
  <1>4. Doze(u) /\ Top(u) = f /\ u.status = "running" /\ OnPitch(u, p)
    BY <1>2, <1>3, DozeRelocate
  <1> HIDE DEF u
  <1>5. Doze(v) /\ Top(v) = f /\ v.status = "running" /\ OnPitch(v, p)
    BY <1>2, <1>4, ShadowsStill
  <1> QED BY <1>1, <1>5, ArrivedStill

(* A diving tackler who has not got the ball is placed and laid down.      *)
LEMMA DozeDive ==
  ASSUME NEW s, Doze(s), NEW p \in Slots, p \notin s.has, NEW q \in Squares
  PROVE  LET t == PlaceProne(Place(s, p, q), p) IN
         Doze(t) /\ Goes(s, t) /\ t.status = s.status
  <1> DEFINE u == Place(s, p, q)  t == PlaceProne(u, p)
  <1>1. Board(u) /\ Kept(s, u) /\ u.has = s.has /\ u.ball = s.ball
    BY PlaceBoard, ZenonT(30) DEF Doze
  <1> HIDE DEF u
  <1>2. Doze(u) /\ Goes(s, u)
    BY <1>1, DozeQuiet
  <1>3. Mere(u, t)
    BY <1>1 DEF PlaceProne, Mere, Kept, SameBoard, IsMatch, Fields, Board
  <1> HIDE DEF t
  <1>4. Doze(t) /\ Goes(u, t)
    BY <1>2, <1>3, DozeMere
  <1> QED BY <1>1, <1>2, <1>3, <1>4, GoesOn DEF Mere, Kept, t, u

(* A step that fails fells the mover, from the square he leaves or the one *)
(* he came to.                                                             *)
LEMMA StepFailedStill ==
  ASSUME NEW s, Doze(s), s.status = "running", Top(s).proc = "MOVE", Top(s).sq \in Squares,
         NEW diver, diver = NoPlayer \/ (diver \in Slots /\ diver \notin s.has), NEW cause
  PROVE  Still(StepFailed(s, cause, diver))
  <1> DEFINE f == Top(s)  p == f.a  c == Charge(s, p)  u == Relocate(c, p, f.sq)
             d == IF diver = NoPlayer THEN u ELSE PlaceProne(Place(u, diver, s.at[p]), diver)
  <1>1. StepFailed(s, cause, diver) = KnockDown(Pop(d), p, cause, NoPlayer)
    BY Zenon DEF StepFailed
  <1>2. p \in Slots /\ s.at[p] \in Squares
    BY TopOk, AtSquare DEF FrameOk, Doze
  <1>3. Doze(c) /\ Top(c) = f /\ c.status = "running" /\ c.has = s.has
    BY ChargeMere DEF SameBoard
  <1> HIDE DEF c
  <1>4. Doze(u) /\ Top(u) = f /\ u.status = "running" /\ u.has = s.has
    BY <1>2, <1>3, DozeRelocate
  <1> HIDE DEF u
  <1>5. Doze(d) /\ d.status = "running"
    <2>1. CASE diver = NoPlayer
      BY <1>4, <2>1
    <2>2. CASE diver # NoPlayer
      BY <1>2, <1>4, <2>2, DozeDive
    <2> QED BY <2>1, <2>2
  <1> HIDE DEF d
  <1>6. Steady(Pop(d)) /\ Goes(d, Pop(d))
    BY <1>5, SteadyPop
  <1>7. LET t == KnockDown(Pop(d), p, cause, NoPlayer) IN Steady(t) /\ Goes(Pop(d), t)
    BY <1>2, <1>6, SteadyDown
  <1> QED BY <1>1, <1>5, <1>6, <1>7, GoesOn, End

(* Kept by the answer to a dodge or a rush.                                *)
LEMMA StepTestedStill ==
  ASSUME PitchInv, StepTested
  PROVE  Still(m')
  <1> DEFINE f == Top(m)  s == Unmark(m, {"await_test", "rush_pend"})
             w == Unmark(s, {"dodge_pend"})  lost == [s EXCEPT !.ret = @ \ {"ok"}]
  <1>1. Runs("MOVE", 0) /\ "await_test" \in f.data /\ {"jump", "block_rush"} \cap f.data = {}
    BY DEF StepTested, Waits, Clears
  <1>2. \/ \E divers : /\ divers # {} /\ divers \subseteq Divers(m, f.a)
                       /\ m' = StepFailed(lost, "dodge", SlotAt(m, First(divers)))
        \/ \E cause : m' = StepFailed(s, cause, NoPlayer)
        \/ m' = Test(Mark(w, {"await_test"}), f.a, "DODGE", NoPlayer)
        \/ m' \in ExecuteStep(s)
    <2> DEFINE rush == "rush_pend" \in f.data
               divers == IF ~rush /\ Passed /\ "close" \in m.ret THEN Divers(m, f.a) ELSE {}
    <2>1. IF divers # {}
          THEN m' = StepFailed(lost, "dodge", SlotAt(m, First(divers)))
          ELSE IF ~Passed THEN m' = StepFailed(s, IF rush THEN "rush" ELSE "dodge", NoPlayer)
          ELSE IF "dodge_pend" \in f.data
          THEN m' = Test(Mark(w, {"await_test"}), f.a, "DODGE", NoPlayer)
          ELSE m' \in ExecuteStep(s)
      BY Zenon DEF StepTested
    <2>2. divers \subseteq Divers(m, f.a)
      OBVIOUS
    <2> HIDE DEF divers, rush
    <2> QED BY <2>1, <2>2
  <1>3. /\ Doze(m) /\ m.status = "running" /\ f.proc = "MOVE" /\ MoveOk(f) /\ f.a \in Slots
        /\ Moved(m, m)
    BY <1>1, MoveWoken
  <1>4. f.sq \in Squares
    BY <1>1, <1>3 DEF MoveOk
  <1>5. Moved(m, s) /\ s.status = "running" /\ Top(s).data = f.data \ {"await_test", "rush_pend"}
        /\ Top(s).sq = f.sq /\ Top(s).c = f.c /\ Top(s).k = f.k
    BY <1>3, MovedUnmark, MovedFrame
  <1>6. Moved(m, lost) /\ Top(lost) = Top(s) /\ lost.status = "running"
    <2> HIDE DEF s
    <2>1. Mere(s, lost)
      BY <1>5, MovedFrame DEF Mere, Kept, SameBoard, IsMatch, Fields
    <2> HIDE DEF lost
    <2> QED BY <1>5, <2>1, MovedMere
  <1> HIDE DEF s, lost
  <1>7. MoveOk(Top(s)) /\ Idle(Top(s))
    BY <1>1, <1>3, <1>5 DEF MoveOk, Idle, Pending
  <1>8. /\ Doze(s) /\ Top(s).proc = "MOVE" /\ s.has = m.has
        /\ Doze(lost) /\ Top(lost).proc = "MOVE" /\ lost.has = m.has
    BY <1>3, <1>5, <1>6, <1>7, MovedDoze DEF Idle, Pending, SameBoard
  <1>9. CASE \E divers : /\ divers # {} /\ divers \subseteq Divers(m, f.a)
                         /\ m' = StepFailed(lost, "dodge", SlotAt(m, First(divers)))
    <2>1. PICK divers : /\ divers # {} /\ divers \subseteq Divers(m, f.a)
                        /\ m' = StepFailed(lost, "dodge", SlotAt(m, First(divers)))
      BY <1>9
    <2>2. divers \subseteq Squares /\ \A q \in divers : ~Empty(m, q) /\ SlotAt(m, q) \notin m.has
      BY <2>1 DEF Divers, Near
    <2>3. First(divers) \in divers
      BY <2>1, <2>2, FirstIn
    <2>4. SlotAt(m, First(divers)) \in Slots /\ SlotAt(m, First(divers)) \notin m.has
      BY <1>3, <2>2, <2>3, GridSlots DEF Doze
    <2> QED BY <1>4, <1>5, <1>6, <1>8, <2>1, <2>4, StepFailedStill
  <1>10. CASE \E cause : m' = StepFailed(s, cause, NoPlayer)
    BY <1>4, <1>5, <1>8, <1>10, StepFailedStill
  <1>11. CASE m' = Test(Mark(w, {"await_test"}), f.a, "DODGE", NoPlayer)
    <2>1. Moved(m, w) /\ w.status = "running" /\ Top(w).sq = f.sq /\ Top(w).c = f.c
          /\ Top(w).data = f.data \ {"await_test", "rush_pend", "dodge_pend"}
      BY <1>3, <1>5, MovedUnmark
    <2> HIDE DEF w
    <2> DEFINE t == Mark(w, {"await_test"})
    <2>2. Moved(m, t) /\ t.status = "running" /\ Top(t).sq = f.sq /\ Top(t).c = f.c
          /\ Top(t).data = (f.data \ {"await_test", "rush_pend", "dodge_pend"}) \cup {"await_test"}
      BY <1>3, <2>1, MovedMark
    <2> HIDE DEF t
    <2>3. MoveOk(Top(t)) /\ "await_pickup" \notin Top(t).data
      <3>1. Top(t).k = f.k
        BY <2>2, MovedFrame
      <3> QED BY <1>1, <1>3, <2>2, <3>1 DEF MoveOk
    <2> QED BY <1>3, <1>11, <2>2, <2>3, MovedTest DEF t
  <1>12. CASE m' \in ExecuteStep(s)
    BY <1>4, <1>5, <1>7, <1>8, <1>12, ExecuteStill
  <1> QED BY <1>2, <1>9, <1>10, <1>11, <1>12

(* A ball picked up.                                                       *)
LEMMA DozeGive ==
  ASSUME NEW s, Doze(s), Closed(s), NEW p \in Slots, OnPitch(s, p)
  PROVE  LET t == GiveBall(s, p) IN
         Doze(t) /\ Closed(t) /\ Top(t) = Top(s) /\ t.status = s.status
  <1> DEFINE t == GiveBall(s, p)
  <1>1. Board(t) /\ Kept(s, t)
    BY GiveBoard DEF Doze
  <1> HIDE DEF t
  <1>2. Doze(t) /\ (Closed(s) => Closed(t))
    BY <1>1, DozeKept
  <1> QED BY <1>1, <1>2 DEF Kept, Top, t

(* Kept by the answer to a pick-up.                                        *)
LEMMA PickupTestedStill ==
  ASSUME PitchInv, PickupTested
  PROVE  Still(m')
  <1> DEFINE f == Top(m)  u == Unmark(m, {"await_pickup"})  s == GiveBall(u, f.a)
             d == MakeTurnover(Pop(m))
  <1>1. Runs("MOVE", 0) /\ "await_pickup" \in f.data
    BY DEF PickupTested, Waits
  <1>2. m' \in {Bounce(d, m.ball.sq), CheckTd(s), Pop(s), Asking(s)}
    BY DEF PickupTested, Mover
  <1>3. /\ Doze(m) /\ m.status = "running" /\ f.proc = "MOVE" /\ MoveOk(f) /\ f.a \in Slots
        /\ Moved(m, m) /\ OnPitch(m, f.a) /\ Closed(m)
        /\ Steady(Pop(m)) /\ Goes(m, Pop(m))
    BY <1>1, MoveWoken
  <1>4. Moved(m, u) /\ u.status = "running" /\ Top(u).data = f.data \ {"await_pickup"}
        /\ Top(u).sq = f.sq /\ Top(u).c = f.c /\ Top(u).k = f.k
    BY <1>3, MovedUnmark, MovedFrame
  <1> HIDE DEF u
  <1>5. MoveOk(Top(u)) /\ Idle(Top(u))
    BY <1>1, <1>3, <1>4 DEF MoveOk, Idle, Pending
  <1>6. Doze(u) /\ Closed(u) /\ OnPitch(u, f.a)
    BY <1>3, <1>4, <1>5, MovedDoze DEF Idle, Pending, SameBoard, OnPitch
  <1>7. Doze(s) /\ Closed(s) /\ Top(s) = Top(u) /\ s.status = "running"
    BY <1>3, <1>4, <1>6, DozeGive
  <1> HIDE DEF s
  <1>8. Steady(s)
    BY <1>3, <1>4, <1>5, <1>7, MovedFrame, DozeRests DEF Resting, Due, Idle, Pending
  <1>9. Still(CheckTd(s)) /\ Still(Pop(s)) /\ Still(Asking(s))
    BY <1>5, <1>7, <1>8, SteadyTd, SteadyPop, End, AskingStill DEF Idle, Pending
  <1>10. Still(Bounce(d, m.ball.sq))
    <2>1. Steady(d) /\ Goes(m, d)
      BY <1>3, SteadyTurnover, GoesOn
    <2> HIDE DEF d
    <2>2. Closed(d)
      BY <1>3, <2>1 DEF Goes
    <2> QED BY <1>3, <2>1, <2>2, SteadyBounce, GoesOn, End
  <1> QED BY <1>2, <1>9, <1>10

(* Kept by an action that is over.                                         *)
LEMMA ActionOverStill ==
  ASSUME PitchInv, ActionOver
  PROVE  Still(m')
  <1> DEFINE f == Top(m)  u == Unmark(m, {"await_block", "await_action"})
  <1>1. Runs("MOVE", 0) /\ "await_action" \in f.data
        /\ {"await_test", "await_pickup"} \cap f.data = {}
    BY DEF ActionOver, Waits, Clears
  <1>2. PICK c : \/ \E team : m' = Decide(TurnoverIf(u, c), team)
                 \/ m' = Pop(TurnoverIf(u, c))
    BY Zenon DEF ActionOver
  <1> DEFINE s == TurnoverIf(u, c)
  <1>3. f.data \cap {"await_test", "await_pickup", "stand_pend"} = {}
    <2>1. CASE "stand_pend" \in f.data
      <3>1. Doze(m) /\ MoveOk(f)
        BY <1>1, <2>1, MoveWoken
      <3> QED BY <1>1, <2>1, <3>1 DEF MoveOk
    <2> QED BY <1>1, <2>1
  <1>4. /\ Doze(m) /\ Steady(m) /\ m.status = "running" /\ f.proc = "MOVE" /\ MoveOk(f)
        /\ f.a \in Slots /\ Moved(m, m)
    BY <1>1, <1>3, MoveRests
  <1>5. Moved(m, u) /\ u.status = "running" /\ Top(u).data = f.data \ {"await_block", "await_action"}
        /\ Top(u).sq = f.sq /\ Top(u).c = f.c /\ Top(u).k = f.k
    BY <1>4, MovedUnmark, MovedFrame
  <1> HIDE DEF u
  <1>6. MoveOk(Top(u)) /\ Idle(Top(u))
    BY <1>1, <1>3, <1>4, <1>5 DEF MoveOk, Idle, Pending
  <1>7. Doze(u) /\ Steady(u)
    BY <1>4, <1>5, <1>6, MovedDoze DEF Idle, Pending
  <1>8. Mere(u, s)
    BY <1>7, MereTurnover DEF Doze
  <1> HIDE DEF s
  <1>9. Doze(s) /\ Steady(s) /\ Top(s) = Top(u) /\ s.status = "running"
    BY <1>5, <1>7, <1>8, DozeMere, SteadyMere DEF Mere, Kept
  <1>10. CASE \E team : m' = Decide(s, team)
    BY <1>6, <1>9, <1>10, DecideStill DEF Idle, Pending
  <1>11. CASE m' = Pop(s)
    BY <1>9, <1>11, SteadyPop, End
  <1> QED BY <1>2, <1>10, <1>11 DEF s

(* Kept by the roll to stand up.                                           *)
LEMMA StandUpTestedStill ==
  ASSUME PitchInv, StandUpTested
  PROVE  Still(m')
  <1> DEFINE f == Top(m)  p == f.a  s == Unmark(m, {"stand_pend", "await_block"})
             up == [s EXCEPT !.stance[p] = "standing"]
             n == Note(up, 0)  w == Mark(n, {"await_block", "block_done"})
             ask == [up EXCEPT !.moved[p] = m.ma[p], !.rushes[p] = MaxRushes(m, p)]
  <1>1. Runs("MOVE", 0) /\ "stand_pend" \in f.data
    BY DEF StandUpTested, Waits
  <1>2. \/ m' \in {Pop(s), Asking(ask)}
        \/ f.k = "BLOCK" /\ m' = Push(w, Frame("BLOCK", p, f.c, NoSq))
    BY DEF StandUpTested
  <1>3. /\ Doze(m) /\ m.status = "running" /\ f.proc = "MOVE" /\ MoveOk(f) /\ p \in Slots
        /\ Moved(m, m)
    BY <1>1, MoveWoken
  <1>4. Moved(m, s) /\ s.status = "running" /\ Top(s).data = f.data \ {"stand_pend", "await_block"}
        /\ Top(s).sq = f.sq /\ Top(s).c = f.c /\ Top(s).k = f.k
    BY <1>3, MovedUnmark, MovedFrame
  <1> HIDE DEF s
  <1>5. Moved(m, up) /\ Top(up) = Top(s) /\ up.status = "running"
    <2>1. Mere(s, up)
      BY <1>4, MovedFrame DEF Mere, Kept, SameBoard, IsMatch, Fields
    <2> HIDE DEF up
    <2> QED BY <1>4, <2>1, MovedMere
  <1> HIDE DEF up
  <1>6. MoveOk(Top(s)) /\ Idle(Top(s))
    BY <1>1, <1>3, <1>4 DEF MoveOk, Idle, Pending
  <1>7. Doze(s) /\ Steady(s) /\ Doze(up) /\ Steady(up) /\ Top(up).proc = "MOVE"
    BY <1>3, <1>4, <1>5, <1>6, MovedDoze DEF Idle, Pending
  <1>8. CASE m' = Pop(s)
    BY <1>4, <1>7, <1>8, SteadyPop, End
  <1>9. CASE m' = Asking(ask)
    <2>1. Mere(up, ask)
      BY <1>3, <1>5, MereSpent, MovedFrame
    <2> HIDE DEF ask
    <2>2. Doze(ask) /\ Steady(ask) /\ Top(ask) = Top(up) /\ ask.status = "running"
      BY <1>5, <1>7, <2>1, DozeMere, SteadyMere DEF Mere, Kept
    <2> QED BY <1>5, <1>6, <1>9, <2>2, AskingStill DEF Idle, Pending
  <1>10. CASE f.k = "BLOCK" /\ m' = Push(w, Frame("BLOCK", p, f.c, NoSq))
    <2>1. Moved(m, n) /\ n.status = "running" /\ Top(n).data = Top(s).data /\ Top(n).sq = f.sq
          /\ Top(n).c = 0
      BY <1>3, <1>4, <1>5, MovedNote
    <2> HIDE DEF n
    <2>2. Moved(m, w) /\ w.status = "running" /\ Top(w).sq = f.sq /\ Top(w).c = 0
          /\ Top(w).data = Top(s).data \cup {"await_block", "block_done"} /\ Top(w).k = f.k
      BY <1>3, <2>1, MovedMark, MovedFrame
    <2> HIDE DEF w
    <2>3. MoveOk(Top(w)) /\ Idle(Top(w))
      <3>1. 0 \in Slots
        BY DEF Slots, PitchAssumption
      <3> QED BY <1>6, <2>2, <3>1 DEF MoveOk, Idle, Pending
    <2>4. Steady(w)
      BY <1>3, <2>2, <2>3, MovedDoze DEF Idle, Pending
    <2> DEFINE g == Frame("BLOCK", p, f.c, NoSq)
    <2>5. IsFrame(g) /\ g.proc = "BLOCK" /\ g.phase = 0 /\ g.a = p /\ g.b = f.c
      BY BareFrame
    <2>6. m' = Push(w, g)
      BY <1>10
    <2> HIDE DEF g
    <2>7. Quiet(g) /\ ~BallFrame(g)
      BY <1>3, <1>10, <2>5, QuietFrame, LooseFrame DEF MoveOk
    <2> QED BY <2>2, <2>4, <2>6, <2>7, SteadyQuiet, End
  <1> QED BY <1>2, <1>8, <1>9, <1>10

(* Kept by a mover asked how to go on.                                     *)
LEMMA MoveAskStill ==
  ASSUME PitchInv, MoveAsk
  PROVE  Still(m')
  <1> DEFINE f == Top(m)  s == Unmark(m, {"await_block"})
  <1>1. Runs("MOVE", 0) /\ Pending \cap f.data = {} /\ m' = Asking(s)
    BY DEF MoveAsk, Clears, Pending
  <1>2. /\ Doze(m) /\ m.status = "running" /\ f.proc = "MOVE" /\ MoveOk(f) /\ Moved(m, m)
        /\ {"jump", "block_rush"} \cap f.data = {}
    BY <1>1, MoveRests DEF Pending
  <1>3. Moved(m, s) /\ s.status = "running" /\ Top(s).data = f.data \ {"await_block"}
        /\ Top(s).sq = f.sq /\ Top(s).c = f.c /\ Top(s).k = f.k
    BY <1>2, MovedUnmark, MovedFrame
  <1> HIDE DEF s
  <1>4. MoveOk(Top(s)) /\ Idle(Top(s))
    BY <1>1, <1>2, <1>3 DEF MoveOk, Idle, Pending
  <1>5. Doze(s) /\ Steady(s)
    BY <1>2, <1>3, <1>4, MovedDoze DEF Idle, Pending
  <1> QED BY <1>1, <1>3, <1>4, <1>5, AskingStill DEF Idle, Pending

(* ---------------------- what the coach of a MOVE says ------------------- *)
(* What the handler of a MOVE's answer begins with: nothing is open.       *)
LEMMA MoveAsked ==
  ASSUME PitchInv, Asks("MOVE", 0)
  PROVE  LET s == Answered(m) IN
         /\ Doze(s) /\ Steady(s) /\ s.status = "running" /\ Moved(s, s) /\ SameBoard(m, s)
         /\ Top(s) = Top(m) /\ Top(s).proc = "MOVE" /\ MoveOk(Top(s)) /\ Idle(Top(s))
         /\ Top(s).a \in Slots /\ s.at[Top(s).a] \in Squares /\ m.at[Top(s).a] \in Squares
         /\ Doze(m) /\ Steady(m) /\ Board(m)
         /\ m.has # {} => Closed(s)
  <1> DEFINE s == Answered(m)
  <1>1. m.status = "decision" /\ Top(m).proc = "MOVE"
    BY DEF Asks
  <1>2. Doze(m) /\ Steady(m) /\ MoveOk(Top(m)) /\ Top(m).a \in Slots /\ Idle(Top(m))
    BY <1>1, AskedMove DEF PitchInv, Idle, Pending
  <1>3. Doze(s) /\ s.status = "running" /\ SameBoard(m, s) /\ Top(s) = Top(m)
    BY <1>2, AnsweredDoze
  <1>4. Steady(s)
    BY <1>1, <1>2, AnsweredSteady
  <1>5. s.has = m.has
    BY <1>3 DEF SameBoard
  <1>6. m.has # {} => Closed(s)
    BY <1>3, <1>5, LiveBall
  <1> HIDE DEF s
  <1>7. s.at[Top(s).a] \in Squares /\ m.at[Top(s).a] \in Squares /\ Board(m)
    BY <1>2, <1>3, AtSquare DEF Doze
  <1> QED BY <1>1, <1>2, <1>3, <1>4, <1>6, <1>7, MovedSelf DEF s

(* Kept by a mover who stops.                                              *)
LEMMA EndActivationStill ==
  ASSUME PitchInv, EndActivation
  PROVE  Still(m')
  <1>1. Doze(m) /\ m' = Answered(Pop(m))
    BY MoveAsked DEF EndActivation
  <1> QED BY <1>1, AnsweredPop, SteadyStill

(* Kept by one who stands up.                                              *)
LEMMA StandUpStill ==
  ASSUME PitchInv, StandUp
  PROVE  Still(m')
  <1> DEFINE p == Mover  s == Answered(m)  up == [s EXCEPT !.stance[p] = "standing"]
             t == Mark(s, {"stand_pend"})
  <1>1. \/ m' \in {up, [up EXCEPT !.moved[p] = 3]}
        \/ m' = Test(t, p, "STANDUP", NoPlayer)
    BY DEF StandUp
  <1>2. /\ Doze(s) /\ Steady(s) /\ s.status = "running" /\ Moved(s, s)
        /\ Top(s).proc = "MOVE" /\ MoveOk(Top(s)) /\ Idle(Top(s)) /\ p \in Slots
    BY MoveAsked DEF StandUp, Mover
  <1> HIDE DEF s, p
  <1>3. CASE m' \in {up, [up EXCEPT !.moved[p] = 3]}
    <2>1. Mere(s, up)
      BY <1>2, MovedFrame DEF Mere, Kept, SameBoard, IsMatch, Fields
    <2> DEFINE w == [up EXCEPT !.moved[p] = 3]
    <2>2. m' \in {up, w}
      BY <1>3
    <2> HIDE DEF up
    <2>3. Mere(up, w)
      BY <2>1, MereSpent DEF Mere
    <2> HIDE DEF w
    <2> QED BY <1>2, <2>1, <2>2, <2>3, SteadyMere, End, GoesOn
  <1>4. CASE m' = Test(t, p, "STANDUP", NoPlayer)
    <2>1. Moved(s, t) /\ t.status = "running" /\ Top(t).data = Top(s).data \cup {"stand_pend"}
          /\ Top(t).sq = Top(s).sq /\ Top(t).c = Top(s).c /\ Top(t).k = Top(s).k
      BY <1>2, MovedMark, MovedFrame
    <2> HIDE DEF t
    <2>2. MoveOk(Top(t)) /\ "await_pickup" \notin Top(t).data
      BY <1>2, <2>1 DEF MoveOk, Idle, Pending
    <2> QED BY <1>2, <1>4, <2>1, <2>2, MovedTest
  <1> QED BY <1>1, <1>3, <1>4

(* The coach of a MOVE has said what the mover is to roll for.             *)
LEMMA AskedTest ==
  ASSUME NEW s, Doze(s), Top(s).proc = "MOVE", MoveOk(Top(s)), Idle(Top(s)),
         NEW t, Moved(s, t), t.status = "running", Top(t).sq \in Squares,
         NEW d, d \subseteq {"await_test", "rush_pend", "dodge_pend"}, "await_test" \in d,
         Top(t).data = Top(s).data \cup d, Top(t).c = Top(s).c,
         NEW p \in Slots, NEW k
  PROVE  Still(Test(t, p, k, NoPlayer))
  <1>1. Top(t).k = Top(s).k
    BY MovedFrame
  <1>2. MoveOk(Top(t)) /\ "await_pickup" \notin Top(t).data /\ "await_test" \in Top(t).data
    BY <1>1 DEF MoveOk, Idle, Pending
  <1> QED BY <1>2, MovedTest

(* Kept by one who steps.                                                  *)
LEMMA StepStill ==
  ASSUME PitchInv, Step
  PROVE  Still(m')
  <1> DEFINE p == Mover  a == Answered(m)
  <1>1. PICK q \in Free(m, p) : StepTo(q)
    BY DEF Step
  <1> DEFINE s == Aim(a, q)
  <1>2. \/ m' = Answered(Pop(m))
        \/ \E d, k : /\ d \subseteq {"await_test", "rush_pend", "dodge_pend"} /\ "await_test" \in d
                     /\ m' = Test(Mark(s, d), p, k, NoPlayer)
        \/ m' \in ExecuteStep(s)
    <2> DEFINE x == {"await_test", "rush_pend"} \cup Flag(Markers(m, TeamOf(p), m.at[p]) # {}, "dodge_pend")
    <2>1. \/ m' = Answered(Pop(m))
          \/ m' = Test(Mark(s, x), p, "RUSH", NoPlayer)
          \/ m' = Test(Mark(s, {"await_test"}), p, "DODGE", NoPlayer)
          \/ m' \in ExecuteStep(s)
      BY <1>1, Zenon DEF StepTo
    <2>2. x \subseteq {"await_test", "rush_pend", "dodge_pend"} /\ "await_test" \in x
      BY DEF Flag
    <2> HIDE DEF x, s, p
    <2> QED BY <2>1, <2>2
  <1>3. /\ Doze(a) /\ a.status = "running" /\ Moved(a, a) /\ Doze(m)
        /\ Top(a).proc = "MOVE" /\ MoveOk(Top(a)) /\ Idle(Top(a)) /\ p \in Slots
    BY MoveAsked DEF Step, MayMove, Mover
  <1>4. q \in Squares
    BY <1>1, FreeSquares
  <1> HIDE DEF a, p
  <1>5. /\ Moved(a, s) /\ s.status = "running" /\ Top(s).sq = q /\ Top(s).data = Top(a).data
        /\ Top(s).c = Top(a).c
    BY <1>3, MovedAim
  <1> HIDE DEF s
  <1>6. CASE m' = Answered(Pop(m))
    BY <1>3, <1>6, AnsweredPop, SteadyStill
  <1>7. CASE \E d, k : /\ d \subseteq {"await_test", "rush_pend", "dodge_pend"} /\ "await_test" \in d
                       /\ m' = Test(Mark(s, d), p, k, NoPlayer)
    <2>1. PICK d, k : /\ d \subseteq {"await_test", "rush_pend", "dodge_pend"} /\ "await_test" \in d
                      /\ m' = Test(Mark(s, d), p, k, NoPlayer)
      BY <1>7
    <2> DEFINE t == Mark(s, d)
    <2>2. /\ Moved(a, t) /\ t.status = "running" /\ Top(t).sq = q /\ Top(t).c = Top(a).c
          /\ Top(t).data = Top(a).data \cup d
      BY <1>3, <1>5, MovedMark
    <2> HIDE DEF t
    <2> QED BY <1>3, <1>4, <2>1, <2>2, AskedTest DEF t
  <1>8. CASE m' \in ExecuteStep(s)
    <2>1. Top(s).k = Top(a).k
      BY <1>5, MovedFrame
    <2>2. MoveOk(Top(s)) /\ Idle(Top(s))
      BY <1>3, <1>5, <2>1 DEF MoveOk, Idle, Pending
    <2>3. Doze(s) /\ Top(s).proc = "MOVE"
      BY <1>3, <1>5, <2>2, MovedDoze DEF Idle, Pending
    <2> QED BY <1>4, <1>5, <1>8, <2>2, <2>3, ExecuteStill
  <1> QED BY <1>2, <1>6, <1>7, <1>8

(* Kept by one who jumps.                                                  *)
LEMMA JumpStill ==
  ASSUME PitchInv, Jump
  PROVE  Still(m')
  <1> DEFINE p == Mover  a == Answered(m)
             need == IF Left(m, p) < 2 THEN 2 - Left(m, p) ELSE 0
             spent == m.moved[p] + 2 - need
             b == [a EXCEPT !.moved[p] = Bounded(spent, m.ma[p])]
  <1>1. PICK q \in JumpSquares(m, p) :
          LET s == Mark(Note(Aim(b, q), need), {"jump"}) IN
          m' = IF need > 0 THEN RushFor(s, p, {})
               ELSE Test(Mark(s, {"await_test"}), p, "JUMP", NoPlayer)
    BY Zenon DEF Jump
  <1> DEFINE x == Aim(b, q)  y == Note(x, need)  s == Mark(y, {"jump"})
             r == [s EXCEPT !.rushes[p] = @ + 1]
             w == Mark(r, {"await_test", "rush_pend"} \cup {})
  <1>2. \/ m' = Test(w, p, "RUSH", NoPlayer)
        \/ m' = Test(Mark(s, {"await_test"}), p, "JUMP", NoPlayer)
    BY <1>1, Zenon DEF RushFor
  <1>3. /\ Doze(a) /\ a.status = "running" /\ Moved(a, a)
        /\ Top(a).proc = "MOVE" /\ MoveOk(Top(a)) /\ Idle(Top(a)) /\ p \in Slots
        /\ Top(a) = Top(m)
    BY MoveAsked DEF Jump, MayMove, Mover
  <1>4. Top(a).k # "BLOCK"
    BY <1>3 DEF Jump, MayMove
  <1>5. q \in Squares
    BY <1>1 DEF JumpSquares, Near
  <1> HIDE DEF a, p, need
  <1>6. Moved(a, b) /\ Top(b) = Top(a) /\ b.status = "running"
    <2>1. Mere(a, b)
      BY <1>3, MereSpent DEF Doze, Board
    <2> HIDE DEF b
    <2> QED BY <1>3, <2>1, MovedMere
  <1> HIDE DEF b
  <1>7. Moved(a, x) /\ x.status = "running" /\ Top(x).data = Top(a).data /\ Top(x).sq = q
    BY <1>3, <1>6, MovedAim
  <1> HIDE DEF x
  <1>8. Moved(a, y) /\ y.status = "running" /\ Top(y).data = Top(a).data /\ Top(y).sq = q
    BY <1>3, <1>7, MovedNote
  <1> HIDE DEF y
  <1>9. Moved(a, s) /\ s.status = "running" /\ Top(s).data = Top(a).data \cup {"jump"} /\ Top(s).sq = q
    BY <1>3, <1>8, MovedMark
  <1> HIDE DEF s
  <1>10. ASSUME NEW t, Moved(a, t), t.status = "running", Top(t).sq = q, NEW k,
               NEW d \in SUBSET {"await_test", "rush_pend"}, "await_test" \in d,
               Top(t).data = (Top(a).data \cup {"jump"}) \cup d
         PROVE  Still(Test(t, p, k, NoPlayer))
    <2>1. Top(t).k = Top(a).k
      BY <1>10, MovedFrame
    <2>2. MoveOk(Top(t)) /\ "await_pickup" \notin Top(t).data /\ "await_test" \in Top(t).data
      BY <1>3, <1>4, <1>5, <1>10, <2>1 DEF MoveOk, Idle, Pending
    <2> QED BY <1>3, <1>10, <2>2, MovedTest
  <1>11. CASE m' = Test(Mark(s, {"await_test"}), p, "JUMP", NoPlayer)
    <2> DEFINE t == Mark(s, {"await_test"})
    <2>1. /\ Moved(a, t) /\ t.status = "running" /\ Top(t).sq = q
          /\ Top(t).data = (Top(a).data \cup {"jump"}) \cup {"await_test"}
      BY <1>3, <1>9, MovedMark
    <2> HIDE DEF t
    <2> QED BY <1>10, <1>11, <2>1 DEF t
  <1>12. CASE m' = Test(w, p, "RUSH", NoPlayer)
    <2>1. Moved(a, r) /\ Top(r) = Top(s) /\ r.status = "running"
      <3>1. Mere(s, r)
        BY <1>9, MovedFrame, MereSpent
      <3> HIDE DEF r
      <3> QED BY <1>9, <3>1, MovedMere
    <2> HIDE DEF r
    <2>2. /\ Moved(a, w) /\ w.status = "running" /\ Top(w).sq = q
          /\ Top(w).data = (Top(a).data \cup {"jump"}) \cup {"await_test", "rush_pend"}
      BY <1>3, <1>9, <2>1, MovedMark
    <2> HIDE DEF w
    <2> QED BY <1>10, <1>12, <2>2
  <1> QED BY <1>2, <1>11, <1>12

(* Those next to a square are players.                                     *)
LEMMA NearbySlots ==
  ASSUME NEW s, Board(s), NEW p
  PROVE  Foes(s, p) \subseteq Slots /\ Mates(s, p) \subseteq Slots /\ StandingFoes(s, p) \subseteq Slots
  <1> DEFINE N == Near(s.at[p])
  <1>1. N \subseteq Squares
    BY DEF Near
  <1> HIDE DEF N
  <1>2. NoSq \in Squares
    BY DEF NoSq, Squares
  <1>3. Occupied(s, N) \subseteq Slots
    BY <1>1, <1>2, GridSlots
  <1> QED BY <1>3 DEF N, Foes, Mates, StandingFoes

(* The mover does something else next: his frame waits for that to be over. *)
LEMMA AskedRests ==
  ASSUME NEW s, Doze(s), Top(s).proc = "MOVE", MoveOk(Top(s)), Idle(Top(s)),
         NEW t, Moved(s, t), t.status = "running",
         NEW d, d \subseteq {"await_block", "await_action", "block_done", "action_done"},
         ~({"await_action", "await_test"} \subseteq d), Top(t).data = Top(s).data \cup d,
         Top(t).c = Top(s).c \/ Top(t).c \in Slots
  PROVE  /\ Doze(t) /\ Steady(t) /\ MoveOk(Top(t)) /\ Top(t).proc = "MOVE" /\ SameBoard(s, t)
         /\ (Closed(s) => Closed(t))
  <1>1. Top(t).k = Top(s).k
    BY MovedFrame
  <1>2. MoveOk(Top(t)) /\ Top(t).data \cap {"await_test", "await_pickup", "stand_pend"} = {}
    BY <1>1 DEF MoveOk, Idle, Pending
  <1> QED BY <1>2, MovedDoze

(* The mover's frame rests while what he does is played out.               *)
LEMMA ActingRests ==
  ASSUME NEW s, Doze(s), Top(s).proc = "MOVE", MoveOk(Top(s)), Idle(Top(s)),
         NEW t, Moved(s, t), t.status = "running",
         Top(t).data \in {Top(s).data, Top(s).data \cup {"block_done"}}, Top(t).c = Top(s).c
  PROVE  LET u == Acting(t) IN
         /\ Doze(u) /\ Steady(u) /\ u.status = "running" /\ SameBoard(s, u)
         /\ (Closed(s) => Closed(u))
  <1> DEFINE u == Acting(t)
  <1>1. /\ Moved(s, u) /\ u.status = "running" /\ Top(u).c = Top(t).c
        /\ Top(u).data = Top(t).data \cup {"await_action", "action_done"}
    BY MovedMark DEF Acting
  <1> DEFINE e == {"await_action", "action_done"} \cup (Top(t).data \cap {"block_done"})
  <1>2. e \subseteq {"await_block", "await_action", "block_done", "action_done"}
        /\ ~({"await_action", "await_test"} \subseteq e) /\ Top(u).data = Top(s).data \cup e
    BY <1>1
  <1> HIDE DEF u, e
  <1> QED BY <1>1, <1>2, AskedRests DEF u

(* A frame for two players on top of it.                                   *)
LEMMA SteadyPair ==
  ASSUME NEW s, Steady(s), NEW proc \in {"BLOCK", "FOUL", "HANDOFF"}, NEW a \in Slots,
         NEW b \in Slots, proc = "HANDOFF" => Closed(s), NEW q, NEW d
  PROVE  /\ LET t == Push(s, Frame(proc, a, b, q)) IN Steady(t) /\ Goes(s, t)
         /\ LET t == Push(s, [Frame(proc, a, b, q) EXCEPT !.data = d]) IN Steady(t) /\ Goes(s, t)
  <1>1. ASSUME NEW f, IsFrame(f), f.proc = proc, f.phase = 0, f.a = a, f.b = b
        PROVE  LET t == Push(s, f) IN Steady(t) /\ Goes(s, t)
    <2>1. Quiet(f)
      BY <1>1, QuietFrame
    <2>2. Closed(s) \/ ~BallFrame(f)
      BY <1>1, LooseFrame
    <2> QED BY <2>1, <2>2, SteadyQuiet
  <1> DEFINE f == Frame(proc, a, b, q)  g == [Frame(proc, a, b, q) EXCEPT !.data = d]
  <1>2. IsFrame(f) /\ f.proc = proc /\ f.phase = 0 /\ f.a = a /\ f.b = b
    BY BareFrame
  <1>3. IsFrame(g) /\ g.proc = proc /\ g.phase = 0 /\ g.a = a /\ g.b = b
    BY DEF Frame, IsFrame, Marks
  <1> HIDE DEF f, g
  <1>4. LET t == Push(s, f) IN Steady(t) /\ Goes(s, t)
    BY <1>1, <1>2
  <1>5. LET t == Push(s, g) IN Steady(t) /\ Goes(s, t)
    BY <1>1, <1>3
  <1> QED BY <1>4, <1>5 DEF f, g

(* Kept by one who passes, hands off or fouls.                             *)
LEMMA PassTargetStill ==
  ASSUME PitchInv, PassTarget \/ HandOffTarget \/ FoulTarget
  PROVE  Still(m')
  <1> DEFINE p == Mover  a == Answered(m)
  <1>1. Asks("MOVE", 0) /\ (PassTarget \/ HandOffTarget => m.has # {})
    BY DEF PassTarget, HandOffTarget, FoulTarget, BallAction
  <1>2. /\ Doze(a) /\ a.status = "running" /\ Moved(a, a)
        /\ Top(a).proc = "MOVE" /\ MoveOk(Top(a)) /\ Idle(Top(a)) /\ p \in Slots
        /\ Board(m) /\ (m.has # {} => Closed(a))
    BY <1>1, MoveAsked DEF Mover
  <1>3. /\ Mates(m, p) \subseteq Slots /\ Foes(m, p) \subseteq Slots
    BY <1>2, NearbySlots
  <1> HIDE DEF a, p
  <1>4. CASE PassTarget
    <2>0. PICK q \in Squares : \E r : m' = Push(Acting(Aim(a, r)), Frame("PASS", p, 0, q))
      BY <1>4, Zenon DEF PassTarget, a, p
    <2>1. PICK r : m' = Push(Acting(Aim(a, r)), Frame("PASS", p, 0, q))
      BY <2>0
    <2> DEFINE u == Aim(a, r)  w == Acting(u)  f == Frame("PASS", p, 0, q)
    <2>2. /\ Moved(a, u) /\ u.status = "running" /\ Top(u).data = Top(a).data
          /\ Top(u).c = Top(a).c
      BY <1>2, MovedAim
    <2> HIDE DEF u
    <2>3. Steady(w) /\ w.status = "running" /\ Closed(w)
      BY <1>1, <1>2, <1>4, <2>2, ActingRests
    <2>4. IsFrame(f) /\ f.proc = "PASS" /\ f.phase = 0 /\ f.a = p /\ f.sq = q
      BY BareFrame
    <2> HIDE DEF w, f
    <2>5. Quiet(f)
      BY <1>2, <2>4, QuietFrame
    <2> QED BY <2>1, <2>3, <2>5, SteadyQuiet, End DEF u, w, f
  <1>5. CASE HandOffTarget
    <2>1. PICK r \in Mates(m, p) : m' = Push(Acting(a), Frame("HANDOFF", p, r, NoSq))
      BY <1>5, Zenon DEF HandOffTarget, a, p
    <2>2. Steady(Acting(a)) /\ Acting(a).status = "running" /\ Closed(Acting(a))
      BY <1>1, <1>2, <1>5, ActingRests
    <2> QED BY <1>2, <1>3, <2>1, <2>2, SteadyPair, End
  <1>6. CASE FoulTarget
    <2>1. PICK r \in Foes(m, p) : m' = Push(Acting(a), Frame("FOUL", p, r, NoSq))
      BY <1>6, Zenon DEF FoulTarget, a, p
    <2>2. Steady(Acting(a)) /\ Acting(a).status = "running"
      BY <1>2, ActingRests
    <2> QED BY <1>2, <1>3, <2>1, <2>2, SteadyPair, End
  <1> QED BY <1>4, <1>5, <1>6

(* A blow that costs a rush first: whom it is for is noted.                *)
LEMMA BlowRush ==
  ASSUME NEW s, Doze(s), Top(s).proc = "MOVE", NEW t, Moved(s, t), t.status = "running",
         Idle(Top(t)), NEW q \in Squares, NEW o \in Slots, NEW p \in Slots,
         NEW flags, flags \subseteq {"block_rush", "action_done"}
  PROVE  Still(RushFor(Note(Aim(t, q), o), p, flags))
  <1> DEFINE x == Aim(t, q)  y == Note(x, o)  r == [y EXCEPT !.rushes[p] = @ + 1]
             e == {"await_test", "rush_pend"} \cup flags
             w == Mark(r, e)
  <1>1. RushFor(y, p, flags) = Test(w, p, "RUSH", NoPlayer)
    BY DEF RushFor
  <1>2. Moved(s, x) /\ x.status = "running" /\ Top(x).data = Top(t).data /\ Top(x).sq = q
    BY MovedAim
  <1> HIDE DEF x
  <1>3. /\ Moved(s, y) /\ y.status = "running" /\ Top(y).data = Top(t).data /\ Top(y).sq = q
        /\ Top(y).c = o
    BY <1>2, MovedNote
  <1> HIDE DEF y
  <1>4. Moved(s, r) /\ Top(r) = Top(y) /\ r.status = "running"
    <2>1. Mere(y, r)
      BY <1>3, MovedFrame, MereSpent
    <2> HIDE DEF r
    <2> QED BY <1>3, <2>1, MovedMere
  <1> HIDE DEF r
  <1>5. e \subseteq {"await_test", "rush_pend", "block_rush", "action_done"} /\ "await_test" \in e
    OBVIOUS
  <1> HIDE DEF e
  <1>6. /\ Moved(s, w) /\ w.status = "running" /\ Top(w).data = Top(t).data \cup e
        /\ Top(w).sq = q /\ Top(w).c = o
    BY <1>3, <1>4, MovedMark
  <1> HIDE DEF w
  <1>7. MoveOk(Top(w)) /\ "await_pickup" \notin Top(w).data /\ "await_test" \in Top(w).data
    BY <1>5, <1>6 DEF MoveOk, Idle, Pending
  <1>8. Still(Test(w, p, "RUSH", NoPlayer))
    BY <1>6, <1>7, MovedTest
  <1> QED BY <1>1, <1>8 DEF y, x

(* Kept by one who blocks.                                                 *)
LEMMA BlockTargetStill ==
  ASSUME PitchInv, BlockTarget
  PROVE  Still(m')
  <1> DEFINE p == Mover  a == Answered(m)  ready == Mark(a, {"await_block", "block_done"})
             on == [ready EXCEPT !.moved[p] = @ + 1]
  <1>1. Asks("MOVE", 0)
    BY DEF BlockTarget
  <1>2. PICK o \in StandingFoes(m, p) :
          \/ m' = Test(Note(Mark(a, {"stand_pend"}), o), p, "GENERIC", NoPlayer)
          \/ m' = Push(ready, Frame("BLOCK", p, o, NoSq))
          \/ m' = Push(on, [Frame("BLOCK", p, o, NoSq) EXCEPT !.data = {"blitz"}])
          \/ m' = RushFor(Note(Aim(ready, m.at[p]), o), p, {"block_rush"})
    BY Zenon DEF BlockTarget, Mover
  <1>3. /\ Doze(a) /\ a.status = "running" /\ Moved(a, a)
        /\ Top(a).proc = "MOVE" /\ MoveOk(Top(a)) /\ Idle(Top(a)) /\ p \in Slots
        /\ Board(m) /\ m.at[p] \in Squares
    BY <1>1, MoveAsked DEF Mover
  <1>4. o \in Slots
    BY <1>2, <1>3, NearbySlots
  <1> HIDE DEF a, p
  <1>5. /\ Moved(a, ready) /\ ready.status = "running" /\ Top(ready).c = Top(a).c
        /\ Top(ready).data = Top(a).data \cup {"await_block", "block_done"}
    BY <1>3, MovedMark
  <1> HIDE DEF ready
  <1>6. Steady(ready) /\ Idle(Top(ready))
    <2>1. MoveOk(Top(ready)) /\ Idle(Top(ready))
      BY <1>3, <1>5, MovedFrame DEF MoveOk, Idle, Pending
    <2> QED BY <1>3, <1>5, <2>1, MovedDoze DEF Idle, Pending
  <1>7. Steady(on) /\ on.status = "running"
    <2>1. Mere(ready, on)
      BY <1>5, MovedFrame, MereSpent
    <2> HIDE DEF on
    <2> QED BY <1>5, <1>6, <2>1, SteadyMere DEF Mere, Kept
  <1> HIDE DEF on
  <1>8. CASE m' = Test(Note(Mark(a, {"stand_pend"}), o), p, "GENERIC", NoPlayer)
    <2> DEFINE x == Mark(a, {"stand_pend"})  y == Note(x, o)
    <2>1. Moved(a, x) /\ x.status = "running" /\ Top(x).data = Top(a).data \cup {"stand_pend"}
      BY <1>3, MovedMark
    <2> HIDE DEF x
    <2>2. /\ Moved(a, y) /\ y.status = "running" /\ Top(y).data = Top(a).data \cup {"stand_pend"}
          /\ Top(y).c = o
      BY <1>3, <2>1, MovedNote
    <2> HIDE DEF y
    <2>3. MoveOk(Top(y)) /\ "await_pickup" \notin Top(y).data /\ "stand_pend" \in Top(y).data
      BY <1>3, <1>4, <2>2 DEF MoveOk, Idle, Pending
    <2> QED BY <1>3, <1>8, <2>2, <2>3, MovedTest DEF x, y
  <1>9. CASE m' = Push(ready, Frame("BLOCK", p, o, NoSq))
    BY <1>3, <1>4, <1>5, <1>6, <1>9, SteadyPair, End
  <1>10. CASE m' = Push(on, [Frame("BLOCK", p, o, NoSq) EXCEPT !.data = {"blitz"}])
    BY <1>3, <1>4, <1>7, <1>10, SteadyPair, End
  <1>11. CASE m' = RushFor(Note(Aim(ready, m.at[p]), o), p, {"block_rush"})
    <2>1. {"block_rush"} \subseteq {"block_rush", "action_done"}
      OBVIOUS
    <2> QED BY <1>3, <1>4, <1>5, <1>6, <1>11, <2>1, BlowRush
  <1> QED BY <1>2, <1>8, <1>9, <1>10, <1>11

(* Kept by one who stabs.                                                  *)
LEMMA StabStill ==
  ASSUME PitchInv, Stab
  PROVE  Still(m')
  <1> DEFINE p == Mover  a == Answered(m)  blitz == Mark(a, {"block_done"})
             on == [blitz EXCEPT !.moved[p] = @ + 1]
  <1>1. Asks("MOVE", 0)
    BY DEF Stab
  <1>2. PICK o \in StandingFoes(m, p) :
          \/ m' = Armour(Acting(a), o, "stab", p)
          \/ m' = Armour(Acting(on), o, "stab", p)
          \/ m' = RushFor(Note(Aim(blitz, m.at[p]), o), p, {"block_rush", "action_done"})
    BY Zenon DEF Stab, Mover
  <1>3. /\ Doze(a) /\ a.status = "running" /\ Moved(a, a)
        /\ Top(a).proc = "MOVE" /\ MoveOk(Top(a)) /\ Idle(Top(a)) /\ p \in Slots
        /\ Board(m) /\ m.at[p] \in Squares
    BY <1>1, MoveAsked DEF Mover
  <1>4. o \in Slots
    BY <1>2, <1>3, NearbySlots
  <1> HIDE DEF a, p
  <1>5. /\ Moved(a, blitz) /\ blitz.status = "running" /\ Top(blitz).c = Top(a).c
        /\ Top(blitz).data = Top(a).data \cup {"block_done"}
    BY <1>3, MovedMark
  <1> HIDE DEF blitz
  <1>6. Moved(a, on) /\ on.status = "running" /\ Top(on) = Top(blitz)
    <2>1. Mere(blitz, on)
      BY <1>5, MovedFrame, MereSpent
    <2> HIDE DEF on
    <2> QED BY <1>5, <2>1, MovedMere
  <1> HIDE DEF on
  <1>7. CASE m' = Armour(Acting(a), o, "stab", p)
    <2>1. Steady(Acting(a)) /\ Acting(a).status = "running"
      BY <1>3, ActingRests
    <2> QED BY <1>3, <1>4, <1>7, <2>1, SteadyArmour, End
  <1>8. CASE m' = Armour(Acting(on), o, "stab", p)
    <2>1. Steady(Acting(on)) /\ Acting(on).status = "running"
      BY <1>3, <1>5, <1>6, ActingRests
    <2> QED BY <1>3, <1>4, <1>8, <2>1, SteadyArmour, End
  <1>9. CASE m' = RushFor(Note(Aim(blitz, m.at[p]), o), p, {"block_rush", "action_done"})
    <2>1. {"block_rush", "action_done"} \subseteq {"block_rush", "action_done"}
      OBVIOUS
    <2>2. Idle(Top(blitz))
      BY <1>3, <1>5 DEF Idle, Pending
    <2> QED BY <1>3, <1>4, <1>5, <1>9, <2>1, <2>2, BlowRush
  <1> QED BY <1>2, <1>7, <1>8, <1>9

(* Kept by one who uses a chainsaw, fire or vomit.                         *)
LEMMA AttackStill ==
  ASSUME PitchInv, Chainsaw \/ BreatheFire \/ Vomit
  PROVE  Still(m')
  <1> DEFINE p == Mover  s == Acting(Answered(m))
             fell(o, c) == TurnoverIf(PlaceProne(s, o), c)
  <1>1. Asks("MOVE", 0)
    BY DEF Chainsaw, BreatheFire, Vomit, Attack, Plays
  <1>2. PICK o \in StandingFoes(m, p) :
          \/ \E v \in {o, p} : \E k : m' = Armour(s, v, k, p)
          \/ \E v \in {o, p}, c \in {p, NoPlayer} : m' = KnockDown(s, v, "other", c)
          \/ m' = s
          \/ \E c : m' = Spill(fell(o, c), o)
    <2>1. CASE Chainsaw
      BY <2>1, Zenon DEF Chainsaw
    <2>2. CASE BreatheFire
      <3>1. \E o \in StandingFoes(m, p) :
              m' \in {s, KnockDown(s, p, "other", NoPlayer), KnockDown(s, o, "other", p),
                      Spill(TurnoverIf(PlaceProne(s, o), o \in m.has /\ TeamOf(o) = m.active), o)}
        BY <2>2, Zenon DEF BreatheFire
      <3> HIDE DEF s, p, fell
      <3> QED BY <3>1, Zenon DEF fell
    <2>3. CASE Vomit
      BY <2>3, Zenon DEF Vomit
    <2> QED BY <2>1, <2>2, <2>3
  <1>3. /\ Steady(s) /\ s.status = "running" /\ p \in Slots /\ Board(m)
    BY <1>1, MoveAsked, ActingRests DEF Mover
  <1>4. o \in Slots
    BY <1>2, <1>3, NearbySlots
  <1> HIDE DEF s, p
  <1>5. CASE \E v \in {o, p} : \E k : m' = Armour(s, v, k, p)
    BY <1>3, <1>4, <1>5, SteadyArmour, End
  <1>6. CASE \E v \in {o, p}, c \in {p, NoPlayer} : m' = KnockDown(s, v, "other", c)
    BY <1>3, <1>4, <1>6, SteadyDown, End
  <1>7. CASE m' = s
    BY <1>3, <1>7, SteadyStill
  <1>8. CASE \E c : m' = Spill(fell(o, c), o)
    <2>1. PICK c : m' = Spill(fell(o, c), o)
      BY <1>8
    <2> DEFINE u == PlaceProne(s, o)  w == TurnoverIf(u, c)
    <2>2. Mere(s, u)
      BY <1>3 DEF PlaceProne, Mere, Kept, SameBoard, IsMatch, Fields, Steady, Board
    <2>3. m' = Spill(w, o)
      BY <2>1
    <2> HIDE DEF u
    <2>4. Steady(u) /\ Goes(s, u)
      BY <1>3, <2>2, SteadyMere
    <2>5. Steady(w) /\ Goes(u, w)
      BY <2>4, SteadyTurnover
    <2> HIDE DEF w
    <2>6. Steady(m') /\ Goes(w, m')
      BY <1>4, <2>3, <2>5, SteadySpill
    <2> QED BY <1>3, <2>4, <2>5, <2>6, GoesOn, End
  <1> QED BY <1>2, <1>5, <1>6, <1>7, <1>8

(* Kept by one who gazes.                                                  *)
LEMMA GazeStill ==
  ASSUME PitchInv, Gaze
  PROVE  Still(m')
  <1>1. PICK d : m' = Answered(Pop([m EXCEPT !.distracted = d]))
    BY Zenon DEF Gaze
  <1> DEFINE s == [m EXCEPT !.distracted = d]
  <1>2. Doze(m)
    BY MoveAsked DEF Gaze, Attack, Plays
  <1>3. Mere(m, s)
    BY <1>2 DEF Mere, Kept, SameBoard, IsMatch, Fields, Doze, Board
  <1> HIDE DEF s
  <1>4. Doze(s)
    BY <1>2, <1>3, DozeMere
  <1> QED BY <1>1, <1>4, AnsweredPop, SteadyStill DEF s

(* Kept by one who hits and runs.                                          *)
LEMMA HitAndRunStill ==
  ASSUME PitchInv, HitAndRun
  PROVE  Still(m')
  <1> DEFINE p == Mover  a == Answered(m)
  <1>1. PICK q \in Free(m, p) : m' \in {CheckTd(Relocate(a, p, q)), Pop(Relocate(a, p, q))}
    BY Zenon DEF HitAndRun
  <1> DEFINE s == Relocate(a, p, q)
  <1>2. Doze(a) /\ Steady(a) /\ a.status = "running" /\ p \in Slots
    BY MoveAsked DEF HitAndRun, Plays, Mover
  <1>3. q \in Squares
    BY <1>1, FreeSquares
  <1> HIDE DEF a, p
  <1>4. Doze(s) /\ Steady(s) /\ s.status = "running"
    BY <1>2, <1>3, DozeRelocate, SteadyRelocate, ZenonT(30)
  <1> HIDE DEF s
  <1> QED BY <1>1, <1>4, SteadyTd, SteadyPop, End DEF s

(* Kept by one who picks up a team-mate.                                   *)
LEMMA PickMateStill ==
  ASSUME PitchInv, PickMate
  PROVE  Still(m')
  <1> DEFINE p == Mover  a == Answered(m)  s == Mark(a, {"block_done"})
  <1>1. PICK r \in Mates(m, p) : m' = Note(s, r)
    BY Zenon DEF PickMate
  <1>2. /\ Doze(a) /\ a.status = "running" /\ Moved(a, a) /\ Board(m)
        /\ Top(a).proc = "MOVE" /\ MoveOk(Top(a)) /\ Idle(Top(a))
    BY MoveAsked DEF PickMate, Throws, Plays
  <1>3. r \in Slots
    BY <1>1, <1>2, NearbySlots
  <1> HIDE DEF a, p
  <1>4. Moved(a, s) /\ s.status = "running" /\ Top(s).data = Top(a).data \cup {"block_done"}
    BY <1>2, MovedMark
  <1> HIDE DEF s
  <1>5. /\ Moved(a, m') /\ m'.status = "running" /\ Top(m').c = r
        /\ Top(m').data = Top(a).data \cup {"block_done"}
    BY <1>1, <1>2, <1>4, MovedNote
  <1>6. MoveOk(Top(m')) /\ Idle(Top(m'))
    BY <1>2, <1>3, <1>5 DEF MoveOk, Idle, Pending
  <1>7. Steady(m')
    BY <1>2, <1>5, <1>6, MovedDoze DEF Idle, Pending
  <1> QED BY <1>5, <1>7, SteadyStill

(* Kept by one who throws him.                                             *)
LEMMA ThrowTargetStill ==
  ASSUME PitchInv, ThrowTarget
  PROVE  Still(m')
  <1> DEFINE f == Top(m)  p == Mover  a == Answered(m)
  <1>1. \/ \E q, d : f.c \in Slots /\ m' = Push(Acting(a), [Frame("TTM", f.c, p, q) EXCEPT !.data = d])
        \/ m' = Err(a)
    <2> DEFINE fits == /\ f.c \in Slots /\ OnPitch(m, f.c) /\ TeamOf(f.c) = TeamOf(f.a)
                       /\ Adjacent(m.at[f.c], m.at[f.a]) /\ Has(m, f.c, "RIGHT_STUFF")
    <2>1. \E q : m' = IF fits THEN Push(Acting(a), [Frame("TTM", f.c, p, q)
                                            EXCEPT !.data = Flag(f.k = "KTM", "kick")])
                      ELSE Err(a)
      BY Zenon DEF ThrowTarget, Mover
    <2>2. fits => f.c \in Slots
      OBVIOUS
    <2> HIDE DEF fits
    <2> QED BY <2>1, <2>2
  <1>2. /\ Doze(a) /\ a.status = "running" /\ Moved(a, a) /\ p \in Slots /\ Board(a)
        /\ Top(a).proc = "MOVE" /\ MoveOk(Top(a)) /\ Idle(Top(a))
    BY MoveAsked DEF ThrowTarget, Throws, Plays, Mover, Doze
  <1> HIDE DEF a, p, f
  <1>3. CASE \E q, d : f.c \in Slots /\ m' = Push(Acting(a), [Frame("TTM", f.c, p, q) EXCEPT !.data = d])
    <2>1. PICK q, d : f.c \in Slots /\ m' = Push(Acting(a), [Frame("TTM", f.c, p, q) EXCEPT !.data = d])
      BY <1>3
    <2> DEFINE w == Acting(a)  g == [Frame("TTM", f.c, p, q) EXCEPT !.data = d]
    <2>2. Steady(w) /\ w.status = "running"
      BY <1>2, ActingRests
    <2>3. IsFrame(g) /\ g.proc = "TTM" /\ g.phase = 0 /\ g.a = f.c /\ g.b = p
      BY DEF Frame, IsFrame, Marks
    <2>4. m' = Push(w, g)
      BY <2>1
    <2> HIDE DEF w, g
    <2>5. Quiet(g) /\ ~BallFrame(g)
      BY <1>2, <2>1, <2>3, QuietFrame, LooseFrame
    <2> QED BY <2>2, <2>4, <2>5, SteadyQuiet, End
  <1>4. CASE m' = Err(a)
    <2>1. IsMatch(m') /\ SameBoard(a, m') /\ m'.status = "error"
      BY <1>2, <1>4 DEF Err, SameBoard, IsMatch, Fields, Board
    <2>2. Board(m')
      BY <1>2, <2>1, BoardAlike
    <2> QED BY <2>1, <2>2, ErrorStill
  <1> QED BY <1>1, <1>3, <1>4

(* Kept by everything in a move.                                           *)
LEMMA MoveStill ==
  ASSUME PitchInv, MoveNext
  PROVE  Still(m')
  BY JumpRushedStill, JumpLandedStill, BlockRushedStill, StepTestedStill, PickupTestedStill,
     ActionOverStill, StandUpTestedStill, MoveAskStill, EndActivationStill, StandUpStill,
     StepStill, JumpStill, BlockTargetStill, PassTargetStill, StabStill, AttackStill, GazeStill,
     HitAndRunStill, PickMateStill, ThrowTargetStill
     DEF MoveNext

(* ------------------------- thrown team-mates --------------------------- *)
(* Sequences joined,                                                       *)
LEMMA JoinedSeq ==
  ASSUME NEW X, NEW S \in Seq(X), NEW D \in Seq(X)
  PROVE  LET T == S \o D IN
         /\ T \in Seq(X) /\ Len(T) = Len(S) + Len(D)
         /\ \A i \in 1 .. Len(S) : T[i] = S[i]
         /\ \A i \in 1 .. Len(T) : i > Len(S) => T[i] = D[i - Len(S)]
  OBVIOUS

(* and stacks.                                                             *)
LEMMA JoinedStack ==
  ASSUME NEW S, IsStack(S), NEW D, IsStack(D)
  PROVE  LET T == S \o D IN
         /\ IsStack(T) /\ Len(T) = Len(S) + Len(D)
         /\ \A i \in 1 .. Len(S) : T[i] = S[i]
         /\ \A i \in 1 .. Len(T) : i > Len(S) => T[i] = D[i - Len(S)]
  <1> DEFINE X == {S[i] : i \in DOMAIN S}  Y == {D[i] : i \in DOMAIN D}
  <1>1. S \in Seq(X) /\ D \in Seq(Y)
    BY DEF IsStack
  <1> HIDE DEF X, Y
  <1>2. S \in Seq(X \cup Y) /\ D \in Seq(X \cup Y)
    BY <1>1
  <1>3. LET T == S \o D IN
        /\ T \in Seq(X \cup Y) /\ Len(T) = Len(S) + Len(D)
        /\ \A i \in 1 .. Len(S) : T[i] = S[i]
        /\ \A i \in 1 .. Len(T) : i > Len(S) => T[i] = D[i - Len(S)]
    BY <1>2, JoinedSeq
  <1>4. IsStack(S \o D)
    BY <1>3, StackByItself
  <1> QED BY <1>3, <1>4

(* Frames that need neither a die nor the ball may be pushed together.     *)
LEMMA SteadyJoin ==
  ASSUME NEW s, Steady(s), s.status # "error", NEW D, IsStack(D),
         \A i \in 1 .. Len(D) : Quiet(D[i]) /\ ~BallFrame(D[i]),
         NEW t, t = [s EXCEPT !.stack = @ \o D]
  PROVE  Steady(t) /\ Goes(s, t) /\ SameBoard(s, t)
  <1> DEFINE S == s.stack  T == t.stack
  <1>1. IsMatch(t) /\ SameBoard(s, t) /\ t.status = s.status /\ T = S \o D
    BY DEF SameBoard, Steady, Board, Fields, IsMatch
  <1>2. Board(t)
    BY <1>1, BoardAlike DEF Steady
  <1>3. IsStack(S) /\ Len(S) > 0 /\ Len(S) \in Nat /\ Len(D) \in Nat
    BY DEF Steady, Based, IsStack
  <1>4. /\ IsStack(T) /\ Len(T) = Len(S) + Len(D)
        /\ \A i \in 1 .. Len(S) : T[i] = S[i]
        /\ \A i \in 1 .. Len(T) : i > Len(S) => T[i] = D[i - Len(S)]
    BY <1>1, <1>3, JoinedStack
  <1> HIDE DEF T
  <1>5. \A i \in 1 .. Len(T) : \/ i \in 1 .. Len(S) /\ T[i] = S[i]
                               \/ i > Len(S) /\ Quiet(T[i]) /\ ~BallFrame(T[i])
    <2> TAKE i \in 1 .. Len(T)
    <2>1. CASE i > Len(S)
      <3>1. i - Len(S) \in 1 .. Len(D)
        BY <1>3, <1>4, <2>1
      <3> QED BY <1>4, <2>1, <3>1
    <2>2. CASE ~(i > Len(S))
      BY <1>3, <1>4, <2>2
    <2> QED BY <2>1, <2>2
  <1>6. RestTo(T, Len(T))
    BY <1>5 DEF Steady, RestTo, Quiet
  <1>7. (Opening(T) <=> Opening(S)) /\ ~Settling(T) /\ T[1] = S[1]
    <2>1. T[1] = S[1]
      BY <1>3, <1>4
    <2>2. CASE Len(S) > 1
      <3>1. T[2] = S[2] /\ Len(T) > 1
        BY <1>3, <1>4, <2>2, SMTT(30)
      <3> QED BY <2>1, <2>2, <3>1 DEF Steady, Based, Opening, Settling
    <2>3. CASE ~(Len(S) > 1)
      <3>1. ASSUME Len(T) > 1 PROVE T[2].proc \notin {"SETUP", "KICKOFF"}
        <4>1. 2 \in 1 .. Len(T) /\ 2 \notin 1 .. Len(S)
          BY <1>3, <1>4, <2>3, <3>1
        <4> QED BY <1>5, <4>1 DEF Quiet
      <3> QED BY <2>1, <2>3, <3>1 DEF Opening, Settling
    <2> QED BY <2>2, <2>3
  <1>8. \A i \in 1 .. Len(T) : FrameOk(T[i]) /\ (T[i].proc \in {"SETUP", "KICKOFF"} => i = 2)
    BY <1>5 DEF Steady, Based, Quiet
  <1>9. Opening(T) => Hushed(t) /\ \A i \in 1 .. Len(T) : ~BallFrame(T[i])
    BY <1>1, <1>5, <1>7 DEF Steady, Based, Hushed, SameBoard
  <1>10. Based(t)
    BY <1>3, <1>4, <1>7, <1>8, <1>9 DEF Steady, Based, T
  <1> QED BY <1>1, <1>2, <1>6, <1>7, <1>10 DEF Steady, Closed, Goes, T

(* Those the thrown player falls on go down with him.                      *)
LEMMA SteadyFelled ==
  ASSUME NEW s, Steady(s), s.status # "error", NEW mate \in Slots, NEW n \in Nat,
         NEW w \in [1 .. n -> {q \in Squares : ~Empty(s, q)}]
  PROVE  LET t == Felled(s, mate, w) IN
         Steady(t) /\ Goes(s, t) /\ SameBoard(s, t)
  <1> DEFINE D == [i \in DOMAIN w |-> [Frame("KNOCKDOWN", SlotAt(s, w[i]), 0, NoSq)
                                        EXCEPT !.k = "other", !.c = mate]]
             g(i) == [Frame("KNOCKDOWN", SlotAt(s, w[i]), 0, NoSq) EXCEPT !.k = "other", !.c = mate]
             t == Felled(s, mate, w)
  <1>1. \A i \in 1 .. n : SlotAt(s, w[i]) \in Slots
    BY GridSlots DEF Steady
  <1>2. ASSUME NEW i \in 1 .. n PROVE Quiet(g(i)) /\ ~BallFrame(g(i))
    <2> DEFINE f == g(i)
    <2>1. /\ IsFrame(f) /\ f.proc = "KNOCKDOWN" /\ f.phase = 0 /\ f.a = SlotAt(s, w[i])
          /\ f.c = mate
      BY DEF Frame, IsFrame, Marks
    <2> HIDE DEF f, g
    <2>2. Quiet(f) /\ ~BallFrame(f)
      BY <1>1, <2>1, QuietFrame, LooseFrame
    <2> QED BY <2>2 DEF f
  <1> DEFINE X == {g(i) : i \in 1 .. n}
  <1>3. D = [i \in 1 .. n |-> g(i)]
    OBVIOUS
  <1>4. \/ t = Err(s)
        \/ t = [s EXCEPT !.stack = @ \o D]
    BY DEF Felled
  <1> HIDE DEF t, D, g
  <1>5. D \in Seq(X) /\ Len(D) = n /\ \A i \in 1 .. n : D[i] = g(i)
    BY <1>3
  <1>6. IsStack(D)
    BY <1>5, StackByItself
  <1>7. \A i \in 1 .. Len(D) : Quiet(D[i]) /\ ~BallFrame(D[i])
    BY <1>2, <1>5
  <1>8. CASE t = Err(s)
    <2>1. IsMatch(t) /\ SameBoard(s, t) /\ t.status = "error"
      BY <1>8 DEF Err, SameBoard, IsMatch, Fields, Steady, Board
    <2>2. Board(t)
      BY <2>1, BoardAlike DEF Steady
    <2> QED BY <2>1, <2>2 DEF Steady, Goes, Closed, t
  <1>9. CASE t = [s EXCEPT !.stack = @ \o D]
    <2>1. Steady(t) /\ Goes(s, t) /\ SameBoard(s, t)
      BY <1>6, <1>7, <1>9, SteadyJoin
    <2> QED BY <2>1 DEF t
  <1> QED BY <1>4, <1>8, <1>9

(* A player picked up leaves the grid, and nothing else.                   *)
LEMMA SteadyLifted ==
  ASSUME NEW s, Steady(s), NEW p \in Slots
  PROVE  LET t == Lifted(s, p) IN
         /\ Steady(t) /\ Goes(s, t) /\ Kept(s, t) /\ t.has = s.has /\ t.ball = s.ball
         /\ t.at = s.at /\ t.loc = s.loc
  <1> DEFINE t == Lifted(s, p)
  <1>1. /\ IsMatch(t) /\ Kept(s, t) /\ t.has = s.has /\ t.ball = s.ball /\ t.at = s.at
        /\ t.loc = s.loc /\ t.grid = [s.grid EXCEPT ![s.at[p]] = NoPlayer]
    BY DEF Lifted, Steady, Board, IsMatch, Fields, Kept
  <1> HIDE DEF t
  <1>2. Typed(t) /\ IsBall(t.ball)
    BY <1>1 DEF Steady, Board, Typed
  <1>3. BallAgrees(t)
    BY <1>1 DEF Steady, Board, BallAgrees, OnPitch
  <1>4. Board(t)
    BY <1>1, <1>2, <1>3 DEF Board
  <1>5. Steady(t) /\ Goes(s, t)
    BY <1>1, <1>4, OnwardQuiet
  <1> QED BY <1>1, <1>5 DEF t

(* A player who has been moved away may be laid down.                      *)
LEMMA LaidDown ==
  ASSUME NEW s, NEW p, NEW q, NEW u, Away(s, p, q, u), NEW x
  PROVE  Away(s, p, q, [u EXCEPT !.stance[p] = x])
  <1> DEFINE v == [u EXCEPT !.stance[p] = x]
  <1>1. Mere(u, v)
    BY DEF Mere, Kept, SameBoard, IsMatch, Fields, Away
  <1> HIDE DEF v
  <1>2. Away(s, p, q, v)
    BY <1>1, AwayMere
  <1> QED BY <1>2 DEF v

(* Where the thrown player comes down: on his feet, with the ball he       *)
(* holds, or on the ground without it.                                     *)
LEMMA SteadyTouches ==
  ASSUME NEW l, Steady(l.s), NEW p \in Slots, l.q \in Squares, NEW dazed,
         NEW t \in Touches(l, p, dazed)
  PROVE  Steady(t) /\ Goes(l.s, t)
  <1> DEFINE s == l.s  u == Place(s, p, l.q)  v == [u EXCEPT !.stance[p] = "standing"]
             w == Carry(v, p)
  <1>1. t \in {KnockDown(w, p, "ttm", NoPlayer), CheckTd(w), w}
    BY DEF Touches
  <1>2. Away(s, p, l.q, u)
    BY PlaceAway DEF Steady
  <1> HIDE DEF u
  <1>3. Away(s, p, l.q, v)
    BY <1>2, LaidDown
  <1> HIDE DEF v
  <1>4. Steady(w) /\ Goes(s, w)
    BY <1>3, SteadyAway
  <1> HIDE DEF w
  <1> QED BY <1>1, <1>4, SteadyDown, SteadyTd, GoesOn

(* The ball of one who leaves the pitch is out of play until it is thrown  *)
(* in.                                                                     *)
LEMMA BoardLoose ==
  ASSUME NEW s, Board(s), NEW p \in s.has,
         NEW t, t = [s EXCEPT !.has = @ \ {p}, !.ball.carrier = NoPlayer, !.ball.state = "off"]
  PROVE  Board(t) /\ Kept(s, t) /\ t.has = {} /\ t.ball.state = "off"
  <1>1. /\ t.has = s.has \ {p} /\ t.loc = s.loc /\ t.at = s.at /\ t.grid = s.grid
        /\ t.ball = [s.ball EXCEPT !.carrier = NoPlayer, !.state = "off"]
        /\ IsMatch(t) /\ Kept(s, t)
    BY DEF Board, Fields, IsMatch, Kept
  <1>2. IsBall(t.ball) /\ t.ball.state = "off" /\ t.ball.carrier = NoPlayer
    BY <1>1 DEF Board, IsBall
  <1>3. t.has = {}
    BY <1>1 DEF Board, BallAgrees
  <1>4. Typed(t)
    BY <1>1 DEF Board, Typed
  <1>5. BallAgrees(t)
    BY <1>2, <1>3 DEF BallAgrees
  <1> QED BY <1>1, <1>2, <1>3, <1>4, <1>5 DEF Board

(* Who flies into the crowd leaves the ball to it.                         *)
LEMMA SteadyIntoCrowd ==
  ASSUME NEW s, Steady(s), NEW p \in Slots, NEW q
  PROVE  LET t == IntoCrowd(s, p, q) IN Steady(t) /\ Goes(s, t)
  <1> DEFINE t == MakeTurnover(s)
             loose == [t EXCEPT !.has = @ \ {p}, !.ball.carrier = NoPlayer, !.ball.state = "off"]
             in == IF p \in s.has THEN Push(loose, Frame("THROW_IN", 0, 0, Clamp(q))) ELSE t
             off == [in EXCEPT !.loc[p] = "reserves"]
             end == Push(off, Frame("INJURY", p, 1, NoSq))
  <1>1. IntoCrowd(s, p, q) = end
    BY DEF IntoCrowd
  <1>2. Steady(t) /\ Goes(s, t) /\ t.has = s.has
    BY SteadyTurnover DEF Mere, SameBoard
  <1> HIDE DEF t
  <1>3. Steady(in) /\ Goes(s, in) /\ p \notin in.has
    <2>1. CASE p \in s.has
      <3>1. Board(loose) /\ Kept(t, loose) /\ loose.has = {} /\ loose.ball.state = "off"
        BY <1>2, <2>1, BoardLoose DEF Steady
      <3>2. Closed(s) /\ Closed(t)
        BY <1>2, <2>1, LiveBall
      <3> HIDE DEF loose
      <3>3. Steady(loose) /\ Goes(t, loose)
        BY <1>2, <3>1, <3>2, Onward
      <3>4. Closed(loose)
        BY <3>2, <3>3 DEF Goes
      <3> DEFINE c == Clamp(q)
      <3>5. in = Push(loose, Frame("THROW_IN", 0, 0, c))
        BY <2>1
      <3> HIDE DEF c, in
      <3>6. Steady(in) /\ Goes(loose, in) /\ SameBoard(loose, in)
        BY <3>3, <3>4, <3>5, SteadyThrowIn
      <3> QED BY <1>2, <3>1, <3>3, <3>6, GoesOn DEF SameBoard
    <2>2. CASE p \notin s.has
      BY <1>2, <2>2
    <2> QED BY <2>1, <2>2
  <1> HIDE DEF in
  <1>4. Steady(off) /\ Goes(in, off)
    BY <1>3, SteadyLoc DEF Locations
  <1> HIDE DEF off
  <1>5. Steady(end) /\ Goes(off, end)
    <2> DEFINE f == Frame("INJURY", p, 1, NoSq)
    <2>1. IsFrame(f) /\ f.proc = "INJURY" /\ f.phase = 0 /\ f.a = p
      BY BareFrame
    <2> HIDE DEF f
    <2>2. Quiet(f) /\ ~BallFrame(f)
      BY <2>1, QuietFrame, LooseFrame
    <2> QED BY <1>4, <2>2, SteadyQuiet DEF f
  <1> HIDE DEF end
  <1> QED BY <1>1, <1>3, <1>4, <1>5, GoesOn

(* A player kicked rather than thrown, wherever he comes down,             *)
LEMMA KickedDownStill ==
  ASSUME NEW s, Steady(s), s.status = "running", NEW p \in Slots, NEW q,
         NEW t \in KickedDown(s, p, q)
  PROVE  Still(t)
  <1> DEFINE l == IF q \in Squares /\ Empty(s, q) THEN q ELSE s.at[p]
             u == Place(s, p, l)  down == PlaceProne(u, p)
             lost == TurnoverIf(down, TeamOf(p) = s.active)
             d == DropBall(lost)
             spilt == IF p \in s.has THEN Bounce(d, l) ELSE down
             f == Frame("CASUALTY", p, 0, NoSq)
  <1>1. t \in {Remove(spilt, p, "ko"), Push(spilt, f)}
    BY DEF KickedDown
  <1>2. l \in Squares
    BY AtSquare DEF Steady
  <1> HIDE DEF l
  <1>3. Away(s, p, l, u)
    BY <1>2, PlaceAway DEF Steady
  <1> HIDE DEF u
  <1>4. Away(s, p, l, down)
    BY <1>3, LaidDown DEF PlaceProne
  <1> HIDE DEF down
  <1>5. Away(s, p, l, lost)
    <2>1. IsMatch(down)
      BY <1>4 DEF Away
    <2>2. Mere(down, lost)
      BY <2>1 DEF TurnoverIf, MakeTurnover, Mere, Kept, SameBoard, IsMatch, Fields
    <2> HIDE DEF lost
    <2> QED BY <1>4, <2>2, AwayMere
  <1> HIDE DEF lost
  <1>6. Steady(spilt) /\ Goes(s, spilt) /\ p \notin spilt.has
    <2>1. CASE p \in s.has
      <3>1. Steady(d) /\ Goes(s, d) /\ d.has = {} /\ Closed(d)
        BY <1>2, <1>5, <2>1, SteadyAway
      <3> HIDE DEF d
      <3>2. spilt = Bounce(d, l)
        BY <2>1
      <3> HIDE DEF spilt
      <3>3. Steady(spilt) /\ Goes(d, spilt) /\ SameBoard(d, spilt)
        BY <3>1, <3>2, SteadyBounce
      <3> QED BY <3>1, <3>3, GoesOn DEF SameBoard
    <2>2. CASE p \notin s.has
      <3>1. spilt = down
        BY <2>2
      <3> HIDE DEF spilt
      <3> QED BY <1>2, <1>4, <2>2, <3>1, SteadyAway DEF Away
    <2> QED BY <2>1, <2>2
  <1> HIDE DEF spilt
  <1>7. CASE t = Remove(spilt, p, "ko")
    BY <1>6, <1>7, SteadyRemove, GoesOn, End DEF Locations
  <1>8. CASE t = Push(spilt, f)
    <2>1. IsFrame(f) /\ f.proc = "CASUALTY" /\ f.a = p
      BY BareFrame
    <2> HIDE DEF f
    <2>2. CASE spilt.status = "error"
      <3>1. Board(t) /\ t.status = "error"
        BY <1>6, <1>8, <2>2, PushCases, ZenonT(30) DEF Steady, Push, Board, IsMatch, Fields
      <3> QED BY <3>1, ErrorStill
    <2>3. CASE spilt.status # "error"
      BY <1>6, <1>8, <2>1, <2>3, NursePush
    <2> QED BY <2>2, <2>3
  <1> QED BY <1>1, <1>7, <1>8

(* and every flight of a thrown one.                                       *)
LEMMA FlightsStill ==
  ASSUME NEW s, Steady(s), s.status = "running", NEW f, f.a \in Slots, NEW fumble,
         NEW t \in Flights(s, f, fumble)
  PROVE  Still(t)
  <1> DEFINE p == f.a  dazed == ~Standing(s, p) \/ p \in s.distracted  air == Lifted(s, p)
             ends == IF fumble THEN Around(s.at[f.b]) ELSE Wander(Wander(Wander({f.sq})))
  <1>1. \/ \E q \in ends : t \in KickedDown(air, p, q)
        \/ \E l \in Landings(air, p, ends) :
             IF l.q \in Squares THEN t \in Touches(l, p, dazed) ELSE t = IntoCrowd(l.s, p, l.q)
    <2> DEFINE hit == fumble /\ "kick" \in f.data
    <2>1. t \in IF hit THEN UNION {KickedDown(air, p, q) : q \in ends}
                ELSE UNION {IF l.q \in Squares THEN Touches(l, p, dazed)
                            ELSE {IntoCrowd(l.s, p, l.q)} : l \in Landings(air, p, ends)}
      BY Zenon DEF Flights
    <2> HIDE DEF hit, p, air, ends, dazed
    <2>2. \/ t \in UNION {KickedDown(air, p, q) : q \in ends}
          \/ t \in UNION {IF l.q \in Squares THEN Touches(l, p, dazed)
                          ELSE {IntoCrowd(l.s, p, l.q)} : l \in Landings(air, p, ends)}
      BY <2>1
    <2> QED BY <2>2
  <1>2. Steady(air) /\ Goes(s, air) /\ air.status = "running"
    BY SteadyLifted DEF Kept
  <1> HIDE DEF air, ends, dazed
  <1>3. CASE \E q \in ends : t \in KickedDown(air, p, q)
    BY <1>2, <1>3, KickedDownStill
  <1>4. CASE \E l \in Landings(air, p, ends) :
               IF l.q \in Squares THEN t \in Touches(l, p, dazed) ELSE t = IntoCrowd(l.s, p, l.q)
    <2>1. PICK l \in Landings(air, p, ends) :
               IF l.q \in Squares THEN t \in Touches(l, p, dazed) ELSE t = IntoCrowd(l.s, p, l.q)
      BY <1>4
    <2>2. PICK w \in Tumbles(air, ends) : l.s = Felled(air, p, w)
      BY DEF Landings
    <2>3. \E n \in Nat : w \in [1 .. n -> {q \in Squares : ~Empty(air, q)}]
      BY DEF Tumbles
    <2>4. Steady(l.s) /\ Goes(air, l.s)
      BY <1>2, <2>2, <2>3, SteadyFelled
    <2>5. Steady(t) /\ Goes(l.s, t)
      BY <2>1, <2>4, SteadyTouches, SteadyIntoCrowd
    <2> QED BY <1>2, <2>4, <2>5, GoesOn, End
  <1> QED BY <1>1, <1>3, <1>4

(* A player who is eaten leaves the ball, which bounces.                   *)
LEMMA SteadyEaten ==
  ASSUME NEW s, Steady(s), NEW p \in Slots
  PROVE  LET t == Eaten(s, p) IN Steady(t) /\ Goes(s, t)
  <1> DEFINE d == IF p \in s.has THEN DropBall(s) ELSE s  r == Remove(d, p, "cas")
             gone == MakeTurnover(r)
  <1>1. Steady(d) /\ Goes(s, d) /\ p \notin d.has
    BY SteadyDrop DEF Goes
  <1> HIDE DEF d
  <1>2. Steady(r) /\ Goes(d, r)
    BY <1>1, SteadyRemove DEF Locations
  <1> HIDE DEF r
  <1>3. Steady(gone) /\ Goes(r, gone)
    BY <1>2, SteadyTurnover
  <1> HIDE DEF gone
  <1>4. Goes(s, gone)
    BY <1>1, <1>2, <1>3, GoesOn
  <1>5. CASE p \in s.has
    <2>1. Closed(gone)
      BY <1>4, <1>5, LiveBall DEF Goes
    <2>2. Eaten(s, p) = Bounce(gone, s.at[p])
      BY <1>5 DEF Eaten, gone, r, d
    <2> QED BY <1>3, <1>4, <2>1, <2>2, SteadyBounce, GoesOn
  <1>6. CASE p \notin s.has
    <2>1. Eaten(s, p) = gone
      BY <1>6 DEF Eaten, gone, r, d
    <2> QED BY <1>3, <1>4, <2>1
  <1> QED BY <1>5, <1>6

(* Kept by everything in Throw Team-mate.                                  *)
LEMMA TtmStill ==
  ASSUME PitchInv, Ttm
  PROVE  Still(m')
  <1> DEFINE f == Top(m)  s == Pop(m)
  <1>1. m.status = "running" /\ f.proc = "TTM" /\ Elsewhere(f)
    BY DEF Ttm, Runs, Elsewhere
  <1>2. \/ m' = Eaten(s, f.a)
        \/ \E fumble : m' \in Flights(s, f, fumble)
    BY Zenon DEF Ttm
  <1>3. FrameOk(f) /\ Steady(s) /\ Goes(m, s) /\ s.status = "running"
    BY <1>1, Begin DEF PitchInv
  <1>4. f.a \in Slots
    BY <1>1, <1>3 DEF FrameOk
  <1> HIDE DEF s, f
  <1>5. CASE m' = Eaten(s, f.a)
    BY <1>3, <1>4, <1>5, SteadyEaten, End
  <1>6. CASE \E fumble : m' \in Flights(s, f, fumble)
    BY <1>3, <1>4, <1>6, FlightsStill
  <1> QED BY <1>2, <1>5, <1>6

(* ------------------------------- setting up ---------------------------- *)
(* The frame of a setup or a kick-off is the second, and nobody has the    *)
(* ball while it is on top.                                                *)
LEMMA OpenTop ==
  ASSUME NEW s, Doze(s), Top(s).proc \in {"SETUP", "KICKOFF"}
  PROVE  /\ Len(s.stack) = 2 /\ Hushed(s) /\ s.has = {} /\ Top(s) = s.stack[2]
         /\ s.stack[1].proc \in {"TEAM_TURN", "MATCH"} /\ Top(s).a \in Teams
         /\ s.ball.state # "held" /\ s.ball.carrier = NoPlayer
         /\ Resting(Top(s)) /\ Steady(s)
  <1>1. IsStack(s.stack) /\ Len(s.stack) \in Nat /\ Len(s.stack) > 1
    BY DEF Doze, Based, IsStack
  <1>2. Len(s.stack) = 2
    <2>1. Len(s.stack) \in 1 .. Len(s.stack)
      BY <1>1
    <2>2. \A i \in 1 .. Len(s.stack) : s.stack[i].proc \in {"SETUP", "KICKOFF"} => i = 2
      BY DEF Doze, Based
    <2> QED BY <2>1, <2>2 DEF Top
  <1>3. Hushed(s) /\ s.stack[1].proc \in {"TEAM_TURN", "MATCH"} /\ FrameOk(Top(s))
    BY <1>2 DEF Doze, Based, Top, Opening
  <1>4. s.ball.state # "held" /\ s.ball.carrier = NoPlayer
    BY <1>3 DEF Doze, Board, BallAgrees, Hushed
  <1>5. Resting(Top(s))
    BY DEF Resting, Due
  <1> QED BY <1>2, <1>3, <1>4, <1>5, DozeRests DEF Hushed, FrameOk, Top

(* A setup or a kick-off may write in its frame while nobody has the ball. *)
LEMMA OpenEdit ==
  ASSUME NEW s, Doze(s), Top(s).proc \in {"SETUP", "KICKOFF"}, NEW t, NEW X,
         Edit(s, t, X), X \subseteq {"phase", "b", "sq", "data"}, t.status # "error",
         Top(s).proc = "KICKOFF" => Top(t).phase # 3
  PROVE  /\ Doze(t) /\ Steady(t) /\ SameBoard(s, t) /\ t.has = {} /\ Hushed(t)
         /\ Top(t).proc = Top(s).proc /\ Top(t).a = Top(s).a
  <1>1. /\ SameBoard(s, t) /\ IsFrame(Top(t)) /\ Top(t).proc = Top(s).proc /\ Top(t).a = Top(s).a
    BY DEF Edit, Alters, Marks
  <1>2. FrameOk(Top(t)) /\ ~BallFrame(Top(t))
    BY <1>1, OpenTop DEF FrameOk, IsFrame, BallFrame
  <1>3. Doze(t)
    BY <1>1, <1>2, DozeEdit
  <1> QED BY <1>1, <1>3, OpenTop

(* What the coaches do to the two sides leaves the ball where it is.        *)
Arranged(s, t) == Board(t) /\ Kept(s, t) /\ t.has = {} /\ t.ball = s.ball

(* Nothing done, and one thing after another, leave the ball where it is;  *)
LEMMA ArrangedOn ==
  ASSUME NEW s, Board(s), s.has = {}
  PROVE  /\ Arranged(s, s)
         /\ \A t, u : Arranged(s, t) /\ Arranged(t, u) => Arranged(s, u)
  BY DEF Arranged, Kept

(* and the frame on top to be dealt with.                                  *)
LEMMA ArrangedDoze ==
  ASSUME NEW s, Doze(s), Top(s).proc \in {"SETUP", "KICKOFF"}, NEW t, Arranged(s, t)
  PROVE  Doze(t) /\ Steady(t) /\ Top(t) = Top(s) /\ t.status = s.status
  <1>1. Hushed(s) /\ s.has = {} /\ Steady(s)
    BY OpenTop
  <1>2. Hushed(t)
    BY <1>1 DEF Hushed, Arranged
  <1>3. Doze(t) /\ Steady(t)
    BY <1>1, <1>2, DozeKept, SteadyKept DEF Arranged
  <1> QED BY <1>3 DEF Arranged, Kept, Top

(* With the ball in nobody's hands the board is a matter of its types.     *)
LEMMA ArrangedBoard ==
  ASSUME NEW s, Board(s), s.has = {}, NEW t, IsMatch(t), Kept(s, t), t.has = {},
         t.ball = s.ball, Typed(t)
  PROVE  Arranged(s, t)
  BY DEF Arranged, Board, BallAgrees

(* The members of a side are players.                                      *)
LEMMA SideSlots ==
  ASSUME NEW team \in Teams
  PROVE  Side(team) \subseteq Slots
  BY DEF Side, Slots, Teams, PitchAssumption

(* The parts of setup_autofix leave the ball alone: players put on         *)
(* squares,                                                                *)
LEMMA ArrangedSeated ==
  ASSUME NEW s, Board(s), s.has = {}, NEW P, P \subseteq Slots, NEW Q, Q \subseteq Squares, NEW way
  PROVE  Arranged(s, Seated(s, P, Q, way))
  <1> DEFINE going == {p \in P : Nth(Q, way, Rank(p, P)) # {}}
             seat == [p \in going |-> CHOOSE q \in Nth(Q, way, Rank(p, P)) : TRUE]
             taken == {seat[p] : p \in going}
             loc == [p \in Slots |-> IF p \in going THEN "pitch" ELSE s.loc[p]]
             at == [p \in Slots |-> IF p \in going THEN seat[p] ELSE s.at[p]]
             grid == [q \in Squares |-> IF q \in taken THEN CHOOSE p \in going : seat[p] = q
                                        ELSE IF s.grid[q] \in going THEN NoPlayer ELSE s.grid[q]]
             t == Seated(s, P, Q, way)
  <1>1. t = [s EXCEPT !.loc = loc, !.at = at, !.grid = grid]
    BY Zenon DEF Seated
  <1>2. going \subseteq Slots
    OBVIOUS
  <1>3. \A p \in going : seat[p] \in Squares
    <2> TAKE p \in going
    <2> DEFINE N == Nth(Q, way, Rank(p, P))
    <2>1. N # {} /\ N \subseteq Squares
      BY DEF Nth
    <2>2. seat[p] = CHOOSE q \in N : TRUE
      OBVIOUS
    <2> HIDE DEF N, seat
    <2> QED BY <2>1, <2>2
  <1> HIDE DEF going, seat
  <1>4. loc \in [Slots -> Locations]
    BY <1>2 DEF Board, Typed, Locations
  <1>5. at \in [Slots -> Squares]
    BY <1>3 DEF Board, Typed
  <1>6. grid \in [Squares -> Slots \cup {NoPlayer}]
    <2>1. ASSUME NEW q \in taken PROVE (CHOOSE p \in going : seat[p] = q) \in Slots
      <3>1. \E p \in going : seat[p] = q
        BY <2>1
      <3> QED BY <1>2, <3>1
    <2> HIDE DEF taken
    <2> QED BY <2>1 DEF Board, Typed
  <1> HIDE DEF loc, at, grid, t
  <1>7. /\ IsMatch(t) /\ Kept(s, t) /\ t.has = s.has /\ t.ball = s.ball
        /\ t.loc = loc /\ t.at = at /\ t.grid = grid
    BY <1>1 DEF Board, IsMatch, Fields, Kept
  <1>8. Typed(t)
    BY <1>4, <1>5, <1>6, <1>7 DEF Typed
  <1>9. Arranged(s, t)
    BY <1>7, <1>8, ArrangedBoard
  <1> QED BY <1>9 DEF t

(* those over the limit taken off,                                         *)
LEMMA ArrangedSurplus ==
  ASSUME NEW s, Board(s), s.has = {}, NEW team
  PROVE  Arranged(s, SurplusOff(s, team))
  <1> DEFINE off == {p \in OnSide(s, team) : Rank(p, OnSide(s, team)) >= Wanted(s, team)}
             loc == [p \in Slots |-> IF p \in off THEN "reserves" ELSE s.loc[p]]
             stance == [p \in Slots |-> IF p \in off THEN "standing" ELSE s.stance[p]]
             grid == [q \in Squares |-> IF s.grid[q] \in off THEN NoPlayer ELSE s.grid[q]]
             t == SurplusOff(s, team)
  <1>1. t = [s EXCEPT !.loc = loc, !.stance = stance, !.grid = grid, !.has = @ \ off]
    BY Zenon DEF SurplusOff
  <1> HIDE DEF off
  <1>2. loc \in [Slots -> Locations] /\ grid \in [Squares -> Slots \cup {NoPlayer}]
    BY DEF Board, Typed, Locations
  <1> HIDE DEF loc, grid, stance, t
  <1>3. /\ IsMatch(t) /\ Kept(s, t) /\ t.has = {} /\ t.ball = s.ball
        /\ t.loc = loc /\ t.at = s.at /\ t.grid = grid
    BY <1>1 DEF Board, IsMatch, Fields, Kept
  <1>4. Typed(t)
    BY <1>2, <1>3 DEF Board, Typed
  <1>5. Arranged(s, t)
    BY <1>3, <1>4, ArrangedBoard
  <1> QED BY <1>5 DEF t

(* the wide zones cleared, the line of scrimmage manned and the rest       *)
(* filled up,                                                              *)
LEMMA ArrangedParts ==
  ASSUME NEW s, Board(s), s.has = {}, NEW team \in Teams
  PROVE  /\ \A z : Arranged(s, WideCleared(s, team, z))
         /\ Arranged(s, LineManned(s, team)) /\ Arranged(s, FilledUp(s, team))
  <1> DEFINE C == Centre(s, team)
  <1>1. C \subseteq Squares /\ \A Q : Q \subseteq C => Q \subseteq Squares
    BY DEF Centre, Half
  <1>2. OnSide(s, team) \subseteq Slots /\ Reserves(s, team) \subseteq Slots
    BY SideSlots DEF OnSide, Reserves
  <1>3. ASSUME NEW z PROVE Arranged(s, WideCleared(s, team, z))
    <2> DEFINE P == {p \in Zone(s, team, z) : Rank(p, Zone(s, team, z)) >= WideMax}
    <2>1. P \subseteq Slots
      BY <1>2 DEF Zone
    <2>2. WideCleared(s, team, z) = Seated(s, P, C, 1)
      BY Zenon DEF WideCleared
    <2> HIDE DEF P, C
    <2> QED BY <1>1, <2>1, <2>2, ArrangedSeated
  <1>4. Arranged(s, LineManned(s, team))
    <2> DEFINE need == Least(LineMin, Cardinality(OnSide(s, team))) - Cardinality(Line(s, team))
               others == OnSide(s, team) \ Line(s, team)
               P == {p \in others : Rank(p, others) < need}
               Q == {q \in C : q[1] = LineX(team)}
    <2>1. P \subseteq Slots /\ Q \subseteq Squares
      BY <1>1, <1>2
    <2>2. LineManned(s, team) = Seated(s, P, Q, 1)
      BY Zenon DEF LineManned
    <2> HIDE DEF P, Q
    <2> QED BY <2>1, <2>2, ArrangedSeated
  <1>5. Arranged(s, FilledUp(s, team))
    <2> DEFINE need == Wanted(s, team) - Cardinality(OnSide(s, team))
               P == {p \in Reserves(s, team) : Rank(p, Reserves(s, team)) < need}
               way == IF team = 0 THEN -1 ELSE 1
    <2>1. P \subseteq Slots
      BY <1>2
    <2>2. FilledUp(s, team) = Seated(s, P, C, way)
      BY Zenon DEF FilledUp
    <2> HIDE DEF P, C, way
    <2> QED BY <1>1, <2>1, <2>2, ArrangedSeated
  <1> QED BY <1>3, <1>4, <1>5

(* in that order,                                                          *)
LEMMA ArrangedRepaired ==
  ASSUME NEW s, Board(s), s.has = {}, NEW team \in Teams
  PROVE  Arranged(s, Repaired(s, team))
  <1> DEFINE a == SurplusOff(s, team)  b == WideCleared(a, team, "top")
             c == WideCleared(b, team, "bottom")  d == LineManned(c, team)
             e == FilledUp(d, team)
  <1>1. Repaired(s, team) \in {s, e}
    BY Zenon DEF Repaired, Autofix
  <1>2. Arranged(s, a)
    BY ArrangedSurplus
  <1> HIDE DEF a
  <1>3. Arranged(s, b)
    <2>1. Arranged(a, b)
      BY <1>2, ArrangedParts DEF Arranged
    <2> QED BY <1>2, <2>1, ArrangedOn
  <1> HIDE DEF b
  <1>4. Arranged(s, c)
    <2>1. Arranged(b, c)
      BY <1>3, ArrangedParts DEF Arranged
    <2> QED BY <1>3, <2>1, ArrangedOn
  <1> HIDE DEF c
  <1>5. Arranged(s, d)
    <2>1. Arranged(c, d)
      BY <1>4, ArrangedParts DEF Arranged
    <2> QED BY <1>4, <2>1, ArrangedOn
  <1> HIDE DEF d
  <1>6. Arranged(s, e)
    <2>1. Arranged(d, e)
      BY <1>5, ArrangedParts DEF Arranged
    <2> QED BY <1>5, <2>1, ArrangedOn
  <1> HIDE DEF e
  <1> QED BY <1>1, <1>6, ArrangedOn

(* and the moves a coach makes.                                            *)
LEMMA ArrangedMoves ==
  ASSUME NEW s, Board(s), s.has = {}, NEW p \in Slots
  PROVE  /\ \A q \in Squares : Arranged(s, Place(s, p, q))
         /\ Arranged(s, Remove(s, p, "reserves"))
  <1>1. ASSUME NEW q \in Squares PROVE Arranged(s, Place(s, p, q))
    <2> DEFINE t == Place(s, p, q)
    <2>1. p \notin s.has
      BY Zenon
    <2>2. /\ Board(t) /\ Kept(s, t) /\ t.has = s.has /\ t.ball = s.ball
          /\ t.loc = [s.loc EXCEPT ![p] = "pitch"] /\ t.at = [s.at EXCEPT ![p] = q]
      BY <2>1, PlaceBoard
    <2> HIDE DEF t
    <2>3. Arranged(s, t)
      BY <2>2 DEF Arranged
    <2> QED BY <2>3 DEF t
  <1>2. Arranged(s, Remove(s, p, "reserves"))
    <2>1. "reserves" \in Locations
      BY DEF Locations
    <2>2. p \notin s.has
      BY Zenon
    <2> QED BY <2>1, <2>2, RemoveBoard DEF Arranged
  <1> QED BY <1>1, <1>2

(* What a handler of SETUP or of a KICKOFF begins with.                    *)
LEMMA OpenAsked ==
  ASSUME PitchInv, m.status = "decision" \/ m.status = "running",
         Top(m).proc \in {"SETUP", "KICKOFF"}, Top(m).proc = "KICKOFF" => Top(m).phase # 3
  PROVE  LET s == Answered(m) IN
         /\ Doze(m) /\ Steady(m) /\ Top(m).a \in Teams /\ m.has = {} /\ Hushed(m)
         /\ Doze(s) /\ Steady(s) /\ Top(s) = Top(m) /\ s.status = "running" /\ s.has = {}
  <1>1. Elsewhere(Top(m))
    BY DEF Elsewhere
  <1>2. Doze(m)
    BY <1>1, Begin DEF PitchInv
  <1>3. /\ Steady(m) /\ Top(m).a \in Teams /\ m.has = {} /\ Hushed(m)
    BY <1>2, OpenTop
  <1>4. Doze(Answered(m)) /\ Top(Answered(m)) = Top(m) /\ Answered(m).status = "running"
    BY <1>2, AnsweredDoze
  <1>5. Steady(Answered(m)) /\ Answered(m).has = {}
    BY <1>4, OpenTop
  <1> QED BY <1>2, <1>3, <1>4, <1>5

(* The side setting up is one of the two.                                  *)
LEMMA SetupTeamIn ==
  ASSUME Top(m).a \in Teams
  PROVE  SetupTeam \in Teams
  BY DEF SetupTeam, Teams

(* A coach's setup action is counted.                                      *)
LEMMA UsedOn ==
  ASSUME NEW s, Doze(s), Top(s).proc = "SETUP"
  PROVE  LET t == Used(s) IN
         Doze(t) /\ Top(t).proc = "SETUP" /\ t.status = s.status /\ t.has = {} /\ Board(t)
  <1> DEFINE f == [Top(s) EXCEPT !.b = @ + 1]  t == SetTop(s, f)
  <1>1. IsFrame(Top(s))
    BY TopOk DEF FrameOk, IsFrame
  <1>2. Alters(Top(s), f, {"b"})
    BY <1>1 DEF Alters, IsFrame, Marks
  <1>3. Used(s) = t
    BY DEF Doze, Board, IsMatch, Fields, Used, SetTop, Top
  <1> HIDE DEF f
  <1>4. Edit(s, t, {"b"}) /\ t.status = s.status
    BY <1>2, EditSet
  <1> HIDE DEF t
  <1>5. Doze(t) /\ Top(t).proc = "SETUP" /\ t.has = {}
    BY <1>4, OpenEdit DEF Doze
  <1> QED BY <1>3, <1>4, <1>5 DEF Doze

(* Kept by everything in a setup.                                          *)
LEMMA SetupStill ==
  ASSUME PitchInv, SetupNext
  PROVE  Still(m')
  <1> DEFINE a == Answered(m)  u == Used(m)
  <1>1. Top(m).proc = "SETUP" /\ (m.status = "running" \/ m.status = "decision")
    BY DEF SetupNext, SetupAsk, SetupPlace, SetupRemove, SetupDone, SettingUp
  <1>2. /\ Doze(m) /\ Steady(m) /\ Top(m).a \in Teams
        /\ Doze(a) /\ Steady(a) /\ Top(a) = Top(m) /\ a.status = "running" /\ a.has = {}
    BY <1>1, OpenAsked
  <1>3. SetupTeam \in Teams /\ Side(SetupTeam) \subseteq Slots
    BY <1>2, SetupTeamIn, SideSlots
  <1>4. Doze(u) /\ Top(u).proc = "SETUP" /\ u.status = m.status /\ u.has = {} /\ Board(u)
    BY <1>1, <1>2, UsedOn
  <1>5. CASE SetupAsk
    <2>1. \/ \E team : m' = Decide(m, team)
          \/ m' = Pop(m)
      BY <1>5 DEF SetupAsk
    <2>2. m.status = "running"
      BY <1>5 DEF SetupAsk
    <2> QED BY <1>1, <1>2, <2>1, <2>2, DecideStill, SteadyPop, End
  <1>6. CASE SetupPlace
    <2>1. PICK p \in Side(SetupTeam), q \in Half(SetupTeam) : m' = Answered(Place(u, p, q))
      BY <1>6, Zenon DEF SetupPlace
    <2>2. p \in Slots /\ q \in Squares
      BY <1>3, <2>1 DEF Half
    <2> DEFINE t == Place(u, p, q)
    <2>3. Arranged(u, t)
      BY <1>4, <2>2, ArrangedMoves
    <2> HIDE DEF t, u
    <2>4. Steady(t) /\ t.status # "error"
      BY <1>1, <1>4, <2>3, ArrangedDoze
    <2> QED BY <2>1, <2>4, AnswerStill DEF t
  <1>7. CASE SetupRemove
    <2>1. PICK p \in OnSide(m, SetupTeam) : m' = Answered(Remove(u, p, "reserves"))
      BY <1>7, Zenon DEF SetupRemove
    <2>2. p \in Slots
      BY <1>3, <2>1 DEF OnSide
    <2> DEFINE t == Remove(u, p, "reserves")
    <2>3. Arranged(u, t)
      BY <1>4, <2>2, ArrangedMoves
    <2> HIDE DEF t, u
    <2>4. Steady(t) /\ t.status # "error"
      BY <1>1, <1>4, <2>3, ArrangedDoze
    <2> QED BY <2>1, <2>4, AnswerStill DEF t
  <1>8. CASE SetupDone
    <2> DEFINE s == Repaired(a, SetupTeam)
               t == [s EXCEPT !.stack[Len(s.stack)].b = 0, !.stack[Len(s.stack)].phase = @ + 1]
    <2>1. m' = t
      BY <1>8, Zenon DEF SetupDone
    <2>2. Arranged(a, s)
      BY <1>2, <1>3, ArrangedRepaired DEF Doze
    <2> HIDE DEF s, a
    <2>3. Doze(s) /\ Top(s) = Top(m) /\ s.status = "running"
      BY <1>1, <1>2, <2>2, ArrangedDoze
    <2> DEFINE f == [Top(s) EXCEPT !.b = 0, !.phase = @ + 1]
    <2>4. Alters(Top(s), f, {"b", "phase"})
      <3>1. IsFrame(Top(s))
        BY <2>3, TopOk DEF FrameOk, IsFrame
      <3> QED BY <3>1 DEF Alters, IsFrame, Marks
    <2>5. t = SetTop(s, f)
      BY <2>3, ZenonT(30) DEF Doze, Board, IsMatch, Fields, SetTop, Top
    <2> HIDE DEF f, t
    <2>6. Edit(s, t, {"b", "phase"}) /\ t.status = "running"
      BY <2>3, <2>4, <2>5, EditSet
    <2>7. Steady(t)
      BY <1>1, <2>3, <2>6, OpenEdit
    <2> QED BY <2>1, <2>6, <2>7, SteadyStill
  <1> QED BY <1>5, <1>6, <1>7, <1>8 DEF SetupNext

(* ------------------------------- kicking off --------------------------- *)
(* The kick comes down: on a player, on an empty square, or out, for a     *)
(* touchback.                                                              *)
LEMMA KickLandsStill ==
  ASSUME NEW s, Doze(s), Top(s).proc = "KICKOFF"
  PROVE  Still(KickLands(s))
  <1> DEFINE on == Phase(s, 3)  q == s.ball.sq
  <1>1. \/ KickLands(s) = on
        \/ q \in Squares /\ ~Empty(s, q) /\ KickLands(s) = Push(on, Frame("CATCH", SlotAt(s, q), 0, NoSq))
        \/ KickLands(s) = Bounce(on, q)
    BY DEF KickLands, Misplaced
  <1>2. /\ Len(s.stack) = 2 /\ s.has = {} /\ Top(s) = s.stack[2] /\ Top(s).a \in Teams
        /\ s.stack[1].proc \in {"TEAM_TURN", "MATCH"}
    BY OpenTop
  <1>3. IsStack(s.stack) /\ FrameOk(s.stack[1]) /\ FrameOk(Top(s)) /\ Board(s) /\ s.status # "error"
    BY <1>2, TopOk DEF Doze, Based
  <1>4. /\ Board(on) /\ SameBoard(s, on) /\ on.status = s.status
        /\ IsStack(on.stack) /\ Len(on.stack) = 2 /\ on.stack[1] = s.stack[1]
        /\ Top(on).phase = 3 /\ Alters(Top(s), Top(on), {"phase"})
    <2>1. Len(s.stack) > 0 /\ 1 \in 1 .. Len(s.stack) - 1
      BY <1>2
    <2> HIDE DEF on
    <2>2. /\ Board(on) /\ SameBoard(s, on) /\ on.status = s.status
          /\ IsStack(on.stack) /\ Len(on.stack) = Len(s.stack)
          /\ \A i \in 1 .. Len(s.stack) - 1 : on.stack[i] = s.stack[i]
          /\ Top(on).phase = 3 /\ Alters(Top(s), Top(on), {"phase"})
      BY <1>3, <2>1, PhaseStack DEF on
    <2> QED BY <1>2, <2>1, <2>2
  <1> HIDE DEF on
  <1>5. Top(on) = on.stack[2] /\ Top(on).proc = "KICKOFF" /\ FrameOk(Top(on))
    <2>1. Alters(Top(s), Top(on), {"phase", "data"})
      BY <1>4 DEF Alters
    <2> QED BY <1>3, <1>4, <2>1, FrameAlters DEF Top
  <1>6. Settles(on)
    <2>1. \A i \in 1 .. 2 : FrameOk(on.stack[i])
      BY <1>3, <1>4, <1>5
    <2> QED BY <1>2, <1>4, <1>5, <2>1 DEF Settles, Settling
  <1>7. Bare(on) /\ on.has = {}
    BY <1>2, <1>3, <1>4, <1>6 DEF Bare, SameBoard
  <1>8. CASE KickLands(s) = on
    BY <1>7, <1>8, BareStill
  <1>9. CASE q \in Squares /\ ~Empty(s, q) /\ KickLands(s) = Push(on, Frame("CATCH", SlotAt(s, q), 0, NoSq))
    <2>1. SlotAt(s, q) \in Slots
      BY <1>3, <1>9, GridSlots
    <2> QED BY <1>7, <1>9, <2>1, BareCatch
  <1>10. CASE KickLands(s) = Bounce(on, q)
    BY <1>7, <1>10, BareBounce
  <1> QED BY <1>1, <1>8, <1>9, <1>10

(* The ball still hangs in the air, or is out of play.                     *)
Hangs(s, t) == Board(t) /\ Kept(s, t) /\ Hushed(t)

(* The kick-off's frame is still to be dealt with;                         *)
LEMMA HangsDoze ==
  ASSUME NEW s, Doze(s), Top(s).proc = "KICKOFF", NEW t, Hangs(s, t)
  PROVE  Doze(t) /\ Steady(t) /\ Top(t) = Top(s) /\ t.status = s.status
  <1>1. Doze(t)
    BY DozeKept DEF Hangs
  <1>2. Top(t) = Top(s) /\ t.status = s.status
    BY DEF Hangs, Kept, Top
  <1> QED BY <1>1, <1>2, OpenTop

(* what leaves the board alone keeps the ball up,                          *)
LEMMA HangsMere ==
  ASSUME NEW s, Board(s), Hushed(s), NEW t, Mere(s, t)
  PROVE  Hangs(s, t)
  BY BoardAlike DEF Mere, Hangs, Hushed, SameBoard

(* and so does one thing after another.                                    *)
LEMMA HangsOn ==
  ASSUME NEW s, NEW t, Hangs(s, t), NEW u, Hangs(t, u)
  PROVE  Hangs(s, u)
  BY DEF Hangs, Kept

(* The ball may be blown about for as long as it is in the air.            *)
LEMMA HangsBlown ==
  ASSUME NEW s, Board(s), Hushed(s), NEW q, NEW t, t = [s EXCEPT !.ball.sq = q]
  PROVE  Hangs(s, t)
  <1>1. /\ t.has = {} /\ t.loc = s.loc /\ t.at = s.at /\ t.grid = s.grid
        /\ t.ball = [s.ball EXCEPT !.sq = q] /\ IsMatch(t) /\ Kept(s, t)
    BY DEF Board, Fields, IsMatch, Kept, Hushed
  <1>2. IsBall(t.ball) /\ t.ball.state = s.ball.state /\ t.ball.carrier = s.ball.carrier
    BY <1>1, BallMoved DEF Board
  <1>3. t.ball.state # "ground" /\ t.ball.state # "held" /\ t.ball.carrier = NoPlayer
    BY <1>2 DEF Hushed, Board, BallAgrees
  <1>4. Typed(t)
    BY <1>1 DEF Board, Typed
  <1>5. BallAgrees(t)
    BY <1>1, <1>3 DEF BallAgrees
  <1> QED BY <1>1, <1>2, <1>3, <1>4, <1>5 DEF Hangs, Board, Hushed

(* The kick itself puts the ball in the air.                               *)
LEMMA HangsKicked ==
  ASSUME NEW s, Board(s), Hushed(s), NEW q,
         NEW t, t = [s EXCEPT !.ball.state = "air", !.ball.sq = q]
  PROVE  Hangs(s, t)
  <1>1. /\ t.has = {} /\ t.loc = s.loc /\ t.at = s.at /\ t.grid = s.grid
        /\ t.ball = [s.ball EXCEPT !.state = "air", !.sq = q] /\ IsMatch(t) /\ Kept(s, t)
    BY DEF Board, Fields, IsMatch, Kept, Hushed
  <1>2. IsBall(t.ball) /\ t.ball.state = "air" /\ t.ball.carrier = NoPlayer
    BY <1>1 DEF IsBall, Hushed, Board, BallAgrees
  <1>4. Typed(t)
    BY <1>1 DEF Board, Typed
  <1>5. BallAgrees(t)
    BY <1>1, <1>2 DEF BallAgrees
  <1> QED BY <1>1, <1>2, <1>4, <1>5 DEF Hangs, Board, Hushed

(* The events of the kick-off keep it up: Changing Weather,                *)
LEMMA GustHangs ==
  ASSUME NEW s, Board(s), Hushed(s), NEW t \in Gust(s)
  PROVE  Hangs(s, t)
  <1> DEFINE blown(u) == {[u EXCEPT !.ball.sq = Byte(q)] : q \in Around(u.ball.sq)}
             on(ts) == UNION {IF Misplaced(u, Top(s).a) THEN {u} ELSE blown(u) : u \in ts}
  <1>1. t \in on(on(blown(s)))
    BY Zenon DEF Gust
  <1>2. \A u : Board(u) /\ Hushed(u) => \A v \in blown(u) : Hangs(u, v)
    BY HangsBlown
  <1>3. \A u \in blown(s) : Hangs(s, u)
    BY <1>2
  <1> HIDE DEF blown
  <1>4. ASSUME NEW ts, \A u \in ts : Hangs(s, u)
        PROVE  \A v \in on(ts) : Hangs(s, v)
    <2> TAKE v \in on(ts)
    <2>1. PICK u \in ts : v \in IF Misplaced(u, Top(s).a) THEN {u} ELSE blown(u)
      OBVIOUS
    <2>2. Hangs(s, u) /\ Board(u) /\ Hushed(u)
      BY <1>4 DEF Hangs
    <2>3. v = u \/ v \in blown(u)
      BY <2>1
    <2> QED BY <1>2, <2>2, <2>3, HangsOn
  <1> HIDE DEF on
  <1>5. \A v \in on(on(blown(s))) : Hangs(s, v)
    BY <1>3, <1>4
  <1> QED BY <1>1, <1>5

(* Dodgy Snack,                                                            *)
LEMMA SnackedHangs ==
  ASSUME NEW s, Board(s), Hushed(s), NEW team \in Teams, NEW t \in Snacked(s, team)
  PROVE  Hangs(s, t)
  <1>1. \/ t = s
        \/ \E p \in OnSide(s, team) : \/ t = [s EXCEPT !.ma[p] = IF @ > 1 THEN @ - 1 ELSE @]
                                      \/ t = Remove(s, p, "reserves")
    BY DEF Snacked
  <1>2. CASE t = s
    BY <1>2 DEF Hangs, Kept
  <1>3. ASSUME NEW p \in OnSide(s, team), t = [s EXCEPT !.ma[p] = IF @ > 1 THEN @ - 1 ELSE @]
        PROVE  Hangs(s, t)
    <2>1. Mere(s, t)
      BY <1>3 DEF Mere, Kept, SameBoard, IsMatch, Fields, Board
    <2> QED BY <2>1, HangsMere
  <1>4. ASSUME NEW p \in OnSide(s, team), t = Remove(s, p, "reserves")
        PROVE  Hangs(s, t)
    <2>1. p \in Slots
      BY SideSlots DEF OnSide
    <2>2. Arranged(s, t)
      BY <1>4, <2>1, ArrangedMoves DEF Hushed
    <2> QED BY <2>2 DEF Hangs, Arranged, Hushed
  <1> QED BY <1>1, <1>2, <1>3, <1>4

(* and the others that no coach is asked about.                            *)
LEMMA EventHangs ==
  ASSUME NEW s, Board(s), Hushed(s), NEW t \in QuietEvents(s)
  PROVE  Hangs(s, t)
  <1> DEFINE invaded == UNION {Invaded(s, ts) : ts \in {{0}, {1}, Teams}}
             gusty == IF Misplaced(s, Top(s).a) THEN {} ELSE Gust(s)
             bribed == {[s EXCEPT !.bribes = [x \in Teams |-> @[x] + 1]]}
             cheered == {[s EXCEPT !.cheer = @ \cup ts] : ts \in {{0}, {1}, Teams}}
             both == UNION {Snacked(u, 1) : u \in Snacked(s, 0)}
  <1>a. QuietEvents(s) = {s} \cup invaded \cup gusty \cup bribed \cup cheered
                           \cup Snacked(s, 0) \cup Snacked(s, 1) \cup both
    BY Zenon DEF QuietEvents
  <1>b. t \in invaded => \E ts : t \in Invaded(s, ts)
    OBVIOUS
  <1>c. t \in gusty => t \in Gust(s)
    OBVIOUS
  <1>d. t \in bribed => \E b : t = [s EXCEPT !.bribes = b]
    BY Zenon
  <1>e. t \in cheered => \E c : t = [s EXCEPT !.cheer = c]
    BY Zenon
  <1>f. t \in both => \E u \in Snacked(s, 0) : t \in Snacked(u, 1)
    OBVIOUS
  <1> HIDE DEF invaded, gusty, bribed, cheered, both
  <1>1. \/ t = s
        \/ \E ts : t \in Invaded(s, ts)
        \/ t \in Gust(s)
        \/ \E b : t = [s EXCEPT !.bribes = b]
        \/ \E c : t = [s EXCEPT !.cheer = c]
        \/ t \in Snacked(s, 0)
        \/ t \in Snacked(s, 1)
        \/ \E u \in Snacked(s, 0) : t \in Snacked(u, 1)
    BY <1>a, <1>b, <1>c, <1>d, <1>e, <1>f
  <1>2. 0 \in Teams /\ 1 \in Teams
    BY DEF Teams
  <1>3. CASE t = s
    BY <1>3 DEF Hangs, Kept
  <1>4. ASSUME NEW ts, t \in Invaded(s, ts) PROVE Hangs(s, t)
    <2>1. \E x : t = [s EXCEPT !.stance = x]
      BY <1>4 DEF Invaded, Stun
    <2>2. Mere(s, t)
      BY <2>1 DEF Mere, Kept, SameBoard, IsMatch, Fields, Board
    <2> QED BY <2>2, HangsMere
  <1>5. CASE t \in Gust(s)
    BY <1>5, GustHangs
  <1>6. CASE \/ \E b : t = [s EXCEPT !.bribes = b]
             \/ \E c : t = [s EXCEPT !.cheer = c]
    <2>1. Mere(s, t)
      BY <1>6 DEF Mere, Kept, SameBoard, IsMatch, Fields, Board
    <2> QED BY <2>1, HangsMere
  <1>7. CASE t \in Snacked(s, 0) \/ t \in Snacked(s, 1)
    BY <1>2, <1>7, SnackedHangs
  <1>8. ASSUME NEW u \in Snacked(s, 0), t \in Snacked(u, 1) PROVE Hangs(s, t)
    <2>1. Hangs(s, u)
      BY <1>2, SnackedHangs
    <2>2. Hangs(u, t)
      BY <1>2, <1>8, <2>1, SnackedHangs DEF Hangs
    <2> QED BY <2>1, <2>2, HangsOn
  <1> QED BY <1>1, <1>3, <1>4, <1>5, <1>6, <1>7, <1>8

(* What a handler of the KICKOFF begins with, before the ball is down.     *)
LEMMA KickRuns ==
  ASSUME PitchInv, NEW n, n # 3, Runs("KICKOFF", n) \/ Asks("KICKOFF", n)
  PROVE  LET s == Answered(m) IN
         /\ Top(m).proc = "KICKOFF" /\ m.status # "error"
         /\ Doze(m) /\ Steady(m) /\ Top(m).a \in Teams /\ m.has = {} /\ Hushed(m)
         /\ Doze(s) /\ Steady(s) /\ Top(s) = Top(m) /\ s.status = "running" /\ s.has = {}
         /\ Kicker \in Teams /\ Receiver \in Teams
         /\ Side(Kicker) \subseteq Slots /\ Side(Receiver) \subseteq Slots
  <1>1. Top(m).proc = "KICKOFF" /\ (m.status = "running" \/ m.status = "decision") /\ Top(m).phase # 3
    BY DEF Runs, Asks
  <1>2. Top(m).a \in Teams => Kicker \in Teams /\ Receiver \in Teams
    BY DEF Kicker, Receiver, Teams
  <1> QED BY <1>1, <1>2, OpenAsked, SideSlots

(* The kick deviates in the air.                                           *)
LEMMA DeviationHangs ==
  ASSUME NEW s, Board(s), Hushed(s), NEW t \in Deviations(s)
  PROVE  Hangs(s, t)
  <1> DEFINE most == IF \E p \in OnSide(s, Top(s).a) : Has(s, p, "KICK")
                     THEN 0 .. FarthestKick \div 2 ELSE 1 .. FarthestKick
  <1>1. Deviations(s) = {InAir(s, Byte(Along(Top(s).sq, d, n))) : d \in Dirs, n \in most}
    BY DEF Deviations
  <1> HIDE DEF most
  <1>2. PICK q : t = InAir(s, q)
    BY <1>1
  <1> QED BY <1>2, HangsKicked DEF InAir

(* The kick's target and next phase leave nothing open.                    *)
LEMMA AimedSteady ==
  ASSUME NEW s, Doze(s), Top(s).proc = "KICKOFF", NEW n, n # 3, NEW q
  PROVE  LET t == Phase(Aim(s, q), n) IN
         Steady(t) /\ t.status = s.status /\ Top(t).proc = "KICKOFF"
  <1> DEFINE b == Aim(s, q)  t == Phase(b, n)
  <1>2. Edit(s, b, {"sq"}) /\ b.status = s.status
    BY EditAim
  <1> HIDE DEF b
  <1>3. Top(s).phase # 3
    <2>1. Len(s.stack) = 2 /\ Top(s) = s.stack[2] /\ ~Settling(s.stack)
      BY OpenTop DEF Doze, Based
    <2> QED BY <2>1 DEF Settling
  <1>4. Doze(b) /\ Top(b).proc = "KICKOFF"
    <2>1. Top(b).phase = Top(s).phase
      BY <1>2 DEF Edit, Alters, Marks
    <2>2. b.status # "error"
      BY <1>2 DEF Doze
    <2> QED BY <1>2, <1>3, <2>1, <2>2, OpenEdit
  <1>5. Edit(b, t, {"phase"}) /\ Top(t).phase = n /\ t.status = b.status
    BY <1>4, EditPhase
  <1> HIDE DEF t
  <1>6. Steady(t) /\ Top(t).proc = "KICKOFF"
    BY <1>4, <1>5, OpenEdit DEF Doze
  <1> QED BY <1>2, <1>5, <1>6 DEF t, b

(* A coach is asked what to do in the window an event opens, or there is   *)
(* none.                                                                   *)
LEMMA WindowStill ==
  ASSUME NEW s, Doze(s), Top(s).proc = "KICKOFF", NEW n, n # 3, NEW x, NEW y, NEW team
  PROVE  Still(Window(s, n, x, y, team))
  <1> DEFINE t == Phase(Aim(s, <<x, y>>), n)
  <1>1. Window(s, n, x, y, team) = Decide(t, team)
    BY DEF Window, Budgets, Aim
  <1>2. Steady(t) /\ t.status # "error" /\ Top(t).proc = "KICKOFF"
    BY AimedSteady DEF Doze
  <1> HIDE DEF t
  <1> QED BY <1>1, <1>2, DecideStill

(* Kept by the kick.                                                       *)
LEMMA KickOffStill ==
  ASSUME PitchInv, KickOff
  PROVE  Still(m')
  <1>1. Runs("KICKOFF", 1)
    BY DEF KickOff
  <1>2. Top(m).proc = "KICKOFF" /\ Doze(m) /\ Hushed(m) /\ Board(m) /\ m.status = "running"
    <2>1. Top(m).proc = "KICKOFF" /\ Doze(m) /\ Hushed(m)
      BY <1>1, KickRuns
    <2> QED BY <1>1, <2>1 DEF Doze, Runs
  <1>3. PICK s \in Deviations(m) :
       \/ \E t \in QuietEvents(s) : m' = KickLands(t)
       \/ m' = Decide(Phase(s, 4), Receiver)
       \/ \E n \in 4 .. 6 :
            \/ m' = Window(s, 5, n, SetupBudget, Kicker)
            \/ m' = Window(s, 6, n, 0, Receiver)
            \/ m' = [Window(s, 7, n, 0, Kicker) EXCEPT !.active = Kicker]
    BY Zenon DEF KickOff
  <1>4. Hangs(m, s) /\ Board(s) /\ Hushed(s)
    BY <1>2, DeviationHangs DEF Hangs
  <1>5. Doze(s) /\ Top(s).proc = "KICKOFF" /\ s.status = "running" /\ Top(s) = Top(m)
    BY <1>2, <1>4, HangsDoze
  <1>6. ASSUME NEW t \in QuietEvents(s), m' = KickLands(t)
        PROVE  Still(m')
    <2>1. Doze(t) /\ Top(t).proc = "KICKOFF"
      BY <1>4, <1>5, EventHangs, HangsDoze
    <2> QED BY <1>6, <2>1, KickLandsStill
  <1>7. CASE m' = Decide(Phase(s, 4), Receiver)
    <2> DEFINE t == Phase(s, 4)
    <2>1. Edit(s, t, {"phase"}) /\ Top(t).phase = 4 /\ t.status = s.status
      BY <1>5, EditPhase
    <2> HIDE DEF t
    <2>2. Steady(t) /\ Top(t).proc = "KICKOFF" /\ t.status # "error"
      BY <1>5, <2>1, OpenEdit
    <2>3. Still(Decide(t, Receiver))
      BY <2>2, DecideStill
    <2> QED BY <1>7, <2>3 DEF t
  <1>8. ASSUME NEW n, m' = Window(s, 5, n, SetupBudget, Kicker) \/ m' = Window(s, 6, n, 0, Receiver)
        PROVE  Still(m')
    BY <1>5, <1>8, WindowStill
  <1>9. ASSUME NEW n, m' = [Window(s, 7, n, 0, Kicker) EXCEPT !.active = Kicker]
        PROVE  Still(m')
    <2> DEFINE t == Phase(Aim(s, <<n, 0>>), 7)  u == [t EXCEPT !.active = Kicker]
    <2>1. Steady(t) /\ t.status = "running" /\ Top(t).proc = "KICKOFF"
      BY <1>5, AimedSteady
    <2> HIDE DEF t
    <2>2. Mere(t, u)
      BY <2>1 DEF Mere, Kept, SameBoard, Steady, Board, IsMatch, Fields
    <2>3. m' = Decide(u, Kicker)
      BY <1>9, <2>1 DEF Window, Budgets, Aim, t, Decide, Steady, Board, IsMatch, Fields
    <2> HIDE DEF u
    <2>4. Steady(u) /\ u.status = "running" /\ Top(u).proc = "KICKOFF"
      BY <2>1, <2>2, SteadyMere DEF Mere, Kept, Top
    <2> QED BY <2>3, <2>4, DecideStill
  <1> QED BY <1>3, <1>6, <1>7, <1>8, <1>9

(* Kept by the coaches asked for a target and in a window.                 *)
LEMMA KickAskStill ==
  ASSUME PitchInv, KickAsk \/ KickTarget \/ WindowAsk
  PROVE  Still(m')
  <1>1. CASE KickAsk \/ WindowAsk
    <2>1. PICK n : n # 3 /\ Runs("KICKOFF", n)
      BY <1>1 DEF KickAsk, WindowAsk
    <2>2. \E team : m' = Decide(m, team)
      BY <1>1 DEF KickAsk, WindowAsk
    <2>3. Steady(m) /\ m.status # "error" /\ Top(m).proc = "KICKOFF"
      BY <2>1, KickRuns
    <2> QED BY <2>2, <2>3, DecideStill
  <1>2. CASE KickTarget
    <2>1. Asks("KICKOFF", 0)
      BY <1>2 DEF KickTarget
    <2>2. PICK q : m' = Answered(Phase(Aim(m, q), 1))
      BY <1>2, Zenon DEF KickTarget
    <2>3. Top(m).proc = "KICKOFF" /\ Doze(m)
      BY <2>1, KickRuns
    <2> DEFINE t == Phase(Aim(m, q), 1)
    <2>4. Steady(t) /\ t.status # "error"
      BY <2>3, AimedSteady DEF Doze
    <2> HIDE DEF t
    <2>5. Still(Answered(t))
      BY <2>4, AnswerStill
    <2> QED BY <2>2, <2>5 DEF t
  <1> QED BY <1>1, <1>2

(* Kept by High Kick.                                                      *)
LEMMA HighKickStill ==
  ASSUME PitchInv, HighKick
  PROVE  Still(m')
  <1> DEFINE s == Answered(m)
  <1>1. Asks("KICKOFF", 4)
    BY DEF HighKick
  <1>2. Top(s).proc = "KICKOFF" /\ Doze(s) /\ s.has = {} /\ Side(Receiver) \subseteq Slots
    BY <1>1, KickRuns
  <1>3. \/ m' = KickLands(s)
        \/ \E q \in Squares, p \in Side(Receiver) : m' = KickLands(Place(s, p, q))
    BY Zenon DEF HighKick
  <1> HIDE DEF s
  <1>4. ASSUME NEW q \in Squares, NEW p \in Side(Receiver), m' = KickLands(Place(s, p, q))
        PROVE  Still(m')
    <2> DEFINE t == Place(s, p, q)
    <2>1. Arranged(s, t)
      BY <1>2, ArrangedMoves DEF Doze
    <2> HIDE DEF t
    <2>2. Doze(t) /\ Top(t).proc = "KICKOFF"
      BY <1>2, <2>1, ArrangedDoze
    <2>3. Still(KickLands(t))
      BY <2>2, KickLandsStill
    <2> QED BY <1>4, <2>3 DEF t
  <1> QED BY <1>2, <1>3, <1>4, KickLandsStill

(* A player used in Solid Defence or Quick Snap is noted.                  *)
LEMMA SpendOn ==
  ASSUME NEW s, Doze(s), Top(s).proc = "KICKOFF", NEW p
  PROVE  LET t == Spend(s, p) IN
         Doze(t) /\ Top(t).proc = "KICKOFF" /\ t.status = s.status /\ t.has = {} /\ Board(t)
  <1> DEFINE u == Mark(s, {p})
  <1>1. PICK q : Spend(s, p) = Aim(u, q)
    BY Zenon DEF Spend
  <1> DEFINE t == Aim(u, q)
  <1>2. Top(s).phase # 3
    <2>1. Len(s.stack) = 2 /\ Top(s) = s.stack[2] /\ ~Settling(s.stack)
      BY OpenTop DEF Doze, Based
    <2> QED BY <2>1 DEF Settling
  <1>3. Edit(s, u, {"data"}) /\ u.status = s.status
    BY EditMark
  <1> HIDE DEF u
  <1>4. Doze(u) /\ Top(u).proc = "KICKOFF" /\ Top(u).phase # 3
    <2>1. Top(u).phase = Top(s).phase /\ u.status # "error"
      BY <1>3 DEF Edit, Alters, Marks, Doze
    <2> QED BY <1>2, <1>3, <2>1, OpenEdit
  <1>5. Edit(u, t, {"sq"}) /\ t.status = u.status
    BY <1>4, EditAim
  <1> HIDE DEF t
  <1>6. Doze(t) /\ Top(t).proc = "KICKOFF" /\ t.has = {}
    <2>1. Top(t).phase = Top(u).phase /\ t.status # "error"
      BY <1>4, <1>5 DEF Edit, Alters, Marks, Doze
    <2> QED BY <1>4, <1>5, <2>1, OpenEdit
  <1> QED BY <1>1, <1>3, <1>5, <1>6 DEF t, Doze

(* Whom he is used to place or take off has not got the ball.              *)
LEMMA SpentStill ==
  ASSUME PitchInv, NEW n, n # 3, Asks("KICKOFF", n), NEW r, NEW p \in Slots
  PROVE  LET u == Spend(m, r) IN
         /\ \A q \in Squares : Still(Answered(Place(u, p, q)))
         /\ Still(Answered(Remove(u, p, "reserves")))
  <1> DEFINE u == Spend(m, r)
  <1>1. Top(m).proc = "KICKOFF" /\ Doze(m) /\ m.status # "error"
    BY KickRuns
  <1>2. Doze(u) /\ Top(u).proc = "KICKOFF" /\ u.status # "error" /\ u.has = {} /\ Board(u)
    BY <1>1, SpendOn
  <1> HIDE DEF u
  <1>3. ASSUME NEW t, Arranged(u, t)
        PROVE  Still(Answered(t))
    <2>1. Steady(t) /\ t.status # "error"
      BY <1>2, <1>3, ArrangedDoze
    <2> QED BY <2>1, AnswerStill
  <1>4. Still(Answered(Remove(u, p, "reserves")))
    BY <1>2, <1>3, ArrangedMoves
  <1>5. ASSUME NEW q \in Squares PROVE Still(Answered(Place(u, p, q)))
    BY <1>2, <1>3, ArrangedMoves
  <1> QED BY <1>4, <1>5 DEF u

(* Kept by Solid Defence.                                                  *)
LEMMA SolidDefenceStill ==
  ASSUME PitchInv, SolidDefence
  PROVE  Still(m')
  <1>1. Asks("KICKOFF", 5)
    BY DEF SolidDefence
  <1>2. Side(Kicker) \subseteq Slots
    BY <1>1, KickRuns
  <1>3. \E p \in Side(Kicker) : \/ m' = Answered(Remove(Spend(m, p), p, "reserves"))
                                \/ \E q \in Half(Kicker) : m' = Answered(Place(Spend(m, p), p, q))
    BY Zenon DEF SolidDefence
  <1>4. Half(Kicker) \subseteq Squares
    BY DEF Half
  <1> QED BY <1>1, <1>2, <1>3, <1>4, SpentStill

(* Kept by its end.                                                        *)
LEMMA SolidDoneStill ==
  ASSUME PitchInv, SolidDone
  PROVE  Still(m')
  <1> DEFINE s == Answered(m)  t == Repaired(s, Kicker)
  <1>1. Asks("KICKOFF", 5)
    BY DEF SolidDone
  <1>2. Top(s).proc = "KICKOFF" /\ Doze(s) /\ s.has = {} /\ Kicker \in Teams
    BY <1>1, KickRuns
  <1>3. m' = KickLands(t)
    BY Zenon DEF SolidDone
  <1> HIDE DEF s
  <1>4. Arranged(s, t)
    BY <1>2, ArrangedRepaired DEF Doze
  <1> HIDE DEF t
  <1>5. Doze(t) /\ Top(t).proc = "KICKOFF"
    BY <1>2, <1>4, ArrangedDoze
  <1> QED BY <1>3, <1>5, KickLandsStill

(* Kept by Quick Snap.                                                     *)
LEMMA QuickSnapStill ==
  ASSUME PitchInv, QuickSnap
  PROVE  Still(m')
  <1>1. Asks("KICKOFF", 6)
    BY DEF QuickSnap
  <1>2. /\ Top(Answered(m)).proc = "KICKOFF" /\ Doze(Answered(m))
        /\ Side(Receiver) \subseteq Slots
    BY <1>1, KickRuns
  <1>3. \/ m' = KickLands(Answered(m))
        \/ \E p \in Side(Receiver) : \E q \in Free(m, p) : m' = Answered(Place(Spend(m, p), p, q))
    BY Zenon DEF QuickSnap
  <1>4. ASSUME NEW p \in Side(Receiver), NEW q \in Free(m, p),
               m' = Answered(Place(Spend(m, p), p, q))
        PROVE  Still(m')
    <2>1. p \in Slots /\ q \in Squares
      BY <1>2, FreeSquares
    <2> QED BY <1>1, <1>4, <2>1, SpentStill
  <1> QED BY <1>2, <1>3, <1>4, KickLandsStill

(* Charge! ends with the ball coming down.                                 *)
LEMMA ChargeEndStill ==
  ASSUME NEW s, Doze(s), Top(s).proc = "KICKOFF"
  PROVE  Still(ChargeEnd(s))
  <1> DEFINE t == [s EXCEPT !.turnover = FALSE, !.active = 1 - Top(s).a]
  <1>1. Mere(s, t)
    BY DEF Mere, Kept, SameBoard, Doze, Board, IsMatch, Fields
  <1>2. ChargeEnd(s) = KickLands(t)
    BY DEF ChargeEnd
  <1> HIDE DEF t
  <1>3. Doze(t) /\ Top(t) = Top(s)
    BY <1>1, DozeMere
  <1> QED BY <1>2, <1>3, KickLandsStill

(* Kept by Charge!.                                                        *)
LEMMA ChargeStill ==
  ASSUME PitchInv, ChargeAsk \/ ChargeOn
  PROVE  Still(m')
  <1> DEFINE s == Answered(m)
  <1>1. Runs("KICKOFF", 7) \/ Asks("KICKOFF", 7)
    BY DEF ChargeAsk, ChargeOn
  <1>2. /\ Top(m).proc = "KICKOFF" /\ Doze(m) /\ Steady(m) /\ m.status # "error"
        /\ Top(s).proc = "KICKOFF" /\ Doze(s) /\ Side(Kicker) \subseteq Slots
    BY <1>1, KickRuns
  <1>3. CASE ChargeAsk
    <2>1. m' = ChargeEnd(m) \/ m' = Decide(m, Kicker)
      BY <1>3 DEF ChargeAsk
    <2> QED BY <1>2, <2>1, ChargeEndStill, DecideStill
  <1>4. CASE ChargeOn
    <2>1. \/ m' = ChargeEnd(s)
          \/ \E p \in Side(Kicker), kind \in {"MOVE", "BLITZ"} :
               LET f == [Top(m) EXCEPT !.data = @ \cup {p},
                           !.sq = <<@[1] - 1, IF kind = "BLITZ" THEN 1 ELSE @[2]>>] IN
               m' = Push([Answered(SetTop(m, f)) EXCEPT !.acting = p],
                         [Frame("MOVE", p, 0, NoSq) EXCEPT !.k = kind, !.c = 0])
      BY <1>4, Zenon DEF ChargeOn
    <2>2. ASSUME NEW p \in Side(Kicker), NEW kind \in {"MOVE", "BLITZ"},
                 LET f == [Top(m) EXCEPT !.data = @ \cup {p},
                           !.sq = <<@[1] - 1, IF kind = "BLITZ" THEN 1 ELSE @[2]>>] IN
                 m' = Push([Answered(SetTop(m, f)) EXCEPT !.acting = p],
                           [Frame("MOVE", p, 0, NoSq) EXCEPT !.k = kind, !.c = 0])
          PROVE  Still(m')
      <3> DEFINE f == [Top(m) EXCEPT !.data = @ \cup {p},
                         !.sq = <<@[1] - 1, IF kind = "BLITZ" THEN 1 ELSE @[2]>>]
                 t == SetTop(m, f)  u == Answered(t)  v == [u EXCEPT !.acting = p]
                 g == [Frame("MOVE", p, 0, NoSq) EXCEPT !.k = kind, !.c = 0]
      <3>1. Alters(Top(m), f, {"data", "sq"}) /\ f.phase = 7
        <4>1. IsFrame(Top(m)) /\ Top(m).phase = 7
          BY <1>1, <1>2, TopOk DEF FrameOk, IsFrame, Runs, Asks
        <4> QED BY <4>1 DEF Alters, IsFrame, Marks
      <3>2. m' = Push(v, g)
        BY <2>2
      <3> HIDE DEF f
      <3>3. Edit(m, t, {"data", "sq"}) /\ t.status = m.status /\ Top(t) = f
        BY <1>2, <3>1, EditSet
      <3> HIDE DEF t
      <3>4. Steady(t) /\ t.status # "error"
        BY <1>2, <3>1, <3>3, OpenEdit
      <3>5. Steady(u) /\ u.status = "running"
        BY <3>4, AnsweredSteady
      <3> HIDE DEF u
      <3>6. Mere(u, v)
        BY <3>5 DEF Mere, Kept, SameBoard, Steady, Board, IsMatch, Fields
      <3> HIDE DEF v
      <3>7. Steady(v) /\ v.status = "running"
        BY <3>5, <3>6, SteadyMere DEF Mere, Kept
      <3>8. /\ IsFrame(g) /\ g.proc = "MOVE" /\ g.a = p /\ g.data = {} /\ g.k = kind
        BY DEF Frame, IsFrame, Marks
      <3> HIDE DEF g
      <3>9. FrameOk(g) /\ Resting(g) /\ ~BallFrame(g)
        BY <1>2, <3>8 DEF FrameOk, IsFrame, Resting, BallFrame, Due, MoveOk
      <3>10. Steady(Push(v, g)) /\ Goes(v, Push(v, g))
        BY <3>7, <3>8, <3>9, SteadyPush
      <3> QED BY <3>2, <3>7, <3>10, End
    <2> QED BY <1>2, <2>1, <2>2, ChargeEndStill
  <1> QED BY <1>3, <1>4

(* Kept by a kick that has settled.                                        *)
LEMMA KickSettledStill ==
  ASSUME PitchInv, KickSettled
  PROVE  Still(m')
  <1> DEFINE S == m.stack
  <1>1. m.status = "running" /\ Top(m).proc = "KICKOFF" /\ Top(m).phase = 3
    BY DEF KickSettled, Runs
  <1>2. Settles(m) /\ Len(S) = 2 /\ Board(m)
    <2>1. CASE Playing(m)
      <3>1. Len(S) \in 1 .. Len(S) /\ IsStack(S) /\ ~Settling(S)
            /\ \A i \in 1 .. Len(S) : S[i].proc \in {"SETUP", "KICKOFF"} => i = 2
        BY <2>1 DEF Playing, Based, IsStack
      <3> QED BY <1>1, <3>1 DEF Settling, Top
    <2>2. CASE Settles(m)
      BY <1>1, <2>2 DEF Settles, Top, PitchInv, PitchOk
    <2> QED BY <1>1, <2>1, <2>2 DEF PitchInv, PitchOk
  <1>3. /\ IsStack(S) /\ S[1].proc \in {"TEAM_TURN", "MATCH"} /\ FrameOk(S[1]) /\ FrameOk(S[2])
        /\ Top(m) = S[2]
    BY <1>2 DEF Settles, Top
  <1>4. \/ m' = Pop(m)
        \/ m' = Decide(Phase([DropBall(m) EXCEPT !.ball.state = "off"], 2), Receiver)
    BY Zenon DEF KickSettled
  <1>5. CASE m' = Pop(m)
    <2> DEFINE t == Pop(m)
    <2>1. t.stack = Below(S) /\ Kept([m EXCEPT !.stack = t.stack], t) /\ t.status = "running"
          /\ Board(t)
      <3>1. IsMatch(t) /\ SameBoard(m, t)
        BY <1>2 DEF Board, Pop, IsMatch, Fields, SameBoard
      <3>2. Board(t)
        BY <1>2, <3>1, BoardAlike
      <3> QED BY <1>1, <1>2, <3>2 DEF Board, Pop, IsMatch, Fields, Kept, Below
    <2> HIDE DEF t
    <2>2. IsStack(t.stack) /\ Len(t.stack) = 1 /\ t.stack[1] = S[1]
      <3>1. Len(S) > 0 /\ 1 \in 1 .. Len(S) - 1
        BY <1>2
      <3> HIDE DEF S
      <3>2. IsStack(Below(S)) /\ Len(Below(S)) = Len(S) - 1 /\ Below(S)[1] = S[1]
        BY <1>3, <3>1, FrontStack
      <3> QED BY <1>2, <2>1, <3>2
    <2>3. Based(t) /\ RestTo(t.stack, 1)
      BY <1>3, <2>2 DEF Based, RestTo, Resting, Due, Settling, Opening
    <2>4. Steady(t)
      BY <2>1, <2>2, <2>3 DEF Steady
    <2> QED BY <1>5, <2>1, <2>4, SteadyStill DEF t
  <1>6. CASE m' = Decide(Phase([DropBall(m) EXCEPT !.ball.state = "off"], 2), Receiver)
    <2> DEFINE d == DropBall(m)  o == [d EXCEPT !.ball.state = "off"]  t == Phase(o, 2)
    <2>1. Board(d) /\ Kept(m, d) /\ d.has = {}
      BY <1>2, DropBoard
    <2> HIDE DEF d
    <2>2. d.ball.carrier = NoPlayer /\ IsMatch(d) /\ IsBall(d.ball)
      BY <2>1 DEF Board, BallAgrees
    <2>3. o = [d EXCEPT !.ball.state = "off", !.ball.carrier = NoPlayer]
      BY <2>2 DEF IsMatch, Fields, IsBall
    <2>4. o.has = {} /\ o.ball.state = "off"
      BY <2>1, <2>2 DEF IsMatch, Fields, IsBall
    <2> HIDE DEF o
    <2>5. Board(o) /\ Kept(d, o)
      BY <2>1, <2>3, BoardOff
    <2>6. o.stack = S /\ o.status = "running"
      BY <1>1, <2>1, <2>5 DEF Kept
    <2>7. Top(o) = S[2] /\ Len(o.stack) = 2 /\ 1 \in 1 .. Len(o.stack) - 1
      BY <1>2, <2>6, SMTT(30) DEF Top
    <2>8. /\ Board(t) /\ SameBoard(o, t) /\ t.status = "running"
          /\ IsStack(t.stack) /\ Len(t.stack) = 2 /\ t.stack[1] = S[1]
          /\ Top(t).phase = 2 /\ Alters(Top(o), Top(t), {"phase"})
      BY <1>3, <2>5, <2>6, <2>7, PhaseStack
    <2> HIDE DEF t
    <2>9. FrameOk(Top(t)) /\ Top(t).proc = "KICKOFF" /\ Top(t) = t.stack[2]
      <3>1. Alters(Top(o), Top(t), {"phase", "data"}) /\ Top(o).proc = "KICKOFF" /\ FrameOk(Top(o))
        BY <1>1, <1>3, <2>7, <2>8 DEF Alters
      <3> QED BY <2>8, <3>1, FrameAlters DEF Top
    <2>10. Hushed(t)
      BY <2>4, <2>8 DEF Hushed, SameBoard
    <2>11. Based(t) /\ RestTo(t.stack, 2)
      <3>1. \A i \in 1 .. 2 : i = 1 \/ i = 2
        OBVIOUS
      <3> QED BY <1>3, <2>8, <2>9, <2>10, <3>1
            DEF Based, RestTo, Resting, Due, Settling, Opening, BallFrame
    <2>12. Still(Decide(t, Receiver))
      BY <2>8, <2>9, <2>11, DecideStill DEF Steady
    <2> QED BY <1>6, <2>12 DEF t, o, d
  <1> QED BY <1>4, <1>5, <1>6

(* Kept by a touchback.                                                    *)
LEMMA TouchbackStill ==
  ASSUME PitchInv, Touchback
  PROVE  Still(m')
  <1> DEFINE s == Answered(m)  t == Pop(s)
  <1>1. Asks("KICKOFF", 2)
    BY DEF Touchback
  <1>2. Doze(s) /\ s.status = "running" /\ Side(Receiver) \subseteq Slots /\ Len(s.stack) = 2
        /\ s.loc = m.loc
    <2>1. Top(s).proc = "KICKOFF" /\ Doze(s) /\ s.status = "running" /\ Side(Receiver) \subseteq Slots
          /\ Doze(m)
      BY <1>1, KickRuns
    <2>2. s.loc = m.loc
      BY <2>1, AnsweredDoze DEF SameBoard
    <2> QED BY <2>1, <2>2, OpenTop
  <1>3. \/ \E p \in OnSide(m, Receiver) : m' = Pop(GiveBall(s, p))
        \/ \E q \in Half(Receiver) : m' = Pop(BallTo(s, q))
    BY Zenon DEF Touchback
  <1> HIDE DEF s
  <1>4. Steady(t) /\ SameBoard(s, t) /\ t.status = "running" /\ Len(t.stack) = 1
    <2>1. Steady(t) /\ SameBoard(s, t) /\ t.status = s.status /\ Len(t.stack) = Len(s.stack) - 1
      BY <1>2, SteadyPop
    <2> HIDE DEF t
    <2> QED BY <1>2, <2>1
  <1>5. Closed(t)
    BY <1>4 DEF Closed, Opening
  <1>6. /\ \A p : Pop(GiveBall(s, p)) = GiveBall(t, p)
        /\ \A q : Pop(BallTo(s, q)) = BallTo(t, q)
    BY <1>2, ZenonT(30) DEF Doze, Board, IsMatch, Fields, Pop, GiveBall, BallTo
  <1> HIDE DEF t
  <1>7. ASSUME NEW p \in OnSide(m, Receiver), m' = Pop(GiveBall(s, p))
        PROVE  Still(m')
    <2>1. p \in Slots /\ OnPitch(t, p)
      BY <1>2, <1>4 DEF OnSide, OnPitch, SameBoard
    <2>2. Steady(GiveBall(t, p)) /\ Goes(t, GiveBall(t, p))
      BY <1>4, <1>5, <2>1, SteadyGive
    <2> QED BY <1>4, <1>6, <1>7, <2>2, End
  <1>8. ASSUME NEW q \in Half(Receiver), m' = Pop(BallTo(s, q))
        PROVE  Still(m')
    <2>1. q \in Squares
      BY DEF Half
    <2>2. Steady(BallTo(t, q)) /\ Goes(t, BallTo(t, q))
      BY <1>4, <1>5, <2>1, SteadyTo
    <2> QED BY <1>4, <1>6, <1>8, <2>2, End
  <1> QED BY <1>3, <1>7, <1>8

(* Kept by everything in a kick-off.                                       *)
LEMMA KickStill ==
  ASSUME PitchInv, KickNext
  PROVE  Still(m')
  BY KickAskStill, KickOffStill, HighKickStill, SolidDefenceStill, SolidDoneStill,
     QuickSnapStill, ChargeStill, KickSettledStill, TouchbackStill DEF KickNext

(* -------------------------------- a die -------------------------------- *)
(* What the handlers of a TEST do to its own frame.                        *)
Tried(s, t) ==
  /\ IsMatch(t) /\ SameBoard(s, t)
  /\ t.stack = Reset(s.stack, Top(t)) /\ Alters(Top(s), Top(t), {"phase", "data"})

(* The handlers of a TEST write in its own frame,                          *)
LEMMA TriedSet ==
  ASSUME NEW s, IsStack(s.stack), Len(s.stack) > 0, NEW t, Tried(s, t),
         NEW f, Alters(Top(t), f, {"phase", "data"}),
         NEW u, IsMatch(u), SameBoard(t, u), u.stack = Reset(t.stack, f)
  PROVE  Tried(s, u)
  <1>1. Alters(Top(s), f, {"phase", "data"})
    BY DEF Tried, Alters
  <1>2. IsStack(t.stack) /\ Len(t.stack) = Len(s.stack)
    BY ResetStack DEF Tried
  <1>3. IsStack(u.stack) /\ Len(u.stack) = Len(s.stack) /\ Top(u) = f
    BY <1>2, ResetStack DEF Top
  <1>4. u.stack = Reset(s.stack, f)
    <2> DEFINE n == Len(s.stack)
    <2>1. t.stack = [s.stack EXCEPT ![n] = Top(t)] /\ u.stack = [t.stack EXCEPT ![n] = f]
      BY <1>2 DEF Tried, Reset
    <2>2. Reset(s.stack, f) = [s.stack EXCEPT ![n] = f]
      BY DEF Reset
    <2> HIDE DEF n
    <2> QED BY <2>1, <2>2
  <1> QED BY <1>1, <1>3, <1>4 DEF Tried, SameBoard

(* its phase and flags,                                                    *)
LEMMA TriedFrame ==
  ASSUME NEW s, IsStack(s.stack), Len(s.stack) > 0, NEW t, Tried(s, t), NEW n, NEW d
  PROVE  /\ Tried(s, Phase(t, n)) /\ Phase(t, n).status = t.status
         /\ Tried(s, Mark(t, d)) /\ Mark(t, d).status = t.status
  <1>1. IsFrame(Top(t)) /\ IsMatch(t)
    BY DEF Tried, Alters
  <1>2. ASSUME NEW f, NEW u, Alters(Top(t), f, {"phase", "data"}),
               u = [t EXCEPT !.stack = Reset(t.stack, f)]
        PROVE  Tried(s, u) /\ u.status = t.status
    <2>1. IsMatch(u) /\ SameBoard(t, u) /\ u.stack = Reset(t.stack, f) /\ u.status = t.status
      BY <1>1, <1>2 DEF IsMatch, Fields, SameBoard
    <2> QED BY <1>2, <2>1, TriedSet
  <1>3. Tried(s, Phase(t, n)) /\ Phase(t, n).status = t.status
    <2> DEFINE f == [Top(t) EXCEPT !.phase = n]
    <2>1. Alters(Top(t), f, {"phase", "data"})
      BY <1>1 DEF Alters, IsFrame, Marks
    <2>2. Phase(t, n) = [t EXCEPT !.stack = Reset(t.stack, f)]
      BY DEF Phase, Reset, Top
    <2> HIDE DEF f
    <2> QED BY <1>2, <2>1, <2>2
  <1>4. Tried(s, Mark(t, d)) /\ Mark(t, d).status = t.status
    <2> DEFINE f == [Top(t) EXCEPT !.data = @ \cup d]
    <2>1. Alters(Top(t), f, {"phase", "data"})
      BY <1>1 DEF Alters, IsFrame, Marks
    <2>2. Mark(t, d) = [t EXCEPT !.stack = Reset(t.stack, f)]
      BY DEF Mark, Reset, Top
    <2> HIDE DEF f
    <2> QED BY <1>2, <2>1, <2>2
  <1> QED BY <1>3, <1>4

(* or nothing,                                                             *)
LEMMA TriedSelf ==
  ASSUME NEW s, IsStack(s.stack), Len(s.stack) > 0, IsFrame(Top(s)),
         NEW t, IsMatch(t), SameBoard(s, t), t.stack = s.stack
  PROVE  Tried(s, t)
  <1>1. Top(t) = Top(s) /\ s.stack = Reset(s.stack, Top(s))
    BY DEF Top, Reset, IsStack
  <1> QED BY <1>1 DEF Tried, Alters

(* besides what is neither stack nor board.                                *)
LEMMA TriedMere ==
  ASSUME NEW s, NEW t, Tried(s, t), NEW u, IsMatch(u), SameBoard(t, u), u.stack = t.stack
  PROVE  Tried(s, u)
  BY DEF Tried, SameBoard, Top

(* Whom a die is rolled for.                                               *)
LEMMA TestTop ==
  ASSUME PitchInv, m.status # "error", Top(m).proc = "TEST"
  PROVE  /\ Board(m) /\ IsStack(m.stack) /\ Len(m.stack) > 2 /\ FrameOk(Top(m))
         /\ Top(m).a \in Slots /\ IsFrame(Top(m))
         /\ \/ Based(m) /\ Testing(m)
            \/ Settles(m) /\ Len(m.stack) = 4
  <1>1. Board(m) /\ (Playing(m) \/ Settles(m))
    BY DEF PitchInv, PitchOk
  <1>2. CASE Playing(m)
    <2>1. Based(m) /\ IsStack(m.stack) /\ Len(m.stack) \in 1 .. Len(m.stack)
      BY <1>2 DEF Playing, Based, IsStack
    <2>2. FrameOk(Top(m)) /\ ~Resting(Top(m)) /\ ~Due(Top(m))
      BY <2>1 DEF Based, Top, Resting, Due
    <2>3. Testing(m)
      BY <1>2, <2>1, <2>2 DEF Playing, Calm, Nursing, Woken, RestTo, Top
    <2> QED BY <1>1, <2>1, <2>2, <2>3 DEF Testing, FrameOk, IsFrame
  <1>3. CASE Settles(m)
    <2>1. IsStack(m.stack) /\ Len(m.stack) \in 1 .. Len(m.stack)
      BY <1>3 DEF Settles, Settling, IsStack
    <2>2. FrameOk(Top(m)) /\ Len(m.stack) = 4
      BY <1>3, <2>1 DEF Settles, Settling, Top
    <2> QED BY <1>1, <1>3, <2>1, <2>2 DEF FrameOk, IsFrame
  <1> QED BY <1>1, <1>2, <1>3

(* A TEST that goes on, for a re-roll or a coach's answer, keeps the       *)
(* invariant: the frame below still waits for it.                          *)
LEMMA TriedOk ==
  ASSUME PitchInv, m.status # "error", Top(m).proc = "TEST", NEW t, Tried(m, t)
  PROVE  PitchOk(t) /\ ~AwaitsDie(t)
  <1> DEFINE S == m.stack  T == t.stack  n == Len(S)
  <1>1. /\ Board(m) /\ IsStack(S) /\ n > 2 /\ n \in Nat /\ FrameOk(Top(m))
        /\ \/ Based(m) /\ Testing(m)
           \/ Settles(m) /\ n = 4
    BY TestTop DEF IsStack
  <1>2. /\ IsStack(T) /\ Len(T) = n /\ T[n] = Top(t)
        /\ \A i \in 1 .. n - 1 : T[i] = S[i]
    BY <1>1, ResetStack DEF Tried, Top
  <1>3. FrameOk(Top(t)) /\ Top(t).proc = "TEST" /\ Board(t)
    <2>1. FrameOk(Top(t)) /\ Top(t).proc = "TEST"
      BY <1>1, FrameAlters DEF Tried
    <2> QED BY <1>1, <2>1, BoardAlike DEF Tried
  <1>4. \A p : OnPitch(t, p) <=> OnPitch(m, p)
    BY DEF Tried, SameBoard, OnPitch
  <1>5. ~AwaitsDie(t)
    BY <1>3, AwaitsDue DEF Due
  <1>6. CASE Based(m) /\ Testing(m)
    <2>1. Based(t)
      <3>1. \A i \in 1 .. n : i = n \/ i \in 1 .. n - 1
        BY <1>1
      <3>2. \A i \in 1 .. n : /\ FrameOk(T[i]) /\ T[i].proc = S[i].proc
                              /\ BallFrame(T[i]) <=> BallFrame(S[i])
        BY <1>1, <1>2, <1>3, <1>6, <3>1 DEF Based, BallFrame, Testing, Top
      <3>3. 1 \in 1 .. n - 1 /\ 2 \in 1 .. n - 1
        BY <1>1
      <3>4. T[1] = S[1] /\ T[2] = S[2]
        BY <1>2, <3>3
      <3>5. Hushed(m) => Hushed(t)
        BY DEF Hushed, Tried, SameBoard
      <3> HIDE DEF S, T
      <3>6. (Settling(T) <=> Settling(S)) /\ (Opening(T) <=> Opening(S))
        BY <1>2, <3>4 DEF Settling, Opening
      <3> USE DEF S, T
      <3> QED BY <1>1, <1>2, <1>6, <3>2, <3>4, <3>5, <3>6 DEF Based
    <2>2. Testing(t)
      <3>1. n - 1 \in 1 .. n - 1 /\ \A i \in 1 .. n - 2 : i \in 1 .. n - 1
        BY <1>1
      <3>2. T[n - 1] = S[n - 1] /\ \A i \in 1 .. n - 2 : T[i] = S[i]
        BY <1>2, <3>1
      <3> QED BY <1>1, <1>2, <1>3, <1>4, <1>6, <3>2 DEF Testing, RestTo, Sees
    <2> QED BY <1>3, <1>5, <2>1, <2>2 DEF PitchOk, Playing
  <1>7. CASE Settles(m) /\ n = 4
    <2>1. T[1] = S[1] /\ T[2] = S[2] /\ T[3] = S[3] /\ T[4] = Top(t) /\ Top(m) = S[4]
      BY <1>2, <1>7 DEF Top
    <2>2. t.has = m.has
      BY DEF Tried, SameBoard
    <2>3. Settles(t)
      <3>1. \A i \in 1 .. 4 : i \in {1, 2, 3, 4}
        OBVIOUS
      <3>2. \A i \in 1 .. 4 : FrameOk(T[i])
        BY <1>3, <1>7, <2>1, <3>1 DEF Settles
      <3> QED BY <1>2, <1>3, <1>4, <1>7, <2>1, <2>2, <3>2 DEF Settles, Settling
    <2> QED BY <1>3, <1>5, <2>3 DEF PitchOk
  <1> QED BY <1>1, <1>6, <1>7

(* The answer wakes the frame below.                                       *)
LEMMA TestReturned ==
  ASSUME PitchInv, m.status # "error", Top(m).proc = "TEST",
         NEW t, IsMatch(t), SameBoard(m, t), t.stack = Below(m.stack), t.status = "running"
  PROVE  PitchOk(t) /\ Len(m.stack) = Len(t.stack) + 1 /\ Top(m).a \in Slots
  <1> DEFINE S == m.stack  T == t.stack  n == Len(S)
  <1>1. /\ Board(m) /\ IsStack(S) /\ n > 2 /\ n \in Nat /\ Top(m).a \in Slots
        /\ \/ Based(m) /\ Testing(m)
           \/ Settles(m) /\ n = 4
    BY TestTop DEF IsStack
  <1>2. /\ IsStack(T) /\ Len(T) = n - 1
        /\ \A i \in 1 .. n - 1 : T[i] = S[i]
    BY <1>1, FrontStack
  <1>3. Board(t) /\ \A p : OnPitch(t, p) <=> OnPitch(m, p)
    BY <1>1, BoardAlike DEF SameBoard, OnPitch
  <1>4. CASE Based(m) /\ Testing(m)
    <2>1. Based(t)
      <3>1. \A i \in 1 .. n - 1 : i \in 1 .. n /\ T[i] = S[i]
        BY <1>1, <1>2
      <3>2. 1 \in 1 .. n - 1 /\ 2 \in 1 .. n - 1
        BY <1>1
      <3>3. T[1] = S[1] /\ T[2] = S[2] /\ n - 1 > 1
        BY <1>1, <1>2, <3>2
      <3>4. Hushed(m) => Hushed(t)
        BY DEF Hushed, SameBoard
      <3> HIDE DEF S, T
      <3>5. (Settling(T) <=> Settling(S)) /\ (Opening(T) <=> Opening(S))
        BY <1>1, <1>2, <3>3 DEF Settling, Opening
      <3> USE DEF S, T
      <3>6. /\ \A i \in 1 .. Len(T) : FrameOk(T[i]) /\ (T[i].proc \in {"SETUP", "KICKOFF"} => i = 2)
            /\ Opening(T) => \A i \in 1 .. Len(T) : ~BallFrame(T[i])
        <4>1. /\ \A i \in 1 .. n : FrameOk(S[i]) /\ (S[i].proc \in {"SETUP", "KICKOFF"} => i = 2)
              /\ Opening(S) => \A i \in 1 .. n : ~BallFrame(S[i])
          BY <1>4 DEF Based
        <4> HIDE DEF S, T, n
        <4> QED BY <1>2, <3>1, <3>5, <4>1
      <3>7. S[1].proc \in {"TEAM_TURN", "MATCH"} /\ ~Settling(S) /\ (Opening(S) => Hushed(m))
        BY <1>4 DEF Based
      <3>8. Len(T) > 0 /\ IsStack(T)
        BY <1>1, <1>2
      <3> HIDE DEF S
      <3> QED BY <3>3, <3>4, <3>5, <3>6, <3>7, <3>8 DEF Based
    <2>2. Woken(t)
      <3>1. n - 1 \in 1 .. n - 1 /\ \A i \in 1 .. n - 2 : i \in 1 .. n - 1
        BY <1>1
      <3>2. Top(t) = S[n - 1] /\ \A i \in 1 .. n - 2 : T[i] = S[i]
        BY <1>2, <3>1 DEF Top
      <3>3. Sees(t, Top(t)) /\ Due(Top(t))
        BY <1>3, <1>4, <3>2 DEF Testing, Sees
      <3>4. RestTo(T, Len(T) - 1)
        BY <1>1, <1>2, <1>4, <3>2 DEF Testing, RestTo
      <3> QED BY <1>1, <1>2, <3>3, <3>4 DEF Woken
    <2> QED BY <1>1, <1>2, <1>3, <2>1, <2>2 DEF PitchOk, Playing
  <1>5. CASE Settles(m) /\ n = 4
    <2>1. T[1] = S[1] /\ T[2] = S[2] /\ T[3] = S[3] /\ Len(T) = 3
      BY <1>2, <1>5
    <2>2. m.has = {} /\ t.has = {}
      BY <1>5 DEF Settles, SameBoard
    <2>3. Settles(t)
      <3>1. \A i \in 1 .. 3 : i \in {1, 2, 3} /\ i \in 1 .. 4
        OBVIOUS
      <3>2. \A i \in 1 .. 3 : FrameOk(T[i])
        BY <1>5, <2>1, <3>1 DEF Settles
      <3> QED BY <1>2, <1>3, <1>5, <2>1, <2>2, <3>2 DEF Settles, Settling
    <2> QED BY <1>1, <1>2, <1>3, <2>3 DEF PitchOk
  <1> QED BY <1>1, <1>4, <1>5

Woke(t) ==
  AwaitsDie(t) =>
    Top(m).proc = "TEST" /\ Len(m.stack) = Len(t.stack) + 1 /\ Top(m).a \in Slots

(* Every handler of a TEST keeps the invariant, and wakes the frame below  *)
(* at most, when it returns.                                               *)
LEMMA TestHolds ==
  ASSUME PitchInv, TestNext
  PROVE  PitchOk(m') /\ Woke(m')
  <1>1. Top(m).proc = "TEST" /\ m.status # "error"
    BY DEF TestNext, TestRoll, TestReroll, TestWasted, TestDecline, TestPro, TestTeamReroll,
           TestSkillReroll, Runs, Asks
  <1>2. /\ Board(m) /\ IsStack(m.stack) /\ Len(m.stack) > 0 /\ IsFrame(Top(m)) /\ IsMatch(m)
    BY <1>1, TestTop DEF Board
  <1>3. ASSUME NEW t, Tried(m, t), m' = t
        PROVE  PitchOk(m') /\ Woke(m')
    BY <1>1, <1>3, TriedOk DEF Woke
  <1>4. ASSUME NEW o, m.status = "running", m' = Return(m, o)
        PROVE  PitchOk(m') /\ Woke(m')
    <2> DEFINE t == Return(m, o)
    <2>1. IsMatch(t) /\ SameBoard(m, t) /\ t.stack = Below(m.stack) /\ t.status = "running"
      BY <1>2, <1>4 DEF Return, Pop, Below, IsMatch, Fields, SameBoard
    <2> HIDE DEF t
    <2>2. PitchOk(t) /\ Woke(t)
      BY <1>1, <2>1, TestReturned DEF Woke
    <2> QED BY <1>4, <2>2 DEF t
  <1>5. ASSUME NEW o, m' = Answered(Return(m, o))
        PROVE  PitchOk(m') /\ Woke(m')
    <2> DEFINE t == Answered(Return(m, o))
    <2>1. IsMatch(t) /\ SameBoard(m, t) /\ t.stack = Below(m.stack) /\ t.status = "running"
      BY <1>2 DEF Answered, Return, Pop, Below, IsMatch, Fields, SameBoard
    <2> HIDE DEF t
    <2>2. PitchOk(t) /\ Woke(t)
      BY <1>1, <2>1, TestReturned DEF Woke
    <2> QED BY <1>5, <2>2 DEF t
  <1>6. ASSUME NEW x, IsMatch(x), SameBoard(m, x), x.stack = m.stack, NEW d, NEW n,
               m' = Answered(Phase(Mark(x, d), n))
        PROVE  PitchOk(m') /\ Woke(m')
    <2> DEFINE u == Mark(x, d)  v == Phase(u, n)  t == Answered(v)
    <2>1. Tried(m, x)
      BY <1>2, <1>6, TriedSelf
    <2>2. Tried(m, u)
      BY <1>2, <2>1, TriedFrame
    <2> HIDE DEF u
    <2>3. Tried(m, v)
      BY <1>2, <2>2, TriedFrame
    <2> HIDE DEF v
    <2>4. IsMatch(t) /\ SameBoard(v, t) /\ t.stack = v.stack
      BY <2>3 DEF Tried, Answered, IsMatch, Fields, SameBoard
    <2> HIDE DEF t
    <2>5. Tried(m, t)
      BY <2>3, <2>4, TriedMere
    <2> QED BY <1>3, <1>6, <2>5 DEF t, v, u
  <1>7. ASSUME NEW o, NEW team, m' = Decide(Mark(Phase(m, 1), o), team)
        PROVE  PitchOk(m') /\ Woke(m')
    <2> DEFINE u == Phase(m, 1)  v == Mark(u, o)  t == Decide(v, team)
    <2>1. Tried(m, m)
      BY <1>2, TriedSelf DEF SameBoard
    <2>2. Tried(m, u)
      BY <1>2, <2>1, TriedFrame
    <2> HIDE DEF u
    <2>3. Tried(m, v)
      BY <1>2, <2>2, TriedFrame
    <2> HIDE DEF v
    <2>4. IsMatch(t) /\ SameBoard(v, t) /\ t.stack = v.stack
      BY <2>3 DEF Tried, Decide, IsMatch, Fields, SameBoard
    <2> HIDE DEF t
    <2>5. Tried(m, t)
      BY <2>3, <2>4, TriedMere
    <2> QED BY <1>3, <1>7, <2>5 DEF t, v, u
  <1>8. CASE TestRoll
    <2>1. m.status = "running"
      BY <1>8 DEF TestRoll, Runs
    <2>2. \/ \E o : m' = Return(m, o)
          \/ \E o, team : m' = Decide(Mark(Phase(m, 1), o), team)
      BY <1>8 DEF TestRoll
    <2> QED BY <1>4, <1>7, <2>1, <2>2
  <1>9. CASE TestReroll \/ TestWasted
    <2>1. m.status = "running" /\ \E o : m' = Return(m, o)
      BY <1>9 DEF TestReroll, TestWasted, Runs
    <2> QED BY <1>4, <2>1
  <1>10. CASE TestDecline
    BY <1>5, <1>10 DEF TestDecline
  <1>11. CASE TestPro
    <2> DEFINE x == [m EXCEPT !.usedPro = @ \cup {Top(m).a}]
    <2>1. IsMatch(x) /\ SameBoard(m, x) /\ x.stack = m.stack
      BY <1>2 DEF IsMatch, Fields, SameBoard
    <2>2. \E n : m' = Answered(Phase(Mark(x, {"team_used", "skill_used"}), n))
      BY <1>11 DEF TestPro
    <2> HIDE DEF x
    <2> QED BY <1>6, <2>1, <2>2
  <1>12. CASE TestTeamReroll
    <2> DEFINE x == [m EXCEPT !.rerolls[TeamOf(Top(m).a)] = @ - 1]
    <2>1. IsMatch(x) /\ SameBoard(m, x) /\ x.stack = m.stack
      BY <1>2 DEF IsMatch, Fields, SameBoard
    <2>2. \E n : m' = Answered(Phase(Mark(x, {"team_used"}), n))
      BY <1>12 DEF TestTeamReroll
    <2> HIDE DEF x
    <2> QED BY <1>6, <2>1, <2>2
  <1>13. CASE TestSkillReroll
    <2> DEFINE x == [m EXCEPT !.skillUsed = @ \cup {<<Top(m).a, Top(m).k>>}]
    <2>1. IsMatch(x) /\ SameBoard(m, x) /\ x.stack = m.stack
      BY <1>2 DEF IsMatch, Fields, SameBoard
    <2>2. m' = Answered(Phase(Mark(x, {"skill_used"}), 2))
      BY <1>13 DEF TestSkillReroll
    <2> HIDE DEF x
    <2> QED BY <1>6, <2>1, <2>2
  <1> QED BY <1>8, <1>9, <1>10, <1>11, <1>12, <1>13 DEF TestNext

(* ------------------------------ from the start ------------------------- *)
(* An activation just declared is three frames that rest.                  *)
LEMMA DeclaredStack ==
  ASSUME NEW S, Declared(S)
  PROVE  /\ IsStack(S) /\ Len(S) = 3
         /\ S[1].proc = "TEAM_TURN" /\ S[2].proc = "ACTIVATION" /\ S[3].proc = "MOVE"
         /\ S[3].a \in Slots /\ S[3].data = {} /\ S[3].c = 0
         /\ IsFrame(S[1]) /\ IsFrame(S[2]) /\ IsFrame(S[3])
  <1> DEFINE f == Frame("TEAM_TURN", S[1].a, S[1].b, NoSq)
             g == Frame("ACTIVATION", S[2].a, S[2].b, NoSq)
             h == [Frame("MOVE", S[3].a, 0, NoSq) EXCEPT !.k = S[3].k, !.c = 0]
  <1>1. S = <<f, g, h>> /\ S[3].a \in Slots
    BY DEF Declared
  <1>2. /\ IsFrame(f) /\ f.proc = "TEAM_TURN" /\ IsFrame(g) /\ g.proc = "ACTIVATION"
        /\ IsFrame(h) /\ h.proc = "MOVE" /\ h.data = {} /\ h.c = 0
    BY DEF Frame, IsFrame, Marks
  <1> HIDE DEF f, g, h
  <1>3. S[1] = f /\ S[2] = g /\ S[3] = h /\ Len(S) = 3 /\ S \in Seq({f, g, h})
    BY <1>1
  <1> QED BY <1>1, <1>2, <1>3, StackByItself

(* A setup or kick-off just called is two.                                 *)
LEMMA CalledStack ==
  ASSUME NEW S, Called(S)
  PROVE  /\ IsStack(S) /\ Len(S) = 2 /\ S[1].proc = "MATCH"
         /\ S[2].proc \in {"SETUP", "KICKOFF"} /\ S[2].a \in Teams
         /\ S[2].proc = "KICKOFF" => S[2].phase # 3
         /\ IsFrame(S[1]) /\ IsFrame(S[2])
  <1> DEFINE f == Frame("MATCH", 0, 0, NoSq)
             g == [Frame(S[2].proc, S[2].a, 0, S[2].sq) EXCEPT !.phase = S[2].phase]
  <1>1. /\ S = <<f, g>> /\ S[2].proc \in {"SETUP", "KICKOFF"} /\ S[2].a \in Teams
        /\ S[2].proc = "KICKOFF" => S[2].phase # 3
    BY DEF Called
  <1>2. IsFrame(f) /\ f.proc = "MATCH" /\ IsFrame(g)
    BY DEF Frame, IsFrame, Marks
  <1> HIDE DEF f, g
  <1>3. S[1] = f /\ S[2] = g /\ Len(S) = 2 /\ S \in Seq({f, g})
    BY <1>1
  <1> QED BY <1>1, <1>2, <1>3, StackByItself

(* Every start satisfies the invariant.                                    *)
LEMMA InitOk ==
  ASSUME Init
  PROVE  PitchInv
  <1> DEFINE S == m.stack
  <1>1. /\ Board(m) /\ m.status = "running"
        /\ \/ Declared(S)
           \/ Called(S) /\ m.has = {} /\ m.ball.state # "ground"
    BY StartsAssumption DEF Init
  <1>2. CASE Declared(S)
    <2>1. /\ IsStack(S) /\ Len(S) = 3
          /\ S[1].proc = "TEAM_TURN" /\ S[2].proc = "ACTIVATION" /\ S[3].proc = "MOVE"
          /\ S[3].a \in Slots /\ S[3].data = {} /\ S[3].c = 0
          /\ IsFrame(S[1]) /\ IsFrame(S[2]) /\ IsFrame(S[3])
      BY <1>2, DeclaredStack
    <2>2. FrameOk(S[1]) /\ FrameOk(S[2]) /\ Resting(S[1]) /\ Resting(S[2])
      BY <2>1 DEF FrameOk, IsFrame, Resting, Due
    <2>3. FrameOk(S[3]) /\ Resting(S[3])
      <3>1. 0 \in Slots
        BY DEF Slots
      <3> QED BY <2>1, <3>1 DEF FrameOk, MoveOk, IsFrame, Resting, Due
    <2>4. \A i \in 1 .. 3 : i \in {1, 2, 3}
      OBVIOUS
    <2>5. \A i \in 1 .. 3 : FrameOk(S[i]) /\ Resting(S[i]) /\ S[i].proc \notin {"SETUP", "KICKOFF"}
      BY <2>1, <2>2, <2>3, <2>4
    <2>6. Based(m) /\ Calm(m)
      <3> HIDE DEF S
      <3>1. ~Opening(S) /\ ~Settling(S)
        BY <2>1 DEF Opening, Settling
      <3> QED BY <1>1, <2>1, <2>5, <3>1 DEF Based, Calm, RestTo, S
    <2> QED BY <1>1, <2>6 DEF PitchInv, PitchOk, Playing
  <1>3. CASE Called(S) /\ m.has = {} /\ m.ball.state # "ground"
    <2>1. /\ IsStack(S) /\ Len(S) = 2 /\ S[1].proc = "MATCH"
          /\ S[2].proc \in {"SETUP", "KICKOFF"} /\ S[2].a \in Teams
          /\ S[2].proc = "KICKOFF" => S[2].phase # 3
          /\ IsFrame(S[1]) /\ IsFrame(S[2])
      BY <1>3, CalledStack
    <2>2. FrameOk(S[1]) /\ FrameOk(S[2]) /\ Resting(S[1]) /\ Resting(S[2])
      BY <2>1 DEF FrameOk, IsFrame, Resting, Due
    <2>3. ~BallFrame(S[1]) /\ ~BallFrame(S[2])
      BY <2>1 DEF BallFrame
    <2>4. \A i \in 1 .. 2 : i \in {1, 2}
      OBVIOUS
    <2>5. \A i \in 1 .. 2 : /\ FrameOk(S[i]) /\ Resting(S[i]) /\ ~BallFrame(S[i])
                            /\ S[i].proc \in {"SETUP", "KICKOFF"} => i = 2
      BY <2>1, <2>2, <2>3, <2>4
    <2>6. Based(m) /\ Calm(m)
      <3>1. Hushed(m)
        BY <1>3 DEF Hushed
      <3> HIDE DEF S
      <3>2. ~Settling(S)
        BY <2>1 DEF Settling
      <3> QED BY <1>1, <2>1, <2>5, <3>1, <3>2 DEF Based, Calm, RestTo, S
    <2> QED BY <1>1, <2>6 DEF PitchInv, PitchOk, Playing
  <1> QED BY <1>1, <1>2, <1>3

(* Every handler keeps the invariant and wakes no frame but by its own     *)
(* test.                                                                   *)
LEMMA StepOk ==
  ASSUME PitchInv, Next
  PROVE  PitchOk(m') /\ (m' = m \/ Woke(m'))
  <1>1. CASE Done
    BY <1>1 DEF Done, PitchInv
  <1>2. CASE TestNext
    BY <1>2, TestHolds
  <1>3. CASE BallNext \/ BlockNext \/ HurtNext \/ MoveNext \/ Ttm \/ SetupNext \/ KickNext
    <2>1. Still(m')
      BY <1>3, BallStill, BlockStill, HurtStill, MoveStill, TtmStill, SetupStill, KickStill
    <2> QED BY <2>1 DEF Still, Woke
  <1> QED BY <1>1, <1>2, <1>3 DEF Next

(* Between any two handlers (bb_advance's and bb_apply's) the copies of    *)
(* who has the ball agree, every frame of the stack is in order and waits  *)
(* for at most one thing: a die, which is on top of it, its coach or an    *)
(* apothecary.                                                             *)
THEOREM PitchInvHolds == Spec => []PitchInv
  <1>1. Init => PitchInv
    BY InitOk
  <1>2. PitchInv /\ [Next]_m => PitchInv'
    <2> SUFFICES ASSUME PitchInv, [Next]_m PROVE PitchInv'
      OBVIOUS
    <2>1. CASE Next
      BY <2>1, StepOk DEF PitchInv
    <2>2. CASE UNCHANGED m
      BY <2>2 DEF PitchInv
    <2> QED BY <2>1, <2>2
  <1> QED BY <1>1, <1>2, PTL DEF Spec

(* The flags, ball.carrier and the ball's square agree after every handler *)
(* of an activation, a setup or a kick-off, on a pitch of any size and     *)
(* from any start: what fuzz_match.c:51-57 looks at in the matches it      *)
(* plays.                                                                  *)
THEOREM BallIsKept == Spec => []BallKept
  <1>1. PitchInv => BallKept
    BY DEF PitchInv, PitchOk, Board, BallKept
  <1> QED BY <1>1, PitchInvHolds, PTL

(* A frame that reads the answer to a die (CATCH, PASS, PUSH and MOVE) is  *)
(* woken by the TEST it pushed itself, never by another that wrote m->ret  *)
(* in between.                                                             *)
THEOREM DieIsOwn == Spec => OwnDie
  <1> DEFINE A == AwaitsDie(m') =>
       Top(m).proc = "TEST" /\ Len(m.stack) = Len(m'.stack) + 1 /\ Top(m).a \in Slots
  <1>1. PitchInv /\ [Next]_m => [A]_m
    BY StepOk DEF Woke
  <1> QED BY <1>1, PitchInvHolds, PTL DEF Spec, OwnDie
=============================================================================
