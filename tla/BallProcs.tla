----------------------------- MODULE BallProcs -----------------------------
(***************************************************************************)
(* The procedures of the ball (engine/src/proc_ball.c): SCATTER (a bounce, *)
(* or the three hops of an inaccurate pass), THROW_IN from the crowd,      *)
(* CATCH, PASS with its interception window, and HANDOFF.                  *)
(***************************************************************************)
EXTENDS TestProc

CONSTANTS
  QuickD2, \* 12: squared length of the longest quick pass
  PassD2   \* 182: squared length of the longest pass the ruler measures

(* ------------------------------- SCATTER ------------------------------- *)
Hop(places) ==
  UNION {IF o.out THEN {o}
         ELSE {[sq |-> IF r \in Squares THEN r ELSE o.sq, out |-> r \notin Squares] :
                 r \in Around(o.sq)} : o \in places}
Hops(q, n) ==
  LET start == {[sq |-> q, out |-> FALSE]} IN
  IF n = 3 THEN Hop(Hop(Hop(start))) ELSE Hop(start)

(* The ball reaches q.  Whoever can catch it must try; off anyone else it  *)
(* bounces; on an empty square it rests, or bounces once more.             *)
Land(s, q, rests) ==
  LET on == BallTo(s, q) IN
  IF Empty(s, q) THEN IF rests THEN on ELSE Bounce(on, q)
  ELSE IF CanCatch(s, SlotAt(s, q))
  THEN Push(on, Frame("CATCH", SlotAt(s, q), 0, NoSq))
  ELSE Bounce(on, q)

LeavePitch(s, q) ==
  IF InKickoff(s)
  THEN [s EXCEPT !.ball.state = "off", !.ball.carrier = NoPlayer]
  ELSE Push(s, Frame("THROW_IN", 0, 0, q))

Scatter ==
  /\ Runs("SCATTER", 0)
  /\ \E o \in Hops(Top(m).sq, Top(m).b) :
       m' = IF o.out THEN LeavePitch(Pop(m), o.sq)
            ELSE Land(Pop(m), o.sq, "flight" \notin Top(m).data)

(* ------------------------------- THROW_IN ------------------------------ *)
Inward(q) ==
  LET ix == IF q[1] <= 0 THEN 1 ELSE IF q[1] >= PitchLen - 1 THEN -1 ELSE 0
      iy == IF q[2] <= 0 THEN 1 ELSE IF q[2] >= PitchWid - 1 THEN -1 ELSE 0 IN
  IF ix # 0 /\ iy # 0 THEN {<<ix, 0>>, <<ix, iy>>, <<0, iy>>}
  ELSE IF ix # 0 THEN {<<ix, d>> : d \in -1 .. 1}
  ELSE {<<d, iy>> : d \in -1 .. 1}
Along(q, d, n) == <<q[1] + n * d[1], q[2] + n * d[2]>>
Exit(q, d) == CHOOSE r \in {Along(q, d, i) : i \in 0 .. PitchLen + PitchWid} \cap Squares :
                Shift(r, d) \notin Squares

ThrowIn ==
  /\ Runs("THROW_IN", 0)
  /\ \E d \in Inward(Top(m).sq), n \in 1 .. 11 :
       LET q == Along(Top(m).sq, d, n) IN
       m' = IF q \in Squares THEN Land(Pop(m), q, TRUE)
            ELSE Push(Pop(m), Frame("THROW_IN", 0, 0, Exit(Top(m).sq, d)))

(* -------------------------------- CATCH -------------------------------- *)
(* The nearest MOVE frame is waiting for its own pass or hand-off.         *)
PendingBallAction(s) ==
  LET moves == {i \in DOMAIN s.stack : s.stack[i].proc = "MOVE"} IN
  /\ moves # {}
  /\ LET f == s.stack[CHOOSE i \in moves : \A j \in moves : j <= i] IN
     "await_action" \in f.data /\ f.k \in {"PASS", "HANDOFF"}

\* mutant: the frame stays behind when the player cannot catch
CatchTry_Waits ==
  /\ Runs("CATCH", 0)
  /\ LET p == Top(m).a IN
     m' = IF CanCatch(m, p) THEN Test(Phase(m, 1), p, "CATCH", NoPlayer)
          ELSE Bounce(Phase(m, 1), m.at[p])
CatchTry ==
  /\ Runs("CATCH", 0)
  /\ LET p == Top(m).a IN
     m' = IF CanCatch(m, p) THEN Test(Phase(m, 1), p, "CATCH", NoPlayer)
          ELSE Bounce(Pop(m), m.at[p])

\* mutant: a catch in the end zone is not a touchdown
CatchDone_NoTd ==
  /\ Runs("CATCH", 1)
  /\ LET p == Top(m).a IN
     m' = IF "ok" \notin m.ret THEN Bounce(Pop(m), m.at[p])
          ELSE TurnoverIf(GiveBall(Pop(m), p),
                          TeamOf(p) # m.active /\ PendingBallAction(Pop(m)))
CatchDone ==
  /\ Runs("CATCH", 1)
  /\ LET p == Top(m).a IN
     m' = IF "ok" \notin m.ret THEN Bounce(Pop(m), m.at[p])
          ELSE CheckTd(TurnoverIf(GiveBall(Pop(m), p),
                                  TeamOf(p) # m.active /\ PendingBallAction(Pop(m))))

(* --------------------------------- PASS -------------------------------- *)
(* Squares under the ruler: 64 steps along the segment, rounded.           *)
Ruler(q, t) ==
  LET step(i, k) == (64 * q[k] + (t[k] - q[k]) * i + 32) \div 64 IN
  {<<step(i, 1), step(i, 2)>> : i \in 1 .. 63} \ {q, t}
Interceptors(s, thrower, target) ==
  {o \in Occupied(s, Ruler(s.at[thrower], target)) :
     /\ TeamOf(o) # TeamOf(thrower) /\ ExertsTz(s, o) /\ ~Has(s, o, "NO_BALL")
     /\ Has(s, thrower, "CLOUD_BURSTER") => Has(s, o, "VERY_LONG_LEGS")}

Flight(s, f) ==
  IF "inaccurate" \in f.data
  THEN Push(BallTo(s, f.sq), [Frame("SCATTER", 0, 3, f.sq) EXCEPT !.data = {"flight"}])
  ELSE IF Empty(s, f.sq) THEN Bounce(BallTo(s, f.sq), f.sq)
  ELSE Push(BallTo(s, f.sq), Frame("CATCH", SlotAt(s, f.sq), 0, NoSq))

StartInterception(s, o) ==
  LET f == Top(s) IN
  Test(SetTop(s, [f EXCEPT !.b = o, !.phase = 3]), o, "CATCH", f.a)

PassThrow ==
  /\ Runs("PASS", 0)
  /\ LET f == Top(m)
         long == Has(m, f.a, "HAIL_MARY_PASS") /\ Dist2(m.at[f.a], f.sq) > PassD2 IN
     m' = IF Has(m, f.a, "NO_PA") THEN MakeTurnover(Pop(m))
          ELSE Test(Phase(Mark(m, IF long THEN {"hmp"} ELSE {}), 1), f.a, "PASS", NoPlayer)

Fumble(s, p) == Bounce(MakeTurnover(DropBall(Pop(s))), s.at[p])

PassRolled ==
  /\ Runs("PASS", 1)
  /\ LET f == Top(m)
         hmp == "hmp" \in f.data
         missed == IF "ok" \in m.ret /\ ~hmp THEN {} ELSE {"inaccurate"}
         air == DropBall(Mark(m, missed))
         may == IF hmp THEN {} ELSE Interceptors(m, f.a, f.sq) IN
     m' = IF m.ret \cap {"one", "low"} # {}
          THEN IF "one" \in m.ret /\ Has(m, f.a, "SAFE_PASS") THEN Pop(m)
               ELSE Fumble(m, f.a)
          ELSE IF Cardinality(may) > 1 THEN Decide(Phase(air, 2), 1 - TeamOf(f.a))
          ELSE IF may # {} THEN StartInterception(air, CHOOSE o \in may : TRUE)
          ELSE Flight(Pop(air), Top(air))

PassIntercept ==
  /\ Asks("PASS", 2)
  /\ \E o \in Interceptors(m, Top(m).a, Top(m).sq) : m' = StartInterception(Answered(m), o)
PassLetGo == Asks("PASS", 2) /\ m' = Flight(Answered(Pop(m)), Top(m))

PassCaught ==
  /\ Runs("PASS", 3)
  /\ m' = IF "ok" \in m.ret THEN CheckTd(MakeTurnover(GiveBall(Pop(m), Top(m).b)))
          ELSE Flight(Pop(m), Top(m))

(* ------------------------------- HANDOFF ------------------------------- *)
HandOff ==
  /\ Runs("HANDOFF", 0)
  /\ m' = Push(BallTo(DropBall(Pop(m)), m.at[Top(m).b]),
               Frame("CATCH", Top(m).b, 0, NoSq))

BallNext ==
  \/ Scatter \/ ThrowIn \/ CatchTry \/ CatchDone
  \/ PassThrow \/ PassRolled \/ PassIntercept \/ PassLetGo \/ PassCaught \/ HandOff
=============================================================================
