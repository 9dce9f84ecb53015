----------------------------- MODULE MoveProcs -----------------------------
(***************************************************************************)
(* MOVE (engine/src/proc_move.c): the machine that drives every kind of    *)
(* activation.  The frame's data bits are the flags below; `sq` is the     *)
(* pending destination, and `c` is bits 9 to 13, shared by the target of a *)
(* pending block or stab, the rushes a jump still needs and the team-mate  *)
(* picked up for a throw:                                                  *)
(*   block_done action_done rush_pend dodge_pend await_test await_pickup   *)
(*   await_block await_action stand_pend block_rush jump                   *)
(***************************************************************************)
EXTENDS BlockProcs

CONSTANT ThrowD2 \* 42: squared length of the longest throw of a team-mate

Left(s, p) == IF s.ma[p] > s.moved[p] THEN s.ma[p] - s.moved[p] ELSE 0
RushLeft(s, p) == s.rushes[p] < MaxRushes(s, p)
CanStep(s, p) ==
  /\ Standing(s, p) /\ p \notin s.rooted
  /\ Left(s, p) > 0 \/ RushLeft(s, p)

Waits(flags) == Runs("MOVE", 0) /\ flags \subseteq Top(m).data
Clears(flags) == Top(m).data \cap flags = {}
Unmark(s, flags) == [s EXCEPT !.stack[Len(s.stack)].data = @ \ flags]
Note(s, n) == [s EXCEPT !.stack[Len(s.stack)].c = n]
Aim(s, q) == [s EXCEPT !.stack[Len(s.stack)].sq = q]
Passed == "ok" \in m.ret
Mover == Top(m).a

(* One square further: beyond his movement allowance it is a rush.         *)
Charge(s, p) ==
  [s EXCEPT !.moved[p] = @ + 1, !.rushes[p] = IF s.moved[p] >= s.ma[p] THEN @ + 1 ELSE @]
Relocate(s, p, q) == Carry(Place(s, p, q), p)

(* The mover is on q: the touchdown, then the ball lying there.            *)
Arrived(s, p, q, kind) ==
  IF p \in s.has THEN CheckTd(s)
  ELSE IF ~Loose(s, q) THEN s
  ELSE IF Has(s, p, "NO_BALL") THEN Bounce(MakeTurnover(Pop(s)), q)
  ELSE Test(Mark(s, {"await_pickup"}), p, kind, NoPlayer)

(* Shadowing: the first marker left behind who has the skill may follow    *)
(* into the vacated square.                                                *)
Shadows(s, p, from, to) ==
  LET able == {q \in Near(from) :
                 LET o == SlotAt(s, q) IN
                 /\ ~Empty(s, q) /\ TeamOf(o) # TeamOf(p) /\ ExertsTz(s, o)
                 /\ Has(s, o, "SHADOWING") /\ ~Adjacent(q, to)} IN
  IF able = {} THEN {s} ELSE {s, Relocate(s, SlotAt(s, First(able)), from)}

ExecuteStep(s) ==
  LET f == Top(s)
      p == f.a
      stepped == Relocate(Charge(s, p), p, f.sq) IN
  {Arrived(t, p, f.sq, IF f.k = "SECURE" THEN "GENERIC" ELSE "PICKUP") :
     t \in Shadows(stepped, p, s.at[p], f.sq)}

Asking(s) ==
  LET p == Top(s).a IN
  IF \/ s.turnover \/ ~OnPitch(s, p) \/ s.stance[p] = "stunned"
     \/ s.stance[p] = "prone" /\ s.moved[p] > 0
  THEN Pop(s) ELSE Decide(s, TeamOf(p))

(* ------------------------------ the answers ---------------------------- *)
RushFor(s, p, flags) ==
  Test(Mark([s EXCEPT !.rushes[p] = @ + 1], {"await_test", "rush_pend"} \cup flags),
       p, "RUSH", NoPlayer)

JumpRushed ==
  /\ Waits({"await_test", "jump", "rush_pend"})
  /\ LET s == Note(Unmark(m, {"await_test", "rush_pend"}), Top(m).c - 1) IN
     m' = IF ~Passed THEN KnockDown(Pop(m), Mover, "rush", NoPlayer)
          ELSE IF Top(s).c > 0 THEN RushFor(s, Mover, {})
          ELSE Test(Mark(s, {"await_test"}), Mover, "JUMP", NoPlayer)

JumpLanded ==
  /\ Waits({"await_test", "jump"}) /\ Clears({"rush_pend"})
  /\ LET f == Top(m)
         s == Relocate(Unmark(m, {"await_test", "jump"}), f.a, f.sq) IN
     m' = IF Passed THEN Arrived(s, f.a, f.sq, "PICKUP")
          ELSE KnockDown(Pop(s), f.a, "dodge", NoPlayer)

BlockRushed ==
  /\ Waits({"await_test", "block_rush"}) /\ Clears({"jump"})
  /\ LET f == Top(m)
         s == Note(Unmark(m, {"await_test", "rush_pend", "block_rush"}), 0) IN
     m' = IF ~Passed THEN KnockDown(Pop(m), f.a, "rush", NoPlayer)
          ELSE IF "action_done" \in f.data
          THEN Armour(Mark(s, {"await_action"}), f.c, "stab", f.a)
          ELSE Push(Mark(s, {"await_block"}),
                    [Frame("BLOCK", f.a, f.c, NoSq) EXCEPT !.data = {"blitz"}])

(* Diving Tackle: where somebody stands who makes a narrow dodge fail, and *)
(* then lies in the square the mover left.                                 *)
Divers(s, p) ==
  {q \in Near(s.at[p]) :
     LET o == SlotAt(s, q) IN
     /\ ~Empty(s, q) /\ TeamOf(o) # TeamOf(p) /\ ExertsTz(s, o)
     /\ Has(s, o, "DIVING_TACKLE") /\ o \notin s.has}
StepFailed(s, cause, diver) ==
  LET f == Top(s)
      there == Relocate(Charge(s, f.a), f.a, f.sq)
      dived == IF diver = NoPlayer THEN there
               ELSE PlaceProne(Place(there, diver, s.at[f.a]), diver) IN
  KnockDown(Pop(dived), f.a, cause, NoPlayer)

StepTested ==
  /\ Waits({"await_test"}) /\ Clears({"jump", "block_rush"})
  /\ LET f == Top(m)
         rush == "rush_pend" \in f.data
         divers == IF ~rush /\ Passed /\ "close" \in m.ret THEN Divers(m, f.a) ELSE {}
         s == Unmark(m, {"await_test", "rush_pend"}) IN
     IF divers # {}
     THEN m' = StepFailed([s EXCEPT !.ret = @ \ {"ok"}], "dodge",
                          SlotAt(m, First(divers)))
     ELSE IF ~Passed THEN m' = StepFailed(s, IF rush THEN "rush" ELSE "dodge", NoPlayer)
     ELSE IF "dodge_pend" \in f.data
     THEN m' = Test(Mark(Unmark(s, {"dodge_pend"}), {"await_test"}), f.a, "DODGE", NoPlayer)
     ELSE m' \in ExecuteStep(s)

PickupTested ==
  /\ Waits({"await_pickup"}) /\ Clears({"await_test"})
  /\ LET s == GiveBall(Unmark(m, {"await_pickup"}), Mover) IN
     m' = IF ~Passed THEN Bounce(MakeTurnover(Pop(m)), m.ball.sq)
          ELSE IF Scores(s) THEN CheckTd(s)
          ELSE IF Top(m).k = "SECURE" THEN Pop(s) ELSE Asking(s)

(* A pass, hand-off, foul or special attack is over, with all it led to.   *)
\* mutant: who holds the ball is not looked at once the action is over
ActionOver_Blind ==
  /\ Waits({"await_action"}) /\ Clears({"await_test", "await_pickup"})
  /\ m' = Pop(m)
ActionOver ==
  /\ Waits({"await_action"}) /\ Clears({"await_test", "await_pickup"})
  /\ LET f == Top(m)
         p == f.a
         thrown == f.k \in {"PASS", "HANDOFF"}
         lost == thrown /\ (m.ball.carrier = NoPlayer \/ TeamOf(m.ball.carrier) # m.active)
         s == TurnoverIf(Unmark(m, {"await_block", "await_action"}), lost)
         again == /\ ~s.turnover
                  /\ \/ f.k = "FOUL" /\ OnPitch(m, p) /\ Has(m, p, "QUICK_FOUL")
                     \/ /\ thrown /\ Has(m, p, "GIVE_AND_GO")
                        /\ f.k = "PASS" => f.sq[1] = 1 IN
     m' = IF again THEN Decide(s, TeamOf(p)) ELSE Pop(s)

(* A player of MA 1 or 2 tried to stand; or one with Jump Up to block from *)
(* the ground.  In a BLOCK activation the code takes the first for the     *)
(* second.                                                                 *)
StandUpTested ==
  /\ Waits({"stand_pend"}) /\ Clears({"await_test", "await_pickup", "await_action"})
  /\ LET f == Top(m)
         p == f.a
         s == Unmark(m, {"stand_pend", "await_block"})
         up == [s EXCEPT !.stance[p] = "standing"] IN
     m' = IF ~Passed THEN Pop(s)
          ELSE IF f.k = "BLOCK"
          THEN Push(Mark(Note(up, 0), {"await_block", "block_done"}),
                    Frame("BLOCK", p, f.c, NoSq))
          ELSE Asking([up EXCEPT !.moved[p] = m.ma[p], !.rushes[p] = MaxRushes(m, p)])

MoveAsk ==
  /\ Runs("MOVE", 0)
  /\ Clears({"await_test", "await_pickup", "await_action", "stand_pend"})
  /\ m' = Asking(Unmark(m, {"await_block"}))

(* ------------------------------ the choices ---------------------------- *)
Plays(kinds) == Asks("MOVE", 0) /\ Top(m).k \in kinds /\ Standing(m, Mover)
\* mutant: a player who picked up a team-mate may still walk away from him
MayMove_Carrying ==
  Asks("MOVE", 0) /\ CanStep(m, Mover) /\ Top(m).k # "BLOCK"
MayMove ==
  /\ Asks("MOVE", 0) /\ CanStep(m, Mover) /\ Top(m).k # "BLOCK"
  /\ ~(Top(m).k \in {"TTM", "KTM"} /\ "block_done" \in Top(m).data)

EndActivation == Asks("MOVE", 0) /\ m' = Answered(Pop(m))

StandUp ==
  /\ Asks("MOVE", 0) /\ m.stance[Mover] = "prone"
  /\ LET s == Answered(m)
         up == [s EXCEPT !.stance[Mover] = "standing"] IN
     m' = IF Has(m, Mover, "JUMP_UP") THEN up
          ELSE IF m.ma[Mover] < 3
          THEN Test(Mark(s, {"stand_pend"}), Mover, "STANDUP", NoPlayer)
          ELSE [up EXCEPT !.moved[Mover] = 3]

JumpReady(s, p) == Left(s, p) + MaxRushes(s, p) - s.rushes[p] >= 2
(* Tentacles: the first marker who has them may end the activation.        *)
Held(s, p) == \E o \in Foes(s, p) : ExertsTz(s, o) /\ Has(s, o, "TENTACLES")
(* The mover takes one step, legal or not.                                 *)
StepTo(q) ==
  LET p == Mover
      dodge == Markers(m, TeamOf(p), m.at[p]) # {}
      s == Aim(Answered(m), q) IN
  \/ Held(m, p) /\ m' = Answered(Pop(m))
  \/ IF m.moved[p] >= m.ma[p]
     THEN m' = Test(Mark(s, {"await_test", "rush_pend"} \cup Flag(dodge, "dodge_pend")),
                    p, "RUSH", NoPlayer)
     ELSE IF dodge THEN m' = Test(Mark(s, {"await_test"}), p, "DODGE", NoPlayer)
     ELSE m' \in ExecuteStep(s)
Step == MayMove /\ \E q \in Free(m, Mover) : StepTo(q)

JumpSquares(s, p) ==
  LET over == {j \in Near(s.at[p]) :
                 \/ ~Empty(s, j) /\ ~Standing(s, SlotAt(s, j))
                 \/ {"LEAP", "POGO"} \cap s.skills[p] # {}} IN
  {q \in UNION {Near(j) : j \in over} :
     Empty(s, q) /\ q # s.at[p] /\ ~Adjacent(q, s.at[p])}
Jump ==
  /\ MayMove
  /\ JumpReady(m, Mover)
  /\ \E q \in JumpSquares(m, Mover) :
       LET p == Mover
           need == IF Left(m, p) < 2 THEN 2 - Left(m, p) ELSE 0
           spent == m.moved[p] + 2 - need
           s == Mark(Note(Aim([Answered(m) EXCEPT !.moved[p] = Bounded(spent, m.ma[p])], q),
                          need), {"jump"}) IN
       m' = IF need > 0 THEN RushFor(s, p, {})
            ELSE Test(Mark(s, {"await_test"}), p, "JUMP", NoPlayer)

BlockTarget ==
  /\ Asks("MOVE", 0)
  /\ \E o \in StandingFoes(m, Mover) :
       LET f == Top(m)
           p == f.a
           s == Answered(m)
           ready == Mark(s, {"await_block", "block_done"}) IN
       \/ /\ m.stance[p] = "prone" /\ f.k = "BLOCK" /\ Has(m, p, "JUMP_UP")
          /\ m' = Test(Note(Mark(s, {"stand_pend"}), o), p, "GENERIC", NoPlayer)
       \/ /\ Standing(m, p) /\ "block_done" \notin f.data /\ f.k = "BLOCK"
          /\ m' = Push(ready, Frame("BLOCK", p, o, NoSq))
       \/ /\ Standing(m, p) /\ "block_done" \notin f.data /\ f.k = "BLITZ"
          /\ Left(m, p) > 0
          /\ m' = Push([ready EXCEPT !.moved[p] = @ + 1],
                       [Frame("BLOCK", p, o, NoSq) EXCEPT !.data = {"blitz"}])
       \/ /\ Standing(m, p) /\ "block_done" \notin f.data /\ f.k = "BLITZ"
          /\ Left(m, p) = 0 /\ RushLeft(m, p)
          /\ m' = RushFor(Note(Aim(ready, m.at[p]), o), p, {"block_rush"})

(* The ball.                                                               *)
Acting(s) == Mark(s, {"await_action", "action_done"})
BallAction(kind) ==
  Asks("MOVE", 0) /\ Top(m).k = kind /\ m.stance[Mover] # "prone"
    /\ Clears({"action_done"})
PassTarget ==
  /\ BallAction("PASS") /\ Mover \in m.has
  /\ \E q \in Squares \ {m.at[Mover]} :
       LET d2 == Dist2(q, m.at[Mover]) IN
       /\ d2 <= PassD2 \/ Has(m, Mover, "HAIL_MARY_PASS")
       /\ m' = Push(Acting(Aim(Answered(m), <<IF d2 <= QuickD2 THEN 1 ELSE 0, Top(m).sq[2]>>)),
                    Frame("PASS", Mover, 0, q))
HandOffTarget ==
  /\ BallAction("HANDOFF") /\ Mover \in m.has
  /\ \E r \in Mates(m, Mover) :
       /\ ExertsTz(m, r)
       /\ m' = Push(Acting(Answered(m)), Frame("HANDOFF", Mover, r, NoSq))

FoulTarget ==
  /\ BallAction("FOUL")
  /\ \E o \in Foes(m, Mover) :
       /\ ~Standing(m, o)
       /\ m' = Push(Acting(Answered(m)), Frame("FOUL", Mover, o, NoSq))

(* The special attacks.                                                    *)
Stab ==
  /\ Asks("MOVE", 0) /\ Standing(m, Mover)
  /\ \E o \in StandingFoes(m, Mover) :
       LET f == Top(m)
           p == f.a
           s == Answered(m)
           blitz == Mark(s, {"block_done"}) IN
       \/ /\ f.k = "STAB" /\ "action_done" \notin f.data
          /\ m' = Armour(Acting(s), o, "stab", p)
       \/ /\ f.k = "BLITZ" /\ "block_done" \notin f.data /\ Has(m, p, "STAB")
          /\ Left(m, p) > 0
          /\ m' = Armour(Acting([blitz EXCEPT !.moved[p] = @ + 1]), o, "stab", p)
       \/ /\ f.k = "BLITZ" /\ "block_done" \notin f.data /\ Has(m, p, "STAB")
          /\ Left(m, p) = 0 /\ RushLeft(m, p)
          /\ m' = RushFor(Note(Aim(blitz, m.at[p]), o), p, {"block_rush", "action_done"})

Attack(kind) == Plays({kind}) /\ Clears({"action_done"})
Chainsaw ==
  /\ Attack("CHAINSAW")
  /\ \E o \in StandingFoes(m, Mover) :
       LET s == Acting(Answered(m)) IN
       m' \in {KnockDown(s, Mover, "other", NoPlayer), Armour(s, o, "hit", Mover)}
BreatheFire ==
  /\ Attack("BREATHE_FIRE")
  /\ \E o \in StandingFoes(m, Mover) :
       LET s == Acting(Answered(m)) IN
       m' \in {s, KnockDown(s, Mover, "other", NoPlayer), KnockDown(s, o, "other", Mover),
               Spill(TurnoverIf(PlaceProne(s, o), o \in m.has /\ TeamOf(o) = m.active), o)}
Vomit ==
  /\ Attack("VOMIT")
  /\ \E o \in StandingFoes(m, Mover) :
       \E victim \in {o, Mover} : m' = Armour(Acting(Answered(m)), victim, "stab", Mover)
Gaze ==
  /\ Attack("GAZE")
  /\ \E o \in StandingFoes(m, Mover) :
       \E met \in {{}, {o}} : m' = Answered(Pop([m EXCEPT !.distracted = @ \cup met]))
HitAndRun ==
  /\ Plays({"BLOCK"}) /\ "block_done" \in Top(m).data /\ Has(m, Mover, "HIT_AND_RUN")
  /\ \E q \in Free(m, Mover) :
       LET s == Relocate(Answered(m), Mover, q) IN
       /\ Markers(m, TeamOf(Mover), q) = {}
       /\ m' = IF Mover \in m.has /\ Scores(s) THEN CheckTd(s) ELSE Pop(s)

(* Throw Team-mate: pick one up, then throw him.                           *)
Throws == Plays({"TTM", "KTM"}) /\ Clears({"action_done"})
PickMate ==
  /\ Throws /\ Clears({"block_done"})
  /\ \E r \in Mates(m, Mover) :
       Has(m, r, "RIGHT_STUFF") /\ m' = Note(Mark(Answered(m), {"block_done"}), r)
ThrowTarget ==
  /\ Throws /\ "block_done" \in Top(m).data
  /\ \E q \in Squares \ {m.at[Mover]} :
       LET f == Top(m)
           r == f.c
           s == Answered(m) IN
       /\ Dist2(q, m.at[f.a]) <= ThrowD2
       /\ m' = IF /\ r \in Slots /\ OnPitch(m, r) /\ TeamOf(r) = TeamOf(f.a)
                  /\ Adjacent(m.at[r], m.at[f.a]) /\ Has(m, r, "RIGHT_STUFF")
               THEN Push(Acting(s), [Frame("TTM", r, f.a, q)
                                       EXCEPT !.data = Flag(f.k = "KTM", "kick")])
               ELSE Err(s)

MoveNext ==
  \/ JumpRushed \/ JumpLanded \/ BlockRushed \/ StepTested \/ PickupTested
  \/ ActionOver \/ StandUpTested \/ MoveAsk
  \/ EndActivation \/ StandUp \/ Step \/ Jump \/ BlockTarget
  \/ PassTarget \/ HandOffTarget \/ FoulTarget
  \/ Stab \/ Chainsaw \/ BreatheFire \/ Vomit \/ Gaze \/ HitAndRun
  \/ PickMate \/ ThrowTarget
=============================================================================
