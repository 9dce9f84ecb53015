----------------------------- MODULE BlockProcs -----------------------------
(***************************************************************************)
(* Block, push, knock-down, armour, injury, casualty and foul              *)
(* (engine/src/proc_block.c), and the apothecary's window on a knock-out   *)
(* (KO_RECOVERY, engine/src/proc_match.c).  Dice pools are abstracted: the *)
(* coach who chooses may choose any face, armour may break or hold, and an *)
(* injury may be anything the victim can suffer.                           *)
(***************************************************************************)
EXTENDS BallProcs

Flag(cond, flag) == IF cond THEN {flag} ELSE {}
Jugg(s, f) == "from_blitz" \in f.data /\ Has(s, f.a, "JUGGERNAUT")
Free(s, p) == {q \in Near(s.at[p]) : Empty(s, q)}
PlaceProne(s, p) == [s EXCEPT !.stance[p] = "prone"]
(* The ball leaves a player who can no longer hold it.                     *)
Spill(s, p) == IF p \in s.has THEN Bounce(DropBall(s), s.at[p]) ELSE s

(* -------------------------------- BLOCK -------------------------------- *)
Fewest(s, team, qs) ==
  {q \in qs : \A r \in qs : TackleZones(s, team, q) <= TackleZones(s, team, r)}
(* Trickster: where the defender steps to before any die is rolled, if     *)
(* that takes him out of the attacker's reach.                             *)
Trick(s, f) ==
  LET open == Fewest(s, TeamOf(f.b), Free(s, f.b)) IN
  IF Has(s, f.b, "TRICKSTER") /\ f.b \notin s.distracted /\ open # {}
  THEN {q \in {First(open)} : ~Adjacent(q, s.at[f.a])} ELSE {}
(* Dump-Off: the team-mate a carrying defender throws to.                  *)
Dump(s, f) ==
  LET near == {p \in Slots \ {f.b} : /\ TeamOf(p) = TeamOf(f.b) /\ CanCatch(s, p)
                                     /\ Dist2(s.at[p], s.at[f.b]) <= QuickD2}
      best == {p \in near : s.at[p] \in Fewest(s, TeamOf(f.b), {s.at[r] : r \in near})} IN
  IF /\ f.b \in s.has /\ Has(s, f.b, "DUMP_OFF") /\ f.b \notin s.distracted
     /\ ~Has(s, f.b, "NO_PA") /\ "rr_used" \notin f.data
  THEN {p \in best : \A r \in best : p <= r} ELSE {}

BlockTrick ==
  /\ Runs("BLOCK", 0)
  /\ \E q \in Trick(m, Top(m)) : m' = Carry(Place(Pop(m), Top(m).b, q), Top(m).b)

BlockDump ==
  /\ Runs("BLOCK", 0) /\ Trick(m, Top(m)) = {}
  /\ \E r \in Dump(m, Top(m)) :
       \E s \in {GiveBall(DropBall(m), r)}
                  \cup {Bounce(BallTo(DropBall(m), m.at[p]), m.at[p]) : p \in {r, Top(m).b}} :
         m' = s

(* Strength with assists decides how many dice and who chooses.            *)
AttackStrengths(s, f) ==
  {st + Assists(s, f.a, f.b)
      + (IF TeamOf(f.a) \in s.cheer /\ TeamOf(f.a) = s.active THEN 1 ELSE 0)
      + (IF "blitz" \in f.data /\ Has(s, f.a, "HORNS") THEN 1 ELSE 0) :
     st \in {s.st[f.a]} \cup (IF Has(s, f.a, "DAUNTLESS") /\ s.st[f.b] > s.st[f.a]
                              THEN {s.st[f.b]} ELSE {})}
Chooser(f) == IF "def_chooses" \in f.data THEN TeamOf(f.b) ELSE TeamOf(f.a)

BlockRoll ==
  /\ Runs("BLOCK", 0) /\ Trick(m, Top(m)) = {} /\ Dump(m, Top(m)) = {}
  /\ LET f == Top(m)
         team == TeamOf(f.a)
         fans == IF team = m.active THEN [m EXCEPT !.cheer = @ \ {team}] ELSE m IN
     \E st \in AttackStrengths(m, f) :
       LET weak == m.st[f.b] + Assists(m, f.b, f.a) > st
           g == [f EXCEPT !.data = (@ \cap {"blitz", "frenzy2"}) \cup Flag(weak, "def_chooses")]
           rolled == SetTop(fans, g) IN
       m' = IF m.rerolls[team] > 0 /\ m.active = team /\ "rr_used" \notin g.data
            THEN Decide(Phase(rolled, 1), team)
            ELSE Decide(Phase(rolled, 2), Chooser(g))

BlockReroll ==
  /\ Asks("BLOCK", 1)
  /\ \/ m' = Answered(Phase(m, 2))
     \/ m' = Answered(Phase(Mark([m EXCEPT !.rerolls[TeamOf(Top(m).a)] = @ - 1],
                                 {"rr_used"}), 2))

BlockAsk ==
  \E phase \in {2, 4, 5} :
    /\ Runs("BLOCK", phase)
    /\ m' = Decide(m, CASE phase = 2 -> Chooser(Top(m)) [] phase = 4 -> TeamOf(Top(m).a)
                        [] OTHER -> TeamOf(Top(m).b))

ToPush(s, f, pow) ==
  Push(Pop(s), [Frame("PUSH", f.a, f.b, s.at[f.a]) EXCEPT
     !.data = Flag(pow, "pow") \cup Flag("blitz" \in f.data, "from_blitz")
                \cup Flag("frenzy2" \in f.data, "frenzy_done")])

Wrestles(s, p) == Has(s, p, "WRESTLE") /\ p \notin s.distracted
Falls(s, p) == ~(Has(s, p, "BLOCK") /\ p \notin s.distracted)
BothFall(s, f) ==
  LET a == IF Falls(s, f.a) THEN KnockDown(Pop(s), f.a, "block", f.b) ELSE Pop(s) IN
  IF Falls(s, f.b) THEN KnockDown(a, f.b, "block", f.a) ELSE a

WrestleDown(s, p) ==
  LET down == [PlaceProne(s, p) EXCEPT !.rooted = @ \ {p}] IN
  Spill(TurnoverIf(down, p \in s.has /\ TeamOf(p) = s.active), p)
BothWrestle(s, f) == WrestleDown(WrestleDown(Pop(s), f.b), f.a)

Faces == {"attacker_down", "both_down", "push", "stumble", "pow"}
Resolved(s, f, face) ==
  LET dodges == /\ Has(s, f.b, "DODGE") /\ f.b \notin s.distracted
                /\ ~Has(s, f.a, "TACKLE") IN
  CASE face = "attacker_down" -> KnockDown(Pop(s), f.a, "block", f.b)
    [] face = "both_down" ->
         IF "blitz" \in f.data /\ Has(s, f.a, "JUGGERNAUT") THEN ToPush(s, f, FALSE)
         ELSE IF Wrestles(s, f.a) THEN Decide(Phase(s, 4), TeamOf(f.a))
         ELSE IF Wrestles(s, f.b) THEN Decide(Phase(s, 5), TeamOf(f.b))
         ELSE BothFall(s, f)
    [] OTHER -> ToPush(s, f, face = "pow" \/ (face = "stumble" /\ ~dodges))
ChooseDie ==
  Asks("BLOCK", 2) /\ \E face \in Faces : m' = Resolved(Answered(m), Top(m), face)

WrestleChoice ==
  /\ \E phase \in {4, 5} : Asks("BLOCK", phase)
  /\ LET s == Answered(m)
         f == Top(m) IN
     \/ m' = BothWrestle(s, f)
     \/ m' = IF f.phase = 4 /\ Wrestles(s, f.b) THEN Phase(s, 5) ELSE BothFall(s, f)

(* --------------------------------- PUSH -------------------------------- *)
SideSteps(s, f) ==
  /\ Has(s, f.b, "SIDESTEP") /\ ~Jugg(s, f) /\ ~Has(s, f.a, "GRAB")
  /\ Free(s, f.b) # {}
(* The three squares behind the pushed player, seen from where the push    *)
(* comes from.                                                             *)
Behind(s, f) ==
  LET away == <<s.at[f.b][1] - f.sq[1], s.at[f.b][2] - f.sq[2]>>
      dir == IF away \in Dirs THEN away ELSE <<-1, -1>> IN
  {Shift(s.at[f.b], d) : d \in {e \in Dirs : Dist2(dir, e) <= 1}}
Open(s, f) ==
  IF SideSteps(s, f) THEN Free(s, f.b)
  ELSE {q \in Behind(s, f) \cap Squares : Empty(s, q)}

PushBegin ==
  /\ Runs("PUSH", 0)
  /\ LET f == Top(m) IN
     m' = IF f.b \in m.rooted THEN Phase(Mark(m, {"stood_firm"}), 5)
          ELSE IF /\ Has(m, f.b, "STAND_FIRM") /\ ~Jugg(m, f)
                  /\ "sf_declined" \notin f.data /\ f.b \notin m.distracted
          THEN Decide(Phase(m, 4), TeamOf(f.b))
          ELSE Decide(m, IF SideSteps(m, f) THEN TeamOf(f.b) ELSE m.active)

StandFirm ==
  /\ Asks("PUSH", 4)
  /\ \/ m' = Answered(Phase(Mark(m, {"stood_firm"}), 5))
     \/ m' = Answered(Phase(Mark(m, {"sf_declined"}), 0))

Chosen(s, q, phase) ==
  [Answered(s) EXCEPT !.stack[Len(s.stack)].sq = q, !.stack[Len(s.stack)].phase = phase]
PushTo == Asks("PUSH", 0) /\ \E q \in Open(m, Top(m)) : m' = Chosen(m, q, 2)
PushCrowd ==
  /\ Asks("PUSH", 0) /\ Open(m, Top(m)) = {} /\ ~(Behind(m, Top(m)) \subseteq Squares)
  /\ m' = Answered(Phase(Mark(m, {"crowd"}), 2))
PushChain ==
  /\ Asks("PUSH", 0) /\ Open(m, Top(m)) = {}
  /\ \E q \in Behind(m, Top(m)) \cap Squares :
       m' = Push(Chosen(m, q, 1),
                 [Frame("PUSH", Top(m).b, SlotAt(m, q), m.at[Top(m).b])
                    EXCEPT !.data = {"chain"}])

\* mutant: the push goes on although the square ahead is still taken
PushChained_Blind == Runs("PUSH", 1) /\ m' = Phase(m, 2)
PushChained ==
  /\ Runs("PUSH", 1)
  /\ m' = IF Empty(m, Top(m).sq) THEN Phase(m, 2)
          ELSE Phase(Mark(m, {"stood_firm"}), 5)

StepBack(s, f) == [Phase(s, 3) EXCEPT !.stack[Len(s.stack)].sq = s.at[f.b]]

PushSurf ==
  /\ Runs("PUSH", 2) /\ "crowd" \in Top(m).data
  /\ LET f == Top(m)
         p == f.b
         held == p \in m.has
         s == TurnoverIf(StepBack(m, f), TeamOf(p) = m.active)
         off == Remove(IF held THEN DropBall(s) ELSE s, p, "reserves")
         hurt == Push(off, [Frame("INJURY", p, 1, NoSq) EXCEPT !.c = NoPlayer]) IN
     m' = IF held THEN Push(hurt, Frame("THROW_IN", 0, 0, m.at[p])) ELSE hurt

PushMove ==
  /\ Runs("PUSH", 2) /\ "crowd" \notin Top(m).data
  /\ LET f == Top(m)
         p == f.b
         root == "chain" \notin f.data
         moved == Place(StepBack(m, f), p, f.sq)
         stripped == /\ p \in m.has /\ root /\ Has(m, f.a, "STRIP_BALL")
                     /\ {"MONSTROUS_MOUTH", "SURE_HANDS"} \cap m.skills[p] = {}
         s == IF root /\ Has(m, f.a, "EYE_GOUGE") THEN [moved EXCEPT !.gouged = @ \cup {p}]
              ELSE moved IN
     m' = IF stripped THEN Bounce(DropBall(s), f.sq)
          ELSE IF p \in m.has THEN Carry(s, p)
          ELSE IF Loose(s, f.sq) THEN Bounce(s, f.sq) ELSE s

(* The attacker steps into the square the pushed player left.              *)
FollowTo(s, f) == Carry(Place(s, f.a, f.sq), f.a)
PushFollow ==
  /\ Runs("PUSH", 3)
  /\ LET f == Top(m)
         barred == \/ "chain" \in f.data \/ f.a \in m.rooted
                   \/ ~Jugg(m, f) /\ Has(m, f.b, "FEND")
         able == OnPitch(m, f.a) /\ Standing(m, f.a) /\ Empty(m, f.sq) IN
     m' = IF barred THEN Phase(m, 5)
          ELSE IF ~Has(m, f.a, "FRENZY") THEN Decide(m, TeamOf(f.a))
          ELSE IF able THEN Phase(FollowTo(m, f), 5) ELSE Phase(m, 5)
FollowUp ==
  /\ Asks("PUSH", 3)
  /\ \E s \in {m, FollowTo(m, Top(m))} : m' = Answered(Phase(s, 5))

MaxRushes(s, p) == IF Has(s, p, "SPRINT") THEN 3 ELSE 2
BlockAgain(s, f, flags) ==
  Push(s, [Frame("BLOCK", f.a, f.b, NoSq) EXCEPT !.data = {"frenzy2"} \cup flags])
\* mutant: the pushed player is hit again wherever the push took him
SecondBlock_Far(s, f) ==
  /\ {"chain", "crowd", "pow", "frenzy_done"} \cap f.data = {} /\ ~s.turnover
  /\ Has(s, f.a, "FRENZY")
  /\ \A p \in {f.a, f.b} : OnPitch(s, p) /\ Standing(s, p)
SecondBlock(s, f) ==
  /\ {"chain", "crowd", "pow", "frenzy_done"} \cap f.data = {} /\ ~s.turnover
  /\ Has(s, f.a, "FRENZY")
  /\ \A p \in {f.a, f.b} : OnPitch(s, p) /\ Standing(s, p)
  /\ Adjacent(s.at[f.a], s.at[f.b])

(* The push is over: the fall of a player who was hit, then a touchdown,   *)
(* then the second block of a Frenzy (on a blitz it costs a square, or a   *)
(* rush first).                                                            *)
PushEnd ==
  /\ Runs("PUSH", 5)
  /\ LET f == Top(m)
         second == SecondBlock(m, f)
         blitz == "from_blitz" \in f.data
         spent == second /\ blitz /\ m.moved[f.a] >= m.ma[f.a]
         s == Pop(m) IN
     m' = IF spent /\ m.rushes[f.a] < MaxRushes(m, f.a)
          THEN Test([Phase(m, 6) EXCEPT !.rushes[f.a] = @ + 1], f.a, "RUSH", NoPlayer)
          ELSE IF "crowd" \in f.data THEN s
          ELSE IF "pow" \in f.data THEN KnockDown(s, f.b, "block", f.a)
          ELSE IF Scores(s) THEN CheckTd(s)
          ELSE IF second /\ ~spent
          THEN IF blitz THEN BlockAgain([s EXCEPT !.moved[f.a] = @ + 1], f, {"blitz"})
               ELSE BlockAgain(s, f, {})
          ELSE s

FrenzyRush ==
  /\ Runs("PUSH", 6)
  /\ m' = IF "ok" \in m.ret THEN BlockAgain(Pop(m), Top(m), {"blitz"})
          ELSE KnockDown(Pop(m), Top(m).a, "rush", NoPlayer)

(* ------------------------------- KNOCKDOWN ----------------------------- *)
Armour(s, p, why, causer) ==
  Push(s, [Frame("ARMOUR", p, 0, NoSq) EXCEPT !.k = why, !.c = causer])

\* mutant: a player carried off is knocked down as well (review H2)
Downed_Gone(s, f) ==
  LET p == f.a
      held == p \in s.has
      prone == [PlaceProne(s, p) EXCEPT !.rooted = @ \ {p}]
      s1 == TurnoverIf(prone, IF f.k = "ttm" THEN held ELSE TeamOf(p) = s.active)
      safe == IF held /\ Has(s, p, "SAFE_PAIR_OF_HANDS") THEN Free(s, p) ELSE {}
      s2 == IF safe # {} THEN BallTo(DropBall(s1), First(safe)) ELSE Spill(s1, p) IN
  Armour(s2, p, "hit", f.c)
Downed(s, f) ==
  LET p == f.a
      held == p \in s.has
      prone == [PlaceProne(s, p) EXCEPT !.rooted = @ \ {p}]
      s1 == TurnoverIf(prone, IF f.k = "ttm" THEN held ELSE TeamOf(p) = s.active)
      safe == IF held /\ Has(s, p, "SAFE_PAIR_OF_HANDS") THEN Free(s, p) ELSE {}
      s2 == IF safe # {} THEN BallTo(DropBall(s1), First(safe)) ELSE Spill(s1, p) IN
  IF OnPitch(s, p) THEN Armour(s2, p, "hit", f.c) ELSE s

(* Saboteur: he is knocked out where he stands and takes the blocker down. *)
Sabotage(s, f) ==
  LET held == f.a \in s.has
      off == Remove(IF held THEN DropBall(s) ELSE s, f.a, "ko") IN
  KnockDown(IF held THEN Bounce(off, s.at[f.a]) ELSE off, f.c, "ttm", NoPlayer)

KnockedDown ==
  /\ Runs("KNOCKDOWN", 0)
  /\ LET f == Top(m) IN
     \/ m' = Downed(Pop(m), f)
     \/ OnPitch(m, f.a) /\ Has(m, f.a, "STEADY_FOOTING") /\ m' = Pop(m)
     \/ /\ OnPitch(m, f.a) /\ Has(m, f.a, "SABOTEUR") /\ f.k = "block" /\ f.c # NoPlayer
        /\ m' = Sabotage(Pop(m), f)

(* -------------------- ARMOUR, INJURY, KO_RECOVERY, CASUALTY ------------ *)
ArmourRoll ==
  /\ Runs("ARMOUR", 0)
  /\ \E broken, double \in BOOLEAN :
       LET f == Top(m)
           git == f.c # NoPlayer /\ Has(m, f.c, "SNEAKY_GIT")
           seen == double /\ f.k # "hit" /\ (broken \/ ~git)
           s == Return(m, Flag(broken, "ok") \cup Flag(seen, "spotted")) IN
       m' = IF broken
            THEN Push(s, [Frame("INJURY", f.a, IF f.k = "hit" THEN 0 ELSE 2, NoSq)
                            EXCEPT !.c = f.c])
            ELSE s

Hurts(s, p) == {"stun", "ko", "cas"} \cup Flag(Has(s, p, "STUNTY"), "bh")
InjuryRoll ==
  /\ Runs("INJURY", 0)
  /\ \E hurt \in Hurts(m, Top(m).a), double \in BOOLEAN :
       LET f == Top(m)
           p == f.a
           spilt == Spill(TurnoverIf(Pop(m), p \in m.has /\ TeamOf(p) = m.active), p)
           s == IF f.b = 2 /\ double THEN [spilt EXCEPT !.ret = @ \cup {"spotted"}]
                ELSE spilt IN
       m' = CASE hurt = "stun" /\ f.b = 1 -> [s EXCEPT !.loc[p] = "reserves"]
              [] hurt = "stun" /\ f.b # 1 -> [s EXCEPT !.stance[p] = "stunned"]
              [] hurt = "ko" -> IF m.apothecary[TeamOf(p)] > 0
                                THEN Push(s, Frame("KO_RECOVERY", p, f.b, NoSq))
                                ELSE Banish(s, p, "ko")
              [] hurt = "bh" -> Banish(s, p, "cas")
              [] hurt = "cas" -> Push(s, [Frame("CASUALTY", p, f.b, NoSq) EXCEPT !.c = f.c])

Apothecary(s, p) == [s EXCEPT !.apothecary[TeamOf(p)] = @ - 1]

PatchAsk == Runs("KO_RECOVERY", 0) /\ m' = Decide(m, TeamOf(Top(m).a))
Patch ==
  /\ Asks("KO_RECOVERY", 0)
  /\ LET p == Top(m).a
         s == Answered(Pop(m))
         cured == Apothecary(s, p) IN
     \/ m' = IF Top(m).b = 1 THEN [cured EXCEPT !.loc[p] = "reserves"]
             ELSE [cured EXCEPT !.stance[p] = "stunned"]
     \/ m' = Banish(s, p, "ko")

CasualtyRoll ==
  /\ Runs("CASUALTY", 0)
  /\ LET p == Top(m).a
         s == Pop(m) IN
     \/ Has(m, p, "REGENERATION") /\ m' = Banish(s, p, "reserves")
     \/ \E rolled \in {{}, {"bh1"}} :
          m' = IF m.apothecary[TeamOf(p)] = 0 THEN Banish(s, p, "cas")
               ELSE Phase(Mark(Push(s, Frame("CASUALTY", p, 1, NoSq)), rolled), 1)

CasualtyAsk ==
  \E phase \in {1, 2} : Runs("CASUALTY", phase) /\ m' = Decide(m, TeamOf(Top(m).a))
CasualtyChoice ==
  /\ Asks("CASUALTY", 1)
  /\ \/ m' = Banish(Answered(Pop(m)), Top(m).a, "cas")
     \/ \E rolled \in {{}, {"bh2"}} :
          m' = Answered(Phase(Mark(Apothecary(m, Top(m).a), rolled), 2))
CasualtyPick ==
  /\ Asks("CASUALTY", 2)
  /\ \E pick \in {"bh1", "bh2"} :
       m' = Banish(Answered(Pop(m)), Top(m).a,
                   IF pick \in Top(m).data THEN "reserves" ELSE "cas")

(* --------------------------------- FOUL -------------------------------- *)
\* mutant: what an earlier foul left in the return register is still there
FoulRoll_Stale ==
  /\ Runs("FOUL", 0)
  /\ m' = Armour(Phase(m, 1), Top(m).b, "foul", Top(m).a)
FoulRoll ==
  /\ Runs("FOUL", 0)
  /\ m' = Armour([Phase(m, 1) EXCEPT !.ret = {}], Top(m).b, "foul", Top(m).a)

\* mutant: the player is sent off with the ball he holds
SendOff_Keeps(s, p) == MakeTurnover(Remove(s, p, "sent_off"))
SendOff(s, p) ==
  MakeTurnover(Remove(IF p \in s.has THEN Bounce(DropBall(s), s.at[p]) ELSE s, p, "sent_off"))

FoulSeen ==
  /\ Runs("FOUL", 1)
  /\ LET p == Top(m).a
         team == TeamOf(p)
         caught(s) == IF team \in s.ejected THEN SendOff(Pop(s), p)
                      ELSE Decide(Phase(s, 2), team)
         paid == [m EXCEPT !.bribes[team] = @ - 1] IN
     IF "spotted" \notin m.ret THEN m' = Pop(m)
     ELSE IF m.bribes[team] = 0 THEN m' = caught(m)
     ELSE m' = [Pop(paid) EXCEPT !.turnover = FALSE] \/ m' = caught(paid)

Argue ==
  /\ Asks("FOUL", 2)
  /\ LET p == Top(m).a
         s == Answered(Pop(m)) IN
     \/ m' = SendOff(s, p)
     \/ m' = SendOff([s EXCEPT !.ejected = @ \cup {TeamOf(p)}], p)
     \/ m' = MakeTurnover(s)

BlockNext ==
  \/ BlockTrick \/ BlockDump \/ BlockRoll \/ BlockReroll \/ BlockAsk
  \/ ChooseDie \/ WrestleChoice
  \/ PushBegin \/ StandFirm \/ PushTo \/ PushCrowd \/ PushChain \/ PushChained
  \/ PushMove \/ PushSurf \/ PushFollow \/ FollowUp \/ PushEnd \/ FrenzyRush
HurtNext ==
  \/ KnockedDown \/ ArmourRoll \/ InjuryRoll \/ PatchAsk \/ Patch
  \/ CasualtyRoll \/ CasualtyAsk \/ CasualtyChoice \/ CasualtyPick
  \/ FoulRoll \/ FoulSeen \/ Argue
=============================================================================
