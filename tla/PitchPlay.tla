----------------------------- MODULE PitchPlay -----------------------------
(***************************************************************************)
(* One activation played out on the board: the procedure machine of        *)
(* bb_advance and bb_apply with MOVE and everything it can lead to, from   *)
(* the declaration (Starts) to the moment ACTIVATION, or a TOUCHDOWN frame,*)
(* is on top again; or one setup or kick-off, until MATCH is.  What those   *)
(* frames do is in TeamTurn and MatchDriver.                               *)
(***************************************************************************)
EXTENDS KickoffProc

CONSTANT Starts \* the boundary states activations are played from; `from` in
                \* them says what was declared, and whether the active side
                \* had the ball, and is left alone by every handler

(* ------------------------------ a match record ------------------------- *)
Fields ==
  {"stack", "status", "asks", "ret", "loc", "at", "grid", "stance", "skills", "st", "ma",
   "moved", "rushes", "has", "distracted", "rooted", "gouged", "cheer", "usedPro",
   "skillUsed", "acting", "active", "rerolls", "bribes", "apothecary", "ejected",
   "turnover", "from", "ball"}
Locations == {"pitch", "reserves", "ko", "cas", "sent_off", "absent"}
IsMatch(s) == s = [x \in Fields |-> s[x]]
IsBall(b) == b = [x \in {"state", "carrier", "sq"} |-> b[x]]
Typed(s) ==
  /\ s.loc \in [Slots -> Locations] /\ s.at \in [Slots -> Squares]
  /\ s.grid \in [Squares -> Slots \cup {NoPlayer}] /\ s.has \subseteq Slots
Board(s) == IsMatch(s) /\ Typed(s) /\ IsBall(s.ball) /\ BallAgrees(s)

(* An activation that has just been declared; a setup or a kick-off, with   *)
(* the ball off the pitch or in the air.                                   *)
Declared(S) ==
  /\ Len(S) = 3
  /\ S[3].a \in Slots
  /\ S = <<Frame("TEAM_TURN", S[1].a, S[1].b, NoSq), Frame("ACTIVATION", S[2].a, S[2].b, NoSq),
           [Frame("MOVE", S[3].a, 0, NoSq) EXCEPT !.k = S[3].k, !.c = 0]>>
Called(S) ==
  /\ Len(S) = 2
  /\ S[2].proc \in {"SETUP", "KICKOFF"} /\ S[2].a \in Teams
  /\ S[2].proc = "KICKOFF" => S[2].phase # 3
  /\ S = <<Frame("MATCH", 0, 0, NoSq),
           [Frame(S[2].proc, S[2].a, 0, S[2].sq) EXCEPT !.phase = S[2].phase]>>

ASSUME StartsAssumption ==
  \A s \in Starts :
    /\ Board(s) /\ s.status = "running"
    /\ \/ Declared(s.stack)
       \/ Called(s.stack) /\ s.has = {} /\ s.ball.state # "ground"

(* Whoever has the ball stands.  What a saved state must satisfy            *)
(* (bb_match.c:110-118) does not say so, but no handler leaves it otherwise *)
(* (CarriersStand, in PitchCarry_proofs).                                  *)
Stances == {"standing", "prone", "stunned"}
OnFeet(s) == {p \in Slots : Standing(s, p)}
CarrierStands(s) == s.stance \in [Slots -> Stances] /\ s.has \subseteq OnFeet(s)
ASSUME CarrierAssumption == \A s \in Starts : CarrierStands(s)

Init == m \in Starts

Settled ==
  m.status = "running" /\ Top(m).proc \in {"ACTIVATION", "TOUCHDOWN", "MATCH"}
(* ACTIVATION or TOUCHDOWN goes on from here.                              *)
Done == Settled /\ UNCHANGED m

Next ==
  \/ Done \/ TestNext \/ BallNext \/ BlockNext \/ HurtNext \/ MoveNext \/ Ttm
  \/ SetupNext \/ KickNext

Spec == Init /\ [][Next]_m

Over == Settled /\ Top(m).proc = "ACTIVATION"
ActiveHolds(s) == s.ball.carrier # NoPlayer /\ TeamOf(s.ball.carrier) = s.active

(* ------------------------------ properties ----------------------------- *)
Procs == {"TEAM_TURN", "ACTIVATION", "MOVE", "TEST", "SCATTER", "THROW_IN", "CATCH", "PASS",
          "HANDOFF", "BLOCK", "PUSH", "KNOCKDOWN", "ARMOUR", "INJURY", "KO_RECOVERY",
          "CASUALTY", "FOUL", "TTM", "TOUCHDOWN", "KICKOFF", "SETUP", "MATCH"}
(* Everybody is where he can be, nobody is paid for with what a team does  *)
(* not have, and nobody acts beyond his allowance of rushes.               *)
TypeOK ==
  /\ m.status \in {"running", "decision", "error"}
  /\ m.stack # <<>> /\ \A i \in DOMAIN m.stack : m.stack[i].proc \in Procs
  /\ \A p \in Slots : /\ m.loc[p] \in {"pitch", "reserves", "ko", "cas", "sent_off", "absent"}
                      /\ m.stance[p] \in {"standing", "prone", "stunned"}
                      /\ m.rushes[p] <= MaxRushes(m, p)
  /\ \A t \in Teams : {m.rerolls[t], m.bribes[t], m.apothecary[t]} \subseteq Nat

(* The flags, ball.carrier and the ball's square agree after every handler, *)
(* and whoever has the ball is on the pitch: what fuzz_match.c:51-57 and    *)
(* test_match.c:60-68 look at, at decisions.                               *)
BallKept == BallAgrees(m)

(* The grid and the players' squares agree after every handler.            *)
GridKept == GridAgrees(m)

(* The procedure stack never overflows and no handler meets a state it     *)
(* calls an error.                                                         *)
NeverErrs == m.status # "error"

(* A block is thrown by a standing player at a standing opponent next to   *)
(* him.                                                                    *)
FairBlocks ==
  Runs("BLOCK", 0) =>
    /\ \A p \in {Top(m).a, Top(m).b} : OnPitch(m, p) /\ Standing(m, p)
    /\ TeamOf(Top(m).a) # TeamOf(Top(m).b)
    /\ Adjacent(m.at[Top(m).a], m.at[Top(m).b])

(* The side whose turn it is does not come out of an activation without    *)
(* the ball it went in with, unless it lost its turn: but for a Saboteur    *)
(* who goes down in a block of his own, out before the turnover is called  *)
(* (proc_block.c:855-868).                                                 *)
Sabotaged ==
  \E p \in Slots : TeamOf(p) = m.active /\ Has(m, p, "SABOTEUR") /\ m.loc[p] = "ko"
PossessionPaid == Over /\ m.from.ours => ActiveHolds(m) \/ m.turnover \/ Sabotaged

(* A carrier who stands where he scores, and nobody has seen it: no         *)
(* TOUCHDOWN, and no knock-down of his still to come.                      *)
Falling(s, p) == \E i \in DOMAIN s.stack : s.stack[i].proc = "KNOCKDOWN" /\ s.stack[i].a = p
Unseen(s) == Scores(s) /\ Top(s).proc # "TOUCHDOWN" /\ ~Falling(s, s.ball.carrier)

(* The steps that bring a carrier there and do not look (what brought him   *)
(* there may look later, or never): Shadowing, Trickster, Dump-Off, and    *)
(* Steady Footing, with which he does not go down after all.               *)
Overlooks(p) ==
  LET f == Top(m) IN
  \/ f.proc = "MOVE" /\ p # f.a /\ Has(m, p, "SHADOWING") /\ m'.at[p] = m.at[f.a]
  \/ f.proc = "BLOCK" /\ p = f.b /\ Has(m, p, "TRICKSTER")
  \/ f.proc = "BLOCK" /\ p # f.b /\ f.b \in m.has /\ Has(m, f.b, "DUMP_OFF")
  \/ f.proc = "KNOCKDOWN" /\ p = f.a /\ Has(m, p, "STEADY_FOOTING")

(* A push looks when it is over: but not after the crowd got his opponent,  *)
(* nor with a knock-down still to do, nor before the rush of a Frenzy      *)
(* (proc_block.c:659-692), whoever followed up.                            *)
LooksAway(f) == {"crowd", "pow"} \cap f.data # {} \/ SecondBlock(m, f)

(* Whoever comes to stand in the end zone with the ball, by a step, a jump, *)
(* a catch, a throw, a block or a push of either side, is seen to score at *)
(* once, or when the push that took him there is over.                     *)
TouchdownsSeen ==
  /\ Unseen(m') /\ ~(Unseen(m) /\ m.ball.carrier = m'.ball.carrier)
     => Overlooks(m'.ball.carrier) \/ Top(m').proc = "PUSH"
  /\ Unseen(m') /\ Runs("PUSH", 5) => LooksAway(Top(m))

(* A standing player on a loose ball, with nothing to come of it: no        *)
(* bounce, catch or pick-up, and no knock-down of his.                     *)
Minds(f) ==
  \/ f.proc \in {"SCATTER", "CATCH", "PASS", "THROW_IN"}
  \/ f.proc = "MOVE" /\ "await_pickup" \in f.data
Underfoot(s) ==
  LET p == SlotAt(s, s.ball.sq) IN
  /\ s.ball.state = "ground" /\ p # NoPlayer /\ Standing(s, p) /\ ~Falling(s, p)
  /\ \A i \in DOMAIN s.stack : ~Minds(s.stack[i])

(* The steps that put him there and leave the ball alone: he follows up,    *)
(* hits and runs, shadows or tricks, lands after a throw, keeps his feet,  *)
(* or gets up where he lay on it.                                          *)
Overruns(p) ==
  LET f == Top(m) IN
  \/ f.proc = "PUSH" /\ f.phase = 3 /\ p = f.a
  \/ f.proc = "TTM" /\ p = f.a
  \/ f.proc = "BLOCK" /\ p = f.b /\ Has(m, p, "TRICKSTER")
  \/ f.proc = "KNOCKDOWN" /\ p = f.a /\ Has(m, p, "STEADY_FOOTING")
  \/ f.proc = "MOVE" /\ p # f.a /\ Has(m, p, "SHADOWING") /\ m'.at[p] = m.at[f.a]
  \/ f.proc = "MOVE" /\ p = f.a /\ f.k = "BLOCK" /\ Has(m, p, "HIT_AND_RUN")
  \/ f.proc = "MOVE" /\ p = f.a /\ m.stance[p] = "prone"

(* Nobody else is left standing on a loose ball: it bounces, or whoever it  *)
(* reaches tries for it.                                                   *)
BallMinded ==
  LET p == SlotAt(m', m'.ball.sq) IN
  Underfoot(m') /\ ~(Underfoot(m) /\ SlotAt(m, m.ball.sq) = p) => Overruns(p)

(* A kick-off ends with the ball in play: in the receiving half, or in a    *)
(* receiver's hands.                                                       *)
KickedIn ==
  LET kicker == m.from.kicker IN
  Settled /\ Top(m).proc = "MATCH" /\ m.from.kind = "KICK" =>
    /\ m.ball.state \in {"held", "ground"} /\ m.ball.sq \in Squares
    /\ \/ ~OwnHalf(kicker, m.ball.sq[1])
       \/ m.ball.state = "held" /\ TeamOf(m.ball.carrier) = 1 - kicker

(* No step leaves a touchdown unseen or a ball underfoot, but for those     *)
(* named; and a kick-off leaves the ball in play.                          *)
NothingOpen == [][TouchdownsSeen /\ BallMinded /\ KickedIn']_m

(* Whoever has set up, in SETUP or in a Solid Defence, stands in a legal    *)
(* formation, even if his actions ran out first.                           *)
FormsUp ==
  [][LET n == Len(m.stack) IN
     /\ m.status = "decision"
     /\ Top(m).proc = "SETUP" \/ (Top(m).proc = "KICKOFF" /\ Top(m).phase = 5)
     /\ m'.stack[n].phase # Top(m).phase
     => ConstraintsOk(m', m.asks)]_m

(* Whoever is carried off is out of the activation that goes on without    *)
(* him: he does not come back, and no blow still to come lays him down.    *)
RemovedStays ==
  [][\A p \in Slots :
       ~OnPitch(m, p) /\ m.from.kind \notin {"SETUP", "KICK"}
         => ~OnPitch(m', p) /\ m'.stance[p] = m.stance[p]]_m

(* A frame that waits for a die is woken by its own test, never by          *)
(* something else that wrote the return register or left it alone.         *)
AwaitsDie(s) ==
  /\ s.status = "running"
  /\ LET f == Top(s) IN
     \/ f.proc \in {"CATCH", "PASS"} /\ f.phase \in {1, 3}
     \/ f.proc = "PUSH" /\ f.phase = 6
     \/ f.proc = "MOVE" /\ {"await_test", "await_pickup", "stand_pend"} \cap f.data # {}
OwnDie ==
  [][AwaitsDie(m') =>
       Top(m).proc = "TEST" /\ Len(m.stack) = Len(m'.stack) + 1 /\ Top(m).a \in Slots]_m

(* A double on a foul's armour or injury roll reaches FOUL whatever the     *)
(* injury led to in between, and what an earlier foul left in the return   *)
(* register is gone when its armour is rolled.                             *)
Fouling(s) == \E i \in DOMAIN s.stack : s.stack[i].proc = "FOUL" /\ s.stack[i].phase = 1
DoubleSeen ==
  [][Fouling(m) /\ Top(m).proc # "FOUL" =>
       CASE Top(m).proc = "ARMOUR" -> "spotted" \notin m.ret
         [] OTHER -> "spotted" \in m.ret => "spotted" \in m'.ret]_m
=============================================================================
