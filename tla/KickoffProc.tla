---------------------------- MODULE KickoffProc ----------------------------
(***************************************************************************)
(* SETUP and KICKOFF (engine/src/proc_match.c): the two teams set up, with *)
(* the formation repaired when a coach runs out of actions; the kick       *)
(* deviates, the kick-off event plays out (with the windows in which       *)
(* players are moved, and the Charge!), the ball lands, and whatever comes *)
(* of it either stays in play or is a touchback.                           *)
(*                                                                         *)
(* Frames: SETUP a = the kicking team, b = actions used; KICKOFF a = the   *)
(* kicking team, sq = the kick's target and then the two budgets of an     *)
(* event, data = the players an event has used.                            *)
(***************************************************************************)
EXTENDS TtmProc

CONSTANTS
  SideMax,     \* 11: players of a side on the pitch
  LineMin,     \* 3: players it needs on the line of scrimmage
  WideMax,     \* 2: players it may have in a wide zone
  WideWid,     \* 4: rows of a wide zone
  SetupBudget, \* 24: actions of a setup
  FarthestKick \* 6: squares a kick deviates at most

HalfX == PitchLen \div 2
OwnHalf(team, x) == IF team = 0 THEN x < HalfX ELSE x >= HalfX
Half(team) == {q \in Squares : OwnHalf(team, q[1])}
LineX(team) == IF team = 0 THEN HalfX - 1 ELSE HalfX
Side(team) == team * TeamSlots .. (team + 1) * TeamSlots - 1
Least(a, b) == IF a < b THEN a ELSE b

OnSide(s, team) == {p \in Side(team) : OnPitch(s, p)}
Reserves(s, team) == {p \in Side(team) : s.loc[p] = "reserves"}
Wanted(s, team) ==
  Least(SideMax, Cardinality(OnSide(s, team) \cup Reserves(s, team)))

Wide(q) == {z \in {"top", "bottom"} :
              IF z = "top" THEN q[2] < WideWid ELSE q[2] >= PitchWid - WideWid}
Zone(s, team, z) == {p \in OnSide(s, team) : z \in Wide(s.at[p])}
Line(s, team) == {p \in OnSide(s, team) : s.at[p][1] = LineX(team) /\ Wide(s.at[p]) = {}}
ConstraintsOk(s, team) ==
  /\ Cardinality(OnSide(s, team)) = Wanted(s, team)
  /\ Cardinality(Line(s, team)) >= Least(LineMin, Cardinality(OnSide(s, team)))
  /\ \A z \in {"top", "bottom"} : Cardinality(Zone(s, team, z)) <= WideMax

(* --------------------------- setup_autofix ----------------------------- *)
(* Each repair takes the players it concerns in the order of their slots,   *)
(* and the free squares column by column from the left, or, with `way` -1,  *)
(* from the right.                                                         *)
Rank(p, ps) == Cardinality({r \in ps : r < p})
Facing(q, way) == <<way * q[1], q[2]>>
Nth(qs, way, n) ==
  {q \in qs : Cardinality({r \in qs : Before(Facing(r, way), Facing(q, way))}) = n}
Centre(s, team) == {q \in Half(team) : Empty(s, q) /\ Wide(q) = {}}

(* Each of ps goes to the square of qs that is his in order, if there is one. *)
Seated(s, ps, qs, way) ==
  LET going == {p \in ps : Nth(qs, way, Rank(p, ps)) # {}}
      seat == [p \in going |-> CHOOSE q \in Nth(qs, way, Rank(p, ps)) : TRUE]
      taken == {seat[p] : p \in going} IN
  [s EXCEPT !.loc = [p \in Slots |-> IF p \in going THEN "pitch" ELSE @[p]],
            !.at = [p \in Slots |-> IF p \in going THEN seat[p] ELSE @[p]],
            !.grid = [q \in Squares |-> IF q \in taken THEN CHOOSE p \in going : seat[p] = q
                                       ELSE IF @[q] \in going THEN NoPlayer ELSE @[q]]]

SurplusOff(s, team) ==
  LET off == {p \in OnSide(s, team) : Rank(p, OnSide(s, team)) >= Wanted(s, team)} IN
  [s EXCEPT !.loc = [p \in Slots |-> IF p \in off THEN "reserves" ELSE @[p]],
            !.stance = [p \in Slots |-> IF p \in off THEN "standing" ELSE @[p]],
            !.grid = [q \in Squares |-> IF @[q] \in off THEN NoPlayer ELSE @[q]],
            !.has = @ \ off]
WideCleared(s, team, z) ==
  LET zone == Zone(s, team, z) IN
  Seated(s, {p \in zone : Rank(p, zone) >= WideMax}, Centre(s, team), 1)
LineManned(s, team) ==
  LET others == OnSide(s, team) \ Line(s, team)
      need == Least(LineMin, Cardinality(OnSide(s, team))) - Cardinality(Line(s, team)) IN
  Seated(s, {p \in others : Rank(p, others) < need},
         {q \in Centre(s, team) : q[1] = LineX(team)}, 1)
FilledUp(s, team) ==
  LET spare == Reserves(s, team)
      need == Wanted(s, team) - Cardinality(OnSide(s, team)) IN
  Seated(s, {p \in spare : Rank(p, spare) < need}, Centre(s, team), IF team = 0 THEN -1 ELSE 1)
\* mutant: the line is not manned again
Autofix_NoLine(s, team) ==
  FilledUp(WideCleared(WideCleared(SurplusOff(s, team), team, "top"), team, "bottom"), team)
Autofix(s, team) ==
  FilledUp(LineManned(WideCleared(WideCleared(SurplusOff(s, team), team, "top"),
                                  team, "bottom"), team), team)

(* -------------------------------- SETUP -------------------------------- *)
SetupTeam == IF Top(m).phase = 0 THEN Top(m).a ELSE 1 - Top(m).a
SettingUp == m.status = "decision" /\ Top(m).proc = "SETUP"
SetupAsk ==
  /\ m.status = "running" /\ Top(m).proc = "SETUP"
  /\ m' = IF Top(m).phase <= 1 THEN Decide(m, SetupTeam) ELSE Pop(m)

Used(s) == [s EXCEPT !.stack[Len(s.stack)].b = @ + 1]
Placing(team) == Cardinality(OnSide(m, team)) < SideMax /\ Reserves(m, team) # {}
SetupPlace ==
  /\ SettingUp /\ Top(m).b < SetupBudget
  /\ \E p \in Side(SetupTeam), q \in Half(SetupTeam) :
       /\ Empty(m, q)
       /\ \/ OnPitch(m, p) /\ ~Placing(SetupTeam)
          \/ m.loc[p] = "reserves" /\ Cardinality(OnSide(m, SetupTeam)) < SideMax
       /\ m' = Answered(Place(Used(m), p, q))
SetupRemove ==
  /\ SettingUp /\ Top(m).b < SetupBudget /\ ~Placing(SetupTeam)
  /\ \E p \in OnSide(m, SetupTeam) : m' = Answered(Remove(Used(m), p, "reserves"))
Repaired(s, team) == IF ConstraintsOk(s, team) THEN s ELSE Autofix(s, team)
SetupDone ==
  /\ SettingUp
  /\ ConstraintsOk(m, SetupTeam) \/ Top(m).b >= SetupBudget
  /\ LET s == Repaired(Answered(m), SetupTeam) IN
     m' = [s EXCEPT !.stack[Len(s.stack)].b = 0, !.stack[Len(s.stack)].phase = @ + 1]
SetupNext == SetupAsk \/ SetupPlace \/ SetupRemove \/ SetupDone

(* ------------------------------- KICKOFF ------------------------------- *)
Kicker == Top(m).a
Receiver == 1 - Top(m).a
Misplaced(s, team) ==
  \/ s.ball.state = "off" \/ s.ball.sq \notin Squares \/ OwnHalf(team, s.ball.sq[1])
OpenPlayer(s, p) ==
  OnPitch(s, p) /\ Standing(s, p) /\ Markers(s, TeamOf(p), s.at[p]) = {}

(* The ball comes down: somebody of the receiving side may catch it, and   *)
(* off anybody else, or the ground, it bounces.                            *)
KickLands(s) ==
  LET q == s.ball.sq
      on == Phase(s, 3) IN
  IF Misplaced(s, Top(s).a) THEN on
  ELSE IF ~Empty(s, q) /\ TeamOf(SlotAt(s, q)) = 1 - Top(s).a /\ CanCatch(s, SlotAt(s, q))
  THEN Push(on, Frame("CATCH", SlotAt(s, q), 0, NoSq))
  ELSE Bounce(on, q)

KickAsk == Runs("KICKOFF", 0) /\ m' = Decide(m, Kicker)
KickTarget ==
  Asks("KICKOFF", 0) /\ \E q \in Half(Receiver) : m' = Answered(Phase(Aim(m, q), 1))

(* Coordinates of the kicked ball are bytes.                               *)
Byte(q) == <<q[1] % 256, q[2] % 256>>
Budgets(s, x, y) == [s EXCEPT !.stack[Len(s.stack)].sq = <<x, y>>]
Gust(s) ==
  LET start == {[s EXCEPT !.ball.sq = Byte(q)] : q \in Around(s.ball.sq)}
      on(ts) == UNION {IF Misplaced(t, Top(s).a) THEN {t}
                       ELSE {[t EXCEPT !.ball.sq = Byte(q)] : q \in Around(t.ball.sq)} : t \in ts} IN
  on(on(start))
Stun(s, ps) == [s EXCEPT !.stance = [p \in Slots |-> IF p \in ps THEN "stunned" ELSE @[p]]]
Invaded(s, teams) ==
  {Stun(s, ps) : ps \in {qs \in SUBSET {p \in Slots : /\ TeamOf(p) \in teams
                                                      /\ OnPitch(s, p) /\ Standing(s, p)} :
                           \A t \in teams : LET able == {p \in OnSide(s, t) : Standing(s, p)} IN
                              Cardinality(qs \cap able) \in
                                Least(1, Cardinality(able)) .. Least(3, Cardinality(able))}}
Snacked(s, team) ==
  IF OnSide(s, team) = {} THEN {s}
  ELSE UNION {{[s EXCEPT !.ma[p] = IF @ > 1 THEN @ - 1 ELSE @], Remove(s, p, "reserves")} :
                p \in OnSide(s, team)}

(* What the event does before the ball lands; Time-Out and Brilliant       *)
(* Coaching are in MatchDriver.                                            *)
QuietEvents(s) ==
  {s} \cup (UNION {Invaded(s, ts) : ts \in {{0}, {1}, Teams}})
    \cup (IF Misplaced(s, Top(s).a) THEN {} ELSE Gust(s))
    \cup {[s EXCEPT !.bribes = [t \in Teams |-> @[t] + 1]]}
    \cup {[s EXCEPT !.cheer = @ \cup ts] : ts \in {{0}, {1}, Teams}}
    \cup Snacked(s, 0) \cup Snacked(s, 1) \cup (UNION {Snacked(t, 1) : t \in Snacked(s, 0)})
Window(s, phase, x, y, team) == Decide(Phase(Budgets(s, x, y), phase), team)

InAir(s, q) == [s EXCEPT !.ball.state = "air", !.ball.sq = q]
Deviations(s) ==
  LET most == IF \E p \in OnSide(s, Top(s).a) : Has(s, p, "KICK")
              THEN 0 .. FarthestKick \div 2 ELSE 1 .. FarthestKick IN
  {InAir(s, Byte(Along(Top(s).sq, d, n))) : d \in Dirs, n \in most}
KickOff ==
  /\ Runs("KICKOFF", 1)
  /\ \E s \in Deviations(m) :
       \/ \E t \in QuietEvents(s) : m' = KickLands(t)
       \/ m' = Decide(Phase(s, 4), Receiver)
       \/ \E n \in 4 .. 6 :
            \/ m' = Window(s, 5, n, SetupBudget, Kicker)
            \/ m' = Window(s, 6, n, 0, Receiver)
            \/ m' = [Window(s, 7, n, 0, Kicker) EXCEPT !.active = Kicker]

(* High Kick: an open receiver is put under the ball.                      *)
HighKick ==
  /\ Asks("KICKOFF", 4)
  /\ LET s == Answered(m)
         q == m.ball.sq IN
     \/ m' = KickLands(s)
     \/ /\ q \in Squares /\ ~OwnHalf(Kicker, q[1]) /\ Empty(m, q)
        /\ \E p \in Side(Receiver) : OpenPlayer(m, p) /\ m' = KickLands(Place(s, p, q))

(* Solid Defence and Quick Snap: the players picked so far are in data.    *)
WindowAsk ==
  \E phase \in {5, 6} :
    Runs("KICKOFF", phase) /\ m' = Decide(m, IF phase = 5 THEN Kicker ELSE Receiver)
Picked(p) == p \in Top(m).data
MayPick(p) == Cardinality(Top(m).data) < Top(m).sq[1] /\ OpenPlayer(m, p)
Spend(s, p) ==
  LET left == Top(s).sq[2] IN
  Aim(Mark(s, {p}),
      <<Top(s).sq[1], IF Top(s).phase = 5 /\ left > 0 THEN left - 1 ELSE left>>)
SolidDefence ==
  /\ Asks("KICKOFF", 5) /\ Top(m).sq[2] > 0
  /\ \E p \in Side(Kicker) :
       /\ Picked(p) \/ MayPick(p)
       /\ \/ OnPitch(m, p) /\ m' = Answered(Remove(Spend(m, p), p, "reserves"))
          \/ \E q \in Half(Kicker) : Empty(m, q) /\ m' = Answered(Place(Spend(m, p), p, q))
SolidDone ==
  /\ Asks("KICKOFF", 5)
  /\ ConstraintsOk(m, Kicker) \/ Top(m).sq[2] = 0
  /\ m' = KickLands(Repaired(Answered(m), Kicker))
QuickSnap ==
  /\ Asks("KICKOFF", 6)
  /\ \/ m' = KickLands(Answered(m))
     \/ \E p \in Side(Receiver) :
          /\ ~Picked(p) /\ MayPick(p)
          /\ \E q \in Free(m, p) : m' = Answered(Place(Spend(m, p), p, q))

(* The Charge!: ACTIVATION, which is in TeamTurn, is passed over.          *)
ChargeEnd(s) ==
  KickLands([s EXCEPT !.turnover = FALSE, !.active = 1 - Top(s).a])
MayCharge(p) == ~Picked(p) /\ OpenPlayer(m, p)
ChargeAsk ==
  /\ Runs("KICKOFF", 7)
  /\ m' = IF m.turnover \/ Top(m).sq[1] = 0 \/ \A p \in Side(Kicker) : ~MayCharge(p)
          THEN ChargeEnd(m) ELSE Decide(m, Kicker)
ChargeOn ==
  /\ Asks("KICKOFF", 7)
  /\ \/ m' = ChargeEnd(Answered(m))
     \/ \E p \in Side(Kicker), kind \in {"MOVE", "BLITZ"} :
          /\ MayCharge(p)
          /\ kind = "BLITZ" => Top(m).sq[2] = 0
          /\ LET f == [Top(m) EXCEPT !.data = @ \cup {p},
                         !.sq = <<@[1] - 1, IF kind = "BLITZ" THEN 1 ELSE @[2]>>] IN
             m' = Push([Answered(SetTop(m, f)) EXCEPT !.acting = p],
                       [Frame("MOVE", p, 0, NoSq) EXCEPT !.k = kind, !.c = 0])

(* Everything the landing led to is over: out of play, or in the kicking   *)
(* side's half, the ball goes to the receivers.                            *)
KickSettled ==
  /\ Runs("KICKOFF", 3)
  /\ LET held == m.ball.state = "held" /\ ~OwnHalf(Kicker, m.at[m.ball.carrier][1]) IN
     m' = IF ~held /\ Misplaced(m, Kicker)
          THEN LET s == DropBall(m) IN
               Decide(Phase([s EXCEPT !.ball.state = "off"], 2), Receiver)
          ELSE Pop(m)
Touchback ==
  /\ Asks("KICKOFF", 2)
  /\ LET able == {p \in OnSide(m, Receiver) : Standing(m, p) /\ ~Has(m, p, "NO_BALL")}
         s == Answered(m) IN
     \/ \E p \in able : m' = Pop(GiveBall(s, p))
     \/ able = {} /\ \E q \in Half(Receiver) : Empty(m, q) /\ m' = Pop(BallTo(s, q))

KickNext ==
  \/ KickAsk \/ KickTarget \/ KickOff \/ HighKick \/ WindowAsk \/ SolidDefence \/ SolidDone
  \/ QuickSnap \/ ChargeAsk \/ ChargeOn \/ KickSettled \/ Touchback
=============================================================================
