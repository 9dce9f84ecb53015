------------------------------- MODULE Pitch -------------------------------
(***************************************************************************)
(* The match record of the engine (engine/include/bb/bb_match.h) and the   *)
(* operations every procedure shares (engine/src/bb_match.c): the          *)
(* procedure stack, the board, the ball, tackle zones and assists.         *)
(*                                                                         *)
(* `m` is bb_match.  An operator takes the record it works on and returns  *)
(* the record the C function leaves behind, so that a handler of the code  *)
(* is one composition of these operators.                                  *)
(*                                                                         *)
(* Dice and their modifiers are abstracted to their outcomes: a test may   *)
(* pass or fail whatever its target.  Positions, skills, flags and the     *)
(* stack are kept as they are.                                             *)
(***************************************************************************)
EXTENDS Integers, Sequences, FiniteSets

CONSTANTS
  PitchLen, PitchWid, \* 26 and 15 in the code
  TeamSlots,          \* 16 in the code
  StackMax            \* 32 in the code

ASSUME PitchAssumption ==
  /\ PitchLen \in Nat \ {0} /\ PitchWid \in Nat \ {0}
  /\ TeamSlots \in Nat \ {0} /\ 2 * TeamSlots < 255
  /\ StackMax \in Nat \ {0}

Slots == 0 .. 2 * TeamSlots - 1
NoPlayer == 255
Teams == {0, 1}
TeamOf(p) == p \div TeamSlots
Squares == (0 .. PitchLen - 1) \X (0 .. PitchWid - 1)

VARIABLE m

(* ------------------------------ the stack ------------------------------ *)
Frame(proc, a, b, sq) ==
  [proc |-> proc, phase |-> 0, a |-> a, b |-> b, k |-> "none", sq |-> sq, c |-> NoPlayer,
   data |-> {}]

NoSq == <<0, 0>>
Top(s) == s.stack[Len(s.stack)]
Push(s, f) ==
  IF Len(s.stack) >= StackMax THEN [s EXCEPT !.status = "error"]
  ELSE [s EXCEPT !.stack = Append(@, f)]
Pop(s) == [s EXCEPT !.stack = SubSeq(@, 1, Len(@) - 1)]
SetTop(s, f) == [s EXCEPT !.stack[Len(s.stack)] = f]
Phase(s, n) == [s EXCEPT !.stack[Len(s.stack)].phase = n]
Mark(s, flags) == [s EXCEPT !.stack[Len(s.stack)].data = @ \cup flags]
Decide(s, team) == [s EXCEPT !.status = "decision", !.asks = team]
Err(s) == [s EXCEPT !.status = "error"]

(* The frame on top when the engine runs it, and when a coach must answer. *)
Runs(proc, phase) ==
  /\ m.status = "running" /\ Top(m).proc = proc /\ Top(m).phase = phase
Asks(proc, phase) ==
  /\ m.status = "decision" /\ Top(m).proc = proc /\ Top(m).phase = phase
Answered(s) == [s EXCEPT !.status = "running", !.asks = 0]

InKickoff(s) == \E i \in DOMAIN s.stack : s.stack[i].proc = "KICKOFF"
InCharge(s) ==
  \E i \in DOMAIN s.stack : s.stack[i].proc = "KICKOFF" /\ s.stack[i].phase = 7

(* ------------------------------ the board ------------------------------ *)
Dirs == ((-1 .. 1) \X (-1 .. 1)) \ {<<0, 0>>}
Shift(q, d) == <<q[1] + d[1], q[2] + d[2]>>
Around(q) == {Shift(q, d) : d \in Dirs}
Near(q) == Around(q) \cap Squares
Adjacent(q, r) == r \in Around(q)
Dist2(q, r) == (q[1] - r[1]) * (q[1] - r[1]) + (q[2] - r[2]) * (q[2] - r[2])
Bounded(n, hi) == IF n < 0 THEN 0 ELSE IF n > hi THEN hi ELSE n
Clamp(q) == <<Bounded(q[1], PitchLen - 1), Bounded(q[2], PitchWid - 1)>>
EndZone(team) == IF team = 0 THEN PitchLen - 1 ELSE 0

(* The order the code's two loops visit squares in.                        *)
Before(q, r) == q[1] < r[1] \/ (q[1] = r[1] /\ q[2] < r[2])
First(qs) == CHOOSE q \in qs : \A r \in qs \ {q} : Before(q, r)

OnPitch(s, p) == s.loc[p] = "pitch"
Standing(s, p) == s.stance[p] = "standing"
Has(s, p, skill) == skill \in s.skills[p]
SlotAt(s, q) == s.grid[q]
Empty(s, q) == s.grid[q] = NoPlayer
Occupied(s, qs) == {s.grid[q] : q \in qs} \ {NoPlayer}
Foes(s, p) == {o \in Occupied(s, Near(s.at[p])) : TeamOf(o) # TeamOf(p)}
Mates(s, p) == {o \in Occupied(s, Near(s.at[p])) : TeamOf(o) = TeamOf(p)}
StandingFoes(s, p) == {o \in Foes(s, p) : Standing(s, o)}

Lift(s, p) == IF OnPitch(s, p) THEN [s EXCEPT !.grid[s.at[p]] = NoPlayer] ELSE s
Place(s, p, q) == [Lift(s, p) EXCEPT !.loc[p] = "pitch", !.at[p] = q, !.grid[q] = p]
Remove(s, p, l) ==
  [Lift(s, p) EXCEPT !.loc[p] = l, !.stance[p] = "standing", !.has = @ \ {p}]
(* Off the pitch for good, from the pitch or from where the crowd left him. *)
Banish(s, p, l) == IF OnPitch(s, p) THEN Remove(s, p, l) ELSE [s EXCEPT !.loc[p] = l]

(* ------------------------------- the ball ------------------------------ *)
BallTo(s, q) ==
  [s EXCEPT !.has = @ \ {s.ball.carrier},
            !.ball = [state |-> "ground", carrier |-> NoPlayer, sq |-> q]]
GiveBall(s, p) ==
  [s EXCEPT !.has = (@ \ {s.ball.carrier}) \cup {p},
            !.ball = [state |-> "held", carrier |-> p, sq |-> s.at[p]]]
DropBall(s) ==
  IF s.ball.carrier = NoPlayer THEN s
  ELSE [s EXCEPT !.has = @ \ {s.ball.carrier},
                 !.ball.carrier = NoPlayer, !.ball.state = "ground"]
(* A carrier who is moved takes the ball along.                            *)
Carry(s, p) == IF p \in s.has THEN [s EXCEPT !.ball.sq = s.at[p]] ELSE s
Loose(s, q) == s.ball.state = "ground" /\ s.ball.sq = q

MakeTurnover(s) == [s EXCEPT !.turnover = TRUE]
TurnoverIf(s, cond) == IF cond THEN MakeTurnover(s) ELSE s

Scores(s) ==
  LET c == s.ball.carrier IN
  /\ c # NoPlayer /\ OnPitch(s, c) /\ Standing(s, c)
  /\ s.at[c][1] = EndZone(TeamOf(c))
CheckTd(s) ==
  IF Scores(s) THEN Push(s, Frame("TOUCHDOWN", s.ball.carrier, 0, NoSq)) ELSE s

Bounce(s, q) == Push(s, Frame("SCATTER", 0, 1, q))
KnockDown(s, p, cause, causer) ==
  Push(s, [Frame("KNOCKDOWN", p, 0, NoSq) EXCEPT !.k = cause, !.c = causer])
Test(s, p, kind, other) == Push(s, [Frame("TEST", p, 0, NoSq) EXCEPT !.k = kind, !.c = other])

(* ------------------------ tackle zones, assists ------------------------ *)
ExertsTz(s, p) == OnPitch(s, p) /\ Standing(s, p) /\ p \notin s.distracted
Markers(s, team, q) ==
  {o \in Occupied(s, Near(q)) : TeamOf(o) # team /\ ExertsTz(s, o)}
TackleZones(s, team, q) == Cardinality(Markers(s, team, q))
CanCatch(s, p) == ExertsTz(s, p) /\ ~Has(s, p, "NO_BALL")
HasTackleAdjacent(s, p) ==
  \E o \in Markers(s, TeamOf(p), s.at[p]) : Has(s, o, "TACKLE")

CanAssist(s, p, target) ==
  LET marking == Markers(s, TeamOf(p), s.at[p])
      cancelled == TeamOf(p) = s.active /\ \E o \in marking : Has(s, o, "DEFENSIVE") IN
  /\ ExertsTz(s, p) /\ p \notin s.gouged /\ Adjacent(s.at[p], s.at[target])
  /\ (Has(s, p, "GUARD") /\ ~cancelled) \/ marking \subseteq {target}
Assists(s, p, against) ==
  Cardinality({a \in Slots \ {p} : TeamOf(a) = TeamOf(p) /\ CanAssist(s, a, against)})

(* ------------------------- what a boundary state is -------------------- *)
(* bb_state_bank_boundary_valid: what a saved state must satisfy to be     *)
(* resumed.  The engine reaches such states only by its own handlers, and  *)
(* the stored bank is filled from them.                                    *)
GridAgrees(s) ==
  /\ \A p \in Slots : OnPitch(s, p) => s.at[p] \in Squares /\ s.grid[s.at[p]] = p
  /\ \A q \in Squares :
       ~Empty(s, q) => OnPitch(s, SlotAt(s, q)) /\ s.at[SlotAt(s, q)] = q
BallAgrees(s) ==
  /\ \A p \in s.has : OnPitch(s, p)
  /\ IF s.ball.state = "held"
     THEN s.has = {s.ball.carrier} /\ s.ball.sq = s.at[s.ball.carrier]
     ELSE /\ s.ball.carrier = NoPlayer /\ s.has = {}
          /\ s.ball.state = "ground" => s.ball.sq \in Squares
BoundaryValid(s) == GridAgrees(s) /\ BallAgrees(s)
=============================================================================
