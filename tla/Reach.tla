------------------------------- MODULE Reach -------------------------------
(***************************************************************************)
(* Reading ahead (engine/src/bb_reachability.c): which squares a player     *)
(* can still get to, with how many dodges and rushes, and what the rules    *)
(* on stalling and the rewards make of it.                                  *)
(*                                                                         *)
(* The price of a path is kept as one number, so many for a square, a dodge *)
(* and a rush, large enough apart that comparing the numbers compares the   *)
(* code's (dodges, rushes, length).                                         *)
(***************************************************************************)
EXTENDS MoveProcs, TLC

Nowhere == <<-1, -1>>
Far == 1000000
Unreached == [cost |-> Far, len |-> 0, from |-> Nowhere]
ByCost == [square |-> 1, dodge |-> 10000, rush |-> 100]
ByLength == [square |-> 10000, dodge |-> 100, rush |-> 1]
Dodges(entry) == entry.cost \div ByCost.dodge
Rushes(entry) == (entry.cost % ByCost.dodge) \div ByCost.rush
IsFree(entry) == entry.cost < ByCost.rush

Budget(s, p) ==
  Bounded(Left(s, p) + Bounded(MaxRushes(s, p) - s.rushes[p], 39), 39)
Beset(s, p, q) == Markers(s, TeamOf(p), q) # {}
(* What it costs to leave a square after so many steps.                     *)
\* mutant: the first rush is taken for a square of the allowance
Toll_Late(s, p, price, u, steps) ==
  price.square + (IF Beset(s, p, u) THEN price.dodge ELSE 0)
               + (IF steps > Left(s, p) THEN price.rush ELSE 0)
Toll(s, p, price, u, steps) ==
  price.square + (IF Beset(s, p, u) THEN price.dodge ELSE 0)
               + (IF steps >= Left(s, p) THEN price.rush ELSE 0)

(* Dijkstra's search.  Ties go to the square that comes first as the       *)
(* squares are gone through, by columns or by rows.                        *)
ByColumn == [q \in Squares |-> q[1] * PitchWid + q[2]]
ByRow == [q \in Squares |-> q[2] * PitchLen + q[1]]
Relax(s, p, price, field, u) ==
  LET here == field[u]
      cost == here.cost + Toll(s, p, price, u, here.len)
      cheaper == {v \in Near(u) : Empty(s, v) /\ cost < field[v].cost} IN
  IF here.len >= Budget(s, p) THEN field
  ELSE [v \in cheaper |-> [cost |-> cost, len |-> here.len + 1, from |-> u]] @@ field
Search(s, p, price, rank) ==
  LET start == [field |-> [q \in Squares |-> IF q = s.at[p] THEN [Unreached EXCEPT !.cost = 0]
                                             ELSE Unreached],
                open |-> Squares]
      Settle[n \in 0 .. PitchLen * PitchWid] ==
        IF n = 0 THEN start
        ELSE LET was == Settle[n - 1]
                 least == {q \in was.open : /\ was.field[q].cost < Far
                                            /\ \A r \in was.open :
                                                 was.field[q].cost <= was.field[r].cost}
                 next == CHOOSE q \in least : \A r \in least : rank[q] <= rank[r] IN
             IF least = {} THEN was
             ELSE [field |-> Relax(s, p, price, was.field, next), open |-> was.open \ {next}]
  IN Settle[PitchLen * PitchWid].field

FieldBy(s, p, price) ==
  IF ~OnPitch(s, p) \/ ~Standing(s, p) THEN [q \in Squares |-> Unreached]
  ELSE IF p \in s.rooted
  THEN [q \in Squares |-> IF q = s.at[p] THEN [Unreached EXCEPT !.cost = 0] ELSE Unreached]
  ELSE Search(s, p, price, ByColumn)
ReachField(s, p) == FieldBy(s, p, ByCost)
PathTo(field, q) ==
  LET to[v \in Squares] ==
        IF field[v].from = Nowhere THEN <<>> ELSE Append(to[field[v].from], v)
  IN to[q]

(* A roll the player must make before, or while, he moves at all.           *)
Gates == {"BONE_HEAD", "REALLY_STUPID", "UNCHANNELLED_FURY", "TAKE_ROOT", "BLOODLUST",
          "ANIMAL_SAVAGERY", "BALL_AND_CHAIN"}
CanScoreWithoutDice(s, p) ==
  /\ s.ball.carrier = p /\ OnPitch(s, p) /\ Standing(s, p) /\ p \notin s.rooted
  /\ s.at[p][1] # EndZone(TeamOf(p))
  /\ Gates \cap s.skills[p] = {}
  /\ LET field == ReachField(s, p) IN
     \E q \in Squares : q[1] = EndZone(TeamOf(p)) /\ IsFree(field[q])

(* Whether a team can get next to a square for nothing, or for one roll.    *)
Runners(s, team) ==
  {p \in Slots : TeamOf(p) = team /\ OnPitch(s, p) /\ Standing(s, p) /\ p \notin s.rooted}
MinAccess(s, team, q) ==
  LET entries == UNION {LET field == ReachField(s, p) IN {field[r] : r \in Near(q)} :
                          p \in Runners(s, team)} IN
  [free |-> \E e \in entries : IsFree(e),
   oneRoll |-> \E e \in entries : e.cost < Far /\ Dodges(e) + Rushes(e) = 1]

ToGoal(s, p) ==
  LET x == s.at[p][1]
      goal == EndZone(TeamOf(p)) IN IF x > goal THEN x - goal ELSE goal - x
EndZoneExempt(s, p) ==
  p \in Runners(s, TeamOf(p)) /\ ToGoal(s, p) <= s.ma[p] + MaxRushes(s, p)
Exposure(s, team) ==
  LET c == s.ball.carrier IN
  IF c = NoPlayer THEN "none"
  ELSE IF TeamOf(c) # team \/ ~OnPitch(s, c) \/ ~Standing(s, c) \/ EndZoneExempt(s, c)
  THEN "none"
  ELSE IF Beset(s, c, s.at[c]) \/ MinAccess(s, 1 - team, s.at[c]).free THEN "full"
  ELSE IF MinAccess(s, 1 - team, s.at[c]).oneRoll THEN "soft" ELSE "none"

(* In how many turns a player could run in, and who of the other team could *)
(* within so many with nobody on him.                                       *)
ThreatTurns(s, p) ==
  LET reach == s.ma[p] + MaxRushes(s, p) IN (ToGoal(s, p) + reach - 1) \div reach
Threats(s, team, turns) ==
  {p \in Runners(s, 1 - team) :
     /\ s.ma[p] + MaxRushes(s, p) > 0 /\ ThreatTurns(s, p) <= turns
     /\ ~Beset(s, p, s.at[p])}

(* Whether a blitz is worth declaring: a player on the ground is taken to   *)
(* have stood up first.                                                     *)
Risen(s, p) ==
  IF s.stance[p] # "prone" THEN s
  ELSE LET up == [s EXCEPT !.stance[p] = "standing"] IN
       IF Has(s, p, "JUMP_UP") THEN up
       ELSE IF s.ma[p] < 3 THEN [up EXCEPT !.moved[p] = s.ma[p], !.rushes[p] = MaxRushes(s, p)]
       ELSE [up EXCEPT !.moved[p] = 3]
BlitzTarget(s, p) ==
  LET field == ReachField(Risen(s, p), p) IN
  \E o \in Slots : /\ TeamOf(o) # TeamOf(p) /\ OnPitch(s, o) /\ Standing(s, o)
                   /\ \E q \in Near(s.at[o]) : field[q].cost < Far

(* ------------------------- what it should come to ---------------------- *)
(* The squares a player gets to in so many steps through empty squares, and *)
(* when he leaves none that is marked.                                      *)
Walks(s, p, left, n) ==
  LET Within[k \in 0 .. PitchLen * PitchWid] ==
        IF k = 0 THEN {s.at[p]}
        ELSE LET was == Within[k - 1] IN
             was \cup {q \in Squares : Empty(s, q) /\ Near(q) \cap was \cap left # {}} IN
  IF p \in s.rooted THEN {s.at[p]} ELSE Within[n]
Strolls(s, p) == Walks(s, p, {q \in Squares : ~Beset(s, p, q)}, Left(s, p))
BesideFoe(s, p, qs) == \E q \in qs : \E o \in Occupied(s, Near(q)) :
                         TeamOf(o) # TeamOf(p) /\ Standing(s, o)
=============================================================================
