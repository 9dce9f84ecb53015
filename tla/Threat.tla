------------------------------- MODULE Threat -------------------------------
(***************************************************************************)
(* What a team could do to the ball carrier of the other                   *)
(* (engine/src/bb_reachability.c, bb_carrier_threat_eval): who can hit him  *)
(* where he stands, and who can come and hit him, by which squares and     *)
(* against which tests.  A path is replayed on a copy of the match, each   *)
(* step read by bb_step_success_components.                                *)
(*                                                                         *)
(* How likely a test is, and the reference the sum is compared with        *)
(* (bb_carrier_threat_baseline), are left out; the 2x2 table of            *)
(* likelihoods is the set of its entries that are not zero.                *)
(***************************************************************************)
EXTENDS Reach, BlockOdds

(* The tests of a step: a rush, a dodge, a pick-up.                        *)
\* mutant: a dodge is foreseen where the step goes to, not where it comes from
Forecast_There(s, p, q) ==
  Flag(s.moved[p] >= s.ma[p], "RUSH") \cup Flag(Beset(s, p, q), "DODGE")
    \cup Flag(Loose(s, q), "PICKUP")
Forecast(s, p, q) ==
  Flag(s.moved[p] >= s.ma[p], "RUSH") \cup Flag(Beset(s, p, s.at[p]), "DODGE")
    \cup Flag(Loose(s, q), "PICKUP")

(* One skill re-roll of each kind on the way.  It is looked up in the match *)
(* itself, where the player has not moved: Tackle counts beside the square *)
(* he is on now, whichever step is meant.                                  *)
MayReroll(s, p, kind, spent) ==
  kind \notin spent /\ SkillAvailable(s, [Frame("TEST", p, 0, NoSq) EXCEPT !.k = kind, !.c = NoPlayer])
Tested(s, p, kind, ways) ==
  ways \cup {spent \cup {kind} : spent \in {w \in ways : MayReroll(s, p, kind, w)}}

Walked(s, p, q) ==
  Place([s EXCEPT !.moved[p] = @ + 1,
                  !.rushes[p] = IF s.moved[p] >= s.ma[p] THEN @ + 1 ELSE @], p, q)
Replay(s, p, path) ==
  LET Onward(was, q) ==
        LET tests == Forecast(was.sim, p, q)
            rushed == IF "RUSH" \in tests THEN Tested(s, p, "RUSH", was.ways) ELSE was.ways IN
        [sim |-> Walked(was.sim, p, q), met |-> Append(was.met, tests),
         ways |-> IF "DODGE" \in tests THEN Tested(s, p, "DODGE", rushed) ELSE rushed]
      upTo[n \in 0 .. Len(path)] ==
        IF n = 0 THEN [sim |-> s, met |-> <<>>, ways |-> {{}}] ELSE Onward(upTo[n - 1], path[n])
  IN upTo[Len(path)]

(* One who is not beside the carrier is priced from the squares next to him *)
(* that cost the fewest dodges, then rushes, by the cheapest path and by   *)
(* the shortest.                                                           *)
Approach(s, p, c, q, cheap, short) ==
  [by |-> p, to |-> q, bout |-> Bout(Place(s, p, q), p, c, TRUE),
   cheap |-> Replay(s, p, PathTo(cheap, q)), short |-> Replay(s, p, PathTo(short, q))]
Approaches(s, p, c) ==
  LET field == ReachField(s, p)
      risk(q) == field[q].cost \div ByCost.rush
      beside == {q \in Near(s.at[c]) : field[q].cost < Far} IN
  {Approach(s, p, c, q, field, FieldBy(s, p, ByLength)) :
     q \in {r \in beside : \A t \in beside : risk(r) <= risk(t)}}

Upright(s, team) == {p \in Slots : TeamOf(p) = team /\ OnPitch(s, p) /\ Standing(s, p)}
CarrierThreat(s) ==
  LET c == s.ball.carrier
      foes == Upright(s, 1 - TeamOf(c))
      beside == {p \in foes : s.at[p] \in Near(s.at[c])} IN
  IF c = NoPlayer THEN [hits |-> {}, runs |-> {}]
  ELSE IF ~OnPitch(s, c) \/ ~Standing(s, c) THEN [hits |-> {}, runs |-> {}]
  ELSE [hits |-> {Bout(s, p, c, FALSE) : p \in beside},
        runs |-> UNION {Approaches(s, p, c) : p \in foes \ beside}]

(* bb_team_contact_favorability: the blocks a team could throw as it stands. *)
Contacts(s, team) ==
  {Bout(s, p, o, FALSE) : <<p, o>> \in
     {<<p, o>> \in Upright(s, team) \X Upright(s, 1 - team) : s.at[o] \in Near(s.at[p])}}
=============================================================================
