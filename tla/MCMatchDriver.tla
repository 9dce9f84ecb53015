--------------------------- MODULE MCMatchDriver ---------------------------
(* Small instances of MatchDriver for TLC.                                  *)
EXTENDS MatchDriverInv

(* Team 1 has a re-roll of its own and (in the cfg) a Leader.               *)
OneOwn == [t \in Teams |-> t]

(* Two touchdowns for team 0: with one, no marker gets out of step enough.  *)
TwoOne == [t \in Teams |-> 2 - t]
=============================================================================
