---------------------------- MODULE MCTeamTurn ----------------------------
EXTENDS TeamTurn

(* Two players against one.  In the brawl the two may lose their heads and *)
(* get each other up; one may have to refuse the other a pass; and one     *)
(* throws the other or kicks him.                                          *)
CONSTANTS h1, h2, a1
H12 == {h1, h2}
Everybody == {h1, h2, a1}
Cast(t1, t2, t3, throws, helps, kinds, most) ==
  [trait |-> [p \in Player |-> CASE p = h1 -> t1 [] p = h2 -> t2 [] OTHER -> t3],
   throws |-> throws, kicks |-> throws, helps |-> helps, kinds |-> kinds, budget |-> most]
Throwing == {"MOVE", "GAZE", "TTM", "KTM"}
Brawl == Cast("bonehead", "bloodlust", "none", {}, {h2}, {"MOVE", "BLITZ", "SPECIAL"}, 2)
Spat == Cast("none", "animosity", "none", {}, {}, {"MOVE", "PASS", "GAZE"}, 1)
Hurl == Cast("none", "takeroot", "savage", {h1}, {}, {"MOVE", "TTM"}, 1)
Boot == Cast("none", "none", "none", {h1}, {}, {"MOVE", "KTM"}, 1)
Troupes == {Brawl, Spat, Hurl, Boot}
Kicking == {Cast("none", "none", "none", {h1}, {}, Throwing, 1)}
===========================================================================
