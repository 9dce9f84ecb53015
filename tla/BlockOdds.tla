------------------------------ MODULE BlockOdds ------------------------------
(***************************************************************************)
(* What a declared block is said to lead to (engine/src/bb_blockev.c), and *)
(* how it is priced before a die is rolled (puffer/bloodbowl/bloodbowl.h,  *)
(* c_step).  The evaluator is a second reading of the rules BlockProcs     *)
(* plays.  A probability is abstracted to whether it is zero: a block is   *)
(* the set of its `lines`, a line the set of things that happen on it.      *)
(* (Whether a player who goes down is hurt is left out.)                   *)
(***************************************************************************)
EXTENDS MoveProcs

(* init_ctx: what is read of the two players when the block is declared.   *)
Jammed(s, p) == p \in s.distracted
Bout(s, att, def, blitz) ==
  LET jugg == blitz /\ Has(s, att, "JUGGERNAUT")
      immune == {"MONSTROUS_MOUTH", "SURE_HANDS"} \cap s.skills[def] # {}
      stands == Has(s, def, "STAND_FIRM") /\ ~Jammed(s, def) /\ ~jugg
      fends == Has(s, def, "FEND") /\ ~jugg IN
  [att |-> att, def |-> def, jugg |-> jugg,
   active |-> TeamOf(att) = s.active,
   holds |-> att \in s.has, held |-> def \in s.has,
   steady |-> {p \in {att, def} : Has(s, p, "STEADY_FOOTING")},
   blocks |-> {p \in {att, def} : Has(s, p, "BLOCK") /\ ~Jammed(s, p)},
   wrestles |-> \E p \in {att, def} : Has(s, p, "WRESTLE") /\ ~Jammed(s, p),
   strips |-> Has(s, att, "STRIP_BALL") /\ ~immune /\ ~stands,
   dodges |-> Has(s, def, "DODGE") /\ ~Jammed(s, def) /\ ~Has(s, att, "TACKLE"),
   frenzy |-> Has(s, att, "FRENZY") /\ ~fends /\ att \notin s.rooted]

(* The faces.  `held`: the defender has the ball when the die is read;      *)
(* `after`: what a push may be followed by.                                *)
Drops(b, p) == IF p \in b.steady THEN BOOLEAN ELSE {TRUE}
Skull(b) ==
  {IF down THEN {"att_down"} \cup Flag(b.active, "turnover") ELSE {} : down \in Drops(b, b.att)}
Pushed(b, held, after) == {Flag(held /\ b.strips, "ball_out") \cup l : l \in after}
Pow(b, held) ==
  {Flag(down, "def_down") \cup Flag(held /\ (b.strips \/ down), "ball_out") :
     down \in Drops(b, b.def)}
\* mutant: Block is read as keeping nobody but the defender up
Plain_Half(b, held) ==
  LET downs(p) == IF p \in b.blocks \cap {b.def} THEN {FALSE} ELSE Drops(b, p) IN
  {Flag(x, "att_down") \cup Flag(x /\ b.active, "turnover")
     \cup Flag(y, "def_down") \cup Flag(y /\ held, "ball_out") : x \in downs(b.att), y \in downs(b.def)}
Plain(b, held) ==
  LET downs(p) == IF p \in b.blocks THEN {FALSE} ELSE Drops(b, p) IN
  {Flag(x, "att_down") \cup Flag(x /\ b.active, "turnover")
     \cup Flag(y, "def_down") \cup Flag(y /\ held, "ball_out") : x \in downs(b.att), y \in downs(b.def)}
Wrestled(b, held) == Flag(held, "ball_out") \cup Flag(b.holds /\ b.active, "turnover")
BothDown(b, held, after) ==
  IF b.jugg THEN Pushed(b, held, after)
  ELSE Plain(b, held) \cup (IF b.wrestles THEN {Wrestled(b, held)} ELSE {})
Stumble(b, held, after) == IF b.dodges THEN Pushed(b, held, after) ELSE Pow(b, held)

Face(b, face, held, after) ==
  CASE face = "attacker_down" -> Skull(b)
    [] face = "both_down" -> BothDown(b, held, after)
    [] face = "push" -> Pushed(b, held, after)
    [] face = "stumble" -> Stumble(b, held, after)
    [] face = "pow" -> Pow(b, held)

(* Who is said to choose the die: strengths with assists, cheering fans,    *)
(* Horns and, if he is the weaker, the attacker's Dauntless.               *)
Weaker(s, b, blitz, strength) ==
  strength + Assists(s, b.att, b.def)
    + (IF TeamOf(b.att) \in s.cheer /\ b.active THEN 1 ELSE 0)
    + (IF blitz /\ Has(s, b.att, "HORNS") THEN 1 ELSE 0)
  < s.st[b.def] + Assists(s, b.def, b.att)
Choosers(s, b, blitz) ==
  LET own == s.st[b.att]
      matched == IF Has(s, b.att, "DAUNTLESS") /\ s.st[b.def] > own THEN {s.st[b.def]} ELSE {} IN
  {IF Weaker(s, b, blitz, st) THEN TeamOf(b.def) ELSE TeamOf(b.att) : st \in {own} \cup matched}

(* ------------------------- the block as it is played ------------------- *)
(* c_step prices the declaration of a standing attacker.  A blitzer with   *)
(* nothing left to move rushes first and may fall there.                   *)
NoHit == [bout |-> {}, pick |-> {}, rush |-> FALSE, dice |-> <<>>, again |-> FALSE,
          seen |-> {}]
Cut == {"TRICKSTER", "DUMP_OFF", "SABOTEUR"}
Declares ==
  /\ Asks("MOVE", 0) /\ Standing(m, Mover) /\ Len(m'.stack) > Len(m.stack)
  /\ "await_block" \in m'.stack[Len(m.stack)].data
Price ==
  LET f == m'.stack[Len(m.stack)]
      rush == "block_rush" \in f.data
      def == IF rush THEN f.c ELSE Top(m').b
      blitz == f.k = "BLITZ"
      bout == Bout(m, f.a, def, blitz) IN
  IF Cut \cap (m.skills[f.a] \cup m.skills[def]) # {} THEN NoHit
  ELSE [bout |-> {bout}, pick |-> Choosers(m, bout, blitz), rush |-> rush, dice |-> <<>>,
        again |-> FALSE, seen |-> {}]
(* The lines left once the dice are known; a push is followed by a second  *)
(* block if the attacker has Frenzy, and the push did not prevent it.      *)
PricedLines(hit) ==
  UNION {
    LET dies(i, held, after) == UNION {Face(b, face, held, after) : face \in hit.dice[i]}
        second == IF b.frenzy /\ Len(hit.dice) = 2 THEN dies(2, b.held /\ ~b.strips, {{}})
                  ELSE {{}} IN
    IF hit.dice = <<>> THEN {{}} \cup (IF hit.rush THEN Skull(b) ELSE {})
    ELSE dies(1, b.held, second) : b \in hit.bout}
Read ==
  IF Asks("BLOCK", 2) THEN <<{face \in Faces : Resolved(Answered(m), Top(m), face) = m'}>>
  ELSE <<>>

(* What happens at a step, in the words of the odds.                       *)
Laid(p) == Top(m).proc = "KNOCKDOWN" /\ Standing(m, p) /\ ~Standing(m', p)
Seen(b) ==
  Flag(Laid(b.att), "att_down") \cup Flag(Laid(b.def), "def_down")
    \cup Flag(b.held /\ b.def \in m.has \ m'.has, "ball_out")
    \cup Flag(m'.turnover /\ ~m.turnover, "turnover")
(* Where the push goes is not priced, and Stand Firm only as a way to keep *)
(* the ball: a block that is decided by either is not followed further.    *)
Unpriced == {"crowd", "stood_firm", "sf_declined"} \cap Top(m').data # {}
HitOver(s) ==
  \/ Top(s).proc \in {"ACTIVATION", "TOUCHDOWN"}
  \/ Top(s).proc = "MOVE" /\ "block_rush" \notin Top(s).data
Watch(hit) ==
  IF Declares THEN Price
  ELSE IF hit.bout = {} THEN hit
  ELSE IF Unpriced \/ (HitOver(m) /\ m' # m) THEN NoHit
  ELSE [hit EXCEPT !.dice = @ \o Read, !.again = @ \/ Runs("PUSH", 6),
                        !.seen = @ \cup UNION {Seen(b) : b \in hit.bout}]
=============================================================================
