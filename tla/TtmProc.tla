------------------------------ MODULE TtmProc ------------------------------
(***************************************************************************)
(* TTM (engine/src/proc_ttm.c): the throw or kick of a team-mate, from the *)
(* Always Hungry gate through the flight to the landing roll.  Frame: a =  *)
(* the team-mate, b = the thrower, sq = the target, data "kick".           *)
(***************************************************************************)
EXTENDS MoveProcs

CONSTANT CrashMax \* bound of the model: players landed on in one throw

Wander(qs) == UNION {Around(q) : q \in qs}
Lifted(s, p) == [s EXCEPT !.grid[s.at[p]] = NoPlayer]

(* The landing loop: he may come down on one player after another, who are *)
(* knocked down in turn, before he reaches a free square or the crowd.     *)
Tumbles(s, qs) ==
  {w \in UNION {[1 .. n -> {q \in Squares : ~Empty(s, q)}] : n \in 0 .. CrashMax} :
     \A i \in DOMAIN w : w[i] \in IF i = 1 THEN qs ELSE Around(w[i - 1])}
Felled(s, mate, w) ==
  LET downs == [i \in DOMAIN w |-> [Frame("KNOCKDOWN", SlotAt(s, w[i]), 0, NoSq)
                                     EXCEPT !.k = "other", !.c = mate]] IN
  IF Len(s.stack) + Len(w) > StackMax THEN Err(s) ELSE [s EXCEPT !.stack = @ \o downs]
Landings(s, mate, qs) ==
  UNION {{[s |-> Felled(s, mate, w), q |-> q, fell |-> w # <<>>] :
            q \in {r \in IF w = <<>> THEN qs ELSE Around(w[Len(w)]) :
                     r \in Squares => Empty(s, r)}} : w \in Tumbles(s, qs)}

(* Off the pitch: a turnover, an injury by the crowd, and the ball thrown  *)
(* back once that is settled.                                              *)
IntoCrowd(s, mate, q) ==
  LET t == MakeTurnover(s)
      loose == [t EXCEPT !.has = @ \ {mate}, !.ball.carrier = NoPlayer, !.ball.state = "off"]
      in == IF mate \in s.has THEN Push(loose, Frame("THROW_IN", 0, 0, Clamp(q))) ELSE t IN
  Push([in EXCEPT !.loc[mate] = "reserves"], Frame("INJURY", mate, 1, NoSq))

(* A fumbled kick goes straight into the team-mate.                        *)
KickedDown(s, mate, q) ==
  LET l == IF q \in Squares /\ Empty(s, q) THEN q ELSE s.at[mate]
      down == PlaceProne(Place(s, mate, l), mate)
      held == mate \in s.has
      spilt == IF held
               THEN Bounce(DropBall(TurnoverIf(down, TeamOf(mate) = s.active)), l)
               ELSE down IN
  {Remove(spilt, mate, "ko"), Push(spilt, Frame("CASUALTY", mate, 0, NoSq))}

(* On his feet, or on his back: surely so if he was thrown lying or dazed, *)
(* or came down on somebody.                                               *)
Touches(l, mate, dazed) ==
  LET s == Carry([Place(l.s, mate, l.q) EXCEPT !.stance[mate] = "standing"], mate)
      falls == KnockDown(s, mate, "ttm", NoPlayer) IN
  IF l.fell \/ dazed THEN {falls}
  ELSE {falls, IF mate \in s.has THEN CheckTd(s) ELSE s}

(* Thrown well, or fumbled: from the thrower's own square.                 *)
Flights(s, f, fumble) ==
  LET mate == f.a
      dazed == ~Standing(s, mate) \/ mate \in s.distracted
      air == Lifted(s, mate)
      ends == IF fumble THEN Around(s.at[f.b]) ELSE Wander(Wander(Wander({f.sq}))) IN
  IF fumble /\ "kick" \in f.data
  THEN UNION {KickedDown(air, mate, q) : q \in ends}
  ELSE UNION {IF l.q \in Squares THEN Touches(l, mate, dazed)
              ELSE {IntoCrowd(l.s, mate, l.q)} : l \in Landings(air, mate, ends)}

Eaten(s, mate) ==
  LET held == mate \in s.has
      gone == MakeTurnover(Remove(IF held THEN DropBall(s) ELSE s, mate, "cas")) IN
  IF held THEN Bounce(gone, s.at[mate]) ELSE gone

Ttm ==
  /\ Runs("TTM", 0)
  /\ LET f == Top(m)
         hungry == Has(m, f.b, "ALWAYS_HUNGRY") IN
     \/ hungry /\ m' = Eaten(Pop(m), f.a)
     \/ m' \in Flights(Pop(m), f, TRUE)
     \/ ~Has(m, f.b, "NO_PA") /\ m' \in Flights(Pop(m), f, FALSE)
=============================================================================
