------------------------------- MODULE Heads -------------------------------
(***************************************************************************)
(* How an answer gets from the policy to the engine                        *)
(* (puffer/bloodbowl/bloodbowl.h): the legal list is projected onto three  *)
(* heads (type, argument, square, as the deciding side sees them), the     *)
(* policy picks one head after the other from what the list supports, and  *)
(* the triple is decoded.  Lists of placements have a shortcut: one        *)
(* template of squares, checked against every player's block of the list.  *)
(*                                                                         *)
(* The lists are those of SETUP and KICKOFF, in the engine's order.        *)
(***************************************************************************)
EXTENDS KickoffProc

Seqs == INSTANCE SequencesExt

NoneArg == 32        \* the argument head's sentinel
NoneSq == <<-1, -1>> \* the square head's, 390
Anybody == 255
Decline == 254

Act(type, arg, q) == [type |-> type, arg |-> arg, sq |-> q]
NoAct == Act("NONE", 0, NoSq)

(* ----------------------------- the legal list -------------------------- *)
InColumns ==
  [i \in 1 .. PitchLen * PitchWid |->
     CHOOSE q \in Squares : Cardinality({r \in Squares : Before(r, q)}) = i - 1]
InSlots == [i \in 1 .. 2 * TeamSlots |-> i - 1]
Each(ps, List(_)) ==
  Seqs!FlattenSeq([i \in DOMAIN InSlots |-> IF InSlots[i] \in ps THEN List(InSlots[i]) ELSE <<>>])
AtEach(qs, type, p) ==
  LET order == SelectSeq(InColumns, LAMBDA q : q \in qs) IN
  [i \in DOMAIN order |-> Act(type, p, order[i])]
Places(p, qs) == AtEach(qs, "SETUP_PLACE", p)
Done1 == <<Act("SETUP_DONE", 0, NoSq)>>
Done1If(cond) == IF cond THEN Done1 ELSE <<>>
Vacant(s, team) == {q \in Half(team) : Empty(s, q)}

SetupLegal(s, team) ==
  LET placing == Cardinality(OnSide(s, team)) < SideMax /\ Reserves(s, team) # {}
      able == OnSide(s, team) \cup Reserves(s, team)
      block(p) ==
        IF OnPitch(s, p)
        THEN IF placing THEN <<>>
             ELSE Append(Places(p, Vacant(s, team)), Act("SETUP_REMOVE", p, NoSq))
        ELSE IF Cardinality(OnSide(s, team)) < SideMax THEN Places(p, Vacant(s, team)) ELSE <<>> IN
  IF Top(s).b >= SetupBudget THEN Done1
  ELSE Done1If(ConstraintsOk(s, team)) \o Each(able, block)

PickOf(s, p) == p \in Top(s).data
KickLegal(s) ==
  LET f == Top(s)
      away == 1 - f.a
      fresh == Cardinality(f.data) < f.sq[1]
      restage(p) ==
        (IF OnPitch(s, p) THEN <<Act("SETUP_REMOVE", p, NoSq)>> ELSE <<>>)
        \o Places(p, Vacant(s, f.a))
      snap(p) == Places(p, {q \in Near(s.at[p]) : Empty(s, q)})
      under == {p \in Side(away) : /\ s.ball.sq \in Squares /\ Empty(s, s.ball.sq)
                                   /\ ~OwnHalf(f.a, s.ball.sq[1]) /\ OpenPlayer(s, p)}
      able == {p \in OnSide(s, away) : Standing(s, p) /\ ~Has(s, p, "NO_BALL")} IN
  CASE f.phase = 0 -> AtEach(Half(away), "KICK_TARGET", 0)
    [] f.phase = 4 -> [i \in 1 .. Cardinality(under) |-> Act("CHOOSE_OPTION", i - 1, NoSq)]
                      \o <<Act("CHOOSE_OPTION", Decline, NoSq)>>
    [] f.phase = 5 -> IF f.sq[2] = 0 THEN Done1
                      ELSE Done1If(ConstraintsOk(s, f.a))
                           \o Each({p \in Side(f.a) : PickOf(s, p) \/ (fresh /\ OpenPlayer(s, p))},
                                   restage)
    [] f.phase = 6 -> IF ~fresh THEN Done1
                      ELSE Done1 \o Each({p \in Side(away) : ~PickOf(s, p) /\ OpenPlayer(s, p)},
                                         snap)
    [] f.phase = 7 -> Each({p \in Side(f.a) : ~PickOf(s, p) /\ OpenPlayer(s, p)},
                           LAMBDA p : <<Act("ACTIVATE", p, NoSq)>>)
                      \o <<Act("END_TURN", 0, NoSq)>>
    [] OTHER -> IF able # {} THEN Each(able, LAMBDA p : <<Act("TOUCHBACK", p, NoSq)>>)
                ELSE AtEach(Vacant(s, away), "TOUCHBACK", Anybody)

(* ------------------------------- the heads ----------------------------- *)
(* A side sees its own players first and the pitch from its own end.       *)
EgoSlot(side, p) == IF side = 0 THEN p ELSE (p + TeamSlots) % (2 * TeamSlots)
EgoSq(side, q) == IF side = 0 THEN q ELSE <<PitchLen - 1 - q[1], q[2]>>
HeadSq(side, a) ==
  IF \/ a.type \in {"SETUP_PLACE", "KICK_TARGET"}
     \/ a.type = "TOUCHBACK" /\ a.arg = Anybody
  THEN EgoSq(side, a.sq) ELSE NoneSq
HeadArg(side, a) ==
  IF \/ a.type \notin {"SETUP_PLACE", "SETUP_REMOVE", "TOUCHBACK", "ACTIVATE", "CHOOSE_OPTION"}
     \/ a.arg \in {Anybody, Decline}
  THEN NoneArg
  ELSE IF a.type = "CHOOSE_OPTION" THEN a.arg ELSE EgoSlot(side, a.arg)

(* ---------------------- the blocks of placements ----------------------- *)
(* The places of one player follow one another in the list.                *)
Puts(list, i) == list[i].type = "SETUP_PLACE"
Block(list, p) == {i \in DOMAIN list : Puts(list, i) /\ list[i].arg = p}
Start(block) == CHOOSE i \in block : \A j \in block : i <= j
SqsOf(list, block) == [k \in {i - Start(block) : i \in block} |-> list[Start(block) + k].sq]
\* mutant: a block is taken for the template when it is as long
Alike_Long(list, b, c) == Cardinality(b) = Cardinality(c)
Alike(list, b, c) == SqsOf(list, b) = SqsOf(list, c)

(* What fill_mask keeps of the list: every block like the first takes over *)
(* its squares, and only when all are is the shortcut open.                *)
Cache(side, list) ==
  LET blocks == {Block(list, p) : p \in {list[i].arg : i \in {j \in DOMAIN list : Puts(list, j)}}}
      first == CHOOSE b \in blocks : \A c \in blocks : Start(b) <= Start(c)
      stamped == {b \in blocks : Alike(list, first, b)}
      model == [j \in UNION stamped |->
                  Start(first) + j - Start(CHOOSE b \in stamped : j \in b)]
      sq == [j \in DOMAIN list |-> HeadSq(side, list[IF j \in DOMAIN model THEN model[j] ELSE j])] IN
  [arg |-> [j \in DOMAIN list |-> HeadArg(side, list[j])],
   sq |-> sq,
   fast |-> blocks # {} /\ stamped = blocks,
   start |-> [a \in {HeadArg(side, list[Start(b)]) : b \in stamped} |->
                Start(CHOOSE b \in stamped : HeadArg(side, list[Start(b)]) = a)],
   offset |-> IF blocks = {} THEN <<>>
              ELSE [q \in {sq[i] : i \in first} |->
                      (CHOOSE i \in first : sq[i] = q) - Start(first)]]

(* The policy picks a type, then an argument that goes with it, then a     *)
(* square that goes with both.                                             *)
Support(list, cache) ==
  LET types == {list[i].type : i \in DOMAIN list}
      args(t) == {cache.arg[i] : i \in {j \in DOMAIN list : list[j].type = t}}
      sqs(t, a) == {cache.sq[i] : i \in {j \in DOMAIN list : list[j].type = t /\ cache.arg[j] = a}} IN
  UNION {UNION {{<<t, a, q>> : q \in sqs(t, a)} : a \in args(t)} : t \in types}

Scanned(list, cache, pick) ==
  LET found == {list[i] : i \in {j \in DOMAIN list : <<list[j].type, cache.arg[j], cache.sq[j]>> = pick}} IN
  IF Cardinality(found) = 1 THEN CHOOSE a \in found : TRUE ELSE NoAct
ByTemplate(list, cache, pick) ==
  IF pick[2] \in DOMAIN cache.start /\ pick[3] \in DOMAIN cache.offset
  THEN list[cache.start[pick[2]] + cache.offset[pick[3]]] ELSE NoAct
Decode(list, cache, pick) ==
  IF pick[1] = "SETUP_PLACE" /\ cache.fast THEN ByTemplate(list, cache, pick)
  ELSE Scanned(list, cache, pick)

LegalList(s) == IF Top(s).proc = "SETUP" THEN SetupLegal(s, SetupTeam) ELSE KickLegal(s)

(* ------------------------------ the property --------------------------- *)
(* Whatever the policy may pick is played, and is what it picked: no triple *)
(* the heads support is refused or ambiguous (c_step aborts on those), the *)
(* action it decodes to is the one that projects to it, and every legal    *)
(* action is the meaning of some triple.                                   *)
PicksDecode ==
  m.status = "decision" /\ Top(m).proc \in {"SETUP", "KICKOFF"} =>
    LET list == LegalList(m)
        cache == Cache(m.asks, list)
        picks == Support(list, cache) IN
    /\ picks # {}
    /\ \A pick \in picks :
         LET a == Decode(list, cache, pick) IN
         a # NoAct /\ pick = <<a.type, HeadArg(m.asks, a), HeadSq(m.asks, a)>>
    /\ {Decode(list, cache, pick) : pick \in picks} = {list[i] : i \in DOMAIN list}
=============================================================================
