------------------------------ MODULE EnvMoves ------------------------------
(***************************************************************************)
(* The environment around one activation (puffer/bloodbowl/bloodbowl.h):   *)
(* what c_step does between the policy's answer and the next decision.  In *)
(* the starts marked `macro` a step may name a square further off: the     *)
(* environment plans a path there and plays it step by step, each applied  *)
(* with bb_apply_trusted, which does not ask whether it is legal.          *)
(*                                                                         *)
(* `env` is the part of Bloodbowl that is read across handlers: the cached *)
(* search (reach_mover ...), the rest of the plan (macro_len ...) and       *)
(* whether its mask has been filled.  `sure` (the plan was made of free     *)
(* squares only), `due` (the tests a step was said to take) and `hit` (how *)
(* a block was priced) remember what the policy was told; nothing in the   *)
(* code reads them.                                                        *)
(***************************************************************************)
EXTENDS PitchPlay, Heads, Threat

VARIABLE env

ByRisk == [square |-> 1, dodge |-> 50, rush |-> 12]
NoReach ==
  [mover |-> NoPlayer, blitz |-> FALSE, field |-> <<>>]

EnvInit ==
  /\ Init
  /\ env = [reach |-> NoReach, plan |-> <<>>, planner |-> NoPlayer, masked |-> FALSE,
            sure |-> FALSE, due |-> {}, hit |-> NoHit]

(* A search is kept for as long as the mover and the kind of action are.   *)
MacroReach(e, s, p, blitz) ==
  IF e.reach.mover = p /\ e.reach.blitz = blitz THEN e
  ELSE [e EXCEPT !.reach = [mover |-> p, blitz |-> blitz,
                            field |-> Search(s, p, ByRisk, ByRow)]]

FillMask ==
  /\ m.status = "decision" /\ ~env.masked /\ env.plan = <<>>
  /\ LET steps == IF MayMove THEN Free(m, Mover) ELSE {}
         read == IF steps # {} THEN MacroReach(env, m, Mover, Top(m).k = "BLITZ") ELSE env IN
     env' = [read EXCEPT !.masked = TRUE, !.sure = FALSE]
  /\ UNCHANGED m

(* An answer has been applied: what was read ahead no longer holds.        *)
\* mutant: the search is kept while the same player goes on moving
Stepped_Kept(e) == [e EXCEPT !.masked = FALSE]
Stepped(e) == [e EXCEPT !.masked = FALSE, !.reach = NoReach]

(* The tests a step is said to take (Threat!Forecast).  `due` keeps those   *)
(* of the step under way that have not come yet.                           *)
Foreseen == {"RUSH", "DODGE", "PICKUP"}
Took(q) == MayMove /\ StepTo(q)
Stepping ==
  LET taken == {q \in Free(m, Mover) : Took(q)} IN
  IF Top(m).proc # "MOVE" THEN env.due
  ELSE IF taken = {} THEN {}
  ELSE Forecast(m, Mover, CHOOSE q \in taken : TRUE)
Rolls ==
  /\ m.status = "running" /\ Top(m).proc = "TEST" /\ Top(m).phase = 0
  /\ Top(m).k \in Foreseen
  /\ LET f == m.stack[Len(m.stack) - 1] IN
     f.proc = "MOVE" /\ f.data \cap {"jump", "block_rush"} = {}

(* The squares the mask adds to the legal steps, and the way to one.       *)
Destinations(e) == {q \in Squares : e.reach.field[q].from # Nowhere}
Routable ==
  IF Asks("MOVE", 0) /\ Mover = env.reach.mover
  THEN Destinations(env) \ (IF MayMove THEN Free(m, Mover) ELSE {}) ELSE {}

Route ==
  /\ m.status = "decision" /\ env.masked
  /\ \E q \in Routable :
       LET field == env.reach.field
           path == PathTo(field, q) IN
       /\ StepTo(path[1])
       /\ env' = [Stepped(env) EXCEPT !.plan = Tail(path), !.planner = Mover,
                                      !.sure = field[q].cost = field[q].len,
                                      !.due = Forecast(m, Mover, path[1]), !.hit = Watch(@)]

(* What the code asks before it plays the next square of the plan.         *)
Follows ==
  /\ m.status = "decision" /\ env.plan # <<>>
  /\ Top(m).proc = "MOVE" /\ Mover = env.planner
  /\ Top(m).k # "BLOCK" /\ "block_done" \notin Top(m).data
  /\ Head(env.plan) \in Squares /\ Empty(m, Head(env.plan))
  /\ CanStep(m, Mover)
Follow ==
  /\ Follows /\ StepTo(Head(env.plan))
  /\ env' = [env EXCEPT !.plan = Tail(@), !.due = Forecast(m, Mover, Head(env.plan)),
                         !.hit = Watch(@)]
Drop ==
  /\ m.status = "decision" /\ env.plan # <<>> /\ ~Follows
  /\ env' = [env EXCEPT !.plan = <<>>] /\ UNCHANGED m

(* An action of the engine's own legal list, and the engine's own steps.   *)
Exact ==
  /\ m.status = "decision" /\ env.masked /\ Next
  /\ env' = [Stepped(env) EXCEPT !.due = Stepping, !.hit = Watch(@)]
Advance ==
  /\ m.status # "decision" /\ Next
  /\ env' = [env EXCEPT !.due = IF Rolls THEN @ \ {Top(m).k} ELSE @, !.hit = Watch(@)]

EnvNext ==
  \/ m.from.macro /\ (FillMask \/ Route \/ Follow \/ Drop \/ Exact \/ Advance)
  \/ ~m.from.macro /\ Next /\ env' = [env EXCEPT !.hit = Watch(@)]
EnvSpec == EnvInit /\ [][EnvNext]_<<m, env>>

(* ------------------------------ properties ----------------------------- *)
(* Every step the environment plays unasked is one the engine would have   *)
(* offered: the first of every path it can be sent on, and each that       *)
(* follows.                                                                *)
TrustedIsLegal ==
  /\ env.masked /\ env.reach.mover # NoPlayer =>
       /\ MayMove /\ Mover = env.reach.mover
       /\ \A q \in Routable : PathTo(env.reach.field, q)[1] \in Free(m, Mover)
  /\ Follows => MayMove /\ Head(env.plan) \in Free(m, Mover)

(* A step takes the tests the observation foresees for it: none comes that *)
(* was not, and a player who is asked to go on has taken all of them (but   *)
(* one with No Ball never tries to pick up); and a path of free squares     *)
(* only is walked to its end without a dodge or a rush.                    *)
ForecastHolds ==
  m.from.macro =>
    /\ Rolls => Top(m).k \in env.due /\ ~(env.sure /\ Top(m).k \in {"DODGE", "RUSH"})
    /\ Asks("MOVE", 0) => env.due \subseteq Flag(Has(m, Mover, "NO_BALL"), "PICKUP")

(* A block leads to what it was said to lead to: when it is over, what has   *)
(* happened is a line of the faces that came up, and the coach who was      *)
(* asked to choose the die is one it was priced for.  The rush a Frenzy's  *)
(* second block may cost is left out: see OddsComplete.                    *)
Priced == HitOver(m) /\ Top(m).proc # "TOUCHDOWN" => env.hit.seen \in PricedLines(env.hit)
OddsHold ==
  env.hit.bout # {} =>
    /\ ~env.hit.again => Priced
    /\ Asks("BLOCK", 2) /\ env.hit.dice = <<>> => m.asks \in env.hit.pick
(* The same of every block, as include/bb/bb_blockev.h:24 has it.          *)
OddsComplete == env.hit.bout # {} => Priced

(* The readings agree: the environment's search, the engine's and the      *)
(* plain definition find the same squares free; a carrier is said to score *)
(* without dice exactly when one of them is in the end zone, and then he   *)
(* is within a turn of it; a square is open to a team exactly when one of  *)
(* its players strolls next to it.                                         *)
BlitzAgrees ==
  env.masked /\ Asks("MOVE", 0) =>
    LET r == Risen(m, Mover) IN
    BlitzTarget(m, Mover) <=> BesideFoe(r, Mover, Walks(r, Mover, Squares, Budget(r, Mover)))
(* So do those of the threat to a carrier: the tests met along a path are    *)
(* what its squares were priced at, no rush is one too many, the shorter   *)
(* path is no longer, and those who can come are those who can walk there. *)
Met(replay, kind) == Cardinality({i \in DOMAIN replay.met : kind \in replay.met[i]})
Comers(s, c) ==
  {p \in Upright(s, 1 - TeamOf(c)) : /\ s.at[p] \notin Near(s.at[c])
                                     /\ Walks(s, p, Squares, Budget(s, p)) \cap Near(s.at[c]) # {}}
ThreatAgrees ==
  LET c == m.ball.carrier
      threat == CarrierThreat(m) IN
  env.masked /\ c # NoPlayer =>
    /\ \A t \in threat.runs :
         LET entry == ReachField(m, t.by)[t.to] IN
         /\ Met(t.cheap, "DODGE") = Dodges(entry) /\ Met(t.cheap, "RUSH") = Rushes(entry)
         /\ Len(t.short.met) <= Len(t.cheap.met)
         /\ \A replay \in {t.cheap, t.short} :
              /\ replay.sim.at[t.by] = t.to /\ Met(replay, "PICKUP") = 0
              /\ replay.sim.rushes[t.by] <= MaxRushes(m, t.by)
    /\ {t.by : t \in threat.runs} = Comers(m, c)
    /\ threat.hits = {b \in Contacts(m, 1 - TeamOf(c)) : b.def = c}
ReadsAgree ==
  BlitzAgrees /\ ThreatAgrees /\ (env.masked /\ env.reach.mover # NoPlayer =>
    LET p == env.reach.mover
        home == TeamOf(p)
        strolls == Strolls(m, p)
        goal == {q \in Squares : q[1] = EndZone(home)}
        runs == Gates \cap m.skills[p] = {} /\ strolls \cap goal # {} IN
    /\ LET field == ReachField(m, p) IN {q \in Squares : IsFree(field[q])} = strolls
    /\ LET field == env.reach.field IN
       {q \in Destinations(env) : field[q].cost = field[q].len} = strolls \ {m.at[p]}
    /\ p \in m.has => (CanScoreWithoutDice(m, p) <=> runs)
    /\ runs => EndZoneExempt(m, p) /\ (p \in Threats(m, 1 - home, 1) \/ Beset(m, p, m.at[p]))
    /\ Exposure(m, home) = "full" =>
         \/ Beset(m, m.ball.carrier, m.ball.sq)
         \/ \E r \in Runners(m, 1 - home) : Strolls(m, r) \cap Near(m.ball.sq) # {}
    /\ \A q \in Squares :
         MinAccess(m, home, q).free <=> \E r \in Runners(m, home) : Strolls(m, r) \cap Near(q) # {})
=============================================================================
