----------------------------- MODULE RewardEnv -----------------------------
(***************************************************************************)
(* The training environment around a match (puffer/bloodbowl/bloodbowl.h): *)
(* c_step applies one answer (or a whole planned move) and infers, from    *)
(* the match before and after it, what each side is paid: touchdowns,      *)
(* changes of possession, injuries, potentials of the distance to the ball *)
(* and to the end zone.  An episode ends with the match or with its budget *)
(* of decisions, is settled, and the next one starts, perhaps in the       *)
(* middle of a stored match.                                               *)
(*                                                                         *)
(* `g` is what the environment reads of the match; an engine step may      *)
(* change it in any way the rules can between two decisions.  `e` is the   *)
(* environment; rewards are counted in units of 1/GammaDen.  `h` and       *)
(* `last` record what the trainer was paid in this episode and in the one  *)
(* that has just ended.                                                    *)
(***************************************************************************)
EXTENDS Integers

CONSTANTS
  DMax,            \* BB_PITCH_LEN - 1
  MaxDecisions,    \* max_decisions
  MaxPlan,         \* bound: decisions a planned move takes in one step
  MaxIncidents,    \* bound: injuries, recoveries, send-offs and surfs of an episode
  GammaNum, GammaDen, \* reward_dist_pbrs_gamma, when it is not 0
  RewardTd, RewardWin, RewardDraw, RewardGain, RewardLoss, RewardBall, RewardEndzone,
  RewardTouchback, RewardPossession, RewardInjury, RewardSendOff, RewardSurf,
  RewardExposure, RewardAction,
  StatmatchScale,  \* reward_statmatch_scale
  MaxDeviation,    \* bound: distance of an episode's statistics from the human ones
  RewardUnit,      \* what a coefficient of 1.0 is counted as
  Clamp            \* BBE_TRAINER_REWARD_CLAMP

(* The discount is that of the trainer, and a reward may have any sign.     *)
ASSUME EnvAssumption ==
  /\ DMax \in Nat \ {0} /\ MaxDecisions \in Nat \ {0} /\ MaxPlan \in Nat /\ MaxIncidents \in Nat
  /\ GammaDen \in Nat \ {0} /\ GammaNum \in 0 .. GammaDen
  /\ RewardBall \in Int /\ RewardEndzone \in Int
  /\ RewardTd \in Int /\ RewardWin \in Int /\ RewardDraw \in Int /\ RewardGain \in Int
  /\ RewardLoss \in Int /\ RewardTouchback \in Int /\ RewardPossession \in Int
  /\ RewardInjury \in Int /\ RewardSendOff \in Int /\ RewardSurf \in Int
  /\ RewardExposure \in Int /\ RewardAction \in Int
  /\ StatmatchScale \in Int /\ MaxDeviation \in Nat
  /\ RewardUnit \in Nat \ {0} /\ Clamp \in Nat

Teams == {0, 1}
Other(t) == 1 - t
Components ==
  {"TOUCHDOWN", "RESULT", "BALL_GAIN", "BALL_LOSS", "DISTANCE_BALL", "DISTANCE_ENDZONE",
   "TOUCHBACK", "POSSESSION", "EXPOSURE", "INJURY", "SEND_OFF", "SURF", "ACTION",
   "STATMATCH"}
Nobody == 2

VARIABLES g, e, h, last
vars == <<g, e, h, last>>

Each(v) == [t \in Teams |-> v]
Largest(a, b) == IF a > b THEN a ELSE b
Abs(n) == IF n < 0 THEN -n ELSE n
(* The most a distance is worth, and a value that no potential has.        *)
FetchSpan == DMax * Abs(RewardBall)
CarrySpan == DMax * Abs(RewardEndzone)
NaN == FetchSpan + CarrySpan + 1
SumOf(f) ==
  f.TOUCHDOWN + f.RESULT + f.BALL_GAIN + f.BALL_LOSS + f.DISTANCE_BALL + f.DISTANCE_ENDZONE
    + f.TOUCHBACK + f.POSSESSION + f.EXPOSURE + f.INJURY + f.SEND_OFF + f.SURF + f.ACTION
    + f.STATMATCH

(* ------------------------------- the match ----------------------------- *)
Held(t, x) == [state |-> "held", holder |-> t, x |-> x, near |-> Each(-1)]
Ground(near) == [state |-> "ground", holder |-> Nobody, x |-> 0, near |-> near]
Air == [state |-> "air", holder |-> Nobody, x |-> 0, near |-> Each(-1)]
Off == [Air EXCEPT !.state = "off"]
InPlay ==
  {Held(t, x) : t \in Teams, x \in 0 .. DMax} \cup {Air}
    \cup {Ground(near) : near \in {[t \in Teams |-> IF t = u THEN n ELSE DMax] :
                                     u \in Teams, n \in {-1, 0}}}

Match ==
  [status |-> "decision", legal |-> TRUE, ball |-> Off, where |-> "setup", kicking |-> 0,
   active |-> 0, score |-> Each(0), out |-> Each(0), sent |-> Each(0), surfs |-> Each(0),
   incidents |-> 0]
(* The matches a bank of states holds: each at a turn that asks for an      *)
(* answer, with what its players and its ball have been through.           *)
Bank ==
  {[Match EXCEPT !.where = "turn", !.ball = b, !.out = Each(1), !.score[0] = 1] :
     b \in {Held(1, DMax), Ground(Each(0))}}
(* Where an episode starts: before the kick-off, or in a stored match.      *)
Starts == {Match} \cup Bank

(* What happens to the players in a step: who is carried off or sent off,   *)
(* who is surfed, and who comes back from the KO box.                      *)
Quiet == [off |-> Each(0), back |-> Each(0), sent |-> Each(0), surf |-> Each(0)]
Incidents ==
  {Quiet, [Quiet EXCEPT !.sent[0] = 1], [Quiet EXCEPT !.off[0] = 1, !.surf[0] = 1],
   [Quiet EXCEPT !.off[1] = 1],
   [Quiet EXCEPT !.back[1] = 1], [Quiet EXCEPT !.off[1] = 1, !.back[1] = 1]}
Happens(s, i) ==
  [s EXCEPT !.out = [t \in Teams |-> @[t] + i.off[t] - i.back[t]],
            !.sent = [t \in Teams |-> @[t] + i.sent[t]],
            !.surfs = [t \in Teams |-> @[t] + i.surf[t]],
            !.incidents = IF i = Quiet THEN @ ELSE @ + 1]

(* One step of the engine to the next decision: the match after it, the    *)
(* turns it completed and those completed with the ball in hand.           *)
Result(s, done, held) == [g |-> s, done |-> done, held |-> held]
OwnBall(b, t) == IF b.state = "held" /\ b.holder = t THEN 1 ELSE 0
Kickoffs(s) ==
  {Result([s EXCEPT !.where = "setup", !.ball = Off], Each(0), Each(0)),
   Result([s EXCEPT !.where = "touchback", !.ball = Off], Each(0), Each(0))}
    \cup {Result([s EXCEPT !.where = "turn", !.ball = b, !.active = Other(s.kicking)],
                 Each(0), Each(0)) : b \in InPlay \ {Air}}
Plays(s) == {Result([s EXCEPT !.ball = b], Each(0), Each(0)) : b \in InPlay}
(* The turn ends; if the opponents have nobody to act, theirs ends with it. *)
TurnEnds(s) ==
  {Result([s EXCEPT !.ball = b, !.active = Other(s.active)],
          [Each(0) EXCEPT ![s.active] = 1],
          [Each(0) EXCEPT ![s.active] = OwnBall(b, s.active)]) : b \in InPlay \ {Air}}
    \cup {Result([s EXCEPT !.ball = Held(t, 1)], Each(1), [Each(0) EXCEPT ![t] = 1]) : t \in Teams}
DriveEnds(s) ==
  LET ended == {Result([s EXCEPT !.score[t] = @ + 1, !.ball = Off, !.kicking = t],
                       [Each(0) EXCEPT ![s.active] = 1],
                       [Each(0) EXCEPT ![s.active] = IF t = s.active THEN 1 ELSE 0]) : t \in Teams}
                 \cup {Result([s EXCEPT !.ball = Off], [Each(0) EXCEPT ![s.active] = 1],
                              [Each(0) EXCEPT ![s.active] = OwnBall(s.ball, s.active)])} IN
  {[r EXCEPT !.g.where = "setup"] : r \in ended} \cup {[r EXCEPT !.g.status = "over"] : r \in ended}
Advance(s) ==
  IF s.where # "turn" THEN Kickoffs(s)
  ELSE Plays(s) \cup TurnEnds(s) \cup DriveEnds(s)
         \cup {Result([s EXCEPT !.status = "error"], Each(0), Each(0)),
               Result([s EXCEPT !.legal = FALSE], Each(0), Each(0))}

(* ------------------------- rewards and potentials ----------------------- *)
Add(s, t, c, v) ==
  [s EXCEPT !.reward[t] = @ + v, !.ret[t] = @ + v, !.step[t][c] = @ + v]
Transfer(s, t, c, v) == Add(Add(s, t, c, v), Other(t), c, -v)

DistFetch(b, t) == b.near[t]
DistCarry(b, t) ==
  IF b.state # "held" \/ b.holder # t THEN -1 ELSE IF t = 0 THEN DMax - b.x ELSE b.x
Potential(coeff, d) == IF coeff = 0 \/ d < 0 THEN 0 ELSE coeff * (DMax - d)
RawPotential(coeff, d) == IF d < 0 THEN NaN ELSE -coeff * d

(* bbe_reward_clip_threshold: the most the design may pay in a step.       *)
Envelope(exact) ==
  LET objective == Abs(RewardTd) + Largest(Abs(RewardWin), Abs(RewardDraw)) IN
  GammaDen * (IF exact THEN objective + FetchSpan + CarrySpan
              ELSE Largest(objective, Largest(FetchSpan, CarrySpan)))

(* What a configuration must keep to: no single reward is worth more than  *)
(* the match, exact shaping has no negative potential, and the trainer     *)
(* does not clamp what the design may pay.                                 *)
ScalarsValid ==
  \A c \in {RewardTd, RewardWin, RewardDraw, RewardGain, RewardLoss, RewardBall, RewardEndzone,
            RewardTouchback, RewardPossession, RewardInjury, RewardSendOff, RewardSurf,
            RewardExposure, RewardAction, StatmatchScale} : Abs(c) <= RewardUnit
SignValid(exact) == exact => RewardBall >= 0 /\ RewardEndzone >= 0
EnvelopeValid(exact) == Envelope(exact) <= GammaDen * RewardUnit * Clamp
ConfigValid(exact) == ScalarsValid /\ SignValid(exact) /\ EnvelopeValid(exact)

(* ------------------------- the pieces of c_step ------------------------- *)
\* mutant: the return before the step is not remembered
Cleared_Base(s) ==
  [s EXCEPT !.reward = Each(0), !.objective = Each(0),
            !.step = [t \in Teams |-> [c \in Components |-> 0]]]
Cleared(s) ==
  [s EXCEPT !.reward = Each(0), !.objective = Each(0), !.base = s.ret,
            !.step = [t \in Teams |-> [c \in Components |-> 0]]]

TouchbackPaid(s, g1) ==
  LET paid == Add(s, g1.kicking, "TOUCHBACK", GammaDen * RewardTouchback) IN
  IF g1.where # "touchback" THEN [s EXCEPT !.latched = FALSE]
  ELSE IF s.latched THEN s ELSE [paid EXCEPT !.latched = TRUE]

(* A scoring turn counts as held, but is not paid for twice.               *)
AnnuityOf(s, t, r) ==
  LET scored == r.g.score[t] - s.scorePrev[t]
      events == r.held[t] - (IF scored < r.held[t] THEN scored ELSE r.held[t]) IN
  IF events > 0 THEN Transfer(s, t, "POSSESSION", GammaDen * RewardPossession * events) ELSE s
TurnsPaid(s, r) == AnnuityOf(AnnuityOf(s, 0, r), 1, r)
(* The hooks at the end of an own turn, here the exposure of the carrier.  *)
TurnHooks(s, inTurn, r) ==
  LET t == s.prevActive IN
  {[s EXCEPT !.prevActive = r.g.active]} \cup
  (IF inTurn /\ r.done[t] > 0 /\ r.g.ball.holder = t
   THEN {[Add(s, t, "EXPOSURE", -GammaDen * RewardExposure) EXCEPT !.prevActive = r.g.active]}
   ELSE {})

TouchdownOf(s, t, g1) ==
  LET d == g1.score[t] - s.scorePrev[t]
      td == GammaDen * RewardTd * d IN
  IF d <= 0 THEN s
  ELSE [Transfer(s, t, "TOUCHDOWN", td) EXCEPT
          !.objective[t] = @ + td, !.objective[Other(t)] = @ - td, !.scorePrev[t] = g1.score[t]]
Scored(s, g1) == \E t \in Teams : g1.score[t] > s.scorePrev[t]
TouchdownsPaid(s, g1) == TouchdownOf(TouchdownOf(s, 0, g1), 1, g1)

EndPossession(s) == [s EXCEPT !.possessor = Nobody]
\* mutant: the last holder keeps the possession while the ball is loose
PossessionUpdated_Loose(s, g1, scored) ==
  LET b == g1.ball
      lost == IF s.possessor = Nobody \/ scored THEN EndPossession(s)
              ELSE Add(EndPossession(s), s.possessor, "BALL_LOSS", GammaDen * RewardLoss)
      started == [lost EXCEPT !.possessor = b.holder]
      gained == IF scored THEN EndPossession(started)
                ELSE Add(started, b.holder, "BALL_GAIN", GammaDen * RewardGain) IN
  CASE b.state = "held" -> IF b.holder # s.possessor THEN gained ELSE s
    [] b.state = "off" -> EndPossession(s)
    [] OTHER -> s
PossessionUpdated(s, g1, scored) ==
  LET b == g1.ball
      paying == RewardGain # 0 \/ RewardLoss # 0
      lost == IF s.possessor = Nobody THEN s
              ELSE IF paying THEN Add(EndPossession(s), s.possessor, "BALL_LOSS", GammaDen * RewardLoss)
              ELSE EndPossession(s)
      turned == [(IF scored THEN EndPossession(s) ELSE lost) EXCEPT !.possessor = b.holder]
      gained == IF ~scored /\ paying
                THEN Add(turned, b.holder, "BALL_GAIN", GammaDen * RewardGain) ELSE turned
      now == IF b.holder # s.possessor THEN gained ELSE s IN
  CASE b.state = "held" -> IF scored THEN EndPossession(now) ELSE now
    [] b.state = "ground" -> lost
    [] b.state = "off" /\ g1.where # "turn" -> EndPossession(s)
    [] OTHER -> s

(* Injuries, send-offs and surfs are told from the counts before the step. *)
InjuriesOf(s, t, g1) ==
  LET d == g1.out[t] - s.outPrev[t] IN
  [(IF d > 0 THEN Transfer(s, t, "INJURY", -GammaDen * RewardInjury * d) ELSE s)
     EXCEPT !.outPrev[t] = g1.out[t]]
SendOffsOf(s, t, g1) ==
  LET d == g1.sent[t] - s.sentPrev[t] IN
  [(IF d > 0 THEN Add(s, t, "SEND_OFF", -GammaDen * RewardSendOff * d) ELSE s)
     EXCEPT !.sentPrev[t] = g1.sent[t]]
SurfsOf(s, t, g1) ==
  LET d == g1.surfs[t] - s.surfPrev[t] IN
  [(IF d > 0 THEN Transfer(s, t, "SURF", -GammaDen * RewardSurf * d) ELSE s)
     EXCEPT !.surfPrev[t] = g1.surfs[t]]

(* reward_dist_pbrs_gamma > 0: exact potential-based shaping.              *)
ExactChannel(s, t, c, prev, phi) ==
  Add(s, t, c, GammaNum * phi - GammaDen * (IF prev = NaN THEN phi ELSE prev))
LegacyChannel(s, t, c, prev, phi, scored) ==
  IF scored \/ phi = NaN \/ prev = NaN THEN s ELSE Add(s, t, c, GammaDen * (phi - prev))
PotentialsOf(s, t, g1, scored) ==
  LET df == DistFetch(g1.ball, t)
      dc == DistCarry(g1.ball, t)
      phi(coeff, d) == IF s.exact THEN Potential(coeff, d) ELSE RawPotential(coeff, d)
      ball == phi(RewardBall, df)
      endzone == phi(RewardEndzone, dc)
      fetched == IF s.exact THEN ExactChannel(s, t, "DISTANCE_BALL", s.fetchPrev[t], ball)
                 ELSE LegacyChannel(s, t, "DISTANCE_BALL", s.fetchPrev[t], ball, scored)
      carried == IF s.exact THEN ExactChannel(fetched, t, "DISTANCE_ENDZONE", s.carryPrev[t], endzone)
                 ELSE LegacyChannel(fetched, t, "DISTANCE_ENDZONE", s.carryPrev[t], endzone, scored) IN
  [carried EXCEPT !.fetchPrev[t] = ball, !.carryPrev[t] = endzone]

Both(op(_, _, _), s, g1) == op(op(s, 0, g1), 1, g1)
Accounted(s, r) ==
  LET scored == Scored(s, r.g)
      paid == PossessionUpdated(TouchdownsPaid(s, r.g), r.g, scored)
      hurt == Both(SendOffsOf, Both(InjuriesOf, paid, r.g), r.g)
      shaped == PotentialsOf(PotentialsOf(hurt, 0, r.g, scored), 1, r.g, scored) IN
  Both(SurfsOf, shaped, r.g)

(* --------------------------- the end of an episode ---------------------- *)
Bonus(g1, t) ==
  GammaDen * (IF g1.score[t] = g1.score[Other(t)] THEN RewardDraw
              ELSE IF g1.score[t] > g1.score[Other(t)] THEN RewardWin ELSE -RewardWin)
(* What is left of the distance to be paid back: -potential before the     *)
(* last step, whatever the ball does in it.                                *)
\* mutant: the last step of the shaping is paid as any other
Kept_Forgiven(s, t, c, prev) == IF s.exact THEN s.step[t][c] ELSE 0
Kept(s, t, c, prev) ==
  IF s.exact THEN s.step[t][c] - (IF prev = NaN THEN 0 ELSE GammaNum * prev) ELSE 0
\* mutant: whatever else the last step has earned is paid with the result
Settled_Stacked(s, g1) ==
  [s EXCEPT !.reward = [t \in Teams |-> @[t] + Bonus(g1, t)],
            !.ret = [t \in Teams |-> @[t] + Bonus(g1, t)],
            !.step = [t \in Teams |-> [s.step[t] EXCEPT !.RESULT = Bonus(g1, t)]]]
Settled(s, g1) ==
  LET ball(t) == Kept(s, t, "DISTANCE_BALL", s.fetchPrev[t])
      endzone(t) == Kept(s, t, "DISTANCE_ENDZONE", s.carryPrev[t])
      reward(t) == s.objective[t] + Bonus(g1, t) + ball(t) + endzone(t) IN
  [EndPossession(s) EXCEPT
     !.reward = [t \in Teams |-> reward(t)],
     !.ret = [t \in Teams |-> s.base[t] + reward(t)],
     !.step = [t \in Teams |-> [c \in Components |->
                 CASE c = "TOUCHDOWN" -> s.objective[t] [] c = "RESULT" -> Bonus(g1, t)
                   [] c = "DISTANCE_BALL" -> ball(t) [] c = "DISTANCE_ENDZONE" -> endzone(t)
                   [] OTHER -> 0]]]
(* Last of all both sides pay for how far the statistics of a whole match,   *)
(* one played from its kick-off, are from those of human matches.          *)
Deviations(s) == IF StatmatchScale > 0 /\ ~s.demo THEN 0 .. MaxDeviation ELSE {0}
Matched(s, d) ==
  Add(Add(s, 0, "STATMATCH", -(StatmatchScale * d)), 1, "STATMATCH", -(StatmatchScale * d))
Committed(s) ==
  [s EXCEPT !.comp = [t \in Teams |-> [c \in Components |-> @[t][c] + s.step[t][c]]]]

(* bbe_reset_match: everything is counted from the match that is loaded.   *)
Reset(exact, g1) ==
  [exact |-> exact, demo |-> g1 \in Bank, possessor |-> g1.ball.holder, fetchPrev |-> Each(NaN),
   carryPrev |-> Each(NaN), prevActive |-> g1.active, latched |-> FALSE, decisions |-> 0,
   scorePrev |-> g1.score, outPrev |-> g1.out, sentPrev |-> g1.sent, surfPrev |-> g1.surfs,
   reward |-> Each(0), objective |-> Each(0), ret |-> Each(0), base |-> Each(0),
   step |-> [t \in Teams |-> [c \in Components |-> 0]],
   comp |-> [t \in Teams |-> [c \in Components |-> 0]]]

(* -------------------------------- c_step -------------------------------- *)
Fresh(g1) ==
  [steps |-> 0, num |-> 1, den |-> 1, first |-> Each(0), disc |-> Each(0), paid |-> Each(0),
   started |-> g1.ball.holder]
(* What the trainer sees of a step, its shaping discounted step by step: the *)
(* discount so far is num / den, and disc counts in units of 1 / den.       *)
Noted(k, s, phi) ==
  [k EXCEPT
     !.steps = @ + 1,
     !.first = [t \in Teams |-> IF k.steps = 0 THEN phi[t] ELSE @[t]],
     !.num = @ * GammaNum, !.den = @ * GammaDen,
     !.disc = [t \in Teams |-> GammaDen * @[t]
                 + k.num * (s.step[t].DISTANCE_BALL + s.step[t].DISTANCE_ENDZONE)],
     !.paid = [t \in Teams |-> @[t] + s.reward[t]]]
Phis(s) == [t \in Teams |-> s.fetchPrev[t] + s.carryPrev[t]]

(* What is left over of an episode's accounts: the shaping that was not     *)
(* paid back, the difference of the return and of the ledger of components *)
(* from what was paid, and what the last reward has beyond the envelope    *)
(* and the share of the statistics.                                        *)
NoEpisode == [shaping |-> Each(0), return |-> Each(0), ledger |-> Each(0), excess |-> Each(0)]
Closed(legal, s, k) ==
  [shaping |-> [t \in Teams |->
      IF s.exact /\ legal THEN k.disc[t] + k.den * k.first[t] ELSE 0],
   return |-> [t \in Teams |-> s.ret[t] - k.paid[t]],
   ledger |-> [t \in Teams |-> SumOf(s.comp[t]) - k.paid[t]],
   excess |-> [t \in Teams |->
      Largest(0, Abs(s.reward[t] - s.step[t].STATMATCH) - Envelope(s.exact))]]

Concluded(s, g1) ==
  IF g1.status # "decision" \/ ~g.legal \/ s.decisions >= MaxDecisions
  THEN \E d \in Deviations(s) :
       LET paid == Committed(Matched(Settled(s, g1), d)) IN
       /\ last' = Closed(g.legal, paid, Noted(h, paid, Phis(s)))
       /\ \E start \in Starts : g' = start /\ e' = Reset(s.exact, start) /\ h' = Fresh(start)
  ELSE /\ g' = g1 /\ e' = Committed(s) /\ h' = Noted(h, s, Phis(s)) /\ last' = NoEpisode

(* What the answer itself costs or earns: a setup done, or run out of.    *)
Answers(s) ==
  {s} \cup {Add(s, t, "ACTION", GammaDen * RewardAction) : t \in Teams \cap
           (IF g.where = "setup" THEN {g.kicking} ELSE {})}
Possible(i, r) ==
  /\ i # Quiet => g.incidents < MaxIncidents /\ g.where = "turn"
  /\ i.back # Each(0) => r.g.where = "setup"
  /\ \A t \in Teams : i.back[t] <= g.out[t] + i.off[t]
Step ==
  /\ g.status = "decision" /\ g.legal
  /\ \E p \in Answers(Cleared(e)), n \in 1 .. MaxPlan,
        r0 \in Advance(g), i \in Incidents :
       /\ Possible(i, r0) /\ e.decisions + n <= MaxDecisions
       /\ LET r == [r0 EXCEPT !.g = Happens(@, i)]
              s == TurnsPaid(TouchbackPaid([p EXCEPT !.decisions = @ + n], r.g), r) IN
          \E t \in TurnHooks(s, g.where = "turn", r) : Concluded(Accounted(t, r), r.g)
(* A decision without a legal answer ends the episode at the next step.    *)
Stuck == g.status = "decision" /\ ~g.legal /\ Concluded(Cleared(e), g)

Init ==
  /\ g \in Starts /\ h = Fresh(g) /\ last = NoEpisode
  /\ \E exact \in BOOLEAN : ConfigValid(exact) /\ e = Reset(exact, g)
Next == Step \/ Stuck
Spec == Init /\ [][Next]_vars

(* ------------------------------ properties ------------------------------ *)
(* The match counts are those of one episode, nobody is carried off twice,  *)
(* and the environment's baselines are those of the match it shows.        *)
TypeOK ==
  /\ e.possessor \in Teams \cup {Nobody} /\ e.decisions \in 0 .. MaxDecisions - 1
  /\ e.scorePrev = g.score /\ e.outPrev = g.out /\ e.sentPrev = g.sent /\ e.surfPrev = g.surfs
  /\ e.prevActive = g.active

(* Possession is what the ball says whenever an answer is asked for, and a  *)
(* side that loses the ball gained it, or started with it, since it last   *)
(* did: what a side was paid for gains it can lose, and no more.           *)
One(p, t) == IF p = t THEN 1 ELSE 0
PossessionsPair ==
  /\ g.ball.state = "held" => e.possessor = g.ball.holder
  /\ g.ball.state \in {"ground", "off"} => e.possessor = Nobody
  /\ \A t \in Teams : \E gains, losses \in 0 .. e.decisions :
       /\ e.comp[t].BALL_GAIN = gains * (GammaDen * RewardGain)
       /\ e.comp[t].BALL_LOSS = losses * (GammaDen * RewardLoss)
       /\ gains + One(h.started, t) >= losses + One(e.possessor, t)

(* Exact shaping adds nothing that depends on what was done: the discounted *)
(* sum of an episode is minus the potential after its first step, whether  *)
(* the match ended or the decisions ran out with the ball in hand.         *)
ShapingTelescopes == last.shaping = Each(0)

(* What the trainer was paid is what the episode's return says, and what   *)
(* its components add up to, in the middle of an episode and at its end.   *)
LedgersAgree ==
  /\ \A t \in Teams : e.ret[t] = h.paid[t] /\ SumOf(e.comp[t]) = h.paid[t]
  /\ last.return = Each(0) /\ last.ledger = Each(0)

(* The last emission is within the envelope the clip threshold is derived   *)
(* from, but for what bbe_finish_episode takes off it for the statistics,  *)
(* of which the envelope knows nothing: without a scale, or in an episode  *)
(* that began in a stored match, nothing of what the last step earned, and *)
(* no payback of a distance, takes it outside.                             *)
LastInEnvelope == last.excess = Each(0)
=============================================================================
