-------------------------- MODULE RewardEnv_proofs --------------------------
(***************************************************************************)
(* Proofs about RewardEnv, for every value of its constants.               *)
(***************************************************************************)
EXTENDS RewardEnv, TLAPS

Amounts == [Teams -> Int]
Books == [Teams -> [Components -> Int]]
EnvStates ==
  [exact : BOOLEAN, demo : BOOLEAN, possessor : Int, fetchPrev : Amounts, carryPrev : Amounts,
   prevActive : Int, latched : BOOLEAN, decisions : Int, scorePrev : Amounts,
   outPrev : Amounts, sentPrev : Amounts, surfPrev : Amounts, reward : Amounts,
   objective : Amounts, ret : Amounts, base : Amounts, step : Books, comp : Books]

(* The books balance: what a step pays is the sum of its components, and    *)
(* the return is the return before the step and what the step pays.        *)
Balanced(s) ==
  \A t \in Teams : SumOf(s.step[t]) = s.reward[t] /\ s.ret[t] = s.base[t] + s.reward[t]

(* What a payment leaves alone.                                            *)
Aside(s, n) ==
  /\ n.exact = s.exact /\ n.possessor = s.possessor /\ n.fetchPrev = s.fetchPrev
  /\ n.carryPrev = s.carryPrev /\ n.prevActive = s.prevActive /\ n.latched = s.latched
  /\ n.decisions = s.decisions /\ n.scorePrev = s.scorePrev /\ n.outPrev = s.outPrev
  /\ n.sentPrev = s.sentPrev /\ n.surfPrev = s.surfPrev /\ n.objective = s.objective
  /\ n.base = s.base /\ n.comp = s.comp
(* Only the components in C are paid. *)
PaysIn(s, n, C) == \A u \in Teams, d \in Components \ C : n.step[u][d] = s.step[u][d]

LEMMA SumAdds ==
  ASSUME NEW f \in [Components -> Int], NEW c \in Components, NEW v \in Int
  PROVE  SumOf([f EXCEPT ![c] = @ + v]) = SumOf(f) + v
BY DEF SumOf, Components

LEMMA SumPairs ==
  ASSUME NEW f \in [Components -> Int], NEW k \in [Components -> Int]
  PROVE  SumOf([c \in Components |-> f[c] + k[c]]) = SumOf(f) + SumOf(k)
BY DEF SumOf, Components

LEMMA SumInt == ASSUME NEW f \in [Components -> Int] PROVE SumOf(f) \in Int
BY DEF SumOf, Components

USE EnvAssumption

LEMMA AddKeeps ==
  ASSUME NEW s \in EnvStates, NEW t \in Teams, NEW c \in Components, NEW v \in Int
  PROVE  /\ Add(s, t, c, v) \in EnvStates
         /\ Aside(s, Add(s, t, c, v))
         /\ PaysIn(s, Add(s, t, c, v), {c})
<1> DEFINE n == Add(s, t, c, v)
<1>1. n \in EnvStates
  <2> DEFINE r == [s.reward EXCEPT ![t] = @ + v]
             q == [s.ret EXCEPT ![t] = @ + v]
             b == [s.step EXCEPT ![t][c] = @ + v]
  <2>1. s.reward \in Amounts /\ s.ret \in Amounts /\ s.step \in Books
    BY DEF EnvStates
  <2>2. r \in Amounts /\ q \in Amounts /\ b \in Books
    BY <2>1 DEF Amounts, Books
  <2>3. n = [s EXCEPT !.reward = r, !.ret = q, !.step = b]
    BY DEF Add, EnvStates
  <2> HIDE DEF r, q, b, n
  <2> QED BY <2>2, <2>3 DEF EnvStates
<1>2. Aside(s, n)
  BY DEF EnvStates, Add, Aside
<1>3. n.step = [s.step EXCEPT ![t][c] = @ + v] /\ s.step \in Books
  BY DEF EnvStates, Add
<1> QED BY <1>1, <1>2, <1>3 DEF PaysIn, Books

LEMMA AddBalances ==
  ASSUME NEW s \in EnvStates, NEW t \in Teams, NEW c \in Components, NEW v \in Int, Balanced(s)
  PROVE  Balanced(Add(s, t, c, v))
<1> DEFINE n == Add(s, t, c, v)
<1>1. n.reward = [s.reward EXCEPT ![t] = @ + v] /\ n.ret = [s.ret EXCEPT ![t] = @ + v]
      /\ n.step = [s.step EXCEPT ![t][c] = @ + v] /\ n.base = s.base
  BY DEF EnvStates, Add
<1>2. s.reward \in Amounts /\ s.ret \in Amounts /\ s.base \in Amounts /\ s.step \in Books
  BY DEF EnvStates
<1>3. SumOf(n.step[t]) = SumOf(s.step[t]) + v
  BY <1>1, <1>2, SumAdds DEF Books
<1> QED BY <1>1, <1>2, <1>3 DEF Balanced, Amounts, Books

(* From one piece of c_step to the next.                                   *)
Onward(s, n) ==
  /\ n \in EnvStates /\ (Balanced(s) => Balanced(n))
  /\ n.exact = s.exact /\ n.base = s.base /\ n.comp = s.comp /\ n.decisions = s.decisions
(* A payment in the components C. *)
Payment(s, n, C) == Onward(s, n) /\ Aside(s, n) /\ PaysIn(s, n, C)

LEMMA AddPays ==
  ASSUME NEW s \in EnvStates, NEW t \in Teams, NEW c \in Components, NEW v \in Int
  PROVE  Payment(s, Add(s, t, c, v), {c})
<1> DEFINE n == Add(s, t, c, v)
<1>1. Balanced(s) => Balanced(n)
  BY AddBalances
<1>2. n \in EnvStates /\ Aside(s, n) /\ PaysIn(s, n, {c})
  BY AddKeeps
<1> HIDE DEF n
<1>3. Onward(s, n)
  BY <1>1, <1>2 DEF Onward, Aside
<1>4. Payment(s, n, {c})
  BY <1>2, <1>3 DEF Payment
<1> QED BY <1>4 DEF n

LEMMA AddIsPaid ==
  ASSUME NEW s \in EnvStates, NEW t \in Teams, NEW c \in Components, NEW v \in Int
  PROVE  /\ Add(s, t, c, v).step[t][c] = s.step[t][c] + v
         /\ \A u \in Teams \ {t} : Add(s, t, c, v).step[u] = s.step[u]
<1> DEFINE n == Add(s, t, c, v)
<1>1. n.step = [s.step EXCEPT ![t][c] = @ + v] /\ s.step \in Books
  BY DEF EnvStates, Add
<1> HIDE DEF n
<1>2. n.step[t][c] = s.step[t][c] + v /\ \A u \in Teams \ {t} : n.step[u] = s.step[u]
  BY <1>1 DEF Books
<1> QED BY <1>2 DEF n

LEMMA NothingPays ==
  ASSUME NEW s \in EnvStates, NEW C PROVE Payment(s, s, C)
BY DEF Payment, Onward, Aside, PaysIn

LEMMA PaymentsJoin ==
  ASSUME NEW s, NEW n, NEW k, NEW C, Payment(s, n, C), Payment(n, k, C)
  PROVE  Payment(s, k, C)
<1>1. Onward(s, k) BY DEF Payment, Onward
<1>2. Aside(s, k) BY DEF Payment, Aside
<1>3. PaysIn(s, k, C) BY DEF Payment, PaysIn
<1> QED BY <1>1, <1>2, <1>3 DEF Payment

LEMMA TransferPays ==
  ASSUME NEW s \in EnvStates, NEW t \in Teams, NEW c \in Components, NEW v \in Int
  PROVE  Payment(s, Transfer(s, t, c, v), {c})
<1> DEFINE n == Add(s, t, c, v)
<1>1. Payment(s, n, {c}) BY AddPays
<1>2. Other(t) \in Teams /\ -v \in Int BY DEF Other, Teams
<1>3. n \in EnvStates BY <1>1 DEF Payment, Onward
<1>4. Payment(n, Add(n, Other(t), c, -v), {c})
  <2> HIDE DEF n
  <2> QED BY <1>2, <1>3, AddPays
<1> HIDE DEF n
<1>5. Payment(s, Add(n, Other(t), c, -v), {c})
  BY <1>1, <1>4, PaymentsJoin
<1> QED BY <1>5 DEF Transfer, n

LEMMA Products == \A a, b \in Int : a * b \in Int
OBVIOUS

(* --------------------- the pieces of c_step, one by one ----------------- *)
Balls ==
  {b \in [state : {"held", "ground", "air", "off"}, holder : {0, 1, 2}, x : 0 .. DMax,
          near : [Teams -> -1 .. DMax]] : (b.state = "held") <=> (b.holder \in Teams)}
Matches ==
  [status : {"decision", "over", "error"}, legal : BOOLEAN, ball : Balls,
   where : {"setup", "touchback", "turn"}, kicking : Teams, active : Teams, score : Amounts,
   out : Amounts, sent : Amounts, surfs : Amounts, incidents : Int]

(* What an operation that pays in C leaves alone, the fields of it apart.   *)
Possession(s, n) == n.possessor = s.possessor
Objectives(s, n) == n.objective = s.objective /\ n.scorePrev = s.scorePrev
Counts(s, n) == n.outPrev = s.outPrev /\ n.sentPrev = s.sentPrev /\ n.surfPrev = s.surfPrev
Potentials(s, n) == n.fetchPrev = s.fetchPrev /\ n.carryPrev = s.carryPrev

Discreet(s, n, C) ==
  /\ Onward(s, n) /\ PaysIn(s, n, C)
  /\ Possession(s, n) /\ Objectives(s, n) /\ Counts(s, n) /\ Potentials(s, n)

LEMMA PaymentIsDiscreet ==
  ASSUME NEW s, NEW n, NEW C, Payment(s, n, C)
  PROVE  Discreet(s, n, C)
BY DEF Payment, Discreet, Aside, Possession, Objectives, Counts, Potentials

(* The kick-off's touchback is paid, and remembered, or forgotten.         *)
LEMMA TouchbackStep ==
  ASSUME NEW s \in EnvStates, NEW m \in Matches
  PROVE  /\ Discreet(s, TouchbackPaid(s, m), {"TOUCHBACK"})
         /\ TouchbackPaid(s, m).prevActive = s.prevActive
<1> DEFINE k == Add(s, m.kicking, "TOUCHBACK", GammaDen * RewardTouchback)
           Good(n) == Discreet(s, n, {"TOUCHBACK"}) /\ n.prevActive = s.prevActive
<1>1. m.kicking \in Teams /\ "TOUCHBACK" \in Components /\ GammaDen * RewardTouchback \in Int
  BY Products DEF Matches, Components
<1>2. Payment(s, k, {"TOUCHBACK"})
  BY <1>1, AddPays
<1>3. Payment(s, s, {"TOUCHBACK"})
  BY NothingPays
<1>4. TouchbackPaid(s, m) \in {s, [s EXCEPT !.latched = FALSE], [k EXCEPT !.latched = TRUE]}
  BY DEF TouchbackPaid
<1> HIDE DEF k
<1>5. ASSUME NEW n, NEW b \in BOOLEAN, Payment(s, n, {"TOUCHBACK"})
      PROVE  Good([n EXCEPT !.latched = b])
  <2> DEFINE o == [n EXCEPT !.latched = b]
  <2>0. n \in EnvStates BY <1>5 DEF Payment, Onward
  <2>1. o \in EnvStates BY <2>0 DEF EnvStates
  <2>2. Balanced(n) => Balanced(o) BY <2>0 DEF EnvStates, Balanced
  <2>3. /\ o.exact = n.exact /\ o.possessor = n.possessor /\ o.fetchPrev = n.fetchPrev
        /\ o.carryPrev = n.carryPrev /\ o.prevActive = n.prevActive /\ o.decisions = n.decisions
        /\ o.scorePrev = n.scorePrev /\ o.outPrev = n.outPrev /\ o.sentPrev = n.sentPrev
        /\ o.surfPrev = n.surfPrev /\ o.objective = n.objective /\ o.base = n.base
        /\ o.comp = n.comp /\ o.step = n.step
    BY <2>0 DEF EnvStates
  <2> HIDE DEF o
  <2>4. Onward(s, o)
    BY <1>5, <2>1, <2>2, <2>3 DEF Payment, Onward
  <2>5. PaysIn(s, o, {"TOUCHBACK"})
    BY <1>5, <2>3 DEF Payment, PaysIn
  <2>6. Good(o)
    BY <1>5, <2>3, <2>4, <2>5 DEF Payment, Aside, Discreet, Possession, Objectives, Counts, Potentials
  <2> QED BY <2>6 DEF o
<1>6. Good(s)
  BY <1>3, PaymentIsDiscreet
<1> HIDE DEF Good
<1>7. Good([s EXCEPT !.latched = FALSE]) /\ Good([k EXCEPT !.latched = TRUE])
  BY <1>2, <1>3, <1>5
<1>8. Good(TouchbackPaid(s, m))
  BY <1>4, <1>6, <1>7
<1> QED BY <1>8 DEF Good

(* The annuity of the turns ended with the ball in hand.                   *)
LEMMA TurnsStep ==
  ASSUME NEW s \in EnvStates, NEW r, r.g \in Matches, r.held \in Amounts
  PROVE  Payment(s, TurnsPaid(s, r), {"POSSESSION"})
<1>1. ASSUME NEW k \in EnvStates, NEW t \in Teams
      PROVE  Payment(k, AnnuityOf(k, t, r), {"POSSESSION"})
  <2> DEFINE scored == r.g.score[t] - k.scorePrev[t]
             events == r.held[t] - (IF scored < r.held[t] THEN scored ELSE r.held[t])
  <2>1. r.g.score[t] \in Int /\ k.scorePrev[t] \in Int /\ r.held[t] \in Int
    BY DEF Matches, EnvStates, Amounts
  <2>2. events \in Int
    BY <2>1
  <2> HIDE DEF events
  <2>3. GammaDen * RewardPossession * events \in Int /\ "POSSESSION" \in Components
    BY <2>2, Products DEF Components
  <2>4. Payment(k, Transfer(k, t, "POSSESSION", GammaDen * RewardPossession * events), {"POSSESSION"})
    BY <2>3, TransferPays
  <2>5. Payment(k, k, {"POSSESSION"})
    BY NothingPays
  <2> QED BY <2>4, <2>5 DEF AnnuityOf, events
<1> DEFINE k == AnnuityOf(s, 0, r)
<1>2. Payment(s, k, {"POSSESSION"})
  BY <1>1 DEF Teams
<1>3. k \in EnvStates
  BY <1>2 DEF Payment, Onward
<1> HIDE DEF k
<1>4. Payment(k, AnnuityOf(k, 1, r), {"POSSESSION"})
  BY <1>1, <1>3 DEF Teams
<1>5. Payment(s, AnnuityOf(k, 1, r), {"POSSESSION"})
  BY <1>2, <1>4, PaymentsJoin
<1> QED BY <1>5 DEF TurnsPaid, k

(* The hooks at the end of a turn look at who acts from now on.            *)
LEMMA HooksStep ==
  ASSUME NEW s \in EnvStates, NEW r, r.g \in Matches, NEW inTurn, s.prevActive \in Teams,
         NEW n \in TurnHooks(s, inTurn, r)
  PROVE  Discreet(s, n, {"EXPOSURE"}) /\ n.prevActive = r.g.active
<1> DEFINE k == Add(s, s.prevActive, "EXPOSURE", -GammaDen * RewardExposure)
<1>1. -GammaDen * RewardExposure \in Int /\ "EXPOSURE" \in Components
  BY DEF Components
<1>2. Payment(s, k, {"EXPOSURE"})
  BY <1>1, AddPays
<1>3. Payment(s, s, {"EXPOSURE"})
  BY NothingPays
<1>4. n \in {[s EXCEPT !.prevActive = r.g.active], [k EXCEPT !.prevActive = r.g.active]}
  BY DEF TurnHooks
<1> HIDE DEF k
<1>5. r.g.active \in Int
  BY DEF Matches, Teams
<1>6. ASSUME NEW a, Payment(s, a, {"EXPOSURE"}), n = [a EXCEPT !.prevActive = r.g.active]
      PROVE  Discreet(s, n, {"EXPOSURE"}) /\ n.prevActive = r.g.active
  <2>0. a \in EnvStates BY <1>6 DEF Payment, Onward
  <2>1. n \in EnvStates /\ n.prevActive = r.g.active BY <1>5, <1>6, <2>0 DEF EnvStates
  <2>2. Balanced(a) => Balanced(n) BY <1>6, <2>0 DEF EnvStates, Balanced
  <2>3. /\ n.exact = a.exact /\ n.possessor = a.possessor /\ n.fetchPrev = a.fetchPrev
        /\ n.carryPrev = a.carryPrev /\ n.decisions = a.decisions
        /\ n.scorePrev = a.scorePrev /\ n.outPrev = a.outPrev /\ n.sentPrev = a.sentPrev
        /\ n.surfPrev = a.surfPrev /\ n.objective = a.objective /\ n.base = a.base
        /\ n.comp = a.comp /\ n.step = a.step
    BY <1>6, <2>0 DEF EnvStates
  <2>4. Onward(s, n)
    BY <1>6, <2>1, <2>2, <2>3 DEF Payment, Onward
  <2>5. PaysIn(s, n, {"EXPOSURE"})
    BY <1>6, <2>3 DEF Payment, PaysIn
  <2> QED
    BY <1>6, <2>1, <2>3, <2>4, <2>5 DEF Payment, Aside, Discreet, Possession, Objectives, Counts, Potentials
<1> QED BY <1>2, <1>3, <1>4, <1>6

(* A touchdown changes hands, and is remembered.                           *)
LEMMA TouchdownOfStep ==
  ASSUME NEW s \in EnvStates, NEW t \in Teams, NEW m \in Matches
  PROVE  LET n == TouchdownOf(s, t, m)
             d == m.score[t] - s.scorePrev[t]
             td == GammaDen * RewardTd * d IN
         /\ Onward(s, n) /\ PaysIn(s, n, {"TOUCHDOWN"})
         /\ Possession(s, n) /\ Counts(s, n) /\ Potentials(s, n) /\ n.prevActive = s.prevActive
         /\ d <= 0 => Objectives(s, n)
         /\ d > 0 => /\ n.objective = [s.objective EXCEPT ![t] = @ + td, ![Other(t)] = @ - td]
                     /\ n.scorePrev = [s.scorePrev EXCEPT ![t] = m.score[t]]
<1> DEFINE n == TouchdownOf(s, t, m)
           d == m.score[t] - s.scorePrev[t]
           td == GammaDen * RewardTd * d
           k == Transfer(s, t, "TOUCHDOWN", td)
           o == [s.objective EXCEPT ![t] = @ + td, ![Other(t)] = @ - td]
           q == [s.scorePrev EXCEPT ![t] = m.score[t]]
<1>1. m.score[t] \in Int /\ s.scorePrev[t] \in Int /\ s.scorePrev \in Amounts
      /\ s.objective \in Amounts /\ Other(t) \in Teams
  BY DEF Matches, EnvStates, Amounts, Other, Teams
<1>2. d \in Int /\ td \in Int /\ "TOUCHDOWN" \in Components
  BY <1>1, Products DEF Components
<1>3. CASE d <= 0
  <2>1. n = s BY <1>3 DEF TouchdownOf
  <2>2. Payment(s, s, {"TOUCHDOWN"}) BY NothingPays
  <2>3. Discreet(s, s, {"TOUCHDOWN"}) BY <2>2, PaymentIsDiscreet
  <2> HIDE DEF n, td, k, o, q
  <2> QED BY <1>1, <1>3, <2>1, <2>3 DEF Discreet, n, td
<1>4. CASE d > 0
  <2>0. ~(d <= 0) BY <1>1, <1>4
  <2> HIDE DEF d, td
  <2>1. Payment(s, k, {"TOUCHDOWN"})
    BY <1>2, TransferPays
  <2>2. k \in EnvStates /\ k.objective = s.objective /\ k.scorePrev = s.scorePrev
    BY <2>1 DEF Payment, Onward, Aside
  <2>3. o \in Amounts /\ q \in Amounts
    BY <1>1, <1>2 DEF Amounts
  <2>4. n = [k EXCEPT !.objective = o, !.scorePrev = q]
    <3>1. n = [k EXCEPT !.objective[t] = @ + td, !.objective[Other(t)] = @ - td,
                        !.scorePrev[t] = m.score[t]]
      BY <2>0 DEF TouchdownOf, d, td
    <3> HIDE DEF n, k
    <3> QED BY <2>2, <3>1 DEF EnvStates
  <2> HIDE DEF n, k, o, q
  <2>5. n \in EnvStates
    BY <2>2, <2>3, <2>4 DEF EnvStates
  <2>6. Balanced(k) => Balanced(n) BY <2>2, <2>4 DEF EnvStates, Balanced
  <2>7. /\ n.exact = k.exact /\ n.possessor = k.possessor /\ n.fetchPrev = k.fetchPrev
        /\ n.carryPrev = k.carryPrev /\ n.decisions = k.decisions /\ n.prevActive = k.prevActive
        /\ n.outPrev = k.outPrev /\ n.sentPrev = k.sentPrev
        /\ n.surfPrev = k.surfPrev /\ n.base = k.base
        /\ n.comp = k.comp /\ n.step = k.step
    BY <2>2, <2>4 DEF EnvStates
  <2>8. n.objective = o /\ n.scorePrev = q
    BY <2>2, <2>4 DEF EnvStates
  <2>9. Onward(s, n)
    BY <2>1, <2>5, <2>6, <2>7 DEF Payment, Onward
  <2>10. PaysIn(s, n, {"TOUCHDOWN"})
    BY <2>1, <2>7 DEF Payment, PaysIn
  <2>11. Possession(s, n) /\ Counts(s, n) /\ Potentials(s, n) /\ n.prevActive = s.prevActive
    BY <2>1, <2>7 DEF Payment, Aside, Possession, Counts, Potentials
  <2> QED BY <2>0, <2>8, <2>9, <2>10, <2>11 DEF n, o, q, td, d
<1> QED BY <1>1, <1>2, <1>3, <1>4

(* Of one step at most one side scores, and it scores once.                *)
OneScore(s, m) ==
  \E u \in Teams :
    m.score[u] \in {s.scorePrev[u], s.scorePrev[u] + 1} /\ m.score[Other(u)] = s.scorePrev[Other(u)]
TdMost == GammaDen * Abs(RewardTd)

LEMMA TouchdownsStep ==
  ASSUME NEW s \in EnvStates, NEW m \in Matches, OneScore(s, m), s.objective = Each(0)
  PROVE  LET n == TouchdownsPaid(s, m) IN
         /\ Onward(s, n) /\ PaysIn(s, n, {"TOUCHDOWN"})
         /\ Possession(s, n) /\ Counts(s, n) /\ Potentials(s, n) /\ n.prevActive = s.prevActive
         /\ n.scorePrev = m.score
         /\ \A t \in Teams : n.objective[t] \in -TdMost .. TdMost
<1> DEFINE k == TouchdownOf(s, 0, m)
           n == TouchdownOf(k, 1, m)
           d == m.score[0] - s.scorePrev[0]
           f == m.score[1] - k.scorePrev[1]
<1>0. 0 \in Teams /\ 1 \in Teams /\ Other(0) = 1 /\ Other(1) = 0
  BY DEF Teams, Other
<1>1. /\ Onward(s, k) /\ PaysIn(s, k, {"TOUCHDOWN"})
      /\ Possession(s, k) /\ Counts(s, k) /\ Potentials(s, k) /\ k.prevActive = s.prevActive
      /\ d <= 0 => Objectives(s, k)
      /\ d > 0 => /\ k.objective = [s.objective EXCEPT ![0] = @ + GammaDen * RewardTd * d,
                                                       ![1] = @ - GammaDen * RewardTd * d]
                  /\ k.scorePrev = [s.scorePrev EXCEPT ![0] = m.score[0]]
  BY <1>0, TouchdownOfStep
<1>2. k \in EnvStates
  BY <1>1 DEF Onward
<1> HIDE DEF k
<1>3. /\ Onward(k, n) /\ PaysIn(k, n, {"TOUCHDOWN"})
      /\ Possession(k, n) /\ Counts(k, n) /\ Potentials(k, n) /\ n.prevActive = k.prevActive
      /\ f <= 0 => Objectives(k, n)
      /\ f > 0 => /\ n.objective = [k.objective EXCEPT ![1] = @ + GammaDen * RewardTd * f,
                                                       ![0] = @ - GammaDen * RewardTd * f]
                  /\ n.scorePrev = [k.scorePrev EXCEPT ![1] = m.score[1]]
  BY <1>0, <1>2, TouchdownOfStep
<1> HIDE DEF n
<1>4. Onward(s, n) /\ PaysIn(s, n, {"TOUCHDOWN"})
  BY <1>1, <1>3 DEF Onward, PaysIn
<1>5. Possession(s, n) /\ Counts(s, n) /\ Potentials(s, n) /\ n.prevActive = s.prevActive
  BY <1>1, <1>3 DEF Possession, Counts, Potentials
<1>6. /\ m.score \in Amounts /\ s.scorePrev \in Amounts /\ k.scorePrev \in Amounts
      /\ n.scorePrev \in Amounts /\ k.objective \in Amounts /\ n.objective \in Amounts
      /\ s.objective \in Amounts
  BY <1>2, <1>3 DEF Onward, EnvStates, Matches
<1>7. k.scorePrev[1] = s.scorePrev[1] /\ k.scorePrev[0] = m.score[0]
  BY <1>0, <1>1, <1>6 DEF OneScore, Objectives, Amounts, Teams
<1>8. n.scorePrev[1] = m.score[1] /\ n.scorePrev[0] = m.score[0]
  BY <1>0, <1>3, <1>6, <1>7 DEF OneScore, Objectives, Amounts, Teams
<1>9. n.scorePrev = m.score
  BY <1>6, <1>8 DEF Amounts, Teams
<1> DEFINE td == GammaDen * RewardTd
<1>10. td \in Int /\ td \in -TdMost .. TdMost /\ -td \in -TdMost .. TdMost /\ 0 \in -TdMost .. TdMost
  <2>1. CASE RewardTd < 0
    <3>1. TdMost = -td BY <2>1 DEF TdMost, Abs
    <3>2. td <= 0 /\ td \in Int BY <2>1
    <3> QED BY <3>1, <3>2
  <2>2. CASE RewardTd >= 0
    <3>1. TdMost = td BY <2>2 DEF TdMost, Abs
    <3>2. td >= 0 /\ td \in Int BY <2>2
    <3> QED BY <3>1, <3>2
  <2> QED BY <2>1, <2>2
<1>11. d \in {0, 1} /\ f \in {0, 1} /\ (d = 0 \/ f = 0)
  BY <1>0, <1>6, <1>7 DEF OneScore, Amounts, Teams
<1> HIDE DEF d, f
<1>12. GammaDen * RewardTd * 1 = td
  OBVIOUS
<1> HIDE DEF td
<1>13. \A t \in Teams : s.objective[t] = 0
  BY DEF Each
<1>14. CASE d = 1
  <2>1. k.objective = [s.objective EXCEPT ![0] = @ + td, ![1] = @ - td]
    BY <1>1, <1>12, <1>14
  <2>2. n.objective = k.objective
    BY <1>3, <1>11, <1>14 DEF Objectives
  <2> QED BY <1>0, <1>4, <1>5, <1>6, <1>9, <1>10, <1>13, <2>1, <2>2 DEF TouchdownsPaid, Amounts, Teams, n, k
<1>15. CASE f = 1
  <2>1. n.objective = [k.objective EXCEPT ![1] = @ + td, ![0] = @ - td]
    BY <1>3, <1>12, <1>15
  <2>2. k.objective = s.objective
    BY <1>1, <1>11, <1>15 DEF Objectives
  <2> QED BY <1>0, <1>4, <1>5, <1>6, <1>9, <1>10, <1>13, <2>1, <2>2 DEF TouchdownsPaid, Amounts, Teams, n, k
<1>16. CASE d = 0 /\ f = 0
  <2>1. n.objective = s.objective
    BY <1>1, <1>3, <1>16 DEF Objectives
  <2> QED BY <1>0, <1>4, <1>5, <1>6, <1>9, <1>10, <1>13, <2>1 DEF TouchdownsPaid, Amounts, Teams, n, k
<1> QED BY <1>11, <1>14, <1>15, <1>16

(* What updating the possession leaves alone.                              *)
Handling(s, n) ==
  /\ Onward(s, n) /\ PaysIn(s, n, {"BALL_GAIN", "BALL_LOSS"})
  /\ Objectives(s, n) /\ Counts(s, n) /\ Potentials(s, n) /\ n.prevActive = s.prevActive
(* The gains and losses of a step balance with who had the ball before it   *)
(* and who has it now.                                                     *)
Turned(s, n) ==
  \A t \in Teams : \E gains, losses \in {0, 1} :
    /\ n.step[t].BALL_GAIN = s.step[t].BALL_GAIN + gains * (GammaDen * RewardGain)
    /\ n.step[t].BALL_LOSS = s.step[t].BALL_LOSS + losses * (GammaDen * RewardLoss)
    /\ gains + One(s.possessor, t) >= losses + One(n.possessor, t)

LEMMA PossessorSet ==
  ASSUME NEW s \in EnvStates, NEW p \in Int
  PROVE  LET n == [s EXCEPT !.possessor = p] IN
         Handling(s, n) /\ n.step = s.step /\ n.possessor = p
<1> DEFINE n == [s EXCEPT !.possessor = p]
<1>1. n \in EnvStates BY DEF EnvStates
<1>2. Balanced(s) => Balanced(n) BY DEF EnvStates, Balanced
<1>3. /\ n.exact = s.exact /\ n.objective = s.objective /\ n.fetchPrev = s.fetchPrev
      /\ n.carryPrev = s.carryPrev /\ n.decisions = s.decisions /\ n.prevActive = s.prevActive
      /\ n.outPrev = s.outPrev /\ n.sentPrev = s.sentPrev /\ n.scorePrev = s.scorePrev
      /\ n.surfPrev = s.surfPrev /\ n.base = s.base
      /\ n.comp = s.comp /\ n.step = s.step /\ n.possessor = p
  BY DEF EnvStates
<1> HIDE DEF n
<1>4. Onward(s, n) BY <1>1, <1>2, <1>3 DEF Onward
<1>5. Handling(s, n) BY <1>3, <1>4 DEF Handling, PaysIn, Objectives, Counts, Potentials
<1> QED BY <1>3, <1>5 DEF n

LEMMA HandlingJoins ==
  ASSUME NEW s, NEW n, NEW k, Handling(s, n), Handling(n, k)
  PROVE  Handling(s, k)
<1>1. Onward(s, k) BY DEF Handling, Onward
<1>2. PaysIn(s, k, {"BALL_GAIN", "BALL_LOSS"}) BY DEF Handling, PaysIn
<1> QED BY <1>1, <1>2 DEF Handling, Objectives, Counts, Potentials

LEMMA PaymentHandles ==
  ASSUME NEW s, NEW n, NEW c \in {"BALL_GAIN", "BALL_LOSS"}, Payment(s, n, {c})
  PROVE  Handling(s, n) /\ n.possessor = s.possessor
<1>1. PaysIn(s, n, {"BALL_GAIN", "BALL_LOSS"}) BY DEF Payment, PaysIn
<1> QED BY <1>1 DEF Payment, Handling, Aside, Objectives, Counts, Potentials

(* The possession follows the ball; a change of hands is a loss and a gain, *)
(* and neither when a touchdown made it.                                   *)
LEMMA PossessionStep ==
  ASSUME NEW s \in EnvStates, NEW m \in Matches, NEW scored \in BOOLEAN,
         s.possessor \in {0, 1, 2}, scored => m.ball.state # "held"
  PROVE  LET n == PossessionUpdated(s, m, scored) IN
         /\ Handling(s, n) /\ Turned(s, n) /\ n.possessor \in {0, 1, 2}
         /\ m.ball.state = "held" => n.possessor = m.ball.holder
         /\ m.ball.state = "ground" => n.possessor = Nobody
         /\ m.ball.state = "off" /\ m.where # "turn" => n.possessor = Nobody
         /\ m.ball.state \in {"off", "air"} => n.possessor \in {s.possessor, Nobody}
         /\ m.ball.state = "air" => n.possessor = s.possessor
<1> DEFINE paying == RewardGain # 0 \/ RewardLoss # 0
           ended == EndPossession(s)
           fined == Add(ended, s.possessor, "BALL_LOSS", GammaDen * RewardLoss)
           lost == IF s.possessor = Nobody THEN s ELSE IF paying THEN fined ELSE ended
           turned == [lost EXCEPT !.possessor = m.ball.holder]
           gained == IF paying THEN Add(turned, m.ball.holder, "BALL_GAIN", GammaDen * RewardGain)
                     ELSE turned
<1>0. /\ GammaDen * RewardLoss \in Int /\ GammaDen * RewardGain \in Int
      /\ "BALL_LOSS" \in Components /\ "BALL_GAIN" \in Components
      /\ ~paying => GammaDen * RewardLoss = 0 /\ GammaDen * RewardGain = 0
  BY Products DEF Components
<1>1. /\ m.ball.state \in {"held", "ground", "air", "off"} /\ m.ball.holder \in {0, 1, 2}
      /\ m.ball.state = "held" <=> m.ball.holder \in Teams
  BY DEF Matches, Balls
<1> HIDE DEF paying
<1>2. /\ Handling(s, ended) /\ ended.step = s.step /\ ended.possessor = Nobody
      /\ ended \in EnvStates
  BY PossessorSet DEF EndPossession, Nobody, Handling, Onward
<1>3. Handling(s, s)
  <2>1. Payment(s, s, {"BALL_GAIN"}) BY NothingPays
  <2> QED BY <2>1, PaymentHandles
<1> HIDE DEF ended
<1>4. s.possessor # Nobody =>
        /\ Payment(ended, fined, {"BALL_LOSS"})
        /\ fined.step[s.possessor].BALL_LOSS = ended.step[s.possessor].BALL_LOSS + GammaDen * RewardLoss
        /\ \A u \in Teams \ {s.possessor} : fined.step[u] = ended.step[u]
  <2> SUFFICES ASSUME s.possessor # Nobody
               PROVE  /\ Payment(ended, fined, {"BALL_LOSS"})
                      /\ fined.step[s.possessor].BALL_LOSS
                           = ended.step[s.possessor].BALL_LOSS + GammaDen * RewardLoss
                      /\ \A u \in Teams \ {s.possessor} : fined.step[u] = ended.step[u]
    OBVIOUS
  <2>1. s.possessor \in Teams BY DEF Nobody, Teams
  <2>2. Payment(ended, fined, {"BALL_LOSS"}) BY <1>0, <1>2, <2>1, AddPays
  <2>3. /\ fined.step[s.possessor]["BALL_LOSS"]
             = ended.step[s.possessor]["BALL_LOSS"] + GammaDen * RewardLoss
        /\ \A u \in Teams \ {s.possessor} : fined.step[u] = ended.step[u]
    BY <1>0, <1>2, <2>1, AddIsPaid
  <2> HIDE DEF fined
  <2> QED BY <2>2, <2>3
<1> HIDE DEF fined
<1>5. /\ Handling(s, lost) /\ lost.possessor = Nobody
      /\ \A t \in Teams : /\ lost.step[t].BALL_GAIN = s.step[t].BALL_GAIN
                          /\ lost.step[t].BALL_LOSS
                               = s.step[t].BALL_LOSS + One(s.possessor, t) * (GammaDen * RewardLoss)
  <2>0. \A t \in Teams : s.step[t].BALL_LOSS \in Int
    BY <1>0 DEF EnvStates, Books
  <2>1. CASE s.possessor = Nobody
    <3>1. \A t \in Teams : One(s.possessor, t) = 0 BY <2>1 DEF One, Teams, Nobody
    <3>2. lost = s BY <2>1
    <3> HIDE DEF lost
    <3> QED BY <1>0, <1>3, <2>0, <2>1, <3>1, <3>2
  <2>2. CASE s.possessor # Nobody /\ paying
    <3>1. lost = fined BY <2>2
    <3>2. Payment(ended, fined, {"BALL_LOSS"}) BY <1>4, <2>2
    <3>3. Handling(ended, fined) /\ fined.possessor = Nobody BY <1>2, <3>2, PaymentHandles
    <3>4. Handling(s, fined) BY <1>2, <3>3, HandlingJoins
    <3>5. \A t \in Teams : fined.step[t].BALL_GAIN = s.step[t].BALL_GAIN
      BY <1>0, <1>2, <3>2 DEF Payment, PaysIn
    <3>6. \A t \in Teams : fined.step[t].BALL_LOSS
                             = s.step[t].BALL_LOSS + One(s.possessor, t) * (GammaDen * RewardLoss)
      <4> TAKE t \in Teams
      <4>1. CASE t = s.possessor
        <5>1. One(s.possessor, t) = 1 BY <4>1 DEF One
        <5> QED BY <1>0, <1>2, <1>4, <2>2, <4>1, <5>1
      <4>2. CASE t # s.possessor
        <5>1. One(s.possessor, t) = 0 BY <4>2 DEF One
        <5> QED BY <1>0, <1>2, <1>4, <2>0, <2>2, <4>2, <5>1
      <4> QED BY <4>1, <4>2
    <3> HIDE DEF lost
    <3> QED BY <3>1, <3>3, <3>4, <3>5, <3>6
  <2>3. CASE s.possessor # Nobody /\ ~paying
    <3>1. lost = ended BY <2>3
    <3>2. \A t \in Teams : One(s.possessor, t) * (GammaDen * RewardLoss) = 0
      BY <1>0, <2>3 DEF One
    <3> HIDE DEF lost
    <3> QED BY <1>2, <2>0, <3>1, <3>2
  <2> QED BY <2>1, <2>2, <2>3
<1>6. lost \in EnvStates
  BY <1>5 DEF Handling, Onward
<1> HIDE DEF lost
<1>7. CASE m.ball.state = "ground"
  <2>1. PossessionUpdated(s, m, scored) = lost
    BY <1>7 DEF PossessionUpdated, lost, fined, ended, paying
  <2>2. Turned(s, lost)
    <3> SUFFICES ASSUME NEW t \in Teams
                 PROVE  \E gains, losses \in {0, 1} :
                          /\ lost.step[t].BALL_GAIN = s.step[t].BALL_GAIN + gains * (GammaDen * RewardGain)
                          /\ lost.step[t].BALL_LOSS = s.step[t].BALL_LOSS + losses * (GammaDen * RewardLoss)
                          /\ gains + One(s.possessor, t) >= losses + One(lost.possessor, t)
      BY DEF Turned
    <3>1. One(s.possessor, t) \in {0, 1} /\ One(lost.possessor, t) = 0
      BY <1>5 DEF One, Nobody, Teams
    <3>2. lost.step[t].BALL_GAIN = s.step[t].BALL_GAIN + 0 * (GammaDen * RewardGain)
      BY <1>0, <1>5 DEF EnvStates, Books
    <3> QED BY <1>5, <3>1, <3>2
  <2> QED BY <1>5, <1>7, <2>1, <2>2 DEF Nobody
<1>8. CASE m.ball.state = "held" /\ m.ball.holder # s.possessor
  <2>0. m.ball.holder \in Teams BY <1>1, <1>8
  <2>1. PossessionUpdated(s, m, scored) = gained
    BY <1>8 DEF PossessionUpdated, gained, turned, lost, fined, ended, paying
  <2>2. Handling(lost, turned) /\ turned.step = lost.step /\ turned.possessor = m.ball.holder
        /\ turned \in EnvStates
    BY <1>6, <2>0, PossessorSet DEF Teams, Handling, Onward
  <2> HIDE DEF turned
  <2>3. Handling(s, turned)
    BY <1>5, <2>2, HandlingJoins
  <2>4. /\ Handling(s, gained) /\ gained.possessor = m.ball.holder
        /\ \A t \in Teams : /\ gained.step[t].BALL_LOSS = lost.step[t].BALL_LOSS
                            /\ gained.step[t].BALL_GAIN
                                 = lost.step[t].BALL_GAIN + One(m.ball.holder, t) * (GammaDen * RewardGain)
    <3>0. \A t \in Teams : lost.step[t].BALL_GAIN \in Int
      BY <1>0, <1>6 DEF EnvStates, Books
    <3>1. CASE paying
      <4> DEFINE k == Add(turned, m.ball.holder, "BALL_GAIN", GammaDen * RewardGain)
      <4>1. /\ Payment(turned, k, {"BALL_GAIN"})
            /\ k.step[m.ball.holder].BALL_GAIN
                 = turned.step[m.ball.holder].BALL_GAIN + GammaDen * RewardGain
            /\ \A u \in Teams \ {m.ball.holder} : k.step[u] = turned.step[u]
        <5>1. Payment(turned, k, {"BALL_GAIN"})
          BY <1>0, <2>0, <2>2, AddPays
        <5>2. /\ k.step[m.ball.holder]["BALL_GAIN"]
                   = turned.step[m.ball.holder]["BALL_GAIN"] + GammaDen * RewardGain
              /\ \A u \in Teams \ {m.ball.holder} : k.step[u] = turned.step[u]
          BY <1>0, <2>0, <2>2, AddIsPaid
        <5> HIDE DEF k
        <5> QED BY <5>1, <5>2
      <4>2. gained = k BY <3>1
      <4> HIDE DEF k
      <4>3. Handling(turned, k) /\ k.possessor = m.ball.holder BY <2>2, <4>1, PaymentHandles
      <4>4. Handling(s, k) BY <2>3, <4>3, HandlingJoins
      <4>5. \A t \in Teams : k.step[t].BALL_LOSS = lost.step[t].BALL_LOSS
        BY <1>0, <2>2, <4>1 DEF Payment, PaysIn
      <4>6. \A t \in Teams : k.step[t].BALL_GAIN
                               = lost.step[t].BALL_GAIN + One(m.ball.holder, t) * (GammaDen * RewardGain)
        <5> TAKE t \in Teams
        <5>1. CASE t = m.ball.holder
          <6>1. One(m.ball.holder, t) = 1 BY <5>1 DEF One
          <6> QED BY <1>0, <2>2, <4>1, <5>1, <6>1
        <5>2. CASE t # m.ball.holder
          <6>1. One(m.ball.holder, t) = 0 BY <5>2 DEF One
          <6> QED BY <1>0, <2>2, <3>0, <4>1, <5>2, <6>1
        <5> QED BY <5>1, <5>2
      <4> HIDE DEF gained
      <4> QED BY <4>2, <4>3, <4>4, <4>5, <4>6
    <3>2. CASE ~paying
      <4>1. gained = turned BY <3>2
      <4>2. \A t \in Teams : One(m.ball.holder, t) * (GammaDen * RewardGain) = 0
        BY <1>0, <3>2 DEF One
      <4> HIDE DEF gained
      <4> QED BY <2>2, <2>3, <3>0, <4>1, <4>2
    <3> QED BY <3>1, <3>2
  <2> HIDE DEF gained
  <2>5. Turned(s, gained)
    <3> SUFFICES ASSUME NEW t \in Teams
                 PROVE  \E gains, losses \in {0, 1} :
                          /\ gained.step[t].BALL_GAIN = s.step[t].BALL_GAIN + gains * (GammaDen * RewardGain)
                          /\ gained.step[t].BALL_LOSS = s.step[t].BALL_LOSS + losses * (GammaDen * RewardLoss)
                          /\ gains + One(s.possessor, t) >= losses + One(gained.possessor, t)
      BY DEF Turned
    <3>1. One(s.possessor, t) \in {0, 1} /\ One(m.ball.holder, t) \in {0, 1}
      BY DEF One
    <3> QED BY <1>5, <2>4, <3>1
  <2> QED BY <1>8, <2>0, <2>1, <2>4, <2>5 DEF Teams
<1>9. ASSUME PossessionUpdated(s, m, scored) \in {s, ended},
             m.ball.state # "held" \/ PossessionUpdated(s, m, scored) = s
      PROVE  /\ Handling(s, PossessionUpdated(s, m, scored)) /\ Turned(s, PossessionUpdated(s, m, scored))
             /\ PossessionUpdated(s, m, scored).possessor \in {s.possessor, Nobody}
  <2> DEFINE n == PossessionUpdated(s, m, scored)
  <2>0. n \in {s, ended} BY <1>9
  <2> HIDE DEF n
  <2>1. Handling(s, n) /\ n.step = s.step /\ n.possessor \in {s.possessor, Nobody}
    BY <1>2, <1>3, <2>0
  <2>2. Turned(s, n)
    <3> SUFFICES ASSUME NEW t \in Teams
                 PROVE  \E gains, losses \in {0, 1} :
                          /\ n.step[t].BALL_GAIN = s.step[t].BALL_GAIN + gains * (GammaDen * RewardGain)
                          /\ n.step[t].BALL_LOSS = s.step[t].BALL_LOSS + losses * (GammaDen * RewardLoss)
                          /\ gains + One(s.possessor, t) >= losses + One(n.possessor, t)
      BY DEF Turned
    <3>1. One(s.possessor, t) \in {0, 1} /\ One(n.possessor, t) <= One(s.possessor, t)
          /\ One(n.possessor, t) \in {0, 1}
      BY <2>1 DEF One, Teams, Nobody
    <3>2. s.step[t].BALL_GAIN + 0 * (GammaDen * RewardGain) = s.step[t].BALL_GAIN
          /\ s.step[t].BALL_LOSS + 0 * (GammaDen * RewardLoss) = s.step[t].BALL_LOSS
      BY <1>0 DEF EnvStates, Books
    <3> QED BY <2>1, <3>1, <3>2
  <2> QED BY <2>1, <2>2 DEF n
<1>10. CASE m.ball.state = "held" /\ m.ball.holder = s.possessor
  <2>1. PossessionUpdated(s, m, scored) = s
    BY <1>10 DEF PossessionUpdated
  <2> QED BY <1>9, <1>10, <2>1
<1>11. CASE m.ball.state = "off"
  <2>1. PossessionUpdated(s, m, scored) = IF m.where # "turn" THEN ended ELSE s
    BY <1>11 DEF PossessionUpdated, ended
  <2>2. PossessionUpdated(s, m, scored) \in {s, ended}
    BY <2>1
  <2> QED BY <1>2, <1>9, <1>11, <2>1, <2>2 DEF Nobody
<1>12. CASE m.ball.state = "air"
  <2>1. PossessionUpdated(s, m, scored) = s
    BY <1>12 DEF PossessionUpdated
  <2> QED BY <1>9, <1>12, <2>1
<1> QED BY <1>1, <1>7, <1>8, <1>10, <1>11, <1>12

(* A count of the players of a side is paid for, and remembered.           *)
Tally(s, n, C) ==
  /\ Onward(s, n) /\ PaysIn(s, n, C) /\ Possession(s, n) /\ Objectives(s, n)
  /\ Potentials(s, n) /\ n.prevActive = s.prevActive

LEMMA TallyOfPayment ==
  ASSUME NEW s, NEW a, NEW C, Payment(s, a, C),
         NEW n \in EnvStates, Balanced(a) => Balanced(n),
         n.exact = a.exact, n.base = a.base, n.comp = a.comp, n.decisions = a.decisions,
         n.step = a.step, n.possessor = a.possessor, n.objective = a.objective,
         n.scorePrev = a.scorePrev, n.fetchPrev = a.fetchPrev, n.carryPrev = a.carryPrev,
         n.prevActive = a.prevActive
  PROVE  Tally(s, n, C)
<1>1. Onward(s, n) BY DEF Payment, Onward
<1>2. PaysIn(s, n, C) BY DEF Payment, PaysIn
<1> QED BY <1>1, <1>2 DEF Payment, Aside, Tally, Possession, Objectives, Potentials

WithOut(a, f) == [a EXCEPT !.outPrev = f]
LEMMA OutRemembered ==
  ASSUME NEW s, NEW a, NEW C, Payment(s, a, C), NEW f \in Amounts, NEW n,
         n = WithOut(a, f)
  PROVE  Tally(s, n, C) /\ n.outPrev = f /\ n.sentPrev = s.sentPrev /\ n.surfPrev = s.surfPrev
<1>0. a \in EnvStates BY DEF Payment, Onward
<1>1. n \in EnvStates BY <1>0 DEF EnvStates, WithOut
<1>2. Balanced(a) => Balanced(n) BY <1>0 DEF EnvStates, WithOut, Balanced
<1>3. /\ n.exact = a.exact /\ n.base = a.base /\ n.comp = a.comp /\ n.decisions = a.decisions
      /\ n.step = a.step /\ n.possessor = a.possessor /\ n.objective = a.objective
      /\ n.scorePrev = a.scorePrev /\ n.fetchPrev = a.fetchPrev /\ n.carryPrev = a.carryPrev
      /\ n.prevActive = a.prevActive
  BY <1>0 DEF EnvStates, WithOut
<1>4. n.outPrev = f /\ n.sentPrev = a.sentPrev /\ n.surfPrev = a.surfPrev
  BY <1>0 DEF EnvStates, WithOut
<1>5. Tally(s, n, C)
  BY <1>1, <1>2, <1>3, TallyOfPayment
<1> QED BY <1>4, <1>5 DEF Payment, Aside

WithSent(a, f) == [a EXCEPT !.sentPrev = f]
LEMMA SentRemembered ==
  ASSUME NEW s, NEW a, NEW C, Payment(s, a, C), NEW f \in Amounts, NEW n,
         n = WithSent(a, f)
  PROVE  Tally(s, n, C) /\ n.sentPrev = f /\ n.outPrev = s.outPrev /\ n.surfPrev = s.surfPrev
<1>0. a \in EnvStates BY DEF Payment, Onward
<1>1. n \in EnvStates BY <1>0 DEF EnvStates, WithSent
<1>2. Balanced(a) => Balanced(n) BY <1>0 DEF EnvStates, WithSent, Balanced
<1>3. /\ n.exact = a.exact /\ n.base = a.base /\ n.comp = a.comp /\ n.decisions = a.decisions
      /\ n.step = a.step /\ n.possessor = a.possessor /\ n.objective = a.objective
      /\ n.scorePrev = a.scorePrev /\ n.fetchPrev = a.fetchPrev /\ n.carryPrev = a.carryPrev
      /\ n.prevActive = a.prevActive
  BY <1>0 DEF EnvStates, WithSent
<1>4. n.sentPrev = f /\ n.outPrev = a.outPrev /\ n.surfPrev = a.surfPrev
  BY <1>0 DEF EnvStates, WithSent
<1>5. Tally(s, n, C)
  BY <1>1, <1>2, <1>3, TallyOfPayment
<1> QED BY <1>4, <1>5 DEF Payment, Aside

WithSurf(a, f) == [a EXCEPT !.surfPrev = f]
LEMMA SurfRemembered ==
  ASSUME NEW s, NEW a, NEW C, Payment(s, a, C), NEW f \in Amounts, NEW n,
         n = WithSurf(a, f)
  PROVE  Tally(s, n, C) /\ n.surfPrev = f /\ n.outPrev = s.outPrev /\ n.sentPrev = s.sentPrev
<1>0. a \in EnvStates BY DEF Payment, Onward
<1>1. n \in EnvStates BY <1>0 DEF EnvStates, WithSurf
<1>2. Balanced(a) => Balanced(n) BY <1>0 DEF EnvStates, WithSurf, Balanced
<1>3. /\ n.exact = a.exact /\ n.base = a.base /\ n.comp = a.comp /\ n.decisions = a.decisions
      /\ n.step = a.step /\ n.possessor = a.possessor /\ n.objective = a.objective
      /\ n.scorePrev = a.scorePrev /\ n.fetchPrev = a.fetchPrev /\ n.carryPrev = a.carryPrev
      /\ n.prevActive = a.prevActive
  BY <1>0 DEF EnvStates, WithSurf
<1>4. n.surfPrev = f /\ n.outPrev = a.outPrev /\ n.sentPrev = a.sentPrev
  BY <1>0 DEF EnvStates, WithSurf
<1>5. Tally(s, n, C)
  BY <1>1, <1>2, <1>3, TallyOfPayment
<1> QED BY <1>4, <1>5 DEF Payment, Aside

LEMMA InjuriesOfStep ==
  ASSUME NEW s \in EnvStates, NEW t \in Teams, NEW m \in Matches
  PROVE  LET n == InjuriesOf(s, t, m) IN
         /\ Tally(s, n, {"INJURY"}) /\ n.outPrev = [s.outPrev EXCEPT ![t] = m.out[t]]
         /\ n.sentPrev = s.sentPrev /\ n.surfPrev = s.surfPrev
<1> DEFINE d == m.out[t] - s.outPrev[t]
           a == IF d > 0 THEN Transfer(s, t, "INJURY", -GammaDen * RewardInjury * d) ELSE s
           f == [s.outPrev EXCEPT ![t] = m.out[t]]
<1>1. m.out[t] \in Int /\ s.outPrev[t] \in Int /\ f \in Amounts /\ "INJURY" \in Components
  BY DEF Matches, EnvStates, Amounts, Components
<1>2. -GammaDen * RewardInjury * d \in Int
  <2>1. d \in Int BY <1>1
  <2> HIDE DEF d
  <2> QED BY <2>1, Products
<1> HIDE DEF d
<1>3. Payment(s, a, {"INJURY"})
  BY <1>1, <1>2, TransferPays, NothingPays
<1>4. a.outPrev = s.outPrev /\ a \in EnvStates
  BY <1>3 DEF Payment, Aside, Onward
<1>5. InjuriesOf(s, t, m) = [a EXCEPT !.outPrev[t] = m.out[t]]
  BY DEF InjuriesOf, a, d
<1> HIDE DEF a
<1>6. InjuriesOf(s, t, m) = [a EXCEPT !.outPrev = f]
  BY <1>4, <1>5 DEF EnvStates
<1> HIDE DEF f
<1> DEFINE n == InjuriesOf(s, t, m)
<1> HIDE DEF n
<1>7. n = WithOut(a, f)
  BY <1>6 DEF n, WithOut
<1>8. Tally(s, n, {"INJURY"}) /\ n.outPrev = f /\ n.sentPrev = s.sentPrev /\ n.surfPrev = s.surfPrev
  BY <1>1, <1>3, <1>7, OutRemembered
<1> QED BY <1>8 DEF f, n

LEMMA SendOffsOfStep ==
  ASSUME NEW s \in EnvStates, NEW t \in Teams, NEW m \in Matches
  PROVE  LET n == SendOffsOf(s, t, m) IN
         /\ Tally(s, n, {"SEND_OFF"}) /\ n.sentPrev = [s.sentPrev EXCEPT ![t] = m.sent[t]]
         /\ n.outPrev = s.outPrev /\ n.surfPrev = s.surfPrev
<1> DEFINE d == m.sent[t] - s.sentPrev[t]
           a == IF d > 0 THEN Add(s, t, "SEND_OFF", -GammaDen * RewardSendOff * d) ELSE s
           f == [s.sentPrev EXCEPT ![t] = m.sent[t]]
<1>1. m.sent[t] \in Int /\ s.sentPrev[t] \in Int /\ f \in Amounts /\ "SEND_OFF" \in Components
  BY DEF Matches, EnvStates, Amounts, Components
<1>2. -GammaDen * RewardSendOff * d \in Int
  <2>1. d \in Int BY <1>1
  <2> HIDE DEF d
  <2> QED BY <2>1, Products
<1> HIDE DEF d
<1>3. Payment(s, a, {"SEND_OFF"})
  BY <1>1, <1>2, AddPays, NothingPays
<1>4. a.sentPrev = s.sentPrev /\ a \in EnvStates
  BY <1>3 DEF Payment, Aside, Onward
<1>5. SendOffsOf(s, t, m) = [a EXCEPT !.sentPrev[t] = m.sent[t]]
  BY DEF SendOffsOf, a, d
<1> HIDE DEF a
<1>6. SendOffsOf(s, t, m) = [a EXCEPT !.sentPrev = f]
  BY <1>4, <1>5 DEF EnvStates
<1> HIDE DEF f
<1> DEFINE n == SendOffsOf(s, t, m)
<1> HIDE DEF n
<1>7. n = WithSent(a, f)
  BY <1>6 DEF n, WithSent
<1>8. Tally(s, n, {"SEND_OFF"}) /\ n.sentPrev = f /\ n.outPrev = s.outPrev /\ n.surfPrev = s.surfPrev
  BY <1>1, <1>3, <1>7, SentRemembered
<1> QED BY <1>8 DEF f, n

LEMMA SurfsOfStep ==
  ASSUME NEW s \in EnvStates, NEW t \in Teams, NEW m \in Matches
  PROVE  LET n == SurfsOf(s, t, m) IN
         /\ Tally(s, n, {"SURF"}) /\ n.surfPrev = [s.surfPrev EXCEPT ![t] = m.surfs[t]]
         /\ n.outPrev = s.outPrev /\ n.sentPrev = s.sentPrev
<1> DEFINE d == m.surfs[t] - s.surfPrev[t]
           a == IF d > 0 THEN Transfer(s, t, "SURF", -GammaDen * RewardSurf * d) ELSE s
           f == [s.surfPrev EXCEPT ![t] = m.surfs[t]]
<1>1. m.surfs[t] \in Int /\ s.surfPrev[t] \in Int /\ f \in Amounts /\ "SURF" \in Components
  BY DEF Matches, EnvStates, Amounts, Components
<1>2. -GammaDen * RewardSurf * d \in Int
  <2>1. d \in Int BY <1>1
  <2> HIDE DEF d
  <2> QED BY <2>1, Products
<1> HIDE DEF d
<1>3. Payment(s, a, {"SURF"})
  BY <1>1, <1>2, TransferPays, NothingPays
<1>4. a.surfPrev = s.surfPrev /\ a \in EnvStates
  BY <1>3 DEF Payment, Aside, Onward
<1>5. SurfsOf(s, t, m) = [a EXCEPT !.surfPrev[t] = m.surfs[t]]
  BY DEF SurfsOf, a, d
<1> HIDE DEF a
<1>6. SurfsOf(s, t, m) = [a EXCEPT !.surfPrev = f]
  BY <1>4, <1>5 DEF EnvStates
<1> HIDE DEF f
<1> DEFINE n == SurfsOf(s, t, m)
<1> HIDE DEF n
<1>7. n = WithSurf(a, f)
  BY <1>6 DEF n, WithSurf
<1>8. Tally(s, n, {"SURF"}) /\ n.surfPrev = f /\ n.outPrev = s.outPrev /\ n.sentPrev = s.sentPrev
  BY <1>1, <1>3, <1>7, SurfRemembered
<1> QED BY <1>8 DEF f, n

(* A potential is never negative, never above its greatest value, and never *)
(* the mark of a potential not yet known.                                  *)
LEMMA PotentialBounds ==
  ASSUME NEW coeff \in Nat, NEW d \in Int, d <= DMax
  PROVE  Potential(coeff, d) \in 0 .. DMax * coeff
<1>1. CASE coeff = 0 \/ d < 0
  <2>1. DMax * coeff \in Nat OBVIOUS
  <2>2. Potential(coeff, d) = 0 BY <1>1 DEF Potential
  <2> HIDE DEF Potential
  <2> QED BY <2>1, <2>2
<1>2. CASE ~(coeff = 0 \/ d < 0)
  <2>1. Potential(coeff, d) = coeff * (DMax - d) BY <1>2 DEF Potential
  <2>2. coeff * (DMax - d) = coeff * DMax - coeff * d OBVIOUS
  <2>3. coeff * d >= 0 /\ coeff * d \in Int BY <1>2
  <2>4. coeff * (DMax - d) >= 0 BY <1>2
  <2>5. coeff * DMax = DMax * coeff /\ DMax * coeff \in Int OBVIOUS
  <2> QED BY <2>1, <2>2, <2>3, <2>4, <2>5
<1> QED BY <1>1, <1>2

Fetch(m, t) == Potential(RewardBall, DistFetch(m.ball, t))
Carry(m, t) == Potential(RewardEndzone, DistCarry(m.ball, t))

LEMMA DistancesBounded ==
  ASSUME NEW m \in Matches, NEW t \in Teams
  PROVE  DistFetch(m.ball, t) \in -1 .. DMax /\ DistCarry(m.ball, t) \in -1 .. DMax
<1>1. m.ball.near[t] \in -1 .. DMax /\ m.ball.x \in 0 .. DMax
  BY DEF Matches, Balls
<1>2. DistFetch(m.ball, t) \in -1 .. DMax
  BY <1>1 DEF DistFetch
<1>3. DistCarry(m.ball, t) \in {-1, m.ball.x, DMax - m.ball.x}
  BY DEF DistCarry
<1> QED BY <1>1, <1>2, <1>3

LEMMA Spans ==
  /\ FetchSpan \in Nat /\ CarrySpan \in Nat /\ NaN \in Int
  /\ NaN \notin 0 .. FetchSpan /\ NaN \notin 0 .. CarrySpan
<1>1. Abs(RewardBall) \in Nat /\ Abs(RewardEndzone) \in Nat BY DEF Abs
<1>2. FetchSpan \in Nat /\ CarrySpan \in Nat BY <1>1 DEF FetchSpan, CarrySpan
<1> QED BY <1>2 DEF NaN

LEMMA FetchCarryBounds ==
  ASSUME NEW m \in Matches, NEW t \in Teams, SignValid(TRUE)
  PROVE  /\ Fetch(m, t) \in 0 .. FetchSpan /\ Fetch(m, t) # NaN
         /\ Carry(m, t) \in 0 .. CarrySpan /\ Carry(m, t) # NaN
<1>1. DistFetch(m.ball, t) \in Int /\ DistFetch(m.ball, t) <= DMax
      /\ DistCarry(m.ball, t) \in Int /\ DistCarry(m.ball, t) <= DMax
  BY DistancesBounded
<1>2. RewardBall \in Nat /\ RewardEndzone \in Nat BY DEF SignValid
<1>3. FetchSpan = DMax * RewardBall /\ CarrySpan = DMax * RewardEndzone
  BY <1>2 DEF FetchSpan, CarrySpan, Abs
<1>4. Fetch(m, t) \in 0 .. FetchSpan /\ Carry(m, t) \in 0 .. CarrySpan
  BY <1>1, <1>2, <1>3, PotentialBounds DEF Fetch, Carry
<1> QED BY <1>4, Spans

LEMMA FetchCarryInt ==
  ASSUME NEW m \in Matches, NEW t \in Teams
  PROVE  Fetch(m, t) \in Int /\ Carry(m, t) \in Int
<1>1. DistFetch(m.ball, t) \in Int /\ DistCarry(m.ball, t) \in Int BY DistancesBounded
<1>2. ASSUME NEW c \in Int, NEW d \in Int PROVE Potential(c, d) \in Int
  <2>1. c * (DMax - d) \in Int OBVIOUS
  <2> QED BY <2>1 DEF Potential
<1> QED BY <1>1, <1>2 DEF Fetch, Carry

(* What exact shaping pays for a potential that was prev and is phi now.   *)
Shaping(prev, phi) == GammaNum * phi - GammaDen * (IF prev = NaN THEN phi ELSE prev)
Shaped(s, n) ==
  /\ Onward(s, n) /\ PaysIn(s, n, {"DISTANCE_BALL", "DISTANCE_ENDZONE"})
  /\ Possession(s, n) /\ Objectives(s, n) /\ Counts(s, n) /\ n.prevActive = s.prevActive
WithPotentials(a, p, q) == [a EXCEPT !.fetchPrev = p, !.carryPrev = q]

LEMMA PotentialsRemembered ==
  ASSUME NEW s, NEW a, Payment(s, a, {"DISTANCE_BALL", "DISTANCE_ENDZONE"}),
         NEW p \in Amounts, NEW q \in Amounts, NEW n, n = WithPotentials(a, p, q)
  PROVE  Shaped(s, n) /\ n.fetchPrev = p /\ n.carryPrev = q /\ n.step = a.step
<1>0. a \in EnvStates BY DEF Payment, Onward
<1>1. n \in EnvStates BY <1>0 DEF EnvStates, WithPotentials
<1>2. Balanced(a) => Balanced(n) BY <1>0 DEF EnvStates, Balanced, WithPotentials
<1>3. /\ n.exact = a.exact /\ n.base = a.base /\ n.comp = a.comp /\ n.decisions = a.decisions
      /\ n.step = a.step /\ n.possessor = a.possessor /\ n.objective = a.objective
      /\ n.scorePrev = a.scorePrev /\ n.prevActive = a.prevActive
      /\ n.outPrev = a.outPrev /\ n.sentPrev = a.sentPrev /\ n.surfPrev = a.surfPrev
      /\ n.fetchPrev = p /\ n.carryPrev = q
  BY <1>0 DEF EnvStates, WithPotentials
<1>4. Onward(s, n) BY <1>1, <1>2, <1>3 DEF Payment, Onward
<1>5. PaysIn(s, n, {"DISTANCE_BALL", "DISTANCE_ENDZONE"}) BY <1>3 DEF Payment, PaysIn
<1> QED BY <1>3, <1>4, <1>5 DEF Payment, Aside, Shaped, Possession, Objectives, Counts

LEMMA PotentialsOfStep ==
  ASSUME NEW s \in EnvStates, NEW t \in Teams, NEW m \in Matches, NEW scored
  PROVE  LET n == PotentialsOf(s, t, m, scored) IN
         /\ Shaped(s, n)
         /\ \A u \in Teams \ {t} : /\ n.step[u] = s.step[u] /\ n.fetchPrev[u] = s.fetchPrev[u]
                                   /\ n.carryPrev[u] = s.carryPrev[u]
         /\ s.exact => /\ n.fetchPrev[t] = Fetch(m, t) /\ n.carryPrev[t] = Carry(m, t)
                       /\ n.step[t].DISTANCE_BALL
                            = s.step[t].DISTANCE_BALL + Shaping(s.fetchPrev[t], Fetch(m, t))
                       /\ n.step[t].DISTANCE_ENDZONE
                            = s.step[t].DISTANCE_ENDZONE + Shaping(s.carryPrev[t], Carry(m, t))
<1> DEFINE C == {"DISTANCE_BALL", "DISTANCE_ENDZONE"}
           df == DistFetch(m.ball, t)
           dc == DistCarry(m.ball, t)
           ball == IF s.exact THEN Potential(RewardBall, df) ELSE RawPotential(RewardBall, df)
           endzone == IF s.exact THEN Potential(RewardEndzone, dc) ELSE RawPotential(RewardEndzone, dc)
           fetched == IF s.exact THEN ExactChannel(s, t, "DISTANCE_BALL", s.fetchPrev[t], ball)
                      ELSE LegacyChannel(s, t, "DISTANCE_BALL", s.fetchPrev[t], ball, scored)
           carried == IF s.exact THEN ExactChannel(fetched, t, "DISTANCE_ENDZONE", s.carryPrev[t], endzone)
                      ELSE LegacyChannel(fetched, t, "DISTANCE_ENDZONE", s.carryPrev[t], endzone, scored)
           p == [s.fetchPrev EXCEPT ![t] = ball]
           q == [s.carryPrev EXCEPT ![t] = endzone]
           n == PotentialsOf(s, t, m, scored)
<1>0. /\ "DISTANCE_BALL" \in Components /\ "DISTANCE_ENDZONE" \in Components
      /\ s.fetchPrev \in Amounts /\ s.carryPrev \in Amounts
      /\ s.fetchPrev[t] \in Int /\ s.carryPrev[t] \in Int /\ NaN \in Int
  BY Spans DEF Components, EnvStates, Amounts
<1>1. ball \in Int /\ endzone \in Int
  <2>1. df \in Int /\ dc \in Int BY DistancesBounded
  <2>2. Fetch(m, t) \in Int /\ Carry(m, t) \in Int
    BY FetchCarryInt
  <2> HIDE DEF df, dc
  <2>3. RawPotential(RewardBall, df) \in Int /\ RawPotential(RewardEndzone, dc) \in Int
    <3>1. -RewardBall * df \in Int /\ -RewardEndzone * dc \in Int BY <2>1
    <3> QED BY <1>0, <3>1 DEF RawPotential
  <2> QED BY <2>2, <2>3 DEF Fetch, Carry, df, dc
<1>2. s.exact => ball = Fetch(m, t) /\ endzone = Carry(m, t)
  BY DEF Fetch, Carry
<1>3. n = [carried EXCEPT !.fetchPrev[t] = ball, !.carryPrev[t] = endzone]
  BY DEF PotentialsOf
<1> HIDE DEF ball, endzone, n, df, dc
<1>4. /\ GammaNum * ball - GammaDen * (IF s.fetchPrev[t] = NaN THEN ball ELSE s.fetchPrev[t]) \in Int
      /\ GammaNum * endzone - GammaDen * (IF s.carryPrev[t] = NaN THEN endzone ELSE s.carryPrev[t]) \in Int
      /\ GammaDen * (ball - s.fetchPrev[t]) \in Int /\ GammaDen * (endzone - s.carryPrev[t]) \in Int
  BY <1>0, <1>1
<1>5. \E v \in Int : fetched \in {s, Add(s, t, "DISTANCE_BALL", v)}
                     /\ (s.exact => fetched = Add(s, t, "DISTANCE_BALL", v)
                                    /\ v = Shaping(s.fetchPrev[t], ball))
  BY <1>4 DEF ExactChannel, LegacyChannel, Shaping
<1>6. Payment(s, fetched, {"DISTANCE_BALL"})
      /\ (\A u \in Teams \ {t} : fetched.step[u] = s.step[u])
      /\ (s.exact => fetched.step[t]["DISTANCE_BALL"] = s.step[t]["DISTANCE_BALL"] + Shaping(s.fetchPrev[t], ball))
  <2> HIDE DEF fetched
  <2>1. PICK v \in Int : fetched \in {s, Add(s, t, "DISTANCE_BALL", v)}
                         /\ (s.exact => fetched = Add(s, t, "DISTANCE_BALL", v)
                                        /\ v = Shaping(s.fetchPrev[t], ball))
    BY <1>5
  <2>2. Payment(s, fetched, {"DISTANCE_BALL"})
    BY <1>0, <2>1, AddPays, NothingPays
  <2> QED BY <1>0, <2>1, <2>2, AddIsPaid
<1>7. fetched \in EnvStates /\ fetched.exact = s.exact
  BY <1>6 DEF Payment, Onward
<1>8. \E v \in Int : carried \in {fetched, Add(fetched, t, "DISTANCE_ENDZONE", v)}
                     /\ (s.exact => carried = Add(fetched, t, "DISTANCE_ENDZONE", v)
                                    /\ v = Shaping(s.carryPrev[t], endzone))
  <2> HIDE DEF fetched
  <2> QED BY <1>4, <1>7 DEF ExactChannel, LegacyChannel, Shaping
<1> HIDE DEF fetched
<1>9. Payment(fetched, carried, {"DISTANCE_ENDZONE"})
      /\ (\A u \in Teams \ {t} : carried.step[u] = fetched.step[u])
      /\ (s.exact => carried.step[t]["DISTANCE_ENDZONE"]
                       = fetched.step[t]["DISTANCE_ENDZONE"] + Shaping(s.carryPrev[t], endzone))
  <2> HIDE DEF carried
  <2>1. PICK v \in Int : carried \in {fetched, Add(fetched, t, "DISTANCE_ENDZONE", v)}
                         /\ (s.exact => carried = Add(fetched, t, "DISTANCE_ENDZONE", v)
                                        /\ v = Shaping(s.carryPrev[t], endzone))
    BY <1>8
  <2>2. Payment(fetched, carried, {"DISTANCE_ENDZONE"})
    BY <1>0, <1>7, <2>1, AddPays, NothingPays
  <2> QED BY <1>0, <1>7, <2>1, <2>2, AddIsPaid
<1> HIDE DEF carried
<1>10. Payment(s, carried, C)
  <2>1. Payment(s, fetched, C) /\ Payment(fetched, carried, C)
    BY <1>6, <1>9 DEF Payment, PaysIn
  <2> HIDE DEF C
  <2> QED BY <2>1, PaymentsJoin
<1>11. carried \in EnvStates /\ carried.fetchPrev = s.fetchPrev /\ carried.carryPrev = s.carryPrev
  BY <1>10 DEF Payment, Onward, Aside
<1>12. n = WithPotentials(carried, p, q)
  BY <1>3, <1>11 DEF EnvStates, WithPotentials
<1>13. p \in Amounts /\ q \in Amounts
  BY <1>0, <1>1 DEF Amounts
<1>14. \A u \in Teams \ {t} : p[u] = s.fetchPrev[u] /\ q[u] = s.carryPrev[u]
  BY <1>0 DEF Amounts
<1>15. p[t] = ball /\ q[t] = endzone
  BY <1>0 DEF Amounts
<1> HIDE DEF p, q
<1>16. Shaped(s, n) /\ n.fetchPrev = p /\ n.carryPrev = q /\ n.step = carried.step
  BY <1>10, <1>12, <1>13, PotentialsRemembered
<1>17. carried.step[t]["DISTANCE_BALL"] = fetched.step[t]["DISTANCE_BALL"]
       /\ fetched.step[t]["DISTANCE_ENDZONE"] = s.step[t]["DISTANCE_ENDZONE"]
  BY <1>0, <1>6, <1>9 DEF Payment, PaysIn
<1>18. \A u \in Teams \ {t} : /\ n.step[u] = s.step[u] /\ n.fetchPrev[u] = s.fetchPrev[u]
                              /\ n.carryPrev[u] = s.carryPrev[u]
  BY <1>6, <1>9, <1>14, <1>16
<1>19. s.exact => /\ n.fetchPrev[t] = Fetch(m, t) /\ n.carryPrev[t] = Carry(m, t)
                  /\ n.step[t]["DISTANCE_BALL"]
                       = s.step[t]["DISTANCE_BALL"] + Shaping(s.fetchPrev[t], Fetch(m, t))
                  /\ n.step[t]["DISTANCE_ENDZONE"]
                       = s.step[t]["DISTANCE_ENDZONE"] + Shaping(s.carryPrev[t], Carry(m, t))
  BY <1>2, <1>6, <1>9, <1>15, <1>16, <1>17
<1> QED BY <1>16, <1>18, <1>19 DEF n

(* Both sides' potentials, and both sides' counts.                         *)
LEMMA PotentialsStep ==
  ASSUME NEW s \in EnvStates, NEW m \in Matches, NEW scored
  PROVE  LET n == PotentialsOf(PotentialsOf(s, 0, m, scored), 1, m, scored) IN
         /\ Shaped(s, n)
         /\ s.exact => \A t \in Teams :
              /\ n.fetchPrev[t] = Fetch(m, t) /\ n.carryPrev[t] = Carry(m, t)
              /\ n.step[t].DISTANCE_BALL
                   = s.step[t].DISTANCE_BALL + Shaping(s.fetchPrev[t], Fetch(m, t))
              /\ n.step[t].DISTANCE_ENDZONE
                   = s.step[t].DISTANCE_ENDZONE + Shaping(s.carryPrev[t], Carry(m, t))
<1> DEFINE k == PotentialsOf(s, 0, m, scored)
           n == PotentialsOf(k, 1, m, scored)
<1>0. 0 \in Teams /\ 1 \in Teams BY DEF Teams
<1>1. /\ Shaped(s, k)
      /\ \A u \in Teams \ {0} : /\ k.step[u] = s.step[u] /\ k.fetchPrev[u] = s.fetchPrev[u]
                                /\ k.carryPrev[u] = s.carryPrev[u]
      /\ s.exact => /\ k.fetchPrev[0] = Fetch(m, 0) /\ k.carryPrev[0] = Carry(m, 0)
                    /\ k.step[0].DISTANCE_BALL
                         = s.step[0].DISTANCE_BALL + Shaping(s.fetchPrev[0], Fetch(m, 0))
                    /\ k.step[0].DISTANCE_ENDZONE
                         = s.step[0].DISTANCE_ENDZONE + Shaping(s.carryPrev[0], Carry(m, 0))
  BY <1>0, PotentialsOfStep
<1>2. k \in EnvStates /\ k.exact = s.exact BY <1>1 DEF Shaped, Onward
<1> HIDE DEF k
<1>3. /\ Shaped(k, n)
      /\ \A u \in Teams \ {1} : /\ n.step[u] = k.step[u] /\ n.fetchPrev[u] = k.fetchPrev[u]
                                /\ n.carryPrev[u] = k.carryPrev[u]
      /\ k.exact => /\ n.fetchPrev[1] = Fetch(m, 1) /\ n.carryPrev[1] = Carry(m, 1)
                    /\ n.step[1].DISTANCE_BALL
                         = k.step[1].DISTANCE_BALL + Shaping(k.fetchPrev[1], Fetch(m, 1))
                    /\ n.step[1].DISTANCE_ENDZONE
                         = k.step[1].DISTANCE_ENDZONE + Shaping(k.carryPrev[1], Carry(m, 1))
  BY <1>0, <1>2, PotentialsOfStep
<1> HIDE DEF n
<1>4. Shaped(s, n)
  <2>1. Onward(s, n) BY <1>1, <1>3 DEF Shaped, Onward
  <2>2. PaysIn(s, n, {"DISTANCE_BALL", "DISTANCE_ENDZONE"}) BY <1>1, <1>3 DEF Shaped, PaysIn
  <2> QED BY <1>1, <1>3, <2>1, <2>2 DEF Shaped, Possession, Objectives, Counts
<1>5. s.exact => \A t \in Teams :
        /\ n.fetchPrev[t] = Fetch(m, t) /\ n.carryPrev[t] = Carry(m, t)
        /\ n.step[t].DISTANCE_BALL
             = s.step[t].DISTANCE_BALL + Shaping(s.fetchPrev[t], Fetch(m, t))
        /\ n.step[t].DISTANCE_ENDZONE
             = s.step[t].DISTANCE_ENDZONE + Shaping(s.carryPrev[t], Carry(m, t))
  <2> SUFFICES ASSUME s.exact, NEW t \in Teams
               PROVE  /\ n.fetchPrev[t] = Fetch(m, t) /\ n.carryPrev[t] = Carry(m, t)
                      /\ n.step[t].DISTANCE_BALL
                           = s.step[t].DISTANCE_BALL + Shaping(s.fetchPrev[t], Fetch(m, t))
                      /\ n.step[t].DISTANCE_ENDZONE
                           = s.step[t].DISTANCE_ENDZONE + Shaping(s.carryPrev[t], Carry(m, t))
    OBVIOUS
  <2>1. CASE t = 0
    <3>1. t \in Teams \ {1} BY <2>1
    <3>2. /\ n.step[t] = k.step[t] /\ n.fetchPrev[t] = k.fetchPrev[t]
          /\ n.carryPrev[t] = k.carryPrev[t]
      BY <1>3, <3>1
    <3> QED BY <1>1, <2>1, <3>2
  <2>2. CASE t = 1
    <3>1. t \in Teams \ {0} BY <2>2
    <3>2. /\ k.step[t] = s.step[t] /\ k.fetchPrev[t] = s.fetchPrev[t]
          /\ k.carryPrev[t] = s.carryPrev[t]
      BY <1>1, <3>1
    <3> QED BY <1>2, <1>3, <2>2, <3>2
  <2> QED BY <2>1, <2>2 DEF Teams
<1> QED BY <1>4, <1>5 DEF n, k

LEMMA InjuriesStep ==
  ASSUME NEW s \in EnvStates, NEW m \in Matches
  PROVE  LET n == InjuriesOf(InjuriesOf(s, 0, m), 1, m) IN
         /\ Tally(s, n, {"INJURY"}) /\ n.outPrev = m.out
         /\ n.sentPrev = s.sentPrev /\ n.surfPrev = s.surfPrev
<1> DEFINE k == InjuriesOf(s, 0, m)
           n == InjuriesOf(k, 1, m)
<1>0. 0 \in Teams /\ 1 \in Teams BY DEF Teams
<1>1. /\ Tally(s, k, {"INJURY"}) /\ k.outPrev = [s.outPrev EXCEPT ![0] = m.out[0]]
      /\ k.sentPrev = s.sentPrev /\ k.surfPrev = s.surfPrev
  BY <1>0, InjuriesOfStep
<1>2. k \in EnvStates BY <1>1 DEF Tally, Onward
<1> HIDE DEF k
<1>3. /\ Tally(k, n, {"INJURY"}) /\ n.outPrev = [k.outPrev EXCEPT ![1] = m.out[1]]
      /\ n.sentPrev = k.sentPrev /\ n.surfPrev = k.surfPrev
  BY <1>0, <1>2, InjuriesOfStep
<1> HIDE DEF n
<1>4. Tally(s, n, {"INJURY"})
  <2>1. Onward(s, n) BY <1>1, <1>3 DEF Tally, Onward
  <2>2. PaysIn(s, n, {"INJURY"}) BY <1>1, <1>3 DEF Tally, PaysIn
  <2> QED BY <1>1, <1>3, <2>1, <2>2 DEF Tally, Possession, Objectives, Potentials
<1>5. s.outPrev \in Amounts /\ m.out \in Amounts BY DEF EnvStates, Matches
<1>6. n.outPrev = m.out BY <1>1, <1>3, <1>5 DEF Amounts, Teams
<1> QED BY <1>1, <1>3, <1>4, <1>6 DEF n, k

LEMMA SendOffsStep ==
  ASSUME NEW s \in EnvStates, NEW m \in Matches
  PROVE  LET n == SendOffsOf(SendOffsOf(s, 0, m), 1, m) IN
         /\ Tally(s, n, {"SEND_OFF"}) /\ n.sentPrev = m.sent
         /\ n.outPrev = s.outPrev /\ n.surfPrev = s.surfPrev
<1> DEFINE k == SendOffsOf(s, 0, m)
           n == SendOffsOf(k, 1, m)
<1>0. 0 \in Teams /\ 1 \in Teams BY DEF Teams
<1>1. /\ Tally(s, k, {"SEND_OFF"}) /\ k.sentPrev = [s.sentPrev EXCEPT ![0] = m.sent[0]]
      /\ k.outPrev = s.outPrev /\ k.surfPrev = s.surfPrev
  BY <1>0, SendOffsOfStep
<1>2. k \in EnvStates BY <1>1 DEF Tally, Onward
<1> HIDE DEF k
<1>3. /\ Tally(k, n, {"SEND_OFF"}) /\ n.sentPrev = [k.sentPrev EXCEPT ![1] = m.sent[1]]
      /\ n.outPrev = k.outPrev /\ n.surfPrev = k.surfPrev
  BY <1>0, <1>2, SendOffsOfStep
<1> HIDE DEF n
<1>4. Tally(s, n, {"SEND_OFF"})
  <2>1. Onward(s, n) BY <1>1, <1>3 DEF Tally, Onward
  <2>2. PaysIn(s, n, {"SEND_OFF"}) BY <1>1, <1>3 DEF Tally, PaysIn
  <2> QED BY <1>1, <1>3, <2>1, <2>2 DEF Tally, Possession, Objectives, Potentials
<1>5. s.sentPrev \in Amounts /\ m.sent \in Amounts BY DEF EnvStates, Matches
<1>6. n.sentPrev = m.sent BY <1>1, <1>3, <1>5 DEF Amounts, Teams
<1> QED BY <1>1, <1>3, <1>4, <1>6 DEF n, k

LEMMA SurfsStep ==
  ASSUME NEW s \in EnvStates, NEW m \in Matches
  PROVE  LET n == SurfsOf(SurfsOf(s, 0, m), 1, m) IN
         /\ Tally(s, n, {"SURF"}) /\ n.surfPrev = m.surfs
         /\ n.outPrev = s.outPrev /\ n.sentPrev = s.sentPrev
<1> DEFINE k == SurfsOf(s, 0, m)
           n == SurfsOf(k, 1, m)
<1>0. 0 \in Teams /\ 1 \in Teams BY DEF Teams
<1>1. /\ Tally(s, k, {"SURF"}) /\ k.surfPrev = [s.surfPrev EXCEPT ![0] = m.surfs[0]]
      /\ k.outPrev = s.outPrev /\ k.sentPrev = s.sentPrev
  BY <1>0, SurfsOfStep
<1>2. k \in EnvStates BY <1>1 DEF Tally, Onward
<1> HIDE DEF k
<1>3. /\ Tally(k, n, {"SURF"}) /\ n.surfPrev = [k.surfPrev EXCEPT ![1] = m.surfs[1]]
      /\ n.outPrev = k.outPrev /\ n.sentPrev = k.sentPrev
  BY <1>0, <1>2, SurfsOfStep
<1> HIDE DEF n
<1>4. Tally(s, n, {"SURF"})
  <2>1. Onward(s, n) BY <1>1, <1>3 DEF Tally, Onward
  <2>2. PaysIn(s, n, {"SURF"}) BY <1>1, <1>3 DEF Tally, PaysIn
  <2> QED BY <1>1, <1>3, <2>1, <2>2 DEF Tally, Possession, Objectives, Potentials
<1>5. s.surfPrev \in Amounts /\ m.surfs \in Amounts BY DEF EnvStates, Matches
<1>6. n.surfPrev = m.surfs BY <1>1, <1>3, <1>5 DEF Amounts, Teams
<1> QED BY <1>1, <1>3, <1>4, <1>6 DEF n, k

(* -------------------------- the whole accounting ------------------------ *)
(* What the accounting of a step leaves behind, told from before it.       *)
BallAmounts(s, n) ==
  \A t \in Teams : /\ n.step[t].BALL_GAIN = s.step[t].BALL_GAIN
                   /\ n.step[t].BALL_LOSS = s.step[t].BALL_LOSS
ShapingAmounts(s, n) ==
  \A t \in Teams : /\ n.step[t].DISTANCE_BALL = s.step[t].DISTANCE_BALL
                   /\ n.step[t].DISTANCE_ENDZONE = s.step[t].DISTANCE_ENDZONE
Baselines(s, m) ==
  /\ s.scorePrev = m.score /\ s.outPrev = m.out /\ s.sentPrev = m.sent /\ s.surfPrev = m.surfs
Follows(b, where, q) ==
  /\ q \in {0, 1, 2}
  /\ b.state = "held" => q = b.holder
  /\ b.state = "ground" => q = Nobody
  /\ b.state = "off" /\ where # "turn" => q = Nobody
Repriced(s, n, m) ==
  s.exact => \A t \in Teams :
    /\ n.fetchPrev[t] = Fetch(m, t) /\ n.carryPrev[t] = Carry(m, t)
    /\ n.step[t].DISTANCE_BALL = s.step[t].DISTANCE_BALL + Shaping(s.fetchPrev[t], Fetch(m, t))
    /\ n.step[t].DISTANCE_ENDZONE
         = s.step[t].DISTANCE_ENDZONE + Shaping(s.carryPrev[t], Carry(m, t))

LEMMA OthersUntouched ==
  ASSUME NEW s, NEW n, NEW C, PaysIn(s, n, C)
  PROVE  /\ C \cap {"BALL_GAIN", "BALL_LOSS"} = {} => BallAmounts(s, n)
         /\ C \cap {"DISTANCE_BALL", "DISTANCE_ENDZONE"} = {} => ShapingAmounts(s, n)
<1>1. {"BALL_GAIN", "BALL_LOSS", "DISTANCE_BALL", "DISTANCE_ENDZONE"} \subseteq Components
  BY DEF Components
<1> QED BY <1>1 DEF PaysIn, BallAmounts, ShapingAmounts

LEMMA AccountedStep ==
  ASSUME NEW s \in EnvStates, NEW r, r.g \in Matches, OneScore(s, r.g), s.objective = Each(0),
         s.possessor \in {0, 1, 2}, Scored(s, r.g) => r.g.ball.state # "held"
  PROVE  LET n == Accounted(s, r) IN
         /\ Onward(s, n) /\ Baselines(n, r.g) /\ n.prevActive = s.prevActive
         /\ Follows(r.g.ball, r.g.where, n.possessor)
         /\ Turned(s, n) /\ Repriced(s, n, r.g)
         /\ \A t \in Teams : n.objective[t] \in -TdMost .. TdMost
<1> DEFINE m == r.g
           scored == Scored(s, m)
           a == TouchdownsPaid(s, m)
           b == PossessionUpdated(a, m, scored)
           c == InjuriesOf(InjuriesOf(b, 0, m), 1, m)
           d == SendOffsOf(SendOffsOf(c, 0, m), 1, m)
           f == PotentialsOf(PotentialsOf(d, 0, m, scored), 1, m, scored)
           n == SurfsOf(SurfsOf(f, 0, m), 1, m)
<1>0. m \in Matches /\ scored \in BOOLEAN BY DEF Scored
<1>n. Accounted(s, r) = n
  BY DEF Accounted, Both
<1> HIDE DEF m, scored
<1>m. OneScore(s, m) /\ (scored => m.ball.state # "held") BY DEF m, scored
<1>1. /\ Onward(s, a) /\ PaysIn(s, a, {"TOUCHDOWN"})
      /\ Possession(s, a) /\ Counts(s, a) /\ Potentials(s, a) /\ a.prevActive = s.prevActive
      /\ a.scorePrev = m.score
      /\ \A t \in Teams : a.objective[t] \in -TdMost .. TdMost
  BY <1>0, <1>m, TouchdownsStep
<1>2. a \in EnvStates /\ a.possessor \in {0, 1, 2} BY <1>1 DEF Onward, Possession
<1> HIDE DEF a
<1>3. /\ Handling(a, b) /\ Turned(a, b) /\ b.possessor \in {0, 1, 2}
      /\ m.ball.state = "held" => b.possessor = m.ball.holder
      /\ m.ball.state = "ground" => b.possessor = Nobody
      /\ m.ball.state = "off" /\ m.where # "turn" => b.possessor = Nobody
  BY <1>0, <1>m, <1>2, PossessionStep
<1>4. b \in EnvStates BY <1>3 DEF Handling, Onward
<1> HIDE DEF b
<1>5. Tally(b, c, {"INJURY"}) /\ c.outPrev = m.out
      /\ c.sentPrev = b.sentPrev /\ c.surfPrev = b.surfPrev
  BY <1>0, <1>4, InjuriesStep
<1>6. c \in EnvStates BY <1>5 DEF Tally, Onward
<1> HIDE DEF c
<1>7. Tally(c, d, {"SEND_OFF"}) /\ d.sentPrev = m.sent
      /\ d.outPrev = c.outPrev /\ d.surfPrev = c.surfPrev
  BY <1>0, <1>6, SendOffsStep
<1>8. d \in EnvStates BY <1>7 DEF Tally, Onward
<1> HIDE DEF d
<1>9. Shaped(d, f) /\ Repriced(d, f, m)
  BY <1>0, <1>8, PotentialsStep DEF Repriced
<1>10. f \in EnvStates BY <1>9 DEF Shaped, Onward
<1> HIDE DEF f
<1>11. Tally(f, n, {"SURF"}) /\ n.surfPrev = m.surfs
       /\ n.outPrev = f.outPrev /\ n.sentPrev = f.sentPrev
  BY <1>0, <1>10, SurfsStep
<1> HIDE DEF n
<1>12. Onward(s, n)
  BY <1>1, <1>3, <1>5, <1>7, <1>9, <1>11 DEF Onward, Handling, Tally, Shaped
<1>13. Baselines(n, m)
  BY <1>1, <1>3, <1>5, <1>7, <1>9, <1>11 DEF Baselines, Handling, Tally, Shaped, Objectives, Counts
<1>14. n.prevActive = s.prevActive
  BY <1>1, <1>3, <1>5, <1>7, <1>9, <1>11 DEF Handling, Tally, Shaped
<1>15. n.objective = a.objective
  BY <1>3, <1>5, <1>7, <1>9, <1>11 DEF Handling, Tally, Shaped, Objectives
<1>16. n.possessor = b.possessor
  BY <1>5, <1>7, <1>9, <1>11 DEF Tally, Shaped, Possession
<1>17. Follows(m.ball, m.where, n.possessor)
  BY <1>3, <1>16 DEF Follows
<1>18. BallAmounts(s, a) /\ BallAmounts(b, c) /\ BallAmounts(c, d) /\ BallAmounts(d, f) /\ BallAmounts(f, n)
  BY <1>1, <1>5, <1>7, <1>9, <1>11, OthersUntouched DEF Tally, Shaped
<1>19. BallAmounts(b, n)
  BY <1>18 DEF BallAmounts
<1>20. a.possessor = s.possessor
  BY <1>1 DEF Possession
<1>21. Turned(s, n)
  BY <1>3, <1>16, <1>18, <1>19, <1>20 DEF Turned, BallAmounts
<1>22. ShapingAmounts(s, a) /\ ShapingAmounts(a, b) /\ ShapingAmounts(b, c) /\ ShapingAmounts(c, d)
       /\ ShapingAmounts(f, n)
  BY <1>1, <1>3, <1>5, <1>7, <1>11, OthersUntouched DEF Handling, Tally
<1>23. ShapingAmounts(s, d)
  BY <1>22 DEF ShapingAmounts
<1>24. d.fetchPrev = s.fetchPrev /\ d.carryPrev = s.carryPrev /\ d.exact = s.exact
  BY <1>1, <1>3, <1>5, <1>7 DEF Handling, Tally, Potentials, Onward
<1>25. n.fetchPrev = f.fetchPrev /\ n.carryPrev = f.carryPrev
  BY <1>11 DEF Tally, Potentials
<1>26. Repriced(s, n, m)
  BY <1>9, <1>22, <1>23, <1>24, <1>25 DEF Repriced, ShapingAmounts
<1> QED BY <1>n, <1>1, <1>12, <1>13, <1>14, <1>15, <1>17, <1>21, <1>26 DEF m

(* --------------------- before and after the accounting ------------------ *)
(* Nothing has been paid yet for the ball and for distances.               *)
Unpaid(s) ==
  \A t \in Teams : /\ s.step[t].BALL_GAIN = 0 /\ s.step[t].BALL_LOSS = 0
                   /\ s.step[t].DISTANCE_BALL = 0 /\ s.step[t].DISTANCE_ENDZONE = 0
(* What a step brings to its accounting, told from the last answer.        *)
Brought(o, n) ==
  /\ n \in EnvStates /\ Balanced(n) /\ Unpaid(n) /\ n.objective = Each(0)
  /\ n.exact = o.exact /\ n.base = o.ret /\ n.comp = o.comp
  /\ n.possessor = o.possessor /\ n.scorePrev = o.scorePrev
  /\ Counts(o, n) /\ Potentials(o, n)

LEMMA ClearedStep ==
  ASSUME NEW s \in EnvStates
  PROVE  Brought(s, Cleared(s)) /\ Cleared(s).decisions = s.decisions
         /\ Cleared(s).prevActive = s.prevActive
<1> DEFINE z == [t \in Teams |-> [c \in Components |-> 0]]
           n == Cleared(s)
<1>1. Each(0) \in Amounts /\ z \in Books /\ s.ret \in Amounts
  BY DEF Each, Amounts, Books, EnvStates
<1>2. n = [s EXCEPT !.reward = Each(0), !.objective = Each(0), !.base = s.ret, !.step = z]
  BY DEF Cleared
<1>3. \A t \in Teams, c \in Components : z[t][c] = 0
  OBVIOUS
<1>4. \A t \in Teams : SumOf(z[t]) = 0
  BY <1>3 DEF SumOf, Components
<1>5. \A t \in Teams : /\ z[t].BALL_GAIN = 0 /\ z[t].BALL_LOSS = 0
                       /\ z[t].DISTANCE_BALL = 0 /\ z[t].DISTANCE_ENDZONE = 0
  BY <1>3 DEF Components
<1> HIDE DEF z, n
<1>6. n \in EnvStates
  BY <1>1, <1>2 DEF EnvStates
<1>7. /\ n.reward = Each(0) /\ n.objective = Each(0) /\ n.base = s.ret /\ n.step = z
      /\ n.exact = s.exact /\ n.comp = s.comp /\ n.possessor = s.possessor
      /\ n.scorePrev = s.scorePrev /\ n.outPrev = s.outPrev /\ n.sentPrev = s.sentPrev
      /\ n.surfPrev = s.surfPrev /\ n.fetchPrev = s.fetchPrev /\ n.carryPrev = s.carryPrev
      /\ n.decisions = s.decisions /\ n.prevActive = s.prevActive /\ n.ret = s.ret
  BY <1>2 DEF EnvStates
<1>8. Balanced(n)
  BY <1>1, <1>4, <1>7 DEF Balanced, Each, Amounts
<1>9. Unpaid(n)
  BY <1>5, <1>7 DEF Unpaid
<1> QED BY <1>6, <1>7, <1>8, <1>9 DEF Brought, Counts, Potentials, n

LEMMA StillBrought ==
  ASSUME NEW o, NEW s, NEW n, Brought(o, s), Onward(s, n),
         Possession(s, n), Objectives(s, n), Counts(s, n), Potentials(s, n),
         BallAmounts(s, n), ShapingAmounts(s, n)
  PROVE  Brought(o, n) /\ n.decisions = s.decisions
<1>1. Unpaid(n) BY DEF Brought, Unpaid, BallAmounts, ShapingAmounts
<1> QED BY <1>1 DEF Brought, Onward, Possession, Objectives, Counts, Potentials

LEMMA DiscreetBrings ==
  ASSUME NEW o, NEW s, NEW n, Brought(o, s),
         NEW c \in {"TOUCHBACK", "POSSESSION", "EXPOSURE", "ACTION"}, Discreet(s, n, {c})
  PROVE  Brought(o, n) /\ n.decisions = s.decisions
<1>1. BallAmounts(s, n) /\ ShapingAmounts(s, n)
  BY OthersUntouched DEF Discreet
<1> QED BY <1>1, StillBrought DEF Discreet

(* The answer, the touchback, the annuity and the hooks of a turn's end.   *)
Spent(p, k) == [p EXCEPT !.decisions = @ + k]
Answered(s, p) == p = s \/ \E t \in Teams : p = Add(s, t, "ACTION", GammaDen * RewardAction)
Prelude(p, k, r) == TurnsPaid(TouchbackPaid(Spent(p, k), r.g), r)
LEMMA PreludeStep ==
  ASSUME NEW o \in EnvStates, NEW p, Answered(Cleared(o), p), NEW k \in Int,
         NEW r, r.g \in Matches, r.held \in Amounts, NEW inTurn, o.prevActive \in Teams,
         NEW n \in TurnHooks(Prelude(p, k, r), inTurn, r)
  PROVE  Brought(o, n) /\ n.decisions = o.decisions + k /\ n.prevActive = r.g.active
<1> DEFINE q == Spent(p, k)
           a == TouchbackPaid(q, r.g)
           b == TurnsPaid(a, r)
<1>1. Brought(o, Cleared(o)) /\ Cleared(o).decisions = o.decisions /\ Cleared(o).prevActive = o.prevActive
      /\ Cleared(o) \in EnvStates
  BY ClearedStep DEF Brought
<1>2. Brought(o, p) /\ p.decisions = o.decisions /\ p.prevActive = o.prevActive
  <2>0. \A t \in Teams : Payment(Cleared(o), Add(Cleared(o), t, "ACTION", GammaDen * RewardAction), {"ACTION"})
    <3>1. "ACTION" \in Components /\ GammaDen * RewardAction \in Int BY DEF Components
    <3> QED BY <1>1, <3>1, AddPays
  <2>1. p = Cleared(o) \/ \E t \in Teams : p = Add(Cleared(o), t, "ACTION", GammaDen * RewardAction)
    BY DEF Answered
  <2>2. CASE p = Cleared(o)
    BY <1>1, <2>2
  <2>3. ASSUME NEW t \in Teams, p = Add(Cleared(o), t, "ACTION", GammaDen * RewardAction)
        PROVE  Brought(o, p) /\ p.decisions = o.decisions /\ p.prevActive = o.prevActive
    <3>1. Payment(Cleared(o), p, {"ACTION"}) BY <2>0, <2>3
    <3>2. Discreet(Cleared(o), p, {"ACTION"}) BY <3>1, PaymentIsDiscreet
    <3>3. Brought(o, p) /\ p.decisions = Cleared(o).decisions BY <1>1, <3>2, DiscreetBrings
    <3> QED BY <1>1, <3>1, <3>3 DEF Payment, Aside
  <2> QED BY <2>1, <2>2, <2>3
<1>3. Brought(o, q) /\ q.decisions = o.decisions + k /\ q.prevActive = o.prevActive
  <2>1. p \in EnvStates BY <1>2 DEF Brought
  <2>2. p.decisions + k \in Int BY <2>1 DEF EnvStates
  <2>3. q \in EnvStates BY <2>1, <2>2 DEF EnvStates, Spent
  <2>4. /\ q.exact = p.exact /\ q.base = p.base /\ q.comp = p.comp /\ q.possessor = p.possessor
        /\ q.scorePrev = p.scorePrev /\ q.outPrev = p.outPrev /\ q.sentPrev = p.sentPrev
        /\ q.surfPrev = p.surfPrev /\ q.fetchPrev = p.fetchPrev /\ q.carryPrev = p.carryPrev
        /\ q.prevActive = p.prevActive /\ q.objective = p.objective /\ q.step = p.step
        /\ q.reward = p.reward /\ q.ret = p.ret /\ q.decisions = p.decisions + k
    BY <2>1 DEF EnvStates, Spent
  <2> HIDE DEF q
  <2> QED BY <1>2, <2>3, <2>4 DEF Brought, Balanced, Unpaid, Counts, Potentials
<1> HIDE DEF q
<1>4. Discreet(q, a, {"TOUCHBACK"}) /\ a.prevActive = q.prevActive
  BY <1>3, TouchbackStep DEF Brought
<1> HIDE DEF a
<1>5. Brought(o, a) /\ a.decisions = q.decisions
  BY <1>3, <1>4, DiscreetBrings
<1>6. a \in EnvStates BY <1>5 DEF Brought
<1>7. Payment(a, b, {"POSSESSION"})
  BY <1>6, TurnsStep
<1> HIDE DEF b
<1>8. Discreet(a, b, {"POSSESSION"}) /\ b.prevActive = a.prevActive
  BY <1>7, PaymentIsDiscreet DEF Payment, Aside
<1>9. Brought(o, b) /\ b.decisions = a.decisions
  BY <1>5, <1>8, DiscreetBrings
<1>10. b \in EnvStates /\ b.prevActive \in Teams
  BY <1>3, <1>4, <1>8, <1>9 DEF Brought
<1>11. n \in TurnHooks(b, inTurn, r)
  BY DEF q, a, b, Prelude
<1>12. Discreet(b, n, {"EXPOSURE"}) /\ n.prevActive = r.g.active
  BY <1>10, <1>11, HooksStep
<1>13. Brought(o, n) /\ n.decisions = b.decisions
  BY <1>9, <1>12, DiscreetBrings
<1> QED BY <1>3, <1>5, <1>9, <1>12, <1>13

(* ------------------------- the end of a step ---------------------------- *)
LEMMA KeptInt ==
  ASSUME NEW s \in EnvStates, NEW t \in Teams, NEW c \in Components, NEW v \in Int
  PROVE  Kept(s, t, c, v) \in Int
<1>1. s.step[t][c] \in Int BY DEF EnvStates, Books
<1>2. GammaNum * v \in Int OBVIOUS
<1> QED BY <1>1, <1>2 DEF Kept

BonusMost == GammaDen * Largest(Abs(RewardWin), Abs(RewardDraw))

LEMMA BonusBound ==
  ASSUME NEW m \in Matches, NEW t \in Teams
  PROVE  Bonus(m, t) \in -BonusMost .. BonusMost
<1> DEFINE b == IF m.score[t] = m.score[Other(t)] THEN RewardDraw
                ELSE IF m.score[t] > m.score[Other(t)] THEN RewardWin ELSE -RewardWin
           most == Largest(Abs(RewardWin), Abs(RewardDraw))
<1>1. b \in Int /\ most \in Int /\ -most <= b /\ b <= most
  BY DEF Largest, Abs
<1>2. Bonus(m, t) = GammaDen * b /\ BonusMost = GammaDen * most
  BY DEF Bonus, BonusMost
<1> HIDE DEF b, most
<1>3. GammaDen * b \in Int /\ GammaDen * most \in Int BY <1>1
<1>4. GammaDen * b <= GammaDen * most
  <2>1. GammaDen * (most - b) >= 0 BY <1>1
  <2>2. GammaDen * (most - b) = GammaDen * most - GammaDen * b BY <1>1
  <2> QED BY <1>3, <2>1, <2>2
<1>5. -(GammaDen * most) <= GammaDen * b
  <2>1. GammaDen * (most + b) >= 0 BY <1>1
  <2>2. GammaDen * (most + b) = GammaDen * most + GammaDen * b BY <1>1
  <2> QED BY <1>3, <2>1, <2>2
<1> QED BY <1>2, <1>3, <1>4, <1>5

(* An episode is settled: the step pays the touchdown, the result and what  *)
(* is kept of the shaping, and nothing else.                               *)
LEMMA SettledStep ==
  ASSUME NEW s \in EnvStates, NEW m \in Matches
  PROVE  LET n == Settled(s, m) IN
         /\ n \in EnvStates /\ Balanced(n) /\ n.exact = s.exact /\ n.base = s.base
         /\ n.comp = s.comp /\ n.fetchPrev = s.fetchPrev /\ n.carryPrev = s.carryPrev
         /\ \A t \in Teams :
              /\ n.reward[t] = s.objective[t] + Bonus(m, t)
                                 + Kept(s, t, "DISTANCE_BALL", s.fetchPrev[t])
                                 + Kept(s, t, "DISTANCE_ENDZONE", s.carryPrev[t])
              /\ n.step[t].DISTANCE_BALL = Kept(s, t, "DISTANCE_BALL", s.fetchPrev[t])
              /\ n.step[t].DISTANCE_ENDZONE = Kept(s, t, "DISTANCE_ENDZONE", s.carryPrev[t])
              /\ n.step[t].STATMATCH = 0
<1> DEFINE ball(t) == Kept(s, t, "DISTANCE_BALL", s.fetchPrev[t])
           endzone(t) == Kept(s, t, "DISTANCE_ENDZONE", s.carryPrev[t])
           reward(t) == s.objective[t] + Bonus(m, t) + ball(t) + endzone(t)
           w == [t \in Teams |-> reward(t)]
           v == [t \in Teams |-> s.base[t] + reward(t)]
           z == [t \in Teams |-> [c \in Components |->
                  CASE c = "TOUCHDOWN" -> s.objective[t] [] c = "RESULT" -> Bonus(m, t)
                    [] c = "DISTANCE_BALL" -> ball(t) [] c = "DISTANCE_ENDZONE" -> endzone(t)
                    [] OTHER -> 0]]
           n == Settled(s, m)
<1>1. \A t \in Teams : ball(t) \in Int /\ endzone(t) \in Int /\ Bonus(m, t) \in Int
                       /\ s.objective[t] \in Int /\ s.base[t] \in Int
  <2> SUFFICES ASSUME NEW t \in Teams
               PROVE  ball(t) \in Int /\ endzone(t) \in Int /\ Bonus(m, t) \in Int
                      /\ s.objective[t] \in Int /\ s.base[t] \in Int
    OBVIOUS
  <2>1. s.fetchPrev[t] \in Int /\ s.carryPrev[t] \in Int /\ s.objective[t] \in Int /\ s.base[t] \in Int
    BY DEF EnvStates, Amounts
  <2>2. "DISTANCE_BALL" \in Components /\ "DISTANCE_ENDZONE" \in Components
    BY DEF Components
  <2>3. ball(t) \in Int /\ endzone(t) \in Int
    BY <2>1, <2>2, KeptInt
  <2>4. BonusMost \in Int BY DEF BonusMost, Largest, Abs
  <2> QED BY <2>1, <2>3, <2>4, BonusBound
<1>2. n = [s EXCEPT !.possessor = Nobody, !.reward = w, !.ret = v, !.step = z]
  BY DEF Settled, EndPossession, EnvStates
<1> HIDE DEF ball, endzone, n
<1>3. \A t \in Teams : reward(t) \in Int BY <1>1
<1>4. w \in Amounts /\ v \in Amounts BY <1>1, <1>3 DEF Amounts
<1>5. \A t \in Teams : z[t] \in [Components -> Int]
  BY <1>1
<1>6. z \in Books BY <1>5 DEF Books
<1>7. \A t \in Teams : SumOf(z[t]) = w[t]
  <2> SUFFICES ASSUME NEW t \in Teams PROVE SumOf(z[t]) = w[t]
    OBVIOUS
  <2>1. /\ z[t].TOUCHDOWN = s.objective[t] /\ z[t].RESULT = Bonus(m, t)
        /\ z[t].DISTANCE_BALL = ball(t) /\ z[t].DISTANCE_ENDZONE = endzone(t)
        /\ z[t].BALL_GAIN = 0 /\ z[t].BALL_LOSS = 0 /\ z[t].TOUCHBACK = 0
        /\ z[t].POSSESSION = 0 /\ z[t].EXPOSURE = 0 /\ z[t].INJURY = 0
        /\ z[t].SEND_OFF = 0 /\ z[t].SURF = 0 /\ z[t].ACTION = 0
        /\ z[t].STATMATCH = 0
    BY DEF Components
  <2>2. w[t] = s.objective[t] + Bonus(m, t) + ball(t) + endzone(t) OBVIOUS
  <2> HIDE DEF z, w
  <2> QED BY <1>1, <2>1, <2>2 DEF SumOf
<1>8. \A t \in Teams : v[t] = s.base[t] + w[t] OBVIOUS
<1>9. \A t \in Teams : w[t] = s.objective[t] + Bonus(m, t) + ball(t) + endzone(t)
                       /\ z[t].DISTANCE_BALL = ball(t) /\ z[t].DISTANCE_ENDZONE = endzone(t)
                       /\ z[t].STATMATCH = 0
  BY DEF Components
<1> HIDE DEF w, v, z
<1>10. n \in EnvStates
  <2>1. Nobody \in Int BY DEF Nobody
  <2> QED BY <1>2, <1>4, <1>6, <2>1 DEF EnvStates
<1>11. /\ n.exact = s.exact /\ n.base = s.base /\ n.comp = s.comp
       /\ n.fetchPrev = s.fetchPrev /\ n.carryPrev = s.carryPrev
       /\ n.reward = w /\ n.ret = v /\ n.step = z
  BY <1>2 DEF EnvStates
<1>12. Balanced(n) BY <1>7, <1>8, <1>11 DEF Balanced
<1> QED BY <1>9, <1>10, <1>11, <1>12 DEF n, ball, endzone

(* What the statistics cost is paid by both sides alike, in a component of *)
(* its own.                                                                *)
LEMMA MatchedStep ==
  ASSUME NEW s \in EnvStates, Balanced(s), NEW d \in Nat
  PROVE  LET n == Matched(s, d)
             v == -(StatmatchScale * d) IN
         /\ n \in EnvStates /\ Balanced(n) /\ Aside(s, n) /\ v \in Int
         /\ \A t \in Teams : /\ n.reward[t] = s.reward[t] + v
                             /\ n.step[t].STATMATCH = s.step[t].STATMATCH + v
                             /\ n.step[t].DISTANCE_BALL = s.step[t].DISTANCE_BALL
                             /\ n.step[t].DISTANCE_ENDZONE = s.step[t].DISTANCE_ENDZONE
<1> DEFINE v == -(StatmatchScale * d)
           a == Add(s, 0, "STATMATCH", v)
           n == Add(a, 1, "STATMATCH", v)
<1>1. /\ v \in Int /\ 0 \in Teams /\ 1 \in Teams /\ "STATMATCH" \in Components
      /\ "DISTANCE_BALL" \in Components \ {"STATMATCH"}
      /\ "DISTANCE_ENDZONE" \in Components \ {"STATMATCH"}
  BY DEF Teams, Components
<1>2. n = Matched(s, d) BY DEF Matched
<1> HIDE DEF v
<1>3. /\ a \in EnvStates /\ Aside(s, a) /\ PaysIn(s, a, {"STATMATCH"})
      /\ a.reward = [s.reward EXCEPT ![0] = @ + v]
      /\ a.step[0].STATMATCH = s.step[0].STATMATCH + v /\ a.step[1] = s.step[1]
  <2>1. a.reward = [s.reward EXCEPT ![0] = @ + v] BY DEF Add, EnvStates
  <2> HIDE DEF a
  <2>2. a.step[0]["STATMATCH"] = s.step[0]["STATMATCH"] + v /\ a.step[1] = s.step[1]
    <3>1. 1 \in Teams \ {0} BY DEF Teams
    <3> QED BY <1>1, <3>1, AddIsPaid DEF a
  <2> QED BY <1>1, <2>1, <2>2, AddKeeps DEF a
<1>4. Balanced(a) BY <1>1, AddBalances
<1> HIDE DEF a
<1>5. /\ n \in EnvStates /\ Aside(a, n) /\ PaysIn(a, n, {"STATMATCH"})
      /\ n.reward = [a.reward EXCEPT ![1] = @ + v]
      /\ n.step[1].STATMATCH = a.step[1].STATMATCH + v /\ n.step[0] = a.step[0]
  <2>1. n.reward = [a.reward EXCEPT ![1] = @ + v] BY <1>3 DEF Add, EnvStates
  <2> HIDE DEF n
  <2>2. n.step[1]["STATMATCH"] = a.step[1]["STATMATCH"] + v /\ n.step[0] = a.step[0]
    <3>1. 0 \in Teams \ {1} BY DEF Teams
    <3> QED BY <1>1, <1>3, <3>1, AddIsPaid DEF n
  <2> QED BY <1>1, <1>3, <2>1, <2>2, AddKeeps DEF n
<1>6. Balanced(n) BY <1>1, <1>3, <1>4, AddBalances
<1> HIDE DEF n
<1>7. Aside(s, n) BY <1>3, <1>5 DEF Aside
<1>8. s.reward \in Amounts /\ a.reward \in Amounts BY <1>3 DEF EnvStates
<1>9. \A t \in Teams : n.reward[t] = s.reward[t] + v
  BY <1>1, <1>3, <1>5, <1>8 DEF Amounts, Teams
<1>10. \A t \in Teams : n.step[t].STATMATCH = s.step[t].STATMATCH + v
  BY <1>3, <1>5 DEF Teams
<1>11. \A t \in Teams : /\ n.step[t].DISTANCE_BALL = s.step[t].DISTANCE_BALL
                        /\ n.step[t].DISTANCE_ENDZONE = s.step[t].DISTANCE_ENDZONE
  BY <1>1, <1>3, <1>5 DEF PaysIn
<1> QED BY <1>1, <1>2, <1>5, <1>6, <1>7, <1>9, <1>10, <1>11 DEF v

LEMMA DeviationsNat ==
  ASSUME NEW s, NEW d \in Deviations(s) PROVE d \in Nat
BY DEF Deviations

(* The step's components are added to those of the episode.                *)
Posted(s, n) ==
  /\ n.exact = s.exact /\ n.possessor = s.possessor /\ n.fetchPrev = s.fetchPrev
  /\ n.carryPrev = s.carryPrev /\ n.prevActive = s.prevActive
  /\ n.decisions = s.decisions /\ n.scorePrev = s.scorePrev /\ n.outPrev = s.outPrev
  /\ n.sentPrev = s.sentPrev /\ n.surfPrev = s.surfPrev /\ n.reward = s.reward
  /\ n.ret = s.ret /\ n.step = s.step

LEMMA CommittedStep ==
  ASSUME NEW s \in EnvStates
  PROVE  LET n == Committed(s) IN
         /\ n \in EnvStates /\ Posted(s, n)
         /\ \A t \in Teams : /\ SumOf(n.comp[t]) = SumOf(s.comp[t]) + SumOf(s.step[t])
                             /\ \A c \in Components : n.comp[t][c] = s.comp[t][c] + s.step[t][c]
<1> DEFINE z == [t \in Teams |-> [c \in Components |-> s.comp[t][c] + s.step[t][c]]]
           n == Committed(s)
<1>1. n = [s EXCEPT !.comp = z]
  BY DEF Committed, EnvStates
<1>2. s.comp \in Books /\ s.step \in Books BY DEF EnvStates
<1>3. z \in Books BY <1>2 DEF Books
<1>4. \A t \in Teams : SumOf(z[t]) = SumOf(s.comp[t]) + SumOf(s.step[t])
  <2> TAKE t \in Teams
  <2>1. s.comp[t] \in [Components -> Int] /\ s.step[t] \in [Components -> Int] BY <1>2 DEF Books
  <2> QED BY <2>1, SumPairs
<1>5. \A t \in Teams, c \in Components : z[t][c] = s.comp[t][c] + s.step[t][c]
  OBVIOUS
<1> HIDE DEF z, n
<1>6. n \in EnvStates /\ n.comp = z BY <1>1, <1>3 DEF EnvStates
<1>7. Posted(s, n) BY <1>1 DEF EnvStates, Posted
<1> QED BY <1>4, <1>5, <1>6, <1>7 DEF n

(* --------------------- the match from step to step ---------------------- *)
(* The ball is off the pitch between drives, and only then.                *)
Rests(m) ==
  /\ m.where # "turn" => m.ball.state = "off"
  /\ m.ball.state = "off" /\ m.status = "decision" => m.where # "turn"
(* At most one side scores, once, and the ball leaves the pitch with it.   *)
Scoring(m, k) ==
  /\ \E u \in Teams : k.score[u] \in {m.score[u], m.score[u] + 1} /\ k.score[Other(u)] = m.score[Other(u)]
  /\ (\E t \in Teams : k.score[t] > m.score[t]) => k.ball.state = "off"
Played(m, r) == r.g \in Matches /\ r.held \in Amounts /\ Rests(r.g) /\ Scoring(m, r.g)

LEMMA BallsInPlay ==
  /\ Off \in Balls /\ Off.state = "off"
  /\ \A b \in InPlay : b \in Balls /\ b.state # "off"
  /\ \A t \in Teams, x \in 0 .. DMax : Held(t, x) \in InPlay
<1>1. Off \in Balls /\ Off.state = "off"
  BY DEF Off, Air, Each, Balls, Nobody, Teams
<1>2. ASSUME NEW t \in Teams, NEW x \in 0 .. DMax PROVE Held(t, x) \in Balls /\ Held(t, x).state # "off"
  BY DEF Held, Balls, Each, Teams
<1>3. Air \in Balls /\ Air.state # "off"
  BY DEF Air, Balls, Each, Nobody, Teams
<1>4. ASSUME NEW near \in [Teams -> -1 .. DMax]
      PROVE  Ground(near) \in Balls /\ Ground(near).state # "off"
  BY DEF Ground, Balls, Nobody, Teams
<1>5. ASSUME NEW b \in InPlay PROVE b \in Balls /\ b.state # "off"
  <2> DEFINE Nears == {[t \in Teams |-> IF t = u THEN n ELSE DMax] : u \in Teams, n \in {-1, 0}}
             Carried == {Held(t, x) : t \in Teams, x \in 0 .. DMax}
             Loose == {Ground(near) : near \in Nears}
  <2>1. b \in Carried \/ b = Air \/ b \in Loose
    BY DEF InPlay
  <2>2. CASE b \in Carried
    BY <1>2, <2>2
  <2>3. CASE b \in Loose
    <3>1. PICK near \in Nears : b = Ground(near) BY <2>3
    <3>2. PICK u \in Teams, n \in {-1, 0} : near = [t \in Teams |-> IF t = u THEN n ELSE DMax]
      BY <3>1
    <3>3. near \in [Teams -> -1 .. DMax] BY <3>2
    <3> QED BY <1>4, <3>1, <3>3
  <2> QED BY <1>3, <2>1, <2>2, <2>3
<1>6. \A t \in Teams, x \in 0 .. DMax : Held(t, x) \in InPlay
  BY DEF InPlay
<1> QED BY <1>1, <1>5, <1>6

LEMMA StartsRest ==
  ASSUME NEW m \in Starts
  PROVE  m \in Matches /\ Rests(m) /\ m.status = "decision"
<1>0. Each(0) \in Amounts /\ Each(1) \in Amounts /\ [Each(0) EXCEPT ![0] = 1] \in Amounts
  BY DEF Each, Amounts, Teams
<1>1. Match \in Matches
  <2>1. Off \in Balls /\ 0 \in Teams BY BallsInPlay DEF Teams
  <2> QED BY <1>0, <2>1 DEF Match, Matches
<1>2. Match.ball = Off /\ Match.where = "setup" /\ Match.score = Each(0)
      /\ Match.status = "decision"
  BY DEF Match
<1>3. CASE m = Match
  BY <1>1, <1>2, <1>3, BallsInPlay DEF Rests
<1>4. ASSUME NEW b \in {Held(1, DMax), Ground(Each(0))},
             m = [Match EXCEPT !.where = "turn", !.ball = b, !.out = Each(1), !.score[0] = 1]
      PROVE  m \in Matches /\ Rests(m) /\ m.status = "decision"
  <2>1. b \in Balls /\ b.state # "off"
    BY DEF Held, Ground, Balls, Each, Nobody, Teams
  <2>2. m = [Match EXCEPT !.where = "turn", !.ball = b, !.out = Each(1), !.score = [Each(0) EXCEPT ![0] = 1]]
    BY <1>1, <1>2, <1>4 DEF Matches
  <2>3. m \in Matches
    BY <1>0, <1>1, <2>1, <2>2 DEF Matches
  <2>4. m.ball = b /\ m.where = "turn" /\ m.status = "decision"
    BY <1>1, <1>2, <2>2 DEF Matches
  <2> QED BY <2>1, <2>3, <2>4 DEF Rests
<1> QED BY <1>3, <1>4 DEF Starts, Bank

LEMMA SameScore ==
  ASSUME NEW m \in Matches, NEW k, k.score = m.score
  PROVE  Scoring(m, k)
<1>1. \A t \in Teams : m.score[t] \in Int BY DEF Matches, Amounts
<1>2. 0 \in Teams /\ Other(0) \in Teams BY DEF Teams, Other
<1> QED BY <1>1, <1>2 DEF Scoring

LEMMA EachTyped ==
  ASSUME NEW v \in Int, NEW w \in Int, NEW t \in Teams
  PROVE  Each(v) \in Amounts /\ [Each(v) EXCEPT ![t] = w] \in Amounts
BY DEF Each, Amounts

LEMMA ResultIs ==
  ASSUME NEW m, NEW d, NEW k
  PROVE  Result(m, d, k).g = m /\ Result(m, d, k).held = k
BY DEF Result

LEMMA KickoffsPlayed ==
  ASSUME NEW m \in Matches, m.status = "decision", NEW r \in Kickoffs(m)
  PROVE  Played(m, r)
<1>1. ASSUME NEW w \in {"setup", "touchback"},
             r = Result([m EXCEPT !.where = w, !.ball = Off], Each(0), Each(0))
      PROVE  Played(m, r)
  <2> DEFINE k == [m EXCEPT !.where = w, !.ball = Off]
  <2>1. r.g = k /\ r.held = Each(0) BY <1>1, ResultIs
  <2>2. Off \in Balls /\ Off.state = "off" BY BallsInPlay
  <2>3. k \in Matches /\ k.score = m.score /\ k.ball = Off /\ k.where # "turn"
    BY <2>2 DEF Matches
  <2>4. Each(0) \in Amounts BY DEF Each, Amounts
  <2> HIDE DEF k
  <2> QED BY <2>1, <2>2, <2>3, <2>4, SameScore DEF Played, Rests
<1>2. ASSUME NEW b \in InPlay,
             r = Result([m EXCEPT !.where = "turn", !.ball = b, !.active = Other(m.kicking)],
                        Each(0), Each(0))
      PROVE  Played(m, r)
  <2> DEFINE k == [m EXCEPT !.where = "turn", !.ball = b, !.active = Other(m.kicking)]
  <2>0. m.kicking \in Teams BY DEF Matches
  <2>1. Other(m.kicking) \in Teams BY <2>0 DEF Other, Teams
  <2>2. b \in Balls /\ b.state # "off" BY BallsInPlay
  <2>3. r.g = k /\ r.held = Each(0) BY <1>2, ResultIs
  <2>4. k \in Matches /\ k.score = m.score /\ k.ball = b /\ k.where = "turn"
    BY <2>1, <2>2 DEF Matches
  <2>5. Each(0) \in Amounts BY DEF Each, Amounts
  <2> HIDE DEF k
  <2> QED BY <2>2, <2>3, <2>4, <2>5, SameScore DEF Played, Rests
<1> QED BY <1>1, <1>2 DEF Kickoffs

LEMMA PlaysPlayed ==
  ASSUME NEW m \in Matches, m.where = "turn", NEW r \in Plays(m) \cup TurnEnds(m)
  PROVE  Played(m, r)
<1>0. m.active \in Teams BY DEF Matches
<1>1. Other(m.active) \in Teams /\ Each(0) \in Amounts
  BY <1>0 DEF Other, Teams, Each, Amounts
<1>2. ASSUME NEW b \in InPlay, NEW a \in Teams, NEW d, NEW k \in Amounts,
             r = Result([m EXCEPT !.ball = b, !.active = a], d, k)
      PROVE  Played(m, r)
  <2> DEFINE n == [m EXCEPT !.ball = b, !.active = a]
  <2>1. b \in Balls /\ b.state # "off" BY BallsInPlay
  <2>2. r.g = n /\ r.held = k BY <1>2, ResultIs
  <2>3. n \in Matches /\ n.score = m.score /\ n.ball = b /\ n.where = "turn"
    BY <2>1 DEF Matches
  <2> HIDE DEF n
  <2> QED BY <2>1, <2>2, <2>3, SameScore DEF Played, Rests
<1>3. ASSUME NEW b \in InPlay, NEW d, NEW k \in Amounts, r = Result([m EXCEPT !.ball = b], d, k)
      PROVE  Played(m, r)
  <2>1. [m EXCEPT !.ball = b] = [m EXCEPT !.ball = b, !.active = m.active] BY DEF Matches
  <2> QED BY <1>0, <1>2, <1>3, <2>1
<1>4. CASE r \in Plays(m)
  BY <1>1, <1>3, <1>4 DEF Plays
<1>5. ASSUME NEW b \in InPlay \ {Air},
             r = Result([m EXCEPT !.ball = b, !.active = Other(m.active)], [Each(0) EXCEPT ![m.active] = 1],
                        [Each(0) EXCEPT ![m.active] = OwnBall(b, m.active)])
      PROVE  Played(m, r)
  <2>1. OwnBall(b, m.active) \in Int BY DEF OwnBall
  <2>2. [Each(0) EXCEPT ![m.active] = OwnBall(b, m.active)] \in Amounts BY <1>0, <2>1, EachTyped
  <2> QED BY <1>1, <1>2, <1>5, <2>2
<1>6. ASSUME NEW t \in Teams,
             r = Result([m EXCEPT !.ball = Held(t, 1)], Each(1), [Each(0) EXCEPT ![t] = 1])
      PROVE  Played(m, r)
  <2>1. Held(t, 1) \in InPlay BY BallsInPlay
  <2>2. [Each(0) EXCEPT ![t] = 1] \in Amounts BY EachTyped
  <2> QED BY <1>3, <1>6, <2>1, <2>2
<1>7. CASE r \in TurnEnds(m)
  BY <1>5, <1>6, <1>7 DEF TurnEnds
<1> QED BY <1>4, <1>7

LEMMA DriveEndsPlayed ==
  ASSUME NEW m \in Matches, m.where = "turn", NEW r \in DriveEnds(m)
  PROVE  Played(m, r)
<1>0. m.active \in Teams /\ m.score \in Amounts BY DEF Matches
<1> DEFINE Goal(t) == Result([m EXCEPT !.score[t] = @ + 1, !.ball = Off, !.kicking = t],
                             [Each(0) EXCEPT ![m.active] = 1],
                             [Each(0) EXCEPT ![m.active] = IF t = m.active THEN 1 ELSE 0])
           Whistle == Result([m EXCEPT !.ball = Off], [Each(0) EXCEPT ![m.active] = 1],
                             [Each(0) EXCEPT ![m.active] = OwnBall(m.ball, m.active)])
<1>1. ASSUME NEW o, NEW x \in Matches, NEW d, NEW k \in Amounts, o = Result(x, d, k),
             x.ball = Off, Scoring(m, x), x.where = "turn",
             r = [o EXCEPT !.g.where = "setup"] \/ r = [o EXCEPT !.g.status = "over"]
      PROVE  Played(m, r)
  <2>0. Off \in Balls /\ Off.state = "off" BY BallsInPlay
  <2>1. CASE r = [o EXCEPT !.g.where = "setup"]
    <3> DEFINE n == [x EXCEPT !.where = "setup"]
    <3>1. r.g = n /\ r.held = k BY <1>1, <2>1 DEF Result
    <3>2. n \in Matches /\ n.ball = Off /\ n.score = x.score /\ n.where = "setup"
      BY <1>1 DEF Matches
    <3> HIDE DEF n
    <3>3. Scoring(m, n) BY <1>1, <2>0, <3>2 DEF Scoring
    <3> QED BY <1>1, <2>0, <3>1, <3>2, <3>3 DEF Played, Rests
  <2>2. CASE r = [o EXCEPT !.g.status = "over"]
    <3> DEFINE n == [x EXCEPT !.status = "over"]
    <3>1. r.g = n /\ r.held = k BY <1>1, <2>2 DEF Result
    <3>2. n \in Matches /\ n.ball = Off /\ n.score = x.score /\ n.where = "turn" /\ n.status = "over"
      BY <1>1 DEF Matches
    <3> HIDE DEF n
    <3>3. Scoring(m, n) BY <1>1, <2>0, <3>2 DEF Scoring
    <3>4. n.where = "turn" /\ n.status # "decision" BY <3>2
    <3>5. Rests(n) BY <3>4 DEF Rests
    <3>6. r.g \in Matches /\ r.held \in Amounts BY <1>1, <3>1, <3>2
    <3> QED BY <3>1, <3>3, <3>5, <3>6 DEF Played
  <2> QED BY <1>1, <2>1, <2>2
<1>2. ASSUME NEW o, o = Whistle \/ \E t \in Teams : o = Goal(t),
             r = [o EXCEPT !.g.where = "setup"] \/ r = [o EXCEPT !.g.status = "over"]
      PROVE  Played(m, r)
  <2>0. Off \in Balls /\ Off.state = "off" BY BallsInPlay
  <2>1. CASE o = Whistle
    <3> DEFINE x == [m EXCEPT !.ball = Off]
               k == [Each(0) EXCEPT ![m.active] = OwnBall(m.ball, m.active)]
    <3>1. OwnBall(m.ball, m.active) \in Int BY DEF OwnBall
    <3>2. k \in Amounts BY <1>0, <3>1, EachTyped
    <3>3. x \in Matches /\ x.ball = Off /\ x.score = m.score /\ x.where = "turn"
      BY <2>0 DEF Matches
    <3>4. o = Result(x, [Each(0) EXCEPT ![m.active] = 1], k) BY <2>1
    <3> HIDE DEF x, k
    <3>5. Scoring(m, x) BY <3>3, SameScore
    <3> QED BY <1>1, <1>2, <3>2, <3>3, <3>4, <3>5
  <2>2. ASSUME NEW t \in Teams, o = Goal(t)
        PROVE  Played(m, r)
    <3> DEFINE f == [m.score EXCEPT ![t] = @ + 1]
               x == [m EXCEPT !.score = f, !.ball = Off, !.kicking = t]
               v == IF t = m.active THEN 1 ELSE 0
               k == [Each(0) EXCEPT ![m.active] = v]
    <3>1. f \in Amounts /\ f[t] = m.score[t] + 1 /\ f[Other(t)] = m.score[Other(t)]
      BY <1>0 DEF Amounts, Other, Teams
    <3>2. k \in Amounts BY <1>0, EachTyped
    <3>3. o = Result(x, [Each(0) EXCEPT ![m.active] = 1], k)
      BY <2>2
    <3> HIDE DEF f, k
    <3>4. x \in Matches /\ x.ball = Off /\ x.score = f /\ x.where = "turn"
      BY <2>0, <3>1 DEF Matches
    <3> HIDE DEF x
    <3>5. Scoring(m, x) BY <1>0, <2>0, <3>1, <3>4 DEF Scoring, Amounts
    <3> QED BY <1>1, <1>2, <3>2, <3>3, <3>4, <3>5
  <2> QED BY <1>2, <2>1, <2>2
<1>3. \E o : /\ o = Whistle \/ \E t \in Teams : o = Goal(t)
             /\ r = [o EXCEPT !.g.where = "setup"] \/ r = [o EXCEPT !.g.status = "over"]
  <2> DEFINE ended == {Goal(t) : t \in Teams} \cup {Whistle}
  <2>1. r \in {[o EXCEPT !.g.where = "setup"] : o \in ended}
          \cup {[o EXCEPT !.g.status = "over"] : o \in ended}
    BY DEF DriveEnds
  <2> HIDE DEF Goal, Whistle
  <2> QED BY <2>1
<1> QED BY <1>2, <1>3

(* Every step of the engine.                                               *)
LEMMA AdvancePlayed ==
  ASSUME NEW m \in Matches, Rests(m), m.status = "decision", NEW r \in Advance(m)
  PROVE  Played(m, r)
<1>1. CASE m.where # "turn"
  <2>1. r \in Kickoffs(m) BY <1>1 DEF Advance
  <2> QED BY <2>1, KickoffsPlayed
<1>2. CASE m.where = "turn" /\ r \in Plays(m) \cup TurnEnds(m)
  BY <1>2, PlaysPlayed
<1>3. CASE m.where = "turn" /\ r \in DriveEnds(m)
  BY <1>3, DriveEndsPlayed
<1>4. Each(0) \in Amounts BY DEF Each, Amounts
<1>5. CASE m.where = "turn" /\ r = Result([m EXCEPT !.status = "error"], Each(0), Each(0))
  <2> DEFINE n == [m EXCEPT !.status = "error"]
  <2>1. r.g = n /\ r.held = Each(0) BY <1>5, ResultIs
  <2>2. n \in Matches /\ n.score = m.score /\ n.ball = m.ball /\ n.where = m.where /\ n.status = "error"
    BY DEF Matches
  <2> HIDE DEF n
  <2> QED BY <1>4, <1>5, <2>1, <2>2, SameScore DEF Played, Rests
<1>6. CASE m.where = "turn" /\ r = Result([m EXCEPT !.legal = FALSE], Each(0), Each(0))
  <2> DEFINE n == [m EXCEPT !.legal = FALSE]
  <2>1. r.g = n /\ r.held = Each(0) BY <1>6, ResultIs
  <2>2. n \in Matches /\ n.score = m.score /\ n.ball = m.ball /\ n.where = m.where /\ n.status = m.status
    BY DEF Matches
  <2> HIDE DEF n
  <2> QED BY <1>4, <1>6, <2>1, <2>2, SameScore DEF Played, Rests
<1> QED BY <1>1, <1>2, <1>3, <1>5, <1>6 DEF Advance


LEMMA AdvanceShape ==
  ASSUME NEW m \in Matches, NEW r \in Advance(m)
  PROVE  \E x, d, k : r = Result(x, d, k)
<1>1. CASE r \in Kickoffs(m) BY <1>1 DEF Kickoffs
<1>2. CASE r \in Plays(m) BY <1>2 DEF Plays
<1>3. CASE r \in TurnEnds(m) BY <1>3 DEF TurnEnds
<1>4. ASSUME NEW x, NEW d, NEW k,
             r = [Result(x, d, k) EXCEPT !.g.where = "setup"]
               \/ r = [Result(x, d, k) EXCEPT !.g.status = "over"]
      PROVE  \E x1, d1, k1 : r = Result(x1, d1, k1)
  <2>1. CASE r = [Result(x, d, k) EXCEPT !.g.where = "setup"]
    <3>1. r = Result([x EXCEPT !.where = "setup"], d, k) BY <2>1 DEF Result
    <3> QED BY <3>1
  <2>2. CASE r = [Result(x, d, k) EXCEPT !.g.status = "over"]
    <3>1. r = Result([x EXCEPT !.status = "over"], d, k) BY <2>2 DEF Result
    <3> QED BY <3>1
  <2> QED BY <1>4, <2>1, <2>2
<1>5. CASE r \in DriveEnds(m)
  <2> DEFINE ended ==
           {Result([m EXCEPT !.score[t] = @ + 1, !.ball = Off, !.kicking = t],
                   [Each(0) EXCEPT ![m.active] = 1],
                   [Each(0) EXCEPT ![m.active] = IF t = m.active THEN 1 ELSE 0]) : t \in Teams}
             \cup {Result([m EXCEPT !.ball = Off], [Each(0) EXCEPT ![m.active] = 1],
                          [Each(0) EXCEPT ![m.active] = OwnBall(m.ball, m.active)])}
  <2>1. r \in {[o EXCEPT !.g.where = "setup"] : o \in ended}
          \cup {[o EXCEPT !.g.status = "over"] : o \in ended}
    BY <1>5 DEF DriveEnds
  <2>2. \A o \in ended : \E x, d, k : o = Result(x, d, k)
    OBVIOUS
  <2> HIDE DEF ended
  <2>3. PICK o \in ended : r = [o EXCEPT !.g.where = "setup"] \/ r = [o EXCEPT !.g.status = "over"]
    BY <2>1
  <2>4. PICK x, d, k : o = Result(x, d, k) BY <2>2
  <2> QED BY <1>4, <2>3, <2>4
<1>6. CASE r \in {Result([m EXCEPT !.status = "error"], Each(0), Each(0)),
                  Result([m EXCEPT !.legal = FALSE], Each(0), Each(0))}
  BY <1>6
<1> QED BY <1>1, <1>2, <1>3, <1>5, <1>6 DEF Advance

(* What happens to the players changes neither the ball nor the score.     *)
WithIncidents(r, i) == [r EXCEPT !.g = Happens(@, i)]
LEMMA HappensPlayed ==
  ASSUME NEW m \in Matches, NEW x, NEW d, NEW k, Played(m, Result(x, d, k)), NEW i \in Incidents
  PROVE  Played(m, WithIncidents(Result(x, d, k), i))
<1> DEFINE r == WithIncidents(Result(x, d, k), i)
           n == Happens(x, i)
           f == [t \in Teams |-> x.out[t] + i.off[t] - i.back[t]]
           p == [t \in Teams |-> x.sent[t] + i.sent[t]]
           q == [t \in Teams |-> x.surfs[t] + i.surf[t]]
           c == IF i = Quiet THEN x.incidents ELSE x.incidents + 1
<1>1. r.g = n /\ r.held = k
  BY DEF Result, WithIncidents
<1>2. x \in Matches /\ k \in Amounts /\ Rests(x) /\ Scoring(m, x)
  BY ResultIs DEF Played
<1>3. \A t \in Teams : i.off[t] \in Int /\ i.back[t] \in Int /\ i.sent[t] \in Int /\ i.surf[t] \in Int
  <2> DEFINE Fine(j) == \A t \in Teams : j.off[t] \in Int /\ j.back[t] \in Int
                                         /\ j.sent[t] \in Int /\ j.surf[t] \in Int
  <2>1. Fine(Quiet) BY DEF Quiet, Each
  <2>2. Fine([Quiet EXCEPT !.sent[0] = 1]) /\ Fine([Quiet EXCEPT !.off[1] = 1])
        /\ Fine([Quiet EXCEPT !.back[1] = 1])
    BY DEF Quiet, Each
  <2>3. Fine([Quiet EXCEPT !.off[0] = 1, !.surf[0] = 1])
    BY DEF Quiet, Each
  <2>4. Fine([Quiet EXCEPT !.off[1] = 1, !.back[1] = 1])
    BY DEF Quiet, Each
  <2> HIDE DEF Fine
  <2>5. Fine(i) BY <2>1, <2>2, <2>3, <2>4 DEF Incidents
  <2> QED BY <2>5 DEF Fine
<1>4. x.out \in Amounts /\ x.sent \in Amounts /\ x.surfs \in Amounts /\ x.incidents \in Int
  BY <1>2 DEF Matches
<1>5. f \in Amounts /\ p \in Amounts /\ q \in Amounts /\ c \in Int
  BY <1>3, <1>4 DEF Amounts
<1>6. n = [x EXCEPT !.out = f, !.sent = p, !.surfs = q, !.incidents = c]
  BY <1>2 DEF Happens, Matches
<1> HIDE DEF f, p, q, c, r, n
<1>7. n \in Matches BY <1>2, <1>5, <1>6 DEF Matches
<1>8. n.ball = x.ball /\ n.score = x.score /\ n.where = x.where /\ n.status = x.status
  BY <1>2, <1>6 DEF Matches
<1>9. Played(m, r)
  BY <1>1, <1>2, <1>7, <1>8 DEF Played, Rests, Scoring
<1> QED BY <1>9 DEF r

(* ------------------------------ the invariant --------------------------- *)
Histories ==
  [steps : Nat, num : Int, den : Int, first : Amounts, disc : Amounts, paid : Amounts,
   started : {0, 1, 2}]

(* The environment shows the match it counts from.                         *)
Current(m, s) ==
  /\ Rests(m) /\ m.status = "decision" /\ Baselines(s, m) /\ s.prevActive = m.active
  /\ s.decisions \in 0 .. MaxDecisions - 1 /\ s.possessor \in {0, 1, 2}
  /\ m.ball.state = "held" => s.possessor = m.ball.holder
  /\ m.ball.state \in {"ground", "off"} => s.possessor = Nobody

Paired(s, started) ==
  \A t \in Teams : \E gains, losses \in 0 .. s.decisions :
    /\ s.comp[t].BALL_GAIN = gains * (GammaDen * RewardGain)
    /\ s.comp[t].BALL_LOSS = losses * (GammaDen * RewardLoss)
    /\ gains + One(started, t) >= losses + One(s.possessor, t)

Agreed(s, k) == \A t \in Teams : s.ret[t] = k.paid[t] /\ SumOf(s.comp[t]) = k.paid[t]

(* Before the first step the potentials are not known; afterwards they are  *)
(* potentials, and the shaping paid so far is the discounted potential of   *)
(* now less that of the first step.                                        *)
Shape(s, k) ==
  s.exact =>
    /\ k.steps = 0 => /\ k.num = 1 /\ k.den = 1
                      /\ \A t \in Teams : k.disc[t] = 0 /\ s.fetchPrev[t] = NaN /\ s.carryPrev[t] = NaN
    /\ k.steps > 0 => \A t \in Teams :
         /\ s.fetchPrev[t] \in 0 .. FetchSpan /\ s.carryPrev[t] \in 0 .. CarrySpan
         /\ k.disc[t] = k.num * (s.fetchPrev[t] + s.carryPrev[t]) - k.den * k.first[t]

(* An episode is closed with nothing left over.                            *)
Clean(x) == x.shaping = Each(0) /\ x.return = Each(0) /\ x.ledger = Each(0) /\ x.excess = Each(0)

EnvInv ==
  /\ g \in Matches /\ e \in EnvStates /\ h \in Histories
  /\ Current(g, e) /\ Paired(e, h.started) /\ Agreed(e, h) /\ Shape(e, h) /\ SignValid(e.exact)
  /\ Clean(last)

(* A new episode starts with nothing paid.                                 *)
LEMMA ResetStarts ==
  ASSUME NEW m \in Starts, NEW exact \in BOOLEAN
  PROVE  LET s == Reset(exact, m)
             k == Fresh(m) IN
         /\ m \in Matches /\ s \in EnvStates /\ k \in Histories
         /\ Current(m, s) /\ Paired(s, k.started) /\ Agreed(s, k) /\ Shape(s, k)
<1> DEFINE s == Reset(exact, m)
           k == Fresh(m)
           z == [t \in Teams |-> [c \in Components |-> 0]]
<1>1. m \in Matches /\ Rests(m) BY StartsRest
<1>2. m.status = "decision" BY StartsRest
<1>3. /\ m.ball \in Balls /\ m.active \in Teams /\ m.score \in Amounts /\ m.out \in Amounts
      /\ m.sent \in Amounts /\ m.surfs \in Amounts
  BY <1>1 DEF Matches
<1>4. m.ball.holder \in {0, 1, 2} /\ (m.ball.state = "held" <=> m.ball.holder \in Teams)
      /\ m.ball.state \in {"held", "ground", "air", "off"}
  BY <1>3 DEF Balls
<1>5. Each(0) \in Amounts /\ Each(NaN) \in Amounts /\ z \in Books
  BY Spans DEF Each, Amounts, Books
<1>6. s = [exact |-> exact, demo |-> m \in Bank, possessor |-> m.ball.holder, fetchPrev |-> Each(NaN),
           carryPrev |-> Each(NaN), prevActive |-> m.active, latched |-> FALSE, decisions |-> 0,
           scorePrev |-> m.score, outPrev |-> m.out, sentPrev |-> m.sent, surfPrev |-> m.surfs,
           reward |-> Each(0), objective |-> Each(0), ret |-> Each(0), base |-> Each(0),
           step |-> z, comp |-> z]
  BY DEF Reset
<1>7. \A t \in Teams, c \in Components : z[t][c] = 0 OBVIOUS
<1>8. \A t \in Teams : SumOf(z[t]) = 0 /\ z[t].BALL_GAIN = 0 /\ z[t].BALL_LOSS = 0
  BY <1>7 DEF SumOf, Components
<1> HIDE DEF z, s
<1>9. s \in EnvStates
  <2>1. (m \in Bank) \in BOOLEAN OBVIOUS
  <2> QED BY <1>3, <1>4, <1>5, <1>6, <2>1 DEF EnvStates, Teams
<1>10. /\ s.exact = exact /\ s.possessor = m.ball.holder /\ s.fetchPrev = Each(NaN)
       /\ s.carryPrev = Each(NaN) /\ s.prevActive = m.active /\ s.decisions = 0
       /\ s.scorePrev = m.score /\ s.outPrev = m.out /\ s.sentPrev = m.sent
       /\ s.surfPrev = m.surfs /\ s.ret = Each(0) /\ s.comp = z
  BY <1>6
<1>11. k = [steps |-> 0, num |-> 1, den |-> 1, first |-> Each(0), disc |-> Each(0),
            paid |-> Each(0), started |-> m.ball.holder]
  BY DEF Fresh
<1> HIDE DEF k
<1>12. k \in Histories BY <1>4, <1>5, <1>11 DEF Histories
<1>13. /\ k.steps = 0 /\ k.num = 1 /\ k.den = 1 /\ k.disc = Each(0) /\ k.paid = Each(0)
       /\ k.started = m.ball.holder
  BY <1>11
<1>14. Baselines(s, m) BY <1>10 DEF Baselines
<1>15. m.ball.state \in {"ground", "off"} => m.ball.holder = Nobody
  BY <1>4 DEF Nobody, Teams
<1>16. Current(m, s)
  BY <1>1, <1>2, <1>4, <1>10, <1>14, <1>15 DEF Current
<1>17. Paired(s, k.started)
  <2> SUFFICES ASSUME NEW t \in Teams
               PROVE  \E gains, losses \in 0 .. s.decisions :
                        /\ s.comp[t].BALL_GAIN = gains * (GammaDen * RewardGain)
                        /\ s.comp[t].BALL_LOSS = losses * (GammaDen * RewardLoss)
                        /\ gains + One(k.started, t) >= losses + One(s.possessor, t)
    BY DEF Paired
  <2>1. 0 \in 0 .. s.decisions BY <1>10
  <2>2. 0 * (GammaDen * RewardGain) = 0 /\ 0 * (GammaDen * RewardLoss) = 0 OBVIOUS
  <2>3. One(k.started, t) = One(s.possessor, t) /\ One(s.possessor, t) \in {0, 1}
    BY <1>10, <1>13 DEF One
  <2> QED BY <1>8, <1>10, <2>1, <2>2, <2>3
<1>18. Agreed(s, k) BY <1>8, <1>10, <1>13 DEF Agreed, Each
<1>19. Shape(s, k) BY <1>10, <1>13 DEF Shape, Each
<1> QED BY <1>1, <1>9, <1>12, <1>16, <1>17, <1>18, <1>19 DEF s, k

(* What the accounting of a step of k decisions tells of the match m.      *)
Told(o, n, m, k) ==
  /\ n \in EnvStates /\ Balanced(n) /\ n.exact = o.exact /\ n.base = o.ret /\ n.comp = o.comp
  /\ n.decisions = o.decisions + k /\ Baselines(n, m) /\ n.prevActive = m.active
  /\ Follows(m.ball, m.where, n.possessor)
  /\ \A t \in Teams : \E gains, losses \in {0, 1} :
       /\ n.step[t].BALL_GAIN = gains * (GammaDen * RewardGain)
       /\ n.step[t].BALL_LOSS = losses * (GammaDen * RewardLoss)
       /\ gains + One(o.possessor, t) >= losses + One(n.possessor, t)
  /\ o.exact => \A t \in Teams :
       /\ n.fetchPrev[t] = Fetch(m, t) /\ n.carryPrev[t] = Carry(m, t)
       /\ n.step[t].DISTANCE_BALL = Shaping(o.fetchPrev[t], Fetch(m, t))
       /\ n.step[t].DISTANCE_ENDZONE = Shaping(o.carryPrev[t], Carry(m, t))
  /\ \A t \in Teams : n.objective[t] \in -TdMost .. TdMost

LEMMA ToldStep ==
  ASSUME EnvInv, g.legal, NEW p \in Answers(Cleared(e)), NEW k \in Nat, NEW r0 \in Advance(g),
         NEW i \in Incidents, NEW r, r = WithIncidents(r0, i), NEW inTurn,
         NEW t \in TurnHooks(TurnsPaid(TouchbackPaid(Spent(p, k), r.g), r), inTurn, r)
  PROVE  /\ Played(g, r)
         /\ Told(e, Accounted(t, r), r.g, k)
<1>1. Played(g, r)
  <2>1. PICK x, d, q : r0 = Result(x, d, q) BY AdvanceShape DEF EnvInv
  <2>2. g \in Matches /\ Played(g, r0) BY AdvancePlayed DEF EnvInv, Current
  <2>3. Played(g, WithIncidents(Result(x, d, q), i)) BY <2>1, <2>2, HappensPlayed
  <2> QED BY <2>1, <2>3
<1> DEFINE n == Accounted(t, r)
<1>2. /\ e \in EnvStates /\ g \in Matches /\ r.g \in Matches /\ r.held \in Amounts /\ g.kicking \in Teams
      /\ e.prevActive \in Teams /\ e.scorePrev = g.score /\ e.possessor \in {0, 1, 2}
      /\ k \in Int
  BY <1>1 DEF EnvInv, Current, Baselines, Played, Matches
<1>3. Brought(e, t) /\ t.decisions = e.decisions + k /\ t.prevActive = r.g.active
  <2>1. Answered(Cleared(e), p) BY DEF Answers, Answered
  <2>2. t \in TurnHooks(Prelude(p, k, r), inTurn, r) BY DEF Prelude
  <2>3. e \in EnvStates /\ k \in Int /\ r.g \in Matches /\ r.held \in Amounts /\ e.prevActive \in Teams
    BY <1>2
  <2> QED BY ONLY <2>1, <2>2, <2>3, PreludeStep
<1>4. OneScore(t, r.g)
  BY <1>1, <1>2, <1>3 DEF Played, Scoring, OneScore, Brought
<1>5. Scored(t, r.g) => r.g.ball.state # "held"
  BY <1>1, <1>2, <1>3 DEF Played, Scoring, Scored, Brought
<1>6. t \in EnvStates /\ t.objective = Each(0) /\ t.possessor = e.possessor /\ Balanced(t)
      /\ t.exact = e.exact /\ t.base = e.ret /\ t.comp = e.comp
      /\ t.fetchPrev = e.fetchPrev /\ t.carryPrev = e.carryPrev
  BY <1>3 DEF Brought, Potentials
<1>7. /\ Onward(t, n) /\ Baselines(n, r.g) /\ n.prevActive = t.prevActive
      /\ Follows(r.g.ball, r.g.where, n.possessor)
      /\ Turned(t, n) /\ Repriced(t, n, r.g)
      /\ \A u \in Teams : n.objective[u] \in -TdMost .. TdMost
  BY <1>2, <1>4, <1>5, <1>6, AccountedStep
<1> HIDE DEF n
<1>8. Unpaid(t) BY <1>3 DEF Brought
<1>9. /\ n \in EnvStates /\ Balanced(n) /\ n.exact = e.exact /\ n.base = e.ret /\ n.comp = e.comp
      /\ n.decisions = e.decisions + k
  BY <1>3, <1>6, <1>7 DEF Onward
<1>10. \A u \in Teams : \E gains, losses \in {0, 1} :
         /\ n.step[u].BALL_GAIN = gains * (GammaDen * RewardGain)
         /\ n.step[u].BALL_LOSS = losses * (GammaDen * RewardLoss)
         /\ gains + One(e.possessor, u) >= losses + One(n.possessor, u)
  <2> TAKE u \in Teams
  <2>1. PICK gains \in {0, 1}, losses \in {0, 1} :
          /\ n.step[u].BALL_GAIN = t.step[u].BALL_GAIN + gains * (GammaDen * RewardGain)
          /\ n.step[u].BALL_LOSS = t.step[u].BALL_LOSS + losses * (GammaDen * RewardLoss)
          /\ gains + One(t.possessor, u) >= losses + One(n.possessor, u)
    BY <1>7 DEF Turned
  <2>2. gains * (GammaDen * RewardGain) \in Int /\ losses * (GammaDen * RewardLoss) \in Int
    BY Products
  <2>3. n.step[u].BALL_GAIN = gains * (GammaDen * RewardGain)
        /\ n.step[u].BALL_LOSS = losses * (GammaDen * RewardLoss)
    BY <1>8, <2>1, <2>2 DEF Unpaid
  <2> QED BY <1>6, <2>1, <2>3
<1>11. e.exact => \A u \in Teams :
         /\ n.fetchPrev[u] = Fetch(r.g, u) /\ n.carryPrev[u] = Carry(r.g, u)
         /\ n.step[u].DISTANCE_BALL = Shaping(e.fetchPrev[u], Fetch(r.g, u))
         /\ n.step[u].DISTANCE_ENDZONE = Shaping(e.carryPrev[u], Carry(r.g, u))
  <2> SUFFICES ASSUME e.exact, NEW u \in Teams
               PROVE  /\ n.fetchPrev[u] = Fetch(r.g, u) /\ n.carryPrev[u] = Carry(r.g, u)
                      /\ n.step[u].DISTANCE_BALL = Shaping(e.fetchPrev[u], Fetch(r.g, u))
                      /\ n.step[u].DISTANCE_ENDZONE = Shaping(e.carryPrev[u], Carry(r.g, u))
    OBVIOUS
  <2>1. /\ n.fetchPrev[u] = Fetch(r.g, u) /\ n.carryPrev[u] = Carry(r.g, u)
        /\ n.step[u].DISTANCE_BALL = 0 + Shaping(e.fetchPrev[u], Fetch(r.g, u))
        /\ n.step[u].DISTANCE_ENDZONE = 0 + Shaping(e.carryPrev[u], Carry(r.g, u))
    BY <1>6, <1>7, <1>8 DEF Repriced, Unpaid
  <2>2. Fetch(r.g, u) \in Int /\ Carry(r.g, u) \in Int
    BY <1>2, FetchCarryInt
  <2>3. e.fetchPrev[u] \in Int /\ e.carryPrev[u] \in Int BY <1>2 DEF EnvStates, Amounts
  <2>4. Shaping(e.fetchPrev[u], Fetch(r.g, u)) \in Int /\ Shaping(e.carryPrev[u], Carry(r.g, u)) \in Int
    BY <2>2, <2>3 DEF Shaping
  <2> QED BY <2>1, <2>4
<1>12. Told(e, n, r.g, k)
  BY <1>3, <1>7, <1>9, <1>10, <1>11 DEF Told
<1> QED BY <1>1, <1>12 DEF n

(* ------------------- the episode goes on, or is closed ------------------ *)
(* What the trainer notes of a step. *)
NotedAs(k, s, phi, n) ==
  /\ n \in Histories /\ n.steps = k.steps + 1 /\ n.started = k.started
  /\ n.num = k.num * GammaNum /\ n.den = k.den * GammaDen
  /\ \A t \in Teams :
       /\ n.first[t] = IF k.steps = 0 THEN phi[t] ELSE k.first[t]
       /\ n.disc[t] = GammaDen * k.disc[t]
            + k.num * (s.step[t].DISTANCE_BALL + s.step[t].DISTANCE_ENDZONE)
       /\ n.paid[t] = k.paid[t] + s.reward[t]

LEMMA NotedStep ==
  ASSUME NEW k \in Histories, NEW s \in EnvStates, NEW phi \in Amounts
  PROVE  NotedAs(k, s, phi, Noted(k, s, phi))
<1> DEFINE first == [t \in Teams |-> IF k.steps = 0 THEN phi[t] ELSE k.first[t]]
           disc == [t \in Teams |-> GammaDen * k.disc[t]
                      + k.num * (s.step[t].DISTANCE_BALL + s.step[t].DISTANCE_ENDZONE)]
           paid == [t \in Teams |-> k.paid[t] + s.reward[t]]
           n == Noted(k, s, phi)
           num == k.num * GammaNum
           den == k.den * GammaDen
           steps == k.steps + 1
<1>1. /\ k.steps \in Nat /\ k.num \in Int /\ k.den \in Int /\ k.first \in Amounts
      /\ k.disc \in Amounts /\ k.paid \in Amounts
  BY DEF Histories
<1>2. /\ s.step \in Books /\ s.reward \in Amounts
  BY DEF EnvStates
<1>3. first \in Amounts /\ paid \in Amounts
  BY <1>1, <1>2 DEF Amounts
<1>4. disc \in Amounts
  <2> SUFFICES ASSUME NEW t \in Teams
               PROVE  GammaDen * k.disc[t]
                        + k.num * (s.step[t].DISTANCE_BALL + s.step[t].DISTANCE_ENDZONE) \in Int
    BY DEF Amounts
  <2>1. s.step[t].DISTANCE_BALL \in Int /\ s.step[t].DISTANCE_ENDZONE \in Int /\ k.disc[t] \in Int
    BY <1>1, <1>2 DEF Amounts, Books, Components
  <2>2. GammaDen * k.disc[t] \in Int
        /\ k.num * (s.step[t].DISTANCE_BALL + s.step[t].DISTANCE_ENDZONE) \in Int
    BY <1>1, <2>1, Products
  <2> QED BY <2>2
<1>5. num \in Int /\ den \in Int /\ steps \in Nat
  <2>1. GammaNum \in Int /\ GammaDen \in Int OBVIOUS
  <2>2. num \in Int /\ den \in Int
    <3> HIDE DEF EnvAssumption
    <3> QED BY ONLY <1>1, <2>1, Products DEF num, den
  <2> QED BY <1>1, <2>2
<1>6. n = [k EXCEPT !.steps = steps, !.first = first, !.num = num, !.den = den,
                    !.disc = disc, !.paid = paid]
  BY DEF Noted, Histories
<1>7. \A t \in Teams :
        /\ first[t] = IF k.steps = 0 THEN phi[t] ELSE k.first[t]
        /\ disc[t] = GammaDen * k.disc[t]
             + k.num * (s.step[t].DISTANCE_BALL + s.step[t].DISTANCE_ENDZONE)
        /\ paid[t] = k.paid[t] + s.reward[t]
  OBVIOUS
<1> HIDE DEF first, disc, paid, n, num, den, steps
<1>8. n \in Histories BY <1>3, <1>4, <1>5, <1>6 DEF Histories
<1>9. /\ n.steps = steps /\ n.num = num /\ n.den = den /\ n.first = first /\ n.disc = disc
      /\ n.paid = paid /\ n.started = k.started
  BY <1>6 DEF Histories
<1>10. NotedAs(k, s, phi, n)
  BY <1>7, <1>8, <1>9 DEF NotedAs, num, den, steps
<1> QED BY <1>10 DEF n

(* One more step of discounted shaping: the potential before it cancels.   *)
LEMMA Telescope ==
  ASSUME NEW a \in Int, NEW b \in Int, NEW first \in Int, NEW p \in Int, NEW phi \in Int
  PROVE  GammaDen * (a * p - b * first) + a * (GammaNum * phi - GammaDen * p)
           = (a * GammaNum) * phi - (b * GammaDen) * first
<1> DEFINE x == a * p
           y == b * first
           z == GammaNum * phi
           w == GammaDen * p
<1>1. x \in Int /\ y \in Int /\ z \in Int /\ w \in Int
  OBVIOUS
<1>2. GammaDen * (x - y) = GammaDen * x - GammaDen * y /\ a * (z - w) = a * z - a * w
  BY <1>1
<1>3. GammaDen * x = a * w /\ GammaDen * y = (b * GammaDen) * first /\ a * z = (a * GammaNum) * phi
  OBVIOUS
<1>4. GammaDen * x \in Int /\ GammaDen * y \in Int /\ a * z \in Int
  BY <1>1, Products
<1> HIDE DEF x, y, z, w
<1> QED
  <2>1. GammaDen * (x - y) + a * (z - w) = a * z - GammaDen * y
    BY <1>2, <1>3, <1>4
  <2> QED BY <1>3, <2>1 DEF x, y, z, w

LEMMA PhisStep ==
  ASSUME NEW s \in EnvStates
  PROVE  Phis(s) \in Amounts /\ \A t \in Teams : Phis(s)[t] = s.fetchPrev[t] + s.carryPrev[t]
BY DEF Phis, EnvStates, Amounts

(* The episode goes on: what is told of the step is added to the accounts. *)
LEMMA OngoingPaired ==
  ASSUME NEW s \in EnvStates, NEW started, Paired(s, started), s.decisions \in Nat,
         NEW k \in Nat \ {0}, NEW m, NEW n, Told(s, n, m, k)
  PROVE  Paired(Committed(n), started)
<1> DEFINE c == Committed(n)
<1>1. n \in EnvStates /\ n.decisions = s.decisions + k /\ n.comp = s.comp
  BY DEF Told
<1>2. /\ Posted(n, c)
      /\ \A t \in Teams : \A d \in Components : c.comp[t][d] = n.comp[t][d] + n.step[t][d]
  BY <1>1, CommittedStep
<1> HIDE DEF c
<1>3. c.decisions = s.decisions + k /\ c.possessor = n.possessor
  BY <1>1, <1>2 DEF Posted
<1>4. ASSUME NEW t \in Teams
      PROVE  \E gains, losses \in 0 .. c.decisions :
               /\ c.comp[t].BALL_GAIN = gains * (GammaDen * RewardGain)
               /\ c.comp[t].BALL_LOSS = losses * (GammaDen * RewardLoss)
               /\ gains + One(started, t) >= losses + One(c.possessor, t)
  <2>1. PICK gains \in 0 .. s.decisions, losses \in 0 .. s.decisions :
          /\ s.comp[t].BALL_GAIN = gains * (GammaDen * RewardGain)
          /\ s.comp[t].BALL_LOSS = losses * (GammaDen * RewardLoss)
          /\ gains + One(started, t) >= losses + One(s.possessor, t)
    BY DEF Paired
  <2>2. PICK more \in {0, 1}, fewer \in {0, 1} :
          /\ n.step[t].BALL_GAIN = more * (GammaDen * RewardGain)
          /\ n.step[t].BALL_LOSS = fewer * (GammaDen * RewardLoss)
          /\ more + One(s.possessor, t) >= fewer + One(n.possessor, t)
    BY DEF Told
  <2>3. gains + more \in 0 .. c.decisions /\ losses + fewer \in 0 .. c.decisions
    BY <1>3
  <2> DEFINE gain == GammaDen * RewardGain
             loss == GammaDen * RewardLoss
  <2>4. gain \in Int /\ loss \in Int OBVIOUS
  <2>5. /\ c.comp[t].BALL_GAIN = gains * gain + more * gain
        /\ c.comp[t].BALL_LOSS = losses * loss + fewer * loss
    BY <1>1, <1>2, <2>1, <2>2 DEF Components
  <2> HIDE DEF gain, loss
  <2>6. /\ c.comp[t].BALL_GAIN = (gains + more) * gain
        /\ c.comp[t].BALL_LOSS = (losses + fewer) * loss
    BY <2>4, <2>5
  <2>7. (gains + more) + One(started, t) >= (losses + fewer) + One(c.possessor, t)
    <3>1. One(started, t) \in Int /\ One(s.possessor, t) \in Int /\ One(c.possessor, t) \in Int
      BY DEF One
    <3> QED BY <1>3, <2>1, <2>2, <3>1
  <2> QED BY <2>3, <2>6, <2>7 DEF gain, loss
<1> QED BY <1>4 DEF Paired, c

LEMMA OngoingAgreed ==
  ASSUME NEW s \in EnvStates, NEW b \in Histories, Agreed(s, b), NEW k, NEW m, NEW n, Told(s, n, m, k)
  PROVE  Agreed(Committed(n), Noted(b, n, Phis(n)))
<1> DEFINE c == Committed(n)
           w == Noted(b, n, Phis(n))
<1>1. n \in EnvStates /\ n.comp = s.comp /\ n.base = s.ret /\ Balanced(n)
  BY DEF Told
<1>2. /\ c \in EnvStates /\ Posted(n, c)
      /\ \A t \in Teams : SumOf(c.comp[t]) = SumOf(n.comp[t]) + SumOf(n.step[t])
  BY <1>1, CommittedStep
<1> HIDE DEF c
<1>3. NotedAs(b, n, Phis(n), w)
  BY <1>1, PhisStep, NotedStep
<1> HIDE DEF w
<1>4. \A t \in Teams : c.ret[t] = w.paid[t] /\ SumOf(c.comp[t]) = w.paid[t]
  BY <1>1, <1>2, <1>3 DEF Agreed, Balanced, NotedAs, Posted
<1> QED BY <1>4 DEF Agreed, c, w

LEMMA ShapingAfter ==
  ASSUME NEW prev \in Int, NEW phi \in Int
  PROVE  /\ Shaping(prev, phi) \in Int
         /\ prev # NaN => Shaping(prev, phi) = GammaNum * phi - GammaDen * prev
         /\ prev = NaN => Shaping(prev, phi) = GammaNum * phi - GammaDen * phi
BY DEF Shaping

LEMMA NotAPotential ==
  ASSUME NEW p \in Int, p \in 0 .. FetchSpan \/ p \in 0 .. CarrySpan
  PROVE  p # NaN
BY Spans

LEMMA OngoingShape ==
  ASSUME NEW s \in EnvStates, NEW b \in Histories, Shape(s, b), SignValid(s.exact), NEW k,
         NEW m \in Matches, NEW n, Told(s, n, m, k)
  PROVE  Shape(Committed(n), Noted(b, n, Phis(n)))
<1> DEFINE c == Committed(n)
           w == Noted(b, n, Phis(n))
<1>1. n \in EnvStates /\ n.exact = s.exact
  BY DEF Told
<1>2. c \in EnvStates /\ Posted(n, c)
  BY <1>1, CommittedStep
<1> HIDE DEF c
<1>3. NotedAs(b, n, Phis(n), w)
  BY <1>1, PhisStep, NotedStep
<1> HIDE DEF w
<1>4. ASSUME s.exact, NEW t \in Teams
      PROVE  /\ c.fetchPrev[t] \in 0 .. FetchSpan /\ c.carryPrev[t] \in 0 .. CarrySpan
             /\ w.disc[t] = w.num * (c.fetchPrev[t] + c.carryPrev[t]) - w.den * w.first[t]
  <2> DEFINE fetch == Fetch(m, t)
             carry == Carry(m, t)
             f0 == s.fetchPrev[t]
             c0 == s.carryPrev[t]
  <2>1. /\ n.fetchPrev[t] = fetch /\ n.carryPrev[t] = carry
        /\ n.step[t].DISTANCE_BALL = Shaping(f0, fetch)
        /\ n.step[t].DISTANCE_ENDZONE = Shaping(c0, carry)
    BY <1>4 DEF Told
  <2>2. c.fetchPrev[t] = fetch /\ c.carryPrev[t] = carry /\ c.step = n.step
    BY <1>2, <2>1 DEF Posted
  <2>3. fetch \in 0 .. FetchSpan /\ carry \in 0 .. CarrySpan
    <3>1. SignValid(TRUE) BY <1>4 DEF SignValid
    <3> QED BY <3>1, FetchCarryBounds
  <2>4. fetch \in Int /\ carry \in Int /\ f0 \in Int /\ c0 \in Int
    <3>1. FetchSpan \in Int /\ CarrySpan \in Int BY Spans
    <3>2. f0 \in Int /\ c0 \in Int BY DEF EnvStates, Amounts
    <3> QED BY <2>3, <3>1, <3>2
  <2> HIDE DEF fetch, carry, f0, c0
  <2> DEFINE phi == fetch + carry
             p0 == f0 + c0
  <2>5. Phis(n)[t] = phi
    BY <1>1, <2>1, PhisStep
  <2>6. /\ w.num = b.num * GammaNum /\ w.den = b.den * GammaDen
        /\ w.first[t] = IF b.steps = 0 THEN phi ELSE b.first[t]
        /\ w.disc[t] = GammaDen * b.disc[t] + b.num * (Shaping(f0, fetch) + Shaping(c0, carry))
    BY <1>3, <2>1, <2>2, <2>5 DEF NotedAs
  <2>7. b.num \in Int /\ b.den \in Int /\ b.first[t] \in Int /\ b.disc[t] \in Int /\ b.steps \in Nat
    BY DEF Histories, Amounts
  <2>8. CASE b.steps = 0
    <3>1. b.num = 1 /\ b.den = 1 /\ b.disc[t] = 0 /\ f0 = NaN /\ c0 = NaN
      BY <1>4, <2>8 DEF Shape, f0, c0
    <3>2. Shaping(f0, fetch) = GammaNum * fetch - GammaDen * fetch
          /\ Shaping(c0, carry) = GammaNum * carry - GammaDen * carry
      <4>1. f0 = NaN /\ c0 = NaN BY <3>1
      <4> QED BY ONLY <4>1 DEF Shaping
    <3>3. GammaNum * fetch - GammaDen * fetch + (GammaNum * carry - GammaDen * carry)
            = GammaNum * phi - GammaDen * phi
      BY <2>4
    <3>4. w.num = GammaNum /\ w.den = GammaDen /\ w.first[t] = phi
      BY <2>6, <2>8, <3>1
    <3>5. phi \in Int BY <2>4
    <3> HIDE DEF phi
    <3>6. w.disc[t] = GammaNum * phi - GammaDen * phi
      <4>1. GammaNum * phi - GammaDen * phi \in Int BY <3>5
      <4> QED BY <2>6, <3>1, <3>2, <3>3, <4>1
    <3> QED BY <2>2, <2>3, <3>4, <3>6 DEF phi
  <2>9. CASE b.steps > 0
    <3>1. /\ f0 \in 0 .. FetchSpan /\ c0 \in 0 .. CarrySpan
          /\ b.disc[t] = b.num * p0 - b.den * b.first[t]
      BY <1>4, <2>9 DEF Shape, f0, c0
    <3>2. f0 # NaN /\ c0 # NaN
      BY <2>4, <3>1, NotAPotential
    <3>3. Shaping(f0, fetch) = GammaNum * fetch - GammaDen * f0
          /\ Shaping(c0, carry) = GammaNum * carry - GammaDen * c0
      BY <2>4, <3>2, ShapingAfter
    <3>4. GammaNum * fetch - GammaDen * f0 + (GammaNum * carry - GammaDen * c0)
            = GammaNum * phi - GammaDen * p0
      BY <2>4
    <3>5. w.first[t] = b.first[t]
      BY <2>6, <2>9
    <3>6. phi \in Int /\ p0 \in Int BY <2>4
    <3> HIDE DEF phi, p0
    <3>7. GammaDen * (b.num * p0 - b.den * b.first[t]) + b.num * (GammaNum * phi - GammaDen * p0)
            = (b.num * GammaNum) * phi - (b.den * GammaDen) * b.first[t]
      <4>1. PICK x \in Int, y \in Int, f \in Int : x = b.num /\ y = b.den /\ f = b.first[t]
        BY <2>7
      <4>2. GammaDen * (x * p0 - y * f) + x * (GammaNum * phi - GammaDen * p0)
              = (x * GammaNum) * phi - (y * GammaDen) * f
        BY <3>6, Telescope
      <4> QED BY ONLY <4>1, <4>2
    <3>8. w.disc[t] = w.num * phi - w.den * w.first[t]
      BY <2>6, <3>1, <3>3, <3>4, <3>5, <3>7
    <3> QED BY <2>2, <2>3, <3>8 DEF phi
  <2> QED BY <2>7, <2>8, <2>9
<1>5. w.steps > 0 /\ c.exact = s.exact
  <2>1. b.steps \in Nat BY DEF Histories
  <2> QED BY <1>1, <1>2, <1>3, <2>1 DEF NotedAs, Posted
<1>6. Shape(c, w)
  BY <1>4, <1>5 DEF Shape
<1> QED BY <1>6 DEF c, w

LEMMA OngoingCurrent ==
  ASSUME NEW s \in EnvStates, NEW k, NEW m \in Matches, NEW n, Told(s, n, m, k), Rests(m),
         m.status = "decision", n.decisions \in 0 .. MaxDecisions - 1
  PROVE  Committed(n) \in EnvStates /\ Current(m, Committed(n))
<1> DEFINE c == Committed(n)
<1>1. n \in EnvStates BY DEF Told
<1>2. c \in EnvStates /\ Posted(n, c)
  BY <1>1, CommittedStep
<1> HIDE DEF c
<1>3. Baselines(n, m) /\ n.prevActive = m.active /\ Follows(m.ball, m.where, n.possessor)
  BY DEF Told
<1>4. Baselines(c, m) /\ c.prevActive = m.active /\ c.possessor = n.possessor
      /\ c.decisions = n.decisions
  BY <1>2, <1>3 DEF Baselines, Posted
<1>5. Current(m, c)
  BY <1>3, <1>4 DEF Current, Follows, Rests
<1> QED BY <1>2, <1>5 DEF c

(* What the end of an episode takes back of the shaping: at most what a     *)
(* distance pays, and after a step all that was paid since the first one.  *)
FetchMost == GammaDen * FetchSpan
CarryMost == GammaDen * CarrySpan
KeptFetch(n, t) == Kept(n, t, "DISTANCE_BALL", n.fetchPrev[t])
KeptCarry(n, t) == Kept(n, t, "DISTANCE_ENDZONE", n.carryPrev[t])
Forfeit(s, b, n, legal) ==
  n.exact => \A t \in Teams :
    /\ KeptFetch(n, t) \in -FetchMost .. 0 /\ KeptCarry(n, t) \in -CarryMost .. 0
    /\ legal => KeptFetch(n, t) + KeptCarry(n, t)
                  = -(GammaDen * (IF b.steps = 0 THEN n.fetchPrev[t] + n.carryPrev[t]
                                  ELSE s.fetchPrev[t] + s.carryPrev[t]))

LEMMA Scales ==
  ASSUME NEW a \in Nat, NEW most \in Nat, NEW v \in 0 .. most, NEW w \in 0 .. a
  PROVE  w * v \in 0 .. a * most
<1>1. w * v \in Int /\ a * most \in Int /\ w * v >= 0 OBVIOUS
<1>2. a * (most - v) >= 0 OBVIOUS
<1>3. (a - w) * v >= 0 OBVIOUS
<1>4. a * (most - v) = a * most - a * v /\ (a - w) * v = a * v - w * v OBVIOUS
<1>5. a * v \in Int OBVIOUS
<1> QED BY <1>1, <1>2, <1>3, <1>4, <1>5

LEMMA TakenBack ==
  ASSUME NEW prev \in Int, NEW phi \in Int, NEW most \in Nat, phi \in 0 .. most,
         prev = NaN \/ prev \in 0 .. most, NaN \notin 0 .. most
  PROVE  /\ Shaping(prev, phi) - GammaNum * phi = -(GammaDen * (IF prev = NaN THEN phi ELSE prev))
         /\ Shaping(prev, phi) - GammaNum * phi \in -(GammaDen * most) .. 0
<1> DEFINE v == IF prev = NaN THEN phi ELSE prev
<1>1. v \in 0 .. most /\ v \in Int OBVIOUS
<1>2. Shaping(prev, phi) = GammaNum * phi - GammaDen * v BY DEF Shaping
<1> HIDE DEF v
<1>3. GammaNum * phi \in Int /\ GammaDen * v \in Int /\ GammaDen * most \in Int BY <1>1
<1>4. GammaDen * v \in 0 .. GammaDen * most BY <1>1, Scales
<1>5. Shaping(prev, phi) - GammaNum * phi = -(GammaDen * v) BY <1>2, <1>3
<1>6. -(GammaDen * v) \in -(GammaDen * most) .. 0 BY <1>3, <1>4
<1> QED BY <1>5, <1>6 DEF v

LEMMA PlayedForfeit ==
  ASSUME NEW s \in EnvStates, NEW b \in Histories, Shape(s, b), SignValid(s.exact), NEW k,
         NEW m \in Matches, NEW n, Told(s, n, m, k)
  PROVE  Forfeit(s, b, n, TRUE)
<1>1. ASSUME n.exact, NEW t \in Teams
      PROVE  /\ KeptFetch(n, t) \in -FetchMost .. 0 /\ KeptCarry(n, t) \in -CarryMost .. 0
             /\ KeptFetch(n, t) + KeptCarry(n, t)
                  = -(GammaDen * (IF b.steps = 0 THEN n.fetchPrev[t] + n.carryPrev[t]
                                  ELSE s.fetchPrev[t] + s.carryPrev[t]))
  <2> DEFINE fetch == Fetch(m, t)
             carry == Carry(m, t)
             f0 == s.fetchPrev[t]
             c0 == s.carryPrev[t]
             wall == FetchSpan
             line == CarrySpan
  <2>1. s.exact BY <1>1 DEF Told
  <2>2. /\ n.fetchPrev[t] = fetch /\ n.carryPrev[t] = carry
        /\ n.step[t].DISTANCE_BALL = Shaping(f0, fetch)
        /\ n.step[t].DISTANCE_ENDZONE = Shaping(c0, carry)
    BY <2>1 DEF Told
  <2>3. fetch \in 0 .. wall /\ carry \in 0 .. line /\ fetch # NaN /\ carry # NaN
    <3>1. SignValid(TRUE) BY <2>1 DEF SignValid
    <3> QED BY <3>1, FetchCarryBounds
  <2>4. wall \in Nat /\ line \in Nat /\ NaN \notin 0 .. wall /\ NaN \notin 0 .. line /\ NaN \in Int
    BY Spans
  <2>5. f0 \in Int /\ c0 \in Int BY DEF EnvStates, Amounts
  <2>6. b.steps \in Nat BY DEF Histories
  <2>7. /\ b.steps = 0 => f0 = NaN /\ c0 = NaN
        /\ b.steps > 0 => f0 \in 0 .. wall /\ c0 \in 0 .. line
    BY <2>1 DEF Shape
  <2> HIDE DEF fetch, carry, f0, c0
  <2>8. KeptFetch(n, t) = Shaping(f0, fetch) - GammaNum * fetch
        /\ KeptCarry(n, t) = Shaping(c0, carry) - GammaNum * carry
    BY <1>1, <2>2, <2>3 DEF KeptFetch, KeptCarry, Kept
  <2> HIDE DEF wall, line
  <2>9. /\ KeptFetch(n, t) = -(GammaDen * (IF f0 = NaN THEN fetch ELSE f0))
        /\ KeptFetch(n, t) \in -(GammaDen * wall) .. 0
    <3>1. fetch \in Int /\ (f0 = NaN \/ f0 \in 0 .. wall) BY <2>3, <2>4, <2>6, <2>7
    <3>2. /\ Shaping(f0, fetch) - GammaNum * fetch = -(GammaDen * (IF f0 = NaN THEN fetch ELSE f0))
          /\ Shaping(f0, fetch) - GammaNum * fetch \in -(GammaDen * wall) .. 0
      BY ONLY <2>3, <2>4, <2>5, <3>1, TakenBack
    <3> QED BY ONLY <2>8, <3>2
  <2>10. /\ KeptCarry(n, t) = -(GammaDen * (IF c0 = NaN THEN carry ELSE c0))
         /\ KeptCarry(n, t) \in -(GammaDen * line) .. 0
    <3>1. carry \in Int /\ (c0 = NaN \/ c0 \in 0 .. line) BY <2>3, <2>4, <2>6, <2>7
    <3>2. /\ Shaping(c0, carry) - GammaNum * carry = -(GammaDen * (IF c0 = NaN THEN carry ELSE c0))
          /\ Shaping(c0, carry) - GammaNum * carry \in -(GammaDen * line) .. 0
      BY ONLY <2>3, <2>4, <2>5, <3>1, TakenBack
    <3> QED BY ONLY <2>8, <3>2
  <2>11. KeptFetch(n, t) + KeptCarry(n, t)
           = -(GammaDen * (IF b.steps = 0 THEN fetch + carry ELSE f0 + c0))
    <3>1. CASE b.steps = 0
      <4>1. KeptFetch(n, t) = -(GammaDen * fetch) /\ KeptCarry(n, t) = -(GammaDen * carry)
        BY <2>7, <2>9, <2>10, <3>1
      <4>2. fetch \in Int /\ carry \in Int BY <2>3, <2>4
      <4> QED BY <3>1, <4>1, <4>2
    <3>2. CASE b.steps > 0
      <4>1. KeptFetch(n, t) = -(GammaDen * f0) /\ KeptCarry(n, t) = -(GammaDen * c0)
        BY <2>4, <2>7, <2>9, <2>10, <3>2
      <4>2. b.steps # 0 BY <3>2
      <4> QED BY <2>5, <4>1, <4>2
    <3> QED BY <2>6, <3>1, <3>2
  <2> QED BY <2>2, <2>9, <2>10, <2>11 DEF FetchMost, CarryMost, wall, line, f0, c0
<1> QED BY <1>1 DEF Forfeit

LEMMA StuckForfeit ==
  ASSUME NEW s \in EnvStates, NEW b \in Histories, Shape(s, b), NEW n, Brought(s, n)
  PROVE  Forfeit(s, b, n, FALSE)
<1>1. ASSUME NEW prev \in Int, NEW most \in Nat, prev = NaN \/ prev \in 0 .. most
      PROVE  0 - (IF prev = NaN THEN 0 ELSE GammaNum * prev) \in -(GammaDen * most) .. 0
  <2>1. GammaDen * most \in Nat OBVIOUS
  <2>2. CASE prev = NaN BY <2>1, <2>2
  <2>3. CASE prev # NaN
    <3>1. GammaNum * prev \in 0 .. GammaDen * most
      <4>1. prev \in 0 .. most /\ GammaDen \in Nat /\ GammaNum \in 0 .. GammaDen BY <1>1, <2>3
      <4> QED BY ONLY <4>1, <1>1, Scales
    <3>2. 0 - (IF prev = NaN THEN 0 ELSE GammaNum * prev) = -(GammaNum * prev)
      BY <2>3
    <3> QED BY <2>1, <3>1, <3>2
  <2> QED BY <2>2, <2>3
<1>2. ASSUME n.exact, NEW t \in Teams
      PROVE  KeptFetch(n, t) \in -FetchMost .. 0 /\ KeptCarry(n, t) \in -CarryMost .. 0
  <2> DEFINE f0 == s.fetchPrev[t]
             c0 == s.carryPrev[t]
             wall == FetchSpan
             line == CarrySpan
  <2>1. s.exact /\ n.fetchPrev[t] = f0 /\ n.carryPrev[t] = c0
    BY <1>2 DEF Brought, Potentials
  <2>2. f0 \in Int /\ c0 \in Int BY DEF EnvStates, Amounts
  <2>3. b.steps \in Nat BY DEF Histories
  <2>4. (f0 = NaN \/ f0 \in 0 .. wall) /\ (c0 = NaN \/ c0 \in 0 .. line)
    BY <2>1, <2>3 DEF Shape
  <2>5. wall \in Nat /\ line \in Nat BY Spans
  <2>6. n.step[t].DISTANCE_BALL = 0 /\ n.step[t].DISTANCE_ENDZONE = 0 BY DEF Brought, Unpaid
  <2> HIDE DEF f0, c0, wall, line
  <2>7. /\ KeptFetch(n, t) = 0 - (IF f0 = NaN THEN 0 ELSE GammaNum * f0)
        /\ KeptCarry(n, t) = 0 - (IF c0 = NaN THEN 0 ELSE GammaNum * c0)
    BY <1>2, <2>1, <2>6 DEF KeptFetch, KeptCarry, Kept
  <2>8. KeptFetch(n, t) \in -(GammaDen * wall) .. 0
    BY ONLY <1>1, <2>2, <2>4, <2>5, <2>7
  <2>9. KeptCarry(n, t) \in -(GammaDen * line) .. 0
    BY ONLY <1>1, <2>2, <2>4, <2>5, <2>7
  <2> QED BY <2>8, <2>9 DEF FetchMost, CarryMost, wall, line
<1> QED BY <1>2 DEF Forfeit

(* The last reward stays within the envelope.                              *)
LEMMA WithinEnvelope ==
  ASSUME NEW s \in EnvStates, NEW n \in EnvStates, NEW a, n.exact = s.exact,
         NEW b, NEW legal, Forfeit(a, b, s, legal),
         NEW m \in Matches, NEW t \in Teams, s.objective[t] \in -TdMost .. TdMost,
         n.reward[t] = s.objective[t] + Bonus(m, t) + KeptFetch(s, t) + KeptCarry(s, t)
  PROVE  Largest(0, Abs(n.reward[t]) - Envelope(n.exact)) = 0
<1> DEFINE td == Abs(RewardTd)
           bonus == Largest(Abs(RewardWin), Abs(RewardDraw))
           wall == FetchSpan
           line == CarrySpan
           r == n.reward[t]
<1>1. td \in Nat /\ bonus \in Nat /\ wall \in Nat /\ line \in Nat
  BY Spans DEF Abs, Largest
<1>2. /\ TdMost = GammaDen * td /\ BonusMost = GammaDen * bonus
      /\ FetchMost = GammaDen * wall /\ CarryMost = GammaDen * line
  BY DEF TdMost, BonusMost, FetchMost, CarryMost
<1>3. Envelope(n.exact) = GammaDen * (IF n.exact THEN (td + bonus) + wall + line
                                ELSE Largest(td + bonus, Largest(wall, line)))
  BY DEF Envelope
<1>4. Bonus(m, t) \in -BonusMost .. BonusMost BY BonusBound
<1> HIDE DEF td, bonus, wall, line, r
<1>5. /\ TdMost \in Nat /\ BonusMost \in Nat /\ FetchMost \in Nat /\ CarryMost \in Nat
  BY <1>1, <1>2
<1>6. r \in Int
  BY DEF r, EnvStates, Amounts
<1>7. CASE n.exact
  <2>1. KeptFetch(s, t) \in -FetchMost .. 0 /\ KeptCarry(s, t) \in -CarryMost .. 0
    BY <1>7 DEF Forfeit
  <2>2. Envelope(n.exact) = TdMost + BonusMost + FetchMost + CarryMost
    <3>1. GammaDen * (td + bonus + wall + line)
            = GammaDen * td + GammaDen * bonus + GammaDen * wall + GammaDen * line
      BY <1>1
    <3> QED BY <1>1, <1>2, <1>3, <1>7, <3>1
  <2>3. -Envelope(n.exact) <= r /\ r <= Envelope(n.exact)
    BY <1>4, <1>5, <2>1, <2>2 DEF r
  <2>4. Envelope(n.exact) \in Int BY <1>5, <2>2
  <2>5. Abs(r) - Envelope(n.exact) <= 0 BY <1>6, <2>3, <2>4 DEF Abs
  <2> QED BY <1>6, <2>4, <2>5 DEF Largest, Abs, r
<1>8. CASE ~n.exact
  <2>1. KeptFetch(s, t) = 0 /\ KeptCarry(s, t) = 0
    BY <1>8 DEF KeptFetch, KeptCarry, Kept
  <2> DEFINE most == Largest(td + bonus, Largest(wall, line))
  <2>2. most \in Nat /\ td + bonus \in Nat /\ td + bonus <= most BY <1>1 DEF Largest
  <2>3. Envelope(n.exact) = GammaDen * most BY <1>3, <1>8
  <2> HIDE DEF most
  <2>4. TdMost + BonusMost <= Envelope(n.exact) /\ Envelope(n.exact) \in Int
    <3>1. TdMost + BonusMost = GammaDen * (td + bonus) BY <1>1, <1>2
    <3>2. GammaDen * (td + bonus) \in 0 .. GammaDen * most
      <4>1. td + bonus \in 0 .. most /\ GammaDen \in Nat /\ GammaDen \in 0 .. GammaDen BY <2>2
      <4> QED BY ONLY <2>2, <4>1, Scales
    <3> QED BY <2>2, <2>3, <3>1, <3>2
  <2>5. -Envelope(n.exact) <= r /\ r <= Envelope(n.exact)
    BY <1>4, <1>5, <2>1, <2>4 DEF r
  <2>6. Abs(r) - Envelope(n.exact) <= 0 BY <1>6, <2>4, <2>5 DEF Abs
  <2> QED BY <1>6, <2>4, <2>6 DEF Largest, Abs, r
<1> QED BY <1>7, <1>8 DEF EnvStates

LEMMA ClosedStep ==
  ASSUME NEW s \in EnvStates, NEW b \in Histories, Agreed(s, b), Shape(s, b),
         NEW n \in EnvStates, n.exact = s.exact, n.base = s.ret, n.comp = s.comp,
         NEW m \in Matches, NEW legal \in BOOLEAN, Forfeit(s, b, n, legal),
         \A t \in Teams : n.objective[t] \in -TdMost .. TdMost,
         NEW d \in Nat
  PROVE  Clean(Closed(legal, Committed(Matched(Settled(n, m), d)),
                      Noted(b, Committed(Matched(Settled(n, m), d)), Phis(n))))
<1> DEFINE z == Settled(n, m)
           q == Matched(z, d)
           v == -(StatmatchScale * d)
           c == Committed(q)
           w == Noted(b, c, Phis(n))
           x == Closed(legal, c, w)
<1>0. /\ z \in EnvStates /\ Balanced(z) /\ z.exact = n.exact /\ z.base = n.base
      /\ z.comp = n.comp
      /\ \A t \in Teams :
           /\ z.reward[t] = n.objective[t] + Bonus(m, t) + KeptFetch(n, t) + KeptCarry(n, t)
           /\ z.step[t].DISTANCE_BALL = KeptFetch(n, t)
           /\ z.step[t].DISTANCE_ENDZONE = KeptCarry(n, t)
           /\ z.step[t].STATMATCH = 0
  BY SettledStep DEF KeptFetch, KeptCarry
<1> HIDE DEF z
<1>m. /\ q \in EnvStates /\ Balanced(q) /\ Aside(z, q) /\ v \in Int
      /\ \A t \in Teams : /\ q.reward[t] = z.reward[t] + v
                          /\ q.step[t].STATMATCH = z.step[t].STATMATCH + v
                          /\ q.step[t].DISTANCE_BALL = z.step[t].DISTANCE_BALL
                          /\ q.step[t].DISTANCE_ENDZONE = z.step[t].DISTANCE_ENDZONE
  BY <1>0, MatchedStep
<1> HIDE DEF q, v
<1>1. /\ q \in EnvStates /\ Balanced(q) /\ q.exact = n.exact /\ q.base = n.base
      /\ q.comp = n.comp
      /\ \A t \in Teams :
           /\ q.step[t].DISTANCE_BALL = KeptFetch(n, t)
           /\ q.step[t].DISTANCE_ENDZONE = KeptCarry(n, t)
  BY <1>0, <1>m DEF Aside
<1>2. /\ c \in EnvStates /\ Posted(q, c)
      /\ \A t \in Teams : SumOf(c.comp[t]) = SumOf(q.comp[t]) + SumOf(q.step[t])
  BY <1>1, CommittedStep
<1> HIDE DEF c
<1>3. Phis(n) \in Amounts /\ \A t \in Teams : Phis(n)[t] = n.fetchPrev[t] + n.carryPrev[t]
  BY PhisStep
<1>4. NotedAs(b, c, Phis(n), w)
  BY <1>2, <1>3, NotedStep
<1> HIDE DEF w
<1>5. \A t \in Teams : c.ret[t] - w.paid[t] = 0 /\ SumOf(c.comp[t]) - w.paid[t] = 0
  <2> SUFFICES ASSUME NEW t \in Teams
               PROVE  c.ret[t] = w.paid[t] /\ SumOf(c.comp[t]) = w.paid[t] /\ w.paid[t] \in Int
    OBVIOUS
  <2>1. w.paid[t] = b.paid[t] + q.reward[t] /\ w.paid[t] \in Int
    BY <1>2, <1>4 DEF NotedAs, Posted, Histories, Amounts
  <2>2. c.ret[t] = s.ret[t] + q.reward[t]
    BY <1>1, <1>2 DEF Posted, Balanced
  <2>3. SumOf(c.comp[t]) = SumOf(s.comp[t]) + q.reward[t]
    BY <1>1, <1>2 DEF Balanced
  <2> QED BY <2>1, <2>2, <2>3 DEF Agreed
<1>6. \A t \in Teams : Largest(0, Abs(c.reward[t] - c.step[t].STATMATCH) - Envelope(c.exact)) = 0
  <2> TAKE t \in Teams
  <2>1. c.exact = z.exact /\ c.reward[t] = z.reward[t] + v /\ c.step[t].STATMATCH = v
    BY <1>0, <1>m, <1>2 DEF Posted, Aside
  <2>2. z.reward[t] \in Int BY <1>0 DEF EnvStates, Amounts
  <2>3. c.reward[t] - c.step[t].STATMATCH = z.reward[t] BY <1>m, <2>1, <2>2
  <2>4. z.reward[t] = n.objective[t] + Bonus(m, t) + KeptFetch(n, t) + KeptCarry(n, t)
    BY <1>0
  <2>5. Largest(0, Abs(z.reward[t]) - Envelope(z.exact)) = 0
    BY <1>0, <2>4, WithinEnvelope
  <2> QED BY <2>1, <2>3, <2>5
<1>7. \A t \in Teams : (IF c.exact /\ legal THEN w.disc[t] + w.den * w.first[t] ELSE 0) = 0
  <2> SUFFICES ASSUME NEW t \in Teams, c.exact, legal
               PROVE  w.disc[t] + w.den * w.first[t] = 0
    OBVIOUS
  <2>1. n.exact /\ s.exact BY <1>1, <1>2 DEF Posted
  <2> DEFINE kept == KeptFetch(n, t) + KeptCarry(n, t)
             phi == n.fetchPrev[t] + n.carryPrev[t]
             p0 == s.fetchPrev[t] + s.carryPrev[t]
  <2>2. kept = -(GammaDen * (IF b.steps = 0 THEN phi ELSE p0))
    BY <2>1 DEF Forfeit
  <2>3. /\ w.den = b.den * GammaDen
        /\ w.first[t] = IF b.steps = 0 THEN phi ELSE b.first[t]
        /\ w.disc[t] = GammaDen * b.disc[t] + b.num * kept
    BY <1>1, <1>2, <1>3, <1>4 DEF NotedAs, Posted
  <2>4. /\ b.num \in Int /\ b.den \in Int /\ b.first[t] \in Int /\ b.disc[t] \in Int
        /\ b.steps \in Nat
    BY DEF Histories, Amounts
  <2>5. phi \in Int /\ p0 \in Int
    BY DEF EnvStates, Amounts
  <2>6. CASE b.steps = 0
    <3>1. b.num = 1 /\ b.den = 1 /\ b.disc[t] = 0
      BY <2>1, <2>6 DEF Shape
    <3> HIDE DEF kept, phi, p0
    <3>2. w.den = GammaDen /\ w.first[t] = phi /\ w.disc[t] = -(GammaDen * phi)
      BY <2>2, <2>3, <2>5, <2>6, <3>1
    <3> QED BY <2>5, <3>2
  <2>7. CASE b.steps > 0
    <3>1. b.disc[t] = b.num * p0 - b.den * b.first[t]
      BY <2>1, <2>7 DEF Shape
    <3> HIDE DEF kept, phi, p0
    <3>2. PICK x0 \in Int, y \in Int, f \in Int : x0 = b.num /\ y = b.den /\ f = b.first[t]
      BY <2>4
    <3>3. kept = -(GammaDen * p0) /\ w.first[t] = f /\ w.den = y * GammaDen
          /\ w.disc[t] = GammaDen * (x0 * p0 - y * f) + x0 * kept
      BY <2>2, <2>3, <2>7, <3>1, <3>2
    <3>4. GammaDen * (x0 * p0 - y * f) + x0 * (-(GammaDen * p0)) = -((y * GammaDen) * f)
      <4>1. GammaDen * (x0 * p0 - y * f) = GammaDen * (x0 * p0) - GammaDen * (y * f)
        BY <2>5
      <4>2. x0 * (-(GammaDen * p0)) = -(GammaDen * (x0 * p0)) /\ GammaDen * (y * f) = (y * GammaDen) * f
        BY <2>5
      <4>3. GammaDen * (x0 * p0) \in Int /\ GammaDen * (y * f) \in Int
        BY <2>5
      <4> QED BY <4>1, <4>2, <4>3
    <3>5. (y * GammaDen) * f \in Int OBVIOUS
    <3> QED BY <3>3, <3>4, <3>5
  <2> QED BY <2>4, <2>6, <2>7
<1>8. /\ x.shaping = [t \in Teams |-> IF c.exact /\ legal THEN w.disc[t] + w.den * w.first[t] ELSE 0]
      /\ x.return = [t \in Teams |-> c.ret[t] - w.paid[t]]
      /\ x.ledger = [t \in Teams |-> SumOf(c.comp[t]) - w.paid[t]]
      /\ x.excess = [t \in Teams |->
                       Largest(0, Abs(c.reward[t] - c.step[t].STATMATCH) - Envelope(c.exact))]
  BY DEF Closed
<1> HIDE DEF x
<1>9. x.shaping = Each(0) BY <1>7, <1>8 DEF Each
<1>10. x.return = Each(0) /\ x.ledger = Each(0) BY <1>5, <1>8 DEF Each
<1>11. x.excess = Each(0) BY <1>6, <1>8 DEF Each
<1>12. Clean(x) BY <1>9, <1>10, <1>11 DEF Clean
<1> QED BY <1>12 DEF x, w, c, q, z

(* ------------------------- the invariant is one ------------------------- *)
LEMMA GoesOnKeeps ==
  ASSUME EnvInv, NEW k \in Nat \ {0}, NEW m \in Matches, NEW n, Told(e, n, m, k), Rests(m),
         m.status = "decision", n.decisions < MaxDecisions,
         g' = m, e' = Committed(n), h' = Noted(h, n, Phis(n)), last' = NoEpisode
  PROVE  EnvInv'
<1>1. /\ e \in EnvStates /\ h \in Histories /\ Paired(e, h.started) /\ Agreed(e, h)
      /\ Shape(e, h) /\ SignValid(e.exact) /\ e.decisions \in Nat
  BY DEF EnvInv, Current
<1>2. n \in EnvStates /\ n.decisions \in 0 .. MaxDecisions - 1
  <2>1. n \in EnvStates /\ n.decisions = e.decisions + k BY DEF Told
  <2> QED BY <1>1, <2>1
<1>3. Committed(n) \in EnvStates /\ Current(m, Committed(n))
  BY <1>1, <1>2, OngoingCurrent
<1>4. NotedAs(h, n, Phis(n), h')
  BY <1>1, <1>2, PhisStep, NotedStep
<1>5. h' \in Histories /\ h'.started = h.started
  BY <1>4 DEF NotedAs
<1>6. Paired(e', h'.started)
  BY <1>1, <1>5, OngoingPaired
<1>7. Agreed(e', h')
  BY <1>1, OngoingAgreed
<1>8. Shape(e', h')
  BY <1>1, OngoingShape
<1>9. Clean(last')
  BY DEF Clean, NoEpisode
<1>10. e'.exact = e.exact
  BY <1>2, CommittedStep DEF Told, Posted
<1> QED BY <1>1, <1>3, <1>5, <1>6, <1>7, <1>8, <1>9, <1>10 DEF EnvInv

LEMMA EndKeeps ==
  ASSUME EnvInv, NEW n \in EnvStates, n.exact = e.exact, n.base = e.ret, n.comp = e.comp,
         NEW m \in Matches, Forfeit(e, h, n, g.legal),
         \A t \in Teams : n.objective[t] \in -TdMost .. TdMost,
         NEW start \in Starts, g' = start, e' = Reset(n.exact, start), h' = Fresh(start),
         NEW d \in Nat,
         last' = Closed(g.legal, Committed(Matched(Settled(n, m), d)),
                        Noted(h, Committed(Matched(Settled(n, m), d)), Phis(n)))
  PROVE  EnvInv'
<1>1. /\ e \in EnvStates /\ h \in Histories /\ Agreed(e, h) /\ Shape(e, h) /\ g.legal \in BOOLEAN
  BY DEF EnvInv, Matches
<1>2. n.exact \in BOOLEAN BY DEF EnvStates
<1>3. Clean(last')
  BY <1>1, ClosedStep
<1>4. /\ start \in Matches /\ Reset(n.exact, start) \in EnvStates /\ Fresh(start) \in Histories
      /\ Current(start, Reset(n.exact, start)) /\ Paired(Reset(n.exact, start), Fresh(start).started)
      /\ Agreed(Reset(n.exact, start), Fresh(start)) /\ Shape(Reset(n.exact, start), Fresh(start))
  BY <1>2, ResetStarts
<1>5. SignValid(e'.exact)
  <2>1. e'.exact = e.exact BY DEF Reset
  <2> QED BY <2>1 DEF EnvInv
<1> QED BY <1>3, <1>4, <1>5 DEF EnvInv

LEMMA StepKeeps == EnvInv /\ Step => EnvInv'
<1> SUFFICES ASSUME EnvInv, Step PROVE EnvInv'
  OBVIOUS
<1>1. g.legal /\ g.status = "decision" BY DEF Step
<1>2. PICK p \in Answers(Cleared(e)), k \in 1 .. MaxPlan, r0 \in Advance(g), i \in Incidents :
        /\ e.decisions + k <= MaxDecisions
        /\ \E t \in TurnHooks(TurnsPaid(TouchbackPaid(Spent(p, k), WithIncidents(r0, i).g),
                                        WithIncidents(r0, i)),
                              g.where = "turn", WithIncidents(r0, i)) :
             Concluded(Accounted(t, WithIncidents(r0, i)), WithIncidents(r0, i).g)
  BY DEF Step, Spent, WithIncidents
<1> DEFINE r == WithIncidents(r0, i)
<1>3. PICK t \in TurnHooks(TurnsPaid(TouchbackPaid(Spent(p, k), r.g), r), g.where = "turn", r) :
        Concluded(Accounted(t, r), r.g)
  BY <1>2
<1> DEFINE n == Accounted(t, r)
<1>4. k \in Nat \ {0} /\ k \in Nat OBVIOUS
<1>5. Played(g, r) /\ Told(e, n, r.g, k)
  BY <1>1, <1>4, ToldStep
<1>6. Concluded(n, r.g) BY <1>3
<1> HIDE DEF n, r
<1>7. r.g \in Matches /\ Rests(r.g) BY <1>5 DEF Played
<1>8. n \in EnvStates /\ n.exact = e.exact /\ n.base = e.ret /\ n.comp = e.comp
      /\ \A u \in Teams : n.objective[u] \in -TdMost .. TdMost
  BY <1>5 DEF Told
<1>9. CASE r.g.status # "decision" \/ ~g.legal \/ n.decisions >= MaxDecisions
  <2>0. PICK d \in Deviations(n) :
          /\ last' = Closed(g.legal, Committed(Matched(Settled(n, r.g), d)),
                            Noted(h, Committed(Matched(Settled(n, r.g), d)), Phis(n)))
          /\ \E start \in Starts : g' = start /\ e' = Reset(n.exact, start) /\ h' = Fresh(start)
    BY <1>6, <1>9 DEF Concluded
  <2>1. PICK start \in Starts : g' = start /\ e' = Reset(n.exact, start) /\ h' = Fresh(start)
    BY <2>0
  <2>5. d \in Nat BY DeviationsNat
  <2>2. Forfeit(e, h, n, TRUE)
    BY <1>5, <1>7, PlayedForfeit DEF EnvInv
  <2>3. g.legal = TRUE
    BY <1>1 DEF EnvInv, Matches
  <2>4. Forfeit(e, h, n, g.legal)
    BY <2>2, <2>3
  <2> QED BY <1>7, <1>8, <2>0, <2>1, <2>4, <2>5, EndKeeps
<1>10. CASE ~(r.g.status # "decision" \/ ~g.legal \/ n.decisions >= MaxDecisions)
  <2>1. g' = r.g /\ e' = Committed(n) /\ h' = Noted(h, n, Phis(n)) /\ last' = NoEpisode
    BY <1>6, <1>10 DEF Concluded
  <2>2. r.g.status = "decision" /\ n.decisions < MaxDecisions
    <3>1. n.decisions \in Int BY <1>8 DEF EnvStates
    <3> QED BY <1>10, <3>1
  <2> QED BY <1>4, <1>5, <1>7, <2>1, <2>2, GoesOnKeeps
<1> QED BY <1>9, <1>10

LEMMA StuckKeeps == EnvInv /\ Stuck => EnvInv'
<1> SUFFICES ASSUME EnvInv, Stuck PROVE EnvInv'
  OBVIOUS
<1> DEFINE n == Cleared(e)
<1>1. ~g.legal /\ Concluded(n, g) BY DEF Stuck
<1>2. e \in EnvStates /\ g \in Matches /\ h \in Histories /\ Shape(e, h)
  BY DEF EnvInv
<1>3. Brought(e, n) BY <1>2, ClearedStep
<1> HIDE DEF n
<1>4. n \in EnvStates /\ n.exact = e.exact /\ n.base = e.ret /\ n.comp = e.comp
      /\ n.objective = Each(0)
  BY <1>3 DEF Brought
<1>5. \A t \in Teams : n.objective[t] \in -TdMost .. TdMost
  <2>1. TdMost \in Nat BY DEF TdMost, Abs
  <2> QED BY <1>4, <2>1 DEF Each
<1>6. g.legal = FALSE BY <1>1, <1>2 DEF Matches
<1>7. Forfeit(e, h, n, g.legal)
  <2>1. Forfeit(e, h, n, FALSE) BY <1>2, <1>3, StuckForfeit
  <2> QED BY <1>6, <2>1
<1>8. PICK d \in Deviations(n) :
        /\ last' = Closed(g.legal, Committed(Matched(Settled(n, g), d)),
                          Noted(h, Committed(Matched(Settled(n, g), d)), Phis(n)))
        /\ \E start \in Starts : g' = start /\ e' = Reset(n.exact, start) /\ h' = Fresh(start)
  BY <1>1 DEF Concluded
<1>9. PICK start \in Starts : g' = start /\ e' = Reset(n.exact, start) /\ h' = Fresh(start)
  BY <1>8
<1>10. d \in Nat BY DeviationsNat
<1> QED BY <1>2, <1>4, <1>5, <1>7, <1>8, <1>9, <1>10, EndKeeps

LEMMA InitHolds == Init => EnvInv
<1> SUFFICES ASSUME Init PROVE EnvInv
  OBVIOUS
<1>1. PICK exact \in BOOLEAN : SignValid(exact) /\ e = Reset(exact, g)
  BY DEF Init, ConfigValid
<1>2. g \in Starts /\ h = Fresh(g) /\ last = NoEpisode BY DEF Init
<1>3. /\ g \in Matches /\ e \in EnvStates /\ h \in Histories
      /\ Current(g, e) /\ Paired(e, h.started) /\ Agreed(e, h) /\ Shape(e, h)
  BY <1>1, <1>2, ResetStarts
<1>4. Clean(last) BY <1>2 DEF Clean, NoEpisode
<1>5. SignValid(e.exact) BY <1>1 DEF Reset
<1> QED BY <1>3, <1>4, <1>5 DEF EnvInv

LEMMA StutterKeeps == EnvInv /\ UNCHANGED vars => EnvInv'
BY DEF EnvInv, vars

(* The invariant the properties of the environment follow from: the match  *)
(* and the environment's baselines of it agree (c_step, bbe_reset_match),  *)
(* the gains and losses paid so far pair, the ledgers agree with what the  *)
(* trainer was paid, and the shaping paid so far is the discounted         *)
(* potential of now less that after the first step.                        *)
THEOREM EnvInvariance == Spec => []EnvInv
<1>1. Init => EnvInv BY InitHolds
<1>2. EnvInv /\ [Next]_vars => EnvInv'
  BY StepKeeps, StuckKeeps, StutterKeeps DEF Next
<1> QED BY <1>1, <1>2, PTL DEF Spec

(* Whenever an answer is asked for, the environment's baselines are those   *)
(* of the match it shows, and an episode has decisions left.               *)
THEOREM EnvTypeCorrect == Spec => []TypeOK
<1>1. EnvInv => TypeOK
  BY DEF EnvInv, TypeOK, Current, Baselines, Teams, Nobody
<1> QED BY <1>1, EnvInvariance, PTL

(* What bbe_update_possession pays pairs: possession is what the ball says, *)
(* and no side has lost the ball more often than it gained it, or started  *)
(* with it.                                                                *)
THEOREM PossessionsPaired == Spec => []PossessionsPair
<1>1. EnvInv => PossessionsPair
  BY DEF EnvInv, PossessionsPair, Current, Paired
<1> QED BY <1>1, EnvInvariance, PTL

(* Exact shaping adds nothing that depends on what was done: the discounted *)
(* sum over an episode is minus the potential after its first step.        *)
THEOREM ShapingCancels == Spec => []ShapingTelescopes
<1>1. EnvInv => ShapingTelescopes
  BY DEF EnvInv, ShapingTelescopes, Clean
<1> QED BY <1>1, EnvInvariance, PTL

(* The return, the component ledger and what the trainer was paid agree at *)
(* every decision and at the end of every episode.                         *)
THEOREM LedgersAlwaysAgree == Spec => []LedgersAgree
<1>1. EnvInv => LedgersAgree
  BY DEF EnvInv, LedgersAgree, Agreed, Clean
<1> QED BY <1>1, EnvInvariance, PTL

(* The reward an episode ends with is within the envelope                  *)
(* bbe_reward_clip_threshold derives from the configuration, but for the   *)
(* share bbe_finish_episode takes off it for the statistics of the match.  *)
THEOREM LastWithinEnvelope == Spec => []LastInEnvelope
<1>1. EnvInv => LastInEnvelope
  BY DEF EnvInv, LastInEnvelope, Clean
<1> QED BY <1>1, EnvInvariance, PTL
=============================================================================
