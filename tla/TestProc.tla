------------------------------ MODULE TestProc ------------------------------
(***************************************************************************)
(* TEST (engine/src/proc_test.c): one die, then at most one re-roll of it, *)
(* by the team (the Loner gate first), by the player's Pro, or by a skill  *)
(* once a turn for each kind of test.  The result goes to the single       *)
(* return register m.ret, which the parent frame reads when it runs again: *)
(*   "ok"     the test passed (bit 0)                                      *)
(*   "one"    the die shows 1; "low" it is at most 1 after modifiers       *)
(*   "close"  a pass that a further -2 would turn into a failure           *)
(***************************************************************************)
EXTENDS Pitch

Outcomes(kind) ==
  CASE kind = "PASS" -> {{"ok"}, {"ok", "low"}, {"low"}, {"one"}, {}}
    [] kind = "DODGE" -> {{"ok"}, {"ok", "close"}, {}}
    [] OTHER -> {{"ok"}, {}}

SkillFor(kind) ==
  CASE kind = "DODGE" -> "DODGE" [] kind = "RUSH" -> "SURE_FEET"
    [] kind = "PICKUP" -> "SURE_HANDS" [] kind = "PASS" -> "PASS"
    [] kind = "CATCH" -> "CATCH" [] OTHER -> "none"

TeamRerollAvailable(s, team) ==
  s.rerolls[team] > 0 /\ s.active = team /\ (~InKickoff(s) \/ InCharge(s))
ProAvailable(s, f) ==
  /\ {"team_used", "skill_used"} \cap f.data = {}
  /\ f.a = s.acting /\ f.a \notin s.usedPro /\ Has(s, f.a, "PRO")
SkillAvailable(s, f) ==
  /\ "skill_used" \notin f.data
  /\ ~(f.k = "CATCH" /\ f.c # NoPlayer)
  /\ <<f.a, f.k>> \notin s.skillUsed
  /\ Has(s, f.a, SkillFor(f.k))
  /\ f.k = "DODGE" => ~HasTackleAdjacent(s, f.a)
CanReroll(s, f) ==
  \/ TeamRerollAvailable(s, TeamOf(f.a)) /\ "team_used" \notin f.data
  \/ SkillAvailable(s, f)
  \/ ProAvailable(s, f)

Return(s, result) == [Pop(s) EXCEPT !.ret = result]
Stands(f) == f.data \cap {"one", "low"} \* what the first die showed

TestRoll ==
  /\ Runs("TEST", 0)
  /\ \E o \in Outcomes(Top(m).k) :
       m' = IF "ok" \in o THEN Return(m, o)
            ELSE IF CanReroll(m, Top(m))
            THEN Decide(Mark(Phase(m, 1), o), TeamOf(Top(m).a))
            ELSE Return(m, o)

TestReroll == Runs("TEST", 2) /\ \E o \in Outcomes(Top(m).k) : m' = Return(m, o)
TestWasted == Runs("TEST", 3) /\ m' = Return(m, Stands(Top(m)))

TestDecline == Asks("TEST", 1) /\ m' = Answered(Return(m, Stands(Top(m))))

TestPro ==
  /\ Asks("TEST", 1) /\ ProAvailable(m, Top(m))
  /\ \E next \in {2, 3} :
       m' = Answered(Phase(Mark([m EXCEPT !.usedPro = @ \cup {Top(m).a}],
                                {"team_used", "skill_used"}), next))

TestTeamReroll ==
  /\ Asks("TEST", 1)
  /\ TeamRerollAvailable(m, TeamOf(Top(m).a)) /\ "team_used" \notin Top(m).data
  /\ \E next \in {2} \cup (IF Has(m, Top(m).a, "LONER") THEN {3} ELSE {}) :
       m' = Answered(Phase(Mark([m EXCEPT !.rerolls[TeamOf(Top(m).a)] = @ - 1],
                                {"team_used"}), next))

TestSkillReroll ==
  /\ Asks("TEST", 1) /\ SkillAvailable(m, Top(m))
  /\ m' = Answered(Phase(Mark([m EXCEPT !.skillUsed = @ \cup {<<Top(m).a, Top(m).k>>}],
                              {"skill_used"}), 2))

TestNext ==
  TestRoll \/ TestReroll \/ TestWasted \/ TestDecline \/ TestPro
    \/ TestTeamReroll \/ TestSkillReroll
=============================================================================
