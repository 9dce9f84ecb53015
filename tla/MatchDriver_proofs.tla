--------------------------- MODULE MatchDriver_proofs ---------------------------
(***************************************************************************)
(* Proofs about MatchDriver, for every length of the half, every pool of   *)
(* re-rolls and every squad.                                               *)
(*                                                                         *)
(* The argument is one inductive invariant, IndInv (MatchDriverInv).  One  *)
(* lemma per part shows that a step from IndInv keeps that part; each has  *)
(* one case per action.  They use each other only for the state before the *)
(* step, except that types (TypeStep) are also used for the state after it.*)
(***************************************************************************)
EXTENDS MatchDriverInv, TLAPS

USE DEF Teams, NoTeam, frame, clock, pools, matchfr, booking, history

(* The other team is a team, another one, and its other team is this one.  *)
LEMMA OtherTeam ==
  ASSUME NEW t \in Teams
  PROVE  Other(t) \in Teams /\ Other(t) # t /\ Other(Other(t)) = t
BY DEF Other

(* No re-roll is spent by this step.                                       *)
NoSpending == \A s \in Teams : spent'[s] <= spent[s]

(* Every step keeps every variable in its type: the toss, the second half  *)
(* and a touchdown only ever write teams into kicking_team and active_team,*)
(* and the pools and markers never go below zero.                          *)
LEMMA TypeStep ==
  ASSUME IndInv, [Next]_vars
  PROVE  TypeOK'
<1> USE TurnsPerHalfAssumption, RerollsStartAssumption, BudgetAssumption, OtherTeam
       DEF IndInv, TypeOK, Procs
<1>1. CASE MatchPushPregame
  <2>1. picked' \in BOOLEAN
    BY <1>1, Zenon DEF MatchPushPregame, Push
  <2> QED
    BY <1>1, <2>1 DEF MatchPushPregame, Push
<1>2. CASE PregameToss
  BY <1>2 DEF PregameToss, WithLeader
<1>3. CASE PregameChoose
  <2>1. picked' \in BOOLEAN
    BY <1>3, Zenon DEF PregameChoose, Pop, Push
  <2> QED
    BY <1>3, <2>1 DEF PregameChoose, Pop, Push
<1>4. CASE MatchPushSetup
  <2>1. picked' \in BOOLEAN
    BY <1>4, Zenon DEF MatchPushSetup, Push
  <2> QED
    BY <1>4, <2>1 DEF MatchPushSetup, Push
<1>5. CASE SetupDone
  <2>1. picked' \in BOOLEAN
    BY <1>5, Zenon DEF SetupDone, Pop, Push
  <2> QED
    BY <1>5, <2>1 DEF SetupDone, Pop, Push
<1>6. CASE MatchPushKickoff
  <2>1. scored' \in BOOLEAN
    BY <1>6, Zenon DEF MatchPushKickoff
  <2>2. picked' \in BOOLEAN
    BY <1>6, Zenon DEF MatchPushKickoff, Push
  <2> QED
    BY <1>6, <2>1, <2>2 DEF MatchPushKickoff, Push
<1>7. CASE MatchPushEndDrive
  <2>1. td' \in BOOLEAN
    BY <1>7, Zenon DEF MatchPushEndDrive
  <2>2. picked' \in BOOLEAN
    BY <1>7, Zenon DEF MatchPushEndDrive, Push
  <2> QED
    BY <1>7, <2>1, <2>2 DEF MatchPushEndDrive, Push
<1>8. CASE MatchPushTeamTurn
  <2>1. picked' \in BOOLEAN
    BY <1>8, Zenon DEF MatchPushTeamTurn, Push, NextTeam
  <2> QED
    BY <1>8, <2>1 DEF MatchPushTeamTurn, Push, NextTeam
<1>9. CASE MatchNextDrive
  BY <1>9 DEF MatchNextDrive
<1>10. CASE MatchSecondHalf
  <2>1. rerolls' \in [Teams -> Nat]
    BY <1>10 DEF MatchSecondHalf, WithLeader
  <2>2. kicking' \in Teams
    BY <1>10 DEF MatchSecondHalf, SecondHalfKicker, OnTop, Toss, BeforeToss
  <2> QED
    BY <1>10, <2>1, <2>2 DEF MatchSecondHalf
<1>11. CASE MatchOver
  BY <1>11 DEF MatchOver
<1>12. CASE KickTarget
  BY <1>12 DEF KickTarget
<1>13. CASE TimeOut
  BY <1>13 DEF TimeOut, KickoffLand, TimeOutMarkers
<1>14. CASE QuietEvent
  BY <1>14 DEF QuietEvent, KickoffLand
<1>15. CASE WindowEvent
  BY <1>15 DEF WindowEvent
<1>16. CASE WindowDone
  BY <1>16 DEF WindowDone, KickoffLand
<1>17. ASSUME NEW t \in Teams, BrilliantCoaching(t) PROVE TypeOK'
  BY <1>17 DEF BrilliantCoaching, KickoffLand
<1>18. CASE ChargeEvent
  BY <1>18 DEF ChargeEvent
<1>19. CASE ChargeActivate
  BY <1>19 DEF ChargeActivate
<1>20. CASE ChargeEnd
  <2>1. turnover' \in BOOLEAN
    BY <1>20, Zenon DEF ChargeEnd, HandBack
  <2> QED
    BY <1>20, <2>1 DEF ChargeEnd, HandBack, KickoffLand
<1>21. CASE KickoffSettle
  <2>1. picked' \in BOOLEAN
    BY <1>21, Zenon DEF KickoffSettle, Pop, Push
  <2> QED
    BY <1>21, <2>1 DEF KickoffSettle, Pop, Push
<1>22. CASE Touchback
  <2>1. picked' \in BOOLEAN
    BY <1>22, Zenon DEF Touchback, Pop, Push
  <2> QED
    BY <1>22, <2>1 DEF Touchback, Pop, Push
<1>23. CASE TurnStart
  <2>1. turn' \in [Teams -> Nat] /\ started' \in [Teams -> Nat]
    BY <1>23 DEF TurnStart
  <2>2. turnover' \in BOOLEAN
    BY <1>23, Zenon DEF TurnStart
  <2> QED
    BY <1>23, <2>1, <2>2 DEF TurnStart
<1>24. CASE Activate
  BY <1>24 DEF Activate, AfterActivation
<1>25. CASE EndTurn
  BY <1>25 DEF EndTurn
<1>26. CASE TurnEnd
  <2>1. completed' \in [Teams -> Nat]
    BY <1>26 DEF TurnEnd
  <2>2. turnover' \in BOOLEAN
    BY <1>26, Zenon DEF TurnEnd
  <2>3. picked' \in BOOLEAN
    BY <1>26, Zenon DEF TurnEnd, Pop, Push
  <2> QED
    BY <1>26, <2>1, <2>2, <2>3 DEF TurnEnd, Pop, Push
<1>27. CASE MakeTurnover
  BY <1>27 DEF MakeTurnover
<1>28. CASE PlayEnds
  BY <1>28 DEF PlayEnds
<1>29. CASE Touchdown
  <2>1. scorer \in Teams
    BY <1>29 DEF Touchdown, Control
  <2>2. completed' \in [Teams -> Nat] /\ score' \in [Teams -> Nat]
    BY <1>29, <2>1 DEF Touchdown, BookedTeam
  <2>3. turn' \in [Teams -> Nat]
    BY <1>29, <2>1 DEF Touchdown, TouchdownMarkers
  <2>4. turnover' \in BOOLEAN /\ td' \in BOOLEAN /\ scored' \in BOOLEAN
    BY <1>29, Zenon DEF Touchdown
  <2>5. gifts' \in [Teams -> Nat] /\ skipped' \in [Teams -> Nat]
    BY <1>29, <2>1 DEF Touchdown, GiftTurn
  <2>6. picked' \in BOOLEAN
    BY <1>29, Zenon DEF Touchdown, Pop, Push
  <2> QED
    BY <1>29, <2>1, <2>2, <2>3, <2>4, <2>5, <2>6 DEF Touchdown, Pop, Push
<1>30. CASE EndDrive
  <2>1. rerolls' \in [Teams -> Nat]
    BY <1>30 DEF EndDrive, Expiring
  <2>2. turnover' \in BOOLEAN
    BY <1>30, Zenon DEF EndDrive
  <2>3. picked' \in BOOLEAN
    BY <1>30, Zenon DEF EndDrive, Pop, Push
  <2> QED
    BY <1>30, <2>1, <2>2, <2>3 DEF EndDrive, Pop, Push
<1>31. ASSUME NEW t \in Teams, SpendReroll(t) PROVE TypeOK'
  <2>1. rerolls' \in [Teams -> Nat] /\ bonus' \in [Teams -> Nat]
    BY <1>31 DEF SpendReroll, TeamRerollAvailable
  <2> QED
    BY <1>31, <2>1 DEF SpendReroll
<1>32. ASSUME NEW t \in Teams, LoseLeader(t) PROVE TypeOK'
  BY <1>32 DEF LoseLeader
<1>33. ASSUME NEW t \in Teams, CheckTd(t) PROVE TypeOK'
  BY <1>33 DEF CheckTd
<1>34. CASE UNCHANGED vars
  BY <1>34 DEF vars
<1> QED
  BY <1>1, <1>2, <1>3, <1>4, <1>5, <1>6, <1>7, <1>8, <1>9, <1>10, <1>11,
     <1>12, <1>13, <1>14, <1>15, <1>16, <1>17, <1>18, <1>19, <1>20, <1>21,
     <1>22, <1>23, <1>24, <1>25, <1>26, <1>27, <1>28, <1>29, <1>30, <1>31,
     <1>32, <1>33, <1>34 DEF Next, Finished

(* Every step keeps the frames above MATCH and the plays above them to     *)
(* those that belong to the phase MATCH is in.                             *)
LEMMA ControlStep ==
  ASSUME IndInv, [Next]_vars
  PROVE  Control'
<1> USE TypeStep DEF IndInv, TypeOK, Procs, Control, OnTop
<1>1. CASE MatchPushPregame
  BY <1>1 DEF MatchPushPregame, Push
<1>2. CASE PregameToss
  BY <1>2 DEF PregameToss
<1>3. CASE PregameChoose
  BY <1>3 DEF PregameChoose, Pop, Push
<1>4. CASE MatchPushSetup
  BY <1>4 DEF MatchPushSetup, Push
<1>5. CASE SetupDone
  BY <1>5 DEF SetupDone, Pop, Push
<1>6. CASE MatchPushKickoff
  BY <1>6 DEF MatchPushKickoff, Push
<1>7. CASE MatchPushEndDrive
  BY <1>7 DEF MatchPushEndDrive, Push
<1>8. CASE MatchPushTeamTurn
  BY <1>8 DEF MatchPushTeamTurn, Push
<1>9. CASE MatchNextDrive
  BY <1>9 DEF MatchNextDrive
<1>10. CASE MatchSecondHalf
  BY <1>10 DEF MatchSecondHalf
<1>11. CASE MatchOver
  BY <1>11 DEF MatchOver
<1>12. CASE KickTarget
  BY <1>12 DEF KickTarget
<1>13. CASE TimeOut
  BY <1>13 DEF TimeOut, KickoffLand
<1>14. CASE QuietEvent
  BY <1>14 DEF QuietEvent, KickoffLand
<1>15. CASE WindowEvent
  BY <1>15 DEF WindowEvent
<1>16. CASE WindowDone
  BY <1>16 DEF WindowDone, KickoffLand
<1>17. ASSUME NEW t \in Teams, BrilliantCoaching(t) PROVE Control'
  BY <1>17 DEF BrilliantCoaching, KickoffLand
<1>18. CASE ChargeEvent
  BY <1>18 DEF ChargeEvent
<1>19. CASE ChargeActivate
  BY <1>19 DEF ChargeActivate
<1>20. CASE ChargeEnd
  BY <1>20 DEF ChargeEnd, HandBack, KickoffLand
<1>21. CASE KickoffSettle
  BY <1>21 DEF KickoffSettle, Pop, Push
<1>22. CASE Touchback
  BY <1>22 DEF Touchback, Pop, Push
<1>23. CASE TurnStart
  BY <1>23 DEF TurnStart
<1>24. CASE Activate
  BY <1>24 DEF Activate
<1>25. CASE EndTurn
  BY <1>25 DEF EndTurn
<1>26. CASE TurnEnd
  BY <1>26 DEF TurnEnd, Pop, Push
<1>27. CASE MakeTurnover
  BY <1>27 DEF MakeTurnover, Running
<1>28. CASE PlayEnds
  BY <1>28 DEF PlayEnds, Running
<1>29. CASE Touchdown
  BY <1>29 DEF Touchdown, Pop, Push
<1>30. CASE EndDrive
  BY <1>30 DEF EndDrive, Pop, Push
<1>31. ASSUME NEW t \in Teams, SpendReroll(t) PROVE Control'
  BY <1>31 DEF SpendReroll, Running
<1>32. ASSUME NEW t \in Teams, LoseLeader(t) PROVE Control'
  BY <1>32 DEF LoseLeader, Running
<1>33. ASSUME NEW t \in Teams, CheckTd(t) PROVE Control'
  BY <1>33 DEF CheckTd, Running
<1>34. CASE UNCHANGED vars
  BY <1>34 DEF vars
<1> QED
  BY <1>1, <1>2, <1>3, <1>4, <1>5, <1>6, <1>7, <1>8, <1>9, <1>10, <1>11,
     <1>12, <1>13, <1>14, <1>15, <1>16, <1>17, <1>18, <1>19, <1>20, <1>21,
     <1>22, <1>23, <1>24, <1>25, <1>26, <1>27, <1>28, <1>29, <1>30, <1>31,
     <1>32, <1>33, <1>34 DEF Next, Finished

(* The team that opened the match is the one MATCH has latched, and phase 4*)
(* is only reached through a touchdown or a half that has run out.         *)
LEMMA TossStep ==
  ASSUME IndInv, [Next]_vars
  PROVE  Toss'
<1> USE TypeStep, OtherTeam 
    DEF IndInv, TypeOK, Procs, Control, Toss, BeforeToss, OnTop, HalfOver
<1>1. CASE MatchPushPregame
  BY <1>1 DEF MatchPushPregame, Push
<1>2. CASE PregameToss
  BY <1>2 DEF PregameToss
<1>3. CASE PregameChoose
  BY <1>3 DEF PregameChoose, Pop, Push
<1>4. CASE MatchPushSetup
  BY <1>4 DEF MatchPushSetup, Push
<1>5. CASE SetupDone
  BY <1>5 DEF SetupDone, Pop, Push
<1>6. CASE MatchPushKickoff
  BY <1>6 DEF MatchPushKickoff, Push
<1>7. CASE MatchPushEndDrive
  BY <1>7 DEF MatchPushEndDrive, Push
<1>8. CASE MatchPushTeamTurn
  BY <1>8 DEF MatchPushTeamTurn, Push
<1>9. CASE MatchNextDrive
  BY <1>9 DEF MatchNextDrive
<1>10. CASE MatchSecondHalf
  BY <1>10 DEF MatchSecondHalf, SecondHalfKicker
<1>11. CASE MatchOver
  BY <1>11 DEF MatchOver
<1>12. CASE KickTarget
  BY <1>12 DEF KickTarget
<1>13. CASE TimeOut
  BY <1>13 DEF TimeOut, KickoffLand
<1>14. CASE QuietEvent
  BY <1>14 DEF QuietEvent, KickoffLand
<1>15. CASE WindowEvent
  BY <1>15 DEF WindowEvent
<1>16. CASE WindowDone
  BY <1>16 DEF WindowDone, KickoffLand
<1>17. ASSUME NEW t \in Teams, BrilliantCoaching(t) PROVE Toss'
  BY <1>17 DEF BrilliantCoaching, KickoffLand
<1>18. CASE ChargeEvent
  BY <1>18 DEF ChargeEvent
<1>19. CASE ChargeActivate
  BY <1>19 DEF ChargeActivate
<1>20. CASE ChargeEnd
  BY <1>20 DEF ChargeEnd, HandBack, KickoffLand
<1>21. CASE KickoffSettle
  BY <1>21 DEF KickoffSettle, Pop, Push
<1>22. CASE Touchback
  BY <1>22 DEF Touchback, Pop, Push
<1>23. CASE TurnStart
  BY <1>23 DEF TurnStart
<1>24. CASE Activate
  BY <1>24 DEF Activate
<1>25. CASE EndTurn
  BY <1>25 DEF EndTurn
<1>26. CASE TurnEnd
  BY <1>26 DEF TurnEnd, Pop, Push
<1>27. CASE MakeTurnover
  BY <1>27 DEF MakeTurnover, Running
<1>28. CASE PlayEnds
  BY <1>28 DEF PlayEnds, Running
<1>29. CASE Touchdown
  BY <1>29 DEF Touchdown, Pop, Push, TouchdownMarkers
<1>30. CASE EndDrive
  BY <1>30 DEF EndDrive, Pop, Push
<1>31. ASSUME NEW t \in Teams, SpendReroll(t) PROVE Toss'
  BY <1>31 DEF SpendReroll, Running
<1>32. ASSUME NEW t \in Teams, LoseLeader(t) PROVE Toss'
  BY <1>32 DEF LoseLeader, Running
<1>33. ASSUME NEW t \in Teams, CheckTd(t) PROVE Toss'
  BY <1>33 DEF CheckTd, Running
<1>34. CASE UNCHANGED vars
  BY <1>34 DEF vars
<1> QED
  BY <1>1, <1>2, <1>3, <1>4, <1>5, <1>6, <1>7, <1>8, <1>9, <1>10, <1>11,
     <1>12, <1>13, <1>14, <1>15, <1>16, <1>17, <1>18, <1>19, <1>20, <1>21,
     <1>22, <1>23, <1>24, <1>25, <1>26, <1>27, <1>28, <1>29, <1>30, <1>31,
     <1>32, <1>33, <1>34 DEF Next, Finished

(* Outside a Charge! the kick-off runs under the receiving team, and the   *)
(* turnover latch is down whenever nobody is playing.                      *)
LEMMA LatchStep ==
  ASSUME IndInv, [Next]_vars
  PROVE  LatchesScoped'
<1> USE OtherTeam DEF IndInv, TypeOK, Procs, Control, LatchesScoped, OnTop
<1>1. CASE MatchPushPregame
  BY <1>1 DEF MatchPushPregame, Push
<1>2. CASE PregameToss
  BY <1>2 DEF PregameToss
<1>3. CASE PregameChoose
  BY <1>3 DEF PregameChoose, Pop, Push
<1>4. CASE MatchPushSetup
  BY <1>4 DEF MatchPushSetup, Push
<1>5. CASE SetupDone
  BY <1>5 DEF SetupDone, Pop, Push
<1>6. CASE MatchPushKickoff
  BY <1>6 DEF MatchPushKickoff, Push
<1>7. CASE MatchPushEndDrive
  BY <1>7 DEF MatchPushEndDrive, Push
<1>8. CASE MatchPushTeamTurn
  BY <1>8 DEF MatchPushTeamTurn, Push, NextTeam
<1>9. CASE MatchNextDrive
  BY <1>9 DEF MatchNextDrive
<1>10. CASE MatchSecondHalf
  BY <1>10 DEF MatchSecondHalf
<1>11. CASE MatchOver
  BY <1>11 DEF MatchOver
<1>12. CASE KickTarget
  BY <1>12 DEF KickTarget
<1>13. CASE TimeOut
  BY <1>13 DEF TimeOut, KickoffLand
<1>14. CASE QuietEvent
  BY <1>14 DEF QuietEvent, KickoffLand
<1>15. CASE WindowEvent
  BY <1>15 DEF WindowEvent
<1>16. CASE WindowDone
  BY <1>16 DEF WindowDone, KickoffLand
<1>17. ASSUME NEW t \in Teams, BrilliantCoaching(t) PROVE LatchesScoped'
  BY <1>17 DEF BrilliantCoaching, KickoffLand
<1>18. CASE ChargeEvent
  BY <1>18 DEF ChargeEvent
<1>19. CASE ChargeActivate
  BY <1>19 DEF ChargeActivate
<1>20. CASE ChargeEnd
  BY <1>20 DEF ChargeEnd, HandBack, KickoffLand
<1>21. CASE KickoffSettle
  BY <1>21 DEF KickoffSettle, Pop, Push
<1>22. CASE Touchback
  BY <1>22 DEF Touchback, Pop, Push
<1>23. CASE TurnStart
  BY <1>23 DEF TurnStart
<1>24. CASE Activate
  BY <1>24 DEF Activate
<1>25. CASE EndTurn
  BY <1>25 DEF EndTurn
<1>26. CASE TurnEnd
  BY <1>26 DEF TurnEnd, Pop, Push
<1>27. CASE MakeTurnover
  <2>1. \/ proc = "TEAM_TURN" /\ phase > 0 /\ active = owner
        \/ proc = "KICKOFF" /\ phase = 7
    BY <1>27 DEF MakeTurnover, Running
  <2> QED
    BY <1>27, <2>1 DEF MakeTurnover
<1>28. CASE PlayEnds
  BY <1>28 DEF PlayEnds, Running
<1>29. CASE Touchdown
  BY <1>29 DEF Touchdown, Pop, Push
<1>30. CASE EndDrive
  BY <1>30 DEF EndDrive, Pop, Push
<1>31. ASSUME NEW t \in Teams, SpendReroll(t) PROVE LatchesScoped'
  BY <1>31 DEF SpendReroll, Running
<1>32. ASSUME NEW t \in Teams, LoseLeader(t) PROVE LatchesScoped'
  BY <1>32 DEF LoseLeader, Running
<1>33. ASSUME NEW t \in Teams, CheckTd(t) PROVE LatchesScoped'
  BY <1>33 DEF CheckTd, Running
<1>34. CASE UNCHANGED vars
  BY <1>34 DEF vars
<1> QED
  BY <1>1, <1>2, <1>3, <1>4, <1>5, <1>6, <1>7, <1>8, <1>9, <1>10, <1>11,
     <1>12, <1>13, <1>14, <1>15, <1>16, <1>17, <1>18, <1>19, <1>20, <1>21,
     <1>22, <1>23, <1>24, <1>25, <1>26, <1>27, <1>28, <1>29, <1>30, <1>31,
     <1>32, <1>33, <1>34 DEF Next, Finished

(* While a drive runs, the pool is what the team brought plus what it      *)
(* earned less what it spent, and the drive counter is what it earned and  *)
(* has not spent.                                                          *)
LEMMA PoolsStep ==
  ASSUME IndInv, [Next]_vars
  PROVE  Pools'
<1> USE TypeStep, OtherTeam, RerollsStartAssumption DEF IndInv, TypeOK, Procs, Control, Pools,
       Unspent, BeforeKick, DriveRuns, Overspent, OnTop
<1>1. CASE MatchPushPregame
  BY <1>1 DEF MatchPushPregame, Push
<1>2. CASE PregameToss
  BY <1>2 DEF PregameToss, WithLeader
<1>3. CASE PregameChoose
  BY <1>3 DEF PregameChoose, Pop, Push
<1>4. CASE MatchPushSetup
  BY <1>4 DEF MatchPushSetup, Push
<1>5. CASE SetupDone
  BY <1>5 DEF SetupDone, Pop, Push
<1>6. CASE MatchPushKickoff
  BY <1>6 DEF MatchPushKickoff, Push
<1>7. CASE MatchPushEndDrive
  BY <1>7 DEF MatchPushEndDrive, Push
<1>8. CASE MatchPushTeamTurn
  BY <1>8 DEF MatchPushTeamTurn, Push
<1>9. CASE MatchNextDrive
  BY <1>9 DEF MatchNextDrive
<1>10. CASE MatchSecondHalf
  BY <1>10 DEF MatchSecondHalf, WithLeader
<1>11. CASE MatchOver
  BY <1>11 DEF MatchOver
<1>12. CASE KickTarget
  BY <1>12 DEF KickTarget
<1>13. CASE TimeOut
  BY <1>13 DEF TimeOut, KickoffLand
<1>14. CASE QuietEvent
  BY <1>14 DEF QuietEvent, KickoffLand
<1>15. CASE WindowEvent
  BY <1>15 DEF WindowEvent
<1>16. CASE WindowDone
  BY <1>16 DEF WindowDone, KickoffLand
<1>17. ASSUME NEW t \in Teams, BrilliantCoaching(t) PROVE Pools'
  BY <1>17 DEF BrilliantCoaching, KickoffLand
<1>18. CASE ChargeEvent
  BY <1>18 DEF ChargeEvent
<1>19. CASE ChargeActivate
  BY <1>19 DEF ChargeActivate
<1>20. CASE ChargeEnd
  BY <1>20 DEF ChargeEnd, HandBack, KickoffLand
<1>21. CASE KickoffSettle
  BY <1>21 DEF KickoffSettle, Pop, Push
<1>22. CASE Touchback
  BY <1>22 DEF Touchback, Pop, Push
<1>23. CASE TurnStart
  BY <1>23 DEF TurnStart
<1>24. CASE Activate
  BY <1>24 DEF Activate
<1>25. CASE EndTurn
  BY <1>25 DEF EndTurn
<1>26. CASE TurnEnd
  BY <1>26 DEF TurnEnd, Pop, Push
<1>27. CASE MakeTurnover
  BY <1>27 DEF MakeTurnover, Running
<1>28. CASE PlayEnds
  BY <1>28 DEF PlayEnds, Running
<1>29. CASE Touchdown
  BY <1>29 DEF Touchdown, Pop, Push
<1>30. CASE EndDrive
  BY <1>30 DEF EndDrive, Pop, Push, Expiring
<1>31. ASSUME NEW t \in Teams, SpendReroll(t) PROVE Pools'
  <2>1. rerolls[t] > 0 /\ rerolls' = [rerolls EXCEPT ![t] = @ - 1]
    BY <1>31 DEF SpendReroll, TeamRerollAvailable
  <2>2. DriveRuns /\ DriveRuns' /\ ~BeforeKick' /\ mphase' = 3 /\ mphase = 3
    BY <1>31 DEF SpendReroll, Running
  <2>3. ASSUME NEW s \in Teams
        PROVE  /\ rerolls'[s] = carried'[s] + earned'[s] - spent'[s]
               /\ bonus'[s] = Unspent(s)'
    BY <1>31, <2>2 DEF SpendReroll
  <2> QED
    BY <2>2, <2>3
<1>32. ASSUME NEW t \in Teams, LoseLeader(t) PROVE Pools'
  BY <1>32 DEF LoseLeader, Running
<1>33. ASSUME NEW t \in Teams, CheckTd(t) PROVE Pools'
  BY <1>33 DEF CheckTd, Running
<1>34. CASE UNCHANGED vars
  BY <1>34 DEF vars
<1> QED
  BY <1>1, <1>2, <1>3, <1>4, <1>5, <1>6, <1>7, <1>8, <1>9, <1>10, <1>11,
     <1>12, <1>13, <1>14, <1>15, <1>16, <1>17, <1>18, <1>19, <1>20, <1>21,
     <1>22, <1>23, <1>24, <1>25, <1>26, <1>27, <1>28, <1>29, <1>30, <1>31,
     <1>32, <1>33, <1>34 DEF Next, Finished

(* A turn is booked when it ends, by turn_end or by a touchdown, and only  *)
(* then.                                                                   *)
LEMMA BookedStep ==
  ASSUME IndInv, [Next]_vars
  PROVE  TurnsBooked'
<1> USE TypeStep, OtherTeam DEF IndInv, TypeOK, Procs, Control, LatchesScoped,
       TurnsBooked, InTurn, OnTop
<1>1. CASE MatchPushPregame
  BY <1>1 DEF MatchPushPregame, Push
<1>2. CASE PregameToss
  BY <1>2 DEF PregameToss
<1>3. CASE PregameChoose
  BY <1>3 DEF PregameChoose, Pop, Push
<1>4. CASE MatchPushSetup
  BY <1>4 DEF MatchPushSetup, Push
<1>5. CASE SetupDone
  BY <1>5 DEF SetupDone, Pop, Push
<1>6. CASE MatchPushKickoff
  BY <1>6 DEF MatchPushKickoff, Push
<1>7. CASE MatchPushEndDrive
  BY <1>7 DEF MatchPushEndDrive, Push
<1>8. CASE MatchPushTeamTurn
  BY <1>8 DEF MatchPushTeamTurn, Push
<1>9. CASE MatchNextDrive
  BY <1>9 DEF MatchNextDrive
<1>10. CASE MatchSecondHalf
  BY <1>10 DEF MatchSecondHalf
<1>11. CASE MatchOver
  BY <1>11 DEF MatchOver
<1>12. CASE KickTarget
  BY <1>12 DEF KickTarget
<1>13. CASE TimeOut
  BY <1>13 DEF TimeOut, KickoffLand
<1>14. CASE QuietEvent
  BY <1>14 DEF QuietEvent, KickoffLand
<1>15. CASE WindowEvent
  BY <1>15 DEF WindowEvent
<1>16. CASE WindowDone
  BY <1>16 DEF WindowDone, KickoffLand
<1>17. ASSUME NEW t \in Teams, BrilliantCoaching(t) PROVE TurnsBooked'
  BY <1>17 DEF BrilliantCoaching, KickoffLand
<1>18. CASE ChargeEvent
  BY <1>18 DEF ChargeEvent
<1>19. CASE ChargeActivate
  BY <1>19 DEF ChargeActivate
<1>20. CASE ChargeEnd
  BY <1>20 DEF ChargeEnd, HandBack, KickoffLand
<1>21. CASE KickoffSettle
  BY <1>21 DEF KickoffSettle, Pop, Push
<1>22. CASE Touchback
  BY <1>22 DEF Touchback, Pop, Push
<1>23. CASE TurnStart
  BY <1>23 DEF TurnStart
<1>24. CASE Activate
  BY <1>24 DEF Activate
<1>25. CASE EndTurn
  BY <1>25 DEF EndTurn
<1>26. CASE TurnEnd
  BY <1>26 DEF TurnEnd, Pop, Push
<1>27. CASE MakeTurnover
  BY <1>27 DEF MakeTurnover, Running
<1>28. CASE PlayEnds
  BY <1>28 DEF PlayEnds, Running
<1>29. CASE Touchdown
  BY <1>29 DEF Touchdown, Pop, Push, BookedTeam, GiftTurn
<1>30. CASE EndDrive
  BY <1>30 DEF EndDrive, Pop, Push
<1>31. ASSUME NEW t \in Teams, SpendReroll(t) PROVE TurnsBooked'
  BY <1>31 DEF SpendReroll, Running
<1>32. ASSUME NEW t \in Teams, LoseLeader(t) PROVE TurnsBooked'
  BY <1>32 DEF LoseLeader, Running
<1>33. ASSUME NEW t \in Teams, CheckTd(t) PROVE TurnsBooked'
  BY <1>33 DEF CheckTd, Running
<1>34. CASE UNCHANGED vars
  BY <1>34 DEF vars
<1> QED
  BY <1>1, <1>2, <1>3, <1>4, <1>5, <1>6, <1>7, <1>8, <1>9, <1>10, <1>11,
     <1>12, <1>13, <1>14, <1>15, <1>16, <1>17, <1>18, <1>19, <1>20, <1>21,
     <1>22, <1>23, <1>24, <1>25, <1>26, <1>27, <1>28, <1>29, <1>30, <1>31,
     <1>32, <1>33, <1>34 DEF Next, Finished

(* Between drives the kicking team is level or a turn ahead, between turns *)
(* the team to move is level or a turn behind: a Time-Out keeps the        *)
(* distance, a touchdown in the other team's turn exactly makes up for the *)
(* turn that is skipped, and one during the kick-off moves the marker by   *)
(* the turn it adds to the allowance.                                      *)
LEMMA ClockStep ==
  ASSUME IndInv, [Next]_vars
  PROVE  Clock'
<1> USE TypeStep, TurnsPerHalfAssumption, TimeOutFromAssumption 
    DEF IndInv, TypeOK, Procs, Control, LatchesScoped, Clock, InStep, Ahead, Other,
        BetweenTurns, HalfOver, OnTop
<1>1. CASE MatchPushPregame
  BY <1>1 DEF MatchPushPregame, Push
<1>2. CASE PregameToss
  BY <1>2 DEF PregameToss
<1>3. CASE PregameChoose
  BY <1>3 DEF PregameChoose, Pop, Push, Toss, BeforeToss
<1>4. CASE MatchPushSetup
  BY <1>4 DEF MatchPushSetup, Push
<1>5. CASE SetupDone
  BY <1>5 DEF SetupDone, Pop, Push
<1>6. CASE MatchPushKickoff
  BY <1>6 DEF MatchPushKickoff, Push
<1>7. CASE MatchPushEndDrive
  BY <1>7 DEF MatchPushEndDrive, Push
<1>8. CASE MatchPushTeamTurn
  BY <1>8 DEF MatchPushTeamTurn, Push, NextTeam
<1>9. CASE MatchNextDrive
  BY <1>9 DEF MatchNextDrive
<1>10. CASE MatchSecondHalf
  BY <1>10 DEF MatchSecondHalf, SecondHalfKicker
<1>11. CASE MatchOver
  BY <1>11 DEF MatchOver
<1>12. CASE KickTarget
  BY <1>12 DEF KickTarget
<1>13. CASE TimeOut
  <2>0. InStep(kicking, 0, 1) /\ owner = kicking /\ kicking' = kicking
    BY <1>13 DEF TimeOut
  <2>1. skipped' = skipped /\ proc' = "KICKOFF"
    BY <1>13 DEF TimeOut, KickoffLand
  <2>2. CASE turn[owner] >= TimeOutFrom
    <3>1. \A s \in Teams : turn'[s] = IF turn[s] > 0 THEN turn[s] - 1 ELSE 0
      BY <1>13, <2>2 DEF TimeOut, TimeOutMarkers
    <3> QED
      BY <2>0, <2>1, <2>2, <3>1
  <2>3. CASE turn[owner] < TimeOutFrom
    <3>1. \A s \in Teams : turn'[s] = turn[s] + 1
      BY <1>13, <2>3 DEF TimeOut, TimeOutMarkers
    <3> QED
      BY <2>0, <2>1, <2>3, <3>1
  <2> QED
    BY <1>13, <2>2, <2>3 DEF TimeOut
<1>14. CASE QuietEvent
  BY <1>14 DEF QuietEvent, KickoffLand
<1>15. CASE WindowEvent
  BY <1>15 DEF WindowEvent
<1>16. CASE WindowDone
  BY <1>16 DEF WindowDone, KickoffLand
<1>17. ASSUME NEW t \in Teams, BrilliantCoaching(t) PROVE Clock'
  BY <1>17 DEF BrilliantCoaching, KickoffLand
<1>18. CASE ChargeEvent
  BY <1>18 DEF ChargeEvent
<1>19. CASE ChargeActivate
  BY <1>19 DEF ChargeActivate
<1>20. CASE ChargeEnd
  BY <1>20 DEF ChargeEnd, HandBack, KickoffLand
<1>21. CASE KickoffSettle
  BY <1>21 DEF KickoffSettle, Pop, Push
<1>22. CASE Touchback
  BY <1>22 DEF Touchback, Pop, Push
<1>23. CASE TurnStart
  BY <1>23 DEF TurnStart
<1>24. CASE Activate
  BY <1>24 DEF Activate
<1>25. CASE EndTurn
  BY <1>25 DEF EndTurn
<1>26. CASE TurnEnd
  BY <1>26 DEF TurnEnd, Pop, Push
<1>27. CASE MakeTurnover
  BY <1>27 DEF MakeTurnover, Running
<1>28. CASE PlayEnds
  BY <1>28 DEF PlayEnds, Running
<1>29. CASE Touchdown
  <2>1. scorer \in Teams /\ turn' = TouchdownMarkers
    BY <1>29 DEF Touchdown
  <2>2. proc' = "MATCH" /\ td' /\ kicking' = scorer
    BY <1>29 DEF Touchdown, Pop, Push
  <2>3. CASE proc = "TEAM_TURN"
    <3>1. active = owner /\ InStep(owner, 0, 1) /\ skipped' = skipped
      BY <1>29, <2>3 DEF Touchdown
    <3>2. \A s \in Teams : turn'[s] <= TurnsPerHalf + skipped'[s]
      BY <2>1, <2>3, <3>1 DEF TouchdownMarkers
    <3>3. InStep(kicking, 0, 1)'
      BY <2>1, <2>2, <2>3, <3>1 DEF TouchdownMarkers
    <3> QED
      BY <2>2, <3>2, <3>3
  <2>4. CASE proc = "KICKOFF"
    <3>1. scorer = owner /\ active # scorer /\ InStep(scorer, 0, 1)
      BY <1>29, <2>4 DEF Touchdown
    <3>2. skipped' = [skipped EXCEPT ![scorer] =
                        IF turn[scorer] < TurnsPerHalf THEN @ + 1 ELSE @]
      BY <1>29, <2>4 DEF Touchdown, GiftTurn
    <3>3. turn' = [turn EXCEPT ![scorer] = IF @ < TurnsPerHalf THEN @ + 1 ELSE @]
      BY <2>1, <3>1 DEF TouchdownMarkers
    <3>4. \A s \in Teams : turn'[s] <= TurnsPerHalf + skipped'[s]
      BY <2>1, <3>2, <3>3
    <3>5. InStep(kicking, 0, 1)'
      BY <2>1, <2>2, <3>1, <3>2, <3>3
    <3> QED
      BY <2>2, <3>4, <3>5
  <2> QED
    BY <1>29, <2>3, <2>4 DEF Touchdown
<1>30. CASE EndDrive
  BY <1>30 DEF EndDrive, Pop, Push
<1>31. ASSUME NEW t \in Teams, SpendReroll(t) PROVE Clock'
  BY <1>31 DEF SpendReroll, Running
<1>32. ASSUME NEW t \in Teams, LoseLeader(t) PROVE Clock'
  BY <1>32 DEF LoseLeader, Running
<1>33. ASSUME NEW t \in Teams, CheckTd(t) PROVE Clock'
  BY <1>33 DEF CheckTd, Running
<1>34. CASE UNCHANGED vars
  BY <1>34 DEF vars
<1> QED
  BY <1>1, <1>2, <1>3, <1>4, <1>5, <1>6, <1>7, <1>8, <1>9, <1>10, <1>11,
     <1>12, <1>13, <1>14, <1>15, <1>16, <1>17, <1>18, <1>19, <1>20, <1>21,
     <1>22, <1>23, <1>24, <1>25, <1>26, <1>27, <1>28, <1>29, <1>30, <1>31,
     <1>32, <1>33, <1>34 DEF Next, Finished

(* A team turn is only ever started by MATCH.                              *)
LEMMA OnlyMatchStartsTurns ==
  ASSUME [Next]_vars, proc = "MATCH", proc' = "TEAM_TURN"
  PROVE  MatchPushTeamTurn
<1> USE DEF OnTop
<1>1. CASE MatchPushPregame
  BY <1>1 DEF MatchPushPregame, Push
<1>2. CASE PregameToss
  BY <1>2 DEF PregameToss
<1>3. CASE PregameChoose
  BY <1>3 DEF PregameChoose, Pop, Push
<1>4. CASE MatchPushSetup
  BY <1>4 DEF MatchPushSetup, Push
<1>5. CASE SetupDone
  BY <1>5 DEF SetupDone, Pop, Push
<1>6. CASE MatchPushKickoff
  BY <1>6 DEF MatchPushKickoff, Push
<1>7. CASE MatchPushEndDrive
  BY <1>7 DEF MatchPushEndDrive, Push
<1>8. CASE MatchPushTeamTurn
  BY <1>8
<1>9. CASE MatchNextDrive
  BY <1>9 DEF MatchNextDrive
<1>10. CASE MatchSecondHalf
  BY <1>10 DEF MatchSecondHalf
<1>11. CASE MatchOver
  BY <1>11 DEF MatchOver
<1>12. CASE KickTarget
  BY <1>12 DEF KickTarget
<1>13. CASE TimeOut
  BY <1>13 DEF TimeOut, KickoffLand
<1>14. CASE QuietEvent
  BY <1>14 DEF QuietEvent, KickoffLand
<1>15. CASE WindowEvent
  BY <1>15 DEF WindowEvent
<1>16. CASE WindowDone
  BY <1>16 DEF WindowDone, KickoffLand
<1>17. ASSUME NEW t \in Teams, BrilliantCoaching(t) PROVE MatchPushTeamTurn
  BY <1>17 DEF BrilliantCoaching, KickoffLand
<1>18. CASE ChargeEvent
  BY <1>18 DEF ChargeEvent
<1>19. CASE ChargeActivate
  BY <1>19 DEF ChargeActivate
<1>20. CASE ChargeEnd
  BY <1>20 DEF ChargeEnd, HandBack, KickoffLand
<1>21. CASE KickoffSettle
  BY <1>21 DEF KickoffSettle, Pop, Push
<1>22. CASE Touchback
  BY <1>22 DEF Touchback, Pop, Push
<1>23. CASE TurnStart
  BY <1>23 DEF TurnStart
<1>24. CASE Activate
  BY <1>24 DEF Activate
<1>25. CASE EndTurn
  BY <1>25 DEF EndTurn
<1>26. CASE TurnEnd
  BY <1>26 DEF TurnEnd, Pop, Push
<1>27. CASE MakeTurnover
  BY <1>27 DEF MakeTurnover
<1>28. CASE PlayEnds
  BY <1>28 DEF PlayEnds
<1>29. CASE Touchdown
  BY <1>29 DEF Touchdown, Pop, Push
<1>30. CASE EndDrive
  BY <1>30 DEF EndDrive, Pop, Push
<1>31. ASSUME NEW t \in Teams, SpendReroll(t) PROVE MatchPushTeamTurn
  BY <1>31 DEF SpendReroll
<1>32. ASSUME NEW t \in Teams, LoseLeader(t) PROVE MatchPushTeamTurn
  BY <1>32 DEF LoseLeader
<1>33. ASSUME NEW t \in Teams, CheckTd(t) PROVE MatchPushTeamTurn
  BY <1>33 DEF CheckTd
<1>34. CASE UNCHANGED vars
  BY <1>34 DEF vars
<1> QED
  BY <1>1, <1>2, <1>3, <1>4, <1>5, <1>6, <1>7, <1>8, <1>9, <1>10, <1>11,
     <1>12, <1>13, <1>14, <1>15, <1>16, <1>17, <1>18, <1>19, <1>20, <1>21,
     <1>22, <1>23, <1>24, <1>25, <1>26, <1>27, <1>28, <1>29, <1>30, <1>31,
     <1>32, <1>33, <1>34 DEF Next, Finished

(* Only SpendReroll counts a re-roll as spent (MatchPushSetup resets the   *)
(* count).                                                                 *)
LEMMA OnlySpendRerollSpends ==
  ASSUME IndInv, [Next]_vars
  PROVE  NoSpending \/ (\E s \in Teams : SpendReroll(s))
<1> USE DEF IndInv, TypeOK, Pools, NoSpending
<1>1. CASE MatchPushPregame
  BY <1>1 DEF MatchPushPregame, Push
<1>2. CASE PregameToss
  BY <1>2 DEF PregameToss
<1>3. CASE PregameChoose
  BY <1>3 DEF PregameChoose, Pop, Push
<1>4. CASE MatchPushSetup
  BY <1>4 DEF MatchPushSetup, Push
<1>5. CASE SetupDone
  BY <1>5 DEF SetupDone, Pop, Push
<1>6. CASE MatchPushKickoff
  BY <1>6 DEF MatchPushKickoff, Push
<1>7. CASE MatchPushEndDrive
  BY <1>7 DEF MatchPushEndDrive, Push
<1>8. CASE MatchPushTeamTurn
  BY <1>8 DEF MatchPushTeamTurn, Push
<1>9. CASE MatchNextDrive
  BY <1>9 DEF MatchNextDrive
<1>10. CASE MatchSecondHalf
  BY <1>10 DEF MatchSecondHalf
<1>11. CASE MatchOver
  BY <1>11 DEF MatchOver
<1>12. CASE KickTarget
  BY <1>12 DEF KickTarget
<1>13. CASE TimeOut
  BY <1>13 DEF TimeOut, KickoffLand
<1>14. CASE QuietEvent
  BY <1>14 DEF QuietEvent, KickoffLand
<1>15. CASE WindowEvent
  BY <1>15 DEF WindowEvent
<1>16. CASE WindowDone
  BY <1>16 DEF WindowDone, KickoffLand
<1>17. ASSUME NEW t \in Teams, BrilliantCoaching(t) PROVE NoSpending \/ (\E s \in Teams : SpendReroll(s))
  BY <1>17 DEF BrilliantCoaching, KickoffLand
<1>18. CASE ChargeEvent
  BY <1>18 DEF ChargeEvent
<1>19. CASE ChargeActivate
  BY <1>19 DEF ChargeActivate
<1>20. CASE ChargeEnd
  BY <1>20 DEF ChargeEnd, HandBack, KickoffLand
<1>21. CASE KickoffSettle
  BY <1>21 DEF KickoffSettle, Pop, Push
<1>22. CASE Touchback
  BY <1>22 DEF Touchback, Pop, Push
<1>23. CASE TurnStart
  BY <1>23 DEF TurnStart
<1>24. CASE Activate
  BY <1>24 DEF Activate
<1>25. CASE EndTurn
  BY <1>25 DEF EndTurn
<1>26. CASE TurnEnd
  BY <1>26 DEF TurnEnd, Pop, Push
<1>27. CASE MakeTurnover
  BY <1>27 DEF MakeTurnover
<1>28. CASE PlayEnds
  BY <1>28 DEF PlayEnds
<1>29. CASE Touchdown
  BY <1>29 DEF Touchdown, Pop, Push
<1>30. CASE EndDrive
  BY <1>30 DEF EndDrive, Pop, Push
<1>31. ASSUME NEW t \in Teams, SpendReroll(t) PROVE NoSpending \/ (\E s \in Teams : SpendReroll(s))
  BY <1>31
<1>32. ASSUME NEW t \in Teams, LoseLeader(t) PROVE NoSpending \/ (\E s \in Teams : SpendReroll(s))
  BY <1>32 DEF LoseLeader
<1>33. ASSUME NEW t \in Teams, CheckTd(t) PROVE NoSpending \/ (\E s \in Teams : SpendReroll(s))
  BY <1>33 DEF CheckTd
<1>34. CASE UNCHANGED vars
  BY <1>34 DEF vars
<1> QED
  BY <1>1, <1>2, <1>3, <1>4, <1>5, <1>6, <1>7, <1>8, <1>9, <1>10, <1>11,
     <1>12, <1>13, <1>14, <1>15, <1>16, <1>17, <1>18, <1>19, <1>20, <1>21,
     <1>22, <1>23, <1>24, <1>25, <1>26, <1>27, <1>28, <1>29, <1>30, <1>31,
     <1>32, <1>33, <1>34 DEF Next, Finished

(* Every step of the driver is a step of the abstract cycle of drives, or  *)
(* leaves it alone.                                                        *)
LEMMA RefineStep ==
  ASSUME IndInv, [Next]_vars
  PROVE  Cycle!Next \/ UNCHANGED Cycle!vars
<1> USE TypeStep, ControlStep, OtherTeam 
    DEF IndInv, TypeOK, Procs, Control, Toss, BeforeToss, OnTop, Stage, Cycle!vars
<1>1. CASE MatchPushPregame
  BY <1>1 DEF MatchPushPregame, Push
<1>2. CASE PregameToss
  BY <1>2 DEF PregameToss
<1>3. CASE PregameChoose
  BY <1>3 DEF PregameChoose, Pop, Push, Cycle!Next, Cycle!Toss, Cycle!Teams
<1>4. CASE MatchPushSetup
  BY <1>4 DEF MatchPushSetup, Push
<1>5. CASE SetupDone
  BY <1>5 DEF SetupDone, Pop, Push
<1>6. CASE MatchPushKickoff
  BY <1>6 DEF MatchPushKickoff, Push, Cycle!Next, Cycle!KickOff
<1>7. CASE MatchPushEndDrive
  BY <1>7 DEF MatchPushEndDrive, Push, Cycle!Next, Cycle!TimeRunsOut
<1>8. CASE MatchPushTeamTurn
  BY <1>8 DEF MatchPushTeamTurn, Push
<1>9. CASE MatchNextDrive
  BY <1>9 DEF MatchNextDrive, Cycle!Next, Cycle!NextDrive
<1>10. CASE MatchSecondHalf
  BY <1>10 DEF MatchSecondHalf, SecondHalfKicker, Other, Cycle!Next, Cycle!SecondHalf
<1>11. CASE MatchOver
  BY <1>11 DEF MatchOver, Cycle!Next, Cycle!FinalWhistle
<1>12. CASE KickTarget
  BY <1>12 DEF KickTarget
<1>13. CASE TimeOut
  BY <1>13 DEF TimeOut, KickoffLand
<1>14. CASE QuietEvent
  BY <1>14 DEF QuietEvent, KickoffLand
<1>15. CASE WindowEvent
  BY <1>15 DEF WindowEvent
<1>16. CASE WindowDone
  BY <1>16 DEF WindowDone, KickoffLand
<1>17. ASSUME NEW t \in Teams, BrilliantCoaching(t) PROVE Cycle!Next \/ UNCHANGED Cycle!vars
  BY <1>17 DEF BrilliantCoaching, KickoffLand
<1>18. CASE ChargeEvent
  BY <1>18 DEF ChargeEvent
<1>19. CASE ChargeActivate
  BY <1>19 DEF ChargeActivate
<1>20. CASE ChargeEnd
  BY <1>20 DEF ChargeEnd, HandBack, KickoffLand
<1>21. CASE KickoffSettle
  BY <1>21 DEF KickoffSettle, Pop, Push, Cycle!Next, Cycle!Play
<1>22. CASE Touchback
  BY <1>22 DEF Touchback, Pop, Push, Cycle!Next, Cycle!Play
<1>23. CASE TurnStart
  BY <1>23 DEF TurnStart
<1>24. CASE Activate
  BY <1>24 DEF Activate
<1>25. CASE EndTurn
  BY <1>25 DEF EndTurn
<1>26. CASE TurnEnd
  BY <1>26 DEF TurnEnd, Pop, Push
<1>27. CASE MakeTurnover
  BY <1>27 DEF MakeTurnover, Running
<1>28. CASE PlayEnds
  BY <1>28 DEF PlayEnds, Running
<1>29. CASE Touchdown
  <2>1. scorer \in Teams /\ Stage \in {"kickoff", "play"}
    BY <1>29 DEF Touchdown
  <2>2. Stage' = "cleanup"
    BY <1>29 DEF Touchdown, Pop, Push
  <2>3. scored' = TRUE /\ kicking' = scorer /\ half' = half /\ opener' = opener
    BY <1>29 DEF Touchdown
  <2>4. score' = [score EXCEPT ![scorer] = @ + 1]
    BY <1>29 DEF Touchdown
  <2>5. Cycle!Score(scorer)
    BY <2>1, <2>2, <2>3, <2>4, Zenon DEF Cycle!Score
  <2> QED
    BY <2>1, <2>5 DEF Cycle!Next, Cycle!Teams
<1>30. CASE EndDrive
  BY <1>30 DEF EndDrive, Pop, Push
<1>31. ASSUME NEW t \in Teams, SpendReroll(t) PROVE Cycle!Next \/ UNCHANGED Cycle!vars
  BY <1>31 DEF SpendReroll, Running
<1>32. ASSUME NEW t \in Teams, LoseLeader(t) PROVE Cycle!Next \/ UNCHANGED Cycle!vars
  BY <1>32 DEF LoseLeader, Running
<1>33. ASSUME NEW t \in Teams, CheckTd(t) PROVE Cycle!Next \/ UNCHANGED Cycle!vars
  BY <1>33 DEF CheckTd, Running
<1>34. CASE UNCHANGED vars
  BY <1>34 DEF vars
<1> QED
  BY <1>1, <1>2, <1>3, <1>4, <1>5, <1>6, <1>7, <1>8, <1>9, <1>10, <1>11,
     <1>12, <1>13, <1>14, <1>15, <1>16, <1>17, <1>18, <1>19, <1>20, <1>21,
     <1>22, <1>23, <1>24, <1>25, <1>26, <1>27, <1>28, <1>29, <1>30, <1>31,
     <1>32, <1>33, <1>34 DEF Next, Finished

(* The match starts in the invariant.                                      *)
LEMMA InitInv == Init => IndInv
<1> SUFFICES ASSUME Init PROVE IndInv
  OBVIOUS
<1> USE RerollsStartAssumption, LeaderTeamsAssumption, TurnsPerHalfAssumption DEF Init
<1>1. TypeOK
  <2>1. over \in BOOLEAN /\ td \in BOOLEAN /\ turnover \in BOOLEAN
    BY Zenon
  <2>2. scored \in BOOLEAN /\ picked \in BOOLEAN
    BY Zenon
  <2> QED
    BY <2>1, <2>2 DEF TypeOK, Procs
<1>2. Control
  BY DEF Control
<1>3. Toss
  BY DEF Toss, BeforeToss
<1>4. LatchesScoped
  BY DEF LatchesScoped
<1>5. Pools
  BY DEF Pools, BeforeKick, DriveRuns
<1>6. Clock
  BY DEF Clock, InStep, Ahead, Other, BetweenTurns
<1>7. TurnsBooked
  BY DEF TurnsBooked, InTurn
<1> QED
  BY <1>1, <1>2, <1>3, <1>4, <1>5, <1>6, <1>7 DEF IndInv

(* IndInv holds throughout every match.                                    *)
THEOREM Invariance == Spec => []IndInv
<1>1. IndInv /\ [Next]_vars => IndInv'
  BY TypeStep, ControlStep, TossStep, LatchStep, PoolsStep, ClockStep, BookedStep
     DEF IndInv
<1> QED
  BY InitInv, <1>1, PTL DEF Spec

(* Throughout every match the variables have their types.                  *)
THEOREM TypeCorrect == Spec => []TypeOK
BY Invariance, PTL DEF IndInv

(* The turn markers stay in step for every length of the half: turn_start, *)
(* the Time-Out event and touchdowns in the other team's turn never move   *)
(* them further apart than one turn, and never past the last one, except   *)
(* by the turns that touchdowns during a kick-off take from their scorers. *)
THEOREM ClockKept == Spec => []ClockInStep
<1>1. IndInv => ClockInStep
  BY DEF IndInv, Control, Clock, ClockInStep, BetweenTurns
<1> QED
  BY Invariance, <1>1, PTL

(* The team latch and the turnover latch never leak from a Charge! or a    *)
(* finished turn into what follows.                                        *)
THEOREM LatchesKept == Spec => []LatchesScoped
BY Invariance, PTL DEF IndInv

(* Whatever a drive gives and takes, END_DRIVE leaves every team its own   *)
(* re-rolls less those it spent beyond what the drive gave.                *)
THEOREM PoolsKept == Spec => []OwnPoolKept
<1>1. IndInv => OwnPoolKept
  BY DEF IndInv, TypeOK, Procs, Control, Pools, Unspent, Overspent, DriveRuns, OwnPoolKept
<1> QED
  BY Invariance, <1>1, PTL

(* Every team turn is booked exactly once, however it ends, and nothing    *)
(* else is booked but one turn for each touchdown during a kick-off.       *)
THEOREM EachTurnBookedOnce == Spec => []TurnsBooked
BY Invariance, PTL DEF IndInv

(* MATCH hands a turn over to the other team only when a kick-off touchdown*)
(* has cost the team to move a turn of this half: otherwise no team plays  *)
(* two turns running within a drive.                                       *)
THEOREM TurnsNeverDouble == Spec => TurnsAlternate
<1>1. IndInv /\ [Next]_vars =>
        [proc = "MATCH" /\ proc' = "TEAM_TURN" => owner' = active \/ skipped[active] > 0]_vars
  <2> SUFFICES ASSUME IndInv, Next, proc = "MATCH", proc' = "TEAM_TURN",
                      ~(skipped[active] > 0)
               PROVE  owner' = active
    BY DEF vars
  <2>1. MatchPushTeamTurn
    BY OnlyMatchStartsTurns
  <2>2. active \in Teams /\ turn \in [Teams -> Nat] /\ skipped \in [Teams -> Nat]
    BY DEF IndInv, TypeOK
  <2>3. turn[active] - turn[Other(active)] <= 0 /\ turn[active] <= TurnsPerHalf
    BY <2>1, <2>2, TurnsPerHalfAssumption
       DEF MatchPushTeamTurn, OnTop, IndInv, Clock, InStep, Ahead, Other, BetweenTurns
  <2>4. turn[active] < TurnsPerHalf
    BY <2>1, <2>2, <2>3, TurnsPerHalfAssumption DEF MatchPushTeamTurn, HalfOver, Other
  <2> QED
    BY <2>1, <2>2, <2>4, TurnsPerHalfAssumption DEF MatchPushTeamTurn, Push, NextTeam
<1> QED
  BY Invariance, <1>1, PTL DEF Spec, TurnsAlternate

(* A team re-roll is spent only in the team's own turn or its own Charge!. *)
THEOREM RerollsOwn == Spec => RerollsInOwnTurn
<1>1. IndInv /\ [Next]_vars =>
        [\A t \in Teams : spent'[t] > spent[t] => OwnTurnOnly(t)]_vars
  <2> SUFFICES ASSUME IndInv, Next, NEW t \in Teams, spent'[t] > spent[t]
               PROVE  OwnTurnOnly(t)
    BY DEF vars
  <2>1. ASSUME NEW s \in Teams, SpendReroll(s) PROVE OwnTurnOnly(t)
    BY <2>1 DEF SpendReroll, Running, TeamRerollAvailable, OwnTurnOnly, IndInv, TypeOK,
       Procs, Control, LatchesScoped
  <2>2. \E s \in Teams : SpendReroll(s)
    BY OnlySpendRerollSpends, TypeStep DEF IndInv, TypeOK, NoSpending
  <2> QED
    BY <2>1, <2>2
<1> QED
  BY Invariance, <1>1, PTL DEF Spec, RerollsInOwnTurn

(* The driver implements the abstract cycle of drives.                     *)
THEOREM Refinement == Spec => RefinesDriveCycle
<1>1. Init => Cycle!Init
  BY DEF Init, Cycle!Init, Cycle!Teams, Stage
<1>2. IndInv /\ [Next]_vars => [Cycle!Next]_(Cycle!vars)
  BY RefineStep
<1> QED
  BY Invariance, <1>1, <1>2, PTL DEF Spec, RefinesDriveCycle, Cycle!Spec
=============================================================================
