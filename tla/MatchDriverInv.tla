--------------------------- MODULE MatchDriverInv ---------------------------
(***************************************************************************)
(* The inductive invariant of MatchDriver.  Its parts say which control    *)
(* states the stack can be in, where the clock, the latches and the        *)
(* re-roll pools stand in each of them, and what the history variables     *)
(* have recorded by then.                                                  *)
(***************************************************************************)
EXTENDS MatchDriver

(* The frames that can lie above MATCH in each of its phases, and what can  *)
(* run above them.                                                          *)
Control ==
  /\ proc = "MATCH" => play = "none"
  /\ proc = "PREGAME" => mphase = 1 /\ phase \in {0, 1} /\ play = "none"
  /\ proc = "SETUP" => mphase = 2 /\ owner = kicking /\ play = "none"
  /\ proc = "KICKOFF" => mphase = 3 /\ owner = kicking /\ ~td
  /\ proc = "TEAM_TURN" => mphase = 3 /\ phase \in {0, 1, 2} /\ ~td
  /\ proc = "TEAM_TURN" /\ phase > 0 => active = owner
  /\ proc = "END_DRIVE" => mphase = 4 /\ play = "none"
  /\ mphase = 0 => proc = "MATCH"
  /\ over => proc = "MATCH" /\ mphase = 4
  /\ td => mphase = 3 /\ scored
  /\ play = "landing" => proc = "KICKOFF" /\ phase = 3
  /\ play = "activation" => \/ proc = "TEAM_TURN" /\ phase \in {1, 2}
                            \/ proc = "KICKOFF" /\ phase = 7
  /\ play = "touchdown" => /\ scorer \in Teams
                           /\ \/ proc = "TEAM_TURN" /\ phase \in {1, 2}
                              \/ proc = "KICKOFF" /\ phase = 3 /\ scorer = owner

(* The toss: who opened the match, as MATCH remembers it and as it was.     *)
BeforeToss == mphase = 0 \/ proc = "PREGAME"

Toss ==
  /\ BeforeToss => /\ opener = NoTeam /\ h1 = NoTeam /\ half = 1 /\ kicking = 0
                   /\ ~scored /\ turn = [t \in Teams |-> 0]
                   /\ score = [t \in Teams |-> 0]
  /\ ~BeforeToss => opener \in Teams
  /\ mphase \in {2, 3, 4} => h1 = opener
  /\ mphase = 1 /\ ~BeforeToss => h1 = opener \/ (h1 = NoTeam /\ kicking = opener)
  /\ mphase = 4 => scored \/ HalfOver

(* The drive's own re-rolls: those earned and not spent, counted apart from *)
(* the pool until END_DRIVE has taken them out of it.                       *)
Unspent(t) == IF earned[t] > spent[t] THEN earned[t] - spent[t] ELSE 0
BeforeKick ==
  \/ proc \in {"MATCH", "SETUP"} /\ mphase = 2
  \/ proc = "KICKOFF" /\ phase \in {0, 1}
DriveRuns == mphase \in {2, 3} \/ (mphase = 4 /\ proc = "END_DRIVE")

Pools ==
  \A t \in Teams :
    /\ mphase \in {0, 1} => bonus[t] = 0
    /\ BeforeKick => earned[t] = 0 /\ spent[t] = 0
    /\ DriveRuns => /\ rerolls[t] = carried[t] + earned[t] - spent[t]
                    /\ bonus[t] = Unspent(t)
    /\ mphase = 4 /\ proc = "MATCH" => /\ rerolls[t] = carried[t] - Overspent(t)
                                       /\ bonus[t] = 0

(* The clock in every control state: between drives it is the kicking team  *)
(* that may be a turn ahead, and nobody starts a turn past the last.        *)
BetweenTurns == proc = "MATCH" /\ mphase = 3 /\ ~td

Clock ==
  /\ \A t \in Teams : turn[t] <= TurnsPerHalf + skipped[t]
  /\ proc = "TEAM_TURN" /\ phase = 0 =>
       InStep(owner, -1, 0) /\ turn[owner] < TurnsPerHalf
  /\ proc = "TEAM_TURN" /\ phase > 0 =>
       InStep(owner, 0, 1) /\ turn[owner] <= TurnsPerHalf
  /\ BetweenTurns => InStep(active, -1, 0)
  /\ proc # "TEAM_TURN" /\ ~BetweenTurns => InStep(kicking, 0, 1)

IndInv ==
  TypeOK /\ Control /\ Toss /\ LatchesScoped /\ Pools /\ Clock /\ TurnsBooked
=============================================================================
