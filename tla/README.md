# Verification of bloodbowl-rl

This project models in TLA+ the core of `engine/`, the deterministic C11 rules
engine of bloodbowl-rl, what the training environment around it does with the
engine's state, and the two programs that keep long training campaigns running:
the experiment queue and the campaign supervisor. It checks the models with TLC
on small instances and proves with TLAPS the main results about the match
driver, the team turn, the ball and its carrier on the pitch, the environment's rewards, the
experiment queue and the campaign supervisor. Paths are relative to the repository root;
`proc_match.c` and the like are in `engine/src/`, `bloodbowl.h` is
`puffer/bloodbowl/bloodbowl.h`.

## 1. The system

The engine is a machine with an explicit stack of procedures
(`bb_match.stack`, 32 frames). A frame has a procedure id, a phase, three
one-byte parameters `a b x y` and 16 bits of data. `bb_advance`
(`bb_match.c:430`) calls the `advance` handler of the top frame until some
handler asks a coach for a decision. `bb_apply` gives the coach's action to the
`apply` handler of the top frame and goes on advancing. Dice are drawn inside
the handlers from `bb_rng`. A handler may pop itself, push children, truncate
the stack (a touchdown does) and write any field of the match: there is no
other discipline than the order of the calls. The hard part of the engine is
therefore not threads but *latches*: a field set by one procedure for another,
cleared by a third, with any number of procedures in between. A touchdown, a
turnover or the end of a drive can cut a procedure short at almost any point.
Next to the procedures, the engine and the environment read the same rules a
second time without playing them (reachability, block odds, step odds, masks):
there the hard part is that two readings must agree.

Around the engine, `tools/` has programs that start trainers on one machine
with one GPU and must survive crashes, reboots and signals. The experiment
queue owns the jobs it runs; the campaign supervisor only starts stages and
looks whether they are done. There the hard part is concurrency: what was
started outlives who started it.

| Component | State it keeps | Operations | Talks to |
|---|---|---|---|
| Match driver: MATCH, PREGAME, SETUP order, END_DRIVE, TOUCHDOWN (`proc_match.c`) | half, turn markers, score, `kicking_team`, `active_team`, `MD_TD`, `MD_H1_KICKER`, `turns_completed`, re-roll pools | coin toss, next turn, next drive, half-time, end of match | pushes every other frame; TOUCHDOWN truncates them |
| Setup and kick-off (`proc_match.c:150-940`) | SETUP frame with its budget; KICKOFF frame: event, Charge! budget and picked players | placement, autofix; target, deviation, eleven events, touchback | ACTIVATION (Charge!), CATCH and SCATTER |
| Team turn (`proc_turn.c:10-216`) | `turnover`, once-per-turn latches, `BB_PF_USED`, stun ageing | start of turn, choice of a player, end of turn, stalling, Pick-Me-Up | MATCH, ACTIVATION |
| Activation (`proc_turn.c:218-715`) | declared action, gate window, `BB_PF_ACTIVATING`, distracted, rooted | declaration, negatrait gates, Animal Savagery, Animosity | MOVE, BLOCK, TTM, KNOCKDOWN |
| Test and re-roll window (`proc_test.c`) | TEST frame, `m->ret`, `skill_rr_used` | roll, skill / team / Pro re-roll, Loner | pools of the driver |
| Movement (`proc_move.c`) | `moved`, `rushes`, MOVE bits | steps, dodges, rushes, pick-up, standing up, special actions | TEST, BLOCK, PASS, HANDOFF, FOUL, SCATTER |
| Ball (`proc_ball.c`, `bb_match.c:240-267`) | `ball`, `BB_PF_HAS_BALL` | bounce, throw-in, catch, pass, interception, hand-off | TEST, TOUCHDOWN, `turnover` |
| Block, push, knockdown, injury, foul (`proc_block.c`) | BLOCK, PUSH, KNOCKDOWN, INJURY, CASUALTY frames | dice window, pushes, armour, injury, send-off | ball, TOUCHDOWN, Leader re-roll |
| Throw Team-mate (`proc_ttm.c`) | TTM frame | flight, landing, crash | KNOCKDOWN, ball |
| Reachability (`bb_reachability.c`) and block odds (`bb_blockev.c`) | none: they read a match, or replay on a copy | squares in reach, score without dice, threat to the carrier, lines of a block | stalling, rewards, observation |
| RL environment (`bloodbowl.h`) | cached search and plan, masks and heads, potentials, possession, reward ledgers | reset, step, planned walks, decoding, settlement | `bb_apply`, `bb_apply_trusted`, `bb_advance` |
| Experiment queue (`tools/experiment_queue.py`) | state file: queue state, job states, digests of the artifacts; a lock on it | start, recover, launch, watch, validate, publish | jobs and validators as process groups, systemd |
| Campaign supervisor (`tools/campaign_supervisor.py`) | state file: attempts of each stage, halt; a lock on it | one tick: probe, launch, count, halt | launchers and trainers, through `pgrep` and the artifacts |
| Stream backend (`stream_backend/`), web client | followed checkpoint, sessions | follow, serve, decode | engine, files |
| Training, validation, analysis tools | files | batch jobs | RL environment |

What makes each component correct:

* *Driver*: turns alternate; both teams get the same number of turns; the clock
  never runs past the half; each turn is booked once; the second half is
  kicked off by the right side; re-rolls brought by a drive go with it and no
  others do; the match ends.
* *Setup and kick-off*: every formation is legal, however it came about; a
  kick-off ends with the ball in play in the right half or in the right hands.
* *Turn and activation*: each player acts at most once; each once-per-turn
  action is available again next turn; after a turnover nobody else acts; a
  stunned player misses exactly one turn; the turn ends.
* *Ball*: one carrier at most, and flag, carrier and square agree; a turn is
  lost exactly when the ball is; a standing carrier in the end zone scores.
* *Block and its children*: a block, a second one included, is thrown by a
  standing player at his standing neighbour; whoever is carried off is left
  alone by the blows still to come; the stack stays within its frames.
* *Re-roll window*: the parent reads the result of its own test.
* *Second readings*: what is foreseen of a step, a path, a block or a mask is
  what the procedures then do.
* *Environment*: what is played unasked is legal; a pick is played as what it
  meant; gains and losses of the ball pair up; shaping telescopes; the ledgers
  of what was paid agree.
* *Experiment queue*: jobs run in order; one that is not safe to resume runs
  once, whatever crashes; what counts as complete was validated, with the
  inputs the plan pins, and is still what was validated at the end; no process
  is left behind; the queue settles.
* *Campaign supervisor*: no stage is started more often than its cap; a halt is
  final; the campaign settles.

The hazards, each with the line where it bites and the property that would
catch it, are in `PROJECT.json`.

## 2. The modules

| Module | Models | Role |
|---|---|---|
| `DriveCycle` | the promise of the match: toss, then drives of setup, kick-off, play and cleanup, in two halves | abstract specification |
| `MatchDriver` | MATCH and the frame above it: clock, score, latches, re-roll pools | detailed specification, implements `DriveCycle` |
| `MatchDriverInv`, `MatchDriver_proofs` | the inductive invariant, by named parts; theorems and proofs | TLC, TLAPS |
| `TeamTurn` | TEAM_TURN, ACTIVATION and Charge! with the flags and stances of the players over many turns and drives | detailed specification |
| `TeamTurn_proofs` | the inductive invariant of turns and activations; theorems and proofs | TLAPS |
| `Pitch` | `bb_match` as one record: stack, board, ball, tackle zones, assists (`bb_match.c`, `bb_skills.c`) | operators |
| `TestProc` | TEST and its re-roll window | actions on `m` |
| `BallProcs` | SCATTER, THROW_IN, CATCH, PASS, HANDOFF | actions on `m` |
| `BlockProcs` | BLOCK, PUSH, KNOCKDOWN, ARMOUR, INJURY, KO_RECOVERY, CASUALTY, FOUL | actions on `m` |
| `MoveProcs` | MOVE with every action it leads to | actions on `m` |
| `TtmProc` | TTM | actions on `m` |
| `KickoffProc` | SETUP with `setup_autofix`, KICKOFF | actions on `m` |
| `PitchPlay` | one activation, setup or kick-off: the union of the above, and its properties | specification |
| `PitchInv` | the two inductive invariants of the match record and its stack, by named parts | TLAPS |
| `PitchSteps_proofs`, `PitchPlay_proofs` | what the calls a handler makes do to the first (the ball and its copies); one lemma for each handler, and the theorems | TLAPS |
| `PitchCarry_proofs` | the same for the second (who has the ball stands; what is above a foul) | TLAPS |
| `Reach` | the searches of `bb_reachability.c` and what is read off them | operators |
| `BlockOdds` | the lines a block is priced at (`bb_blockev.c`) | operators |
| `Threat` | the forecast of a step and the threat to a carrier | operators, on `Reach` and `BlockOdds` |
| `Heads` | legal lists, their projection on three heads, support and decoding (`bloodbowl.h`) | operators, one property |
| `EnvMoves` | `c_step` between two decisions: masks, planned walks, cached searches | specification around `PitchPlay` |
| `RewardEnv` | `c_step` and the episode as book-keeping: possession, potentials, rewards, settlement, reset | detailed specification |
| `RewardEnv_proofs` | the inductive invariant of an episode; theorems and proofs | TLAPS |
| `JobQueue` | the promise of the queue: jobs in order, once, nothing after a halt | abstract specification |
| `ExperimentQueue` | the queue's runner, its children, the state file and what can kill them | detailed specification, implements `JobQueue` |
| `ExperimentQueueInv`, `ExperimentQueue_proofs` | the inductive invariant; theorems and proofs | TLAPS |
| `CampaignSupervisor` | ticks, launchers and trainers of a campaign | detailed specification |
| `CampaignSupervisor_proofs` | the inductive invariant of a tick; theorems and proofs | TLAPS |
| `MCMatchDriver`, `MCTeamTurn`, `MCPitch`, `MCRewardEnv`, `MCExperimentQueue`, `MCCampaignSupervisor` | instances | TLC |

`Pitch`, `TestProc`, `BallProcs`, `BlockProcs`, `MoveProcs`, `TtmProc`,
`KickoffProc`, `PitchPlay` extend one another in that order, as each procedure
pushes frames of those before it; `EnvMoves` extends `PitchPlay`, `Heads` and
`Threat`.

### MatchDriver

One action is one call of a handler. `mphase` is the phase of the MATCH frame;
`proc`, `phase`, `owner`, `left` describe the one frame it pushes above itself.
What lies above that frame is `play`: an activation, a ball that lands on the
kick-off, or a TOUCHDOWN. During an activation the model may lose the ball,
spend re-rolls through any of the three sites of the code (`proc_test.c:161`,
`proc_turn.c:570`, `proc_block.c:318`), lose a Leader to the casualty table
(`LoseLeader`) or score for either side, in any order. This is wider than what
one activation of the code can do, and all properties hold of it.

History variables (`opener`, `started`, `carried`, `earned`, `spent`, `scored`,
`gifts`, `skipped`) record what happened by rules of their own; properties
relate the code's fields to them.

A kick-off can end in a touchdown, of the kicking team. The receivers stand in the half
away from the end zone they score in, and a kick that comes down outside that half is
a touchback; but a Charge! activates kickers before the ball lands, in the
receiving half up to its end zone, and `catch_advance` looks for a touchdown there as
anywhere (`proc_ball.c:171`). `picked` is the KICKOFF frame's note of whom the
Charge! has activated, and with it set the landing of the kick may score for the
kickers (`CheckTd`). TOUCHDOWN then does what it does in a turn, though there is
none: it books a turn of the receivers and moves the scorers' marker one on
(`proc_match.c:949-961`). `gifts` counts these touchdowns against each team, and
`skipped` the turns of this half they have cost the teams that scored them.
`TurnsBooked` says that a team has as many turns booked as it has begun and ended,
and `gifts` more; `ClockInStep` that the markers are out of step, or past the last
turn (a Time-Out may push on a marker that such a touchdown has advanced), by
`skipped` at most and not at all without one.

`TimeOut`: the markers of both teams move together, back from `TimeOutFrom` on
and forward below it (`proc_match.c:469-477`).

### TeamTurn

`act` is the ACTIVATION frame with its phase (0 gates and declaration, 1
playing, 2 re-roll window of a gate, 3 the crowd's knock-down of a staller).
`play` is what the activation pushed. While `play = "move"`, the
actions of the section "Pitch" say what MOVE, BLOCK, FOUL, TTM and their
children can leave behind: movement, a fall with its armour result, placing
prone, an injury without a fall, leaving the pitch, a landing, a gaze, a
turnover. Each has the guard that the declared action and the player's trait
give it (`Contact`, `Assault`, `Savaged`). Squares and dice are abstracted; a
fall happens together with its armour and injury, since KNOCKDOWN runs to its
end before the frame under it does. A throw of a team-mate is one step
(`Throw`), because the frames it pushes resolve with no turn or activation
handler in between.

`cast` is drawn once for the match: each player has at most one reason for
losing an activation (Unchannelled Fury, Bone Head / Really Stupid, Take Root,
Animal Savagery, Bloodlust, Animosity), and it says who throws, kicks and
helps, which actions are declared, and how many a Charge! can activate.
History: `acted` counts activations of this turn (up to 2, which is enough to
tell one from more), `lost` remembers a turnover, `sat` counts the turns of his
team that a stunned player has missed.

### The pitch: Pitch to PitchPlay

`m` is `bb_match` as a record, and each operator returns the record a C
function leaves behind: `GiveBall(s, p)` is `bb_give_ball`. One action is one
call of `advance` or `apply` of the frame on top; `Runs(proc, phase)` and
`Asks(proc, phase)` are its guard. The stack is the code's, frame by frame.
Dice are their outcomes: a test passes or fails whatever its target, a block
die shows any face, a scatter goes any of the eight ways, armour breaks or not.
So the models have more behaviours than the code with its modifiers, and what
holds of them holds whatever the modifiers are. Distances stand for the pass
and throw ranges (`QuickD2`, `PassD2`, `ThrowD2`).

A run starts when an activation has declared its action (or SETUP or KICKOFF
has been pushed; `StartsAssumption` and `CarrierAssumption` say what such a state
is) and is over when ACTIVATION, TOUCHDOWN or MATCH is on top again: what those do is in `TeamTurn` and `MatchDriver`. `from` in the record
says how it started and is left alone by every handler.

### What is read ahead: Reach, BlockOdds, Threat, Heads

A path's price is one number, with weights far enough apart that comparing the
numbers is comparing the code's (dodges, rushes, length). `Walks` and `Strolls`
are the plain definitions (squares a player can walk to, and those he can walk
to without a die) that `ReadsAgree` compares the searches with. A probability
is abstracted to whether it is zero: a block is the set of its *lines*, a line
the set of things that happen on it; `BlockOdds!Watch` collects what a block
that is really played does, and `OddsHold` finds it among the lines of the faces
that came up. `Threat!Replay` walks a path on a copy of the match with
the forecast of each step, as `bb_carrier_threat_eval` does. `Heads` has the
legal lists of SETUP and KICKOFF in the engine's order, the three heads, the
masks' support and the decoding with its shortcut for placements.

### EnvMoves

`env` is the part of `Bloodbowl` read across handlers: the cached search, the
rest of the plan, whether the mask has been filled. The starts marked `macro`
are played through it: `FillMask`, then an exact answer or a `Route` to a square
further off, which the environment follows step by step (`Follow`) until one of
the conditions of `c_step` drops it (`Drop`). `sure`, `due` and `hit` remember
what the policy was told.

### RewardEnv

`g` is what the environment reads of the match; an engine step may change it in
any way the rules can between two decisions (`Advance`, `Incidents`). `e` is the
environment, with rewards in units of 1/`GammaDen` so that discounting is exact;
the history `h` keeps the discount so far as a fraction `num`/`den`, so that it
can follow the discounted sum through any number of steps in integers.
One action is one `c_step`: the pieces are applied in the code's order
(`Cleared`, `TouchbackPaid`, `TurnsPaid`, `TurnHooks`, `Accounted`) and the
episode is `Settled` and `Reset` when the match ends, errs or the decisions run
out. `c_reset` refuses a configuration that `bbe_validate_reward_config` does,
so `Init` has `ConfigValid`: no coefficient is worth more than `RewardUnit` (1.0),
exact shaping has no negative potential, and what the design may pay stays
within the trainer's clamp. `EnvAssumption` asks no more of the rewards than to be
numbers, and of the discount to be one. An episode starts before the kick-off or in one of a
`Bank` of stored matches (`demo`). The run's rewards have the signs and the relative
weights of the shipped configurations.

After the settlement an episode that began at a kick-off pays both sides the
same for its statistics, `-reward_statmatch_scale` times their distance from those of
human matches (`Matched`, `bloodbowl.h:3157-3206`). The distance (`Deviations`) is a
free choice up to `MaxDeviation`: nothing bounds it in the code. `bbe_finish_episode` adds it
before the emission is recorded, and the envelope (`bloodbowl.h:969-978`) has no
share for it, so `LastInEnvelope` is about the last reward without it.

### ExperimentQueue

`pc` is the place of the runner in `run_queue`, `at` its job. Everything it
writes to the state file goes through `atomic_json`, so the file (`queue`,
`job`, `digest`) changes in one step; what the runner has not written yet
(`noted`, `exit`, `seen`) is lost with it. `flock` on the state file leaves one
runner at a time. An exception that nobody handles ends the runner as a kill
does (`Crash`), except where a `finally` clause acts first (`PublishRaises`,
`Dying`).

A process group is a slot: its leader and, after it (`rest`), what it leaves
behind. It opens its artifact, writes it, may spoil that of an earlier job, and
ends when it likes. The groups and the runner interleave freely. An artifact's
content is one of a few values, of which a job's validator and pinned digest
accept some (`Accepts`); an artifact may be there before the queue starts.
The plan and the pinned files are one bit, `drift`, which never goes back.

The evidence (`completed_evidence_error`) is checked job by job, validator
first and digest second, with every process running in between; `seen` counts
these checks. A signal is an exception while a child is started or watched
and while a validator runs, and kills the runner elsewhere; `Signal` and
`SignalValidator` are those handlers. Inside `Popen` the runner does not know
its child yet, so an interrupt there halts the queue and leaves the child
alive; so does a second interrupt in the `finally` clause. `abandoned` counts
such children.

`Unit` is the shipped unit: `KillMode=control-group` takes every process down
with the runner, before the next one starts (`Sweep`). By hand nothing does.

### CampaignSupervisor

A tick is three steps: look for the first stage without its artifact, probe,
launch and then write the state. The lock makes ticks exclusive; a
killed tick (`Crash`) leaves what it launched, since the unit has
`KillMode=process`; a reboot leaves nothing. A launcher prepares, trains and
pauses between its arms, and `pgrep` sees it only while it trains. It may exit
as soon as it starts, as `tools/run_reward_ablation.sh` does when another one
holds its lock (500-505); its attempt is counted nevertheless, so that a campaign can
halt while its stage is still between two arms. That there is one trainer at a
time is up to that lock: the supervisor's probe alone does not exclude a second
one, whatever its docstring says, and the model, which knows no lock, has
no such property.

## 3. The runs

| Run | Bounds | Question and answer |
|---|---|---|
| `match` | 2 turns a half, scores to 2 and 1, one Time-Out, one team with a re-roll and the Leader | Are the markers in step, is every turn booked once, are a team's own re-rolls kept apart from the drive's and spent only in its own time, is the match the cycle of drives, and does it end? Yes, with one turn more booked, and the markers out of step by one at most, for each touchdown of a kick-off. |
| `turn` | 3 players, four casts: a brawl with gates, Bloodlust and Pick-Me-Up; Animosity over a pass; throws; and kicks of team-mates | Does everybody act once, are latches this turn's own, is a lost turn over, is a stun served, does each team turn end? Yes. |
| `turn_kick` | the throws, nobody with a trait | Is Kick Team-mate there again next turn? **No.** |
| `pitch` | 5x3 squares, 3 players a side, stack of 8, 72 starts with every die | Do the copies of the state agree after every handler, is no error met, is the ball lost only at the price of the turn (but for a Saboteur), is every carrier brought to the end zone seen to score and no ball left underfoot (but by the steps `NothingOpen` names), are blocks, formations and kick-offs as they should be, is each waiting frame woken by its own die, are a foul's doubles seen and no others, and is what was foreseen what is played? Yes. |
| `pitch_rise` | a slow prone player in a Block activation | Does he block a standing neighbour? **No.** |
| `pitch_ring` | one block on the whole pitch, eleven a side | Do the grid and the players' squares agree when a chain of pushes comes back to the player it began with? **No.** |
| `pitch_odds` | one blitz with Frenzy, no movement left | Is everything that happens on a priced line? **No.** |
| `env` | a pitch of 2 columns, 3 decisions, one incident, discount 1/2 | Do gains and losses pair up, does exact shaping telescope, do the ledgers agree, is the last reward, but for the statistics' share, within the clip envelope? Yes. |
| `queue_crash` | 2 jobs, the first safe to resume; 3 processes, 2 faults; no unit | Are jobs run in order and at most once unless safe, is what completes validated, is nothing left behind? Yes. |
| `queue_unit` | the same with the unit and 3 faults | Is there one job's group at a time, does a complete queue still have what it validated, does it settle? Yes. |
| `queue_interrupt` | no job safe to resume, 1 signal | Does an interrupted runner start nothing more? **No.** |
| `campaign_ticks` | 2 stages, cap 2, 3 launchers, 1 kill or reboot | Are attempts within the cap but for one per kill, is a halt final, does the campaign settle? Yes. |

Why the bounds are enough. The driver's counters only matter relative to one
one another and to the end of the half; with two turns a half a Time-Out can go
either way, and a drive can end by score or by the clock in either half. One team may
score twice, so that it can score from a kick-off and there is a drive after it: within
these bounds a marker passes the last turn, and MATCH gives a team two turns
running. The proofs are for any number. The pools need one own re-roll, one earned and one
lost Leader to be overspent; one team has them all. In `TeamTurn` the flags of
different players only meet in the active player, the one acted upon, and a
team-mate. The run goes on over any number of turns and drives, so flags that
survive a drive are found.

On the pitch a procedure looks at a square, its neighbours and the two beyond
them (a push chain); five by three squares have an edge with a crowd, both end
zones, a line of scrimmage and wide zones (`WideWid`), and room for a chain of
two. The quotas of a setup (`SideMax`, `LineMin`, `WideMax`, 11, 3 and 2 in the
code) and its budget (`SetupBudget`) are scaled down with the teams; `FarthestKick` is the
most a kick deviates (6), `CrashMax` the number of players a thrown one can
crash into in a row. A `StackMax` of 8 is what the deepest of these activations
needs above TEAM_TURN: `NeverErrs` shows the depth of the nesting, not that 32
frames are enough for any number of crashes. Each start of `MCPitch` gives a
player a few of the skills a procedure asks for; the starts are chosen so that
every disjunct of every procedure fires. An activation of several steps is cut
by giving the player little to move with (`Tired`, `Beat`, `Spent`).

In `RewardEnv` three decisions are the shortest episode in which the ball can be
won, lost and won again, with an emission before and one after the settlement;
a `StatmatchScale` of 1 and a `MaxDeviation` of 1 let the statistics cost something or nothing.
In `ExperimentQueue` a job matters to its successor by being complete and by
writing over its artifact, and a fault matters by what it leaves behind: two
jobs, one of them safe to resume, and two faults give a runner that recovers
while a process of the last one still writes, and is killed again. The proofs
hold for any number of either.

Deadlock is checked in every run: the end of a match or an activation stutters
explicitly.

### Fairness

`bb_advance` runs handlers until one needs a decision, and a coach (a policy or
a scripted bot) must answer with a legal action, so the next-state relation of
the driver and of the turn is weakly fair. In `TeamTurn` the end of an action
on the pitch (`MoveEnds`, `CrowdKnockdown`, `Touchdown`) is weakly fair too:
each decision of MOVE spends movement or the action. Nothing is assumed of dice: a coach may
stall for ever *within* the rules only by using up activations.
The queue's runner is started again until the queue has settled (the unit
restarts it on failure), runs (`monitor_process` polls, and `max_runtime` is
mandatory, so a watch ends), and systemd sweeps. The bound on faults is what
`Settles` needs: a runner that is killed every time never settles anything. The
supervisor's timer fires for ever; a probe finds no trainer again and
again, since every launcher ends (strong fairness of `Ends` and of the launch).
`Termination` needs that Time-Out comes up finitely often, which dice only
give with probability one; `MaxTimeOuts` says so in the model. The
specifications of the pitch and of the environment are checked for safety only
and state no fairness.

## 4. What is proved

`MatchDriver_proofs` proves, for every number of turns, threshold, pool, squad,
budget, set of Leaders and bound on score and Time-Outs (assumptions: those the
`ASSUME`s of `MatchDriver` name):

* `Invariance`: `Spec => []IndInv`.
* `TypeCorrect`, `ClockKept`, `LatchesKept`, `PoolsKept`, `EachTurnBookedOnce`:
  the invariants.
* `TurnsNeverDouble`, `RerollsOwn`: the action properties. The first is about MATCH's
  fallback to the other team (`proc_match.c:57-59`), which gives somebody two turns
  running: it is taken only if the team whose turn it was has scored from a
  kick-off in this half.
* `Refinement`: `Spec => Cycle!Spec`, the driver implements `DriveCycle`.

`ClockInStep` is not inductive: whether `TEAM_TURN` may start depends on
the markers as the last turn, a touchdown or a Time-Out left them. `IndInv`
adds the control states the stack can be in (`Control`), what the toss fixed
(`Toss`), the pools as functions of what was earned and spent (`Pools`) and the
clock in *every* control state (`Clock`). The heart of the argument: between
drives the kicking team is level or one turn ahead; between turns the team
`active` names is level or one turn behind; in a turn its owner is level or one
ahead. A touchdown inside a turn leaves the scorer as next kicker: if he scored
in his own turn he is level or one ahead, and if the other team was moving the
marker of the scorer is advanced to match. Each of these bounds has a slack, the
turns a team's own kick-off touchdowns have cost it (`InStep`): such a
touchdown moves one marker on out of turn and adds one to the slack of the team it belongs
to. Where a team has no slack its marker cannot have run out before the other's, so
MATCH's fallback is not taken and turns alternate.

`TeamTurn_proofs` proves, for two squads of any size, any traits and skills the
`ASSUME`s of `TeamTurn` allow and any budget of a Charge!:

* `TurnInvariance`: `Spec => []TurnInv`.
* `TurnTypeCorrect`, `NobodyActsTwice`, `LatchesAreOwn`: the invariants.
* `LostIsOver`, `StunIsServed`: the action properties.

`ActsOnce` and `OwnLatches` say what must hold of a turn's counts at its end, but
nothing of how they come about. `TurnInv` adds in which frames an activation can
be and that the player the crowd knocks down stands (`Framed`); that between a turn
or a Charge! and the next nothing is spent (`Afresh`), without which a
latch of the last turn would be taken for one of this; that whoever was activated
has his mark, or is the one being activated (`Marked`), which is what the guard
of the choice of a player reads; that the loss of the ball leaves `turnover` up
through every child that could put it down (`Over`); and which stance goes with
how many missed turns (`Sitting`). `StunServed` is about a step in which a stunned
player rises: by `Sitting` his count is 1 unless a landing or a healer put him up.

`RewardEnv_proofs` proves, for any rewards that pass the configuration check,
any discount from 0 to 1 and any length of an episode and of a plan:

* `EnvInvariance`: `Spec => []EnvInv`.
* `EnvTypeCorrect`, `PossessionsPaired`, `ShapingCancels`, `LedgersAlwaysAgree`,
  `LastWithinEnvelope`: the invariants.

Three of these properties speak of an episode that has just ended, when the
match has already been reset; before it ends nothing says that they will
hold. `EnvInv` carries the books through the episode: the
environment's baselines are those of the match it shows (`Current`); each team's
gains are at least its losses, plus one if it has the ball now and less one if it
had it at the start (`Paired`); return, ledger and components have the same sum
(`Agreed`); and the discounted shaping so far is the discounted potential of now
less that of the first step (`Shape`), so that the settlement, which pays the
potential back, cancels it. That what was paid last is within the envelope needs
the configuration check: without `SignValid` a potential of the exact form could be
negative, and what it pays lie outside. The statistics' share is not bounded by that
check and is not part of the claim. `Played`, `Told` and `Onward` in the module say what one `c_step` may do to match
and books; each piece of it is a lemma.

`ExperimentQueue_proofs` proves, for any number of jobs, processes and faults,
any set of jobs safe to resume and any contents the validators accept:

* `QueueInvariance`: `Spec => []QueueInv`.
* `QueueTypeCorrect`, `DriftVoids`, `NoProcessStrays`, `NeverTwoJobs`,
  `EvidenceStands`, `RecordsWereValid`: the invariants.
* `PromiseKept`: `Spec => Promise!Spec`, the queue implements `JobQueue`.

None of these is inductive. `QueueInv` says for each place of the runner what
the state file says of the jobs before, at and after it (`Ordered`); that a job
not safe to resume has left `pending` once it was started, which with the guard
at `experiment_queue.py:924` is why it is not started again (`Once`); that
under the unit, or without a kill, the child's is the only group (`Alone`); and
that what the checks of the evidence have established stays true, because then
nobody writes while they run (`Checked`).

By hand that last part is false: a process a killed runner left behind
writes while its successor checks. `EvidenceRecorded` holds all the same as long
as there is one such process, and `Traced` says why. There is one stray
(`OneStray`). It may replace contents after they were validated and before they
are digested (`Undigested`), so that the digest of a job can be one its validator
rejects (`Spoilt`); but a process only ever goes forward (`MayWrite`), so these
contents then stay where they are, and the validator's check of the evidence rejects them,
or can never come back, and the digest's check does (`Stuck`). With two strays one could
put the good contents in for the validator and the other the digested ones
for the digest. `Traced` was checked with TLC, with the rest of `QueueInv`, on the
instance of `queue_crash` before it was proved.

`CampaignSupervisor_proofs` proves, for any number of stages, attempts,
launchers and killed ticks:

* `TickInvariance`: `Spec => []TickInv`.
* `CampaignTypeCorrect`, `NeverOverCap`, `HaltIsFinal`: the types, the cap and
  the finality of a halt.

`CapKept` relates what was launched to the cap and to the kills, but a launch is
counted only by the write after it. `TickInv` therefore says that every launch
is counted but for one per kill and the one a tick is about to count
(`Budgeted`), that such a tick found the attempts below the cap, and that no
tick is under way after a halt (`HaltIsIdle`).

The last part of `PitchSteps_proofs` is about no specification: its subject is the
operators of `Pitch`. `HelpersKeepBoundary` says that giving, moving or
dropping the ball, placing a player with the ball he carries and taking one off
the pitch each keep `BoundaryValid`, on a pitch of any size and for any number of
players, in every record of the right shape (`Whole`). Its hypotheses are what the
code leaves to the callers: the square is free or the player's own
(`bb_place` does not look), he stands on the pitch when he is given the ball, and
he has no ball any more when he is removed
(`bb_remove_from_pitch` clears the flag but not `ball.carrier`). That the handlers
meet the first of them is what `GridKept` checks on the instances of the run
`pitch`. `GridKept` is no theorem: on a pitch as full as that of `pitch_ring`
the code breaks it. That they meet the others is `BallIsKept`.

`PitchPlay_proofs` proves, for a pitch of any size, any number of players with any
skills, any stack and any starts that `StartsAssumption` allows:

* `PitchInvHolds`: `Spec => []PitchInv`.
* `BallIsKept`: the invariant `BallKept`. The HAS_BALL flags, `ball.carrier` and
  the ball's square agree after every handler.
* `DieIsOwn`: the action property `OwnDie`. A frame that reads the answer to a
  die is woken by the TEST it pushed itself.

`BallAgrees` is not inductive. A handler gives the ball to the player its frame
names, and he must still be on the pitch when it does: a CATCH or a pick-up that
waits for its die, an interceptor. It takes a player off after he dropped the ball,
sometimes several handlers after: an apothecary is called to a player in an INJURY
frame's child, and if nobody saves him he goes, whoever has got the ball by
then. And every handler is free to push frames. So `PitchInv` describes every stack
the handlers can build: each frame has the parameters its procedure needs
(`FrameOk`), and at most one thing is waited for, at the top. Either nothing is open
and every frame rests (`Calm`); or a knocked-out player or a casualty is seen to,
who has not got the ball (`Nursing`); or a TEST is rolled for the frame below it
(`Testing`); or that frame has its answer (`Woken`), and the player the ball goes to is
still there, because nothing could happen in between (`Sees`). That is also why an
answer cannot go to another frame, `OwnDie`. Setups and kick-offs are different:
nobody has the ball until the kick comes down (`Hushed`), and from then on there
are only a few frames that can be above the KICKOFF (`Settles`); no bounce or catch
is under way while the coaches act in its windows.

The proof follows the code. `PitchSteps_proofs` has a lemma for each call the
handlers make: pushing, popping or rewriting a frame (`SteadyPush`, `SteadyPop`,
`DozeSetTop`), the calls on board and ball (`GiveBoard` to `LocBoard`), the turnover,
a decision asked for (`DecideStill`) or a test rolled (`TestStill`). Between two calls the
record is `Steady` (nothing waited for) or `Doze` (but for the handler's own frame),
or the status is an error, after which the board still agrees. `PitchPlay_proofs`
composes them, handler by handler (`KnockedDownStill` to `KickStill`). In between a
carrier has been moved and the ball not yet carried along: `Away` says what holds
there, and `Carry` or `DropBall` ends it. The proof needs no agreement of the
grid, which the ring of pushes breaks; a square the grid says is taken is only
looked up. `PitchInv` was checked with TLC on the instances of the run `pitch`
before it was proved.

`PitchCarry_proofs` proves, in the same generality, with `CarrierAssumption` (in a
match that is taken up whoever has the ball stands):

* `CarryInvHolds`: `Spec => []CarryInv`, and `CarriersStand`, the part of it a
  reader wants: nobody prone or stunned has the ball.
* `DoubleReachesFoul`: the action property `DoubleSeen`. FOUL learns of a double
  on its armour or injury roll from the return register, which every handler in
  between can write.
* `StackIsLayered`: no handler changes a frame below its own, and it pops at most
  its own.

That a carrier stands is not inductive either. A handler gives the ball to whom its
frame names, so he must still be standing when the die that decides it has
been rolled: `CarryInv` says so of every CATCH, interception and pick-up that waits (`Fit`).
Between a fall and the spill of the ball a carrier does lie on the ground, inside a
handler; `Holding(s, F)` allows it for the players in `F` and for nobody
once the handler ends. `CarriersStand` in turn is what makes `DoubleSeen` true: the
fouled player is not on his feet, hence has no ball, hence his injury spills
none; so no bounce and no catch, which rolls dice of its own, comes between the armour
roll and FOUL, and what is above FOUL is one frame of `Harms` (`FoulOk`). The
code relies on this without saying so. `Harms` is what FOUL's children can
be; ARMOUR, the first of them, writes the register anew and the others add to it or
leave it alone. `StackIsLayered`
is what lets FOUL and every other parent find its frame as it left it. `CarryInv`
was checked with TLC on the instances of the run `pitch` before it was proved.

Only model-checked:

* `Termination`, `TurnsEnd` and both `Settles`: liveness, out of the prover's
  reach.
* The other properties of `PitchPlay`. `GridKept`, `FairBlocks` and `RemovedStays`
  are not true of every board: a ring of pushes breaks the grid (`pitch_ring`) and
  can put a player back whom the crowd has just taken; a slow player who has not
  got up yet throws his second block from the ground (`pitch_rise`). `NeverErrs`
  depends on `StackMax` and on how long a chain of pushes and crashes can get.
  `PossessionPaid` needs, for every frame, whether it is still going to call the
  turnover; `NothingOpen` which frames a step into the end zone or onto the ball can
  leave behind. That is not written. `FormsUp` counts the players `setup_autofix` moves, by the ranks of
  players and free squares, which is induction over finite sets.
* Those of `EnvMoves` and `Heads` (`PicksDecode`). The searches and the replay of
  paths are defined by recursion on data, which puts what they compute for every
  board out of the prover's reach.

## 5. Findings

Each has a run that shows it.

1. `ktm_used` is never cleared (`proc_turn.c:21-26`): the first Kick Team-mate
   of a match is the last, for both teams. Run `turn_kick`.
2. A player of MA 1 or 2 who stands up in a Block activation blocks player 0
   (`proc_move.c:702`, `379-393`): the answer to his stand-up roll is taken for
   that of a Jump Up block. Run `pitch_rise`.
3. The odds of a blitz with Frenzy leave out the Rush for the second block
   (`bb_blockev.c:195`, `proc_block.c:703-716`). Run `pitch_odds`.
4. An interrupt while a validator looks at an artifact that is already there is
   taken for the validator's failure, and the job is launched
   (`experiment_queue.py:641`, `930-985`). Under the unit, stopping the service then starts
   the job, which is killed after `TimeoutStopSec`, and the next start halts the
   queue for good if the job is not safe to resume. Run `queue_interrupt`.
5. A chain of pushes may come back to the player who was hit. `push_advance`
   puts him on the square chosen for him all the same (`proc_block.c:564`), also
   when he has been surfed meanwhile, and the follow-up (`824`) puts the
   attacker on a square that may be taken: two players share it, and the grid
   knows one of them. Run `pitch_ring`, eight pushes by the side line. It was
   met while looking for the inductive invariant of the pitch.

Met while reading, modelled as the code has it, without a run of their own:

* Dump-Off is limited to once a block by nothing but the frame it is offered in:
  the latch is never set (`proc_block.c:164-166`).
* `push_advance` leaves by the crowd and by the knock-down, and pushes the rush of a
  Frenzy's second block, before it looks for a touchdown (`proc_block.c:659-693`): a
  carrier who follows up into the end zone over a surfed or fallen player, in a block of
  any kind, does not score there and then (`docs/audit-2026-08-20.md:206-208` lists it).
* Nor does a carrier who is taken there by Shadowing (`proc_move.c:95`) or Trickster
  (`proc_block.c:108`; the audit names both), a receiver in the end zone who is given
  a Dump-Off (`proc_block.c:155`, which calls `bb_give_ball` and nothing else), or
  one whom Steady Footing keeps on his feet after a failed rush or dodge there: the
  frame that moved him has left the looking to the knock-down (a bad landing does the
  same, `proc_ttm.c:174-191`). Each of these but the last has a start, and `NothingOpen` names them, and no other (`Overlooks`, `LooksAway`);
  none can be left out of it.
* A player may come to stand on the loose ball, and it does not bounce: one who
  follows up, lands after a throw (`proc_ttm.c:167`), tricks, shadows, hits and runs
  (`proc_move.c:885-895`), is kept on his feet by Steady Footing, or stands up where
  he lay on it. These, too, are named, one by one (`Overruns`).
* A touchdown of a kick-off, after a Charge!, books a turn that nobody played
  (`proc_match.c:943-961`; the comment at 947-952 takes what it unwinds for "this
  genuine boundary" of a turn) and advances a marker. MATCH may then give one team two
  turns running, and a Time-Out move the marker past the last turn.
* With `reward_statmatch_scale` above 0 the last emission can leave the envelope of the
  clip alarm by the statistics' share, which has no bound. The derivation says that
  `bbe_finish_episode` "rebuilds it as exactly reward = objective + bonus + kept_ball +
  kept_endzone" (`bloodbowl.h:924-927`), and `bbe_reward_envelope_valid` (998-1000)
  accepts the configuration.
* A blitzer with Saboteur and the ball who goes down in his own block may be knocked
  out before KNOCKDOWN gets to the turnover: the ball is lost and the turn goes on
  (`proc_block.c:855-868`). `PossessionPaid` names him as its one exception
  (`Sabotaged`), and one of the starts has him.
* A crashing team-mate pushes a KNOCKDOWN for each player he meets before any is
  resolved (`proc_ttm.c:150`); `CrashMax` bounds it here.
* A touchdown during a chain of blocks discards the pending injury and
  knock-down frames with the rest of the stack.
* A Solid Defence that ends in an illegal formation is repaired by
  `setup_autofix`, which may move players who were not selected.
* A Charge! activates players with the movement, rushes and skill re-rolls of
  their last turn (`proc_match.c:896`); a stunned player who is landed on
  becomes prone (`proc_block.c:868`); a rooted player who is stunned or placed
  prone without a knock-down stays rooted (`proc_block.c:1039`).
* A step of a No Ball player onto the ball is forecast as a pick-up test, but
  the engine makes it a sure turnover (`proc_move.c:112`).
* A plan is dropped at `MV_BLOCK_DONE` for every kind of action
  (`bloodbowl.h:3699`), so that a blitzer's walk after his block is one step
  long, which the comment at 3686-3688 does not say.
* The skill re-rolls of the carrier threat look for Tackle beside the square the
  player is on now, at every step of his path (`bb_reachability.c:284-296`).
* A rooted defender with the ball is priced as one who can be stripped by a push
  (`bb_blockev.c`, `strip_fires`).
* The search keeps one way to a square, the one with the fewest dodges: a long
  way round without a dodge can hide squares that a short one with a dodge still
  reaches, so that `bb_min_access_cost` may miss an access of one roll
  (`bb_reachability.h:26-28`).
* A player who comes back from the KO box in the step in which another is hurt
  cancels him out in the injury reward (`bloodbowl.h:3948`).
* An episode that ends for want of a legal action pays back the potential of
  the step before it (`Stuck`); `ShapingTelescopes` leaves it out.

## 6. The plan

1. `MatchDriver`, `DriveCycle`, with proofs (done).
2. `TeamTurn`, with proofs (done).
3. The pitch, `Pitch` to `PitchPlay`, with the readings and `EnvMoves` (done,
   with the helpers on board and ball and `BallKept` proved; what an
   activation owes at its end is next).
4. `ExperimentQueue` with `JobQueue`, `CampaignSupervisor`, both with proofs (done).
5. `RewardEnv`, with proofs (done).
6. `TeamTurn` shown to implement the turn part of `MatchDriver` by a refinement
   mapping.
7. The stream backend's follower, after the above.

`TeamTurn`, `PitchPlay`, `RewardEnv` and `CampaignSupervisor` state a `TypeOK`
that no run lists; it holds on the instances of their runs. All but that of
`PitchPlay` are proved.

## 7. Not modelled

* The one throw and the one kick of a team-mate that `proc_turn.c:437-458` allows in a
  Charge! are not on squares: `KickoffProc` has its moves and blitzes. `TeamTurn` has all
  of them, and `PitchPlay` throws and kicks in a turn.
* Dice modifiers, and with them most of the skill registry (`skills_*.c`): a
  test may come out either way. Numbers of the odds: only what is possible.
* KO recovery between drives, inducements, weather but for its Gust.
* A whole team turn on squares, and eleven players a side: the state space of a
  single activation of four players on fifteen squares, with three squares to go, is
  over a hundred thousand.
* The observation encoding, telemetry, episode logs and the choice of a start in
  the environment; scripted bots, rendering.
* The grammar of a queue's plan and the thresholds of its guards: their verdicts
  are free choices. People who edit the artifacts of a running queue.
* Generated tables, procedural rosters, replay files, the stream backend and web
  client, numerical training, validation and analysis scripts: they hold no
  state that a protocol of this code could corrupt, or are pure I/O.

`PROJECT.json` lists every component with its status and reason.
