# TLA+ models of the ASNets learner and its planners

This directory holds specifications of the learner in `src/asnets` and of the
planning software that it runs: Fast Downward's search engines
(`src/downward`), the SSiPP planners (`src/ssipp-solver`), and the MDPSim library
and server (`src/mdpsim`). TLC checks them on small instances; the theorems are
proved with TLAPS for all of them. Paths below are relative to the repository;
those without a directory are under `src/asnets/asnets/`.

1. [The system](#the-system)
2. [What is modelled where](#what-is-modelled-where)
3. [What the runs check](#what-the-runs-check)
4. [Fairness](#fairness)
5. [What is proved](#what-is-proved)
6. [Disagreements with the code](#disagreements-with-the-code)
7. [What is only model-checked, and what is not modelled](#what-is-only-model-checked-and-what-is-not-modelled)
8. [Plan](#plan)

Run `tlc -config X.cfg M` for the pairs in the table of section 3, and `tlapm M.tla`
for the modules whose name ends in `Proofs`.

## The system

The repository learns a generalised policy for a planning domain from a handful
of problems. A network (an action schema network) is trained to imitate a
teacher, normally Fast Downward, on the states that the network's own rollouts
and the teacher's plans visit.

    run_learning.py (main_inner)           one process: curriculum and retries
      |  run_asnets_local: one training run at a time
      +-- run_asnets.py                    the child, one process
      |     |-- SupervisedTrainer          the epoch loop; writes snapshots and DK
      |     +-- ProblemServer, one process per problem
      |           +-- ProblemService       rollouts, labels, replay buffer
      |                 |-- MDPSim library         parses and simulates the problem
      |                 |-- FDTeacher
      |                 |     +-- FDQValueCache
      |                 |           +-- Fast Downward, one process per query
      |                 +-- SSiPPTeacher, in its place
      |                       +-- SSiPP planners, in the same process
      +-- tee, tee                         copy the child's output to files

    mdpserver                              a simulator of its own, a thread per client
      +-- MDPSim library
      ^ XML over a socket
    mdpclient, one process per problem set

| Component | State it keeps | Operations | What makes it correct |
|---|---|---|---|
| FD teacher's cache (`interfaces/fd_interface.py`) | cost and action per state, states on which FD timed out | queries, Q-values, envelopes | entries of different plans fit together; nothing untrue of a state is cached; FD is not asked twice |
| FD teacher (`teacher.py`) | the cache, per problem | labels, plan envelopes | labels come from entries that are right for the state |
| SSiPP teacher (`teacher.py`) | a planner, a blacklist, cached Q-values | labels, envelopes, under a deadline | Q-values are close to the truth; a time-out leaves the planner usable |
| Problem service (`supervised.py`) | memoized experience, replay buffer | `extend_replay` | every visited state gets its label; labels lead to the goal and stay true while the cache changes |
| Trainer (`supervised.py`) | weights, best rate, epoch counters | the epoch loop, snapshots | the kept policy is the best one; training ends in time |
| Training run (`scripts/run_learning.py`, `scripts/run_asnets.py`) | processes, stdout file, snapshot directory | start, wait, stop, collect | nothing of a run survives it; the snapshot returned is whole |
| Learning driver (`scripts/run_learning.py`) | lists of problems, tolerence, DK | curriculum, retry, publish | no problem is lost; DK holds what was learnt; it ends |
| Fast Downward (`src/downward`) | open list, nodes with parents, plan files | expand, reopen, extract, save | a plan is a plan; 'unsolvable' is true; files only improve |
| SSiPP planners (`src/ssipp-solver`) | values, solved labels, short-sighted spaces | trials, checkSolved, rounds | values are lower bounds; what is labelled solved has converged |
| MDPSim library (`src/mdpsim`) | ground actions, goal, the state | instantiate, build the maps, sample | it simulates what the files say |
| MDPSim server (`src/mdpsim`) | sessions, the reader's bracket, `last_id` | session, round and turn protocol | identifiers are unique, limits hold, only enabled actions |
| Problem servers (`multiprob.py`) | process, socket, connection | start, connect, stop | one connected server per problem; none is left behind |
| Planning driver (`scripts/run_planning.py`) | time left, plan files | evaluate, write the plan | a written plan is valid |

The smaller parts (translator, heuristics, network, scripts) are listed with
their status in `PROJECT.json`.

How they interact. The driver talks to the child through its command line, its
stdout, which it reads back from the file that `tee` writes, and the file system:
the snapshot directory and the DK file, which both of them write. The child calls
its problem servers over a Unix socket (RPyC); one call runs at a time in a
service, which is single-threaded. The service calls the teacher and the MDPSim
library directly; the FD teacher starts Fast Downward in a process of its own and
waits for it. The SSiPP planners share one hash of values, whoever solves.
The server's threads share the process: the reader of messages and the counter
of identifiers.

What is hard. In the *driver*: five processes, any of which may die, sharing
files that are written in place, with a clean-up that stops them in a fixed
order. In the *service and its teacher*: no concurrency, but three layers of
caches (experience per state, cost and action per state, time-outs per state)
over a planner that is not optimal and answers differently from state to state;
a value is used in one layer long after another has replaced it below. The
network decides which states are visited in which order, so no test fixes that
order. In the *trainer*: which epoch 'best' refers to when the success rate goes
up and down, and problems that have no data. In *Fast Downward's engines*: entries of
the open list outlive what they say of a state, parents are rewritten while
descendants keep their g values, and three kinds of cost meet in one bound. In
*SSiPP*: values and labels are written while the very trials that read them go
on, a label promises something of states whose values change later, and an exception of
the clock may leave any of this half done. In the *MDPSim library*: static predicates are
simplified away before it is known what can be reached. In the *server*: threads that
share state nobody locks. The hazards, at the line where each
one bites, with the properties that watch over them, are in `PROJECT.json`.

## What is modelled where

| Module | Models | Builds on |
|---|---|---|
| `FDQValueCache` | `FDQValueCache` and the run of Fast Downward behind it | |
| `ProblemService` | `extend_replay`, `planner_trace`, `opt_pol_experience`, `collect_paths`, the target of the loss | `FDQValueCache` |
| `RunLocal` | `run_asnets_local` and its four processes | |
| `LearnDriver` | `main_inner` | `RunLocal` |
| `Curriculum` | abstract specification of the learner | |
| `SupervisedTrainer` | the epoch loop of the child | `RunLocal`, whose child it implements |
| `SearchTask`, `OpenLists`, `SearchSpace` | the task, open lists, nodes and what engines have in common | |
| `EagerSearch`, `LazySearch`, `HillClimbing` | the engines | `SearchSpace` |
| `IteratedSearch` | portfolios of engines, plan files | the engines |
| `AnytimePlanner` | abstract specification of a planner that writes plans | |
| `Bellman`, `ShortSighted`, `LRTDP` | SSPs and the hash of values; their short-sighted parts; LRTDP and VI | |
| `SSiPP` | SSiPP and Labeled SSiPP | `LRTDP`, `ShortSighted` |
| `SSiPPTeacher` | who calls them: the teacher through `pyssipp`, the solver | `SSiPP` |
| `PPDDLFormulas`, `PPDDLEffects`, `MDPSim` | formulas, effects, instantiation, `build_maps`, sampling | |
| `PPDDL` | abstract specification: what a PPDDL problem means | |
| `StrXML`, `MDPServer`, `MDPClient` | the reader of messages, the server's threads, the clients | |
| `MDPGame` | abstract specification of a session | |
| `FDQValueCacheProofs`, `ProblemServiceProofs`, `LearnDriverProofs`, `SupervisedTrainerProofs`, `SearchProofs`, `ExplorationProofs`, `MDPServerProofs`, `SSiPPProofs` | theorems | the module they are named after; `IteratedSearch` (two); `MDPClient`; `SSiPPTeacher` |
| `MC...` | instances for TLC | |

### FDQValueCache

The planning task is given by constants: `State`, `Action`, `Goal`, `Enabled`,
`Succ` (deterministic, as the teacher requires). The variables
`state_value_cache`, `best_action_cache` and `fd_blacklist` are the fields of the
class; `Absent` is a key a dictionary does not have, `None` is Python's None,
which stands for 'no plan'. A call that runs Fast Downward several times
(`compute_q_values`, `compute_policy_envelope`) is a loop over `pc` with a step per
iteration, since each iteration sees a cache the one before it changed. `ret` is
the answer of the last call. `Query`, `StartQValues`, `QDisabled`, `QEnabled`, `StartEnvelope`
and `EnvelopeStep` are the operations. What Fast Downward may say are the disjuncts of `Compute` (`FDPlan`, `FDNoPlan`, `FDTimesOut`, `FDBadOutput`):
any plan of at most `MaxPlanLen` steps, which need not be shortest but does not
go on past a goal, 'unsolvable', a time-out, or output that cannot be read. Of the states in `Misjudged` it may say 'unsolvable' although
they are not, as an incomplete configuration can. What a found
plan does to the entries of all the states along it is one step, because nothing
else runs in that process meanwhile.

Two variables are history: `entry` is the cost from which a running call started,
`fd_runs` counts Fast Downward's conclusive runs per state. They occur in no guard.

### RunLocal, LearnDriver and Curriculum

`RunLocal` follows `run_asnets_local` through `sup`: it starts the child and the
tees, waits, stops the tees and then the child in the order of the loop, reads
the log for the two announcements, and returns the newest snapshot. `child` is the
training process as its parent and the file system can see it: announce, load,
then, for every epoch, save a snapshot (open, write) and copy it to DK (open, write),
then the final snapshot. A file is torn while it is being written and stays torn
if its writer dies. Output is three numbers - printed, flushed, logged - because
a pipe buffers in the child and tee copies later. `Faults` says which of
exceptions, kills (out of memory, say) and the time limit may strike, at any step.

`LearnDriver` EXTENDS it with `main_inner`: the curriculum loop (`NextProblem`),
the retry loop (`Retry`), publication of the returned snapshot as DK (`StartPublish`,
`Published`) and `tolerence`, spelled as in the code. `Curriculum` says what that is for: rounds with growing sets of
problems, each of which ends with a policy that knows the union of what it
started from and what the round was about, or fails. `ImplementsCurriculum` is the
refinement, by an `INSTANCE` with a mapping.

### ProblemService

One call of `extend_replay` is a walk through `svc`: roll out
(`ExtendReplay`), for each visited state use the memo (`Remembered`) or get the
teacher's experience (`StartTrace`, `Walk`, `Walked`: the envelope of
`planner_trace`), label the envelope's states (`LabelAction` with
only_one_good_action, `StartLabel`, `QValue` and `LabelQValues` without),
filter and add the pairs (`EndTrace`), finally add to the replay buffer
(`EndExtend`). A time-out of the teacher drops the visited state's
experience (`Stopped`). The teacher is `FDQValueCache` itself, EXTENDed: the service's
steps are conjunctions with the teacher's actions, so a label is computed from the
same cache that the next one has changed. A rollout is any path of a policy that
is fixed during a call: `collect_paths` caches the action it chose in a state, so
all paths of a call are the same one on a deterministic task.

### SupervisedTrainer

`SupervisedTrainer.train`, one value of `pc` per stage of an epoch: extend the
buffers and measure the success rate (`Extend`), train (`Optimise`), decide whether
to stop and whether to save (`Decide`), save (`StartSave`, `FinishSave`), copy to DK
(`StartCopy`, `FinishCopy`), go on or not (`Close`); then the final snapshot of
`main_supervised`. The settings `early_stop` and `save_every` are variables that
`Init` chooses. A success rate is a number of `0..MaxRate`, chosen freely in every
epoch, and solved from `Solved` on; weights are the epoch they were saved in; `data`
is the set of problems whose buffer is not empty, which is all that decides whether
there are batches. `rates` remembers the rate of every epoch; the code reads the last one only.
`late` is the one comparison of `elapsed_time` with the limit: the code measures
it once, before the loop.

`RunLocal` looks at the same process from outside and counts saves, not epochs. `Child` is
`RunLocal` with its variables replaced by functions of the trainer's (`ChildPhase`,
`ToFile`, the number of `Saves`), and `ImplementsChild` says that with a save in every
epoch, as `run_learning.py` asks for, each step of the trainer is one of `Child`'s steps or
changes nothing that `Child` shows. So what `RunLocal` and `LearnDriver` assume of a child is
what the training loop does.

### Fast Downward's search

`SearchTask` is the task as the engines see it through `TaskProxy`: transitions labelled with
operators that have costs (also zero), and `HStar`. `OpenLists` defines an open list by what it holds,
in the order of insertion under the keys the evaluators gave, and `MinPositions` as the
positions that `remove_min` may take; buckets, heaps and hash maps are how the code finds them. A list is a sequence of
sublists with priorities, as in `AlternationOpenList`; a sublist is
best-first, tie-breaking, epsilon-greedy, Pareto or type-based, and where the code draws a random number, any
entry the draw can give may be taken. `SearchSpace` has the nodes with their two g values, adjusted and real
(`Reached` is what `open`, `reopen` and `update_parent` share), `trace_path`, and what
`search_engine.cc` does for all engines.

Each engine is one iteration of its loop per step: `EagerPop` takes an entry and discards, reinserts or expands it,
`Generate` tries one operator of the expansion; `LazySearch` has its fetched edge in `edge`;
`HillClimbing` has the breadth-first phase from `cur`. Operators are tried in any order, which covers `randomize_successors` and all
orders of generation. Heuristics are functions `h[i]` on states, infinite for dead ends, and a
`lazy_evaluator` may raise its value whenever a state is evaluated again (`Reevaluated`): when its entry is taken
from the open list, and when it is reopened, at which it may turn out to be a dead end and stay open without an entry (`GenerateCheaper`).
`IteratedSearch` runs engines one after the other with the options of the command line,
and `SavePlan` publishes a better plan in a file of its own, in two steps; `Kill` is the caller's time limit. `AnytimePlanner` is
what FDQValueCache's process wants of all this: valid plans, each cheaper than the one before, and an exit code that agrees.

### SSiPP

`Bellman` has the shared hash `v` of values (a state that is not in it has its heuristic),
the Q-value, and the Bellman update, in fixed-point arithmetic: a value counts units, a
probability is a weight out of `One`, a terminal cost in a short-sighted SSP is rounded to a multiple of
`FloatUnit` because the code keeps costs in a `Rational` of float. `ShortSighted` builds the
three kinds of short-sighted SSPs. `LRTDP` is the solver: a trial (`TrialStep`, `EndTrial`), the labelling
procedure (`CheckNode`, `CheckEnd`, `Label`) with one step per state it visits, and VI's
sweeps. `SSiPP` decides by solving one short-sighted SSP after another (`DecideAction`), and Labeled
SSiPP plays rounds (`InitRound`, `Turn`, `EndRound`) until the root is labelled.
`Deadline` may come wherever the code looks at the clock, and leaves values, labels and stacks as they are
(`DeadlineReached`). `SSiPPTeacher` has the two callers: the trainer's teacher, with `_state_blacklist` and `_qv_cache`, and
the solver, with its training (a solve of the initial state for Labeled SSiPP, rounds of its own for SSiPP: `Train`) and its simulation rounds (`SimulateRound`,
`RoundStep`). `GOAL_THRESHOLD`, 50 goals in a row with a value that has settled, is abstracted: any round that ends at the goal may be the last one of the training.
The factory's planner, engine, method and limit
are in `planner`, which `Init` chooses from `Planners`.

### MDPSim, PPDDL and MDPServer

`PPDDLFormulas` and `PPDDLEffects` are constructors and `instantiate` of formulas, expressions and
effects, with the simplifications they make on the way, over trees of records. `MDPSim` is a
problem's life in the Python extension: `Instantiate`, then the rounds of `build_maps`
(`MapRound`) up to `MapsBuilt`, then `ApplyAction` on any action that is enabled.
`PPDDL` says what the files mean, with no instantiation and no simplification: the truth of a
formula under a binding, and the distribution of an effect. The one is checked against the other.

`StrXML` is the reader: what it needs of a message is a symbol per bracket, tag and text, and
`last_char`, the static variable in which `next_token` keeps a bracket. `MDPServer` has a
thread per client, with a step per call of `next_token` (`Block` is the read that waits) and a step per access
of `new_id` to the counter or the file (`IdRead` to `IdReturn`: `last_id++` is a read and a write, and the static variable is read again
for the file and for the result); `Turn`, `EndRound` and `Act` are `host_problem`. `MDPClient` composes
it with the clients (`Response` reads a message), with kills, and with the death of the server by
SIGPIPE when it writes to a client that has gone, at any point of what the other threads do. History variables say whose bracket is kept and whether a thread
has taken another's (`left_by`, `crossed`), which calls of `new_id` no other has overlapped (`alone`), and whether the process has died while the file was
empty (`torn`); they occur in no guard. `MDPGame` is a session: rounds, turns, limits.

## What the runs check

| Run | Module, configuration | Question |
|---|---|---|
| fd_cache | `MCFDQValueCache`, `MCFDQValueCache.cfg` | on a task with a dead end and a goal with enabled actions, and with FD saying 'no solution' of two states that have one: do entries of overlapping plans fit together, and labels with them, is every entry true, where can the cache raise, is FD run once? |
| learn | `MCLearnDriver`, `MCLearnDriver.cfg` | without kills, does the learner implement `Curriculum`, is DK whole whenever it is used, and does it hold what the driver believes was learnt? |
| learn_faults | `MCLearnDriver`, `MCLearnFaults.cfg` | with every fault anywhere and a problem that cannot be loaded: one writer of DK, DK never older, and an end? |
| learn_torn | `MCLearnDriver`, `MCLearnTorn.cfg` | violated: is the 'last valid checkpoint' valid? |
| service | `MCProblemService`, `MCService.cfg` | in both labelling modes: do label queries hit, do targets lie on plans, is every visit labelled, do stored values stay upper bounds, does a call end? |
| trainer | `MCSupervisedTrainer`, `MCSupervisedTrainer.cfg` | for every sequence of success rates: do early stopping, saves, `best_rate` and DK agree with the rates, and is it what `RunLocal`'s child does? |
| search | `MCIteratedSearch`, `MCIteratedSearch.cfg` | for every engine and kind of open list, alone and in portfolios, and for every admissible heuristic of a family: are parents sound and acyclic, is the bound kept, is A* optimal, is 'failed' true, does it end, is it an anytime planner? |
| mdpsim | `MCMDPSim`, `MCMDPSim.cfg` | for 1,440 problems: does the library simulate the process the files describe, with an action exactly where one is enabled, and its distribution? |
| mdpserver | `MCMDPServer`, `MCMDPServer.cfg` | two clients at a time, one of which may be killed and the server with it: do calls of `new_id` that do not overlap return different identifiers, also after a restart, are sessions games, do clients finish? |
| mdpserver_ids | `MCMDPServer`, `MCMDPServerIds.cfg` | violated: does `new_id` return a new identifier? |
| mdpserver_overlap | `MCMDPServer`, `MCMDPServerOverlap.cfg` | violated: is only a client at fault disconnected? |
| ssipp | `MCSSiPP`, `MCSSiPP.cfg` | for every planner, with deadlines anywhere: are values lower bounds, labels closed, solved values and cached Q-values right, and does every decision end? |

Each property is stated in words above its definition. The ones worth reading first:

- `Ranking`: following `best_action_cache` from any cached state strictly
  decreases the cached cost, so it reaches a goal. Plans that are not optimal
  overwrite each other's entries, one state at a time and only when cheaper.
- `CostsOnlyImprove`: no step takes a cost out of the cache or raises it; all that is
  memoized above the cache depends on this.
- `DKNeverOlder`: two processes write DK, the child while it trains and the driver
  when the child is gone, and the file never goes back to an earlier snapshot.
- `SolvedMeansLearnt`: the driver's idea of what has been
  learnt agrees with the weights in DK, through a log file and a directory listing.
- `VisitedStatesLabelled`: between calls, every visited state whose experience was had and
  from which the teacher knows a plan is in the replay buffer, if it has a choice of
  actions, however often the teacher timed out on it before.
- `StoredLabelsBound`: memoized Q-values stay upper bounds of cached costs.
- `ParentsAcyclic` and `ParentsSound`: parents are rewritten when a cheaper way is found while g values
  of descendants stay, over operators of cost zero; a cycle would make `trace_path` run for ever.
- `BoundKept`: for lazy search it relates an edge that was inserted to a way found much later.
- `ImplementsAnytime`: what the learner's process reads after a time limit, a crash or a success.
- `EnabledRight`: `build_maps` explores with numbers taken for true and instantiation with static predicates folded in;
  neither may lose an action.
- `Admissible`, `LabelsClosed`, `SolvedOptimal`: LRTDP's theory, for three solvers that share a hash and
  may be interrupted between any two states of a labelling.
- `SerialIdsUnique`: what is left of `IdsUnique` when threads are in `new_id` together: they may repeat each other's identifiers and store old
  ones, but not set the counter or the file back below an identifier that a call of its own has returned.

### Bounds

*Cache, service.* The planning tasks have seven states and two actions, `MaxPlanLen` is four:
enough for two plans to share a suffix, to meet in the middle at different
costs, to pass through a state the other one left, to have a dead end, an unsolvable state with a successor and
a goal in which actions remain enabled. The cache has no counter in its behaviour, so its
state space is finite and explored whole: every number of queries in every order.
`MaxEnvelope` stands for the assertion at 10000 states; it is chosen just above the
longest envelope possible, so that the assertion is reachable by any error in the walk.
`MaxCalls` 3 calls of `extend_replay` are the shortest behaviour in which a memoized
experience, a newer plan and a third use of both meet; the first call is the single-step
rollout the code makes. `MaxLen` 3 visits states off the plan, and `NPaths` 2
visits each of them twice, which is what the memo is for.

*Learner.* Five problems give three rounds of the curriculum; with `MaxCurriculum` 1 and `MaxTolerence` 2
(10 and 20 in the code) both limits are reached, in both loops, and a round can
succeed, fail and be retried in every combination. The last
problem of `MCLearnFaults.cfg` can never be loaded, the case in which only the limits end the learner.
`MaxEpoch` 2 gives a snapshot that replaces another one before the final one does.

*Trainer.* Five epochs and `EarlyStops` {0, 2} let a streak of solved epochs be interrupted and begin again
before it is long enough; rates 0 to 3 with two of them solved give both kinds of
epochs room to rise and fall; `SaveEverys` {0, 1, 2} are no forced saves, all, and some, and it is
the last that lowers `best_rate` in the middle of a streak.

*Search.* One task of six states: a cycle of cost zero, a dead end with a loop and two ways to it, so that it is reopened, and a cheapest plan that is longer than the
shortest one, so that nodes are reopened and updated. The first heuristic is every function that is either 0, infinite or exact
in each state, which includes inconsistent ones, with one that overestimates and one that gives
up on all states; the second heuristic is inadmissible. Nine portfolios between them use three
engines, all open lists, the three cost types, preferred operators with boosts, pruning, bounds handed on and not,
repetition, time limits, and a lazy evaluator. `INF` is larger than any cost of the task.

*SSiPP.* One problem of six states with a retry, a dead end, a trap that only costs, and two ways to the goal; `One` 2
allows the probabilities 1/2 and 1, `dead_end_value` 32 bounds every value, `epsilon` is one unit, and
`FloatUnit` 2 makes the rounding of terminal costs visible. `Optimal` is given and an ASSUME says it
is a fixed point. `Slack` 4 is how far from it a value within `epsilon` of its backup may be. Two heuristics, zero and an inconsistent lower bound;
three starting states; `MaxTrace` 3 cuts trials and rounds as `max_trace_size_` and the turn limit do. The planners: LRTDP and VI alone
(the teacher's), SSiPP over both with each of the three short-sighted SSPs, and Labeled SSiPP.

*MDPSim.* Two objects, one schema with two parameters and six preconditions (equality, negation, both quantifiers,
disjunction, numbers) by five effects (conditional, quantified, nested outcomes that do not sum to one, numbers) by two for the other
schema, three goals, three initial states with different static facts, a probabilistic initial effect or none, which are 1,440 kinds of problem in all;
`Bounded` ends a run when the fuel is spent or the goal has been entered twice.

*MDPServer.* Two clients at a time, whose sessions may overlap at every step: two threads are enough for one to take the other's bracket and for both to be in
`new_id`. Limits of two rounds and two turns, a time limit that the clock reaches (`time_limit` 1 and `MaxClock` 1 in `mdpserver`), one restart (`MaxRestarts`). In `mdpserver` one
client may be killed at any moment; the first of its two problems is unknown to the server, and the second is sent when nobody reads any more. In `mdpserver_overlap` and
`mdpserver_ids` neither client is killed or at fault.

## Fairness

`FairSpec` of `LearnDriver` assumes weak fairness of the driver's step and of the supervisor's step, which
includes noticing that the time limit has passed: both are the same
single-threaded program, which goes on as long as it can. Nothing is assumed of the
child or of the tees: a child may hang at any point. The supervisor waits for it with a time limit
that the code sets (`TimedOut`), and this is what `Termination` rests on.

`FairServiceSpec` assumes weak fairness of the service's next step. The service is
one thread that never waits for anything but Fast Downward, which it runs under a time
limit; a run that exceeds it is the time-out answer.

`IteratedSearch` assumes weak fairness of `Steps`, not of `Kill`: the planner is one process that
computes until it ends. Nothing is assumed of the choice among ties.

`MDPClient` assumes weak fairness of every thread and every client by itself, each being
scheduled by its operating system; none of the clock, deaths or restarts.

`SSiPPTeacher` assumes that a planner that is busy goes on: weak fairness of `Next` while `Busy`, written as
`[]<>~Busy \/ []<><<Busy>>_vars`, which is the same because a busy planner always has a step.
Nothing is assumed of outcomes: a trial ends for whatever the simulator draws, since traces are cut.

## What is proved

All theorems hold for every value of the constants under the named
assumptions (`TaskAssumption` and the like) in the modules that declare them.

Where something is computed by recursion (a plan's cost, `trace_path`, the reference costs), the proofs need induction.
They get it from sets: `Induction` of `SearchProofs` says that a set with 0 and the
successor of each of its numbers has all numbers (from the pigeonhole principle for finite sets), `LeastNumber` that a set of
numbers has a least one, and `Recursion` that a function defined by recursion exists
and satisfies its equations. The induction hypothesis is then a set, `{i \in 0..N : ...}`.

*The cache* (`FDQValueCacheProofs`): `TypeCorrect`, `EntriesTruthfulThm`,
`RankingThm`, `EnvelopeSoundThm`, `RecommendedActionLabelledThm`,
`LabelsNotOptimisticThm`, `NoInternalErrorThm`, `FDRunsOnceThm`, `CostsOnlyImproveThm`. `Ranking` is
not inductive: a plan is written entry by entry, and whether an entry may be
replaced depends on all the plans before. The inductive invariant `IInv` conjoins
`TypeOK`; `CacheInv`, that the action of every entry (`Supports`) leads to a state that is
a goal or has a cheaper entry of its own, and that 'no plan' is said of unsolvable states only; `EnvelopeInv` and `QInv`, what a running loop has
established so far; `RunsInv`, what a counted run of Fast Downward left behind;
and `NoInternalError`. The central lemmas are `ImproveFacts` and `ImproveSound`: recording any plan improves every entry
it changes and keeps `CacheInv`; `ImprovesStep` says so of every step. Loops then only need that what they established survives an improvement.
`EnvelopeSound` and `LabelsNotOptimistic` are proved and no run checks them.

*The learner* (`LearnDriverProofs`): `TypeCorrect`, `OneWriterThm`,
`DKNeverOlderThm`, `RunsBoundedThm`, and, as long as processes end by themselves (`Calm`: no kills and no time limit), `DKUsableThm` and `SolvedMeansLearntThm`. DK does not go back because of three facts that none of the processes
checks: the snapshots of a run are numbered without a gap up to the epoch, the
driver picks the newest, and it does so when no writer is left. The invariant states
them (`Announcing`, `OneWriter`, `Snapshots`, `ChosenNewest`, `DKBehind`), with every kind of fault. `RunsBoundedThm` adds
`CountInv`, which counts runs against problems taken up and tolerence.
`DKUsableThm` and `SolvedMeansLearntThm` need `CalmInv`: a file is torn only while its writer is at work (`WriterAtWork`), the
snapshots of a run were trained on all it learns from (`Learning`), and so was DK after a run that ended well
(`LearntPublished`). A kill between the opening of a file and its closing breaks the first; the run with all faults
checks only what survives that.
`ImplementsCurriculumThm`, under the same condition, is the refinement of `Curriculum`, action by action (`CurriculumStep`):
a start of a run is `Begin`, each of the four writes of DK is `Learn`, the end of the driver's copy is `Succeed`, an exception that reaches
the driver is `Fail`, and the rest are stutters. `Begin` may not drop a problem, which is `Cumulative` (what failed is still among what was taken up, although it is passed
twice); a write of DK may not lose what earlier runs put there, which is `DKFollows` (from the moment the child has read DK, the file holds at least what the child
started from, and at most that and the problems of the run).

*The service* (`ProblemServiceProofs`): `ServiceImplementsTeacher` first, that
`ServiceSpec => Spec`: whatever the service does is a behaviour of its teacher,
so that the cache's invariant is available in every one of its states. On top of it,
`LabelQueriesHitThm`, `TargetsOnPlanThm` and `StoredLabelsBoundThm`, from an invariant
that says that envelope states have costs (`EnvelopeCosted`, `ListsInv`), what the
Q-values of a state in progress are worth (`ValuingInv`), and what every stored pair is
worth (`PairsInv`). A stored pair is never updated; it stays true because costs
only improve.
`VisitedStatesLabelledThm` needs one more fact about the cache, `NoneStays`: what is cached as having no plan
stays so, since a later plan that met it would stop there before anything is written (`ComputeKeepsNone`). So a state
that has a cost now had one, or was unknown, when its trace began. `TraceInv` follows it from there: it is on
the envelope, then on the list of states to label, then labelled; `MemoInv` says that what is memoized is complete and
has been gathered, and `ReplayInv` that what is gathered is in the replay buffer when the call ends.

*The trainer* (`SupervisedTrainerProofs`): `TypeCorrect`, `EarlyStopJustifiedThm`,
`RecordsSavedThm`, `BestRateIsDKsThm`, `NoBatchesOnlyAtStartThm`,
`ImplementsChildThm`. The invariant says what `best_rate` stands for at every stage of an
epoch (`Best`: the rate of the epoch in DK, except from the start of a save to the end of
the copy), and the rest is relative to it: `Streak`, what the epochs counted by
`time_since_best` were like although forced saves changed `best_rate` under
them; `Records`, saved epochs; `Highest`; `Files`; `Flow`, where `best_rate` can still be None. The
refinement adds `Numbered`: with a save in every epoch, the number of files is the number of the epoch.

*The search* (`SearchProofs`): `ParentsSoundThm`, `ParentsAcyclicThm`, `BoundKeptThm` and `TypeCorrect`, for every
task, every portfolio, every kind of open list and whatever the heuristics answer. Acyclicity is not inductive, nor is it
a matter of g values alone, since a zero-cost operator does not raise g. The step that rewrites a parent (`Finds`) either meets
a node for the first time or lowers its g strictly; in the second case a cycle through it would
lead round to a g above its own (`FindsForest`, on `Sound`, the strengthened `ParentsSound`). What an engine needs for its step
to be such a step is that the state it expands has been reached, which is a fact about what
its open list holds (`Frontier`, kept by `InsertHolds`, `RemoveHolds` and `BoostHolds` for all open lists at once) and about
the step in progress (`Expanding`). For the bound, lazy search's edges are within it when they are inserted
(`InBound`), and stay so since ways only get cheaper (`SearchSpaceGrows`).

On this rests `ImplementsAnytimeThm`: the iterated search implements `AnytimePlanner`. Since parents
are sound and have no cycle, what `trace_path` returns for a state that has been reached is a sequence of operators that leads there, no longer than there are
states and no dearer than the node's g (`BackFacts`, `RootFacts`, `TracedLeads`); so every engine
returns a plan (`Solved`). A plan file is written when an engine has one, and is
cheaper than the file before it because the bound of the run, or the comparison of costs, lets nothing else through (`FilesOK`);
only the last file can be cut short, by a kill. The refinement maps whole files to what is published and
the exit code to the answer.

*What a best-first search misses* (`ExplorationProofs`): `FailedMeansNoPlanThm` and `AStarOptimalThm`. The
inductive invariant is `Exploration`: each applicable operator of each closed node is `Settled` (its successor
has a node at most as dear as the way through it when closed nodes are reopened, is marked a dead end, is beyond the bound, or the
node cannot reach the goal) or `Underway` (in `todo`, or for lazy search an edge in the open list or in hand); every open node has an entry in the
open list; dead ends are dead ends and no goal is closed. `WayOut` draws the conclusion: along a cheapest plan, as long as its states
are closed, g does not exceed the cost so far, so if no operator is underway, there is an open node on it with g + h\* at most the cost of a
cheapest plan. A search that fails has an empty open list, hence no such node; A\* takes an entry whose f is at
most that node's (`AStarTakesLeast`), and the f of the entry it takes is at least the g of the goal (`KeysOK`). Entries
that stay in the list with an old value only have to be no worse than the node (`Waits`), which is how they survive reopening
and re-evaluation; estimates may grow (`Reestimates`) and need not be consistent.

Both theorems have the hypothesis `[]NoOverflow`: no sum of a g value, an estimate and a cost reaches
infinity on its own. In the code infinity is the greatest `int`, such a sum wraps around or is taken for a dead end, and the engines
rely on tasks for which it does not happen. TLC confirms `NoOverflow` for every reachable state of the instance of the run `search` (with
`NoOverflow` as one more INVARIANT of its cfg; costs there are at most 3 and infinity is 100). The constants are assumed to be what the code makes of its input:
finitely many states, a positive infinity that bounds the estimates and the portfolios' bounds (`TaskAssumption`, `PortfolioAssumption`, `HeuristicsAssumption`), and
open lists as the factories build them, where a list for preferred operators comes with one for all operators (`ListsOK`).

*The server of `mdpsim`* (`MDPServerProofs`): `SessionsAreGames` (`ImplementsGame`) and `SerialIdsUniqueThm`, for any number of
clients, problems, deaths and restarts, and any number of threads at the same time. The refinement goes by the steps of `host_problem` between two reads: `TurnGame`, `StartRoundGame`, `ActGame`, `StartSessionGame` and
`HandledGame` say of each what play it is in the game, whatever node was read (so that garbled tokens, which overlapping sessions produce, change
nothing about it); it needs that new_id is called before the first round only (`StageInv`) and that a client that has not connected has no thread
(`ClientsInv`). For the identifiers, calls of `new_id` may overlap in any way, and what a thread stores may be old. `AloneInv` says that a call which is alone finds the counter
and the file as it left them; `Above(n)`, of each identifier n that such a call has returned, that nothing below n is or will be stored: the counter and every value a thread has
in hand are at least n, so is the file unless a thread is about to write it, and a call that is alone has a counter above n.

*The SSiPP planners* (`SSiPPProofs`): `AdmissibleThm` and `InsideSpaceThm`, for every problem, planner, limit of the short-sighted SSPs and every point at which
a deadline may strike. `Admissible` comes from the Bellman operator being monotone (`GreedyMonotone`): a backup from values that are
nowhere above `Optimal`, with any set of goals in place of the problem's own, gives a value that is not above it either. That rests on sums over finite
sets (`SetRecursion`, `SumsMonotone`; values are naturals, of which `One` stands for the probability 1), on division and on the rounding of a fringe state's cost (`RoundingMonotone`, which is
where `Optimal` has to be a float itself: a rounding that goes up must not go past it). Value iteration, LRTDP and
`checkSolved` write backups and nothing else (`UpdateBounded`, `UpdatesBounded`).
`InsideSpace` is about geometry: each of the three kinds of short-sighted SSP contains the state it is built around, and all successors of
its states that are not fringe (`MaxDepthAround`, `TrajectoryAround`, `GreedyAround`). The spaces are
computed by recursion over layers, trajectories or expansions, so what a layer has to satisfy is carried along (`Growing` for the greedy SSP: a state that is neither open
nor a goal has its successors inside). `IInv` then says that whatever the planner has in hand lies in the space
it holds (`Inside`: the trial, the stacks of `checkSolved`, the sweep, the question), and that where it stands goes with what was asked (`Control`): what
a client will ask about next is in the space, or Labeled SSiPP has an answer for it or starts anew (`Askable`), also after a decision
that a deadline has cut short.
`checkSolved` of the outer labeller works on the whole problem, which is why `Inside` speaks of the inner one only.

`LabelsClosedThm` is about labels that are trusted for ever while everything around them goes on: the values of other states are
updated, the short-sighted SSP is replaced, checks are cut by a deadline. The property alone is not inductive; `Labelling` is:
- `Sound`: a state that is labelled and can be solved has a *way*: an action whose Q-value is below `dead_end_value` and whose
  successors are all accepted (goals, or labelled themselves). Values of accepted states are kept since trials and checks stop there (`Keeps`, `WayKept`).
- `Checked`: while `checkSolved` runs, the states it has closed have a way to accepted states or to states it has closed or will close. When its
  list is empty and all residuals were small this is what `Sound` asks of the new labels.
- `Fringed`: in Labeled SSiPP, a solved state is a fringe of the space that is held, so that planning inside does not touch it.
- `Fresh`: the labels of the planner inside Labeled SSiPP are good until the round is over; its last updates and checks then change values
  under them, before the next decision deletes them.
- `Phases`: which planner has labels, and where it stands when it deletes them.

Three clauses of `LabelsClosed` come from this proof. A dead end with a small residual
is labelled although it has no action to take; hence `Solvable`. Labels that have gone stale and wait
for being deleted are nobody's to read, hence `pc = "solve"`. And value iteration, as the planner inside Labeled SSiPP, writes rounded
values over those of solved states at the fringe, so what was checked about them need not hold any more; hence the hypothesis on the engine.

`NoValueErrorThm` carries this to the teacher. `planner_trace` lists states while one query runs, and `hp_q_value` asks about them in later ones,
each with its own deadline: `Trusted` says that the planner keeps an action for each listed state (`Sure`), with LRTDP by the labels
and with VI since sweeps that have converged are not repeated (`SweepKeeps`). `AdmissibleQThm` needs `QInv`: at each point of
`hp_q_value` the sum so far is at most the cost of the action and the optimal values of the successors already asked about
(`SumIsLow`), each of them once (`SetToSeqFacts`), as the hash is below `Optimal` whenever it is read.

The theorems assume of the constants what the code makes of its input (`TaskAssumption`: probabilities add up to one, costs are positive, goals have no actions), what is
asked of a heuristic (`ValuesAssumption`: it does not overestimate; `Optimal` solves the Bellman equation, as an inequality, and is zero at goals), and that
callers start inside the problem (`CallersAssumption`). Whether values ever come near `Optimal` is `SolvedOptimal`, which TLC checks.

## Disagreements with the code

Three runs marked *violated* show places where the program does something other than
its documentation, comments or messages say.

1. `LastValidCheckpoint`: a child killed while it saves leaves a torn
   snapshot, which is the newest, is copied over DK and makes every later run of the
   driver fail when it loads it (`scripts/run_learning.py:111`).
2. `NoneAccused`: the threads of the server share the bracket that `next_token` keeps in a static
   variable (`src/mdpsim/strxml.cc:53`), so with two sessions a client that keeps to the protocol is dropped for invalid XML.
3. `IdsUnique`: `new_id` 'generates a new client id' (`src/mdpsim/mdpserver.cc:97`), but counts without a lock in a process with a thread for each
   connection; two threads that are in it together return the same identifier. What holds instead is `SerialIdsUnique`.

The following were met while modelling. The models contain the behaviour of the code wherever they contain
the code; no run is about them.

*Learner.*
- On a cache miss `compute_state_value_action` returns the value
  of the queried state with the action of the *last* state of the plan, because the loop
  variable is used after the loop (`interfaces/fd_interface.py:535`, against the docstring at `:485`). The service
  is safe from it (`LabelQueriesHitThm`): it asks for labels of cached states only.
- The clean-up loop of a run terminates a tee that may still be copying the last
  output of a child that ended normally (`scripts/run_learning.py:80`, against the comment at `:54`).
- The comparison meant to zero out dead-end actions compares 0/1 labels with `dead_end_value` and never
  holds (`supervised.py:1131`, against `:1128`): a goal with a choice of actions becomes a uniform training target.
- `--timeout` is 'maximum training time (disabled by default)' (`scripts/run_asnets.py:293`), but is not
  handed to the trainer, which has a limit of 1000 s of its own and compares it with an elapsed time taken before the
  first epoch (`supervised.py:851`): training never times out, and ends after one epoch exactly
  if loading the problems took longer than that.
- A problem that cannot be loaded stays in `trained_problems`, so that every later run fails too
  (`learn_faults`); and after a kill has torn DK no later run of the driver loads.

*Search.*
- With a cost type other than normal, a reopened node's descendants keep real costs that the new way does not have, and a
  node can be at or above the bound (`src/downward/src/search/search_engine.cc:140` is about such bounds): hence the condition in `BoundKept`.
- `repeat_last` with `pass_bound=false` repeats an engine that finds the same plan for ever.
- Hill-climbing's statistics assert that there was a phase (`enforced_hill_climbing_search.cc:258`), which there was not if the
  initial state is a goal.
- `exit_with` in hill-climbing ends a portfolio that had found plans with the code for 'unsolved incomplete'; its files remain.
- With a bound of its own, `pass_bound=false` and `continue_on_solve=false` a portfolio can return SOLVED without having a plan.
- If all lists of an alternation are unreliable, a state is dropped when all of them call it a dead end; if only a list for
  preferred operators remains to accept it, it is lost.

*SSiPP.*
- A deadline inside `LSSiPP::solve` leaves `use_as_replanner_` set, and later decisions no longer solve the
  state first (against the comment at `src/ssipp-solver/planners/labeled_ssipp.h:82`).
- `greedyActionAndMinQValueFiltered` ignores its filter; `qValue`'s static index is not restored by an exception; 'labeledssipp:' is
  compared without its last character; `trainForUsecs` stops at exactly 50 goals in a row (`planners/ssipp.cc:306`);
  `greedy:1` makes the initial state a fringe state, and SSiPP gives up at once; `hp_q_value` raises ValueError for dead ends that have actions.

*MDPSim.*
- A goal `forall` never holds: its conjunction starts with a TRUE constant whose truthiness is INDETERMINATE
  (`src/mdpsim/formulas.cc:1342`, against `formulas.h:82`, `states.h:53` and `examples/bx-c5-b10-pc-nr.pddl:180`).
  `MCForallProblems` of `MCMDPSim` is the family of problems to see it on.
- A second problem of one `mdpclient` is sent over the first one's socket, where nobody answers; hence the condition of `ClientsFinish`.
- `total_turns` is not initialised; the server's `<error>` before `end-round` makes the client quit.
- A server that dies between the emptying and the writing of `last_id`, by SIGPIPE in another thread for instance, starts again from 1 and repeats
  identifiers; the models contain it (`torn`), and it is the exception `SerialIdsUnique` makes.

## What is only model-checked, and what is not modelled

Liveness (`Termination`, `Responds`, `Terminates` of both planners, `ClientsFinish`) is out of the proof system's
reach, as it relies on fairness and ENABLED. Formulas and effects are computed by RECURSIVE operators, which the proof system
does not read, so the properties of the run `mdpsim` (`EnabledRight`, `DistributionRight`) are left to TLC. Of the run `ssipp`, two statements about how near
values come to the optimum are left to TLC as well: `SolvedOptimal`, and the bound `Slack` in `CachedQ` (its other two parts, `NoValueError` and
`AdmissibleQ`, are theorems). On an arbitrary problem a state whose residual is below `epsilon` may be off by an error that grows with
the length of the plans, and a theorem would first have to bound that error, by induction over them; on the instance it is at most `Slack`.

Abstracted: grounding where the task is given by constants; the network's
arithmetic (a policy is a choice of an enabled action); how Fast Downward
is called (files, command line; only its answers); hyper-parameters,
timing and logging, except for the log the driver reads. Time is the possibility of a time-out. Memory is
not modelled: reference counts, leaks, packed states and hash functions.

Not modelled, and why, in short (details in `PROJECT.json`):
- The bison and flex parsers and the translator: text and data are rewritten in one pass, with no state to interleave.
  They are a large share of the repository's lines, with the copy of mGPT's parser in `src/ssipp-solver/ext` and vendored headers.
- Heuristics, abstractions, landmarks and pattern databases: to an engine they are a table of estimates. Their own correctness (admissibility,
  safety) is arithmetic over data structures and needs other tools.
- The network (TensorFlow), plotting and experiment scripts, UCT and the interactive network: not used by learning or planning, or numerical.
- `ProblemServer` and the planning driver: a fixed sequence of calls to RPyC, multiprocessing and the child.
- The remaining planners of `src/ssipp-solver` (UCT, FF-Replan, determinization, gLRTDP): nothing in the repository's learning calls them.
- SSiPP as the teacher's planner. `SSiPPTeacher` would accept it (`teacher.py:112`), but the service creates its teacher with 'lrtdp'
  (`supervised.py:382`), and `Planners` has only LRTDP and VI in that place (`IsTeacher`). With SSiPP there, the space of the last call would
  survive, and the walk of `extract_policy_envelope` would ask about siblings outside of it, of which `isGoal` dereferences `end()`
  (`src/ssipp-solver/planners/ssipp.cc:232`); `InsideSpace` is about the rounds of the solver and says nothing about that.
- `DomainSpecificTeacher`: one domain's lookup table.

## Plan

Done: the cache, the learner, the service, the trainer, Fast Downward's engines and portfolios, the SSiPP planners with both their callers, the
MDPSim library and server; theorems about the first four, the search (up to the optimality of A\* and the refinement), the SSiPP planners and the server.

What would come next, most useful first:

1. Composition of `IteratedSearch` with `FDQValueCache`: `AnytimePlanner` as the planner that the cache asks.
2. More about LRTDP: that values only rise when the heuristic is consistent, from `GreedyMonotone`, then how far a labelled state is from its optimum.
3. Stubborn-set pruning in `EagerSearch`, with `AStarOptimal` as the property; the order of successors where `randomize_successors` is off.
4. Landmark status (`landmarks/landmark_status_manager.cc`), which is what makes an evaluator path-dependent.
5. `ProblemServer` with servers that start slowly, ignore SIGTERM or lose their parent.
