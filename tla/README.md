# A TLA+ verification project for AutoDev

AutoDev (`src/src/autodev`) turns a brief into code: it plans milestones and
tasks, executes the tasks with coding CLIs (Codex, Claude Code, ...) or with
mocks of them, reviews the result and decides whether the run is ready for
release. Everything it knows of a run is in one file, `run_state.json`, which a
dozen commands read and rewrite.

This directory holds TLA+ modules of the parts that decide *what is executed, in
which order, by whom, and what is believed about it afterwards*, and of the
stand-alone parts around them that have threads, retries or shared files; TLC
configurations that check them on small instances; and TLAPS proofs of the main
safety properties for every value of the constants.

- [1 The system](#1-the-system)
- [2 The modules](#2-the-modules)
- [3 The runs](#3-the-runs)
- [4 The proofs](#4-the-proofs)
- [5 Findings](#5-findings)
- [6 What is not modelled](#6-what-is-not-modelled)
- [7 Plan](#7-plan)
- [8 Working with the project](#8-working-with-the-project)

Paths below are relative to `src/src/autodev` unless they start with `src/`.

## 1 The system

### Components, their state and their operations

| Component | State it keeps | Operations | What makes it correct |
|---|---|---|---|
| Dependency planner (`planners/dependency_planner.py`, `utils/concurrency.py`) | locals of one call | `waves`: edges from declarations, shared files and risk; `topological_batches` | a complete plan, in order, conflicts apart, no parallelism wasted, always returns |
| Implementer (`agents/implementer.py`) | locals of `run_milestone`; per thread the loops of one task | `run_milestone`, `_run_task_with_loops`, lint retries, critic passes, failure cluster review | tasks run once and in order; a failure stops what depends on it; loops are bounded; the report says what happened |
| Thread pool (`utils/concurrency.py`) | futures of one wave | `run_parallel` | a barrier at the end of a wave; what an exception becomes |
| Executor router (`executors/executor_router.py`) | metrics; PATH is its environment | `decide` (AUTO or explicit, mock substitution), `execute` (fail-closed check, call) | no mock where mocks are not allowed, although CLIs come and go |
| Run record (`state.py`, `schemas.py`, `utils/json_io.py`) | `run_state.json`, `execution_calls.jsonl` | `init_run`, `save`, `load`, `finish`, `mark_backend`, `append_execution_call` | evidence is never lost or detached from its mark |
| Delivery and bug-fix flows (`flows/project_delivery_flow.py`, `flows/bug_fix_flow.py`) | the record in memory, saved first and last | the stages from plan to release decision | what failed is remembered; what is ready is real |
| Run commands (`cli.py`, `flows/milestone_flow.py`, `flows/release_flow.py`, `flows/replay_flow.py`) | none of their own | execute-milestone, continue-run, replay, resume-from, verify, release-check | each changes the record as if it were alone; done work is not redone |
| Release gate, verifier (`gates/release_gate.py`, `agents/verifier.py`) | none | functions of the record | ReleaseReady only of a complete, verified, real run |
| Step runner (`flows/step_runner.py`, micro-file delivery) | one JSON record per step; the context the steps share, in memory only | topological order, from/until, force, replay from a step | a step runs after its dependencies are settled, also after a crash; what it reads has been set; completed records survive |
| Replay (`flows/replay_flow.py`) | artifact directories of a run, `replays/<id>` snapshots | replay from a stage, `--resume-from` a milestone, replay from a step | what the delivery left is somewhere; documents and record agree |
| Executors and recordings (`executors`, `_fs_observer.py`, `recording_executor.py`) | the working tree; `<hash>.json` recordings | observe, call, observe again; record, replay | what a result says of the tree and of its origin is true |
| A2A client and transports (`adapters/a2a/client.py`, `transports/`) | the task object of each call | `send_task` over HTTP, a local CLI or a mock; redirects, polls, timeouts | nothing posted twice; COMPLETED only of what ran; always returns |
| A2A server (`adapters/a2a/server.py`, `handlers.py`) | `_TaskStore`, shared by the handler threads | send, get, events; stop and restart | a reader never finds a task finished without its answer |
| Roundtable (`agents/roundtable.py`) | a pool of threads, one copy of the task for each card | pick cards, send, collect, synthesize | the right cards are heard, each in its own words |
| Watchers (`_watcher.py`, `flows/reverse_doc_watcher_flow.py`) | a debounce timer, pending paths, the documents | events, `_fire`, reload or document, `stop` | the last save is seen; silence after stop |
| Sprint flow (`flows/sprint_flow.py`) | directories and JSON files of sprints | `start_sprint`, `retrospective` | numbers are new; lessons are handed down |
| Tournament gate (`gates/tournament_gate.py`) | verdicts of one panel | judges as subprocesses, points, majority override | nothing passes that no judge would keep |
| MCP session (`adapters/self_mcp_client.py`, `adapters/mcp_client.py`, `mcp_server/server.py`) | two processes and three pipes | handshake, list, call, crash, respawn | an answer belongs to its request |
| MCP server's tools, identities and guards (`mcp_server/`) | the registry read at the start, the context variable of the caller; the audit log | authenticate, check the scope, the path and the three gates of apply mode, call the tool, answer | nobody changes a repository who may not; what is applied is in the log |
| Readiness checker (`planners/task_readiness_checker.py`) | none | depth-first search for cycles | reports the cycles the planner would give up on |
| Release readiness gate (`release_readiness_gate.py`) | the results of one run; its report, in the tree | 36 checks of the repository and of programs, the exit code of each strict mode | a report stays true with itself in the tree; a strict exit code of 0 has established what it seems to |
| Worker isolator (`executors/worker_isolator.py`) | worktrees, branches and git's records of them; homes of symbolic links | `prepare_worktree`, `cleanup_worktree`, `prepare_codex_home` | what is made for one worker is its own and complete |
| Task and milestone planners, scaffolder (`planners/`, `agents/scaffolder.py`, `executors/patch_executor.py`) | the plan in the record; the files of the skeleton | infer the scale, plan milestones and tasks, write the skeleton, drop what it makes redundant | every planned task is executed once, from lists that never make a cycle; nobody's file is replaced |
| Multi-repository flow (`flows/multi_repo_flow.py`) | a manifest for every slug, one summary | parse the group, deliver one repository after the other, sum up | one bad entry delivers nothing; every repository has its own result |
| Section reviewers (`agents/parallel_section_reviewer.py`, `agents/edge_case_hunter.py`) | findings of five threads | walk, read, parse, collect, report | what is found was there, what was there all the time is found, or its section says that it was cut short |
| Human review gate (`agents/human_review_gate.py`) | a request and two sentinels in the directory of the run | ask, poll until a deadline, look; `review --decision` | a decision that was there is not overlooked |
| Document agents, scanners, reports, configuration, adapters | none that outlives a call | text in, text out | see section 6 |

`PROJECT.json` lists every part with its files under `components`, and under
`hazards` every place that is hard to test, with the properties that guard it.

### How they interact

`deliver-project` creates the record, asks the planners for a plan of milestones,
and calls `ImplementerAgent.run_milestone` for each of them, on one
`PipelineRunState` in memory. `run_milestone` gets waves from the dependency
planner and hands each to `run_parallel`; every pool thread runs the loops of its
task, and each iteration asks the router for a decision, calls an executor, and
writes to the *shared* state (`append_execution_call`, `mark_backend`). Back in the
flow, gates, verifier and release gate add their verdicts to the record, and
`finish` saves it. Later commands are separate processes: each loads
`run_state.json`, works for seconds or for hours, and writes the whole file back.
Nothing locks it. A replay also rewrites the artifact directories, and the executors'
calls all look at one working tree.

Beside the runs stand programs of their own: the MCP server, whose tools start some of these
flows for callers it has to tell apart, and the release readiness gate, a script over
autodev's own repository; the A2A server answers tasks with one
thread per request and one store for all of them, and its clients, the roundtable
with its pool among them, reach it over a network; the watchers are an observer thread,
timer threads and a main thread around one lock; sprint commands share directories; an
MCP client and the server it spawns share three pipes. The worker isolator prepares worktrees
of one repository for several workers; no flow uses it yet. `deliver-multi` runs
`deliver-project` in one repository after the other; the section reviewers read a tree
that others edit, and a human review gate waits for a file that another command touches.

### What is hard

- *Concurrency inside a process*: threads of a wave interleave at every CLI call,
  while an `ImplementationResult` and the mock mark are built from all of them.
- *Concurrency between processes*: load, long work, save, with no lock. Updates
  are lost; the question is what can still be relied upon.
- *Failure*: an exception in a pool thread, a CLI that vanishes between decision
  and call, a process that dies between truncating the record and writing it.
- *Retries*: two loops around one call, each with its own bound, sharing one result.
- *Delivery*: a request whose answer is lost is still executed; a server restarts with
  an empty store; a redirect turns a POST into a GET; lines are answers by position.
- *Timers*: one that has expired cannot be cancelled and takes the work of the next.
- *Staleness*: the plan of what is left, the stored verification, the mode of the run; a
  directory listing whose files vanish, a look at a file before it is written.
- *Boundaries*: dependency cycles, unknown ids, empty milestones, empty plans.

## 2 The modules

| Module | Models | Extends / uses |
|---|---|---|
| `DependencyPlanner` | `waves` and `topological_batches` | |
| `TaskReadiness` | the cycle search of the readiness checker, then the planner on the same list | extends `DependencyPlanner` |
| `TaskSchedule` | what executing a milestone promises (abstract) | |
| `MilestoneRun` | `run_milestone`, pool, loops, router, recording | INSTANCE `DependencyPlanner`, refines `TaskSchedule` |
| `RunLifecycle` | the record and the commands on it | a milestone is one step, with the outcomes `MilestoneRun` allows |
| `ReplayArtifacts` | replays, what they do to artifacts and snapshots | |
| `ExecutorCalls` | observing the tree around a call; recording and replaying results | |
| `RunTools` | one of the three above per behaviour | extends them |
| `StepRunner` | executing a registry of steps, and replaying it from a step | |
| `DeliverySteps` | the registry of the micro-file delivery | a value of `StepRunner`'s constant `Registries` |
| `A2AExchange` | `send_task`, the transports, the network, the A2A server | |
| `Roundtable` | the roundtable, and `a2a-call` beside it | extends `A2AExchange`, refines its `ExchangeSpec` |
| `FileWatcher` | both debounced watchers | |
| `SprintFlow` | `start_sprint` and `retrospective` by several users | |
| `TournamentGate` | the judges and the vote | |
| `McpSession` | an MCP client and its server | |
| `Workbench` | one of the four above per behaviour | extends them |
| `McpTools` | the requests of an MCP server: who may do what, and what is left behind | |
| `WorkerIsolation` | worktrees and homes prepared by several workers | |
| `ReadinessGate` | the release readiness gate over a tree that is edited | |
| `DeliveryPlanning` | from an order to the list that each milestone is executed with | INSTANCE `DependencyPlanner` |
| `GroupDelivery` | `deliver-multi` over a group of repositories | |
| `SectionReview` | the section reviewers over files that are edited | |
| `HumanReview` | gates that ask for a review, and people who answer | |
| `Periphery` | one of the seven above per behaviour | extends them |
| `DependencyPlannerProofs`, `MilestoneRunProofs`, `StepRunnerProofs` | theorems about one module | extend it and TLAPS |
| `TaskReadinessProofs` | theorems about the checker before the planner | extends `TaskReadiness` and `DependencyPlannerProofs` |
| `RunToolsProofs` | theorems about the three modules of `RunTools`, and about their composition | extends it and TLAPS |
| `A2AExchangeProofs` | theorems about `A2AExchange`, then about `Roundtable` | extends `Roundtable` and TLAPS |
| `WorkbenchProofs` | theorems about the four modules of `Workbench` | extends it and TLAPS |
| `PeripheryProofs` | theorems about the seven modules of `Periphery`, and about their composition | extends it and TLAPS |
| `MCDependencyPlanner`, `MCMilestoneRun`, `MCRunLifecycle`, `MCStepRunner`, `MCRoundtable`, `MCPeriphery` | values of constants for TLC | extend their module |

`RunTools`, `Workbench` and `Periphery` say nothing about an interaction: their components
share no state here, a variable chooses one of them, and the others stay as they were. They
let one run check several small instances.

### DependencyPlanner

A task is its position in the milestone's task list, with what the planner reads
of it: declared dependencies, file names, which of those are listed twice, and
whether the risk is HIGH or CRITICAL. `SameFilePair`, `HighRiskPair` and `Edge`
are `_build_edges`. The neighbours of `itertools.pairwise` matter here: only
*consecutive* tasks on a file get an edge, and a file listed twice by one task
gives that task an edge to itself. Edges from unknown ids are dropped, as in
`topological_batches`. `PlaceBatch` and `CycleFallback` are the two ways an
iteration of the `while` loop can go; the variable `cyclic` remembers the second.

`TaskReadiness` has the depth-first search that is to reject cyclic plans before they
get here. The recursive calls of `dfs` that have not returned are a path of tasks; `Begin`,
`Descend`, `MeetGray` and `Finish` are what the innermost of them does next, and `found`
is the `True` with which all of them return. `CheckSpec` lets the planner begin when the
search has ended. The search looks at declared dependencies only, so what it can promise
about the planner, whose edges are more, is one-sided: `CyclesAreReported` says which side.

### MilestoneRun

The planner's variables are part of the state: `Plan` is a step of the instance.
Then `BeginRun` (with the early return for a milestone without tasks), `Start`
(a worker takes the next item of the wave, in submission order), and for every
task a program counter:

```
waiting -> routing -> checking -> calling -> recording -> linting -> judging -> returned
              ^                                  |           |          |      \ raised
              +----------------------------------+-----------+----------+
```

- `Decide` is `router.decide`: AUTO may take either real CLI, and a missing one
  is replaced by its mock if mocks are allowed. `Check` is the second
  `is_available()` in `router.execute`, which fails closed even where a mock
  would have been allowed. `Call` is the executor: any exit code, and failure if
  the CLI has vanished by then.
- `RecordInLint` and `RecordInCritic` are the end of `router.execute` and of the
  iteration around it: the call is logged, the backend marked, and the lint loop
  keeps any result while the critic loop keeps only successes.
- `Lint` and `Judge` are the gate and the critic, whose verdict is free.
- `Fail` is an exception: in the executor, or around the logging, before or after
  the log line and the mark.
- `Collect`, `Propagate` and `Report` are `run_milestone` after a wave. An
  exception propagates from the plain loop always, from the pool only with
  fail_fast; otherwise the task's result is `None` and is skipped.
- `CliChange` is the environment: any CLI appears or disappears at any moment.

`pc`, `loop`, `attempt`, `iter`, `call` and `kept` are locals of the threads;
`calls`, `mockUsed` the shared run state; `ranMock` is a history variable. What
runs between two of these steps touches only locals of a thread or has no effect
on anything modelled.

The architect plan of the implementer (`use_opus`) and the opus failure review
write an artifact and change nothing that is decided; the first is left out, the
second is the field `reviewed` of the report.

### TaskSchedule

Twelve lines of behaviour: a task begins once, when everything it must wait for
has ended and nothing it excludes is running, and it ends. `MilestoneRun`
implements it with `todo`, `running`, `ended` read off the program counters and
`order`, `exclusive` from the planner's edges and conflicts, for task lists in
dependency order (others may be given up on, see the findings).

### RunLifecycle

`disk` is `run_state.json`: missing, truncated, or a record with the plan, the
result of every milestone, the mock mark, the gates' summary, the verification,
the errors, and the release decision. `job` gives every process its command, its
stage, and *its own copy* of the record; a save is `Truncate` followed by `Write`,
with room for a crash or another process in between. `Create` is `init_run`,
`Begin` any later command, `Load`/`LoadFails` is `RunState.load`, and the stages
are `Survey` (continue-run looks for what is left), `Plan`, `Implement` (one
milestone), `Gates`, `Verify`, `Decide`, `Close` (errors and `finish`) and
`Reload` (the end of continue-run). Which stages a command goes through is in
`Starts` and in the `at` each stage assigns:

| Command | Stages | Saves |
|---|---|---|
| deliver | plan, implement*, gates, verify, decide, close | first and last |
| issue | plan (one milestone), implement, gates, verify | first and last |
| bugfix | plan, implement | first, after plan, after the milestone |
| patches | (plan and implement one candidate)* | first and last |
| execute-milestone | load, implement | last |
| continue-run | survey, (load, implement)*, reload | after every milestone, and to finish |
| replay | load, from any stage to close, mocks always allowed | last |
| verify, release-check | load, verify or decide | last |

`mode` is the mode of the command that created the run: `state.mode` is never
assigned again, though execute-milestone executes in a mode of its own.
`rehearsing` and `invited` are history variables.
An unknown milestone id given to execute-milestone is left out: it executes nothing.
A replay that implements without the artifacts of the earlier stages raises; that
is one of the crashes. `patches` is the multi-patch bug fix, which makes a milestone
of every candidate; the vote over them changes nothing of the record.

### StepRunner and DeliverySteps

The micro-file delivery executes the same stages as `deliver-project`, but as a
registry of named steps. A step is its position in the registry, with its
`depends_on` and the keys of the context its function reads, cannot do without
(it raises where they are `None`), and sets. The registry is a constant:
`DeliverySteps` has the real one, read off the twenty step functions, and the
small ones of `MCStepRunner` depend on each other in every way.

`Deliver` and `Replay` begin a process; `Order` and `OrderEnds` are one iteration and
the end of `topological_order`; `Skip`, `Start`, `Return`, `Raise`, `Complete` and
`Fail` are an iteration of `StepRunner.run`, cut at the writes of the step record;
`Finish` is the end, where replay saves the record. `Crash` ends the process
anywhere, and leaves a record that was being written truncated, which
`_load_record` takes for no record. `records` are the files of the steps and survive;
`ctx` is the dict in memory and does not: `Replay` refills it with `saved`, what
`run_state.json` has. `Kept` are the keys it can have.

Two branches of the code are not in the model because they cannot be taken: the
"already completed" skip (`step_runner.py:157-165`), whose condition is that of
the branch before it, and an unknown `from_step` or `until_step`, which raises
before anything is done.

### ReplayArtifacts

Every stage of a run leaves an artifact in its directory, known by the work that made
it: the delivery or one of the replays. `StartReplay` begins one of three kinds.
`Clear` is `_clear_artifacts_after`, only of a resume from a milestone, and comes
*before* `LoadRun` and the `Copy` of every directory into the snapshot; a replay from a
step makes no snapshot. `RunStage` puts the stage's product into the record in memory
and into the directory, `SaveReplay` saves the record once at the end, and `AbortReplay`
can come anywhere. A replay id is a second and a stage, so two replays can share one
(`sharedId`). `Gone` is a directory that a resume removed, as opposed to the empty one
that `init_run` makes: only the former makes a later resume be refused.

### ExecutorCalls

`Observe` and `CliExits` are the two `snapshot_repo` around a CLI call, and `Diff` what
`changed_files` says. In a git work tree an observation is the set of dirty paths; when
git takes too long it is empty or a walk, and without git it is a walk with modification
times. `CliEdits` and `UserEdits` are everything that may happen to a file in between,
also by other calls and people. `Ask`, `KeepRecording` and `Mark` are the recording
wrapper and the mock mark of the router. `must` and `may` are history: what an honest
answer has to name, and what it may.

### A2AExchange and Roundtable

A call is one `send_task`, with a task object, the request it makes and a program counter:

```
idle -> running                    -> done      local CLI, mock
idle -> posting -> (polling ->)    -> done      HTTP
```

A message is the call whose answer it is. `wire` holds the requests the server may still
accept, also those whose client has given up (`Lost`). `Redirected` turns the request
into a GET or not, `Poll` is one round of `_poll_until_done`, whose errors are transient,
and `GiveUp` its end. A server that is not autodev's may answer anything
(`ForeignAnswer`). Autodev's own has a thread per request: `Accept` stores the task,
`Handle` and `Settle` are the two statements that append the answer and set the status of
the *stored object*, `Reply` stores it again and answers, to a client that may be gone.
`Stop` loses store, threads and connections. `WatchOpen` and `WatchClose` are the two
writes of the event stream. Its POST is answered with a finished task only, so autodev's
clients never poll autodev's server; that they would be shown whatever is stored under
their id is in the model all the same.

`Roundtable` goes over the needed skills and takes the first card not yet taken that has
each (`Pick`), fills the table up to its minimum in the order of the roster (`Fill`), hands
each worker of the pool a deep copy of one task (`Submit`), collects answers in any order,
quotes them in the order of the cards (`Assemble`, `QuoteNext`) and has them synthesized,
while `Call` is an `a2a-call` beside it. The object a call was
given is a variable of `A2AExchange` because the local transports write into it: that the
copies are deep is what keeps the answers apart.

### FileWatcher

One module for both watchers, which differ in what is pending (one path or a set) and in
what a timer does (reload one file, or document everything). `Save` is the editor,
`Schedule` the observer thread under the lock, `Expire` and `Fire` a timer, cut where it
waits for the lock: there it can no longer be cancelled. `Document`, `WriteDrafts`,
`ReadDrafts` and `Publish` are `run_once`, which writes below the watched directory and
copies from there. `Stop`, `Join` and `StopAgain` are the main thread. `Timers` is the
number of timer threads at one time; an event waits in the queue while none is free,
which with two happens only when both are busy.

### SprintFlow, TournamentGate, McpSession

A sprint is its number. `StartSprint`, `Link` and `Recall` are the directory scans and
the read of `start_sprint`, each at its own time, `MakeDirs` and `SaveState` its writes,
a file being truncated and then filled; `Retrospective` and `SaveRetro` likewise.

`Judge` is one judge's subprocess, whose failures count as "revise"; `JudgeRaises` is an
answer that is JSON but no object, which ends the gate; `Decide` the points and the
majority override.

`McpSession` is a client with its `_proc` and the server at the other end of `stdin`,
`stdout` and `stderr`. The client takes the next line for its answer. `Handled` and
`LoggedAndAnswered` are a tool call, whose end is logged to stderr first, where nobody
reads: `PipeLines` is what fits in. `ServerDies` may come at any time.

### McpTools

A request goes through `_handle` in stages: `Receive` does everything up to the handler of a
tool (authentication, scope, required arguments), `Preflight` is the check of path and mode,
`_check_apply_mode_allowed` the three gates of apply mode with their audit entry, `Work` and
`Answer` or `Raise` the flow and its end. In between the clock goes on, somebody edits the
registry file (which is only read at the start), and the process may die, which ends the
request but not the log. `effects` is history: what was done, for whom, by which request.
A path is one of the kinds that `path_safety.py` tells apart, a token a model value.

### WorkerIsolation

`Look` and `List` are the checks of `prepare_worktree` that precede git, `Claim`,
`GitFinishes` and `GitFails` the call of `git worktree add`, which is external: it registers
the worktree and its branch, then checks out, and may be killed in between. A directory may
be cleaned up at any time, and git's records of missing directories are pruned at any time.
`BeginHome`, `CheckName`, `Link` and `MakePrivate` are `prepare_codex_home`, cut between
the question whether a link is there and the call that makes it.

### ReadinessGate

The tree is a set of facts, the programs that checks call have outcomes, and every check is
an operator of both, named as in the code. `RunCheck` is one iteration of `run_checks`, at
its own time: `Edit` may come between two of them. `Report` computes the exit code and
writes the report, which is then itself a fact of the tree, and makes its directory, which
is another. The facts are what the checks distinguish; how a file is searched for a pattern
is not modelled.

### DeliveryPlanning

The flows plan in different ways and all end in `ImplementMilestone`, an iteration of the
implementation loop, whose outcome is free here (it is the subject of `MilestoneRun`).
`PlanMilestones` resolves the scale (`Inferred`) and takes its `Template`; `PlanTasks`
plans one milestone, with ids numbered through the whole plan; `TasksPlanned` lists their
ids at the milestones. `PlanBugFix` and `PlanCandidate` are the four stages of a bug fix,
once and for each candidate of multi-patch. `LookAt` and `WriteFile` are the two halves of
`PatchExecutor.apply`, between which `SaveFile`, somebody else, may save the same file;
`VerifySkeleton` drops the tasks that have become redundant. A task is its id, type, files,
risk and dependencies; the files are those that the scaffolder or a planner names.
`AsGiven` is a milestone's list as `DependencyPlanner` reads it: the module is the one place
where what is produced for the planner of the waves meets what that planner assumes.

### GroupDelivery

`ParseEntry` and `Parsed` are the configuration, `BeginRepo` to `ErrorUnwritten` the
branches of `_run_single`, whose `try` covers the delivery and its manifest but not the
making of the directory, and `Summarize` the end. The manifests are one for each *slug*,
the results one for each entry. `Move` makes or removes a repository in between.

### SectionReview

A scan is a thread: `Meet` is the walk and its first look at a file, `Read` the size and the
text, `Parse` the second reading of the edge case hunter, `ScanRaises` and `ScanReturns` its
end. `CollectSection` and `MakeReport` are the main thread. `Rewrite` is somebody who saves
or removes a file. `seen` is history: all that was in some file at some time.

### HumanReview

A gate asks (`MakeRunDir`, `AskForReview`), and if it blocks polls: `BeginRound` compares the
clock with the deadline, `LookApproved` and `LookRejected` look for the two files, `WakeUp`
ends a sleep, `TimeOut` the loop. `check` is one round without the rest. `Decide` is
`review --decision`, at any time and more than once. `known` is history: what was there when
a gate's present round began.

## 3 The runs

| Run | Instance | States | Shows |
|---|---|---|---|
| `planner` | every list of up to 3 tasks, each with at most one declared dependency (unknown, self, forward, back), 1 file (declared, not declared, declared twice), any risk; the checker's search first, in every order | 481,033 | the plan is complete, ordered, serialized, tight, and always found; the readiness checker agrees about cycles |
| `milestone` | 3 task lists (empty; two tasks side by side and a third on the first one's file; a two-task cycle) under 4 settings (pool with fail_fast and lint; pool with fail_fast, mocks and critic; plain loop; pool without fail_fast); and 2 tasks in one wave with every preference (AUTO, a real CLI, a mock, an opt-in adapter), mocks allowed or not, critic on | 332,712 | order, exclusion, fail-fast, bounds, termination; mocks fail closed and are on record; refinement of `TaskSchedule` |
| `lifecycle` | 2 processes, 3 commands, 1 milestone | 3,944,335 | what a record says stays true of the run, through lost updates and crashes |
| `resumed` | one of: 1 process, 3 commands, 2 milestones; 2 replayers, 2 stages, 2 replays, 2 seconds; 2 callers, 1 file, 1 request, 2 edits, 2 calls | 929,854 | continue-run redoes nothing and every command ends; originals are kept and an undisturbed replay agrees with itself; results are true |
| `steps` | the registry of the delivery without options; the empty one, two with unknown and own names, and all 512 of three steps, with every `from_step`, `until_step` and `force_restart`; then a replay from any step | 102,643 | order, settled dependencies, completed records, inputs that are there |
| `table` | a roster of 4 cards over HTTP (autodev's server, a foreign one, no endpoint), a local CLI or an unknown transport; a table of two, a table of one card without an endpoint beside an `a2a-call` with and without token and skill, a table that has to be filled (of a skill needed twice and one that nobody has), or an empty one; 1 redirect, 2 polls; any number of stops and restarts | 47,775 | nothing runs twice or is reported done that was not; readers are not misled; the right words are heard; nobody waits forever |
| `workbench` | one of: a watcher of 2 files, 1 save each, 2 timers; 2 users, 3 sprints, 2 retrospectives; up to 5 judges; 3 requests, a pipe of 2 lines | 409,911 | the last save is seen, stop is final; sprints follow each other; passes need a keep; answers are one's own |
| `periphery` | one of: the tree of the repository, and every tree that differs from it in one fact, or in two that matter together, while all programs answer or one of them does not, with one edit at any moment; 2 accounts, 2 tokens, 5 registries (with a token used twice, an expired account, nobody, unreadable), 5 environments, 15 requests of which 2 are made, 1 tick of the clock, any number of deaths, restarts and edits of the registry; 2 workers, 2 calls, 2 roots of which one must not be cleaned up, 2 branches and an invalid one, 2 names of the parent's home; 17 orders of all flows, with every scale inferred on both sides of each limit, 1 save under the skeleton; 5 groups of up to 3 repositories, two with one slug, 1 that comes or goes; 2 sections, 2 files and 2 patterns, 1 rewrite; 3 gates (one waits, one does not, one only looks), 3 ticks of the clock with a timeout of 2 | 694,039 | an undisturbed report stays true and strict modes earn their 0; nothing is done that the caller may not do, nothing is applied that is not in the log; fresh worktrees are apart and complete, ready homes are complete; plans can be executed as planned; every repository is reported as it ended; a review is true and complete; decisions are heeded |
| `failures_reported`, `ready_means_applied`, `steps_resumable`, `denials_are_errors` | smaller instances of the same modules, or the same | | the four findings |

### Why the bounds are enough

- *Three tasks*: same-file and high-risk edges link neighbours, so the first
  question about them is whether the first and third of three are apart. Cycles
  of length one, two and three, unknown dependencies and duplicated names all
  appear. The properties that could need more are proved for every length.
- *One file, two threads*: conflicts are pairwise, and the milestone lists have
  tasks that may overlap (1 and 2) and tasks that must not (1 and 3).
- *One lint retry, one critic pass*: both loops are left by every exit, the bound is
  reached, and the order lint-then-critic is exercised. The bound for all values is
  proved (`LoopsAreBounded`). In the code the retries are `_MAX_LINT_RETRIES`.
- *Two processes, three commands*: one creates the run, two then work on it at
  once, in every pairing, or one recovers from the crash of another. One
  milestone suffices for what is said of one milestone's record; `resumed` has two,
  so that one can be done and one left. The proofs cover any number of each.
- *Two stages, two replays*: the results of the implementation are in one of the two
  directories and what they depend on in the other, a replay can begin at either, and the
  second replay overlaps the first, follows it, or finds what it left when it died. Two
  seconds let them have ids of their own or share one.
- *One file, two edits, two calls*: a file is new, committed or dirty before the call;
  a second edit undoes the first, deletes it, or falls into another call. The second
  call replays what the first recorded.
- *Three steps, two runs*: all dependency graphs on three nodes, cycles and steps that
  depend on themselves included. What a run finds on disk is what one earlier run left
  there, and that run can be cut off at any write. `StepsInPlace` and
  `CompletedStays` are proved for every registry and any number of runs.
- *A table of two*: independence and attribution are about pairs of participants. The
  participants' tasks share one id, so the server's store is contended. One redirect
  turns a POST into a GET or leaves it; two polls are one that says nothing and one that
  decides. The code allows five redirects; the proofs allow any number, of participants too.
- *Two files, one save each, two timers*: the second save replaces the pending path of
  the first, or comes after it was taken; a late timer meets a newer one. That an event
  waits for a free timer thread delays it as a busy observer would.
- *Three sprints*: the third has lessons from one that has lessons itself. *Five judges*
  are enough for every kind of majority and tie among three recommendations. *Three
  requests*: one before, in and after a crash; two log lines fill the pipe under the third.
- *One or two facts changed*: a check is a conjunction, of a few facts, so each conjunct is
  false alone; pairs are there for the disjunctions (evidence of either kind, a formula
  blocked or backfilled). The facts an edit changes are one, in every position between the
  checks; `StrictnessIsEarned` is proved for every tree, every behaviour and every edit.
- *Two requests, two accounts*: the second meets what the first left: the context variable,
  the log, a registry edited in between. Death and restart may come inside either of them.
- *Two workers, two calls*: conflicts are pairwise; the second call of one worker meets what
  its first has left behind.
- *Seventeen orders*: each scale is inferred just below and just above each limit, asked for
  once, in one language, two, or three of which one twice. What is said of plans is proved for every
  order and any number of candidates.
- *Three repositories, two with one slug*: the second replaces the manifest of the first while
  the third has one of its own. *Two files, two sections*: one is the section that reads a file twice;
  a file is out of the scope of one section only. One rewrite touches a file before, between
  and after the readings of either. *Three gates*: one of each kind; the deadline is
  one tick before the end of the clock, so that it can be missed and met.
- `MaxCommands` (in `Create` and `Begin`), `MaxRuns` (in `Replay`), `MaxReplays`,
  `MaxSeconds`, `MaxEdits`, `MaxCalls`, `MaxSaves`, `MaxSprints`, `MaxRetros`,
  `MaxRequests`, `MaxClock`, `MaxMoves`, `MaxRewrites` and `MaxTicks` are bounds in guards. `MaxRedirects`, `MaxPolls`, `MaxJudges`,
  `MaxLintRetries` and `PipeLines` stand for limits of the code or its pipes.
- `ProcSymmetry` is used in the run `lifecycle` and `WorkerSymmetry` in `periphery`,
  which have no liveness property: commands do not know which process they run in, and
  workers are told apart by nothing but their roots and branches.
- Deadlock is not checked where a model ends: the planner returns, the
  milestone is over, the commands are used up. That none *gets stuck* before is
  what `Terminates`, `CommandsEnd` and `RunsEnd` say. `table` checks it: a server can
  always be stopped or restarted, so there it only guards against unevaluable states.
  In `workbench` an MCP session can really stand still, see the findings.

### Properties worth knowing

Most properties join two or three facts about one component; the parts are named in the
modules and in brackets here.

- `IsAPlan` (`EachTaskOnce`, `EdgesRespected`, `ClashesSerialized`): neighbour edges
  suffice to keep *all* conflicting tasks apart and in list order. `PlanIsTight`
  (`ForwardNeverCyclic`, `NoNeedlessWait`): a forward list is never given up on, and a
  task of a later wave waits for a task of the wave just before it. `CyclesAreReported`:
  what the checker rejects for a cycle the planner cannot order, and what the planner cannot
  order for its declared dependencies alone the checker rejects.
- `WavesRespected` (`DependenciesFirst`, `NoClashInFlight`): over threads, not batches.
- `FailFastSound` (`FailFastHalts`, `SuccessIsComplete`): with fail_fast no task of a
  later wave starts unless every task of every earlier wave ended with success; then a
  successful report means that all tasks were executed with success, also when one raised.
- `RetriesSound` (`CriticKeepsSuccess`, `CallsBounded`): a task that reached the critic
  remains a success however its passes end, and a task makes at most
  `MaxLintRetries + 1 + critic` calls, all of them in the log.
- `MocksAccountedFor` (`FailClosed`, `MockOnRecord`): no mock executes unless it is
  allowed or asked for, and one that did is on record when its task returns, also when
  its result is thrown away. `MocksOnRecord` (`MocksAreMarked`, `NoUninvitedMock`), a part
  of `RecordIsHonest`, says it of the record, over all commands.
- `ReadyIsReal`: the gate never answers ReleaseReady of a record with a milestone
  that was not applied by real executors, whatever was lost or overwritten;
  the exception is what execute-milestone did in dry-run mode (a finding).
- `FailureSticks`, the other part of `RecordIsHonest`: a delivery that ended incomplete is never ReleaseReady in
  any copy of its record. This is what the code does, and it is stricter than a
  user may expect: errors are never cleared, so continue-run can complete such a
  run but not release it.
- `ContinueNeverRedoes`: holds of one command at a time. Two at the same time can
  redo each other's milestones, because the list of what is left is read once
  (`cli.py:468`); the run `resumed` therefore has one process.
- `OriginalsKept`: what the delivery left is where it was or in a snapshot, however many
  replays overlap or die; not what a resume removed or a replay from a step replaced, nor
  when two replays share an id. `ReplayedAgrees`: a replay nobody disturbed saves a record
  that agrees with the documents of the stages it ran.
- `ResultsAreTrue` (`ChangesReported`, `MocksKeepTheirMark`): `changed_files` names what the
  CLI changed and nothing nobody touched, where git answers; and a mock's answer is marked
  as one, also when it was recorded by one process and replayed to a real executor.
- `StepsInPlace` (`DepsSettled`, `InsertionOrderKept`), `CompletedStays`: while a step
  executes, the records of all it depends on say completed or skipped, whatever earlier
  runs and crashes left; a forward registry runs as listed; a run never rewrites a
  completed record before its `from_step`. What it does rewrite is a failed or
  interrupted one, as skipped.
- `InputsAtHand` (`InputsReady`, `FinishedIsReplayable`): the `depends_on` of the real
  registry cover its data flow, also where a step reads what a step further back has set,
  and what is restored after a finished delivery is enough to replay from any step but
  `prd_write`. That it is not enough after an unfinished one is a finding.
- `ExchangeIsHonest` has two halves. `Truthful` (`AtMostOnce`, `CompletedWasServed`): the client never posts a task twice, so
  a lost answer is a FAILED of something that ran, never a second run; COMPLETED means
  it ran. `HonestReaders` (`NoHalfAnswer`, `EventsInOrder`): the stored object is the one the
  handler writes to; only the order of two statements keeps readers from a
  finished task without its answer.
- `RightWordsHeard` (`OwnWords`, `TableCovers`): no participant sees or returns another's
  answer, and the picked cards cover what the table needs.
- `PendingHasTimer`, and `WatcherKeepsUp` with `SavesAreSeen` (`LastSaveIsSeen`,
  `DocsCatchUp`) and `StopIsFinal`: a late
  timer takes the work of a newer one and makes the watcher forget that one, and still no
  save is forgotten. Only the *last* save is promised to be reloaded by the sprint watcher.
  The documents catch up only because the observer sees the drafts: a slow run that
  overwrites newer documents is followed by another one.
- `SprintsFollow` (`FreshSprints`, `LessonsHandedDown`): a number that was reported to
  somebody is not taken again by a command that begins later; commands that overlap may
  share one, which the property permits and the code does.
- `PassNeedsAKeep`: a rejection earns no points and equals go to "keep", so what keeps a
  panel without a single keep from passing is the majority override together with the
  points of "revise".
- `OwnAnswers`: answers are matched by position, so one line too many or too few, over
  crashes and respawns, would hand a caller the answer to an earlier request.

- `EffectsAreAuthorized`: of the six places that may refuse a request each sees a part of it;
  together they let nothing be changed but for the caller whose token came with the request,
  with every scope it needs, and in apply mode with both opt-ins. `AppliedIsAudited`: the log
  has the entry before the flow begins, so also when the process dies inside it.
- `GateIsHonest` has two halves. `ReportIsTrue`: the report is written into the tree that was checked, into a directory that
  two checks ask for. `StrictIsEarned`: checks may skip, and what a skip hides has to be
  established by another check that does not.
- `WorkersAreServed` has two halves. `FreshWorktreesApart`: the looks before git is called decide nothing between two workers;
  what keeps them apart is git's own refusal and that its exit code is heeded.
  `ReadyHomesAreComplete`: a call that raised leaves half a home behind for the next.
- `PlansAreExecutable` follows a task from its plan to its execution. `IdsAreUnique`: ids are
  numbered through a plan by a counter that every planner passes on, and only candidates, which
  are executed one by one, share them. `EverythingIsGiven`: what the filter dropped is on the
  disk, and all else is given to its milestone. `ListsAreForward`: the lists are ones for
  which the planner of the waves is proved never to give up. `SkeletonIsPolite`: a file of
  somebody's is only replaced if it was saved between the look and the write.
- `GroupIsReported` (`AllOrNothing`, `ResultsAreTheirs`, `SummaryAddsUp`, `ManifestsAreLast`):
  results are by position and manifests by slug; a failure at any point of one repository
  leaves the others' as they are.
- `ReviewIsComplete` (`FindingsAreTrue`, `NothingIsMissed`): what one thread makes of a
  file that vanishes says nothing about the other files and sections.
- `DecisionsAreHeeded`: the two looks of a round are apart, so a rejection and an approval may
  both arrive between them; an approval that was there first is returned, and pending is
  returned only of a round that began before anything was decided.

### Fairness

`DependencyPlanner`: weak fairness of the loop, which is sequential code.
`MilestoneRun`: weak fairness of "some thread takes a step". Every CLI call is a
subprocess with a timeout, the pool's threads wait for nothing else, and the main
thread waits for them only. Nothing is assumed about CLIs being present.
`RunLifecycle`: weak fairness of the stages of every process; no stage waits for
another process. No fairness on `Begin`, `Create` or `Crash`: nobody has to run a
command, and nothing has to fail. `RunTools` has the same.
`StepRunner`: weak fairness of the process that runs. The functions of the steps come
back, because the CLIs they call have timeouts; a `Crash` also ends the run.
`Roundtable`: weak fairness of the table's own threads, and of each call's transport:
a socket has a timeout (`Lost`), a poll sleeps and returns, `claude` is killed after its
timeout. Nothing is assumed of the server, of the network, or of users.
`FileWatcher`: weak fairness of the observer, of every timer thread, and of the main
thread once it is stopping. Nothing is assumed of the editor or of who stops it.
Replays, executor calls, sprints, the panel, the MCP session and the modules of
`Periphery` have safety properties only and no fairness.

### Every property can fail

`PROJECT.json` names for every property of every passing run a mutant: an
operator beside the original (marked "Mutant" in the module) that changes it as
a plausible bug would, and under which TLC finds the property violated.

## 4 The proofs

All theorems are about the specifications for arbitrary constants. The assumptions are
the named ones, which TLC evaluates on the runs:

- `TaskListsAssumption`: task lists are sequences of tasks;
- `MilestoneAssumption`: settings and preferences have their types; opt-in adapters are
  not the built-in CLIs;
- `LifecycleAssumption`, `RunsAssumption`: bounds are positive, what is kept is part of
  the context;
- `RegistriesAssumption`: registries are sequences of steps of distinct names, and
  options name steps of the registry;
- `ReplayAssumption`: the stages of the run are some of `MILESTONE_TAGS`, in their order;
- `CallsAssumption`: bounds are numbers, and there is some request to make;
- `ExchangeAssumption`, `RoundtableAssumption`: requests are requests, cards and callers
  are different calls, no card is in the roster twice, and a session has its types;
- `WatcherAssumption`: the documents are not a file the editor saves;
- `SprintAssumption`, `PanelAssumption`, `McpAssumption`: bounds are numbers;
- `McpToolsAssumption`: a registry that can be read is a list of accounts, and requests and
  environments have their types;
- `IsolationAssumption`: what is valid or inside is a part of what there is, and a home has
  finitely many names;
- `GateAssumption`: trees are sets of facts in which evidence comes with its directory, and
  what is edited are facts;
- `PlanningAssumption`, `GroupAssumption`: orders and groups have their types, bounds are
  numbers;
- `ReviewAssumption`: every pattern belongs to a section, and those of the second reading to
  the one that reads twice; `HumanAssumption`: who waits and who only looks are different gates.

Every safety property and action property of the passing runs is stated by a theorem. So is
type correctness of every module; it is an invariant of the runs only of the three
compositions, which evaluate the types of all their components. By module:

- **`DependencyPlannerProofs`**. `PlannerTypes`, `BatchesAreAPlan` (all of `IsAPlan`),
  `ConflictsAreSerialized`, `ForwardListsHaveNoFallback`, `PlansAreTight` (all of `PlanIsTight`). The invariants are
  inductive together with `TypeOK`. The interesting one is
  `ConflictsAreSerialized`: by well-ordering, between two tasks in
  conflict there is a *next* task in the conflict, which has an edge from the
  first; so when the second is ready, the first is already placed.
  A forward list has a least remaining task, which is always ready.
  `NobodyWaitsInVain` (`NoNeedlessWait`) needs to know of the tasks *not* placed that each
  was held back by one of the last batch or by one that is not placed either (`HeldBack`).
- **`TaskReadinessProofs`**. `CheckerAndPlannerAgree` (`CyclesAreReported`), in both
  directions, by the notion that joins a cycle and a planner that gives up: a set of tasks
  is *stuck* when every one of them waits for another of the set. The path from a gray
  neighbour to the innermost call is stuck, so what the checker reports the planner cannot
  order (`MeetFindsCycle`, and `AgreeInv`, that no task of a stuck set is ever placed). And
  of a set of black tasks some one waits for none of them, since the first to become black
  does not (`BlackInv`), so a search that ends without a cycle leaves nothing stuck.
  `CheckedPlannerIsPlanner` is the step simulation that carries the theorems about the
  planner over to the planner behind the checker (`CheckedPlansAreSound`); `CheckTypes`.
- **`MilestoneRunProofs`**. The inductive invariant `MainInv` joins the planner's
  invariants, the types (of the inputs, the tasks and the main thread), `WaveInv`
  and `FailFastInv`. `WaveInv` is why `DependenciesFirst` is an invariant at all: tasks
  of earlier waves have ended, those of later waves are waiting, so what is in
  flight is in one batch and the planner's facts about batches carry over to
  threads. From it follow `MilestoneTypes`, `WavesAreRespected`, `FailFastIsSound`, and
  `MilestoneIsASchedule`, the step simulation of `TaskSchedule`: `Start` is a
  `Begin`, the steps that return or raise are a `Finish`, all others stutter.
  `LoopInv` counts: the calls of a task equal its finished iterations at every program
  counter, and a task in the critic loop is a success. `MockInv` follows a mock from the
  decision to the mark. They give `LoopsAreBounded` and `MocksFailClosed`.
  `MilestonesAreMarked`: a report that says mock has its mark on the run, and the mark is
  only where a mock was allowed or asked for. `RunLifecycle`, in which a milestone is one
  step, takes that for granted (`Result`, `Marked`).
- **`RunToolsProofs`**, the record. `LifecycleInv` says the same (`RecordInv`) of the file
  and of the copy of every process, plus what is known at each stage (`JobInv`):
  since any copy may overwrite the file at any time, nothing weaker than a fact
  about *all copies* is inductive. From it: `LifecycleTypes`, `IncompleteIsNeverReady`,
  `MocksAreInvitedAndMarked` (together `RecordsAreHonest`) and the action property
  `ReadyMeansReal`.
  `ContinueNeverRedoesAlone` has the hypothesis that there is one process, because two
  that continue at once do redo work (see the run `resumed`). `ContinueInv`: nothing in the
  list of what is left is done, in the file while it has to be loaded again and in memory
  afterwards; between the milestones it is loaded from what the process itself wrote.
  *Replays.* `ReplayInv`: a snapshot belongs to the replay that copies into
  it and has nothing yet of what that one has still to copy (`SnapshotsAreOnesOwn`), what it
  copied stays (`CopiesKept`), and what the delivery left is in its place or in a snapshot
  (`OriginalsSafe`). A replay overwrites nothing before it has copied everything, so the
  overlap of two is the case that matters: the second may copy what the first has already
  replaced, and the original is then in the first one's snapshot. From it
  `NothingIsLost`. `AloneAgrees` is the record in memory and the documents, stage by
  stage; from it `UndisturbedReplaysAgree`. `ReplayTypes`.
  *Executor calls.* `CallsInv` carries, through a call, how the first observation
  compares with the tree: in git what is dirty and was not touched is what was dirty
  then; in a walk whatever the CLI touched has a later time than anything observed
  (`WatchedCall`). From it `ResultsSayWhatHappened` (`ResultsAreTrue`), whose other half, that a
  mock's answer says so, is an invariant of the answers *and* of the recordings. Then
  `ToolsAreApart`: a behaviour of `RunTools` is one of each of its three modules; so their
  theorems hold of it (`ToolTypes`, `ToolsKeepTheirPromises`, `ToolsContinueOnce`).
- **`StepRunnerProofs`**. `StepInv`: the steps in order are distinct and each is after
  its dependencies (`OrderInv`); the records of the steps a run has passed are settled,
  whatever the earlier runs left (`SettledInv`). The second is needed because no
  other fact about the records survives a crash. From it: `StepTypes`,
  `StepsKeepTheirPlace` and the action property `ResumeKeepsCompleted`, whose
  point is that a step before `from_step` is neither the current one nor reached
  twice. `ListedOrder`: in a forward registry the steps in order are always the
  first n of it, so the next one is the least of the queue.
  `SuppliedStepsHaveInputs` proves `InputsAtHand` of any registry in which every step reads
  what the steps *listed* before it set (`Supplied`), by `DataInv`: what the called steps
  of the order wrote is in the context. `DeliveryFindsItsInputs` shows that the registry
  of the delivery is one. A registry in which a step reads what none before it sets is a
  counterexample, so the hypothesis is what the theorem is about.
- **`A2AExchangeProofs`**. `ServerInv`: a request that was not accepted yet has left no
  trace, and a handler that has not answered has not run before (`AcceptedOnce`); a
  finished object has an answer (`AnsweredIfFinished`); the reader of the events reads an
  object that stays finished (`ReaderUpToDate`). From it `NothingRunsTwice` and
  `ReadersAreNotMisled`. `ReportInv` adds that what is completed was run, on the server
  (`ServedWasRun`) and in what a call holds (`ReportedWasRun`), and that only a foreign
  server is polled (`TransportsApart`), without which two tasks of one id could be taken
  for each other; from it `ReportedIsTrue`. `ExchangeTypes`.

  The roundtable: `TableIsAnExchange`, that it implements `ExchangeSpec`, carries all of these
  over (`TableIsTruthful`). `TableInv` has, beside the types (`TableTypesHold`), an invariant
  for each stage: that an object, what is sent of it and what comes back hold nobody's
  answer but its own (`WordsInv`); that the cards are distinct and cover the skills looked
  at so far (`PickInv`); that the discussion is over when every call has returned, and then
  stays as it is (`DiscussInv`); and that what is quoted are the answers of the cards up to
  the next one, in order (`QuoteInv`). From it `TheRightWordsAreHeard` (`RightWordsHeard`).
- **`WorkbenchProofs`**. `WatchInv`: while the watcher is on and something is pending,
  the *current* timer is armed or has expired (`CurrentTimerTakesIt`): stronger than that
  some timer is, because the current one is what the next event cancels and replaces.
  From it `NothingIsForgotten`, for any number of files, saves and timers; `WatcherTypes`.
  `PanelInv` gives `PassesNeedAKeep`, by counting: without a keep the
  verdicts are "revise" and "reject", and either the rejections are the majority or
  "revise" has points. `NumbersInv` and `LessonsInv` give `SprintsAreInOrder`: directories have
  no gaps, and in a tidy history a closed sprint knows all before it. `McpInv` follows a
  request through the pipes and the server (it is sent, being handled, answered, or never
  will be), whose pipes are empty when the client rests, and gives `AnswersAreOnesOwn`.
  `ProgramsAreApart` does for `Workbench` what `ToolsAreApart` does for `RunTools`;
  `ProgramTypes` are the types of all four.
- **`PeripheryProofs`**. *Worktrees*: `IsolationInv` has that the branch at a root is on
  git's record while its tree is there (`OnRecord`), that a branch is on record for one root
  (`RecordedOnce`), and that a fresh worktree's directory is there and checked out
  (`FreshIsThere`); so two workers cannot have the same (`WorkersAreApart`). *Homes*: a name
  that the call has passed is linked, or the parent does not have it (`LinkedSoFar`), whoever
  linked it (`HomesAreComplete`). `IsolationTypes`.

  *The server*: `McpToolsInv` follows a request: one that has reached its handler was granted
  what the handler needs, of the registry as it was when the request came (`HandledIsGranted`);
  its path was checked (`PathIsSafe`) and its gates passed (`AppliedWasAllowed`) before the
  work begins; what has been applied is in the log (`EffectsAreLogged`), in which a request is
  decided once (`DecidedOnce`). From it `AppliedWorkIsAudited`, the action property
  `ChangesAreAuthorized` and `McpToolsTypes`.

  *The gate*: `OwnReportChangesNothing` is the lemma about the 36 checks that no verdict
  depends on the report or, where there was evidence, on its directory. With it `GateInv` has
  that an undisturbed run's results so far are those of the tree (`CheckedSoFar`), also after
  its end (`ReportsAreTrue`). `StrictnessIsEarned` goes back from the exit code, by the place of
  every check in the list, to the facts that each one that did not fail stands for; the two are
  `HonestGate`, as `WorkersAreApart` and `HomesAreComplete` are `ServedWorkers`. `GateTypes`.

  *Plans*: `PlanningInv` has where the flow is (`StageInOrder`), what is known of the milestones'
  ids (`MilestonesKnown`), and that a task's id is its milestone and its place in the list, or
  that a task is one of the four stages of the candidate whose turn it was (`TasksNumbered`,
  `TasksStaged`): uniqueness alone is not inductive, since a next task has to be new. With it
  go what each milestone was given (`GivenAsPlanned`), that what was dropped is on the disk
  (`DroppedArePresent`: nothing deletes a file), and that the file being written was absent or
  has been saved since (`WritesArePolite`). From it `ExecutablePlans`, by
  `DependsOnEarlier` (a stage depends on the one before it, which is in the same list) and
  `ForwardLists`, which meets the definition of `DependencyPlanner`.

  *Groups*: `GroupInv` adds to what is promised where a delivery is (`Underway`) and that the
  manifest of a slug is the last one's while the next is still being written (`LastOfOthers`,
  which excuses the directory of a repository whose write has failed). From it `ReportedGroups`.

  *Reviews by section*: `ReviewInv` says of everything that was there all the time that its
  scan has found it, will still come to it, has it in hand, or was cut short (`StillToCome`);
  and of everything found that it was seen (`FoundIsTrue`). From it `CompleteReviews`.

  *Reviews by people*: `ReviewingInv` says what a gate knows between its two looks
  (`LookedInOrder`); from it `HeededDecisions`.

  `ProgramsAroundAreApart` does for the seven modules of `Periphery` what `ProgramsAreApart`
  does for `Workbench`; `PeripheryTypes` are the types of all seven.

Only model-checked:

- liveness, which under fairness is beyond the prover: `Terminates` (of the planner and of
  the milestone), `CommandsEnd`, `RunsEnd`, `ComesToAnEnd`, `WatcherKeepsUp`;
- the four findings, which are violations.

## 5 Findings

Each is a run that TLC finds violated, against a sentence of the repository.

1. **A raised task is missing from the report** (`failures_reported`). Without
   fail_fast, `run_parallel` turns an exception into `None`, `run_milestone` skips it,
   and the milestone is a success with no failed task; the tutorial says of
   `--continue-and-report` "Continue past failures, report at end"
   (`src/docs/tutorials/03-multi-cli-routing.md:140`). The same exception in a wave of
   one task leaves `run_milestone` instead.
2. **ReleaseReady of work that was only rehearsed** (`ready_means_applied`). The gate
   reads the mode of the run, execute-milestone has its own, dry-run by default;
   `src/README.md:230` says that `release_check` returns NotReleaseReady "when mock
   execution or `dry-run` was used".
3. **Completed steps cannot be resumed from** (`steps_resumable`). The step records say
   completed, but what the steps produced is only in memory until `final_report`, the
   last step, saves the record; a replay from the step that failed finds `None`. The
   class says that each phase is "individually resumable via ReplayFlow --from-step"
   (`flows/project_delivery_microfile.py:44-45`). Requirements and the resolved scale are
   never saved: `prd_write` cannot be replayed at all, and task_decompose is
   replayed without its scale.
4. **A denial is not an error** (`denials_are_errors`). The gates of apply mode return a dict
   with `isError`, which the server wraps into a result whose own `isError` is False
   (`mcp_server/server.py:304-310`); "Any missing gate returns `isError: true`"
   (`src/docs/mcp_server_per_caller_auth.md:55`).

Also met, and not run as a finding:

- *Nothing to continue after a crash.* A delivery saves its record when it is created and when
  it finishes (`flows/project_delivery_flow.py:294`); `src/docs/architecture.md:192-197` says
  "after every stage", enabling continue-run "after any failure". A crash before the end
  leaves a record without milestones, for which continue-run finds nothing to do.
- *The documentation watcher never rests.* A run writes its drafts below the directory that
  is watched recursively (`agents/document_project.py:105`), and they trigger the next run;
  the flow says that it monitors "for source-file changes"
  (`flows/reverse_doc_watcher_flow.py:3-5`). The same self-triggering is what makes
  `DocsCatchUp` hold.
- *The readiness gate* does not accept its own report: that is
  `release_readiness_gate_run.json` (`release_readiness_gate.py:1264`), and the check for release
  evidence looks for `autodev_release_readiness_gate*` (`:414`), under the comment "Also accept
  the gate report we produce itself" (`:413`); for `ReportIsTrue` that is as well. And a CLI
  that fails is skipped as "not on PATH" when the module fails too (`:341`), which `--strict`
  lets through, under the comment "Distinguish "command not found" vs real failure" (`:327`).
- *Read-only tools that write.* With the read scope alone `autodev_release_check` decides on
  the release again and saves the record, and `autodev_report` writes the final report; both
  are "Read-only tools" (`mcp_server/tools.py:29-32`).
- *Reused worktrees.* With `reuse=True` whatever directory is at the root is returned with
  success (`executors/worker_isolator.py:420`), also one that git is still filling or left half
  done; "Create (or reuse) a git worktree for this worker" (`:385`).
- *Conflicts in a cycle.* `topological_batches` gives up on a cycle by one last batch with
  everything left (`utils/concurrency.py:45-48`), while `planners/dependency_planner.py:1`
  says "same-file conflicts serialized". One declared dependency against the list order of
  two tasks on one file is enough. The planners of the repository only produce forward
  lists, for which `ForwardNeverCyclic` is proved, and the properties of the milestone
  exclude the fallback explicitly (`Ordered`, `~cyclic`).
- *The gate.* `src/docs/release_gate.md:14` lists a missing delivery report among the reasons
  against a release, and the gate adds none (`gates/release_gate.py:76`); a bug fix
  followed by verify and release-check can be ReleaseReady with no gate having run; a
  stored verification or decision is not withdrawn when milestones are executed again
  (what saves `ReadyIsReal` is that `Complete` and the mock mark are read from the
  milestones' own results).
- *Replays.* `resume_from_milestone` deletes the later directories before the snapshot that
  `_snapshot_run` takes "BEFORE overwriting anything" (`flows/replay_flow.py:111-134`,
  `389-453`). Its check that the directory of the milestone exists can only refuse after an
  earlier resume removed it, because `init_run` makes all of them.
- *Observing the tree.* `_fs_observer.py` compares sets of dirty paths: a file that was dirty
  before the call, as after a first attempt, is not named when the call edits it again,
  and `agents/code_reviewer.py:60` judges by those names. `ChangesReported` excuses exactly this.
- *Recordings.* With both directories set, `recording_executor.py:104-109` returns a replayed
  result before anything is recorded; lines 15-17 say that "replayed responses can be re-recorded into a different
  directory".
- *MCP.* The server logs every tool call to a stderr that the clients open as a pipe and never
  read (`adapters/self_mcp_client.py:139`): when it is full, the server stands still inside
  a call and the client waits for its line without a timeout. `McpSession` reaches that
  state, which is why deadlock is not checked there.
- *Sprint watcher.* Of two files saved within one debounce window only the last is reloaded
  (`_watcher.py:108`).
- *Multi-patch.* `mock_used` of the vote means that some candidate has no passing test
  (`flows/multi_patch_flow.py:173`). The tasks of all candidates have the same ids, which is
  why `IdsAreUnique` excuses them.
- *Scaffold tasks.* The tasks of M1 name `src/__init__.py` and `tests/.gitkeep`, which no skeleton
  contains, so the filter of what "already exists on disk" never drops them
  (`flows/project_delivery_flow.py:169-171`).
- *Issues.* The milestone of an issue lists no task, although it has one
  (`flows/issue_pipeline_flow.py:121-133`); `MilestonesListTheirs` excuses it.
- *Groups.* A manifest says "success" of a delivery whose result says "failed"
  (`flows/multi_repo_flow.py:311` and `:327`), and one that cannot be written makes an error
  without the id of its run. `ManifestsAreLast` therefore says no more of a manifest's status than
  whether it is an error.
- *Section reviews.* A report that is validated again counts its findings once more
  (`schemas.py:756-780`).

## 6 What is not modelled

- Text: prompts, documents, plans' contents, command lines, parsing, redaction. The outcome
  of a task, a lint, a critic, a gate is a free choice. This is most of the code by lines:
  agents that turn text into text, schemas, renderers, static checks, and the options of
  the command line. They keep no state over which an order of steps could matter, so a
  module about them would restate them; that is why the map covers about a third of
  the lines, and nearly all of those where several actors meet.
- The rules by which AUTO prefers one CLI, the cost budget, router metrics and the
  list `backends_used`: no modelled decision reads them. The unlocked counters among them
  (`schemas.py:591`, incremented by pool threads) can lose an update; nothing that is modelled
  would notice. Nor does anything modelled read what the advisor of the next step recommends
  from a stored decision (`agents/next_step_advisor.py:48`).
- `critical_path` of the planner and `sprint status`, which only read; `correct_course`, which
  writes a proposal and leaves the tasks alone.
- The results that a replayed implementation loop *appends* to those of the first delivery
  (`flows/step_definitions/project_delivery_steps.py:279`): the context of `StepRunner` has keys, not lists. A crash inside the save of `run_state.json`
  in `StepRunner` (it is in `RunLifecycle`), and two processes that execute steps of one run
  at the same time.
- *Planners*: titles, prompts and boundaries of tasks, the legacy milestone M0, the variant of the
  decomposer in three passes, and `enforce_readiness`, which no flow turns on.
- *Human review gate*: a sentinel left by an earlier review answers the next one at once
  (`agents/human_review_gate.py:111`). The code means any sentinel that is there, and so does
  `DecisionsAreHeeded`.
- *Shell, sandbox, patch parser*: wrappers and pattern lists.
- *Scanners, reports, configuration, doctor*: static checks of files. Those of the release
  readiness gate are modelled, because another decision is made of them.
- *CrewAI flows*: the same agents, orchestrated by a library outside of the repository.
- What the tools of the MCP server do in the flows that they call (which are modelled), and the
  flags commit, push and tag, which their handlers only repeat in the answer.
- Servers that are not autodev's, the network, `watchdog` and the editor are modelled from how
  the code uses them, as environments that may do anything it has to expect.

## 7 Plan

Done, in this order: `DependencyPlanner`; `TaskSchedule` and `MilestoneRun`;
`RunLifecycle`; `StepRunner` and `DeliverySteps`; `A2AExchange` and `Roundtable`;
`FileWatcher`; `SprintFlow`, `TournamentGate`, `McpSession`; `TaskReadiness`; the issue and
multi-patch flows; `ReplayArtifacts` and `ExecutorCalls`; `ReadinessGate`, `McpTools` and
`WorkerIsolation`; `DeliveryPlanning`, `GroupDelivery`, `SectionReview` and `HumanReview`; with the proofs of section 4, which by now state every safety property of
the runs.

Left:

1. Proofs: the parts of `ContinueNeverRedoes` that hold of processes which overlap; a
   refinement between `MilestoneRun` and the step `Implement` of `RunLifecycle`, of which
   `MilestonesAreMarked` is the part about mocks.
2. The appended results of a replayed implementation loop, as a list in the context of
   `StepRunner`.
3. Overlapping step runs of one run, with the record saved by both.
4. A composition of `DeliveryPlanning` with `MilestoneRun`, whose task lists are a constant now:
   `ListsAreForward` is the assumption under which the two meet.

## 8 Working with the project

`tlc -workers 2 -config MCMilestoneRun.cfg MCMilestoneRun` checks a run (the pairs of
module and configuration are in `PROJECT.json`); `tlapm WorkbenchProofs.tla` checks
the proofs of a module. `PROJECT.json` also maps every definition to the lines
it models: when those change, the definition is what has to be reviewed.
