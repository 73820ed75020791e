---------------------------- MODULE MilestoneRun ----------------------------
(***************************************************************************)
(* ImplementerAgent.run_milestone (agents/implementer.py) executing one    *)
(* milestone: the planner's waves, run_parallel and its thread pool        *)
(* (utils/concurrency.py), the lint-retry and critic loops of each task,   *)
(* ExecutorRouter.decide / execute (executors/executor_router.py) with     *)
(* CLIs that come and go, the recording of every call in the run state     *)
(* (state.py, schemas.py), and the ImplementationResult at the end.        *)
(*                                                                         *)
(* The pool's threads interleave at every call that leaves the thread.     *)
(* Abstracted: prompts, patches, timings and the text of results; the      *)
(* rules by which AUTO prefers one CLI (either may be preferred); router   *)
(* metrics; the artifact files a task leaves.                              *)
(***************************************************************************)
EXTENDS Naturals, FiniteSets, Sequences

CONSTANTS Files, TaskLists,    (* as in DependencyPlanner                  *)
          OptIn,        (* the adapters used only when asked for: gemini,
                           qwen, aider                                     *)
          Preferences,  (* the backends tasks may prefer                   *)
          Settings,     (* the options run_milestone may be called with    *)
          MaxLintRetries,      (* _MAX_LINT_RETRIES                        *)
          ClusterThreshold     (* failure_cluster_threshold                *)

VARIABLES tasks, remaining, batches, cyclic    (* DependencyPlanner        *)

Planner == INSTANCE DependencyPlanner

Real == {"codex", "claude_code"}            (* routed by AUTO              *)
Mock == {"mock_codex", "mock_claude"}
CLIs == Real \cup OptIn
Backends == CLIs \cup Mock

MockOf == [b \in Real |-> IF b = "codex" THEN "mock_codex" ELSE "mock_claude"]

Setting == [concurrency : Nat, failFast : BOOLEAN, allowMock : BOOLEAN,
            lint : BOOLEAN, critic : Nat]

ASSUME MilestoneAssumption ==
  /\ \A ts \in TaskLists : Planner!IsTaskList(ts)
  /\ OptIn \cap (Real \cup Mock \cup {"auto"}) = {}
  /\ Preferences \subseteq Backends \cup {"auto"}
  /\ Settings \subseteq Setting
  /\ MaxLintRetries \in Nat
  /\ ClusterThreshold \in Nat

VARIABLES
  opts,         (* concurrency, fail_fast, allow_mock, post_edit_lint,
                   evaluator_optimizer_iters                               *)
  preferred,    (* preferred_executor of every task                        *)
  available,    (* what is_available() answers for every CLI, right now    *)
  phase,        (* run_milestone: planning, running, reporting, done, or
                   raised (an exception left it)                           *)
  wave,         (* index of the wave in the pool                           *)
  pc,           (* where each task's call of _run_task_with_loops is       *)
  loop,         (* the loop it is in: "lint" or "critic"                   *)
  attempt,      (* iterations of the lint loop so far                      *)
  iter,         (* iterations of the critic loop so far                    *)
  call,         (* the locals of its call of router.execute: the backend
                   decided on, and the success of the ExecutionResult      *)
  kept,         (* the result the task would return now                    *)
  calls,        (* lines of execution_calls.jsonl per task                 *)
  ranMock,      (* tasks for which a mock executor returned a result       *)
  mockUsed,     (* state.mock_execution_used                               *)
  results,      (* tasks whose result run_milestone has collected          *)
  report        (* the ImplementationResult; success is FALSE before       *)

plannerVars == <<tasks, remaining, batches, cyclic>>
inputVars == <<opts, preferred>>
taskVars == <<pc, loop, attempt, iter, call, kept, calls, ranMock, mockUsed>>
mainVars == <<phase, wave, results, report>>
vars == <<plannerVars, inputVars, available, taskVars, mainVars>>

-----------------------------------------------------------------------------
NoCall == [backend |-> "none", ok |-> FALSE]
NoResult == [ok |-> FALSE, mock |-> FALSE]
NoReport == [success |-> FALSE, mock |-> FALSE, failed |-> {}, reviewed |-> FALSE]

Positions == DOMAIN tasks
Ended == { t \in Positions : pc[t] \in {"returned", "raised"} }
Waiting == { t \in Positions : pc[t] = "waiting" }
InFlight == (Positions \ Ended) \ Waiting
Raised == { t \in Positions : pc[t] = "raised" }

Init == /\ Planner!Init
        /\ opts \in Settings
        /\ preferred \in [Positions -> Preferences]
        /\ available \in [CLIs -> BOOLEAN]
        /\ phase = "planning" /\ wave = 0 /\ results = {} /\ report = NoReport
        /\ pc = [t \in Positions |-> "waiting"]
        /\ loop = [t \in Positions |-> "lint"]
        /\ attempt = [t \in Positions |-> 1]
        /\ iter = [t \in Positions |-> 0]
        /\ call = [t \in Positions |-> NoCall]
        /\ kept = [t \in Positions |-> NoResult]
        /\ calls = [t \in Positions |-> 0]
        /\ ranMock = {} /\ mockUsed = FALSE

(* dep_planner.waves(milestone_tasks)                                      *)
Plan == /\ phase = "planning"
        /\ Planner!Next
        /\ UNCHANGED <<inputVars, available, taskVars, mainVars>>

(* The waves are known; a milestone without tasks succeeds at once.        *)
BeginRun == /\ phase = "planning" /\ remaining = {}
            /\ IF Positions = {}
               THEN /\ phase' = "done"
                    /\ report' = [NoReport EXCEPT !.success = TRUE]
                    /\ UNCHANGED wave
               ELSE phase' = "running" /\ wave' = 1 /\ UNCHANGED report
            /\ UNCHANGED <<plannerVars, inputVars, available, taskVars, results>>

(* A CLI appears on or disappears from PATH: the environment, at any
   moment.  (FACTORY_FORCE_MOCK, which is_available() also reads, is set
   before the process starts: it is an initial value of available.)        *)
CliChange == /\ phase = "running"
             /\ \E b \in CLIs : available' = [available EXCEPT ![b] = ~@]
             /\ UNCHANGED <<plannerVars, inputVars, taskVars, mainVars>>
-----------------------------------------------------------------------------
(* run_parallel: a pool of workers, or a plain loop when that is as good.  *)

(* Mutant: every task goes into the pool at once.                          *)
WaveOfAll == Positions

Wave == batches[wave]
Pooled == opts.concurrency > 1 /\ Cardinality(Wave) > 1
Workers == IF Pooled THEN opts.concurrency ELSE 1

(* Mutant: one worker fewer than asked for.                                *)
StartWithFewer(t) ==
  /\ phase = "running" /\ t \in Wave /\ pc[t] = "waiting"
  /\ \A u \in Wave : u < t => pc[u] # "waiting"
  /\ Cardinality(InFlight) + 1 < Workers
  /\ ~Pooled => Raised \cap Wave = {}
  /\ pc' = [pc EXCEPT ![t] = "routing"]
  /\ UNCHANGED <<plannerVars, inputVars, available, mainVars, loop, attempt,
                 iter, call, kept, calls, ranMock, mockUsed>>

(* A worker takes the next item, in submission order.  The plain loop stops
   at an exception; the pool is not cancelled by one.                      *)
Start(t) == /\ phase = "running" /\ t \in Wave /\ pc[t] = "waiting"
            /\ \A u \in Wave : u < t => pc[u] # "waiting"
            /\ Cardinality(InFlight) < Workers
            /\ ~Pooled => Raised \cap Wave = {}
            /\ pc' = [pc EXCEPT ![t] = "routing"]
            /\ UNCHANGED <<plannerVars, inputVars, available, mainVars, loop, attempt,
                           iter, call, kept, calls, ranMock, mockUsed>>

(* router.decide: an explicit backend or AUTO's choice of a real CLI, whose
   mock replaces it when it is missing and mocks are allowed.              *)
(* Mutant: a missing CLI is replaced whether or not mocks are allowed.     *)
SubstituteAnyway(b) == IF b \in Real /\ ~available[b] THEN MockOf[b] ELSE b

Substitute(b) ==
  IF b \in Real /\ ~available[b] /\ opts.allowMock THEN MockOf[b] ELSE b

Decide(t) ==
  /\ pc[t] = "routing"
  /\ \E b \in IF preferred[t] = "auto" THEN Real ELSE {preferred[t]} :
        /\ call' = [call EXCEPT ![t] = [backend |-> Substitute(b), ok |-> FALSE]]
        /\ pc' = [pc EXCEPT ![t] = IF Substitute(b) \in Real THEN "checking" ELSE "calling"]
  /\ UNCHANGED <<plannerVars, inputVars, available, mainVars, loop, attempt, iter,
                 kept, calls, ranMock, mockUsed>>

(* router.execute asks is_available() again: a real CLI that is missing by
   now fails closed, even where a mock would have been allowed.            *)
Check(t) ==
  /\ pc[t] = "checking"
  /\ pc' = [pc EXCEPT ![t] = IF available[call[t].backend] THEN "calling" ELSE "recording"]
  /\ UNCHANGED <<plannerVars, inputVars, available, mainVars, loop, attempt, iter,
                 call, kept, calls, ranMock, mockUsed>>

(* executor.execute returns: a mock succeeds, a CLI exits with any code, or
   fails because it is missing by now.                                     *)
Call(t) ==
  /\ pc[t] = "calling"
  /\ \E ok \in BOOLEAN :
        /\ call[t].backend \in Mock => ok
        /\ call[t].backend \in CLIs /\ ~available[call[t].backend] => ~ok
        /\ call' = [call EXCEPT ![t].ok = ok]
  /\ pc' = [pc EXCEPT ![t] = "recording"]
  /\ ranMock' = IF call[t].backend \in Mock THEN ranMock \cup {t} ELSE ranMock
  /\ UNCHANGED <<plannerVars, inputVars, available, mainVars, loop, attempt, iter,
                 kept, calls, mockUsed>>

(* Mutant: a task that raised is put back into the wave.                   *)
FailRequeues(t) ==
  /\ pc[t] \in {"calling", "recording", "linting", "judging"}
  /\ pc' = [pc EXCEPT ![t] = "waiting"]
  /\ call' = [call EXCEPT ![t] = NoCall]
  /\ UNCHANGED <<plannerVars, inputVars, available, mainVars, loop, attempt, iter,
                 kept, calls, ranMock, mockUsed>>

(* An exception ends the task: an executor that cannot parse what the CLI
   wrote, or a file that cannot be written, before or after the call was
   logged and the backend marked.                                          *)
Fail(t) ==
  /\ pc[t] \in {"calling", "recording", "linting", "judging"}
  /\ pc' = [pc EXCEPT ![t] = "raised"]
  /\ call' = [call EXCEPT ![t] = NoCall]
  /\ \/ UNCHANGED <<calls, mockUsed>>
     \/ /\ pc[t] = "recording"
        /\ calls' = [calls EXCEPT ![t] = @ + 1]
        /\ mockUsed' \in {mockUsed, mockUsed \/ call[t].backend \in Mock}
  /\ UNCHANGED <<plannerVars, inputVars, available, mainVars, loop, attempt, iter,
                 kept, ranMock>>

-----------------------------------------------------------------------------
(* Where a task goes from the end of the lint loop.                        *)
AfterLint(t, ok) == IF opts.critic > 0 /\ ok THEN "judging" ELSE "returned"
LoopAfterLint(t, ok) == IF opts.critic > 0 /\ ok THEN "critic" ELSE loop[t]

(* The result router.execute returned.                                     *)
Fresh(t) == [ok |-> call[t].ok, mock |-> call[t].backend \in Mock]

(* run.append_execution_call and mark_backend.                             *)
Record(t) == /\ pc[t] = "recording"
             /\ calls' = [calls EXCEPT ![t] = @ + 1]
             /\ mockUsed' = (mockUsed \/ Fresh(t).mock)
             /\ call' = [call EXCEPT ![t] = NoCall]
             /\ UNCHANGED ranMock

(* The lint loop keeps the result whatever it is.                          *)
RecordInLint(t) ==
  /\ Record(t) /\ loop[t] = "lint"
  /\ kept' = [kept EXCEPT ![t] = Fresh(t)]
  /\ IF opts.lint /\ Fresh(t).ok
     THEN pc' = [pc EXCEPT ![t] = "linting"] /\ UNCHANGED loop
     ELSE /\ pc' = [pc EXCEPT ![t] = AfterLint(t, Fresh(t).ok)]
          /\ loop' = [loop EXCEPT ![t] = LoopAfterLint(t, Fresh(t).ok)]
  /\ UNCHANGED <<plannerVars, inputVars, available, mainVars, attempt, iter>>

(* The critic loop replaces a result only by a success.                    *)
RecordInCritic(t) ==
  /\ Record(t) /\ loop[t] = "critic"
  /\ kept' = [kept EXCEPT ![t] = IF Fresh(t).ok THEN Fresh(t) ELSE @]
  /\ iter' = [iter EXCEPT ![t] = @ + 1]
  /\ pc' = [pc EXCEPT ![t] = IF iter[t] + 1 = opts.critic THEN "returned" ELSE "judging"]
  /\ UNCHANGED <<plannerVars, inputVars, available, mainVars, loop, attempt>>

(* Mutant: one retry too many.                                             *)
LintOnceMore(t) ==
  /\ pc[t] = "linting"
  /\ \/ /\ pc' = [pc EXCEPT ![t] = AfterLint(t, TRUE)]
        /\ loop' = [loop EXCEPT ![t] = LoopAfterLint(t, TRUE)]
        /\ UNCHANGED attempt
     \/ /\ attempt[t] <= MaxLintRetries + 1
        /\ attempt' = [attempt EXCEPT ![t] = @ + 1]
        /\ pc' = [pc EXCEPT ![t] = "routing"]
        /\ UNCHANGED loop
  /\ UNCHANGED <<plannerVars, inputVars, available, mainVars, iter, call, kept,
                 calls, ranMock, mockUsed>>

(* PostEditLintGate passes, or fails for the last time: the task goes on
   with what it has; or it fails and the task is executed again.           *)
Lint(t) ==
  /\ pc[t] = "linting"
  /\ \/ /\ pc' = [pc EXCEPT ![t] = AfterLint(t, TRUE)]
        /\ loop' = [loop EXCEPT ![t] = LoopAfterLint(t, TRUE)]
        /\ UNCHANGED attempt
     \/ /\ attempt[t] <= MaxLintRetries
        /\ attempt' = [attempt EXCEPT ![t] = @ + 1]
        /\ pc' = [pc EXCEPT ![t] = "routing"]
        /\ UNCHANGED loop
  /\ UNCHANGED <<plannerVars, inputVars, available, mainVars, iter, call, kept,
                 calls, ranMock, mockUsed>>

(* critic.evaluate: done, or another pass.                                 *)
Judge(t) ==
  /\ pc[t] = "judging"
  /\ \E next \in {"returned", "routing"} : pc' = [pc EXCEPT ![t] = next]
  /\ UNCHANGED <<plannerVars, inputVars, available, mainVars, loop, attempt, iter,
                 call, kept, calls, ranMock, mockUsed>>

-----------------------------------------------------------------------------
(* Back in run_milestone when run_parallel is over: every worker is idle
   and no item is left, or the plain loop met an exception.                *)
WaveOver == /\ phase = "running" /\ InFlight = {}
            /\ \/ Wave \subseteq Ended
               \/ ~Pooled /\ Raised \cap Wave # {}

Escapes == Raised \cap Wave # {} /\ (~Pooled \/ opts.failFast)

(* fut.result() raises, or fn(it) did: no result, no report.               *)
Propagate == /\ WaveOver /\ Escapes
             /\ phase' = "raised"
             /\ UNCHANGED <<plannerVars, inputVars, available, taskVars, wave, results,
                            report>>

Failed(rs) == { t \in rs : ~kept[t].ok }

(* Mutants: the None is collected as a result; no failure stops.           *)
CollectWithNone ==
  /\ WaveOver /\ ~Escapes
  /\ results' = results \cup (Wave \ Raised)
                         \cup (IF Raised \cap Wave # {} THEN {0} ELSE {})
  /\ IF wave = Len(batches) \/ (opts.failFast /\ Failed(results') # {})
     THEN phase' = "reporting" /\ UNCHANGED wave
     ELSE wave' = wave + 1 /\ UNCHANGED phase
  /\ UNCHANGED <<plannerVars, inputVars, available, taskVars, report>>
CollectWithoutStop ==
  /\ WaveOver /\ ~Escapes
  /\ results' = results \cup (Wave \ Raised)
  /\ IF wave = Len(batches)
     THEN phase' = "reporting" /\ UNCHANGED wave
     ELSE wave' = wave + 1 /\ UNCHANGED phase
  /\ UNCHANGED <<plannerVars, inputVars, available, taskVars, report>>

(* The results are collected; an item that raised left None, which is
   skipped.  A failure stops the milestone if fail_fast.                   *)
Collect == /\ WaveOver /\ ~Escapes
           /\ results' = results \cup (Wave \ Raised)
           /\ IF wave = Len(batches) \/ (opts.failFast /\ Failed(results') # {})
              THEN phase' = "reporting" /\ UNCHANGED wave
              ELSE wave' = wave + 1 /\ UNCHANGED phase
           /\ UNCHANGED <<plannerVars, inputVars, available, taskVars, report>>

(* The ImplementationResult, and the review of a cluster of failures.      *)
Report ==
  /\ phase = "reporting"
  /\ phase' = "done"
  /\ report' = [success |-> Failed(results) = {},
                mock |-> \E t \in results : kept[t].mock,
                failed |-> Failed(results),
                reviewed |-> /\ ClusterThreshold > 0
                             /\ Cardinality(Failed(results)) >= ClusterThreshold]
  /\ UNCHANGED <<plannerVars, inputVars, available, taskVars, wave, results>>

-----------------------------------------------------------------------------
TaskStep(t) == \/ Start(t) \/ Decide(t) \/ Check(t) \/ Call(t) \/ Fail(t)
               \/ RecordInLint(t) \/ RecordInCritic(t) \/ Lint(t) \/ Judge(t)

Progress == \/ Plan \/ BeginRun
            \/ \E t \in Positions : TaskStep(t)
            \/ Propagate \/ Collect \/ Report

Next == Progress \/ CliChange

(* Some thread that can go on goes on: executors bound every CLI call by a
   timeout, and neither the pool nor the main thread waits for anything but
   them.  Nothing is assumed of the CLIs' presence.                        *)
Spec == Init /\ [][Next]_vars /\ WF_vars(Progress)
-----------------------------------------------------------------------------
PC == {"waiting", "routing", "checking", "calling", "recording", "linting",
       "judging", "returned", "raised"}

(* The variables have their types.                                         *)
TypeOK == /\ Planner!TypeOK
          /\ opts \in Settings
          /\ preferred \in [Positions -> Preferences]
          /\ available \in [CLIs -> BOOLEAN]
          /\ phase \in {"planning", "running", "reporting", "done", "raised"}
          /\ wave \in Nat
          /\ pc \in [Positions -> PC]
          /\ loop \in [Positions -> {"lint", "critic"}]
          /\ attempt \in [Positions -> Nat] /\ iter \in [Positions -> Nat]
          /\ call \in [Positions -> [backend : Backends \cup {"none"}, ok : BOOLEAN]]
          /\ kept \in [Positions -> [ok : BOOLEAN, mock : BOOLEAN]]
          /\ calls \in [Positions -> Nat]
          /\ ranMock \subseteq Positions /\ mockUsed \in BOOLEAN
          /\ results \subseteq Positions
          /\ report \in [success : BOOLEAN, mock : BOOLEAN,
                         failed : SUBSET Positions, reviewed : BOOLEAN]

(* The pool never starts a task before the tasks it waits for have ended,
   unless the waves gave up on a cycle.                                    *)
DependenciesFirst ==
  ~cyclic => \A t \in Positions \ Waiting :
                Planner!Incoming(tasks, t) \subseteq Ended

(* No two threads ever work on one file, or on two high-risk tasks.        *)
NoClashInFlight ==
  ~cyclic => \A t, u \in InFlight : t # u => ~Planner!Clash(tasks, t, u)

(* What the waves are for, in every interleaving of the pool.              *)
WavesRespected == DependenciesFirst /\ NoClashInFlight

(* With fail_fast nothing of a later wave starts once a task failed or
   raised: work is not built on work that is missing.                      *)
FailFastHalts ==
  opts.failFast =>
     \A i, j \in DOMAIN batches : i < j /\ ~(batches[j] \subseteq Waiting) =>
        \A t \in batches[i] : pc[t] = "returned" /\ kept[t].ok

(* With fail_fast a milestone reported as successful executed every one of
   its tasks with success.                                                 *)
SuccessIsComplete ==
  opts.failFast /\ phase = "done" /\ report.success =>
     \A t \in Positions : pc[t] = "returned" /\ kept[t].ok

(* fail_fast stops in time and does not call a part the whole.             *)
FailFastSound == FailFastHalts /\ SuccessIsComplete

(* A task that reached the critic was a success and stays one, however the
   passes the critic asks for end.                                         *)
CriticKeepsSuccess ==
  \A t \in Positions : loop[t] = "critic" => kept[t].ok

(* Fail-closed: where mocks are not allowed and no task asked for one, no
   mock executes, whenever CLIs come and go.                               *)
FailClosed ==
  ~opts.allowMock /\ (\A t \in Positions : preferred[t] \notin Mock) =>
     ranMock = {} /\ ~mockUsed

(* A mock that executed for a task that returned is on record, also when
   the result it gave was replaced later.                                  *)
MockOnRecord ==
  \A t \in ranMock : pc[t] = "returned" => mockUsed

(* Mocks are where they were allowed, and never unseen.                    *)
MocksAccountedFor == FailClosed /\ MockOnRecord

(* The loops are bounded, and every execution of the task is in the log.   *)
CallsBounded ==
  \A t \in Positions :
     /\ calls[t] <= MaxLintRetries + 1 + opts.critic
     /\ pc[t] = "returned" => calls[t] = attempt[t] + iter[t]

(* The two retry loops around one call end, and lose nothing they had.     *)
RetriesSound == CallsBounded /\ CriticKeepsSuccess

(* run_milestone returns or raises.                                        *)
Terminates == <>(phase \in {"done", "raised"})

(* What tasks must wait for and exclude, in task lists in dependency order
   (others may be given up on).                                            *)
InOrder == Planner!Forward(tasks)
MustWait == { e \in Positions \X Positions :
                InOrder /\ e[1] \in Planner!Incoming(tasks, e[2]) }
Exclude == { e \in Positions \X Positions :
               InOrder /\ e[1] # e[2] /\ Planner!Clash(tasks, e[1], e[2]) }

Schedule == INSTANCE TaskSchedule WITH
  order <- MustWait, exclusive <- Exclude,
  todo <- Waiting, running <- InFlight, ended <- Ended

(* Every milestone is executed as TaskSchedule promises.                   *)
ImplementsSchedule == Schedule!Spec

(* "Continue past failures, report at end": every task that ended without
   success is a failed task of the report.                                 *)
FailuresAreReported ==
  phase = "done" =>
     \A t \in Ended : pc[t] = "raised" \/ ~kept[t].ok => t \in report.failed
=============================================================================
