------------------------- MODULE MilestoneRunProofs -------------------------
(* Proofs about MilestoneRun for every task list, every setting and any
   behaviour of the CLIs.  What the waves are good for comes from the proofs
   about the planner, instantiated here for the planner's variables.       *)
EXTENDS MilestoneRun, TLAPS

P == INSTANCE DependencyPlannerProofs

-----------------------------------------------------------------------------
(* The planner inside MilestoneRun is the planner of those proofs.         *)
LEMMA SameEdges ==
  \A ts, a, b : /\ Planner!Edge(ts, a, b) = P!Edge(ts, a, b)
                /\ Planner!Clash(ts, a, b) = P!Clash(ts, a, b)
  BY DEF Planner!Edge, P!Edge, Planner!SameFilePair, P!SameFilePair, Planner!HighRiskPair,
         P!HighRiskPair, Planner!Shares, P!Shares, Planner!Clash, P!Clash

LEMMA SameIncoming == \A ts, b : Planner!Incoming(ts, b) = P!Incoming(ts, b)
  BY SameEdges DEF Planner!Incoming, P!Incoming

LEMMA SameTypes == Planner!TypeOK <=> P!TypeOK
  BY DEF Planner!TypeOK, P!TypeOK, Planner!IsTaskList, P!IsTaskList, Planner!Task, P!Task

(* The assumption of the planner's proofs is one of ours.                  *)
LEMMA PlannerAssumption == P!TaskListsAssumption
  BY MilestoneAssumption DEF P!TaskListsAssumption, MilestoneAssumption,
     Planner!IsTaskList, P!IsTaskList, Planner!Task, P!Task

(* What is known of the plan at every moment.                              *)
PlanInv == P!PlannerInv /\ P!ForwardNeverCyclic

LEMMA PlanInit == Planner!Init => PlanInv
<1> SUFFICES ASSUME Planner!Init PROVE PlanInv
  OBVIOUS
<1>1. P!Init
  BY DEF Planner!Init, P!Init
<1>2. P!PlannerInv
  BY <1>1, PlannerAssumption, P!PlannerInit DEF P!PlannerInit
<1>3. P!ForwardNeverCyclic
  BY <1>1 DEF P!Init, P!ForwardNeverCyclic
<1> QED
  BY <1>2, <1>3 DEF PlanInv

LEMMA PlanStep == PlanInv /\ [Planner!Next]_plannerVars => PlanInv'
<1> SUFFICES ASSUME PlanInv, [Planner!Next]_plannerVars PROVE PlanInv'
  OBVIOUS
<1>1. Planner!Ready = P!Ready
  BY SameIncoming DEF Planner!Ready, P!Ready
<1>2. [P!Next]_(P!vars)
  BY <1>1 DEF plannerVars, P!vars, Planner!Next, P!Next, Planner!PlaceBatch, P!PlaceBatch,
              Planner!CycleFallback, P!CycleFallback
<1>3. P!PlannerInv'
  BY <1>2, PlannerAssumption, P!PlannerStep DEF P!PlannerStep, PlanInv
<1>4. P!ForwardNeverCyclic'
  BY <1>2, PlannerAssumption, P!ForwardStep DEF P!ForwardStep, PlanInv, P!PlannerInv
<1> QED
  BY <1>3, <1>4 DEF PlanInv

-----------------------------------------------------------------------------
(* Every step of a task leaves the plan, the inputs and run_milestone's own
   variables alone.                                                        *)
LEMMA TaskStepFrame ==
  ASSUME NEW t \in Positions, TaskStep(t)
  PROVE  UNCHANGED <<plannerVars, inputVars, available, mainVars>>
  BY DEF TaskStep, Start, Decide, Check, Call, Fail, RecordInLint, RecordInCritic, Record,
         Lint, Judge

(* The variables of the tasks have their types.                            *)
TaskTypes ==
  /\ pc \in [Positions -> PC]
  /\ loop \in [Positions -> {"lint", "critic"}]
  /\ attempt \in [Positions -> Nat] /\ iter \in [Positions -> Nat]
  /\ call \in [Positions -> [backend : Backends \cup {"none"}, ok : BOOLEAN]]
  /\ kept \in [Positions -> [ok : BOOLEAN, mock : BOOLEAN]]
  /\ calls \in [Positions -> Nat]
  /\ ranMock \subseteq Positions /\ mockUsed \in BOOLEAN

InputTypes == /\ opts \in Settings
              /\ preferred \in [Positions -> Preferences]
              /\ available \in [CLIs -> BOOLEAN]

MainTypes == /\ phase \in {"planning", "running", "reporting", "done", "raised"}
             /\ wave \in Nat
             /\ results \subseteq Positions
             /\ report \in [success : BOOLEAN, mock : BOOLEAN,
                            failed : SUBSET Positions, reviewed : BOOLEAN]

LEMMA TypeParts == TypeOK <=> Planner!TypeOK /\ InputTypes /\ TaskTypes /\ MainTypes
  BY DEF TypeOK, InputTypes, TaskTypes, MainTypes

LEMMA TaskTypesStep ==
  ASSUME InputTypes, TaskTypes, NEW t \in Positions, TaskStep(t)
  PROVE  TaskTypes'
<1>1. Positions' = Positions
  BY TaskStepFrame DEF plannerVars, Positions
<1>2. opts \in Setting /\ preferred[t] \in Backends \cup {"auto"}
  BY MilestoneAssumption DEF InputTypes, MilestoneAssumption
<1>3. CASE Start(t)
  BY <1>1, <1>3 DEF Start, TaskTypes, PC
<1>4. CASE Decide(t)
  <2>1. PICK b \in IF preferred[t] = "auto" THEN Real ELSE {preferred[t]} :
             /\ call' = [call EXCEPT ![t] = [backend |-> Substitute(b), ok |-> FALSE]]
             /\ pc' = [pc EXCEPT ![t] = IF Substitute(b) \in Real THEN "checking" ELSE "calling"]
    BY <1>4 DEF Decide
  <2>2. Substitute(b) \in Backends
    BY <1>2, <2>1 DEF Substitute, Backends, CLIs, Real, Mock, MockOf
  <2> QED
    BY <1>1, <1>4, <2>1, <2>2 DEF Decide, TaskTypes, PC
<1>5. CASE Check(t)
  BY <1>1, <1>5 DEF Check, TaskTypes, PC
<1>6. CASE Call(t)
  BY <1>1, <1>6 DEF Call, TaskTypes, PC
<1>7. CASE Fail(t)
  <2>1. mockUsed' \in BOOLEAN
    BY <1>7, Zenon DEF Fail, TaskTypes
  <2>2. calls' \in [Positions -> Nat]
    BY <1>7 DEF Fail, TaskTypes
  <2>3. /\ pc' = [pc EXCEPT ![t] = "raised"] /\ call' = [call EXCEPT ![t] = NoCall]
        /\ UNCHANGED <<loop, attempt, iter, kept, ranMock>>
    BY <1>7 DEF Fail
  <2> QED
    BY <1>1, <2>1, <2>2, <2>3 DEF TaskTypes, PC, NoCall
<1>8. CASE RecordInLint(t)
  <2>1. mockUsed' \in BOOLEAN
    BY <1>8, Zenon DEF RecordInLint, Record, TaskTypes
  <2>2. pc' \in [Positions -> PC] /\ loop' \in [Positions -> {"lint", "critic"}]
    BY <1>8 DEF RecordInLint, TaskTypes, PC, AfterLint, LoopAfterLint
  <2>3. /\ calls' = [calls EXCEPT ![t] = @ + 1]
        /\ call' = [call EXCEPT ![t] = NoCall]
        /\ kept' = [kept EXCEPT ![t] = Fresh(t)]
        /\ UNCHANGED <<attempt, iter, ranMock>>
    BY <1>8 DEF RecordInLint, Record
  <2> QED
    BY <1>1, <2>1, <2>2, <2>3 DEF TaskTypes, NoCall, Fresh
<1>9. CASE RecordInCritic(t)
  BY <1>1, <1>9 DEF RecordInCritic, Record, Fresh, TaskTypes, PC, NoCall
<1>10. CASE Lint(t)
  <2>1. pc' \in [Positions -> PC] /\ loop' \in [Positions -> {"lint", "critic"}]
    BY <1>10 DEF Lint, TaskTypes, PC, AfterLint, LoopAfterLint
  <2>2. attempt' = attempt \/ attempt' = [attempt EXCEPT ![t] = @ + 1]
    BY <1>10, Zenon DEF Lint
  <2>3. UNCHANGED <<iter, call, kept, calls, ranMock, mockUsed>>
    BY <1>10 DEF Lint
  <2>4. attempt' \in [Positions -> Nat]
    <3>1. attempt \in [Positions -> Nat]
      BY DEF TaskTypes
    <3> QED
      BY <2>2, <3>1
  <2> QED
    BY <1>1, <2>1, <2>3, <2>4 DEF TaskTypes
<1>11. CASE Judge(t)
  BY <1>1, <1>11 DEF Judge, TaskTypes, PC
<1> QED
  BY <1>3, <1>4, <1>5, <1>6, <1>7, <1>8, <1>9, <1>10, <1>11 DEF TaskStep

(* The other kinds of step: run_milestone's own, and those of the outside. *)
MainStep == BeginRun \/ Propagate \/ Collect \/ Report

LEMMA MainFrame ==
  ASSUME MainStep
  PROVE  UNCHANGED <<plannerVars, inputVars, available, taskVars>>
  BY DEF MainStep, BeginRun, Propagate, Collect, Report

LEMMA Steps ==
  ASSUME [Next]_vars
  PROVE  \/ Plan \/ MainStep \/ CliChange \/ UNCHANGED vars
         \/ \E t \in Positions : TaskStep(t)
  BY DEF Next, Progress, MainStep

-----------------------------------------------------------------------------
(* How far run_milestone is.  A batch is closed when its pool is over and
   its results are in.                                                     *)
Closed(i) == i < wave \/ (i = wave /\ phase \in {"reporting", "done"})

WaveInv ==
  /\ phase = "planning" => wave = 0 /\ Waiting = Positions /\ results = {}
  /\ phase # "planning" => remaining = {}
  /\ phase \in {"running", "reporting"} => wave \in DOMAIN batches
  /\ phase = "done" => wave \in DOMAIN batches \/ Positions = {}
  /\ phase # "running" => InFlight = {}
  /\ results \subseteq Ended
  /\ \A i \in DOMAIN batches : i > wave => batches[i] \subseteq Waiting
  /\ \A i \in DOMAIN batches : Closed(i) => batches[i] \subseteq Ended

(* What fail_fast adds: a closed batch was executed to its last task, and
   with success unless it is the last one looked at.                       *)
FailFastInv ==
  opts.failFast =>
     /\ \A i \in DOMAIN batches : Closed(i) =>
           batches[i] \subseteq results /\ \A t \in batches[i] : pc[t] = "returned"
     /\ \A i \in DOMAIN batches : i < wave => \A t \in batches[i] : kept[t].ok
     /\ phase \in {"reporting", "done"} /\ Failed(results) = {} /\ Positions # {} =>
           wave = Len(batches)
     /\ phase = "done" /\ report.success => Failed(results) = {}

MainInv == PlanInv /\ InputTypes /\ TaskTypes /\ MainTypes /\ WaveInv /\ FailFastInv

(* Facts about the plan in the terms of MainInv.                           *)
LEMMA PlanFacts ==
  ASSUME PlanInv
  PROVE  /\ Positions \subseteq Nat
         /\ Len(batches) \in Nat /\ DOMAIN batches = 1 .. Len(batches)
         /\ \A i \in DOMAIN batches : batches[i] \subseteq Positions
         /\ remaining = {} => \A t \in Positions : \E i \in DOMAIN batches : t \in batches[i]
         /\ \A i, j \in DOMAIN batches, t \in Positions :
               t \in batches[i] /\ t \in batches[j] => i = j
<1>1. P!TypeOK /\ P!EachTaskOnce
  BY DEF PlanInv, P!PlannerInv
<1>2. tasks \in Seq(P!Task) /\ batches \in Seq(SUBSET DOMAIN tasks)
  BY <1>1 DEF P!TypeOK, P!IsTaskList
<1>3. /\ Positions \subseteq Nat
      /\ Len(batches) \in Nat /\ DOMAIN batches = 1 .. Len(batches)
      /\ \A i \in DOMAIN batches : batches[i] \subseteq Positions
  BY <1>2 DEF Positions
<1> QED
  BY <1>1, <1>3 DEF P!EachTaskOnce, Positions

(* What a step of a task can do to what WaveInv looks at.                  *)
LEMMA TaskStepEffect ==
  ASSUME TaskTypes, NEW t \in Positions, TaskStep(t)
  PROVE  /\ pc[t] \notin {"returned", "raised"} /\ pc'[t] # "waiting"
         /\ pc[t] = "waiting" => phase = "running" /\ t \in Wave /\ pc'[t] = "routing"
         /\ \A u \in Positions : u # t => pc'[u] = pc[u] /\ kept'[u] = kept[u]
<1>1. pc[t] \in PC
  BY DEF TaskTypes
<1>2. CASE Start(t)
  BY <1>2 DEF Start, TaskTypes
<1>3. CASE Decide(t)
  BY <1>3 DEF Decide, TaskTypes
<1>4. CASE Check(t)
  BY <1>4 DEF Check, TaskTypes
<1>5. CASE Call(t)
  BY <1>5 DEF Call, TaskTypes
<1>6. CASE Fail(t)
  BY <1>6 DEF Fail, TaskTypes
<1>7. CASE RecordInLint(t)
  BY <1>7 DEF RecordInLint, Record, TaskTypes, AfterLint
<1>8. CASE RecordInCritic(t)
  BY <1>8 DEF RecordInCritic, Record, TaskTypes
<1>9. CASE Lint(t)
  BY <1>9 DEF Lint, TaskTypes, AfterLint
<1>10. CASE Judge(t)
  BY <1>10 DEF Judge, TaskTypes
<1> QED
  BY <1>2, <1>3, <1>4, <1>5, <1>6, <1>7, <1>8, <1>9, <1>10 DEF TaskStep

-----------------------------------------------------------------------------
LEMMA MainInit == Init => MainInv
<1> SUFFICES ASSUME Init PROVE MainInv
  OBVIOUS
<1>1. PlanInv
  BY PlanInit DEF Init
<1>2. InputTypes /\ TaskTypes
  BY DEF Init, InputTypes, TaskTypes, PC, NoCall, NoResult
<1>3. MainTypes
  BY DEF Init, MainTypes, NoReport
<1>4. Waiting = Positions /\ InFlight = {}
  BY DEF Init, Waiting, InFlight
<1>5. WaveInv
  <2>1. batches = <<>> /\ DOMAIN batches = {}
    BY DEF Init, Planner!Init
  <2> QED
    BY <1>4, <2>1 DEF Init, WaveInv
<1>6. FailFastInv
  <2>1. batches = <<>> /\ DOMAIN batches = {}
    BY DEF Init, Planner!Init
  <2> QED
    BY <2>1 DEF Init, FailFastInv
<1> QED
  BY <1>1, <1>2, <1>3, <1>5, <1>6 DEF MainInv

(* A step of a task keeps what is known of the waves.                      *)
LEMMA TaskKeepsMain ==
  ASSUME MainInv, NEW t \in Positions, TaskStep(t)
  PROVE  MainInv'
<1>1. /\ UNCHANGED <<plannerVars, inputVars, available, mainVars>>
      /\ Positions' = Positions
  BY TaskStepFrame DEF plannerVars, Positions
<1>2. PlanInv' /\ InputTypes' /\ MainTypes'
  <2>1. PlanInv'
    BY <1>1, PlanStep DEF MainInv
  <2>2. InputTypes'
    BY <1>1 DEF MainInv, InputTypes, inputVars
  <2>3. MainTypes'
    BY <1>1 DEF MainInv, MainTypes, mainVars
  <2> QED
    BY <2>1, <2>2, <2>3
<1>3. TaskTypes'
  BY TaskTypesStep DEF MainInv
<1>4. /\ pc[t] \notin {"returned", "raised"} /\ pc'[t] # "waiting"
      /\ pc[t] = "waiting" => phase = "running" /\ t \in Wave
      /\ \A u \in Positions : u # t => pc'[u] = pc[u] /\ kept'[u] = kept[u]
  BY TaskStepEffect DEF MainInv
<1>5. phase = "running" /\ t \in Wave /\ wave \in DOMAIN batches /\ wave \in Nat
  <2>1. phase = "running"
    BY <1>4 DEF MainInv, WaveInv, InFlight, Ended, Waiting
  <2>2. PICK i \in DOMAIN batches : t \in batches[i]
    BY <2>1, PlanFacts DEF MainInv, WaveInv
  <2>3. wave \in DOMAIN batches /\ wave \in Nat /\ i \in Nat
    BY <2>1, PlanFacts DEF MainInv, WaveInv, MainTypes
  <2>4. CASE pc[t] = "waiting"
    BY <1>4, <2>1, <2>3, <2>4
  <2>5. CASE pc[t] # "waiting"
    <3>1. ~(i > wave) /\ ~(i < wave)
      BY <1>4, <2>2, <2>5 DEF MainInv, WaveInv, Waiting, Ended, Closed
    <3> QED
      BY <3>1, <2>1, <2>2, <2>3 DEF Wave
  <2> QED
    BY <2>4, <2>5
<1>6. \A i \in DOMAIN batches : i # wave => t \notin batches[i]
  BY <1>5, PlanFacts DEF MainInv, Wave
<1>7. \A i \in DOMAIN batches : Closed(i) => i # wave /\ i < wave
  BY <1>5, PlanFacts DEF Closed
<1>8. t \notin Ended /\ t \notin results /\ Ended \subseteq Ended'
  BY <1>1, <1>4 DEF Ended, MainInv, WaveInv
<1>9. WaveInv'
  <2>1. \A i \in DOMAIN batches : i > wave => batches[i] \subseteq Waiting'
    BY <1>1, <1>4, <1>5, <1>6, PlanFacts DEF MainInv, WaveInv, Waiting
  <2>2. \A i \in DOMAIN batches : Closed(i) => batches[i] \subseteq Ended'
    BY <1>8 DEF MainInv, WaveInv
  <2>3. phase' = phase /\ wave' = wave /\ results' = results /\ batches' = batches
        /\ remaining' = remaining
    BY <1>1 DEF mainVars, plannerVars
  <2> QED
    BY <1>1, <1>5, <1>8, <2>1, <2>2, <2>3 DEF MainInv, WaveInv, Closed
<1>10. FailFastInv'
  <2>1. \A i \in DOMAIN batches : i < wave \/ Closed(i) =>
           \A u \in batches[i] : pc'[u] = pc[u] /\ kept'[u] = kept[u]
    BY <1>4, <1>5, <1>6, <1>7, PlanFacts DEF MainInv
  <2>2. opts' = opts /\ phase' = phase /\ wave' = wave /\ results' = results
        /\ batches' = batches
    BY <1>1 DEF inputVars, mainVars, plannerVars
  <2> QED
    BY <1>5, <2>1, <2>2 DEF MainInv, FailFastInv, Closed
<1> QED
  BY <1>2, <1>3, <1>9, <1>10 DEF MainInv

(* The part of it that a step of the planner needs of the next state.      *)
PlanShape == \A i \in DOMAIN batches : i \in Nat /\ i > 0 /\ batches[i] \subseteq Positions

LEMMA PlanShapeNext == PlanInv' => PlanShape'
<1>1. PlanInv => PlanShape
  BY PlanFacts DEF PlanShape
<1> QED
  BY <1>1, PTL

(* While the planner works no task has started.                            *)
LEMMA PlanKeepsMain ==
  ASSUME MainInv, Plan
  PROVE  MainInv'
<1>1. /\ phase = "planning" /\ phase' = "planning" /\ wave' = wave /\ wave = 0
      /\ results' = results /\ results = {} /\ report' = report
      /\ UNCHANGED <<inputVars, available, taskVars>>
  BY DEF Plan, mainVars, MainInv, WaveInv
<1>2. PlanInv'
  BY PlanStep DEF Plan, MainInv
<1>3. Positions' = Positions
  BY DEF Plan, Planner!Next, Planner!PlaceBatch, Planner!CycleFallback, Positions
<1>4. InputTypes' /\ TaskTypes' /\ MainTypes'
  BY <1>1, <1>3 DEF MainInv, InputTypes, TaskTypes, MainTypes, inputVars, taskVars
<1>5. /\ Waiting = Positions /\ Waiting' = Positions
      /\ InFlight' = {} /\ Ended' = Ended
  BY <1>1, <1>3 DEF MainInv, WaveInv, Waiting, InFlight, Ended, taskVars
<1>6. \A i \in DOMAIN batches' : i > 0 /\ batches'[i] \subseteq Positions /\ ~Closed(i)'
  BY <1>1, <1>2, <1>3, PlanShapeNext DEF PlanShape, Closed
<1>7. WaveInv'
  BY <1>1, <1>3, <1>5, <1>6 DEF WaveInv
<1>8. FailFastInv'
  BY <1>1, <1>6 DEF FailFastInv, Closed
<1> QED
  BY <1>2, <1>4, <1>7, <1>8 DEF MainInv

(* The steps of run_milestone around the waves.                            *)
LEMMA MainStepKeepsMain ==
  ASSUME MainInv, MainStep
  PROVE  MainInv'
<1>1. /\ UNCHANGED <<plannerVars, inputVars, available, taskVars>>
      /\ Positions' = Positions /\ Ended' = Ended /\ Waiting' = Waiting
      /\ InFlight' = InFlight /\ Raised' = Raised
  BY MainFrame DEF plannerVars, taskVars, Positions, Ended, Waiting, InFlight, Raised
<1>2. PlanInv' /\ InputTypes' /\ TaskTypes'
  <2>1. PlanInv'
    BY <1>1, PlanStep DEF MainInv
  <2> QED
    BY <1>1, <2>1 DEF MainInv, InputTypes, TaskTypes, inputVars, taskVars
<1>3. /\ batches' = batches /\ remaining' = remaining /\ opts' = opts /\ kept' = kept
      /\ pc' = pc
  BY <1>1 DEF plannerVars, inputVars, taskVars
<1>4. CASE BeginRun
  <2>1. phase = "planning" /\ wave = 0 /\ Waiting = Positions /\ results = {}
        /\ remaining = {} /\ results' = results
    BY <1>4 DEF BeginRun, MainInv, WaveInv
  <2>2. InFlight = {} /\ Ended = {}
    BY <2>1 DEF MainInv, WaveInv, Ended, Waiting
  <2>3. \A i \in DOMAIN batches : i > 0 /\ i \in Nat /\ batches[i] \subseteq Waiting
    BY <2>1, PlanFacts DEF MainInv
  <2>4. CASE Positions = {}
    <3>1. phase' = "done" /\ wave' = 0 /\ report' = [NoReport EXCEPT !.success = TRUE]
      BY <1>4, <2>1, <2>4 DEF BeginRun
    <3>2. MainTypes'
      BY <1>1, <2>1, <3>1 DEF MainTypes, NoReport
    <3>3. \A i \in DOMAIN batches : ~Closed(i)'
      BY <2>3, <3>1 DEF Closed
    <3>4. WaveInv'
      BY <1>1, <1>3, <2>1, <2>2, <2>3, <2>4, <3>1, <3>3 DEF WaveInv, Closed
    <3>5. FailFastInv'
      <4>1. Failed(results)' = {}
        BY <2>1 DEF Failed
      <4> QED
        BY <1>1, <1>3, <2>3, <2>4, <3>1, <3>3, <4>1 DEF FailFastInv
    <3> QED
      BY <1>2, <3>2, <3>4, <3>5 DEF MainInv
  <2>5. CASE Positions # {}
    <3>1. phase' = "running" /\ wave' = 1 /\ report' = report
      BY <1>4, <2>5 DEF BeginRun
    <3>2. MainTypes'
      BY <1>1, <2>1, <3>1 DEF MainTypes, MainInv
    <3>3. 1 \in DOMAIN batches
      BY <2>1, <2>5, PlanFacts DEF MainInv
    <3>4. \A i \in DOMAIN batches : ~Closed(i)' /\ ~(i < wave')
      BY <2>3, <3>1 DEF Closed
    <3>5. WaveInv'
      BY <1>1, <1>3, <2>1, <2>2, <2>3, <3>1, <3>3, <3>4 DEF WaveInv
    <3>6. FailFastInv'
      BY <1>3, <3>1, <3>4 DEF FailFastInv
    <3> QED
      BY <1>2, <3>2, <3>5, <3>6 DEF MainInv
  <2> QED
    BY <2>4, <2>5
<1>5. CASE Propagate
  <2>1. phase = "running" /\ phase' = "raised" /\ UNCHANGED <<wave, results, report>>
        /\ InFlight = {}
    BY <1>5 DEF Propagate, WaveOver
  <2>2. MainTypes'
    BY <1>1, <2>1 DEF MainInv, MainTypes
  <2>3. remaining = {}
    BY <2>1 DEF MainInv, WaveInv
  <2>4. WaveInv'
    BY <1>1, <1>3, <2>1, <2>3 DEF MainInv, WaveInv, Closed
  <2>5. FailFastInv'
    BY <1>3, <2>1 DEF MainInv, FailFastInv, Closed
  <2> QED
    BY <1>2, <2>2, <2>4, <2>5 DEF MainInv
<1>6. CASE Collect
  <2>1. /\ phase = "running" /\ wave \in DOMAIN batches /\ remaining = {}
        /\ results' = results \cup (Wave \ Raised) /\ report' = report /\ InFlight = {}
        /\ wave \in Nat
    BY <1>6 DEF Collect, WaveOver, MainInv, WaveInv, MainTypes
  <2>2. \/ phase' = "reporting" /\ wave' = wave
        \/ phase' = "running" /\ wave' = wave + 1 /\ wave # Len(batches)
    BY <1>6, <2>1 DEF Collect
  <2>3. Wave \subseteq Ended
    BY <1>6 DEF Collect, WaveOver, Escapes
  <2>4. Wave \subseteq Positions
    BY <2>1, PlanFacts DEF MainInv, Wave
  <2>5. MainTypes'
    BY <1>1, <2>1, <2>2, <2>4 DEF MainInv, MainTypes
  <2>6. \A i \in DOMAIN batches : Closed(i)' <=> i = wave \/ Closed(i)
    BY <2>1, <2>2, <1>3, PlanFacts DEF Closed, MainInv
  <2>7. wave' \in DOMAIN batches
    BY <2>1, <2>2, PlanFacts DEF MainInv
  <2>8. WaveInv'
    <3>1. \A i \in DOMAIN batches : i > wave' => i > wave
      BY <2>1, <2>2, PlanFacts DEF MainInv
    <3> QED
      BY <1>1, <1>3, <2>1, <2>2, <2>3, <2>6, <2>7, <3>1 DEF MainInv, WaveInv, Wave
  <2>9. FailFastInv'
    <3> SUFFICES ASSUME opts.failFast PROVE FailFastInv'
      BY <1>3 DEF FailFastInv
    <3>1. Raised \cap Wave = {}
      BY <1>6 DEF Collect, Escapes
    <3>2. \A u \in Wave : pc[u] = "returned"
      BY <2>3, <2>4, <3>1 DEF Ended, Raised
    <3>3. Wave \subseteq results'
      BY <2>1, <3>1
    <3>4. \A i \in DOMAIN batches : Closed(i)' =>
             batches[i] \subseteq results' /\ \A u \in batches[i] : pc[u] = "returned"
      BY <2>1, <2>6, <3>2, <3>3 DEF MainInv, FailFastInv, Wave
    <3>5. phase' = "running" => Failed(results') = {}
      BY <1>6, <2>2 DEF Collect
    <3>6. \A i \in DOMAIN batches : i < wave' => \A u \in batches[i] : kept[u].ok
      <4>1. CASE wave' = wave
        BY <4>1 DEF MainInv, FailFastInv
      <4>2. CASE wave' # wave
        <5>1. \A u \in Wave : kept[u].ok
          BY <2>2, <3>3, <3>5, <4>2 DEF Failed
        <5>2. \A i \in DOMAIN batches : i < wave' => i = wave \/ i < wave
          BY <2>1, <2>2, PlanFacts DEF MainInv
        <5> QED
          BY <5>1, <5>2 DEF MainInv, FailFastInv, Wave
      <4> QED
        BY <4>1, <4>2
    <3>7. Failed(results)' = Failed(results')
      BY <1>3 DEF Failed
    <3>8. phase' = "reporting" /\ Failed(results') = {} => wave' = Len(batches)
      BY <1>6, <2>1, <2>2 DEF Collect
    <3> QED
      BY <1>3, <2>2, <3>4, <3>6, <3>7, <3>8 DEF FailFastInv
  <2> QED
    BY <1>2, <2>5, <2>8, <2>9 DEF MainInv
<1>7. CASE Report
  <2>1. phase = "reporting" /\ phase' = "done" /\ UNCHANGED <<wave, results>>
        /\ wave \in DOMAIN batches /\ remaining = {} /\ InFlight = {}
    BY <1>7 DEF Report, MainInv, WaveInv
  <2>2. /\ report'.success = (Failed(results) = {})
        /\ MainTypes'
    <3>1. results \subseteq Positions /\ Failed(results) \subseteq Positions
      BY DEF MainInv, MainTypes, Failed
    <3> QED
      BY <1>1, <1>7, <2>1, <3>1 DEF Report, MainInv, MainTypes
  <2>3. \A i \in DOMAIN batches : Closed(i)' <=> Closed(i)
    BY <1>3, <2>1 DEF Closed
  <2>4. WaveInv'
    BY <1>1, <1>3, <2>1, <2>3 DEF MainInv, WaveInv
  <2>5. FailFastInv'
    <3>1. Failed(results)' = Failed(results)
      BY <1>3, <2>1 DEF Failed
    <3> QED
      BY <1>1, <1>3, <2>1, <2>2, <2>3, <3>1 DEF MainInv, FailFastInv
  <2> QED
    BY <1>2, <2>2, <2>4, <2>5 DEF MainInv
<1> QED
  BY <1>4, <1>5, <1>6, <1>7 DEF MainStep

LEMMA MainInvStep == MainInv /\ [Next]_vars => MainInv'
<1> SUFFICES ASSUME MainInv, [Next]_vars PROVE MainInv'
  OBVIOUS
<1>1. CASE Plan
  BY <1>1, PlanKeepsMain
<1>2. CASE MainStep
  BY <1>2, MainStepKeepsMain
<1>3. CASE CliChange \/ UNCHANGED vars
  <2>1. /\ UNCHANGED <<plannerVars, inputVars, taskVars, mainVars>>
        /\ available' \in [CLIs -> BOOLEAN]
    <3>1. available \in [CLIs -> BOOLEAN]
      BY DEF MainInv, InputTypes
    <3> QED
      BY <1>3, <3>1 DEF CliChange, vars
  <2>2. PlanInv'
    BY <2>1, PlanStep DEF MainInv
  <2>3. /\ Positions' = Positions /\ Ended' = Ended /\ Waiting' = Waiting
        /\ InFlight' = InFlight /\ Failed(results)' = Failed(results)
    BY <2>1 DEF plannerVars, taskVars, mainVars, Positions, Ended, Waiting, InFlight, Failed
  <2>4. InputTypes' /\ TaskTypes' /\ MainTypes'
    BY <2>1, <2>3 DEF MainInv, InputTypes, TaskTypes, MainTypes, inputVars, taskVars, mainVars
  <2>5. \A i \in DOMAIN batches : Closed(i)' <=> Closed(i)
    BY <2>1 DEF Closed, mainVars
  <2>6. WaveInv' /\ FailFastInv'
    BY <2>1, <2>3, <2>5 DEF MainInv, WaveInv, FailFastInv, plannerVars, inputVars, taskVars,
                            mainVars
  <2> QED
    BY <2>2, <2>4, <2>6 DEF MainInv
<1>4. CASE \E t \in Positions : TaskStep(t)
  BY <1>4, TaskKeepsMain
<1> QED
  BY <1>1, <1>2, <1>3, <1>4, Steps

(* The types, for every milestone and every setting.                       *)
THEOREM MilestoneTypes == Spec => []TypeOK
<1>1. MainInv => TypeOK
  BY TypeParts, SameTypes DEF MainInv, PlanInv, P!PlannerInv
<1> QED
  BY <1>1, MainInit, MainInvStep, PTL DEF Spec

(* The two promises of the waves, unless they gave up on a cycle.          *)
LEMMA WavesSuffice == MainInv => DependenciesFirst /\ NoClashInFlight
<1> SUFFICES ASSUME MainInv, ~cyclic PROVE DependenciesFirst /\ NoClashInFlight
  BY DEF DependenciesFirst, NoClashInFlight
<1>1. P!EdgesRespected /\ P!ClashesSerialized /\ P!Ordered = DOMAIN batches
  BY DEF MainInv, PlanInv, P!PlannerInv, P!Ordered
<1>2. wave \in Nat
  BY DEF MainInv, MainTypes
<1>3. ASSUME NEW t \in Positions \ Waiting
      PROVE  \E i \in DOMAIN batches : t \in batches[i] /\ i <= wave
  <2>1. remaining = {}
    BY <1>3 DEF MainInv, WaveInv
  <2>2. PICK i \in DOMAIN batches : t \in batches[i]
    BY <2>1, PlanFacts DEF MainInv
  <2>3. ~(i > wave)
    BY <1>3, <2>2 DEF MainInv, WaveInv
  <2> QED
    BY <1>2, <2>2, <2>3, PlanFacts DEF MainInv
<1>4. \A i, j \in DOMAIN batches : j < i /\ i <= wave => batches[j] \subseteq Ended
  BY <1>2, PlanFacts DEF MainInv, WaveInv, Closed
<1>5. DependenciesFirst
  <2> SUFFICES ASSUME NEW t \in Positions \ Waiting, NEW a \in P!Incoming(tasks, t)
               PROVE  a \in Ended
    BY SameIncoming DEF DependenciesFirst
  <2>1. PICK i \in DOMAIN batches : t \in batches[i] /\ i <= wave
    BY <1>3
  <2>2. PICK j \in DOMAIN batches : j < i /\ a \in batches[j]
    BY <1>1, <2>1 DEF P!EdgesRespected
  <2> QED
    BY <1>4, <2>1, <2>2
<1>6. NoClashInFlight
  <2>1. ASSUME NEW t \in InFlight, NEW u \in InFlight, t < u, P!Clash(tasks, t, u)
        PROVE  FALSE
    <3>1. t \in Positions /\ u \in Positions \ Waiting /\ t \notin Ended
      BY <2>1 DEF InFlight
    <3>2. PICK i \in DOMAIN batches : u \in batches[i] /\ i <= wave
      BY <1>3, <3>1
    <3>3. PICK j \in DOMAIN batches : j < i /\ t \in batches[j]
      BY <1>1, <2>1, <3>1, <3>2 DEF P!ClashesSerialized, Positions
    <3> QED
      BY <1>4, <3>1, <3>2, <3>3
  <2>2. \A t, u \in InFlight : t # u => t < u \/ u < t
    BY PlanFacts DEF MainInv, InFlight
  <2>3. \A t, u \in Positions : P!Clash(tasks, t, u) <=> P!Clash(tasks, u, t)
    BY DEF P!Clash, P!Shares
  <2> QED
    BY <2>1, <2>2, <2>3, SameEdges DEF NoClashInFlight, InFlight
<1> QED
  BY <1>5, <1>6

(* No task starts before the tasks it waits for have ended, and no two
   threads ever work on one file or on two high-risk tasks, unless the waves
   gave up on a cycle.                                                     *)
THEOREM WavesAreRespected == Spec => []WavesRespected
<1>1. MainInv => WavesRespected
  BY WavesSuffice DEF WavesRespected
<1> QED
  BY <1>1, MainInit, MainInvStep, PTL DEF Spec

(* With fail_fast no later wave starts once a task failed or raised, and a
   milestone that is reported as a success executed every task with success. *)
THEOREM FailFastIsSound == Spec => []FailFastSound
<1>1. MainInv => FailFastSound
  <2> SUFFICES ASSUME MainInv, opts.failFast PROVE FailFastHalts /\ SuccessIsComplete
    BY DEF FailFastSound, FailFastHalts, SuccessIsComplete
  <2>1. wave \in Nat
    BY DEF MainInv, MainTypes
  <2>2. FailFastHalts
    <3> SUFFICES ASSUME NEW i \in DOMAIN batches, NEW j \in DOMAIN batches, i < j,
                        ~(batches[j] \subseteq Waiting), NEW t \in batches[i]
                 PROVE  pc[t] = "returned" /\ kept[t].ok
      BY DEF FailFastHalts
    <3>1. ~(j > wave)
      BY DEF MainInv, WaveInv
    <3>2. i < wave
      BY <2>1, <3>1, PlanFacts DEF MainInv
    <3> QED
      BY <3>2 DEF MainInv, FailFastInv, Closed
  <2>3. SuccessIsComplete
    <3> SUFFICES ASSUME phase = "done", report.success, NEW t \in Positions
                 PROVE  pc[t] = "returned" /\ kept[t].ok
      BY DEF SuccessIsComplete
    <3>1. Failed(results) = {} /\ wave = Len(batches) /\ remaining = {}
      BY DEF MainInv, FailFastInv, WaveInv
    <3>2. PICK i \in DOMAIN batches : t \in batches[i]
      BY <3>1, PlanFacts DEF MainInv
    <3>3. Closed(i)
      BY <3>1, PlanFacts DEF MainInv, Closed
    <3>4. t \in results /\ pc[t] = "returned"
      BY <3>2, <3>3 DEF MainInv, FailFastInv
    <3> QED
      BY <3>1, <3>4 DEF Failed
  <2> QED
    BY <2>2, <2>3
<1> QED
  BY <1>1, MainInit, MainInvStep, PTL DEF Spec

-----------------------------------------------------------------------------
(* In a list in dependency order the cycle fallback is never taken.        *)
LEMMA InOrderNotCyclic == MainInv /\ InOrder => ~cyclic
<1>1. InOrder <=> P!Forward(tasks)
  BY DEF InOrder, Planner!Forward, P!Forward
<1> QED
  BY <1>1 DEF MainInv, PlanInv, P!ForwardNeverCyclic

(* Every step is a step of the schedule or changes nothing it can see.     *)
LEMMA ScheduleStep ==
  MainInv /\ MainInv' /\ [Next]_vars => [Schedule!Next]_(Schedule!vars)
<1> SUFFICES ASSUME MainInv, MainInv', [Next]_vars
             PROVE  [Schedule!Next]_(Schedule!vars)
  OBVIOUS
<1>1. ASSUME UNCHANGED <<tasks, pc>> PROVE UNCHANGED Schedule!vars
  BY <1>1 DEF Schedule!vars, MustWait, Exclude, InOrder, Positions, Waiting, InFlight, Ended
<1>2. CASE Plan \/ MainStep \/ CliChange \/ UNCHANGED vars
  <2>1. UNCHANGED <<tasks, pc>>
    BY <1>2, MainFrame DEF Plan, CliChange, vars, plannerVars, taskVars, Planner!Next,
       Planner!PlaceBatch, Planner!CycleFallback
  <2> QED
    BY <1>1, <2>1
<1>3. CASE \E t \in Positions : TaskStep(t)
  <2>1. PICK t \in Positions : TaskStep(t)
    BY <1>3
  <2>2. /\ pc[t] \notin {"returned", "raised"} /\ pc'[t] # "waiting"
        /\ pc[t] = "waiting" => phase = "running" /\ t \in Wave /\ pc'[t] = "routing"
        /\ \A u \in Positions : u # t => pc'[u] = pc[u]
    BY <2>1, TaskStepEffect DEF MainInv
  <2>3. tasks' = tasks /\ Positions' = Positions /\ MustWait' = MustWait
        /\ Exclude' = Exclude /\ InOrder' = InOrder
    BY <2>1, TaskStepFrame DEF plannerVars, Positions, MustWait, Exclude, InOrder
  <2>4. CASE pc[t] = "waiting"
    <3>1. /\ t \in Waiting /\ Waiting' = Waiting \ {t}
          /\ InFlight' = InFlight \cup {t} /\ Ended' = Ended
      BY <2>2, <2>3, <2>4 DEF Waiting, InFlight, Ended
    <3>2. ASSUME NEW a \in Waiting \cup InFlight PROVE <<a, t>> \notin MustWait
      <4> SUFFICES ASSUME InOrder, a \in Planner!Incoming(tasks, t) PROVE FALSE
        BY DEF MustWait
      <4>1. DependenciesFirst' /\ ~cyclic'
        <5>1. ~cyclic /\ cyclic' = cyclic
          BY <2>1, InOrderNotCyclic, TaskStepFrame DEF plannerVars
        <5>2. DependenciesFirst'
          BY WavesSuffice, PTL
        <5> QED
          BY <5>1, <5>2
      <4>2. t \in Positions' \ Waiting'
        BY <2>3, <3>1
      <4>3. a \in Ended
        BY <2>3, <3>1, <4>1, <4>2 DEF DependenciesFirst
      <4> QED
        BY <3>2, <4>3 DEF Waiting, InFlight, Ended
    <3>3. ASSUME NEW u \in InFlight PROVE <<u, t>> \notin Exclude
      <4> SUFFICES ASSUME InOrder, u # t, Planner!Clash(tasks, u, t) PROVE FALSE
        BY DEF Exclude
      <4>1. NoClashInFlight' /\ ~cyclic'
        <5>1. ~cyclic /\ cyclic' = cyclic
          BY <2>1, InOrderNotCyclic, TaskStepFrame DEF plannerVars
        <5>2. NoClashInFlight'
          BY WavesSuffice, PTL
        <5> QED
          BY <5>1, <5>2
      <4> QED
        BY <2>3, <3>1, <3>3, <4>1 DEF NoClashInFlight
    <3>4. Schedule!Begin(t)
      BY <2>3, <3>1, <3>2, <3>3 DEF Schedule!Begin
    <3> QED
      BY <3>1, <3>4 DEF Schedule!Next
  <2>5. CASE pc[t] # "waiting" /\ pc'[t] \in {"returned", "raised"}
    <3>1. /\ t \in InFlight /\ InFlight' = InFlight \ {t}
          /\ Ended' = Ended \cup {t} /\ Waiting' = Waiting
      BY <2>2, <2>3, <2>5 DEF Waiting, InFlight, Ended
    <3>2. Schedule!Finish(t)
      BY <2>3, <3>1 DEF Schedule!Finish
    <3> QED
      BY <3>1, <3>2 DEF Schedule!Next
  <2>6. CASE pc[t] # "waiting" /\ pc'[t] \notin {"returned", "raised"}
    <3>1. InFlight' = InFlight /\ Ended' = Ended /\ Waiting' = Waiting
      BY <2>2, <2>3, <2>6 DEF Waiting, InFlight, Ended
    <3> QED
      BY <2>3, <3>1 DEF Schedule!vars
  <2> QED
    BY <2>4, <2>5, <2>6
<1> QED
  BY <1>2, <1>3, Steps

(* run_milestone with its waves, pool, retries and routing is a schedule in
   which a task runs once, after what it waits for, and never beside a task
   it excludes.                                                            *)
THEOREM MilestoneIsASchedule == Spec => ImplementsSchedule
<1>1. Init => Schedule!Init
  BY DEF Init, Schedule!Init, InFlight, Ended, Waiting
<1> QED
  BY <1>1, MainInit, MainInvStep, ScheduleStep, PTL DEF Spec, ImplementsSchedule, Schedule!Spec
-----------------------------------------------------------------------------
(***************************************************************************)
(* What happens to one task: its loops are bounded, the critic keeps a     *)
(* success, and mocks fail closed and are put on record, whatever the      *)
(* other tasks and the CLIs do.                                            *)
(***************************************************************************)
Executing == {"routing", "checking", "calling", "recording"}

(* What is known of the loops of a task, from where it is in them.  In the
   first loop a call is on record after the attempt, in the second the next
   iteration has not begun when the call is on record.                     *)
LoopInv(t) ==
  /\ attempt[t] \in 1 .. (MaxLintRetries + 1)
  /\ iter[t] \in 0 .. opts.critic
  /\ loop[t] = "lint" => iter[t] = 0
  /\ loop[t] = "critic" => kept[t].ok
  /\ pc[t] \in {"waiting", "linting"} => loop[t] = "lint"
  /\ pc[t] = "linting" => kept[t].ok
  /\ pc[t] = "judging" => loop[t] = "critic"
  /\ loop[t] = "critic" /\ pc[t] \in Executing \cup {"judging"} => iter[t] < opts.critic
  /\ loop[t] = "lint" /\ pc[t] \in Executing \cup {"waiting"} => calls[t] + 1 = attempt[t]
  /\ loop[t] = "critic" /\ pc[t] \in Executing => calls[t] = attempt[t] + iter[t]
  /\ pc[t] \in {"linting", "judging", "returned"} => calls[t] = attempt[t] + iter[t]
  /\ pc[t] = "raised" => calls[t] <= MaxLintRetries + 1 + opts.critic

(* The variables of the other tasks do not change.                         *)
LEMMA OtherTasks ==
  ASSUME TaskTypes, NEW t \in Positions, TaskStep(t), NEW u \in Positions, u # t
  PROVE  /\ pc'[u] = pc[u] /\ loop'[u] = loop[u] /\ attempt'[u] = attempt[u]
         /\ iter'[u] = iter[u] /\ call'[u] = call[u] /\ kept'[u] = kept[u]
         /\ calls'[u] = calls[u] /\ (u \in ranMock' <=> u \in ranMock)
<1>1. CASE Start(t) \/ Decide(t) \/ Check(t) \/ Judge(t)
  BY <1>1 DEF Start, Decide, Check, Judge, TaskTypes
<1>2. CASE Call(t)
  BY <1>2 DEF Call, TaskTypes
<1>3. CASE Fail(t)
  BY <1>3 DEF Fail, TaskTypes
<1>4. CASE RecordInLint(t)
  BY <1>4 DEF RecordInLint, Record, TaskTypes
<1>5. CASE RecordInCritic(t)
  BY <1>5 DEF RecordInCritic, Record, TaskTypes
<1>6. CASE Lint(t)
  BY <1>6 DEF Lint, TaskTypes
<1> QED
  BY <1>1, <1>2, <1>3, <1>4, <1>5, <1>6 DEF TaskStep

(* A step of a task keeps what is known of its loops.                      *)
LEMMA LoopStep ==
  ASSUME InputTypes, TaskTypes, NEW t \in Positions, LoopInv(t), TaskStep(t)
  PROVE  LoopInv(t)'
<1>1. /\ opts' = opts /\ opts.critic \in Nat /\ MaxLintRetries \in Nat
      /\ calls[t] \in Nat /\ attempt[t] \in Nat /\ iter[t] \in Nat /\ pc[t] \in PC
      /\ loop[t] \in {"lint", "critic"}
  BY TaskStepFrame, MilestoneAssumption
     DEF inputVars, InputTypes, TaskTypes, MilestoneAssumption, Setting
<1>2. CASE Start(t) \/ Decide(t) \/ Check(t) \/ Call(t)
  <2>1. /\ pc'[t] \in Executing /\ pc[t] \in Executing \cup {"waiting"}
        /\ UNCHANGED <<loop, attempt, iter, kept, calls>>
    BY <1>2 DEF Start, Decide, Check, Call, TaskTypes, Executing
  <2> QED
    BY <1>1, <2>1 DEF LoopInv, Executing
<1>3. CASE Fail(t)
  <2>1. /\ pc'[t] = "raised" /\ UNCHANGED <<loop, attempt, iter, kept>>
        /\ pc[t] \in Executing \cup {"linting", "judging"}
        /\ calls'[t] = calls[t] \/ (pc[t] = "recording" /\ calls'[t] = calls[t] + 1)
    BY <1>3 DEF Fail, TaskTypes, Executing
  <2> QED
    BY <1>1, <2>1 DEF LoopInv, Executing
<1>4. CASE RecordInLint(t)
  <2>1. /\ pc[t] = "recording" /\ loop[t] = "lint" /\ UNCHANGED <<attempt, iter>>
        /\ calls'[t] = calls[t] + 1 /\ kept'[t].ok = Fresh(t).ok
    BY <1>4 DEF RecordInLint, Record, TaskTypes
  <2>2. \/ pc'[t] = "linting" /\ loop'[t] = "lint" /\ Fresh(t).ok
        \/ pc'[t] = "judging" /\ loop'[t] = "critic" /\ Fresh(t).ok /\ opts.critic > 0
        \/ pc'[t] = "returned" /\ loop'[t] = "lint"
    BY <1>4 DEF RecordInLint, Record, TaskTypes, AfterLint, LoopAfterLint
  <2> QED
    BY <1>1, <2>1, <2>2 DEF LoopInv, Executing
<1>5. CASE RecordInCritic(t)
  <2>1. /\ pc[t] = "recording" /\ loop[t] = "critic" /\ UNCHANGED <<attempt, loop>>
        /\ calls'[t] = calls[t] + 1 /\ iter'[t] = iter[t] + 1
        /\ kept[t].ok => kept'[t].ok
    BY <1>5 DEF RecordInCritic, Record, TaskTypes
  <2>2. \/ pc'[t] = "returned"
        \/ pc'[t] = "judging" /\ iter[t] + 1 # opts.critic
    BY <1>5 DEF RecordInCritic, Record, TaskTypes
  <2> QED
    BY <1>1, <2>1, <2>2 DEF LoopInv, Executing
<1>6. CASE Lint(t)
  <2>1. pc[t] = "linting" /\ loop[t] = "lint" /\ UNCHANGED <<iter, kept, calls>>
    BY <1>6 DEF Lint, LoopInv
  <2>2. \/ /\ pc'[t] = "judging" /\ loop'[t] = "critic" /\ opts.critic > 0
           /\ attempt' = attempt
        \/ pc'[t] = "returned" /\ loop'[t] = "lint" /\ attempt' = attempt
        \/ /\ pc'[t] = "routing" /\ loop'[t] = "lint" /\ attempt[t] <= MaxLintRetries
           /\ attempt'[t] = attempt[t] + 1
    BY <1>6, <2>1 DEF Lint, TaskTypes, AfterLint, LoopAfterLint
  <2> QED
    BY <1>1, <2>1, <2>2 DEF LoopInv, Executing
<1>7. CASE Judge(t)
  <2>1. /\ pc[t] = "judging" /\ pc'[t] \in {"returned", "routing"}
        /\ UNCHANGED <<loop, attempt, iter, kept, calls>>
    BY <1>7 DEF Judge, TaskTypes
  <2> QED
    BY <1>1, <2>1 DEF LoopInv, Executing
<1> QED
  BY <1>2, <1>3, <1>4, <1>5, <1>6, <1>7 DEF TaskStep

LoopsInv == MainInv /\ \A t \in Positions : LoopInv(t)

LEMMA LoopsInit == Init => LoopsInv
<1> SUFFICES ASSUME Init, NEW t \in Positions PROVE LoopInv(t)
  BY MainInit DEF LoopsInv
<1>1. opts.critic \in Nat /\ MaxLintRetries \in Nat
  BY MilestoneAssumption DEF Init, MilestoneAssumption, Setting
<1> QED
  BY <1>1 DEF Init, LoopInv, Executing

LEMMA LoopsStep == LoopsInv /\ [Next]_vars => LoopsInv'
<1> SUFFICES ASSUME LoopsInv, [Next]_vars PROVE LoopsInv'
  OBVIOUS
<1>1. MainInv'
  BY MainInvStep DEF LoopsInv
<1>2. CASE Plan \/ MainStep \/ CliChange \/ UNCHANGED vars
  <2>1. UNCHANGED <<tasks, opts, taskVars>>
    BY <1>2, MainFrame DEF Plan, CliChange, vars, plannerVars, inputVars, Planner!Next,
       Planner!PlaceBatch, Planner!CycleFallback
  <2> QED
    BY <1>1, <2>1 DEF LoopsInv, LoopInv, Positions, taskVars
<1>3. CASE \E t \in Positions : TaskStep(t)
  <2>1. PICK t \in Positions : TaskStep(t)
    BY <1>3
  <2>2. Positions' = Positions /\ opts' = opts
    BY <2>1, TaskStepFrame DEF plannerVars, inputVars, Positions
  <2>3. LoopInv(t)'
    BY <2>1, LoopStep DEF LoopsInv, MainInv
  <2>4. ASSUME NEW u \in Positions, u # t PROVE LoopInv(u)'
    BY <2>1, <2>2, <2>4, OtherTasks DEF LoopsInv, MainInv, LoopInv
  <2> QED
    BY <1>1, <2>2, <2>3, <2>4 DEF LoopsInv
<1> QED
  BY <1>2, <1>3, Steps

(* Retries and critic passes end: a task is executed at most once per lint
   attempt and critic pass, every execution of it is in the log, and a
   success that reached the critic is never lost.                          *)
THEOREM LoopsAreBounded == Spec => []RetriesSound
<1>1. LoopsInv => RetriesSound
  <2> SUFFICES ASSUME LoopsInv, NEW t \in Positions
               PROVE  /\ calls[t] <= MaxLintRetries + 1 + opts.critic
                      /\ pc[t] = "returned" => calls[t] = attempt[t] + iter[t]
                      /\ loop[t] = "critic" => kept[t].ok
    BY DEF RetriesSound, CallsBounded, CriticKeepsSuccess
  <2>1. /\ opts.critic \in Nat /\ MaxLintRetries \in Nat /\ LoopInv(t)
        /\ calls[t] \in Nat /\ pc[t] \in PC /\ loop[t] \in {"lint", "critic"}
    BY MilestoneAssumption
       DEF LoopsInv, MainInv, InputTypes, TaskTypes, MilestoneAssumption, Setting
  <2> QED
    BY <2>1 DEF LoopInv, Executing, PC
<1> QED
  BY <1>1, LoopsInit, LoopsStep, PTL DEF Spec

-----------------------------------------------------------------------------
(* Whether a mock may run at all.                                          *)
MockAllowed == opts.allowMock \/ \E t \in Positions : preferred[t] \in Mock

(* A mock is called only when it may be, and once it has run it is on record
   or about to be, unless its task raised.                                 *)
MockInv ==
  /\ \A t \in Positions : call[t].backend \in Mock => MockAllowed
  /\ ranMock # {} \/ mockUsed => MockAllowed
  /\ \A t \in ranMock : \/ mockUsed
                        \/ pc[t] = "recording" /\ call[t].backend \in Mock
                        \/ pc[t] = "raised"

(* What a step of a task does to the variables MockInv looks at.           *)
LEMMA MockStep ==
  ASSUME InputTypes, TaskTypes, MockInv, NEW t \in Positions, TaskStep(t)
  PROVE  MockInv'
<1>1. /\ Positions' = Positions /\ (MockAllowed' <=> MockAllowed)
  BY TaskStepFrame DEF plannerVars, inputVars, Positions, MockAllowed
<1>2. /\ \A u \in Positions : u # t =>
            pc'[u] = pc[u] /\ call'[u] = call[u] /\ (u \in ranMock' <=> u \in ranMock)
      /\ ranMock \subseteq Positions /\ ranMock' \subseteq Positions
  BY <1>1, OtherTasks, TaskTypesStep DEF TaskTypes
<1>3. ASSUME /\ call'[t].backend \in Mock => MockAllowed
             /\ mockUsed => mockUsed'
             /\ mockUsed' => mockUsed \/ MockAllowed
             /\ t \in ranMock' => t \in ranMock \/ MockAllowed
             /\ t \in ranMock' => \/ mockUsed'
                                  \/ pc'[t] = "recording" /\ call'[t].backend \in Mock
                                  \/ pc'[t] = "raised"
      PROVE  MockInv'
  BY <1>1, <1>2, <1>3 DEF MockInv
<1>4. CASE Start(t) \/ Lint(t) \/ Judge(t)
  <2>1. /\ pc[t] \notin {"recording", "raised"}
        /\ UNCHANGED <<call, ranMock, mockUsed>>
    BY <1>4 DEF Start, Lint, Judge
  <2> QED
    BY <2>1, <1>3 DEF MockInv
<1>5. CASE Decide(t)
  <2>1. pc[t] = "routing" /\ UNCHANGED <<ranMock, mockUsed>>
    BY <1>5 DEF Decide
  <2>2. PICK b \in IF preferred[t] = "auto" THEN Real ELSE {preferred[t]} :
             call'[t].backend = Substitute(b)
    BY <1>5 DEF Decide, TaskTypes
  <2>3. Substitute(b) \in Mock => MockAllowed
    BY <2>2 DEF Substitute, MockAllowed, Real, Mock
  <2> QED
    BY <2>1, <2>2, <2>3, <1>3 DEF MockInv
<1>6. CASE Check(t)
  <2>1. pc[t] = "checking" /\ UNCHANGED <<call, ranMock, mockUsed>>
    BY <1>6 DEF Check
  <2> QED
    BY <2>1, <1>3 DEF MockInv
<1>7. CASE Call(t)
  <2>1. /\ pc[t] = "calling" /\ pc'[t] = "recording" /\ UNCHANGED mockUsed
        /\ call'[t].backend = call[t].backend
        /\ ranMock' = IF call[t].backend \in Mock THEN ranMock \cup {t} ELSE ranMock
    BY <1>7 DEF Call, TaskTypes
  <2> QED
    BY <2>1, <1>3 DEF MockInv
<1>8. CASE Fail(t)
  <2>1. /\ pc'[t] = "raised" /\ call'[t].backend \notin Mock /\ ranMock' = ranMock
    BY <1>8 DEF Fail, TaskTypes, NoCall, Mock
  <2>2. /\ mockUsed => mockUsed'
        /\ mockUsed' => mockUsed \/ call[t].backend \in Mock
    <3>1. \/ mockUsed' = mockUsed
          \/ mockUsed' \in {mockUsed, mockUsed \/ call[t].backend \in Mock}
      BY <1>8, Zenon DEF Fail
    <3>2. mockUsed' = mockUsed \/ mockUsed' = (mockUsed \/ call[t].backend \in Mock)
      BY <3>1, Zenon
    <3>3. CASE mockUsed' = mockUsed
      BY <3>3, Zenon
    <3>4. CASE mockUsed' = (mockUsed \/ call[t].backend \in Mock)
      <4>1. mockUsed \in BOOLEAN
        BY DEF TaskTypes
      <4> QED
        BY <3>4, <4>1
    <3> QED
      BY <3>2, <3>3, <3>4, Zenon
  <2> QED
    BY <2>1, <2>2, <1>3 DEF MockInv
<1>9. CASE RecordInLint(t) \/ RecordInCritic(t)
  <2>1. Record(t)
    BY <1>9 DEF RecordInLint, RecordInCritic
  <2>2. pc[t] = "recording" /\ ranMock' = ranMock /\ call'[t].backend \notin Mock
    BY <2>1 DEF Record, TaskTypes, NoCall, Mock
  <2>3. mockUsed' = (mockUsed \/ call[t].backend \in Mock)
    BY <2>1 DEF Record, Fresh
  <2> QED
    BY <2>2, <2>3, <1>3 DEF MockInv
<1> QED
  BY <1>4, <1>5, <1>6, <1>7, <1>8, <1>9 DEF TaskStep

MocksInv == MainInv /\ MockInv

LEMMA MocksInit == Init => MocksInv
  BY MainInit DEF Init, MocksInv, MockInv, NoCall, Mock

LEMMA MocksStep == MocksInv /\ [Next]_vars => MocksInv'
<1> SUFFICES ASSUME MocksInv, [Next]_vars PROVE MocksInv'
  OBVIOUS
<1>1. MainInv'
  BY MainInvStep DEF MocksInv
<1>2. CASE Plan \/ MainStep \/ CliChange \/ UNCHANGED vars
  <2>1. UNCHANGED <<tasks, inputVars, taskVars>>
    BY <1>2, MainFrame DEF Plan, CliChange, vars, plannerVars, Planner!Next,
       Planner!PlaceBatch, Planner!CycleFallback
  <2> QED
    BY <1>1, <2>1 DEF MocksInv, MockInv, MockAllowed, Positions, taskVars, inputVars
<1>3. CASE \E t \in Positions : TaskStep(t)
  BY <1>1, <1>3, MockStep DEF MocksInv, MainInv
<1> QED
  BY <1>2, <1>3, Steps

(* Where mocks are not allowed and no task asks for one none ever runs, and
   a mock that ran for a task that returned is on record, while CLIs come
   and go between the router's two looks at them.                          *)
THEOREM MocksFailClosed == Spec => []MocksAccountedFor
<1>1. MocksInv => MocksAccountedFor
  BY DEF MocksInv, MockInv, MockAllowed, MocksAccountedFor, FailClosed, MockOnRecord
<1> QED
  BY <1>1, MocksInit, MocksStep, PTL DEF Spec

-----------------------------------------------------------------------------
(* What a milestone reports of mocks, and what its record is marked with.
   RunLifecycle, where a milestone is one step, takes this for granted in
   Result and Marked.                                                      *)
ReportsAreMarked == (report.mock => mockUsed) /\ (mockUsed => MockAllowed)

(* A result that is kept is on record from the moment it is kept, and the
   mark is not taken back before the report, which reads what was kept.    *)
MarkedInv == MocksInv /\ ReportsAreMarked /\ \A t \in Positions : kept[t].mock => mockUsed

LEMMA MarkedInit == Init => MarkedInv
<1> SUFFICES ASSUME Init PROVE MarkedInv
  OBVIOUS
<1>1. ~report.mock /\ ~mockUsed /\ \A t \in Positions : ~kept[t].mock
  BY DEF Init, NoReport, NoResult
<1> QED
  BY <1>1, MocksInit DEF MarkedInv, ReportsAreMarked

(* What a task keeps is what it has just recorded, or what it had before.  *)
LEMMA KeptIsRecorded ==
  ASSUME TaskTypes, NEW t \in Positions, TaskStep(t)
  PROVE  /\ mockUsed => mockUsed'
         /\ kept'[t].mock => kept[t].mock \/ mockUsed'
<1>1. mockUsed \in BOOLEAN
  BY DEF TaskTypes
<1>2. CASE Start(t) \/ Decide(t) \/ Check(t) \/ Call(t) \/ Lint(t) \/ Judge(t)
  <2>1. UNCHANGED <<kept, mockUsed>>
    BY <1>2 DEF Start, Decide, Check, Call, Lint, Judge
  <2> QED
    BY <2>1
<1>3. CASE Fail(t)
  <2>1. kept' = kept
    BY <1>3 DEF Fail
  <2>2. mockUsed' = mockUsed \/ mockUsed' = (mockUsed \/ call[t].backend \in Mock)
    <3>1. mockUsed' = mockUsed \/ mockUsed' \in {mockUsed, mockUsed \/ call[t].backend \in Mock}
      BY <1>3, Zenon DEF Fail
    <3> QED
      BY <3>1, Zenon
  <2>3. mockUsed => mockUsed'
    <3>1. CASE mockUsed' = mockUsed
      BY <3>1, Zenon
    <3>2. CASE mockUsed' = (mockUsed \/ call[t].backend \in Mock)
      BY <3>2, <1>1
    <3> QED
      BY <2>2, <3>1, <3>2, Zenon
  <2> QED
    BY <2>1, <2>3
<1>4. CASE RecordInLint(t) \/ RecordInCritic(t)
  <2>1. /\ mockUsed' = (mockUsed \/ Fresh(t).mock)
        /\ kept'[t] = Fresh(t) \/ kept'[t] = kept[t]
    BY <1>4 DEF RecordInLint, RecordInCritic, Record, TaskTypes
  <2>2. Fresh(t).mock \in BOOLEAN
    BY DEF Fresh
  <2> QED
    BY <2>1, <2>2, <1>1
<1> QED
  BY <1>2, <1>3, <1>4 DEF TaskStep

LEMMA MarkedStep == MarkedInv /\ [Next]_vars => MarkedInv'
<1> SUFFICES ASSUME MarkedInv, [Next]_vars PROVE MarkedInv'
  OBVIOUS
<1>1. MocksInv' /\ TaskTypes
  BY MocksStep DEF MarkedInv, MocksInv, MainInv
<1>2. (mockUsed => MockAllowed)'
  BY <1>1 DEF MocksInv, MockInv
<1>3. ASSUME UNCHANGED <<tasks, taskVars>>, report' = report \/ Report
      PROVE  MarkedInv'
  <2>1. UNCHANGED <<kept, mockUsed>> /\ Positions' = Positions
    BY <1>3 DEF taskVars, Positions
  <2>2. report'.mock => mockUsed
    <3>1. CASE report' = report
      BY <3>1 DEF MarkedInv, ReportsAreMarked
    <3>2. CASE Report
      <4>1. report'.mock => \E t \in results : kept[t].mock
        BY <3>2 DEF Report
      <4>2. results \subseteq Positions
        BY DEF MarkedInv, MocksInv, MainInv, MainTypes
      <4> QED
        BY <4>1, <4>2 DEF MarkedInv
    <3> QED
      BY <1>3, <3>1, <3>2
  <2> QED
    BY <1>1, <1>2, <2>1, <2>2 DEF MarkedInv, ReportsAreMarked
<1>4. CASE \E t \in Positions : TaskStep(t)
  <2>1. PICK t \in Positions : TaskStep(t)
    BY <1>4
  <2>2. report' = report /\ Positions' = Positions
    BY <2>1, TaskStepFrame DEF mainVars, plannerVars, Positions
  <2>3. \A u \in Positions : kept'[u].mock => kept[u].mock \/ mockUsed'
    BY <1>1, <2>1, OtherTasks, KeptIsRecorded
  <2>4. mockUsed => mockUsed'
    BY <1>1, <2>1, KeptIsRecorded
  <2> QED
    BY <1>1, <1>2, <2>2, <2>3, <2>4 DEF MarkedInv, ReportsAreMarked
<1>5. CASE BeginRun
  <2>1. ~report'.mock \/ report' = report
    BY <1>5 DEF BeginRun, NoReport
  <2>2. UNCHANGED <<kept, mockUsed>> /\ Positions' = Positions
    BY <1>5 DEF BeginRun, taskVars, plannerVars, Positions
  <2> QED
    BY <1>1, <1>2, <2>1, <2>2 DEF MarkedInv, ReportsAreMarked
<1>6. CASE Plan \/ Propagate \/ Collect \/ Report \/ CliChange \/ UNCHANGED vars
  <2>1. UNCHANGED <<tasks, taskVars>>
    BY <1>6 DEF Plan, Propagate, Collect, Report, CliChange, vars, plannerVars, Planner!Next,
       Planner!PlaceBatch, Planner!CycleFallback
  <2>2. report' = report \/ Report
    BY <1>6 DEF Plan, Propagate, Collect, CliChange, vars, mainVars
  <2> QED
    BY <1>3, <2>1, <2>2
<1> QED
  BY <1>4, <1>5, <1>6, Steps DEF MainStep

(* A report that says mock has its mark on the run, and the mark is only
   there where a mock was allowed or asked for: whatever was retried, raised
   or thrown away in between.                                              *)
THEOREM MilestonesAreMarked == Spec => []ReportsAreMarked
<1>1. MarkedInv => ReportsAreMarked
  BY DEF MarkedInv
<1> QED
  BY <1>1, MarkedInit, MarkedStep, PTL DEF Spec
=============================================================================
