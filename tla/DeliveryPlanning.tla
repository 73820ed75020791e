-------------------------- MODULE DeliveryPlanning --------------------------
(***************************************************************************)
(* From an order to the tasks that are executed: the scale of a project,   *)
(* the milestones of that scale, their tasks, the skeleton that is written *)
(* before them, the tasks that it makes redundant, and the list that every *)
(* milestone is executed with.  The flows that plan differ in how: the     *)
(* delivery with MilestonePlanner and TaskPlanner, an issue with one       *)
(* milestone of one task, a bug fix with FourStagePlanner, and multi-patch *)
(* with that once for each candidate.                                      *)
(*                                                                         *)
(* While the skeleton is written somebody else may save files.  What comes *)
(* of executing a milestone is MilestoneRun's subject and a free choice    *)
(* here.  Abstracted: texts, prompts, directories, and of the tasks what   *)
(* neither the planner of the waves nor the filter reads.                  *)
(***************************************************************************)
EXTENDS Naturals, FiniteSets, Sequences

CONSTANTS Orders,     (* what the flows are asked for                      *)
          Disks,      (* the files that the repository may begin with      *)
          MaxSaves    (* bound in the guard of SaveFile                    *)

VARIABLES
  order,       (* the input of the flow                                    *)
  stage,       (* where in the flow it is                                  *)
  scale,       (* resolved_scale                                           *)
  milestones,  (* of the plan, by their ids                                *)
  tasks,       (* of the plan                                              *)
  task_ids,    (* of each milestone, once its tasks are planned            *)
  disk,        (* of each file: absent, skeleton, or somebody's            *)
  todo,        (* files of the skeleton that have not been looked at       *)
  writing,     (* the one that was absent when it was looked at            *)
  overwritten, (* somebody's files that the skeleton replaced              *)
  raced,       (* files that were saved between a look and its write       *)
  dropped,     (* the tasks filtered out                                   *)
  given,       (* the tasks that each milestone was executed with          *)
  failures,    (* the milestones that failed                               *)
  saves

planVars == <<milestones, tasks, task_ids>>
diskVars == <<disk, todo, writing, overwritten, raced, saves>>
planningVars == <<order, stage, scale, planVars, diskVars, dropped, given, failures>>

Languages == {"python", "rust", "typescript", "unknown"}
Scales == {"bug-fix", "small", "medium", "enterprise"}
Flows == {"delivery", "issue", "bug_fix", "multi_patch"}

OrderType ==
  [flow : Flows, languages : Seq(Languages), criteria : Nat, risky : BOOLEAN,
   from_scratch : BOOLEAN, scale : Scales \cup {"infer"}, dry_run : BOOLEAN,
   stops : BOOLEAN, candidates : Nat]

ASSUME PlanningAssumption == Orders \subseteq OrderType /\ MaxSaves \in Nat

(* inp.languages or [Language.PYTHON]                                      *)
Spoken == IF order.languages = <<>> THEN <<"python">> ELSE order.languages
-----------------------------------------------------------------------------
(* The files of a language: of the skeleton, and of its scaffold task.     *)
Skeleton(language) ==
  IF language = "python"
  THEN {"pyproject", "readme", "pkg/init", "pkg/cli", "pkg/core", "tests/init", "tests/smoke"}
  ELSE IF language = "rust" THEN {"cargo", "src/lib"}
  ELSE IF language = "typescript" THEN {"package", "tsconfig", "src/index"}
  ELSE {}

ScaffoldFiles(language) ==
  IF language = "python" THEN <<"pyproject", "src/init", "tests/init", "readme">>
  ELSE IF language = "rust" THEN <<"cargo", "src/lib", "tests/gitkeep">>
  ELSE IF language = "typescript" THEN <<"package", "tsconfig", "src/index", "tests/gitkeep">>
  ELSE <<>>

CoreFiles(language) == IF language = "python" THEN <<"pkg/core", "pkg/cli">> ELSE <<>>

PlanFiles ==
  (UNION { Skeleton(l) : l \in Languages }) \cup {"src/init", "tests/gitkeep"}
NoFile == "none"

FilesToCreate == UNION { Skeleton(Spoken[i]) : i \in DOMAIN Spoken }
-----------------------------------------------------------------------------
(* A milestone's id is a series and a number, in tenths for the delivery's:
   <<"M", 35>> is M3.5.                                                    *)
M(n) == <<"M", n>>

Template(size) ==
  IF size = "bug-fix" THEN <<M(20)>>
  ELSE IF size = "small" THEN <<M(0), M(10), M(20), M(40), M(50)>>
  ELSE IF size = "medium" THEN <<M(0), M(10), M(20), M(30), M(40), M(50)>>
  ELSE <<M(0), M(10), M(20), M(30), M(35), M(36), M(40), M(50)>>

(* infer_scale, from the acceptance criteria of the PRD, the languages, the
   words of risk among the criteria, and whether there is nothing yet.     *)
Inferred ==
  IF order.criteria > 50 \/ Len(Spoken) >= 3 \/ order.risky THEN "enterprise"
  ELSE IF order.criteria >= 15 \/ Len(Spoken) >= 2 THEN "medium"
  ELSE IF order.criteria >= 5 \/ order.from_scratch THEN "small"
  ELSE "bug-fix"

(* What a planner knows of a task before it has an id.                     *)
Draft(type, target, high) == [type |-> type, files |-> target, high |-> high]
Plain(type) == Draft(type, <<>>, FALSE)

(* The drafts that TaskPlanner has for a milestone.  M0 and the milestone
   of an issue have none.                                                  *)
Drafts(m, size) ==
  IF m = M(35) THEN <<Plain("feature")>>
  ELSE IF m = M(36) THEN <<Draft("feature", <<>>, TRUE)>>
  ELSE IF m = M(20) /\ size = "bug-fix" THEN <<Draft("feature", <<"pkg/cli">>, FALSE)>>
  ELSE IF m = M(10) THEN [i \in DOMAIN Spoken |->
                            Draft("scaffold", ScaffoldFiles(Spoken[i]), FALSE)]
  ELSE IF m = M(20) THEN [i \in DOMAIN Spoken |->
                            Draft("feature", CoreFiles(Spoken[i]), FALSE)]
  ELSE IF m = M(30) THEN <<Plain("integration")>>
  ELSE IF m = M(40) THEN <<Draft("security", <<>>, TRUE), Plain("bugfix")>>
  ELSE IF m = M(50) THEN <<Plain("docs"), Plain("release")>>
  ELSE <<>>

Task(m, id, draft, deps) ==
  [id |-> id, milestone |-> m, type |-> draft.type, files |-> draft.files,
   high |-> draft.high, deps |-> deps]

(* Mutant: a task is numbered before the one beside it is in the list.     *)
PlannedBeside(m) ==
  LET drafts == Drafts(m, scale)
  IN [i \in DOMAIN drafts |-> Task(m, <<m, Len(tasks) + 1>>, drafts[i], {})]

(* _mk numbers the tasks of a plan, not those of a milestone.              *)
Planned(m) ==
  LET drafts == Drafts(m, scale)
  IN [i \in DOMAIN drafts |-> Task(m, <<m, Len(tasks) + i>>, drafts[i], {})]

(* FourStagePlanner: reproduce, locate, patch and verify; each stage depends
   on the one before.  Their ids are the same in every plan.               *)
StageType(i) == IF i \in {2, 3} THEN "bugfix" ELSE "test"
Stages(m) ==
  [i \in 1..4 |-> Task(m, <<<<"BUG", 0>>, i>>, Plain(StageType(i)),
                       IF i = 1 THEN {} ELSE {<<<<"BUG", 0>>, i - 1>>})]

IdsOf(list, m) == { list[t].id : t \in { u \in DOMAIN list : list[u].milestone = m } }
-----------------------------------------------------------------------------
PlanningInit ==
  /\ order \in Orders
  /\ stage = IF order.flow = "delivery" THEN "scale"
             ELSE IF order.flow = "multi_patch" THEN "candidate" ELSE "tasks"
  /\ scale = IF order.flow = "delivery" THEN order.scale ELSE "infer"
  /\ milestones = IF order.flow = "issue" THEN << <<"MI", 1>> >>
                  ELSE IF order.flow = "bug_fix" THEN << <<"MBUG", 1>> >> ELSE <<>>
  /\ tasks = <<>> /\ task_ids = <<>>
  /\ disk \in { [f \in PlanFiles |-> IF f \in kept THEN "theirs" ELSE "absent"] :
                kept \in Disks }
  /\ todo = {} /\ writing = NoFile /\ overwritten = {} /\ raced = {} /\ saves = 0
  /\ dropped = {} /\ given = <<>> /\ failures = {}

(* Stage 7 of the delivery: the scale that was asked for or inferred, and
   the milestones of it.                                                   *)
PlanMilestones ==
  /\ stage = "scale" /\ stage' = "tasks"
  /\ scale' = IF order.scale = "infer" THEN Inferred ELSE order.scale
  /\ milestones' = Template(scale')
  /\ UNCHANGED <<order, tasks, task_ids, diskVars, dropped, given, failures>>

(* An iteration of TaskPlanner.plan, over the milestones.                  *)
PlanTasks ==
  /\ stage = "tasks" /\ order.flow \in {"delivery", "issue"}
  /\ Len(task_ids) < Len(milestones)
  /\ LET m == milestones[Len(task_ids) + 1]
     IN /\ tasks' = tasks \o Planned(m)
        /\ task_ids' = Append(task_ids, IdsOf(tasks', m))
  /\ UNCHANGED <<order, stage, scale, milestones, diskVars, dropped, given, failures>>

(* The delivery goes on to its skeleton; an issue without tasks gets one,
   which its milestone does not list.                                      *)
TasksPlanned ==
  /\ stage = "tasks" /\ order.flow \in {"delivery", "issue"}
  /\ Len(task_ids) = Len(milestones)
  /\ IF order.flow = "delivery"
     THEN /\ stage' = "scaffold" /\ todo' = FilesToCreate
          /\ UNCHANGED tasks
     ELSE /\ stage' = "implement"
          /\ tasks' = IF tasks = <<>>
                      THEN <<Task(<<"MI", 1>>, <<<<"MI", 1>>, 1>>, Plain("feature"), {})>>
                      ELSE tasks
          /\ UNCHANGED todo
  /\ UNCHANGED <<order, scale, milestones, task_ids, disk, writing, overwritten, raced, saves,
                 dropped, given, failures>>

PlanBugFix ==
  /\ stage = "tasks" /\ order.flow = "bug_fix" /\ stage' = "implement"
  /\ tasks' = Stages(milestones[1])
  /\ task_ids' = <<IdsOf(tasks', milestones[1])>>
  /\ UNCHANGED <<order, scale, milestones, diskVars, dropped, given, failures>>

(* max(1, inp.n_candidates)                                                *)
Candidates == IF order.candidates = 0 THEN 1 ELSE order.candidates

PlanCandidate ==
  /\ stage = "candidate" /\ Len(milestones) < Candidates /\ stage' = "implement"
  /\ LET m == <<"MPATCH", Len(milestones) + 1>>
     IN /\ milestones' = Append(milestones, m)
        /\ tasks' = tasks \o Stages(m)
        /\ task_ids' = Append(task_ids, IdsOf(tasks', m))
  /\ UNCHANGED <<order, scale, diskVars, dropped, given, failures>>
-----------------------------------------------------------------------------
(* Mutant: create_only forgotten.                                          *)
LookAway(f) ==
  /\ stage = "scaffold" /\ writing = NoFile /\ f \in todo
  /\ todo' = todo \ {f}
  /\ writing' = IF ~order.dry_run THEN f ELSE NoFile
  /\ UNCHANGED <<order, stage, scale, planVars, disk, overwritten, raced, saves, dropped,
                 given, failures>>

(* The skeleton: ScaffolderAgent.apply looks whether a file exists, and
   then writes it.  In a dry run it only looks.  In which order the files
   come makes no difference.                                               *)
LookAt(f) ==
  /\ stage = "scaffold" /\ writing = NoFile /\ f \in todo
  /\ todo' = todo \ {f}
  /\ writing' = IF disk[f] = "absent" /\ ~order.dry_run THEN f ELSE NoFile
  /\ UNCHANGED <<order, stage, scale, planVars, disk, overwritten, raced, saves, dropped,
                 given, failures>>

WriteFile ==
  /\ writing # NoFile
  /\ overwritten' = IF disk[writing] = "theirs" THEN overwritten \cup {writing} ELSE overwritten
  /\ disk' = [disk EXCEPT ![writing] = "skeleton"]
  /\ writing' = NoFile
  /\ UNCHANGED <<order, stage, scale, planVars, todo, raced, saves, dropped, given, failures>>

(* Somebody saves a file of the repository.                                *)
SaveFile(f) ==
  /\ saves < MaxSaves /\ stage = "scaffold"
  /\ disk' = [disk EXCEPT ![f] = "theirs"]
  /\ raced' = IF f = writing THEN raced \cup {f} ELSE raced
  /\ saves' = saves + 1
  /\ UNCHANGED <<order, stage, scale, planVars, todo, writing, overwritten, dropped, given,
                 failures>>

(* verify, and the filter of the scaffold tasks: one whose files are all
   part of the skeleton and there is dropped.                              *)
Present == { f \in FilesToCreate : disk[f] # "absent" }
Redundant(t) ==
  /\ tasks[t].type = "scaffold" /\ tasks[t].files # <<>>
  /\ \A i \in DOMAIN tasks[t].files : tasks[t].files[i] \in Present

VerifySkeleton ==
  /\ stage = "scaffold" /\ todo = {} /\ writing = NoFile
  /\ stage' = "implement"
  /\ dropped' = { t \in DOMAIN tasks : Redundant(t) }
  /\ UNCHANGED <<order, scale, planVars, diskVars, given, failures>>
-----------------------------------------------------------------------------
(* An iteration of the implementation loop: run_milestone takes the tasks
   of its milestone from the list.  One without tasks succeeds.            *)
TasksOf(m) == { t \in DOMAIN tasks \ dropped : tasks[t].milestone = m }

ImplementMilestone(success) ==
  /\ stage = "implement" /\ Len(given) < Len(milestones)
  /\ LET m == milestones[Len(given) + 1]
     IN /\ success \/ TasksOf(m) # {}
        /\ given' = Append(given, TasksOf(m))
        /\ failures' = IF success THEN failures ELSE failures \cup {m}
  /\ stage' = IF order.flow = "multi_patch" THEN "candidate"
              ELSE IF ~success /\ order.flow = "delivery" /\ order.stops THEN "over"
              ELSE stage
  /\ UNCHANGED <<order, scale, planVars, diskVars, dropped>>

FlowEnds ==
  /\ \/ stage = "implement" /\ Len(given) = Len(milestones)
     \/ stage = "candidate" /\ Len(milestones) >= Candidates
  /\ stage' = "over"
  /\ UNCHANGED <<order, scale, planVars, diskVars, dropped, given, failures>>

PlanningNext ==
  \/ PlanMilestones \/ PlanTasks \/ TasksPlanned \/ PlanBugFix \/ PlanCandidate
  \/ \E f \in PlanFiles : LookAt(f) \/ SaveFile(f)
  \/ WriteFile \/ VerifySkeleton
  \/ \E success \in BOOLEAN : ImplementMilestone(success)
  \/ FlowEnds

PlanningSpec == PlanningInit /\ [][PlanningNext]_planningVars
-----------------------------------------------------------------------------
Series == {"M", "MI", "MBUG", "MPATCH", "BUG"}
TaskType ==
  [id : (Series \X Nat) \X Nat, milestone : Series \X Nat,
   type : {"scaffold", "feature", "integration", "security", "bugfix", "docs", "release", "test"},
   files : Seq(PlanFiles), high : BOOLEAN, deps : SUBSET ((Series \X Nat) \X Nat)]

PlanningTypeOK ==
  /\ order \in OrderType
  /\ stage \in {"scale", "tasks", "scaffold", "candidate", "implement", "over"}
  /\ scale \in Scales \cup {"infer"}
  /\ milestones \in Seq(Series \X Nat) /\ tasks \in Seq(TaskType)
  /\ task_ids \in Seq(SUBSET ((Series \X Nat) \X Nat))
  /\ disk \in [PlanFiles -> {"absent", "theirs", "skeleton"}]
  /\ todo \subseteq PlanFiles /\ writing \in PlanFiles \cup {NoFile}
  /\ overwritten \subseteq PlanFiles /\ raced \subseteq PlanFiles /\ saves \in 0..MaxSaves
  /\ dropped \subseteq DOMAIN tasks /\ given \in Seq(SUBSET DOMAIN tasks)
  /\ failures \subseteq Series \X Nat

(* Results, reviews and dependencies know a task by its id, and a run its
   milestones by theirs.  Only the candidates of multi-patch share ids, and
   each is executed by itself.                                             *)
IdsAreUnique ==
  /\ \A i, j \in DOMAIN milestones : milestones[i] = milestones[j] => i = j
  /\ \A t, u \in DOMAIN tasks :
       /\ tasks[t].id = tasks[u].id
       /\ order.flow = "multi_patch" => tasks[t].milestone = tasks[u].milestone
       => t = u

(* A milestone lists the tasks that are planned for it, also when all are.
   Not that of an issue, whose task is made up afterwards.                 *)
MilestonesListTheirs ==
  \A k \in DOMAIN task_ids :
    task_ids[k] = IdsOf(tasks, milestones[k]) \/ order.flow = "issue"

(* A milestone is executed with all of its tasks but those that had nothing
   left to do, and a flow that was not stopped executes all of them.       *)
EverythingIsGiven ==
  /\ \A k \in DOMAIN given : \A t \in DOMAIN tasks :
       tasks[t].milestone = milestones[k] =>
         t \in given[k] \/ \A i \in DOMAIN tasks[t].files : disk[tasks[t].files[i]] # "absent"
  /\ stage = "over" /\ (failures # {} => ~order.stops) =>
       \A t \in DOMAIN tasks \ dropped : \E k \in DOMAIN given : t \in given[k]

(* What the planner of the waves is given by run_milestone: the tasks of a
   milestone in the order of the plan.                                     *)
Waves == INSTANCE DependencyPlanner
           WITH Files <- PlanFiles, TaskLists <- {}, tasks <- <<>>, remaining <- {},
                batches <- <<>>, cyclic <- FALSE
InOrder(list) == \A i, j \in DOMAIN list : i < j => list[i] < list[j]
AsGiven(list) ==
  [i \in DOMAIN list |->
     LET t == tasks[list[i]]
     IN [deps |-> { j \in DOMAIN list : tasks[list[j]].id \in t.deps },
         files |-> { t.files[a] : a \in DOMAIN t.files },
         twice |-> { t.files[a] : a \in { b \in DOMAIN t.files :
                                          \E c \in DOMAIN t.files \ {b} :
                                            t.files[c] = t.files[b] } },
         high |-> t.high]]

(* The lists are ones for which the planner never gives up: nothing is
   declared twice, and what a task depends on is given before it.          *)
ListsAreForward ==
  \A k \in DOMAIN given :
    /\ \A t \in given[k] : \A id \in tasks[t].deps :
         \E u \in given[k] : u < t /\ tasks[u].id = id
    /\ \A list \in [1..Cardinality(given[k]) -> given[k]] :
         InOrder(list) => Waves!Forward(AsGiven(list))

(* The skeleton replaces nobody's file but one that was saved between the
   look and the write, and a dry run leaves the repository alone.          *)
SkeletonIsPolite ==
  /\ overwritten \subseteq raced
  /\ order.dry_run => \A f \in PlanFiles : disk[f] # "skeleton"

PlansAreExecutable ==
  /\ IdsAreUnique /\ MilestonesListTheirs /\ EverythingIsGiven /\ ListsAreForward
  /\ SkeletonIsPolite
=============================================================================
