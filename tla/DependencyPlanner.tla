-------------------------- MODULE DependencyPlanner --------------------------
(***************************************************************************)
(* DependencyPlanner.waves (planners/dependency_planner.py) and the loop   *)
(* of topological_batches (utils/concurrency.py) it returns: the tasks of  *)
(* one milestone are cut into batches ("waves"), each of which the         *)
(* implementer hands to a thread pool.                                     *)
(*                                                                         *)
(* One action is one iteration of the while loop, so that what the loop    *)
(* computes is an invariant that can be proved for every list of tasks.    *)
(* A task is its position in the milestone's task list (task ids are       *)
(* unique); position 0 stands for an id that is not in the list, such as a *)
(* task of another milestone.                                              *)
(***************************************************************************)
EXTENDS Naturals, FiniteSets, Sequences

CONSTANTS Files,        (* the file names tasks may declare                *)
          TaskLists     (* the milestone task lists given to the planner   *)

Unknown == 0

(* What the planner reads of a DeliveryTask: the declared dependencies, the
   non-empty names of allowed_files (else target_files), those of them the
   task lists more than once, and whether the risk is HIGH or CRITICAL.    *)
Task == [deps : SUBSET Nat, files : SUBSET Files, twice : SUBSET Files,
         high : BOOLEAN]

IsTaskList(ts) == /\ ts \in Seq(Task)
                  /\ \A t \in DOMAIN ts : ts[t].twice \subseteq ts[t].files

ASSUME TaskListsAssumption == \A ts \in TaskLists : IsTaskList(ts)

VARIABLES tasks,        (* the list given to waves()                       *)
          remaining,    (* the nodes in no batch yet                       *)
          batches,      (* the batches returned, in order                  *)
          cyclic        (* whether the last batch is the cycle fallback    *)

vars == <<tasks, remaining, batches, cyclic>>

-----------------------------------------------------------------------------
(* _build_edges: an edge from a to b makes b wait for a.

   a is the last task before b to declare what b declares: the pairs of
   itertools.pairwise over the tasks that declare it, in list order.  A
   file listed twice by one task pairs the task with itself.               *)
Shares(ts, f, a, b) == f \in ts[a].files /\ f \in ts[b].files

(* Mutant: every later task paired with the first that declares the file,
   not with the one before it.                                             *)
SameFilePairWithFirst(ts, a, b) ==
  \E f \in Files : /\ a < b /\ Shares(ts, f, a, b)
                  /\ \A c \in DOMAIN ts : c < a => f \notin ts[c].files

SameFilePair(ts, a, b) ==
  \E f \in Files :
     \/ a = b /\ f \in ts[a].twice
     \/ /\ a < b /\ Shares(ts, f, a, b)
        /\ \A c \in DOMAIN ts : a < c /\ c < b => f \notin ts[c].files

(* prev is the previous HIGH/CRITICAL task only.                           *)
HighRiskPair(ts, a, b) ==
  /\ a < b /\ ts[a].high /\ ts[b].high
  /\ \A c \in DOMAIN ts : a < c /\ c < b => ~ts[c].high

(* The edges topological_batches keeps: those between nodes of the list.   *)
Edge(ts, a, b) ==
  /\ a \in DOMAIN ts /\ b \in DOMAIN ts
  /\ a \in ts[b].deps \/ SameFilePair(ts, a, b) \/ HighRiskPair(ts, a, b)

Incoming(ts, b) == { a \in DOMAIN ts : Edge(ts, a, b) }

-----------------------------------------------------------------------------
(* Mutant: the nodes are taken from the edges too.                         *)
InitWithUnknown == /\ tasks \in TaskLists
                   /\ remaining = DOMAIN tasks \cup
                                  UNION { tasks[t].deps : t \in DOMAIN tasks }
                   /\ batches = <<>>
                   /\ cyclic = FALSE

Init == /\ tasks \in TaskLists
        /\ remaining = DOMAIN tasks
        /\ batches = <<>>
        /\ cyclic = FALSE

(* The nodes whose remaining predecessors have all been discarded.         *)
Ready == { b \in remaining : Incoming(tasks, b) \cap remaining = {} }

(* Mutant: one ready node per batch.                                       *)
PlaceOne == /\ Ready # {}
            /\ LET b == CHOOSE x \in Ready : \A y \in Ready : x <= y IN
               /\ batches' = Append(batches, {b})
               /\ remaining' = remaining \ {b}
            /\ UNCHANGED <<tasks, cyclic>>

(* One iteration that finds ready nodes.                                   *)
PlaceBatch == /\ Ready # {}
              /\ batches' = Append(batches, Ready)
              /\ remaining' = remaining \ Ready
              /\ UNCHANGED <<tasks, cyclic>>

(* Mutant: the iteration changes nothing.                                  *)
CycleFallbackSpins == remaining # {} /\ Ready = {} /\ UNCHANGED vars

(* The iteration that finds none: the rest is one final batch.             *)
CycleFallback == /\ remaining # {} /\ Ready = {}
                 /\ batches' = Append(batches, remaining)
                 /\ remaining' = {}
                 /\ cyclic' = TRUE
                 /\ UNCHANGED tasks

Next == PlaceBatch \/ CycleFallback

(* The loop is sequential code that nothing blocks.                        *)
Spec == Init /\ [][Next]_vars /\ WF_vars(Next)

-----------------------------------------------------------------------------
(* The batches that the loop built because their tasks were ready.         *)
Ordered == IF cyclic THEN 1 .. (Len(batches) - 1) ELSE DOMAIN batches

Clash(ts, a, b) == \/ \E f \in Files : Shares(ts, f, a, b)
                   \/ ts[a].high /\ ts[b].high

(* Every declared dependency points back in the list and no task lists a
   file twice: what TaskPlanner (no dependencies) and FourStagePlanner (a
   chain in list order) produce.                                           *)
Forward(ts) == \A t \in DOMAIN ts : /\ ts[t].twice = {}
                                    /\ \A d \in ts[t].deps : d < t

(* The variables have their types.                                         *)
TypeOK == /\ IsTaskList(tasks)
          /\ remaining \subseteq DOMAIN tasks
          /\ batches \in Seq(SUBSET DOMAIN tasks)
          /\ cyclic \in BOOLEAN

(* No task is lost or planned twice: at every iteration a task is either
   still to place or in exactly one batch.                                 *)
EachTaskOnce ==
  \A t \in DOMAIN tasks :
     /\ t \in remaining <=> \A i \in DOMAIN batches : t \notin batches[i]
     /\ \A i, j \in DOMAIN batches : t \in batches[i] /\ t \in batches[j] => i = j

(* A task is planned in a later batch than every task it must wait for,
   whatever made it wait: a declaration, a shared file or its risk.        *)
EdgesRespected ==
  \A i \in Ordered : \A b \in batches[i] : \A a \in Incoming(tasks, b) :
     \E j \in DOMAIN batches : j < i /\ a \in batches[j]

(* "same-file conflicts serialized": two tasks that declare one file, and
   two high-risk tasks, are in different batches and in list order, though
   only neighbours in the list got an edge.                                *)
ClashesSerialized ==
  \A i \in Ordered : \A b \in batches[i] : \A a \in DOMAIN tasks :
     a < b /\ Clash(tasks, a, b) => \E j \in DOMAIN batches : j < i /\ a \in batches[j]

(* The waves are a plan: every task of the list, once, in order, and what
   clashes apart.                                                          *)
IsAPlan == EachTaskOnce /\ EdgesRespected /\ ClashesSerialized

(* Parallelism is not wasted: a task of a later batch waits for some task
   of the batch just before it.                                            *)
NoNeedlessWait ==
  \A i \in Ordered : i > 1 =>
     \A b \in batches[i] : \E a \in batches[i - 1] : a \in Incoming(tasks, b)

(* Task lists in dependency order never reach the cycle fallback.          *)
ForwardNeverCyclic == Forward(tasks) => ~cyclic

(* The plan is as parallel as the edges allow, and in order wherever it can
   be: nobody waits in vain, and the fallback, which puts all that is left
   into one batch, is not taken without a cycle.                           *)
PlanIsTight == NoNeedlessWait /\ ForwardNeverCyclic

(* The planner returns.                                                    *)
Terminates == <>(remaining = {})
=============================================================================
