---------------------------- MODULE TaskReadiness ----------------------------
(***************************************************************************)
(* The LOGICAL dimension of TaskReadinessChecker                           *)
(* (planners/task_readiness_checker.py:86-147), which looks for unknown    *)
(* and circular declared dependencies by a depth-first search before the   *)
(* planner meets the same task list (that of a plan of one milestone) and  *)
(* notices a cycle only when no task is ready.                             *)
(*                                                                         *)
(* The calls of dfs that have not returned are a path; an action is what   *)
(* the innermost of them does next.  A dependency on an unknown task is    *)
(* skipped, and the order in which a task names its dependencies is left   *)
(* open.  Abstracted: the five dimensions that read one task's text alone. *)
(***************************************************************************)
EXTENDS DependencyPlanner

VARIABLES colour,   (* of every task: white, gray or black                 *)
          path,     (* the nodes of the calls of dfs that are active       *)
          found     (* whether a call has returned True: all others do     *)

searchVars == <<colour, path, found>>
checkVars == <<vars, searchVars>>
-----------------------------------------------------------------------------
CheckInit == /\ Init
             /\ colour = [t \in DOMAIN tasks |-> "white"]
             /\ path = <<>> /\ found = FALSE

Neighbours(node) == tasks[node].deps \cap DOMAIN tasks

At == path[Len(path)]

Enter(node) == /\ colour[node] = "white"
               /\ colour' = [colour EXCEPT ![node] = "gray"]
               /\ path' = Append(path, node)
               /\ UNCHANGED found

(* any(dfs(n) for n ...): a search from a node that is still white.        *)
Begin == path = <<>> /\ ~found /\ \E node \in DOMAIN tasks : Enter(node)

Descend == path # <<>> /\ ~found /\ \E d \in Neighbours(At) : Enter(d)

(* Mutant: a node that was seen counts as a cycle, finished or not.        *)
MeetSeen == /\ path # <<>> /\ ~found
            /\ \E d \in Neighbours(At) : colour[d] # "white"
            /\ found' = TRUE
            /\ UNCHANGED <<colour, path>>

(* A neighbour on the path.                                                *)
MeetGray == /\ path # <<>> /\ ~found
            /\ \E d \in Neighbours(At) : colour[d] = "gray"
            /\ found' = TRUE
            /\ UNCHANGED <<colour, path>>

(* The neighbours have all been searched.                                  *)
Finish == /\ path # <<>> /\ ~found
          /\ \A d \in Neighbours(At) : colour[d] = "black"
          /\ colour' = [colour EXCEPT ![At] = "black"]
          /\ path' = SubSeq(path, 1, Len(path) - 1)
          /\ UNCHANGED found

Search == Begin \/ Descend \/ MeetGray \/ Finish

(* _has_cycle has returned.                                                *)
Checked == found \/ \A t \in DOMAIN tasks : colour[t] = "black"

(* _check_logical: one cycle anywhere fails every task of the list.        *)
Logical(t) == tasks[t].deps \subseteq DOMAIN tasks /\ ~found

(* The checker, then the planner.                                          *)
CheckNext == \/ Search /\ UNCHANGED vars
             \/ Checked /\ Next /\ UNCHANGED searchVars

CheckSpec == CheckInit /\ [][CheckNext]_checkVars /\ WF_checkVars(CheckNext)
-----------------------------------------------------------------------------
CheckTypeOK == /\ TypeOK
               /\ colour \in [DOMAIN tasks -> {"white", "gray", "black"}]
               /\ path \in Seq(DOMAIN tasks)
               /\ found \in BOOLEAN

(* No two tasks wait for each other but by a declaration.                  *)
DeclaredOnly(ts) ==
  \A a, b \in DOMAIN ts : Edge(ts, a, b) => a \in ts[b].deps

(* The checker and the planner agree: a list whose cycle the checker
   reports is one the planner cannot order, and one that it cannot order
   for its declared dependencies alone is reported, in whatever order the
   search meets the tasks (task_readiness_checker.py:100-118,
   utils/concurrency.py:44-48).                                            *)
CyclesAreReported ==
  Checked /\ remaining = {} =>
    /\ \A t \in DOMAIN tasks :
         tasks[t].deps \subseteq DOMAIN tasks /\ ~Logical(t) => cyclic
    /\ cyclic /\ DeclaredOnly(tasks) => \A t \in DOMAIN tasks : ~Logical(t)
=============================================================================
