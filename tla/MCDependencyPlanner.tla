------------------------- MODULE MCDependencyPlanner -------------------------
(* Every list of at most MaxTasks tasks with at most one declared dependency
   each: on an unknown task, on itself, or forward or back in the list.    *)
EXTENDS TaskReadiness

CONSTANT MaxTasks       (* bound: the length of the task lists             *)

MCDeps == { {} } \cup { {d} : d \in Unknown .. MaxTasks }

MCTask == { t \in [deps : MCDeps, files : SUBSET Files, twice : SUBSET Files,
                   high : BOOLEAN] : t.twice \subseteq t.files }

MCTaskLists == UNION { [1 .. n -> MCTask] : n \in 0 .. MaxTasks }
=============================================================================
