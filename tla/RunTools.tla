------------------------------ MODULE RunTools ------------------------------
(***************************************************************************)
(* What works on one run, one program per behaviour: the commands that     *)
(* read and rewrite its record, the replays that rewrite its artifacts,    *)
(* and the executors' calls on its working tree.  They share no state      *)
(* here; this module lets one run check all of them, on small instances.   *)
(***************************************************************************)
EXTENDS RunLifecycle, ReplayArtifacts, ExecutorCalls

VARIABLE tool   (* what works on the run: commands, replays or calls       *)

toolVars == <<tool, vars, replayVars, callVars>>

ToolsInit ==
  /\ tool \in {"commands", "replays", "calls"}
  /\ Init /\ ReplayInit /\ CallsInit
  /\ tool # "commands" => mode = "apply"
  /\ tool # "replays" => reached = 0
  /\ tool # "calls" => /\ ~git
                       /\ \A f \in TreeFiles : head[f] = Absent /\ content[f] = Absent

CommandStep == tool = "commands" /\ Next /\ UNCHANGED <<tool, replayVars, callVars>>
ReplayStep == tool = "replays" /\ ReplayNext /\ UNCHANGED <<tool, vars, callVars>>
CallStep == tool = "calls" /\ CallsNext /\ UNCHANGED <<tool, vars, replayVars>>

ToolsSpec == /\ ToolsInit
             /\ [][CommandStep \/ ReplayStep \/ CallStep]_toolVars
             /\ \A p \in Procs : WF_toolVars(CommandStep /\ Step(p))
-----------------------------------------------------------------------------
(* What is not used stays as it is in ToolsInit.                           *)
ToolsTypeOK == CASE tool = "commands" -> TypeOK
                 [] tool = "replays" -> ReplayTypeOK
                 [] tool = "calls" -> CallsTypeOK

(* The directories of two consecutive stages, with the results in one.     *)
TwoTags == <<"planning", "execution">>
=============================================================================
