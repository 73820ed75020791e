------------------------------ MODULE Workbench ------------------------------
(***************************************************************************)
(* Four stand-alone programs of a workspace, one per behaviour: a file     *)
(* watcher, the sprint commands, a judge panel, an MCP client with its     *)
(* server.  They share no state; this module only lets one run check all   *)
(* of them.                                                                *)
(***************************************************************************)
EXTENDS FileWatcher, SprintFlow, TournamentGate, McpSession

VARIABLE session   (* the program that runs: watch, sprints, panel or mcp  *)

workVars == <<session, watchVars, sprintVars, panelVars, mcpVars>>

WorkInit ==
  /\ session \in {"watch", "sprints", "panel", "mcp"}
  /\ WatchInit /\ SprintInit /\ PanelInit /\ McpInit
  /\ session # "watch" => kind = CHOOSE k \in Kinds : TRUE
  /\ session # "panel" => judges = 0
  /\ session # "mcp" => ~shakes /\ ~guarded

WatchStep == /\ session = "watch" /\ WatchNext
             /\ UNCHANGED <<session, sprintVars, panelVars, mcpVars>>
SprintStep == /\ session = "sprints" /\ SprintNext
              /\ UNCHANGED <<session, watchVars, panelVars, mcpVars>>
PanelStep == /\ session = "panel" /\ PanelNext
             /\ UNCHANGED <<session, watchVars, sprintVars, mcpVars>>
McpStep == /\ session = "mcp" /\ McpNext
           /\ UNCHANGED <<session, watchVars, sprintVars, panelVars>>

WorkSpec == /\ WorkInit /\ [][WatchStep \/ SprintStep \/ PanelStep \/ McpStep]_workVars
            /\ WatchFairness
-----------------------------------------------------------------------------
WorkTypeOK == WatchTypeOK /\ SprintTypeOK /\ PanelTypeOK /\ McpTypeOK
=============================================================================
