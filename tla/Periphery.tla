------------------------------ MODULE Periphery ------------------------------
(***************************************************************************)
(* What stands around the runs of a delivery: the gate over autodev's own  *)
(* repository, the tools of the MCP server, the directories prepared for   *)
(* workers, the plans that are executed, the group of repositories that is *)
(* delivered together, and the reviews of a repository by programs and of  *)
(* a run by people.  They share no state here; this module only lets one   *)
(* run check all of them, one per behaviour.                               *)
(***************************************************************************)
EXTENDS WorkerIsolation, McpTools, ReadinessGate, DeliveryPlanning, GroupDelivery,
        SectionReview, HumanReview

VARIABLE desk   (* what is looked at                                       *)

workVars == <<isolationVars, toolVars, gateVars>>
deliveryVars == <<planningVars, groupVars>>
opinionVars == <<reviewVars, reviewingVars>>
peripheryVars == <<desk, workVars, deliveryVars, opinionVars>>

Desks == {"gate", "tools", "worktrees", "homes", "plans", "group", "sections", "humans"}

(* What is not looked at begins with whatever it may begin with.           *)
PeripheryInit ==
  /\ desk \in Desks
  /\ desk # "gate" => /\ files = CHOOSE t \in Trees : TRUE
                      /\ programs = CHOOSE b \in Behaviours : TRUE
  /\ desk # "tools" => registry_file = CHOOSE r \in Registries : TRUE
  /\ request = CHOOSE r \in Requests : TRUE   (* of none as yet           *)
  /\ desk # "worktrees" => tree = [root \in Roots |-> Nothing] /\ branches = {}
  /\ desk # "homes" => parent = [name \in Names |-> "inside"] /\ home = {}
  /\ desk # "plans" => /\ order = CHOOSE o \in Orders : TRUE
                       /\ disk = [f \in PlanFiles |-> "absent"]
  /\ desk # "group" => group = (CHOOSE g \in Groups : TRUE) /\ there = {}
  /\ desk # "sections" => text = [f \in Sources |-> Gone]
  /\ desk # "humans" => run_dir = FALSE
  /\ IsolationInit /\ ServerInit /\ GateInit
  /\ PlanningInit /\ GroupInit /\ ReviewInit /\ ReviewingInit

(* Worktrees and homes have no state in common.                            *)
AtWorkers == /\ desk \in {"worktrees", "homes"} /\ IsolationNext
             /\ IF desk = "homes" THEN UNCHANGED treeVars ELSE UNCHANGED homeVars
             /\ UNCHANGED <<desk, toolVars, gateVars, deliveryVars, opinionVars>>
AtTools == /\ desk = "tools" /\ ServerNext
           /\ UNCHANGED <<desk, isolationVars, gateVars, deliveryVars, opinionVars>>
AtGate == /\ desk = "gate" /\ GateNext
          /\ UNCHANGED <<desk, isolationVars, toolVars, deliveryVars, opinionVars>>
AtPlans == /\ desk = "plans" /\ PlanningNext
           /\ UNCHANGED <<desk, workVars, groupVars, opinionVars>>
AtGroup == /\ desk = "group" /\ GroupNext
           /\ UNCHANGED <<desk, workVars, planningVars, opinionVars>>
AtSections == /\ desk = "sections" /\ ReviewNext
              /\ UNCHANGED <<desk, workVars, deliveryVars, reviewingVars>>
AtHumans == /\ desk = "humans" /\ ReviewingNext
            /\ UNCHANGED <<desk, workVars, deliveryVars, reviewVars>>

PeripheryNext ==
  AtWorkers \/ AtTools \/ AtGate \/ AtPlans \/ AtGroup \/ AtSections \/ AtHumans

PeripherySpec == PeripheryInit /\ [][PeripheryNext]_peripheryVars
-----------------------------------------------------------------------------
PeripheryTypeOK ==
  /\ IsolationTypeOK /\ McpToolsTypeOK /\ GateTypeOK
  /\ PlanningTypeOK /\ GroupTypeOK /\ ReviewTypeOK /\ ReviewingTypeOK

(* The gate's report stays true, and its strict exit code of 0 is earned:
   see ReadinessGate.                                                      *)
GateIsHonest == ReportIsTrue /\ StrictIsEarned

(* What is prepared for a worker is its own and complete: see
   WorkerIsolation.                                                        *)
WorkersAreServed == FreshWorktreesApart /\ ReadyHomesAreComplete
=============================================================================
