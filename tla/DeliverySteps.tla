---------------------------- MODULE DeliverySteps ----------------------------
(***************************************************************************)
(* PROJECT_DELIVERY_REGISTRY (flows/step_definitions/                      *)
(* project_delivery_steps.py): the steps of the micro-file delivery in the *)
(* order of registration, each with its depends_on and with the keys of    *)
(* the context its function reads, cannot do without, and sets.  "The      *)
(* requirements" are the keys functional, nf and ac.                       *)
(***************************************************************************)
EXTENDS Sequences

DeliveryKeys == {"scan", "brief", "requirements", "prd", "arch", "milestones",
                 "scale", "tasks"}

(* What ReplayFlow.replay restores from the record.                        *)
RestoredKeys == DeliveryKeys \ {"requirements", "scale"}

Named(name, deps, needs, more, writes) ==
  [name |-> name, deps |-> deps, reads |-> needs \cup more, needs |-> needs,
   writes |-> writes, saves |-> name = "final_report"]

(* _classify_input to _architecture_design                                 *)
ProductSteps ==
  << Named("classify_input", {}, {}, {}, {"scan"}),
     Named("product_manager_brief", {"classify_input"}, {}, {}, {"brief"}),
     Named("requirement_analysis", {"product_manager_brief"}, {"brief"}, {},
           {"requirements"}),
     Named("prd_write", {"requirement_analysis"}, {"brief", "requirements"}, {}, {"prd"}),
     Named("repo_scan", {"classify_input"}, {}, {}, {"scan"}),
     Named("architecture_design", {"prd_write", "repo_scan"}, {"prd"}, {"scan"}, {"arch"}) >>

(* Mutant: the milestones go to the record and not to the context.         *)
PlanningStepsUnshared ==
  << Named("milestone_plan", {"architecture_design"}, {}, {"arch", "prd", "brief"},
           {"scale"}),
     Named("task_decompose", {"milestone_plan"}, {"brief"},
           {"milestones", "arch", "prd", "scale"}, {"tasks"}),
     Named("scaffolder_apply", {"task_decompose"}, {"brief", "tasks"}, {"milestones"},
           {"tasks"}),
     Named("test_design", {"scaffolder_apply"}, {"milestones", "tasks"}, {}, {}) >>

(* _milestone_plan to _test_design                                         *)
PlanningSteps ==
  << Named("milestone_plan", {"architecture_design"}, {}, {"arch", "prd", "brief"},
           {"milestones", "scale"}),
     Named("task_decompose", {"milestone_plan"}, {"brief", "milestones"},
           {"arch", "prd", "scale"}, {"tasks"}),
     Named("scaffolder_apply", {"task_decompose"}, {"brief", "milestones", "tasks"}, {},
           {"tasks"}),
     Named("test_design", {"scaffolder_apply"}, {"milestones", "tasks"}, {}, {}) >>

(* _implementation_loop to _verification                                   *)
ReviewSteps ==
  << Named("implementation_loop", {"test_design"}, {"milestones", "tasks"}, {}, {}),
     Named("quality_gate", {"implementation_loop"}, {}, {}, {}),
     Named("security_review", {"implementation_loop"}, {}, {}, {}),
     Named("code_review", {"implementation_loop"}, {"tasks"}, {}, {}),
     Named("integration_review", {"implementation_loop"}, {"arch"}, {}, {}),
     Named("verification", {"quality_gate", "security_review", "code_review",
                            "integration_review"}, {}, {}, {}) >>

(* _doc_write to _final_report                                             *)
ReleaseSteps ==
  << Named("doc_write", {"verification"}, {"prd"}, {"arch"}, {}),
     Named("release_check", {"doc_write"}, {"brief"}, {}, {}),
     Named("commit_artifacts", {"release_check"}, {"brief"}, {}, {}),
     Named("final_report", {"commit_artifacts"}, {}, {}, {}) >>

(* _STEP_DEFS, registered in this order.                                   *)
ProjectDelivery == ProductSteps \o PlanningSteps \o ReviewSteps \o ReleaseSteps
=============================================================================
