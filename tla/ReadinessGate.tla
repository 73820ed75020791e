---------------------------- MODULE ReadinessGate ----------------------------
(***************************************************************************)
(* release_readiness_gate.py: the 36 checks that autodev's own repository  *)
(* has to pass before it is tagged, run one after the other over a working *)
(* tree in which somebody may be editing, and the exit code that the       *)
(* release scripts go by.                                                  *)
(*                                                                         *)
(* The tree is a set of facts: that a file is there, or that its contents, *)
(* if it is, satisfy what a check looks for.  A program that a check calls *)
(* answers in one of the ways in Outcomes, each time as the tree has it.   *)
(* Abstracted: the details, durations and evidence of a result, and what   *)
(* the facts are computed from (a file that cannot be read or parsed does  *)
(* not satisfy what is looked for: either way the check says fail).        *)
(***************************************************************************)
EXTENDS Sequences, Naturals, FiniteSets

CONSTANTS Facts,      (* what may hold of a working tree                   *)
          Trees,      (* the sets of facts to begin with                   *)
          Behaviours, (* what the programs may do to begin with            *)
          Edited,     (* the facts that somebody changes meanwhile         *)
          Strictness, (* the sets of strict flags that it is called with   *)
          MaxRuns, MaxEdits   (* bounds in the guards of Start and Edit    *)

VARIABLES files,      (* the facts that hold                               *)
          programs,   (* what each program called by a check does          *)
          gate,       (* the run of the gate, if there is one              *)
          report,     (* of the last run that came to its end              *)
          runs, edits

gateVars == <<files, programs, gate, report, runs, edits>>

(* "slow" takes between 30 and 60 seconds; "unknown" is exit code 2 with
   "No such command".                                                      *)
Outcomes == {"ok", "slow", "error", "timeout", "missing", "unknown"}
Programs == {"autodev_help", "module_help", "smoke_test", "ruff", "mypy",
             "autodev_classify", "module_classify", "import_version"}

StrictFlags == {"strict", "strict_r2", "strict_r3", "strict_rc"}

(* Evidence is in docs/validation: with it goes the directory.             *)
Consistent(tree) ==
  "validation_dir" \notin tree =>
    tree \cap {"hardening_round", "release_blockers", "autodev_release_readiness_gate",
               "r2_closure", "release_readiness_gate_run"} = {}

ASSUME GateAssumption ==
  /\ Trees \subseteq SUBSET Facts /\ \A tree \in Trees : Consistent(tree)
  /\ {"validation_dir", "release_readiness_gate_run"} \subseteq Facts
  /\ Behaviours \subseteq [Programs -> Outcomes]
  /\ Edited \subseteq Facts
  /\ Strictness \subseteq SUBSET StrictFlags
  /\ MaxRuns \in Nat /\ MaxEdits \in Nat

Verdict(passed) == IF passed THEN "pass" ELSE "fail"

(* _run: whatever happens to a subprocess is a return code.                *)
Exit0(program) == programs[program] = "ok"
Exit0Late(program) == programs[program] \in {"ok", "slow"}

Has(facts) == facts \subseteq files
-----------------------------------------------------------------------------
(* The 12 base checks.                                                     *)
package_metadata_valid ==
  Verdict(Has({"pyproject", "toml_parses", "required_keys", "entry_point"}))
cli_help_works ==
  IF programs["autodev_help"] # "missing" THEN Verdict(Exit0("autodev_help"))
  ELSE IF Exit0("module_help") THEN "pass" ELSE "skip"
pytest_evidence ==
  IF Has({"dev_factory_record"}) THEN "pass"
  ELSE IF ~Has({"smoke_test_file"}) THEN "skip" ELSE Verdict(Exit0Late("smoke_test"))
ruff_passes == Verdict(Exit0Late("ruff"))
mypy_passes == Verdict(Exit0Late("mypy"))
docs_exist == Verdict(Has({"readme", "five_doc_paths"}))
mcp_smoke_path_exists == Verdict(Has({"mcp_smoke_test"}) \/ Has({"mcp_server_files"}))
a2a_smoke_path_exists == Verdict(Has({"five_a2a_tests"}))

(* The installed command, then the module: the next one is tried when a
   command is not there, and also when it fails.                           *)
ClassifyCommands == <<"autodev_classify", "module_classify">>
Decides(program) == programs[program] \in {"ok", "unknown", "timeout", "slow"}
mock_executor_works ==
  LET deciding == { i \in DOMAIN ClassifyCommands : Decides(ClassifyCommands[i]) }
      first == programs[ClassifyCommands[CHOOSE i \in deciding : \A j \in deciding : i <= j]]
  IN IF deciding = {} THEN "skip"
     ELSE IF first = "unknown" THEN "skip" ELSE Verdict(first = "ok")

packaging_files_exist == Verdict(Has({"dockerfile", "pyinstaller_spec", "formula"}))
no_dangerous_release_claims ==
  IF ~Has({"readme"}) THEN "skip" ELSE Verdict(~Has({"forbidden_claim"}))
release_blockers_recorded ==
  Verdict(/\ Has({"validation_dir"})
          /\ \/ Has({"hardening_round"}) \/ Has({"release_blockers"})
             \/ Has({"autodev_release_readiness_gate"}))

-----------------------------------------------------------------------------
(* The 12 checks of the second round.                                      *)
r2_version_consistency ==
  IF ~Has({"pyproject", "toml_parses", "version_0_1_0"}) THEN "fail"
  ELSE IF ~Exit0("import_version") THEN "skip" ELSE Verdict(Has({"versions_agree"}))
r2_license_file_present == Verdict(Has({"license", "mit_text"}))
r2_license_metadata_match == Verdict(Has({"pyproject", "toml_parses", "license_field"}))
r2_wheel_version_works ==
  IF ~Has({"wheel"}) THEN "skip"
  ELSE Verdict(Has({"pyproject", "toml_parses", "wheel_version_matches"}))
r2_a2a_http_ssrf_hardened ==
  Verdict(Has({"http_transport", "ssrf_tests", "ssrf_error_class", "ten_ssrf_tests"}))
r2_milestone_flow_tested == Verdict(Has({"four_milestone_flow_tests"}))
r2_release_flow_tested == Verdict(Has({"four_release_flow_tests"}))
r2_release_workflow_pytest_gate ==
  Verdict(Has({"release_yml", "pytest_in_release", "needs_in_release"}))
r2_homebrew_metadata_owner_fixed ==
  Verdict(Has({"formula", "new_owner"}) /\ ~Has({"old_owner"}))
r2_homebrew_sha256_not_stale == Verdict(Has({"formula"}) /\ ~Has({"stale_sha"}))
r2_macos_info_plist_version_match ==
  IF ~Has({"plist"}) THEN "skip" ELSE Verdict(Has({"plist_version"}))
r2_remaining_blockers_recorded ==
  Verdict(/\ Has({"validation_dir"})
          /\ Has({"r2_closure"}) \/ Has({"hardening_round", "blockers_listed"}))
-----------------------------------------------------------------------------
(* The 12 checks of the third round.                                       *)
r3_mypy_clean == Verdict(Exit0Late("mypy"))
r3_ruff_clean == Verdict(Exit0("ruff"))
r3_lint_yml_scans_scripts == Verdict(Has({"lint_yml", "lint_scans_scripts"}))
r3_mcp_apply_guardrail_present == Verdict(Has({"mcp_tools", "both_gates"}))
r3_a2a_dns_rebinding_pinned == Verdict(Has({"http_transport", "ip_pin"}))
r3_worker_isolator_symlink_safe == Verdict(Has({"worker_isolator", "escape_error"}))
r3_changelog_present == Verdict(Has({"changelog", "changelog_0_1_0a1"}))
r3_configuration_doc_present == Verdict(Has({"long_configuration_doc"}))
r3_troubleshooting_doc_present == Verdict(Has({"long_troubleshooting_doc"}))
r3_docker_base_digest_pinned == Verdict(Has({"dockerfile", "from_lines_pinned"}))

(* Honestly blocked before the package is published, or backfilled after.  *)
Blocked == Has({"placeholder_sha", "blocked_comment"})
Backfilled == Has({"real_sha", "canonical_url"}) /\ ~Has({"placeholder_sha"})
r3_homebrew_publish_time_blocker_clean ==
  Verdict(Has({"formula", "publish_checklist"}) /\ (Blocked \/ Backfilled))
r3_pypi_rc_not_blocked_by_homebrew == r3_homebrew_publish_time_blocker_clean
-----------------------------------------------------------------------------
Round(n, statuses) == [i \in DOMAIN statuses |-> [round |-> n, status |-> statuses[i]]]

BASE_CHECKS == Round(1,
  <<package_metadata_valid, cli_help_works, pytest_evidence, ruff_passes, mypy_passes,
    docs_exist, mcp_smoke_path_exists, a2a_smoke_path_exists, mock_executor_works,
    packaging_files_exist, no_dangerous_release_claims, release_blockers_recorded>>)
R2_CHECKS == Round(2,
  <<r2_version_consistency, r2_license_file_present, r2_license_metadata_match,
    r2_wheel_version_works, r2_a2a_http_ssrf_hardened, r2_milestone_flow_tested,
    r2_release_flow_tested, r2_release_workflow_pytest_gate,
    r2_homebrew_metadata_owner_fixed, r2_homebrew_sha256_not_stale,
    r2_macos_info_plist_version_match, r2_remaining_blockers_recorded>>)
R3_CHECKS == Round(3,
  <<r3_mypy_clean, r3_ruff_clean, r3_lint_yml_scans_scripts,
    r3_mcp_apply_guardrail_present, r3_a2a_dns_rebinding_pinned,
    r3_worker_isolator_symlink_safe, r3_changelog_present,
    r3_configuration_doc_present, r3_troubleshooting_doc_present,
    r3_docker_base_digest_pinned, r3_homebrew_publish_time_blocker_clean,
    r3_pypi_rc_not_blocked_by_homebrew>>)

(* What the checks would say of the tree as it is; --include-r3 goes before
   --include-r2.                                                           *)
Included == {"all", "r2", "r3"}
ChecksToRun(included) ==
  IF included = "r3" THEN R3_CHECKS
  ELSE IF included = "r2" THEN R2_CHECKS
  ELSE BASE_CHECKS \o R2_CHECKS \o R3_CHECKS

Failed(checks) == { i \in DOMAIN checks : checks[i].status = "fail" }

(* Mutant: a single failure is let through.                                *)
StrictFailTwice(strict, checks) ==
  strict \cap {"strict", "strict_rc"} # {} /\ Cardinality(Failed(checks)) > 1
(* Whether main() exits with 1.  No check is exempt under --strict-rc.     *)
StrictFail(strict, checks) ==
  \/ strict \cap {"strict", "strict_rc"} # {} /\ Failed(checks) # {}
  \/ "strict_r2" \in strict /\ \E i \in Failed(checks) : checks[i].round = 2
  \/ "strict_r3" \in strict /\ \E i \in Failed(checks) : checks[i].round = 3
-----------------------------------------------------------------------------
NoGate == [at |-> "idle"]
NoReport == [made |-> FALSE]

GateInit == /\ files \in Trees /\ programs \in Behaviours
            /\ gate = NoGate /\ report = NoReport
            /\ runs = 0 /\ edits = 0

Start(included, strict) ==
  /\ gate = NoGate /\ runs < MaxRuns
  /\ gate' = [at |-> "checking", included |-> included, strict |-> strict,
              checks |-> <<>>, steady |-> TRUE]
  /\ runs' = runs + 1
  /\ UNCHANGED <<files, programs, report, edits>>

Checking == gate.at = "checking"

(* One iteration of run_checks.                                            *)
RunCheck ==
  /\ Checking /\ Len(gate.checks) < Len(ChecksToRun(gate.included))
  /\ gate' = [gate EXCEPT !.checks =
                 Append(@, ChecksToRun(gate.included)[Len(@) + 1])]
  /\ UNCHANGED <<files, programs, report, runs, edits>>

(* The report is written to its default place, in the tree.                *)
Report ==
  /\ Checking /\ Len(gate.checks) = Len(ChecksToRun(gate.included))
  /\ files' = files \cup {"validation_dir", "release_readiness_gate_run"}
  /\ report' = [made |-> TRUE, included |-> gate.included, strict |-> gate.strict,
                checks |-> gate.checks, steady |-> gate.steady,
                exit |-> IF StrictFail(gate.strict, gate.checks) THEN 1 ELSE 0]
  /\ gate' = NoGate
  /\ UNCHANGED <<programs, runs, edits>>

(* Somebody changes the tree.  A run is steady when nobody did since it
   began, also after its end.                                              *)
Disturbed(run) == IF "steady" \in DOMAIN run THEN [run EXCEPT !.steady = FALSE] ELSE run
Edit(fact) ==
  /\ edits < MaxEdits /\ edits' = edits + 1
  /\ files' = IF fact \in files THEN files \ {fact} ELSE files \cup {fact}
  /\ Consistent(files')
  /\ gate' = Disturbed(gate) /\ report' = Disturbed(report)
  /\ UNCHANGED <<programs, runs>>

GateNext == \/ \E included \in Included, strict \in Strictness : Start(included, strict)
            \/ RunCheck \/ Report
            \/ \E fact \in Edited : Edit(fact)

GateSpec == GateInit /\ [][GateNext]_gateVars
-----------------------------------------------------------------------------
CheckResults == Seq([round : 1..3, status : {"pass", "fail", "skip"}])

GateTypeOK ==
  /\ files \in SUBSET Facts /\ Consistent(files)
  /\ programs \in [Programs -> Outcomes]
  /\ \/ gate = NoGate
     \/ gate \in [at : {"checking"}, included : Included, strict : SUBSET StrictFlags,
                  checks : CheckResults, steady : BOOLEAN]
  /\ \/ report = NoReport
     \/ report \in [made : {TRUE}, included : Included, strict : SUBSET StrictFlags,
                    checks : CheckResults, steady : BOOLEAN, exit : {0, 1}]
  /\ runs \in 0..MaxRuns /\ edits \in 0..MaxEdits

(* The report of a run that nobody disturbed is what the checks say of the
   tree, also now that the report itself is part of it: running the gate
   again does not change its mind (release_readiness_gate.py:403-435,
   1347-1353).                                                             *)
ReportIsTrue ==
  report.made /\ report.steady => report.checks = ChecksToRun(report.included)

(* What a release may rely on when all checks ran in a strict mode and the
   exit code is 0.  A check that skips says nothing: each of these has to
   be established by one that cannot skip while it fails to hold.  A README
   that is removed, for one, hides no claim (the docs check fails), but a
   wheel, a plist, a CLI and a smoke test that are not there are not
   required (release_readiness_gate.py:1218-1253, 1316-1345).              *)
StrictIsEarned ==
  report.made /\ report.steady /\ report.included = "all" /\ report.exit = 0
  /\ report.strict \cap {"strict", "strict_rc"} # {} =>
    /\ Has({"readme", "license", "changelog", "entry_point", "version_0_1_0",
            "http_transport", "ip_pin", "both_gates", "from_lines_pinned"})
    /\ ~Has({"forbidden_claim"}) /\ ~Has({"stale_sha"}) /\ ~Has({"old_owner"})
    /\ Blocked \/ Backfilled
    /\ Exit0("ruff") /\ Exit0Late("mypy")
    /\ Has({"wheel"}) => Has({"wheel_version_matches"})
    /\ Has({"plist"}) => Has({"plist_version"})
    /\ programs["autodev_help"] \in {"ok", "missing"}
    /\ Exit0("import_version") => Has({"versions_agree"})
=============================================================================
