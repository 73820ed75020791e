----------------------------- MODULE MCPeriphery -----------------------------
EXTENDS Periphery, TLC

(* Two workers, two roots one of which must not be cleaned up, two branches
   and a name that is refused, two names in the parent's home.             *)
CONSTANTS w1, w2, r1, r2, b1, b2, bad

WorkerSymmetry == Permutations(Workers)
-----------------------------------------------------------------------------
(* Two accounts, one of which may apply; a registry in which the second has
   the first one's token, one in which the first has expired or lost its
   right to read, an empty one, and one that cannot be read.  A tool with a
   mode, one that only reads, one that writes although it
   is said to read, and one without a path.                                *)
CONSTANTS t1, t2, ci, deploy

Account(caller, token, scopes, expires_at) ==
  [caller |-> caller, token |-> token, scopes |-> scopes, expires_at |-> expires_at]
Ci == Account(ci, t1, {"read", "write"}, 9)
Deploy == Account(deploy, t2, ALL_SCOPES, 9)
MCRegistries ==
  {<<Ci, Deploy>>, <<Ci, [Deploy EXCEPT !.token = t1]>>,
   <<[Deploy EXCEPT !.expires_at = 1], [Ci EXCEPT !.scopes = {"apply"}]>>, <<>>, Malformed}

MCEnvironments ==
  [identities : {TRUE}, shared : {NoToken}, permit : BOOLEAN]
  \cup [identities : {FALSE}, shared : {t1, NoToken}, permit : {TRUE}]

Call == [token |-> t1, method |-> "tools/call", notification |-> FALSE, tool |-> "run_issue",
         complete |-> TRUE, path |-> "project", mode |-> "apply", allow_apply |-> TRUE]
MCRequests ==
  { [Call EXCEPT !.token = token] : token \in {t1, t2, NoToken} }
  \cup { [Call EXCEPT !.token = t2, !.tool = tool] :
           tool \in {"report", "create_prd", "unknown"} }
  \cup { [Call EXCEPT !.mode = "dry-run"], [Call EXCEPT !.tool = "scan"],
         [Call EXCEPT !.token = t2, !.allow_apply = FALSE],
         [Call EXCEPT !.token = t2, !.path = "secret_name"],
         [Call EXCEPT !.token = t2, !.mode = "other"],
         [Call EXCEPT !.token = t2, !.complete = FALSE],
         [Call EXCEPT !.token = t2, !.notification = TRUE] }
  \cup { [Call EXCEPT !.token = NoToken, !.method = method] : method \in {"ping", "other"} }
-----------------------------------------------------------------------------
(* The tree of the repository, and every tree that differs from it in one or
   two facts; programs that all answer, or one of which does not.          *)
Wanted ==
  {"pyproject", "toml_parses", "required_keys", "entry_point", "dev_factory_record",
   "smoke_test_file", "readme", "five_doc_paths", "mcp_smoke_test", "mcp_server_files",
   "five_a2a_tests", "dockerfile", "pyinstaller_spec", "formula", "validation_dir",
   "hardening_round", "version_0_1_0", "versions_agree", "license", "mit_text",
   "license_field", "wheel", "wheel_version_matches", "http_transport", "ssrf_tests",
   "ssrf_error_class", "ten_ssrf_tests", "four_milestone_flow_tests",
   "four_release_flow_tests", "release_yml", "pytest_in_release", "needs_in_release",
   "new_owner", "plist", "plist_version", "r2_closure", "lint_yml", "lint_scans_scripts",
   "mcp_tools", "both_gates", "ip_pin", "worker_isolator", "escape_error", "changelog",
   "changelog_0_1_0a1", "long_configuration_doc", "long_troubleshooting_doc",
   "from_lines_pinned", "publish_checklist", "real_sha", "canonical_url"}
Others ==
  {"forbidden_claim", "old_owner", "stale_sha", "placeholder_sha", "blocked_comment",
   "release_blockers", "autodev_release_readiness_gate", "blockers_listed",
   "release_readiness_gate_run"}

MCFacts == Wanted \cup Others
Changed(facts) == (Wanted \ facts) \cup (facts \ Wanted)
MCTrees ==
  { t \in {Wanted} \cup { Changed({f}) : f \in MCFacts }
             \cup { Changed({"hardening_round", f}) : f \in {"r2_closure", "release_blockers"} }
             \cup { Changed({"validation_dir", "hardening_round", "r2_closure"}),
                    Changed({"placeholder_sha", "blocked_comment"}) } : Consistent(t) }

AllOk == [p \in Programs |-> "ok"]
Missing == [AllOk EXCEPT !["autodev_help"] = "missing", !["autodev_classify"] = "missing"]
MCBehaviours ==
  {AllOk} \cup { [AllOk EXCEPT ![p] = "error"] :
                  p \in {"autodev_help", "smoke_test", "ruff", "mypy", "import_version"} }
  \cup { [AllOk EXCEPT !["ruff"] = "slow"],
         [AllOk EXCEPT !["autodev_classify"] = "error", !["module_classify"] = "error"],
         [Missing EXCEPT !["module_classify"] = "unknown"],
         [Missing EXCEPT !["module_help"] = "error", !["module_classify"] = "timeout"] }

MCStrictness == {{"strict"}, {"strict_rc", "strict_r2", "strict_r3"}}
-----------------------------------------------------------------------------
(* Deliveries of every scale, asked for or inferred on both sides of every
   limit, in one to three languages, one of them twice, without one, in a dry
   run, and such as stop at a failure or do not; the other flows, multi-patch
   with its least number of candidates and with two.                       *)
Delivery ==
  [flow |-> "delivery", languages |-> <<"rust">>, criteria |-> 4, risky |-> FALSE,
   from_scratch |-> FALSE, scale |-> "infer", dry_run |-> FALSE, stops |-> TRUE,
   candidates |-> 0]
MCOrders ==
  { [Delivery EXCEPT !.criteria = n] : n \in {4, 5, 14, 15, 50, 51} }
  \cup { [Delivery EXCEPT !.languages = l] :
           l \in {<<"rust", "typescript">>, <<"typescript", "rust", "typescript">>,
                  <<"unknown">>} }
  \cup { [Delivery EXCEPT !.languages = <<>>, !.scale = "medium", !.stops = FALSE],
         [Delivery EXCEPT !.dry_run = TRUE], [Delivery EXCEPT !.risky = TRUE],
         [Delivery EXCEPT !.from_scratch = TRUE] }
  \cup { [Delivery EXCEPT !.flow = flow, !.candidates = 2] :
           flow \in {"issue", "bug_fix", "multi_patch"} }
  \cup { [Delivery EXCEPT !.flow = "multi_patch"] }
MCDisks == {{}, {"readme", "src/lib"}}

(* Groups of up to three repositories, two of them with one slug, with an
   entry that cannot be used before or after one that can.                 *)
Repository(path, slug) == [path |-> path, slug |-> slug, sound |-> TRUE, brief |-> "none"]
MCGroups ==
  {<<>>, <<Repository("p", "s")>>,
   <<Repository("p", "s"), Repository("q", "s"), [Repository("q", "t") EXCEPT !.brief = "found"]>>,
   <<Repository("p", "s"), [Repository("p", "s") EXCEPT !.brief = "missing"]>>,
   <<[Repository("p", "s") EXCEPT !.sound = FALSE], Repository("p", "s")>>}

(* Two files, one of them out of the scope of one section; of the five
   sections one, and the one that reads a file twice.                      *)
CONSTANTS f1, f2, secret, division
MCSectionOf == [p \in Patterns |-> IF p = secret THEN "security" ELSE "edge-case"]
MCOutOfScope == {<<"security", f2>>}
=============================================================================
