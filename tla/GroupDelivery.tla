---------------------------- MODULE GroupDelivery ----------------------------
(***************************************************************************)
(* deliver-multi: flows/multi_repo_flow.py reads the repositories of a     *)
(* group from its configuration, delivers one after the other, and leaves  *)
(* a manifest for each and a summary of all.                               *)
(*                                                                         *)
(* Writing may fail, repositories come and go while others are delivered,  *)
(* and two of them may have the same slug, hence one directory.  What a    *)
(* delivery does is in RunLifecycle; here it raises, or ends with or       *)
(* without errors.                                                         *)
(***************************************************************************)
EXTENDS Integers, FiniteSets, Sequences

CONSTANTS Paths, Slugs,
          Groups,    (* the lists of repositories that a file may have     *)
          MaxMoves   (* bound in the guard of Move                         *)

VARIABLES
  group,      (* the entries of the file                                   *)
  phase,      (* where deliver-multi is                                    *)
  parsed,     (* entries that have become specs                            *)
  there,      (* the paths that exist                                      *)
  outcome,    (* of each delivery that was begun: none, raised, clean,
                 errors                                                    *)
  results,    (* RepoRunResult, one after the other                        *)
  manifests,  (* manifest.json of every directory                          *)
  summary, moves

groupVars == <<group, phase, parsed, there, outcome, results, manifests, summary, moves>>

(* Of an entry: whether it is a mapping with a path, and what becomes of its
   brief_file, "none" if it has none.                                      *)
EntryType == [path : Paths, slug : Slugs, sound : BOOLEAN, brief : {"none", "found", "missing"}]

ASSUME GroupAssumption == Groups \subseteq Seq(EntryType) /\ MaxMoves \in Nat

NoManifest == [spec |-> 0, status |-> "none", run |-> FALSE]
NoSummary == [total |-> 0, succeeded |-> 0, failed |-> 0, written |-> FALSE]

GroupInit ==
  /\ group \in Groups /\ phase = "parsing" /\ parsed = 0
  /\ there \in SUBSET Paths
  /\ outcome = [k \in DOMAIN group |-> "none"]
  /\ results = <<>> /\ manifests = [slug \in Slugs |-> NoManifest]
  /\ summary = NoSummary /\ moves = 0
-----------------------------------------------------------------------------
(* parse_multi_repo_config: one entry that is not sound, and nothing runs. *)
Sound(entry) == entry.sound /\ entry.brief # "missing"

ParseEntry ==
  /\ phase = "parsing" /\ parsed < Len(group)
  /\ IF Sound(group[parsed + 1])
     THEN parsed' = parsed + 1 /\ UNCHANGED phase
     ELSE phase' = "refused" /\ UNCHANGED parsed
  /\ UNCHANGED <<group, there, outcome, results, manifests, summary, moves>>

(* A group without repositories is refused too.  Then the directory of the
   group is made.                                                          *)
Parsed ==
  /\ phase = "parsing" /\ parsed = Len(group)
  /\ phase' \in IF group = <<>> THEN {"refused"} ELSE {"next", "raised"}
  /\ UNCHANGED <<group, parsed, there, outcome, results, manifests, summary, moves>>

Current == Len(results) + 1

(* _run_single: the directory is made outside of its try, so that when this
   fails the group fails.                                                  *)
BeginRepo ==
  /\ phase = "next" /\ Current <= Len(group)
  /\ phase' \in {"deliver", "raised"}
  /\ UNCHANGED <<group, parsed, there, outcome, results, manifests, summary, moves>>

RepoMissing ==
  /\ phase = "deliver" /\ group[Current].path \notin there
  /\ phase' = "except"
  /\ UNCHANGED <<group, parsed, there, outcome, results, manifests, summary, moves>>

DeliverRepo(ends) ==
  /\ phase = "deliver" /\ group[Current].path \in there
  /\ outcome' = [outcome EXCEPT ![Current] = ends]
  /\ phase' = IF ends = "raised" THEN "except" ELSE "manifest"
  /\ UNCHANGED <<group, parsed, there, results, manifests, summary, moves>>

(* What a manifest, and what a result says: of which spec, and whether it has
   the id of a run.                                                        *)
Reported(status, ran) == [spec |-> Current, status |-> status, run |-> ran]

(* Mutant: the result has the status of the manifest.                      *)
WriteSuccess ==
  /\ phase = "manifest"
  /\ manifests' = [manifests EXCEPT ![group[Current].slug] = Reported("success", TRUE)]
  /\ results' = Append(results, Reported("success", TRUE))
  /\ phase' = "next"
  /\ UNCHANGED <<group, parsed, there, outcome, summary, moves>>

(* The status of the manifest is a constant; that of the result is not.    *)
WriteManifest ==
  /\ phase = "manifest"
  /\ manifests' = [manifests EXCEPT ![group[Current].slug] = Reported("success", TRUE)]
  /\ results' = Append(results, Reported(IF outcome[Current] = "clean" THEN "success"
                                       ELSE "failed", TRUE))
  /\ phase' = "next"
  /\ UNCHANGED <<group, parsed, there, outcome, summary, moves>>

(* A write that fails leaves the manifest of before, or nothing that could
   be read.                                                                *)
Unwritten ==
  manifests' \in {manifests, [manifests EXCEPT ![group[Current].slug] = NoManifest]}

(* A manifest that cannot be written makes an error of a delivery that came
   to its end.                                                             *)
ManifestFails ==
  /\ phase = "manifest" /\ phase' = "except"
  /\ Unwritten
  /\ UNCHANGED <<group, parsed, there, outcome, results, summary, moves>>

ReportError ==
  /\ phase = "except"
  /\ manifests' = [manifests EXCEPT ![group[Current].slug] = Reported("error", FALSE)]
  /\ results' = Append(results, Reported("error", FALSE))
  /\ phase' = "next"
  /\ UNCHANGED <<group, parsed, there, outcome, summary, moves>>

ErrorUnwritten ==
  /\ phase = "except" /\ phase' = "raised"
  /\ Unwritten
  /\ UNCHANGED <<group, parsed, there, outcome, results, summary, moves>>

Successes == { k \in DOMAIN results : results[k].status = "success" }

(* The summary, after all of them.                                         *)
Summarize ==
  /\ phase = "next" /\ Len(results) = Len(group)
  /\ \/ /\ phase' = "done"
        /\ summary' = [total |-> Len(results), succeeded |-> Cardinality(Successes),
                       failed |-> Len(results) - Cardinality(Successes), written |-> TRUE]
     \/ phase' = "raised" /\ UNCHANGED summary
  /\ UNCHANGED <<group, parsed, there, outcome, results, manifests, moves>>

(* Somebody makes or removes a repository.                                 *)
Move(path) ==
  /\ moves < MaxMoves /\ moves' = moves + 1
  /\ phase \in {"next", "deliver"}
  /\ there' = IF path \in there THEN there \ {path} ELSE there \cup {path}
  /\ UNCHANGED <<group, phase, parsed, outcome, results, manifests, summary>>

GroupNext ==
  \/ ParseEntry \/ Parsed \/ BeginRepo \/ RepoMissing
  \/ \E ends \in {"raised", "clean", "errors"} : DeliverRepo(ends)
  \/ WriteManifest \/ ManifestFails \/ ReportError \/ ErrorUnwritten \/ Summarize
  \/ \E path \in Paths : Move(path)

GroupSpec == GroupInit /\ [][GroupNext]_groupVars
-----------------------------------------------------------------------------
ReportType == [spec : Nat, status : {"none", "success", "failed", "error"}, run : BOOLEAN]

GroupTypeOK ==
  /\ group \in Seq(EntryType) /\ parsed \in 0..Len(group)
  /\ phase \in {"parsing", "refused", "next", "deliver", "manifest", "except", "raised", "done"}
  /\ there \subseteq Paths
  /\ outcome \in [DOMAIN group -> {"none", "raised", "clean", "errors"}]
  /\ results \in Seq(ReportType) /\ manifests \in [Slugs -> ReportType]
  /\ summary \in [total : Nat, succeeded : Nat, failed : Int, written : BOOLEAN]
  /\ moves \in 0..MaxMoves

(* A file with one unsound entry delivers nothing.                         *)
AllOrNothing ==
  (\E k \in DOMAIN group : ~Sound(group[k]))
  => \A k \in DOMAIN group : outcome[k] = "none"

(* The repositories are delivered in their order, each at most once, and each
   has one result that says of it what happened: success of a delivery
   without errors only, and an error where none was made or none was left.  *)
ResultsAreTheirs ==
  /\ Len(results) <= Len(group)
  /\ \A k \in DOMAIN results :
       /\ results[k].spec = k
       /\ results[k].status = "success" => outcome[k] = "clean"
       /\ results[k].status = "failed" => outcome[k] = "errors"
       /\ results[k].run => outcome[k] \in {"clean", "errors"}
       /\ outcome[k] \in {"none", "raised"} => results[k].status = "error"
  /\ \A k \in DOMAIN group : k > Len(results) + 1 => outcome[k] = "none"

(* What is summed up is all of the group, and adds up.                     *)
SummaryAddsUp ==
  summary.written =>
    /\ summary.total = Len(group) /\ summary.succeeded + summary.failed = summary.total
    /\ summary.succeeded = Cardinality({ k \in DOMAIN group : results[k].status = "success" })
    /\ (\A k \in DOMAIN group : outcome[k] # "clean") => summary.succeeded = 0

(* Unless the writing failed, a directory has the manifest of the last
   repository with its slug, and nothing of the ones before.               *)
ManifestsAreLast ==
  \A k \in DOMAIN results :
    phase \notin {"except", "raised"} =>
    LET mine == manifests[group[k].slug]
    IN /\ mine.spec \in k..Len(results) /\ group[mine.spec].slug = group[k].slug
       /\ mine.run = results[mine.spec].run
       /\ mine.status = "error" <=> results[mine.spec].status = "error"

GroupIsReported ==
  AllOrNothing /\ ResultsAreTheirs /\ SummaryAddsUp /\ ManifestsAreLast
=============================================================================
