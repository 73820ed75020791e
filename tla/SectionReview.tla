---------------------------- MODULE SectionReview ----------------------------
(***************************************************************************)
(* ParallelSectionReviewer (agents/parallel_section_reviewer.py): five     *)
(* scans of a repository in a pool of five threads, one report of all, and *)
(* a roundtable's summary of it.                                           *)
(*                                                                         *)
(* The scans walk the same files, each in its own time, while somebody     *)
(* edits, makes and removes them.  A scan looks whether a file is there,   *)
(* asks for its size and reads it, and what it does when the file is gone  *)
(* depends on when it finds out.  The edge case hunter reads it once more. *)
(* A pattern is what makes a finding of one section; two findings of one   *)
(* pattern in one file become one in the report, whose lines are           *)
(* abstracted.  Abstracted too: severities, and the summary's text.        *)
(***************************************************************************)
EXTENDS Naturals, FiniteSets

CONSTANTS Sections,    (* security, perf, style, adversarial and edge-case *)
          Sources,     (* the files of the repository                      *)
          Patterns,
          SectionOf,   (* of every pattern                                 *)
          AstPatterns, (* those found in the second reading                *)
          OutOfScope,  (* pairs of a section and a file that it passes over:
                          of another suffix, too large, in a skipped
                          directory, or that cannot be read                *)
          MaxRewrites  (* bound in the guard of Rewrite                    *)

VARIABLES
  text,      (* the patterns that a file has, or Gone                      *)
  scan,      (* of every section                                           *)
  collected, (* the sections whose future has been taken                   *)
  review,    (* the report                                                 *)
  seen,      (* what has been in some file at some time of the review      *)
  rewritten, (* the files that were touched since it began                 *)
  rewrites

reviewVars == <<text, scan, collected, review, seen, rewritten, rewrites>>

Gone == {"gone"}

ASSUME ReviewAssumption ==
  /\ SectionOf \in [Patterns -> Sections] /\ "gone" \notin Patterns
  /\ AstPatterns \subseteq { p \in Patterns : SectionOf[p] = "edge-case" }
  /\ OutOfScope \subseteq Sections \X Sources /\ MaxRewrites \in Nat

There(f) == text[f] # Gone
Held == { held \in Patterns \X Sources : held[1] \in text[held[2]] }

NoReview == [made |-> FALSE, sections |-> {}, findings |-> {}, skipped |-> {}]
NewScan == [at |-> "walking", left |-> { f \in Sources : There(f) }, file |-> "none",
            found |-> {}, skipped |-> FALSE]

(* The five are submitted at once, to five threads.                        *)
ReviewInit ==
  /\ text \in [Sources -> (SUBSET Patterns) \cup {Gone}]
  /\ scan = [s \in Sections |-> NewScan]
  /\ collected = {} /\ review = NoReview
  /\ seen = Held /\ rewritten = {} /\ rewrites = 0
-----------------------------------------------------------------------------
(* A thread: rglob, and is_file.  A file that was made meanwhile may be met
   or not.                                                                 *)
Meet(s, f) ==
  /\ scan[s].at = "walking" /\ f \in scan[s].left \cup { g \in rewritten : There(g) }
  /\ scan' = [scan EXCEPT ![s] =
       IF There(f) /\ <<s, f>> \notin OutOfScope
       THEN [scan[s] EXCEPT !.at = "met", !.file = f, !.left = scan[s].left \ {f}]
       ELSE [scan[s] EXCEPT !.left = scan[s].left \ {f}]]
  /\ UNCHANGED <<text, collected, review, seen, rewritten, rewrites>>

In(f, patterns) == { <<p, f>> : p \in text[f] \cap patterns }
First(s) == { p \in Patterns : SectionOf[p] = s } \ AstPatterns

(* stat and read_text.  The scan ends when the file is gone before stat is
   called, and goes on when it is gone after that.                         *)
Read(s) ==
  /\ scan[s].at = "met"
  /\ scan' = [scan EXCEPT ![s] =
       [scan[s] EXCEPT !.found = scan[s].found \cup In(scan[s].file, First(s)),
                       !.at = IF s = "edge-case" /\ There(scan[s].file) THEN "parsing"
                              ELSE "walking"]]
  /\ UNCHANGED <<text, collected, review, seen, rewritten, rewrites>>

Parse(s) ==
  /\ scan[s].at = "parsing"
  /\ scan' = [scan EXCEPT ![s] =
       [scan[s] EXCEPT !.found = scan[s].found \cup In(scan[s].file, AstPatterns),
                       !.at = "walking"]]
  /\ UNCHANGED <<text, collected, review, seen, rewritten, rewrites>>

(* Mutant: the exception is swallowed.                                     *)
ScanStops(s) ==
  /\ \/ scan[s].at \in {"walking", "parsing"}
     \/ scan[s].at = "met" /\ ~There(scan[s].file)
  /\ scan' = [scan EXCEPT ![s] = [@ EXCEPT !.at = "returned"]]
  /\ UNCHANGED <<text, collected, review, seen, rewritten, rewrites>>

(* Everything that is raised, by the walk, by stat or by the visitors of a
   syntax tree, ends the scan, which says so in a finding of its own.      *)
ScanRaises(s) ==
  /\ \/ scan[s].at \in {"walking", "parsing"}
     \/ scan[s].at = "met" /\ ~There(scan[s].file)
  /\ scan' = [scan EXCEPT ![s] = [@ EXCEPT !.at = "returned", !.skipped = TRUE]]
  /\ UNCHANGED <<text, collected, review, seen, rewritten, rewrites>>

ScanReturns(s) ==
  /\ scan[s].at = "walking" /\ scan[s].left = {}
  /\ scan' = [scan EXCEPT ![s] = [@ EXCEPT !.at = "returned"]]
  /\ UNCHANGED <<text, collected, review, seen, rewritten, rewrites>>
-----------------------------------------------------------------------------
(* The main thread: an iteration of as_completed, and then the report,
   without duplicates, to which the roundtable only adds its words.        *)
CollectSection(s) ==
  /\ scan[s].at = "returned" /\ s \notin collected
  /\ collected' = collected \cup {s}
  /\ UNCHANGED <<text, scan, review, seen, rewritten, rewrites>>

MakeReport ==
  /\ collected = Sections /\ ~review.made
  /\ review' = [made |-> TRUE, sections |-> collected,
                findings |-> UNION { scan[s].found : s \in collected },
                skipped |-> { s \in collected : scan[s].skipped }]
  /\ UNCHANGED <<text, scan, collected, seen, rewritten, rewrites>>

(* Somebody saves or removes a file.                                       *)
Rewrite(f, patterns) ==
  /\ rewrites < MaxRewrites /\ rewrites' = rewrites + 1
  /\ text' = [text EXCEPT ![f] = patterns]
  /\ seen' = seen \cup { <<p, f>> : p \in patterns \cap Patterns }
  /\ rewritten' = rewritten \cup {f}
  /\ UNCHANGED <<scan, collected, review>>

ReviewNext ==
  \/ \E s \in Sections : \/ \E f \in Sources : Meet(s, f)
                         \/ Read(s) \/ Parse(s) \/ ScanRaises(s) \/ ScanReturns(s)
                         \/ CollectSection(s)
  \/ MakeReport
  \/ \E f \in Sources : \E patterns \in (SUBSET Patterns) \cup {Gone} : Rewrite(f, patterns)

ReviewSpec == ReviewInit /\ [][ReviewNext]_reviewVars
-----------------------------------------------------------------------------
Scans == [at : {"walking", "met", "parsing", "returned"}, left : SUBSET Sources,
          file : Sources \cup {"none"}, found : SUBSET (Patterns \X Sources),
          skipped : BOOLEAN]

ReviewTypeOK ==
  /\ text \in [Sources -> (SUBSET Patterns) \cup {Gone}]
  /\ scan \in [Sections -> Scans]
  /\ collected \subseteq Sections
  /\ review \in [made : BOOLEAN, sections : SUBSET Sections,
                 findings : SUBSET (Patterns \X Sources), skipped : SUBSET Sections]
  /\ seen \subseteq Patterns \X Sources /\ rewritten \subseteq Sources
  /\ rewrites \in 0..MaxRewrites

(* Nothing is reported that was not in the file at some time of the review;
   and what was there all the time is reported, by a section that does not
   say that it was cut short, whatever was edited or removed beside it.    *)
FindingsAreTrue == review.findings \subseteq seen

NothingIsMissed ==
  review.made =>
    /\ review.sections = Sections
    /\ \A s \in Sections \ review.skipped : \A p \in Patterns : \A f \in Sources \ rewritten :
         SectionOf[p] = s /\ p \in text[f] /\ <<s, f>> \notin OutOfScope
         => <<p, f>> \in review.findings

ReviewIsComplete == FindingsAreTrue /\ NothingIsMissed
=============================================================================
