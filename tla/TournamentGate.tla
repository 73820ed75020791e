--------------------------- MODULE TournamentGate ---------------------------
(***************************************************************************)
(* TournamentGate (gates/tournament_gate.py): judges run one after the     *)
(* other, each as a subprocess that may be missing, time out, fail or      *)
(* answer something else than a verdict, and their recommendations are     *)
(* aggregated by points.                                                   *)
(*                                                                         *)
(* Abstracted: the artifact, the prompt, scores and issues.                *)
(***************************************************************************)
EXTENDS Naturals, Sequences, FiniteSets

CONSTANT MaxJudges   (* 7 in TournamentGate.__init__                       *)

ASSUME PanelAssumption == MaxJudges \in Nat

VARIABLES
  judges,    (* n_judges                                                   *)
  answers,   (* how each judge's subprocess ended                          *)
  verdicts,  (* its JudgeVerdict's recommend                               *)
  consensus  (* open, what run() decided, or raised                        *)

panelVars == <<judges, answers, verdicts, consensus>>
-----------------------------------------------------------------------------
Recommendations == <<"keep", "revise", "reject">>   (* _BORDA_TIE_PRIORITY *)
BordaRank == [keep |-> 2, revise |-> 1, reject |-> 0]
Recommendation == DOMAIN BordaRank

PanelInit == /\ judges \in 0..MaxJudges
             /\ answers = <<>> /\ verdicts = <<>> /\ consensus = "open"

(* _run_judge_subprocess, _parse_verdict: whatever goes wrong with a judge
   is a recommendation to revise.                                          *)
VerdictOf(answer) == IF answer \in Recommendation THEN answer ELSE "revise"

Judge ==
  /\ consensus = "open" /\ Len(verdicts) < judges
  /\ \E answer \in Recommendation \cup {"failed", "unreadable"} :
       /\ answers' = Append(answers, answer)
       /\ verdicts' = Append(verdicts, VerdictOf(answer))
  /\ UNCHANGED <<judges, consensus>>

(* An answer that is JSON but no object has no get(): the AttributeError of
   _parse_verdict leaves run().                                            *)
JudgeRaises ==
  /\ consensus = "open" /\ Len(verdicts) < judges
  /\ consensus' = "raised"
  /\ UNCHANGED <<judges, answers, verdicts>>

Votes(r) == Cardinality({ i \in DOMAIN verdicts : verdicts[i] = r })
Points(r) == BordaRank[r] * Votes(r)

(* borda_aggregate: the most points, the least disruptive of equals.       *)
Borda ==
  LET best == { i \in DOMAIN Recommendations :
                  \A r \in Recommendation : Points(r) <= Points(Recommendations[i]) }
  IN  Recommendations[CHOOSE i \in best : \A j \in best : i <= j]

(* Mutant: the points decide alone.                                        *)
BordaAlone == Borda

(* run: more than half of the judges override the points, which a rejection
   cannot win.                                                             *)
Consensus == IF 2 * Votes("reject") > Len(verdicts) THEN "reject" ELSE Borda

(* Without judges the gate is a no-op.                                     *)
Decide ==
  /\ consensus = "open" /\ Len(verdicts) = judges
  /\ consensus' = IF judges = 0 THEN "keep" ELSE Consensus
  /\ UNCHANGED <<judges, answers, verdicts>>

PanelNext == Judge \/ JudgeRaises \/ Decide

PanelSpec == PanelInit /\ [][PanelNext]_panelVars
-----------------------------------------------------------------------------
PanelTypeOK ==
  /\ judges \in 0..MaxJudges
  /\ answers \in Seq(Recommendation \cup {"failed", "unreadable"})
  /\ verdicts \in Seq(Recommendation)
  /\ consensus \in {"open", "raised"} \cup Recommendation

(* A gate with judges passes an artifact only if one of them said so: not
   when all of them failed, and not when all of them rejected it, although
   a rejection earns no points and equals go to "keep"
   (tournament_gate.py:112-143, 356-362).                                  *)
PassNeedsAKeep ==
  consensus = "keep" /\ judges > 0 => \E i \in DOMAIN answers : answers[i] = "keep"
=============================================================================
