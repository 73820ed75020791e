----------------------------- MODULE HumanReview -----------------------------
(***************************************************************************)
(* HumanReviewGate (agents/human_review_gate.py) and the command review of *)
(* cli.py: a gate asks for a review of a run, and waits, or does not wait, *)
(* for a sentinel file; people answer by touching one, approved or         *)
(* rejected, at any time and more than once, and nothing removes it.       *)
(*                                                                         *)
(* Several gates may ask about the same run.  A gate looks for the two     *)
(* files one after the other, approved first, and sleeps between its       *)
(* rounds.  Abstracted: the summary, the notes and the length of a sleep.  *)
(***************************************************************************)
EXTENDS Naturals

CONSTANTS Gates,
          Blocking,    (* the gates that wait                              *)
          Lookers,     (* the calls of check, which only look              *)
          Timeout,     (* timeout_seconds, in ticks                        *)
          MaxTicks     (* bound in the guard of ClockTicks                 *)

VARIABLES
  run_dir,    (* exists                                                    *)
  sentinels,  (* the files that exist in it                                *)
  asked,      (* pending_review.md exists in it                            *)
  asking,     (* where each gate is                                        *)
  ticks       (* time.monotonic                                            *)

reviewingVars == <<run_dir, sentinels, asked, asking, ticks>>

Decisions == {"approved", "rejected"}

ASSUME HumanAssumption ==
  /\ Blocking \subseteq Gates /\ Lookers \subseteq Gates \ Blocking
  /\ Timeout \in Nat /\ MaxTicks \in Nat

(* Of a gate: what it does next, until when it waits, what was there when
   its present round began, and what it returned.                          *)
Idle == [at |-> "idle", deadline |-> 0, known |-> {}, decision |-> "none"]

ReviewingInit ==
  /\ run_dir \in BOOLEAN /\ sentinels = {} /\ asked = FALSE
  /\ asking = [g \in Gates |-> Idle] /\ ticks = 0

GoOn(g, at) == asking' = [asking EXCEPT ![g].at = at]
Conclude(g, decision) ==
  asking' = [asking EXCEPT ![g] = [@ EXCEPT !.at = "returned", !.decision = decision]]
-----------------------------------------------------------------------------
MakeRunDir(g) ==
  /\ asking[g].at = "idle" /\ g \notin Lookers
  /\ run_dir' = TRUE /\ GoOn(g, "made")
  /\ UNCHANGED <<sentinels, asked, ticks>>

(* The request is written; only a blocking gate waits.                     *)
AskForReview(g) ==
  /\ asking[g].at = "made"
  /\ asked' = TRUE
  /\ IF g \in Blocking
     THEN asking' = [asking EXCEPT ![g] =
                       [@ EXCEPT !.at = "polling", !.deadline = ticks + Timeout]]
     ELSE Conclude(g, "pending")
  /\ UNCHANGED <<run_dir, sentinels, ticks>>

(* The head of the loop; check has only its body.                          *)
BeginRound(g) ==
  /\ \/ asking[g].at = "polling" /\ ticks < asking[g].deadline
     \/ asking[g].at = "idle" /\ g \in Lookers
  /\ asking' = [asking EXCEPT ![g] = [@ EXCEPT !.at = "approved", !.known = sentinels]]
  /\ UNCHANGED <<run_dir, sentinels, asked, ticks>>

TimeOut(g) ==
  /\ asking[g].at = "polling" /\ ticks >= asking[g].deadline
  /\ Conclude(g, "pending")
  /\ UNCHANGED <<run_dir, sentinels, asked, ticks>>

LookApproved(g) ==
  /\ asking[g].at = "approved"
  /\ IF "approved" \in sentinels THEN Conclude(g, "approved") ELSE GoOn(g, "rejected")
  /\ UNCHANGED <<run_dir, sentinels, asked, ticks>>

(* Mutant: a rejection is taken for no decision.                           *)
LookOnce(g) ==
  /\ asking[g].at = "rejected"
  /\ IF g \in Blocking /\ "rejected" \notin sentinels THEN GoOn(g, "asleep")
     ELSE Conclude(g, "pending")
  /\ UNCHANGED <<run_dir, sentinels, asked, ticks>>

LookRejected(g) ==
  /\ asking[g].at = "rejected"
  /\ IF "rejected" \in sentinels THEN Conclude(g, "rejected")
     ELSE IF g \in Lookers THEN Conclude(g, "pending") ELSE GoOn(g, "asleep")
  /\ UNCHANGED <<run_dir, sentinels, asked, ticks>>

WakeUp(g) ==
  /\ asking[g].at = "asleep" /\ GoOn(g, "polling")
  /\ UNCHANGED <<run_dir, sentinels, asked, ticks>>

(* review --decision: refused if there is no directory of the run, not if
   nobody asked for a review or if it was answered before.                 *)
Decide(decision) ==
  /\ run_dir
  /\ sentinels' = sentinels \cup {decision}
  /\ UNCHANGED <<run_dir, asked, asking, ticks>>

ClockTicks ==
  /\ ticks < MaxTicks /\ ticks' = ticks + 1
  /\ UNCHANGED <<run_dir, sentinels, asked, asking>>

ReviewingNext ==
  \/ \E g \in Gates : \/ MakeRunDir(g) \/ AskForReview(g) \/ BeginRound(g) \/ TimeOut(g)
                      \/ LookApproved(g) \/ LookRejected(g) \/ WakeUp(g)
  \/ \E decision \in Decisions : Decide(decision)
  \/ ClockTicks

ReviewingSpec == ReviewingInit /\ [][ReviewingNext]_reviewingVars
-----------------------------------------------------------------------------
Places == {"idle", "made", "polling", "approved", "rejected", "asleep", "returned"}
Askings == [at : Places, deadline : 0..MaxTicks + Timeout, known : SUBSET Decisions,
            decision : Decisions \cup {"none", "pending"}]

ReviewingTypeOK ==
  /\ run_dir \in BOOLEAN /\ sentinels \subseteq Decisions /\ asked \in BOOLEAN
  /\ asking \in [Gates -> Askings]
  /\ ticks \in 0..MaxTicks

(* A gate returns what somebody decided; an approval that was there when its
   last round began is not outdone by a rejection; and a gate that waits
   says pending only when its time is up and nothing had been decided when
   its last round began.                                                   *)
DecisionsAreHeeded ==
  \A g \in Gates : asking[g].at = "returned" =>
    /\ asking[g].decision \in sentinels \cup {"pending"}
    /\ "approved" \in asking[g].known => asking[g].decision = "approved"
    /\ asking[g].decision = "pending" =>
         /\ asking[g].known = {}
         /\ g \in Blocking => ticks >= asking[g].deadline
    /\ g \notin Lookers => asked
=============================================================================
