--------------------------- MODULE WorkbenchProofs ---------------------------
(***************************************************************************)
(* Theorems about the file watcher, the judge panel, the sprint commands   *)
(* and the MCP session, each on its own, for any number of files, saves,   *)
(* timer threads, judges, sprints, users and requests; and about the four  *)
(* of them side by side.                                                   *)
(***************************************************************************)
EXTENDS Workbench, TLAPS, FiniteSetTheorems

(***************************************************************************)
(* The file watcher: no event is forgotten.                                *)
(***************************************************************************)
(* The current timer is the one that will take what is pending: a timer
   that takes it early clears both.                                        *)
CurrentTimerTakesIt ==
  main = "watching" /\ pending # {} =>
    timer \in Timers /\ thread[timer] \in {"armed", "expired"}

NothingBeforeStart == main = "off" => pending = {} /\ events = <<>> /\ ~observing

WatchInv == WatchTypeOK /\ CurrentTimerTakesIt /\ NothingBeforeStart

LEMMA NotifiedType ==
  ASSUME WatchTypeOK, NEW p \in Files \cup {Docs}
  PROVE  Notified(p) \in Seq(Files \cup {Docs})
BY DEF WatchTypeOK, Notified

LEMMA CancelledType ==
  ASSUME WatchTypeOK
  PROVE  /\ Cancelled \in [Timers -> {"free", "armed", "expired", "reloading", "documenting",
                                      "writing", "relocating", "copying"}]
         /\ \A s \in Timers : s # timer => Cancelled[s] = thread[s]
BY DEF WatchTypeOK, Cancelled

LEMMA WatchInitInv == WatchInit => WatchInv
<1> SUFFICES ASSUME WatchInit PROVE WatchInv
  OBVIOUS
<1>1. Unsaved \in Versions
  BY WatcherAssumption DEF Unsaved, Versions
<1>2. /\ saved \in Versions /\ seen \in Versions /\ drafts \in Versions /\ published \in Versions
      /\ text \in [Timers -> Versions]
  BY <1>1 DEF WatchInit
<1>3. /\ thread \in [Timers -> {"free", "armed", "expired", "reloading", "documenting",
                               "writing", "relocating", "copying"}]
      /\ path \in [Timers -> Files \cup {Docs}] /\ latest \in Files \cup {Docs}
      /\ events \in Seq(Files \cup {Docs}) /\ pending \subseteq Files \cup {Docs}
  BY DEF WatchInit
<1>4. observing \in BOOLEAN /\ raised \in BOOLEAN
  BY DEF WatchInit
<1>5. WatchTypeOK
  BY <1>2, <1>3, <1>4 DEF WatchInit, WatchTypeOK
<1>6. CurrentTimerTakesIt /\ NothingBeforeStart
  BY DEF WatchInit, CurrentTimerTakesIt, NothingBeforeStart
<1> QED BY <1>5, <1>6 DEF WatchInv

LEMMA WatchStartKeepsInv ==
  ASSUME WatchInv, WatchStart
  PROVE  WatchInv'
<1>1. WatchTypeOK'
  BY DEF WatchInv, WatchTypeOK, WatchStart, editorVars, debounceVars, docVars
<1>2. CurrentTimerTakesIt'
  BY WatcherAssumption DEF WatchInv, WatchTypeOK, CurrentTimerTakesIt, NothingBeforeStart, WatchStart, editorVars, debounceVars, docVars
<1>3. NothingBeforeStart'
  BY DEF WatchInv, NothingBeforeStart, WatchStart, editorVars, debounceVars, docVars
<1> QED BY <1>1, <1>2, <1>3 DEF WatchInv

LEMMA StopKeepsInv ==
  ASSUME WatchInv, Stop
  PROVE  WatchInv'
<1>1. WatchTypeOK'
  BY CancelledType DEF WatchInv, WatchTypeOK, Stop, editorVars, debounceVars, docVars
<1>2. CurrentTimerTakesIt'
  BY CancelledType, WatcherAssumption DEF WatchInv, WatchTypeOK, CurrentTimerTakesIt, NothingBeforeStart, Stop, editorVars, debounceVars, docVars
<1>3. NothingBeforeStart'
  BY DEF WatchInv, NothingBeforeStart, Stop, editorVars, debounceVars, docVars
<1> QED BY <1>1, <1>2, <1>3 DEF WatchInv

LEMMA JoinKeepsInv ==
  ASSUME WatchInv, Join
  PROVE  WatchInv'
<1>1. WatchTypeOK'
  <2>1. observing' \in BOOLEAN /\ main' = "joined"
    BY DEF Join
  <2>2. events' \in Seq(Files \cup {Docs})
    BY DEF Join
  <2> QED BY <2>1, <2>2 DEF WatchInv, WatchTypeOK, Join, editorVars, debounceVars, docVars
<1>2. CurrentTimerTakesIt'
  BY WatcherAssumption DEF WatchInv, WatchTypeOK, CurrentTimerTakesIt, NothingBeforeStart, Join, editorVars, debounceVars, docVars
<1>3. NothingBeforeStart'
  BY DEF WatchInv, NothingBeforeStart, Join, editorVars, debounceVars, docVars
<1> QED BY <1>1, <1>2, <1>3 DEF WatchInv

LEMMA StopAgainKeepsInv ==
  ASSUME WatchInv, StopAgain
  PROVE  WatchInv'
<1>1. WatchTypeOK'
  BY CancelledType DEF WatchInv, WatchTypeOK, StopAgain, editorVars, debounceVars, docVars
<1>2. CurrentTimerTakesIt'
  BY CancelledType, WatcherAssumption DEF WatchInv, WatchTypeOK, CurrentTimerTakesIt, NothingBeforeStart, StopAgain, editorVars, debounceVars, docVars
<1>3. NothingBeforeStart'
  BY DEF WatchInv, NothingBeforeStart, StopAgain, editorVars, debounceVars, docVars
<1> QED BY <1>1, <1>2, <1>3 DEF WatchInv

LEMMA SaveKeepsInv ==
  ASSUME WatchInv, NEW f \in Files, Save(f)
  PROVE  WatchInv'
<1>1. WatchTypeOK'
  <2>1. saved' \in Versions /\ latest' \in Files \cup {Docs}
    BY SMTT(30), WatcherAssumption DEF WatchInv, WatchTypeOK, Versions, Save
  <2>2. events' \in Seq(Files \cup {Docs})
    BY NotifiedType DEF WatchInv, Save
  <2> QED BY <2>1, <2>2 DEF WatchInv, WatchTypeOK, Save, editorVars, debounceVars, docVars
<1>2. CurrentTimerTakesIt'
  BY NotifiedType, WatcherAssumption DEF WatchInv, WatchTypeOK, CurrentTimerTakesIt, NothingBeforeStart, Save, editorVars, debounceVars, docVars
<1>3. NothingBeforeStart'
  BY DEF WatchInv, NothingBeforeStart, Save, editorVars, debounceVars, docVars
<1> QED BY <1>1, <1>2, <1>3 DEF WatchInv

LEMMA ScheduleKeepsInv ==
  ASSUME WatchInv, Schedule
  PROVE  WatchInv'
<1>1. WatchTypeOK'
  <2>1. events' \in Seq(Files \cup {Docs}) /\ pending' \subseteq Files \cup {Docs}
    BY DEF WatchInv, WatchTypeOK, Schedule
  <2>2. PICK s \in Timers : timer' = s /\ thread' = [Cancelled EXCEPT ![s] = "armed"]
    BY DEF Schedule
  <2>3. /\ timer' \in Timers \cup {NoTimer}
        /\ thread' \in [Timers -> {"free", "armed", "expired", "reloading", "documenting",
                                   "writing", "relocating", "copying"}]
    BY <2>2, CancelledType DEF WatchInv
  <2> QED BY <2>1, <2>3 DEF WatchInv, WatchTypeOK, Schedule, editorVars, docVars
<1>2. CurrentTimerTakesIt'
  BY CancelledType, WatcherAssumption DEF WatchInv, WatchTypeOK, CurrentTimerTakesIt, NothingBeforeStart, Schedule, editorVars, debounceVars, docVars
<1>3. NothingBeforeStart'
  BY DEF WatchInv, NothingBeforeStart, Schedule, editorVars, debounceVars, docVars
<1> QED BY <1>1, <1>2, <1>3 DEF WatchInv

LEMMA ExpireKeepsInv ==
  ASSUME WatchInv, NEW s \in Timers, Expire(s)
  PROVE  WatchInv'
<1>1. WatchTypeOK'
  BY DEF WatchInv, WatchTypeOK, Expire, editorVars, debounceVars, docVars
<1>2. CurrentTimerTakesIt'
  BY WatcherAssumption DEF WatchInv, WatchTypeOK, CurrentTimerTakesIt, NothingBeforeStart, Expire, editorVars, debounceVars, docVars
<1>3. NothingBeforeStart'
  BY DEF WatchInv, NothingBeforeStart, Expire, editorVars, debounceVars, docVars
<1> QED BY <1>1, <1>2, <1>3 DEF WatchInv

LEMMA FireKeepsInv ==
  ASSUME WatchInv, NEW s \in Timers, Fire(s)
  PROVE  WatchInv'
<1>1. WatchTypeOK'
  <2>1. /\ thread' \in [Timers -> {"free", "armed", "expired", "reloading", "documenting",
                                 "writing", "relocating", "copying"}]
        /\ path' \in [Timers -> Files \cup {Docs}] /\ seen' \in Versions
    BY DEF WatchInv, WatchTypeOK, Fire, FireSprint, FireReverseDoc
  <2>2. pending' \subseteq Files \cup {Docs} /\ timer' \in Timers \cup {NoTimer}
    BY DEF Fire
  <2> QED BY <2>1, <2>2 DEF WatchInv, WatchTypeOK, Fire, editorVars, docVars
<1>2. CurrentTimerTakesIt'
  BY WatcherAssumption DEF WatchInv, WatchTypeOK, CurrentTimerTakesIt, NothingBeforeStart, Fire, FireSprint, FireReverseDoc, editorVars, debounceVars, docVars
<1>3. NothingBeforeStart'
  BY DEF WatchInv, NothingBeforeStart, Fire, FireSprint, FireReverseDoc, editorVars, debounceVars, docVars
<1> QED BY <1>1, <1>2, <1>3 DEF WatchInv

LEMMA ReloadKeepsInv ==
  ASSUME WatchInv, NEW s \in Timers, Reload(s)
  PROVE  WatchInv'
<1>1. WatchTypeOK'
  BY WatcherAssumption DEF WatchInv, WatchTypeOK, Versions, Reload, editorVars, debounceVars, docVars
<1>2. CurrentTimerTakesIt'
  BY WatcherAssumption DEF WatchInv, WatchTypeOK, CurrentTimerTakesIt, NothingBeforeStart, Reload, editorVars, debounceVars, docVars
<1>3. NothingBeforeStart'
  BY DEF WatchInv, NothingBeforeStart, Reload, editorVars, debounceVars, docVars
<1> QED BY <1>1, <1>2, <1>3 DEF WatchInv

LEMMA DocumentKeepsInv ==
  ASSUME WatchInv, NEW s \in Timers, Document(s)
  PROVE  WatchInv'
<1>1. WatchTypeOK'
  BY DEF WatchInv, WatchTypeOK, Document, editorVars, debounceVars, docVars
<1>2. CurrentTimerTakesIt'
  BY WatcherAssumption DEF WatchInv, WatchTypeOK, CurrentTimerTakesIt, NothingBeforeStart, Document, editorVars, debounceVars, docVars
<1>3. NothingBeforeStart'
  BY DEF WatchInv, NothingBeforeStart, Document, editorVars, debounceVars, docVars
<1> QED BY <1>1, <1>2, <1>3 DEF WatchInv

LEMMA WriteDraftsKeepsInv ==
  ASSUME WatchInv, NEW s \in Timers, WriteDrafts(s)
  PROVE  WatchInv'
<1>1. WatchTypeOK'
  BY NotifiedType DEF WatchInv, WatchTypeOK, WriteDrafts, editorVars, debounceVars, docVars
<1>2. CurrentTimerTakesIt'
  BY NotifiedType, WatcherAssumption DEF WatchInv, WatchTypeOK, CurrentTimerTakesIt, NothingBeforeStart, WriteDrafts, editorVars, debounceVars, docVars
<1>3. NothingBeforeStart'
  BY DEF WatchInv, NothingBeforeStart, WriteDrafts, Notified, editorVars, debounceVars, docVars
<1> QED BY <1>1, <1>2, <1>3 DEF WatchInv

LEMMA ReadDraftsKeepsInv ==
  ASSUME WatchInv, NEW s \in Timers, ReadDrafts(s)
  PROVE  WatchInv'
<1>1. WatchTypeOK'
  BY DEF WatchInv, WatchTypeOK, ReadDrafts, editorVars, debounceVars, docVars
<1>2. CurrentTimerTakesIt'
  BY WatcherAssumption DEF WatchInv, WatchTypeOK, CurrentTimerTakesIt, NothingBeforeStart, ReadDrafts, editorVars, debounceVars, docVars
<1>3. NothingBeforeStart'
  BY DEF WatchInv, NothingBeforeStart, ReadDrafts, editorVars, debounceVars, docVars
<1> QED BY <1>1, <1>2, <1>3 DEF WatchInv

LEMMA PublishKeepsInv ==
  ASSUME WatchInv, NEW s \in Timers, Publish(s)
  PROVE  WatchInv'
<1>1. WatchTypeOK'
  BY DEF WatchInv, WatchTypeOK, Publish, editorVars, debounceVars, docVars
<1>2. CurrentTimerTakesIt'
  BY WatcherAssumption DEF WatchInv, WatchTypeOK, CurrentTimerTakesIt, NothingBeforeStart, Publish, editorVars, debounceVars, docVars
<1>3. NothingBeforeStart'
  BY DEF WatchInv, NothingBeforeStart, Publish, editorVars, debounceVars, docVars
<1> QED BY <1>1, <1>2, <1>3 DEF WatchInv

LEMMA RunRaisesKeepsInv ==
  ASSUME WatchInv, NEW s \in Timers, RunRaises(s)
  PROVE  WatchInv'
<1>1. WatchTypeOK'
  BY DEF WatchInv, WatchTypeOK, RunRaises, editorVars, debounceVars, docVars
<1>2. CurrentTimerTakesIt'
  BY WatcherAssumption DEF WatchInv, WatchTypeOK, CurrentTimerTakesIt, NothingBeforeStart, RunRaises, editorVars, debounceVars, docVars
<1>3. NothingBeforeStart'
  BY DEF WatchInv, NothingBeforeStart, RunRaises, editorVars, debounceVars, docVars
<1> QED BY <1>1, <1>2, <1>3 DEF WatchInv

LEMMA WatchStepKeepsInv == WatchInv /\ [WatchNext]_watchVars => WatchInv'
<1> SUFFICES ASSUME WatchInv, WatchNext \/ UNCHANGED watchVars PROVE WatchInv'
  OBVIOUS
<1>1. CASE WatchStart
  BY <1>1, WatchStartKeepsInv
<1>2. CASE Stop
  BY <1>2, StopKeepsInv
<1>3. CASE Join
  BY <1>3, JoinKeepsInv
<1>4. CASE StopAgain
  BY <1>4, StopAgainKeepsInv
<1>5. ASSUME NEW f \in Files, Save(f) PROVE WatchInv'
  BY <1>5, SaveKeepsInv
<1>6. CASE Schedule
  BY <1>6, ScheduleKeepsInv
<1>7. ASSUME NEW s \in Timers, Expire(s) PROVE WatchInv'
  BY <1>7, ExpireKeepsInv
<1>8. ASSUME NEW s \in Timers, Fire(s) PROVE WatchInv'
  BY <1>8, FireKeepsInv
<1>9. ASSUME NEW s \in Timers, Reload(s) PROVE WatchInv'
  BY <1>9, ReloadKeepsInv
<1>10. ASSUME NEW s \in Timers, Document(s) PROVE WatchInv'
  BY <1>10, DocumentKeepsInv
<1>11. ASSUME NEW s \in Timers, WriteDrafts(s) PROVE WatchInv'
  BY <1>11, WriteDraftsKeepsInv
<1>12. ASSUME NEW s \in Timers, ReadDrafts(s) PROVE WatchInv'
  BY <1>12, ReadDraftsKeepsInv
<1>13. ASSUME NEW s \in Timers, Publish(s) PROVE WatchInv'
  BY <1>13, PublishKeepsInv
<1>14. ASSUME NEW s \in Timers, RunRaises(s) PROVE WatchInv'
  BY <1>14, RunRaisesKeepsInv
<1>15. CASE UNCHANGED watchVars
  BY <1>15 DEF watchVars, editorVars, debounceVars, docVars, WatchInv, WatchTypeOK,
     CurrentTimerTakesIt, NothingBeforeStart
<1> QED BY <1>1, <1>2, <1>3, <1>4, <1>5, <1>6, <1>7, <1>8, <1>9, <1>10, <1>11, <1>12, <1>13, <1>14, <1>15 DEF WatchNext, TimerThread

(* While it watches, whatever is pending has a timer that will take it,
   although timers that expired late fire between the others, take the work
   of a newer one and make the watcher forget it (_watcher.py:104-121).    *)
THEOREM NothingIsForgotten == WatchSpec => []PendingHasTimer
<1>1. WatchInv => PendingHasTimer
  BY DEF WatchInv, CurrentTimerTakesIt, PendingHasTimer
<1> QED BY <1>1, WatchInitInv, WatchStepKeepsInv, PTL DEF WatchSpec

(* The variables of FileWatcher keep their types.                          *)
THEOREM WatcherTypes == WatchSpec => []WatchTypeOK
<1>1. WatchInv => WatchTypeOK
  BY DEF WatchInv
<1> QED BY <1>1, WatchInitInv, WatchStepKeepsInv, PTL DEF WatchSpec

(***************************************************************************)
(* The panel.  Its verdicts are those of the answers, one each, and what   *)
(* it decided is what they say.                                            *)
(***************************************************************************)
PanelInv ==
  /\ PanelTypeOK
  /\ Len(answers) = Len(verdicts)
  /\ \A i \in DOMAIN verdicts : verdicts[i] = VerdictOf(answers[i])
  /\ PassNeedsAKeep

LEMMA VotesAreNumbers ==
  ASSUME PanelTypeOK, NEW r
  PROVE  /\ Votes(r) \in Nat
         /\ Votes(r) = 0 <=> \A i \in DOMAIN verdicts : verdicts[i] # r
<1> DEFINE S == { i \in DOMAIN verdicts : verdicts[i] = r }
<1>1. Len(verdicts) \in Nat /\ DOMAIN verdicts = 1..Len(verdicts)
  BY DEF PanelTypeOK
<1>2. IsFiniteSet(DOMAIN verdicts)
  BY <1>1, FS_Interval
<1>3. IsFiniteSet(S)
  BY <1>2, FS_Subset
<1>4. Cardinality(S) \in Nat /\ (Cardinality(S) = 0 <=> S = {})
  BY <1>3, FS_CardinalityType, FS_EmptySet
<1>5. Votes(r) = Cardinality(S)
  BY DEF Votes
<1> QED BY <1>4, <1>5

LEMMA RejectedByAll ==
  ASSUME PanelTypeOK, \A i \in DOMAIN verdicts : verdicts[i] = "reject"
  PROVE  Votes("reject") = Len(verdicts)
<1>1. Len(verdicts) \in Nat /\ DOMAIN verdicts = 1..Len(verdicts)
  BY DEF PanelTypeOK
<1>2. { i \in DOMAIN verdicts : verdicts[i] = "reject" } = 1..Len(verdicts)
  BY <1>1
<1>3. Cardinality(1..Len(verdicts)) = Len(verdicts)
  BY <1>1, FS_Interval
<1> QED BY <1>2, <1>3 DEF Votes

(* No recommendation has more points than the one that wins.               *)
LEMMA BordaWins ==
  ASSUME PanelTypeOK
  PROVE  Borda \in Recommendation /\ \A r \in Recommendation : Points(r) <= Points(Borda)
<1> DEFINE best == { i \in DOMAIN Recommendations :
                       \A r \in Recommendation : Points(r) <= Points(Recommendations[i]) }
           first == CHOOSE i \in best : \A j \in best : i <= j
<1>1. /\ Points("keep") \in Nat /\ Points("revise") \in Nat /\ Points("reject") \in Nat
      /\ Recommendation = {"keep", "revise", "reject"}
  BY VotesAreNumbers DEF Points, BordaRank, Recommendation
<1>2. /\ DOMAIN Recommendations = {1, 2, 3}
      /\ Recommendations[1] = "keep" /\ Recommendations[2] = "revise"
      /\ Recommendations[3] = "reject"
  BY DEF Recommendations
<1>3. best \subseteq {1, 2, 3} /\ best # {}
  <2>1. \/ 1 \in best \/ 2 \in best \/ 3 \in best
    BY <1>1, <1>2
  <2> QED BY <1>2, <2>1
<1>4. first \in best
  BY <1>3
<1>5. Borda = Recommendations[first]
  BY DEF Borda
<1>6. \A r \in Recommendation : Points(r) <= Points(Recommendations[first])
  BY <1>4
<1> HIDE DEF best, first
<1>7. Recommendations[first] \in Recommendation
  BY <1>1, <1>2, <1>3, <1>4
<1> QED BY <1>5, <1>6, <1>7, Zenon

LEMMA PanelSafety == PanelSpec => []PanelInv
<1>1. PanelInit => PanelInv
  BY PanelAssumption DEF PanelInit, PanelInv, PanelTypeOK, PassNeedsAKeep
<1>2. PanelInv /\ [PanelNext]_panelVars => PanelInv'
  <2> SUFFICES ASSUME PanelInv, [PanelNext]_panelVars PROVE PanelInv'
    OBVIOUS
  <2> USE PanelAssumption
  <2>1. CASE Judge
    <3>1. PICK answer \in Recommendation \cup {"failed", "unreadable"} :
            /\ answers' = Append(answers, answer)
            /\ verdicts' = Append(verdicts, VerdictOf(answer))
      BY <2>1 DEF Judge
    <3>2. VerdictOf(answer) \in Recommendation
      BY DEF VerdictOf, Recommendation, BordaRank
    <3>3. PanelTypeOK' /\ consensus' = "open"
      BY <2>1, <3>1, <3>2 DEF Judge, PanelInv, PanelTypeOK
    <3>4. /\ Len(answers') = Len(verdicts')
          /\ \A i \in DOMAIN verdicts' : verdicts'[i] = VerdictOf(answers'[i])
      BY <3>1, <3>2 DEF PanelInv, PanelTypeOK
    <3> QED BY <3>3, <3>4 DEF PanelInv, PassNeedsAKeep, VerdictOf
  <2>2. CASE Decide
    <3>1. consensus' = IF judges = 0 THEN "keep" ELSE Consensus
      BY <2>2 DEF Decide
    <3>2. judges' = judges /\ answers' = answers /\ verdicts' = verdicts
      BY <2>2 DEF Decide
    <3>3. Consensus \in Recommendation
      BY BordaWins DEF PanelInv, Consensus, Recommendation, BordaRank
    <3>4. PanelTypeOK'
      BY <3>1, <3>2, <3>3 DEF PanelInv, PanelTypeOK, Recommendation, BordaRank
    <3>5. ASSUME consensus' = "keep", judges > 0,
                 \A i \in DOMAIN answers : answers[i] # "keep"
          PROVE  FALSE
      <4>1. Consensus = "keep" /\ Len(verdicts) = judges
        BY <2>2, <3>1, <3>5 DEF Decide, PanelInv, PanelTypeOK
      <4>2. 2 * Votes("reject") <= Len(verdicts) /\ Borda = "keep"
        BY <4>1, VotesAreNumbers DEF Consensus, PanelInv, PanelTypeOK
      <4>3. \A i \in DOMAIN verdicts : verdicts[i] # "keep"
        BY <3>5 DEF PanelInv, PanelTypeOK, VerdictOf
      <4>4. Votes("keep") = 0 /\ Votes("revise") \in Nat
        BY <4>3, VotesAreNumbers DEF PanelInv
      <4>5. Points("keep") = 0 /\ Points("revise") = Votes("revise")
        BY <4>4 DEF Points, BordaRank
      <4>6. Votes("revise") = 0
        BY <4>2, <4>4, <4>5, BordaWins DEF PanelInv, Recommendation, BordaRank
      <4>7. \A i \in DOMAIN verdicts : verdicts[i] # "revise"
        BY <4>6, VotesAreNumbers DEF PanelInv
      <4>8. \A i \in DOMAIN verdicts : verdicts[i] = "reject"
        BY <4>3, <4>7 DEF PanelInv, PanelTypeOK, Recommendation, BordaRank
      <4>9. Votes("reject") = Len(verdicts)
        BY <4>8, RejectedByAll DEF PanelInv
      <4> QED BY <3>5, <4>1, <4>2, <4>9 DEF PanelInv, PanelTypeOK
    <3> QED BY <3>2, <3>4, <3>5 DEF PanelInv, PassNeedsAKeep, VerdictOf
  <2>3. CASE JudgeRaises
    BY <2>3 DEF JudgeRaises, PanelInv, PanelTypeOK, PassNeedsAKeep, VerdictOf
  <2>4. CASE UNCHANGED panelVars
    BY <2>4 DEF panelVars, PanelInv, PanelTypeOK, PassNeedsAKeep, VerdictOf
  <2> QED BY <2>1, <2>2, <2>3, <2>4 DEF PanelNext
<1> QED BY <1>1, <1>2, PTL DEF PanelSpec

(* A gate with judges passes an artifact only if one of them said so
   (tournament_gate.py:112-143, 356-362), for every number of judges.      *)
THEOREM PassesNeedAKeep == PanelSpec => []PassNeedsAKeep
<1>1. PanelInv => PassNeedsAKeep
  BY DEF PanelInv
<1> QED BY <1>1, PanelSafety, PTL
-----------------------------------------------------------------------------
(***************************************************************************)
(* The sprints.  Their directories are numbered without a gap, and a       *)
(* command that starts one holds a number that is at most the next.        *)
(***************************************************************************)
Numbered == \E g \in 0..MaxSprints : made = 1..g

HoldsItsNumber(j) ==
  /\ j.at \in Starting => /\ j.sprint \in Sprints /\ j.sprint \notin j.known
                          /\ 1..(j.sprint - 1) \subseteq made
  /\ j.at \in {"saving", "filling"} => j.sprint \in made

NumbersInv == /\ SprintTypeOK /\ Numbered /\ told \subseteq made
              /\ \A u \in Users : HoldsItsNumber(job[u])

LEMMA GreatestOfInterval ==
  ASSUME NEW g \in Nat PROVE Greatest(1..g) = g
<1>1. CASE g = 0
  BY <1>1 DEF Greatest, NoSprint
<1>2. CASE g > 0
  <2>1. g \in 1..g /\ \A m \in 1..g : m <= g
    BY <1>2
  <2>2. 1..g # {}
    BY <2>1
  <2>3. \A n \in 1..g : (\A m \in 1..g : m <= n) => n = g
    BY <2>1
  <2> QED BY <2>1, <2>2, <2>3 DEF Greatest
<1> QED BY <1>1, <1>2

(* A command leaves the jobs of the other users alone.                     *)
LEMMA OthersKeepTheirNumbers ==
  ASSUME NumbersInv, NEW u \in Users, made \subseteq made',
         \A v \in Users : v # u => job'[v] = job[v],
         HoldsItsNumber(job[u])'
  PROVE  \A v \in Users : HoldsItsNumber(job[v])'
<1> SUFFICES ASSUME NEW v \in Users, v # u PROVE HoldsItsNumber(job[v])'
  OBVIOUS
<1>1. HoldsItsNumber(job[v]) /\ job'[v] = job[v]
  BY DEF NumbersInv
<1> QED BY <1>1 DEF HoldsItsNumber

LEMMA NumbersStep ==
  ASSUME NumbersInv, [SprintNext]_sprintVars PROVE NumbersInv'
<1> USE SprintAssumption
<1>0. CASE UNCHANGED sprintVars
  BY <1>0 DEF sprintVars, dirVars, NumbersInv, SprintTypeOK, Numbered, HoldsItsNumber
<1> SUFFICES ASSUME NEW u \in Users, SprintCommand(u) PROVE NumbersInv'
  BY <1>0 DEF SprintNext
<1>a. job[u] \in [at : {"idle", "reporting", "closing"} \cup Starting,
                 sprint : Sprints \cup {NoSprint}, previous : Sprints \cup {NoSprint},
                 lessons : SUBSET Sprints, known : SUBSET Sprints]
  BY DEF NumbersInv, SprintTypeOK
<1>b. /\ SprintTypeOK /\ told \subseteq made /\ Numbered /\ HoldsItsNumber(job[u])
  BY DEF NumbersInv
<1>1. CASE StartSprint(u)
  <2>1. PICK g \in 0..MaxSprints : made = 1..g
    BY DEF NumbersInv, Numbered
  <2>2. NextSprint = g + 1 /\ NextSprint \in Sprints
    BY <1>1, <2>1, GreatestOfInterval DEF StartSprint, NextSprint
  <2>3. /\ job' = [job EXCEPT ![u] = Job("linking", g + 1, {}, told)]
        /\ UNCHANGED <<made, state, retro, retros, told>>
    BY <1>1, <2>2 DEF StartSprint, dirVars
  <2>t. tidy' \in BOOLEAN
    BY <1>1 DEF StartSprint
  <2>4. g + 1 \notin told
    BY <2>1, <2>2, <1>b DEF SprintTypeOK
  <2>5. job'[u] = Job("linking", g + 1, {}, told)
    BY <2>3, <1>b DEF SprintTypeOK
  <2>6. HoldsItsNumber(job[u])'
    BY <2>1, <2>2, <2>3, <2>4, <2>5 DEF HoldsItsNumber, Starting, Job
  <2>7. SprintTypeOK'
    BY <2>2, <2>3, <2>t, <1>b DEF SprintTypeOK, Starting, Job
  <2> QED BY <2>3, <2>6, <2>7, <1>b, OthersKeepTheirNumbers DEF NumbersInv, Numbered, SprintTypeOK
<1>2. CASE Link(u)
  <2>1. PICK g \in 0..MaxSprints : made = 1..g
    BY DEF NumbersInv, Numbered
  <2>2. Greatest(made) \in Sprints \cup {NoSprint}
    BY <2>1, GreatestOfInterval DEF Sprints, NoSprint
  <2>3. /\ job' = [job EXCEPT ![u] = [job[u] EXCEPT !.at = "recalling",
                                                   !.previous = Greatest(made)]]
        /\ UNCHANGED <<made, state, retro, retros, told, tidy>>
    BY <1>2 DEF Link, dirVars
  <2>4. job'[u] = [job[u] EXCEPT !.at = "recalling", !.previous = Greatest(made)]
    BY <2>3, <1>b DEF SprintTypeOK
  <2>5. HoldsItsNumber(job[u])'
    BY <1>2, <2>3, <2>4, <1>a, <1>b DEF HoldsItsNumber, Starting, Link
  <2>6. SprintTypeOK'
    BY <2>2, <2>3, <1>a, <1>b DEF SprintTypeOK, Starting
  <2> QED BY <2>3, <2>5, <2>6, <1>b, OthersKeepTheirNumbers DEF NumbersInv, Numbered, SprintTypeOK
<1>3. CASE Recall(u)
  <2>1. Summary(job[u].previous) \in SUBSET Sprints
    BY <1>a, <1>b DEF Summary, SprintTypeOK, StoredFile
  <2>2. /\ job' = [job EXCEPT ![u] = [job[u] EXCEPT !.at = "making",
                                         !.lessons = Summary(job[u].previous)]]
        /\ UNCHANGED <<made, state, retro, retros, told, tidy>>
    BY <1>3 DEF Recall, dirVars
  <2>3. job'[u] = [job[u] EXCEPT !.at = "making", !.lessons = Summary(job[u].previous)]
    BY <2>2, <1>b DEF SprintTypeOK
  <2>4. HoldsItsNumber(job[u])'
    BY <1>3, <2>2, <2>3, <1>a, <1>b DEF HoldsItsNumber, Starting, Recall
  <2>5. SprintTypeOK'
    BY <2>1, <2>2, <1>a, <1>b DEF SprintTypeOK, Starting
  <2> QED BY <2>2, <2>4, <2>5, <1>b, OthersKeepTheirNumbers DEF NumbersInv, Numbered, SprintTypeOK
<1>4. CASE MakeDirs(u)
  <2>1. PICK g \in 0..MaxSprints : made = 1..g
    BY DEF NumbersInv, Numbered
  <2>2. /\ job' = [job EXCEPT ![u] = [job[u] EXCEPT !.at = "saving"]]
        /\ made' = made \cup {job[u].sprint}
        /\ UNCHANGED <<state, retro, retros, told, tidy>>
    BY <1>4 DEF MakeDirs
  <2>3. job'[u] = [job[u] EXCEPT !.at = "saving"]
    BY <2>2, <1>b DEF SprintTypeOK
  <2>4. job[u].sprint \in Sprints /\ 1..(job[u].sprint - 1) \subseteq made
    BY <1>4, <1>b DEF MakeDirs, HoldsItsNumber, Starting
  <2>5. HoldsItsNumber(job[u])'
    BY <1>4, <2>2, <2>3, <2>4, <1>a, <1>b DEF HoldsItsNumber, Starting, MakeDirs
  <2>6. SprintTypeOK'
    BY <2>2, <2>4, <1>a, <1>b DEF SprintTypeOK, Starting
  <2>7. Numbered'
    <3>1. CASE job[u].sprint <= g
      BY <2>1, <2>2, <2>4, <3>1 DEF Numbered, Sprints
    <3>2. CASE job[u].sprint > g
      <4>1. job[u].sprint = g + 1
        <5>1. g + 1 \in 1..(job[u].sprint - 1) => g + 1 \in 1..g
          BY <2>1, <2>4
        <5> QED BY <2>4, <3>2, <5>1 DEF Sprints
      <4>2. made' = 1..(g + 1) /\ g + 1 \in 0..MaxSprints
        BY <2>1, <2>2, <2>4, <4>1 DEF Sprints
      <4> QED BY <4>2 DEF Numbered
    <3> QED BY <2>4, <3>1, <3>2 DEF Sprints
  <2> QED BY <2>2, <2>5, <2>6, <2>7, <1>b, OthersKeepTheirNumbers DEF NumbersInv, SprintTypeOK
<1>5. CASE SaveState(u)
  <2>1. CASE job[u].at = "saving"
    <3>1. /\ state' = [state EXCEPT ![job[u].sprint] = File("torn", {})]
          /\ job' = [job EXCEPT ![u] = [job[u] EXCEPT !.at = "filling"]]
          /\ UNCHANGED <<made, retro, retros, told, tidy>>
      BY <1>5, <2>1 DEF SaveState
    <3>2. job'[u] = [job[u] EXCEPT !.at = "filling"]
      BY <3>1, <1>b DEF SprintTypeOK
    <3>3. HoldsItsNumber(job[u])'
      BY <2>1, <3>1, <3>2, <1>a, <1>b DEF HoldsItsNumber, Starting
    <3>4. SprintTypeOK'
      BY <3>1, <1>a, <1>b DEF SprintTypeOK, Starting, StoredFile, File
    <3> QED BY <3>1, <3>3, <3>4, <1>b, OthersKeepTheirNumbers DEF NumbersInv, Numbered, SprintTypeOK
  <2>2. CASE job[u].at = "filling"
    <3>1. /\ state' = [state EXCEPT ![job[u].sprint] = File("written", job[u].lessons)]
          /\ job' = [job EXCEPT ![u] = NoJob]
          /\ told' = told \cup {job[u].sprint}
          /\ UNCHANGED <<made, retro, retros, tidy>>
      BY <1>5, <2>2 DEF SaveState
    <3>2. job'[u] = NoJob
      BY <3>1, <1>b DEF SprintTypeOK
    <3>3. HoldsItsNumber(job[u])'
      BY <3>2 DEF HoldsItsNumber, Starting, NoJob, Job
    <3>4. SprintTypeOK' /\ told' \subseteq made'
      BY <2>2, <3>1, <1>a, <1>b DEF SprintTypeOK, Starting, StoredFile, File, NoJob, Job,
                                   HoldsItsNumber
    <3> QED BY <3>1, <3>3, <3>4, <1>b, OthersKeepTheirNumbers DEF NumbersInv, Numbered, SprintTypeOK
  <2> QED BY <1>5, <2>1, <2>2 DEF SaveState
<1>6. ASSUME NEW n \in Sprints, Retrospective(u, n) PROVE NumbersInv'
  <2>1. /\ job' = [job EXCEPT ![u] = Job("reporting", n, state[n].about \cup {n}, {})]
        /\ retros' = retros + 1 /\ retros < MaxRetros
        /\ UNCHANGED <<made, state, retro, told>>
    BY <1>6 DEF Retrospective, dirVars
  <2>t. tidy' \in BOOLEAN
    BY <1>6 DEF Retrospective
  <2>2. job'[u].at = "reporting"
    BY <2>1, <1>b DEF SprintTypeOK, Job
  <2>3. HoldsItsNumber(job[u])'
    BY <2>2 DEF HoldsItsNumber, Starting
  <2>4. state[n].about \cup {n} \in SUBSET Sprints
    BY <1>b DEF SprintTypeOK, StoredFile
  <2>5. SprintTypeOK'
    BY <2>1, <2>t, <2>4, <1>b DEF SprintTypeOK, Starting, Job
  <2> QED BY <2>1, <2>3, <2>5, <1>b, OthersKeepTheirNumbers DEF NumbersInv, Numbered, SprintTypeOK
<1>7. CASE SaveRetro(u)
  <2>1. /\ UNCHANGED <<made, state, retros, told, tidy>>
        /\ \/ job' = [job EXCEPT ![u] = [job[u] EXCEPT !.at = "closing"]]
           \/ job' = [job EXCEPT ![u] = NoJob]
        /\ \/ retro' = [retro EXCEPT ![job[u].sprint] = File("torn", {})]
           \/ retro' = [retro EXCEPT ![job[u].sprint] = File("written", job[u].lessons)]
    BY <1>7 DEF SaveRetro
  <2>2. job'[u].at \in {"closing", "idle"}
    BY <2>1, <1>a, <1>b DEF SprintTypeOK, NoJob, Job
  <2>3. HoldsItsNumber(job[u])'
    BY <2>2 DEF HoldsItsNumber, Starting
  <2>4. job' \in [Users -> [at : {"idle", "reporting", "closing"} \cup Starting,
                 sprint : Sprints \cup {NoSprint}, previous : Sprints \cup {NoSprint},
                 lessons : SUBSET Sprints, known : SUBSET Sprints]]
    BY <2>1, <1>a, <1>b DEF SprintTypeOK, NoJob, Job
  <2>5. retro' \in [Sprints -> StoredFile]
    BY <2>1, <1>a, <1>b DEF SprintTypeOK, StoredFile, File
  <2> QED BY <2>1, <2>3, <2>4, <2>5, <1>b, OthersKeepTheirNumbers
          DEF NumbersInv, Numbered, SprintTypeOK
<1>8. CASE Die(u)
  <2>1. /\ job' = [job EXCEPT ![u] = NoJob] /\ tidy' = FALSE
        /\ UNCHANGED <<made, state, retro, retros, told>>
    BY <1>8 DEF Die, dirVars
  <2>2. job'[u] = NoJob
    BY <2>1, <1>b DEF SprintTypeOK
  <2>3. HoldsItsNumber(job[u])'
    BY <2>2 DEF HoldsItsNumber, Starting, NoJob, Job
  <2>4. SprintTypeOK'
    BY <2>1, <1>b DEF SprintTypeOK, Starting, NoJob, Job
  <2> QED BY <2>1, <2>3, <2>4, <1>b, OthersKeepTheirNumbers DEF NumbersInv, Numbered, SprintTypeOK
<1> QED BY <1>1, <1>2, <1>3, <1>4, <1>5, <1>6, <1>7, <1>8 DEF SprintCommand

LEMMA FirstNumbers ==
  ASSUME SprintInit PROVE NumbersInv
<1>1. made = 1..0
  BY DEF SprintInit
<1>2. Numbered
  BY <1>1, SprintAssumption DEF Numbered
<1> QED BY <1>2, SprintAssumption DEF SprintInit, NumbersInv, SprintTypeOK, HoldsItsNumber,
                                     NoJob, Job, NoFile, File, StoredFile, Starting

LEMMA NumbersInvariant == SprintSpec => []NumbersInv
BY FirstNumbers, NumbersStep, PTL DEF SprintSpec

(* A sprint that was reported to somebody is never taken for new by a
   command that begins later, and numbers have no gaps, whatever overlaps
   or dies (sprint_flow.py:46-57).                                         *)
THEOREM SprintsAreFresh == SprintSpec => []FreshSprints
<1>1. NumbersInv => FreshSprints
  <2> SUFFICES ASSUME NumbersInv PROVE FreshSprints
    OBVIOUS
  <2>1. PICK g \in 0..MaxSprints : made = 1..g
    BY DEF NumbersInv, Numbered
  <2>2. \A n \in made : 1..n \subseteq made
    BY <2>1
  <2> QED BY <2>2 DEF NumbersInv, HoldsItsNumber, FreshSprints
<1> QED BY <1>1, NumbersInvariant, PTL

(***************************************************************************)
(* What they know: while commands run one at a time and close each sprint, *)
(* a command that starts one finds all sprints before it closed and takes  *)
(* the lessons of the last of them, which are those of all.                *)
(***************************************************************************)
AtRest(j) == j.at = "idle"

JobInOrder(j) ==
  /\ j.at \in {"linking", "recalling", "making"} =>
       made = 1..(j.sprint - 1) /\ \A n \in made : Closed(n)
  /\ j.at \in {"saving", "filling"} => made = 1..j.sprint
  /\ j.at = "recalling" => j.previous = j.sprint - 1
  /\ j.at \in {"making", "saving", "filling"} => j.lessons = 1..(j.sprint - 1)
  /\ j.at \in {"reporting", "closing"} => j.sprint \in made /\ j.lessons = 1..j.sprint

FilesInOrder ==
  \A n \in Sprints :
    /\ state[n].content = "written" => state[n].about = 1..(n - 1)
    /\ retro[n].content = "written" => retro[n].about = 1..n
    /\ n \in made /\ state[n].content # "written" =>
         \E u \in Users : job[u].at \in {"saving", "filling"} /\ job[u].sprint = n

OneAtATime == \A u, v \in Users : AtRest(job[u]) \/ AtRest(job[v]) \/ u = v

LessonsInv ==
  NumbersInv /\ (tidy => OneAtATime /\ FilesInOrder /\ \A u \in Users : JobInOrder(job[u]))

(* Where the others rest, only the command that moved is left to look at.  *)
LEMMA OnlyOneMoves ==
  ASSUME NEW u \in Users,
         \A v \in Users : v # u => AtRest(job[v]) /\ job'[v] = job[v],
         JobInOrder(job[u])'
  PROVE  OneAtATime' /\ \A v \in Users : JobInOrder(job[v])'
<1>1. \A v \in Users : v # u => AtRest(job'[v])
  OBVIOUS
<1>2. OneAtATime'
  BY <1>1 DEF OneAtATime
<1>3. ASSUME NEW v \in Users PROVE JobInOrder(job[v])'
  <2>1. CASE v # u
    BY <1>1, <2>1 DEF JobInOrder, AtRest
  <2> QED BY <2>1
<1> QED BY <1>2, <1>3

LEMMA LessonsStep ==
  ASSUME LessonsInv, [SprintNext]_sprintVars PROVE LessonsInv'
<1> USE SprintAssumption
<1>n. NumbersInv /\ NumbersInv'
  BY NumbersStep DEF LessonsInv
<1>0. CASE UNCHANGED sprintVars
  <2>1. tidy' = tidy /\ job' = job /\ made' = made /\ state' = state /\ retro' = retro
    BY <1>0 DEF sprintVars, dirVars
  <2>2. OneAtATime' = OneAtATime /\ FilesInOrder' = FilesInOrder
    BY <2>1 DEF OneAtATime, FilesInOrder
  <2>3. \A u \in Users : JobInOrder(job[u]) => JobInOrder(job[u])'
    BY <2>1 DEF JobInOrder, Closed
  <2> QED BY <1>n, <2>1, <2>2, <2>3 DEF LessonsInv
<1> SUFFICES ASSUME NEW u \in Users, SprintCommand(u), tidy'
             PROVE  OneAtATime' /\ FilesInOrder' /\ \A v \in Users : JobInOrder(job[v])'
  BY <1>0, <1>n DEF SprintNext, LessonsInv
<1>a. job \in [Users -> [at : {"idle", "reporting", "closing"} \cup Starting,
                 sprint : Sprints \cup {NoSprint}, previous : Sprints \cup {NoSprint},
                 lessons : SUBSET Sprints, known : SUBSET Sprints]]
  BY <1>n DEF NumbersInv, SprintTypeOK
<1>b. state \in [Sprints -> StoredFile] /\ retro \in [Sprints -> StoredFile]
  BY <1>n DEF NumbersInv, SprintTypeOK
<1>c. HoldsItsNumber(job[u])
  BY <1>n DEF NumbersInv
<1>t. tidy
  BY DEF SprintCommand, StartSprint, Link, Recall, MakeDirs, SaveState, Retrospective,
         SaveRetro, Die
<1>d. OneAtATime /\ FilesInOrder /\ JobInOrder(job[u])
  BY <1>t DEF LessonsInv
<1>e. ASSUME ~AtRest(job[u]) PROVE \A v \in Users : v # u => AtRest(job[v])
  BY <1>d, <1>e DEF OneAtATime
<1>1. CASE StartSprint(u)
  <2>1. PICK g \in 0..MaxSprints : made = 1..g
    BY <1>n DEF NumbersInv, Numbered
  <2>2. NextSprint = g + 1
    BY <2>1, GreatestOfInterval DEF NextSprint
  <2>3. /\ job' = [job EXCEPT ![u] = Job("linking", g + 1, {}, told)]
        /\ UNCHANGED <<made, state, retro>> /\ Quiet /\ \A n \in made : Closed(n)
    BY <1>1, <2>2 DEF StartSprint, dirVars
  <2>4. job'[u] = Job("linking", g + 1, {}, told)
    BY <2>3, <1>a
  <2>5. JobInOrder(job[u])'
    BY <2>1, <2>3, <2>4 DEF JobInOrder, Job, Closed
  <2>6. \A v \in Users : v # u => AtRest(job[v]) /\ job'[v] = job[v]
    BY <2>3, <1>a DEF Quiet, AtRest
  <2>7. \A v \in Users : job[v].at \notin {"saving", "filling"}
    BY <2>3 DEF Quiet
  <2>8. FilesInOrder'
    BY <2>3, <2>7, <1>d DEF FilesInOrder
  <2> QED BY <2>5, <2>6, <2>8, OnlyOneMoves
<1>2. CASE Link(u)
  <2>1. job[u].at = "linking" /\ made = 1..(job[u].sprint - 1) /\ job[u].sprint \in Sprints
    BY <1>2, <1>c, <1>d DEF Link, JobInOrder, HoldsItsNumber, Starting
  <2>2. Greatest(made) = job[u].sprint - 1
    BY <2>1, GreatestOfInterval DEF Sprints
  <2>3. /\ job' = [job EXCEPT ![u] = [job[u] EXCEPT !.at = "recalling",
                                                   !.previous = Greatest(made)]]
        /\ UNCHANGED <<made, state, retro>>
    BY <1>2 DEF Link, dirVars
  <2>4. job'[u] = [job[u] EXCEPT !.at = "recalling", !.previous = Greatest(made)]
    BY <2>3, <1>a
  <2>5. JobInOrder(job[u])'
    BY <2>1, <2>2, <2>3, <2>4, <1>a, <1>d DEF JobInOrder, Closed
  <2>6. \A v \in Users : v # u => AtRest(job[v]) /\ job'[v] = job[v]
    BY <2>1, <2>3, <1>a, <1>e DEF AtRest
  <2>7. FilesInOrder'
    <3> SUFFICES ASSUME NEW n \in Sprints, n \in made, state[n].content # "written"
                 PROVE  \E v \in Users : job'[v].at \in {"saving", "filling"} /\ job'[v].sprint = n
      BY <2>3, <1>d DEF FilesInOrder
    <3>1. PICK v \in Users : job[v].at \in {"saving", "filling"} /\ job[v].sprint = n
      BY <1>d DEF FilesInOrder
    <3>2. v # u
      BY <3>1, <2>1
    <3> QED BY <3>1, <3>2, <2>6
  <2> QED BY <2>5, <2>6, <2>7, OnlyOneMoves
<1>3. CASE Recall(u)
  <2>1. /\ job[u].at = "recalling" /\ made = 1..(job[u].sprint - 1)
        /\ job[u].sprint \in Sprints /\ job[u].previous = job[u].sprint - 1
        /\ \A n \in made : Closed(n)
    BY <1>3, <1>c, <1>d DEF Recall, JobInOrder, HoldsItsNumber, Starting
  <2>2. Summary(job[u].previous) = 1..(job[u].sprint - 1)
    <3>1. CASE job[u].previous = 0
      <4>1. job[u].sprint = 1
        BY <2>1, <3>1 DEF Sprints
      <4>2. Summary(job[u].previous) = {}
        BY <3>1 DEF Summary, NoSprint
      <4>3. 1..(job[u].sprint - 1) = {}
        BY <4>1
      <4> QED BY <4>2, <4>3
    <3>2. CASE job[u].previous # 0
      <4>1. job[u].previous \in made /\ job[u].previous \in Sprints
        BY <2>1, <3>2 DEF Sprints
      <4> QED BY <2>1, <3>2, <4>1, <1>d DEF Summary, NoSprint, Closed, FilesInOrder
    <3> QED BY <3>1, <3>2
  <2>3. /\ job' = [job EXCEPT ![u] = [job[u] EXCEPT !.at = "making",
                                         !.lessons = Summary(job[u].previous)]]
        /\ UNCHANGED <<made, state, retro>>
    BY <1>3 DEF Recall, dirVars
  <2>4. job'[u] = [job[u] EXCEPT !.at = "making", !.lessons = Summary(job[u].previous)]
    BY <2>3, <1>a
  <2>5. JobInOrder(job[u])'
    BY <2>1, <2>2, <2>3, <2>4, <1>a DEF JobInOrder, Closed
  <2>6. \A v \in Users : v # u => AtRest(job[v]) /\ job'[v] = job[v]
    BY <2>1, <2>3, <1>a, <1>e DEF AtRest
  <2>7. FilesInOrder'
    <3> SUFFICES ASSUME NEW n \in Sprints, n \in made, state[n].content # "written"
                 PROVE  \E v \in Users : job'[v].at \in {"saving", "filling"} /\ job'[v].sprint = n
      BY <2>3, <1>d DEF FilesInOrder
    <3>1. PICK v \in Users : job[v].at \in {"saving", "filling"} /\ job[v].sprint = n
      BY <1>d DEF FilesInOrder
    <3>2. v # u
      BY <3>1, <2>1
    <3> QED BY <3>1, <3>2, <2>6
  <2> QED BY <2>5, <2>6, <2>7, OnlyOneMoves
<1>4. CASE MakeDirs(u)
  <2>1. /\ job[u].at = "making" /\ made = 1..(job[u].sprint - 1) /\ job[u].sprint \in Sprints
        /\ job[u].lessons = 1..(job[u].sprint - 1)
    BY <1>4, <1>c, <1>d DEF MakeDirs, JobInOrder, HoldsItsNumber, Starting
  <2>2. /\ job' = [job EXCEPT ![u] = [job[u] EXCEPT !.at = "saving"]]
        /\ made' = made \cup {job[u].sprint} /\ UNCHANGED <<state, retro>>
    BY <1>4 DEF MakeDirs
  <2>3. made' = 1..job[u].sprint
    BY <2>1, <2>2 DEF Sprints
  <2>4. job'[u] = [job[u] EXCEPT !.at = "saving"]
    BY <2>2, <1>a
  <2>5. job'[u].at = "saving" /\ job'[u].sprint = job[u].sprint
        /\ job'[u].lessons = job[u].lessons
    BY <2>4, <1>a
  <2>6. JobInOrder(job[u])'
    BY <2>1, <2>3, <2>5 DEF JobInOrder
  <2>7. \A v \in Users : v # u => AtRest(job[v]) /\ job'[v] = job[v]
    BY <2>1, <2>2, <1>a, <1>e DEF AtRest
  <2>8. FilesInOrder'
    <3> SUFFICES ASSUME NEW n \in Sprints, n \in made', state[n].content # "written"
                 PROVE  \E v \in Users : job'[v].at \in {"saving", "filling"} /\ job'[v].sprint = n
      BY <2>2, <1>d DEF FilesInOrder
    <3>1. CASE n = job[u].sprint
      BY <3>1, <2>5
    <3>2. CASE n # job[u].sprint
      <4>1. n \in made
        BY <3>2, <2>2
      <4>2. PICK v \in Users : job[v].at \in {"saving", "filling"} /\ job[v].sprint = n
        BY <4>1, <1>d DEF FilesInOrder
      <4>3. v # u
        BY <4>2, <2>1
      <4> QED BY <4>2, <4>3, <2>7
    <3> QED BY <3>1, <3>2
  <2> QED BY <2>6, <2>7, <2>8, OnlyOneMoves
<1>5. CASE SaveState(u)
  <2>1. /\ job[u].at \in {"saving", "filling"} /\ made = 1..job[u].sprint
        /\ job[u].sprint \in Sprints /\ job[u].lessons = 1..(job[u].sprint - 1)
    BY <1>5, <1>c, <1>d DEF SaveState, JobInOrder, HoldsItsNumber, Starting
  <2>2. \A v \in Users : v # u => AtRest(job[v])
    BY <2>1, <1>e DEF AtRest
  <2>3. \A n \in made : state[n].content # "written" => n = job[u].sprint
    <3> SUFFICES ASSUME NEW n \in made, state[n].content # "written" PROVE n = job[u].sprint
      OBVIOUS
    <3>1. n \in Sprints
      BY <1>n DEF NumbersInv, SprintTypeOK
    <3>2. PICK v \in Users : job[v].at \in {"saving", "filling"} /\ job[v].sprint = n
      BY <3>1, <1>d DEF FilesInOrder
    <3>3. v = u
      BY <3>2, <2>2 DEF AtRest
    <3> QED BY <3>2, <3>3
  <2>4. CASE job[u].at = "saving"
    <3>1. /\ state' = [state EXCEPT ![job[u].sprint] = File("torn", {})]
          /\ job' = [job EXCEPT ![u] = [job[u] EXCEPT !.at = "filling"]]
          /\ UNCHANGED <<made, retro>>
      BY <1>5, <2>4 DEF SaveState
    <3>2. job'[u] = [job[u] EXCEPT !.at = "filling"]
      BY <3>1, <1>a
    <3>3. job'[u].at = "filling" /\ job'[u].sprint = job[u].sprint
          /\ job'[u].lessons = job[u].lessons
      BY <3>2, <1>a
    <3>4. JobInOrder(job[u])'
      BY <2>1, <3>1, <3>3 DEF JobInOrder
    <3>5. \A v \in Users : v # u => job'[v] = job[v]
      BY <3>1, <1>a
    <3>6. FilesInOrder'
      <4> SUFFICES ASSUME NEW n \in Sprints
                   PROVE  /\ state'[n].content = "written" => state'[n].about = 1..(n - 1)
                          /\ retro[n].content = "written" => retro[n].about = 1..n
                          /\ n \in made /\ state'[n].content # "written" => n = job[u].sprint
        BY <3>1, <3>3 DEF FilesInOrder
      <4>1. CASE n = job[u].sprint
        BY <4>1, <3>1, <1>b, <1>d DEF FilesInOrder, File
      <4>2. CASE n # job[u].sprint
        BY <4>2, <2>3, <3>1, <1>b, <1>d DEF FilesInOrder
      <4> QED BY <4>1, <4>2
    <3> QED BY <2>2, <3>4, <3>5, <3>6, OnlyOneMoves
  <2>5. CASE job[u].at = "filling"
    <3>1. /\ state' = [state EXCEPT ![job[u].sprint] = File("written", job[u].lessons)]
          /\ job' = [job EXCEPT ![u] = NoJob]
          /\ UNCHANGED <<made, retro>>
      BY <1>5, <2>5 DEF SaveState
    <3>2. job'[u] = NoJob
      BY <3>1, <1>a
    <3>3. JobInOrder(job[u])'
      BY <3>2 DEF JobInOrder, NoJob, Job
    <3>4. \A v \in Users : v # u => job'[v] = job[v]
      BY <3>1, <1>a
    <3>5. FilesInOrder'
      <4> SUFFICES ASSUME NEW n \in Sprints
                   PROVE  /\ state'[n].content = "written" => state'[n].about = 1..(n - 1)
                          /\ retro[n].content = "written" => retro[n].about = 1..n
                          /\ n \in made => state'[n].content = "written"
        BY <3>1 DEF FilesInOrder
      <4>1. CASE n = job[u].sprint
        BY <4>1, <2>1, <3>1, <1>b, <1>d DEF FilesInOrder, File
      <4>2. CASE n # job[u].sprint
        BY <4>2, <2>3, <3>1, <1>b, <1>d DEF FilesInOrder
      <4> QED BY <4>1, <4>2
    <3> QED BY <2>2, <3>3, <3>4, <3>5, OnlyOneMoves
  <2> QED BY <2>1, <2>4, <2>5
<1>6. ASSUME NEW n \in Sprints, Retrospective(u, n)
      PROVE  OneAtATime' /\ FilesInOrder' /\ \A v \in Users : JobInOrder(job[v])'
  <2>1. /\ job' = [job EXCEPT ![u] = Job("reporting", n, state[n].about \cup {n}, {})]
        /\ n \in made /\ Quiet /\ UNCHANGED <<made, state, retro>>
    BY <1>6 DEF Retrospective, dirVars
  <2>2. \A v \in Users : job[v].at \notin {"saving", "filling"}
    BY <2>1 DEF Quiet
  <2>3. state[n].about = 1..(n - 1)
    BY <2>1, <2>2, <1>d DEF FilesInOrder
  <2>4. state[n].about \cup {n} = 1..n
    BY <2>3 DEF Sprints
  <2>5. job'[u] = Job("reporting", n, 1..n, {})
    BY <2>1, <2>4, <1>a
  <2>a. job'[u].at = "reporting" /\ job'[u].sprint = n /\ job'[u].lessons = 1..n
    BY <2>5 DEF Job
  <2>6. JobInOrder(job[u])'
    BY <2>1, <2>a DEF JobInOrder
  <2>7. \A v \in Users : v # u => AtRest(job[v]) /\ job'[v] = job[v]
    BY <2>1, <1>a DEF Quiet, AtRest
  <2>8. FilesInOrder'
    BY <2>1, <2>2, <1>d DEF FilesInOrder
  <2> QED BY <2>6, <2>7, <2>8, OnlyOneMoves
<1>7. CASE SaveRetro(u)
  <2>1. /\ job[u].at \in {"reporting", "closing"} /\ job[u].sprint \in made
        /\ job[u].lessons = 1..job[u].sprint
    BY <1>7, <1>d DEF SaveRetro, JobInOrder
  <2>2. \A v \in Users : v # u => AtRest(job[v])
    BY <2>1, <1>e DEF AtRest
  <2>3. \A n \in made : state[n].content = "written"
    <3> SUFFICES ASSUME NEW n \in made, state[n].content # "written" PROVE FALSE
      OBVIOUS
    <3>1. n \in Sprints
      BY <1>n DEF NumbersInv, SprintTypeOK
    <3>2. PICK v \in Users : job[v].at \in {"saving", "filling"}
      BY <3>1, <1>d DEF FilesInOrder
    <3> QED BY <3>2, <2>1, <2>2 DEF AtRest
  <2>4. /\ \/ /\ job' = [job EXCEPT ![u] = [job[u] EXCEPT !.at = "closing"]]
              /\ retro' = [retro EXCEPT ![job[u].sprint] = File("torn", {})]
           \/ /\ job' = [job EXCEPT ![u] = NoJob]
              /\ retro' = [retro EXCEPT ![job[u].sprint] = File("written", job[u].lessons)]
        /\ UNCHANGED <<made, state>>
    BY <1>7 DEF SaveRetro
  <2>5. \/ job'[u] = [job[u] EXCEPT !.at = "closing"]
        \/ job'[u] = NoJob
    BY <2>4, <1>a
  <2>6. JobInOrder(job[u])'
    <3>1. CASE job'[u] = NoJob
      BY <3>1 DEF JobInOrder, NoJob, Job
    <3>2. CASE job'[u] = [job[u] EXCEPT !.at = "closing"]
      <4>1. job'[u].at = "closing" /\ job'[u].sprint = job[u].sprint
            /\ job'[u].lessons = job[u].lessons
        BY <3>2, <1>a
      <4> QED BY <4>1, <2>1, <2>4 DEF JobInOrder
    <3> QED BY <2>5, <3>1, <3>2
  <2>7. \A v \in Users : v # u => job'[v] = job[v]
    BY <2>4, <1>a
  <2>8. FilesInOrder'
    <3> SUFFICES ASSUME NEW n \in Sprints
                 PROVE  /\ state[n].content = "written" => state[n].about = 1..(n - 1)
                        /\ retro'[n].content = "written" => retro'[n].about = 1..n
      BY <2>3, <2>4 DEF FilesInOrder
    <3>1. CASE n = job[u].sprint
      BY <3>1, <2>1, <2>4, <1>b, <1>d DEF FilesInOrder, File
    <3>2. CASE n # job[u].sprint
      BY <3>2, <2>4, <1>b, <1>d DEF FilesInOrder
    <3> QED BY <3>1, <3>2
  <2> QED BY <2>2, <2>6, <2>7, <2>8, OnlyOneMoves
<1>8. CASE Die(u)
  BY <1>8 DEF Die
<1> QED BY <1>1, <1>2, <1>3, <1>4, <1>5, <1>6, <1>7, <1>8 DEF SprintCommand

(* Sprints follow each other: their numbers, whatever overlaps or dies, and,
   while nothing does and each is closed before the next, their lessons
   (sprint_flow.py:46-57, 90-103, 293-300).                                *)
THEOREM SprintsAreInOrder == SprintSpec => []SprintsFollow
<1>1. SprintInit => LessonsInv
  <2> SUFFICES ASSUME SprintInit PROVE LessonsInv
    OBVIOUS
  <2>1. NumbersInv
    BY FirstNumbers
  <2>2. OneAtATime /\ FilesInOrder /\ \A u \in Users : JobInOrder(job[u])
    BY DEF SprintInit, OneAtATime, AtRest, FilesInOrder, JobInOrder, NoJob, Job, NoFile, File
  <2> QED BY <2>1, <2>2 DEF LessonsInv
<1>2. LessonsInv => LessonsHandedDown
  BY DEF LessonsInv, FilesInOrder, LessonsHandedDown
<1>3. SprintSpec => []LessonsInv
  BY <1>1, LessonsStep, PTL DEF SprintSpec
<1>4. SprintSpec => []LessonsHandedDown
  BY <1>2, <1>3, PTL
<1>5. FreshSprints /\ LessonsHandedDown => SprintsFollow
  BY DEF SprintsFollow
<1> QED BY <1>4, <1>5, SprintsAreFresh, PTL
-----------------------------------------------------------------------------
(***************************************************************************)
(* The MCP session.  Only one request is under way, so the pipes hold at   *)
(* most that request and its answer: this is what makes the next line of   *)
(* stdout the right one.                                                   *)
(***************************************************************************)
NoLinesLeft == stdin = <<>> /\ stdout = <<>> /\ tool = 0
Pending == Line(asked[Current], Current)
Initialize == Line("initialize", 0)
Initialized == Line("notifications/initialized", 0)

(* Between two requests nothing is under way.                              *)
Resting == Idle => stdin = <<>> /\ tool = 0 /\ (process # "none" => stdout = <<>>)

(* The handshake is on its way, answered or lost; the request is not sent. *)
Greeting ==
  awaited = "handshake" =>
    /\ Current > 0 /\ process # "none" /\ tool = 0 /\ ran[Current] = 0
    /\ \/ stdin = <<Initialize>> /\ stdout = <<>> /\ process = "alive"
       \/ stdin = <<>> /\ stdout = <<>> /\ process = "dead"
       \/ stdin = <<>> /\ stdout = <<[is |-> "answer", to |-> 0]>>

(* The request is sent, being handled, answered or lost.                   *)
Sent == /\ process = "alive"
        /\ stdin = <<Initialized, Pending>> \/ stdin = <<Pending>>
        /\ stdout = <<>> /\ tool = 0 /\ ran[Current] = 0
BeingHandled == /\ process = "alive" /\ stdin = <<>> /\ stdout = <<>> /\ tool = Current
                /\ ran[Current] = 1 /\ asked[Current] = "tools/call"
Answered == /\ stdin = <<>> /\ tool = 0
            /\ \E is \in {"answer", "refusal"} :
                 /\ stdout = <<[is |-> is, to |-> Current]>>
                 /\ is = "answer" /\ asked[Current] = "tools/call" => ran[Current] = 1
NotAnswered == NoLinesLeft /\ process = "dead"
Asking ==
  awaited = "answer" =>
    /\ Current > 0 /\ process # "none"
    /\ Sent \/ BeingHandled \/ Answered \/ NotAnswered

(* A tool runs for a call only, and once.                                  *)
RunsForCalls ==
  \A n \in 1..MaxRequests :
    /\ ran[n] <= 1
    /\ ran[n] = 1 => n <= Current /\ asked[n] = "tools/call"

McpInv == /\ McpTypeOK /\ Resting /\ Greeting /\ Asking /\ RunsForCalls /\ OwnAnswers

LEMMA ShortSequences ==
  ASSUME NEW x, NEW y
  PROVE  /\ <<x>> # <<>> /\ Head(<<x>>) = x /\ Tail(<<x>>) = <<>>
         /\ <<x, y>> # <<>> /\ Head(<<x, y>>) = x /\ Tail(<<x, y>>) = <<y>>
         /\ Append(<<>>, x) = <<x>> /\ <<>> \o <<x, y>> = <<x, y>>
OBVIOUS

(* What the server reads, and what a client waiting for its answer reads.  *)
LEMMA WhatTheServerReads ==
  ASSUME McpInv, stdin # <<>>
  PROVE  /\ Current \in 1..MaxRequests /\ asked[Current] \in {"tools/call", "tools/list"}
         /\ stdout = <<>> /\ tool = 0 /\ ran[Current] = 0
         /\ \/ /\ awaited = "handshake" /\ Head(stdin) = Initialize /\ Tail(stdin) = <<>>
            \/ /\ awaited = "answer" /\ Head(stdin) = Initialized /\ Tail(stdin) = <<Pending>>
            \/ /\ awaited = "answer" /\ Head(stdin) = Pending /\ Tail(stdin) = <<>>
<1>1. awaited \in {"handshake", "answer"}
  BY DEF McpInv, McpTypeOK, Resting, Idle
<1>2. Current \in 1..MaxRequests
  BY <1>1 DEF McpInv, McpTypeOK, Greeting, Asking, Current
<1>3. asked[Current] \in {"tools/call", "tools/list"}
  BY <1>2 DEF McpInv, McpTypeOK, Current
<1>4. CASE awaited = "handshake"
  BY <1>2, <1>3, <1>4, ShortSequences DEF McpInv, Greeting
<1>5. CASE awaited = "answer"
  <2>1. Sent
    BY <1>5 DEF McpInv, Asking, BeingHandled, Answered, NotAnswered, NoLinesLeft
  <2>2. CASE stdin = <<Initialized, Pending>>
    BY <1>2, <1>3, <1>5, <2>1, <2>2, ShortSequences DEF Sent
  <2>3. CASE stdin = <<Pending>>
    BY <1>2, <1>3, <1>5, <2>1, <2>3, ShortSequences DEF Sent
  <2> QED BY <2>1, <2>2, <2>3 DEF Sent
<1> QED BY <1>1, <1>4, <1>5

LEMMA WhatTheClientReads ==
  ASSUME McpInv, awaited = "answer"
  PROVE  /\ Current \in 1..MaxRequests /\ asked[Current] \in {"tools/call", "tools/list"}
         /\ Len(outcomes) = Current - 1
         /\ stdout # <<>> =>
              /\ stdin = <<>> /\ tool = 0 /\ Tail(stdout) = <<>>
              /\ Head(stdout) = [is |-> Head(stdout).is, to |-> Current]
              /\ Head(stdout).is \in {"answer", "refusal"}
              /\ Head(stdout).is = "answer" /\ asked[Current] = "tools/call" => ran[Current] = 1
<1>1. Current \in 1..MaxRequests
  BY DEF McpInv, McpTypeOK, Asking, Current
<1>2. asked[Current] \in {"tools/call", "tools/list"} /\ Len(outcomes) = Current - 1
  BY <1>1 DEF McpInv, McpTypeOK, Current, Idle
<1>3. ASSUME stdout # <<>> PROVE Answered
  BY <1>3 DEF McpInv, Asking, Sent, BeingHandled, NotAnswered, NoLinesLeft
<1>4. ASSUME stdout # <<>>
      PROVE  /\ stdin = <<>> /\ tool = 0 /\ Tail(stdout) = <<>>
             /\ Head(stdout) = [is |-> Head(stdout).is, to |-> Current]
             /\ Head(stdout).is \in {"answer", "refusal"}
             /\ Head(stdout).is = "answer" /\ asked[Current] = "tools/call" => ran[Current] = 1
  <2>1. PICK is \in {"answer", "refusal"} :
               /\ stdout = <<[is |-> is, to |-> Current]>>
               /\ is = "answer" /\ asked[Current] = "tools/call" => ran[Current] = 1
    BY <1>3, <1>4 DEF Answered
  <2>2. Head(stdout) = [is |-> is, to |-> Current] /\ Tail(stdout) = <<>>
    BY <2>1, ShortSequences
  <2>3. stdin = <<>> /\ tool = 0
    BY <1>3, <1>4 DEF Answered
  <2> QED BY <2>1, <2>2, <2>3
<1> QED BY <1>1, <1>2, <1>4

(* One more outcome.                                                       *)
LEMMA OneMoreOutcome ==
  ASSUME McpTypeOK, NEW is, NEW n, Return(is, n), n = Len(outcomes) + 1
  PROVE  /\ DOMAIN outcomes' = 1..n
         /\ outcomes'[n] = [is |-> is, to |-> n]
         /\ \A m \in DOMAIN outcomes : outcomes'[m] = outcomes[m] /\ m \in 1..(n - 1)
         /\ \A m \in 1..n : m # n => m \in DOMAIN outcomes
<1> DEFINE O == [is : {"answer", "refusal", "failure", "mock"}, to : 0..MaxRequests]
<1>1. outcomes \in Seq(O) /\ Len(outcomes) \in Nat /\ DOMAIN outcomes = 1..Len(outcomes)
  BY DEF McpTypeOK
<1>2. outcomes' = Append(outcomes, [is |-> is, to |-> n])
  BY DEF Return
<1>3. \A s, e : s \in Seq(O) =>
        /\ DOMAIN Append(s, e) = 1..(Len(s) + 1) /\ Append(s, e)[Len(s) + 1] = e
        /\ \A m \in 1..Len(s) : Append(s, e)[m] = s[m]
  <2> HIDE DEF O
  <2> QED OBVIOUS
<1> HIDE DEF O
<1> QED BY <1>1, <1>2, <1>3

LEMMA RequestMockedStep ==
  ASSUME McpInv, NEW method \in {"tools/call", "tools/list"}, RequestMocked(method)
  PROVE  McpInv'
<1> USE McpAssumption
<1>1. McpTypeOK'
  <2>1. Current + 1 \in 1..MaxRequests /\ Len(outcomes) = Current
    BY DEF McpInv, McpTypeOK, RequestMocked, Current, Idle
  <2>2. /\ outcomes' \in Seq([is : {"answer", "refusal", "failure", "mock"}, to : 0..MaxRequests])
        /\ Len(outcomes') = Current + 1
    BY <2>1 DEF McpInv, McpTypeOK, RequestMocked, Return
  <2>3. asked' \in Seq({"tools/call", "tools/list"}) /\ Len(asked') = Current + 1
    BY <2>1 DEF McpInv, McpTypeOK, RequestMocked, Current
  <2> QED BY <2>1, <2>2, <2>3 DEF McpInv, McpTypeOK, RequestMocked, Current, Idle, pipes
<1>2. Resting'
  BY DEF McpInv, RequestMocked, Resting, pipes
<1>3. Greeting'
  BY DEF McpInv, RequestMocked, Idle, Greeting
<1>4. Asking'
  BY DEF McpInv, RequestMocked, Idle, Asking
<1>5. RunsForCalls'
  BY DEF McpInv, RequestMocked, Current, RunsForCalls
<1>6. OwnAnswers'
  BY SMTT(30) DEF McpInv, McpTypeOK, RequestMocked, Idle, Current, Return, pipes, RunsForCalls, OwnAnswers
<1> QED BY <1>1, <1>2, <1>3, <1>4, <1>5, <1>6 DEF McpInv

LEMMA RequestSpawnsStep ==
  ASSUME McpInv, NEW method \in {"tools/call", "tools/list"}, RequestSpawns(method)
  PROVE  McpInv'
<1> USE McpAssumption
<1>1. McpTypeOK'
  BY DEF McpInv, McpTypeOK, RequestSpawns, Idle, Current, Line
<1>2. Resting'
  BY DEF McpInv, RequestSpawns, Idle, Resting
<1>3. Greeting'
  BY DEF McpInv, McpTypeOK, RequestSpawns, Idle, Current, Greeting, Initialize, RunsForCalls
<1>4. Asking'
  BY DEF McpInv, McpTypeOK, RequestSpawns, Current, Asking, Sent, Pending, RunsForCalls
<1>5. RunsForCalls'
  BY DEF McpInv, RequestSpawns, Current, RunsForCalls
<1>6. OwnAnswers'
  BY DEF McpInv, McpTypeOK, RequestSpawns, Current, OwnAnswers
<1> QED BY <1>1, <1>2, <1>3, <1>4, <1>5, <1>6 DEF McpInv

LEMMA RequestStep ==
  ASSUME McpInv, NEW method \in {"tools/call", "tools/list"}, Request(method)
  PROVE  McpInv'
<1> USE McpAssumption
<1>1. McpTypeOK'
  BY DEF McpInv, McpTypeOK, Request, Idle, Current, Line
<1>2. Resting'
  BY DEF McpInv, Request, Idle, Resting
<1>3. Greeting'
  BY DEF McpInv, Request, Greeting
<1>4. Asking'
  BY DEF McpInv, McpTypeOK, Request, Current, Resting, Asking, Sent, Pending, RunsForCalls
<1>5. RunsForCalls'
  BY DEF McpInv, Request, Current, RunsForCalls
<1>6. OwnAnswers'
  BY SMTT(30) DEF McpInv, McpTypeOK, Request, Current, OwnAnswers
<1> QED BY <1>1, <1>2, <1>3, <1>4, <1>5, <1>6 DEF McpInv

LEMMA HandshakeDoneStep ==
  ASSUME McpInv, HandshakeDone
  PROVE  McpInv'
<1> USE McpAssumption
<1>1. McpTypeOK'
  BY SMTT(30) DEF McpInv, McpTypeOK, HandshakeDone, Idle, Current, Line, Asking, BeingHandled
<1>2. Resting'
  BY DEF McpInv, HandshakeDone, Idle, Resting
<1>3. Greeting'
  BY DEF McpInv, HandshakeDone, Greeting
<1>4. Asking'
  <2>1. /\ Current > 0 /\ process = "alive" /\ tool = 0 /\ ran[Current] = 0 /\ stdin = <<>>
        /\ Tail(stdout) = <<>>
    BY ShortSequences DEF McpInv, Greeting, HandshakeDone
  <2>2. Current' = Current /\ Pending' = Pending /\ Initialized' = Initialized
    BY DEF HandshakeDone, Current, Pending, Initialized, Line
  <2>3. stdin' = <<Initialized, Pending>> /\ stdout' = <<>>
    BY <2>1, ShortSequences DEF HandshakeDone, Initialized, Pending
  <2>4. Sent'
    BY <2>1, <2>2, <2>3 DEF Sent, HandshakeDone
  <2> QED BY <2>1, <2>2, <2>4 DEF Asking, HandshakeDone
<1>5. RunsForCalls'
  BY DEF McpInv, HandshakeDone, Current, RunsForCalls
<1>6. OwnAnswers'
  BY DEF McpInv, HandshakeDone, OwnAnswers
<1> QED BY <1>1, <1>2, <1>3, <1>4, <1>5, <1>6 DEF McpInv

LEMMA HandshakeFailedStep ==
  ASSUME McpInv, HandshakeFailed
  PROVE  McpInv'
<1> USE McpAssumption
<1>1. McpTypeOK'
  <2>1. Current \in 1..MaxRequests /\ Len(outcomes) = Current - 1 /\ ran[Current] = 0
    BY DEF McpInv, McpTypeOK, HandshakeFailed, Greeting, Current, Idle
  <2>8. /\ outcomes' \in Seq([is : {"answer", "refusal", "failure", "mock"}, to : 0..MaxRequests])
        /\ Len(outcomes') = Current
    BY <2>1 DEF McpInv, McpTypeOK, HandshakeFailed, Return
  <2> QED BY <2>1, <2>8 DEF McpInv, McpTypeOK, HandshakeFailed, Current, Idle, pipes
<1>2. Resting'
  <2>1. stdin = <<>> /\ tool = 0
    BY ShortSequences DEF McpInv, Greeting, HandshakeFailed, McpTypeOK
  <2> QED BY <2>1 DEF Resting, Idle, HandshakeFailed, pipes
<1>3. Greeting'
  BY DEF McpInv, HandshakeFailed, Greeting
<1>4. Asking'
  BY DEF McpInv, HandshakeFailed, Asking
<1>5. RunsForCalls'
  BY DEF McpInv, HandshakeFailed, Current, RunsForCalls
<1>6. OwnAnswers'
  <2>1. Current \in 1..MaxRequests /\ Len(outcomes) = Current - 1 /\ ran[Current] = 0
    BY DEF McpInv, McpTypeOK, HandshakeFailed, Greeting, Current, Idle
  <2>5. McpTypeOK /\ Return("mock", Current) /\ Current = Len(outcomes) + 1
    BY <2>1 DEF McpInv, HandshakeFailed, McpTypeOK
  <2>6. /\ DOMAIN outcomes' = 1..Current /\ outcomes'[Current] = [is |-> "mock", to |-> Current]
        /\ \A m \in DOMAIN outcomes : outcomes'[m] = outcomes[m]
        /\ \A m \in 1..Current : m # Current => m \in DOMAIN outcomes
    BY <2>5, OneMoreOutcome
  <2>7. ran' = ran /\ asked' = asked
    BY DEF HandshakeFailed
  <2>8. ran[Current] <= 1
    BY <2>1 DEF McpInv, RunsForCalls
  <2> QED BY <2>1, <2>6, <2>7, <2>8 DEF McpInv, OwnAnswers
<1> QED BY <1>1, <1>2, <1>3, <1>4, <1>5, <1>6 DEF McpInv

LEMMA AnswerReadStep ==
  ASSUME McpInv, AnswerRead
  PROVE  McpInv'
<1> USE McpAssumption
<1>1. McpTypeOK'
  <2>1. Current \in 1..MaxRequests /\ Len(outcomes) = Current - 1 /\ asked[Current] \in {"tools/call", "tools/list"}
    BY WhatTheClientReads DEF AnswerRead
  <2>2. /\ Tail(stdout) = <<>> /\ Head(stdout) = [is |-> Head(stdout).is, to |-> Current]
        /\ Head(stdout).is \in {"answer", "refusal"}
    BY WhatTheClientReads DEF AnswerRead
  <2>8. /\ outcomes' \in Seq([is : {"answer", "refusal", "failure", "mock"}, to : 0..MaxRequests])
        /\ Len(outcomes') = Current
    BY <2>1, <2>2 DEF McpInv, McpTypeOK, AnswerRead, Return
  <2> QED BY SMTT(30), <2>1, <2>2, <2>8 DEF McpInv, McpTypeOK, AnswerRead, Current, Idle, pipes
<1>2. Resting'
  BY DEF McpInv, AnswerRead, Resting, Asking, Sent, BeingHandled, Answered, NotAnswered, NoLinesLeft
<1>3. Greeting'
  BY DEF McpInv, AnswerRead, Greeting
<1>4. Asking'
  BY DEF McpInv, AnswerRead, Asking
<1>5. RunsForCalls'
  BY DEF McpInv, AnswerRead, Current, RunsForCalls
<1>6. OwnAnswers'
  <2>1. Current \in 1..MaxRequests /\ Len(outcomes) = Current - 1 /\ asked[Current] \in {"tools/call", "tools/list"}
    BY WhatTheClientReads DEF AnswerRead
  <2>2. /\ Head(stdout) = [is |-> Head(stdout).is, to |-> Current]
        /\ Head(stdout).is \in {"answer", "refusal"}
        /\ Head(stdout).is = "answer" /\ asked[Current] = "tools/call" => ran[Current] = 1
    BY WhatTheClientReads DEF AnswerRead
  <2>5. McpTypeOK /\ Return(Head(stdout).is, Current) /\ Current = Len(outcomes) + 1
    BY <2>1, <2>2 DEF McpInv, AnswerRead, McpTypeOK
  <2>6. /\ DOMAIN outcomes' = 1..Current /\ outcomes'[Current] = [is |-> Head(stdout).is, to |-> Current]
        /\ \A m \in DOMAIN outcomes : outcomes'[m] = outcomes[m]
        /\ \A m \in 1..Current : m # Current => m \in DOMAIN outcomes
    BY <2>5, OneMoreOutcome
  <2>7. ran' = ran /\ asked' = asked
    BY DEF AnswerRead
  <2>8. ran[Current] <= 1
    BY <2>1 DEF McpInv, RunsForCalls
  <2> QED BY <2>1, <2>2, <2>6, <2>7, <2>8 DEF McpInv, OwnAnswers
<1> QED BY <1>1, <1>2, <1>3, <1>4, <1>5, <1>6 DEF McpInv

LEMMA ServerGoneStep ==
  ASSUME McpInv, ServerGone
  PROVE  McpInv'
<1> USE McpAssumption
<1>1. McpTypeOK'
  <2>1. Current \in 1..MaxRequests /\ Len(outcomes) = Current - 1 /\ asked[Current] \in {"tools/call", "tools/list"}
    BY WhatTheClientReads DEF ServerGone
  <2>8. /\ outcomes' \in Seq([is : {"answer", "refusal", "failure", "mock"}, to : 0..MaxRequests])
        /\ Len(outcomes') = Current
    BY <2>1 DEF McpInv, McpTypeOK, ServerGone, Return
  <2> QED BY <2>1, <2>8 DEF McpInv, McpTypeOK, ServerGone, Current, Idle, pipes
<1>2. Resting'
  <2>1. stdin = <<>> /\ tool = 0
    BY ShortSequences DEF McpInv, Asking, Sent, BeingHandled, Answered, NotAnswered, NoLinesLeft, ServerGone
  <2> QED BY <2>1 DEF Resting, Idle, ServerGone, pipes
<1>3. Greeting'
  BY DEF McpInv, ServerGone, Greeting
<1>4. Asking'
  BY DEF McpInv, ServerGone, Asking
<1>5. RunsForCalls'
  BY DEF McpInv, ServerGone, Current, RunsForCalls
<1>6. OwnAnswers'
  <2>1. Current \in 1..MaxRequests /\ Len(outcomes) = Current - 1 /\ asked[Current] \in {"tools/call", "tools/list"}
    BY WhatTheClientReads DEF ServerGone
  <2> DEFINE is == IF asked[Current] = "tools/call" THEN "failure" ELSE "mock"
  <2>2. is = "mock" => ran[Current] = 0
    BY <2>1 DEF McpInv, RunsForCalls, McpTypeOK
  <2>3. is # "answer"
    OBVIOUS
  <2>5. McpTypeOK /\ Return(is, Current) /\ Current = Len(outcomes) + 1
    BY <2>1 DEF McpInv, ServerGone, McpTypeOK
  <2>6. /\ DOMAIN outcomes' = 1..Current /\ outcomes'[Current] = [is |-> is, to |-> Current]
        /\ \A m \in DOMAIN outcomes : outcomes'[m] = outcomes[m]
        /\ \A m \in 1..Current : m # Current => m \in DOMAIN outcomes
    BY <2>5, OneMoreOutcome
  <2>7. ran' = ran /\ asked' = asked
    BY DEF ServerGone
  <2>8. ran[Current] <= 1
    BY <2>1 DEF McpInv, RunsForCalls
  <2> QED BY <2>1, <2>2, <2>3, <2>6, <2>7, <2>8 DEF McpInv, OwnAnswers
<1> QED BY <1>1, <1>2, <1>3, <1>4, <1>5, <1>6 DEF McpInv

LEMMA CloseStep ==
  ASSUME McpInv, Close
  PROVE  McpInv'
<1> USE McpAssumption
<1>1. McpTypeOK'
  BY DEF McpInv, McpTypeOK, Close, Idle, Current
<1>2. Resting'
  BY DEF McpInv, Close, Resting
<1>3. Greeting'
  BY DEF McpInv, Close, Idle, Greeting
<1>4. Asking'
  BY DEF McpInv, Close, Idle, Asking
<1>5. RunsForCalls'
  BY DEF McpInv, Close, Current, RunsForCalls
<1>6. OwnAnswers'
  BY DEF McpInv, Close, OwnAnswers
<1> QED BY <1>1, <1>2, <1>3, <1>4, <1>5, <1>6 DEF McpInv

LEMMA NotificationReadStep ==
  ASSUME McpInv, NotificationRead
  PROVE  McpInv'
<1> USE McpAssumption
<1>1. McpTypeOK'
  BY DEF McpInv, McpTypeOK, NotificationRead, Idle, Current, Reading
<1>2. Resting'
  BY DEF McpInv, NotificationRead, Idle, Resting
<1>3. Greeting'
  BY DEF McpInv, NotificationRead, Line, Reading, Greeting, Initialize
<1>4. Asking'
  <2>1. /\ Current \in 1..MaxRequests /\ asked[Current] \in {"tools/call", "tools/list"}
        /\ stdout = <<>> /\ tool = 0 /\ ran[Current] = 0 /\ process = "alive" /\ stdin # <<>>
    BY WhatTheServerReads DEF NotificationRead, Reading
  <2>2. Current' = Current /\ asked' = asked /\ Pending' = Pending /\ Initialized' = Initialized
    BY DEF NotificationRead, Current, Pending, Initialized, Line
  <2>3. awaited = "answer" => stdin' = <<Pending>>
    BY <2>1, WhatTheServerReads DEF NotificationRead, Line, Initialized, Initialize, Pending
  <2>4. awaited = "answer" => Sent'
    BY <2>1, <2>2, <2>3 DEF Sent, NotificationRead
  <2> QED BY <2>1, <2>2, <2>4 DEF Asking, NotificationRead
<1>5. RunsForCalls'
  BY DEF McpInv, NotificationRead, Current, RunsForCalls
<1>6. OwnAnswers'
  BY DEF McpInv, NotificationRead, OwnAnswers
<1> QED BY <1>1, <1>2, <1>3, <1>4, <1>5, <1>6 DEF McpInv

LEMMA AnsweredAtOnceStep ==
  ASSUME McpInv, AnsweredAtOnce
  PROVE  McpInv'
<1> USE McpAssumption
<1>1. McpTypeOK'
  <2>1. /\ Current \in 1..MaxRequests /\ asked[Current] \in {"tools/call", "tools/list"}
        /\ stdout = <<>> /\ tool = 0 /\ ran[Current] = 0 /\ process = "alive" /\ stdin # <<>>
    BY WhatTheServerReads DEF AnsweredAtOnce, Reading
  <2>2. Current' = Current /\ asked' = asked /\ Pending' = Pending /\ Initialized' = Initialized
    BY DEF AnsweredAtOnce, Current, Pending, Initialized, Line
  <2>3. \E is \in {"answer", "refusal"}, n \in {0, Current} :
           /\ stdout' = <<[is |-> is, to |-> n]>>
           /\ awaited = "handshake" => is = "answer" /\ n = 0
           /\ awaited = "answer" => n = Current /\ (is = "answer" => asked[Current] # "tools/call")
    BY <2>1, WhatTheServerReads, ShortSequences
       DEF AnsweredAtOnce, Answer, Line, Initialized, Initialize, Pending
  <2>4. stdin' = <<>> /\ awaited \in {"handshake", "answer"}
    BY <2>1, WhatTheServerReads DEF AnsweredAtOnce, Line, Initialized, Initialize, Pending
  <2>5. stdout' \in Seq([is : {"answer", "refusal"}, to : 0..MaxRequests])
    BY <2>1, <2>3
  <2>6. UNCHANGED <<shakes, guarded, process, awaited, asked, outcomes, stderr, tool, ran>>
    BY DEF AnsweredAtOnce
  <2> QED BY <2>2, <2>4, <2>5, <2>6 DEF McpInv, McpTypeOK, Current, Idle
<1>2. Resting'
  BY DEF McpInv, AnsweredAtOnce, Idle, Reading, Resting
<1>3. Greeting'
  <2>1. /\ Current \in 1..MaxRequests /\ asked[Current] \in {"tools/call", "tools/list"}
        /\ stdout = <<>> /\ tool = 0 /\ ran[Current] = 0 /\ process = "alive" /\ stdin # <<>>
    BY WhatTheServerReads DEF AnsweredAtOnce, Reading
  <2>2. Current' = Current /\ asked' = asked /\ Pending' = Pending /\ Initialized' = Initialized
    BY DEF AnsweredAtOnce, Current, Pending, Initialized, Line
  <2>3. \E is \in {"answer", "refusal"}, n \in {0, Current} :
           /\ stdout' = <<[is |-> is, to |-> n]>>
           /\ awaited = "handshake" => is = "answer" /\ n = 0
           /\ awaited = "answer" => n = Current /\ (is = "answer" => asked[Current] # "tools/call")
    BY <2>1, WhatTheServerReads, ShortSequences
       DEF AnsweredAtOnce, Answer, Line, Initialized, Initialize, Pending
  <2>4. stdin' = <<>> /\ awaited \in {"handshake", "answer"}
    BY <2>1, WhatTheServerReads DEF AnsweredAtOnce, Line, Initialized, Initialize, Pending
  <2> QED BY <2>1, <2>2, <2>3, <2>4 DEF Greeting, AnsweredAtOnce
<1>4. Asking'
  <2>1. /\ Current \in 1..MaxRequests /\ asked[Current] \in {"tools/call", "tools/list"}
        /\ stdout = <<>> /\ tool = 0 /\ ran[Current] = 0 /\ process = "alive" /\ stdin # <<>>
    BY WhatTheServerReads DEF AnsweredAtOnce, Reading
  <2>2. Current' = Current /\ asked' = asked /\ Pending' = Pending /\ Initialized' = Initialized
    BY DEF AnsweredAtOnce, Current, Pending, Initialized, Line
  <2>3. \E is \in {"answer", "refusal"}, n \in {0, Current} :
           /\ stdout' = <<[is |-> is, to |-> n]>>
           /\ awaited = "handshake" => is = "answer" /\ n = 0
           /\ awaited = "answer" => n = Current /\ (is = "answer" => asked[Current] # "tools/call")
    BY <2>1, WhatTheServerReads, ShortSequences
       DEF AnsweredAtOnce, Answer, Line, Initialized, Initialize, Pending
  <2>4. stdin' = <<>> /\ awaited \in {"handshake", "answer"}
    BY <2>1, WhatTheServerReads DEF AnsweredAtOnce, Line, Initialized, Initialize, Pending
  <2>5. awaited = "answer" => Answered'
    BY <2>1, <2>2, <2>3, <2>4 DEF Answered, AnsweredAtOnce
  <2> QED BY <2>1, <2>2, <2>5 DEF Asking, AnsweredAtOnce
<1>5. RunsForCalls'
  BY DEF McpInv, AnsweredAtOnce, Current, RunsForCalls
<1>6. OwnAnswers'
  BY DEF McpInv, AnsweredAtOnce, OwnAnswers
<1> QED BY <1>1, <1>2, <1>3, <1>4, <1>5, <1>6 DEF McpInv

LEMMA HandledStep ==
  ASSUME McpInv, Handled
  PROVE  McpInv'
<1> USE McpAssumption
<1>1. McpTypeOK'
  <2>1. /\ Current \in 1..MaxRequests /\ asked[Current] \in {"tools/call", "tools/list"}
        /\ stdout = <<>> /\ tool = 0 /\ ran[Current] = 0 /\ process = "alive" /\ stdin # <<>>
    BY WhatTheServerReads DEF Handled, Reading
  <2>2. Current' = Current /\ asked' = asked /\ Pending' = Pending /\ Initialized' = Initialized
    BY DEF Handled, Current, Pending, Initialized, Line
  <2>3. /\ Head(stdin) = Pending /\ asked[Current] = "tools/call" /\ awaited = "answer"
        /\ stdin' = <<>> /\ tool' = Current
    BY <2>1, WhatTheServerReads DEF Handled, Line, Initialized, Initialize, Pending
  <2>4. /\ ran' \in [1..MaxRequests -> Nat] /\ ran'[Current] = 1
        /\ \A n \in 1..MaxRequests : n # Current => ran'[n] = ran[n]
    BY SMTT(30), <2>1, <2>3 DEF McpInv, McpTypeOK, Handled
  <2> QED BY <2>1, <2>2, <2>3, <2>4 DEF McpInv, McpTypeOK, Handled, Current, Idle
<1>2. Resting'
  BY DEF McpInv, Handled, Idle, Reading, Resting
<1>3. Greeting'
  <2>1. /\ Current \in 1..MaxRequests /\ asked[Current] \in {"tools/call", "tools/list"}
        /\ stdout = <<>> /\ tool = 0 /\ ran[Current] = 0 /\ process = "alive" /\ stdin # <<>>
    BY WhatTheServerReads DEF Handled, Reading
  <2>2. Current' = Current /\ asked' = asked /\ Pending' = Pending /\ Initialized' = Initialized
    BY DEF Handled, Current, Pending, Initialized, Line
  <2>3. /\ Head(stdin) = Pending /\ asked[Current] = "tools/call" /\ awaited = "answer"
        /\ stdin' = <<>> /\ tool' = Current
    BY <2>1, WhatTheServerReads DEF Handled, Line, Initialized, Initialize, Pending
  <2>4. /\ ran' \in [1..MaxRequests -> Nat] /\ ran'[Current] = 1
        /\ \A n \in 1..MaxRequests : n # Current => ran'[n] = ran[n]
    BY SMTT(30), <2>1, <2>3 DEF McpInv, McpTypeOK, Handled
  <2> QED BY <2>3 DEF Greeting, Handled
<1>4. Asking'
  <2>1. /\ Current \in 1..MaxRequests /\ asked[Current] \in {"tools/call", "tools/list"}
        /\ stdout = <<>> /\ tool = 0 /\ ran[Current] = 0 /\ process = "alive" /\ stdin # <<>>
    BY WhatTheServerReads DEF Handled, Reading
  <2>2. Current' = Current /\ asked' = asked /\ Pending' = Pending /\ Initialized' = Initialized
    BY DEF Handled, Current, Pending, Initialized, Line
  <2>3. /\ Head(stdin) = Pending /\ asked[Current] = "tools/call" /\ awaited = "answer"
        /\ stdin' = <<>> /\ tool' = Current
    BY <2>1, WhatTheServerReads DEF Handled, Line, Initialized, Initialize, Pending
  <2>4. /\ ran' \in [1..MaxRequests -> Nat] /\ ran'[Current] = 1
        /\ \A n \in 1..MaxRequests : n # Current => ran'[n] = ran[n]
    BY SMTT(30), <2>1, <2>3 DEF McpInv, McpTypeOK, Handled
  <2>5. BeingHandled'
    BY <2>1, <2>2, <2>3, <2>4 DEF BeingHandled, Handled
  <2> QED BY <2>1, <2>2, <2>5 DEF Asking, Handled
<1>5. RunsForCalls'
  <2>1. /\ Current \in 1..MaxRequests /\ asked[Current] \in {"tools/call", "tools/list"}
        /\ stdout = <<>> /\ tool = 0 /\ ran[Current] = 0 /\ process = "alive" /\ stdin # <<>>
    BY WhatTheServerReads DEF Handled, Reading
  <2>2. Current' = Current /\ asked' = asked /\ Pending' = Pending /\ Initialized' = Initialized
    BY DEF Handled, Current, Pending, Initialized, Line
  <2>3. /\ Head(stdin) = Pending /\ asked[Current] = "tools/call" /\ awaited = "answer"
        /\ stdin' = <<>> /\ tool' = Current
    BY <2>1, WhatTheServerReads DEF Handled, Line, Initialized, Initialize, Pending
  <2>4. /\ ran' \in [1..MaxRequests -> Nat] /\ ran'[Current] = 1
        /\ \A n \in 1..MaxRequests : n # Current => ran'[n] = ran[n]
    BY SMTT(30), <2>1, <2>3 DEF McpInv, McpTypeOK, Handled
  <2> QED BY <2>1, <2>2, <2>3, <2>4 DEF McpInv, RunsForCalls
<1>6. OwnAnswers'
  <2>1. /\ Current \in 1..MaxRequests /\ asked[Current] \in {"tools/call", "tools/list"}
        /\ stdout = <<>> /\ tool = 0 /\ ran[Current] = 0 /\ process = "alive" /\ stdin # <<>>
    BY WhatTheServerReads DEF Handled, Reading
  <2>2. Current' = Current /\ asked' = asked /\ Pending' = Pending /\ Initialized' = Initialized
    BY DEF Handled, Current, Pending, Initialized, Line
  <2>3. /\ Head(stdin) = Pending /\ asked[Current] = "tools/call" /\ awaited = "answer"
        /\ stdin' = <<>> /\ tool' = Current
    BY <2>1, WhatTheServerReads DEF Handled, Line, Initialized, Initialize, Pending
  <2>4. /\ ran' \in [1..MaxRequests -> Nat] /\ ran'[Current] = 1
        /\ \A n \in 1..MaxRequests : n # Current => ran'[n] = ran[n]
    BY SMTT(30), <2>1, <2>3 DEF McpInv, McpTypeOK, Handled
  <2>5. Current \notin DOMAIN outcomes /\ DOMAIN outcomes \subseteq 1..MaxRequests
    BY <2>1, <2>3 DEF McpInv, McpTypeOK, Idle, Current
  <2>6. outcomes' = outcomes
    BY DEF Handled
  <2> QED BY <2>2, <2>4, <2>5, <2>6 DEF McpInv, OwnAnswers
<1> QED BY <1>1, <1>2, <1>3, <1>4, <1>5, <1>6 DEF McpInv

LEMMA LoggedAndAnsweredStep ==
  ASSUME McpInv, LoggedAndAnswered
  PROVE  McpInv'
<1> USE McpAssumption
<1>1. McpTypeOK'
  BY DEF McpInv, McpTypeOK, LoggedAndAnswered, Idle, Current, Answer
<1>2. Resting'
  BY DEF McpInv, LoggedAndAnswered, Idle, Resting
<1>3. Greeting'
  BY DEF McpInv, LoggedAndAnswered, Greeting
<1>4. Asking'
  BY ShortSequences DEF McpInv, LoggedAndAnswered, Current, Answer, Asking, Sent, BeingHandled, Answered, NotAnswered
<1>5. RunsForCalls'
  BY DEF McpInv, LoggedAndAnswered, Current, RunsForCalls
<1>6. OwnAnswers'
  BY DEF McpInv, LoggedAndAnswered, OwnAnswers
<1> QED BY <1>1, <1>2, <1>3, <1>4, <1>5, <1>6 DEF McpInv

LEMMA ServerDiesStep ==
  ASSUME McpInv, ServerDies
  PROVE  McpInv'
<1> USE McpAssumption
<1>1. McpTypeOK'
  BY DEF McpInv, McpTypeOK, ServerDies, Idle, Current
<1>2. Resting'
  BY DEF McpInv, ServerDies, Idle, Resting
<1>3. Greeting'
  BY DEF McpInv, ServerDies, Current, Greeting
<1>4. Asking'
  BY DEF McpInv, ServerDies, Current, Asking, Sent, BeingHandled, Answered, NotAnswered, NoLinesLeft
<1>5. RunsForCalls'
  BY DEF McpInv, ServerDies, Current, RunsForCalls
<1>6. OwnAnswers'
  BY DEF McpInv, ServerDies, OwnAnswers
<1> QED BY <1>1, <1>2, <1>3, <1>4, <1>5, <1>6 DEF McpInv

LEMMA McpInvInit == McpInit => McpInv
BY McpAssumption DEF McpInit, McpInv, McpTypeOK, Resting, Greeting, Asking, RunsForCalls,
                     OwnAnswers, Idle, Current

LEMMA McpInvStep == McpInv /\ [McpNext]_mcpVars => McpInv'
<1> SUFFICES ASSUME McpInv, McpNext \/ UNCHANGED mcpVars PROVE McpInv'
  OBVIOUS
<1>1. ASSUME NEW method \in {"tools/call", "tools/list"}, RequestMocked(method) PROVE McpInv'
  BY <1>1, RequestMockedStep
<1>2. ASSUME NEW method \in {"tools/call", "tools/list"}, RequestSpawns(method) PROVE McpInv'
  BY <1>2, RequestSpawnsStep
<1>3. ASSUME NEW method \in {"tools/call", "tools/list"}, Request(method) PROVE McpInv'
  BY <1>3, RequestStep
<1>4. CASE HandshakeDone
  BY <1>4, HandshakeDoneStep
<1>5. CASE HandshakeFailed
  BY <1>5, HandshakeFailedStep
<1>6. CASE AnswerRead
  BY <1>6, AnswerReadStep
<1>7. CASE ServerGone
  BY <1>7, ServerGoneStep
<1>8. CASE Close
  BY <1>8, CloseStep
<1>9. CASE NotificationRead
  BY <1>9, NotificationReadStep
<1>10. CASE AnsweredAtOnce
  BY <1>10, AnsweredAtOnceStep
<1>11. CASE Handled
  BY <1>11, HandledStep
<1>12. CASE LoggedAndAnswered
  BY <1>12, LoggedAndAnsweredStep
<1>13. CASE ServerDies
  BY <1>13, ServerDiesStep
<1>14. CASE UNCHANGED mcpVars
  BY <1>14 DEF mcpVars, pipes, McpInv, McpTypeOK, Resting, Greeting, Asking, RunsForCalls,
     OwnAnswers, Idle, Current, Sent, BeingHandled, Answered, NotAnswered, NoLinesLeft,
     Pending, Initialize, Initialized, Line
<1> QED BY <1>1, <1>2, <1>3, <1>4, <1>5, <1>6, <1>7, <1>8, <1>9, <1>10, <1>11, <1>12, <1>13, <1>14 DEF McpNext

LEMMA McpSafety == McpSpec => []McpInv
  BY McpInvInit, McpInvStep, PTL DEF McpSpec

(* What a client makes of a request is the answer to that very request, for
   any number of requests, server crashes and restarts: no stale line is
   ever taken for an answer, and no tool runs behind a mock's back.        *)
THEOREM AnswersAreOnesOwn == McpSpec => []OwnAnswers
<1>1. McpInv => OwnAnswers
  BY DEF McpInv
<1> QED BY <1>1, McpSafety, PTL

-----------------------------------------------------------------------------
(***************************************************************************)
(* The four programs side by side.                                         *)
(***************************************************************************)
(* A step of one program leaves the others alone: a behaviour of the four
   is a behaviour of each.                                                 *)
THEOREM ProgramsAreApart ==
  WorkSpec => WatchSpec /\ SprintSpec /\ PanelSpec /\ McpSpec
<1>1. WorkInit => WatchInit /\ SprintInit /\ PanelInit /\ McpInit
  BY DEF WorkInit
<1>2. ASSUME [WatchStep \/ SprintStep \/ PanelStep \/ McpStep]_workVars
      PROVE  /\ [WatchNext]_watchVars /\ [SprintNext]_sprintVars
             /\ [PanelNext]_panelVars /\ [McpNext]_mcpVars
  BY <1>2 DEF WatchStep, SprintStep, PanelStep, McpStep, workVars
<1> QED
  BY <1>1, <1>2, PTL DEF WorkSpec, WatchSpec, SprintSpec, PanelSpec, McpSpec

(* The variables of the four programs keep their types.                    *)
THEOREM ProgramTypes == WorkSpec => []WorkTypeOK
<1>1. NumbersInv => SprintTypeOK
  BY DEF NumbersInv
<1>2. PanelInv => PanelTypeOK
  BY DEF PanelInv
<1>3. McpInv => McpTypeOK
  BY DEF McpInv
<1>4. WatchTypeOK /\ SprintTypeOK /\ PanelTypeOK /\ McpTypeOK => WorkTypeOK
  BY DEF WorkTypeOK
<1> QED
  BY <1>1, <1>2, <1>3, <1>4, ProgramsAreApart, WatcherTypes, NumbersInvariant, PanelSafety,
     McpSafety, PTL

(* PendingHasTimer, SprintsFollow, PassNeedsAKeep and OwnAnswers hold of
   the four programs as they do of each.                                   *)
THEOREM ProgramsKeepTheirPromises ==
  WorkSpec => [](PendingHasTimer /\ SprintsFollow /\ PassNeedsAKeep /\ OwnAnswers)
BY ProgramsAreApart, NothingIsForgotten, SprintsAreInOrder, PassesNeedAKeep,
   AnswersAreOnesOwn, PTL
=============================================================================
