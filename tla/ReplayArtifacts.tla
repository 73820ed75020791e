--------------------------- MODULE ReplayArtifacts ---------------------------
(***************************************************************************)
(* Replaying a run that was delivered, or died while it was delivered      *)
(* (flows/replay_flow.py): from a stage, with a snapshot; from a milestone *)
(* (deliver-project --resume-from), which first removes what came after;   *)
(* and from a step, without a snapshot.  Replays may overlap and die       *)
(* anywhere.                                                               *)
(*                                                                         *)
(* Every stage leaves one artifact, its files taken as one and named for   *)
(* their directory; the release check, which the last stage writes into    *)
(* the directory of the stage before, is left out.  An artifact, like the  *)
(* field of run_state.json that goes with it, is known by the work that    *)
(* made it: 0 for none, 1 for the delivery, and a number of its own for    *)
(* every replay.  What the record says of milestones, and how it is torn,  *)
(* is RunLifecycle's.                                                      *)
(***************************************************************************)
EXTENDS Naturals, Sequences

CONSTANTS Replayers,
          Tags,         (* MILESTONE_TAGS, or some of them, in order       *)
          MaxReplays,   (* bound: replays begun                            *)
          MaxSeconds    (* bound: of the clock                             *)

MILESTONE_TAGS == <<"input", "product", "architecture", "planning", "execution",
                    "quality", "verification", "delivery">>

ASSUME ReplayAssumption ==
  /\ MaxReplays \in Nat /\ MaxSeconds \in Nat
  /\ Tags # <<>> /\ Tags \in Seq({ MILESTONE_TAGS[i] : i \in DOMAIN MILESTONE_TAGS })
  /\ \A s, u \in DOMAIN Tags : s < u =>
       \E i, j \in DOMAIN MILESTONE_TAGS :
         i < j /\ Tags[s] = MILESTONE_TAGS[i] /\ Tags[u] = MILESTONE_TAGS[j]

Stage == DOMAIN Tags
Tag == { Tags[s] : s \in Stage }
Works == 0..(MaxReplays + 1)
RunStateFile == "run_state"
Missing == 0
Delivered == 1
Gone == MaxReplays + 2    (* the directory that init_run made is removed   *)

VARIABLES
  reached,    (* the stage the delivery died after; all of them and the
                 save if it is Len(Tags) + 1                               *)
  artifact,   (* the directories of the run                                *)
  saved,      (* run_state.json                                            *)
  snapshot,   (* the replays directory, by replay_id                       *)
  replay,     (* what each process is doing                                *)
  begun,      (* replays begun                                             *)
  clock,      (* seconds                                                   *)
  sharedId,   (* two replays have had the same replay_id                   *)
  unguarded   (* what a resume removed, or a replay from a step replaced,
                 without a snapshot                                        *)

replayVars == <<reached, artifact, saved, snapshot, replay, begun, clock,
                sharedId, unguarded>>
-----------------------------------------------------------------------------
NoArtifacts == [t \in Tag |-> Missing]
Original(t) == IF \E s \in Stage : Tags[s] = t /\ s <= reached THEN Delivered ELSE Missing
OriginalRecord == IF reached > Len(Tags) THEN [t \in Tag |-> Delivered] ELSE NoArtifacts

(* A replay_id: the second and the stage.                                  *)
Ids == (0..MaxSeconds) \X Stage
NoSnapshot == [made |-> FALSE, record |-> NoArtifacts, files |-> NoArtifacts]

AtRest == [at |-> "idle", kind |-> "stage", from |-> 1, next |-> 1, work |-> 0,
           id |-> <<0, 1>>, mem |-> NoArtifacts, alone |-> FALSE]

ReplayInit ==
  /\ reached \in 0..(Len(Tags) + 1)
  /\ artifact = [t \in Tag |-> Original(t)]
  /\ saved = OriginalRecord
  /\ snapshot = [id \in Ids |-> NoSnapshot]
  /\ replay = [p \in Replayers |-> AtRest]
  /\ begun = 0 /\ clock = 0 /\ sharedId = FALSE /\ unguarded = {}

(* The clock of the replay ids.                                            *)
Second == /\ clock < MaxSeconds
          /\ clock' = clock + 1
          /\ UNCHANGED <<reached, artifact, saved, snapshot, replay, begun,
                         sharedId, unguarded>>

(* A command is given the stage to start from.  resume_from_milestone is
   refused when the directory of its milestone does not exist: init_run made
   all of them, so only a resume before it can have removed it.            *)
Others(p) == { q \in Replayers \ {p} : replay[q].at # "idle" }

StartReplay(p) ==
  /\ replay[p].at = "idle" /\ begun < MaxReplays
  /\ begun' = begun + 1
  /\ \E kind \in {"stage", "milestone", "step"}, s \in Stage :
       /\ kind = "milestone" => artifact[Tags[s]] # Gone
       /\ replay' = [q \in Replayers |->
            IF q = p
            THEN [AtRest EXCEPT
                    !.at = IF kind = "milestone" THEN "clearing" ELSE "loading",
                    !.kind = kind, !.from = s, !.next = s + 1,
                    !.work = begun + 2, !.alone = Others(p) = {}]
            ELSE [replay[q] EXCEPT !.alone = FALSE]]
  /\ UNCHANGED <<reached, artifact, saved, snapshot, clock, sharedId, unguarded>>

(* _clear_artifacts_after: the later directories go, one by one.           *)
Clear(p) ==
  /\ replay[p].at = "clearing"
  /\ LET s == replay[p].next IN
     IF s \in Stage
     THEN /\ artifact' = [artifact EXCEPT ![Tags[s]] = Gone]
          /\ unguarded' = unguarded \cup {Tags[s]}
          /\ replay' = [replay EXCEPT ![p].next = s + 1]
     ELSE /\ replay' = [replay EXCEPT ![p].at = "loading"]
          /\ UNCHANGED <<artifact, unguarded>>
  /\ UNCHANGED <<reached, saved, snapshot, begun, clock, sharedId>>

(* RunState.load, and for a replay from a stage or milestone the replay_id
   of its snapshot, which takes run_state.json first.                        *)
LoadRun(p) ==
  /\ replay[p].at = "loading"
  /\ LET r == replay[p]
         id == <<clock, r.from>> IN
     IF r.kind = "step"
     THEN /\ replay' = [replay EXCEPT ![p] = [r EXCEPT
                          !.at = "running", !.mem = saved, !.next = r.from]]
          /\ UNCHANGED <<snapshot, sharedId>>
     ELSE /\ replay' = [replay EXCEPT ![p] = [r EXCEPT
                          !.at = "copying", !.mem = saved, !.id = id, !.next = 1]]
          /\ sharedId' = (sharedId \/ snapshot[id].made)
          /\ snapshot' = [snapshot EXCEPT ![id] =
                            [made |-> TRUE, record |-> saved, files |-> @.files]]
  /\ UNCHANGED <<reached, artifact, saved, begun, clock, unguarded>>

(* Mutant: the directory the results are in is not among those copied.     *)
CopyAllBut(p) ==
  /\ replay[p].at = "copying"
  /\ LET r == replay[p] IN
     IF r.next \in Stage
     THEN /\ replay' = [replay EXCEPT ![p].next = r.next + 1]
          /\ snapshot' =
               IF artifact[Tags[r.next]] \in {Missing, Gone} \/ Tags[r.next] = "execution"
               THEN snapshot
               ELSE [snapshot EXCEPT ![r.id].files[Tags[r.next]] = artifact[Tags[r.next]]]
     ELSE /\ replay' = [replay EXCEPT ![p].at = "running", ![p].next = r.from]
          /\ UNCHANGED snapshot
  /\ UNCHANGED <<reached, artifact, saved, begun, clock, sharedId, unguarded>>

(* _snapshot_run copies the directories that exist over what the snapshot
   has (dirs_exist_ok), and the stages begin.                              *)
Copy(p) ==
  /\ replay[p].at = "copying"
  /\ LET r == replay[p] IN
     IF r.next \in Stage
     THEN /\ replay' = [replay EXCEPT ![p].next = r.next + 1]
          /\ snapshot' =
               IF artifact[Tags[r.next]] \in {Missing, Gone} THEN snapshot
               ELSE [snapshot EXCEPT ![r.id].files[Tags[r.next]] = artifact[Tags[r.next]]]
     ELSE /\ replay' = [replay EXCEPT ![p].at = "running", ![p].next = r.from]
          /\ UNCHANGED snapshot
  /\ UNCHANGED <<reached, artifact, saved, begun, clock, sharedId, unguarded>>

(* What a stage needs of the record: planning the architecture, the
   implementation a plan; the documents of the release are only written
   where there is something to write about.                                *)
Has(mem, t) == t \in Tag => mem[t] # Missing
Refused(mem, t) == \/ t = "planning" /\ ~Has(mem, "architecture")
                   \/ t = "execution" /\ ~Has(mem, "planning")
Silent(mem, t) == t = "delivery" /\ ~(Has(mem, "product") /\ Has(mem, "architecture"))

(* Mutant: the plan goes into the file, but not into the record.           *)
RunUnrecorded(p) ==
  /\ replay[p].at = "running"
  /\ LET r == replay[p] IN
     /\ r.next \in Stage
     /\ LET t == Tags[r.next] IN
        /\ ~Refused(r.mem, t)
        /\ replay' = [replay EXCEPT ![p] = [r EXCEPT !.next = @ + 1, !.mem =
                        IF t = "planning" THEN @ ELSE [@ EXCEPT ![t] = r.work]]]
        /\ artifact' = IF Silent(r.mem, t) THEN artifact
                       ELSE [artifact EXCEPT ![t] = r.work]
        /\ unguarded' = IF r.kind = "step" THEN unguarded \cup {t} ELSE unguarded
  /\ UNCHANGED <<reached, saved, snapshot, begun, clock, sharedId>>

(* A stage of the replay puts its product into the record and the file.    *)
RunStage(p) ==
  /\ replay[p].at = "running"
  /\ LET r == replay[p] IN
     /\ r.next \in Stage
     /\ LET t == Tags[r.next] IN
        /\ ~Refused(r.mem, t)
        /\ replay' = [replay EXCEPT ![p] = [r EXCEPT
                        !.next = @ + 1, !.mem = [@ EXCEPT ![t] = r.work]]]
        /\ artifact' = IF Silent(r.mem, t) THEN artifact
                       ELSE [artifact EXCEPT ![t] = r.work]
        /\ unguarded' = IF r.kind = "step" THEN unguarded \cup {t} ELSE unguarded
  /\ UNCHANGED <<reached, saved, snapshot, begun, clock, sharedId>>

(* The record is saved once, at the end.                                   *)
SaveReplay(p) ==
  /\ replay[p].at = "running" /\ replay[p].next \notin Stage
  /\ saved' = replay[p].mem
  /\ replay' = [replay EXCEPT ![p] = AtRest]
  /\ unguarded' = IF replay[p].kind = "step" THEN unguarded \cup {RunStateFile} ELSE unguarded
  /\ UNCHANGED <<reached, artifact, snapshot, begun, clock, sharedId>>

(* It dies, or a stage raises: that it is refused, for one.                *)
AbortReplay(p) ==
  /\ replay[p].at # "idle"
  /\ replay' = [replay EXCEPT ![p] = AtRest]
  /\ UNCHANGED <<reached, artifact, saved, snapshot, begun, clock, sharedId, unguarded>>

ReplayNext ==
  \/ Second
  \/ \E p \in Replayers :
       \/ StartReplay(p) \/ Clear(p) \/ LoadRun(p) \/ Copy(p) \/ RunStage(p)
       \/ SaveReplay(p) \/ AbortReplay(p)

ReplaySpec == ReplayInit /\ [][ReplayNext]_replayVars
-----------------------------------------------------------------------------
Versions == [Tag -> Works]
SnapshotType == [made : BOOLEAN, record : Versions, files : Versions]
ReplayType ==
  [at : {"idle", "clearing", "loading", "copying", "running"},
   kind : {"stage", "milestone", "step"}, from : Stage, next : 1..(Len(Tags) + 1),
   work : Works, id : Ids, mem : Versions, alone : BOOLEAN]

ReplayTypeOK ==
  /\ reached \in 0..(Len(Tags) + 1)
  /\ artifact \in [Tag -> Works \cup {Gone}] /\ saved \in Versions
  /\ snapshot \in [Ids -> SnapshotType]
  /\ replay \in [Replayers -> ReplayType]
  /\ begun \in 0..MaxReplays /\ clock \in 0..MaxSeconds
  /\ sharedId \in BOOLEAN /\ unguarded \subseteq Tag \cup {RunStateFile}

(* "Snapshot current artifacts BEFORE overwriting anything": what the
   delivery left is where it was or in a snapshot, however many replays from
   a stage overlap, die or follow each other (replay_flow.py:111-134, 211).
   It does not survive a resume that removed it or a replay from a step that
   replaced it, nor, perhaps, two replays of a stage within one second.    *)
OriginalsKept ==
  ~sharedId =>
    /\ \A t \in Tag \ unguarded :
         Original(t) # Missing =>
           artifact[t] = Delivered \/ \E id \in Ids : snapshot[id].files[t] = Delivered
    /\ \/ RunStateFile \in unguarded \/ saved = OriginalRecord
       \/ \E id \in Ids : snapshot[id].made /\ snapshot[id].record = OriginalRecord

(* A replay that came to its end undisturbed leaves the documents of the
   stages it ran and the record in agreement, whatever died half-way before
   it, and hands on no document of another replay after them.              *)
ReplayedAgrees ==
  [][\A p \in Replayers :
       LET r == replay[p] IN
       r.at = "running" /\ r.alone /\ saved' # saved =>
         \A s \in Stage : s >= r.from /\ ~Silent(saved', Tags[s]) =>
           artifact[Tags[s]] = r.work /\ saved'[Tags[s]] = r.work]_replayVars
=============================================================================
