--------------------------- MODULE RunToolsProofs ---------------------------
(***************************************************************************)
(* The three programs of RunTools.  Commands: what every copy of a run's   *)
(* record says of the run, in the file and in the memory of any number of  *)
(* processes, whatever the order in which they load and overwrite it and   *)
(* wherever they die.  Replays: what the delivery made survives them, and  *)
(* one that nobody disturbs leaves the documents and the record in         *)
(* agreement, whatever their number, order and deaths.  Calls: what        *)
(* executors report is true, whatever the number of calls, edits and       *)
(* callers.  And the three programs keep, side by side, what each of them  *)
(* keeps alone.                                                            *)
(***************************************************************************)
EXTENDS RunTools, TLAPS

(* What a copy of the record keeps true, given the run's mode, whether a
   command was allowed mocks, and whether one rehearsed.                   *)
RecordInv(r, md, inv, reh) ==
  /\ \A m \in Milestones : r.results[m] = "mocked" => r.mock
  /\ r.mock => inv
  /\ md = "apply" => \A m \in Milestones : r.results[m] = "rehearsed" => reh
  /\ "incomplete" \in r.errors => r.verified # "passed" /\ r.check # "Ready"

HasFailed(r) == \E m \in r.plan : r.results[m] = "failed"

(* What a process adds: what it allows its milestones, and that a creating
   command that has a failed milestone reaches its end with a verification
   and a decision that say so.                                             *)
JobInv(j, md, inv, reh) ==
  /\ RecordInv(j.mem, md, inv, reh)
  /\ j.allow => inv
  /\ md = "apply" /\ j.at # "idle" /\ j.mode = "dry-run" => reh
  /\ HasFailed(j.mem) /\ j.at = "decide" /\ j.cmd \notin {"replay", "check"} =>
       j.mem.verified # "passed"
  /\ HasFailed(j.mem) /\ j.at = "close" /\ j.cmd # "replay" =>
       j.mem.verified # "passed" /\ j.mem.check # "Ready"

LifecycleInv ==
  /\ TypeOK
  /\ disk \in Record => RecordInv(disk, mode, invited, rehearsing)
  /\ \A p \in Procs : JobInv(job[p], mode, invited, rehearsing)

-----------------------------------------------------------------------------
(* A new process knows nothing of the run.                                 *)
LEMMA FreshRecord ==
  /\ Fresh \in Record
  /\ \A md, inv, reh : RecordInv(Fresh, md, inv, reh)
BY DEF Fresh, Record, NoResults, Outcomes, RecordInv

LEMMA IdleJob ==
  /\ Idle \in Job
  /\ \A md, inv, reh : JobInv(Idle, md, inv, reh)
<1>1. Idle \in Job
  BY FreshRecord DEF Idle, Job, Commands, Stages, Modes
<1>2. ASSUME NEW md, NEW inv, NEW reh
      PROVE  JobInv(Idle, md, inv, reh)
  BY FreshRecord DEF Idle, JobInv
<1> QED
  BY <1>1, <1>2

(* A file that is missing or truncated is not a record.                    *)
LEMMA NotARecord == NoRun \notin Record /\ Torn \notin Record
<1>1. \A r \in Record : "plan" \in DOMAIN r
  BY DEF Record
<1>2. "plan" \notin DOMAIN NoRun /\ "plan" \notin DOMAIN Torn
  BY DEF NoRun, Torn
<1> QED
  BY <1>1, <1>2

(* A plan's milestones are among the milestones.                           *)
LEMMA PlanRange ==
  /\ \A r \in Record : r.plan \subseteq Milestones
  /\ \A plan \in Plans : plan \subseteq Milestones
BY LifecycleAssumption DEF Record, Plans, Milestones, LifecycleAssumption

(* What is true of a copy stays true when more has happened to the run.    *)
LEMMA HistoryGrows ==
  ASSUME NEW r, NEW md, NEW inv \in BOOLEAN, NEW reh \in BOOLEAN,
         NEW inv2 \in BOOLEAN, NEW reh2 \in BOOLEAN, inv => inv2, reh => reh2
  PROVE  /\ RecordInv(r, md, inv, reh) => RecordInv(r, md, inv2, reh2)
         /\ \A j : JobInv(j, md, inv, reh) => JobInv(j, md, inv2, reh2)
BY DEF RecordInv, JobInv

(* A step of p that puts a good copy into p and at most one into the file. *)
LEMMA OneJob ==
  ASSUME LifecycleInv, NEW p \in Procs, NEW j \in Job,
         job' = [job EXCEPT ![p] = j],
         mode' = mode, commands' \in 0..MaxCommands,
         rehearsing' \in BOOLEAN, invited' \in BOOLEAN,
         rehearsing => rehearsing', invited => invited',
         disk' = disk \/ disk' = Torn \/ disk' = job[p].mem,
         JobInv(j, mode, invited', rehearsing')
  PROVE  LifecycleInv'
<1>1. TypeOK'
  <2>1. job[p].mem \in Record
    BY DEF LifecycleInv, TypeOK, Job
  <2> QED
    BY <2>1 DEF LifecycleInv, TypeOK
<1>2. disk' \in Record => RecordInv(disk', mode, invited', rehearsing')
  <2>1. RecordInv(job[p].mem, mode, invited, rehearsing)
    BY DEF LifecycleInv, JobInv
  <2>2. disk \in Record => RecordInv(disk, mode, invited, rehearsing)
    BY DEF LifecycleInv
  <2> QED
    BY <2>1, <2>2, NotARecord, HistoryGrows DEF LifecycleInv, TypeOK
<1>3. ASSUME NEW q \in Procs
      PROVE  JobInv(job'[q], mode, invited', rehearsing')
  <2>1. CASE q = p
    BY <2>1 DEF LifecycleInv, TypeOK
  <2>2. CASE q # p
    <3>1. job'[q] = job[q] /\ JobInv(job[q], mode, invited, rehearsing)
      BY <2>2 DEF LifecycleInv, TypeOK
    <3> QED
      BY <3>1, HistoryGrows DEF LifecycleInv, TypeOK
  <2> QED
    BY <2>1, <2>2
<1> QED
  BY <1>1, <1>2, <1>3 DEF LifecycleInv
-----------------------------------------------------------------------------
(* A process that exits, or moves on without touching its copy.            *)
LEMMA Exits ==
  ASSUME LifecycleInv, NEW p \in Procs, Exit(p),
         disk' = disk \/ disk' = Torn \/ disk' = job[p].mem,
         UNCHANGED <<mode, commands, rehearsing>>,
         invited' \in BOOLEAN, invited => invited'
  PROVE  LifecycleInv'
<1>1. commands' \in 0..MaxCommands /\ rehearsing' \in BOOLEAN
  BY DEF LifecycleInv, TypeOK
<1> QED
  BY <1>1, IdleJob, OneJob DEF Exit

LEMMA GoesTo ==
  ASSUME LifecycleInv, NEW p \in Procs, NEW at \in Stages \ {"decide", "close"},
         Goto(p, at), job[p].at # "idle",
         disk' = disk \/ disk' = Torn \/ disk' = job[p].mem,
         UNCHANGED <<mode, commands, history>>
  PROVE  LifecycleInv'
<1> DEFINE j == [job[p] EXCEPT !.at = at]
<1>1. job' = [job EXCEPT ![p] = j]
  BY DEF Goto, LifecycleInv, TypeOK
<1>2. j \in Job
  BY DEF LifecycleInv, TypeOK, Job
<1>3. JobInv(j, mode, invited, rehearsing)
  <2>1. JobInv(job[p], mode, invited, rehearsing) /\ job[p] \in Job
    BY DEF LifecycleInv, TypeOK
  <2> QED
    BY <2>1 DEF JobInv, Job
<1> QED
  BY <1>1, <1>2, <1>3, OneJob DEF history, LifecycleInv, TypeOK

(* A process that changes its copy of the record and moves on.             *)
LEMMA Updates ==
  ASSUME LifecycleInv, NEW p \in Procs, NEW mem \in Record, NEW at \in Stages,
         Update(p, mem, at), job[p].at # "idle",
         UNCHANGED <<disk, mode, commands, history>>,
         RecordInv(mem, mode, invited, rehearsing),
         HasFailed(mem) /\ at = "decide" /\ job[p].cmd \notin {"replay", "check"} =>
           mem.verified # "passed",
         HasFailed(mem) /\ at = "close" /\ job[p].cmd # "replay" =>
           mem.verified # "passed" /\ mem.check # "Ready"
  PROVE  LifecycleInv'
<1> DEFINE j == [job[p] EXCEPT !.mem = mem, !.at = at]
<1>1. job' = [job EXCEPT ![p] = j]
  BY DEF Update, LifecycleInv, TypeOK
<1>2. j \in Job
  BY DEF LifecycleInv, TypeOK, Job
<1>3. JobInv(j, mode, invited, rehearsing)
  <2>1. JobInv(job[p], mode, invited, rehearsing) /\ job[p] \in Job
    BY DEF LifecycleInv, TypeOK
  <2> QED
    BY <2>1 DEF JobInv, Job
<1> QED
  BY <1>1, <1>2, <1>3, OneJob DEF history, LifecycleInv, TypeOK

LEMMA Saves ==
  ASSUME LifecycleInv, NEW p \in Procs, NEW mem \in Record,
         Save(p, mem, "idle"), job[p].at # "idle",
         UNCHANGED <<disk, mode, commands, history>>,
         RecordInv(mem, mode, invited, rehearsing)
  PROVE  LifecycleInv'
<1> DEFINE j == [job[p] EXCEPT !.mem = mem, !.at = "truncate", !.then = "idle"]
<1>1. job' = [job EXCEPT ![p] = j]
  BY DEF Save, LifecycleInv, TypeOK
<1>2. j \in Job
  BY ZenonT(30) DEF LifecycleInv, TypeOK, Job, Stages
<1>3. JobInv(j, mode, invited, rehearsing)
  <2>1. JobInv(job[p], mode, invited, rehearsing) /\ job[p] \in Job
    BY DEF LifecycleInv, TypeOK
  <2> QED
    BY <2>1 DEF JobInv, Job
<1> QED
  BY <1>1, <1>2, <1>3, OneJob DEF history, LifecycleInv, TypeOK

-----------------------------------------------------------------------------
(* One lemma per action, or per group of actions alike.                    *)
LEMMA CreateStep ==
  ASSUME LifecycleInv, NEW p \in Procs, Create(p)
  PROVE  LifecycleInv'
<1>1. PICK cmd \in Creating, allow \in BOOLEAN, stops \in BOOLEAN :
        /\ job' = [job EXCEPT ![p] = [Idle EXCEPT
                     !.cmd = cmd, !.at = "truncate", !.then = "plan",
                     !.mode = mode, !.allow = allow, !.stops = stops]]
        /\ invited' = (invited \/ allow)
  BY DEF Create
<1> DEFINE j == [Idle EXCEPT !.cmd = cmd, !.at = "truncate", !.then = "plan",
                             !.mode = mode, !.allow = allow, !.stops = stops]
<1>2. j \in Job
  BY IdleJob DEF Job, Creating, Commands, Stages, LifecycleInv, TypeOK
<1>3. j.mem = Fresh /\ j.at = "truncate" /\ j.mode = mode /\ j.allow = allow
  BY DEF Idle
<1>4. JobInv(j, mode, invited', rehearsing')
  BY <1>1, <1>3, FreshRecord DEF JobInv
<1>5. commands' \in 0..MaxCommands
  BY LifecycleAssumption DEF Create, LifecycleAssumption
<1>6. invited' \in BOOLEAN /\ (invited => invited')
  BY <1>1 DEF LifecycleInv, TypeOK
<1>7. UNCHANGED <<disk, mode, rehearsing>> /\ rehearsing \in BOOLEAN
  BY DEF Create, record, LifecycleInv, TypeOK
<1> QED
  BY <1>1, <1>2, <1>4, <1>5, <1>6, <1>7, OneJob

LEMMA BeginStep ==
  ASSUME LifecycleInv, NEW p \in Procs, Begin(p)
  PROVE  LifecycleInv'
<1>1. PICK cmd \in Commands, at \in {"survey", "load"}, left \in SUBSET Milestones,
           m \in Modes, allow \in BOOLEAN :
        /\ Command(p, cmd, at, left, m, allow)
        /\ allow => invited'
        /\ mode = "apply" /\ m = "dry-run" => rehearsing'
        /\ invited' \in BOOLEAN /\ (invited => invited')
        /\ rehearsing' \in BOOLEAN /\ (rehearsing => rehearsing')
  <2>0. {} \in SUBSET Milestones /\ mode \in Modes
    BY DEF LifecycleInv, TypeOK
  <2>1. CASE \E n \in Milestones, md \in Modes, al \in BOOLEAN :
               /\ Command(p, "execute", "load", {n}, md, al)
               /\ rehearsing' = (rehearsing \/ md = "dry-run")
               /\ invited' = (invited \/ al)
    BY <2>1 DEF Commands, LifecycleInv, TypeOK
  <2>2. CASE /\ Command(p, "continue", "survey", {}, mode, FALSE)
             /\ UNCHANGED <<rehearsing, invited>>
    BY <2>0, <2>2 DEF Commands, LifecycleInv, TypeOK
  <2>3. CASE /\ Command(p, "replay", "load", {}, mode, TRUE)
             /\ invited' = TRUE /\ UNCHANGED rehearsing
    <3>1. /\ Command(p, "replay", "load", {}, mode, TRUE)
          /\ invited' = TRUE
      BY <2>3
    <3>2. rehearsing' = rehearsing
      BY <2>3, Zenon
    <3>3. rehearsing' \in BOOLEAN /\ (rehearsing => rehearsing')
      BY <3>2, Zenon DEF LifecycleInv, TypeOK
    <3>4. /\ TRUE => invited'
          /\ invited' \in BOOLEAN /\ (invited => invited')
      BY <3>1
    <3>5. ~(mode = "apply" /\ mode = "dry-run")
      OBVIOUS
    <3>6. "replay" \in Commands /\ "load" \in {"survey", "load"}
      BY DEF Commands
    <3> QED
      BY <2>0, <3>1, <3>3, <3>4, <3>5, <3>6, Zenon
  <2>4. CASE \E cmd \in {"verify", "check"} :
               /\ Command(p, cmd, "load", {}, mode, FALSE)
               /\ UNCHANGED <<rehearsing, invited>>
    <3>1. PICK c \in {"verify", "check"} : Command(p, c, "load", {}, mode, FALSE)
      BY <2>4
    <3>2. rehearsing' = rehearsing /\ invited' = invited
      BY <2>4, Zenon
    <3>3. /\ invited' \in BOOLEAN /\ (invited => invited')
          /\ rehearsing' \in BOOLEAN /\ (rehearsing => rehearsing')
      BY <3>2, Zenon DEF LifecycleInv, TypeOK
    <3>4. /\ c \in Commands /\ "load" \in {"survey", "load"}
          /\ ~(mode = "apply" /\ mode = "dry-run")
      BY DEF Commands
    <3> QED
      BY <2>0, <3>1, <3>3, <3>4, Zenon
  <2> QED
    BY <2>1, <2>2, <2>3, <2>4 DEF Begin
<1> DEFINE j == [Idle EXCEPT !.cmd = cmd, !.at = at, !.left = left,
                             !.mode = m, !.allow = allow]
<1>2. j \in Job
  BY IdleJob DEF Job, Stages
<1>3. j.mem = Fresh /\ j.at = at /\ j.mode = m /\ j.allow = allow
  BY DEF Idle
<1>4. JobInv(j, mode, invited', rehearsing')
  BY <1>1, <1>3, FreshRecord DEF JobInv
<1>5. commands' \in 0..MaxCommands
  BY LifecycleAssumption DEF Begin, LifecycleAssumption
<1>6. job' = [job EXCEPT ![p] = j] /\ UNCHANGED <<disk, mode>>
  BY <1>1 DEF Command, Begin, record
<1> QED
  BY <1>1, <1>2, <1>4, <1>5, <1>6, OneJob

LEMMA SurveyStep ==
  ASSUME LifecycleInv, NEW p \in Procs, Survey(p)
  PROVE  LifecycleInv'
<1>1. CASE disk.plan \ Done(disk) = {}
  BY <1>1, Exits DEF Survey, record, LifecycleInv, TypeOK
<1>2. CASE disk.plan \ Done(disk) # {}
  <2> DEFINE remaining == disk.plan \ Done(disk)
  <2>1. PICK allow \in BOOLEAN, given \in BOOLEAN :
          /\ given \/ allow = disk.mock
          /\ job' = [job EXCEPT ![p].at = "load", ![p].left = remaining,
                                ![p].allow = allow]
          /\ invited' = (invited \/ (given /\ allow))
    BY <1>2 DEF Survey
  <2> DEFINE j == [job[p] EXCEPT !.at = "load", !.left = remaining, !.allow = allow]
  <2>2. job' = [job EXCEPT ![p] = j]
    BY <2>1 DEF LifecycleInv, TypeOK
  <2>3. remaining \in SUBSET Milestones
    BY PlanRange DEF Survey
  <2>4. j \in Job
    BY <2>3, ZenonT(30) DEF LifecycleInv, TypeOK, Job, Stages
  <2>5. invited' \in BOOLEAN /\ (invited => invited') /\ (allow => invited')
    BY <2>1 DEF Survey, RecordInv, LifecycleInv, TypeOK
  <2>6. JobInv(j, mode, invited', rehearsing)
    <3>1. JobInv(job[p], mode, invited', rehearsing) /\ job[p] \in Job
      BY <2>5, HistoryGrows DEF LifecycleInv, TypeOK
    <3> QED
      BY <2>5, <3>1 DEF JobInv, Job, Survey
  <2>7. /\ UNCHANGED <<disk, mode, rehearsing>>
        /\ commands' \in 0..MaxCommands /\ rehearsing \in BOOLEAN
    BY DEF Survey, record, LifecycleInv, TypeOK
  <2> QED
    BY <2>2, <2>4, <2>5, <2>6, <2>7, OneJob
<1> QED
  BY <1>1, <1>2

LEMMA LoadStep ==
  ASSUME LifecycleInv, NEW p \in Procs, Load(p)
  PROVE  LifecycleInv'
<1>1. PICK at \in Stages :
        /\ <<job[p].cmd, at>> \in Starts
        /\ IF at = "implement" /\ disk.plan = {}
           THEN Exit(p)
           ELSE IF at = "implement" /\ job[p].cmd = "replay"
           THEN job' = [job EXCEPT ![p].mem = [disk EXCEPT !.results = NoResults],
                                   ![p].at = at, ![p].left = disk.plan]
           ELSE Update(p, disk, at)
  BY DEF Load
<1>2. /\ disk \in Record /\ RecordInv(disk, mode, invited, rehearsing)
      /\ job[p].at = "load" /\ UNCHANGED <<disk, mode, commands, history>>
  BY DEF Load, record, LifecycleInv
<1>3. CASE at = "implement" /\ disk.plan = {}
  BY <1>1, <1>2, <1>3, Exits DEF history, LifecycleInv, TypeOK
<1>4. CASE at = "implement" /\ disk.plan # {} /\ job[p].cmd = "replay"
  <2> DEFINE mem == [disk EXCEPT !.results = NoResults]
             j == [job[p] EXCEPT !.mem = mem, !.at = at, !.left = disk.plan]
  <2>1. job' = [job EXCEPT ![p] = j]
    BY <1>1, <1>4 DEF LifecycleInv, TypeOK
  <2>2. mem \in Record /\ RecordInv(mem, mode, invited, rehearsing)
    BY <1>2 DEF Record, NoResults, Outcomes, RecordInv
  <2>3. j \in Job
    BY <1>2, <2>2, PlanRange DEF LifecycleInv, TypeOK, Job
  <2>4. JobInv(j, mode, invited, rehearsing)
    <3>1. JobInv(job[p], mode, invited, rehearsing) /\ job[p] \in Job
      BY DEF LifecycleInv, TypeOK
    <3> QED
      BY <1>2, <1>4, <2>2, <3>1 DEF JobInv, Job
  <2> QED
    BY <1>2, <2>1, <2>3, <2>4, OneJob DEF history, LifecycleInv, TypeOK
<1>5. CASE ~(at = "implement" /\ disk.plan = {})
           /\ ~(at = "implement" /\ job[p].cmd = "replay")
  <2>1. Update(p, disk, at)
    BY <1>1, <1>5
  <2>2. at = "decide" => job[p].cmd \in {"replay", "check"}
    BY <1>1 DEF Starts
  <2>3. at # "close"
    BY <1>1 DEF Starts
  <2> QED
    BY <1>2, <2>1, <2>2, <2>3, Updates
<1> QED
  BY <1>3, <1>4, <1>5

LEMMA PlanStep ==
  ASSUME LifecycleInv, NEW p \in Procs, Plan(p)
  PROVE  LifecycleInv'
<1>1. PICK plan \in Plans :
       LET mem == [job[p].mem EXCEPT
                     !.plan = IF job[p].cmd = "patches" THEN {} ELSE plan,
                     !.results = NoResults] IN
       IF job[p].cmd = "bugfix"
       THEN job' = [job EXCEPT ![p].mem = mem, ![p].left = plan,
                               ![p].at = "truncate", ![p].then = "implement"]
       ELSE job' = [job EXCEPT ![p].mem = mem, ![p].left = plan,
                               ![p].at = "implement"]
  BY DEF Plan
<1> DEFINE known == IF job[p].cmd = "patches" THEN {} ELSE plan
           mem == [job[p].mem EXCEPT !.plan = known, !.results = NoResults]
           j == IF job[p].cmd = "bugfix"
                THEN [job[p] EXCEPT !.mem = mem, !.left = plan,
                                    !.at = "truncate", !.then = "implement"]
                ELSE [job[p] EXCEPT !.mem = mem, !.left = plan, !.at = "implement"]
<1>2. job' = [job EXCEPT ![p] = j]
  BY <1>1 DEF LifecycleInv, TypeOK
<1>3. /\ job[p] \in Job /\ job[p].mem \in Record
      /\ JobInv(job[p], mode, invited, rehearsing)
  BY DEF LifecycleInv, TypeOK, Job
<1>4. mem \in Record /\ RecordInv(mem, mode, invited, rehearsing)
  <2>0. known \in SUBSET Milestones
    BY PlanRange
  <2>1. mem \in Record
    BY <1>3, <2>0 DEF Record, NoResults, Outcomes
  <2>2. RecordInv(job[p].mem, mode, invited, rehearsing)
    BY <1>3 DEF JobInv
  <2> QED
    BY <1>3, <2>1, <2>2 DEF RecordInv, Record, NoResults
<1>5. plan \subseteq Milestones
  BY PlanRange
<1>6. j \in Job
  BY <1>3, <1>4, <1>5 DEF Job, Stages
<1>7. JobInv(j, mode, invited, rehearsing)
  BY <1>3, <1>4 DEF JobInv, Job, Plan
<1> QED
  BY <1>2, <1>6, <1>7, OneJob DEF Plan, record, history, LifecycleInv, TypeOK

(* A milestone adds a result its mode and options allow, and its mark.     *)
LEMMA ImplementStep ==
  ASSUME LifecycleInv, NEW p \in Procs, Implement(p)
  PROVE  LifecycleInv'
<1>1. PICK next \in job[p].left, result \in Result(p) :
        \E mock \in Marked(p, result) :
          LET plan == IF job[p].cmd = "patches" THEN {next} \cup job[p].mem.plan
                      ELSE job[p].mem.plan
              mem == [job[p].mem EXCEPT !.plan = plan, !.results[next] = result,
                                        !.mock = mock]
              left == IF result = "failed" /\ job[p].cmd = "deliver" /\ job[p].stops
                      THEN {} ELSE job[p].left \ {next}
              collects == Collects(job[p].cmd, left)
              after == IF left # {} THEN (IF collects THEN "implement" ELSE "load")
                       ELSE IF collects THEN "gates"
                       ELSE IF job[p].cmd = "continue" THEN "reload" ELSE "idle"
          IN /\ \A m \in job[p].left : next <= m
             /\ job' = [job EXCEPT ![p] = [job[p] EXCEPT
                          !.mem = mem, !.left = left,
                          !.at = IF collects THEN after ELSE "truncate",
                          !.then = IF collects THEN "idle" ELSE after]]
  BY Zenon DEF Implement
<1> DEFINE plan == IF job[p].cmd = "patches" THEN {next} \cup job[p].mem.plan
                   ELSE job[p].mem.plan
           left == IF result = "failed" /\ job[p].cmd = "deliver" /\ job[p].stops
                   THEN {} ELSE job[p].left \ {next}
           collects == Collects(job[p].cmd, left)
           after == IF left # {} THEN (IF collects THEN "implement" ELSE "load")
                    ELSE IF collects THEN "gates"
                    ELSE IF job[p].cmd = "continue" THEN "reload" ELSE "idle"
           at == IF collects THEN after ELSE "truncate"
           then == IF collects THEN "idle" ELSE after
<1>0. PICK mock \in Marked(p, result) :
         job' = [job EXCEPT ![p] = [job[p] EXCEPT
                   !.mem = [job[p].mem EXCEPT !.plan = plan, !.results[next] = result,
                                              !.mock = mock],
                   !.left = left, !.at = at, !.then = then]]
  BY <1>1, Zenon
<1> DEFINE mem == [job[p].mem EXCEPT !.plan = plan, !.results[next] = result,
                                     !.mock = mock]
           j == [job[p] EXCEPT !.mem = mem, !.left = left, !.at = at, !.then = then]
<1>2. job' = [job EXCEPT ![p] = j]
  BY <1>0
<1>3. /\ job[p] \in Job /\ job[p].mem \in Record /\ job[p].mem.results \in [Milestones -> Outcomes]
      /\ JobInv(job[p], mode, invited, rehearsing) /\ job[p].at = "implement"
      /\ job[p].left \subseteq Milestones
  BY DEF LifecycleInv, TypeOK, Job, Record, Implement
<1>4. /\ result \in Outcomes /\ mock \in BOOLEAN
      /\ result = "mocked" => mock = TRUE
      /\ job[p].mem.mock => mock
      /\ mock => job[p].mem.mock \/ job[p].allow
      /\ result = "rehearsed" => job[p].mode = "dry-run"
  BY <1>0, <1>3 DEF Result, Marked, Outcomes, Record, Job
<1>5. /\ mem \in Record /\ mem.mock = mock
      /\ mem.errors = job[p].mem.errors /\ mem.verified = job[p].mem.verified
      /\ mem.check = job[p].mem.check
      /\ \A m \in Milestones :
           mem.results[m] = IF m = next THEN result ELSE job[p].mem.results[m]
  <2>1. plan \in SUBSET Milestones
    BY <1>3, PlanRange
  <2> HIDE DEF plan
  <2> QED
    BY <1>3, <1>4, <2>1 DEF Record
<1>6. RecordInv(mem, mode, invited, rehearsing)
  BY <1>3, <1>4, <1>5 DEF JobInv, RecordInv
<1>7. left \in SUBSET Milestones
  BY <1>3
<1>8. /\ after \in {"implement", "load", "gates", "reload", "idle"}
      /\ after = "gates" => collects
  OBVIOUS
<1>9. at \in Stages \ {"decide", "close"} /\ then \in {"plan", "implement", "load", "reload", "idle"}
  BY <1>8 DEF Stages
<1> HIDE DEF mem, left, at, then
<1>10. j \in Job
  BY <1>3, <1>5, <1>7, <1>9 DEF Job
<1>11. JobInv(j, mode, invited, rehearsing)
  BY <1>3, <1>6, <1>9 DEF JobInv, Job
<1> QED
  BY <1>2, <1>10, <1>11, OneJob DEF Implement, record, history, LifecycleInv, TypeOK
-----------------------------------------------------------------------------
LEMMA GatesStep ==
  ASSUME LifecycleInv, NEW p \in Procs, Gates(p)
  PROVE  LifecycleInv'
<1>1. PICK g \in {"passed", "failed", "blocked"} :
        Update(p, [job[p].mem EXCEPT !.gates = g], "verify")
  BY DEF Gates
<1> DEFINE mem == [job[p].mem EXCEPT !.gates = g]
<1>2. job[p].mem \in Record /\ RecordInv(job[p].mem, mode, invited, rehearsing)
  BY DEF LifecycleInv, TypeOK, Job, JobInv
<1>3. mem \in Record /\ RecordInv(mem, mode, invited, rehearsing)
  BY <1>2 DEF Record, RecordInv
<1> QED
  BY <1>1, <1>3, Updates DEF Gates, record, Stages

(* The verifier fails a run that has recorded an error or a failure.       *)
LEMMA VerifierFails ==
  ASSUME NEW r \in Record, HasFailed(r) \/ r.errors # {}
  PROVE  Verified(r) = "failed"
BY DEF HasFailed, Verified, Done, Success

LEMMA VerifyStep ==
  ASSUME LifecycleInv, NEW p \in Procs, Verify(p)
  PROVE  LifecycleInv'
<1> DEFINE mem == [job[p].mem EXCEPT !.verified = Verified(job[p].mem)]
<1>1. job[p].mem \in Record /\ RecordInv(job[p].mem, mode, invited, rehearsing)
  BY DEF LifecycleInv, TypeOK, Job, JobInv
<1>2. mem \in Record
  BY <1>1 DEF Record, Verified
<1>3. RecordInv(mem, mode, invited, rehearsing)
  BY <1>1, VerifierFails DEF RecordInv, Record
<1>4. HasFailed(mem) => mem.verified # "passed"
  BY <1>1, VerifierFails DEF HasFailed, Record
<1>5. CASE job[p].cmd \in {"verify", "issue"}
  BY <1>2, <1>3, <1>5, Saves DEF Verify, record
<1>6. CASE job[p].cmd \notin {"verify", "issue"}
  BY <1>2, <1>3, <1>4, <1>6, Updates DEF Verify, record, Stages
<1> QED
  BY <1>5, <1>6

(* The gate refuses a run that has recorded a failed milestone, or whose
   verification did not pass.                                              *)
LEMMA GateRefuses ==
  ASSUME NEW r \in Record, HasFailed(r) \/ r.verified # "passed"
  PROVE  Decision(r) # "Ready"
BY DEF HasFailed, Decision, Complete, Done, Success

LEMMA DecideStep ==
  ASSUME LifecycleInv, NEW p \in Procs, Decide(p)
  PROVE  LifecycleInv'
<1> DEFINE mem == [job[p].mem EXCEPT !.check = Decision(job[p].mem)]
<1>1. /\ job[p].mem \in Record /\ RecordInv(job[p].mem, mode, invited, rehearsing)
      /\ job[p].at = "decide" /\ JobInv(job[p], mode, invited, rehearsing)
  BY DEF LifecycleInv, TypeOK, Job, JobInv, Decide
<1>2. mem \in Record
  BY <1>1 DEF Record, Decision
<1>3. RecordInv(mem, mode, invited, rehearsing)
  BY <1>1, GateRefuses DEF RecordInv, Record
<1>4. CASE job[p].cmd = "check"
  BY <1>2, <1>3, <1>4, Saves DEF Decide, record
<1>5. CASE job[p].cmd # "check"
  <2>1. HasFailed(mem) /\ job[p].cmd # "replay" =>
          mem.verified # "passed" /\ mem.check # "Ready"
    BY <1>1, <1>5, GateRefuses DEF JobInv, HasFailed, Record
  <2> QED
    BY <1>2, <1>3, <1>5, <2>1, Updates DEF Decide, record, Stages
<1> QED
  BY <1>4, <1>5

(* What the end of a delivery remembers, it has been refused for.          *)
LEMMA CloseStep ==
  ASSUME LifecycleInv, NEW p \in Procs, Close(p)
  PROVE  LifecycleInv'
<1> DEFINE mem == [job[p].mem EXCEPT !.errors = @ \cup Remembered(p)]
<1>1. /\ job[p].mem \in Record /\ RecordInv(job[p].mem, mode, invited, rehearsing)
      /\ job[p].at = "close" /\ JobInv(job[p], mode, invited, rehearsing)
  BY DEF LifecycleInv, TypeOK, Job, JobInv, Close
<1>2. mem \in Record
  BY <1>1 DEF Record, Remembered
<1>3. "incomplete" \in Remembered(p) => HasFailed(job[p].mem) /\ job[p].cmd # "replay"
  BY DEF Remembered, HasFailed
<1>4. RecordInv(mem, mode, invited, rehearsing)
  BY <1>1, <1>3 DEF RecordInv, JobInv, Record
<1> QED
  BY <1>1, <1>2, <1>4, Saves DEF Close, record

LEMMA ReloadStep ==
  ASSUME LifecycleInv, NEW p \in Procs, Reload(p)
  PROVE  LifecycleInv'
<1>1. CASE Complete(disk)
  BY <1>1, Saves DEF Reload, record, LifecycleInv
<1>2. CASE ~Complete(disk)
  BY <1>2, Exits DEF Reload, record, history, LifecycleInv, TypeOK
<1> QED
  BY <1>1, <1>2

(* The file changes: truncated, then a copy that keeps the invariant.      *)
LEMMA FileStep ==
  ASSUME LifecycleInv, NEW p \in Procs, Truncate(p) \/ Write(p)
  PROVE  LifecycleInv'
<1>1. CASE Truncate(p)
  BY <1>1, GoesTo DEF Truncate, Stages
<1>2. CASE Write(p) /\ job[p].then = "idle"
  BY <1>2, Exits DEF Write, history, LifecycleInv, TypeOK
<1>3. CASE Write(p) /\ job[p].then # "idle"
  <2>1. job[p].then \in Stages \ {"decide", "close"}
    BY DEF LifecycleInv, TypeOK, Job, Stages
  <2> QED
    BY <1>3, <2>1, GoesTo DEF Write
<1> QED
  BY <1>1, <1>2, <1>3

LEMMA EndStep ==
  ASSUME LifecycleInv, NEW p \in Procs, LoadFails(p) \/ Crash(p)
  PROVE  LifecycleInv'
BY Exits DEF LoadFails, Crash, record, history, LifecycleInv, TypeOK
-----------------------------------------------------------------------------
LEMMA InitInv == Init => LifecycleInv
<1> SUFFICES ASSUME Init PROVE LifecycleInv
  OBVIOUS
<1>1. TypeOK
  <2>1. commands \in 0..MaxCommands
    BY LifecycleAssumption DEF Init, LifecycleAssumption
  <2>2. job \in [Procs -> Job]
    BY IdleJob DEF Init
  <2>3. rehearsing \in BOOLEAN /\ invited \in BOOLEAN
    BY DEF Init
  <2> QED
    BY <2>1, <2>2, <2>3 DEF Init, TypeOK
<1>2. ASSUME NEW p \in Procs PROVE JobInv(job[p], mode, invited, rehearsing)
  BY IdleJob DEF Init
<1> QED
  BY <1>1, <1>2, NotARecord DEF LifecycleInv, Init

LEMMA NextInv == LifecycleInv /\ [Next]_vars => LifecycleInv'
<1> SUFFICES ASSUME LifecycleInv, [Next]_vars PROVE LifecycleInv'
  OBVIOUS
<1>1. CASE UNCHANGED vars
  BY <1>1 DEF vars, LifecycleInv, TypeOK
<1>2. ASSUME NEW p \in Procs, Create(p) \/ Begin(p) \/ Step(p) \/ Crash(p)
      PROVE  LifecycleInv'
  BY <1>2, CreateStep, BeginStep, SurveyStep, LoadStep, PlanStep, ImplementStep,
     GatesStep, VerifyStep, DecideStep, CloseStep, ReloadStep, FileStep, EndStep
     DEF Step
<1> QED
  BY <1>1, <1>2 DEF Next

THEOREM Invariance == Spec => []LifecycleInv
BY InitInv, NextInv, PTL DEF Spec

(* TypeOK: the variables of every behaviour have their types.              *)
THEOREM LifecycleTypes == Spec => []TypeOK
<1>1. LifecycleInv => TypeOK
  BY DEF LifecycleInv
<1> QED
  BY <1>1, Invariance, PTL

LEMMA LifecycleIsSafe == LifecycleInv => FailureSticks /\ MocksOnRecord
<1> SUFFICES ASSUME LifecycleInv PROVE FailureSticks /\ MocksOnRecord
  OBVIOUS
<1>1. \A r \in Records : RecordInv(r, mode, invited, rehearsing)
  BY DEF LifecycleInv, Records, JobInv
<1>2. FailureSticks
  BY <1>1 DEF FailureSticks, RecordInv
<1>3. MocksOnRecord
  BY <1>1 DEF MocksOnRecord, NoUninvitedMock, MocksAreMarked, RecordInv
<1> QED
  BY <1>2, <1>3

(* FailureSticks: no copy of the record of a delivery that ended incomplete
   is ever ReleaseReady, whatever commands follow and however they
   interleave.                                                             *)
THEOREM IncompleteIsNeverReady == Spec => []FailureSticks
  BY LifecycleIsSafe, Invariance, PTL

(* NoUninvitedMock, MocksAreMarked: mocks come in by invitation only, and
   no copy of the record counts a mocked milestone without the mark.       *)
THEOREM MocksAreInvitedAndMarked == Spec => []MocksOnRecord
  BY LifecycleIsSafe, Invariance, PTL

(* RecordIsHonest: both at once, of every copy of the record.              *)
THEOREM RecordsAreHonest == Spec => []RecordIsHonest
<1>1. FailureSticks /\ MocksOnRecord => RecordIsHonest
  BY DEF RecordIsHonest
<1> QED
  BY <1>1, IncompleteIsNeverReady, MocksAreInvitedAndMarked, PTL

-----------------------------------------------------------------------------
(* A step of q leaves the other processes alone.                           *)
LEMMA OthersStay ==
  ASSUME TypeOK, NEW q \in Procs, Create(q) \/ Begin(q) \/ Step(q) \/ Crash(q),
         NEW p \in Procs, p # q
  PROVE  job'[p] = job[p]
<1>1. CASE Create(q) \/ Begin(q)
  BY <1>1 DEF Create, Begin, Command, TypeOK
<1>2. CASE LoadFails(q) \/ Crash(q) \/ Truncate(q) \/ Write(q)
  BY <1>2 DEF LoadFails, Crash, Truncate, Write, Exit, Goto, TypeOK
<1>3. CASE Survey(q) \/ Reload(q)
  BY <1>3 DEF Survey, Reload, Exit, Save, TypeOK
<1>4. CASE Load(q)
  BY <1>4 DEF Load, Exit, Update, TypeOK
<1>5. CASE Plan(q)
  BY <1>5 DEF Plan, TypeOK
<1>6. CASE Implement(q)
  <2>1. \E j : job' = [job EXCEPT ![q] = j]
    BY <1>6, Zenon DEF Implement
  <2> QED
    BY <2>1 DEF TypeOK
<1>7. CASE Gates(q) \/ Verify(q) \/ Decide(q) \/ Close(q)
  BY <1>7 DEF Gates, Verify, Decide, Close, Save, Update, TypeOK
<1> QED
  BY <1>1, <1>2, <1>3, <1>4, <1>5, <1>6, <1>7 DEF Step

(* What the gate has found when it answers ReleaseReady.                   *)
LEMMA GateAccepts ==
  ASSUME NEW r \in Record, RecordInv(r, mode, invited, rehearsing),
         Decision(r) = "Ready", NEW m \in r.plan
  PROVE  r.results[m] = "applied" \/ (r.results[m] = "rehearsed" /\ rehearsing)
<1>1. Complete(r) /\ ~r.mock /\ mode = "apply"
  BY DEF Decision
<1>2. m \in Milestones /\ r.results[m] \in Success
  BY <1>1, PlanRange DEF Complete, Done
<1>3. r.results[m] # "mocked"
  BY <1>1, <1>2 DEF RecordInv
<1>4. r.results[m] = "rehearsed" => rehearsing
  BY <1>1, <1>2, Zenon DEF RecordInv
<1> QED
  BY <1>2, <1>3, <1>4 DEF Success

LEMMA ReadyStep ==
  ASSUME LifecycleInv, NEW p \in Procs, Next, job[p].at = "decide",
         job'[p].at # "decide", job'[p].mem.check = "Ready",
         NEW m \in job'[p].mem.plan
  PROVE  \/ job'[p].mem.results[m] = "applied"
         \/ job'[p].mem.results[m] = "rehearsed" /\ rehearsing
<1>1. PICK q \in Procs : Create(q) \/ Begin(q) \/ Step(q) \/ Crash(q)
  BY DEF Next
<1>2. q = p
  BY <1>1, OthersStay DEF LifecycleInv
<1>3. ~Crash(p)
  <2>1. job'[p] # Idle
    BY DEF Idle, Fresh
  <2> QED
    BY <2>1 DEF Crash, Exit, LifecycleInv, TypeOK
<1>4. Decide(p)
  BY <1>1, <1>2, <1>3 DEF Create, Begin, Step, LoadFails, Survey, Load, Plan,
     Implement, Gates, Verify, Close, Reload, Truncate, Write
<1> DEFINE mem == [job[p].mem EXCEPT !.check = Decision(job[p].mem)]
<1>5. job'[p].mem = mem
  BY <1>4 DEF Decide, Save, Update, LifecycleInv, TypeOK, Job
<1>6. job[p].mem \in Record /\ RecordInv(job[p].mem, mode, invited, rehearsing)
  BY DEF LifecycleInv, TypeOK, Job, JobInv
<1>7. /\ Decision(job[p].mem) = "Ready" /\ m \in job[p].mem.plan
      /\ job'[p].mem.results = job[p].mem.results
  BY <1>5, <1>6 DEF Record
<1> QED
  BY <1>6, <1>7, GateAccepts

(* ReadyIsReal: a ReleaseReady is only ever decided of a run whose planned
   milestones were all applied by real executors (or rehearsed by an
   execute-milestone in dry-run mode).                                     *)
THEOREM ReadyMeansReal == Spec => ReadyIsReal
<1> DEFINE Real ==
      \A p \in Procs :
        LET r == job'[p].mem IN
        job[p].at = "decide" /\ job'[p].at # "decide" /\ r.check = "Ready" =>
          \A m \in r.plan : \/ r.results[m] = "applied"
                            \/ r.results[m] = "rehearsed" /\ rehearsing
<1>1. LifecycleInv /\ [Next]_vars => [Real]_vars
  BY ReadyStep DEF vars
<1>2. Spec => [][Real]_vars
  BY <1>1, Invariance, PTL DEF Spec
<1> QED
  BY <1>2 DEF ReadyIsReal

-----------------------------------------------------------------------------
(* What a continue-run has left to do is not done, in the copy it works on
   or, before it loads that, in the file.  It is read once, so this is so
   only while no other process writes the file.                            *)
LeftIsToDo(j, file) ==
  j.cmd = "continue" =>
    /\ j.at = "load" /\ file \in Record => j.left \cap Done(file) = {}
    /\ \/ j.at = "implement"
       \/ j.at \in {"truncate", "write"} /\ j.then \in {"load", "implement"}
       => j.left \cap Done(j.mem) = {}

Alone == \E p : Procs = {p}

ContinueInv == Alone => \A p \in Procs : LeftIsToDo(job[p], disk)

(* A milestone is executed, in its parts.                                  *)
LEMMA Implements ==
  ASSUME NEW p \in Procs, Implement(p)
  PROVE  \E next \in job[p].left, result \in Result(p) : \E plan, left, mock, at, then :
           /\ job[p].cmd # "patches" => plan = job[p].mem.plan
           /\ job[p].cmd # "deliver" => left = job[p].left \ {next}
           /\ ~Collects(job[p].cmd, left) => at = "truncate"
           /\ job' = [job EXCEPT ![p] = [job[p] EXCEPT
                        !.mem = [job[p].mem EXCEPT !.plan = plan, !.results[next] = result,
                                                   !.mock = mock],
                        !.left = left, !.at = at, !.then = then]]
<1>1. PICK next \in job[p].left, result \in Result(p) :
        \E mock \in Marked(p, result) :
          LET plan == IF job[p].cmd = "patches" THEN {next} \cup job[p].mem.plan
                      ELSE job[p].mem.plan
              mem == [job[p].mem EXCEPT !.plan = plan, !.results[next] = result,
                                        !.mock = mock]
              left == IF result = "failed" /\ job[p].cmd = "deliver" /\ job[p].stops
                      THEN {} ELSE job[p].left \ {next}
              collects == Collects(job[p].cmd, left)
              after == IF left # {} THEN (IF collects THEN "implement" ELSE "load")
                       ELSE IF collects THEN "gates"
                       ELSE IF job[p].cmd = "continue" THEN "reload" ELSE "idle"
          IN /\ \A m \in job[p].left : next <= m
             /\ job' = [job EXCEPT ![p] = [job[p] EXCEPT
                          !.mem = mem, !.left = left,
                          !.at = IF collects THEN after ELSE "truncate",
                          !.then = IF collects THEN "idle" ELSE after]]
  BY Zenon DEF Implement
<1> DEFINE plan == IF job[p].cmd = "patches" THEN {next} \cup job[p].mem.plan
                   ELSE job[p].mem.plan
           left == IF result = "failed" /\ job[p].cmd = "deliver" /\ job[p].stops
                   THEN {} ELSE job[p].left \ {next}
           collects == Collects(job[p].cmd, left)
           after == IF left # {} THEN (IF collects THEN "implement" ELSE "load")
                    ELSE IF collects THEN "gates"
                    ELSE IF job[p].cmd = "continue" THEN "reload" ELSE "idle"
           at == IF collects THEN after ELSE "truncate"
           then == IF collects THEN "idle" ELSE after
<1>2. PICK mock \in Marked(p, result) :
         job' = [job EXCEPT ![p] = [job[p] EXCEPT
                   !.mem = [job[p].mem EXCEPT !.plan = plan, !.results[next] = result,
                                              !.mock = mock],
                   !.left = left, !.at = at, !.then = then]]
  BY <1>1, Zenon
<1>3. /\ job[p].cmd # "patches" => plan = job[p].mem.plan
      /\ job[p].cmd # "deliver" => left = job[p].left \ {next}
      /\ ~Collects(job[p].cmd, left) => at = "truncate"
  OBVIOUS
<1> HIDE DEF plan, left, at, then
<1> DEFINE Does(n, r, p1, l1, m1, a1, t1) ==
             /\ job[p].cmd # "patches" => p1 = job[p].mem.plan
             /\ job[p].cmd # "deliver" => l1 = job[p].left \ {n}
             /\ ~Collects(job[p].cmd, l1) => a1 = "truncate"
             /\ job' = [job EXCEPT ![p] = [job[p] EXCEPT
                          !.mem = [job[p].mem EXCEPT !.plan = p1, !.results[n] = r, !.mock = m1],
                          !.left = l1, !.at = a1, !.then = t1]]
<1>4. Does(next, result, plan, left, mock, at, then)
  BY <1>2, <1>3, Zenon
<1> HIDE DEF Does
<1>5. \E n \in job[p].left, r \in Result(p) : \E p1, l1, m1, a1, t1 : Does(n, r, p1, l1, m1, a1, t1)
  BY <1>4, Zenon
<1> QED
  BY <1>5, Zenon DEF Does

(* The milestone that is executed is one of those left, and is not left
   any more.                                                               *)
LEMMA ContinueImplements ==
  ASSUME TypeOK, NEW p \in Procs, Implement(p), job[p].cmd = "continue"
  PROVE  \E next \in job[p].left :
           /\ job'[p].left = job[p].left \ {next}
           /\ job'[p].mem.plan = job[p].mem.plan
           /\ \A m \in Milestones \ {next} : job'[p].mem.results[m] = job[p].mem.results[m]
           /\ disk' = disk /\ job'[p].at = "truncate"
<1>1. /\ job[p] \in Job /\ job[p].mem \in Record /\ job[p].mem.results \in [Milestones -> Outcomes]
      /\ job \in [Procs -> Job]
  BY DEF TypeOK, Job, Record
<1>2. \A left : ~Collects("continue", left)
  BY DEF Collects
<1>3. PICK next \in job[p].left, result \in Result(p) : \E plan, left, mock, at, then :
           /\ job[p].cmd # "patches" => plan = job[p].mem.plan
           /\ job[p].cmd # "deliver" => left = job[p].left \ {next}
           /\ ~Collects(job[p].cmd, left) => at = "truncate"
           /\ job' = [job EXCEPT ![p] = [job[p] EXCEPT
                        !.mem = [job[p].mem EXCEPT !.plan = plan, !.results[next] = result,
                                                   !.mock = mock],
                        !.left = left, !.at = at, !.then = then]]
  BY Implements, Zenon
<1>4. PICK plan, left, mock, at, then :
           /\ job[p].cmd # "patches" => plan = job[p].mem.plan
           /\ job[p].cmd # "deliver" => left = job[p].left \ {next}
           /\ ~Collects(job[p].cmd, left) => at = "truncate"
           /\ job' = [job EXCEPT ![p] = [job[p] EXCEPT
                        !.mem = [job[p].mem EXCEPT !.plan = plan, !.results[next] = result,
                                                   !.mock = mock],
                        !.left = left, !.at = at, !.then = then]]
  BY <1>3, Zenon
<1> DEFINE mem == [job[p].mem EXCEPT !.plan = plan, !.results[next] = result, !.mock = mock]
<1>5. /\ mem.plan = job[p].mem.plan /\ left = job[p].left \ {next} /\ at = "truncate"
      /\ \A m \in Milestones \ {next} : mem.results[m] = job[p].mem.results[m]
  BY <1>1, <1>2, <1>4 DEF Record
<1> HIDE DEF mem
<1>6. /\ job'[p].mem = mem /\ job'[p].left = job[p].left \ {next}
      /\ job'[p].at = "truncate"
  BY <1>1, <1>4, <1>5 DEF mem, Job
<1>7. disk' = disk
  BY DEF Implement, record
<1> QED
  BY <1>5, <1>6, <1>7

LEMMA ContinueStep ==
  ASSUME TypeOK, NEW p \in Procs, LeftIsToDo(job[p], disk),
         Create(p) \/ Begin(p) \/ Step(p) \/ Crash(p)
  PROVE  LeftIsToDo(job'[p], disk')
<1> SUFFICES ASSUME job'[p].cmd = "continue" PROVE LeftIsToDo(job'[p], disk')
  BY DEF LeftIsToDo
<1>1. job \in [Procs -> Job] /\ job[p] \in Job /\ job[p].mem \in Record
  BY DEF TypeOK, Job
<1>2. ~Exit(p)
  BY <1>1 DEF Exit, Idle
<1>3. ~(LoadFails(p) \/ Crash(p))
  BY <1>2 DEF LoadFails, Crash
<1>4. ~Create(p)
  BY <1>1 DEF Create, Creating, Idle
<1>5. CASE Begin(p)
  <2>1. job'[p].at = "survey"
    BY <1>1, <1>5, ZenonT(30) DEF Begin, Command, Idle
  <2> QED
    BY <2>1 DEF LeftIsToDo
<1>6. CASE Survey(p)
  <2>1. /\ job'[p].at = "load" /\ job'[p].left = disk.plan \ Done(disk) /\ disk' = disk
    BY <1>1, <1>2, <1>6 DEF Survey, Job, record
  <2> QED
    BY <2>1 DEF LeftIsToDo
<1>7. CASE Load(p)
  <2>1. job[p].cmd = "continue" /\ job[p].at = "load" /\ disk \in Record
    BY <1>1, <1>2, <1>7 DEF Load, Update, Starts, Job
  <2>2. PICK at \in Stages : <<"continue", at>> \in Starts /\ Update(p, disk, at)
    BY <1>2, <1>7, <2>1 DEF Load
  <2>3. job'[p].mem = disk /\ job'[p].left = job[p].left /\ job'[p].at = "implement"
    BY <1>1, <2>2 DEF Update, Starts, Job
  <2> QED
    BY <2>1, <2>3 DEF LeftIsToDo
<1>8. CASE Plan(p)
  <2>1. job'[p].mem.results = NoResults /\ job'[p].mem.plan \subseteq Milestones
        /\ job'[p].at # "load"
    BY <1>1, <1>8, PlanRange DEF Plan, Job, Record
  <2>2. Done(job'[p].mem) = {}
    BY <2>1 DEF Done, NoResults, Success
  <2> QED
    BY <2>1, <2>2 DEF LeftIsToDo
<1>9. CASE Implement(p)
  <2>1. job[p].cmd = "continue" /\ job[p].at = "implement"
    <3>1. \E next \in job[p].left, result \in Result(p) : \E plan, left, mock, at, then :
           /\ job[p].cmd # "patches" => plan = job[p].mem.plan
           /\ job[p].cmd # "deliver" => left = job[p].left \ {next}
           /\ ~Collects(job[p].cmd, left) => at = "truncate"
           /\ job' = [job EXCEPT ![p] = [job[p] EXCEPT
                        !.mem = [job[p].mem EXCEPT !.plan = plan, !.results[next] = result,
                                                   !.mock = mock],
                        !.left = left, !.at = at, !.then = then]]
      BY <1>9, Implements, Zenon
    <3>2. job'[p].cmd = job[p].cmd
      BY <1>1, <3>1 DEF Job
    <3> QED
      BY <1>9, <3>2 DEF Implement
  <2>2. PICK next \in job[p].left :
           /\ job'[p].left = job[p].left \ {next}
           /\ job'[p].mem.plan = job[p].mem.plan
           /\ \A m \in Milestones \ {next} : job'[p].mem.results[m] = job[p].mem.results[m]
           /\ job'[p].at = "truncate"
    BY <1>9, <2>1, ContinueImplements
  <2>3. Done(job'[p].mem) \subseteq Done(job[p].mem) \cup {next}
    BY <1>1, <2>2, PlanRange DEF Done
  <2> QED
    BY <2>1, <2>2, <2>3 DEF LeftIsToDo
<1>10. CASE Gates(p) \/ Verify(p) \/ Decide(p) \/ Close(p) \/ Reload(p)
  <2>1. job'[p].at \notin {"load", "implement"}
        /\ (job'[p].at \in {"truncate", "write"} => job'[p].then = "idle")
    <3>1. \E mem, at : /\ Save(p, mem, "idle") \/ Update(p, mem, at)
                       /\ at \in {"verify", "decide", "close"}
      BY <1>2, <1>10 DEF Gates, Verify, Decide, Close, Reload
    <3> QED
      BY <1>1, <3>1 DEF Save, Update, Job
  <2> QED
    BY <2>1 DEF LeftIsToDo
<1>11. CASE Truncate(p)
  <2>1. /\ job[p].at = "truncate" /\ job'[p].at = "write" /\ job'[p].then = job[p].then
        /\ job'[p].left = job[p].left /\ job'[p].mem = job[p].mem /\ job'[p].cmd = job[p].cmd
    BY <1>1, <1>11 DEF Truncate, Goto, Job
  <2> QED
    BY <2>1 DEF LeftIsToDo
<1>12. CASE Write(p)
  <2>1. /\ job[p].at = "write" /\ job'[p].at = job[p].then /\ job'[p].then = job[p].then
        /\ job'[p].left = job[p].left /\ job'[p].mem = job[p].mem /\ job'[p].cmd = job[p].cmd
        /\ disk' = job[p].mem
    BY <1>1, <1>2, <1>12 DEF Write, Goto, Job
  <2> QED
    BY <1>1, <2>1 DEF LeftIsToDo, Job
<1> QED
  BY <1>3, <1>4, <1>5, <1>6, <1>7, <1>8, <1>9, <1>10, <1>11, <1>12 DEF Step

LEMMA ContinueSafety == Init /\ [][Next]_vars => []ContinueInv
<1>1. Init => ContinueInv
  BY DEF Init, ContinueInv, LeftIsToDo, Idle
<1>2. LifecycleInv /\ ContinueInv /\ [Next]_vars => ContinueInv'
  <2> SUFFICES ASSUME LifecycleInv, ContinueInv, [Next]_vars, NEW p \in Procs, Procs = {p}
               PROVE  LeftIsToDo(job'[p], disk')
    BY DEF ContinueInv, Alone
  <2>1. LeftIsToDo(job[p], disk) /\ TypeOK
    BY DEF ContinueInv, Alone, LifecycleInv
  <2>2. CASE UNCHANGED vars
    BY <2>1, <2>2 DEF vars
  <2>3. CASE Next
    BY <2>1, <2>3, ContinueStep DEF Next
  <2> QED
    BY <2>2, <2>3
<1>3. Init /\ [][Next]_vars => []LifecycleInv
  BY InitInv, NextInv, PTL
<1> QED
  BY <1>1, <1>2, <1>3, PTL

LEMMA NotRedone ==
  ASSUME LifecycleInv, ContinueInv, Alone, [Next]_vars, NEW p \in Procs,
         job[p].cmd = "continue", job[p].at = "implement", job'[p].at # "idle",
         NEW m \in Done(job[p].mem)
  PROVE  job'[p].mem.results[m] = job[p].mem.results[m]
<1>1. job \in [Procs -> Job] /\ job[p] \in Job /\ job[p].mem \in Record /\ m \in Milestones
  BY PlanRange DEF LifecycleInv, TypeOK, Job, Done
<1>2. m \notin job[p].left
  BY DEF ContinueInv, LeftIsToDo
<1>3. CASE UNCHANGED vars
  BY <1>3 DEF vars
<1>4. CASE Next
  <2>1. Create(p) \/ Begin(p) \/ Step(p) \/ Crash(p)
    BY <1>4 DEF Next, Alone
  <2>2. ~Crash(p)
    BY <1>1 DEF Crash, Exit, Idle
  <2>3. Implement(p)
    BY <2>1, <2>2 DEF Create, Begin, Step, LoadFails, Survey, Load, Plan, Gates, Verify,
       Decide, Close, Reload, Truncate, Write
  <2> QED
    BY <1>1, <1>2, <2>3, ContinueImplements DEF LifecycleInv
<1> QED
  BY <1>3, <1>4

(* ContinueNeverRedoes: for a single process, and any number of milestones
   and commands.                                                           *)
THEOREM ContinueNeverRedoesAlone ==
  ASSUME Alone PROVE Init /\ [][Next]_vars => ContinueNeverRedoes
<1> DEFINE Keeps ==
      \A p \in Procs :
        LET before == job[p].mem
            after == job'[p].mem
        IN job[p].cmd = "continue" /\ job[p].at = "implement" /\ job'[p].at # "idle" =>
             \A m \in Done(before) : after.results[m] = before.results[m]
<1>1. LifecycleInv /\ ContinueInv /\ [Next]_vars => [Keeps]_vars
  BY NotRedone
<1>2. Init /\ [][Next]_vars => []LifecycleInv
  BY InitInv, NextInv, PTL
<1>3. Init /\ [][Next]_vars => [][Keeps]_vars
  BY <1>1, <1>2, ContinueSafety, PTL
<1> QED
  BY <1>3 DEF ContinueNeverRedoes
-----------------------------------------------------------------------------
(* What the delivery left of a stage is in a snapshot, or the record is.   *)
FileKept(t) == \E id \in Ids : snapshot[id].files[t] = Delivered
RecordKept == \E id \in Ids : snapshot[id].made /\ snapshot[id].record = OriginalRecord

(* What has to be kept.                                                    *)
Guarded(t) == t \notin unguarded /\ Original(t) # Missing

(* A snapshot belongs to the replay that copies into it, and has nothing
   yet of what that one has still to copy.                                 *)
SnapshotsAreOnesOwn ==
  /\ \A id \in Ids : ~snapshot[id].made => snapshot[id] = NoSnapshot
  /\ \A p \in Replayers : replay[p].at = "copying" =>
       replay[p].kind # "step" /\ snapshot[replay[p].id].made
  /\ ~sharedId =>
       \A p \in Replayers : replay[p].at = "copying" =>
         /\ \A q \in Replayers \ {p} : replay[q].at = "copying" => replay[q].id # replay[p].id
         /\ \A s \in Stage : s >= replay[p].next =>
              snapshot[replay[p].id].files[Tags[s]] = Missing

(* What a replay has copied, or found copied, stays.                       *)
CopiesKept ==
  \A p \in Replayers :
    /\ replay[p].at = "copying" =>
         \A s \in Stage : s < replay[p].next /\ Guarded(Tags[s]) => FileKept(Tags[s])
    /\ replay[p].at = "running" /\ replay[p].kind # "step" =>
         \A t \in Tag : Guarded(t) => FileKept(t)
    /\ replay[p].at \in {"copying", "running"} /\ replay[p].kind # "step" =>
         RunStateFile \in unguarded \/ RecordKept

(* A replay that is alone leaves the record it carries and the documents in
   agreement, from its first stage to the one it is at.                    *)
AloneAgrees ==
  \A p \in Replayers : replay[p].alone =>
    /\ \A q \in Replayers \ {p} : replay[q].at = "idle"
    /\ replay[p].at = "running" =>
         \A s \in Stage : replay[p].from <= s /\ s < replay[p].next =>
           /\ replay[p].mem[Tags[s]] = replay[p].work
           /\ ~Silent(replay[p].mem, Tags[s]) => artifact[Tags[s]] = replay[p].work

OriginalsSafe ==
  /\ \A t \in Tag : Guarded(t) => artifact[t] = Delivered \/ FileKept(t)
  /\ RunStateFile \in unguarded \/ saved = OriginalRecord \/ RecordKept

ReplayInv ==
  /\ ReplayTypeOK
  /\ SnapshotsAreOnesOwn
  /\ ~sharedId => CopiesKept /\ OriginalsSafe
  /\ AloneAgrees

LEMMA TagFacts ==
  /\ Len(Tags) \in Nat /\ Len(Tags) >= 1 /\ Stage = 1..Len(Tags)
  /\ \A s, u \in Stage : s # u => Tags[s] # Tags[u]
  /\ \A s, u \in Stage :
       Tags[s] = "delivery" /\ Tags[u] \in {"product", "architecture"} => u < s
<1>1. /\ Tags \in Seq({ MILESTONE_TAGS[i] : i \in DOMAIN MILESTONE_TAGS }) /\ Tags # <<>>
      /\ \A s, u \in Stage : s < u =>
           \E i, j \in DOMAIN MILESTONE_TAGS :
             i < j /\ Tags[s] = MILESTONE_TAGS[i] /\ Tags[u] = MILESTONE_TAGS[j]
  BY ReplayAssumption DEF ReplayAssumption, Stage
<1>2. Len(Tags) \in Nat /\ Len(Tags) >= 1 /\ Stage = 1..Len(Tags)
  BY <1>1 DEF Stage
<1>3. DOMAIN MILESTONE_TAGS = 1..8
  BY DEF MILESTONE_TAGS
<1>4. \A i, j \in 1..8 : i < j =>
        /\ MILESTONE_TAGS[i] # MILESTONE_TAGS[j]
        /\ ~(MILESTONE_TAGS[i] = "delivery" /\ MILESTONE_TAGS[j] \in {"product", "architecture"})
  BY DEF MILESTONE_TAGS
<1>5. ASSUME NEW s \in Stage, NEW u \in Stage, s < u
      PROVE  /\ Tags[s] # Tags[u]
             /\ ~(Tags[s] = "delivery" /\ Tags[u] \in {"product", "architecture"})
  BY <1>1, <1>3, <1>4, <1>5
<1>6. \A s, u \in Stage : s # u => s < u \/ u < s
  BY <1>2
<1>7. "delivery" \notin {"product", "architecture"}
  OBVIOUS
<1> QED
  BY <1>2, <1>5, <1>6, <1>7

LEMMA ReplayConstants ==
  /\ NoArtifacts \in Versions /\ OriginalRecord \in Versions
  /\ \A t \in Tag : Original(t) \in {Missing, Delivered} /\ NoArtifacts[t] = Missing
  /\ \A s \in Stage, c \in 0..MaxSeconds : <<c, s>> \in Ids
  /\ AtRest \in ReplayType /\ AtRest.at = "idle" /\ ~AtRest.alone
  /\ NoSnapshot \in SnapshotType
  /\ 1 \in Stage /\ \A s \in Stage : s + 1 \in 1..(Len(Tags) + 1) /\ Tags[s] \in Tag
  /\ \A t \in Tag : \E s \in Stage : t = Tags[s]
  /\ Missing \in Works /\ Delivered \in Works /\ Missing # Delivered
<1>1. MaxReplays \in Nat /\ MaxSeconds \in Nat
  BY ReplayAssumption DEF ReplayAssumption
<1>2. Missing \in Works /\ Delivered \in Works /\ Missing # Delivered
  BY <1>1 DEF Works, Missing, Delivered
<1>3. /\ NoArtifacts \in Versions /\ OriginalRecord \in Versions
      /\ \A t \in Tag : Original(t) \in {Missing, Delivered} /\ NoArtifacts[t] = Missing
  BY <1>2 DEF NoArtifacts, OriginalRecord, Versions, Original
<1>4. /\ 1 \in Stage /\ \A s \in Stage : s + 1 \in 1..(Len(Tags) + 1) /\ Tags[s] \in Tag
      /\ \A t \in Tag : \E s \in Stage : t = Tags[s]
  BY TagFacts DEF Tag
<1>5. \A s \in Stage, c \in 0..MaxSeconds : <<c, s>> \in Ids
  BY DEF Ids
<1>6. AtRest \in ReplayType /\ AtRest.at = "idle" /\ ~AtRest.alone
  <2>1. <<0, 1>> \in Ids /\ 1 \in 1..(Len(Tags) + 1) /\ 0 \in Works
    BY <1>1, <1>4, <1>5, TagFacts DEF Works
  <2> QED
    BY <1>3, <1>4, <2>1 DEF AtRest, ReplayType
<1>7. NoSnapshot \in SnapshotType
  BY <1>3 DEF NoSnapshot, SnapshotType
<1> QED
  BY <1>2, <1>3, <1>4, <1>5, <1>6, <1>7

LEMMA ReplayInitInv == ReplayInit => ReplayInv
<1> SUFFICES ASSUME ReplayInit PROVE ReplayInv
  OBVIOUS
<1>1. ReplayTypeOK
  <2>1. artifact \in [Tag -> Works \cup {Gone}] /\ saved \in Versions
    BY ReplayConstants DEF ReplayInit
  <2>2. snapshot \in [Ids -> SnapshotType] /\ replay \in [Replayers -> ReplayType]
    BY ReplayConstants DEF ReplayInit
  <2>3. begun \in 0..MaxReplays /\ clock \in 0..MaxSeconds
    BY ReplayAssumption DEF ReplayAssumption, ReplayInit
  <2> QED
    BY <2>1, <2>2, <2>3 DEF ReplayInit, ReplayTypeOK
<1>2. \A p \in Replayers : replay[p].at = "idle" /\ ~replay[p].alone
  BY ReplayConstants DEF ReplayInit
<1>3. SnapshotsAreOnesOwn /\ CopiesKept /\ AloneAgrees
  BY <1>2 DEF SnapshotsAreOnesOwn, CopiesKept, AloneAgrees, ReplayInit
<1>4. OriginalsSafe
  BY ReplayConstants DEF OriginalsSafe, ReplayInit, Guarded
<1> QED
  BY <1>1, <1>3, <1>4 DEF ReplayInv

(* Each action keeps the types.                                            *)
LEMMA SecondTypes == ASSUME ReplayTypeOK, Second PROVE ReplayTypeOK'
  BY ReplayAssumption DEF ReplayAssumption, ReplayTypeOK, Second, Original

(* A replay begins: it is alone if nobody else is at work.                 *)
LEMMA Started ==
  ASSUME ReplayTypeOK, NEW p \in Replayers, StartReplay(p)
  PROVE  /\ replay' \in [Replayers -> ReplayType]
         /\ replay'[p].at \in {"clearing", "loading"}
         /\ replay'[p].alone = (Others(p) = {})
         /\ \A q \in Replayers \ {p} : replay'[q] = [replay[q] EXCEPT !.alone = FALSE]
         /\ begun' \in 0..MaxReplays
         /\ UNCHANGED <<reached, artifact, saved, snapshot, clock, sharedId, unguarded>>
<1>1. PICK kind \in {"stage", "milestone", "step"}, s \in Stage :
        replay' = [q \in Replayers |->
          IF q = p
          THEN [AtRest EXCEPT
                  !.at = IF kind = "milestone" THEN "clearing" ELSE "loading",
                  !.kind = kind, !.from = s, !.next = s + 1,
                  !.work = begun + 2, !.alone = Others(p) = {}]
          ELSE [replay[q] EXCEPT !.alone = FALSE]]
  BY DEF StartReplay
<1> DEFINE alone == Others(p) = {}
           begins == [AtRest EXCEPT
                  !.at = IF kind = "milestone" THEN "clearing" ELSE "loading",
                  !.kind = kind, !.from = s, !.next = s + 1,
                  !.work = begun + 2, !.alone = alone]
<1>2. begun + 2 \in Works /\ begun' \in 0..MaxReplays
  <2>1. begun < MaxReplays /\ begun' = begun + 1
    BY DEF StartReplay
  <2> QED
    BY <2>1, ReplayAssumption DEF ReplayAssumption, ReplayTypeOK, Works
<1>3. alone \in BOOLEAN
  OBVIOUS
<1> HIDE DEF alone
<1>4. begins \in ReplayType /\ begins.at \in {"clearing", "loading"} /\ begins.alone = alone
  BY <1>2, <1>3, ReplayConstants DEF ReplayType
<1>5. \A q \in Replayers : [replay[q] EXCEPT !.alone = FALSE] \in ReplayType
  BY ZenonT(30) DEF ReplayTypeOK, ReplayType
<1>6. replay' = [q \in Replayers |-> IF q = p THEN begins ELSE [replay[q] EXCEPT !.alone = FALSE]]
  BY <1>1 DEF alone
<1> HIDE DEF begins
<1>7. replay' \in [Replayers -> ReplayType] /\ replay'[p] = begins
  BY <1>4, <1>5, <1>6
<1> QED
  BY <1>2, <1>4, <1>6, <1>7 DEF StartReplay, alone

LEMMA StartTypes == ASSUME ReplayTypeOK, NEW p \in Replayers, StartReplay(p) PROVE ReplayTypeOK'
  BY Started DEF ReplayTypeOK

LEMMA ClearTypes == ASSUME ReplayTypeOK, NEW p \in Replayers, Clear(p) PROVE ReplayTypeOK'
<1>1. replay[p] \in ReplayType
  BY DEF ReplayTypeOK
<1>2. CASE replay[p].next \in Stage
  <2>1. /\ artifact' = [artifact EXCEPT ![Tags[replay[p].next]] = Gone]
        /\ unguarded' = unguarded \cup {Tags[replay[p].next]}
        /\ replay' = [replay EXCEPT ![p].next = replay[p].next + 1]
        /\ UNCHANGED <<reached, saved, snapshot, begun, clock, sharedId>>
    BY <1>2 DEF Clear
  <2>2. replay[p].next + 1 \in 1..(Len(Tags) + 1) /\ Tags[replay[p].next] \in Tag
    BY <1>2, ReplayConstants
  <2>3. replay' \in [Replayers -> ReplayType]
    BY <1>1, <2>1, <2>2 DEF ReplayTypeOK, ReplayType
  <2> QED
    BY <2>1, <2>2, <2>3 DEF ReplayTypeOK
<1>3. CASE replay[p].next \notin Stage
  <2>1. /\ replay' = [replay EXCEPT ![p].at = "loading"]
        /\ UNCHANGED <<reached, artifact, saved, snapshot, begun, clock, sharedId, unguarded>>
    BY <1>3 DEF Clear
  <2>2. replay' \in [Replayers -> ReplayType]
    BY <1>1, <2>1 DEF ReplayTypeOK, ReplayType
  <2> QED
    BY <2>1, <2>2 DEF ReplayTypeOK
<1> QED
  BY <1>2, <1>3

LEMMA LoadRunTypes == ASSUME ReplayTypeOK, NEW p \in Replayers, LoadRun(p) PROVE ReplayTypeOK'
<1> DEFINE r == replay[p]
           id == <<clock, r.from>>
<1>1. r \in ReplayType /\ saved \in Versions /\ r.from \in Stage /\ id \in Ids
  BY ReplayConstants DEF ReplayTypeOK, ReplayType
<1>2. CASE r.kind = "step"
  <2>1. replay' = [replay EXCEPT ![p] = [r EXCEPT !.at = "running", !.mem = saved, !.next = r.from]]
        /\ UNCHANGED <<reached, artifact, saved, snapshot, begun, clock, sharedId, unguarded>>
    BY <1>2 DEF LoadRun
  <2>2. r.from \in 1..(Len(Tags) + 1)
    BY <1>1, TagFacts
  <2>3. replay' \in [Replayers -> ReplayType]
    BY <1>1, <2>1, <2>2 DEF ReplayTypeOK, ReplayType
  <2> QED
    BY <2>1, <2>3 DEF ReplayTypeOK
<1>3. CASE r.kind # "step"
  <2>1. /\ replay' = [replay EXCEPT ![p] = [r EXCEPT !.at = "copying", !.mem = saved,
                                                   !.id = id, !.next = 1]]
        /\ sharedId' = (sharedId \/ snapshot[id].made)
        /\ snapshot' = [snapshot EXCEPT ![id] =
                          [made |-> TRUE, record |-> saved, files |-> @.files]]
        /\ UNCHANGED <<reached, artifact, saved, begun, clock, unguarded>>
    BY <1>3 DEF LoadRun
  <2>2. 1 \in 1..(Len(Tags) + 1)
    BY TagFacts
  <2> HIDE DEF id
  <2>3. replay' \in [Replayers -> ReplayType]
    BY <1>1, <2>1, <2>2 DEF ReplayTypeOK, ReplayType
  <2>4. snapshot' \in [Ids -> SnapshotType] /\ sharedId' \in BOOLEAN
    BY <1>1, <2>1 DEF ReplayTypeOK, SnapshotType
  <2> QED
    BY <2>1, <2>3, <2>4 DEF ReplayTypeOK
<1> QED
  BY <1>2, <1>3

LEMMA CopyTypes == ASSUME ReplayTypeOK, NEW p \in Replayers, Copy(p) PROVE ReplayTypeOK'
<1> DEFINE r == replay[p]
<1>1. r \in ReplayType /\ r.from \in Stage /\ r.id \in Ids
  BY DEF ReplayTypeOK, ReplayType
<1>2. CASE r.next \in Stage
  <2> DEFINE t == Tags[r.next]
  <2>1. /\ replay' = [replay EXCEPT ![p].next = r.next + 1]
        /\ snapshot' = IF artifact[t] \in {Missing, Gone} THEN snapshot
                       ELSE [snapshot EXCEPT ![r.id].files[t] = artifact[t]]
        /\ UNCHANGED <<reached, artifact, saved, begun, clock, sharedId, unguarded>>
    BY <1>2 DEF Copy
  <2>2. r.next + 1 \in 1..(Len(Tags) + 1) /\ t \in Tag
    BY <1>2, ReplayConstants
  <2>3. replay' \in [Replayers -> ReplayType]
    BY <1>1, <2>1, <2>2 DEF ReplayTypeOK, ReplayType
  <2>4. artifact[t] # Gone => artifact[t] \in Works
    BY <2>2 DEF ReplayTypeOK
  <2> HIDE DEF t
  <2>5. snapshot' \in [Ids -> SnapshotType]
    BY <1>1, <2>1, <2>2, <2>4 DEF ReplayTypeOK, SnapshotType, Versions
  <2> QED
    BY <2>1, <2>3, <2>5 DEF ReplayTypeOK
<1>3. CASE r.next \notin Stage
  <2>1. /\ replay' = [replay EXCEPT ![p].at = "running", ![p].next = r.from]
        /\ UNCHANGED <<reached, artifact, saved, snapshot, begun, clock, sharedId, unguarded>>
    BY <1>3 DEF Copy
  <2>2. r.from \in 1..(Len(Tags) + 1)
    BY <1>1, TagFacts
  <2>3. replay' \in [Replayers -> ReplayType]
    BY <1>1, <2>1, <2>2 DEF ReplayTypeOK, ReplayType
  <2> QED
    BY <2>1, <2>3 DEF ReplayTypeOK
<1> QED
  BY <1>2, <1>3

LEMMA RunTypes == ASSUME ReplayTypeOK, NEW p \in Replayers, RunStage(p) PROVE ReplayTypeOK'
<1> DEFINE r == replay[p]
           t == Tags[r.next]
<1>1. r \in ReplayType /\ r.next \in Stage /\ t \in Tag /\ r.next + 1 \in 1..(Len(Tags) + 1)
      /\ r.work \in Works /\ r.mem \in Versions
  BY ReplayConstants DEF ReplayTypeOK, ReplayType, RunStage
<1>2. /\ replay' = [replay EXCEPT ![p] = [r EXCEPT !.next = @ + 1, !.mem = [@ EXCEPT ![t] = r.work]]]
      /\ artifact' = IF Silent(r.mem, t) THEN artifact ELSE [artifact EXCEPT ![t] = r.work]
      /\ unguarded' = IF r.kind = "step" THEN unguarded \cup {t} ELSE unguarded
      /\ UNCHANGED <<reached, saved, snapshot, begun, clock, sharedId>>
  BY DEF RunStage
<1> HIDE DEF t
<1>3. [r.mem EXCEPT ![t] = r.work] \in Versions
  BY <1>1 DEF Versions
<1>4. replay' \in [Replayers -> ReplayType]
  BY <1>1, <1>2, <1>3 DEF ReplayTypeOK, ReplayType
<1>5. artifact' \in [Tag -> Works \cup {Gone}] /\ unguarded' \subseteq Tag \cup {RunStateFile}
  BY <1>1, <1>2 DEF ReplayTypeOK
<1> QED
  BY <1>2, <1>4, <1>5 DEF ReplayTypeOK

LEMMA SaveTypes == ASSUME ReplayTypeOK, NEW p \in Replayers, SaveReplay(p) PROVE ReplayTypeOK'
<1>1. replay[p] \in ReplayType /\ replay[p].mem \in Versions
  BY DEF ReplayTypeOK, ReplayType
<1>2. replay' \in [Replayers -> ReplayType]
  BY ReplayConstants DEF ReplayTypeOK, SaveReplay
<1> QED
  BY <1>1, <1>2 DEF ReplayTypeOK, SaveReplay

LEMMA AbortTypes == ASSUME ReplayTypeOK, NEW p \in Replayers, AbortReplay(p) PROVE ReplayTypeOK'
<1>1. replay' \in [Replayers -> ReplayType]
  BY ReplayConstants DEF ReplayTypeOK, AbortReplay
<1> QED
  BY <1>1 DEF ReplayTypeOK, AbortReplay

(* What is kept stays while the snapshots do.                              *)
LEMMA StillKept ==
  ASSUME UNCHANGED <<reached, snapshot>>, unguarded \subseteq unguarded'
  PROVE  /\ RecordKept' <=> RecordKept
         /\ \A t : /\ FileKept(t)' <=> FileKept(t)
                   /\ Guarded(t)' => Guarded(t)
                   /\ Original(t)' = Original(t)
         /\ OriginalRecord' = OriginalRecord
BY DEF FileKept, RecordKept, Guarded, Original, OriginalRecord

(* A replay that is neither copying nor running has nothing to answer for. *)
LEMMA QuietStep ==
  ASSUME ReplayInv, ReplayTypeOK', NEW p \in Replayers,
         replay'[p].at \in {"idle", "clearing", "loading"},
         replay'[p].alone => replay[p].alone \/ \A q \in Replayers \ {p} : replay[q].at = "idle",
         \A q \in Replayers \ {p} : replay'[q] = replay[q],
         replay'[p].at # "idle" => replay[p].at # "idle" \/ \A q \in Replayers \ {p} : ~replay[q].alone,
         unguarded \subseteq unguarded',
         \A t \in Tag : t \notin unguarded' => artifact'[t] = artifact[t],
         artifact' = artifact \/ \A q \in Replayers \ {p} : ~replay[q].alone,
         saved' = saved \/ RunStateFile \in unguarded' \/ RecordKept \/ sharedId,
         UNCHANGED <<reached, snapshot, sharedId>>
  PROVE  ReplayInv'
<1>1. SnapshotsAreOnesOwn'
  BY DEF ReplayInv, SnapshotsAreOnesOwn
<1>2. ~sharedId => CopiesKept'
  BY StillKept DEF ReplayInv, CopiesKept
<1>3. ~sharedId => OriginalsSafe'
  BY StillKept DEF ReplayInv, OriginalsSafe, Guarded
<1>4. AloneAgrees'
  BY DEF ReplayInv, AloneAgrees
<1> QED
  BY <1>1, <1>2, <1>3, <1>4 DEF ReplayInv

(* Whoever is at work beside p is not alone.                               *)
LEMMA NobodyElseAlone ==
  ASSUME ReplayInv, NEW p \in Replayers, replay[p].at # "idle"
  PROVE  \A q \in Replayers \ {p} : ~replay[q].alone
BY DEF ReplayInv, AloneAgrees

LEMMA SecondStep == ASSUME ReplayInv, Second PROVE ReplayInv'
<1>1. ReplayTypeOK' /\ UNCHANGED <<reached, artifact, saved, snapshot, replay, sharedId, unguarded>>
  BY SecondTypes DEF ReplayInv, Second
<1>2. SnapshotsAreOnesOwn' /\ AloneAgrees'
  BY <1>1 DEF ReplayInv, SnapshotsAreOnesOwn, AloneAgrees
<1>3. ~sharedId => CopiesKept' /\ OriginalsSafe'
  BY <1>1, StillKept DEF ReplayInv, CopiesKept, OriginalsSafe
<1> QED
  BY <1>1, <1>2, <1>3 DEF ReplayInv

LEMMA AbortStep == ASSUME ReplayInv, NEW p \in Replayers, AbortReplay(p) PROVE ReplayInv'
<1>1. ReplayTypeOK' /\ replay \in [Replayers -> ReplayType]
  BY AbortTypes DEF ReplayInv, ReplayTypeOK
<1>2. /\ replay' = [replay EXCEPT ![p] = AtRest]
      /\ UNCHANGED <<reached, artifact, saved, snapshot, sharedId, unguarded>>
  BY DEF AbortReplay
<1>3. replay'[p] = AtRest /\ \A q \in Replayers \ {p} : replay'[q] = replay[q]
  BY <1>1, <1>2
<1> QED
  BY <1>1, <1>2, <1>3, ReplayConstants, QuietStep

LEMMA SaveStep == ASSUME ReplayInv, NEW p \in Replayers, SaveReplay(p) PROVE ReplayInv'
<1>1. ReplayTypeOK' /\ replay \in [Replayers -> ReplayType]
  BY SaveTypes DEF ReplayInv, ReplayTypeOK
<1>2. /\ replay' = [replay EXCEPT ![p] = AtRest] /\ replay[p].at = "running"
      /\ unguarded' = IF replay[p].kind = "step" THEN unguarded \cup {RunStateFile} ELSE unguarded
      /\ UNCHANGED <<reached, artifact, snapshot, sharedId>>
  BY DEF SaveReplay
<1>3. replay'[p] = AtRest /\ \A q \in Replayers \ {p} : replay'[q] = replay[q]
  BY <1>1, <1>2
<1>4. RunStateFile \in unguarded' \/ RecordKept \/ sharedId
  BY <1>2 DEF ReplayInv, CopiesKept
<1> QED
  BY <1>1, <1>2, <1>3, <1>4, ReplayConstants, QuietStep

LEMMA ClearStep == ASSUME ReplayInv, NEW p \in Replayers, Clear(p) PROVE ReplayInv'
<1>1. /\ ReplayTypeOK' /\ replay \in [Replayers -> ReplayType]
      /\ artifact \in [Tag -> Works \cup {Gone}]
  BY ClearTypes DEF ReplayInv, ReplayTypeOK
<1>2. /\ replay[p].at = "clearing" /\ \A q \in Replayers \ {p} : ~replay[q].alone
      /\ UNCHANGED <<reached, saved, snapshot, sharedId>>
  BY NobodyElseAlone DEF Clear
<1>3. CASE replay[p].next \in Stage
  <2>1. /\ replay' = [replay EXCEPT ![p].next = replay[p].next + 1]
        /\ artifact' = [artifact EXCEPT ![Tags[replay[p].next]] = Gone]
        /\ unguarded' = unguarded \cup {Tags[replay[p].next]}
    BY <1>3 DEF Clear
  <2>2. /\ replay'[p].at = "clearing" /\ replay'[p].alone = replay[p].alone
        /\ \A q \in Replayers \ {p} : replay'[q] = replay[q]
    BY <1>1, <1>2, <2>1 DEF ReplayType
  <2>3. \A t \in Tag : t \notin unguarded' => artifact'[t] = artifact[t]
    BY <1>1, <2>1
  <2> QED
    BY <1>1, <1>2, <2>1, <2>2, <2>3, QuietStep
<1>4. CASE replay[p].next \notin Stage
  <2>1. replay' = [replay EXCEPT ![p].at = "loading"] /\ UNCHANGED <<artifact, unguarded>>
    BY <1>4 DEF Clear
  <2>2. /\ replay'[p].at = "loading" /\ replay'[p].alone = replay[p].alone
        /\ \A q \in Replayers \ {p} : replay'[q] = replay[q]
    BY <1>1, <2>1 DEF ReplayType
  <2> QED
    BY <1>1, <1>2, <2>1, <2>2, QuietStep
<1> QED
  BY <1>3, <1>4

(* Who was alone is so no longer, whoever else begins.                     *)
LEMMA StartStep == ASSUME ReplayInv, NEW p \in Replayers, StartReplay(p) PROVE ReplayInv'
<1>1. /\ ReplayTypeOK' /\ replay \in [Replayers -> ReplayType]
      /\ replay' \in [Replayers -> ReplayType]
  BY StartTypes DEF ReplayInv, ReplayTypeOK
<1>2. /\ replay'[p].at \in {"clearing", "loading"}
      /\ replay'[p].alone = (Others(p) = {})
      /\ UNCHANGED <<reached, artifact, saved, snapshot, clock, sharedId, unguarded>>
  BY Started DEF ReplayInv
<1>3. ASSUME NEW q \in Replayers \ {p}
      PROVE  /\ replay'[q].at = replay[q].at /\ replay'[q].kind = replay[q].kind
             /\ replay'[q].next = replay[q].next /\ replay'[q].id = replay[q].id
             /\ ~replay'[q].alone
  <2>1. replay'[q] = [replay[q] EXCEPT !.alone = FALSE] /\ replay[q] \in ReplayType
    BY <1>1, Started DEF ReplayInv
  <2> QED
    BY <2>1 DEF ReplayType
<1>4. SnapshotsAreOnesOwn'
  BY <1>2, <1>3 DEF ReplayInv, SnapshotsAreOnesOwn
<1>5. ~sharedId => CopiesKept' /\ OriginalsSafe'
  BY <1>2, <1>3, StillKept DEF ReplayInv, CopiesKept, OriginalsSafe
<1>6. replay'[p].alone => \A q \in Replayers \ {p} : replay'[q].at = "idle"
  BY <1>2, <1>3 DEF Others
<1>7. AloneAgrees'
  BY <1>2, <1>3, <1>6 DEF AloneAgrees
<1> QED
  BY <1>1, <1>2, <1>4, <1>5, <1>7 DEF ReplayInv

(* A replay loads the record and, unless it starts from a step, takes a
   snapshot of it under an id that is new unless it is shared.             *)
LEMMA LoadRunStep == ASSUME ReplayInv, NEW p \in Replayers, LoadRun(p) PROVE ReplayInv'
<1> DEFINE r == replay[p]
           id == <<clock, r.from>>
<1>1. /\ ReplayTypeOK' /\ replay \in [Replayers -> ReplayType] /\ r \in ReplayType
      /\ saved \in Versions /\ r.from \in Stage /\ id \in Ids
      /\ snapshot \in [Ids -> SnapshotType]
  BY LoadRunTypes, ReplayConstants DEF ReplayInv, ReplayTypeOK, ReplayType
<1>2. /\ r.at = "loading" /\ UNCHANGED <<reached, artifact, saved, begun, clock, unguarded>>
      /\ \A q \in Replayers \ {p} : ~replay[q].alone
  BY NobodyElseAlone DEF LoadRun
<1>3. CASE r.kind = "step"
  <2>1. /\ replay' = [replay EXCEPT ![p] = [r EXCEPT !.at = "running", !.mem = saved,
                                                   !.next = r.from]]
        /\ UNCHANGED <<snapshot, sharedId>>
    BY <1>3 DEF LoadRun
  <2>2. /\ replay'[p].at = "running" /\ replay'[p].kind = "step"
        /\ replay'[p].next = replay'[p].from /\ replay'[p].alone = r.alone
        /\ \A q \in Replayers \ {p} : replay'[q] = replay[q]
    BY <1>1, <1>3, <2>1 DEF ReplayType
  <2>3. SnapshotsAreOnesOwn'
    BY <2>1, <2>2 DEF ReplayInv, SnapshotsAreOnesOwn
  <2>4. ~sharedId => CopiesKept' /\ OriginalsSafe'
    BY <1>2, <2>1, <2>2, StillKept DEF ReplayInv, CopiesKept, OriginalsSafe
  <2>5. AloneAgrees'
    <3>1. replay'[p].from \in Nat
      BY <1>1, <2>1, TagFacts DEF ReplayType
    <3> QED
      BY <1>2, <2>2, <3>1, TagFacts DEF ReplayInv, AloneAgrees
  <2> QED
    BY <1>1, <2>1, <2>3, <2>4, <2>5 DEF ReplayInv
<1>4. CASE r.kind # "step"
  <2>1. /\ replay' = [replay EXCEPT ![p] = [r EXCEPT !.at = "copying", !.mem = saved,
                                                   !.id = id, !.next = 1]]
        /\ sharedId' = (sharedId \/ snapshot[id].made)
        /\ snapshot' = [snapshot EXCEPT ![id] =
                          [made |-> TRUE, record |-> saved, files |-> @.files]]
    BY <1>4 DEF LoadRun
  <2> HIDE DEF id
  <2>2. /\ replay'[p].at = "copying" /\ replay'[p].kind # "step" /\ replay'[p].id = id
        /\ replay'[p].next = 1 /\ replay'[p].alone = r.alone
        /\ \A q \in Replayers \ {p} : replay'[q] = replay[q]
    BY <1>1, <1>4, <2>1 DEF ReplayType
  <2>3. /\ snapshot'[id].made /\ snapshot'[id].record = saved
        /\ snapshot'[id].files = snapshot[id].files
        /\ \A other \in Ids \ {id} : snapshot'[other] = snapshot[other]
    BY <1>1, <2>1
  <2>4. ASSUME ~sharedId'
        PROVE  /\ ~sharedId /\ ~snapshot[id].made /\ snapshot[id] = NoSnapshot
               /\ \A q \in Replayers \ {p} : replay[q].at = "copying" => replay[q].id # id
    <3>1. ~sharedId /\ ~snapshot[id].made
      BY <2>1, <2>4
    <3> QED
      BY <1>1, <3>1 DEF ReplayInv, SnapshotsAreOnesOwn
  <2>5. \A q \in Replayers : replay[q] \in ReplayType /\ replay[q].id \in Ids
    BY <1>1 DEF ReplayType
  <2>6. SnapshotsAreOnesOwn'
    <3>1. \A i \in Ids : ~snapshot'[i].made => snapshot'[i] = NoSnapshot
      BY <2>3 DEF ReplayInv, SnapshotsAreOnesOwn
    <3>2. \A q \in Replayers : replay'[q].at = "copying" =>
            replay'[q].kind # "step" /\ snapshot'[replay'[q].id].made
      BY <2>2, <2>3, <2>5 DEF ReplayInv, SnapshotsAreOnesOwn
    <3>3. ASSUME ~sharedId', NEW q \in Replayers, replay'[q].at = "copying"
          PROVE  /\ \A o \in Replayers \ {q} : replay'[o].at = "copying" => replay'[o].id # replay'[q].id
                 /\ \A s \in Stage : s >= replay'[q].next =>
                      snapshot'[replay'[q].id].files[Tags[s]] = Missing
      <4>1. CASE q = p
        BY <2>2, <2>3, <2>4, <3>3, <4>1, ReplayConstants DEF NoSnapshot
      <4>2. CASE q # p
        BY <2>2, <2>3, <2>4, <2>5, <3>3, <4>2 DEF ReplayInv, SnapshotsAreOnesOwn
      <4> QED
        BY <4>1, <4>2
    <3> QED
      BY <3>1, <3>2, <3>3 DEF SnapshotsAreOnesOwn
  <2>7. ASSUME ~sharedId' PROVE CopiesKept' /\ OriginalsSafe'
    <3>1. \A t : /\ FileKept(t) => FileKept(t)'
                 /\ Guarded(t)' => Guarded(t)
      BY <1>2, <2>3 DEF FileKept, Guarded, Original
    <3>2. OriginalRecord' = OriginalRecord
      BY <1>2 DEF OriginalRecord
    <3>3. RecordKept => RecordKept'
      BY <2>3, <2>4, <2>7, <3>2 DEF RecordKept
    <3>4. saved = OriginalRecord => RecordKept'
      BY <1>1, <2>3, <3>2 DEF RecordKept
    <3>5. OriginalsSafe'
      BY <1>2, <2>4, <2>7, <3>1, <3>3, <3>4 DEF ReplayInv, OriginalsSafe
    <3>6. RunStateFile \in unguarded' \/ RecordKept'
      BY <1>2, <2>4, <2>7, <3>3, <3>4 DEF ReplayInv, OriginalsSafe
    <3>7. \A s \in Stage : ~(s < 1)
      BY TagFacts
    <3>8. CopiesKept'
      BY <1>2, <2>2, <2>4, <2>7, <3>1, <3>3, <3>6, <3>7 DEF ReplayInv, CopiesKept
    <3> QED
      BY <3>5, <3>8
  <2>8. AloneAgrees'
    BY <1>2, <2>2 DEF ReplayInv, AloneAgrees
  <2> QED
    BY <1>1, <2>6, <2>7, <2>8 DEF ReplayInv
<1> QED
  BY <1>3, <1>4

(* A replay copies what is there into a snapshot of its own, so it loses
   nothing that another snapshot has.                                      *)
LEMMA CopyStep == ASSUME ReplayInv, NEW p \in Replayers, Copy(p) PROVE ReplayInv'
<1> DEFINE r == replay[p]
<1>1. /\ ReplayTypeOK' /\ replay \in [Replayers -> ReplayType] /\ r \in ReplayType
      /\ r.from \in Stage /\ r.id \in Ids /\ r.next \in Nat
      /\ snapshot \in [Ids -> SnapshotType]
  <2>1. ReplayTypeOK'
    BY CopyTypes DEF ReplayInv
  <2>2. replay \in [Replayers -> ReplayType] /\ snapshot \in [Ids -> SnapshotType]
    BY DEF ReplayInv, ReplayTypeOK
  <2>3. r \in ReplayType
    BY <2>2
  <2>4. r.from \in Stage /\ r.id \in Ids /\ r.next \in Nat
    <3> HIDE DEF r
    <3> QED
      BY <2>3, TagFacts DEF ReplayType
  <2> QED
    BY <2>1, <2>2, <2>3, <2>4
<1>2. /\ r.at = "copying" /\ r.kind # "step"
      /\ UNCHANGED <<reached, artifact, saved, sharedId, unguarded>>
      /\ \A q \in Replayers \ {p} : ~replay[q].alone
  BY NobodyElseAlone DEF Copy, ReplayInv, SnapshotsAreOnesOwn
<1>3. ASSUME NEW n \in Stage, r.next = n PROVE ReplayInv'
  <2> DEFINE t == Tags[n]
             there == artifact[t] \notin {Missing, Gone}
  <2>1. /\ replay' = [replay EXCEPT ![p].next = n + 1]
        /\ snapshot' = IF ~there THEN snapshot
                       ELSE [snapshot EXCEPT ![r.id].files[t] = artifact[t]]
    BY <1>3 DEF Copy
  <2>2. /\ replay'[p].at = "copying" /\ replay'[p].kind # "step"
        /\ replay'[p].id = r.id /\ replay'[p].next = n + 1
        /\ replay'[p].alone = r.alone
        /\ \A q \in Replayers \ {p} : replay'[q] = replay[q]
    BY <1>1, <1>2, <2>1 DEF ReplayType
  <2>3. t \in Tag /\ \A s \in Stage : s # n => Tags[s] # t
    BY <1>3, TagFacts, ReplayConstants
  <2>4. /\ \A i \in Ids : /\ snapshot'[i].made = snapshot[i].made
                          /\ snapshot'[i].record = snapshot[i].record
        /\ \A i \in Ids \ {r.id} : snapshot'[i] = snapshot[i]
        /\ \A u \in Tag \ {t} : snapshot'[r.id].files[u] = snapshot[r.id].files[u]
        /\ snapshot'[r.id].files[t] = IF there THEN artifact[t] ELSE snapshot[r.id].files[t]
    <3> HIDE DEF t, there
    <3> QED
      BY <1>1, <2>1, <2>3 DEF SnapshotType, Versions
  <2>5. ASSUME ~sharedId
        PROVE  /\ snapshot[r.id].files[t] = Missing
               /\ \A q \in Replayers \ {p} : replay[q].at = "copying" => replay[q].id # r.id
    BY <1>1, <1>2, <1>3, <2>5 DEF ReplayInv, SnapshotsAreOnesOwn
  <2>6. SnapshotsAreOnesOwn'
    <3>1. snapshot[r.id].made
      BY <1>2 DEF ReplayInv, SnapshotsAreOnesOwn
    <3>2. \A i \in Ids : ~snapshot'[i].made => snapshot'[i] = NoSnapshot
      BY <2>4, <3>1 DEF ReplayInv, SnapshotsAreOnesOwn
    <3>3. \A q \in Replayers : replay[q].id \in Ids
      BY <1>1 DEF ReplayType
    <3>4. \A q \in Replayers : replay'[q].at = "copying" =>
            replay'[q].kind # "step" /\ snapshot'[replay'[q].id].made
      BY <1>1, <2>2, <2>4, <3>1, <3>3 DEF ReplayInv, SnapshotsAreOnesOwn
    <3>5. ASSUME ~sharedId', NEW q \in Replayers, replay'[q].at = "copying"
          PROVE  /\ \A o \in Replayers \ {q} : replay'[o].at = "copying" => replay'[o].id # replay'[q].id
                 /\ \A s \in Stage : s >= replay'[q].next =>
                      snapshot'[replay'[q].id].files[Tags[s]] = Missing
      <4>1. ~sharedId
        BY <1>2, <3>5
      <4>2. CASE q = p
        <5>1. \A s \in Stage : s >= n + 1 => s >= n /\ s # n /\ Tags[s] \in Tag \ {t}
          BY <1>1, <2>3, TagFacts, ReplayConstants
        <5>2. \A s \in Stage : s >= n => snapshot[r.id].files[Tags[s]] = Missing
          BY <1>2, <1>3, <4>1 DEF ReplayInv, SnapshotsAreOnesOwn
        <5> QED
          BY <2>2, <2>4, <2>5, <4>1, <4>2, <5>1, <5>2
      <4>3. CASE q # p
        <5>1. replay'[q] = replay[q] /\ replay[q].id # r.id /\ snapshot'[replay[q].id] = snapshot[replay[q].id]
          BY <2>2, <2>4, <2>5, <3>3, <3>5, <4>1, <4>3
        <5>2. \A o \in Replayers : replay'[o].at = replay[o].at /\ replay'[o].id = replay[o].id
          BY <1>2, <2>2
        <5> QED
          BY <3>5, <4>1, <5>1, <5>2 DEF ReplayInv, SnapshotsAreOnesOwn
      <4> QED
        BY <4>2, <4>3
    <3> QED
      BY <3>2, <3>4, <3>5 DEF SnapshotsAreOnesOwn
  <2>7. ASSUME ~sharedId PROVE CopiesKept' /\ OriginalsSafe'
    <3>1. /\ \A u : Guarded(u)' <=> Guarded(u)
          /\ OriginalRecord' = OriginalRecord
      BY <1>2 DEF Guarded, Original, OriginalRecord
    <3>2. ASSUME NEW u \in Tag, FileKept(u) PROVE FileKept(u)'
      <4>1. PICK i \in Ids : snapshot[i].files[u] = Delivered
        BY <3>2 DEF FileKept
      <4>2. ~(i = r.id /\ u = t)
        BY <2>5, <2>7, <4>1, ReplayConstants
      <4>3. snapshot'[i].files[u] = Delivered
        BY <2>4, <4>1, <4>2
      <4> QED
        BY <4>3 DEF FileKept
    <3>3. Guarded(t) => FileKept(t)'
      <4>1. SUFFICES ASSUME Guarded(t), ~FileKept(t) PROVE FileKept(t)'
        BY <2>3, <3>2
      <4>2. artifact[t] = Delivered
        BY <2>3, <2>7, <4>1 DEF ReplayInv, OriginalsSafe
      <4>3. there
        BY <4>2, ReplayAssumption DEF Delivered, Missing, Gone, ReplayAssumption
      <4>4. snapshot'[r.id].files[t] = Delivered
        BY <2>4, <4>2, <4>3
      <4> QED
        BY <1>1, <4>4 DEF FileKept
    <3>4. RecordKept => RecordKept'
      BY <2>4, <3>1 DEF RecordKept
    <3>5. OriginalsSafe'
      BY <1>2, <2>7, <3>1, <3>2, <3>4 DEF ReplayInv, OriginalsSafe
    <3>6. ASSUME NEW s \in Stage, s < n + 1, Guarded(Tags[s]) PROVE FileKept(Tags[s])'
      <4>1. CASE s = n
        BY <3>3, <3>6, <4>1
      <4>2. CASE s # n
        <5>1. s < n /\ Tags[s] \in Tag
          BY <1>1, <3>6, <4>2, TagFacts, ReplayConstants
        <5>2. FileKept(Tags[s])
          BY <1>2, <1>3, <2>7, <3>6, <5>1 DEF ReplayInv, CopiesKept
        <5> QED
          BY <3>2, <5>1, <5>2
      <4> QED
        BY <4>1, <4>2
    <3>7. RunStateFile \in unguarded \/ RecordKept'
      BY <1>2, <2>7, <3>4 DEF ReplayInv, CopiesKept
    <3>8. ASSUME NEW q \in Replayers \ {p}
          PROVE  /\ replay[q].at = "copying" =>
                      \A s \in Stage : s < replay[q].next /\ Guarded(Tags[s]) => FileKept(Tags[s])'
                 /\ replay[q].at = "running" /\ replay[q].kind # "step" =>
                      \A u \in Tag : Guarded(u) => FileKept(u)'
      BY <2>7, <3>2, ReplayConstants DEF ReplayInv, CopiesKept
    <3>9. CopiesKept'
      BY <1>2, <2>2, <3>1, <3>6, <3>7, <3>8 DEF CopiesKept
    <3> QED
      BY <3>5, <3>9
  <2>8. AloneAgrees'
    BY <1>2, <2>2 DEF ReplayInv, AloneAgrees
  <2> QED
    BY <1>1, <1>2, <2>6, <2>7, <2>8 DEF ReplayInv
<1>4. CASE r.next \notin Stage
  <2>1. /\ replay' = [replay EXCEPT ![p].at = "running", ![p].next = r.from]
        /\ UNCHANGED snapshot
    BY <1>4 DEF Copy
  <2>2. /\ replay'[p].at = "running" /\ replay'[p].kind = r.kind
        /\ replay'[p].next = r.from /\ replay'[p].from = r.from /\ replay'[p].alone = r.alone
        /\ \A q \in Replayers \ {p} : replay'[q] = replay[q]
    BY <1>1, <2>1 DEF ReplayType
  <2>3. SnapshotsAreOnesOwn'
    <3>1. \A q \in Replayers : replay'[q].at = "copying" => q # p /\ replay'[q] = replay[q]
      BY <2>2
    <3>2. SnapshotsAreOnesOwn
      BY DEF ReplayInv
    <3>3. sharedId' = sharedId /\ snapshot' = snapshot
      BY <1>2, <2>1
    <3> HIDE DEF r
    <3>4. \A q \in Replayers : replay'[q].at = "copying" =>
            replay'[q].kind # "step" /\ snapshot'[replay'[q].id].made
      BY <3>1, <3>2, <3>3 DEF SnapshotsAreOnesOwn
    <3>5. ASSUME ~sharedId', NEW q \in Replayers, replay'[q].at = "copying"
          PROVE  /\ \A o \in Replayers \ {q} : replay'[o].at = "copying" => replay'[o].id # replay'[q].id
                 /\ \A s \in Stage : s >= replay'[q].next =>
                      snapshot'[replay'[q].id].files[Tags[s]] = Missing
      BY <3>1, <3>2, <3>3, <3>5 DEF SnapshotsAreOnesOwn
    <3>6. \A i \in Ids : ~snapshot'[i].made => snapshot'[i] = NoSnapshot
      BY <3>2, <3>3 DEF SnapshotsAreOnesOwn
    <3> QED
      BY <3>4, <3>5, <3>6 DEF SnapshotsAreOnesOwn
  <2>4. ASSUME ~sharedId PROVE CopiesKept' /\ OriginalsSafe'
    <3>1. \A s \in Stage : s < r.next
      BY <1>1, <1>4, TagFacts DEF ReplayType
    <3>2. \A t \in Tag : Guarded(t) => FileKept(t)
      BY <1>2, <2>4, <3>1, ReplayConstants DEF ReplayInv, CopiesKept
    <3> QED
      BY <1>2, <2>1, <2>2, <2>4, <3>2, StillKept DEF ReplayInv, CopiesKept, OriginalsSafe
  <2>5. AloneAgrees'
    <3>1. \A s \in Stage : ~(r.from <= s /\ s < r.from)
      BY <1>1, TagFacts
    <3> QED
      BY <1>2, <2>2, <3>1 DEF ReplayInv, AloneAgrees
  <2> QED
    BY <1>1, <1>2, <2>3, <2>4, <2>5 DEF ReplayInv
<1> QED
  BY <1>3, <1>4

(* A stage overwrites its document only when the original is kept, and adds
   to what the record and the documents agree on.  What made the earlier
   stages silent makes them silent still: they come after what they need.  *)
LEMMA RunStep == ASSUME ReplayInv, NEW p \in Replayers, RunStage(p) PROVE ReplayInv'
<1>1. PICK n \in Stage : replay[p].next = n
  BY DEF RunStage
<1>2. PICK work \in Works : replay[p].work = work
  BY DEF ReplayInv, ReplayTypeOK, ReplayType
<1>3. PICK mem \in Versions : replay[p].mem = mem
  BY DEF ReplayInv, ReplayTypeOK, ReplayType
<1> DEFINE t == Tags[n]
           mem2 == [mem EXCEPT ![t] = work]
<1>4. /\ replay[p].at = "running" /\ ~Refused(mem, t)
      /\ replay' = [replay EXCEPT ![p] = [replay[p] EXCEPT !.next = n + 1, !.mem = mem2]]
      /\ artifact' = IF Silent(mem, t) THEN artifact ELSE [artifact EXCEPT ![t] = work]
      /\ unguarded' = IF replay[p].kind = "step" THEN unguarded \cup {t} ELSE unguarded
      /\ UNCHANGED <<reached, saved, snapshot, begun, clock, sharedId>>
  BY <1>1, <1>2, <1>3 DEF RunStage
<1>5. /\ ReplayTypeOK' /\ replay \in [Replayers -> ReplayType] /\ replay[p] \in ReplayType
      /\ artifact \in [Tag -> Works \cup {Gone}] /\ replay[p].from \in Nat /\ n \in Nat
  <2>1. ReplayTypeOK' /\ ReplayTypeOK
    BY RunTypes DEF ReplayInv
  <2>2. /\ replay \in [Replayers -> ReplayType] /\ artifact \in [Tag -> Works \cup {Gone}]
    BY <2>1 DEF ReplayTypeOK
  <2>3. replay[p] \in ReplayType /\ replay[p].from \in Stage
    BY <2>2 DEF ReplayType
  <2> QED
    BY <2>1, <2>2, <2>3, TagFacts
<1>6. t \in Tag /\ \A s \in Stage : s # n => Tags[s] # t
  BY TagFacts, ReplayConstants
<1>7. mem2 \in Versions /\ mem2[t] = work /\ \A u \in Tag \ {t} : mem2[u] = mem[u]
  BY <1>6 DEF Versions
<1> HIDE DEF mem2
<1>8. /\ replay'[p].at = "running" /\ replay'[p].kind = replay[p].kind
      /\ replay'[p].next = n + 1 /\ replay'[p].from = replay[p].from
      /\ replay'[p].work = work /\ replay'[p].mem = mem2
      /\ replay'[p].alone = replay[p].alone
      /\ \A q \in Replayers \ {p} : replay'[q] = replay[q]
  BY <1>2, <1>4, <1>5 DEF ReplayType
<1>9. /\ artifact'[t] = IF Silent(mem, t) THEN artifact[t] ELSE work
      /\ \A u \in Tag \ {t} : artifact'[u] = artifact[u]
  BY <1>4, <1>5, <1>6
<1>10. \A q \in Replayers \ {p} : ~replay[q].alone
  BY <1>4, NobodyElseAlone
<1>11. SnapshotsAreOnesOwn'
  <2>1. \A q \in Replayers : replay'[q].at = "copying" => q # p /\ replay'[q] = replay[q]
    BY <1>8
  <2> QED
    BY <1>4, <2>1 DEF ReplayInv, SnapshotsAreOnesOwn
<1>12. ASSUME ~sharedId PROVE CopiesKept' /\ OriginalsSafe'
  <2>1. unguarded \subseteq unguarded'
    BY <1>4
  <2>2. /\ RecordKept' <=> RecordKept
        /\ \A u : (FileKept(u)' <=> FileKept(u)) /\ (Guarded(u)' => Guarded(u))
        /\ OriginalRecord' = OriginalRecord
    BY <1>4, <2>1, StillKept
  <2>3. \A u \in Tag : Guarded(u)' => artifact'[u] = artifact[u] \/ FileKept(u)
    <3>1. replay[p].kind # "step" => \A u \in Tag : Guarded(u) => FileKept(u)
      BY <1>4, <1>12 DEF ReplayInv, CopiesKept
    <3>2. replay[p].kind = "step" => t \in unguarded'
      BY <1>4
    <3>3. t \in unguarded' => ~Guarded(t)'
      BY DEF Guarded
    <3> QED
      BY <1>9, <2>2, <3>1, <3>2, <3>3
  <2>4. OriginalsSafe'
    <3>1. /\ \A u \in Tag : Guarded(u) => artifact[u] = Delivered \/ FileKept(u)
          /\ RunStateFile \in unguarded \/ saved = OriginalRecord \/ RecordKept
      BY <1>12 DEF ReplayInv, OriginalsSafe
    <3>2. \A u \in Tag : Guarded(u)' => artifact'[u] = Delivered \/ FileKept(u)'
      BY <2>2, <2>3, <3>1
    <3>3. RunStateFile \in unguarded' \/ saved' = OriginalRecord' \/ RecordKept'
      BY <1>4, <2>1, <2>2, <3>1
    <3> QED
      BY <3>2, <3>3 DEF OriginalsSafe
  <2>5. CopiesKept'
    BY <1>4, <1>8, <1>12, <2>1, <2>2 DEF ReplayInv, CopiesKept
  <2> QED
    BY <2>4, <2>5
<1>13. \A s \in Stage : s <= n => (Silent(mem2, Tags[s]) <=> Silent(mem, Tags[s]))
  <2> SUFFICES ASSUME NEW s \in Stage, s <= n, Tags[s] = "delivery"
               PROVE  \A u \in {"product", "architecture"} : Has(mem2, u) <=> Has(mem, u)
    BY DEF Silent
  <2>1. t \notin {"product", "architecture"}
    BY <1>5, TagFacts
  <2> QED
    BY <1>7, <2>1 DEF Has
<1>14. AloneAgrees'
  <2> SUFFICES ASSUME NEW q \in Replayers, replay'[q].alone
               PROVE  /\ \A o \in Replayers \ {q} : replay'[o].at = "idle"
                      /\ replay'[q].at = "running" =>
                           \A s \in Stage : replay'[q].from <= s /\ s < replay'[q].next =>
                             /\ replay'[q].mem[Tags[s]] = replay'[q].work
                             /\ ~Silent(replay'[q].mem, Tags[s]) => artifact'[Tags[s]] = replay'[q].work
    BY DEF AloneAgrees
  <2>1. q = p /\ replay[p].alone /\ \A o \in Replayers \ {p} : replay[o].at = "idle"
    BY <1>8, <1>10 DEF ReplayInv, AloneAgrees
  <2>2. ASSUME NEW s \in Stage, replay[p].from <= s, s < n + 1
        PROVE  mem2[Tags[s]] = work /\ (~Silent(mem2, Tags[s]) => artifact'[Tags[s]] = work)
    <3>1. s <= n /\ (Silent(mem2, Tags[s]) <=> Silent(mem, Tags[s]))
      BY <1>5, <1>13, <2>2, TagFacts
    <3>2. CASE s = n
      BY <1>7, <1>9, <3>1, <3>2
    <3>3. CASE s # n
      <4>1. s < n /\ Tags[s] \in Tag \ {t}
        BY <1>5, <1>6, <3>1, <3>3, TagFacts, ReplayConstants
      <4>2. mem[Tags[s]] = work /\ (~Silent(mem, Tags[s]) => artifact[Tags[s]] = work)
        BY <1>1, <1>2, <1>3, <1>4, <2>1, <2>2, <4>1 DEF ReplayInv, AloneAgrees
      <4> QED
        BY <1>7, <1>9, <3>1, <4>1, <4>2
    <3> QED
      BY <3>2, <3>3
  <2> QED
    BY <1>8, <2>1, <2>2
<1> QED
  BY <1>4, <1>5, <1>11, <1>12, <1>14 DEF ReplayInv

LEMMA ReplayNextInv == ReplayInv /\ [ReplayNext]_replayVars => ReplayInv'
<1> SUFFICES ASSUME ReplayInv, [ReplayNext]_replayVars PROVE ReplayInv'
  OBVIOUS
<1>1. CASE UNCHANGED replayVars
  <2>1. UNCHANGED <<reached, artifact, saved, snapshot, replay, begun, clock, sharedId, unguarded>>
    BY <1>1 DEF replayVars
  <2>2. ReplayTypeOK'
    BY <2>1 DEF ReplayInv, ReplayTypeOK
  <2>3. SnapshotsAreOnesOwn' /\ AloneAgrees'
    BY <2>1 DEF ReplayInv, SnapshotsAreOnesOwn, AloneAgrees
  <2>4. ~sharedId => CopiesKept' /\ OriginalsSafe'
    BY <2>1, StillKept DEF ReplayInv, CopiesKept, OriginalsSafe
  <2> QED
    BY <2>1, <2>2, <2>3, <2>4 DEF ReplayInv
<1>2. CASE Second
  BY <1>2, SecondStep
<1>3. ASSUME NEW p \in Replayers,
             \/ StartReplay(p) \/ Clear(p) \/ LoadRun(p) \/ Copy(p) \/ RunStage(p)
             \/ SaveReplay(p) \/ AbortReplay(p)
      PROVE  ReplayInv'
  BY <1>3, StartStep, ClearStep, LoadRunStep, CopyStep, RunStep, SaveStep, AbortStep
<1> QED
  BY <1>1, <1>2, <1>3 DEF ReplayNext

LEMMA ReplaySafety == ReplaySpec => []ReplayInv
  BY ReplayInitInv, ReplayNextInv, PTL DEF ReplaySpec

(* The variables of ReplayArtifacts keep their types.                      *)
THEOREM ReplayTypes == ReplaySpec => []ReplayTypeOK
<1>1. ReplayInv => ReplayTypeOK
  BY DEF ReplayInv
<1> QED
  BY <1>1, ReplaySafety, PTL

LEMMA OriginalsAreKept == ReplayInv => OriginalsKept
<1> SUFFICES ASSUME ReplayInv, ~sharedId
             PROVE  /\ \A t \in Tag \ unguarded :
                         Original(t) # Missing =>
                           artifact[t] = Delivered \/ \E id \in Ids : snapshot[id].files[t] = Delivered
                    /\ \/ RunStateFile \in unguarded \/ saved = OriginalRecord
                       \/ \E id \in Ids : snapshot[id].made /\ snapshot[id].record = OriginalRecord
  BY DEF OriginalsKept
<1> QED
  BY DEF ReplayInv, OriginalsSafe, Guarded, FileKept, RecordKept

(* OriginalsKept: whatever the delivery left of a stage and of the record is in
   its place or in a snapshot, for any number of replays, stages and seconds,
   unless two replays shared a snapshot directory.                         *)
THEOREM NothingIsLost == ReplaySpec => []OriginalsKept
  BY OriginalsAreKept, ReplaySafety, PTL

(* Only the end of a replay saves the record, and one that was alone ends
   after its last stage.                                                   *)
LEMMA SavedAgrees ==
  ASSUME ReplayInv, ReplayNext, NEW p \in Replayers, replay[p].at = "running",
         replay[p].alone, saved' # saved, NEW s \in Stage, s >= replay[p].from,
         ~Silent(saved', Tags[s])
  PROVE  artifact[Tags[s]] = replay[p].work /\ saved'[Tags[s]] = replay[p].work
<1>1. PICK q \in Replayers : SaveReplay(q)
  BY DEF ReplayNext, Second, StartReplay, Clear, LoadRun, Copy, RunStage, AbortReplay
<1>2. q = p
  <2>1. replay[q].at # "idle"
    BY <1>1 DEF SaveReplay
  <2> QED
    BY <2>1 DEF ReplayInv, AloneAgrees
<1>3. saved' = replay[p].mem /\ replay[p].next \notin Stage
  BY <1>1, <1>2 DEF SaveReplay
<1>4. s < replay[p].next
  BY <1>3, TagFacts DEF ReplayInv, ReplayTypeOK, ReplayType
<1> QED
  BY <1>3, <1>4, TagFacts DEF ReplayInv, ReplayTypeOK, ReplayType, AloneAgrees

(* ReplayedAgrees: a replay that nobody disturbed leaves the documents and the
   record in agreement, for any number of replays before it.               *)
THEOREM UndisturbedReplaysAgree == ReplaySpec => ReplayedAgrees
<1> DEFINE Agrees ==
      \A p \in Replayers :
        LET r == replay[p] IN
        r.at = "running" /\ r.alone /\ saved' # saved =>
          \A s \in Stage : s >= r.from /\ ~Silent(saved', Tags[s]) =>
            artifact[Tags[s]] = r.work /\ saved'[Tags[s]] = r.work
<1>1. ReplayInv /\ [ReplayNext]_replayVars => [Agrees]_replayVars
  BY SavedAgrees
<1>2. ReplaySpec => [][Agrees]_replayVars
  BY <1>1, ReplaySafety, PTL DEF ReplaySpec
<1> QED
  BY <1>2 DEF ReplayedAgrees
-----------------------------------------------------------------------------
(* The executors' calls.                                                    *)

(* An answer a mock gave says so, wherever it is kept.                     *)
SaysMock(answer) == answer.by = "mock" => answer.mock

(* What is known of a call while its CLI runs: how the first observation
   compares with the tree.  A file nobody touched since is as it was then,
   and one that the CLI touched has a later time than any observed.        *)
WatchedCall(call) ==
  /\ git => /\ call.dirty \ call.may = Dirty \ call.may
            /\ call.steady => call.before = { <<f, 0>> : f \in call.dirty }
  /\ ~git => /\ \A f \in TreeFiles \ call.may :
                  content[f] # Absent => <<f, mtime[f]>> \in call.before
             /\ \A f \in call.must : <<f, mtime[f]>> \notin call.before

ReportedCall(call) == /\ call.must \subseteq call.answer.changed
                  /\ call.answer.changed \subseteq call.may

CallInv(call) ==
  /\ SaysMock(call.answer)
  /\ call.at = "running" => WatchedCall(call)
  /\ call.at \in {"idle", "starting"} => call.must = {}
  /\ \A token \in call.before : token[2] <= edits + 1
  /\ call.at \in {"recording", "answered", "returned"} => ReportedCall(call)
  /\ call.at = "returned" /\ call.answer.by = "mock" => call.answer.mock

CallsInv ==
  /\ CallsTypeOK
  /\ \A f \in TreeFiles : mtime[f] <= edits + 1
  /\ \A h \in Hashes : SaysMock(recording[h])
  /\ \A c \in Callers : CallInv(executing[c])

LEMMA NoCallInv ==
  /\ NoCall \in CallType /\ NoCall.at = "idle" /\ NoCall.must = {}
  /\ NoCall.before = {} /\ NoCall.answer = NoAnswer
  /\ NoAnswer \in AnswerType /\ SaysMock(NoAnswer)
<1>1. (CHOOSE h \in Hashes : TRUE) \in Hashes
  BY CallsAssumption, Zenon DEF CallsAssumption
<1>2. NoAnswer \in AnswerType /\ SaysMock(NoAnswer)
  BY DEF NoAnswer, Answer, AnswerType, SaysMock
<1> QED
  BY <1>1, <1>2 DEF NoCall, CallType

(* Nothing is observed that is later than the last edit.                   *)
LEMMA ObservationBounds ==
  ASSUME CallsTypeOK, \A f \in TreeFiles : mtime[f] <= edits + 1,
         NEW tokens \in Observations
  PROVE  /\ tokens \subseteq TreeFiles \X Times
         /\ \A token \in tokens : token[2] <= edits + 1
<1>1. edits \in Nat /\ edits <= MaxEdits /\ MaxEdits \in Nat
  BY CallsAssumption DEF CallsTypeOK, CallsAssumption
<1>2. GitTokens \subseteq TreeFiles \X Times /\ \A token \in GitTokens : token[2] <= edits + 1
  BY <1>1 DEF GitTokens, Dirty, Times
<1>3. WalkTokens \subseteq TreeFiles \X Times /\ \A token \in WalkTokens : token[2] <= edits + 1
  BY <1>1 DEF WalkTokens, Present, Times, CallsTypeOK
<1> QED
  BY <1>2, <1>3 DEF Observations

(* One call moves on and the tree stays as it is.                          *)
LEMMA OneCall ==
  ASSUME CallsInv, NEW c \in Callers, NEW call \in CallType, CallInv(call),
         executing' = [executing EXCEPT ![c] = call], UNCHANGED treeVars,
         made' \in 0..MaxCalls,
         recording' \in [Hashes -> AnswerType], \A h \in Hashes : SaysMock(recording'[h])
  PROVE  CallsInv'
<1>1. CallsTypeOK'
  BY DEF CallsInv, CallsTypeOK, treeVars
<1>2. CallInv(call)'
  BY DEF CallInv, treeVars, WatchedCall, Dirty
<1>3. ASSUME NEW d \in Callers PROVE CallInv(executing[d])'
  <2>1. CASE d = c
    BY <1>2, <2>1 DEF CallsInv, CallsTypeOK
  <2>2. CASE d # c
    <3>1. executing'[d] = executing[d] /\ CallInv(executing[d])
      BY <2>2 DEF CallsInv, CallsTypeOK
    <3> QED
      BY <3>1 DEF CallInv, treeVars, WatchedCall, Dirty
  <2> QED BY <2>1, <2>2
<1> QED
  BY <1>1, <1>3 DEF CallsInv, treeVars

LEMMA CallTypes ==
  ASSUME CallsInv, NEW c \in Callers
  PROVE  /\ executing[c] \in CallType /\ CallInv(executing[c])
         /\ recording \in [Hashes -> AnswerType]
         /\ \A h \in Hashes : SaysMock(recording[h])
         /\ made \in 0..MaxCalls
BY DEF CallsInv, CallsTypeOK

LEMMA AskStep == ASSUME CallsInv, NEW c \in Callers, Ask(c) PROVE CallsInv'
<1>1. PICK h \in Hashes, by \in {"cli", "mock"}, records \in BOOLEAN, replays \in BOOLEAN :
        LET call == [NoCall EXCEPT !.hash = h, !.by = by, !.records = records,
                                   !.replays = replays] IN
        executing' = [executing EXCEPT ![c] =
          IF replays /\ recording[h] # NoAnswer
          THEN [call EXCEPT !.at = "answered", !.answer = recording[h], !.may = TreeFiles]
          ELSE [call EXCEPT !.at = "starting"]]
  BY DEF Ask
<1> DEFINE call == [NoCall EXCEPT !.hash = h, !.by = by, !.records = records,
                                  !.replays = replays]
           answered == [call EXCEPT !.at = "answered", !.answer = recording[h],
                                    !.may = TreeFiles]
           starting == [call EXCEPT !.at = "starting"]
<1>2. recording[h] \in AnswerType /\ SaysMock(recording[h])
  BY CallTypes
<1>3. answered \in CallType /\ answered.at = "answered" /\ answered.must = {}
      /\ answered.before = {} /\ answered.answer = recording[h] /\ answered.may = TreeFiles
  BY <1>2, NoCallInv DEF CallType
<1>4. starting \in CallType /\ starting.at = "starting" /\ starting.must = {}
      /\ starting.before = {} /\ starting.answer = NoAnswer
  BY NoCallInv DEF CallType
<1>5. CallInv(answered)
  BY <1>2, <1>3 DEF CallInv, ReportedCall, AnswerType, SaysMock
<1>6. CallInv(starting)
  BY <1>4, NoCallInv DEF CallInv
<1>7. /\ UNCHANGED <<treeVars, recording>> /\ made' \in 0..MaxCalls
      /\ recording' \in [Hashes -> AnswerType] /\ \A g \in Hashes : SaysMock(recording'[g])
  BY CallTypes, CallsAssumption DEF Ask, CallsAssumption
<1> HIDE DEF answered, starting
<1>8. CASE executing' = [executing EXCEPT ![c] = answered]
  BY <1>3, <1>5, <1>7, <1>8, OneCall
<1>9. CASE executing' = [executing EXCEPT ![c] = starting]
  BY <1>4, <1>6, <1>7, <1>9, OneCall
<1> QED
  BY <1>1, <1>8, <1>9 DEF answered, starting

(* A result on its way to the caller.                                      *)
LEMMA DeliverInv ==
  ASSUME NEW call \in CallType, NEW answer \in AnswerType, SaysMock(answer),
         call.must \subseteq answer.changed, answer.changed \subseteq call.may,
         \A token \in call.before : token[2] <= edits + 1
  PROVE  Deliver(call, answer) \in CallType /\ CallInv(Deliver(call, answer))
BY DEF Deliver, CallType, CallInv, ReportedCall, SaysMock

LEMMA AnswerAtOnceStep ==
  ASSUME CallsInv, NEW c \in Callers, AnswerAtOnce(c) PROVE CallsInv'
<1> DEFINE mocked == Answer("mock", TRUE, {}, TRUE)
           refused == Answer("cli", FALSE, {}, FALSE)
<1>1. /\ mocked \in AnswerType /\ SaysMock(mocked) /\ mocked.changed = {}
      /\ refused \in AnswerType /\ SaysMock(refused) /\ refused.changed = {}
  BY DEF Answer, AnswerType, SaysMock
<1>2. /\ executing[c] \in CallType /\ executing[c].must = {}
      /\ \A token \in executing[c].before : token[2] <= edits + 1
  BY CallTypes DEF CallInv, AnswerAtOnce, MockAnswers, CliRefuses
<1> HIDE DEF mocked, refused
<1>3. /\ Deliver(executing[c], mocked) \in CallType /\ CallInv(Deliver(executing[c], mocked))
      /\ Deliver(executing[c], refused) \in CallType /\ CallInv(Deliver(executing[c], refused))
  BY <1>1, <1>2, DeliverInv
<1>4. \/ executing' = [executing EXCEPT ![c] = Deliver(executing[c], mocked)]
      \/ executing' = [executing EXCEPT ![c] = Deliver(executing[c], refused)]
  BY DEF AnswerAtOnce, MockAnswers, CliRefuses, mocked, refused
<1>5. UNCHANGED <<treeVars, made, recording>>
  BY DEF AnswerAtOnce
<1> QED
  BY <1>3, <1>4, <1>5, CallTypes, OneCall

LEMMA ObserveStep == ASSUME CallsInv, NEW c \in Callers, Observe(c) PROVE CallsInv'
<1>1. PICK tokens \in Observations :
        executing' = [executing EXCEPT ![c] =
          [@ EXCEPT !.at = "running", !.before = tokens, !.dirty = Dirty,
                    !.steady = Steady(tokens)]]
  BY DEF Observe
<1> DEFINE call == [executing[c] EXCEPT !.at = "running", !.before = tokens,
                                        !.dirty = Dirty, !.steady = Steady(tokens)]
<1>2. executing[c] \in CallType /\ CallInv(executing[c]) /\ executing[c].must = {}
  BY CallTypes DEF Observe, CallInv
<1>3. tokens \subseteq TreeFiles \X Times /\ \A token \in tokens : token[2] <= edits + 1
  BY ObservationBounds DEF CallsInv
<1>4. Steady(tokens) \in BOOLEAN /\ Dirty \subseteq TreeFiles
  BY DEF Steady, Dirty
<1>5. /\ call \in CallType /\ call.at = "running" /\ call.before = tokens /\ call.dirty = Dirty
      /\ call.steady = Steady(tokens) /\ call.must = {} /\ call.answer = executing[c].answer
  BY <1>2, <1>3, <1>4 DEF CallType
<1> HIDE DEF call
<1>6. WatchedCall(call)
  <2>1. CASE git
    BY <1>5, <2>1 DEF WatchedCall, Steady, GitTokens
  <2>2. CASE ~git
    <3>1. tokens = WalkTokens
      BY <2>2 DEF Observations
    <3> QED
      BY <1>5, <2>2, <3>1 DEF WatchedCall, WalkTokens, Present
  <2> QED
    BY <2>1, <2>2
<1>7. CallInv(call)
  BY <1>2, <1>3, <1>5, <1>6 DEF CallInv
<1> QED
  BY <1>1, <1>5, <1>7, CallTypes, OneCall DEF Observe, call

(* The call is over, whatever was seen of it.                              *)
LEMMA JudgedCall ==
  ASSUME CallsInv, NEW c \in Callers, executing[c].at = "running", NEW steady \in BOOLEAN
  PROVE  LET call == Judged(executing[c], steady) IN
         /\ call \in CallType /\ call.before = {}
         /\ steady => /\ call.must = executing[c].must \ Excused(executing[c])
                      /\ call.may = executing[c].may
         /\ ~steady => call.must = {} /\ call.may = TreeFiles
BY CallTypes, ZenonT(30) DEF Judged, CallType

LEMMA CliFailsStep == ASSUME CallsInv, NEW c \in Callers, CliFails(c) PROVE CallsInv'
<1> DEFINE call == Judged(executing[c], FALSE)
           failed == Answer("cli", FALSE, {}, FALSE)
<1>1. failed \in AnswerType /\ SaysMock(failed) /\ failed.changed = {}
  BY DEF Answer, AnswerType, SaysMock
<1>2. call \in CallType /\ call.before = {} /\ call.must = {}
  BY JudgedCall DEF CliFails
<1>3. executing' = [executing EXCEPT ![c] = Deliver(call, failed)]
  BY DEF CliFails
<1> HIDE DEF call, failed
<1>4. Deliver(call, failed) \in CallType /\ CallInv(Deliver(call, failed))
  BY <1>1, <1>2, DeliverInv
<1> QED
  BY <1>3, <1>4, CallTypes, OneCall DEF CliFails

(* Between two good observations, what differs was touched, and what the
   CLI touched differs unless it is excused.                               *)
LEMMA DiffIsTrue ==
  ASSUME CallsInv, NEW c \in Callers, executing[c].at = "running", executing[c].steady,
         NEW tokens \in Observations, Steady(tokens)
  PROVE  /\ executing[c].must \ Excused(executing[c]) \subseteq Diff(executing[c].before, tokens)
         /\ Diff(executing[c].before, tokens) \subseteq executing[c].may
<1> DEFINE call == executing[c]
<1>1. call \in CallType /\ WatchedCall(call)
  BY CallTypes DEF CallInv
<1>2. CASE git
  <2>1. tokens = { <<f, 0>> : f \in Dirty } /\ call.before = { <<f, 0>> : f \in call.dirty }
    BY <1>1, <1>2 DEF Steady, GitTokens, WatchedCall
  <2>2. Diff(call.before, tokens) = Dirty \ call.dirty
    <3>1. \A f : <<f, 0>> \in tokens \ call.before <=> f \in Dirty \ call.dirty
      BY <2>1
    <3>2. \A token \in tokens : token = <<token[1], 0>>
      BY <2>1
    <3> HIDE DEF call
    <3>3. \A f \in Diff(call.before, tokens) : f \in Dirty \ call.dirty
      <4>1. \A token \in tokens \ call.before : token[1] \in Dirty \ call.dirty
        BY <3>1, <3>2
      <4> QED
        BY <4>1 DEF Diff
    <3>4. \A f \in Dirty \ call.dirty : f \in Diff(call.before, tokens)
      <4> TAKE f \in Dirty \ call.dirty
      <4>1. <<f, 0>> \in tokens \ call.before /\ <<f, 0>>[1] = f
        BY <3>1
      <4> QED
        BY <4>1 DEF Diff
    <3> QED
      BY <3>3, <3>4
  <2>3. call.must \ Excused(call) = (call.must \cap Dirty) \ call.dirty
    BY <1>1, <1>2 DEF Excused, CallType
  <2>4. Dirty \ call.may = call.dirty \ call.may
    BY <1>1, <1>2 DEF WatchedCall
  <2> QED
    BY <2>2, <2>3, <2>4
<1>3. CASE ~git
  <2>1. tokens = { <<f, mtime[f]>> : f \in Present }
    BY <1>3 DEF Observations, WalkTokens
  <2>2. Diff(call.before, tokens) = { f \in Present : <<f, mtime[f]>> \notin call.before }
    BY <2>1 DEF Diff
  <2>3. call.must \ Excused(call) = call.must \cap Present
    BY <1>1, <1>3 DEF Excused, CallType
  <2>4. /\ \A f \in Present \ call.may : <<f, mtime[f]>> \in call.before
        /\ \A f \in call.must : <<f, mtime[f]>> \notin call.before
    BY <1>1, <1>3 DEF WatchedCall, Present
  <2> QED
    BY <2>2, <2>3, <2>4
<1> QED
  BY <1>2, <1>3

LEMMA CliExitsStep == ASSUME CallsInv, NEW c \in Callers, CliExits(c) PROVE CallsInv'
<1>1. PICK ok \in BOOLEAN, tokens \in Observations :
        executing' = [executing EXCEPT ![c] =
          Deliver(Judged(executing[c], executing[c].steady /\ Steady(tokens)),
                  Answer("cli", ok, Diff(executing[c].before, tokens), FALSE))]
  BY DEF CliExits
<1> DEFINE steady == executing[c].steady /\ Steady(tokens)
           call == Judged(executing[c], steady)
           changed == Diff(executing[c].before, tokens)
           answer == Answer("cli", ok, changed, FALSE)
<1>2. executing[c] \in CallType /\ executing[c].at = "running" /\ steady \in BOOLEAN
  BY CallTypes DEF CliExits, CallType, Steady
<1>3. tokens \subseteq TreeFiles \X Times
  BY ObservationBounds DEF CallsInv
<1>4. changed \subseteq TreeFiles
  BY <1>3 DEF Diff
<1>5. answer \in AnswerType /\ SaysMock(answer) /\ answer.changed = changed
  BY <1>4 DEF Answer, AnswerType, SaysMock
<1>6. /\ call \in CallType /\ call.before = {}
      /\ call.must \subseteq changed /\ changed \subseteq call.may
  <2>1. CASE steady
    BY <1>2, <2>1, JudgedCall, DiffIsTrue
  <2>2. CASE ~steady
    BY <1>2, <1>4, <2>2, JudgedCall
  <2> QED
    BY <2>1, <2>2
<1> HIDE DEF call, answer, changed, steady
<1>7. Deliver(call, answer) \in CallType /\ CallInv(Deliver(call, answer))
  BY <1>5, <1>6, DeliverInv
<1>8. executing' = [executing EXCEPT ![c] = Deliver(call, answer)]
  BY <1>1 DEF call, answer, changed, steady
<1> QED
  BY <1>7, <1>8, CallTypes, OneCall DEF CliExits

LEMMA KeepRecordingStep ==
  ASSUME CallsInv, NEW c \in Callers, KeepRecording(c) PROVE CallsInv'
<1> DEFINE call == [executing[c] EXCEPT !.at = "answered"]
<1>1. executing[c] \in CallType /\ CallInv(executing[c]) /\ executing[c].at = "recording"
  BY CallTypes DEF KeepRecording
<1>2. call \in CallType /\ CallInv(call)
  BY <1>1 DEF CallType, CallInv, ReportedCall
<1>3. recording' \in [Hashes -> AnswerType] /\ \A h \in Hashes : SaysMock(recording'[h])
  BY <1>1, CallTypes DEF KeepRecording, CallType, CallInv
<1>4. executing' = [executing EXCEPT ![c] = call]
  BY DEF KeepRecording
<1> HIDE DEF call
<1> QED
  BY <1>2, <1>3, <1>4, CallTypes, OneCall DEF KeepRecording

(* What a mock made arrives with its mark.                                 *)
LEMMA MarkStep == ASSUME CallsInv, NEW c \in Callers, Mark(c) PROVE CallsInv'
<1> DEFINE call == [executing[c] EXCEPT !.at = "returned",
                                        !.answer.mock = MarkedAsMock(executing[c])]
<1>1. executing[c] \in CallType /\ CallInv(executing[c]) /\ executing[c].at = "answered"
  BY CallTypes DEF Mark
<1>2. MarkedAsMock(executing[c]) \in BOOLEAN
  BY <1>1 DEF MarkedAsMock, CallType, AnswerType
<1>3. call \in CallType /\ CallInv(call)
  BY <1>1, <1>2 DEF CallType, AnswerType, CallInv, ReportedCall, SaysMock, MarkedAsMock
<1>4. executing' = [executing EXCEPT ![c] = call]
  BY DEF Mark
<1> HIDE DEF call
<1> QED
  BY <1>3, <1>4, CallTypes, OneCall DEF Mark

LEMMA LeaveStep == ASSUME CallsInv, NEW c \in Callers, Leave(c) PROVE CallsInv'
<1>1. NoCall \in CallType /\ CallInv(NoCall)
  BY NoCallInv DEF CallInv
<1> QED
  BY <1>1, CallTypes, OneCall DEF Leave

(* The tree changes.  Every call that runs has its eye on the file.        *)
LEMMA TouchInv ==
  ASSUME CallsInv, NEW f \in TreeFiles, NEW text \in Texts(f), Edited(f, text),
         NEW call \in CallType, CallInv(call)
  PROVE  Touch(call, f) \in CallType /\ CallInv(Touch(call, f))'
<1>1. /\ mtime \in [TreeFiles -> Times] /\ content \in [TreeFiles -> Times]
      /\ edits \in Nat /\ edits' = edits + 1 /\ git' = git /\ head' = head
      /\ content' = [content EXCEPT ![f] = text] /\ mtime' = [mtime EXCEPT ![f] = edits + 2]
  BY DEF CallsInv, CallsTypeOK, Edited
<1>2. \A token \in call.before : token[2] <= edits' + 1 /\ token # <<f, edits + 2>>
  BY <1>1 DEF CallInv, CallType, Times
<1>3. CASE call.at # "running"
  BY <1>2, <1>3 DEF Touch, CallInv, ReportedCall, SaysMock
<1>4. CASE call.at = "running"
  <2> DEFINE touched == [call EXCEPT !.may = @ \cup {f}]
  <2>1. /\ touched \in CallType /\ touched.at = "running" /\ touched.may = call.may \cup {f}
        /\ touched.must = call.must /\ touched.before = call.before
        /\ touched.dirty = call.dirty /\ touched.steady = call.steady
        /\ touched.answer = call.answer
    <3>1. call.may \cup {f} \in SUBSET TreeFiles
      BY DEF CallType
    <3> QED
      BY <1>4, <3>1 DEF CallType
  <2>2. Touch(call, f) = touched /\ WatchedCall(call)
    BY <1>4 DEF Touch, CallInv
  <2> HIDE DEF touched
  <2>3. git => Dirty' \ touched.may = Dirty \ touched.may
    BY <1>1, <2>1 DEF Dirty
  <2>4. WatchedCall(touched)'
    BY <1>1, <1>2, <2>1, <2>2, <2>3 DEF WatchedCall
  <2>5. CallInv(touched)'
    BY <1>2, <2>1, <2>4 DEF CallInv, SaysMock
  <2> QED
    BY <2>1, <2>2, <2>5
<1> QED
  BY <1>3, <1>4

(* The rest of the state after an edit.                                    *)
LEMMA EditedFrame ==
  ASSUME CallsInv, NEW f \in TreeFiles, NEW text \in Texts(f), Edited(f, text),
         executing' \in [Callers -> CallType], \A c \in Callers : CallInv(executing[c])'
  PROVE  CallsInv'
<1>1. /\ edits \in 0..MaxEdits /\ edits < MaxEdits /\ MaxEdits \in Nat /\ edits' = edits + 1
      /\ UNCHANGED <<git, head, made, recording>>
      /\ content' = [content EXCEPT ![f] = text] /\ mtime' = [mtime EXCEPT ![f] = edits + 2]
  BY CallsAssumption DEF CallsInv, CallsTypeOK, Edited, CallsAssumption
<1>2. text \in Times /\ edits + 2 \in Times
  BY <1>1 DEF Texts, Times, CallsInv, CallsTypeOK, Absent, Committed
<1>3. CallsTypeOK'
  BY <1>1, <1>2 DEF CallsInv, CallsTypeOK
<1>4. \A g \in TreeFiles : mtime'[g] <= edits' + 1
  BY <1>1 DEF CallsInv, CallsTypeOK, Times
<1> QED
  BY <1>1, <1>3, <1>4 DEF CallsInv

LEMMA UserEditsStep == ASSUME CallsInv, UserEdits PROVE CallsInv'
<1>1. PICK f \in TreeFiles : \E text \in Texts(f) :
        Edited(f, text) /\ executing' = [d \in Callers |-> Touch(executing[d], f)]
  BY DEF UserEdits
<1>2. PICK text \in Texts(f) :
        Edited(f, text) /\ executing' = [d \in Callers |-> Touch(executing[d], f)]
  BY <1>1
<1>3. ASSUME NEW d \in Callers
      PROVE  Touch(executing[d], f) \in CallType /\ CallInv(executing[d])'
  <2>1. PICK call \in CallType : call = executing[d] /\ CallInv(call)
    BY CallTypes
  <2>2. Touch(call, f) \in CallType /\ CallInv(Touch(call, f))'
    BY <1>2, <2>1, TouchInv
  <2>3. executing'[d] = Touch(call, f)
    BY <1>2, <2>1
  <2> QED
    BY <2>1, <2>2, <2>3 DEF CallInv, WatchedCall, ReportedCall, Dirty
<1> QED
  BY <1>2, <1>3, EditedFrame

(* The file the CLI edits is one it has to name.                           *)
LEMMA MustInv ==
  ASSUME CallsInv, NEW f \in TreeFiles, NEW text \in Texts(f), Edited(f, text),
         NEW call \in CallType, CallInv(call), call.at = "running"
  PROVE  LET edit == [Touch(call, f) EXCEPT !.must = @ \cup {f}] IN
         edit \in CallType /\ CallInv(edit)'
<1> DEFINE touched == Touch(call, f)
           edit == [touched EXCEPT !.must = @ \cup {f}]
<1>1. /\ touched.at = "running" /\ touched.before = call.before
      /\ touched \in CallType /\ CallInv(touched)'
  BY TouchInv DEF Touch, CallType
<1> HIDE DEF touched
<1>2. touched.must \cup {f} \in SUBSET TreeFiles
  BY <1>1 DEF CallType
<1>3. /\ edit \in CallType /\ edit.must = touched.must \cup {f}
      /\ edit.at = "running" /\ edit.before = touched.before
      /\ edit.dirty = touched.dirty /\ edit.may = touched.may
      /\ edit.steady = touched.steady /\ edit.answer = touched.answer
  BY <1>1, <1>2 DEF CallType
<1>4. <<f, mtime'[f]>> \notin touched.before
  <2>1. mtime'[f] = edits + 2 /\ edits \in Nat
    BY DEF Edited, CallsInv, CallsTypeOK
  <2>2. \A token \in touched.before : token[2] <= edits + 1
    BY <1>1 DEF CallInv
  <2> QED
    BY <2>1, <2>2
<1> HIDE DEF edit
<1>5. WatchedCall(edit)'
  BY <1>1, <1>3, <1>4 DEF CallInv, WatchedCall
<1>6. CallInv(edit)'
  BY <1>1, <1>3, <1>5 DEF CallInv
<1> QED
  BY <1>3, <1>6 DEF edit, touched

LEMMA CliEditsStep == ASSUME CallsInv, NEW c \in Callers, CliEdits(c) PROVE CallsInv'
<1> DEFINE Edit(f) == [Touch(executing[c], f) EXCEPT !.must = @ \cup {f}]
           Edits(f) == [d \in Callers |-> IF d = c THEN Edit(f) ELSE Touch(executing[d], f)]
<1>1. PICK f \in TreeFiles : \E text \in Texts(f) : Edited(f, text) /\ executing' = Edits(f)
  BY DEF CliEdits
<1>2. PICK text \in Texts(f) : Edited(f, text) /\ executing' = Edits(f)
  BY <1>1
<1>3. executing[c].at = "running"
  BY DEF CliEdits
<1>4. ASSUME NEW d \in Callers
      PROVE  executing'[d] \in CallType /\ CallInv(executing[d])'
  <2>1. PICK call \in CallType : call = executing[d] /\ CallInv(call)
    BY CallTypes
  <2> DEFINE edit == [Touch(call, f) EXCEPT !.must = @ \cup {f}]
  <2>2. CASE d = c
    <3>1. executing'[d] = edit
      BY <1>2, <2>1, <2>2
    <3>2. edit \in CallType /\ CallInv(edit)'
      BY <1>2, <1>3, <2>1, <2>2, MustInv
    <3> HIDE DEF edit
    <3> QED
      BY <3>1, <3>2 DEF CallInv, WatchedCall, ReportedCall, Dirty
  <2>3. CASE d # c
    <3>1. executing'[d] = Touch(call, f)
      BY <1>2, <2>1, <2>3
    <3>2. Touch(call, f) \in CallType /\ CallInv(Touch(call, f))'
      BY <1>2, <2>1, TouchInv
    <3> QED
      BY <3>1, <3>2 DEF CallInv, WatchedCall, ReportedCall, Dirty
  <2> QED
    BY <2>2, <2>3
<1>5. executing' \in [Callers -> CallType]
  BY <1>2, <1>4
<1> QED
  BY <1>2, <1>4, <1>5, EditedFrame

LEMMA CallsInitInv == CallsInit => CallsInv
<1> SUFFICES ASSUME CallsInit PROVE CallsInv
  OBVIOUS
<1>1. NoCall \in CallType /\ CallInv(NoCall) /\ NoAnswer \in AnswerType /\ SaysMock(NoAnswer)
  BY NoCallInv DEF CallInv
<1>2. git \in BOOLEAN /\ head \in [TreeFiles -> {Absent, Committed}]
  BY DEF CallsInit
<1>3. /\ content \in [TreeFiles -> Times] /\ mtime \in [TreeFiles -> Times]
      /\ edits \in 0..MaxEdits /\ made \in 0..MaxCalls
      /\ \A f \in TreeFiles : mtime[f] <= edits + 1
  BY CallsAssumption DEF CallsInit, CallsAssumption, Times, Absent, Committed
<1>4. executing \in [Callers -> CallType] /\ recording \in [Hashes -> AnswerType]
  BY <1>1 DEF CallsInit
<1>5. /\ \A c \in Callers : CallInv(executing[c])
      /\ \A h \in Hashes : SaysMock(recording[h])
  BY <1>1 DEF CallsInit
<1> QED
  BY <1>2, <1>3, <1>4, <1>5 DEF CallsInv, CallsTypeOK

LEMMA CallsNextInv == CallsInv /\ [CallsNext]_callVars => CallsInv'
<1> SUFFICES ASSUME CallsInv, [CallsNext]_callVars PROVE CallsInv'
  OBVIOUS
<1>1. CASE UNCHANGED callVars
  BY <1>1 DEF CallsInv, CallsTypeOK, CallInv, WatchedCall, ReportedCall, SaysMock, Dirty, callVars, treeVars
<1>2. CASE UserEdits
  BY <1>2, UserEditsStep
<1>3. ASSUME NEW c \in Callers,
             \/ Ask(c) \/ AnswerAtOnce(c) \/ Observe(c) \/ CliEdits(c) \/ CliExits(c)
             \/ CliFails(c) \/ KeepRecording(c) \/ Mark(c) \/ Leave(c)
      PROVE  CallsInv'
  BY <1>3, AskStep, AnswerAtOnceStep, ObserveStep, CliEditsStep, CliExitsStep, CliFailsStep,
     KeepRecordingStep, MarkStep, LeaveStep
<1> QED
  BY <1>1, <1>2, <1>3 DEF CallsNext

LEMMA CallsSafety == CallsInit /\ [][CallsNext]_callVars => []CallsInv
  BY CallsInitInv, CallsNextInv, PTL

(* The variables of ExecutorCalls keep their types.                        *)
THEOREM CallTypesHold == CallsSpec => []CallsTypeOK
<1>1. CallsInv => CallsTypeOK
  BY DEF CallsInv
<1> QED
  BY <1>1, CallsSafety, PTL DEF CallsSpec

(* ResultsAreTrue: for any number of callers, files, edits and calls, what
   a result names was changed while its CLI ran, what the CLI changed is
   named unless it was dirty before, clean again or gone, and what a mock
   made is marked as a mock's where it arrives.                            *)
THEOREM ResultsSayWhatHappened == CallsSpec => []ResultsAreTrue
<1>1. CallsInv => ResultsAreTrue
  BY DEF CallsInv, CallInv, ReportedCall, ResultsAreTrue, ChangesReported, MocksKeepTheirMark
<1> QED
  BY <1>1, CallsSafety, PTL DEF CallsSpec

-----------------------------------------------------------------------------
(* A step of one program leaves the others alone, so a behaviour of the
   three is a behaviour of each: but for the fairness of the commands, which
   are not at work when another program is.                                *)
THEOREM ToolsAreApart ==
  ToolsSpec => /\ Init /\ [][Next]_vars
               /\ ReplaySpec
               /\ CallsSpec
<1>1. ToolsInit => Init /\ ReplayInit /\ CallsInit
  BY DEF ToolsInit
<1>2. ASSUME [CommandStep \/ ReplayStep \/ CallStep]_toolVars
      PROVE  [Next]_vars /\ [ReplayNext]_replayVars /\ [CallsNext]_callVars
  BY <1>2 DEF CommandStep, ReplayStep, CallStep, toolVars
<1> QED
  BY <1>1, <1>2, PTL DEF ToolsSpec, ReplaySpec, CallsSpec

LEMMA CommandsSafety == Init /\ [][Next]_vars => []LifecycleInv
  BY InitInv, NextInv, PTL

LEMMA OneTool == ToolsSpec => [](tool \in {"commands", "replays", "calls"})
<1> DEFINE One == tool \in {"commands", "replays", "calls"}
<1>1. ToolsInit => One
  BY DEF ToolsInit
<1>2. One /\ [CommandStep \/ ReplayStep \/ CallStep]_toolVars => One'
  BY DEF CommandStep, ReplayStep, CallStep, toolVars
<1> QED
  BY <1>1, <1>2, PTL DEF ToolsSpec

(* The variables of the three programs keep their types.                   *)
THEOREM ToolTypes == ToolsSpec => []ToolsTypeOK
<1>1. /\ LifecycleInv => TypeOK
      /\ ReplayInv => ReplayTypeOK
      /\ CallsInv => CallsTypeOK
  BY DEF LifecycleInv, ReplayInv, CallsInv
<1>2. /\ tool \in {"commands", "replays", "calls"}
      /\ TypeOK /\ ReplayTypeOK /\ CallsTypeOK
      => ToolsTypeOK
  BY DEF ToolsTypeOK
<1> QED
  BY <1>1, <1>2, ToolsAreApart, OneTool, CommandsSafety, ReplaySafety, CallsSafety, PTL
     DEF CallsSpec

(* OriginalsKept, ReplayedAgrees and ResultsAreTrue: what replays and executors
   promise alone they promise beside the others.                           *)
THEOREM ToolsKeepTheirPromises ==
  ToolsSpec => []OriginalsKept /\ ReplayedAgrees /\ []ResultsAreTrue
BY ToolsAreApart, NothingIsLost, UndisturbedReplaysAgree, ResultsSayWhatHappened, PTL

(* ContinueNeverRedoes, beside replays and executor calls, when one process
   works on the run at a time.                                             *)
THEOREM ToolsContinueOnce == ASSUME Alone PROVE ToolsSpec => ContinueNeverRedoes
BY ToolsAreApart, ContinueNeverRedoesAlone, PTL
=============================================================================
