---------------------------- MODULE RunLifecycle ----------------------------
(***************************************************************************)
(* The life of one run: the record run_state.json keeps of it, and the     *)
(* commands that read, change and rewrite that file as separate processes. *)
(* deliver-project, an issue, a bug fix or its multi-patch variant creates *)
(* the run; execute-milestone, continue-run, replay, verify and            *)
(* release-check work on it later, one after the other or at the same time *)
(* (nothing locks the file).  A process may die anywhere, between          *)
(* truncating the file and writing it too.                                 *)
(*                                                                         *)
(* A milestone is one step with any outcome MilestoneRun allows.           *)
(* Abstracted: the documents of the earlier stages (brief, PRD,            *)
(* architecture), the artifact files beside the record, timestamps, and    *)
(* which gate failed, as long as it is not security.                       *)
(***************************************************************************)
EXTENDS Naturals

CONSTANTS Procs,            (* processes that may run commands             *)
          MaxMilestones,    (* of a plan                                   *)
          MaxCommands       (* bounds the commands of a behaviour          *)

ASSUME LifecycleAssumption ==
  MaxMilestones \in Nat \ {0} /\ MaxCommands \in Nat \ {0}

VARIABLES
  disk,         (* run_state.json: NoRun, Torn (truncated), or a record    *)
  mode,         (* state.mode: the mode of the creating command, never
                   assigned again                                          *)
  job,          (* what every process is doing                             *)
  commands,     (* commands begun                                          *)
  rehearsing,   (* execute-milestone has been run in dry-run mode          *)
  invited       (* a command was allowed mocks: by its option, by the
                   default of its mode, or by being a replay               *)

vars == <<disk, mode, job, commands, rehearsing, invited>>

Modes == {"dry-run", "apply"}
Milestones == 1..MaxMilestones
Plans == { 1..k : k \in Milestones }

(* What implementation_results says of a milestone: nothing, or that its
   tasks failed, succeeded in apply mode, in dry-run mode (a rehearsal), or
   with the help of a mock.                                                *)
Outcomes == {"none", "failed", "applied", "rehearsed", "mocked"}
Success == {"applied", "rehearsed", "mocked"}

(* The fields of PipelineRunState.  gates sums up quality, integration and
   (blocked) security; verified is "empty" for a verification that passed
   without any acceptance evidence.                                        *)
Record == [plan : SUBSET Milestones,
           results : [Milestones -> Outcomes],
           mock : BOOLEAN,
           gates : {"none", "passed", "failed", "blocked"},
           verified : {"none", "empty", "failed", "passed"},
           errors : SUBSET {"incomplete", "replayed"},
           check : {"none", "Ready", "NotReady", "Blocked"}]

NoResults == [m \in Milestones |-> "none"]
Fresh == [plan |-> {}, results |-> NoResults, mock |-> FALSE, gates |-> "none",
          verified |-> "none", errors |-> {}, check |-> "none"]
NoRun == [file |-> "missing"]
Torn == [file |-> "truncated"]

Done(r) == { m \in r.plan : r.results[m] \in Success }
Complete(r) == r.plan # {} /\ Done(r) = r.plan

(* A process: its command, where it is, the milestones left to it, its copy
   of the record, the mode and allow_mock its milestones get, whether a
   failed one ends the loop, and where it goes once the record is saved.   *)
Creating == {"deliver", "issue", "bugfix", "patches"}
Commands == Creating \cup {"execute", "continue", "replay", "verify", "check"}
Stages == {"survey", "load", "plan", "implement", "gates", "verify", "decide",
           "close", "reload", "truncate", "write", "idle"}
Job == [cmd : Commands \cup {"none"}, at : Stages, left : SUBSET Milestones,
        mem : Record, mode : Modes, allow : BOOLEAN, stops : BOOLEAN,
        then : {"plan", "implement", "load", "reload", "idle"}]

Idle == [cmd |-> "none", at |-> "idle", left |-> {}, mem |-> Fresh,
         mode |-> "dry-run", allow |-> FALSE, stops |-> FALSE, then |-> "idle"]

Init == /\ disk = NoRun
        /\ mode \in Modes
        /\ job = [p \in Procs |-> Idle]
        /\ commands = 0
        /\ rehearsing = FALSE /\ invited = FALSE

Goto(p, at) == job' = [job EXCEPT ![p].at = at]
Exit(p) == job' = [job EXCEPT ![p] = Idle]

(* The copy of the record changes, and the process moves on.               *)
Update(p, mem, at) == job' = [job EXCEPT ![p].mem = mem, ![p].at = at]

(* RunState.save, then at.                                                 *)
Save(p, mem, at) ==
  job' = [job EXCEPT ![p].mem = mem, ![p].at = "truncate", ![p].then = at]

history == <<rehearsing, invited>>
record == <<disk, mode>>
-----------------------------------------------------------------------------
(* init_run: a new run with its first save.  Mocks are allowed by option,
   or by default in dry-run mode.                                          *)
Create(p) ==
  /\ commands = 0 /\ job[p].at = "idle"
  /\ \E cmd \in Creating, allow, stops \in BOOLEAN :
       /\ job' = [job EXCEPT ![p] = [Idle EXCEPT
                    !.cmd = cmd, !.at = "truncate", !.then = "plan",
                    !.mode = mode, !.allow = allow, !.stops = stops]]
       /\ invited' = (invited \/ allow)
  /\ commands' = 1
  /\ UNCHANGED <<record, rehearsing>>

(* A later command; which milestone execute-milestone runs, and from where
   replay starts, is in its options.                                       *)
Command(p, cmd, at, left, m, allow) ==
  job' = [job EXCEPT ![p] = [Idle EXCEPT
            !.cmd = cmd, !.at = at, !.left = left, !.mode = m, !.allow = allow]]

Begin(p) ==
  /\ commands \in 1..(MaxCommands - 1) /\ job[p].at = "idle"
  /\ commands' = commands + 1
  /\ \/ \E m \in Milestones, md \in Modes, allow \in BOOLEAN :
          /\ Command(p, "execute", "load", {m}, md, allow)
          /\ rehearsing' = (rehearsing \/ md = "dry-run")
          /\ invited' = (invited \/ allow)
     \/ /\ Command(p, "continue", "survey", {}, mode, FALSE)
        /\ UNCHANGED <<rehearsing, invited>>
     \/ /\ Command(p, "replay", "load", {}, mode, TRUE)
        /\ invited' = TRUE /\ UNCHANGED rehearsing
     \/ \E cmd \in {"verify", "check"} :
          /\ Command(p, cmd, "load", {}, mode, FALSE)
          /\ UNCHANGED <<rehearsing, invited>>
  /\ UNCHANGED record

(* Mutant: a process that cannot load the file tries again.                *)
LoadRetries(p) == /\ job[p].at \in {"survey", "load", "reload"}
                  /\ disk \notin Record
                  /\ UNCHANGED vars

(* RunState.load fails on a missing or truncated file: the command ends.   *)
LoadFails(p) == /\ job[p].at \in {"survey", "load", "reload"}
                /\ disk \notin Record
                /\ Exit(p)
                /\ UNCHANGED <<record, commands, history>>

(* Mutant: continue-run takes the whole plan.                              *)
SurveyOfAll(p) ==
  /\ job[p].at = "survey" /\ disk \in Record
  /\ IF disk.plan \ Done(disk) = {}
     THEN Exit(p) /\ UNCHANGED invited
     ELSE \E allow \in BOOLEAN, given \in BOOLEAN :
            /\ given \/ allow = disk.mock
            /\ job' = [job EXCEPT ![p].at = "load", ![p].left = disk.plan,
                                  ![p].allow = allow]
            /\ invited' = (invited \/ (given /\ allow))
  /\ UNCHANGED <<record, commands, rehearsing>>

(* continue_run looks for milestones left to do.  Without an option it
   allows mocks exactly when the run has used one.                         *)
Survey(p) ==
  /\ job[p].at = "survey" /\ disk \in Record
  /\ LET remaining == disk.plan \ Done(disk) IN
     IF remaining = {}
     THEN Exit(p) /\ UNCHANGED invited
     ELSE \E allow \in BOOLEAN, given \in BOOLEAN :
            /\ given \/ allow = disk.mock
            /\ job' = [job EXCEPT ![p].at = "load", ![p].left = remaining,
                                  ![p].allow = allow]
            /\ invited' = (invited \/ (given /\ allow))
  /\ UNCHANGED <<record, commands, rehearsing>>

(* RunState.load, and the first stage of the command.  replay may start
   anywhere from planning on; implementing needs a plan.                   *)
Starts == {<<"execute", "implement">>, <<"continue", "implement">>,
           <<"verify", "verify">>, <<"check", "decide">>}
          \cup {"replay"} \X {"plan", "implement", "gates", "verify", "decide"}

Load(p) ==
  /\ job[p].at = "load" /\ disk \in Record
  /\ \E at \in Stages :
       /\ <<job[p].cmd, at>> \in Starts
       /\ IF at = "implement" /\ disk.plan = {}
          THEN Exit(p)
          ELSE IF at = "implement" /\ job[p].cmd = "replay"
          THEN job' = [job EXCEPT ![p].mem = [disk EXCEPT !.results = NoResults],
                                  ![p].at = at, ![p].left = disk.plan]
          ELSE Update(p, disk, at)
  /\ UNCHANGED <<record, commands, history>>

(* The planning stage: a non-empty plan, its milestones all to do, a single
   one for an issue or a bug.  A bug fix saves it, the others go on; the
   plan of a multi-patch run grows with its candidates.                    *)
Plan(p) ==
  /\ job[p].at = "plan"
  /\ \E plan \in Plans :
       LET mem == [job[p].mem EXCEPT
                     !.plan = IF job[p].cmd = "patches" THEN {} ELSE plan,
                     !.results = NoResults] IN
       /\ job[p].cmd \in {"bugfix", "issue"} => plan = {1}
       /\ IF job[p].cmd = "bugfix"
          THEN job' = [job EXCEPT ![p].mem = mem, ![p].left = plan,
                                     ![p].at = "truncate", ![p].then = "implement"]
          ELSE job' = [job EXCEPT ![p].mem = mem, ![p].left = plan,
                                  ![p].at = "implement"]
  /\ UNCHANGED <<record, commands, history>>

(* run_milestone returns: in dry-run mode nothing is applied, and a mock
   runs only when allowed; one that was tried and not kept marks the run
   as well.                                                                *)
Result(p) == {"failed", IF job[p].mode = "dry-run" THEN "rehearsed" ELSE "applied"}
             \cup (IF job[p].allow THEN {"mocked"} ELSE {})

Marked(p, result) == IF result = "mocked" THEN {TRUE}
                     ELSE {job[p].mem.mock} \cup (IF job[p].allow THEN {TRUE} ELSE {})

(* The flows that collect their results in memory, a multi-patch run up to
   its last candidate; the other commands save after every milestone.      *)
Collects(cmd, left) ==
  cmd \in {"deliver", "issue", "replay"} \/ (cmd = "patches" /\ left # {})

(* The next milestone of the loop, or the next candidate.                  *)
Implement(p) ==
  /\ job[p].at = "implement"
  /\ \E next \in job[p].left, result \in Result(p) : \E mock \in Marked(p, result) :
       LET plan == IF job[p].cmd = "patches" THEN {next} \cup job[p].mem.plan
                   ELSE job[p].mem.plan
           mem == [job[p].mem EXCEPT !.plan = plan, !.results[next] = result,
                                     !.mock = mock]
           left == IF result = "failed" /\ job[p].cmd = "deliver" /\ job[p].stops
                   THEN {} ELSE job[p].left \ {next}
           collects == Collects(job[p].cmd, left)
           after == IF left # {} THEN (IF collects THEN "implement" ELSE "load")
                    ELSE IF collects THEN "gates"
                    ELSE IF job[p].cmd = "continue" THEN "reload" ELSE "idle"
       IN /\ \A m \in job[p].left : next <= m
          /\ job' = [job EXCEPT ![p] = [job[p] EXCEPT
                       !.mem = mem, !.left = left,
                       !.at = IF collects THEN after ELSE "truncate",
                       !.then = IF collects THEN "idle" ELSE after]]
  /\ UNCHANGED <<record, commands, history>>
-----------------------------------------------------------------------------
(* The quality, security and integration reviews; an issue has no security
   review, the only one that blocks.                                       *)
Gates(p) ==
  /\ job[p].at = "gates"
  /\ \E g \in {"passed", "failed"} \cup
             (IF job[p].cmd = "issue" THEN {} ELSE {"blocked"}) :
       Update(p, [job[p].mem EXCEPT !.gates = g], "verify")
  /\ UNCHANGED <<record, commands, history>>

(* Mutant: recorded errors are left to the reader.                         *)
VerifiedByResults(r) == IF Done(r) # r.plan THEN "failed"
                        ELSE IF r.plan = {} THEN "empty" ELSE "passed"

(* VerifierAgent.verify                                                    *)
Verified(r) == IF r.errors # {} \/ Done(r) # r.plan THEN "failed"
               ELSE IF r.plan = {} THEN "empty" ELSE "passed"

Verify(p) ==
  /\ job[p].at = "verify"
  /\ LET mem == [job[p].mem EXCEPT !.verified = Verified(job[p].mem)] IN
     IF job[p].cmd \in {"verify", "issue"} THEN Save(p, mem, "idle")
     ELSE Update(p, mem, "decide")
  /\ UNCHANGED <<record, commands, history>>

(* Mutant: mock evidence is good enough.                                   *)
DecisionWithMocks(r) ==
  IF r.gates = "blocked" THEN "Blocked"
  ELSE IF /\ Complete(r) /\ r.gates # "failed" /\ r.verified = "passed"
          /\ mode = "apply"
  THEN "Ready" ELSE "NotReady"

(* ReleaseGate.check                                                       *)
Decision(r) == IF r.gates = "blocked" THEN "Blocked"
               ELSE IF /\ Complete(r)
                       /\ r.gates # "failed"
                       /\ r.verified = "passed"
                       /\ ~r.mock
                       /\ mode = "apply"
               THEN "Ready" ELSE "NotReady"

Decide(p) ==
  /\ job[p].at = "decide"
  /\ LET mem == [job[p].mem EXCEPT !.check = Decision(job[p].mem)] IN
     IF job[p].cmd = "check" THEN Save(p, mem, "idle") ELSE Update(p, mem, "close")
  /\ UNCHANGED <<record, commands, history>>

(* The last lines of a delivery and of a replay: the errors to remember,
   and the save.                                                           *)
Remembered(p) ==
  IF job[p].cmd = "replay" THEN {"replayed"}
  ELSE IF \E m \in job[p].mem.plan : job[p].mem.results[m] = "failed"
  THEN {"incomplete"} ELSE {}

Close(p) ==
  /\ job[p].at = "close"
  /\ Save(p, [job[p].mem EXCEPT !.errors = @ \cup Remembered(p)], "idle")
  /\ UNCHANGED <<record, commands, history>>

(* The end of continue_run: load once more, and finish() a complete run.   *)
Reload(p) ==
  /\ job[p].at = "reload" /\ disk \in Record
  /\ IF Complete(disk) THEN Save(p, disk, "idle") ELSE Exit(p)
  /\ UNCHANGED <<record, commands, history>>

(* write_json: write_text truncates the file and then writes it.           *)
Truncate(p) == /\ job[p].at = "truncate"
               /\ disk' = Torn
               /\ Goto(p, "write")
               /\ UNCHANGED <<mode, commands, history>>

Write(p) == /\ job[p].at = "write"
            /\ disk' = job[p].mem
            /\ IF job[p].then = "idle" THEN Exit(p) ELSE Goto(p, job[p].then)
            /\ UNCHANGED <<mode, commands, history>>

(* The process dies: killed, or by an exception of a stage.                *)
Crash(p) == /\ job[p].at # "idle"
            /\ Exit(p)
            /\ UNCHANGED <<record, commands, history>>

Step(p) == \/ LoadFails(p) \/ Survey(p) \/ Load(p) \/ Plan(p) \/ Implement(p)
           \/ Gates(p) \/ Verify(p) \/ Decide(p) \/ Close(p) \/ Reload(p)
           \/ Truncate(p) \/ Write(p)

Next == \E p \in Procs : Create(p) \/ Begin(p) \/ Step(p) \/ Crash(p)

Spec == Init /\ [][Next]_vars /\ \A p \in Procs : WF_vars(Step(p))
-----------------------------------------------------------------------------
TypeOK == /\ disk \in Record \cup {NoRun, Torn}
          /\ mode \in Modes
          /\ job \in [Procs -> Job]
          /\ commands \in 0..MaxCommands
          /\ rehearsing \in BOOLEAN /\ invited \in BOOLEAN

(* A release check that answers ReleaseReady (ReleaseGate.check) does so of
   a run whose planned milestones all changed the repository, by real
   executors: however often the record was loaded and overwritten by others
   meanwhile, and whatever happened to the milestones before.  The one
   exception is a milestone that execute-milestone ran in dry-run mode.    *)
ReadyIsReal ==
  [][\A p \in Procs :
       LET r == job'[p].mem IN
       job[p].at = "decide" /\ job'[p].at # "decide" /\ r.check = "Ready" =>
         \A m \in r.plan : \/ r.results[m] = "applied"
                           \/ r.results[m] = "rehearsed" /\ rehearsing]_vars

(* A delivery that ended with a failed milestone recorded an error, which
   the verifier never forgives: whatever continue-run completes later, no
   record of that run is ever ReleaseReady.                                *)
Records == (IF disk \in Record THEN {disk} ELSE {}) \cup { job[p].mem : p \in Procs }

FailureSticks ==
  \A r \in Records : "incomplete" \in r.errors => r.check # "Ready"

(* A run is marked mock_execution_used only after some command was allowed
   mocks: continue-run, which decides for itself, never brings them in.    *)
NoUninvitedMock == ~invited => \A r \in Records : ~r.mock

(* Mock evidence is never detached from its mark (mark_backend): a record
   that counts a mocked milestone as done says mock_execution_used, whoever
   wrote it.                                                               *)
MocksAreMarked ==
  \A r \in Records : \A m \in Milestones : r.results[m] = "mocked" => r.mock

(* Mocks come in by invitation only, and leave a mark that stays.          *)
MocksOnRecord == NoUninvitedMock /\ MocksAreMarked

(* No copy of the record, in whatever process, says better than it was.    *)
RecordIsHonest == FailureSticks /\ MocksOnRecord

(* continue-run executes only milestones that are not done, and keeps what
   the others achieved: no crash, replay or repeated run in between makes it
   redo one.  (Of one process at a time: the list of what is left is read
   once, and two at the same time do redo each other's milestones.)        *)
ContinueNeverRedoes ==
  [][\A p \in Procs :
       LET before == job[p].mem
           after == job'[p].mem
       IN job[p].cmd = "continue" /\ job[p].at = "implement" /\ job'[p].at # "idle" =>
            \A m \in Done(before) : after.results[m] = before.results[m]]_vars

(* Every command ends, if it is given time: no stage waits for another
   process.                                                                *)
CommandsEnd == \A p \in Procs : []<>(job[p].at = "idle")

(* What README.md:230 says: release_check returns NotReleaseReady when
   dry-run was used; it never finds a rehearsed milestone ready.           *)
ReadyMeansApplied ==
  [][\A p \in Procs :
       LET r == job'[p].mem IN
       job[p].at = "decide" /\ job'[p].at # "decide" /\ r.check = "Ready" =>
         \A m \in r.plan : r.results[m] # "rehearsed"]_vars
=============================================================================
