---------------------------- MODULE ExecutorCalls ----------------------------
(***************************************************************************)
(* The calls executors make on one working tree: the CLI executors         *)
(* (executors/*_executor.py), which find out what a CLI changed by         *)
(* comparing two observations of the tree (executors/_fs_observer.py), and *)
(* the wrapper that records results and replays them                       *)
(* (executors/recording_executor.py), around real and mock executors.      *)
(* Pool threads, retries of one task and processes that share the          *)
(* recordings make them at the same time.                                  *)
(*                                                                         *)
(* Abstracted: prompts and outputs, redaction, the command lines; a        *)
(* request is its hash.  An untracked directory, which git names as one,   *)
(* is one file here.  What a mock leaves below .dev-factory is no file of  *)
(* the tree.                                                               *)
(***************************************************************************)
EXTENDS Naturals

CONSTANTS Callers,
          TreeFiles,    (* what CLIs and people edit                       *)
          Hashes,       (* the requests of the run                         *)
          MaxEdits,     (* bound: edits of the tree                        *)
          MaxCalls      (* bound: calls                                    *)

ASSUME CallsAssumption ==
  MaxEdits \in Nat /\ MaxCalls \in Nat /\ Hashes # {}

VARIABLES
  git,        (* the tree is a git work tree                               *)
  head,       (* what HEAD has of every file                               *)
  content,    (* what the tree has                                         *)
  mtime,
  edits,      (* edits so far                                              *)
  executing,  (* what every caller is doing                                *)
  made,       (* calls so far                                              *)
  recording   (* the <hash>.json files of the recording directory          *)

treeVars == <<git, head, content, mtime, edits>>
callVars == <<treeVars, executing, made, recording>>
-----------------------------------------------------------------------------
Absent == 0
Committed == 1

(* An ExecutionResult: who made it, what it says of itself.                *)
Answer(by, ok, changed, mock) == [by |-> by, ok |-> ok, changed |-> changed, mock |-> mock]
NoAnswer == Answer("none", FALSE, {}, FALSE)

(* A call: its request, the executor it is for and the wrapper's
   directories; the first observation, the files that were dirty then, and
   whether git answered; its result, and, to judge it by, the files it has
   to name and those it may.                                               *)
NoCall == [at |-> "idle", hash |-> CHOOSE h \in Hashes : TRUE, by |-> "cli",
           records |-> FALSE, replays |-> FALSE, before |-> {}, dirty |-> {},
           steady |-> TRUE, answer |-> NoAnswer, must |-> {}, may |-> {}]

CallsInit ==
  /\ git \in BOOLEAN
  /\ head \in [TreeFiles -> IF git THEN {Absent, Committed} ELSE {Absent}]
  /\ content \in [TreeFiles -> {Absent, Committed}]
  /\ mtime = [f \in TreeFiles |-> 1]
  /\ edits = 0 /\ made = 0
  /\ executing = [c \in Callers |-> NoCall]
  /\ recording = [h \in Hashes |-> NoAnswer]

Dirty == { f \in TreeFiles : content[f] # head[f] }
Present == { f \in TreeFiles : content[f] # Absent }

(* snapshot_repo: the paths of git status, or of a walk with their times.
   When git takes too long it looks like no work tree, or a clean one.     *)
GitTokens == { <<f, 0>> : f \in Dirty }
WalkTokens == { <<f, mtime[f]>> : f \in Present }
Observations == IF git THEN {GitTokens, WalkTokens, {}} ELSE {WalkTokens}
Steady(tokens) == git => tokens = GitTokens

(* Mutant: the entries of the observation, not their files.                *)
DiffOfTokens(before, after) == after \ before

(* Mutant: everything that is dirty now.                                   *)
DiffOfAfter(before, after) == { token[1] : token \in after }

(* diff_repo                                                               *)
Diff(before, after) == { token[1] : token \in after \ before }
-----------------------------------------------------------------------------
(* A call reaches the wrapper: a recording of its request is returned
   unchanged, with no call and nothing recorded again.                     *)
Ask(c) ==
  /\ executing[c].at = "idle" /\ made < MaxCalls
  /\ made' = made + 1
  /\ \E h \in Hashes, by \in {"cli", "mock"}, records, replays \in BOOLEAN :
       LET call == [NoCall EXCEPT !.hash = h, !.by = by, !.records = records,
                                  !.replays = replays] IN
       executing' = [executing EXCEPT ![c] =
         IF replays /\ recording[h] # NoAnswer
         THEN [call EXCEPT !.at = "answered", !.answer = recording[h], !.may = TreeFiles]
         ELSE [call EXCEPT !.at = "starting"]]
  /\ UNCHANGED <<treeVars, recording>>

(* The executor gives its result to the wrapper, which records it.         *)
Deliver(call, answer) ==
  [call EXCEPT !.at = IF call.records THEN "recording" ELSE "answered", !.answer = answer]

(* A mock applies its own patch.                                           *)
MockAnswers(c) ==
  /\ executing[c].by = "mock"
  /\ executing' = [executing EXCEPT ![c] = Deliver(@, Answer("mock", TRUE, {}, TRUE))]

(* A prompt with an unsafe or disallowed pattern is refused, and so is any
   by a CLI that is missing, before anything is observed.                  *)
CliRefuses(c) ==
  /\ executing[c].by = "cli"
  /\ executing' = [executing EXCEPT ![c] = Deliver(@, Answer("cli", FALSE, {}, FALSE))]

AnswerAtOnce(c) ==
  /\ executing[c].at = "starting"
  /\ MockAnswers(c) \/ CliRefuses(c)
  /\ UNCHANGED <<treeVars, made, recording>>

Observe(c) ==
  /\ executing[c].at = "starting" /\ executing[c].by = "cli"
  /\ \E tokens \in Observations :
       executing' = [executing EXCEPT ![c] =
         [@ EXCEPT !.at = "running", !.before = tokens, !.dirty = Dirty,
                   !.steady = Steady(tokens)]]
  /\ UNCHANGED <<treeVars, made, recording>>

(* A file is changed: written, deleted, or put back as it is in HEAD.      *)
Edited(f, text) ==
  /\ edits < MaxEdits /\ content[f] # text
  /\ edits' = edits + 1
  /\ content' = [content EXCEPT ![f] = text]
  /\ mtime' = [mtime EXCEPT ![f] = edits + 2]
  /\ UNCHANGED <<git, head, made, recording>>

Texts(f) == {Absent, head[f], edits + 2}
Touch(call, f) == IF call.at = "running" THEN [call EXCEPT !.may = @ \cup {f}] ELSE call

CliEdits(c) ==
  /\ executing[c].at = "running"
  /\ \E f \in TreeFiles : \E text \in Texts(f) :
       /\ Edited(f, text)
       /\ executing' = [d \in Callers |->
            IF d = c THEN [Touch(executing[c], f) EXCEPT !.must = @ \cup {f}]
            ELSE Touch(executing[d], f)]

(* Somebody else works on the tree.                                        *)
UserEdits ==
  \E f \in TreeFiles : \E text \in Texts(f) :
    /\ Edited(f, text)
    /\ executing' = [d \in Callers |-> Touch(executing[d], f)]

(* What need not be named: what is as in HEAD again, or gone, and with git
   what was dirty before.                                                  *)
Excused(call) == IF git THEN (TreeFiles \ Dirty) \cup call.dirty ELSE TreeFiles \ Present

(* The observation is over.                                                *)
Judged(call, steady) ==
  [call EXCEPT !.before = {}, !.dirty = {}, !.steady = TRUE,
               !.must = IF steady THEN @ \ Excused(call) ELSE {},
               !.may = IF steady THEN @ ELSE TreeFiles]

(* The CLI exits, with whatever code, and the tree is observed again.      *)
CliExits(c) ==
  /\ executing[c].at = "running"
  /\ \E ok \in BOOLEAN, tokens \in Observations :
       LET call == executing[c] IN
       executing' = [executing EXCEPT ![c] =
         Deliver(Judged(call, call.steady /\ Steady(tokens)),
                 Answer("cli", ok, Diff(call.before, tokens), FALSE))]
  /\ UNCHANGED <<treeVars, made, recording>>

(* It is killed after its timeout, or cannot be run: no second look.       *)
CliFails(c) ==
  /\ executing[c].at = "running"
  /\ executing' = [executing EXCEPT ![c] =
       Deliver(Judged(@, FALSE), Answer("cli", FALSE, {}, FALSE))]
  /\ UNCHANGED <<treeVars, made, recording>>

(* os.replace puts the finished recording in place.                        *)
KeepRecording(c) ==
  /\ executing[c].at = "recording"
  /\ recording' = [recording EXCEPT ![executing[c].hash] = executing[c].answer]
  /\ executing' = [executing EXCEPT ![c].at = "answered"]
  /\ UNCHANGED <<treeVars, made>>

(* ExecutorRouter.execute: decision.mock_used or result.mock_used.         *)
MarkedAsMock(call) == call.by = "mock" \/ call.answer.mock

Mark(c) ==
  /\ executing[c].at = "answered"
  /\ executing' = [executing EXCEPT ![c] =
       [@ EXCEPT !.at = "returned", !.answer.mock = MarkedAsMock(executing[c])]]
  /\ UNCHANGED <<treeVars, made, recording>>

(* The caller goes on to its next call, or dies.                           *)
Leave(c) ==
  /\ executing[c].at # "idle"
  /\ executing' = [executing EXCEPT ![c] = NoCall]
  /\ UNCHANGED <<treeVars, made, recording>>

CallsNext ==
  \/ UserEdits
  \/ \E c \in Callers :
       \/ Ask(c) \/ AnswerAtOnce(c) \/ Observe(c) \/ CliEdits(c) \/ CliExits(c)
       \/ CliFails(c) \/ KeepRecording(c) \/ Mark(c) \/ Leave(c)

CallsSpec == CallsInit /\ [][CallsNext]_callVars
-----------------------------------------------------------------------------
AnswerType == [by : {"none", "cli", "mock"}, ok : BOOLEAN,
               changed : SUBSET TreeFiles, mock : BOOLEAN]
Times == 0..(MaxEdits + 2)
CallType ==
  [at : {"idle", "starting", "running", "recording", "answered", "returned"},
   hash : Hashes, by : {"cli", "mock"}, records : BOOLEAN, replays : BOOLEAN,
   before : SUBSET (TreeFiles \X Times), dirty : SUBSET TreeFiles, steady : BOOLEAN,
   answer : AnswerType, must : SUBSET TreeFiles, may : SUBSET TreeFiles]

CallsTypeOK ==
  /\ git \in BOOLEAN
  /\ head \in [TreeFiles -> {Absent, Committed}]
  /\ content \in [TreeFiles -> Times] /\ mtime \in [TreeFiles -> Times]
  /\ edits \in 0..MaxEdits /\ made \in 0..MaxCalls
  /\ executing \in [Callers -> CallType]
  /\ recording \in [Hashes -> AnswerType]

(* What changed_files says when git answers as it should: no file that
   nobody changed while the CLI ran, and every file it changed itself but
   those that were dirty before, from another task or an earlier attempt,
   and those that are clean again or gone (_fs_observer.py:90-116, read by
   code_reviewer.py:60).  It may name what others changed meanwhile; a call
   that times out names nothing.                                           *)
ChangesReported ==
  \A c \in Callers :
    LET call == executing[c] IN
    call.at \in {"recording", "answered", "returned"} =>
      call.must \subseteq call.answer.changed /\ call.answer.changed \subseteq call.may

(* Whatever a mock produced is marked as a mock's where it arrives, also
   when it was recorded by one process and replayed to a real executor of
   another (recording_executor.py:98-104, executor_router.py:314).         *)
MocksKeepTheirMark ==
  \A c \in Callers :
    executing[c].at = "returned" /\ executing[c].answer.by = "mock" => executing[c].answer.mock

(* What a result says of the tree and of its origin is true.               *)
ResultsAreTrue == ChangesReported /\ MocksKeepTheirMark
=============================================================================
