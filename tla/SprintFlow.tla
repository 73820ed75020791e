----------------------------- MODULE SprintFlow -----------------------------
(***************************************************************************)
(* sprint-start and sprint-retro (flows/sprint_flow.py, called by          *)
(* agents/sprint_manager.py and cli.py): commands of several users that    *)
(* share nothing but the directories below .autodev/sprints.               *)
(*                                                                         *)
(* A sprint is its number.  Abstracted: goals, tasks and results; the      *)
(* actions of a retrospective are the sprints they speak of.  A file is    *)
(* written by truncating and filling it.                                   *)
(***************************************************************************)
EXTENDS Naturals

CONSTANTS Users,
          MaxSprints,   (* bound: sprints                                  *)
          MaxRetros     (* bound: retrospectives                           *)

ASSUME SprintAssumption == MaxSprints \in Nat /\ MaxRetros \in Nat

VARIABLES
  made,     (* the sprint-NNN directories                                  *)
  state,    (* state.json in each                                          *)
  retro,    (* retrospective.json in each                                  *)
  job,      (* each user's command: where it is, its sprint_id and
               prev_sprint_id, the lessons it hands down, and the sprints
               that had been reported when it began                        *)
  retros,   (* retrospectives so far                                       *)
  told,     (* the sprints that some sprint-start has reported             *)
  tidy      (* commands ran one at a time, none died, and each sprint was
               closed by a retrospective before the next began             *)

dirVars == <<made, state, retro>>
sprintVars == <<dirVars, job, retros, told, tidy>>
-----------------------------------------------------------------------------
Sprints == 1..MaxSprints
NoSprint == 0
File(content, about) == [content |-> content, about |-> about]
NoFile == File("none", {})
Job(at, n, lessons, known) == [at |-> at, sprint |-> n, previous |-> NoSprint,
                               lessons |-> lessons, known |-> known]
NoJob == Job("idle", NoSprint, {}, {})

SprintInit ==
  /\ made = {}
  /\ state = [n \in Sprints |-> NoFile] /\ retro = [n \in Sprints |-> NoFile]
  /\ job = [u \in Users |-> NoJob]
  /\ retros = 0 /\ told = {} /\ tidy = TRUE

Greatest(S) == IF S = {} THEN NoSprint ELSE CHOOSE n \in S : \A m \in S : m <= n
Quiet == \A u \in Users : job[u].at = "idle"
Closed(n) == retro[n].content = "written"

(* Mutant: the sprint after the last one that was closed.                  *)
NextAfterClosed == 1 + Greatest({ n \in made : Closed(n) })

(* _next_sprint_id                                                         *)
NextSprint == 1 + Greatest(made)

(* start_sprint scans the directories for the number of the new sprint ... *)
StartSprint(u) ==
  /\ job[u].at = "idle" /\ NextSprint \in Sprints
  /\ job' = [job EXCEPT ![u] = Job("linking", NextSprint, {}, told)]
  /\ tidy' = (tidy /\ Quiet /\ \A n \in made : Closed(n))
  /\ UNCHANGED <<dirVars, retros, told>>

(* ... scans them again for the previous one ...                           *)
Link(u) ==
  /\ job[u].at = "linking"
  /\ job' = [job EXCEPT ![u].at = "recalling", ![u].previous = Greatest(made)]
  /\ UNCHANGED <<dirVars, retros, told, tidy>>

(* ... reads its retrospective, where a missing or unreadable file says
   nothing (_previous_retro_summary) ...                                   *)
Summary(n) == IF n = NoSprint THEN {} ELSE retro[n].about

Recall(u) ==
  /\ job[u].at = "recalling"
  /\ job' = [job EXCEPT ![u].at = "making", ![u].lessons = Summary(job[u].previous)]
  /\ UNCHANGED <<dirVars, retros, told, tidy>>

(* ... makes the directory, which may exist by now ...                     *)
MakeDirs(u) ==
  /\ job[u].at = "making"
  /\ made' = made \cup {job[u].sprint}
  /\ job' = [job EXCEPT ![u].at = "saving"]
  /\ UNCHANGED <<state, retro, retros, told, tidy>>

(* ... and saves the state, in two steps.                                  *)
SaveState(u) ==
  \/ /\ job[u].at = "saving"
     /\ state' = [state EXCEPT ![job[u].sprint] = File("torn", {})]
     /\ job' = [job EXCEPT ![u].at = "filling"]
     /\ UNCHANGED <<made, retro, retros, told, tidy>>
  \/ /\ job[u].at = "filling"
     /\ state' = [state EXCEPT ![job[u].sprint] = File("written", job[u].lessons)]
     /\ job' = [job EXCEPT ![u] = NoJob]
     /\ told' = told \cup {job[u].sprint}
     /\ UNCHANGED <<made, retro, retros, tidy>>

(* retrospective: the lessons of the previous sprint, as the state has them,
   and this sprint's.  A missing state.json is an empty one, a torn one
   raises.                                                                 *)
Retrospective(u, n) ==
  /\ job[u].at = "idle" /\ n \in made /\ retros < MaxRetros
  /\ state[n].content # "torn"
  /\ job' = [job EXCEPT ![u] = Job("reporting", n, state[n].about \cup {n}, {})]
  /\ retros' = retros + 1
  /\ tidy' = (tidy /\ Quiet)
  /\ UNCHANGED <<dirVars, told>>

SaveRetro(u) ==
  /\ \/ /\ job[u].at = "reporting"
        /\ retro' = [retro EXCEPT ![job[u].sprint] = File("torn", {})]
        /\ job' = [job EXCEPT ![u].at = "closing"]
     \/ /\ job[u].at = "closing"
        /\ retro' = [retro EXCEPT ![job[u].sprint] = File("written", job[u].lessons)]
        /\ job' = [job EXCEPT ![u] = NoJob]
  /\ UNCHANGED <<made, state, retros, told, tidy>>

(* The command dies.                                                       *)
Die(u) ==
  /\ job[u].at # "idle"
  /\ job' = [job EXCEPT ![u] = NoJob]
  /\ tidy' = FALSE
  /\ UNCHANGED <<dirVars, retros, told>>

SprintCommand(u) ==
  \/ StartSprint(u) \/ Link(u) \/ Recall(u) \/ MakeDirs(u) \/ SaveState(u)
  \/ \E n \in Sprints : Retrospective(u, n)
  \/ SaveRetro(u) \/ Die(u)

SprintNext == \E u \in Users : SprintCommand(u)

SprintSpec == SprintInit /\ [][SprintNext]_sprintVars
-----------------------------------------------------------------------------
Starting == {"linking", "recalling", "making", "saving", "filling"}
StoredFile == [content : {"none", "torn", "written"}, about : SUBSET Sprints]

SprintTypeOK ==
  /\ made \subseteq Sprints
  /\ state \in [Sprints -> StoredFile] /\ retro \in [Sprints -> StoredFile]
  /\ job \in [Users -> [at : {"idle", "reporting", "closing"} \cup Starting,
                       sprint : Sprints \cup {NoSprint},
                       previous : Sprints \cup {NoSprint},
                       lessons : SUBSET Sprints, known : SUBSET Sprints]]
  /\ retros \in 0..MaxRetros /\ told \subseteq Sprints /\ tidy \in BOOLEAN

(* A sprint that was reported to somebody is never taken for new by a
   command that begins later, and numbers have no gaps, whichever commands
   overlap or die (sprint_flow.py:46-57).  Commands that overlap may share
   a number.                                                               *)
FreshSprints ==
  /\ \A u \in Users : job[u].at \in Starting => job[u].sprint \notin job[u].known
  /\ \A n \in made : 1..n \subseteq made

(* Lessons are handed down: when commands do not overlap and each sprint is
   closed before the next one begins, the state of a sprint holds those of
   all sprints before it (sprint_flow.py:90-103, 293-300).                 *)
LessonsHandedDown ==
  tidy => \A n \in Sprints : state[n].content = "written" => state[n].about = 1..(n - 1)

(* Sprints follow each other, in their numbers and in what they know.      *)
SprintsFollow == FreshSprints /\ LessonsHandedDown
=============================================================================
