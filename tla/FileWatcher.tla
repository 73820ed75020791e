----------------------------- MODULE FileWatcher -----------------------------
(***************************************************************************)
(* The two debounced file watchers: SprintWatcher (_watcher.py), which     *)
(* reports the file that changed, and ReverseDocWatcherFlow                *)
(* (flows/reverse_doc_watcher_flow.py), which documents all of the source  *)
(* again.  An editor saves files, watchdog's observer thread delivers the  *)
(* events one by one, every event starts a timer thread, and the command's *)
(* main thread stops it all when it is told to (cli.py).                   *)
(*                                                                         *)
(* What the lock protects is one step; a timer that has expired and waits  *)
(* for the lock can no longer be cancelled.  Abstracted: the text of files *)
(* and documents (a file is how often it was saved, a document the saves   *)
(* it is written from), and time (an armed timer may expire).              *)
(***************************************************************************)
EXTENDS Naturals, Sequences

CONSTANTS Files,      (* what an editor saves below the watched directory  *)
          Kinds,      (* which of the two watchers                         *)
          MaxSaves,   (* bound: how often each file is saved               *)
          Timers      (* bound: timer threads that exist at one time       *)

Docs == "documents"   (* what DocumentProjectAgent writes below src_path   *)
NoTimer == 0

ASSUME WatcherAssumption ==
  /\ Docs \notin Files
  /\ Kinds \subseteq {"sprint", "reverse-doc"}
  /\ MaxSaves \in Nat
  /\ Timers \subseteq Nat \ {NoTimer}

VARIABLES
  kind,      (* the watcher that runs                                      *)
  main,      (* the main thread: off, watching, joining, joined, ended     *)
  observing, (* the observer thread dispatches events                      *)
  saved,     (* how often each file was saved                              *)
  latest,    (* the file saved last                                        *)
  events,    (* the observer's queue                                       *)
  pending,   (* _pending_path or _pending_paths                            *)
  timer,     (* _debounce_timer                                            *)
  thread,    (* what each timer thread does                                *)
  path,      (* the path a timer thread took                               *)
  text,      (* the documents a timer thread holds                         *)
  seen,      (* the saves of a file that a reload began after              *)
  drafts,    (* the saves that <src_path>/.autodev/brownfield-docs shows   *)
  published, (* the saves that out_dir shows                               *)
  raised     (* some run_once raised                                       *)

editorVars == <<saved, latest>>
debounceVars == <<pending, timer>>
docVars == <<text, drafts, published, raised>>
watchVars == <<kind, main, observing, editorVars, events, debounceVars, thread, path,
               seen, docVars>>
-----------------------------------------------------------------------------
Versions == [Files -> 0..MaxSaves]
Unsaved == [f \in Files |-> 0]

WatchInit ==
  /\ kind \in Kinds
  /\ main = "off" /\ observing = FALSE
  /\ saved = Unsaved /\ latest = Docs
  /\ events = <<>> /\ pending = {} /\ timer = NoTimer
  /\ thread = [s \in Timers |-> "free"]
  /\ path = [s \in Timers |-> Docs] /\ text = [s \in Timers |-> Unsaved]
  /\ seen = Unsaved /\ drafts = Unsaved /\ published = Unsaved
  /\ raised = FALSE

(* start()                                                                 *)
WatchStart ==
  /\ main = "off"
  /\ main' = "watching" /\ observing' = TRUE
  /\ UNCHANGED <<kind, editorVars, events, debounceVars, thread, path, seen, docVars>>

(* watchdog queues an event, but no two of the same in a row.              *)
Notified(p) == IF ~observing \/ (events # <<>> /\ events[Len(events)] = p)
               THEN events ELSE Append(events, p)

(* Somebody saves a file below the watched directory.                      *)
Save(f) ==
  /\ main # "off" /\ saved[f] < MaxSaves
  /\ saved' = [saved EXCEPT ![f] = @ + 1]
  /\ latest' = f
  /\ events' = Notified(f)
  /\ UNCHANGED <<kind, main, observing, debounceVars, thread, path, seen, docVars>>

(* Timer.cancel() stops a timer that has not expired yet, and no other.    *)
Cancelled == IF timer # NoTimer /\ thread[timer] = "armed"
             THEN [thread EXCEPT ![timer] = "free"] ELSE thread

(* Mutant: the new timer is set before the old one is cancelled.           *)
ScheduleThenCancel ==
  /\ observing /\ events # <<>>
  /\ events' = Tail(events)
  /\ pending' = IF kind = "sprint" THEN {Head(events)} ELSE pending \cup {Head(events)}
  /\ \E s \in Timers : thread[s] = "free" /\ timer' = s
  /\ UNCHANGED <<kind, main, observing, editorVars, thread, path, seen, docVars>>

(* _schedule, on the observer's thread: the sprint watcher's pending path
   is replaced, the other's joins the set.                                 *)
Schedule ==
  /\ observing /\ events # <<>>
  /\ events' = Tail(events)
  /\ pending' = IF kind = "sprint" THEN {Head(events)} ELSE pending \cup {Head(events)}
  /\ \E s \in Timers :
       /\ Cancelled[s] = "free"
       /\ timer' = s
       /\ thread' = [Cancelled EXCEPT ![s] = "armed"]
  /\ UNCHANGED <<kind, main, observing, editorVars, path, seen, docVars>>

Expire(s) ==
  /\ thread[s] = "armed"
  /\ thread' = [thread EXCEPT ![s] = "expired"]
  /\ UNCHANGED <<kind, main, observing, editorVars, events, debounceVars, path, seen,
                 docVars>>

(* Mutant: on_reload is called whether or not a path is pending.           *)
FireSprintUnchecked(s) ==
  /\ kind = "sprint"
  /\ thread' = [thread EXCEPT ![s] = "reloading"]
  /\ \E p \in (IF pending = {} THEN {"None"} ELSE pending) : path' = [path EXCEPT ![s] = p]
  /\ UNCHANGED seen

(* _fire of the sprint watcher: nothing is reloaded when the path is gone.  *)
FireSprint(s) ==
  /\ kind = "sprint"
  /\ IF pending = {}
     THEN thread' = [thread EXCEPT ![s] = "free"] /\ UNCHANGED path
     ELSE /\ thread' = [thread EXCEPT ![s] = "reloading"]
          /\ \E p \in pending : path' = [path EXCEPT ![s] = p]
  /\ UNCHANGED seen

(* _fire of the other: it documents in any case.                           *)
FireReverseDoc(s) ==
  /\ kind = "reverse-doc"
  /\ thread' = [thread EXCEPT ![s] = "documenting"]
  /\ seen' = saved
  /\ UNCHANGED path

(* Under the lock it takes what is pending and forgets the timer, whichever
   timer it is.                                                            *)
Fire(s) ==
  /\ thread[s] = "expired"
  /\ pending' = {} /\ timer' = NoTimer
  /\ FireSprint(s) \/ FireReverseDoc(s)
  /\ UNCHANGED <<kind, main, observing, editorVars, events, docVars>>

(* on_reload(path), outside the lock.                                      *)
Reload(s) ==
  /\ thread[s] = "reloading"
  /\ thread' = [thread EXCEPT ![s] = "free"]
  /\ seen' = [f \in Files |-> IF f = path[s] THEN saved[f] ELSE seen[f]]
  /\ UNCHANGED <<kind, main, observing, editorVars, events, debounceVars, path, docVars>>
-----------------------------------------------------------------------------
(* run_once, outside the lock: the sections are made from the source ...    *)
Document(s) ==
  /\ thread[s] = "documenting"
  /\ thread' = [thread EXCEPT ![s] = "writing"]
  /\ text' = [text EXCEPT ![s] = saved]
  /\ UNCHANGED <<kind, main, observing, editorVars, events, debounceVars, path, seen,
                 drafts, published, raised>>

(* ... written below src_path, where the observer sees them ...            *)
WriteDrafts(s) ==
  /\ thread[s] = "writing"
  /\ thread' = [thread EXCEPT ![s] = "relocating"]
  /\ drafts' = text[s]
  /\ events' = Notified(Docs)
  /\ UNCHANGED <<kind, main, observing, editorVars, debounceVars, path, seen, text,
                 published, raised>>

(* ... and copied from there to out_dir (_relocate_sections).              *)
ReadDrafts(s) ==
  /\ thread[s] = "relocating"
  /\ thread' = [thread EXCEPT ![s] = "copying"]
  /\ text' = [text EXCEPT ![s] = drafts]
  /\ UNCHANGED <<kind, main, observing, editorVars, events, debounceVars, path, seen,
                 drafts, published, raised>>

Publish(s) ==
  /\ thread[s] = "copying"
  /\ thread' = [thread EXCEPT ![s] = "free"]
  /\ published' = text[s]
  /\ UNCHANGED <<kind, main, observing, editorVars, events, debounceVars, path, seen,
                 text, drafts, raised>>

(* Whatever run_once raises is swallowed; nothing is pending any more.     *)
RunRaises(s) ==
  /\ thread[s] \in {"documenting", "writing", "relocating", "copying"}
  /\ thread' = [thread EXCEPT ![s] = "free"]
  /\ raised' = TRUE
  /\ UNCHANGED <<kind, main, observing, editorVars, events, debounceVars, path, seen,
                 text, drafts, published>>
-----------------------------------------------------------------------------
(* stop(), on a signal: the timer is cancelled first ...                   *)
Stop ==
  /\ main = "watching"
  /\ main' = "joining"
  /\ thread' = Cancelled /\ timer' = NoTimer
  /\ UNCHANGED <<kind, observing, editorVars, events, pending, path, seen, docVars>>

(* Mutant: the observer is left running.                                   *)
JoinOnly ==
  /\ main = "joining"
  /\ main' = "joined"
  /\ UNCHANGED <<kind, observing, editorVars, events, debounceVars, thread, path, seen, docVars>>

(* ... then the observer is stopped and joined; what it has not dispatched
   by then it never will ...                                               *)
Join ==
  /\ main = "joining"
  /\ main' = "joined" /\ observing' = FALSE /\ events' = <<>>
  /\ UNCHANGED <<kind, editorVars, debounceVars, thread, path, seen, docVars>>

(* ... and the command's finally clause calls stop() once more.            *)
StopAgain ==
  /\ main = "joined"
  /\ main' = "ended"
  /\ thread' = Cancelled /\ timer' = NoTimer
  /\ UNCHANGED <<kind, observing, editorVars, events, pending, path, seen, docVars>>
-----------------------------------------------------------------------------
TimerThread(s) == \/ Expire(s) \/ Fire(s) \/ Reload(s)
                  \/ Document(s) \/ WriteDrafts(s) \/ ReadDrafts(s) \/ Publish(s)
                  \/ RunRaises(s)

WatchNext == \/ WatchStart \/ Stop \/ Join \/ StopAgain
             \/ \E f \in Files : Save(f)
             \/ Schedule
             \/ \E s \in Timers : TimerThread(s)

(* Threads that can run do: the observer, the timers, and the main thread
   in stop().  The editor and the user who stops it owe nothing.           *)
WatchFairness == /\ WF_watchVars(Schedule) /\ WF_watchVars(Join) /\ WF_watchVars(StopAgain)
                 /\ \A s \in Timers : WF_watchVars(TimerThread(s))

WatchSpec == WatchInit /\ [][WatchNext]_watchVars /\ WatchFairness
-----------------------------------------------------------------------------
WatchTypeOK ==
  /\ kind \in Kinds
  /\ main \in {"off", "watching", "joining", "joined", "ended"}
  /\ observing \in BOOLEAN
  /\ saved \in Versions /\ latest \in Files \cup {Docs}
  /\ events \in Seq(Files \cup {Docs}) /\ pending \subseteq Files \cup {Docs}
  /\ timer \in Timers \cup {NoTimer}
  /\ thread \in [Timers -> {"free", "armed", "expired", "reloading", "documenting",
                            "writing", "relocating", "copying"}]
  /\ path \in [Timers -> Files \cup {Docs}] /\ text \in [Timers -> Versions]
  /\ seen \in Versions /\ drafts \in Versions /\ published \in Versions
  /\ raised \in BOOLEAN

(* No event is forgotten by everybody: while the watcher is on, whatever is
   pending has a timer that will take it, although a late timer takes the
   work of a newer one and makes the watcher forget that one
   (_watcher.py:105-122).                                                  *)
PendingHasTimer ==
  main = "watching" /\ pending # {} =>
    \E s \in Timers : thread[s] \in {"armed", "expired"}

(* After the last save, the file that was saved is reloaded or the source is
   documented, by a run that began after it.                               *)
LastSaveIsSeen ==
  \A f \in Files :
    main = "watching" /\ latest = f
      ~> seen[f] = saved[f] \/ latest # f \/ main # "watching"

(* Documents end up showing the last save, whatever slow run overwrites
   them meanwhile, unless a run fails
   (reverse_doc_watcher_flow.py:153-163).                                  *)
DocsCatchUp ==
  kind = "reverse-doc" =>
    \/ <>[](published = saved)
    \/ <>(raised \/ main \in {"joining", "joined", "ended"})
    \/ [](main = "off")

(* No save is lost for good: the last one ends up in what is reloaded and
   in the documents.                                                       *)
SavesAreSeen == LastSaveIsSeen /\ DocsCatchUp

(* Once stop() has returned every timer comes to an end, and none starts.  *)
StopIsFinal == main = "ended" ~> [](\A s \in Timers : thread[s] = "free")

(* The watcher keeps up with the editor, and ends when it is told to.      *)
WatcherKeepsUp == SavesAreSeen /\ StopIsFinal
=============================================================================
