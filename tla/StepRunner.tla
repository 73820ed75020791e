----------------------------- MODULE StepRunner -----------------------------
(***************************************************************************)
(* StepRunner (flows/step_runner.py) as the micro-file delivery            *)
(* (flows/project_delivery_microfile.py) and replay --from-step            *)
(* (flows/replay_flow.py) use it: a registry of named steps is put into    *)
(* topological order and executed step by step, with one JSON record per   *)
(* step on disk.  The steps exchange their results through a dict in       *)
(* memory; replay, a later process, refills it from run_state.json.        *)
(*                                                                         *)
(* A step is its position in the registry, which is also the order of      *)
(* registration.  Abstracted: timings and summaries in the records, and    *)
(* what the steps compute.  A crash inside the save of run_state.json is   *)
(* in RunLifecycle.                                                        *)
(***************************************************************************)
EXTENDS Naturals, FiniteSets, Sequences

CONSTANTS Names,          (* of steps                                      *)
          Keys,           (* of the context dict                           *)
          Kept,           (* those that run_state.json keeps               *)
          Registries,     (* the registries that may be executed           *)
          Options(_),     (* from_step, until_step and force_restart a
                             delivery with that registry may be given      *)
          MaxRuns         (* bounds the runs of a behaviour                *)

(* depends_on, the keys the function reads, those whose absence makes it
   raise, those it sets, and whether it saves the run (final_report).      *)
Step == [name : Names, deps : SUBSET Names, reads : SUBSET Keys,
         needs : SUBSET Keys, writes : SUBSET Keys, saves : BOOLEAN]

(* Positions; 0 stands for None.                                           *)
Option == [from : Nat, until : Nat, force : BOOLEAN]
NoOption == [from |-> 0, until |-> 0, force |-> FALSE]

ASSUME RunsAssumption == MaxRuns \in Nat \ {0} /\ Kept \subseteq Keys

ASSUME RegistriesAssumption ==
  \A r \in Registries :
     /\ r \in Seq(Step)
     /\ \A i, j \in DOMAIN r : r[i].name = r[j].name => i = j
     /\ \A o \in Options(r) : o \in Option /\ o.from <= Len(r) /\ o.until <= Len(r)

VARIABLES reg,        (* the registry, fixed                               *)
          cmd,        (* none, deliver or replay                           *)
          opt,        (* its options                                       *)
          at,         (* idle, ordering, steps (between two), call,
                         returned or raised                                *)
          ordered,    (* topological_order so far                          *)
          idx,        (* index in ordered of the next or current step      *)
          ctx,        (* keys of the context that are not None             *)
          records,    (* status on disk of every step; "none": no file, or
                         one that cannot be parsed                         *)
          saved,      (* keys that run_state.json has values for           *)
          runs        (* runs begun                                        *)

process == <<cmd, opt, at, ordered, idx, ctx>>
vars == <<reg, process, records, saved, runs>>

Statuses == {"none", "running", "completed", "failed", "skipped"}

Init == /\ reg \in Registries
        /\ cmd = "none" /\ opt = NoOption /\ at = "idle"
        /\ ordered = <<>> /\ idx = 1 /\ ctx = {}
        /\ records = [s \in DOMAIN reg |-> "none"]
        /\ saved = {} /\ runs = 0

-----------------------------------------------------------------------------
(* ProjectDeliveryMicroFlow.run: a new run, an empty record, an empty
   context.                                                                *)
Deliver == /\ at = "idle" /\ runs = 0
           /\ \E o \in Options(reg) : opt' = o
           /\ cmd' = "deliver" /\ at' = "ordering" /\ ctx' = {}
           /\ runs' = 1
           /\ UNCHANGED <<reg, ordered, idx, records, saved>>

(* ReplayFlow.replay with from_step: the context is what the record has.   *)
Replay == /\ at = "idle" /\ runs \in 1 .. (MaxRuns - 1)
          /\ \E s \in DOMAIN reg : opt' = [NoOption EXCEPT !.from = s]
          /\ cmd' = "replay" /\ at' = "ordering" /\ ctx' = saved
          /\ runs' = runs + 1
          /\ UNCHANGED <<reg, ordered, idx, records, saved>>

(* The process is over, however it ends.                                   *)
Exit == /\ cmd' = "none" /\ opt' = NoOption /\ at' = "idle"
        /\ ordered' = <<>> /\ idx' = 1 /\ ctx' = {}

-----------------------------------------------------------------------------
(* StepRegistry.topological_order: the queue holds the steps whose in-degree
   has come down to 0, sorted by registration.  A dependency on a name that
   is not registered does not count.                                       *)
Deps(s) == { d \in DOMAIN reg : reg[d].name \in reg[s].deps }
Placed == { ordered[k] : k \in DOMAIN ordered }

(* Mutant: one dependency in order is enough (no test for in-degree 0).     *)
QueueAfterOne ==
  { s \in DOMAIN reg \ Placed : Deps(s) = {} \/ Deps(s) \cap Placed # {} }

Queue == { s \in DOMAIN reg \ Placed : Deps(s) \subseteq Placed }

Order == /\ at = "ordering" /\ Queue # {}
         /\ \E s \in Queue : /\ \A q \in Queue : s <= q
                             /\ ordered' = Append(ordered, s)
         /\ UNCHANGED <<reg, cmd, opt, at, idx, ctx, records, saved, runs>>

(* All steps are in order, or the rest is a cycle and the run raises.      *)
OrderEnds == /\ at = "ordering" /\ Queue = {}
             /\ IF Len(ordered) = Len(reg)
                THEN at' = "steps" /\ UNCHANGED <<cmd, opt, ordered, idx, ctx>>
                ELSE Exit
             /\ UNCHANGED <<reg, records, saved, runs>>

-----------------------------------------------------------------------------
(* StepRunner.run                                                          *)
Current == ordered[idx]
More == at = "steps" /\ idx <= Len(ordered)

(* Before from_step (from_idx) or after until_step (until_idx).            *)
Early == ~opt.force /\ opt.from # 0 /\ \A k \in 1 .. idx : ordered[k] # opt.from
Late == opt.until # 0 /\ \E k \in 1 .. (idx - 1) : ordered[k] = opt.until

SetRecord(status) == records' = [records EXCEPT ![Current] = status]

(* Mutant: the record of a completed step is not looked at.                 *)
SkipAll == /\ More /\ (Early \/ Late)
           /\ SetRecord("skipped")
           /\ idx' = idx + 1
           /\ UNCHANGED <<reg, cmd, opt, at, ordered, ctx, saved, runs>>

(* Mutant: a while loop whose continue does not go to the next step.        *)
SkipInPlace == /\ More /\ (Early \/ Late)
               /\ IF Early /\ records[Current] = "completed"
                  THEN UNCHANGED records ELSE SetRecord("skipped")
               /\ UNCHANGED <<reg, cmd, opt, at, ordered, idx, ctx, saved, runs>>

(* A step out of bounds is marked as skipped, unless it is an earlier step
   whose record says completed.                                            *)
Skip == /\ More /\ (Early \/ Late)
        /\ IF Early /\ records[Current] = "completed"
           THEN UNCHANGED records ELSE SetRecord("skipped")
        /\ idx' = idx + 1
        /\ UNCHANGED <<reg, cmd, opt, at, ordered, ctx, saved, runs>>

Start == /\ More /\ ~Early /\ ~Late
         /\ SetRecord("running")
         /\ at' = "call"
         /\ UNCHANGED <<reg, cmd, opt, ordered, idx, ctx, saved, runs>>

(* step.func returns, with its results in the context ...                  *)
Return == /\ at = "call"
          /\ reg[Current].needs \subseteq ctx
          /\ ctx' = ctx \cup reg[Current].writes
          /\ saved' = IF reg[Current].saves THEN ctx' \cap Kept ELSE saved
          /\ at' = "returned"
          /\ UNCHANGED <<reg, cmd, opt, ordered, idx, records, runs>>

(* ... or raises, for want of an input or for any other reason.            *)
Raise == /\ at = "call"
         /\ at' = "raised"
         /\ UNCHANGED <<reg, cmd, opt, ordered, idx, ctx, records, saved, runs>>

Complete == /\ at = "returned"
            /\ SetRecord("completed")
            /\ idx' = idx + 1 /\ at' = "steps"
            /\ UNCHANGED <<reg, cmd, opt, ordered, ctx, saved, runs>>

(* The record of a step that raised; the exception ends the command.       *)
Fail == /\ at = "raised"
        /\ SetRecord("failed")
        /\ Exit
        /\ UNCHANGED <<reg, saved, runs>>

(* Mutant: the whole context is taken for the record.                       *)
FinishSavesAll == /\ at = "steps" /\ idx > Len(ordered)
                  /\ saved' = IF cmd = "replay" THEN ctx ELSE saved
                  /\ Exit
                  /\ UNCHANGED <<reg, records, runs>>

(* The end of the run; replay saves the record.                            *)
Finish == /\ at = "steps" /\ idx > Len(ordered)
          /\ saved' = IF cmd = "replay" THEN ctx \cap Kept ELSE saved
          /\ Exit
          /\ UNCHANGED <<reg, records, runs>>

(* The process dies, perhaps inside write_text: the record it was writing
   is left truncated, which _load_record takes for no record.              *)
Writes == \/ at \in {"returned", "raised"}
          \/ More /\ ~(Early /\ records[Current] = "completed")

Crash == /\ at # "idle"
         /\ \/ UNCHANGED records
            \/ Writes /\ SetRecord("none")
         /\ Exit
         /\ UNCHANGED <<reg, saved, runs>>

Progress == \/ Order \/ OrderEnds \/ Skip \/ Start \/ Return \/ Raise \/ Complete
            \/ Fail \/ Finish

Next == Deliver \/ Replay \/ Progress \/ Crash

(* A step's function comes back: its CLI calls have timeouts.              *)
Spec == Init /\ [][Next]_vars /\ WF_vars(Progress)

-----------------------------------------------------------------------------
(* The variables have their types.                                         *)
TypeOK == /\ reg \in Registries
          /\ cmd \in {"none", "deliver", "replay"}
          /\ opt \in Option
          /\ at \in {"idle", "ordering", "steps", "call", "returned", "raised"}
          /\ ordered \in Seq(DOMAIN reg)
          /\ idx \in 1 .. (Len(reg) + 1)
          /\ ctx \subseteq Keys
          /\ records \in [DOMAIN reg -> Statuses]
          /\ saved \subseteq Kept
          /\ runs \in 0 .. MaxRuns

(* "Preserve insertion order for stable results": a registry that lists
   every step after its dependencies is executed as it is listed, in every
   run, and never taken for a cycle.                                       *)
Forward == \A s \in DOMAIN reg : \A d \in Deps(s) : d < s

InsertionOrderKept ==
  Forward => /\ \A k \in DOMAIN ordered : ordered[k] = k
             /\ at = "ordering" /\ Queue = {} => Len(ordered) = Len(reg)

(* While a step executes, the records on disk of all steps it depends on say
   that they were completed or deliberately skipped, never that they failed,
   are running or are unknown, whatever earlier runs and crashes left.     *)
DepsSettled ==
  at \in {"call", "returned", "raised"} =>
     \A d \in Deps(Current) : records[d] \in {"completed", "skipped"}

(* A step is called in its place: as listed, and after what it waits for.  *)
StepsInPlace == InsertionOrderKept /\ DepsSettled

(* Resuming preserves what is before the resume point: the record of a
   completed step that comes before from_step is never rewritten.          *)
BeforeFrom(s) == \E k \in DOMAIN ordered :
                    /\ ordered[k] = s
                    /\ \E j \in DOMAIN ordered : k < j /\ ordered[j] = opt.from

CompletedStays ==
  [][\A s \in DOMAIN reg :
       records[s] = "completed" /\ BeforeFrom(s) /\ ~opt.force =>
         records'[s] = "completed"]_vars

(* depends_on covers the data flow: when a delivery that leaves nothing out
   calls a step, everything the step reads has been set by then.           *)
InputsReady ==
  at = "call" /\ cmd = "deliver" /\ (opt.from = 0 \/ opt.force) =>
     reg[Current].reads \subseteq ctx

(* Once a delivery has gone through to the end, replay may start from any
   step and never misses an input it needs; prd_write is the exception (the
   requirements it needs are in no record).                                *)
FinishedIsReplayable ==
  at = "call" /\ cmd = "replay" /\ saved = Kept
  /\ reg[opt.from].name # "prd_write" =>
     reg[Current].needs \subseteq ctx

(* In a delivery and in the replay of a finished one, a step that is called
   finds what it reads.                                                    *)
InputsAtHand == InputsReady /\ FinishedIsReplayable

(* Every run ends.                                                         *)
RunsEnd == []<>(at = "idle")

(* What project_delivery_microfile.py:44-45 says: each phase is individually
   resumable via ReplayFlow --from-step.  A replay that starts after steps
   that were all completed does not miss what they produced.               *)
StepsResumable ==
  at = "call" /\ cmd = "replay" /\ Current = opt.from
  /\ (\A k \in 1 .. (idx - 1) : records[ordered[k]] = "completed") =>
     reg[Current].needs \subseteq ctx
=============================================================================
