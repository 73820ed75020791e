-------------------------- MODULE StepRunnerProofs --------------------------
(***************************************************************************)
(* Theorems about StepRunner, for every registry, every set of options and *)
(* any number of runs.                                                     *)
(*                                                                         *)
(* The inductive invariant says that the steps in order are distinct and   *)
(* each after its dependencies (OrderInv), how far the run is (PhaseInv),  *)
(* and that the records of the steps it has passed are settled, whatever   *)
(* earlier runs left on disk (SettledInv).  What the called steps wrote is *)
(* in the context (DataInv), which is all a step needs in a registry that  *)
(* lists every step after those it depends on and reads from; the registry *)
(* of the project's delivery is one (DeliveryIsSupplied).                  *)
(***************************************************************************)
EXTENDS StepRunner, DeliverySteps, TLAPS

Active == {"call", "returned", "raised"}

Types == /\ reg \in Registries /\ reg \in Seq(Step)
         /\ cmd \in {"none", "deliver", "replay"}
         /\ opt \in Option
         /\ at \in {"idle", "ordering", "steps"} \cup Active
         /\ ordered \in Seq(DOMAIN reg)
         /\ idx \in Nat \ {0}
         /\ ctx \subseteq Keys
         /\ records \in [DOMAIN reg -> Statuses]
         /\ saved \subseteq Kept
         /\ runs \in 0 .. MaxRuns

OrderInv ==
  /\ \A i, j \in DOMAIN ordered : ordered[i] = ordered[j] => i = j
  /\ \A k \in DOMAIN ordered : \A d \in Deps(ordered[k]) :
        \E j \in DOMAIN ordered : j < k /\ ordered[j] = d

PhaseInv ==
  /\ at \in {"idle", "ordering"} => idx = 1
  /\ at \in {"steps"} \cup Active =>
        /\ Len(ordered) = Len(reg)
        /\ idx <= Len(ordered) + 1
  /\ at \in Active => idx <= Len(ordered) /\ ~Early

SettledInv ==
  at \in {"steps"} \cup Active =>
     \A k \in DOMAIN ordered : k < idx => records[ordered[k]] \in {"completed", "skipped"}

StepInv == Types /\ OrderInv /\ PhaseInv /\ SettledInv

(* The position of the current step is one of the registry.                *)
LEMMA CurrentIsAStep ==
  ASSUME Types, idx <= Len(ordered)
  PROVE  /\ idx \in DOMAIN ordered
         /\ Current \in DOMAIN reg
         /\ reg[Current] \in Step
<1>1. idx \in DOMAIN ordered
  BY DEF Types
<1>2. Current \in DOMAIN reg
  BY <1>1 DEF Types, Current
<1> QED
  BY <1>1, <1>2 DEF Types

LEMMA InitInv == Init => StepInv
<1> SUFFICES ASSUME Init PROVE StepInv
  OBVIOUS
<1>1. reg \in Registries /\ reg \in Seq(Step)
  BY RegistriesAssumption DEF Init
<1>2. ordered = <<>> /\ at = "idle" /\ idx = 1
  BY DEF Init
<1>3. Types
  <2>1. opt \in Option
    BY DEF Init, Option, NoOption
  <2>2. records \in [DOMAIN reg -> Statuses]
    BY DEF Init, Statuses
  <2> QED
    BY <1>1, <1>2, <2>1, <2>2, RunsAssumption DEF Init, Types
<1>4. OrderInv
  BY <1>2 DEF OrderInv
<1>5. PhaseInv /\ SettledInv
  BY <1>2 DEF PhaseInv, SettledInv, Active
<1> QED
  BY <1>3, <1>4, <1>5 DEF StepInv
-----------------------------------------------------------------------------
(* A process that is over leaves nothing to settle.                        *)
LEMMA ExitStep ==
  ASSUME StepInv, Exit, UNCHANGED <<reg, runs>>,
         records' \in [DOMAIN reg -> Statuses], saved' \subseteq Kept
  PROVE  StepInv'
<1>1. ordered' = <<>> /\ at' = "idle" /\ idx' = 1 /\ ctx' = {} /\ cmd' = "none"
  BY DEF Exit
<1>2. opt' \in Option
  BY DEF Exit, Option, NoOption
<1>3. Types'
  BY <1>1, <1>2 DEF StepInv, Types
<1>4. OrderInv'
  BY <1>1 DEF OrderInv
<1>5. PhaseInv' /\ SettledInv'
  BY <1>1 DEF PhaseInv, SettledInv, Active
<1> QED
  BY <1>3, <1>4, <1>5 DEF StepInv

(* A status written to the record of the current step.                     *)
LEMMA WrittenRecord ==
  ASSUME StepInv, idx <= Len(ordered), NEW status \in Statuses, SetRecord(status)
  PROVE  /\ records' \in [DOMAIN reg -> Statuses]
         /\ records'[ordered[idx]] = status
         /\ \A k \in DOMAIN ordered : k # idx => records'[ordered[k]] = records[ordered[k]]
<1>1. idx \in DOMAIN ordered /\ Current \in DOMAIN reg
  BY CurrentIsAStep DEF StepInv
<1>2. \A k \in DOMAIN ordered : k # idx => ordered[k] \in DOMAIN reg /\ ordered[k] # Current
  BY <1>1 DEF StepInv, Types, OrderInv, Current
<1>3. records \in [DOMAIN reg -> Statuses] /\ records' = [records EXCEPT ![Current] = status]
  BY DEF StepInv, Types, SetRecord
<1> QED
  BY <1>1, <1>2, <1>3 DEF Current

LEMMA BeginStep ==
  ASSUME StepInv, Deliver \/ Replay
  PROVE  StepInv'
<1>1. at = "idle" /\ at' = "ordering" /\ UNCHANGED <<reg, ordered, idx, records, saved>>
  BY DEF Deliver, Replay
<1>2. opt' \in Option /\ cmd' \in {"none", "deliver", "replay"}
  <2>1. CASE Deliver
    <3>1. reg \in Registries
      BY DEF StepInv, Types
    <3>2. \A o \in Options(reg) : o \in Option
      BY <3>1, RegistriesAssumption
    <3> QED
      BY <2>1, <3>2 DEF Deliver
  <2>2. CASE Replay
    <3>1. PICK s \in DOMAIN reg : opt' = [NoOption EXCEPT !.from = s]
      BY <2>2 DEF Replay
    <3>2. s \in Nat
      BY DEF StepInv, Types
    <3> QED
      BY <2>2, <3>1, <3>2 DEF Replay, Option, NoOption
  <2> QED
    BY <2>1, <2>2
<1>3. ctx' \subseteq Keys /\ runs' \in 0 .. MaxRuns
  BY RunsAssumption DEF Deliver, Replay, StepInv, Types
<1>4. Types'
  BY <1>1, <1>2, <1>3 DEF StepInv, Types
<1>5. OrderInv'
  BY <1>1 DEF StepInv, OrderInv, Deps
<1>6. PhaseInv' /\ SettledInv'
  BY <1>1 DEF StepInv, PhaseInv, SettledInv, Active
<1> QED
  BY <1>4, <1>5, <1>6 DEF StepInv

(* The next step in order is new, and all it depends on is in order.       *)
LEMMA OrderStep ==
  ASSUME StepInv, Order
  PROVE  StepInv'
<1>1. PICK s \in Queue : ordered' = Append(ordered, s)
  BY DEF Order
<1>2. at = "ordering" /\ UNCHANGED <<reg, cmd, opt, at, idx, ctx, records, saved, runs>>
  BY DEF Order
<1>3. s \in DOMAIN reg /\ s \notin Placed /\ Deps(s) \subseteq Placed
  BY DEF Queue
<1>4. ordered \in Seq(DOMAIN reg)
  BY DEF StepInv, Types
<1>5. ordered' \in Seq(DOMAIN reg)
  BY <1>1, <1>3, <1>4
<1>6. /\ DOMAIN ordered' = 1 .. (Len(ordered) + 1) /\ DOMAIN ordered = 1 .. Len(ordered)
      /\ \A k \in DOMAIN ordered : ordered'[k] = ordered[k]
      /\ ordered'[Len(ordered) + 1] = s
      /\ Len(ordered) \in Nat
  BY <1>1, <1>4
<1>7. Types'
  BY <1>2, <1>5 DEF StepInv, Types
<1>8. \A i \in DOMAIN ordered : ordered[i] # s
  BY <1>3 DEF Placed
<1>9. OrderInv'
  <2>1. \A i, j \in DOMAIN ordered' : ordered'[i] = ordered'[j] => i = j
    BY <1>6, <1>8 DEF StepInv, OrderInv
  <2>2. ASSUME NEW k \in DOMAIN ordered', NEW d \in Deps(ordered'[k])
        PROVE  \E j \in DOMAIN ordered' : j < k /\ ordered'[j] = d
    <3>1. CASE k \in DOMAIN ordered
      <4>1. d \in Deps(ordered[k])
        BY <3>1, <1>6, <2>2
      <4>2. PICK j \in DOMAIN ordered : j < k /\ ordered[j] = d
        BY <3>1, <4>1 DEF StepInv, OrderInv
      <4> QED
        BY <4>2, <1>6
    <3>2. CASE k = Len(ordered) + 1
      <4>1. d \in Placed
        BY <3>2, <1>6, <1>3, <2>2
      <4>2. PICK j \in DOMAIN ordered : ordered[j] = d
        BY <4>1 DEF Placed
      <4> QED
        BY <4>2, <3>2, <1>6
    <3> QED
      BY <3>1, <3>2, <1>6
  <2>3. \A x : Deps(x)' = Deps(x)
    BY <1>2 DEF Deps
  <2> QED
    BY <2>1, <2>2, <2>3, <1>2 DEF OrderInv, Deps
<1>10. PhaseInv' /\ SettledInv'
  BY <1>2 DEF StepInv, PhaseInv, SettledInv, Active
<1> QED
  BY <1>7, <1>9, <1>10 DEF StepInv

LEMMA OrderEndsStep ==
  ASSUME StepInv, OrderEnds
  PROVE  StepInv'
<1>1. CASE Len(ordered) = Len(reg)
  <2>1. /\ at = "ordering" /\ at' = "steps"
        /\ UNCHANGED <<reg, cmd, opt, ordered, idx, ctx, records, saved, runs>>
    BY <1>1 DEF OrderEnds
  <2>2. Types'
    BY <2>1 DEF StepInv, Types
  <2>3. OrderInv'
    BY <2>1 DEF StepInv, OrderInv, Deps
  <2>4. idx = 1 /\ Len(ordered) \in Nat
    BY <2>1 DEF StepInv, PhaseInv, Types
  <2>5. PhaseInv'
    BY <1>1, <2>1, <2>4 DEF PhaseInv, Active
  <2>6. SettledInv'
    BY <2>1, <2>4 DEF SettledInv, StepInv, Types
  <2> QED
    BY <2>2, <2>3, <2>5, <2>6 DEF StepInv
<1>2. CASE Len(ordered) # Len(reg)
  <2>1. Exit /\ UNCHANGED <<reg, records, saved, runs>>
    BY <1>2 DEF OrderEnds
  <2> QED
    BY <2>1, ExitStep DEF StepInv, Types
<1> QED
  BY <1>1, <1>2
-----------------------------------------------------------------------------
LEMMA SkipStep ==
  ASSUME StepInv, Skip
  PROVE  StepInv'
<1>1. /\ at = "steps" /\ idx <= Len(ordered) /\ idx' = idx + 1
      /\ UNCHANGED <<reg, cmd, opt, at, ordered, ctx, saved, runs>>
  BY DEF Skip, More
<1>2. /\ records' \in [DOMAIN reg -> Statuses]
      /\ records'[ordered[idx]] \in {"completed", "skipped"}
      /\ \A k \in DOMAIN ordered : k # idx => records'[ordered[k]] = records[ordered[k]]
  <2>1. CASE Early /\ records[Current] = "completed"
    BY <2>1 DEF Skip, Current, StepInv, Types
  <2>2. CASE ~(Early /\ records[Current] = "completed")
    <3>1. SetRecord("skipped") /\ "skipped" \in Statuses
      BY <2>2 DEF Skip, Statuses
    <3> QED
      BY <3>1, <1>1, WrittenRecord
  <2> QED
    BY <2>1, <2>2
<1>3. Types'
  BY <1>1, <1>2 DEF StepInv, Types
<1>4. OrderInv'
  BY <1>1 DEF StepInv, OrderInv, Deps
<1>5. Len(ordered) \in Nat /\ idx \in Nat /\ DOMAIN ordered \subseteq Nat
  BY DEF StepInv, Types
<1>6. PhaseInv'
  BY <1>1, <1>5 DEF StepInv, PhaseInv, Active
<1>7. SettledInv'
  <2> SUFFICES ASSUME NEW k \in DOMAIN ordered, k < idx + 1
               PROVE  records'[ordered[k]] \in {"completed", "skipped"}
    BY <1>1 DEF SettledInv
  <2>1. CASE k = idx
    BY <2>1, <1>2
  <2>2. CASE k < idx
    BY <2>2, <1>1, <1>2, <1>5 DEF StepInv, SettledInv
  <2> QED
    BY <2>1, <2>2, <1>5
<1> QED
  BY <1>3, <1>4, <1>6, <1>7 DEF StepInv

(* A step under way touches no record but its own.                         *)
LEMMA StartStep ==
  ASSUME StepInv, Start
  PROVE  StepInv'
<1>1. /\ at = "steps" /\ at' = "call" /\ idx <= Len(ordered) /\ ~Early
      /\ UNCHANGED <<reg, cmd, opt, ordered, idx, ctx, saved, runs>>
  BY DEF Start, More
<1>2. /\ records' \in [DOMAIN reg -> Statuses]
      /\ \A k \in DOMAIN ordered : k # idx => records'[ordered[k]] = records[ordered[k]]
  <2>1. SetRecord("running") /\ "running" \in Statuses
    BY DEF Start, Statuses
  <2> QED
    BY <2>1, <1>1, WrittenRecord
<1>3. Types'
  BY <1>1, <1>2 DEF StepInv, Types, Active
<1>4. OrderInv'
  BY <1>1 DEF StepInv, OrderInv, Deps
<1>5. ~Early'
  BY <1>1 DEF Early
<1>6. PhaseInv'
  BY <1>1, <1>5 DEF StepInv, PhaseInv, Active
<1>7. SettledInv'
  BY <1>1, <1>2, SMTT(30) DEF StepInv, SettledInv, Types
<1> QED
  BY <1>3, <1>4, <1>6, <1>7 DEF StepInv

LEMMA CallStep ==
  ASSUME StepInv, Return \/ Raise
  PROVE  StepInv'
<1>1. /\ at = "call" /\ at' \in {"returned", "raised"}
      /\ UNCHANGED <<reg, cmd, opt, ordered, idx, records, runs>>
  BY DEF Return, Raise
<1>2. idx <= Len(ordered) /\ ~Early
  BY <1>1 DEF StepInv, PhaseInv, Active
<1>3. ctx' \subseteq Keys /\ saved' \subseteq Kept
  <2>1. reg[Current].writes \subseteq Keys
    BY <1>2, CurrentIsAStep DEF StepInv, Step
  <2>2. CASE Return
    <3>1. ctx' = ctx \cup reg[Current].writes /\ saved' \in {ctx' \cap Kept, saved}
      BY <2>2 DEF Return
    <3> QED
      BY <3>1, <2>1 DEF StepInv, Types
  <2>3. CASE Raise
    BY <2>3 DEF Raise, StepInv, Types
  <2> QED
    BY <2>2, <2>3
<1>4. Types'
  BY <1>1, <1>3 DEF StepInv, Types, Active
<1>5. OrderInv'
  BY <1>1 DEF StepInv, OrderInv, Deps
<1>6. ~Early'
  BY <1>1, <1>2 DEF Early
<1>7. PhaseInv'
  BY <1>1, <1>2, <1>6 DEF StepInv, PhaseInv, Active
<1>8. SettledInv'
  BY <1>1 DEF StepInv, SettledInv, Active
<1> QED
  BY <1>4, <1>5, <1>7, <1>8 DEF StepInv

LEMMA CompleteStep ==
  ASSUME StepInv, Complete
  PROVE  StepInv'
<1>1. /\ at = "returned" /\ at' = "steps" /\ idx' = idx + 1
      /\ UNCHANGED <<reg, cmd, opt, ordered, ctx, saved, runs>>
  BY DEF Complete
<1>2. idx <= Len(ordered)
  BY <1>1 DEF StepInv, PhaseInv, Active
<1>3. /\ records' \in [DOMAIN reg -> Statuses]
      /\ records'[ordered[idx]] = "completed"
      /\ \A k \in DOMAIN ordered : k # idx => records'[ordered[k]] = records[ordered[k]]
  <2>1. SetRecord("completed") /\ "completed" \in Statuses
    BY DEF Complete, Statuses
  <2> QED
    BY <2>1, <1>2, WrittenRecord
<1>4. Types'
  BY <1>1, <1>3 DEF StepInv, Types
<1>5. OrderInv'
  BY <1>1 DEF StepInv, OrderInv, Deps
<1>6. Len(ordered) \in Nat /\ idx \in Nat /\ DOMAIN ordered \subseteq Nat
  BY DEF StepInv, Types
<1>7. PhaseInv'
  BY <1>1, <1>2, <1>6 DEF StepInv, PhaseInv, Active
<1>8. SettledInv'
  <2> SUFFICES ASSUME NEW k \in DOMAIN ordered, k < idx + 1
               PROVE  records'[ordered[k]] \in {"completed", "skipped"}
    BY <1>1 DEF SettledInv
  <2>1. CASE k = idx
    BY <2>1, <1>3
  <2>2. CASE k < idx
    BY <2>2, <1>1, <1>3, <1>6 DEF StepInv, SettledInv, Active
  <2> QED
    BY <2>1, <2>2, <1>6
<1> QED
  BY <1>4, <1>5, <1>7, <1>8 DEF StepInv

(* Every way in which a process is over.                                   *)
LEMMA EndStep ==
  ASSUME StepInv, Fail \/ Finish \/ Crash
  PROVE  StepInv'
<1>1. Exit /\ UNCHANGED <<reg, runs>>
  BY DEF Fail, Finish, Crash
<1>2. saved' \subseteq Kept
  BY DEF Fail, Finish, Crash, StepInv, Types
<1>3. records' \in [DOMAIN reg -> Statuses]
  <2>1. CASE UNCHANGED records
    BY <2>1 DEF StepInv, Types
  <2>2. CASE Fail \/ (Crash /\ Writes)
    <3>1. idx <= Len(ordered)
      BY <2>2 DEF Fail, Writes, More, StepInv, PhaseInv, Active
    <3>2. CASE SetRecord("failed")
      BY <3>1, <3>2, WrittenRecord DEF Statuses
    <3>3. CASE SetRecord("none")
      BY <3>1, <3>3, WrittenRecord DEF Statuses
    <3>4. UNCHANGED records \/ SetRecord("failed") \/ SetRecord("none")
      BY <2>2 DEF Fail, Crash
    <3> QED
      BY <2>1, <3>2, <3>3, <3>4
  <2>3. UNCHANGED records \/ Fail \/ (Crash /\ Writes)
    BY DEF Finish, Crash
  <2> QED
    BY <2>1, <2>2, <2>3
<1> QED
  BY <1>1, <1>2, <1>3, ExitStep

LEMMA NextInv == StepInv /\ [Next]_vars => StepInv'
<1> SUFFICES ASSUME StepInv, [Next]_vars PROVE StepInv'
  OBVIOUS
<1>1. CASE Deliver \/ Replay
  BY <1>1, BeginStep
<1>2. CASE Order
  BY <1>2, OrderStep
<1>3. CASE OrderEnds
  BY <1>3, OrderEndsStep
<1>4. CASE Skip
  BY <1>4, SkipStep
<1>5. CASE Start
  BY <1>5, StartStep
<1>6. CASE Return \/ Raise
  BY <1>6, CallStep
<1>7. CASE Complete
  BY <1>7, CompleteStep
<1>8. CASE Fail \/ Finish \/ Crash
  BY <1>8, EndStep
<1>9. CASE UNCHANGED vars
  BY <1>9 DEF vars, process, StepInv, Types, OrderInv, PhaseInv, SettledInv, Deps, Early
<1> QED
  BY <1>1, <1>2, <1>3, <1>4, <1>5, <1>6, <1>7, <1>8, <1>9 DEF Next, Progress

THEOREM StepInvariance == Spec => []StepInv
BY InitInv, NextInv, PTL DEF Spec
-----------------------------------------------------------------------------
(* The variables of StepRunner keep their types.                           *)
THEOREM StepTypes == Spec => []TypeOK
<1>1. StepInv => TypeOK
  <2> SUFFICES ASSUME StepInv PROVE TypeOK
    OBVIOUS
  <2>1. idx \in 1 .. (Len(reg) + 1)
    BY DEF StepInv, Types, PhaseInv, Active
  <2> QED
    BY <2>1 DEF StepInv, Types, TypeOK, Active
<1> QED
  BY <1>1, StepInvariance, PTL

(* StepRunner.run calls a step only when the records of all it depends on say
   completed or skipped (DepsSettled), for every registry.                 *)
THEOREM StepsAfterDependencies == Spec => []DepsSettled
<1>1. StepInv => DepsSettled
  <2> SUFFICES ASSUME StepInv, at \in Active, NEW d \in Deps(Current)
               PROVE  records[d] \in {"completed", "skipped"}
    BY DEF DepsSettled, Active
  <2>1. idx \in DOMAIN ordered
    BY CurrentIsAStep DEF StepInv, PhaseInv
  <2>2. PICK j \in DOMAIN ordered : j < idx /\ ordered[j] = d
    BY <2>1 DEF StepInv, OrderInv, Current
  <2> QED
    BY <2>2 DEF StepInv, SettledInv
<1> QED
  BY <1>1, StepInvariance, PTL

(* Resuming never rewrites the record of a completed step before the resume
   point (CompletedStays).                                                 *)
THEOREM ResumeKeepsCompleted == Spec => CompletedStays
<1> DEFINE Stays == \A s \in DOMAIN reg :
       records[s] = "completed" /\ BeforeFrom(s) /\ ~opt.force => records'[s] = "completed"
<1>1. StepInv /\ [Next]_vars => [Stays]_vars
  <2> SUFFICES ASSUME StepInv, [Next]_vars, NEW s \in DOMAIN reg,
                      records[s] = "completed", BeforeFrom(s), ~opt.force
               PROVE  records'[s] = "completed"
    OBVIOUS
  <2>1. ASSUME NEW status, SetRecord(status), idx <= Len(ordered), ~Early
        PROVE  records'[s] = "completed"
    <3>1. PICK k \in DOMAIN ordered : /\ ordered[k] = s
                                      /\ \E j \in DOMAIN ordered : k < j /\ ordered[j] = opt.from
      BY DEF BeforeFrom
    <3>2. PICK j \in DOMAIN ordered : k < j /\ ordered[j] = opt.from
      BY <3>1
    <3>3. /\ idx \in DOMAIN ordered /\ DOMAIN ordered = 1 .. Len(ordered)
          /\ DOMAIN ordered \subseteq Nat /\ Len(ordered) \in Nat /\ idx \in Nat
      <4>1. idx \in DOMAIN ordered
        BY <2>1, CurrentIsAStep DEF StepInv
      <4>2. ordered \in Seq(DOMAIN reg) /\ idx \in Nat
        BY DEF StepInv, Types
      <4>3. DOMAIN ordered = 1 .. Len(ordered) /\ Len(ordered) \in Nat
        BY <4>2
      <4> QED
        BY <4>1, <4>2, <4>3
    <3>4. opt.from # 0
      BY <3>2 DEF StepInv, Types
    <3>5. PICK i \in 1 .. idx : ordered[i] = opt.from
      BY <2>1, <3>4 DEF Early
    <3>6. i = j
      BY <3>2, <3>3, <3>5 DEF StepInv, OrderInv
    <3>7. k # idx
      BY <3>2, <3>3, <3>5, <3>6
    <3>8. Current # s
      BY <3>1, <3>3, <3>7 DEF Current, StepInv, OrderInv
    <3> QED
      BY <2>1, <3>8 DEF SetRecord, StepInv, Types
  <2>2. CASE UNCHANGED records
    BY <2>2
  <2>3. CASE Skip
    <3>1. CASE Early /\ records[Current] = "completed"
      BY <3>1, <2>3, <2>2 DEF Skip
    <3>2. CASE Early /\ records[Current] # "completed"
      BY <3>2, <2>3 DEF Skip, SetRecord, StepInv, Types
    <3>3. CASE ~Early
      BY <3>3, <2>3, <2>1 DEF Skip, More
    <3> QED
      BY <3>1, <3>2, <3>3
  <2>4. CASE Start
    BY <2>4, <2>1 DEF Start, More
  <2>5. CASE Complete \/ Fail
    <3>1. idx <= Len(ordered) /\ ~Early
      BY <2>5 DEF Complete, Fail, StepInv, PhaseInv, Active
    <3> QED
      BY <3>1, <2>5, <2>1 DEF Complete, Fail
  <2>6. CASE Crash /\ Writes /\ SetRecord("none")
    <3>1. CASE at \in {"returned", "raised"}
      <4>1. idx <= Len(ordered) /\ ~Early
        BY <3>1 DEF StepInv, PhaseInv, Active
      <4> QED
        BY <4>1, <2>6, <2>1
    <3>2. CASE More /\ Early /\ records[Current] # "completed"
      BY <3>2, <2>6 DEF SetRecord, StepInv, Types
    <3>3. CASE More /\ ~Early
      BY <3>3, <2>6, <2>1 DEF More
    <3> QED
      BY <3>1, <3>2, <3>3, <2>6 DEF Writes
  <2>7. \/ UNCHANGED records
        \/ Skip \/ Start \/ Complete \/ Fail
        \/ Crash /\ Writes /\ SetRecord("none")
    BY DEF Next, Progress, Deliver, Replay, Order, OrderEnds, Return, Raise, Finish, Crash,
           vars
  <2> QED
    BY <2>2, <2>3, <2>4, <2>5, <2>6, <2>7
<1> QED
  BY <1>1, StepInvariance, PTL DEF Spec, CompletedStays
-----------------------------------------------------------------------------
InPlace == Forward => \A k \in DOMAIN ordered : ordered[k] = k

(* In a registry that lists every step after its dependencies, the step after
   those in order is the first in the queue.                               *)
LEMMA NextInPlace ==
  ASSUME Types, InPlace, Forward
  PROVE  /\ Len(ordered) <= Len(reg)
         /\ Queue \subseteq {q \in Nat : Len(ordered) < q /\ q <= Len(reg)}
         /\ Len(ordered) < Len(reg) => Len(ordered) + 1 \in Queue
<1> DEFINE n == Len(ordered)
<1>1. n \in Nat /\ Len(reg) \in Nat /\ DOMAIN ordered = 1 .. n /\ DOMAIN reg = 1 .. Len(reg)
  BY DEF Types
<1>2. Placed = 1 .. n
  BY <1>1 DEF Placed, InPlace
<1>3. n <= Len(reg)
  <2>1. CASE n = 0
    BY <2>1, <1>1
  <2>2. CASE n # 0
    <3>1. n \in DOMAIN ordered /\ ordered[n] = n
      BY <2>2, <1>1 DEF InPlace
    <3> QED
      BY <3>1, <1>1 DEF Types
  <2> QED
    BY <2>1, <2>2
<1>4. Queue \subseteq {q \in Nat : n < q /\ q <= Len(reg)}
  BY <1>1, <1>2 DEF Queue
<1>5. ASSUME n < Len(reg)
      PROVE  n + 1 \in Queue
  <2>1. n + 1 \in DOMAIN reg \ Placed
    BY <1>1, <1>2, <1>5
  <2>2. \A d \in Deps(n + 1) : d \in 1 .. n
    BY <2>1, <1>1 DEF Forward, Deps
  <2> QED
    BY <2>1, <2>2, <1>2 DEF Queue
<1> QED
  BY <1>3, <1>4, <1>5

(* topological_order preserves insertion order (InsertionOrderKept), for every
   registry that lists every step after its dependencies.                  *)
THEOREM ListedOrder == Spec => []InsertionOrderKept
<1>1. Init => InPlace
  BY DEF Init, InPlace
<1>2. StepInv /\ InPlace /\ [Next]_vars => InPlace'
  <2> SUFFICES ASSUME StepInv, InPlace, [Next]_vars, Forward'
               PROVE  (\A k \in DOMAIN ordered : ordered[k] = k)'
    BY DEF InPlace
  <2>1. reg' = reg
    BY DEF Next, Progress, Deliver, Replay, Order, OrderEnds, Skip, Start, Return, Raise,
           Complete, Fail, Finish, Crash, vars
  <2>2. Forward
    BY <2>1 DEF Forward, Deps
  <2>3. CASE Order
    <3>1. PICK s \in Queue : (\A q \in Queue : s <= q) /\ ordered' = Append(ordered, s)
      BY <2>3 DEF Order
    <3>2. Len(ordered) \in Nat /\ Len(reg) \in Nat /\ ordered \in Seq(DOMAIN reg)
      BY DEF StepInv, Types
    <3>3. s = Len(ordered) + 1
      BY <3>1, <3>2, <2>2, NextInPlace DEF StepInv
    <3>4. s \in DOMAIN reg
      BY DEF Queue
    <3> QED
      BY <3>1, <3>2, <3>3, <3>4, <2>2 DEF InPlace
  <2>4. CASE ordered' = ordered \/ ordered' = <<>>
    BY <2>4, <2>2 DEF InPlace
  <2> QED
    BY <2>3, <2>4 DEF Next, Progress, Deliver, Replay, OrderEnds, Skip, Start, Return, Raise,
           Complete, Fail, Finish, Crash, Exit, vars, process
<1>3. StepInv /\ InPlace => InsertionOrderKept
  <2> SUFFICES ASSUME StepInv, InPlace, Forward, Queue = {}
               PROVE  Len(ordered) = Len(reg)
    BY DEF InsertionOrderKept, InPlace
  <2>1. Len(ordered) \in Nat /\ Len(reg) \in Nat
    BY DEF StepInv, Types
  <2> QED
    BY <2>1, NextInPlace DEF StepInv
<1> QED
  BY <1>1, <1>2, <1>3, StepInvariance, PTL DEF Spec

(* Every step is called in its place (StepsInPlace).                       *)
THEOREM StepsKeepTheirPlace == Spec => []StepsInPlace
  BY StepsAfterDependencies, ListedOrder, PTL DEF StepsInPlace

-----------------------------------------------------------------------------
(* The k-th step in order is one that this run calls.                      *)
Called(k) == /\ opt.force \/ opt.from = 0 \/ \E j \in 1 .. k : ordered[j] = opt.from
             /\ opt.until = 0 \/ \A j \in 1 .. (k - 1) : ordered[j] # opt.until

(* What the steps that were called have written is in the context, and so is
   all that the record had when a replay began.                            *)
DataInv ==
  /\ at \in {"steps"} \cup Active =>
        \A k \in DOMAIN ordered : k < idx /\ Called(k) => reg[ordered[k]].writes \subseteq ctx
  /\ at = "returned" => reg[Current].writes \subseteq ctx
  /\ at \in Active => ~Late
  /\ cmd = "replay" => saved \subseteq ctx /\ opt.from # 0 /\ opt.until = 0 /\ ~opt.force

(* The keys that the steps listed from f on, before s, set.                *)
WrittenIn(r, f, s) == UNION { r[k].writes : k \in f .. (s - 1) }

(* A registry lists its steps after their dependencies, a step reads what the
   steps listed before it set, and needs what the record keeps or what is set
   from the resume point on.                                               *)
Supplied(r) ==
  /\ \A s, d \in DOMAIN r : r[d].name \in r[s].deps => d < s
  /\ \A s \in DOMAIN r : r[s].reads \subseteq WrittenIn(r, 1, s)
  /\ \A f, s \in DOMAIN r :
        f <= s /\ r[f].name # "prd_write" => r[s].needs \subseteq Kept \cup WrittenIn(r, f, s)

LEMMA DataStep ==
  ASSUME StepInv, DataInv, [Next]_vars
  PROVE  DataInv'
<1>1. CASE Exit
  BY <1>1 DEF Exit, DataInv, Active
<1>2. CASE Deliver
  BY <1>2 DEF Deliver, DataInv, Active
<1>3. CASE Replay
  <2>1. PICK s \in DOMAIN reg : opt' = [NoOption EXCEPT !.from = s]
    BY <1>3 DEF Replay
  <2>2. s # 0
    BY DEF StepInv, Types
  <2> QED
    BY <1>3, <2>1, <2>2 DEF Replay, NoOption, DataInv, Active
<1>4. CASE Order
  BY <1>4 DEF Order, DataInv, Active
<1>5. CASE OrderEnds /\ ~Exit
  <2>1. /\ at' = "steps" /\ idx = 1
        /\ UNCHANGED <<reg, cmd, opt, ordered, idx, ctx, saved>>
    BY <1>5 DEF OrderEnds, StepInv, PhaseInv
  <2> QED
    BY <2>1 DEF DataInv, Active, StepInv, Types
<1>6. CASE Skip \/ Complete
  <2>1. /\ at' = "steps" /\ idx' = idx + 1
        /\ UNCHANGED <<reg, cmd, opt, ordered, ctx, saved>>
        /\ at \in {"steps"} \cup Active
    BY <1>6 DEF Skip, Complete, More, Active
  <2>2. idx \in Nat /\ DOMAIN ordered \subseteq Nat /\ idx # 0
    BY DEF StepInv, Types
  <2>3. Called(idx) => reg[ordered[idx]].writes \subseteq ctx
    <3>1. CASE Skip
      BY <3>1, <2>2 DEF Skip, Called, Early, Late
    <3>2. CASE Complete
      BY <3>2 DEF Complete, DataInv, Current
    <3> QED
      BY <1>6, <3>1, <3>2
  <2>4. ASSUME NEW k \in DOMAIN ordered, k < idx + 1, Called(k)
        PROVE  reg[ordered[k]].writes \subseteq ctx
    BY <2>1, <2>2, <2>3, <2>4 DEF DataInv
  <2> QED
    BY <2>1, <2>4 DEF DataInv, Called, Active
<1>7. CASE Start
  BY <1>7 DEF Start, More, DataInv, Called, Late, Active
<1>8. CASE Return
  <2>1. /\ at = "call" /\ at' = "returned" /\ ctx' = ctx \cup reg[Current].writes
        /\ UNCHANGED <<reg, cmd, opt, ordered, idx>>
        /\ saved' \in {ctx' \cap Kept, saved}
    BY <1>8 DEF Return
  <2> QED
    BY <2>1 DEF DataInv, Called, Late, Current, Active
<1>9. CASE Raise
  BY <1>9 DEF Raise, DataInv, Called, Late, Active
<1>10. CASE UNCHANGED vars
  BY <1>10 DEF vars, process, DataInv, Called, Late, Current
<1> QED
  BY <1>1, <1>2, <1>3, <1>4, <1>5, <1>6, <1>7, <1>8, <1>9, <1>10
  DEF Next, Progress, Fail, Finish, Crash

LEMMA DataInvariance == Spec => []DataInv
<1>1. Init => DataInv
  BY DEF Init, DataInv, Active
<1> QED
  BY <1>1, StepInvariance, DataStep, PTL DEF Spec

(* A step that is called finds what it reads (InputsAtHand), in a delivery and
   in the replay of a finished one, when the registry is Supplied.         *)
THEOREM SuppliedStepsHaveInputs ==
  ASSUME \A r \in Registries : Supplied(r)
  PROVE  Spec => []InputsAtHand
<1>1. StepInv /\ DataInv /\ InsertionOrderKept => InputsAtHand
  <2> SUFFICES ASSUME StepInv, DataInv, InsertionOrderKept, at = "call"
               PROVE  InputsAtHand
    BY DEF InputsAtHand, InputsReady, FinishedIsReplayable
  <2>1. Supplied(reg)
    BY DEF StepInv, Types
  <2>2. Forward
    BY <2>1 DEF Supplied, Forward, Deps
  <2>3. \A k \in DOMAIN ordered : ordered[k] = k
    BY <2>2 DEF InsertionOrderKept
  <2>4. /\ idx \in DOMAIN ordered /\ Current = idx /\ idx \in DOMAIN reg
        /\ DOMAIN ordered = 1 .. Len(ordered) /\ idx \in Nat /\ Len(ordered) \in Nat
    BY <2>3, CurrentIsAStep DEF StepInv, PhaseInv, Types, Active, Current
  <2>5. ~Early /\ ~Late
    BY DEF StepInv, PhaseInv, DataInv, Active
  <2>6. \A k \in 1 .. (idx - 1) : Called(k) => reg[k].writes \subseteq ctx
    BY <2>3, <2>4 DEF DataInv, Active
  <2>7. InputsReady
    <3> SUFFICES ASSUME opt.from = 0 \/ opt.force, NEW x \in reg[idx].reads
                 PROVE  x \in ctx
      BY <2>4 DEF InputsReady
    <3>1. PICK k \in 1 .. (idx - 1) : x \in reg[k].writes
      BY <2>1, <2>4 DEF Supplied, WrittenIn
    <3>2. Called(k)
      BY <2>4, <2>5 DEF Called, Late
    <3> QED
      BY <3>1, <3>2, <2>6
  <2>8. FinishedIsReplayable
    <3> SUFFICES ASSUME cmd = "replay", saved = Kept, reg[opt.from].name # "prd_write",
                        NEW x \in reg[idx].needs
                 PROVE  x \in ctx
      BY <2>4 DEF FinishedIsReplayable
    <3>1. opt.from # 0 /\ opt.until = 0 /\ ~opt.force /\ Kept \subseteq ctx
      BY DEF DataInv
    <3>2. PICK j \in 1 .. idx : ordered[j] = opt.from
      BY <3>1, <2>5 DEF Early
    <3>3. opt.from = j /\ j \in DOMAIN reg
      BY <3>2, <2>3, <2>4 DEF StepInv, Types
    <3>4. x \in Kept \/ x \in WrittenIn(reg, opt.from, idx)
      BY <2>1, <2>4, <3>3 DEF Supplied
    <3>5. CASE x \in WrittenIn(reg, opt.from, idx)
      <4>1. PICK k \in opt.from .. (idx - 1) : x \in reg[k].writes
        BY <3>5 DEF WrittenIn
      <4>2. k \in 1 .. (idx - 1) /\ j \in 1 .. k
        BY <2>4, <3>2, <3>3
      <4>3. Called(k)
        BY <3>1, <3>2, <4>2 DEF Called
      <4> QED
        BY <4>1, <4>2, <4>3, <2>6
    <3> QED
      BY <3>1, <3>4, <3>5
  <2> QED
    BY <2>7, <2>8 DEF InputsAtHand
<1> QED
  BY <1>1, StepInvariance, DataInvariance, ListedOrder, PTL
-----------------------------------------------------------------------------
(* Tuples of steps are sequences.                                          *)
LEMMA FourSteps ==
  ASSUME NEW a, NEW b, NEW c, NEW d
  PROVE  <<a, b, c, d>> \in Seq({a, b, c, d}) /\ Len(<<a, b, c, d>>) = 4
  OBVIOUS

LEMMA SixSteps ==
  ASSUME NEW a, NEW b, NEW c, NEW d, NEW e, NEW f
  PROVE  /\ <<a, b, c, d, e, f>> \in Seq({a, b, c, d, e, f})
         /\ Len(<<a, b, c, d, e, f>>) = 6
  OBVIOUS

(* (Lengths are equated only afterwards: numerals hide a concatenation from
   the provers.)                                                           *)
LEMMA Concatenated ==
  ASSUME NEW S, NEW s \in Seq(S), NEW t \in Seq(S), NEW r, r = s \o t
  PROVE  /\ r \in Seq(S) /\ Len(r) = Len(s) + Len(t)
         /\ \A i \in 1 .. Len(s) : r[i] = s[i]
         /\ \A i \in 1 .. Len(t) : r[Len(s) + i] = t[i]
  OBVIOUS

(* _STEP_DEFS, step by step.                                               *)
LEMMA TheSteps ==
  /\ DOMAIN ProjectDelivery = 1 .. 20
  /\ \A i \in 1 .. 6 : ProjectDelivery[i] = ProductSteps[i]
  /\ \A i \in 1 .. 4 : ProjectDelivery[6 + i] = PlanningSteps[i]
  /\ \A i \in 1 .. 6 : ProjectDelivery[10 + i] = ReviewSteps[i]
  /\ \A i \in 1 .. 4 : ProjectDelivery[16 + i] = ReleaseSteps[i]
<1>1. /\ Len(ProductSteps) = 6 /\ Len(PlanningSteps) = 4
      /\ Len(ReviewSteps) = 6 /\ Len(ReleaseSteps) = 4
  BY DEF ProductSteps, PlanningSteps, ReviewSteps, ReleaseSteps
<1>2. PICK S : /\ ProductSteps \in Seq(S) /\ PlanningSteps \in Seq(S)
               /\ ReviewSteps \in Seq(S) /\ ReleaseSteps \in Seq(S)
  <2>1. PICK A : ProductSteps \in Seq(A)
    BY SixSteps, Zenon DEF ProductSteps
  <2>2. PICK B : PlanningSteps \in Seq(B)
    BY FourSteps, Zenon DEF PlanningSteps
  <2>3. PICK C : ReviewSteps \in Seq(C)
    BY SixSteps, Zenon DEF ReviewSteps
  <2>4. PICK D : ReleaseSteps \in Seq(D)
    BY FourSteps, Zenon DEF ReleaseSteps
  <2> DEFINE S == A \cup B \cup C \cup D
  <2>5. Seq(A) \subseteq Seq(S) /\ Seq(B) \subseteq Seq(S)
    OBVIOUS
  <2>6. Seq(C) \subseteq Seq(S) /\ Seq(D) \subseteq Seq(S)
    OBVIOUS
  <2> HIDE DEF S
  <2>7. /\ ProductSteps \in Seq(S) /\ PlanningSteps \in Seq(S)
        /\ ReviewSteps \in Seq(S) /\ ReleaseSteps \in Seq(S)
    BY <2>1, <2>2, <2>3, <2>4, <2>5, <2>6
  <2> QED
    BY <2>7, Zenon
<1> DEFINE p == ProductSteps \o PlanningSteps
           q == p \o ReviewSteps
<1>3. p = ProductSteps \o PlanningSteps /\ q = p \o ReviewSteps
  OBVIOUS
<1>4. ProjectDelivery = q \o ReleaseSteps
  BY DEF ProjectDelivery
<1> HIDE DEF p, q
<1>5. /\ p \in Seq(S) /\ Len(p) = Len(ProductSteps) + Len(PlanningSteps)
      /\ \A i \in 1 .. Len(ProductSteps) : p[i] = ProductSteps[i]
      /\ \A i \in 1 .. Len(PlanningSteps) : p[Len(ProductSteps) + i] = PlanningSteps[i]
  BY <1>2, <1>3, Concatenated
<1>6. /\ q \in Seq(S) /\ Len(q) = Len(p) + Len(ReviewSteps)
      /\ \A i \in 1 .. Len(p) : q[i] = p[i]
      /\ \A i \in 1 .. Len(ReviewSteps) : q[Len(p) + i] = ReviewSteps[i]
  BY <1>2, <1>3, <1>5, Concatenated
<1>7. /\ ProjectDelivery \in Seq(S)
      /\ Len(ProjectDelivery) = Len(q) + Len(ReleaseSteps)
      /\ \A i \in 1 .. Len(q) : ProjectDelivery[i] = q[i]
      /\ \A i \in 1 .. Len(ReleaseSteps) : ProjectDelivery[Len(q) + i] = ReleaseSteps[i]
  <2>1. q \in Seq(S) /\ ReleaseSteps \in Seq(S)
    BY <1>2, <1>6
  <2> QED
    BY <2>1, <1>4, Concatenated
<1>8. Len(p) = 10 /\ Len(q) = 16 /\ Len(ProjectDelivery) = 20
  BY <1>1, <1>5, <1>6, <1>7
<1>9. DOMAIN ProjectDelivery = 1 .. 20
  <2>1. DOMAIN ProjectDelivery = 1 .. Len(ProjectDelivery)
    BY <1>7
  <2> QED
    BY <2>1, <1>8
<1>10. \A i \in 1 .. 10 : ProjectDelivery[i] = p[i]
  BY <1>6, <1>7, <1>8
<1>11. \A i \in 1 .. 6 : ProjectDelivery[i] = ProductSteps[i]
  BY <1>1, <1>5, <1>10
<1>12. \A i \in 1 .. 4 : ProjectDelivery[6 + i] = PlanningSteps[i]
  <2> TAKE i \in 1 .. 4
  <2>1. 6 + i \in 1 .. 10
    OBVIOUS
  <2> QED
    BY <2>1, <1>1, <1>5, <1>10
<1>13. \A i \in 1 .. 6 : ProjectDelivery[10 + i] = ReviewSteps[i]
  <2> TAKE i \in 1 .. 6
  <2>1. 10 + i \in 1 .. 16
    OBVIOUS
  <2>2. ProjectDelivery[10 + i] = q[10 + i]
    BY <2>1, <1>7, <1>8
  <2>3. q[10 + i] = ReviewSteps[i]
    BY <1>1, <1>6, <1>8
  <2> QED
    BY <2>2, <2>3, Zenon
<1>14. \A i \in 1 .. 4 : ProjectDelivery[16 + i] = ReleaseSteps[i]
  BY <1>1, <1>7, <1>8
<1> QED
  BY <1>9, <1>11, <1>12, <1>13, <1>14

(* Who sets what, what is read before all keys are set, and who needs what no
   record keeps.                                                           *)
LEMMA TheKeys ==
  /\ "scan" \in ProjectDelivery[1].writes /\ "brief" \in ProjectDelivery[2].writes
  /\ "requirements" \in ProjectDelivery[3].writes /\ "prd" \in ProjectDelivery[4].writes
  /\ "arch" \in ProjectDelivery[6].writes /\ {"milestones", "scale"} \subseteq ProjectDelivery[7].writes
  /\ "tasks" \in ProjectDelivery[8].writes
  /\ \A s \in {1, 2, 5} : ProjectDelivery[s].reads = {}
  /\ ProjectDelivery[3].reads = {"brief"}
  /\ ProjectDelivery[4].reads = {"brief", "requirements"}
  /\ ProjectDelivery[6].reads = {"prd", "scan"}
  /\ ProjectDelivery[7].reads = {"arch", "prd", "brief"}
  /\ ProjectDelivery[8].reads = {"brief", "milestones", "arch", "prd", "scale"}
  /\ \A s \in 9 .. 20 : ProjectDelivery[s].reads \subseteq DeliveryKeys
  /\ \A s \in 1 .. 20 : s # 4 => ProjectDelivery[s].needs \subseteq RestoredKeys
  /\ ProjectDelivery[4].needs = {"brief", "requirements"}
  /\ ProjectDelivery[4].name = "prd_write"
<1>1. /\ "scan" \in ProjectDelivery[1].writes /\ "brief" \in ProjectDelivery[2].writes
      /\ "requirements" \in ProjectDelivery[3].writes /\ "prd" \in ProjectDelivery[4].writes
      /\ "arch" \in ProjectDelivery[6].writes
      /\ \A s \in {1, 2, 5} : ProjectDelivery[s].reads = {}
      /\ ProjectDelivery[3].reads = {"brief"}
      /\ ProjectDelivery[4].reads = {"brief", "requirements"}
      /\ ProjectDelivery[6].reads = {"prd", "scan"}
      /\ ProjectDelivery[4].needs = {"brief", "requirements"}
      /\ ProjectDelivery[4].name = "prd_write"
  BY TheSteps DEF ProductSteps, Named
<1>2. \A s \in 1 .. 6 : s # 4 => ProjectDelivery[s].needs \subseteq RestoredKeys
  BY TheSteps DEF ProductSteps, Named, RestoredKeys, DeliveryKeys
<1>3. \A i \in 1 .. 4 : ProjectDelivery[6 + i] = PlanningSteps[i]
  BY TheSteps
<1>4. /\ {"milestones", "scale"} \subseteq PlanningSteps[1].writes
      /\ "tasks" \in PlanningSteps[2].writes
      /\ PlanningSteps[1].reads = {"arch", "prd", "brief"}
      /\ PlanningSteps[2].reads = {"brief", "milestones", "arch", "prd", "scale"}
      /\ PlanningSteps[3].reads \subseteq DeliveryKeys
      /\ PlanningSteps[4].reads \subseteq DeliveryKeys
      /\ \A i \in 1 .. 4 : PlanningSteps[i].needs \subseteq RestoredKeys
  BY DEF PlanningSteps, Named, RestoredKeys, DeliveryKeys
<1>5. \A i \in 1 .. 6 : /\ ReviewSteps[i].reads \subseteq DeliveryKeys
                        /\ ReviewSteps[i].needs \subseteq RestoredKeys
  BY DEF ReviewSteps, Named, RestoredKeys, DeliveryKeys
<1>6. \A i \in 1 .. 4 : /\ ReleaseSteps[i].reads \subseteq DeliveryKeys
                        /\ ReleaseSteps[i].needs \subseteq RestoredKeys
  BY DEF ReleaseSteps, Named, RestoredKeys, DeliveryKeys
<1>7. /\ ProjectDelivery[7] = PlanningSteps[1] /\ ProjectDelivery[8] = PlanningSteps[2]
      /\ ProjectDelivery[9] = PlanningSteps[3] /\ ProjectDelivery[10] = PlanningSteps[4]
  BY <1>3
<1>8. \A s \in 11 .. 16 : \E i \in 1 .. 6 : ProjectDelivery[s] = ReviewSteps[i]
  <2> TAKE s \in 11 .. 16
  <2>1. s - 10 \in 1 .. 6 /\ s = 10 + (s - 10)
    OBVIOUS
  <2> QED
    BY <2>1, TheSteps
<1>9. \A s \in 17 .. 20 : \E i \in 1 .. 4 : ProjectDelivery[s] = ReleaseSteps[i]
  <2> TAKE s \in 17 .. 20
  <2>1. s - 16 \in 1 .. 4 /\ s = 16 + (s - 16)
    OBVIOUS
  <2> QED
    BY <2>1, TheSteps
<1>10. \A s \in 9 .. 20 : ProjectDelivery[s].reads \subseteq DeliveryKeys
  <2> TAKE s \in 9 .. 20
  <2>1. s = 9 \/ s = 10 \/ s \in 11 .. 16 \/ s \in 17 .. 20
    OBVIOUS
  <2> QED
    BY <2>1, <1>4, <1>5, <1>6, <1>7, <1>8, <1>9
<1>11. \A s \in 7 .. 20 : ProjectDelivery[s].needs \subseteq RestoredKeys
  <2> TAKE s \in 7 .. 20
  <2>1. s = 7 \/ s = 8 \/ s = 9 \/ s = 10 \/ s \in 11 .. 16 \/ s \in 17 .. 20
    OBVIOUS
  <2> QED
    BY <2>1, <1>4, <1>5, <1>6, <1>7, <1>8, <1>9
<1>12. \A s \in 1 .. 20 : s # 4 => ProjectDelivery[s].needs \subseteq RestoredKeys
  <2> TAKE s \in 1 .. 20
  <2>1. s \in 1 .. 6 \/ s \in 7 .. 20
    OBVIOUS
  <2> QED
    BY <2>1, <1>2, <1>11
<1> QED
  BY <1>1, <1>4, <1>7, <1>10, <1>12

(* Each step waits for steps listed before it.                             *)
LEMMA TheDependencies ==
  \A s \in 1 .. 20 : \A n \in ProjectDelivery[s].deps :
     \E d \in 1 .. (s - 1) : ProjectDelivery[d].name = n
<1>1. /\ \A i \in 1 .. 6 : ProjectDelivery[i] = ProductSteps[i]
      /\ \A i \in 1 .. 4 : ProjectDelivery[6 + i] = PlanningSteps[i]
      /\ \A i \in 1 .. 6 : ProjectDelivery[10 + i] = ReviewSteps[i]
      /\ \A i \in 1 .. 4 : ProjectDelivery[16 + i] = ReleaseSteps[i]
  BY TheSteps
<1>2. /\ ProjectDelivery[7] = PlanningSteps[1] /\ ProjectDelivery[8] = PlanningSteps[2]
      /\ ProjectDelivery[9] = PlanningSteps[3] /\ ProjectDelivery[10] = PlanningSteps[4]
      /\ ProjectDelivery[11] = ReviewSteps[1] /\ ProjectDelivery[12] = ReviewSteps[2]
      /\ ProjectDelivery[13] = ReviewSteps[3] /\ ProjectDelivery[14] = ReviewSteps[4]
      /\ ProjectDelivery[15] = ReviewSteps[5] /\ ProjectDelivery[16] = ReviewSteps[6]
      /\ ProjectDelivery[17] = ReleaseSteps[1] /\ ProjectDelivery[18] = ReleaseSteps[2]
      /\ ProjectDelivery[19] = ReleaseSteps[3] /\ ProjectDelivery[20] = ReleaseSteps[4]
  BY <1>1
<1> DEFINE After(s) == \A n \in ProjectDelivery[s].deps :
                          \E d \in 1 .. (s - 1) : ProjectDelivery[d].name = n
<1>3. /\ ProjectDelivery[1].deps = {}
      /\ ProjectDelivery[2].deps = {ProjectDelivery[1].name}
      /\ ProjectDelivery[3].deps = {ProjectDelivery[2].name}
      /\ ProjectDelivery[4].deps = {ProjectDelivery[3].name}
      /\ ProjectDelivery[5].deps = {ProjectDelivery[1].name}
      /\ ProjectDelivery[6].deps = {ProjectDelivery[4].name, ProjectDelivery[5].name}
      /\ ProjectDelivery[6].name = "architecture_design"
  BY <1>1 DEF ProductSteps, Named
<1>4. /\ ProjectDelivery[7].deps = {ProjectDelivery[6].name}
      /\ ProjectDelivery[8].deps = {ProjectDelivery[7].name}
      /\ ProjectDelivery[9].deps = {ProjectDelivery[8].name}
      /\ ProjectDelivery[10].deps = {ProjectDelivery[9].name}
      /\ ProjectDelivery[10].name = "test_design"
  BY <1>2, <1>3 DEF PlanningSteps, Named
<1>5. /\ ProjectDelivery[11].deps = {ProjectDelivery[10].name}
      /\ \A s \in {12, 13, 14, 15} : ProjectDelivery[s].deps = {ProjectDelivery[11].name}
      /\ ProjectDelivery[16].deps = {ProjectDelivery[12].name, ProjectDelivery[13].name,
                                     ProjectDelivery[14].name, ProjectDelivery[15].name}
      /\ ProjectDelivery[16].name = "verification"
  BY <1>2, <1>4 DEF ReviewSteps, Named
<1>6. /\ ProjectDelivery[17].deps = {ProjectDelivery[16].name}
      /\ ProjectDelivery[18].deps = {ProjectDelivery[17].name}
      /\ ProjectDelivery[19].deps = {ProjectDelivery[18].name}
      /\ ProjectDelivery[20].deps = {ProjectDelivery[19].name}
  BY <1>2, <1>5 DEF ReleaseSteps, Named
<1> HIDE DEF Named
<1>7. After(1) /\ After(5) /\ After(6)
  BY <1>3
<1>8. \A s \in {12, 13, 14, 15, 16} : After(s)
  BY <1>5
<1>9. \A s \in {2, 3, 4, 7, 8, 9, 10, 11, 17, 18, 19, 20} :
         ProjectDelivery[s].deps = {ProjectDelivery[s - 1].name}
  BY <1>3, <1>4, <1>5, <1>6
<1>10. \A s \in {2, 3, 4, 7, 8, 9, 10, 11, 17, 18, 19, 20} : After(s)
  BY <1>9
<1> QED
  BY <1>7, <1>8, <1>10

(* PROJECT_DELIVERY_REGISTRY is Supplied.                                  *)
LEMMA DeliveryIsSupplied ==
  ASSUME Registries = {ProjectDelivery}, Kept = RestoredKeys
  PROVE  Supplied(ProjectDelivery)
<1>1. DOMAIN ProjectDelivery = 1 .. 20
  BY TheSteps
<1>2. ASSUME NEW s \in 1 .. 20, NEW d \in 1 .. 20,
             ProjectDelivery[d].name \in ProjectDelivery[s].deps
      PROVE  d < s
  <2>1. PICK e \in 1 .. (s - 1) : ProjectDelivery[e].name = ProjectDelivery[d].name
    BY <1>2, TheDependencies
  <2>2. e = d
    <3>1. \A i, j \in DOMAIN ProjectDelivery :
             ProjectDelivery[i].name = ProjectDelivery[j].name => i = j
      BY RegistriesAssumption, Zenon
    <3>2. d \in DOMAIN ProjectDelivery /\ e \in DOMAIN ProjectDelivery
      BY <1>1
    <3> QED
      BY <2>1, <3>1, <3>2, Zenon
  <2> QED
    BY <2>2
<1>3. ASSUME NEW s \in 1 .. 20, NEW x \in ProjectDelivery[s].reads
      PROVE  \E k \in 1 .. (s - 1) : x \in ProjectDelivery[k].writes
  <2>1. CASE s \in {1, 2, 5}
    BY <1>3, <2>1, TheKeys
  <2>2. CASE s \in {3, 4, 6, 7, 8}
    BY <1>3, <2>2, TheKeys
  <2>3. CASE s \in 9 .. 20
    <3>1. x \in DeliveryKeys
      BY <1>3, <2>3, TheKeys
    <3>2. \E k \in 1 .. 8 : x \in ProjectDelivery[k].writes
      BY <3>1, TheKeys DEF DeliveryKeys
    <3> QED
      BY <3>2, <2>3
  <2> QED
    BY <2>1, <2>2, <2>3
<1>4. ASSUME NEW f \in 1 .. 20, NEW s \in 1 .. 20, f <= s,
             ProjectDelivery[f].name # "prd_write", NEW x \in ProjectDelivery[s].needs,
             x \notin Kept
      PROVE  \E k \in f .. (s - 1) : x \in ProjectDelivery[k].writes
  <2>1. s = 4
    BY <1>4, TheKeys
  <2>2. f # 4
    BY <1>4, TheKeys
  <2>3. x = "requirements"
    BY <1>4, <2>1, TheKeys DEF RestoredKeys, DeliveryKeys
  <2>4. 3 \in f .. (s - 1) /\ "requirements" \in ProjectDelivery[3].writes
    BY <1>4, <2>1, <2>2, TheKeys
  <2> QED
    BY <2>3, <2>4
<1>5. \A s \in DOMAIN ProjectDelivery :
         ProjectDelivery[s].reads \subseteq WrittenIn(ProjectDelivery, 1, s)
  BY <1>1, <1>3 DEF WrittenIn
<1>6. \A f, s \in DOMAIN ProjectDelivery :
         f <= s /\ ProjectDelivery[f].name # "prd_write" =>
            ProjectDelivery[s].needs \subseteq Kept \cup WrittenIn(ProjectDelivery, f, s)
  BY <1>1, <1>4, SMTT(30) DEF WrittenIn
<1>7. \A s, d \in DOMAIN ProjectDelivery :
         ProjectDelivery[d].name \in ProjectDelivery[s].deps => d < s
  BY <1>1, <1>2
<1> QED
  BY <1>5, <1>6, <1>7, Zenon DEF Supplied

(* Every step of the micro-file delivery that is called finds what it reads,
   in a delivery with any options and in the replay, from any step but
   prd_write, of a run whose record is complete (InputsAtHand).            *)
THEOREM DeliveryFindsItsInputs ==
  ASSUME Registries = {ProjectDelivery}, Kept = RestoredKeys
  PROVE  Spec => []InputsAtHand
  BY DeliveryIsSupplied, SuppliedStepsHaveInputs
=============================================================================
