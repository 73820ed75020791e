------------------------ MODULE DependencyPlannerProofs ------------------------
(* Proofs about DependencyPlanner for every set of files and every list of
   tasks: the batches respect every edge, and every conflict, not only the
   pairs of neighbours that got an edge.                                   *)
EXTENDS DependencyPlanner, WellFoundedInduction, SequenceTheorems, TLAPS

(* A nonempty set of naturals has a smallest element.                      *)
LEMMA Smallest ==
  ASSUME NEW T \in SUBSET Nat, T # {}
  PROVE  \E m \in T : \A n \in T : m <= n
<1>1. IsWellFoundedOn({ ss \in Nat \X Nat : ss[1] < ss[2] }, Nat)
  BY NatLessThanWellFounded DEF OpToRel
<1>2. PICK x \in T : \A y \in T : ~(<<y, x>> \in { ss \in Nat \X Nat : ss[1] < ss[2] })
  BY <1>1, WFMin
<1>3. ASSUME NEW y \in T PROVE x <= y
  <2>1. <<y, x>> \in Nat \X Nat /\ <<y, x>>[1] = y /\ <<y, x>>[2] = x
    OBVIOUS
  <2>2. ~(y < x)
    BY <1>2, <2>1
  <2> QED
    BY <2>2
<1> QED
  BY <1>3

(* A nonempty set of naturals below a bound has a largest element.         *)
LEMMA LargestBelow ==
  ASSUME NEW S \in SUBSET Nat, S # {}, NEW b \in Nat, \A c \in S : c < b
  PROVE  \E m \in S : \A c \in S : c <= m
<1> DEFINE T == { n \in Nat : \A c \in S : c <= n }
<1>1. T \in SUBSET Nat /\ b \in T
  OBVIOUS
<1>2. PICK m \in T : \A n \in T : m <= n
  BY <1>1, Smallest
<1>3. CASE m \in S
  BY <1>3
<1>4. CASE m \notin S
  <2>1. PICK c \in S : TRUE
    OBVIOUS
  <2>2. m # 0 /\ m \in Nat
    BY <2>1, <1>4
  <2>3. m - 1 \in T
    BY <2>2, <1>4
  <2> QED
    BY <2>2, <2>3, <1>2
<1> QED
  BY <1>3, <1>4

-----------------------------------------------------------------------------
(* After the fallback there is nothing left to place.                      *)
FallbackIsLast == cyclic => remaining = {} /\ Len(batches) # 0

(* The inductive invariant: what is placed is where it must be, and what is
   not placed is still to place.                                           *)
PlannerInv == /\ TypeOK
              /\ FallbackIsLast
              /\ EachTaskOnce
              /\ EdgesRespected
              /\ ClashesSerialized

(* How an iteration extends the batches, stated once for both kinds.       *)
Extends(B) == /\ Len(batches) \in Nat
              /\ DOMAIN batches = 1 .. Len(batches)
              /\ Len(batches') = Len(batches) + 1
              /\ DOMAIN batches' = 1 .. (Len(batches) + 1)
              /\ \A i \in 1 .. Len(batches) : batches'[i] = batches[i]
              /\ batches'[Len(batches) + 1] = B

LEMMA AppendExtends ==
  ASSUME TypeOK, NEW B \in SUBSET DOMAIN tasks, batches' = Append(batches, B)
  PROVE  Extends(B) /\ batches' \in Seq(SUBSET DOMAIN tasks)
<1>1. batches \in Seq(SUBSET DOMAIN tasks)
  BY DEF TypeOK
<1>2. /\ batches' \in Seq(SUBSET DOMAIN tasks)
      /\ Len(batches') = Len(batches) + 1
      /\ \A i \in 1 .. Len(batches) : batches'[i] = batches[i]
      /\ batches'[Len(batches) + 1] = B
  BY <1>1, AppendProperties
<1>3. /\ Len(batches) \in Nat /\ DOMAIN batches = 1 .. Len(batches)
      /\ DOMAIN batches' = 1 .. Len(batches')
  BY <1>1, <1>2, LenProperties
<1> QED
  BY <1>2, <1>3 DEF Extends

(* The positions of a task list are naturals.                              *)
LEMMA Positions == ASSUME TypeOK PROVE DOMAIN tasks \subseteq Nat
<1>1. tasks \in Seq(Task)
  BY DEF TypeOK, IsTaskList
<1> QED
  BY <1>1, LenProperties

(* The types hold after every iteration.                                   *)
LEMMA TypeStep == TypeOK /\ [Next]_vars => TypeOK'
<1> SUFFICES ASSUME TypeOK, [Next]_vars PROVE TypeOK'
  OBVIOUS
<1>1. CASE PlaceBatch
  <2>1. Ready \in SUBSET DOMAIN tasks
    BY DEF TypeOK, Ready
  <2>2. batches' \in Seq(SUBSET DOMAIN tasks)
    BY <1>1, <2>1, AppendExtends DEF PlaceBatch
  <2> QED
    BY <1>1, <2>2 DEF PlaceBatch, TypeOK
<1>2. CASE CycleFallback
  <2>1. remaining \in SUBSET DOMAIN tasks
    BY DEF TypeOK
  <2>2. batches' \in Seq(SUBSET DOMAIN tasks)
    BY <1>2, <2>1, AppendExtends DEF CycleFallback
  <2> QED
    BY <1>2, <2>2 DEF CycleFallback, TypeOK
<1>3. CASE UNCHANGED vars
  BY <1>3 DEF vars, TypeOK
<1> QED
  BY <1>1, <1>2, <1>3 DEF Next

(* A task placed by PlaceBatch has every predecessor in an earlier batch.  *)
LEMMA PredecessorsPlaced ==
  ASSUME PlannerInv, NEW b \in Ready, NEW a \in Incoming(tasks, b)
  PROVE  \E j \in DOMAIN batches : a \in batches[j]
<1>1. a \in DOMAIN tasks /\ a \notin remaining
  BY DEF Ready, Incoming
<1> QED
  BY <1>1 DEF PlannerInv, EachTaskOnce

(* Of the tasks before b that declare f, the last one is joined to b by an
   edge; likewise for the high-risk tasks before b.                        *)
LEMMA ClashHasNeighbour ==
  ASSUME TypeOK, NEW a \in DOMAIN tasks, NEW b \in DOMAIN tasks, a < b,
         Clash(tasks, a, b)
  PROVE  \E m \in Incoming(tasks, b) : a = m \/ (a < m /\ Clash(tasks, a, m))
<1>1. DOMAIN tasks \subseteq Nat
  BY Positions
<1>2. CASE \E f \in Files : Shares(tasks, f, a, b)
  <2>1. PICK f \in Files : Shares(tasks, f, a, b)
    BY <1>2
  <2> DEFINE S == { c \in DOMAIN tasks : a <= c /\ c < b /\ f \in tasks[c].files }
  <2>2. a \in S /\ S \in SUBSET Nat /\ \A c \in S : c < b
    BY <1>1, <2>1 DEF Shares
  <2>3. PICK m \in S : \A c \in S : c <= m
    BY <1>1, <2>2, LargestBelow
  <2>4. \A c \in DOMAIN tasks : m < c /\ c < b => f \notin tasks[c].files
    BY <1>1, <2>2, <2>3
  <2>5. m \in Incoming(tasks, b)
    BY <2>1, <2>3, <2>4 DEF Incoming, Edge, SameFilePair, Shares
  <2>6. a = m \/ (a < m /\ Clash(tasks, a, m))
    BY <1>1, <2>1, <2>2, <2>3 DEF Clash, Shares
  <2> QED
    BY <2>5, <2>6
<1>3. CASE tasks[a].high /\ tasks[b].high
  <2> DEFINE S == { c \in DOMAIN tasks : a <= c /\ c < b /\ tasks[c].high }
  <2>2. a \in S /\ S \in SUBSET Nat /\ \A c \in S : c < b
    BY <1>1, <1>3
  <2>3. PICK m \in S : \A c \in S : c <= m
    BY <1>1, <2>2, LargestBelow
  <2>4. \A c \in DOMAIN tasks : m < c /\ c < b => ~tasks[c].high
    BY <1>1, <2>2, <2>3
  <2>5. m \in Incoming(tasks, b)
    BY <1>3, <2>3, <2>4 DEF Incoming, Edge, HighRiskPair
  <2>6. a = m \/ (a < m /\ Clash(tasks, a, m))
    BY <1>1, <1>3, <2>2, <2>3 DEF Clash
  <2> QED
    BY <2>5, <2>6
<1> QED
  BY <1>2, <1>3 DEF Clash

-----------------------------------------------------------------------------
(* One iteration of the loop that places the batch B and keeps the rest.   *)
LEMMA OnceStep ==
  ASSUME TypeOK, EachTaskOnce, NEW B \in SUBSET remaining, tasks' = tasks,
         batches' = Append(batches, B), remaining' = remaining \ B
  PROVE  EachTaskOnce'
<1>1. Extends(B)
  BY AppendExtends DEF TypeOK
<1>2. ASSUME NEW t \in DOMAIN tasks
      PROVE  t \in remaining' <=> \A i \in DOMAIN batches' : t \notin batches'[i]
  <2>1. CASE t \in B
    BY <2>1, <1>1 DEF Extends
  <2>2. CASE t \notin B
    <3>1. t \in remaining' <=> \A i \in DOMAIN batches : t \notin batches[i]
      BY <2>2 DEF EachTaskOnce
    <3> QED
      BY <3>1, <2>2, <1>1 DEF Extends
  <2> QED
    BY <2>1, <2>2
<1>3. ASSUME NEW t \in DOMAIN tasks, NEW i \in DOMAIN batches', NEW j \in DOMAIN batches',
             t \in batches'[i], t \in batches'[j]
      PROVE  i = j
  <2>1. CASE t \in B
    <3>1. \A k \in DOMAIN batches : t \notin batches[k]
      BY <2>1 DEF EachTaskOnce
    <3> QED
      BY <3>1, <1>1, <1>3 DEF Extends
  <2>2. CASE t \notin B
    <3>1. i \in DOMAIN batches /\ j \in DOMAIN batches
      BY <2>2, <1>1, <1>3 DEF Extends
    <3> QED
      BY <3>1, <1>1, <1>3 DEF Extends, EachTaskOnce
  <2> QED
    BY <2>1, <2>2
<1> QED
  BY <1>2, <1>3 DEF EachTaskOnce

(* The loop keeps the inductive invariant.                                 *)
LEMMA PlannerStep == PlannerInv /\ [Next]_vars => PlannerInv'
<1> SUFFICES ASSUME PlannerInv, [Next]_vars PROVE PlannerInv'
  OBVIOUS
<1>1. TypeOK /\ TypeOK'
  BY TypeStep DEF PlannerInv
<1>2. CASE PlaceBatch
  <2>1. ~cyclic /\ ~cyclic'
    BY <1>2 DEF PlannerInv, FallbackIsLast, PlaceBatch, Ready
  <2>2. Ready \in SUBSET remaining /\ Ready \in SUBSET DOMAIN tasks
    BY <1>1 DEF Ready, TypeOK
  <2>3. Extends(Ready) /\ tasks' = tasks
    BY <1>1, <1>2, <2>2, AppendExtends DEF PlaceBatch
  <2>4. EachTaskOnce'
    BY <1>1, <1>2, <2>2, OnceStep DEF PlannerInv, PlaceBatch
  <2>5. EdgesRespected'
    <3> SUFFICES ASSUME NEW i \in 1 .. (Len(batches) + 1), NEW b \in batches'[i],
                        NEW a \in Incoming(tasks, b)
                 PROVE  \E j \in DOMAIN batches' : j < i /\ a \in batches'[j]
      BY <2>1, <2>3 DEF EdgesRespected, Ordered, Extends
    <3>1. CASE i = Len(batches) + 1
      <4>1. PICK j \in DOMAIN batches : a \in batches[j]
        BY <3>1, <2>3, PredecessorsPlaced DEF Extends
      <4> QED
        BY <4>1, <3>1, <2>3 DEF Extends
    <3>2. CASE i # Len(batches) + 1
      <4>1. i \in Ordered /\ b \in batches[i]
        BY <3>2, <2>1, <2>3 DEF Extends, Ordered
      <4>2. PICK j \in DOMAIN batches : j < i /\ a \in batches[j]
        BY <4>1 DEF PlannerInv, EdgesRespected
      <4> QED
        BY <4>2, <2>3 DEF Extends
    <3> QED
      BY <3>1, <3>2
  <2>6. ClashesSerialized'
    <3> SUFFICES ASSUME NEW i \in 1 .. (Len(batches) + 1), NEW b \in batches'[i],
                        NEW a \in DOMAIN tasks, a < b, Clash(tasks, a, b)
                 PROVE  \E j \in DOMAIN batches' : j < i /\ a \in batches'[j]
      BY <2>1, <2>3 DEF ClashesSerialized, Ordered, Extends
    <3>1. CASE i = Len(batches) + 1
      <4>1. b \in Ready /\ b \in DOMAIN tasks
        BY <3>1, <2>2, <2>3 DEF Extends
      <4>2. PICK m \in Incoming(tasks, b) : a = m \/ (a < m /\ Clash(tasks, a, m))
        BY <1>1, <4>1, ClashHasNeighbour
      <4>3. PICK j \in DOMAIN batches : m \in batches[j]
        BY <4>1, <4>2, PredecessorsPlaced
      <4>4. \E k \in DOMAIN batches : k <= j /\ a \in batches[k]
        <5>1. CASE a = m
          BY <5>1, <4>3, <2>3 DEF Extends
        <5>2. CASE a < m /\ Clash(tasks, a, m)
          BY <5>2, <4>3, <2>1, <2>3 DEF PlannerInv, ClashesSerialized, Ordered, Extends
        <5> QED
          BY <5>1, <5>2, <4>2
      <4> QED
        BY <4>4, <3>1, <2>3 DEF Extends
    <3>2. CASE i # Len(batches) + 1
      <4>1. i \in Ordered /\ b \in batches[i]
        BY <3>2, <2>1, <2>3 DEF Extends, Ordered
      <4>2. PICK j \in DOMAIN batches : j < i /\ a \in batches[j]
        BY <4>1 DEF PlannerInv, ClashesSerialized
      <4> QED
        BY <4>2, <2>3 DEF Extends
    <3> QED
      BY <3>1, <3>2
  <2> QED
    BY <1>1, <2>1, <2>4, <2>5, <2>6 DEF PlannerInv, FallbackIsLast
<1>3. CASE CycleFallback
  <2>1. ~cyclic /\ cyclic' /\ remaining' = {} /\ tasks' = tasks
    BY <1>3 DEF PlannerInv, FallbackIsLast, CycleFallback
  <2>2. Extends(remaining)
    BY <1>1, <1>3, AppendExtends DEF CycleFallback, TypeOK
  <2>3. EachTaskOnce'
    <3>1. remaining' = remaining \ remaining
      BY <2>1
    <3> QED
      BY <1>1, <1>3, <2>1, <3>1, OnceStep DEF PlannerInv, CycleFallback
  <2>4. Ordered' = DOMAIN batches /\ Ordered = DOMAIN batches
    BY <2>1, <2>2 DEF Ordered, Extends
  <2>5. \A i \in DOMAIN batches : i \in DOMAIN batches' /\ batches'[i] = batches[i]
    BY <2>2 DEF Extends
  <2>6. EdgesRespected'
    BY <2>1, <2>4, <2>5 DEF PlannerInv, EdgesRespected
  <2>7. ClashesSerialized'
    BY <2>1, <2>4, <2>5 DEF PlannerInv, ClashesSerialized
  <2>8. FallbackIsLast'
    BY <2>1, <2>2 DEF FallbackIsLast, Extends
  <2> QED
    BY <1>1, <2>3, <2>6, <2>7, <2>8 DEF PlannerInv
<1>4. CASE UNCHANGED vars
  BY <1>4, <1>1 DEF vars, PlannerInv, FallbackIsLast, EachTaskOnce, EdgesRespected,
                    ClashesSerialized, Ordered
<1> QED
  BY <1>2, <1>3, <1>4 DEF Next

(* Before the first iteration nothing is placed.                           *)
LEMMA PlannerInit == Init => PlannerInv
<1> SUFFICES ASSUME Init PROVE PlannerInv
  OBVIOUS
<1>1. TypeOK
  <2>1. IsTaskList(tasks)
    BY TaskListsAssumption DEF Init
  <2>2. batches \in Seq(SUBSET DOMAIN tasks)
    BY EmptySeq DEF Init
  <2> QED
    BY <2>1, <2>2 DEF Init, TypeOK
<1>2. DOMAIN batches = {} /\ Ordered = {}
  BY DEF Init, Ordered
<1> QED
  BY <1>1, <1>2 DEF Init, PlannerInv, FallbackIsLast, EachTaskOnce, EdgesRespected,
                    ClashesSerialized

(* The types, for every list of tasks.                                     *)
THEOREM PlannerTypes == Spec => []TypeOK
<1>1. PlannerInv => TypeOK
  BY DEF PlannerInv
<1> QED
  BY <1>1, PlannerInit, PlannerStep, PTL DEF Spec

(* topological_batches loses no task, plans none twice, puts every task
   after every task it must wait for, and serializes every conflict over a
   file and all the high-risk tasks, not only neighbours.                  *)
THEOREM BatchesAreAPlan == Spec => []IsAPlan
<1>1. PlannerInv => IsAPlan
  BY DEF PlannerInv, IsAPlan
<1> QED
  BY <1>1, PlannerInit, PlannerStep, PTL DEF Spec

(* The pairwise edges serialize every conflict over a file and all the
   high-risk tasks, not only neighbours.                                   *)
THEOREM ConflictsAreSerialized == Spec => []ClashesSerialized
<1>1. PlannerInv => ClashesSerialized
  BY DEF PlannerInv
<1> QED
  BY <1>1, PlannerInit, PlannerStep, PTL DEF Spec

-----------------------------------------------------------------------------
(* With forward dependencies every edge points forward in the list.        *)
LEMMA ForwardEdges ==
  ASSUME TypeOK, Forward(tasks), NEW b \in DOMAIN tasks, NEW a \in Incoming(tasks, b)
  PROVE  a < b
<1>1. DOMAIN tasks \subseteq Nat
  BY Positions
<1>2. CASE a \in tasks[b].deps
  BY <1>2 DEF Forward
<1>3. CASE SameFilePair(tasks, a, b)
  BY <1>3 DEF Forward, SameFilePair, Incoming
<1>4. CASE HighRiskPair(tasks, a, b)
  BY <1>4 DEF HighRiskPair
<1> QED
  BY <1>2, <1>3, <1>4 DEF Incoming, Edge

(* So the first task still to place is ready.                              *)
LEMMA ForwardHasReady ==
  ASSUME TypeOK, Forward(tasks), remaining # {}
  PROVE  Ready # {}
<1>1. DOMAIN tasks \subseteq Nat
  BY Positions
<1>2. PICK b \in remaining : \A a \in remaining : b <= a
  BY <1>1, Smallest DEF TypeOK
<1>3. ASSUME NEW a \in Incoming(tasks, b) PROVE a \notin remaining
  BY <1>1, <1>2, ForwardEdges DEF TypeOK, Incoming
<1> QED
  BY <1>2, <1>3 DEF Ready

(* Hence the fallback is not taken.                                        *)
LEMMA ForwardStep == TypeOK /\ ForwardNeverCyclic /\ [Next]_vars => ForwardNeverCyclic'
<1> SUFFICES ASSUME TypeOK, ForwardNeverCyclic, [Next]_vars PROVE ForwardNeverCyclic'
  OBVIOUS
<1>1. CASE PlaceBatch
  BY <1>1 DEF PlaceBatch, ForwardNeverCyclic
<1>2. CASE CycleFallback
  <2>1. ~Forward(tasks)
    BY <1>2, ForwardHasReady DEF CycleFallback
  <2> QED
    BY <1>2, <2>1 DEF CycleFallback, ForwardNeverCyclic
<1>3. CASE UNCHANGED vars
  BY <1>3 DEF vars, ForwardNeverCyclic
<1> QED
  BY <1>1, <1>2, <1>3 DEF Next

(* What the project's own planners produce never reaches the fallback, so
   for it the wave order is never given up.                                *)
THEOREM ForwardListsHaveNoFallback == Spec => []ForwardNeverCyclic
<1>1. Init => TypeOK /\ ForwardNeverCyclic
  BY PlannerInit DEF PlannerInv, Init, ForwardNeverCyclic
<1>2. TypeOK /\ ForwardNeverCyclic /\ [Next]_vars => TypeOK' /\ ForwardNeverCyclic'
  BY TypeStep, ForwardStep
<1> QED
  BY <1>1, <1>2, PTL DEF Spec

-----------------------------------------------------------------------------
(* What is still to place had a reason not to be in the last batch: a task
   of it or one that is still to place.                                    *)
HeldBack ==
  ~cyclic /\ Len(batches) > 0 =>
    \A b \in remaining : \E a \in Incoming(tasks, b) :
      a \in remaining \/ a \in batches[Len(batches)]

NoWaitInv == TypeOK /\ FallbackIsLast /\ HeldBack /\ NoNeedlessWait

LEMMA NoWaitStep == NoWaitInv /\ [Next]_vars => NoWaitInv'
<1> SUFFICES ASSUME NoWaitInv, [Next]_vars PROVE NoWaitInv'
  OBVIOUS
<1>1. TypeOK /\ TypeOK'
  BY TypeStep DEF NoWaitInv
<1>2. CASE PlaceBatch
  <2>1. ~cyclic /\ ~cyclic' /\ tasks' = tasks
    BY <1>2 DEF NoWaitInv, FallbackIsLast, PlaceBatch, Ready
  <2>2. Ready \in SUBSET DOMAIN tasks
    BY <1>1 DEF Ready, TypeOK
  <2>3. Extends(Ready)
    BY <1>1, <1>2, <2>2, AppendExtends DEF PlaceBatch
  <2>4. HeldBack'
    <3> SUFFICES ASSUME NEW b \in remaining, b \notin Ready
                 PROVE  \E a \in Incoming(tasks, b) : a \in remaining \ Ready \/ a \in Ready
      BY <1>2, <2>1, <2>3 DEF HeldBack, PlaceBatch, Extends
    <3> QED
      BY DEF Ready
  <2>5. NoNeedlessWait'
    <3> SUFFICES ASSUME NEW i \in 1 .. (Len(batches) + 1), i > 1, NEW b \in batches'[i]
                 PROVE  \E a \in batches'[i - 1] : a \in Incoming(tasks, b)
      BY <2>1, <2>3 DEF NoNeedlessWait, Ordered, Extends
    <3>1. CASE i = Len(batches) + 1
      <4>1. b \in Ready /\ Len(batches) > 0
        BY <2>3, <3>1 DEF Extends
      <4>2. PICK a \in Incoming(tasks, b) : a \in remaining \/ a \in batches[Len(batches)]
        BY <2>1, <4>1 DEF NoWaitInv, HeldBack, Ready
      <4>3. a \in batches[Len(batches)]
        BY <4>1, <4>2 DEF Ready
      <4> QED
        BY <2>3, <3>1, <4>1, <4>2, <4>3 DEF Extends
    <3>2. CASE i # Len(batches) + 1
      <4>1. i \in Ordered /\ b \in batches[i]
        BY <2>1, <2>3, <3>2 DEF Extends, Ordered
      <4>2. PICK a \in batches[i - 1] : a \in Incoming(tasks, b)
        BY <4>1 DEF NoWaitInv, NoNeedlessWait
      <4> QED
        BY <2>3, <3>2, <4>2 DEF Extends
    <3> QED
      BY <3>1, <3>2
  <2> QED
    BY <1>1, <2>1, <2>4, <2>5 DEF NoWaitInv, FallbackIsLast
<1>3. CASE CycleFallback
  <2>1. ~cyclic /\ cyclic' /\ remaining' = {} /\ tasks' = tasks
    BY <1>3 DEF NoWaitInv, FallbackIsLast, CycleFallback
  <2>2. Extends(remaining)
    BY <1>1, <1>3, AppendExtends DEF CycleFallback, TypeOK
  <2>3. Ordered' = DOMAIN batches /\ Ordered = DOMAIN batches
    BY <2>1, <2>2 DEF Ordered, Extends
  <2>4. \A i \in DOMAIN batches :
          batches'[i] = batches[i] /\ (i > 1 => batches'[i - 1] = batches[i - 1])
    BY <2>2 DEF Extends
  <2>5. NoNeedlessWait'
    BY <2>1, <2>3, <2>4 DEF NoWaitInv, NoNeedlessWait
  <2> QED
    BY <1>1, <2>1, <2>2, <2>5 DEF NoWaitInv, FallbackIsLast, HeldBack, Extends
<1>4. CASE UNCHANGED vars
  BY <1>1, <1>4 DEF vars, NoWaitInv, FallbackIsLast, HeldBack, NoNeedlessWait, Ordered
<1> QED
  BY <1>2, <1>3, <1>4 DEF Next

(* NoNeedlessWait: every task of a later batch waits for one of the batch
   just before it, so no plan with fewer batches keeps the edges.          *)
THEOREM NobodyWaitsInVain == Spec => []NoNeedlessWait
<1>1. Init => NoWaitInv
  <2> SUFFICES ASSUME Init PROVE NoWaitInv
    OBVIOUS
  <2>1. TypeOK /\ FallbackIsLast
    BY PlannerInit DEF PlannerInv
  <2>2. batches = <<>> /\ Len(batches) = 0 /\ DOMAIN batches = {} /\ ~cyclic
    BY DEF Init
  <2> QED
    BY <2>1, <2>2 DEF NoWaitInv, HeldBack, NoNeedlessWait, Ordered
<1>2. NoWaitInv => NoNeedlessWait
  BY DEF NoWaitInv
<1> QED
  BY <1>1, <1>2, NoWaitStep, PTL DEF Spec

(* PlanIsTight: what is planned wastes no parallelism, and a list in
   dependency order is never given up on.                                  *)
THEOREM PlansAreTight == Spec => []PlanIsTight
<1>1. NoNeedlessWait /\ ForwardNeverCyclic => PlanIsTight
  BY DEF PlanIsTight
<1> QED
  BY <1>1, NobodyWaitsInVain, ForwardListsHaveNoFallback, PTL
=============================================================================
