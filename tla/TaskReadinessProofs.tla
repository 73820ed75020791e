------------------------- MODULE TaskReadinessProofs -------------------------
(***************************************************************************)
(* The readiness checker and the planner agree about cycles, for every     *)
(* list of tasks and every order of the search.                            *)
(*                                                                         *)
(* A cycle is a set of tasks of which each waits for another one: that is  *)
(* what the path of the search has found when it meets itself, and what    *)
(* the planner never places.  What the search has left black has no such   *)
(* subset, so a planner that is stuck is stuck in a cycle it has found.    *)
(***************************************************************************)
EXTENDS TaskReadiness, DependencyPlannerProofs

(* A set of tasks each of which waits for one of them.                     *)
Stuck(S) == S # {} /\ \A b \in S : \E a \in S : a \in Neighbours(b)

Black == { t \in DOMAIN tasks : colour[t] = "black" }

(* The active calls: each searches a neighbour of the one before it.       *)
PathInv ==
  /\ \A t \in DOMAIN tasks : colour[t] = "gray" => \E i \in DOMAIN path : path[i] = t
  /\ \A i \in DOMAIN path : colour[path[i]] = "gray"
  /\ \A i, j \in DOMAIN path : path[i] = path[j] => i = j
  /\ \A i \in DOMAIN path : i < Len(path) => path[i + 1] \in Neighbours(path[i])

(* What is black has been searched with everything it waits for, and is in
   no cycle.                                                               *)
BlackInv ==
  /\ \A t \in Black : Neighbours(t) \subseteq Black
  /\ \A S \in SUBSET Black : ~Stuck(S)

(* What the planner does after the search.                                 *)
AgreeInv ==
  /\ found => \E S \in SUBSET DOMAIN tasks : Stuck(S) /\ (cyclic \/ S \subseteq remaining)
  /\ ~Checked => remaining = DOMAIN tasks /\ ~cyclic
  /\ cyclic /\ DeclaredOnly(tasks) => found

SearchInv == CheckTypeOK /\ PathInv /\ BlackInv /\ AgreeInv

-----------------------------------------------------------------------------
LEMMA PathFacts ==
  ASSUME CheckTypeOK
  PROVE  /\ Len(path) \in Nat /\ DOMAIN path = 1 .. Len(path)
         /\ path # <<>> => /\ Len(path) \in DOMAIN path /\ Len(path) >= 1
                           /\ At \in DOMAIN tasks
<1>1. path \in Seq(DOMAIN tasks)
  BY DEF CheckTypeOK
<1>2. Len(path) \in Nat /\ DOMAIN path = 1 .. Len(path)
  BY <1>1
<1>3. path # <<>> => Len(path) >= 1
  BY <1>1
<1> QED
  BY <1>1, <1>2, <1>3 DEF At

(* Entering a white node, from nowhere or from the innermost call.         *)
LEMMA EnterStep ==
  ASSUME CheckTypeOK, PathInv, BlackInv, NEW node \in DOMAIN tasks, Enter(node),
         path # <<>> => node \in Neighbours(At), UNCHANGED tasks
  PROVE  /\ colour' \in [DOMAIN tasks -> {"white", "gray", "black"}]
         /\ path' \in Seq(DOMAIN tasks)
         /\ PathInv' /\ BlackInv'
<1> USE PathFacts
<1>1. /\ colour[node] = "white" /\ colour' = [colour EXCEPT ![node] = "gray"]
      /\ path' = Append(path, node)
      /\ colour \in [DOMAIN tasks -> {"white", "gray", "black"}] /\ path \in Seq(DOMAIN tasks)
  BY DEF Enter, CheckTypeOK
<1>2. /\ colour' \in [DOMAIN tasks -> {"white", "gray", "black"}]
      /\ \A t \in DOMAIN tasks : t # node => colour'[t] = colour[t]
      /\ colour'[node] = "gray"
  BY <1>1
<1>3. /\ path' \in Seq(DOMAIN tasks) /\ Len(path') = Len(path) + 1
      /\ DOMAIN path' = 1 .. (Len(path) + 1)
      /\ \A i \in DOMAIN path : path'[i] = path[i]
      /\ path'[Len(path) + 1] = node
  BY <1>1
<1>4. Black' = Black /\ \A t \in DOMAIN tasks : Neighbours(t)' = Neighbours(t)
  BY <1>1, <1>2 DEF Black, Neighbours
<1>5. BlackInv'
  <2>1. \A t \in Black : t \in DOMAIN tasks
    BY DEF Black
  <2>2. \A S \in SUBSET Black : Stuck(S)' <=> Stuck(S)
    BY <1>4, <2>1 DEF Stuck
  <2> QED
    BY <1>4, <2>1, <2>2 DEF BlackInv
<1>6. \A i \in DOMAIN path : path[i] \in DOMAIN tasks /\ path[i] # node
  BY <1>1 DEF PathInv
<1>7. \A t \in DOMAIN tasks : colour'[t] = "gray" => \E i \in DOMAIN path' : path'[i] = t
  <2>1. SUFFICES ASSUME NEW t \in DOMAIN tasks, colour'[t] = "gray"
                 PROVE  \E i \in DOMAIN path' : path'[i] = t
    OBVIOUS
  <2>2. CASE t = node
    BY <1>3, <2>2
  <2>3. CASE t # node
    <3>1. PICK i \in DOMAIN path : path[i] = t
      BY <1>2, <2>1, <2>3 DEF PathInv
    <3> QED
      BY <1>3, <3>1
  <2> QED
    BY <2>2, <2>3
<1>8. \A i \in DOMAIN path' : i \in DOMAIN path \/ i = Len(path) + 1
  BY <1>3
<1>9. \A i \in DOMAIN path' : colour'[path'[i]] = "gray"
  BY <1>2, <1>3, <1>6, <1>8 DEF PathInv
<1>10. \A i, j \in DOMAIN path' : path'[i] = path'[j] => i = j
  BY <1>3, <1>6, <1>8 DEF PathInv
<1>11. \A i \in DOMAIN path' : i < Len(path') => path'[i + 1] \in Neighbours(path'[i])
  <2>1. SUFFICES ASSUME NEW i \in DOMAIN path', i < Len(path')
                 PROVE  path'[i + 1] \in Neighbours(path'[i])
    OBVIOUS
  <2>2. i \in DOMAIN path /\ path'[i] = path[i]
    BY <1>3, <2>1
  <2>3. CASE i = Len(path)
    <3>1. path # <<>>
      BY <2>2, <1>1
    <3> QED
      BY <1>3, <2>2, <2>3, <3>1 DEF At
  <2>4. CASE i # Len(path)
    <3>1. i + 1 \in DOMAIN path /\ i < Len(path)
      BY <2>2, <2>4
    <3> QED
      BY <1>3, <2>2, <3>1 DEF PathInv
  <2> QED
    BY <2>3, <2>4
<1>12. PathInv'
  BY <1>7, <1>9, <1>10, <1>11 DEF PathInv, Neighbours
<1> QED
  BY <1>2, <1>3, <1>5, <1>12

(* A node whose neighbours are black closes no cycle of black nodes.       *)
LEMMA FinishStep ==
  ASSUME CheckTypeOK, PathInv, BlackInv, Finish, UNCHANGED tasks
  PROVE  /\ colour' \in [DOMAIN tasks -> {"white", "gray", "black"}]
         /\ path' \in Seq(DOMAIN tasks)
         /\ PathInv' /\ BlackInv'
<1> USE PathFacts
<1> DEFINE last == Len(path)
<1>1. PICK node \in DOMAIN tasks :
        /\ node = At /\ path # <<>> /\ Neighbours(node) \subseteq Black
        /\ colour' = [colour EXCEPT ![node] = "black"]
        /\ path' = SubSeq(path, 1, last - 1)
  BY DEF Finish, Black, Neighbours
<1>2. colour \in [DOMAIN tasks -> {"white", "gray", "black"}] /\ path \in Seq(DOMAIN tasks)
  BY DEF CheckTypeOK
<1>3. /\ colour' \in [DOMAIN tasks -> {"white", "gray", "black"}]
      /\ \A t \in DOMAIN tasks : t # node => colour'[t] = colour[t]
      /\ colour'[node] = "black"
  BY <1>1, <1>2
<1>4. last \in Nat /\ last >= 1 /\ DOMAIN path = 1 .. last /\ path[last] = node
  BY <1>1 DEF At
<1>5. /\ path' \in Seq(DOMAIN tasks) /\ Len(path') = last - 1
      /\ DOMAIN path' = 1 .. (last - 1)
      /\ \A i \in DOMAIN path' : path'[i] = path[i] /\ i \in DOMAIN path /\ i # last
  <2> HIDE DEF last
  <2>1. \A i \in 1 .. (last - 1) : path[i] \in DOMAIN tasks
    BY <1>2, <1>4
  <2> QED
    BY <1>1, <1>2, <1>4, <2>1
<1> HIDE DEF last
<1>6. colour[node] = "gray" /\ node \notin Black
  BY <1>1, <1>4 DEF PathInv, Black
<1>7. Black' = Black \cup {node} /\ \A t \in DOMAIN tasks : Neighbours(t)' = Neighbours(t)
  BY <1>1, <1>3 DEF Black, Neighbours
<1>8. BlackInv'
  <2>1. \A t \in Black' : Neighbours(t)' \subseteq Black'
    BY <1>1, <1>7 DEF BlackInv, Black
  <2>2. ASSUME NEW S \in SUBSET (Black \cup {node}), Stuck(S)' PROVE FALSE
    <3>1. \A b \in S : \E a \in S : a \in Neighbours(b)
      BY <1>1, <1>7, <2>2 DEF Stuck, Black
    <3>2. node \notin Neighbours(node) /\ \A b \in Black : node \notin Neighbours(b)
      BY <1>1, <1>6 DEF BlackInv
    <3>3. Stuck(S \ {node})
      <4>1. S \ {node} # {}
        <5>1. PICK b \in S : TRUE
          BY <2>2 DEF Stuck
        <5>2. PICK a \in S : a \in Neighbours(b)
          BY <3>1
        <5> QED
          BY <3>2, <5>2
      <4> QED
        BY <3>1, <3>2, <4>1 DEF Stuck
    <3> QED
      BY <3>3 DEF BlackInv
  <2> QED
    BY <1>7, <2>1, <2>2 DEF BlackInv
<1>9. \A i \in DOMAIN path' : path'[i] \in DOMAIN tasks /\ path'[i] # node
  BY <1>4, <1>5 DEF PathInv
<1>10. ASSUME NEW t \in DOMAIN tasks, colour'[t] = "gray"
       PROVE  \E i \in DOMAIN path' : path'[i] = t
  <2>1. t # node /\ colour[t] = "gray"
    BY <1>3, <1>10
  <2>2. PICK i \in DOMAIN path : path[i] = t
    BY <2>1 DEF PathInv
  <2>3. i # last
    BY <2>1, <2>2, <1>4
  <2>4. i \in DOMAIN path'
    BY <1>4, <1>5, <2>2, <2>3
  <2> QED
    BY <1>5, <2>2, <2>4
<1>11. \A i \in DOMAIN path' : i < Len(path') => path'[i + 1] \in Neighbours(path'[i])
  <2>1. SUFFICES ASSUME NEW i \in DOMAIN path', i < Len(path')
                 PROVE  path'[i + 1] \in Neighbours(path'[i])
    OBVIOUS
  <2>2. i + 1 \in DOMAIN path' /\ i < last
    BY <1>4, <1>5, <2>1
  <2> QED
    BY <1>4, <1>5, <2>2 DEF PathInv
<1>12. PathInv'
  <2>1. \A i \in DOMAIN path' : colour'[path'[i]] = "gray"
    BY <1>3, <1>5, <1>9 DEF PathInv
  <2>2. \A i, j \in DOMAIN path' : path'[i] = path'[j] => i = j
    BY <1>5 DEF PathInv
  <2> QED
    BY <1>10, <1>11, <2>1, <2>2 DEF PathInv, Neighbours
<1> QED
  BY <1>3, <1>5, <1>8, <1>12

(* When the path meets itself, it is a cycle from there on.                *)
LEMMA MeetFindsCycle ==
  ASSUME CheckTypeOK, PathInv, MeetGray
  PROVE  \E S \in SUBSET DOMAIN tasks : Stuck(S)
<1> USE PathFacts
<1> DEFINE last == Len(path)
<1>1. PICK d \in Neighbours(At) : colour[d] = "gray"
  BY DEF MeetGray
<1>2. d \in DOMAIN tasks /\ path # <<>>
  BY <1>1 DEF Neighbours, MeetGray
<1>3. PICK k \in DOMAIN path : path[k] = d
  BY <1>1, <1>2 DEF PathInv
<1>4. last \in DOMAIN path /\ At = path[last] /\ DOMAIN path = 1 .. last /\ last \in Nat
  BY <1>2 DEF At
<1> DEFINE S == { path[i] : i \in k .. last }
<1>5. \A i \in k .. last : i \in DOMAIN path
  BY <1>3, <1>4
<1>6. S \in SUBSET DOMAIN tasks
  <2>1. \A i \in DOMAIN path : path[i] \in DOMAIN tasks
    BY DEF CheckTypeOK
  <2> QED
    BY <1>5, <2>1
<1>7. S # {} /\ d \in S
  BY <1>3, <1>4
<1>8. ASSUME NEW b \in S PROVE \E a \in S : a \in Neighbours(b)
  <2>1. PICK i \in k .. last : b = path[i]
    OBVIOUS
  <2>2. CASE i = last
    BY <1>1, <1>4, <1>7, <2>1, <2>2
  <2>3. CASE i # last
    <3>1. i + 1 \in k .. last /\ i < last
      <4> HIDE DEF last
      <4>1. k \in 1 .. last /\ last \in Nat
        BY <1>3, <1>4
      <4> QED
        BY <2>1, <2>3, <4>1
    <3>2. path[i + 1] \in Neighbours(path[i])
      BY <1>5, <3>1 DEF PathInv
    <3> QED
      BY <2>1, <3>1, <3>2
  <2> QED
    BY <2>2, <2>3
<1> QED
  BY <1>6, <1>7, <1>8 DEF Stuck

LEMMA NeighboursAreIncoming ==
  ASSUME NEW b \in DOMAIN tasks
  PROVE  Neighbours(b) \subseteq Incoming(tasks, b)
  BY DEF Neighbours, Incoming, Edge

LEMMA SearchInit == CheckInit => SearchInv
<1> SUFFICES ASSUME CheckInit PROVE SearchInv
  OBVIOUS
<1>1. TypeOK /\ remaining = DOMAIN tasks /\ ~cyclic
  BY PlannerInit DEF CheckInit, PlannerInv, Init
<1>2. /\ colour = [t \in DOMAIN tasks |-> "white"] /\ path = <<>> /\ found = FALSE
  BY DEF CheckInit
<1>3. CheckTypeOK
  <2>1. colour \in [DOMAIN tasks -> {"white", "gray", "black"}]
    BY <1>2
  <2>2. <<>> \in Seq(DOMAIN tasks)
    OBVIOUS
  <2> QED
    BY <1>1, <1>2, <2>1, <2>2 DEF CheckTypeOK
<1>4. DOMAIN path = {} /\ Black = {}
  BY <1>2 DEF Black
<1>5. PathInv
  BY <1>2, <1>4 DEF PathInv
<1>6. BlackInv
  BY <1>4 DEF BlackInv, Stuck
<1> QED
  BY <1>1, <1>2, <1>3, <1>5, <1>6 DEF SearchInv, AgreeInv

(* The search.                                                             *)
LEMMA SearchStep ==
  ASSUME SearchInv, Search, UNCHANGED vars
  PROVE  SearchInv'
<1>1. CheckTypeOK /\ PathInv /\ BlackInv /\ TypeOK /\ TypeOK'
  BY DEF SearchInv, CheckTypeOK, TypeOK, vars
<1>2. UNCHANGED <<tasks, remaining, cyclic>> /\ ~found /\ remaining = DOMAIN tasks /\ ~cyclic
  <2>1. ~Checked
    <3>1. \E t \in DOMAIN tasks : colour[t] # "black"
      <4>1. CASE Begin
        BY <4>1 DEF Begin, Enter
      <4>2. CASE path # <<>>
        <5>1. At \in DOMAIN tasks /\ colour[At] = "gray"
          BY <1>1, <4>2, PathFacts DEF PathInv, At
        <5> QED
          BY <5>1
      <4> QED
        BY <4>1, <4>2 DEF Search, Descend, MeetGray, Finish
    <3>2. ~found
      BY DEF Search, Begin, Descend, MeetGray, Finish
    <3> QED
      BY <3>1, <3>2 DEF Checked
  <2> QED
    BY <2>1 DEF SearchInv, AgreeInv, Checked, vars
<1>3. ASSUME NEW node \in DOMAIN tasks, Enter(node), path # <<>> => node \in Neighbours(At)
      PROVE  SearchInv'
  <2>1. /\ colour' \in [DOMAIN tasks -> {"white", "gray", "black"}]
        /\ path' \in Seq(DOMAIN tasks) /\ PathInv' /\ BlackInv'
    BY <1>1, <1>2, <1>3, EnterStep
  <2>2. found' = found
    BY <1>3 DEF Enter
  <2> QED
    BY <1>1, <1>2, <2>1, <2>2 DEF SearchInv, CheckTypeOK, AgreeInv, Checked
<1>4. CASE Begin
  BY <1>3, <1>4 DEF Begin
<1>5. CASE Descend
  BY <1>3, <1>5 DEF Descend, Neighbours
<1>6. CASE MeetGray
  <2>1. PICK S \in SUBSET DOMAIN tasks : Stuck(S)
    BY <1>1, <1>6, MeetFindsCycle
  <2>2. UNCHANGED <<colour, path, tasks>> /\ found' = TRUE
    BY <1>2, <1>6 DEF MeetGray
  <2>3. Stuck(S)' /\ S \subseteq remaining'
    BY <1>2, <2>1, <2>2 DEF Stuck, Neighbours
  <2>4. CheckTypeOK'
    BY <1>1, <2>2 DEF CheckTypeOK
  <2>5. PathInv'
    BY <1>1, <2>2 DEF PathInv, Neighbours
  <2>6. BlackInv'
    BY <1>1, <2>2 DEF BlackInv, Black, Stuck, Neighbours
  <2>7. AgreeInv'
    BY <1>2, <2>2, <2>3 DEF AgreeInv, Checked
  <2> QED
    BY <2>4, <2>5, <2>6, <2>7 DEF SearchInv
<1>7. CASE Finish
  <2>1. /\ colour' \in [DOMAIN tasks -> {"white", "gray", "black"}]
        /\ path' \in Seq(DOMAIN tasks) /\ PathInv' /\ BlackInv'
    BY <1>1, <1>2, <1>7, FinishStep
  <2>2. found' = found
    BY <1>7 DEF Finish
  <2> QED
    BY <1>1, <1>2, <2>1, <2>2 DEF SearchInv, CheckTypeOK, AgreeInv, Checked
<1> QED
  BY <1>4, <1>5, <1>6, <1>7 DEF Search

(* The planner, which places nothing of a cycle and gives up on nothing
   else.                                                                   *)
LEMMA PlanStep ==
  ASSUME SearchInv, Checked, Next, UNCHANGED searchVars
  PROVE  SearchInv'
<1>1. CheckTypeOK /\ PathInv /\ BlackInv /\ TypeOK
  BY DEF SearchInv, CheckTypeOK
<1>2. UNCHANGED <<tasks, colour, path, found>> /\ TypeOK'
  BY <1>1, TypeStep DEF searchVars, Next, PlaceBatch, CycleFallback
<1>3. /\ CheckTypeOK' /\ (Checked' <=> Checked)
      /\ \A b \in DOMAIN tasks : Neighbours(b)' = Neighbours(b)
  BY <1>1, <1>2 DEF CheckTypeOK, Checked, Neighbours
<1>4. PathInv'
  BY <1>1, <1>2 DEF PathInv, Neighbours
<1>5. BlackInv'
  BY <1>1, <1>2 DEF BlackInv, Black, Stuck, Neighbours
<1>6. found' => \E S \in SUBSET DOMAIN tasks : Stuck(S)' /\ (cyclic' \/ S \subseteq remaining')
  <2>1. SUFFICES ASSUME found
                 PROVE  \E S \in SUBSET DOMAIN tasks : Stuck(S)' /\ (cyclic' \/ S \subseteq remaining')
    BY <1>2
  <2>2. PICK S \in SUBSET DOMAIN tasks : Stuck(S) /\ (cyclic \/ S \subseteq remaining)
    BY <2>1 DEF SearchInv, AgreeInv
  <2>3. Stuck(S)'
    BY <1>3, <2>2 DEF Stuck
  <2>4. CASE CycleFallback
    BY <2>3, <2>4 DEF CycleFallback
  <2>5. CASE PlaceBatch
    <3>1. cyclic' = cyclic /\ remaining' = remaining \ Ready
      BY <2>5 DEF PlaceBatch
    <3>2. ASSUME S \subseteq remaining PROVE S \cap Ready = {}
      <4>1. SUFFICES ASSUME NEW b \in S, b \in Ready PROVE FALSE
        OBVIOUS
      <4>2. PICK a \in S : a \in Neighbours(b)
        BY <2>2 DEF Stuck
      <4>3. a \in Incoming(tasks, b) \cap remaining
        BY <3>2, <4>2, NeighboursAreIncoming
      <4> QED
        BY <4>1, <4>3 DEF Ready
    <3> QED
      BY <2>2, <2>3, <3>1, <3>2
  <2> QED
    BY <2>4, <2>5 DEF Next
<1>7. cyclic' /\ DeclaredOnly(tasks) => found
  <2>1. SUFFICES ASSUME cyclic', DeclaredOnly(tasks), ~found PROVE FALSE
    OBVIOUS
  <2>2. CycleFallback
    BY <2>1 DEF Next, PlaceBatch, SearchInv, AgreeInv
  <2>3. remaining # {} /\ Ready = {} /\ remaining \subseteq DOMAIN tasks
    BY <1>1, <2>2 DEF CycleFallback, TypeOK
  <2>4. Stuck(remaining)
    <3>1. ASSUME NEW b \in remaining PROVE \E a \in remaining : a \in Neighbours(b)
      <4>1. PICK a \in Incoming(tasks, b) : a \in remaining
        BY <2>3 DEF Ready
      <4>2. a \in Neighbours(b)
        BY <2>1, <2>3, <4>1 DEF DeclaredOnly, Incoming, Neighbours
      <4> QED
        BY <4>1, <4>2
    <3> QED
      BY <2>3, <3>1 DEF Stuck
  <2>5. remaining \in SUBSET Black
    BY <2>1, <2>3 DEF Checked, Black
  <2> QED
    BY <1>1, <2>4, <2>5 DEF BlackInv
<1>8. AgreeInv'
  BY <1>2, <1>3, <1>6, <1>7 DEF AgreeInv
<1> QED
  BY <1>3, <1>4, <1>5, <1>8 DEF SearchInv

LEMMA CheckStep == SearchInv /\ [CheckNext]_checkVars => SearchInv'
<1> SUFFICES ASSUME SearchInv, [CheckNext]_checkVars PROVE SearchInv'
  OBVIOUS
<1>1. CASE Search /\ UNCHANGED vars
  BY <1>1, SearchStep
<1>2. CASE Checked /\ Next /\ UNCHANGED searchVars
  BY <1>2, PlanStep
<1>3. CASE UNCHANGED checkVars
  <2>1. UNCHANGED <<tasks, remaining, batches, cyclic, colour, path, found>>
    BY <1>3 DEF checkVars, vars, searchVars
  <2>2. CheckTypeOK'
    BY <2>1 DEF SearchInv, CheckTypeOK, TypeOK
  <2>3. PathInv'
    BY <2>1 DEF SearchInv, PathInv, Neighbours
  <2>4. BlackInv'
    BY <2>1 DEF SearchInv, BlackInv, Black, Stuck, Neighbours
  <2>5. AgreeInv'
    BY <2>1 DEF SearchInv, AgreeInv, Checked, Stuck, Neighbours
  <2> QED
    BY <2>2, <2>3, <2>4, <2>5 DEF SearchInv
<1> QED
  BY <1>1, <1>2, <1>3 DEF CheckNext

-----------------------------------------------------------------------------
(* The planner that runs after the check is the planner: what is proved of
   it alone holds of it here.                                              *)
THEOREM CheckedPlannerIsPlanner == CheckSpec => Init /\ [][Next]_vars
<1>1. CheckInit => Init
  BY DEF CheckInit
<1>2. [CheckNext]_checkVars => [Next]_vars
  BY DEF CheckNext, checkVars
<1> QED
  BY <1>1, <1>2, PTL DEF CheckSpec

(* The variables have their types (CheckTypeOK).                           *)
THEOREM CheckTypes == CheckSpec => []CheckTypeOK
<1>1. SearchInv => CheckTypeOK
  BY DEF SearchInv
<1> QED
  BY <1>1, SearchInit, CheckStep, PTL DEF CheckSpec

(* The checker and the planner agree (CyclesAreReported): of every list of
   tasks, a cycle the checker reports is one the planner cannot order, and
   a list it cannot order for its declared dependencies alone is reported.  *)
THEOREM CheckerAndPlannerAgree == CheckSpec => []CyclesAreReported
<1>1. SearchInv => CyclesAreReported
  <2>1. SUFFICES ASSUME SearchInv, Checked, remaining = {} PROVE CyclesAreReported
    BY DEF CyclesAreReported
  <2>2. found => cyclic
    BY <2>1 DEF SearchInv, AgreeInv, Stuck
  <2>3. cyclic /\ DeclaredOnly(tasks) => found
    BY <2>1 DEF SearchInv, AgreeInv
  <2> QED
    BY <2>2, <2>3 DEF CyclesAreReported, Logical
<1> QED
  BY <1>1, SearchInit, CheckStep, PTL DEF CheckSpec

(* What the run checks of the planner, of the planner after the check.     *)
THEOREM CheckedPlansAreSound ==
  CheckSpec => [](IsAPlan /\ PlanIsTight)
<1>1. Init => PlannerInv /\ NoWaitInv /\ ForwardNeverCyclic
  <2>1. Init => NoWaitInv
    BY PlannerInit DEF Init, NoWaitInv, PlannerInv, HeldBack, NoNeedlessWait, Ordered
  <2>2. Init => ForwardNeverCyclic
    BY DEF Init, ForwardNeverCyclic
  <2> QED
    BY <2>1, <2>2, PlannerInit
<1>2. PlannerInv => TypeOK /\ IsAPlan
  BY DEF PlannerInv, IsAPlan
<1>3. NoWaitInv /\ ForwardNeverCyclic => PlanIsTight
  BY DEF NoWaitInv, PlanIsTight
<1> QED
  BY <1>1, <1>2, <1>3, PlannerStep, NoWaitStep, ForwardStep, CheckedPlannerIsPlanner, PTL
=============================================================================
