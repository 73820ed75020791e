--------------------------- MODULE PeripheryProofs ---------------------------
(***************************************************************************)
(* Theorems about the programs around the runs, which share nothing: the   *)
(* worker isolator, the tools of the MCP server, the release readiness     *)
(* gate, the plans that are executed, the delivery of a group, and the     *)
(* reviews by section and by people; then about what one run checks of all *)
(* of them.                                                                *)
(***************************************************************************)
EXTENDS Periphery, WellFoundedInduction, FiniteSetTheorems, SequenceTheorems, TLAPS

-----------------------------------------------------------------------------
(* Worktrees.  Where git has put something, its record says which branch, a
   branch is on record once, and a worktree made for a worker is there.     *)
OnRecord ==
  \A root \in Roots : tree[root].is \in {"partial", "checkout"} =>
    /\ tree[root].branch \in branches
    /\ registered[root] = tree[root].branch
RecordedOnce ==
  \A r, s \in Roots : registered[r] = registered[s] /\ registered[r] # NoBranch => r = s
FreshIsThere ==
  \A w \in Workers : Fresh(w) =>
    /\ tree[call[w].root] = Checkout(call[w].branch)
    /\ \A v \in Workers \ {w} : Fresh(v) => call[v].root # call[w].root

(* A home: what a call has gone through is there.                          *)
HomeHas(name) == parent[name] # "absent" => name \in home
LinkedSoFar ==
  \A w \in Workers :
    /\ homecall[w].at = "linking" =>
         \A name \in Names : name \notin homecall[w].left \cup homecall[w].linking => HomeHas(name)
    /\ homecall[w].at = "ready" => private /\ \A name \in Names : HomeHas(name)

IsolationInv == IsolationTypeOK /\ OnRecord /\ RecordedOnce /\ FreshIsThere /\ LinkedSoFar

LEMMA IsolationStart == IsolationInit => IsolationInv
<1> SUFFICES ASSUME IsolationInit PROVE IsolationInv
  OBVIOUS
<1> USE IsolationAssumption
<1>1. IsolationTypeOK
  <2>1. tree \in [Roots -> TreeKinds]
    BY DEF IsolationInit, Nothing, Other, TreeKinds
  <2>2. homecall \in [Workers -> {NoHome}] /\ call \in [Workers -> {NoCall}]
    BY DEF IsolationInit
  <2>3. registered \in [Roots -> Branches \cup {NoBranch}] /\ calls \in 0..MaxCalls
    BY DEF IsolationInit
  <2> QED
    BY <2>1, <2>2, <2>3 DEF IsolationInit, IsolationTypeOK
<1>2. OnRecord /\ RecordedOnce /\ FreshIsThere /\ LinkedSoFar
  BY DEF IsolationInit, OnRecord, RecordedOnce, FreshIsThere, LinkedSoFar, Nothing, Other,
         NoCall, NoHome, Fresh
<1> QED
  BY <1>1, <1>2 DEF IsolationInv

(* What the type of a call gives.                                          *)
LEMMA CallFields ==
  ASSUME IsolationTypeOK, NEW w \in Workers, call[w].at # "idle"
  PROVE  /\ call[w] \in Calls
         /\ call[w].root \in Roots /\ call[w].branch \in Branches
         /\ call[w].branch # NoBranch
BY IsolationAssumption DEF IsolationTypeOK, Calls, NoCall

LEMMA IsolationTypesStep == IsolationTypeOK /\ [IsolationNext]_isolationVars => IsolationTypeOK'
<1> SUFFICES ASSUME IsolationTypeOK, [IsolationNext]_isolationVars PROVE IsolationTypeOK'
  OBVIOUS
<1> USE IsolationAssumption
<1>1. ASSUME NEW w \in Workers, NEW root \in Roots, NEW branch \in Branches,
             NEW reuse \in BOOLEAN, Begin(w, root, branch, reuse)
      PROVE  IsolationTypeOK'
  BY <1>1 DEF IsolationTypeOK, Begin, Calls, homeVars
<1>2. ASSUME NEW w \in Workers, Look(w) \/ List(w) \/ GitFails(w) PROVE IsolationTypeOK'
  <2>1. call[w] \in Calls
    BY <1>2, CallFields DEF Look, List, GitFails
  <2> QED
    BY <1>2, <2>1 DEF IsolationTypeOK, Look, List, GitFails, Goes, Calls, homeVars
<1>3. ASSUME NEW w \in Workers, Claim(w) \/ GitFinishes(w) PROVE IsolationTypeOK'
  <2>1. call[w] \in Calls
    BY <1>3, CallFields DEF Claim, GitFinishes
  <2>2. Partial(call[w].branch) \in TreeKinds /\ Checkout(call[w].branch) \in TreeKinds
    BY <2>1 DEF Partial, Checkout, TreeKinds, Calls
  <2>3. /\ tree' \in [Roots -> TreeKinds] /\ registered' \in [Roots -> Branches \cup {NoBranch}]
        /\ branches' \in SUBSET Branches
    BY <1>3, <2>1, <2>2 DEF IsolationTypeOK, Claim, GitFinishes, Calls
  <2>4. call' \in [Workers -> Calls \cup {NoCall}]
    BY <1>3, <2>1 DEF IsolationTypeOK, Claim, GitFinishes, Goes, Calls
  <2> QED
    BY <1>3, <2>3, <2>4 DEF IsolationTypeOK, Claim, GitFinishes, homeVars
<1>4. ASSUME NEW w \in Workers,
             \/ \E env_inside \in BOOLEAN : BeginHome(w, env_inside)
             \/ (\E name \in Names : CheckName(w, name)) \/ Link(w) \/ MakePrivate(w)
      PROVE  IsolationTypeOK'
  <2> DEFINE HomeCalls == [at : {"linking", "raised", "ready"}, left : SUBSET Names, linking : SUBSET Names]
  <2>1. CASE \E env_inside \in BOOLEAN : BeginHome(w, env_inside)
    BY <2>1 DEF IsolationTypeOK, BeginHome, treeVars
  <2>2. ASSUME ~(\E env_inside \in BOOLEAN : BeginHome(w, env_inside)) PROVE homecall[w] \in HomeCalls
    BY <1>4, <2>2 DEF IsolationTypeOK, CheckName, Link, MakePrivate, NoHome
  <2>3. CASE \E name \in Names : CheckName(w, name)
    BY <2>1, <2>2, <2>3 DEF IsolationTypeOK, CheckName, treeVars
  <2>4. CASE Link(w)
    BY <2>1, <2>2, <2>4 DEF IsolationTypeOK, Link, treeVars
  <2>5. CASE MakePrivate(w)
    BY <2>1, <2>2, <2>5 DEF IsolationTypeOK, MakePrivate, treeVars
  <2> QED
    BY <1>4, <2>1, <2>3, <2>4, <2>5
<1>5. ASSUME NEW root \in Roots, cleanup_worktree(root) PROVE IsolationTypeOK'
  BY <1>5 DEF IsolationTypeOK, cleanup_worktree, Nothing, TreeKinds, homeVars
<1>6. CASE Prune
  BY <1>6 DEF IsolationTypeOK, Prune, homeVars
<1>7. CASE UNCHANGED isolationVars
  BY <1>7 DEF IsolationTypeOK, isolationVars, treeVars, homeVars
<1> QED
  BY <1>1, <1>2, <1>3, <1>4, <1>5, <1>6, <1>7 DEF IsolationNext

LEMMA WorktreesStep ==
  ASSUME IsolationTypeOK, OnRecord, RecordedOnce, FreshIsThere, [IsolationNext]_isolationVars
  PROVE  OnRecord' /\ RecordedOnce' /\ FreshIsThere'
<1> USE IsolationAssumption
<1>1. ASSUME NEW w \in Workers, NEW root \in Roots, NEW branch \in Branches,
             NEW reuse \in BOOLEAN, Begin(w, root, branch, reuse)
      PROVE  OnRecord' /\ RecordedOnce' /\ FreshIsThere'
  <2>1. \A v \in Workers : Fresh(v)' => Fresh(v) /\ call'[v] = call[v]
    BY <1>1 DEF Begin, Fresh, IsolationTypeOK
  <2> QED
    BY <1>1, <2>1 DEF Begin, OnRecord, RecordedOnce, FreshIsThere
<1>2. ASSUME NEW w \in Workers, Look(w) \/ List(w) \/ GitFails(w)
      PROVE  OnRecord' /\ RecordedOnce' /\ FreshIsThere'
  <2>1. call[w] \in Calls
    BY <1>2, CallFields DEF Look, List, GitFails
  <2>2. \A v \in Workers : Fresh(v)' => Fresh(v) /\ call'[v] = call[v]
    BY <1>2, <2>1 DEF Look, List, GitFails, Goes, Fresh, IsolationTypeOK, Calls
  <2> QED
    BY <1>2, <2>2 DEF Look, List, GitFails, OnRecord, RecordedOnce, FreshIsThere
<1>3. ASSUME NEW w \in Workers, Claim(w) PROVE OnRecord' /\ RecordedOnce' /\ FreshIsThere'
  <2> DEFINE r == call[w].root
             b == call[w].branch
  <2>1. r \in Roots /\ b \in Branches /\ b # NoBranch /\ call[w] \in Calls
    BY <1>3, CallFields DEF Claim
  <2>2. \A v \in Workers : Fresh(v)' => Fresh(v) /\ call'[v] = call[v]
    BY <1>3, <2>1 DEF Claim, Goes, Fresh, IsolationTypeOK, Calls
  <2>3. OnRecord'
    BY <1>3, <2>1 DEF Claim, OnRecord, IsolationTypeOK, Partial
  <2>4. RecordedOnce'
    BY <1>3, <2>1 DEF Claim, GitAccepts, RecordedOnce, IsolationTypeOK
  <2>5. ASSUME NEW v \in Workers, Fresh(v)
        PROVE  call[v].root # r
    <3>1. tree[call[v].root] = Checkout(call[v].branch)
      BY <2>5 DEF FreshIsThere
    <3>2. tree[r].is = "none"
      BY <1>3 DEF Claim, GitAccepts, Nothing
    <3> QED
      BY <3>1, <3>2 DEF Checkout
  <2>6. ASSUME NEW v \in Workers, Fresh(v)
        PROVE  tree'[call[v].root] = tree[call[v].root]
    <3>1. call[v].root \in Roots
      BY <2>6, CallFields DEF Fresh
    <3> QED
      BY <1>3, <2>1, <2>5, <2>6, <3>1 DEF Claim, IsolationTypeOK
  <2>7. FreshIsThere'
    BY <2>2, <2>6 DEF FreshIsThere
  <2> QED
    BY <2>3, <2>4, <2>7
<1>4. ASSUME NEW w \in Workers, GitFinishes(w) PROVE OnRecord' /\ RecordedOnce' /\ FreshIsThere'
  <2> DEFINE r == call[w].root
             b == call[w].branch
  <2>1. r \in Roots /\ b \in Branches /\ b # NoBranch /\ call[w] \in Calls
    BY <1>4, CallFields DEF GitFinishes
  <2>2. OnRecord'
    BY <1>4, <2>1 DEF GitFinishes, OnRecord, IsolationTypeOK, Partial, Checkout
  <2>3. RecordedOnce'
    BY <1>4 DEF GitFinishes, RecordedOnce
  <2>4. /\ call'[w].root = r /\ call'[w].branch = b
        /\ \A v \in Workers \ {w} : call'[v] = call[v]
    BY <1>4, <2>1 DEF GitFinishes, Goes, IsolationTypeOK, Calls
  <2>5. ASSUME NEW v \in Workers \ {w}, Fresh(v)
        PROVE  /\ call[v].root # r
               /\ tree'[call[v].root] = tree[call[v].root]
    <3>1. call[v].root \in Roots
      BY <2>5, CallFields DEF Fresh
    <3>2. call[v].root # r
      <4>1. tree[call[v].root] = Checkout(call[v].branch)
        BY <2>5 DEF FreshIsThere
      <4>2. tree[r].is = "partial"
        BY <1>4 DEF GitFinishes, Partial
      <4> QED
        BY <4>1, <4>2 DEF Checkout
    <3> QED
      BY <1>4, <2>1, <3>1, <3>2 DEF GitFinishes, IsolationTypeOK
  <2>6. tree'[r] = Checkout(b)
    BY <1>4, <2>1 DEF GitFinishes, IsolationTypeOK
  <2>7. FreshIsThere'
    <3> SUFFICES ASSUME NEW u \in Workers, Fresh(u)'
                 PROVE  /\ tree'[call'[u].root] = Checkout(call'[u].branch)
                        /\ \A v \in Workers \ {u} : Fresh(v)' => call'[v].root # call'[u].root
      BY DEF FreshIsThere
    <3>1. \A v \in Workers \ {w} : Fresh(v)' => Fresh(v)
      BY <2>4 DEF Fresh
    <3>2. CASE u = w
      BY <2>4, <2>5, <2>6, <3>1, <3>2
    <3>3. CASE u # w
      BY <2>4, <2>5, <3>1, <3>3 DEF FreshIsThere
    <3> QED
      BY <3>2, <3>3
  <2> QED
    BY <2>2, <2>3, <2>7
<1>5. ASSUME NEW root \in Roots, cleanup_worktree(root)
      PROVE  OnRecord' /\ RecordedOnce' /\ FreshIsThere'
  <2>1. OnRecord' /\ RecordedOnce'
    BY <1>5 DEF cleanup_worktree, OnRecord, RecordedOnce, IsolationTypeOK, Nothing
  <2>2. ASSUME NEW v \in Workers, Fresh(v)'
        PROVE  Fresh(v) /\ call'[v] = call[v] /\ tree'[call[v].root] = tree[call[v].root]
    <3>1. Fresh(v) /\ call'[v] = call[v] /\ call[v].root # root
      BY <1>5, <2>2 DEF cleanup_worktree, Fresh, NoCall
    <3>2. call[v].root \in Roots
      BY <3>1, CallFields DEF Fresh
    <3> QED
      BY <1>5, <3>1, <3>2 DEF cleanup_worktree, IsolationTypeOK
  <2> QED
    BY <2>1, <2>2 DEF FreshIsThere
<1>6. CASE Prune
  <2>1. OnRecord' /\ RecordedOnce'
    BY <1>6 DEF Prune, OnRecord, RecordedOnce, Nothing
  <2> QED
    BY <1>6, <2>1 DEF Prune, FreshIsThere, Fresh
<1>7. CASE UNCHANGED treeVars
  BY <1>7 DEF treeVars, OnRecord, RecordedOnce, FreshIsThere, Fresh
<1>8. ASSUME NEW w \in Workers,
             \/ \E env_inside \in BOOLEAN : BeginHome(w, env_inside)
             \/ (\E name \in Names : CheckName(w, name)) \/ Link(w) \/ MakePrivate(w)
      PROVE  UNCHANGED treeVars
  BY <1>8 DEF BeginHome, CheckName, Link, MakePrivate
<1> QED
  BY <1>1, <1>2, <1>3, <1>4, <1>5, <1>6, <1>7, <1>8 DEF IsolationNext, isolationVars

LEMMA HomesStep ==
  ASSUME IsolationTypeOK, LinkedSoFar, [IsolationNext]_isolationVars
  PROVE  LinkedSoFar'
<1>1. ASSUME NEW w \in Workers, NEW env_inside \in BOOLEAN, BeginHome(w, env_inside) PROVE LinkedSoFar'
  BY <1>1 DEF BeginHome, LinkedSoFar, HomeHas, IsolationTypeOK
<1>2. ASSUME NEW w \in Workers, NEW name \in Names, CheckName(w, name) PROVE LinkedSoFar'
  BY <1>2 DEF CheckName, LinkedSoFar, HomeHas, IsolationTypeOK, NoHome
<1>3. ASSUME NEW w \in Workers, Link(w) PROVE LinkedSoFar'
  BY <1>3 DEF Link, LinkedSoFar, HomeHas, IsolationTypeOK, NoHome
<1>4. ASSUME NEW w \in Workers, MakePrivate(w) PROVE LinkedSoFar'
  BY <1>4 DEF MakePrivate, LinkedSoFar, HomeHas, IsolationTypeOK, NoHome
<1>5. CASE UNCHANGED homeVars
  BY <1>5 DEF homeVars, LinkedSoFar, HomeHas
<1>6. CASE \/ \E w \in Workers :
                \/ \E root \in Roots, branch \in Branches, reuse \in BOOLEAN : Begin(w, root, branch, reuse)
                \/ Look(w) \/ List(w) \/ Claim(w) \/ GitFinishes(w) \/ GitFails(w)
           \/ \E root \in Roots : cleanup_worktree(root)
           \/ Prune
  <2>1. UNCHANGED homeVars
    BY <1>6 DEF Begin, Look, List, Claim, GitFinishes, GitFails, cleanup_worktree, Prune
  <2> QED
    BY <2>1, <1>5
<1> QED
  BY <1>1, <1>2, <1>3, <1>4, <1>5, <1>6 DEF IsolationNext, isolationVars

LEMMA IsolationInductive == IsolationSpec => []IsolationInv
<1>1. IsolationInv /\ [IsolationNext]_isolationVars => IsolationInv'
  BY IsolationTypesStep, WorktreesStep, HomesStep DEF IsolationInv
<1> QED
  BY <1>1, IsolationStart, PTL DEF IsolationSpec

(* The types of WorkerIsolation.                                           *)
THEOREM IsolationTypes == IsolationSpec => []IsolationTypeOK
<1>1. IsolationInv => IsolationTypeOK
  BY DEF IsolationInv
<1> QED
  BY <1>1, IsolationInductive, PTL

(* Worktrees that were made for workers are apart, for any number of
   workers, roots and branches: two that are there are at two roots, the
   record of each root names its branch, and no branch is on record twice. *)
THEOREM WorkersAreApart == IsolationSpec => []FreshWorktreesApart
<1>1. ASSUME IsolationInv PROVE FreshWorktreesApart
  <2> USE <1>1 DEF IsolationInv
  <2> SUFFICES ASSUME NEW w \in Workers, Fresh(w)
               PROVE  /\ tree[call[w].root] = Checkout(call[w].branch)
                      /\ call[w].branch \in branches
                      /\ \A v \in Workers \ {w} : Fresh(v) =>
                           call[v].root # call[w].root /\ call[v].branch # call[w].branch
    BY DEF FreshWorktreesApart
  <2>1. ASSUME NEW v \in Workers, Fresh(v)
        PROVE  /\ call[v].root \in Roots /\ call[v].branch # NoBranch
               /\ tree[call[v].root] = Checkout(call[v].branch)
               /\ registered[call[v].root] = call[v].branch
               /\ call[v].branch \in branches
    <3>1. call[v].root \in Roots /\ call[v].branch # NoBranch
      BY <2>1, CallFields DEF Fresh
    <3> QED
      BY <2>1, <3>1 DEF FreshIsThere, OnRecord, Checkout
  <2> QED
    BY <2>1 DEF FreshIsThere, RecordedOnce
<1> QED
  BY <1>1, IsolationInductive, PTL

(* A home that is ready is complete, whoever else prepared it or gave up.  *)
THEOREM HomesAreComplete == IsolationSpec => []ReadyHomesAreComplete
<1>1. IsolationInv => ReadyHomesAreComplete
  BY DEF IsolationInv, LinkedSoFar, HomeHas, ReadyHomesAreComplete
<1> QED
  BY <1>1, IsolationInductive, PTL

-----------------------------------------------------------------------------
(* Requests.  Whoever asks is who the table says, had the scope of the tool
   when the request came in, and is the caller for as long as it is handled. *)
Granted ==
  IF server.registry
  THEN /\ request.token \in DOMAIN server.table
       /\ received.time < server.table[request.token].expires_at
       /\ TOOL_SCOPES[request.tool] \in server.table[request.token].scopes
       /\ current_caller = Identity(server.table[request.token])
  ELSE /\ server.shared # NoToken => request.token = server.shared
       /\ current_caller = LegacyIdentity
HandledIsGranted ==
  at # "idle" =>
    /\ server.up /\ request.method = "tools/call" /\ ~request.notification
    /\ request.tool \in ToolNames
    /\ Granted
PathIsSafe == at \in {"gate", "working"} => request.path = "project" \/ request.tool \notin ChecksPath

(* What is applied was allowed, and the log has it.                        *)
Logged(e) ==
  \E i \in DOMAIN audit :
    audit[i] = [n |-> e.n, caller |-> e.caller, tool |-> e.tool, decision |-> "allowed"]
AppliedWasAllowed ==
  /\ at = "gate" => Applies(request)
  /\ at = "working" /\ Applies(request) => Allowed /\ Logged(Effect)
EffectsAreLogged == \A e \in effects : e.applied => Logged(e)

(* A request that has not come past the gate is not in the log.            *)
DecidedOnce ==
  /\ \A i \in DOMAIN audit : audit[i].n <= received.n
  /\ at \in {"preflight", "gate"} => \A i \in DOMAIN audit : audit[i].n # received.n
  /\ \A i, j \in DOMAIN audit : audit[i].n = audit[j].n => i = j

OneAtATime == /\ at # "idle" => received.n > 0
              /\ ~server.up => at = "idle"

McpToolsInv == /\ McpToolsTypeOK /\ HandledIsGranted /\ PathIsSafe /\ AppliedWasAllowed
               /\ EffectsAreLogged /\ DecidedOnce /\ OneAtATime

(* Of several entries of a token there is a last one.                      *)
LEMMA TabledType ==
  ASSUME NEW entries \in Seq(Entry)
  PROVE  /\ DOMAIN Tabled(entries) \subseteq Tokens
         /\ \A token \in DOMAIN Tabled(entries) :
              Tabled(entries)[token] \in Entry /\ Tabled(entries)[token].token = token
<1> DEFINE Of(token) == { i \in DOMAIN entries : entries[i].token = token }
           IsLast(token, i) == /\ entries[i].token = token
                               /\ \A j \in DOMAIN entries : entries[j].token = token => j <= i
           last(token) == CHOOSE i \in DOMAIN entries : IsLast(token, i)
<1>1. \A i \in DOMAIN entries : i \in Nat /\ i <= Len(entries) /\ entries[i] \in Entry
  OBVIOUS
<1>2. ASSUME NEW k \in DOMAIN entries
      PROVE  \E i \in DOMAIN entries : IsLast(entries[k].token, i)
  <2> DEFINE T == { Len(entries) - i : i \in Of(entries[k].token) }
  <2>1. T \subseteq Nat /\ T # {}
    BY <1>1
  <2>2. PICK d \in T : \A y \in T : <<y, d>> \notin OpToRel(<, Nat)
    BY <2>1, WFMin, NatLessThanWellFounded
  <2>3. PICK i \in Of(entries[k].token) : d = Len(entries) - i
    OBVIOUS
  <2>4. ASSUME NEW j \in DOMAIN entries, entries[j].token = entries[k].token PROVE j <= i
    <3>1. Len(entries) - j \in T
      BY <2>4
    <3>2. ~(Len(entries) - j < d)
      BY <2>1, <2>2, <3>1 DEF OpToRel
    <3> QED
      BY <1>1, <2>3, <3>2
  <2> QED
    BY <2>3, <2>4
<1> HIDE DEF IsLast
<1>3. ASSUME NEW k \in DOMAIN entries
      PROVE  last(entries[k].token) \in DOMAIN entries /\ IsLast(entries[k].token, last(entries[k].token))
  BY <1>2
<1> USE DEF IsLast
<1> HIDE DEF last
<1>4. ASSUME NEW k \in DOMAIN entries
      PROVE  LET e == entries[last(entries[k].token)] IN e \in Entry /\ e.token = entries[k].token
  BY <1>1, <1>3
<1>5. \A k \in DOMAIN entries : entries[k].token \in Tokens
  BY <1>1 DEF Entry
<1>6. Tabled(entries) = [token \in { entries[i].token : i \in DOMAIN entries } |-> entries[last(token)]]
  BY DEF Tabled, last
<1> QED
  BY <1>4, <1>5, <1>6

LEMMA McpToolsStart == ServerInit => McpToolsInv
<1> SUFFICES ASSUME ServerInit PROVE McpToolsInv
  OBVIOUS
<1>1. McpToolsTypeOK
  <2>1. audit = <<>> /\ <<>> \in Seq([n : 1..MaxRequests, caller : Callers \cup {NoCaller, Legacy},
                    tool : HasMode, decision : {"allowed", "denied"}])
    BY DEF ServerInit
  <2>2. DOMAIN server.table = {}
    BY DEF ServerInit, Down, NoRegistry
  <2>3. current_caller \in CallerType
    BY DEF ServerInit, CallerType, Unknown, Legacy
  <2> QED
    BY <2>1, <2>2, <2>3, McpToolsAssumption DEF ServerInit, McpToolsTypeOK, Down
<1>2. HandledIsGranted /\ PathIsSafe /\ AppliedWasAllowed /\ EffectsAreLogged /\ OneAtATime
  BY DEF ServerInit, HandledIsGranted, PathIsSafe, AppliedWasAllowed, EffectsAreLogged, OneAtATime
<1>3. DecidedOnce
  BY DEF ServerInit, DecidedOnce
<1> QED
  BY <1>1, <1>2, <1>3 DEF McpToolsInv

LEMMA IdentityType ==
  ASSUME NEW e \in Entry PROVE Identity(e) \in CallerType
BY DEF Identity, CallerType, Entry

LEMMA CallerOfType ==
  ASSUME McpToolsTypeOK, NEW r PROVE CallerOf(r) \in CallerType
<1>1. Unknown \in CallerType /\ LegacyIdentity \in CallerType
  BY DEF Unknown, LegacyIdentity, CallerType
<1>2. \A token \in DOMAIN server.table : Identity(server.table[token]) \in CallerType
  BY IdentityType DEF McpToolsTypeOK
<1> QED
  BY <1>1, <1>2 DEF CallerOf, _resolve_caller, authenticate

(* A refusal and a return are replies.                                     *)
Replies == {"none", "result", "error", "parse_error", "unauthorized", "forbidden",
            "no_method", "no_tool", "invalid_params"}

LEMMA McpToolsTypesStep ==
  ASSUME McpToolsTypeOK, HandledIsGranted, AppliedWasAllowed, OneAtATime, [ServerNext]_toolVars
  PROVE  McpToolsTypeOK'
<1> USE McpToolsAssumption
<1>0. Unknown \in CallerType
  BY DEF Unknown, CallerType
<1>1. ASSUME NEW env \in Environments, Serve(env) PROVE McpToolsTypeOK'
  <2>1. /\ DOMAIN server'.table \subseteq Tokens
        /\ \A token \in DOMAIN server'.table :
             server'.table[token] \in Entry /\ server'.table[token].token = token
    <3>1. CASE env.identities
      <4>1. registry_file \in Seq(Entry) /\ server'.table = Tabled(registry_file)
        BY <1>1, <3>1 DEF Serve, McpToolsTypeOK
      <4> QED
        BY <4>1, TabledType
    <3>2. CASE ~env.identities
      BY <1>1, <3>2 DEF Serve, NoRegistry
    <3> QED
      BY <3>1, <3>2
  <2>2. server'.up \in BOOLEAN /\ server'.registry \in BOOLEAN /\ server'.permit \in BOOLEAN
    BY <1>1 DEF Serve
  <2>3. server'.shared \in Tokens \cup {NoToken}
    BY <1>1 DEF Serve
  <2> QED
    BY <1>1, <1>0, <2>1, <2>2, <2>3 DEF Serve, McpToolsTypeOK
<1>2. CASE Exit
  <2>1. DOMAIN server'.table = {}
    BY <1>2 DEF Exit, Down, NoRegistry
  <2> QED
    BY <1>2, <1>0, <2>1 DEF Exit, Down, McpToolsTypeOK
<1>3. CASE EditRegistry \/ Tick
  BY <1>3 DEF EditRegistry, Tick, McpToolsTypeOK
<1>4. ASSUME NEW r \in Requests, Receive(r) PROVE McpToolsTypeOK'
  <2>1. Refusal(r) \in Replies
    BY DEF Refusal, _validate_required_params, Replies
  <2>2. at' \in {"idle", "preflight", "gate", "working"} /\ reply' \in Replies
    BY <1>4, <2>1 DEF Receive, Return, Replies
  <2>3. current_caller' \in CallerType
    BY <1>4, <1>0, CallerOfType DEF Receive, Return
  <2>4. received' \in [n : 0..MaxRequests, time : 0..MaxClock]
    BY <1>4 DEF Receive, McpToolsTypeOK
  <2>5. UNCHANGED <<registry_file, clock, server, audit, effects>> /\ request' \in Requests
    BY <1>4 DEF Receive
  <2> QED
    BY <2>2, <2>3, <2>4, <2>5 DEF McpToolsTypeOK, Replies
<1>5. CASE ParseError
  <2>1. received' \in [n : 0..MaxRequests, time : 0..MaxClock]
    BY <1>5 DEF ParseError, McpToolsTypeOK
  <2> QED
    BY <1>5, <1>0, <2>1 DEF ParseError, Return, McpToolsTypeOK
<1>6. CASE Preflight
  <2>1. /\ at' \in {"idle", "preflight", "gate", "working"} /\ reply' \in Replies
        /\ current_caller' \in CallerType
    BY <1>6, <1>0 DEF Preflight, Return, McpToolsTypeOK, Replies
  <2>2. UNCHANGED <<registry_file, clock, server, request, received, audit, effects>>
    BY <1>6 DEF Preflight
  <2> QED
    BY <2>1, <2>2 DEF McpToolsTypeOK, Replies
<1>7. CASE _check_apply_mode_allowed
  <2>1. /\ at' \in {"idle", "preflight", "gate", "working"} /\ reply' \in Replies
        /\ current_caller' \in CallerType
    BY <1>7, <1>0 DEF _check_apply_mode_allowed, Return, McpToolsTypeOK, Replies
  <2> DEFINE entry(decision) == [n |-> received.n, caller |-> current_caller.caller,
                                 tool |-> request.tool, decision |-> decision]
             LogEntry == [n : 1..MaxRequests, caller : Callers \cup {NoCaller, Legacy},
                          tool : HasMode, decision : {"allowed", "denied"}]
  <2>2. received.n \in 1..MaxRequests /\ current_caller.caller \in Callers \cup {NoCaller, Legacy}
        /\ request.tool \in HasMode
    BY <1>7 DEF _check_apply_mode_allowed, McpToolsTypeOK, CallerType, AppliedWasAllowed,
               OneAtATime, Applies
  <2>3. entry("allowed") \in LogEntry /\ entry("denied") \in LogEntry
    BY <2>2
  <2>4. PICK decision \in {"allowed", "denied"} : audit' = Append(audit, entry(decision))
    BY <1>7 DEF _check_apply_mode_allowed, _write_audit_log
  <2>5. audit' \in Seq(LogEntry)
    <3>1. audit \in Seq(LogEntry)
      BY DEF McpToolsTypeOK
    <3> HIDE DEF entry, LogEntry
    <3> QED
      BY <2>3, <2>4, <3>1
  <2>6. UNCHANGED <<registry_file, clock, server, request, received, effects>>
    BY <1>7 DEF _check_apply_mode_allowed
  <2> QED
    BY <2>1, <2>5, <2>6 DEF McpToolsTypeOK, Replies
<1>8. CASE Work
  <2>1. Effect \in [n : 1..MaxRequests, caller : Callers \cup {NoCaller, Legacy},
                    tool : Writes, applied : BOOLEAN]
    <3>1. received.n \in 1..MaxRequests /\ current_caller.caller \in Callers \cup {NoCaller, Legacy}
      BY <1>8 DEF Work, McpToolsTypeOK, CallerType, OneAtATime
    <3>2. request.tool \in Writes /\ Applies(request) \in BOOLEAN
      BY <1>8 DEF Work, Applies
    <3> QED
      BY <3>1, <3>2 DEF Effect
  <2> QED
    BY <1>8, <2>1 DEF Work, McpToolsTypeOK
<1>9. CASE Answer \/ Raise
  BY <1>9, <1>0 DEF Answer, Raise, Return, McpToolsTypeOK
<1>10. CASE UNCHANGED toolVars
  BY <1>10 DEF toolVars, McpToolsTypeOK
<1> QED
  BY <1>1, <1>2, <1>3, <1>4, <1>5, <1>6, <1>7, <1>8, <1>9, <1>10 DEF ServerNext, Handle

(* A request whose tool gets to its handler was granted.                   *)
LEMMA ReceivedIsGranted ==
  ASSUME McpToolsTypeOK, NEW r \in Requests, Refusal(r) = "none", r.method = "tools/call"
  PROVE  /\ r.tool \in ToolNames
         /\ IF server.registry
            THEN /\ r.token \in DOMAIN server.table
                 /\ clock < server.table[r.token].expires_at
                 /\ TOOL_SCOPES[r.tool] \in server.table[r.token].scopes
                 /\ CallerOf(r) = Identity(server.table[r.token])
            ELSE /\ server.shared # NoToken => r.token = server.shared
                 /\ CallerOf(r) = LegacyIdentity
<1>1. /\ ~Unauthorized(r) /\ r.tool # "unknown"
      /\ RegistryMode => TOOL_SCOPES[r.tool] \in CallerOf(r).scopes
  BY DEF Refusal, _validate_required_params
<1>2. r.tool \in ToolNames
  BY <1>1, McpToolsAssumption DEF RequestType
<1>3. ~Exempt(r)
  BY DEF Exempt
<1>4. CASE server.registry
  <2>1. _resolve_caller(r) = authenticate(r.token) /\ _resolve_caller(r) # Unknown
    BY <1>1, <1>3, <1>4 DEF Unauthorized, _resolve_caller, RegistryMode
  <2>2. /\ r.token \in DOMAIN server.table /\ clock < server.table[r.token].expires_at
        /\ CallerOf(r) = Identity(server.table[r.token])
    BY <1>3, <2>1 DEF authenticate, CallerOf
  <2>3. CallerOf(r).scopes = server.table[r.token].scopes
    BY <2>2 DEF Identity
  <2> QED
    BY <1>1, <1>2, <1>4, <2>2, <2>3 DEF RegistryMode
<1>5. CASE ~server.registry
  <2>1. server.shared # NoToken => r.token = server.shared
    BY <1>1, <1>3, <1>5 DEF Unauthorized, _resolve_caller, RegistryMode
  <2>2. CallerOf(r) = LegacyIdentity
    BY <1>3, <1>5, <2>1 DEF CallerOf, _resolve_caller, RegistryMode
  <2> QED
    BY <1>2, <1>5, <2>1, <2>2
<1> QED
  BY <1>4, <1>5

LEMMA GrantedStep ==
  ASSUME McpToolsTypeOK, HandledIsGranted, PathIsSafe, OneAtATime, [ServerNext]_toolVars
  PROVE  HandledIsGranted' /\ PathIsSafe' /\ OneAtATime'
<1>1. CASE \/ \E env \in Environments : Serve(env)
           \/ Exit \/ ParseError \/ Answer \/ Raise
  <2>1. at' = "idle"
    BY <1>1 DEF Serve, Exit, ParseError, Answer, Raise, Return
  <2> QED
    BY <2>1 DEF HandledIsGranted, PathIsSafe, OneAtATime
<1>2. CASE EditRegistry \/ Tick \/ Work \/ UNCHANGED toolVars
  <2>1. UNCHANGED <<server, at, request, received, current_caller>>
    BY <1>2 DEF EditRegistry, Tick, Work, toolVars
  <2> QED
    BY <2>1 DEF HandledIsGranted, Granted, PathIsSafe, OneAtATime
<1>3. ASSUME NEW r \in Requests, Receive(r) PROVE HandledIsGranted' /\ PathIsSafe' /\ OneAtATime'
  <2>1. CASE at' = "idle"
    BY <2>1 DEF HandledIsGranted, PathIsSafe, OneAtATime
  <2>2. CASE at' # "idle"
    <3>1. /\ Refusal(r) = "none" /\ r.method = "tools/call" /\ ~r.notification
          /\ at' = "preflight" /\ current_caller' = CallerOf(r)
      BY <1>3, <2>2 DEF Receive, Return
    <3>2. /\ request' = r /\ received'.time = clock /\ server' = server /\ server.up
          /\ received'.n = received.n + 1 /\ received.n \in Nat
      BY <1>3 DEF Receive, McpToolsTypeOK
    <3>3. HandledIsGranted'
      BY <3>1, <3>2, ReceivedIsGranted DEF HandledIsGranted, Granted
    <3> QED
      BY <3>1, <3>2, <3>3 DEF PathIsSafe, OneAtATime
  <2> QED
    BY <2>1, <2>2
<1>4. CASE Preflight \/ _check_apply_mode_allowed
  <2>1. at # "idle" /\ UNCHANGED <<server, request, received>>
    BY <1>4 DEF Preflight, _check_apply_mode_allowed
  <2>2. CASE at' = "idle"
    BY <2>2 DEF HandledIsGranted, PathIsSafe, OneAtATime
  <2>3. CASE at' # "idle"
    <3>1. current_caller' = current_caller
      BY <1>4, <2>3 DEF Preflight, _check_apply_mode_allowed, Return
    <3>2. HandledIsGranted' /\ OneAtATime'
      BY <2>1, <3>1 DEF HandledIsGranted, Granted, OneAtATime
    <3>3. PathIsSafe'
      BY <1>4, <2>1, <2>3 DEF Preflight, _check_apply_mode_allowed, Return, Refuses,
                              _validate_safe_path, PathIsSafe
    <3> QED
      BY <3>2, <3>3
  <2> QED
    BY <2>2, <2>3
<1> QED
  BY <1>1, <1>2, <1>3, <1>4 DEF ServerNext, Handle

(* The log only grows.                                                     *)
LEMMA LoggedStays ==
  ASSUME McpToolsTypeOK, NEW x, audit' = Append(audit, x) \/ audit' = audit
  PROVE  \A e : Logged(e) => Logged(e)'
<1>1. ASSUME audit' = Append(audit, x) PROVE \A i \in DOMAIN audit : i \in DOMAIN audit' /\ audit'[i] = audit[i]
  BY <1>1 DEF McpToolsTypeOK
<1>2. \A i \in DOMAIN audit : i \in DOMAIN audit' /\ audit'[i] = audit[i]
  BY <1>1
<1> SUFFICES ASSUME NEW e, Logged(e)
             PROVE  \E i \in DOMAIN audit' :
                      audit'[i] = [n |-> e.n, caller |-> e.caller, tool |-> e.tool, decision |-> "allowed"]
  BY DEF Logged
<1> QED
  BY <1>2 DEF Logged

LEMMA AuditStep ==
  ASSUME McpToolsInv, [ServerNext]_toolVars
  PROVE  AppliedWasAllowed' /\ EffectsAreLogged' /\ DecidedOnce'
<1> USE DEF McpToolsInv
<1>0. received.n \in Nat /\ \A i \in DOMAIN audit : audit[i].n \in Nat
  <2> DEFINE LogEntry == [n : 1..MaxRequests, caller : Callers \cup {NoCaller, Legacy},
                          tool : HasMode, decision : {"allowed", "denied"}]
  <2>0. audit \in Seq(LogEntry)
    BY DEF McpToolsTypeOK
  <2> HIDE DEF LogEntry
  <2>1. \A i \in DOMAIN audit : audit[i] \in LogEntry
    BY <2>0
  <2> USE DEF LogEntry
  <2>2. \A i \in DOMAIN audit : audit[i].n \in 1..MaxRequests
    BY <2>1
  <2> QED
    BY <2>2, McpToolsAssumption DEF McpToolsTypeOK
<1>1. CASE \/ \E env \in Environments : Serve(env)
           \/ Exit \/ Answer \/ Raise
  <2>1. at' = "idle" /\ UNCHANGED <<received, audit, effects>>
    BY <1>1 DEF Serve, Exit, Answer, Raise, Return
  <2> QED
    BY <2>1 DEF AppliedWasAllowed, EffectsAreLogged, DecidedOnce, Logged
<1>2. CASE EditRegistry \/ Tick \/ UNCHANGED toolVars
  <2>1. UNCHANGED <<server, at, request, received, current_caller, audit, effects>>
    BY <1>2 DEF EditRegistry, Tick, toolVars
  <2> QED
    BY <2>1 DEF AppliedWasAllowed, EffectsAreLogged, DecidedOnce, Logged, Effect, Allowed, Applies
<1>3. CASE ParseError \/ \E r \in Requests : Receive(r)
  <2>1. /\ at' \in {"idle", "preflight"} /\ UNCHANGED <<audit, effects>>
        /\ received'.n = received.n + 1
    BY <1>3 DEF ParseError, Receive, Return
  <2> QED
    BY <1>0, <2>1 DEF AppliedWasAllowed, EffectsAreLogged, DecidedOnce, Logged
<1>4. CASE Preflight
  <2>1. UNCHANGED <<request, received, audit, effects>> /\ at = "preflight"
    BY <1>4 DEF Preflight
  <2>2. at' = "gate" => Applies(request)
    BY <1>4 DEF Preflight, Return
  <2>3. at' = "working" => ~Applies(request)
    BY <1>4 DEF Preflight, Return
  <2> QED
    BY <2>1, <2>2, <2>3 DEF AppliedWasAllowed, EffectsAreLogged, DecidedOnce, Logged, Applies
<1>5. CASE _check_apply_mode_allowed
  <2> DEFINE entry(decision) == [n |-> received.n, caller |-> current_caller.caller,
                                 tool |-> request.tool, decision |-> decision]
  <2>1. /\ at = "gate" /\ UNCHANGED <<server, request, received, effects>>
        /\ audit' = Append(audit, entry(IF Allowed THEN "allowed" ELSE "denied"))
    BY <1>5 DEF _check_apply_mode_allowed, _write_audit_log
  <2>2. /\ DOMAIN audit' = DOMAIN audit \cup {Len(audit) + 1}
        /\ Len(audit) + 1 \notin DOMAIN audit
        /\ \A i \in DOMAIN audit : audit'[i] = audit[i]
        /\ audit'[Len(audit) + 1] = entry(IF Allowed THEN "allowed" ELSE "denied")
    <3> DEFINE x == entry(IF Allowed THEN "allowed" ELSE "denied")
    <3>1. audit' = Append(audit, x) /\ audit \in Seq([n : 1..MaxRequests, caller : Callers \cup {NoCaller, Legacy},
                    tool : HasMode, decision : {"allowed", "denied"}])
      BY <2>1 DEF McpToolsTypeOK
    <3> HIDE DEF x
    <3>2. /\ DOMAIN audit' = DOMAIN audit \cup {Len(audit) + 1}
          /\ Len(audit) + 1 \notin DOMAIN audit
          /\ \A i \in DOMAIN audit : audit'[i] = audit[i]
          /\ audit'[Len(audit) + 1] = x
      BY <3>1
    <3> QED
      BY <3>2 DEF x
  <2>3. \A e : Logged(e) => Logged(e)'
    BY <2>1, LoggedStays
  <2>4. EffectsAreLogged'
    BY <2>1, <2>3 DEF EffectsAreLogged
  <2>5. AppliedWasAllowed'
    <3>1. at' \in {"idle", "working"}
      BY <1>5 DEF _check_apply_mode_allowed, Return
    <3>2. ASSUME at' = "working" PROVE Allowed' /\ Logged(Effect)'
      <4>1. Allowed /\ current_caller' = current_caller
        BY <1>5, <3>2 DEF _check_apply_mode_allowed, Return
      <4>2. Allowed'
        BY <2>1, <4>1 DEF Allowed
      <4>3. audit'[Len(audit) + 1] = entry("allowed")
        BY <2>2, <4>1
      <4>4. /\ Effect'.n = received.n /\ Effect'.caller = current_caller.caller
            /\ Effect'.tool = request.tool
        BY <2>1, <4>1 DEF Effect
      <4> QED
        BY <2>2, <4>2, <4>3, <4>4 DEF Logged
    <3> QED
      BY <3>1, <3>2 DEF AppliedWasAllowed
  <2>6. DecidedOnce'
    <3>1. \A i \in DOMAIN audit : audit[i].n # received.n
      BY <2>1 DEF DecidedOnce
    <3>2. audit'[Len(audit) + 1].n = received.n
      BY <2>2
    <3>3. at' \notin {"preflight", "gate"}
      BY <1>5 DEF _check_apply_mode_allowed, Return
    <3> QED
      BY <1>0, <2>1, <2>2, <3>1, <3>2, <3>3 DEF DecidedOnce
  <2> QED
    BY <2>4, <2>5, <2>6
<1>6. CASE Work
  <2>1. /\ at = "working" /\ UNCHANGED <<server, at, request, received, current_caller, audit>>
        /\ effects' = effects \cup {Effect}
    BY <1>6 DEF Work
  <2>2. Effect.applied => Logged(Effect)
    BY <2>1 DEF AppliedWasAllowed, Effect
  <2>3. \A e : Logged(e) => Logged(e)'
    BY <2>1, LoggedStays
  <2>4. EffectsAreLogged'
    <3> SUFFICES ASSUME NEW e \in effects', e.applied PROVE Logged(e)'
      BY DEF EffectsAreLogged
    <3>1. Logged(e)
      BY <2>1, <2>2 DEF EffectsAreLogged
    <3> QED
      BY <2>3, <3>1
  <2> QED
    BY <2>1, <2>4 DEF AppliedWasAllowed, DecidedOnce, Logged, Effect, Allowed, Applies
<1> QED
  BY <1>1, <1>2, <1>3, <1>4, <1>5, <1>6 DEF ServerNext, Handle

LEMMA McpToolsInductive == ServerSpec => []McpToolsInv
<1>1. McpToolsInv /\ [ServerNext]_toolVars => McpToolsInv'
  BY McpToolsTypesStep, GrantedStep, AuditStep DEF McpToolsInv
<1> QED
  BY <1>1, McpToolsStart, PTL DEF ServerSpec

(* The types of McpTools.                                                  *)
THEOREM McpToolsTypes == ServerSpec => []McpToolsTypeOK
<1>1. McpToolsInv => McpToolsTypeOK
  BY DEF McpToolsInv
<1> QED
  BY <1>1, McpToolsInductive, PTL

(* What a tool applies is in the log, and a request is decided once, for
   any callers, registries and number of requests, and wherever the server
   dies: the entry is there before the work begins.                        *)
THEOREM AppliedWorkIsAudited == ServerSpec => []AppliedIsAudited
<1>1. McpToolsInv => AppliedIsAudited
  BY DEF McpToolsInv, EffectsAreLogged, Logged, DecidedOnce, AppliedIsAudited
<1> QED
  BY <1>1, McpToolsInductive, PTL

(* Every change that a tool makes is one its caller may make.              *)
THEOREM ChangesAreAuthorized == ServerSpec => EffectsAreAuthorized
<1>1. ASSUME McpToolsInv, [ServerNext]_toolVars, effects' # effects PROVE Authorized
  <2> USE <1>1 DEF McpToolsInv
  <2>1. at = "working" /\ request.tool \in Writes
    BY DEF ServerNext, Serve, Receive, ParseError, Handle, Preflight, _check_apply_mode_allowed,
           Work, Answer, Raise, Exit, EditRegistry, Tick, toolVars
  <2>2. /\ server.up /\ request.method = "tools/call" /\ ~request.notification
        /\ Granted
        /\ request.path = "project" \/ request.tool \notin ChecksPath
    BY <2>1 DEF HandledIsGranted, PathIsSafe
  <2>3. Applies(request) => /\ request.allow_apply /\ server.permit
                            /\ "apply" \in current_caller.scopes
    BY <2>1 DEF AppliedWasAllowed, Allowed
  <2>4. CASE server.registry
    <3> DEFINE entry == server.table[request.token]
    <3>1. /\ current_caller.caller = entry.caller /\ current_caller.scopes = entry.scopes
          /\ request.token \in DOMAIN server.table /\ received.time < entry.expires_at
          /\ TOOL_SCOPES[request.tool] \in entry.scopes
      BY <2>2, <2>4 DEF Granted, Identity
    <3>2. Needed(request) \subseteq entry.scopes
      BY <2>3, <3>1 DEF Needed
    <3> QED
      BY <2>2, <2>3, <2>4, <3>1, <3>2 DEF Authorized
  <2>5. CASE ~server.registry
    BY <2>2, <2>3, <2>5 DEF Authorized, Granted, LegacyIdentity
  <2> QED
    BY <2>4, <2>5
<1>2. McpToolsInv /\ [ServerNext]_toolVars => [effects' # effects => Authorized]_toolVars
  BY <1>1
<1> QED
  BY <1>2, McpToolsInductive, PTL DEF ServerSpec, EffectsAreAuthorized

-----------------------------------------------------------------------------
(* The readiness gate.  What a run of the gate leaves in the tree decides no
   check: each of the 36 says the same with and without it.                *)
LEMMA OwnReportChangesNothing ==
  ASSUME Consistent(files), programs' = programs,
         files' = files \/ files' = files \cup {"validation_dir", "release_readiness_gate_run"}
  PROVE  UNCHANGED <<BASE_CHECKS, R2_CHECKS, R3_CHECKS>>
<1> USE DEF Has, Verdict, Exit0, Exit0Late
<1>1. UNCHANGED <<package_metadata_valid, cli_help_works>>
  BY DEF package_metadata_valid, cli_help_works
<1>2. UNCHANGED <<pytest_evidence, ruff_passes, mypy_passes, docs_exist>>
  BY DEF pytest_evidence, ruff_passes, mypy_passes, docs_exist
<1>3. UNCHANGED <<mcp_smoke_path_exists, a2a_smoke_path_exists, mock_executor_works>>
  BY DEF mcp_smoke_path_exists, a2a_smoke_path_exists, mock_executor_works, Decides
<1>4. UNCHANGED <<packaging_files_exist, no_dangerous_release_claims, release_blockers_recorded>>
  BY DEF packaging_files_exist, no_dangerous_release_claims, release_blockers_recorded, Consistent
<1>5. UNCHANGED <<r2_version_consistency, r2_license_file_present, r2_license_metadata_match>>
  BY DEF r2_version_consistency, r2_license_file_present, r2_license_metadata_match
<1>6. UNCHANGED <<r2_wheel_version_works, r2_a2a_http_ssrf_hardened, r2_milestone_flow_tested>>
  BY DEF r2_wheel_version_works, r2_a2a_http_ssrf_hardened, r2_milestone_flow_tested
<1>7. UNCHANGED <<r2_release_flow_tested, r2_release_workflow_pytest_gate, r2_homebrew_metadata_owner_fixed>>
  BY DEF r2_release_flow_tested, r2_release_workflow_pytest_gate, r2_homebrew_metadata_owner_fixed
<1>8. UNCHANGED <<r2_homebrew_sha256_not_stale, r2_macos_info_plist_version_match, r2_remaining_blockers_recorded>>
  BY DEF r2_homebrew_sha256_not_stale, r2_macos_info_plist_version_match, r2_remaining_blockers_recorded, Consistent
<1>9. UNCHANGED <<r3_mypy_clean, r3_ruff_clean, r3_lint_yml_scans_scripts, r3_mcp_apply_guardrail_present>>
  BY DEF r3_mypy_clean, r3_ruff_clean, r3_lint_yml_scans_scripts, r3_mcp_apply_guardrail_present
<1>10. UNCHANGED <<r3_a2a_dns_rebinding_pinned, r3_worker_isolator_symlink_safe, r3_changelog_present>>
  BY DEF r3_a2a_dns_rebinding_pinned, r3_worker_isolator_symlink_safe, r3_changelog_present
<1>11. UNCHANGED <<r3_configuration_doc_present, r3_troubleshooting_doc_present, r3_docker_base_digest_pinned>>
  BY DEF r3_configuration_doc_present, r3_troubleshooting_doc_present, r3_docker_base_digest_pinned
<1>12. UNCHANGED <<r3_homebrew_publish_time_blocker_clean, r3_pypi_rc_not_blocked_by_homebrew>>
  BY DEF r3_homebrew_publish_time_blocker_clean, r3_pypi_rc_not_blocked_by_homebrew, Blocked, Backfilled
<1>13. UNCHANGED BASE_CHECKS
  BY <1>1, <1>2, <1>3, <1>4 DEF BASE_CHECKS, Round
<1>14. UNCHANGED R2_CHECKS
  BY <1>5, <1>6, <1>7, <1>8 DEF R2_CHECKS, Round
<1>15. UNCHANGED R3_CHECKS
  BY <1>9, <1>10, <1>11, <1>12 DEF R3_CHECKS, Round
<1> QED
  BY <1>13, <1>14, <1>15

Status == {"pass", "fail", "skip"}
CheckResult == [round : 1..3, status : Status]

(* A round of twelve checks.                                               *)
LEMMA RoundType ==
  ASSUME NEW n \in 1..3, NEW statuses \in Seq(Status)
  PROVE  /\ Round(n, statuses) \in Seq(CheckResult)
         /\ DOMAIN Round(n, statuses) = DOMAIN statuses
         /\ \A i \in DOMAIN statuses : Round(n, statuses)[i].status = statuses[i]
<1>1. Len(statuses) \in Nat /\ DOMAIN statuses = 1..Len(statuses)
  OBVIOUS
<1>2. \A i \in 1..Len(statuses) : [round |-> n, status |-> statuses[i]] \in CheckResult
  BY DEF CheckResult
<1>3. Round(n, statuses) = [i \in 1..Len(statuses) |-> [round |-> n, status |-> statuses[i]]]
  BY <1>1 DEF Round
<1> HIDE DEF CheckResult
<1>4. Round(n, statuses) \in [1..Len(statuses) -> CheckResult]
  BY <1>2, <1>3
<1>5. Round(n, statuses) \in Seq(CheckResult)
  BY <1>1, <1>4
<1> QED
  BY <1>1, <1>3, <1>5

LEMMA BaseStatuses ==
  <<package_metadata_valid, cli_help_works, pytest_evidence, ruff_passes, mypy_passes,
    docs_exist, mcp_smoke_path_exists, a2a_smoke_path_exists, mock_executor_works,
    packaging_files_exist, no_dangerous_release_claims, release_blockers_recorded>> \in Seq(Status)
<1>1. /\ package_metadata_valid \in Status /\ cli_help_works \in Status
      /\ pytest_evidence \in Status /\ ruff_passes \in Status /\ mypy_passes \in Status
      /\ docs_exist \in Status /\ mcp_smoke_path_exists \in Status
      /\ a2a_smoke_path_exists \in Status /\ mock_executor_works \in Status
      /\ packaging_files_exist \in Status /\ no_dangerous_release_claims \in Status
      /\ release_blockers_recorded \in Status
  BY DEF package_metadata_valid, cli_help_works, pytest_evidence, ruff_passes, mypy_passes,
    docs_exist, mcp_smoke_path_exists, a2a_smoke_path_exists, mock_executor_works,
    packaging_files_exist, no_dangerous_release_claims, release_blockers_recorded, Status, Verdict
<1> HIDE DEF Status
<1> QED
  BY <1>1

LEMMA R2Statuses ==
  <<r2_version_consistency, r2_license_file_present, r2_license_metadata_match,
    r2_wheel_version_works, r2_a2a_http_ssrf_hardened, r2_milestone_flow_tested,
    r2_release_flow_tested, r2_release_workflow_pytest_gate,
    r2_homebrew_metadata_owner_fixed, r2_homebrew_sha256_not_stale,
    r2_macos_info_plist_version_match, r2_remaining_blockers_recorded>> \in Seq(Status)
<1>1. /\ r2_version_consistency \in Status /\ r2_license_file_present \in Status
      /\ r2_license_metadata_match \in Status /\ r2_wheel_version_works \in Status
      /\ r2_a2a_http_ssrf_hardened \in Status /\ r2_milestone_flow_tested \in Status
      /\ r2_release_flow_tested \in Status /\ r2_release_workflow_pytest_gate \in Status
      /\ r2_homebrew_metadata_owner_fixed \in Status /\ r2_homebrew_sha256_not_stale \in Status
      /\ r2_macos_info_plist_version_match \in Status /\ r2_remaining_blockers_recorded \in Status
  BY DEF r2_version_consistency, r2_license_file_present, r2_license_metadata_match,
    r2_wheel_version_works, r2_a2a_http_ssrf_hardened, r2_milestone_flow_tested,
    r2_release_flow_tested, r2_release_workflow_pytest_gate,
    r2_homebrew_metadata_owner_fixed, r2_homebrew_sha256_not_stale,
    r2_macos_info_plist_version_match, r2_remaining_blockers_recorded, Status, Verdict
<1> HIDE DEF Status
<1> QED
  BY <1>1

LEMMA R3Statuses ==
  <<r3_mypy_clean, r3_ruff_clean, r3_lint_yml_scans_scripts,
    r3_mcp_apply_guardrail_present, r3_a2a_dns_rebinding_pinned,
    r3_worker_isolator_symlink_safe, r3_changelog_present,
    r3_configuration_doc_present, r3_troubleshooting_doc_present,
    r3_docker_base_digest_pinned, r3_homebrew_publish_time_blocker_clean,
    r3_pypi_rc_not_blocked_by_homebrew>> \in Seq(Status)
<1>1. /\ r3_mypy_clean \in Status /\ r3_ruff_clean \in Status
      /\ r3_lint_yml_scans_scripts \in Status /\ r3_mcp_apply_guardrail_present \in Status
      /\ r3_a2a_dns_rebinding_pinned \in Status /\ r3_worker_isolator_symlink_safe \in Status
      /\ r3_changelog_present \in Status /\ r3_configuration_doc_present \in Status
      /\ r3_troubleshooting_doc_present \in Status /\ r3_docker_base_digest_pinned \in Status
      /\ r3_homebrew_publish_time_blocker_clean \in Status
      /\ r3_pypi_rc_not_blocked_by_homebrew \in Status
  BY DEF r3_mypy_clean, r3_ruff_clean, r3_lint_yml_scans_scripts,
    r3_mcp_apply_guardrail_present, r3_a2a_dns_rebinding_pinned,
    r3_worker_isolator_symlink_safe, r3_changelog_present,
    r3_configuration_doc_present, r3_troubleshooting_doc_present,
    r3_docker_base_digest_pinned, r3_homebrew_publish_time_blocker_clean,
    r3_pypi_rc_not_blocked_by_homebrew, Status, Verdict
<1> HIDE DEF Status
<1> QED
  BY <1>1

LEMMA ChecksType ==
  ASSUME NEW included
  PROVE  /\ ChecksToRun(included) \in Seq(CheckResult)
         /\ BASE_CHECKS \in Seq(CheckResult) /\ R2_CHECKS \in Seq(CheckResult)
         /\ R3_CHECKS \in Seq(CheckResult)
<1> HIDE DEF CheckResult, Status
<1>1. /\ BASE_CHECKS \in Seq(CheckResult) /\ R2_CHECKS \in Seq(CheckResult)
      /\ R3_CHECKS \in Seq(CheckResult)
  <2>1. BASE_CHECKS \in Seq(CheckResult)
    BY RoundType, BaseStatuses, 1 \in 1..3 DEF BASE_CHECKS
  <2>2. R2_CHECKS \in Seq(CheckResult)
    BY RoundType, R2Statuses, 2 \in 1..3 DEF R2_CHECKS
  <2>3. R3_CHECKS \in Seq(CheckResult)
    BY RoundType, R3Statuses, 3 \in 1..3 DEF R3_CHECKS
  <2> QED
    BY <2>1, <2>2, <2>3
<1>2. BASE_CHECKS \o R2_CHECKS \o R3_CHECKS \in Seq(CheckResult)
  BY <1>1
<1> QED
  BY <1>1, <1>2 DEF ChecksToRun

-----------------------------------------------------------------------------
(* What a run that nobody disturbed has so far is what the checks say.     *)
CheckedSoFar ==
  Checking /\ gate.steady =>
    \A i \in DOMAIN gate.checks : gate.checks[i] = ChecksToRun(gate.included)[i]
ExitIsExact ==
  report.made => report.exit = IF StrictFail(report.strict, report.checks) THEN 1 ELSE 0

GateInv == GateTypeOK /\ CheckedSoFar /\ ReportIsTrue /\ ExitIsExact

LEMMA GateStart == GateInit => GateInv
<1> SUFFICES ASSUME GateInit PROVE GateInv
  OBVIOUS
<1>1. GateTypeOK
  BY GateAssumption DEF GateInit, GateTypeOK
<1>2. CheckedSoFar /\ ReportIsTrue /\ ExitIsExact
  BY DEF GateInit, CheckedSoFar, ReportIsTrue, ExitIsExact, Checking, NoGate, NoReport
<1> QED
  BY <1>1, <1>2 DEF GateInv

Runs == [at : {"checking"}, included : Included, strict : SUBSET StrictFlags,
         checks : Seq(CheckResult), steady : BOOLEAN]
Reports == [made : {TRUE}, included : Included, strict : SUBSET StrictFlags,
            checks : Seq(CheckResult), steady : BOOLEAN, exit : {0, 1}]

LEMMA GateTypeParts ==
  GateTypeOK <=> /\ files \in SUBSET Facts /\ Consistent(files)
                 /\ programs \in [Programs -> Outcomes]
                 /\ gate = NoGate \/ gate \in Runs
                 /\ report = NoReport \/ report \in Reports
                 /\ runs \in 0..MaxRuns /\ edits \in 0..MaxEdits
BY DEF GateTypeOK, Runs, Reports, CheckResults, CheckResult, Status

(* The parts of the inductive step: one lemma for each conjunct.           *)
LEMMA GateTypeStep ==
  ASSUME GateTypeOK, [GateNext]_gateVars PROVE GateTypeOK'
<1> USE GateTypeParts
<1>0. /\ files \in SUBSET Facts /\ Consistent(files)
      /\ programs \in [Programs -> Outcomes]
      /\ gate = NoGate \/ gate \in Runs
      /\ report = NoReport \/ report \in Reports
      /\ runs \in 0..MaxRuns /\ edits \in 0..MaxEdits
  OBVIOUS
<1>p. ASSUME files' \in SUBSET Facts /\ Consistent(files'), programs' = programs,
             gate' = NoGate \/ gate' \in Runs, report' = NoReport \/ report' \in Reports,
             runs' \in 0..MaxRuns, edits' \in 0..MaxEdits
      PROVE  GateTypeOK'
  BY <1>p, <1>0 DEF GateTypeOK, Runs, Reports, CheckResults, CheckResult, Status
<1> USE GateAssumption
<1>1. ASSUME NEW included \in Included, NEW strict \in Strictness, Start(included, strict)
      PROVE  GateTypeOK'
  <2>1. strict \in SUBSET StrictFlags /\ <<>> \in Seq(CheckResult)
    OBVIOUS
  <2>2. gate' \in Runs
    BY <1>1, <2>1 DEF Start, Runs
  <2>3. runs' \in 0..MaxRuns
    BY <1>1, <1>0 DEF Start
  <2> QED
    BY <1>1, <1>0, <1>p, <2>2, <2>3 DEF Start
<1>2. ASSUME RunCheck PROVE GateTypeOK'
  <2>1. gate \in Runs
    BY <1>2, <1>0 DEF RunCheck, Checking, NoGate
  <2>2. ChecksToRun(gate.included) \in Seq(CheckResult)
    BY ChecksType
  <2>3. PICK all \in Seq(CheckResult) : all = ChecksToRun(gate.included)
    BY <2>2
  <2> HIDE DEF CheckResult
  <2>4. gate.checks \in Seq(CheckResult) /\ Len(gate.checks) < Len(all)
    BY <1>2, <2>1, <2>3 DEF RunCheck, Runs
  <2>5. Append(gate.checks, all[Len(gate.checks) + 1]) \in Seq(CheckResult)
    <3>1. all[Len(gate.checks) + 1] \in CheckResult
      BY <2>4
    <3> QED
      BY <2>4, <3>1
  <2>6. gate' = [gate EXCEPT !.checks = Append(@, all[Len(@) + 1])]
    BY <1>2, <2>3 DEF RunCheck
  <2>7. gate' \in Runs
    BY <2>1, <2>5, <2>6 DEF Runs
  <2> QED
    BY <1>2, <1>0, <1>p, <2>7 DEF RunCheck
<1>3. ASSUME Report PROVE GateTypeOK'
  <2>1. gate \in Runs
    BY <1>3, <1>0 DEF Report, Checking, NoGate
  <2>2. report' \in Reports
    BY <1>3, <2>1 DEF Report, Runs, Reports
  <2>3. files' \in SUBSET Facts /\ Consistent(files')
    BY <1>3, <1>0 DEF Report, Consistent
  <2> QED
    BY <1>3, <1>0, <1>p, <2>2, <2>3 DEF Report
<1>4. ASSUME NEW fact \in Edited, Edit(fact) PROVE GateTypeOK'
  <2>1. gate' = NoGate \/ gate' \in Runs
    BY <1>4, <1>0 DEF Edit, Disturbed, NoGate, Runs
  <2>2. report' = NoReport \/ report' \in Reports
    BY <1>4, <1>0 DEF Edit, Disturbed, NoReport, Reports
  <2>3. files' \in SUBSET Facts /\ Consistent(files')
    BY <1>4, <1>0 DEF Edit
  <2>4. edits' \in 0..MaxEdits
    BY <1>4, <1>0 DEF Edit
  <2> QED
    BY <1>4, <1>0, <1>p, <2>1, <2>2, <2>3, <2>4 DEF Edit
<1>5. ASSUME UNCHANGED gateVars PROVE GateTypeOK'
  BY <1>5, <1>0, <1>p DEF gateVars
<1> QED
  BY <1>1, <1>2, <1>3, <1>4, <1>5 DEF GateNext

(* As long as nobody edits, what the checks say does not change: neither a
   run nor its report disturbs the tree that the checks look at.           *)
LEMMA UndisturbedChecks ==
  ASSUME GateTypeOK, [GateNext]_gateVars, ~(\E fact \in Edited : Edit(fact)), NEW included
  PROVE  ChecksToRun(included)' = ChecksToRun(included)
<1>1. programs' = programs /\ Consistent(files)
      /\ (files' = files \/ files' = files \cup {"validation_dir", "release_readiness_gate_run"})
  BY DEF GateTypeOK, GateNext, Start, RunCheck, Report, gateVars
<1>2. UNCHANGED <<BASE_CHECKS, R2_CHECKS, R3_CHECKS>>
  BY <1>1, OwnReportChangesNothing
<1> QED
  BY <1>2 DEF ChecksToRun

LEMMA CheckedStep ==
  ASSUME GateInv, [GateNext]_gateVars PROVE CheckedSoFar'
<1> SUFFICES ASSUME Checking', gate'.steady,
                    NEW i \in DOMAIN gate'.checks
             PROVE  gate'.checks[i] = (ChecksToRun(gate.included)[i])'
  BY DEF CheckedSoFar
<1> PICK included : included = gate'.included
  OBVIOUS
<1> SUFFICES gate'.checks[i] = ChecksToRun(included)'[i]
  OBVIOUS
<1>0. GateTypeOK /\ (gate = NoGate \/ gate \in Runs)
  BY GateTypeParts DEF GateInv
<1>1. ~(\E fact \in Edited : Edit(fact))
  <2> SUFFICES ASSUME NEW fact \in Edited, Edit(fact) PROVE FALSE
    OBVIOUS
  <2> QED
    BY <1>0 DEF Edit, Disturbed, Runs, NoGate, Checking
<1>2. ChecksToRun(included)' = ChecksToRun(included)
  BY <1>0, <1>1, UndisturbedChecks
<1>3. CASE \E inc \in Included, strict \in Strictness : Start(inc, strict)
  BY <1>3 DEF Start
<1>4. CASE RunCheck
  <2>1. gate \in Runs /\ Checking
    BY <1>4, <1>0 DEF RunCheck, Checking, NoGate
  <2>2. gate.included = included /\ gate.steady
    BY <1>4, <2>1 DEF RunCheck, Runs
  <2>3. gate.checks \in Seq(CheckResult)
    BY <2>1 DEF Runs
  <2>4. gate'.checks = Append(gate.checks, ChecksToRun(included)[Len(gate.checks) + 1])
    BY <1>4, <2>1, <2>2 DEF RunCheck, Runs
  <2>5. \A k \in DOMAIN gate.checks : gate.checks[k] = ChecksToRun(included)[k]
    BY <2>1, <2>2 DEF GateInv, CheckedSoFar
  <2> HIDE DEF CheckResult
  <2>6. gate'.checks[i] = ChecksToRun(included)[i]
    BY <2>3, <2>4, <2>5
  <2> QED
    BY <2>6, <1>2
<1>5. CASE Report
  BY <1>5 DEF Report, NoGate, Checking
<1>6. CASE UNCHANGED gateVars
  <2>1. gate' = gate
    BY <1>6 DEF gateVars
  <2>2. Checking /\ gate.steady
    BY <2>1 DEF Checking
  <2>3. gate.checks[i] = ChecksToRun(included)[i]
    BY <2>1, <2>2 DEF GateInv, CheckedSoFar
  <2> QED
    BY <2>1, <2>3, <1>2
<1> QED
  BY <1>1, <1>3, <1>4, <1>5, <1>6 DEF GateNext

LEMMA ReportTrueStep ==
  ASSUME GateInv, [GateNext]_gateVars PROVE ReportIsTrue'
<1> SUFFICES ASSUME report'.made, report'.steady
             PROVE  report'.checks = ChecksToRun(report.included)'
  BY DEF ReportIsTrue
<1> PICK included : included = report'.included
  OBVIOUS
<1> SUFFICES report'.checks = ChecksToRun(included)'
  OBVIOUS
<1>0. /\ GateTypeOK /\ (gate = NoGate \/ gate \in Runs)
      /\ report = NoReport \/ report \in Reports
  BY GateTypeParts DEF GateInv
<1>1. ~(\E fact \in Edited : Edit(fact))
  <2> SUFFICES ASSUME NEW fact \in Edited, Edit(fact) PROVE FALSE
    OBVIOUS
  <2>1. report' = Disturbed(report)
    BY DEF Edit
  <2>2. CASE report = NoReport
    BY <2>1, <2>2 DEF Disturbed, NoReport
  <2>3. CASE report \in Reports
    BY <2>1, <2>3 DEF Disturbed, Reports
  <2> QED
    BY <1>0, <2>2, <2>3
<1>2. ChecksToRun(included)' = ChecksToRun(included)
  BY <1>0, <1>1, UndisturbedChecks
<1>3. CASE Report
  <2>1. gate \in Runs /\ Checking
    BY <1>3, <1>0 DEF Report, Checking, NoGate
  <2>2. /\ gate.included = included /\ gate.steady /\ report'.checks = gate.checks
        /\ Len(gate.checks) = Len(ChecksToRun(included))
    BY <1>3, <2>1 DEF Report
  <2>3. gate.checks \in Seq(CheckResult) /\ ChecksToRun(included) \in Seq(CheckResult)
    BY <2>1, ChecksType DEF Runs
  <2>4. \A k \in DOMAIN gate.checks : gate.checks[k] = ChecksToRun(included)[k]
    BY <2>1, <2>2 DEF GateInv, CheckedSoFar
  <2> HIDE DEF CheckResult
  <2>5. gate.checks = ChecksToRun(included)
    BY <2>2, <2>3, <2>4
  <2> QED
    BY <2>2, <2>5, <1>2
<1>4. CASE report' = report
  BY <1>4, <1>2 DEF GateInv, ReportIsTrue
<1> QED
  BY <1>1, <1>3, <1>4 DEF GateNext, gateVars, Start, RunCheck

LEMMA ExitStep ==
  ASSUME GateInv, [GateNext]_gateVars PROVE ExitIsExact'
<1>0. report = NoReport \/ report \in Reports
  BY GateTypeParts DEF GateInv
<1>1. CASE Report
  BY <1>1 DEF Report, ExitIsExact
<1>2. CASE \E fact \in Edited : Edit(fact)
  <2>1. PICK fact \in Edited : Edit(fact)
    BY <1>2
  <2>2. report' = Disturbed(report)
    BY <2>1 DEF Edit
  <2>3. CASE report = NoReport
    BY <2>2, <2>3 DEF Disturbed, NoReport, ExitIsExact
  <2>4. CASE report \in Reports
    <3>1. /\ report'.strict = report.strict /\ report'.checks = report.checks
          /\ report'.exit = report.exit /\ report.made
      BY <2>2, <2>4 DEF Disturbed, Reports
    <3> QED
      BY <3>1 DEF GateInv, ExitIsExact
  <2> QED
    BY <1>0, <2>3, <2>4
<1>3. CASE report' = report
  BY <1>3 DEF GateInv, ExitIsExact
<1> QED
  BY <1>1, <1>2, <1>3 DEF GateNext, gateVars, Start, RunCheck

LEMMA GateStep == GateInv /\ [GateNext]_gateVars => GateInv'
BY GateTypeStep, CheckedStep, ReportTrueStep, ExitStep DEF GateInv

(* The gate's invariant holds for every tree, every way its programs may
   answer and any number of runs and edits.                                *)
THEOREM GateInvariant == GateSpec => []GateInv
BY GateStart, GateStep, PTL DEF GateSpec

(* The type invariant of the readiness gate.                               *)
THEOREM GateTypes == GateSpec => []GateTypeOK
BY GateInvariant, PTL DEF GateInv

(* The report of a run that nobody disturbed is what the checks say of the
   tree, the report included: a second run agrees with it.                 *)
THEOREM ReportsAreTrue == GateSpec => []ReportIsTrue
BY GateInvariant, PTL DEF GateInv
-----------------------------------------------------------------------------
LEMMA InConcatenation ==
  ASSUME NEW a \in Seq(CheckResult), NEW b \in Seq(CheckResult), NEW c \in Seq(CheckResult)
  PROVE  /\ \A i \in DOMAIN a : \E j \in DOMAIN (a \o b \o c) : (a \o b \o c)[j] = a[i]
         /\ \A i \in DOMAIN b : \E j \in DOMAIN (a \o b \o c) : (a \o b \o c)[j] = b[i]
         /\ \A i \in DOMAIN c : \E j \in DOMAIN (a \o b \o c) : (a \o b \o c)[j] = c[i]
<1> HIDE DEF CheckResult
<1> DEFINE all == a \o b \o c
<1>1. ASSUME NEW i \in DOMAIN a PROVE i \in DOMAIN all /\ all[i] = a[i]
  OBVIOUS
<1>2. ASSUME NEW i \in DOMAIN b PROVE Len(a) + i \in DOMAIN all /\ all[Len(a) + i] = b[i]
  OBVIOUS
<1>3. ASSUME NEW i \in DOMAIN c
      PROVE  Len(a) + Len(b) + i \in DOMAIN all /\ all[Len(a) + Len(b) + i] = c[i]
  OBVIOUS
<1> HIDE DEF all
<1>4. /\ \A i \in DOMAIN a : \E j \in DOMAIN all : all[j] = a[i]
      /\ \A i \in DOMAIN b : \E j \in DOMAIN all : all[j] = b[i]
      /\ \A i \in DOMAIN c : \E j \in DOMAIN all : all[j] = c[i]
  BY <1>1, <1>2, <1>3
<1> QED
  BY <1>4 DEF all

(* When all checks ran under a strict flag and the exit code is 0, none of
   the 36 failed.                                                          *)
LEMMA NoneFailed ==
  ASSUME GateInv, report.made, report.steady, report.included = "all", report.exit = 0,
         report.strict \cap {"strict", "strict_rc"} # {}
  PROVE  /\ \A i \in DOMAIN BASE_CHECKS : BASE_CHECKS[i].status # "fail"
         /\ \A i \in DOMAIN R2_CHECKS : R2_CHECKS[i].status # "fail"
         /\ \A i \in DOMAIN R3_CHECKS : R3_CHECKS[i].status # "fail"
<1> DEFINE all == BASE_CHECKS \o R2_CHECKS \o R3_CHECKS
           passed == { r \in CheckResult : r.status # "fail" }
<1>1. all = report.checks
  BY DEF GateInv, ReportIsTrue, ChecksToRun
<1>2. ~StrictFail(report.strict, report.checks)
  BY DEF GateInv, ExitIsExact
<1>3. \A i \in DOMAIN all : all[i].status # "fail"
  BY <1>1, <1>2 DEF StrictFail, Failed
<1>4. \A i \in DOMAIN all : all[i] \in CheckResult
  <2>1. all \in Seq(CheckResult)
    BY ChecksType
  <2> HIDE DEF all, CheckResult
  <2> QED
    BY <2>1
<1>5. \A i \in DOMAIN all : all[i] \in passed
  BY <1>3, <1>4
<1> HIDE DEF passed, CheckResult
<1>6. /\ BASE_CHECKS \in Seq(CheckResult) /\ R2_CHECKS \in Seq(CheckResult)
      /\ R3_CHECKS \in Seq(CheckResult)
  BY ChecksType
<1>7. /\ \A i \in DOMAIN BASE_CHECKS : BASE_CHECKS[i] \in passed
      /\ \A i \in DOMAIN R2_CHECKS : R2_CHECKS[i] \in passed
      /\ \A i \in DOMAIN R3_CHECKS : R3_CHECKS[i] \in passed
  <2>1. /\ \A i \in DOMAIN BASE_CHECKS : \E j \in DOMAIN all : all[j] = BASE_CHECKS[i]
        /\ \A i \in DOMAIN R2_CHECKS : \E j \in DOMAIN all : all[j] = R2_CHECKS[i]
        /\ \A i \in DOMAIN R3_CHECKS : \E j \in DOMAIN all : all[j] = R3_CHECKS[i]
    BY <1>6, InConcatenation, ZenonT(30)
  <2> HIDE DEF all
  <2> QED
    BY <2>1, <1>5
<1> QED
  BY <1>7 DEF passed

LEMMA BasePassed ==
  ASSUME \A i \in DOMAIN BASE_CHECKS : BASE_CHECKS[i].status # "fail"
  PROVE  /\ package_metadata_valid # "fail" /\ cli_help_works # "fail" /\ ruff_passes # "fail"
         /\ mypy_passes # "fail" /\ docs_exist # "fail" /\ no_dangerous_release_claims # "fail"
<1> DEFINE statuses ==
  <<package_metadata_valid, cli_help_works, pytest_evidence, ruff_passes, mypy_passes,
    docs_exist, mcp_smoke_path_exists, a2a_smoke_path_exists, mock_executor_works,
    packaging_files_exist, no_dangerous_release_claims, release_blockers_recorded>>
<1>1. BASE_CHECKS = Round(1, statuses)
  BY DEF BASE_CHECKS
<1>2. statuses \in Seq(Status) /\ 1 \in 1..3
  BY BaseStatuses
<1>3. DOMAIN statuses = 1..12
  OBVIOUS
<1>4. \A i \in 1..12 : statuses[i] # "fail"
  <2> HIDE DEF statuses, Status
  <2> QED
    BY <1>1, <1>2, <1>3, RoundType
<1> QED
  BY <1>4

LEMMA R2Passed ==
  ASSUME \A i \in DOMAIN R2_CHECKS : R2_CHECKS[i].status # "fail"
  PROVE  /\ r2_version_consistency # "fail" /\ r2_license_file_present # "fail"
         /\ r2_wheel_version_works # "fail" /\ r2_a2a_http_ssrf_hardened # "fail"
         /\ r2_homebrew_metadata_owner_fixed # "fail" /\ r2_homebrew_sha256_not_stale # "fail"
         /\ r2_macos_info_plist_version_match # "fail"
<1> DEFINE statuses ==
  <<r2_version_consistency, r2_license_file_present, r2_license_metadata_match,
    r2_wheel_version_works, r2_a2a_http_ssrf_hardened, r2_milestone_flow_tested,
    r2_release_flow_tested, r2_release_workflow_pytest_gate,
    r2_homebrew_metadata_owner_fixed, r2_homebrew_sha256_not_stale,
    r2_macos_info_plist_version_match, r2_remaining_blockers_recorded>>
<1>1. R2_CHECKS = Round(2, statuses)
  BY DEF R2_CHECKS
<1>2. statuses \in Seq(Status) /\ 2 \in 1..3
  BY R2Statuses
<1>3. DOMAIN statuses = 1..12
  OBVIOUS
<1>4. \A i \in 1..12 : statuses[i] # "fail"
  <2> HIDE DEF statuses, Status
  <2> QED
    BY <1>1, <1>2, <1>3, RoundType, SMTT(30)
<1> QED
  BY <1>4

LEMMA R3Passed ==
  ASSUME \A i \in DOMAIN R3_CHECKS : R3_CHECKS[i].status # "fail"
  PROVE  /\ r3_ruff_clean # "fail" /\ r3_mcp_apply_guardrail_present # "fail"
         /\ r3_a2a_dns_rebinding_pinned # "fail" /\ r3_changelog_present # "fail"
         /\ r3_docker_base_digest_pinned # "fail"
         /\ r3_homebrew_publish_time_blocker_clean # "fail"
<1> DEFINE statuses ==
  <<r3_mypy_clean, r3_ruff_clean, r3_lint_yml_scans_scripts,
    r3_mcp_apply_guardrail_present, r3_a2a_dns_rebinding_pinned,
    r3_worker_isolator_symlink_safe, r3_changelog_present,
    r3_configuration_doc_present, r3_troubleshooting_doc_present,
    r3_docker_base_digest_pinned, r3_homebrew_publish_time_blocker_clean,
    r3_pypi_rc_not_blocked_by_homebrew>>
<1>1. R3_CHECKS = Round(3, statuses)
  BY DEF R3_CHECKS
<1>2. statuses \in Seq(Status) /\ 3 \in 1..3
  BY R3Statuses
<1>3. DOMAIN statuses = 1..12
  OBVIOUS
<1>4. \A i \in 1..12 : statuses[i] # "fail"
  <2> HIDE DEF statuses, Status
  <2> QED
    BY <1>1, <1>2, <1>3, RoundType, SMTT(30)
<1> QED
  BY <1>4

LEMMA StrictEarned == GateInv => StrictIsEarned
<1> SUFFICES ASSUME GateInv, report.made, report.steady, report.included = "all",
                    report.exit = 0, report.strict \cap {"strict", "strict_rc"} # {}
             PROVE  /\ Has({"readme", "license", "changelog", "entry_point", "version_0_1_0",
                            "http_transport", "ip_pin", "both_gates", "from_lines_pinned"})
                    /\ ~Has({"forbidden_claim"}) /\ ~Has({"stale_sha"}) /\ ~Has({"old_owner"})
                    /\ Blocked \/ Backfilled
                    /\ Exit0("ruff") /\ Exit0Late("mypy")
                    /\ Has({"wheel"}) => Has({"wheel_version_matches"})
                    /\ Has({"plist"}) => Has({"plist_version"})
                    /\ programs["autodev_help"] \in {"ok", "missing"}
                    /\ Exit0("import_version") => Has({"versions_agree"})
  BY DEF StrictIsEarned
<1>1. /\ package_metadata_valid # "fail" /\ cli_help_works # "fail" /\ ruff_passes # "fail"
      /\ mypy_passes # "fail" /\ docs_exist # "fail" /\ no_dangerous_release_claims # "fail"
  BY NoneFailed, BasePassed
<1>2. /\ r2_version_consistency # "fail" /\ r2_license_file_present # "fail"
      /\ r2_wheel_version_works # "fail" /\ r2_a2a_http_ssrf_hardened # "fail"
      /\ r2_homebrew_metadata_owner_fixed # "fail" /\ r2_homebrew_sha256_not_stale # "fail"
      /\ r2_macos_info_plist_version_match # "fail"
  BY NoneFailed, R2Passed
<1>3. /\ r3_ruff_clean # "fail" /\ r3_mcp_apply_guardrail_present # "fail"
      /\ r3_a2a_dns_rebinding_pinned # "fail" /\ r3_changelog_present # "fail"
      /\ r3_docker_base_digest_pinned # "fail"
      /\ r3_homebrew_publish_time_blocker_clean # "fail"
  BY NoneFailed, R3Passed
<1>4. /\ Has({"readme"}) /\ Has({"entry_point"}) /\ ~Has({"forbidden_claim"})
      /\ Exit0Late("ruff") /\ Exit0Late("mypy") /\ programs["autodev_help"] \in {"ok", "missing"}
  BY <1>1 DEF package_metadata_valid, cli_help_works, ruff_passes, mypy_passes, docs_exist,
    no_dangerous_release_claims, Verdict, Has, Exit0
<1>5. /\ Has({"version_0_1_0"}) /\ Has({"license"}) /\ Has({"http_transport"})
      /\ ~Has({"old_owner"}) /\ ~Has({"stale_sha"})
      /\ Has({"wheel"}) => Has({"wheel_version_matches"})
      /\ Has({"plist"}) => Has({"plist_version"})
      /\ Exit0("import_version") => Has({"versions_agree"})
  BY <1>2 DEF r2_version_consistency, r2_license_file_present, r2_wheel_version_works,
    r2_a2a_http_ssrf_hardened, r2_homebrew_metadata_owner_fixed, r2_homebrew_sha256_not_stale,
    r2_macos_info_plist_version_match, Verdict, Has
<1>6. /\ Exit0("ruff") /\ Has({"both_gates"}) /\ Has({"ip_pin"}) /\ Has({"changelog"})
      /\ Has({"from_lines_pinned"}) /\ (Blocked \/ Backfilled)
  BY <1>3 DEF r3_ruff_clean, r3_mcp_apply_guardrail_present, r3_a2a_dns_rebinding_pinned,
    r3_changelog_present, r3_docker_base_digest_pinned,
    r3_homebrew_publish_time_blocker_clean, Verdict, Has
<1> QED
  BY <1>4, <1>5, <1>6 DEF Has

(* A strict run of all checks that nobody disturbed and that exits with 0
   has established what a release may rely on.                             *)
THEOREM StrictnessIsEarned == GateSpec => []StrictIsEarned
BY GateInvariant, StrictEarned, PTL
-----------------------------------------------------------------------------
(* Plans: what a task is made from.  The files of a task are different.    *)
Types ==
  {"scaffold", "feature", "integration", "security", "bugfix", "docs", "release", "test"}
MilestoneType == Series \X Nat
DistinctFiles(list) == \A a, b \in DOMAIN list : list[a] = list[b] => a = b
DraftType == { d \in [type : Types, files : Seq(PlanFiles), high : BOOLEAN] : DistinctFiles(d.files) }

(* The languages that are planned for.                                     *)
LEMMA SpokenType == ASSUME order \in OrderType
  PROVE  Spoken \in Seq(Languages) /\ Len(Spoken) \in Nat /\ DOMAIN Spoken = 1..Len(Spoken)
<1>1. <<"python">> \in Seq(Languages)
  BY DEF Languages
<1>2. Spoken \in Seq(Languages)
  BY <1>1 DEF Spoken, OrderType
<1> QED
  BY <1>2, LenProperties

(* The files of the skeleton and of its tasks.                             *)
LEMMA SkeletonType ==
  /\ \A l \in Languages : Skeleton(l) \subseteq PlanFiles
  /\ "src/init" \in PlanFiles /\ "tests/gitkeep" \in PlanFiles
BY DEF PlanFiles

LEMMA ToCreateType == ASSUME order \in OrderType PROVE FilesToCreate \subseteq PlanFiles
<1>1. \A i \in DOMAIN Spoken : Spoken[i] \in Languages
  BY SpokenType
<1> QED
  BY <1>1, SkeletonType DEF FilesToCreate

LEMMA NoFiles == <<>> \in Seq(PlanFiles) /\ DistinctFiles(<<>>)
BY DEF DistinctFiles

(* A list of at most four files.                                           *)
LEMMA FourFiles ==
  ASSUME NEW a \in PlanFiles, NEW b \in PlanFiles, NEW c \in PlanFiles, NEW d \in PlanFiles,
         a # b, a # c, a # d, b # c, b # d, c # d
  PROVE  /\ <<>> \in Seq(PlanFiles) /\ DistinctFiles(<<>>)
         /\ <<a>> \in Seq(PlanFiles) /\ DistinctFiles(<<a>>)
         /\ <<a, b>> \in Seq(PlanFiles) /\ DistinctFiles(<<a, b>>)
         /\ <<a, b, c>> \in Seq(PlanFiles) /\ DistinctFiles(<<a, b, c>>)
         /\ <<a, b, c, d>> \in Seq(PlanFiles) /\ DistinctFiles(<<a, b, c, d>>)
<1>1. <<>> \in Seq(PlanFiles) /\ DistinctFiles(<<>>)
  BY DEF DistinctFiles
<1>2. <<a>> \in Seq(PlanFiles) /\ DistinctFiles(<<a>>)
  BY DEF DistinctFiles
<1>3. <<a, b>> \in Seq(PlanFiles) /\ DistinctFiles(<<a, b>>)
  BY DEF DistinctFiles
<1>4. <<a, b, c>> \in Seq(PlanFiles) /\ DistinctFiles(<<a, b, c>>)
  BY DEF DistinctFiles
<1>5. <<a, b, c, d>> \in Seq(PlanFiles) /\ DistinctFiles(<<a, b, c, d>>)
  BY DEF DistinctFiles
<1> QED
  BY <1>1, <1>2, <1>3, <1>4, <1>5

LEMMA ScaffoldType ==
  ASSUME NEW l \in Languages
  PROVE  ScaffoldFiles(l) \in Seq(PlanFiles) /\ DistinctFiles(ScaffoldFiles(l))
<1>1. /\ "pyproject" \in PlanFiles /\ "tests/init" \in PlanFiles /\ "readme" \in PlanFiles
      /\ "cargo" \in PlanFiles /\ "src/lib" \in PlanFiles
      /\ "package" \in PlanFiles /\ "tsconfig" \in PlanFiles /\ "src/index" \in PlanFiles
  BY DEF PlanFiles, Languages, Skeleton
<1>2. CASE l = "python"
  BY <1>1, <1>2, SkeletonType, FourFiles DEF ScaffoldFiles
<1>3. CASE l = "rust"
  <2>1. "readme" \notin {"cargo", "src/lib", "tests/gitkeep"}
    OBVIOUS
  <2> QED
    BY <1>1, <1>3, <2>1, SkeletonType, FourFiles DEF ScaffoldFiles
<1>4. CASE l = "typescript"
  BY <1>1, <1>4, SkeletonType, FourFiles DEF ScaffoldFiles
<1>5. CASE l = "unknown"
  BY <1>5, NoFiles DEF ScaffoldFiles
<1> QED
  BY <1>2, <1>3, <1>4, <1>5 DEF Languages

LEMMA CoreType ==
  ASSUME NEW l \in Languages
  PROVE  CoreFiles(l) \in Seq(PlanFiles) /\ DistinctFiles(CoreFiles(l))
<1>1. "pkg/core" \in PlanFiles /\ "pkg/cli" \in PlanFiles /\ "readme" \in PlanFiles
      /\ "cargo" \in PlanFiles
  BY DEF PlanFiles, Languages, Skeleton
<1>2. <<"pkg/core", "pkg/cli">> \in Seq(PlanFiles) /\ DistinctFiles(<<"pkg/core", "pkg/cli">>)
  BY <1>1 DEF DistinctFiles
<1> QED
  BY <1>2, NoFiles DEF CoreFiles

(* Drafts.                                                                 *)
LEMMA DraftIsOne ==
  ASSUME NEW type \in Types, NEW high \in BOOLEAN, NEW list \in Seq(PlanFiles), DistinctFiles(list)
  PROVE  Draft(type, list, high) \in DraftType
BY DEF Draft, DraftType

LEMMA PlainIsOne == ASSUME NEW type \in Types PROVE Plain(type) \in DraftType
<1>1. <<>> \in Seq(PlanFiles) /\ DistinctFiles(<<>>)
  BY DEF DistinctFiles
<1> QED
  BY <1>1, DraftIsOne DEF Plain

LEMMA DraftsType ==
  ASSUME order \in OrderType, NEW m, NEW size
  PROVE  Drafts(m, size) \in Seq(DraftType)
<1>1. \A l \in Languages : /\ Draft("scaffold", ScaffoldFiles(l), FALSE) \in DraftType
                           /\ Draft("feature", CoreFiles(l), FALSE) \in DraftType
  BY ScaffoldType, CoreType, DraftIsOne DEF Types
<1>2. /\ [i \in DOMAIN Spoken |-> Draft("scaffold", ScaffoldFiles(Spoken[i]), FALSE)] \in Seq(DraftType)
      /\ [i \in DOMAIN Spoken |-> Draft("feature", CoreFiles(Spoken[i]), FALSE)] \in Seq(DraftType)
  <2> DEFINE n == Len(Spoken)
             one == [i \in 1..n |-> Draft("scaffold", ScaffoldFiles(Spoken[i]), FALSE)]
             two == [i \in 1..n |-> Draft("feature", CoreFiles(Spoken[i]), FALSE)]
  <2>1. n \in Nat /\ DOMAIN Spoken = 1..n /\ \A i \in 1..n : Spoken[i] \in Languages
    BY SpokenType
  <2>2. one \in [1..n -> DraftType] /\ two \in [1..n -> DraftType]
    BY <1>1, <2>1
  <2> HIDE DEF n, one, two
  <2>3. one \in Seq(DraftType) /\ two \in Seq(DraftType)
    BY <2>1, <2>2, SeqDef
  <2> QED
    BY <2>1, <2>3 DEF one, two
<1>3. /\ \A type \in Types : <<Plain(type)>> \in Seq(DraftType)
      /\ \A t1, t2 \in Types : <<Plain(t1), Plain(t2)>> \in Seq(DraftType)
      /\ <<>> \in Seq(DraftType)
  BY PlainIsOne
<1>4. Draft("feature", <<>>, TRUE) \in DraftType /\ Draft("security", <<>>, TRUE) \in DraftType
  <2>1. <<>> \in Seq(PlanFiles) /\ DistinctFiles(<<>>)
    BY DEF DistinctFiles
  <2> QED
    BY <2>1, DraftIsOne DEF Types
<1>5. Draft("feature", <<"pkg/cli">>, FALSE) \in DraftType
  <2>1. <<"pkg/cli">> \in Seq(PlanFiles) /\ DistinctFiles(<<"pkg/cli">>)
    <3>1. "pkg/cli" \in PlanFiles
      BY DEF PlanFiles, Languages, Skeleton
    <3> QED
      BY <3>1 DEF DistinctFiles
  <2> QED
    BY <2>1, DraftIsOne DEF Types
<1>6. <<Draft("security", <<>>, TRUE), Plain("bugfix")>> \in Seq(DraftType)
  <2>1. Plain("bugfix") \in DraftType
    BY PlainIsOne DEF Types
  <2>2. \A d, e \in DraftType : <<d, e>> \in Seq(DraftType)
    OBVIOUS
  <2> QED
    BY <1>4, <2>1, <2>2
<1>7. /\ "feature" \in Types /\ "integration" \in Types /\ "docs" \in Types /\ "release" \in Types
  BY DEF Types
<1>8. <<Draft("feature", <<>>, TRUE)>> \in Seq(DraftType)
      /\ <<Draft("feature", <<"pkg/cli">>, FALSE)>> \in Seq(DraftType)
  <2>1. \A d \in DraftType : <<d>> \in Seq(DraftType)
    OBVIOUS
  <2> QED
    BY <1>4, <1>5, <2>1
<1> HIDE DEF Types
<1> QED
  BY <1>2, <1>3, <1>6, <1>7, <1>8 DEF Drafts

(* What a task is made of.                                                 *)
LEMMA TaskFields ==
  ASSUME NEW m \in MilestoneType, NEW id \in MilestoneType \X Nat, NEW draft \in DraftType,
         NEW deps \in SUBSET (MilestoneType \X Nat)
  PROVE  /\ Task(m, id, draft, deps) \in TaskType
         /\ Task(m, id, draft, deps).milestone = m /\ Task(m, id, draft, deps).id = id
         /\ Task(m, id, draft, deps).deps = deps /\ Task(m, id, draft, deps).files = draft.files
BY DEF Task, TaskType, MilestoneType, DraftType, Types

(* What is planned for a milestone of a delivery or of an issue.           *)
LEMMA PlannedTasks ==
  ASSUME PlanningTypeOK, NEW m \in MilestoneType
  PROVE  /\ Planned(m) \in Seq(TaskType)
         /\ \A i \in DOMAIN Planned(m) :
              /\ Planned(m)[i].milestone = m /\ Planned(m)[i].id = <<m, Len(tasks) + i>>
              /\ Planned(m)[i].deps = {} /\ DistinctFiles(Planned(m)[i].files)
<1> DEFINE drafts == Drafts(m, scale)
           n == Len(drafts)
           list == [i \in 1..n |-> Task(m, <<m, Len(tasks) + i>>, drafts[i], {})]
<1>1. drafts \in Seq(DraftType)
  BY DraftsType DEF PlanningTypeOK
<1>2. n \in Nat /\ DOMAIN drafts = 1..n /\ \A i \in 1..n : drafts[i] \in DraftType
  BY <1>1, LenProperties
<1> HIDE DEF drafts, n
<1>3. Len(tasks) \in Nat
  BY DEF PlanningTypeOK
<1>4. ASSUME NEW i \in 1..n
      PROVE  LET t == Task(m, <<m, Len(tasks) + i>>, drafts[i], {})
             IN /\ t \in TaskType /\ t.milestone = m /\ t.id = <<m, Len(tasks) + i>>
                /\ t.deps = {} /\ DistinctFiles(t.files)
  <2>1. <<m, Len(tasks) + i>> \in MilestoneType \X Nat
    BY <1>2, <1>3
  <2>2. drafts[i] \in DraftType /\ DistinctFiles(drafts[i].files)
    BY <1>2 DEF DraftType
  <2> QED
    BY <2>1, <2>2, TaskFields
<1>5. list \in [1..n -> TaskType] /\ \A i \in 1..n : list[i] = Task(m, <<m, Len(tasks) + i>>, drafts[i], {})
  BY <1>4
<1> HIDE DEF list
<1>6. list \in Seq(TaskType)
  BY <1>2, <1>5, SeqDef
<1>7. Planned(m) = list /\ DOMAIN list = 1..n
  BY <1>2, <1>5 DEF Planned, list, drafts
<1> QED
  BY <1>4, <1>5, <1>6, <1>7

(* The four stages.                                                        *)
LEMMA StagesOf ==
  ASSUME NEW m \in MilestoneType
  PROVE  /\ Stages(m) \in Seq(TaskType) /\ DOMAIN Stages(m) = 1..4 /\ Len(Stages(m)) = 4
         /\ \A i \in 1..4 :
              /\ Stages(m)[i].milestone = m /\ Stages(m)[i].id = <<<<"BUG", 0>>, i>>
              /\ Stages(m)[i].deps = IF i = 1 THEN {} ELSE {<<<<"BUG", 0>>, i - 1>>}
              /\ DistinctFiles(Stages(m)[i].files)
<1> DEFINE Stage(i) == Task(m, <<<<"BUG", 0>>, i>>, Plain(StageType(i)),
                            IF i = 1 THEN {} ELSE {<<<<"BUG", 0>>, i - 1>>})
<1>1. ASSUME NEW i \in 1..4
      PROVE  LET t == Stage(i)
             IN /\ t \in TaskType /\ t.milestone = m /\ t.id = <<<<"BUG", 0>>, i>>
                /\ t.deps = IF i = 1 THEN {} ELSE {<<<<"BUG", 0>>, i - 1>>}
                /\ DistinctFiles(t.files)
  <2>1. <<"BUG", 0>> \in MilestoneType
    BY DEF MilestoneType, Series
  <2>2. <<<<"BUG", 0>>, i>> \in MilestoneType \X Nat
    BY <2>1
  <2>3. (IF i = 1 THEN {} ELSE {<<<<"BUG", 0>>, i - 1>>}) \in SUBSET (MilestoneType \X Nat)
    BY <2>1
  <2>4. Plain(StageType(i)) \in DraftType /\ DistinctFiles(Plain(StageType(i)).files)
    BY PlainIsOne DEF StageType, Types, DraftType
  <2> QED
    BY <2>2, <2>3, <2>4, TaskFields
<1>2. Stages(m) \in [1..4 -> TaskType] /\ \A i \in 1..4 : Stages(m)[i] = Stage(i)
  BY <1>1 DEF Stages
<1>3. Stages(m) \in Seq(TaskType) /\ DOMAIN Stages(m) = 1..4
  BY <1>2, SeqDef
<1>4. Len(Stages(m)) = 4
  BY <1>3, LenProperties
<1> QED
  BY <1>1, <1>2, <1>3, <1>4

(* They belong to their milestone.                                         *)
LEMMA StagesOwn ==
  ASSUME NEW m \in MilestoneType
  PROVE  \A i \in DOMAIN Stages(m) :
           Stages(m)[i].milestone = m /\ DistinctFiles(Stages(m)[i].files)
<1>1. DOMAIN Stages(m) = 1..4
  BY StagesOf
<1> QED
  BY <1>1, StagesOf

(* The milestones of a scale are different.                                *)
LEMMA TemplateType ==
  ASSUME NEW size
  PROVE  /\ Template(size) \in Seq(MilestoneType)
         /\ \A i, j \in DOMAIN Template(size) : Template(size)[i] = Template(size)[j] => i = j
<1> DEFINE small == <<0, 10, 20, 40, 50>>
<1>1. \A n \in Nat : M(n) \in MilestoneType
  BY DEF M, MilestoneType, Series
<1>2. \A n, k \in Nat : M(n) = M(k) => n = k
  BY DEF M
<1> HIDE DEF M
<1>3. CASE size = "bug-fix"
  BY <1>1, <1>3 DEF Template
<1>4. CASE size = "small"
  BY <1>1, <1>2, <1>4 DEF Template
<1>5. CASE size = "medium"
  BY <1>1, <1>2, <1>5 DEF Template
<1>6. CASE size \notin {"bug-fix", "small", "medium"}
  BY <1>1, <1>2, <1>6 DEF Template
<1> QED
  BY <1>3, <1>4, <1>5, <1>6

(* Plans.  The stages of the flows in their order, what is known of their
   milestones, and of tasks: those of a delivery or an issue are numbered
   through, those of a bug fix or a candidate are its four stages.          *)
StageInOrder ==
  /\ stage = "scale" => order.flow = "delivery" /\ milestones = <<>> /\ tasks = <<>>
  /\ stage \in {"scale", "tasks", "scaffold"} =>
       given = <<>> /\ dropped = {} /\ order.flow # "multi_patch"
  /\ stage = "tasks" /\ order.flow = "bug_fix" => tasks = <<>> /\ task_ids = <<>>
  /\ stage = "scaffold" => order.flow = "delivery"
  /\ stage \in {"scaffold", "implement", "candidate", "over"} => Len(task_ids) = Len(milestones)
  /\ stage = "candidate" => order.flow = "multi_patch" /\ Len(given) = Len(milestones)
  /\ stage = "implement" /\ order.flow = "multi_patch" => Len(milestones) = Len(given) + 1
  /\ stage = "over" => Len(given) = Len(milestones) \/ (failures # {} /\ order.stops)
  /\ Len(task_ids) <= Len(milestones) /\ Len(given) <= Len(milestones)
  /\ order.flow # "delivery" => dropped = {}

MilestonesKnown ==
  /\ \A i, j \in DOMAIN milestones : milestones[i] = milestones[j] => i = j
  /\ order.flow \in {"issue", "bug_fix"} => Len(milestones) = 1
  /\ order.flow = "issue" => milestones[1] = <<"MI", 1>>
  /\ order.flow = "multi_patch" => \A k \in DOMAIN milestones : milestones[k] = <<"MPATCH", k>>

TasksNumbered ==
  /\ \A t \in DOMAIN tasks : \E k \in DOMAIN task_ids : tasks[t].milestone = milestones[k]
  /\ order.flow \in {"delivery", "issue"} =>
       \A t \in DOMAIN tasks : tasks[t].id = <<tasks[t].milestone, t>> /\ tasks[t].deps = {}
  /\ \A t \in DOMAIN tasks : DistinctFiles(tasks[t].files)

TasksStaged ==
  order.flow \in {"bug_fix", "multi_patch"} =>
    /\ Len(tasks) = 4 * Len(task_ids)
    /\ \A t \in DOMAIN tasks : \E k \in DOMAIN task_ids, i \in 1..4 :
         t = 4 * (k - 1) + i /\ tasks[t] = Stages(milestones[k])[i]

GivenAsPlanned == \A k \in DOMAIN given : given[k] = TasksOf(milestones[k])
DroppedArePresent ==
  \A t \in dropped : \A i \in DOMAIN tasks[t].files : disk[tasks[t].files[i]] # "absent"
WritesArePolite ==
  writing # NoFile =>
    /\ stage = "scaffold" /\ ~order.dry_run
    /\ disk[writing] = "absent" \/ writing \in raced

PlanKept == MilestonesKnown /\ TasksNumbered /\ TasksStaged /\ MilestonesListTheirs
PlanningInv ==
  /\ PlanningTypeOK /\ StageInOrder /\ PlanKept
  /\ GivenAsPlanned /\ DroppedArePresent /\ WritesArePolite /\ SkeletonIsPolite

(* What the types say of the sequences.                                    *)
LEMMA PlanSeqs ==
  ASSUME PlanningTypeOK
  PROVE  /\ Len(milestones) \in Nat /\ DOMAIN milestones = 1..Len(milestones)
         /\ Len(tasks) \in Nat /\ DOMAIN tasks = 1..Len(tasks)
         /\ Len(task_ids) \in Nat /\ DOMAIN task_ids = 1..Len(task_ids)
         /\ Len(given) \in Nat /\ DOMAIN given = 1..Len(given)
         /\ \A k \in DOMAIN milestones : milestones[k] \in MilestoneType
         /\ \A t \in DOMAIN tasks : tasks[t] \in TaskType
<1>1. /\ milestones \in Seq(MilestoneType) /\ tasks \in Seq(TaskType)
      /\ task_ids \in Seq(SUBSET ((Series \X Nat) \X Nat)) /\ given \in Seq(SUBSET DOMAIN tasks)
  BY DEF PlanningTypeOK, MilestoneType
<1>2. \A k \in DOMAIN milestones : milestones[k] \in MilestoneType
  BY <1>1
<1>3. \A t \in DOMAIN tasks : tasks[t] \in TaskType
  BY <1>1
<1> QED
  BY <1>1, <1>2, <1>3, LenProperties

(* Tasks are put behind the others.                                        *)
LEMMA MoreTasks ==
  ASSUME PlanningTypeOK, NEW more \in Seq(TaskType), tasks' = tasks \o more
  PROVE  /\ tasks' \in Seq(TaskType) /\ Len(tasks') = Len(tasks) + Len(more)
         /\ DOMAIN tasks' = 1..Len(tasks')
         /\ \A t \in DOMAIN tasks : t \in DOMAIN tasks' /\ tasks'[t] = tasks[t]
         /\ \A i \in DOMAIN more :
              Len(tasks) + i \in DOMAIN tasks' /\ tasks'[Len(tasks) + i] = more[i]
         /\ \A t \in DOMAIN tasks' : t \in DOMAIN tasks \/ \E i \in DOMAIN more : t = Len(tasks) + i
<1>1. tasks \in Seq(TaskType)
  BY DEF PlanningTypeOK
<1>2. /\ tasks' \in Seq(TaskType) /\ Len(tasks') = Len(tasks) + Len(more)
      /\ \A i \in 1..Len(tasks) + Len(more) :
           tasks'[i] = IF i <= Len(tasks) THEN tasks[i] ELSE more[i - Len(tasks)]
  BY <1>1, ConcatProperties
<1>3. /\ Len(tasks) \in Nat /\ DOMAIN tasks = 1..Len(tasks)
      /\ Len(more) \in Nat /\ DOMAIN more = 1..Len(more) /\ DOMAIN tasks' = 1..Len(tasks')
  BY <1>1, <1>2, LenProperties
<1>4. ASSUME NEW t \in DOMAIN tasks', t \notin DOMAIN tasks
      PROVE  \E i \in DOMAIN more : t = Len(tasks) + i
  <2>1. t - Len(tasks) \in DOMAIN more /\ t = Len(tasks) + (t - Len(tasks))
    BY <1>2, <1>3, <1>4
  <2> QED
    BY <2>1
<1> QED
  BY <1>2, <1>3, <1>4

(* Of a milestone that gets none of them, ids and tasks stay what they were. *)
LEMMA OthersStay ==
  ASSUME PlanningTypeOK, NEW more \in Seq(TaskType), tasks' = tasks \o more,
         UNCHANGED dropped, NEW m, \A i \in DOMAIN more : more[i].milestone # m
  PROVE  IdsOf(tasks', m) = IdsOf(tasks, m) /\ TasksOf(m)' = TasksOf(m)
<1>1. { u \in DOMAIN tasks' : tasks'[u].milestone = m } = { u \in DOMAIN tasks : tasks[u].milestone = m }
  BY MoreTasks
<1>2. \A u \in DOMAIN tasks : tasks'[u] = tasks[u]
  BY MoreTasks
<1>3. IdsOf(tasks', m) = IdsOf(tasks, m)
  BY <1>1, <1>2 DEF IdsOf
<1>4. TasksOf(m)' = TasksOf(m)
  BY MoreTasks DEF TasksOf
<1> QED
  BY <1>3, <1>4

(* The ids of tasks are ids.                                               *)
LEMMA IdsType ==
  ASSUME NEW list \in Seq(TaskType), NEW m
  PROVE  IdsOf(list, m) \in SUBSET (MilestoneType \X Nat)
<1>1. \A t \in DOMAIN list : list[t] \in TaskType
  OBVIOUS
<1>2. \A t \in DOMAIN list : list[t].id \in MilestoneType \X Nat
  BY <1>1 DEF TaskType, MilestoneType
<1> QED
  BY <1>2 DEF IdsOf

(* Nothing is planned at first.                                            *)
LEMMA PlanningStart == PlanningInit => PlanningInv
<1> SUFFICES ASSUME PlanningInit PROVE PlanningInv
  OBVIOUS
<1> USE PlanningAssumption
<1>1. order \in OrderType
  BY DEF PlanningInit
<1>2. order.flow \in Flows /\ order.scale \in Scales \cup {"infer"}
  BY <1>1 DEF OrderType
<1>3. /\ milestones \in Seq(Series \X Nat)
      /\ order.flow \in {"issue", "bug_fix"} => Len(milestones) = 1
      /\ order.flow = "issue" => milestones[1] = <<"MI", 1>>
      /\ order.flow \in {"delivery", "multi_patch"} => milestones = <<>>
      /\ Len(milestones) <= 1 /\ Len(milestones) \in Nat
  <2>1. <<"MI", 1>> \in Series \X Nat /\ <<"MBUG", 1>> \in Series \X Nat
    BY DEF Series
  <2>2. \A m \in Series \X Nat : <<m>> \in Seq(Series \X Nat)
    OBVIOUS
  <2>3. CASE order.flow = "issue"
    BY <2>1, <2>2, <2>3 DEF PlanningInit
  <2>4. CASE order.flow = "bug_fix"
    BY <2>1, <2>2, <2>4 DEF PlanningInit
  <2>5. CASE order.flow \notin {"issue", "bug_fix"}
    <3>1. <<>> \in Seq(Series \X Nat) /\ milestones = <<>>
      BY <2>5 DEF PlanningInit
    <3> QED
      BY <2>5, <3>1
  <2> QED
    BY <2>3, <2>4, <2>5
<1>4. /\ stage \in {"scale", "tasks", "candidate"}
      /\ stage = "scale" <=> order.flow = "delivery"
      /\ stage = "candidate" <=> order.flow = "multi_patch"
  BY DEF PlanningInit
<1>5. /\ tasks = <<>> /\ task_ids = <<>> /\ given = <<>> /\ todo = {} /\ writing = NoFile
      /\ overwritten = {} /\ raced = {} /\ saves = 0 /\ dropped = {} /\ failures = {}
  BY DEF PlanningInit
<1>6. /\ tasks \in Seq(TaskType) /\ given \in Seq(SUBSET DOMAIN tasks)
      /\ task_ids \in Seq(SUBSET ((Series \X Nat) \X Nat))
      /\ DOMAIN tasks = {} /\ Len(tasks) = 0 /\ DOMAIN task_ids = {} /\ Len(task_ids) = 0
      /\ DOMAIN given = {} /\ Len(given) = 0
  BY <1>5, EmptySeq
<1>7. disk \in [PlanFiles -> {"absent", "theirs"}]
  BY DEF PlanningInit
<1>8. scale \in Scales \cup {"infer"}
  BY <1>2 DEF PlanningInit
<1>9. PlanningTypeOK
  BY <1>1, <1>3, <1>4, <1>5, <1>6, <1>7, <1>8 DEF PlanningTypeOK
<1>10. StageInOrder
  BY <1>3, <1>4, <1>5, <1>6 DEF StageInOrder
<1>11. MilestonesKnown
  <2>1. DOMAIN milestones = 1..Len(milestones)
    BY <1>3
  <2>2. \A i, j \in DOMAIN milestones : i = j
    BY <1>3, <2>1
  <2>3. order.flow = "multi_patch" => DOMAIN milestones = {}
    BY <1>3
  <2> QED
    BY <1>3, <2>2, <2>3 DEF MilestonesKnown
<1>12. TasksNumbered /\ TasksStaged /\ MilestonesListTheirs
  BY <1>6 DEF TasksNumbered, TasksStaged, MilestonesListTheirs
<1>13. GivenAsPlanned /\ DroppedArePresent /\ WritesArePolite /\ SkeletonIsPolite
  BY <1>5, <1>6, <1>7 DEF GivenAsPlanned, DroppedArePresent, WritesArePolite, SkeletonIsPolite
<1> QED
  BY <1>9, <1>10, <1>11, <1>12, <1>13 DEF PlanningInv, PlanKept

-----------------------------------------------------------------------------
(* Steps that do not plan.                                                 *)
LEMMA SamePlan ==
  ASSUME PlanKept, UNCHANGED <<order, planVars>>
  PROVE  PlanKept'
<1>1. order' = order /\ milestones' = milestones /\ tasks' = tasks /\ task_ids' = task_ids
  BY DEF planVars
<1> QED
  BY <1>1 DEF PlanKept, MilestonesKnown, TasksNumbered, TasksStaged, MilestonesListTheirs, IdsOf

(* Files are looked at, written and saved.                                 *)
LEMMA DiskStep ==
  ASSUME PlanningInv,
         (\E f \in PlanFiles : LookAt(f) \/ SaveFile(f)) \/ WriteFile
  PROVE  PlanningInv'
<1>0. /\ PlanningTypeOK /\ StageInOrder /\ PlanKept
      /\ GivenAsPlanned /\ DroppedArePresent /\ WritesArePolite /\ SkeletonIsPolite
  BY DEF PlanningInv
<1>1. UNCHANGED <<order, stage, scale, milestones, tasks, task_ids, dropped, given, failures>>
  BY DEF LookAt, SaveFile, WriteFile, planVars
<1>2. PlanKept'
  BY <1>0, <1>1, SamePlan DEF planVars
<1>3. StageInOrder'
  BY <1>0, <1>1 DEF StageInOrder
<1>4. GivenAsPlanned'
  BY <1>0, <1>1 DEF GivenAsPlanned, TasksOf
<1>5. PlanningTypeOK' /\ (\A f \in PlanFiles : disk[f] # "absent" => disk'[f] # "absent")
      /\ WritesArePolite' /\ SkeletonIsPolite'
  <2>1. ASSUME NEW f \in PlanFiles, LookAt(f)
        PROVE  PlanningTypeOK' /\ (\A g \in PlanFiles : disk[g] # "absent" => disk'[g] # "absent")
               /\ WritesArePolite' /\ SkeletonIsPolite'
    <3>1. UNCHANGED <<disk, overwritten, raced, saves>> /\ todo' \subseteq PlanFiles
          /\ writing' \in PlanFiles \cup {NoFile}
          /\ (writing' # NoFile => writing' = f /\ disk[f] = "absent" /\ ~order.dry_run)
          /\ stage = "scaffold"
      BY <1>0, <2>1 DEF LookAt, PlanningTypeOK
    <3> QED
      BY <1>0, <1>1, <3>1 DEF PlanningTypeOK, WritesArePolite, SkeletonIsPolite
  <2>2. ASSUME NEW f \in PlanFiles, SaveFile(f)
        PROVE  PlanningTypeOK' /\ (\A g \in PlanFiles : disk[g] # "absent" => disk'[g] # "absent")
               /\ WritesArePolite' /\ SkeletonIsPolite'
    <3>1. /\ disk' \in [PlanFiles -> {"absent", "theirs", "skeleton"}] /\ disk'[f] = "theirs"
          /\ \A g \in PlanFiles \ {f} : disk'[g] = disk[g]
          /\ raced' \subseteq PlanFiles /\ raced \subseteq raced' /\ (writing = f => f \in raced')
          /\ saves' \in 0..MaxSaves /\ UNCHANGED <<todo, writing, overwritten>>
      BY <1>0, <2>2, PlanningAssumption DEF SaveFile, PlanningTypeOK
    <3>2. PlanningTypeOK'
      BY <1>0, <1>1, <3>1 DEF PlanningTypeOK
    <3>3. WritesArePolite' /\ SkeletonIsPolite'
      BY <1>0, <1>1, <3>1 DEF PlanningTypeOK, WritesArePolite, SkeletonIsPolite
    <3> QED
      BY <3>1, <3>2, <3>3
  <2>3. ASSUME WriteFile
        PROVE  PlanningTypeOK' /\ (\A g \in PlanFiles : disk[g] # "absent" => disk'[g] # "absent")
               /\ WritesArePolite' /\ SkeletonIsPolite'
    <3>1. writing \in PlanFiles /\ writing' = NoFile
      BY <1>0, <2>3 DEF WriteFile, PlanningTypeOK
    <3>2. /\ disk' \in [PlanFiles -> {"absent", "theirs", "skeleton"}] /\ disk'[writing] = "skeleton"
          /\ \A g \in PlanFiles \ {writing} : disk'[g] = disk[g]
          /\ UNCHANGED <<todo, raced, saves>>
      BY <1>0, <2>3, <3>1 DEF WriteFile, PlanningTypeOK
    <3>3. overwritten' \subseteq PlanFiles /\ overwritten' \subseteq raced
      BY <1>0, <2>3, <3>1 DEF WriteFile, PlanningTypeOK, WritesArePolite, SkeletonIsPolite
    <3>4. PlanningTypeOK'
      BY <1>0, <1>1, <3>1, <3>2, <3>3 DEF PlanningTypeOK
    <3>5. WritesArePolite' /\ SkeletonIsPolite'
      BY <1>0, <1>1, <2>3, <3>1, <3>2, <3>3
      DEF WriteFile, WritesArePolite, SkeletonIsPolite
    <3> QED
      BY <3>2, <3>4, <3>5
  <2> QED
    BY <2>1, <2>2, <2>3
<1>6. DroppedArePresent'
  <2>1. \A t \in dropped : \A i \in DOMAIN tasks[t].files : tasks[t].files[i] \in PlanFiles
    <3>1. \A t \in dropped : tasks[t] \in TaskType
      BY <1>0, PlanSeqs DEF PlanningTypeOK
    <3>2. \A t \in dropped : tasks[t].files \in Seq(PlanFiles)
      BY <3>1 DEF TaskType
    <3> QED
      BY <3>2
  <2> QED
    BY <1>0, <1>1, <1>5, <2>1 DEF DroppedArePresent
<1> QED
  BY <1>2, <1>3, <1>4, <1>5, <1>6 DEF PlanningInv

(* The skeleton is verified, and tasks are filtered out.                   *)
LEMMA VerifyStep == ASSUME PlanningInv, VerifySkeleton PROVE PlanningInv'
<1>0. /\ PlanningTypeOK /\ StageInOrder /\ PlanKept
      /\ GivenAsPlanned /\ DroppedArePresent /\ WritesArePolite /\ SkeletonIsPolite
  BY DEF PlanningInv
<1>1. /\ UNCHANGED <<order, scale, milestones, tasks, task_ids, disk, todo, writing, overwritten,
                     raced, saves, given, failures>>
      /\ stage = "scaffold" /\ stage' = "implement" /\ writing = NoFile
      /\ dropped' = { t \in DOMAIN tasks : Redundant(t) }
  BY DEF VerifySkeleton, planVars, diskVars
<1>2. PlanKept'
  BY <1>0, <1>1, SamePlan DEF planVars
<1>3. order.flow = "delivery" /\ given = <<>>
  BY <1>0, <1>1 DEF StageInOrder
<1>4. StageInOrder'
  BY <1>0, <1>1, <1>3 DEF StageInOrder
<1>5. GivenAsPlanned'
  <2>1. DOMAIN given' = {}
    BY <1>1, <1>3
  <2> QED
    BY <2>1 DEF GivenAsPlanned
<1>6. PlanningTypeOK'
  BY <1>0, <1>1 DEF PlanningTypeOK
<1>7. DroppedArePresent'
  BY <1>1 DEF DroppedArePresent, Redundant, Present
<1>8. WritesArePolite' /\ SkeletonIsPolite'
  BY <1>0, <1>1 DEF WritesArePolite, SkeletonIsPolite
<1> QED
  BY <1>2, <1>4, <1>5, <1>6, <1>7, <1>8 DEF PlanningInv

(* A milestone is executed.                                                *)
LEMMA ImplementStep ==
  ASSUME PlanningInv, NEW success \in BOOLEAN, ImplementMilestone(success) PROVE PlanningInv'
<1>0. /\ PlanningTypeOK /\ StageInOrder /\ PlanKept
      /\ GivenAsPlanned /\ DroppedArePresent /\ WritesArePolite /\ SkeletonIsPolite
  BY DEF PlanningInv
<1> DEFINE m == milestones[Len(given) + 1]
           mine == TasksOf(m)
<1>1. /\ UNCHANGED <<order, scale, milestones, tasks, task_ids, disk, todo, writing, overwritten,
                     raced, saves, dropped>>
      /\ stage = "implement" /\ Len(given) < Len(milestones)
      /\ given' = Append(given, mine)
      /\ failures' = IF success THEN failures ELSE failures \cup {m}
      /\ stage' = IF order.flow = "multi_patch" THEN "candidate"
                  ELSE IF ~success /\ order.flow = "delivery" /\ order.stops THEN "over"
                  ELSE stage
  BY DEF ImplementMilestone, planVars, diskVars
<1>2. PlanKept'
  BY <1>0, <1>1, SamePlan DEF planVars
<1>3. /\ m \in Series \X Nat /\ mine \subseteq DOMAIN tasks /\ Len(given) \in Nat
      /\ DOMAIN given = 1..Len(given) /\ given \in Seq(SUBSET DOMAIN tasks)
      /\ Len(milestones) \in Nat
  BY <1>0, <1>1, PlanSeqs DEF TasksOf, MilestoneType, PlanningTypeOK
<1>4. /\ given' \in Seq(SUBSET DOMAIN tasks) /\ Len(given') = Len(given) + 1
      /\ DOMAIN given' = 1..(Len(given) + 1) /\ given'[Len(given) + 1] = mine
      /\ \A k \in DOMAIN given : given'[k] = given[k]
  <2> HIDE DEF mine
  <2> QED
    BY <1>1, <1>3
<1>5. GivenAsPlanned'
  <2>1. ASSUME NEW k \in DOMAIN given' PROVE given'[k] = TasksOf(milestones[k])
    BY <1>0, <1>3, <1>4 DEF GivenAsPlanned
  <2>2. \A k : TasksOf(milestones[k])' = TasksOf(milestones[k])
    BY <1>1 DEF TasksOf
  <2> QED
    BY <2>1, <2>2 DEF GivenAsPlanned
<1>6. PlanningTypeOK'
  <2>1. failures' \subseteq Series \X Nat
        /\ stage' \in {"scale", "tasks", "scaffold", "candidate", "implement", "over"}
    BY <1>0, <1>1, <1>3 DEF PlanningTypeOK
  <2> QED
    BY <1>0, <1>1, <1>4, <2>1 DEF PlanningTypeOK
<1>7. StageInOrder'
  <2>1. order.flow = "multi_patch" => Len(given') = Len(milestones)
    BY <1>0, <1>1, <1>3, <1>4 DEF StageInOrder
  <2>2. stage' = "over" => failures' # {} /\ order'.stops
    BY <1>1
  <2>3. Len(task_ids) = Len(milestones) /\ Len(given') <= Len(milestones)
    BY <1>0, <1>1, <1>3, <1>4 DEF StageInOrder
  <2> QED
    BY <1>0, <1>1, <2>1, <2>2, <2>3 DEF StageInOrder
<1>8. DroppedArePresent' /\ SkeletonIsPolite'
  BY <1>0, <1>1 DEF DroppedArePresent, SkeletonIsPolite
<1>9. WritesArePolite'
  BY <1>0, <1>1 DEF WritesArePolite
<1> QED
  BY <1>2, <1>5, <1>6, <1>7, <1>8, <1>9 DEF PlanningInv

(* The flow ends.                                                          *)
LEMMA EndStep == ASSUME PlanningInv, FlowEnds PROVE PlanningInv'
<1>0. /\ PlanningTypeOK /\ StageInOrder /\ PlanKept
      /\ GivenAsPlanned /\ DroppedArePresent /\ WritesArePolite /\ SkeletonIsPolite
  BY DEF PlanningInv
<1>1. /\ UNCHANGED <<order, scale, milestones, tasks, task_ids, disk, todo, writing, overwritten,
                     raced, saves, dropped, given, failures>>
      /\ stage' = "over" /\ stage \in {"implement", "candidate"}
      /\ stage = "implement" => Len(given) = Len(milestones)
  BY DEF FlowEnds, planVars, diskVars
<1>2. PlanKept'
  BY <1>0, <1>1, SamePlan DEF planVars
<1>3. StageInOrder'
  BY <1>0, <1>1 DEF StageInOrder
<1>4. GivenAsPlanned' /\ DroppedArePresent' /\ SkeletonIsPolite'
  BY <1>0, <1>1 DEF GivenAsPlanned, TasksOf, DroppedArePresent, SkeletonIsPolite
<1>5. PlanningTypeOK' /\ WritesArePolite'
  BY <1>0, <1>1 DEF PlanningTypeOK, WritesArePolite
<1> QED
  BY <1>2, <1>3, <1>4, <1>5 DEF PlanningInv

-----------------------------------------------------------------------------
(* Steps that plan, before anything is executed.                           *)
LEMMA SameDisk ==
  ASSUME PlanningInv, UNCHANGED <<order, diskVars>>, dropped = {}, dropped' = {}, writing = NoFile
  PROVE  DroppedArePresent' /\ WritesArePolite' /\ SkeletonIsPolite'
<1>1. /\ disk' = disk /\ writing' = NoFile /\ raced' = raced /\ overwritten' = overwritten
      /\ order' = order
  BY DEF diskVars
<1> QED
  BY <1>1 DEF PlanningInv, DroppedArePresent, WritesArePolite, SkeletonIsPolite

(* The milestones of a delivery.                                           *)
LEMMA MilestonesStep == ASSUME PlanningInv, PlanMilestones PROVE PlanningInv'
<1>0. /\ PlanningTypeOK /\ StageInOrder /\ PlanKept /\ WritesArePolite
  BY DEF PlanningInv
<1>1. /\ UNCHANGED <<order, tasks, task_ids, diskVars, dropped, given, failures>>
      /\ stage = "scale" /\ stage' = "tasks" /\ milestones' = Template(scale')
      /\ scale' = IF order.scale = "infer" THEN Inferred ELSE order.scale
  BY DEF PlanMilestones
<1>2. /\ order.flow = "delivery" /\ milestones = <<>> /\ tasks = <<>> /\ given = <<>>
      /\ dropped = {} /\ writing = NoFile /\ task_ids = <<>>
  <2>1. Len(task_ids) = 0
    BY <1>0, <1>1, PlanSeqs DEF StageInOrder
  <2>2. task_ids = <<>>
    BY <1>0, <2>1, EmptySeq DEF PlanningTypeOK
  <2> QED
    BY <1>0, <1>1, <2>2 DEF StageInOrder, WritesArePolite
<1>3. scale' \in Scales \cup {"infer"}
  <2>1. order.scale \in Scales \cup {"infer"}
    BY <1>0 DEF PlanningTypeOK, OrderType
  <2> QED
    BY <1>1, <2>1 DEF Inferred, Scales
<1>4. /\ milestones' \in Seq(MilestoneType) /\ Len(milestones') \in Nat
      /\ \A i, j \in DOMAIN milestones' : milestones'[i] = milestones'[j] => i = j
  BY <1>1, TemplateType, LenProperties
<1>5. PlanningTypeOK'
  BY <1>0, <1>1, <1>3, <1>4 DEF PlanningTypeOK, MilestoneType, diskVars
<1>6. DOMAIN tasks = {} /\ DOMAIN task_ids = {} /\ DOMAIN given = {} /\ Len(task_ids) = 0
      /\ Len(given) = 0
  BY <1>2
<1>7. StageInOrder'
  BY <1>1, <1>2, <1>4, <1>6 DEF StageInOrder
<1>8. PlanKept'
  BY <1>1, <1>2, <1>4, <1>6
  DEF PlanKept, MilestonesKnown, TasksNumbered, TasksStaged, MilestonesListTheirs
<1>9. GivenAsPlanned'
  BY <1>1, <1>6 DEF GivenAsPlanned
<1>10. DroppedArePresent' /\ WritesArePolite' /\ SkeletonIsPolite'
  BY <1>1, <1>2, SameDisk
<1> QED
  BY <1>5, <1>7, <1>8, <1>9, <1>10 DEF PlanningInv

(* One milestone more has its tasks.                                       *)
LEMMA OneMoreMilestone ==
  ASSUME PlanningTypeOK, PlanKept, NEW more \in Seq(TaskType), NEW n \in Nat,
         n = Len(task_ids) + 1, n \in DOMAIN milestones',
         milestones' \in Seq(MilestoneType),
         \A k \in DOMAIN task_ids : k \in DOMAIN milestones /\ milestones'[k] = milestones[k],
         MilestonesKnown', UNCHANGED <<order, dropped>>,
         tasks' = tasks \o more, task_ids' = Append(task_ids, IdsOf(tasks', milestones'[n])),
         \A i \in DOMAIN more : more[i].milestone = milestones'[n] /\ DistinctFiles(more[i].files),
         order.flow \in {"delivery", "issue"} =>
           \A i \in DOMAIN more : /\ more[i].id = <<milestones'[n], Len(tasks) + i>>
                                  /\ more[i].deps = {},
         order.flow \in {"bug_fix", "multi_patch"} => more = Stages(milestones'[n])
  PROVE  /\ PlanKept' /\ tasks' \in Seq(TaskType) /\ DOMAIN tasks \subseteq DOMAIN tasks'
         /\ task_ids' \in Seq(SUBSET ((Series \X Nat) \X Nat)) /\ Len(task_ids') = n
         /\ \A k \in DOMAIN task_ids : TasksOf(milestones[k])' = TasksOf(milestones[k])
<1> PICK m : m = milestones'[n]
  OBVIOUS
<1>0. MilestonesKnown /\ TasksNumbered /\ TasksStaged /\ MilestonesListTheirs
  BY DEF PlanKept
<1>1. /\ tasks' \in Seq(TaskType) /\ Len(tasks') = Len(tasks) + Len(more)
      /\ DOMAIN tasks' = 1..Len(tasks')
      /\ \A t \in DOMAIN tasks : t \in DOMAIN tasks' /\ tasks'[t] = tasks[t]
      /\ \A i \in DOMAIN more :
           Len(tasks) + i \in DOMAIN tasks' /\ tasks'[Len(tasks) + i] = more[i]
      /\ \A t \in DOMAIN tasks' : t \in DOMAIN tasks \/ \E i \in DOMAIN more : t = Len(tasks) + i
  BY MoreTasks
<1>2. m \in MilestoneType
  OBVIOUS
<1>3. IdsOf(tasks', m) \in SUBSET ((Series \X Nat) \X Nat)
  BY <1>1, IdsType DEF MilestoneType
<1>4. /\ Len(task_ids) \in Nat /\ DOMAIN task_ids = 1..Len(task_ids)
      /\ task_ids \in Seq(SUBSET ((Series \X Nat) \X Nat))
  BY PlanSeqs DEF PlanningTypeOK
<1>5. /\ task_ids' \in Seq(SUBSET ((Series \X Nat) \X Nat)) /\ Len(task_ids') = n
      /\ DOMAIN task_ids' = 1..n /\ task_ids'[n] = IdsOf(tasks', m)
      /\ \A k \in DOMAIN task_ids : task_ids'[k] = task_ids[k]
  <2> PICK new \in SUBSET ((Series \X Nat) \X Nat) : new = IdsOf(tasks', m)
    BY <1>3
  <2>1. task_ids' = Append(task_ids, new)
    OBVIOUS
  <2> QED
    BY <1>4, <2>1
<1>6. ASSUME NEW k \in DOMAIN task_ids
      PROVE  /\ k \in DOMAIN milestones' /\ milestones'[k] = milestones[k] /\ milestones[k] # m
             /\ IdsOf(tasks', milestones[k]) = IdsOf(tasks, milestones[k])
             /\ TasksOf(milestones[k])' = TasksOf(milestones[k])
  <2>1. DOMAIN milestones' = 1..Len(milestones') /\ Len(milestones') \in Nat
    BY LenProperties
  <2>2. k \in DOMAIN milestones' /\ k # n
    BY <1>4, <1>6, <2>1
  <2>3. milestones'[k] # milestones'[n]
    BY <2>2 DEF MilestonesKnown
  <2>4. PICK other : other = milestones[k]
    OBVIOUS
  <2>5. other # m /\ milestones'[k] = other
    BY <1>6, <2>3, <2>4
  <2>6. IdsOf(tasks', other) = IdsOf(tasks, other) /\ TasksOf(other)' = TasksOf(other)
    BY <2>5, OthersStay
  <2>7. TasksOf(milestones[k])' = { t \in DOMAIN tasks' \ dropped' : tasks'[t].milestone = other }
    BY <1>6, <2>5 DEF TasksOf
  <2>8. TasksOf(milestones[k]) = TasksOf(other)
    BY <2>4
  <2>9. TasksOf(other)' = { t \in DOMAIN tasks' \ dropped' : tasks'[t].milestone = other }
    BY DEF TasksOf
  <2> QED
    BY <2>2, <2>4, <2>5, <2>6, <2>7, <2>8, <2>9
<1>7. TasksNumbered'
  <2>1. ASSUME NEW t \in DOMAIN tasks' PROVE \E k \in DOMAIN task_ids' : tasks'[t].milestone = milestones'[k]
    <3>1. CASE t \in DOMAIN tasks
      <4>1. PICK k \in DOMAIN task_ids : tasks[t].milestone = milestones[k]
        BY <1>0, <3>1 DEF TasksNumbered
      <4>2. k \in DOMAIN task_ids' /\ milestones'[k] = milestones[k]
        BY <1>4, <1>5
      <4> QED
        BY <1>1, <3>1, <4>1, <4>2
    <3>2. CASE t \notin DOMAIN tasks
      <4>1. n \in DOMAIN task_ids'
        BY <1>4, <1>5
      <4>2. PICK i \in DOMAIN more : tasks'[t] = more[i]
        BY <1>1, <3>2
      <4>3. tasks'[t].milestone = milestones'[n]
        BY <4>2
      <4> QED
        BY <4>1, <4>3
    <3> QED
      BY <3>1, <3>2
  <2>2. ASSUME order.flow \in {"delivery", "issue"}, NEW t \in DOMAIN tasks'
        PROVE  tasks'[t].id = <<tasks'[t].milestone, t>> /\ tasks'[t].deps = {}
    <3>1. CASE t \in DOMAIN tasks
      BY <1>0, <1>1, <2>2, <3>1 DEF TasksNumbered
    <3>2. CASE t \notin DOMAIN tasks
      <4>1. PICK i \in DOMAIN more : t = Len(tasks) + i
        BY <1>1, <3>2
      <4>2. tasks'[t] = more[i] /\ more[i].milestone = m /\ more[i].deps = {}
            /\ more[i].id = <<m, Len(tasks) + i>>
        BY <1>1, <2>2, <4>1
      <4> QED
        BY <4>1, <4>2
    <3> QED
      BY <3>1, <3>2
  <2>3. \A t \in DOMAIN tasks' : DistinctFiles(tasks'[t].files)
    BY <1>0, <1>1 DEF TasksNumbered
  <2> QED
    BY <2>1, <2>2, <2>3 DEF TasksNumbered
<1>8. TasksStaged'
  <2> SUFFICES ASSUME order.flow \in {"bug_fix", "multi_patch"}
               PROVE  /\ Len(tasks') = 4 * Len(task_ids')
                      /\ \A t \in DOMAIN tasks' : \E k \in DOMAIN task_ids', i \in 1..4 :
                           t = 4 * (k - 1) + i /\ tasks'[t] = Stages(milestones'[k])[i]
    BY DEF TasksStaged
  <2>1. more = Stages(m) /\ DOMAIN more = 1..4 /\ Len(more) = 4
    BY <1>2, StagesOf
  <2>2. Len(tasks) = 4 * Len(task_ids)
    BY <1>0 DEF TasksStaged
  <2>3. Len(tasks') = 4 * Len(task_ids')
    BY <1>1, <1>4, <1>5, <2>1, <2>2
  <2>4. ASSUME NEW t \in DOMAIN tasks
        PROVE  \E k \in DOMAIN task_ids', i \in 1..4 :
                 t = 4 * (k - 1) + i /\ tasks'[t] = Stages(milestones'[k])[i]
    <3>1. PICK k \in DOMAIN task_ids, i \in 1..4 :
            t = 4 * (k - 1) + i /\ tasks[t] = Stages(milestones[k])[i]
      BY <1>0 DEF TasksStaged
    <3>2. k \in DOMAIN task_ids' /\ milestones'[k] = milestones[k] /\ tasks'[t] = tasks[t]
      BY <1>1, <1>4, <1>5
    <3> QED
      BY <3>1, <3>2
  <2>5. ASSUME NEW t \in DOMAIN tasks', t \notin DOMAIN tasks
        PROVE  \E k \in DOMAIN task_ids', i \in 1..4 :
                 t = 4 * (k - 1) + i /\ tasks'[t] = Stages(milestones'[k])[i]
    <3>0. PICK j \in DOMAIN more : t = Len(tasks) + j
      BY <1>1, <2>5
    <3>1. PICK i \in 1..4 : t = Len(tasks) + i /\ tasks'[t] = Stages(m)[i]
      <4>1. tasks'[t] = more[j]
        BY <1>1, <3>0
      <4>2. j \in 1..4 /\ more[j] = Stages(m)[j]
        BY <2>1
      <4> QED
        BY <3>0, <4>1, <4>2
    <3>2. n \in DOMAIN task_ids' /\ t = 4 * (n - 1) + i
      BY <1>4, <1>5, <2>2, <3>1
    <3> QED
      BY <3>1, <3>2
  <2> QED
    BY <2>3, <2>4, <2>5
<1>9. MilestonesListTheirs'
  <2>1. ASSUME NEW k \in DOMAIN task_ids'
        PROVE  task_ids'[k] = IdsOf(tasks', milestones'[k]) \/ order'.flow = "issue"
    <3>1. CASE k \in DOMAIN task_ids
      BY <1>0, <1>5, <1>6, <3>1 DEF MilestonesListTheirs
    <3>2. CASE k \notin DOMAIN task_ids
      <4>1. k = n
        BY <1>4, <1>5, <2>1, <3>2
      <4> QED
        BY <1>5, <4>1
    <3> QED
      BY <3>1, <3>2
  <2> QED
    BY <2>1 DEF MilestonesListTheirs
<1> QED
  BY <1>1, <1>5, <1>6, <1>7, <1>8, <1>9 DEF PlanKept

(* The tasks of one milestone.                                             *)
LEMMA TasksStep == ASSUME PlanningInv, PlanTasks PROVE PlanningInv'
<1>0. /\ PlanningTypeOK /\ StageInOrder /\ PlanKept /\ GivenAsPlanned /\ WritesArePolite
  BY DEF PlanningInv
<1> DEFINE n == Len(task_ids) + 1
           m == milestones[n]
<1>1. /\ UNCHANGED <<order, stage, scale, milestones, diskVars, dropped, given, failures>>
      /\ stage = "tasks" /\ order.flow \in {"delivery", "issue"}
      /\ Len(task_ids) < Len(milestones)
      /\ tasks' = tasks \o Planned(m) /\ task_ids' = Append(task_ids, IdsOf(tasks', m))
  BY DEF PlanTasks
<1>2. given = <<>> /\ dropped = {} /\ writing = NoFile /\ stage # "scaffold"
  BY <1>0, <1>1 DEF StageInOrder, WritesArePolite
<1>3. /\ n \in Nat /\ n \in DOMAIN milestones' /\ m \in MilestoneType /\ milestones'[n] = m
      /\ \A k \in DOMAIN task_ids : k \in DOMAIN milestones /\ milestones'[k] = milestones[k]
      /\ milestones' \in Seq(MilestoneType)
  BY <1>0, <1>1, PlanSeqs DEF PlanningTypeOK, MilestoneType
<1>4. MilestonesKnown'
  BY <1>0, <1>1 DEF PlanKept, MilestonesKnown
<1>5. /\ Planned(m) \in Seq(TaskType)
      /\ \A i \in DOMAIN Planned(m) :
           /\ Planned(m)[i].milestone = m /\ Planned(m)[i].id = <<m, Len(tasks) + i>>
           /\ Planned(m)[i].deps = {} /\ DistinctFiles(Planned(m)[i].files)
  BY <1>0, <1>3, PlannedTasks
<1>6. /\ PlanKept' /\ tasks' \in Seq(TaskType) /\ DOMAIN tasks \subseteq DOMAIN tasks'
      /\ task_ids' \in Seq(SUBSET ((Series \X Nat) \X Nat)) /\ Len(task_ids') = n
  <2> PICK more \in Seq(TaskType) : more = Planned(m)
    BY <1>5
  <2>1. /\ tasks' = tasks \o more
        /\ \A i \in DOMAIN more :
             /\ more[i].milestone = m /\ more[i].id = <<m, Len(tasks) + i>>
             /\ more[i].deps = {} /\ DistinctFiles(more[i].files)
    BY <1>1, <1>5
  <2>2. PICK next \in Nat : next = n
    BY <1>3
  <2>3. milestones'[next] = m /\ next \in DOMAIN milestones'
    BY <1>3, <2>2
  <2>4. \A i \in DOMAIN more : /\ more[i].id = <<milestones'[next], Len(tasks) + i>>
                               /\ more[i].deps = {}
                               /\ more[i].milestone = milestones'[next] /\ DistinctFiles(more[i].files)
    BY <2>1, <2>3
  <2>5. task_ids' = Append(task_ids, IdsOf(tasks', milestones'[next]))
    BY <1>1, <2>3
  <2>6. order.flow \notin {"bug_fix", "multi_patch"} /\ UNCHANGED <<order, dropped>>
    BY <1>1
  <2>7. next = Len(task_ids) + 1
    BY <2>2
  <2>8. /\ PlanKept' /\ tasks' \in Seq(TaskType) /\ DOMAIN tasks \subseteq DOMAIN tasks'
        /\ task_ids' \in Seq(SUBSET ((Series \X Nat) \X Nat)) /\ Len(task_ids') = next
    <3>1. order.flow \in {"delivery", "issue"} =>
            \A i \in DOMAIN more : /\ more[i].id = <<milestones'[next], Len(tasks) + i>>
                                   /\ more[i].deps = {}
      BY <2>4
    <3>2. order.flow \in {"bug_fix", "multi_patch"} => more = Stages(milestones'[next])
      BY <2>6
    <3>3. \A i \in DOMAIN more : more[i].milestone = milestones'[next] /\ DistinctFiles(more[i].files)
      BY <2>4
    <3>4. \A k \in DOMAIN task_ids : k \in DOMAIN milestones /\ milestones'[k] = milestones[k]
      BY <1>3
    <3>5. milestones' \in Seq(MilestoneType) /\ tasks' = tasks \o more /\ UNCHANGED <<order, dropped>>
          /\ next \in DOMAIN milestones' /\ PlanningTypeOK /\ PlanKept
      BY <1>0, <1>3, <2>1, <2>3, <2>6
    <3> HIDE DEF n, m
    <3> QED
      BY <1>4, <2>5, <2>7, <3>1, <3>2, <3>3, <3>4, <3>5, OneMoreMilestone
  <2> QED
    BY <2>2, <2>8
<1>7. PlanningTypeOK'
  <2>1. given' \in Seq(SUBSET DOMAIN tasks') /\ dropped' \subseteq DOMAIN tasks'
    BY <1>1, <1>2, EmptySeq
  <2> QED
    BY <1>0, <1>1, <1>6, <2>1 DEF PlanningTypeOK, diskVars
<1>8. StageInOrder'
  <2>1. n <= Len(milestones)
    BY <1>0, <1>1, PlanSeqs
  <2> QED
    BY <1>0, <1>1, <1>2, <1>6, <2>1 DEF StageInOrder
<1>9. GivenAsPlanned'
  BY <1>1, <1>2 DEF GivenAsPlanned
<1>10. DroppedArePresent' /\ WritesArePolite' /\ SkeletonIsPolite'
  BY <1>1, <1>2, SameDisk
<1> QED
  BY <1>6, <1>7, <1>8, <1>9, <1>10 DEF PlanningInv

(* The stages of a bug fix.                                                *)
LEMMA BugFixStep == ASSUME PlanningInv, PlanBugFix PROVE PlanningInv'
<1>0. /\ PlanningTypeOK /\ StageInOrder /\ PlanKept /\ GivenAsPlanned /\ WritesArePolite
  BY DEF PlanningInv
<1> DEFINE m == milestones[1]
<1>1. /\ UNCHANGED <<order, scale, milestones, diskVars, dropped, given, failures>>
      /\ stage = "tasks" /\ order.flow = "bug_fix" /\ stage' = "implement"
      /\ tasks' = Stages(m) /\ task_ids' = <<IdsOf(tasks', m)>>
  BY DEF PlanBugFix
<1>2. /\ given = <<>> /\ dropped = {} /\ writing = NoFile /\ tasks = <<>> /\ task_ids = <<>>
      /\ Len(milestones) = 1
  BY <1>0, <1>1 DEF StageInOrder, WritesArePolite, PlanKept, MilestonesKnown
<1>3. /\ m \in MilestoneType /\ milestones' \in Seq(MilestoneType) /\ milestones'[1] = m
      /\ 1 \in DOMAIN milestones'
  BY <1>0, <1>1, <1>2, PlanSeqs DEF PlanningTypeOK, MilestoneType
<1>4. MilestonesKnown'
  BY <1>0, <1>1 DEF PlanKept, MilestonesKnown
<1>5. /\ PlanKept' /\ tasks' \in Seq(TaskType)
      /\ task_ids' \in Seq(SUBSET ((Series \X Nat) \X Nat)) /\ Len(task_ids') = 1
  <2> PICK more \in Seq(TaskType) : more = Stages(m)
    BY <1>3, StagesOf
  <2>1. \A i \in DOMAIN more : more[i].milestone = m /\ DistinctFiles(more[i].files)
    BY <1>3, StagesOwn
  <2>2. tasks' = tasks \o more
    <3>1. <<>> \o more = more
      BY ConcatEmptySeq
    <3> QED
      BY <1>1, <1>2, <3>1
  <2>3. task_ids' = Append(task_ids, IdsOf(tasks', milestones'[1]))
    <3> PICK new : new = IdsOf(tasks', m)
      OBVIOUS
    <3>1. Append(<<>>, new) = <<new>>
      OBVIOUS
    <3> QED
      BY <1>1, <1>2, <1>3, <3>1
  <2>4. 1 = Len(task_ids) + 1 /\ DOMAIN task_ids = {}
    BY <1>2
  <2>5. more = Stages(milestones'[1])
        /\ \A i \in DOMAIN more : more[i].milestone = milestones'[1] /\ DistinctFiles(more[i].files)
    BY <1>3, <2>1
  <2>6. order.flow \notin {"delivery", "issue"} /\ UNCHANGED <<order, dropped>>
    BY <1>1
  <2> HIDE DEF m
  <2> QED
    BY <1>0, <1>3, <1>4, <2>2, <2>3, <2>4, <2>5, <2>6, OneMoreMilestone
<1>6. PlanningTypeOK'
  <2>1. given' \in Seq(SUBSET DOMAIN tasks') /\ dropped' \subseteq DOMAIN tasks'
    BY <1>1, <1>2, EmptySeq
  <2> QED
    BY <1>0, <1>1, <1>5, <2>1 DEF PlanningTypeOK, diskVars
<1>7. StageInOrder'
  <2>1. Len(given') = 0
    BY <1>1, <1>2
  <2> QED
    BY <1>0, <1>1, <1>2, <1>5, <2>1 DEF StageInOrder
<1>8. GivenAsPlanned'
  BY <1>1, <1>2 DEF GivenAsPlanned
<1>9. DroppedArePresent' /\ WritesArePolite' /\ SkeletonIsPolite'
  BY <1>1, <1>2, SameDisk
<1> QED
  BY <1>5, <1>6, <1>7, <1>8, <1>9 DEF PlanningInv

(* The stages of a candidate.                                              *)
LEMMA CandidateStep == ASSUME PlanningInv, PlanCandidate PROVE PlanningInv'
<1>0. /\ PlanningTypeOK /\ StageInOrder /\ PlanKept /\ GivenAsPlanned /\ WritesArePolite
  BY DEF PlanningInv
<1> DEFINE n == Len(milestones) + 1
           m == <<"MPATCH", n>>
<1>1. /\ UNCHANGED <<order, scale, diskVars, dropped, given, failures>>
      /\ stage = "candidate" /\ stage' = "implement"
      /\ milestones' = Append(milestones, m)
      /\ tasks' = tasks \o Stages(m) /\ task_ids' = Append(task_ids, IdsOf(tasks', m))
  BY DEF PlanCandidate
<1>2. /\ dropped = {} /\ writing = NoFile /\ order.flow = "multi_patch"
      /\ Len(task_ids) = Len(milestones) /\ Len(given) = Len(milestones)
  BY <1>0, <1>1 DEF StageInOrder, WritesArePolite
<1>3. /\ n \in Nat /\ m \in MilestoneType
      /\ milestones \in Seq(MilestoneType) /\ DOMAIN milestones = 1..Len(milestones)
      /\ DOMAIN task_ids = DOMAIN milestones /\ DOMAIN given = DOMAIN milestones
  <2>1. n \in Nat
    BY <1>0, PlanSeqs
  <2> QED
    BY <1>0, <1>2, <2>1, PlanSeqs DEF PlanningTypeOK, MilestoneType, Series
<1>4. /\ milestones' \in Seq(MilestoneType) /\ milestones'[n] = m /\ n \in DOMAIN milestones'
      /\ DOMAIN milestones' = 1..n /\ Len(milestones') = n
      /\ \A k \in DOMAIN milestones : milestones'[k] = milestones[k]
  <2> HIDE DEF m
  <2> QED
    BY <1>1, <1>3
<1>5. MilestonesKnown'
  <2>1. \A k \in DOMAIN milestones' : milestones'[k] = <<"MPATCH", k>>
    <3>1. ASSUME NEW k \in DOMAIN milestones', k # n PROVE milestones'[k] = <<"MPATCH", k>>
      <4>1. k \in DOMAIN milestones
        BY <1>3, <1>4, <3>1
      <4> QED
        BY <1>0, <1>2, <1>4, <4>1 DEF PlanKept, MilestonesKnown
    <3> QED
      BY <1>4, <3>1
  <2>2. \A i, j \in DOMAIN milestones' : milestones'[i] = milestones'[j] => i = j
    BY <2>1
  <2> QED
    BY <1>1, <1>2, <2>1, <2>2 DEF MilestonesKnown
<1>6. /\ PlanKept' /\ tasks' \in Seq(TaskType) /\ DOMAIN tasks \subseteq DOMAIN tasks'
      /\ task_ids' \in Seq(SUBSET ((Series \X Nat) \X Nat)) /\ Len(task_ids') = n
      /\ \A k \in DOMAIN task_ids : TasksOf(milestones[k])' = TasksOf(milestones[k])
  <2> PICK more \in Seq(TaskType) : more = Stages(m)
    BY <1>3, StagesOf
  <2>1. \A i \in DOMAIN more : more[i].milestone = m /\ DistinctFiles(more[i].files)
    <3> HIDE DEF m
    <3>1. DOMAIN more = 1..4
      BY <1>3, StagesOf
    <3> QED
      BY <1>3, <3>1, StagesOf
  <2>2. PICK next \in Nat : next = n
    BY <1>3
  <2>3. milestones'[next] = m /\ next \in DOMAIN milestones' /\ next = Len(task_ids) + 1
    BY <1>2, <1>4, <2>2
  <2>4. more = Stages(milestones'[next]) /\ tasks' = tasks \o more
        /\ \A i \in DOMAIN more : more[i].milestone = milestones'[next] /\ DistinctFiles(more[i].files)
    BY <1>1, <2>1, <2>3
  <2>5. task_ids' = Append(task_ids, IdsOf(tasks', milestones'[next]))
    BY <1>1, <2>3
  <2>6. order.flow \notin {"delivery", "issue"} /\ UNCHANGED <<order, dropped>>
        /\ \A k \in DOMAIN task_ids : k \in DOMAIN milestones /\ milestones'[k] = milestones[k]
    BY <1>1, <1>2, <1>3, <1>4
  <2>7. /\ PlanKept' /\ tasks' \in Seq(TaskType) /\ DOMAIN tasks \subseteq DOMAIN tasks'
        /\ task_ids' \in Seq(SUBSET ((Series \X Nat) \X Nat)) /\ Len(task_ids') = next
        /\ \A k \in DOMAIN task_ids : TasksOf(milestones[k])' = TasksOf(milestones[k])
    <3> HIDE DEF n, m
    <3> QED
      BY <1>0, <1>4, <1>5, <2>3, <2>4, <2>5, <2>6, OneMoreMilestone
  <2> QED
    BY <2>2, <2>7
<1>7. PlanningTypeOK'
  <2>1. given \in Seq(SUBSET DOMAIN tasks) /\ SUBSET DOMAIN tasks \subseteq SUBSET DOMAIN tasks'
    BY <1>0, <1>6 DEF PlanningTypeOK
  <2>2. given' \in Seq(SUBSET DOMAIN tasks') /\ dropped' \subseteq DOMAIN tasks'
    BY <1>1, <1>2, <2>1, SeqMonotonic
  <2>3. stage' \in {"scale", "tasks", "scaffold", "candidate", "implement", "over"}
        /\ milestones' \in Seq(Series \X Nat)
    BY <1>1, <1>4 DEF MilestoneType
  <2> QED
    BY <1>0, <1>1, <1>6, <2>2, <2>3 DEF PlanningTypeOK, diskVars
<1>8. StageInOrder'
  <2>1. Len(given') = Len(milestones) /\ Len(milestones') = Len(milestones) + 1
        /\ Len(task_ids') = Len(milestones') /\ Len(milestones) \in Nat
    BY <1>0, <1>1, <1>2, <1>4, <1>6, PlanSeqs
  <2> QED
    BY <1>1, <1>2, <2>1 DEF StageInOrder
<1>9. GivenAsPlanned'
  <2> DEFINE Their(other) == { t \in DOMAIN tasks' \ dropped' : tasks'[t].milestone = other }
  <2>1. ASSUME NEW k \in DOMAIN given PROVE given[k] = Their(milestones'[k])
    <3>1. given[k] = TasksOf(milestones[k])
      BY <1>0 DEF GivenAsPlanned
    <3>2. TasksOf(milestones[k])' = TasksOf(milestones[k])
      BY <1>3, <1>6
    <3>3. TasksOf(milestones[k])' = Their(milestones'[k])
      BY DEF TasksOf
    <3> QED
      BY <3>1, <3>2, <3>3
  <2>2. \A k \in DOMAIN given' : given'[k] = Their(milestones'[k])
    BY <1>1, <2>1
  <2> QED
    BY <2>2 DEF GivenAsPlanned, TasksOf
<1>10. DroppedArePresent' /\ WritesArePolite' /\ SkeletonIsPolite'
  BY <1>1, <1>2, SameDisk
<1> QED
  BY <1>6, <1>7, <1>8, <1>9, <1>10 DEF PlanningInv

(* All milestones of a delivery or an issue have their tasks.              *)
LEMMA PlannedStep == ASSUME PlanningInv, TasksPlanned PROVE PlanningInv'
<1>0. /\ PlanningTypeOK /\ StageInOrder /\ PlanKept /\ GivenAsPlanned /\ WritesArePolite
      /\ SkeletonIsPolite
  BY DEF PlanningInv
<1>1. /\ UNCHANGED <<order, scale, milestones, task_ids, disk, writing, overwritten, raced, saves,
                     dropped, given, failures>>
      /\ stage = "tasks" /\ order.flow \in {"delivery", "issue"}
      /\ Len(task_ids) = Len(milestones)
  BY DEF TasksPlanned
<1>2. given = <<>> /\ DOMAIN given = {} /\ Len(given) = 0 /\ dropped = {} /\ writing = NoFile
  BY <1>0, <1>1 DEF StageInOrder, WritesArePolite
<1>3. /\ tasks' \in Seq(TaskType) /\ todo' \subseteq PlanFiles
      /\ order.flow = "delivery" => stage' = "scaffold" /\ tasks' = tasks
      /\ order.flow = "issue" => stage' = "implement"
      /\ tasks' = tasks
         \/ /\ DOMAIN tasks' = {1} /\ tasks'[1].milestone = <<"MI", 1>>
            /\ tasks'[1].id = <<<<"MI", 1>>, 1>> /\ tasks'[1].deps = {}
            /\ tasks'[1].files = <<>> /\ order.flow = "issue"
  <2>1. CASE order.flow = "delivery"
    <3>1. order \in OrderType
      BY <1>0 DEF PlanningTypeOK
    <3> QED
      BY <1>0, <2>1, <3>1, ToCreateType DEF TasksPlanned, PlanningTypeOK
  <2>2. CASE order.flow = "issue" /\ tasks # <<>>
    BY <1>0, <2>2 DEF TasksPlanned, PlanningTypeOK
  <2>3. CASE order.flow = "issue" /\ tasks = <<>>
    <3> PICK one : one = Task(<<"MI", 1>>, <<<<"MI", 1>>, 1>>, Plain("feature"), {})
      OBVIOUS
    <3>1. tasks' = <<one>> /\ stage' = "implement" /\ todo' = todo
      BY <2>3 DEF TasksPlanned
    <3>2. <<"MI", 1>> \in MilestoneType /\ Plain("feature") \in DraftType
      BY PlainIsOne DEF MilestoneType, Series, Types
    <3>3. <<<<"MI", 1>>, 1>> \in MilestoneType \X Nat /\ {} \in SUBSET (MilestoneType \X Nat)
      BY <3>2
    <3>4. /\ one \in TaskType /\ one.milestone = <<"MI", 1>> /\ one.id = <<<<"MI", 1>>, 1>>
          /\ one.deps = {} /\ one.files = Plain("feature").files
      BY <3>2, <3>3, TaskFields
    <3>5. one.files = <<>>
      BY <3>4 DEF Plain, Draft
    <3>6. tasks' \in Seq(TaskType) /\ DOMAIN tasks' = {1} /\ tasks'[1] = one
      BY <3>1, <3>4
    <3> QED
      BY <1>0, <2>3, <3>1, <3>4, <3>5, <3>6 DEF PlanningTypeOK
  <2> QED
    BY <1>1, <2>1, <2>2, <2>3
<1>4. PlanKept'
  <2>1. CASE tasks' = tasks
    BY <1>0, <1>1, <2>1, SamePlan DEF planVars
  <2>2. CASE tasks' # tasks
    <3>1. MilestonesKnown'
      BY <1>0, <1>1 DEF PlanKept, MilestonesKnown
    <3>2. milestones[1] = <<"MI", 1>> /\ 1 \in DOMAIN task_ids
      BY <1>0, <1>1, <1>3, <2>2, PlanSeqs DEF PlanKept, MilestonesKnown
    <3>3. TasksNumbered'
      <4>1. DistinctFiles(<<>>)
        BY DEF DistinctFiles
      <4> QED
        BY <1>1, <1>3, <2>2, <3>2, <4>1 DEF TasksNumbered
    <3>4. TasksStaged' /\ MilestonesListTheirs'
      BY <1>1, <1>3, <2>2 DEF TasksStaged, MilestonesListTheirs
    <3> QED
      BY <3>1, <3>3, <3>4 DEF PlanKept
  <2> QED
    BY <2>1, <2>2
<1>5. PlanningTypeOK'
  <2>1. given' \in Seq(SUBSET DOMAIN tasks') /\ dropped' \subseteq DOMAIN tasks'
    BY <1>1, <1>2, EmptySeq
  <2>2. stage' \in {"scale", "tasks", "scaffold", "candidate", "implement", "over"}
    BY <1>1, <1>3
  <2> QED
    BY <1>0, <1>1, <1>3, <2>1, <2>2 DEF PlanningTypeOK
<1>6. StageInOrder'
  <2>1. stage' \in {"scaffold", "implement"} /\ order'.flow = order.flow
        /\ (stage' = "scaffold" => order.flow = "delivery") /\ order.flow # "multi_patch"
    BY <1>1, <1>3
  <2> QED
    BY <1>0, <1>1, <1>2, <2>1 DEF StageInOrder
<1>7. GivenAsPlanned'
  BY <1>1, <1>2 DEF GivenAsPlanned
<1>8. DroppedArePresent' /\ WritesArePolite' /\ SkeletonIsPolite'
  BY <1>0, <1>1, <1>2 DEF DroppedArePresent, WritesArePolite, SkeletonIsPolite
<1> QED
  BY <1>4, <1>5, <1>6, <1>7, <1>8 DEF PlanningInv

(* Nothing happens.                                                        *)
LEMMA PlanningStutters == ASSUME PlanningInv, UNCHANGED planningVars PROVE PlanningInv'
<1>0. /\ PlanningTypeOK /\ StageInOrder /\ PlanKept
      /\ GivenAsPlanned /\ DroppedArePresent /\ WritesArePolite /\ SkeletonIsPolite
  BY DEF PlanningInv
<1>1. UNCHANGED <<order, stage, scale, milestones, tasks, task_ids, disk, todo, writing, overwritten,
                  raced, saves, dropped, given, failures>>
  BY DEF planningVars, planVars, diskVars
<1>2. PlanKept'
  BY <1>0, <1>1, SamePlan DEF planVars
<1>3. PlanningTypeOK' /\ StageInOrder'
  BY <1>0, <1>1 DEF PlanningTypeOK, StageInOrder
<1>4. GivenAsPlanned' /\ DroppedArePresent' /\ WritesArePolite' /\ SkeletonIsPolite'
  BY <1>0, <1>1 DEF GivenAsPlanned, TasksOf, DroppedArePresent, WritesArePolite, SkeletonIsPolite
<1> QED
  BY <1>2, <1>3, <1>4 DEF PlanningInv

(* The invariant of the plans holds.                                       *)
THEOREM PlanningInvariant == PlanningSpec => []PlanningInv
<1>1. PlanningInit => PlanningInv
  BY PlanningStart
<1>2. PlanningInv /\ [PlanningNext]_planningVars => PlanningInv'
  BY MilestonesStep, TasksStep, PlannedStep, BugFixStep, CandidateStep, DiskStep, VerifyStep,
     ImplementStep, EndStep, PlanningStutters
  DEF PlanningNext
<1> QED
  BY <1>1, <1>2, PTL DEF PlanningSpec

(* The types of DeliveryPlanning.                                          *)
THEOREM PlanningTypes == PlanningSpec => []PlanningTypeOK
<1>1. PlanningInv => PlanningTypeOK
  BY DEF PlanningInv
<1> QED
  BY <1>1, PlanningInvariant, PTL

(* One of them.                                                            *)
LEMMA StageFields ==
  ASSUME NEW m \in MilestoneType, NEW i \in 1..4
  PROVE  /\ Stages(m)[i].milestone = m /\ Stages(m)[i].id = <<<<"BUG", 0>>, i>>
         /\ Stages(m)[i].deps = IF i = 1 THEN {} ELSE {<<<<"BUG", 0>>, i - 1>>}
BY StagesOf, ZenonT(30)

(* A task of a bug fix or a candidate is a stage of its milestone.         *)
LEMMA StagedTask ==
  ASSUME PlanningInv, order.flow \in {"bug_fix", "multi_patch"}, NEW t \in DOMAIN tasks
  PROVE  \E k \in DOMAIN milestones, i \in 1..4 :
           /\ t = 4 * (k - 1) + i /\ tasks[t].milestone = milestones[k]
           /\ tasks[t].id = <<<<"BUG", 0>>, i>>
           /\ tasks[t].deps = IF i = 1 THEN {} ELSE {<<<<"BUG", 0>>, i - 1>>}
<1>0. PlanningTypeOK /\ StageInOrder /\ TasksStaged
  BY DEF PlanningInv, PlanKept
<1>1. PICK k \in DOMAIN task_ids, i \in 1..4 : t = 4 * (k - 1) + i /\ tasks[t] = Stages(milestones[k])[i]
  BY <1>0 DEF TasksStaged
<1>2. k \in DOMAIN milestones
  <2>1. Len(task_ids) <= Len(milestones)
    BY <1>0 DEF StageInOrder
  <2> QED
    BY <1>0, <2>1, PlanSeqs
<1> PICK m \in MilestoneType : m = milestones[k]
  BY <1>0, <1>2, PlanSeqs
<1>3. /\ Stages(m)[i].milestone = m /\ Stages(m)[i].id = <<<<"BUG", 0>>, i>>
      /\ Stages(m)[i].deps = IF i = 1 THEN {} ELSE {<<<<"BUG", 0>>, i - 1>>}
  BY StageFields
<1>4. tasks[t] = Stages(m)[i]
  BY <1>1
<1> QED
  BY <1>1, <1>2, <1>3, <1>4

(* Milestones are told apart by their ids.                                 *)
LEMMA SameMilestone ==
  ASSUME PlanningInv, NEW j \in DOMAIN milestones, NEW k \in DOMAIN milestones,
         milestones[j] = milestones[k]
  PROVE  j = k
BY DEF PlanningInv, PlanKept, MilestonesKnown

(* What a task depends on is planned before it, in the same milestone.     *)
LEMMA DependsOnEarlier ==
  ASSUME PlanningInv, NEW t \in DOMAIN tasks, NEW u \in DOMAIN tasks,
         tasks[t].milestone = tasks[u].milestone, tasks[u].id \in tasks[t].deps
  PROVE  u < t
<1>1. order.flow \in {"bug_fix", "multi_patch"}
  <2>1. order.flow \in Flows
    BY DEF PlanningInv, PlanningTypeOK, OrderType
  <2> QED
    BY <2>1 DEF PlanningInv, PlanKept, TasksNumbered, Flows
<1>2. PICK k \in DOMAIN milestones, i \in 1..4 :
        /\ t = 4 * (k - 1) + i /\ tasks[t].milestone = milestones[k]
        /\ tasks[t].deps = IF i = 1 THEN {} ELSE {<<<<"BUG", 0>>, i - 1>>}
  BY <1>1, StagedTask
<1>3. PICK l \in DOMAIN milestones, j \in 1..4 :
        /\ u = 4 * (l - 1) + j /\ tasks[u].milestone = milestones[l]
        /\ tasks[u].id = <<<<"BUG", 0>>, j>>
  BY <1>1, StagedTask
<1>4. k = l
  BY <1>2, <1>3, SameMilestone
<1>5. j = i - 1
  BY <1>2, <1>3
<1>6. k \in Nat
  BY PlanSeqs DEF PlanningInv
<1> QED
  BY <1>2, <1>3, <1>4, <1>5, <1>6

(* What PlansAreExecutable consists of, part by part.                      *)
LEMMA UniqueIds == PlanningInv => IdsAreUnique
<1> SUFFICES ASSUME PlanningInv PROVE IdsAreUnique
  OBVIOUS
<1>1. order.flow \in Flows
  BY DEF PlanningInv, PlanningTypeOK, OrderType
<1>2. ASSUME NEW t \in DOMAIN tasks, NEW u \in DOMAIN tasks, tasks[t].id = tasks[u].id,
             order.flow = "multi_patch" => tasks[t].milestone = tasks[u].milestone
      PROVE  t = u
  <2>1. CASE order.flow \in {"delivery", "issue"}
    BY <1>2, <2>1 DEF PlanningInv, PlanKept, TasksNumbered
  <2>2. CASE order.flow \in {"bug_fix", "multi_patch"}
    <3>1. PICK k \in DOMAIN milestones, i \in 1..4 :
            /\ t = 4 * (k - 1) + i /\ tasks[t].milestone = milestones[k]
            /\ tasks[t].id = <<<<"BUG", 0>>, i>>
      BY <2>2, StagedTask
    <3>2. PICK l \in DOMAIN milestones, j \in 1..4 :
            /\ u = 4 * (l - 1) + j /\ tasks[u].milestone = milestones[l]
            /\ tasks[u].id = <<<<"BUG", 0>>, j>>
      BY <2>2, StagedTask
    <3>3. i = j
      BY <1>2, <3>1, <3>2
    <3>4. k = l
      <4>1. CASE order.flow = "multi_patch"
        BY <1>2, <3>1, <3>2, <4>1, SameMilestone
      <4>2. CASE order.flow = "bug_fix"
        <5>1. DOMAIN milestones = 1..1
          BY <4>2, PlanSeqs DEF PlanningInv, PlanKept, MilestonesKnown
        <5> QED
          BY <5>1
      <4> QED
        BY <2>2, <4>1, <4>2
    <3> QED
      BY <3>1, <3>2, <3>3, <3>4
  <2> QED
    BY <1>1, <2>1, <2>2 DEF Flows
<1> QED
  BY <1>2, SameMilestone DEF IdsAreUnique

LEMMA NothingIsLost == PlanningInv => EverythingIsGiven
<1> SUFFICES ASSUME PlanningInv PROVE EverythingIsGiven
  OBVIOUS
<1>0. /\ PlanningTypeOK /\ StageInOrder /\ TasksNumbered /\ GivenAsPlanned /\ DroppedArePresent
  BY DEF PlanningInv, PlanKept
<1>1. ASSUME NEW k \in DOMAIN given, NEW t \in DOMAIN tasks, tasks[t].milestone = milestones[k]
      PROVE  t \in given[k] \/ \A i \in DOMAIN tasks[t].files : disk[tasks[t].files[i]] # "absent"
  BY <1>0, <1>1 DEF GivenAsPlanned, TasksOf, DroppedArePresent
<1>2. ASSUME stage = "over", failures # {} => ~order.stops, NEW t \in DOMAIN tasks \ dropped
      PROVE  \E k \in DOMAIN given : t \in given[k]
  <2>1. PICK k \in DOMAIN task_ids : tasks[t].milestone = milestones[k]
    BY <1>0 DEF TasksNumbered
  <2>2. k \in DOMAIN given
    BY <1>0, <1>2, PlanSeqs DEF StageInOrder
  <2> QED
    BY <1>0, <2>1, <2>2 DEF GivenAsPlanned, TasksOf
<1> QED
  BY <1>1, <1>2 DEF EverythingIsGiven

LEMMA ForwardLists == PlanningInv => ListsAreForward
<1> SUFFICES ASSUME PlanningInv, NEW k \in DOMAIN given
             PROVE  /\ \A t \in given[k] : \A id \in tasks[t].deps :
                         \E u \in given[k] : u < t /\ tasks[u].id = id
                    /\ \A list \in [1..Cardinality(given[k]) -> given[k]] :
                         InOrder(list) => Waves!Forward(AsGiven(list))
  BY DEF ListsAreForward
<1>0. /\ PlanningTypeOK /\ StageInOrder /\ TasksNumbered /\ GivenAsPlanned
  BY DEF PlanningInv, PlanKept
<1>1. /\ given[k] = TasksOf(milestones[k]) /\ given[k] \subseteq DOMAIN tasks
      /\ \A t \in given[k] : tasks[t].milestone = milestones[k]
  BY <1>0 DEF GivenAsPlanned, TasksOf
<1>2. ASSUME NEW t \in given[k], NEW id \in tasks[t].deps
      PROVE  \E u \in given[k] : u < t /\ tasks[u].id = id
  <2>1. order.flow \in {"bug_fix", "multi_patch"} /\ t \in DOMAIN tasks
    <3>1. order.flow \in Flows
      BY <1>0 DEF PlanningTypeOK, OrderType
    <3> QED
      BY <1>0, <1>1, <3>1 DEF TasksNumbered, Flows
  <2>2. PICK l \in DOMAIN milestones, i \in 1..4 :
          /\ t = 4 * (l - 1) + i /\ tasks[t].milestone = milestones[l]
          /\ tasks[t].deps = IF i = 1 THEN {} ELSE {<<<<"BUG", 0>>, i - 1>>}
    BY <2>1, StagedTask
  <2>3. i # 1 /\ id = <<<<"BUG", 0>>, i - 1>> /\ l \in Nat
    BY <1>0, <2>2, PlanSeqs
  <2>4. t - 1 \in DOMAIN tasks /\ t \in Nat
    BY <1>0, <2>1, <2>2, <2>3, PlanSeqs
  <2>5. PICK n \in DOMAIN milestones, j \in 1..4 :
          /\ t - 1 = 4 * (n - 1) + j /\ tasks[t - 1].milestone = milestones[n]
          /\ tasks[t - 1].id = <<<<"BUG", 0>>, j>>
    BY <2>1, <2>4, StagedTask
  <2>6. n \in Nat
    BY <1>0, PlanSeqs
  <2>7. n = l /\ j = i - 1
    BY <2>2, <2>3, <2>5, <2>6
  <2>8. tasks[t - 1].milestone = milestones[k] /\ dropped = {}
    BY <1>0, <1>1, <2>1, <2>2, <2>5, <2>7 DEF StageInOrder
  <2>9. t - 1 \in given[k]
    BY <1>1, <2>4, <2>8 DEF TasksOf
  <2>10. t - 1 < t /\ tasks[t - 1].id = id
    BY <2>3, <2>4, <2>5, <2>7
  <2> QED
    BY <2>9, <2>10
<1>3. ASSUME NEW list \in [1..Cardinality(given[k]) -> given[k]], InOrder(list)
      PROVE  Waves!Forward(AsGiven(list))
  <2>1. Cardinality(given[k]) \in Nat
    <3>1. IsFiniteSet(DOMAIN tasks)
      BY <1>0, PlanSeqs, FS_Interval
    <3> QED
      BY <1>1, <3>1, FS_Subset, FS_CardinalityType
  <2>2. /\ DOMAIN AsGiven(list) = DOMAIN list
        /\ \A i \in DOMAIN list :
             /\ AsGiven(list)[i].deps = { j \in DOMAIN list : tasks[list[j]].id \in tasks[list[i]].deps }
             /\ AsGiven(list)[i].twice =
                  { tasks[list[i]].files[a] :
                      a \in { b \in DOMAIN tasks[list[i]].files :
                                \E c \in DOMAIN tasks[list[i]].files \ {b} :
                                  tasks[list[i]].files[c] = tasks[list[i]].files[b] } }
    BY DEF AsGiven
  <2>3. ASSUME NEW i \in DOMAIN list PROVE AsGiven(list)[i].twice = {}
    <3>1. DistinctFiles(tasks[list[i]].files)
      BY <1>0, <1>1 DEF TasksNumbered
    <3> QED
      BY <2>2, <3>1 DEF DistinctFiles
  <2>4. ASSUME NEW i \in DOMAIN list, NEW d \in AsGiven(list)[i].deps PROVE d < i
    <3>1. d \in DOMAIN list /\ tasks[list[d]].id \in tasks[list[i]].deps
      BY <2>2, <2>4
    <3>2. list[d] \in given[k] /\ list[i] \in given[k]
      BY <3>1
    <3>3. list[d] < list[i] /\ list[d] \in Nat /\ list[i] \in Nat
      BY <1>0, <1>1, <3>1, <3>2, DependsOnEarlier, PlanSeqs
    <3>4. ~(i < d) /\ i # d
      BY <1>3, <3>1, <3>3 DEF InOrder
    <3> QED
      BY <2>1, <3>1, <3>4
  <2> QED
    BY <2>2, <2>3, <2>4 DEF Waves!Forward
<1> QED
  BY <1>2, <1>3

(* For any order and any repository, whatever is saved meanwhile: milestones
   and tasks have ids of their own, a milestone lists its tasks and is
   executed with all of them that have anything left to do, in lists that
   the planner of the waves never gives up on, and the skeleton replaces
   nobody's file but one that was saved between its look and its write.    *)
THEOREM ExecutablePlans == PlanningSpec => []PlansAreExecutable
<1>1. PlanningInv => PlansAreExecutable
  BY UniqueIds, NothingIsLost, ForwardLists DEF PlansAreExecutable, PlanningInv, PlanKept
<1> QED
  BY <1>1, PlanningInvariant, PTL

-----------------------------------------------------------------------------
(* A group of repositories.  What has been parsed was sound, nothing is
   delivered before all of it is parsed, and the one that is delivered next
   has not been delivered.                                                 *)
Underway ==
  /\ \A k \in 1..parsed : Sound(group[k])
  /\ phase \in {"parsing", "refused"} =>
       results = <<>> /\ \A k \in DOMAIN group : outcome[k] = "none"
  /\ phase \notin {"parsing", "refused"} => parsed = Len(group)
  /\ phase \in {"deliver", "manifest", "except"} => Current <= Len(group)
  /\ phase \in {"next", "deliver"} =>
       \A k \in DOMAIN group : k = Current => outcome[k] = "none"
  /\ phase = "manifest" => outcome[Current] \in {"clean", "errors"}
  /\ summary.written => phase = "done"

(* The manifest of a directory is that of the last with its slug, unless the
   present one is just failing to write it.                                *)
IsLast(k) ==
  LET mine == manifests[group[k].slug]
  IN /\ mine.spec \in k..Len(results) /\ group[mine.spec].slug = group[k].slug
     /\ mine.run = results[mine.spec].run
     /\ mine.status = "error" <=> results[mine.spec].status = "error"
LastOfOthers ==
  \A k \in DOMAIN results :
    /\ phase # "raised"
    /\ phase = "except" => group[k].slug # group[Current].slug
    => IsLast(k)

GroupInv == GroupTypeOK /\ Underway /\ ResultsAreTheirs /\ LastOfOthers /\ SummaryAddsUp

LEMMA GroupStart == GroupInit => GroupInv
<1> SUFFICES ASSUME GroupInit PROVE GroupInv
  OBVIOUS
<1> USE GroupAssumption
<1>1. results = <<>> /\ results \in Seq(ReportType) /\ DOMAIN results = {} /\ Len(results) = 0
  <2>1. <<>> \in Seq(ReportType)
    OBVIOUS
  <2> QED
    BY <2>1 DEF GroupInit
<1>2. manifests \in [Slugs -> ReportType]
  <2>1. NoManifest \in ReportType
    BY DEF NoManifest, ReportType
  <2> QED
    BY <2>1 DEF GroupInit
<1>3. group \in Seq(EntryType) /\ Len(group) \in Nat /\ parsed = 0
  BY DEF GroupInit
<1>4. summary \in [total : Nat, succeeded : Nat, failed : Int, written : BOOLEAN]
      /\ ~summary.written
  BY DEF GroupInit, NoSummary
<1>5. outcome \in [DOMAIN group -> {"none", "raised", "clean", "errors"}]
  BY DEF GroupInit
<1>6. GroupTypeOK
  BY <1>1, <1>2, <1>3, <1>4, <1>5 DEF GroupInit, GroupTypeOK
<1>7. Underway
  BY <1>1, <1>3, <1>4 DEF GroupInit, Underway
<1>8. ResultsAreTheirs /\ LastOfOthers /\ SummaryAddsUp
  BY <1>1, <1>3, <1>4 DEF GroupInit, ResultsAreTheirs, LastOfOthers, SummaryAddsUp
<1> QED
  BY <1>6, <1>7, <1>8 DEF GroupInv

(* An entry of the group, and what is said of it.                          *)
LEMMA GroupFields ==
  ASSUME GroupTypeOK
  PROVE  /\ group \in Seq(EntryType) /\ Len(group) \in Nat /\ DOMAIN group = 1..Len(group)
         /\ \A k \in DOMAIN group : group[k].slug \in Slugs /\ group[k].path \in Paths
         /\ results \in Seq(ReportType) /\ Len(results) \in Nat
         /\ DOMAIN results = 1..Len(results) /\ Current = Len(results) + 1
         /\ parsed \in 0..Len(group)
<1>1. group \in Seq(EntryType) /\ results \in Seq(ReportType) /\ parsed \in 0..Len(group)
  BY DEF GroupTypeOK
<1>2. /\ Len(group) \in Nat /\ DOMAIN group = 1..Len(group)
      /\ Len(results) \in Nat /\ DOMAIN results = 1..Len(results)
  BY <1>1
<1>3. \A k \in DOMAIN group : group[k] \in EntryType
  BY <1>1
<1> QED
  BY <1>1, <1>2, <1>3 DEF EntryType, Current

(* Another result is put behind the others.                                *)
LEMMA OneMoreResult ==
  ASSUME GroupTypeOK, NEW one \in ReportType, results' = Append(results, one)
  PROVE  /\ results' \in Seq(ReportType) /\ Len(results') = Len(results) + 1
         /\ DOMAIN results' = 1..Current /\ results'[Current] = one
         /\ \A k \in DOMAIN results : results'[k] = results[k]
BY GroupFields DEF Current

LEMMA ReportedType ==
  ASSUME GroupTypeOK, NEW status \in {"none", "success", "failed", "error"}, NEW ran \in BOOLEAN
  PROVE  /\ Reported(status, ran) \in ReportType
         /\ Reported(status, ran).spec = Current
         /\ Reported(status, ran).status = status /\ Reported(status, ran).run = ran
BY GroupFields DEF Reported, ReportType

LEMMA GroupTypesStep == GroupInv /\ [GroupNext]_groupVars => GroupTypeOK'
<1> SUFFICES ASSUME GroupInv, [GroupNext]_groupVars PROVE GroupTypeOK'
  OBVIOUS
<1> USE GroupAssumption
<1>0. GroupTypeOK /\ Underway
  BY DEF GroupInv
<1>1. CASE ParseEntry
  BY <1>0, <1>1, GroupFields DEF ParseEntry, GroupTypeOK
<1>2. CASE Parsed \/ BeginRepo \/ RepoMissing
  BY <1>0, <1>2 DEF Parsed, BeginRepo, RepoMissing, GroupTypeOK
<1>3. ASSUME NEW ends \in {"raised", "clean", "errors"}, DeliverRepo(ends) PROVE GroupTypeOK'
  BY <1>0, <1>3 DEF DeliverRepo, GroupTypeOK
<1>4. CASE WriteManifest
  <2>1. Reported("success", TRUE) \in ReportType
    BY <1>0, ReportedType
  <2>2. Reported(IF outcome[Current] = "clean" THEN "success" ELSE "failed", TRUE) \in ReportType
    BY <1>0, ReportedType
  <2>3. results' \in Seq(ReportType)
    BY <1>0, <1>4, <2>2, OneMoreResult DEF WriteManifest
  <2>4. manifests' \in [Slugs -> ReportType]
    BY <1>0, <1>4, <2>1 DEF WriteManifest, GroupTypeOK
  <2> QED
    BY <1>0, <1>4, <2>3, <2>4 DEF WriteManifest, GroupTypeOK
<1>5. CASE ReportError
  <2>1. Reported("error", FALSE) \in ReportType
    BY <1>0, ReportedType
  <2>3. results' \in Seq(ReportType)
    BY <1>0, <1>5, <2>1, OneMoreResult DEF ReportError
  <2>4. manifests' \in [Slugs -> ReportType]
    BY <1>0, <1>5, <2>1 DEF ReportError, GroupTypeOK
  <2> QED
    BY <1>0, <1>5, <2>3, <2>4 DEF ReportError, GroupTypeOK
<1>6. CASE ManifestFails \/ ErrorUnwritten
  <2>1. NoManifest \in ReportType
    BY DEF NoManifest, ReportType
  <2>2. manifests' \in [Slugs -> ReportType]
    BY <1>0, <1>6, <2>1 DEF ManifestFails, ErrorUnwritten, Unwritten, GroupTypeOK
  <2> QED
    BY <1>0, <1>6, <2>2 DEF ManifestFails, ErrorUnwritten, GroupTypeOK
<1>7. CASE Summarize
  <2>1. IsFiniteSet(Successes) /\ Cardinality(Successes) \in Nat
    <3>1. Successes \subseteq 1..Len(results)
      BY <1>0, GroupFields DEF Successes
    <3>2. IsFiniteSet(1..Len(results))
      BY <1>0, GroupFields, FS_Interval
    <3> QED
      BY <3>1, <3>2, FS_Subset, FS_CardinalityType
  <2>2. summary' \in [total : Nat, succeeded : Nat, failed : Int, written : BOOLEAN]
    <3>1. CASE UNCHANGED summary
      BY <1>0, <3>1 DEF GroupTypeOK
    <3>2. PICK wins \in Nat : wins = Cardinality(Successes)
      BY <2>1
    <3>3. CASE summary' = [total |-> Len(results), succeeded |-> Cardinality(Successes),
                           failed |-> Len(results) - Cardinality(Successes), written |-> TRUE]
      <4>1. summary' = [total |-> Len(results), succeeded |-> wins,
                        failed |-> Len(results) - wins, written |-> TRUE]
        BY <3>2, <3>3
      <4> QED
        BY <1>0, <3>2, <4>1, GroupFields
    <3> QED
      BY <1>7, <3>1, <3>3 DEF Summarize
  <2> QED
    BY <1>0, <1>7, <2>2 DEF Summarize, GroupTypeOK
<1>8. ASSUME NEW path \in Paths, Move(path) PROVE GroupTypeOK'
  BY <1>0, <1>8 DEF Move, GroupTypeOK
<1>9. CASE UNCHANGED groupVars
  BY <1>0, <1>9 DEF groupVars, GroupTypeOK
<1> QED
  BY <1>1, <1>2, <1>3, <1>4, <1>5, <1>6, <1>7, <1>8, <1>9 DEF GroupNext

LEMMA UnderwayStep ==
  GroupInv /\ [GroupNext]_groupVars => Underway' /\ ResultsAreTheirs'
<1> SUFFICES ASSUME GroupInv, [GroupNext]_groupVars PROVE Underway' /\ ResultsAreTheirs'
  OBVIOUS
<1>0. GroupTypeOK /\ Underway /\ ResultsAreTheirs
  BY DEF GroupInv
<1> DEFINE Both == Underway /\ ResultsAreTheirs
<1>1. ASSUME ParseEntry PROVE Both'
  <2>1. Underway'
    BY <1>0, <1>1, GroupFields DEF ParseEntry, Underway, Sound, Current
  <2>2. ResultsAreTheirs'
    BY <1>0, <1>1 DEF ParseEntry, ResultsAreTheirs
  <2> QED
    BY <2>1, <2>2
<1>2. ASSUME Parsed \/ BeginRepo \/ RepoMissing PROVE Both'
  <2>1. Underway'
    BY <1>0, <1>2, GroupFields DEF Parsed, BeginRepo, RepoMissing, Underway, Sound, Current
  <2>2. ResultsAreTheirs'
    BY <1>0, <1>2 DEF Parsed, BeginRepo, RepoMissing, ResultsAreTheirs
  <2> QED
    BY <2>1, <2>2
<1>3. ASSUME NEW ends \in {"raised", "clean", "errors"}, DeliverRepo(ends) PROVE Both'
  <2>1. Current \in DOMAIN group /\ Current \notin DOMAIN results
    BY <1>0, <1>3, GroupFields DEF DeliverRepo, Underway
  <2>2. /\ outcome'[Current] = ends
        /\ \A k \in DOMAIN group \ {Current} : outcome'[k] = outcome[k]
    BY <1>0, <1>3, <2>1 DEF DeliverRepo, GroupTypeOK
  <2>3. Underway'
    BY <1>0, <1>3, <2>1, <2>2, GroupFields DEF DeliverRepo, Underway, Sound, Current
  <2>4. ResultsAreTheirs'
    BY <1>0, <1>3, <2>1, <2>2, GroupFields DEF DeliverRepo, ResultsAreTheirs
  <2> QED
    BY <2>3, <2>4
<1>4. ASSUME WriteManifest \/ ReportError PROVE Both'
  <2> DEFINE says == IF phase = "except" THEN "error"
                     ELSE IF outcome[Current] = "clean" THEN "success" ELSE "failed"
             one == Reported(says, phase # "except")
  <2>0. results' = Append(results, one) /\ phase' = "next" /\ phase \in {"manifest", "except"}
        /\ UNCHANGED <<group, parsed, outcome, summary>>
    BY <1>4 DEF WriteManifest, ReportError
  <2>1. one \in ReportType /\ one.spec = Current /\ one.status = says
        /\ one.run = (phase # "except")
    BY <1>0, ReportedType
  <2> HIDE DEF one
  <2>2. /\ Len(results') = Len(results) + 1
        /\ DOMAIN results' = 1..Current /\ results'[Current] = one
        /\ \A k \in DOMAIN results : results'[k] = results[k]
    BY <1>0, <2>0, <2>1, OneMoreResult
  <2>3. Underway'
    BY <1>0, <2>0, <2>2, GroupFields DEF Underway, ResultsAreTheirs, Sound, Current
  <2>4. outcome[Current] \in {"none", "raised", "clean", "errors"}
    BY <1>0, <2>0, GroupFields DEF GroupTypeOK, Underway
  <2>5. \A k \in DOMAIN results' : k \in DOMAIN results \/ k = Current
    BY <1>0, <2>2, GroupFields
  <2>6. ResultsAreTheirs'
    <3>1. Len(results') <= Len(group')
      BY <1>0, <2>0, <2>2, GroupFields DEF Underway
    <3>2. \A k \in DOMAIN group' : k > Len(results') + 1 => outcome'[k] = "none"
      BY <1>0, <2>0, <2>2, GroupFields DEF ResultsAreTheirs
    <3>3. ASSUME NEW k \in DOMAIN results
          PROVE  /\ results'[k].spec = k
                 /\ results'[k].status = "success" => outcome'[k] = "clean"
                 /\ results'[k].status = "failed" => outcome'[k] = "errors"
                 /\ results'[k].run => outcome'[k] \in {"clean", "errors"}
                 /\ outcome'[k] \in {"none", "raised"} => results'[k].status = "error"
      BY <1>0, <2>0, <2>2 DEF ResultsAreTheirs
    <3>4. /\ results'[Current].spec = Current
          /\ results'[Current].status = "success" => outcome'[Current] = "clean"
          /\ results'[Current].status = "failed" => outcome'[Current] = "errors"
          /\ results'[Current].run => outcome'[Current] \in {"clean", "errors"}
          /\ outcome'[Current] \in {"none", "raised"} => results'[Current].status = "error"
      BY <1>0, <2>0, <2>1, <2>2, <2>4 DEF Underway
    <3> QED
      BY <2>5, <3>1, <3>2, <3>3, <3>4 DEF ResultsAreTheirs
  <2> QED
    BY <2>3, <2>6
<1>5. ASSUME ManifestFails \/ ErrorUnwritten PROVE Both'
  <2>1. Underway'
    BY <1>0, <1>5, GroupFields DEF ManifestFails, ErrorUnwritten, Underway, Sound, Current
  <2>2. ResultsAreTheirs'
    BY <1>0, <1>5 DEF ManifestFails, ErrorUnwritten, ResultsAreTheirs
  <2> QED
    BY <2>1, <2>2
<1>6. ASSUME Summarize PROVE Both'
  <2>1. Underway'
    BY <1>0, <1>6, GroupFields DEF Summarize, Underway, Sound, Current
  <2>2. ResultsAreTheirs'
    BY <1>0, <1>6 DEF Summarize, ResultsAreTheirs
  <2> QED
    BY <2>1, <2>2
<1>7. ASSUME NEW path \in Paths, Move(path) PROVE Both'
  <2>1. Underway'
    BY <1>0, <1>7 DEF Move, Underway, Sound, Current
  <2>2. ResultsAreTheirs'
    BY <1>0, <1>7 DEF Move, ResultsAreTheirs
  <2> QED
    BY <2>1, <2>2
<1>8. ASSUME UNCHANGED groupVars PROVE Both'
  BY <1>0, <1>8 DEF groupVars, Underway, ResultsAreTheirs, Sound, Current
<1> QED
  BY <1>1, <1>2, <1>3, <1>4, <1>5, <1>6, <1>7, <1>8 DEF GroupNext

LEMMA LastStep == GroupInv /\ [GroupNext]_groupVars => LastOfOthers'
<1> SUFFICES ASSUME GroupInv, [GroupNext]_groupVars PROVE LastOfOthers'
  OBVIOUS
<1>0. GroupTypeOK /\ Underway /\ ResultsAreTheirs /\ LastOfOthers
  BY DEF GroupInv
<1>1. CASE UNCHANGED <<group, results, manifests>> /\ (phase' # "raised" => phase # "raised")
           /\ (phase = "except" => phase' \in {"except", "raised"})
  BY <1>0, <1>1 DEF LastOfOthers, IsLast, Current
<1>2. CASE WriteManifest \/ ReportError
  <2> DEFINE slug == group[Current].slug
             error == phase = "except"
             left == Reported(IF error THEN "error" ELSE "success", ~error)
             says == IF error THEN "error"
                     ELSE IF outcome[Current] = "clean" THEN "success" ELSE "failed"
             one == Reported(says, ~error)
  <2>0. /\ results' = Append(results, one) /\ phase' = "next"
        /\ manifests' = [manifests EXCEPT ![slug] = left]
        /\ phase \in {"manifest", "except"} /\ group' = group
    BY <1>2 DEF WriteManifest, ReportError
  <2>1. one \in ReportType /\ one.status = says /\ one.run = ~error
    BY <1>0, ReportedType
  <2>2. left \in ReportType /\ left.spec = Current /\ left.run = ~error
        /\ (left.status = "error" <=> error)
    BY <1>0, ReportedType
  <2> HIDE DEF one, left
  <2>3. /\ Len(results') = Len(results) + 1
        /\ DOMAIN results' = 1..Current /\ results'[Current] = one
        /\ \A k \in DOMAIN results : results'[k] = results[k]
    BY <1>0, <2>0, <2>1, OneMoreResult
  <2>4. slug \in Slugs /\ Current \in DOMAIN group /\ Len(results) \in Nat
        /\ Current = Len(results) + 1
    BY <1>0, <2>0, GroupFields DEF Underway
  <2>5. manifests'[slug] = left /\ \A s \in Slugs \ {slug} : manifests'[s] = manifests[s]
    BY <1>0, <2>0, <2>4 DEF GroupTypeOK
  <2>6. ASSUME NEW k \in DOMAIN results', group[k].slug = slug PROVE IsLast(k)'
    <3>1. manifests'[group'[k].slug] = left
      BY <2>0, <2>5, <2>6
    <3>2. left.spec \in k..Len(results') /\ group'[left.spec].slug = group'[k].slug
      BY <2>0, <2>2, <2>3, <2>4, <2>6
    <3>3. left.run = results'[left.spec].run
      BY <2>1, <2>2, <2>3
    <3>4. left.status = "error" <=> results'[left.spec].status = "error"
      BY <2>1, <2>2, <2>3
    <3> QED
      BY <3>1, <3>2, <3>3, <3>4 DEF IsLast
  <2>7. ASSUME NEW k \in DOMAIN results', group[k].slug # slug PROVE IsLast(k)'
    <3>1. k \in DOMAIN results /\ group[k].slug \in Slugs /\ Len(results) \in Nat
      BY <1>0, <2>3, <2>4, <2>7, GroupFields DEF ResultsAreTheirs
    <3>2. IsLast(k)
      BY <1>0, <2>0, <2>7, <3>1 DEF LastOfOthers
    <3>3. manifests'[group'[k].slug] = manifests[group[k].slug]
      BY <2>0, <2>5, <2>7, <3>1
    <3>4. PICK mine : mine = manifests[group[k].slug]
      OBVIOUS
    <3>5. mine.spec \in k..Len(results) /\ group[mine.spec].slug = group[k].slug
          /\ mine.run = results[mine.spec].run
          /\ (mine.status = "error" <=> results[mine.spec].status = "error")
      BY <3>2, <3>4 DEF IsLast
    <3>6. k \in 1..Len(results)
      BY <1>0, <3>1, GroupFields
    <3>7. mine.spec \in DOMAIN results /\ mine.spec \in k..Len(results')
      BY <1>0, <2>3, <3>1, <3>5, <3>6, GroupFields
    <3>8. results'[mine.spec] = results[mine.spec]
      BY <2>3, <3>7
    <3>9. manifests'[group'[k].slug] = mine
      BY <3>3, <3>4
    <3> QED
      BY <2>0, <3>5, <3>7, <3>8, <3>9 DEF IsLast
  <2> QED
    BY <2>6, <2>7 DEF LastOfOthers
<1>3. CASE ManifestFails
  <2> SUFFICES ASSUME NEW k \in DOMAIN results, group[k].slug # group[Current].slug
               PROVE  IsLast(k)'
    BY <1>3 DEF ManifestFails, LastOfOthers, Current
  <2>1. group[k].slug \in Slugs
    BY <1>0, GroupFields DEF ResultsAreTheirs
  <2>2. manifests'[group[k].slug] = manifests[group[k].slug]
    BY <1>0, <1>3, <2>1 DEF ManifestFails, Unwritten, GroupTypeOK
  <2>3. IsLast(k)
    BY <1>0, <1>3 DEF ManifestFails, LastOfOthers
  <2> QED
    BY <1>3, <2>2, <2>3 DEF ManifestFails, IsLast
<1>4. CASE ErrorUnwritten
  BY <1>4 DEF ErrorUnwritten, LastOfOthers
<1>5. CASE ParseEntry \/ Parsed
  <2>1. DOMAIN results' = {}
    BY <1>0, <1>5, GroupFields DEF ParseEntry, Parsed, Underway
  <2> QED
    BY <2>1 DEF LastOfOthers
<1>6. ASSUME \/ BeginRepo \/ RepoMissing \/ Summarize
             \/ \E ends \in {"raised", "clean", "errors"} : DeliverRepo(ends)
             \/ \E path \in Paths : Move(path)
             \/ UNCHANGED groupVars
      PROVE  /\ UNCHANGED <<group, results, manifests>> /\ (phase' # "raised" => phase # "raised")
             /\ (phase = "except" => phase' \in {"except", "raised"})
  BY <1>6 DEF BeginRepo, RepoMissing, Summarize, DeliverRepo, Move, groupVars
<1> QED
  BY <1>1, <1>2, <1>3, <1>4, <1>5, <1>6 DEF GroupNext

LEMMA SummaryStep == GroupInv /\ [GroupNext]_groupVars => SummaryAddsUp'
<1> SUFFICES ASSUME GroupInv, [GroupNext]_groupVars PROVE SummaryAddsUp'
  OBVIOUS
<1>0. GroupTypeOK /\ Underway /\ ResultsAreTheirs /\ SummaryAddsUp
  BY DEF GroupInv
<1>1. CASE Summarize /\ phase' = "done"
  <2>1. Successes \subseteq 1..Len(results) /\ IsFiniteSet(1..Len(results))
    BY <1>0, GroupFields, FS_Interval DEF Successes
  <2>2. Cardinality(Successes) \in Nat
    BY <2>1, FS_Subset, FS_CardinalityType
  <2>3. /\ Len(results) = Len(group) /\ group' = group /\ results' = results /\ outcome' = outcome
        /\ summary' = [total |-> Len(results), succeeded |-> Cardinality(Successes),
                       failed |-> Len(results) - Cardinality(Successes), written |-> TRUE]
    BY <1>1 DEF Summarize
  <2>4. { k \in DOMAIN group' : results'[k].status = "success" } = Successes
    BY <1>0, <2>3, GroupFields DEF Successes
  <2>5. (\A k \in DOMAIN group' : outcome'[k] # "clean") => Cardinality(Successes) = 0
    <3>1. (\A k \in DOMAIN group' : outcome'[k] # "clean") => Successes = {}
      BY <1>0, <2>3, GroupFields DEF Successes, ResultsAreTheirs
    <3> QED
      BY <3>1, FS_EmptySet
  <2>6. PICK wins \in Nat : wins = Cardinality(Successes)
    BY <2>2
  <2>7. /\ summary'.total = Len(group') /\ summary'.succeeded = wins
        /\ summary'.succeeded + summary'.failed = summary'.total
    BY <1>0, <2>3, <2>6, GroupFields
  <2> QED
    BY <2>4, <2>5, <2>6, <2>7 DEF SummaryAddsUp
<1>2. ASSUME ~(Summarize /\ phase' = "done")
      PROVE  /\ UNCHANGED summary
             /\ phase = "done" => UNCHANGED <<group, results, outcome>>
  BY <1>2 DEF GroupNext, ParseEntry, Parsed, BeginRepo, RepoMissing, DeliverRepo, WriteManifest,
    ManifestFails, ReportError, ErrorUnwritten, Summarize, Move, groupVars
<1>3. ASSUME ~(Summarize /\ phase' = "done") PROVE SummaryAddsUp'
  <2>1. CASE summary.written
    BY <1>0, <1>2, <1>3, <2>1 DEF Underway, SummaryAddsUp
  <2>2. CASE ~summary.written
    BY <1>2, <1>3, <2>2 DEF SummaryAddsUp
  <2> QED
    BY <2>1, <2>2
<1> QED
  BY <1>1, <1>3

(* The invariant of the group holds.                                       *)
THEOREM GroupInvariant == GroupSpec => []GroupInv
<1>1. GroupInv /\ [GroupNext]_groupVars => GroupInv'
  BY GroupTypesStep, UnderwayStep, LastStep, SummaryStep DEF GroupInv
<1> QED
  BY <1>1, GroupStart, PTL DEF GroupSpec

(* The types of GroupDelivery.                                             *)
THEOREM GroupTypes == GroupSpec => []GroupTypeOK
<1>1. GroupInv => GroupTypeOK
  BY DEF GroupInv
<1> QED
  BY <1>1, GroupInvariant, PTL

(* For a group of any size, whatever fails and whatever comes and goes while
   it is delivered: an unsound entry keeps all of it from being delivered,
   every result says what became of its repository, the summary adds up, and
   a manifest is that of the last repository with its slug.                *)
THEOREM ReportedGroups == GroupSpec => []GroupIsReported
<1>1. ASSUME GroupInv PROVE GroupIsReported
  <2>1. GroupTypeOK /\ Underway /\ ResultsAreTheirs /\ LastOfOthers /\ SummaryAddsUp
    BY <1>1 DEF GroupInv
  <2>2. AllOrNothing
    BY <2>1, GroupFields DEF AllOrNothing, Underway
  <2>3. ManifestsAreLast
    BY <2>1 DEF ManifestsAreLast, LastOfOthers, IsLast
  <2> QED
    BY <2>1, <2>2, <2>3 DEF GroupIsReported
<1> QED
  BY <1>1, GroupInvariant, PTL

-----------------------------------------------------------------------------
(* Reviews by section.  What a scan or the report has found was in the file
   at some time.                                                           *)
FoundIsTrue ==
  /\ Held \subseteq seen /\ review.findings \subseteq seen
  /\ \A s \in Sections : scan[s].found \subseteq seen

(* What was there all the time has been found, or the scan will still come
   to it, or it says that it was cut short.                                *)
Stays(s, p, f) ==
  SectionOf[p] = s /\ p \in text[f] /\ f \notin rewritten /\ <<s, f>> \notin OutOfScope
StillToCome ==
  \A s \in Sections, p \in Patterns, f \in Sources : Stays(s, p, f) =>
    \/ scan[s].skipped
    \/ <<p, f>> \in scan[s].found
    \/ f \in scan[s].left
    \/ scan[s].at = "met" /\ scan[s].file = f
    \/ scan[s].at = "parsing" /\ scan[s].file = f /\ p \in AstPatterns

ScansInOrder ==
  \A s \in Sections :
    /\ scan[s].at \in {"met", "parsing"} => scan[s].file \in Sources
    /\ scan[s].at = "returned" => scan[s].skipped \/ scan[s].left = {}
    /\ s \in collected => scan[s].at = "returned"

ReviewInv == ReviewTypeOK /\ FoundIsTrue /\ StillToCome /\ ScansInOrder /\ NothingIsMissed

LEMMA ReviewStart == ReviewInit => ReviewInv
<1> SUFFICES ASSUME ReviewInit PROVE ReviewInv
  OBVIOUS
<1> USE ReviewAssumption
<1>1. NewScan \in Scans /\ NewScan.left = { f \in Sources : There(f) } /\ NewScan.found = {}
      /\ NewScan.at = "walking"
  BY DEF NewScan, Scans
<1>2. scan \in [Sections -> Scans] /\ \A s \in Sections : scan[s] = NewScan
  BY <1>1 DEF ReviewInit
<1>3. /\ review \in [made : BOOLEAN, sections : SUBSET Sections,
                     findings : SUBSET (Patterns \X Sources), skipped : SUBSET Sections]
      /\ ~review.made /\ review.findings = {}
  BY DEF ReviewInit, NoReview
<1>4. ReviewTypeOK
  BY <1>2, <1>3 DEF ReviewInit, ReviewTypeOK, Held
<1>5. FoundIsTrue /\ ScansInOrder /\ NothingIsMissed
  BY <1>1, <1>2, <1>3 DEF ReviewInit, FoundIsTrue, ScansInOrder, NothingIsMissed
<1>6. StillToCome
  BY <1>1, <1>2 DEF StillToCome, Stays, There, Gone
<1> QED
  BY <1>4, <1>5, <1>6 DEF ReviewInv

(* What a scan finds in a file is there at that moment.                    *)
LEMMA FoundIsThere ==
  ASSUME NEW f \in Sources, NEW patterns \in SUBSET Patterns
  PROVE  In(f, patterns) \subseteq Held /\ In(f, patterns) \subseteq Patterns \X Sources
BY DEF In, Held

LEMMA FirstOf ==
  ASSUME NEW s \in Sections
  PROVE  /\ First(s) \subseteq Patterns /\ AstPatterns \subseteq Patterns
         /\ \A p \in Patterns : SectionOf[p] = s =>
              p \in First(s) \/ (p \in AstPatterns /\ s = "edge-case")
BY ReviewAssumption DEF First

(* A step of one scan: what the invariant needs to know of it.             *)
LEMMA ScanStep ==
  ASSUME ReviewInv, NEW s \in Sections, NEW next \in Scans,
         scan' = [scan EXCEPT ![s] = next], s \notin collected,
         UNCHANGED <<text, collected, review, seen, rewritten, rewrites>>,
         next.found \subseteq seen,
         next.at \in {"met", "parsing"} => next.file \in Sources,
         next.at = "returned" => next.skipped \/ next.left = {},
         \A p \in Patterns, f \in Sources : Stays(s, p, f) =>
           \/ next.skipped
           \/ <<p, f>> \in next.found
           \/ f \in next.left
           \/ next.at = "met" /\ next.file = f
           \/ next.at = "parsing" /\ next.file = f /\ p \in AstPatterns
  PROVE  ReviewInv'
<1>0. ReviewTypeOK /\ FoundIsTrue /\ StillToCome /\ ScansInOrder /\ NothingIsMissed
  BY DEF ReviewInv
<1>1. /\ scan' \in [Sections -> Scans] /\ scan'[s] = next
      /\ \A u \in Sections \ {s} : scan'[u] = scan[u]
  BY <1>0 DEF ReviewTypeOK
<1>2. ReviewTypeOK'
  BY <1>0, <1>1 DEF ReviewTypeOK
<1>3. FoundIsTrue' /\ ScansInOrder'
  BY <1>0, <1>1 DEF FoundIsTrue, ScansInOrder, Held
<1>4. StillToCome'
  BY <1>0, <1>1 DEF StillToCome, Stays
<1>5. NothingIsMissed'
  BY <1>0 DEF NothingIsMissed
<1> QED
  BY <1>2, <1>3, <1>4, <1>5 DEF ReviewInv

LEMMA ReviewStep == ReviewInv /\ [ReviewNext]_reviewVars => ReviewInv'
<1> SUFFICES ASSUME ReviewInv, [ReviewNext]_reviewVars PROVE ReviewInv'
  OBVIOUS
<1> USE ReviewAssumption
<1>0. ReviewTypeOK /\ FoundIsTrue /\ StillToCome /\ ScansInOrder /\ NothingIsMissed
  BY DEF ReviewInv
<1>1. ASSUME NEW s \in Sections, NEW f \in Sources, Meet(s, f) PROVE ReviewInv'
  <2>1. scan[s] \in Scans /\ s \notin collected
    BY <1>0, <1>1 DEF ReviewTypeOK, ScansInOrder, Meet
  <2>2. CASE There(f) /\ <<s, f>> \notin OutOfScope
    <3> DEFINE next == [scan[s] EXCEPT !.at = "met", !.file = f, !.left = scan[s].left \ {f}]
    <3>1. /\ next \in Scans /\ next.at = "met" /\ next.file = f /\ next.left = scan[s].left \ {f}
          /\ next.found = scan[s].found /\ next.skipped = scan[s].skipped
      BY <2>1 DEF Scans
    <3>2. scan' = [scan EXCEPT ![s] = next]
      BY <1>1, <2>2 DEF Meet
    <3> HIDE DEF next
    <3>4. next.found \subseteq seen /\ UNCHANGED <<text, collected, review, seen, rewritten, rewrites>>
      BY <1>0, <1>1, <3>1 DEF Meet, FoundIsTrue
    <3>5. \A p \in Patterns, g \in Sources : Stays(s, p, g) =>
           \/ next.skipped
           \/ <<p, g>> \in next.found
           \/ g \in next.left
           \/ next.at = "met" /\ next.file = g
           \/ next.at = "parsing" /\ next.file = g /\ p \in AstPatterns
      <4>1. \A p \in Patterns, g \in Sources : Stays(s, p, g) =>
             \/ scan[s].skipped
             \/ <<p, g>> \in scan[s].found
             \/ g \in scan[s].left
        BY <1>0, <1>1 DEF StillToCome, Meet
      <4> QED
        BY <4>1, <3>1
    <3>6. /\ next.at = "returned" => next.left = {}
          /\ next.at \in {"met", "parsing"} => next.file \in Sources
      BY <1>1, <3>1 DEF Meet
    <3> QED
      BY <2>1, <3>1, <3>2, <3>4, <3>5, <3>6, ScanStep
  <2>3. CASE ~(There(f) /\ <<s, f>> \notin OutOfScope)
    <3> DEFINE next == [scan[s] EXCEPT !.left = scan[s].left \ {f}]
    <3>1. /\ next \in Scans /\ next.at = scan[s].at /\ next.file = scan[s].file
          /\ next.left = scan[s].left \ {f}
          /\ next.found = scan[s].found /\ next.skipped = scan[s].skipped
      BY <2>1 DEF Scans
    <3>2. scan' = [scan EXCEPT ![s] = next]
      BY <1>1, <2>3 DEF Meet
    <3>3. \A p \in Patterns : ~Stays(s, p, f)
      BY <2>3 DEF Stays, There, Gone
    <3> HIDE DEF next
    <3>4. next.found \subseteq seen /\ UNCHANGED <<text, collected, review, seen, rewritten, rewrites>>
      BY <1>0, <1>1, <3>1 DEF Meet, FoundIsTrue
    <3>5. \A p \in Patterns, g \in Sources : Stays(s, p, g) =>
           \/ next.skipped
           \/ <<p, g>> \in next.found
           \/ g \in next.left
           \/ next.at = "met" /\ next.file = g
           \/ next.at = "parsing" /\ next.file = g /\ p \in AstPatterns
      <4>1. \A p \in Patterns, g \in Sources : Stays(s, p, g) =>
             \/ scan[s].skipped
             \/ <<p, g>> \in scan[s].found
             \/ g \in scan[s].left
        BY <1>0, <1>1 DEF StillToCome, Meet
      <4> QED
        BY <4>1, <3>1, <3>3
    <3>6. /\ next.at = "returned" => next.left = {}
          /\ next.at \in {"met", "parsing"} => next.file \in Sources
      BY <1>1, <3>1 DEF Meet
    <3>7. next.at = "returned" => next.skipped \/ next.left = {}
      BY <3>6
    <3>8. next \in Scans
      BY <3>1
    <3> QED
      BY <2>1, <3>2, <3>4, <3>5, <3>6, <3>7, <3>8, ScanStep
  <2> QED
    BY <2>2, <2>3
<1>2. ASSUME NEW s \in Sections, Read(s) PROVE ReviewInv'
  <2> DEFINE here == scan[s].file
             goes == IF s = "edge-case" /\ There(here) THEN "parsing" ELSE "walking"
             next == [scan[s] EXCEPT !.found = scan[s].found \cup In(here, First(s)), !.at = goes]
  <2>1. scan[s] \in Scans /\ s \notin collected /\ here \in Sources
    BY <1>0, <1>2 DEF ReviewTypeOK, ScansInOrder, Read
  <2>2. In(here, First(s)) \subseteq Held /\ In(here, First(s)) \subseteq Patterns \X Sources
    BY <2>1, FoundIsThere, FirstOf
  <2>3. /\ next \in Scans /\ next.at = goes /\ next.file = here
        /\ next.left = scan[s].left /\ next.skipped = scan[s].skipped
        /\ next.found = scan[s].found \cup In(here, First(s))
    BY <2>1, <2>2 DEF Scans
  <2>4. scan' = [scan EXCEPT ![s] = next]
    BY <1>2 DEF Read
  <2>5. next.found \subseteq seen
    BY <1>0, <2>2, <2>3 DEF FoundIsTrue
  <2>6. \A p \in Patterns : Stays(s, p, here) =>
          \/ <<p, here>> \in next.found
          \/ next.at = "parsing" /\ p \in AstPatterns
    BY <2>3, FirstOf DEF Stays, There, Gone, In
  <2>7. \A p \in Patterns, f \in Sources : Stays(s, p, f) =>
           \/ next.skipped
           \/ <<p, f>> \in next.found
           \/ f \in next.left
           \/ next.at = "parsing" /\ next.file = f /\ p \in AstPatterns
    BY <1>0, <1>2, <2>3, <2>6 DEF StillToCome, Read
  <2> HIDE DEF next
  <2> QED
    BY <1>2, <2>1, <2>3, <2>4, <2>5, <2>7, ScanStep DEF Read
<1>3. ASSUME NEW s \in Sections, Parse(s) PROVE ReviewInv'
  <2> DEFINE here == scan[s].file
             next == [scan[s] EXCEPT !.found = scan[s].found \cup In(here, AstPatterns),
                                     !.at = "walking"]
  <2>1. scan[s] \in Scans /\ s \notin collected /\ here \in Sources
    BY <1>0, <1>3 DEF ReviewTypeOK, ScansInOrder, Parse
  <2>2. In(here, AstPatterns) \subseteq Held /\ In(here, AstPatterns) \subseteq Patterns \X Sources
    BY <2>1, FoundIsThere, FirstOf
  <2>3. /\ next \in Scans /\ next.at = "walking" /\ next.file = here
        /\ next.left = scan[s].left /\ next.skipped = scan[s].skipped
        /\ next.found = scan[s].found \cup In(here, AstPatterns)
    BY <2>1, <2>2 DEF Scans
  <2>4. scan' = [scan EXCEPT ![s] = next]
    BY <1>3 DEF Parse
  <2>5. next.found \subseteq seen
    BY <1>0, <2>2, <2>3 DEF FoundIsTrue
  <2>6. \A p \in AstPatterns : Stays(s, p, here) => <<p, here>> \in next.found
    BY <2>3 DEF Stays, In
  <2>7. \A p \in Patterns, f \in Sources : Stays(s, p, f) =>
           \/ next.skipped
           \/ <<p, f>> \in next.found
           \/ f \in next.left
    BY <1>0, <1>3, <2>3, <2>6 DEF StillToCome, Parse
  <2> HIDE DEF next
  <2> QED
    BY <1>3, <2>1, <2>3, <2>4, <2>5, <2>7, ScanStep DEF Parse
<1>4. ASSUME NEW s \in Sections, ScanRaises(s) PROVE ReviewInv'
  <2> DEFINE next == [scan[s] EXCEPT !.at = "returned", !.skipped = TRUE]
  <2>1. scan[s] \in Scans /\ s \notin collected
    BY <1>0, <1>4 DEF ReviewTypeOK, ScansInOrder, ScanRaises
  <2>2. next \in Scans /\ next.at = "returned" /\ next.skipped /\ next.found = scan[s].found
    BY <2>1 DEF Scans
  <2>3. scan' = [scan EXCEPT ![s] = next]
    BY <1>4 DEF ScanRaises
  <2> HIDE DEF next
  <2> QED
    BY <1>0, <1>4, <2>1, <2>2, <2>3, ScanStep DEF ScanRaises, FoundIsTrue
<1>5. ASSUME NEW s \in Sections, ScanReturns(s) PROVE ReviewInv'
  <2> DEFINE next == [scan[s] EXCEPT !.at = "returned"]
  <2>1. scan[s] \in Scans /\ s \notin collected
    BY <1>0, <1>5 DEF ReviewTypeOK, ScansInOrder, ScanReturns
  <2>2. /\ next \in Scans /\ next.at = "returned" /\ next.skipped = scan[s].skipped
        /\ next.found = scan[s].found /\ next.left = scan[s].left
    BY <2>1 DEF Scans
  <2>3. scan' = [scan EXCEPT ![s] = next]
    BY <1>5 DEF ScanReturns
  <2> HIDE DEF next
  <2>4. next.found \subseteq seen /\ UNCHANGED <<text, collected, review, seen, rewritten, rewrites>>
    BY <1>0, <1>5, <2>2 DEF ScanReturns, FoundIsTrue
  <2>5. \A p \in Patterns, g \in Sources : Stays(s, p, g) =>
         \/ next.skipped
         \/ <<p, g>> \in next.found
         \/ g \in next.left
         \/ next.at = "met" /\ next.file = g
         \/ next.at = "parsing" /\ next.file = g /\ p \in AstPatterns
    <3>1. \A p \in Patterns, g \in Sources : Stays(s, p, g) =>
           \/ scan[s].skipped
           \/ <<p, g>> \in scan[s].found
           \/ g \in scan[s].left
      BY <1>0, <1>5 DEF StillToCome, ScanReturns
    <3> QED
      BY <3>1, <2>2
  <2>6. /\ next.at = "returned" => next.left = {}
        /\ next.at \in {"met", "parsing"} => next.file \in Sources
    BY <1>5, <2>2 DEF ScanReturns
  <2>7. next.at = "returned" => next.skipped \/ next.left = {}
    BY <2>6
  <2>8. next \in Scans
    BY <2>2
  <2> QED
    BY <2>1, <2>3, <2>4, <2>5, <2>6, <2>7, <2>8, ScanStep
<1>6. ASSUME NEW s \in Sections, CollectSection(s) PROVE ReviewInv'
  <2>1. ReviewTypeOK' /\ NothingIsMissed'
    BY <1>0, <1>6 DEF CollectSection, ReviewTypeOK, NothingIsMissed
  <2>2. FoundIsTrue' /\ StillToCome' /\ ScansInOrder'
    BY <1>0, <1>6 DEF CollectSection, FoundIsTrue, StillToCome, ScansInOrder, Held, Stays
  <2> QED
    BY <2>1, <2>2 DEF ReviewInv
<1>7. CASE MakeReport
  <2>1. /\ collected = Sections /\ review'.made /\ review'.sections = Sections
        /\ review'.findings = UNION { scan[s].found : s \in Sections }
        /\ review'.skipped = { s \in Sections : scan[s].skipped }
        /\ UNCHANGED <<text, scan, collected, seen, rewritten, rewrites>>
    BY <1>7 DEF MakeReport
  <2>2. \A s \in Sections : scan[s].found \subseteq Patterns \X Sources
    BY <1>0 DEF ReviewTypeOK, Scans
  <2>3. review' \in [made : BOOLEAN, sections : SUBSET Sections,
                     findings : SUBSET (Patterns \X Sources), skipped : SUBSET Sections]
    <3> PICK pairs : pairs = Patterns \X Sources
      OBVIOUS
    <3>0. UNION { scan[s].found : s \in Sections } \subseteq pairs
      BY <2>2
    <3> PICK all \in SUBSET (Patterns \X Sources) : all = UNION { scan[s].found : s \in Sections }
      BY <3>0
    <3> PICK cut \in SUBSET Sections : cut = { s \in Sections : scan[s].skipped }
      OBVIOUS
    <3>1. review' = [made |-> TRUE, sections |-> Sections, findings |-> all, skipped |-> cut]
      BY <1>7 DEF MakeReport
    <3> QED
      BY ONLY <3>1, all \in SUBSET (Patterns \X Sources), cut \in SUBSET Sections
  <2>4. ReviewTypeOK'
    BY <1>0, <2>1, <2>3 DEF ReviewTypeOK
  <2>5. FoundIsTrue'
    <3>1. Held' = Held
      BY <2>1 DEF Held
    <3>2. /\ Held \subseteq seen /\ \A s \in Sections : scan[s].found \subseteq seen
      BY <1>0 DEF FoundIsTrue
    <3>3. review'.findings \subseteq seen
      BY <2>1, <3>2
    <3> QED
      BY <2>1, <3>1, <3>2, <3>3 DEF FoundIsTrue
  <2>6. StillToCome' /\ ScansInOrder'
    BY <1>0, <2>1 DEF StillToCome, ScansInOrder, Stays
  <2>7. NothingIsMissed'
    <3> SUFFICES ASSUME NEW s \in Sections, NEW p \in Patterns, NEW f \in Sources, Stays(s, p, f)
                 PROVE  scan[s].skipped \/ <<p, f>> \in scan[s].found
      BY <2>1 DEF NothingIsMissed, Stays
    <3>1. scan[s].at = "returned"
      BY <1>0, <2>1 DEF ScansInOrder
    <3> QED
      BY <1>0, <3>1 DEF StillToCome, ScansInOrder
  <2> QED
    BY <2>4, <2>5, <2>6, <2>7 DEF ReviewInv
<1>8. ASSUME NEW f \in Sources, NEW patterns \in (SUBSET Patterns) \cup {Gone}, Rewrite(f, patterns)
      PROVE  ReviewInv'
  <2>1. text' \in [Sources -> (SUBSET Patterns) \cup {Gone}] /\ text'[f] = patterns
        /\ \A g \in Sources \ {f} : text'[g] = text[g]
    BY <1>0, <1>8 DEF Rewrite, ReviewTypeOK
  <2>3. /\ seen' \subseteq Patterns \X Sources /\ seen \subseteq seen'
        /\ \A p \in patterns \cap Patterns : <<p, f>> \in seen'
    BY <1>0, <1>8 DEF Rewrite, ReviewTypeOK
  <2>4. ReviewTypeOK'
    BY <1>0, <1>8, <2>1, <2>3 DEF Rewrite, ReviewTypeOK
  <2>5. FoundIsTrue'
    <3>1. Held' \subseteq seen'
      BY <1>0, <2>1, <2>3 DEF Held, FoundIsTrue, Gone
    <3> QED
      BY <1>0, <1>8, <2>3, <3>1 DEF FoundIsTrue, Rewrite
  <2>6. StillToCome' /\ ScansInOrder'
    BY <1>0, <1>8, <2>1 DEF StillToCome, ScansInOrder, Stays, Rewrite
  <2>7. NothingIsMissed'
    BY <1>0, <1>8, <2>1 DEF NothingIsMissed, Rewrite
  <2> QED
    BY <2>4, <2>5, <2>6, <2>7 DEF ReviewInv
<1>9. CASE UNCHANGED reviewVars
  <2>1. /\ text' = text /\ scan' = scan /\ collected' = collected /\ review' = review
        /\ seen' = seen /\ rewritten' = rewritten /\ rewrites' = rewrites
    BY <1>9 DEF reviewVars
  <2>2. ReviewTypeOK' /\ NothingIsMissed'
    BY <1>0, <2>1 DEF ReviewTypeOK, NothingIsMissed
  <2>3. FoundIsTrue' /\ ScansInOrder'
    BY <1>0, <2>1 DEF FoundIsTrue, ScansInOrder, Held
  <2>4. StillToCome'
    BY <1>0, <2>1 DEF StillToCome, Stays
  <2> QED
    BY <2>2, <2>3, <2>4 DEF ReviewInv
<1> QED
  BY <1>1, <1>2, <1>3, <1>4, <1>5, <1>6, <1>7, <1>8, <1>9 DEF ReviewNext

(* The invariant of the section reviews holds.                             *)
THEOREM ReviewInvariant == ReviewSpec => []ReviewInv
BY ReviewStart, ReviewStep, PTL DEF ReviewSpec

(* The types of SectionReview.                                             *)
THEOREM ReviewTypes == ReviewSpec => []ReviewTypeOK
<1>1. ReviewInv => ReviewTypeOK
  BY DEF ReviewInv
<1> QED
  BY <1>1, ReviewInvariant, PTL

(* For any number of sections, files and patterns, and however the files are
   edited meanwhile: nothing is reported that was in no file, and what was
   in a file all the time is missed only by a section that says so.        *)
THEOREM CompleteReviews == ReviewSpec => []ReviewIsComplete
<1>1. ReviewInv => ReviewIsComplete
  BY DEF ReviewInv, FoundIsTrue, FindingsAreTrue, ReviewIsComplete
<1> QED
  BY <1>1, ReviewInvariant, PTL

-----------------------------------------------------------------------------
(* Reviews by people.  A gate that has looked for one sentinel knows what it
   saw, one that has not begun a round or has done with one knows nothing.  *)
LookedInOrder ==
  \A g \in Gates :
    /\ asking[g].known \subseteq sentinels
    /\ asking[g].at \in {"idle", "made", "polling", "asleep"} => asking[g].known = {}
    /\ asking[g].at = "rejected" => "approved" \notin asking[g].known
    /\ g \in Lookers => asking[g].at \in {"idle", "approved", "rejected", "returned"}
    /\ g \notin Lookers /\ asking[g].at \notin {"idle", "made"} => asked

ReviewingInv == ReviewingTypeOK /\ LookedInOrder /\ DecisionsAreHeeded

(* Nobody has looked at first.                                             *)
LEMMA ReviewingStart == ReviewingInit => ReviewingInv
<1> SUFFICES ASSUME ReviewingInit PROVE ReviewingInv
  OBVIOUS
<1> USE HumanAssumption
<1>1. Idle \in Askings
  BY DEF Idle, Askings, Places
<1>2. asking \in [Gates -> Askings] /\ \A g \in Gates : asking[g] = Idle
  BY <1>1 DEF ReviewingInit
<1>3. ReviewingTypeOK
  <2>1. asked \in BOOLEAN /\ run_dir \in BOOLEAN
    BY DEF ReviewingInit
  <2>2. sentinels \subseteq Decisions /\ ticks \in 0..MaxTicks
    BY DEF ReviewingInit
  <2> QED
    BY <1>2, <2>1, <2>2 DEF ReviewingTypeOK
<1> QED
  BY <1>2, <1>3 DEF ReviewingInit, ReviewingInv, LookedInOrder, DecisionsAreHeeded, Idle

(* What changes of a gate, and what does not.                              *)
LEMMA GoesOn ==
  ASSUME asking \in [Gates -> Askings], NEW g \in Gates, NEW place \in Places, GoOn(g, place)
  PROVE  /\ asking' \in [Gates -> Askings]
         /\ \A h \in Gates \ {g} : asking'[h] = asking[h]
         /\ asking'[g].at = place /\ asking'[g].known = asking[g].known
         /\ asking'[g].decision = asking[g].decision
         /\ asking'[g].deadline = asking[g].deadline
<1>1. asking' = [asking EXCEPT ![g] = [asking[g] EXCEPT !.at = place]]
  BY DEF GoOn
<1>2. [asking[g] EXCEPT !.at = place] \in Askings
  BY DEF Askings
<1> QED
  BY <1>1, <1>2 DEF Askings

LEMMA Concludes ==
  ASSUME asking \in [Gates -> Askings], NEW g \in Gates,
         NEW decision \in Decisions \cup {"pending"}, Conclude(g, decision)
  PROVE  /\ asking' \in [Gates -> Askings]
         /\ \A h \in Gates \ {g} : asking'[h] = asking[h]
         /\ asking'[g].at = "returned" /\ asking'[g].known = asking[g].known
         /\ asking'[g].decision = decision
         /\ asking'[g].deadline = asking[g].deadline
<1>1. asking' = [asking EXCEPT ![g] =
                  [asking[g] EXCEPT !.at = "returned", !.decision = decision]]
  BY DEF Conclude
<1>2. [asking[g] EXCEPT !.at = "returned", !.decision = decision] \in Askings
  BY DEF Askings, Places
<1> QED
  BY <1>1, <1>2 DEF Askings

LEMMA ReviewingStep ==
  ReviewingInv /\ [ReviewingNext]_reviewingVars => ReviewingInv'
<1> SUFFICES ASSUME ReviewingInv, [ReviewingNext]_reviewingVars
             PROVE  ReviewingInv'
  OBVIOUS
<1> DEFINE Parts == ReviewingTypeOK /\ LookedInOrder /\ DecisionsAreHeeded
<1> USE HumanAssumption
<1>0. asking \in [Gates -> Askings] /\ Parts
  BY DEF ReviewingInv, ReviewingTypeOK
<1>1. ASSUME NEW g \in Gates, MakeRunDir(g) PROVE Parts'
  <2>1. GoOn(g, "made") /\ "made" \in Places
    BY <1>1 DEF MakeRunDir, Places
  <2> QED
    BY <1>0, <1>1, <2>1, GoesOn
    DEF MakeRunDir, ReviewingTypeOK, LookedInOrder, DecisionsAreHeeded, Askings, Places
<1>2. ASSUME NEW g \in Gates, AskForReview(g) PROVE Parts'
  <2>1. CASE g \in Blocking
    <3> DEFINE waits == [asking[g] EXCEPT !.at = "polling", !.deadline = ticks + Timeout]
    <3>1. waits \in Askings /\ asking' = [asking EXCEPT ![g] = waits]
      <4>1. "polling" \in Places /\ ticks + Timeout \in 0..MaxTicks + Timeout
        BY <1>0 DEF Places, ReviewingTypeOK
      <4>2. asking[g] \in Askings
        BY <1>0
      <4>3. waits \in Askings
        BY <4>1, <4>2 DEF Askings
      <4> QED
        BY <1>2, <2>1, <4>3 DEF AskForReview
    <3>2. /\ asking' \in [Gates -> Askings] /\ asking'[g] = waits
          /\ \A h \in Gates \ {g} : asking'[h] = asking[h]
      BY <1>0, <3>1
    <3>3. waits.at = "polling" /\ waits.known = asking[g].known
      BY <1>0 DEF Askings
    <3> HIDE DEF waits
    <3> QED
      BY <1>0, <1>2, <2>1, <3>2, <3>3
      DEF AskForReview, ReviewingTypeOK, LookedInOrder, DecisionsAreHeeded, Askings, Places
  <2>2. CASE g \notin Blocking
    <3>1. Conclude(g, "pending")
      BY <1>2, <2>2 DEF AskForReview
    <3> QED
      BY <1>0, <1>2, <2>2, <3>1, Concludes
      DEF AskForReview, ReviewingTypeOK, LookedInOrder, DecisionsAreHeeded, Askings, Places
  <2> QED
    BY <2>1, <2>2
<1>3. ASSUME NEW g \in Gates, BeginRound(g) PROVE Parts'
  <2> DEFINE looks == [asking[g] EXCEPT !.at = "approved", !.known = sentinels]
  <2>1. looks \in Askings /\ asking' = [asking EXCEPT ![g] = looks]
    BY <1>0, <1>3 DEF BeginRound, Askings, Places, ReviewingTypeOK
  <2>2. /\ asking' \in [Gates -> Askings] /\ asking'[g] = looks
        /\ \A h \in Gates \ {g} : asking'[h] = asking[h]
    BY <1>0, <2>1
  <2>3. looks.at = "approved" /\ looks.known = sentinels
    BY <1>0 DEF Askings
  <2> QED
    BY <1>0, <1>3, <2>2, <2>3
    DEF BeginRound, ReviewingTypeOK, LookedInOrder, DecisionsAreHeeded, Askings, Places
<1>4. ASSUME NEW g \in Gates, TimeOut(g) PROVE Parts'
  <2>1. Conclude(g, "pending")
    BY <1>4 DEF TimeOut
  <2> QED
    BY <1>0, <1>4, <2>1, Concludes
    DEF TimeOut, ReviewingTypeOK, LookedInOrder, DecisionsAreHeeded, Askings, Places
<1>5. ASSUME NEW g \in Gates, LookApproved(g) PROVE Parts'
  <2>1. CASE "approved" \in sentinels
    <3>1. Conclude(g, "approved") /\ "approved" \in Decisions
      BY <1>5, <2>1 DEF LookApproved, Decisions
    <3> QED
      BY <1>0, <1>5, <2>1, <3>1, Concludes
      DEF LookApproved, ReviewingTypeOK, LookedInOrder, DecisionsAreHeeded, Askings, Places
  <2>2. CASE "approved" \notin sentinels
    <3>1. GoOn(g, "rejected") /\ "rejected" \in Places
      BY <1>5, <2>2 DEF LookApproved, Places
    <3> QED
      BY <1>0, <1>5, <2>2, <3>1, GoesOn
      DEF LookApproved, ReviewingTypeOK, LookedInOrder, DecisionsAreHeeded, Askings, Places
  <2> QED
    BY <2>1, <2>2
<1>6. ASSUME NEW g \in Gates, LookRejected(g) PROVE Parts'
  <2>1. asking[g].known \subseteq sentinels /\ "approved" \notin asking[g].known
    BY <1>0, <1>6 DEF LookRejected, LookedInOrder
  <2>2. CASE "rejected" \in sentinels
    <3>1. Conclude(g, "rejected") /\ "rejected" \in Decisions
      BY <1>6, <2>2 DEF LookRejected, Decisions
    <3> QED
      BY <1>0, <1>6, <2>1, <2>2, <3>1, Concludes
      DEF LookRejected, ReviewingTypeOK, LookedInOrder, DecisionsAreHeeded, Askings, Places
  <2>3. CASE "rejected" \notin sentinels
    <3>1. asking[g].known = {}
      BY <1>0, <2>1, <2>3 DEF ReviewingTypeOK, Decisions
    <3>2. CASE g \in Lookers
      <4>1. Conclude(g, "pending")
        BY <1>6, <2>3, <3>2 DEF LookRejected
      <4> QED
        BY <1>0, <1>6, <3>1, <3>2, <4>1, Concludes
        DEF LookRejected, ReviewingTypeOK, LookedInOrder, DecisionsAreHeeded, Askings, Places
    <3>3. CASE g \notin Lookers
      <4>1. GoOn(g, "asleep") /\ "asleep" \in Places
        BY <1>6, <2>3, <3>3 DEF LookRejected, Places
      <4> QED
        BY <1>0, <1>6, <3>1, <3>3, <4>1, GoesOn
        DEF LookRejected, ReviewingTypeOK, LookedInOrder, DecisionsAreHeeded, Askings, Places
    <3> QED
      BY <3>2, <3>3
  <2> QED
    BY <2>2, <2>3
<1>7. ASSUME NEW g \in Gates, WakeUp(g) PROVE Parts'
  <2>1. GoOn(g, "polling") /\ "polling" \in Places
    BY <1>7 DEF WakeUp, Places
  <2> QED
    BY <1>0, <1>7, <2>1, GoesOn
    DEF WakeUp, ReviewingTypeOK, LookedInOrder, DecisionsAreHeeded, Askings, Places
<1>8. ASSUME NEW decision \in Decisions, Decide(decision) PROVE Parts'
  BY <1>0, <1>8 DEF Decide, ReviewingTypeOK, LookedInOrder, DecisionsAreHeeded
<1>9. ASSUME ClockTicks PROVE Parts'
  <2>1. /\ ticks' = ticks + 1 /\ ticks' \in 0..MaxTicks /\ ticks \in Nat
        /\ UNCHANGED <<run_dir, sentinels, asked, asking>>
    BY <1>0, <1>9 DEF ClockTicks, ReviewingTypeOK
  <2>2. ReviewingTypeOK' /\ LookedInOrder'
    BY <1>0, <2>1 DEF ReviewingTypeOK, LookedInOrder
  <2>3. \A g \in Gates : asking[g].deadline \in Nat
    BY <1>0 DEF Askings
  <2>4. DecisionsAreHeeded'
    BY <1>0, <2>1, <2>3 DEF DecisionsAreHeeded
  <2> QED
    BY <2>2, <2>4
<1>10. ASSUME UNCHANGED reviewingVars PROVE Parts'
  <2>1. /\ run_dir' = run_dir /\ sentinels' = sentinels /\ asked' = asked
        /\ asking' = asking /\ ticks' = ticks
    BY <1>10 DEF reviewingVars
  <2>2. ReviewingTypeOK'
    BY <1>0, <2>1 DEF ReviewingTypeOK
  <2>3. LookedInOrder' /\ DecisionsAreHeeded'
    BY <1>0, <2>1 DEF LookedInOrder, DecisionsAreHeeded
  <2> QED
    BY <2>2, <2>3
<1> QED
  BY <1>1, <1>2, <1>3, <1>4, <1>5, <1>6, <1>7, <1>8, <1>9, <1>10 DEF ReviewingNext, ReviewingInv

(* It holds of all reviews by people.                                      *)
THEOREM ReviewingInvariant == ReviewingSpec => []ReviewingInv
BY ReviewingStart, ReviewingStep, PTL DEF ReviewingSpec

(* The types of HumanReview.                                               *)
THEOREM ReviewingTypes == ReviewingSpec => []ReviewingTypeOK
<1>1. ReviewingInv => ReviewingTypeOK
  BY DEF ReviewingInv
<1> QED
  BY <1>1, ReviewingInvariant, PTL

(* Whatever the number of gates and of people, and however late they decide:
   a gate returns what was decided, approved if that was there when it began
   to look, and pending only when its time was up.                         *)
THEOREM HeededDecisions == ReviewingSpec => []DecisionsAreHeeded
<1>1. ReviewingInv => DecisionsAreHeeded
  BY DEF ReviewingInv
<1> QED
  BY <1>1, ReviewingInvariant, PTL

-----------------------------------------------------------------------------
(* A program around a run is not disturbed by another: what one run checks
   of them side by side is what each of them does.                         *)
THEOREM ProgramsAroundAreApart ==
  PeripherySpec => /\ IsolationSpec /\ ServerSpec /\ GateSpec
                   /\ PlanningSpec /\ GroupSpec /\ ReviewSpec /\ ReviewingSpec
<1>1. PeripheryInit => /\ IsolationInit /\ ServerInit /\ GateInit
                       /\ PlanningInit /\ GroupInit /\ ReviewInit /\ ReviewingInit
  BY DEF PeripheryInit
<1>2. [PeripheryNext]_peripheryVars =>
        /\ [IsolationNext]_isolationVars /\ [ServerNext]_toolVars /\ [GateNext]_gateVars
        /\ [PlanningNext]_planningVars /\ [GroupNext]_groupVars
        /\ [ReviewNext]_reviewVars /\ [ReviewingNext]_reviewingVars
  BY DEF PeripheryNext, AtWorkers, AtTools, AtGate, AtPlans, AtGroup, AtSections, AtHumans,
         peripheryVars, workVars, deliveryVars, opinionVars
<1> QED
  BY <1>1, <1>2, PTL
  DEF PeripherySpec, IsolationSpec, ServerSpec, GateSpec, PlanningSpec, GroupSpec, ReviewSpec,
      ReviewingSpec

(* The type invariants of all of them.                                     *)
THEOREM PeripheryTypes == PeripherySpec => []PeripheryTypeOK
<1>1. /\ IsolationTypeOK /\ McpToolsTypeOK /\ GateTypeOK
      /\ PlanningTypeOK /\ GroupTypeOK /\ ReviewTypeOK /\ ReviewingTypeOK
      => PeripheryTypeOK
  BY DEF PeripheryTypeOK
<1> QED
  BY <1>1, ProgramsAroundAreApart, IsolationTypes, McpToolsTypes, GateTypes, PlanningTypes,
     GroupTypes, ReviewTypes, ReviewingTypes, PTL

(* GateIsHonest: an undisturbed report stays true with itself in the tree,
   and a strict exit code of 0 has established what a release relies on.   *)
THEOREM HonestGate == PeripherySpec => []GateIsHonest
<1>1. ReportIsTrue /\ StrictIsEarned => GateIsHonest
  BY DEF GateIsHonest
<1> QED
  BY <1>1, ProgramsAroundAreApart, ReportsAreTrue, StrictnessIsEarned, PTL

(* WorkersAreServed: fresh worktrees are apart and checked out, and a home
   that is ready is complete.                                              *)
THEOREM ServedWorkers == PeripherySpec => []WorkersAreServed
<1>1. FreshWorktreesApart /\ ReadyHomesAreComplete => WorkersAreServed
  BY DEF WorkersAreServed
<1> QED
  BY <1>1, ProgramsAroundAreApart, WorkersAreApart, HomesAreComplete, PTL
=============================================================================
