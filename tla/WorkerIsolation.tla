--------------------------- MODULE WorkerIsolation ---------------------------
(***************************************************************************)
(* executors/worker_isolator.py: a directory of its own for each worker,   *)
(* as a git worktree on a branch of its own, and a CODEX_HOME that shares  *)
(* with the parent's only what nobody writes.                              *)
(*                                                                         *)
(* Workers call it at the same time, with roots and branches that may be   *)
(* the same; git may be slow and is killed then; directories are cleaned   *)
(* up and git's records of them pruned by anyone.  Abstracted: what a tree *)
(* contains but whether it is checked out, the base, and why a branch name *)
(* or a path is refused.                                                   *)
(***************************************************************************)
EXTENDS Naturals, FiniteSets

CONSTANTS Workers, Roots, Branches, NoBranch,
          ValidBranches,  (* what _validate_branch_name lets through       *)
          InsideRoots,    (* what is below worktree_root                   *)
          Names,          (* of the entries that homes share               *)
          MaxCalls        (* bound in the guards of Call and CallHome      *)

VARIABLES
  tree,        (* what is at each root: none, other, partial or a checkout *)
  branches,    (* of the repository                                        *)
  registered,  (* git's records of worktrees: the branch at a root         *)
  call,        (* each worker's call of prepare_worktree, or its result    *)
  parent,      (* of each name: absent, inside or outside of parent_home   *)
  home,        (* the shared names that one worker's home has              *)
  private,     (* whether its own directories are there                    *)
  homecall,    (* each worker's call of prepare_codex_home for that home   *)
  calls

treeVars == <<tree, branches, registered, call>>
homeVars == <<parent, home, private, homecall>>
isolationVars == <<treeVars, homeVars, calls>>

ASSUME IsolationAssumption ==
  /\ ValidBranches \subseteq Branches /\ NoBranch \notin Branches
  /\ InsideRoots \subseteq Roots
  /\ IsFiniteSet(Names) /\ MaxCalls \in Nat

Nothing == [is |-> "none", branch |-> NoBranch]
Partial(branch) == [is |-> "partial", branch |-> branch]
Checkout(branch) == [is |-> "checkout", branch |-> branch]
Other == [is |-> "other", branch |-> NoBranch]
TreeKinds == [is : {"none", "other", "partial", "checkout"}, branch : Branches \cup {NoBranch}]

NoCall == [at |-> "idle"]
NoHome == [at |-> "idle"]

IsolationInit ==
  /\ tree \in [Roots -> {Nothing, Other}] /\ branches \in SUBSET Branches
  /\ registered = [root \in Roots |-> NoBranch]
  /\ call = [w \in Workers |-> NoCall]
  /\ parent \in [Names -> {"absent", "inside", "outside"}] /\ home \in SUBSET Names
  /\ private = FALSE /\ homecall = [w \in Workers |-> NoHome]
  /\ calls = 0

Free(w) == call[w].at \in {"idle", "raised", "error", "success"}
-----------------------------------------------------------------------------
(* prepare_worktree.                                                       *)
Begin(w, root, branch, reuse) ==
  /\ Free(w) /\ calls < MaxCalls /\ calls' = calls + 1
  /\ call' = [call EXCEPT ![w] =
       [at |-> IF branch \in ValidBranches THEN "looking" ELSE "raised",
        root |-> root, branch |-> branch, reuse |-> reuse, reused |-> FALSE, new |-> FALSE]]
  /\ UNCHANGED <<tree, branches, registered, homeVars>>

Goes(w, at) == call' = [call EXCEPT ![w].at = at]

(* A directory that is there is returned as it is, or an error.            *)
Look(w) ==
  /\ call[w].at = "looking"
  /\ IF tree[call[w].root] = Nothing THEN Goes(w, "listing")
     ELSE IF call[w].reuse
     THEN call' = [call EXCEPT ![w].at = "success", ![w].reused = TRUE]
     ELSE Goes(w, "error")
  /\ UNCHANGED <<tree, branches, registered, homeVars, calls>>

(* git branch --list; git may not be there or take too long.               *)
List(w) ==
  /\ call[w].at = "listing"
  /\ \/ Goes(w, "error")
     \/ /\ call[w].branch \in branches /\ ~call[w].reuse /\ Goes(w, "error")
     \/ /\ call[w].branch \in branches => call[w].reuse
        /\ call' = [call EXCEPT ![w].at = "adding", ![w].new = call[w].branch \notin branches]
  /\ UNCHANGED <<tree, branches, registered, homeVars, calls>>

(* git worktree add: it refuses a directory that is there or on record, a
   new branch that exists, an old one that does not, and one that is on
   record for another worktree.                                            *)
GitAccepts(root, branch, new) ==
  /\ tree[root] = Nothing /\ registered[root] = NoBranch
  /\ new = (branch \notin branches)
  /\ \A other \in Roots : registered[other] # branch

Claim(w) ==
  /\ call[w].at = "adding" /\ GitAccepts(call[w].root, call[w].branch, call[w].new)
  /\ branches' = branches \cup {call[w].branch}
  /\ registered' = [registered EXCEPT ![call[w].root] = call[w].branch]
  /\ tree' = [tree EXCEPT ![call[w].root] = Partial(call[w].branch)]
  /\ Goes(w, "checking_out")
  /\ UNCHANGED <<homeVars, calls>>

(* It exits with 0 if nobody removed the directory in between.             *)
GitFinishes(w) ==
  /\ call[w].at = "checking_out" /\ tree[call[w].root] = Partial(call[w].branch)
  /\ tree' = [tree EXCEPT ![call[w].root] = Checkout(call[w].branch)]
  /\ Goes(w, "success")
  /\ UNCHANGED <<branches, registered, homeVars, calls>>

(* Mutant: the exit code is not looked at.                                 *)
AnyExitWillDo(w) ==
  /\ call[w].at \in {"adding", "checking_out"}
  /\ \/ call[w].at = "adding" /\ ~GitAccepts(call[w].root, call[w].branch, call[w].new)
        /\ Goes(w, "success")
     \/ Goes(w, "error")
  /\ UNCHANGED <<tree, branches, registered, homeVars, calls>>

(* It exits with another code, or is not there, or is killed after 60
   seconds: what it did until then stays.                                  *)
GitFails(w) ==
  /\ call[w].at \in {"adding", "checking_out"} /\ Goes(w, "error")
  /\ UNCHANGED <<tree, branches, registered, homeVars, calls>>

(* cleanup_worktree: git's record and the branch stay.  A result that was
   for this directory is none any more.                                    *)
cleanup_worktree(root) ==
  /\ root \in InsideRoots /\ tree[root] # Nothing
  /\ tree' = [tree EXCEPT ![root] = Nothing]
  /\ call' = [w \in Workers |-> IF call[w].at = "success" /\ call[w].root = root
                                THEN NoCall ELSE call[w]]
  /\ UNCHANGED <<branches, registered, homeVars, calls>>

(* git worktree prune, or the garbage collection: records of directories
   that are not there.                                                     *)
Prune ==
  /\ registered' = [root \in Roots |-> IF tree[root] = Nothing THEN NoBranch ELSE registered[root]]
  /\ UNCHANGED <<tree, branches, call, homeVars, calls>>
-----------------------------------------------------------------------------
(* prepare_codex_home, for one home that any worker may prepare.  The names
   are taken in some order; one that is there already is left alone, and
   what leads out of the parent's home raises; so does, at once, a
   CODEX_HOME of the environment that leads out of the root.               *)
BeginHome(w, env_inside) ==
  /\ homecall[w].at \in {"idle", "raised", "ready"} /\ calls < MaxCalls /\ calls' = calls + 1
  /\ homecall' = [homecall EXCEPT ![w] =
       [at |-> IF env_inside THEN "linking" ELSE "raised", left |-> Names, linking |-> {}]]
  /\ UNCHANGED <<treeVars, parent, home, private>>

CheckName(w, name) ==
  /\ homecall[w].at = "linking" /\ homecall[w].linking = {} /\ name \in homecall[w].left
  /\ IF parent[name] = "absent" \/ name \in home
     THEN homecall' = [homecall EXCEPT ![w].left = @ \ {name}]
     ELSE IF parent[name] = "outside"
     THEN homecall' = [homecall EXCEPT ![w].at = "raised"]
     ELSE homecall' = [homecall EXCEPT ![w].left = @ \ {name}, ![w].linking = {name}]
  /\ UNCHANGED <<treeVars, parent, home, private, calls>>

(* os.symlink, which raises if another worker was faster.                  *)
Link(w) ==
  /\ homecall[w].at = "linking" /\ homecall[w].linking # {}
  /\ IF homecall[w].linking \subseteq home
     THEN homecall' = [homecall EXCEPT ![w].at = "raised"] /\ UNCHANGED home
     ELSE /\ home' = home \cup homecall[w].linking
          /\ homecall' = [homecall EXCEPT ![w].linking = {}]
  /\ UNCHANGED <<treeVars, parent, private, calls>>

MakePrivate(w) ==
  /\ homecall[w].at = "linking" /\ homecall[w].linking = {} /\ homecall[w].left = {}
  /\ private' = TRUE
  /\ homecall' = [homecall EXCEPT ![w].at = "ready"]
  /\ UNCHANGED <<treeVars, parent, home, calls>>

IsolationNext ==
  \/ \E w \in Workers :
       \/ \E root \in Roots, branch \in Branches, reuse \in BOOLEAN : Begin(w, root, branch, reuse)
       \/ Look(w) \/ List(w) \/ Claim(w) \/ GitFinishes(w) \/ GitFails(w)
       \/ \E env_inside \in BOOLEAN : BeginHome(w, env_inside)
       \/ (\E name \in Names : CheckName(w, name)) \/ Link(w) \/ MakePrivate(w)
  \/ \E root \in Roots : cleanup_worktree(root)
  \/ Prune

IsolationSpec == IsolationInit /\ [][IsolationNext]_isolationVars
-----------------------------------------------------------------------------
Calls == [at : {"looking", "listing", "adding", "checking_out", "raised", "error", "success"},
          root : Roots, branch : Branches, reuse : BOOLEAN, reused : BOOLEAN, new : BOOLEAN]

IsolationTypeOK ==
  /\ tree \in [Roots -> TreeKinds] /\ branches \in SUBSET Branches
  /\ registered \in [Roots -> Branches \cup {NoBranch}]
  /\ call \in [Workers -> Calls \cup {NoCall}]
  /\ parent \in [Names -> {"absent", "inside", "outside"}] /\ home \in SUBSET Names
  /\ private \in BOOLEAN
  /\ homecall \in [Workers -> {NoHome} \cup [at : {"linking", "raised", "ready"},
                                             left : SUBSET Names, linking : SUBSET Names]]
  /\ calls \in 0..MaxCalls

(* A worktree that was made for a worker, and is still there, is its own: a
   checkout of the branch it asked for, at a root and on a branch that no
   other worker's is, whoever asks for the same at the same time.  Nothing
   in the class locks; the looks before git is called decide nothing, and
   git's own checks do, if its exit code is heeded
   (executors/worker_isolator.py:419-471).                                 *)
Fresh(w) == call[w].at = "success" /\ ~call[w].reused
FreshWorktreesApart ==
  \A w \in Workers : Fresh(w) =>
    /\ tree[call[w].root] = Checkout(call[w].branch)
    /\ call[w].branch \in branches
    /\ \A v \in Workers \ {w} : Fresh(v) =>
         call[v].root # call[w].root /\ call[v].branch # call[w].branch

(* A home that is ready has everything that the parent has, although a call
   that raises, for a link that leads out or because another worker was
   faster, leaves half a home behind for the next
   (executors/worker_isolator.py:343-369).                                 *)
ReadyHomesAreComplete ==
  (\E w \in Workers : homecall[w].at = "ready") =>
    private /\ \A name \in Names : parent[name] # "absent" => name \in home
=============================================================================
