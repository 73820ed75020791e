--------------------------- MODULE MCMilestoneRun ---------------------------
(* Task lists of up to three tasks chosen for their shape, and the options
   that matter for them.                                                   *)
EXTENDS MilestoneRun

f1 == "f1"
MCTask(deps, files) == [deps |-> deps, files |-> files, twice |-> {}, high |-> FALSE]
MCSetting(c, ff, am, l, cr) ==
  [concurrency |-> c, failFast |-> ff, allowMock |-> am, lint |-> l, critic |-> cr]

(* Nothing; two tasks side by side, then one on the first's file; and two
   tasks in a cycle (a declared dependency against the order of a shared
   file).                                                                  *)
MCTaskLists == { <<>>,
                 <<MCTask({}, {f1}), MCTask({}, {}), MCTask({}, {f1})>>,
                 <<MCTask({2}, {f1}), MCTask({}, {f1})>> }

(* The pool and the plain loop, mocks allowed and not, with and without the
   loops, stopping and going on.                                           *)
MCSettings == { MCSetting(2, TRUE, FALSE, TRUE, 0),
                MCSetting(2, TRUE, TRUE, FALSE, 1),
                MCSetting(1, TRUE, FALSE, FALSE, 0),
                MCSetting(2, FALSE, TRUE, FALSE, 0) }

(* For routing: two tasks of one wave, every kind of preference, both loops. *)
RoutingLists == { <<MCTask({}, {}), MCTask({}, {})>> }
RoutingSettings == { MCSetting(2, TRUE, am, FALSE, 1) : am \in BOOLEAN }

(* One run for both: everything about waves and loops with tasks that leave
   the choice to AUTO and no optional adapter at first, and all of routing. *)
AllLists == MCTaskLists \cup RoutingLists
AllSettings == MCSettings \cup RoutingSettings

Chosen == \/ /\ tasks \in MCTaskLists /\ opts \in MCSettings
             /\ \A t \in DOMAIN tasks : preferred[t] = "auto"
             /\ ~available["gemini"]
          \/ tasks \in RoutingLists /\ opts \in RoutingSettings

MCInit == Init /\ Chosen

MCSpec == MCInit /\ [][Next]_vars /\ WF_vars(Progress)
=============================================================================
