---------------------------- MODULE TaskSchedule ----------------------------
(***************************************************************************)
(* What executing a milestone promises about its tasks, whatever waves,    *)
(* thread pool, retries and executors are used: a task runs once, after    *)
(* every task it must wait for, and never together with a task it excludes *)
(* (one that edits the same file, or another high-risk one).  The schedule *)
(* may stop at any point: a failure abandons the tasks still to do.        *)
(***************************************************************************)
EXTENDS Naturals

VARIABLES order,        (* pairs <<a, b>>: b must wait for a               *)
          exclusive,    (* pairs that must not run together                *)
          todo, running, ended

vars == <<order, exclusive, todo, running, ended>>

Init == running = {} /\ ended = {}

Begin(t) == /\ \A a \in todo \cup running : <<a, t>> \notin order
            /\ \A u \in running : <<u, t>> \notin exclusive
            /\ todo' = todo \ {t}
            /\ running' = running \cup {t}
            /\ UNCHANGED <<order, exclusive, ended>>

Finish(t) == /\ running' = running \ {t}
             /\ ended' = ended \cup {t}
             /\ UNCHANGED <<order, exclusive, todo>>

Next == \/ \E t \in todo : Begin(t)
        \/ \E t \in running : Finish(t)

Spec == Init /\ [][Next]_vars
=============================================================================
