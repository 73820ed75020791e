--------------------------- MODULE MCRunLifecycle ---------------------------
(* Two processes, which the commands do not tell apart.                    *)
EXTENDS RunLifecycle, TLC

ProcSymmetry == Permutations(Procs)
=============================================================================
