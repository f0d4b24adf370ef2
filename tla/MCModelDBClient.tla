---------------------------- MODULE MCModelDBClient ----------------------------
(* Model-checking instances of ModelDBClient: a process and one fork of it.     *)
EXTENDS ModelDBClient, TLC

CONSTANTS parent, child, t1, t2, t3

\* Two threads of the parent and one of the child.
OneThreadInChild == (t1 :> parent) @@ (t2 :> parent) @@ (t3 :> child)

\* Two threads of the child.
TwoThreadsInChild == (t1 :> child) @@ (t2 :> child)
=============================================================================
