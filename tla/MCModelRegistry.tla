--------------------------- MODULE MCModelRegistry ---------------------------
(* Model-checking instances of ModelRegistry.                               *)
EXTENDS ModelRegistry, TLC

CONSTANTS c1, c2

\* Processes are interchangeable: nothing orders or names them.
ClientSymmetry == Permutations(Clients)
=============================================================================
