------------------------------- MODULE MCFlowRun -------------------------------
(* Model-checking instances of FlowRun.  The flow has a SaveDBResult task and a *)
(* task beside it; the task names are one that only the first contains, one     *)
(* that both contain, and one that none does.                                   *)
EXTENDS FlowRun, TLC

CONSTANTS c1, c2, save_db_result, other

Both          == {save_db_result, other}
SavingOnly    == {save_db_result}
OtherOnly     == {other}
Nothing       == {}
NamesOfTasks  == {SavingOnly, Both, Nothing}

CallerSymmetry == Permutations(Callers)
=============================================================================
