------------------------------ MODULE MCFileStore ------------------------------
(* A model-checking instance of FileStore: a directory of the host that is   *)
(* mounted, the same under its alias, and a directory outside; a text of one *)
(* piece, one of two, one that its serializer leaves after its first piece, and*)
(* an empty one.                                                             *)
EXTENDS FileStore, TLC

CONSTANTS w1, w2, host, alias, elsewhere, short, long, mixed, empty

HostToAlias == host :> alias
Sizes       == [o \in Objects |-> IF o = long THEN 2 ELSE 1]
EmptyOnly   == {empty} \cap Objects
MixedOnly   == {mixed} \cap Objects
=============================================================================
