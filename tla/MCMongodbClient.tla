---------------------------- MODULE MCMongodbClient ----------------------------
(* Model-checking instances of MongodbClient.                                   *)
EXTENDS MongodbClient, TLC

CONSTANTS t1, t2

ThreadSymmetry == Permutations(Threads)
=============================================================================
