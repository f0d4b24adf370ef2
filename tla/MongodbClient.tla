----------------------------- MODULE MongodbClient -----------------------------
(***************************************************************************)
(* MongodbResultsDB: the MongoClients that the operations of one object     *)
(* open and close when threads share it and when it is used in a forked     *)
(* process, and what an operation that raises leaves in the collection.     *)
(*                                                                         *)
(* _client is a ContextVar: each thread has a value of its own, and so has  *)
(* each copy of the object in a forked process.                             *)
(***************************************************************************)
EXTENDS Naturals, FiniteSets

CONSTANTS
  Threads,     \* the threads that use the object
  Forked,      \* those of them that run in a process forked from its creator
  Documents,   \* what is inserted
  MaxClients,  \* bound on the clients of a thread that are open at once
  MaxFaults    \* bound on failing requests

ASSUME MongoConstants ==
  /\ Forked \subseteq Threads
  /\ MaxClients \in Nat /\ MaxFaults \in Nat

Operations == {"insert_one", "insert_many", "find", "configure"}
Outcomes   == {"None", "Returned", "PyMongoError", "AttributeError", "TypeError"}

VARIABLES
  collection, \* the documents stored so far
  clients,    \* per thread: how many clients it has opened and not closed
  current,    \* per thread: does _client hold an open client in its context?
  cleanup,    \* per thread: local variable cleanup of client()
  operation,  \* per thread: the operation under way
  items,      \* per thread: the documents it is to insert
  pc,         \* per thread: the step it makes next
  outcome,    \* per thread: how its last operation ended
  faults      \* failures so far

connections == <<clients, current, cleanup>>
calls       == <<operation, items>>
vars        == <<collection, connections, calls, pc, outcome, faults>>

TypeOK ==
  /\ collection \subseteq Documents
  /\ clients \in [Threads -> 0..MaxClients]
  /\ current \in [Threads -> BOOLEAN]
  /\ cleanup \in [Threads -> BOOLEAN]
  /\ operation \in [Threads -> Operations \cup {"None"}]
  /\ items \in [Threads -> SUBSET Documents]
  /\ pc \in [Threads -> {"idle", "client", "request", "finally"}]
  /\ outcome \in [Threads -> Outcomes]
  /\ faults \in 0..MaxFaults

Init ==
  /\ collection = {}
  /\ clients = [t \in Threads |-> 0]
  /\ current = [t \in Threads |-> FALSE]
  /\ cleanup = [t \in Threads |-> FALSE]
  /\ operation = [t \in Threads |-> "None"]
  /\ items = [t \in Threads |-> {}]
  /\ pc = [t \in Threads |-> "idle"]
  /\ outcome = [t \in Threads |-> "None"]
  /\ faults = 0

-----------------------------------------------------------------------------
Goto(t, label) == pc' = [pc EXCEPT ![t] = label]

\* _connect makes a client and puts it into the context, whatever was there.
Connect(t) ==
  /\ clients[t] < MaxClients
  /\ clients' = [clients EXCEPT ![t] = @ + 1]
  /\ current' = [current EXCEPT ![t] = TRUE]

\* client() connects when the context has no client, and _check_mp in a forked
\* process each time: nothing updates _pid.
Connects(t) == t \in Forked \/ ~current[t]

-----------------------------------------------------------------------------
(* Bugs that the properties are to notice: variants of operations below,    *)
(* each with one plausible mistake.  No specification uses them.             *)

\* disconnect() closes the client and leaves it in the context.
DisconnectKeepsClient(t) ==
  /\ pc[t] = "idle"
  /\ current[t]
  /\ clients' = [clients EXCEPT ![t] = @ - 1]
  /\ UNCHANGED <<collection, current, cleanup, calls, pc, outcome, faults>>

\* The client is forgotten and not closed.
FinallyForgets(t) ==
  /\ pc[t] = "finally"
  /\ current' = [current EXCEPT ![t] = @ /\ ~cleanup[t]]
  /\ outcome' = [outcome EXCEPT ![t] = IF @ = "None" THEN "Returned" ELSE @]
  /\ Goto(t, "idle")
  /\ UNCHANGED <<collection, clients, cleanup, calls, faults>>

\* The client is closed and stays in the context.
FinallyClosesOnly(t) ==
  /\ pc[t] = "finally"
  /\ clients' = [clients EXCEPT ![t] = IF cleanup[t] THEN @ - 1 ELSE @]
  /\ outcome' = [outcome EXCEPT ![t] = IF @ = "None" THEN "Returned" ELSE @]
  /\ Goto(t, "idle")
  /\ UNCHANGED <<collection, current, cleanup, calls, faults>>

\* insert_one reports success for a write that it does not wait for.
RequestUnacknowledged(t) ==
  /\ pc[t] = "request"
  /\ collection' \in {collection, collection \cup items[t]}
  /\ Goto(t, "finally")
  /\ UNCHANGED <<connections, calls, outcome, faults>>

-----------------------------------------------------------------------------
Call(t, op, docs) ==
  /\ pc[t] = "idle"
  /\ CASE op = "insert_one"  -> Cardinality(docs) = 1
       [] op = "insert_many" -> docs # {}
       [] OTHER              -> docs = {}
  /\ operation' = [operation EXCEPT ![t] = op]
  /\ items' = [items EXCEPT ![t] = docs]
  /\ outcome' = [outcome EXCEPT ![t] = "None"]
  /\ Goto(t, "client")
  /\ UNCHANGED <<collection, connections, faults>>

\* insert_many of ResultsDBService hands the items over as the name of the collection,
\* and so never gets to the operation.
ServiceRaises(t, docs) ==
  /\ pc[t] = "idle"
  /\ operation' = [operation EXCEPT ![t] = "insert_many"]
  /\ items' = [items EXCEPT ![t] = docs]
  /\ outcome' = [outcome EXCEPT ![t] = "TypeError"]
  /\ UNCHANGED <<collection, connections, pc, faults>>

\* client(): only a client that it connects itself is closed in the end, and the one
\* of _check_mp counts as found.
OpenClient(t) ==
  /\ pc[t] = "client"
  /\ IF Connects(t) THEN Connect(t) ELSE UNCHANGED <<clients, current>>
  /\ cleanup' = [cleanup EXCEPT ![t] = Connects(t) /\ t \notin Forked]
  /\ Goto(t, "request")
  /\ UNCHANGED <<collection, calls, outcome, faults>>

\* _connect has set _client when it lists the collections, and that request fails:
\* the exception passes client() before its try.
ConnectFails(t) ==
  /\ pc[t] = "client"
  /\ Connects(t)
  /\ faults < MaxFaults
  /\ faults' = faults + 1
  /\ Connect(t)
  /\ outcome' = [outcome EXCEPT ![t] = "PyMongoError"]
  /\ Goto(t, "idle")
  /\ UNCHANGED <<collection, cleanup, calls>>

Request(t) ==
  /\ pc[t] = "request"
  /\ collection' = collection \cup items[t]
  /\ Goto(t, "finally")
  /\ UNCHANGED <<connections, calls, outcome, faults>>

\* The request fails before the server has stored all of it, or its answer is lost.
RequestFails(t) ==
  /\ pc[t] = "request"
  /\ faults < MaxFaults
  /\ faults' = faults + 1
  /\ \E stored \in SUBSET items[t] : collection' = collection \cup stored
  /\ outcome' = [outcome EXCEPT ![t] = "PyMongoError"]
  /\ Goto(t, "finally")
  /\ UNCHANGED <<connections, calls>>

\* insert_many then asks the ids it got for an attribute they do not have.
EndOutcome(t) ==
  IF outcome[t] # "None" THEN outcome[t]
  ELSE IF operation[t] = "insert_many" THEN "AttributeError" ELSE "Returned"

\* The finally of client(), and the statements after the with-block.
Finally(t) ==
  /\ pc[t] = "finally"
  /\ clients' = [clients EXCEPT ![t] = IF cleanup[t] THEN @ - 1 ELSE @]
  /\ current' = [current EXCEPT ![t] = @ /\ ~cleanup[t]]
  /\ outcome' = [outcome EXCEPT ![t] = EndOutcome(t)]
  /\ Goto(t, "idle")
  /\ UNCHANGED <<collection, cleanup, calls, faults>>

\* disconnect()
Disconnect(t) ==
  /\ pc[t] = "idle"
  /\ current[t]
  /\ clients' = [clients EXCEPT ![t] = @ - 1]
  /\ current' = [current EXCEPT ![t] = FALSE]
  /\ UNCHANGED <<collection, cleanup, calls, pc, outcome, faults>>

Next ==
  \E t \in Threads :
    \/ \E op \in Operations, docs \in SUBSET Documents : Call(t, op, docs)
    \/ \E docs \in SUBSET Documents : ServiceRaises(t, docs)
    \/ OpenClient(t) \/ ConnectFails(t) \/ Request(t) \/ RequestFails(t)
    \/ Finally(t) \/ Disconnect(t)

Spec == Init /\ [][Next]_vars

-----------------------------------------------------------------------------
\* Operations of a thread, however many and whatever failed in them, share one client:
\* none is left open beside the one in the context (mongodb.py:123).
ClientsAccounted ==
  \A t \in Threads : clients[t] = IF current[t] THEN 1 ELSE 0

\* A request goes through a client that is open (mongodb.py:141).
OpenWhenUsed ==
  \A t \in Threads : pc[t] \in {"request", "finally"} => current[t] /\ clients[t] > 0

\* An insert that returns has stored everything it was given (mongodb.py:167).
ReturnedMeansStored ==
  \A t \in Threads : outcome[t] = "Returned" => items[t] \subseteq collection
=============================================================================
