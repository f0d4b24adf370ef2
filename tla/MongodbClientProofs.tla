------------------------- MODULE MongodbClientProofs -------------------------
(***************************************************************************)
(* Theorems about MongodbClient for any number of threads, documents,       *)
(* clients and faults.                                                      *)
(***************************************************************************)
EXTENDS MongodbClient, TLAPS

\* An operation that has got its client keeps it, and no client is closed twice: a
\* thread whose context has a client has opened one that it has not closed.
Opened ==
  \A t \in Threads :
    /\ current[t] => clients[t] > 0
    /\ pc[t] \in {"request", "finally"} => current[t]

\* What a request that did not fail was given is stored when it ends.
Acknowledged ==
  \A t \in Threads :
    pc[t] = "finally" /\ outcome[t] = "None" => items[t] \subseteq collection

Step(t) ==
  \/ \E op \in Operations, docs \in SUBSET Documents : Call(t, op, docs)
  \/ \E docs \in SUBSET Documents : ServiceRaises(t, docs)
  \/ OpenClient(t) \/ ConnectFails(t) \/ Request(t) \/ RequestFails(t)
  \/ Finally(t) \/ Disconnect(t)

LEMMA NextIsStep == Next <=> \E t \in Threads : Step(t)
  BY DEF Next, Step

-----------------------------------------------------------------------------
(* Type correctness needs Opened: Finally and Disconnect count clients down. *)

LEMMA TypeInit == Init => TypeOK /\ Opened
  BY MongoConstants DEF Init, TypeOK, Opened, Outcomes

LEMMA TypeStep ==
  ASSUME TypeOK, Opened, NEW t \in Threads, Step(t)
  PROVE  TypeOK' /\ Opened'
<1>1. CASE \E op \in Operations, docs \in SUBSET Documents : Call(t, op, docs)
  <2>1. PICK op \in Operations, docs \in SUBSET Documents : Call(t, op, docs)
    BY <1>1
  <2>2. TypeOK'
    BY <2>1 DEF TypeOK, Call, Goto, connections, Outcomes
  <2>3. Opened'
    BY <2>1 DEF TypeOK, Opened, Call, Goto, connections
  <2> QED BY <2>2, <2>3
<1>2. CASE OpenClient(t)
  <2>3. Connects(t) \in BOOLEAN
    BY DEF Connects, TypeOK
  <2>4. cleanup' \in [Threads -> BOOLEAN]
    <3>1. (Connects(t) /\ t \notin Forked) \in BOOLEAN
      BY <2>3
    <3>2. cleanup' = [cleanup EXCEPT ![t] = Connects(t) /\ t \notin Forked]
      BY <1>2 DEF OpenClient
    <3> QED BY <3>1, <3>2, Zenon DEF TypeOK
  <2>1. TypeOK'
    <3>1. clients' \in [Threads -> 0..MaxClients] /\ current' \in [Threads -> BOOLEAN]
      <4>1. CASE Connects(t)
        <5>1. clients[t] + 1 \in 0..MaxClients
          BY <1>2, <4>1, MongoConstants DEF TypeOK, OpenClient, Connect
        <5> QED BY <1>2, <4>1, <5>1 DEF TypeOK, OpenClient, Connect
      <4>2. CASE ~Connects(t)
        BY <1>2, <4>2 DEF TypeOK, OpenClient
      <4> QED BY <4>1, <4>2
    <3>2. pc' \in [Threads -> {"idle", "client", "request", "finally"}]
      BY <1>2 DEF TypeOK, OpenClient, Goto
    <3> QED BY <1>2, <2>4, <3>1, <3>2 DEF TypeOK, OpenClient, calls
  <2>2. Opened'
    BY <1>2 DEF TypeOK, Opened, OpenClient, Connect, Connects, Goto, calls
  <2> QED BY <2>1, <2>2
<1>3. CASE ConnectFails(t)
  <2>1. TypeOK'
    BY <1>3, MongoConstants DEF TypeOK, ConnectFails, Connect, Goto, calls, Outcomes
  <2>2. Opened'
    BY <1>3 DEF TypeOK, Opened, ConnectFails, Connect, Goto, calls
  <2> QED BY <2>1, <2>2
<1>4. CASE Request(t)
  <2>1. TypeOK'
    BY <1>4 DEF TypeOK, Request, Goto, connections, calls
  <2>2. Opened'
    BY <1>4 DEF TypeOK, Opened, Request, Goto, connections, calls
  <2> QED BY <2>1, <2>2
<1>5. CASE RequestFails(t)
  <2>1. TypeOK'
    BY <1>5, MongoConstants DEF TypeOK, RequestFails, Goto, connections, calls, Outcomes
  <2>2. Opened'
    BY <1>5 DEF TypeOK, Opened, RequestFails, Goto, connections, calls
  <2> QED BY <2>1, <2>2
<1>6. CASE Finally(t)
  <2>1. TypeOK'
    BY <1>6, MongoConstants DEF TypeOK, Opened, Finally, EndOutcome, Goto, calls, Outcomes
  <2>2. Opened'
    BY <1>6 DEF TypeOK, Opened, Finally, Goto, calls
  <2> QED BY <2>1, <2>2
<1>7. CASE Disconnect(t)
  <2>1. TypeOK'
    BY <1>7, MongoConstants DEF TypeOK, Opened, Disconnect, calls
  <2>2. Opened'
    BY <1>7 DEF TypeOK, Opened, Disconnect, calls
  <2> QED BY <2>1, <2>2
<1>8. CASE \E docs \in SUBSET Documents : ServiceRaises(t, docs)
  <2>1. PICK docs \in SUBSET Documents : ServiceRaises(t, docs)
    BY <1>8
  <2>2. TypeOK'
    BY <2>1 DEF TypeOK, ServiceRaises, connections, Operations, Outcomes
  <2>3. Opened'
    BY <2>1 DEF Opened, ServiceRaises, connections
  <2> QED BY <2>2, <2>3
<1> QED BY <1>1, <1>2, <1>3, <1>4, <1>5, <1>6, <1>7, <1>8 DEF Step

LEMMA TypeStutter ==
  ASSUME TypeOK, Opened, UNCHANGED vars
  PROVE  TypeOK' /\ Opened'
  BY DEF TypeOK, Opened, vars, connections, calls

LEMMA Typed == Spec => [](TypeOK /\ Opened)
<1>1. TypeOK /\ Opened /\ [Next]_vars => (TypeOK /\ Opened)'
  BY TypeStep, TypeStutter, NextIsStep
<1> QED BY TypeInit, <1>1, PTL DEF Spec

\* Every reachable state is well typed (mongodb.py:50).
THEOREM TypeCorrect == Spec => []TypeOK
  BY Typed, PTL

\* An operation never goes through a closed client, whoever disconnected before it and
\* whichever requests failed (mongodb.py:141), in a forked process too.
THEOREM OpenCorrect == Spec => []OpenWhenUsed
<1>1. Opened => OpenWhenUsed
  BY DEF Opened, OpenWhenUsed
<1> QED BY Typed, <1>1, PTL
-----------------------------------------------------------------------------
(* Without a fork the context's client is the only one that is open.         *)

LEMMA AccountedStep ==
  ASSUME Forked = {}, TypeOK, Opened, ClientsAccounted, NEW t \in Threads, Step(t)
  PROVE  ClientsAccounted'
<1>1. CASE \E op \in Operations, docs \in SUBSET Documents : Call(t, op, docs)
  BY <1>1 DEF ClientsAccounted, Call, connections
<1>2. CASE OpenClient(t)
  <2>1. CASE Connects(t)
    <3>1. ~current[t] /\ Connect(t)
      BY <1>2, <2>1 DEF OpenClient, Connects
    <3> QED BY <3>1 DEF TypeOK, ClientsAccounted, Connect
  <2>2. CASE ~Connects(t)
    BY <1>2, <2>2 DEF ClientsAccounted, OpenClient
  <2> QED BY <2>1, <2>2
<1>3. CASE ConnectFails(t)
  <2>1. ~current[t] /\ Connect(t)
    BY <1>3 DEF ConnectFails, Connects
  <2> QED BY <2>1 DEF TypeOK, ClientsAccounted, Connect
<1>4. CASE Request(t)
  BY <1>4 DEF ClientsAccounted, Request, connections
<1>5. CASE RequestFails(t)
  BY <1>5 DEF ClientsAccounted, RequestFails, connections
<1>6. CASE Finally(t)
  <2>1. current[t] /\ clients[t] = 1
    BY <1>6 DEF Opened, ClientsAccounted, Finally
  <2>2. CASE cleanup[t]
    <3>1. current' = [current EXCEPT ![t] = FALSE]
      BY <1>6, <2>2 DEF Finally
    <3>2. clients' = [clients EXCEPT ![t] = 0]
      BY <1>6, <2>1, <2>2 DEF Finally
    <3> QED BY <3>1, <3>2 DEF TypeOK, ClientsAccounted
  <2>3. CASE ~cleanup[t]
    BY <1>6, <2>1, <2>3 DEF TypeOK, ClientsAccounted, Finally
  <2> QED BY <2>2, <2>3
<1>7. CASE Disconnect(t)
  BY <1>7 DEF TypeOK, ClientsAccounted, Disconnect
<1>8. CASE \E docs \in SUBSET Documents : ServiceRaises(t, docs)
  BY <1>8 DEF ClientsAccounted, ServiceRaises, connections
<1> QED BY <1>1, <1>2, <1>3, <1>4, <1>5, <1>6, <1>7, <1>8 DEF Step

\* When no thread runs in a forked process, the operations of a thread leave no client
\* open but the one in its context, whatever failed in them (mongodb.py:123).
THEOREM ClientsCorrect == Forked = {} => (Spec => []ClientsAccounted)
<1> SUFFICES ASSUME Forked = {} PROVE Spec => []ClientsAccounted
  OBVIOUS
<1>1. Init => ClientsAccounted
  BY DEF Init, ClientsAccounted
<1>2. TypeOK /\ Opened /\ ClientsAccounted /\ [Next]_vars => ClientsAccounted'
  <2> SUFFICES ASSUME TypeOK, Opened, ClientsAccounted, [Next]_vars
               PROVE  ClientsAccounted'
    OBVIOUS
  <2>1. CASE Next
    BY <2>1, AccountedStep, NextIsStep
  <2>2. CASE UNCHANGED vars
    BY <2>2 DEF ClientsAccounted, vars, connections
  <2> QED BY <2>1, <2>2
<1> QED BY <1>1, <1>2, Typed, PTL DEF Spec

-----------------------------------------------------------------------------
(* An answer that arrives is one of a request that was carried out.          *)

LEMMA AcknowledgedStep ==
  ASSUME TypeOK, Acknowledged, ReturnedMeansStored, NEW t \in Threads, Step(t)
  PROVE  Acknowledged' /\ ReturnedMeansStored'
<1>1. CASE \E op \in Operations, docs \in SUBSET Documents : Call(t, op, docs)
  <2>1. PICK op \in Operations, docs \in SUBSET Documents : Call(t, op, docs)
    BY <1>1
  <2> QED BY <2>1 DEF TypeOK, Acknowledged, ReturnedMeansStored, Call, Goto
<1>2. CASE OpenClient(t)
  BY <1>2 DEF TypeOK, Acknowledged, ReturnedMeansStored, OpenClient, Goto, calls
<1>3. CASE ConnectFails(t)
  BY <1>3 DEF TypeOK, Acknowledged, ReturnedMeansStored, ConnectFails, Goto, calls
<1>4. CASE Request(t)
  BY <1>4 DEF TypeOK, Acknowledged, ReturnedMeansStored, Request, Goto, calls
<1>5. CASE RequestFails(t)
  <2>1. collection \subseteq collection'
    BY <1>5 DEF RequestFails
  <2> QED
    BY <1>5, <2>1 DEF TypeOK, Acknowledged, ReturnedMeansStored, RequestFails, Goto, calls
<1>6. CASE Finally(t)
  BY <1>6 DEF TypeOK, Acknowledged, ReturnedMeansStored, Finally, EndOutcome, Goto, calls
<1>7. CASE Disconnect(t)
  BY <1>7 DEF Acknowledged, ReturnedMeansStored, Disconnect, calls
<1>8. CASE \E docs \in SUBSET Documents : ServiceRaises(t, docs)
  <2>1. PICK docs \in SUBSET Documents : ServiceRaises(t, docs)
    BY <1>8
  <2> QED BY <2>1 DEF TypeOK, Acknowledged, ReturnedMeansStored, ServiceRaises
<1> QED BY <1>1, <1>2, <1>3, <1>4, <1>5, <1>6, <1>7, <1>8 DEF Step

\* What insert_one or find reports as done is in the collection: an operation whose
\* request failed, or whose answer was lost, raises (mongodb.py:167).
THEOREM ReturnedCorrect == Spec => []ReturnedMeansStored
<1>1. Init => Acknowledged /\ ReturnedMeansStored
  BY DEF Init, Acknowledged, ReturnedMeansStored
<1>2. TypeOK /\ Acknowledged /\ ReturnedMeansStored /\ [Next]_vars
        => (Acknowledged /\ ReturnedMeansStored)'
  <2> SUFFICES ASSUME TypeOK, Acknowledged, ReturnedMeansStored, [Next]_vars
               PROVE  Acknowledged' /\ ReturnedMeansStored'
    OBVIOUS
  <2>1. CASE Next
    BY <2>1, AcknowledgedStep, NextIsStep
  <2>2. CASE UNCHANGED vars
    BY <2>2 DEF Acknowledged, ReturnedMeansStored, vars, calls
  <2> QED BY <2>1, <2>2
<1> QED BY <1>1, <1>2, TypeCorrect, PTL DEF Spec
=============================================================================
