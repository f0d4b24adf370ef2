------------------------- MODULE ModelDBClientProofs -------------------------
(***************************************************************************)
(* Theorems about ModelDBClient for any number of processes, threads,       *)
(* connections and faults.  Those about the state after a fork assume that  *)
(* a forked process uses the object from one thread; with two of them they  *)
(* do not hold.                                                             *)
(***************************************************************************)
EXTENDS ModelDBClient, FiniteSetTheorems, SequenceTheorems, TLAPS

\* A forked process has one thread that uses the object.
OneThreadPerFork ==
  \A t, u \in Threads : ProcessOf[t] = ProcessOf[u] /\ ProcessOf[t] # Creator => t = u

New   == {"new_pid", "new_variable", "new_engine", "new_sessionmaker"}
Using == {"connect", "release", "execute", "commit", "block"}

Renew(t) == NewPid(t) \/ NewVariable(t) \/ NewEngine(t) \/ NewSessionmaker(t)

Step(t) ==
  \/ Call(t) \/ EnterBlock(t) \/ LeaveBlock(t) \/ CheckMp(t) \/ Renew(t)
  \/ Connect(t) \/ Release(t) \/ Execute(t) \/ Commit(t) \/ PoolTimesOut(t)

LEMMA NextIsStep == Next <=> \E t \in Threads : Step(t)
  BY DEF Next, Step, Renew, Proceed

-----------------------------------------------------------------------------
(* Type correctness.                                                        *)

\* Engines are only added.
Grown ==
  /\ DOMAIN engines \subseteq DOMAIN engines'
  /\ \A e \in DOMAIN engines : engines'[e] = engines[e]

LEMMA Appended ==
  ASSUME TypeOK, NEW t \in Threads, NewEngine(t)
  PROVE  /\ engines' \in Seq(Processes)
         /\ Len(engines) + 1 \in DOMAIN engines'
         /\ engines'[Len(engines) + 1] = ProcessOf[t]
         /\ DOMAIN engines' = DOMAIN engines \cup {Len(engines) + 1}
         /\ Grown
<1>1. ProcessOf[t] \in Processes
  BY ClientConstants
<1>2. engines \in Seq(Processes) /\ engines' = Append(engines, ProcessOf[t])
  BY DEF TypeOK, NewEngine
<1>3. /\ engines' \in Seq(Processes)
      /\ Len(engines') = Len(engines) + 1
      /\ engines'[Len(engines) + 1] = ProcessOf[t]
      /\ \A e \in 1..Len(engines) : engines'[e] = engines[e]
  BY <1>1, <1>2, AppendProperties, Zenon
<1>4. /\ Len(engines) \in Nat
      /\ DOMAIN engines = 1..Len(engines)
      /\ DOMAIN engines' = 1..Len(engines')
  BY <1>2, <1>3, LenProperties, Zenon
<1>5. 1..(Len(engines) + 1) = 1..Len(engines) \cup {Len(engines) + 1}
  BY <1>4
<1> QED BY <1>3, <1>4, <1>5 DEF Grown

LEMMA StepGrows ==
  ASSUME TypeOK, NEW t \in Threads, Step(t)
  PROVE  Grown
<1>1. CASE NewEngine(t)
  BY <1>1, Appended
<1>2. CASE ~NewEngine(t)
  <2>1. engines' = engines
    BY <1>2 DEF Step, Renew, Call, EnterBlock, LeaveBlock, CheckMp, NewPid, NewVariable,
       NewSessionmaker, Connect, Release, Execute, Commit, PoolTimesOut, object
  <2> QED BY <2>1 DEF Grown
<1> QED BY <1>1, <1>2

LEMMA TypeInit == Init => TypeOK
<1> SUFFICES ASSUME Init PROVE TypeOK
  OBVIOUS
<1>1. engines \in Seq(Processes) /\ DOMAIN engines = {1}
  BY ClientConstants DEF Init
<1> QED BY <1>1, ClientConstants DEF Init, TypeOK, Labels

LEMMA TypeStep ==
  ASSUME TypeOK, NEW t \in Threads, Step(t)
  PROVE  TypeOK'
<1> DEFINE p == ProcessOf[t]
<1>p. p \in Processes
  BY ClientConstants
<1>1. CASE Call(t)
  BY <1>1 DEF Call, Goto, object, locals, TypeOK, Labels
<1>2. CASE EnterBlock(t)
  BY <1>2 DEF EnterBlock, Goto, object, TypeOK, Labels
<1>3. CASE LeaveBlock(t)
  <2>1. held' \in [Threads -> SUBSET (Nat \X DOMAIN engines)]
    <3>1. held[t] \ Current(t) \in SUBSET (Nat \X DOMAIN engines)
      BY DEF TypeOK
    <3> QED BY <1>3, <3>1, Zenon DEF LeaveBlock, TypeOK
  <2> QED BY <1>3, <2>1 DEF LeaveBlock, Goto, object, TypeOK, Labels
<1>4. CASE CheckMp(t)
  BY <1>4 DEF CheckMp, Goto, object, locals, TypeOK, Labels
<1>5. CASE NewPid(t)
  BY <1>5, <1>p DEF NewPid, Goto, locals, TypeOK, Labels
<1>6. CASE NewVariable(t)
  <2>1. variable' \in [Processes -> Nat]
    <3>1. variable[p] \in Nat
      BY <1>p, Zenon DEF TypeOK
    <3>2. variable[p] + 1 \in Nat
      BY <3>1
    <3> QED BY <1>6, <3>2, Zenon DEF NewVariable, TypeOK
  <2>2. pc' \in [Threads -> Labels]
    BY <1>6 DEF NewVariable, Goto, TypeOK, Labels
  <2> QED BY <1>6, <2>1, <2>2 DEF NewVariable, locals, TypeOK
<1>7. CASE NewEngine(t)
  <2>1. UNCHANGED <<pid, variable, sessionmaker, locals, faults>>
    BY <1>7 DEF NewEngine
  <2>2. /\ engines' \in Seq(Processes)
        /\ Len(engines) + 1 \in DOMAIN engines'
        /\ DOMAIN engines \subseteq DOMAIN engines'
    BY <1>7, Appended DEF Grown
  <2>3. engine' \in [Processes -> DOMAIN engines'] /\ pc' \in [Threads -> Labels]
    BY <1>7, <1>p, <2>2 DEF NewEngine, Goto, TypeOK, Labels
  <2>4. held' \in [Threads -> SUBSET (Nat \X DOMAIN engines')]
    BY <2>1, <2>2 DEF locals, TypeOK
  <2>5. /\ session' \in [Threads -> {0} \cup DOMAIN engines']
        /\ bind' \in [Threads -> DOMAIN engines']
    BY <2>1, <2>2 DEF locals, TypeOK
  <2>6. sessionmaker' \in [Processes -> DOMAIN engines']
    BY <2>1, <2>2 DEF TypeOK
  <2> QED BY <2>1, <2>2, <2>3, <2>4, <2>5, <2>6 DEF locals, TypeOK
<1>8. CASE NewSessionmaker(t)
  BY <1>8, <1>p DEF NewSessionmaker, Goto, locals, TypeOK, Labels
<1>9. CASE Connect(t)
  <2>1. <<variable[p], engine[p]>> \in Nat \X DOMAIN engines
    BY <1>p DEF TypeOK
  <2>2. held' \in [Threads -> SUBSET (Nat \X DOMAIN engines)]
    <3>1. held[t] \cup {<<variable[p], engine[p]>>} \in SUBSET (Nat \X DOMAIN engines)
      BY <2>1 DEF TypeOK
    <3>2. held' = held \/ held' = [held EXCEPT ![t] = @ \cup {<<variable[p], engine[p]>>}]
      BY <1>9 DEF Connect
    <3> QED BY <3>1, <3>2, Zenon DEF TypeOK
  <2>3. cleanup' \in [Threads -> BOOLEAN]
    BY <1>9 DEF Connect, TypeOK
  <2>4. /\ block' \in [Threads -> {"none", "entering", "entered"}]
        /\ pc' \in [Threads -> Labels]
    BY <1>9 DEF Connect, Goto, TypeOK, Labels
  <2>5. UNCHANGED <<engines, pid, variable, engine, sessionmaker, bind, session, faults>>
    BY <1>9 DEF Connect, object
  <2> QED BY <2>2, <2>3, <2>4, <2>5 DEF TypeOK
<1>10. CASE Release(t)
  <2>1. held' \in [Threads -> SUBSET (Nat \X DOMAIN engines)]
    <3>1. /\ held[t] \in SUBSET (Nat \X DOMAIN engines)
          /\ held[t] \ Current(t) \in SUBSET (Nat \X DOMAIN engines)
      BY DEF TypeOK
    <3> QED BY <1>10, <3>1, Zenon DEF Release, TypeOK
  <2>2. bind' \in [Threads -> DOMAIN engines]
    <3>1. sessionmaker[p] \in DOMAIN engines
      BY <1>p, Zenon DEF TypeOK
    <3>2. bind' = [bind EXCEPT ![t] = sessionmaker[p]]
      BY <1>10, Zenon DEF Release
    <3>3. bind \in [Threads -> DOMAIN engines]
      BY Zenon DEF TypeOK
    <3> HIDE DEF p
    <3> QED BY <3>1, <3>2, <3>3
  <2>3. pc' \in [Threads -> Labels]
    BY <1>10 DEF Release, Goto, TypeOK, Labels
  <2>4. UNCHANGED <<object, session, cleanup, block, faults>>
    BY <1>10 DEF Release
  <2> QED BY <2>1, <2>2, <2>3, <2>4 DEF object, TypeOK
<1>11. CASE Execute(t)
  <2>1. session' \in [Threads -> {0} \cup DOMAIN engines]
    BY <1>11, Zenon DEF Execute, TypeOK
  <2>2. pc' \in [Threads -> Labels]
    BY <1>11 DEF Execute, Goto, TypeOK, Labels
  <2>3. UNCHANGED <<object, held, bind, cleanup, block, faults>>
    BY <1>11 DEF Execute
  <2> QED BY <2>1, <2>2, <2>3 DEF object, TypeOK
<1>12. CASE Commit(t)
  <2>1. pc' \in [Threads -> Labels] /\ faults' \in 0..MaxFaults
    <3>1. faults < MaxFaults => faults + 1 \in 0..MaxFaults
      BY ClientConstants DEF TypeOK
    <3>2. faults' \in 0..MaxFaults
      BY <1>12, <3>1, Zenon DEF Commit, TypeOK
    <3>3. pc' \in [Threads -> Labels]
      BY <1>12 DEF Commit, End, Goto, TypeOK, Labels
    <3> QED BY <3>2, <3>3
  <2> QED BY <1>12, <2>1 DEF Commit, object, TypeOK
<1>13. CASE PoolTimesOut(t)
  <2>1. pc' \in [Threads -> Labels] /\ faults' \in 0..MaxFaults
    BY <1>13, ClientConstants DEF PoolTimesOut, End, Goto, TypeOK, Labels
  <2>2. block' \in [Threads -> {"none", "entering", "entered"}]
    BY <1>13 DEF PoolTimesOut, TypeOK
  <2> QED BY <1>13, <2>1, <2>2 DEF PoolTimesOut, object, TypeOK
<1> QED BY <1>1, <1>2, <1>3, <1>4, <1>5, <1>6, <1>7, <1>8, <1>9, <1>10, <1>11, <1>12,
           <1>13 DEF Step, Renew

\* Every variable keeps its type: what a process refers to is an engine that was made.
THEOREM TypeCorrect == Spec => []TypeOK
<1>1. TypeOK /\ [Next]_vars => TypeOK'
  <2>1. TypeOK /\ UNCHANGED vars => TypeOK'
    BY DEF TypeOK, vars, object, locals
  <2> QED BY <2>1, NextIsStep, TypeStep
<1> QED BY TypeInit, <1>1, PTL DEF Spec

-----------------------------------------------------------------------------
(* Connections.                                                             *)

\* What thread t holds is of its process, and so are the engine and the sessionmaker
\* that it finds behind its own _pid, but for the steps in which it replaces them.
Owned(t) ==
  LET p == ProcessOf[t]
  IN  /\ held[t] # {} => pid[p] = p
      /\ \A h \in held[t] : h[1] = variable[p] /\ engines[h[2]] = p
      /\ session[t] # 0 => pc[t] = "commit" /\ engines[session[t]] = p
      /\ pc[t] = "execute" => engines[bind[t]] = p
      /\ pc[t] \in New => p # Creator /\ held[t] = {}
      /\ pc[t] \in Using \cup (New \ {"new_pid"}) => pid[p] = p
      /\ pc[t] \notin New /\ pid[p] = p =>
           engines[engine[p]] = p /\ engines[sessionmaker[p]] = p
      /\ pc[t] = "new_sessionmaker" => engines[engine[p]] = p

\* A thread has a connection in its context only inside a block of its own or until the
\* call that opened it leaves connection().
Scoped(t) ==
  /\ block[t] # "entered" /\ pc[t] # "release" => held[t] = {}
  /\ block[t] # "entered" /\ pc[t] = "release" => cleanup[t]
  /\ pc[t] = "idle" => block[t] # "entered"

CreatorKept == pid[Creator] = Creator

Connections == CreatorKept /\ \A t \in Threads : Owned(t) /\ Scoped(t)

LEMMA ConnectionsInit == Init => Connections
  BY ClientConstants DEF Init, Connections, CreatorKept, Owned, Scoped, New, Using

\* A step of another thread leaves a thread what it has.
LEMMA OthersKept ==
  ASSUME TypeOK, Connections, OneThreadPerFork,
         NEW t \in Threads, NEW u \in Threads, u # t, Step(u)
  PROVE  Owned(t)' /\ Scoped(t)'
<1> DEFINE p == ProcessOf[t]
           q == ProcessOf[u]
<1>1. /\ p \in Processes /\ q \in Processes
      /\ Owned(t) /\ Scoped(t) /\ Owned(u)
  BY ClientConstants DEF Connections
<1>2. /\ held'[t] = held[t] /\ session'[t] = session[t] /\ cleanup'[t] = cleanup[t]
      /\ bind'[t] = bind[t]
      /\ block'[t] = block[t] /\ pc'[t] = pc[t]
  BY DEF TypeOK, Step, Renew, Call, EnterBlock, LeaveBlock, CheckMp, NewPid, NewVariable,
     NewEngine, NewSessionmaker, Connect, Release, Execute, Commit, PoolTimesOut, Goto, End,
     locals
<1>3. /\ pid'[p] = pid[p] /\ variable'[p] = variable[p]
      /\ engine'[p] = engine[p] /\ sessionmaker'[p] = sessionmaker[p]
  <2>1. CASE ~Renew(u)
    BY <2>1 DEF Step, Call, EnterBlock, LeaveBlock, CheckMp, Connect, Release, Execute,
       Commit, PoolTimesOut, object
  <2>2. CASE Renew(u)
    <3>1. pc[u] \in New
      BY <2>2 DEF Renew, NewPid, NewVariable, NewEngine, NewSessionmaker, New
    <3>2. p # q
      BY <1>1, <3>1 DEF OneThreadPerFork, Owned
    <3> QED BY <1>1, <2>2, <3>2 DEF TypeOK, Renew, NewPid, NewVariable, NewEngine,
            NewSessionmaker
  <2> QED BY <2>1, <2>2
<1>4. \A e \in DOMAIN engines : engines'[e] = engines[e]
  BY StepGrows DEF Grown
<1>5. /\ \A h \in held[t] : h[2] \in DOMAIN engines
      /\ session[t] # 0 => session[t] \in DOMAIN engines
      /\ engine[p] \in DOMAIN engines /\ sessionmaker[p] \in DOMAIN engines
      /\ bind[t] \in DOMAIN engines
  <2>1. held[t] \subseteq Nat \X DOMAIN engines
    BY DEF TypeOK
  <2>2. \A h \in held[t] : h[2] \in DOMAIN engines
    BY <2>1
  <2> QED BY <1>1, <2>2 DEF TypeOK
<1>6. Scoped(t)'
  BY <1>1, <1>2 DEF Scoped
<1>7. Owned(t)'
  BY <1>1, <1>2, <1>3, <1>4, <1>5 DEF Owned
<1> QED BY <1>6, <1>7

LEMMA OwnKept ==
  ASSUME TypeOK, Connections, NEW t \in Threads, Step(t)
  PROVE  Owned(t)' /\ Scoped(t)'
<1> DEFINE p == ProcessOf[t]
<1>p. p \in Processes /\ Owned(t) /\ Scoped(t)
  BY ClientConstants DEF Connections
<1>h. (\A h \in held[t] : h[1] = variable[p]) => held[t] \ Current(t) = {}
  BY DEF Current
<1>1. CASE Call(t)
  BY <1>1, <1>p DEF Call, Goto, object, locals, TypeOK, Owned, Scoped, New, Using
<1>2. CASE EnterBlock(t)
  BY <1>2, <1>p DEF EnterBlock, Goto, object, TypeOK, Owned, Scoped, New, Using
<1>3. CASE LeaveBlock(t)
  <2>1. held'[t] = {}
    BY <1>3, <1>p, <1>h DEF LeaveBlock, TypeOK, Owned
  <2> QED BY <1>3, <1>p, <2>1 DEF LeaveBlock, Goto, object, TypeOK, Owned, Scoped, New, Using
<1>4. CASE CheckMp(t)
  <2>1. pid[p] # p => p # Creator
    BY DEF Connections, CreatorKept
  <2> QED BY <1>4, <1>p, <2>1 DEF CheckMp, Goto, object, locals, TypeOK, Owned, Scoped,
          New, Using
<1>5. CASE NewPid(t)
  BY <1>5, <1>p DEF NewPid, Goto, locals, TypeOK, Owned, Scoped, New, Using
<1>6. CASE NewVariable(t)
  BY <1>6, <1>p DEF NewVariable, Goto, locals, TypeOK, Owned, Scoped, New, Using
<1>7. CASE NewEngine(t)
  <2>1. engines'[engine'[p]] = p
    BY <1>7, <1>p, Appended DEF NewEngine, TypeOK
  <2>2. /\ UNCHANGED <<pid, variable, held, bind, session, cleanup, block>>
        /\ pc[t] = "new_engine" /\ pc'[t] = "new_sessionmaker"
    BY <1>7 DEF NewEngine, Goto, locals, TypeOK
  <2> QED BY <1>p, <2>1, <2>2 DEF Owned, Scoped, New, Using
<1>8. CASE NewSessionmaker(t)
  BY <1>8, <1>p DEF NewSessionmaker, Goto, locals, TypeOK, Owned, Scoped, New, Using
<1>9. CASE Connect(t)
  <2>1. /\ pid[p] = p /\ engines[engine[p]] = p
        /\ pc'[t] \in {"release", "block"} /\ UNCHANGED <<object, session>>
    BY <1>9, <1>p DEF Connect, Goto, TypeOK, Owned, New, Using
  <2>2. /\ held'[t] \subseteq held[t] \cup {<<variable[p], engine[p]>>}
        /\ held[t] = {} => cleanup'[t]
    BY <1>9 DEF Connect, TypeOK, Current
  <2>3. \A h \in held'[t] : h[1] = variable[p] /\ engines[h[2]] = p
    BY <1>p, <2>1, <2>2 DEF Owned
  <2>4. Owned(t)'
    BY <1>9, <1>p, <2>1, <2>3 DEF Connect, object, Owned, New, Using
  <2>5. Scoped(t)'
    <3>1. CASE block[t] = "entering"
      BY <1>9, <3>1 DEF Connect, Goto, TypeOK, Scoped
    <3>2. CASE block[t] # "entering"
      <4>1. block' = block /\ pc'[t] = "release"
        BY <1>9, <3>2 DEF Connect, Goto, TypeOK
      <4>2. block[t] # "entered" => held[t] = {}
        BY <1>9, <1>p DEF Connect, Scoped
      <4> QED BY <2>2, <4>1, <4>2 DEF Scoped
    <3> QED BY <3>1, <3>2
  <2> QED BY <2>4, <2>5
<1>10. CASE Release(t)
  <2>1. /\ held'[t] \subseteq held[t]
        /\ cleanup[t] => held'[t] = {}
    BY <1>10, <1>p, <1>h DEF Release, TypeOK, Owned
  <2>2. /\ pc[t] = "release" /\ pc'[t] = "execute" /\ bind'[t] = sessionmaker[p]
        /\ UNCHANGED <<object, session, cleanup, block>>
    BY <1>10 DEF Release, Goto, TypeOK
  <2> QED BY <1>p, <2>1, <2>2 DEF object, Owned, Scoped, New, Using
<1>11. CASE Execute(t)
  BY <1>11, <1>p DEF Execute, Goto, object, TypeOK, Owned, Scoped, New, Using
<1>12. CASE Commit(t)
  <2>1. /\ pc[t] = "commit" /\ session'[t] = 0
        /\ pc'[t] = IF block[t] = "entered" THEN "block" ELSE "idle"
        /\ UNCHANGED <<object, held, bind, cleanup, block>>
    BY <1>12 DEF Commit, End, Goto, TypeOK
  <2> QED BY <1>p, <2>1 DEF object, Owned, Scoped, New, Using
<1>13. CASE PoolTimesOut(t)
  <2>1. /\ pc[t] \in {"connect", "execute"}
        /\ pc'[t] = IF block[t] = "entered" THEN "block" ELSE "idle"
        /\ block'[t] = IF block[t] = "entering" THEN "none" ELSE block[t]
        /\ UNCHANGED <<object, held, bind, session, cleanup>>
    BY <1>13 DEF PoolTimesOut, End, Goto, TypeOK
  <2> QED BY <1>p, <2>1 DEF object, Owned, Scoped, New, Using
<1> QED BY <1>1, <1>2, <1>3, <1>4, <1>5, <1>6, <1>7, <1>8, <1>9, <1>10, <1>11, <1>12,
           <1>13 DEF Step, Renew

LEMMA ConnectionsStep ==
  ASSUME TypeOK, Connections, OneThreadPerFork, NEW t \in Threads, Step(t)
  PROVE  Connections'
<1>1. CreatorKept'
  <2>1. pid' = pid \/ pid' = [pid EXCEPT ![ProcessOf[t]] = ProcessOf[t]]
    BY DEF Step, Renew, Call, EnterBlock, LeaveBlock, CheckMp, NewPid, NewVariable,
       NewEngine, NewSessionmaker, Connect, Release, Execute, Commit, PoolTimesOut, object
  <2> QED BY <2>1, ClientConstants DEF TypeOK, Connections, CreatorKept
<1>2. \A u \in Threads : Owned(u)' /\ Scoped(u)'
  BY OthersKept, OwnKept
<1> QED BY <1>1, <1>2 DEF Connections

THEOREM ConnectionsCorrect == OneThreadPerFork => (Spec => []Connections)
<1> SUFFICES ASSUME OneThreadPerFork PROVE Spec => []Connections
  OBVIOUS
<1>1. TypeOK /\ Connections /\ [Next]_vars => Connections'
  <2>1. Connections /\ UNCHANGED vars => Connections'
    BY DEF Connections, CreatorKept, Owned, Scoped, vars, object, locals
  <2> QED BY <2>1, NextIsStep, ConnectionsStep
<1> QED BY ConnectionsInit, <1>1, TypeCorrect, PTL DEF Spec

\* With one thread per forked process, no process uses a connection of another's engine.
THEOREM OwnEngineCorrect == OneThreadPerFork => (Spec => []OwnEngine)
<1>1. Connections => OwnEngine
  BY DEF Connections, Owned, OwnEngine
<1> QED BY <1>1, ConnectionsCorrect, PTL

\* With one thread per forked process, a thread between its calls has given back every
\* connection it took.
THEOREM NothingKeptCorrect == OneThreadPerFork => (Spec => []NothingKept)
<1>1. Connections => NothingKept
  BY DEF Connections, Owned, Scoped, NothingKept
<1> QED BY <1>1, ConnectionsCorrect, PTL

-----------------------------------------------------------------------------
(* Engines.  That a thread in _create_engine finds no engine of its process  *)
(* is what makes the one it adds the only one.                              *)

Made(p) == {e \in DOMAIN engines : engines[e] = p}

Engines ==
  /\ \A e, f \in DOMAIN engines : engines[e] = engines[f] => e = f
  /\ \A p \in Processes : pid[p] # p => Made(p) = {}
  /\ \A t \in Threads :
       /\ pc[t] = "new_pid" => pid[ProcessOf[t]] # ProcessOf[t]
       /\ pc[t] \in {"new_variable", "new_engine"} => Made(ProcessOf[t]) = {}

LEMMA EnginesInit == Init => Engines
<1> SUFFICES ASSUME Init PROVE Engines
  OBVIOUS
<1>1. engines = <<Creator>> /\ DOMAIN engines = {1} /\ engines[1] = Creator
  BY DEF Init
<1> QED BY <1>1, ClientConstants DEF Init, Engines, Made

LEMMA EnginesStep ==
  ASSUME TypeOK, Connections, Engines, OneThreadPerFork, NEW t \in Threads, Step(t)
  PROVE  Engines'
<1> DEFINE p == ProcessOf[t]
<1>p. p \in Processes /\ Owned(t)
  BY ClientConstants DEF Connections
<1>o. \A u \in Threads : u # t => pc'[u] = pc[u]
  BY DEF TypeOK, Step, Renew, Call, EnterBlock, LeaveBlock, CheckMp, NewPid, NewVariable,
     NewEngine, NewSessionmaker, Connect, Release, Execute, Commit, PoolTimesOut, Goto, End
<1>1. CASE NewEngine(t)
  <2>1. p # Creator /\ Made(p) = {} /\ pc[t] = "new_engine" /\ pc'[t] = "new_sessionmaker"
        /\ UNCHANGED pid
    BY <1>1, <1>p DEF NewEngine, Goto, TypeOK, Engines, Owned, New
  <2>2. pid[p] = p
    BY <1>p, <2>1 DEF Owned, Using, New
  <2>3. \A u \in Threads : u # t => ProcessOf[u] # p
    BY <2>1 DEF OneThreadPerFork
  <2>4. /\ DOMAIN engines' = DOMAIN engines \cup {Len(engines) + 1}
        /\ engines'[Len(engines) + 1] = p
        /\ \A e \in DOMAIN engines : engines'[e] = engines[e]
    BY <1>1, Appended DEF Grown
  <2>5. \A q \in Processes : q # p => Made(q)' = Made(q)
    BY <2>4 DEF Made
  <2>6. \A e, f \in DOMAIN engines' : engines'[e] = engines'[f] => e = f
    BY <2>1, <2>4 DEF Engines, Made
  <2>7. \A q \in Processes : pid'[q] # q => Made(q)' = {}
    BY <2>1, <2>2, <2>5 DEF Engines
  <2>8. \A u \in Threads :
          /\ pc'[u] = "new_pid" => pid'[ProcessOf[u]] # ProcessOf[u]
          /\ pc'[u] \in {"new_variable", "new_engine"} => Made(ProcessOf[u])' = {}
    BY <1>o, <2>1, <2>3, <2>5, ClientConstants DEF Engines
  <2> QED BY <2>6, <2>7, <2>8 DEF Engines
<1>2. CASE NewPid(t)
  <2>1. /\ Made(p) = {} /\ p # Creator /\ pc'[t] = "new_variable" /\ UNCHANGED engines
        /\ pid' = [pid EXCEPT ![p] = p]
    <3>1. /\ pc[t] = "new_pid" /\ pc'[t] = "new_variable" /\ UNCHANGED engines
          /\ pid' = [pid EXCEPT ![p] = p]
      BY <1>2 DEF NewPid, Goto, TypeOK
    <3>2. p # Creator
      BY <1>p, <3>1 DEF Owned, New
    <3>3. pid[p] # p
      BY <3>1 DEF Engines
    <3> QED BY <1>p, <3>1, <3>2, <3>3 DEF Engines
  <2>2. \A u \in Threads : u # t => ProcessOf[u] # p
    BY <2>1 DEF OneThreadPerFork
  <2>3. \A q \in Processes : Made(q)' = Made(q)
    BY <2>1 DEF Made
  <2>4. pid'[p] = p /\ \A q \in Processes : q # p => pid'[q] = pid[q]
    BY <1>p, <2>1 DEF TypeOK
  <2>5. \A e, f \in DOMAIN engines' : engines'[e] = engines'[f] => e = f
    BY <2>1 DEF Engines
  <2>6. \A q \in Processes : pid'[q] # q => Made(q)' = {}
    BY <2>3, <2>4 DEF Engines
  <2>7. \A u \in Threads :
          /\ pc'[u] = "new_pid" => pid'[ProcessOf[u]] # ProcessOf[u]
          /\ pc'[u] \in {"new_variable", "new_engine"} => Made(ProcessOf[u])' = {}
    <3>1. ASSUME NEW u \in Threads, u # t
          PROVE  /\ pc'[u] = "new_pid" => pid'[ProcessOf[u]] # ProcessOf[u]
                 /\ pc'[u] \in {"new_variable", "new_engine"} => Made(ProcessOf[u])' = {}
      BY <1>o, <2>2, <2>3, <2>4, <3>1, ClientConstants DEF Engines
    <3>2. Made(p)' = {} /\ pc'[t] # "new_pid"
      BY <1>p, <2>1, <2>3
    <3> QED BY <3>1, <3>2
  <2> QED BY <2>5, <2>6, <2>7 DEF Engines
<1>3. CASE Step(t) /\ ~NewEngine(t) /\ ~NewPid(t)
  <2>1. UNCHANGED <<engines, pid>>
    BY <1>3 DEF Step, Renew, Call, EnterBlock, LeaveBlock, CheckMp, NewVariable,
       NewSessionmaker, Connect, Release, Execute, Commit, PoolTimesOut, object
  <2>2. /\ pc'[t] = "new_pid" => pid[p] # p
        /\ pc'[t] # "new_variable"
        /\ pc'[t] = "new_engine" => pc[t] = "new_variable"
    BY <1>3 DEF TypeOK, Step, Renew, Call, EnterBlock, LeaveBlock, CheckMp, NewVariable,
       NewSessionmaker, Connect, Release, Execute, Commit, PoolTimesOut, Goto, End
  <2>3. \A q \in Processes : Made(q)' = Made(q)
    BY <2>1 DEF Made
  <2> QED BY <1>o, <2>1, <2>2, <2>3, ClientConstants DEF Engines
<1> QED BY <1>1, <1>2, <1>3

LEMMA AtMostOne ==
  ASSUME Engines, NEW p \in Processes
  PROVE  Cardinality(Made(p)) <= 1
<1>1. CASE Made(p) = {}
  BY <1>1, FS_EmptySet
<1>2. CASE Made(p) # {}
  <2>1. PICK e : e \in Made(p)
    BY <1>2
  <2>2. Made(p) = {e}
    BY <2>1 DEF Engines, Made
  <2> QED BY <2>2, FS_Singleton
<1> QED BY <1>1, <1>2

\* With one thread per forked process, a process makes at most one engine.
THEOREM OneEngineCorrect == OneThreadPerFork => (Spec => []OneEngineEach)
<1> SUFFICES ASSUME OneThreadPerFork PROVE Spec => []OneEngineEach
  OBVIOUS
<1>1. TypeOK /\ Connections /\ Engines /\ [Next]_vars => Engines'
  <2>1. Engines /\ UNCHANGED vars => Engines'
    BY DEF Engines, Made, vars, object, locals
  <2> QED BY <2>1, NextIsStep, EnginesStep
<1>2. Engines => OneEngineEach
  BY AtMostOne DEF OneEngineEach, Made
<1>3. Spec => []Connections
  BY ConnectionsCorrect
<1> QED BY EnginesInit, <1>1, <1>2, <1>3, TypeCorrect, PTL DEF Spec
=============================================================================
