----------------------------- MODULE ModelDBClient -----------------------------
(***************************************************************************)
(* ModelDB: how the calls of one ModelDB object get their connections when  *)
(* the object is used by several threads and, after a fork, by several      *)
(* processes.  A forked process has a copy of the object, with the engine   *)
(* and the sockets of the process that created it, until _check_mp replaces *)
(* them.                                                                    *)
(*                                                                         *)
(* One call is execute, select, insert or insert_many: session() takes a    *)
(* connection of the engine's pool and gives it back, and the session then  *)
(* takes one of its own for the statement and gives it back at its commit.  *)
(* A caller may also open connection() itself and make calls inside it.     *)
(***************************************************************************)
EXTENDS Naturals, Sequences, FiniteSets

CONSTANTS
  Processes,  \* the process that created the object, and its forks
  Creator,    \* the process that created the object
  Threads,    \* the threads that use it
  ProcessOf,  \* the process of each thread
  Openers,    \* the threads that open connection() themselves
  PoolSize,   \* pool_size and max_overflow of an engine's pool together
  MaxFaults   \* bound on failing statements and on waits for the pool that time out

ASSUME ClientConstants ==
  /\ Creator \in Processes
  /\ ProcessOf \in [Threads -> Processes]
  /\ Openers \subseteq Threads
  /\ PoolSize \in Nat \ {0}
  /\ MaxFaults \in Nat

VARIABLES
  engines,      \* the engines created so far, each the process that created it
  pid,          \* per process: _pid of its copy of the object
  variable,     \* per process: _connection, the ContextVar; a number names it
  engine,       \* per process: engine, an index of engines
  sessionmaker, \* per process: the engine that _sessionmaker is bound to
  held,         \* per thread: the <<ContextVar, engine>> of connections in its context
  bind,         \* per thread: the engine that its session is bound to
  session,      \* per thread: the engine of the connection its session holds, or 0
  cleanup,      \* per thread: local variable cleanup of session()'s connection()
  block,        \* per thread: its own with-block of connection()
  pc,           \* per thread: the step it makes next
  faults        \* failures so far

object == <<engines, pid, variable, engine, sessionmaker>>
locals == <<held, bind, session, cleanup, block>>
vars   == <<object, locals, pc, faults>>

Labels == {"idle", "check", "new_pid", "new_variable", "new_engine", "new_sessionmaker",
           "connect", "release", "execute", "commit", "block"}

TypeOK ==
  /\ engines \in Seq(Processes)
  /\ pid \in [Processes -> Processes]
  /\ variable \in [Processes -> Nat]
  /\ engine \in [Processes -> DOMAIN engines]
  /\ sessionmaker \in [Processes -> DOMAIN engines]
  /\ held \in [Threads -> SUBSET (Nat \X DOMAIN engines)]
  /\ bind \in [Threads -> DOMAIN engines]
  /\ session \in [Threads -> {0} \cup DOMAIN engines]
  /\ cleanup \in [Threads -> BOOLEAN]
  /\ block \in [Threads -> {"none", "entering", "entered"}]
  /\ pc \in [Threads -> Labels]
  /\ faults \in 0..MaxFaults

\* The processes have been forked from the creator, which has its first engine.
Init ==
  /\ engines = <<Creator>>
  /\ pid = [p \in Processes |-> Creator]
  /\ variable = [p \in Processes |-> 0]
  /\ engine = [p \in Processes |-> 1]
  /\ sessionmaker = [p \in Processes |-> 1]
  /\ held = [t \in Threads |-> {}]
  /\ bind = [t \in Threads |-> 1]
  /\ session = [t \in Threads |-> 0]
  /\ cleanup = [t \in Threads |-> FALSE]
  /\ block = [t \in Threads |-> "none"]
  /\ pc = [t \in Threads |-> "idle"]
  /\ faults = 0

-----------------------------------------------------------------------------
Goto(t, label) == pc' = [pc EXCEPT ![t] = label]

\* The call ends, by return or by an exception.
End(t) == Goto(t, IF block[t] = "entered" THEN "block" ELSE "idle")

\* The connections in the context of thread t under the ContextVar of its process.
Current(t) == {h \in held[t] : h[1] = variable[ProcessOf[t]]}

\* The connections of engine e that the pool of process p has handed out.
HandedOut(p, e) ==
  LET mine == {t \in Threads : ProcessOf[t] = p}
  IN  Cardinality(UNION {{t} \X {h \in held[t] : h[2] = e} : t \in mine})
      + Cardinality({t \in mine : session[t] = e})

-----------------------------------------------------------------------------
(* Bugs that the properties are to notice: variants of operations below,    *)
(* each with one plausible mistake.  No specification uses them.             *)

\* The process id is not looked at.
CheckNothing(t) ==
  /\ pc[t] = "check"
  /\ Goto(t, "connect")
  /\ UNCHANGED <<object, locals, faults>>

\* The new engine is made, and _pid stays what it was.
NewPidForgotten(t) ==
  /\ pc[t] = "new_pid"
  /\ Goto(t, "new_variable")
  /\ Len(engines) < 4
  /\ UNCHANGED <<object, locals, faults>>

\* The session is not closed when the commit raises.
CommitKeepsSession(t) ==
  /\ pc[t] = "commit"
  /\ End(t)
  /\ \/ session' = [session EXCEPT ![t] = 0] /\ UNCHANGED faults
     \/ faults < MaxFaults /\ faults' = faults + 1 /\ UNCHANGED session
  /\ UNCHANGED <<object, held, bind, cleanup, block>>

\* The session is used inside connection().
ReleaseLater(t) ==
  /\ pc[t] = "release"
  /\ bind' = [bind EXCEPT ![t] = sessionmaker[ProcessOf[t]]]
  /\ Goto(t, "execute")
  /\ UNCHANGED <<object, held, session, cleanup, block, faults>>

-----------------------------------------------------------------------------
Call(t) ==
  /\ pc[t] \in {"idle", "block"}
  /\ Goto(t, "check")
  /\ UNCHANGED <<object, locals, faults>>

\* with model_db.connection(): ...
EnterBlock(t) ==
  /\ t \in Openers
  /\ pc[t] = "idle"
  /\ block' = [block EXCEPT ![t] = "entering"]
  /\ Goto(t, "check")
  /\ UNCHANGED <<object, held, bind, session, cleanup, faults>>

LeaveBlock(t) ==
  /\ pc[t] = "block"
  /\ held' = [held EXCEPT ![t] = @ \ Current(t)]
  /\ block' = [block EXCEPT ![t] = "none"]
  /\ Goto(t, "idle")
  /\ UNCHANGED <<object, bind, session, cleanup, faults>>

\* _check_mp
CheckMp(t) ==
  LET p == ProcessOf[t]
  IN  /\ pc[t] = "check"
      /\ Goto(t, IF pid[p] = p THEN "connect" ELSE "new_pid")
      /\ UNCHANGED <<object, locals, faults>>

\* _create_engine assigns _pid before anything else.
NewPid(t) ==
  /\ pc[t] = "new_pid"
  /\ pid' = [pid EXCEPT ![ProcessOf[t]] = ProcessOf[t]]
  /\ Goto(t, "new_variable")
  /\ UNCHANGED <<engines, variable, engine, sessionmaker, locals, faults>>

NewVariable(t) ==
  /\ pc[t] = "new_variable"
  /\ variable' = [variable EXCEPT ![ProcessOf[t]] = @ + 1]
  /\ Goto(t, "new_engine")
  /\ UNCHANGED <<engines, pid, engine, sessionmaker, locals, faults>>

NewEngine(t) ==
  /\ pc[t] = "new_engine"
  /\ engines' = Append(engines, ProcessOf[t])
  /\ engine' = [engine EXCEPT ![ProcessOf[t]] = Len(engines) + 1]
  /\ Goto(t, "new_sessionmaker")
  /\ UNCHANGED <<pid, variable, sessionmaker, locals, faults>>

NewSessionmaker(t) ==
  /\ pc[t] = "new_sessionmaker"
  /\ sessionmaker' = [sessionmaker EXCEPT ![ProcessOf[t]] = engine[ProcessOf[t]]]
  /\ Goto(t, "connect")
  /\ UNCHANGED <<engines, pid, variable, engine, locals, faults>>

\* connection(): the connection of the context, or else a new one from the pool.
Connect(t) ==
  LET p == ProcessOf[t]
  IN  /\ pc[t] = "connect"
      /\ \/ /\ Current(t) # {}
            /\ cleanup' = [cleanup EXCEPT ![t] = FALSE]
            /\ UNCHANGED held
         \/ /\ Current(t) = {}
            /\ HandedOut(p, engine[p]) < PoolSize
            /\ held' = [held EXCEPT ![t] = @ \cup {<<variable[p], engine[p]>>}]
            /\ cleanup' = [cleanup EXCEPT ![t] = TRUE]
      /\ IF block[t] = "entering"
         THEN Goto(t, "block") /\ block' = [block EXCEPT ![t] = "entered"]
         ELSE Goto(t, "release") /\ UNCHANGED block
      /\ UNCHANGED <<object, bind, session, faults>>

\* session() makes a session of the sessionmaker and returns it inside connection():
\* the connection is closed before the session is used.
Release(t) ==
  /\ pc[t] = "release"
  /\ bind' = [bind EXCEPT ![t] = sessionmaker[ProcessOf[t]]]
  /\ held' = [held EXCEPT ![t] = IF cleanup[t] THEN @ \ Current(t) ELSE @]
  /\ Goto(t, "execute")
  /\ UNCHANGED <<object, session, cleanup, block, faults>>

\* The session checks out a connection of the engine it is bound to.
Execute(t) ==
  /\ pc[t] = "execute"
  /\ HandedOut(ProcessOf[t], bind[t]) < PoolSize
  /\ session' = [session EXCEPT ![t] = bind[t]]
  /\ Goto(t, "commit")
  /\ UNCHANGED <<object, held, bind, cleanup, block, faults>>

\* The statement and the commit succeed, or raise; the session is closed anyway.
Commit(t) ==
  /\ pc[t] = "commit"
  /\ session' = [session EXCEPT ![t] = 0]
  /\ End(t)
  /\ UNCHANGED faults \/ (faults < MaxFaults /\ faults' = faults + 1)
  /\ UNCHANGED <<object, held, bind, cleanup, block>>

\* No connection came free for pool_timeout: TimeoutError.
PoolTimesOut(t) ==
  LET p == ProcessOf[t]
  IN  /\ \/ /\ pc[t] = "connect"
            /\ Current(t) = {}
            /\ HandedOut(p, engine[p]) = PoolSize
         \/ /\ pc[t] = "execute"
            /\ HandedOut(p, bind[t]) = PoolSize
      /\ faults < MaxFaults
      /\ faults' = faults + 1
      /\ End(t)
      /\ block' = [block EXCEPT ![t] = IF @ = "entering" THEN "none" ELSE @]
      /\ UNCHANGED <<object, held, bind, session, cleanup>>

Proceed(t) ==
  \/ CheckMp(t) \/ NewPid(t) \/ NewVariable(t) \/ NewEngine(t) \/ NewSessionmaker(t)
  \/ Connect(t) \/ Release(t) \/ Execute(t) \/ Commit(t)

Next ==
  \E t \in Threads :
    Call(t) \/ EnterBlock(t) \/ LeaveBlock(t) \/ Proceed(t) \/ PoolTimesOut(t)

Spec == Init /\ [][Next]_vars

\* Threads run on, and a thread that waits for the pool gets a free connection in
\* time (the queue of the pool is first come, first served).
FairSpec == Spec /\ \A t \in Threads : SF_vars(Proceed(t))

-----------------------------------------------------------------------------
\* A process uses no connection of another's engine: after a fork, two processes
\* would talk over one socket (db.py:97).
OwnEngine ==
  \A t \in Threads :
    /\ session[t] # 0 => engines[session[t]] = ProcessOf[t]
    /\ \A h \in held[t] : engines[h[2]] = ProcessOf[t]

\* A call gives back every connection it took, also when its statement raises.
NothingKept ==
  \A t \in Threads : pc[t] = "idle" => held[t] = {} /\ session[t] = 0

\* A process makes at most one engine besides the one it inherits (db.py:102).
OneEngineEach ==
  \A p \in Processes :
    Cardinality({e \in DOMAIN engines : engines[e] = p}) <= 1

\* Every call ends when a process has fewer open connection() blocks than its pool has
\* connections: no two calls wait for each other's connections, because none keeps one
\* while it waits for the next (db.py:149).
CallsEnd ==
  \A t \in Threads : pc[t] \notin {"idle", "block"} ~> pc[t] \in {"idle", "block"}
=============================================================================
