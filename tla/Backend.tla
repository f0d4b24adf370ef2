------------------------------- MODULE Backend -------------------------------
(***************************************************************************)
(* What lume_services/services/scheduling/backends/backend.py promises of  *)
(* run_and_return, whatever backend runs the flow: a call runs the flow    *)
(* once, and ends with an exception, or with results of tasks of that run. *)
(* Results are returned only of a run whose reference tasks succeeded, and *)
(* the result of a task that the caller named only if that task did.       *)
(***************************************************************************)
CONSTANTS
  Callers,
  Tasks,        \* tasks of the flow
  Reference     \* its reference tasks, which decide whether a run succeeds

VARIABLES
  state,        \* per caller: "idle", "running" or "returned"
  named,        \* the tasks that the call named; {} if it named none
  succeeded,    \* the tasks of its run that have succeeded
  answered      \* the tasks whose results it has been given

vars == <<state, named, succeeded, answered>>

TypeOK ==
  /\ state \in [Callers -> {"idle", "running", "returned"}]
  /\ named \in [Callers -> SUBSET Tasks]
  /\ succeeded \in [Callers -> SUBSET Tasks]
  /\ answered \in [Callers -> SUBSET Tasks]

Init ==
  /\ state = [c \in Callers |-> "idle"]
  /\ named = [c \in Callers |-> {}]
  /\ succeeded = [c \in Callers |-> {}]
  /\ answered = [c \in Callers |-> {}]

\* run_and_return is called, with arguments that it accepts.
Call(c, tasks) ==
  /\ state[c] # "running"
  /\ state' = [state EXCEPT ![c] = "running"]
  /\ named' = [named EXCEPT ![c] = tasks]
  /\ succeeded' = [succeeded EXCEPT ![c] = {}]
  /\ answered' = [answered EXCEPT ![c] = {}]

TaskSucceeds(c, task) ==
  /\ state[c] = "running"
  /\ succeeded' = [succeeded EXCEPT ![c] = @ \cup {task}]
  /\ UNCHANGED <<state, named, answered>>

Return(c) ==
  /\ state[c] = "running"
  /\ Reference \subseteq succeeded[c]
  /\ named[c] \subseteq succeeded[c]
  /\ answered' = [answered EXCEPT ![c] = IF named[c] = {} THEN Tasks ELSE named[c]]
  /\ state' = [state EXCEPT ![c] = "returned"]
  /\ UNCHANGED <<named, succeeded>>

\* An exception, or the end of a call of run, which promises no results; also
\* while it does not run one.
Leave(c) ==
  /\ state' = [state EXCEPT ![c] = "idle"]
  /\ named' = [named EXCEPT ![c] = {}]
  /\ succeeded' = [succeeded EXCEPT ![c] = {}]
  /\ answered' = [answered EXCEPT ![c] = {}]

Next ==
  \E c \in Callers :
    \/ \E tasks \in SUBSET Tasks : Call(c, tasks)
    \/ \E task \in Tasks : TaskSucceeds(c, task)
    \/ Return(c)
    \/ Leave(c)

Spec == Init /\ [][Next]_vars
=============================================================================
