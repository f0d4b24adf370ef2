-------------------------------- MODULE FlowRun --------------------------------
(***************************************************************************)
(* Running a flow and getting its results: ServerBackend.run and           *)
(* run_and_return, under Flow.run_and_return and Model.run_and_return, and  *)
(* what the flow's SaveDBResult tasks leave in the results database.        *)
(*                                                                         *)
(* Three parties act at their own pace: the callers (Python processes that  *)
(* create a run, watch it until it ends or the timeout passes, and then     *)
(* read the run and its tasks back in separate requests), the agent that    *)
(* executes a run's tasks, and people who cancel runs.  The Prefect server  *)
(* and MongoDB are what they share.                                         *)
(***************************************************************************)
EXTENDS Naturals, Sequences, FiniteSets

CONSTANTS
  Callers,        \* processes that run flows
  Tasks,          \* slugs of the tasks of the flow
  ReferenceTasks, \* the tasks that decide whether the flow run succeeds
  SavingTasks,    \* the SaveDBResult tasks: their value is Result.unique_rep
  FileTasks,      \* the SaveFile tasks: their value is a File representation
  EmptyTasks,     \* tasks of which Prefect keeps no result location
  TaskNames,      \* values of task_name, each as the set of slugs that contain it
  Inputs,         \* values of the parameters
  None,           \* Python's None
  MaxRuns,        \* bound on the flow runs
  MaxRetries,     \* max_retries of the tasks
  MaxFaults       \* bound on failing requests and on callers that die

ASSUME FlowConstants ==
  /\ ReferenceTasks \cup SavingTasks \cup FileTasks \cup EmptyTasks \subseteq Tasks
  /\ SavingTasks \cap (FileTasks \cup EmptyTasks) = {} /\ FileTasks \cap EmptyTasks = {}
  /\ TaskNames \subseteq SUBSET Tasks
  /\ None \notin TaskNames
  /\ MaxRuns \in Nat /\ MaxRetries \in Nat /\ MaxFaults \in Nat

\* What a task of a run with parameters i returns.  A Result's unique_hash is taken
\* over inputs, outputs and flow_id: the same parameters give the same hash.
Values == [task: Tasks, input: Inputs]

Calls == [input: Inputs,
          task_name: TaskNames \cup {None},
          cancel_on_timeout: BOOLEAN,
          through: {"Flow", "Model"}]   \* Flow.run_and_return, Model.run_and_return

RunStates  == {"Scheduled", "Running", "Cancelling", "Cancelled", "Success", "Failed"}
\* "Inserted": a SaveDBResult task that runs, between its insert and its return.
TaskStates == {"Pending", "Running", "Inserted", "Success", "Failed"}
Finished   == {"Cancelled", "Success", "Failed"}

Labels == {"idle", "watch", "cancel", "view", "collect", "parse", "load"}

Outcomes == {"None", "Returned", "Loaded", "RuntimeError", "ClientError",
             "FlowFailedError", "TaskNotCompletedError", "TaskNotInFlowError",
             "EmptyResultError", "TypeError", "AttributeError", "ValueError"}

\* What a caller has read: values of some of the tasks.
ResultSets == UNION {[S -> Values \cup {None}] : S \in SUBSET Tasks}
NoResults  == [t \in {} |-> None]

VARIABLES
  runs,      \* the flow runs of the Prefect server; a flow_run_id is an index here
  documents, \* per Result hash: how many documents of the collection carry it
  call,      \* per caller: the arguments of its last call
  run,       \* per caller: flow_run_id of its last call, 0 if it has none
  pc,        \* per caller: the step it makes next
  outcome,   \* per caller: how its last call ended
  results,   \* per caller: the results it has read, a function from slugs
  faults     \* failures so far

callers == <<call, run, pc, outcome, results>>
vars    == <<runs, documents, callers, faults>>

FlowRuns == [input: Inputs,
             state: RunStates,
             tasks: [Tasks -> TaskStates],
             retries: 0..MaxRetries,
             stoppable: BOOLEAN]   \* created by a call with cancel_on_timeout

TypeOK ==
  /\ runs \in Seq(FlowRuns)
  /\ documents \in [Values -> Nat]
  /\ call \in [Callers -> Calls \cup {None}]
  /\ run \in [Callers -> Nat]
  /\ pc \in [Callers -> Labels]
  /\ outcome \in [Callers -> Outcomes]
  /\ results \in [Callers -> ResultSets]
  /\ faults \in Nat

Init ==
  /\ runs = <<>>
  /\ documents = [v \in Values |-> 0]
  /\ call = [c \in Callers |-> None]
  /\ run = [c \in Callers |-> 0]
  /\ pc = [c \in Callers |-> "idle"]
  /\ outcome = [c \in Callers |-> "None"]
  /\ results = [c \in Callers |-> NoResults]
  /\ faults = 0

-----------------------------------------------------------------------------
(* Reading and writing the state.                                           *)

State(r) == runs[r].state

ValueOf(r, t) ==
  IF t \in EmptyTasks THEN None ELSE [task |-> t, input |-> runs[r].input]

SetState(r, s) == runs' = [runs EXCEPT ![r].state = s]

Goto(c, label) == pc' = [pc EXCEPT ![c] = label]

\* The call ends with outcome o, by return or by an exception.
End(c, o) ==
  /\ Goto(c, "idle")
  /\ outcome' = [outcome EXCEPT ![c] = o]

-----------------------------------------------------------------------------
(* Bugs that the properties are to notice: variants of operations below,    *)
(* each with one plausible mistake.  No specification uses them.             *)

\* A result is kept under the name that was asked for, not under its slug.
CollectByName(c) ==
  /\ pc[c] = "collect"
  /\ \A t \in Tasks : runs[run[c]].tasks[t] = "Success"
  /\ \E t \in Tasks :
       results' = [results EXCEPT ![c] = [n \in {call[c].task_name} |-> ValueOf(run[c], t)]]
  /\ End(c, "Returned")
  /\ UNCHANGED <<runs, documents, call, run, faults>>

\* The state of the run is checked, the states of its tasks are not.
CollectUnchecked(c) ==
  /\ pc[c] = "collect"
  /\ call[c].task_name # {}
  /\ LET named == IF call[c].task_name = None THEN Tasks ELSE call[c].task_name
     IN  results' = [results EXCEPT ![c] = [t \in named |-> ValueOf(run[c], t)]]
  /\ End(c, "Returned")
  /\ UNCHANGED <<runs, documents, call, run, faults>>

\* The results are those of the latest run of the flow.
CollectLatest(c) ==
  LET r == Len(runs)
  IN  /\ pc[c] = "collect"
      /\ call[c].task_name # {}
      /\ \A t \in Tasks : runs[r].tasks[t] = "Success"
      /\ LET named == IF call[c].task_name = None THEN Tasks ELSE call[c].task_name
         IN  results' = [results EXCEPT ![c] = [t \in named |-> ValueOf(r, t)]]
      /\ End(c, "Returned")
      /\ UNCHANGED <<runs, documents, call, run, faults>>

\* SaveDBResult returns the representation and leaves the insert for later.
InsertLater(r, t) ==
  /\ State(r) \in {"Running", "Cancelling"}
  /\ t \in SavingTasks
  /\ runs[r].tasks[t] = "Running"
  /\ runs' = [runs EXCEPT ![r].tasks[t] = "Inserted"]
  /\ UNCHANGED <<documents, callers, faults>>

\* The timeout is raised at once, and nothing is cancelled.
TimeOutWithoutCancel(c) ==
  /\ pc[c] = "watch"
  /\ End(c, "RuntimeError")
  /\ UNCHANGED <<runs, documents, call, run, results, faults>>

\* The clock of the timeout starts with the run.
TimeOutOfStartedRun(c) ==
  /\ pc[c] = "watch"
  /\ State(run[c]) # "Scheduled"
  /\ \/ /\ call[c].cancel_on_timeout
        /\ Goto(c, "cancel")
        /\ UNCHANGED outcome
     \/ /\ ~call[c].cancel_on_timeout
        /\ End(c, "RuntimeError")
  /\ UNCHANGED <<runs, documents, call, run, results, faults>>

\* Only a run that no agent has started is cancelled.
CancelScheduledRun(c) ==
  /\ pc[c] = "cancel"
  /\ IF State(run[c]) = "Scheduled" THEN SetState(run[c], "Cancelled")
                                    ELSE UNCHANGED runs
  /\ End(c, "RuntimeError")
  /\ UNCHANGED <<documents, call, run, results, faults>>

-----------------------------------------------------------------------------
(* The calls of a caller.                                                   *)

\* client.create_flow_run, without an idempotency key: a new run each time.
NewRun(i, stoppable) ==
  /\ Len(runs) < MaxRuns
  /\ runs' = Append(runs, [input |-> i, state |-> "Scheduled",
                           tasks |-> [t \in Tasks |-> "Pending"],
                           retries |-> 0, stoppable |-> stoppable])

\* ServerBackend.run: the run is created and left to itself.
Run(c, i) ==
  /\ pc[c] = "idle"
  /\ NewRun(i, FALSE)
  /\ UNCHANGED <<documents, callers, faults>>

\* The first half of run_and_return.  Model.run_and_return hands no keyword on, so
\* that cancel_on_timeout has its default there.
CreateRun(c, k) ==
  /\ pc[c] = "idle"
  /\ k.through = "Model" => k.cancel_on_timeout
  /\ NewRun(k.input, k.cancel_on_timeout)
  /\ call' = [call EXCEPT ![c] = k]
  /\ run' = [run EXCEPT ![c] = Len(runs) + 1]
  /\ outcome' = [outcome EXCEPT ![c] = "None"]
  /\ results' = [results EXCEPT ![c] = NoResults]
  /\ Goto(c, "watch")
  /\ UNCHANGED <<documents, faults>>

\* The request fails, or it succeeds and its answer is lost: ClientError.
CreateFails(c, k) ==
  /\ pc[c] = "idle"
  /\ k.through = "Model" => k.cancel_on_timeout
  /\ faults < MaxFaults
  /\ faults' = faults + 1
  /\ UNCHANGED runs \/ NewRun(k.input, k.cancel_on_timeout)
  /\ call' = [call EXCEPT ![c] = k]
  /\ run' = [run EXCEPT ![c] = 0]
  /\ results' = [results EXCEPT ![c] = NoResults]
  /\ End(c, "ClientError")
  /\ UNCHANGED documents

\* watch_flow_run ends when it reads a finished state.
WatchEnds(c) ==
  /\ pc[c] = "watch"
  /\ State(run[c]) \in Finished
  /\ Goto(c, "view")
  /\ UNCHANGED <<runs, documents, call, run, outcome, results, faults>>

\* max_duration has passed: RuntimeError.  The state was read before the clock, so
\* that the run may just have finished.
WatchTimesOut(c) ==
  /\ pc[c] = "watch"
  /\ \/ /\ call[c].cancel_on_timeout
        /\ Goto(c, "cancel")
        /\ UNCHANGED outcome
     \/ /\ ~call[c].cancel_on_timeout
        /\ End(c, "RuntimeError")
  /\ UNCHANGED <<runs, documents, call, run, results, faults>>

\* client.cancel_flow_run: a finished run stays as it is, one that no agent has
\* started is cancelled at once, another one by its agent.
Cancelled(r) ==
  \/ State(r) = "Scheduled" /\ SetState(r, "Cancelled")
  \/ State(r) = "Running" /\ SetState(r, "Cancelling")
  \/ State(r) \notin {"Scheduled", "Running"} /\ UNCHANGED runs

\* The handler of the RuntimeError cancels the run and raises the error again.
CancelRun(c) ==
  /\ pc[c] = "cancel"
  /\ Cancelled(run[c])
  /\ End(c, "RuntimeError")
  /\ UNCHANGED <<documents, call, run, results, faults>>

\* FlowRunView.from_flow_run_id, and the check of its state: a run that was
\* cancelled is not one that is_failed.
ViewRun(c) ==
  /\ pc[c] = "view"
  /\ \/ /\ State(run[c]) = "Failed"
        /\ End(c, "FlowFailedError")
     \/ /\ State(run[c]) # "Failed"
        /\ Goto(c, "collect")
        /\ UNCHANGED outcome
  /\ UNCHANGED <<runs, documents, call, run, results, faults>>

Unsuccessful(r) == {t \in Tasks : runs[r].tasks[t] # "Success"}

\* The tasks asked for: those whose slug contains task_name.
Selected(c) ==
  IF call[c].task_name = None THEN Tasks ELSE call[c].task_name

\* A single task was asked for and it has no result.
NothingSelected(c) ==
  /\ call[c].task_name # None
  /\ \E t \in EmptyTasks : Selected(c) = {t}

\* get_all_task_runs: one request for the tasks of the run and their results.
CollectTasks(c) ==
  /\ pc[c] = "collect"
  /\ Unsuccessful(run[c]) = {}
  /\ Selected(c) # {} \/ call[c].task_name = None
  /\ ~NothingSelected(c)
  /\ results' = [results EXCEPT ![c] = [t \in Selected(c) |-> ValueOf(run[c], t)]]
  /\ \/ call[c].through = "Flow" /\ End(c, "Returned")
     \/ call[c].through = "Model" /\ Goto(c, "parse") /\ UNCHANGED outcome
  /\ UNCHANGED <<runs, documents, call, run, faults>>

CollectFails(c) ==
  /\ pc[c] = "collect"
  /\ \/ Unsuccessful(run[c]) # {} /\ End(c, "TaskNotCompletedError")
     \/ /\ Unsuccessful(run[c]) = {}
        /\ \/ call[c].task_name = {} /\ End(c, "TaskNotInFlowError")
           \/ NothingSelected(c) /\ End(c, "EmptyResultError")
  /\ UNCHANGED <<runs, documents, call, run, results, faults>>

\* Model.run_and_return: parse_result of the one value, or of each.  It calls
\* get_results with a keyword that method does not have (TypeError), and .get of a
\* value that need not be a dictionary (AttributeError); the first one met ends it.
ParseErrors(c) ==
  LET named == DOMAIN results[c]
      one   == call[c].task_name # None /\ Cardinality(named) = 1
  IN  {o \in {"TypeError", "AttributeError"} :
         \/ o = "TypeError" /\ named \cap SavingTasks # {}
         \/ o = "AttributeError" /\ ~one /\ named \ (SavingTasks \cup FileTasks) # {}}

ParseResults(c) ==
  /\ pc[c] = "parse"
  /\ \/ /\ ParseErrors(c) = {}
        /\ End(c, "Returned")
        /\ UNCHANGED results
     \/ /\ \E o \in ParseErrors(c) : End(c, o)
        /\ results' = [results EXCEPT ![c] = NoResults]
  /\ UNCHANGED <<runs, documents, call, run, faults>>

\* LoadDBResult.run with a representation that the call returned ...
OpenResult(c) ==
  /\ pc[c] = "idle"
  /\ outcome[c] = "Returned"
  /\ DOMAIN results[c] \cap SavingTasks # {}
  /\ Goto(c, "load")
  /\ UNCHANGED <<runs, documents, call, run, outcome, results, faults>>

\* ... and Result.load_from_query: the query must find exactly one document.
LoadResult(c) ==
  /\ pc[c] = "load"
  /\ \E t \in DOMAIN results[c] \cap SavingTasks :
       End(c, IF documents[results[c][t]] = 1 THEN "Loaded" ELSE "ValueError")
  /\ UNCHANGED <<runs, documents, call, run, results, faults>>

\* A request to Prefect or MongoDB fails, or its answer is lost: only a RuntimeError
\* makes run_and_return cancel the run.
RequestFails(c) ==
  /\ pc[c] \in {"watch", "cancel", "view", "collect", "load"}
  /\ faults < MaxFaults
  /\ faults' = faults + 1
  /\ UNCHANGED runs \/ (pc[c] = "cancel" /\ Cancelled(run[c]))
  /\ End(c, "ClientError")
  /\ UNCHANGED <<documents, call, run, results>>

\* The process of the caller dies; a new one takes its place.
Exit(c) ==
  /\ \/ pc[c] = "idle" /\ UNCHANGED faults
     \/ pc[c] # "idle" /\ faults < MaxFaults /\ faults' = faults + 1
  /\ End(c, "None")
  /\ call' = [call EXCEPT ![c] = None]
  /\ run' = [run EXCEPT ![c] = 0]
  /\ results' = [results EXCEPT ![c] = NoResults]
  /\ UNCHANGED <<runs, documents>>

-----------------------------------------------------------------------------
(* The agent, which executes a run, and the people who cancel one.          *)

SetTask(r, t, s) == runs' = [runs EXCEPT ![r].tasks[t] = s]

StartRun(r) ==
  /\ State(r) = "Scheduled"
  /\ SetState(r, "Running")
  /\ UNCHANGED <<documents, callers, faults>>

StartTask(r, t) ==
  /\ State(r) = "Running"
  /\ runs[r].tasks[t] = "Pending"
  /\ SetTask(r, t, "Running")
  /\ UNCHANGED <<documents, callers, faults>>

\* SaveDBResult.run: Result.insert; no index refuses a second document.
InsertResult(r, t) ==
  /\ State(r) \in {"Running", "Cancelling"}
  /\ t \in SavingTasks
  /\ runs[r].tasks[t] = "Running"
  /\ SetTask(r, t, "Inserted")
  /\ documents' = [documents EXCEPT ![ValueOf(r, t)] = @ + 1]
  /\ UNCHANGED <<callers, faults>>

\* The task has returned, and its value is kept: for SaveDBResult, unique_rep.
TaskSucceeds(r, t) ==
  /\ State(r) \in {"Running", "Cancelling"}
  /\ runs[r].tasks[t] = IF t \in SavingTasks THEN "Inserted" ELSE "Running"
  /\ SetTask(r, t, "Success")
  /\ UNCHANGED <<documents, callers, faults>>

\* The task raises, times out, or its process is lost, before or after the insert.
TaskFails(r, t) ==
  /\ State(r) \in {"Running", "Cancelling"}
  /\ runs[r].tasks[t] \in {"Running", "Inserted"}
  /\ SetTask(r, t, "Failed")
  /\ UNCHANGED <<documents, callers, faults>>

RetryTask(r, t) ==
  /\ State(r) = "Running"
  /\ runs[r].tasks[t] = "Failed"
  /\ runs[r].retries < MaxRetries
  /\ runs' = [runs EXCEPT ![r].tasks[t] = "Pending", ![r].retries = @ + 1]
  /\ UNCHANGED <<documents, callers, faults>>

FinishRun(r) ==
  /\ State(r) = "Running"
  /\ \A t \in Tasks : runs[r].tasks[t] \in {"Success", "Failed"}
  /\ SetState(r, IF \A t \in ReferenceTasks : runs[r].tasks[t] = "Success"
                 THEN "Success" ELSE "Failed")
  /\ UNCHANGED <<documents, callers, faults>>

AgentCancels(r) ==
  /\ State(r) = "Cancelling"
  /\ SetState(r, "Cancelled")
  /\ UNCHANGED <<documents, callers, faults>>

UserCancels(r) ==
  /\ State(r) \in {"Scheduled", "Running"}
  /\ Cancelled(r)
  /\ UNCHANGED <<documents, callers, faults>>

-----------------------------------------------------------------------------
\* What a caller in the middle of a call does next.
Proceed(c) ==
  \/ WatchEnds(c) \/ WatchTimesOut(c) \/ CancelRun(c) \/ ViewRun(c)
  \/ CollectTasks(c) \/ CollectFails(c) \/ ParseResults(c) \/ LoadResult(c)

Next ==
  \/ \E c \in Callers :
       \/ \E i \in Inputs : Run(c, i)
       \/ \E k \in Calls : CreateRun(c, k) \/ CreateFails(c, k)
       \/ Proceed(c) \/ OpenResult(c) \/ RequestFails(c) \/ Exit(c)
  \/ \E r \in DOMAIN runs :
       \/ StartRun(r) \/ FinishRun(r) \/ AgentCancels(r) \/ UserCancels(r)
       \/ \E t \in Tasks : \/ StartTask(r, t) \/ InsertResult(r, t)
                           \/ TaskSucceeds(r, t) \/ TaskFails(r, t) \/ RetryTask(r, t)

Spec == Init /\ [][Next]_vars

\* A caller's process runs on, and an agent that has started a run learns that it is
\* to be cancelled.  Nothing makes an agent start or finish a run.
Fairness ==
  /\ \A c \in Callers : WF_vars(Proceed(c))
  /\ \A r \in 1..MaxRuns : WF_vars(r \in DOMAIN runs /\ AgentCancels(r))

FairSpec == Spec /\ Fairness

-----------------------------------------------------------------------------
(* Properties.                                                              *)

\* A call returns only results of its own run, each of a task that succeeded, and
\* all that were asked for: a run that a person cancelled, or that succeeded with a
\* failed task beside its reference tasks, delivers nothing (server.py:369).
ReturnedComplete ==
  \A c \in Callers : outcome[c] = "Returned" =>
    /\ State(run[c]) \in Finished
    /\ DOMAIN results[c] =
         IF call[c].task_name = None THEN Tasks ELSE call[c].task_name
    /\ \A t \in DOMAIN results[c] :
         /\ runs[run[c]].tasks[t] = "Success"
         /\ results[c][t] # None => results[c][t].input = call[c].input

\* The representation that a call returns is one of a stored document: SaveDBResult
\* inserts before it returns (tasks/db.py:210), whatever retries and crashes.
ReturnedStored ==
  \A c \in Callers : outcome[c] = "Returned" =>
    \A t \in DOMAIN results[c] \cap SavingTasks : documents[results[c][t]] > 0

\* Nobody leaves a run behind without a failure: as many runs of calls with
\* cancel_on_timeout go on unwatched as requests have failed or callers have died
\* (server.py:348).
Unwatched ==
  {r \in DOMAIN runs :
     /\ runs[r].stoppable
     /\ State(r) \in {"Scheduled", "Running"}
     /\ \A c \in Callers : ~(run[c] = r /\ pc[c] \in {"watch", "cancel"})}

UnwatchedBounded == Cardinality(Unwatched) <= faults

\* Every call ends, with whatever outcome: the timeout bounds the wait for a run that
\* no agent ever starts (server.py:345).
CallsReturn == \A c \in Callers : pc[c] # "idle" ~> pc[c] = "idle"

\* A run whose caller gave up after cancelling it comes to an end (server.py:350).
GivenUpRunsEnd ==
  \A r \in 1..MaxRuns :
    (\E c \in Callers : /\ run[c] = r
                        /\ outcome[c] = "RuntimeError"
                        /\ call[c].cancel_on_timeout)
    ~> (r \in DOMAIN runs /\ State(r) \in Finished)

\* What Backend sees of a caller: what a call in progress has read counts as answered
\* when it has returned.
Calling(c) == pc[c] \in {"watch", "cancel", "view", "collect", "parse"}

Phase(c) ==
  IF Calling(c) THEN "running" ELSE IF DOMAIN results[c] # {} THEN "returned" ELSE "idle"

NamedTasks(c) ==
  IF Phase(c) = "idle" \/ call[c].task_name = None THEN {} ELSE call[c].task_name

SucceededTasks(c) == IF Phase(c) = "idle" THEN {} ELSE Tasks \ Unsuccessful(run[c])

Abstract ==
  INSTANCE Backend WITH
    Reference <- ReferenceTasks,
    state <- [c \in Callers |-> Phase(c)],
    named <- [c \in Callers |-> NamedTasks(c)],
    succeeded <- [c \in Callers |-> SucceededTasks(c)],
    answered <- [c \in Callers |-> IF Calling(c) THEN {} ELSE DOMAIN results[c]]

\* The server backend keeps what backend.py promises of any: what a call returns are
\* results of tasks that succeeded in the one run that the call created, whatever the
\* agent, people and other callers do in between (server.py:273).
ImplementsBackend == Abstract!Spec
=============================================================================
