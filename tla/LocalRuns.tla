------------------------------ MODULE LocalRuns ------------------------------
(***************************************************************************)
(* Flows that run in the process of their caller: Flow.run and             *)
(* run_and_return on services/scheduling/backends/local.py, the tasks that *)
(* configure, save and load inside of the flow, and what becomes of the    *)
(* results.  The threads of the process share the globals that             *)
(* Configuration describes, and each task looks its service up in them     *)
(* when it runs: a flow may save in one database and load in another.      *)
(*                                                                         *)
(* The flow is the one of the docs: check_local_execution,                 *)
(* configure_lume_services, prepare_lume_model_variables, a task that      *)
(* makes a Result, SaveDBResult and LoadDBResult.  Tasks run one at a      *)
(* time, each once.                                                        *)
(***************************************************************************)
EXTENDS Configuration, GenericResult, Sequences, SequencesExt, Functions

CONSTANTS
  Reference,     \* the tasks that decide whether a run of the flow succeeds
  SaveOptions,   \* the keywords that the script gives SaveDBResult
  Variables,     \* the variables of the model: their names, and their defaults
  Parameters,    \* what a run is given: the values of variables, as inputs, and
                 \* what predict makes of them
  Calls,         \* per thread: the calls of runs that it makes
  MaxCalls,      \* bound on the calls of each thread
  MaxFaults      \* bound on failing inserts

FlowTasks == <<"check", "configure", "prepare", "predict", "save", "load">>
Tasks == ToSet(FlowTasks)
UpstreamOf == [check |-> {}, configure |-> {}, prepare |-> {},
               predict |-> {"configure", "prepare"},
               save |-> {"configure", "predict"}, load |-> {"save"}]

\* What may be wrong with a call: the flow has not been loaded, the working
\* directory is not there, or the flow has no such parameters.
Mistakes == {"none", "not_loaded", "no_directory", "parameters"}

ASSUME LocalRunAssumption ==
  /\ Reference \subseteq Tasks
  /\ \A t \in Threads : \A call \in Calls[t] :
       /\ call.through \in {"run", "run_and_return"} /\ call.of \in {"Flow", "Model"}
       /\ call.parameters \in Parameters /\ call.mistake \in Mistakes
       /\ call.attribute_index \in {"whole", "empty"}
  /\ \A p \in Parameters : IsGiven(p)
  /\ IsDictionary(Variables)
  /\ MaxCalls \in [Threads -> Nat] /\ MaxFaults \in Nat

\* The constructors of the tasks give some options a default, by their truth:
\* an option that is given but false gets the default and stays in the keywords,
\* so that Task.__init__ gets it twice.
SaveDBResult == [log_stdout |-> "True", name |-> "save_db_result", result |-> "location"]
LoadDBResult == [log_stdout |-> "True", name |-> "load_db_result"]
SaveFile == [log_stdout |-> "True", name |-> "save_file", result |-> "location"]
LoadFile == [log_stdout |-> "True", name |-> "load_file"]

TaskRaises(defaults, options) ==
  \E option \in DOMAIN options \cap DOMAIN defaults :
     options[option] \in {"False", "None", ""}
TaskOptions(defaults, options) == Merged(options, defaults)

ASSUME FlowIsBuilt == ~ TaskRaises(SaveDBResult, SaveOptions)

NameOf == [check |-> "check_local_execution", configure |-> "configure_lume_services",
           prepare |-> "prepare_lume_model_variables", predict |-> "predict",
           save |-> TaskOptions(SaveDBResult, SaveOptions).name,
           load |-> TaskOptions(LoadDBResult, <<>>).name]
get_tasks(name) == {task \in Tasks : NameOf[task] = name}

VARIABLES
  documents,   \* the documents of MongoDB, in the order of their ids
  doing,       \* per thread: "idle", "configure", "run" or "query"
  run,         \* per thread: its run of the flow, and the last one while that is
               \* what it has returned results of, else NoRun
  answer,      \* per thread: the tasks whose results the call has returned
  outcome,     \* per thread: how the last call ended
  calls, faults

runVars == <<documents, doing, run, answer, outcome, calls, faults>>

\* The run that call k begins: the place in FlowTasks that it has come to, the
\* states of its tasks, the Result that predict makes, and the database that
\* SaveDBResult inserts it into.
NewRun(k) ==
  [call |-> k, next |-> 1, states |-> [task \in Tasks |-> "Pending"],
   result |-> None, savedIn |-> None]

NoRun ==
  [call |-> None, next |-> 0, states |-> [task \in Tasks |-> "Pending"],
   result |-> None, savedIn |-> None]

\* The documents that a query by hash finds.
Matching(db, collection, hash) ==
  {i \in DOMAIN documents :
     /\ documents[i].db = db /\ documents[i].collection = collection
     /\ documents[i].of.unique_hash = hash}

LocalInit ==
  /\ ConfigInit
  /\ documents = <<>>
  /\ doing = [t \in Threads |-> "idle"]
  /\ run = [t \in Threads |-> NoRun]
  /\ answer = [t \in Threads |-> {}]
  /\ outcome = [t \in Threads |-> "None"]
  /\ calls = [t \in Threads |-> 0] /\ faults = 0

-----------------------------------------------------------------------------
(* Calls of configure.                                                      *)

\* A thread that does nothing makes its next call.
Calling(t) ==
  /\ doing[t] = "idle"
  /\ calls[t] < MaxCalls[t]
  /\ calls' = [calls EXCEPT ![t] = @ + 1]

Does(t, what) == doing' = [doing EXCEPT ![t] = what]

CallConfigure(t) ==
  /\ Calling(t)
  /\ Does(t, "configure")
  /\ \E given \in Settings \cup {None} :
        Configure(t, given) \/ NotConfigured(t, given)
  /\ UNCHANGED <<documents, run, answer, outcome, faults>>

\* The steps of configure, of a call as well as of the task of a flow.
ConfigureGoesOn(t) ==
  /\ SetContext(t) \/ SetSettings(t)
  /\ UNCHANGED runVars

ConfigureEnds(t) ==
  /\ doing[t] = "configure"
  /\ ConfigureReturned(t)
  /\ Does(t, "idle")
  /\ UNCHANGED <<documents, run, answer, outcome, calls, faults>>

-----------------------------------------------------------------------------
(* Flow.run and Flow.run_and_return, SchedulingService and LocalBackend, up *)
(* to the first task.                                                       *)

\* What create_project, register_flow and load_flow of LocalBackend raise, and so
\* those of SchedulingService.
OnServerOnly == "LocalBackendError"
load_flow == OnServerOnly

\* What a call with a mistake raises.  run_and_return reads e.message of whatever
\* flow.run has raised, which the ValueError for unknown parameters does not have.
ErrorOf(k) ==
  IF k.mistake = "not_loaded" THEN load_flow
  ELSE IF k.mistake = "no_directory" THEN "FileNotFoundError"
  ELSE IF k.through = "run" THEN "ValueError" ELSE "AttributeError"

\* Flow.run and run_and_return, for a context whose backend is local; without a
\* context what is injected is the marker, which has no attribute backend.
Begin(t, k) ==
  LET error == IF context = None THEN "AttributeError"
               ELSE IF k.mistake # "none" THEN ErrorOf(k) ELSE "None"
  IN /\ context # None => BackendOf[context] = "local"
     /\ answer' = [answer EXCEPT ![t] = {}]
     /\ outcome' = [outcome EXCEPT ![t] = error]
     /\ run' = [run EXCEPT ![t] = IF error = "None" THEN NewRun(k) ELSE NoRun]
     /\ Does(t, IF error = "None" THEN "run" ELSE "idle")

\* create_project and register_flow of SchedulingService, which Flow.register and
\* Model.store_deployment end in: they need a server.
Register(t) ==
  /\ Calling(t)
  /\ context # None => BackendOf[context] = "local"
  /\ outcome' = [outcome EXCEPT ![t] =
                   IF context = None THEN "AttributeError" ELSE OnServerOnly]
  /\ UNCHANGED <<configVars, documents, doing, run, answer, faults>>

Run(t, k) ==
  /\ Calling(t)
  /\ k.of = "Flow"
  /\ Begin(t, k)
  /\ UNCHANGED <<configVars, documents, faults>>

-----------------------------------------------------------------------------
(* The tasks, one at a time.                                                *)

AtTask(t, task) ==
  /\ doing[t] = "run"
  /\ run[t].next \in DOMAIN FlowTasks
  /\ FlowTasks[run[t].next] = task

Ready(t, task) ==
  /\ AtTask(t, task)
  /\ \A upstream \in UpstreamOf[task] : run[t].states[upstream] = "Success"

\* run r after its task has ended in the given state
Ended(r, task, state) == [r EXCEPT !.states[task] = state, !.next = @ + 1]

Fails(t, task) ==
  /\ run' = [run EXCEPT ![t] = Ended(run[t], task, "Failed")]
  /\ UNCHANGED <<configVars, doing, answer, outcome, calls>>

\* A task of which one upstream has failed fails, and is not run: TriggerFailed.
TriggerFailed(t) ==
  \E task \in Tasks :
     /\ AtTask(t, task) /\ ~ Ready(t, task)
     /\ Fails(t, task)
     /\ UNCHANGED <<documents, faults>>

Succeeds(t, task) ==
  /\ run' = [run EXCEPT ![t] = Ended(run[t], task, "Success")]
  /\ UNCHANGED <<configVars, doing, answer, outcome, calls>>

\* check_local_execution reads _settings, which a first configure of another
\* thread, or one that has raised, may not have assigned although its context is
\* injected.
CheckLocalExecution(t) ==
  /\ Ready(t, "check")
  /\ IF settings = None THEN Fails(t, "check") ELSE Succeeds(t, "check")
  /\ UNCHANGED <<documents, faults>>

\* configure_lume_services: config.configure() inside of the flow.
ConfigureTask(t) ==
  /\ Ready(t, "configure")
  /\ Configure(t, None) \/ NotConfigured(t, None)
  /\ UNCHANGED runVars

ConfigureTaskEnds(t) ==
  /\ Ready(t, "configure")
  /\ ConfigureReturned(t)
  /\ run' = [run EXCEPT ![t] =
               Ended(run[t], "configure",
                     IF configuring[t].step = "done" THEN "Success" ELSE "Failed")]
  /\ UNCHANGED <<documents, doing, answer, outcome, calls, faults>>

\* prepare_lume_model_variables: a copy of the variables of the model, those that
\* are not given with their defaults, and ValueError for a name that is none.
prepare_lume_model_variables(value_map) == Merged(value_map, Variables)

\* What a run with these parameters makes a Result of, and the Results so made.  Missing
\* is no hash.
Prepared(parameters) ==
  [parameters EXCEPT !.inputs = prepare_lume_model_variables(@)]
Results ==
  {Construct(given.type, given, NoContext) :
     given \in {g \in {Prepared(p) : p \in Parameters} :
                 ~ ConstructRaises(g.type, g, NoContext)}}

ASSUME MissingIsNoHash == \A result \in Results : result.unique_hash # Missing

PrepareVariables(t) ==
  /\ Ready(t, "prepare")
  /\ IF DOMAIN run[t].call.parameters.inputs \subseteq DOMAIN Variables
     THEN Succeeds(t, "prepare") ELSE Fails(t, "prepare")
  /\ UNCHANGED <<documents, faults>>

\* The task that makes a Result of what the model has computed.  In a local run
\* the flow id comes from the flow itself, not from the context of Prefect.
Predict(t) ==
  LET given == Prepared(run[t].call.parameters) IN
  /\ Ready(t, "predict")
  /\ IF ConstructRaises(given.type, given, NoContext)
     THEN Fails(t, "predict")
     ELSE /\ run' = [run EXCEPT ![t] =
                       [Ended(run[t], "predict", "Success") EXCEPT
                          !.result = Construct(given.type, given, NoContext)]]
          /\ UNCHANGED <<configVars, doing, answer, outcome, calls>>
  /\ UNCHANGED <<documents, faults>>

\* SaveDBResult.run and Result.insert.  insert_one takes the project out of the
\* document as the name of the collection.
Inserted(r, db) ==
  Append(documents, [db |-> db, collection |-> r.project_name, of |-> get_db_dict(r)])

Save(t) ==
  LET db == ResultsOf[context] IN
  /\ Ready(t, "save")
  /\ db # None /\ ~ InsertRaises(get_db_dict(run[t].result))
  /\ documents' = Inserted(run[t].result, db)
  /\ run' = [run EXCEPT ![t] =
               [Ended(run[t], "save", "Success") EXCEPT !.savedIn = db]]
  /\ UNCHANGED <<configVars, doing, answer, outcome, calls, faults>>

\* The insert raises: there is no results database, or it has no encoding for the
\* document, or it fails, before or after it has stored it.
SaveFails(t) ==
  LET db == ResultsOf[context] IN
  /\ Ready(t, "save")
  /\ \/ /\ db = None \/ InsertRaises(get_db_dict(run[t].result))
        /\ UNCHANGED <<documents, faults>>
     \/ /\ db # None /\ ~ InsertRaises(get_db_dict(run[t].result))
        /\ faults < MaxFaults /\ faults' = faults + 1
        /\ documents' \in {documents, Inserted(run[t].result, db)}
  /\ Fails(t, "save")

\* LoadDBResult.run with the representation that SaveDBResult has returned, and
\* Result.load_from_query: one document of that hash is expected.  An index that
\* names no attribute gives the whole Result, an empty one raises IndexError.
\* Which attribute is selected of the Result is left out.
Load(t) ==
  LET rep == unique_rep(run[t].result)
      found == Matching(ResultsOf[context], rep.project_name, rep.unique_hash)
      document == documents[CHOOSE i \in found : TRUE].of
  IN /\ Ready(t, "load")
     /\ IF \/ Cardinality(found) # 1
           \/ LoadDocumentRaises(rep.result_type_string, rep.project_name, document)
           \/ run[t].call.attribute_index = "empty"
        THEN Fails(t, "load")
        ELSE Succeeds(t, "load")
     /\ UNCHANGED <<documents, faults>>

-----------------------------------------------------------------------------
(* The end of a run: LocalBackend.run and run_and_return.                   *)

Succeeded(t) == {task \in Tasks : run[t].states[task] = "Success"}

\* configure_lume_services returns None; every other task returns something.
Empty(task) == task = "configure"

Outcomes == {"None", "Returned", "AttributeError", "LocalBackendError", "FileNotFoundError",
             "ValueError", "Results", "FlowFailedError", "TaskNotInFlowError", "TypeError",
             "TaskNotCompletedError", "EmptyResultError", "DeploymentNotRegisteredError",
             "DeploymentNotFoundError", "FlowNotFoundError", "ValidationError"}

\* A bug that the properties are to notice: the state of a task that is asked for
\* is not looked at.
OutcomeUnchecked(t, outcomeOfCall) ==
  LET name == run[t].call.task_name
  IN IF ~ Reference \subseteq Succeeded(t) THEN outcomeOfCall = "FlowFailedError"
     ELSE IF name # None /\ get_tasks(name) = {}
     THEN outcomeOfCall = "TaskNotInFlowError"
     ELSE outcomeOfCall = "Returned"

\* run_and_return, once the flow has run, ends with that outcome.  Tasks of one name
\* are looked at in any order.
Outcome(t, outcomeOfCall) ==
  LET name == run[t].call.task_name
      tasks == get_tasks(name)
  IN IF ~ Reference \subseteq Succeeded(t) THEN outcomeOfCall = "FlowFailedError"
     ELSE IF name = None THEN outcomeOfCall = "Returned"
     ELSE IF tasks = {} THEN outcomeOfCall = "TaskNotInFlowError"
     ELSE \/ ~ tasks \subseteq Succeeded(t) /\ outcomeOfCall = "TaskNotCompletedError"
          \/ /\ \E task \in tasks \cap Succeeded(t) : Empty(task)
             /\ outcomeOfCall = "EmptyResultError"
          \/ /\ tasks \subseteq Succeeded(t) /\ \A task \in tasks : ~ Empty(task)
             /\ outcomeOfCall = "Returned"

\* The results it returns: without a name those of all tasks, of those that failed
\* their exception.
Answer(t) == IF run[t].call.task_name = None THEN Tasks
                                             ELSE get_tasks(run[t].call.task_name)

\* parse_result of Model.run_and_return.  A representation is looked up by
\* get_results with a keyword it does not have; a dictionary of all tasks, or of
\* variables, has values that are no dictionaries.
Parsed(t, outcomeOfCall) ==
  IF run[t].call.of = "Flow" \/ outcomeOfCall # "Returned" THEN outcomeOfCall
  ELSE IF run[t].call.task_name = None \/ Answer(t) = {"prepare"}
  THEN "AttributeError"
  ELSE IF Answer(t) = {"save"} THEN "TypeError"
  ELSE "Returned"

AfterTasks(t) == doing[t] = "run" /\ run[t].next = Len(FlowTasks) + 1

\* LocalBackend.run does not look at the state of the run.
RunEnds(t) ==
  /\ AfterTasks(t)
  /\ run[t].call.through = "run"
  /\ Does(t, "idle")
  /\ run' = [run EXCEPT ![t] = NoRun]
  /\ UNCHANGED <<configVars, documents, answer, outcome, calls, faults>>

RunAndReturnEnds(t) ==
  /\ AfterTasks(t)
  /\ run[t].call.through = "run_and_return"
  /\ \E o \in Outcomes :
       /\ Outcome(t, o)
       /\ outcome' = [outcome EXCEPT ![t] = Parsed(t, o)]
       /\ answer' = [answer EXCEPT ![t] = IF Parsed(t, o) = "Returned"
                                          THEN Answer(t) ELSE {}]
       /\ run' = IF Parsed(t, o) = "Returned" THEN run ELSE [run EXCEPT ![t] = NoRun]
  /\ Does(t, "idle")
  /\ UNCHANGED <<configVars, documents, calls, faults>>

RunStep(t) ==
  \/ TriggerFailed(t) \/ CheckLocalExecution(t)
  \/ ConfigureTask(t) \/ ConfigureTaskEnds(t)
  \/ PrepareVariables(t) \/ Predict(t) \/ Save(t) \/ SaveFails(t) \/ Load(t)
  \/ RunEnds(t) \/ RunAndReturnEnds(t)

-----------------------------------------------------------------------------
(* Properties.                                                              *)

\* What the hash of a Result does not tell, no two runs differ in: its class, which
\* lists of the JSON were arrays of one element, that become numbers, and whether its
\* config can be loaded.
Singles(dictionary) == {key \in DOMAIN dictionary : dictionary[key].kind = "single"}
HashesTellApart ==
  \A p, q \in {Prepared(parameters) : parameters \in Parameters} :
    HashOf(p.inputs, p.outputs, p.flow_id) = HashOf(q.inputs, q.outputs, q.flow_id) =>
      /\ p.type = q.type
      /\ Singles(p.inputs) = Singles(q.inputs) /\ Singles(p.outputs) = Singles(q.outputs)
      /\ LoadRaises(p.config) <=> LoadRaises(q.config)

\* A representation that a caller has been given names a document: it is in the
\* database that was injected when SaveDBResult ran, whatever the other threads have
\* configured since, in the collection of the representation.  Each document that
\* the representation finds there can be made a result by get_results, and by
\* LoadDBResult as well unless the flow id is of digits or config has a string that
\* is a JSON scalar, which load_db_dict hands to DataFrame; either way its flow id,
\* inputs and outputs are those that were saved (tasks/db.py:210-211,
\* results/generic.py:131-205, results/impact.py:15-16).
SavedLoads ==
  \A t \in Threads :
    ("save" \in answer[t] /\ run[t].states["save"] = "Success") =>
      LET r == run[t].result
          rep == unique_rep(r)
          found == Matching(run[t].savedIn, rep.project_name, rep.unique_hash)
      IN /\ found # {}
         /\ \A i \in found :
              LET document == documents[i].of
                  loaded == LoadDocument(rep.result_type_string, rep.project_name, document)
              IN /\ ~ OfDocumentRaises(document) /\ SameJson(OfDocument(document), r)
                 /\ (r.flow_id \notin NumericIds /\ ~ LoadRaises(r.config)) =>
                      /\ ~ LoadDocumentRaises(rep.result_type_string, rep.project_name,
                                              document)
                      /\ SameJson(loaded, r)
=============================================================================
