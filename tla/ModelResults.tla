---------------------------- MODULE ModelResults ----------------------------
(***************************************************************************)
(* Model objects of lume_services/models/model.py over local runs: which   *)
(* deployment they have loaded, runs through them, and Model.get_results,  *)
(* while another process stores deployments of the model and the threads    *)
(* save results.  The tables of deployments and flows are those of         *)
(* ModelRegistry, here of one model; a deployment is a number, and its row *)
(* is stored before that of its flow.  Whatever the settings, the model    *)
(* database is the same.                                                   *)
(***************************************************************************)
EXTENDS LocalRuns

CONSTANTS
  MaxDeployments,
  FlowIdOf,      \* the flow id that Prefect gives the flow of each deployment
  ProjectOf      \* the project it is registered in

Deployments == 1..MaxDeployments

ASSUME ModelResultsAssumption ==
  /\ MaxDeployments \in Nat
  /\ FlowIdOf \in [Deployments -> FlowIds]
  /\ ProjectOf \in [Deployments -> Projects]

VARIABLES
  deployments,   \* how many deployments are stored; the last is the latest
  flows,         \* those of them whose flow row is stored
  model,         \* per thread: the deployment its Model has loaded, 0 for none,
                 \* and whether with load_artifacts
  dictionary,    \* per thread: the flow id in the query dictionary that the
                 \* thread passes, None if it has none, Emptied for []
  query,         \* per thread: its call of get_results
  objects        \* per thread: the documents whose results the last call returned

CONSTANT Emptied

modelVars == <<deployments, flows, model, dictionary, query, objects>>
vars == <<configVars, runVars, modelVars>>

\* A call of get_results: its results database, the deployments it asks for, the
\* next of them, the documents found, and how many were stored when it was called.
NewQuery(ds) ==
  [db |-> IF context = None THEN None ELSE ResultsOf[context],
   asks |-> ds, next |-> 1, found |-> {}, before |-> Len(documents)]

Init ==
  /\ LocalInit
  /\ deployments = 0 /\ flows = {}
  /\ model = [t \in Threads |-> [deployment |-> 0, artifacts |-> FALSE]]
  /\ dictionary = [t \in Threads |-> None]
  /\ query = [t \in Threads |-> NewQuery({})]
  /\ objects = [t \in Threads |-> {}]

-----------------------------------------------------------------------------
(* Bugs that the properties are to notice.                                  *)

\* The flow id is only written into a dictionary that has none.
AskUnlessAsked(t, d) ==
  IF dictionary[t] = None THEN FlowIdOf[d] ELSE dictionary[t]

-----------------------------------------------------------------------------
(* Another process: store_deployment and store_flow of ModelRegistry.       *)

StoreDeployment ==
  /\ deployments < MaxDeployments /\ flows = 1..deployments
  /\ deployments' = deployments + 1
  /\ UNCHANGED <<configVars, runVars, flows, model, dictionary, query, objects>>

StoreFlow ==
  /\ flows # 1..deployments
  /\ flows' = 1..deployments
  /\ UNCHANGED <<configVars, runVars, deployments, model, dictionary, query, objects>>

-----------------------------------------------------------------------------
(* Model.load_deployment, Model.run and Model.run_and_return.               *)

\* load_deployment of the latest one.  ModelRegistry has its queries one by one.
LoadError ==
  IF context = None THEN "AttributeError"
  ELSE IF deployments = 0 THEN "DeploymentNotRegisteredError"
  ELSE IF deployments \notin flows THEN "FlowNotFoundError"
  ELSE "None"

LoadDeployment(t) ==
  /\ Calling(t)
  /\ outcome' = [outcome EXCEPT ![t] = LoadError]
  /\ model' = IF LoadError # "None" THEN model
              ELSE [model EXCEPT ![t] = [deployment |-> deployments, artifacts |-> TRUE]]
  /\ UNCHANGED <<configVars, documents, doing, run, answer, faults,
                 deployments, flows, dictionary, query, objects>>

\* Model(deployment_id=...): load_model_data builds a Flow without the image that
\* Flow requires, whichever deployment it is.
OpenByDeployment(t) ==
  /\ Calling(t)
  /\ outcome' = [outcome EXCEPT ![t] =
                   IF context = None THEN "AttributeError"
                   ELSE IF deployments = 0 THEN "DeploymentNotFoundError"
                   ELSE IF deployments \notin flows THEN "FlowNotFoundError"
                   ELSE "ValidationError"]
  /\ UNCHANGED <<configVars, documents, doing, run, answer, faults, modelVars>>

\* Model.run and run_and_return of a model that has loaded a deployment with its
\* artifacts: the flow runs.
RunModel(t, k) ==
  /\ Calling(t)
  /\ k.of = "Model"
  /\ model[t].artifacts
  /\ Begin(t, k)
  /\ UNCHANGED <<configVars, documents, faults, modelVars>>

\* A model that has not: it loads the latest deployment, without artifacts, and
\* Flow.run then asks the local backend to load the flow.
RunModelNotLoaded(t, k) ==
  /\ Calling(t)
  /\ k.of = "Model"
  /\ ~ model[t].artifacts
  /\ IF model[t].deployment = 0 /\ LoadError # "None"
     THEN /\ outcome' = [outcome EXCEPT ![t] = LoadError]
          /\ answer' = [answer EXCEPT ![t] = {}] /\ run' = [run EXCEPT ![t] = NoRun]
          /\ UNCHANGED <<doing, model>>
     ELSE /\ Begin(t, [k EXCEPT !.mistake = "not_loaded"])
          /\ model' = IF model[t].deployment # 0 THEN model
                      ELSE [model EXCEPT ![t].deployment = deployments]
  /\ UNCHANGED <<configVars, documents, faults, deployments, flows, dictionary,
                 query, objects>>

-----------------------------------------------------------------------------
(* Model.get_results.                                                       *)

\* query["flow_id"] = ..., in the dictionary of the caller
Ask(t, d) == FlowIdOf[d]

\* find of the results database: the documents of the flow id in the dictionary.
Find(db, collection, flow_id) ==
  {i \in DOMAIN documents :
     /\ documents[i].db = db /\ documents[i].collection = collection
     /\ documents[i].of.flow_id = flow_id}

\* The documents become objects of the class that they name.
Returns(t, found) ==
  LET raises == \E i \in found : OfDocumentRaises(documents[i].of) IN
  /\ outcome' = [outcome EXCEPT ![t] = IF raises THEN "ValidationError" ELSE "Results"]
  /\ objects' = [objects EXCEPT ![t] = IF raises THEN {} ELSE found]

Raises(t, error) ==
  /\ outcome' = [outcome EXCEPT ![t] = error]
  /\ objects' = [objects EXCEPT ![t] = {}]

\* The results of the deployment that is loaded: one find.
GetResults(t) ==
  LET d == model[t].deployment
      q == NewQuery({d})
  IN /\ Calling(t)
     /\ query' = [query EXCEPT ![t] = q]
     /\ dictionary' = [dictionary EXCEPT ![t] = IF d = 0 THEN @ ELSE Ask(t, d)]
     /\ IF d = 0 \/ q.db = None
        THEN Raises(t, "AttributeError")
        ELSE Returns(t, Find(q.db, ProjectOf[d], dictionary'[t]))
     /\ UNCHANGED <<configVars, documents, doing, run, answer, faults,
                    deployments, flows, model>>

\* The results of all deployments: get_deployments at first.
GetAllResults(t) ==
  /\ Calling(t)
  /\ query' = [query EXCEPT ![t] = NewQuery(1..deployments)]
  /\ IF context = None \/ deployments = 0
     THEN /\ Raises(t, IF context = None THEN "AttributeError" ELSE "DeploymentNotFoundError")
          /\ UNCHANGED doing
     ELSE /\ Does(t, "query")
          /\ UNCHANGED <<outcome, objects>>
  /\ UNCHANGED <<configVars, documents, run, answer, faults,
                 deployments, flows, model, dictionary>>

\* get_flow of the next deployment, which a row that is there answers for good,
\* and find in the project of its flow.
FindNext(t) ==
  LET q == query[t]
      d == q.next
  IN /\ doing[t] = "query" /\ d \in q.asks
     /\ IF d \notin flows
        THEN /\ Raises(t, "FlowNotFoundError") /\ Does(t, "idle")
             /\ UNCHANGED <<dictionary, query>>
        ELSE /\ dictionary' = [dictionary EXCEPT ![t] = Ask(t, d)]
             /\ IF q.db = None
                THEN /\ Raises(t, "AttributeError") /\ Does(t, "idle")
                     /\ UNCHANGED query
                ELSE /\ query' = [query EXCEPT ![t].next = d + 1,
                           ![t].found = @ \cup Find(q.db, ProjectOf[d], dictionary'[t])]
                     /\ UNCHANGED <<outcome, objects, doing>>
     /\ UNCHANGED <<configVars, documents, run, answer, calls, faults,
                    deployments, flows, model>>

\* The dictionary is left with an empty list of flow ids.
AllResultsEnd(t) ==
  /\ doing[t] = "query" /\ query[t].next \notin query[t].asks
  /\ dictionary' = [dictionary EXCEPT ![t] = Emptied]
  /\ Returns(t, query[t].found)
  /\ Does(t, "idle")
  /\ UNCHANGED <<configVars, documents, run, answer, calls, faults,
                 deployments, flows, model, query>>

-----------------------------------------------------------------------------
Call(t) ==
  \/ CallConfigure(t) /\ UNCHANGED modelVars
  \/ (Register(t) \/ \E k \in Calls[t] : Run(t, k)) /\ UNCHANGED modelVars
  \/ \E k \in Calls[t] : RunModel(t, k) \/ RunModelNotLoaded(t, k)
  \/ LoadDeployment(t) \/ OpenByDeployment(t)
  \/ GetResults(t) \/ GetAllResults(t)

\* The steps of a call that is under way.
Step(t) ==
  \/ (ConfigureGoesOn(t) \/ ConfigureEnds(t) \/ RunStep(t)) /\ UNCHANGED modelVars
  \/ FindNext(t) \/ AllResultsEnd(t)

Next ==
  \/ \E t \in Threads : Call(t) \/ Step(t)
  \/ StoreDeployment \/ StoreFlow

Spec == Init /\ [][Next]_vars

-----------------------------------------------------------------------------
(* Properties.                                                              *)

Documents ==
  {[db |-> db, collection |-> result.project_name, of |-> get_db_dict(result)] :
     db \in Databases, result \in Results}

TypeOK ==
  /\ ConfigTypeOK
  /\ documents \in Seq(Documents)
  /\ doing \in [Threads -> {"idle", "configure", "run", "query"}]
  /\ run \in
       [Threads -> [call : (UNION {Calls[t] : t \in Threads}) \cup {None},
                    next : 0..(Len(FlowTasks) + 1),
                    states : [Tasks -> {"Pending", "Success", "Failed"}],
                    result : Results \cup {None}, savedIn : Databases \cup {None}]]
  /\ \A t \in Threads :
       /\ run[t].next # 0 => run[t].call \in Calls[t]
       /\ doing[t] = "run" => run[t].next # 0
  /\ answer \in [Threads -> SUBSET Tasks]
  /\ outcome \in [Threads -> Outcomes]
  /\ calls \in [Threads -> Nat] /\ faults \in 0..MaxFaults
  /\ deployments \in 0..MaxDeployments /\ flows \subseteq 1..deployments
  /\ model \in [Threads -> [deployment : 0..deployments, artifacts : BOOLEAN]]
  /\ dictionary \in [Threads -> FlowIds \cup {None, Emptied}]
  /\ query \in
       [Threads -> [db : Databases \cup {None}, asks : SUBSET (0..deployments),
                    next : Nat, found : SUBSET DOMAIN documents,
                    before : 0..Len(documents)]]
  /\ objects \in [Threads -> SUBSET DOMAIN documents]

\* get_results returns the results of the deployments it was asked for, and no
\* others: all that were stored when it was called, whatever its caller's
\* dictionary held, whatever another thread configured in between, and although
\* deployments and results are stored while it asks for one deployment after the
\* other; and each of them is an object of the class that its document names
\* (model.py:476-508).
ResultsComplete ==
  \A t \in Threads :
    /\ (outcome[t] = "Results" /\ doing[t] # "query") =>
         LET q == query[t]
             wanted == {i \in DOMAIN documents : \E d \in q.asks :
                          /\ documents[i].db = q.db
                          /\ documents[i].collection = ProjectOf[d]
                          /\ documents[i].of.flow_id = FlowIdOf[d]}
         IN /\ objects[t] \subseteq wanted
            /\ wanted \cap 1..q.before \subseteq objects[t]
    /\ \A i \in objects[t] : ~ OfDocumentRaises(documents[i].of)

\* run_and_return does what Backend promises, whatever the tasks configure.
Promised(t) == run[t].next # 0 /\ run[t].call.through = "run_and_return"
Abstract ==
  INSTANCE Backend WITH
    Callers <- Threads,
    state <- [t \in Threads |->
      IF ~ Promised(t) THEN "idle" ELSE IF doing[t] = "run" THEN "running" ELSE "returned"],
    named <- [t \in Threads |->
      IF ~ Promised(t) \/ run[t].call.task_name = None THEN {} ELSE Answer(t)],
    succeeded <- [t \in Threads |-> IF Promised(t) THEN Succeeded(t) ELSE {}],
    answered <- answer
ImplementsBackend == Abstract!Spec
=============================================================================
