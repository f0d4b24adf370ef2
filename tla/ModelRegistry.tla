---------------------------- MODULE ModelRegistry ----------------------------
(***************************************************************************)
(* The model registry: what lume_services.models.Model does to the tables  *)
(* of the model database and to the Prefect server when several processes  *)
(* create models, store deployments and load them at the same time.        *)
(*                                                                         *)
(* Every call of ModelDBService is a transaction of its own (ModelDB.insert *)
(* and ModelDB.select open a session, commit and close it), and the Prefect *)
(* server is another system: Model.create_model and Model.store_deployment  *)
(* are therefore sequences of separate steps, and other processes, crashes  *)
(* and failing services come in between.  One action is one such call.      *)
(*                                                                         *)
(* A client is a Python process.  It runs the script of                    *)
(* docs/services/models.md: create_model, then store_deployment of one      *)
(* package version into one project; a script that raised is run again.     *)
(***************************************************************************)
EXTENDS Naturals, Sequences, FiniteSets

CONSTANTS
  Clients,              \* processes that use the Model API
  Entries,              \* values of Model._model_entry: author .. description
  Versions,             \* released versions of the model package
  Projects,             \* Prefect project names
  None,                 \* Python's None
  OneVersionPerProcess, \* do operators deploy another version from a new process?
  MaxRegistrations,     \* bound on the flow versions Prefect accepts
  MaxFaults             \* bound on failing calls and on processes that die in a call

Jobs         == [entry: Entries, version: Versions, project_name: Projects]
Deployments  == [model_id: Nat, version: Versions, deploy_date: Nat]
FlowRows     == [flow_id: Nat, deployment_id: Nat, project_name: Projects]
FlowVersions == [project_name: Projects, version: Versions \cup {None}]
LoadedDeployments == [deployment_id: Nat, flow_id: Nat, project_name: Projects,
                      code: Versions \cup {None}]

ASSUME RegistryConstants ==
  /\ None \notin Versions \cup Jobs \cup LoadedDeployments
  /\ OneVersionPerProcess \in BOOLEAN
  /\ MaxRegistrations \in Nat
  /\ MaxFaults \in Nat

VARIABLES
  models,         \* table model; the AUTO_INCREMENT id of a row is its index
  deployments,    \* table deployment, likewise
  projects,       \* table project
  flows,          \* table flow
  prefectProjects, \* the projects of the Prefect server
  registered,     \* the flow versions Prefect holds; a flow_id is an index here
  installed,      \* per client: version in its site-packages
  imported,       \* per client: version in its sys.modules
  modelId,        \* per client: Model.metadata.model_id, 0 without a Model object
  loaded,         \* per client: Model.deployment
  job,            \* per client: the arguments of the script, until it has returned
  pc,             \* per client: the call it makes next
  deploymentId,   \* per client: local variable deployment_id
  flowId,         \* per client: local variable prefect_flow_id
  faults          \* failures so far

tables   == <<models, deployments, projects, flows>>
prefect  == <<prefectProjects, registered>>
packages == <<installed, imported>>
objects  == <<modelId, loaded>>
locals   == <<deploymentId, flowId>>
vars     == <<tables, prefect, packages, objects, job, pc, locals, faults>>

Labels == {"idle", "get_model", "store_model", "install", "get_deployment",
           "store_deployment", "get_flow", "register", "store_flow",
           "load_flow", "load_artifacts"}

TypeOK ==
  /\ models \in Seq(Entries)
  /\ deployments \in Seq(Deployments)
  /\ projects \subseteq Projects
  /\ flows \subseteq FlowRows
  /\ prefectProjects \subseteq Projects
  /\ registered \in Seq(FlowVersions)
  /\ installed \in [Clients -> Versions \cup {None}]
  /\ imported \in [Clients -> Versions \cup {None}]
  /\ modelId \in [Clients -> Nat]
  /\ loaded \in [Clients -> LoadedDeployments \cup {None}]
  /\ job \in [Clients -> Jobs \cup {None}]
  /\ pc \in [Clients -> Labels]
  /\ deploymentId \in [Clients -> Nat]
  /\ flowId \in [Clients -> Nat]
  /\ faults \in Nat

\* Both systems may know some projects already.
InitWith(known) ==
  /\ models = <<>>
  /\ deployments = <<>>
  /\ projects = known
  /\ flows = {}
  /\ prefectProjects = known
  /\ registered = <<>>
  /\ installed = [c \in Clients |-> None]
  /\ imported = [c \in Clients |-> None]
  /\ modelId = [c \in Clients |-> 0]
  /\ loaded = [c \in Clients |-> None]
  /\ job = [c \in Clients |-> None]
  /\ pc = [c \in Clients |-> "idle"]
  /\ deploymentId = [c \in Clients |-> 0]
  /\ flowId = [c \in Clients |-> 0]
  /\ faults = 0

Init == InitWith({})

-----------------------------------------------------------------------------
(* The SELECTs of ModelDBService, as the sets of rows they return.          *)

get_model(e) == {m \in DOMAIN models : models[m] = e}

get_deployments(m) == {d \in DOMAIN deployments : deployments[d].model_id = m}

get_deployment(m, v) == {d \in get_deployments(m) : deployments[d].version = v}

\* ORDER BY deploy_date DESC, first row: the column keeps whole seconds, and rows
\* of the same second come in any order.
get_latest_deployment(m) ==
  {d \in get_deployments(m) : \A e \in get_deployments(m) :
     deployments[e].deploy_date <= deployments[d].deploy_date}

get_flow(d) == {f \in flows : f.deployment_id = d}

-----------------------------------------------------------------------------
(* Control flow of a call.                                                  *)

Goto(c, label) == pc' = [pc EXCEPT ![c] = label]

\* The call ends, by return or by an exception: its local variables are gone.
Leave(c) ==
  /\ Goto(c, "idle")
  /\ deploymentId' = [deploymentId EXCEPT ![c] = 0]
  /\ flowId' = [flowId EXCEPT ![c] = 0]

\* An exception leaves the database, Prefect and the caller's intent as they are.
Raise(c) ==
  /\ Leave(c)
  /\ UNCHANGED <<tables, prefect, objects, job>>

\* Importing a package of which sys.modules already has a version is a no-op.
ImportedAfter(c, v) == IF imported[c] = None THEN v ELSE imported[c]

-----------------------------------------------------------------------------
(* Bugs that the properties are to notice: variants of the operations below, *)
(* each with one plausible mistake.  No specification uses them.             *)

\* The caller's arguments are inserted as they are.
StoreModelUnvalidated(c) ==
  /\ pc[c] = "store_model"
  /\ get_model(job[c].entry) = {}
  /\ models' = Append(models, job[c])
  /\ modelId' = [modelId EXCEPT ![c] = Len(models) + 1]
  /\ Goto(c, "install")
  /\ UNCHANGED <<deployments, projects, flows, prefect, packages, loaded, job,
                 locals, faults>>

\* Table model without its UNIQUE constraint.
StoreModelNotUnique(c) ==
  /\ pc[c] = "store_model"
  /\ models' = Append(models, job[c].entry)
  /\ modelId' = [modelId EXCEPT ![c] = Len(models) + 1]
  /\ Goto(c, "install")
  /\ UNCHANGED <<deployments, projects, flows, prefect, packages, loaded, job,
                 locals, faults>>

\* create_model inserts without looking for the row.
InsertBlindly(c) ==
  /\ pc[c] = "get_model"
  /\ Goto(c, "store_model")
  /\ UNCHANGED <<tables, prefect, packages, objects, job, locals, faults>>

\* Any version of the distribution will do.
InstallPresentAnyVersion(c) ==
  /\ pc[c] = "install"
  /\ installed[c] # None
  /\ imported' = [imported EXCEPT ![c] = ImportedAfter(c, installed[c])]
  /\ Goto(c, "get_deployment")
  /\ UNCHANGED <<tables, prefect, installed, objects, job, locals, faults>>

\* The SELECT of store_deployment forgets the version.
FindAnyVersion(c) ==
  /\ pc[c] = "get_deployment"
  /\ \E d \in get_deployments(modelId[c]) :
       deploymentId' = [deploymentId EXCEPT ![c] = d]
  /\ Goto(c, "get_flow")
  /\ UNCHANGED <<tables, prefect, packages, objects, job, flowId, faults>>

\* Table deployment without its UNIQUE constraint.
StoreDeploymentNotUnique(c) ==
  /\ pc[c] = "store_deployment"
  /\ deployments' = Append(deployments, [model_id |-> modelId[c],
                                         version |-> job[c].version,
                                         deploy_date |-> 0])
  /\ deploymentId' = [deploymentId EXCEPT ![c] = Len(deployments) + 1]
  /\ Goto(c, "get_flow")
  /\ UNCHANGED <<models, projects, flows, prefect, packages, objects, job,
                 flowId, faults>>

\* store_deployment registers without looking for a flow.
RegisterBlindly(c) ==
  /\ pc[c] = "get_flow"
  /\ Goto(c, "register")
  /\ UNCHANGED <<tables, prefect, packages, objects, job, locals, faults>>

\* Table flow without its foreign key to project.
StoreFlowNoForeignKey(c) ==
  /\ pc[c] = "store_flow"
  /\ flows' = flows \cup {[flow_id |-> flowId[c],
                           deployment_id |-> deploymentId[c],
                           project_name |-> job[c].project_name]}
  /\ Goto(c, "load_artifacts")
  /\ flowId' = [flowId EXCEPT ![c] = 0]
  /\ UNCHANGED <<models, deployments, projects, prefect, packages, objects, job,
                 deploymentId, faults>>

\* The SELECT of load_deployment loses its WHERE clause.
AnyFlowFound(c, code) ==
  /\ \E f \in flows :
       loaded' = [loaded EXCEPT ![c] = [deployment_id |-> deploymentId[c],
                                        flow_id |-> f.flow_id,
                                        project_name |-> f.project_name,
                                        code |-> code]]
  /\ Leave(c)
  /\ job' = [job EXCEPT ![c] = None]
  /\ UNCHANGED <<tables, prefect, installed, modelId, faults>>

-----------------------------------------------------------------------------
(* The script: create_model, then store_deployment.                         *)

\* Run the script for job j.  A process that must not mix versions is only used
\* for the version it has imported.
StartScript(c, j) ==
  /\ pc[c] = "idle"
  /\ job[c] \in {None, j}
  /\ OneVersionPerProcess => imported[c] \in {None, j.version}
  /\ job' = [job EXCEPT ![c] = j]
  /\ modelId' = [modelId EXCEPT ![c] = 0]
  /\ loaded' = [loaded EXCEPT ![c] = None]
  /\ Goto(c, "get_model")
  /\ UNCHANGED <<tables, prefect, packages, locals, faults>>

\* create_model finds the row of its five fields ...
FindModel(c) ==
  /\ pc[c] = "get_model"
  /\ \E m \in get_model(job[c].entry) : modelId' = [modelId EXCEPT ![c] = m]
  /\ Goto(c, "install")
  /\ UNCHANGED <<tables, prefect, packages, loaded, job, locals, faults>>

\* ... or catches ModelNotFoundError and goes on to insert it.
MissModel(c) ==
  /\ pc[c] = "get_model"
  /\ get_model(job[c].entry) = {}
  /\ Goto(c, "store_model")
  /\ UNCHANGED <<tables, prefect, packages, objects, job, locals, faults>>

StoreModel(c) ==
  /\ pc[c] = "store_model"
  /\ get_model(job[c].entry) = {}          \* UNIQUE _model_entry
  /\ models' = Append(models, job[c].entry)
  /\ modelId' = [modelId EXCEPT ![c] = Len(models) + 1]
  /\ Goto(c, "install")
  /\ UNCHANGED <<deployments, projects, flows, prefect, packages, loaded, job,
                 locals, faults>>

\* Somebody inserted the same five fields after our SELECT: IntegrityError.
StoreModelConflict(c) ==
  /\ pc[c] = "store_model"
  /\ get_model(job[c].entry) # {}
  /\ Raise(c)
  /\ UNCHANGED <<packages, faults>>

\* Source.install: the distribution on disk has the version already, and only
\* the module of that name is imported (from sys.modules if it is there).
InstallPresent(c) ==
  /\ pc[c] = "install"
  /\ installed[c] = job[c].version
  /\ imported' = [imported EXCEPT ![c] = ImportedAfter(c, job[c].version)]
  /\ Goto(c, "get_deployment")
  /\ UNCHANGED <<tables, prefect, installed, objects, job, locals, faults>>

\* Source.install: uninstall what there is, install, import, and compare the
\* imported __version__ with the one installed: ValueError if it is a stale one.
InstallPackage(c) ==
  /\ pc[c] = "install"
  /\ installed[c] # job[c].version
  /\ installed' = [installed EXCEPT ![c] = job[c].version]
  /\ imported' = [imported EXCEPT ![c] = ImportedAfter(c, job[c].version)]
  /\ \/ /\ imported'[c] = job[c].version
        /\ Goto(c, "get_deployment")
        /\ UNCHANGED <<tables, prefect, objects, job, locals>>
     \/ /\ imported'[c] # job[c].version
        /\ Raise(c)
  /\ UNCHANGED faults

\* conda or pip fails, after the other version has been uninstalled.
InstallFails(c) ==
  /\ pc[c] = "install"
  /\ installed[c] # job[c].version
  /\ faults < MaxFaults
  /\ faults' = faults + 1
  /\ installed' = [installed EXCEPT ![c] = None]
  /\ Raise(c)
  /\ UNCHANGED imported

FindDeployment(c) ==
  /\ pc[c] = "get_deployment"
  /\ \E d \in get_deployment(modelId[c], job[c].version) :
       deploymentId' = [deploymentId EXCEPT ![c] = d]
  /\ Goto(c, "get_flow")
  /\ UNCHANGED <<tables, prefect, packages, objects, job, flowId, faults>>

MissDeployment(c) ==
  /\ pc[c] = "get_deployment"
  /\ get_deployment(modelId[c], job[c].version) = {}
  /\ Goto(c, "store_deployment")
  /\ UNCHANGED <<tables, prefect, packages, objects, job, locals, faults>>

\* The seconds the database's clock can show at the next INSERT.
Seconds ==
  LET last == IF deployments = <<>> THEN 0
              ELSE deployments[Len(deployments)].deploy_date
  IN  {last, last + 1}

StoreDeployment(c) ==
  /\ pc[c] = "store_deployment"
  /\ get_deployment(modelId[c], job[c].version) = {}   \* UNIQUE _deployment_unique
  /\ \E now \in Seconds :
       deployments' = Append(deployments, [model_id |-> modelId[c],
                                           version |-> job[c].version,
                                           deploy_date |-> now])
  /\ deploymentId' = [deploymentId EXCEPT ![c] = Len(deployments) + 1]
  /\ Goto(c, "get_flow")
  /\ UNCHANGED <<models, projects, flows, prefect, packages, objects, job,
                 flowId, faults>>

StoreDeploymentConflict(c) ==
  /\ pc[c] = "store_deployment"
  /\ get_deployment(modelId[c], job[c].version) # {}
  /\ Raise(c)
  /\ UNCHANGED <<packages, faults>>

\* The deployment has a flow: nothing is registered, whatever its project.
FindFlow(c) ==
  /\ pc[c] = "get_flow"
  /\ get_flow(deploymentId[c]) # {}
  /\ Goto(c, "load_artifacts")
  /\ UNCHANGED <<tables, prefect, packages, objects, job, locals, faults>>

MissFlow(c) ==
  /\ pc[c] = "get_flow"
  /\ get_flow(deploymentId[c]) = {}
  /\ Goto(c, "register")
  /\ UNCHANGED <<tables, prefect, packages, objects, job, locals, faults>>

\* Flow.register without an idempotency key: Prefect makes a new flow version of
\* what the package's entry point loads, i.e. of the imported modules.
Register(c) ==
  /\ pc[c] = "register"
  /\ job[c].project_name \in prefectProjects
  /\ Len(registered) < MaxRegistrations
  /\ registered' = Append(registered, [project_name |-> job[c].project_name,
                                       version |-> imported[c]])
  /\ flowId' = [flowId EXCEPT ![c] = Len(registered) + 1]
  /\ Goto(c, "store_flow")
  /\ UNCHANGED <<tables, prefectProjects, packages, objects, job, deploymentId,
                 faults>>

\* Prefect does not know the project, or takes no more flows: ValueError.
RegisterRefused(c) ==
  /\ pc[c] = "register"
  /\ \/ job[c].project_name \notin prefectProjects
     \/ Len(registered) = MaxRegistrations
  /\ Raise(c)
  /\ UNCHANGED <<packages, faults>>

StoreFlow(c) ==
  /\ pc[c] = "store_flow"
  /\ job[c].project_name \in projects                  \* FOREIGN KEY project_name
  /\ flows' = flows \cup {[flow_id |-> flowId[c],
                           deployment_id |-> deploymentId[c],
                           project_name |-> job[c].project_name]}
  /\ Goto(c, "load_artifacts")
  /\ flowId' = [flowId EXCEPT ![c] = 0]
  /\ UNCHANGED <<models, deployments, projects, prefect, packages, objects, job,
                 deploymentId, faults>>

StoreFlowUnknownProject(c) ==
  /\ pc[c] = "store_flow"
  /\ job[c].project_name \notin projects
  /\ Raise(c)
  /\ UNCHANGED <<packages, faults>>

-----------------------------------------------------------------------------
(* Model.load_deployment.  Its first SELECT, by the deployment id that      *)
(* store_deployment holds, always finds the row it has just read or         *)
(* inserted; the one of a reader is OpenDeployment.                          *)

\* get_flow returns the first row of an unordered SELECT.
FlowFound(c, code) ==
  /\ \E f \in get_flow(deploymentId[c]) :
       loaded' = [loaded EXCEPT ![c] = [deployment_id |-> deploymentId[c],
                                        flow_id |-> f.flow_id,
                                        project_name |-> f.project_name,
                                        code |-> code]]
  /\ Leave(c)
  /\ job' = [job EXCEPT ![c] = None]
  /\ UNCHANGED <<tables, prefect, installed, modelId, faults>>

LoadFlow(c) ==
  /\ pc[c] = "load_flow"
  /\ FlowFound(c, None)
  /\ UNCHANGED imported

\* load_artifacts=True: the entry points come from the installed package.
LoadArtifacts(c) ==
  /\ pc[c] = "load_artifacts"
  /\ installed[c] # None
  /\ imported' = [imported EXCEPT ![c] = ImportedAfter(c, installed[c])]
  /\ FlowFound(c, imported'[c])

\* FlowNotFoundError is not caught here.
LoadFlowMissing(c) ==
  /\ pc[c] \in {"load_flow", "load_artifacts"}
  /\ get_flow(deploymentId[c]) = {}
  /\ Raise(c)
  /\ UNCHANGED <<packages, faults>>

\* PackageNotFoundError: the package is not installed in this environment.
LoadArtifactsMissing(c) ==
  /\ pc[c] = "load_artifacts"
  /\ get_flow(deploymentId[c]) # {}
  /\ installed[c] = None
  /\ Raise(c)
  /\ UNCHANGED <<packages, faults>>

\* Model(model_id=m): a new object for a stored model.
OpenModel(c) ==
  /\ pc[c] = "idle"
  /\ job[c] = None
  /\ \E m \in DOMAIN models : modelId' = [modelId EXCEPT ![c] = m]
  /\ loaded' = [loaded EXCEPT ![c] = None]
  /\ UNCHANGED <<tables, prefect, packages, job, pc, locals, faults>>

LoadDeployment(c, ids) ==
  /\ pc[c] = "idle"
  /\ job[c] = None
  /\ \E d \in ids : deploymentId' = [deploymentId EXCEPT ![c] = d]
  /\ \E label \in {"load_flow", "load_artifacts"} : Goto(c, label)
  /\ UNCHANGED <<tables, prefect, packages, objects, job, flowId, faults>>

\* load_deployment(deployment_id=d); an id of another model, or of none, raises
\* DeploymentNotRegisteredError and changes nothing.
OpenDeployment(c) == LoadDeployment(c, get_deployments(modelId[c]))

\* load_deployment().
OpenLatest(c) == LoadDeployment(c, get_latest_deployment(modelId[c]))

-----------------------------------------------------------------------------
(* The environment.                                                         *)

\* ModelDBService.store_project; a second insert is an IntegrityError.
StoreProject(p) ==
  /\ p \notin projects
  /\ projects' = projects \cup {p}
  /\ UNCHANGED <<models, deployments, flows, prefect, packages, objects, job, pc,
                 locals, faults>>

\* SchedulingService.create_project.
CreateProject(p) ==
  /\ p \notin prefectProjects
  /\ prefectProjects' = prefectProjects \cup {p}
  /\ UNCHANGED <<tables, registered, packages, objects, job, pc, locals, faults>>

\* A call of the database or of Prefect fails: ClientError, OperationalError.
ServiceFails(c) ==
  /\ pc[c] \notin {"idle", "install"}
  /\ faults < MaxFaults
  /\ faults' = faults + 1
  /\ Raise(c)
  /\ UNCHANGED packages

\* The process ends.  Its site-packages stay, and the operator's intent does.
Exit(c) ==
  /\ \/ pc[c] = "idle" /\ UNCHANGED faults
     \/ pc[c] # "idle" /\ faults < MaxFaults /\ faults' = faults + 1
  /\ Leave(c)
  /\ imported' = [imported EXCEPT ![c] = None]
  /\ modelId' = [modelId EXCEPT ![c] = 0]
  /\ loaded' = [loaded EXCEPT ![c] = None]
  /\ UNCHANGED <<tables, prefect, installed, job>>

-----------------------------------------------------------------------------
\* What a client in the middle of a call, or with a script to run, does next.
Proceed(c) ==
  \/ FindModel(c) \/ MissModel(c) \/ StoreModel(c) \/ StoreModelConflict(c)
  \/ InstallPresent(c) \/ InstallPackage(c)
  \/ FindDeployment(c) \/ MissDeployment(c)
  \/ StoreDeployment(c) \/ StoreDeploymentConflict(c)
  \/ FindFlow(c) \/ MissFlow(c) \/ Register(c) \/ RegisterRefused(c)
  \/ StoreFlow(c) \/ StoreFlowUnknownProject(c)
  \/ LoadFlow(c) \/ LoadArtifacts(c)
  \/ LoadFlowMissing(c) \/ LoadArtifactsMissing(c)

Rerun(c) == job[c] # None /\ StartScript(c, job[c])

Next ==
  \/ \E c \in Clients :
       \/ \E j \in Jobs : StartScript(c, j)
       \/ Proceed(c)
       \/ OpenModel(c) \/ OpenDeployment(c) \/ OpenLatest(c)
       \/ InstallFails(c) \/ ServiceFails(c) \/ Exit(c)
  \/ \E p \in Projects : StoreProject(p) \/ CreateProject(p)

Spec == Init /\ [][Next]_vars

\* A process runs on, and a script that raised is run again until it returns.
Fairness == \A c \in Clients : WF_vars(Proceed(c)) /\ WF_vars(Rerun(c))

\* Both systems know the projects before the first script runs, as the example of
\* docs/services/models.md has it.
FairSpec == InitWith(Projects) /\ [][Next]_vars /\ Fairness

-----------------------------------------------------------------------------
(* Properties.                                                              *)

\* However the processes race, a key is stored once: one model per five-field
\* entry (schema.py:32), one deployment per version of a model (schema.py:85),
\* one row per Prefect flow id (schema.py:125).
KeysUnique ==
  /\ \A m, n \in DOMAIN models : models[m] = models[n] => m = n
  /\ \A d, e \in DOMAIN deployments :
       /\ deployments[d].model_id = deployments[e].model_id
       /\ deployments[d].version = deployments[e].version
       => d = e
  /\ \A f, g \in flows : f.flow_id = g.flow_id => f = g

\* Every row's references resolve, across both systems: a flow row names a stored
\* deployment and project and a flow that Prefect registered in that very project.
RowsResolve ==
  /\ \A d \in DOMAIN deployments : deployments[d].model_id \in DOMAIN models
  /\ \A f \in flows :
       /\ f.deployment_id \in DOMAIN deployments
       /\ f.project_name \in projects
       /\ f.flow_id \in DOMAIN registered
       /\ registered[f.flow_id].project_name = f.project_name

\* What a client holds between two calls is never stale: the deployment id it
\* carries is a deployment of its own model, and Model.deployment pairs a
\* deployment of that model with a flow row of that deployment.
ObjectsResolve ==
  \A c \in Clients :
    /\ deploymentId[c] # 0 => deploymentId[c] \in get_deployments(modelId[c])
    /\ loaded[c] # None =>
         /\ loaded[c].deployment_id \in get_deployments(modelId[c])
         /\ \E f \in get_flow(loaded[c].deployment_id) :
              /\ f.flow_id = loaded[c].flow_id
              /\ f.project_name = loaded[c].project_name

\* The code Prefect runs for a deployment is the code of the deployment's version
\* (solver.py:386 compares the two): the flow that a row binds to the deployment
\* was registered from that version of the package.
FlowRunsItsVersion ==
  \A f \in flows :
    registered[f.flow_id].version = deployments[f.deployment_id].version

\* The tables are a catalog: whatever the interleaving, every committed row is a
\* release published for the first time or a new flow bound to a published release,
\* and nothing the catalog once held changes.
Catalog == INSTANCE ModelCatalog WITH
  Ids <- Nat,
  releases <- {[id |-> d, entry |-> models[deployments[d].model_id],
                version |-> deployments[d].version] : d \in DOMAIN deployments},
  bindings <- {[flow_id |-> f.flow_id, id |-> f.deployment_id,
                project_name |-> f.project_name] : f \in flows}

ImplementsCatalog == Catalog!Spec

\* The race of two storers is bounded: a deployment never gets more flow rows than
\* there are processes, however often the scripts crash and are run again.
FlowRowsBounded ==
  \A d \in DOMAIN deployments : Cardinality(get_flow(d)) <= Cardinality(Clients)

\* When store_deployment returns, the model object holds the requested version of
\* the requested entry, with the code of that version and with a flow, no matter
\* who inserted the rows and what failed before.
Delivers(c) ==
  LET d == loaded'[c].deployment_id
  IN  /\ models'[deployments'[d].model_id] = job[c].entry
      /\ deployments'[d].version = job[c].version
      /\ loaded'[c].code = job[c].version

StoreDelivers ==
  [][\A c \in Clients : job[c] # None /\ job'[c] = None => Delivers(c)]_vars

\* A script that is run again after every failure returns, whatever crashed
\* between its steps and whoever got there first.
EveryScriptReturns ==
  \A c \in Clients : job[c] # None ~> job[c] = None
=============================================================================
