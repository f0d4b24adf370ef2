# lume-services in TLA+

lume-services stores scientific models, deploys their packages as flows of a
Prefect 1 server, runs those flows and keeps what they compute in a MongoDB
database and in files. These modules model the parts of it that several
processes, threads or failures make hard to test. All paths are under
`src/lume_services/` unless they start with `src/`.

- [Inventory](#inventory): the parts of the system and what makes each correct
- [Modules](#modules): which module models what, and how
- [Runs](#runs): what TLC checks, on which instances, and why they suffice
- [Proofs](#proofs): what TLAPS proves, and how
- [Where code and documents disagree](#where-code-and-documents-disagree)
- [Not modelled](#not-modelled) and [Plan](#plan)

## Inventory

| part | state | operations | talks to |
|---|---|---|---|
| **Model registry** (`models/model.py`, `services/models/`) | tables `model`, `deployment`, `project`, `flow`; in a process the `Model` object with its `deployment` | `create_model`, `store_deployment`, `load_deployment`, `store_project`, `get_results` | model database client, Prefect, package source |
| **Package source** (`environment/solver.py`) | site-packages, `sys.modules`; in a `Source` what was validated | `validate_source`, `install` | conda, pip, the host of the tarball |
| **Flow runs** (`services/scheduling/`, `flows/flow.py`) | flow versions, flow runs and task runs of the Prefect server | `create_project`, `register_flow`, `run`, `run_and_return` | Prefect, agents, results database |
| **Results and tasks** (`results/`, `tasks/`) | documents of a MongoDB collection, keyed by a hash of inputs, outputs and flow | `SaveDBResult`, `LoadDBResult`, `SaveFile`, `LoadFile`, `configure_lume_services` | results database client, file service |
| **Model database client** (`services/models/db/db.py`) | engine with its connection pool, process id, per context a connection | `connection`, `session`, `execute`, `select`, `insert`, `insert_many` | MySQL |
| **Results database client** (`services/results/mongodb.py`) | process id, per context a `MongoClient` | `client`, `insert_one`, `insert_many`, `find`, `configure`, `disconnect` | MongoDB |
| **File service** (`services/files/`, `files/file.py`) | directories and files, directly or through a mount | `write`, `read`, `dir_exists`, `file_exists`, `create_dir` | operating system |
| **Docker services, CLI** (`docker/compose.py`, `cli/`) | containers and volumes of a docker-compose project | `run_docker_services`, `start-services` | docker-compose |
| **Flow of flows** (`flows/flow_of_flows.py`) | a composed Prefect flow | `validate`, `compose` | Prefect |
| **Configuration** (`config.py`, `tasks/configure.py`) | module globals `context`, `_settings`, and Prefect's configuration | `configure`, `check_local_execution`, `prepare_lume_model_variables` | all services, by injection |
| **Local backend** (`services/scheduling/backends/local.py`) | none | `run`, `run_and_return` | Prefect in process |
| **Run configurations**, **utilities**, **errors**, **serializers** | none | conversions | |

How they interact. A person's script calls `Model`; `Model` calls
`ModelDBService` (each call a transaction of its own through `ModelDB`),
`Source.install` (a subprocess) and, through `Flow` and `SchedulingService`, the
Prefect server. An agent executes the runs in containers, whose tasks configure
the services again from environment variables and call `Result.insert` and
`File.write`. The caller of `run_and_return` watches the run and then reads it,
its tasks and the results in separate requests. Nothing but the databases'
constraints synchronises any of this.

What is hard, and what makes each part correct:

- **Registry.** Reads and writes of one call are separate transactions, and two
  systems (MySQL, Prefect) are written one after the other: races between
  processes that create or deploy the same thing, processes that die in between,
  ids that are carried from one transaction to the next, a stale imported module.
  Correct: keys are unique, references resolve in and between the two systems,
  a client never holds an id of something else, a flow runs the code of its
  deployment's version, a script that is run again finishes.
- **Flow runs.** The caller, the agent and people act at their own pace; timeout,
  cancellation, retries of tasks, partial success. Correct: what a call returns is
  complete, of its own run, and stored; no run is left unwatched without a
  failure; every call ends.
- **Database clients.** Threads share one object and forked processes inherit it;
  connections come from a bounded pool. Correct: a process uses its own
  connections, gives each back, and nobody waits for ever.
- **Files.** Check-then-create and cut-then-write by several processes. Correct: a
  file is whole unless its last writers overlapped, raised or died, and a write alone
  repairs it; a repeated write returns.
- **Docker services.** Clean-up after failures of the set-up, the body and the
  clean-up itself; `KeyboardInterrupt` at any time; two sessions with one project
  name. Correct: nothing is left running or stored that should not be, and what
  should be kept is.
- **Configuration.** Three globals are replaced one after the other, by any thread and
  by a task inside of a flow that runs in the process of its caller; a call may raise
  between the first and the others. Correct: when nobody is configuring, what is
  injected and what tasks read are of one configuration.
- **Local runs and results.** Each task of a flow looks its service up when it runs,
  while other threads configure: a flow may save in one database and load in another.
  Results are coerced on the way into a document, hashed and made objects again by
  two different ways. Correct: a representation that was returned names a document
  of which either way makes the values that were saved (one of them fails for some
  values, see [below](#where-code-and-documents-disagree)); the backend keeps the
  promise of its abstract class; `get_results` returns all results of the deployments
  it asks for, while deployments and results are stored.
- **Package source.** A tarball is fetched once to be validated and once to be
  installed; between them stand five commands that may fail or be the last ones of
  their process, pip keeps what it had installed before it failed, and a package that
  is present is never looked at again. Correct: what is installed is what was
  validated, and its dependencies are there.
- **Flow of flows.** None of its code that changes anything can be reached, see
  [Not modelled](#not-modelled).

`PROJECT.json` lists each hazard at its line with the properties that cover it.

## Modules

One action is one step that others can come between: a transaction, a request, a
subprocess, a system call, an assignment to a shared attribute. What a Python
process does between two such steps is part of the action. An exception is an
action that ends the call; `pc[c]` names the step that caller `c` makes next.

| module | code | |
|---|---|---|
| `ModelCatalog` | | abstract: a catalog of releases that only grows |
| `ModelRegistry` | `models/model.py`, `services/models/service.py`, `services/models/db/schema.py`, `environment/solver.py` | implements `ModelCatalog` |
| `ModelRegistryProofs` | | theorems about it |
| `FlowRun` | `services/scheduling/backends/server.py`, `flows/flow.py`, `models/model.py`, `tasks/db.py`, `results/generic.py` | implements `Backend` |
| `FlowRunProofs` | | theorems about it, that it implements `Backend` among them |
| `ModelDBClient` | `services/models/db/db.py` | |
| `ModelDBClientProofs` | | theorems about it |
| `MongodbClient` | `services/results/mongodb.py` | |
| `MongodbClientProofs` | | theorems about it |
| `FileStore` | `services/files/`, `files/file.py`, `tasks/file.py` | |
| `FileStoreProofs` | | theorems about it |
| `ComposeServices` | `docker/compose.py`, `cli/docker_compose.py` | |
| `ComposeServicesProofs` | | theorems about it |
| `GenericResult` | `results/generic.py`, `results/impact.py`, `results/utils.py`, `utils.py` | values and functions, no state |
| `Configuration` | `config.py` | |
| `Backend` | `services/scheduling/backends/backend.py` | abstract: what `run_and_return` promises |
| `LocalRuns` | `services/scheduling/backends/local.py`, `tasks/configure.py`, `tasks/db.py`, `flows/flow.py` | on `Configuration` and `GenericResult` |
| `ModelResults` | `models/model.py` over local runs | composes `LocalRuns` with the tables of deployments; implements `Backend` and `Configuration` |
| `ModelResultsProofs` | | theorems about it, `LocalRuns` and `Configuration`; that it implements `Configuration` and `Backend` |
| `PackageSource` | `environment/solver.py` | |
| `PackageSourceProofs` | | theorems about it |

`MC<module>` names the model values of the instances and defines the constants
that are functions or sequences. Each module has a section of *bugs that the
properties are to notice*: variants of an operation with one mistake, which no
specification uses; with the operation replaced by its variant TLC finds the
property violated.

**ModelRegistry.** Tables are sequences or sets of rows; the AUTO_INCREMENT id of
a row is its index (gaps that a failed INSERT leaves in MySQL make no difference
to any property). UNIQUE and FOREIGN KEY constraints are guards of the INSERT
actions with an action for the IntegrityError next to each. A client is a process:
`installed` is its site-packages, `imported` its `sys.modules`, which a second
import does not change. `job[c]` is what the operator wants stored and stays until
the script returned, so a script that raised or died is run again. Prefect hands
out a new flow version for each registration.
`OneVersionPerProcess` says that operators deploy another version from a new
process; without it a property fails (`stale_flow_registered`), with it it is
proved.

**FlowRun.** A run has a state and a state per task; the agent's, the retrying task
runner's and the people's steps interleave with those of callers. A Result's hash
is a function of the task and the parameters, so `documents` counts how often
each was inserted, and a query by hash succeeds when the count is one. `call[c]`
keeps the arguments of the last call, `outcome[c]` how it ended. Task names are
the sets of slugs that contain them (`task_name in slug`). `ImplementsBackend` maps a
caller to a call of `Backend`: it runs from its creation to its return, exception or
death, the tasks of its run that have succeeded are those of `Backend`, and what it
has read counts as answered when it has returned (`Phase`, `NamedTasks`,
`SucceededTasks`).

**ModelDBClient.** `variable`, `engine`, `sessionmaker` and `pid` are the attributes
of the object in each process and are read and assigned in separate steps, as
`_check_mp` and `_create_engine` do; `bind` is the sessionmaker that `session()` has
read inside `connection()`, and that the session is made of after it; `held` are the connections in a thread's context, each under
the ContextVar it was put into, `session` the one a session has checked out.
`Openers` are the threads that put `with model_db.connection()` blocks around their
calls.

**MongodbClient.** `clients` counts what a thread has opened and not closed, `current`
says whether its context has one; `cleanup` is the local variable of `client()`. A call
of `ResultsDBService.insert_many` ends before it gets to a client (`ServiceRaises`): it
hands its items over as the name of the collection.

**FileStore.** A file is the sequence of pieces its writers have written, each at
its own offset; opening cuts it. A serializer ends a write after its last piece, or
raises: of an object in `Broken` when it has written what it can, of any when the
filesystem is full. `marred` is a history variable: the files whose last writers
overlapped, raised or died. `_check_mounted_path` looks for two texts anywhere in the
path: `Aliased` are the directories in which that of the alias occurs, and `Replaced` says
what becomes of those in which that of the mounted path does. A match that spans the end of the
directory and the name of the file is left out. A call that met a directory somebody else had just
made may be called again, as a Prefect task with retries is. `Filesystems` are the
identifiers in use; the local filesystem is the mounted one with no path to map, so
the run has the mounted one alone, which keeps it small.

**ComposeServices.** `containers` and `stored` are shared by all callers of a project;
`call[c]` is the frame of one call with its clean-up loop. mysql and mongodb keep
their data in their container, prefect in a named volume (`docker-compose.yml`).
`KeyboardInterrupt` passes every `except Exception`.

**GenericResult.** A field of a Result is a dictionary of values, each of a kind (a
number, a text that is a number, an array, a frame, ...) with a content: what the
validators coerce, what a document keeps and what a load makes of it are functions on
kinds. `files`, `others` and `config` are the fields that a class has of its own: those
of `ImpactResult` are its two files, the time that was or was not given, and the
dictionary of any values that `get_db_dict` and `load_db_dict` convert like the
inputs. A value of kind `object` has no encoding in MongoDB, and `InsertRaises`. The hash is the part of the values it is taken over, before the coercion. A
Result that its constructor refuses is one for which `ConstructRaises` holds.

**Configuration.** `prefect`, `context` and `settings` name the settings that each
global was made of. A call is `Configure` (up to the new container), `SetContext` and
`SetSettings`; one with settings of an unknown backend raises after the first
assignment. `overlapped`, `alone` and `failed` are history variables: whether the last
call that assigned had the globals to itself, and whether the last one raised.

**LocalRuns** has one action per task of the flow of the documents, in the process of
its caller; the tasks of the threads interleave with each other and with `configure`.
`run[t]` is the run with the states of its tasks; `savedIn` the database that was
injected when `SaveDBResult` ran. Errors end a call with an outcome.

**ModelResults** adds `Model`: `load_deployment`, `run`, `run_and_return`, `get_results`
of one deployment (one query) and of all (one query each, in steps), with the query
dictionary of the caller, into which each step writes. The deployments are those of
`ModelRegistry`, by number. `ImplementsBackend` maps a run to a call of `Backend`.

**PackageSource.** `published` is what a download gives now, so that `validate_source`
and `install` may get different tarballs. `installed` and `present` are shared by the
processes of an environment, `module` and `image` are what each has imported of the
package and of its `_image`. A package that cannot be imported (one of its `imports` is
not `present`) or has no `_image` raises ModuleNotFoundError, which `install` swallows in
its first lines (`InstallUnimportable`) and lets pass in its last (`Import`). pip installs
one of `pending` after the other, in any order; when it fails, or its process ends, what
it has installed stays (`Stops`). A pip that would go on after the process that started it
has ended is modelled as one that stops with it. `undisturbed`, `fresh`, `replaced` and
`halfway` are history variables for what the properties except.

## Runs

All passing runs together fire every action. Deadlock is not checked where a
system may stop because its bounded sessions or calls are over (`ComposeServices`,
`ModelResults`, `PackageSource`).

| run | question | instance |
|---|---|---|
| `registry_safety` | do two storers of one model, two versions each, keep the tables right and deliver what was asked, through a fault? and do they implement `ModelCatalog`? | 2 processes, 1 entry, 2 versions, 1 project, 3 registrations, 1 fault |
| `registry_liveness` | does every script return in the end? | 2 processes, 2 faults, fair |
| `flow_run` | is what is returned complete and stored, and what any backend promises? does every call end, and every run that was given up? | 1 caller, 2 tasks, 2 retries, all task names, 2 faults, fair |
| `flow_run_callers` | do concurrent calls get their own results, is a run left alone? | 2 callers, 2 inputs, 2 runs, 1 fault |
| `model_db_client` | does each process use its own engine and give back its connections? can calls wait for each other? | 3 threads in 2 processes, 2 of them with blocks, pools of 2, 1 fault, fair |
| `mongodb_client` | does a client leak, or is a closed one used? | 2 threads, 2 documents, 2 faults |
| `file_store` | is a file whole that nobody contended for, whoever raised or died before? do repeated writes return? | 2 processes, 3 directories, objects of 1 and 2 pieces, one whose serializer raises after its first, and an empty one, 1 death or full disk, fair |
| `compose` | what do two sessions of one project leave, whatever fails? does each get to its body or its end? | 2 callers, 2 services, 2 faults, fair |
| `local_runs` | does what a local run returns load? are the results of deployments complete? do the globals agree when nobody configures? does a local run keep the promise of a backend? | 2 threads with 2 and 1 calls, 3 settings (one of an unknown backend), 2 databases, 2 deployments, 7 sets of parameters, 1 failing insert |
| `package_source` | is what is installed what was validated, with its dependencies, wherever a command stopped and whatever could not be imported? | 2 processes, 1 path, 3 calls each, 4 releases (one without `_image`, one that imports a dependency of pip), 1 republication, 2 faults |

The runs that end in a violation are in the [table below](#where-code-and-documents-disagree).

**Why the bounds are enough.** The races of the registry are between a SELECT and
the INSERT after it, so two processes show each order of any pair; the third kind
of actor, a reader, is a client without a job. Two versions are what
a mix-up needs (that of entries or projects is left to the proofs), three registrations let one be lost and the deployment still
get two flow rows. One fault stops a call at any of its steps; what several do is
covered by the proofs, which have no bounds. In `FlowRun` two tasks separate
reference tasks from others and one task name from another; two runs with two
inputs are what mixing results needs; two retries let an insert be repeated twice.
`ModelDBClient` needs two threads in a process for a wait and a second process for
the fork. `FileStore` needs a second piece for a torn file and a second writer for a
race; an object that its serializer cannot finish leaves a torn file without either. In `ComposeServices` an error path runs two clean-up loops of two commands,
and two faults fail every command of a loop; the second caller's session runs
before, during or after the first one's. In `local_runs` one thread makes two calls (configure and run, run and
get_results, two runs) while the other makes one, and the calls a run may be are chosen so
that each outcome of each task occurs: a result that is coerced, one without a project,
one that no Result takes, a name that is no variable, an `ImpactResult` without its
config, and ones whose config cannot be stored or cannot be loaded. In `package_source` three calls
validate, install and install again over what somebody left; with two processes
one may publish or install between any two steps of the other, and two faults stop a
pip and the one that is to repair what it left. The bounds on counters
(`MaxRegistrations`, `MaxRuns`, `MaxRetries`, `MaxClients`, `MaxSessions`, `MaxRounds`,
`MaxCalls`, `MaxReleases`, `MaxDeployments`, `MaxFaults`) are named and
are guards of the action they bound. Processes are symmetric where a run says so.

**Fairness.** Weak fairness of a process's own steps: a Python process that is not
blocked goes on, and its requests are answered or fail (`ServiceFails`,
`RequestFails` and their like are bounded, never fair). In detail:

- `registry_liveness` also runs a script again after it raised (`Rerun`), which is
  what an operator with the script of `src/docs/services/models.md` does, and starts
  with the projects known on both sides. It does not assume that anybody else makes
  progress.
- `flow_run` has callers and the agent's cancelling fair, but not the agent's
  start of runs or tasks: `CallsReturn` has to hold when no agent is there, by the
  timeout.
- `model_db_client` has strong fairness of a thread's step, because a free connection
  goes to the thread that has waited longest (SQLAlchemy's queue pool); `PoolTimesOut`
  is not fair. `CallsEnd` needs fewer open blocks in a process than its pool has
  connections: with as many, pool_timeout has to end the wait.
- `file_store` repeats a write that raised FileExistsError.
- `compose` has the calls fair and not the services: one may never answer.

## Proofs

`ModelRegistryProofs` proves for any number of processes, entries, versions,
projects, registrations and faults:

| theorem | states |
|---|---|
| `TypeCorrect` | `Spec => []TypeOK` |
| `KeysCorrect` | `Spec => []KeysUnique` |
| `RowsCorrect` | `Spec => []RowsResolve` |
| `ObjectsCorrect` | `Spec => []ObjectsResolve` |
| `FlowRowsCorrect` | `IsFiniteSet(Clients) => (Spec => []FlowRowsBounded)` |
| `FlowVersionsCorrect` | `OneVersionPerProcess => (Spec => []FlowRunsItsVersion)` |
| `StoreDeliversCorrect` | `OneVersionPerProcess => (Spec => StoreDelivers)` |
| `RegistryImplementsCatalog` | `Spec => ImplementsCatalog` |

Assumptions: `RegistryConstants` (`None` is no version, job or loaded deployment,
the bounds are natural numbers), which TLC evaluates in every run, and
`OneVersionPerProcess` and a finite set of clients where they are written in the
theorem. `InitWith` may know
projects from the start; the theorems are about `Init`.

The argument is one chain of inductive invariants, each proved from those before:

1. `Base` is `TypeOK` with `JobHeld`: a client in a call of a script has a job.
   Without it the actions that read `job[c].version` have no type.
2. `Grows` is a property of steps, not of states: rows and registrations are only
   appended. Whatever a client holds about a row stays true when others move, so
   the case of another client's step is one lemma (`SameHolds`) and not one per
   action.
3. `Held` says what each local variable means at each `pc`: `modelId` is the row of
   the job's entry, `deploymentId` a deployment of that model and of the job's
   version, `loaded` a flow row of it. `ObjectsResolve` follows; it is not inductive
   alone, because a load reads what earlier steps held.
4. `Keys` adds that flow ids in rows and in the hands of clients are distinct and
   registered. `KeysUnique` is not inductive: that an id inserted is new needs that
   nobody else holds it, between `Register` and `StoreFlow`.
5. `Room` says that the rows of a deployment and the clients that are going to store
   one (`Storing`) are together no more than the clients. A client becomes a storer
   only when there is no row, and gives up its place to the row it stores.
6. `Code` adds, under `OneVersionPerProcess`, that the version a client has imported
   is its job's from `install` on, so what it registers is that version.
7. The refinement maps `StoreDeployment` to `Publish`, `StoreFlow` to `Bind` and every
   other action to a stutter, by `Keys` and `Held`.

`ModelDBClientProofs` proves for any number of processes, threads, connections and
faults, with `OneThreadPerFork` (a forked process uses the object from one thread)
where it is written in the theorem; with two threads `model_db_threads` refutes
`OwnEngine`:

| theorem | states |
|---|---|
| `TypeCorrect` | `Spec => []TypeOK` |
| `OwnEngineCorrect` | `OneThreadPerFork => (Spec => []OwnEngine)` |
| `NothingKeptCorrect` | `OneThreadPerFork => (Spec => []NothingKept)` |
| `OneEngineCorrect` | `OneThreadPerFork => (Spec => []OneEngineEach)` |

`Connections` is the invariant behind the first two. Its part `Owned` says that behind
a `_pid` of its own a process has an engine and a sessionmaker of its own, but for the
steps of the thread that is replacing them, in which that thread holds nothing;
`Scoped` says when a context holds a connection: inside a block, or until the call that
opened it leaves `connection()`. Neither target is inductive: `OwnEngine` needs the
former to know what a checkout yields, and `NothingKept` needs both, because what
`connection()` closes is found through the ContextVar that `_create_engine` replaces.
A step of another thread changes nothing a thread depends on (`OthersKept`): that is
where `OneThreadPerFork` is used. `Engines` adds that a thread on its way to a new
engine finds none of its process.

`MongodbClientProofs` proves for any number of threads, documents, clients and faults:

| theorem | states |
|---|---|
| `TypeCorrect` | `Spec => []TypeOK` |
| `OpenCorrect` | `Spec => []OpenWhenUsed` |
| `ClientsCorrect` | `Forked = {} => (Spec => []ClientsAccounted)` |
| `ReturnedCorrect` | `Spec => []ReturnedMeansStored` |

`TypeOK` needs `Opened` here, a thread with a client in its context has one open,
because `clients` is counted down; `ReturnedMeansStored` needs `Acknowledged`, that a
request without failure was stored when the operation reaches its `finally`. A forked
process opens a client per operation, hence the hypothesis of `ClientsCorrect`. Both
modules assume the typing of their constants (`ClientConstants`, `MongoConstants`),
which TLC evaluates.

`FlowRunProofs` proves for any number of callers, tasks, inputs, runs, retries and
faults:

| theorem | states |
|---|---|
| `TypeCorrect` | `Spec => []TypeOK` |
| `ReturnedCompleteCorrect` | `Spec => []ReturnedComplete` |
| `ReturnedStoredCorrect` | `Spec => []ReturnedStored` |
| `ServerImplementsBackend` | `Spec => ImplementsBackend` |
| `UnwatchedCorrect` | `Spec => []UnwatchedBounded` |

`run_and_return` checks the run in one request and reads tasks and results in others, so
nothing it returns follows from the step that returns it. The invariant `Inv` says for
each caller what its earlier requests have established (`CallerHolds`: its run has its
arguments; past the watch it is finished; past the collection the results are values of
tasks that succeeded), and for the agent `Saved`: a save task that is past its insert
has stored its value. They survive the steps of others by `Grows`: runs are appended, a
finished one never changes, one that is being cancelled does not go on, no document is
deleted. `UnwatchedBounded` is an induction over cardinalities on top: a step leaves no
run unwatched, or one and is a failure; `LeftByMover` says that only the caller that
moves can have left it.

The refinement needs `Reading` too: before a call reads the tasks of its run it has read
nothing (otherwise it would end with answers), what has been read is of a finished run
(otherwise what `Backend` knows of a call that has returned could change), and no two
calls in progress have one run (otherwise one step of the agent would be two of
`Backend`). With them a caller's step creates, reads, ends empty or changes nothing that
`Backend` sees (`CallerKinds`), and a step of the agent makes one task succeed for one
call, or for none (`RunStepDoes`).

`FileStoreProofs` proves for any number of processes, directories, files, objects, pieces
and faults:

| theorem | states |
|---|---|
| `TypeCorrect` | `Spec => []TypeOK` |
| `FilesCorrect` | `Spec => []FilesWhole` |

`FilesWhole` says nothing of a file that is being written, so `Written` does: unless it
is marred it has one writer, and its pieces are those its writer has written so
far, in their places. Opening makes that true, whatever the file held before, or the file marred; each piece
keeps it; closing turns it into a whole object of a serializer that did not raise, and a
writer that raises or dies marks what it leaves.

`ComposeServicesProofs` proves for any number of callers, services, sessions and faults:

| theorem | states |
|---|---|
| `TypeCorrect` | `Spec => []TypeOK` |
| `NothingRunsCorrect` | `Spec => []NothingLeftRunning` |
| `NothingStoredCorrect` | `Spec => []NothingLeftStored` |
| `PersistCorrect` | `Spec => PersistKept` |

What is left running or stored says nothing while a clean-up is under way: `StopsAll` and
`RemovesAll` speak of what its remaining commands will do. A caller whose clean-up has
begun runs from the lists that `CleansUp` names (both commands, the last of them, or
`stop`); containers are there only while some caller is still to stop them, was cut off or failed
with all it tried, and data only while one is still to remove it, failed to, was cut off or
is to persist. `PersistKept` is about
steps: of a caller that is to persist and has not raised only `stop` is left.

`ModelResultsProofs` proves for any number of threads, settings, databases, calls,
deployments, parameters and failing inserts:

| theorem | states |
|---|---|
| `SettledCorrect` | `ConfigSpec => []SettledConfiguration` |
| `RunsConfigure` | `Spec => ConfigSpec` |
| `RunsSettled` | `Spec => []SettledConfiguration` |
| `TypeCorrect` | `Spec => []TypeOK` |
| `ResultsCorrect` | `Spec => []ResultsComplete` |
| `SavedCorrect` | `HashesTellApart => (Spec => []SavedLoads)` |
| `LocalImplementsBackend` | `Spec => ImplementsBackend` |

1. `SettledConfiguration` is about moments when nobody configures; `AloneAssigns` is what
   holds on the way: a call that has had the globals to itself is the only one under way,
   and what it has assigned is there. That a process with runs, tasks, queries and stored
   deployments does nothing else to the globals is a refinement, under the identity: every
   action of `ModelResults` is one of `Configuration` or leaves its variables alone, the
   task that configures inside of a flow included.
2. `Base` adds to the types what a run has behind it: the Result is one that `predict` can
   make (`Predicted`), the tasks it has not come to have not ended (`Ahead`), and once a
   run has begun a context is injected and stays (`Injected`). Without `Predicted` the
   documents have no type, without `Injected` the database that `SaveDBResult` uses has
   none.
3. A step is one of a run, of a query, of another process that stores a deployment, or
   none (`StepKinds`): each invariant is proved for these kinds and not for each action.
4. `Asking` follows a query deployment by deployment: it has found all documents of
   those it has got to that were there when it began, and none of others. `Answered` is
   what is left of that when it returns; it holds while documents are added. That each
   document loads is a fact about `get_db_dict` and the constructor, for every value.
5. `AllStored` says that a run past its save has a document in the database that was
   injected then. `SavedLoads` also says that whatever the representation finds there
   can be made the Result that was saved, by `get_results` for all values, and by
   `LoadDBResult` with two exceptions that its conversion of all strings makes: a flow
   id of digits, and a JSON scalar in config. The hash is taken over inputs, outputs and flow id, before
   they are coerced (`results/generic.py:106`): it tells neither the class of a
   Result, nor its config, nor an array of one element from a list of one, although each
   loads in its own way. `HashesTellApart` is the hypothesis that no two runs differ in that alone; TLC
   evaluates it for the parameters of `local_runs`, and one flow, which has one flow
   id and makes one class of Result, meets it when each of its outputs is always an array or
   never, and its config always loads or never.
6. The refinement maps the start of a run by `run_and_return` to `Call`, each task that
   succeeds to `TaskSucceeds` and the return to `Return`; a call of `run`, which promises
   no results, begins with `Leave` and then is out of its sight.

`PackageSourceProofs` proves for any number of processes, paths, releases, calls and
faults:

| theorem | states |
|---|---|
| `DependenciesCorrect` | `Spec => []DependenciesPresent` |
| `InstallCorrect` | `Spec => []InstallDelivers` |

For the first, `Prepared` says that the dependencies for conda are there from the
command on that installs them, that those for pip are there or `pending`, and that what
is fetched is what was validated unless a release was replaced. When the tarball is
installed its pip is under way or done; a pip that stops in between leaves `halfway`,
which only the next installation or removal of the package ends: that is as much as the
code keeps. For the second, `Underway`
follows an install that nobody disturbs: the release at its path is the validated one,
then it is in its hands, then it is in the environment, whichever of its packages pip
installs first; `Served` states both for one process, and another process keeps it or
disturbs it. `PackageSource` assumes that the tarball is none of the dependencies.

All of these modules assume the typing of their constants (`FlowConstants`,
`StoreConstants`, `ConfigurationAssumption`, ...), which TLC evaluates.

`LocalRuns` assumes besides that `Missing`, which stands for what a caller does not
give, is no hash (`MissingIsNoHash`).

Every safety property and every refinement that a run checks is a theorem. Only
model-checked is liveness: `EveryScriptReturns`, `CallsReturn`, `GivenUpRunsEnd`,
`CallsEnd`, `WritesReturn` and `SessionsGoOn`, whose arguments are about fairness and
enabled actions, which are out of the prover's reach. The types of `FlowRun`,
`ModelResults`, `ModelDBClient` and `ComposeServices` are left to the theorems. No theorem is about a recursive definition; the functions
of `GenericResult` are not recursive, and are proved about as they are.

## Where code and documents disagree

Each of these is a run that TLC ends with a counterexample.

| run | what happens |
|---|---|
| `stale_flow_registered` | deploying a second version in one process: the retry after install's ValueError passes, and registers the first version's flow |
| `model_db_threads` | two threads of a forked process: one uses the parent's engine |

These the models have as behaviour, without a run of their own:

| module | what happens | code |
|---|---|---|
| `ModelRegistry` | storing a deployed version into another project returns with the flow of the first | `models/model.py:311` |
| `ModelRegistry` | loading the latest deployment while it is being stored raises FlowNotFoundError, which `load_deployment` does not document | `models/model.py:189` |
| `ModelRegistry` | a failure between the registration of a flow and its row leaves a flow version that no row names | `models/model.py:314` |
| `ModelRegistry` | of two deployments of one second either is the "latest" | `services/models/service.py:253` |
| `FlowRun` | a save task retried after its insert stores the result twice, and the representation does not load any more | `tasks/db.py:210` |
| `FlowRun`, `LocalRuns` | `Model.run_and_return` of a saved result raises TypeError, of all tasks AttributeError | `models/model.py:378` |
| `LocalRuns` | a flow that is run again with the same inputs stores another document of the same hash, and LoadDBResult raises for both | `results/generic.py:131` |
| `LocalRuns` | `run_and_return` reads `e.message` of a ValueError, and raises AttributeError instead | `services/scheduling/backends/local.py:163` |
| `LocalRuns` | `SaveDBResult(log_stdout=False)` raises TypeError: an option that is given but false is given twice | `tasks/db.py:174` |
| `LocalRuns` | `check_local_execution` raises AttributeError while a first `configure` is between its context and its settings | `tasks/configure.py:18` |
| `Configuration` | two calls of `configure` that overlap, or one that raises for an unknown backend, leave services of one configuration and settings of another | `config.py:156` |
| `ModelResults` | `Model(deployment_id=...)` always raises ValidationError | `models/model.py:131` |
| `ModelResults` | `get_results` writes into the query dictionary of its caller, and leaves an empty list in it when it asks for all deployments | `models/model.py:503` |
| `PackageSource` | `install(dry_run=True)` uninstalls another version that is there | `environment/solver.py:302` |
| `PackageSource` | every dependency whose text contains "python" (python-dateutil) or "lume-services" is left out | `environment/solver.py:293` |
| `GenericResult`, `LocalRuns` | an `ImpactResult` whose config holds the text of a JSON scalar (`"1"`) is saved, and `LoadDBResult` raises ValueError for it, although `unique_rep` is to be what is "needed to load" it | `results/generic.py:217` |
| `PackageSource` | pip fails between the package and its dependencies, and the next call of `install` returns without them | `environment/solver.py:266` |
| `PackageSource` | a release that is published between the two downloads is installed with the dependencies of the one that was validated | `environment/solver.py:344` |
| `PackageSource` | a package of the wanted version that cannot be imported is taken for one that is not there, and conda and pip run again | `environment/solver.py:270` |
| `PackageSource` | a version that was built again is not installed over the one of the same number | `environment/solver.py:267` |
| `MongodbClient` | each operation of a forked process leaves a client open | `services/results/mongodb.py:102` |
| `MongodbClient` | `insert_many` of the service raises TypeError: the collection is missing | `services/results/service.py:44` |
| `MongodbClient` | `insert_many` raises AttributeError after it has stored | `services/results/mongodb.py:196` |
| `FileStore` | of two writers that create one directory one raises FileExistsError | `services/files/filesystems/local.py:104` |
| `FileStore` | a path outside of the mount in which the alias occurs is accepted as one within it, although the handler "verifies that the file is within the path" | `services/files/filesystems/mounted.py:127` |
| `FileStore` | a serializer that raises leaves a file that is cut, as a death does | `services/files/filesystems/local.py:109` |
| `FileStore` | `FileService.dir_exists` and `file_exists` return nothing; an unknown filesystem raises TypeError from `logger.error()` | `services/files/service.py:35` |
| `ComposeServices` | a body that raises in a persisting session loses the data of mysql and mongodb | `docker/compose.py:281` |
| `ComposeServices` | Ctrl+C during the set-up leaves containers running | `docker/compose.py:254` |
| `ComposeServices` | the body begins before mongodb answers | `docker/compose.py:30` |

## Not modelled

Formatting, logging and docstrings; serializers beyond the pieces they write; the
conversion of run configurations to Prefect's, and the checks of their fields, which
are one call each without state; the GraphQL and SQL languages; docker images; the schema's
creation and the signatures of callables, which unit tests cover; which attribute of a
loaded result `attribute_index` selects; `get_results_df` and the `flatten_dict` it
lays a table out with, in which columns of config or of other fields may take the
place of an output of the same name; a config with a key `file_type_string`, which
`load_db_dict` takes for a file. config is compared for whether it loads, not for what it
loads as. MySQL, MongoDB, Prefect, conda, pip,
docker-compose and the operating system are modelled from how the code uses them and are
marked external in `PROJECT.json`.

**Flow of flows** has no behaviour that could be reached: built from a list, `validate`
makes `Flow` objects without the field `image`, which `Flow` requires, and raises
(`flows/flow_of_flows.py:53`); built from a dictionary, or assigned to, it replaces the
composing flows by none, so that `compose` never has a flow to compose.

## Plan

Done: `ModelRegistry` with `ModelCatalog`, `FlowRun` and `LocalRuns` with `Backend`,
`ModelDBClient`, `MongodbClient`, `FileStore`, `PackageSource`, `ComposeServices`,
`Configuration`, `GenericResult` and `ModelResults`, each with its proofs.

Next:

1. `ModelResults` in two processes with the tables of `ModelRegistry` itself in place of
   the numbered deployments, where a deployment is stored without its flow for good.
2. `UnwatchedBounded` with the sharper bound per caller: each failure leaves at most the run
   of the call it ended.
3. `InstallDelivers` for a publisher that replaces releases between calls, with the
   hypothesis on which calls it may come between.
