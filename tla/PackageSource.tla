---------------------------- MODULE PackageSource ----------------------------
(***************************************************************************)
(* Source of lume_services/environment/solver.py: the package of a model,  *)
(* whose tarball is validated in one call and installed in another.        *)
(* Processes share a conda environment and the releases that are published *)
(* at the paths, which validate_source and install each fetch for          *)
(* themselves.  conda and pip are what install makes of their commands:    *)
(* pip installs one package after the other, and a command that fails or   *)
(* is stopped keeps what it has installed before.                          *)
(***************************************************************************)
EXTENDS Integers, FiniteSets

CONSTANTS
  Processes,
  Paths,         \* files and URLs of tarballs
  Releases,      \* tarballs: their version, what environment.yml says, what importing
                 \* the package needs, and whether it has a module _image
  Dependencies,  \* dependencies that environment.yml may list
  pip,           \* that on pip itself
  tarball,       \* the tarball among what pip installs
  Mentions,      \* which of "python" and "lume-services" the text of each contains
  None,
  MaxCalls,      \* bound on the calls of each process
  MaxReleases,   \* bound on how often another release is published
  MaxFaults      \* bound on downloads and commands that fail, and on exits

VALID_KEYS == {"name", "dependencies", "prefix", "channels", "variables"}

ASSUME SourceAssumption ==
  /\ pip \in Dependencies /\ tarball \notin Dependencies
  /\ None \notin Releases
  /\ Mentions \in [Dependencies -> SUBSET {"python", "lume-services"}]
  /\ \A r \in Releases :
       /\ r.has_yaml \in BOOLEAN
       /\ "dependencies" \in r.keys        \* the sections of environment.yml
       /\ r.lists \subseteq {"pip", "other"} \* the lists below dependencies
       /\ r.conda \subseteq Dependencies /\ r.pip \subseteq Dependencies
       /\ r.imports \subseteq Dependencies /\ r.image \in BOOLEAN
  /\ MaxCalls \in Nat /\ MaxReleases \in Nat /\ MaxFaults \in Nat

VARIABLES
  published,     \* the release at each path
  installed,     \* the release of the package in the environment, or None
  present,       \* the dependencies in the environment
  source,        \* per process: the release that its Source has validated, or None
  path,          \* per process: the path of that Source
  module,        \* per process: the release that it has imported, or None
  image,         \* per process: the release whose _image it has imported, or None
  step,          \* per process: the step of install that comes next
  fetched,       \* per process: the release that install has downloaded
  pending,       \* per process: what its pip has still to install
  outcome,       \* per process: how its last call ended
  undisturbed,   \* per process: since it validated its Source, nobody else has
                 \* replaced the package in the environment or published anything
  fresh,         \* per process: when its last install began it had imported
                 \* nothing, or the version that it was to install
  replaced,      \* a release was not the one that was validated when it was fetched
  halfway,       \* a pip stopped after it had installed the package and before it had
                 \* installed the dependencies; nobody has installed the package since
  calls, releases, faults

environment == <<published, installed, present, releases>>
imports == <<module, image>>
ghosts == <<undisturbed, fresh, replaced, halfway>>
vars == <<environment, source, path, imports, step, fetched, pending, outcome, ghosts,
          calls, faults>>

-----------------------------------------------------------------------------
(* environment.yml: validate_keys and load_environment_yaml.                *)

\* Sections that are not known are dropped; pip is put before the dependencies
\* when there is a list for it and it is not one of them.
validate_keys(r) ==
  [r EXCEPT !.keys = @ \cap VALID_KEYS,
            !.conda = IF "pip" \in r.lists THEN @ \cup {pip} ELSE @]

\* What loading raises, "None" if nothing.
LoadError(r) ==
  IF ~ r.has_yaml THEN "MissingEnvironmentYamlError"
  ELSE IF "channels" \notin validate_keys(r).keys THEN "KeyError"
  ELSE IF "other" \in r.lists THEN "ValueError"
  ELSE "None"

\* The conda and the pip dependencies; without a list for pip there are none.
load_environment_yaml(r) ==
  [validate_keys(r) EXCEPT !.pip = IF "pip" \in r.lists THEN @ ELSE {}]

\* What install keeps of them: the texts that contain python or lume-services are
\* left out, whatever package they name.
CondaOf(r) == {d \in r.conda : "python" \notin Mentions[d]}
PipOf(r) == {d \in r.pip : "lume-services" \notin Mentions[d]}

Init ==
  /\ published \in [Paths -> Releases]
  /\ installed = None \/ \E r \in Releases :
                           LoadError(r) = "None" /\ installed = load_environment_yaml(r)
  /\ present = IF installed = None THEN {} ELSE CondaOf(installed) \cup PipOf(installed)
  /\ source = [p \in Processes |-> None]
  /\ path \in [Processes -> Paths]
  /\ module \in [Processes -> {None} \cup {r \in {installed} \ {None} : r.imports \subseteq present}]
  /\ image = [p \in Processes |-> None]
  /\ step = [p \in Processes |-> "idle"]
  /\ fetched = [p \in Processes |-> None]
  /\ pending = [p \in Processes |-> {}]
  /\ outcome = [p \in Processes |-> "None"]
  /\ undisturbed = [p \in Processes |-> FALSE]
  /\ fresh = [p \in Processes |-> FALSE]
  /\ replaced = FALSE /\ halfway = FALSE
  /\ calls = [p \in Processes |-> 0]
  /\ releases = 0 /\ faults = 0

-----------------------------------------------------------------------------
Calling(p) ==
  /\ step[p] = "idle"
  /\ calls[p] < MaxCalls
  /\ calls' = [calls EXCEPT ![p] = @ + 1]

Goto(p, s) == step' = [step EXCEPT ![p] = s]

Ends(p, o) ==
  /\ Goto(p, "idle")
  /\ outcome' = [outcome EXCEPT ![p] = o]

\* One of the faults happens.
Fault == faults < MaxFaults /\ faults' = faults + 1

\* Process p changes the package under the others.
Disturbs(p) ==
  undisturbed' = [q \in Processes |-> undisturbed[q] /\ q = p]

\* import_module of the package: what has been imported stays what it is, and what is
\* in the environment is imported if its own imports are there.
Package(p) ==
  IF module[p] # None THEN module[p]
  ELSE IF installed # None /\ installed.imports \subseteq present THEN installed
  ELSE None

\* import_module of its _image, which is looked for in the environment.
Image(p) ==
  IF Package(p) = None THEN None
  ELSE IF image[p] # None THEN image[p]
  ELSE IF installed # None /\ installed.image THEN installed
  ELSE None

\* Source(path=...): the tarball is fetched and read.
Validate(p) ==
  \E a \in Paths :
    LET error == LoadError(published[a]) IN
    /\ Calling(p)
    /\ Ends(p, IF error = "None" THEN "Validated" ELSE error)
    /\ path' = [path EXCEPT ![p] = a]
    /\ source' = [source EXCEPT ![p] =
                    IF error = "None" THEN load_environment_yaml(published[a]) ELSE None]
    /\ undisturbed' = [undisturbed EXCEPT ![p] = TRUE]
    /\ UNCHANGED <<environment, imports, fetched, pending, fresh, replaced, halfway, faults>>

ValidateFails(p) ==
  /\ Calling(p) /\ Fault
  /\ Ends(p, "DownloadError")
  /\ source' = [source EXCEPT ![p] = None]
  /\ UNCHANGED <<environment, path, imports, fetched, pending, ghosts>>

\* A call of install begins.
Begins(p) ==
  /\ Calling(p)
  /\ source[p] # None
  /\ fresh' = [fresh EXCEPT ![p] =
                 \A r \in {module[p], image[p]} \ {None} : r.version = source[p].version]
  /\ UNCHANGED <<environment, source, path, fetched, pending, undisturbed, replaced,
                 halfway, faults>>

Proceeds(p, dry_run, s) ==
  /\ Goto(p, IF dry_run THEN "idle" ELSE s)
  /\ outcome' = [outcome EXCEPT ![p] = IF dry_run THEN "DryRun" ELSE "None"]

-----------------------------------------------------------------------------
(* Bugs that the properties are to notice.                                  *)

\* Whatever is installed of the package is taken for what is wanted.
InstallPresentAnyVersion(p) ==
  /\ Begins(p)
  /\ Image(p) # None
  /\ Ends(p, "Present")
  /\ module' = [module EXCEPT ![p] = Package(p)]
  /\ image' = [image EXCEPT ![p] = Image(p)]

\* The tarball alone is handed to pip.
FetchTarballAlone(p) ==
  /\ step[p] = "fetch"
  /\ fetched' = [fetched EXCEPT ![p] = load_environment_yaml(published[path[p]])]
  /\ pending' = [pending EXCEPT ![p] = {tarball}]
  /\ replaced' = (replaced \/ fetched'[p] # source[p])
  /\ Goto(p, "pip")
  /\ UNCHANGED <<environment, source, path, imports, outcome, undisturbed, fresh, halfway,
                 calls, faults>>

-----------------------------------------------------------------------------
(* Source.install.                                                          *)

\* The wanted version is there: install returns with the image of what it imports,
\* which is what the process has imported already, if it has.
InstallPresent(p) ==
  /\ Begins(p)
  /\ installed # None /\ installed.version = source[p].version
  /\ Image(p) # None
  /\ Ends(p, "Present")
  /\ module' = [module EXCEPT ![p] = Package(p)]
  /\ image' = [image EXCEPT ![p] = Image(p)]

\* It is there and cannot be imported, or has no _image: that ModuleNotFoundError is
\* taken for that of a package that is not there, and install goes on.
InstallUnimportable(p, dry_run) ==
  /\ Begins(p)
  /\ installed # None /\ installed.version = source[p].version
  /\ Image(p) = None
  /\ Proceeds(p, dry_run, "conda")
  /\ module' = [module EXCEPT ![p] = Package(p)]
  /\ UNCHANGED image

\* Another version is there, which is uninstalled next: dry_run is only looked at
\* after that.
InstallOver(p, dry_run) ==
  /\ Begins(p)
  /\ installed # None /\ installed.version # source[p].version
  /\ Goto(p, IF dry_run THEN "uninstall dry" ELSE "uninstall")
  /\ outcome' = [outcome EXCEPT ![p] = "None"]
  /\ UNCHANGED imports

InstallNew(p, dry_run) ==
  /\ Begins(p)
  /\ installed = None
  /\ Proceeds(p, dry_run, "conda")
  /\ UNCHANGED imports

Uninstall(p) ==
  /\ step[p] \in {"uninstall", "uninstall dry"}
  /\ installed' = None
  /\ halfway' = FALSE
  /\ Disturbs(p)
  /\ Proceeds(p, step[p] = "uninstall dry", "conda")
  /\ UNCHANGED <<published, present, releases, source, path, imports, fetched, pending,
                 fresh, replaced, calls, faults>>

CondaInstall(p) ==
  /\ step[p] = "conda"
  /\ present' = present \cup CondaOf(source[p])
  /\ Goto(p, "fetch")
  /\ UNCHANGED <<published, installed, releases, source, path, imports, fetched, pending,
                 outcome, ghosts, calls, faults>>

\* The second download of an URL; a file is read by pip, in the same way.  Then pip
\* install --no-deps is given the pip dependencies and the tarball.
Fetch(p) ==
  /\ step[p] = "fetch"
  /\ fetched' = [fetched EXCEPT ![p] = load_environment_yaml(published[path[p]])]
  /\ pending' = [pending EXCEPT ![p] = PipOf(source[p]) \cup {tarball}]
  /\ replaced' = (replaced \/ fetched'[p] # source[p])
  /\ Goto(p, "pip")
  /\ UNCHANGED <<environment, source, path, imports, outcome, undisturbed, fresh, halfway,
                 calls, faults>>

\* pip installs the next of them, in an order of its own (that of their names); a
\* tarball is installed also over the same version.  After the last one install goes on.
PipNext(p, x) ==
  /\ step[p] = "pip"
  /\ x \in pending[p]
  /\ pending' = [pending EXCEPT ![p] = @ \ {x}]
  /\ IF pending'[p] = {} THEN Goto(p, "import") ELSE UNCHANGED step
  /\ UNCHANGED <<published, releases, source, path, imports, fetched, outcome, fresh,
                 replaced, calls, faults>>

PipInstall(p) ==
  /\ PipNext(p, tarball)
  /\ installed' = fetched[p]
  /\ halfway' = FALSE
  /\ Disturbs(p)
  /\ UNCHANGED present

PipInstallDependency(p) ==
  \E d \in Dependencies :
    /\ PipNext(p, d)
    /\ present' = present \cup {d}
    /\ UNCHANGED <<installed, undisturbed, halfway>>

\* A command of process p stops where it is: conda may have installed some of its
\* packages, pip those that are not pending any more.
Stops(p) ==
  /\ \E some \in SUBSET (IF step[p] = "conda" THEN CondaOf(source[p]) ELSE {}) :
       present' = present \cup some
  /\ halfway' = \/ halfway
                \/ step[p] = "pip" /\ tarball \notin pending[p]
  /\ pending' = [pending EXCEPT ![p] = {}]
  /\ UNCHANGED <<published, releases, path, fetched, fresh, replaced, calls>>

\* One of the commands or the download fails, and install raises.
InstallFails(p) ==
  /\ Fault
  /\ step[p] \notin {"idle", "import"}
  /\ Ends(p, IF step[p] = "conda" THEN "UnableToInstallCondaDependenciesError"
             ELSE IF step[p] = "pip" THEN "UnableToInstallPipDependenciesError"
             ELSE IF step[p] = "fetch" THEN "DownloadError" ELSE "CalledProcessError")
  /\ Stops(p)
  /\ UNCHANGED <<installed, source, imports, undisturbed>>

\* The package is imported, its version looked at, and its _image imported.
Import(p) ==
  LET error == IF Package(p) = None THEN "ModuleNotFoundError"
               ELSE IF Package(p).version # source[p].version THEN "ValueError"
               ELSE IF Image(p) = None THEN "ModuleNotFoundError"
               ELSE "None"
  IN
  /\ step[p] = "import"
  /\ module' = [module EXCEPT ![p] = Package(p)]
  /\ image' = [image EXCEPT ![p] = IF error = "None" THEN Image(p) ELSE @]
  /\ Ends(p, IF error = "None" THEN "Installed" ELSE error)
  /\ UNCHANGED <<environment, source, path, fetched, pending, ghosts, calls, faults>>

\* The process and its command end, at any moment, and another process begins.  A pip
\* that was about to install the tarball may have removed what was there.
Exit(p) ==
  /\ Fault
  /\ source[p] # None \/ module[p] # None
  /\ Ends(p, "None")
  /\ source' = [source EXCEPT ![p] = None]
  /\ module' = [module EXCEPT ![p] = None]
  /\ image' = [image EXCEPT ![p] = None]
  /\ Stops(p)
  /\ \/ UNCHANGED <<installed, undisturbed>>
     \/ /\ step[p] = "pip" /\ tarball \in pending[p]
        /\ installed' = None
        /\ Disturbs(p)

\* Another release is published at the path: a new build of a version, or a file
\* that is made again.
Publish ==
  /\ releases < MaxReleases
  /\ \E a \in Paths, r \in Releases :
       r # published[a] /\ published' = [published EXCEPT ![a] = r]
  /\ releases' = releases + 1
  /\ undisturbed' = [p \in Processes |-> FALSE]
  /\ UNCHANGED <<installed, present, source, path, imports, step, fetched, pending,
                 outcome, fresh, replaced, halfway, calls, faults>>

Next ==
  \/ \E p \in Processes :
       \/ Validate(p) \/ ValidateFails(p)
       \/ InstallPresent(p)
       \/ \E dry_run \in BOOLEAN :
            InstallUnimportable(p, dry_run) \/ InstallOver(p, dry_run) \/ InstallNew(p, dry_run)
       \/ Uninstall(p) \/ CondaInstall(p) \/ Fetch(p)
       \/ PipInstall(p) \/ PipInstallDependency(p) \/ Import(p)
       \/ InstallFails(p) \/ Exit(p)
  \/ Publish

Spec == Init /\ [][Next]_vars

-----------------------------------------------------------------------------
(* Properties.                                                              *)

\* When install has returned, after whatever failed, was left half-way or was
\* imported before, the wanted version is in the environment, and is what the
\* process has imported and has its image from; and unless it was there before, it is
\* the tarball that was validated, whose checksum the registry will hold.  Excepted
\* are calls during which another process installs the package or publishes, and
\* processes that have imported another version (solver.py:262-274, 384-397).
InstallDelivers ==
  \A p \in Processes :
    (outcome[p] \in {"Installed", "Present"} /\ undisturbed[p] /\ fresh[p]) =>
       /\ installed # None /\ installed.version = source[p].version
       /\ module[p].version = source[p].version
       /\ image[p].version = source[p].version
       /\ outcome[p] = "Installed" => installed = source[p]

\* The pip of process p has installed what is there of the package, and is not done.
PipUnderWay(p) ==
  step[p] = "pip" /\ tarball \notin pending[p] /\ installed = fetched[p]

\* A package that is in the environment has its dependencies there, those that
\* install leaves out excepted, however many processes install and whichever of the
\* commands failed or was the last one of its process: what conda installs always, and
\* what pip installs unless a pip is at it, or one stopped half-way since the package
\* was last put there (solver.py:288-382).  Excepted are releases that were replaced
\* between the two times that they are fetched.
DependenciesPresent ==
  (installed # None /\ ~ replaced) =>
    /\ CondaOf(installed) \subseteq present
    /\ \/ PipOf(installed) \subseteq present
       \/ halfway
       \/ \E p \in Processes : PipUnderWay(p)
=============================================================================
