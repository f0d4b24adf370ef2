------------------------ MODULE PackageSourceProofs ------------------------
(***************************************************************************)
(* Theorems about PackageSource, for any number of processes, paths,       *)
(* releases, dependencies, calls and faults.                               *)
(***************************************************************************)
EXTENDS PackageSource, TLAPS

Steps == {"idle", "uninstall", "uninstall dry", "conda", "fetch", "pip", "import"}

\* Releases as install reads them.
Loaded == {load_environment_yaml(r) : r \in Releases}

\* What the variables of the processes are functions of.
Shape ==
  /\ published \in [Paths -> Releases] /\ path \in [Processes -> Paths]
  /\ source \in [Processes -> Loaded \cup {None}]
  /\ DOMAIN module = Processes /\ DOMAIN image = Processes
  /\ DOMAIN fetched = Processes /\ DOMAIN pending = Processes
  /\ step \in [Processes -> Steps]
  /\ DOMAIN outcome = Processes
  /\ undisturbed \in [Processes -> BOOLEAN] /\ fresh \in [Processes -> BOOLEAN]
  /\ replaced \in BOOLEAN /\ halfway \in BOOLEAN

\* The dependencies for conda are there before the tarball is fetched, those for pip
\* are there or pending, and what is fetched is what was validated unless a release
\* was replaced.
Prepared ==
  \A p \in Processes :
    /\ step[p] \in {"fetch", "pip"} => CondaOf(source[p]) \subseteq present
    /\ step[p] # "idle" => source[p] # None
    /\ step[p] = "pip" => PipOf(source[p]) \subseteq present \cup pending[p]
    /\ (step[p] = "pip" /\ ~ replaced) => fetched[p] = source[p]

DependencyInv == Shape /\ Prepared /\ DependenciesPresent

\* What an install that is under way is about: a Source that was validated, a module
\* of its version or none, and for a process that nobody disturbs the release at its
\* path, in its hands once it is fetched, and in the environment once it is installed.
Underway ==
  \A p \in Processes :
    /\ step[p] # "idle" =>
         /\ source[p] # None
         /\ outcome[p] \notin {"Installed", "Present"}
         /\ fresh[p] => \A r \in {module[p], image[p]} \ {None} : r.version = source[p].version
    /\ undisturbed[p] =>
         /\ source[p] # None => load_environment_yaml(published[path[p]]) = source[p]
         /\ step[p] = "pip" => fetched[p] = source[p]
         /\ (step[p] = "pip" /\ tarball \notin pending[p]) => installed = source[p]
         /\ step[p] = "import" => installed = source[p]

DeliveryInv == Shape /\ Underway /\ InstallDelivers

\* The ways in which a call of install begins.
Installs(p) ==
  \/ InstallPresent(p)
  \/ \E dry_run \in BOOLEAN :
       InstallUnimportable(p, dry_run) \/ InstallOver(p, dry_run) \/ InstallNew(p, dry_run)

LEMMA NextCases ==
  ASSUME Next
  PROVE  \/ Publish
         \/ \E p \in Processes :
              \/ Validate(p) \/ ValidateFails(p) \/ Installs(p) \/ Uninstall(p)
              \/ CondaInstall(p) \/ Fetch(p) \/ PipInstall(p) \/ PipInstallDependency(p)
              \/ Import(p) \/ InstallFails(p) \/ Exit(p)
BY DEF Next, Installs

LEMMA PipOfLoaded ==
  ASSUME NEW r \in Loaded
  PROVE  tarball \notin PipOf(r)
<1>1. PICK q \in Releases : r = load_environment_yaml(q)
  BY DEF Loaded
<1>2. q.pip \subseteq Dependencies /\ tarball \notin Dependencies
  BY SourceAssumption
<1>3. r.pip \subseteq q.pip
  BY <1>1 DEF load_environment_yaml, validate_keys
<1> QED BY <1>2, <1>3 DEF PipOf

-----------------------------------------------------------------------------
LEMMA ShapeInit == Init => Shape
BY DEF Init, Shape, Steps

\* A call that begins leaves all but its process's own variables alone.
LEMMA BeginsShape ==
  ASSUME Shape, NEW p \in Processes, Installs(p)
  PROVE  /\ Begins(p)
         /\ fresh' \in [Processes -> BOOLEAN]
         /\ step' = [step EXCEPT ![p] = step'[p]]
         /\ step'[p] \in {"idle", "uninstall", "uninstall dry", "conda"}
         /\ DOMAIN outcome' = Processes /\ DOMAIN module' = Processes /\ DOMAIN image' = Processes
         /\ \A q \in Processes \ {p} :
              outcome'[q] = outcome[q] /\ module'[q] = module[q] /\ image'[q] = image[q]
<1>1. Begins(p)
  BY DEF Installs, InstallPresent, InstallUnimportable, InstallOver, InstallNew
<1>2. fresh' \in [Processes -> BOOLEAN]
  BY <1>1 DEF Begins, Shape
<1> USE DEF Shape
<1>3. CASE InstallPresent(p)
  BY <1>1, <1>2, <1>3 DEF InstallPresent, Ends, Goto
<1>4. ASSUME NEW dry_run \in BOOLEAN, InstallUnimportable(p, dry_run)
      PROVE  /\ step' = [step EXCEPT ![p] = step'[p]]
             /\ step'[p] \in {"idle", "uninstall", "uninstall dry", "conda"}
             /\ DOMAIN outcome' = Processes /\ DOMAIN module' = Processes /\ DOMAIN image' = Processes
             /\ \A q \in Processes \ {p} :
                  outcome'[q] = outcome[q] /\ module'[q] = module[q] /\ image'[q] = image[q]
  BY <1>4 DEF InstallUnimportable, Proceeds, Goto
<1>5. ASSUME NEW dry_run \in BOOLEAN, InstallOver(p, dry_run) \/ InstallNew(p, dry_run)
      PROVE  /\ step' = [step EXCEPT ![p] = step'[p]]
             /\ step'[p] \in {"idle", "uninstall", "uninstall dry", "conda"}
             /\ DOMAIN outcome' = Processes /\ DOMAIN module' = Processes /\ DOMAIN image' = Processes
             /\ \A q \in Processes \ {p} :
                  outcome'[q] = outcome[q] /\ module'[q] = module[q] /\ image'[q] = image[q]
  BY <1>5 DEF InstallOver, InstallNew, Proceeds, Goto, imports
<1> QED BY <1>1, <1>2, <1>3, <1>4, <1>5 DEF Installs

\* What pip's next package changes beside the environment.
LEMMA PipNextShape ==
  ASSUME Shape, NEW p \in Processes, NEW x, PipNext(p, x)
  PROVE  /\ step[p] = "pip" /\ x \in pending[p]
         /\ pending' = [pending EXCEPT ![p] = pending[p] \ {x}]
         /\ step' = [step EXCEPT ![p] = step'[p]]
         /\ step'[p] = IF pending[p] \ {x} = {} THEN "import" ELSE "pip"
         /\ UNCHANGED <<published, releases, source, path, module, image, fetched, outcome,
                        fresh, replaced, calls, faults>>
BY DEF Shape, PipNext, Goto, imports

LEMMA StopsShape ==
  ASSUME Shape, NEW p \in Processes, Stops(p)
  PROVE  /\ present \subseteq present'
         /\ pending' = [pending EXCEPT ![p] = {}]
         /\ halfway' \in BOOLEAN
         /\ halfway' <=> (halfway \/ (step[p] = "pip" /\ tarball \notin pending[p]))
         /\ UNCHANGED <<published, releases, path, fetched, fresh, replaced, calls>>
BY DEF Shape, Stops

LEMMA ShapeStep ==
  ASSUME Shape, [Next]_vars
  PROVE  Shape'
<1> USE DEF Shape
<1>1. CASE Publish
  BY <1>1 DEF Publish, imports
<1>2. ASSUME NEW p \in Processes, Validate(p) \/ ValidateFails(p)
      PROVE  Shape'
  <2>1. CASE Validate(p)
    <3>1. PICK a \in Paths :
            /\ path' = [path EXCEPT ![p] = a]
            /\ source' = [source EXCEPT ![p] =
                            IF LoadError(published[a]) = "None"
                            THEN load_environment_yaml(published[a]) ELSE None]
      BY <2>1 DEF Validate
    <3>2. load_environment_yaml(published[a]) \in Loaded
      BY DEF Loaded
    <3> QED BY <2>1, <3>1, <3>2
            DEF Validate, Ends, Goto, Steps, environment, imports, ghosts
  <2>2. CASE ValidateFails(p)
    BY <2>2 DEF ValidateFails, Ends, Goto, Steps, environment, imports, ghosts
  <2> QED BY <1>2, <2>1, <2>2
<1>3. ASSUME NEW p \in Processes, Installs(p)
      PROVE  Shape'
  <2>1. /\ fresh' \in [Processes -> BOOLEAN]
        /\ step' = [step EXCEPT ![p] = step'[p]] /\ step'[p] \in Steps
        /\ DOMAIN outcome' = Processes /\ DOMAIN module' = Processes /\ DOMAIN image' = Processes
    BY <1>3, BeginsShape DEF Steps
  <2>2. UNCHANGED <<published, source, path, fetched, pending, undisturbed, replaced, halfway>>
    BY <1>3, BeginsShape DEF Begins, environment
  <2> QED BY <2>1, <2>2
<1>4. ASSUME NEW p \in Processes, Uninstall(p)
      PROVE  Shape'
  BY <1>4 DEF Uninstall, Disturbs, Proceeds, Goto, Steps, imports
<1>5. ASSUME NEW p \in Processes, CondaInstall(p) \/ Import(p)
      PROVE  Shape'
  BY <1>5 DEF CondaInstall, Import, Ends, Goto, Steps, environment, imports, ghosts
<1>6. ASSUME NEW p \in Processes, Fetch(p)
      PROVE  Shape'
  BY <1>6 DEF Fetch, Goto, Steps, environment, imports
<1>7. ASSUME NEW p \in Processes, PipInstall(p) \/ PipInstallDependency(p)
      PROVE  Shape'
  <2>1. PICK x : PipNext(p, x)
    BY <1>7 DEF PipInstall, PipInstallDependency
  <2>2. halfway' \in BOOLEAN /\ undisturbed' \in [Processes -> BOOLEAN]
    BY <1>7 DEF PipInstall, PipInstallDependency, Disturbs
  <2> QED BY <2>1, <2>2, PipNextShape DEF Steps
<1>8. ASSUME NEW p \in Processes, InstallFails(p) \/ Exit(p)
      PROVE  Shape'
  <2>1. Stops(p)
    BY <1>8 DEF InstallFails, Exit
  <2>2. undisturbed' \in [Processes -> BOOLEAN]
    BY <1>8 DEF InstallFails, Exit, Disturbs
  <2> QED BY <1>8, <2>1, <2>2, StopsShape DEF InstallFails, Exit, Ends, Goto, Steps, imports
<1>9. CASE UNCHANGED vars
  BY <1>9 DEF vars, environment, imports, ghosts
<1> QED
  BY <1>1, <1>2, <1>3, <1>4, <1>5, <1>6, <1>7, <1>8, <1>9, NextCases

-----------------------------------------------------------------------------
(* Dependencies.                                                            *)

\* A step that changes neither the package nor what a pip is about.
LEMMA QuietDependencies ==
  ASSUME DependencyInv, Shape', NEW p \in Processes,
         step[p] # "pip", step'[p] # "pip",
         step'[p] # "idle" => source'[p] # None,
         step'[p] = "fetch" => CondaOf(source'[p]) \subseteq present',
         \A q \in Processes \ {p} :
           /\ step'[q] = step[q] /\ source'[q] = source[q]
           /\ fetched'[q] = fetched[q] /\ pending'[q] = pending[q],
         present \subseteq present', installed' = installed \/ installed' = None,
         halfway => halfway' \/ installed' = None, replaced' = replaced
  PROVE  DependencyInv'
<1>1. Prepared'
  BY DEF DependencyInv, Prepared
<1>2. DependenciesPresent'
  <2>1. installed' # None => \A q \in Processes : PipUnderWay(q) => PipUnderWay(q)'
    BY DEF PipUnderWay
  <2> QED BY <2>1 DEF DependencyInv, DependenciesPresent
<1> QED BY <1>1, <1>2 DEF DependencyInv

LEMMA PipDependencies ==
  ASSUME DependencyInv, Shape', NEW p \in Processes,
         PipInstall(p) \/ PipInstallDependency(p)
  PROVE  DependencyInv'
<1> USE DEF Shape
<1>0. Shape /\ Prepared /\ DependenciesPresent
  BY DEF DependencyInv
<1>1. CASE PipInstall(p)
  <2>1. /\ step[p] = "pip" /\ tarball \in pending[p]
        /\ pending' = [pending EXCEPT ![p] = pending[p] \ {tarball}]
        /\ step' = [step EXCEPT ![p] = step'[p]]
        /\ step'[p] = IF pending[p] \ {tarball} = {} THEN "import" ELSE "pip"
        /\ UNCHANGED <<source, fetched, replaced>>
    BY <1>0, <1>1, PipNextShape DEF PipInstall
  <2>2. installed' = fetched[p] /\ halfway' = FALSE /\ present' = present
    BY <1>1 DEF PipInstall
  <2>3. /\ source[p] # None /\ CondaOf(source[p]) \subseteq present
        /\ PipOf(source[p]) \subseteq present \cup pending[p]
        /\ ~ replaced => fetched[p] = source[p]
    BY <1>0, <2>1 DEF Prepared
  <2>4. tarball \notin PipOf(source[p])
    BY <1>0, <2>3, PipOfLoaded
  <2>5. PipOf(source[p]) \subseteq present \cup pending'[p]
    BY <1>0, <2>1, <2>3, <2>4
  <2>6. Prepared'
    BY <1>0, <2>1, <2>2, <2>5 DEF Prepared
  <2>7. ASSUME step'[p] = "import" PROVE DependenciesPresent'
    BY <1>0, <2>1, <2>2, <2>3, <2>5, <2>7 DEF DependenciesPresent
  <2>8. ASSUME step'[p] = "pip" PROVE DependenciesPresent'
    <3>1. PipUnderWay(p)'
      BY <1>0, <2>1, <2>2, <2>8 DEF PipUnderWay
    <3> QED BY <2>1, <2>2, <2>3, <3>1 DEF DependenciesPresent
  <2> QED BY <2>1, <2>6, <2>7, <2>8 DEF DependencyInv
<1>2. CASE PipInstallDependency(p)
  <2>1. PICK d \in Dependencies :
          /\ PipNext(p, d) /\ present' = present \cup {d}
          /\ UNCHANGED <<installed, undisturbed, halfway>>
    BY <1>2 DEF PipInstallDependency
  <2>2. /\ step[p] = "pip" /\ d \in pending[p]
        /\ pending' = [pending EXCEPT ![p] = pending[p] \ {d}]
        /\ step' = [step EXCEPT ![p] = step'[p]]
        /\ step'[p] = IF pending[p] \ {d} = {} THEN "import" ELSE "pip"
        /\ UNCHANGED <<source, fetched, replaced>>
    BY <1>0, <2>1, PipNextShape
  <2>3. /\ source[p] # None /\ CondaOf(source[p]) \subseteq present
        /\ PipOf(source[p]) \subseteq present \cup pending[p]
        /\ ~ replaced => fetched[p] = source[p]
    BY <1>0, <2>2 DEF Prepared
  <2>4. PipOf(source[p]) \subseteq present' \cup pending'[p]
    BY <1>0, <2>1, <2>2, <2>3
  <2>5. Prepared'
    BY <1>0, <2>1, <2>2, <2>4 DEF Prepared
  <2>6. d # tarball
    BY SourceAssumption
  <2>7. DependenciesPresent'
    <3> SUFFICES ASSUME installed # None, ~ replaced, ~ halfway,
                        ~ (PipOf(installed) \subseteq present)
                 PROVE  \/ PipOf(installed) \subseteq present'
                        \/ \E q \in Processes : PipUnderWay(q)'
      BY <1>0, <2>1, <2>2 DEF DependenciesPresent
    <3>1. PICK q \in Processes : PipUnderWay(q)
      BY <1>0 DEF DependenciesPresent
    <3>2. CASE q # p
      BY <1>0, <2>1, <2>2, <3>1, <3>2 DEF PipUnderWay
    <3>3. CASE q = p /\ step'[p] = "pip"
      BY <1>0, <2>1, <2>2, <2>6, <3>1, <3>3 DEF PipUnderWay
    <3>4. CASE q = p /\ step'[p] = "import"
      BY <1>0, <2>2, <2>3, <2>4, <3>1, <3>4 DEF PipUnderWay
    <3> QED BY <2>2, <3>2, <3>3, <3>4
  <2> QED BY <2>5, <2>7 DEF DependencyInv
<1> QED BY <1>1, <1>2

\* A pip that stops half-way is what excuses the dependencies that are missing.
LEMMA StopsDependencies ==
  ASSUME DependencyInv, Shape', NEW p \in Processes, InstallFails(p) \/ Exit(p)
  PROVE  DependencyInv'
<1> USE DEF Shape
<1>0. Shape /\ Prepared /\ DependenciesPresent
  BY DEF DependencyInv
<1>1. Stops(p)
  BY DEF InstallFails, Exit
<1>2. /\ present \subseteq present'
      /\ pending' = [pending EXCEPT ![p] = {}]
      /\ halfway' <=> (halfway \/ (step[p] = "pip" /\ tarball \notin pending[p]))
      /\ UNCHANGED <<fetched, replaced>>
  BY <1>0, <1>1, StopsShape
<1>3. /\ step' = [step EXCEPT ![p] = "idle"]
      /\ \A q \in Processes \ {p} : source'[q] = source[q]
      /\ installed' = installed \/ installed' = None
  BY <1>0 DEF InstallFails, Exit, Ends, Goto
<1>4. Prepared'
  BY <1>0, <1>2, <1>3 DEF Prepared
<1>5. \A q \in Processes \ {p} : installed' # None => (PipUnderWay(q) => PipUnderWay(q)')
  BY <1>0, <1>2, <1>3 DEF PipUnderWay
<1>6. PipUnderWay(p) => halfway'
  BY <1>2 DEF PipUnderWay
<1>7. DependenciesPresent'
  BY <1>0, <1>2, <1>3, <1>5, <1>6 DEF DependenciesPresent
<1> QED BY <1>4, <1>7 DEF DependencyInv

LEMMA DependencyStep ==
  ASSUME DependencyInv, [Next]_vars
  PROVE  DependencyInv'
<1> USE DEF Shape
<1>0. Shape /\ Prepared /\ DependenciesPresent /\ Shape'
  BY ShapeStep DEF DependencyInv
<1>1. CASE Publish
  <2>1. UNCHANGED <<installed, present, source, step, fetched, pending, replaced, halfway>>
    BY <1>1 DEF Publish
  <2> QED BY <1>0, <2>1 DEF DependencyInv, Prepared, DependenciesPresent, PipUnderWay
<1>2. ASSUME NEW p \in Processes, Validate(p) \/ ValidateFails(p)
      PROVE  DependencyInv'
  <2>1. /\ step[p] = "idle" /\ step'[p] = "idle"
        /\ \A q \in Processes \ {p} : step'[q] = step[q] /\ source'[q] = source[q]
        /\ UNCHANGED <<installed, present, fetched, pending, replaced, halfway>>
    BY <1>0, <1>2 DEF Validate, ValidateFails, Calling, Ends, Goto, environment, ghosts
  <2> QED BY <1>0, <2>1, QuietDependencies
<1>3. ASSUME NEW p \in Processes, Installs(p)
      PROVE  DependencyInv'
  <2>1. /\ step[p] = "idle" /\ source[p] # None
        /\ UNCHANGED <<installed, present, source, fetched, pending, replaced, halfway>>
    BY <1>0, <1>3, BeginsShape DEF Begins, Calling, environment
  <2>2. /\ step'[p] \notin {"fetch", "pip"}
        /\ \A q \in Processes \ {p} : step'[q] = step[q]
    BY <1>0, <1>3, BeginsShape
  <2> QED BY <1>0, <2>1, <2>2, QuietDependencies
<1>4. ASSUME NEW p \in Processes, Uninstall(p)
      PROVE  DependencyInv'
  <2>1. /\ step[p] \in {"uninstall", "uninstall dry"} /\ installed' = None
        /\ step'[p] \in {"idle", "conda"}
        /\ \A q \in Processes \ {p} : step'[q] = step[q]
        /\ UNCHANGED <<present, source, fetched, pending, replaced>>
    BY <1>0, <1>4 DEF Uninstall, Proceeds, Goto
  <2>2. source[p] # None
    BY <1>0, <2>1 DEF Prepared
  <2> QED BY <1>0, <2>1, <2>2, QuietDependencies
<1>5. ASSUME NEW p \in Processes, CondaInstall(p)
      PROVE  DependencyInv'
  <2>1. /\ step[p] = "conda" /\ step'[p] = "fetch"
        /\ present' = present \cup CondaOf(source[p])
        /\ \A q \in Processes \ {p} : step'[q] = step[q]
        /\ UNCHANGED <<installed, source, fetched, pending, replaced, halfway>>
    BY <1>0, <1>5 DEF CondaInstall, Goto, ghosts
  <2>2. source[p] # None
    BY <1>0, <2>1 DEF Prepared
  <2> QED BY <1>0, <2>1, <2>2, QuietDependencies
<1>6. ASSUME NEW p \in Processes, Fetch(p)
      PROVE  DependencyInv'
  <2>1. /\ step[p] = "fetch" /\ step'[p] = "pip"
        /\ replaced' <=> replaced \/ fetched'[p] # source[p]
        /\ pending'[p] = PipOf(source[p]) \cup {tarball}
        /\ \A q \in Processes \ {p} :
             step'[q] = step[q] /\ fetched'[q] = fetched[q] /\ pending'[q] = pending[q]
        /\ UNCHANGED <<installed, present, source, halfway>>
    BY <1>0, <1>6 DEF Fetch, Goto, environment
  <2>2. Prepared'
    BY <1>0, <2>1 DEF Prepared
  <2>3. \A q \in Processes : PipUnderWay(q) => PipUnderWay(q)'
    BY <1>0, <2>1 DEF PipUnderWay
  <2>4. DependenciesPresent'
    BY <1>0, <2>1, <2>3 DEF DependenciesPresent
  <2> QED BY <1>0, <2>2, <2>4 DEF DependencyInv
<1>7. ASSUME NEW p \in Processes, Import(p)
      PROVE  DependencyInv'
  <2>1. /\ step[p] = "import" /\ step'[p] = "idle"
        /\ \A q \in Processes \ {p} : step'[q] = step[q]
        /\ UNCHANGED <<installed, present, source, fetched, pending, replaced, halfway>>
    BY <1>0, <1>7 DEF Import, Ends, Goto, environment, ghosts
  <2> QED BY <1>0, <2>1, QuietDependencies
<1>8. CASE UNCHANGED vars
  <2>1. UNCHANGED <<installed, present, source, step, fetched, pending, replaced, halfway>>
    BY <1>8 DEF vars, environment, ghosts
  <2> QED BY <1>0, <2>1 DEF DependencyInv, Prepared, DependenciesPresent, PipUnderWay
<1> QED
  BY <1>0, <1>1, <1>2, <1>3, <1>4, <1>5, <1>6, <1>7, <1>8, PipDependencies,
     StopsDependencies, NextCases

LEMMA DependencyInit == Init => DependencyInv
<1> SUFFICES ASSUME Init PROVE DependencyInv
  OBVIOUS
<1>1. Shape
  BY ShapeInit
<1>2. Prepared
  BY DEF Init, Prepared
<1>3. DependenciesPresent
  BY DEF Init, DependenciesPresent
<1> QED BY <1>1, <1>2, <1>3 DEF DependencyInv

\* The package that is in the environment has its dependencies there, however many
\* processes install and whatever failed: those of conda always, those of pip unless a
\* pip stopped half-way, as long as no release was replaced between the two times that
\* it is fetched (solver.py:306-382).
THEOREM DependenciesCorrect == Spec => []DependenciesPresent
<1>1. DependencyInv => DependenciesPresent
  BY DEF DependencyInv
<1> QED BY <1>1, DependencyInit, DependencyStep, PTL DEF Spec

-----------------------------------------------------------------------------
(* What install delivers.                                                   *)

\* A step that leaves all that a process has in hand alone.
Same(q) ==
  /\ source'[q] = source[q] /\ path'[q] = path[q] /\ module'[q] = module[q]
  /\ image'[q] = image[q] /\ step'[q] = step[q] /\ fetched'[q] = fetched[q]
  /\ pending'[q] = pending[q] /\ outcome'[q] = outcome[q] /\ fresh'[q] = fresh[q]
  /\ undisturbed'[q] => undisturbed[q]

\* What DeliveryInv says of one process.
Served(q) ==
  /\ step[q] # "idle" =>
       /\ source[q] # None
       /\ outcome[q] \notin {"Installed", "Present"}
       /\ fresh[q] => \A r \in {module[q], image[q]} \ {None} : r.version = source[q].version
  /\ undisturbed[q] =>
       /\ source[q] # None => load_environment_yaml(published[path[q]]) = source[q]
       /\ step[q] = "pip" => fetched[q] = source[q]
       /\ (step[q] = "pip" /\ tarball \notin pending[q]) => installed = source[q]
       /\ step[q] = "import" => installed = source[q]
  /\ (outcome[q] \in {"Installed", "Present"} /\ undisturbed[q] /\ fresh[q]) =>
       /\ installed # None /\ installed.version = source[q].version
       /\ module[q].version = source[q].version
       /\ image[q].version = source[q].version
       /\ outcome[q] = "Installed" => installed = source[q]

LEMMA DeliveryIsServed == DeliveryInv <=> Shape /\ \A q \in Processes : Served(q)
BY DEF DeliveryInv, Underway, InstallDelivers, Served

\* The steps of the others, which change nothing that a process relies on unless
\* they disturb it.
LEMMA OthersServed ==
  ASSUME NEW q \in Processes, Served(q), Same(q),
         undisturbed'[q] => UNCHANGED <<published, installed>>
  PROVE  Served(q)'
BY DEF Same, Served

LEMMA OthersSame ==
  ASSUME Shape, NEW p \in Processes, NEW q \in Processes \ {p},
         \/ Validate(p) \/ ValidateFails(p) \/ Installs(p) \/ CondaInstall(p)
         \/ Fetch(p) \/ PipInstallDependency(p) \/ Import(p) \/ InstallFails(p)
  PROVE  Same(q) /\ UNCHANGED <<published, installed>>
<1> USE DEF Shape, Same, Ends, Goto, environment, imports, ghosts
<1>1. CASE Validate(p) \/ ValidateFails(p)
  BY <1>1 DEF Validate, ValidateFails
<1>2. CASE Installs(p)
  <2>1. /\ fresh' = [fresh EXCEPT ![p] = fresh'[p]]
        /\ UNCHANGED <<published, installed, source, path, fetched, pending, undisturbed>>
    BY <1>2, BeginsShape DEF Begins
  <2>2. /\ step'[q] = step[q] /\ outcome'[q] = outcome[q]
        /\ module'[q] = module[q] /\ image'[q] = image[q]
    BY <1>2, BeginsShape
  <2> QED BY <2>1, <2>2
<1>3. CASE CondaInstall(p) \/ Fetch(p)
  BY <1>3 DEF CondaInstall, Fetch
<1>4. CASE PipInstallDependency(p)
  <2>1. PICK d : PipNext(p, d) /\ UNCHANGED <<installed, undisturbed>>
    BY <1>4 DEF PipInstallDependency
  <2> QED BY <2>1, PipNextShape
<1>5. CASE Import(p)
  BY <1>5 DEF Import
<1>6. CASE InstallFails(p)
  BY <1>6, StopsShape DEF InstallFails
<1> QED BY <1>1, <1>2, <1>3, <1>4, <1>5, <1>6

LEMMA OthersDisturbed ==
  ASSUME Shape, NEW p \in Processes, NEW q \in Processes \ {p},
         Uninstall(p) \/ PipInstall(p) \/ Exit(p)
  PROVE  Same(q) /\ (undisturbed'[q] => UNCHANGED <<published, installed>>)
<1> USE DEF Shape, Same, Ends, Goto, Disturbs, imports
<1>1. CASE Uninstall(p)
  BY <1>1 DEF Uninstall, Proceeds
<1>2. CASE PipInstall(p)
  <2>1. PipNext(p, tarball) /\ ~ undisturbed'[q]
    BY <1>2 DEF PipInstall
  <2>2. /\ pending'[q] = pending[q] /\ step'[q] = step[q]
        /\ UNCHANGED <<source, path, module, image, fetched, outcome, fresh>>
    BY <2>1, PipNextShape
  <2> QED BY <2>1, <2>2
<1>3. CASE Exit(p)
  <2>1. /\ pending'[q] = pending[q]
        /\ UNCHANGED <<published, path, fetched, fresh>>
    BY <1>3, StopsShape DEF Exit
  <2>2. /\ step'[q] = step[q] /\ outcome'[q] = outcome[q] /\ source'[q] = source[q]
        /\ module'[q] = module[q] /\ image'[q] = image[q]
    BY <1>3 DEF Exit
  <2>3. UNCHANGED <<installed, undisturbed>> \/ ~ undisturbed'[q]
    BY <1>3 DEF Exit
  <2> QED BY <2>1, <2>2, <2>3
<1> QED BY <1>1, <1>2, <1>3

-----------------------------------------------------------------------------
(* The steps of the process itself.                                         *)

LEMMA ValidateServed ==
  ASSUME Shape, NEW p \in Processes, Served(p), Validate(p) \/ ValidateFails(p)
  PROVE  Served(p)'
<1> USE DEF Shape, Ends, Goto, environment, imports, ghosts
<1>1. CASE Validate(p)
  <2>1. PICK a \in Paths :
          /\ step'[p] = "idle"
          /\ outcome'[p] = IF LoadError(published[a]) = "None"
                           THEN "Validated" ELSE LoadError(published[a])
          /\ path'[p] = a
          /\ source'[p] = IF LoadError(published[a]) = "None"
                          THEN load_environment_yaml(published[a]) ELSE None
          /\ UNCHANGED <<published, installed>>
    BY <1>1 DEF Validate
  <2>2. outcome'[p] \notin {"Installed", "Present"}
    BY <2>1 DEF LoadError
  <2> QED BY <2>1, <2>2 DEF Served
<1>2. CASE ValidateFails(p)
  BY <1>2 DEF ValidateFails, Served
<1> QED BY <1>1, <1>2

\* What a process imports is what it had imported, or what is installed.
LEMMA ImportedOrInstalled ==
  ASSUME NEW p \in Processes
  PROVE  /\ Package(p) \in {None, module[p], installed}
         /\ Image(p) \in {None, image[p], installed}
         /\ Image(p) # None => Package(p) # None
         /\ Package(p) # None => Package(p) = module[p] \/ (installed # None /\ Package(p) = installed)
         /\ Image(p) # None => Image(p) = image[p] \/ (installed # None /\ Image(p) = installed)
         /\ module[p] # None => Package(p) = module[p]
BY DEF Package, Image

LEMMA InstallsServed ==
  ASSUME Shape, NEW p \in Processes, Served(p), Installs(p)
  PROVE  Served(p)'
<1> USE DEF Shape
<1>1. /\ step[p] = "idle" /\ source[p] # None
      /\ fresh'[p] => \A r \in {module[p], image[p]} \ {None} : r.version = source[p].version
      /\ UNCHANGED <<published, installed, source, path, fetched, undisturbed>>
  <2>1. Begins(p)
    BY BeginsShape
  <2> QED BY <2>1 DEF Begins, Calling, environment
<1>2. CASE InstallPresent(p)
  <2>1. /\ installed # None /\ installed.version = source[p].version
        /\ Image(p) # None
        /\ step'[p] = "idle" /\ outcome'[p] = "Present"
        /\ module'[p] = Package(p) /\ image'[p] = Image(p)
    BY <1>2 DEF InstallPresent, Ends, Goto
  <2>2. fresh'[p] => module'[p].version = source[p].version
    BY <1>1, <2>1, ImportedOrInstalled
  <2>3. fresh'[p] => image'[p].version = source[p].version
    BY <1>1, <2>1, ImportedOrInstalled
  <2> QED BY <1>1, <2>1, <2>2, <2>3 DEF Served
<1>3. ASSUME NEW dry_run \in BOOLEAN, InstallUnimportable(p, dry_run)
      PROVE  Served(p)'
  <2>1. /\ installed # None /\ installed.version = source[p].version
        /\ module'[p] = Package(p) /\ image' = image
        /\ outcome'[p] \in {"None", "DryRun"} /\ step'[p] \in {"idle", "conda"}
    BY <1>3 DEF InstallUnimportable, Proceeds, Goto
  <2>2. fresh'[p] => \A r \in {module'[p], image'[p]} \ {None} : r.version = source[p].version
    BY <1>1, <2>1, ImportedOrInstalled
  <2> QED BY <1>1, <2>1, <2>2 DEF Served
<1>4. ASSUME NEW dry_run \in BOOLEAN, InstallOver(p, dry_run) \/ InstallNew(p, dry_run)
      PROVE  Served(p)'
  <2>1. /\ module' = module /\ image' = image
        /\ outcome'[p] \in {"None", "DryRun"}
        /\ step'[p] \notin {"pip", "import"}
    BY <1>4 DEF InstallOver, InstallNew, Proceeds, Goto, imports
  <2> QED BY <1>1, <2>1 DEF Served
<1> QED BY <1>2, <1>3, <1>4 DEF Installs

LEMMA CommandsServed ==
  ASSUME Shape, NEW p \in Processes, Served(p),
         Uninstall(p) \/ CondaInstall(p) \/ Fetch(p)
  PROVE  Served(p)'
<1> USE DEF Shape, Goto, environment, imports, ghosts
<1>1. CASE Uninstall(p)
  <2>1. /\ step[p] # "idle" /\ step'[p] \in {"idle", "conda"}
        /\ outcome'[p] \in {"None", "DryRun"}
        /\ undisturbed'[p] => undisturbed[p]
        /\ UNCHANGED <<published, source, path, module, image, fresh>>
    BY <1>1 DEF Uninstall, Disturbs, Proceeds
  <2> QED BY <2>1 DEF Served
<1>2. CASE CondaInstall(p)
  <2>1. /\ step[p] = "conda" /\ step'[p] = "fetch"
        /\ UNCHANGED <<published, installed, source, path, module, image, fresh, outcome,
                       undisturbed>>
    BY <1>2 DEF CondaInstall
  <2> QED BY <2>1 DEF Served
<1>3. CASE Fetch(p)
  <2>1. /\ step[p] = "fetch" /\ step'[p] = "pip"
        /\ fetched'[p] = load_environment_yaml(published[path[p]])
        /\ tarball \in pending'[p]
        /\ UNCHANGED <<published, installed, source, path, module, image, fresh, outcome,
                       undisturbed>>
    BY <1>3 DEF Fetch
  <2> QED BY <2>1 DEF Served
<1> QED BY <1>1, <1>2, <1>3

LEMMA PipServed ==
  ASSUME Shape, NEW p \in Processes, Served(p),
         PipInstall(p) \/ PipInstallDependency(p)
  PROVE  Served(p)'
<1> USE DEF Shape
<1>1. CASE PipInstall(p)
  <2>1. /\ step[p] = "pip" /\ step'[p] \in {"pip", "import"}
        /\ UNCHANGED <<published, source, path, module, image, fetched, outcome, fresh>>
    BY <1>1, PipNextShape DEF PipInstall
  <2>2. installed' = fetched[p] /\ (undisturbed'[p] => undisturbed[p])
    BY <1>1 DEF PipInstall, Disturbs
  <2> QED BY <2>1, <2>2 DEF Served
<1>2. CASE PipInstallDependency(p)
  <2>1. PICK d \in Dependencies :
          PipNext(p, d) /\ UNCHANGED <<installed, undisturbed>>
    BY <1>2 DEF PipInstallDependency
  <2>2. /\ step[p] = "pip"
        /\ pending'[p] = pending[p] \ {d}
        /\ step'[p] = IF pending[p] \ {d} = {} THEN "import" ELSE "pip"
        /\ UNCHANGED <<published, source, path, module, image, fetched, outcome, fresh>>
    BY <2>1, PipNextShape
  <2>3. d # tarball
    BY SourceAssumption
  <2>4. step'[p] = "import" \/ tarball \notin pending'[p] => tarball \notin pending[p]
    BY <2>2, <2>3
  <2> QED BY <2>1, <2>2, <2>4 DEF Served
<1> QED BY <1>1, <1>2

LEMMA EndsServed ==
  ASSUME Shape, NEW p \in Processes, Served(p), Import(p) \/ InstallFails(p) \/ Exit(p)
  PROVE  Served(p)'
<1> USE DEF Shape, Goto, Ends, environment, imports, ghosts
<1>1. CASE Import(p)
  <2>1. /\ step[p] = "import" /\ step'[p] = "idle"
        /\ outcome'[p] # "Present"
        /\ UNCHANGED <<published, installed, source, path, fresh, undisturbed>>
    BY <1>1 DEF Import
  <2>2. outcome'[p] = "Installed" =>
          /\ Package(p) # None /\ Package(p).version = source[p].version /\ Image(p) # None
          /\ module'[p] = Package(p) /\ image'[p] = Image(p)
    BY <1>1 DEF Import
  <2>3. source[p] # None /\ (undisturbed[p] => installed = source[p])
    BY <2>1 DEF Served
  <2>4. fresh[p] => \A r \in {module[p], image[p]} \ {None} : r.version = source[p].version
    BY <2>1 DEF Served
  <2>5. (outcome'[p] = "Installed" /\ undisturbed[p] /\ fresh[p]) =>
          image'[p].version = source[p].version
    BY <2>2, <2>3, <2>4, ImportedOrInstalled
  <2>6. undisturbed[p] => load_environment_yaml(published[path[p]]) = source[p]
    BY <2>3 DEF Served
  <2> QED BY <2>1, <2>2, <2>3, <2>5, <2>6 DEF Served
<1>2. CASE InstallFails(p)
  <2>1. /\ step'[p] = "idle"
        /\ outcome'[p] \notin {"Installed", "Present"}
        /\ UNCHANGED <<source, undisturbed>>
    BY <1>2 DEF InstallFails
  <2>2. UNCHANGED <<published, path>>
    BY <1>2, StopsShape DEF InstallFails
  <2> QED BY <2>1, <2>2 DEF Served
<1>3. CASE Exit(p)
  <2>1. /\ step'[p] = "idle" /\ outcome'[p] = "None" /\ source'[p] = None
    BY <1>3 DEF Exit
  <2> QED BY <2>1 DEF Served
<1> QED BY <1>1, <1>2, <1>3

LEMMA DeliveryStep ==
  ASSUME DeliveryInv, [Next]_vars
  PROVE  DeliveryInv'
<1>1. Shape /\ \A q \in Processes : Served(q)
  BY DeliveryIsServed
<1>2. Shape'
  BY <1>1, ShapeStep
<1>3. ASSUME NEW q \in Processes PROVE Served(q)'
  <2>1. Served(q)
    BY <1>1
  <2>2. CASE Publish
    BY <1>1, <2>1, <2>2, OthersServed DEF Publish, Same, Shape, imports
  <2>3. ASSUME NEW p \in Processes,
               \/ Validate(p) \/ ValidateFails(p) \/ Installs(p) \/ CondaInstall(p)
               \/ Fetch(p) \/ PipInstallDependency(p) \/ Import(p) \/ InstallFails(p)
        PROVE  Served(q)'
    <3>1. CASE p = q
      BY <1>1, <2>1, <2>3, <3>1, ValidateServed, InstallsServed, CommandsServed, PipServed,
         EndsServed
    <3>2. CASE p # q
      BY <1>1, <2>1, <2>3, <3>2, OthersSame, OthersServed
    <3> QED BY <3>1, <3>2
  <2>4. ASSUME NEW p \in Processes, Uninstall(p) \/ PipInstall(p) \/ Exit(p)
        PROVE  Served(q)'
    <3>1. CASE p = q
      BY <1>1, <2>1, <2>4, <3>1, CommandsServed, PipServed, EndsServed
    <3>2. CASE p # q
      BY <1>1, <2>1, <2>4, <3>2, OthersDisturbed, OthersServed
    <3> QED BY <3>1, <3>2
  <2>5. CASE UNCHANGED vars
    BY <2>1, <2>5 DEF vars, environment, imports, ghosts, Served
  <2> QED BY <2>2, <2>3, <2>4, <2>5, NextCases
<1>4. DeliveryInv' <=> Shape' /\ \A q \in Processes : Served(q)'
  BY DeliveryIsServed DEF DeliveryInv, Underway, InstallDelivers, Served
<1> QED BY <1>2, <1>3, <1>4

LEMMA DeliveryInit == Init => DeliveryInv
<1> SUFFICES ASSUME Init PROVE DeliveryInv
  OBVIOUS
<1>1. Shape
  BY ShapeInit
<1>2. Underway /\ InstallDelivers
  BY DEF Init, Underway, InstallDelivers
<1> QED BY <1>1, <1>2 DEF DeliveryInv

\* When install returns to a process that nobody has disturbed, and that has not
\* imported another version, the version that it validated is in the environment and
\* is what it has imported and has its image from, whatever failed, was left half-way
\* or could not be imported before (solver.py:262-289, 384-397).
THEOREM InstallCorrect == Spec => []InstallDelivers
<1>1. DeliveryInv => InstallDelivers
  BY DEF DeliveryInv
<1> QED BY <1>1, DeliveryInit, DeliveryStep, PTL DEF Spec
=============================================================================
