------------------------- MODULE ModelRegistryProofs -------------------------
(***************************************************************************)
(* Theorems of ModelRegistry, for any number of processes, entries,         *)
(* versions, projects and failures.                                         *)
(***************************************************************************)
EXTENDS ModelRegistry, SequenceTheorems, FiniteSetTheorems, TLAPS

USE DEF vars, tables, prefect, packages, objects, locals

(***************************************************************************)
(* Types.                                                                   *)
(***************************************************************************)

LEMMA TypeInit == Init => TypeOK
BY RegistryConstants DEF Init, InitWith, TypeOK, Labels

\* An exception only resets the program counter and the local variables.
LEMMA RaiseType ==
  ASSUME NEW c \in Clients, TypeOK, Raise(c),
         installed' \in [Clients -> Versions \cup {None}],
         imported' \in [Clients -> Versions \cup {None}],
         faults' \in Nat
  PROVE  TypeOK'
BY DEF TypeOK, Raise, Leave, Goto, Labels

LEMMA FlowFoundType ==
  ASSUME NEW c \in Clients, TypeOK, NEW code \in Versions \cup {None},
         FlowFound(c, code),
         imported' \in [Clients -> Versions \cup {None}]
  PROVE  TypeOK'
<1>1. PICK f \in get_flow(deploymentId[c]) :
        loaded' = [loaded EXCEPT ![c] = [deployment_id |-> deploymentId[c],
                                         flow_id |-> f.flow_id,
                                         project_name |-> f.project_name,
                                         code |-> code]]
  BY DEF FlowFound
<1>2. f \in FlowRows
  BY DEF get_flow, TypeOK
<1>3. loaded' \in [Clients -> LoadedDeployments \cup {None}]
  BY <1>1, <1>2 DEF TypeOK, FlowRows, LoadedDeployments
<1> QED
  BY <1>3 DEF TypeOK, FlowFound, Leave, Goto, Labels

LEMMA StoreDeploymentType ==
  ASSUME NEW c \in Clients, TypeOK, StoreDeployment(c), job[c] # None
  PROVE  TypeOK'
<1>1. Seconds \subseteq Nat
  <2>1. deployments = <<>> \/ deployments[Len(deployments)] \in Deployments
    BY DEF TypeOK
  <2> QED
    BY <2>1 DEF Seconds, Deployments
<1>2. PICK now \in Nat :
        deployments' = Append(deployments, [model_id |-> modelId[c],
                                            version |-> job[c].version,
                                            deploy_date |-> now])
  BY <1>1 DEF StoreDeployment
<1>3. [model_id |-> modelId[c], version |-> job[c].version, deploy_date |-> now]
        \in Deployments
  BY DEF TypeOK, Jobs, Deployments
<1>4. deployments' \in Seq(Deployments)
  BY <1>2, <1>3, AppendProperties DEF TypeOK
<1>5. Len(deployments) + 1 \in Nat
  BY DEF TypeOK
<1> QED
  BY <1>4, <1>5 DEF TypeOK, StoreDeployment, Goto, Labels

\* The calls that store_deployment and create_model make on behalf of a script.
ScriptLabels == {"get_model", "store_model", "install", "get_deployment",
                 "store_deployment", "get_flow", "register", "store_flow"}

\* A script is only in the middle of a call while it has its arguments.
JobHeld ==
  \A c \in Clients :
    /\ pc[c] \in ScriptLabels => job[c] # None
    /\ pc[c] = "load_flow" => job[c] = None

Base == TypeOK /\ JobHeld

\* A client's step either moves it to another call of its script, or ends the
\* call it is in.
Moves(c) ==
  /\ job[c] # None
  /\ \E label \in ScriptLabels \cup {"load_artifacts"} : Goto(c, label)
  /\ job' = job

Ends(c) ==
  /\ Goto(c, "idle")
  /\ job' = job \/ job' = [job EXCEPT ![c] = None]

LEMMA ProceedMovesOrEnds ==
  ASSUME NEW c \in Clients, Base, Proceed(c)
  PROVE  Moves(c) \/ Ends(c)
<1> USE DEF Base, JobHeld, Moves, Ends, ScriptLabels
<1>1. CASE FindModel(c) \/ MissModel(c) \/ StoreModel(c) \/ InstallPresent(c)
  BY <1>1 DEF FindModel, MissModel, StoreModel, InstallPresent
<1>2. CASE InstallPackage(c)
  BY <1>2 DEF InstallPackage, Raise, Leave
<1>3. CASE FindDeployment(c) \/ MissDeployment(c) \/ StoreDeployment(c)
  BY <1>3 DEF FindDeployment, MissDeployment, StoreDeployment
<1>4. CASE FindFlow(c) \/ MissFlow(c) \/ Register(c) \/ StoreFlow(c)
  BY <1>4 DEF FindFlow, MissFlow, Register, StoreFlow
<1>5. CASE \/ StoreModelConflict(c) \/ StoreDeploymentConflict(c)
           \/ RegisterRefused(c) \/ StoreFlowUnknownProject(c)
           \/ LoadFlowMissing(c) \/ LoadArtifactsMissing(c)
  BY <1>5 DEF StoreModelConflict, StoreDeploymentConflict, RegisterRefused,
     StoreFlowUnknownProject, LoadFlowMissing, LoadArtifactsMissing, Raise, Leave
<1>6. CASE LoadFlow(c) \/ LoadArtifacts(c)
  BY <1>6 DEF LoadFlow, LoadArtifacts, FlowFound, Leave
<1> QED
  BY <1>1, <1>2, <1>3, <1>4, <1>5, <1>6 DEF Proceed

LEMMA JobHeldStep ==
  ASSUME Base, [Next]_vars
  PROVE  JobHeld'
<1> USE DEF Base, JobHeld, TypeOK, Goto, ScriptLabels
<1>1. ASSUME NEW c \in Clients, Moves(c) \/ Ends(c)
      PROVE  JobHeld'
  BY <1>1 DEF Moves, Ends
<1>2. ASSUME NEW c \in Clients, NEW j \in Jobs, StartScript(c, j)
      PROVE  JobHeld'
  BY <1>2, RegistryConstants DEF StartScript
<1>3. ASSUME NEW c \in Clients,
             OpenModel(c) \/ OpenDeployment(c) \/ OpenLatest(c)
      PROVE  JobHeld'
  BY <1>3 DEF OpenModel, OpenDeployment, OpenLatest, LoadDeployment
<1>4. ASSUME NEW c \in Clients, InstallFails(c) \/ ServiceFails(c) \/ Exit(c)
      PROVE  JobHeld'
  BY <1>4 DEF InstallFails, ServiceFails, Exit, Raise, Leave
<1>5. ASSUME NEW p \in Projects, StoreProject(p) \/ CreateProject(p)
      PROVE  JobHeld'
  BY <1>5 DEF StoreProject, CreateProject
<1>6. CASE UNCHANGED vars
  BY <1>6
<1> QED
  BY <1>1, <1>2, <1>3, <1>4, <1>5, <1>6, ProceedMovesOrEnds DEF Next

\* Each action keeps the types.
LEMMA TypeStep ==
  ASSUME Base, [Next]_vars
  PROVE  TypeOK'
<1> USE RegistryConstants DEF Base
<1> DEFINE Simple == Versions \cup {None}
<1>1. ASSUME NEW c \in Clients, NEW j \in Jobs, StartScript(c, j)
      PROVE  TypeOK'
  BY <1>1 DEF StartScript, TypeOK, Goto, Labels
<1>2. ASSUME NEW c \in Clients, FindModel(c)
      PROVE  TypeOK'
  BY <1>2 DEF FindModel, get_model, TypeOK, Goto, Labels
<1>3. ASSUME NEW c \in Clients, MissModel(c)
      PROVE  TypeOK'
  BY <1>3 DEF MissModel, TypeOK, Goto, Labels
<1>4. ASSUME NEW c \in Clients, StoreModel(c)
      PROVE  TypeOK'
  <2>1. job[c].entry \in Entries
    BY <1>4 DEF StoreModel, JobHeld, ScriptLabels, TypeOK, Jobs
  <2>2. models' \in Seq(Entries) /\ Len(models) + 1 \in Nat
    BY <1>4, <2>1, AppendProperties DEF StoreModel, TypeOK
  <2> QED
    BY <1>4, <2>2 DEF StoreModel, TypeOK, Goto, Labels
<1>5. ASSUME NEW c \in Clients, StoreModelConflict(c)
      PROVE  TypeOK'
  BY <1>5, RaiseType DEF StoreModelConflict, TypeOK
<1>6. ASSUME NEW c \in Clients, InstallPresent(c)
      PROVE  TypeOK'
  <2>1. job[c].version \in Versions
    BY <1>6 DEF InstallPresent, JobHeld, ScriptLabels, TypeOK, Jobs
  <2> QED
    BY <1>6, <2>1 DEF InstallPresent, ImportedAfter, TypeOK, Goto, Labels
<1>7. ASSUME NEW c \in Clients, InstallPackage(c)
      PROVE  TypeOK'
  <2>1. job[c].version \in Versions
    BY <1>7 DEF InstallPackage, JobHeld, ScriptLabels, TypeOK, Jobs
  <2>2. /\ installed' \in [Clients -> Simple]
        /\ imported' \in [Clients -> Simple]
        /\ faults' \in Nat
    BY <1>7, <2>1 DEF InstallPackage, ImportedAfter, TypeOK
  <2>3. CASE Raise(c)
    BY <2>2, <2>3, RaiseType
  <2>4. CASE Goto(c, "get_deployment") /\ UNCHANGED <<tables, prefect, objects, job, locals>>
    BY <2>2, <2>4 DEF TypeOK, Goto, Labels
  <2> QED
    BY <1>7, <2>3, <2>4 DEF InstallPackage
<1>8. ASSUME NEW c \in Clients, InstallFails(c)
      PROVE  TypeOK'
  <2>1. /\ installed' \in [Clients -> Simple]
        /\ imported' \in [Clients -> Simple]
        /\ faults' \in Nat
    BY <1>8 DEF InstallFails, TypeOK
  <2> QED
    BY <1>8, <2>1, RaiseType DEF InstallFails
<1>9. ASSUME NEW c \in Clients, FindDeployment(c)
      PROVE  TypeOK'
  BY <1>9 DEF FindDeployment, get_deployment, get_deployments, TypeOK, Goto, Labels
<1>10. ASSUME NEW c \in Clients, MissDeployment(c)
      PROVE  TypeOK'
  BY <1>10 DEF MissDeployment, TypeOK, Goto, Labels
<1>11. ASSUME NEW c \in Clients, StoreDeployment(c)
      PROVE  TypeOK'
  BY <1>11, StoreDeploymentType DEF JobHeld, ScriptLabels, StoreDeployment
<1>12. ASSUME NEW c \in Clients, StoreDeploymentConflict(c)
      PROVE  TypeOK'
  BY <1>12, RaiseType DEF StoreDeploymentConflict, TypeOK
<1>13. ASSUME NEW c \in Clients, FindFlow(c)
      PROVE  TypeOK'
  BY <1>13 DEF FindFlow, TypeOK, Goto, Labels
<1>14. ASSUME NEW c \in Clients, MissFlow(c)
      PROVE  TypeOK'
  BY <1>14 DEF MissFlow, TypeOK, Goto, Labels
<1>15. ASSUME NEW c \in Clients, Register(c)
      PROVE  TypeOK'
  <2>1. [project_name |-> job[c].project_name, version |-> imported[c]] \in FlowVersions
    BY <1>15 DEF Register, JobHeld, ScriptLabels, TypeOK, Jobs, FlowVersions
  <2>2. registered' \in Seq(FlowVersions) /\ Len(registered) + 1 \in Nat
    BY <1>15, <2>1, AppendProperties DEF Register, TypeOK
  <2> QED
    BY <1>15, <2>2 DEF Register, TypeOK, Goto, Labels
<1>16. ASSUME NEW c \in Clients, RegisterRefused(c)
      PROVE  TypeOK'
  BY <1>16, RaiseType DEF RegisterRefused, TypeOK
<1>17. ASSUME NEW c \in Clients, StoreFlow(c)
      PROVE  TypeOK'
  <2>1. [flow_id |-> flowId[c], deployment_id |-> deploymentId[c],
         project_name |-> job[c].project_name] \in FlowRows
    BY <1>17 DEF StoreFlow, JobHeld, ScriptLabels, TypeOK, Jobs, FlowRows
  <2> QED
    BY <1>17, <2>1 DEF StoreFlow, TypeOK, Goto, Labels
<1>18. ASSUME NEW c \in Clients, StoreFlowUnknownProject(c)
      PROVE  TypeOK'
  BY <1>18, RaiseType DEF StoreFlowUnknownProject, TypeOK
<1>19. ASSUME NEW c \in Clients, LoadFlow(c)
      PROVE  TypeOK'
  BY <1>19, FlowFoundType DEF LoadFlow, TypeOK
<1>20. ASSUME NEW c \in Clients, LoadArtifacts(c)
      PROVE  TypeOK'
  <2>1. imported' \in [Clients -> Simple] /\ imported'[c] \in Simple
    BY <1>20 DEF LoadArtifacts, ImportedAfter, TypeOK
  <2> QED
    BY <1>20, <2>1, FlowFoundType DEF LoadArtifacts
<1>21. ASSUME NEW c \in Clients, LoadFlowMissing(c)
      PROVE  TypeOK'
  BY <1>21, RaiseType DEF LoadFlowMissing, TypeOK
<1>22. ASSUME NEW c \in Clients, LoadArtifactsMissing(c)
      PROVE  TypeOK'
  BY <1>22, RaiseType DEF LoadArtifactsMissing, TypeOK
<1>23. ASSUME NEW c \in Clients, OpenModel(c)
      PROVE  TypeOK'
  BY <1>23 DEF OpenModel, TypeOK
<1>24. ASSUME NEW c \in Clients, NEW ids \in SUBSET DOMAIN deployments,
             LoadDeployment(c, ids)
      PROVE  TypeOK'
  BY <1>24 DEF LoadDeployment, TypeOK, Goto, Labels
<1>25. ASSUME NEW p \in Projects, StoreProject(p)
      PROVE  TypeOK'
  BY <1>25 DEF StoreProject, TypeOK
<1>26. ASSUME NEW p \in Projects, CreateProject(p)
      PROVE  TypeOK'
  BY <1>26 DEF CreateProject, TypeOK
<1>27. ASSUME NEW c \in Clients, ServiceFails(c)
      PROVE  TypeOK'
  <2>1. /\ installed' \in [Clients -> Simple]
        /\ imported' \in [Clients -> Simple]
        /\ faults' \in Nat
    BY <1>27 DEF ServiceFails, TypeOK
  <2> QED
    BY <1>27, <2>1, RaiseType DEF ServiceFails
<1>28. ASSUME NEW c \in Clients, Exit(c)
      PROVE  TypeOK'
  BY <1>28 DEF Exit, Leave, TypeOK, Goto, Labels
<1>29. CASE UNCHANGED vars
  BY <1>29 DEF TypeOK
<1>30. \A c \in Clients : /\ get_deployments(modelId[c]) \subseteq DOMAIN deployments
                          /\ get_latest_deployment(modelId[c]) \subseteq DOMAIN deployments
  BY DEF get_deployments, get_latest_deployment
<1> QED
  BY <1>1, <1>2, <1>3, <1>4, <1>5, <1>6, <1>7, <1>8, <1>9, <1>10, <1>11, <1>12,
     <1>13, <1>14, <1>15, <1>16, <1>17, <1>18, <1>19, <1>20, <1>21, <1>22, <1>23,
     <1>24, <1>25, <1>26, <1>27, <1>28, <1>29, <1>30
     DEF Next, Proceed, OpenDeployment, OpenLatest

LEMMA BaseInvariant == Spec => []Base
<1>1. Init => Base
  BY TypeInit DEF Base, JobHeld, Init, InitWith, ScriptLabels
<1>2. Base /\ [Next]_vars => Base'
  BY TypeStep, JobHeldStep DEF Base
<1> QED
  BY <1>1, <1>2, PTL DEF Spec

\* Every reachable state is well typed: ids are numbers, and what a client holds is
\* a value of its kind or None.
THEOREM TypeCorrect == Spec => []TypeOK
BY BaseInvariant, PTL DEF Base

(***************************************************************************)
(* The tables and the Prefect server only grow, and no row changes.         *)
(***************************************************************************)

Grows ==
  /\ \A m \in DOMAIN models : m \in DOMAIN models' /\ models'[m] = models[m]
  /\ \A d \in DOMAIN deployments :
       d \in DOMAIN deployments' /\ deployments'[d] = deployments[d]
  /\ \A r \in DOMAIN registered :
       r \in DOMAIN registered' /\ registered'[r] = registered[r]
  /\ projects \subseteq projects'
  /\ flows \subseteq flows'

\* Appending a row leaves the others where they were.
LEMMA AppendKeeps ==
  ASSUME NEW S, NEW s \in Seq(S), NEW e \in S
  PROVE  /\ DOMAIN Append(s, e) = (DOMAIN s) \cup {Len(s) + 1}
         /\ Len(s) + 1 \notin DOMAIN s
         /\ \A i \in DOMAIN s : Append(s, e)[i] = s[i]
         /\ Append(s, e)[Len(s) + 1] = e
<1>1. /\ Append(s, e) \in Seq(S)
      /\ Len(Append(s, e)) = Len(s) + 1
      /\ \A i \in 1 .. Len(s) : Append(s, e)[i] = s[i]
      /\ Append(s, e)[Len(s) + 1] = e
  BY AppendProperties
<1>2. DOMAIN s = 1 .. Len(s) /\ DOMAIN Append(s, e) = 1 .. (Len(s) + 1) /\ Len(s) \in Nat
  BY <1>1
<1> QED
  BY <1>1, <1>2

\* What StoreModel, StoreDeployment and Register append.
LEMMA StoreModelAppends ==
  ASSUME Base, NEW c \in Clients, StoreModel(c)
  PROVE  /\ job[c] \in Jobs
         /\ DOMAIN models' = (DOMAIN models) \cup {Len(models) + 1}
         /\ Len(models) + 1 \notin DOMAIN models
         /\ \A m \in DOMAIN models : models'[m] = models[m]
         /\ models'[Len(models) + 1] = job[c].entry
<1>1. job[c] \in Jobs /\ job[c].entry \in Entries
  BY DEF Base, JobHeld, ScriptLabels, StoreModel, TypeOK, Jobs
<1> QED
  BY <1>1, AppendKeeps DEF Base, TypeOK, StoreModel

LEMMA StoreDeploymentAppends ==
  ASSUME Base, NEW c \in Clients, StoreDeployment(c)
  PROVE  /\ job[c] \in Jobs
         /\ DOMAIN deployments' = (DOMAIN deployments) \cup {Len(deployments) + 1}
         /\ Len(deployments) + 1 \notin DOMAIN deployments
         /\ \A d \in DOMAIN deployments : deployments'[d] = deployments[d]
         /\ deployments'[Len(deployments) + 1].model_id = modelId[c]
         /\ deployments'[Len(deployments) + 1].version = job[c].version
<1>1. job[c] \in Jobs /\ job[c].version \in Versions
  BY DEF Base, JobHeld, ScriptLabels, StoreDeployment, TypeOK, Jobs
<1>2. Seconds \subseteq Nat
  <2>1. deployments = <<>> \/ deployments[Len(deployments)] \in Deployments
    BY DEF Base, TypeOK
  <2> QED
    BY <2>1 DEF Seconds, Deployments
<1>3. PICK now \in Nat :
        deployments' = Append(deployments, [model_id |-> modelId[c],
                                            version |-> job[c].version,
                                            deploy_date |-> now])
  BY <1>2 DEF StoreDeployment
<1> DEFINE row == [model_id |-> modelId[c], version |-> job[c].version,
                   deploy_date |-> now]
<1>4. row \in Deployments /\ row.model_id = modelId[c] /\ row.version = job[c].version
  BY <1>1 DEF Base, TypeOK, Deployments
<1>5. deployments' = Append(deployments, row)
  BY <1>3
<1> HIDE DEF row
<1>6. deployments \in Seq(Deployments)
  BY DEF Base, TypeOK
<1> QED
  BY <1>1, <1>4, <1>5, <1>6, AppendKeeps

LEMMA RegisterAppends ==
  ASSUME Base, NEW c \in Clients, Register(c)
  PROVE  /\ job[c] \in Jobs
         /\ DOMAIN registered' = (DOMAIN registered) \cup {Len(registered) + 1}
         /\ Len(registered) + 1 \notin DOMAIN registered
         /\ \A r \in DOMAIN registered : registered'[r] = registered[r]
         /\ registered'[Len(registered) + 1].project_name = job[c].project_name
         /\ registered'[Len(registered) + 1].version = imported[c]
<1> DEFINE row == [project_name |-> job[c].project_name, version |-> imported[c]]
<1>1. job[c] \in Jobs
  BY DEF Base, JobHeld, ScriptLabels, Register, TypeOK
<1>2. /\ row \in FlowVersions
      /\ row.project_name = job[c].project_name
      /\ row.version = imported[c]
  BY <1>1 DEF Base, TypeOK, FlowVersions, Jobs
<1>3. registered' = Append(registered, row)
  BY DEF Register
<1> HIDE DEF row
<1>4. registered \in Seq(FlowVersions)
  BY DEF Base, TypeOK
<1> QED
  BY <1>1, <1>2, <1>3, <1>4, AppendKeeps

\* Only four calls write a row or register a flow.
LEMMA WritersOnly ==
  ASSUME [Next]_vars
  PROVE  \/ UNCHANGED <<models, deployments, flows, registered>> /\ projects \subseteq projects'
         \/ \E c \in Clients :
              StoreModel(c) \/ StoreDeployment(c) \/ Register(c) \/ StoreFlow(c)
<1> DEFINE Kept == UNCHANGED <<models, deployments, flows, registered, projects>>
<1>1. ASSUME NEW p \in Projects, StoreProject(p) \/ CreateProject(p)
      PROVE  UNCHANGED <<models, deployments, flows, registered>> /\ projects \subseteq projects'
  BY <1>1 DEF StoreProject, CreateProject
<1>2. ASSUME NEW c \in Clients,
             \/ \E j \in Jobs : StartScript(c, j)
             \/ FindModel(c) \/ MissModel(c)
             \/ StoreModelConflict(c) \/ InstallPresent(c) \/ InstallPackage(c)
             \/ FindDeployment(c) \/ MissDeployment(c) \/ StoreDeploymentConflict(c)
      PROVE  Kept
  BY <1>2 DEF StartScript, FindModel, MissModel, StoreModelConflict, InstallPresent,
     InstallPackage, FindDeployment, MissDeployment, StoreDeploymentConflict, Raise
<1>3. ASSUME NEW c \in Clients,
             \/ FindFlow(c) \/ MissFlow(c) \/ RegisterRefused(c)
             \/ StoreFlowUnknownProject(c) \/ LoadFlow(c) \/ LoadArtifacts(c)
             \/ LoadFlowMissing(c) \/ LoadArtifactsMissing(c)
      PROVE  Kept
  BY <1>3 DEF FindFlow, MissFlow, RegisterRefused, StoreFlowUnknownProject, LoadFlow,
     LoadArtifacts, FlowFound, LoadFlowMissing, LoadArtifactsMissing, Raise
<1>4. ASSUME NEW c \in Clients,
             \/ OpenModel(c) \/ OpenDeployment(c) \/ OpenLatest(c)
             \/ InstallFails(c) \/ ServiceFails(c) \/ Exit(c)
      PROVE  Kept
  BY <1>4 DEF OpenModel, OpenDeployment, OpenLatest, LoadDeployment, InstallFails,
     ServiceFails, Exit, Raise
<1>5. CASE UNCHANGED vars
  BY <1>5
<1> QED
  BY <1>1, <1>2, <1>3, <1>4, <1>5 DEF Next, Proceed

LEMMA GrowsStep ==
  ASSUME Base, [Next]_vars
  PROVE  Grows
<1>1. CASE UNCHANGED <<models, deployments, flows, registered>> /\ projects \subseteq projects'
  BY <1>1 DEF Grows
<1>2. ASSUME NEW c \in Clients, StoreModel(c)
      PROVE  Grows
  BY <1>2, StoreModelAppends DEF Grows, StoreModel
<1>3. ASSUME NEW c \in Clients, StoreDeployment(c)
      PROVE  Grows
  BY <1>3, StoreDeploymentAppends DEF Grows, StoreDeployment
<1>4. ASSUME NEW c \in Clients, Register(c)
      PROVE  Grows
  BY <1>4, RegisterAppends DEF Grows, Register
<1>5. ASSUME NEW c \in Clients, StoreFlow(c)
      PROVE  Grows
  BY <1>5 DEF Grows, StoreFlow
<1> QED
  BY <1>1, <1>2, <1>3, <1>4, <1>5, WritersOnly

(***************************************************************************)
(* What a client carries from one call to the next.                         *)
(***************************************************************************)

BeforeDeployment == {"get_deployment", "store_deployment"}
Deployed         == {"get_flow", "register", "store_flow"}
Loading          == {"load_flow", "load_artifacts"}

\* The model, the deployment and the loaded flow that client c holds.
HoldsModel(c) ==
  pc[c] \in {"install"} \cup BeforeDeployment \cup Deployed \cup Loading =>
    /\ modelId[c] \in DOMAIN models
    /\ job[c] # None => models[modelId[c]] = job[c].entry

HoldsDeployment(c) ==
  IF pc[c] \in Deployed \cup Loading
  THEN /\ deploymentId[c] \in DOMAIN deployments
       /\ deployments[deploymentId[c]].model_id = modelId[c]
       /\ job[c] # None => deployments[deploymentId[c]].version = job[c].version
  ELSE deploymentId[c] = 0

HoldsLoaded(c) ==
  loaded[c] # None =>
    /\ loaded[c].deployment_id \in DOMAIN deployments
    /\ deployments[loaded[c].deployment_id].model_id = modelId[c]
    /\ \E f \in flows : /\ f.deployment_id = loaded[c].deployment_id
                        /\ f.flow_id = loaded[c].flow_id
                        /\ f.project_name = loaded[c].project_name

\* During the first two calls Model.deployment is not set.
NothingLoaded(c) ==
  pc[c] \in {"get_model", "store_model"} => loaded[c] = None

Holds(c) ==
  HoldsModel(c) /\ HoldsDeployment(c) /\ HoldsLoaded(c) /\ NothingLoaded(c)

\* Every deployment row is one of a stored model.
DeploymentsResolve ==
  \A d \in DOMAIN deployments : deployments[d].model_id \in DOMAIN models

Same(c) ==
  /\ pc'[c] = pc[c]
  /\ job'[c] = job[c]
  /\ modelId'[c] = modelId[c]
  /\ loaded'[c] = loaded[c]
  /\ deploymentId'[c] = deploymentId[c]
  /\ flowId'[c] = flowId[c]
  /\ imported'[c] = imported[c]

\* The steps of other clients do not invalidate it: rows are never deleted.
LEMMA SameHolds ==
  ASSUME Base, Grows, NEW c \in Clients, Holds(c), Same(c)
  PROVE  Holds(c)'
BY DEF Base, TypeOK, Grows, Holds, HoldsModel, HoldsDeployment, HoldsLoaded, NothingLoaded,
   Same, BeforeDeployment, Deployed, Loading

\* A step is the step of one client, or of none.
LEMMA OneClientSteps ==
  ASSUME Base, NEW c \in Clients, NEW e \in Clients, e # c,
         \/ \E j \in Jobs : StartScript(c, j)
         \/ Proceed(c)
         \/ OpenModel(c) \/ OpenDeployment(c) \/ OpenLatest(c)
         \/ InstallFails(c) \/ ServiceFails(c) \/ Exit(c)
  PROVE  Same(e)
<1> USE DEF Base, TypeOK, Same, Goto
<1>1. CASE \E j \in Jobs : StartScript(c, j)
  BY <1>1 DEF StartScript
<1>2. CASE \/ FindModel(c) \/ MissModel(c) \/ StoreModel(c)
           \/ FindDeployment(c) \/ MissDeployment(c) \/ StoreDeployment(c)
  BY <1>2 DEF FindModel, MissModel, StoreModel, FindDeployment, MissDeployment,
     StoreDeployment
<1>3. CASE \/ StoreModelConflict(c) \/ StoreDeploymentConflict(c)
           \/ RegisterRefused(c) \/ StoreFlowUnknownProject(c)
           \/ LoadFlowMissing(c) \/ LoadArtifactsMissing(c)
  BY <1>3 DEF StoreModelConflict, StoreDeploymentConflict, RegisterRefused,
     StoreFlowUnknownProject, LoadFlowMissing, LoadArtifactsMissing, Raise, Leave
<1>4. CASE InstallPresent(c) \/ InstallPackage(c) \/ InstallFails(c)
  BY <1>4 DEF InstallPresent, InstallPackage, InstallFails, Raise, Leave
<1>5. CASE FindFlow(c) \/ MissFlow(c) \/ Register(c) \/ StoreFlow(c)
  BY <1>5 DEF FindFlow, MissFlow, Register, StoreFlow
<1>6. CASE LoadFlow(c) \/ LoadArtifacts(c)
  BY <1>6 DEF LoadFlow, LoadArtifacts, FlowFound, Leave
<1>7. CASE OpenModel(c) \/ OpenDeployment(c) \/ OpenLatest(c)
  BY <1>7 DEF OpenModel, OpenDeployment, OpenLatest, LoadDeployment
<1>8. CASE ServiceFails(c) \/ Exit(c)
  BY <1>8 DEF ServiceFails, Exit, Raise, Leave
<1> QED
  BY <1>1, <1>2, <1>3, <1>4, <1>5, <1>6, <1>7, <1>8 DEF Proceed

LEMMA RaiseHolds ==
  ASSUME Base, Grows, NEW c \in Clients, Holds(c), Raise(c)
  PROVE  Holds(c)'
BY DEF Base, TypeOK, Grows, Holds, HoldsModel, HoldsDeployment, HoldsLoaded, NothingLoaded,
   Raise, Leave, Goto, BeforeDeployment, Deployed, Loading

LEMMA FlowFoundHolds ==
  ASSUME Base, Grows, NEW c \in Clients, Holds(c), pc[c] \in Loading,
         NEW code, FlowFound(c, code)
  PROVE  Holds(c)'
<1>1. PICK f \in get_flow(deploymentId[c]) :
        loaded' = [loaded EXCEPT ![c] = [deployment_id |-> deploymentId[c],
                                         flow_id |-> f.flow_id,
                                         project_name |-> f.project_name,
                                         code |-> code]]
  BY DEF FlowFound
<1>2. /\ loaded'[c].deployment_id = deploymentId[c]
      /\ loaded'[c].flow_id = f.flow_id
      /\ loaded'[c].project_name = f.project_name
  BY <1>1 DEF Base, TypeOK
<1>3. f \in flows /\ f.deployment_id = deploymentId[c]
  BY DEF get_flow
<1>4. pc'[c] = "idle" /\ deploymentId'[c] = 0 /\ modelId' = modelId
  BY DEF FlowFound, Leave, Goto, Base, TypeOK
<1>5. UNCHANGED <<deployments, flows>>
  BY DEF FlowFound
<1>6. HoldsLoaded(c)'
  BY <1>2, <1>3, <1>4, <1>5 DEF Holds, HoldsDeployment, HoldsLoaded, Deployed, Loading
<1> QED
  BY <1>4, <1>6 DEF Holds, HoldsModel, HoldsDeployment, NothingLoaded, BeforeDeployment,
     Deployed, Loading

\* The client that takes the step.
LEMMA MoverHolds ==
  ASSUME Base, Grows, DeploymentsResolve, NEW c \in Clients, Holds(c),
         \/ \E j \in Jobs : StartScript(c, j)
         \/ Proceed(c)
         \/ OpenModel(c) \/ OpenDeployment(c) \/ OpenLatest(c)
         \/ InstallFails(c) \/ ServiceFails(c) \/ Exit(c)
  PROVE  Holds(c)'
<1> USE DEF Holds, BeforeDeployment, Deployed, Loading
<1>0. TypeOK
  BY DEF Base
<1>1. CASE \E j \in Jobs : StartScript(c, j)
  BY <1>0, <1>1 DEF StartScript, Goto, HoldsModel, HoldsDeployment, HoldsLoaded,
     NothingLoaded, TypeOK
<1>2. CASE FindModel(c)
  BY <1>0, <1>2 DEF FindModel, get_model, Goto, HoldsModel, HoldsDeployment, HoldsLoaded,
     NothingLoaded, TypeOK
<1>3. CASE MissModel(c)
  BY <1>0, <1>3 DEF MissModel, Goto, HoldsModel, HoldsDeployment, HoldsLoaded,
     NothingLoaded, TypeOK
<1>4. CASE StoreModel(c)
  BY <1>0, <1>4, StoreModelAppends DEF StoreModel, Goto, HoldsModel, HoldsDeployment,
     HoldsLoaded, NothingLoaded, TypeOK
<1>5. CASE InstallPresent(c)
  BY <1>0, <1>5 DEF InstallPresent, Goto, HoldsModel, HoldsDeployment, HoldsLoaded,
     NothingLoaded, TypeOK
<1>6. CASE InstallPackage(c)
  <2>1. CASE Raise(c)
    BY <2>1, RaiseHolds
  <2>2. CASE /\ Goto(c, "get_deployment")
             /\ UNCHANGED <<tables, prefect, objects, job, locals>>
    BY <1>0, <1>6, <2>2 DEF InstallPackage, Goto, HoldsModel, HoldsDeployment, HoldsLoaded,
       NothingLoaded, TypeOK
  <2> QED
    BY <1>6, <2>1, <2>2 DEF InstallPackage
<1>7. CASE FindDeployment(c)
  BY <1>0, <1>7 DEF FindDeployment, get_deployment, get_deployments, Goto, HoldsModel,
     HoldsDeployment, HoldsLoaded, NothingLoaded, TypeOK
<1>8. CASE MissDeployment(c)
  BY <1>0, <1>8 DEF MissDeployment, Goto, HoldsModel, HoldsDeployment, HoldsLoaded,
     NothingLoaded, TypeOK
<1>9. CASE StoreDeployment(c)
  <2>1. /\ pc[c] = "store_deployment" /\ pc'[c] = "get_flow"
        /\ deploymentId'[c] = Len(deployments) + 1
        /\ UNCHANGED <<models, flows, modelId, loaded, job>>
    BY <1>0, <1>9 DEF StoreDeployment, Goto, TypeOK
  <2>2. HoldsModel(c)' /\ NothingLoaded(c)'
    BY <2>1 DEF HoldsModel, NothingLoaded
  <2>3. HoldsDeployment(c)'
    BY <1>9, <2>1, StoreDeploymentAppends DEF HoldsDeployment
  <2>4. HoldsLoaded(c)'
    BY <1>9, <2>1, StoreDeploymentAppends DEF HoldsLoaded
  <2> QED
    BY <2>2, <2>3, <2>4
<1>10. CASE FindFlow(c) \/ MissFlow(c)
  BY <1>0, <1>10 DEF FindFlow, MissFlow, Goto, HoldsModel, HoldsDeployment, HoldsLoaded,
     NothingLoaded, TypeOK
<1>11. CASE Register(c)
  BY <1>0, <1>11 DEF Register, Goto, HoldsModel, HoldsDeployment, HoldsLoaded,
     NothingLoaded, TypeOK
<1>12. CASE StoreFlow(c)
  <2>1. /\ pc[c] = "store_flow" /\ pc'[c] = "load_artifacts"
        /\ UNCHANGED <<models, deployments, modelId, loaded, job, deploymentId>>
        /\ flows \subseteq flows'
    BY <1>0, <1>12 DEF StoreFlow, Goto, TypeOK
  <2> QED
    BY <2>1 DEF HoldsModel, HoldsDeployment, HoldsLoaded, NothingLoaded
<1>13. CASE \/ StoreModelConflict(c) \/ StoreDeploymentConflict(c)
            \/ RegisterRefused(c) \/ StoreFlowUnknownProject(c)
            \/ LoadFlowMissing(c) \/ LoadArtifactsMissing(c)
            \/ InstallFails(c) \/ ServiceFails(c)
  BY <1>13, RaiseHolds DEF StoreModelConflict, StoreDeploymentConflict,
     RegisterRefused, StoreFlowUnknownProject, LoadFlowMissing, LoadArtifactsMissing,
     InstallFails, ServiceFails
<1>14. CASE LoadFlow(c) \/ LoadArtifacts(c)
  BY <1>14, FlowFoundHolds DEF LoadFlow, LoadArtifacts
<1>15. CASE OpenModel(c)
  BY <1>0, <1>15 DEF OpenModel, HoldsModel, HoldsDeployment, HoldsLoaded, NothingLoaded,
     TypeOK
<1>16. CASE OpenDeployment(c) \/ OpenLatest(c)
  <2>1. PICK d \in get_deployments(modelId[c]) :
          deploymentId' = [deploymentId EXCEPT ![c] = d]
    BY <1>16 DEF OpenDeployment, OpenLatest, LoadDeployment, get_latest_deployment
  <2>2. /\ pc'[c] \in Loading /\ job[c] = None
        /\ UNCHANGED <<tables, modelId, loaded, job>>
    BY <1>0, <1>16 DEF OpenDeployment, OpenLatest, LoadDeployment, Goto, TypeOK
  <2>3. d \in DOMAIN deployments /\ deployments[d].model_id = modelId[c]
    BY DEF get_deployments
  <2> QED
    BY <1>0, <2>1, <2>2, <2>3 DEF DeploymentsResolve, HoldsModel, HoldsDeployment, HoldsLoaded, NothingLoaded, TypeOK
<1>17. CASE Exit(c)
  BY <1>0, <1>17 DEF Exit, Leave, Goto, HoldsModel, HoldsDeployment, HoldsLoaded,
     NothingLoaded, TypeOK
<1> QED
  BY <1>1, <1>2, <1>3, <1>4, <1>5, <1>6, <1>7, <1>8, <1>9, <1>10, <1>11, <1>12,
     <1>13, <1>14, <1>15, <1>16, <1>17 DEF Proceed

Held == DeploymentsResolve /\ \A c \in Clients : Holds(c)

LEMMA HeldStep ==
  ASSUME Base, Held, [Next]_vars
  PROVE  Held'
<1>1. Grows
  BY GrowsStep
<1>2. DeploymentsResolve'
  <2>1. CASE UNCHANGED deployments
    BY <1>1, <2>1 DEF Held, DeploymentsResolve, Grows
  <2>2. ASSUME NEW c \in Clients, StoreDeployment(c)
        PROVE  DeploymentsResolve'
    <3>1. modelId[c] \in DOMAIN models
      BY <2>2 DEF Held, Holds, HoldsModel, StoreDeployment, BeforeDeployment
    <3> QED
      BY <2>2, <3>1, StoreDeploymentAppends DEF Held, DeploymentsResolve, StoreDeployment
  <2>3. UNCHANGED deployments \/ \E c \in Clients : StoreDeployment(c)
    BY WritersOnly DEF StoreModel, Register, StoreFlow
  <2> QED
    BY <2>1, <2>2, <2>3
<1>3. ASSUME NEW c \in Clients,
             \/ \E j \in Jobs : StartScript(c, j)
             \/ Proceed(c)
             \/ OpenModel(c) \/ OpenDeployment(c) \/ OpenLatest(c)
             \/ InstallFails(c) \/ ServiceFails(c) \/ Exit(c)
      PROVE  \A e \in Clients : Holds(e)'
  <2>1. Holds(c)'
    BY <1>1, <1>3, MoverHolds DEF Held
  <2>2. ASSUME NEW e \in Clients, e # c
        PROVE  Holds(e)'
    BY <1>1, <1>3, <2>2, OneClientSteps, SameHolds DEF Held
  <2> QED
    BY <2>1, <2>2
<1>4. ASSUME \A e \in Clients : Same(e)
      PROVE  \A e \in Clients : Holds(e)'
  BY <1>1, <1>4, SameHolds DEF Held
<1>5. ASSUME NEW p \in Projects, StoreProject(p) \/ CreateProject(p)
      PROVE  \A e \in Clients : Same(e)
  BY <1>5 DEF StoreProject, CreateProject, Same
<1>6. \A e \in Clients : Holds(e)'
  <2>1. CASE Next
    <3>1. CASE \E p \in Projects : StoreProject(p) \/ CreateProject(p)
      BY <1>4, <1>5, <3>1
    <3> QED
      BY <1>3, <2>1, <3>1 DEF Next
  <2>2. CASE UNCHANGED vars
    BY <1>4, <2>2 DEF Same
  <2> QED
    BY <2>1, <2>2
<1> QED
  BY <1>2, <1>6 DEF Held

LEMMA HeldInvariant == Spec => []Held
<1>1. Init => Held
  BY DEF Init, InitWith, Held, DeploymentsResolve, Holds, HoldsModel, HoldsDeployment,
     HoldsLoaded, NothingLoaded, BeforeDeployment, Deployed, Loading
<1>2. Base /\ Held /\ [Next]_vars => Held'
  BY HeldStep
<1> QED
  BY <1>1, <1>2, BaseInvariant, PTL DEF Spec

\* Between two calls a client never holds a stale id: its deployment is one of its
\* model, and Model.deployment names a flow row of that deployment.
THEOREM ObjectsCorrect == Spec => []ObjectsResolve
<1>1. Base /\ Held => ObjectsResolve
  BY DEF Held, Holds, HoldsDeployment, HoldsLoaded, ObjectsResolve, get_deployments, get_flow
<1> QED
  BY <1>1, BaseInvariant, HeldInvariant, PTL

(***************************************************************************)
(* Keys.                                                                    *)
(***************************************************************************)

ModelKeys ==
  \A m, n \in DOMAIN models : models[m] = models[n] => m = n

DeploymentKeys ==
  \A d, e \in DOMAIN deployments :
    /\ deployments[d].model_id = deployments[e].model_id
    /\ deployments[d].version = deployments[e].version
    => d = e

\* A flow row, and a client that is about to store one, has a flow id of its own:
\* Prefect gave it out for that project.
RowFlowIds ==
  \A f \in flows :
    /\ f.deployment_id \in DOMAIN deployments
    /\ f.project_name \in projects
    /\ f.flow_id \in DOMAIN registered
    /\ registered[f.flow_id].project_name = f.project_name

HeldFlowIds ==
  \A c \in Clients : pc[c] = "store_flow" =>
    /\ flowId[c] \in DOMAIN registered
    /\ registered[flowId[c]].project_name = job[c].project_name
    /\ \A f \in flows : f.flow_id # flowId[c]

FlowIdsDistinct ==
  /\ \A f, g \in flows : f.flow_id = g.flow_id => f = g
  /\ \A c, e \in Clients :
       pc[c] = "store_flow" /\ pc[e] = "store_flow" /\ flowId[c] = flowId[e] => c = e

Keys == ModelKeys /\ DeploymentKeys /\ RowFlowIds /\ HeldFlowIds /\ FlowIdsDistinct

\* A client is about to store a flow only because it has registered it.
LEMMA OnlyRegisterEnters ==
  ASSUME Base, [Next]_vars, NEW c \in Clients, pc'[c] = "store_flow"
  PROVE  Register(c) \/ (pc[c] = "store_flow" /\ Same(c))
<1> USE DEF Base, TypeOK, Goto
<1>1. CASE UNCHANGED vars
  BY <1>1 DEF Same
<1>2. CASE \E p \in Projects : StoreProject(p) \/ CreateProject(p)
  BY <1>2 DEF StoreProject, CreateProject, Same
<1>3. ASSUME NEW e \in Clients,
             \/ \E j \in Jobs : StartScript(e, j)
             \/ Proceed(e)
             \/ OpenModel(e) \/ OpenDeployment(e) \/ OpenLatest(e)
             \/ InstallFails(e) \/ ServiceFails(e) \/ Exit(e)
      PROVE  Register(c) \/ (pc[c] = "store_flow" /\ Same(c))
  <2>1. CASE e # c
    BY <1>3, <2>1, OneClientSteps DEF Same
  <2>2. CASE e = c
    <3>1. CASE \E j \in Jobs : StartScript(c, j)
      BY <3>1 DEF StartScript
    <3>2. CASE \/ FindModel(c) \/ MissModel(c) \/ StoreModel(c)
               \/ InstallPresent(c) \/ InstallPackage(c)
               \/ FindDeployment(c) \/ MissDeployment(c) \/ StoreDeployment(c)
      BY <3>2 DEF FindModel, MissModel, StoreModel, InstallPresent, InstallPackage,
         FindDeployment, MissDeployment, StoreDeployment, Raise, Leave
    <3>3. CASE \/ StoreModelConflict(c) \/ StoreDeploymentConflict(c)
               \/ RegisterRefused(c) \/ StoreFlowUnknownProject(c)
               \/ LoadFlowMissing(c) \/ LoadArtifactsMissing(c)
               \/ InstallFails(c) \/ ServiceFails(c)
      BY <3>3 DEF StoreModelConflict, StoreDeploymentConflict, RegisterRefused,
         StoreFlowUnknownProject, LoadFlowMissing, LoadArtifactsMissing,
         InstallFails, ServiceFails, Raise, Leave
    <3>4. CASE FindFlow(c) \/ MissFlow(c) \/ StoreFlow(c)
      BY <3>4 DEF FindFlow, MissFlow, StoreFlow
    <3>5. CASE LoadFlow(c) \/ LoadArtifacts(c)
      BY <3>5 DEF LoadFlow, LoadArtifacts, FlowFound, Leave
    <3>6. CASE OpenModel(c)
      BY <3>6 DEF OpenModel
    <3>7. CASE OpenDeployment(c) \/ OpenLatest(c)
      BY <3>7 DEF OpenDeployment, OpenLatest, LoadDeployment
    <3>8. CASE Exit(c)
      BY <3>8 DEF Exit, Leave
    <3> QED
      BY <1>3, <2>2, <3>1, <3>2, <3>3, <3>4, <3>5, <3>6, <3>7, <3>8 DEF Proceed
  <2> QED
    BY <2>1, <2>2
<1> QED
  BY <1>1, <1>2, <1>3 DEF Next

LEMMA StoreFlowAdds ==
  ASSUME Base, Held, NEW c \in Clients, StoreFlow(c)
  PROVE  \E row :
           /\ flows' = flows \cup {row}
           /\ row.flow_id = flowId[c]
           /\ row.project_name = job[c].project_name
           /\ row.project_name \in projects
           /\ row.deployment_id \in DOMAIN deployments
           /\ deployments[row.deployment_id].version = job[c].version
<1> DEFINE row == [flow_id |-> flowId[c], deployment_id |-> deploymentId[c],
                   project_name |-> job[c].project_name]
<1>1. job[c] # None
  BY DEF StoreFlow, Base, JobHeld, ScriptLabels
<1>2. /\ deploymentId[c] \in DOMAIN deployments
      /\ deployments[deploymentId[c]].version = job[c].version
  BY <1>1 DEF Held, Holds, HoldsDeployment, StoreFlow, Deployed
<1>3. /\ flows' = flows \cup {row} /\ row.flow_id = flowId[c]
      /\ row.project_name = job[c].project_name
      /\ row.deployment_id = deploymentId[c]
      /\ job[c].project_name \in projects
  BY DEF StoreFlow
<1> HIDE DEF row
<1> WITNESS row
<1> QED
  BY <1>2, <1>3

LEMMA KeysStep ==
  ASSUME Base, Held, Keys, [Next]_vars
  PROVE  Keys'
<1> USE DEF Keys
<1>1. Grows
  BY GrowsStep
<1>2. ModelKeys'
  <2>1. ASSUME NEW c \in Clients, StoreModel(c)
        PROVE  ModelKeys'
    <3>1. \A m \in DOMAIN models : models[m] # job[c].entry
      BY <2>1 DEF StoreModel, get_model
    <3> QED
      BY <2>1, <3>1, StoreModelAppends DEF ModelKeys
  <2>2. UNCHANGED models \/ \E c \in Clients : StoreModel(c)
    BY WritersOnly DEF StoreDeployment, Register, StoreFlow
  <2> QED
    BY <2>1, <2>2 DEF ModelKeys
<1>3. DeploymentKeys'
  <2>1. ASSUME NEW c \in Clients, StoreDeployment(c)
        PROVE  DeploymentKeys'
    <3>1. \A d \in DOMAIN deployments :
            deployments[d].model_id = modelId[c] => deployments[d].version # job[c].version
      BY <2>1 DEF StoreDeployment, get_deployment, get_deployments
    <3> QED
      BY <2>1, <3>1, StoreDeploymentAppends DEF DeploymentKeys
  <2>2. UNCHANGED deployments \/ \E c \in Clients : StoreDeployment(c)
    BY WritersOnly DEF StoreModel, Register, StoreFlow
  <2> QED
    BY <2>1, <2>2 DEF DeploymentKeys
<1>4. UNCHANGED flows \/ \E c \in Clients : StoreFlow(c)
  BY WritersOnly DEF StoreModel, StoreDeployment, Register
<1>5. RowFlowIds'
  <2>1. CASE UNCHANGED flows
    BY <1>1, <2>1 DEF RowFlowIds, Grows
  <2>2. ASSUME NEW c \in Clients, StoreFlow(c)
        PROVE  RowFlowIds'
    <3>1. UNCHANGED <<deployments, registered, projects>> /\ pc[c] = "store_flow"
      BY <2>2 DEF StoreFlow
    <3> QED
      BY <2>2, <3>1, StoreFlowAdds DEF RowFlowIds, HeldFlowIds
  <2> QED
    BY <1>4, <2>1, <2>2
<1>6. HeldFlowIds'
  <2> SUFFICES ASSUME NEW c \in Clients, pc'[c] = "store_flow"
               PROVE  /\ flowId'[c] \in DOMAIN registered'
                      /\ registered'[flowId'[c]].project_name = job'[c].project_name
                      /\ \A f \in flows' : f.flow_id # flowId'[c]
    BY DEF HeldFlowIds
  <2>1. CASE Register(c)
    <3>1. flowId'[c] = Len(registered) + 1 /\ UNCHANGED <<flows, job>>
      BY <2>1 DEF Register, Base, TypeOK
    <3>2. \A f \in flows : f.flow_id \in DOMAIN registered
      BY DEF RowFlowIds
    <3> QED
      BY <2>1, <3>1, <3>2, RegisterAppends
  <2>2. CASE pc[c] = "store_flow" /\ Same(c)
    <3>1. /\ flowId'[c] \in DOMAIN registered'
          /\ registered'[flowId'[c]].project_name = job'[c].project_name
      BY <1>1, <2>2 DEF HeldFlowIds, Same, Grows
    <3>2. ASSUME NEW e \in Clients, StoreFlow(e)
          PROVE  \A f \in flows' : f.flow_id # flowId'[c]
      <4>1. pc[e] = "store_flow" /\ pc'[e] = "load_artifacts"
        BY <3>2 DEF StoreFlow, Goto, Base, TypeOK
      <4>2. flowId[e] # flowId[c]
        BY <2>2, <4>1 DEF FlowIdsDistinct, Same
      <4> QED
        BY <2>2, <3>2, <4>2, StoreFlowAdds DEF HeldFlowIds, Same
    <3> QED
      BY <1>4, <2>2, <3>1, <3>2 DEF HeldFlowIds, Same
  <2> QED
    BY <2>1, <2>2, OnlyRegisterEnters
<1>7. \A f, g \in flows' : f.flow_id = g.flow_id => f = g
  <2>1. ASSUME NEW c \in Clients, StoreFlow(c)
        PROVE  \A f, g \in flows' : f.flow_id = g.flow_id => f = g
    <3>1. pc[c] = "store_flow"
      BY <2>1 DEF StoreFlow
    <3> QED
      BY <2>1, <3>1, StoreFlowAdds DEF HeldFlowIds, FlowIdsDistinct
  <2> QED
    BY <1>4, <2>1 DEF FlowIdsDistinct
<1>8. ASSUME NEW c \in Clients, NEW e \in Clients,
             pc'[c] = "store_flow", pc'[e] = "store_flow", flowId'[c] = flowId'[e]
      PROVE  c = e
  <2>1. ASSUME NEW a \in Clients, NEW b \in Clients, Register(a), a # b,
               pc[b] = "store_flow" /\ Same(b), flowId'[a] = flowId'[b]
        PROVE  FALSE
    <3>1. flowId'[a] = Len(registered) + 1
      BY <2>1 DEF Register, Base, TypeOK
    <3>2. flowId'[b] \in DOMAIN registered
      BY <2>1 DEF HeldFlowIds, Same
    <3> QED
      BY <2>1, <3>1, <3>2, RegisterAppends
  <2>2. Register(c) /\ Register(e) => c = e
    BY <1>8 DEF Register, Goto, Base, TypeOK
  <2> QED
    BY <1>8, <2>1, <2>2, OnlyRegisterEnters DEF FlowIdsDistinct, Same
<1> QED
  BY <1>2, <1>3, <1>5, <1>6, <1>7, <1>8 DEF FlowIdsDistinct

LEMMA KeysInvariant == Spec => []Keys
<1>1. Init => Keys
  BY DEF Init, InitWith, Keys, ModelKeys, DeploymentKeys, RowFlowIds, HeldFlowIds,
     FlowIdsDistinct
<1>2. Base /\ Held /\ Keys /\ [Next]_vars => Keys'
  BY KeysStep
<1> QED
  BY <1>1, <1>2, BaseInvariant, HeldInvariant, PTL DEF Spec

\* However processes race, fail and retry, no entry, no version of a model and no
\* flow id gets two rows.
THEOREM KeysCorrect == Spec => []KeysUnique
<1>1. Keys => KeysUnique
  BY DEF Keys, ModelKeys, DeploymentKeys, FlowIdsDistinct, KeysUnique
<1> QED
  BY <1>1, KeysInvariant, PTL

\* The references between rows, and from rows to the flows of the Prefect server,
\* always resolve.
THEOREM RowsCorrect == Spec => []RowsResolve
<1>1. Held /\ Keys => RowsResolve
  BY DEF Held, DeploymentsResolve, Keys, RowFlowIds, RowsResolve
<1> QED
  BY <1>1, HeldInvariant, KeysInvariant, PTL

(***************************************************************************)
(* The race of two storers: a client that is going to store a flow row has  *)
(* seen its deployment without one, so nobody stores two rows of it.        *)
(***************************************************************************)

\* The clients that are going to store a flow row of deployment d.
Storing(d) ==
  {c \in Clients : pc[c] \in {"register", "store_flow"} /\ deploymentId[c] = d}

\* Rows and storers share the number of clients between them.
RoomFor(d) ==
  /\ IsFiniteSet(get_flow(d))
  /\ Cardinality(get_flow(d)) + Cardinality(Storing(d)) <= Cardinality(Clients)

Room == \A d \in Nat : RoomFor(d)

LEMMA SubsetOfClients ==
  ASSUME IsFiniteSet(Clients), NEW S \in SUBSET Clients
  PROVE  /\ IsFiniteSet(S)
         /\ Cardinality(S) \in Nat
         /\ Cardinality(Clients) \in Nat
         /\ Cardinality(S) <= Cardinality(Clients)
         /\ \A T \in SUBSET S : Cardinality(T) \in Nat /\ Cardinality(T) <= Cardinality(S)
BY FS_Subset, FS_CardinalityType

LEMMA AddedAtMostOne ==
  ASSUME NEW S, NEW x, IsFiniteSet(S)
  PROVE  IsFiniteSet(S \cup {x}) /\ Cardinality(S \cup {x}) <= Cardinality(S) + 1
<1>1. Cardinality(S) \in Nat
  BY FS_CardinalityType
<1>2. CASE x \in S
  BY <1>1, <1>2, FS_AddElement
<1>3. CASE x \notin S
  BY <1>1, <1>3, FS_AddElement
<1> QED
  BY <1>2, <1>3

\* A client begins to store only when the deployment has no row.
LEMMA OnlyMissFlowEnters ==
  ASSUME Base, [Next]_vars, NEW c \in Clients, pc'[c] \in {"register", "store_flow"}
  PROVE  \/ MissFlow(c)
         \/ /\ pc[c] \in {"register", "store_flow"}
            /\ deploymentId'[c] = deploymentId[c]
<1> USE DEF Base, TypeOK, Goto
<1>1. CASE UNCHANGED vars
  BY <1>1
<1>2. CASE \E p \in Projects : StoreProject(p) \/ CreateProject(p)
  BY <1>2 DEF StoreProject, CreateProject
<1>3. ASSUME NEW e \in Clients,
             \/ \E j \in Jobs : StartScript(e, j)
             \/ Proceed(e)
             \/ OpenModel(e) \/ OpenDeployment(e) \/ OpenLatest(e)
             \/ InstallFails(e) \/ ServiceFails(e) \/ Exit(e)
      PROVE  \/ MissFlow(c)
             \/ /\ pc[c] \in {"register", "store_flow"}
                /\ deploymentId'[c] = deploymentId[c]
  <2>1. CASE e # c
    BY <1>3, <2>1, OneClientSteps DEF Same
  <2>2. CASE e = c
    <3>1. CASE \E j \in Jobs : StartScript(c, j)
      BY <3>1 DEF StartScript
    <3>2. CASE \/ FindModel(c) \/ MissModel(c) \/ StoreModel(c)
               \/ InstallPresent(c) \/ InstallPackage(c)
               \/ FindDeployment(c) \/ MissDeployment(c) \/ StoreDeployment(c)
      BY <3>2 DEF FindModel, MissModel, StoreModel, InstallPresent, InstallPackage,
         FindDeployment, MissDeployment, StoreDeployment, Raise, Leave
    <3>3. CASE \/ StoreModelConflict(c) \/ StoreDeploymentConflict(c)
               \/ RegisterRefused(c) \/ StoreFlowUnknownProject(c)
               \/ LoadFlowMissing(c) \/ LoadArtifactsMissing(c)
               \/ InstallFails(c) \/ ServiceFails(c)
      BY <3>3 DEF StoreModelConflict, StoreDeploymentConflict, RegisterRefused,
         StoreFlowUnknownProject, LoadFlowMissing, LoadArtifactsMissing,
         InstallFails, ServiceFails, Raise, Leave
    <3>4. CASE FindFlow(c) \/ Register(c) \/ StoreFlow(c)
      BY <3>4 DEF FindFlow, Register, StoreFlow
    <3>5. CASE LoadFlow(c) \/ LoadArtifacts(c)
      BY <3>5 DEF LoadFlow, LoadArtifacts, FlowFound, Leave
    <3>6. CASE OpenModel(c)
      BY <3>6 DEF OpenModel
    <3>7. CASE OpenDeployment(c) \/ OpenLatest(c)
      BY <3>7 DEF OpenDeployment, OpenLatest, LoadDeployment
    <3>8. CASE Exit(c)
      BY <3>8 DEF Exit, Leave
    <3> QED
      BY <1>3, <2>2, <3>1, <3>2, <3>3, <3>4, <3>5, <3>6, <3>7, <3>8 DEF Proceed
  <2> QED
    BY <2>1, <2>2
<1> QED
  BY <1>1, <1>2, <1>3 DEF Next

\* The storer that stores its row gives up its place to it.
LEMMA StoreFlowRoom ==
  ASSUME IsFiniteSet(Clients), Base, NEW c \in Clients, StoreFlow(c),
         NEW d \in Nat, RoomFor(d)
  PROVE  RoomFor(d)'
<1> DEFINE row == [flow_id |-> flowId[c], deployment_id |-> deploymentId[c],
                   project_name |-> job[c].project_name]
<1>1. Cardinality(get_flow(d)) \in Nat
  BY FS_CardinalityType DEF RoomFor
<1>2. flows' = flows \cup {row} /\ row.deployment_id = deploymentId[c]
  BY DEF StoreFlow
<1>3. /\ c \in Clients /\ pc[c] = "store_flow" /\ pc' = [pc EXCEPT ![c] = "load_artifacts"]
      /\ UNCHANGED deploymentId
  BY DEF StoreFlow, Goto
<1>4. Storing(d)' = Storing(d) \ {c}
  BY <1>3 DEF Storing, Base, TypeOK
<1>5. Storing(d) \in SUBSET Clients
  BY DEF Storing
<1> HIDE DEF row
<1>6. CASE deploymentId[c] = d
  <2>1. get_flow(d)' = get_flow(d) \cup {row}
    BY <1>2, <1>6 DEF get_flow
  <2>2. /\ IsFiniteSet(get_flow(d)')
        /\ Cardinality(get_flow(d)') <= Cardinality(get_flow(d)) + 1
        /\ Cardinality(get_flow(d)') \in Nat
    <3>1. /\ IsFiniteSet(get_flow(d) \cup {row})
          /\ Cardinality(get_flow(d) \cup {row}) <= Cardinality(get_flow(d)) + 1
      BY AddedAtMostOne DEF RoomFor
    <3> QED
      BY <2>1, <3>1, FS_CardinalityType
  <2>3. c \in Storing(d)
    BY <1>3, <1>6 DEF Storing
  <2>4. Cardinality(Storing(d)') = Cardinality(Storing(d)) - 1
    BY <1>4, <1>5, <2>3, SubsetOfClients, FS_RemoveElement
  <2> QED
    BY <1>1, <1>5, <2>2, <2>4, SubsetOfClients DEF RoomFor
<1>7. CASE deploymentId[c] # d
  <2>1. get_flow(d)' = get_flow(d)
    BY <1>2, <1>7 DEF get_flow
  <2>2. Storing(d)' = Storing(d)
    BY <1>4, <1>7 DEF Storing
  <2> QED
    BY <2>1, <2>2 DEF RoomFor
<1> QED
  BY <1>6, <1>7

LEMMA RoomStep ==
  ASSUME IsFiniteSet(Clients), Base, Room, [Next]_vars
  PROVE  Room'
<1> SUFFICES ASSUME NEW d \in Nat
             PROVE  RoomFor(d)'
  BY DEF Room
<1>1. RoomFor(d)
  BY DEF Room
<1>2. UNCHANGED flows \/ \E c \in Clients : StoreFlow(c)
  BY WritersOnly DEF StoreModel, StoreDeployment, Register
<1>3. ASSUME UNCHANGED flows
      PROVE  RoomFor(d)'
  <2>1. get_flow(d)' = get_flow(d) /\ Cardinality(get_flow(d)) \in Nat
    BY <1>1, <1>3, FS_CardinalityType DEF get_flow, RoomFor
  <2>2. Storing(d) \in SUBSET Clients /\ Storing(d)' \in SUBSET Clients
    BY DEF Storing
  <2>3. CASE get_flow(d) = {}
    BY <2>1, <2>2, <2>3, SubsetOfClients, FS_EmptySet DEF RoomFor
  <2>4. CASE get_flow(d) # {}
    <3>1. ASSUME NEW c \in Storing(d)'
          PROVE  c \in Storing(d)
      <4>1. /\ c \in Clients /\ pc'[c] \in {"register", "store_flow"}
            /\ deploymentId'[c] = d
        BY <3>1 DEF Storing
      <4>2. ~MissFlow(c)
        BY <2>4, <4>1 DEF MissFlow
      <4> QED
        BY <4>1, <4>2, OnlyMissFlowEnters DEF Storing
    <3>2. Storing(d)' \in SUBSET Storing(d)
      BY <3>1
    <3> QED
      BY <1>1, <2>1, <2>2, <3>2, SubsetOfClients DEF RoomFor
  <2> QED
    BY <2>3, <2>4
<1> QED
  BY <1>1, <1>2, <1>3, StoreFlowRoom

\* Two processes that both saw a deployment without a flow both store one, and no
\* retry or crash makes it more than one row for each process.
THEOREM FlowRowsCorrect ==
  ASSUME IsFiniteSet(Clients)
  PROVE  Spec => []FlowRowsBounded
<1>1. Init => Room
  <2> SUFFICES ASSUME Init, NEW d \in Nat
               PROVE  RoomFor(d)
    BY DEF Room
  <2>1. get_flow(d) = {} /\ Storing(d) = {}
    BY DEF Init, InitWith, get_flow, Storing
  <2> QED
    BY <2>1, FS_EmptySet, FS_CardinalityType DEF RoomFor
<1>2. Base /\ Room /\ [Next]_vars => Room'
  BY RoomStep
<1>3. Base /\ Room => FlowRowsBounded
  <2> SUFFICES ASSUME Base, Room, NEW d \in DOMAIN deployments
               PROVE  Cardinality(get_flow(d)) <= Cardinality(Clients)
    BY DEF FlowRowsBounded
  <2>1. d \in Nat
    BY DEF Base, TypeOK
  <2>2. RoomFor(d) /\ Storing(d) \in SUBSET Clients
    BY <2>1 DEF Room, Storing
  <2> QED
    BY <2>2, SubsetOfClients, FS_CardinalityType DEF RoomFor
<1> QED
  BY <1>1, <1>2, <1>3, BaseInvariant, PTL DEF Spec

(***************************************************************************)
(* Versions: a process that has imported one version and is never asked for *)
(* another registers and loads that version.                                *)
(***************************************************************************)

ImportsItsVersion(c) ==
  job[c] # None =>
    /\ pc[c] \in {"get_model", "store_model", "install"} =>
         imported[c] \in {None, job[c].version}
    /\ pc[c] \in BeforeDeployment \cup Deployed \cup {"load_artifacts"} =>
         imported[c] = job[c].version

RegistersItsVersion ==
  \A c \in Clients : pc[c] = "store_flow" =>
    registered[flowId[c]].version = job[c].version

Code == /\ \A c \in Clients : ImportsItsVersion(c)
        /\ RegistersItsVersion
        /\ FlowRunsItsVersion

LEMMA MoverImports ==
  ASSUME OneVersionPerProcess, Base, NEW c \in Clients, ImportsItsVersion(c),
         \/ \E j \in Jobs : StartScript(c, j)
         \/ Proceed(c)
         \/ OpenModel(c) \/ OpenDeployment(c) \/ OpenLatest(c)
         \/ InstallFails(c) \/ ServiceFails(c) \/ Exit(c)
  PROVE  ImportsItsVersion(c)'
<1> USE DEF Base, TypeOK, Goto, ImportsItsVersion, BeforeDeployment, Deployed
<1>1. CASE \E j \in Jobs : StartScript(c, j)
  BY <1>1, RegistryConstants DEF StartScript
<1>2. CASE \/ FindModel(c) \/ MissModel(c) \/ StoreModel(c)
           \/ FindDeployment(c) \/ MissDeployment(c) \/ StoreDeployment(c)
  BY <1>2 DEF FindModel, MissModel, StoreModel, FindDeployment, MissDeployment,
     StoreDeployment
<1>3. CASE \/ StoreModelConflict(c) \/ StoreDeploymentConflict(c)
           \/ RegisterRefused(c) \/ StoreFlowUnknownProject(c)
           \/ LoadFlowMissing(c) \/ LoadArtifactsMissing(c)
           \/ InstallFails(c) \/ ServiceFails(c)
  BY <1>3 DEF StoreModelConflict, StoreDeploymentConflict, RegisterRefused,
     StoreFlowUnknownProject, LoadFlowMissing, LoadArtifactsMissing, InstallFails,
     ServiceFails, Raise, Leave
<1>4. CASE InstallPresent(c)
  BY <1>4 DEF InstallPresent, ImportedAfter
<1>5. CASE InstallPackage(c)
  BY <1>5 DEF InstallPackage, Raise, Leave
<1>6. CASE FindFlow(c) \/ MissFlow(c) \/ Register(c) \/ StoreFlow(c)
  BY <1>6 DEF FindFlow, MissFlow, Register, StoreFlow
<1>7. CASE LoadFlow(c) \/ LoadArtifacts(c)
  BY <1>7 DEF LoadFlow, LoadArtifacts, FlowFound, Leave
<1>8. CASE OpenModel(c) \/ OpenDeployment(c) \/ OpenLatest(c)
  BY <1>8 DEF OpenModel, OpenDeployment, OpenLatest, LoadDeployment
<1>9. CASE Exit(c)
  BY <1>9 DEF Exit, Leave
<1> QED
  BY <1>1, <1>2, <1>3, <1>4, <1>5, <1>6, <1>7, <1>8, <1>9 DEF Proceed

LEMMA CodeStep ==
  ASSUME OneVersionPerProcess, Base, Held, Keys, Code, [Next]_vars
  PROVE  Code'
<1> USE DEF Code
<1>1. Grows
  BY GrowsStep
<1>2. \A e \in Clients : ImportsItsVersion(e)'
  <2>1. ASSUME NEW e \in Clients, Same(e)
        PROVE  ImportsItsVersion(e)'
    BY <2>1 DEF Same, ImportsItsVersion
  <2>2. CASE UNCHANGED vars
    BY <2>1, <2>2 DEF Same
  <2>3. CASE \E p \in Projects : StoreProject(p) \/ CreateProject(p)
    BY <2>1, <2>3 DEF StoreProject, CreateProject, Same
  <2>4. ASSUME NEW c \in Clients,
               \/ \E j \in Jobs : StartScript(c, j)
               \/ Proceed(c)
               \/ OpenModel(c) \/ OpenDeployment(c) \/ OpenLatest(c)
               \/ InstallFails(c) \/ ServiceFails(c) \/ Exit(c)
        PROVE  \A e \in Clients : ImportsItsVersion(e)'
    BY <2>1, <2>4, MoverImports, OneClientSteps
  <2> QED
    BY <2>2, <2>3, <2>4 DEF Next
<1>3. RegistersItsVersion'
  <2> SUFFICES ASSUME NEW c \in Clients, pc'[c] = "store_flow"
               PROVE  registered'[flowId'[c]].version = job'[c].version
    BY DEF RegistersItsVersion
  <2>1. CASE Register(c)
    <3>1. /\ flowId'[c] = Len(registered) + 1
          /\ UNCHANGED job /\ job[c] # None /\ pc[c] = "register"
      BY <2>1 DEF Register, Base, TypeOK, JobHeld, ScriptLabels
    <3>2. imported[c] = job[c].version
      BY <3>1 DEF ImportsItsVersion, Deployed
    <3> QED
      BY <2>1, <3>1, <3>2, RegisterAppends
  <2>2. CASE pc[c] = "store_flow" /\ Same(c)
    BY <1>1, <2>2 DEF RegistersItsVersion, Keys, HeldFlowIds, Same, Grows
  <2> QED
    BY <2>1, <2>2, OnlyRegisterEnters
<1>4. FlowRunsItsVersion'
  <2>1. CASE UNCHANGED flows
    BY <1>1, <2>1 DEF FlowRunsItsVersion, Keys, RowFlowIds, Grows
  <2>2. ASSUME NEW c \in Clients, StoreFlow(c)
        PROVE  FlowRunsItsVersion'
    <3>1. UNCHANGED <<deployments, registered>> /\ pc[c] = "store_flow"
      BY <2>2 DEF StoreFlow
    <3> QED
      BY <2>2, <3>1, StoreFlowAdds DEF FlowRunsItsVersion, RegistersItsVersion
  <2>3. UNCHANGED flows \/ \E c \in Clients : StoreFlow(c)
    BY WritersOnly DEF StoreModel, StoreDeployment, Register
  <2> QED
    BY <2>1, <2>2, <2>3
<1> QED
  BY <1>2, <1>3, <1>4

LEMMA CodeInvariant ==
  ASSUME OneVersionPerProcess
  PROVE  Spec => []Code
<1>1. Init => Code
  BY DEF Init, InitWith, Code, ImportsItsVersion, RegistersItsVersion, FlowRunsItsVersion,
     Deployed, BeforeDeployment
<1>2. Base /\ Held /\ Keys /\ Code /\ [Next]_vars => Code'
  BY CodeStep
<1> QED
  BY <1>1, <1>2, BaseInvariant, HeldInvariant, KeysInvariant, PTL DEF Spec

\* With one package version per process, Prefect runs for a deployment the code of
\* that deployment's version.
THEOREM FlowVersionsCorrect ==
  ASSUME OneVersionPerProcess
  PROVE  Spec => []FlowRunsItsVersion
<1>1. Code => FlowRunsItsVersion
  BY DEF Code
<1> QED
  BY <1>1, CodeInvariant, PTL

\* A script is done only when load_deployment has found a flow.
LEMMA OnlyLoadEnds ==
  ASSUME Base, [Next]_vars, NEW c \in Clients, job[c] # None, job'[c] = None
  PROVE  LoadArtifacts(c)
<1> USE DEF Base, TypeOK
<1>1. CASE UNCHANGED vars
  BY <1>1
<1>2. CASE \E p \in Projects : StoreProject(p) \/ CreateProject(p)
  BY <1>2 DEF StoreProject, CreateProject
<1>3. ASSUME NEW e \in Clients,
             \/ \E j \in Jobs : StartScript(e, j)
             \/ Proceed(e)
             \/ OpenModel(e) \/ OpenDeployment(e) \/ OpenLatest(e)
             \/ InstallFails(e) \/ ServiceFails(e) \/ Exit(e)
      PROVE  LoadArtifacts(c)
  <2>1. CASE e # c
    BY <1>3, <2>1, OneClientSteps DEF Same
  <2>2. CASE e = c
    <3>1. CASE \E j \in Jobs : StartScript(c, j)
      BY <3>1, RegistryConstants DEF StartScript
    <3>2. CASE \/ FindModel(c) \/ MissModel(c) \/ StoreModel(c)
               \/ InstallPresent(c) \/ InstallPackage(c)
               \/ FindDeployment(c) \/ MissDeployment(c) \/ StoreDeployment(c)
      BY <3>2 DEF FindModel, MissModel, StoreModel, InstallPresent, InstallPackage,
         FindDeployment, MissDeployment, StoreDeployment, Raise
    <3>3. CASE \/ StoreModelConflict(c) \/ StoreDeploymentConflict(c)
               \/ RegisterRefused(c) \/ StoreFlowUnknownProject(c)
               \/ LoadFlowMissing(c) \/ LoadArtifactsMissing(c)
               \/ InstallFails(c) \/ ServiceFails(c) \/ Exit(c)
      BY <3>3 DEF StoreModelConflict, StoreDeploymentConflict, RegisterRefused,
         StoreFlowUnknownProject, LoadFlowMissing, LoadArtifactsMissing,
         InstallFails, ServiceFails, Raise, Exit
    <3>4. CASE FindFlow(c) \/ MissFlow(c) \/ Register(c) \/ StoreFlow(c)
      BY <3>4 DEF FindFlow, MissFlow, Register, StoreFlow
    <3>5. CASE LoadFlow(c)
      BY <3>5 DEF LoadFlow, JobHeld
    <3>6. CASE OpenModel(c) \/ OpenDeployment(c) \/ OpenLatest(c)
      BY <3>6 DEF OpenModel, OpenDeployment, OpenLatest, LoadDeployment
    <3> QED
      BY <1>3, <2>2, <3>1, <3>2, <3>3, <3>4, <3>5, <3>6 DEF Proceed
  <2> QED
    BY <2>1, <2>2
<1> QED
  BY <1>1, <1>2, <1>3 DEF Next

\* store_deployment returns only with the entry and the version it was asked for,
\* and with the code of that version.
THEOREM StoreDeliversCorrect ==
  ASSUME OneVersionPerProcess
  PROVE  Spec => StoreDelivers
<1>1. ASSUME Base, Held, Code, [Next]_vars, NEW c \in Clients, job[c] # None, job'[c] = None
      PROVE  Delivers(c)
  <2>1. LoadArtifacts(c)
    BY <1>1, OnlyLoadEnds
  <2>2. PICK f \in get_flow(deploymentId[c]) :
          loaded' = [loaded EXCEPT ![c] = [deployment_id |-> deploymentId[c],
                                           flow_id |-> f.flow_id,
                                           project_name |-> f.project_name,
                                           code |-> imported'[c]]]
    BY <2>1 DEF LoadArtifacts, FlowFound
  <2>3. /\ loaded'[c].deployment_id = deploymentId[c]
        /\ loaded'[c].code = imported'[c]
    BY <1>1, <2>2 DEF Base, TypeOK
  <2>4. /\ UNCHANGED <<models, deployments>> /\ pc[c] = "load_artifacts"
        /\ imported' = [imported EXCEPT ![c] = ImportedAfter(c, installed[c])]
    BY <2>1 DEF LoadArtifacts, FlowFound
  <2>5. imported'[c] = job[c].version
    <3>1. imported[c] = job[c].version /\ job[c].version # None
      BY <1>1, <2>4, RegistryConstants DEF Code, ImportsItsVersion, Base, TypeOK, Jobs
    <3> QED
      BY <1>1, <2>4, <3>1 DEF ImportedAfter, Base, TypeOK
  <2>6. /\ models[deployments[deploymentId[c]].model_id] = job[c].entry
        /\ deployments[deploymentId[c]].version = job[c].version
    BY <1>1, <2>4 DEF Held, Holds, HoldsModel, HoldsDeployment, Loading
  <2> QED
    BY <2>3, <2>4, <2>5, <2>6 DEF Delivers
<1>2. Base /\ Held /\ Code /\ [Next]_vars =>
        [\A c \in Clients : job[c] # None /\ job'[c] = None => Delivers(c)]_vars
  BY <1>1
<1> QED
  BY <1>2, BaseInvariant, HeldInvariant, CodeInvariant, PTL DEF Spec, StoreDelivers

(***************************************************************************)
(* Refinement: the tables are the catalog of ModelCatalog.                  *)
(***************************************************************************)

ReleaseOf(d) == [id |-> d, entry |-> models[deployments[d].model_id],
                 version |-> deployments[d].version]

BindingOf(f) == [flow_id |-> f.flow_id, id |-> f.deployment_id,
                 project_name |-> f.project_name]

releasesBar == {ReleaseOf(d) : d \in DOMAIN deployments}
bindingsBar == {BindingOf(f) : f \in flows}

\* The release of a stored deployment never changes.
LEMMA ReleaseKept ==
  ASSUME Held, Grows, NEW d \in DOMAIN deployments
  PROVE  ReleaseOf(d)' = ReleaseOf(d)
BY DEF Held, DeploymentsResolve, Grows, ReleaseOf

LEMMA StoreDeploymentPublishes ==
  ASSUME Base, Held, Keys, NEW c \in Clients, StoreDeployment(c)
  PROVE  \E r \in releasesBar' : Catalog!Publish(r)
<1> DEFINE id  == Len(deployments) + 1
           new == [id |-> id, entry |-> models[modelId[c]], version |-> job[c].version]
<1>1. Grows
  BY GrowsStep DEF Next, Proceed
<1>2. UNCHANGED <<models, flows>> /\ get_deployment(modelId[c], job[c].version) = {}
  BY DEF StoreDeployment
<1>3. modelId[c] \in DOMAIN models /\ pc[c] = "store_deployment"
  BY DEF Held, Holds, HoldsModel, StoreDeployment, BeforeDeployment
<1>4. /\ DOMAIN deployments' = (DOMAIN deployments) \cup {id}
      /\ id \notin DOMAIN deployments
      /\ deployments'[id].model_id = modelId[c]
      /\ deployments'[id].version = job[c].version
      /\ job[c] \in Jobs
  BY StoreDeploymentAppends
<1>5. id \in Nat
  BY DEF Base, TypeOK
<1>6. new \in Catalog!Release
  BY <1>3, <1>4, <1>5 DEF Catalog!Release, Base, TypeOK, Jobs
<1> HIDE DEF id
<1>7. \A d : d = id => ReleaseOf(d)' = new
  BY <1>2, <1>4 DEF ReleaseOf
<1>8. ASSUME NEW d \in DOMAIN deployments
      PROVE  ReleaseOf(d).id # id /\ <<ReleaseOf(d).entry, ReleaseOf(d).version>>
                                      # <<models[modelId[c]], job[c].version>>
  <2>1. d # id
    BY <1>4
  <2>2. ~(deployments[d].model_id = modelId[c] /\ deployments[d].version = job[c].version)
    BY <1>2 DEF get_deployment, get_deployments
  <2>3. deployments[d].model_id \in DOMAIN models
    BY DEF Held, DeploymentsResolve
  <2>4. models[deployments[d].model_id] = models[modelId[c]] =>
          deployments[d].model_id = modelId[c]
    BY <1>3, <2>3 DEF Keys, ModelKeys
  <2> QED
    BY <2>1, <2>2, <2>4 DEF ReleaseOf
<1>9. /\ new.id = id
      /\ <<new.entry, new.version>> = <<models[modelId[c]], job[c].version>>
  OBVIOUS
<1> HIDE DEF new
<1>10. releasesBar' = releasesBar \cup {new}
  BY <1>1, <1>4, <1>7, ReleaseKept DEF releasesBar
<1>11. \A s \in releasesBar :
         s.id # new.id /\ <<s.entry, s.version>> # <<new.entry, new.version>>
  BY <1>8, <1>9 DEF releasesBar
<1>12. bindingsBar' = bindingsBar
  BY <1>2 DEF bindingsBar, BindingOf
<1>13. new \in releasesBar'
  BY <1>10
<1> QED
  BY <1>6, <1>10, <1>11, <1>12, <1>13
     DEF Catalog!Publish, releasesBar, ReleaseOf, bindingsBar, BindingOf

LEMMA StoreFlowBinds ==
  ASSUME Base, Held, Keys, NEW c \in Clients, StoreFlow(c)
  PROVE  \E b \in bindingsBar' : Catalog!Bind(b)
<1>1. PICK row :
        /\ flows' = flows \cup {row}
        /\ row.flow_id = flowId[c]
        /\ row.project_name = job[c].project_name
        /\ row.project_name \in projects
        /\ row.deployment_id \in DOMAIN deployments
  BY StoreFlowAdds
<1>2. UNCHANGED <<models, deployments>> /\ pc[c] = "store_flow"
  BY DEF StoreFlow
<1> DEFINE new == BindingOf(row)
<1>3. /\ new.flow_id = flowId[c]
      /\ new.id = row.deployment_id
      /\ new \in Catalog!Binding
  BY <1>1 DEF BindingOf, Catalog!Binding, Base, TypeOK
<1>4. bindingsBar' = bindingsBar \cup {new}
  BY <1>1 DEF bindingsBar, BindingOf
<1>5. releasesBar' = releasesBar
  BY <1>2 DEF releasesBar, ReleaseOf
<1>6. \E r \in releasesBar : r.id = new.id
  <2>1. ReleaseOf(row.deployment_id) \in releasesBar
    BY <1>1 DEF releasesBar
  <2>2. ReleaseOf(row.deployment_id).id = row.deployment_id
    BY DEF ReleaseOf
  <2> QED
    BY <1>3, <2>1, <2>2
<1>7. \A a \in bindingsBar : a.flow_id # new.flow_id
  <2>1. \A f \in flows : f.flow_id # flowId[c]
    BY <1>2 DEF Keys, HeldFlowIds
  <2> QED
    BY <1>3, <2>1 DEF bindingsBar, BindingOf
<1>8. new \in bindingsBar'
  BY <1>4
<1> HIDE DEF new
<1> QED
  BY <1>3, <1>4, <1>5, <1>6, <1>7, <1>8
     DEF Catalog!Bind, releasesBar, ReleaseOf, bindingsBar, BindingOf

LEMMA OtherStepsStutter ==
  ASSUME Held, Grows, UNCHANGED <<deployments, flows>>
  PROVE  UNCHANGED <<releasesBar, bindingsBar>>
<1>1. releasesBar' = releasesBar
  BY ReleaseKept DEF releasesBar
<1>2. bindingsBar' = bindingsBar
  BY DEF bindingsBar, BindingOf
<1> QED
  BY <1>1, <1>2

\* The database, with all its callers, implements the catalog: releases are
\* published once, flows are bound once, and nothing published ever changes.
THEOREM RegistryImplementsCatalog == Spec => ImplementsCatalog
<1>1. Init => Catalog!Init
  BY DEF Init, InitWith, Catalog!Init
<1>2. Base /\ Held /\ Keys /\ [Next]_vars => [Catalog!Next]_(Catalog!vars)
  <2> SUFFICES ASSUME Base, Held, Keys, [Next]_vars
               PROVE  [Catalog!Next]_(Catalog!vars)
    OBVIOUS
  <2>1. ASSUME NEW c \in Clients, StoreDeployment(c)
        PROVE  Catalog!Next
    BY <2>1, StoreDeploymentPublishes DEF Catalog!Next, releasesBar, ReleaseOf
  <2>2. ASSUME NEW c \in Clients, StoreFlow(c)
        PROVE  Catalog!Next
    BY <2>2, StoreFlowBinds DEF Catalog!Next, bindingsBar, BindingOf
  <2>3. CASE UNCHANGED <<deployments, flows>>
    BY <2>3, GrowsStep, OtherStepsStutter
       DEF Catalog!vars, releasesBar, ReleaseOf, bindingsBar, BindingOf
  <2>4. \/ UNCHANGED <<deployments, flows>>
        \/ \E c \in Clients : StoreDeployment(c) \/ StoreFlow(c)
    BY WritersOnly DEF StoreModel, Register
  <2> QED
    BY <2>1, <2>2, <2>3, <2>4
<1> QED
  BY <1>1, <1>2, BaseInvariant, HeldInvariant, KeysInvariant, PTL
     DEF Spec, ImplementsCatalog, Catalog!Spec
=============================================================================
