------------------------- MODULE ModelResultsProofs -------------------------
(***************************************************************************)
(* Theorems about Configuration and about the local runs and the calls of  *)
(* Model that ModelResults puts on it, for any number of threads, calls,   *)
(* settings, flows and deployments.                                        *)
(***************************************************************************)
EXTENDS ModelResults, SequenceTheorems, TLAPS

(***************************************************************************)
(* configure, for as many calls as the threads make.                       *)
(***************************************************************************)
Configures(t) ==
  \/ \E given \in Settings \cup {None} : NotConfigured(t, given) \/ Configure(t, given)
  \/ SetContext(t) \/ SetSettings(t) \/ ConfigureReturned(t)

\* A call that has had the globals to itself so far is the only one under way, and
\* what it has assigned is what is there.
AloneAssigns ==
  \A t \in Threads :
    (t \in Configurers /\ configuring[t].alone) =>
       /\ Configurers = {t}
       /\ prefect = configuring[t].of
       /\ configuring[t].step = "settings" => context = configuring[t].of

ConfigInv == ConfigTypeOK /\ AloneAssigns /\ SettledConfiguration

-----------------------------------------------------------------------------
(* What a step does to the calls.                                           *)

LEMMA ChosenIsSettings ==
  ASSUME NEW given \in Settings \cup {None}
  PROVE  Chosen(given) \in Settings \cup {None}
BY ConfigurationAssumption DEF Chosen

LEMMA NoneIsNoSettings == None \notin Settings
BY ConfigurationAssumption

LEMMA EntersTyped ==
  ASSUME ConfigTypeOK, NEW t \in Threads, NEW s \in Settings \cup {None},
         NEW step \in {"context", "raised"}, Enters(t, step, s)
  PROVE  /\ configuring' \in
              [Threads -> [step : {"none", "context", "settings", "done", "raised"},
                           of : Settings \cup {None}, alone : BOOLEAN]]
         /\ configuring'[t].step = step
         /\ configuring'[t].of = s
         /\ configuring'[t].alone <=> Configurers = {}
         /\ \A u \in Threads \ {t} :
              /\ configuring'[u].step = configuring[u].step
              /\ configuring'[u].of = configuring[u].of
              /\ configuring'[u].alone <=> configuring[u].alone /\ u \notin Configurers
BY DEF Enters, ConfigTypeOK

LEMMA GoesTyped ==
  ASSUME ConfigTypeOK, NEW t \in Threads,
         NEW step \in {"none", "context", "settings", "done", "raised"}, Goes(t, step)
  PROVE  /\ configuring' \in
              [Threads -> [step : {"none", "context", "settings", "done", "raised"},
                           of : Settings \cup {None}, alone : BOOLEAN]]
         /\ configuring'[t].step = step
         /\ configuring'[t].of = configuring[t].of
         /\ configuring'[t].alone = configuring[t].alone
         /\ \A u \in Threads \ {t} : configuring'[u] = configuring[u]
BY DEF Goes, ConfigTypeOK

LEMMA ReturnedTyped ==
  ASSUME ConfigTypeOK, NEW t \in Threads, ConfigureReturned(t)
  PROVE  /\ configuring' \in
              [Threads -> [step : {"none", "context", "settings", "done", "raised"},
                           of : Settings \cup {None}, alone : BOOLEAN]]
         /\ configuring'[t].step = "none"
         /\ \A u \in Threads \ {t} : configuring'[u] = configuring[u]
BY DEF ConfigureReturned, ConfigTypeOK, NotConfiguring

-----------------------------------------------------------------------------
(* The steps, one by one.                                                   *)

LEMMA NotConfiguredKeeps ==
  ASSUME ConfigInv, NEW t \in Threads, NEW given \in Settings \cup {None},
         NotConfigured(t, given)
  PROVE  ConfigInv'
<1> USE DEF ConfigInv
<1>1. Goes(t, "raised") /\ configuring[t].step = "none"
  BY DEF NotConfigured
<1>2. UNCHANGED <<prefect, context, settings, overlapped, failed>>
  BY DEF NotConfigured, globals
<1>3. /\ configuring'[t].step = "raised"
      /\ \A u \in Threads \ {t} : configuring'[u] = configuring[u]
  BY <1>1, GoesTyped
<1>4. Configurers' = Configurers
  BY <1>1, <1>3 DEF Configurers
<1>5. ConfigTypeOK'
  BY <1>1, <1>2, GoesTyped DEF ConfigTypeOK
<1>6. AloneAssigns'
  BY <1>1, <1>2, <1>3, <1>4 DEF AloneAssigns, Configurers
<1>7. SettledConfiguration'
  BY <1>2, <1>4 DEF SettledConfiguration
<1> QED BY <1>5, <1>6, <1>7

\* Whoever was alone is not any more, whether the call that begins raises or not.
LEMMA ConfigureKeeps ==
  ASSUME ConfigInv, NEW t \in Threads, NEW given \in Settings \cup {None},
         Configure(t, given)
  PROVE  ConfigInv'
<1> USE DEF ConfigInv
<1> DEFINE s == Chosen(given)
<1>1. s \in Settings
  BY ChosenIsSettings DEF Configure
<1>2. configuring[t].step = "none" /\ t \notin Configurers
  BY DEF Configure, Configurers
<1>3. prefect' = s /\ UNCHANGED <<context, settings, overlapped>>
  BY DEF Configure
<1>4. CASE Supported(s)
  <2>1. Enters(t, "context", s) /\ failed' = FALSE
    BY <1>4 DEF Configure
  <2>2. ConfigTypeOK'
    BY <1>1, <1>3, <2>1, EntersTyped DEF ConfigTypeOK
  <2>3. Configurers' = Configurers \cup {t}
    BY <2>1, <1>1, EntersTyped DEF Configurers
  <2>4. AloneAssigns'
    <3> SUFFICES ASSUME NEW u \in Threads, u \in Configurers', configuring'[u].alone
                 PROVE  /\ Configurers' = {u}
                        /\ prefect' = configuring'[u].of
                        /\ configuring'[u].step = "settings" => context' = configuring'[u].of
      BY DEF AloneAssigns
    <3>1. u = t
      BY <2>1, <2>3, <1>1, EntersTyped
    <3>2. Configurers = {}
      BY <3>1, <2>1, <1>1, EntersTyped
    <3> QED BY <3>1, <3>2, <2>1, <2>3, <1>1, <1>3, EntersTyped
  <2>5. SettledConfiguration'
    BY <2>3 DEF SettledConfiguration
  <2> QED BY <2>2, <2>4, <2>5
<1>5. CASE ~ Supported(s)
  <2>1. Enters(t, "raised", s) /\ failed' = TRUE
    BY <1>5 DEF Configure
  <2>2. ConfigTypeOK'
    BY <1>1, <1>3, <2>1, EntersTyped DEF ConfigTypeOK
  <2>3. Configurers' = Configurers
    BY <2>1, <1>1, <1>2, EntersTyped DEF Configurers
  <2>4. AloneAssigns'
    <3>1. \A u \in Configurers' : u # t /\ ~ configuring'[u].alone
      BY <1>1, <1>2, <2>1, <2>3, EntersTyped DEF Configurers
    <3> QED BY <3>1 DEF AloneAssigns
  <2>5. SettledConfiguration'
    BY <1>3, <2>1, <2>3 DEF SettledConfiguration
  <2> QED BY <2>2, <2>4, <2>5
<1> QED BY <1>4, <1>5

LEMMA SetContextKeeps ==
  ASSUME ConfigInv, NEW t \in Threads, SetContext(t)
  PROVE  ConfigInv'
<1> USE DEF ConfigInv
<1>1. /\ Goes(t, "settings") /\ configuring[t].step = "context"
      /\ context' = configuring[t].of
      /\ UNCHANGED <<prefect, settings, overlapped, failed>>
  BY DEF SetContext
<1>2. /\ configuring'[t].step = "settings"
      /\ configuring'[t].of = configuring[t].of
      /\ configuring'[t].alone = configuring[t].alone
      /\ \A u \in Threads \ {t} : configuring'[u] = configuring[u]
  BY <1>1, GoesTyped
<1>3. t \in Configurers /\ Configurers' = Configurers
  BY <1>1, <1>2 DEF Configurers
<1>4. ConfigTypeOK'
  <2>1. configuring[t].of \in Settings \cup {None}
    BY DEF ConfigTypeOK
  <2> QED BY <1>1, <2>1, GoesTyped DEF ConfigTypeOK
<1>5. AloneAssigns'
  <2> SUFFICES ASSUME NEW u \in Threads, u \in Configurers', configuring'[u].alone
               PROVE  /\ Configurers' = {u}
                      /\ prefect' = configuring'[u].of
                      /\ configuring'[u].step = "settings" => context' = configuring'[u].of
    BY DEF AloneAssigns
  <2>1. configuring[u].alone /\ configuring'[u].of = configuring[u].of
    BY <1>2
  <2>2. Configurers = {u} /\ prefect = configuring[u].of
    BY <1>3, <2>1 DEF AloneAssigns
  <2>3. u = t
    BY <1>3, <2>2
  <2> QED BY <1>1, <1>3, <2>1, <2>2, <2>3
<1>6. SettledConfiguration'
  BY <1>3 DEF SettledConfiguration
<1> QED BY <1>4, <1>5, <1>6

\* The call that returns: if it was alone, it has assigned all three globals.
LEMMA SetSettingsKeeps ==
  ASSUME ConfigInv, NEW t \in Threads, SetSettings(t)
  PROVE  ConfigInv'
<1> USE DEF ConfigInv
<1>1. /\ Goes(t, "done") /\ configuring[t].step = "settings"
      /\ settings' = configuring[t].of
      /\ overlapped' = ~ configuring[t].alone /\ failed' = FALSE
      /\ UNCHANGED <<prefect, context>>
  BY DEF SetSettings
<1>2. /\ configuring'[t].step = "done"
      /\ \A u \in Threads \ {t} : configuring'[u] = configuring[u]
  BY <1>1, GoesTyped
<1>3. t \in Configurers /\ Configurers' = Configurers \ {t}
  BY <1>1, <1>2 DEF Configurers
<1>4. ConfigTypeOK'
  <2>1. configuring[t].of \in Settings \cup {None}
    BY DEF ConfigTypeOK
  <2>2. overlapped' \in BOOLEAN
    BY <1>1
  <2> QED BY <1>1, <2>1, <2>2, GoesTyped DEF ConfigTypeOK
<1>5. AloneAssigns'
  <2>1. \A u \in Configurers' : ~ configuring'[u].alone
    BY <1>2, <1>3 DEF AloneAssigns, Configurers
  <2> QED BY <2>1 DEF AloneAssigns
<1>6. SettledConfiguration'
  <2>1. configuring[t].alone => prefect = configuring[t].of /\ context = configuring[t].of
    BY <1>1, <1>3 DEF AloneAssigns
  <2> QED BY <1>1, <2>1 DEF SettledConfiguration
<1> QED BY <1>4, <1>5, <1>6

LEMMA ReturnedKeeps ==
  ASSUME ConfigInv, NEW t \in Threads, ConfigureReturned(t)
  PROVE  ConfigInv'
<1> USE DEF ConfigInv
<1>1. /\ configuring[t].step \in {"done", "raised"}
      /\ UNCHANGED <<prefect, context, settings, overlapped, failed>>
  BY DEF ConfigureReturned, globals
<1>2. Configurers' = Configurers /\ t \notin Configurers
  BY <1>1, ReturnedTyped DEF Configurers
<1>3. ConfigTypeOK'
  BY <1>1, ReturnedTyped DEF ConfigTypeOK
<1>4. AloneAssigns'
  BY <1>1, <1>2, ReturnedTyped DEF AloneAssigns
<1>5. SettledConfiguration'
  BY <1>1, <1>2 DEF SettledConfiguration
<1> QED BY <1>3, <1>4, <1>5

-----------------------------------------------------------------------------
LEMMA ConfigInvStep ==
  ASSUME ConfigInv, [ConfigNext]_configVars
  PROVE  ConfigInv'
<1>1. CASE ConfigNext
  <2>1. PICK t \in Threads : Configures(t)
    BY <1>1 DEF ConfigNext, Configures
  <2> QED
    BY <2>1, NotConfiguredKeeps, ConfigureKeeps, SetContextKeeps, SetSettingsKeeps,
       ReturnedKeeps DEF Configures
<1>2. CASE UNCHANGED configVars
  BY <1>2 DEF ConfigInv, ConfigTypeOK, AloneAssigns, SettledConfiguration, Configurers,
              configVars
<1> QED BY <1>1, <1>2

LEMMA ConfigInvInit == ConfigInit => ConfigInv
<1> SUFFICES ASSUME ConfigInit PROVE ConfigInv
  OBVIOUS
<1>1. Configurers = {}
  BY DEF ConfigInit, Configurers, NotConfiguring
<1>2. ConfigTypeOK
  BY DEF ConfigInit, ConfigTypeOK, NotConfiguring
<1> QED BY <1>1, <1>2 DEF ConfigInit, ConfigInv, AloneAssigns, SettledConfiguration

THEOREM ConfigInvHolds == ConfigSpec => []ConfigInv
BY ConfigInvInit, ConfigInvStep, PTL DEF ConfigSpec

\* When no call of configure is under way and the last one had the globals to itself,
\* the services and the settings are of one configuration, and so is the Prefect
\* configuration unless that call raised, however many threads there are and however
\* their earlier calls overlapped (config.py:129-157).
THEOREM SettledCorrect == ConfigSpec => []SettledConfiguration
<1>1. ConfigInv => SettledConfiguration
  BY DEF ConfigInv
<1> QED BY <1>1, ConfigInvHolds, PTL

(***************************************************************************)
(* Local runs and the calls of Model replace the globals of the process    *)
(* only as Configuration says, so what is proved of configure alone holds  *)
(* of a process that runs flows.                                           *)
(***************************************************************************)
\* Whatever a thread calls, the globals are left alone or configure takes a step.
LEMMA CallConfigures ==
  ASSUME NEW t \in Threads, Call(t)
  PROVE  [ConfigNext]_configVars
<1>1. CASE CallConfigure(t)
  BY <1>1 DEF CallConfigure, ConfigNext
<1>2. CASE Register(t) \/ \E k \in Calls[t] : Run(t, k)
  BY <1>2 DEF Register, Run
<1>3. CASE \E k \in Calls[t] : RunModel(t, k) \/ RunModelNotLoaded(t, k)
  BY <1>3 DEF RunModel, RunModelNotLoaded
<1>4. CASE LoadDeployment(t) \/ OpenByDeployment(t)
  BY <1>4 DEF LoadDeployment, OpenByDeployment
<1>5. CASE GetResults(t) \/ GetAllResults(t)
  BY <1>5 DEF GetResults, GetAllResults
<1> QED BY <1>1, <1>2, <1>3, <1>4, <1>5 DEF Call

\* The task configure_lume_services is configure, and no other task touches the
\* globals.
LEMMA TaskConfigures ==
  ASSUME NEW t \in Threads, RunStep(t)
  PROVE  [ConfigNext]_configVars
<1>1. CASE ConfigureTask(t)
  BY <1>1 DEF ConfigureTask, ConfigNext
<1>2. CASE ConfigureTaskEnds(t)
  BY <1>2 DEF ConfigureTaskEnds, ConfigNext
<1>3. CASE TriggerFailed(t)
  BY <1>3 DEF TriggerFailed, Fails
<1>4. CASE CheckLocalExecution(t)
  BY <1>4 DEF CheckLocalExecution, Fails, Succeeds
<1>5. CASE PrepareVariables(t)
  BY <1>5 DEF PrepareVariables, Fails, Succeeds
<1>6. CASE Predict(t)
  BY <1>6 DEF Predict, Fails
<1>7. CASE Save(t) \/ SaveFails(t)
  BY <1>7 DEF Save, SaveFails, Fails
<1>8. CASE Load(t)
  BY <1>8 DEF Load, Fails, Succeeds
<1>9. CASE RunEnds(t) \/ RunAndReturnEnds(t)
  BY <1>9 DEF RunEnds, RunAndReturnEnds
<1> QED
  BY <1>1, <1>2, <1>3, <1>4, <1>5, <1>6, <1>7, <1>8, <1>9 DEF RunStep

LEMMA StepConfigures ==
  ASSUME NEW t \in Threads, Step(t)
  PROVE  [ConfigNext]_configVars
<1>1. CASE ConfigureGoesOn(t)
  BY <1>1 DEF ConfigureGoesOn, ConfigNext
<1>2. CASE ConfigureEnds(t)
  BY <1>2 DEF ConfigureEnds, ConfigNext
<1>3. CASE RunStep(t)
  BY <1>3, TaskConfigures
<1>4. CASE FindNext(t) \/ AllResultsEnd(t)
  BY <1>4 DEF FindNext, AllResultsEnd
<1> QED BY <1>1, <1>2, <1>3, <1>4 DEF Step

\* Every step of the process is one of Configuration, or none to it.
THEOREM RunsConfigure == Spec => ConfigSpec
<1>1. Init => ConfigInit
  BY DEF Init, LocalInit
<1>2. [Next]_vars => [ConfigNext]_configVars
  <2> SUFFICES ASSUME [Next]_vars PROVE [ConfigNext]_configVars
    OBVIOUS
  <2>1. CASE \E t \in Threads : Call(t) \/ Step(t)
    BY <2>1, CallConfigures, StepConfigures
  <2>2. CASE StoreDeployment \/ StoreFlow
    BY <2>2 DEF StoreDeployment, StoreFlow
  <2>3. CASE UNCHANGED vars
    BY <2>3 DEF vars
  <2> QED BY <2>1, <2>2, <2>3 DEF Next
<1> QED BY <1>1, <1>2, PTL DEF Spec, ConfigSpec

\* In a process that runs flows in the process of their caller, each of which may
\* configure it again, the services and the settings are of one configuration once
\* configure has had the globals to itself (config.py:129-157, tasks/configure.py:31).
THEOREM RunsSettled == Spec => []SettledConfiguration
BY RunsConfigure, SettledCorrect, PTL

(***************************************************************************)
(* Results: what becomes of values that are stored and loaded.             *)
(***************************************************************************)
FieldValues == {v \in Values : v.kind \in FieldTypes}

\* What the conversions of a dictionary do to each of its values.
Bson(v) == Renamed(BsonKind, v)
Load1(v) == Renamed(LoadedKind, v)
Json(v) == Renamed(JsonKind, v)
Field(v) == Renamed(FieldKind, Load1(v))

LEMMA RenamedValue ==
  ASSUME NEW v \in Values
  PROVE  /\ Bson(v) = [kind |-> IF v.kind \in {"array", "single"} THEN "binary"
                                ELSE IF v.kind \in {"frame", "strframe"} THEN "frametext"
                                ELSE IF v.kind = "file" THEN "filerep" ELSE v.kind,
                       of |-> v.of]
         /\ Load1(v) = [kind |-> IF v.kind = "binary" THEN "array"
                                 ELSE IF v.kind = "frametext" THEN "strframe"
                                 ELSE IF v.kind = "filerep" THEN "file" ELSE v.kind,
                        of |-> v.of]
         /\ Json(v) = [kind |-> IF v.kind \in {"array", "single"} THEN "list"
                                ELSE IF v.kind \in {"frame", "strframe"} THEN "frametext"
                                ELSE v.kind,
                       of |-> v.of]
         /\ Renamed(FieldKind, v) =
              [kind |-> IF v.kind \in {"floattext", "single"} THEN "number" ELSE v.kind,
               of |-> v.of]
BY DEF Bson, Load1, Json, Renamed, BsonKind, LoadedKind, JsonKind, FieldKind, Values, Kinds

LEMMA RenamedTyped ==
  ASSUME NEW v \in Values, NEW table \in {BsonKind, LoadedKind, JsonKind, FieldKind}
  PROVE  Renamed(table, v) \in Values
<1>1. \A kind \in DOMAIN table : table[kind] \in Kinds
  BY DEF BsonKind, LoadedKind, JsonKind, FieldKind, Kinds
<1>2. v.kind \in Kinds /\ v = [kind |-> v.kind, of |-> v.of] /\ v.of \in Contents
  BY DEF Values
<1>3. Renamed(table, v) =
        [kind |-> IF v.kind \in DOMAIN table THEN table[v.kind] ELSE v.kind, of |-> v.of]
  BY <1>2 DEF Renamed
<1> QED BY <1>1, <1>2, <1>3 DEF Values

LEMMA ConvertedTyped ==
  ASSUME NEW v \in Values
  PROVE  Bson(v) \in Values /\ Load1(v) \in Values /\ Json(v) \in Values /\ Field(v) \in Values
BY RenamedTyped DEF Bson, Load1, Json, Field

\* A value of a field that is stored loads again as a value of a field that says the
\* same, loaded once or twice, and it is no JSON scalar.
LEMMA StoredValueLoads ==
  ASSUME NEW v \in FieldValues
  PROVE  /\ Bson(v).kind # "scalartext"
         /\ Load1(Bson(v)) \in FieldValues
         /\ Field(Bson(v)) \in FieldValues
         /\ Field(Load1(Bson(v))) = Field(Bson(v))
         /\ Json(Field(Bson(v))) = Json(v)
<1>1. v \in Values /\ v.kind \in FieldTypes
  BY DEF FieldValues
<1> DEFINE b == Bson(v) l == Load1(b) f == Renamed(FieldKind, l)
<1>2. b \in Values /\ l \in Values /\ f \in Values
  BY <1>1, ConvertedTyped DEF Field
<1>3. /\ b.kind \in {"number", "text", "list", "binary", "frametext"}
      /\ l = [kind |-> IF v.kind = "frame" THEN "strframe" ELSE v.kind, of |-> v.of]
  BY <1>1, <1>2, RenamedValue DEF FieldTypes, Values
<1>4. f = l
  BY <1>1, <1>2, <1>3, RenamedValue DEF FieldTypes, Values
<1>5. Load1(l) = l
  BY <1>1, <1>2, <1>3, RenamedValue DEF FieldTypes, Values
<1>6. Json(l) = Json(v)
  BY <1>1, <1>2, <1>3, RenamedValue DEF FieldTypes, Values
<1> QED
  BY <1>1, <1>2, <1>3, <1>4, <1>5, <1>6 DEF FieldValues, Field, FieldTypes, Values

\* Two values with one JSON, both arrays of one element or neither, have one in a field.
LEMMA FieldOfJson ==
  ASSUME NEW v \in Values, NEW w \in Values, Json(v) = Json(w),
         v.kind = "single" <=> w.kind = "single"
  PROVE  Json(Field(v)) = Json(Field(w))
<1>1. ASSUME NEW u \in Values
      PROVE  Json(Field(u)) =
               [kind |-> IF u.kind = "single" THEN "number"
                         ELSE CASE Json(u).kind = "floattext" -> "number"
                                [] Json(u).kind = "binary"    -> "list"
                                [] Json(u).kind = "filerep"   -> "file"
                                [] OTHER                      -> Json(u).kind,
                of |-> Json(u).of]
  <2>1. Load1(u) \in Values /\ Field(u) \in Values
    BY ConvertedTyped
  <2>2. Field(u) =
          [kind |-> IF u.kind = "binary" THEN "array"
                    ELSE IF u.kind = "frametext" THEN "strframe"
                    ELSE IF u.kind = "filerep" THEN "file"
                    ELSE IF u.kind \in {"floattext", "single"} THEN "number" ELSE u.kind,
           of |-> u.of]
    BY <2>1, RenamedValue DEF Field, Values
  <2> QED
    BY <2>1, <2>2, RenamedValue DEF Values, Kinds
<1> QED BY <1>1

LEMMA ConvertedDictionary ==
  ASSUME NEW d, IsDictionary(d)
  PROVE  /\ get_bson_dict(d) = [key \in DOMAIN d |-> Bson(d[key])]
         /\ get_jsonable_dict(d) = [key \in DOMAIN d |-> Json(d[key])]
         /\ load_db_dict(d) = [key \in DOMAIN d |-> Load1(d[key])]
         /\ FieldOf(d) = [key \in DOMAIN d |-> Field(d[key])]
         /\ IsDictionary(get_bson_dict(d)) /\ IsDictionary(load_db_dict(d))
         /\ IsDictionary(FieldOf(d))
<1>1. \A key \in DOMAIN d : d[key] \in Values
  BY DEF IsDictionary
<1>2. /\ get_bson_dict(d) = [key \in DOMAIN d |-> Bson(d[key])]
      /\ get_jsonable_dict(d) = [key \in DOMAIN d |-> Json(d[key])]
      /\ load_db_dict(d) = [key \in DOMAIN d |-> Load1(d[key])]
  BY DEF get_bson_dict, get_jsonable_dict, load_db_dict, RenamedAll, Bson, Json, Load1
<1>3. FieldOf(d) = [key \in DOMAIN d |-> Field(d[key])]
  BY <1>2 DEF FieldOf, RenamedAll, Field
<1>4. \A key \in DOMAIN d :
        Bson(d[key]) \in Values /\ Load1(d[key]) \in Values /\ Field(d[key]) \in Values
  BY <1>1, ConvertedTyped
<1>5. /\ IsDictionary(get_bson_dict(d)) /\ IsDictionary(load_db_dict(d))
      /\ IsDictionary(FieldOf(d))
  BY <1>2, <1>3, <1>4 DEF IsDictionary
<1> QED BY <1>2, <1>3, <1>5

\* The fields of a result, as they are stored and loaded again.
FieldDictionary(d) == d \in [DOMAIN d -> FieldValues]

LEMMA FieldsAreDictionaries ==
  ASSUME NEW d, FieldDictionary(d)
  PROVE  IsDictionary(d) /\ \A key \in DOMAIN d : d[key] \in FieldValues
BY DEF FieldDictionary, IsDictionary, FieldValues

LEMMA FieldTyped ==
  ASSUME NEW d, IsDictionary(d), ~ FieldRaises(d)
  PROVE  FieldDictionary(FieldOf(d)) /\ DOMAIN FieldOf(d) = DOMAIN d
<1>1. FieldOf(d) \in [DOMAIN d -> Values] /\ DOMAIN FieldOf(d) = DOMAIN d
  BY ConvertedDictionary DEF IsDictionary
<1>2. \A key \in DOMAIN d : FieldOf(d)[key] \in FieldValues
  BY <1>1 DEF FieldRaises, FieldValues
<1> QED BY <1>1, <1>2 DEF FieldDictionary

LEMMA StoredDictionaryLoads ==
  ASSUME NEW d, FieldDictionary(d)
  PROVE  LET stored == get_bson_dict(d)
             loaded == load_db_dict(stored)
         IN /\ IsDictionary(stored) /\ DOMAIN stored = DOMAIN d
            /\ ~ LoadRaises(stored) /\ ~ FieldRaises(stored)
            /\ IsDictionary(loaded) /\ ~ FieldRaises(loaded)
            /\ FieldOf(loaded) = FieldOf(stored)
            /\ get_jsonable_dict(FieldOf(stored)) = get_jsonable_dict(d)
<1> DEFINE stored == get_bson_dict(d) loaded == load_db_dict(stored)
<1>1. IsDictionary(d) /\ \A key \in DOMAIN d : d[key] \in FieldValues
  BY FieldsAreDictionaries
<1>2. IsDictionary(stored) /\ stored = [key \in DOMAIN d |-> Bson(d[key])]
  BY <1>1, ConvertedDictionary
<1>3. IsDictionary(loaded) /\ loaded = [key \in DOMAIN d |-> Load1(Bson(d[key]))]
  BY <1>2, ConvertedDictionary
<1>4. /\ IsDictionary(FieldOf(stored))
      /\ FieldOf(stored) = [key \in DOMAIN d |-> Field(Bson(d[key]))]
  BY <1>2, ConvertedDictionary
<1>5. FieldOf(loaded) = [key \in DOMAIN d |-> Field(Load1(Bson(d[key])))]
  BY <1>3, ConvertedDictionary
<1>6. \A key \in DOMAIN d :
        LET v == d[key] IN
        /\ Bson(v).kind # "scalartext"
        /\ Load1(Bson(v)) \in FieldValues
        /\ Field(Bson(v)) \in FieldValues
        /\ Field(Load1(Bson(v))) = Field(Bson(v))
        /\ Json(Field(Bson(v))) = Json(v)
  BY <1>1, StoredValueLoads
<1>7. FieldOf(loaded) = FieldOf(stored)
  BY <1>4, <1>5, <1>6
<1>8. ~ LoadRaises(stored) /\ ~ LoadRaises(loaded)
  BY <1>2, <1>3, <1>6 DEF LoadRaises, FieldValues, FieldTypes
<1>9. ~ FieldRaises(stored) /\ ~ FieldRaises(loaded)
  <2>1. \A key \in DOMAIN d : FieldOf(stored)[key].kind \in FieldTypes
    BY <1>4, <1>6 DEF FieldValues
  <2> QED BY <1>2, <1>3, <1>7, <1>8, <2>1 DEF FieldRaises
<1>10. get_jsonable_dict(FieldOf(stored)) = get_jsonable_dict(d)
  <2>1. get_jsonable_dict(FieldOf(stored)) = [key \in DOMAIN d |-> Json(Field(Bson(d[key])))]
    BY <1>4, ConvertedDictionary
  <2>2. get_jsonable_dict(d) = [key \in DOMAIN d |-> Json(d[key])]
    BY <1>1, ConvertedDictionary
  <2> QED BY <1>6, <2>1, <2>2
<1> QED
  BY <1>2, <1>3, <1>7, <1>8, <1>9, <1>10

\* MongoDB gives a config no JSON scalar that it did not have.
LEMMA StoredConfigLoads ==
  ASSUME NEW d, IsDictionary(d), ~ LoadRaises(d)
  PROVE  ~ LoadRaises(get_bson_dict(d))
<1>1. get_bson_dict(d) = [key \in DOMAIN d |-> Bson(d[key])]
  BY ConvertedDictionary
<1>2. \A key \in DOMAIN d : d[key] \in Values /\ d[key].kind # "scalartext"
  BY DEF IsDictionary, LoadRaises
<1>3. \A key \in DOMAIN d : Bson(d[key]).kind # "scalartext"
  BY <1>2, RenamedValue
<1> QED BY <1>1, <1>3 DEF LoadRaises

LEMMA JsonOfFields ==
  ASSUME NEW d, NEW e, IsDictionary(d), IsDictionary(e),
         get_jsonable_dict(d) = get_jsonable_dict(e), Singles(d) = Singles(e)
  PROVE  get_jsonable_dict(FieldOf(d)) = get_jsonable_dict(FieldOf(e))
<1>1. /\ get_jsonable_dict(d) = [key \in DOMAIN d |-> Json(d[key])]
      /\ get_jsonable_dict(e) = [key \in DOMAIN e |-> Json(e[key])]
  BY ConvertedDictionary
<1>2. DOMAIN d = DOMAIN e
  BY <1>1
<1>3. \A key \in DOMAIN d : Json(d[key]) = Json(e[key])
  BY <1>1, <1>2
<1>4. \A key \in DOMAIN d : d[key].kind = "single" <=> e[key].kind = "single"
  BY <1>2 DEF Singles
<1>5. \A key \in DOMAIN d : Json(Field(d[key])) = Json(Field(e[key]))
  <2>1. \A key \in DOMAIN d : d[key] \in Values /\ e[key] \in Values
    BY <1>2 DEF IsDictionary
  <2> QED BY <1>3, <1>4, <2>1, FieldOfJson
<1>6. /\ IsDictionary(FieldOf(d)) /\ FieldOf(d) = [key \in DOMAIN d |-> Field(d[key])]
      /\ IsDictionary(FieldOf(e)) /\ FieldOf(e) = [key \in DOMAIN e |-> Field(e[key])]
  BY ConvertedDictionary
<1>7. /\ get_jsonable_dict(FieldOf(d)) = [key \in DOMAIN d |-> Json(Field(d[key]))]
      /\ get_jsonable_dict(FieldOf(e)) = [key \in DOMAIN e |-> Json(Field(e[key]))]
  BY <1>6, ConvertedDictionary
<1> QED BY <1>2, <1>5, <1>7

-----------------------------------------------------------------------------
(* Results that runs make.                                                  *)

LEMMA PreparedIsGiven ==
  ASSUME NEW p \in Parameters
  PROVE  IsGiven(Prepared(p))
<1>1. IsGiven(p) /\ IsDictionary(Variables)
  BY LocalRunAssumption
<1>2. IsDictionary(Merged(p.inputs, Variables))
  BY <1>1 DEF IsGiven, IsDictionary, Merged
<1>3. /\ Prepared(p).inputs = Merged(p.inputs, Variables)
      /\ Prepared(p) \in
           [type : ResultTypes, project_name : Projects \cup {Missing},
            flow_id : FlowIds \cup {Missing}, inputs : {Prepared(p).inputs},
            outputs : {p.outputs}, files : {p.files},
            others : SUBSET {"pv_collection_isotime", "config"}, config : {p.config},
            unique_hash : {Missing}]
  BY <1>1 DEF Prepared, prepare_lume_model_variables, IsGiven
<1> QED BY <1>1, <1>2, <1>3 DEF IsGiven

\* The fields of the class's own, of what a result is made of and of a result.
OwnFieldsGiven(g) ==
  /\ RequiredFields[g.type] \subseteq DOMAIN g.files \cup g.others
  /\ DOMAIN g.files \subseteq FileFields[g.type]
  /\ g.others \subseteq OtherFields[g.type]

\* What a Result that a run makes is, of what it was made of.
MadeOf(r, g) ==
  /\ IsGiven(g) /\ g.flow_id \in FlowIds
  /\ r = [type |-> g.type, project_name |-> ProjectFor(g, NoContext),
          flow_id |-> g.flow_id, inputs |-> FieldOf(g.inputs),
          outputs |-> FieldOf(g.outputs), files |-> FilesOf(g.files),
          others |-> g.others, config |-> g.config,
          unique_hash |-> HashOf(g.inputs, g.outputs, g.flow_id)]
  /\ ~ FieldRaises(g.inputs) /\ ~ FieldRaises(g.outputs)
  /\ OwnFieldsGiven(g)

LEMMA ResultMade ==
  ASSUME NEW r \in Results
  PROVE  \E g \in {Prepared(p) : p \in Parameters} : MadeOf(r, g)
<1>1. PICK p \in Parameters :
        /\ r = Construct(Prepared(p).type, Prepared(p), NoContext)
        /\ ~ ConstructRaises(Prepared(p).type, Prepared(p), NoContext)
  BY DEF Results
<1> DEFINE g == Prepared(p)
<1>2. IsGiven(g)
  BY PreparedIsGiven
<1> HIDE DEF g
<1>3. ~ ConstructRaises(g.type, g, NoContext) /\ r = Construct(g.type, g, NoContext)
  BY <1>1 DEF g
<1>4. g.flow_id \in FlowIds /\ FlowFor(g, NoContext) = g.flow_id
  BY <1>2, <1>3 DEF ConstructRaises, ValidateRaises, FlowFor, NoContext, IsGiven
<1>5. UniqueHash(g, NoContext) = HashOf(g.inputs, g.outputs, g.flow_id)
  BY <1>2, <1>4 DEF UniqueHash, IsGiven
<1>6. MadeOf(r, g)
  BY <1>2, <1>3, <1>4, <1>5 DEF MadeOf, ConstructRaises, Construct, OwnFieldsGiven
<1> QED BY <1>6 DEF g

LEMMA ResultTyped ==
  ASSUME NEW r \in Results
  PROVE  /\ r.type \in ResultTypes /\ r.project_name \in Projects /\ r.flow_id \in FlowIds
         /\ r.flow_id # Missing /\ r.unique_hash # Missing
         /\ FieldDictionary(r.inputs) /\ FieldDictionary(r.outputs)
         /\ IsDictionary(r.config) /\ OwnFieldsGiven(r)
<1>1. PICK g \in {Prepared(p) : p \in Parameters} : MadeOf(r, g)
  BY ResultMade
<1>2. /\ IsDictionary(g.inputs) /\ IsDictionary(g.outputs) /\ IsDictionary(g.config)
      /\ g.type \in ResultTypes /\ g.project_name \in Projects \cup {Missing}
  BY <1>1 DEF MadeOf, IsGiven
<1>3. FieldDictionary(FieldOf(g.inputs)) /\ FieldDictionary(FieldOf(g.outputs))
  BY <1>1, <1>2, FieldTyped DEF MadeOf
<1>4. DOMAIN FilesOf(g.files) = DOMAIN g.files
  BY DEF FilesOf, RenamedAll
<1>5. ProjectFor(g, NoContext) \in Projects
  BY <1>2, ResultAssumption DEF ProjectFor, NoContext
<1>6. g.flow_id # Missing
  BY <1>1, ResultAssumption DEF MadeOf
<1>7. OwnFieldsGiven(r)
  BY <1>1, <1>4 DEF MadeOf, OwnFieldsGiven
<1> QED BY <1>1, <1>2, <1>3, <1>5, <1>6, <1>7, MissingIsNoHash DEF MadeOf

\* Each stored document can be made an object, of the same JSON.
LEMMA DocumentIsObject ==
  ASSUME NEW r \in Results
  PROVE  LET document == get_db_dict(r)
             object == OfDocument(document)
         IN /\ ~ OfDocumentRaises(document)
            /\ SameJson(object, r)
<1> DEFINE document == get_db_dict(r)
           g == GivenBy(Missing, document)
<1>1. /\ r.type \in ResultTypes /\ r.flow_id # Missing /\ r.unique_hash # Missing
      /\ FieldDictionary(r.inputs) /\ FieldDictionary(r.outputs)
      /\ IsDictionary(r.config) /\ OwnFieldsGiven(r)
  BY ResultTyped
<1>2. /\ document.type = r.type
      /\ g.flow_id = r.flow_id /\ g.unique_hash = r.unique_hash
      /\ g.inputs = get_bson_dict(r.inputs) /\ g.outputs = get_bson_dict(r.outputs)
      /\ DOMAIN g.files = DOMAIN r.files /\ g.others = r.others
  BY DEF get_db_dict, GivenBy, get_bson_dict, RenamedAll
<1>3. FlowFor(g, NoContext) = r.flow_id
  BY <1>1, <1>2 DEF FlowFor
<1>4. /\ ~ FieldRaises(g.inputs) /\ ~ FieldRaises(g.outputs)
      /\ get_jsonable_dict(FieldOf(g.inputs)) = get_jsonable_dict(r.inputs)
      /\ get_jsonable_dict(FieldOf(g.outputs)) = get_jsonable_dict(r.outputs)
  BY <1>1, <1>2, StoredDictionaryLoads
<1> HIDE DEF g, document
<1>5. ~ ConstructRaises(document.type, g, NoContext)
  BY <1>1, <1>2, <1>3, <1>4 DEF ConstructRaises, ValidateRaises, OwnFieldsGiven
<1>6. LET object == Construct(document.type, g, NoContext) IN
      /\ object.flow_id = r.flow_id
      /\ object.inputs = FieldOf(g.inputs) /\ object.outputs = FieldOf(g.outputs)
  BY <1>3 DEF Construct
<1> QED
  BY <1>4, <1>5, <1>6 DEF OfDocumentRaises, OfDocument, SameJson, g, document

\* Two results of one hash are of one class, one flow and one JSON, unless the runs differ
\* in what the hash does not tell.
LEMMA OneHash ==
  ASSUME HashesTellApart, NEW r \in Results, NEW s \in Results,
         r.unique_hash = s.unique_hash
  PROVE  /\ r.type = s.type /\ SameJson(s, r)
         /\ LoadRaises(r.config) <=> LoadRaises(s.config)
<1>1. PICK g \in {Prepared(p) : p \in Parameters} : MadeOf(r, g)
  BY ResultMade
<1>2. PICK h \in {Prepared(p) : p \in Parameters} : MadeOf(s, h)
  BY ResultMade
<1>3. HashOf(g.inputs, g.outputs, g.flow_id) = HashOf(h.inputs, h.outputs, h.flow_id)
  BY <1>1, <1>2 DEF MadeOf
<1>4. /\ get_jsonable_dict(g.inputs) = get_jsonable_dict(h.inputs)
      /\ get_jsonable_dict(g.outputs) = get_jsonable_dict(h.outputs)
      /\ g.flow_id = h.flow_id
  BY <1>3 DEF HashOf
<1>5. /\ g.type = h.type
      /\ LoadRaises(g.config) <=> LoadRaises(h.config)
      /\ Singles(g.inputs) = Singles(h.inputs) /\ Singles(g.outputs) = Singles(h.outputs)
  BY <1>3 DEF HashesTellApart
<1>6. /\ IsDictionary(g.inputs) /\ IsDictionary(g.outputs)
      /\ IsDictionary(h.inputs) /\ IsDictionary(h.outputs)
  BY <1>1, <1>2 DEF MadeOf, IsGiven
<1>7. /\ get_jsonable_dict(FieldOf(g.inputs)) = get_jsonable_dict(FieldOf(h.inputs))
      /\ get_jsonable_dict(FieldOf(g.outputs)) = get_jsonable_dict(FieldOf(h.outputs))
  BY <1>4, <1>5, <1>6, JsonOfFields
<1> QED BY <1>1, <1>2, <1>4, <1>5, <1>7 DEF MadeOf, SameJson

\* A document loads through load_from_query of the class that it names.
LEMMA DocumentLoads ==
  ASSUME NEW r \in Results, r.flow_id \notin NumericIds, ~ LoadRaises(r.config),
         NEW project
  PROVE  LET document == get_db_dict(r) IN
         /\ ~ LoadDocumentRaises(r.type, project, document)
         /\ SameJson(LoadDocument(r.type, project, document), r)
<1> DEFINE document == get_db_dict(r)
           g == GivenBy(project, Loaded(document))
<1>1. /\ r.type \in ResultTypes /\ r.flow_id # Missing /\ r.unique_hash # Missing
      /\ FieldDictionary(r.inputs) /\ FieldDictionary(r.outputs)
      /\ IsDictionary(r.config) /\ OwnFieldsGiven(r)
  BY ResultTyped
<1>2. /\ document.flow_id = r.flow_id
      /\ document.inputs = get_bson_dict(r.inputs)
      /\ document.outputs = get_bson_dict(r.outputs)
      /\ document.config = get_bson_dict(r.config)
  BY DEF get_db_dict
<1>3. /\ g.flow_id = r.flow_id /\ g.unique_hash = r.unique_hash
      /\ g.inputs = load_db_dict(document.inputs)
      /\ g.outputs = load_db_dict(document.outputs)
      /\ DOMAIN g.files = DOMAIN r.files /\ g.others = r.others
  BY DEF get_db_dict, GivenBy, Loaded, load_db_dict, get_bson_dict, RenamedAll
<1>4. FlowFor(g, NoContext) = r.flow_id
  BY <1>1, <1>3 DEF FlowFor
<1>5. /\ ~ LoadRaises(document.inputs) /\ ~ LoadRaises(document.outputs)
      /\ ~ FieldRaises(g.inputs) /\ ~ FieldRaises(g.outputs)
      /\ get_jsonable_dict(FieldOf(g.inputs)) = get_jsonable_dict(r.inputs)
      /\ get_jsonable_dict(FieldOf(g.outputs)) = get_jsonable_dict(r.outputs)
  BY <1>1, <1>2, <1>3, StoredDictionaryLoads
<1>8. ~ LoadRaises(document.config)
  BY <1>1, <1>2, StoredConfigLoads
<1> HIDE DEF g, document
<1>6. ~ ConstructRaises(r.type, g, NoContext)
  BY <1>1, <1>3, <1>4, <1>5 DEF ConstructRaises, ValidateRaises, OwnFieldsGiven
<1>7. LET object == Construct(r.type, g, NoContext) IN
      /\ object.flow_id = r.flow_id
      /\ object.inputs = FieldOf(g.inputs) /\ object.outputs = FieldOf(g.outputs)
  BY <1>4 DEF Construct
<1> QED
  BY <1>2, <1>5, <1>6, <1>7, <1>8 DEF LoadDocumentRaises, LoadDocument, SameJson, g, document

\* A document that the representation of a result finds loads as that result, unless its
\* flow id or its config cannot be loaded.
LEMMA FoundLoads ==
  ASSUME HashesTellApart, NEW r \in Results,
         NEW s \in Results, s.unique_hash = r.unique_hash
  PROVE  LET rep == unique_rep(r)
             document == get_db_dict(s)
         IN /\ ~ OfDocumentRaises(document) /\ SameJson(OfDocument(document), r)
            /\ (r.flow_id \notin NumericIds /\ ~ LoadRaises(r.config)) =>
                 /\ ~ LoadDocumentRaises(rep.result_type_string, rep.project_name, document)
                 /\ SameJson(LoadDocument(rep.result_type_string, rep.project_name, document),
                             r)
<1>1. s.type = r.type /\ SameJson(s, r) /\ (LoadRaises(r.config) <=> LoadRaises(s.config))
  BY OneHash
<1>2. s.flow_id = r.flow_id
  BY <1>1 DEF SameJson
<1>3. /\ unique_rep(r).result_type_string = s.type
      /\ unique_rep(r).project_name = r.project_name
  BY <1>1 DEF unique_rep
<1>4. (r.flow_id \notin NumericIds /\ ~ LoadRaises(r.config)) =>
        /\ ~ LoadDocumentRaises(s.type, r.project_name, get_db_dict(s))
        /\ SameJson(LoadDocument(s.type, r.project_name, get_db_dict(s)), s)
  BY <1>1, <1>2, DocumentLoads
<1>5. ~ OfDocumentRaises(get_db_dict(s)) /\ SameJson(OfDocument(get_db_dict(s)), s)
  BY DocumentIsObject
<1>6. \A object : SameJson(object, s) => SameJson(object, r)
  BY <1>1 DEF SameJson
<1> QED BY <1>3, <1>4, <1>5, <1>6

(***************************************************************************)
(* The state of runs, of the documents, and of queries.                    *)
(***************************************************************************)
LEMMA Places ==
  /\ Len(FlowTasks) = 6 /\ DOMAIN FlowTasks = 1..6
  /\ Tasks = {"check", "configure", "prepare", "predict", "save", "load"}
  /\ \A i \in 1..6 : FlowTasks[i] \in Tasks
  /\ \A i \in 1..6, j \in 1..6 : FlowTasks[i] = FlowTasks[j] => i = j
<1>1. Len(FlowTasks) = 6 /\ DOMAIN FlowTasks = 1..6
  BY DEF FlowTasks
<1>2. /\ FlowTasks[1] = "check" /\ FlowTasks[2] = "configure" /\ FlowTasks[3] = "prepare"
      /\ FlowTasks[4] = "predict" /\ FlowTasks[5] = "save" /\ FlowTasks[6] = "load"
  BY DEF FlowTasks
<1>3. 1..6 = {1, 2, 3, 4, 5, 6}
  OBVIOUS
<1>4. Tasks = {FlowTasks[i] : i \in 1..6}
  BY <1>1 DEF Tasks, ToSet
<1> QED BY <1>1, <1>2, <1>3, <1>4

TaskStates == {"Pending", "Success", "Failed"}
Runs ==
  [call : (UNION {Calls[t] : t \in Threads}) \cup {None}, next : 0..7,
   states : [Tasks -> TaskStates], result : Results \cup {None},
   savedIn : Databases \cup {None}]

\* Of run r: the Result is made once predict has succeeded, ...
Predicted(r) == r.states["predict"] = "Success" => r.result \in Results
\* ... and the tasks that it has not come to have not ended.
Ahead(r) == \A i \in 1..6 : i >= r.next => r.states[FlowTasks[i]] = "Pending"

RunOK(t) ==
  /\ run[t] \in Runs
  /\ run[t].next # 0 => run[t].call \in Calls[t]
  /\ doing[t] = "run" => run[t].next # 0
  /\ Predicted(run[t]) /\ Ahead(run[t])

\* A container that is injected stays, or gives way to another one.
CallsChose == \A t \in Configurers : configuring[t].of # None
Injected == \A t \in Threads : run[t].next # 0 => context # None

Base == TypeOK /\ CallsChose /\ Injected /\ \A t \in Threads : RunOK(t)

LEMMA ContextStays ==
  ASSUME ConfigTypeOK, CallsChose, [ConfigNext]_configVars
  PROVE  CallsChose' /\ (context # None => context' # None)
<1>1. CASE UNCHANGED configVars
  BY <1>1 DEF configVars, CallsChose, Configurers
<1>2. ASSUME NEW t \in Threads, NEW given \in Settings \cup {None}, NotConfigured(t, given)
      PROVE  CallsChose' /\ context' = context
  <2>1. /\ configuring'[t].step = "raised"
        /\ \A u \in Threads \ {t} : configuring'[u] = configuring[u]
    BY <1>2, GoesTyped DEF NotConfigured
  <2> QED BY <1>2, <2>1 DEF NotConfigured, globals, CallsChose, Configurers
<1>3. ASSUME NEW t \in Threads, NEW given \in Settings \cup {None}, Configure(t, given)
      PROVE  CallsChose' /\ context' = context
  <2>1. PICK step \in {"context", "raised"} : Enters(t, step, Chosen(given))
    BY <1>3 DEF Configure
  <2>2. Chosen(given) \in Settings
    BY <1>3, ChosenIsSettings DEF Configure
  <2>3. /\ configuring'[t].of = Chosen(given)
        /\ \A u \in Threads \ {t} : /\ configuring'[u].step = configuring[u].step
                                    /\ configuring'[u].of = configuring[u].of
    BY <2>1, <2>2, EntersTyped
  <2> QED BY <1>3, <2>2, <2>3, NoneIsNoSettings DEF Configure, CallsChose, Configurers
<1>4. ASSUME NEW t \in Threads, SetContext(t)
      PROVE  CallsChose' /\ context' # None
  <2>1. /\ configuring'[t].of = configuring[t].of
        /\ \A u \in Threads \ {t} : configuring'[u] = configuring[u]
    BY <1>4, GoesTyped DEF SetContext
  <2> QED BY <1>4, <2>1 DEF SetContext, CallsChose, Configurers
<1>5. ASSUME NEW t \in Threads, SetSettings(t)
      PROVE  CallsChose' /\ context' = context
  <2>1. /\ configuring'[t].of = configuring[t].of /\ t \in Configurers
        /\ \A u \in Threads \ {t} : configuring'[u] = configuring[u]
    BY <1>5, GoesTyped DEF SetSettings, Configurers
  <2> QED BY <1>5, <2>1 DEF SetSettings, CallsChose, Configurers
<1>6. ASSUME NEW t \in Threads, ConfigureReturned(t)
      PROVE  CallsChose' /\ context' = context
  BY <1>6, ReturnedTyped DEF ConfigureReturned, globals, CallsChose, Configurers
<1> QED
  BY <1>1, <1>2, <1>3, <1>4, <1>5, <1>6 DEF ConfigNext

-----------------------------------------------------------------------------
(* What a step of a thread does to its run.                                 *)

\* Run q is run r after its task has ended in that state.
Follows(q, r, task, state) ==
  /\ q \in Runs
  /\ q.call = r.call /\ q.next = r.next + 1
  /\ q.states = [r.states EXCEPT ![task] = state]

LEMMA EndedIsRun ==
  ASSUME NEW r \in Runs, r.next \in 1..6, NEW task \in Tasks,
         NEW state \in {"Success", "Failed"}
  PROVE  /\ Follows(Ended(r, task, state), r, task, state)
         /\ Ended(r, task, state).result = r.result
         /\ Ended(r, task, state).savedIn = r.savedIn
<1>1. [r.states EXCEPT ![task] = state] \in [Tasks -> TaskStates]
  BY DEF Runs, TaskStates
<1>2. r.next + 1 \in 0..7
  OBVIOUS
<1> DEFINE q == Ended(r, task, state)
<1>3. /\ q.call = r.call /\ q.next = r.next + 1
      /\ q.states = [r.states EXCEPT ![task] = state]
      /\ q.result = r.result /\ q.savedIn = r.savedIn
  BY DEF Ended, Runs
<1>4. q \in [call : {q.call}, next : {q.next}, states : {q.states}, result : {q.result},
            savedIn : {q.savedIn}]
  BY DEF Ended, Runs
<1> HIDE DEF q
<1>5. q \in Runs
  BY <1>1, <1>2, <1>3, <1>4 DEF Runs
<1> QED BY <1>3, <1>5 DEF q, Follows

LEMMA AtTaskPlace ==
  ASSUME NEW t \in Threads, RunOK(t), NEW task, AtTask(t, task)
  PROVE  /\ doing[t] = "run" /\ run[t] \in Runs /\ run[t].next \in 1..6
         /\ task \in Tasks /\ FlowTasks[run[t].next] = task
         /\ run[t].call \in Calls[t] /\ run[t].states[task] = "Pending"
BY Places DEF RunOK, Runs, AtTask, Ahead

LEMMA TaskEnded ==
  ASSUME NEW t \in Threads, RunOK(t), NEW task, AtTask(t, task),
         NEW state \in {"Success", "Failed"}
  PROVE  /\ Follows(Ended(run[t], task, state), run[t], task, state)
         /\ Ended(run[t], task, state).result = run[t].result
         /\ Ended(run[t], task, state).savedIn = run[t].savedIn
<1>1. run[t] \in Runs /\ run[t].next \in 1..6 /\ task \in Tasks
  BY AtTaskPlace
<1> QED BY <1>1, EndedIsRun

Starts(t) ==
  \E k \in Calls[t] :
    /\ doing[t] = "idle" /\ context # None
    /\ run' = [run EXCEPT ![t] = NewRun(k)]
    /\ Does(t, "run")
    /\ answer' = [answer EXCEPT ![t] = {}]
    /\ UNCHANGED documents

Leaves(t) ==
  /\ doing[t] \in {"idle", "run"}
  /\ run' = [run EXCEPT ![t] = NoRun]
  /\ Does(t, "idle")
  /\ answer' = [answer EXCEPT ![t] = {}]
  /\ UNCHANGED documents

\* Predict makes the Result, and save alone stores a document, also when it fails.
TaskEnds(t) ==
  \E task \in Tasks, state \in {"Success", "Failed"}, q \in Runs :
    /\ AtTask(t, task)
    /\ run' = [run EXCEPT ![t] = q]
    /\ Follows(q, run[t], task, state)
    /\ \/ /\ state = "Success" => task \notin {"predict", "save"}
          /\ q.result = run[t].result /\ q.savedIn = run[t].savedIn
          /\ UNCHANGED documents
       \/ /\ task = "predict" /\ state = "Success"
          /\ q.result \in Results /\ q.savedIn = run[t].savedIn
          /\ UNCHANGED documents
       \/ /\ task = "save" /\ run[t].states["predict"] = "Success"
          /\ q.result = run[t].result
          /\ \E db \in Databases : /\ documents' = Inserted(run[t].result, db)
                                   /\ state = "Success" => q.savedIn = db
    /\ UNCHANGED <<doing, answer>>

RunOver(t) ==
  /\ AfterTasks(t) /\ run[t].call.through = "run"
  /\ run' = [run EXCEPT ![t] = NoRun]
  /\ Does(t, "idle")
  /\ UNCHANGED <<answer, documents>>

Answers(t) ==
  /\ AfterTasks(t) /\ run[t].call.through = "run_and_return"
  /\ Outcome(t, "Returned")
  /\ answer' = [answer EXCEPT ![t] = Answer(t)]
  /\ Does(t, "idle")
  /\ UNCHANGED <<run, documents>>

NoRunStep(t) ==
  /\ \/ UNCHANGED doing
     \/ /\ doing[t] \in {"idle", "configure"}
        /\ \E d \in {"idle", "configure"} : Does(t, d)
  /\ UNCHANGED <<run, answer, documents>>

RunMoves(t) ==
  \/ Starts(t) \/ Leaves(t) \/ TaskEnds(t) \/ RunOver(t) \/ Answers(t) \/ NoRunStep(t)

\* A call that is made or goes on ends with that outcome, or not yet.
Ends(t) ==
  \/ UNCHANGED outcome
  \/ \E o \in Outcomes \ {"Results"} : outcome' = [outcome EXCEPT ![t] = o]

LEMMA CallingCounts ==
  ASSUME TypeOK, NEW t \in Threads, Calling(t)
  PROVE  calls' \in [Threads -> Nat] /\ doing[t] = "idle"
BY DEF TypeOK, Calling

LEMMA BeginMoves ==
  ASSUME Base, NEW t \in Threads, NEW k, doing[t] = "idle",
         k \in Calls[t] \/ k.mistake = "not_loaded", Begin(t, k), UNCHANGED documents
  PROVE  (Starts(t) \/ Leaves(t)) /\ Ends(t)
<1> DEFINE error == IF context = None THEN "AttributeError"
                    ELSE IF k.mistake # "none" THEN ErrorOf(k) ELSE "None"
<1>1. error \in Outcomes \ {"Results"}
  BY DEF ErrorOf, load_flow, OnServerOnly, Outcomes
<1>2. /\ answer' = [answer EXCEPT ![t] = {}]
      /\ outcome' = [outcome EXCEPT ![t] = error]
      /\ run' = [run EXCEPT ![t] = IF error = "None" THEN NewRun(k) ELSE NoRun]
      /\ Does(t, IF error = "None" THEN "run" ELSE "idle")
  BY DEF Begin
<1>3. error = "None" => context # None /\ k \in Calls[t]
  BY DEF ErrorOf, load_flow, OnServerOnly
<1> HIDE DEF error
<1>4. error = "None" => Starts(t)
  BY <1>2, <1>3 DEF Starts
<1>5. error # "None" => Leaves(t)
  BY <1>2 DEF Leaves
<1> QED BY <1>1, <1>2, <1>4, <1>5 DEF Ends

-----------------------------------------------------------------------------
(* The steps that are no queries, one by one.                               *)

LEMMA FailsEnds ==
  ASSUME NEW t \in Threads, RunOK(t), NEW task, AtTask(t, task), Fails(t, task),
         UNCHANGED documents
  PROVE  TaskEnds(t) /\ UNCHANGED <<outcome, calls>>
<1> DEFINE q == Ended(run[t], task, "Failed")
<1>1. /\ Follows(q, run[t], task, "Failed")
      /\ q.result = run[t].result /\ q.savedIn = run[t].savedIn
  BY TaskEnded
<1>2. /\ run' = [run EXCEPT ![t] = q] /\ UNCHANGED <<doing, answer, outcome, calls>>
  BY DEF Fails
<1>3. task \in Tasks
  BY AtTaskPlace
<1> HIDE DEF q
<1> QED BY <1>1, <1>2, <1>3 DEF TaskEnds, Follows

LEMMA SucceedsEnds ==
  ASSUME NEW t \in Threads, RunOK(t), NEW task, AtTask(t, task),
         task \notin {"predict", "save"}, Succeeds(t, task), UNCHANGED documents
  PROVE  TaskEnds(t) /\ UNCHANGED <<outcome, calls>>
<1> DEFINE q == Ended(run[t], task, "Success")
<1>1. /\ Follows(q, run[t], task, "Success")
      /\ q.result = run[t].result /\ q.savedIn = run[t].savedIn
  BY TaskEnded
<1>2. /\ run' = [run EXCEPT ![t] = q] /\ UNCHANGED <<doing, answer, outcome, calls>>
  BY DEF Succeeds
<1>3. task \in Tasks
  BY AtTaskPlace
<1> HIDE DEF q
<1> QED BY <1>1, <1>2, <1>3 DEF TaskEnds, Follows

LEMMA TaskMoves ==
  ASSUME Base, NEW t \in Threads,
         \/ TriggerFailed(t) \/ CheckLocalExecution(t) \/ PrepareVariables(t) \/ Load(t)
  PROVE  TaskEnds(t) /\ UNCHANGED <<outcome, calls, faults>>
<1>1. RunOK(t)
  BY DEF Base
<1>2. CASE TriggerFailed(t)
  BY <1>1, <1>2, FailsEnds DEF TriggerFailed
<1>3. CASE CheckLocalExecution(t)
  BY <1>1, <1>3, FailsEnds, SucceedsEnds DEF CheckLocalExecution, Ready
<1>4. CASE PrepareVariables(t)
  BY <1>1, <1>4, FailsEnds, SucceedsEnds DEF PrepareVariables, Ready
<1>5. CASE Load(t)
  BY <1>1, <1>5, FailsEnds, SucceedsEnds DEF Load, Ready
<1> QED BY <1>2, <1>3, <1>4, <1>5

LEMMA ConfigureTaskMoves ==
  ASSUME Base, NEW t \in Threads, ConfigureTaskEnds(t)
  PROVE  TaskEnds(t) /\ UNCHANGED <<outcome, calls, faults>>
<1> DEFINE state == IF configuring[t].step = "done" THEN "Success" ELSE "Failed"
           q == Ended(run[t], "configure", state)
<1>1. RunOK(t) /\ AtTask(t, "configure")
  BY DEF Base, ConfigureTaskEnds, Ready
<1>2. state \in {"Success", "Failed"}
  OBVIOUS
<1>3. run' = [run EXCEPT ![t] = q]
  BY DEF ConfigureTaskEnds
<1> HIDE DEF state
<1>4. /\ Follows(q, run[t], "configure", state)
      /\ q.result = run[t].result /\ q.savedIn = run[t].savedIn
  BY <1>1, <1>2, TaskEnded
<1>5. "configure" \in Tasks
  BY Places
<1> HIDE DEF q
<1>6. TaskEnds(t)
  BY <1>1, <1>2, <1>3, <1>4, <1>5 DEF TaskEnds, Follows, ConfigureTaskEnds
<1> QED BY <1>6 DEF ConfigureTaskEnds

LEMMA PredictMoves ==
  ASSUME Base, NEW t \in Threads, Predict(t)
  PROVE  TaskEnds(t) /\ UNCHANGED <<outcome, calls, faults>>
<1> DEFINE given == Prepared(run[t].call.parameters)
           made == Construct(given.type, given, NoContext)
           e == Ended(run[t], "predict", "Success")
           q == [e EXCEPT !.result = made]
<1>1. RunOK(t) /\ AtTask(t, "predict")
  BY DEF Base, Predict, Ready
<1>2. CASE ConstructRaises(given.type, given, NoContext)
  BY <1>1, <1>2, FailsEnds DEF Predict
<1>3. CASE ~ ConstructRaises(given.type, given, NoContext)
  <2>1. run[t].call.parameters \in Parameters
    BY <1>1, AtTaskPlace, LocalRunAssumption
  <2>2. made \in Results
    BY <1>3, <2>1 DEF Results
  <2>3. /\ run' = [run EXCEPT ![t] = q]
        /\ UNCHANGED <<documents, doing, answer, outcome, calls, faults>>
    BY <1>3 DEF Predict
  <2> HIDE DEF made
  <2>4. /\ Follows(e, run[t], "predict", "Success")
        /\ e.savedIn = run[t].savedIn
    BY <1>1, TaskEnded
  <2> HIDE DEF e
  <2>5. /\ Follows(q, run[t], "predict", "Success")
        /\ q.result = made /\ q.savedIn = run[t].savedIn
    BY <2>2, <2>4 DEF Follows, Runs
  <2>6. "predict" \in Tasks
    BY Places
  <2> HIDE DEF q
  <2> QED BY <1>1, <2>2, <2>3, <2>4, <2>5, <2>6 DEF TaskEnds, Follows
<1> QED BY <1>2, <1>3

LEMMA ResultsDatabase ==
  ASSUME ConfigTypeOK, context # None
  PROVE  ResultsOf[context] \in Databases \cup {None}
BY ConfigurationAssumption DEF ConfigTypeOK

LEMMA SaveMoves ==
  ASSUME Base, NEW t \in Threads, Save(t) \/ SaveFails(t)
  PROVE  TaskEnds(t) /\ UNCHANGED <<outcome, calls>> /\ faults' \in 0..MaxFaults
<1> DEFINE db == ResultsOf[context]
<1>1. RunOK(t) /\ AtTask(t, "save") /\ run[t].states["predict"] = "Success"
  BY DEF Base, Save, SaveFails, Ready, UpstreamOf
<1>2. db \in Databases \cup {None}
  BY <1>1, AtTaskPlace, ResultsDatabase DEF Base, Injected, TypeOK
<1>3. "save" \in Tasks
  BY Places
<1>4. CASE Save(t)
  <2> DEFINE e == Ended(run[t], "save", "Success")
             q == [e EXCEPT !.savedIn = db]
  <2>1. /\ run' = [run EXCEPT ![t] = q] /\ db \in Databases
        /\ documents' = Inserted(run[t].result, db)
        /\ UNCHANGED <<doing, answer, outcome, calls, faults>>
    BY <1>2, <1>4 DEF Save
  <2> HIDE DEF db
  <2>2. /\ Follows(e, run[t], "save", "Success")
        /\ e.result = run[t].result
    BY <1>1, TaskEnded
  <2> HIDE DEF e
  <2>3. /\ Follows(q, run[t], "save", "Success")
        /\ q.result = run[t].result /\ q.savedIn = db
    BY <2>1, <2>2 DEF Follows, Runs
  <2> HIDE DEF q
  <2>4. TaskEnds(t)
    BY <1>1, <1>3, <2>1, <2>2, <2>3 DEF TaskEnds, Follows
  <2> QED BY <2>1, <2>4 DEF Base, TypeOK
<1>5. CASE SaveFails(t)
  <2> DEFINE q == Ended(run[t], "save", "Failed")
  <2>1. /\ run' = [run EXCEPT ![t] = q]
        /\ UNCHANGED <<doing, answer, outcome, calls>>
    BY <1>5 DEF SaveFails, Fails
  <2>2. UNCHANGED documents \/ (db \in Databases /\ documents' = Inserted(run[t].result, db))
    BY <1>2, <1>5 DEF SaveFails
  <2>3. faults' \in 0..MaxFaults
    BY <1>5, LocalRunAssumption DEF SaveFails, Base, TypeOK
  <2> HIDE DEF db
  <2>4. /\ Follows(q, run[t], "save", "Failed")
        /\ q.result = run[t].result /\ q.savedIn = run[t].savedIn
    BY <1>1, TaskEnded
  <2> HIDE DEF q
  <2>5. TaskEnds(t)
    BY <1>1, <1>3, <2>1, <2>2, <2>4 DEF TaskEnds, Follows
  <2> QED BY <2>1, <2>3, <2>5
<1> QED BY <1>4, <1>5

LEMMA RunEndMoves ==
  ASSUME Base, NEW t \in Threads, RunEnds(t) \/ RunAndReturnEnds(t)
  PROVE  /\ Leaves(t) \/ RunOver(t) \/ Answers(t)
         /\ Ends(t) /\ UNCHANGED <<calls, faults>>
<1>1. CASE RunEnds(t)
  BY <1>1 DEF RunEnds, RunOver, Ends
<1>2. CASE RunAndReturnEnds(t)
  <2>1. PICK o \in Outcomes :
          /\ Outcome(t, o)
          /\ outcome' = [outcome EXCEPT ![t] = Parsed(t, o)]
          /\ answer' = [answer EXCEPT ![t] = IF Parsed(t, o) = "Returned"
                                             THEN Answer(t) ELSE {}]
          /\ run' = IF Parsed(t, o) = "Returned" THEN run ELSE [run EXCEPT ![t] = NoRun]
    BY <1>2 DEF RunAndReturnEnds
  <2>2. /\ AfterTasks(t) /\ run[t].call.through = "run_and_return" /\ Does(t, "idle")
        /\ UNCHANGED <<documents, calls, faults>>
    BY <1>2 DEF RunAndReturnEnds
  <2>3. o # "Results"
    BY <2>1 DEF Outcome
  <2>4. Parsed(t, o) \in Outcomes \ {"Results"} /\ (Parsed(t, o) = "Returned" => o = "Returned")
    BY <2>3 DEF Parsed, Outcomes
  <2>5. Ends(t)
    BY <2>1, <2>4 DEF Ends
  <2>6. CASE Parsed(t, o) = "Returned"
    BY <2>1, <2>2, <2>4, <2>5, <2>6 DEF Answers
  <2>7. CASE Parsed(t, o) # "Returned"
    BY <2>1, <2>2, <2>5, <2>7 DEF Leaves, AfterTasks
  <2> QED BY <2>6, <2>7
<1> QED BY <1>1, <1>2

ModelTyped == model \in [Threads -> [deployment : 0..deployments, artifacts : BOOLEAN]]

\* A step that is no query and none of the other process.
Works(t) ==
  /\ RunMoves(t) /\ Ends(t)
  /\ calls' \in [Threads -> Nat] /\ faults' \in 0..MaxFaults
  /\ ModelTyped'
  /\ UNCHANGED <<deployments, flows, dictionary, query, objects>>

LEMMA BaseCounts ==
  ASSUME Base
  PROVE  calls \in [Threads -> Nat] /\ faults \in 0..MaxFaults /\ ModelTyped
BY DEF Base, TypeOK, ModelTyped

LEMMA RunStepWorks ==
  ASSUME Base, NEW t \in Threads, RunStep(t), UNCHANGED modelVars
  PROVE  Works(t)
<1>1. ModelTyped' /\ UNCHANGED <<deployments, flows, dictionary, query, objects>>
  BY BaseCounts DEF modelVars, ModelTyped
<1>2. CASE ConfigureTask(t)
  BY <1>1, <1>2, BaseCounts DEF ConfigureTask, runVars, Works, RunMoves, NoRunStep, Ends
<1>3. CASE \/ TriggerFailed(t) \/ CheckLocalExecution(t) \/ PrepareVariables(t)
           \/ Load(t) \/ ConfigureTaskEnds(t) \/ Predict(t)
  <2>1. TaskEnds(t) /\ UNCHANGED <<outcome, calls, faults>>
    BY <1>3, TaskMoves, ConfigureTaskMoves, PredictMoves
  <2> QED BY <1>1, <2>1, BaseCounts DEF Works, RunMoves, Ends
<1>4. CASE Save(t) \/ SaveFails(t)
  BY <1>1, <1>4, SaveMoves, BaseCounts DEF Works, RunMoves, Ends
<1>5. CASE RunEnds(t) \/ RunAndReturnEnds(t)
  BY <1>1, <1>5, RunEndMoves, BaseCounts DEF Works, RunMoves
<1> QED BY <1>2, <1>3, <1>4, <1>5 DEF RunStep

LEMMA ConfigureWorks ==
  ASSUME Base, NEW t \in Threads, UNCHANGED modelVars,
         CallConfigure(t) \/ ConfigureGoesOn(t) \/ ConfigureEnds(t)
  PROVE  Works(t)
<1>1. ModelTyped' /\ UNCHANGED <<deployments, flows, dictionary, query, objects>>
  BY BaseCounts DEF modelVars, ModelTyped
<1>2. CASE CallConfigure(t)
  <2>1. calls' \in [Threads -> Nat] /\ doing[t] = "idle"
    BY <1>2, CallingCounts DEF CallConfigure, Base
  <2>2. Does(t, "configure") /\ UNCHANGED <<documents, run, answer, outcome, faults>>
    BY <1>2 DEF CallConfigure
  <2> QED BY <1>1, <2>1, <2>2, BaseCounts DEF Works, RunMoves, NoRunStep, Ends
<1>3. CASE ConfigureGoesOn(t)
  BY <1>1, <1>3, BaseCounts DEF ConfigureGoesOn, runVars, Works, RunMoves, NoRunStep, Ends
<1>4. CASE ConfigureEnds(t)
  <2>1. doing[t] = "configure" /\ Does(t, "idle")
        /\ UNCHANGED <<documents, run, answer, outcome, calls, faults>>
    BY <1>4 DEF ConfigureEnds
  <2> QED BY <1>1, <2>1, BaseCounts DEF Works, RunMoves, NoRunStep, Ends
<1> QED BY <1>2, <1>3, <1>4

LEMMA RegisterWorks ==
  ASSUME Base, NEW t \in Threads, UNCHANGED modelVars,
         Register(t) \/ \E k \in Calls[t] : Run(t, k)
  PROVE  Works(t)
<1>1. ModelTyped' /\ UNCHANGED <<deployments, flows, dictionary, query, objects>>
  BY BaseCounts DEF modelVars, ModelTyped
<1>2. calls' \in [Threads -> Nat] /\ doing[t] = "idle"
  BY CallingCounts DEF Register, Run, Base
<1>3. CASE Register(t)
  <2> DEFINE o == IF context = None THEN "AttributeError" ELSE OnServerOnly
  <2>1. o \in Outcomes \ {"Results"} /\ outcome' = [outcome EXCEPT ![t] = o]
    BY <1>3 DEF Register, Outcomes, OnServerOnly
  <2> HIDE DEF o
  <2> QED BY <1>1, <1>2, <1>3, <2>1, BaseCounts
          DEF Register, Works, RunMoves, NoRunStep, Ends
<1>4. ASSUME NEW k \in Calls[t], Run(t, k)
      PROVE  Works(t)
  <2>1. (Starts(t) \/ Leaves(t)) /\ Ends(t)
    BY <1>2, <1>4, BeginMoves DEF Run
  <2> QED BY <1>1, <1>2, <1>4, <2>1, BaseCounts DEF Run, Works, RunMoves
<1> QED BY <1>3, <1>4

\* Models load deployments that are stored.
LEMMA LoadWorks ==
  ASSUME Base, NEW t \in Threads, LoadDeployment(t) \/ OpenByDeployment(t)
  PROVE  Works(t)
<1>1. calls' \in [Threads -> Nat] /\ doing[t] = "idle"
  BY CallingCounts DEF LoadDeployment, OpenByDeployment, Base
<1>2. \E o \in Outcomes \ {"Results"} : outcome' = [outcome EXCEPT ![t] = o]
  BY DEF LoadDeployment, OpenByDeployment, LoadError, Outcomes
<1>3. /\ UNCHANGED <<documents, doing, run, answer, faults, deployments, flows,
                     dictionary, query, objects>>
  BY DEF LoadDeployment, OpenByDeployment, modelVars
<1>4. ModelTyped'
  <2> DEFINE new == [deployment |-> deployments, artifacts |-> TRUE]
  <2>1. model' = model \/ model' = [model EXCEPT ![t] = new]
    BY DEF LoadDeployment, OpenByDeployment, modelVars
  <2>2. new \in [deployment : 0..deployments, artifacts : BOOLEAN]
    BY ModelResultsAssumption DEF Base, TypeOK
  <2> HIDE DEF new
  <2> QED BY <1>3, <2>1, <2>2, BaseCounts DEF ModelTyped
<1> QED
  BY <1>1, <1>2, <1>3, <1>4, BaseCounts DEF Works, RunMoves, NoRunStep, Ends

LEMMA RunModelWorks ==
  ASSUME Base, NEW t \in Threads, NEW k \in Calls[t],
         RunModel(t, k) \/ RunModelNotLoaded(t, k)
  PROVE  Works(t)
<1>1. calls' \in [Threads -> Nat] /\ doing[t] = "idle"
  BY CallingCounts DEF RunModel, RunModelNotLoaded, Base
<1>2. CASE RunModel(t, k)
  <2>1. (Starts(t) \/ Leaves(t)) /\ Ends(t)
    BY <1>1, <1>2, BeginMoves DEF RunModel
  <2>2. ModelTyped' /\ UNCHANGED <<deployments, flows, dictionary, query, objects>>
    BY <1>2, BaseCounts DEF RunModel, modelVars, ModelTyped
  <2> QED BY <1>1, <1>2, <2>1, <2>2, BaseCounts DEF RunModel, Works, RunMoves
<1>3. CASE RunModelNotLoaded(t, k)
  <2>1. UNCHANGED <<documents, faults, deployments, flows, dictionary, query, objects>>
    BY <1>3 DEF RunModelNotLoaded
  <2>2. CASE model[t].deployment = 0 /\ LoadError # "None"
    <3>1. /\ outcome' = [outcome EXCEPT ![t] = LoadError]
          /\ answer' = [answer EXCEPT ![t] = {}] /\ run' = [run EXCEPT ![t] = NoRun]
          /\ UNCHANGED <<doing, model>>
      BY <1>3, <2>2 DEF RunModelNotLoaded
    <3>2. LoadError \in Outcomes \ {"Results"}
      BY DEF LoadError, Outcomes
    <3>3. Does(t, "idle")
      BY <1>1, <3>1 DEF Does, Base, TypeOK
    <3> QED
      BY <1>1, <2>1, <3>1, <3>2, <3>3, BaseCounts
         DEF Works, RunMoves, Leaves, Ends, ModelTyped
  <2>3. CASE ~ (model[t].deployment = 0 /\ LoadError # "None")
    <3>1. /\ Begin(t, [k EXCEPT !.mistake = "not_loaded"])
          /\ model' = IF model[t].deployment # 0 THEN model
                      ELSE [model EXCEPT ![t].deployment = deployments]
      BY <1>3, <2>3 DEF RunModelNotLoaded
    <3>2. [k EXCEPT !.mistake = "not_loaded"].mistake = "not_loaded"
      BY LocalRunAssumption
    <3>3. (Starts(t) \/ Leaves(t)) /\ Ends(t)
      BY <1>1, <2>1, <3>1, <3>2, BeginMoves
    <3>4. ModelTyped'
      <4>1. deployments \in 0..deployments
        BY ModelResultsAssumption DEF Base, TypeOK
      <4> DEFINE new == [model[t] EXCEPT !.deployment = deployments]
      <4>2. new \in [deployment : 0..deployments, artifacts : BOOLEAN]
        BY <4>1, BaseCounts DEF ModelTyped
      <4>3. model' = model \/ model' = [model EXCEPT ![t] = new]
        BY <3>1
      <4> HIDE DEF new
      <4> QED BY <2>1, <4>2, <4>3, BaseCounts DEF ModelTyped
    <3> QED BY <1>1, <2>1, <3>3, <3>4, BaseCounts DEF Works, RunMoves
  <2> QED BY <2>2, <2>3
<1> QED BY <1>2, <1>3

-----------------------------------------------------------------------------
(* What these steps keep.                                                   *)

\* Documents are only added, after those that are there.
Grows ==
  /\ documents' \in Seq(Documents)
  /\ Len(documents) <= Len(documents')
  /\ \A i \in DOMAIN documents : i \in DOMAIN documents' /\ documents'[i] = documents[i]

RunsTyped ==
  /\ doing \in [Threads -> {"idle", "configure", "run", "query"}]
  /\ run \in [Threads -> Runs]
  /\ answer \in [Threads -> SUBSET Tasks]

LEMMA BaseTyped ==
  ASSUME Base
  PROVE  RunsTyped /\ documents \in Seq(Documents)
BY Places DEF Base, TypeOK, RunsTyped, Runs, TaskStates

LEMMA SameDocuments ==
  ASSUME Base, UNCHANGED documents
  PROVE  Grows
BY BaseTyped DEF Grows

LEMMA InsertedGrows ==
  ASSUME Base, NEW r \in Results, NEW db \in Databases, documents' = Inserted(r, db)
  PROVE  /\ Grows
         /\ Len(documents') = Len(documents) + 1
         /\ documents'[Len(documents) + 1] =
              [db |-> db, collection |-> r.project_name, of |-> get_db_dict(r)]
<1> DEFINE e == [db |-> db, collection |-> r.project_name, of |-> get_db_dict(r)]
<1>1. e \in Documents
  BY DEF Documents
<1>2. documents' = Append(documents, e) /\ documents \in Seq(Documents)
  BY BaseTyped DEF Inserted
<1> HIDE DEF e
<1>3. /\ Grows
      /\ Len(documents') = Len(documents) + 1
      /\ documents'[Len(documents) + 1] = e
  BY <1>1, <1>2 DEF Grows
<1> QED BY <1>3 DEF e

\* A new run and a run that is none.
LEMMA NewRunOK ==
  ASSUME NEW t \in Threads, NEW k \in Calls[t]
  PROVE  /\ NewRun(k) \in Runs /\ NewRun(k).next = 1 /\ NewRun(k).call = k
         /\ NewRun(k).states = [task \in Tasks |-> "Pending"]
         /\ Predicted(NewRun(k)) /\ Ahead(NewRun(k))
BY Places DEF NewRun, Runs, TaskStates, Predicted, Ahead

LEMMA NoRunOK ==
  /\ NoRun \in Runs /\ NoRun.next = 0
  /\ NoRun.states = [task \in Tasks |-> "Pending"]
  /\ Predicted(NoRun) /\ Ahead(NoRun)
BY Places DEF NoRun, Runs, TaskStates, Predicted, Ahead

LEMMA TaskEndsOK ==
  ASSUME Base, NEW t \in Threads, TaskEnds(t)
  PROVE  /\ \E q \in Runs : /\ run' = [run EXCEPT ![t] = q]
                            /\ q.call \in Calls[t] /\ q.next # 0
                            /\ Predicted(q) /\ Ahead(q)
         /\ Grows /\ UNCHANGED <<doing, answer>> /\ run[t].next # 0
<1>1. PICK task \in Tasks, state \in {"Success", "Failed"}, q \in Runs :
        /\ AtTask(t, task)
        /\ run' = [run EXCEPT ![t] = q]
        /\ Follows(q, run[t], task, state)
        /\ \/ /\ state = "Success" => task \notin {"predict", "save"}
              /\ q.result = run[t].result /\ q.savedIn = run[t].savedIn
              /\ UNCHANGED documents
           \/ /\ task = "predict" /\ state = "Success"
              /\ q.result \in Results /\ q.savedIn = run[t].savedIn
              /\ UNCHANGED documents
           \/ /\ task = "save" /\ run[t].states["predict"] = "Success"
              /\ q.result = run[t].result
              /\ \E db \in Databases : /\ documents' = Inserted(run[t].result, db)
                                       /\ state = "Success" => q.savedIn = db
        /\ UNCHANGED <<doing, answer>>
  BY DEF TaskEnds
<1>2. /\ run[t] \in Runs /\ run[t].next \in 1..6 /\ FlowTasks[run[t].next] = task
      /\ run[t].call \in Calls[t] /\ run[t].states[task] = "Pending"
  BY <1>1, AtTaskPlace DEF Base
<1>3. Predicted(run[t]) /\ Ahead(run[t])
  BY DEF Base, RunOK
<1>4. /\ q \in Runs /\ q.call \in Calls[t] /\ q.next = run[t].next + 1
      /\ q.states = [run[t].states EXCEPT ![task] = state]
  BY <1>1, <1>2 DEF Follows
<1>5. Predicted(q)
  <2>1. "predict" \in Tasks /\ run[t].states \in [Tasks -> TaskStates]
    BY <1>2, Places DEF Runs
  <2>2. CASE task = "predict"
    BY <1>1, <1>4, <2>1, <2>2 DEF Predicted
  <2>3. CASE task # "predict"
    BY <1>1, <1>3, <1>4, <2>1, <2>3 DEF Predicted
  <2> QED BY <2>2, <2>3
<1>6. Ahead(q)
  <2> SUFFICES ASSUME NEW i \in 1..6, i >= q.next
               PROVE  q.states[FlowTasks[i]] = "Pending"
    BY DEF Ahead
  <2>1. i >= run[t].next /\ i # run[t].next
    BY <1>2, <1>4
  <2>2. FlowTasks[i] \in Tasks /\ FlowTasks[i] # task
    BY <1>2, <2>1, Places
  <2>3. run[t].states[FlowTasks[i]] = "Pending"
    BY <1>3, <2>1 DEF Ahead
  <2> QED BY <1>2, <1>4, <2>2, <2>3 DEF Runs
<1>7. Grows
  <2>1. CASE UNCHANGED documents
    BY <2>1, SameDocuments
  <2>2. ASSUME run[t].states["predict"] = "Success",
               NEW db \in Databases, documents' = Inserted(run[t].result, db)
        PROVE  Grows
    <3>1. run[t].result \in Results
      BY <1>3, <2>2 DEF Predicted
    <3> QED BY <2>2, <3>1, InsertedGrows
  <2> QED BY <1>1, <2>1, <2>2
<1>8. q.next # 0 /\ run[t].next # 0
  BY <1>2, <1>4
<1> QED BY <1>1, <1>4, <1>5, <1>6, <1>7, <1>8

LEMMA AnswerTyped ==
  ASSUME NEW t \in Threads
  PROVE  Answer(t) \subseteq Tasks
BY DEF Answer, get_tasks

LEMMA RunMovesKeep ==
  ASSUME Base, NEW t \in Threads, RunMoves(t)
  PROVE  /\ RunsTyped' /\ Grows
         /\ \A u \in Threads : RunOK(u)'
         /\ \A u \in Threads : run'[u].next # 0 => context # None
<1>1. /\ RunsTyped /\ \A u \in Threads : RunOK(u) /\ (run[u].next # 0 => context # None)
  BY BaseTyped DEF Base, Injected
<1>2. ASSUME NEW q \in Runs, NEW d \in {"idle", "run"}, NEW a \in SUBSET Tasks,
             run' = [run EXCEPT ![t] = q],
             doing' = [doing EXCEPT ![t] = d] \/ (UNCHANGED doing /\ q.next # 0),
             answer' = [answer EXCEPT ![t] = a],
             q.next # 0 => q.call \in Calls[t] /\ context # None,
             d = "run" => q.next # 0,
             Predicted(q), Ahead(q), Grows
      PROVE  /\ RunsTyped' /\ Grows
             /\ \A u \in Threads : RunOK(u)'
             /\ \A u \in Threads : run'[u].next # 0 => context # None
  <2>1. RunsTyped'
    BY <1>1, <1>2 DEF RunsTyped
  <2>2. /\ run'[t] = q /\ (doing'[t] = "run" => q.next # 0)
        /\ \A u \in Threads \ {t} : run'[u] = run[u] /\ doing'[u] = doing[u]
    BY <1>1, <1>2 DEF RunsTyped
  <2>3. \A u \in Threads : RunOK(u)'
    BY <1>1, <1>2, <2>2 DEF RunOK
  <2> QED BY <1>1, <1>2, <2>1, <2>2, <2>3
<1>3. CASE Starts(t)
  <2>1. PICK k \in Calls[t] :
          /\ doing[t] = "idle" /\ context # None
          /\ run' = [run EXCEPT ![t] = NewRun(k)] /\ Does(t, "run")
          /\ answer' = [answer EXCEPT ![t] = {}] /\ UNCHANGED documents
    BY <1>3 DEF Starts
  <2>2. Grows /\ doing' = [doing EXCEPT ![t] = "run"] /\ {} \in SUBSET Tasks
    BY <2>1, SameDocuments DEF Does
  <2> DEFINE q == NewRun(k)
  <2>3. q \in Runs /\ q.next # 0 /\ q.call \in Calls[t] /\ Predicted(q) /\ Ahead(q)
    BY NewRunOK
  <2>4. run' = [run EXCEPT ![t] = q]
    BY <2>1
  <2> HIDE DEF q
  <2> QED BY <1>2, <2>1, <2>2, <2>3, <2>4
<1>4. CASE Leaves(t)
  <2>1. /\ run' = [run EXCEPT ![t] = NoRun] /\ answer' = [answer EXCEPT ![t] = {}]
        /\ doing' = [doing EXCEPT ![t] = "idle"] /\ {} \in SUBSET Tasks /\ Grows
    BY <1>4, SameDocuments DEF Leaves, Does
  <2> QED BY <1>2, <2>1, NoRunOK
<1>5. CASE TaskEnds(t)
  <2>1. PICK q \in Runs : /\ run' = [run EXCEPT ![t] = q]
                          /\ q.call \in Calls[t] /\ q.next # 0
                          /\ Predicted(q) /\ Ahead(q)
    BY <1>5, TaskEndsOK
  <2>2. Grows /\ UNCHANGED <<doing, answer>> /\ run[t].next # 0
    BY <1>5, TaskEndsOK
  <2>3. answer' = [answer EXCEPT ![t] = answer[t]] /\ answer[t] \in SUBSET Tasks
    BY <1>1, <2>2 DEF RunsTyped
  <2>4. context # None
    BY <1>1, <2>2
  <2> QED BY <1>2, <2>1, <2>2, <2>3, <2>4
<1>6. CASE RunOver(t)
  <2>1. answer' = [answer EXCEPT ![t] = answer[t]] /\ answer[t] \in SUBSET Tasks
    BY <1>1, <1>6 DEF RunsTyped, RunOver
  <2> QED BY <1>2, <1>6, <2>1, NoRunOK, SameDocuments DEF RunOver, Does
<1>7. CASE Answers(t)
  <2>1. run' = [run EXCEPT ![t] = run[t]] /\ run[t] \in Runs
    BY <1>1, <1>7 DEF RunsTyped, Answers
  <2> QED BY <1>1, <1>2, <1>7, <2>1, AnswerTyped, SameDocuments DEF RunOK, Answers, Does
<1>8. CASE NoRunStep(t)
  <2>1. Grows /\ UNCHANGED <<run, answer>>
    BY <1>8, SameDocuments DEF NoRunStep
  <2>2. \A u \in Threads : doing'[u] = "run" => doing[u] = "run"
    BY <1>1, <1>8 DEF NoRunStep, Does, RunsTyped
  <2>3. doing' \in [Threads -> {"idle", "configure", "run", "query"}]
    BY <1>1, <1>8 DEF NoRunStep, Does, RunsTyped
  <2> QED BY <1>1, <2>1, <2>2, <2>3 DEF RunsTyped, RunOK
<1> QED BY <1>3, <1>4, <1>5, <1>6, <1>7, <1>8 DEF RunMoves

-----------------------------------------------------------------------------
(* The steps of queries.                                                    *)

Queries(docs) ==
  [db : Databases \cup {None}, asks : SUBSET (0..deployments), next : Nat,
   found : SUBSET DOMAIN docs, before : 0..Len(docs)]

\* Document i is what query q of deployment d finds.
Of(docs, i, q, d) ==
  /\ docs[i].db = q.db
  /\ docs[i].collection = ProjectOf[d]
  /\ docs[i].of.flow_id = FlowIdOf[d]

\* The documents found are of deployments that q asks for, and all that there were when q
\* began of the deployments that it has got to.
Covers(docs, found, q, done) ==
  /\ \A i \in found : \E d \in q.asks : Of(docs, i, q, d)
  /\ \A i \in 1..q.before : \A d \in done : Of(docs, i, q, d) => i \in found

\* A query under way asks one deployment after the other, of those there were.
Progress(docs, q) ==
  /\ \E n \in 0..deployments : q.asks = 1..n /\ q.next \in 1..(n + 1)
  /\ Covers(docs, q.found, q, 1..(q.next - 1))

Asking(t) == doing[t] = "query" => Progress(documents, query[t])
Answered(t) ==
  (outcome[t] = "Results" /\ doing[t] # "query") =>
     Covers(documents, objects[t], query[t], query[t].asks)

QueriesTyped ==
  /\ deployments \in 0..MaxDeployments /\ flows \subseteq 1..deployments
  /\ ModelTyped
  /\ dictionary \in [Threads -> FlowIds \cup {None, Emptied}]
  /\ query \in [Threads -> Queries(documents)]
  /\ objects \in [Threads -> SUBSET DOMAIN documents]
  /\ outcome \in [Threads -> Outcomes]

LEMMA BaseQueries ==
  ASSUME Base
  PROVE  QueriesTyped
BY DEF Base, TypeOK, QueriesTyped, ModelTyped, Queries

QueryMoves(t) ==
  /\ doing[t] # "run" /\ calls' \in [Threads -> Nat]
  /\ \E q \in Queries(documents), o \in Outcomes, found \in SUBSET DOMAIN documents,
        x \in FlowIds \cup {None, Emptied}, d \in {"idle", "query"} :
       /\ query' = [query EXCEPT ![t] = q]
       /\ outcome' = [outcome EXCEPT ![t] = o]
       /\ objects' = [objects EXCEPT ![t] = found]
       /\ dictionary' = [dictionary EXCEPT ![t] = x]
       /\ doing' = [doing EXCEPT ![t] = d]
       /\ d = "query" => Progress(documents, q)
       /\ (o = "Results" /\ d # "query") => Covers(documents, found, q, q.asks)
  /\ UNCHANGED <<configVars, documents, run, answer, faults, deployments, flows, model>>

\* Each document that is stored can be made an object.
LEMMA StoredIsObject ==
  ASSUME Base, NEW i \in DOMAIN documents
  PROVE  ~ OfDocumentRaises(documents[i].of)
<1>1. documents[i] \in Documents
  BY BaseTyped
<1>2. PICK r \in Results : documents[i].of = get_db_dict(r)
  BY <1>1 DEF Documents
<1> QED BY <1>2, DocumentIsObject

LEMMA QueriesReturn ==
  ASSUME Base, NEW t \in Threads, NEW found \in SUBSET DOMAIN documents, Returns(t, found)
  PROVE  /\ outcome' = [outcome EXCEPT ![t] = "Results"]
         /\ objects' = [objects EXCEPT ![t] = found]
BY StoredIsObject DEF Returns

LEMMA FindFinds ==
  ASSUME NEW q, NEW d
  PROVE  Find(q.db, ProjectOf[d], FlowIdOf[d]) =
           {i \in DOMAIN documents : Of(documents, i, q, d)}
BY DEF Find, Of

LEMMA NewQueryTyped ==
  ASSUME Base, NEW ds \in SUBSET (0..deployments)
  PROVE  /\ NewQuery(ds) \in Queries(documents)
         /\ NewQuery(ds).asks = ds /\ NewQuery(ds).next = 1 /\ NewQuery(ds).found = {}
         /\ NewQuery(ds).before = Len(documents)
<1>1. (IF context = None THEN None ELSE ResultsOf[context]) \in Databases \cup {None}
  BY ResultsDatabase DEF Base, TypeOK
<1>2. Len(documents) \in Nat
  BY BaseTyped
<1> QED BY <1>1, <1>2 DEF NewQuery, Queries

LEMMA GetResultsMoves ==
  ASSUME Base, NEW t \in Threads, GetResults(t)
  PROVE  QueryMoves(t)
<1> DEFINE d == model[t].deployment
           q == NewQuery({d})
<1>1. d \in 0..deployments /\ deployments \in 0..MaxDeployments
  BY BaseQueries DEF QueriesTyped, ModelTyped
<1>2. /\ calls' \in [Threads -> Nat] /\ doing[t] = "idle"
  BY CallingCounts DEF GetResults, Base
<1>3. q \in Queries(documents) /\ q.asks = {d} /\ q.before = Len(documents)
  BY <1>1, NewQueryTyped
<1>4. /\ query' = [query EXCEPT ![t] = q]
      /\ dictionary' = [dictionary EXCEPT ![t] = IF d = 0 THEN dictionary[t] ELSE FlowIdOf[d]]
      /\ IF d = 0 \/ q.db = None
         THEN Raises(t, "AttributeError")
         ELSE Returns(t, Find(q.db, ProjectOf[d], dictionary'[t]))
      /\ UNCHANGED <<configVars, documents, doing, run, answer, faults, deployments, flows,
                     model>>
  BY DEF GetResults, Ask
<1>5. doing' = [doing EXCEPT ![t] = "idle"]
  BY <1>2, <1>4, BaseTyped DEF RunsTyped
<1> HIDE DEF q
<1>6. CASE d = 0 \/ q.db = None
  <2> DEFINE x == IF d = 0 THEN dictionary[t] ELSE FlowIdOf[d]
  <2>1. x \in FlowIds \cup {None, Emptied}
    BY <1>1, BaseQueries, ModelResultsAssumption DEF QueriesTyped, Deployments
  <2>2. dictionary' = [dictionary EXCEPT ![t] = x]
    BY <1>4
  <2>3. /\ outcome' = [outcome EXCEPT ![t] = "AttributeError"]
        /\ objects' = [objects EXCEPT ![t] = {}]
        /\ "AttributeError" \in Outcomes /\ {} \in SUBSET DOMAIN documents
    BY <1>4, <1>6 DEF Raises, Outcomes
  <2> HIDE DEF x, d
  <2> QED BY <1>2, <1>3, <1>4, <1>5, <2>1, <2>2, <2>3 DEF QueryMoves
<1>7. CASE d # 0 /\ q.db # None
  <2> DEFINE found == {i \in DOMAIN documents : Of(documents, i, q, d)}
  <2>1. d \in Deployments /\ FlowIdOf[d] \in FlowIds
    BY <1>1, <1>7, ModelResultsAssumption DEF Deployments
  <2>2. dictionary' = [dictionary EXCEPT ![t] = FlowIdOf[d]] /\ dictionary'[t] = FlowIdOf[d]
    BY <1>4, <1>7, BaseQueries DEF QueriesTyped
  <2>3. Returns(t, found)
    <3>1. Returns(t, Find(q.db, ProjectOf[d], dictionary'[t]))
      BY <1>4, <1>7
    <3>2. Find(q.db, ProjectOf[d], dictionary'[t]) = found
      BY <2>2, FindFinds
    <3> QED BY <3>1, <3>2
  <2>4. found \in SUBSET DOMAIN documents
    OBVIOUS
  <2>5. Covers(documents, found, q, q.asks)
    <3>1. DOMAIN documents = 1..Len(documents)
      BY BaseTyped
    <3> QED BY <1>3, <3>1 DEF Covers
  <2> HIDE DEF found, d
  <2>6. /\ outcome' = [outcome EXCEPT ![t] = "Results"]
        /\ objects' = [objects EXCEPT ![t] = found]
    BY <2>3, <2>4, QueriesReturn
  <2>7. "Results" \in Outcomes
    BY DEF Outcomes
  <2> QED
    BY <1>2, <1>3, <1>4, <1>5, <2>1, <2>2, <2>4, <2>5, <2>6, <2>7 DEF QueryMoves
<1> QED BY <1>6, <1>7

LEMMA GetAllResultsMoves ==
  ASSUME Base, NEW t \in Threads, GetAllResults(t)
  PROVE  QueryMoves(t)
<1> DEFINE q == NewQuery(1..deployments)
<1>1. calls' \in [Threads -> Nat] /\ doing[t] = "idle"
  BY CallingCounts DEF GetAllResults, Base
<1>2. deployments \in Nat
  BY BaseQueries, ModelResultsAssumption DEF QueriesTyped
<1>3. /\ q \in Queries(documents) /\ q.asks = 1..deployments /\ q.next = 1 /\ q.found = {}
  BY <1>2, NewQueryTyped
<1>4. /\ query' = [query EXCEPT ![t] = q]
      /\ UNCHANGED <<configVars, documents, run, answer, faults, deployments, flows, model,
                     dictionary>>
  BY DEF GetAllResults
<1> HIDE DEF q
<1>5. dictionary' = [dictionary EXCEPT ![t] = dictionary[t]]
      /\ dictionary[t] \in FlowIds \cup {None, Emptied}
  BY <1>4, BaseQueries DEF QueriesTyped
<1>6. CASE context = None \/ deployments = 0
  <2> DEFINE o == IF context = None THEN "AttributeError" ELSE "DeploymentNotFoundError"
  <2>1. Raises(t, o) /\ UNCHANGED doing
    BY <1>6 DEF GetAllResults
  <2>2. o \in Outcomes /\ o # "Results" /\ {} \in SUBSET DOMAIN documents
    BY DEF Outcomes
  <2>3. doing' = [doing EXCEPT ![t] = "idle"]
    BY <1>1, <2>1, BaseTyped DEF RunsTyped
  <2> HIDE DEF o
  <2> QED BY <1>1, <1>3, <1>4, <1>5, <2>1, <2>2, <2>3 DEF QueryMoves, Raises
<1>7. CASE ~ (context = None \/ deployments = 0)
  <2>1. doing' = [doing EXCEPT ![t] = "query"] /\ UNCHANGED <<outcome, objects>>
    BY <1>7 DEF GetAllResults, Does
  <2>2. /\ outcome' = [outcome EXCEPT ![t] = outcome[t]] /\ outcome[t] \in Outcomes
        /\ objects' = [objects EXCEPT ![t] = objects[t]]
        /\ objects[t] \in SUBSET DOMAIN documents
    BY <2>1, BaseQueries DEF QueriesTyped
  <2>3. Progress(documents, q)
    <3>1. deployments \in 0..deployments /\ q.next \in 1..(deployments + 1)
          /\ 1..(q.next - 1) = {}
      BY <1>2, <1>3
    <3>2. Covers(documents, q.found, q, 1..(q.next - 1))
      BY <1>3, <3>1 DEF Covers
    <3> QED BY <1>3, <3>1, <3>2 DEF Progress
  <2> QED BY <1>1, <1>3, <1>4, <1>5, <2>1, <2>2, <2>3 DEF QueryMoves
<1> QED BY <1>6, <1>7

\* Query q, with what it finds of its next deployment.
LEMMA ProgressStep ==
  ASSUME Base, NEW q \in Queries(documents), NEW r \in Queries(documents),
         Progress(documents, q), q.next \in q.asks,
         r.db = q.db, r.asks = q.asks, r.before = q.before, r.next = q.next + 1,
         r.found = q.found \cup {i \in DOMAIN documents : Of(documents, i, q, q.next)}
  PROVE  Progress(documents, r)
<1>1. PICK n \in 0..deployments : q.asks = 1..n /\ q.next \in 1..(n + 1)
  BY DEF Progress
<1>2. n \in Nat
  BY <1>1, BaseQueries, ModelResultsAssumption DEF QueriesTyped
<1>3. r.next \in 1..(n + 1) /\ 1..(r.next - 1) = 1..(q.next - 1) \cup {q.next}
  BY <1>1, <1>2
<1>4. \A i, d : Of(documents, i, r, d) <=> Of(documents, i, q, d)
  BY DEF Of
<1>5. q.before \in 0..Len(documents) /\ DOMAIN documents = 1..Len(documents)
  BY BaseTyped DEF Queries
<1>6. Covers(documents, q.found, q, 1..(q.next - 1))
  BY DEF Progress
<1>7. \A i \in r.found : \E d \in r.asks : Of(documents, i, r, d)
  BY <1>4, <1>6 DEF Covers
<1>8. \A i \in 1..r.before : \A d \in 1..(r.next - 1) :
        Of(documents, i, r, d) => i \in r.found
  <2> SUFFICES ASSUME NEW i \in 1..q.before, NEW d \in 1..(r.next - 1),
                      Of(documents, i, q, d)
               PROVE  i \in r.found
    BY <1>4
  <2>1. i \in DOMAIN documents
    BY <1>5, BaseTyped
  <2>2. CASE d \in 1..(q.next - 1)
    BY <1>6, <2>2 DEF Covers
  <2>3. CASE d = q.next
    BY <2>1, <2>3
  <2> QED BY <1>3, <2>2, <2>3
<1> QED BY <1>1, <1>3, <1>7, <1>8 DEF Progress, Covers

LEMMA FindNextMoves ==
  ASSUME Base, NEW t \in Threads, Asking(t), FindNext(t)
  PROVE  QueryMoves(t)
<1> DEFINE q == query[t]
           d == q.next
           r == [q EXCEPT !.next = d + 1,
                          !.found = q.found \cup {i \in DOMAIN documents : Of(documents, i, q, d)}]
<1>1. /\ doing[t] = "query" /\ q.next \in q.asks /\ Progress(documents, q)
  BY DEF FindNext, Asking
<1>2. QueriesTyped /\ RunsTyped /\ calls \in [Threads -> Nat]
  BY BaseQueries, BaseTyped, BaseCounts
<1>3. q \in Queries(documents)
  BY <1>2 DEF QueriesTyped
<1>4. d \in Deployments /\ d \in Nat
  <2>1. PICK n \in 0..deployments : q.asks = 1..n
    BY <1>1 DEF Progress
  <2> QED BY <1>1, <1>2, <2>1, ModelResultsAssumption DEF QueriesTyped, Deployments
<1>5. UNCHANGED <<configVars, documents, run, answer, calls, faults, deployments, flows, model>>
  BY DEF FindNext
<1>6. ASSUME NEW o \in Outcomes \ {"Results"}, Raises(t, o), Does(t, "idle"), UNCHANGED query,
             NEW x \in FlowIds \cup {None, Emptied},
             dictionary' = [dictionary EXCEPT ![t] = x]
      PROVE  QueryMoves(t)
  <2>1. query' = [query EXCEPT ![t] = q] /\ {} \in SUBSET DOMAIN documents
    BY <1>2, <1>6 DEF QueriesTyped
  <2> HIDE DEF q
  <2> QED BY <1>1, <1>2, <1>3, <1>5, <1>6, <2>1 DEF QueryMoves, Raises, Does
<1>7. CASE d \notin flows
  <2>1. /\ Raises(t, "FlowNotFoundError") /\ Does(t, "idle")
        /\ UNCHANGED <<dictionary, query>>
    BY <1>7 DEF FindNext
  <2>2. /\ dictionary' = [dictionary EXCEPT ![t] = dictionary[t]]
        /\ dictionary[t] \in FlowIds \cup {None, Emptied}
    BY <1>2, <2>1 DEF QueriesTyped
  <2>3. "FlowNotFoundError" \in Outcomes \ {"Results"}
    BY DEF Outcomes
  <2> QED BY <1>6, <2>1, <2>2, <2>3
<1>8. CASE d \in flows
  <2>1. /\ dictionary' = [dictionary EXCEPT ![t] = FlowIdOf[d]]
        /\ FlowIdOf[d] \in FlowIds \cup {None, Emptied}
    BY <1>4, <1>8, ModelResultsAssumption DEF FindNext, Ask
  <2>2. CASE q.db = None
    <3>1. /\ Raises(t, "AttributeError") /\ Does(t, "idle") /\ UNCHANGED query
      BY <1>8, <2>2 DEF FindNext
    <3>2. "AttributeError" \in Outcomes \ {"Results"}
      BY DEF Outcomes
    <3> QED BY <1>6, <2>1, <3>1, <3>2
  <2>3. CASE q.db # None
    <3>1. /\ query' = [query EXCEPT ![t].next = d + 1,
                         ![t].found = @ \cup Find(q.db, ProjectOf[d], dictionary'[t])]
          /\ UNCHANGED <<outcome, objects, doing>>
      BY <1>8, <2>3 DEF FindNext
    <3>2. Find(q.db, ProjectOf[d], dictionary'[t]) =
            {i \in DOMAIN documents : Of(documents, i, q, d)}
      <4>1. dictionary'[t] = FlowIdOf[d]
        BY <1>2, <2>1 DEF QueriesTyped
      <4> QED BY <4>1, FindFinds
    <3>3. query' = [query EXCEPT ![t] = r]
      BY <1>2, <1>3, <3>1, <3>2 DEF QueriesTyped, Queries
    <3>4. /\ r.db = q.db /\ r.asks = q.asks /\ r.before = q.before /\ r.next = q.next + 1
          /\ r.found = q.found \cup {i \in DOMAIN documents : Of(documents, i, q, q.next)}
      BY <1>3 DEF Queries
    <3>5. r \in Queries(documents)
      <4>1. r \in [db : {q.db}, asks : {q.asks}, next : {r.next}, found : {r.found},
                  before : {q.before}]
        BY <1>3 DEF Queries
      <4>2. r.next \in Nat /\ r.found \in SUBSET DOMAIN documents
        BY <1>3, <1>4, <3>4 DEF Queries
      <4> QED BY <1>3, <4>1, <4>2 DEF Queries
    <3> HIDE DEF r
    <3>6. Progress(documents, r)
      BY <1>1, <1>3, <3>4, <3>5, ProgressStep
    <3>7. /\ outcome' = [outcome EXCEPT ![t] = outcome[t]] /\ outcome[t] \in Outcomes
          /\ objects' = [objects EXCEPT ![t] = objects[t]]
          /\ objects[t] \in SUBSET DOMAIN documents
      BY <1>2, <3>1 DEF QueriesTyped
    <3>8. doing' = [doing EXCEPT ![t] = "query"] /\ doing[t] # "run"
      BY <1>1, <1>2, <3>1 DEF RunsTyped
    <3>9. calls' \in [Threads -> Nat]
      BY <1>2, <1>5
    <3> QED BY <1>5, <2>1, <3>3, <3>5, <3>6, <3>7, <3>8, <3>9 DEF QueryMoves
  <2> QED BY <2>2, <2>3
<1> QED BY <1>7, <1>8

LEMMA AllResultsEndMoves ==
  ASSUME Base, NEW t \in Threads, Asking(t), AllResultsEnd(t)
  PROVE  QueryMoves(t)
<1> DEFINE q == query[t]
<1>1. doing[t] = "query" /\ q.next \notin q.asks /\ Progress(documents, q)
  BY DEF AllResultsEnd, Asking
<1>2. QueriesTyped /\ RunsTyped /\ calls \in [Threads -> Nat]
  BY BaseQueries, BaseTyped, BaseCounts
<1>3. q \in Queries(documents) /\ q.found \in SUBSET DOMAIN documents
  BY <1>2 DEF QueriesTyped, Queries
<1>4. /\ dictionary' = [dictionary EXCEPT ![t] = Emptied]
      /\ Returns(t, q.found) /\ Does(t, "idle")
      /\ UNCHANGED <<configVars, documents, run, answer, calls, faults, deployments, flows,
                     model, query>>
  BY DEF AllResultsEnd
<1>5. /\ outcome' = [outcome EXCEPT ![t] = "Results"] /\ "Results" \in Outcomes
      /\ objects' = [objects EXCEPT ![t] = q.found]
  BY <1>3, <1>4, QueriesReturn DEF Outcomes
<1>6. Covers(documents, q.found, q, q.asks)
  <2>1. PICK n \in 0..deployments : q.asks = 1..n /\ q.next \in 1..(n + 1)
    BY <1>1 DEF Progress
  <2>2. n \in Nat
    BY <1>2, <2>1, ModelResultsAssumption DEF QueriesTyped
  <2>3. 1..(q.next - 1) = q.asks
    BY <1>1, <2>1, <2>2
  <2> QED BY <1>1, <2>3 DEF Progress
<1>7. query' = [query EXCEPT ![t] = q]
  BY <1>2, <1>4 DEF QueriesTyped
<1> HIDE DEF q
<1> QED BY <1>1, <1>2, <1>3, <1>4, <1>5, <1>6, <1>7 DEF QueryMoves, Does

-----------------------------------------------------------------------------
(* Every step.                                                              *)

Stores ==
  /\ UNCHANGED <<configVars, runVars, model, dictionary, query, objects>>
  /\ deployments' \in deployments..MaxDeployments /\ flows' \subseteq 1..deployments'

LEMMA StepKinds ==
  ASSUME Base, \A t \in Threads : Asking(t), [Next]_vars
  PROVE  Stores \/ \E t \in Threads : Works(t) \/ QueryMoves(t)
<1>1. ASSUME NEW t \in Threads, Call(t)
      PROVE  Works(t) \/ QueryMoves(t)
  BY <1>1, ConfigureWorks, RegisterWorks, RunModelWorks, LoadWorks, GetResultsMoves,
     GetAllResultsMoves DEF Call
<1>2. ASSUME NEW t \in Threads, Step(t)
      PROVE  Works(t) \/ QueryMoves(t)
  BY <1>2, ConfigureWorks, RunStepWorks, FindNextMoves, AllResultsEndMoves DEF Step
<1>3. /\ deployments \in 0..MaxDeployments /\ flows \subseteq 1..deployments
      /\ MaxDeployments \in Nat
  BY BaseQueries, ModelResultsAssumption DEF QueriesTyped
<1>4. CASE StoreDeployment
  BY <1>3, <1>4 DEF StoreDeployment, Stores
<1>5. CASE StoreFlow
  BY <1>3, <1>5 DEF StoreFlow, Stores
<1>6. CASE UNCHANGED vars
  BY <1>3, <1>6 DEF vars, modelVars, Stores
<1> QED BY <1>1, <1>2, <1>4, <1>5, <1>6 DEF Next

LEMMA QueriesStay ==
  ASSUME Base, Grows, NEW q \in Queries(documents)
  PROVE  /\ q \in [db : Databases \cup {None}, asks : SUBSET (0..deployments), next : Nat,
                   found : SUBSET DOMAIN documents', before : 0..Len(documents')]
         /\ DOMAIN documents \subseteq DOMAIN documents'
<1>1. DOMAIN documents \subseteq DOMAIN documents'
  BY DEF Grows
<1>2. Len(documents) \in Nat /\ Len(documents') \in Nat /\ Len(documents) <= Len(documents')
  BY BaseTyped DEF Grows
<1> QED BY <1>1, <1>2 DEF Queries

LEMMA WorksKeeps ==
  ASSUME Base, NEW t \in Threads, Works(t)
  PROVE  RunsTyped' /\ Grows /\ QueriesTyped' /\ \A u \in Threads : RunOK(u)'
<1>1. RunsTyped' /\ Grows /\ \A u \in Threads : RunOK(u)'
  BY RunMovesKeep DEF Works
<1>2. QueriesTyped
  BY BaseQueries
<1>3. outcome' \in [Threads -> Outcomes]
  BY <1>2 DEF Works, Ends, QueriesTyped
<1>4. /\ query' \in [Threads -> Queries(documents)'] /\ DOMAIN documents \subseteq DOMAIN documents'
  <2>1. \A u \in Threads : query[u] \in Queries(documents)
    BY <1>2 DEF QueriesTyped
  <2>2. \A u \in Threads : query[u] \in Queries(documents)'
    BY <1>1, <2>1, QueriesStay DEF Queries, Works
  <2>3. query' = query /\ query = [u \in Threads |-> query[u]]
    BY <1>2 DEF QueriesTyped, Works
  <2>4. DOMAIN documents \subseteq DOMAIN documents'
    BY <1>1 DEF Grows
  <2> QED BY <2>2, <2>3, <2>4
<1> QED BY <1>1, <1>2, <1>3, <1>4 DEF Works, QueriesTyped

LEMMA QueryKeeps ==
  ASSUME Base, NEW t \in Threads, QueryMoves(t)
  PROVE  /\ RunsTyped' /\ Grows /\ QueriesTyped' /\ \A u \in Threads : RunOK(u)'
         /\ UNCHANGED run
<1>1. /\ RunsTyped /\ QueriesTyped /\ \A u \in Threads : RunOK(u)
  BY BaseTyped, BaseQueries DEF Base
<1>2. UNCHANGED <<documents, run, answer, deployments, flows, model>> /\ doing[t] # "run"
  BY DEF QueryMoves
<1>3. PICK d \in {"idle", "query"} : doing' = [doing EXCEPT ![t] = d]
  BY DEF QueryMoves
<1>4. RunsTyped'
  BY <1>1, <1>2, <1>3 DEF RunsTyped
<1>5. \A u \in Threads : RunOK(u)'
  <2>1. \A u \in Threads : doing'[u] = "run" => doing[u] = "run"
    BY <1>1, <1>3 DEF RunsTyped
  <2> QED BY <1>1, <1>2, <2>1 DEF RunOK
<1>6. QueriesTyped'
  BY <1>1, <1>2 DEF QueriesTyped, QueryMoves, Queries, ModelTyped
<1> QED BY <1>2, <1>4, <1>5, <1>6, SameDocuments

LEMMA StoresKeeps ==
  ASSUME Base, Stores
  PROVE  RunsTyped' /\ Grows /\ QueriesTyped' /\ \A u \in Threads : RunOK(u)'
<1>1. /\ RunsTyped /\ QueriesTyped /\ \A u \in Threads : RunOK(u)
  BY BaseTyped, BaseQueries DEF Base
<1>2. /\ UNCHANGED <<documents, doing, run, answer, outcome, model, dictionary, query, objects>>
      /\ deployments' \in deployments..MaxDeployments /\ flows' \subseteq 1..deployments'
  BY DEF Stores, runVars
<1>3. deployments \in Nat /\ deployments' \in Nat /\ deployments <= deployments'
      /\ deployments' \in 0..MaxDeployments
  BY <1>1, <1>2, ModelResultsAssumption DEF QueriesTyped
<1>4. 0..deployments \subseteq 0..deployments'
  BY <1>3
<1>5. ModelTyped' /\ query' \in [Threads -> Queries(documents)']
  BY <1>1, <1>2, <1>4 DEF QueriesTyped, ModelTyped, Queries
<1>6. QueriesTyped'
  BY <1>1, <1>2, <1>3, <1>5 DEF QueriesTyped
<1>7. RunsTyped' /\ \A u \in Threads : RunOK(u)'
  BY <1>1, <1>2 DEF RunsTyped, RunOK
<1> QED BY <1>2, <1>6, <1>7, SameDocuments

LEMMA NextConfigures ==
  ASSUME [Next]_vars
  PROVE  [ConfigNext]_configVars
<1>1. CASE \E t \in Threads : Call(t) \/ Step(t)
  BY <1>1, CallConfigures, StepConfigures
<1>2. CASE StoreDeployment \/ StoreFlow
  BY <1>2 DEF StoreDeployment, StoreFlow
<1>3. CASE UNCHANGED vars
  BY <1>3 DEF vars
<1> QED BY <1>1, <1>2, <1>3 DEF Next

LEMMA BaseStep ==
  ASSUME Base, \A t \in Threads : Asking(t), [Next]_vars, ConfigTypeOK'
  PROVE  Base'
<1>1. RunsTyped' /\ Grows /\ QueriesTyped' /\ \A u \in Threads : RunOK(u)'
  BY StepKinds, WorksKeeps, QueryKeeps, StoresKeeps
<1>2. CallsChose' /\ (context # None => context' # None)
  BY NextConfigures, ContextStays DEF Base, TypeOK
<1>3. \A u \in Threads : run'[u].next # 0 => context # None
  <2>1. ASSUME NEW t \in Threads, Works(t)
        PROVE  \A u \in Threads : run'[u].next # 0 => context # None
    BY <2>1, RunMovesKeep DEF Works
  <2>2. ASSUME UNCHANGED run
        PROVE  \A u \in Threads : run'[u].next # 0 => context # None
    BY <2>2 DEF Base, Injected
  <2>3. Stores => UNCHANGED run
    BY DEF Stores, runVars
  <2> QED BY <2>1, <2>2, <2>3, StepKinds, QueryKeeps
<1>4. calls' \in [Threads -> Nat] /\ faults' \in 0..MaxFaults
  BY StepKinds, BaseCounts DEF Works, QueryMoves, Stores, runVars
<1>5. TypeOK'
  <2>1. /\ documents' \in Seq(Documents)
        /\ run' \in
             [Threads -> [call : (UNION {Calls[t] : t \in Threads}) \cup {None},
                          next : 0..(Len(FlowTasks) + 1),
                          states : [Tasks -> {"Pending", "Success", "Failed"}],
                          result : Results \cup {None}, savedIn : Databases \cup {None}]]
        /\ \A t \in Threads : /\ run'[t].next # 0 => run'[t].call \in Calls[t]
                              /\ doing'[t] = "run" => run'[t].next # 0
    BY <1>1, Places DEF Grows, RunsTyped, Runs, TaskStates, RunOK
  <2> QED BY <1>1, <1>4, <2>1 DEF TypeOK, RunsTyped, QueriesTyped, ModelTyped, Queries
<1> QED BY <1>1, <1>2, <1>3, <1>5 DEF Base, Injected
-----------------------------------------------------------------------------
(* What queries have found.                                                 *)

\* Documents that are added later take nothing from what a query covers.
LEMMA CoversStay ==
  ASSUME Base, Grows, NEW q \in Queries(documents), NEW found \in SUBSET DOMAIN documents,
         NEW done, Covers(documents, found, q, done)
  PROVE  Covers(documents', found, q, done)
<1>1. DOMAIN documents = 1..Len(documents) /\ q.before \in 0..Len(documents)
  BY BaseTyped DEF Queries
<1>2. \A i \in DOMAIN documents : documents'[i] = documents[i]
  BY DEF Grows
<1>3. \A i \in DOMAIN documents : \A d : Of(documents', i, q, d) <=> Of(documents, i, q, d)
  BY <1>2 DEF Of
<1>4. 1..q.before \subseteq DOMAIN documents
  BY <1>1, BaseTyped
<1> QED BY <1>3, <1>4 DEF Covers

LEMMA AskedStays ==
  ASSUME Base, Grows, NEW u \in Threads, Asking(u), Answered(u),
         doing'[u] = "query" => doing[u] = "query",
         doing'[u] # "query" => doing[u] # "query" \/ outcome'[u] # "Results",
         outcome'[u] = "Results" => outcome[u] = "Results",
         deployments' \in Nat, deployments <= deployments',
         query'[u] = query[u], objects'[u] = objects[u]
  PROVE  Asking(u)' /\ Answered(u)'
<1>1. query[u] \in Queries(documents) /\ objects[u] \in SUBSET DOMAIN documents
  BY BaseQueries DEF QueriesTyped
<1>2. deployments \in Nat
  BY BaseQueries, ModelResultsAssumption DEF QueriesTyped
<1>3. ASSUME Progress(documents, query[u])
      PROVE  Progress(documents, query[u])'
  <2>1. query[u].found \in SUBSET DOMAIN documents
    BY <1>1 DEF Queries
  <2>2. Covers(documents', query[u].found, query[u], 1..(query[u].next - 1))
    BY <1>1, <1>3, <2>1, CoversStay DEF Progress
  <2>3. 0..deployments \subseteq 0..deployments'
    BY <1>2
  <2> QED BY <1>3, <2>2, <2>3 DEF Progress
<1>4. ASSUME Covers(documents, objects[u], query[u], query[u].asks)
      PROVE  Covers(documents, objects[u], query[u], query[u].asks)'
  BY <1>1, <1>4, CoversStay
<1> QED BY <1>3, <1>4 DEF Asking, Answered

LEMMA RunMovesQuery ==
  ASSUME Base, NEW t \in Threads, RunMoves(t)
  PROVE  \A u \in Threads : doing'[u] = "query" <=> doing[u] = "query"
<1>1. doing \in [Threads -> {"idle", "configure", "run", "query"}]
  BY BaseTyped DEF RunsTyped
<1>2. CASE UNCHANGED doing
  BY <1>2
<1>3. ASSUME NEW d \in {"idle", "configure", "run"}, Does(t, d), doing[t] # "query"
      PROVE  \A u \in Threads : doing'[u] = "query" <=> doing[u] = "query"
  BY <1>1, <1>3 DEF Does
<1>4. UNCHANGED doing
      \/ (doing[t] # "query" /\ \E d \in {"idle", "configure", "run"} : Does(t, d))
  BY DEF RunMoves, Starts, Leaves, TaskEnds, RunOver, Answers, NoRunStep, AfterTasks
<1> QED BY <1>2, <1>3, <1>4

LEMMA AnsweredStep ==
  ASSUME Base, \A t \in Threads : Asking(t) /\ Answered(t), [Next]_vars
  PROVE  \A t \in Threads : Asking(t)' /\ Answered(t)'
<1>1. /\ QueriesTyped /\ deployments \in Nat
      /\ doing \in [Threads -> {"idle", "configure", "run", "query"}]
  BY BaseQueries, BaseTyped, ModelResultsAssumption DEF QueriesTyped, RunsTyped
<1>2. ASSUME NEW t \in Threads, Works(t), NEW u \in Threads
      PROVE  Asking(u)' /\ Answered(u)'
  <2>1. Grows /\ (doing'[u] = "query" <=> doing[u] = "query")
    BY <1>2, RunMovesQuery, RunMovesKeep DEF Works
  <2>2. outcome'[u] = "Results" => outcome[u] = "Results"
    BY <1>1, <1>2 DEF Works, Ends, QueriesTyped
  <2>3. query'[u] = query[u] /\ objects'[u] = objects[u] /\ deployments' = deployments
    BY <1>2 DEF Works
  <2> QED BY <1>1, <2>1, <2>2, <2>3, AskedStays
<1>3. ASSUME Stores, NEW u \in Threads
      PROVE  Asking(u)' /\ Answered(u)'
  <2>1. UNCHANGED <<documents, doing, outcome, query, objects>>
    BY <1>3 DEF Stores, runVars
  <2>2. deployments' \in Nat /\ deployments <= deployments'
    BY <1>1, <1>3, ModelResultsAssumption DEF Stores
  <2> QED BY <2>1, <2>2, SameDocuments, AskedStays
<1>4. ASSUME NEW t \in Threads, QueryMoves(t), NEW u \in Threads
      PROVE  Asking(u)' /\ Answered(u)'
  <2>1. PICK q \in Queries(documents), o \in Outcomes, found \in SUBSET DOMAIN documents,
             d \in {"idle", "query"} :
          /\ query' = [query EXCEPT ![t] = q]
          /\ outcome' = [outcome EXCEPT ![t] = o]
          /\ objects' = [objects EXCEPT ![t] = found]
          /\ doing' = [doing EXCEPT ![t] = d]
          /\ d = "query" => Progress(documents, q)
          /\ (o = "Results" /\ d # "query") => Covers(documents, found, q, q.asks)
    BY <1>4 DEF QueryMoves
  <2>2. documents' = documents /\ deployments' = deployments
    BY <1>4 DEF QueryMoves
  <2>3. CASE u = t
    <3>1. /\ query'[u] = q /\ outcome'[u] = o /\ objects'[u] = found /\ doing'[u] = d
      BY <1>1, <2>1, <2>3 DEF QueriesTyped
    <3> QED BY <2>1, <2>2, <3>1 DEF Asking, Answered, Progress
  <2>4. CASE u # t
    <3>1. /\ query'[u] = query[u] /\ outcome'[u] = outcome[u] /\ objects'[u] = objects[u]
          /\ doing'[u] = doing[u]
      BY <1>1, <2>1, <2>4 DEF QueriesTyped
    <3> QED BY <2>2, <3>1 DEF Asking, Answered, Progress
  <2> QED BY <2>3, <2>4
<1> QED BY <1>2, <1>3, <1>4, StepKinds

LEMMA BaseInit ==
  ASSUME Init, ConfigTypeOK
  PROVE  Base /\ \A t \in Threads : Asking(t) /\ Answered(t)
<1>1. /\ documents = <<>> /\ Len(documents) = 0 /\ DOMAIN documents = {}
      /\ documents \in Seq(Documents)
  BY DEF Init, LocalInit
<1>2. /\ doing = [t \in Threads |-> "idle"] /\ run = [t \in Threads |-> NoRun]
      /\ answer = [t \in Threads |-> {}] /\ outcome = [t \in Threads |-> "None"]
      /\ calls = [t \in Threads |-> 0] /\ faults = 0
      /\ deployments = 0 /\ flows = {}
      /\ model = [t \in Threads |-> [deployment |-> 0, artifacts |-> FALSE]]
      /\ dictionary = [t \in Threads |-> None]
      /\ query = [t \in Threads |-> NewQuery({})]
      /\ objects = [t \in Threads |-> {}]
  BY DEF Init, LocalInit
<1>3. "None" \in Outcomes /\ 0 \in 0..MaxFaults /\ 0 \in 0..MaxDeployments
  BY LocalRunAssumption, ModelResultsAssumption DEF Outcomes
<1>4. NewQuery({}) \in Queries(documents)
  <2>1. (IF context = None THEN None ELSE ResultsOf[context]) \in Databases \cup {None}
    BY ResultsDatabase
  <2> QED BY <1>1, <2>1 DEF NewQuery, Queries
<1>5. \A t \in Threads : RunOK(t)
  BY <1>2, NoRunOK DEF RunOK
<1>6. run \in
        [Threads -> [call : (UNION {Calls[t] : t \in Threads}) \cup {None},
                     next : 0..(Len(FlowTasks) + 1),
                     states : [Tasks -> {"Pending", "Success", "Failed"}],
                     result : Results \cup {None}, savedIn : Databases \cup {None}]]
  BY <1>2, NoRunOK, Places DEF Runs, TaskStates
<1>7. \A t \in Threads : /\ run[t].next # 0 => run[t].call \in Calls[t]
                         /\ doing[t] = "run" => run[t].next # 0
  BY <1>5 DEF RunOK
<1>8. model \in [Threads -> [deployment : 0..deployments, artifacts : BOOLEAN]]
  BY <1>2
<1>9. query \in
        [Threads -> [db : Databases \cup {None}, asks : SUBSET (0..deployments),
                     next : Nat, found : SUBSET DOMAIN documents,
                     before : 0..Len(documents)]]
  BY <1>2, <1>4 DEF Queries
<1>10. TypeOK
  BY <1>1, <1>2, <1>3, <1>6, <1>7, <1>8, <1>9 DEF TypeOK
<1>11. CallsChose /\ Injected
  BY <1>2, NoRunOK DEF Init, LocalInit, ConfigInit, NotConfiguring, CallsChose, Configurers, Injected
<1>12. \A t \in Threads : Asking(t) /\ Answered(t)
  BY <1>2 DEF Asking, Answered
<1> QED BY <1>5, <1>10, <1>11, <1>12 DEF Base

LEMMA ConfigTyped == Spec => []ConfigTypeOK
<1>1. ConfigInv => ConfigTypeOK
  BY DEF ConfigInv
<1> QED BY <1>1, RunsConfigure, ConfigInvHolds, PTL

\* The inductive invariant.
Inv == Base /\ \A t \in Threads : Asking(t) /\ Answered(t)

LEMMA Invariant == Spec => []Inv
<1>1. Init /\ ConfigTypeOK => Inv
  BY BaseInit DEF Inv
<1>2. Inv /\ [Next]_vars /\ ConfigTypeOK' => Inv'
  BY BaseStep, AnsweredStep DEF Inv
<1> QED BY <1>1, <1>2, ConfigTyped, PTL DEF Spec

\* The state of runs, models and queries is of its types: what is documented is made of
\* results that runs make, and indices of documents and deployments are of those that are
\* stored.
THEOREM TypeCorrect == Spec => []TypeOK
<1>1. Inv => TypeOK
  BY DEF Inv, Base
<1> QED BY <1>1, Invariant, PTL
-----------------------------------------------------------------------------
(* What get_results returns.                                                *)

\* get_results returns the results of the deployments it was asked for, all that were
\* stored when it was called and no others, whatever other threads configure and store
\* meanwhile; each of them is an object of the class that its document names
\* (model.py:476-508).
THEOREM ResultsCorrect == Spec => []ResultsComplete
<1>1. Inv => ResultsComplete
  <2> SUFFICES ASSUME Inv, NEW t \in Threads
               PROVE  /\ (outcome[t] = "Results" /\ doing[t] # "query") =>
                           LET q == query[t]
                               wanted == {i \in DOMAIN documents : \E d \in q.asks :
                                            Of(documents, i, q, d)}
                           IN /\ objects[t] \subseteq wanted
                              /\ wanted \cap 1..q.before \subseteq objects[t]
                      /\ \A i \in objects[t] : ~ OfDocumentRaises(documents[i].of)
    BY DEF ResultsComplete, Of
  <2>1. Base /\ Answered(t) /\ objects[t] \in SUBSET DOMAIN documents
    BY BaseQueries DEF Inv, QueriesTyped
  <2>2. ASSUME outcome[t] = "Results", doing[t] # "query"
        PROVE  LET q == query[t]
                   wanted == {i \in DOMAIN documents : \E d \in q.asks :
                                Of(documents, i, q, d)}
               IN /\ objects[t] \subseteq wanted
                  /\ wanted \cap 1..q.before \subseteq objects[t]
    BY <2>1, <2>2 DEF Answered, Covers
  <2>3. \A i \in objects[t] : ~ OfDocumentRaises(documents[i].of)
    BY <2>1, StoredIsObject
  <2> QED BY <2>2, <2>3
<1> QED BY <1>1, Invariant, PTL

-----------------------------------------------------------------------------
(* What a representation finds.                                             *)

DocumentOf(r) ==
  [db |-> r.savedIn, collection |-> r.result.project_name, of |-> get_db_dict(r.result)]

\* The Result of run r is stored where the run says, once save has succeeded.
Stored(docs, r) ==
  r.states["save"] = "Success" =>
    /\ r.states["predict"] = "Success"
    /\ \E i \in DOMAIN docs : docs[i] = DocumentOf(r)

AllStored == \A t \in Threads : Stored(documents, run[t])

LEMMA StoredStays ==
  ASSUME Grows, NEW r, Stored(documents, r)
  PROVE  Stored(documents', r)
BY DEF Grows, Stored

LEMMA TaskEndsStored ==
  ASSUME Base, NEW t \in Threads, Stored(documents, run[t]), TaskEnds(t)
  PROVE  Stored(documents', run'[t])
<1>1. PICK task \in Tasks, state \in {"Success", "Failed"}, q \in Runs :
        /\ AtTask(t, task)
        /\ run' = [run EXCEPT ![t] = q]
        /\ Follows(q, run[t], task, state)
        /\ \/ /\ state = "Success" => task \notin {"predict", "save"}
              /\ q.result = run[t].result /\ q.savedIn = run[t].savedIn
              /\ UNCHANGED documents
           \/ /\ task = "predict" /\ state = "Success"
              /\ q.result \in Results /\ q.savedIn = run[t].savedIn
              /\ UNCHANGED documents
           \/ /\ task = "save" /\ run[t].states["predict"] = "Success"
              /\ q.result = run[t].result
              /\ \E db \in Databases : /\ documents' = Inserted(run[t].result, db)
                                       /\ state = "Success" => q.savedIn = db
        /\ UNCHANGED <<doing, answer>>
  BY DEF TaskEnds
<1>2. /\ run[t] \in Runs /\ run[t].states[task] = "Pending" /\ RunOK(t) /\ Grows
      /\ run'[t] = q
  BY <1>1, AtTaskPlace, TaskEndsOK, BaseTyped DEF Base, RunsTyped
<1>3. /\ q.states = [run[t].states EXCEPT ![task] = state]
      /\ run[t].states \in [Tasks -> TaskStates] /\ {"predict", "save"} \subseteq Tasks
  BY <1>1, <1>2, Places DEF Follows, Runs
<1>4. CASE task = "save" /\ state = "Success"
  <2>1. PICK db \in Databases : documents' = Inserted(run[t].result, db) /\ q.savedIn = db
    BY <1>1, <1>4
  <2>2. q.result = run[t].result /\ run[t].states["predict"] = "Success"
    BY <1>1, <1>4
  <2>3. run[t].result \in Results
    BY <1>2, <2>2 DEF RunOK, Predicted
  <2>4. /\ documents'[Len(documents) + 1] =
             [db |-> db, collection |-> run[t].result.project_name,
              of |-> get_db_dict(run[t].result)]
        /\ Len(documents) + 1 \in DOMAIN documents'
    <3>1. /\ Len(documents') = Len(documents) + 1
          /\ documents'[Len(documents) + 1] =
               [db |-> db, collection |-> run[t].result.project_name,
                of |-> get_db_dict(run[t].result)]
      BY <2>1, <2>3, InsertedGrows
    <3>2. DOMAIN documents' = 1..Len(documents') /\ Len(documents) \in Nat
      BY <1>2, BaseTyped DEF Grows
    <3> QED BY <3>1, <3>2
  <2>5. q.states["predict"] = "Success"
    BY <1>3, <1>4, <2>2
  <2> QED BY <1>2, <2>1, <2>2, <2>4, <2>5 DEF Stored, DocumentOf
<1>5. CASE task = "save" /\ state # "Success"
  BY <1>2, <1>3, <1>5 DEF Stored
<1>6. CASE task # "save"
  <2>1. q.states["save"] = run[t].states["save"]
    BY <1>3, <1>6
  <2> SUFFICES ASSUME run[t].states["save"] = "Success"
               PROVE  Stored(documents', q)
    BY <1>2, <2>1 DEF Stored
  <2>2. /\ run[t].states["predict"] = "Success"
        /\ \E i \in DOMAIN documents : documents[i] = DocumentOf(run[t])
    BY DEF Stored
  <2>3. task # "predict" /\ q.states["predict"] = "Success"
    BY <1>2, <1>3, <2>2
  <2>4. q.result = run[t].result /\ q.savedIn = run[t].savedIn
    BY <1>1, <1>6, <2>3
  <2>5. Stored(documents, q)
    BY <2>2, <2>3, <2>4 DEF Stored, DocumentOf
  <2> QED BY <1>2, <2>5, StoredStays
<1> QED BY <1>4, <1>5, <1>6

LEMMA WorksStored ==
  ASSUME Base, AllStored, NEW t \in Threads, Works(t)
  PROVE  AllStored'
<1>1. Grows /\ RunMoves(t) /\ run \in [Threads -> Runs]
  BY RunMovesKeep, BaseTyped DEF Works, RunsTyped
<1>2. ASSUME NEW r, run' = [run EXCEPT ![t] = r], Stored(documents', r)
      PROVE  AllStored'
  <2>1. \A u \in Threads : run'[u] = IF u = t THEN r ELSE run[u]
    BY <1>1, <1>2
  <2> QED BY <1>1, <1>2, <2>1, StoredStays DEF AllStored
<1>3. CASE Starts(t)
  <2>1. PICK k \in Calls[t] : run' = [run EXCEPT ![t] = NewRun(k)]
    BY <1>3 DEF Starts
  <2>2. Stored(documents', NewRun(k))
    BY NewRunOK, Places DEF Stored
  <2> QED BY <1>2, <2>1, <2>2
<1>4. CASE Leaves(t) \/ RunOver(t)
  <2>1. Stored(documents', NoRun)
    BY NoRunOK, Places DEF Stored
  <2> QED BY <1>2, <1>4, <2>1 DEF Leaves, RunOver
<1>5. CASE TaskEnds(t)
  <2>1. Stored(documents', run'[t])
    BY <1>5, TaskEndsStored DEF AllStored
  <2>2. run' = [run EXCEPT ![t] = run'[t]]
    BY <1>1, <1>5 DEF TaskEnds
  <2> QED BY <1>2, <2>1, <2>2
<1>6. CASE Answers(t) \/ NoRunStep(t)
  <2>1. run' = run
    BY <1>6 DEF Answers, NoRunStep
  <2> QED BY <1>1, <2>1, StoredStays DEF AllStored
<1> QED BY <1>1, <1>3, <1>4, <1>5, <1>6 DEF RunMoves

LEMMA AllStoredInvariant == Spec => []AllStored
<1>1. Init => AllStored
  <2> SUFFICES ASSUME Init PROVE AllStored
    OBVIOUS
  <2>1. run = [t \in Threads |-> NoRun]
    BY DEF Init, LocalInit
  <2> QED BY <2>1, NoRunOK, Places DEF AllStored, Stored
<1>2. Inv /\ AllStored /\ [Next]_vars => AllStored'
  <2> SUFFICES ASSUME Inv, AllStored, [Next]_vars PROVE AllStored'
    OBVIOUS
  <2>1. Base /\ \A t \in Threads : Asking(t)
    BY DEF Inv
  <2>2. ASSUME UNCHANGED <<run, documents>>
        PROVE  AllStored'
    BY <2>2 DEF AllStored
  <2> QED
    BY <2>1, <2>2, StepKinds, WorksStored DEF QueryMoves, Stores, runVars
<1> QED BY <1>1, <1>2, Invariant, PTL DEF Spec

\* The document is that of result r, by get_results and by LoadDBResult.
LoadsAs(document, r) ==
  LET rep == unique_rep(r)
  IN /\ ~ OfDocumentRaises(document) /\ SameJson(OfDocument(document), r)
     /\ (r.flow_id \notin NumericIds /\ ~ LoadRaises(r.config)) =>
          /\ ~ LoadDocumentRaises(rep.result_type_string, rep.project_name, document)
          /\ SameJson(LoadDocument(rep.result_type_string, rep.project_name, document), r)

\* A representation that a caller has been given names a document: it is in the database
\* that was injected when SaveDBResult ran, and each document that the representation finds
\* there is a result with the values that were saved, by get_results, and by LoadDBResult
\* unless the flow id is of digits or config has a JSON scalar (tasks/db.py:210-211,
\* results/generic.py:131-205), where no two runs differ only in what the hash of a Result
\* does not tell.
THEOREM SavedCorrect ==
  ASSUME HashesTellApart
  PROVE  Spec => []SavedLoads
<1>1. Inv /\ AllStored => SavedLoads
  <2> SUFFICES ASSUME Inv, AllStored, NEW t \in Threads,
                      run[t].states["save"] = "Success"
               PROVE  LET r == run[t].result
                          rep == unique_rep(r)
                          found == Matching(run[t].savedIn, rep.project_name, rep.unique_hash)
                      IN /\ found # {}
                         /\ \A i \in found : LoadsAs(documents[i].of, r)
    BY DEF SavedLoads, LoadsAs
  <2> DEFINE r == run[t].result
             rep == unique_rep(r)
             found == Matching(run[t].savedIn, rep.project_name, rep.unique_hash)
  <2>1. Base /\ RunOK(t) /\ Stored(documents, run[t])
    BY DEF Inv, Base, AllStored
  <2>2. r \in Results
    BY <2>1 DEF RunOK, Predicted, Stored
  <2>3. found # {}
    <3>1. PICK i \in DOMAIN documents : documents[i] = DocumentOf(run[t])
      BY <2>1 DEF Stored
    <3>2. /\ documents[i].db = run[t].savedIn /\ documents[i].collection = r.project_name
          /\ documents[i].of.unique_hash = r.unique_hash
      BY <3>1 DEF DocumentOf, get_db_dict
    <3>3. i \in found
      BY <3>2 DEF Matching, unique_rep
    <3> QED BY <3>3
  <2>4. ASSUME NEW i \in found
        PROVE  LoadsAs(documents[i].of, r)
    <3>1. i \in DOMAIN documents /\ documents[i].of.unique_hash = r.unique_hash
      BY DEF Matching, unique_rep
    <3>2. documents[i] \in Documents
      BY <2>1, <3>1, BaseTyped
    <3>3. PICK s \in Results : documents[i].of = get_db_dict(s)
      BY <3>2 DEF Documents
    <3>4. s.unique_hash = r.unique_hash
      BY <3>1, <3>3 DEF get_db_dict
    <3> HIDE DEF r
    <3> QED BY <2>2, <3>3, <3>4, FoundLoads DEF LoadsAs
  <2> QED BY <2>3, <2>4
<1> QED BY <1>1, Invariant, AllStoredInvariant, PTL
-----------------------------------------------------------------------------
(* run_and_return does what Backend promises.                               *)

StateOf(t) ==
  IF ~ Promised(t) THEN "idle" ELSE IF doing[t] = "run" THEN "running" ELSE "returned"
NamedOf(t) == IF ~ Promised(t) \/ run[t].call.task_name = None THEN {} ELSE Answer(t)
SucceededOf(t) == IF Promised(t) THEN Succeeded(t) ELSE {}

stateBar == [t \in Threads |-> StateOf(t)]
namedBar == [t \in Threads |-> NamedOf(t)]
succeededBar == [t \in Threads |-> SucceededOf(t)]

\* What Backend sees of the other threads stays.
LEMMA OthersStay ==
  ASSUME NEW u \in Threads, run'[u] = run[u],
         doing'[u] = "run" <=> doing[u] = "run"
  PROVE  /\ StateOf(u)' = StateOf(u) /\ NamedOf(u)' = NamedOf(u)
         /\ SucceededOf(u)' = SucceededOf(u)
BY DEF StateOf, NamedOf, SucceededOf, Promised, Succeeded, Answer

LEMMA OfOne ==
  ASSUME NEW t \in Threads, NEW r, run' = [run EXCEPT ![t] = r],
         run \in [Threads -> Runs],
         \A u \in Threads \ {t} : doing'[u] = doing[u]
  PROVE  /\ run'[t] = r
         /\ stateBar' = [stateBar EXCEPT ![t] = StateOf(t)']
         /\ namedBar' = [namedBar EXCEPT ![t] = NamedOf(t)']
         /\ succeededBar' = [succeededBar EXCEPT ![t] = SucceededOf(t)']
<1>1. \A u \in Threads : run'[u] = IF u = t THEN r ELSE run[u]
  OBVIOUS
<1>2. \A u \in Threads \ {t} :
        /\ StateOf(u)' = StateOf(u) /\ NamedOf(u)' = NamedOf(u)
        /\ SucceededOf(u)' = SucceededOf(u)
  BY <1>1, OthersStay
<1> QED BY <1>1, <1>2 DEF stateBar, namedBar, succeededBar

LEMMA Stutters ==
  ASSUME UNCHANGED <<run, answer>>,
         \A u \in Threads : doing'[u] = "run" <=> doing[u] = "run"
  PROVE  UNCHANGED <<stateBar, namedBar, succeededBar, answer>>
BY OthersStay DEF stateBar, namedBar, succeededBar

\* The steps of Backend, of the state that it sees.
BackendCalls(t, tasks) ==
  /\ stateBar[t] # "running"
  /\ stateBar' = [stateBar EXCEPT ![t] = "running"]
  /\ namedBar' = [namedBar EXCEPT ![t] = tasks]
  /\ succeededBar' = [succeededBar EXCEPT ![t] = {}]
  /\ answer' = [answer EXCEPT ![t] = {}]

BackendLeaves(t) ==
  /\ stateBar' = [stateBar EXCEPT ![t] = "idle"]
  /\ namedBar' = [namedBar EXCEPT ![t] = {}]
  /\ succeededBar' = [succeededBar EXCEPT ![t] = {}]
  /\ answer' = [answer EXCEPT ![t] = {}]

BackendSucceeds(t, task) ==
  /\ stateBar[t] = "running"
  /\ succeededBar' = [succeededBar EXCEPT ![t] = succeededBar[t] \cup {task}]
  /\ UNCHANGED <<stateBar, namedBar, answer>>

BackendReturns(t) ==
  /\ stateBar[t] = "running"
  /\ Reference \subseteq succeededBar[t]
  /\ namedBar[t] \subseteq succeededBar[t]
  /\ answer' = [answer EXCEPT ![t] = IF namedBar[t] = {} THEN Tasks ELSE namedBar[t]]
  /\ stateBar' = [stateBar EXCEPT ![t] = "returned"]
  /\ UNCHANGED <<namedBar, succeededBar>>

BackendStep ==
  \/ \E t \in Threads :
       \/ \E tasks \in SUBSET Tasks : BackendCalls(t, tasks)
       \/ \E task \in Tasks : BackendSucceeds(t, task)
       \/ BackendReturns(t)
       \/ BackendLeaves(t)
  \/ UNCHANGED <<stateBar, namedBar, succeededBar, answer>>

LEMMA StartsCalls ==
  ASSUME Base, NEW t \in Threads, Starts(t)
  PROVE  BackendStep
<1>1. PICK k \in Calls[t] :
        /\ doing[t] = "idle" /\ run' = [run EXCEPT ![t] = NewRun(k)] /\ Does(t, "run")
        /\ answer' = [answer EXCEPT ![t] = {}]
  BY DEF Starts
<1>2. RunsTyped
  BY BaseTyped
<1> DEFINE r == NewRun(k)
<1>3. /\ r.next = 1 /\ r.call = k /\ \A task \in Tasks : r.states[task] = "Pending"
  BY NewRunOK
<1>4. doing'[t] = "run" /\ \A u \in Threads \ {t} : doing'[u] = doing[u]
  BY <1>1, <1>2 DEF RunsTyped, Does
<1>5. run' = [run EXCEPT ![t] = r]
  BY <1>1
<1> HIDE DEF r
<1>6. /\ run'[t] = r
      /\ stateBar' = [stateBar EXCEPT ![t] = StateOf(t)']
      /\ namedBar' = [namedBar EXCEPT ![t] = NamedOf(t)']
      /\ succeededBar' = [succeededBar EXCEPT ![t] = SucceededOf(t)']
  BY <1>2, <1>4, <1>5, OfOne DEF RunsTyped
<1>7. SucceededOf(t)' = {}
  BY <1>3, <1>6 DEF SucceededOf, Succeeded
<1>8. CASE k.through = "run_and_return"
  <2>1. StateOf(t)' = "running"
    BY <1>3, <1>4, <1>6, <1>8 DEF StateOf, Promised
  <2>2. NamedOf(t)' \in SUBSET Tasks
    BY DEF NamedOf, Answer, get_tasks
  <2>3. stateBar[t] # "running"
    BY <1>1 DEF stateBar, StateOf
  <2>4. BackendCalls(t, NamedOf(t)')
    BY <1>1, <1>6, <1>7, <2>1, <2>3 DEF BackendCalls
  <2> QED BY <2>2, <2>4 DEF BackendStep
<1>9. CASE k.through # "run_and_return"
  <2>1. StateOf(t)' = "idle" /\ NamedOf(t)' = {}
    BY <1>3, <1>6, <1>9 DEF StateOf, NamedOf, Promised
  <2>2. BackendLeaves(t)
    BY <1>1, <1>6, <1>7, <2>1 DEF BackendLeaves
  <2> QED BY <2>2 DEF BackendStep
<1> QED BY <1>8, <1>9

LEMMA NoRunLeaves ==
  ASSUME Base, NEW t \in Threads, run' = [run EXCEPT ![t] = NoRun],
         \A u \in Threads \ {t} : doing'[u] = doing[u]
  PROVE  /\ stateBar' = [stateBar EXCEPT ![t] = "idle"]
         /\ namedBar' = [namedBar EXCEPT ![t] = {}]
         /\ succeededBar' = [succeededBar EXCEPT ![t] = {}]
<1>1. run'[t] = NoRun /\ run \in [Threads -> Runs]
  BY BaseTyped DEF RunsTyped
<1>2. StateOf(t)' = "idle" /\ NamedOf(t)' = {} /\ SucceededOf(t)' = {}
  BY <1>1, NoRunOK DEF StateOf, NamedOf, SucceededOf, Promised
<1> QED BY <1>1, <1>2, OfOne

LEMMA LeavesLeaves ==
  ASSUME Base, NEW t \in Threads, Leaves(t) \/ RunOver(t)
  PROVE  BackendStep
<1>1. run' = [run EXCEPT ![t] = NoRun] /\ Does(t, "idle")
  BY DEF Leaves, RunOver
<1>2. /\ stateBar' = [stateBar EXCEPT ![t] = "idle"]
      /\ namedBar' = [namedBar EXCEPT ![t] = {}]
      /\ succeededBar' = [succeededBar EXCEPT ![t] = {}]
  BY <1>1, NoRunLeaves, BaseTyped DEF RunsTyped, Does
<1>3. CASE Leaves(t)
  BY <1>2, <1>3 DEF Leaves, BackendStep, BackendLeaves
<1>4. CASE RunOver(t)
  <2>1. stateBar[t] = "idle" /\ namedBar[t] = {} /\ succeededBar[t] = {}
    BY <1>4 DEF RunOver, stateBar, namedBar, succeededBar, StateOf, NamedOf, SucceededOf,
                Promised
  <2>2. UNCHANGED <<stateBar, namedBar, succeededBar>>
    BY <1>2, <2>1 DEF stateBar, namedBar, succeededBar
  <2> QED BY <1>4, <2>2 DEF RunOver, BackendStep
<1> QED BY <1>3, <1>4

LEMMA TaskSucceeds ==
  ASSUME Base, NEW t \in Threads, TaskEnds(t)
  PROVE  BackendStep
<1>1. PICK task \in Tasks, state \in {"Success", "Failed"}, q \in Runs :
        /\ AtTask(t, task)
        /\ run' = [run EXCEPT ![t] = q]
        /\ Follows(q, run[t], task, state)
        /\ UNCHANGED <<doing, answer>>
  BY DEF TaskEnds
<1>2. /\ run[t] \in Runs /\ run[t].next \in 1..6 /\ run[t].states[task] = "Pending"
      /\ doing[t] = "run"
  BY <1>1, AtTaskPlace DEF Base
<1>3. /\ run'[t] = q
      /\ stateBar' = [stateBar EXCEPT ![t] = StateOf(t)']
      /\ namedBar' = [namedBar EXCEPT ![t] = NamedOf(t)']
      /\ succeededBar' = [succeededBar EXCEPT ![t] = SucceededOf(t)']
  BY <1>1, BaseTyped, OfOne DEF RunsTyped
<1>4. /\ q.call = run[t].call /\ q.next # 0 /\ run[t].next # 0
      /\ q.states = [run[t].states EXCEPT ![task] = state]
      /\ run[t].states \in [Tasks -> TaskStates]
  BY <1>1, <1>2 DEF Follows, Runs
<1>5. StateOf(t)' = StateOf(t) /\ NamedOf(t)' = NamedOf(t)
  BY <1>1, <1>3, <1>4 DEF StateOf, NamedOf, Promised, Answer
<1>6. stateBar' = stateBar /\ namedBar' = namedBar
  BY <1>3, <1>5 DEF stateBar, namedBar
<1>7. CASE state = "Success" /\ Promised(t)
  <2>1. SucceededOf(t)' = SucceededOf(t) \cup {task}
    BY <1>3, <1>4, <1>7 DEF SucceededOf, Promised, Succeeded
  <2>2. BackendSucceeds(t, task)
    BY <1>1, <1>2, <1>3, <1>6, <1>7, <2>1
       DEF BackendSucceeds, succeededBar, stateBar, StateOf
  <2> QED BY <2>2 DEF BackendStep
<1>8. CASE ~ (state = "Success" /\ Promised(t))
  <2>1. SucceededOf(t)' = SucceededOf(t)
    BY <1>2, <1>3, <1>4, <1>8 DEF SucceededOf, Promised, Succeeded
  <2>2. succeededBar' = succeededBar
    BY <1>3, <2>1 DEF succeededBar
  <2> QED BY <1>1, <1>6, <2>2 DEF BackendStep
<1> QED BY <1>7, <1>8

\* The results that run_and_return gives are of tasks that have succeeded.
LEMMA AnswersReturns ==
  ASSUME Base, NEW t \in Threads, Answers(t)
  PROVE  BackendStep
<1>1. /\ doing[t] = "run" /\ run[t].next = 7 /\ run[t].call.through = "run_and_return"
      /\ Outcome(t, "Returned") /\ Does(t, "idle")
      /\ answer' = [answer EXCEPT ![t] = Answer(t)] /\ UNCHANGED run
  BY Places DEF Answers, AfterTasks
<1>2. /\ Reference \subseteq Succeeded(t)
      /\ run[t].call.task_name # None =>
           Answer(t) # {} /\ Answer(t) \subseteq Succeeded(t)
  BY <1>1 DEF Outcome, Answer
<1>3. Promised(t) /\ Promised(t)'
  BY <1>1 DEF Promised
<1>4. /\ doing'[t] = "idle" /\ \A u \in Threads \ {t} : doing'[u] = doing[u]
      /\ run \in [Threads -> Runs]
  BY <1>1, BaseTyped DEF RunsTyped, Does
<1>5. run' = [run EXCEPT ![t] = run[t]]
  BY <1>1, <1>4
<1>6. /\ StateOf(t)' = "returned" /\ NamedOf(t)' = NamedOf(t)
      /\ SucceededOf(t)' = SucceededOf(t)
  BY <1>1, <1>3, <1>4
     DEF StateOf, NamedOf, SucceededOf, Promised, Succeeded, Answer
<1>7. /\ stateBar' = [stateBar EXCEPT ![t] = "returned"]
      /\ UNCHANGED <<namedBar, succeededBar>>
  <2>1. /\ stateBar' = [stateBar EXCEPT ![t] = StateOf(t)']
        /\ namedBar' = [namedBar EXCEPT ![t] = NamedOf(t)']
        /\ succeededBar' = [succeededBar EXCEPT ![t] = SucceededOf(t)']
    BY <1>4, <1>5, OfOne
  <2> QED BY <1>6, <2>1 DEF namedBar, succeededBar
<1>8. /\ stateBar[t] = "running" /\ succeededBar[t] = Succeeded(t)
      /\ namedBar[t] = IF run[t].call.task_name = None THEN {} ELSE Answer(t)
  BY <1>1, <1>3 DEF stateBar, succeededBar, namedBar, StateOf, SucceededOf, NamedOf
<1>9. Answer(t) = IF namedBar[t] = {} THEN Tasks ELSE namedBar[t]
  BY <1>2, <1>8 DEF Answer
<1> QED BY <1>1, <1>2, <1>7, <1>8, <1>9 DEF BackendStep, BackendReturns

LEMMA StepOfBackend ==
  ASSUME Inv, [Next]_vars
  PROVE  BackendStep
<1>1. Base /\ (\A t \in Threads : Asking(t)) /\ RunsTyped
  BY BaseTyped DEF Inv
<1>2. ASSUME NEW t \in Threads, NoRunStep(t)
      PROVE  BackendStep
  <2>1. \A u \in Threads : doing'[u] = "run" <=> doing[u] = "run"
    BY <1>1, <1>2 DEF NoRunStep, Does, RunsTyped
  <2> QED BY <1>2, <2>1, Stutters DEF NoRunStep, BackendStep
<1>3. ASSUME NEW t \in Threads, Works(t)
      PROVE  BackendStep
  BY <1>1, <1>2, <1>3, StartsCalls, LeavesLeaves, TaskSucceeds, AnswersReturns
     DEF Works, RunMoves
<1>4. ASSUME NEW t \in Threads, QueryMoves(t)
      PROVE  BackendStep
  <2>1. PICK d \in {"idle", "query"} : doing' = [doing EXCEPT ![t] = d]
    BY <1>4 DEF QueryMoves
  <2>2. \A u \in Threads : doing'[u] = "run" <=> doing[u] = "run"
    BY <1>1, <1>4, <2>1 DEF QueryMoves, RunsTyped
  <2> QED BY <1>4, <2>2, Stutters DEF QueryMoves, BackendStep
<1>5. ASSUME Stores
      PROVE  BackendStep
  BY <1>5, Stutters DEF Stores, runVars, BackendStep
<1> QED BY <1>1, <1>3, <1>4, <1>5, StepKinds

\* run_and_return, of a flow and of a model, keeps the promise of the abstract backend
\* (backends/backend.py:116-145, backends/local.py:106-206): results are only returned of a
\* run whose reference tasks succeeded, and of a task that was named only if it did,
\* whatever other threads and the tasks of the flow configure meanwhile.
THEOREM LocalImplementsBackend == Spec => ImplementsBackend
<1>1. Init => Abstract!Init
  <2> SUFFICES ASSUME Init PROVE Abstract!Init
    OBVIOUS
  <2>1. run = [t \in Threads |-> NoRun] /\ answer = [t \in Threads |-> {}]
    BY DEF Init, LocalInit
  <2>2. \A t \in Threads : ~ Promised(t)
    BY <2>1, NoRunOK DEF Promised
  <2> QED BY <2>1, <2>2 DEF Abstract!Init
<1>2. Inv /\ [Next]_vars => [Abstract!Next]_(Abstract!vars)
  <2>1. BackendStep => [Abstract!Next]_(Abstract!vars)
    BY DEF BackendStep, BackendCalls, BackendLeaves, BackendSucceeds, BackendReturns,
           stateBar, namedBar, succeededBar, StateOf, NamedOf, SucceededOf,
           Abstract!Next, Abstract!vars, Abstract!Call, Abstract!TaskSucceeds,
           Abstract!Return, Abstract!Leave
  <2> QED BY <2>1, StepOfBackend
<1> QED BY <1>1, <1>2, Invariant, PTL DEF Spec, ImplementsBackend, Abstract!Spec
=============================================================================
