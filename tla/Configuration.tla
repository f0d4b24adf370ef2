---------------------------- MODULE Configuration ----------------------------
(***************************************************************************)
(* The globals of a process that lume_services.config.configure replaces:  *)
(* the Prefect configuration, the container of the services (context) and  *)
(* the settings.  Any thread may configure, and the task                   *)
(* configure_lume_services does so inside of a flow that runs in the       *)
(* process of its caller.                                                  *)
(***************************************************************************)
EXTENDS Integers, FiniteSets

CONSTANTS
  Threads,
  Settings,      \* settings that somebody configures with
  EnvSettings,   \* those that the environment variables give, or None
  BackendOf,     \* the backend of each settings
  ResultsOf,     \* their results database, or None
  Databases,
  None

Backends == {"local", "docker", "kubernetes"}

ASSUME ConfigurationAssumption ==
  /\ Threads # {}
  /\ None \notin Settings \cup Databases
  /\ EnvSettings \in Settings \cup {None}
  /\ BackendOf \in [Settings -> Backends \cup {"unsupported"}]
  /\ ResultsOf \in [Settings -> Databases \cup {None}]

VARIABLES
  prefect,       \* the settings whose Prefect configuration is applied
  context,       \* the settings whose services are injected
  settings,      \* _settings
  configuring,   \* per thread: its call of configure, and whether that call
                 \* has had the globals to itself so far
  overlapped,    \* the last call that assigned has not had them to itself
  failed         \* the last call has raised after it applied its settings

globals == <<prefect, context, settings>>
configVars == <<prefect, context, settings, configuring, overlapped, failed>>

NotConfiguring == [step |-> "none", of |-> None, alone |-> TRUE]

ConfigTypeOK ==
  /\ prefect \in Settings \cup {None}
  /\ context \in Settings \cup {None}
  /\ settings \in Settings \cup {None}
  /\ configuring \in
       [Threads -> [step : {"none", "context", "settings", "done", "raised"},
                    of : Settings \cup {None}, alone : BOOLEAN]]
  /\ overlapped \in BOOLEAN
  /\ failed \in BOOLEAN

Supported(s) == BackendOf[s] \in Backends

\* The process has not been configured, or has been before.
ConfigInit ==
  /\ context \in {None} \cup {s \in Settings : Supported(s)}
  /\ prefect = context /\ settings = context
  /\ configuring = [t \in Threads |-> NotConfiguring]
  /\ overlapped = FALSE /\ failed = FALSE

Configurers == {t \in Threads : configuring[t].step \in {"context", "settings"}}

Goes(t, step) == configuring' = [configuring EXCEPT ![t].step = step]

\* A call begins, or raises at once: those under way are not alone any more.
Enters(t, step, s) ==
  configuring' =
    [u \in Threads |->
       IF u = t
       THEN [step |-> step, of |-> s, alone |-> Configurers = {}]
       ELSE [configuring[u] EXCEPT !.alone = @ /\ u \notin Configurers]]

Chosen(given) == IF given = None THEN EnvSettings ELSE given

-----------------------------------------------------------------------------
\* A bug that the property is to notice: _settings is assigned on the way in,
\* before the backend is known to exist.
ConfigureAssignsFirst(t, given) ==
  LET s == Chosen(given) IN
  /\ s # None
  /\ configuring[t].step = "none"
  /\ prefect' = s /\ settings' = s
  /\ Enters(t, IF Supported(s) THEN "context" ELSE "raised", s)
  /\ failed' = ~ Supported(s)
  /\ UNCHANGED <<context, overlapped>>

-----------------------------------------------------------------------------
\* configure(settings) without settings, in an environment that does not give
\* them: EnvironmentNotConfiguredError.
NotConfigured(t, given) ==
  /\ configuring[t].step = "none"
  /\ Chosen(given) = None
  /\ Goes(t, "raised")
  /\ UNCHANGED <<globals, overlapped, failed>>

\* configure(settings) up to the new container.  The Prefect configuration is
\* applied before the backend is chosen: settings with an unsupported backend
\* raise ValueError after it.  Making the databases and the backend touches
\* nothing that is shared.
Configure(t, given) ==
  LET s == Chosen(given) IN
  /\ s # None
  /\ configuring[t].step = "none"
  /\ prefect' = s
  /\ Enters(t, IF Supported(s) THEN "context" ELSE "raised", s)
  /\ failed' = ~ Supported(s)
  /\ UNCHANGED <<context, settings, overlapped>>

\* context = Context(...): the container is made, wired into the packages, and
\* assigned; what is injected from here on is its services.
SetContext(t) ==
  /\ configuring[t].step = "context"
  /\ context' = configuring[t].of
  /\ Goes(t, "settings")
  /\ UNCHANGED <<prefect, settings, overlapped, failed>>

\* _settings = settings, and configure returns.
SetSettings(t) ==
  /\ configuring[t].step = "settings"
  /\ settings' = configuring[t].of
  /\ Goes(t, "done")
  /\ overlapped' = ~ configuring[t].alone
  /\ failed' = FALSE
  /\ UNCHANGED <<prefect, context>>

\* The caller of configure goes on.
ConfigureReturned(t) ==
  /\ configuring[t].step \in {"done", "raised"}
  /\ configuring' = [configuring EXCEPT ![t] = NotConfiguring]
  /\ UNCHANGED <<globals, overlapped, failed>>

\* What threads do to the globals, for as many calls as they make.
ConfigNext ==
  \E t \in Threads :
     \/ \E given \in Settings \cup {None} : NotConfigured(t, given) \/ Configure(t, given)
     \/ SetContext(t) \/ SetSettings(t) \/ ConfigureReturned(t)

ConfigSpec == ConfigInit /\ [][ConfigNext]_configVars

-----------------------------------------------------------------------------
\* Once no call of configure is under way, the services that are injected and the
\* settings that tasks read (check_local_execution) are of one configuration, also
\* after calls that raised; and so is the Prefect configuration, unless the last
\* call raised after it had applied its own.  Calls that overlapped are excepted:
\* configure has no lock, and the globals may come from different ones until a
\* call that has the process to itself (config.py:129-157).
SettledConfiguration ==
  (Configurers = {} /\ ~ overlapped) =>
     /\ context = settings
     /\ ~ failed => prefect = context
=============================================================================
