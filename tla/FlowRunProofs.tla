----------------------------- MODULE FlowRunProofs -----------------------------
(***************************************************************************)
(* Theorems about FlowRun, for any number of callers, tasks, inputs, runs,  *)
(* retries and faults.                                                      *)
(***************************************************************************)
EXTENDS FlowRun, FiniteSetTheorems, TLAPS

\* A caller that is in a call, or whose call returned, has a run of that call.
Watching(c) == pc[c] # "idle" \/ outcome[c] = "Returned"

RunHeld(c) ==
  Watching(c) =>
    /\ call[c] \in Calls
    /\ run[c] \in DOMAIN runs
    /\ runs[run[c]].input = call[c].input
    /\ runs[run[c]].stoppable = call[c].cancel_on_timeout

\* The results that were read are final: those of a finished run whose tasks have all
\* succeeded.
FinishedSeen(c) ==
  pc[c] \in {"view", "collect", "parse", "load"} \/ outcome[c] = "Returned"
    => State(run[c]) \in Finished

ResultsRead(c) ==
  pc[c] \in {"parse", "load"} \/ outcome[c] = "Returned" =>
    /\ Unsuccessful(run[c]) = {}
    /\ DOMAIN results[c] = Selected(c)
    /\ \A t \in DOMAIN results[c] : results[c][t] = ValueOf(run[c], t)

CallerHolds(c) == RunHeld(c) /\ FinishedSeen(c) /\ ResultsRead(c)

\* A save task that has come past its insert has stored its value.
Saved ==
  \A r \in DOMAIN runs : \A t \in SavingTasks :
    runs[r].tasks[t] \in {"Inserted", "Success"} => documents[ValueOf(r, t)] > 0

Inv == TypeOK /\ (\A c \in Callers : CallerHolds(c)) /\ Saved

\* A run that goes on.
Live == {"Scheduled", "Running"}

\* What no step undoes: runs are only appended, a finished one stays as it is, one
\* that is being cancelled does not go on, and documents are never deleted.
Grows ==
  /\ DOMAIN runs \subseteq DOMAIN runs'
  /\ \A r \in DOMAIN runs :
       /\ runs'[r].input = runs[r].input
       /\ runs'[r].stoppable = runs[r].stoppable
       /\ runs[r].state \in Finished => runs'[r] = runs[r]
       /\ runs'[r].state \in Live => runs[r].state \in Live
  /\ \A v \in Values : documents'[v] >= documents[v]

\* The caller c alone has moved.
Alone(c) ==
  \A d \in Callers \ {c} :
    /\ call'[d] = call[d] /\ run'[d] = run[d] /\ pc'[d] = pc[d]
    /\ outcome'[d] = outcome[d] /\ results'[d] = results[d]

\* The actions of a caller, and those of the agent and of people.
CallerStep(c) ==
  \/ \E i \in Inputs : Run(c, i)
  \/ \E k \in Calls : CreateRun(c, k) \/ CreateFails(c, k)
  \/ Proceed(c) \/ OpenResult(c) \/ RequestFails(c) \/ Exit(c)

TaskStep(r, t) ==
  \/ StartTask(r, t) \/ InsertResult(r, t) \/ TaskSucceeds(r, t)
  \/ TaskFails(r, t) \/ RetryTask(r, t)

RunStep(r) ==
  \/ StartRun(r) \/ FinishRun(r) \/ AgentCancels(r) \/ UserCancels(r)
  \/ \E t \in Tasks : TaskStep(r, t)

LEMMA NextCases ==
  ASSUME Next
  PROVE  (\E c \in Callers : CallerStep(c)) \/ (\E r \in DOMAIN runs : RunStep(r))
BY DEF Next, CallerStep, RunStep, TaskStep

-----------------------------------------------------------------------------
(* What the operators on runs do.                                           *)

LEMMA RunsTyped ==
  ASSUME runs \in Seq(FlowRuns), NEW r \in DOMAIN runs
  PROVE  /\ runs[r] \in FlowRuns
         /\ runs[r].input \in Inputs /\ runs[r].state \in RunStates
         /\ runs[r].tasks \in [Tasks -> TaskStates]
         /\ runs[r].retries \in 0..MaxRetries /\ runs[r].stoppable \in BOOLEAN
<1>1. runs[r] \in FlowRuns
  OBVIOUS
<1> QED
  BY <1>1 DEF FlowRuns

LEMMA NewRunAppends ==
  ASSUME runs \in Seq(FlowRuns), NEW i \in Inputs, NEW b \in BOOLEAN, NewRun(i, b)
  PROVE  /\ runs' \in Seq(FlowRuns)
         /\ DOMAIN runs' = DOMAIN runs \cup {Len(runs) + 1}
         /\ Len(runs) + 1 \notin DOMAIN runs
         /\ \A r \in DOMAIN runs : runs'[r] = runs[r]
         /\ runs'[Len(runs) + 1] = [input |-> i, state |-> "Scheduled",
                                    tasks |-> [t \in Tasks |-> "Pending"],
                                    retries |-> 0, stoppable |-> b]
<1> DEFINE new == [input |-> i, state |-> "Scheduled",
                   tasks |-> [t \in Tasks |-> "Pending"],
                   retries |-> 0, stoppable |-> b]
<1>1. new \in FlowRuns
  BY FlowConstants DEF FlowRuns, RunStates, TaskStates
<1>2. runs' = Append(runs, new)
  BY DEF NewRun
<1> HIDE DEF new
<1>3. /\ runs' \in Seq(FlowRuns) /\ Len(runs') = Len(runs) + 1
      /\ \A r \in 1..Len(runs) : runs'[r] = runs[r]
      /\ runs'[Len(runs) + 1] = new /\ Len(runs) \in Nat
      /\ DOMAIN runs = 1..Len(runs) /\ DOMAIN runs' = 1..Len(runs')
  BY <1>1, <1>2
<1> QED
  BY <1>3 DEF new

\* A run of which the state or the tasks have changed, and the retries.
Changes(r, s) ==
  /\ DOMAIN runs' = DOMAIN runs
  /\ \A q \in DOMAIN runs \ {r} : runs'[q] = runs[q]
  /\ runs'[r] = [runs[r] EXCEPT !.state = s]

ChangesTask(r, t, s, n) ==
  /\ DOMAIN runs' = DOMAIN runs
  /\ \A q \in DOMAIN runs \ {r} : runs'[q] = runs[q]
  /\ runs'[r] = [runs[r] EXCEPT !.tasks[t] = s, !.retries = n]

LEMMA SetStateChanges ==
  ASSUME runs \in Seq(FlowRuns), NEW r \in DOMAIN runs, NEW s \in RunStates, SetState(r, s)
  PROVE  runs' \in Seq(FlowRuns) /\ Changes(r, s)
<1> DEFINE new == [runs[r] EXCEPT !.state = s]
<1>1. new \in FlowRuns
  BY RunsTyped DEF FlowRuns
<1>2. runs' = [runs EXCEPT ![r] = new]
  BY DEF SetState
<1> HIDE DEF new
<1>3. runs' \in Seq(FlowRuns) /\ DOMAIN runs' = DOMAIN runs
      /\ (\A q \in DOMAIN runs \ {r} : runs'[q] = runs[q]) /\ runs'[r] = new
  BY <1>1, <1>2
<1> QED
  BY <1>3 DEF Changes, new

LEMMA TaskChanges ==
  ASSUME runs \in Seq(FlowRuns), NEW r \in DOMAIN runs, NEW t \in Tasks,
         NEW s \in TaskStates, NEW n \in 0..MaxRetries,
         runs' = [runs EXCEPT ![r] = [runs[r] EXCEPT !.tasks[t] = s, !.retries = n]]
  PROVE  runs' \in Seq(FlowRuns) /\ ChangesTask(r, t, s, n)
<1> DEFINE new == [runs[r] EXCEPT !.tasks[t] = s, !.retries = n]
<1>1. new \in FlowRuns
  BY RunsTyped DEF FlowRuns
<1> HIDE DEF new
<1>2. runs' = [runs EXCEPT ![r] = new]
  BY DEF new
<1>3. runs' \in Seq(FlowRuns) /\ DOMAIN runs' = DOMAIN runs
      /\ (\A q \in DOMAIN runs \ {r} : runs'[q] = runs[q]) /\ runs'[r] = new
  BY <1>1, <1>2
<1> QED
  BY <1>3 DEF ChangesTask, new

LEMMA SetTaskChanges ==
  ASSUME runs \in Seq(FlowRuns), NEW r \in DOMAIN runs, NEW t \in Tasks,
         NEW s \in TaskStates, SetTask(r, t, s)
  PROVE  runs' \in Seq(FlowRuns) /\ ChangesTask(r, t, s, runs[r].retries)
<1>1. runs[r] \in FlowRuns /\ runs[r].retries \in 0..MaxRetries
  BY RunsTyped
<1>2. [runs[r] EXCEPT !.tasks[t] = s]
        = [runs[r] EXCEPT !.tasks[t] = s, !.retries = runs[r].retries]
  BY <1>1 DEF FlowRuns
<1>3. runs' = [runs EXCEPT ![r] = [runs[r] EXCEPT !.tasks[t] = s]]
  BY DEF SetTask
<1> QED
  BY <1>1, <1>2, <1>3, TaskChanges

LEMMA CancelledChanges ==
  ASSUME runs \in Seq(FlowRuns), NEW r \in DOMAIN runs, Cancelled(r)
  PROVE  /\ runs' \in Seq(FlowRuns)
         /\ \/ State(r) = "Scheduled" /\ Changes(r, "Cancelled")
            \/ State(r) = "Running" /\ Changes(r, "Cancelling")
            \/ State(r) \notin {"Scheduled", "Running"} /\ UNCHANGED runs
BY SetStateChanges DEF Cancelled, RunStates

-----------------------------------------------------------------------------
(* The agent and the people.                                                *)

LEMMA ChangesGrow ==
  ASSUME TypeOK, Saved, NEW r \in DOMAIN runs, NEW s, Changes(r, s),
         State(r) \notin Finished, s \in Live => State(r) \in Live,
         UNCHANGED documents
  PROVE  Grows /\ Saved'
<1>1. \A q \in DOMAIN runs :
        /\ q \in DOMAIN runs'
        /\ runs'[q].input = runs[q].input /\ runs'[q].tasks = runs[q].tasks
        /\ runs'[q].stoppable = runs[q].stoppable
        /\ q # r => runs'[q] = runs[q]
  BY RunsTyped DEF Changes, TypeOK, FlowRuns
<1>0. runs'[r].state = s
  BY RunsTyped DEF Changes, TypeOK, FlowRuns
<1>2. Grows
  BY <1>0, <1>1 DEF Grows, State, TypeOK
<1>3. DOMAIN runs' = DOMAIN runs
  BY DEF Changes
<1>4. Saved'
  BY <1>1, <1>3 DEF Saved, ValueOf
<1> QED
  BY <1>2, <1>4

LEMMA TaskChangesGrow ==
  ASSUME TypeOK, Saved, NEW r \in DOMAIN runs, NEW t \in Tasks, NEW s, NEW n,
         ChangesTask(r, t, s, n), State(r) \notin Finished, UNCHANGED documents,
         t \in SavingTasks /\ s \in {"Inserted", "Success"}
           => runs[r].tasks[t] \in {"Inserted", "Success"}
  PROVE  Grows /\ Saved'
<1>1. runs[r] \in FlowRuns /\ runs[r].tasks \in [Tasks -> TaskStates]
  BY RunsTyped DEF TypeOK
<1>2. /\ runs'[r].input = runs[r].input /\ runs'[r].stoppable = runs[r].stoppable
      /\ runs'[r].state = runs[r].state /\ runs'[r].tasks[t] = s
      /\ \A u \in Tasks \ {t} : runs'[r].tasks[u] = runs[r].tasks[u]
  BY <1>1 DEF ChangesTask, FlowRuns
<1>3. Grows
  <2>1. \A q \in DOMAIN runs :
          /\ q \in DOMAIN runs'
          /\ runs'[q].input = runs[q].input /\ runs'[q].stoppable = runs[q].stoppable
          /\ runs'[q].state = runs[q].state
          /\ q # r => runs'[q] = runs[q]
    BY <1>2 DEF ChangesTask
  <2> QED
    BY <2>1 DEF Grows, State, TypeOK
<1>4. \A q \in DOMAIN runs, u \in SavingTasks :
        runs'[q].tasks[u] \in {"Inserted", "Success"}
          => runs[q].tasks[u] \in {"Inserted", "Success"}
  BY <1>2, FlowConstants DEF ChangesTask
<1>5. \A q \in DOMAIN runs : runs'[q].input = runs[q].input
  BY <1>2 DEF ChangesTask
<1>6. DOMAIN runs' = DOMAIN runs
  BY DEF ChangesTask
<1>7. Saved'
  BY <1>4, <1>5, <1>6 DEF Saved, ValueOf
<1> QED
  BY <1>3, <1>7

LEMMA InsertSaves ==
  ASSUME TypeOK, Saved, NEW r \in DOMAIN runs, NEW t \in Tasks, InsertResult(r, t)
  PROVE  runs' \in Seq(FlowRuns) /\ documents' \in [Values -> Nat] /\ Grows /\ Saved'
<1>1. /\ t \in SavingTasks /\ t \notin EmptyTasks
      /\ State(r) \notin Finished
      /\ SetTask(r, t, "Inserted")
  BY FlowConstants DEF InsertResult, Finished
<1>2. runs' \in Seq(FlowRuns) /\ ChangesTask(r, t, "Inserted", runs[r].retries)
  BY <1>1, SetTaskChanges DEF TypeOK, TaskStates
<1>3. runs[r] \in FlowRuns /\ runs[r].tasks \in [Tasks -> TaskStates] /\ runs[r].input \in Inputs
  BY RunsTyped DEF TypeOK
<1>4. /\ runs'[r].input = runs[r].input /\ runs'[r].stoppable = runs[r].stoppable
      /\ runs'[r].state = runs[r].state /\ runs'[r].tasks[t] = "Inserted"
      /\ \A u \in Tasks \ {t} : runs'[r].tasks[u] = runs[r].tasks[u]
  BY <1>2, <1>3 DEF ChangesTask, FlowRuns
<1> DEFINE v == ValueOf(r, t)
<1>5. v \in Values
  BY <1>1, <1>3 DEF ValueOf, Values
<1>6. documents' = [documents EXCEPT ![v] = @ + 1]
  BY DEF InsertResult
<1>7. /\ documents' \in [Values -> Nat] /\ documents'[v] > 0
      /\ \A w \in Values : documents'[w] >= documents[w]
  <2> HIDE DEF v
  <2> QED
    BY <1>5, <1>6 DEF TypeOK
<1>8. Grows
  BY <1>1, <1>2, <1>4, <1>7 DEF Grows, ChangesTask, State
<1>9. \A q \in DOMAIN runs, u \in SavingTasks :
        runs'[q].tasks[u] \in {"Inserted", "Success"} => documents'[ValueOf(q, u)] > 0
  <2> SUFFICES ASSUME NEW q \in DOMAIN runs, NEW u \in SavingTasks,
                      runs'[q].tasks[u] \in {"Inserted", "Success"}
               PROVE  documents'[ValueOf(q, u)] > 0
    OBVIOUS
  <2>1. CASE q = r /\ u = t
    BY <2>1, <1>7
  <2>2. CASE ~(q = r /\ u = t)
    <3>1. runs'[q].tasks[u] = runs[q].tasks[u]
      BY <2>2, <1>2, <1>4, FlowConstants DEF ChangesTask
    <3>2. documents[ValueOf(q, u)] > 0
      BY <3>1 DEF Saved
    <3>3. ValueOf(q, u) \in Values
      <4>1. runs[q].input \in Inputs
        BY RunsTyped DEF TypeOK
      <4> QED
        BY <4>1, FlowConstants DEF ValueOf, Values
    <3>4. documents[ValueOf(q, u)] \in Nat /\ documents'[ValueOf(q, u)] \in Nat
      BY <3>3, <1>7 DEF TypeOK
    <3>5. documents'[ValueOf(q, u)] >= documents[ValueOf(q, u)]
      BY <3>3, <1>7
    <3> QED
      BY <3>2, <3>4, <3>5
  <2> QED
    BY <2>1, <2>2
<1>10. \A q \in DOMAIN runs, u \in SavingTasks : ValueOf(q, u)' = ValueOf(q, u)
  BY <1>2, <1>4 DEF ValueOf, ChangesTask
<1>11. Saved'
  BY <1>2, <1>9, <1>10 DEF Saved, ChangesTask
<1> QED
  BY <1>2, <1>7, <1>8, <1>11

LEMMA RunStepKeeps ==
  ASSUME TypeOK, Saved, NEW r \in DOMAIN runs, RunStep(r)
  PROVE  /\ runs' \in Seq(FlowRuns) /\ documents' \in [Values -> Nat]
         /\ Grows /\ Saved' /\ UNCHANGED <<callers, faults>>
<1> USE DEF TypeOK
<1>1. CASE StartRun(r)
  <2>1. /\ SetState(r, "Running") /\ State(r) \notin Finished /\ UNCHANGED <<documents, callers, faults>>
        /\ State(r) \in Live
    BY <1>1 DEF StartRun, Finished, Live
  <2>2. runs' \in Seq(FlowRuns) /\ Changes(r, "Running")
    BY <2>1, SetStateChanges DEF RunStates
  <2> QED
    BY <2>1, <2>2, ChangesGrow
<1>2. CASE FinishRun(r)
  <2>1. PICK s \in {"Success", "Failed"} : SetState(r, s)
    BY <1>2 DEF FinishRun
  <2>2. State(r) \notin Finished /\ UNCHANGED <<documents, callers, faults>>
    BY <1>2 DEF FinishRun, Finished
  <2>3. runs' \in Seq(FlowRuns) /\ Changes(r, s)
    BY <2>1, SetStateChanges DEF RunStates
  <2> QED
    BY <2>2, <2>3, ChangesGrow DEF Live
<1>3. CASE AgentCancels(r)
  <2>1. SetState(r, "Cancelled") /\ State(r) \notin Finished /\ UNCHANGED <<documents, callers, faults>>
    BY <1>3 DEF AgentCancels, Finished
  <2>2. runs' \in Seq(FlowRuns) /\ Changes(r, "Cancelled")
    BY <2>1, SetStateChanges DEF RunStates
  <2> QED
    BY <2>1, <2>2, ChangesGrow DEF Live
<1>4. CASE UserCancels(r)
  <2>1. Cancelled(r) /\ State(r) \in {"Scheduled", "Running"} /\ UNCHANGED <<documents, callers, faults>>
    BY <1>4 DEF UserCancels
  <2>2. State(r) \notin Finished
    BY <2>1 DEF Finished
  <2>3. runs' \in Seq(FlowRuns) /\ (Changes(r, "Cancelled") \/ Changes(r, "Cancelling"))
    BY <2>1, CancelledChanges
  <2> QED
    BY <2>1, <2>2, <2>3, ChangesGrow DEF Live
<1>5. ASSUME NEW t \in Tasks, TaskStep(r, t)
      PROVE  /\ runs' \in Seq(FlowRuns) /\ documents' \in [Values -> Nat]
             /\ Grows /\ Saved' /\ UNCHANGED <<callers, faults>>
  <2> DEFINE old == runs[r].tasks[t]
  <2>0. runs[r] \in FlowRuns /\ runs[r].retries \in 0..MaxRetries
    BY RunsTyped
  <2>1. CASE StartTask(r, t)
    <3>1. SetTask(r, t, "Running") /\ State(r) \notin Finished /\ UNCHANGED <<documents, callers, faults>>
      BY <2>1 DEF StartTask, Finished
    <3>2. runs' \in Seq(FlowRuns) /\ ChangesTask(r, t, "Running", runs[r].retries)
      BY <3>1, SetTaskChanges DEF TaskStates
    <3> QED
      BY <3>1, <3>2, TaskChangesGrow
  <2>2. CASE InsertResult(r, t)
    BY <2>2, InsertSaves DEF InsertResult
  <2>3. CASE TaskSucceeds(r, t)
    <3>1. /\ SetTask(r, t, "Success") /\ State(r) \notin Finished
          /\ UNCHANGED <<documents, callers, faults>>
          /\ t \in SavingTasks => old = "Inserted"
      BY <2>3 DEF TaskSucceeds, Finished
    <3>2. runs' \in Seq(FlowRuns) /\ ChangesTask(r, t, "Success", runs[r].retries)
      BY <3>1, SetTaskChanges DEF TaskStates
    <3> QED
      BY <3>1, <3>2, TaskChangesGrow
  <2>4. CASE TaskFails(r, t)
    <3>1. SetTask(r, t, "Failed") /\ State(r) \notin Finished /\ UNCHANGED <<documents, callers, faults>>
      BY <2>4 DEF TaskFails, Finished
    <3>2. runs' \in Seq(FlowRuns) /\ ChangesTask(r, t, "Failed", runs[r].retries)
      BY <3>1, SetTaskChanges DEF TaskStates
    <3> QED
      BY <3>1, <3>2, TaskChangesGrow
  <2>5. CASE RetryTask(r, t)
    <3> DEFINE n == runs[r].retries + 1
    <3>1. /\ State(r) \notin Finished /\ UNCHANGED <<documents, callers, faults>>
          /\ n \in 0..MaxRetries
      BY <2>0, <2>5, FlowConstants DEF RetryTask, Finished
    <3>2. runs' = [runs EXCEPT ![r] = [runs[r] EXCEPT !.tasks[t] = "Pending", !.retries = n]]
      BY <2>0, <2>5 DEF RetryTask, FlowRuns
    <3> HIDE DEF n
    <3>3. runs' \in Seq(FlowRuns) /\ ChangesTask(r, t, "Pending", n)
      BY <3>1, <3>2, TaskChanges DEF TaskStates
    <3> QED
      BY <3>1, <3>3, TaskChangesGrow
  <2> QED
    BY <1>5, <2>1, <2>2, <2>3, <2>4, <2>5 DEF TaskStep
<1> QED
  BY <1>1, <1>2, <1>3, <1>4, <1>5 DEF RunStep

-----------------------------------------------------------------------------
(* The callers.                                                             *)

\* What a caller depends on holds still while others move.
LEMMA OthersHold ==
  ASSUME TypeOK, Grows, NEW c \in Callers, CallerHolds(c),
         call'[c] = call[c], run'[c] = run[c], pc'[c] = pc[c],
         outcome'[c] = outcome[c], results'[c] = results[c]
  PROVE  CallerHolds(c)'
<1>1. Watching(c)' = Watching(c)
  BY DEF Watching
<1>2. RunHeld(c)'
  BY <1>1 DEF CallerHolds, RunHeld, Grows
<1>3. ASSUME pc[c] \in {"view", "collect", "parse", "load"} \/ outcome[c] = "Returned"
      PROVE  runs'[run'[c]] = runs[run[c]] /\ State(run[c]) \in Finished
  BY <1>3 DEF CallerHolds, FinishedSeen, RunHeld, Watching, Grows, State
<1>4. FinishedSeen(c)'
  BY <1>3 DEF FinishedSeen, State
<1>5. ResultsRead(c)'
  <2> SUFFICES ASSUME pc[c] \in {"parse", "load"} \/ outcome[c] = "Returned"
               PROVE  /\ Unsuccessful(run[c])' = {}
                      /\ DOMAIN results'[c] = Selected(c)'
                      /\ \A t \in DOMAIN results'[c] : results'[c][t] = ValueOf(run[c], t)'
    BY DEF ResultsRead
  <2>1. /\ Unsuccessful(run[c]) = {} /\ DOMAIN results[c] = Selected(c)
        /\ \A t \in DOMAIN results[c] : results[c][t] = ValueOf(run[c], t)
    BY DEF CallerHolds, ResultsRead
  <2>2. runs'[run'[c]] = runs[run[c]]
    BY <1>3
  <2> QED
    BY <2>1, <2>2 DEF Unsuccessful, Selected, ValueOf
<1> QED
  BY <1>2, <1>4, <1>5 DEF CallerHolds

LEMMA StillGrows ==
  ASSUME TypeOK, Saved, UNCHANGED <<runs, documents>>
  PROVE  Grows /\ Saved'
BY DEF TypeOK, Grows, Saved, ValueOf

LEMMA NewRunGrows ==
  ASSUME TypeOK, Saved, NEW i \in Inputs, NEW b \in BOOLEAN, NewRun(i, b), UNCHANGED documents
  PROVE  /\ runs' \in Seq(FlowRuns) /\ Grows /\ Saved'
         /\ Len(runs) + 1 \in DOMAIN runs' /\ Len(runs) + 1 \in Nat
         /\ runs'[Len(runs) + 1].input = i
         /\ runs'[Len(runs) + 1].stoppable = b
<1> DEFINE new == Len(runs) + 1
<1>1. /\ runs' \in Seq(FlowRuns) /\ DOMAIN runs' = DOMAIN runs \cup {new}
      /\ \A r \in DOMAIN runs : runs'[r] = runs[r]
      /\ runs'[new] = [input |-> i, state |-> "Scheduled",
                       tasks |-> [t \in Tasks |-> "Pending"],
                       retries |-> 0, stoppable |-> b]
  BY NewRunAppends DEF TypeOK
<1>2. new \in Nat
  BY DEF TypeOK
<1> HIDE DEF new
<1>3. Grows
  BY <1>1 DEF Grows, TypeOK
<1>4. Saved'
  <2> SUFFICES ASSUME NEW r \in DOMAIN runs', NEW t \in SavingTasks,
                      runs'[r].tasks[t] \in {"Inserted", "Success"}
               PROVE  documents'[ValueOf(r, t)'] > 0
    BY DEF Saved
  <2>1. r \in DOMAIN runs
    BY <1>1, FlowConstants
  <2>2. runs'[r] = runs[r]
    BY <1>1, <2>1
  <2> QED
    BY <2>1, <2>2 DEF Saved, ValueOf
<1> QED
  BY <1>1, <1>2, <1>3, <1>4 DEF new

LEMMA CancelledGrows ==
  ASSUME TypeOK, Saved, NEW r \in DOMAIN runs, Cancelled(r), UNCHANGED documents
  PROVE  /\ runs' \in Seq(FlowRuns) /\ Grows /\ Saved'
         /\ State(r)' \notin {"Scheduled", "Running"}
         /\ DOMAIN runs' = DOMAIN runs /\ \A q \in DOMAIN runs \ {r} : runs'[q] = runs[q]
<1>1. runs' \in Seq(FlowRuns) /\ runs[r] \in FlowRuns
  BY CancelledChanges, RunsTyped DEF TypeOK
<1>2. CASE State(r) \in {"Scheduled", "Running"}
  <2>1. State(r) \notin Finished
    BY <1>2 DEF Finished
  <2>2. Changes(r, "Cancelled") \/ Changes(r, "Cancelling")
    BY <1>2, CancelledChanges DEF TypeOK
  <2>3. Grows /\ Saved'
    BY <2>1, <2>2, ChangesGrow DEF Live
  <2>4. runs'[r].state \in {"Cancelled", "Cancelling"}
    BY <1>1, <2>2 DEF Changes, FlowRuns
  <2> QED
    BY <1>1, <2>2, <2>3, <2>4 DEF Changes, State
<1>3. CASE State(r) \notin {"Scheduled", "Running"}
  BY <1>1, <1>3, CancelledChanges, StillGrows DEF TypeOK, State
<1> QED
  BY <1>2, <1>3

Keeps(c) == TypeOK' /\ Grows /\ Saved' /\ Alone(c) /\ CallerHolds(c)'

\* A run that is final stays what a caller knows of it.
LEMMA HoldsOn ==
  ASSUME TypeOK, UNCHANGED runs, NEW c \in Callers, CallerHolds(c), pc[c] # "idle",
         UNCHANGED <<call, run>>
  PROVE  RunHeld(c)'
BY DEF TypeOK, CallerHolds, RunHeld, Watching

\* A call that ended otherwise than by returning claims nothing.
LEMMA EndedHolds ==
  ASSUME TypeOK, NEW c \in Callers, NEW o \in Outcomes \ {"Returned"}, End(c, o)
  PROVE  CallerHolds(c)'
<1>1. pc'[c] = "idle" /\ outcome'[c] = o
  BY DEF End, Goto, TypeOK
<1> QED
  BY <1>1 DEF CallerHolds, RunHeld, FinishedSeen, ResultsRead, Watching

LEMMA EndTyped ==
  ASSUME TypeOK, NEW c \in Callers, NEW o \in Outcomes, End(c, o)
  PROVE  /\ pc' \in [Callers -> Labels] /\ outcome' \in [Callers -> Outcomes]
         /\ pc'[c] = "idle" /\ outcome'[c] = o
         /\ \A d \in Callers \ {c} : pc'[d] = pc[d] /\ outcome'[d] = outcome[d]
BY DEF TypeOK, End, Goto, Labels

LEMMA GotoTyped ==
  ASSUME TypeOK, NEW c \in Callers, NEW l \in Labels, Goto(c, l), UNCHANGED outcome
  PROVE  /\ pc' \in [Callers -> Labels] /\ outcome' \in [Callers -> Outcomes]
         /\ pc'[c] = l /\ outcome'[c] = outcome[c]
         /\ \A d \in Callers \ {c} : pc'[d] = pc[d] /\ outcome'[d] = outcome[d]
BY DEF TypeOK, Goto

LEMMA NothingRead == NoResults \in ResultSets
BY DEF NoResults, ResultSets

\* A call begins, with a run of its own or with none.
LEMMA CreateRunKeeps ==
  ASSUME Inv, NEW c \in Callers, NEW k \in Calls, CreateRun(c, k)
  PROVE  Keeps(c)
<1> USE DEF Inv
<1>1. k.input \in Inputs /\ k.cancel_on_timeout \in BOOLEAN
  BY DEF Calls
<1>2. /\ pc[c] = "idle" /\ NewRun(k.input, k.cancel_on_timeout)
      /\ call' = [call EXCEPT ![c] = k] /\ run' = [run EXCEPT ![c] = Len(runs) + 1]
      /\ outcome' = [outcome EXCEPT ![c] = "None"]
      /\ results' = [results EXCEPT ![c] = NoResults]
      /\ pc' = [pc EXCEPT ![c] = "watch"] /\ UNCHANGED <<documents, faults>>
  BY DEF CreateRun, Goto
<1>3. /\ runs' \in Seq(FlowRuns) /\ Grows /\ Saved'
      /\ Len(runs) + 1 \in DOMAIN runs' /\ Len(runs) + 1 \in Nat
      /\ runs'[Len(runs) + 1].input = k.input
      /\ runs'[Len(runs) + 1].stoppable = k.cancel_on_timeout
  BY <1>1, <1>2, NewRunGrows
<1>4. /\ call'[c] = k /\ run'[c] = Len(runs) + 1 /\ pc'[c] = "watch"
      /\ outcome'[c] = "None"
  BY <1>2 DEF TypeOK
<1>5. TypeOK'
  BY <1>2, <1>3, NothingRead DEF TypeOK, Labels, Outcomes
<1>6. Alone(c)
  BY <1>2 DEF TypeOK, Alone
<1>7. CallerHolds(c)'
  BY <1>3, <1>4 DEF CallerHolds, RunHeld, FinishedSeen, ResultsRead, Watching
<1> QED
  BY <1>3, <1>5, <1>6, <1>7 DEF Keeps

LEMMA CreateFailsKeeps ==
  ASSUME Inv, NEW c \in Callers, NEW k \in Calls, CreateFails(c, k)
  PROVE  Keeps(c)
<1> USE DEF Inv
<1>1. k.input \in Inputs /\ k.cancel_on_timeout \in BOOLEAN
  BY DEF Calls
<1>2. /\ UNCHANGED runs \/ NewRun(k.input, k.cancel_on_timeout)
      /\ call' = [call EXCEPT ![c] = k] /\ run' = [run EXCEPT ![c] = 0]
      /\ results' = [results EXCEPT ![c] = NoResults]
      /\ End(c, "ClientError") /\ faults' = faults + 1 /\ UNCHANGED documents
  BY DEF CreateFails
<1>3. runs' \in Seq(FlowRuns) /\ Grows /\ Saved'
  BY <1>1, <1>2, NewRunGrows, StillGrows DEF TypeOK
<1>4. /\ pc' \in [Callers -> Labels] /\ outcome' \in [Callers -> Outcomes]
      /\ \A d \in Callers \ {c} : pc'[d] = pc[d] /\ outcome'[d] = outcome[d]
  BY <1>2, EndTyped DEF Outcomes
<1>5. TypeOK'
  <2>1. /\ call' \in [Callers -> Calls \cup {None}] /\ run' \in [Callers -> Nat]
        /\ results' \in [Callers -> ResultSets]
    BY <1>2, NothingRead DEF TypeOK
  <2>2. faults' \in Nat /\ documents' \in [Values -> Nat]
    BY <1>2 DEF TypeOK
  <2> QED
    BY <1>3, <1>4, <2>1, <2>2 DEF TypeOK
<1>6. Alone(c)
  BY <1>2, <1>4 DEF TypeOK, Alone
<1> QED
  BY <1>2, <1>3, <1>5, <1>6, EndedHolds DEF Keeps, Outcomes

LEMMA RunKeeps ==
  ASSUME Inv, NEW c \in Callers, NEW i \in Inputs, Run(c, i)
  PROVE  Keeps(c)
<1>1. NewRun(i, FALSE) /\ UNCHANGED <<documents, callers, faults>>
  BY DEF Run
<1>2. runs' \in Seq(FlowRuns) /\ Grows /\ Saved'
  BY <1>1, NewRunGrows DEF Inv
<1>3. TypeOK' /\ Alone(c)
  BY <1>1, <1>2 DEF Inv, TypeOK, Alone, callers
<1> QED
  BY <1>1, <1>2, <1>3, OthersHold DEF Keeps, Inv, callers

\* A step that ends the call otherwise than by returning.
LEMMA EndsKeeps ==
  ASSUME Inv, NEW c \in Callers, NEW o \in Outcomes \ {"Returned"}, End(c, o),
         runs' \in Seq(FlowRuns), Grows, Saved', UNCHANGED <<documents, call, run>>,
         results' = results \/ results' = [results EXCEPT ![c] = NoResults],
         faults' \in Nat
  PROVE  Keeps(c)
<1>1. /\ pc' \in [Callers -> Labels] /\ outcome' \in [Callers -> Outcomes]
      /\ \A d \in Callers \ {c} : pc'[d] = pc[d] /\ outcome'[d] = outcome[d]
  BY EndTyped DEF Inv
<1>2. /\ results' \in [Callers -> ResultSets]
      /\ \A d \in Callers \ {c} : results'[d] = results[d]
  BY NothingRead DEF Inv, TypeOK
<1>3. TypeOK'
  BY <1>1, <1>2 DEF Inv, TypeOK
<1>4. Alone(c)
  BY <1>1, <1>2 DEF Alone
<1> QED
  BY <1>3, <1>4, EndedHolds DEF Keeps, Inv

\* A step that only goes on to the next one.
LEMMA GoesOnKeeps ==
  ASSUME Inv, NEW c \in Callers, NEW l \in Labels, Goto(c, l),
         UNCHANGED <<runs, documents, call, run, outcome, results, faults>>
  PROVE  TypeOK' /\ Grows /\ Saved' /\ Alone(c) /\ pc'[c] = l
<1>1. /\ pc' \in [Callers -> Labels] /\ pc'[c] = l
      /\ \A d \in Callers \ {c} : pc'[d] = pc[d]
  BY GotoTyped DEF Inv
<1>2. Grows /\ Saved'
  BY StillGrows DEF Inv
<1> QED
  BY <1>1, <1>2 DEF Inv, TypeOK, Alone

\* The steps of a call that go on.
LEMMA GoOnKeeps ==
  ASSUME Inv, NEW c \in Callers,
         \/ WatchEnds(c)
         \/ WatchTimesOut(c) /\ call[c].cancel_on_timeout
         \/ ViewRun(c) /\ State(run[c]) # "Failed"
         \/ OpenResult(c)
  PROVE  Keeps(c)
<1>0. CallerHolds(c)
  BY DEF Inv
<1>1. CASE WatchEnds(c)
  <2>1. TypeOK' /\ Grows /\ Saved' /\ Alone(c) /\ pc'[c] = "view"
    BY <1>1, GoesOnKeeps DEF WatchEnds, Labels
  <2>2. RunHeld(c)'
    BY <1>0, <1>1 DEF CallerHolds, RunHeld, Watching, WatchEnds
  <2>3. FinishedSeen(c)'
    BY <1>1 DEF FinishedSeen, WatchEnds, State
  <2>4. ResultsRead(c)'
    BY <1>0, <1>1, <2>1 DEF CallerHolds, ResultsRead, WatchEnds, Unsuccessful, Selected, ValueOf
  <2> QED
    BY <2>1, <2>2, <2>3, <2>4 DEF Keeps, CallerHolds
<1>2. CASE WatchTimesOut(c) /\ call[c].cancel_on_timeout
  <2>1. TypeOK' /\ Grows /\ Saved' /\ Alone(c) /\ pc'[c] = "cancel"
    BY <1>2, GoesOnKeeps DEF WatchTimesOut, Labels
  <2>2. /\ pc[c] = "watch" /\ UNCHANGED <<runs, call, run, outcome, results>>
    BY <1>2 DEF WatchTimesOut
  <2>3. RunHeld(c)'
    BY <1>0, <2>2 DEF CallerHolds, RunHeld, Watching
  <2>4. FinishedSeen(c)'
    BY <1>0, <2>1, <2>2 DEF CallerHolds, FinishedSeen, State
  <2>5. ResultsRead(c)'
    BY <1>0, <2>1, <2>2 DEF CallerHolds, ResultsRead, Unsuccessful, Selected, ValueOf
  <2> QED
    BY <2>1, <2>3, <2>4, <2>5 DEF Keeps, CallerHolds
<1>3. CASE ViewRun(c) /\ State(run[c]) # "Failed"
  <2>1. /\ pc[c] = "view" /\ Goto(c, "collect")
        /\ UNCHANGED <<runs, documents, call, run, outcome, results, faults>>
    BY <1>3 DEF ViewRun
  <2>2. TypeOK' /\ Grows /\ Saved' /\ Alone(c) /\ pc'[c] = "collect"
    BY <2>1, GoesOnKeeps DEF Labels
  <2>3. RunHeld(c)' /\ FinishedSeen(c)'
    BY <1>0, <2>1 DEF CallerHolds, RunHeld, FinishedSeen, Watching, State
  <2>4. ResultsRead(c)'
    BY <1>0, <2>1, <2>2 DEF CallerHolds, ResultsRead, Unsuccessful, Selected, ValueOf
  <2> QED
    BY <2>2, <2>3, <2>4 DEF Keeps, CallerHolds
<1>4. CASE OpenResult(c)
  <2>1. /\ outcome[c] = "Returned" /\ Goto(c, "load")
        /\ UNCHANGED <<runs, documents, call, run, outcome, results, faults>>
    BY <1>4 DEF OpenResult
  <2>2. TypeOK' /\ Grows /\ Saved' /\ Alone(c) /\ pc'[c] = "load"
    BY <2>1, GoesOnKeeps DEF Labels
  <2>3. RunHeld(c)' /\ FinishedSeen(c)'
    BY <1>0, <2>1 DEF CallerHolds, RunHeld, FinishedSeen, Watching, State
  <2>4. ResultsRead(c)'
    BY <1>0, <2>1, <2>2 DEF CallerHolds, ResultsRead, Unsuccessful, Selected, ValueOf
  <2> QED
    BY <2>2, <2>3, <2>4 DEF Keeps, CallerHolds
<1> QED
  BY <1>1, <1>2, <1>3, <1>4

\* The results are read at once, from a run that is final.
LEMMA CollectKeeps ==
  ASSUME Inv, NEW c \in Callers, CollectTasks(c)
  PROVE  Keeps(c)
<1>0. TypeOK /\ Saved /\ CallerHolds(c)
  BY DEF Inv
<1> DEFINE read == [t \in Selected(c) |-> ValueOf(run[c], t)]
<1>1. /\ pc[c] = "collect" /\ Unsuccessful(run[c]) = {}
      /\ results' = [results EXCEPT ![c] = read]
      /\ UNCHANGED <<runs, documents, call, run, faults>>
      /\ End(c, "Returned") \/ (Goto(c, "parse") /\ UNCHANGED outcome)
  BY DEF CollectTasks
<1>2. /\ call[c] \in Calls /\ run[c] \in DOMAIN runs
      /\ runs[run[c]].input = call[c].input
      /\ runs[run[c]].stoppable = call[c].cancel_on_timeout
      /\ State(run[c]) \in Finished
  BY <1>0, <1>1 DEF CallerHolds, RunHeld, FinishedSeen, Watching
<1>3. Selected(c) \subseteq Tasks
  BY <1>2, FlowConstants DEF Selected, Calls
<1>4. \A t \in Tasks : ValueOf(run[c], t) \in Values \cup {None}
  <2>1. runs[run[c]].input \in Inputs
    BY <1>0, <1>2, RunsTyped DEF TypeOK
  <2> QED
    BY <2>1 DEF ValueOf, Values
<1>5. read \in ResultSets
  <2>1. read \in [Selected(c) -> Values \cup {None}]
    BY <1>3, <1>4
  <2> HIDE DEF read
  <2> QED
    BY <1>3, <2>1 DEF ResultSets
<1>6. /\ results' \in [Callers -> ResultSets] /\ results'[c] = read
      /\ \A d \in Callers \ {c} : results'[d] = results[d]
  <2> HIDE DEF read
  <2> QED
    BY <1>0, <1>1, <1>5 DEF TypeOK
<1>7. /\ pc' \in [Callers -> Labels] /\ outcome' \in [Callers -> Outcomes]
      /\ \A d \in Callers \ {c} : pc'[d] = pc[d] /\ outcome'[d] = outcome[d]
  BY <1>0, <1>1, EndTyped, GotoTyped DEF Outcomes, Labels
<1>8. TypeOK'
  BY <1>0, <1>1, <1>6, <1>7 DEF TypeOK
<1>9. Grows /\ Saved' /\ Alone(c)
  BY <1>0, <1>1, <1>6, <1>7, StillGrows DEF Alone
<1>10. RunHeld(c)' /\ FinishedSeen(c)'
  BY <1>1, <1>2 DEF RunHeld, FinishedSeen, State
<1>11. ResultsRead(c)'
  <2>1. DOMAIN results'[c] = Selected(c)' /\ Unsuccessful(run[c])' = {}
    BY <1>1, <1>6 DEF Selected, Unsuccessful
  <2>2. \A t \in DOMAIN results'[c] : results'[c][t] = ValueOf(run[c], t)'
    BY <1>1, <1>6 DEF ValueOf
  <2> QED
    BY <2>1, <2>2 DEF ResultsRead
<1> QED
  BY <1>8, <1>9, <1>10, <1>11 DEF Keeps, CallerHolds

LEMMA ParseKeeps ==
  ASSUME Inv, NEW c \in Callers, ParseResults(c)
  PROVE  Keeps(c)
<1>0. TypeOK /\ Saved /\ CallerHolds(c)
  BY DEF Inv
<1>1. /\ pc[c] = "parse" /\ UNCHANGED <<runs, documents, call, run, faults>>
      /\ \/ End(c, "Returned") /\ UNCHANGED results
         \/ /\ \E o \in {"TypeError", "AttributeError"} : End(c, o)
            /\ results' = [results EXCEPT ![c] = NoResults]
  BY DEF ParseResults, ParseErrors
<1>2. Grows /\ Saved' /\ runs' \in Seq(FlowRuns) /\ faults' \in Nat
  BY <1>0, <1>1, StillGrows DEF TypeOK
<1>3. CASE End(c, "Returned") /\ UNCHANGED results
  <2>1. /\ pc' \in [Callers -> Labels] /\ outcome' \in [Callers -> Outcomes]
        /\ \A d \in Callers \ {c} : pc'[d] = pc[d] /\ outcome'[d] = outcome[d]
    BY <1>0, <1>3, EndTyped DEF Outcomes
  <2>2. TypeOK' /\ Alone(c)
    BY <1>0, <1>1, <1>3, <2>1 DEF TypeOK, Alone
  <2>3. RunHeld(c)' /\ FinishedSeen(c)'
    BY <1>0, <1>1 DEF CallerHolds, RunHeld, FinishedSeen, Watching, State
  <2>4. ResultsRead(c)'
    BY <1>0, <1>1, <1>3 DEF CallerHolds, ResultsRead, Unsuccessful, Selected, ValueOf
  <2> QED
    BY <1>2, <2>2, <2>3, <2>4 DEF Keeps, CallerHolds
<1>4. CASE /\ \E o \in {"TypeError", "AttributeError"} : End(c, o)
           /\ results' = [results EXCEPT ![c] = NoResults]
  BY <1>1, <1>2, <1>4, EndsKeeps DEF Outcomes
<1> QED
  BY <1>1, <1>3, <1>4

\* The ways in which a call ends with an error, or with a loaded result.
LEMMA EndingKeeps ==
  ASSUME Inv, NEW c \in Callers,
         \/ WatchTimesOut(c) /\ ~call[c].cancel_on_timeout
         \/ ViewRun(c) /\ State(run[c]) = "Failed"
         \/ CollectFails(c) \/ LoadResult(c)
  PROVE  Keeps(c)
<1>1. PICK o \in Outcomes \ {"Returned"} : End(c, o)
  BY DEF WatchTimesOut, ViewRun, CollectFails, LoadResult, Outcomes
<1>2. UNCHANGED <<runs, documents, call, run, results, faults>>
  BY DEF WatchTimesOut, ViewRun, CollectFails, LoadResult
<1>3. Grows /\ Saved' /\ runs' \in Seq(FlowRuns) /\ faults' \in Nat
  BY <1>2, StillGrows DEF Inv, TypeOK
<1> QED
  BY <1>1, <1>2, <1>3, EndsKeeps

LEMMA CancelKeeps ==
  ASSUME Inv, NEW c \in Callers, CancelRun(c) \/ RequestFails(c)
  PROVE  Keeps(c)
<1>1. PICK o \in {"RuntimeError", "ClientError"} : End(c, o)
  BY DEF CancelRun, RequestFails
<1>2. /\ UNCHANGED runs \/ (pc[c] = "cancel" /\ Cancelled(run[c]))
      /\ UNCHANGED <<documents, call, run, results>> /\ faults' \in Nat
  BY DEF CancelRun, RequestFails, Inv, TypeOK
<1>3. runs' \in Seq(FlowRuns) /\ Grows /\ Saved'
  <2>1. CASE UNCHANGED runs
    BY <1>2, <2>1, StillGrows DEF Inv, TypeOK
  <2>2. CASE pc[c] = "cancel" /\ Cancelled(run[c])
    <3>1. run[c] \in DOMAIN runs
      BY <2>2 DEF Inv, CallerHolds, RunHeld, Watching
    <3> QED
      BY <1>2, <2>2, <3>1, CancelledGrows DEF Inv
  <2> QED
    BY <1>2, <2>1, <2>2
<1> QED
  BY <1>1, <1>2, <1>3, EndsKeeps DEF Outcomes

LEMMA ExitKeeps ==
  ASSUME Inv, NEW c \in Callers, Exit(c)
  PROVE  Keeps(c)
<1> USE DEF Inv
<1>1. /\ End(c, "None") /\ call' = [call EXCEPT ![c] = None]
      /\ run' = [run EXCEPT ![c] = 0] /\ results' = [results EXCEPT ![c] = NoResults]
      /\ UNCHANGED <<runs, documents>>
  BY DEF Exit
<1>2. Grows /\ Saved' /\ faults' \in Nat
  BY <1>1, StillGrows DEF Exit, TypeOK
<1>3. /\ pc' \in [Callers -> Labels] /\ outcome' \in [Callers -> Outcomes]
      /\ \A d \in Callers \ {c} : pc'[d] = pc[d] /\ outcome'[d] = outcome[d]
  BY <1>1, EndTyped DEF Outcomes
<1>4. /\ call' \in [Callers -> Calls \cup {None}] /\ run' \in [Callers -> Nat]
      /\ results' \in [Callers -> ResultSets]
      /\ \A d \in Callers \ {c} :
           call'[d] = call[d] /\ run'[d] = run[d] /\ results'[d] = results[d]
  BY <1>1, NothingRead DEF TypeOK
<1>5. TypeOK' /\ Alone(c)
  BY <1>1, <1>2, <1>3, <1>4 DEF TypeOK, Alone
<1> QED
  BY <1>1, <1>2, <1>5, EndedHolds DEF Keeps, Outcomes

LEMMA CallerStepKeeps ==
  ASSUME Inv, NEW c \in Callers, CallerStep(c)
  PROVE  Keeps(c)
<1>1. CASE \E i \in Inputs : Run(c, i)
  BY <1>1, RunKeeps
<1>2. CASE \E k \in Calls : CreateRun(c, k) \/ CreateFails(c, k)
  BY <1>2, CreateRunKeeps, CreateFailsKeeps
<1>3. CASE Proceed(c)
  <2>1. CASE WatchTimesOut(c)
    BY <2>1, GoOnKeeps, EndingKeeps
  <2>2. CASE ViewRun(c)
    BY <2>2, GoOnKeeps, EndingKeeps
  <2> QED
    BY <1>3, <2>1, <2>2, GoOnKeeps, EndingKeeps, CollectKeeps, ParseKeeps, CancelKeeps
    DEF Proceed
<1> QED
  BY <1>1, <1>2, <1>3, GoOnKeeps, CancelKeeps, ExitKeeps DEF CallerStep

LEMMA InvInit == Init => Inv
<1> SUFFICES ASSUME Init PROVE Inv
  OBVIOUS
<1>1. TypeOK
  BY NothingRead DEF Init, TypeOK, Labels, Outcomes
<1>2. \A c \in Callers : CallerHolds(c)
  BY DEF Init, CallerHolds, RunHeld, FinishedSeen, ResultsRead, Watching
<1>3. Saved
  BY DEF Init, Saved
<1> QED
  BY <1>1, <1>2, <1>3 DEF Inv

LEMMA InvStep == Inv /\ [Next]_vars => Inv'
<1> SUFFICES ASSUME Inv, [Next]_vars PROVE Inv'
  OBVIOUS
<1>1. ASSUME NEW c \in Callers, CallerStep(c) PROVE Inv'
  <2>1. TypeOK' /\ Grows /\ Saved' /\ Alone(c) /\ CallerHolds(c)'
    BY <1>1, CallerStepKeeps DEF Keeps
  <2>2. \A d \in Callers \ {c} : CallerHolds(d)'
    BY <2>1, OthersHold DEF Inv, Alone
  <2> QED
    BY <2>1, <2>2 DEF Inv
<1>2. ASSUME NEW r \in DOMAIN runs, RunStep(r) PROVE Inv'
  <2>1. /\ runs' \in Seq(FlowRuns) /\ documents' \in [Values -> Nat]
        /\ Grows /\ Saved' /\ UNCHANGED <<callers, faults>>
    BY <1>2, RunStepKeeps DEF Inv
  <2>2. TypeOK' /\ \A c \in Callers : CallerHolds(c)'
    BY <2>1, OthersHold DEF Inv, TypeOK, callers
  <2> QED
    BY <2>1, <2>2 DEF Inv
<1>3. CASE UNCHANGED vars
  <2>1. TypeOK' /\ Grows /\ Saved'
    BY <1>3, StillGrows DEF Inv, vars, callers, TypeOK
  <2>2. \A c \in Callers : CallerHolds(c)'
    BY <1>3, <2>1, OthersHold DEF Inv, vars, callers
  <2> QED
    BY <2>1, <2>2 DEF Inv
<1> QED
  BY <1>1, <1>2, <1>3, NextCases

LEMMA InvHolds == Spec => []Inv
  BY InvInit, InvStep, PTL DEF Spec

-----------------------------------------------------------------------------
\* Runs, callers and what they have read keep their types.
THEOREM TypeCorrect == Spec => []TypeOK
<1>1. Inv => TypeOK
  BY DEF Inv
<1> QED
  BY <1>1, InvHolds, PTL

\* What a call returns are the results of its own run, complete and of tasks that
\* succeeded: the checks between watch_flow_run and the return suffice, although the
\* state, the tasks and the results are read in requests of their own.
THEOREM ReturnedCompleteCorrect == Spec => []ReturnedComplete
<1>1. Inv => ReturnedComplete
  <2> SUFFICES ASSUME Inv, NEW c \in Callers, outcome[c] = "Returned"
               PROVE  /\ State(run[c]) \in Finished
                      /\ DOMAIN results[c] = Selected(c)
                      /\ \A t \in DOMAIN results[c] :
                           /\ runs[run[c]].tasks[t] = "Success"
                           /\ results[c][t] # None => results[c][t].input = call[c].input
    BY DEF ReturnedComplete, Selected
  <2>1. /\ State(run[c]) \in Finished /\ DOMAIN results[c] = Selected(c)
        /\ Unsuccessful(run[c]) = {}
        /\ \A t \in DOMAIN results[c] : results[c][t] = ValueOf(run[c], t)
        /\ runs[run[c]].input = call[c].input
        /\ call[c] \in Calls
    BY DEF Inv, CallerHolds, FinishedSeen, ResultsRead, RunHeld, Watching
  <2>2. DOMAIN results[c] \subseteq Tasks
    BY <2>1, FlowConstants DEF Selected, Calls
  <2>3. ASSUME NEW t \in DOMAIN results[c]
        PROVE  /\ runs[run[c]].tasks[t] = "Success"
               /\ results[c][t] # None => results[c][t].input = call[c].input
    <3>1. runs[run[c]].tasks[t] = "Success"
      BY <2>1, <2>2 DEF Unsuccessful
    <3>2. results[c][t] = None \/ results[c][t] = [task |-> t, input |-> call[c].input]
      BY <2>1 DEF ValueOf
    <3> QED
      BY <3>1, <3>2
  <2> QED
    BY <2>1, <2>3
<1> QED
  BY <1>1, InvHolds, PTL

\* Whatever was returned for a save task is in the database: SaveDBResult inserts
\* before it returns, and nothing is deleted.
THEOREM ReturnedStoredCorrect == Spec => []ReturnedStored
<1>1. Inv => ReturnedStored
  <2> SUFFICES ASSUME Inv, NEW c \in Callers, outcome[c] = "Returned",
                      NEW t \in DOMAIN results[c] \cap SavingTasks
               PROVE  documents[results[c][t]] > 0
    BY DEF ReturnedStored
  <2>1. /\ Unsuccessful(run[c]) = {} /\ results[c][t] = ValueOf(run[c], t)
        /\ run[c] \in DOMAIN runs
    BY DEF Inv, CallerHolds, ResultsRead, RunHeld, Watching
  <2>2. runs[run[c]].tasks[t] = "Success"
    BY <2>1, FlowConstants DEF Unsuccessful
  <2> QED
    BY <2>1, <2>2 DEF Inv, Saved
<1> QED
  BY <1>1, InvHolds, PTL

-----------------------------------------------------------------------------
(* Runs that go on unwatched.                                               *)

Watches(c, r) == run[c] = r /\ pc[c] \in {"watch", "cancel"}

\* Only the caller that moves can have left a run that was there before.
LEMMA LeftByMover ==
  ASSUME Inv, Grows, NEW c \in Callers, Alone(c),
         NEW r \in Unwatched', r \in DOMAIN runs, r \notin Unwatched
  PROVE  Watches(c, r) /\ ~Watches(c, r)'
<1>1. /\ runs[r].stoppable /\ State(r) \in {"Scheduled", "Running"}
      /\ \A d \in Callers : ~Watches(d, r)'
  BY DEF Unwatched, Grows, Live, State, Watches
<1>2. PICK d \in Callers : Watches(d, r)
  BY <1>1 DEF Unwatched, Watches
<1>3. d = c
  BY <1>1, <1>2 DEF Alone, Watches
<1> QED
  BY <1>1, <1>2, <1>3

LEMMA NothingLeft ==
  ASSUME Inv, NEW c \in Callers, Keeps(c), DOMAIN runs' = DOMAIN runs,
         pc[c] \notin {"watch", "cancel"}
  PROVE  Unwatched' \subseteq Unwatched
BY LeftByMover DEF Keeps, Unwatched, Watches

\* A step leaves no run, or one and is a failure.
LeavesNone == Unwatched' \subseteq Unwatched /\ faults' = faults
LeavesOne  == \E r : Unwatched' \subseteq Unwatched \cup {r} /\ faults' = faults + 1

LEMMA CallerLeaves ==
  ASSUME Inv, NEW c \in Callers, CallerStep(c)
  PROVE  LeavesNone \/ LeavesOne
<1>0. Keeps(c) /\ CallerHolds(c)
  BY CallerStepKeeps DEF Inv
<1>1. CASE \E i \in Inputs : Run(c, i)
  <2>1. PICK i \in Inputs : NewRun(i, FALSE) /\ UNCHANGED <<documents, callers, faults>>
    BY <1>1 DEF Run
  <2>2. /\ DOMAIN runs' = DOMAIN runs \cup {Len(runs) + 1}
        /\ runs'[Len(runs) + 1].stoppable = FALSE
    <3>1. FALSE \in BOOLEAN
      OBVIOUS
    <3>2. runs'[Len(runs) + 1].stoppable = FALSE
      BY <2>1, <3>1, NewRunGrows DEF Inv
    <3> QED
      BY <2>1, <3>1, <3>2, NewRunAppends DEF Inv, TypeOK
  <2>3. Unwatched' \subseteq Unwatched
    BY <1>0, <2>1, <2>2, LeftByMover DEF Keeps, Unwatched, Watches, callers
  <2> QED
    BY <2>1, <2>3 DEF LeavesNone
<1>2. ASSUME NEW k \in Calls, CreateRun(c, k) PROVE LeavesNone
  <2>1. /\ pc[c] = "idle" /\ NewRun(k.input, k.cancel_on_timeout)
        /\ pc'[c] = "watch" /\ run'[c] = Len(runs) + 1 /\ UNCHANGED faults
    BY <1>2 DEF CreateRun, Goto, Inv, TypeOK
  <2>2. DOMAIN runs' = DOMAIN runs \cup {Len(runs) + 1}
    BY <2>1, NewRunAppends DEF Inv, TypeOK, Calls
  <2>3. Unwatched' \subseteq Unwatched
    BY <1>0, <2>1, <2>2, LeftByMover DEF Keeps, Unwatched, Watches
  <2> QED
    BY <2>1, <2>3 DEF LeavesNone
<1>3. ASSUME NEW k \in Calls, CreateFails(c, k) PROVE LeavesOne
  <2>1. /\ pc[c] = "idle" /\ faults' = faults + 1
        /\ UNCHANGED runs \/ NewRun(k.input, k.cancel_on_timeout)
    BY <1>3 DEF CreateFails
  <2>2. DOMAIN runs' \subseteq DOMAIN runs \cup {Len(runs) + 1}
    BY <2>1, NewRunAppends DEF Inv, TypeOK, Calls
  <2>3. Unwatched' \subseteq Unwatched \cup {Len(runs) + 1}
    BY <1>0, <2>1, <2>2, LeftByMover DEF Keeps, Unwatched, Watches
  <2> QED
    BY <2>1, <2>3 DEF LeavesOne
<1>4. CASE WatchEnds(c)
  <2>1. /\ State(run[c]) \in Finished /\ UNCHANGED <<runs, faults>>
    BY <1>4 DEF WatchEnds
  <2>2. Unwatched' \subseteq Unwatched
    BY <1>0, <2>1, LeftByMover DEF Keeps, Unwatched, Watches, State, Finished
  <2> QED
    BY <2>1, <2>2 DEF LeavesNone
<1>5. CASE WatchTimesOut(c)
  <2>1. pc[c] = "watch" /\ UNCHANGED <<runs, run, call, faults>>
    BY <1>5 DEF WatchTimesOut
  <2>2. call[c].cancel_on_timeout => pc'[c] = "cancel"
    BY <1>5 DEF WatchTimesOut, Goto, Inv, TypeOK
  <2>3. runs[run[c]].stoppable = call[c].cancel_on_timeout
    BY <1>0, <2>1 DEF CallerHolds, RunHeld, Watching
  <2>4. Unwatched' \subseteq Unwatched
    BY <1>0, <2>1, <2>2, <2>3, LeftByMover DEF Keeps, Unwatched, Watches
  <2> QED
    BY <2>1, <2>4 DEF LeavesNone
<1>6. CASE CancelRun(c)
  <2>1. pc[c] = "cancel" /\ Cancelled(run[c]) /\ UNCHANGED <<documents, run, faults>>
    BY <1>6 DEF CancelRun
  <2>2. run[c] \in DOMAIN runs
    BY <1>0, <2>1 DEF CallerHolds, RunHeld, Watching
  <2>3. DOMAIN runs' = DOMAIN runs /\ State(run[c])' \notin {"Scheduled", "Running"}
    BY <2>1, <2>2, CancelledGrows DEF Inv, State
  <2>4. Unwatched' \subseteq Unwatched
    BY <1>0, <2>1, <2>3, LeftByMover DEF Keeps, Unwatched, Watches, State
  <2> QED
    BY <2>1, <2>4 DEF LeavesNone
<1>7. CASE ViewRun(c) \/ CollectTasks(c) \/ CollectFails(c) \/ ParseResults(c)
           \/ LoadResult(c) \/ OpenResult(c)
  <2>1. /\ UNCHANGED <<runs, faults>> /\ pc[c] \notin {"watch", "cancel"}
    BY <1>7 DEF ViewRun, CollectTasks, CollectFails, ParseResults, LoadResult, OpenResult
  <2> QED
    BY <1>0, <2>1, NothingLeft DEF LeavesNone
<1>8. CASE RequestFails(c)
  <2>1. /\ faults' = faults + 1
        /\ UNCHANGED runs \/ (pc[c] = "cancel" /\ Cancelled(run[c]))
        /\ UNCHANGED <<documents, run>>
    BY <1>8 DEF RequestFails
  <2>2. DOMAIN runs' = DOMAIN runs
    BY <1>0, <2>1, CancelledGrows DEF CallerHolds, RunHeld, Watching, Inv
  <2>3. Unwatched' \subseteq Unwatched \cup {run[c]}
    BY <1>0, <2>2, LeftByMover DEF Keeps, Unwatched, Watches
  <2> QED
    BY <2>1, <2>3 DEF LeavesOne
<1>9. CASE Exit(c)
  <2>1. /\ UNCHANGED runs
        /\ (pc[c] = "idle" /\ UNCHANGED faults) \/ faults' = faults + 1
    BY <1>9 DEF Exit
  <2>2. Unwatched' \subseteq Unwatched \cup {run[c]}
    BY <1>0, <2>1, LeftByMover DEF Keeps, Unwatched, Watches
  <2>3. pc[c] = "idle" => Unwatched' \subseteq Unwatched
    BY <1>0, <2>1, NothingLeft
  <2> QED
    BY <2>1, <2>2, <2>3 DEF LeavesNone, LeavesOne
<1> QED
  BY <1>1, <1>2, <1>3, <1>4, <1>5, <1>6, <1>7, <1>8, <1>9 DEF CallerStep, Proceed

LEMMA RunStepLeaves ==
  ASSUME Inv, NEW r \in DOMAIN runs, RunStep(r)
  PROVE  LeavesNone
<1>1. Grows /\ UNCHANGED <<callers, faults>>
  BY RunStepKeeps DEF Inv
<1>2. DOMAIN runs' = DOMAIN runs
  BY SetStateChanges
  DEF RunStep, TaskStep, StartRun, FinishRun, AgentCancels, UserCancels, Cancelled,
      StartTask, InsertResult, TaskSucceeds, TaskFails, RetryTask, SetState, SetTask,
      Inv, TypeOK
<1>3. Unwatched' \subseteq Unwatched
  BY <1>1, <1>2 DEF Unwatched, Grows, Live, State, callers
<1> QED
  BY <1>1, <1>3 DEF LeavesNone

LEMMA UnwatchedFinite ==
  ASSUME TypeOK
  PROVE  IsFiniteSet(Unwatched) /\ Cardinality(Unwatched) \in Nat /\ faults \in Nat
<1>1. Unwatched \subseteq 1..Len(runs) /\ Len(runs) \in Nat
  BY DEF Unwatched, TypeOK
<1>2. IsFiniteSet(1..Len(runs))
  BY <1>1, FS_Interval
<1>3. IsFiniteSet(Unwatched)
  BY <1>1, <1>2, FS_Subset
<1> QED
  BY <1>3, FS_CardinalityType DEF TypeOK

\* As many runs go on unwatched as there were failures: without one, a caller that
\* leaves a run behind has cancelled it, or was asked not to.
THEOREM UnwatchedCorrect == Spec => []UnwatchedBounded
<1>1. Init => UnwatchedBounded
  BY FS_EmptySet DEF Init, UnwatchedBounded, Unwatched
<1>2. Inv /\ Inv' /\ UnwatchedBounded /\ [Next]_vars => UnwatchedBounded'
  <2> SUFFICES ASSUME Inv, Inv', UnwatchedBounded, [Next]_vars PROVE UnwatchedBounded'
    OBVIOUS
  <2>1. /\ IsFiniteSet(Unwatched) /\ Cardinality(Unwatched) \in Nat /\ faults \in Nat
    BY UnwatchedFinite DEF Inv
  <2>2. /\ IsFiniteSet(Unwatched') /\ Cardinality(Unwatched') \in Nat /\ faults' \in Nat
    <3>1. runs' \in Seq(FlowRuns) /\ Unwatched' \subseteq DOMAIN runs'
      BY DEF Unwatched, Inv, TypeOK
    <3>2. DOMAIN runs' = 1..Len(runs') /\ Len(runs') \in Nat
      BY <3>1
    <3>3. IsFiniteSet(1..Len(runs'))
      BY <3>2, FS_Interval
    <3>4. IsFiniteSet(Unwatched')
      BY <3>1, <3>2, <3>3, FS_Subset
    <3> QED
      BY <3>4, FS_CardinalityType DEF Inv, TypeOK
  <2>3. CASE LeavesNone
    <3>1. Cardinality(Unwatched') <= Cardinality(Unwatched)
      BY <2>1, <2>3, FS_Subset DEF LeavesNone
    <3> QED
      BY <2>1, <2>2, <2>3, <3>1 DEF LeavesNone, UnwatchedBounded
  <2>4. CASE LeavesOne
    <3>1. PICK r : Unwatched' \subseteq Unwatched \cup {r} /\ faults' = faults + 1
      BY <2>4 DEF LeavesOne
    <3>2. /\ IsFiniteSet(Unwatched \cup {r})
          /\ Cardinality(Unwatched \cup {r}) \in Nat
          /\ Cardinality(Unwatched \cup {r}) <= Cardinality(Unwatched) + 1
      <4>1. /\ IsFiniteSet(Unwatched \cup {r})
            /\ \/ Cardinality(Unwatched \cup {r}) = Cardinality(Unwatched)
               \/ Cardinality(Unwatched \cup {r}) = Cardinality(Unwatched) + 1
        BY <2>1, FS_AddElement
      <4> QED
        BY <2>1, <4>1
    <3>3. Cardinality(Unwatched') <= Cardinality(Unwatched \cup {r})
      BY <3>1, <3>2, FS_Subset
    <3> QED
      BY <2>1, <2>2, <3>1, <3>2, <3>3 DEF UnwatchedBounded
  <2>5. CASE UNCHANGED vars
    BY <2>5 DEF UnwatchedBounded, Unwatched, State, vars, callers
  <2> QED
    BY <2>3, <2>4, <2>5, NextCases, CallerLeaves, RunStepLeaves
<1> QED
  BY <1>1, <1>2, InvHolds, PTL DEF Spec
-----------------------------------------------------------------------------
(* The server backend implements Backend.                                   *)

\* Before a call reads the tasks of its run, it has read nothing; what has been read is
\* of a finished run; and no two calls in progress have one run.
Unread(c) ==
  pc[c] \in {"watch", "cancel", "view", "collect"} => DOMAIN results[c] = {}

Kept(c) ==
  DOMAIN results[c] # {} => run[c] \in DOMAIN runs /\ State(run[c]) \in Finished

OwnRuns ==
  \A c, d \in Callers : Calling(c) /\ Calling(d) /\ run[c] = run[d] => c = d

Reading == (\A c \in Callers : Unread(c) /\ Kept(c)) /\ OwnRuns

\* No task comes to succeed, and none that has is undone.
NothingDone == \A r \in DOMAIN runs : Unsuccessful(r)' = Unsuccessful(r)

\* The steps of a caller, by what they make of what Backend sees of it, but for the one
\* that begins a call: it ends empty, stays as it is, reads or returns.
Idles(c) == pc'[c] = "idle" /\ DOMAIN results'[c] = {}

Stays(c) ==
  /\ call'[c] = call[c] /\ run'[c] = run[c] /\ results'[c] = results[c]
  /\ Calling(c)' <=> Calling(c)
  /\ pc[c] = "parse" => pc'[c] = "parse"

Reads(c) ==
  /\ pc[c] \in {"collect", "parse"} /\ pc'[c] \in {"parse", "idle"}
  /\ call'[c] = call[c] /\ run'[c] = run[c] /\ UNCHANGED runs
  /\ Unsuccessful(run[c]) = {}
  /\ DOMAIN results'[c] = Selected(c)

LEMMA CallerKinds ==
  ASSUME Inv, Reading, NEW c \in Callers, CallerStep(c)
  PROVE  (\E k \in Calls : CreateRun(c, k)) \/ Idles(c) \/ Stays(c) \/ Reads(c)
<1>0. TypeOK /\ Unread(c) /\ CallerHolds(c)
  BY DEF Inv, Reading
<1>1. DOMAIN NoResults = {}
  BY DEF NoResults
<1>2. CASE \E i \in Inputs : Run(c, i)
  BY <1>2 DEF Run, callers, Stays, Calling
<1>3. CASE (\E k \in Calls : CreateFails(c, k)) \/ Exit(c)
  <2>1. End(c, "ClientError") \/ End(c, "None")
    BY <1>3 DEF CreateFails, Exit
  <2>2. results' = [results EXCEPT ![c] = NoResults]
    BY <1>3 DEF CreateFails, Exit
  <2> QED BY <1>0, <1>1, <2>1, <2>2 DEF TypeOK, End, Goto, Idles
<1>4. CASE \E l \in {"view", "cancel", "collect"} :
             /\ pc[c] \in {"watch", "view"} /\ Goto(c, l)
             /\ UNCHANGED <<call, run, results>>
  BY <1>0, <1>4 DEF TypeOK, Goto, Stays, Calling
<1>5. CASE WatchEnds(c) \/ WatchTimesOut(c) \/ ViewRun(c) \/ CancelRun(c)
           \/ CollectFails(c) \/ (RequestFails(c) /\ pc[c] # "load")
  <2>1. /\ pc[c] \in {"watch", "cancel", "view", "collect"}
        /\ UNCHANGED <<call, run, results>>
    BY <1>5 DEF WatchEnds, WatchTimesOut, ViewRun, CancelRun, CollectFails, RequestFails
  <2>2. \/ \E l \in {"view", "cancel", "collect"} :
             pc[c] \in {"watch", "view"} /\ Goto(c, l)
        \/ \E o \in Outcomes : End(c, o)
    BY <1>5
    DEF WatchEnds, WatchTimesOut, ViewRun, CancelRun, CollectFails, RequestFails, Outcomes
  <2>3. CASE \E o \in Outcomes : End(c, o)
    <3>1. pc'[c] = "idle"
      BY <1>0, <2>3 DEF TypeOK, End, Goto
    <3> QED BY <1>0, <2>1, <3>1 DEF Unread, Idles
  <2> QED BY <1>4, <2>1, <2>2, <2>3
<1>6. CASE LoadResult(c) \/ OpenResult(c) \/ (RequestFails(c) /\ pc[c] = "load")
  <2>1. /\ UNCHANGED <<call, run, results>> /\ pc[c] \in {"load", "idle"}
        /\ Goto(c, "idle") \/ Goto(c, "load")
    BY <1>6 DEF LoadResult, OpenResult, RequestFails, End
  <2> QED BY <1>0, <2>1 DEF TypeOK, Goto, Stays, Calling
<1>7. CASE CollectTasks(c)
  <2>1. /\ pc[c] = "collect" /\ Unsuccessful(run[c]) = {}
        /\ results' = [results EXCEPT ![c] = [t \in Selected(c) |-> ValueOf(run[c], t)]]
        /\ Goto(c, "idle") \/ Goto(c, "parse")
        /\ UNCHANGED <<runs, call, run>>
    BY <1>7 DEF CollectTasks, End
  <2> QED BY <1>0, <2>1 DEF TypeOK, Goto, Reads
<1>8. CASE ParseResults(c)
  <2>1. /\ pc[c] = "parse" /\ Goto(c, "idle") /\ UNCHANGED <<runs, call, run>>
        /\ UNCHANGED results \/ results' = [results EXCEPT ![c] = NoResults]
    BY <1>8 DEF ParseResults, End
  <2>2. Unsuccessful(run[c]) = {} /\ DOMAIN results[c] = Selected(c)
    BY <1>0, <2>1 DEF CallerHolds, ResultsRead
  <2> QED BY <1>0, <1>1, <2>1, <2>2 DEF TypeOK, Goto, Reads, Idles
<1> QED
  BY <1>2, <1>3, <1>5, <1>6, <1>7, <1>8 DEF CallerStep, Proceed

\* Callers create runs and cancel them, and touch no task.
LEMMA CallerDoesNoTask ==
  ASSUME Inv, NEW c \in Callers, CallerStep(c)
  PROVE  NothingDone
<1>1. TypeOK /\ CallerHolds(c)
  BY DEF Inv
<1>2. CASE UNCHANGED runs
  BY <1>2 DEF NothingDone, Unsuccessful
<1>3. ASSUME NEW i \in Inputs, NEW b \in BOOLEAN, NewRun(i, b)
      PROVE  NothingDone
  BY <1>1, <1>3, NewRunAppends DEF NothingDone, Unsuccessful, TypeOK
<1>4. CASE pc[c] = "cancel" /\ Cancelled(run[c])
  <2>1. run[c] \in DOMAIN runs
    BY <1>1, <1>4 DEF CallerHolds, RunHeld, Watching
  <2>2. UNCHANGED runs \/ Changes(run[c], "Cancelled") \/ Changes(run[c], "Cancelling")
    BY <1>1, <1>4, <2>1, CancelledChanges DEF TypeOK
  <2>3. runs[run[c]] \in FlowRuns
    BY <1>1, <2>1, RunsTyped DEF TypeOK
  <2> QED BY <1>2, <2>1, <2>2, <2>3 DEF Changes, NothingDone, Unsuccessful, FlowRuns
<1>5. \/ UNCHANGED runs
      \/ \E i \in Inputs, b \in BOOLEAN : NewRun(i, b)
      \/ pc[c] = "cancel" /\ Cancelled(run[c])
  <2>1. \A k \in Calls : k.input \in Inputs /\ k.cancel_on_timeout \in BOOLEAN
    BY DEF Calls
  <2>2. CASE \E i \in Inputs : Run(c, i)
    BY <2>2 DEF Run
  <2>3. CASE \E k \in Calls : CreateRun(c, k) \/ CreateFails(c, k)
    BY <2>1, <2>3 DEF CreateRun, CreateFails
  <2> QED
    BY <2>2, <2>3
    DEF CallerStep, Proceed, OpenResult, RequestFails, Exit, WatchEnds, WatchTimesOut,
        CancelRun, ViewRun, CollectTasks, CollectFails, ParseResults, LoadResult
<1> QED BY <1>2, <1>3, <1>4, <1>5

\* The agent ends a task of a run that goes on; the one step that makes a task succeed
\* is TaskSucceeds.
LEMMA TaskDone ==
  ASSUME TypeOK, NEW r \in DOMAIN runs, NEW t \in Tasks, TaskStep(r, t)
  PROVE  /\ State(r) \notin Finished
         /\ \/ NothingDone
            \/ /\ Unsuccessful(r)' = Unsuccessful(r) \ {t}
               /\ \A q \in DOMAIN runs \ {r} : Unsuccessful(q)' = Unsuccessful(q)
<1>1. /\ runs[r] \in FlowRuns /\ runs[r].tasks \in [Tasks -> TaskStates]
      /\ runs[r].retries \in 0..MaxRetries
  BY RunsTyped DEF TypeOK
<1>2. State(r) \notin Finished
  BY DEF TaskStep, StartTask, InsertResult, TaskSucceeds, TaskFails, RetryTask, Finished
<1>3. PICK s \in TaskStates, n \in 0..MaxRetries :
        /\ ChangesTask(r, t, s, n)
        /\ s = "Success" \/ runs[r].tasks[t] # "Success"
  <2>1. CASE RetryTask(r, t)
    <3> DEFINE n == runs[r].retries + 1
    <3>1. n \in 0..MaxRetries /\ runs[r].tasks[t] = "Failed"
      BY <1>1, <2>1, FlowConstants DEF RetryTask
    <3>2. runs' = [runs EXCEPT ![r] = [runs[r] EXCEPT !.tasks[t] = "Pending", !.retries = n]]
      BY <1>1, <2>1 DEF RetryTask, FlowRuns
    <3> HIDE DEF n
    <3>3. ChangesTask(r, t, "Pending", n)
      BY <3>1, <3>2, TaskChanges DEF TypeOK, TaskStates
    <3> QED BY <3>1, <3>3 DEF TaskStates
  <2>2. CASE ~ RetryTask(r, t)
    <3>1. PICK s \in TaskStates :
            /\ SetTask(r, t, s)
            /\ s = "Success" \/ runs[r].tasks[t] # "Success"
      <4>1. CASE TaskSucceeds(r, t)
        BY <4>1 DEF TaskSucceeds, TaskStates
      <4> QED
        BY <2>2, <4>1
        DEF TaskStep, StartTask, InsertResult, TaskFails, TaskStates
    <3> QED BY <1>1, <3>1, SetTaskChanges DEF TypeOK
  <2> QED BY <2>1, <2>2
<1>4. /\ runs'[r].tasks = [runs[r].tasks EXCEPT ![t] = s]
      /\ \A q \in DOMAIN runs \ {r} : runs'[q] = runs[q]
  BY <1>1, <1>3 DEF ChangesTask, FlowRuns
<1>5. \A q \in DOMAIN runs \ {r} : Unsuccessful(q)' = Unsuccessful(q)
  BY <1>4 DEF Unsuccessful
<1>6. CASE s = "Success"
  BY <1>1, <1>2, <1>4, <1>5, <1>6 DEF Unsuccessful
<1>7. CASE s # "Success"
  <2>1. Unsuccessful(r)' = Unsuccessful(r)
    BY <1>1, <1>3, <1>4, <1>7 DEF Unsuccessful
  <2> QED BY <1>2, <1>5, <2>1 DEF NothingDone
<1> QED BY <1>6, <1>7

LEMMA RunStepDoes ==
  ASSUME TypeOK, NEW r \in DOMAIN runs, RunStep(r)
  PROVE  \/ NothingDone
         \/ \E t \in Tasks :
              /\ State(r) \notin Finished
              /\ Unsuccessful(r)' = Unsuccessful(r) \ {t}
              /\ \A q \in DOMAIN runs \ {r} : Unsuccessful(q)' = Unsuccessful(q)
<1>1. CASE \E t \in Tasks : TaskStep(r, t)
  BY <1>1, TaskDone
<1>2. CASE ~ \E t \in Tasks : TaskStep(r, t)
  <2>1. UNCHANGED runs \/ \E s \in RunStates : SetState(r, s)
    BY <1>2 DEF RunStep, StartRun, FinishRun, AgentCancels, UserCancels, Cancelled, RunStates
  <2>2. UNCHANGED runs \/ \E s \in RunStates : Changes(r, s)
    BY <2>1, SetStateChanges DEF TypeOK
  <2>3. runs[r] \in FlowRuns
    BY RunsTyped DEF TypeOK
  <2> QED BY <2>2, <2>3 DEF Changes, NothingDone, Unsuccessful, FlowRuns
<1> QED BY <1>1, <1>2
LEMMA ReadingInit == Init => Reading
BY DEF Init, Reading, Unread, Kept, OwnRuns, Calling, NoResults

\* What has been read of a run holds still while others move.
LEMMA OthersRead ==
  ASSUME Grows, NEW c \in Callers, Unread(c), Kept(c),
         run'[c] = run[c], pc'[c] = pc[c], results'[c] = results[c]
  PROVE  Unread(c)' /\ Kept(c)'
BY DEF Grows, Unread, Kept, State

\* The caller that moves keeps what it has read, and takes nobody else's run.
LEMMA CallerReads ==
  ASSUME Inv, Reading, NEW c \in Callers, CallerStep(c)
  PROVE  /\ Unread(c)' /\ Kept(c)'
         /\ Calling(c)' => \A d \in Callers \ {c} : Calling(d) => run'[c] # run[d]
<1>0. Grows /\ Unread(c) /\ Kept(c) /\ CallerHolds(c) /\ TypeOK
  BY CallerStepKeeps DEF Keeps, Inv, Reading
<1>1. ASSUME NEW k \in Calls, CreateRun(c, k)
      PROVE  /\ Unread(c)' /\ Kept(c)'
             /\ \A d \in Callers \ {c} : Calling(d) => run'[c] # run[d]
  <2>1. /\ NewRun(k.input, k.cancel_on_timeout)
        /\ DOMAIN results'[c] = {} /\ run'[c] = Len(runs) + 1
    BY <1>0, <1>1 DEF CreateRun, TypeOK, NoResults
  <2>2. Len(runs) + 1 \notin DOMAIN runs
    BY <1>0 DEF TypeOK
  <2>3. \A d \in Callers : Calling(d) => run[d] \in DOMAIN runs
    BY DEF Inv, CallerHolds, RunHeld, Watching, Calling
  <2> QED BY <2>1, <2>2, <2>3 DEF Unread, Kept
<1>2. CASE Idles(c)
  BY <1>2 DEF Idles, Unread, Kept, Calling
<1>3. CASE Stays(c)
  <2>1. \A d \in Callers \ {c} : Calling(c)' /\ Calling(d) => run'[c] # run[d]
    BY <1>3 DEF Stays, Reading, OwnRuns
  <2>2. Unread(c)'
    BY <1>0, <1>3 DEF Stays, Unread, Calling
  <2>3. Kept(c)'
    BY <1>0, <1>3 DEF Stays, Kept, Grows, State
  <2> QED BY <2>1, <2>2, <2>3
<1>4. CASE Reads(c)
  <2>1. Calling(c) /\ run'[c] = run[c] /\ UNCHANGED runs
    BY <1>4 DEF Reads, Calling
  <2>2. run[c] \in DOMAIN runs /\ State(run[c]) \in Finished
    BY <1>0, <1>4 DEF Reads, CallerHolds, RunHeld, FinishedSeen, Watching
  <2>3. \A d \in Callers \ {c} : Calling(d) => run'[c] # run[d]
    BY <2>1 DEF Reading, OwnRuns
  <2> QED BY <1>4, <2>1, <2>2, <2>3 DEF Reads, Unread, Kept, State
<1> QED BY <1>1, <1>2, <1>3, <1>4, CallerKinds

LEMMA ReadingStep == Inv /\ Reading /\ [Next]_vars => Reading'
<1> SUFFICES ASSUME Inv, Reading, [Next]_vars PROVE Reading'
  OBVIOUS
<1>1. ASSUME NEW c \in Callers, CallerStep(c) PROVE Reading'
  <2>1. Grows /\ Alone(c)
    BY <1>1, CallerStepKeeps DEF Keeps
  <2>2. \A d \in Callers \ {c} : Unread(d)' /\ Kept(d)'
    BY <2>1, OthersRead DEF Alone, Reading
  <2>3. /\ Unread(c)' /\ Kept(c)'
        /\ Calling(c)' => \A d \in Callers \ {c} : Calling(d) => run'[c] # run[d]
    BY <1>1, CallerReads
  <2>4. \A d \in Callers \ {c} : run'[d] = run[d] /\ Calling(d)' = Calling(d)
    BY <2>1 DEF Alone, Calling
  <2>5. OwnRuns'
    BY <2>3, <2>4 DEF Reading, OwnRuns
  <2> QED BY <2>2, <2>3, <2>5 DEF Reading
<1>2. CASE Grows /\ UNCHANGED callers
  <2>1. \A c \in Callers : Unread(c)' /\ Kept(c)'
    BY <1>2, OthersRead DEF Reading, callers
  <2>2. OwnRuns'
    BY <1>2 DEF Reading, OwnRuns, Calling, callers
  <2> QED BY <2>1, <2>2 DEF Reading
<1>3. CASE UNCHANGED vars
  BY <1>2, <1>3, StillGrows DEF Inv, vars
<1> QED BY <1>1, <1>2, <1>3, NextCases, RunStepKeeps DEF Inv

\* The state of Backend as that of FlowRun shows it, and its steps in these terms.
Answered(c) == IF Calling(c) THEN {} ELSE DOMAIN results[c]

stateBar     == [c \in Callers |-> Phase(c)]
namedBar     == [c \in Callers |-> NamedTasks(c)]
succeededBar == [c \in Callers |-> SucceededTasks(c)]
answeredBar  == [c \in Callers |-> Answered(c)]
bars         == <<stateBar, namedBar, succeededBar, answeredBar>>

BackendCalls(c, tasks) ==
  /\ stateBar[c] # "running"
  /\ stateBar' = [stateBar EXCEPT ![c] = "running"]
  /\ namedBar' = [namedBar EXCEPT ![c] = tasks]
  /\ succeededBar' = [succeededBar EXCEPT ![c] = {}]
  /\ answeredBar' = [answeredBar EXCEPT ![c] = {}]

BackendSucceeds(c, task) ==
  /\ stateBar[c] = "running"
  /\ succeededBar' = [succeededBar EXCEPT ![c] = succeededBar[c] \cup {task}]
  /\ UNCHANGED <<stateBar, namedBar, answeredBar>>

BackendReturns(c) ==
  /\ stateBar[c] = "running"
  /\ ReferenceTasks \subseteq succeededBar[c]
  /\ namedBar[c] \subseteq succeededBar[c]
  /\ answeredBar' =
       [answeredBar EXCEPT ![c] = IF namedBar[c] = {} THEN Tasks ELSE namedBar[c]]
  /\ stateBar' = [stateBar EXCEPT ![c] = "returned"]
  /\ UNCHANGED <<namedBar, succeededBar>>

BackendLeaves(c) ==
  /\ stateBar' = [stateBar EXCEPT ![c] = "idle"]
  /\ namedBar' = [namedBar EXCEPT ![c] = {}]
  /\ succeededBar' = [succeededBar EXCEPT ![c] = {}]
  /\ answeredBar' = [answeredBar EXCEPT ![c] = {}]

BackendStep ==
  \/ \E c \in Callers :
       \/ \E tasks \in SUBSET Tasks : BackendCalls(c, tasks)
       \/ \E task \in Tasks : BackendSucceeds(c, task)
       \/ BackendReturns(c)
       \/ BackendLeaves(c)
  \/ UNCHANGED bars

\* Backend sees no change of a caller.
Same(c) ==
  /\ Phase(c)' = Phase(c) /\ NamedTasks(c)' = NamedTasks(c)
  /\ SucceededTasks(c)' = SucceededTasks(c) /\ Answered(c)' = Answered(c)

LEMMA OfOne ==
  ASSUME NEW c \in Callers, \A d \in Callers \ {c} : Same(d)
  PROVE  /\ stateBar' = [stateBar EXCEPT ![c] = Phase(c)']
         /\ namedBar' = [namedBar EXCEPT ![c] = NamedTasks(c)']
         /\ succeededBar' = [succeededBar EXCEPT ![c] = SucceededTasks(c)']
         /\ answeredBar' = [answeredBar EXCEPT ![c] = Answered(c)']
BY DEF stateBar, namedBar, succeededBar, answeredBar, Same

LEMMA OfNone ==
  ASSUME \A c \in Callers : Same(c)
  PROVE  UNCHANGED bars
BY DEF stateBar, namedBar, succeededBar, answeredBar, bars, Same

LEMMA OfIdle ==
  ASSUME NEW c \in Callers, \A d \in Callers \ {c} : Same(d), Phase(c)' = "idle"
  PROVE  BackendLeaves(c)
<1>1. NamedTasks(c)' = {} /\ SucceededTasks(c)' = {} /\ Answered(c)' = {}
  BY DEF NamedTasks, SucceededTasks, Answered, Phase
<1> QED BY <1>1, OfOne DEF BackendLeaves

\* A caller of which Backend sees something holds a run of the server.
LEMMA HasRun ==
  ASSUME Inv, Reading, NEW c \in Callers, Phase(c) # "idle"
  PROVE  run[c] \in DOMAIN runs
BY DEF Inv, Reading, CallerHolds, RunHeld, Watching, Kept, Phase, Calling

LEMMA StaysSame ==
  ASSUME Inv, Reading, NEW c \in Callers,
         call'[c] = call[c], run'[c] = run[c], results'[c] = results[c],
         Calling(c)' <=> Calling(c),
         Phase(c) # "idle" => Unsuccessful(run[c])' = Unsuccessful(run[c])
  PROVE  Same(c)
<1>1. Phase(c)' = Phase(c) /\ Answered(c)' = Answered(c)
  BY DEF Phase, Answered
<1> QED BY <1>1 DEF Same, NamedTasks, SucceededTasks
LEMMA CreateCalls ==
  ASSUME TypeOK, NEW c \in Callers, \A d \in Callers \ {c} : Same(d),
         NEW k \in Calls, CreateRun(c, k)
  PROVE  BackendStep
<1>1. /\ pc[c] = "idle" /\ pc'[c] = "watch" /\ call'[c] = k /\ run'[c] = Len(runs) + 1
      /\ NewRun(k.input, k.cancel_on_timeout)
  BY DEF CreateRun, Goto, TypeOK
<1>2. k.task_name \in TaskNames \cup {None} /\ k.input \in Inputs
      /\ k.cancel_on_timeout \in BOOLEAN
  BY DEF Calls
<1>3. Phase(c)' = "running" /\ Answered(c)' = {} /\ stateBar[c] # "running"
  BY <1>1 DEF Phase, Answered, Calling, stateBar
<1>4. NamedTasks(c)' \in SUBSET Tasks
  BY <1>1, <1>2, FlowConstants DEF NamedTasks
<1>5. SucceededTasks(c)' = {}
  <2>1. runs'[Len(runs) + 1] = [input |-> k.input, state |-> "Scheduled",
                                 tasks |-> [t \in Tasks |-> "Pending"],
                                 retries |-> 0, stoppable |-> k.cancel_on_timeout]
    BY <1>1, <1>2, NewRunAppends DEF TypeOK
  <2>2. runs'[run'[c]].tasks = [t \in Tasks |-> "Pending"]
    BY <1>1, <2>1
  <2> QED BY <2>2 DEF SucceededTasks, Unsuccessful
<1>6. BackendCalls(c, NamedTasks(c)')
  BY <1>3, <1>5, OfOne DEF BackendCalls
<1> QED BY <1>4, <1>6 DEF BackendStep

\* A call reads only from a run of which all tasks have succeeded, and returns what it
\* was asked for.
LEMMA ReadsReturns ==
  ASSUME Inv, Reading, NEW c \in Callers, \A d \in Callers \ {c} : Same(d), Reads(c)
  PROVE  BackendStep
<1>1. /\ Calling(c) /\ UNCHANGED runs /\ call'[c] = call[c] /\ run'[c] = run[c]
      /\ Unsuccessful(run[c]) = {} /\ DOMAIN results'[c] = Selected(c)
      /\ pc'[c] \in {"parse", "idle"}
  BY DEF Reads, Calling
<1>2. Unsuccessful(run[c])' = Unsuccessful(run[c])
  BY <1>1 DEF Unsuccessful
<1>3. CASE pc'[c] = "parse"
  <2>1. Calling(c)'
    BY <1>3 DEF Calling
  <2>2. Same(c)
    BY <1>1, <1>2, <2>1 DEF Same, Phase, NamedTasks, SucceededTasks, Answered
  <2> QED BY <2>2, OfNone DEF BackendStep
<1>4. CASE pc'[c] = "idle" /\ Selected(c) = {}
  <2>1. Phase(c)' = "idle"
    BY <1>1, <1>4 DEF Phase, Calling
  <2> QED BY <2>1, OfIdle DEF BackendStep
<1>5. CASE pc'[c] = "idle" /\ Selected(c) # {}
  <2>1. ~ Calling(c)' /\ Phase(c)' = "returned" /\ Phase(c) = "running"
    BY <1>1, <1>5 DEF Phase, Calling
  <2>2. NamedTasks(c)' = NamedTasks(c) /\ SucceededTasks(c)' = SucceededTasks(c)
    BY <1>1, <1>2, <2>1 DEF NamedTasks, SucceededTasks
  <2>3. Answered(c)' = IF NamedTasks(c) = {} THEN Tasks ELSE NamedTasks(c)
    BY <1>1, <1>5, <2>1 DEF Answered, NamedTasks, Selected
  <2>4. SucceededTasks(c) = Tasks
    BY <1>1, <2>1 DEF SucceededTasks
  <2>5. NamedTasks(c) \subseteq Tasks /\ ReferenceTasks \subseteq Tasks
    <3>1. call[c] \in Calls
      BY <1>1 DEF Inv, CallerHolds, RunHeld, Watching, Calling
    <3> QED BY <3>1, FlowConstants DEF NamedTasks, Calls
  <2>6. UNCHANGED <<namedBar, succeededBar>>
    BY <2>2 DEF namedBar, succeededBar, Same
  <2>7. BackendReturns(c)
    BY <2>1, <2>3, <2>4, <2>5, <2>6, OfOne
    DEF BackendReturns, stateBar, namedBar, succeededBar
  <2> QED BY <2>7 DEF BackendStep
<1> QED BY <1>1, <1>3, <1>4, <1>5

LEMMA CallerIsBackend ==
  ASSUME Inv, Reading, NEW c \in Callers, CallerStep(c)
  PROVE  BackendStep
<1>1. Alone(c) /\ NothingDone
  BY CallerStepKeeps, CallerDoesNoTask DEF Keeps
<1>2. \A d \in Callers : Phase(d) # "idle" =>
        Unsuccessful(run[d])' = Unsuccessful(run[d]) \/ run'[d] # run[d]
  BY <1>1, HasRun DEF NothingDone, Unsuccessful
<1>3. \A d \in Callers \ {c} : Same(d)
  BY <1>1, <1>2, StaysSame DEF Alone, Calling
<1>4. CASE \E k \in Calls : CreateRun(c, k)
  BY <1>3, <1>4, CreateCalls DEF Inv
<1>5. CASE Idles(c)
  <2>1. Phase(c)' = "idle"
    BY <1>5 DEF Idles, Phase, Calling
  <2> QED BY <1>3, <2>1, OfIdle DEF BackendStep
<1>6. CASE Stays(c)
  <2>1. Same(c)
    BY <1>2, <1>6, StaysSame DEF Stays
  <2> QED BY <1>3, <2>1, OfNone DEF BackendStep
<1>7. CASE Reads(c)
  BY <1>3, <1>7, ReadsReturns
<1> QED BY <1>4, <1>5, <1>6, <1>7, CallerKinds

\* A task that succeeds does so for the one call in progress of its run, or for none.
LEMMA RunStepIsBackend ==
  ASSUME Inv, Reading, NEW r \in DOMAIN runs, RunStep(r)
  PROVE  BackendStep
<1>1. UNCHANGED <<call, run, pc, results>> /\ TypeOK
  BY RunStepKeeps DEF Inv, callers
<1>2. \A c \in Callers : Calling(c)' <=> Calling(c)
  BY <1>1 DEF Calling
<1>3. CASE NothingDone
  <2>1. \A c \in Callers : Phase(c) # "idle" => Unsuccessful(run[c])' = Unsuccessful(run[c])
    BY <1>1, <1>3, HasRun DEF NothingDone, Unsuccessful
  <2>2. \A c \in Callers : Same(c)
    BY <1>1, <1>2, <2>1, StaysSame
  <2> QED BY <2>2, OfNone DEF BackendStep
<1>4. ASSUME NEW t \in Tasks,
             State(r) \notin Finished,
             Unsuccessful(r)' = Unsuccessful(r) \ {t},
             \A q \in DOMAIN runs \ {r} : Unsuccessful(q)' = Unsuccessful(q)
      PROVE  BackendStep
  <2>1. \A c \in Callers : Phase(c) # "idle" /\ run[c] # r =>
          Unsuccessful(run[c])' = Unsuccessful(run[c])
    BY <1>1, <1>4, HasRun DEF Unsuccessful
  <2>2. \A c \in Callers : ~ (Calling(c) /\ run[c] = r) => Same(c)
    <3> SUFFICES ASSUME NEW c \in Callers, ~ (Calling(c) /\ run[c] = r) PROVE Same(c)
      OBVIOUS
    <3>1. CASE Phase(c) # "idle" /\ run[c] = r
      BY <1>4, <3>1 DEF Phase, Reading, Kept
    <3>2. CASE ~ (Phase(c) # "idle" /\ run[c] = r)
      BY <1>1, <1>2, <2>1, <3>2, StaysSame
    <3> QED BY <3>1, <3>2
  <2>3. CASE \E c \in Callers : Calling(c) /\ run[c] = r
    <3>1. PICK c \in Callers : Calling(c) /\ run[c] = r
      BY <2>3
    <3>2. \A d \in Callers \ {c} : Same(d)
      BY <2>2, <3>1 DEF Reading, OwnRuns
    <3>3. /\ Phase(c) = "running" /\ Phase(c)' = Phase(c) /\ Answered(c)' = Answered(c)
          /\ NamedTasks(c)' = NamedTasks(c)
      BY <1>1, <1>2, <3>1 DEF Phase, Answered, NamedTasks
    <3>4. Unsuccessful(run[c])' = Unsuccessful(run[c]) \ {t}
      BY <1>1, <1>4, <3>1 DEF Unsuccessful
    <3>5. SucceededTasks(c)' = SucceededTasks(c) \cup {t}
      BY <3>3, <3>4 DEF SucceededTasks
    <3>6. /\ UNCHANGED <<stateBar, namedBar, answeredBar>>
      BY <3>2, <3>3 DEF Same, stateBar, namedBar, answeredBar
    <3>7. BackendSucceeds(c, t)
      BY <3>2, <3>3, <3>5, <3>6, OfOne DEF BackendSucceeds, stateBar, succeededBar
    <3> QED BY <3>7 DEF BackendStep
  <2>4. CASE ~ \E c \in Callers : Calling(c) /\ run[c] = r
    BY <2>2, <2>4, OfNone DEF BackendStep
  <2> QED BY <2>3, <2>4
<1> QED BY <1>1, <1>3, <1>4, RunStepDoes

\* run_and_return of the server backend does what Backend promises of any backend
\* (backends/backend.py:116-145, backends/server.py:273-409), for any number of callers,
\* tasks and runs: a call returns results of tasks that succeeded in the run that it
\* created, although it reads the state, the tasks and the results of the run in requests
\* of their own, while agents, people and other callers go on.
THEOREM ServerImplementsBackend == Spec => ImplementsBackend
<1>1. Init => Abstract!Init
  <2> SUFFICES ASSUME Init PROVE Abstract!Init
    OBVIOUS
  <2>1. \A c \in Callers : pc[c] = "idle" /\ DOMAIN results[c] = {}
    BY DEF Init, NoResults
  <2>2. \A c \in Callers : ~ Calling(c) /\ Phase(c) = "idle"
    BY <2>1 DEF Calling, Phase
  <2> QED BY <2>1, <2>2 DEF Abstract!Init, NamedTasks, SucceededTasks
<1>2. Inv /\ Reading /\ [Next]_vars => [Abstract!Next]_(Abstract!vars)
  <2> SUFFICES ASSUME Inv, Reading, [Next]_vars PROVE [Abstract!Next]_(Abstract!vars)
    OBVIOUS
  <2>1. CASE UNCHANGED vars
    BY <2>1
    DEF vars, callers, Abstract!vars, Phase, NamedTasks, SucceededTasks, Calling, Unsuccessful
  <2>2. CASE Next
    <3>1. BackendStep
      BY <2>2, NextCases, CallerIsBackend, RunStepIsBackend
    <3> QED
      BY <3>1
      DEF BackendStep, BackendCalls, BackendLeaves, BackendSucceeds, BackendReturns, bars,
          stateBar, namedBar, succeededBar, answeredBar, Answered,
          Abstract!Next, Abstract!vars, Abstract!Call, Abstract!TaskSucceeds,
          Abstract!Return, Abstract!Leave
  <2> QED BY <2>1, <2>2
<1>3. Spec => [](Inv /\ Reading)
  BY InvInit, ReadingInit, InvStep, ReadingStep, PTL DEF Spec
<1> QED BY <1>1, <1>2, <1>3, PTL DEF Spec, ImplementsBackend, Abstract!Spec
=============================================================================
