----------------------- MODULE ComposeServicesProofs -----------------------
(***************************************************************************)
(* Theorems about ComposeServices, for any number of callers, services,    *)
(* checks, sessions, rounds and faults.                                    *)
(***************************************************************************)
EXTENDS ComposeServices, SequenceTheorems, TLAPS

(***************************************************************************)
(* Types, and what a caller that cleans up has left to run.                 *)
(***************************************************************************)

Both == <<"down -v", "rm --stop --force">>
Rest == <<"rm --stop --force">>
Stop == <<"stop">>

LEMMA TailOfTwo ==
  ASSUME NEW S, NEW s \in Seq(S), NEW t \in Seq(S), Len(s) = 2, Len(t) = 1, t[1] = s[2]
  PROVE  Tail(s) = t
<1>1. s # <<>>
  OBVIOUS
<1>2. Tail(s) \in Seq(S) /\ Len(Tail(s)) = 1 /\ Tail(s)[1] = t[1]
  BY <1>1, HeadTailProperties
<1>3. ASSUME NEW u \in Seq(S), Len(u) = 1, u[1] = t[1]
      PROVE  u = t
  BY <1>3, SeqEqual
<1> QED
  BY <1>2, <1>3, Zenon

\* The lists of commands are consumed from the front.
LEMMA CommandLists ==
  /\ Both \in Seq(Commands) /\ Rest \in Seq(Commands) /\ Stop \in Seq(Commands)
  /\ Head(Both) = "down -v" /\ Tail(Both) = Rest
  /\ Head(Rest) = "rm --stop --force" /\ Tail(Rest) = <<>>
  /\ Head(Stop) = "stop" /\ Tail(Stop) = <<>>
  /\ Rest # <<>>
  /\ Both # Rest /\ Both # Stop /\ Rest # Stop
<1> USE DEF Both, Rest, Stop, Commands
<1>1. Both \in Seq(Commands) /\ Rest \in Seq(Commands) /\ Stop \in Seq(Commands)
  OBVIOUS
<1>2. Len(Both) = 2 /\ Len(Rest) = 1 /\ Len(Stop) = 1 /\ Len(<<>>) = 0
  OBVIOUS
<1>3. Both[1] = "down -v" /\ Both[2] = "rm --stop --force" /\ Rest[1] = "rm --stop --force"
      /\ Stop[1] = "stop"
  OBVIOUS
<1>4. Head(Both) = "down -v" /\ Head(Rest) = "rm --stop --force" /\ Head(Stop) = "stop"
  OBVIOUS
<1>5. Tail(Both) = Rest
  <2> HIDE DEF Both, Rest
  <2> QED
    BY <1>1, <1>2, <1>3, TailOfTwo
<1>6. Tail(Rest) = <<>> /\ Tail(Stop) = <<>>
  OBVIOUS
<1>7. Rest # <<>> /\ Both # Rest /\ Both # Stop /\ Rest # Stop
  BY <1>2, <1>3
<1> QED
  BY <1>1, <1>4, <1>5, <1>6, <1>7

LEMMA CommandsOfPersist ==
  CleanupCommands(TRUE) = Stop /\ CleanupCommands(FALSE) = Both
BY DEF CleanupCommands, Stop, Both

\* A caller in a clean-up has a command to run; one that is to persist and whose body
\* has not raised only has "stop".
CleansUp(r) ==
  r.pc = "cleanup" =>
    \/ r.block = "except" /\ r.raised /\ r.commands \in {Both, Rest}
    \/ r.block = "finally" /\ r.persist /\ r.commands = Stop
    \/ r.block = "finally" /\ ~ r.persist /\ r.commands \in {Both, Rest}

Base ==
  /\ TypeOK
  /\ \A c \in Callers :
       /\ CleansUp(call[c])
       /\ call[c].pc # "off" => sessions[c] > 0

\* The clean-up blocks as records.
LEMMA FinallyType ==
  ASSUME NEW r \in Calls
  PROVE  /\ Finally(r) = [r EXCEPT !.pc = "cleanup", !.block = "finally",
                            !.commands = IF r.persist THEN Stop ELSE Both, !.missed = {}]
         /\ Finally(r) \in Calls /\ Finally(r).pc = "cleanup"
         /\ Finally(r).block = "finally" /\ Finally(r).commands # Rest
         /\ Finally(r).persist \/ Finally(r).commands = Both
         /\ Finally(r).persist = r.persist /\ Finally(r).raised = r.raised
         /\ CleansUp(Finally(r))
<1>1. Finally(r) = [r EXCEPT !.pc = "cleanup", !.block = "finally",
                      !.commands = IF r.persist THEN Stop ELSE Both, !.missed = {}]
  BY CommandsOfPersist DEF Finally, Cleanup, Calls
<1> QED
  BY <1>1, CommandLists DEF Calls, CleansUp

LEMMA ExceptType ==
  ASSUME NEW r \in Calls
  PROVE  /\ Except(r) = [r EXCEPT !.pc = "cleanup", !.block = "except",
                           !.commands = Both, !.missed = {}, !.raised = TRUE]
         /\ Except(r) \in Calls /\ Except(r).pc = "cleanup"
         /\ Except(r).block = "except" /\ Except(r).raised
         /\ CleansUp(Except(r))
<1>1. Except(r) = [r EXCEPT !.pc = "cleanup", !.block = "except",
                     !.commands = Both, !.missed = {}, !.raised = TRUE]
  BY CommandsOfPersist DEF Except, Cleanup, Calls
<1> QED
  BY <1>1, CommandLists DEF Calls, CleansUp

LEMMA ProceedType ==
  ASSUME NEW r \in Calls, r.pc = "cleanup", CleansUp(r)
  PROVE  /\ Proceed(r) =
              IF r.commands = Both THEN [r EXCEPT !.commands = Rest]
              ELSE IF r.block = "except" THEN Finally(r)
              ELSE [r EXCEPT !.pc = "done", !.commands = <<>>]
         /\ Proceed(r) \in Calls /\ Proceed(r).pc \in {"cleanup", "done"}
         /\ CleansUp(Proceed(r))
         /\ Proceed(r).persist = r.persist /\ Proceed(r).raised = r.raised
<1>1. CASE r.commands = Both
  <2>1. Proceed(r) = [r EXCEPT !.commands = Rest]
    BY <1>1, CommandLists DEF Proceed, Calls
  <2> QED
    BY <1>1, <2>1, CommandLists DEF Calls, CleansUp
<1>2. CASE r.commands # Both /\ r.block = "except"
  <2>1. Tail(r.commands) = <<>>
    BY <1>2, CommandLists DEF CleansUp
  <2>2. Proceed(r) = Finally(r)
    BY <1>2, <2>1 DEF Proceed
  <2> QED
    BY <1>2, <2>2, FinallyType
<1>3. CASE r.commands # Both /\ r.block = "finally"
  <2>1. Tail(r.commands) = <<>>
    BY <1>3, CommandLists DEF CleansUp
  <2>2. Proceed(r) = [r EXCEPT !.pc = "done", !.commands = <<>>]
    BY <1>3, <2>1 DEF Proceed
  <2>3. Proceed(r) \in Calls
    BY <2>2, EmptySeq DEF Calls
  <2> QED
    BY <1>3, <2>2, <2>3 DEF Calls, CleansUp
<1> QED
  BY <1>1, <1>2, <1>3 DEF CleansUp

LEMMA ExecuteType ==
  ASSUME TypeOK, NEW command \in Commands, NEW some \in SUBSET Services,
         Execute(command, some)
  PROVE  /\ containers' \in [Services -> {"absent", "exited", "up", "ready"}]
         /\ stored' \subseteq stored
         /\ Running' \subseteq Running
         /\ some = Services => Running' = {}
         /\ command = "stop" => stored' = stored
         /\ command = "down -v" /\ some = Services => stored' = {}
<1>1. /\ stored' \subseteq stored
      /\ command = "stop" => stored' = stored
      /\ command = "down -v" /\ some = Services => stored' = {}
  BY DEF Execute, Commands, TypeOK
<1>2. \A s \in Services :
         containers'[s] = IF s \notin some \/ containers[s] = "absent" THEN containers[s]
                          ELSE IF command = "stop" THEN "exited" ELSE "absent"
  BY DEF Execute
<1>3. containers' \in [Services -> {"absent", "exited", "up", "ready"}]
  BY DEF Execute, TypeOK
<1>4. Running' \subseteq Running /\ (some = Services => Running' = {})
  BY <1>2, <1>3 DEF Running, TypeOK
<1> QED
  BY <1>1, <1>3, <1>4

\* A step of a caller gives its call another record.
Becomes(c, r) == r \in Calls /\ CleansUp(r) /\ call' = [call EXCEPT ![c] = r]

LEMMA BecomesBase ==
  ASSUME Base, NEW c \in Callers, NEW r, Becomes(c, r), r.pc # "off",
         containers' \in [Services -> {"absent", "exited", "up", "ready"}],
         stored' \subseteq Services,
         sessions' \in [Callers -> 0..MaxSessions],
         sessions' = sessions \/ sessions' = [sessions EXCEPT ![c] = @ + 1],
         sessions'[c] > 0,
         faults' \in 0..MaxFaults
  PROVE  Base'
<1>1. TypeOK'
  BY DEF Base, TypeOK, Becomes
<1>2. ASSUME NEW d \in Callers
      PROVE  CleansUp(call'[d]) /\ (call'[d].pc # "off" => sessions'[d] > 0)
  BY DEF Base, TypeOK, Becomes
<1> QED
  BY <1>1, <1>2 DEF Base, CleansUp

LEMMA ContinueBase ==
  ASSUME Base, NEW c \in Callers, NEW r \in Calls, Continue(c, r), CleansUp(r),
         r.pc # "off", call[c].pc # "off", UNCHANGED faults \/ Fault
  PROVE  Base' /\ Becomes(c, r)
<1>1. Becomes(c, r) /\ UNCHANGED <<containers, stored, sessions>>
  BY DEF Becomes, Continue
<1>2. faults' \in 0..MaxFaults
  BY ComposeConstants DEF Base, TypeOK, Fault
<1> QED
  BY <1>1, <1>2, BecomesBase DEF Base, TypeOK

\* What a caller does up to its clean-up.
LEMMA SessionStep ==
  ASSUME Base, NEW c \in Callers,
         \/ Up(c) \/ Check(c) \/ Responsive(c) \/ NextRound(c)
         \/ UpFails(c) \/ UpInterrupted(c)
         \/ TimesOut(c) \/ BodyReturns(c) \/ BodyRaises(c) \/ Interrupt(c)
  PROVE  /\ Base'
         /\ UNCHANGED <<containers, stored, sessions>>
         /\ call[c].pc \in {"up", "check", "body"}
         /\ \/ \E r \in Calls :
                 /\ Becomes(c, r) /\ r.pc \in {"check", "body"}
                 /\ r.persist = call[c].persist /\ r.raised = call[c].raised
            \/ \E r \in Calls :
                 /\ Becomes(c, r) /\ r.pc = "done" /\ r.cut
                 /\ r.persist = call[c].persist /\ r.raised = call[c].raised
            \/ Becomes(c, Finally(call[c]))
            \/ Becomes(c, Except(call[c]))
<1> call[c] \in Calls
  BY DEF Base, TypeOK
<1> UNCHANGED <<containers, stored, sessions>>
  BY DEF Up, Check, Responsive, NextRound, UpFails, UpInterrupted, TimesOut,
     BodyReturns, BodyRaises, Interrupt, Continue
<1>1. CASE Up(c)
  <2> DEFINE r == [call[c] EXCEPT !.pc = "check"]
  <2>1. r \in Calls /\ CleansUp(r) /\ r.pc = "check"
    BY DEF Calls, CleansUp
  <2> QED
    BY <1>1, <2>1, ContinueBase DEF Up, Calls
<1>2. CASE Check(c)
  <2> DEFINE s == Checks[Len(call[c].answers) + 1]
             r == [call[c] EXCEPT !.answers = Append(@, s \in Asked => s \in Ready)]
  <2>1. (s \in Asked => s \in Ready) \in BOOLEAN
    OBVIOUS
  <2>2. r \in Calls /\ CleansUp(r) /\ r.pc = "check"
    BY <1>2, <2>1, AppendProperties DEF Check, Calls, CleansUp
  <2> QED
    BY <1>2, <2>2, ContinueBase DEF Check, Calls
<1>3. CASE Responsive(c)
  <2> DEFINE r == [call[c] EXCEPT !.pc = "body", !.answers = <<>>]
  <2>1. r \in Calls /\ CleansUp(r) /\ r.pc = "body"
    BY EmptySeq DEF Calls, CleansUp
  <2> QED
    BY <1>3, <2>1, ContinueBase DEF Responsive, RoundEnds, Calls
<1>4. CASE NextRound(c)
  <2> DEFINE r == [call[c] EXCEPT !.answers = <<>>, !.rounds = @ + 1]
  <2>1. call[c].pc = "check" /\ call[c].rounds + 1 \in 0..MaxRounds
    BY <1>4, ComposeConstants DEF NextRound, RoundEnds, Calls
  <2>2. r \in Calls /\ CleansUp(r) /\ r.pc = "check"
    BY <2>1, EmptySeq DEF Calls, CleansUp
  <2> QED
    BY <1>4, <2>2, ContinueBase DEF NextRound, RoundEnds, Calls
<1>5. CASE UpInterrupted(c)
  <2> DEFINE r == [call[c] EXCEPT !.pc = "done", !.cut = TRUE]
  <2>1. r \in Calls /\ CleansUp(r) /\ r.pc = "done" /\ r.cut
    BY DEF Calls, CleansUp
  <2> QED
    BY <1>5, <2>1, ContinueBase DEF UpInterrupted, Calls
<1>6. CASE UpFails(c) \/ BodyReturns(c) \/ Interrupt(c)
  <2> QED
    BY <1>6, FinallyType, ContinueBase DEF UpFails, BodyReturns, Interrupt
<1>7. CASE TimesOut(c) \/ BodyRaises(c)
  <2> QED
    BY <1>7, ExceptType, ContinueBase DEF TimesOut, BodyRaises, RoundEnds
<1> QED
  BY <1>1, <1>2, <1>3, <1>4, <1>5, <1>6, <1>7

LEMMA HeadOfCommands ==
  ASSUME NEW r \in Calls, r.pc = "cleanup", CleansUp(r)
  PROVE  /\ Head(r.commands) \in Commands
         /\ r.persist /\ ~ r.raised => Head(r.commands) = "stop"
         /\ r.commands = Both => Head(r.commands) = "down -v"
BY CommandLists DEF CleansUp, Commands

\* r after a command of its clean-up has failed.
Missed(r) == [r EXCEPT !.missed = @ \cup {Head(r.commands)}]

LEMMA MissedType ==
  ASSUME NEW r \in Calls, r.pc = "cleanup", CleansUp(r)
  PROVE  Missed(r) \in Calls /\ CleansUp(Missed(r)) /\ Missed(r).pc = "cleanup"
BY HeadOfCommands DEF Missed, Calls, CleansUp

CutOff(r) == [r EXCEPT !.pc = "done", !.commands = <<>>, !.cut = TRUE]

\* What a caller does in its clean-up: a command gets as far as some of the services.
CleanupMove(c, some) ==
  LET r == call[c] IN
  \/ some = Services /\ Becomes(c, Proceed(r))
  \/ Becomes(c, Proceed(Missed(r)))
  \/ r.block = "except" /\ Becomes(c, Finally(r))
  \/ Becomes(c, CutOff(r))

LEMMA CleanupStep ==
  ASSUME Base, NEW c \in Callers,
         Command(c) \/ CommandFails(c) \/ CommandInterrupted(c)
  PROVE  /\ Base'
         /\ UNCHANGED sessions
         /\ call[c].pc = "cleanup"
         /\ \E some \in SUBSET Services :
              Execute(Head(call[c].commands), some) /\ CleanupMove(c, some)
<1> DEFINE r == call[c]
<1>1. r \in Calls /\ CleansUp(r) /\ r.pc = "cleanup"
  BY DEF Base, TypeOK, Command, CommandFails, CommandInterrupted
<1>2. Head(r.commands) \in Commands
  BY <1>1, HeadOfCommands
<1>3. sessions[c] > 0 /\ UNCHANGED sessions
  BY <1>1 DEF Base, Command, CommandFails, CommandInterrupted
<1>4. faults' \in 0..MaxFaults
  BY ComposeConstants DEF Base, TypeOK, Command, CommandFails, CommandInterrupted, Fault
<1>5. PICK some \in SUBSET Services : Execute(Head(r.commands), some) /\ CleanupMove(c, some)
  <2>1. CASE Command(c)
    <3>1. Becomes(c, Proceed(r)) /\ Execute(Head(r.commands), Services)
      BY <1>1, <2>1, ProceedType DEF Command, Becomes, Base, TypeOK
    <3> QED
      BY <3>1 DEF CleanupMove
  <2>2. CASE CommandFails(c)
    <3>1. call' = [call EXCEPT ![c] = Proceed(Missed(r))]
      BY <2>2 DEF CommandFails, Missed
    <3>2. Becomes(c, Proceed(Missed(r)))
      BY <1>1, <3>1, MissedType, ProceedType DEF Becomes
    <3> QED
      BY <2>2, <3>2 DEF CommandFails, CleanupMove
  <2>3. CASE CommandInterrupted(c)
    <3>1. CutOff(r) \in Calls /\ CleansUp(CutOff(r))
      BY <1>1, EmptySeq DEF CutOff, Calls, CleansUp
    <3>2. \/ r.block = "except" /\ Becomes(c, Finally(r))
          \/ Becomes(c, CutOff(r))
      BY <1>1, <2>3, <3>1, FinallyType DEF CommandInterrupted, Becomes, CutOff, Base, TypeOK
    <3> QED
      BY <2>3, <3>2 DEF CommandInterrupted, CleanupMove
  <2> QED
    BY <2>1, <2>2, <2>3
<1>6. /\ containers' \in [Services -> {"absent", "exited", "up", "ready"}]
      /\ stored' \subseteq Services
  BY <1>2, <1>5, ExecuteType DEF Base, TypeOK
<1>7. PICK q : Becomes(c, q) /\ q.pc \in {"cleanup", "done"}
  <2>1. Proceed(r).pc \in {"cleanup", "done"}
    BY <1>1, ProceedType
  <2>2. Proceed(Missed(r)).pc \in {"cleanup", "done"}
    BY <1>1, MissedType, ProceedType
  <2>3. Finally(r).pc = "cleanup" /\ CutOff(r).pc = "done"
    BY <1>1, FinallyType DEF CutOff, Calls
  <2> QED
    BY <1>5, <2>1, <2>2, <2>3 DEF CleanupMove
<1>8. Base'
  BY <1>3, <1>4, <1>6, <1>7, BecomesBase DEF Base, TypeOK
<1> QED
  BY <1>1, <1>3, <1>5, <1>8

LEMMA EnterStep ==
  ASSUME Base, NEW c \in Callers, NEW persist \in BOOLEAN, Enter(c, persist)
  PROVE  /\ Base'
         /\ Idle(c)
         /\ UNCHANGED <<containers, stored>>
         /\ \E r \in Calls : Becomes(c, r) /\ r.pc = "up" /\ ~ r.raised
<1> DEFINE r == Session("up", persist)
<1>1. r \in Calls /\ CleansUp(r) /\ r.pc = "up" /\ ~ r.raised
  BY EmptySeq, ComposeConstants DEF Session, Calls, CleansUp
<1>2. Becomes(c, r)
  BY <1>1 DEF Enter, Becomes
<1>3. sessions' \in [Callers -> 0..MaxSessions] /\ sessions'[c] > 0
  BY ComposeConstants DEF Enter, Base, TypeOK
<1>4. Base'
  BY <1>1, <1>2, <1>3, BecomesBase DEF Enter, Base, TypeOK
<1> QED
  BY <1>1, <1>2, <1>4 DEF Enter

\* The steps that no call takes part in, and those of a body.
LEMMA EnvironmentStep ==
  ASSUME Base,
         \/ \E c \in Callers, s \in Services : StartContainer(c, s)
         \/ \E s \in Services : BecomeReady(s) \/ Crash(s)
         \/ \E c \in Callers : Write(c)
         \/ UNCHANGED vars
  PROVE  /\ Base'
         /\ UNCHANGED <<call, sessions>>
         /\ Running' \subseteq Running \/ \E c \in Callers : call[c].pc = "up"
         /\ stored \subseteq stored'
         /\ stored' = stored \/ \E c \in Callers : call[c].pc = "body"
<1>1. UNCHANGED <<call, sessions>> /\ stored \subseteq stored'
  BY DEF StartContainer, BecomeReady, Crash, Write, vars
<1>2. stored' = stored \/ \E c \in Callers : call[c].pc = "body"
  BY DEF StartContainer, BecomeReady, Crash, Write, vars
<1>3. Running' \subseteq Running \/ \E c \in Callers : call[c].pc = "up"
  BY DEF StartContainer, BecomeReady, Crash, Write, vars, Running, Base, TypeOK
<1>4. /\ containers' \in [Services -> {"absent", "exited", "up", "ready"}]
      /\ stored' \subseteq Services
      /\ faults' \in 0..MaxFaults
  BY ComposeConstants DEF StartContainer, BecomeReady, Crash, Write, Ready, Fault, vars,
     Base, TypeOK
<1>5. Base'
  BY <1>1, <1>4 DEF Base, TypeOK, CleansUp
<1> QED
  BY <1>1, <1>2, <1>3, <1>5

\* Every step is one of these four kinds.
LEMMA StepKinds ==
  ASSUME [Next]_vars
  PROVE  \/ \E c \in Callers, persist \in BOOLEAN : Enter(c, persist)
         \/ \E c \in Callers :
              \/ Up(c) \/ Check(c) \/ Responsive(c) \/ NextRound(c)
              \/ UpFails(c) \/ UpInterrupted(c)
              \/ TimesOut(c) \/ BodyReturns(c) \/ BodyRaises(c) \/ Interrupt(c)
         \/ \E c \in Callers : Command(c) \/ CommandFails(c) \/ CommandInterrupted(c)
         \/ \/ \E c \in Callers, s \in Services : StartContainer(c, s)
            \/ \E s \in Services : BecomeReady(s) \/ Crash(s)
            \/ \E c \in Callers : Write(c)
            \/ UNCHANGED vars
BY DEF Next, Run

LEMMA BaseInvariant == Spec => []Base
<1>1. Init => Base
  BY EmptySeq, ComposeConstants DEF Init, Base, TypeOK, Session, Calls, CleansUp
<1>2. Base /\ [Next]_vars => Base'
  BY StepKinds, EnterStep, SessionStep, CleanupStep, EnvironmentStep
<1> QED
  BY <1>1, <1>2, PTL DEF Spec

\* Every reachable state is well typed: the faults of a run are bounded although each
\* command of a clean-up may fail, and a clean-up never runs out of its list.
THEOREM TypeCorrect == Spec => []TypeOK
BY BaseInvariant, PTL DEF Base

(***************************************************************************)
(* What is left running.                                                    *)
(***************************************************************************)

Kinds(persist) == IF persist THEN {"stop"} ELSE {"down -v", "rm --stop --force"}

\* A call that is still going to stop the containers, or that has been kept from it:
\* by KeyboardInterrupt, or because all the commands of its last block failed.
Stops(r) ==
  \/ r.pc \in {"up", "check", "body"}
  \/ /\ r.pc = "cleanup"
     /\ r.block = "finally" /\ r.commands = Rest => "down -v" \in r.missed
  \/ r.pc = "done" /\ Kinds(r.persist) \subseteq r.missed
  \/ r.cut

StopsAll == Running # {} => \E c \in Callers : Stops(call[c])

LEMMA StopsAfter ==
  ASSUME NEW r \in Calls, r.pc = "cleanup", CleansUp(r)
  PROVE  /\ Stops(Finally(r))
         /\ Stops(CutOff(r))
         /\ Stops(r) => Stops(Proceed(Missed(r)))
<1>1. Stops(Finally(r))
  BY FinallyType DEF Stops
<1>2. Stops(CutOff(r))
  BY DEF Stops, CutOff, Calls
<1>3. ASSUME Stops(r)
      PROVE  Stops(Proceed(Missed(r)))
  <2> DEFINE m == Missed(r)
  <2>1. /\ m \in Calls /\ CleansUp(m) /\ m.pc = "cleanup"
        /\ m.commands = r.commands /\ m.block = r.block /\ m.persist = r.persist
        /\ m.cut = r.cut /\ m.missed = r.missed \cup {Head(r.commands)}
    BY MissedType DEF Missed, Calls
  <2>2. CASE r.commands = Both
    <3>1. Proceed(m) = [m EXCEPT !.commands = Rest]
      BY <2>1, <2>2, ProceedType
    <3>2. "down -v" \in m.missed
      BY <2>1, <2>2, CommandLists
    <3> QED
      BY <2>1, <3>1, <3>2 DEF Stops, Calls
  <2>3. CASE r.commands # Both /\ r.block = "except"
    <3>1. Proceed(m) = Finally(m)
      BY <2>1, <2>3, ProceedType
    <3> QED
      BY <2>1, <3>1, FinallyType DEF Stops
  <2>4. CASE r.commands # Both /\ r.block = "finally"
    <3>1. Proceed(m) = [m EXCEPT !.pc = "done", !.commands = <<>>]
      BY <2>1, <2>4, ProceedType
    <3>2. m.cut \/ Kinds(m.persist) \subseteq m.missed
      BY <1>3, <2>1, <2>4, CommandLists DEF Stops, CleansUp, Kinds
    <3> QED
      BY <2>1, <3>1, <3>2 DEF Stops, Calls
  <2> QED
    BY <2>2, <2>3, <2>4 DEF CleansUp
<1> QED
  BY <1>1, <1>2, <1>3

\* What another caller is doing is not changed by a step of c.
LEMMA OthersKept ==
  ASSUME Base, NEW c \in Callers, NEW r, Becomes(c, r)
  PROVE  call'[c] = r /\ \A d \in Callers \ {c} : call'[d] = call[d]
BY DEF Base, TypeOK, Becomes

LEMMA StopsStep ==
  ASSUME Base, StopsAll, [Next]_vars
  PROVE  StopsAll'
<1>1. ASSUME NEW c \in Callers, NEW r, Becomes(c, r), Stops(r)
      PROVE  StopsAll'
  BY <1>1, OthersKept DEF StopsAll, Stops
<1>2. ASSUME NEW c \in Callers, NEW persist \in BOOLEAN, Enter(c, persist)
      PROVE  StopsAll'
  BY <1>1, <1>2, EnterStep DEF Stops
<1>3. ASSUME NEW c \in Callers,
             \/ Up(c) \/ Check(c) \/ Responsive(c) \/ NextRound(c)
             \/ UpFails(c) \/ UpInterrupted(c)
             \/ TimesOut(c) \/ BodyReturns(c) \/ BodyRaises(c) \/ Interrupt(c)
      PROVE  StopsAll'
  <2>1. call[c] \in Calls
    BY DEF Base, TypeOK
  <2>2. Stops(Finally(call[c])) /\ Stops(Except(call[c]))
    BY <2>1, FinallyType, ExceptType DEF Stops
  <2> QED
    BY <1>1, <1>3, <2>2, SessionStep DEF Stops
<1>4. ASSUME NEW c \in Callers, Command(c) \/ CommandFails(c) \/ CommandInterrupted(c)
      PROVE  StopsAll'
  <2> DEFINE r == call[c]
  <2>1. r \in Calls /\ CleansUp(r) /\ r.pc = "cleanup"
    BY <1>4, CleanupStep DEF Base, TypeOK
  <2>2. PICK some \in SUBSET Services : Execute(Head(r.commands), some) /\ CleanupMove(c, some)
    BY <1>4, CleanupStep
  <2>3. Running' \subseteq Running /\ (some = Services => Running' = {})
    BY <2>1, <2>2, HeadOfCommands, ExecuteType DEF Base
  <2>4. CASE some = Services /\ Becomes(c, Proceed(r))
    BY <2>3, <2>4 DEF StopsAll
  <2>5. CASE Becomes(c, Proceed(Missed(r)))
    <3>1. CASE Stops(r)
      BY <1>1, <2>1, <2>5, <3>1, StopsAfter
    <3>2. CASE ~ Stops(r)
      BY <2>3, <2>5, <3>2, OthersKept DEF StopsAll, Stops
    <3> QED
      BY <3>1, <3>2
  <2>6. CASE Becomes(c, Finally(r)) \/ Becomes(c, CutOff(r))
    BY <1>1, <2>1, <2>6, StopsAfter
  <2> QED
    BY <2>2, <2>4, <2>5, <2>6 DEF CleanupMove
<1>5. ASSUME \/ \E c \in Callers, s \in Services : StartContainer(c, s)
             \/ \E s \in Services : BecomeReady(s) \/ Crash(s)
             \/ \E c \in Callers : Write(c)
             \/ UNCHANGED vars
      PROVE  StopsAll'
  <2>1. UNCHANGED call /\ (Running' \subseteq Running \/ \E c \in Callers : call[c].pc = "up")
    BY <1>5, EnvironmentStep
  <2> QED
    BY <2>1 DEF StopsAll, Stops
<1> QED
  BY <1>2, <1>3, <1>4, <1>5, StepKinds

\* When no session is under way nothing runs, whatever sessions that share a project
\* do to each other, unless a set-up or clean-up was cut off or all the commands of one
\* clean-up failed.
THEOREM NothingRunsCorrect == Spec => []NothingLeftRunning
<1>1. Init => StopsAll
  BY DEF Init, StopsAll, Running
<1>2. Base /\ StopsAll => NothingLeftRunning
  <2> SUFFICES ASSUME Base, StopsAll, \A c \in Callers : Idle(c), Running # {}
               PROVE  \E c \in Callers :
                        \/ call[c].cut
                        \/ /\ sessions[c] > 0
                           /\ \A i \in DOMAIN CleanupCommands(call[c].persist) :
                                CleanupCommands(call[c].persist)[i] \in call[c].missed
    BY DEF NothingLeftRunning
  <2>1. PICK c \in Callers : Stops(call[c])
    BY DEF StopsAll
  <2>2. call[c] \in Calls /\ call[c].pc \in {"off", "done"}
    BY DEF Idle, Base, TypeOK
  <2>3. call[c].cut \/ (call[c].pc = "done" /\ Kinds(call[c].persist) \subseteq call[c].missed)
    BY <2>1, <2>2 DEF Stops
  <2>4. call[c].pc = "done" => sessions[c] > 0
    BY DEF Base
  <2>5. \A persist \in BOOLEAN : \A i \in DOMAIN CleanupCommands(persist) :
          CleanupCommands(persist)[i] \in Kinds(persist)
    <3>1. \A i \in DOMAIN CleanupCommands(TRUE) : CleanupCommands(TRUE)[i] \in Kinds(TRUE)
      BY DEF CleanupCommands, Kinds
    <3>2. \A i \in DOMAIN CleanupCommands(FALSE) : CleanupCommands(FALSE)[i] \in Kinds(FALSE)
      <4>1. DOMAIN Both = {1, 2} /\ Both[1] = "down -v" /\ Both[2] = "rm --stop --force"
        BY DEF Both
      <4> QED
        BY <4>1, CommandsOfPersist DEF Kinds
    <3> QED
      BY <3>1, <3>2
  <2> QED
    BY <2>2, <2>3, <2>4, <2>5 DEF Calls
<1>3. Base /\ StopsAll /\ [Next]_vars => StopsAll'
  BY StopsStep
<1> QED
  BY <1>1, <1>2, <1>3, BaseInvariant, PTL DEF Spec

(***************************************************************************)
(* What is left stored.                                                     *)
(***************************************************************************)

\* A call that is to keep data, that is still going to remove it, or that has been
\* kept from it.
Removes(r) ==
  \/ r.persist
  \/ r.pc \in {"off", "up", "check", "body"}
  \/ r.pc = "cleanup" /\ (r.block = "except" \/ r.commands = Both)
  \/ r.missed # {}
  \/ r.cut

RemovesAll == stored # {} => \E c \in Callers : Removes(call[c])

LEMMA RemovesAfter ==
  ASSUME NEW r \in Calls, r.pc = "cleanup", CleansUp(r)
  PROVE  /\ Removes(Finally(r))
         /\ Removes(CutOff(r))
         /\ Removes(Proceed(Missed(r)))
         /\ Removes(r) /\ r.commands # Both => Removes(Proceed(r))
<1>1. Removes(Finally(r))
  BY FinallyType DEF Removes
<1>2. Removes(CutOff(r))
  BY DEF Removes, CutOff, Calls
<1>3. ASSUME NEW m \in Calls, m.pc = "cleanup", CleansUp(m), Removes(m),
             m.commands # Both \/ m.missed # {}
      PROVE  Removes(Proceed(m))
  <2>1. CASE m.commands = Both
    <3>1. Proceed(m) = [m EXCEPT !.commands = Rest]
      BY <1>3, <2>1, ProceedType
    <3> QED
      BY <1>3, <2>1, <3>1 DEF Removes, Calls
  <2>2. CASE m.commands # Both /\ m.block = "except"
    <3>1. Proceed(m) = Finally(m)
      BY <1>3, <2>2, ProceedType
    <3> QED
      BY <3>1, FinallyType DEF Removes
  <2>3. CASE m.commands # Both /\ m.block # "except"
    <3>1. Proceed(m) = [m EXCEPT !.pc = "done", !.commands = <<>>]
      BY <1>3, <2>3, ProceedType
    <3> QED
      BY <1>3, <2>3, <3>1 DEF Removes, Calls
  <2> QED
    BY <2>1, <2>2, <2>3
<1>4. Removes(Proceed(Missed(r)))
  <2>1. Missed(r).missed # {}
    BY DEF Missed, Calls
  <2> QED
    BY <1>3, <2>1, MissedType DEF Removes
<1> QED
  BY <1>1, <1>2, <1>3, <1>4

LEMMA RemovesStep ==
  ASSUME Base, RemovesAll, [Next]_vars
  PROVE  RemovesAll'
<1>1. ASSUME NEW c \in Callers, NEW r, Becomes(c, r), Removes(r)
      PROVE  RemovesAll'
  BY <1>1, OthersKept DEF RemovesAll, Removes
<1>2. ASSUME NEW c \in Callers, NEW persist \in BOOLEAN, Enter(c, persist)
      PROVE  RemovesAll'
  BY <1>1, <1>2, EnterStep DEF Removes
<1>3. ASSUME NEW c \in Callers,
             \/ Up(c) \/ Check(c) \/ Responsive(c) \/ NextRound(c)
             \/ UpFails(c) \/ UpInterrupted(c)
             \/ TimesOut(c) \/ BodyReturns(c) \/ BodyRaises(c) \/ Interrupt(c)
      PROVE  RemovesAll'
  <2>1. call[c] \in Calls
    BY DEF Base, TypeOK
  <2>2. Removes(Finally(call[c])) /\ Removes(Except(call[c]))
    BY <2>1, FinallyType, ExceptType DEF Removes
  <2> QED
    BY <1>1, <1>3, <2>2, SessionStep DEF Removes
<1>4. ASSUME NEW c \in Callers, Command(c) \/ CommandFails(c) \/ CommandInterrupted(c)
      PROVE  RemovesAll'
  <2> DEFINE r == call[c]
  <2>1. r \in Calls /\ CleansUp(r) /\ r.pc = "cleanup"
    BY <1>4, CleanupStep DEF Base, TypeOK
  <2>2. PICK some \in SUBSET Services : Execute(Head(r.commands), some) /\ CleanupMove(c, some)
    BY <1>4, CleanupStep
  <2>3. /\ stored' \subseteq stored
        /\ r.commands = Both /\ some = Services => stored' = {}
    BY <2>1, <2>2, HeadOfCommands, ExecuteType DEF Base
  <2>4. CASE some = Services /\ Becomes(c, Proceed(r))
    <3>1. CASE r.commands = Both
      BY <2>3, <2>4, <3>1 DEF RemovesAll
    <3>2. CASE r.commands # Both /\ Removes(r)
      BY <1>1, <2>1, <2>4, <3>2, RemovesAfter
    <3>3. CASE ~ Removes(r)
      BY <2>3, <2>4, <3>3, OthersKept DEF RemovesAll, Removes
    <3> QED
      BY <3>1, <3>2, <3>3
  <2>5. CASE \/ Becomes(c, Proceed(Missed(r)))
             \/ Becomes(c, Finally(r)) \/ Becomes(c, CutOff(r))
    BY <1>1, <2>1, <2>5, RemovesAfter
  <2> QED
    BY <2>2, <2>4, <2>5 DEF CleanupMove
<1>5. ASSUME \/ \E c \in Callers, s \in Services : StartContainer(c, s)
             \/ \E s \in Services : BecomeReady(s) \/ Crash(s)
             \/ \E c \in Callers : Write(c)
             \/ UNCHANGED vars
      PROVE  RemovesAll'
  <2>1. UNCHANGED call /\ (stored' = stored \/ \E c \in Callers : call[c].pc = "body")
    BY <1>5, EnvironmentStep
  <2> QED
    BY <2>1 DEF RemovesAll, Removes
<1> QED
  BY <1>2, <1>3, <1>4, <1>5, StepKinds

\* When all sessions have ended and none was to persist no data is left, whichever of
\* them wrote it and removed it, unless a command failed or was cut off.
THEOREM NothingStoredCorrect == Spec => []NothingLeftStored
<1>1. Init => RemovesAll
  BY DEF Init, RemovesAll
<1>2. Base /\ RemovesAll => NothingLeftStored
  BY DEF RemovesAll, Removes, NothingLeftStored, Base, TypeOK, Calls
<1>3. Base /\ RemovesAll /\ [Next]_vars => RemovesAll'
  BY RemovesStep
<1> QED
  BY <1>1, <1>2, <1>3, BaseInvariant, PTL DEF Spec

\* A session that is to persist and has not raised only ever stops the containers:
\* what it does removes no data, when a command fails and when it is interrupted too.
THEOREM PersistCorrect == Spec => PersistKept
<1>1. ASSUME Base, [Next]_vars,
             NEW c \in Callers, call'[c] # call[c], call'[c].persist, ~ call'[c].raised
      PROVE  stored \subseteq stored'
  <2>1. CASE UNCHANGED stored
    BY <2>1
  <2>2. ASSUME NEW d \in Callers, Command(d) \/ CommandFails(d) \/ CommandInterrupted(d)
        PROVE  stored \subseteq stored'
    <3> DEFINE r == call[d]
    <3>1. r \in Calls /\ CleansUp(r) /\ r.pc = "cleanup"
      BY <1>1, <2>2, CleanupStep DEF Base, TypeOK
    <3>2. PICK some \in SUBSET Services : Execute(Head(r.commands), some) /\ CleanupMove(d, some)
      BY <1>1, <2>2, CleanupStep
    <3>3. c = d
      BY <1>1, <3>2, OthersKept DEF CleanupMove
    <3>4. /\ Finally(r).persist = r.persist /\ Finally(r).raised = r.raised
          /\ CutOff(r).persist = r.persist /\ CutOff(r).raised = r.raised
      BY <3>1, FinallyType DEF CutOff, Calls
    <3>5. /\ Proceed(r).persist = r.persist /\ Proceed(r).raised = r.raised
          /\ Proceed(Missed(r)).persist = r.persist /\ Proceed(Missed(r)).raised = r.raised
      <4>1. /\ Missed(r) \in Calls /\ CleansUp(Missed(r)) /\ Missed(r).pc = "cleanup"
            /\ Missed(r).persist = r.persist /\ Missed(r).raised = r.raised
        BY <3>1, MissedType DEF Missed, Calls
      <4>2. ASSUME NEW m \in Calls, m.pc = "cleanup", CleansUp(m)
            PROVE  Proceed(m).persist = m.persist /\ Proceed(m).raised = m.raised
        BY <4>2, ProceedType
      <4> QED
        BY <3>1, <4>1, <4>2
    <3>6. r.persist /\ ~ r.raised
      BY <1>1, <3>2, <3>3, <3>4, <3>5, OthersKept DEF CleanupMove
    <3> QED
      BY <1>1, <3>1, <3>2, <3>6, HeadOfCommands, ExecuteType DEF Base
  <2> QED
    BY <1>1, <2>1, <2>2, StepKinds, EnterStep, SessionStep, EnvironmentStep
<1>2. Base /\ [Next]_vars =>
        [\A c \in Callers :
           call'[c] # call[c] /\ call'[c].persist /\ ~call'[c].raised =>
             stored \subseteq stored']_vars
  BY <1>1
<1> QED
  BY <1>2, BaseInvariant, PTL DEF Spec, PersistKept
=============================================================================
