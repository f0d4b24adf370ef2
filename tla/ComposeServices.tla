---------------------------- MODULE ComposeServices ----------------------------
(***************************************************************************)
(* run_docker_services: docker-compose starts the services, health checks   *)
(* wait for them, the body of the with-statement uses them, and clean-up    *)
(* commands remove or stop them.  Callers that use one project name (it has *)
(* a default) share the containers, and the start-services command of the  *)
(* CLI is a caller whose body only KeyboardInterrupt ends.                 *)
(*                                                                         *)
(* KeyboardInterrupt is no Exception: the `except Exception` blocks that    *)
(* clean up and that ignore a failing command let it pass.                 *)
(***************************************************************************)
EXTENDS Naturals, Sequences

CONSTANTS
  Callers,     \* processes that call run_docker_services with one project name
  Services,    \* the services that the compose file starts
  Checks,      \* _HEALTHCHECKS: the services checked, in their order
  Asked,       \* those whose check needs an answer: MongoClient(...) needs none
  Named,       \* services whose data is in a named volume, not in their container
  MaxSessions, \* bound on the sessions of a caller
  MaxRounds,   \* bound on the rounds of checks in a session
  MaxFaults    \* bound on failing commands, crashes and interrupted commands

ASSUME ComposeConstants ==
  /\ Checks \in Seq(Services)
  /\ Asked \subseteq Services /\ Named \subseteq Services
  /\ MaxSessions \in Nat /\ MaxRounds \in Nat \ {0} /\ MaxFaults \in Nat

Commands == {"down -v", "rm --stop --force", "stop"}

VARIABLES
  containers, \* per service: the state of its container
  stored,     \* the services that hold data that a body wrote
  call,       \* per caller: its call of run_docker_services
  sessions,   \* per caller: how many sessions it has begun
  faults      \* faults so far

vars == <<containers, stored, call, sessions, faults>>

Calls ==
  [pc: {"off", "up", "check", "body", "cleanup", "done"},
   persist: BOOLEAN,
   answers: Seq(BOOLEAN),     \* of the checks of this round
   rounds: 0..MaxRounds,      \* rounds that did not pass
   block: {"except", "finally"},  \* the block whose clean-up it runs
   commands: Seq(Commands),   \* left to run in it
   missed: SUBSET Commands,   \* history: those of the last clean-up that failed
   raised: BOOLEAN,           \* history: was the with-statement's Exception handled?
   cut: BOOLEAN]              \* history: did KeyboardInterrupt end its setup or clean-up?

TypeOK ==
  /\ containers \in [Services -> {"absent", "exited", "up", "ready"}]
  /\ stored \subseteq Services
  /\ call \in [Callers -> Calls]
  /\ sessions \in [Callers -> 0..MaxSessions]
  /\ faults \in 0..MaxFaults

Session(label, persist) ==
  [pc |-> label, persist |-> persist, answers |-> <<>>, rounds |-> 0,
   block |-> "finally", commands |-> <<>>, missed |-> {}, raised |-> FALSE, cut |-> FALSE]

Init ==
  /\ containers = [s \in Services |-> "absent"]
  /\ stored = {}
  /\ call = [c \in Callers |-> Session("off", FALSE)]
  /\ sessions = [c \in Callers |-> 0]
  /\ faults = 0

-----------------------------------------------------------------------------
Running == {s \in Services : containers[s] \in {"up", "ready"}}
Ready   == {s \in Services : containers[s] = "ready"}
Idle(c) == call[c].pc \in {"off", "done"}

(* Two bugs that the properties are to notice: no specification uses them.   *)

\* The containers are stopped and removed, their volumes stay.
CleanupWithoutDown(persist) ==
  IF persist THEN <<"stop">> ELSE <<"rm --stop --force">>

\* persist is forgotten.
CleanupOfAll(persist) == <<"down -v", "rm --stop --force">>

CleanupCommands(persist) ==
  IF persist THEN <<"stop">> ELSE <<"down -v", "rm --stop --force">>

\* A clean-up command, as far as it gets: on the services of some.
Execute(command, some) ==
  /\ containers' = [s \in Services |->
       IF s \notin some \/ containers[s] = "absent" THEN containers[s]
       ELSE IF command = "stop" THEN "exited" ELSE "absent"]
  /\ stored' = CASE command = "stop"              -> stored
                 [] command = "rm --stop --force" -> stored \ (some \ Named)
                 [] command = "down -v"           -> stored \ some

\* The caller's call goes on as r; the containers stay as they are.
Continue(c, r) ==
  /\ call' = [call EXCEPT ![c] = r]
  /\ UNCHANGED <<containers, stored, sessions>>

Fault == faults < MaxFaults /\ faults' = faults + 1

\* Into the clean-up of the finally block, or of the except block before it.
Cleanup(r, block, commands) ==
  [r EXCEPT !.pc = "cleanup", !.block = block, !.commands = commands, !.missed = {}]
Finally(r) == Cleanup(r, "finally", CleanupCommands(r.persist))
Except(r)  == [Cleanup(r, "except", CleanupCommands(FALSE)) EXCEPT !.raised = TRUE]

\* After a command: the next one, the finally block, or the end of the call.
Proceed(r) ==
  CASE Tail(r.commands) # <<>> -> [r EXCEPT !.commands = Tail(@)]
    [] Tail(r.commands) = <<>> /\ r.block = "except"  -> Finally(r)
    [] Tail(r.commands) = <<>> /\ r.block = "finally" ->
         [r EXCEPT !.pc = "done", !.commands = <<>>]

-----------------------------------------------------------------------------
(* Bugs that the properties are to notice: variants of operations below,    *)
(* each with one plausible mistake.  No specification uses them.             *)

\* A failing setup is raised at once.
UpRaises(c) ==
  /\ call[c].pc = "up"
  /\ Fault
  /\ Continue(c, [call[c] EXCEPT !.pc = "done"])

\* The time is looked at only when every check has passed.
TimesOutLate(c) ==
  /\ call[c].pc = "check"
  /\ Len(call[c].answers) = Len(Checks)
  /\ \A i \in DOMAIN Checks : call[c].answers[i]
  /\ call[c].rounds = MaxRounds
  /\ Continue(c, Except(call[c]))
  /\ UNCHANGED faults

-----------------------------------------------------------------------------
Enter(c, persist) ==
  /\ Idle(c)
  /\ sessions[c] < MaxSessions
  /\ sessions' = [sessions EXCEPT ![c] = @ + 1]
  /\ call' = [call EXCEPT ![c] = Session("up", persist)]
  /\ UNCHANGED <<containers, stored, faults>>

\* "up -d" starts the containers one after the other.
StartContainer(c, s) ==
  /\ call[c].pc = "up"
  /\ s \notin Running
  /\ containers' = [containers EXCEPT ![s] = "up"]
  /\ UNCHANGED <<stored, call, sessions, faults>>

Up(c) ==
  /\ call[c].pc = "up"
  /\ Running = Services
  /\ Continue(c, [call[c] EXCEPT !.pc = "check"])
  /\ UNCHANGED faults

\* A failing setup is cleaned up; what comes after it is the end, not the finally.
UpFails(c) ==
  /\ call[c].pc = "up"
  /\ Fault
  /\ Continue(c, Finally(call[c]))

UpInterrupted(c) ==
  /\ call[c].pc = "up"
  /\ Fault
  /\ Continue(c, [call[c] EXCEPT !.pc = "done", !.cut = TRUE])

\* The next check of a round of wait_until_responsive.
Check(c) ==
  LET s == Checks[Len(call[c].answers) + 1]
  IN  /\ call[c].pc = "check"
      /\ Len(call[c].answers) < Len(Checks)
      /\ Continue(c, [call[c] EXCEPT !.answers = Append(@, s \in Asked => s \in Ready)])
      /\ UNCHANGED faults

RoundEnds(c, passed) ==
  /\ call[c].pc = "check"
  /\ Len(call[c].answers) = Len(Checks)
  /\ passed = \A i \in DOMAIN Checks : call[c].answers[i]

Responsive(c) ==
  /\ RoundEnds(c, TRUE)
  /\ Continue(c, [call[c] EXCEPT !.pc = "body", !.answers = <<>>])
  /\ UNCHANGED faults

NextRound(c) ==
  /\ RoundEnds(c, FALSE)
  /\ call[c].rounds < MaxRounds
  /\ Continue(c, [call[c] EXCEPT !.answers = <<>>, !.rounds = @ + 1])
  /\ UNCHANGED faults

TimesOut(c) ==
  /\ RoundEnds(c, FALSE)
  /\ Continue(c, Except(call[c]))
  /\ UNCHANGED faults

\* The body writes to the services that run.
Write(c) ==
  /\ call[c].pc = "body"
  /\ stored' = stored \cup Ready
  /\ UNCHANGED <<containers, call, sessions, faults>>

BodyReturns(c) ==
  /\ call[c].pc = "body"
  /\ Continue(c, Finally(call[c]))
  /\ UNCHANGED faults

BodyRaises(c) ==
  /\ call[c].pc = "body"
  /\ Continue(c, Except(call[c]))
  /\ UNCHANGED faults

\* KeyboardInterrupt in the checks or the body.
Interrupt(c) ==
  /\ call[c].pc \in {"check", "body"}
  /\ Continue(c, Finally(call[c]))
  /\ UNCHANGED faults

Command(c) ==
  /\ call[c].pc = "cleanup"
  /\ Execute(Head(call[c].commands), Services)
  /\ call' = [call EXCEPT ![c] = Proceed(@)]
  /\ UNCHANGED <<sessions, faults>>

\* A failing command has done a part of its work and is ignored.
CommandFails(c) ==
  LET r == call[c]
      command == Head(r.commands)
  IN  /\ r.pc = "cleanup"
      /\ Fault
      /\ \E some \in SUBSET Services : Execute(command, some)
      /\ call' = [call EXCEPT ![c] = Proceed([r EXCEPT !.missed = @ \cup {command}])]
      /\ UNCHANGED sessions

\* KeyboardInterrupt skips the rest of a clean-up, not the finally block.
CommandInterrupted(c) ==
  LET r == call[c]
  IN  /\ r.pc = "cleanup"
      /\ Fault
      /\ \E some \in SUBSET Services : Execute(Head(r.commands), some)
      /\ call' = [call EXCEPT ![c] =
           IF r.block = "except" THEN Finally(r)
           ELSE [r EXCEPT !.pc = "done", !.commands = <<>>, !.cut = TRUE]]
      /\ UNCHANGED sessions

\* A service answers some time after its container was started.
BecomeReady(s) ==
  /\ containers[s] = "up"
  /\ containers' = [containers EXCEPT ![s] = "ready"]
  /\ UNCHANGED <<stored, call, sessions, faults>>

Crash(s) ==
  /\ s \in Running
  /\ Fault
  /\ containers' = [containers EXCEPT ![s] = "exited"]
  /\ UNCHANGED <<stored, call, sessions>>

\* What a call does without its caller, an interrupt or a failure.
Run(c) ==
  \/ \E s \in Services : StartContainer(c, s)
  \/ Up(c) \/ Check(c) \/ Responsive(c) \/ NextRound(c) \/ TimesOut(c) \/ Command(c)

Next ==
  \/ \E c \in Callers :
       \/ \E persist \in BOOLEAN : Enter(c, persist)
       \/ Run(c) \/ UpFails(c) \/ UpInterrupted(c)
       \/ Write(c) \/ BodyReturns(c) \/ BodyRaises(c) \/ Interrupt(c)
       \/ CommandFails(c) \/ CommandInterrupted(c)
  \/ \E s \in Services : BecomeReady(s) \/ Crash(s)

Spec     == Init /\ [][Next]_vars
FairSpec == Spec /\ \A c \in Callers : WF_vars(Run(c))

-----------------------------------------------------------------------------
\* When no session is under way nothing runs, whatever sessions that shared the project
\* did to each other and although commands failed: only a session none of whose last
\* clean-up commands succeeded, or whose setup or clean-up was cut off, leaves a
\* container running (the two clean-up loops, compose.py:254 and :294).
NothingLeftRunning ==
  (\A c \in Callers : Idle(c)) =>
    \/ Running = {}
    \/ \E c \in Callers :
         \/ call[c].cut
         \/ /\ sessions[c] > 0
            /\ \A i \in DOMAIN CleanupCommands(call[c].persist) :
                 CleanupCommands(call[c].persist)[i] \in call[c].missed

\* Sessions that were not to persist leave no data, whichever of them wrote it
\* (_CLEANUP_COMMANDS, compose.py:22).
NothingLeftStored ==
  (\A c \in Callers : call[c].pc = "done" /\ ~call[c].persist) =>
    \/ stored = {}
    \/ \E c \in Callers : call[c].cut \/ call[c].missed # {}

\* A session that is to persist and did not raise removes nobody's data, an interrupted
\* one too, and whichever of its commands fail (compose.py:254 and :297).
PersistKept ==
  [][\A c \in Callers :
       call'[c] # call[c] /\ call'[c].persist /\ ~call'[c].raised => stored \subseteq stored']_vars

\* A session gets to its body or to its end, whether its services answer or not.
SessionsGoOn ==
  \A c \in Callers :
    call[c].pc \in {"up", "check", "cleanup"} ~> call[c].pc \in {"body", "done"}
=============================================================================
