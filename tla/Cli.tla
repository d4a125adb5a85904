---------------------------------- MODULE Cli ----------------------------------
(***************************************************************************)
(* proxybroker.cli: a process that runs one command on one Broker.  find   *)
(* and grab gather the call with handle(), which writes what comes out of  *)
(* the queue; serve starts the local server and runs the loop for ever.    *)
(* SIGINT calls Broker.stop(), and after that is KeyboardInterrupt.  find  *)
(* and serve first await the external addresses, step by step as in        *)
(* RealIps; what the Broker then does is the Broker module's.              *)
(***************************************************************************)
EXTENDS RealIps, Sequences, SequencesExt

CONSTANTS
  Proxy,      \* the proxies that may be found
  MaxQueued,  \* bound: results and markers put into the queue
  MaxSigints  \* bound: SIGINTs

ASSUME CliAssumption == None \notin Proxy /\ MaxQueued \in Nat /\ MaxSigints \in Nat

\* `library' is a program of its own that awaits find(), perhaps in wait_for().
Command == {"find", "grab", "serve", "library"}
Prints == {"find", "grab"}

VARIABLES
  command,   \* ns.command
  json,      \* ns.format == "json"
  handler,   \* what SIGINT does: Broker.stop, or KeyboardInterrupt
  called,    \* find() or grab() has scheduled its tasks and returned
  work,      \* the tasks it has scheduled
  server,    \* the local server
  queue,     \* everything ever put into the queue
  taken,     \* how much of it handle() has got
  writer,    \* where handle() is
  out,       \* what it has written
  exit,      \* how the process ended
  sigints    \* number of SIGINTs so far

broker == <<handler, called, work, server, queue>>
writing == <<taken, writer, out>>
cliVars == <<vars, command, json, broker, writing, exit, sigints>>

Running == exit = "running"

CliInit ==
  /\ Init
  /\ command \in Command
  /\ json \in BOOLEAN
  /\ handler \in {"stop", "default"}  \* no handlers on Windows
  /\ called = FALSE /\ work = "none"
  /\ server = IF command = "serve" THEN "starting" ELSE "none"
  /\ queue = <<>> /\ taken = 0
  /\ writer = IF command \in Prints THEN "ready" ELSE "none"
  /\ out = <<>>
  /\ exit = "running" /\ sigints = 0

-----------------------------------------------------------------------------
(* The call. *)

\* find() discovers the external addresses; serve() calls it once the server
\* listens.  Only a library's call is ever cancelled.
InFind(A) ==
  /\ Running /\ command # "grab" /\ server \notin {"starting", "dropped"}
  /\ A
  /\ UNCHANGED <<command, json, broker, writing, exit, sigints>>

Discovers == InFind(Next /\ (cancelled' => command = "library"))

\* find(), with the addresses, and grab() schedule their tasks and return.
Schedules ==
  /\ Running /\ ~called
  /\ command = "grab" \/ pc = "returned"
  /\ called' = TRUE
  /\ work' = "running"
  /\ UNCHANGED <<vars, command, json, handler, server, queue, writing, exit, sigints>>

\* A proxy is found; a check that had passed may push it after the end.
Finds ==
  /\ Running /\ work # "none" /\ Len(queue) < MaxQueued
  /\ \E p \in Proxy : queue' = Append(queue, p)
  /\ UNCHANGED <<vars, command, json, handler, called, work, server, writing, exit, sigints>>

\* The limit, the last pass or the warm start ends the work: _done().
WorkEnds ==
  /\ Running /\ work = "running" /\ Len(queue) < MaxQueued
  /\ work' = "over"
  /\ queue' = Append(queue, None)
  /\ UNCHANGED <<vars, command, json, handler, called, server, writing, exit, sigints>>

-----------------------------------------------------------------------------
(* handle() and outformat(). *)

\* A result that is not the first is set off from the one before.
SeparatedAlways(p) == IF json THEN <<",", p>> ELSE <<p>>
is_first == taken = 0
Separated(p) == IF json /\ ~is_first THEN <<",", p>> ELSE <<p>>

WriterStarts ==
  /\ Running /\ writer = "ready"
  /\ writer' = "reading"
  /\ out' = IF json THEN <<"[">> ELSE <<>>
  /\ UNCHANGED <<vars, command, json, broker, taken, exit, sigints>>

Writes ==
  /\ Running /\ writer = "reading" /\ taken < Len(queue)
  /\ taken' = taken + 1
  /\ LET p == queue[taken + 1]
     IN IF p = None
          THEN writer' = "ended" /\ out' = IF json THEN Append(out, "]") ELSE out
          ELSE out' = out \o Separated(p) /\ UNCHANGED writer
  /\ UNCHANGED <<vars, command, json, broker, exit, sigints>>

-----------------------------------------------------------------------------
(* cli(). *)

\* gather() is over when both are.
GatherEnds ==
  /\ Running /\ command \in Prints
  /\ called /\ writer = "ended"
  /\ exit' = "returned"
  /\ UNCHANGED <<vars, command, json, broker, writing, sigints>>

\* find() raises: gather() passes it on and leaves handle() pending.  In a
\* server the exception is that of a task nobody awaits.
GatherRaises ==
  /\ Running /\ command = "find" /\ pc = "raised"
  /\ exit' = "raised"
  /\ UNCHANGED <<vars, command, json, broker, writing, sigints>>

\* Server.start() is over; nobody will stop a server whose broker has been.
ServerStarts ==
  /\ Running /\ server \in {"starting", "dropped"}
  /\ server' = IF server = "dropped" THEN "orphan" ELSE "up"
  /\ UNCHANGED <<vars, command, json, handler, called, work, queue, writing, exit, sigints>>

\* Server.stop() on its own account, without proxies: it stops the loop.
ServerGivesUp ==
  /\ Running /\ server \in {"up", "orphan"}
  /\ exit' = "returned"
  /\ UNCHANGED <<vars, command, json, broker, writing, sigints>>

\* Broker.stop(): _done(), with its marker even if nothing has been scheduled,
\* then the server, if it listens, and the loop.
MarkedIfWorking == IF work = "none" THEN queue ELSE Append(queue, None)
Marked == Append(queue, None)

Stops ==
  /\ queue' = Marked
  /\ work' = IF work = "running" THEN "over" ELSE work
  /\ server' = CASE server = "starting" -> "dropped"
                 [] server = "up"       -> "down"
                 [] OTHER               -> server

Sigint ==
  /\ Running /\ sigints < MaxSigints /\ handler = "stop"
  /\ sigints' = sigints + 1
  /\ Stops
  /\ handler' = "default"
  /\ exit' = IF server' = "down" THEN "returned" ELSE exit
  /\ UNCHANGED <<vars, command, json, called, writing>>

\* Without the handler: the loop is left where it is, and stop() called, unless
\* it was serve() that still ran the loop.
KeyboardInterrupt ==
  /\ Running /\ sigints < MaxSigints /\ handler = "default"
  /\ sigints' = sigints + 1
  /\ IF server \in {"starting", "dropped"}
       THEN exit' = "raised" /\ UNCHANGED <<work, server, queue>>
       ELSE exit' = "interrupted" /\ Stops
  /\ UNCHANGED <<vars, command, json, handler, called, writing>>

-----------------------------------------------------------------------------
CliStep == Schedules \/ WriterStarts \/ Writes \/ GatherEnds \/ GatherRaises \/ ServerStarts

CliNext ==
  \/ Discovers \/ CliStep \/ Finds \/ WorkEnds \/ ServerGivesUp
  \/ Sigint \/ KeyboardInterrupt

CliSpec == CliInit /\ [][CliNext]_cliVars

\* The event loop and its clock.  Nothing is assumed of the endpoints, of what
\* is found, or of who sends the signals.
CliFairSpec ==
  /\ CliSpec
  /\ WF_cliVars(CliStep)
  /\ WF_cliVars(InFind(Discover)) /\ WF_cliVars(InFind(FirstWake))
  /\ WF_cliVars(InFind(GraceWake)) /\ WF_cliVars(InFind(Return)) /\ WF_cliVars(InFind(Late))
  /\ \A f \in Family : WF_cliVars(InFind(ProbeCancelled(f)))

-----------------------------------------------------------------------------
(* Properties. *)

\* Once one family has an address the discovery ends, even if the endpoints of
\* the other never answer, unless the process ends first.
BlackholeIsBounded == found # {} ~> pc \in Over \/ ~Running

\* What was put into the queue ahead of the first marker.
Ahead == SubSeq(queue, 1, SelectInSeq(queue, LAMBDA x : x = None) - 1)

\* The items as a JSON list.
Document(items) ==
  <<"[">> \o [i \in 1..2 * Len(items) - 1 |-> IF i % 2 = 1 THEN items[(i + 1) \div 2] ELSE ","]
          \o <<"]">>

\* A command that returns has written all that came before the first marker
\* and nothing that came after it, as one document, whoever put the marker: the
\* end of the work, stop(), or stop() before anything was scheduled.
DocumentComplete ==
  exit = "returned" /\ command \in Prints =>
    out = IF json THEN Document(Ahead) ELSE Ahead

\* SIGINT ends the process, also while find() discovers the addresses, except
\* that a server which had not yet started to listen goes on; and nothing is
\* promised of endpoints that never answer.
StopEnds ==
  \/ command = "library"
  \/ []<>~(sigints > 0 /\ Running)
  \/ <>[](server = "orphan" \/ (pc = "first" /\ ~FirstIsOver))
=============================================================================
