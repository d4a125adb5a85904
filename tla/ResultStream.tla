---------------------------- MODULE ResultStream ----------------------------
(***************************************************************************)
(* What the user of a Broker is promised who reads its queue up to the     *)
(* first None, as find(), grab() and the command line do: a stream of      *)
(* proxies, never more than were asked for, each once, that ends with the  *)
(* last one asked for or at any time before, and whose end finds all that  *)
(* it gave in the pool file.                                               *)
(***************************************************************************)
EXTENDS Naturals, Sequences

CONSTANT Proxy

VARIABLES
  most,    \* how many proxies may be given, 0 for any number
  once,    \* no proxy is given twice
  given,   \* what the reader gets, in order
  over,    \* the end of the stream is in the queue
  keeps,   \* there is a pool file
  kept     \* the proxies in it

vars == <<most, once, given, over, keeps, kept>>
call == <<most, once, keeps>>

All(s) == {s[i] : i \in DOMAIN s}

\* What is verified replaces the file, unless that is nothing.
Save(s) == kept' = IF keeps /\ s # <<>> THEN All(s) ELSE kept

Init ==
  /\ most \in Nat /\ once \in BOOLEAN /\ keeps \in BOOLEAN
  /\ given = <<>> /\ ~over
  /\ kept \subseteq Proxy

\* Another proxy.  The last one asked for brings the end, and the save, with it.
Give(p) ==
  /\ ~over
  /\ once => p \notin All(given)
  /\ given' = Append(given, p)
  /\ over' = (Len(given') = most)
  /\ IF over' THEN Save(given') ELSE UNCHANGED kept
  /\ UNCHANGED call

\* The sources are exhausted, or somebody called stop().
End ==
  /\ ~over /\ over' = TRUE
  /\ Save(given)
  /\ UNCHANGED <<call, given>>

\* A save while the stream goes on.
Autosave ==
  /\ ~over /\ keeps /\ given # <<>>
  /\ Save(given)
  /\ UNCHANGED <<call, given, over>>

\* What comes behind the end the reader never sees; it may still be saved, and
\* then with all that was given.
SaveLate ==
  /\ over /\ keeps
  /\ All(given) \subseteq kept' /\ kept' \subseteq Proxy
  /\ UNCHANGED <<call, given, over>>

Next == (\E p \in Proxy : Give(p)) \/ End \/ Autosave \/ SaveLate

Spec == Init /\ [][Next]_vars
=============================================================================
