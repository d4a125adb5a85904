------------------------------ MODULE PoolStore -----------------------------
(***************************************************************************)
(* proxybroker.pool_store.PoolStore: runs (processes) that verify proxies, *)
(* save them to a common file and load it when they start.  A save is      *)
(* synchronous, so it is atomic for its own process, but a crash, an error *)
(* of the file system or another process may come between any two of its   *)
(* steps.                                                                  *)
(***************************************************************************)
EXTENDS Integers, FiniteSets

CONSTANTS
  Run,       \* processes that share the pool file
  Addr,      \* proxies
  Abroad,    \* those recorded from other countries than a run may ask for
  Ttl,       \* pool_ttl
  MaxTime    \* bound: the clock

Time == 0..MaxTime

\* An entry of the file, with its verified_at.
Entry == [addr : Addr, at : Time]

\* What a file may hold: entries, nothing yet, a part of the JSON text, or
\* something load() ignores (another schema version, no JSON).
File == [kind : {"absent", "empty", "truncated", "foreign", "whole"}, es : SUBSET Entry]
Whole(f) == f.kind = "whole"
NotWhole(kind) == [kind |-> kind, es |-> {}]
Holding(es) == [kind |-> "whole", es |-> es]
Absent == NotWhole("absent")

ASSUME StoreAssumption ==
  /\ Abroad \subseteq Addr
  /\ Ttl \in Nat /\ MaxTime \in Nat

VARIABLES
  file,    \* the pool file
  tmp,     \* per run: its temporary file
  run,     \* per run: where it is
  verified, \* per run: the proxies it has verified
  payload, \* per run: the entries of the save under way
  loaded,  \* per run: what load() returned when it started
  now      \* time.time()

vars == <<file, tmp, run, verified, payload, loaded, now>>

Init ==
  /\ file \in {Absent, NotWhole("foreign")}
  /\ tmp = [r \in Run |-> Absent]
  /\ run = [r \in Run |-> "down"]
  /\ verified = [r \in Run |-> {}]
  /\ payload = [r \in Run |-> {}]
  /\ loaded = [r \in Run |-> {}]
  /\ now = 0

\* load(countries): the entries young enough, of the countries asked for, if
\* any; without a readable file of this version, none.
Young(e) == now - e.at <= Ttl

Load(r) ==
  /\ run[r] = "down"
  /\ run' = [run EXCEPT ![r] = "up"]
  /\ \E unwanted \in {Abroad, {}} :
       loaded' = [loaded EXCEPT ![r] =
                    {e \in file.es : Young(e) /\ e.addr \notin unwanted}]
  /\ UNCHANGED <<file, tmp, verified, payload, now>>

\* A proxy passes its check.
Verify(r, a) ==
  /\ run[r] = "up"
  /\ verified' = [verified EXCEPT ![r] = @ \cup {a}]
  /\ UNCHANGED <<file, tmp, run, payload, loaded, now>>

\* save(): every entry is stamped with the time of the save.
Stamped(r) == {[addr |-> a, at |-> now] : a \in verified[r]}

Save(r) ==
  /\ run[r] = "up" /\ Stamped(r) # {}
  /\ payload' = [payload EXCEPT ![r] = Stamped(r)]
  /\ tmp' = [tmp EXCEPT ![r] = NotWhole("empty")]
  /\ run' = [run EXCEPT ![r] = "dump"]
  /\ UNCHANGED <<file, verified, loaded, now>>

\* The JSON text goes to the temporary file piece by piece.
WriteInPlace(r) ==
  /\ run[r] = "dump"
  /\ file' = NotWhole("truncated")
  /\ tmp' = [tmp EXCEPT ![r] = NotWhole("truncated")]
  /\ UNCHANGED <<run, verified, payload, loaded, now>>
Write(r) ==
  /\ run[r] = "dump"
  /\ tmp' = [tmp EXCEPT ![r] = NotWhole("truncated")]
  /\ UNCHANGED <<file, run, verified, payload, loaded, now>>

Close(r) ==
  /\ run[r] = "dump" /\ tmp[r].kind = "truncated"
  /\ tmp' = [tmp EXCEPT ![r] = Holding(payload[r])]
  /\ run' = [run EXCEPT ![r] = "replace"]
  /\ UNCHANGED <<file, verified, payload, loaded, now>>

\* os.replace.
ReplaceMerged(r) ==
  /\ run[r] = "replace"
  /\ file' = Holding(tmp[r].es \cup file.es)
  /\ tmp' = [tmp EXCEPT ![r] = Absent]
  /\ run' = [run EXCEPT ![r] = "up"]
  /\ UNCHANGED <<verified, payload, loaded, now>>
Replace(r) ==
  /\ run[r] = "replace"
  /\ file' = tmp[r]
  /\ tmp' = [tmp EXCEPT ![r] = Absent]
  /\ run' = [run EXCEPT ![r] = "up"]
  /\ UNCHANGED <<verified, payload, loaded, now>>

\* An OSError: save() returns 0 and the run goes on.  Its temporary file stays
\* behind; nothing ever reads it, and the model forgets it.
SaveFails(r) ==
  /\ run[r] \in {"dump", "replace"}
  /\ tmp' = [tmp EXCEPT ![r] = Absent]
  /\ run' = [run EXCEPT ![r] = "up"]
  /\ UNCHANGED <<file, verified, payload, loaded, now>>

\* The process is killed, or ends.
Crash(r) ==
  /\ run[r] # "down"
  /\ run' = [run EXCEPT ![r] = "down"]
  /\ tmp' = [tmp EXCEPT ![r] = Absent]
  /\ verified' = [verified EXCEPT ![r] = {}]
  /\ UNCHANGED <<file, payload, loaded, now>>

Tick ==
  /\ now < MaxTime
  /\ now' = now + 1
  /\ UNCHANGED <<file, tmp, run, verified, payload, loaded>>

Next ==
  \/ Tick
  \/ \E r \in Run :
       \/ Load(r) \/ Save(r) \/ Write(r) \/ Close(r) \/ Replace(r)
       \/ SaveFails(r) \/ Crash(r)
       \/ \E a \in Addr : Verify(r, a)

Spec == Init /\ [][Next]_vars

-----------------------------------------------------------------------------
(* Properties. *)

\* Every variable has its type.
TypeOK ==
  /\ file \in File /\ tmp \in [Run -> File]
  /\ run \in [Run -> {"down", "up", "dump", "replace"}]
  /\ verified \in [Run -> SUBSET Addr]
  /\ payload \in [Run -> SUBSET Entry] /\ loaded \in [Run -> SUBSET Entry]
  /\ now \in Time

\* Once there is a pool to start from, no crash, error or second run makes it
\* unreadable: the next run always has one.
PoolSurvives == [][Whole(file) => Whole(file')]_vars

\* To its readers a save happens at one instant or not at all: the file is the
\* register of the abstract specification.
Register == INSTANCE PoolRegister WITH content <- file.es, offered <- payload
ImplementsRegister == Register!Spec
=============================================================================
