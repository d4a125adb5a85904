------------------------------ MODULE Checker -------------------------------
(***************************************************************************)
(* proxybroker.checker.Checker and proxybroker.judge.Judge: one Checker,   *)
(* its judges being probed by check_judges(), and the check() tasks of     *)
(* several proxies that wait for them.  Judge.available and Judge.ev       *)
(* belong to the class: an earlier Checker of the process may have left    *)
(* judges and set events behind.                                           *)
(***************************************************************************)
EXTENDS Integers, FiniteSets

CONSTANTS
  Judge,      \* the judges of this Checker
  OldJudge,   \* judges an earlier Checker may have found
  JudgeScheme,\* the scheme of each judge
  Fragile,    \* judges whose probe may raise what Judge.check does not catch
  Task,       \* check() tasks, one per proxy
  Types,      \* the requested protocols, each with its levels ({}: any)
  Expected,   \* per task: proxy.expected_types
  Strict,     \* strict
  Dnsbl,      \* blocklists are configured
  VerifyUrl,  \* verify_url is configured
  MaxTries,   \* max_tries
  None        \* Python's None

Scheme == {"HTTP", "HTTPS", "SMTP"}
Proto  == {"HTTP", "HTTPS", "SOCKS4", "SOCKS5", "CONNECT:80", "CONNECT:25"}
Level  == {"Transparent", "Anonymous", "High"}

ASSUME CheckerAssumption ==
  /\ Judge \cap OldJudge = {}
  /\ JudgeScheme \in [Judge \cup OldJudge -> Scheme]
  /\ Fragile \subseteq Judge
  /\ DOMAIN Types \subseteq Proto /\ DOMAIN Types # {}
  /\ \A p \in DOMAIN Types : Types[p] \subseteq Level
  /\ Expected \in [Task -> SUBSET Proto]
  /\ {Strict, Dnsbl, VerifyUrl} \subseteq BOOLEAN
  /\ MaxTries \in Nat \ {0}
  /\ None \notin Level

VARIABLES
  judge,      \* per judge of this Checker: how its probe stands
  probing,    \* check_judges(): "running", "done", "noJudges" or "failed"
  available,  \* Judge.available
  ev,         \* Judge.ev: the schemes whose event is set
  needs,      \* the schemes of the _req_*_proto flags that are set
  ngtrs,      \* _ngtrs, the protocols to try
  task,       \* the check() tasks
  types,      \* per task: proxy.types
  stale       \* history: events that were set at first without a judge

vars == <<judge, probing, available, ev, needs, ngtrs, task, types, stale>>

judgeVars == <<judge, probing, available, ev, needs, ngtrs, stale>>

\* The scheme whose judge Judge.get_random(proto) picks.
SchemeOf(proto) == CASE proto = "HTTPS"      -> "HTTPS"
                     [] proto = "CONNECT:25" -> "SMTP"
                     [] OTHER                -> "HTTP"

\* What check_judges() disables without a judge of the scheme: for SMTP that
\* is "SMTP", which no protocol is called.
Disabled(scheme) == CASE scheme = "HTTP"  -> {"HTTP", "CONNECT:80", "SOCKS4", "SOCKS5"}
                      [] scheme = "HTTPS" -> {"HTTPS"}
                      [] OTHER            -> {"SMTP"}

\* A check() task: where it is (blocked on an event, in an attempt, over), the
\* protocols of its loop, whether the loop runs over _ngtrs itself, those already
\* begun, the present one, its tries, and the protocols that passed.
Waits   == {"waitHTTP", "waitHTTPS", "waitSMTP"}
Verdict == {"good", "bad", "noJudge", "setChanged", "raised"}
Pc      == {"start", "try", "verify"} \cup Waits \cup Verdict
Over(t) == task[t].pc \in Verdict
TaskType == [pc : Pc, loop : SUBSET Proto, alias : BOOLEAN, begun : SUBSET Proto,
             proto : Proto \cup {None}, tries : 0..MaxTries, passed : SUBSET Proto]

Absent == "absent"

-----------------------------------------------------------------------------
Init ==
  /\ judge = [j \in Judge |-> "probing"]
  /\ probing = "running"
  /\ \E left \in SUBSET OldJudge, set \in SUBSET Scheme :
       /\ available = [s \in Scheme |-> {j \in left : JudgeScheme[j] = s}]
       /\ ev = set \cup {JudgeScheme[j] : j \in left}
  /\ needs = {SchemeOf(p) : p \in DOMAIN Types}
  /\ ngtrs = DOMAIN Types
  /\ task = [t \in Task |-> [pc |-> "start", loop |-> {}, alias |-> FALSE, begun |-> {},
                             proto |-> None, tries |-> 0, passed |-> {}]]
  /\ types = [t \in Task |-> [p \in Proto |-> Absent]]
  /\ stale = {s \in ev : available[s] = {}}

-----------------------------------------------------------------------------
(* The judges. *)

\* Judge.check: resolved and, but for SMTP, the page shows what it should.
JudgeWorks(j) ==
  /\ judge[j] = "probing"
  /\ judge' = [judge EXCEPT ![j] = "working"]
  /\ available' = [available EXCEPT ![JudgeScheme[j]] = @ \cup {j}]
  /\ ev' = ev \cup {JudgeScheme[j]}
  /\ UNCHANGED <<probing, needs, ngtrs, task, types, stale>>

\* Not resolved, not answered, or not what was expected.
JudgeFails(j) ==
  /\ judge[j] = "probing"
  /\ judge' = [judge EXCEPT ![j] = "failed"]
  /\ UNCHANGED <<probing, available, ev, needs, ngtrs, task, types, stale>>

\* An exception Judge.check does not name (a broken payload, a page that is no
\* text): gather() raises it at once, the other probes go on.
JudgeRaises(j) ==
  /\ judge[j] = "probing" /\ j \in Fragile /\ JudgeScheme[j] # "SMTP"
  /\ judge' = [judge EXCEPT ![j] = "raised"]
  /\ probing' = "failed"
  /\ UNCHANGED <<available, ev, needs, ngtrs, task, types, stale>>

\* check_judges() after the probes: without a judge of a scheme its flag is
\* cleared, its protocols are disabled and those that wait for it are woken.
NoJudge == {s \in Scheme : available[s] = {}}

JudgesDoneButHTTPS == ev \cup (NoJudge \ {"HTTPS"})
Woken == ev \cup NoJudge

JudgesDone ==
  /\ probing = "running"
  /\ \A j \in Judge : judge[j] \in {"working", "failed"}
  /\ needs' = needs \ NoJudge
  /\ ngtrs' = ngtrs \ UNION {Disabled(s) : s \in NoJudge}
  /\ ev' = Woken
  /\ probing' = IF \E j \in Judge : judge[j] = "working" THEN "done" ELSE "noJudges"
  /\ UNCHANGED <<judge, available, task, types, stale>>

-----------------------------------------------------------------------------
(* check(proxy). *)

\* _types_passed: the level of a protocol is a requested one.  In strict mode
\* the others are removed from proxy.types.
Has(ty)     == {p \in Proto : ty[p] # Absent}
Fits(p, lvl) == p \notin DOMAIN Types \/ Types[p] = {} \/ lvl \in Types[p]
Fitting(ty) == {p \in Has(ty) : Fits(p, ty[p])}

TypesKept(ty) == ty
TypesLeft(ty) == [p \in Proto |-> IF Strict /\ p \notin Fitting(ty) THEN Absent ELSE ty[p]]

\* The head of the loop over the protocols, after which the task has the record
\* r and the types ty.  It reaches no suspension before the next attempt.
LoopChanged(r) == r.alias /\ r.loop # ngtrs

\* The next protocol and a judge for it; without one secrets.choice raises.
NextProtocol(t, r, ty) ==
  /\ ~LoopChanged(r)
  /\ \E p \in r.loop \ r.begun :
       task' = [task EXCEPT ![t] =
         [r EXCEPT !.pc = IF available[SchemeOf(p)] = {} THEN "noJudge" ELSE "try",
                   !.begun = @ \cup {p}, !.proto = p, !.tries = 0]]
  /\ types' = [types EXCEPT ![t] = ty]

\* "Set changed size during iteration": the loop ran over _ngtrs itself.
IterationRaises(t, r, ty) ==
  /\ LoopChanged(r)
  /\ task' = [task EXCEPT ![t] = [r EXCEPT !.pc = "setChanged"]]
  /\ types' = [types EXCEPT ![t] = ty]

\* The loop is over: is_working, the types, then the verdict or verify_url.
Judged(t, r, ty) ==
  /\ ~LoopChanged(r) /\ r.loop \subseteq r.begun
  /\ LET passes == r.passed # {} /\ Fitting(ty) # {}
     IN task' = [task EXCEPT ![t] =
          [r EXCEPT !.pc = IF ~passes THEN "bad" ELSE IF VerifyUrl THEN "verify" ELSE "good"]]
  /\ types' = [types EXCEPT ![t] = IF r.passed # {} THEN TypesLeft(ty) ELSE ty]

Continue(t, r, ty) ==
  NextProtocol(t, r, ty) \/ IterationRaises(t, r, ty) \/ Judged(t, r, ty)

\* Judge.ev[scheme].wait() for each scheme of `schemes' in turn: the first whose
\* flag is set and whose event is not blocks the task.  The last is followed by
\* the choice of protocols: the expected ones that are not disabled, or the
\* Checker's own set, which check_judges() may still change.
Rank == [HTTP |-> 1, HTTPS |-> 2, SMTP |-> 3]
WaitFor == [HTTP |-> "waitHTTP", HTTPS |-> "waitHTTPS", SMTP |-> "waitSMTP"]

NeverBlocked(schemes) == {}
Blocking(schemes) == {s \in schemes : s \in needs /\ s \notin ev}

WaitsThrough(t, schemes) ==
  IF Blocking(schemes) # {}
    THEN /\ \E s \in Blocking(schemes) :
              /\ \A other \in Blocking(schemes) : Rank[s] <= Rank[other]
              /\ task' = [task EXCEPT ![t].pc = WaitFor[s]]
         /\ UNCHANGED types
    ELSE Continue(t, [task[t] EXCEPT !.loop = IF Expected[t] # {} THEN Expected[t] \cap ngtrs
                                                                   ELSE ngtrs,
                                     !.alias = Expected[t] = {}], types[t])

\* _in_DNSBL finds the proxy, or does not, or there is nothing to ask.
Listed(t) ==
  /\ task[t].pc = "start" /\ Dnsbl
  /\ task' = [task EXCEPT ![t].pc = "bad"]
  /\ UNCHANGED <<judgeVars, types>>

Start(t) ==
  /\ task[t].pc = "start"
  /\ WaitsThrough(t, Scheme)
  /\ UNCHANGED judgeVars

\* The event a task is blocked on has been set.  The flag is not asked again.
IsSet(s, t) == task[t].pc = WaitFor[s] /\ s \in ev

WokenUp(t) ==
  /\ \E s \in Scheme : IsSet(s, t) /\ WaitsThrough(t, {z \in Scheme : Rank[z] > Rank[s]})
  /\ UNCHANGED judgeVars

\* One attempt of _check or _check_conn_25 times out: once more, if any is left.
EndlessTries(t) == TRUE
TriesLeft(t) == task[t].tries + 1 < MaxTries

TryTimesOut(t) ==
  /\ task[t].pc = "try"
  /\ IF TriesLeft(t)
       THEN /\ task' = [task EXCEPT ![t].tries = (@ + 1) % MaxTries]
            /\ UNCHANGED types
       ELSE Continue(t, task[t], types[t])
  /\ UNCHANGED judgeVars

\* Any other error, or a response that is not correct, ends the protocol.
TryFails(t) ==
  /\ task[t].pc = "try"
  /\ Continue(t, task[t], types[t])
  /\ UNCHANGED judgeVars

\* What _check does not catch (a reply cut short, a payload that does not
\* decompress) leaves check() through the finally clause.
TryRaises(t) ==
  /\ task[t].pc = "try"
  /\ task' = [task EXCEPT ![t].pc = "raised"]
  /\ UNCHANGED <<judgeVars, types>>

\* The protocol works: proxy.types gets it, with a level if it is HTTP.
TryWorks(t) ==
  /\ task[t].pc = "try"
  /\ \E lvl \in IF task[t].proto = "HTTP" THEN Level ELSE {None} :
       Continue(t, [task[t] EXCEPT !.passed = @ \cup {task[t].proto}],
                [types[t] EXCEPT ![task[t].proto] = lvl])
  /\ UNCHANGED judgeVars

\* _verify_against_url never raises: an error is a verdict.
Verify(t) ==
  /\ task[t].pc = "verify"
  /\ \E verdict \in {"good", "bad"} : task' = [task EXCEPT ![t].pc = verdict]
  /\ UNCHANGED <<judgeVars, types>>

-----------------------------------------------------------------------------
TaskStep(t) ==
  \/ Start(t) \/ Listed(t) \/ WokenUp(t)
  \/ TryTimesOut(t) \/ TryFails(t) \/ TryRaises(t) \/ TryWorks(t)
  \/ Verify(t)

JudgeStep(j) == JudgeWorks(j) \/ JudgeFails(j) \/ JudgeRaises(j)

Next ==
  \/ \E j \in Judge : JudgeStep(j)
  \/ JudgesDone
  \/ \E t \in Task : TaskStep(t)

Spec == Init /\ [][Next]_vars

\* Timeouts bound every probe, attempt and verification.
Fairness ==
  /\ \A j \in Judge : WF_vars(JudgeStep(j))
  /\ WF_vars(JudgesDone)
  /\ \A t \in Task : WF_vars(TaskStep(t))

FairSpec == Spec /\ Fairness

-----------------------------------------------------------------------------
(* Properties. *)

\* Every variable has its type.
TypeOK ==
  /\ judge \in [Judge -> {"probing", "working", "failed", "raised"}]
  /\ probing \in {"running", "done", "noJudges", "failed"}
  /\ available \in [Scheme -> SUBSET (Judge \cup OldJudge)]
  /\ ev \subseteq Scheme /\ needs \subseteq Scheme /\ ngtrs \subseteq DOMAIN Types
  /\ task \in [Task -> TaskType]
  /\ types \in [Task -> [Proto -> Level \cup {None, Absent}]]
  /\ stale \subseteq Scheme

\* A proxy is called good only if, in this very check, it passed a requested
\* protocol that was not disabled; some type of it is as requested, and in
\* strict mode all the types it is left with are.
VerdictSound ==
  \A t \in Task : task[t].pc \in {"good", "verify"} =>
    LET fit == Fitting(types[t]) IN
    /\ fit # {} /\ Has(types[t]) \subseteq task[t].passed
    /\ fit \subseteq (IF Expected[t] # {} THEN Expected[t] ELSE Proto) \cap DOMAIN Types
    /\ Strict => Has(types[t]) = fit

\* Once check_judges() is over nobody is blocked for good: the event of a judge
\* that will not come has been set, whoever started to wait for it and when.
NoWaitInVain ==
  probing \in {"done", "noJudges"} =>
    \A t \in Task : task[t].pc \in Waits => \E s \in Scheme : IsSet(s, t)

\* The events order the checks after the judges: unless an earlier Checker left
\* events without judges behind, a check finds a judge for every protocol it
\* tries, and the set it iterates over does not change under it.  CONNECT:25
\* is the exception, as check_judges() never disables it.
JudgesBeforeChecks ==
  stale = {} =>
    \A t \in Task :
      /\ task[t].pc # "setChanged"
      /\ task[t].pc = "noJudge" => task[t].proto = "CONNECT:25"

\* Every check comes to an end, if no probe raises.
ChecksEnd ==
  \A t \in Task : <>(Over(t) \/ probing = "failed")

=============================================================================
