---------------------------- MODULE CheckerProofs -----------------------------
(* Theorems about Checker for any judges, tasks, requested and expected types. *)
EXTENDS Checker, TLAPS

Before == {"start"} \cup Waits

\* The types a proxy may be left with.
TypesType == [Proto -> Level \cup {None, Absent}]

\* What check_judges() has to do with the events, the flags and the protocols:
\* an event is set once there is a judge; all are when it is over, and until
\* then an event without a judge is one that was left behind.
ProbesSound ==
  /\ \A s \in Scheme : available[s] # {} => s \in ev
  /\ probing \in {"done", "noJudges"} =>
       /\ ev = Scheme /\ \A j \in Judge : judge[j] # "probing"
       /\ \A p \in ngtrs : p # "CONNECT:25" => available[SchemeOf(p)] # {}
  /\ probing \in {"running", "failed"} =>
       /\ ngtrs = DOMAIN Types /\ needs = {SchemeOf(p) : p \in DOMAIN Types}
       /\ stale = {} => \A s \in ev : available[s] # {}

\* The loop of a check goes over requested and expected protocols, the types it
\* found were found in this loop; with it over _ngtrs itself all events it had
\* to wait for are set, so that _ngtrs stays as it is and each has a judge.
RunSound(t, r, ty) ==
  /\ r.loop \subseteq DOMAIN Types
  /\ Expected[t] # {} => r.loop \subseteq Expected[t]
  /\ r.passed \subseteq r.begun /\ r.begun \subseteq r.loop /\ Has(ty) \subseteq r.passed
  /\ r.alias => \A s \in needs : s \in ev
  /\ stale = {} =>
       /\ r.alias => r.loop = ngtrs
       /\ \A p \in r.loop : p # "CONNECT:25" => available[SchemeOf(p)] # {}

\* Before the choice of its protocols a check has none; what it has waited for
\* so far need not be waited for again.
TaskSound(t, r, ty) ==
  /\ RunSound(t, r, ty)
  /\ r.pc = "try" => r.proto \in r.begun
  /\ r.pc \in Before => r.alias = FALSE /\ r.loop = {}
  /\ \A s \in Scheme : r.pc = WaitFor[s] =>
       \A z \in Scheme : Rank[z] < Rank[s] => z \notin needs \/ z \in ev

\* The verdict of one task, as in VerdictSound and JudgesBeforeChecks.
VerdictOf(t, r, ty) ==
  /\ r.pc \in {"good", "verify"} =>
       LET fit == Fitting(ty) IN
       /\ fit # {} /\ Has(ty) \subseteq r.passed
       /\ fit \subseteq (IF Expected[t] # {} THEN Expected[t] ELSE Proto) \cap DOMAIN Types
       /\ Strict => Has(ty) = fit
  /\ stale = {} =>
       /\ r.pc # "setChanged"
       /\ r.pc = "noJudge" => r.proto = "CONNECT:25"

CheckerInv ==
  /\ TypeOK /\ ProbesSound
  /\ \A t \in Task : TaskSound(t, task[t], types[t]) /\ VerdictOf(t, task[t], types[t])

\* Every protocol has a judge's scheme, without whose judge it is disabled; the
\* mail check is the exception.
LEMMA Schemes ==
  ASSUME NEW p \in Proto
  PROVE  /\ SchemeOf(p) \in Scheme
         /\ p # "CONNECT:25" => p \in Disabled(SchemeOf(p))
         /\ \A s \in Scheme : p \in Disabled(s) => s = SchemeOf(p)
BY DEF Proto, Scheme, SchemeOf, Disabled

\* The waiting places, one for each scheme, in the order they are passed.
LEMMA WaitingPlaces ==
  /\ \A s \in Scheme : WaitFor[s] \in Waits /\ Rank[s] \in Nat
  /\ \A s, z \in Scheme : WaitFor[s] = WaitFor[z] => s = z
  /\ \A s, z \in Scheme : Rank[s] = Rank[z] => s = z
BY DEF Scheme, WaitFor, Waits, Rank

\* The invariant holds when check_judges() begins.
LEMMA CheckerInit == Init => CheckerInv
<1> SUFFICES ASSUME Init PROVE CheckerInv  OBVIOUS
<1>1. PICK left \in SUBSET OldJudge, set \in SUBSET Scheme :
        /\ available = [s \in Scheme |-> {j \in left : JudgeScheme[j] = s}]
        /\ ev = set \cup {JudgeScheme[j] : j \in left}
  BY DEF Init
<1>2. ev \subseteq Scheme  BY <1>1, CheckerAssumption
<1>3. \A s \in Scheme : available[s] # {} => s \in ev  BY <1>1
<1>4. \A p \in DOMAIN Types : p \in Proto  BY CheckerAssumption
<1>5. needs \subseteq Scheme  BY <1>4, Schemes DEF Init
<1>6. TypeOK
  <2>1. available \in [Scheme -> SUBSET (Judge \cup OldJudge)]  BY <1>1
  <2>2. task \in [Task -> TaskType]
    BY CheckerAssumption DEF Init, TaskType, Pc, Waits, Verdict
  <2>3. types \in [Task -> TypesType]  BY DEF Init, TypesType
  <2> QED  BY <1>2, <1>5, <2>1, <2>2, <2>3 DEF Init, TypeOK, TypesType
<1>7. ProbesSound
  BY <1>2, <1>3 DEF ProbesSound, Init
<1>8. ASSUME NEW t \in Task PROVE TaskSound(t, task[t], types[t]) /\ VerdictOf(t, task[t], types[t])
  <2>1. /\ task[t].pc = "start" /\ task[t].loop = {} /\ task[t].alias = FALSE
        /\ task[t].begun = {} /\ task[t].passed = {} /\ types[t] = [p \in Proto |-> Absent]
    BY DEF Init
  <2>2. Has(types[t]) = {}  BY <2>1 DEF Has
  <2>3. \A s \in Scheme : WaitFor[s] # "start"  BY WaitingPlaces DEF Waits
  <2> QED  BY <2>1, <2>2, <2>3 DEF TaskSound, RunSound, VerdictOf
<1> QED  BY <1>6, <1>7, <1>8 DEF CheckerInv

\* The result of a probe only adds to what the checks rely on.
LEMMA JudgeStepKeeps ==
  ASSUME CheckerInv, NEW j \in Judge, JudgeStep(j)
  PROVE  CheckerInv'
<1> USE DEF CheckerInv
<1>1. /\ judge[j] = "probing" /\ UNCHANGED <<needs, ngtrs, task, types, stale>>
      /\ judge' = [judge EXCEPT ![j] = judge'[j]]
      /\ judge'[j] \in {"working", "failed", "raised"}
  <2>1. judge \in [Judge -> {"probing", "working", "failed", "raised"}]  BY DEF TypeOK
  <2>2. CASE JudgeWorks(j)  BY <2>1, <2>2 DEF JudgeWorks
  <2>3. CASE JudgeFails(j)  BY <2>1, <2>3 DEF JudgeFails
  <2>4. CASE JudgeRaises(j)  BY <2>1, <2>4 DEF JudgeRaises
  <2> QED  BY <2>2, <2>3, <2>4 DEF JudgeStep
<1>2. probing \in {"running", "failed"}  BY <1>1 DEF ProbesSound, TypeOK
<1>3. probing' \in {"running", "failed"}
  BY <1>2 DEF JudgeStep, JudgeWorks, JudgeFails, JudgeRaises
<1>4. /\ available' \in [Scheme -> SUBSET (Judge \cup OldJudge)] /\ ev' \subseteq Scheme
      /\ \A s \in Scheme : available[s] # {} => available'[s] # {}
      /\ \A s \in Scheme : s \in ev => s \in ev'
      /\ \A s \in Scheme : available'[s] # {} => s \in ev'
      /\ \A s \in ev' : s \in ev \/ available'[s] # {}
  <2>1. JudgeScheme[j] \in Scheme  BY CheckerAssumption
  <2>2. CASE JudgeWorks(j)
    BY <2>1, <2>2 DEF JudgeWorks, TypeOK, ProbesSound
  <2>3. CASE available' = available /\ ev' = ev  BY <2>3 DEF TypeOK, ProbesSound
  <2> QED  BY <2>2, <2>3 DEF JudgeStep, JudgeFails, JudgeRaises
<1>5. TypeOK'  BY <1>1, <1>3, <1>4 DEF TypeOK
<1>6. ProbesSound'
  <2>1. stale' = {} => \A s \in ev' : available'[s] # {}
    BY <1>1, <1>2, <1>4 DEF ProbesSound, TypeOK
  <2>2. ngtrs' = DOMAIN Types /\ needs' = {SchemeOf(p) : p \in DOMAIN Types}
    BY <1>1, <1>2 DEF ProbesSound
  <2> QED  BY <1>3, <1>4, <2>1, <2>2 DEF ProbesSound
<1>7. ASSUME NEW t \in Task PROVE TaskSound(t, task[t], types[t])' /\ VerdictOf(t, task[t], types[t])'
  <2>1. task[t].loop \subseteq Proto  BY DEF TypeOK, TaskType
  <2>2. \A p \in Proto : SchemeOf(p) \in Scheme  BY Schemes
  <2>3. needs \subseteq Scheme  BY DEF TypeOK
  <2>4. RunSound(t, task[t], types[t])'
    BY <1>1, <1>4, <2>1, <2>2, <2>3 DEF TaskSound, RunSound, Has
  <2>5. TaskSound(t, task[t], types[t])'  BY <1>1, <1>4, <2>4 DEF TaskSound
  <2>6. VerdictOf(t, task[t], types[t])'  BY <1>1 DEF VerdictOf, Has, Fitting, Fits
  <2> QED  BY <2>5, <2>6
<1> QED  BY <1>5, <1>6, <1>7

\* The end of check_judges() disables nothing a check without leftovers relies on.
LEMMA JudgesDoneKeeps ==
  ASSUME CheckerInv, JudgesDone
  PROVE  CheckerInv'
<1> USE DEF CheckerInv
<1>1. /\ probing = "running" /\ probing' \in {"done", "noJudges"}
      /\ \A j \in Judge : judge[j] # "probing"
      /\ UNCHANGED <<judge, available, task, types, stale>>
      /\ ev' = Woken /\ needs' = needs \ NoJudge
      /\ ngtrs' = ngtrs \ UNION {Disabled(s) : s \in NoJudge}
  BY DEF JudgesDone
<1>2. ngtrs = DOMAIN Types /\ needs = {SchemeOf(p) : p \in DOMAIN Types}
      /\ (stale = {} => \A s \in ev : available[s] # {})
  BY <1>1 DEF ProbesSound
<1>3. ev' = Scheme  BY <1>1 DEF Woken, NoJudge, ProbesSound, TypeOK
<1>4. needs' \subseteq Scheme /\ ngtrs' \subseteq DOMAIN Types  BY <1>1 DEF TypeOK
<1>5. TypeOK'  BY <1>1, <1>3, <1>4 DEF TypeOK
<1>6. \A p \in ngtrs' : p # "CONNECT:25" => available[SchemeOf(p)] # {}
  <2> SUFFICES ASSUME NEW p \in ngtrs', p # "CONNECT:25", available[SchemeOf(p)] = {}
               PROVE  FALSE
    OBVIOUS
  <2>1. p \in Proto  BY <1>4, CheckerAssumption
  <2>2. SchemeOf(p) \in NoJudge /\ p \in Disabled(SchemeOf(p))  BY <2>1, Schemes DEF NoJudge
  <2> QED  BY <1>1, <2>2
<1>7. ProbesSound'  BY <1>1, <1>3, <1>6 DEF ProbesSound
<1>8. ASSUME NEW t \in Task PROVE TaskSound(t, task[t], types[t])' /\ VerdictOf(t, task[t], types[t])'
  <2>1. ASSUME stale = {}, task[t].alias PROVE ngtrs' = ngtrs
    <3>1. \A s \in needs : available[s] # {}  BY <1>2, <2>1 DEF TaskSound, RunSound
    <3>2. ASSUME NEW s \in NoJudge, NEW p \in Disabled(s) PROVE p \notin ngtrs
      <4>1. SUFFICES ASSUME p \in ngtrs PROVE FALSE  OBVIOUS
      <4>2. p \in Proto /\ SchemeOf(p) \in needs  BY <1>2, <4>1, CheckerAssumption
      <4>3. s = SchemeOf(p)  BY <4>2, Schemes DEF NoJudge
      <4> QED  BY <3>1, <4>2, <4>3 DEF NoJudge
    <3> QED  BY <1>1, <3>2
  <2>2. needs' \subseteq Scheme  BY <1>4
  <2>3. RunSound(t, task[t], types[t])'
    BY <1>1, <1>3, <2>1, <2>2 DEF TaskSound, RunSound, Has
  <2>4. TaskSound(t, task[t], types[t])'  BY <1>1, <1>3, <2>3 DEF TaskSound
  <2>5. VerdictOf(t, task[t], types[t])'  BY <1>1 DEF VerdictOf, Has, Fitting, Fits
  <2> QED  BY <2>4, <2>5
<1> QED  BY <1>5, <1>7, <1>8

\* A step of one task leaves the others alone.
LEMMA TaskKeeps ==
  ASSUME CheckerInv, NEW t \in Task, NEW r \in TaskType, NEW ty \in TypesType,
         task' = [task EXCEPT ![t] = r], types' = [types EXCEPT ![t] = ty],
         UNCHANGED judgeVars, TaskSound(t, r, ty), VerdictOf(t, r, ty)
  PROVE  CheckerInv'
<1> USE DEF CheckerInv
<1>1. /\ judge' = judge /\ probing' = probing /\ available' = available /\ ev' = ev
      /\ needs' = needs /\ ngtrs' = ngtrs /\ stale' = stale
  BY DEF judgeVars
<1>2. task \in [Task -> TaskType] /\ types \in [Task -> TypesType]  BY DEF TypeOK, TypesType
<1>3. task' \in [Task -> TaskType] /\ types' \in [Task -> TypesType]  BY <1>2
<1>4. TypeOK'  BY <1>1, <1>3 DEF TypeOK, TypesType
<1>5. ProbesSound'  BY <1>1 DEF ProbesSound
<1>6. ASSUME NEW u \in Task
      PROVE  TaskSound(u, task[u], types[u])' /\ VerdictOf(u, task[u], types[u])'
  <2> DEFINE q == IF u = t THEN r ELSE task[u]
             qt == IF u = t THEN ty ELSE types[u]
  <2>1. task'[u] = q /\ types'[u] = qt  BY <1>2
  <2>2. TaskSound(u, q, qt) /\ VerdictOf(u, q, qt)  OBVIOUS
  <2> HIDE DEF q, qt
  <2>3. TaskSound(u, task[u], types[u])'  BY <1>1, <2>1, <2>2 DEF TaskSound, RunSound
  <2>4. VerdictOf(u, task[u], types[u])'  BY <1>1, <2>1, <2>2 DEF VerdictOf
  <2> QED  BY <2>3, <2>4
<1> QED  BY <1>4, <1>5, <1>6

\* The types a proxy is left with fit as those it had, and in strict mode
\* there are no others.
LEMMA TypesLeftFit ==
  ASSUME NEW ty \in TypesType
  PROVE  /\ TypesLeft(ty) \in TypesType /\ Fitting(TypesLeft(ty)) = Fitting(ty)
         /\ Has(TypesLeft(ty)) \subseteq Has(ty) /\ Fitting(ty) \subseteq Has(ty)
         /\ Strict => Has(TypesLeft(ty)) = Fitting(ty)
<1> DEFINE left == TypesLeft(ty)
<1>1. Has(ty) \subseteq Proto /\ Fitting(ty) \subseteq Has(ty)  BY DEF Has, Fitting
<1>2. left \in TypesType  BY DEF TypesLeft, TypesType
<1>3. \A p \in Proto : left[p] = IF Strict /\ p \notin Fitting(ty) THEN Absent ELSE ty[p]
  BY DEF TypesLeft
<1> HIDE DEF left
<1>4. CASE Strict
  <2>1. Has(left) = Fitting(ty)  BY <1>1, <1>3, <1>4 DEF Has
  <2>2. \A p \in Fitting(ty) : left[p] = ty[p]  BY <1>1, <1>3
  <2>3. Fitting(left) = Fitting(ty)  BY <1>1, <2>1, <2>2 DEF Fitting
  <2> QED  BY <1>1, <1>2, <2>1, <2>3 DEF left
<1>5. CASE ~Strict
  <2>1. \A p \in Proto : left[p] = ty[p]  BY <1>3, <1>5
  <2>2. Has(left) = Has(ty)  BY <2>1 DEF Has
  <2>3. Fitting(left) = Fitting(ty)  BY <1>1, <2>1, <2>2 DEF Fitting
  <2> QED  BY <1>1, <1>2, <1>5, <2>2, <2>3 DEF left
<1> QED  BY <1>4, <1>5

\* From the head of the loop: the next attempt or the verdict.
LEMMA ContinueKeeps ==
  ASSUME CheckerInv, NEW t \in Task, NEW r \in TaskType, NEW ty \in TypesType,
         RunSound(t, r, ty), Continue(t, r, ty), UNCHANGED judgeVars
  PROVE  CheckerInv'
<1>1. \A s \in Scheme : WaitFor[s] \in Waits  BY WaitingPlaces
<1>2. r.loop \subseteq Proto /\ r.begun \subseteq Proto /\ r.alias \in BOOLEAN
  BY DEF TaskType
<1>3. CASE NextProtocol(t, r, ty)
  <2>1. PICK p \in r.loop \ r.begun :
          task' = [task EXCEPT ![t] =
            [r EXCEPT !.pc = IF available[SchemeOf(p)] = {} THEN "noJudge" ELSE "try",
                      !.begun = @ \cup {p}, !.proto = p, !.tries = 0]]
    BY <1>3 DEF NextProtocol
  <2>2. types' = [types EXCEPT ![t] = ty]  BY <1>3 DEF NextProtocol
  <2> DEFINE q == [r EXCEPT !.pc = IF available[SchemeOf(p)] = {} THEN "noJudge" ELSE "try",
                            !.begun = @ \cup {p}, !.proto = p, !.tries = 0]
  <2>3. /\ q.pc = IF available[SchemeOf(p)] = {} THEN "noJudge" ELSE "try"
        /\ q.begun = r.begun \cup {p} /\ q.proto = p /\ q.tries = 0
        /\ q.loop = r.loop /\ q.alias = r.alias /\ q.passed = r.passed
    BY DEF TaskType
  <2>4. q \in TaskType
    <3>1. 0 \in 0..MaxTries  BY CheckerAssumption
    <3>2. p \in Proto  BY <1>2
    <3>3. {"noJudge", "try"} \subseteq Pc  BY DEF Pc, Verdict
    <3> QED  BY <1>2, <3>1, <3>2, <3>3 DEF TaskType
  <2>5. task' = [task EXCEPT ![t] = q]  BY <2>1
  <2> HIDE DEF q
  <2>6. RunSound(t, q, ty)  BY <2>3 DEF RunSound
  <2>7. q.pc \notin Before /\ \A s \in Scheme : q.pc # WaitFor[s]
    BY <1>1, <2>3 DEF Before, Waits
  <2>8. TaskSound(t, q, ty)  BY <2>3, <2>6, <2>7 DEF TaskSound
  <2>9. VerdictOf(t, q, ty)  BY <2>3 DEF VerdictOf, RunSound
  <2> QED  BY <2>2, <2>4, <2>5, <2>8, <2>9, TaskKeeps
<1>4. CASE IterationRaises(t, r, ty)
  <2> DEFINE q == [r EXCEPT !.pc = "setChanged"]
  <2>1. task' = [task EXCEPT ![t] = q] /\ types' = [types EXCEPT ![t] = ty]
    BY <1>4 DEF IterationRaises
  <2>2. /\ q.pc = "setChanged" /\ q \in TaskType /\ q.begun = r.begun /\ q.proto = r.proto
        /\ q.loop = r.loop /\ q.alias = r.alias /\ q.passed = r.passed
    BY DEF TaskType, Pc, Verdict
  <2>3. stale # {}  BY <1>4 DEF IterationRaises, LoopChanged, RunSound
  <2> HIDE DEF q
  <2>4. RunSound(t, q, ty)  BY <2>2 DEF RunSound
  <2>5. TaskSound(t, q, ty)  BY <1>1, <2>2, <2>4 DEF TaskSound, Before, Waits
  <2>6. VerdictOf(t, q, ty)  BY <2>2, <2>3 DEF VerdictOf
  <2> QED  BY <2>1, <2>2, <2>5, <2>6, TaskKeeps
<1>5. CASE Judged(t, r, ty)
  <2> DEFINE passes == r.passed # {} /\ Fitting(ty) # {}
             pc == IF ~passes THEN "bad" ELSE IF VerifyUrl THEN "verify" ELSE "good"
             q == [r EXCEPT !.pc = pc]
             qt == IF r.passed # {} THEN TypesLeft(ty) ELSE ty
  <2>1. task' = [task EXCEPT ![t] = q] /\ types' = [types EXCEPT ![t] = qt]
    BY <1>5 DEF Judged
  <2>2. /\ q.pc = pc /\ q \in TaskType /\ q.begun = r.begun /\ q.proto = r.proto
        /\ q.loop = r.loop /\ q.alias = r.alias /\ q.passed = r.passed
    BY DEF TaskType, Pc, Verdict
  <2>3. pc \in {"bad", "verify", "good"} /\ (pc # "bad" => passes)  OBVIOUS
  <2>4. /\ qt \in TypesType /\ Fitting(qt) = Fitting(ty)
        /\ Has(qt) \subseteq Has(ty) /\ Fitting(ty) \subseteq Has(ty)
        /\ passes /\ Strict => Has(qt) = Fitting(qt)
    BY TypesLeftFit
  <2>5. passes => Fitting(ty) # {}  OBVIOUS
  <2> HIDE DEF q, qt, pc, passes
  <2>6. RunSound(t, q, qt)  BY <2>2, <2>4 DEF RunSound
  <2>7. TaskSound(t, q, qt)  BY <1>1, <2>2, <2>3, <2>6 DEF TaskSound, Before, Waits
  <2>8. VerdictOf(t, q, qt)
    <3>1. Fitting(qt) \subseteq r.loop  BY <2>4 DEF RunSound
    <3>2. Has(qt) \subseteq q.passed  BY <2>2, <2>4 DEF RunSound
    <3> QED  BY <1>2, <2>2, <2>3, <2>4, <2>5, <3>1, <3>2 DEF VerdictOf, RunSound
  <2> QED  BY <2>1, <2>2, <2>4, <2>7, <2>8, TaskKeeps
<1> QED  BY <1>3, <1>4, <1>5 DEF Continue

\* What a task that has waited may rely on when it chooses its protocols.
LEMMA Chosen ==
  ASSUME CheckerInv, NEW t \in Task, task[t].pc \in Before,
         \A s \in needs : s \in ev, NEW alias \in BOOLEAN, NEW loop \in SUBSET ngtrs,
         alias => loop = ngtrs, Expected[t] # {} => loop \subseteq Expected[t]
  PROVE  LET r == [task[t] EXCEPT !.loop = loop, !.alias = alias]
         IN  r \in TaskType /\ RunSound(t, r, types[t])
<1> USE DEF CheckerInv
<1> DEFINE r == [task[t] EXCEPT !.loop = loop, !.alias = alias]
<1>1. task[t] \in TaskType /\ ngtrs \subseteq DOMAIN Types  BY DEF TypeOK
<1>2. DOMAIN Types \subseteq Proto  BY CheckerAssumption
<1>3. r \in TaskType  BY <1>1, <1>2 DEF TaskType
<1>4. r.loop = loop /\ r.alias = alias /\ r.begun = task[t].begun /\ r.passed = task[t].passed
  BY <1>1 DEF TaskType
<1>5. task[t].begun = {} /\ task[t].passed = {} /\ Has(types[t]) = {}
  BY DEF TaskSound, RunSound
<1>6. ASSUME stale = {}, NEW p \in loop, p # "CONNECT:25" PROVE available[SchemeOf(p)] # {}
  <2>1. CASE probing \in {"done", "noJudges"}  BY <1>6, <2>1 DEF ProbesSound
  <2>2. CASE probing \in {"running", "failed"}
    <3>1. SchemeOf(p) \in needs  BY <1>1, <2>2 DEF ProbesSound
    <3> QED  BY <1>6, <2>2, <3>1 DEF ProbesSound
  <2> QED  BY <2>1, <2>2 DEF TypeOK
<1> HIDE DEF r
<1>7. RunSound(t, r, types[t])  BY <1>1, <1>4, <1>5, <1>6 DEF RunSound
<1> QED  BY <1>3, <1>7 DEF r

\* Through the remaining events, or blocked on the first that is not set.
LEMMA WaitsThroughKeeps ==
  ASSUME CheckerInv, NEW t \in Task, task[t].pc \in Before,
         NEW schemes \in SUBSET Scheme, \A z \in Scheme \ schemes : z \notin needs \/ z \in ev,
         WaitsThrough(t, schemes), UNCHANGED judgeVars
  PROVE  CheckerInv'
<1>1. task[t] \in TaskType /\ types[t] \in TypesType /\ types \in [Task -> TypesType]
      /\ task \in [Task -> TaskType] /\ needs \subseteq Scheme
  BY DEF CheckerInv, TypeOK, TypesType
<1>2. TaskSound(t, task[t], types[t])  BY DEF CheckerInv
<1>3. CASE Blocking(schemes) # {}
  <2>1. PICK s \in Blocking(schemes) :
          /\ \A other \in Blocking(schemes) : Rank[s] <= Rank[other]
          /\ task' = [task EXCEPT ![t].pc = WaitFor[s]]
    BY <1>3 DEF WaitsThrough
  <2>2. types' = [types EXCEPT ![t] = types[t]]  BY <1>1, <1>3 DEF WaitsThrough
  <2> DEFINE q == [task[t] EXCEPT !.pc = WaitFor[s]]
  <2>3. task' = [task EXCEPT ![t] = q]  BY <2>1
  <2>4. s \in Scheme /\ WaitFor[s] \in Waits  BY WaitingPlaces DEF Blocking
  <2>5. /\ q.pc = WaitFor[s] /\ q \in TaskType /\ q.begun = task[t].begun
        /\ q.proto = task[t].proto /\ q.loop = task[t].loop /\ q.alias = task[t].alias
        /\ q.passed = task[t].passed
    BY <1>1, <2>4 DEF TaskType, Pc
  <2> HIDE DEF q
  <2>6. RunSound(t, q, types[t])  BY <1>2, <2>5 DEF TaskSound, RunSound
  <2>7. ASSUME NEW z \in Scheme, Rank[z] < Rank[s] PROVE z \notin needs \/ z \in ev
    <3>1. Rank[z] \in Nat /\ Rank[s] \in Nat  BY <2>4, WaitingPlaces
    <3>2. z \notin Blocking(schemes)  BY <2>1, <2>7, <3>1
    <3> QED  BY <3>2 DEF Blocking
  <2>8. \A y \in Scheme : q.pc = WaitFor[y] => y = s  BY <2>4, <2>5, WaitingPlaces
  <2>9. q.pc # "try" /\ q.pc \notin {"good", "verify", "setChanged", "noJudge"}
    BY <2>4, <2>5 DEF Waits
  <2>10. q.alias = FALSE /\ q.loop = {}  BY <1>2, <2>5 DEF TaskSound
  <2>11. TaskSound(t, q, types[t])  BY <2>6, <2>7, <2>8, <2>9, <2>10 DEF TaskSound
  <2>12. VerdictOf(t, q, types[t])  BY <2>9 DEF VerdictOf
  <2> QED  BY <1>1, <2>2, <2>3, <2>5, <2>11, <2>12, TaskKeeps
<1>4. CASE Blocking(schemes) = {}
  <2> DEFINE loop == IF Expected[t] # {} THEN Expected[t] \cap ngtrs ELSE ngtrs
             alias == Expected[t] = {}
             r == [task[t] EXCEPT !.loop = loop, !.alias = alias]
  <2>1. Continue(t, r, types[t])  BY <1>4 DEF WaitsThrough
  <2>2. \A s \in needs : s \in ev  BY <1>1, <1>4 DEF Blocking
  <2>3. /\ loop \in SUBSET ngtrs /\ alias \in BOOLEAN /\ (alias => loop = ngtrs)
        /\ (Expected[t] # {} => loop \subseteq Expected[t])
    OBVIOUS
  <2>4. r \in TaskType /\ RunSound(t, r, types[t])
    <3> HIDE DEF loop, alias
    <3> QED  BY <2>2, <2>3, Chosen
  <2> HIDE DEF r
  <2> QED  BY <1>1, <2>1, <2>4, ContinueKeeps
<1> QED  BY <1>3, <1>4

\* Every step of a check keeps the invariant.
LEMMA TaskStepKeeps ==
  ASSUME CheckerInv, NEW t \in Task, TaskStep(t)
  PROVE  CheckerInv'
<1>1. task[t] \in TaskType /\ types[t] \in TypesType /\ types \in [Task -> TypesType]
      /\ task \in [Task -> TaskType] /\ needs \subseteq Scheme /\ ev \subseteq Scheme
  BY DEF CheckerInv, TypeOK, TypesType
<1>2. TaskSound(t, task[t], types[t]) /\ RunSound(t, task[t], types[t])
      /\ VerdictOf(t, task[t], types[t])
  BY DEF CheckerInv, TaskSound
<1>3. types = [types EXCEPT ![t] = types[t]]  BY <1>1
  \* A new place for a task that keeps the rest of its record.
<1>4. ASSUME NEW pc \in {"bad", "raised", "good"}, UNCHANGED judgeVars,
             task' = [task EXCEPT ![t].pc = pc], types' = types,
             pc = "good" => task[t].pc = "verify"
      PROVE  CheckerInv'
  <2> DEFINE q == [task[t] EXCEPT !.pc = pc]
  <2>1. task' = [task EXCEPT ![t] = q]  BY <1>4
  <2>2. /\ q.pc = pc /\ q \in TaskType /\ q.begun = task[t].begun
        /\ q.proto = task[t].proto /\ q.loop = task[t].loop /\ q.alias = task[t].alias
        /\ q.passed = task[t].passed
    BY <1>1, <1>4 DEF TaskType, Pc, Verdict
  <2> HIDE DEF q
  <2>3. RunSound(t, q, types[t])  BY <1>2, <2>2 DEF RunSound
  <2>4. \A s \in Scheme : q.pc # WaitFor[s]  BY <1>4, <2>2, WaitingPlaces DEF Waits
  <2>5. TaskSound(t, q, types[t])  BY <1>4, <2>2, <2>3, <2>4 DEF TaskSound, Before, Waits
  <2>6. VerdictOf(t, q, types[t])  BY <1>2, <1>4, <2>2 DEF VerdictOf
  <2> QED  BY <1>1, <1>3, <1>4, <2>1, <2>2, <2>5, <2>6, TaskKeeps
<1>5. CASE Start(t)
  BY <1>5, WaitsThroughKeeps DEF Start, Before
<1>6. CASE Listed(t)
  BY <1>4, <1>6 DEF Listed
<1>7. CASE WokenUp(t)
  <2>1. PICK s \in Scheme :
          IsSet(s, t) /\ WaitsThrough(t, {z \in Scheme : Rank[z] > Rank[s]})
    BY <1>7 DEF WokenUp
  <2> DEFINE schemes == {z \in Scheme : Rank[z] > Rank[s]}
  <2>2. task[t].pc = WaitFor[s] /\ s \in ev /\ task[t].pc \in Before
    BY <2>1, WaitingPlaces DEF IsSet, Before
  <2>3. ASSUME NEW z \in Scheme \ schemes PROVE z \notin needs \/ z \in ev
    <3>1. Rank[z] \in Nat /\ Rank[s] \in Nat  BY WaitingPlaces
    <3>2. CASE z = s  BY <2>2, <3>2
    <3>3. CASE z # s
      <4>1. Rank[z] < Rank[s]  BY <3>1, <3>3, WaitingPlaces
      <4> QED  BY <1>2, <2>2, <4>1 DEF TaskSound
    <3> QED  BY <3>2, <3>3
  <2>4. schemes \in SUBSET Scheme /\ WaitsThrough(t, schemes)  BY <2>1
  <2>5. UNCHANGED judgeVars  BY <1>7 DEF WokenUp
  <2> HIDE DEF schemes
  <2> QED  BY <2>2, <2>3, <2>4, <2>5, WaitsThroughKeeps
<1>8. CASE TryTimesOut(t)
  <2>1. CASE TriesLeft(t)
    <3> DEFINE q == [task[t] EXCEPT !.tries = (task[t].tries + 1) % MaxTries]
    <3>1. task' = [task EXCEPT ![t] = q] /\ types' = types /\ UNCHANGED judgeVars
      BY <1>8, <2>1 DEF TryTimesOut
    <3>2. (task[t].tries + 1) % MaxTries \in 0..MaxTries
      <4>1. task[t].tries \in Nat /\ MaxTries \in Nat \ {0}
        BY <1>1, CheckerAssumption DEF TaskType
      <4>2. (task[t].tries + 1) % MaxTries \in 0..MaxTries - 1
        BY <4>1
      <4> QED  BY <4>1, <4>2
    <3>3. /\ q.pc = task[t].pc /\ q \in TaskType /\ q.begun = task[t].begun
          /\ q.proto = task[t].proto /\ q.loop = task[t].loop /\ q.alias = task[t].alias
          /\ q.passed = task[t].passed
      BY <1>1, <3>2 DEF TaskType
    <3> HIDE DEF q
    <3>4. TaskSound(t, q, types[t])  BY <1>2, <3>3 DEF TaskSound, RunSound
    <3>5. VerdictOf(t, q, types[t])  BY <1>2, <3>3 DEF VerdictOf
    <3> QED  BY <1>1, <1>3, <3>1, <3>3, <3>4, <3>5, TaskKeeps
  <2>2. CASE ~TriesLeft(t)
    BY <1>1, <1>2, <1>8, <2>2, ContinueKeeps DEF TryTimesOut
  <2> QED  BY <2>1, <2>2
<1>9. CASE TryFails(t)
  BY <1>1, <1>2, <1>9, ContinueKeeps DEF TryFails
<1>10. CASE TryRaises(t)
  <2>1. /\ task' = [task EXCEPT ![t].pc = "raised"] /\ types' = types /\ UNCHANGED judgeVars
    BY <1>10 DEF TryRaises, judgeVars
  <2> QED  BY <2>1, <1>4
<1>11. CASE TryWorks(t)
  <2>1. task[t].pc = "try" /\ UNCHANGED judgeVars  BY <1>11 DEF TryWorks
  <2>2. PICK lvl \in Level \cup {None} :
          Continue(t, [task[t] EXCEPT !.passed = @ \cup {task[t].proto}],
                   [types[t] EXCEPT ![task[t].proto] = lvl])
    BY <1>11 DEF TryWorks
  <2> DEFINE p == task[t].proto
             r == [task[t] EXCEPT !.passed = task[t].passed \cup {p}]
             ty == [types[t] EXCEPT ![p] = lvl]
  <2>3. p \in task[t].begun /\ p \in Proto
    BY <1>1, <1>2, <2>1 DEF TaskSound, TaskType
  <2>4. /\ r \in TaskType /\ r.passed = task[t].passed \cup {p} /\ r.begun = task[t].begun
        /\ r.loop = task[t].loop /\ r.alias = task[t].alias
    BY <1>1, <2>3 DEF TaskType
  <2>5. ty \in TypesType  BY <1>1, <2>3 DEF TypesType
  <2>6. Has(ty) \subseteq Has(types[t]) \cup {p}  BY <1>1, <2>3 DEF Has, TypesType
  <2>7. Continue(t, r, ty)  BY <2>2
  <2> HIDE DEF r, ty, p
  <2>8. RunSound(t, r, ty)  BY <1>2, <2>3, <2>4, <2>6 DEF RunSound
  <2> QED  BY <2>1, <2>4, <2>5, <2>7, <2>8, ContinueKeeps
<1>12. CASE Verify(t)
  <2>1. task[t].pc = "verify" /\ types' = types /\ UNCHANGED judgeVars
    BY <1>12 DEF Verify, judgeVars
  <2>2. PICK verdict \in {"good", "bad"} : task' = [task EXCEPT ![t].pc = verdict]
    BY <1>12 DEF Verify
  <2> QED  BY <2>1, <2>2, <1>4
<1> QED
  BY <1>5, <1>6, <1>7, <1>8, <1>9, <1>10, <1>11, <1>12 DEF TaskStep

\* In every behaviour the types are right, and every check relies only on what
\* check_judges() cannot take away.
THEOREM CheckerInvariant == Spec => []CheckerInv
<1>1. Init => CheckerInv  BY CheckerInit
<1>2. CheckerInv /\ [Next]_vars => CheckerInv'
  <2> SUFFICES ASSUME CheckerInv, [Next]_vars PROVE CheckerInv'  OBVIOUS
  <2>1. CASE UNCHANGED vars
    <3> USE <2>1 DEF CheckerInv, vars
    <3>1. TypeOK' /\ ProbesSound'  BY DEF TypeOK, ProbesSound
    <3>2. ASSUME NEW t \in Task
          PROVE  TaskSound(t, task[t], types[t])' /\ VerdictOf(t, task[t], types[t])'
      BY DEF TaskSound, RunSound, VerdictOf
    <3> QED  BY <3>1, <3>2
  <2>2. CASE Next
    BY <2>2, JudgeStepKeeps, JudgesDoneKeeps, TaskStepKeeps DEF Next
  <2> QED  BY <2>1, <2>2
<1> QED  BY <1>1, <1>2, PTL DEF Spec

\* A proxy called good passed a requested protocol in this very check, and in
\* strict mode is left with requested types only.
THEOREM VerdictsAreSound == Spec => []VerdictSound
<1>1. CheckerInv => VerdictSound  BY DEF CheckerInv, VerdictOf, VerdictSound
<1> QED  BY <1>1, CheckerInvariant, PTL

\* No check is blocked for good once check_judges() is over.
THEOREM NobodyWaitsInVain == Spec => []NoWaitInVain
<1>1. CheckerInv => NoWaitInVain
  <2> SUFFICES ASSUME CheckerInv, probing \in {"done", "noJudges"},
                      NEW t \in Task, task[t].pc \in Waits
               PROVE  \E s \in Scheme : IsSet(s, t)
    BY DEF NoWaitInVain
  <2>1. ev = Scheme  BY DEF CheckerInv, ProbesSound
  <2>2. \E s \in Scheme : task[t].pc = WaitFor[s]  BY DEF Waits, Scheme, WaitFor
  <2> QED  BY <2>1, <2>2 DEF IsSet
<1> QED  BY <1>1, CheckerInvariant, PTL

\* Without events left behind by another Checker, a check finds a judge for each
\* protocol it tries but CONNECT:25, and its set does not change under it.
THEOREM JudgesComeFirst == Spec => []JudgesBeforeChecks
<1>1. CheckerInv => JudgesBeforeChecks
  BY DEF CheckerInv, VerdictOf, JudgesBeforeChecks
<1> QED  BY <1>1, CheckerInvariant, PTL
===============================================================================
