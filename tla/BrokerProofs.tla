---------------------------- MODULE BrokerProofs ----------------------------
(* Theorems about Broker for every value of its constants. *)
EXTENDS Broker, FiniteSetTheorems, SequenceTheorems, WellFoundedInduction, TLAPS

\* What _push_to_result puts is a sequence of one or two items.
LEMMA PushedType ==
  ASSUME NEW x \in Addr \cup {None}
  PROVE  /\ Pushed(x) \in Seq(Addr \cup {None})
         /\ Len(Pushed(x)) \in {1, 2}
<1>1. CASE HitsLimit
  <2>1. Pushed(x) = <<x, None>>  BY <1>1 DEF Pushed
  <2>2. <<x, None>> \in Seq(Addr \cup {None})  OBVIOUS
  <2>3. Len(<<x, None>>) = 2  OBVIOUS
  <2> QED  BY <2>1, <2>2, <2>3
<1>2. CASE ~HitsLimit
  <2>1. Pushed(x) = <<x>>  BY <1>2 DEF Pushed
  <2>2. <<x>> \in Seq(Addr \cup {None})  OBVIOUS
  <2>3. Len(<<x>>) = 1  OBVIOUS
  <2> QED  BY <2>1, <2>2, <2>3
<1> QED  BY <1>1, <1>2

\* What _push_to_result leaves is again a sequence of results and an integer limit.
LEMMA PushToResultType ==
  ASSUME ResultsOK, NEW x \in Addr \cup {None}, PushToResult(x)
  PROVE  results' \in Seq(Addr \cup {None}) /\ limit' \in Int
<1>1. results \in Seq(Addr \cup {None}) /\ limit \in Int  BY DEF ResultsOK
<1>2. results' = results \o Pushed(x) /\ limit' = limit - Len(Pushed(x))  BY DEF PushToResult
<1>3. results \o Pushed(x) \in Seq(Addr \cup {None})  BY <1>1, PushedType
<1>4. Len(Pushed(x)) \in Int  BY PushedType
<1> QED  BY <1>1, <1>2, <1>3, <1>4

\* Cancelling keeps the types of what it touches.
LEMMA CancelledChecksType ==
  ASSUME NEW cs \in [CheckId -> CheckType]
  PROVE  CancelledChecks(cs) \in [CheckId -> CheckType]
<1>1. \A t \in CheckId : cs[t].st = "running" =>
         [cs[t] EXCEPT !.st = "cancelled"] \in CheckType
  BY DEF CheckType, Free, Outcomes
<1> QED  BY <1>1 DEF CancelledChecks

\* The same for the fetches.
LEMMA CancelledFetchesType ==
  ASSUME fetch \in FetchType
  PROVE  CancelledFetches \in FetchType
  BY DEF CancelledFetches, FetchType

\* The same for the loaders.
LEMMA CancelledLoadersType ==
  ASSUME NEW pcs \in PcType, NEW self
  PROVE  CancelledLoaders(pcs, self) \in PcType
  BY DEF CancelledLoaders, PcType, Over

\* The types hold before the first step.
LEMMA InitType == Init => TypeOK
  <1> SUFFICES ASSUME Init PROVE TypeOK  OBVIOUS
  <1> USE BrokerAssumption DEF Init
  <1>1. LoadersOK  BY DEF LoadersOK, Loaders, PcType, Waiting
  <1>2. ChecksOK  BY DEF ChecksOK, CheckType, Free
  <1>3. call \in CallType  BY DEF CallType
  <1>4. ResultsOK  BY <1>3 DEF ResultsOK, CallType
  <1>5. RestOK  BY <1>3 DEF RestOK, CallType, FetchType, StatType
  <1> QED BY <1>1, <1>2, <1>4, <1>5 DEF TypeOK

\* find() creates its loaders with the types of their variables.
LEMMA FindType ==
  ASSUME TypeOK, Find
  PROVE  TypeOK'
<1> USE DEF TypeOK
<1>1. call \in CallType  BY BrokerAssumption DEF RestOK
<1>2. PICK known \in SUBSET (stored \ Abroad) :
        /\ todo' = [todo EXCEPT !["load"] = call.given, !["warm"] = known]
        /\ pc' = [l \in Loaders |->
                    CASE l = "load" -> IF call.fn = "data" THEN "ready" ELSE "off"
                      [] l = "warm" -> IF known # {} THEN "ready" ELSE "off"
                      [] l = "grab" -> IF call.fn = "find" THEN "ready" ELSE "off"]
  BY DEF Find
<1>3. LoadersOK'
  <2>1. pc' \in PcType  BY <1>2 DEF PcType, Waiting, Loaders
  <2>2. call.given \in SUBSET Cand /\ known \in SUBSET Cand
    BY <1>1 DEF CallType, ResultsOK, Cand
  <2>3. todo' \in [Loaders -> SUBSET Cand]  BY <1>2, <2>2 DEF LoadersOK
  <2> QED  BY <2>1, <2>3 DEF Find, LoadersOK
<1>4. ChecksOK'  BY DEF Find, ChecksOK, checkVars
<1>5. ResultsOK'
  <2>1. limit' \in Int  BY <1>1 DEF Find, CallType
  <2> QED  BY <2>1 DEF Find, ResultsOK
<1>6. RestOK'
  <2>1. autosaving' \in BOOLEAN  BY <1>1 DEF Find, CallType
  <2> QED  BY <2>1 DEF Find, RestOK
<1> QED  BY <1>3, <1>4, <1>5, <1>6

\* The pool file only ever holds addresses.
LEMMA SavedType ==
  ASSUME ResultsOK, NEW v \in SUBSET Addr
  PROVE  Saved(v) \subseteq Addr
  BY DEF Saved, ResultsOK

\* stop() keeps every type.
LEMMA StopType ==
  ASSUME TypeOK, Stop
  PROVE  TypeOK'
<1> USE DEF TypeOK
<1>1. LoadersOK'
  <2>1. pc' \in PcType  BY CancelledLoadersType DEF Stop, LoadersOK
  <2> QED  BY <2>1 DEF Stop, LoadersOK
<1>2. ChecksOK'
  <2>1. checks' \in [CheckId -> CheckType]  BY CancelledChecksType DEF Stop, ChecksOK
  <2> QED  BY <2>1 DEF Stop, ChecksOK
<1>3. ResultsOK'
  <2>1. results' \in Seq(Addr \cup {None}) /\ limit' \in Int
    BY PushToResultType DEF Stop
  <2>2. stored' \subseteq Addr  BY SavedType DEF Stop, ResultsOK
  <2> QED  BY <2>1, <2>2 DEF Stop, ResultsOK
<1>4. RestOK'
  <2>1. fetch' \in FetchType  BY CancelledFetchesType DEF Stop, RestOK
  <2>2. stops' \in Nat  BY DEF Stop, RestOK
  <2>3. server' \in BOOLEAN /\ autosaving' \in BOOLEAN  BY DEF Stop
  <2>4. UNCHANGED <<call, calling, unique, dead, stat>>  BY DEF Stop
  <2> QED  BY <2>1, <2>2, <2>3, <2>4 DEF RestOK
<1> QED  BY <1>1, <1>2, <1>3, <1>4

\* A loader's last statement keeps every type.
LEMMA FinishType ==
  ASSUME TypeOK, NEW l \in Loaders, Finish(l)
  PROVE  TypeOK'
<1> USE DEF TypeOK
<1>1. LoadersOK'
  <2>1. CancelledLoaders(pc, l) \in PcType  BY CancelledLoadersType DEF LoadersOK
  <2>2. pc' \in PcType  BY <2>1 DEF Finish, PcType, Over
  <2> QED  BY <2>2 DEF Finish, LoadersOK
<1>2. ChecksOK'
  <2>1. checks' \in [CheckId -> CheckType]  BY CancelledChecksType DEF Finish, ChecksOK
  <2> QED  BY <2>1 DEF Finish, ChecksOK
<1>3. ResultsOK'
  <2>1. results' \in Seq(Addr \cup {None}) /\ limit' \in Int
    BY PushToResultType DEF Finish
  <2>2. stored' \subseteq Addr  BY SavedType DEF Finish, ResultsOK
  <2> QED  BY <2>1, <2>2 DEF Finish, ResultsOK
<1>4. RestOK'
  <2>1. fetch' \in FetchType  BY CancelledFetchesType DEF Finish, RestOK
  <2> QED  BY <2>1 DEF Finish, RestOK
<1> QED  BY <1>1, <1>2, <1>3, <1>4

\* An unchecked result keeps every type, whether it reaches the limit or not.
LEMMA DeliverType ==
  ASSUME TypeOK, NEW l \in Loaders, Deliver(l)
  PROVE  TypeOK'
<1> USE DEF TypeOK
<1>1. PICK a \in Fresh(hand[l]) :
        /\ unique' = unique \cup {a}
        /\ PushToResult(a)
        /\ verified' = IF call.store THEN verified \cup {a} ELSE verified
  BY DEF Deliver
<1>2. a \in Addr
  <2>1. Created(hand[l]) \subseteq Addr  BY DEF Created
  <2> QED  BY <1>1, <2>1 DEF Fresh
<1>3. verified' \subseteq Addr  BY <1>1, <1>2 DEF ResultsOK
<1>4. LoadersOK'
  <2>1. CancelledLoaders(pc, l) \in PcType  BY CancelledLoadersType DEF LoadersOK
  <2>2. pc' \in PcType
    <3>1. CASE HitsLimit
      <4>1. pc' = [CancelledLoaders(pc, l) EXCEPT ![l] = "handle"]  BY <3>1 DEF Deliver
      <4> QED  BY <2>1, <4>1 DEF PcType
    <3>2. CASE ~HitsLimit
      <4>1. pc' = [pc EXCEPT ![l] = "handle"]  BY <3>2 DEF Deliver
      <4> QED  BY <4>1 DEF PcType, LoadersOK
    <3> QED  BY <3>1, <3>2
  <2>3. doomed' \in BOOLEAN  BY DEF Deliver, LoadersOK
  <2>4. hand' \in [Loaders -> Cand \cup {None}]  BY DEF Deliver, LoadersOK
  <2>5. active' \in Loaders /\ todo' = todo  BY DEF Deliver
  <2> QED  BY <2>2, <2>3, <2>4, <2>5 DEF LoadersOK
<1>5. ChecksOK'  BY DEF Deliver, ChecksOK, checkVars
<1>6. ResultsOK'
  <2>1. results' \in Seq(Addr \cup {None}) /\ limit' \in Int
    BY <1>1, <1>2, PushToResultType
  <2>2. stored' \subseteq Addr
    <3>1. Saved(verified') \subseteq Addr  BY <1>3, SavedType
    <3> QED  BY <3>1 DEF Deliver, ResultsOK
  <2> QED  BY <1>3, <2>1, <2>2 DEF Deliver, ResultsOK
<1>7. RestOK'
  <2>1. fetch' \in FetchType  BY CancelledFetchesType DEF Deliver, RestOK
  <2>2. unique' \subseteq Addr  BY <1>1, <1>2 DEF RestOK
  <2>3. autosaving' \in BOOLEAN  BY DEF Deliver, RestOK
  <2> QED  BY <2>1, <2>2, <2>3 DEF Deliver, RestOK
<1> QED  BY <1>4, <1>5, <1>6, <1>7

\* The address of a check that has passed is an address.
LEMMA CheckAddress ==
  ASSUME ChecksOK, NEW t \in CheckId, checks[t].st # "free"
  PROVE  checks[t].addr \in Addr
  BY DEF ChecksOK, CheckType, Free

\* Waking the waiters of _on_check.join() keeps the type of pc.
LEMMA WokenType ==
  ASSUME pc \in PcType
  PROVE  Woken \in PcType
  BY DEF Woken, PcType, Waiting

\* The queue _on_check counts in integers.
LEMMA FreeSlotType ==
  ASSUME ChecksOK, NEW t, FreeSlot(t)
  PROVE  slots' \in Nat /\ unfinished' \in Int
  BY DEF ChecksOK, FreeSlot

\* Two counters may be counted at once.
LEMMA StatTypeKept ==
  ASSUME stat \in StatType
  PROVE  /\ [stat EXCEPT !.checked = @ + 1, !.passed = @ + 1] \in StatType
         /\ [stat EXCEPT !.candidates = @ + 1, !.knownDead = @ + 1] \in StatType
         /\ [stat EXCEPT !.dropped = @ + 1, !.passes = @ + 1] \in StatType
<1>1. stat.checked + 1 \in Nat /\ stat.passed + 1 \in Nat  BY DEF StatType
<1>2. stat.candidates + 1 \in Nat /\ stat.knownDead + 1 \in Nat  BY DEF StatType
<1>3. stat.dropped + 1 \in Nat /\ stat.passes + 1 \in Nat  BY DEF StatType
<1>4. \A n \in Nat, m \in Nat : [stat EXCEPT !.checked = n, !.passed = m] \in StatType
  BY DEF StatType
<1>5. \A n \in Nat, m \in Nat : [stat EXCEPT !.candidates = n, !.knownDead = m] \in StatType
  BY DEF StatType
<1>6. \A n \in Nat, m \in Nat : [stat EXCEPT !.dropped = n, !.passes = m] \in StatType
  BY DEF StatType
<1> QED  BY <1>1, <1>2, <1>3, <1>4, <1>5, <1>6

\* A check that passes keeps every type, whether it reaches the limit or not.
LEMMA CheckPassedType ==
  ASSUME TypeOK, NEW t \in CheckId, CheckPassed(t)
  PROVE  TypeOK'
<1> USE DEF TypeOK
<1>1. checks[t].addr \in Addr  BY CheckAddress DEF CheckPassed
<1>2. verified' \subseteq Addr  BY <1>1 DEF CheckPassed, ResultsOK
<1>3. Woken \in PcType  BY WokenType DEF LoadersOK
<1> DEFINE left == [checks EXCEPT ![t] = Free]
<1>4. left \in [CheckId -> CheckType]  BY DEF ChecksOK, CheckType
<1>5. LoadersOK'
  <2>1. CancelledLoaders(Woken, None) \in PcType  BY <1>3, CancelledLoadersType
  <2>2. pc' \in PcType  BY <1>3, <2>1 DEF CheckPassed
  <2> QED  BY <2>2 DEF CheckPassed, LoadersOK
<1>6. ChecksOK'
  <2>1. CancelledChecks(left) \in [CheckId -> CheckType]  BY <1>4, CancelledChecksType
  <2>2. checks' = left \/ checks' = CancelledChecks(left)  BY DEF CheckPassed
  <2>3. slots' \in Nat /\ unfinished' \in Int  BY FreeSlotType DEF CheckPassed
  <2> QED  BY <1>4, <2>1, <2>2, <2>3 DEF ChecksOK
<1>7. ResultsOK'
  <2>1. results' \in Seq(Addr \cup {None}) /\ limit' \in Int
    BY <1>1, PushToResultType DEF CheckPassed
  <2>2. stored' \subseteq Addr
    <3>1. Saved(verified') \subseteq Addr  BY <1>2, SavedType
    <3> QED  BY <3>1 DEF CheckPassed, ResultsOK
  <2> QED  BY <1>2, <2>1, <2>2 DEF CheckPassed, ResultsOK
<1>8. RestOK'
  <2>1. fetch' \in FetchType  BY CancelledFetchesType DEF CheckPassed, RestOK
  <2>2. stat' \in StatType
    <3>1. stat' = [stat EXCEPT !.checked = @ + 1, !.passed = @ + 1]  BY DEF CheckPassed
    <3> QED  BY <3>1, StatTypeKept DEF RestOK
  <2>3. autosaving' \in BOOLEAN  BY DEF CheckPassed, RestOK
  <2> QED  BY <2>1, <2>2, <2>3 DEF CheckPassed, RestOK
<1> QED  BY <1>5, <1>6, <1>7, <1>8

\* Blocking and going on keep the type of what a loader is doing.
LEMMA MoveType ==
  ASSUME LoadersOK, NEW l \in Loaders,
         NEW at \in Waiting \cup {"wave", "handle", "created"},
         Suspend(l, at) \/ Goto(l, at)
  PROVE  pc' \in PcType /\ active' \in Loaders \cup {None} /\ doomed' \in BOOLEAN
<1>1. CASE Suspend(l, at)  BY <1>1 DEF Suspend, LoadersOK, PcType, Over
<1>2. CASE Goto(l, at)  BY <1>2 DEF Goto, LoadersOK, PcType
<1> QED  BY <1>1, <1>2

\* Counting one event keeps the counters natural numbers.
LEMMA CountType ==
  ASSUME stat \in StatType,
         NEW field \in {"candidates", "duplicates", "geoRejected", "checked", "passes",
                        "dropped"},
         Count(field)
  PROVE  stat' \in StatType
  BY DEF Count, StatType

\* The steps of the providers' passes.
LEMMA GrabType ==
  ASSUME TypeOK, GrabStep
  PROVE  TypeOK'
<1> USE DEF TypeOK
<1> "grab" \in Loaders  BY DEF Loaders
<1>1. CASE StartWave
  <2>1. fetch' \in FetchType  BY <1>1 DEF StartWave, RestOK, FetchType
  <2>2. LoadersOK'  BY <1>1, MoveType DEF StartWave, LoadersOK, Waiting
  <2> QED
    BY <1>1, <2>1, <2>2 DEF StartWave, ChecksOK, ResultsOK, RestOK, checkVars, resultVars
<1>2. CASE AwaitProvider
  <2>1. Suspend("grab", "fetch") \/ Goto("grab", "wave")  BY <1>2 DEF AwaitProvider
  <2>2. LoadersOK'
    <3>1. pc' \in PcType /\ active' \in Loaders \cup {None} /\ doomed' \in BOOLEAN
      BY <2>1, MoveType DEF Waiting
    <3> QED  BY <1>2, <3>1 DEF AwaitProvider, LoadersOK
  <2> QED
    BY <1>2, <2>2 DEF AwaitProvider, ChecksOK, ResultsOK, RestOK, checkVars, resultVars
<1>3. CASE PassEnds
  <2>1. Suspend("grab", "sleep") \/ Goto("grab", "join")  BY <1>3 DEF PassEnds
  <2>2. LoadersOK'
    <3>1. pc' \in PcType /\ active' \in Loaders \cup {None} /\ doomed' \in BOOLEAN
      BY <2>1, MoveType DEF Waiting
    <3> QED  BY <1>3, <3>1 DEF PassEnds, LoadersOK
  <2>3. stat' \in StatType  BY <1>3, CountType DEF PassEnds, RestOK
  <2> QED
    BY <1>3, <2>2, <2>3 DEF PassEnds, ChecksOK, ResultsOK, RestOK, checkVars, resultVars
<1>4. CASE NextPass
  <2>1. LoadersOK'  BY <1>4, MoveType DEF NextPass, LoadersOK
  <2> QED
    BY <1>4, <2>1 DEF NextPass, ChecksOK, ResultsOK, RestOK, FetchType, checkVars, resultVars
<1>5. ASSUME NEW p \in Provider, NextProvider(p)
      PROVE  TypeOK'
  <2>1. PICK listed \in {Offer[p], {}} : todo' = [todo EXCEPT !["grab"] = listed]
    BY <1>5 DEF NextProvider
  <2>2. listed \subseteq Cand  BY BrokerAssumption
  <2>3. LoadersOK'
    <3>1. pc' \in PcType /\ active' \in Loaders \cup {None} /\ doomed' \in BOOLEAN
      BY <1>5, MoveType DEF NextProvider
    <3> QED  BY <1>5, <2>1, <2>2, <3>1 DEF NextProvider, LoadersOK
  <2> QED
    BY <1>5, <2>3 DEF NextProvider, ChecksOK, ResultsOK, RestOK, FetchType, checkVars,
                      resultVars
<1> QED  BY <1>1, <1>2, <1>3, <1>4, <1>5 DEF GrabStep

\* What a candidate becomes is an address.
LEMMA CreatedType ==
  ASSUME NEW c
  PROVE  Created(c) \subseteq Addr /\ Fresh(c) \subseteq Addr
  BY DEF Created, Fresh

\* A loader at _push_to_check has a proxy in hand: what TypeOK needs to be inductive,
\* as the address of a check is the one that was in hand.
HandOK == \A l \in Loaders : pc[l] \in {"put", "pause"} => hand[l] \in Addr

\* The steps of one loader.
LEMMA LoaderType ==
  ASSUME TypeOK, HandOK, NEW l \in Loaders, LoaderStep(l)
  PROVE  TypeOK'
<1> USE DEF TypeOK, Waiting
<1>1. CASE Begin(l)
  <2>1. PICK at \in {"wave", "handle"} : Goto(l, at)  BY <1>1 DEF Begin
  <2>2. LoadersOK'  BY <1>1, <2>1, MoveType DEF Begin, LoadersOK
  <2> QED  BY <1>1, <2>2 DEF Begin, ChecksOK, ResultsOK, RestOK, checkVars, resultVars
<1>2. CASE BatchEnds(l)
  <2>1. PICK at \in {"fetch", "join"} : Goto(l, at)  BY <1>2 DEF BatchEnds
  <2>2. LoadersOK'  BY <1>2, <2>1, MoveType DEF BatchEnds, LoadersOK
  <2> QED  BY <1>2, <2>2 DEF BatchEnds, ChecksOK, ResultsOK, RestOK, checkVars, resultVars
<1>3. CASE SkipDead(l)
  <2>1. stat' \in StatType  BY <1>3, StatTypeKept DEF SkipDead, RestOK
  <2>2. LoadersOK'  BY <1>3 DEF SkipDead, LoadersOK
  <2> QED
    BY <1>3, <2>1, <2>2 DEF SkipDead, ChecksOK, ResultsOK, RestOK, checkVars, resultVars
<1>4. CASE Handle(l)
  <2>1. PICK c \in todo[l] :
          /\ todo' = [todo EXCEPT ![l] = @ \ {c}]
          /\ hand' = [hand EXCEPT ![l] = c]
          /\ Goto(l, "created") \/ Suspend(l, "resolve")
    BY <1>4 DEF Handle
  <2>2. LoadersOK'
    <3>1. pc' \in PcType /\ active' \in Loaders \cup {None} /\ doomed' \in BOOLEAN
      BY <2>1, MoveType
    <3> QED  BY <2>1, <3>1 DEF LoadersOK
  <2>3. stat' \in StatType  BY <1>4, CountType DEF Handle, RestOK
  <2> QED
    BY <1>4, <2>2, <2>3 DEF Handle, ChecksOK, ResultsOK, RestOK, checkVars, resultVars
<1>5. CASE ResolverRaises(l)
  <2>1. stat' \in StatType  BY <1>5, StatTypeKept, CountType DEF ResolverRaises, RestOK
  <2>2. LoadersOK'
    <3>1. pc' \in PcType  BY <1>5 DEF ResolverRaises, LoadersOK, PcType, Over
    <3> QED  BY <1>5, <3>1 DEF ResolverRaises, LoadersOK
  <2> QED
    BY <1>5, <2>1, <2>2 DEF ResolverRaises, ChecksOK, ResultsOK, RestOK, checkVars,
                            resultVars
<1>6. CASE CreateFails(l)
  <2>1. stat' \in StatType  BY <1>6, CountType DEF CreateFails, RestOK
  <2>2. LoadersOK'
    <3>1. pc' \in PcType /\ active' \in Loaders \cup {None} /\ doomed' \in BOOLEAN
      BY <1>6, MoveType DEF CreateFails
    <3> QED  BY <1>6, <3>1 DEF CreateFails, LoadersOK
  <2> QED
    BY <1>6, <2>1, <2>2 DEF CreateFails, ChecksOK, ResultsOK, RestOK, checkVars, resultVars
<1>7. CASE Reject(l)
  <2>1. PICK a \in Created(hand[l]) :
          \/ Count("duplicates") /\ UNCHANGED unique
          \/ unique' = unique \cup {a} /\ Count("geoRejected")
    BY <1>7 DEF Reject
  <2>2. stat' \in StatType  BY <2>1, CountType DEF RestOK
  <2>3. unique' \subseteq Addr  BY <2>1, CreatedType DEF RestOK
  <2>4. LoadersOK'
    <3>1. pc' \in PcType /\ active' \in Loaders \cup {None} /\ doomed' \in BOOLEAN
      BY <1>7, MoveType DEF Reject
    <3> QED  BY <1>7, <3>1 DEF Reject, LoadersOK
  <2> QED
    BY <1>7, <2>2, <2>3, <2>4 DEF Reject, ChecksOK, ResultsOK, RestOK, checkVars, resultVars
<1>8. CASE Admit(l)
  <2>1. PICK a \in Fresh(hand[l]) :
          unique' = unique \cup {a} /\ hand' = [hand EXCEPT ![l] = a]
    BY <1>8 DEF Admit
  <2>2. a \in Addr  BY <2>1, CreatedType
  <2>3. LoadersOK'
    <3>1. Suspend(l, "pause") \/ Goto(l, "put")  BY <1>8 DEF Admit
    <3>2. pc' \in PcType /\ active' \in Loaders \cup {None} /\ doomed' \in BOOLEAN
      BY <3>1, MoveType
    <3> QED  BY <1>8, <2>1, <2>2, <3>2 DEF Admit, LoadersOK, Cand
  <2> QED
    BY <1>8, <2>1, <2>2, <2>3 DEF Admit, ChecksOK, ResultsOK, RestOK, checkVars, resultVars
<1>9. CASE Deliver(l)  BY <1>9, DeliverType
<1>10. CASE AwaitSlot(l)
  <2>1. LoadersOK'  BY <1>10, MoveType DEF AwaitSlot, LoadersOK
  <2> QED  BY <1>10, <2>1 DEF AwaitSlot, ChecksOK, ResultsOK, RestOK, checkVars, resultVars
<1>11. CASE StartCheck(l)
  <2>1. hand[l] \in Addr  BY <1>11 DEF StartCheck, HandOK
  <2>2. checks' \in [CheckId -> CheckType]  BY <1>11, <2>1 DEF StartCheck, ChecksOK, CheckType
  <2>3. ChecksOK'  BY <1>11, <2>2 DEF StartCheck, ChecksOK
  <2>4. LoadersOK'
    <3>1. pc' \in PcType /\ active' \in Loaders \cup {None} /\ doomed' \in BOOLEAN
      BY <1>11, MoveType DEF StartCheck
    <3> QED  BY <1>11, <3>1 DEF StartCheck, LoadersOK
  <2> QED  BY <1>11, <2>3, <2>4 DEF StartCheck, ResultsOK, RestOK, resultVars
<1>12. CASE Join(l)
  <2>1. Goto(l, "finish") \/ Suspend(l, "join")  BY <1>12 DEF Join
  <2>2. LoadersOK'
    <3>1. pc' \in PcType /\ active' \in Loaders \cup {None} /\ doomed' \in BOOLEAN
      BY <2>1, MoveType
    <3> QED  BY <1>12, <3>1 DEF Join, LoadersOK
  <2> QED  BY <1>12, <2>2 DEF Join, ChecksOK, ResultsOK, RestOK, checkVars, resultVars
<1>13. CASE Finish(l)  BY <1>13, FinishType
<1> QED
  BY <1>1, <1>2, <1>3, <1>4, <1>5, <1>6, <1>7, <1>8, <1>9, <1>10, <1>11, <1>12, <1>13
  DEF LoaderStep

\* The steps of one check.
LEMMA CheckStepType ==
  ASSUME TypeOK, NEW t \in CheckId, CheckStep(t)
  PROVE  TypeOK'
<1> USE DEF TypeOK
<1>1. CASE CheckEnds(t)
  <2>1. checks[t].addr \in Addr  BY <1>1, CheckAddress DEF CheckEnds
  <2>2. PICK o \in Outcomes : checks' = [checks EXCEPT ![t].st = o]
    BY <1>1 DEF CheckEnds
  <2>3. checks[t] \in [st : {"running"} \cup Outcomes, addr : Addr]
    BY <1>1 DEF CheckEnds, ChecksOK, CheckType, Free
  <2>4. [checks[t] EXCEPT !.st = o] \in CheckType  BY <2>2, <2>3 DEF CheckType
  <2>5. checks' \in [CheckId -> CheckType]  BY <2>2, <2>4 DEF ChecksOK
  <2> QED
    BY <1>1, <2>5 DEF CheckEnds, LoadersOK, ChecksOK, ResultsOK, RestOK, loaderVars,
                      resultVars
<1>2. CASE CheckFailed(t)
  <2>1. checks[t].addr \in Addr  BY <1>2, CheckAddress DEF CheckFailed
  <2>2. ChecksOK'
    <3>1. slots' \in Nat /\ unfinished' \in Int  BY <1>2, FreeSlotType DEF CheckFailed
    <3> QED  BY <1>2, <3>1 DEF CheckFailed, ChecksOK, CheckType
  <2>3. LoadersOK'  BY <1>2, WokenType DEF CheckFailed, LoadersOK
  <2>4. stat' \in StatType  BY <1>2, CountType DEF CheckFailed, RestOK
  <2>5. dead' \subseteq Addr  BY <1>2, <2>1 DEF CheckFailed, RestOK
  <2> QED
    BY <1>2, <2>2, <2>3, <2>4, <2>5 DEF CheckFailed, ResultsOK, RestOK, resultVars
<1>3. CASE CheckPassed(t)  BY <1>3, CheckPassedType
<1> QED  BY <1>1, <1>2, <1>3 DEF CheckStep

\* What a wake-up by the consumer does to the loaders.
LEMMA TakeType ==
  ASSUME TypeOK, Take
  PROVE  TypeOK'
<1>1. pc' \in PcType  BY DEF Take, TypeOK, LoadersOK, PcType, Waiting
<1>2. taken' \in Nat  BY DEF Take, TypeOK, ResultsOK
<1> QED
  BY <1>1, <1>2 DEF Take, TypeOK, LoadersOK, ChecksOK, ResultsOK, RestOK, checkVars,
                    resultVars

\* Every step keeps the types.
LEMMA TypeStep ==
  ASSUME TypeOK, HandOK, [Next]_vars
  PROVE  TypeOK'
<1>1. CASE Find  BY <1>1, FindType
<1>2. CASE FindRaises
  BY <1>2 DEF FindRaises, TypeOK, LoadersOK, ChecksOK, ResultsOK, RestOK, loaderVars,
              checkVars, resultVars
<1>3. CASE Stop  BY <1>3, StopType
<1>4. CASE Autosave
  <2>1. stored' \subseteq Addr  BY <1>4, SavedType DEF Autosave, TypeOK, ResultsOK
  <2> QED
    BY <1>4, <2>1 DEF Autosave, TypeOK, LoadersOK, ChecksOK, ResultsOK, RestOK, loaderVars,
                      checkVars
<1>5. CASE Take  BY <1>5, TakeType
<1>6. CASE Forget
  BY <1>6 DEF Forget, TypeOK, LoadersOK, ChecksOK, ResultsOK, RestOK, loaderVars,
              checkVars, resultVars
<1>7. ASSUME NEW l \in Loaders, LoaderStep(l) PROVE TypeOK'  BY <1>7, LoaderType
<1>8. CASE GrabStep  BY <1>8, GrabType
<1>9. ASSUME NEW p \in Provider, FetchEnds(p) PROVE TypeOK'
  <2>1. fetch' \in FetchType  BY <1>9 DEF FetchEnds, TypeOK, RestOK, FetchType
  <2> QED
    BY <1>9, <2>1 DEF FetchEnds, TypeOK, LoadersOK, ChecksOK, ResultsOK, RestOK,
                      loaderVars, checkVars, resultVars
<1>10. ASSUME NEW t \in CheckId, CheckStep(t) PROVE TypeOK'  BY <1>10, CheckStepType
<1>11. CASE UNCHANGED vars
  BY <1>11 DEF vars, TypeOK, LoadersOK, ChecksOK, ResultsOK, RestOK, loaderVars, checkVars,
               resultVars
<1> QED
  BY <1>1, <1>2, <1>3, <1>4, <1>5, <1>6, <1>7, <1>8, <1>9, <1>10, <1>11 DEF Next

\* The loader that moves has what HandOK asks for and the others keep it.
LEMMA HandStep ==
  ASSUME TypeOK, HandOK, [Next]_vars
  PROVE  HandOK'
<1> SUFFICES ASSUME NEW k \in Loaders, pc'[k] \in {"put", "pause"}
             PROVE  hand'[k] \in Addr
  BY DEF HandOK
<1> USE DEF TypeOK, LoadersOK, PcType, HandOK
<1>1. CASE Find  BY <1>1 DEF Find, Loaders
<1>2. CASE Stop  BY <1>2 DEF Stop, CancelledLoaders
<1>3. CASE Take  BY <1>3 DEF Take
<1>4. CASE FindRaises \/ Autosave \/ Forget \/ UNCHANGED vars
  BY <1>4 DEF FindRaises, Autosave, Forget, loaderVars, vars
<1>5. ASSUME NEW l \in Loaders, LoaderStep(l) PROVE hand'[k] \in Addr
  <2>1. CASE Begin(l)  BY <2>1 DEF Begin, Goto
  <2>2. CASE BatchEnds(l)  BY <2>2 DEF BatchEnds, Goto
  <2>3. CASE SkipDead(l)  BY <2>3 DEF SkipDead
  <2>4. CASE Handle(l)  BY <2>4 DEF Handle, Goto, Suspend
  <2>5. CASE ResolverRaises(l)  BY <2>5 DEF ResolverRaises
  <2>6. CASE CreateFails(l)  BY <2>6 DEF CreateFails, Goto
  <2>7. CASE Reject(l)  BY <2>7 DEF Reject, Goto
  <2>8. CASE Admit(l)
    <3>1. PICK a \in Fresh(hand[l]) : hand' = [hand EXCEPT ![l] = a]  BY <2>8 DEF Admit
    <3>2. a \in Addr  BY <3>1, CreatedType
    <3> QED  BY <2>8, <3>1, <3>2 DEF Admit, Goto, Suspend
  <2>9. CASE Deliver(l)
    <3>1. k # l /\ pc'[k] = pc[k]
      BY <2>9 DEF Deliver, CancelledLoaders
    <3> QED  BY <2>9, <3>1 DEF Deliver
  <2>10. CASE AwaitSlot(l)  BY <2>10 DEF AwaitSlot, Suspend
  <2>11. CASE StartCheck(l)  BY <2>11 DEF StartCheck, Goto
  <2>12. CASE Join(l)  BY <2>12 DEF Join, Goto, Suspend
  <2>13. CASE Finish(l)  BY <2>13 DEF Finish, CancelledLoaders
  <2> QED
    BY <1>5, <2>1, <2>2, <2>3, <2>4, <2>5, <2>6, <2>7, <2>8, <2>9, <2>10, <2>11, <2>12,
       <2>13
    DEF LoaderStep
<1>6. CASE GrabStep
  <2>1. CASE StartWave  BY <2>1 DEF StartWave, Goto, Loaders
  <2>2. CASE AwaitProvider  BY <2>2 DEF AwaitProvider, Goto, Suspend, Loaders
  <2>3. CASE PassEnds  BY <2>3 DEF PassEnds, Goto, Suspend, Loaders
  <2>4. CASE NextPass  BY <2>4 DEF NextPass, Goto, Loaders
  <2>5. ASSUME NEW p \in Provider, NextProvider(p) PROVE hand'[k] \in Addr
    BY <2>5 DEF NextProvider, Goto, Loaders
  <2> QED  BY <1>6, <2>1, <2>2, <2>3, <2>4, <2>5 DEF GrabStep
<1>7. ASSUME NEW p \in Provider, FetchEnds(p) PROVE hand'[k] \in Addr
  BY <1>7 DEF FetchEnds, loaderVars
<1>8. ASSUME NEW t \in CheckId, CheckStep(t) PROVE hand'[k] \in Addr
  BY <1>8 DEF CheckStep, CheckEnds, CheckFailed, CheckPassed, Woken, CancelledLoaders,
              loaderVars
<1> QED  BY <1>1, <1>2, <1>3, <1>4, <1>5, <1>6, <1>7, <1>8 DEF Next

\* Every variable keeps its type: TypeOK with HandOK is inductive.
THEOREM TypeCorrect == Spec => [](TypeOK /\ HandOK)
<1>1. Init => TypeOK /\ HandOK
  BY InitType DEF Init, HandOK
<1>2. TypeOK /\ HandOK /\ [Next]_vars => (TypeOK /\ HandOK)'
  BY TypeStep, HandStep
<1> QED  BY <1>1, <1>2, PTL DEF Spec

-----------------------------------------------------------------------------
(* _on_check as a semaphore. *)

\* A cancelled check still holds its slot: its callback has yet to run.
LEMMA CancelKeepsLive ==
  ASSUME NEW cs \in [CheckId -> CheckType], NEW t \in CheckId
  PROVE  CancelledChecks(cs)[t] # Free <=> cs[t] # Free
<1>1. CASE cs[t].st = "running"
  <2>1. cs[t] # Free  BY <1>1 DEF Free
  <2>2. CancelledChecks(cs)[t] = [cs[t] EXCEPT !.st = "cancelled"]
    BY <1>1 DEF CancelledChecks
  <2>3. [cs[t] EXCEPT !.st = "cancelled"].st = "cancelled"
    BY <1>1 DEF CheckType, Free
  <2>4. CancelledChecks(cs)[t] # Free  BY <2>2, <2>3 DEF Free
  <2> QED  BY <2>1, <2>4
<1>2. CASE cs[t].st # "running"  BY <1>2 DEF CancelledChecks
<1> QED  BY <1>1, <1>2

\* Only finitely many checks are ever alive.
LEMMA LiveFinite ==
  IsFiniteSet(Live) /\ Cardinality(Live) \in Nat
<1>1. Live \subseteq CheckId  BY DEF Live
<1>2. IsFiniteSet(Live)  BY <1>1, BrokerAssumption, FS_Subset
<1> QED  BY <1>2, FS_CardinalityType

\* The callback of a check gives back exactly its slot and its unfinished task.
LEMMA SlotFreed ==
  ASSUME TypeOK, SlotAccounting, NEW t \in Live, FreeSlot(t), Live' = Live \ {t}
  PROVE  SlotAccounting'
<1>1. Cardinality(Live \ {t}) = Cardinality(Live) - 1  BY LiveFinite, FS_RemoveElement
<1>2. IsFiniteSet(Live \ {t})  BY LiveFinite, FS_RemoveElement
<1>3. Cardinality(Live \ {t}) \in Nat  BY <1>2, FS_CardinalityType
<1>4. slots > 0  BY <1>1, <1>3, LiveFinite DEF SlotAccounting
<1> QED
  BY <1>1, <1>4, LiveFinite, BrokerAssumption DEF SlotAccounting, FreeSlot

\* Every step keeps the semaphore's accounts.
LEMMA SlotStep ==
  ASSUME TypeOK, SlotAccounting, [Next]_vars
  PROVE  SlotAccounting'
<1>1. ASSUME Live' = Live, UNCHANGED <<slots, unfinished>>
      PROVE  SlotAccounting'
  BY <1>1 DEF SlotAccounting
<1>2. ASSUME UNCHANGED checkVars PROVE SlotAccounting'
  BY <1>1, <1>2 DEF checkVars, Live
<1>3. ASSUME NEW cs \in [CheckId -> CheckType], Live = {t \in CheckId : cs[t] # Free},
             checks' = CancelledChecks(cs)
      PROVE  Live' = Live
  BY <1>3, CancelKeepsLive DEF Live
<1>4. CASE Stop
  BY <1>1, <1>3, <1>4 DEF Stop, TypeOK, ChecksOK, Live
<1>5. CASE Find \/ FindRaises \/ Autosave \/ Take \/ Forget \/ UNCHANGED vars
  BY <1>2, <1>5 DEF Find, FindRaises, Autosave, Take, Forget, vars
<1>6. CASE GrabStep
  BY <1>2, <1>6 DEF GrabStep, StartWave, AwaitProvider, PassEnds, NextPass, NextProvider
<1>7. ASSUME NEW p \in Provider, FetchEnds(p) PROVE SlotAccounting'
  BY <1>2, <1>7 DEF FetchEnds
<1>8. ASSUME NEW l \in Loaders, LoaderStep(l) PROVE SlotAccounting'
  <2>1. CASE StartCheck(l)
    <3>1. PICK t \in CheckId \ Live :
            checks' = [checks EXCEPT ![t] = [st |-> "running", addr |-> hand[l]]]
      BY <2>1 DEF StartCheck
    <3>2. [st |-> "running", addr |-> hand[l]] # Free  BY DEF Free
    <3>3. Live' = Live \cup {t}  BY <3>1, <3>2 DEF Live, TypeOK, ChecksOK
    <3>4. Cardinality(Live') = Cardinality(Live) + 1
      BY <3>1, <3>3, LiveFinite, FS_AddElement
    <3>5. slots < MaxConn /\ slots' = slots + 1 /\ unfinished' = unfinished + 1
      BY <2>1 DEF StartCheck
    <3> QED  BY <3>4, <3>5, LiveFinite, BrokerAssumption DEF SlotAccounting
  <2>2. CASE Finish(l)
    BY <1>1, <1>3, <2>2 DEF Finish, TypeOK, ChecksOK, Live
  <2>3. CASE ~StartCheck(l) /\ ~Finish(l)
    <3>1. UNCHANGED checkVars
      BY <1>8, <2>3 DEF LoaderStep, Begin, BatchEnds, SkipDead, Handle, ResolverRaises,
                        CreateFails, Reject, Admit, Deliver, AwaitSlot, Join
    <3> QED  BY <1>2, <3>1
  <2> QED  BY <2>1, <2>2, <2>3
<1>9. ASSUME NEW t \in CheckId, CheckStep(t) PROVE SlotAccounting'
  <2> USE DEF TypeOK, ChecksOK
  <2>1. CASE CheckEnds(t)
    <3>1. checks[t] # Free  BY <2>1 DEF CheckEnds, Free
    <3>2. PICK o \in Outcomes : checks' = [checks EXCEPT ![t].st = o]
      BY <2>1 DEF CheckEnds
    <3>3. checks'[t].st = o
      BY <2>1, <3>2 DEF CheckEnds, CheckType, Free
    <3>4. checks'[t] # Free  BY <3>3 DEF Free, Outcomes
    <3>5. Live' = Live  BY <3>1, <3>2, <3>4 DEF Live
    <3> QED  BY <1>1, <2>1, <3>5 DEF CheckEnds
  <2>2. CASE CheckFailed(t)
    <3>1. t \in Live  BY <2>2 DEF CheckFailed, Live, Free
    <3>2. Live' = Live \ {t}  BY <2>2 DEF CheckFailed, Live
    <3> QED  BY <2>2, <3>1, <3>2, SlotFreed DEF CheckFailed
  <2>3. CASE CheckPassed(t)
    <3>1. t \in Live  BY <2>3 DEF CheckPassed, Live, Free
    <3> DEFINE left == [checks EXCEPT ![t] = Free]
    <3>2. left \in [CheckId -> CheckType]  BY DEF CheckType
    <3>3. {u \in CheckId : left[u] # Free} = Live \ {t}  BY DEF Live
    <3>4. checks' = left \/ checks' = CancelledChecks(left)  BY <2>3 DEF CheckPassed
    <3>5. \A u \in CheckId : CancelledChecks(left)[u] # Free <=> left[u] # Free
      BY <3>2, CancelKeepsLive
    <3> HIDE DEF left
    <3>6. Live' = Live \ {t}  BY <3>3, <3>4, <3>5 DEF Live
    <3> QED  BY <2>3, <3>1, <3>6, SlotFreed DEF CheckPassed
  <2> QED  BY <1>9, <2>1, <2>2, <2>3 DEF CheckStep
<1> QED  BY <1>4, <1>5, <1>6, <1>7, <1>8, <1>9 DEF Next

\* The queue _on_check is a semaphore whose size and unfinished count are the
\* number of live checks, at most max_conn: however checks pass, fail, raise or
\* are cancelled (api.py:735-741), no slot leaks and join() ends with the last.
THEOREM SlotsCorrect == Spec => []SlotAccounting
<1>1. Init => SlotAccounting
  <2> SUFFICES ASSUME Init PROVE SlotAccounting  OBVIOUS
  <2>1. Live = {}  BY DEF Init, Live
  <2>2. Cardinality(Live) = 0  BY <2>1, FS_EmptySet
  <2> QED  BY <2>2, BrokerAssumption DEF Init, SlotAccounting
<1>2. TypeOK /\ SlotAccounting /\ [Next]_vars => SlotAccounting'  BY SlotStep
<1> QED  BY <1>1, <1>2, TypeCorrect, PTL DEF Spec

-----------------------------------------------------------------------------
(* The limit. *)

\* No loader and no check exists, nor will unless find() creates the loaders.
Nothing == (\A l \in Loaders : pc[l] = "off") /\ active = None /\ Live = {}

\* What LimitRespected needs to be inductive.  Before find() has scheduled
\* anything the limit does not count down the call's; afterwards it is what the
\* call's limit leaves after everything pushed, until the marker is there.
MarkerInTime == \E i \in DOMAIN results : i <= call.limit + 1 /\ results[i] = None
LimitInv ==
  /\ calling => Nothing
  /\ ~call.server => ~server
  /\ ~call.server /\ call.limit > 0 =>
       \/ MarkerInTime
       \/ Nothing /\ results = <<>>
       \/ ~calling /\ limit > 0 /\ limit = call.limit - Len(results)

\* The invariant is strong enough.
LEMMA LimitInvImplies ==
  ASSUME TypeOK, LimitInv
  PROVE  LimitRespected
<1> SUFFICES ASSUME ~call.server, call.limit > 0, Len(results) >= call.limit
             PROVE  \E i \in 1..(call.limit + 1) : i \in DOMAIN results /\ results[i] = None
  BY DEF LimitRespected
<1>1. call.limit \in Nat /\ results \in Seq(Addr \cup {None})
  BY BrokerAssumption DEF TypeOK, RestOK, ResultsOK, CallType
<1>2. MarkerInTime  BY <1>1 DEF LimitInv, TypeOK, ResultsOK
<1> QED  BY <1>1, <1>2 DEF MarkerInTime

\* Pushing keeps a marker that is there, and puts one when the limit is used up.
LEMMA PushKeepsLimit ==
  ASSUME TypeOK, LimitInv, ~call.server, call.limit > 0, UNCHANGED <<call, calling>>,
         NEW x \in Addr \cup {None}, PushToResult(x), x = None \/ ~Nothing
  PROVE  MarkerInTime' \/ (~calling' /\ limit' > 0 /\ limit' = call.limit - Len(results'))
<1> DEFINE R == Addr \cup {None}
<1>1. results \in Seq(R) /\ limit \in Int /\ call.limit \in Nat /\ ~server
  BY BrokerAssumption DEF TypeOK, RestOK, ResultsOK, CallType, LimitInv
<1>2. results' = results \o Pushed(x) /\ limit' = limit - Len(Pushed(x))
  BY DEF PushToResult
<1>3. Pushed(x) \in Seq(R) /\ Len(Pushed(x)) \in {1, 2}  BY PushedType
<1>4. /\ Len(results') = Len(results) + Len(Pushed(x))
      /\ \A i \in 1..Len(results) : results'[i] = results[i]
      /\ \A i \in 1..Len(Pushed(x)) : results'[Len(results) + i] = Pushed(x)[i]
      /\ DOMAIN results' = 1..Len(results')
  BY <1>1, <1>2, <1>3
<1>5. CASE MarkerInTime
  <2>1. PICK i \in DOMAIN results : i <= call.limit + 1 /\ results[i] = None
    BY <1>5 DEF MarkerInTime
  <2>2. i \in DOMAIN results' /\ results'[i] = None  BY <1>1, <1>3, <1>4, <2>1
  <2> QED  BY <2>1, <2>2 DEF MarkerInTime
<1>6. CASE Nothing /\ results = <<>>
  <2>1. x = None  BY <1>6
  <2>2. Pushed(x)[1] = None  BY <2>1 DEF Pushed
  <2>3. Len(results) = 0  BY <1>6
  <2>4. 1 \in DOMAIN results' /\ results'[1] = None  BY <1>3, <1>4, <2>2, <2>3
  <2> QED  BY <1>1, <2>4 DEF MarkerInTime
<1>7. CASE ~calling /\ limit > 0 /\ limit = call.limit - Len(results)
  <2>1. CASE limit = 1
    <3>1. Pushed(x) = <<x, None>>  BY <1>1, <2>1 DEF Pushed, HitsLimit
    <3>2. Len(Pushed(x)) = 2 /\ Pushed(x)[2] = None  BY <3>1
    <3>3. Len(results) + 2 = call.limit + 1  BY <1>1, <1>7, <2>1
    <3>4. call.limit + 1 \in DOMAIN results' /\ results'[call.limit + 1] = None
      BY <1>1, <1>4, <3>2, <3>3
    <3> QED  BY <1>1, <3>4 DEF MarkerInTime
  <2>2. CASE limit # 1
    <3>1. Pushed(x) = <<x>>  BY <2>2 DEF Pushed, HitsLimit
    <3>2. Len(Pushed(x)) = 1  BY <3>1
    <3> QED  BY <1>1, <1>2, <1>4, <1>7, <2>2, <3>2
  <2> QED  BY <2>1, <2>2
<1> QED  BY <1>5, <1>6, <1>7 DEF LimitInv

\* A broker with nothing tracked takes no step of a loader or a check.
LEMMA NothingHappens ==
  ASSUME Nothing
  PROVE  /\ \A l \in Loaders : ~LoaderStep(l)
         /\ ~GrabStep
         /\ \A t \in CheckId : ~CheckStep(t)
<1> "grab" \in Loaders /\ None \notin Loaders  BY BrokerAssumption DEF Loaders
<1>1. ASSUME NEW l \in Loaders PROVE ~LoaderStep(l)
  BY DEF Nothing, LoaderStep, Begin, BatchEnds, SkipDead, Handle, ResolverRaises,
         CreateFails, Reject, Admit, Deliver, AwaitSlot, StartCheck, Join, Finish
<1>2. ~GrabStep
  BY DEF Nothing, GrabStep, StartWave, AwaitProvider, PassEnds, NextPass, NextProvider
<1>3. ASSUME NEW t \in CheckId PROVE ~CheckStep(t)
  <2>1. checks[t] = Free  BY DEF Nothing, Live
  <2> QED  BY <2>1 DEF CheckStep, CheckEnds, CheckFailed, CheckPassed, Free
<1> QED  BY <1>1, <1>2, <1>3

\* Cancelling nothing leaves nothing.
LEMMA StopNothing ==
  ASSUME TypeOK, Nothing, Stop
  PROVE  Nothing'
<1>1. \A l \in Loaders : pc'[l] = "off"
  BY DEF Nothing, Stop, CancelledLoaders, Waiting
<1>2. Live' = {}
  <2>1. \A t \in CheckId : checks'[t] # Free <=> checks[t] # Free
    BY CancelKeepsLive DEF Stop, TypeOK, ChecksOK
  <2> QED  BY <2>1 DEF Nothing, Live
<1> QED  BY <1>1, <1>2 DEF Nothing, Stop

\* Every step keeps the invariant of the limit.
LEMMA LimitStep ==
  ASSUME TypeOK, LimitInv, [Next]_vars
  PROVE  LimitInv'
<1>1. ASSUME UNCHANGED <<call, calling, limit, results, server>>, Nothing => Nothing'
      PROVE  LimitInv'
  BY <1>1 DEF LimitInv, MarkerInTime
<1>2. ASSUME UNCHANGED <<call, calling, server>>, ~Nothing,
             NEW x \in Addr \cup {None}, PushToResult(x)
      PROVE  LimitInv'
  <2>1. ~calling  BY <1>2 DEF LimitInv
  <2>2. ~call.server /\ call.limit > 0 =>
          MarkerInTime' \/ (~calling' /\ limit' > 0 /\ limit' = call.limit - Len(results'))
    BY <1>2, PushKeepsLimit
  <2> QED  BY <1>2, <2>1, <2>2 DEF LimitInv
<1>3. CASE Find
  <2>1. limit' = call.limit /\ calling' = FALSE /\ UNCHANGED <<call, results, server>>
    BY <1>3 DEF Find
  <2>2. calling /\ Nothing  BY <1>3 DEF Find, LimitInv
  <2>3. call.limit \in Nat
    BY BrokerAssumption DEF TypeOK, RestOK, CallType
  <2>4. CASE MarkerInTime  BY <2>1, <2>4 DEF LimitInv, MarkerInTime
  <2>5. CASE results = <<>>
    <3>1. Len(results) = 0  BY <2>5
    <3> QED  BY <2>1, <2>3, <3>1 DEF LimitInv
  <2> QED  BY <2>1, <2>2, <2>4, <2>5 DEF LimitInv
<1>4. CASE FindRaises
  <2>1. calling /\ Nothing /\ Nothing'
    BY <1>4 DEF FindRaises, LimitInv, Nothing, loaderVars, checkVars, Live
  <2> QED  BY <1>4, <2>1 DEF FindRaises, LimitInv, MarkerInTime, resultVars
<1>5. CASE Stop
  <2>1. Nothing => Nothing'  BY <1>5, StopNothing
  <2>2. UNCHANGED <<call, calling>> /\ server' = FALSE /\ PushToResult(None)
    BY <1>5 DEF Stop
  <2>3. ~call.server /\ call.limit > 0 =>
          MarkerInTime' \/ (~calling' /\ limit' > 0 /\ limit' = call.limit - Len(results'))
    BY <2>2, PushKeepsLimit
  <2> QED  BY <2>1, <2>2, <2>3 DEF LimitInv
<1>6. CASE Autosave \/ Forget \/ UNCHANGED vars
  BY <1>1, <1>6 DEF Autosave, Forget, Nothing, Live, loaderVars, checkVars, resultVars, vars
<1>7. CASE Take
  BY <1>1, <1>7 DEF Take, Nothing, Live, checkVars, resultVars, TypeOK, LoadersOK, PcType
<1>8. ASSUME NEW p \in Provider, FetchEnds(p) PROVE LimitInv'
  BY <1>1, <1>8 DEF FetchEnds, Nothing, Live, loaderVars, checkVars, resultVars
<1>9. CASE GrabStep
  <2>1. ~Nothing  BY <1>9, NothingHappens
  <2> QED
    BY <1>1, <1>9, <2>1 DEF GrabStep, StartWave, AwaitProvider, PassEnds, NextPass,
                            NextProvider, resultVars
<1>10. ASSUME NEW l \in Loaders, LoaderStep(l) PROVE LimitInv'
  <2>1. ~Nothing  BY <1>10, NothingHappens
  <2>2. CASE Deliver(l)
    <3>1. PICK a \in Fresh(hand[l]) : PushToResult(a)  BY <2>2 DEF Deliver
    <3>2. a \in Addr  BY <3>1, CreatedType
    <3> QED  BY <1>2, <2>1, <2>2, <3>1, <3>2 DEF Deliver
  <2>3. CASE Finish(l)
    <3>1. PushToResult(None) /\ UNCHANGED <<call, calling, server>>  BY <2>3 DEF Finish
    <3> QED  BY <1>2, <2>1, <3>1
  <2>4. CASE ~Deliver(l) /\ ~Finish(l)
    <3>1. UNCHANGED <<call, calling, limit, results, server>>
      BY <1>10, <2>4 DEF LoaderStep, Begin, BatchEnds, SkipDead, Handle, ResolverRaises,
                         CreateFails, Reject, Admit, AwaitSlot, StartCheck, Join, resultVars
    <3> QED  BY <1>1, <2>1, <3>1
  <2> QED  BY <2>2, <2>3, <2>4
<1>11. ASSUME NEW t \in CheckId, CheckStep(t) PROVE LimitInv'
  <2>1. ~Nothing  BY <1>11, NothingHappens
  <2>2. CASE CheckPassed(t)
    <3>1. checks[t].addr \in Addr  BY <2>2, CheckAddress DEF CheckPassed, TypeOK
    <3>2. PushToResult(checks[t].addr) /\ UNCHANGED <<call, calling, server>>
      BY <2>2 DEF CheckPassed
    <3> QED  BY <1>2, <2>1, <3>1, <3>2
  <2>3. CASE CheckEnds(t) \/ CheckFailed(t)
    <3>1. UNCHANGED <<call, calling, limit, results, server>>
      BY <2>3 DEF CheckEnds, CheckFailed, resultVars
    <3> QED  BY <1>1, <2>1, <3>1
  <2> QED  BY <1>11, <2>2, <2>3 DEF CheckStep
<1> QED  BY <1>3, <1>4, <1>5, <1>6, <1>7, <1>8, <1>9, <1>10, <1>11 DEF Next

\* The limit before the first step.
LEMMA LimitInit == Init => LimitInv
<1> SUFFICES ASSUME Init PROVE LimitInv  OBVIOUS
<1>1. call \in CallType /\ call.limit \in Nat
  BY BrokerAssumption DEF Init, CallType
<1>2. calling => Nothing  BY DEF Init, Nothing, Live
<1>3. ~call.server => ~server  BY DEF Init
<1>4. CASE call.fn = "grab"
  <2>1. limit = call.limit /\ ~calling /\ Len(results) = 0  BY <1>4 DEF Init
  <2> QED  BY <1>1, <1>2, <1>3, <2>1 DEF LimitInv
<1>5. CASE call.fn # "grab"
  <2>1. calling /\ results = <<>>  BY <1>5 DEF Init
  <2> QED  BY <1>2, <1>3, <2>1 DEF LimitInv
<1> QED  BY <1>4, <1>5

\* In every behaviour the limit and the results fit, until the marker is there.
THEOREM LimitInvariant == Spec => []LimitInv
<1>1. TypeOK /\ LimitInv /\ [Next]_vars => LimitInv'  BY LimitStep
<1> QED  BY <1>1, LimitInit, TypeCorrect, PTL DEF Spec

\* Outside a server a consumer that reads up to the end-of-stream marker gets
\* at most `limit' proxies, whoever pushes the marker: the last check
\* (api.py:790), the loader's own _done() or stop().
THEOREM LimitCorrect == Spec => []LimitRespected
<1>1. TypeOK /\ LimitInv => LimitRespected  BY LimitInvImplies
<1> QED  BY <1>1, LimitInvariant, TypeCorrect, PTL

-----------------------------------------------------------------------------
(* Persistence. *)

\* A marker comes with a save, unless the result before it did not need one.
LEMMA PushSaves ==
  ASSUME TypeOK, NEW x \in Addr \cup {None}, PushToResult(x), UNCHANGED call,
         x = None \/ HitsLimit => stored' = Saved(verified')
  PROVE  SavedWithMarker
<1> SUFFICES ASSUME NEW i \in DOMAIN results' \ DOMAIN results,
                    results'[i] = None, call.store, verified' # {}
             PROVE  stored' = verified'
  BY DEF SavedWithMarker
<1>1. results \in Seq(Addr \cup {None})  BY DEF TypeOK, ResultsOK
<1>2. Pushed(x) \in Seq(Addr \cup {None}) /\ Len(Pushed(x)) \in {1, 2}  BY PushedType
<1>3. results' = results \o Pushed(x)  BY DEF PushToResult
<1>4. x = None \/ HitsLimit
  <2>1. SUFFICES ASSUME ~HitsLimit PROVE x = None  OBVIOUS
  <2>2. Pushed(x) = <<x>>  BY <2>1 DEF Pushed
  <2>3. Len(results') = Len(results) + 1 /\ results'[Len(results) + 1] = x
    BY <1>1, <1>3, <2>2
  <2>4. i = Len(results) + 1  BY <1>1, <1>2, <1>3, <2>3
  <2> QED  BY <2>3, <2>4
<1> QED  BY <1>4 DEF Saved

\* Nothing is persisted too late: the step that puts a marker has saved.
LEMMA PersistStep ==
  ASSUME TypeOK, [Next]_vars
  PROVE  SavedWithMarker
<1>1. ASSUME UNCHANGED results PROVE SavedWithMarker
  BY <1>1 DEF SavedWithMarker
<1>2. CASE Find \/ FindRaises \/ Autosave \/ Take \/ Forget \/ UNCHANGED vars
  BY <1>1, <1>2 DEF Find, FindRaises, Autosave, Take, Forget, resultVars, vars
<1>3. CASE Stop
  <2>1. stored' = Saved(verified') /\ PushToResult(None) /\ UNCHANGED call  BY <1>3 DEF Stop
  <2> QED  BY <2>1, PushSaves
<1>4. CASE GrabStep
  BY <1>1, <1>4 DEF GrabStep, StartWave, AwaitProvider, PassEnds, NextPass, NextProvider,
                    resultVars
<1>5. ASSUME NEW p \in Provider, FetchEnds(p) PROVE SavedWithMarker
  BY <1>1, <1>5 DEF FetchEnds, resultVars
<1>6. ASSUME NEW l \in Loaders, LoaderStep(l) PROVE SavedWithMarker
  <2>1. CASE Deliver(l)
    <3>1. PICK a \in Fresh(hand[l]) : PushToResult(a)  BY <2>1 DEF Deliver
    <3>2. a \in Addr /\ a # None
      BY <3>1, CreatedType, BrokerAssumption DEF Cand
    <3>3. HitsLimit => stored' = Saved(verified')  BY <2>1 DEF Deliver
    <3> QED  BY <2>1, <3>1, <3>2, <3>3, PushSaves DEF Deliver
  <2>2. CASE Finish(l)
    <3>1. stored' = Saved(verified') /\ PushToResult(None) /\ UNCHANGED call
      BY <2>2 DEF Finish
    <3> QED  BY <3>1, PushSaves
  <2>3. CASE ~Deliver(l) /\ ~Finish(l)
    <3>1. UNCHANGED results
      BY <1>6, <2>3 DEF LoaderStep, Begin, BatchEnds, SkipDead, Handle, ResolverRaises,
                        CreateFails, Reject, Admit, AwaitSlot, StartCheck, Join, resultVars
    <3> QED  BY <1>1, <3>1
  <2> QED  BY <2>1, <2>2, <2>3
<1>7. ASSUME NEW t \in CheckId, CheckStep(t) PROVE SavedWithMarker
  <2>1. CASE CheckPassed(t)
    <3> DEFINE a == checks[t].addr
    <3>1. a \in Addr /\ a # None
      BY <2>1, CheckAddress, BrokerAssumption DEF CheckPassed, TypeOK, Cand
    <3>2. HitsLimit => stored' = Saved(verified')  BY <2>1 DEF CheckPassed
    <3>3. PushToResult(a) /\ UNCHANGED call  BY <2>1 DEF CheckPassed
    <3> HIDE DEF a
    <3> QED  BY <3>1, <3>2, <3>3, PushSaves
  <2>2. CASE CheckEnds(t) \/ CheckFailed(t)
    BY <1>1, <2>2 DEF CheckEnds, CheckFailed, resultVars
  <2> QED  BY <1>7, <2>1, <2>2 DEF CheckStep
<1> QED  BY <1>2, <1>3, <1>4, <1>5, <1>6, <1>7 DEF Next

\* Whatever ends the run (limit, last pass, stop) has persisted what was
\* verified by the time the end-of-stream marker is put (api.py:827-836).
THEOREM PersistCorrect == Spec => PersistedAtEnd
<1>1. TypeOK /\ [Next]_vars => [SavedWithMarker]_vars  BY PersistStep
<1> QED  BY <1>1, TypeCorrect, PTL DEF Spec, PersistedAtEnd
-----------------------------------------------------------------------------
(* The two joins. *)

\* The queue of results only grows.
LEMMA ResultsGrow ==
  ASSUME ResultsOK, NEW x \in Addr \cup {None}, PushToResult(x)
  PROVE  Len(results') > Len(results) /\ Len(results') \in Nat /\ Len(results) \in Nat
<1>1. results \in Seq(Addr \cup {None})  BY DEF ResultsOK
<1>2. results' = results \o Pushed(x)  BY DEF PushToResult
<1>3. Pushed(x) \in Seq(Addr \cup {None}) /\ Len(Pushed(x)) \in {1, 2}  BY PushedType
<1>4. Len(results \o Pushed(x)) = Len(results) + Len(Pushed(x)) /\ Len(results) \in Nat
  BY <1>1, <1>3
<1>5. Len(results') = Len(results) + Len(Pushed(x))  BY <1>2, <1>4
<1> QED  BY <1>3, <1>4, <1>5

\* A step that neither takes from the queue nor ends a check makes a loader wait
\* for nothing only if it sends one to wait.
LEMMA StillAwaited ==
  ASSUME TypeOK, SlotAccounting, NoLostWakeup,
         taken' = taken, results' = results \/ Len(results') > Len(results),
         Len(results') \in Nat, unfinished' = unfinished \/ unfinished' = unfinished + 1,
         \A m \in Loaders : pc'[m] = "pause" => pc[m] = "pause",
         \A m \in Loaders : pc'[m] = "join" /\ active' # m => pc[m] = "join" /\ active # m
  PROVE  NoLostWakeup'
<1>1. taken \in Nat /\ Len(results) \in Nat /\ unfinished \in Nat
  BY LiveFinite DEF TypeOK, ResultsOK, SlotAccounting
<1> SUFFICES ASSUME NEW m \in Loaders
             PROVE  /\ pc'[m] = "pause" => taken' < Len(results')
                    /\ pc'[m] = "join" /\ active' # m => unfinished' > 0
  BY DEF NoLostWakeup
<1>2. pc'[m] = "pause" => taken < Len(results)  BY DEF NoLostWakeup
<1>3. pc'[m] = "join" /\ active' # m => unfinished > 0  BY DEF NoLostWakeup
<1> QED  BY <1>1, <1>2, <1>3

\* The steps outside the loaders.
LEMMA OthersAwaited ==
  ASSUME TypeOK, SlotAccounting, NoLostWakeup,
         \/ Find \/ FindRaises \/ Stop \/ Autosave \/ Take \/ Forget \/ GrabStep
         \/ (\E p \in Provider : FetchEnds(p)) \/ UNCHANGED vars
  PROVE  NoLostWakeup'
<1>1. results \in Seq(Addr \cup {None}) /\ taken \in Nat /\ pc \in PcType /\ Len(results) \in Nat
  BY DEF TypeOK, ResultsOK, LoadersOK
<1>2. ASSUME UNCHANGED <<taken, results, unfinished>>,
             \A m \in Loaders : pc'[m] = "pause" => pc[m] = "pause",
             \A m \in Loaders : pc'[m] = "join" /\ active' # m => pc[m] = "join" /\ active # m
      PROVE  NoLostWakeup'
  BY <1>1, <1>2, StillAwaited
<1>3. CASE Find
  <2>1. UNCHANGED <<taken, results, unfinished>>  BY <1>3 DEF Find, checkVars
  <2>2. \A m \in Loaders : pc'[m] \in {"off", "ready"}  BY <1>3 DEF Find, Loaders
  <2> QED  BY <1>2, <2>1, <2>2
<1>4. CASE FindRaises \/ Autosave \/ Forget \/ (\E p \in Provider : FetchEnds(p)) \/ UNCHANGED vars
  BY <1>2, <1>4 DEF FindRaises, Autosave, Forget, FetchEnds, vars, loaderVars, checkVars, resultVars
<1>5. CASE Stop
  <2>1. PushToResult(None) /\ UNCHANGED <<taken, unfinished, active>>  BY <1>5 DEF Stop
  <2>2. Len(results') > Len(results) /\ Len(results') \in Nat
    BY <2>1, ResultsGrow DEF TypeOK
  <2>3. \A m \in Loaders : pc'[m] = pc[m] \/ pc'[m] = "cancelled"
    BY <1>5 DEF Stop, CancelledLoaders
  <2> QED  BY <2>1, <2>2, <2>3, StillAwaited
<1>6. CASE Take
  <2>1. taken' = taken + 1 /\ taken < Len(results) /\ UNCHANGED <<results, unfinished, active>>
    BY <1>6 DEF Take, resultVars, checkVars
  <2>2. pc' = [l \in Loaders |-> IF taken' = Len(results) /\ pc[l] = "pause"
                                   THEN "put" ELSE pc[l]]
    BY <1>6 DEF Take
  <2>3. ASSUME NEW m \in Loaders, pc'[m] = "pause" PROVE taken' < Len(results')
    BY <1>1, <2>1, <2>2, <2>3
  <2>4. ASSUME NEW m \in Loaders, pc'[m] = "join", active' # m PROVE unfinished' > 0
    BY <2>1, <2>2, <2>4 DEF NoLostWakeup
  <2> QED  BY <2>3, <2>4 DEF NoLostWakeup
<1>7. CASE GrabStep
  <2>1. UNCHANGED <<taken, results, unfinished>> /\ active \in {None, "grab"}
    BY <1>7 DEF GrabStep, StartWave, AwaitProvider, PassEnds, NextPass, NextProvider, Goto,
                Suspend, checkVars, resultVars
  <2>2. \A m \in Loaders \ {"grab"} : pc'[m] = pc[m]
    BY <1>1, <1>7 DEF GrabStep, StartWave, AwaitProvider, PassEnds, NextPass, NextProvider,
                      Goto, Suspend, PcType
  <2>3. pc'["grab"] # "pause" /\ (pc'["grab"] = "join" => active' = "grab")
    BY <1>1, <1>7 DEF GrabStep, StartWave, AwaitProvider, PassEnds, NextPass, NextProvider,
                      Goto, Suspend, PcType, Loaders
  <2>4. None \notin Loaders  BY BrokerAssumption
  <2> QED  BY <1>2, <2>1, <2>2, <2>3, <2>4
<1> QED  BY <1>3, <1>4, <1>5, <1>6, <1>7

\* The steps of a loader: it pauses while a result is queued, joins while a
\* check is unfinished, and disturbs no other.
LEMMA LoaderAwaited ==
  ASSUME TypeOK, SlotAccounting, NoLostWakeup, NEW l \in Loaders, LoaderStep(l)
  PROVE  NoLostWakeup'
<1>1. results \in Seq(Addr \cup {None}) /\ taken \in Nat /\ pc \in PcType /\ Len(results) \in Nat
  BY DEF TypeOK, ResultsOK, LoadersOK
<1>2. unfinished \in Nat  BY LiveFinite DEF SlotAccounting
<1>3. active \in {None, l} /\ None \notin Loaders
  BY BrokerAssumption DEF LoaderStep, Begin, BatchEnds, SkipDead, Handle, ResolverRaises, CreateFails, Reject,
         Admit, Deliver, AwaitSlot, StartCheck, Join, Finish
<1>4. unfinished' = unfinished \/ unfinished' = unfinished + 1
  BY DEF LoaderStep, Begin, BatchEnds, SkipDead, Handle, ResolverRaises, CreateFails, Reject,
         Admit, Deliver, AwaitSlot, StartCheck, Join, Finish, checkVars
<1>5. taken' = taken
  BY DEF LoaderStep, Begin, BatchEnds, SkipDead, Handle, ResolverRaises, CreateFails, Reject,
         Admit, Deliver, AwaitSlot, StartCheck, Join, Finish
<1>6. Len(results') \in Nat /\ (results' = results \/ Len(results') > Len(results))
  <2>1. CASE Deliver(l)
    <3>1. PICK a \in Fresh(hand[l]) : PushToResult(a)  BY <2>1 DEF Deliver
    <3>2. a \in Addr \cup {None}  BY DEF Fresh, Created
    <3> QED  BY <3>1, <3>2, ResultsGrow DEF TypeOK
  <2>2. CASE Finish(l)  BY <2>2, ResultsGrow DEF Finish, TypeOK
  <2>3. CASE ~Deliver(l) /\ ~Finish(l)
    BY <1>1, <2>3 DEF LoaderStep, Begin, BatchEnds, SkipDead, Handle, ResolverRaises, CreateFails,
           Reject, Admit, AwaitSlot, StartCheck, Join, resultVars
  <2> QED  BY <2>1, <2>2, <2>3
<1>7. ASSUME NEW m \in Loaders, m # l
      PROVE  /\ pc'[m] = pc[m] \/ pc'[m] = "cancelled"
             /\ pc'[m] = "join" => active # m
  <2>1. pc'[m] = pc[m] \/ pc'[m] = "cancelled"
    BY <1>1, <1>7 DEF LoaderStep, Begin, BatchEnds, SkipDead, Handle, ResolverRaises, CreateFails,
           Reject, Admit, Deliver, AwaitSlot, StartCheck, Join, Finish, Goto, Suspend, PcType,
           CancelledLoaders
  <2> QED  BY <1>3, <1>7, <2>1
<1>8. ASSUME pc'[l] = "pause" PROVE taken' < Len(results')
  <2>1. ~Deliver(l) /\ ~Finish(l)
    <3>1. DOMAIN CancelledLoaders(pc, l) = Loaders  BY DEF CancelledLoaders
    <3>2. DOMAIN pc = Loaders  BY <1>1 DEF PcType
    <3> QED  BY <1>8, <3>1, <3>2 DEF Deliver, Finish
  <2>2. pc[l] # "pause"
    BY <1>8, <2>1 DEF LoaderStep, Begin, BatchEnds, SkipDead, Handle, ResolverRaises, CreateFails,
           Reject, Admit, AwaitSlot, StartCheck, Join
  <2>3. Admit(l) /\ Paused
    BY <1>1, <1>8, <2>1, <2>2 DEF LoaderStep, Begin, BatchEnds, SkipDead, Handle,
           ResolverRaises, CreateFails, Reject, Admit, AwaitSlot, StartCheck, Join, Goto, Suspend,
           PcType
  <2> QED  BY <1>1, <2>3 DEF Admit, Paused, resultVars
<1>9. ASSUME pc'[l] = "join", active' # l PROVE unfinished' > 0
  <2>1. ~Deliver(l) /\ ~Finish(l)
    <3>1. DOMAIN CancelledLoaders(pc, l) = Loaders  BY DEF CancelledLoaders
    <3>2. DOMAIN pc = Loaders  BY <1>1 DEF PcType
    <3> QED  BY <1>9, <3>1, <3>2 DEF Deliver, Finish
  <2>2. Join(l) /\ unfinished # 0
    BY <1>1, <1>9, <2>1 DEF LoaderStep, Begin, BatchEnds, SkipDead, Handle, ResolverRaises,
           CreateFails, Reject, Admit, AwaitSlot, StartCheck, Join, Goto, Suspend, PcType
  <2> QED  BY <1>2, <2>2 DEF Join, checkVars
<1> SUFFICES ASSUME NEW m \in Loaders, m # l
             PROVE  /\ pc'[m] = "pause" => taken' < Len(results')
                    /\ pc'[m] = "join" /\ active' # m => unfinished' > 0
  BY <1>8, <1>9 DEF NoLostWakeup
<1>10. pc'[m] = "pause" => taken < Len(results)  BY <1>7 DEF NoLostWakeup
<1>11. pc'[m] = "join" => unfinished > 0  BY <1>7 DEF NoLostWakeup
<1> QED  BY <1>1, <1>2, <1>4, <1>5, <1>6, <1>10, <1>11

\* The end of a check: its callback wakes whoever joins if it was the last.
LEMMA CheckAwaited ==
  ASSUME TypeOK, SlotAccounting, NoLostWakeup, NEW t \in CheckId, CheckStep(t)
  PROVE  NoLostWakeup'
<1>1. results \in Seq(Addr \cup {None}) /\ taken \in Nat /\ pc \in PcType /\ Len(results) \in Nat
  BY DEF TypeOK, ResultsOK, LoadersOK
<1>2. unfinished \in Nat /\ None \notin Loaders  BY LiveFinite, BrokerAssumption DEF SlotAccounting
<1>3. CASE CheckEnds(t)
  BY <1>1, <1>3, StillAwaited DEF CheckEnds, loaderVars, resultVars
<1>4. CASE CheckFailed(t) \/ CheckPassed(t)
  <2>1. active = None /\ unfinished' = unfinished - 1 /\ UNCHANGED <<active, taken>>
    BY <1>4 DEF CheckFailed, CheckPassed, FreeSlot
  <2>2. Len(results') \in Nat /\ Len(results') >= Len(results)
    <3>1. CASE CheckFailed(t)  BY <1>1, <3>1 DEF CheckFailed, resultVars
    <3>2. CASE CheckPassed(t)
      <4>1. checks[t].addr \in Addr
        BY <3>2 DEF CheckPassed, TypeOK, ChecksOK, CheckType, Free
      <4> QED  BY <3>2, <4>1, ResultsGrow DEF CheckPassed, TypeOK
    <3> QED  BY <1>4, <3>1, <3>2
  <2>3. ASSUME NEW m \in Loaders
        PROVE  /\ pc'[m] = Woken[m] \/ pc'[m] = "cancelled"
               /\ Woken[m] = IF unfinished = 1 /\ pc[m] = "join" THEN "finish" ELSE pc[m]
    BY <1>4 DEF CheckFailed, CheckPassed, CancelledLoaders, Woken
  <2>4. ASSUME NEW m \in Loaders, pc'[m] = "pause" PROVE taken' < Len(results')
    <3>1. pc[m] = "pause"  BY <2>3, <2>4
    <3> QED  BY <1>1, <2>1, <2>2, <3>1 DEF NoLostWakeup
  <2>5. ASSUME NEW m \in Loaders, pc'[m] = "join" PROVE unfinished' > 0
    <3>1. pc[m] = "join" /\ unfinished # 1  BY <2>3, <2>5
    <3>2. unfinished > 0  BY <1>2, <2>1, <3>1 DEF NoLostWakeup
    <3> QED  BY <1>2, <2>1, <3>1, <3>2
  <2> QED  BY <2>4, <2>5 DEF NoLostWakeup
<1> QED  BY <1>3, <1>4 DEF CheckStep

\* A loader that waits for the consumer, or for the last check, has one to wait
\* for (api.py:560, 663, 735): no wake-up is lost however the put of a result,
\* the consumer, the callbacks and the two loaders interleave.
THEOREM WaitersAreWoken == Spec => []NoLostWakeup
<1>1. Init => NoLostWakeup  BY DEF Init, NoLostWakeup
<1>2. TypeOK /\ SlotAccounting /\ NoLostWakeup /\ [Next]_vars => NoLostWakeup'
  BY OthersAwaited, LoaderAwaited, CheckAwaited DEF Next
<1> QED  BY <1>1, <1>2, TypeCorrect, SlotsCorrect, PTL DEF Spec

-----------------------------------------------------------------------------
(* The funnel. *)

\* The positions of results are finitely many.
LEMMA FoundFinite ==
  ASSUME ResultsOK
  PROVE  IsFiniteSet(Found) /\ Cardinality(Found) \in Nat
<1>1. Found \subseteq 1..Len(results) /\ Len(results) \in Int  BY DEF ResultsOK, Found
<1>2. IsFiniteSet(1..Len(results))  BY <1>1, FS_Interval
<1>3. IsFiniteSet(Found)  BY <1>1, <1>2, FS_Subset
<1> QED  BY <1>3, FS_CardinalityType

\* A push adds what is pushed to the results, and the marker is none.
LEMMA PushFound ==
  ASSUME ResultsOK, NEW x \in Addr \cup {None}, PushToResult(x)
  PROVE  /\ Len(results) + 1 \notin Found
         /\ Found' = IF x = None THEN Found ELSE Found \cup {Len(results) + 1}
<1>1. results \in Seq(Addr \cup {None})  BY DEF ResultsOK
<1>2. results' = results \o Pushed(x)  BY DEF PushToResult
<1>3. Pushed(x) = <<x>> \/ Pushed(x) = <<x, None>>  BY DEF Pushed
<1>4. Len(results) + 1 \notin Found  BY <1>1 DEF Found
<1>5. CASE Pushed(x) = <<x>>
  <2>1. DOMAIN results' = 1..Len(results) + 1 /\ results'[Len(results) + 1] = x
    BY <1>1, <1>2, <1>5
  <2>2. \A i \in 1..Len(results) : results'[i] = results[i]  BY <1>1, <1>2, <1>5
  <2> QED  BY <1>1, <1>4, <2>1, <2>2 DEF Found
<1>6. CASE Pushed(x) = <<x, None>>
  <2>1. /\ DOMAIN results' = 1..Len(results) + 2 /\ results'[Len(results) + 1] = x
        /\ results'[Len(results) + 2] = None
    BY <1>1, <1>2, <1>6
  <2>2. \A i \in 1..Len(results) : results'[i] = results[i]  BY <1>1, <1>2, <1>6
  <2> QED  BY <1>1, <1>4, <2>1, <2>2 DEF Found
<1> QED  BY <1>3, <1>5, <1>6

\* A result is one more, the marker none.
LEMMA PushCounts ==
  ASSUME ResultsOK, NEW x \in Addr \cup {None}, PushToResult(x)
  PROVE  /\ x = None => Found' = Found
         /\ x # None => Cardinality(Found') = Cardinality(Found) + 1
<1>1. CASE x = None  BY <1>1, PushFound
<1>2. CASE x # None
  <2>1. Found' = Found \cup {Len(results) + 1} /\ Len(results) + 1 \notin Found
    BY <1>2, PushFound
  <2> QED  BY <1>2, <2>1, FoundFinite, FS_AddElement
<1> QED  BY <1>1, <1>2

\* The loaders that have a candidate in hand.
InHand == {l \in Loaders : hand[l] # None}

\* There are at most three.
LEMMA InHandFinite ==
  IsFiniteSet(InHand) /\ Cardinality(InHand) \in Nat
<1>1. IsFiniteSet({"load"} \cup {"warm"} \cup {"grab"})
  BY FS_Singleton, FS_Union
<1>2. InHand \subseteq {"load"} \cup {"warm"} \cup {"grab"}  BY DEF InHand, Loaders
<1>3. IsFiniteSet(InHand)  BY <1>1, <1>2, FS_Subset
<1> QED  BY <1>3, FS_CardinalityType

\* One loader takes a candidate or lets it go.
LEMMA HandChanges ==
  ASSUME TypeOK, NEW l \in Loaders, NEW c, hand' = [hand EXCEPT ![l] = c]
  PROVE  /\ hand[l] = None /\ c # None => Cardinality(InHand') = Cardinality(InHand) + 1
         /\ hand[l] # None /\ c = None => Cardinality(InHand') = Cardinality(InHand) - 1
         /\ hand[l] # None /\ c # None => InHand' = InHand
<1>1. hand \in [Loaders -> Cand \cup {None}]  BY DEF TypeOK, LoadersOK
<1>2. InHand' = IF c # None THEN InHand \cup {l} ELSE InHand \ {l}  BY <1>1 DEF InHand
<1>3. l \in InHand <=> hand[l] # None  BY DEF InHand
<1>4. CASE c # None  BY <1>2, <1>3, <1>4, InHandFinite, FS_AddElement
<1>5. CASE c = None  BY <1>2, <1>3, <1>5, InHandFinite, FS_RemoveElement
<1> QED  BY <1>4, <1>5

\* Where a loader has a candidate in hand and where it has none; without check
\* nothing goes to the check.
HandFits ==
  /\ \A l \in Loaders :
       /\ pc[l] \in {"created", "resolve", "put", "pause"} => hand[l] # None
       /\ pc[l] \in {"off", "ready", "fetch", "wave", "handle", "sleep", "join", "finish"} =>
            hand[l] = None
  /\ ~Check => Live = {} /\ \A l \in Loaders : pc[l] \notin {"put", "pause"}

\* A step of a loader leaves its hand as its next place wants it.
LEMMA LoaderHandFits ==
  ASSUME TypeOK, HandFits, NEW l \in Loaders, LoaderStep(l)
  PROVE  /\ \A m \in Loaders \ {l} : pc'[m] \in {pc[m], "cancelled"} /\ hand'[m] = hand[m]
         /\ pc'[l] \in {"created", "resolve", "put", "pause"} => hand'[l] # None
         /\ pc'[l] \in {"off", "ready", "fetch", "wave", "handle", "sleep", "join", "finish"} =>
              hand'[l] = None
         /\ ~Check => pc'[l] \notin {"put", "pause"}
<1> USE DEF HandFits
<1>1. pc \in PcType /\ hand \in [Loaders -> Cand \cup {None}] /\ todo \in [Loaders -> SUBSET Cand]
  BY DEF TypeOK, LoadersOK
<1>2. None \notin Cand  BY BrokerAssumption
<1>3. CASE Begin(l) \/ BatchEnds(l)
  BY <1>1, <1>3 DEF Begin, BatchEnds, Goto, PcType
<1>4. CASE SkipDead(l)
  BY <1>1, <1>4 DEF SkipDead
<1>5. CASE Handle(l)
  <2>1. PICK c \in Cand : hand' = [hand EXCEPT ![l] = c]  BY <1>1, <1>5 DEF Handle
  <2>2. pc' = [pc EXCEPT ![l] = "created"] \/ pc' = [pc EXCEPT ![l] = "resolve"]
          \/ pc' = [pc EXCEPT ![l] = "cancelled"]
    BY <1>5 DEF Handle, Goto, Suspend
  <2> QED  BY <1>1, <1>2, <2>1, <2>2 DEF PcType
<1>6. CASE ResolverRaises(l)
  BY <1>1, <1>6 DEF ResolverRaises, PcType
<1>7. CASE CreateFails(l) \/ Reject(l)
  BY <1>1, <1>7 DEF CreateFails, Reject, Goto, PcType
<1>8. CASE Admit(l)
  <2>1. PICK a \in Fresh(hand[l]) : hand' = [hand EXCEPT ![l] = a]  BY <1>8 DEF Admit
  <2>2. a \in Cand  BY <2>1, CreatedType DEF Cand
  <2>3. Check /\ (pc' = [pc EXCEPT ![l] = "put"] \/ pc' = [pc EXCEPT ![l] = "pause"]
                   \/ pc' = [pc EXCEPT ![l] = "cancelled"])
    BY <1>8 DEF Admit, Goto, Suspend
  <2> QED  BY <1>1, <1>2, <2>1, <2>2, <2>3 DEF PcType
<1>9. CASE Deliver(l) \/ Finish(l)
  <2>1. \A m \in Loaders : CancelledLoaders(pc, l)[m] \in {pc[m], "cancelled"}
    BY DEF CancelledLoaders
  <2>2. DOMAIN CancelledLoaders(pc, l) = Loaders /\ DOMAIN pc = Loaders
    BY <1>1 DEF CancelledLoaders, PcType
  <2>3. CASE Deliver(l)  BY <1>1, <2>1, <2>2, <2>3 DEF Deliver
  <2>4. CASE Finish(l)  BY <1>1, <2>1, <2>2, <2>4 DEF Finish
  <2> QED  BY <1>9, <2>3, <2>4
<1>10. CASE AwaitSlot(l)
  BY <1>1, <1>10 DEF AwaitSlot, Suspend, PcType
<1>11. CASE StartCheck(l)
  BY <1>1, <1>11 DEF StartCheck, Goto, PcType
<1>12. CASE Join(l)
  BY <1>1, <1>12 DEF Join, Goto, Suspend, PcType
<1> QED
  BY <1>3, <1>4, <1>5, <1>6, <1>7, <1>8, <1>9, <1>10, <1>11, <1>12 DEF LoaderStep

\* Every step keeps the hands as the places want them.
LEMMA HandFitsStep ==
  ASSUME TypeOK, SlotAccounting, SlotAccounting', LimitInv, HandFits, [Next]_vars
  PROVE  HandFits'
<1>1. pc \in PcType /\ hand \in [Loaders -> Cand \cup {None}]  BY DEF TypeOK, LoadersOK
<1>2. ASSUME Check' = Check, unfinished' = unfinished, ~Check PROVE Live' = {}
  <2>1. Cardinality(Live) = 0  BY <1>2, FS_EmptySet DEF HandFits
  <2>2. Cardinality(Live') = 0  BY <1>2, <2>1 DEF SlotAccounting
  <2>3. Live' \subseteq CheckId  BY DEF Live
  <2>4. IsFiniteSet(Live')  BY <2>3, BrokerAssumption, FS_Subset
  <2> QED  BY <2>2, <2>4, FS_EmptySet
<1>3. ASSUME UNCHANGED <<call, hand, unfinished>>,
             \A m \in Loaders : pc'[m] \in {pc[m], "cancelled"}
      PROVE  HandFits'
  BY <1>2, <1>3 DEF HandFits, Check
<1>4. CASE Find
  <2>1. UNCHANGED <<call, hand, unfinished>> /\ \A m \in Loaders : pc'[m] \in {"off", "ready"}
    BY <1>4 DEF Find, checkVars, Loaders
  <2>2. \A m \in Loaders : hand[m] = None  BY <1>4 DEF Find, LimitInv, Nothing, HandFits
  <2> QED  BY <1>2, <2>1, <2>2 DEF HandFits, Check
<1>5. CASE FindRaises \/ Autosave \/ Forget \/ (\E p \in Provider : FetchEnds(p)) \/ UNCHANGED vars
  BY <1>3, <1>5 DEF FindRaises, Autosave, Forget, FetchEnds, vars, loaderVars, checkVars
<1>6. CASE Stop
  BY <1>3, <1>6 DEF Stop, CancelledLoaders
<1>7. CASE Take
  <2>1. UNCHANGED <<call, hand, unfinished>> /\
        \A m \in Loaders : pc'[m] = pc[m] \/ (pc[m] = "pause" /\ pc'[m] = "put")
    BY <1>7 DEF Take, checkVars
  <2> QED  BY <1>2, <2>1 DEF HandFits, Check
<1>8. CASE GrabStep
  <2>1. UNCHANGED <<call, hand, unfinished>> /\ "grab" \in Loaders
    BY <1>8 DEF GrabStep, StartWave, AwaitProvider, PassEnds, NextPass, NextProvider,
                checkVars, Loaders
  <2>2. pc["grab"] \in {"wave", "fetch", "sleep"}
    BY <1>8 DEF GrabStep, StartWave, AwaitProvider, PassEnds, NextPass, NextProvider
  <2>3. PICK at \in {"fetch", "handle", "wave", "sleep", "join", "cancelled"} :
          pc' = [pc EXCEPT !["grab"] = at]
    BY <1>8 DEF GrabStep, StartWave, AwaitProvider, PassEnds, NextPass, NextProvider,
                Goto, Suspend
  <2>4. hand["grab"] = None  BY <2>1, <2>2 DEF HandFits
  <2> QED  BY <1>1, <1>2, <2>1, <2>3, <2>4 DEF HandFits, Check, PcType
<1>9. ASSUME NEW l \in Loaders, LoaderStep(l) PROVE HandFits'
  <2>1. call' = call
    BY <1>9 DEF LoaderStep, Begin, BatchEnds, SkipDead, Handle, ResolverRaises, CreateFails,
                Reject, Admit, Deliver, AwaitSlot, StartCheck, Join, Finish
  <2>2. Check' = Check  BY <2>1 DEF Check
  <2>3. ~Check => Live' = {}
    <3>1. ~Check => ~StartCheck(l)  BY DEF HandFits, StartCheck
    <3>2. ~StartCheck(l) => unfinished' = unfinished
      BY <1>9 DEF LoaderStep, Begin, BatchEnds, SkipDead, Handle, ResolverRaises, CreateFails,
                  Reject, Admit, Deliver, AwaitSlot, Join, Finish, checkVars
    <3> QED  BY <1>2, <2>2, <3>1, <3>2
  <2>4. /\ \A m \in Loaders \ {l} : pc'[m] \in {pc[m], "cancelled"} /\ hand'[m] = hand[m]
        /\ pc'[l] \in {"created", "resolve", "put", "pause"} => hand'[l] # None
        /\ pc'[l] \in {"off", "ready", "fetch", "wave", "handle", "sleep", "join", "finish"} =>
             hand'[l] = None
        /\ ~Check => pc'[l] \notin {"put", "pause"}
    BY <1>9, LoaderHandFits
  <2>5. ASSUME NEW m \in Loaders
        PROVE  /\ pc'[m] \in {"created", "resolve", "put", "pause"} => hand'[m] # None
               /\ pc'[m] \in {"off", "ready", "fetch", "wave", "handle", "sleep", "join", "finish"} =>
                    hand'[m] = None
               /\ ~Check => pc'[m] \notin {"put", "pause"}
    BY <2>4 DEF HandFits
  <2> QED  BY <2>2, <2>3, <2>5 DEF HandFits
<1>10. ASSUME NEW t \in CheckId, CheckStep(t) PROVE HandFits'
  <2>1. t \in Live  BY <1>10 DEF CheckStep, CheckEnds, CheckFailed, CheckPassed, Live, Free
  <2>2. Check /\ Check'
    BY <1>10, <2>1 DEF HandFits, CheckStep, CheckEnds, CheckFailed, CheckPassed, Check
  <2>3. hand' = hand  BY <1>10 DEF CheckStep, CheckEnds, CheckFailed, CheckPassed, loaderVars
  <2>4. \A m \in Loaders : \/ pc'[m] \in {pc[m], "cancelled"}
                           \/ pc[m] = "join" /\ pc'[m] = "finish"
    BY <1>10 DEF CheckStep, CheckEnds, CheckFailed, CheckPassed, loaderVars, Woken,
                 CancelledLoaders
  <2> QED  BY <2>2, <2>3, <2>4 DEF HandFits
<1> QED  BY <1>4, <1>5, <1>6, <1>7, <1>8, <1>9, <1>10 DEF Next

\* The balance of the funnel, with the semaphore's count of the checks in flight.
Balanced ==
  /\ stat.candidates = stat.knownDead + stat.duplicates + stat.geoRejected + stat.dropped
                       + (IF Check THEN stat.checked + unfinished ELSE Cardinality(Found))
                       + Cardinality(InHand)
  /\ Check => stat.passed = Cardinality(Found)

\* The two say the same.
LEMMA BalancedIsConservation ==
  ASSUME SlotAccounting
  PROVE  Balanced <=> FunnelConservation
  BY DEF SlotAccounting, Balanced, FunnelConservation, InHand

\* A step that neither counts nor moves a candidate.
LEMMA NothingCounted ==
  ASSUME TypeOK, Balanced, UNCHANGED <<call, unfinished>>,
         stat' = stat \/ stat' = [stat EXCEPT !.passes = @ + 1],
         Found' = Found, InHand' = InHand
  PROVE  Balanced'
<1>1. stat \in StatType  BY DEF TypeOK, RestOK
<1>2. /\ stat'.candidates = stat.candidates /\ stat'.knownDead = stat.knownDead
      /\ stat'.duplicates = stat.duplicates /\ stat'.geoRejected = stat.geoRejected
      /\ stat'.dropped = stat.dropped /\ stat'.checked = stat.checked
      /\ stat'.passed = stat.passed
  BY <1>1 DEF StatType
<1> QED  BY <1>2 DEF Balanced, Check

\* The steps of the loaders.
LEMMA LoaderBalanced ==
  ASSUME TypeOK, HandOK, SlotAccounting, HandFits, Balanced, NEW l \in Loaders, LoaderStep(l)
  PROVE  Balanced'
<1>1. /\ stat \in StatType /\ hand \in [Loaders -> Cand \cup {None}]
      /\ todo \in [Loaders -> SUBSET Cand] /\ unfinished \in Nat
      /\ Cardinality(Found) \in Nat /\ Cardinality(InHand) \in Nat
  BY LiveFinite, FoundFinite, InHandFinite DEF TypeOK, RestOK, LoadersOK, SlotAccounting
<1>2. None \notin Cand  BY BrokerAssumption
<1>3. CASE Begin(l) \/ BatchEnds(l) \/ AwaitSlot(l) \/ Join(l)
  <2>1. UNCHANGED <<call, unfinished, stat, results, hand>>
    BY <1>3 DEF Begin, BatchEnds, AwaitSlot, Join, checkVars, resultVars
  <2> QED  BY <2>1, NothingCounted DEF Found, InHand
<1>4. CASE SkipDead(l)
  <2>1. UNCHANGED <<call, unfinished, results, hand>>
    BY <1>4 DEF SkipDead, checkVars, resultVars
  <2>2. stat' = [stat EXCEPT !.candidates = @ + 1, !.knownDead = @ + 1]  BY <1>4 DEF SkipDead
  <2>3. Found' = Found /\ InHand' = InHand /\ Check' = Check  BY <2>1 DEF Found, InHand, Check
  <2> QED  BY <1>1, <2>1, <2>2, <2>3 DEF Balanced, StatType
<1>5. CASE Handle(l)
  <2>1. UNCHANGED <<call, unfinished, results>> /\ hand[l] = None
    BY <1>5 DEF Handle, checkVars, resultVars, HandFits
  <2>2. PICK c \in todo[l] : hand' = [hand EXCEPT ![l] = c]  BY <1>5 DEF Handle
  <2>3. c # None  BY <1>1, <1>2, <2>2
  <2>4. stat' = [stat EXCEPT !.candidates = @ + 1]  BY <1>5 DEF Handle, Count
  <2>5. Cardinality(InHand') = Cardinality(InHand) + 1  BY <1>2, <2>1, <2>2, <2>3, HandChanges
  <2>6. Found' = Found /\ Check' = Check  BY <2>1 DEF Found, Check
  <2> QED  BY <1>1, <2>1, <2>4, <2>5, <2>6 DEF Balanced, StatType
<1>6. CASE ResolverRaises(l) \/ CreateFails(l) \/ Reject(l)
  <2>1. UNCHANGED <<call, unfinished, results>> /\ hand[l] # None /\ hand' = [hand EXCEPT ![l] = None]
    BY <1>6 DEF ResolverRaises, CreateFails, Reject, checkVars, resultVars, HandFits
  <2>2. \/ stat' = [stat EXCEPT !.dropped = @ + 1, !.passes = @ + 1]
        \/ stat' = [stat EXCEPT !.dropped = @ + 1]
        \/ stat' = [stat EXCEPT !.duplicates = @ + 1]
        \/ stat' = [stat EXCEPT !.geoRejected = @ + 1]
    BY <1>6 DEF ResolverRaises, CreateFails, Reject, Count
  <2>3. Cardinality(InHand') = Cardinality(InHand) - 1  BY <2>1, HandChanges
  <2>4. Found' = Found /\ Check' = Check  BY <2>1 DEF Found, Check
  <2>5. ASSUME stat' = [stat EXCEPT !.dropped = @ + 1] PROVE Balanced'
    BY <1>1, <2>1, <2>3, <2>4, <2>5 DEF Balanced, StatType
  <2>6. ASSUME stat' = [stat EXCEPT !.dropped = @ + 1, !.passes = @ + 1] PROVE Balanced'
    <3>1. /\ stat'.candidates = stat.candidates /\ stat'.knownDead = stat.knownDead
          /\ stat'.duplicates = stat.duplicates /\ stat'.geoRejected = stat.geoRejected
          /\ stat'.dropped = stat.dropped + 1 /\ stat'.checked = stat.checked
          /\ stat'.passed = stat.passed
      BY <1>1, <2>6 DEF StatType
    <3>2. stat.dropped \in Nat /\ stat.geoRejected \in Nat /\ stat.duplicates \in Nat
          /\ stat.knownDead \in Nat /\ stat.checked \in Nat /\ stat.candidates \in Nat
          /\ Cardinality(Found) \in Nat /\ Cardinality(InHand) \in Nat
      BY <1>1 DEF StatType
    <3>3. CASE Check
      <4>1. stat.candidates = stat.knownDead + stat.duplicates + stat.geoRejected
              + stat.dropped + (stat.checked + unfinished) + Cardinality(InHand)
        BY <3>3 DEF Balanced
      <4>2. stat'.candidates = stat'.knownDead + stat'.duplicates + stat'.geoRejected
              + stat'.dropped + (stat'.checked + unfinished') + Cardinality(InHand')
        BY <1>1, <2>1, <2>3, <3>1, <3>2, <4>1
      <4> QED  BY <2>4, <3>1, <3>3, <4>2 DEF Balanced
    <3>4. CASE ~Check
      <4>1. stat.candidates = stat.knownDead + stat.duplicates + stat.geoRejected
              + stat.dropped + Cardinality(Found) + Cardinality(InHand)
        BY <3>4 DEF Balanced
      <4>2. stat'.candidates = stat'.knownDead + stat'.duplicates + stat'.geoRejected
              + stat'.dropped + Cardinality(Found) + Cardinality(InHand')
        BY <2>3, <3>1, <3>2, <4>1
      <4> QED  BY <2>4, <3>4, <4>2 DEF Balanced
    <3> QED  BY <3>3, <3>4
  <2>7. ASSUME stat' = [stat EXCEPT !.duplicates = @ + 1] PROVE Balanced'
    BY <1>1, <2>1, <2>3, <2>4, <2>7 DEF Balanced, StatType
  <2>8. ASSUME stat' = [stat EXCEPT !.geoRejected = @ + 1] PROVE Balanced'
    BY <1>1, <2>1, <2>3, <2>4, <2>8 DEF Balanced, StatType
  <2> QED  BY <2>2, <2>5, <2>6, <2>7, <2>8
<1>7. CASE Admit(l)
  <2>1. UNCHANGED <<call, unfinished, results, stat>> /\ hand[l] # None
    BY <1>7 DEF Admit, checkVars, resultVars, HandFits
  <2>2. PICK a \in Fresh(hand[l]) : hand' = [hand EXCEPT ![l] = a]  BY <1>7 DEF Admit
  <2>3. a # None  BY <1>2, <2>2, CreatedType DEF Cand
  <2>4. InHand' = InHand  BY <2>1, <2>2, <2>3, HandChanges
  <2> QED  BY <2>1, <2>4, NothingCounted DEF Found
<1>8. CASE Deliver(l)
  <2>1. UNCHANGED <<call, stat>> /\ hand[l] # None /\ hand' = [hand EXCEPT ![l] = None] /\ ~Check
    BY <1>8 DEF Deliver, HandFits
  <2>2. PICK a \in Fresh(hand[l]) : PushToResult(a)  BY <1>8 DEF Deliver
  <2>3. a \in Addr /\ a # None  BY <1>2, <2>2, CreatedType DEF Cand
  <2>4. Cardinality(Found') = Cardinality(Found) + 1  BY <2>2, <2>3, PushCounts DEF TypeOK
  <2>5. Cardinality(InHand') = Cardinality(InHand) - 1  BY <2>1, HandChanges
  <2>6. ~Check'  BY <2>1 DEF Check
  <2> QED  BY <1>1, <2>1, <2>4, <2>5, <2>6 DEF Balanced, StatType
<1>9. CASE StartCheck(l)
  <2>1. UNCHANGED <<call, stat, results>> /\ hand[l] # None /\ hand' = [hand EXCEPT ![l] = None]
        /\ Check /\ unfinished' = unfinished + 1
    BY <1>9 DEF StartCheck, HandFits, resultVars
  <2>2. Cardinality(InHand') = Cardinality(InHand) - 1  BY <2>1, HandChanges
  <2>3. Found' = Found /\ Check'  BY <2>1 DEF Found, Check
  <2> QED  BY <1>1, <2>1, <2>2, <2>3 DEF Balanced, StatType
<1>10. CASE Finish(l)
  <2>1. UNCHANGED <<call, stat, hand, unfinished>> /\ PushToResult(None)  BY <1>10 DEF Finish
  <2>2. Found' = Found  BY <2>1, PushCounts DEF TypeOK
  <2> QED  BY <2>1, <2>2, NothingCounted DEF InHand
<1> QED
  BY <1>3, <1>4, <1>5, <1>6, <1>7, <1>8, <1>9, <1>10 DEF LoaderStep

\* Every step keeps the balance.
LEMMA FunnelStep ==
  ASSUME TypeOK, HandOK, SlotAccounting, HandFits, Balanced, [Next]_vars
  PROVE  Balanced'
<1>1. /\ stat \in StatType /\ unfinished \in Nat
      /\ Cardinality(Found) \in Nat /\ Cardinality(InHand) \in Nat
  BY LiveFinite, FoundFinite, InHandFinite DEF TypeOK, RestOK, SlotAccounting
<1>2. CASE Find \/ FindRaises \/ Autosave \/ Take \/ Forget \/ (\E p \in Provider : FetchEnds(p))
           \/ UNCHANGED vars
  <2>1. UNCHANGED <<call, unfinished, stat, results, hand>>
    BY <1>2 DEF Find, FindRaises, Autosave, Take, Forget, FetchEnds, vars, loaderVars, checkVars,
                resultVars
  <2> QED  BY <2>1, NothingCounted DEF Found, InHand
<1>3. CASE Stop
  <2>1. UNCHANGED <<call, stat, hand, unfinished>> /\ PushToResult(None)  BY <1>3 DEF Stop
  <2>2. Found' = Found  BY <2>1, PushCounts DEF TypeOK
  <2> QED  BY <2>1, <2>2, NothingCounted DEF InHand
<1>4. CASE GrabStep
  <2>1. UNCHANGED <<call, unfinished, results, hand>>
    BY <1>4 DEF GrabStep, StartWave, AwaitProvider, PassEnds, NextPass, NextProvider, checkVars,
                resultVars
  <2>2. stat' = stat \/ stat' = [stat EXCEPT !.passes = @ + 1]
    BY <1>4 DEF GrabStep, StartWave, AwaitProvider, PassEnds, NextPass, NextProvider, Count
  <2> QED  BY <2>1, <2>2, NothingCounted DEF Found, InHand
<1>5. ASSUME NEW l \in Loaders, LoaderStep(l) PROVE Balanced'  BY <1>5, LoaderBalanced
<1>6. ASSUME NEW t \in CheckId, CheckStep(t) PROVE Balanced'
  <2>1. t \in Live  BY <1>6 DEF CheckStep, CheckEnds, CheckFailed, CheckPassed, Live, Free
  <2>2. UNCHANGED <<call, hand>>
    BY <1>6 DEF CheckStep, CheckEnds, CheckFailed, CheckPassed, loaderVars
  <2>3. Check /\ Check' /\ InHand' = InHand  BY <2>1, <2>2 DEF HandFits, Check, InHand
  <2>4. CASE CheckEnds(t)
    <3>1. UNCHANGED <<unfinished, stat, results>>  BY <2>4 DEF CheckEnds, resultVars
    <3> QED  BY <2>2, <2>3, <3>1, NothingCounted DEF Found
  <2>5. CASE CheckFailed(t)
    <3>1. unfinished' = unfinished - 1 /\ stat' = [stat EXCEPT !.checked = @ + 1]
          /\ results' = results
      BY <2>5 DEF CheckFailed, FreeSlot, Count, resultVars
    <3>2. Found' = Found  BY <3>1 DEF Found
    <3> QED  BY <1>1, <2>3, <3>1, <3>2 DEF Balanced, StatType
  <2>6. CASE CheckPassed(t)
    <3>1. /\ unfinished' = unfinished - 1 /\ PushToResult(checks[t].addr)
          /\ stat' = [stat EXCEPT !.checked = @ + 1, !.passed = @ + 1]
      BY <2>6 DEF CheckPassed, FreeSlot
    <3>2. checks[t].addr \in Addr  BY <2>6, CheckAddress DEF CheckPassed, TypeOK
    <3>3. checks[t].addr # None  BY <3>2, BrokerAssumption DEF Cand
    <3>4. Cardinality(Found') = Cardinality(Found) + 1  BY <3>1, <3>2, <3>3, PushCounts DEF TypeOK
    <3> QED  BY <1>1, <2>3, <3>1, <3>4 DEF Balanced, StatType
  <2> QED  BY <1>6, <2>4, <2>5, <2>6 DEF CheckStep
<1> QED  BY <1>2, <1>3, <1>4, <1>5, <1>6 DEF Next

\* The balance holds before the first step.
LEMMA FunnelInit == Init => HandFits /\ Balanced
<1> SUFFICES ASSUME Init PROVE HandFits /\ Balanced  OBVIOUS
<1>1. Live = {} /\ Found = {} /\ InHand = {}  BY DEF Init, Live, Found, InHand
<1>2. Cardinality(Found) = 0 /\ Cardinality(InHand) = 0  BY <1>1, FS_EmptySet
<1>3. HandFits  BY <1>1 DEF Init, HandFits
<1>4. Balanced  BY <1>2 DEF Init, Balanced
<1> QED  BY <1>3, <1>4

\* In every behaviour hands fit their loaders' places and the funnel balances.
THEOREM FunnelInvariant == Spec => [](HandFits /\ Balanced)
<1>1. /\ TypeOK /\ HandOK /\ SlotAccounting /\ SlotAccounting' /\ LimitInv
      /\ HandFits /\ Balanced /\ [Next]_vars
      => (HandFits /\ Balanced)'
  BY HandFitsStep, FunnelStep
<1> QED  BY <1>1, FunnelInit, TypeCorrect, SlotsCorrect, LimitInvariant, PTL DEF Spec

\* Every candidate noted is in exactly one stage of the funnel (stats.py), also
\* when loaders and checks are cancelled at any of their awaits.
THEOREM FunnelConserved == Spec => []FunnelConservation
<1>1. SlotAccounting /\ Balanced => FunnelConservation  BY BalancedIsConservation
<1> QED  BY <1>1, SlotsCorrect, FunnelInvariant, PTL

-----------------------------------------------------------------------------
(* Uniqueness. *)

\* What a push adds to the queue: the item, perhaps the marker.
LEMMA PushEntries ==
  ASSUME ResultsOK, NEW x \in Addr \cup {None}, PushToResult(x)
  PROVE  /\ Len(results) + 1 \notin DOMAIN results
         /\ \A i \in DOMAIN results' :
              \/ results'[i] = None
              \/ i \in DOMAIN results /\ results'[i] = results[i]
              \/ i = Len(results) + 1 /\ results'[i] = x
<1>1. results \in Seq(Addr \cup {None})  BY DEF ResultsOK
<1>2. results' = results \o Pushed(x)  BY DEF PushToResult
<1>3. CASE Pushed(x) = <<x>>  BY <1>1, <1>2, <1>3
<1>4. CASE Pushed(x) = <<x, None>>  BY <1>1, <1>2, <1>4
<1> QED  BY <1>3, <1>4 DEF Pushed

\* A cancelled check is about the address it was about.
LEMMA CancelKeepsAddress ==
  ASSUME NEW cs \in [CheckId -> CheckType], NEW t \in CheckId
  PROVE  CancelledChecks(cs)[t].addr = cs[t].addr
<1>1. CASE cs[t].st = "running"
  <2>1. CancelledChecks(cs)[t] = [cs[t] EXCEPT !.st = "cancelled"]
    BY <1>1 DEF CancelledChecks
  <2>2. [cs[t] EXCEPT !.st = "cancelled"].addr = cs[t].addr  BY DEF CheckType, Free
  <2> QED  BY <2>1, <2>2
<1>2. CASE cs[t].st # "running"  BY <1>2 DEF CancelledChecks
<1> QED  BY <1>1, <1>2

\* The ways to have an address.
InCheck(t, a) == t \in Live /\ checks[t].addr = a
InPush(l, a)  == pc[l] \in {"put", "pause"} /\ hand[l] = a
InQueue(i, a) == i \in DOMAIN results /\ results[i] = a

\* An address is in one place at most, and then it is known to this pass.
Single(a) ==
  /\ \A t, u \in CheckId : InCheck(t, a) /\ InCheck(u, a) => t = u
  /\ \A l, m \in Loaders : InPush(l, a) /\ InPush(m, a) => l = m
  /\ \A i, j \in Nat : InQueue(i, a) /\ InQueue(j, a) => i = j
  /\ \A t \in CheckId, l \in Loaders : ~(InCheck(t, a) /\ InPush(l, a))
  /\ \A t \in CheckId, i \in Nat : ~(InCheck(t, a) /\ InQueue(i, a))
  /\ \A l \in Loaders, i \in Nat : ~(InPush(l, a) /\ InQueue(i, a))
  /\ \A t \in CheckId : InCheck(t, a) => a \in unique
  /\ \A l \in Loaders : InPush(l, a) => a \in unique
  /\ \A i \in Nat : InQueue(i, a) => a \in unique

\* In a call that ends by itself there is one pass, in which this holds.
OnceInv ==
  ~call.server /\ ~call.forever =>
    (\A l \in Loaders : pc[l] # "sleep") /\ \A a \in Addr : Single(a)

\* One place at most is what the property says.
LEMMA SingleIsOnce ==
  ASSUME ResultsOK, NEW a \in Addr, Single(a)
  PROVE  Cardinality(Places(a)) <= 1
<1>1. \A x, y \in Places(a) : x = y
  <2> SUFFICES ASSUME NEW x \in Places(a), NEW y \in Places(a) PROVE x = y  OBVIOUS
  <2>1. ASSUME NEW z \in Places(a)
        PROVE  \/ \E t \in CheckId : z = <<"check", t>> /\ InCheck(t, a)
               \/ \E l \in Loaders : z = <<"hand", l>> /\ InPush(l, a)
               \/ \E i \in Nat : z = <<"result", i>> /\ InQueue(i, a)
    <3>1. DOMAIN results \subseteq Nat  BY DEF ResultsOK
    <3> QED  BY <3>1 DEF Places, InCheck, InPush, InQueue, Live
  <2>2. CASE \E t \in CheckId : x = <<"check", t>> /\ InCheck(t, a)
    BY <2>1, <2>2 DEF Single
  <2>3. CASE \E l \in Loaders : x = <<"hand", l>> /\ InPush(l, a)
    BY <2>1, <2>3 DEF Single
  <2>4. CASE \E i \in Nat : x = <<"result", i>> /\ InQueue(i, a)
    BY <2>1, <2>4 DEF Single
  <2> QED  BY <2>1, <2>2, <2>3, <2>4
<1>2. CASE Places(a) = {}  BY <1>2, FS_EmptySet
<1>3. CASE Places(a) # {}
  <2>1. PICK x : Places(a) = {x}  BY <1>1, <1>3
  <2>2. Cardinality({x}) = 1  BY FS_Singleton
  <2> QED  BY <2>1, <2>2
<1> QED  BY <1>2, <1>3

\* A step that brings an address to no new place.
LEMMA NoNewPlace ==
  ASSUME NEW a, Single(a), a \in unique => a \in unique',
         \A t \in CheckId : InCheck(t, a)' => InCheck(t, a),
         \A l \in Loaders : InPush(l, a)' => InPush(l, a),
         \A i \in Nat : InQueue(i, a)' => InQueue(i, a)
  PROVE  Single(a)'
  BY DEF Single

\* The same for all addresses, by what the step does to checks, hands and queue.
LEMMA NothingMoves ==
  ASSUME OnceInv, call' = call, unique \subseteq unique', None \notin Addr,
         DOMAIN results \subseteq Nat,
         ~call.server /\ ~call.forever => \A l \in Loaders : pc'[l] # "sleep",
         \A t \in Live' : t \in Live /\ checks'[t].addr = checks[t].addr,
         \A l \in Loaders : pc'[l] \in {"put", "pause"} =>
           pc[l] \in {"put", "pause"} /\ hand'[l] = hand[l],
         \A i \in DOMAIN results' :
           results'[i] = None \/ (i \in DOMAIN results /\ results'[i] = results[i])
  PROVE  OnceInv'
<1> SUFFICES ASSUME ~call.server, ~call.forever, NEW a \in Addr PROVE Single(a)'
  BY DEF OnceInv
<1>1. Single(a)  BY DEF OnceInv
<1>2. \A t \in CheckId : InCheck(t, a)' => InCheck(t, a)  BY DEF InCheck
<1>3. \A l \in Loaders : InPush(l, a)' => InPush(l, a)  BY DEF InPush
<1>4. \A i \in Nat : InQueue(i, a)' => InQueue(i, a)  BY DEF InQueue
<1> QED  BY <1>1, <1>2, <1>3, <1>4, NoNewPlace

\* The steps outside the loaders and the checks.
LEMMA OthersOnce ==
  ASSUME TypeOK, LimitInv, OnceInv,
         \/ Find \/ FindRaises \/ Stop \/ Autosave \/ Take \/ Forget \/ GrabStep
         \/ (\E p \in Provider : FetchEnds(p)) \/ UNCHANGED vars
  PROVE  OnceInv'
<1>1. None \notin Addr /\ DOMAIN results \subseteq Nat /\ pc \in PcType
      /\ checks \in [CheckId -> CheckType]
  BY BrokerAssumption DEF TypeOK, ResultsOK, LoadersOK, ChecksOK, Cand
<1>2. ASSUME UNCHANGED <<call, hand, checks, results>>, unique \subseteq unique',
             ~call.server /\ ~call.forever => \A l \in Loaders : pc'[l] # "sleep",
             \A l \in Loaders : pc'[l] \in {"put", "pause"} => pc[l] \in {"put", "pause"}
      PROVE  OnceInv'
  BY <1>1, <1>2, NothingMoves DEF Live
<1>3. CASE Find
  <2>1. UNCHANGED <<call, hand, checks, results, unique>>
        /\ \A m \in Loaders : pc'[m] \in {"off", "ready"}
    BY <1>3 DEF Find, checkVars, Loaders
  <2> QED  BY <1>2, <2>1
<1>4. CASE FindRaises \/ Autosave \/ Forget \/ (\E p \in Provider : FetchEnds(p)) \/ UNCHANGED vars
  <2>1. UNCHANGED <<call, hand, checks, results, unique, pc>>
    BY <1>4 DEF FindRaises, Autosave, Forget, FetchEnds, vars, loaderVars, checkVars, resultVars
  <2> QED  BY <1>2, <2>1 DEF OnceInv
<1>5. CASE Take
  <2>1. UNCHANGED <<call, hand, checks, results, unique>>
        /\ \A m \in Loaders : pc'[m] = pc[m] \/ (pc[m] = "pause" /\ pc'[m] = "put")
    BY <1>5 DEF Take, checkVars, resultVars
  <2> QED  BY <1>2, <2>1 DEF OnceInv
<1>6. CASE Stop
  <2>1. UNCHANGED <<call, hand, unique>> /\ checks' = CancelledChecks(checks)
        /\ PushToResult(None)
        /\ \A m \in Loaders : pc'[m] = pc[m] \/ pc'[m] = "cancelled"
    BY <1>6 DEF Stop, CancelledLoaders
  <2>2. \A t \in Live' : t \in Live /\ checks'[t].addr = checks[t].addr
    BY <1>1, <2>1, CancelKeepsLive, CancelKeepsAddress DEF Live
  <2>3. \A i \in DOMAIN results' :
          results'[i] = None \/ (i \in DOMAIN results /\ results'[i] = results[i])
    BY <2>1, PushEntries DEF TypeOK
  <2>4. ~call.server /\ ~call.forever => \A m \in Loaders : pc'[m] # "sleep"
    BY <2>1 DEF OnceInv
  <2> QED  BY <1>1, <2>1, <2>2, <2>3, <2>4, NothingMoves
<1>7. CASE GrabStep
  <2>1. "grab" \in Loaders  BY DEF Loaders
  <2>2. CASE ~call.server /\ ~call.forever
    <3>1. ~server /\ ~NextPass  BY <2>1, <2>2 DEF LimitInv, OnceInv, NextPass
    <3>2. UNCHANGED <<call, hand, checks, results, unique>>
      BY <1>7, <3>1 DEF GrabStep, StartWave, AwaitProvider, PassEnds, NextProvider, checkVars,
                        resultVars
    <3>3. PICK at \in {"fetch", "handle", "wave", "join", "cancelled"} :
            pc' = [pc EXCEPT !["grab"] = at]
      BY <1>7, <2>2, <3>1 DEF GrabStep, StartWave, AwaitProvider, PassEnds, NextProvider, Goto,
                              Suspend
    <3> QED  BY <1>1, <1>2, <3>2, <3>3 DEF OnceInv, PcType
  <2>3. CASE call.server \/ call.forever
    <3>1. call' = call
      BY <1>7 DEF GrabStep, StartWave, AwaitProvider, PassEnds, NextPass, NextProvider
    <3> QED  BY <2>3, <3>1 DEF OnceInv
  <2> QED  BY <2>2, <2>3
<1> QED  BY <1>3, <1>4, <1>5, <1>6, <1>7

\* The steps of a loader: a new address comes from outside this pass, and one
\* that starts a check leaves the loader.
LEMMA LoaderOnce ==
  ASSUME TypeOK, HandOK, LimitInv, OnceInv, NEW l \in Loaders, LoaderStep(l)
  PROVE  OnceInv'
<1>1. /\ None \notin Addr /\ DOMAIN results \subseteq Nat /\ pc \in PcType
      /\ checks \in [CheckId -> CheckType] /\ hand \in [Loaders -> Cand \cup {None}]
  BY BrokerAssumption DEF TypeOK, ResultsOK, LoadersOK, ChecksOK, Cand
<1>2. call' = call
  BY DEF LoaderStep, Begin, BatchEnds, SkipDead, Handle, ResolverRaises, CreateFails,
         Reject, Admit, Deliver, AwaitSlot, StartCheck, Join, Finish
<1> SUFFICES ASSUME ~call.server, ~call.forever PROVE OnceInv'
  BY <1>2 DEF OnceInv
<1>3. ~server  BY DEF LimitInv
<1>4. CASE \/ Begin(l) \/ BatchEnds(l) \/ SkipDead(l) \/ Handle(l) \/ ResolverRaises(l)
           \/ CreateFails(l) \/ Reject(l) \/ AwaitSlot(l) \/ Join(l)
  <2>1. UNCHANGED <<checks, results>> /\ unique \subseteq unique'
    BY <1>4 DEF Begin, BatchEnds, SkipDead, Handle, ResolverRaises, CreateFails, Reject,
                AwaitSlot, Join, checkVars, resultVars
  <2>2. pc' = pc \/ \E at \in {"wave", "handle", "fetch", "join", "created", "resolve", "raised",
                               "cancelled", "finish"} : pc' = [pc EXCEPT ![l] = at]
        \/ (AwaitSlot(l) /\ pc' = [pc EXCEPT ![l] = "put"])
    BY <1>3, <1>4 DEF Begin, BatchEnds, SkipDead, Handle, ResolverRaises, CreateFails, Reject,
                AwaitSlot, Join, Goto, Suspend
  <2>3. \A m \in Loaders \ {l} : hand'[m] = hand[m]
    BY <1>1, <1>4 DEF Begin, BatchEnds, SkipDead, Handle, ResolverRaises, CreateFails, Reject,
                AwaitSlot, Join
  <2>4. AwaitSlot(l) => pc[l] = "put" /\ hand' = hand  BY DEF AwaitSlot
  <2>5. pc' = pc => hand' = hand \/ pc[l] \notin {"put", "pause"}
    BY <1>4 DEF Begin, BatchEnds, SkipDead, Handle, ResolverRaises, CreateFails, Reject,
                AwaitSlot, Join
  <2>6. \A m \in Loaders : pc'[m] \in {"put", "pause"} =>
          pc[m] \in {"put", "pause"} /\ hand'[m] = hand[m]
    BY <1>1, <2>2, <2>3, <2>4, <2>5 DEF PcType
  <2>7. \A m \in Loaders : pc'[m] # "sleep"  BY <1>1, <2>2 DEF OnceInv, PcType
  <2> QED  BY <1>1, <1>2, <2>1, <2>6, <2>7, NothingMoves DEF Live
<1>5. CASE Finish(l)
  <2>1. UNCHANGED <<hand, unique>> /\ checks' = CancelledChecks(checks) /\ PushToResult(None)
    BY <1>5 DEF Finish
  <2>2. \A m \in Loaders : pc'[m] \in {pc[m], "cancelled", "ended"}
    BY <1>5 DEF Finish, CancelledLoaders
  <2>3. \A t \in Live' : t \in Live /\ checks'[t].addr = checks[t].addr
    BY <1>1, <2>1, CancelKeepsLive, CancelKeepsAddress DEF Live
  <2>4. \A i \in DOMAIN results' :
          results'[i] = None \/ (i \in DOMAIN results /\ results'[i] = results[i])
    BY <2>1, PushEntries DEF TypeOK
  <2>5. \A m \in Loaders : pc'[m] # "sleep"  BY <2>2 DEF OnceInv
  <2> QED  BY <1>1, <1>2, <2>1, <2>2, <2>3, <2>4, <2>5, NothingMoves
<1>6. CASE Admit(l)
  <2>1. PICK b \in Fresh(hand[l]) : unique' = unique \cup {b} /\ hand' = [hand EXCEPT ![l] = b]
    BY <1>6 DEF Admit
  <2>2. b \in Addr /\ b \notin unique  BY <2>1, CreatedType DEF Fresh
  <2>3. UNCHANGED <<checks, results>> /\ pc[l] \in {"created", "resolve"}
    BY <1>6 DEF Admit, checkVars, resultVars
  <2>4. PICK at \in {"pause", "put", "cancelled"} : pc' = [pc EXCEPT ![l] = at]
    BY <1>6 DEF Admit, Goto, Suspend
  <2>5. ASSUME NEW a \in Addr PROVE Single(a)'
    <3>1. Single(a)  BY DEF OnceInv
    <3>2. \A t \in CheckId : InCheck(t, a)' <=> InCheck(t, a)  BY <2>3 DEF InCheck, Live
    <3>3. \A i \in Nat : InQueue(i, a)' <=> InQueue(i, a)  BY <2>3 DEF InQueue
    <3>4. \A m \in Loaders \ {l} : InPush(m, a)' <=> InPush(m, a)
      BY <1>1, <2>1, <2>4 DEF InPush, PcType
    <3>5. InPush(l, a)' => a = b  BY <1>1, <2>1 DEF InPush
    <3>6. CASE a = b
      <4>1. /\ \A t \in CheckId : ~InCheck(t, a)'
            /\ \A i \in Nat : ~InQueue(i, a)'
            /\ \A m \in Loaders : InPush(m, a)' => m = l
        BY <2>2, <3>1, <3>2, <3>3, <3>4, <3>6 DEF Single
      <4>2. a \in unique'  BY <2>1, <3>6
      <4> QED  BY <4>1, <4>2 DEF Single
    <3>7. CASE a # b
      BY <2>1, <3>1, <3>2, <3>3, <3>4, <3>5, <3>7, NoNewPlace
    <3> QED  BY <3>6, <3>7
  <2>6. \A m \in Loaders : pc'[m] # "sleep"  BY <1>1, <2>4 DEF OnceInv, PcType
  <2> QED  BY <2>5, <2>6 DEF OnceInv
<1>7. CASE Deliver(l)
  <2>1. PICK b \in Fresh(hand[l]) : unique' = unique \cup {b} /\ PushToResult(b)
    BY <1>7 DEF Deliver
  <2>2. b \in Addr /\ b \notin unique  BY <2>1, CreatedType DEF Fresh
  <2>3. checks' = checks /\ hand' = [hand EXCEPT ![l] = None]
        /\ \A m \in Loaders : pc'[m] \in {pc[m], "cancelled", "handle"}
    <3>1. \A m \in Loaders : CancelledLoaders(pc, l)[m] \in {pc[m], "cancelled"}
      BY DEF CancelledLoaders
    <3>2. DOMAIN CancelledLoaders(pc, l) = Loaders /\ DOMAIN pc = Loaders
      BY <1>1 DEF CancelledLoaders, PcType
    <3>3. checks' = checks /\ hand' = [hand EXCEPT ![l] = None]  BY <1>7 DEF Deliver, checkVars
    <3>4. \/ pc' = [CancelledLoaders(pc, l) EXCEPT ![l] = "handle"]
          \/ pc' = [pc EXCEPT ![l] = "handle"]
      BY <1>7 DEF Deliver
    <3> QED  BY <3>1, <3>2, <3>3, <3>4
  <2>4. \A i \in DOMAIN results' : results'[i] = None
          \/ (i \in DOMAIN results /\ results'[i] = results[i])
          \/ (i = Len(results) + 1 /\ results'[i] = b)
    BY <2>1, <2>2, PushEntries DEF TypeOK
  <2>5. ASSUME NEW a \in Addr PROVE Single(a)'
    <3>1. Single(a)  BY DEF OnceInv
    <3>2. \A t \in CheckId : InCheck(t, a)' <=> InCheck(t, a)  BY <2>3 DEF InCheck, Live
    <3>3. \A m \in Loaders : InPush(m, a)' => InPush(m, a)
      BY <1>1, <2>3 DEF InPush
    <3>4. \A i \in Nat : InQueue(i, a)' => InQueue(i, a) \/ (i = Len(results) + 1 /\ a = b)
      BY <1>1, <2>4 DEF InQueue
    <3>5. CASE a = b
      <4>1. /\ \A t \in CheckId : ~InCheck(t, a)'
            /\ \A m \in Loaders : ~InPush(m, a)'
            /\ \A i \in Nat : InQueue(i, a)' => i = Len(results) + 1
        BY <2>2, <3>1, <3>2, <3>3, <3>4, <3>5 DEF Single
      <4> QED  BY <2>1, <3>5, <4>1 DEF Single
    <3>6. CASE a # b  BY <2>1, <3>1, <3>2, <3>3, <3>4, <3>6, NoNewPlace
    <3> QED  BY <3>5, <3>6
  <2>6. \A m \in Loaders : pc'[m] # "sleep"  BY <2>3 DEF OnceInv
  <2> QED  BY <2>5, <2>6 DEF OnceInv
<1>8. CASE StartCheck(l)
  <2> DEFINE b == hand[l]
  <2>1. b \in Addr /\ InPush(l, b)  BY <1>8 DEF StartCheck, HandOK, InPush
  <2>2. PICK n \in CheckId \ Live : checks' = [checks EXCEPT ![n] = [st |-> "running", addr |-> b]]
    BY <1>8 DEF StartCheck
  <2>3. UNCHANGED <<results, unique>> /\ hand' = [hand EXCEPT ![l] = None]
        /\ pc' = [pc EXCEPT ![l] = "handle"]
    BY <1>8 DEF StartCheck, Goto, resultVars
  <2>4. ASSUME NEW a \in Addr PROVE Single(a)'
    <3>1. Single(a)  BY DEF OnceInv
    <3>2. \A t \in CheckId : InCheck(t, a)' => InCheck(t, a) \/ (t = n /\ a = b)
      BY <1>1, <2>2 DEF InCheck, Live
    <3>3. \A m \in Loaders : InPush(m, a)' => InPush(m, a) /\ m # l
      BY <1>1, <2>3 DEF InPush, PcType
    <3>4. \A i \in Nat : InQueue(i, a)' <=> InQueue(i, a)  BY <2>3 DEF InQueue
    <3>5. CASE a = b
      <4>1. /\ \A t \in CheckId : InCheck(t, a)' => t = n
            /\ \A m \in Loaders : ~InPush(m, a)'
            /\ \A i \in Nat : ~InQueue(i, a)'
            /\ a \in unique
        BY <2>1, <3>1, <3>2, <3>3, <3>4, <3>5 DEF Single
      <4> QED  BY <2>3, <4>1 DEF Single
    <3>6. CASE a # b  BY <2>3, <3>1, <3>2, <3>3, <3>4, <3>6, NoNewPlace
    <3> QED  BY <3>5, <3>6
  <2>5. \A m \in Loaders : pc'[m] # "sleep"  BY <1>1, <2>3 DEF OnceInv, PcType
  <2> QED  BY <2>4, <2>5 DEF OnceInv
<1> QED  BY <1>4, <1>5, <1>6, <1>7, <1>8 DEF LoaderStep

\* The steps of a check: a proxy that passes leaves the check for the queue.
LEMMA CheckOnce ==
  ASSUME TypeOK, OnceInv, NEW t \in CheckId, CheckStep(t)
  PROVE  OnceInv'
<1>1. /\ None \notin Addr /\ DOMAIN results \subseteq Nat /\ checks \in [CheckId -> CheckType]
  BY BrokerAssumption DEF TypeOK, ResultsOK, ChecksOK, Cand
<1>2. /\ UNCHANGED <<call, hand, unique>>
      /\ \A m \in Loaders : pc'[m] \in {pc[m], "cancelled", "finish"}
  BY DEF CheckStep, CheckEnds, CheckFailed, CheckPassed, loaderVars, Woken, CancelledLoaders
<1>3. t \in Live  BY DEF CheckStep, CheckEnds, CheckFailed, CheckPassed, Live, Free
<1>4. ~call.server /\ ~call.forever => \A m \in Loaders : pc'[m] # "sleep"
  BY <1>2 DEF OnceInv
<1>5. CASE CheckEnds(t) \/ CheckFailed(t)
  <2>1. results' = results  BY <1>5 DEF CheckEnds, CheckFailed, resultVars
  <2>2. \A u \in Live' : u \in Live /\ checks'[u].addr = checks[u].addr
    <3>1. CASE CheckEnds(t)
      <4>1. PICK o : checks' = [checks EXCEPT ![t].st = o]  BY <3>1 DEF CheckEnds
      <4>2. checks'[t].addr = checks[t].addr  BY <1>1, <4>1 DEF CheckType, Free
      <4>3. \A u \in CheckId \ {t} : checks'[u] = checks[u]  BY <1>1, <4>1
      <4> QED  BY <1>3, <4>2, <4>3 DEF Live
    <3>2. CASE CheckFailed(t)  BY <1>1, <3>2 DEF CheckFailed, Live
    <3> QED  BY <1>5, <3>1, <3>2
  <2> QED  BY <1>1, <1>2, <1>4, <2>1, <2>2, NothingMoves
<1>6. CASE CheckPassed(t)
  <2> DEFINE b == checks[t].addr
             left == [checks EXCEPT ![t] = Free]
  <2>1. b \in Addr /\ InCheck(t, b) /\ PushToResult(b)
    BY <1>3, <1>6, CheckAddress DEF CheckPassed, TypeOK, InCheck
  <2>2. \A u \in Live' : u \in Live /\ u # t /\ checks'[u].addr = checks[u].addr
    <3>1. left \in [CheckId -> CheckType]  BY <1>1 DEF CheckType
    <3>2. \A u \in CheckId : left[u] # Free => u \in Live /\ u # t /\ left[u].addr = checks[u].addr
      BY <1>1 DEF Live
    <3>3. checks' = left \/ checks' = CancelledChecks(left)  BY <1>6 DEF CheckPassed
    <3> HIDE DEF left
    <3> QED  BY <3>1, <3>2, <3>3, CancelKeepsLive, CancelKeepsAddress DEF Live
  <2>3. \A i \in DOMAIN results' : results'[i] = None
          \/ (i \in DOMAIN results /\ results'[i] = results[i])
          \/ (i = Len(results) + 1 /\ results'[i] = b)
    BY <2>1, PushEntries DEF TypeOK
  <2>4. ASSUME ~call.server, ~call.forever, NEW a \in Addr PROVE Single(a)'
    <3>1. Single(a)  BY <2>4 DEF OnceInv
    <3>2. \A u \in CheckId : InCheck(u, a)' => InCheck(u, a) /\ u # t  BY <2>2 DEF InCheck
    <3>3. \A m \in Loaders : InPush(m, a)' => InPush(m, a)  BY <1>2 DEF InPush
    <3>4. \A i \in Nat : InQueue(i, a)' => InQueue(i, a) \/ (i = Len(results) + 1 /\ a = b)
      BY <1>1, <2>3 DEF InQueue
    <3>5. CASE a = b
      <4>1. /\ \A u \in CheckId : ~InCheck(u, a)'
            /\ \A m \in Loaders : ~InPush(m, a)'
            /\ \A i \in Nat : InQueue(i, a)' => i = Len(results) + 1
            /\ a \in unique
        BY <2>1, <3>1, <3>2, <3>3, <3>4, <3>5 DEF Single
      <4> QED  BY <1>2, <4>1 DEF Single
    <3>6. CASE a # b  BY <1>2, <3>1, <3>2, <3>3, <3>4, <3>6, NoNewPlace
    <3> QED  BY <3>5, <3>6
  <2> QED  BY <1>2, <1>4, <2>4 DEF OnceInv
<1> QED  BY <1>5, <1>6 DEF CheckStep

\* Every step of a call that ends by itself keeps each address in one place.
LEMMA OnceStep ==
  ASSUME TypeOK, HandOK, LimitInv, OnceInv, [Next]_vars
  PROVE  OnceInv'
  BY OthersOnce, LoaderOnce, CheckOnce DEF Next

\* In every behaviour an address is in one place.
THEOREM OnceInvariant == Spec => []OnceInv
<1>1. Init => OnceInv
  <2> SUFFICES ASSUME Init, NEW a \in Addr PROVE (\A l \in Loaders : pc[l] # "sleep") /\ Single(a)
    BY DEF OnceInv, Init
  <2>1. \A l \in Loaders : pc[l] \in {"ready", "off"}  BY DEF Init
  <2>2. Live = {} /\ DOMAIN results = {}  BY DEF Init, Live
  <2> QED  BY <2>1, <2>2 DEF Single, InCheck, InPush, InQueue
<1>2. TypeOK /\ HandOK /\ LimitInv /\ OnceInv /\ [Next]_vars => OnceInv'  BY OnceStep
<1> QED  BY <1>1, <1>2, TypeCorrect, LimitInvariant, PTL DEF Spec

\* However loaders, providers and domains overlap, a call that ends by itself
\* checks and delivers an address once (api.py:699).
THEOREM CheckedOnce == Spec => []OncePerPass
<1>1. TypeOK /\ OnceInv => OncePerPass  BY SingleIsOnce DEF TypeOK, OnceInv, OncePerPass
<1> QED  BY <1>1, TypeCorrect, OnceInvariant, PTL

-----------------------------------------------------------------------------
(* The backlog of a server. *)

\* What waits for the consumer, and who is about to start a check.
Queued  == {i \in Found : i > taken}
Pushing == {l \in Loaders : pc[l] = "put"}

\* What BacklogBounded allows.
Room == call.limit + (MaxConn - 1) + 2

\* find(data) has its one loader, find() the two others.
OffLoaders ==
  /\ call.fn = "data" => pc["warm"] = "off" /\ pc["grab"] = "off"
  /\ call.fn # "data" => pc["load"] = "off"

\* As long as the server is there the limit counts down from the call's, and what
\* is queued, checked or about to be checked is bounded together: a check that
\* passes moves to the queue.
Flow ==
  server =>
    /\ call.server
    /\ (Nothing /\ results = <<>>) \/ (~calling /\ limit = call.limit - Len(results))
    /\ Cardinality(Queued) + unfinished + Cardinality(Pushing) <= Room

\* A server's call is checked and has a limit.
LEMMA ServersCall ==
  ASSUME TypeOK, call.server
  PROVE  Check /\ call.limit \in Nat \ {0}
  BY BrokerAssumption DEF TypeOK, RestOK, CallType, ValidCall, Check

\* A set of loaders that are on at the same time.
LEMMA TwoLoaders ==
  ASSUME NEW S, S \subseteq {"load"} \/ S \subseteq {"warm", "grab"}
  PROVE  IsFiniteSet(S) /\ Cardinality(S) \in Nat /\ Cardinality(S) <= 2
<1>1. IsFiniteSet({"load"}) /\ Cardinality({"load"}) = 1  BY FS_Singleton
<1>2. {"warm"} \cup {"grab"} = {"warm", "grab"}  OBVIOUS
<1>3. IsFiniteSet({"warm"}) /\ Cardinality({"warm"}) = 1  BY FS_Singleton
<1>4. IsFiniteSet({"warm", "grab"}) /\ Cardinality({"warm", "grab"}) = 2
  BY <1>2, <1>3, FS_AddElement
<1>5. IsFiniteSet(S) /\ Cardinality(S) <= 2
  <2>1. CASE S \subseteq {"load"}
    <3>1. IsFiniteSet(S) /\ Cardinality(S) <= Cardinality({"load"})  BY <1>1, <2>1, FS_Subset
    <3>2. Cardinality(S) \in Nat  BY <3>1, FS_CardinalityType
    <3> QED  BY <1>1, <3>1, <3>2
  <2>2. CASE S \subseteq {"warm", "grab"}
    <3>1. IsFiniteSet(S) /\ Cardinality(S) <= Cardinality({"warm", "grab"})
      BY <1>4, <2>2, FS_Subset
    <3> QED  BY <1>4, <3>1
  <2> QED  BY <2>1, <2>2
<1>6. Cardinality(S) \in Nat  BY <1>5, FS_CardinalityType
<1> QED  BY <1>5, <1>6

\* So those about to start a check are two at most.
LEMMA FewPushing ==
  ASSUME OffLoaders
  PROVE  Pushing \subseteq {"load"} \/ Pushing \subseteq {"warm", "grab"}
  BY DEF OffLoaders, Pushing, Loaders

\* The queue is finite.
LEMMA QueuedFinite ==
  ASSUME TypeOK
  PROVE  IsFiniteSet(Queued) /\ Cardinality(Queued) \in Nat
<1>1. Queued \subseteq Found  BY DEF Queued
<1>2. IsFiniteSet(Queued)  BY <1>1, FoundFinite, FS_Subset DEF TypeOK
<1> QED  BY <1>2, FS_CardinalityType

\* Where checking does not pause there is room for all that may be checked.
LEMMA RoomUnpaused ==
  ASSUME TypeOK, server, Flow, ~Paused, ~Nothing
  PROVE  Cardinality(Queued) <= call.limit - 1
<1>1. /\ results \in Seq(Addr \cup {None}) /\ taken \in Nat /\ limit \in Int
      /\ call.limit \in Nat \ {0} /\ limit = call.limit - Len(results)
  BY ServersCall DEF TypeOK, ResultsOK, Flow
<1>2. Len(results) \in Nat /\ Queued \subseteq 1..Len(results)  BY <1>1 DEF Queued, Found
<1>3. CASE taken >= Len(results)
  <2>1. Queued = {}  BY <1>1, <1>2, <1>3 DEF Queued
  <2>2. Cardinality(Queued) = 0  BY <2>1, FS_EmptySet
  <2> QED  BY <1>1, <2>2
<1>4. CASE limit > 0
  <2>1. IsFiniteSet(1..Len(results)) /\ Cardinality(1..Len(results)) = Len(results)
    <3>1. Len(results) \in Int /\ 1 \in Int  BY <1>2
    <3>2. /\ IsFiniteSet(1..Len(results))
          /\ Cardinality(1..Len(results)) = IF 1 > Len(results) THEN 0 ELSE Len(results) - 1 + 1
      BY <3>1, FS_Interval
    <3> QED  BY <1>2, <3>2
  <2>2. Cardinality(Queued) <= Len(results)  BY <1>2, <2>1, FS_Subset
  <2>3. Cardinality(Queued) \in Nat  BY QueuedFinite
  <2> QED  BY <1>1, <1>2, <1>4, <2>2, <2>3
<1> QED  BY <1>1, <1>2, <1>3, <1>4 DEF Paused

\* A step that neither pushes, takes nor checks.
LEMMA NothingFlows ==
  ASSUME TypeOK, SlotAccounting, OffLoaders, Flow,
         UNCHANGED <<call, calling, limit, server, taken, results, unfinished>>,
         \A l \in Loaders : pc'[l] = "put" => pc[l] = "put", Nothing => Nothing'
  PROVE  Flow'
<1> SUFFICES ASSUME server PROVE Flow'  BY DEF Flow
<1>1. Queued' = Queued /\ Room' = Room  BY DEF Queued, Found, Room
<1>2. Pushing' \subseteq Pushing  BY DEF Pushing
<1>3. IsFiniteSet(Pushing) /\ Cardinality(Pushing) \in Nat  BY FewPushing, TwoLoaders
<1>4. Cardinality(Pushing') <= Cardinality(Pushing) /\ IsFiniteSet(Pushing')
  BY <1>2, <1>3, FS_Subset
<1>5. Cardinality(Pushing') \in Nat  BY <1>4, FS_CardinalityType
<1>6. Cardinality(Queued) \in Nat /\ unfinished \in Nat /\ Room \in Int
  BY QueuedFinite, LiveFinite, ServersCall, BrokerAssumption DEF SlotAccounting, Flow, Room
<1>7. Cardinality(Queued) + unfinished + Cardinality(Pushing) <= Room  BY DEF Flow
<1>8. Cardinality(Queued') + unfinished' + Cardinality(Pushing') <= Room'
  BY <1>1, <1>3, <1>4, <1>5, <1>6, <1>7
<1> QED  BY <1>8 DEF Flow

\* Loaders that are off stay off once the call has begun.
LEMMA OffStep ==
  ASSUME TypeOK, OffLoaders, [Next]_vars
  PROVE  OffLoaders'
<1>1. pc \in PcType /\ "grab" \in Loaders /\ None \notin Loaders
  BY BrokerAssumption DEF TypeOK, LoadersOK, Loaders
<1>2. ASSUME call' = call, \A m \in Loaders : pc[m] = "off" => pc'[m] = "off"
      PROVE  OffLoaders'
  BY <1>2 DEF OffLoaders, Loaders
<1>3. CASE Find
  <2>1. PICK known \in SUBSET (stored \ Abroad) :
          /\ call.fn = "data" => known = {}
          /\ pc' = [l \in Loaders |->
                      CASE l = "load" -> IF call.fn = "data" THEN "ready" ELSE "off"
                        [] l = "warm" -> IF known # {} THEN "ready" ELSE "off"
                        [] l = "grab" -> IF call.fn = "find" THEN "ready" ELSE "off"]
    BY <1>3 DEF Find
  <2>2. call' = call  BY <1>3 DEF Find
  <2> QED  BY <2>1, <2>2 DEF OffLoaders, Loaders
<1>4. CASE FindRaises \/ Autosave \/ Forget \/ (\E p \in Provider : FetchEnds(p)) \/ UNCHANGED vars
  BY <1>2, <1>4 DEF FindRaises, Autosave, Forget, FetchEnds, vars, loaderVars
<1>5. CASE Stop  BY <1>2, <1>5 DEF Stop, CancelledLoaders, Waiting
<1>6. CASE Take  BY <1>2, <1>6 DEF Take
<1>7. CASE GrabStep
  <2>1. call' = call /\ pc["grab"] \in {"wave", "fetch", "sleep"}
    BY <1>7 DEF GrabStep, StartWave, AwaitProvider, PassEnds, NextPass, NextProvider
  <2>2. PICK at : pc' = [pc EXCEPT !["grab"] = at]
    BY <1>7 DEF GrabStep, StartWave, AwaitProvider, PassEnds, NextPass, NextProvider, Goto, Suspend
  <2> QED  BY <1>1, <1>2, <2>1, <2>2 DEF PcType
<1>8. ASSUME NEW l \in Loaders, LoaderStep(l) PROVE OffLoaders'
  <2>1. call' = call
    BY <1>8 DEF LoaderStep, Begin, BatchEnds, SkipDead, Handle, ResolverRaises, CreateFails,
                Reject, Admit, Deliver, AwaitSlot, StartCheck, Join, Finish
  <2>2. pc[l] # "off"
    BY <1>8 DEF LoaderStep, Begin, BatchEnds, SkipDead, Handle, ResolverRaises, CreateFails,
                Reject, Admit, Deliver, AwaitSlot, StartCheck, Join, Finish
  <2>3. \A m \in Loaders \ {l} : pc[m] = "off" => pc'[m] = "off"
    BY <1>1, <1>8 DEF LoaderStep, Begin, BatchEnds, SkipDead, Handle, ResolverRaises, CreateFails,
           Reject, Admit, Deliver, AwaitSlot, StartCheck, Join, Finish, Goto, Suspend, PcType,
           CancelledLoaders, Waiting
  <2> QED  BY <1>2, <2>1, <2>2, <2>3
<1>9. ASSUME NEW t \in CheckId, CheckStep(t) PROVE OffLoaders'
  BY <1>2, <1>9 DEF CheckStep, CheckEnds, CheckFailed, CheckPassed, loaderVars, Woken,
                    CancelledLoaders, Waiting
<1> QED  BY <1>3, <1>4, <1>5, <1>6, <1>7, <1>8, <1>9 DEF Next

\* A push keeps the count of the limit.
LEMMA PushFlows ==
  ASSUME TypeOK, Flow, server, ~Nothing, NEW x \in Addr \cup {None}, PushToResult(x),
         UNCHANGED <<call, calling, server>>
  PROVE  ~calling' /\ limit' = call'.limit - Len(results')
<1>1. results \in Seq(Addr \cup {None}) /\ limit \in Int  BY DEF TypeOK, ResultsOK
<1>2. call.limit \in Nat  BY ServersCall DEF Flow
<1>3. results' = results \o Pushed(x) /\ limit' = limit - Len(Pushed(x))  BY DEF PushToResult
<1>4. Pushed(x) \in Seq(Addr \cup {None}) /\ Len(Pushed(x)) \in {1, 2}  BY PushedType
<1>5. Len(results') = Len(results) + Len(Pushed(x)) /\ Len(results) \in Nat  BY <1>1, <1>3, <1>4
<1>6. ~calling /\ limit = call.limit - Len(results)  BY DEF Flow
<1> QED  BY <1>1, <1>2, <1>3, <1>4, <1>5, <1>6

\* The consumer: what it takes makes room, and when it has taken all it wakes the
\* loaders that paused.
LEMMA TakeFlows ==
  ASSUME TypeOK, SlotAccounting, OffLoaders, OffLoaders', Flow, Take
  PROVE  Flow'
<1> SUFFICES ASSUME server PROVE Flow'  BY DEF Flow, Take
<1>1. /\ results \in Seq(Addr \cup {None}) /\ taken \in Nat /\ call.limit \in Nat \ {0}
      /\ unfinished \in Nat /\ unfinished <= MaxConn /\ MaxConn \in Nat
      /\ Cardinality(Queued) \in Nat /\ Room \in Int
  BY LiveFinite, QueuedFinite, ServersCall, BrokerAssumption
  DEF TypeOK, ResultsOK, SlotAccounting, Flow, Room
<1>2. UNCHANGED <<call, calling, limit, server, results, unfinished, active, checks>>
      /\ taken' = taken + 1 /\ taken < Len(results)
  BY DEF Take, checkVars, resultVars
<1>3. pc' = [l \in Loaders |-> IF taken' = Len(results) /\ pc[l] = "pause" THEN "put" ELSE pc[l]]
  BY DEF Take
<1>4. Nothing => Nothing'  BY <1>2, <1>3 DEF Nothing, Live
<1>5. Queued' \subseteq Queued  BY <1>1, <1>2 DEF Queued, Found
<1>6. IsFiniteSet(Queued') /\ Cardinality(Queued') <= Cardinality(Queued)
  BY <1>5, QueuedFinite, FS_Subset
<1>7. Cardinality(Queued') \in Nat  BY <1>6, FS_CardinalityType
<1>8. Pushing' \subseteq {"load"} \/ Pushing' \subseteq {"warm", "grab"}
  BY DEF OffLoaders, Pushing, Loaders
<1>9. Cardinality(Pushing') \in Nat /\ Cardinality(Pushing') <= 2  BY <1>8, TwoLoaders
<1>10. Room' = Room /\ Room = call.limit + (MaxConn - 1) + 2  BY <1>2 DEF Room
<1>11. Cardinality(Queued') + unfinished' + Cardinality(Pushing') <= Room'
  <2>1. CASE taken' = Len(results)
    <3>1. Queued' = {}  BY <1>1, <1>2, <2>1 DEF Queued, Found
    <3>2. Cardinality(Queued') = 0  BY <3>1, FS_EmptySet
    <3> QED  BY <1>1, <1>2, <1>9, <1>10, <3>2
  <2>2. CASE taken' # Len(results)
    <3>1. Pushing' = Pushing  BY <1>3, <2>2 DEF Pushing
    <3>2. Cardinality(Queued) + unfinished + Cardinality(Pushing) <= Room  BY DEF Flow
    <3> QED  BY <1>1, <1>2, <1>6, <1>7, <1>9, <1>10, <3>1, <3>2
  <2> QED  BY <2>1, <2>2
<1> QED  BY <1>2, <1>4, <1>11 DEF Flow

\* The loaders: one that may push finds room, one that starts a check moves what
\* it pushes.
LEMMA LoaderFlows ==
  ASSUME TypeOK, SlotAccounting, OffLoaders, OffLoaders', Flow, NEW l \in Loaders, LoaderStep(l)
  PROVE  Flow'
<1>1. UNCHANGED <<call, calling, server, taken>>
  BY DEF LoaderStep, Begin, BatchEnds, SkipDead, Handle, ResolverRaises, CreateFails,
         Reject, Admit, Deliver, AwaitSlot, StartCheck, Join, Finish
<1> SUFFICES ASSUME server PROVE Flow'  BY <1>1 DEF Flow
<1>2. ~Nothing  BY NothingHappens
<1>3. /\ call.limit \in Nat \ {0} /\ unfinished \in Nat /\ unfinished <= MaxConn /\ MaxConn \in Nat
      /\ Cardinality(Queued) \in Nat /\ Room \in Int /\ pc \in PcType /\ Check
  BY LiveFinite, QueuedFinite, ServersCall, BrokerAssumption
  DEF TypeOK, LoadersOK, SlotAccounting, Flow, Room
<1>4. Room' = Room /\ Room = call.limit + (MaxConn - 1) + 2  BY <1>1 DEF Room
<1>5. Cardinality(Queued) + unfinished + Cardinality(Pushing) <= Room  BY DEF Flow
<1>6. IsFiniteSet(Pushing) /\ Cardinality(Pushing) \in Nat  BY FewPushing, TwoLoaders
<1>7. Cardinality(Pushing') \in Nat /\ Cardinality(Pushing') <= 2
  <2>1. Pushing' \subseteq {"load"} \/ Pushing' \subseteq {"warm", "grab"}
    BY DEF OffLoaders, Pushing, Loaders
  <2> QED  BY <2>1, TwoLoaders
<1>8. CASE \/ Begin(l) \/ BatchEnds(l) \/ SkipDead(l) \/ Handle(l) \/ ResolverRaises(l)
           \/ CreateFails(l) \/ Reject(l) \/ AwaitSlot(l) \/ Join(l)
  <2>1. UNCHANGED <<limit, results, unfinished>>
    BY <1>8 DEF Begin, BatchEnds, SkipDead, Handle, ResolverRaises, CreateFails, Reject,
                AwaitSlot, Join, checkVars, resultVars
  <2>2. \A m \in Loaders : pc'[m] = "put" => pc[m] = "put"
    BY <1>3, <1>8 DEF Begin, BatchEnds, SkipDead, Handle, ResolverRaises, CreateFails, Reject,
                AwaitSlot, Join, Goto, Suspend, PcType
  <2> QED  BY <1>1, <1>2, <2>1, <2>2, NothingFlows
<1>9. CASE Admit(l)
  <2>1. UNCHANGED <<limit, results, unfinished>>  BY <1>9 DEF Admit, checkVars, resultVars
  <2>2. Queued' = Queued  BY <1>1, <2>1 DEF Queued, Found
  <2>3. CASE Paused
    <3>1. \A m \in Loaders : pc'[m] = "put" => pc[m] = "put"
      BY <1>3, <1>9, <2>3 DEF Admit, Suspend, PcType
    <3> QED  BY <1>1, <1>2, <2>1, <3>1, NothingFlows
  <2>4. CASE ~Paused
    <3>1. Cardinality(Queued) <= call.limit - 1  BY <1>2, <2>4, RoomUnpaused
    <3>2. Cardinality(Queued') + unfinished' + Cardinality(Pushing') <= Room'
      BY <1>3, <1>4, <1>7, <2>1, <2>2, <3>1
    <3> QED  BY <1>1, <1>2, <2>1, <3>2 DEF Flow
  <2> QED  BY <2>3, <2>4
<1>10. CASE StartCheck(l)
  <2>1. UNCHANGED <<limit, results>> /\ unfinished' = unfinished + 1
        /\ pc[l] = "put" /\ pc' = [pc EXCEPT ![l] = "handle"]
    BY <1>10 DEF StartCheck, Goto, resultVars
  <2>2. Queued' = Queued  BY <1>1, <2>1 DEF Queued, Found
  <2>3. l \in Pushing /\ Pushing' = Pushing \ {l}  BY <1>3, <2>1 DEF Pushing, PcType
  <2>4. Cardinality(Pushing') = Cardinality(Pushing) - 1  BY <1>6, <2>3, FS_RemoveElement
  <2>5. Cardinality(Queued') + unfinished' + Cardinality(Pushing') <= Room'
    BY <1>3, <1>4, <1>5, <1>6, <2>1, <2>2, <2>4
  <2> QED  BY <1>1, <1>2, <2>1, <2>5 DEF Flow
<1>11. CASE Deliver(l)  BY <1>3, <1>11 DEF Deliver
<1>12. CASE Finish(l)
  <2>1. PushToResult(None) /\ unfinished' = unfinished  BY <1>12 DEF Finish
  <2>2. Found' = Found  BY <2>1, PushCounts DEF TypeOK
  <2>3. Queued' = Queued  BY <1>1, <2>2 DEF Queued
  <2>4. \A m \in Loaders : pc'[m] \in {pc[m], "cancelled", "ended"}
    BY <1>12 DEF Finish, CancelledLoaders
  <2>5. Pushing' \subseteq Pushing  BY <2>4 DEF Pushing
  <2>6. Cardinality(Pushing') <= Cardinality(Pushing)  BY <1>6, <2>5, FS_Subset
  <2>7. Cardinality(Queued') + unfinished' + Cardinality(Pushing') <= Room'
    BY <1>3, <1>4, <1>5, <1>6, <1>7, <2>1, <2>3, <2>6
  <2>8. ~calling' /\ limit' = call'.limit - Len(results')  BY <1>1, <1>2, <2>1, PushFlows
  <2> QED  BY <1>1, <2>7, <2>8 DEF Flow
<1> QED  BY <1>8, <1>9, <1>10, <1>11, <1>12 DEF LoaderStep

\* The end of a check: one that passed moves to the queue.
LEMMA CheckFlows ==
  ASSUME TypeOK, SlotAccounting, OffLoaders, Flow, NEW t \in CheckId, CheckStep(t)
  PROVE  Flow'
<1>1. UNCHANGED <<call, calling, server, taken>>
  BY DEF CheckStep, CheckEnds, CheckFailed, CheckPassed
<1> SUFFICES ASSUME server PROVE Flow'  BY <1>1 DEF Flow
<1>2. ~Nothing  BY NothingHappens
<1>3. /\ unfinished \in Nat /\ Cardinality(Queued) \in Nat /\ Room \in Int /\ Room' = Room
  BY <1>1, LiveFinite, QueuedFinite, ServersCall, BrokerAssumption DEF SlotAccounting, Flow, Room
<1>4. Cardinality(Queued) + unfinished + Cardinality(Pushing) <= Room  BY DEF Flow
<1>5. IsFiniteSet(Pushing) /\ Cardinality(Pushing) \in Nat  BY FewPushing, TwoLoaders
<1>6. \A m \in Loaders : pc'[m] \in {pc[m], "cancelled", "finish"}
  BY DEF CheckStep, CheckEnds, CheckFailed, CheckPassed, loaderVars, Woken, CancelledLoaders
<1>7. Cardinality(Pushing') <= Cardinality(Pushing) /\ Cardinality(Pushing') \in Nat
  <2>1. Pushing' \subseteq Pushing  BY <1>6 DEF Pushing
  <2>2. IsFiniteSet(Pushing') /\ Cardinality(Pushing') <= Cardinality(Pushing)
    BY <1>5, <2>1, FS_Subset
  <2> QED  BY <2>2, FS_CardinalityType
<1>8. CASE CheckEnds(t)
  <2>1. UNCHANGED <<limit, results, unfinished>>  BY <1>8 DEF CheckEnds, resultVars
  <2>2. \A m \in Loaders : pc'[m] = "put" => pc[m] = "put"  BY <1>6
  <2> QED  BY <1>1, <1>2, <2>1, <2>2, NothingFlows
<1>9. CASE CheckFailed(t)
  <2>1. UNCHANGED <<limit, results>> /\ unfinished' = unfinished - 1
    BY <1>9 DEF CheckFailed, FreeSlot, resultVars
  <2>2. Queued' = Queued  BY <1>1, <2>1 DEF Queued, Found
  <2>3. Cardinality(Queued') + unfinished' + Cardinality(Pushing') <= Room'
    BY <1>3, <1>4, <1>5, <1>7, <2>1, <2>2
  <2> QED  BY <1>1, <1>2, <2>1, <2>3 DEF Flow
<1>10. CASE CheckPassed(t)
  <2> DEFINE b == checks[t].addr
             n == Len(results) + 1
  <2>1. PushToResult(b) /\ unfinished' = unfinished - 1  BY <1>10 DEF CheckPassed, FreeSlot
  <2>2. b \in Addr /\ b # None
    BY <1>10, CheckAddress, BrokerAssumption DEF CheckPassed, TypeOK, Cand
  <2>3. Found' = Found \cup {n}  BY <2>1, <2>2, PushFound DEF TypeOK
  <2>4. Queued' \subseteq Queued \cup {n}  BY <1>1, <2>3 DEF Queued
  <2>5. IsFiniteSet(Queued \cup {n}) /\ Cardinality(Queued \cup {n}) <= Cardinality(Queued) + 1
    BY <1>3, QueuedFinite, FS_AddElement
  <2>6. IsFiniteSet(Queued') /\ Cardinality(Queued') <= Cardinality(Queued \cup {n})
    BY <2>4, <2>5, FS_Subset
  <2>7. Cardinality(Queued') \in Nat /\ Cardinality(Queued \cup {n}) \in Nat
    BY <2>5, <2>6, FS_CardinalityType
  <2>8. Cardinality(Queued') + unfinished' + Cardinality(Pushing') <= Room'
    BY <1>3, <1>4, <1>5, <1>7, <2>1, <2>5, <2>6, <2>7
  <2>9. ~calling' /\ limit' = call'.limit - Len(results')
    BY <1>1, <1>2, <2>1, <2>2, PushFlows
  <2> QED  BY <1>1, <2>8, <2>9 DEF Flow
<1> QED  BY <1>8, <1>9, <1>10 DEF CheckStep

\* Every step keeps the flow within its room.
LEMMA FlowStep ==
  ASSUME TypeOK, SlotAccounting, LimitInv, OffLoaders, OffLoaders', Flow, [Next]_vars
  PROVE  Flow'
<1>1. pc \in PcType /\ call.limit \in Nat
  BY BrokerAssumption DEF TypeOK, LoadersOK, RestOK, CallType
<1>2. CASE Find
  <2>1. UNCHANGED <<call, server, results, unfinished, taken>> /\ limit' = call.limit
        /\ calling' = FALSE /\ calling
        /\ \A m \in Loaders : pc'[m] \in {"off", "ready"}
    BY <1>2 DEF Find, checkVars, Loaders
  <2> SUFFICES ASSUME server PROVE Flow'  BY <2>1 DEF Flow
  <2>2. results = <<>>  BY <2>1 DEF Flow
  <2>3. Pushing' = {} /\ Queued' = Queued /\ Room' = Room
    BY <2>1 DEF Pushing, Queued, Found, Room
  <2>4. Cardinality(Pushing') = 0  BY <2>3, FS_EmptySet
  <2>5. /\ Cardinality(Queued) \in Nat /\ unfinished \in Nat /\ Cardinality(Pushing) \in Nat
        /\ Room \in Int
    BY QueuedFinite, LiveFinite, FewPushing, TwoLoaders, <1>1, BrokerAssumption
    DEF SlotAccounting, Room
  <2>6. Cardinality(Queued) + unfinished + Cardinality(Pushing) <= Room  BY DEF Flow
  <2>7. Cardinality(Queued') + unfinished' + Cardinality(Pushing') <= Room'
    BY <2>1, <2>3, <2>4, <2>5, <2>6
  <2>8. limit' = call'.limit - Len(results')  BY <1>1, <2>1, <2>2
  <2> QED  BY <2>1, <2>7, <2>8 DEF Flow
<1>3. CASE FindRaises
  <2>1. UNCHANGED <<call, server, results, unfinished, taken, limit, pc, active, checks>>
        /\ calling /\ calling' = FALSE
    BY <1>3 DEF FindRaises, loaderVars, checkVars, resultVars
  <2>2. Nothing /\ Nothing'  BY <2>1 DEF LimitInv, Nothing, Live
  <2>3. Queued' = Queued /\ Pushing' = Pushing /\ Room' = Room
    BY <2>1 DEF Queued, Found, Pushing, Room
  <2> QED  BY <2>1, <2>2, <2>3 DEF Flow
<1>4. CASE Autosave \/ Forget \/ (\E p \in Provider : FetchEnds(p)) \/ UNCHANGED vars
  <2>1. UNCHANGED <<call, calling, limit, server, taken, results, unfinished, pc, active, checks>>
    BY <1>4 DEF Autosave, Forget, FetchEnds, vars, loaderVars, checkVars, resultVars
  <2> QED  BY <2>1, NothingFlows DEF Nothing, Live
<1>5. CASE Stop  BY <1>5 DEF Stop, Flow
<1>6. CASE Take  BY <1>6, TakeFlows
<1>7. CASE GrabStep
  <2>1. UNCHANGED <<call, calling, limit, server, taken, results, unfinished>>
    BY <1>7 DEF GrabStep, StartWave, AwaitProvider, PassEnds, NextPass, NextProvider, checkVars,
                resultVars
  <2>2. PICK at \in {"fetch", "handle", "wave", "sleep", "join", "cancelled"} :
          pc' = [pc EXCEPT !["grab"] = at]
    BY <1>7 DEF GrabStep, StartWave, AwaitProvider, PassEnds, NextPass, NextProvider,
                Goto, Suspend
  <2>3. \A m \in Loaders : pc'[m] = "put" => pc[m] = "put"  BY <1>1, <2>2 DEF PcType
  <2>4. ~Nothing  BY <1>7, NothingHappens
  <2> QED  BY <2>1, <2>3, <2>4, NothingFlows
<1>8. ASSUME NEW l \in Loaders, LoaderStep(l) PROVE Flow'  BY <1>8, LoaderFlows
<1>9. ASSUME NEW t \in CheckId, CheckStep(t) PROVE Flow'  BY <1>9, CheckFlows
<1> QED  BY <1>2, <1>3, <1>4, <1>5, <1>6, <1>7, <1>8, <1>9 DEF Next

\* Before the first step nothing flows.
LEMMA FlowInit == Init => OffLoaders /\ Flow
<1> SUFFICES ASSUME Init PROVE OffLoaders /\ Flow  OBVIOUS
<1>1. OffLoaders  BY DEF Init, OffLoaders, Loaders
<1>2. Queued = {} /\ Pushing = {} /\ Live = {}
  BY DEF Init, Queued, Found, Pushing, Live
<1>3. Cardinality(Queued) = 0 /\ Cardinality(Pushing) = 0  BY <1>2, FS_EmptySet
<1>4. ASSUME server PROVE Flow
  <2>1. TypeOK /\ call.server  BY <1>4, InitType DEF Init
  <2>2. Check /\ call.limit \in Nat \ {0}  BY <2>1, ServersCall
  <2>3. Nothing /\ results = <<>>  BY <1>2, <2>2 DEF Init, Nothing, Check
  <2>4. Cardinality(Queued) + unfinished + Cardinality(Pushing) <= Room
    BY <1>3, <2>2, BrokerAssumption DEF Init, Room
  <2> QED  BY <2>1, <2>3, <2>4 DEF Flow
<1> QED  BY <1>1, <1>4 DEF Flow

\* For any limit and max_conn what waits in a server's queue is bounded, although
\* the limit alone does not stop the checks in flight (api.py:733).
THEOREM BacklogIsBounded == Spec => []BacklogBounded
<1>1. OffLoaders /\ TypeOK /\ SlotAccounting /\ LimitInv /\ Flow /\ [Next]_vars
      => (OffLoaders /\ Flow)'
  BY OffStep, FlowStep
<1>2. TypeOK /\ SlotAccounting /\ OffLoaders /\ Flow => BacklogBounded
  <2> SUFFICES ASSUME TypeOK, SlotAccounting, OffLoaders, Flow, server
               PROVE  Cardinality({i \in Found : i > taken})
                        <= call.limit + (MaxConn - 1) + Cardinality({"warm", "grab"})
    BY DEF BacklogBounded
  <2>1. /\ Cardinality(Queued) \in Nat /\ unfinished \in Nat /\ Cardinality(Pushing) \in Nat
        /\ Room \in Int
    BY QueuedFinite, LiveFinite, FewPushing, TwoLoaders, ServersCall, BrokerAssumption
    DEF SlotAccounting, Room, Flow
  <2>2. Cardinality(Queued) <= Room  BY <2>1 DEF Flow
  <2>3. Cardinality({"warm", "grab"}) = 2
    <3>1. {"warm"} \cup {"grab"} = {"warm", "grab"}  OBVIOUS
    <3>2. IsFiniteSet({"warm"}) /\ Cardinality({"warm"}) = 1  BY FS_Singleton
    <3> QED  BY <3>1, <3>2, FS_AddElement
  <2> QED  BY <2>2, <2>3 DEF Queued, Room
<1> QED  BY <1>1, <1>2, FlowInit, TypeCorrect, SlotsCorrect, LimitInvariant, PTL DEF Spec

-----------------------------------------------------------------------------
(* The stream that the reader of the queue sees. *)

\* A sequence has a part in front of its first marker, with or without a marker.
LEMMA ReadsSomewhere ==
  ASSUME NEW s \in Seq(Addr \cup {None})
  PROVE  \E n \in 0..Len(s) : ReadsTo(s, n)
<1> DEFINE M == {i \in 1..Len(s) : s[i] = None}
<1>1. CASE M = {}
  <2>1. Len(s) \in 0..Len(s) /\ ReadsTo(s, Len(s))  BY <1>1 DEF ReadsTo
  <2> QED  BY <2>1
<1>2. CASE M # {}
  <2>1. M \in SUBSET Nat  OBVIOUS
  <2>2. PICK m \in M : \A i \in M : ~(<<i, m>> \in OpToRel(<, Nat))
    BY <1>2, <2>1, NatLessThanWellFounded, WFMin
  <2>3. \A i \in M : ~(i < m)  BY <2>1, <2>2 DEF OpToRel
  <2>4. m - 1 \in 0..Len(s) /\ ReadsTo(s, m - 1)  BY <2>3 DEF ReadsTo
  <2> QED  BY <2>4
<1> QED  BY <1>1, <1>2

\* It is that part, whoever names its length.
LEMMA ReadsThere ==
  ASSUME NEW s \in Seq(Addr \cup {None}), NEW n \in 0..Len(s), ReadsTo(s, n)
  PROVE  /\ UpToMarker(s) = SubSeq(s, 1, n)
         /\ (\E i \in DOMAIN s : s[i] = None) <=> n < Len(s)
<1> DEFINE c == CHOOSE m \in 0..Len(s) : ReadsTo(s, m)
<1>1. c \in 0..Len(s) /\ ReadsTo(s, c)  OBVIOUS
<1> HIDE DEF c
<1>2. c = n
  <2>1. ~(c < n)  BY <1>1 DEF ReadsTo
  <2>2. ~(n < c)  BY <1>1 DEF ReadsTo
  <2> QED  BY <1>1, <2>1, <2>2
<1>3. UpToMarker(s) = SubSeq(s, 1, n)  BY <1>2 DEF UpToMarker, c
<1>4. (\E i \in DOMAIN s : s[i] = None) <=> n < Len(s)
  <2>1. ASSUME n < Len(s) PROVE \E i \in DOMAIN s : s[i] = None
    <3>1. n + 1 \in DOMAIN s /\ s[n + 1] = None  BY <2>1 DEF ReadsTo
    <3> QED  BY <3>1
  <2>2. ASSUME ~(n < Len(s)), NEW i \in DOMAIN s PROVE s[i] # None
    BY <2>2 DEF ReadsTo
  <2> QED  BY <2>1, <2>2
<1> QED  BY <1>3, <1>4

\* Before a marker the reader gets everything.
LEMMA AllIsRead ==
  ASSUME NEW s \in Seq(Addr \cup {None}), \A i \in DOMAIN s : s[i] # None
  PROVE  UpToMarker(s) = s
<1>1. PICK n \in 0..Len(s) : ReadsTo(s, n)  BY ReadsSomewhere
<1>2. n = Len(s)  BY <1>1, ReadsThere
<1>3. UpToMarker(s) = SubSeq(s, 1, Len(s))  BY <1>1, <1>2, ReadsThere
<1> QED  BY <1>3

\* What is put behind a marker is not read.
LEMMA NothingIsRead ==
  ASSUME NEW s \in Seq(Addr \cup {None}), NEW more \in Seq(Addr \cup {None}),
         NEW m \in DOMAIN s, s[m] = None
  PROVE  /\ UpToMarker(s \o more) = UpToMarker(s)
         /\ \E i \in DOMAIN (s \o more) : (s \o more)[i] = None
<1> DEFINE r == s \o more
<1>1. /\ r \in Seq(Addr \cup {None}) /\ Len(r) = Len(s) + Len(more)
      /\ \A i \in 1..Len(s) : r[i] = s[i]
  OBVIOUS
<1> HIDE DEF r
<1>2. PICK n \in 0..Len(s) : ReadsTo(s, n)  BY ReadsSomewhere
<1>3. n < Len(s)  BY <1>2, ReadsThere
<1>4. n \in 0..Len(r) /\ ReadsTo(r, n)
  <2>1. Len(s) \in Nat /\ Len(more) \in Nat  OBVIOUS
  <2>2. n \in 0..Len(r)  BY <1>1, <2>1
  <2>3. \A i \in 1..n : r[i] # None  BY <1>1, <1>2, <2>1 DEF ReadsTo
  <2>4. n + 1 \in 1..Len(s) /\ s[n + 1] = None  BY <1>2, <1>3, <2>1 DEF ReadsTo
  <2>5. r[n + 1] = None  BY <1>1, <2>4
  <2> QED  BY <2>2, <2>3, <2>5 DEF ReadsTo
<1>5. SubSeq(r, 1, n) = SubSeq(s, 1, n)  BY <1>1, <1>3
<1>6. UpToMarker(r) = UpToMarker(s)  BY <1>1, <1>2, <1>4, <1>5, ReadsThere
<1>7. n < Len(r)  BY <1>1, <1>3
<1>8. \E i \in DOMAIN r : r[i] = None  BY <1>1, <1>4, <1>7, ReadsThere
<1> QED  BY <1>6, <1>8 DEF r

\* Read, until there is a marker: everything, then what precedes it.
LEMMA ItemIsRead ==
  ASSUME NEW s \in Seq(Addr \cup {None}), \A i \in DOMAIN s : s[i] # None,
         NEW a \in Addr
  PROVE  /\ UpToMarker(s \o <<a>>) = Append(s, a)
         /\ \A i \in DOMAIN (s \o <<a>>) : (s \o <<a>>)[i] # None
         /\ UpToMarker(s \o <<a, None>>) = Append(s, a)
         /\ \E i \in DOMAIN (s \o <<a, None>>) : (s \o <<a, None>>)[i] = None
<1>1. a # None  BY BrokerAssumption DEF Cand
<1> DEFINE r == Append(s, a)
           q == r \o <<None>>
<1>2. /\ r \in Seq(Addr \cup {None}) /\ r = s \o <<a>> /\ Len(r) = Len(s) + 1
      /\ \A i \in 1..Len(s) : r[i] = s[i]
      /\ r[Len(s) + 1] = a
  OBVIOUS
<1>3. s \o <<a, None>> = q  OBVIOUS
<1> HIDE DEF r
<1>4. \A i \in DOMAIN r : r[i] # None  BY <1>1, <1>2
<1>5. UpToMarker(r) = r  BY <1>2, <1>4, AllIsRead
<1>6. /\ q \in Seq(Addr \cup {None}) /\ Len(q) = Len(r) + 1
      /\ \A i \in 1..Len(r) : q[i] = r[i]
      /\ q[Len(r) + 1] = None
  BY <1>2
<1> HIDE DEF q
<1>7. Len(r) \in 0..Len(q) /\ ReadsTo(q, Len(r))
  <2>1. Len(r) \in Nat /\ DOMAIN r = 1..Len(r)  BY <1>2
  <2>2. \A i \in 1..Len(r) : q[i] # None  BY <1>4, <1>6, <2>1
  <2> QED  BY <1>6, <2>1, <2>2 DEF ReadsTo
<1>8. SubSeq(q, 1, Len(r)) = r  BY <1>2, <1>6
<1>9. UpToMarker(q) = r /\ \E i \in DOMAIN q : q[i] = None
  BY <1>2, <1>6, <1>7, <1>8, ReadsThere
<1> QED  BY <1>2, <1>3, <1>4, <1>5, <1>9 DEF r

\* The marker itself is not read, nor is a second one behind it.
LEMMA MarkerIsRead ==
  ASSUME NEW s \in Seq(Addr \cup {None}), \A i \in DOMAIN s : s[i] # None,
         NEW p \in {<<None>>, <<None, None>>}
  PROVE  /\ UpToMarker(s \o p) = s
         /\ \E i \in DOMAIN (s \o p) : (s \o p)[i] = None
<1> DEFINE r == s \o p
<1>1. p \in Seq(Addr \cup {None}) /\ Len(p) \in {1, 2} /\ p[1] = None
  <2>1. CASE p = <<None>>  BY <2>1
  <2>2. CASE p = <<None, None>>  BY <2>2
  <2> QED  BY <2>1, <2>2
<1>2. /\ r \in Seq(Addr \cup {None}) /\ Len(r) = Len(s) + Len(p)
      /\ \A i \in 1..Len(s) : r[i] = s[i]
      /\ r[Len(s) + 1] = None
  BY <1>1
<1> HIDE DEF r
<1>3. Len(s) \in 0..Len(r) /\ ReadsTo(r, Len(s))  BY <1>1, <1>2 DEF ReadsTo
<1>4. SubSeq(r, 1, Len(s)) = s  BY <1>1, <1>2
<1>5. Len(s) < Len(r)  BY <1>1, <1>2
<1>6. UpToMarker(r) = s /\ \E i \in DOMAIN r : r[i] = None
  BY <1>2, <1>3, <1>4, <1>5, ReadsThere
<1> QED  BY <1>6 DEF r

\* What the stream needs besides LimitInv: a server stays one until a marker is
\* there, without a limit no result reaches it, and verified is what was put.
StreamInv ==
  /\ call.server /\ ~EndOfStream => server
  /\ ~call.server /\ call.limit = 0 => limit <= 0
  /\ call.store => verified = {results[i] : i \in Found}

\* What the queue has after a push.
LEMMA PushStreams ==
  ASSUME ResultsOK, NEW x \in Addr \cup {None}, PushToResult(x)
  PROVE  /\ EndOfStream => EndOfStream' /\ UpToMarker(results') = UpToMarker(results)
         /\ ~EndOfStream => UpToMarker(results) = results
         /\ x = None => EndOfStream'
         /\ x = None /\ ~EndOfStream => UpToMarker(results') = results
         /\ x # None /\ ~EndOfStream => /\ UpToMarker(results') = Append(results, x)
                                        /\ EndOfStream' <=> HitsLimit
         /\ {results'[i] : i \in Found'} = {results[i] : i \in Found} \cup ({x} \ {None})
<1> DEFINE R == Addr \cup {None}
<1>1. results \in Seq(R) /\ Pushed(x) \in Seq(R)  BY PushedType DEF ResultsOK
<1>2. results' = results \o Pushed(x)  BY DEF PushToResult
<1>3. Pushed(x) \in {<<x>>, <<x, None>>} /\ (Pushed(x) = <<x, None>> <=> HitsLimit)
  BY DEF Pushed
<1>4. ASSUME EndOfStream
      PROVE  EndOfStream' /\ UpToMarker(results') = UpToMarker(results)
  <2>1. PICK m \in DOMAIN results : results[m] = None  BY <1>4 DEF EndOfStream
  <2> QED  BY <1>1, <1>2, <2>1, NothingIsRead DEF EndOfStream
<1>5. ASSUME ~EndOfStream PROVE \A i \in DOMAIN results : results[i] # None
  BY <1>5 DEF EndOfStream
<1>6. ~EndOfStream => UpToMarker(results) = results  BY <1>1, <1>5, AllIsRead
<1>7. ASSUME x = None, ~EndOfStream
      PROVE  EndOfStream' /\ UpToMarker(results') = results
  <2>1. Pushed(x) \in {<<None>>, <<None, None>>}  BY <1>3, <1>7
  <2> QED  BY <1>1, <1>2, <1>5, <1>7, <2>1, MarkerIsRead DEF EndOfStream
<1>8. ASSUME x # None, ~EndOfStream
      PROVE  UpToMarker(results') = Append(results, x) /\ (EndOfStream' <=> HitsLimit)
  <2>1. x \in Addr  BY <1>8
  <2> QED  BY <1>1, <1>2, <1>3, <1>5, <1>8, <2>1, ItemIsRead DEF EndOfStream
<1>9. {results'[i] : i \in Found'} = {results[i] : i \in Found} \cup ({x} \ {None})
  <2>1. /\ \A i \in 1..Len(results) : results'[i] = results[i]
        /\ results'[Len(results) + 1] = x
        /\ DOMAIN results' = 1..Len(results') /\ DOMAIN results = 1..Len(results)
        /\ Len(results') >= Len(results) + 1
    BY <1>1, <1>2, <1>3
  <2>2. \A i \in DOMAIN results' :
          \/ results'[i] = None
          \/ i \in DOMAIN results /\ results'[i] = results[i]
          \/ i = Len(results) + 1 /\ results'[i] = x
    BY PushEntries
  <2>3. Len(results) \in Nat /\ Len(results') \in Nat  BY <1>1, <1>2
  <2> QED  BY <2>1, <2>2, <2>3 DEF Found
<1> QED  BY <1>4, <1>6, <1>7, <1>8, <1>9

\* As long as the stream goes on, the limit is reached with the last proxy asked for.
LEMMA HitsWithLast ==
  ASSUME TypeOK, LimitInv, StreamInv, ~EndOfStream, ~Nothing
  PROVE  HitsLimit <=> Len(results) + 1 = IF call.server THEN 0 ELSE call.limit
<1>1. results \in Seq(Addr \cup {None}) /\ Len(results) \in Nat /\ limit \in Int
      /\ call.limit \in Nat
  BY BrokerAssumption DEF TypeOK, ResultsOK, RestOK, CallType
<1>2. CASE call.server  BY <1>1, <1>2 DEF StreamInv, HitsLimit
<1>3. CASE ~call.server /\ call.limit = 0  BY <1>1, <1>3 DEF StreamInv, HitsLimit
<1>4. CASE ~call.server /\ call.limit > 0
  <2>1. ~MarkerInTime  BY DEF MarkerInTime, EndOfStream
  <2>2. ~server /\ limit = call.limit - Len(results)  BY <1>4, <2>1 DEF LimitInv
  <2> QED  BY <1>1, <1>4, <2>2 DEF HitsLimit
<1> QED  BY <1>1, <1>2, <1>3, <1>4

\* What a step may do to the queue, the verified and the file: leave the queue,
\* put a marker, put a proxy.
Leaves  == /\ UNCHANGED <<call, results, verified, server>>
           /\ stored' \in {stored, Saved(verified)}
           /\ limit' \in {limit, call.limit}
Marks   == /\ UNCHANGED <<call, verified>> /\ server' \in {server, FALSE}
           /\ PushToResult(None) /\ stored' = Saved(verified)
Puts(a) == /\ UNCHANGED <<call, server>> /\ PushToResult(a)
           /\ verified' = IF call.store THEN verified \cup {a} ELSE verified
           /\ stored' = IF HitsLimit THEN Saved(verified') ELSE stored

\* Every step does one of these.
LEMMA StreamEffects ==
  ASSUME TypeOK, [Next]_vars
  PROVE  Leaves \/ Marks \/ (~Nothing /\ \E a \in Addr : Puts(a))
<1>1. CASE Find \/ FindRaises \/ Autosave \/ Take \/ Forget \/ UNCHANGED vars
  BY <1>1 DEF Find, FindRaises, Autosave, Take, Forget, resultVars, vars, Leaves
<1>2. CASE Stop  BY <1>2 DEF Stop, Marks
<1>3. CASE GrabStep
  BY <1>3 DEF GrabStep, StartWave, AwaitProvider, PassEnds, NextPass, NextProvider,
              resultVars, Leaves
<1>4. ASSUME NEW p \in Provider, FetchEnds(p) PROVE Leaves
  BY <1>4 DEF FetchEnds, resultVars, Leaves
<1>5. ASSUME NEW l \in Loaders, LoaderStep(l)
      PROVE  Leaves \/ Marks \/ (~Nothing /\ \E a \in Addr : Puts(a))
  <2>1. CASE Deliver(l)
    <3>1. PICK a \in Fresh(hand[l]) :
            PushToResult(a) /\ verified' = IF call.store THEN verified \cup {a} ELSE verified
      BY <2>1 DEF Deliver
    <3>2. a \in Addr  BY <3>1, CreatedType
    <3>3. stored' = IF HitsLimit THEN Saved(verified') ELSE stored  BY <2>1 DEF Deliver
    <3>4. UNCHANGED <<call, server>>  BY <2>1 DEF Deliver
    <3>5. ~Nothing  BY <1>5, NothingHappens
    <3> QED  BY <3>1, <3>2, <3>3, <3>4, <3>5 DEF Puts
  <2>2. CASE Finish(l)
    <3>1. PushToResult(None) /\ UNCHANGED <<call, verified, server>>
          /\ stored' = Saved(verified)
      BY <2>2 DEF Finish, Saved
    <3> QED  BY <3>1 DEF Marks
  <2>3. CASE ~Deliver(l) /\ ~Finish(l)
    BY <1>5, <2>3 DEF LoaderStep, Begin, BatchEnds, SkipDead, Handle, ResolverRaises,
                      CreateFails, Reject, Admit, AwaitSlot, StartCheck, Join, resultVars,
                      Leaves
  <2> QED  BY <2>1, <2>2, <2>3
<1>6. ASSUME NEW t \in CheckId, CheckStep(t)
      PROVE  Leaves \/ Marks \/ (~Nothing /\ \E a \in Addr : Puts(a))
  <2>1. CASE CheckPassed(t)
    <3>1. checks[t].addr \in Addr  BY <2>1, CheckAddress DEF CheckPassed, TypeOK
    <3>2. Puts(checks[t].addr)  BY <2>1 DEF CheckPassed, Puts
    <3>3. ~Nothing  BY <1>6, NothingHappens
    <3> QED  BY <3>1, <3>2, <3>3
  <2>2. CASE CheckEnds(t) \/ CheckFailed(t)
    BY <2>2 DEF CheckEnds, CheckFailed, resultVars, Leaves
  <2> QED  BY <1>6, <2>1, <2>2 DEF CheckStep
<1> QED  BY <1>1, <1>2, <1>3, <1>4, <1>5, <1>6 DEF Next

\* Every step keeps what the stream needs.
LEMMA StreamStep ==
  ASSUME TypeOK, StreamInv, [Next]_vars
  PROVE  StreamInv'
<1>1. CASE Leaves
  <2>1. UNCHANGED <<call, results, verified, server>>  BY <1>1 DEF Leaves
  <2>2. EndOfStream' = EndOfStream /\ Found' = Found  BY <2>1 DEF EndOfStream, Found
  <2>3. ~call.server /\ call.limit = 0 => limit' <= 0  BY <1>1 DEF Leaves, StreamInv
  <2> QED  BY <2>1, <2>2, <2>3 DEF StreamInv
<1>2. ASSUME NEW x \in Addr \cup {None}, PushToResult(x), call' = call,
             verified' = IF call.store THEN verified \cup ({x} \ {None}) ELSE verified,
             EndOfStream' \/ server' = server
      PROVE  StreamInv'
  <2>1. limit' <= limit /\ limit' \in Int /\ limit \in Int
    <3>1. limit' = limit - Len(Pushed(x)) /\ limit \in Int
      BY <1>2 DEF PushToResult, TypeOK, ResultsOK
    <3> QED  BY <1>2, <3>1, PushedType
  <2>2. /\ EndOfStream => EndOfStream'
        /\ {results'[i] : i \in Found'} = {results[i] : i \in Found} \cup ({x} \ {None})
    BY <1>2, PushStreams DEF TypeOK
  <2>3. ~call.server /\ call.limit = 0 => limit' <= 0  BY <2>1 DEF StreamInv
  <2>4. call.server /\ ~EndOfStream' => server'  BY <1>2, <2>2 DEF StreamInv
  <2>5. call.store => verified' = {results'[i] : i \in Found'}
    BY <1>2, <2>2 DEF StreamInv
  <2> QED  BY <1>2, <2>3, <2>4, <2>5 DEF StreamInv
<1>3. CASE Marks
  <2>1. PushToResult(None) /\ UNCHANGED <<call, verified>>  BY <1>3 DEF Marks
  <2>2. EndOfStream'  BY <2>1, PushStreams DEF TypeOK
  <2> QED  BY <1>2, <2>1, <2>2
<1>4. ASSUME NEW a \in Addr, Puts(a) PROVE StreamInv'
  <2>1. a # None  BY BrokerAssumption DEF Cand
  <2> QED  BY <1>2, <1>4, <2>1 DEF Puts
<1> QED  BY <1>1, <1>3, <1>4, StreamEffects

\* What a sequence with one more contains.
LEMMA AllOfAppended ==
  ASSUME NEW s \in Seq(Addr \cup {None}), NEW a \in Addr
  PROVE  Stream!All(Append(s, a)) = Stream!All(s) \cup {a}
<1>1. /\ DOMAIN Append(s, a) = DOMAIN s \cup {Len(s) + 1}
      /\ \A i \in DOMAIN s : Append(s, a)[i] = s[i]
      /\ Append(s, a)[Len(s) + 1] = a
  OBVIOUS
<1>2. \A i \in DOMAIN s : s[i] \in Stream!All(Append(s, a))  BY <1>1 DEF Stream!All
<1>3. a \in Stream!All(Append(s, a))  BY <1>1 DEF Stream!All
<1>4. \A i \in DOMAIN Append(s, a) : Append(s, a)[i] \in Stream!All(s) \cup {a}
  BY <1>1 DEF Stream!All
<1> QED  BY <1>2, <1>3, <1>4 DEF Stream!All

\* Only the empty sequence contains nothing.
LEMMA AllOfSome ==
  ASSUME NEW s \in Seq(Addr \cup {None})
  PROVE  Stream!All(s) = {} <=> s = <<>>
<1>1. DOMAIN s = {} <=> s = <<>>  OBVIOUS
<1> QED  BY <1>1 DEF Stream!All

\* Every step is one of the stream, or none.
LEMMA StreamImplemented ==
  ASSUME TypeOK, TypeOK', LimitInv, StreamInv, OnceInv', [Next]_vars
  PROVE  [Stream!Next]_(Stream!vars)
<1> DEFINE in == {results[i] : i \in Found}
           given == UpToMarker(results)
<1>1. ASSUME ~EndOfStream PROVE given = results /\ Stream!All(given) = in
  <2>1. given = results  BY <1>1, AllIsRead DEF EndOfStream, TypeOK, ResultsOK
  <2>2. Found = DOMAIN results  BY <1>1 DEF EndOfStream, Found
  <2> QED  BY <2>1, <2>2 DEF Stream!All
<1>2. Stream!All(given) \subseteq in
  <2>1. results \in Seq(Addr \cup {None})  BY DEF TypeOK, ResultsOK
  <2>2. PICK n \in 0..Len(results) : ReadsTo(results, n)  BY <2>1, ReadsSomewhere
  <2>3. given = SubSeq(results, 1, n)  BY <2>1, <2>2, ReadsThere
  <2>4. \A i \in DOMAIN given : i \in Found /\ given[i] = results[i]
    BY <2>1, <2>2, <2>3 DEF ReadsTo, Found
  <2> QED  BY <2>4 DEF Stream!All
<1>3. CASE UNCHANGED <<call, results>> /\ stored' \in {stored, Saved(verified)}
  <2>1. UNCHANGED <<given, call, EndOfStream>>  BY <1>3 DEF EndOfStream
  <2>2. CASE stored' = stored  BY <2>1, <2>2 DEF Stream!vars
  <2>3. CASE stored' # stored
    <3>1. call.store /\ verified # {} /\ stored' = verified  BY <1>3, <2>3 DEF Saved
    <3>2. verified = in  BY <3>1 DEF StreamInv
    <3>3. CASE EndOfStream
      <4>1. Stream!SaveLate
        BY <1>2, <2>1, <3>1, <3>2, <3>3 DEF Stream!SaveLate, Stream!call, TypeOK, ResultsOK
      <4> QED  BY <4>1 DEF Stream!Next
    <3>4. CASE ~EndOfStream
      <4>1. stored' = Stream!All(given)  BY <1>1, <3>1, <3>2, <3>4
      <4>2. given # <<>>  BY <1>1, <3>1, <3>2, <3>4 DEF Stream!All
      <4>3. Stream!Autosave
        BY <2>1, <3>1, <3>4, <4>1, <4>2 DEF Stream!Autosave, Stream!Save, Stream!call
      <4> QED  BY <4>3 DEF Stream!Next
    <3> QED  BY <3>3, <3>4
  <2> QED  BY <2>2, <2>3
<1>4. CASE Marks
  <2>1. /\ PushToResult(None) /\ UNCHANGED call /\ ResultsOK
        /\ verified' = verified /\ stored' = Saved(verified)
    BY <1>4 DEF Marks, TypeOK
  <2>2. EndOfStream' /\ given' = given  BY <1>1, <2>1, PushStreams
  <2>3. CASE EndOfStream
    <3>1. Stream!SaveLate \/ UNCHANGED Stream!vars
      BY <1>2, <2>1, <2>2, <2>3 DEF Stream!SaveLate, Stream!call, Stream!vars, Saved,
                                    StreamInv, ResultsOK
    <3> QED  BY <3>1 DEF Stream!Next
  <2>4. CASE ~EndOfStream
    <3>1. Stream!Save(given)
      <4>1. given = results /\ Stream!All(given) = in  BY <1>1, <2>4
      <4>2. given # <<>> <=> in # {}
        <5>1. results \in Seq(Addr \cup {None})  BY <2>1 DEF ResultsOK
        <5> QED  BY <4>1, <5>1, AllOfSome
      <4> QED  BY <2>1, <4>1, <4>2 DEF Stream!Save, Saved, StreamInv
    <3>2. Stream!End  BY <2>1, <2>2, <2>4, <3>1 DEF Stream!End, Stream!call
    <3> QED  BY <3>2 DEF Stream!Next
  <2> QED  BY <2>3, <2>4
<1>5. ASSUME NEW a \in Addr, Puts(a), ~Nothing PROVE [Stream!Next]_(Stream!vars)
  <2>1. /\ PushToResult(a) /\ UNCHANGED call /\ ResultsOK
        /\ verified' = IF call.store THEN verified \cup {a} ELSE verified
        /\ stored' = IF HitsLimit THEN Saved(verified') ELSE stored
    BY <1>5 DEF Puts, TypeOK
  <2>2. a # None  BY BrokerAssumption DEF Cand
  <2>3. call.store => verified' = in \cup {a}  BY <2>1 DEF StreamInv
  <2>4. CASE EndOfStream
    <3>1. EndOfStream' /\ given' = given  BY <2>1, <2>4, PushStreams
    <3>2. verified' \subseteq Addr  BY DEF TypeOK, ResultsOK
    <3>3. Stream!SaveLate \/ UNCHANGED Stream!vars
      BY <1>2, <2>1, <2>3, <2>4, <3>1, <3>2 DEF Stream!SaveLate, Stream!call, Stream!vars,
                                                Saved
    <3> QED  BY <3>3 DEF Stream!Next
  <2>5. CASE ~EndOfStream
    <3>1. given = results /\ Stream!All(given) = in  BY <1>1, <2>5
    <3>2. given' = Append(given, a) /\ (EndOfStream' <=> HitsLimit)
      BY <2>1, <2>2, <2>5, <3>1, PushStreams
    <3>3. results \in Seq(Addr \cup {None})  BY <2>1 DEF ResultsOK
    <3>4. Len(given') = Len(results) + 1  BY <3>1, <3>2, <3>3
    <3>5. EndOfStream' = (Len(given') = (IF call.server THEN 0 ELSE call.limit)')
      BY <1>5, <2>1, <2>5, <3>2, <3>4, HitsWithLast DEF EndOfStream
    <3>6. ~call.server /\ ~call.forever => a \notin Stream!All(given)
      <4> SUFFICES ASSUME ~call.server, ~call.forever, NEW i \in DOMAIN results,
                          results[i] = a
                   PROVE  FALSE
        BY <3>1 DEF Stream!All
      <4>1. PICK j \in Nat : j = Len(results) + 1  BY <3>3
      <4>2. i # j /\ i \in DOMAIN results' /\ j \in DOMAIN results'
            /\ results'[i] = a /\ results'[j] = a
        <5>1. results' = results \o Pushed(a)  BY <2>1 DEF PushToResult
        <5>2. CASE Pushed(a) = <<a>>  BY <3>3, <4>1, <5>1, <5>2
        <5>3. CASE Pushed(a) = <<a, None>>  BY <3>3, <4>1, <5>1, <5>3
        <5> QED  BY <5>2, <5>3 DEF Pushed
      <4>3. i \in Nat  BY <3>3
      <4>4. InQueue(i, a)' /\ InQueue(j, a)'  BY <4>2 DEF InQueue
      <4>5. Single(a)'  BY <2>1 DEF OnceInv
      <4> QED  BY <4>2, <4>3, <4>4, <4>5 DEF Single
    <3>7. IF EndOfStream' THEN Stream!Save(given') ELSE stored' = stored
      <4>1. CASE ~HitsLimit  BY <2>1, <3>2, <4>1
      <4>2. CASE HitsLimit
        <5>1. Stream!All(given') = in \cup {a}  BY <3>1, <3>2, <3>3, AllOfAppended
        <5>2. given' # <<>>  BY <3>2, <3>3, <3>4
        <5> QED  BY <2>1, <2>3, <3>2, <4>2, <5>1, <5>2 DEF Stream!Save, Saved
      <4> QED  BY <4>1, <4>2
    <3>8. Stream!Give(a)
      BY <2>1, <2>5, <3>2, <3>5, <3>6, <3>7 DEF Stream!Give, Stream!call
    <3> QED  BY <3>8 DEF Stream!Next
  <2> QED  BY <2>4, <2>5
<1>6. CASE Leaves  BY <1>3, <1>6 DEF Leaves
<1> QED  BY <1>4, <1>5, <1>6, StreamEffects

\* For the reader who stops at the first marker a Broker is a stream that gives each
\* proxy once, at most `limit' of them, and leaves them in the pool file: whoever
\* ends it (api.py:790, api.py:827), for every kind of call.
THEOREM StreamRefines == Spec => ImplementsStream
<1>1. Init => StreamInv /\ Stream!Init
  <2> SUFFICES ASSUME Init PROVE StreamInv /\ Stream!Init  OBVIOUS
  <2>1. TypeOK  BY InitType
  <2>2. call.limit \in Nat /\ call.server \in BOOLEAN /\ call.forever \in BOOLEAN
        /\ call.store \in BOOLEAN
    BY <2>1, BrokerAssumption DEF TypeOK, RestOK, CallType
  <2>3. DOMAIN results = {} /\ results \in Seq(Addr \cup {None})
    BY <2>1 DEF Init, TypeOK, ResultsOK
  <2>4. UpToMarker(results) = <<>> /\ ~EndOfStream
    BY <2>3, AllIsRead DEF EndOfStream, Init
  <2>5. StreamInv  BY <2>2, <2>3 DEF Init, StreamInv, Found
  <2>6. Stream!Init  BY <2>1, <2>2, <2>4 DEF Stream!Init, TypeOK, ResultsOK
  <2> QED  BY <2>5, <2>6
<1>2. TypeOK /\ StreamInv /\ [Next]_vars => StreamInv'  BY StreamStep
<1>3. TypeOK /\ TypeOK' /\ LimitInv /\ StreamInv /\ OnceInv' /\ [Next]_vars
      => [Stream!Next]_(Stream!vars)
  BY StreamImplemented
<1> QED
  BY <1>1, <1>2, <1>3, TypeCorrect, LimitInvariant, OnceInvariant, PTL
  DEF Spec, ImplementsStream, Stream!Spec

-----------------------------------------------------------------------------
(* Where the event loop comes to rest. *)

\* The event loop has nothing to run: no coroutine holds it, no call is being set
\* up, no loader can go on, no fetch and no check is under way, nobody sleeps.
Resting ==
  /\ active = None /\ ~calling
  /\ \A l \in Loaders :
       /\ pc[l] \notin {"ready", "resolve", "finish", "sleep"}
       /\ pc[l] = "put" => slots >= MaxConn
  /\ \A p \in Provider : fetch[p] # "running" /\ (pc["grab"] = "fetch" => fetch[p] # "ready")
  /\ Live = {}

\* Then nobody waits in vain: whoever still waits does so for the consumer, and if
\* a loader came to its end, so did all others and the stream.
AtRest(l) == pc[l] \in Over \cup {"off"}
RestIsEnd ==
  Resting =>
    \/ \A l \in Loaders : pc[l] = "off"
    \/ EndOfStream /\ \A l \in Loaders : AtRest(l)
    \/ /\ \A l \in Loaders : AtRest(l) \/ (pc[l] = "pause" /\ taken < Len(results))
       /\ \E l \in Loaders : pc[l] \in {"raised", "pause"}

\* A loader that prepares, walks a batch or creates a proxy holds the loop; only
\* discovery waits for providers and sleeps.
InTurn ==
  /\ \A l \in Loaders : pc[l] \in {"wave", "handle", "created"} => active = l
  /\ \A l \in Loaders : pc[l] \in {"wave", "fetch", "sleep"} => l = "grab"
  /\ doomed => active # None

\* Whoever has ended or was cancelled, the stream is over and all are at rest, but
\* for the one that holds the loop and does not know yet.
Reached == doomed \/ \E l \in Loaders : pc[l] \in {"ended", "cancelled"}
Unaware(l) == doomed /\ active = l
ReachesAll == Reached => EndOfStream /\ \A l \in Loaders : AtRest(l) \/ Unaware(l)

\* Nothing is fetched before find() has begun; then discovery waits for fetches that
\* answer.
FetchesAnswer ==
  /\ calling => \A p \in Provider : fetch[p] = "idle"
  /\ (\E p \in Provider : fetch[p] = "cancelled") => AtRest("grab") \/ Unaware("grab")
  /\ pc["grab"] = "fetch" /\ active # "grab" =>
       \E p \in Provider : fetch[p] \in {"running", "ready"}

RestInv == InTurn /\ ReachesAll /\ FetchesAnswer

\* Every step keeps the turns.
LEMMA InTurnStep ==
  ASSUME TypeOK, LimitInv, InTurn, [Next]_vars
  PROVE  InTurn'
<1> None \notin Loaders /\ "grab" \in Loaders  BY BrokerAssumption DEF Loaders
<1>1. pc \in PcType  BY DEF TypeOK, LoadersOK
<1>2. CASE FindRaises \/ Autosave \/ Forget \/ (\E p \in Provider : FetchEnds(p)) \/ UNCHANGED vars
  BY <1>2 DEF FindRaises, Autosave, Forget, FetchEnds, loaderVars, vars, InTurn
<1>3. CASE Find
  <2>1. \A l \in Loaders : pc'[l] \in {"ready", "off"}  BY <1>3 DEF Find, Loaders
  <2> QED  BY <1>3, <2>1 DEF Find, InTurn
<1>4. CASE Stop
  BY <1>1, <1>4 DEF Stop, InTurn, CancelledLoaders
<1>5. CASE Take
  BY <1>1, <1>5 DEF Take, InTurn
<1>6. CASE GrabStep
  BY <1>1, <1>6 DEF GrabStep, StartWave, AwaitProvider, PassEnds, NextPass, NextProvider,
                    Goto, Suspend, InTurn, PcType
<1>7. ASSUME NEW l \in Loaders, LoaderStep(l) PROVE InTurn'
  <2>1. CASE Begin(l) \/ BatchEnds(l)
    BY <1>1, <2>1 DEF Begin, BatchEnds, Goto, InTurn, PcType
  <2>2. CASE SkipDead(l)  BY <2>2 DEF SkipDead, InTurn
  <2>3. CASE Handle(l)  BY <1>1, <2>3 DEF Handle, Goto, Suspend, InTurn, PcType
  <2>4. CASE ResolverRaises(l)  BY <1>1, <2>4 DEF ResolverRaises, InTurn, PcType
  <2>5. CASE CreateFails(l) \/ Reject(l)
    BY <1>1, <2>5 DEF CreateFails, Reject, Goto, InTurn, PcType
  <2>6. CASE Admit(l)  BY <1>1, <2>6 DEF Admit, Goto, Suspend, InTurn, PcType
  <2>7. CASE Deliver(l)
    BY <1>1, <2>7 DEF Deliver, CancelledLoaders, InTurn, PcType
  <2>8. CASE AwaitSlot(l) \/ StartCheck(l) \/ Join(l)
    BY <1>1, <2>8 DEF AwaitSlot, StartCheck, Join, Goto, Suspend, InTurn, PcType
  <2>9. CASE Finish(l)
    BY <1>1, <2>9 DEF Finish, CancelledLoaders, InTurn, PcType
  <2> QED
    BY <1>7, <2>1, <2>2, <2>3, <2>4, <2>5, <2>6, <2>7, <2>8, <2>9 DEF LoaderStep
<1>8. ASSUME NEW t \in CheckId, CheckStep(t) PROVE InTurn'
  <2>1. CASE CheckEnds(t)  BY <2>1 DEF CheckEnds, loaderVars, InTurn
  <2>2. CASE CheckFailed(t)
    BY <1>1, <2>2 DEF CheckFailed, FreeSlot, Woken, InTurn
  <2>3. CASE CheckPassed(t)
    BY <1>1, <2>3 DEF CheckPassed, FreeSlot, Woken, CancelledLoaders, InTurn
  <2> QED  BY <1>8, <2>1, <2>2, <2>3 DEF CheckStep
<1> QED  BY <1>2, <1>3, <1>4, <1>5, <1>6, <1>7, <1>8 DEF Next

\* A marker stays where it is.
LEMMA MarkerStays ==
  ASSUME TypeOK, [Next]_vars, EndOfStream
  PROVE  EndOfStream'
<1>1. CASE Leaves  BY <1>1 DEF Leaves, EndOfStream
<1>2. CASE Marks  BY <1>2, PushStreams DEF Marks, TypeOK
<1>3. ASSUME NEW a \in Addr, Puts(a) PROVE EndOfStream'
  BY <1>3, PushStreams DEF Puts, TypeOK
<1> QED  BY <1>1, <1>2, <1>3, StreamEffects

\* _done() leaves nobody but the loader that called it.
LEMMA DoneReaches ==
  ASSUME TypeOK, InTurn, NEW self, active \in {None, self},
         NEW m \in Loaders \ {self}
  PROVE  /\ CancelledLoaders(pc, self)[m] \in Over \cup {"off"}
         /\ CancelledLoaders(Woken, self)[m] \in Over \cup {"off"}
<1>1. pc \in PcType /\ m # None  BY BrokerAssumption DEF TypeOK, LoadersOK
<1>2. pc[m] \notin {"wave", "handle", "created"}  BY <1>1 DEF InTurn
<1>3. pc[m] \in Waiting \cup Over \cup {"off"}  BY <1>1, <1>2 DEF PcType
<1>4. Woken[m] \in Waiting \cup Over \cup {"off"}  BY <1>3 DEF Woken, Waiting
<1> QED  BY <1>3, <1>4 DEF CancelledLoaders, Over

\* Every step keeps that whoever ends takes all with it.
LEMMA ReachesAllStep ==
  ASSUME TypeOK, LimitInv, InTurn, ReachesAll, [Next]_vars
  PROVE  ReachesAll'
<1> None \notin Loaders /\ "grab" \in Loaders  BY BrokerAssumption DEF Loaders
<1>1. pc \in PcType  BY DEF TypeOK, LoadersOK
<1>2. EndOfStream => EndOfStream'  BY MarkerStays
<1> USE DEF ReachesAll, Reached, Unaware, AtRest
<1>3. CASE FindRaises \/ Autosave \/ Forget \/ (\E p \in Provider : FetchEnds(p)) \/ UNCHANGED vars
  BY <1>2, <1>3 DEF FindRaises, Autosave, Forget, FetchEnds, loaderVars, vars
<1>4. CASE Find
  <2>1. \A l \in Loaders : pc'[l] \in {"ready", "off"}  BY <1>4 DEF Find, Loaders
  <2> QED  BY <1>4, <2>1 DEF Find, InTurn
<1>5. CASE Stop
  <2>1. EndOfStream'  BY <1>5, PushStreams DEF Stop, TypeOK
  <2>2. active = None /\ pc' = CancelledLoaders(pc, None)  BY <1>5 DEF Stop
  <2>3. \A l \in Loaders : pc'[l] \in Over \cup {"off"}  BY <2>2, DoneReaches
  <2> QED  BY <2>1, <2>3
<1>6. CASE Take
  BY <1>1, <1>2, <1>6 DEF Take, Over, InTurn, PcType
<1>7. CASE GrabStep
  BY <1>1, <1>2, <1>7 DEF GrabStep, StartWave, AwaitProvider, PassEnds, NextPass, NextProvider,
                          Goto, Suspend, InTurn, PcType, Over
<1>8. ASSUME NEW l \in Loaders, LoaderStep(l) PROVE ReachesAll'
  <2>1. CASE Begin(l) \/ BatchEnds(l)
    BY <1>1, <1>2, <2>1 DEF Begin, BatchEnds, Goto, InTurn, PcType, Over
  <2>2. CASE SkipDead(l)  BY <1>2, <2>2 DEF SkipDead
  <2>3. CASE Handle(l)  BY <1>1, <1>2, <2>3 DEF Handle, Goto, Suspend, InTurn, PcType, Over
  <2>4. CASE ResolverRaises(l)  BY <1>1, <1>2, <2>4 DEF ResolverRaises, InTurn, PcType, Over
  <2>5. CASE CreateFails(l) \/ Reject(l)
    BY <1>1, <1>2, <2>5 DEF CreateFails, Reject, Goto, InTurn, PcType, Over
  <2>6. CASE Admit(l)  BY <1>1, <1>2, <2>6 DEF Admit, Goto, Suspend, InTurn, PcType, Over
  <2>7. CASE Deliver(l) /\ HitsLimit
    <3>1. PICK a \in Fresh(hand[l]) : PushToResult(a)  BY <2>7 DEF Deliver
    <3>2. a \in Addr /\ a # None
      BY <3>1, CreatedType, BrokerAssumption DEF Cand
    <3>3. EndOfStream'  BY <1>2, <2>7, <3>1, <3>2, PushStreams DEF TypeOK
    <3>4. /\ active \in {None, l} /\ active' = l /\ doomed'
          /\ pc' = [CancelledLoaders(pc, l) EXCEPT ![l] = "handle"]
      BY <2>7 DEF Deliver
    <3>5. \A m \in Loaders \ {l} : pc'[m] \in Over \cup {"off"}
      BY <3>4, DoneReaches
    <3> QED  BY <3>3, <3>4, <3>5
  <2>8. CASE Deliver(l) /\ ~HitsLimit
    BY <1>1, <1>2, <2>8 DEF Deliver, InTurn, PcType, Over
  <2>9. CASE AwaitSlot(l) \/ StartCheck(l) \/ Join(l)
    BY <1>1, <1>2, <2>9 DEF AwaitSlot, StartCheck, Join, Goto, Suspend, InTurn, PcType, Over
  <2>10. CASE Finish(l)
    <3>1. EndOfStream'  BY <2>10, PushStreams DEF Finish, TypeOK
    <3>2. /\ active \in {None, l}
          /\ pc' = [CancelledLoaders(pc, l) EXCEPT ![l] = "ended"]
      BY <2>10 DEF Finish
    <3>3. \A m \in Loaders \ {l} : pc'[m] \in Over \cup {"off"}
      BY <3>2, DoneReaches
    <3>4. pc'[l] \in Over  BY <1>1, <3>2 DEF CancelledLoaders, Over
    <3> QED  BY <3>1, <3>3, <3>4
  <2> QED
    BY <1>8, <2>1, <2>2, <2>3, <2>4, <2>5, <2>6, <2>7, <2>8, <2>9, <2>10 DEF LoaderStep
<1>9. ASSUME NEW t \in CheckId, CheckStep(t) PROVE ReachesAll'
  <2>1. CASE CheckEnds(t)  BY <1>2, <2>1 DEF CheckEnds, loaderVars
  <2>2. CASE CheckFailed(t)
    BY <1>1, <1>2, <2>2 DEF CheckFailed, FreeSlot, Woken, InTurn, PcType, Over
  <2>3. CASE CheckPassed(t) /\ HitsLimit
    <3> DEFINE a == checks[t].addr
    <3>1. a \in Addr /\ a # None
      BY <2>3, CheckAddress, BrokerAssumption DEF CheckPassed, TypeOK, Cand
    <3>2. PushToResult(a) /\ active = None /\ pc' = CancelledLoaders(Woken, None)
      BY <2>3 DEF CheckPassed, FreeSlot
    <3> HIDE DEF a
    <3>3. EndOfStream'  BY <1>2, <2>3, <3>1, <3>2, PushStreams DEF TypeOK
    <3>4. \A l \in Loaders : pc'[l] \in Over \cup {"off"}  BY <3>2, DoneReaches
    <3> QED  BY <3>3, <3>4
  <2>4. CASE CheckPassed(t) /\ ~HitsLimit
    BY <1>1, <1>2, <2>4 DEF CheckPassed, FreeSlot, Woken, InTurn, PcType, Over
  <2> QED  BY <1>9, <2>1, <2>2, <2>3, <2>4 DEF CheckStep
<1> QED  BY <1>3, <1>4, <1>5, <1>6, <1>7, <1>8, <1>9 DEF Next

\* Every step keeps that discovery waits for fetches that answer.
LEMMA FetchesAnswerStep ==
  ASSUME TypeOK, LimitInv, InTurn, ReachesAll, FetchesAnswer, [Next]_vars
  PROVE  FetchesAnswer'
<1> None \notin Loaders /\ "grab" \in Loaders  BY BrokerAssumption DEF Loaders
<1>1. pc \in PcType /\ fetch \in FetchType  BY DEF TypeOK, LoadersOK, RestOK
<1>2. calling => active = None /\ \A l \in Loaders : pc[l] = "off"
  BY DEF LimitInv, Nothing
<1> USE DEF FetchesAnswer, AtRest, Unaware
<1>3. ASSUME UNCHANGED <<calling, fetch>>, AtRest("grab") \/ Unaware("grab")
                                           => AtRest("grab")' \/ Unaware("grab")',
             pc'["grab"] = "fetch" /\ active' # "grab" => pc["grab"] = "fetch" /\ active # "grab"
      PROVE  FetchesAnswer'
  BY <1>3
<1>4. ASSUME fetch' = CancelledFetches, calling' = calling, AtRest("grab")' \/ Unaware("grab")',
             pc'["grab"] = "fetch" => active' = "grab"
      PROVE  FetchesAnswer'
  BY <1>4 DEF CancelledFetches
<1>5. CASE FindRaises \/ Autosave \/ Forget \/ UNCHANGED vars
  BY <1>2, <1>5 DEF FindRaises, Autosave, Forget, loaderVars, vars
<1>6. CASE Find
  <2>1. \A l \in Loaders : pc'[l] \in {"ready", "off"}  BY <1>6 DEF Find, Loaders
  <2> QED  BY <1>6, <2>1 DEF Find
<1>7. CASE Stop
  <2>1. active = None /\ pc' = CancelledLoaders(pc, None)  BY <1>7 DEF Stop
  <2>2. pc'["grab"] \in Over \cup {"off"}  BY <2>1, DoneReaches
  <2> QED  BY <1>4, <1>7, <2>2 DEF Stop, Over
<1>8. CASE Take
  BY <1>1, <1>3, <1>8 DEF Take, Over, PcType
<1>9. ASSUME NEW p \in Provider, FetchEnds(p) PROVE FetchesAnswer'
  <2>1. fetch' = [fetch EXCEPT ![p] = "ready"]  BY <1>9 DEF FetchEnds
  <2>2. \A q \in Provider : fetch'[q] = IF q = p THEN "ready" ELSE fetch[q]
    BY <1>1, <2>1 DEF FetchType
  <2> QED  BY <1>2, <1>9, <2>2 DEF FetchEnds, loaderVars
<1>10. CASE GrabStep
  <2>1. ~calling /\ calling' = calling
    BY <1>2, <1>10 DEF GrabStep, StartWave, AwaitProvider, PassEnds, NextPass, NextProvider
  <2>2. CASE StartWave
    BY <1>1, <2>1, <2>2 DEF StartWave, Goto, Over, PcType
  <2>3. CASE AwaitProvider
    BY <1>1, <2>1, <2>3 DEF AwaitProvider, Goto, Suspend, Over, PcType
  <2>4. CASE PassEnds
    BY <1>1, <2>1, <2>4 DEF PassEnds, Goto, Suspend, Over, PcType
  <2>5. CASE NextPass
    BY <1>1, <2>1, <2>5 DEF NextPass, Goto, PcType
  <2>6. ASSUME NEW p \in Provider, NextProvider(p) PROVE FetchesAnswer'
    BY <1>1, <2>1, <2>6 DEF NextProvider, Goto, Over, PcType, FetchType
  <2> QED  BY <1>10, <2>2, <2>3, <2>4, <2>5, <2>6 DEF GrabStep
<1>11. ASSUME NEW l \in Loaders, LoaderStep(l) PROVE FetchesAnswer'
  <2>1. CASE Begin(l) \/ BatchEnds(l)
    BY <1>1, <1>3, <2>1 DEF Begin, BatchEnds, Goto, PcType, Over
  <2>2. CASE SkipDead(l)  BY <1>3, <2>2 DEF SkipDead
  <2>3. CASE Handle(l)
    BY <1>1, <1>3, <2>3 DEF Handle, Goto, Suspend, PcType, Over
  <2>4. CASE ResolverRaises(l)  BY <1>1, <1>3, <2>4 DEF ResolverRaises, PcType, Over
  <2>5. CASE CreateFails(l) \/ Reject(l)
    BY <1>1, <1>3, <2>5 DEF CreateFails, Reject, Goto, PcType, Over
  <2>6. CASE Admit(l)  BY <1>1, <1>3, <2>6 DEF Admit, Goto, Suspend, PcType, Over
  <2>7. CASE Deliver(l) /\ HitsLimit
    <3>1. /\ active \in {None, l} /\ active' = l /\ doomed' /\ calling' = calling
          /\ fetch' = CancelledFetches
          /\ pc' = [CancelledLoaders(pc, l) EXCEPT ![l] = "handle"]
      BY <2>7 DEF Deliver
    <3>2. CASE l = "grab"
      <4>1. pc'["grab"] = "handle"  BY <3>1, <3>2 DEF CancelledLoaders
      <4> QED  BY <1>4, <3>1, <3>2, <4>1
    <3>3. CASE l # "grab"
      <4>1. CancelledLoaders(pc, l)["grab"] \in Over \cup {"off"}  BY <3>1, <3>3, DoneReaches
      <4>2. pc'["grab"] \in Over \cup {"off"}  BY <3>1, <3>3, <4>1
      <4> QED  BY <1>4, <3>1, <4>2 DEF Over
    <3> QED  BY <3>2, <3>3
  <2>8. CASE Deliver(l) /\ ~HitsLimit
    BY <1>1, <1>3, <2>8 DEF Deliver, PcType, Over
  <2>9. CASE AwaitSlot(l) \/ StartCheck(l) \/ Join(l)
    BY <1>1, <1>3, <2>9 DEF AwaitSlot, StartCheck, Join, Goto, Suspend, PcType, Over
  <2>10. CASE Finish(l)
    <3>1. /\ active \in {None, l} /\ fetch' = CancelledFetches /\ calling' = calling
          /\ pc' = [CancelledLoaders(pc, l) EXCEPT ![l] = "ended"]
      BY <2>10 DEF Finish
    <3>2. pc'["grab"] \in Over \cup {"off"}
      <4>1. CASE l = "grab"  BY <3>1, <4>1 DEF CancelledLoaders, Over
      <4>2. CASE l # "grab"
        <5>1. CancelledLoaders(pc, l)["grab"] \in Over \cup {"off"}
          BY <3>1, <4>2, DoneReaches
        <5> QED  BY <3>1, <4>2, <5>1
      <4> QED  BY <4>1, <4>2
    <3> QED  BY <1>4, <3>1, <3>2 DEF Over
  <2> QED
    BY <1>11, <2>1, <2>2, <2>3, <2>4, <2>5, <2>6, <2>7, <2>8, <2>9, <2>10 DEF LoaderStep
<1>12. ASSUME NEW t \in CheckId, CheckStep(t) PROVE FetchesAnswer'
  <2>1. CASE CheckEnds(t)  BY <1>3, <2>1 DEF CheckEnds, loaderVars
  <2>2. CASE CheckFailed(t)
    BY <1>1, <1>3, <2>2 DEF CheckFailed, FreeSlot, Woken, PcType, Over
  <2>3. CASE CheckPassed(t) /\ HitsLimit
    <3>1. /\ active = None /\ pc' = CancelledLoaders(Woken, None)
          /\ fetch' = CancelledFetches /\ calling' = calling
      BY <2>3 DEF CheckPassed, FreeSlot
    <3>2. pc'["grab"] \in Over \cup {"off"}  BY <3>1, DoneReaches
    <3> QED  BY <1>4, <3>1, <3>2 DEF Over
  <2>4. CASE CheckPassed(t) /\ ~HitsLimit
    BY <1>1, <1>3, <2>4 DEF CheckPassed, FreeSlot, Woken, PcType, Over
  <2> QED  BY <1>12, <2>1, <2>2, <2>3, <2>4 DEF CheckStep
<1> QED
  BY <1>5, <1>6, <1>7, <1>8, <1>9, <1>10, <1>11, <1>12 DEF Next

\* Wherever asyncio comes to rest, for any number of providers, candidates, checks
\* and calls of stop(), no coroutine is left waiting for another one (api.py:560,
\* 663, 735, 790): the broker never began, or it has ended with its marker and
\* all its loaders, or what is left waits for the consumer or failed.
THEOREM RestsAtTheEnd == Spec => []RestIsEnd
<1>1. Init => RestInv
  <2> SUFFICES ASSUME Init PROVE RestInv  OBVIOUS
  <2>1. None \notin Loaders /\ \A l \in Loaders : pc[l] \in {"off", "ready"}
    BY BrokerAssumption DEF Init
  <2>2. \A p \in Provider : fetch[p] = "idle"  BY DEF Init
  <2> QED
    BY <2>1, <2>2 DEF Init, RestInv, InTurn, ReachesAll, Reached, FetchesAnswer, Loaders
<1>2. TypeOK /\ LimitInv /\ RestInv /\ [Next]_vars => RestInv'
  BY InTurnStep, ReachesAllStep, FetchesAnswerStep DEF RestInv
<1>3. TypeOK /\ SlotAccounting /\ NoLostWakeup /\ RestInv => RestIsEnd
  <2> SUFFICES ASSUME TypeOK, SlotAccounting, NoLostWakeup, RestInv, Resting
               PROVE  \/ \A l \in Loaders : pc[l] = "off"
                      \/ EndOfStream /\ \A l \in Loaders : AtRest(l)
                      \/ /\ \A l \in Loaders :
                               AtRest(l) \/ (pc[l] = "pause" /\ taken < Len(results))
                         /\ \E l \in Loaders : pc[l] \in {"raised", "pause"}
    BY DEF RestIsEnd
  <2>1. None \notin Loaders /\ active = None  BY BrokerAssumption DEF Resting
  <2>2. slots = 0 /\ unfinished = 0
    BY FS_EmptySet DEF Resting, SlotAccounting
  <2>3. ASSUME NEW l \in Loaders
        PROVE  AtRest(l) \/ (pc[l] = "pause" /\ taken < Len(results))
    <3>1. pc[l] \in Waiting \cup Over \cup {"off", "wave", "handle", "created"}
      BY DEF TypeOK, LoadersOK, PcType
    <3>2. pc[l] \notin {"wave", "handle", "created"}  BY <2>1 DEF RestInv, InTurn
    <3>3. pc[l] # "put"  BY <2>2, BrokerAssumption DEF Resting
    <3>4. pc[l] # "join"  BY <2>1, <2>2 DEF NoLostWakeup
    <3>5. pc[l] # "fetch"
      <4> SUFFICES ASSUME pc[l] = "fetch" PROVE FALSE  OBVIOUS
      <4>1. l = "grab"  BY DEF RestInv, InTurn
      <4>2. \E p \in Provider : fetch[p] \in {"running", "ready"}
        BY <2>1, <4>1 DEF RestInv, FetchesAnswer
      <4> QED  BY <4>1, <4>2 DEF Resting
    <3>6. pc[l] = "pause" => taken < Len(results)  BY DEF NoLostWakeup
    <3> QED  BY <3>1, <3>2, <3>3, <3>4, <3>5, <3>6 DEF Resting, AtRest, Waiting
  <2>4. CASE \E l \in Loaders : pc[l] \in {"ended", "cancelled"}
    BY <2>1, <2>4 DEF RestInv, ReachesAll, Reached, Unaware
  <2>5. CASE \A l \in Loaders : pc[l] \notin {"ended", "cancelled"}
    BY <2>3, <2>5 DEF AtRest, Over
  <2> QED  BY <2>4, <2>5
<1> QED
  BY <1>1, <1>2, <1>3, TypeCorrect, SlotsCorrect, LimitInvariant, WaitersAreWoken, PTL DEF Spec

-----------------------------------------------------------------------------
(* The negative cache, seen from the broker. *)

Cache == INSTANCE DeadSet WITH Key <- Addr

\* The broker asks no more of the cache than DeadSet grants, which NegativeCache
\* implements: whichever of its entries are gone at whatever time, and however
\* loaders and callbacks interleave, its `dead' is one of the cache's behaviours.
LEMMA DeadIsADeadSet == Spec => Cache!Spec
<1>1. Init => Cache!Init  BY DEF Init, Cache!Init
<1>2. TypeOK /\ [Next]_vars => [Cache!Next]_dead
  <2> SUFFICES ASSUME TypeOK, [Next]_vars
               PROVE  UNCHANGED dead \/ Cache!Forget \/ \E k \in Addr : Cache!Remember(k)
    BY DEF Cache!Next
  <2>1. CASE Find \/ FindRaises \/ Stop \/ Autosave \/ Take \/ UNCHANGED vars
    BY <2>1 DEF Find, FindRaises, Stop, Autosave, Take, vars
  <2>2. CASE Forget  BY <2>2 DEF Forget, Cache!Forget
  <2>3. CASE GrabStep \/ \E p \in Provider : FetchEnds(p)
    BY <2>3 DEF GrabStep, StartWave, AwaitProvider, PassEnds, NextPass, NextProvider, FetchEnds
  <2>4. ASSUME NEW l \in Loaders, LoaderStep(l) PROVE UNCHANGED dead
    BY <2>4 DEF LoaderStep, Begin, BatchEnds, SkipDead, Handle, ResolverRaises, CreateFails,
                Reject, Admit, Deliver, AwaitSlot, StartCheck, Join, Finish
  <2>5. ASSUME NEW t \in CheckId, CheckFailed(t)
        PROVE  UNCHANGED dead \/ (Cache!Remember(checks[t].addr) /\ checks[t].addr \in Addr)
    BY <2>5, CheckAddress DEF CheckFailed, Cache!Remember, TypeOK
  <2>6. ASSUME NEW t \in CheckId, CheckEnds(t) \/ CheckPassed(t) PROVE UNCHANGED dead
    BY <2>6 DEF CheckEnds, CheckPassed
  <2> QED  BY <2>1, <2>2, <2>3, <2>4, <2>5, <2>6 DEF Next, CheckStep
<1> QED  BY <1>1, <1>2, TypeCorrect, PTL DEF Spec, Cache!Spec
=============================================================================
