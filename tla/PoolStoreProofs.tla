--------------------------- MODULE PoolStoreProofs ----------------------------
(* Theorems about PoolStore for any number of runs, proxies and seconds. *)
EXTENDS PoolStore, TLAPS

\* What makes a save atomic for its readers: a file about to be moved into
\* place is complete, and it is never empty.
SaveInHand ==
  \A r \in Run :
    /\ run[r] \in {"dump", "replace"} => payload[r] # {}
    /\ run[r] = "replace" => tmp[r] = Holding(payload[r])

StoreInv == TypeOK /\ SaveInHand

\* What the constructors of files make.
LEMMA Files ==
  /\ \A kind \in {"absent", "empty", "truncated", "foreign"} : NotWhole(kind) \in File
  /\ \A es \in SUBSET Entry : Holding(es) \in File
  /\ Absent \in File
BY DEF File, NotWhole, Holding, Absent

\* The invariant holds before the first run.
LEMMA StoreInit == Init => StoreInv
<1> SUFFICES ASSUME Init PROVE StoreInv  OBVIOUS
<1>1. 0 \in Time  BY StoreAssumption DEF Time
<1>2. TypeOK  BY <1>1, Files DEF Init, TypeOK
<1>3. SaveInHand  BY DEF Init, SaveInHand
<1> QED  BY <1>2, <1>3 DEF StoreInv

\* The step of one run keeps the invariant if it keeps the types and that
\* run's part of it.
LEMMA OneRun ==
  ASSUME StoreInv, TypeOK', NEW r \in Run,
         \A s \in Run : s # r => run'[s] = run[s] /\ tmp'[s] = tmp[s] /\ payload'[s] = payload[s],
         run'[r] \in {"dump", "replace"} => payload'[r] # {},
         run'[r] = "replace" => tmp'[r] = Holding(payload'[r])
  PROVE  StoreInv'
BY DEF StoreInv, SaveInHand

\* The invariant is inductive.
LEMMA StoreStep == StoreInv /\ [Next]_vars => StoreInv'
<1> SUFFICES ASSUME StoreInv, [Next]_vars PROVE StoreInv'  OBVIOUS
<1>1. /\ file \in File /\ tmp \in [Run -> File]
      /\ run \in [Run -> {"down", "up", "dump", "replace"}]
      /\ verified \in [Run -> SUBSET Addr]
      /\ payload \in [Run -> SUBSET Entry] /\ loaded \in [Run -> SUBSET Entry]
      /\ now \in Time
  BY DEF StoreInv, TypeOK
<1>2. CASE Tick
  <2>1. now' \in Time  BY <1>1, <1>2, StoreAssumption DEF Tick, Time
  <2>2. TypeOK'  BY <1>1, <1>2, <2>1 DEF Tick, TypeOK
  <2> QED  BY <1>2, <2>2 DEF Tick, StoreInv, SaveInHand
<1>3. ASSUME NEW r \in Run, Load(r) PROVE StoreInv'
  <2>1. file.es \subseteq Entry  BY <1>1 DEF File
  <2>2. loaded' \in [Run -> SUBSET Entry]  BY <1>1, <1>3, <2>1 DEF Load
  <2>3. TypeOK'  BY <1>1, <1>3, <2>2 DEF Load, TypeOK
  <2> QED  BY <1>1, <1>3, <2>3, OneRun DEF Load
<1>4. ASSUME NEW r \in Run, NEW a \in Addr, Verify(r, a) PROVE StoreInv'
  <2>1. TypeOK'  BY <1>1, <1>4 DEF Verify, TypeOK
  <2> QED  BY <1>4, <2>1 DEF Verify, StoreInv, SaveInHand
<1>5. ASSUME NEW r \in Run, Save(r) PROVE StoreInv'
  <2>1. Stamped(r) \in SUBSET Entry /\ Stamped(r) # {}
    BY <1>1, <1>5 DEF Save, Stamped, Entry
  <2>2. TypeOK'  BY <1>1, <1>5, <2>1, Files DEF Save, TypeOK
  <2> QED  BY <1>1, <1>5, <2>1, <2>2, OneRun DEF Save
<1>6. ASSUME NEW r \in Run, Write(r) PROVE StoreInv'
  <2>1. TypeOK'  BY <1>1, <1>6, Files DEF Write, TypeOK
  <2>2. payload[r] # {}  BY <1>6 DEF Write, StoreInv, SaveInHand
  <2> QED  BY <1>1, <1>6, <2>1, <2>2, OneRun DEF Write
<1>7. ASSUME NEW r \in Run, Close(r) PROVE StoreInv'
  <2>1. TypeOK'  BY <1>1, <1>7, Files DEF Close, TypeOK
  <2>2. payload[r] # {}  BY <1>7 DEF Close, StoreInv, SaveInHand
  <2> QED  BY <1>1, <1>7, <2>1, <2>2, OneRun DEF Close
<1>8. ASSUME NEW r \in Run, Replace(r) PROVE StoreInv'
  <2>1. TypeOK'  BY <1>1, <1>8, Files DEF Replace, TypeOK
  <2> QED  BY <1>1, <1>8, <2>1, OneRun DEF Replace
<1>9. ASSUME NEW r \in Run, SaveFails(r) PROVE StoreInv'
  <2>1. TypeOK'  BY <1>1, <1>9, Files DEF SaveFails, TypeOK
  <2> QED  BY <1>1, <1>9, <2>1, OneRun DEF SaveFails
<1>10. ASSUME NEW r \in Run, Crash(r) PROVE StoreInv'
  <2>1. TypeOK'  BY <1>1, <1>10, Files DEF Crash, TypeOK
  <2> QED  BY <1>1, <1>10, <2>1, OneRun DEF Crash
<1>11. CASE UNCHANGED vars
  BY <1>11 DEF vars, StoreInv, TypeOK, SaveInHand
<1> QED  BY <1>2, <1>3, <1>4, <1>5, <1>6, <1>7, <1>8, <1>9, <1>10, <1>11 DEF Next

\* The invariant holds in every behaviour.
THEOREM StoreInvariant == Spec => []StoreInv
<1> QED  BY StoreInit, StoreStep, PTL DEF Spec

\* Only the rename touches the pool file, and what it moves there is complete.
LEMMA FileSteps ==
  ASSUME StoreInv, [Next]_vars
  PROVE  \/ file' = file
         \/ \E r \in Run : file' = Holding(payload[r]) /\ payload[r] # {} /\ payload' = payload
<1>1. ASSUME NEW r \in Run, Replace(r)
      PROVE  file' = Holding(payload[r]) /\ payload[r] # {} /\ payload' = payload
  BY <1>1 DEF Replace, StoreInv, SaveInHand
<1> QED
  BY <1>1 DEF Next, vars, Tick, Load, Verify, Save, Write, Close, SaveFails, Crash

\* No crash, file system error or second run between two steps of a save
\* (pool_store.py:102) takes a pool away that a run could start from.
THEOREM StorePoolSurvives == Spec => PoolSurvives
<1>1. StoreInv /\ [Next]_vars => [Whole(file) => Whole(file')]_vars
  BY FileSteps DEF Whole, Holding
<1> QED  BY <1>1, StoreInvariant, PTL DEF Spec, PoolSurvives

\* A save happens at one instant or not at all: the file implements the register
\* for which Broker takes it.
THEOREM StoreRefines == Spec => ImplementsRegister
<1>1. Init => Register!Init
  BY DEF Init, Register!Init, Absent, NotWhole
<1>2. StoreInv /\ [Next]_vars =>
        [\E r \in Run : Register!Offer(r) \/ Register!Replace(r)]_(Register!vars)
  <2> SUFFICES ASSUME StoreInv, [Next]_vars, ~UNCHANGED Register!vars
               PROVE  \E r \in Run : Register!Offer(r) \/ Register!Replace(r)
    OBVIOUS
  <2>1. CASE payload' = payload
    <3>1. PICK r \in Run : file' = Holding(payload[r]) /\ payload[r] # {}
      BY <2>1, FileSteps DEF Register!vars
    <3> QED  BY <2>1, <3>1 DEF Register!Replace, Holding
  <2>2. CASE payload' # payload
    <3>1. PICK r \in Run : Save(r)
      BY <2>2 DEF Next, vars, Tick, Load, Verify, Write, Close, Replace, SaveFails, Crash
    <3>2. now \in Time /\ verified \in [Run -> SUBSET Addr]  BY DEF StoreInv, TypeOK
    <3>3. Stamped(r) \in (SUBSET Entry) \ {{}}  BY <3>1, <3>2 DEF Save, Stamped, Entry
    <3> QED  BY <3>1, <3>3 DEF Save, Register!Offer
  <2> QED  BY <2>1, <2>2
<1> QED  BY <1>1, <1>2, StoreInvariant, PTL DEF Spec, ImplementsRegister, Register!Spec
=============================================================================
