------------------------- MODULE BackendCacheProofs -------------------------
(***************************************************************************)
(* The cache of automatic detection and the pin of a loaded conpty.dll,    *)
(* for any number of threads, deployments and faults.  Exclusion is what   *)
(* makes one detection at a time: a thread is between its second look at   *)
(* the cache and the end of detect() exactly while it holds the mutex,     *)
(* poisoned or not.  Alive is what keeps code mapped: whoever holds a      *)
(* clone holds one of a BackendInner that has not been freed, and          *)
(* ReferencesBalance then gives that inner its LoadLibraryExW reference.   *)
(***************************************************************************)
EXTENDS BackendCache, TLAPS

InConstructor == {"recheck", "probe", "load", "resolve", "system"}

Exclusion ==
  \A t \in Threads :
    /\ lock = t <=> want[t] = "auto" /\ pc[t] \in InConstructor
    /\ pc[t] \in {"get", "lock", "recheck"} => want[t] = "auto"
    /\ Detecting(t) => value = None

Alive ==
  /\ value # None => kind[value] # "free"
  /\ \A t \in Threads :
       /\ own[t] # None <=> pc[t] \in {"have", "call"}
       /\ own[t] # None => kind[own[t]] # "free"
       /\ worker[t] # None => kind[worker[t]] # "free"

IInv == TypeOK /\ Exclusion /\ Alive /\ ReferencesBalance /\ SingleDefault

(* Nobody has asked for a backend, nothing is loaded.                      *)
LEMMA InitInv == Init => IInv
<1> SUFFICES ASSUME Init PROVE IInv
  OBVIOUS
<1> USE NoneIsNothing DEF Init
<1>1. TypeOK
  BY DEF TypeOK, Bundles
<1>2. Exclusion /\ Alive /\ SingleDefault
  BY DEF Exclusion, Alive, SingleDefault, Detecting, InConstructor
<1>3. ReferencesBalance
  BY DEF ReferencesBalance
<1>4. QED
  BY <1>1, <1>2, <1>3 DEF IInv

(* Every step keeps the variables typed.                                   *)
LEMMA TypeStep == TypeOK /\ [Next]_vars => TypeOK'
<1> SUFFICES ASSUME TypeOK, [Next]_vars PROVE TypeOK'
  OBVIOUS
<1> USE BoundsAreNaturals DEF TypeOK, world, cache, memory, thread, Goto, Bundles
<1>1. ASSUME NEW t \in Threads, NEW w \in {"auto", "dir"}, Call(t, w) PROVE TypeOK'
  BY <1>1 DEF Call
<1>2. ASSUME NEW t \in Threads, Get(t) \/ Recheck(t) \/ Acquire(t) PROVE TypeOK'
  BY <1>2 DEF Get, Recheck, Acquire, TakeCached
<1>3. ASSUME NEW t \in Threads, Probe(t) \/ Load(t) \/ LoadFails(t) \/ ResolveFails(t)
      PROVE  TypeOK'
  BY <1>3 DEF Probe, Load, LoadFails, ResolveFails, Reject, Fail, Unlock, DropReference
<1>4. ASSUME NEW t \in Threads, NEW i \in Inners, NEW k \in {"system", "external"},
             Succeed(t, i, k), UNCHANGED <<world, want, image, worker>>,
             guards' \subseteq Threads \cup Inners
      PROVE  TypeOK'
  BY <1>4 DEF Succeed, Remember, Unlock
<1>5. ASSUME NEW t \in Threads, Resolve(t) PROVE TypeOK'
  <2>1. PICK i \in Inners :
          Succeed(t, i, "external") /\ guards' = (guards \ {t}) \cup {i}
    BY <1>5 DEF Resolve
  <2>2. UNCHANGED <<world, want, image, worker>>
    BY <1>5 DEF Resolve
  <2>3. guards' \subseteq Threads \cup Inners
    BY <2>1
  <2>4. QED
    BY <1>4, <2>1, <2>2, <2>3
<1>6. ASSUME NEW t \in Threads, System(t) PROVE TypeOK'
  <2>1. PICK i \in Inners : Succeed(t, i, "system")
    BY <1>6 DEF System
  <2>2. UNCHANGED <<world, want, image, worker>>
    BY <1>6 DEF System
  <2>3. guards' \subseteq Threads \cup Inners
    BY <1>6 DEF System
  <2>4. QED
    BY <1>4, <2>1, <2>2, <2>3
<1>7. ASSUME NEW t \in Threads, SystemUnsupported(t) PROVE TypeOK'
  BY <1>7 DEF SystemUnsupported, Fail, Unlock
<1>8. ASSUME NEW t \in Threads, Panic(t) PROVE TypeOK'
  <2>1. poisoned' \in BOOLEAN
    BY <1>8 DEF Panic
  <2>2. faults' \in Nat
    BY <1>8 DEF Panic
  <2>3. guards' \subseteq Threads \cup Inners /\ pc' = [pc EXCEPT ![t] = "idle"]
    BY <1>8 DEF Panic
  <2>4. lock' \in Threads \cup {None}
    BY <1>8 DEF Panic, Unlock
  <2>5. UNCHANGED <<bundle, supported, deployments, value, kind, want, image, own, worker>>
    BY <1>8 DEF Panic
  <2>6. QED
    BY <2>1, <2>2, <2>3, <2>4, <2>5
<1>9. ASSUME NEW t \in Threads, Enter(t) \/ Return(t) \/ DetachClose(t) PROVE TypeOK'
  BY <1>9 DEF Enter, Return, DetachClose
<1>10. ASSUME NEW t \in Threads, WorkerReturns(t) \/ Drop(t) PROVE TypeOK'
  BY <1>10 DEF WorkerReturns, Drop, DropClone
<1>11. CASE Deploy \/ UNCHANGED vars
  BY <1>11 DEF Deploy, vars
<1>12. QED
  BY <1>1, <1>2, <1>3, <1>5, <1>6, <1>7, <1>8, <1>9, <1>10, <1>11
     DEF Next, Constructs

(* A new BackendInner goes where no clone pointed.                         *)
LEMMA SucceedKeeps ==
  ASSUME IInv, NEW t \in Threads, NEW i \in Inners, NEW k \in {"system", "external"},
         pc[t] \in {"resolve", "system"}, kind[i] = "free", Succeed(t, i, k),
         UNCHANGED <<want, worker>>, TypeOK'
  PROVE  Exclusion' /\ Alive' /\ SingleDefault'
<1> USE NoneIsNothing DEF IInv, TypeOK, InConstructor, Detecting
<1>1. CASE want[t] = "auto"
  <2>1. lock = t /\ value = None /\ value' = i /\ lock' = None /\ own'[t] = i
    BY <1>1 DEF Exclusion, Succeed, Remember, Unlock
  <2>2. pc' = [pc EXCEPT ![t] = "have"] /\ own' = [own EXCEPT ![t] = i]
    BY <1>1, <2>1 DEF Succeed, Goto
  <2>3. Exclusion'
    BY <1>1, <2>1, <2>2 DEF Exclusion
  <2>4. Alive'
    BY <2>1, <2>2 DEF Alive, Succeed
  <2>5. SingleDefault'
    BY <1>1, <2>1, <2>2 DEF SingleDefault, Alive
  <2>6. QED
    BY <2>3, <2>4, <2>5
<1>2. CASE want[t] # "auto"
  <2>1. /\ UNCHANGED <<value, lock>>
        /\ pc' = [pc EXCEPT ![t] = "have"] /\ own' = [own EXCEPT ![t] = i]
    BY <1>2 DEF Succeed, Goto
  <2>2. Exclusion'
    BY <1>2, <2>1 DEF Exclusion
  <2>3. Alive'
    BY <2>1 DEF Alive, Succeed
  <2>4. SingleDefault'
    BY <1>2, <2>1 DEF SingleDefault
  <2>5. QED
    BY <2>2, <2>3, <2>4
<1>3. QED
  BY <1>1, <1>2

(* Dropping a clone frees nothing somebody else still refers to.           *)
LEMMA DropKeeps ==
  ASSUME IInv, NEW i \in Inners, DropClone(i), TypeOK', UNCHANGED value,
         \A t \in Threads : own'[t] \in {own[t], None} /\ worker'[t] \in {worker[t], None}
  PROVE  /\ value' # None => kind'[value'] # "free"
         /\ \A t \in Threads : /\ own'[t] # None => kind'[own'[t]] # "free"
                               /\ worker'[t] # None => kind'[worker'[t]] # "free"
BY DEF IInv, TypeOK, Alive, DropClone, Clones, memory

(* Every step keeps the lock with the one thread that detects.             *)
LEMMA InvStep == IInv /\ [Next]_vars => Exclusion' /\ Alive' /\ SingleDefault'
<1> SUFFICES ASSUME IInv, [Next]_vars PROVE Exclusion' /\ Alive' /\ SingleDefault'
  OBVIOUS
<1> TypeOK'
  BY TypeStep DEF IInv
<1> USE NoneIsNothing DEF world, cache, memory, thread, Goto
<1>1. ASSUME NEW t \in Threads, NEW w \in {"auto", "dir"}, Call(t, w)
      PROVE  Exclusion' /\ Alive' /\ SingleDefault'
  BY <1>1 DEF Call, IInv, TypeOK, Exclusion, Alive, SingleDefault, InConstructor, Detecting
<1>2. ASSUME NEW t \in Threads, Get(t) PROVE Exclusion' /\ Alive' /\ SingleDefault'
  BY <1>2 DEF Get, TakeCached, IInv, TypeOK, Exclusion, Alive, SingleDefault,
              InConstructor, Detecting
<1>3. ASSUME NEW t \in Threads, Acquire(t) PROVE Exclusion' /\ Alive' /\ SingleDefault'
  BY <1>3 DEF Acquire, LockAvailable, IInv, TypeOK, Exclusion, Alive, SingleDefault,
              InConstructor, Detecting
<1>4. ASSUME NEW t \in Threads, Recheck(t) PROVE Exclusion' /\ Alive' /\ SingleDefault'
  BY <1>4 DEF Recheck, TakeCached, IInv, TypeOK, Exclusion, Alive, SingleDefault,
              InConstructor, Detecting
<1>5. ASSUME NEW t \in Threads, Probe(t) \/ LoadFails(t) \/ ResolveFails(t) \/ Load(t)
      PROVE  Exclusion' /\ Alive' /\ SingleDefault'
  BY <1>5 DEF Probe, LoadFails, ResolveFails, Load, Reject, Fail, Unlock, IInv, TypeOK,
              Exclusion, Alive, SingleDefault, InConstructor, Detecting
<1>6. ASSUME NEW t \in Threads, Resolve(t) \/ System(t)
      PROVE  Exclusion' /\ Alive' /\ SingleDefault'
  BY <1>6, SucceedKeeps DEF Resolve, System
<1>7. ASSUME NEW t \in Threads, SystemUnsupported(t) \/ Panic(t)
      PROVE  Exclusion' /\ Alive' /\ SingleDefault'
  BY <1>7 DEF SystemUnsupported, Panic, Fail, Unlock, IInv, TypeOK, Exclusion, Alive,
              SingleDefault, InConstructor, Detecting
<1>8. ASSUME NEW t \in Threads, Enter(t) \/ Return(t) \/ DetachClose(t)
      PROVE  Exclusion' /\ Alive' /\ SingleDefault'
  BY <1>8 DEF Enter, Return, DetachClose, IInv, TypeOK, Exclusion, Alive, SingleDefault,
              InConstructor, Detecting
<1>9. ASSUME NEW t \in Threads, WorkerReturns(t)
      PROVE  Exclusion' /\ Alive' /\ SingleDefault'
  <2>1. Exclusion' /\ SingleDefault'
    BY <1>9 DEF WorkerReturns, IInv, Exclusion, SingleDefault, Detecting
  <2>2. \A u \in Threads : own'[u] \in {own[u], None} /\ worker'[u] \in {worker[u], None}
    BY <1>9 DEF WorkerReturns, IInv, TypeOK
  <2>3. worker[t] \in Inners /\ DropClone(worker[t]) /\ UNCHANGED <<own, pc, value>>
    BY <1>9 DEF WorkerReturns, IInv, TypeOK
  <2>4. QED
    BY <2>1, <2>2, <2>3, DropKeeps DEF Alive, IInv
<1>10. ASSUME NEW t \in Threads, Drop(t) PROVE Exclusion' /\ Alive' /\ SingleDefault'
  <2>1. Exclusion' /\ SingleDefault'
    BY <1>10 DEF Drop, IInv, TypeOK, Exclusion, SingleDefault, Detecting, InConstructor
  <2>2. \A u \in Threads : own'[u] \in {own[u], None} /\ worker'[u] \in {worker[u], None}
    BY <1>10 DEF Drop, IInv, TypeOK
  <2>3. own[t] \in Inners /\ DropClone(own[t]) /\ UNCHANGED value
    BY <1>10 DEF Drop, IInv, TypeOK, Alive
  <2>4. \A u \in Threads : own'[u] # None <=> pc'[u] \in {"have", "call"}
    BY <1>10 DEF Drop, IInv, TypeOK, Alive
  <2>5. QED
    BY <2>1, <2>2, <2>3, <2>4, DropKeeps DEF Alive
<1>11. CASE Deploy \/ UNCHANGED vars
  BY <1>11 DEF Deploy, vars, IInv, Exclusion, Alive, SingleDefault, Detecting
<1>12. QED
  BY <1>1, <1>2, <1>3, <1>4, <1>5, <1>6, <1>7, <1>8, <1>9, <1>10, <1>11
     DEF Next, Constructs

(* Every step leaves each reference to the library with one owner.         *)
LEMMA BalanceStep == IInv /\ [Next]_vars => ReferencesBalance'
<1> SUFFICES ASSUME IInv, [Next]_vars PROVE ReferencesBalance'
  OBVIOUS
<1> TypeOK /\ ReferencesBalance
  BY DEF IInv
<1> USE OwnersAreDistinct DEF world, cache, memory, thread, Goto, ReferencesBalance, TypeOK
<1>1. ASSUME NEW t \in Threads, NEW w \in {"auto", "dir"}, Call(t, w)
      PROVE  ReferencesBalance'
  BY <1>1 DEF Call
<1>2. ASSUME NEW t \in Threads, Get(t) \/ Recheck(t) \/ Acquire(t)
      PROVE  ReferencesBalance'
  BY <1>2 DEF Get, Recheck, Acquire, TakeCached
<1>3. ASSUME NEW t \in Threads, Probe(t) \/ LoadFails(t) \/ SystemUnsupported(t)
      PROVE  ReferencesBalance'
  BY <1>3 DEF Probe, LoadFails, SystemUnsupported, Reject, Fail
<1>4. ASSUME NEW t \in Threads, Load(t) PROVE ReferencesBalance'
  BY <1>4 DEF Load
<1>5. ASSUME NEW t \in Threads, ResolveFails(t) PROVE ReferencesBalance'
  BY <1>5 DEF ResolveFails, DropReference, Reject, Fail
<1>6. ASSUME NEW t \in Threads, Resolve(t) PROVE ReferencesBalance'
  BY <1>6 DEF Resolve, Succeed
<1>7. ASSUME NEW t \in Threads, System(t) PROVE ReferencesBalance'
  BY <1>7 DEF System, Succeed
<1>8. ASSUME NEW t \in Threads, Panic(t) PROVE ReferencesBalance'
  BY <1>8 DEF Panic
<1>9. ASSUME NEW t \in Threads, Enter(t) \/ Return(t) \/ DetachClose(t)
      PROVE  ReferencesBalance'
  BY <1>9 DEF Enter, Return, DetachClose
<1>10. ASSUME NEW i \in Inners, DropClone(i),
              {t \in Threads : pc'[t] = "resolve"} = {t \in Threads : pc[t] = "resolve"}
       PROVE  ReferencesBalance'
  <2>1. CASE UNCHANGED memory
    BY <1>10, <2>1
  <2>2. CASE kind' = [kind EXCEPT ![i] = "free"] /\ guards' = guards \ {i}
    <3>1. {j \in Inners : kind'[j] = "external"} = {j \in Inners : kind[j] = "external"} \ {i}
      BY <2>2
    <3>2. i \notin Threads
      OBVIOUS
    <3>3. QED
      BY <1>10, <2>2, <3>1, <3>2
  <2>3. QED
    BY <1>10, <2>1, <2>2 DEF DropClone
<1>11. ASSUME NEW t \in Threads, WorkerReturns(t) \/ Drop(t) PROVE ReferencesBalance'
  <2>1. PICK i \in Inners : DropClone(i)
    BY <1>11 DEF WorkerReturns, Drop, Alive, IInv
  <2>2. \A u \in Threads : pc'[u] = "resolve" <=> pc[u] = "resolve"
    BY <1>11 DEF WorkerReturns, Drop
  <2>3. QED
    BY <1>10, <2>1, <2>2
<1>12. CASE Deploy \/ UNCHANGED vars
  BY <1>12 DEF Deploy, vars
<1>13. QED
  BY <1>1, <1>2, <1>3, <1>4, <1>5, <1>6, <1>7, <1>8, <1>9, <1>10, <1>11, <1>12
     DEF Next, Constructs

(* The inductive invariant.                                                *)
LEMMA IInvHolds == Spec => []IInv
<1>1. IInv /\ [Next]_vars => IInv'
  BY TypeStep, InvStep, BalanceStep DEF IInv
<1>2. QED
  BY <1>1, InitInv, PTL DEF Spec

(* All of auto's callers share the one cached backend.                     *)
THEOREM OneDefault == Spec => []SingleDefault
<1>1. IInv => SingleDefault
  BY DEF IInv
<1>2. QED
  BY <1>1, IInvHolds, PTL

(* At most one automatic detection is under way, and none after a success. *)
THEOREM OneDetection == Spec => []DetectedOnce
<1>1. IInv => DetectedOnce
  BY DEF IInv, Exclusion, DetectedOnce, Detecting, InConstructor
<1>2. QED
  BY <1>1, IInvHolds, PTL

(* No call and no detached close runs in an unmapped library.              *)
THEOREM NoUnmappedCode == Spec => []CodeStaysMapped
<1>1. IInv => CodeStaysMapped
  BY DEF IInv, TypeOK, Alive, ReferencesBalance, CodeStaysMapped, InUse
<1>2. QED
  BY <1>1, IInvHolds, PTL

(* No reference to the library is lost or dropped twice.                   *)
THEOREM NoLostReference == Spec => []ReferencesBalance
<1>1. IInv => ReferencesBalance
  BY DEF IInv
<1>2. QED
  BY <1>1, IInvHolds, PTL
=============================================================================
