---------------------------- MODULE BackendCache ----------------------------
(***************************************************************************)
(* Choosing and keeping a ConPTY backend: ConPtyBackend::auto over its     *)
(* SuccessfulCache, from_dir, and the life of a loaded conpty.dll behind   *)
(* the Arcs that reach it (backend.rs, backend/exports.rs).                *)
(*                                                                         *)
(* Several threads ask at once while the bundle beside the executable is   *)
(* absent, broken or being repaired; detection may fail, fall back to the  *)
(* operating system, or panic.  A thread that has a backend calls into it, *)
(* clones it into a detached close worker and drops its own clone, in any  *)
(* order.  A LoadLibraryExW reference is modelled by who owns it: the      *)
(* thread still inside load_from_dir, or a finished BackendInner.  The DLL *)
(* is mapped as long as anybody owns one.                                  *)
(***************************************************************************)
EXTENDS Naturals

CONSTANTS
  Threads,
  Inners,             \* allocations for BackendInner: one cached, one more per thread
  None,
  MaxDeployments,     \* bound: how often the bundle directory changes
  MaxFaults           \* bound: how often a load of an intact DLL fails, or panics

ASSUME NoneIsNothing == None \notin Threads /\ None \notin Inners
ASSUME BoundsAreNaturals == MaxDeployments \in Nat /\ MaxFaults \in Nat
ASSUME OwnersAreDistinct == Threads \cap Inners = {}

VARIABLES
  bundle,             \* conpty.dll beside the executable, see Bundles
  supported,          \* does kernel32.dll export ConPTY?
  deployments, faults,
  value,              \* AUTO_DEFAULT.value, the cached BackendInner
  lock,               \* holder of AUTO_DEFAULT.initialization
  poisoned,           \* has a holder panicked?
  kind,               \* what every BackendInner is: "free", "system" or "external"
  guards,             \* who owns a LoadLibraryExW reference
  pc, want,           \* where a thread is, and which constructor it called
  image,              \* what a thread has mapped while it resolves exports
  own,                \* the backend clone a thread holds
  worker              \* the clone inside a thread's detached close worker

Bundles == {"absent", "broken", "stub", "good"}
world  == <<bundle, supported, deployments, faults>>
cache  == <<value, lock, poisoned>>
memory == <<kind, guards>>
thread == <<pc, want, image, own, worker>>
vars   == <<world, cache, memory, thread>>

Init ==
  /\ bundle \in Bundles /\ supported \in BOOLEAN /\ deployments = 0 /\ faults = 0
  /\ value = None /\ lock = None /\ poisoned = FALSE
  /\ kind = [i \in Inners |-> "free"] /\ guards = {}
  /\ pc = [t \in Threads |-> "idle"] /\ want = [t \in Threads |-> "auto"]
  /\ image = [t \in Threads |-> "absent"]
  /\ own = [t \in Threads |-> None] /\ worker = [t \in Threads |-> None]

Goto(t, l) == pc' = [pc EXCEPT ![t] = l]

-----------------------------------------------------------------------------
(* SuccessfulCache::get_or_try_init.                                       *)

(* Bound: a thread asks again once its own detached close has returned.    *)
Call(t, w) ==
  /\ pc[t] = "idle" /\ worker[t] = None
  /\ want' = [want EXCEPT ![t] = w]
  /\ Goto(t, IF w = "auto" THEN "get" ELSE "probe")
  /\ UNCHANGED <<world, cache, memory, image, own, worker>>

(* A clone of the cached backend.                                          *)
TakeCached(t) == own' = [own EXCEPT ![t] = value] /\ Goto(t, "have")

Get(t) ==
  /\ pc[t] = "get"
  /\ IF value # None
       THEN TakeCached(t)
       ELSE Goto(t, "lock") /\ UNCHANGED own
  /\ UNCHANGED <<world, cache, memory, want, image, worker>>

(* Mutant: a poisoned mutex panics the caller, lock().unwrap().            *)
UnlessPoisoned(t) == lock = None /\ ~poisoned

(* A poisoned mutex is as good as any other here.                          *)
LockAvailable(t) == lock = None

Acquire(t) ==
  /\ pc[t] = "lock" /\ LockAvailable(t)
  /\ lock' = t /\ Goto(t, "recheck")
  /\ UNCHANGED <<world, value, poisoned, memory, want, image, own, worker>>

(* Mutant: the value is not read again under the lock.                     *)
DetectAnyway(t) ==
  /\ pc[t] = "recheck" /\ Goto(t, "probe")
  /\ UNCHANGED <<world, cache, memory, want, image, own, worker>>

Recheck(t) ==
  /\ pc[t] = "recheck"
  /\ IF value # None
       THEN TakeCached(t) /\ lock' = None
       ELSE Goto(t, "probe") /\ UNCHANGED <<own, lock>>
  /\ UNCHANGED <<world, value, poisoned, memory, want, image, worker>>

Unlock(t) == lock' = IF lock = t THEN None ELSE lock

(* detect()? leaves the cache as it was.                                   *)
Fail(t) == Goto(t, "idle") /\ Unlock(t) /\ UNCHANGED <<value, poisoned>>

(* Mutant: the result is returned without being remembered.                *)
ForgetToStore(t, i) == UNCHANGED value

(* value.set(detected.clone()) succeeds only into an empty cell.           *)
Remember(t, i) == value' = IF value = None THEN i ELSE value

(* The constructor returns a new backend; auto stores it on the way.       *)
Succeed(t, i, k) ==
  /\ kind' = [kind EXCEPT ![i] = k]
  /\ IF want[t] = "auto"
       THEN /\ Remember(t, i) /\ Unlock(t)
            /\ own' = [own EXCEPT ![t] = IF value' = None THEN i ELSE value']
       ELSE own' = [own EXCEPT ![t] = i] /\ UNCHANGED <<value, lock>>
  /\ Goto(t, "have") /\ UNCHANGED poisoned

-----------------------------------------------------------------------------
(* detect_auto, load_from_dir, ConptyApi::from_module and system.          *)

(* A bundle that fails is no error for auto, which has the system's.       *)
Reject(t) ==
  IF want[t] = "auto"
    THEN Goto(t, "system") /\ UNCHANGED cache
    ELSE Fail(t)

(* is_file() and validate(), before any code is mapped.                    *)
Probe(t) ==
  /\ pc[t] = "probe"
  /\ IF bundle \in {"stub", "good"}
       THEN Goto(t, "load") /\ UNCHANGED cache
       ELSE Reject(t)
  /\ UNCHANGED <<world, memory, want, image, own, worker>>

(* load_module, with the thread's error mode changed around it: from here  *)
(* the guard in a local variable owns a reference to the library.          *)
Load(t) ==
  /\ pc[t] = "load" /\ bundle \in {"stub", "good"}
  /\ guards' = guards \cup {t}
  /\ image' = [image EXCEPT ![t] = bundle]
  /\ Goto(t, "resolve")
  /\ UNCHANGED <<world, cache, kind, want, own, worker>>

LoadFails(t) ==
  /\ pc[t] = "load"
  /\ \/ bundle \notin {"stub", "good"} /\ UNCHANGED faults
     \/ faults < MaxFaults /\ faults' = faults + 1
  /\ Reject(t)
  /\ UNCHANGED <<bundle, supported, deployments, memory, want, image, own, worker>>

(* Mutant: an early return between load and guard forgets FreeLibrary.     *)
KeepReference(t) == guards

(* The local guard is dropped.                                             *)
DropReference(t) == guards \ {t}

(* A required export is missing.                                           *)
ResolveFails(t) ==
  /\ pc[t] = "resolve" /\ image[t] = "stub"
  /\ guards' = DropReference(t)
  /\ Reject(t)
  /\ UNCHANGED <<world, kind, want, image, own, worker>>

(* The guard moves into the new BackendInner.                              *)
Resolve(t) ==
  /\ pc[t] = "resolve" /\ image[t] = "good"
  /\ \E i \in Inners :
       /\ kind[i] = "free"
       /\ guards' = (guards \ {t}) \cup {i}
       /\ Succeed(t, i, "external")
  /\ UNCHANGED <<world, want, image, worker>>

System(t) ==
  /\ pc[t] = "system" /\ supported
  /\ \E i \in Inners : kind[i] = "free" /\ Succeed(t, i, "system")
  /\ UNCHANGED <<world, guards, want, image, worker>>

SystemUnsupported(t) ==
  /\ pc[t] = "system" /\ ~supported
  /\ Fail(t)
  /\ UNCHANGED <<world, memory, want, image, own, worker>>

(* A panic inside detect() unwinds: locals are dropped, the mutex is       *)
(* unlocked and poisoned, the value is untouched.                          *)
Panic(t) ==
  /\ pc[t] \in {"probe", "load", "resolve", "system"}
  /\ faults < MaxFaults /\ faults' = faults + 1
  /\ guards' = guards \ {t}
  /\ Unlock(t) /\ poisoned' = (poisoned \/ lock = t)
  /\ Goto(t, "idle")
  /\ UNCHANGED <<bundle, supported, deployments, value, kind, want, image, own, worker>>

-----------------------------------------------------------------------------
(* What a thread does with a backend.                                      *)

(* Mutant: the close worker takes the HPCON and the function pointer only. *)
HandlesOnly(o, w) == {o}

(* The clones that count for one thread: its own, and the one moved into   *)
(* its detached close worker together with the HPCON.                      *)
Clones(o, w) == {o, w}

(* A clone of i is dropped; the last one frees the inner and its guard.    *)
DropClone(i) ==
  IF value # i /\ \A u \in Threads : i \notin Clones(own'[u], worker'[u])
    THEN kind' = [kind EXCEPT ![i] = "free"] /\ guards' = guards \ {i}
    ELSE UNCHANGED memory

(* create, resize, release, clear or close through the function table.     *)
Enter(t) ==
  /\ pc[t] = "have" /\ Goto(t, "call")
  /\ UNCHANGED <<world, cache, memory, want, image, own, worker>>

Return(t) ==
  /\ pc[t] = "call" /\ Goto(t, "have")
  /\ UNCHANGED <<world, cache, memory, want, image, own, worker>>

(* spawn_detached_close: the worker is inside close from here on.          *)
DetachClose(t) ==
  /\ pc[t] = "have" /\ worker[t] = None
  /\ worker' = [worker EXCEPT ![t] = own[t]]
  /\ UNCHANGED <<world, cache, memory, pc, want, image, own>>

WorkerReturns(t) ==
  /\ worker[t] # None
  /\ worker' = [worker EXCEPT ![t] = None]
  /\ UNCHANGED own /\ DropClone(worker[t])
  /\ UNCHANGED <<world, cache, pc, want, image>>

Drop(t) ==
  /\ pc[t] = "have"
  /\ own' = [own EXCEPT ![t] = None] /\ Goto(t, "idle")
  /\ UNCHANGED worker /\ DropClone(own[t])
  /\ UNCHANGED <<world, cache, want, image>>

-----------------------------------------------------------------------------
(* A bundle is installed, replaced or removed.                             *)
Deploy ==
  /\ deployments < MaxDeployments /\ deployments' = deployments + 1
  /\ bundle' \in Bundles \ {bundle}
  /\ UNCHANGED <<supported, faults, cache, memory, thread>>

Constructs(t) ==
  \/ Get(t) \/ Recheck(t) \/ Probe(t) \/ Load(t) \/ ResolveFails(t) \/ Resolve(t)
  \/ System(t) \/ SystemUnsupported(t)

Next ==
  \/ Deploy
  \/ \E t \in Threads :
       \/ \E w \in {"auto", "dir"} : Call(t, w)
       \/ Constructs(t) \/ Acquire(t) \/ LoadFails(t) \/ Panic(t)
       \/ Enter(t) \/ Return(t) \/ DetachClose(t) \/ WorkerReturns(t) \/ Drop(t)

Spec == Init /\ [][Next]_vars

(* Threads inside a constructor run; one that waits for the mutex gets it  *)
(* eventually, although others may take it again and again.                *)
Fairness ==
  \A t \in Threads :
    WF_vars(Constructs(t)) /\ WF_vars(LoadFails(t)) /\ SF_vars(Acquire(t))

FairSpec == Spec /\ Fairness

-----------------------------------------------------------------------------
TypeOK ==
  /\ bundle \in Bundles /\ supported \in BOOLEAN /\ deployments \in Nat /\ faults \in Nat
  /\ value \in Inners \cup {None} /\ lock \in Threads \cup {None}
  /\ poisoned \in BOOLEAN
  /\ kind \in [Inners -> {"free", "system", "external"}]
  /\ guards \subseteq Threads \cup Inners
  /\ pc \in [Threads -> {"idle", "get", "lock", "recheck", "probe", "load", "resolve",
                         "system", "have", "call"}]
  /\ want \in [Threads -> {"auto", "dir"}]
  /\ image \in [Threads -> Bundles]
  /\ own \in [Threads -> Inners \cup {None}]
  /\ worker \in [Threads -> Inners \cup {None}]

(* However many first callers race, and whatever fails, panics or is       *)
(* deployed meanwhile, everybody auto has answered holds the one cached    *)
(* backend.                                                                *)
SingleDefault ==
  \A t \in Threads : want[t] = "auto" /\ own[t] # None => own[t] = value

Detecting(t) == want[t] = "auto" /\ pc[t] \in {"probe", "load", "resolve", "system"}

(* The bundled DLL is loaded by one automatic detection at a time, and by  *)
(* none once a backend has been found: one load per process and not one    *)
(* per session.                                                            *)
DetectedOnce ==
  \A t \in Threads : Detecting(t) =>
    /\ value = None
    /\ \A u \in Threads : Detecting(u) => u = t

InUse == ({own[t] : t \in {u \in Threads : pc[u] = "call"}} \cup {worker[t] : t \in Threads})
           \ {None}

(* Nobody executes code of an unmapped conpty.dll: neither a call in       *)
(* progress nor a detached close that has outlived every other clone.      *)
CodeStaysMapped ==
  \A i \in InUse : kind[i] # "free" /\ (kind[i] = "external" => i \in guards)

(* Every LoadLibraryExW reference has one owner that will drop it, on each *)
(* way out of load_from_dir.                                               *)
ReferencesBalance ==
  guards = {i \in Inners : kind[i] = "external"} \cup {t \in Threads : pc[t] = "resolve"}

Available == supported \/ bundle = "good"

(* Failure is not remembered: as soon as some backend is there to stay and *)
(* nothing goes wrong any more, a call of auto returns it, whatever was    *)
(* rejected before.                                                        *)
AutoServes ==
  \A t \in Threads :
    (pc[t] = "get" /\ [](Available /\ faults = MaxFaults)) ~> own[t] # None
=============================================================================
