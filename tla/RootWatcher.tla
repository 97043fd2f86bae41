----------------------------- MODULE RootWatcher -----------------------------
(***************************************************************************)
(* The root watcher of a session (core/wait.rs): the one-shot registered   *)
(* wait on the root process, its thread-pool callback, the worker that     *)
(* callback starts, and the heap context the three share by raw pointer.   *)
(*                                                                         *)
(* The registering thread publishes the wait handle only after Windows     *)
(* accepted the registration, so a root that has exited by then runs the   *)
(* callback concurrently with the publication.  Whoever finishes the work  *)
(* needs the handle to unregister the wait and must then free the context. *)
(***************************************************************************)
CONSTANTS
  LegacyModes,          \* the values of close_legacy to consider
  WorkerSpawnMayFail,   \* may creating the post-exit worker fail?
  TerminateMayFail,     \* may Job::terminate fail?
  UnregisterMayFail     \* may UnregisterWaitEx fail outright?

ASSUME SwitchesAreBoolean ==
  /\ LegacyModes \subseteq BOOLEAN
  /\ {WorkerSpawnMayFail, TerminateMayFail, UnregisterMayFail} \subseteq BOOLEAN

Finishers == {"callback", "worker"}    \* who may run finish_root_exit
Threads   == Finishers \cup {"registrar"}

VARIABLES
  pc,             \* where each thread is
  context,        \* the allocation: "live", "freed" or "leaked"
  published,      \* is the wait object in its slot?
  root,           \* the root process: "running" or "exited"
  descendants,    \* does any other member of the Job live?
  jobHeld,        \* does the public Child still hold the Arc<Job>?
  sessionHeld,    \* does any session handle still hold the Arc<ConsoleShared>?
  closeLegacy,    \* LegacyWaitContext.close_legacy
  requested,      \* has request_close been called?
  killFailed      \* did Job::terminate fail?

session == <<root, descendants, jobHeld, sessionHeld>>
vars    == <<pc, context, published, session, closeLegacy, requested, killFailed>>

Init ==
  /\ pc = [t \in Threads |-> IF t = "registrar" THEN "start" ELSE "none"]
  /\ context = "live" /\ published = FALSE
  /\ root \in {"running", "exited"} /\ descendants \in BOOLEAN
  /\ jobHeld = TRUE /\ sessionHeld = TRUE
  /\ closeLegacy \in LegacyModes
  /\ requested = FALSE /\ killFailed = FALSE

Goto(t, from, to) == pc[t] = from /\ pc' = [pc EXCEPT ![t] = to]

Armed == pc["registrar"] \in {"registered", "notifying", "done"}

-----------------------------------------------------------------------------
(* spawn_root_watcher_inner.                                               *)

Register ==
  /\ \/ Goto("registrar", "start", "registered") /\ UNCHANGED context
     \/ Goto("registrar", "start", "failed") /\ context' = "freed"
  /\ UNCHANGED <<published, session, closeLegacy, requested, killFailed>>

(* The slot is filled and its mutex released; the Condvar comes next.      *)
Publish ==
  /\ Goto("registrar", "registered", "notifying")
  /\ published' = TRUE
  /\ UNCHANGED <<context, session, closeLegacy, requested, killFailed>>

(* Mutant: the handle is published but the waiters are not told.           *)
NotifyNobody ==
  /\ Goto("registrar", "notifying", "done")
  /\ UNCHANGED <<context, published, session, closeLegacy, requested, killFailed>>

NotifyAll ==
  /\ pc["registrar"] = "notifying"
  /\ pc' = [t \in Threads |-> IF t = "registrar" THEN "done"
                              ELSE IF pc[t] = "asleep" THEN "waitObject" ELSE pc[t]]
  /\ UNCHANGED <<context, published, session, closeLegacy, requested, killFailed>>

-----------------------------------------------------------------------------
(* legacy_wait_callback.                                                   *)

Callback ==
  /\ Armed /\ root = "exited"
  /\ Goto("callback", "none", "entered")
  /\ UNCHANGED <<context, published, session, closeLegacy, requested, killFailed>>

(* Mutant: the callback does the work although the worker was started.     *)
SpawnWorkerAndFinish ==
  /\ pc["callback"] = "entered"
  /\ \/ pc' = [pc EXCEPT !["callback"] = "terminate", !["worker"] = "terminate"]
     \/ WorkerSpawnMayFail /\ pc' = [pc EXCEPT !["callback"] = "terminate"]
  /\ UNCHANGED <<context, published, session, closeLegacy, requested, killFailed>>

(* Without a worker the callback does the work itself.                     *)
SpawnWorker ==
  /\ pc["callback"] = "entered"
  /\ \/ pc' = [pc EXCEPT !["callback"] = "tail", !["worker"] = "terminate"]
     \/ WorkerSpawnMayFail /\ pc' = [pc EXCEPT !["callback"] = "terminate"]
  /\ UNCHANGED <<context, published, session, closeLegacy, requested, killFailed>>

CallbackReturns ==
  /\ Goto("callback", "tail", "returned")
  /\ UNCHANGED <<context, published, session, closeLegacy, requested, killFailed>>

-----------------------------------------------------------------------------
(* finish_root_exit, on the worker or on the callback.                     *)

(* Mutant: a session that needs no close is left before its tree is ended. *)
TerminateLegacyTree(t) ==
  /\ Goto(t, "terminate", "upgrade")
  /\ \/ jobHeld /\ closeLegacy /\ descendants' = FALSE /\ UNCHANGED killFailed
     \/ jobHeld /\ closeLegacy /\ TerminateMayFail /\ killFailed' = TRUE /\ UNCHANGED descendants
     \/ ~(jobHeld /\ closeLegacy) /\ UNCHANGED <<descendants, killFailed>>
  /\ UNCHANGED <<context, published, root, jobHeld, sessionHeld, closeLegacy, requested>>

TerminateTree(t) ==
  /\ Goto(t, "terminate", "upgrade")
  /\ \/ jobHeld /\ descendants' = FALSE /\ UNCHANGED killFailed
     \/ jobHeld /\ TerminateMayFail /\ killFailed' = TRUE /\ UNCHANGED descendants
     \/ ~jobHeld /\ UNCHANGED <<descendants, killFailed>>
  /\ UNCHANGED <<context, published, root, jobHeld, sessionHeld, closeLegacy, requested>>

UpgradeShared(t) ==
  /\ Goto(t, "upgrade", IF closeLegacy /\ sessionHeld THEN "grace" ELSE "waitObject")
  /\ UNCHANGED <<context, published, session, closeLegacy, requested, killFailed>>

(* The drain grace is a delay; the Arc it holds makes request_close safe.  *)
RequestClose(t) ==
  /\ Goto(t, "grace", "waitObject")
  /\ requested' = TRUE
  /\ UNCHANGED <<context, published, session, closeLegacy, killFailed>>

-----------------------------------------------------------------------------
(* legacy_wait_object and the reclamation that follows it.                 *)

LegacyWaitObject(t) ==
  /\ Goto(t, "waitObject", IF published THEN "unregister" ELSE "asleep")
  /\ UNCHANGED <<context, published, session, closeLegacy, requested, killFailed>>

SpuriousWakeup(t) ==
  /\ Goto(t, "asleep", "waitObject")
  /\ UNCHANGED <<context, published, session, closeLegacy, requested, killFailed>>

(* The worker's UnregisterWaitEx waits for the callback to return, the     *)
(* callback's own does not; a failure of either leaks the context.         *)
Unregister(t) ==
  /\ \/ /\ t = "worker" => pc["callback"] = "returned"
        /\ Goto(t, "unregister", "free")
        /\ UNCHANGED context
     \/ /\ UnregisterMayFail /\ context' = "leaked"
        /\ Goto(t, "unregister", "tail")
  /\ UNCHANGED <<published, session, closeLegacy, requested, killFailed>>

FreeContext(t) ==
  /\ Goto(t, "free", "tail")
  /\ context' = "freed"
  /\ UNCHANGED <<published, session, closeLegacy, requested, killFailed>>

-----------------------------------------------------------------------------
(* The processes and the application.                                      *)

RootExits ==
  /\ root = "running" /\ root' = "exited"
  /\ UNCHANGED <<pc, context, published, descendants, jobHeld, sessionHeld,
                 closeLegacy, requested, killFailed>>

(* A managed Child kills its Job when dropped, and the Job its members.    *)
DropChild ==
  /\ pc["registrar"] = "done" /\ jobHeld
  /\ jobHeld' = FALSE /\ descendants' = FALSE /\ root' = "exited"
  /\ UNCHANGED <<pc, context, published, sessionHeld, closeLegacy, requested, killFailed>>

DropSession ==
  /\ pc["registrar"] = "done" /\ sessionHeld /\ sessionHeld' = FALSE
  /\ UNCHANGED <<pc, context, published, root, descendants, jobHeld,
                 closeLegacy, requested, killFailed>>

(* The registration is over and so is everyone who worked for it.          *)
Finished ==
  /\ context # "live" /\ ~jobHeld /\ ~sessionHeld
  /\ pc["callback"] = "returned" /\ pc["worker"] \in {"none", "tail"}
  /\ UNCHANGED vars

(* Without a registration spawn_root reports the error; the watcher is no  *)
(* more (PseudoCon follows the clean-up that spawn_root does then).        *)
NeverArmed == pc["registrar"] = "failed" /\ UNCHANGED vars

RegistrarSteps == Register \/ Publish \/ NotifyAll
FinishSteps(t) ==
  \/ TerminateTree(t) \/ UpgradeShared(t) \/ RequestClose(t)
  \/ LegacyWaitObject(t) \/ Unregister(t) \/ FreeContext(t)
CallbackSteps  == Callback \/ SpawnWorker \/ CallbackReturns

Next ==
  \/ RegistrarSteps \/ CallbackSteps
  \/ \E t \in Finishers : FinishSteps(t) \/ SpuriousWakeup(t)
  \/ RootExits \/ DropChild \/ DropSession
  \/ Finished \/ NeverArmed

Spec == Init /\ [][Next]_vars

(* Threads keep running, and the thread pool runs a queued callback.  No   *)
(* process has to exit, no handle has to be dropped, and nobody may count  *)
(* on a spurious wake-up or on a failed unregistration.                    *)
Fairness ==
  /\ WF_vars(RegistrarSteps) /\ WF_vars(CallbackSteps)
  /\ \A t \in Finishers : WF_vars(FinishSteps(t) /\ context' # "leaked")

FairSpec == Spec /\ Fairness

-----------------------------------------------------------------------------
(* The program points at which a thread still dereferences the context.    *)
UsingPcs == {"entered", "terminate", "upgrade", "grace", "waitObject", "asleep", "unregister"}

Using(t) ==
  \/ t \in Finishers /\ pc[t] \in UsingPcs
  \/ t = "registrar" /\ pc[t] \in {"registered", "notifying"}

(* Every variable has its type.                                            *)
TypeOK ==
  /\ pc \in [Threads -> UsingPcs \cup {"start", "registered", "notifying", "done", "failed",
                                      "none", "tail", "returned", "free"}]
  /\ context \in {"live", "freed", "leaked"}
  /\ root \in {"running", "exited"}
  /\ {published, descendants, jobHeld, sessionHeld, closeLegacy, requested, killFailed}
       \subseteq BOOLEAN

(* The callback and the worker share the context the way every registered  *)
(* wait must: neither uses it after it is freed, the callback is never     *)
(* inside it when the worker frees it, and it is freed once.               *)
Shared ==
  INSTANCE CallbackContext WITH
    User  <- Finishers,
    users <- {t \in Finishers : Using(t)}
ImplementsCallbackContext == Shared!Spec

(* wait.rs:593 and 634-635: the registering thread may use the context     *)
(* because the callback side owns it and frees it only when all are done.  *)
RegistrarSeesLiveContext == context = "freed" => ~Using("registrar")

(* Every registration ends: once the root has exited, the publication race *)
(* strands nobody on the Condvar and the context is freed, or leaked by a  *)
(* failed unregistration.                                                  *)
ContextReclaimed == Armed /\ root = "exited" ~> context # "live"

(* The exit of the root ends the whole managed tree on every backend, with *)
(* or without a worker, unless the kernel refuses to terminate the Job; on *)
(* a legacy session that still has a handle the watcher always gets to     *)
(* request_close, whoever has to do it.                                    *)
RootExitActs ==
  /\ Armed /\ root = "exited" ~> ~descendants \/ killFailed
  /\ Armed /\ root = "exited" /\ closeLegacy ~> requested \/ ~sessionHeld
=============================================================================
