------------------------------ MODULE ChildWait ------------------------------
(***************************************************************************)
(* Waiting for the root child on an executor: Child::wait and try_wait of  *)
(* the Tokio front end (tokio/command.rs) over the RegisteredWait future   *)
(* (core/wait.rs) whose thread-pool callback stores the exit code, wakes   *)
(* the waiting task and may have to free the context it shares with it.    *)
(*                                                                         *)
(* wait() is cancel-safe: the registration stays in the Child, so that the *)
(* next wait, perhaps of another task with another Waker, resumes it.  A   *)
(* Waker is user code and may poll its task inline, on the callback's own  *)
(* thread; that poll may complete and drop the registration right there.   *)
(*                                                                         *)
(* One registration is followed.  Whether the result is an exit code or an *)
(* error, and whether a Waker panics, changes no step here.                *)
(***************************************************************************)
CONSTANTS
  Tasks,              \* tasks that may await the child, one at a time
  NoTask,
  UnregisterMayFail   \* may UnregisterWaitEx fail outright?

ASSUME NoTaskIsNoTask == NoTask \notin Tasks
ASSUME SwitchIsBoolean == UnregisterMayFail \in BOOLEAN

VARIABLES
  root,               \* the root process: "running" or "exited"
  exit,               \* Child.exit: "none", "armed" or "taken" (being dropped, or gone)
  answered,           \* has the exit been reported to the caller?
  pending,            \* the task awaiting Child::wait
  woken,              \* tasks the executor has been told to poll
  mutex,              \* holder of the context's mutex across UnregisterWaitEx
  result, waker,      \* RegisteredWaitState
  callback_active, owner_dropping, cleanup_after_callback,
  context,            \* the allocation: "live", "freed" or "leaked"
  callback,           \* where the thread-pool callback is
  drop, dropper       \* where Drop for RegisteredWait is, and on whose thread

state  == <<result, waker, callback_active, owner_dropping, cleanup_after_callback>>
caller == <<exit, answered, pending, woken>>
vars   == <<root, caller, mutex, state, context, callback, drop, dropper>>

Init ==
  /\ root \in {"running", "exited"}
  /\ exit = "none" /\ answered = FALSE /\ pending = NoTask /\ woken = {}
  /\ mutex = "free" /\ result = "none" /\ waker = NoTask
  /\ callback_active = FALSE /\ owner_dropping = FALSE
  /\ cleanup_after_callback = FALSE
  /\ context = "live" /\ callback = "none" /\ drop = "none" /\ dropper = "nobody"

(* The threads on which the caller's code may run: the executor's own, and *)
(* the callback's while it is inside the Waker.                            *)
RunsOn(by) == by = "executor" \/ (by = "callback" /\ callback = "waking")

(* Drop borrows the Child mutably: nothing else of it runs meanwhile.      *)
ChildIdle == drop \in {"none", "done"}

-----------------------------------------------------------------------------
(* Child::wait, the future it returns, and Child::try_wait.                *)

Wait(t) ==
  /\ ChildIdle /\ ~answered /\ pending = NoTask /\ exit # "taken"
  /\ exit' = "armed"
  /\ pending' = t /\ woken' = woken \cup {t}
  /\ UNCHANGED <<root, answered, mutex, state, context, callback, drop, dropper>>

(* Mutant: a Waker that is there already is kept.                          *)
KeepFirstWaker(t) == IF waker = NoTask THEN t ELSE waker

(* should_replace_waker: the stored Waker always wakes the last poller.    *)
ReplaceWaker(t) == t

BeginDrop(by) == exit' = "taken" /\ drop' = "lock" /\ dropper' = by

PollPending(t) ==
  /\ ChildIdle /\ pending = t /\ t \in woken /\ mutex = "free"
  /\ result = "none"
  /\ waker' = ReplaceWaker(t)
  /\ woken' = woken \ {t}
  /\ UNCHANGED <<root, exit, answered, pending, mutex, result, callback_active,
                 owner_dropping, cleanup_after_callback, context, callback, drop, dropper>>

PollReady(t, by) ==
  /\ ChildIdle /\ RunsOn(by) /\ pending = t /\ t \in woken /\ mutex = "free"
  /\ result = "ready" /\ result' = "taken"
  /\ pending' = NoTask /\ woken' = woken \ {t}
  /\ BeginDrop(by)
  /\ UNCHANGED <<root, answered, mutex, waker, callback_active, owner_dropping,
                 cleanup_after_callback, context, callback>>

(* The future is dropped before it is ready; the registration stays.       *)
Cancel(t) ==
  /\ ChildIdle /\ pending = t
  /\ pending' = NoTask /\ woken' = woken \ {t}
  /\ UNCHANGED <<root, exit, answered, mutex, state, context, callback, drop, dropper>>

TryWait(by) ==
  /\ ChildIdle /\ RunsOn(by) /\ root = "exited" /\ ~answered /\ pending = NoTask
  /\ answered' = TRUE
  /\ IF exit = "armed" THEN BeginDrop(by) ELSE UNCHANGED <<exit, drop, dropper>>
  /\ UNCHANGED <<root, pending, woken, mutex, state, context, callback>>

(* The Child is dropped, and with it the future of a wait in progress.     *)
DropChild(by) ==
  /\ ChildIdle /\ RunsOn(by) /\ exit = "armed"
  /\ pending' = NoTask /\ woken' = woken \ {pending}
  /\ BeginDrop(by)
  /\ UNCHANGED <<root, answered, mutex, state, context, callback>>

-----------------------------------------------------------------------------
(* Drop for RegisteredWait.                                                *)

(* Mutant: Drop asks whether a callback runs but leaves no mark for it.    *)
HandshakeWithoutMark ==
  /\ drop = "lock" /\ mutex = "free"
  /\ IF callback_active
       THEN drop' = "unregister" /\ mutex' = "drop"
       ELSE drop' = "unregisterAndWait" /\ UNCHANGED mutex
  /\ UNCHANGED <<root, caller, state, context, callback, dropper>>

(* Mutant: Drop always takes the blocking path.                            *)
HandshakeAlwaysWaits ==
  /\ drop = "lock" /\ mutex = "free"
  /\ owner_dropping' = TRUE
  /\ drop' = "unregisterAndWait"
  /\ UNCHANGED <<root, caller, mutex, result, waker, callback_active,
                 cleanup_after_callback, context, callback, dropper>>

DropHandshake ==
  /\ drop = "lock" /\ mutex = "free"
  /\ owner_dropping' = TRUE
  /\ IF callback_active
       THEN drop' = "unregister" /\ mutex' = "drop"
       ELSE drop' = "unregisterAndWait" /\ UNCHANGED mutex
  /\ UNCHANGED <<root, caller, result, waker, callback_active,
                 cleanup_after_callback, context, callback, dropper>>

(* The caller of wait gets its answer once the registration is dropped.    *)
EndDrop ==
  /\ drop' = "done" /\ dropper' = "nobody"
  /\ answered' = (answered \/ result = "taken")

(* Nonblocking, with the mutex held: reclamation passes to the callback.   *)
UnregisterActive ==
  /\ drop = "unregister"
  /\ mutex' = "free"
  /\ \/ cleanup_after_callback' = TRUE /\ UNCHANGED context
     \/ UnregisterMayFail /\ context' = "leaked" /\ UNCHANGED cleanup_after_callback
  /\ EndDrop
  /\ UNCHANGED <<root, exit, pending, woken, result, waker, callback_active,
                 owner_dropping, callback>>

(* Mutant: the context is freed although the callback may still run.       *)
UnregisterWithoutWaiting ==
  /\ drop = "unregisterAndWait"
  /\ context' = "freed"
  /\ EndDrop
  /\ UNCHANGED <<root, exit, pending, woken, mutex, state, callback>>

(* Blocking: returns when no callback runs or can start any more.          *)
UnregisterIdle ==
  /\ drop = "unregisterAndWait"
  /\ \/ callback \in {"none", "returned"} /\ context' = "freed"
     \/ UnregisterMayFail /\ context' = "leaked"
  /\ EndDrop
  /\ UNCHANGED <<root, exit, pending, woken, mutex, state, callback>>

-----------------------------------------------------------------------------
(* registered_wait_callback.                                               *)

(* A wait whose blocking unregistration succeeded starts no callback.      *)
CallbackRuns ==
  /\ root = "exited" /\ exit # "none" /\ context # "freed"
  /\ callback = "none" /\ callback' = "entry"
  /\ UNCHANGED <<root, caller, mutex, state, context, drop, dropper>>

CallbackEntry ==
  /\ callback = "entry" /\ mutex = "free"
  /\ IF owner_dropping
       THEN callback' = "returned" /\ UNCHANGED callback_active
       ELSE callback' = "exitCode" /\ callback_active' = TRUE
  /\ UNCHANGED <<root, caller, mutex, result, waker, owner_dropping,
                 cleanup_after_callback, context, drop, dropper>>

StoreResult ==
  /\ callback = "exitCode" /\ mutex = "free"
  /\ IF owner_dropping
       THEN callback' = "tail" /\ UNCHANGED <<result, waker, woken>>
       ELSE /\ result' = "ready" /\ waker' = NoTask
            /\ IF waker = NoTask
                 THEN callback' = "tail" /\ UNCHANGED woken
                 ELSE callback' = "waking" /\ woken' = woken \cup {waker}
  /\ UNCHANGED <<root, exit, answered, pending, mutex, callback_active,
                 owner_dropping, cleanup_after_callback, context, drop, dropper>>

(* The Waker returns or panics, after whatever it polled inline.           *)
WakeReturns ==
  /\ callback = "waking" /\ dropper # "callback"
  /\ callback' = "tail"
  /\ UNCHANGED <<root, caller, mutex, state, context, drop, dropper>>

CallbackTail ==
  /\ callback = "tail" /\ mutex = "free"
  /\ callback_active' = FALSE
  /\ callback' = IF cleanup_after_callback THEN "free" ELSE "returned"
  /\ UNCHANGED <<root, caller, mutex, result, waker, owner_dropping,
                 cleanup_after_callback, context, drop, dropper>>

CallbackFrees ==
  /\ callback = "free" /\ callback' = "returned"
  /\ context' = "freed"
  /\ UNCHANGED <<root, caller, mutex, state, drop, dropper>>

-----------------------------------------------------------------------------
RootExits ==
  /\ root = "running" /\ root' = "exited"
  /\ UNCHANGED <<caller, mutex, state, context, callback, drop, dropper>>

Finished ==
  /\ drop = "done" \/ (exit = "none" /\ answered)
  /\ callback \in {"none", "returned"}
  /\ UNCHANGED vars

PollSteps     == \E t \in Tasks : PollPending(t) \/ PollReady(t, "executor")
DropSteps     == DropHandshake \/ UnregisterActive \/ UnregisterIdle
CallbackSteps ==
  CallbackEntry \/ StoreResult \/ WakeReturns \/ CallbackTail \/ CallbackFrees

Next ==
  \/ PollSteps \/ DropSteps \/ CallbackRuns \/ CallbackSteps
  \/ \E t \in Tasks : Wait(t) \/ Cancel(t) \/ PollReady(t, "callback")
  \/ \E by \in {"executor", "callback"} : TryWait(by) \/ DropChild(by)
  \/ RootExits \/ Finished

Spec == Init /\ [][Next]_vars

(* The executor polls a woken task, the pool runs a queued callback, and   *)
(* threads keep running.  Nobody has to wait, to cancel or to drop, no     *)
(* process has to exit, and nobody may count on a failed unregistration.   *)
Fairness ==
  /\ WF_vars(PollSteps) /\ WF_vars(DropSteps /\ context' # "leaked")
  /\ WF_vars(CallbackRuns) /\ WF_vars(CallbackSteps)

FairSpec == Spec /\ Fairness

-----------------------------------------------------------------------------
(* Every variable has its type.                                            *)
TypeOK ==
  /\ root \in {"running", "exited"}
  /\ exit \in {"none", "armed", "taken"} /\ answered \in BOOLEAN
  /\ pending \in Tasks \cup {NoTask} /\ woken \subseteq Tasks
  /\ mutex \in {"free", "drop"}
  /\ result \in {"none", "ready", "taken"} /\ waker \in Tasks \cup {NoTask}
  /\ callback_active \in BOOLEAN /\ owner_dropping \in BOOLEAN
  /\ cleanup_after_callback \in BOOLEAN
  /\ context \in {"live", "freed", "leaked"}
  /\ callback \in {"none", "entry", "exitCode", "waking", "tail", "free", "returned"}
  /\ drop \in {"none", "lock", "unregister", "unregisterAndWait", "done"}
  /\ dropper \in {"nobody", "executor", "callback"}

(* The future or the Drop of it may still dereference the context; so may  *)
(* the callback up to the end of its last critical section.                *)
OwnerUses    == exit = "armed" \/ drop \in {"lock", "unregister"}
CallbackUses == callback \in {"entry", "exitCode", "waking", "tail"}

(* Neither the owner nor the callback uses the context after the other has *)
(* freed it, and it is freed once, in every interleaving of the two with   *)
(* an inline or a scheduled poll.                                          *)
Shared ==
  INSTANCE CallbackContext WITH
    User  <- {"owner", "callback"},
    users <- (IF OwnerUses THEN {"owner"} ELSE {})
               \cup (IF CallbackUses THEN {"callback"} ELSE {})
ImplementsCallbackContext == Shared!Spec

(* While Drop blocks in UnregisterWaitEx the callback is never inside user *)
(* code, which could be waiting for the very thread that drops.            *)
NoWakerUnderBlockingDrop ==
  drop = "unregisterAndWait" => callback \notin {"exitCode", "waking"}

(* No wake-up is lost: a task that keeps awaiting an exited child gets its *)
(* answer, also when the registration was armed for another task's Waker.  *)
ExitReachesWaiter ==
  \A t \in Tasks :
    pending = t /\ root = "exited" ~> answered \/ pending # t

(* Dropping a registration always returns, on the callback's own thread    *)
(* too, and leaves the context freed or, after a failed unregistration,    *)
(* leaked.                                                                 *)
DropReclaims == drop = "lock" ~> drop = "done" /\ context # "live"
=============================================================================
