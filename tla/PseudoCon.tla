----------------------------- MODULE PseudoCon -----------------------------
(***************************************************************************)
(* The lifecycle core of one session (core/pseudocon.rs), the handles that *)
(* drive it and the operating system behind it.                            *)
(*                                                                         *)
(* ConsoleShared owns the HPCON.  The conout reader, the conin writer, the *)
(* controllers and the spawning call each keep it alive through an Arc and *)
(* report to it from threads of their own; the root watcher and the close  *)
(* workers are threads the library starts.  All of them meet in one mutex  *)
(* around State, while ClosePseudoConsole itself runs outside that mutex   *)
(* and, on a legacy console host, may block until conout is drained.       *)
(*                                                                         *)
(* A step of a thread is one critical section, or one call that leaves the *)
(* crate.  The mutex is explicit (lock) because resize, clear, release and *)
(* CreateProcess are made with it held.  Sizes, errors and logging are     *)
(* data no property here tells apart.                                      *)
(***************************************************************************)
CONSTANTS
  Controllers,     \* threads holding a PtyController
  ReleaseExports,  \* does the backend export ReleasePseudoConsole? (a set of answers)
  EarlySplit,      \* may the pipe halves and controllers act during spawn_root?
  EofOnRootExit,   \* the session option eof_on_root_exit
  SpawnMayFail,    \* may creating a close worker thread fail?
  WorkerMayDie     \* may a gated worker vanish before it reads its gate?

AppThreads == {"reader", "writer", "spawner"} \cup Controllers
Requesters == {"writer", "spawner"}
Workers    == {"writerWorker", "spawnerWorker"}
WorkerOf(t) == IF t = "writer" THEN "writerWorker" ELSE "spawnerWorker"
Holders    == AppThreads \cup {"watcher"}
Threads    == Holders \cup Workers \cup {"dropWorker"}
NoThread   == "nobody"

ASSUME ControllersAreDistinct ==
  Controllers \cap ({"reader", "writer", "spawner", "watcher", "dropWorker", NoThread}
                      \cup Workers) = {}
ASSUME SwitchesAreBoolean ==
  /\ ReleaseExports \subseteq BOOLEAN
  /\ {EarlySplit, EofOnRootExit, SpawnMayFail, WorkerMayDie} \subseteq BOOLEAN

VARIABLES
  lock,            \* holder of the state mutex across a backend call
  released, reader, close,           \* State.released, State.reader, State.close
  refs,            \* holders of a strong Arc<ConsoleShared>
  pc,              \* where each thread is
  closing,         \* threads inside backend.close
  hpcon,           \* the handle itself: "live", "closed" or "leaked"
  attached,        \* Session.attached
  closeLegacy,     \* LegacyWaitContext.close_legacy
  releaseExport,   \* whether this backend has the release export
  root,            \* the root process: "none", "running" or "exited"
  clients,         \* is any process of the tree attached to the console?
  host,            \* the console host: "up" or "down"
  conout           \* the output pipe: "empty", "buffered" or "full"

core    == <<lock, released, reader, close>>
handle  == <<closing, hpcon>>
session == <<attached, closeLegacy, releaseExport>>
os      == <<root, clients, host, conout>>
vars    == <<core, refs, pc, handle, session, os>>

Init ==
  /\ lock = NoThread /\ released = FALSE
  /\ reader = "Open" /\ close = "NotRequested"
  /\ refs = AppThreads
  /\ pc = [t \in Threads |->
             CASE t = "spawner" -> "idle"
               [] t = "watcher" -> "unarmed"
               [] t \in Workers \cup {"dropWorker"} -> "none"
               [] OTHER -> "open"]
  /\ closing = {} /\ hpcon = "live"
  /\ attached = FALSE /\ closeLegacy = FALSE /\ releaseExport \in ReleaseExports
  /\ root = "none" /\ clients = FALSE /\ host = "up" /\ conout = "empty"

-----------------------------------------------------------------------------
(* Thread t runs its next piece of code, which is not inside backend.close. *)
At(t, from)       == t \notin closing /\ pc[t] = from
Goto(t, from, to) == At(t, from) /\ pc' = [pc EXCEPT ![t] = to]

Unlocked == lock = NoThread

(* The front ends spawn before they hand the halves out.                   *)
HandlesOut == EarlySplit \/ pc["spawner"] \in {"dropping", "gone"}

ReadEndClosed == pc["reader"] # "open"
CloseEntered  == closing # {} \/ hpcon = "closed"

(* execute_close: claim under the lock, then call the backend outside it.  *)
ExecuteClose(t) ==
  /\ close' = "Done"
  /\ closing' = closing \cup {t}

(* request_close leaves a released session with a live reader to natural EOF. *)
Deferred == reader = "Open" /\ released

RequestClose(t) ==
  /\ Goto(t, "request", "dropping")
  /\ Unlocked
  /\ IF close = "Done" THEN UNCHANGED <<close, closing>>
     ELSE IF Deferred THEN close' = "Requested" /\ UNCHANGED closing
     ELSE ExecuteClose(t)
  /\ UNCHANGED <<lock, released, reader, refs, hpcon, session, os>>

-----------------------------------------------------------------------------
(* The conout reader.                                                      *)

ReadOutput ==
  /\ HandlesOut /\ At("reader", "open")
  /\ conout # "empty" /\ conout' = "empty"
  /\ UNCHANGED <<core, refs, pc, handle, session, root, clients, host>>

(* Mutant: a read of zero bytes into an empty buffer is taken for the end. *)
NotifyEmptyRead ==
  /\ HandlesOut /\ At("reader", "open") /\ Unlocked
  /\ conout = "empty"
  /\ reader = "Open" /\ reader' = "Drained"
  /\ IF close = "Done" THEN UNCHANGED <<close, closing>> ELSE ExecuteClose("reader")
  /\ UNCHANGED <<lock, released, refs, pc, hpcon, session, os>>

(* The first read that returns end-of-file reports it (saw_eof).           *)
NotifyReaderEof ==
  /\ HandlesOut /\ At("reader", "open") /\ Unlocked
  /\ host = "down" /\ conout = "empty"
  /\ reader = "Open" /\ reader' = "Drained"
  /\ IF close = "Done" THEN UNCHANGED <<close, closing>> ELSE ExecuteClose("reader")
  /\ UNCHANGED <<lock, released, refs, pc, hpcon, session, os>>

DropReaderFile ==
  /\ HandlesOut /\ Goto("reader", "open", "fileClosed")
  /\ UNCHANGED <<core, refs, handle, session, os>>

NotifyReaderClosed ==
  /\ Goto("reader", "fileClosed", "dropping") /\ Unlocked
  /\ reader' = "Closed"
  /\ IF close = "Requested" THEN ExecuteClose("reader") ELSE UNCHANGED <<close, closing>>
  /\ UNCHANGED <<lock, released, refs, hpcon, session, os>>

-----------------------------------------------------------------------------
(* The conin writer, and request_close_detached for its two callers: input *)
(* retirement and the clean-up after a watcher that could not be armed.    *)

DropWriterFile ==
  /\ HandlesOut /\ Goto("writer", "open", "fileClosed")
  /\ UNCHANGED <<core, refs, handle, session, os>>

RequestCloseAfterInput ==
  /\ Goto("writer", "fileClosed", IF attached THEN "detach" ELSE "dropping")
  /\ UNCHANGED <<core, refs, handle, session, os>>

IsReleased(t) ==
  /\ Goto(t, "detach", IF released THEN "request" ELSE "spawnWorker")
  /\ Unlocked
  /\ UNCHANGED <<core, refs, handle, session, os>>

SpawnGatedClose(t) ==
  /\ At(t, "spawnWorker")
  /\ \/ pc' = [pc EXCEPT ![t] = "claim", ![WorkerOf(t)] = "waiting"]
     \/ SpawnMayFail /\ pc' = [pc EXCEPT ![t] = "dropping"]
  /\ UNCHANGED <<core, refs, handle, session, os>>

(* A worker that is not needed is sent false and ends.                     *)
Cancel(t, next) ==
  /\ pc' = [pc EXCEPT ![t] = next, ![WorkerOf(t)] = "done"]
  /\ UNCHANGED close

(* Mutant: Done is not checked again after the worker was created.         *)
ClaimWithoutRecheck(t) ==
  /\ At(t, "claim") /\ Unlocked
  /\ IF released THEN Cancel(t, "request")
                 ELSE close' = "Done" /\ pc' = [pc EXCEPT ![t] = "handoff"]
  /\ UNCHANGED <<lock, released, reader, refs, handle, session, os>>

ClaimForWorker(t) ==
  /\ At(t, "claim") /\ Unlocked
  /\ CASE close = "Done" -> Cancel(t, "dropping")
       [] close # "Done" /\ released -> Cancel(t, "request")
       [] OTHER -> close' = "Done" /\ pc' = [pc EXCEPT ![t] = "handoff"]
  /\ UNCHANGED <<lock, released, reader, refs, handle, session, os>>

(* Mutant: the claim is made but the worker is never told.                 *)
ForgetToSend(t) ==
  /\ Goto(t, "handoff", "dropping")
  /\ UNCHANGED <<core, refs, handle, session, os>>

SendStart(t) ==
  /\ At(t, "handoff")
  /\ pc' = IF pc[WorkerOf(t)] = "waiting"
             THEN [pc EXCEPT ![t] = "dropping", ![WorkerOf(t)] = "go"]
             ELSE [pc EXCEPT ![t] = "restore"]
  /\ UNCHANGED <<core, refs, handle, session, os>>

(* Mutant: a failed hand-over leaves the session in Done.                  *)
LeaveClaimed(t) ==
  /\ Goto(t, "restore", "dropping") /\ Unlocked
  /\ UNCHANGED <<core, refs, handle, session, os>>

RestoreRetry(t) ==
  /\ Goto(t, "restore", "dropping") /\ Unlocked
  /\ close' = "NotRequested"
  /\ UNCHANGED <<lock, released, reader, refs, handle, session, os>>

WorkerClose(w) ==
  /\ Goto(w, "go", "done")
  /\ closing' = closing \cup {w}
  /\ UNCHANGED <<core, refs, hpcon, session, os>>

WorkerDies(w) ==
  /\ WorkerMayDie /\ Goto(w, "waiting", "dead")
  /\ UNCHANGED <<core, refs, handle, session, os>>

-----------------------------------------------------------------------------
(* spawn_root: one attempt after another until a child is attached.        *)

BeginCreate ==
  /\ Goto("spawner", "idle", "creating")
  /\ Unlocked /\ close # "Done"
  /\ lock' = "spawner"
  /\ UNCHANGED <<released, reader, close, refs, handle, session, os>>

EndCreate ==
  /\ At("spawner", "creating")
  /\ \/ /\ host = "up"
        /\ pc' = [pc EXCEPT !["spawner"] = "created"]
        /\ root' = "running" /\ clients' = TRUE
     \/ pc' = [pc EXCEPT !["spawner"] = "idle"] /\ UNCHANGED <<root, clients>>
  /\ lock' = NoThread
  /\ UNCHANGED <<released, reader, close, refs, handle, session, host, conout>>

(* The caller reports the failed spawn and drops what it built.            *)
GiveUp ==
  /\ Goto("spawner", "idle", "dropping")
  /\ UNCHANGED <<core, refs, handle, session, os>>

MarkAttached ==
  /\ Goto("spawner", "created", "release")
  /\ attached' = TRUE
  /\ UNCHANGED <<core, refs, handle, closeLegacy, releaseExport, os>>

BeginRelease ==
  /\ At("spawner", "release") /\ Unlocked
  /\ IF close = "Done" \/ released \/ ~releaseExport
       THEN pc' = [pc EXCEPT !["spawner"] = "arm"] /\ UNCHANGED lock
       ELSE pc' = [pc EXCEPT !["spawner"] = "releasing"] /\ lock' = "spawner"
  /\ UNCHANGED <<released, reader, close, refs, handle, session, os>>

EndRelease ==
  /\ Goto("spawner", "releasing", "arm")
  /\ released' \in BOOLEAN
  /\ lock' = NoThread
  /\ UNCHANGED <<reader, close, refs, handle, session, os>>

(* Mutant: a backend whose release call failed is still taken as released. *)
CloseLegacyByExport == ~releaseExport /\ EofOnRootExit

(* should_close_legacy_on_root_exit: the outcome of the release call counts. *)
CloseLegacyOnRootExit == ~released /\ EofOnRootExit

(* Without a watcher the tree is terminated and the session retired.       *)
ArmRootWatcher ==
  /\ At("spawner", "arm")
  /\ \/ /\ pc' = [pc EXCEPT !["spawner"] = "dropping", !["watcher"] = "armed"]
        /\ closeLegacy' = CloseLegacyOnRootExit
        /\ UNCHANGED <<root, clients>>
     \/ /\ pc' = [pc EXCEPT !["spawner"] = "detach"]
        /\ root' = "exited" /\ clients' = FALSE
        /\ UNCHANGED closeLegacy
  /\ UNCHANGED <<core, refs, handle, attached, releaseExport, host, conout>>

-----------------------------------------------------------------------------
(* The root watcher, from the registered wait to request_close.  The grace *)
(* it grants an unfinished reader is a delay, which a step may always take. *)

RootWaitFires ==
  /\ Goto("watcher", "armed", "fired")
  /\ root = "exited"
  /\ clients' = FALSE
  /\ UNCHANGED <<core, refs, handle, session, root, host, conout>>

UpgradeShared ==
  /\ At("watcher", "fired")
  /\ IF closeLegacy /\ refs # {}
       THEN pc' = [pc EXCEPT !["watcher"] = "request"] /\ refs' = refs \cup {"watcher"}
       ELSE pc' = [pc EXCEPT !["watcher"] = "gone"] /\ UNCHANGED refs
  /\ UNCHANGED <<core, handle, session, os>>

-----------------------------------------------------------------------------
(* Controllers: a call either is refused after the claim or borrows the    *)
(* handle with the lock held.                                              *)

(* Mutant: the call is made whatever State.close says.                     *)
BorrowUnchecked(c, call) ==
  /\ HandlesOut /\ Goto(c, "open", call)
  /\ Unlocked
  /\ lock' = c
  /\ UNCHANGED <<released, reader, close, refs, handle, session, os>>

Borrow(c, call) ==
  /\ HandlesOut /\ Goto(c, "open", call)
  /\ Unlocked /\ close # "Done"
  /\ lock' = c
  /\ UNCHANGED <<released, reader, close, refs, handle, session, os>>

Resize(c) == Borrow(c, "resizing")
Clear(c)  == Borrow(c, "clearing")

EndCall(c) ==
  /\ pc[c] \in {"resizing", "clearing"} /\ pc' = [pc EXCEPT ![c] = "open"]
  /\ lock' = NoThread
  /\ UNCHANGED <<released, reader, close, refs, handle, session, os>>

-----------------------------------------------------------------------------
(* Dropping a strong reference; the last one runs Drop for ConsoleShared.  *)

(* Mutant: a closed read end is taken to make the legacy close prompt.     *)
DetachOnlyWhileOpen == ~released /\ reader = "Open"

DropDetaches == ~released /\ reader # "Drained"

FinalDrop(t) ==
  /\ close' = "Done"
  /\ IF DropDetaches
       THEN \/ closing' = closing \cup {"dropWorker"} /\ UNCHANGED hpcon
            \/ SpawnMayFail /\ hpcon' = "leaked" /\ UNCHANGED closing
       ELSE closing' = closing \cup {t} /\ UNCHANGED hpcon

(* Mutant: the final drop only completes a close that was asked for.       *)
DropWithoutFinalDefense(t) ==
  /\ IF t \in Controllers THEN HandlesOut /\ Goto(t, "open", "gone")
                          ELSE Goto(t, "dropping", "gone")
  /\ refs' = refs \ {t}
  /\ IF refs' = {} /\ close = "Requested" THEN FinalDrop(t)
                                           ELSE UNCHANGED <<close, handle>>
  /\ UNCHANGED <<lock, released, reader, session, os>>

DropHandle(t) ==
  /\ IF t \in Controllers THEN HandlesOut /\ Goto(t, "open", "gone")
                          ELSE Goto(t, "dropping", "gone")
  /\ refs' = refs \ {t}
  /\ IF refs' = {} /\ close # "Done" THEN FinalDrop(t)
                                      ELSE UNCHANGED <<close, handle>>
  /\ UNCHANGED <<lock, released, reader, session, os>>

-----------------------------------------------------------------------------
(* The operating system: the backend's close, the console host, the pipe   *)
(* and the processes.                                                      *)

(* Prompt on a released host; otherwise it lasts until the host is gone.   *)
CloseReturns(t) ==
  /\ t \in closing
  /\ released \/ host = "down"
  /\ closing' = closing \ {t} /\ hpcon' = "closed"
  /\ UNCHANGED <<core, refs, pc, session, os>>

HostWrites ==
  /\ host = "up" /\ clients
  /\ conout # "full"
  /\ conout' = IF conout = "empty" THEN "buffered" ELSE "full"
  /\ UNCHANGED <<core, refs, pc, handle, session, root, clients, host>>

(* Also the effect of Child::kill and of dropping the Child.               *)
RootExits ==
  /\ root = "running" /\ root' = "exited"
  /\ clients' \in {clients, FALSE}
  /\ UNCHANGED <<core, refs, pc, handle, session, host, conout>>

OrphansExit ==
  /\ root = "exited" /\ clients /\ clients' = FALSE
  /\ UNCHANGED <<core, refs, pc, handle, session, root, host, conout>>

(* CTRL_CLOSE_EVENT, or the end of conin on a host with the release export. *)
ClientsTold == CloseEntered \/ (released /\ pc["writer"] # "open")

ClientsLeave ==
  /\ clients /\ ClientsTold
  /\ clients' = FALSE /\ root' = "exited"
  /\ UNCHANGED <<core, refs, pc, handle, session, host, conout>>

(* The host leaves once nobody needs it and its last output has a place.   *)
HostExits ==
  /\ host = "up" /\ ~clients
  /\ released \/ CloseEntered
  /\ conout # "full" \/ ReadEndClosed
  /\ host' = "down"
  /\ UNCHANGED <<core, refs, pc, handle, session, root, clients, conout>>

HostDies ==
  /\ host = "up" /\ host' = "down"
  /\ clients' = FALSE
  /\ UNCHANGED <<core, refs, pc, handle, session, root, conout>>

(* Everything ended: the only state in which nothing is left to do.        *)
Finished ==
  /\ refs = {} /\ closing = {} /\ hpcon # "live"
  /\ \A w \in Workers : pc[w] \in {"none", "done", "dead"}
  /\ pc["watcher"] \in {"unarmed", "gone"}
  /\ UNCHANGED vars

-----------------------------------------------------------------------------
ReaderSteps  == NotifyReaderEof \/ NotifyReaderClosed
DetachSteps(t) ==
  \/ IsReleased(t) \/ SpawnGatedClose(t) \/ ClaimForWorker(t)
  \/ SendStart(t) \/ RestoreRetry(t)
WorkerSteps  == \E w \in Workers : WorkerClose(w) \/ WorkerDies(w)
SpawnerSteps ==
  \/ BeginCreate \/ EndCreate \/ GiveUp \/ MarkAttached
  \/ BeginRelease \/ EndRelease \/ ArmRootWatcher
ControllerSteps == \E c \in Controllers : Resize(c) \/ Clear(c) \/ EndCall(c)
OsSteps ==
  \/ \E t \in Threads : CloseReturns(t)
  \/ HostWrites \/ RootExits \/ OrphansExit \/ ClientsLeave \/ HostExits \/ HostDies

Next ==
  \/ ReadOutput \/ ReaderSteps \/ DropReaderFile
  \/ DropWriterFile \/ RequestCloseAfterInput
  \/ \E t \in Requesters : DetachSteps(t)
  \/ \E t \in Requesters \cup {"watcher"} : RequestClose(t)
  \/ WorkerSteps \/ SpawnerSteps
  \/ RootWaitFires \/ UpgradeShared
  \/ ControllerSteps
  \/ \E t \in Holders : DropHandle(t)
  \/ OsSteps
  \/ Finished

Spec == Init /\ [][Next]_vars

(***************************************************************************)
(* Fairness.  A thread that is runnable runs its next step, and a thread   *)
(* waiting for the state mutex, which is never kept across anything that   *)
(* blocks, gets it in the end (strong fairness).  The reader keeps reading *)
(* as long as it exists.  Nobody is obliged to close a file, to drop a     *)
(* controller, to call resize, to exit a process or to write output.       *)
(***************************************************************************)
ReaderRuns  == ReadOutput \/ ReaderSteps \/ DropHandle("reader")
WriterRuns  == RequestCloseAfterInput \/ DetachSteps("writer") \/ RequestClose("writer")
                 \/ DropHandle("writer")
SpawnerRuns == SpawnerSteps \/ DetachSteps("spawner") \/ RequestClose("spawner")
                 \/ DropHandle("spawner")
WatcherRuns == RootWaitFires \/ UpgradeShared \/ RequestClose("watcher") \/ DropHandle("watcher")

Fairness ==
  /\ SF_vars(ReaderRuns) /\ SF_vars(WriterRuns)
  /\ SF_vars(SpawnerRuns) /\ SF_vars(WatcherRuns)
  /\ \A w \in Workers : WF_vars(WorkerClose(w))
  /\ WF_vars(\E c \in Controllers : EndCall(c))
  /\ WF_vars(\E t \in Threads : CloseReturns(t))
  /\ WF_vars(ClientsLeave) /\ WF_vars(HostExits)

FairSpec == Spec /\ Fairness

-----------------------------------------------------------------------------
PcValues ==
  {"open", "fileClosed", "dropping", "gone", "detach", "request", "spawnWorker",
   "claim", "handoff", "restore", "idle", "creating", "created", "release",
   "releasing", "arm", "unarmed", "armed", "fired", "resizing", "clearing",
   "none", "waiting", "go", "done", "dead"}

(* Every variable has its type.                                            *)
TypeOK ==
  /\ lock \in AppThreads \cup {NoThread}
  /\ released \in BOOLEAN
  /\ reader \in {"Open", "Drained", "Closed"}
  /\ close \in {"NotRequested", "Requested", "Done"}
  /\ refs \subseteq Holders
  /\ pc \in [Threads -> PcValues]
  /\ closing \subseteq Threads
  /\ hpcon \in {"live", "closed", "leaked"}
  /\ attached \in BOOLEAN /\ closeLegacy \in BOOLEAN /\ releaseExport \in BOOLEAN
  /\ root \in {"none", "running", "exited"}
  /\ clients \in BOOLEAN
  /\ host \in {"up", "down"}
  /\ conout \in {"empty", "buffered", "full"}

(* Every claim is on its way to one backend.close: whoever holds the token  *)
(* is in the call, was told to make it, or is about to tell a worker.      *)
TokenPcs     == {"go", "handoff", "restore"}
OwnsClose(t) == t \in closing \/ pc[t] \in TokenPcs
Owners       == {t \in Threads : OwnsClose(t)}

(* ClosePseudoConsole is entered once: two threads never own the close,    *)
(* and nobody owns it when it has returned or was given up (the `Done'     *)
(* claim of execute_close, request_close_detached and Drop).               *)
SoleCloser ==
  /\ \A s, t \in Threads : OwnsClose(s) /\ OwnsClose(t) => s = t
  /\ hpcon # "live" => \A t \in Threads : ~OwnsClose(t)

(* The HPCON is never stranded: a session in Done has been closed, was     *)
(* leaked by a failed thread creation, or has an owner who will close it   *)
(* or make it claimable again.                                             *)
NoStrandedClaim ==
  close = "Done" => hpcon # "live" \/ \E t \in Threads : OwnsClose(t)

(* While a backend call borrows the HPCON under the lock (resize, clear,   *)
(* release, CreateProcess), no close has been claimed or entered.          *)
BorrowedIsLive ==
  lock # NoThread => close # "Done" /\ hpcon = "live" /\ \A t \in Threads : ~OwnsClose(t)

(* A request left pending is always one a reader transition will complete: *)
(* only a released session with a live reader defers.                      *)
PendingIsDeferred ==
  close = "Requested" => released /\ reader = "Open"

(* A thread of the application (reader, writer, controller, spawner) that  *)
(* is inside ClosePseudoConsole cannot be kept there: the backend is a     *)
(* released one or the console host is gone, in every drop order.          *)
PromptOnAppThreads ==
  \A t \in AppThreads \cap closing : released \/ host = "down"

(* Both together: a close that somebody asked for neither waits for an     *)
(* event that will not come nor hangs the application that carries it out. *)
ClosesAreServed == PendingIsDeferred /\ PromptOnAppThreads

(***************************************************************************)
(* The inductive invariant behind the properties above.  Tokens follows    *)
(* the claim through its three stages and Gates the worker that may carry  *)
(* it; Locking says what holding the mutex and being alive imply;          *)
(* ReleaseMode ties the released flag to the threads that acted on it.     *)
(***************************************************************************)
Lifecycle ==
  \/ close # "Done" /\ hpcon = "live" /\ Owners = {}
  \/ close = "Done" /\ hpcon = "live" /\ \E o \in Threads : Owners = {o}
  \/ close = "Done" /\ hpcon # "live" /\ Owners = {}

Tokens == Lifecycle /\ \A t \in closing : pc[t] \notin TokenPcs

Gates ==
  /\ \A t \in Requesters :
       /\ pc[WorkerOf(t)] # "none" =>
            pc[t] \in {"claim", "handoff", "restore", "request", "dropping", "gone"}
       /\ pc[WorkerOf(t)] = "go" => pc[t] \in {"dropping", "gone"}
  /\ \A t \in Workers : pc[t] \notin {"handoff", "restore"}
  /\ pc["watcher"] \notin TokenPcs

Locking ==
  /\ lock # NoThread =>
       /\ close # "Done" /\ lock \in refs
       /\ pc[lock] \in {"resizing", "clearing", "creating", "releasing"}
  /\ \A t \in AppThreads : pc[t] # "gone" => t \in refs

ReleaseMode ==
  /\ PendingIsDeferred
  /\ pc["spawner"] = "releasing" => ~released
  /\ \A t \in Requesters : pc[t] = "request" => released
  /\ reader = "Drained" => host = "down"
  /\ PromptOnAppThreads

IInv == TypeOK /\ Tokens /\ Gates /\ Locking /\ ReleaseMode

(* The lifecycle core implements the close-once promise.                   *)
Promise ==
  INSTANCE CloseOnce WITH
    User    <- Threads,
    handle  <- IF hpcon # "live" THEN hpcon
               ELSE IF close = "Done" THEN "claimed" ELSE "live",
    users   <- {lock} \ {NoThread},
    closers <- closing
ImplementsCloseOnce == Promise!Spec

(* Once the root has exited under an armed watcher, a reader that keeps    *)
(* reading reaches end-of-file: naturally on a released session, through   *)
(* the watcher's close on a legacy one.                                    *)
EofAfterRootExit ==
  (root = "exited" /\ pc["watcher"] # "unarmed") ~> reader # "Open"

(* Dropping the writer of a running session ends it, even though closing   *)
(* conin alone does not disconnect clients on a legacy host: the reader    *)
(* reaches end-of-file unless the close worker could not be created.       *)
InputRetired ==
  /\ pc["writer"] = "gone" /\ pc["watcher"] # "unarmed"
  /\ released \/ pc["writerWorker"] # "none"
InputCloseEndsSession == InputRetired ~> reader # "Open"

(* Every ClosePseudoConsole that is entered returns, and with it the HPCON *)
(* is freed: the thread inside it is never one the host is waiting for.    *)
EnteredCloseReturns == closing # {} ~> hpcon = "closed"

(* blocking/builder.rs:74-75: "a released session reaches end-of-file      *)
(* naturally and never starts a watcher".                                  *)
ReleasedStartsNoWatcher == released => pc["watcher"] = "unarmed"

(* When all handles are gone, in any order, the HPCON does not stay live.  *)
LastDropFrees == refs = {} ~> hpcon # "live"
=============================================================================
