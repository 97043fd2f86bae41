# Verification of conpty-oxide

This directory holds TLA+ models of conpty-oxide and of its contributor tools,
the TLC configurations that check them on small instances, and proofs of their
main safety properties for every size of instance. The library runs programs under a
Windows pseudoconsole (ConPTY) and offers one session type to blocking code and
one to Tokio. Nearly everything that is hard about it is a question of *who may
call what, when, on which thread, and who is left to do it if somebody fails*.

- `PROJECT.json`: components, runs, mutants, the map from every definition to
  the source lines it stands for, hazards, findings, theorems.
- `X.tla` with `X.cfg` is a model and its run; `XProofs.tla` its proofs;
  `MCPseudoCon` adds what only TLC needs, `MCTools` composes the modules of the
  sequential tools, which have no `.cfg` of their own.

## 1. The system

A session is a pseudoconsole handle (`HPCON`), two pipes (conin, conout), a root
process in a Job object, and a console host process that outlives the crate's
view of all of them. The crate meets the console host in two modes. A *released*
host (Windows 11 24H2 and bundled `conpty.dll`) leaves by itself when its last
client is gone. A *legacy* host stays until `ClosePseudoConsole`, which then
blocks until the host has flushed its output, hence until somebody reads conout.
Which mode holds is known only once `ReleasePseudoConsole` has returned.

| Component | State | Operations | What makes it correct |
|---|---|---|---|
| Lifecycle core, `core/pseudocon.rs` | `State { released, reader, close }` behind a mutex, the `HPCON`, the Arcs that keep it alive | reader EOF / closed, request close (immediate, deferred, detached), borrow for resize / clear / release / spawn, final Drop | the handle is closed exactly once or leaked, never while borrowed, never by a thread the host is waiting for; a request is never forgotten |
| Session and spawn, `core/session.rs` | `attached`, `spawned` | reserve, create child, attach, release, arm watcher, clean up; retire input | one root child, whoever competes; every partial failure leaves a session that still ends |
| Root watcher, `core/wait.rs` | a heap context shared by raw pointer with a thread-pool callback and its worker; a slot for the wait handle | register, publish, callback, worker, fallback without worker, unregister, free | context used only while it lives and always reclaimed; tree ended and legacy close requested after root exit |
| Registered child wait, `core/wait.rs`, `tokio/command.rs` | result, Waker, three ownership flags, the context | poll, cancel, resume, `try_wait`, drop, callback | no lost wake-up; Drop neither deadlocks nor frees under the callback |
| Blocking collection, `blocking/session.rs` | reader thread, a one-slot channel, optional owned parts | poll root, receive, join, kill, drop in order | returns; reports the root's own status and all output; nothing left behind |
| Tokio collection, `tokio/session.rs` | one future: poll position, output end seen, wakers | poll, suspend, wake, drain, cancel | as above, and safe to drop at any await |
| Overlapped pipes, `core/pipes/overlapped.rs` | a name counter, four handles, an `OVERLAPPED` the kernel writes to | name, create, open, confirm, await, cancel, drain or leak | memory outlives the connect; all four ends or none; bounded |
| Blocking and Tokio pipe halves, `*/pty.rs` | the pipe, `saw_eof`, an overlapped operation | read, write, shutdown, drop | the handle is given up even if the host never serves another operation; pipe first, notification second |
| Backend, `backend.rs`, `backend/exports.rs` | a process-wide cache of the first success; per backend a function table and a library reference | auto, from_dir, system, clone, call, drop | one detection; failure is retryable; no code runs in an unmapped DLL |
| Bundle verification, `backend/bundle.rs` | none; reads two files somebody may replace | find host, read versions, compare, load | the host launched is the DLL's own |
| Bundle installation, `xtask/fetch_conpty.rs` | a package cache and a bundle directory on disk | download, rename, verify, extract, compare | a kill leaves nothing that is later trusted |
| Release verification, `xtask/verify_release.rs` | the evidence so far | one query or check after another | all evidence is about the same bytes and the same commit |
| Workflow shells, `xtask/workflow_shells.rs` | the scan position, blocks found | scan, check, count | no Bash block escapes ShellCheck |
| Source policy, `xtask/source_policy.rs` | two fields of a visitor, saved and restored | walk files and syntax | reports what is forbidden, and nothing else |
| Child, Job, process creation | status cache, Job handle | kill, drop | appears inside the components that depend on it |
| Anonymous pipes, options, sizes, errors, builders; package and API checks | values | none | not modelled, see section 7 |

How they interact: the front ends build the pipes and the core, spawn the root
through `spawn_root`, and only then hand out the halves. Reader, writer and
controllers hold Arcs of the core and *call* it; the root watcher holds Weak
references to core and Job and calls both from a thread-pool callback or a worker
it starts; detached closes run on threads that hold nothing but a backend clone.
The collectors own all parts of a session and decide the order in which they die.
Every HPCON is accompanied by a clone of its backend, also into a detached close.
The bundle is shared between processes through the file system only: an installer
writes what library processes validate, map, and later launch the host from.

What is hard: every drop order is legal; the last reference may go on any thread;
thread creation, release, Job termination and unregistration may fail; a
callback may run before the handle it needs is published; a Waker is user code
that may run the poll, and the drop, on the callback's own thread; a future
may be dropped at every await; an overlapped operation may outlive the half that
submitted it; first callers of `auto` race while the bundle changes; and an
installer may be killed between any two writes.

## 2. Modules

    CloseOnce        <- refined by -  PseudoCon    (PseudoConProofs)
    CallbackContext  <- refined by -  RootWatcher  (RootWatcherProofs)
    CallbackContext  <- refined by -  ChildWait    (ChildWaitProofs)
    ManagedTree <- extended by - Collection <- extended by - BlockingCollect,
                                      TokioCollect    (CollectProofs, for both)
    OverlappedConnect                 (OverlappedConnectProofs)
    SessionIo                         (SessionIoProofs)
    BackendCache                      (BackendCacheProofs)
    SourceTokens <- extended by - SourcePolicy
    MCTools = BundleFiles | VersionPair | ReleaseVerify | WorkflowShells | SourcePolicy
                                      (ToolsProofs)

**CloseOnce** and **CallbackContext** are the abstract promises: a handle that is
used exclusively while live and closed once; an allocation that is used while it
exists and freed once, unused. Neither knows how.

**PseudoCon** is the lifecycle core with everything that drives it. One thread
each for the reader, the writer, the spawner and every controller; the root
watcher; the close worker of the writer, of the spawner, and of the final Drop.
`pc[t]` is where a thread is, `closing` the threads inside `ClosePseudoConsole`.
A step is one critical section of the state mutex or one call that leaves the
crate; `lock` is explicit because four backend calls are made with the mutex
held. `refs` is the set of strong references, so `DropHandle` of the last one is
`Drop for ConsoleShared`. The detached close keeps the code's stages: decide
(`IsReleased`), create the gated worker, claim under the lock with a recheck,
open the gate, and withdraw the claim if the worker is gone. The operating
system is part of the module (root, clients, host, conout), because a close that
must not block can only be told from one that may by what the host waits for.

**RootWatcher** zooms into what PseudoCon calls `watcher`: registration, the
publication of the wait handle *after* the registration is live, the callback, its
worker, the fallback in which the callback does the worker's job, Condvar wait
with spurious wake-ups, unregistration and freeing.

**ChildWait** follows one registration of `Child::wait` through all its uses:
polls by different tasks, cancellation, `try_wait`, inline polling inside the
callback's Waker, and Drop on either thread in each of its three ways out
(unregister without waiting, unregister and wait, leave it to the callback).

**ManagedTree** is the world a collector sees: root with output it must get rid
of before it can exit, descendants that keep the console, host, bounded pipe,
input end, and the watcher's effect. It takes from PseudoCon what that module
shows: a released host leaves by itself, a legacy close is entered after root
exit or on input retirement.

**Collection** is what both collectors share: the variables of the world together
with the collector's own, and the promises (`SuccessIsWhole`, `NothingLeftBehind`,
`InputOutlivesRoot`). **BlockingCollect** and **TokioCollect** are the two
implementations of `wait`/`collect_output`. The blocking one is two threads and a channel; the Tokio
one a state machine whose suspension records which Wakers it registered
(`wakers`), so a forgotten registration is a task that sleeps for ever, and whose
cancellation is a step at every suspension point.

**OverlappedConnect** has several threads create both pipe pairs at once: names
from the shared counter, retries on collision, and the connect with timeout,
cancellation and deliberate leak against a kernel that answers when it likes.

**SessionIo** is the session around the core: several spawners compete for the
`spawned` reservation, and a spawn fails before the child exists (the session is
free again) or after (it is retired, its tree killed and a close asked for). Each
pipe half has its Rust value (`half`), its operation in the kernel (`op`) and its
OS handle (`handle`), which in Tokio stays until the driver has seen the last
operation end; a write is cancelled with `CancelIoEx` before the drop, a read by
mio. The close itself is PseudoCon's; here it is only `requested`.

**BackendCache** is `auto` over its `SuccessfulCache` with `from_dir` beside it:
the double-checked cell, a mutex a panic may poison, the bundle tried first and
the operating system second. A library reference (`guards`) belongs to the
thread still inside `load_from_dir` or to a finished `BackendInner`; threads
call, clone into a close worker, and drop in any order.

**BundleFiles** puts the installer and several loading processes on one bundle
directory. The installer runs again and again, for any version, and is killed
anywhere. A loader may be emulated, and `IsWow64Process2` may have no answer for it:
it then goes by what it was compiled for, as `native_machine` does. **VersionPair** is the comparison the loaders rely on, one step per
field read, against a reference definition over all small version texts.
**ReleaseVerify** chooses every answer of GitHub, crates.io and the local files
when it is asked for; what was accepted is recorded, and the property is about
the record. **WorkflowShells** renders a workflow's steps to indented lines, in
forms the parser reads and in forms it misses, and compares what it finds with the
scripts the runner would be given. **SourcePolicy** grows the syntax tree while it
is walked, with a ghost (`forbidden`) that judges each node by where it really
stands, not by the visitor's two fields. **SourceTokens** holds what it looks for in
attributes and in the tokens of macro calls, as recursive functions beside a
reference definition; it has neither constants nor variables, so TLC evaluates its
verdicts once. **MCTools** runs one of these per behaviour, chosen by
`command`, as `xtask/src/main.rs` dispatches one subcommand.

Definitions marked `Mutant:` are not part of a model. Each is a plausible bug in
the definition after it; substituted for it, the property named in
`PROJECT.json` fails. They document what every property is sensitive to.

## 3. Runs

| Run | Question | Instance |
|---|---|---|
| `lifecycle_safety` | Is no claim stranded (`NoStrandedClaim`), no borrowed handle claimed or closed (`BorrowedIsLive`), no request left without a reader and no application thread kept inside `ClosePseudoConsole` (`ClosesAreServed`)? Does the core refine `CloseOnce`? | two controllers (symmetric), both kinds of backend, halves used before spawn returns (`EarlySplit`), failing and dying workers |
| `lifecycle_liveness` | Does output end after root exit and after input retirement, does every entered close return, and is the handle gone after the last drop? | one controller, front-end order of spawn and hand-out |
| `watcher_documentation` | *Violation.* The builders' documentation says a released session starts no watcher. | as above |
| `root_watcher` | Do callback and worker share the context soundly, is it reclaimed (`ContextReclaimed`), does root exit end the tree and request the close (`RootExitActs`)? | all failures on, root possibly exited before registration |
| `watcher_publication` | *Violation.* Is the context alive for the thread that publishes the handle? | as above |
| `child_wait` | No use after free, no blocking drop under a Waker, no lost wake-up, every drop ends | two tasks |
| `blocking_collect` | A success has the root's own status and all output (`SuccessIsWhole`); nothing left behind; always returns | one-chunk pipe, at most two chunks, every failure on |
| `tokio_collect` | The same for the future, under cancellation at every await; input outlives the root | as above |
| `overlapped_connect` | Memory outlives the connect, all or nothing, always returns | two threads, two attempts, any subset of three foreign names |
| `session_io` | One root per session, no tree without an owner and no dead-end session unclosed, every dropped half gives up its handle | three spawners, both front ends, any of them with kill on drop |
| `backend_cache` | One default, one detection, no code in an unmapped DLL, references balance; `auto` serves once a backend is there to stay | two threads, three allocations, one change of the bundle, one fault |
| `tools` | Host matches the mapped DLL, only verified packages are installed, a bad package does not stick (`FetchRecovers`); pairs are proven; evidence agrees; all Bash is checked if the count is right; exactly the forbidden is reported | two versions, two emulated loaders, one of them without an answer of `IsWow64Process2`; texts of up to three fields, two of which count; two digests and commits, two targets; two steps; five syntax nodes, four deep |

**Why the bounds are enough.** Threads other than controllers are fixed in number
by the code. Two controllers are the fewest that can contend with each other
as well as with a closer; the liveness run needs one, as controllers
only delay others by their one critical section. conout has three levels
(empty, buffered, full), enough to tell a host that can write its last frame from
one that cannot. In the collectors a one-chunk pipe makes every second write
block, and two chunks give a root that must be drained before it can exit plus a
tail. Two tasks are a first and a replacing Waker. In OverlappedConnect two
attempts give a retry and an exhausted budget, and with names {0, 2, 3} held by
others there are schedules in which each thread loses none, one or all of its
attempts; PIPE_NAME_ATTEMPTS is 4 in the code and any positive number in the
proof. Three spawners are one that holds the session, one that is refused, and one
that comes after a failure. In BackendCache two threads are a holder of the
mutex and a waiter, or a caller and the last other clone; the third allocation is the
cached one; a thread asks again only when its close worker has returned, so
retries after failure are unbounded. In BundleFiles a second version makes a
mixture possible, a second loader maps the DLL while the first validates; both are
emulated, and one of them has to go by its own architecture.
Versions have two counting fields (four in the code), so a text may have fewer,
as many, or more than count; `MaxValue + 1` stands for every overflow. Two steps
give WorkflowShells a block that ends because of the next step and one that ends
the file, and one step that is missed beside one that is counted too much; lists of
three tokens or three arguments hold a `#`, a `!` and a bracket, or a predicate and
two attributes; four levels let SourcePolicy nest an item in the `source` method of an
Error implementation inside another item. No state constraint is used: every
state space is finite as it stands.

**Deadlock** is checked in all runs but `session_io`, whose session really ends:
both halves retired, all trees gone, nobody left to spawn. Models whose work ends have an explicit
stuttering step (`Finished`, `Returned`) whose guard describes the only state in which
nothing may be left to do, so a thread stuck anywhere else is reported.

**Fairness.** Threads of the library run, the executor polls woken tasks, the
pool runs queued callbacks, timeouts expire. Threads that wait for the core's
mutex get strong fairness, since the mutex is never held across anything that
blocks but others may take it again and again. A reader that exists keeps
reading: the documentation demands it of the user, and the collectors do it.
The console host leaves when nobody needs it and its output has room, and
clients obey CTRL_CLOSE_EVENT. Nobody is required to drop, cancel, kill, write
or resize. In SessionIo a drop that has begun goes on and the runtime's driver
is polled, and nothing at all is assumed of the console host. In BackendCache
whoever is inside a constructor runs, and a waiter for the mutex gets it
eventually (strong fairness). In BundleFiles a started installer runs on, and is
not killed at the very moment of the verification each time (strong fairness of
`VerifyChecksum`); nobody has to start it. The root has to exit only in the
collector models, where the property is about what follows. Failures are never relied on: where an action
has a failing and a succeeding outcome the fairness conjunct excludes the
failing one (`context' # "leaked"`, `status' # "error"`), so no progress
follows from a failure the kernel need not produce. BackendCache's `LoadFails`
is fair because a missing or broken file does fail; its faults are bounded, and
`AutoServes` speaks of the time after them. `HostDies` is never fair.

## 4. Findings

- **A released session does start a watcher.** `blocking/builder.rs:74-75` and
  `tokio/builder.rs:78` say it never does; `core/session.rs:234-237` arms one
  for every backend, to bound the managed tree. The code is deliberate, the
  sentence is stale.
- **`notify_all` after the context may be gone.** `core/wait.rs:600` unlocks the
  slot's mutex before `notify_all` at 601 uses the Condvar inside the context. If
  the root has already exited, the callback's worker may, between the two, read
  the handle, unregister the wait and free the context. The argument in the
  comments (593, 634-635) is about the callback and does not cover the
  registering thread. Notifying before unlocking closes the window. For this
  reason the refinement of `CallbackContext` by RootWatcher takes callback and
  worker as the users, not the registrar.

## 5. Proofs

`tlapm` checks all theorems below with SMT, Zenon and LS4; constants range over
everything their named assumptions allow (any number of controllers, tasks,
callers and attempts; every setting of the failure switches).

*PseudoConProofs.* The properties of `lifecycle_safety` are not inductive. `IInv`
adds: **Tokens**, the claim and its owner follow three stages (unclaimed and live;
claimed, live, with exactly one owner; claimed and closed or leaked with none),
and nobody inside a close carries a second claim; **Gates**, a gated worker
exists only for a requester past its creation and is told to go only when
the requester is finished with it; **Locking**, whoever holds the mutex across a
call is alive and close is unclaimed; **ReleaseMode**, what threads know of
`released` and of the host stays true. Without Gates two owners could exist
(requester at `handoff`, worker at `go`); without Locking a final Drop could
race a borrower. Each part has its step lemma, one proof step per action.
`TypeCorrect`, `ClosedOnce`, `ClaimNeverStranded`, `BorrowerSeesLiveHandle` and
`RequestsAndClosesEnd` (which states `ClosesAreServed`) follow.

Its last part is the refinement: every step maps to one of CloseOnce's or
stutters; `IInv` says that a borrower excludes a claim and that there is one closer.

*RootWatcherProofs.* `Handover`: a worker exists only when the callback has
nothing left but to return, and frees only after the blocking unregistration saw
it return; without a worker the callback is alone.

*ChildWaitProofs.* `Handshake`: `callback_active` is true exactly between the
callback's first and last critical sections, `owner_dropping` exactly once Drop
has chosen, and `cleanup_after_callback` is set only while the callback still has
to read it. Hence exactly one side frees, and the blocking unregistration is
chosen only when no user code can be running.

*OverlappedConnectProofs.* Memory is released only where the connect was seen to
be over (`SettleMemory`), and what a thread holds is a function of where it is
(`Holdings`), which yields all four ends or none. `Budget` keeps attempts typed.

*SessionIoProofs.* `PlaceTells`: who is creating has no tree yet, who is past it
has one; nobody is inside `spawn_root` once the Pty is split, and a half is only
dropped after the split. Without the last two a spawn could attach a root behind
an input that was retired before and that nobody will ask to close.

*BackendCacheProofs.* `Exclusion`: a thread is between its second look at the
cache and the end of `detect()` exactly while it holds the mutex, poisoned or
not, which gives `DetectedOnce` and, at the store, `SingleDefault`. `Alive`:
whoever holds a clone holds one of an inner that is not free;
`ReferencesBalance` then gives that inner its reference (`CodeStaysMapped`).

*CollectProofs*, for both collectors. `Accounting`: what was written is in the
pipe or collected. `Untouched`: until the collector has seen the root's exit the
input is open and nobody but the watcher, after the exit, has asked for a close, so
no client can have been told to leave and the status cached is the root's own.
The rest says what is known at each place of the code: an output seen to its end
stays ended, the tree is gone before anything that follows it, a future is only
suspended where it polls. `SuccessIsWhole`, `NothingLeftBehind` and
`InputOutlivesRoot` follow for any pipe size and any amount of output; the last
one for the blocking collector, too, where no run checks it.

*ToolsProofs* has one invariant per behaviour of MCTools, and each theorem is one
of the whole of MCTools.
- `BundleInv`: a process no installation has overlapped has looked at the host
  `conpty.dll` would launch, and, at each place of its code, the DLL and the host
  are still the ones it has read (`Undisturbed`); from verification to the last
  write the package is the verified one (`Packages`). `HostMatchesMapped`,
  `OnlyVerifiedInstalled`.
- `PairInv`: where the reader of a version table is, and which fields it has read
  until then (`Digits`, `EndsAt`). `PairIsProven` for any number of components and
  texts of any length; that the first entry that can be read is the one the
  reference picks needs the order of the table in the invariant.
- `EvidenceInv`: for each stage, what all evidence accepted until then says. Lists
  are only compared by length and membership in the code; `ExactList` shows by
  counting (an injection into a finite set as large as its domain) that such a
  list has every asset once and nothing besides, for any set of assets.
- `WalkInv`: the visitor's two fields are right for the innermost item, and what
  each open item saved is right for the one around it (`Stack`), hence also after
  it is closed; so nothing was reported but what is forbidden. `InspectUnfolds`
  shows, with the solution as a witness, that the recursive function `Inspect` is
  defined by its equation, `InspectIsSuppressing` what it computes, and
  `InspectTokensIsForbidden` that the scan of a token list finds a trait object or
  an attribute wherever one can stand, in whatever group; `VerdictsAgree` joins them
  for an attribute, whose list is scanned as well.
- `ScanInv`, for a workflow in which no step in another shell can be counted as
  one in Bash (`Closed`): the scripts handed over so far are, in order, those of the
  steps whose headers the scan recognises and has reached (`Collected`, `Passed`),
  and it is behind their blocks (`Past`), so that no line of theirs is taken for a
  header. What it takes runs in Bash; if it is as many as run in Bash, it has missed
  none (`CountClosesGap`): `AllBashChecked` for a workflow of any length. It rests on
  where the lines of each step are in the file (`File`). `FlattenLayout` shows this
  of the recursion that puts them there; as the prover cannot cite an induction
  theorem, `UpTo` is one over a set, from a least counterexample. What the scan
  makes of these lines is in `HeaderIsStep`, `HeaderIsFound`, `ShellOfStep`,
  `ShellOfText`, `BlockOfStep` and `ContentOfStep`.

*Only model-checked:* all liveness (fairness and ENABLED are outside what the
prover handles); `RootExitActs`, a leads-to; and the property of the documentation
in each run that expects a violation.

## 6. Abstractions

- Sizes, bytes, exit codes, error texts, logging and tracing are data no property
  tells apart. `collect` true or false differ only in what happens to bytes.
- In PseudoCon a root exit reaches the core in one step that also ends the tree;
  RootWatcher refines that step, including failing terminations and fallbacks.
- Dropping a Tokio half only initiates the OS close. SessionIo follows that;
  PseudoCon and the collectors close the end in the step. The code does not rely
  on the difference: every legacy final close after an unread reader is
  detached, which `PromptOnAppThreads` (part of `ClosesAreServed`) checks.
- Several spawners on one session: the public `spawn` takes one at a time per
  `Pty`, but `spawn_root` takes `&self`, and SessionIo claims what its
  reservation promises. `shutdown` before `spawn` is not reachable publicly.
- Collectors: the session is managed, so it always kills on drop, and closing the
  last Job handle ends the tree. The watcher's short-lived upgraded `Arc<Job>` is
  not followed; it could delay kill-on-close only when `Job::terminate` has
  failed twice. Panics that unwind the collecting thread are not followed.
- A Waker that panics is caught by the callback and behaves like one that returns.
- ChildWait follows one registration; a failed exit-code query starts another,
  with a context of its own.
- BackendCache: an image is mapped as long as a reference has an owner; the loader
  lock and DLL initialisation are not followed. Flags, spellings of exports and
  function signatures are data.
- BundleFiles: two installers never run at once, and nobody but the installer
  writes the directory. A DLL replaced between check and load is possible (nothing
  locks the directory), so `HostMatchesMapped` exempts loaders whose validation
  or load overlapped an installation; `overlapped` is the ghost that says so. Where
  `conpty.dll` looks for its host (beside itself, else in the native machine's
  subdirectory) is taken from what `bundle.rs:118-143` says of it. It also exempts an
  emulated loader that gets no answer of `IsWow64Process2` and finds no host beside
  the DLL (`Misled`): the fall-back (`bundle.rs:159-187`) then validates another
  subdirectory than the DLL will use.
- VersionPair: labels are dropped, so 1.24.1234-hotfix and 1.24.1234-beta pass as a
  pair, and `PairIsProven` claims no more; it does claim that labelled builds
  with different digits do not (the case of `backend_tests.rs:576-577`).
- ReleaseVerify: what a failed call leaves on disk is not followed; an explicit
  `--output-directory` that is left non-empty makes the next run refuse.
- WorkflowShells: inputs are valid YAML block scalars; for these the final length
  check (`workflow_shells.rs:201-206`) never fires. The parser misses `- run: |`, a
  shell named after `run:`, beside the dash, with arguments, or above a comment that
  is indented less, and takes a line of a script that reads `run: |` for a block of
  its own. All of these are inputs. It fails closed on them because of the expected
  count, with one gap that `AllBashChecked` leaves out and `Overcounts` states: with
  `--default-shell bash` (`justfile:35`) a step in another shell whose shell is missed
  counts as Bash and makes up for a Bash block that is missed.
- SourcePolicy: parsing is `syn`'s; a file is the tree the visitor is given. In
  SourceTokens an attribute has up to three arguments and a cfg_attr may hold another,
  which stands for any deeper one; a group holds up to two trees, or an attribute with
  its `#`, and a group in a group stands for any deeper one.

## 7. Plan

Done, in order: PseudoCon with CloseOnce; RootWatcher and ChildWait with
CallbackContext; the collectors over ManagedTree; OverlappedConnect;
BackendCache; the bundle (BundleFiles, VersionPair) and the tools; SessionIo.
Left, most valuable first:

1. The collectors over PseudoCon in place of ManagedTree, or ManagedTree shown to
   be refined by it; the product is too large for TLC as it stands, so this is a
   refinement to prove, with ManagedTree's effects as the mapping.
2. ChildWait across registrations, after a failed exit-code query.

**Not modelled.** Anonymous pipes: two calls whose handles are owned values.
Builders, options, errors, sizes, statuses, commands: immutable values and
conversions. `package_check.rs` and `public_api.rs`: each runs cargo and compares
its output with a list; there is no state whose order matters. The layout of
version resources in memory and the lookup of exports: calls into Windows
without protocol. Process creation itself belongs to another crate. Tests and
examples were read as documentation of the intended behaviour.
