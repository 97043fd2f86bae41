---------------------------- MODULE ManagedTree ----------------------------
(***************************************************************************)
(* What a managed session looks like to the code that collects its output: *)
(* the process tree in its Job, the console host, the output pipe and the  *)
(* root watcher.  The lifecycle core is reduced to what PseudoCon shows of *)
(* it: a released host leaves on its own, and a legacy close is entered    *)
(* after the root has exited or, if its worker can be created, when the    *)
(* input is retired.                                                       *)
(***************************************************************************)
EXTENDS Naturals

CONSTANTS
  ReleaseModes,      \* is the session released? (a set of answers)
  PipeSize,          \* chunks of output conout holds
  MaxOutput,         \* chunks of output the tree ever produces
  TerminateMayFail,  \* may Job::terminate fail?
  WorkerMayFail      \* may creating the close worker of the input fail?

ASSUME SizesAreNatural == PipeSize \in Nat \ {0} /\ MaxOutput \in Nat
ASSUME TreeSwitches ==
  ReleaseModes \subseteq BOOLEAN /\ {TerminateMayFail, WorkerMayFail} \subseteq BOOLEAN

VARIABLES
  root,         \* "running", or how it ended: "own" exit or "killed"
  goal,         \* output the root must get rid of before it can exit
  descendants,  \* does another process of the tree live?
  released,     \* State.released
  host,         \* the console host: "up" or "down"
  written,      \* chunks rendered into conout so far
  conout,       \* chunks in conout now
  readEnd,      \* is the conout read end open?
  inputEnd,     \* is the conin write end open?
  closeAsked,   \* has ClosePseudoConsole been entered?
  watched       \* has the root watcher done its work?

tree == <<root, goal, descendants>>
pipe == <<host, written, conout>>
world == <<tree, released, pipe, readEnd, inputEnd, closeAsked, watched>>

TreeInit ==
  /\ root = "running" /\ goal \in 0 .. MaxOutput /\ descendants \in BOOLEAN
  /\ released \in ReleaseModes
  /\ host = "up" /\ written = 0 /\ conout = 0
  /\ readEnd = TRUE /\ inputEnd = TRUE
  /\ closeAsked = FALSE /\ watched = FALSE

RootExited == root # "running"
AtEof      == host = "down" /\ conout = 0

-----------------------------------------------------------------------------
(* Terminating the Job ends every member; so does closing its last handle. *)
EndTree ==
  /\ root' = IF root = "running" THEN "killed" ELSE root
  /\ descendants' = FALSE
  /\ UNCHANGED goal

(* Dropping the input asks for the close; a released session only defers.  *)
RetireInput ==
  /\ inputEnd' = FALSE
  /\ closeAsked' \in {closeAsked \/ ~released} \cup (IF WorkerMayFail THEN {closeAsked} ELSE {})

RootExits ==
  /\ root = "running" /\ (written >= goal \/ host = "down")
  /\ root' = "own"
  /\ UNCHANGED <<goal, descendants, released, pipe, readEnd, inputEnd, closeAsked, watched>>

(* finish_root_exit: end the tree, then ask for the legacy close.          *)
WatcherActs ==
  /\ RootExited /\ ~watched /\ watched' = TRUE
  /\ descendants' \in {FALSE} \cup (IF TerminateMayFail THEN {descendants} ELSE {})
  /\ closeAsked' = (closeAsked \/ ~released)
  /\ UNCHANGED <<root, goal, released, pipe, readEnd, inputEnd>>

(* CTRL_CLOSE_EVENT, or the end of conin on a current host.                *)
ClientsLeave ==
  /\ closeAsked \/ (released /\ ~inputEnd)
  /\ ~RootExited \/ descendants
  /\ EndTree
  /\ UNCHANGED <<released, pipe, readEnd, inputEnd, closeAsked, watched>>

HostWrites ==
  /\ host = "up" /\ written < MaxOutput /\ conout < PipeSize
  /\ written' = written + 1 /\ conout' = conout + 1
  /\ UNCHANGED <<tree, released, host, readEnd, inputEnd, closeAsked, watched>>

HostExits ==
  /\ host = "up" /\ RootExited /\ ~descendants
  /\ released \/ closeAsked
  /\ conout < PipeSize \/ ~readEnd
  /\ host' = "down"
  /\ UNCHANGED <<tree, released, written, conout, readEnd, inputEnd, closeAsked, watched>>

HostDies ==
  /\ host = "up" /\ host' = "down"
  /\ UNCHANGED <<tree, released, written, conout, readEnd, inputEnd, closeAsked, watched>>

TreeSteps == RootExits \/ WatcherActs \/ ClientsLeave \/ HostWrites \/ HostExits \/ HostDies

TreeTypeOK ==
  /\ root \in {"running", "own", "killed"} /\ goal \in 0 .. MaxOutput
  /\ host \in {"up", "down"}
  /\ written \in 0 .. MaxOutput /\ conout \in 0 .. PipeSize
  /\ descendants \in BOOLEAN /\ released \in BOOLEAN /\ readEnd \in BOOLEAN
  /\ inputEnd \in BOOLEAN /\ closeAsked \in BOOLEAN /\ watched \in BOOLEAN
=============================================================================
