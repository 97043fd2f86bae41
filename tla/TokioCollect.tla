---------------------------- MODULE TokioCollect ----------------------------
(***************************************************************************)
(* Session::wait and Session::collect_output of the Tokio front end        *)
(* (tokio/session.rs): one task that polls the root first and conout       *)
(* second, ends the tree when the root has exited, and drains the tail.    *)
(*                                                                         *)
(* The future owns the session.  Dropping it wherever it is suspended, and *)
(* returning early with an error, both drop the fields in their order: the *)
(* child first.  ChildWait shows that the exit of the root wakes whoever   *)
(* polled last; here the task says in `wakers' what it waits for.          *)
(***************************************************************************)
EXTENDS Collection

CONSTANTS
  ReadMayFail,  \* may a read fail other than by disconnecting?
  WaitMayFail,  \* may the registered wait fail?
  MayCancel     \* may the future be dropped before it is ready?

ASSUME CollectSwitches == {ReadMayFail, WaitMayFail, MayCancel} \subseteq BOOLEAN

VARIABLES
  suspended,        \* has it returned Pending without being woken since?
  wakers,           \* what was given the task's Waker: "exit", "read"
  output_finished,
  kill              \* outcome of Child::kill: "none", "ok" or "error"

task == <<pc, suspended, wakers, output_finished, status, kill, bytes, result>>
vars == <<world, task>>

Init ==
  /\ TreeInit
  /\ pc = "pollRoot" /\ suspended = FALSE /\ wakers = {}
  /\ output_finished = FALSE /\ status = "none" /\ kill = "none"
  /\ bytes = 0 /\ result = "none"

At(p)       == pc = p /\ ~suspended
Goto(p, q)  == At(p) /\ pc' = q

-----------------------------------------------------------------------------
(* collect_until_root: each turn polls the root, then, unless it ended,    *)
(* conout; what is not ready keeps the Waker.                              *)

(* The wait may fail while the root runs: RegisteredWait::new at the first *)
(* poll.                                                                   *)
RootReady ==
  /\ \/ RootExited /\ Goto("pollRoot", "kill") /\ status' = root /\ UNCHANGED result
     \/ /\ WaitMayFail /\ Goto("pollRoot", "abandonChild")
        /\ result' = "status" /\ UNCHANGED status
  /\ UNCHANGED <<world, suspended, wakers, output_finished, kill, bytes>>

RootPending ==
  /\ ~RootExited /\ At("pollRoot")
  /\ wakers' = wakers \cup {"exit"}
  /\ IF output_finished THEN suspended' = TRUE /\ UNCHANGED pc
                        ELSE pc' = "pollOutput" /\ UNCHANGED suspended
  /\ UNCHANGED <<world, output_finished, status, kill, bytes, result>>

(* One read of collect_until_root or of drain_to_end.                      *)
TakeChunk(p, next) ==
  /\ Goto(p, next) /\ conout > 0
  /\ conout' = conout - 1 /\ bytes' = bytes + 1
  /\ UNCHANGED <<tree, released, host, written, readEnd, inputEnd, closeAsked, watched,
                 suspended, wakers, output_finished, status, kill, result>>

OutputReady == TakeChunk("pollOutput", "pollRoot")

OutputEnds ==
  /\ Goto("pollOutput", "pollRoot") /\ AtEof
  /\ output_finished' = TRUE
  /\ UNCHANGED <<world, suspended, wakers, status, kill, bytes, result>>

OutputFails ==
  /\ ReadMayFail /\ Goto("pollOutput", "abandonChild")
  /\ result' = "output"
  /\ UNCHANGED <<world, suspended, wakers, output_finished, status, kill, bytes>>

OutputPending ==
  /\ At("pollOutput") /\ conout = 0 /\ ~AtEof
  /\ pc' = "pollRoot" /\ suspended' = TRUE /\ wakers' = wakers \cup {"read"}
  /\ UNCHANGED <<world, output_finished, status, kill, bytes, result>>

-----------------------------------------------------------------------------
(* complete, after the root has exited.                                    *)

Kill ==
  /\ Goto("kill", "dropChild")
  /\ \/ EndTree /\ kill' = "ok"
     \/ TerminateMayFail /\ kill' = "error" /\ UNCHANGED tree
  /\ UNCHANGED <<released, pipe, readEnd, inputEnd, closeAsked, watched,
                 suspended, wakers, output_finished, status, bytes, result>>

(* Mutant: the Job has no kill-on-close limit.                             *)
DropChildOnly ==
  /\ Goto("dropChild", "shutdown")
  /\ UNCHANGED <<world, suspended, wakers, output_finished, status, kill, bytes, result>>

DropChild ==
  /\ Goto("dropChild", "shutdown")
  /\ EndTree
  /\ UNCHANGED <<released, pipe, readEnd, inputEnd, closeAsked, watched,
                 suspended, wakers, output_finished, status, kill, bytes, result>>

(* Mutant: what is left in the pipe is not drained.                        *)
ShutdownOnly ==
  /\ Goto("shutdown", "finish")
  /\ RetireInput
  /\ UNCHANGED <<tree, released, pipe, readEnd, watched,
                 suspended, wakers, output_finished, status, kill, bytes, result>>

Shutdown ==
  /\ Goto("shutdown", IF output_finished THEN "finish" ELSE "drain")
  /\ RetireInput
  /\ UNCHANGED <<tree, released, pipe, readEnd, watched,
                 suspended, wakers, output_finished, status, kill, bytes, result>>

DrainReady == TakeChunk("drain", "drain")

DrainEnds ==
  /\ Goto("drain", "finish") /\ AtEof
  /\ UNCHANGED <<world, suspended, wakers, output_finished, status, kill, bytes, result>>

(* Child, input and controller are gone by now.                            *)
DrainFails ==
  /\ ReadMayFail /\ Goto("drain", "abandonOutput")
  /\ result' = "output"
  /\ UNCHANGED <<world, suspended, wakers, output_finished, status, kill, bytes>>

(* Mutant: a pending drain registers no Waker.                             *)
DrainWithoutWaker ==
  /\ At("drain") /\ conout = 0 /\ ~AtEof
  /\ suspended' = TRUE
  /\ UNCHANGED <<world, pc, wakers, output_finished, status, kill, bytes, result>>

DrainPending ==
  /\ At("drain") /\ conout = 0 /\ ~AtEof
  /\ suspended' = TRUE /\ wakers' = wakers \cup {"read"}
  /\ UNCHANGED <<world, pc, output_finished, status, kill, bytes, result>>

Finish ==
  /\ Goto("finish", "abandonOutput")
  /\ result' = IF kill = "error" THEN "kill" ELSE "ok"
  /\ UNCHANGED <<world, suspended, wakers, output_finished, status, kill, bytes>>

-----------------------------------------------------------------------------
(* The executor polls a woken task, or drops the future it suspended.      *)

Woken ==
  /\ suspended
  /\ \/ "exit" \in wakers /\ RootExited
     \/ "read" \in wakers /\ (conout > 0 \/ host = "down")
  /\ suspended' = FALSE /\ wakers' = {}
  /\ UNCHANGED <<world, pc, output_finished, status, kill, bytes, result>>

(* Mutant: a cancelled collection drops its input before its child.        *)
CancelInputFirst ==
  /\ MayCancel /\ suspended
  /\ pc' = (IF pc = "drain" THEN "abandonOutput" ELSE "abandonChild")
  /\ suspended' = FALSE
  /\ result' = "cancelled"
  /\ RetireInput
  /\ UNCHANGED <<tree, released, pipe, readEnd, watched,
                 wakers, output_finished, status, kill, bytes>>

Cancel ==
  /\ MayCancel /\ suspended
  /\ pc' = (IF pc = "drain" THEN "abandonOutput" ELSE "abandonChild")
  /\ suspended' = FALSE
  /\ result' = "cancelled"
  /\ UNCHANGED <<world, wakers, output_finished, status, kill, bytes>>

(* Dropping a Session: child, output, input.                               *)
AbandonChild ==
  /\ Goto("abandonChild", "abandonOutput")
  /\ EndTree
  /\ UNCHANGED <<released, pipe, readEnd, inputEnd, closeAsked, watched,
                 suspended, wakers, output_finished, status, kill, bytes, result>>

AbandonOutput ==
  /\ Goto("abandonOutput", IF inputEnd THEN "abandonInput" ELSE "done")
  /\ readEnd' = FALSE
  /\ UNCHANGED <<tree, released, pipe, inputEnd, closeAsked, watched,
                 suspended, wakers, output_finished, status, kill, bytes, result>>

AbandonInput ==
  /\ Goto("abandonInput", "done")
  /\ RetireInput
  /\ UNCHANGED <<tree, released, pipe, readEnd, watched,
                 suspended, wakers, output_finished, status, kill, bytes, result>>

-----------------------------------------------------------------------------
Returned == pc = "done" /\ UNCHANGED vars

PollSteps ==
  \/ RootReady \/ RootPending
  \/ OutputReady \/ OutputEnds \/ OutputFails \/ OutputPending
  \/ Kill \/ DropChild \/ Shutdown
  \/ DrainReady \/ DrainEnds \/ DrainFails \/ DrainPending \/ Finish
  \/ AbandonChild \/ AbandonOutput \/ AbandonInput

World(A) == A /\ UNCHANGED task

Next == PollSteps \/ Woken \/ Cancel \/ World(TreeSteps) \/ Returned

Spec == Init /\ [][Next]_vars

(* The executor polls a task that was woken, the watcher runs, the root    *)
(* makes progress while its output is drained and exits in the end, and a  *)
(* host nobody needs leaves.  Nobody may count on a failing call, on a     *)
(* cancellation, on a descendant that exits by itself or on a console host *)
(* that crashes.                                                           *)
Fairness ==
  /\ WF_vars(PollSteps /\ (result' = result \/ pc = "finish"))
  /\ WF_vars(Woken)
  /\ WF_vars(World(RootExits)) /\ WF_vars(World(WatcherActs))
  /\ WF_vars(World(ClientsLeave)) /\ WF_vars(World(HostWrites))
  /\ WF_vars(World(HostExits))

FairSpec == Spec /\ Fairness

-----------------------------------------------------------------------------
(* Every variable has its type.                                            *)
TypeOK ==
  /\ TreeTypeOK
  /\ pc \in {"pollRoot", "pollOutput", "kill", "dropChild", "shutdown", "drain", "finish",
             "abandonChild", "abandonOutput", "abandonInput", "done"}
  /\ suspended \in BOOLEAN /\ wakers \subseteq {"exit", "read"} /\ output_finished \in BOOLEAN
  /\ status \in {"none", "own", "killed"} /\ kill \in {"none", "ok", "error"}
  /\ bytes \in 0 .. MaxOutput
  /\ result \in {"none", "ok", "status", "output", "kill", "cancelled"}
=============================================================================
