-------------------------- MODULE BlockingCollect --------------------------
(***************************************************************************)
(* Session::wait and Session::collect_output of the blocking front end     *)
(* (blocking/session.rs): a reader thread drains conout to its end while   *)
(* the caller polls the root and waits, 10 ms at a time, for the reader's  *)
(* message; the exit of the root, not the end of output, ends the tree.    *)
(***************************************************************************)
EXTENDS Collection

CONSTANTS
  ReaderMayFail,  \* may the reader thread fail to start, a read fail other than
                  \* by disconnecting, or the reader panic?
  WaitMayFail     \* may querying the root's status fail?

ASSUME CollectSwitches == {ReaderMayFail, WaitMayFail} \subseteq BOOLEAN

VARIABLES
  kill,       \* outcome of Child::kill: "none", "ok" or "error"
  reader,     \* the reader thread: "none", "reading", "sending", "returning", "finished"
  drained,    \* how the drain ended: "none", "ok" or "error"
  completed   \* the message in the channel, or a channel without a sender

collector == <<pc, status, kill, result>>
worker    == <<reader, drained, bytes, completed>>
vars      == <<world, collector, worker>>

Init ==
  /\ TreeInit
  /\ pc = "start" /\ status = "none" /\ kill = "none" /\ result = "none"
  /\ reader = "none" /\ drained = "none" /\ bytes = 0 /\ completed = FALSE

-----------------------------------------------------------------------------
(* The closure takes the read half along, also when no thread runs it; the *)
(* session's other fields are then dropped in their order.                 *)
StartReader ==
  /\ pc = "start"
  /\ \/ /\ pc' = "poll" /\ reader' = "reading"
        /\ UNCHANGED <<readEnd, result>>
     \/ /\ ReaderMayFail /\ pc' = "abandonChild" /\ result' = "spawn"
        /\ readEnd' = FALSE /\ UNCHANGED reader
  /\ UNCHANGED <<tree, released, pipe, inputEnd, closeAsked, watched,
                 status, kill, drained, bytes, completed>>

AbandonChild ==
  /\ pc = "abandonChild" /\ pc' = "abandonInput"
  /\ EndTree
  /\ UNCHANGED <<released, pipe, readEnd, inputEnd, closeAsked, watched,
                 status, kill, result, worker>>

AbandonInput ==
  /\ pc = "abandonInput" /\ pc' = "done"
  /\ RetireInput
  /\ UNCHANGED <<tree, released, pipe, readEnd, watched, status, kill, result, worker>>

-----------------------------------------------------------------------------
(* The reader thread.                                                      *)

ReadChunk ==
  /\ reader = "reading" /\ conout > 0
  /\ conout' = conout - 1 /\ bytes' = bytes + 1
  /\ UNCHANGED <<tree, released, host, written, readEnd, inputEnd, closeAsked, watched,
                 collector, reader, drained, completed>>

DrainEnds ==
  /\ reader = "reading" /\ reader' = "sending"
  /\ \/ AtEof /\ drained' = "ok"
     \/ ReaderMayFail /\ drained' = "error"
  /\ UNCHANGED <<world, collector, bytes, completed>>

SendCompleted ==
  /\ reader = "sending" /\ reader' = "returning"
  /\ completed' = TRUE
  /\ UNCHANGED <<world, collector, drained, bytes>>

(* The closure returns and drops the read half it owns.                    *)
ReaderReturns ==
  /\ reader = "returning" /\ reader' = "finished"
  /\ readEnd' = FALSE
  /\ UNCHANGED <<tree, released, pipe, inputEnd, closeAsked, watched,
                 collector, drained, bytes, completed>>

-----------------------------------------------------------------------------
(* BlockingCollector::finish.                                              *)

(* What querying an exited root may return.                                *)
Queried == {root} \cup (IF WaitMayFail THEN {"error"} ELSE {})

TryWait ==
  /\ pc = "poll"
  /\ \/ RootExited /\ pc' = "kill" /\ status' \in Queried
     \/ ~RootExited /\ pc' = "recv" /\ UNCHANGED status
     \/ ~RootExited /\ WaitMayFail /\ pc' = "kill" /\ status' = "error"
  /\ UNCHANGED <<world, kill, result, worker>>

RecvTimeout ==
  /\ pc = "recv"
  /\ pc' = IF completed THEN "join" ELSE "poll"
  /\ UNCHANGED <<world, status, kill, result, worker>>

JoinReader ==
  /\ pc = "join" /\ reader = "finished"
  /\ pc' = IF drained = "ok" THEN "wait" ELSE "kill"
  /\ UNCHANGED <<world, status, kill, result, worker>>

WaitForRoot ==
  /\ pc = "wait" /\ pc' = "kill"
  /\ \/ RootExited /\ status' \in Queried
     \/ WaitMayFail /\ status' = "error"
  /\ UNCHANGED <<world, kill, result, worker>>

(* Mutant: the reader is joined while the child is still held.             *)
KillAndJoin ==
  /\ pc = "kill" /\ pc' = "joinTail"
  /\ \/ EndTree /\ kill' = "ok"
     \/ TerminateMayFail /\ kill' = "error" /\ UNCHANGED tree
  /\ UNCHANGED <<released, pipe, readEnd, inputEnd, closeAsked, watched, status, result, worker>>

Kill ==
  /\ pc = "kill" /\ pc' = "dropChild"
  /\ \/ EndTree /\ kill' = "ok"
     \/ TerminateMayFail /\ kill' = "error" /\ UNCHANGED tree
  /\ UNCHANGED <<released, pipe, readEnd, inputEnd, closeAsked, watched, status, result, worker>>

(* Mutant: the Job has no kill-on-close limit.                             *)
DropChildOnly ==
  /\ pc = "dropChild" /\ pc' = "retire"
  /\ UNCHANGED <<world, status, kill, result, worker>>

DropChild ==
  /\ pc = "dropChild" /\ pc' = "retire"
  /\ EndTree
  /\ UNCHANGED <<released, pipe, readEnd, inputEnd, closeAsked, watched,
                 status, kill, result, worker>>

Retire ==
  /\ pc = "retire" /\ pc' = "joinTail"
  /\ RetireInput
  /\ UNCHANGED <<tree, released, pipe, readEnd, watched, status, kill, result, worker>>

(* The first error in this order is the one the caller gets.               *)
Outcome ==
  CASE drained = "error"            -> "reader"
    [] status \in {"none", "error"} -> "status"
    [] kill = "error"               -> "kill"
    [] OTHER                        -> "ok"

(* Mutant: the tail of the output is not waited for.                       *)
FinishWithoutTail ==
  /\ pc = "joinTail" /\ pc' = "done"
  /\ result' = Outcome
  /\ UNCHANGED <<world, status, kill, worker>>

Finish ==
  /\ pc = "joinTail" /\ reader = "finished"
  /\ pc' = "done"
  /\ result' = Outcome
  /\ UNCHANGED <<world, status, kill, worker>>

-----------------------------------------------------------------------------
Returned == pc = "done" /\ UNCHANGED vars

ReaderSteps    == ReadChunk \/ DrainEnds \/ SendCompleted \/ ReaderReturns
CollectorSteps ==
  \/ StartReader \/ AbandonChild \/ AbandonInput
  \/ TryWait \/ RecvTimeout \/ JoinReader \/ WaitForRoot
  \/ Kill \/ DropChild \/ Retire \/ Finish

World(A) == A /\ UNCHANGED <<collector, worker>>

Next ==
  \/ ReaderSteps \/ CollectorSteps
  \/ World(TreeSteps)
  \/ Returned

Spec == Init /\ [][Next]_vars

(* Both threads run, the watcher runs, the root makes progress while its   *)
(* output is drained and exits in the end, and a host nobody needs leaves. *)
(* Nobody may count on a failing call, on a descendant that exits by       *)
(* itself or on a console host that crashes.                               *)
Fairness ==
  /\ WF_vars(ReaderSteps /\ (drained' = drained \/ drained' # "error"))
  /\ WF_vars(CollectorSteps /\ status' # "error" /\ pc' # "abandonChild")
  /\ WF_vars(CollectorSteps /\ pc \notin {"start", "poll", "recv", "wait"})
  /\ WF_vars(World(RootExits)) /\ WF_vars(World(WatcherActs))
  /\ WF_vars(World(ClientsLeave)) /\ WF_vars(World(HostWrites))
  /\ WF_vars(World(HostExits))

FairSpec == Spec /\ Fairness

-----------------------------------------------------------------------------
(* Every variable has its type.                                            *)
TypeOK ==
  /\ TreeTypeOK
  /\ pc \in {"start", "abandonChild", "abandonInput", "poll", "recv", "join",
             "wait", "kill", "dropChild", "retire", "joinTail", "done"}
  /\ status \in {"none", "own", "killed", "error"} /\ kill \in {"none", "ok", "error"}
  /\ result \in {"none", "ok", "spawn", "reader", "status", "kill"}
  /\ reader \in {"none", "reading", "sending", "returning", "finished"}
  /\ drained \in {"none", "ok", "error"} /\ bytes \in 0 .. MaxOutput /\ completed \in BOOLEAN
=============================================================================
