----------------------------- MODULE Collection -----------------------------
(***************************************************************************)
(* What Session::wait and Session::collect_output promise in either front  *)
(* end, whoever reads the output and however the root is waited for.       *)
(***************************************************************************)
EXTENDS ManagedTree

VARIABLES
  pc,       \* where the collection is; "done" when it has returned or is gone
  status,   \* the root's: "none", "own", "killed" or "error"
  result,   \* "none", "ok", or why there is no output
  bytes     \* chunks collected

(* A successful collection is whole.  The status it reports is the root's  *)
(* own: neither ending the tree nor retiring the input comes before the    *)
(* root's exit was seen, in whichever order the exit and the last chunks   *)
(* become ready.  It holds everything the console host ever wrote, the     *)
(* tail rendered while the tree was being torn down included.              *)
SuccessIsWhole == result = "ok" => status = "own" /\ bytes = written /\ conout = 0

(* However a collection ends, by returning, failing or being dropped at    *)
(* any await, it leaves no process of the tree and no end of a pipe behind *)
(* and so no thread: a reader thread owns the read end until it returns.   *)
NothingLeftBehind == pc = "done" => RootExited /\ ~descendants /\ ~readEnd /\ ~inputEnd

(* The managed child goes first: while the root may still be running, its  *)
(* input is not taken away, not even by a cancellation.                    *)
InputOutlivesRoot == ~inputEnd => RootExited

(* A collection returns once its root can exit: also when a descendant     *)
(* keeps the console, the Job cannot be terminated or a read fails, and    *)
(* without a poll that sleeps through what it waits for.                   *)
CollectionReturns == <>(pc = "done")
=============================================================================
