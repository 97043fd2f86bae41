----------------------------- MODULE CloseOnce -----------------------------
(***************************************************************************)
(* What the lifecycle core promises about one HPCON, whatever the order in *)
(* which the reader, the writer, the controllers, the watcher and the      *)
(* child are used and dropped: calls that use the handle are exclusive and *)
(* only reach a live handle, and ClosePseudoConsole is entered once, by    *)
(* whoever claimed the handle, or never if the handle is leaked.           *)
(***************************************************************************)
CONSTANT User     \* threads that may call into the backend

VARIABLES
  handle,         \* "live", "claimed", "closed" or "leaked"
  users,          \* threads inside resize, clear, release or CreateProcess
  closers         \* threads inside ClosePseudoConsole

vars == <<handle, users, closers>>

Init == handle = "live" /\ users = {} /\ closers = {}

(* A borrowing call on the live handle; no two of them overlap.            *)
BeginUse(u) ==
  /\ handle = "live" /\ users = {}
  /\ users' = {u}
  /\ UNCHANGED <<handle, closers>>

EndUse(u) ==
  /\ users = {u}
  /\ users' = {}
  /\ UNCHANGED <<handle, closers>>

(* The claim takes the handle away from every later borrower.  The closer  *)
(* enters ClosePseudoConsole with the claim or is handed the claim later.  *)
Claim ==
  /\ handle = "live" /\ users = {}
  /\ handle' = "claimed"
  /\ \/ \E u \in User : closers' = {u}
     \/ UNCHANGED closers
  /\ UNCHANGED users

EnterClose(u) ==
  /\ handle = "claimed" /\ closers = {}
  /\ closers' = {u}
  /\ UNCHANGED <<handle, users>>

(* A claim nobody acted on is withdrawn, so that it can be made again.     *)
Withdraw ==
  /\ handle = "claimed" /\ closers = {}
  /\ handle' = "live"
  /\ UNCHANGED <<users, closers>>

LeaveClose(u) ==
  /\ handle = "claimed" /\ closers = {u}
  /\ handle' = "closed" /\ closers' = {}
  /\ UNCHANGED users

(* The claim is made and the handle abandoned for the life of the process. *)
Leak ==
  /\ handle = "live" /\ users = {}
  /\ handle' = "leaked"
  /\ UNCHANGED <<users, closers>>

Next ==
  \/ \E u \in User : BeginUse(u) \/ EndUse(u) \/ EnterClose(u) \/ LeaveClose(u)
  \/ Claim \/ Withdraw \/ Leak

Spec == Init /\ [][Next]_vars
=============================================================================
