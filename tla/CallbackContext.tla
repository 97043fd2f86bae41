--------------------------- MODULE CallbackContext ---------------------------
(***************************************************************************)
(* What every registered wait promises about the heap allocation it shares *)
(* with a Windows thread-pool callback: threads use it only while it       *)
(* exists, and it is freed at most once, when nobody uses it.  An          *)
(* allocation whose registration could not be withdrawn is leaked, and may *)
(* be used for ever.                                                       *)
(***************************************************************************)
CONSTANT User     \* threads that may hold a reference into the allocation

VARIABLES
  context,        \* "live", "freed" or "leaked"
  users           \* the threads using it

vars == <<context, users>>

Init == context = "live" /\ users = {}

(* Threads start and stop using the allocation.                            *)
Use ==
  /\ context # "freed"
  /\ users' \in SUBSET User
  /\ UNCHANGED context

Free ==
  /\ context = "live" /\ users = {}
  /\ context' = "freed"
  /\ UNCHANGED users

(* A failed unregistration: memory is kept rather than risked.             *)
Leak ==
  /\ context = "live"
  /\ context' = "leaked"
  /\ users' \in SUBSET User

Next == Use \/ Free \/ Leak

Spec == Init /\ [][Next]_vars
=============================================================================
