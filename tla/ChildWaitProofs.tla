--------------------------- MODULE ChildWaitProofs ---------------------------
(***************************************************************************)
(* The handshake between Drop for RegisteredWait and its callback, for any *)
(* set of waiting tasks: the owner and the callback share their context as *)
(* CallbackContext promises, and user code never runs under a Drop that    *)
(* blocks.  Handshake is the inductive invariant: callback_active says     *)
(* exactly when the callback is between its first and its last critical    *)
(* section, owner_dropping exactly when Drop has made its choice, and      *)
(* cleanup_after_callback is set only when the callback still has to pass  *)
(* the section that reads it.                                              *)
(***************************************************************************)
EXTENDS ChildWait, TLAPS

Active == {"exitCode", "waking", "tail"}

Handshake ==
  /\ callback_active <=> callback \in Active
  /\ owner_dropping <=> drop \in {"unregister", "unregisterAndWait", "done"}
  /\ exit = "taken" <=> drop # "none"
  /\ exit = "none" => callback = "none"
  /\ pending # NoTask => exit = "armed"
  /\ mutex = "drop" => drop = "unregister"
  /\ drop = "unregister" => mutex = "drop" /\ callback \in Active
  /\ drop = "unregisterAndWait" => callback \in {"none", "entry", "returned"}
  /\ cleanup_after_callback => drop = "done" /\ callback \in Active \cup {"free", "returned"}
  /\ callback = "free" => cleanup_after_callback
  /\ cleanup_after_callback /\ callback # "returned" => context = "live"
  /\ context # "live" => drop = "done"
  /\ context = "freed" => callback \in {"none", "returned"}

IInv == TypeOK /\ Handshake

(* A Child whose wait has not begun.                                       *)
LEMMA InitInv == Init => IInv
BY DEF Init, IInv, TypeOK, Handshake, Active

(* Every step keeps the variables typed.                                   *)
LEMMA TypeStep == TypeOK /\ [Next]_vars => TypeOK'
<1> SUFFICES ASSUME TypeOK, [Next]_vars PROVE TypeOK'
  OBVIOUS
<1> USE DEF TypeOK, state, caller
<1>1. ASSUME NEW t \in Tasks, Wait(t) \/ Cancel(t) \/ PollPending(t) PROVE TypeOK'
  BY <1>1 DEF Wait, Cancel, PollPending, ReplaceWaker
<1>2. ASSUME NEW t \in Tasks, NEW by \in {"executor", "callback"}, PollReady(t, by)
      PROVE  TypeOK'
  BY <1>2 DEF PollReady, BeginDrop
<1>3. ASSUME NEW by \in {"executor", "callback"}, TryWait(by) \/ DropChild(by)
      PROVE  TypeOK'
  BY <1>3 DEF TryWait, DropChild, BeginDrop
<1>4. CASE DropHandshake
  BY <1>4 DEF DropHandshake
<1>5. CASE UnregisterActive
  <2>1. answered' \in BOOLEAN
    BY <1>5 DEF UnregisterActive, EndDrop
  <2>2. cleanup_after_callback' \in BOOLEAN /\ context' \in {"live", "freed", "leaked"}
    BY <1>5 DEF UnregisterActive
  <2>3. QED
    BY <1>5, <2>1, <2>2 DEF UnregisterActive, EndDrop
<1>6. CASE UnregisterIdle
  BY <1>6 DEF UnregisterIdle, EndDrop
<1>7. CASE CallbackRuns \/ CallbackEntry \/ WakeReturns \/ CallbackTail \/ CallbackFrees
  BY <1>7 DEF CallbackRuns, CallbackEntry, WakeReturns, CallbackTail, CallbackFrees
<1>8. CASE StoreResult
  BY <1>8 DEF StoreResult
<1>9. CASE RootExits \/ Finished \/ UNCHANGED vars
  BY <1>9 DEF RootExits, Finished, vars
<1>10. QED
  BY <1>1, <1>2, <1>3, <1>4, <1>5, <1>6, <1>7, <1>8, <1>9
     DEF Next, PollSteps, DropSteps, CallbackSteps

(* Every step keeps the handshake.                                         *)
LEMMA HandshakeStep == IInv /\ [Next]_vars => Handshake'
<1> SUFFICES ASSUME IInv, [Next]_vars PROVE Handshake'
  OBVIOUS
<1> TypeOK /\ Handshake
  BY DEF IInv
<1> USE NoTaskIsNoTask DEF TypeOK, Handshake, Active, state, caller, ChildIdle
<1>1. ASSUME NEW t \in Tasks, Wait(t) PROVE Handshake'
  BY <1>1 DEF Wait
<1>2. ASSUME NEW t \in Tasks, Cancel(t) \/ PollPending(t) PROVE Handshake'
  BY <1>2 DEF Cancel, PollPending
<1>3. ASSUME NEW t \in Tasks, NEW by \in {"executor", "callback"}, PollReady(t, by)
      PROVE  Handshake'
  BY <1>3 DEF PollReady, BeginDrop
<1>4. ASSUME NEW by \in {"executor", "callback"}, TryWait(by) PROVE Handshake'
  BY <1>4 DEF TryWait, BeginDrop
<1>5. ASSUME NEW by \in {"executor", "callback"}, DropChild(by) PROVE Handshake'
  BY <1>5 DEF DropChild, BeginDrop
<1>6. CASE DropHandshake
  BY <1>6 DEF DropHandshake
<1>7. CASE UnregisterActive
  BY <1>7 DEF UnregisterActive, EndDrop
<1>8. CASE UnregisterIdle
  BY <1>8 DEF UnregisterIdle, EndDrop
<1>9. CASE CallbackRuns
  BY <1>9 DEF CallbackRuns
<1>10. CASE CallbackEntry
  BY <1>10 DEF CallbackEntry
<1>11. CASE StoreResult
  BY <1>11 DEF StoreResult
<1>12. CASE WakeReturns
  BY <1>12 DEF WakeReturns
<1>13. CASE CallbackTail
  BY <1>13 DEF CallbackTail
<1>14. CASE CallbackFrees
  BY <1>14 DEF CallbackFrees
<1>15. CASE RootExits \/ Finished \/ UNCHANGED vars
  BY <1>15 DEF RootExits, Finished, vars
<1>16. QED
  BY <1>1, <1>2, <1>3, <1>4, <1>5, <1>6, <1>7, <1>8, <1>9, <1>10, <1>11,
     <1>12, <1>13, <1>14, <1>15
     DEF Next, PollSteps, DropSteps, CallbackSteps

(* Types and handshake hold throughout.                                    *)
LEMMA IInvHolds == Spec => []IInv
<1>1. IInv /\ [Next]_vars => IInv'
  BY TypeStep, HandshakeStep DEF IInv
<1>2. QED
  BY <1>1, InitInv, PTL DEF Spec

(* A Drop that blocks until the callback is over never waits for a Waker,  *)
(* whatever that Waker may be waiting for.                                 *)
THEOREM BlockingDropMeetsNoWaker == Spec => []NoWakerUnderBlockingDrop
<1>1. IInv => NoWakerUnderBlockingDrop
  BY DEF IInv, Handshake, NoWakerUnderBlockingDrop
<1>2. QED
  BY <1>1, IInvHolds, PTL

SharedStep == [Shared!Next]_(Shared!vars)

(* Each step uses the context, frees it when nobody does, or leaks it.     *)
LEMMA StepRefines == IInv /\ [Next]_vars => SharedStep
<1> SUFFICES ASSUME IInv, [Next]_vars PROVE SharedStep
  OBVIOUS
<1> TypeOK /\ Handshake
  BY DEF IInv
<1> IInv'
  BY TypeStep, HandshakeStep DEF IInv
<1> DEFINE UsersNow == (IF OwnerUses THEN {"owner"} ELSE {})
                         \cup (IF CallbackUses THEN {"callback"} ELSE {})
<1>1. ASSUME context # "freed", UNCHANGED context PROVE SharedStep
  <2>1. UsersNow' \in SUBSET {"owner", "callback"}
    OBVIOUS
  <2>2. Shared!Use
    BY <1>1, <2>1 DEF Shared!Use
  <2>3. QED
    BY <2>2 DEF SharedStep, Shared!Next
<1>2. ASSUME context = "freed", context' = "freed" PROVE SharedStep
  <2>1. ~OwnerUses /\ ~CallbackUses
    BY <1>2 DEF Handshake, OwnerUses, CallbackUses
  <2>2. ~OwnerUses' /\ ~CallbackUses'
    BY <1>2 DEF IInv, Handshake, OwnerUses, CallbackUses
  <2>3. QED
    BY <1>2, <2>1, <2>2 DEF SharedStep, Shared!vars
<1>3. ASSUME context = "live", context' = "leaked" PROVE SharedStep
  <2>1. UsersNow' \in SUBSET {"owner", "callback"}
    OBVIOUS
  <2>2. Shared!Leak
    BY <1>3, <2>1 DEF Shared!Leak
  <2>3. QED
    BY <2>2 DEF SharedStep, Shared!Next
<1>4. ASSUME context = "live", context' = "freed", ~OwnerUses, ~CallbackUses
      PROVE  SharedStep
  <2>1. ~OwnerUses' /\ ~CallbackUses'
    BY <1>4 DEF IInv, Handshake, OwnerUses, CallbackUses
  <2>2. Shared!Free
    BY <1>4, <2>1 DEF Shared!Free
  <2>3. QED
    BY <2>2 DEF SharedStep, Shared!Next
<1>5. CASE UnregisterActive
  BY <1>1, <1>3, <1>5 DEF UnregisterActive, Handshake, TypeOK
<1>6. CASE UnregisterIdle
  BY <1>3, <1>4, <1>6 DEF UnregisterIdle, Handshake, TypeOK, OwnerUses, CallbackUses
<1>7. CASE CallbackFrees
  BY <1>4, <1>7 DEF CallbackFrees, Handshake, OwnerUses, CallbackUses
<1>8. ASSUME ~UnregisterActive, ~UnregisterIdle, ~CallbackFrees PROVE UNCHANGED context
  BY <1>8 DEF Next, PollSteps, DropSteps, CallbackSteps, Wait, Cancel, PollPending,
       PollReady, TryWait, DropChild, DropHandshake, CallbackRuns, CallbackEntry,
       StoreResult, WakeReturns, CallbackTail, RootExits, Finished, vars
<1>9. QED
  BY <1>1, <1>2, <1>5, <1>6, <1>7, <1>8

(* No use after free and no double free between a wait future, its Drop    *)
(* and the callback, for any tasks, cancellations and inline polls.        *)
THEOREM WaitSharesContext == Spec => ImplementsCallbackContext
<1>1. Init => Shared!Init
  BY DEF Init, Shared!Init, OwnerUses, CallbackUses
<1>2. IInv /\ [Next]_vars => SharedStep
  BY StepRefines
<1>3. QED
  BY <1>1, <1>2, IInvHolds, PTL
     DEF Spec, ImplementsCallbackContext, Shared!Spec, SharedStep
=============================================================================
