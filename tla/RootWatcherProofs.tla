-------------------------- MODULE RootWatcherProofs --------------------------
(***************************************************************************)
(* The watcher's callback and worker share their context as                *)
(* CallbackContext promises, whatever may fail.  What makes it true is the *)
(* hand-over: once a worker exists the callback only has to return, and    *)
(* the worker's unregistration waits for that; without a worker the        *)
(* callback is alone.  The registering thread is not one of the users of   *)
(* this theorem: RegistrarSeesLiveContext, which would cover it, is false. *)
(***************************************************************************)
EXTENDS RootWatcher, TLAPS

(* Who may be where while the context has a given state.                   *)
Handover ==
  /\ ~Armed => pc["callback"] = "none"
  /\ pc["registrar"] = "start" => context = "live"
  /\ pc["worker"] # "none" => pc["callback"] \in {"tail", "returned"}
  /\ pc["worker"] = "free" => pc["callback"] = "returned"
  /\ pc["callback"] = "none" => pc["worker"] = "none"
  /\ context # "live" =>
       /\ \A t \in Finishers : pc[t] \notin UsingPcs \cup {"free"}
       /\ Armed => pc["callback"] # "none"

IInv == TypeOK /\ Handover

(* The watcher starts with a live context that nobody but it knows of.     *)
LEMMA InitInv == Init => IInv
BY SwitchesAreBoolean
   DEF Init, IInv, TypeOK, Handover, Armed, Threads, Finishers, UsingPcs

(* Every step of the watcher keeps its variables typed.                    *)
LEMMA TypeStep == TypeOK /\ [Next]_vars => TypeOK'
<1> SUFFICES ASSUME TypeOK, [Next]_vars PROVE TypeOK'
  OBVIOUS
<1> USE DEF TypeOK, Threads, Finishers, UsingPcs, Goto, session
<1>1. CASE RegistrarSteps
  BY <1>1 DEF RegistrarSteps, Register, Publish, NotifyAll
<1>2. CASE CallbackSteps
  BY <1>2 DEF CallbackSteps, Callback, SpawnWorker, CallbackReturns
<1>3. ASSUME NEW t \in Finishers, FinishSteps(t) \/ SpuriousWakeup(t) PROVE TypeOK'
  <2>1. CASE TerminateTree(t)
    BY <2>1 DEF TerminateTree
  <2>2. CASE UpgradeShared(t) \/ RequestClose(t)
    BY <2>2 DEF UpgradeShared, RequestClose
  <2>3. CASE LegacyWaitObject(t) \/ SpuriousWakeup(t)
    BY <2>3 DEF LegacyWaitObject, SpuriousWakeup
  <2>4. CASE Unregister(t) \/ FreeContext(t)
    BY <2>4 DEF Unregister, FreeContext
  <2>5. QED
    BY <1>3, <2>1, <2>2, <2>3, <2>4 DEF FinishSteps
<1>4. CASE RootExits \/ DropChild \/ DropSession
  BY <1>4 DEF RootExits, DropChild, DropSession
<1>5. CASE Finished \/ NeverArmed \/ UNCHANGED vars
  BY <1>5 DEF Finished, NeverArmed, vars
<1>6. QED
  BY <1>1, <1>2, <1>3, <1>4, <1>5 DEF Next

(* The hand-over discipline survives every step.                           *)
LEMMA HandoverStep == IInv /\ [Next]_vars => Handover'
<1> SUFFICES ASSUME IInv, [Next]_vars PROVE Handover'
  OBVIOUS
<1> pc \in [Threads -> UsingPcs \cup {"start", "registered", "notifying", "done",
                        "failed", "none", "tail", "returned", "free"}] /\ Handover
  BY DEF IInv, TypeOK
<1> USE DEF Handover, Armed, Threads, Finishers, UsingPcs, Goto, session
<1>1. CASE Register
  BY <1>1 DEF Register
<1>2. CASE Publish
  BY <1>2 DEF Publish
<1>3. CASE NotifyAll
  BY <1>3 DEF NotifyAll
<1>4. CASE Callback
  BY <1>4 DEF Callback
<1>5. CASE SpawnWorker
  BY <1>5 DEF SpawnWorker
<1>6. CASE CallbackReturns
  BY <1>6 DEF CallbackReturns
<1>7. ASSUME NEW t \in Finishers, TerminateTree(t) PROVE Handover'
  BY <1>7 DEF TerminateTree
<1>8. ASSUME NEW t \in Finishers, UpgradeShared(t) PROVE Handover'
  BY <1>8 DEF UpgradeShared
<1>9. ASSUME NEW t \in Finishers, RequestClose(t) PROVE Handover'
  BY <1>9 DEF RequestClose
<1>10. ASSUME NEW t \in Finishers, LegacyWaitObject(t) PROVE Handover'
  BY <1>10 DEF LegacyWaitObject
<1>11. ASSUME NEW t \in Finishers, Unregister(t) PROVE Handover'
  BY <1>11 DEF Unregister
<1>12. ASSUME NEW t \in Finishers, FreeContext(t) PROVE Handover'
  BY <1>12 DEF FreeContext
<1>13. ASSUME NEW t \in Finishers, SpuriousWakeup(t) PROVE Handover'
  BY <1>13 DEF SpuriousWakeup
<1>14. CASE RootExits \/ DropChild \/ DropSession
  BY <1>14 DEF RootExits, DropChild, DropSession
<1>15. CASE Finished \/ NeverArmed \/ UNCHANGED vars
  BY <1>15 DEF Finished, NeverArmed, vars
<1>16. QED
  BY <1>1, <1>2, <1>3, <1>4, <1>5, <1>6, <1>7, <1>8, <1>9, <1>10, <1>11,
     <1>12, <1>13, <1>14, <1>15
     DEF Next, RegistrarSteps, CallbackSteps, FinishSteps

(* Types and hand-over hold throughout.                                    *)
LEMMA IInvHolds == Spec => []IInv
<1>1. IInv /\ [Next]_vars => IInv'
  BY TypeStep, HandoverStep DEF IInv
<1>2. QED
  BY <1>1, InitInv, PTL DEF Spec

SharedStep == [Shared!Next]_(Shared!vars)

(* Each step uses the context, frees it when nobody does, or leaks it.     *)
LEMMA StepRefines == IInv /\ [Next]_vars => SharedStep
<1> SUFFICES ASSUME IInv, [Next]_vars PROVE SharedStep
  OBVIOUS
<1> pc \in [Threads -> UsingPcs \cup {"start", "registered", "notifying", "done",
                        "failed", "none", "tail", "returned", "free"}] /\ Handover
      /\ context \in {"live", "freed", "leaked"}
  BY DEF IInv, TypeOK
<1> DEFINE UsersNow == {t \in Finishers : Using(t)}
<1>1. ASSUME context # "freed", UNCHANGED context PROVE SharedStep
  <2>1. UsersNow' \in SUBSET Finishers
    OBVIOUS
  <2>2. Shared!Use
    BY <1>1, <2>1 DEF Shared!Use
  <2>3. QED
    BY <2>2 DEF SharedStep, Shared!Next
<1>2. ASSUME UNCHANGED context, UsersNow' = UsersNow PROVE SharedStep
  BY <1>2 DEF SharedStep, Shared!vars
<1>3. ASSUME context = "live", context' = "freed", UsersNow = {}, UsersNow' = {}
      PROVE  SharedStep
  BY <1>3 DEF SharedStep, Shared!Next, Shared!Free
<1>4. ASSUME context = "live", context' = "leaked" PROVE SharedStep
  BY <1>4 DEF SharedStep, Shared!Next, Shared!Leak
<1>5. CASE Register
  <2>1. UsersNow = {} /\ UsersNow' = {} /\ context = "live"
    BY <1>5 DEF Register, Goto, Handover, Armed, Using, UsingPcs, Finishers, Threads
  <2>2. QED
    BY <1>1, <1>3, <1>5, <2>1 DEF Register
<1>6. ASSUME NEW t \in Finishers, Unregister(t) PROVE SharedStep
  <2>1. context = "live"
    BY <1>6 DEF Unregister, Goto, Handover, UsingPcs
  <2>2. QED
    BY <1>1, <1>4, <1>6, <2>1 DEF Unregister
<1>7. ASSUME NEW t \in Finishers, FreeContext(t) PROVE SharedStep
  <2>1. pc[t] = "free" /\ pc' = [pc EXCEPT ![t] = "tail"] /\ context' = "freed"
    BY <1>7 DEF FreeContext, Goto
  <2>2. context = "live"
    BY <2>1 DEF Handover
  <2>3. UsersNow = {} /\ UsersNow' = {}
    BY <2>1 DEF Handover, Using, UsingPcs, Finishers, Threads
  <2>4. QED
    BY <1>3, <2>1, <2>2, <2>3
<1>8. ASSUME context = "freed", UNCHANGED context,
             ~Register, \A t \in Finishers : ~Unregister(t) /\ ~FreeContext(t)
      PROVE  SharedStep
  <2>1. \A t \in Finishers : ~Using(t)
    BY <1>8 DEF Handover, Using, Finishers
  <2>2. \A t \in Finishers : ~Using(t)'
    BY <1>8, <2>1, HandoverStep DEF Handover, Using, Finishers
  <2>3. QED
    BY <1>2, <1>8, <2>1, <2>2
<1>9. ASSUME ~Register, \A t \in Finishers : ~Unregister(t) /\ ~FreeContext(t)
      PROVE  UNCHANGED context
  BY <1>9 DEF Next, RegistrarSteps, CallbackSteps, FinishSteps, Publish, NotifyAll,
       Callback, SpawnWorker, CallbackReturns, TerminateTree, UpgradeShared, RequestClose,
       LegacyWaitObject, SpuriousWakeup, RootExits, DropChild, DropSession, Finished,
       NeverArmed, vars
<1>10. QED
  BY <1>1, <1>5, <1>6, <1>7, <1>8, <1>9

(* No use after free and no double free between the callback and the       *)
(* worker of a root watcher, with or without thread, Job and               *)
(* unregistration failures, on either kind of session.                     *)
THEOREM WatcherSharesContext == Spec => ImplementsCallbackContext
<1>1. Init => Shared!Init
  BY DEF Init, Shared!Init, Using, UsingPcs, Finishers, Threads
<1>2. IInv /\ [Next]_vars => SharedStep
  BY StepRefines
<1>3. QED
  BY <1>1, <1>2, IInvHolds, PTL
     DEF Spec, ImplementsCallbackContext, Shared!Spec, SharedStep
=============================================================================
