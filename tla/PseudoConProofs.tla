-------------------------- MODULE PseudoConProofs --------------------------
(***************************************************************************)
(* Proofs about the lifecycle core for every value of its constants: any   *)
(* number of controllers, either kind of console host, spawning before or  *)
(* after the halves are handed out, with and without thread failures.      *)
(*                                                                         *)
(* Type correctness comes first.  The safety properties follow from IInv,  *)
(* whose four parts are each preserved by every action: TokenStep is the   *)
(* heart of it, GateStep and LockStep supply what it needs of the workers  *)
(* and of the mutex, ReleaseStep carries what the code knows about the     *)
(* console host.  The refinement of CloseOnce comes last.                  *)
(***************************************************************************)
EXTENDS PseudoCon, TLAPS

(* A step that changes nothing keeps every variable in its type.           *)
LEMMA StutterType == TypeOK /\ UNCHANGED vars => TypeOK'
BY DEF TypeOK, vars, core, handle, session, os

(* Every action of the session leaves every variable in its type: one step *)
(* per action, and under it one step per variable the action assigns.      *)
LEMMA TypeStep == TypeOK /\ [Next]_vars => TypeOK'
<1> SUFFICES ASSUME TypeOK, [Next]_vars PROVE TypeOK'
  OBVIOUS
<1>1. ASSUME ReadOutput PROVE TypeOK'
  <2>1. conout' \in {"empty", "buffered", "full"}
    BY <1>1 DEF ReadOutput, TypeOK
  <2>2. QED
    BY <1>1, <2>1 DEF ReadOutput, TypeOK, At, Goto, core, handle, session
<1>2. ASSUME NotifyReaderEof PROVE TypeOK'
  <2>1. reader' \in {"Open", "Drained", "Closed"}
    BY <1>2 DEF NotifyReaderEof, ExecuteClose, TypeOK
  <2>2. close' \in {"NotRequested", "Requested", "Done"}
    BY <1>2 DEF NotifyReaderEof, ExecuteClose, TypeOK
  <2>3. closing' \subseteq Threads
    BY <1>2 DEF NotifyReaderEof, ExecuteClose, Threads, Holders, AppThreads, TypeOK
  <2>4. QED
    BY <1>2, <2>1, <2>2, <2>3 DEF NotifyReaderEof, TypeOK, At, Goto, session, os
<1>3. ASSUME DropReaderFile PROVE TypeOK'
  <2>1. pc' \in [Threads -> PcValues]
    BY <1>3 DEF DropReaderFile, At, Goto, PcValues, Threads, Holders, AppThreads, TypeOK
  <2>2. QED
    BY <1>3, <2>1 DEF DropReaderFile, TypeOK, At, Goto, core, handle, session, os
<1>4. ASSUME NotifyReaderClosed PROVE TypeOK'
  <2>1. pc' \in [Threads -> PcValues]
    BY <1>4 DEF NotifyReaderClosed, ExecuteClose, At, Goto, PcValues, Threads,
       Holders, AppThreads, TypeOK
  <2>2. reader' \in {"Open", "Drained", "Closed"}
    BY <1>4 DEF NotifyReaderClosed, ExecuteClose, TypeOK
  <2>3. close' \in {"NotRequested", "Requested", "Done"}
    BY <1>4 DEF NotifyReaderClosed, ExecuteClose, TypeOK
  <2>4. closing' \subseteq Threads
    BY <1>4 DEF NotifyReaderClosed, ExecuteClose, Threads, Holders, AppThreads, TypeOK
  <2>5. QED
    BY <1>4, <2>1, <2>2, <2>3, <2>4 DEF NotifyReaderClosed, TypeOK, At, Goto, session, os
<1>5. ASSUME DropWriterFile PROVE TypeOK'
  <2>1. pc' \in [Threads -> PcValues]
    BY <1>5 DEF DropWriterFile, At, Goto, PcValues, Threads, Holders, AppThreads, TypeOK
  <2>2. QED
    BY <1>5, <2>1 DEF DropWriterFile, TypeOK, At, Goto, core, handle, session, os
<1>6. ASSUME RequestCloseAfterInput PROVE TypeOK'
  <2>1. pc' \in [Threads -> PcValues]
    BY <1>6 DEF RequestCloseAfterInput, At, Goto, PcValues, Threads, Holders,
       AppThreads, TypeOK
  <2>2. QED
    BY <1>6, <2>1 DEF RequestCloseAfterInput, TypeOK, At, Goto, core, handle, session, os
<1>7. ASSUME NEW t \in Requesters, IsReleased(t) PROVE TypeOK'
  <2>1. pc' \in [Threads -> PcValues]
    BY <1>7 DEF IsReleased, Requesters, At, Goto, PcValues, Threads, Holders,
       AppThreads, TypeOK
  <2>2. QED
    BY <1>7, <2>1 DEF IsReleased, TypeOK, At, Goto, core, handle, session, os
<1>8. ASSUME NEW t \in Requesters, SpawnGatedClose(t) PROVE TypeOK'
  <2>1. pc' \in [Threads -> PcValues]
    BY <1>8 DEF SpawnGatedClose, Requesters, Workers, WorkerOf, At, Goto, PcValues,
       Threads, Holders, AppThreads, TypeOK
  <2>2. QED
    BY <1>8, <2>1 DEF SpawnGatedClose, TypeOK, At, Goto, core, handle, session, os
<1>9. ASSUME NEW t \in Requesters, ClaimForWorker(t) PROVE TypeOK'
  <2>1. pc' \in [Threads -> PcValues]
    BY <1>9 DEF ClaimForWorker, Requesters, Workers, WorkerOf, Cancel, At, Goto,
       PcValues, Threads, Holders, AppThreads, TypeOK
  <2>2. close' \in {"NotRequested", "Requested", "Done"}
    BY <1>9 DEF ClaimForWorker, Cancel, TypeOK
  <2>3. QED
    BY <1>9, <2>1, <2>2 DEF ClaimForWorker, TypeOK, At, Goto, handle, session, os
<1>10. ASSUME NEW t \in Requesters, SendStart(t) PROVE TypeOK'
  <2>1. pc' \in [Threads -> PcValues]
    BY <1>10 DEF SendStart, Requesters, Workers, WorkerOf, At, Goto, PcValues,
       Threads, Holders, AppThreads, TypeOK
  <2>2. QED
    BY <1>10, <2>1 DEF SendStart, TypeOK, At, Goto, core, handle, session, os
<1>11. ASSUME NEW t \in Requesters, RestoreRetry(t) PROVE TypeOK'
  <2>1. pc' \in [Threads -> PcValues]
    BY <1>11 DEF RestoreRetry, Requesters, At, Goto, PcValues, Threads, Holders,
       AppThreads, TypeOK
  <2>2. close' \in {"NotRequested", "Requested", "Done"}
    BY <1>11 DEF RestoreRetry, TypeOK
  <2>3. QED
    BY <1>11, <2>1, <2>2 DEF RestoreRetry, TypeOK, At, Goto, handle, session, os
<1>12. ASSUME NEW t \in Requesters \cup {"watcher"}, RequestClose(t) PROVE TypeOK'
  <2>1. pc' \in [Threads -> PcValues]
    BY <1>12 DEF RequestClose, Requesters, ExecuteClose, At, Goto, PcValues, Threads,
       Holders, AppThreads, TypeOK
  <2>2. close' \in {"NotRequested", "Requested", "Done"}
    BY <1>12 DEF RequestClose, ExecuteClose, TypeOK
  <2>3. closing' \subseteq Threads
    BY <1>12 DEF RequestClose, Requesters, ExecuteClose, Threads, Holders, AppThreads,
       TypeOK
  <2>4. QED
    BY <1>12, <2>1, <2>2, <2>3 DEF RequestClose, TypeOK, At, Goto, session, os
<1>13. ASSUME NEW w \in Workers, WorkerClose(w) PROVE TypeOK'
  <2>1. pc' \in [Threads -> PcValues]
    BY <1>13 DEF WorkerClose, Workers, At, Goto, PcValues, Threads, Holders,
       AppThreads, TypeOK
  <2>2. closing' \subseteq Threads
    BY <1>13 DEF WorkerClose, Workers, Threads, Holders, AppThreads, TypeOK
  <2>3. QED
    BY <1>13, <2>1, <2>2 DEF WorkerClose, TypeOK, At, Goto, core, session, os
<1>14. ASSUME NEW w \in Workers, WorkerDies(w) PROVE TypeOK'
  <2>1. pc' \in [Threads -> PcValues]
    BY <1>14 DEF WorkerDies, Workers, At, Goto, PcValues, Threads, Holders,
       AppThreads, TypeOK
  <2>2. QED
    BY <1>14, <2>1 DEF WorkerDies, TypeOK, At, Goto, core, handle, session, os
<1>15. ASSUME BeginCreate PROVE TypeOK'
  <2>1. pc' \in [Threads -> PcValues]
    BY <1>15 DEF BeginCreate, At, Goto, PcValues, Threads, Holders, AppThreads, TypeOK
  <2>2. lock' \in AppThreads \cup {NoThread}
    BY <1>15 DEF BeginCreate, AppThreads, TypeOK
  <2>3. QED
    BY <1>15, <2>1, <2>2 DEF BeginCreate, TypeOK, At, Goto, handle, session, os
<1>16. ASSUME EndCreate PROVE TypeOK'
  <2>1. pc' \in [Threads -> PcValues]
    BY <1>16 DEF EndCreate, At, Goto, PcValues, Threads, Holders, AppThreads, TypeOK
  <2>2. lock' \in AppThreads \cup {NoThread}
    BY <1>16 DEF EndCreate, AppThreads, TypeOK
  <2>3. root' \in {"none", "running", "exited"}
    BY <1>16 DEF EndCreate, TypeOK
  <2>4. clients' \in BOOLEAN
    BY <1>16 DEF EndCreate, TypeOK
  <2>5. QED
    BY <1>16, <2>1, <2>2, <2>3, <2>4 DEF EndCreate, TypeOK, At, Goto, handle, session
<1>17. ASSUME GiveUp PROVE TypeOK'
  <2>1. pc' \in [Threads -> PcValues]
    BY <1>17 DEF GiveUp, At, Goto, PcValues, Threads, Holders, AppThreads, TypeOK
  <2>2. QED
    BY <1>17, <2>1 DEF GiveUp, TypeOK, At, Goto, core, handle, session, os
<1>18. ASSUME MarkAttached PROVE TypeOK'
  <2>1. pc' \in [Threads -> PcValues]
    BY <1>18 DEF MarkAttached, At, Goto, PcValues, Threads, Holders, AppThreads, TypeOK
  <2>2. attached' \in BOOLEAN
    BY <1>18 DEF MarkAttached, TypeOK
  <2>3. QED
    BY <1>18, <2>1, <2>2 DEF MarkAttached, TypeOK, At, Goto, core, handle, os
<1>19. ASSUME BeginRelease PROVE TypeOK'
  <2>1. pc' \in [Threads -> PcValues]
    BY <1>19 DEF BeginRelease, At, Goto, PcValues, Threads, Holders, AppThreads, TypeOK
  <2>2. lock' \in AppThreads \cup {NoThread}
    BY <1>19 DEF BeginRelease, AppThreads, TypeOK
  <2>3. QED
    BY <1>19, <2>1, <2>2 DEF BeginRelease, TypeOK, At, Goto, handle, session, os
<1>20. ASSUME EndRelease PROVE TypeOK'
  <2>1. pc' \in [Threads -> PcValues]
    BY <1>20 DEF EndRelease, At, Goto, PcValues, Threads, Holders, AppThreads, TypeOK
  <2>2. lock' \in AppThreads \cup {NoThread}
    BY <1>20 DEF EndRelease, AppThreads, TypeOK
  <2>3. released' \in BOOLEAN
    BY <1>20 DEF EndRelease, TypeOK
  <2>4. QED
    BY <1>20, <2>1, <2>2, <2>3 DEF EndRelease, TypeOK, At, Goto, handle, session, os
<1>21. ASSUME ArmRootWatcher PROVE TypeOK'
  <2>1. pc' \in [Threads -> PcValues]
    BY <1>21 DEF ArmRootWatcher, CloseLegacyOnRootExit, At, Goto, PcValues, Threads,
       Holders, AppThreads, TypeOK
  <2>2. closeLegacy' \in BOOLEAN
    BY <1>21 DEF ArmRootWatcher, CloseLegacyOnRootExit, TypeOK
  <2>3. root' \in {"none", "running", "exited"}
    BY <1>21 DEF ArmRootWatcher, CloseLegacyOnRootExit, TypeOK
  <2>4. clients' \in BOOLEAN
    BY <1>21 DEF ArmRootWatcher, CloseLegacyOnRootExit, TypeOK
  <2>5. QED
    BY <1>21, <2>1, <2>2, <2>3, <2>4 DEF ArmRootWatcher, TypeOK, At, Goto, core, handle
<1>22. ASSUME RootWaitFires PROVE TypeOK'
  <2>1. pc' \in [Threads -> PcValues]
    BY <1>22 DEF RootWaitFires, At, Goto, PcValues, Threads, Holders, AppThreads, TypeOK
  <2>2. clients' \in BOOLEAN
    BY <1>22 DEF RootWaitFires, TypeOK
  <2>3. QED
    BY <1>22, <2>1, <2>2 DEF RootWaitFires, TypeOK, At, Goto, core, handle, session
<1>23. ASSUME UpgradeShared PROVE TypeOK'
  <2>1. pc' \in [Threads -> PcValues]
    BY <1>23 DEF UpgradeShared, At, Goto, PcValues, Threads, Holders, AppThreads, TypeOK
  <2>2. refs' \subseteq Holders
    BY <1>23 DEF UpgradeShared, Threads, Holders, AppThreads, TypeOK
  <2>3. QED
    BY <1>23, <2>1, <2>2 DEF UpgradeShared, TypeOK, At, Goto, core, handle, session, os
<1>24. ASSUME NEW c \in Controllers, Resize(c) PROVE TypeOK'
  <2>1. pc' \in [Threads -> PcValues]
    BY <1>24 DEF Resize, Borrow, At, Goto, PcValues, Threads, Holders, AppThreads, TypeOK
  <2>2. lock' \in AppThreads \cup {NoThread}
    BY <1>24 DEF Resize, Borrow, AppThreads, TypeOK
  <2>3. QED
    BY <1>24, <2>1, <2>2 DEF Resize, Borrow, TypeOK, At, Goto, handle, session, os
<1>25. ASSUME NEW c \in Controllers, Clear(c) PROVE TypeOK'
  <2>1. pc' \in [Threads -> PcValues]
    BY <1>25 DEF Clear, Borrow, At, Goto, PcValues, Threads, Holders, AppThreads, TypeOK
  <2>2. lock' \in AppThreads \cup {NoThread}
    BY <1>25 DEF Clear, Borrow, AppThreads, TypeOK
  <2>3. QED
    BY <1>25, <2>1, <2>2 DEF Clear, Borrow, TypeOK, At, Goto, handle, session, os
<1>26. ASSUME NEW c \in Controllers, EndCall(c) PROVE TypeOK'
  <2>1. pc' \in [Threads -> PcValues]
    BY <1>26 DEF EndCall, At, Goto, PcValues, Threads, Holders, AppThreads, TypeOK
  <2>2. lock' \in AppThreads \cup {NoThread}
    BY <1>26 DEF EndCall, AppThreads, TypeOK
  <2>3. QED
    BY <1>26, <2>1, <2>2 DEF EndCall, TypeOK, At, Goto, handle, session, os
<1>27. ASSUME NEW t \in Holders, DropHandle(t) PROVE TypeOK'
  <2>1. pc' \in [Threads -> PcValues]
    BY <1>27 DEF DropHandle, FinalDrop, handle, At, Goto, PcValues, Threads, Holders,
       AppThreads, TypeOK
  <2>2. refs' \subseteq Holders
    BY <1>27 DEF DropHandle, FinalDrop, handle, Threads, Holders, AppThreads, TypeOK
  <2>3. close' \in {"NotRequested", "Requested", "Done"}
    BY <1>27 DEF DropHandle, FinalDrop, handle, TypeOK
  <2>4. closing' \subseteq Threads
    BY <1>27 DEF DropHandle, FinalDrop, handle, Threads, Holders, AppThreads, TypeOK
  <2>5. hpcon' \in {"live", "closed", "leaked"}
    BY <1>27 DEF DropHandle, FinalDrop, handle, TypeOK
  <2>6. QED
    BY <1>27, <2>1, <2>2, <2>3, <2>4, <2>5 DEF DropHandle, TypeOK, At, Goto, session, os
<1>28. ASSUME NEW t \in Threads, CloseReturns(t) PROVE TypeOK'
  <2>1. closing' \subseteq Threads
    BY <1>28 DEF CloseReturns, Threads, Holders, AppThreads, TypeOK
  <2>2. hpcon' \in {"live", "closed", "leaked"}
    BY <1>28 DEF CloseReturns, TypeOK
  <2>3. QED
    BY <1>28, <2>1, <2>2 DEF CloseReturns, TypeOK, At, Goto, core, session, os
<1>29. ASSUME HostWrites PROVE TypeOK'
  <2>1. conout' \in {"empty", "buffered", "full"}
    BY <1>29 DEF HostWrites, TypeOK
  <2>2. QED
    BY <1>29, <2>1 DEF HostWrites, TypeOK, At, Goto, core, handle, session
<1>30. ASSUME RootExits PROVE TypeOK'
  <2>1. root' \in {"none", "running", "exited"}
    BY <1>30 DEF RootExits, TypeOK
  <2>2. clients' \in BOOLEAN
    BY <1>30 DEF RootExits, TypeOK
  <2>3. QED
    BY <1>30, <2>1, <2>2 DEF RootExits, TypeOK, At, Goto, core, handle, session
<1>31. ASSUME OrphansExit PROVE TypeOK'
  <2>1. clients' \in BOOLEAN
    BY <1>31 DEF OrphansExit, TypeOK
  <2>2. QED
    BY <1>31, <2>1 DEF OrphansExit, TypeOK, At, Goto, core, handle, session
<1>32. ASSUME ClientsLeave PROVE TypeOK'
  <2>1. root' \in {"none", "running", "exited"}
    BY <1>32 DEF ClientsLeave, TypeOK
  <2>2. clients' \in BOOLEAN
    BY <1>32 DEF ClientsLeave, TypeOK
  <2>3. QED
    BY <1>32, <2>1, <2>2 DEF ClientsLeave, TypeOK, At, Goto, core, handle, session
<1>33. ASSUME HostExits PROVE TypeOK'
  <2>1. host' \in {"up", "down"}
    BY <1>33 DEF HostExits, TypeOK
  <2>2. QED
    BY <1>33, <2>1 DEF HostExits, TypeOK, At, Goto, core, handle, session
<1>34. ASSUME HostDies PROVE TypeOK'
  <2>1. host' \in {"up", "down"}
    BY <1>34 DEF HostDies, TypeOK
  <2>2. clients' \in BOOLEAN
    BY <1>34 DEF HostDies, TypeOK
  <2>3. QED
    BY <1>34, <2>1, <2>2 DEF HostDies, TypeOK, At, Goto, core, handle, session
<1>35. ASSUME Finished PROVE TypeOK'
  BY <1>35, StutterType DEF Finished
<1>36. QED
  BY <1>1, <1>2, <1>3, <1>4, <1>5, <1>6, <1>7, <1>8, <1>9, <1>10, <1>11,
     <1>12, <1>13, <1>14, <1>15, <1>16, <1>17, <1>18, <1>19, <1>20, <1>21,
     <1>22, <1>23, <1>24, <1>25, <1>26, <1>27, <1>28, <1>29, <1>30, <1>31,
     <1>32, <1>33, <1>34, <1>35, StutterType
     DEF Next, ReaderSteps, DetachSteps, WorkerSteps, SpawnerSteps, ControllerSteps, OsSteps

(* A new session has every variable in its type.                           *)
LEMMA InitType == Init => TypeOK
<1> SUFFICES ASSUME Init PROVE TypeOK
  OBVIOUS
<1>1. pc \in [Threads -> PcValues]
  BY DEF Init, PcValues
<1>2. releaseExport \in BOOLEAN
  BY SwitchesAreBoolean DEF Init
<1>3. QED
  BY <1>1, <1>2 DEF Init, TypeOK, Holders

(* Whatever the number of controllers and the kind of console host, every  *)
(* variable of the lifecycle core keeps its type.                          *)
THEOREM TypeCorrect == Spec => []TypeOK
BY InitType, TypeStep, PTL DEF Spec

-----------------------------------------------------------------------------
(* The threads that were told to close, or still have to tell a worker,    *)
(* are the same before and after the step.                                 *)
KeepsTokens == \A s \in Threads : pc'[s] \in TokenPcs <=> pc[s] \in TokenPcs

(* A step that neither claims nor enters nor leaves the close keeps its    *)
(* owner.                                                                  *)
LEMMA TokensKept ==
  ASSUME Tokens, KeepsTokens, UNCHANGED <<closing, hpcon>>, close' = "Done" <=> close = "Done",
         closing \subseteq Threads
  PROVE  Tokens'
<1>1. Owners' = Owners
  BY DEF Owners, OwnsClose, KeepsTokens
<1>2. QED
  BY <1>1 DEF Tokens, Lifecycle, KeepsTokens

(* execute_close on a session nobody has claimed makes the calling thread  *)
(* the only owner of the close.                                            *)
LEMMA TokensClaimed ==
  ASSUME Tokens, KeepsTokens, NEW t \in Threads, close # "Done", ExecuteClose(t),
         UNCHANGED hpcon, closing \subseteq Threads
  PROVE  Tokens'
<1>1. Owners = {} /\ hpcon = "live"
  BY DEF Tokens, Lifecycle
<1>2. pc[t] \notin TokenPcs
  BY <1>1 DEF Owners, OwnsClose
<1>3. Owners' = {t}
  BY <1>1, <1>2 DEF Owners, OwnsClose, KeepsTokens, ExecuteClose
<1>4. QED
  BY <1>1, <1>2, <1>3 DEF Tokens, Lifecycle, KeepsTokens, ExecuteClose

(* The claim and its owner move together in every action: a session in     *)
(* Done has exactly one owner until its HPCON is closed or leaked, any     *)
(* other has none (State.close against execute_close,                      *)
(* request_close_detached and Drop).                                       *)
LEMMA TokenStep == TypeOK /\ Tokens /\ Gates /\ [Next]_vars => Tokens'
<1> SUFFICES ASSUME TypeOK /\ Tokens /\ Gates, [Next]_vars PROVE Tokens'
  OBVIOUS
<1> pc \in [Threads -> PcValues] /\ closing \subseteq Threads
  BY DEF TypeOK
<1> USE ControllersAreDistinct DEF Tokens, Lifecycle, Owners, OwnsClose, TokenPcs, At,
        Goto, core, handle, session, os,
            AppThreads, Holders, Threads, Workers, Requesters
<1>1. ASSUME ReadOutput PROVE Tokens'
  BY <1>1 DEF ReadOutput
<1>2. ASSUME NotifyReaderEof PROVE Tokens'
  BY <1>2 DEF NotifyReaderEof, ExecuteClose
<1>3. ASSUME DropReaderFile PROVE Tokens'
  BY <1>3 DEF DropReaderFile
<1>4. ASSUME NotifyReaderClosed PROVE Tokens'
  <2>1. KeepsTokens
    BY <1>4 DEF NotifyReaderClosed, KeepsTokens, TokenPcs, At, Goto
  <2>2. CASE close = "Requested"
    BY <1>4, <2>1, <2>2, TokensClaimed DEF NotifyReaderClosed, ExecuteClose
  <2>3. CASE close # "Requested"
    BY <1>4, <2>1, <2>3, TokensKept DEF NotifyReaderClosed
  <2>4. QED
    BY <2>2, <2>3
<1>5. ASSUME DropWriterFile PROVE Tokens'
  BY <1>5 DEF DropWriterFile
<1>6. ASSUME RequestCloseAfterInput PROVE Tokens'
  BY <1>6 DEF RequestCloseAfterInput
<1>7. ASSUME NEW t \in Requesters, IsReleased(t) PROVE Tokens'
  BY <1>7 DEF IsReleased
<1>8. ASSUME NEW t \in Requesters, SpawnGatedClose(t) PROVE Tokens'
  <2>1. pc[t] = "spawnWorker" /\ pc[WorkerOf(t)] = "none"
    BY <1>8 DEF SpawnGatedClose, Gates
  <2>2. KeepsTokens
    BY <1>8, <2>1 DEF SpawnGatedClose, KeepsTokens, WorkerOf
  <2>3. QED
    BY <1>8, <2>2, TokensKept DEF SpawnGatedClose
<1>9. ASSUME NEW t \in Requesters, ClaimForWorker(t) PROVE Tokens'
  <2>1. pc[t] = "claim" /\ t \notin closing /\ pc[WorkerOf(t)] \notin TokenPcs
    BY <1>9 DEF ClaimForWorker, Gates, WorkerOf
  <2>2. CASE close = "Done" \/ released
    <3>1. \E next \in {"dropping", "request"} : Cancel(t, next)
      BY <1>9, <2>2 DEF ClaimForWorker
    <3>2. KeepsTokens
      BY <2>1, <3>1 DEF Cancel, KeepsTokens, WorkerOf
    <3>3. QED
      BY <1>9, <3>1, <3>2, TokensKept DEF ClaimForWorker, Cancel
  <2>3. CASE ~(close = "Done" \/ released)
    <3>1. close' = "Done" /\ pc' = [pc EXCEPT ![t] = "handoff"]
      BY <1>9, <2>3 DEF ClaimForWorker
    <3>2. Owners = {} /\ hpcon = "live" /\ closing = {}
      BY <2>3
    <3>3. Owners' = {t}
      BY <1>9, <3>1, <3>2 DEF ClaimForWorker
    <3>4. QED
      BY <1>9, <3>1, <3>2, <3>3 DEF ClaimForWorker
  <2>4. QED
    BY <2>2, <2>3
<1>10. ASSUME NEW t \in Requesters, SendStart(t) PROVE Tokens'
  <2>1. pc[t] = "handoff" /\ Owners = {t} /\ closing = {}
    BY <1>10 DEF SendStart
  <2>2. close = "Done" /\ hpcon = "live"
    BY <2>1
  <2>3. CASE pc[WorkerOf(t)] = "waiting"
    <3>1. pc' = [pc EXCEPT ![t] = "dropping", ![WorkerOf(t)] = "go"]
      BY <1>10, <2>3 DEF SendStart
    <3>2. Owners' = {WorkerOf(t)}
      BY <1>10, <2>1, <3>1 DEF SendStart, WorkerOf
    <3>3. WorkerOf(t) \in Threads
      BY DEF WorkerOf
    <3>4. QED
      BY <1>10, <2>1, <2>2, <3>2, <3>3 DEF SendStart
  <2>4. CASE pc[WorkerOf(t)] # "waiting"
    <3>1. KeepsTokens
      BY <1>10, <2>1, <2>4 DEF SendStart, KeepsTokens
    <3>2. QED
      BY <1>10, <3>1, TokensKept DEF SendStart
  <2>5. QED
    BY <2>3, <2>4
<1>11. ASSUME NEW t \in Requesters, RestoreRetry(t) PROVE Tokens'
  BY <1>11 DEF RestoreRetry
<1>12. ASSUME NEW t \in Requesters \cup {"watcher"}, RequestClose(t) PROVE Tokens'
  <2>1. KeepsTokens
    BY <1>12 DEF RequestClose, KeepsTokens, TokenPcs, At, Goto
  <2>2. CASE close # "Done" /\ ~Deferred
    BY <1>12, <2>1, <2>2, TokensClaimed DEF RequestClose, ExecuteClose
  <2>3. CASE ~(close # "Done" /\ ~Deferred)
    <3>1. UNCHANGED <<closing, hpcon>> /\ (close' = "Done" <=> close = "Done")
      BY <1>12, <2>3 DEF RequestClose
    <3>2. QED
      BY <2>1, <3>1, TokensKept
  <2>4. QED
    BY <2>2, <2>3
<1>13. ASSUME NEW w \in Workers, WorkerClose(w) PROVE Tokens'
  BY <1>13 DEF WorkerClose
<1>14. ASSUME NEW w \in Workers, WorkerDies(w) PROVE Tokens'
  BY <1>14 DEF WorkerDies
<1>15. ASSUME BeginCreate PROVE Tokens'
  BY <1>15 DEF BeginCreate
<1>16. ASSUME EndCreate PROVE Tokens'
  <2>1. KeepsTokens
    BY <1>16 DEF EndCreate, KeepsTokens, TokenPcs, At, Goto
  <2>2. QED
    BY <1>16, <2>1, TokensKept DEF EndCreate
<1>17. ASSUME GiveUp PROVE Tokens'
  BY <1>17 DEF GiveUp
<1>18. ASSUME MarkAttached PROVE Tokens'
  BY <1>18 DEF MarkAttached
<1>19. ASSUME BeginRelease PROVE Tokens'
  <2>1. KeepsTokens
    BY <1>19 DEF BeginRelease, KeepsTokens, TokenPcs, At, Goto
  <2>2. QED
    BY <1>19, <2>1, TokensKept DEF BeginRelease
<1>20. ASSUME EndRelease PROVE Tokens'
  BY <1>20 DEF EndRelease
<1>21. ASSUME ArmRootWatcher PROVE Tokens'
  <2>1. pc["spawner"] = "arm" /\ pc["watcher"] \notin TokenPcs
    BY <1>21 DEF ArmRootWatcher, Gates
  <2>2. KeepsTokens
    BY <1>21, <2>1 DEF ArmRootWatcher, KeepsTokens
  <2>3. QED
    BY <1>21, <2>2, TokensKept DEF ArmRootWatcher
<1>22. ASSUME RootWaitFires PROVE Tokens'
  BY <1>22 DEF RootWaitFires
<1>23. ASSUME UpgradeShared PROVE Tokens'
  <2>1. KeepsTokens
    BY <1>23 DEF UpgradeShared, KeepsTokens, TokenPcs, At, Goto
  <2>2. QED
    BY <1>23, <2>1, TokensKept DEF UpgradeShared
<1>24. ASSUME NEW c \in Controllers, Resize(c) PROVE Tokens'
  BY <1>24 DEF Resize, Borrow
<1>25. ASSUME NEW c \in Controllers, Clear(c) PROVE Tokens'
  BY <1>25 DEF Clear, Borrow
<1>26. ASSUME NEW c \in Controllers, EndCall(c) PROVE Tokens'
  BY <1>26 DEF EndCall
<1>27. ASSUME NEW t \in Holders, DropHandle(t) PROVE Tokens'
  <2>1. KeepsTokens
    BY <1>27 DEF DropHandle, KeepsTokens
  <2>2. CASE refs' = {} /\ close # "Done"
    <3>1. FinalDrop(t)
      BY <1>27, <2>2 DEF DropHandle
    <3>2. CASE hpcon' = "leaked" /\ UNCHANGED closing
      <4>1. Owners = {} /\ Owners' = {}
        BY <2>1, <2>2, <3>2 DEF KeepsTokens
      <4>2. QED
        BY <2>1, <3>1, <3>2, <4>1 DEF FinalDrop, KeepsTokens
    <3>3. CASE UNCHANGED hpcon
      <4>1. PICK u \in {t, "dropWorker"} : closing' = closing \cup {u}
        BY <2>2, <3>1, <3>3 DEF FinalDrop
      <4>2. ExecuteClose(u)
        BY <3>1, <4>1 DEF FinalDrop, ExecuteClose
      <4>3. QED
        BY <2>1, <2>2, <3>3, <4>2, TokensClaimed
    <3>4. QED
      BY <3>1, <3>2, <3>3 DEF FinalDrop
  <2>3. CASE ~(refs' = {} /\ close # "Done")
    BY <1>27, <2>1, <2>3, TokensKept DEF DropHandle, handle
  <2>4. QED
    BY <2>2, <2>3
<1>28. ASSUME NEW t \in Threads, CloseReturns(t) PROVE Tokens'
  BY <1>28 DEF CloseReturns
<1>29. ASSUME HostWrites PROVE Tokens'
  BY <1>29 DEF HostWrites
<1>30. ASSUME RootExits PROVE Tokens'
  BY <1>30 DEF RootExits
<1>31. ASSUME OrphansExit PROVE Tokens'
  BY <1>31 DEF OrphansExit
<1>32. ASSUME ClientsLeave PROVE Tokens'
  BY <1>32 DEF ClientsLeave
<1>33. ASSUME HostExits PROVE Tokens'
  BY <1>33 DEF HostExits
<1>34. ASSUME HostDies PROVE Tokens'
  BY <1>34 DEF HostDies
<1>35. CASE UNCHANGED vars
  BY <1>35 DEF vars
<1>36. QED
  BY <1>1, <1>2, <1>3, <1>4, <1>5, <1>6, <1>7, <1>8, <1>9, <1>10, <1>11,
     <1>12, <1>13, <1>14, <1>15, <1>16, <1>17, <1>18, <1>19, <1>20, <1>21,
     <1>22, <1>23, <1>24, <1>25, <1>26, <1>27, <1>28, <1>29, <1>30, <1>31,
     <1>32, <1>33, <1>34, <1>35
     DEF Next, ReaderSteps, DetachSteps, WorkerSteps, SpawnerSteps, ControllerSteps,
         OsSteps, Finished

(* A gated worker exists only while its request is under way or after the  *)
(* request is over, and is told to go only at its end (spawn_gated_close,  *)
(* request_close_detached).                                                *)
LEMMA GateStep == TypeOK /\ Gates /\ [Next]_vars => Gates'
<1> SUFFICES ASSUME TypeOK /\ Gates, [Next]_vars PROVE Gates'
  OBVIOUS
<1> pc \in [Threads -> PcValues] /\ closing \subseteq Threads
  BY DEF TypeOK
<1> USE ControllersAreDistinct DEF Gates, WorkerOf, TokenPcs, At, Goto, core, handle,
        session, os,
            AppThreads, Holders, Threads, Workers, Requesters
<1>1. ASSUME ReadOutput PROVE Gates'
  BY <1>1 DEF ReadOutput
<1>2. ASSUME NotifyReaderEof PROVE Gates'
  BY <1>2 DEF NotifyReaderEof, ExecuteClose
<1>3. ASSUME DropReaderFile PROVE Gates'
  BY <1>3 DEF DropReaderFile
<1>4. ASSUME NotifyReaderClosed PROVE Gates'
  BY <1>4 DEF NotifyReaderClosed, ExecuteClose
<1>5. ASSUME DropWriterFile PROVE Gates'
  BY <1>5 DEF DropWriterFile
<1>6. ASSUME RequestCloseAfterInput PROVE Gates'
  BY <1>6 DEF RequestCloseAfterInput
<1>7. ASSUME NEW t \in Requesters, IsReleased(t) PROVE Gates'
  BY <1>7 DEF IsReleased
<1>8. ASSUME NEW t \in Requesters, SpawnGatedClose(t) PROVE Gates'
  BY <1>8 DEF SpawnGatedClose, WorkerOf
<1>9. ASSUME NEW t \in Requesters, ClaimForWorker(t) PROVE Gates'
  BY <1>9 DEF ClaimForWorker, WorkerOf, Cancel
<1>10. ASSUME NEW t \in Requesters, SendStart(t) PROVE Gates'
  BY <1>10 DEF SendStart, WorkerOf
<1>11. ASSUME NEW t \in Requesters, RestoreRetry(t) PROVE Gates'
  BY <1>11 DEF RestoreRetry
<1>12. ASSUME NEW t \in Requesters \cup {"watcher"}, RequestClose(t) PROVE Gates'
  BY <1>12 DEF RequestClose, ExecuteClose, Deferred
<1>13. ASSUME NEW w \in Workers, WorkerClose(w) PROVE Gates'
  BY <1>13 DEF WorkerClose
<1>14. ASSUME NEW w \in Workers, WorkerDies(w) PROVE Gates'
  BY <1>14 DEF WorkerDies
<1>15. ASSUME BeginCreate PROVE Gates'
  BY <1>15 DEF BeginCreate
<1>16. ASSUME EndCreate PROVE Gates'
  BY <1>16 DEF EndCreate
<1>17. ASSUME GiveUp PROVE Gates'
  BY <1>17 DEF GiveUp
<1>18. ASSUME MarkAttached PROVE Gates'
  BY <1>18 DEF MarkAttached
<1>19. ASSUME BeginRelease PROVE Gates'
  BY <1>19 DEF BeginRelease
<1>20. ASSUME EndRelease PROVE Gates'
  BY <1>20 DEF EndRelease
<1>21. ASSUME ArmRootWatcher PROVE Gates'
  BY <1>21 DEF ArmRootWatcher
<1>22. ASSUME RootWaitFires PROVE Gates'
  BY <1>22 DEF RootWaitFires
<1>23. ASSUME UpgradeShared PROVE Gates'
  BY <1>23 DEF UpgradeShared
<1>24. ASSUME NEW c \in Controllers, Resize(c) PROVE Gates'
  BY <1>24 DEF Resize, Borrow
<1>25. ASSUME NEW c \in Controllers, Clear(c) PROVE Gates'
  BY <1>25 DEF Clear, Borrow
<1>26. ASSUME NEW c \in Controllers, EndCall(c) PROVE Gates'
  BY <1>26 DEF EndCall
<1>27. ASSUME NEW t \in Holders, DropHandle(t) PROVE Gates'
  BY <1>27 DEF DropHandle, FinalDrop, handle, DropDetaches
<1>28. ASSUME NEW t \in Threads, CloseReturns(t) PROVE Gates'
  BY <1>28 DEF CloseReturns
<1>29. ASSUME HostWrites PROVE Gates'
  BY <1>29 DEF HostWrites
<1>30. ASSUME RootExits PROVE Gates'
  BY <1>30 DEF RootExits
<1>31. ASSUME OrphansExit PROVE Gates'
  BY <1>31 DEF OrphansExit
<1>32. ASSUME ClientsLeave PROVE Gates'
  BY <1>32 DEF ClientsLeave
<1>33. ASSUME HostExits PROVE Gates'
  BY <1>33 DEF HostExits
<1>34. ASSUME HostDies PROVE Gates'
  BY <1>34 DEF HostDies
<1>35. CASE UNCHANGED vars
  BY <1>35 DEF vars
<1>36. QED
  BY <1>1, <1>2, <1>3, <1>4, <1>5, <1>6, <1>7, <1>8, <1>9, <1>10, <1>11,
     <1>12, <1>13, <1>14, <1>15, <1>16, <1>17, <1>18, <1>19, <1>20, <1>21,
     <1>22, <1>23, <1>24, <1>25, <1>26, <1>27, <1>28, <1>29, <1>30, <1>31,
     <1>32, <1>33, <1>34, <1>35
     DEF Next, ReaderSteps, DetachSteps, WorkerSteps, SpawnerSteps, ControllerSteps,
         OsSteps, Finished

(* Whoever holds the state mutex across a backend call is alive, is in     *)
(* that call, and excludes the claim; an application thread that is not    *)
(* gone holds its Arc.                                                     *)
LEMMA LockStep == TypeOK /\ Tokens /\ Locking /\ [Next]_vars => Locking'
<1> SUFFICES ASSUME TypeOK /\ Tokens /\ Locking, [Next]_vars PROVE Locking'
  OBVIOUS
<1> pc \in [Threads -> PcValues] /\ closing \subseteq Threads
  BY DEF TypeOK
<1> lock \in AppThreads \cup {NoThread}
  BY DEF TypeOK
<1> USE ControllersAreDistinct DEF Tokens, Lifecycle, Owners, OwnsClose, TokenPcs,
        Locking, Unlocked, NoThread,
            At, Goto, core, handle, session, os,
            AppThreads, Holders, Threads, Workers, Requesters
<1>1. ASSUME ReadOutput PROVE Locking'
  BY <1>1 DEF ReadOutput
<1>2. ASSUME NotifyReaderEof PROVE Locking'
  BY <1>2 DEF NotifyReaderEof, ExecuteClose
<1>3. ASSUME DropReaderFile PROVE Locking'
  BY <1>3 DEF DropReaderFile
<1>4. ASSUME NotifyReaderClosed PROVE Locking'
  BY <1>4 DEF NotifyReaderClosed, ExecuteClose
<1>5. ASSUME DropWriterFile PROVE Locking'
  BY <1>5 DEF DropWriterFile
<1>6. ASSUME RequestCloseAfterInput PROVE Locking'
  BY <1>6 DEF RequestCloseAfterInput
<1>7. ASSUME NEW t \in Requesters, IsReleased(t) PROVE Locking'
  BY <1>7 DEF IsReleased
<1>8. ASSUME NEW t \in Requesters, SpawnGatedClose(t) PROVE Locking'
  <2>1. pc[t] = "spawnWorker" /\ pc'[t] # "gone"
    BY <1>8 DEF SpawnGatedClose, WorkerOf
  <2>2. \A s \in AppThreads : s # t => pc'[s] = pc[s]
    BY <1>8 DEF SpawnGatedClose, WorkerOf
  <2>3. QED
    BY <1>8, <2>1, <2>2 DEF SpawnGatedClose
<1>9. ASSUME NEW t \in Requesters, ClaimForWorker(t) PROVE Locking'
  BY <1>9 DEF ClaimForWorker, WorkerOf, Cancel
<1>10. ASSUME NEW t \in Requesters, SendStart(t) PROVE Locking'
  BY <1>10 DEF SendStart, WorkerOf
<1>11. ASSUME NEW t \in Requesters, RestoreRetry(t) PROVE Locking'
  BY <1>11 DEF RestoreRetry
<1>12. ASSUME NEW t \in Requesters \cup {"watcher"}, RequestClose(t) PROVE Locking'
  BY <1>12 DEF RequestClose, ExecuteClose, Deferred
<1>13. ASSUME NEW w \in Workers, WorkerClose(w) PROVE Locking'
  BY <1>13 DEF WorkerClose
<1>14. ASSUME NEW w \in Workers, WorkerDies(w) PROVE Locking'
  BY <1>14 DEF WorkerDies
<1>15. ASSUME BeginCreate PROVE Locking'
  BY <1>15 DEF BeginCreate
<1>16. ASSUME EndCreate PROVE Locking'
  BY <1>16 DEF EndCreate
<1>17. ASSUME GiveUp PROVE Locking'
  BY <1>17 DEF GiveUp
<1>18. ASSUME MarkAttached PROVE Locking'
  BY <1>18 DEF MarkAttached
<1>19. ASSUME BeginRelease PROVE Locking'
  BY <1>19 DEF BeginRelease
<1>20. ASSUME EndRelease PROVE Locking'
  BY <1>20 DEF EndRelease
<1>21. ASSUME ArmRootWatcher PROVE Locking'
  <2>1. pc["spawner"] = "arm" /\ pc'["spawner"] # "gone"
    BY <1>21 DEF ArmRootWatcher
  <2>2. \A s \in AppThreads : s # "spawner" => pc'[s] = pc[s]
    BY <1>21 DEF ArmRootWatcher
  <2>3. QED
    BY <1>21, <2>1, <2>2 DEF ArmRootWatcher
<1>22. ASSUME RootWaitFires PROVE Locking'
  BY <1>22 DEF RootWaitFires
<1>23. ASSUME UpgradeShared PROVE Locking'
  <2>1. \A s \in AppThreads : pc'[s] = pc[s]
    BY <1>23 DEF UpgradeShared
  <2>2. refs \subseteq refs'
    BY <1>23 DEF UpgradeShared
  <2>3. QED
    BY <1>23, <2>1, <2>2 DEF UpgradeShared
<1>24. ASSUME NEW c \in Controllers, Resize(c) PROVE Locking'
  BY <1>24 DEF Resize, Borrow
<1>25. ASSUME NEW c \in Controllers, Clear(c) PROVE Locking'
  BY <1>25 DEF Clear, Borrow
<1>26. ASSUME NEW c \in Controllers, EndCall(c) PROVE Locking'
  BY <1>26 DEF EndCall
<1>27. ASSUME NEW t \in Holders, DropHandle(t) PROVE Locking'
  <2>1. pc[t] \in {"open", "dropping"} /\ pc' = [pc EXCEPT ![t] = "gone"] /\ refs' = refs \ {t}
    BY <1>27 DEF DropHandle
  <2>2. lock # NoThread => lock # t /\ lock \in refs' /\ UNCHANGED close
    BY <1>27, <2>1 DEF DropHandle
  <2>3. UNCHANGED lock
    BY <1>27 DEF DropHandle
  <2>4. \A s \in AppThreads : pc'[s] # "gone" => s \in refs'
    BY <2>1
  <2>5. QED
    BY <2>1, <2>2, <2>3, <2>4
<1>28. ASSUME NEW t \in Threads, CloseReturns(t) PROVE Locking'
  BY <1>28 DEF CloseReturns
<1>29. ASSUME HostWrites PROVE Locking'
  BY <1>29 DEF HostWrites
<1>30. ASSUME RootExits PROVE Locking'
  BY <1>30 DEF RootExits
<1>31. ASSUME OrphansExit PROVE Locking'
  BY <1>31 DEF OrphansExit
<1>32. ASSUME ClientsLeave PROVE Locking'
  BY <1>32 DEF ClientsLeave
<1>33. ASSUME HostExits PROVE Locking'
  BY <1>33 DEF HostExits
<1>34. ASSUME HostDies PROVE Locking'
  BY <1>34 DEF HostDies
<1>35. CASE UNCHANGED vars
  BY <1>35 DEF vars
<1>36. QED
  BY <1>1, <1>2, <1>3, <1>4, <1>5, <1>6, <1>7, <1>8, <1>9, <1>10, <1>11,
     <1>12, <1>13, <1>14, <1>15, <1>16, <1>17, <1>18, <1>19, <1>20, <1>21,
     <1>22, <1>23, <1>24, <1>25, <1>26, <1>27, <1>28, <1>29, <1>30, <1>31,
     <1>32, <1>33, <1>34, <1>35
     DEF Next, ReaderSteps, DetachSteps, WorkerSteps, SpawnerSteps, ControllerSteps,
         OsSteps, Finished

(* Deferral, in-line requests and in-line closes are decisions taken on a  *)
(* released flag that never goes back, or on an end-of-file the host sent  *)
(* by leaving.                                                             *)
LEMMA ReleaseStep == TypeOK /\ ReleaseMode /\ [Next]_vars => ReleaseMode'
<1> SUFFICES ASSUME TypeOK /\ ReleaseMode, [Next]_vars PROVE ReleaseMode'
  OBVIOUS
<1> pc \in [Threads -> PcValues] /\ closing \subseteq Threads
  BY DEF TypeOK
<1> USE ControllersAreDistinct DEF ReleaseMode, PendingIsDeferred, PromptOnAppThreads,
            Unlocked, NoThread, At, Goto, core, handle, session, os,
            AppThreads, Holders, Threads, Workers, Requesters
<1>1. ASSUME ReadOutput PROVE ReleaseMode'
  BY <1>1 DEF ReadOutput
<1>2. ASSUME NotifyReaderEof PROVE ReleaseMode'
  BY <1>2 DEF NotifyReaderEof, ExecuteClose
<1>3. ASSUME DropReaderFile PROVE ReleaseMode'
  BY <1>3 DEF DropReaderFile
<1>4. ASSUME NotifyReaderClosed PROVE ReleaseMode'
  BY <1>4 DEF NotifyReaderClosed, ExecuteClose
<1>5. ASSUME DropWriterFile PROVE ReleaseMode'
  BY <1>5 DEF DropWriterFile
<1>6. ASSUME RequestCloseAfterInput PROVE ReleaseMode'
  BY <1>6 DEF RequestCloseAfterInput
<1>7. ASSUME NEW t \in Requesters, IsReleased(t) PROVE ReleaseMode'
  BY <1>7 DEF IsReleased
<1>8. ASSUME NEW t \in Requesters, SpawnGatedClose(t) PROVE ReleaseMode'
  BY <1>8 DEF SpawnGatedClose, WorkerOf
<1>9. ASSUME NEW t \in Requesters, ClaimForWorker(t) PROVE ReleaseMode'
  BY <1>9 DEF ClaimForWorker, WorkerOf, Cancel
<1>10. ASSUME NEW t \in Requesters, SendStart(t) PROVE ReleaseMode'
  BY <1>10 DEF SendStart, WorkerOf
<1>11. ASSUME NEW t \in Requesters, RestoreRetry(t) PROVE ReleaseMode'
  BY <1>11 DEF RestoreRetry
<1>12. ASSUME NEW t \in Requesters \cup {"watcher"}, RequestClose(t) PROVE ReleaseMode'
  BY <1>12 DEF RequestClose, ExecuteClose, Deferred
<1>13. ASSUME NEW w \in Workers, WorkerClose(w) PROVE ReleaseMode'
  BY <1>13 DEF WorkerClose
<1>14. ASSUME NEW w \in Workers, WorkerDies(w) PROVE ReleaseMode'
  BY <1>14 DEF WorkerDies
<1>15. ASSUME BeginCreate PROVE ReleaseMode'
  BY <1>15 DEF BeginCreate
<1>16. ASSUME EndCreate PROVE ReleaseMode'
  BY <1>16 DEF EndCreate
<1>17. ASSUME GiveUp PROVE ReleaseMode'
  BY <1>17 DEF GiveUp
<1>18. ASSUME MarkAttached PROVE ReleaseMode'
  BY <1>18 DEF MarkAttached
<1>19. ASSUME BeginRelease PROVE ReleaseMode'
  BY <1>19 DEF BeginRelease
<1>20. ASSUME EndRelease PROVE ReleaseMode'
  BY <1>20 DEF EndRelease
<1>21. ASSUME ArmRootWatcher PROVE ReleaseMode'
  BY <1>21 DEF ArmRootWatcher
<1>22. ASSUME RootWaitFires PROVE ReleaseMode'
  BY <1>22 DEF RootWaitFires
<1>23. ASSUME UpgradeShared PROVE ReleaseMode'
  BY <1>23 DEF UpgradeShared
<1>24. ASSUME NEW c \in Controllers, Resize(c) PROVE ReleaseMode'
  BY <1>24 DEF Resize, Borrow
<1>25. ASSUME NEW c \in Controllers, Clear(c) PROVE ReleaseMode'
  BY <1>25 DEF Clear, Borrow
<1>26. ASSUME NEW c \in Controllers, EndCall(c) PROVE ReleaseMode'
  BY <1>26 DEF EndCall
<1>27. ASSUME NEW t \in Holders, DropHandle(t) PROVE ReleaseMode'
  BY <1>27 DEF DropHandle, FinalDrop, handle, DropDetaches
<1>28. ASSUME NEW t \in Threads, CloseReturns(t) PROVE ReleaseMode'
  BY <1>28 DEF CloseReturns
<1>29. ASSUME HostWrites PROVE ReleaseMode'
  BY <1>29 DEF HostWrites
<1>30. ASSUME RootExits PROVE ReleaseMode'
  BY <1>30 DEF RootExits
<1>31. ASSUME OrphansExit PROVE ReleaseMode'
  BY <1>31 DEF OrphansExit
<1>32. ASSUME ClientsLeave PROVE ReleaseMode'
  BY <1>32 DEF ClientsLeave
<1>33. ASSUME HostExits PROVE ReleaseMode'
  BY <1>33 DEF HostExits
<1>34. ASSUME HostDies PROVE ReleaseMode'
  BY <1>34 DEF HostDies
<1>35. CASE UNCHANGED vars
  BY <1>35 DEF vars
<1>36. QED
  BY <1>1, <1>2, <1>3, <1>4, <1>5, <1>6, <1>7, <1>8, <1>9, <1>10, <1>11,
     <1>12, <1>13, <1>14, <1>15, <1>16, <1>17, <1>18, <1>19, <1>20, <1>21,
     <1>22, <1>23, <1>24, <1>25, <1>26, <1>27, <1>28, <1>29, <1>30, <1>31,
     <1>32, <1>33, <1>34, <1>35
     DEF Next, ReaderSteps, DetachSteps, WorkerSteps, SpawnerSteps, ControllerSteps,
         OsSteps, Finished

-----------------------------------------------------------------------------
(* A new session, before any handle has been used, satisfies IInv.         *)
LEMMA InitInv == Init => IInv
<1> SUFFICES ASSUME Init PROVE IInv
  OBVIOUS
<1> USE DEF AppThreads, Holders, Threads, Workers, Requesters
<1>1. TypeOK
  BY InitType
<1>2. \A t \in Threads : pc[t] \in {"idle", "unarmed", "none", "open"}
  BY DEF Init
<1>3. Tokens
  <2>1. closing = {} /\ close = "NotRequested" /\ hpcon = "live"
    BY DEF Init
  <2>2. \A t \in Threads : ~OwnsClose(t)
    BY <1>2, <2>1 DEF OwnsClose, TokenPcs
  <2>3. QED
    BY <2>1, <2>2 DEF Tokens, Lifecycle, Owners
<1>4. Gates
  <2>1. \A w \in Workers : pc[w] = "none"
    BY ControllersAreDistinct DEF Init
  <2>2. QED
    BY <1>2, <2>1 DEF Gates, WorkerOf, TokenPcs
<1>5. Locking
  BY DEF Init, Locking
<1>6. ReleaseMode
  BY <1>2 DEF Init, ReleaseMode, PendingIsDeferred, PromptOnAppThreads
<1>7. QED
  BY <1>1, <1>3, <1>4, <1>5, <1>6 DEF IInv

(* IInv is an invariant of the specification.                              *)
THEOREM IInvHolds == Spec => []IInv
<1>1. IInv /\ [Next]_vars => IInv'
  BY TypeStep, TokenStep, GateStep, LockStep, ReleaseStep DEF IInv
<1>2. QED
  BY <1>1, InitInv, PTL DEF Spec

(* At most one thread is ever in, or bound for, ClosePseudoConsole, and    *)
(* nobody is once it has returned or was given up: no double close.        *)
THEOREM ClosedOnce == Spec => []SoleCloser
<1>1. IInv => SoleCloser
  BY DEF IInv, Tokens, Lifecycle, Owners, SoleCloser
<1>2. QED
  BY <1>1, IInvHolds, PTL

(* A claim is never lost: a session in Done is closed, was leaked by a     *)
(* failed thread creation, or has a thread that will close it.             *)
THEOREM ClaimNeverStranded == Spec => []NoStrandedClaim
<1>1. IInv => NoStrandedClaim
  BY DEF IInv, Tokens, Lifecycle, Owners, NoStrandedClaim
<1>2. QED
  BY <1>1, IInvHolds, PTL

(* resize, clear, release and CreateProcess only ever use an HPCON that is *)
(* open and that nobody is about to close.                                 *)
THEOREM BorrowerSeesLiveHandle == Spec => []BorrowedIsLive
<1>1. IInv => BorrowedIsLive
  BY DEF IInv, Tokens, Lifecycle, Owners, Locking, BorrowedIsLive
<1>2. QED
  BY <1>1, IInvHolds, PTL

(* A pending request always has a live reader of a released session that   *)
(* will complete it, and an application thread inside ClosePseudoConsole   *)
(* is never one the console host can keep waiting.                         *)
THEOREM RequestsAndClosesEnd == Spec => []ClosesAreServed
<1>1. IInv => ClosesAreServed
  BY DEF IInv, ReleaseMode, ClosesAreServed
<1>2. QED
  BY <1>1, IInvHolds, PTL

-----------------------------------------------------------------------------
(* The lifecycle core implements the close-once promise: under the mapping *)
(* of PseudoCon!Promise every step of a thread is one step of CloseOnce or *)
(* leaves the HPCON, its borrower and its closer alone.  The argument uses *)
(* the inductive invariant for the facts that make a step legal there: the *)
(* borrower excludes a claim, and one thread at most owns the close.       *)

PromiseStep == [Promise!Next]_(Promise!vars)

(* A step that leaves the mutex, the claim and the handle alone is nothing *)
(* to the abstract session.                                                *)
LEMMA Stutters ==
  ASSUME UNCHANGED <<lock, closing, hpcon>>, close' = "Done" <=> close = "Done"
  PROVE  PromiseStep
BY DEF PromiseStep, Promise!vars

(* Giving up the mutex ends the abstract use, if there was one.            *)
LEMMA EndsUse ==
  ASSUME TypeOK, Locking, lock' = NoThread, UNCHANGED <<closing, hpcon, close>>
  PROVE  PromiseStep
<1>1. CASE lock = NoThread
  BY <1>1, Stutters
<1>2. CASE lock # NoThread
  <2>1. lock \in Threads
    BY <1>2 DEF TypeOK, Threads, Holders
  <2>2. Promise!EndUse(lock)
    BY <1>2 DEF Promise!EndUse
  <2>3. QED
    BY <2>1, <2>2 DEF PromiseStep, Promise!Next
<1>3. QED
  BY <1>1, <1>2

(* Taking the mutex for a backend call that close has not been claimed     *)
(* against begins an abstract use.                                         *)
LEMMA BeginsUse ==
  ASSUME Tokens, NEW t \in Threads, t # NoThread, Unlocked, close # "Done",
         lock' = t, UNCHANGED <<closing, hpcon, close>>
  PROVE  PromiseStep
<1>1. hpcon = "live"
  BY DEF Tokens, Lifecycle
<1>2. Promise!BeginUse(t)
  BY <1>1 DEF Promise!BeginUse, Unlocked
<1>3. QED
  BY <1>2 DEF PromiseStep, Promise!Next

(* A thread that claims the close and enters it at once is an abstract     *)
(* claim: nobody borrowed the handle and nobody else was in the call.      *)
LEMMA Claims ==
  ASSUME TypeOK, Tokens, NEW t \in Threads, Unlocked, close # "Done", ExecuteClose(t),
         UNCHANGED <<lock, hpcon>>
  PROVE  PromiseStep
<1>1. hpcon = "live" /\ closing = {}
  BY DEF Tokens, Lifecycle, Owners, OwnsClose, TypeOK
<1>2. Promise!Claim
  BY <1>1 DEF Promise!Claim, ExecuteClose, Unlocked
<1>3. QED
  BY <1>2 DEF PromiseStep, Promise!Next

(* Every step of the lifecycle core is a step of the promise or a stutter. *)
LEMMA StepRefines == IInv /\ [Next]_vars => PromiseStep
<1> SUFFICES ASSUME IInv, [Next]_vars PROVE PromiseStep
  OBVIOUS
<1> TypeOK /\ Tokens /\ Gates /\ Locking
  BY DEF IInv
<1> pc \in [Threads -> PcValues] /\ closing \subseteq Threads
  BY DEF TypeOK
<1> Requesters \subseteq Threads /\ Holders \subseteq Threads /\ Workers \subseteq Threads
      /\ Controllers \subseteq Threads
      /\ {"reader", "watcher", "spawner", "dropWorker"} \subseteq Threads
  BY DEF Requesters, Threads, Holders, AppThreads, Workers
<1> USE DEF core, handle, session, os
<1>1. ASSUME ReadOutput PROVE PromiseStep
  BY <1>1, Stutters DEF ReadOutput
<1>2. ASSUME NotifyReaderEof PROVE PromiseStep
  <2>1. CASE close = "Done"
    BY <1>2, <2>1, Stutters DEF NotifyReaderEof
  <2>2. CASE close # "Done"
    BY <1>2, <2>2, Claims DEF NotifyReaderEof
  <2>3. QED
    BY <2>1, <2>2
<1>3. ASSUME DropReaderFile PROVE PromiseStep
  BY <1>3, Stutters DEF DropReaderFile
<1>4. ASSUME NotifyReaderClosed PROVE PromiseStep
  <2>1. CASE close = "Requested"
    BY <1>4, <2>1, Claims DEF NotifyReaderClosed
  <2>2. CASE close # "Requested"
    BY <1>4, <2>2, Stutters DEF NotifyReaderClosed
  <2>3. QED
    BY <2>1, <2>2
<1>5. ASSUME DropWriterFile PROVE PromiseStep
  BY <1>5, Stutters DEF DropWriterFile
<1>6. ASSUME RequestCloseAfterInput PROVE PromiseStep
  BY <1>6, Stutters DEF RequestCloseAfterInput
<1>7. ASSUME NEW t \in Requesters, IsReleased(t) PROVE PromiseStep
  BY <1>7, Stutters DEF IsReleased
<1>8. ASSUME NEW t \in Requesters, SpawnGatedClose(t) PROVE PromiseStep
  BY <1>8, Stutters DEF SpawnGatedClose
<1>9. ASSUME NEW t \in Requesters, ClaimForWorker(t) PROVE PromiseStep
  <2>1. CASE close = "Done" \/ released
    <3>1. \E next \in {"dropping", "request"} : Cancel(t, next)
      BY <1>9, <2>1 DEF ClaimForWorker
    <3>2. QED
      BY <1>9, <3>1, Stutters DEF ClaimForWorker, Cancel
  <2>2. CASE ~(close = "Done" \/ released)
    <3>1. close' = "Done" /\ lock = NoThread /\ UNCHANGED <<lock, closing, hpcon>>
      BY <1>9, <2>2 DEF ClaimForWorker, Unlocked
    <3>2. hpcon = "live"
      BY <2>2 DEF Tokens, Lifecycle
    <3>3. Promise!Claim
      BY <2>2, <3>1, <3>2 DEF Promise!Claim
    <3>4. QED
      BY <3>3 DEF PromiseStep, Promise!Next
  <2>3. QED
    BY <2>1, <2>2
<1>10. ASSUME NEW t \in Requesters, SendStart(t) PROVE PromiseStep
  BY <1>10, Stutters DEF SendStart
<1>11. ASSUME NEW t \in Requesters, RestoreRetry(t) PROVE PromiseStep
  <2>1. pc[t] = "restore" /\ t \notin closing /\ close' = "NotRequested"
          /\ lock = NoThread /\ UNCHANGED <<lock, closing, hpcon>>
    BY <1>11 DEF RestoreRetry, Goto, At, Unlocked
  <2>2. Owners = {t}
    BY <2>1 DEF Tokens, Lifecycle, Owners, OwnsClose, TokenPcs
  <2>3. close = "Done" /\ hpcon = "live" /\ closing = {}
    BY <2>1, <2>2 DEF Tokens, Lifecycle, Owners, OwnsClose
  <2>4. Promise!Withdraw
    BY <2>1, <2>3 DEF Promise!Withdraw
  <2>5. QED
    BY <2>4 DEF PromiseStep, Promise!Next
<1>12. ASSUME NEW t \in Requesters \cup {"watcher"}, RequestClose(t) PROVE PromiseStep
  <2>1. CASE close # "Done" /\ ~Deferred
    BY <1>12, <2>1, Claims DEF RequestClose
  <2>2. CASE ~(close # "Done" /\ ~Deferred)
    BY <1>12, <2>2, Stutters DEF RequestClose
  <2>3. QED
    BY <2>1, <2>2
<1>13. ASSUME NEW w \in Workers, WorkerClose(w) PROVE PromiseStep
  <2>1. pc[w] = "go" /\ w \notin closing /\ closing' = closing \cup {w}
          /\ UNCHANGED <<lock, close, hpcon>>
    BY <1>13 DEF WorkerClose, Goto, At
  <2>2. Owners = {w}
    BY <2>1 DEF Tokens, Lifecycle, Owners, OwnsClose, TokenPcs
  <2>3. close = "Done" /\ hpcon = "live" /\ closing = {}
    BY <2>1, <2>2 DEF Tokens, Lifecycle, Owners, OwnsClose
  <2>4. Promise!EnterClose(w)
    BY <2>1, <2>3 DEF Promise!EnterClose
  <2>5. QED
    BY <2>4 DEF PromiseStep, Promise!Next
<1>14. ASSUME NEW w \in Workers, WorkerDies(w) PROVE PromiseStep
  BY <1>14, Stutters DEF WorkerDies
<1>15. ASSUME BeginCreate PROVE PromiseStep
  BY <1>15, BeginsUse DEF BeginCreate, NoThread
<1>16. ASSUME EndCreate PROVE PromiseStep
  BY <1>16, EndsUse DEF EndCreate
<1>17. ASSUME GiveUp PROVE PromiseStep
  BY <1>17, Stutters DEF GiveUp
<1>18. ASSUME MarkAttached PROVE PromiseStep
  BY <1>18, Stutters DEF MarkAttached
<1>19. ASSUME BeginRelease PROVE PromiseStep
  <2>1. CASE close = "Done" \/ released \/ ~releaseExport
    BY <1>19, <2>1, Stutters DEF BeginRelease
  <2>2. CASE ~(close = "Done" \/ released \/ ~releaseExport)
    BY <1>19, <2>2, BeginsUse DEF BeginRelease, NoThread
  <2>3. QED
    BY <2>1, <2>2
<1>20. ASSUME EndRelease PROVE PromiseStep
  BY <1>20, EndsUse DEF EndRelease
<1>21. ASSUME ArmRootWatcher PROVE PromiseStep
  BY <1>21, Stutters DEF ArmRootWatcher
<1>22. ASSUME RootWaitFires PROVE PromiseStep
  BY <1>22, Stutters DEF RootWaitFires
<1>23. ASSUME UpgradeShared PROVE PromiseStep
  BY <1>23, Stutters DEF UpgradeShared
<1>24. ASSUME NEW c \in Controllers, Resize(c) \/ Clear(c) PROVE PromiseStep
  <2>1. c # NoThread
    BY ControllersAreDistinct
  <2>2. QED
    BY <1>24, <2>1, BeginsUse DEF Resize, Clear, Borrow
<1>25. ASSUME NEW c \in Controllers, EndCall(c) PROVE PromiseStep
  BY <1>25, EndsUse DEF EndCall
<1>26. ASSUME NEW t \in Holders, DropHandle(t) PROVE PromiseStep
  <2>1. CASE refs' = {} /\ close # "Done"
    <3>1. FinalDrop(t) /\ UNCHANGED lock
      BY <1>26, <2>1 DEF DropHandle
    <3>2. pc[t] \in {"open", "dropping"} /\ refs' = refs \ {t}
      BY <1>26 DEF DropHandle, Goto, At
    <3>3. Unlocked
      BY <2>1, <3>2 DEF Locking, Unlocked
    <3>4. hpcon = "live"
      BY <2>1 DEF Tokens, Lifecycle
    <3>5. CASE hpcon' = "leaked" /\ UNCHANGED closing
      <4>1. Promise!Leak
        BY <2>1, <3>1, <3>3, <3>4, <3>5 DEF Promise!Leak, Unlocked
      <4>2. QED
        BY <4>1 DEF PromiseStep, Promise!Next
    <3>6. CASE UNCHANGED hpcon
      <4>1. PICK u \in {t, "dropWorker"} : closing' = closing \cup {u}
        BY <2>1, <3>1, <3>4, <3>6 DEF FinalDrop
      <4>2. ExecuteClose(u)
        BY <3>1, <4>1 DEF FinalDrop, ExecuteClose
      <4>3. QED
        BY <2>1, <3>1, <3>3, <3>6, <4>2, Claims
    <3>7. QED
      BY <3>1, <3>5, <3>6 DEF FinalDrop
  <2>2. CASE ~(refs' = {} /\ close # "Done")
    BY <1>26, <2>2, Stutters DEF DropHandle
  <2>3. QED
    BY <2>1, <2>2
<1>27. ASSUME NEW t \in Threads, CloseReturns(t) PROVE PromiseStep
  <2>1. t \in closing /\ closing' = closing \ {t} /\ hpcon' = "closed" /\ UNCHANGED <<lock, close>>
    BY <1>27 DEF CloseReturns
  <2>2. Owners = {t}
    BY <2>1 DEF Tokens, Lifecycle, Owners, OwnsClose
  <2>3. close = "Done" /\ hpcon = "live" /\ closing = {t}
    BY <2>1, <2>2 DEF Tokens, Lifecycle, Owners, OwnsClose
  <2>4. Promise!LeaveClose(t)
    BY <2>1, <2>3 DEF Promise!LeaveClose
  <2>5. QED
    BY <2>4 DEF PromiseStep, Promise!Next
<1>28. ASSUME HostWrites \/ RootExits \/ OrphansExit \/ ClientsLeave \/ HostExits \/ HostDies
       PROVE  PromiseStep
  BY <1>28, Stutters
     DEF HostWrites, RootExits, OrphansExit, ClientsLeave, HostExits, HostDies
<1>29. CASE UNCHANGED vars
  BY <1>29, Stutters DEF vars
<1>30. QED
  BY <1>1, <1>2, <1>3, <1>4, <1>5, <1>6, <1>7, <1>8, <1>9, <1>10, <1>11, <1>12,
     <1>13, <1>14, <1>15, <1>16, <1>17, <1>18, <1>19, <1>20, <1>21, <1>22, <1>23,
     <1>24, <1>25, <1>26, <1>27, <1>28, <1>29
     DEF Next, ReaderSteps, DetachSteps, WorkerSteps, SpawnerSteps, ControllerSteps,
         OsSteps, Finished

(* For any number of controllers and either kind of console host, every    *)
(* execution of the session core is an execution of the close-once         *)
(* promise: exclusive use of a live HPCON, one ClosePseudoConsole or none. *)
THEOREM CoreKeepsPromise == Spec => ImplementsCloseOnce
<1>1. Init => Promise!Init
  BY DEF Init, Promise!Init, NoThread
<1>2. IInv /\ [Next]_vars => PromiseStep
  BY StepRefines
<1>3. Spec => []IInv
  BY IInvHolds
<1>4. QED
  BY <1>1, <1>2, <1>3, PTL DEF Spec, ImplementsCloseOnce, Promise!Spec, PromiseStep
=============================================================================
