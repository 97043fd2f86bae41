--------------------------- MODULE SessionIoProofs ---------------------------
(***************************************************************************)
(* For any number of spawners, who may retry as often as they like, a      *)
(* session hosts one root child and leaves no tree behind.                 *)
(***************************************************************************)
EXTENDS SessionIo, TLAPS

(* What a spawner's place in spawn_root says of its child, and that a Pty  *)
(* is only taken apart when nobody is inside: the input of a session that  *)
(* is still to get its root child cannot have been retired.                *)
PlaceTells ==
  /\ \A s \in Spawners : pc[s] = "create" => tree[s] = "none"
  /\ \A s \in Spawners : pc[s] \in {"arm", "cleanup", "holds"} => tree[s] # "none"
  /\ \A s \in Spawners : pc[s] \in {"create", "arm", "cleanup"} => ~split
  /\ half["writer"] # "open" => split

IInv == TypeOK /\ PlaceTells /\ OneRootPerSession /\ NoOrphanedSession

(* The initial states satisfy the invariant.                               *)
LEMMA InitIInv == Init => IInv
<1> SUFFICES ASSUME Init PROVE IInv
  OBVIOUS
<1> USE DEF Init
<1>1. TypeOK
  BY DEF TypeOK, Halves
<1>2. PlaceTells
  BY DEF PlaceTells, Halves
<1>3. OneRootPerSession
  BY DEF OneRootPerSession, Reserves
<1>4. NoOrphanedSession
  BY DEF NoOrphanedSession
<1> QED
  BY <1>1, <1>2, <1>3, <1>4 DEF IInv

(* A spawner's step keeps it: only the spawner that found the session free *)
(* creates, and only its own failure, before there is a child, frees it.   *)
LEMMA SpawnKeepsIInv ==
  ASSUME IInv, NEW s \in Spawners, Spawn(s) \/ DropChild(s) \/ TreeExits(s)
  PROVE  IInv'
<1> USE DEF IInv, TypeOK, PlaceTells, OneRootPerSession, Reserves, NoOrphanedSession, Halves,
            pipes, spawn, vars
<1>1. CASE Reserve(s)
  BY <1>1 DEF Reserve
<1>2. CASE Refuse(s)
  BY <1>2 DEF Refuse
<1>3. CASE CreateFails(s)
  <2>1. /\ tree' = tree /\ spawned' = FALSE
        /\ pc' = [pc EXCEPT ![s] = "out"]
        /\ pc[s] = "create" /\ tree[s] = "none"
    BY <1>3 DEF CreateFails
  <2>2. \A t \in Spawners : ~Reserves(t)'
    BY <2>1
  <2>3. OneRootPerSession'
    BY <2>1, <2>2
  <2>4. TypeOK'
    BY <1>3 DEF CreateFails
  <2>5. PlaceTells' /\ NoOrphanedSession'
    BY <1>3, <2>1 DEF CreateFails
  <2> QED
    BY <2>3, <2>4, <2>5
<1>4. CASE Create(s)
  BY <1>4 DEF Create
<1>5. CASE Arm(s)
  BY <1>5 DEF Arm
<1>6. CASE ArmFails(s)
  BY <1>6 DEF ArmFails
<1>7. CASE CleanUp(s)
  BY <1>7 DEF CleanUp, CloseJob, KillOnClose
<1>8. CASE DropChild(s)
  BY <1>8 DEF DropChild, CloseJob, KillOnClose
<1>9. CASE TreeExits(s)
  BY <1>9 DEF TreeExits
<1> QED
  BY <1>1, <1>2, <1>3, <1>4, <1>5, <1>6, <1>7, <1>8, <1>9 DEF Spawn

(* The pipe halves only touch themselves and the request to close, which   *)
(* is there before the writer is retired.                                  *)
LEMMA PipesKeepIInv ==
  ASSUME IInv,
         \/ \E h \in Halves : Submit(h) \/ HostServes(h) \/ DriverRetires(h)
         \/ IntoSplit \/ DropReader \/ CancelWrite \/ Retire
  PROVE  IInv'
<1> USE DEF IInv, TypeOK, PlaceTells, OneRootPerSession, Reserves, NoOrphanedSession, Halves,
            pipes, spawn
<1>1. CASE \E h \in Halves : Submit(h)
  BY <1>1 DEF Submit
<1>2. CASE \E h \in Halves : HostServes(h)
  BY <1>2 DEF HostServes, Settle, Settled
<1>3. CASE \E h \in Halves : DriverRetires(h)
  BY <1>3 DEF DriverRetires
<1>4. CASE IntoSplit
  BY <1>4 DEF IntoSplit
<1>5. CASE DropReader
  BY <1>5 DEF DropReader, Droppable, DropPipe, Settle, Settled
<1>6. CASE CancelWrite
  BY <1>6 DEF CancelWrite, Droppable, Settle, Settled
<1>7. CASE NotifyReaderClosed
  BY <1>7 DEF NotifyReaderClosed
<1>8. CASE DropWriter
  BY <1>8 DEF DropWriter, DropPipe
<1>9. CASE RequestCloseAfterInput
  BY <1>9 DEF RequestCloseAfterInput
<1> QED
  BY <1>1, <1>2, <1>3, <1>4, <1>5, <1>6, <1>7, <1>8, <1>9 DEF Retire

(* The inductive invariant holds in every reachable state.                 *)
THEOREM IInvHolds == Spec => []IInv
<1>1. Init => IInv
  BY InitIInv
<1>2. IInv /\ [Next]_vars => IInv'
  <2> SUFFICES ASSUME IInv, [Next]_vars PROVE IInv'
    OBVIOUS
  <2>1. CASE Next
    BY <2>1, SpawnKeepsIInv, PipesKeepIInv DEF Next
  <2>2. CASE UNCHANGED vars
    BY <2>2 DEF vars, spawn, pipes, IInv, TypeOK, PlaceTells, OneRootPerSession, Reserves,
                     NoOrphanedSession
  <2> QED
    BY <2>1, <2>2
<1> QED
  BY <1>1, <1>2, PTL DEF Spec

(* A session hosts one root child in its life, whoever competes for it and *)
(* however often their attempts fail (session.rs:199-218).                 *)
THEOREM OneRoot == Spec => []OneRootPerSession
<1>1. IInv => OneRootPerSession
  BY DEF IInv
<1> QED
  BY <1>1, IInvHolds, PTL

(* A managed tree always has somebody who holds its Job, and a session     *)
(* without a future has been asked to close (session.rs:238-247).          *)
THEOREM NoOrphan == Spec => []NoOrphanedSession
<1>1. IInv => NoOrphanedSession
  BY DEF IInv
<1> QED
  BY <1>1, IInvHolds, PTL
=============================================================================
