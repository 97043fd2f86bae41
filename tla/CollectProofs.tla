---------------------------- MODULE CollectProofs ----------------------------
(***************************************************************************)
(* For any pipe, any amount of output and every setting of the failure     *)
(* switches, a collection that succeeds is whole, and one that is over     *)
(* leaves nothing behind: first the blocking one, with its reader thread,  *)
(* then the Tokio one, whose future may be dropped at any await.           *)
(***************************************************************************)
EXTENDS Collection, TLAPS

CONSTANTS ReaderMayFail, ReadMayFail, WaitMayFail, MayCancel

VARIABLES
  kill,                              \* of either collector
  reader, drained, completed,        \* of the blocking one
  suspended, wakers, output_finished \* of the Tokio one

Blocking == INSTANCE BlockingCollect
Tokio    == INSTANCE TokioCollect

(* Every chunk that was ever rendered is in the pipe or collected.         *)
Accounting == bytes + conout = written

(* Nothing ends the tree before the root's exit has been seen: until then  *)
(* the input is open, and only the watcher, after the exit, asks for the   *)
(* close.  What the collector has cached is therefore the root's own.      *)
BlockingUntouched ==
  /\ status # "killed"
  /\ pc \in {"start", "poll", "recv", "join", "wait", "kill"} =>
       inputEnd /\ root # "killed" /\ (closeAsked => Blocking!RootExited)

(* Where the reader is says what is known of the output, and where the     *)
(* collector is says where the reader can be.                              *)
ReaderTells ==
  /\ drained = "ok" => Blocking!AtEof
  /\ reader = "finished" => drained # "none"
  /\ reader \in {"sending", "returning"} => drained # "none"
  /\ reader = "none" => pc \in {"start", "abandonChild", "abandonInput", "done"}
  /\ pc \in {"start", "abandonChild", "abandonInput"} => reader = "none"
  /\ pc = "done" => reader \in {"none", "finished"}
  /\ reader = "finished" => ~readEnd
  /\ pc # "start" /\ reader = "none" => ~readEnd
  /\ result = "ok" => pc = "done" /\ status = "own" /\ drained = "ok"

(* The child is dropped before anything that is left to do afterwards, the *)
(* input next.                                                             *)
BlockingTreeEnded ==
  /\ pc \in {"retire", "joinTail", "abandonInput", "done"} =>
       Blocking!RootExited /\ ~descendants
  /\ ~inputEnd <=> pc \in {"joinTail", "done"}

BlockingInv ==
  /\ Blocking!TypeOK /\ Accounting /\ BlockingUntouched
  /\ ReaderTells /\ BlockingTreeEnded

(* A collection begins with an empty pipe and a running root.              *)
LEMMA BlockingInit == Blocking!Init => BlockingInv
<1> SUFFICES ASSUME Blocking!Init PROVE BlockingInv
  OBVIOUS
<1> USE SizesAreNatural, TreeSwitches DEF Blocking!Init, Blocking!TreeInit
<1>1. Blocking!TypeOK
  <2>1. released \in BOOLEAN
    OBVIOUS
  <2>2. conout \in 0 .. PipeSize /\ written \in 0 .. MaxOutput /\ bytes \in 0 .. MaxOutput
    OBVIOUS
  <2> QED
    BY <2>1, <2>2 DEF Blocking!TypeOK, Blocking!TreeTypeOK
<1>2. Accounting /\ BlockingUntouched /\ BlockingTreeEnded
  BY DEF Accounting, BlockingUntouched, BlockingTreeEnded
<1>3. ReaderTells
  BY DEF ReaderTells
<1> QED
  BY <1>1, <1>2, <1>3 DEF BlockingInv

(* What the tree, the console host and the watcher do keeps it.            *)
LEMMA BlockingWorldStep ==
  ASSUME BlockingInv, Blocking!World(Blocking!TreeSteps) PROVE BlockingInv'
<1> USE SizesAreNatural DEF BlockingInv, Blocking!TypeOK, Blocking!TreeTypeOK,
       Accounting, BlockingUntouched, ReaderTells, BlockingTreeEnded,
        Blocking!World, Blocking!collector, Blocking!worker, Blocking!tree,
        Blocking!pipe, Blocking!AtEof, Blocking!RootExited
<1>1. CASE Blocking!RootExits
  BY <1>1 DEF Blocking!RootExits
<1>2. CASE Blocking!WatcherActs
  <2>1. Blocking!TypeOK'
    <3>1. descendants' \in BOOLEAN /\ closeAsked' \in BOOLEAN
      BY <1>2, Zenon DEF Blocking!WatcherActs
    <3> QED
      BY <1>2, <3>1 DEF Blocking!WatcherActs
  <2>2. Accounting' /\ BlockingUntouched' /\ ReaderTells' /\ BlockingTreeEnded'
    BY <1>2 DEF Blocking!WatcherActs
  <2> QED
    BY <2>1, <2>2
<1>3. CASE Blocking!ClientsLeave
  <2>1. Blocking!TypeOK'
    <3>1. descendants' \in BOOLEAN
      BY <1>3, Zenon DEF Blocking!ClientsLeave, Blocking!EndTree
    <3> QED
      BY <1>3, <3>1 DEF Blocking!ClientsLeave, Blocking!EndTree
  <2>2. Accounting' /\ BlockingUntouched' /\ ReaderTells' /\ BlockingTreeEnded'
    BY <1>3 DEF Blocking!ClientsLeave, Blocking!EndTree
  <2> QED
    BY <2>1, <2>2
<1>4. CASE Blocking!HostWrites
  BY <1>4 DEF Blocking!HostWrites
<1>5. CASE Blocking!HostExits \/ Blocking!HostDies
  BY <1>5 DEF Blocking!HostExits, Blocking!HostDies
<1> QED
  BY <1>1, <1>2, <1>3, <1>4, <1>5 DEF Blocking!TreeSteps

(* So does the reader thread.                                              *)
LEMMA BlockingReaderStep ==
  ASSUME BlockingInv, Blocking!ReaderSteps PROVE BlockingInv'
<1> USE SizesAreNatural DEF BlockingInv, Blocking!TypeOK, Blocking!TreeTypeOK,
       Accounting, BlockingUntouched, ReaderTells, BlockingTreeEnded,
        Blocking!world, Blocking!collector, Blocking!worker, Blocking!tree,
        Blocking!pipe, Blocking!AtEof, Blocking!RootExited
<1>1. CASE Blocking!ReadChunk
  BY <1>1 DEF Blocking!ReadChunk
<1>2. CASE Blocking!DrainEnds
  BY <1>2 DEF Blocking!DrainEnds
<1>3. CASE Blocking!SendCompleted
  BY <1>3 DEF Blocking!SendCompleted
<1>4. CASE Blocking!ReaderReturns
  <2>1. Blocking!TypeOK'
    <3>1. readEnd' \in BOOLEAN
      BY <1>4, Zenon DEF Blocking!ReaderReturns
    <3> QED
      BY <1>4, <3>1 DEF Blocking!ReaderReturns
  <2>2. Accounting' /\ BlockingUntouched' /\ ReaderTells' /\ BlockingTreeEnded'
    BY <1>4 DEF Blocking!ReaderReturns
  <2> QED
    BY <2>1, <2>2
<1> QED
  BY <1>1, <1>2, <1>3, <1>4 DEF Blocking!ReaderSteps

(* And so does the collecting thread, which ends the tree after it has     *)
(* seen the root's exit, or has given up on its status.                    *)
LEMMA BlockingCollectorStep ==
  ASSUME BlockingInv, Blocking!CollectorSteps PROVE BlockingInv'
<1> USE DEF BlockingInv, Blocking!TypeOK, Blocking!TreeTypeOK, Accounting,
       BlockingUntouched, ReaderTells, BlockingTreeEnded,
        Blocking!world, Blocking!collector, Blocking!worker, Blocking!tree,
        Blocking!pipe, Blocking!AtEof, Blocking!RootExited
<1>1. CASE Blocking!StartReader
  <2>1. Blocking!TypeOK'
    <3>1. readEnd' \in BOOLEAN
      BY <1>1, Zenon DEF Blocking!StartReader
    <3> QED
      BY <1>1, <3>1 DEF Blocking!StartReader
  <2>2. Accounting' /\ BlockingUntouched' /\ ReaderTells' /\ BlockingTreeEnded'
    BY <1>1 DEF Blocking!StartReader
  <2> QED
    BY <2>1, <2>2
<1>2. CASE Blocking!AbandonChild
  <2>1. Blocking!TypeOK'
    <3>1. descendants' \in BOOLEAN
      BY <1>2, Zenon DEF Blocking!AbandonChild, Blocking!EndTree
    <3> QED
      BY <1>2, <3>1 DEF Blocking!AbandonChild, Blocking!EndTree
  <2>2. Accounting' /\ BlockingUntouched' /\ ReaderTells' /\ BlockingTreeEnded'
    BY <1>2 DEF Blocking!AbandonChild, Blocking!EndTree
  <2> QED
    BY <2>1, <2>2
<1>3. CASE Blocking!AbandonInput
  <2>1. Blocking!TypeOK'
    <3>1. inputEnd' \in BOOLEAN /\ closeAsked' \in BOOLEAN
      BY <1>3, Zenon DEF Blocking!AbandonInput, Blocking!RetireInput
    <3> QED
      BY <1>3, <3>1 DEF Blocking!AbandonInput, Blocking!RetireInput
  <2>2. Accounting' /\ BlockingUntouched' /\ ReaderTells' /\ BlockingTreeEnded'
    BY <1>3 DEF Blocking!AbandonInput, Blocking!RetireInput
  <2> QED
    BY <2>1, <2>2
<1>4. CASE Blocking!TryWait
  <2>1. Blocking!TypeOK'
    BY <1>4 DEF Blocking!TryWait, Blocking!Queried
  <2>2. Accounting' /\ BlockingUntouched' /\ ReaderTells' /\ BlockingTreeEnded'
    BY <1>4 DEF Blocking!TryWait, Blocking!Queried
  <2> QED
    BY <2>1, <2>2
<1>5. CASE Blocking!RecvTimeout
  BY <1>5 DEF Blocking!RecvTimeout
<1>6. CASE Blocking!JoinReader
  BY <1>6 DEF Blocking!JoinReader
<1>7. CASE Blocking!WaitForRoot
  BY <1>7 DEF Blocking!WaitForRoot, Blocking!Queried
<1>8. CASE Blocking!Kill
  <2>1. Blocking!TypeOK'
    <3>1. descendants' \in BOOLEAN
      BY <1>8, Zenon DEF Blocking!Kill, Blocking!EndTree
    <3> QED
      BY <1>8, <3>1 DEF Blocking!Kill, Blocking!EndTree
  <2>2. Accounting' /\ BlockingUntouched' /\ ReaderTells' /\ BlockingTreeEnded'
    BY <1>8 DEF Blocking!Kill, Blocking!EndTree
  <2> QED
    BY <2>1, <2>2
<1>9. CASE Blocking!DropChild
  <2>1. Blocking!TypeOK'
    <3>1. descendants' \in BOOLEAN
      BY <1>9, Zenon DEF Blocking!DropChild, Blocking!EndTree
    <3> QED
      BY <1>9, <3>1 DEF Blocking!DropChild, Blocking!EndTree
  <2>2. Accounting' /\ BlockingUntouched' /\ ReaderTells' /\ BlockingTreeEnded'
    BY <1>9 DEF Blocking!DropChild, Blocking!EndTree
  <2> QED
    BY <2>1, <2>2
<1>10. CASE Blocking!Retire
  <2>1. Blocking!TypeOK'
    <3>1. inputEnd' \in BOOLEAN /\ closeAsked' \in BOOLEAN
      BY <1>10, Zenon DEF Blocking!Retire, Blocking!RetireInput
    <3> QED
      BY <1>10, <3>1 DEF Blocking!Retire, Blocking!RetireInput
  <2>2. Accounting' /\ BlockingUntouched' /\ ReaderTells' /\ BlockingTreeEnded'
    BY <1>10 DEF Blocking!Retire, Blocking!RetireInput
  <2> QED
    BY <2>1, <2>2
<1>11. CASE Blocking!Finish
  <2>1. Blocking!Outcome = "ok" => status = "own" /\ drained = "ok"
    BY <1>11 DEF Blocking!Finish, Blocking!Outcome
  <2>2. Blocking!Outcome \in {"ok", "reader", "status", "kill"}
    BY DEF Blocking!Outcome
  <2> QED
    BY <1>11, <2>1, <2>2 DEF Blocking!Finish
<1> QED
  BY <1>1, <1>2, <1>3, <1>4, <1>5, <1>6, <1>7, <1>8, <1>9, <1>10,
         <1>11 DEF Blocking!CollectorSteps

(* The invariant of a blocking collection.                                 *)
THEOREM BlockingInvHolds == Blocking!Spec => []BlockingInv
<1>1. BlockingInv /\ [Blocking!Next]_(Blocking!vars) => BlockingInv'
  <2> SUFFICES ASSUME BlockingInv, [Blocking!Next]_(Blocking!vars) PROVE BlockingInv'
    OBVIOUS
  <2>1. CASE Blocking!Next /\ ~Blocking!Returned
    BY <2>1, BlockingWorldStep, BlockingReaderStep,
           BlockingCollectorStep DEF Blocking!Next
  <2>2. CASE UNCHANGED Blocking!vars
    BY <2>2 DEF Blocking!vars, Blocking!world, Blocking!collector,
           Blocking!worker, Blocking!tree, Blocking!pipe, BlockingInv,
           Blocking!TypeOK, Blocking!TreeTypeOK, Accounting,
                BlockingUntouched, ReaderTells, BlockingTreeEnded,
                Blocking!AtEof, Blocking!RootExited
  <2> QED
    BY <2>1, <2>2 DEF Blocking!Returned
<1> QED
  BY <1>1, BlockingInit, PTL DEF Blocking!Spec

(* A success reports the root's own status and every chunk the console     *)
(* host ever wrote (blocking/session.rs, BlockingCollector::finish).       *)
THEOREM BlockingSuccess == Blocking!Spec => []SuccessIsWhole
<1>1. BlockingInv => SuccessIsWhole
  BY SizesAreNatural DEF BlockingInv, Blocking!TypeOK, Blocking!TreeTypeOK,
         Accounting, ReaderTells, SuccessIsWhole, Blocking!AtEof
<1> QED
  BY <1>1, BlockingInvHolds, PTL

(* No process of the tree and no reader thread survives the return of      *)
(* Session::wait or collect_output, whatever has failed.                   *)
THEOREM BlockingLeavesNothing == Blocking!Spec => []NothingLeftBehind
<1>1. BlockingInv => NothingLeftBehind
  BY DEF BlockingInv, ReaderTells, BlockingTreeEnded, NothingLeftBehind,
         RootExited, Blocking!RootExited
<1> QED
  BY <1>1, BlockingInvHolds, PTL

(* Nor does a blocking collection, where no caller can cancel it, take the *)
(* input from a root that may still be running.                            *)
THEOREM BlockingRootGoesFirst == Blocking!Spec => []InputOutlivesRoot
<1>1. BlockingInv => InputOutlivesRoot
  BY DEF BlockingInv, BlockingTreeEnded, InputOutlivesRoot, RootExited,
         Blocking!RootExited
<1> QED
  BY <1>1, BlockingInvHolds, PTL

-----------------------------------------------------------------------------
(* Until the root's exit has been seen nothing ends the tree: the input is *)
(* open, and only the watcher, after the exit, asks for the close.         *)
TokioUntouched ==
  /\ pc \in {"pollRoot", "pollOutput", "kill"} =>
       root # "killed" /\ (closeAsked => Tokio!RootExited)
  /\ pc \in {"pollRoot", "pollOutput", "kill", "dropChild", "abandonChild"} => inputEnd

(* The child is dropped before anything that is left to do afterwards, and *)
(* a future is only suspended where it polls.                              *)
PlaceTells ==
  /\ pc \in {"shutdown", "drain", "finish", "abandonOutput", "abandonInput", "done"} =>
       Tokio!RootExited /\ ~descendants
  /\ suspended => pc \in {"pollRoot", "drain"}
  /\ pc = "abandonInput" => ~readEnd
  /\ pc = "done" => ~readEnd /\ ~inputEnd

(* What is known on the way to a success.                                  *)
SuccessTells ==
  /\ output_finished => Tokio!AtEof
  /\ pc = "finish" => Tokio!AtEof
  /\ pc = "kill" => Tokio!RootExited
  /\ pc \in {"kill", "dropChild", "shutdown", "drain", "finish"} => status = "own"
  /\ result = "ok" =>
       /\ pc \in {"abandonOutput", "abandonInput", "done"}
       /\ status = "own" /\ Tokio!AtEof

TokioInv ==
  Tokio!TypeOK /\ Accounting /\ TokioUntouched /\ PlaceTells /\ SuccessTells

(* A collection begins with an empty pipe and a running root.              *)
LEMMA TokioInit == Tokio!Init => TokioInv
<1> SUFFICES ASSUME Tokio!Init PROVE TokioInv
  OBVIOUS
<1> USE SizesAreNatural, TreeSwitches DEF Tokio!Init, Tokio!TreeInit
<1>1. Tokio!TypeOK
  <2>1. released \in BOOLEAN
    OBVIOUS
  <2>2. conout \in 0 .. PipeSize /\ written \in 0 .. MaxOutput /\ bytes \in 0 .. MaxOutput
    OBVIOUS
  <2> QED
    BY <2>1, <2>2 DEF Tokio!TypeOK, Tokio!TreeTypeOK
<1>2. Accounting /\ TokioUntouched /\ PlaceTells
  BY DEF Accounting, TokioUntouched, PlaceTells
<1>3. SuccessTells
  BY DEF SuccessTells
<1> QED
  BY <1>1, <1>2, <1>3 DEF TokioInv

(* What the tree, the console host and the watcher do keeps it.            *)
LEMMA TokioWorldStep ==
  ASSUME TokioInv, Tokio!World(Tokio!TreeSteps) PROVE TokioInv'
<1> USE SizesAreNatural DEF TokioInv, Tokio!TypeOK, Tokio!TreeTypeOK,
       Accounting, TokioUntouched, PlaceTells, SuccessTells,
        Tokio!World, Tokio!task, Tokio!tree, Tokio!pipe, Tokio!AtEof,
        Tokio!RootExited
<1>1. CASE Tokio!RootExits
  BY <1>1 DEF Tokio!RootExits
<1>2. CASE Tokio!WatcherActs
  <2>1. Tokio!TypeOK'
    <3>1. descendants' \in BOOLEAN /\ closeAsked' \in BOOLEAN
      BY <1>2, Zenon DEF Tokio!WatcherActs
    <3> QED
      BY <1>2, <3>1 DEF Tokio!WatcherActs
  <2>2. Accounting' /\ TokioUntouched' /\ PlaceTells' /\ SuccessTells'
    BY <1>2 DEF Tokio!WatcherActs
  <2> QED
    BY <2>1, <2>2
<1>3. CASE Tokio!ClientsLeave
  <2>1. Tokio!TypeOK'
    <3>1. descendants' \in BOOLEAN
      BY <1>3, Zenon DEF Tokio!ClientsLeave, Tokio!EndTree
    <3> QED
      BY <1>3, <3>1 DEF Tokio!ClientsLeave, Tokio!EndTree
  <2>2. Accounting' /\ TokioUntouched' /\ PlaceTells' /\ SuccessTells'
    BY <1>3 DEF Tokio!ClientsLeave, Tokio!EndTree
  <2> QED
    BY <2>1, <2>2
<1>4. CASE Tokio!HostWrites
  BY <1>4 DEF Tokio!HostWrites
<1>5. CASE Tokio!HostExits \/ Tokio!HostDies
  BY <1>5 DEF Tokio!HostExits, Tokio!HostDies
<1> QED
  BY <1>1, <1>2, <1>3, <1>4, <1>5 DEF Tokio!TreeSteps

(* So does a poll while the root runs and the tree is ended.               *)
LEMMA TokioCollectStep ==
  ASSUME TokioInv,
         Tokio!RootReady \/ Tokio!RootPending \/ Tokio!OutputReady
         \/ Tokio!OutputEnds \/ Tokio!OutputFails \/ Tokio!OutputPending
           \/ Tokio!Kill \/ Tokio!DropChild \/ Tokio!Shutdown
  PROVE  TokioInv'
<1> USE SizesAreNatural DEF TokioInv, Tokio!TypeOK, Tokio!TreeTypeOK,
       Accounting, TokioUntouched, PlaceTells, SuccessTells,
        Tokio!world, Tokio!tree, Tokio!pipe, Tokio!AtEof, Tokio!RootExited,
        Tokio!Goto, Tokio!At
<1>1. CASE Tokio!RootReady
  <2>1. Tokio!TypeOK'
    BY <1>1 DEF Tokio!RootReady
  <2>2. Accounting' /\ TokioUntouched' /\ PlaceTells' /\ SuccessTells'
    BY <1>1 DEF Tokio!RootReady
  <2> QED
    BY <2>1, <2>2
<1>2. CASE Tokio!RootPending
  <2>1. Tokio!TypeOK'
    <3>1. suspended' \in BOOLEAN
      BY <1>2, Zenon DEF Tokio!RootPending
    <3> QED
      BY <1>2, <3>1 DEF Tokio!RootPending
  <2>2. Accounting' /\ TokioUntouched' /\ PlaceTells' /\ SuccessTells'
    BY <1>2 DEF Tokio!RootPending
  <2> QED
    BY <2>1, <2>2
<1>3. CASE Tokio!OutputReady
  BY <1>3 DEF Tokio!OutputReady, Tokio!TakeChunk
<1>4. CASE Tokio!OutputEnds
  <2>1. Tokio!TypeOK'
    <3>1. output_finished' \in BOOLEAN
      BY <1>4, Zenon DEF Tokio!OutputEnds
    <3> QED
      BY <1>4, <3>1 DEF Tokio!OutputEnds
  <2>2. Accounting' /\ TokioUntouched' /\ PlaceTells' /\ SuccessTells'
    BY <1>4 DEF Tokio!OutputEnds
  <2> QED
    BY <2>1, <2>2
<1>5. CASE Tokio!OutputFails
  BY <1>5 DEF Tokio!OutputFails
<1>6. CASE Tokio!OutputPending
  <2>1. Tokio!TypeOK'
    <3>1. suspended' \in BOOLEAN
      BY <1>6, Zenon DEF Tokio!OutputPending
    <3> QED
      BY <1>6, <3>1 DEF Tokio!OutputPending
  <2>2. Accounting' /\ TokioUntouched' /\ PlaceTells' /\ SuccessTells'
    BY <1>6 DEF Tokio!OutputPending
  <2> QED
    BY <2>1, <2>2
<1>7. CASE Tokio!Kill
  <2>1. Tokio!TypeOK'
    <3>1. descendants' \in BOOLEAN
      BY <1>7, Zenon DEF Tokio!Kill, Tokio!EndTree
    <3> QED
      BY <1>7, <3>1 DEF Tokio!Kill, Tokio!EndTree
  <2>2. Accounting' /\ TokioUntouched' /\ PlaceTells' /\ SuccessTells'
    BY <1>7 DEF Tokio!Kill, Tokio!EndTree
  <2> QED
    BY <2>1, <2>2
<1>8. CASE Tokio!DropChild
  <2>1. Tokio!TypeOK'
    <3>1. descendants' \in BOOLEAN
      BY <1>8, Zenon DEF Tokio!DropChild, Tokio!EndTree
    <3> QED
      BY <1>8, <3>1 DEF Tokio!DropChild, Tokio!EndTree
  <2>2. Accounting' /\ TokioUntouched' /\ PlaceTells' /\ SuccessTells'
    BY <1>8 DEF Tokio!DropChild, Tokio!EndTree
  <2> QED
    BY <2>1, <2>2
<1>9. CASE Tokio!Shutdown
  <2>1. Tokio!TypeOK'
    <3>1. inputEnd' \in BOOLEAN /\ closeAsked' \in BOOLEAN
      BY <1>9, Zenon DEF Tokio!Shutdown, Tokio!RetireInput
    <3> QED
      BY <1>9, <3>1 DEF Tokio!Shutdown, Tokio!RetireInput
  <2>2. Accounting' /\ TokioUntouched' /\ PlaceTells' /\ SuccessTells'
    BY <1>9 DEF Tokio!Shutdown, Tokio!RetireInput
  <2> QED
    BY <2>1, <2>2
<1> QED
  BY <1>1, <1>2, <1>3, <1>4, <1>5, <1>6, <1>7, <1>8, <1>9

(* So do the drain of the tail, the executor, and every drop.              *)
LEMMA TokioEndStep ==
  ASSUME TokioInv,
         Tokio!DrainReady \/ Tokio!DrainEnds \/ Tokio!DrainFails \/ Tokio!DrainPending
         \/ Tokio!Finish \/ Tokio!Woken \/ Tokio!Cancel
           \/ Tokio!AbandonChild \/ Tokio!AbandonOutput \/ Tokio!AbandonInput
  PROVE  TokioInv'
<1> USE SizesAreNatural DEF TokioInv, Tokio!TypeOK, Tokio!TreeTypeOK,
       Accounting, TokioUntouched, PlaceTells, SuccessTells,
        Tokio!world, Tokio!tree, Tokio!pipe, Tokio!AtEof, Tokio!RootExited,
        Tokio!Goto, Tokio!At
<1>1. CASE Tokio!DrainReady
  BY <1>1 DEF Tokio!DrainReady, Tokio!TakeChunk
<1>2. CASE Tokio!DrainEnds
  BY <1>2 DEF Tokio!DrainEnds
<1>3. CASE Tokio!DrainFails
  BY <1>3 DEF Tokio!DrainFails
<1>4. CASE Tokio!DrainPending
  <2>1. Tokio!TypeOK'
    <3>1. suspended' \in BOOLEAN
      BY <1>4, Zenon DEF Tokio!DrainPending
    <3> QED
      BY <1>4, <3>1 DEF Tokio!DrainPending
  <2>2. Accounting' /\ TokioUntouched' /\ PlaceTells' /\ SuccessTells'
    BY <1>4 DEF Tokio!DrainPending
  <2> QED
    BY <2>1, <2>2
<1>5. CASE Tokio!Finish
  BY <1>5 DEF Tokio!Finish
<1>6. CASE Tokio!Woken
  <2>1. Tokio!TypeOK'
    <3>1. suspended' \in BOOLEAN
      BY <1>6, Zenon DEF Tokio!Woken
    <3> QED
      BY <1>6, <3>1 DEF Tokio!Woken
  <2>2. Accounting' /\ TokioUntouched' /\ PlaceTells' /\ SuccessTells'
    BY <1>6 DEF Tokio!Woken
  <2> QED
    BY <2>1, <2>2
<1>7. CASE Tokio!Cancel
  <2>1. Tokio!TypeOK'
    <3>1. suspended' \in BOOLEAN
      BY <1>7, Zenon DEF Tokio!Cancel
    <3> QED
      BY <1>7, <3>1 DEF Tokio!Cancel
  <2>2. Accounting' /\ TokioUntouched' /\ PlaceTells' /\ SuccessTells'
    BY <1>7 DEF Tokio!Cancel
  <2> QED
    BY <2>1, <2>2
<1>8. CASE Tokio!AbandonChild
  <2>1. Tokio!TypeOK'
    <3>1. descendants' \in BOOLEAN
      BY <1>8, Zenon DEF Tokio!AbandonChild, Tokio!EndTree
    <3> QED
      BY <1>8, <3>1 DEF Tokio!AbandonChild, Tokio!EndTree
  <2>2. Accounting' /\ TokioUntouched' /\ PlaceTells' /\ SuccessTells'
    BY <1>8 DEF Tokio!AbandonChild, Tokio!EndTree
  <2> QED
    BY <2>1, <2>2
<1>9. CASE Tokio!AbandonOutput
  <2>1. Tokio!TypeOK'
    <3>1. readEnd' \in BOOLEAN
      BY <1>9, Zenon DEF Tokio!AbandonOutput
    <3> QED
      BY <1>9, <3>1 DEF Tokio!AbandonOutput
  <2>2. Accounting' /\ TokioUntouched' /\ PlaceTells' /\ SuccessTells'
    BY <1>9 DEF Tokio!AbandonOutput
  <2> QED
    BY <2>1, <2>2
<1>10. CASE Tokio!AbandonInput
  <2>1. Tokio!TypeOK'
    <3>1. inputEnd' \in BOOLEAN /\ closeAsked' \in BOOLEAN
      BY <1>10, Zenon DEF Tokio!AbandonInput, Tokio!RetireInput
    <3> QED
      BY <1>10, <3>1 DEF Tokio!AbandonInput, Tokio!RetireInput
  <2>2. Accounting' /\ TokioUntouched' /\ PlaceTells' /\ SuccessTells'
    BY <1>10 DEF Tokio!AbandonInput, Tokio!RetireInput
  <2> QED
    BY <2>1, <2>2
<1> QED
  BY <1>1, <1>2, <1>3, <1>4, <1>5, <1>6, <1>7, <1>8, <1>9, <1>10

(* The invariant of a Tokio collection.                                    *)
THEOREM TokioInvHolds == Tokio!Spec => []TokioInv
<1>1. TokioInv /\ [Tokio!Next]_(Tokio!vars) => TokioInv'
  <2> SUFFICES ASSUME TokioInv, [Tokio!Next]_(Tokio!vars) PROVE TokioInv'
    OBVIOUS
  <2>1. CASE Tokio!Next /\ ~Tokio!Returned
    BY <2>1, TokioWorldStep, TokioCollectStep, TokioEndStep DEF Tokio!Next,
           Tokio!PollSteps
  <2>2. CASE UNCHANGED Tokio!vars
    BY <2>2 DEF Tokio!vars, Tokio!world, Tokio!task, Tokio!tree, Tokio!pipe,
           TokioInv, Tokio!TypeOK, Tokio!TreeTypeOK, Accounting,
                TokioUntouched, PlaceTells, SuccessTells, Tokio!AtEof,
                Tokio!RootExited
  <2> QED
    BY <2>1, <2>2 DEF Tokio!Returned
<1> QED
  BY <1>1, TokioInit, PTL DEF Tokio!Spec

(* A success reports the root's own status and every chunk the console     *)
(* host ever wrote (tokio/session.rs, collect_until_root and complete).    *)
THEOREM TokioSuccess == Tokio!Spec => []SuccessIsWhole
<1>1. TokioInv => SuccessIsWhole
  BY SizesAreNatural DEF TokioInv, Tokio!TypeOK, Tokio!TreeTypeOK, Accounting,
         SuccessTells, SuccessIsWhole, Tokio!AtEof
<1> QED
  BY <1>1, TokioInvHolds, PTL

(* No process of the tree and no open end of a pipe survives the future,   *)
(* at whatever await it was dropped.                                       *)
THEOREM TokioLeavesNothing == Tokio!Spec => []NothingLeftBehind
<1>1. TokioInv => NothingLeftBehind
  BY DEF TokioInv, PlaceTells, NothingLeftBehind, RootExited, Tokio!RootExited
<1> QED
  BY <1>1, TokioInvHolds, PTL

(* The input is not taken away from a root that may still be running.      *)
THEOREM TokioRootGoesFirst == Tokio!Spec => []InputOutlivesRoot
<1>1. TokioInv => InputOutlivesRoot
  BY DEF TokioInv, Tokio!TypeOK, TokioUntouched, PlaceTells, InputOutlivesRoot,
         RootExited, Tokio!RootExited
<1> QED
  BY <1>1, TokioInvHolds, PTL
=============================================================================
