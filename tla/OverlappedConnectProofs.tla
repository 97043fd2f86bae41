----------------------- MODULE OverlappedConnectProofs -----------------------
(***************************************************************************)
(* However many threads create pipes at once, whatever fails and however   *)
(* long the kernel keeps a connect, its memory outlives it and a creation  *)
(* hands over all four ends or none.  The first holds because memory is    *)
(* freed only where the connect was seen to be over; the second because    *)
(* what a thread holds is a function of where it is.                       *)
(***************************************************************************)
EXTENDS OverlappedConnect, TLAPS

(* The ends a thread at a given place holds.                               *)
Pair(d)    == {<<d, "server">>, <<d, "client">>}
Earlier(t) == IF direction[t] = "conin" THEN Pair("conout") ELSE {}
Current(t) == IF pc[t] \in {"name", "server"} THEN {}
              ELSE IF pc[t] = "client" THEN {<<direction[t], "server">>} ELSE Pair(direction[t])

(* What is true of one thread until it returns, and after.                 *)
Underway(t) ==
  pc[t] # "done" => /\ result[t] = "none"
                    /\ handles[t] = Earlier(t) \cup Current(t)
                    /\ direction[t] = "conin" => connect[t]["conout"] = "connected"
Done(t) ==
  /\ result[t] = "ok" => /\ handles[t] = Directions \X Ends
                         /\ \A d \in Directions : connect[t][d] = "connected"
  /\ result[t] \notin {"none", "ok"} => handles[t] = {}

Holdings == \A t \in Threads : Underway(t) /\ Done(t)

(* A thread draws a name only while it has attempts left.                  *)
Budget == \A t \in Threads : pc[t] = "name" => attempts[t] < PIPE_NAME_ATTEMPTS

IInv == TypeOK /\ Budget /\ MemoryOutlivesConnect /\ Holdings

(* The two pairs are all the ends there are.                               *)
LEMMA AllEnds == Pair("conout") \cup Pair("conin") = Directions \X Ends
BY DEF Pair, Directions, Ends

(* A creation starts without handles and without a connect.                *)
LEMMA InitInv == Init => IInv
<1> SUFFICES ASSUME Init PROVE IInv
  OBVIOUS
<1> USE AttemptsAreBounded DEF Init, Directions, Ends
<1>1. TypeOK
  BY DEF TypeOK
<1>2. Budget /\ MemoryOutlivesConnect
  BY DEF Budget, MemoryOutlivesConnect
<1>3. Holdings
  BY DEF Holdings, Underway, Done, Earlier, Current
<1>4. QED
  BY <1>1, <1>2, <1>3 DEF IInv

(* Updating one entry of a table of tables keeps its type.                 *)
LEMMA EntryTyped ==
  ASSUME NEW S, NEW T, NEW V, NEW f \in [S -> [T -> V]], NEW s \in S, NEW x, NEW v \in V
  PROVE  [f EXCEPT ![s][x] = v] \in [S -> [T -> V]]
<1>1. [f[s] EXCEPT ![x] = v] \in [T -> V]
  OBVIOUS
<1>2. QED
  BY <1>1

(* Returning with an error, and going on after a confirmed pair, keep the  *)
(* thread's variables typed and its attempts within budget.                *)
FlowTyped ==
  /\ pc \in [Threads -> {"name", "server", "client", "connect", "await", "cancel", "drain", "done"}]
  /\ direction \in [Threads -> Directions]
  /\ attempts \in [Threads -> 0 .. PIPE_NAME_ATTEMPTS]
  /\ handles \in [Threads -> SUBSET (Directions \X Ends)]
  /\ result \in [Threads -> {"none", "ok", "collision", "os", "wait"}]
  /\ Budget

LEMMA FailTyped ==
  ASSUME FlowTyped, NEW t \in Threads, NEW p, NEW error \in {"collision", "os", "wait"},
         Fail(t, p, error)
  PROVE  FlowTyped'
BY DEF FlowTyped, Budget, Fail, Goto

LEMMA ConfirmedTyped ==
  ASSUME FlowTyped, NEW t \in Threads, NEW p, Confirmed(t, p)
  PROVE  FlowTyped'
<1>1. CASE direction[t] = "conout"
  BY <1>1, AttemptsAreBounded DEF FlowTyped, Budget, Confirmed, Goto, Directions
<1>2. CASE direction[t] = "conin"
  BY <1>2 DEF FlowTyped, Budget, Confirmed, Goto
<1>3. QED
  BY <1>1, <1>2 DEF FlowTyped, Directions

LEMMA FlowStep ==
  ASSUME FlowTyped, NEW t \in Threads, ThreadSteps(t)
  PROVE  FlowTyped'
<1>1. CASE UniquePipeName(t)
  <2>1. attempts[t] + 1 \in 0 .. PIPE_NAME_ATTEMPTS
    BY <1>1, AttemptsAreBounded DEF UniquePipeName, Goto, FlowTyped, Budget
  <2>2. QED
    BY <1>1, <2>1 DEF UniquePipeName, Goto, FlowTyped, Budget
<1>2. CASE CreatePipeServer(t)
  <2>1. CASE \E error \in {"collision", "os"} : Fail(t, "server", error)
    BY <2>1, FailTyped
  <2>2. CASE ~ \E error \in {"collision", "os"} : Fail(t, "server", error)
    BY <1>2, <2>2 DEF CreatePipeServer, Goto, FlowTyped, Budget, Ends
  <2>3. QED
    BY <2>1, <2>2
<1>3. CASE OpenPipeClient(t)
  <2>1. CASE Fail(t, "client", "os")
    BY <2>1, FailTyped
  <2>2. CASE ~ Fail(t, "client", "os")
    BY <1>3, <2>2 DEF OpenPipeClient, Goto, FlowTyped, Budget, Ends
  <2>3. QED
    BY <2>1, <2>2
<1>4. CASE ConfirmClientConnected(t)
  <2>1. CASE Confirmed(t, "connect") \/ Fail(t, "connect", "os")
    BY <2>1, ConfirmedTyped, FailTyped
  <2>2. CASE ~ (Confirmed(t, "connect") \/ Fail(t, "connect", "os"))
    BY <1>4, <2>2 DEF ConfirmClientConnected, Goto, FlowTyped, Budget
  <2>3. QED
    BY <2>1, <2>2
<1>5. CASE PendingCompleted(t)
  BY <1>5, ConfirmedTyped, FailTyped DEF PendingCompleted
<1>6. CASE PendingTimedOut(t) \/ CancelConnect(t)
  BY <1>6 DEF PendingTimedOut, CancelConnect, Goto, FlowTyped, Budget
<1>7. CASE DrainCancelled(t)
  BY <1>7, FailTyped DEF DrainCancelled
<1>8. QED
  BY <1>1, <1>2, <1>3, <1>4, <1>5, <1>6, <1>7 DEF ThreadSteps

(* Every step keeps the variables typed and the attempts within budget.    *)
LEMMA TypeStep == TypeOK /\ Budget /\ [Next]_vars => TypeOK' /\ Budget'
<1> SUFFICES ASSUME TypeOK, Budget, [Next]_vars PROVE TypeOK' /\ Budget'
  OBVIOUS
<1>0. FlowTyped
  BY DEF FlowTyped, TypeOK
<1>1. ASSUME NEW t \in Threads, ThreadSteps(t) PROVE TypeOK' /\ Budget'
  <2>1. FlowTyped'
    BY <1>0, <1>1, FlowStep
  <2>2. UniquePipeName(t) \/ UNCHANGED <<next_pipe_seq, foreign, name>>
    BY <1>1 DEF ThreadSteps, CreatePipeServer, OpenPipeClient, ConfirmClientConnected,
                PendingCompleted, PendingTimedOut, CancelConnect, DrainCancelled
  <2>3. (next_pipe_seq \in Nat /\ foreign \subseteq ForeignNames)'
    BY <2>2 DEF TypeOK, UniquePipeName
  <2>4. (name \in [Threads -> [Directions -> Nat]])'
    <3>1. [name EXCEPT ![t][direction[t]] = next_pipe_seq] \in [Threads -> [Directions -> Nat]]
      <4>1. name \in [Threads -> [Directions -> Nat]] /\ next_pipe_seq \in Nat
        BY DEF TypeOK
      <4>2. QED
        BY ONLY <4>1, t \in Threads, EntryTyped
    <3>2. QED
      BY <2>2, <3>1 DEF TypeOK, UniquePipeName
  <2>5. UNCHANGED connect \/ \E now \in {"pending", "connected", "failed"} : Connect(t, now)
    BY <1>1 DEF ThreadSteps, UniquePipeName, CreatePipeServer, OpenPipeClient,
                ConfirmClientConnected, PendingCompleted, PendingTimedOut, CancelConnect,
                DrainCancelled
  <2>6. UNCHANGED overlapped \/ \E fate \in {"owned", "freed", "leaked"} : Memory(t, fate)
    BY <1>1 DEF ThreadSteps, UniquePipeName, CreatePipeServer, OpenPipeClient,
                ConfirmClientConnected, PendingCompleted, PendingTimedOut, CancelConnect,
                DrainCancelled
  <2>7. (connect \in [Threads -> [Directions -> {"none", "pending", "connected", "failed"}]])'
    <3>1. connect \in [Threads -> [Directions -> {"none", "pending", "connected", "failed"}]]
      BY DEF TypeOK
    <3>2. ASSUME NEW now \in {"none", "pending", "connected", "failed"}
          PROVE  [connect EXCEPT ![t][direction[t]] = now]
                   \in [Threads -> [Directions -> {"none", "pending", "connected", "failed"}]]
      BY ONLY <3>1, <3>2, t \in Threads, EntryTyped
    <3>3. QED
      BY <2>5, <3>1, <3>2 DEF Connect
  <2>8. (overlapped \in [Threads -> [Directions -> {"none", "owned", "freed", "leaked"}]])'
    <3>1. overlapped \in [Threads -> [Directions -> {"none", "owned", "freed", "leaked"}]]
      BY DEF TypeOK
    <3>2. ASSUME NEW fate \in {"none", "owned", "freed", "leaked"}
          PROVE  [overlapped EXCEPT ![t][direction[t]] = fate]
                   \in [Threads -> [Directions -> {"none", "owned", "freed", "leaked"}]]
      BY ONLY <3>1, <3>2, t \in Threads, EntryTyped
    <3>3. QED
      BY <2>6, <3>1, <3>2 DEF Memory
  <2>9. QED
    BY <2>1, <2>3, <2>4, <2>7, <2>8 DEF FlowTyped, TypeOK
<1>2. ASSUME NEW t \in Threads, NEW d \in Directions, KernelCompletes(t, d)
      PROVE  TypeOK' /\ Budget'
  BY <1>2 DEF KernelCompletes, thread, TypeOK, Budget
<1>3. CASE Returned \/ UNCHANGED vars
  BY <1>3 DEF Returned, vars, thread, TypeOK, Budget
<1>4. QED
  BY <1>1, <1>2, <1>3 DEF Next

(* A step that settles the memory of the current connect may do so when    *)
(* the kernel is not left with a connect and no memory.                    *)
LEMMA SettleMemory ==
  ASSUME TypeOK, MemoryOutlivesConnect, NEW t \in Threads, NEW fate,
         Memory(t, fate),
         \/ UNCHANGED connect /\ (Connecting(t) = "pending" => fate \in {"owned", "leaked"})
         \/ \E now : Connect(t, now) /\ (now = "pending" => fate \in {"owned", "leaked"})
  PROVE  MemoryOutlivesConnect'
<1> USE DEF TypeOK, MemoryOutlivesConnect, Directions, Memory, Connect, Connecting
<1> SUFFICES ASSUME NEW u \in Threads, NEW d \in Directions, connect'[u][d] = "pending"
             PROVE  overlapped'[u][d] \in {"owned", "leaked"}
  OBVIOUS
<1>1. CASE u = t /\ d = direction[t]
  BY <1>1
<1>2. CASE ~(u = t /\ d = direction[t])
  <2>1. connect'[u][d] = connect[u][d] /\ overlapped'[u][d] = overlapped[u][d]
    BY <1>2
  <2>2. QED
    BY <2>1
<1>3. QED
  BY <1>1, <1>2

(* No step frees memory the kernel may still write to.                     *)
LEMMA MemoryStep ==
  TypeOK /\ MemoryOutlivesConnect /\ [Next]_vars => MemoryOutlivesConnect'
<1> SUFFICES ASSUME TypeOK, MemoryOutlivesConnect, [Next]_vars PROVE MemoryOutlivesConnect'
  OBVIOUS
<1>1. ASSUME NEW t \in Threads, ThreadSteps(t) PROVE MemoryOutlivesConnect'
  <2>1. CASE UniquePipeName(t) \/ CreatePipeServer(t) \/ OpenPipeClient(t)
    BY <2>1 DEF UniquePipeName, CreatePipeServer, OpenPipeClient, MemoryOutlivesConnect
  <2>2. CASE ConfirmClientConnected(t)
    <3>1. \E now, fate : /\ Connect(t, now) /\ Memory(t, fate)
                         /\ now = "pending" => fate \in {"owned", "leaked"}
      BY <2>2 DEF ConfirmClientConnected
    <3>2. QED
      BY <3>1, SettleMemory
  <2>3. CASE PendingCompleted(t)
    BY <2>3, SettleMemory DEF PendingCompleted
  <2>4. CASE PendingTimedOut(t) \/ CancelConnect(t)
    BY <2>4 DEF PendingTimedOut, CancelConnect, MemoryOutlivesConnect
  <2>5. CASE DrainCancelled(t)
    BY <2>5, SettleMemory DEF DrainCancelled
  <2>6. QED
    BY <1>1, <2>1, <2>2, <2>3, <2>4, <2>5 DEF ThreadSteps
<1>2. ASSUME NEW t \in Threads, NEW d \in Directions, KernelCompletes(t, d)
      PROVE  MemoryOutlivesConnect'
  BY <1>2 DEF KernelCompletes, thread, TypeOK, MemoryOutlivesConnect
<1>3. CASE Returned \/ UNCHANGED vars
  BY <1>3 DEF Returned, vars, thread, MemoryOutlivesConnect
<1>4. QED
  BY <1>1, <1>2, <1>3 DEF Next

(* A thread's step leaves what concerns another thread alone.              *)
LEMMA Frame ==
  ASSUME TypeOK, NEW t \in Threads, NEW u \in Threads \ {t}, ThreadSteps(t)
  PROVE  /\ pc'[u] = pc[u] /\ direction'[u] = direction[u] /\ handles'[u] = handles[u]
         /\ result'[u] = result[u] /\ connect'[u] = connect[u]
<1> USE DEF TypeOK, Goto, Fail, Connect
<1>1. CASE UniquePipeName(t) \/ CreatePipeServer(t) \/ OpenPipeClient(t)
  BY <1>1 DEF UniquePipeName, CreatePipeServer, OpenPipeClient
<1>2. CASE ConfirmClientConnected(t)
  BY <1>2 DEF ConfirmClientConnected, Confirmed
<1>3. CASE PendingCompleted(t)
  BY <1>3 DEF PendingCompleted, Confirmed
<1>4. CASE PendingTimedOut(t) \/ CancelConnect(t) \/ DrainCancelled(t)
  BY <1>4 DEF PendingTimedOut, CancelConnect, DrainCancelled
<1>5. QED
  BY <1>1, <1>2, <1>3, <1>4 DEF ThreadSteps

(* An error that closes every handle satisfies what is said of a return.   *)
LEMMA FailHolds ==
  ASSUME TypeOK, NEW t \in Threads, NEW p, NEW error, error \notin {"none", "ok"},
         Fail(t, p, error)
  PROVE  Underway(t)' /\ Done(t)'
BY DEF TypeOK, Fail, Goto, Underway, Done

(* So does a confirmed pair: conin starts with conout's ends, and after    *)
(* conin there are all four.                                               *)
LEMMA ConfirmedHolds ==
  ASSUME TypeOK, NEW t \in Threads, Underway(t), Done(t), NEW p, Confirmed(t, p),
         p \in {"connect", "await"}, connect'[t][direction[t]] = "connected",
         \A d \in Directions \ {direction[t]} : connect'[t][d] = connect[t][d]
  PROVE  Underway(t)' /\ Done(t)'
<1> USE DEF TypeOK, Directions, Goto
<1>1. CASE direction[t] = "conout"
  <2>1. /\ pc'[t] = "name" /\ direction'[t] = "conin"
        /\ handles'[t] = handles[t] /\ result'[t] = result[t]
        /\ pc[t] \in {"connect", "await"}
    BY <1>1 DEF Confirmed
  <2>2. handles[t] = Pair("conout") /\ result[t] = "none"
    BY <1>1, <2>1 DEF Underway, Earlier, Current
  <2>3. QED
    BY <1>1, <2>1, <2>2 DEF Underway, Done, Earlier, Current
<1>2. CASE direction[t] = "conin"
  <2>1. /\ pc'[t] = "done" /\ result'[t] = "ok" /\ handles'[t] = handles[t]
        /\ pc[t] \in {"connect", "await"}
    BY <1>2 DEF Confirmed
  <2>2. handles[t] = Pair("conout") \cup Pair("conin") /\ connect[t]["conout"] = "connected"
    BY <1>2, <2>1 DEF Underway, Earlier, Current
  <2>3. QED
    BY <1>2, <2>1, <2>2, AllEnds DEF Underway, Done
<1>3. QED
  BY <1>1, <1>2

(* A thread keeps what its place in the program says it holds, until it    *)
(* returns with everything or with nothing.                                *)
LEMMA OwnStep ==
  ASSUME TypeOK, NEW t \in Threads, Underway(t), Done(t), ThreadSteps(t)
  PROVE  Underway(t)' /\ Done(t)'
<1> USE DEF TypeOK, Directions
<1>1. CASE UniquePipeName(t)
  BY <1>1 DEF UniquePipeName, Goto, Underway, Done, Earlier, Current
<1>2. CASE CreatePipeServer(t)
  <2>1. CASE \E error \in {"collision", "os"} : Fail(t, "server", error)
    BY <2>1, FailHolds
  <2>2. CASE ~ \E error \in {"collision", "os"} : Fail(t, "server", error)
    BY <1>2, <2>2 DEF CreatePipeServer, Goto, Underway, Done, Earlier, Current
  <2>3. QED
    BY <2>1, <2>2
<1>3. CASE OpenPipeClient(t)
  <2>1. CASE Fail(t, "client", "os")
    BY <2>1, FailHolds
  <2>2. CASE ~ Fail(t, "client", "os")
    BY <1>3, <2>2 DEF OpenPipeClient, Goto, Underway, Done, Earlier, Current, Pair
  <2>3. QED
    BY <2>1, <2>2
<1>4. CASE ConfirmClientConnected(t)
  <2>1. CASE Connect(t, "connected") /\ Confirmed(t, "connect")
    BY <2>1, ConfirmedHolds DEF Connect
  <2>2. CASE Connect(t, "pending") /\ Goto(t, "connect", "await")
             /\ UNCHANGED <<direction, attempts, handles, result>>
    BY <2>2 DEF Connect, Goto, Underway, Done, Earlier, Current
  <2>3. CASE Fail(t, "connect", "os")
    BY <2>3, FailHolds
  <2>4. QED
    BY <1>4, <2>1, <2>2, <2>3 DEF ConfirmClientConnected
<1>5. CASE PendingCompleted(t)
  <2>1. CASE Connecting(t) = "connected" /\ Confirmed(t, "await")
    BY <1>5, <2>1, ConfirmedHolds DEF PendingCompleted, Connecting
  <2>2. CASE Fail(t, "await", "os")
    BY <2>2, FailHolds
  <2>3. QED
    BY <1>5, <2>1, <2>2 DEF PendingCompleted
<1>6. CASE PendingTimedOut(t) \/ CancelConnect(t)
  BY <1>6 DEF PendingTimedOut, CancelConnect, Goto, Underway, Done, Earlier, Current
<1>7. CASE DrainCancelled(t)
  BY <1>7, FailHolds DEF DrainCancelled
<1>8. QED
  BY <1>1, <1>2, <1>3, <1>4, <1>5, <1>6, <1>7 DEF ThreadSteps

(* The kernel only ends connects that nobody has reported as connected.    *)
LEMMA HoldingsStep == TypeOK /\ Holdings /\ [Next]_vars => Holdings'
<1> SUFFICES ASSUME TypeOK, Holdings, [Next]_vars, NEW u \in Threads
             PROVE  Underway(u)' /\ Done(u)'
  BY DEF Holdings
<1>1. Underway(u) /\ Done(u)
  BY DEF Holdings
<1>2. ASSUME NEW t \in Threads, ThreadSteps(t) PROVE Underway(u)' /\ Done(u)'
  <2>1. CASE u = t
    BY <1>1, <1>2, <2>1, OwnStep
  <2>2. CASE u # t
    BY <1>1, <1>2, <2>2, Frame DEF Underway, Done, Earlier, Current
  <2>3. QED
    BY <2>1, <2>2
<1>3. ASSUME NEW t \in Threads, NEW d \in Directions, KernelCompletes(t, d)
      PROVE  Underway(u)' /\ Done(u)'
  <2>1. \A e \in Directions : connect[u][e] = "connected" => connect'[u][e] = "connected"
    BY <1>3 DEF KernelCompletes, TypeOK
  <2>2. QED
    BY <1>1, <1>3, <2>1 DEF KernelCompletes, thread, Underway, Done, Earlier, Current, Directions
<1>4. CASE Returned \/ UNCHANGED vars
  BY <1>1, <1>4 DEF Returned, vars, thread, Underway, Done, Earlier, Current
<1>5. QED
  BY <1>2, <1>3, <1>4 DEF Next

(* The inductive invariant of the creation of pipes.                       *)
THEOREM ConnectInvariant == Spec => []IInv
<1>1. IInv /\ [Next]_vars => IInv'
  BY TypeStep, MemoryStep, HoldingsStep DEF IInv
<1>2. QED
  BY <1>1, InitInv, PTL DEF Spec

(* For any number of callers, and whatever the kernel does, the memory of  *)
(* a connect is there for as long as the kernel may write to it.           *)
THEOREM MemoryOutlives == Spec => []MemoryOutlivesConnect
BY ConnectInvariant, PTL DEF IInv

(* For any number of callers a creation yields four ends of two confirmed  *)
(* connections, or an error and no open handle.                            *)
THEOREM CreationIsAllOrNothing == Spec => []AllOrNothing
<1>1. IInv => AllOrNothing
  BY DEF IInv, Holdings, Done, AllOrNothing
<1>2. QED
  BY <1>1, ConnectInvariant, PTL
=============================================================================
