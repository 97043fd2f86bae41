------------------------- MODULE OverlappedConnect -------------------------
(***************************************************************************)
(* create_overlapped_pipes (core/pipes/overlapped.rs): the two named-pipe  *)
(* pairs of a Tokio session, created by several threads at once under      *)
(* names drawn from one counter.  Each pair is a server end, the client    *)
(* end opened next, and ConnectNamedPipe to confirm what that open did.    *)
(* A connect that stays pending is waited for, cancelled, waited for again *)
(* and, when the kernel still holds on to it, given the memory it will     *)
(* write to.                                                               *)
(***************************************************************************)
EXTENDS Naturals, FiniteSets

CONSTANTS
  Threads,             \* callers of create_overlapped_pipes
  PIPE_NAME_ATTEMPTS,  \* names tried before a collision is reported
  ForeignNames,        \* names another process may hold
  CallsMayFail         \* may a system call fail, a connect be left pending?

ASSUME AttemptsAreBounded == PIPE_NAME_ATTEMPTS \in Nat \ {0}
ASSUME NamesAreNumbers == ForeignNames \subseteq Nat /\ IsFiniteSet(ForeignNames)
ASSUME FailureSwitch == CallsMayFail \in BOOLEAN

Directions == {"conout", "conin"}
Ends       == {"server", "client"}

VARIABLES
  next_pipe_seq,  \* NEXT_PIPE_SEQ
  foreign,        \* the names another process does hold
  pc,             \* where each thread is
  direction,      \* the pair it is at
  attempts,       \* names it has tried for this pair
  name,           \* the name of each of its pipes
  handles,        \* its open handles, as pairs of a direction and an end
  connect,        \* the kernel's side of each ConnectNamedPipe:
                  \* "none", "pending", "connected" or "failed"
  overlapped,     \* the OVERLAPPED and event handed to it:
                  \* "none", "owned", "freed" or "leaked"
  result          \* "none", "ok" or which error was returned

thread == <<pc, direction, attempts, name, handles, overlapped, result>>
vars   == <<next_pipe_seq, foreign, connect, thread>>

Init ==
  /\ next_pipe_seq = 0
  /\ foreign \in SUBSET ForeignNames
  /\ pc = [t \in Threads |-> "name"]
  /\ direction = [t \in Threads |-> "conout"]
  /\ attempts = [t \in Threads |-> 0]
  /\ name = [t \in Threads |-> [d \in Directions |-> 0]]
  /\ handles = [t \in Threads |-> {}]
  /\ connect = [t \in Threads |-> [d \in Directions |-> "none"]]
  /\ overlapped = [t \in Threads |-> [d \in Directions |-> "none"]]
  /\ result = [t \in Threads |-> "none"]

-----------------------------------------------------------------------------
Goto(t, p, q) == pc[t] = p /\ pc' = [pc EXCEPT ![t] = q]

(* The error is returned and the handles created so far are dropped.       *)
Fail(t, p, error) ==
  /\ Goto(t, p, "done")
  /\ handles' = [handles EXCEPT ![t] = {}]
  /\ result' = [result EXCEPT ![t] = error]
  /\ UNCHANGED <<direction, attempts>>

(* A confirmed pair; after conout comes conin.                             *)
Confirmed(t, p) ==
  \/ /\ direction[t] = "conout" /\ Goto(t, p, "name")
     /\ direction' = [direction EXCEPT ![t] = "conin"]
     /\ attempts' = [attempts EXCEPT ![t] = 0]
     /\ UNCHANGED <<handles, result>>
  \/ /\ direction[t] = "conin" /\ Goto(t, p, "done")
     /\ result' = [result EXCEPT ![t] = "ok"]
     /\ UNCHANGED <<direction, attempts, handles>>

Memory(t, fate) == overlapped' = [overlapped EXCEPT ![t][direction[t]] = fate]
Connect(t, now) == connect' = [connect EXCEPT ![t][direction[t]] = now]
Connecting(t)   == connect[t][direction[t]]

(* A name exists as long as one of its pipe's handles.                     *)
Taken(n) == n \in foreign \/ \E t \in Threads : \E h \in handles[t] : name[t][h[1]] = n

UniquePipeName(t) ==
  /\ Goto(t, "name", "server")
  /\ attempts' = [attempts EXCEPT ![t] = @ + 1]
  /\ name' = [name EXCEPT ![t][direction[t]] = next_pipe_seq]
  /\ next_pipe_seq' = next_pipe_seq + 1
  /\ UNCHANGED <<foreign, connect, direction, handles, overlapped, result>>

CreatePipeServer(t) ==
  LET taken == Taken(name[t][direction[t]]) IN
  /\ \/ /\ ~taken /\ Goto(t, "server", "client")
        /\ handles' = [handles EXCEPT ![t] = @ \cup {<<direction[t], "server">>}]
        /\ UNCHANGED <<direction, attempts, result>>
     \/ /\ taken /\ attempts[t] < PIPE_NAME_ATTEMPTS /\ Goto(t, "server", "name")
        /\ UNCHANGED <<direction, attempts, handles, result>>
     \/ /\ taken /\ attempts[t] = PIPE_NAME_ATTEMPTS
        /\ Fail(t, "server", "collision")
     \/ CallsMayFail /\ Fail(t, "server", "os")
  /\ UNCHANGED <<next_pipe_seq, foreign, connect, name, overlapped>>

OpenPipeClient(t) ==
  /\ \/ /\ Goto(t, "client", "connect")
        /\ handles' = [handles EXCEPT ![t] = @ \cup {<<direction[t], "client">>}]
        /\ UNCHANGED <<direction, attempts, result>>
     \/ CallsMayFail /\ Fail(t, "client", "os")
  /\ UNCHANGED <<next_pipe_seq, foreign, connect, name, overlapped>>

(* Mutant: a pending connect counts as a connection.                       *)
TrustPendingConnect(t) ==
  /\ \/ Connect(t, "connected") /\ Memory(t, "freed") /\ Confirmed(t, "connect")
     \/ /\ CallsMayFail /\ Connect(t, "pending") /\ Memory(t, "leaked")
        /\ Confirmed(t, "connect")
     \/ /\ CallsMayFail /\ Connect(t, "failed") /\ Memory(t, "freed")
        /\ Fail(t, "connect", "os")
  /\ UNCHANGED <<next_pipe_seq, foreign, name>>

(* Complete, Pending and Error; the last also stands for an event that     *)
(* could not be created.                                                   *)
ConfirmClientConnected(t) ==
  /\ \/ Connect(t, "connected") /\ Memory(t, "freed") /\ Confirmed(t, "connect")
     \/ /\ CallsMayFail /\ Connect(t, "pending") /\ Memory(t, "owned")
        /\ Goto(t, "connect", "await")
        /\ UNCHANGED <<direction, attempts, handles, result>>
     \/ /\ CallsMayFail /\ Connect(t, "failed") /\ Memory(t, "freed")
        /\ Fail(t, "connect", "os")
  /\ UNCHANGED <<next_pipe_seq, foreign, name>>

-----------------------------------------------------------------------------
(* await_pending_connect.                                                  *)

PendingCompleted(t) ==
  /\ \/ Connecting(t) = "connected" /\ Confirmed(t, "await")
     \/ Connecting(t) = "failed" /\ Fail(t, "await", "os")
  /\ Memory(t, "freed")
  /\ UNCHANGED <<next_pipe_seq, foreign, connect, name>>

(* Mutant: the first wait has no timeout.                                  *)
AwaitForEver(t) ==
  /\ Connecting(t) # "pending" /\ CallsMayFail
  /\ Goto(t, "await", "cancel")
  /\ UNCHANGED <<next_pipe_seq, foreign, connect, direction, attempts, name, handles,
                 overlapped, result>>

PendingTimedOut(t) ==
  /\ Connecting(t) = "pending" \/ CallsMayFail
  /\ Goto(t, "await", "cancel")
  /\ UNCHANGED <<next_pipe_seq, foreign, connect, direction, attempts, name, handles,
                 overlapped, result>>

(* CancelIo only asks; the kernel answers in KernelCompletes.              *)
CancelConnect(t) ==
  /\ Goto(t, "cancel", "drain")
  /\ UNCHANGED <<next_pipe_seq, foreign, connect, direction, attempts, name, handles,
                 overlapped, result>>

(* Mutant: the memory is dropped on every path.                            *)
DropAfterCancel(t) ==
  /\ \/ Connecting(t) # "pending"
     \/ Connecting(t) = "pending" \/ CallsMayFail
  /\ Memory(t, "freed")
  /\ Fail(t, "drain", "wait")
  /\ UNCHANGED <<next_pipe_seq, foreign, connect, name>>

DrainCancelled(t) ==
  /\ \/ Connecting(t) # "pending" /\ Memory(t, "freed")
     \/ (Connecting(t) = "pending" \/ CallsMayFail) /\ Memory(t, "leaked")
  /\ Fail(t, "drain", "wait")
  /\ UNCHANGED <<next_pipe_seq, foreign, connect, name>>

(* The kernel ends a pending connect when it likes, possibly only after    *)
(* the server end was closed, and writes its status to the OVERLAPPED.     *)
KernelCompletes(t, d) ==
  /\ connect[t][d] = "pending"
  /\ \E now \in {"connected", "failed"} : connect' = [connect EXCEPT ![t][d] = now]
  /\ UNCHANGED <<next_pipe_seq, foreign, thread>>

Returned == (\A t \in Threads : pc[t] = "done") /\ UNCHANGED vars

ThreadSteps(t) ==
  \/ UniquePipeName(t) \/ CreatePipeServer(t) \/ OpenPipeClient(t)
  \/ ConfirmClientConnected(t)
  \/ PendingCompleted(t) \/ PendingTimedOut(t) \/ CancelConnect(t) \/ DrainCancelled(t)

Next ==
  \/ \E t \in Threads : ThreadSteps(t)
  \/ \E t \in Threads, d \in Directions : KernelCompletes(t, d)
  \/ Returned

Spec == Init /\ [][Next]_vars

(* The threads run and their waits time out; the kernel owes nothing.      *)
FairSpec == Spec /\ \A t \in Threads : WF_vars(ThreadSteps(t))

-----------------------------------------------------------------------------
(* Every variable has its type.                                            *)
TypeOK ==
  /\ next_pipe_seq \in Nat /\ foreign \subseteq ForeignNames
  /\ pc \in [Threads -> {"name", "server", "client", "connect", "await", "cancel", "drain", "done"}]
  /\ direction \in [Threads -> Directions]
  /\ attempts \in [Threads -> 0 .. PIPE_NAME_ATTEMPTS]
  /\ name \in [Threads -> [Directions -> Nat]]
  /\ handles \in [Threads -> SUBSET (Directions \X Ends)]
  /\ connect \in [Threads -> [Directions -> {"none", "pending", "connected", "failed"}]]
  /\ overlapped \in [Threads -> [Directions -> {"none", "owned", "freed", "leaked"}]]
  /\ result \in [Threads -> {"none", "ok", "collision", "os", "wait"}]

(* As long as the kernel may still complete a connect, the OVERLAPPED it   *)
(* writes and the event it signals exist, also when the caller timed out,  *)
(* cancelled, gave up waiting for the cancellation and returned.           *)
MemoryOutlivesConnect ==
  \A t \in Threads, d \in Directions :
    connect[t][d] = "pending" => overlapped[t][d] \in {"owned", "leaked"}

(* An Ok holds two connections the kernel has confirmed; an error, from    *)
(* whichever step of whichever pair, has closed every handle.              *)
AllOrNothing ==
  \A t \in Threads :
    /\ result[t] = "ok" => /\ handles[t] = Directions \X Ends
                           /\ \A d \in Directions : connect[t][d] = "connected"
    /\ result[t] \notin {"none", "ok"} => handles[t] = {}

(* No kernel that keeps a connect pending, cancelled or not, can block the *)
(* caller for good, and no collision makes it try for ever.                *)
CreationReturns == <>(\A t \in Threads : pc[t] = "done")
=============================================================================
