------------------------------ MODULE SessionIo ------------------------------
(***************************************************************************)
(* A session and the two ends it gives away: whose root child it hosts     *)
(* (core/session.rs), and what becomes of the conin and conout handles     *)
(* when a pipe half is dropped or shut down (blocking/pty.rs and           *)
(* tokio/pty.rs).  PseudoCon has the close of the pseudoconsole itself;    *)
(* here it is only asked for.                                              *)
(*                                                                         *)
(* spawn_root borrows the Pty, so that several callers may be in it until  *)
(* into_split or the drop of the Pty takes it apart.                       *)
(***************************************************************************)
CONSTANT Spawners

VARIABLES
  frontend,           \* "blocking" or "tokio"
  split,              \* the Pty has been taken apart
  spawned, attached,  \* Session: reserved; a root child was created in it
  requested,          \* request_close_detached has been called
  pc,                 \* of each spawner in spawn_root: "out" when not inside
  kill,               \* those whose Command sets kill_on_drop
  tree,               \* "none", "running" or "gone": what it has created
  half,               \* of each pipe half: "open", "cancelled", "dropped", "retired"
  op,                 \* its overlapped operation
  handle              \* its OS handle: "open", "closing" or "closed"

spawn == <<spawned, attached, pc, kill, tree>>
pipes == <<half, op, handle>>
vars  == <<frontend, split, requested, spawn, pipes>>

Halves == {"reader", "writer"}

(* An operation is "pending" in the kernel, then "settled", completed or   *)
(* cancelled, and "none" once the runtime's I/O driver has seen that.      *)
TypeOK ==
  /\ frontend \in {"blocking", "tokio"}
  /\ split \in BOOLEAN /\ spawned \in BOOLEAN
  /\ attached \in BOOLEAN /\ requested \in BOOLEAN
  /\ pc \in [Spawners -> {"out", "create", "arm", "cleanup", "holds"}]
  /\ kill \in SUBSET Spawners
  /\ tree \in [Spawners -> {"none", "running", "gone"}]
  /\ half \in [Halves -> {"open", "cancelled", "dropped", "retired"}]
  /\ op \in [Halves -> {"none", "pending", "settled"}]
  /\ handle \in [Halves -> {"open", "closing", "closed"}]

(* Tokio's pipe starts to read as soon as it is registered.                *)
Init ==
  /\ frontend \in {"blocking", "tokio"}
  /\ split = FALSE /\ spawned = FALSE /\ attached = FALSE /\ requested = FALSE
  /\ pc = [s \in Spawners |-> "out"]
  /\ kill \in SUBSET Spawners
  /\ tree = [s \in Spawners |-> "none"]
  /\ half = [h \in Halves |-> "open"]
  /\ op = [h \in Halves |->
             IF h = "reader" /\ frontend = "tokio" THEN "pending" ELSE "none"]
  /\ handle = [h \in Halves |-> "open"]

-----------------------------------------------------------------------------
(* Mutant: the limit is never set.                                         *)
NeverKillOnClose(s) == FALSE

(* The Job kills what is in it when its last handle is closed, if its      *)
(* creation said so.                                                       *)
KillOnClose(s) == s \in kill

CloseJob(s) ==
  tree' = [tree EXCEPT ![s] = IF @ = "running" /\ KillOnClose(s) THEN "gone" ELSE @]

(* spawned.swap(true)                                                      *)
Reserve(s) ==
  /\ ~split /\ pc[s] = "out" /\ ~spawned
  /\ spawned' = TRUE
  /\ pc' = [pc EXCEPT ![s] = "create"]
  /\ UNCHANGED <<frontend, split, requested, attached, kill, tree, pipes>>

(* Mutant: every failed spawn makes the session reusable.                  *)
RefuseAndReset(s) ==
  /\ ~split /\ pc[s] = "out" /\ spawned
  /\ spawned' = FALSE
  /\ UNCHANGED <<frontend, split, requested, attached, pc, kill, tree, pipes>>

(* A spawner that is refused is out again, and may go on trying.           *)
Refuse(s) ==
  /\ ~split /\ pc[s] = "out" /\ spawned
  /\ UNCHANGED vars

(* create_child fails: Job, attribute list or process.                     *)
CreateFails(s) ==
  /\ pc[s] = "create"
  /\ spawned' = FALSE
  /\ pc' = [pc EXCEPT ![s] = "out"]
  /\ UNCHANGED <<frontend, split, requested, attached, kill, tree, pipes>>

(* The release that follows may fail, too; PseudoCon says what comes of it. *)
Create(s) ==
  /\ pc[s] = "create"
  /\ tree' = [tree EXCEPT ![s] = "running"]
  /\ attached' = TRUE
  /\ pc' = [pc EXCEPT ![s] = "arm"]
  /\ UNCHANGED <<frontend, split, requested, spawned, kill, pipes>>

Arm(s) ==
  /\ pc[s] = "arm"
  /\ pc' = [pc EXCEPT ![s] = "holds"]
  /\ UNCHANGED <<frontend, split, requested, spawned, attached, kill, tree, pipes>>

(* No watcher: the Job is terminated, which may fail, and a close is asked *)
(* for.  `spawned' stays: the session is retired.                          *)
ArmFails(s) ==
  /\ pc[s] = "arm"
  /\ tree' \in {tree, [tree EXCEPT ![s] = "gone"]}
  /\ requested' = TRUE
  /\ pc' = [pc EXCEPT ![s] = "cleanup"]
  /\ UNCHANGED <<frontend, split, spawned, attached, kill, pipes>>

(* The early return drops the process handle and the only Arc of the Job.  *)
CleanUp(s) ==
  /\ pc[s] = "cleanup"
  /\ CloseJob(s)
  /\ pc' = [pc EXCEPT ![s] = "out"]
  /\ UNCHANGED <<frontend, split, requested, spawned, attached, kill, pipes>>

(* ChildCore's Drop terminates the Job, which may fail, before its last    *)
(* handle goes.                                                            *)
DropChild(s) ==
  /\ pc[s] = "holds"
  /\ \/ s \in kill /\ tree' = [tree EXCEPT ![s] = "gone"]
     \/ CloseJob(s)
  /\ pc' = [pc EXCEPT ![s] = "out"]
  /\ UNCHANGED <<frontend, split, requested, spawned, attached, kill, pipes>>

TreeExits(s) ==
  /\ tree[s] = "running"
  /\ tree' = [tree EXCEPT ![s] = "gone"]
  /\ UNCHANGED <<frontend, split, requested, spawned, attached, pc, kill, pipes>>

(* into_split, or the drop of the Pty: no borrow is left.                  *)
IntoSplit ==
  /\ ~split
  /\ \A s \in Spawners : pc[s] \in {"out", "holds"}
  /\ split' = TRUE
  /\ UNCHANGED <<frontend, requested, spawn, pipes>>

-----------------------------------------------------------------------------
(* A blocking operation is over with its call; an overlapped one when the  *)
(* driver says so.                                                         *)
Settled == IF frontend = "blocking" THEN "none" ELSE "settled"

Settle(h) == op' = [op EXCEPT ![h] = IF @ = "pending" THEN Settled ELSE @]

(* A read, or a write, that cannot be completed at once.                   *)
Submit(h) ==
  /\ half[h] = "open" /\ op[h] = "none"
  /\ op' = [op EXCEPT ![h] = "pending"]
  /\ UNCHANGED <<frontend, split, requested, spawn, half, handle>>

(* The console host writes output, drains input, or closes its end.        *)
HostServes(h) ==
  /\ op[h] = "pending"
  /\ Settle(h)
  /\ UNCHANGED <<frontend, split, requested, spawn, half, handle>>

(* The driver retires the operation, and with it a handle that was only    *)
(* kept for it.                                                            *)
DriverRetires(h) ==
  /\ op[h] = "settled"
  /\ op' = [op EXCEPT ![h] = "none"]
  /\ handle' = [handle EXCEPT ![h] = IF @ = "closing" THEN "closed" ELSE @]
  /\ UNCHANGED <<frontend, split, requested, spawn, half>>

(* Nobody can drop the half a blocking call is using.                      *)
Droppable(h) == split /\ half[h] = "open" /\ (frontend = "blocking" => op[h] # "pending")

(* The end of the Rust value: the handle stays as long as an operation     *)
(* does.                                                                   *)
DropPipe(h) ==
  /\ half' = [half EXCEPT ![h] = "dropped"]
  /\ handle' = [handle EXCEPT ![h] = IF op[h] = "none" THEN "closed" ELSE "closing"]

(* mio cancels a read when its pipe is dropped.                            *)
DropReader ==
  /\ Droppable("reader")
  /\ DropPipe("reader")
  /\ Settle("reader")
  /\ UNCHANGED <<frontend, split, requested, spawn>>

(* notify_reader_closed                                                    *)
NotifyReaderClosed ==
  /\ half["reader"] = "dropped"
  /\ half' = [half EXCEPT !["reader"] = "retired"]
  /\ UNCHANGED <<frontend, split, requested, spawn, op, handle>>

(* Mutant: a write in flight may finish, as mio has it.                    *)
LetWriteFinish ==
  /\ Droppable("writer")
  /\ half' = [half EXCEPT !["writer"] = "cancelled"]
  /\ UNCHANGED <<frontend, split, requested, spawn, op, handle>>

(* close_pipe, of a drop or a shutdown: CancelIoEx; the blocking writer    *)
(* has nothing to cancel.  A second one finds no pipe and returns.         *)
CancelWrite ==
  /\ Droppable("writer")
  /\ half' = [half EXCEPT !["writer"] = "cancelled"]
  /\ Settle("writer")
  /\ UNCHANGED <<frontend, split, requested, spawn, handle>>

DropWriter ==
  /\ half["writer"] = "cancelled"
  /\ DropPipe("writer")
  /\ UNCHANGED <<frontend, split, requested, spawn, op>>

RequestCloseAfterInput ==
  /\ half["writer"] = "dropped"
  /\ half' = [half EXCEPT !["writer"] = "retired"]
  /\ requested' = (requested \/ attached)
  /\ UNCHANGED <<frontend, split, spawn, op, handle>>

-----------------------------------------------------------------------------
Spawn(s) ==
  Reserve(s) \/ Refuse(s) \/ CreateFails(s) \/ Create(s) \/ Arm(s) \/ ArmFails(s) \/ CleanUp(s)

Retire == NotifyReaderClosed \/ DropWriter \/ RequestCloseAfterInput

Next ==
  \/ \E s \in Spawners : Spawn(s) \/ DropChild(s) \/ TreeExits(s)
  \/ \E h \in Halves : Submit(h) \/ HostServes(h) \/ DriverRetires(h)
  \/ IntoSplit \/ DropReader \/ CancelWrite \/ Retire

(* A drop that has begun goes on, and the runtime polls its I/O driver.    *)
(* Nothing is assumed of the console host.                                 *)
Fairness ==
  /\ WF_vars(NotifyReaderClosed)
  /\ WF_vars(DropWriter)
  /\ WF_vars(RequestCloseAfterInput)
  /\ \A h \in Halves : WF_vars(DriverRetires(h))

Spec == Init /\ [][Next]_vars /\ Fairness

-----------------------------------------------------------------------------
(* The reservation of a spawner: it is creating a child, or has done so.   *)
Reserves(s) == pc[s] = "create" \/ tree[s] # "none"

(* One root child in the life of a session, whoever competes: the session  *)
(* is taken as long as somebody is creating its child and for ever once a  *)
(* child was created, whatever fails afterwards, and free otherwise        *)
(* (session.rs:199-218).                                                   *)
OneRootPerSession ==
  /\ \A s, t \in Spawners : Reserves(s) /\ Reserves(t) => s = t
  /\ spawned <=> \E s \in Spawners : Reserves(s)

(* No managed tree runs on without somebody who holds its Job, be it that  *)
(* the spawn failed late or that its termination did; and a session that   *)
(* can go nowhere, its spawn failed late or its input retired, has been    *)
(* asked to close (session.rs:238-247, child.rs:111-119, pty.rs:489-497).  *)
NoOrphanedSession ==
  /\ \A s \in Spawners : tree[s] = "running" /\ s \in kill => pc[s] \in {"arm", "cleanup", "holds"}
  /\ attached /\ half["writer"] = "retired" => requested
  /\ \A s \in Spawners : pc[s] = "cleanup" => requested

(* A half that is dropped or shut down gives up its handle, and is done    *)
(* with the lifecycle core, even if the console host never serves another  *)
(* operation (tokio/pty.rs:515-535, 583-611).                              *)
HalvesClose ==
  \A h \in Halves : half[h] # "open" ~> half[h] = "retired" /\ handle[h] = "closed"
=============================================================================
