---------------------------- MODULE ServerQueue ----------------------------
(***************************************************************************)
(* ServerImpl of sync/src/synchronization_server.rs: the per-peer task     *)
(* queue (ServerQueue) behind one mutex, the single worker thread that     *)
(* pops tasks round-robin and runs them through ServerTaskExecutor, the    *)
(* producers calling execute / on_disconnect, and Drop, which stops and    *)
(* joins the worker.                                                       *)
(*                                                                         *)
(* Every action that holds the queue mutex is one atomic step.  The        *)
(* worker runs executor.execute outside the mutex, so the step that runs a *)
(* task and the step that re-queues its continuation are separate, and     *)
(* producers interleave between them.  The condition variable is the       *)
(* worker states "waiting" (in queue_ready.wait) and "woken" (notified,    *)
(* not yet holding the mutex again); notify_one with no waiter is lost.   *)
(***************************************************************************)
EXTENDS Integers, Sequences, SequencesExt, FiniteSets, TLC

CONSTANTS
    Blocks, Parent, Zero,          \* the block tree, as in ServerTaskExecutor
    GetBlocksMax, GetHeadersMax,   \* the response bounds, as in ServerTaskExecutor
    Peers,          \* peer indices
    Requests,       \* request tasks a producer may execute (peer filled in)
    MaxRequests,    \* bound on the number of execute calls
    Storage         \* the storage snapshot the executor reads

Exec == INSTANCE ServerTaskExecutor

VARIABLES
    peers_queue,    \* ServerQueue::peers_queue
    tasks_queue,    \* ServerQueue::tasks_queue, a function on the peers with an entry
    is_stopping,    \* ServerQueue::is_stopping
    worker,         \* control point of the worker thread (server_worker)
    current,        \* task the worker popped, or the continuation it holds
    owner,          \* control point of the thread running ServerImpl::drop
    \* history, not in the code: kept to state the properties
    connected,      \* peers whose connection is open
    submitted,      \* every executed request, in execute order
    sent,           \* sent[p]: messages emitted for peer p, in order
    completed,      \* seq numbers of requests whose last step has run
    bypass          \* bypass[q][p]: tasks of p popped while q waited in peers_queue

vars == <<peers_queue, tasks_queue, is_stopping, worker, current, owner,
          connected, submitted, sent, completed, bypass>>

WorkerStates == {"loop", "waiting", "woken", "execute", "reinject", "exited"}
OwnerStates  == {"running", "stopped", "notified", "joined"}

ZeroBypass == [p \in Peers |-> 0]

-----------------------------------------------------------------------------
(* Queue operations, each run under the queue mutex.                       *)

\* queue_ready.notify_one(): wakes the worker if it waits, else is lost
NotifyOne ==
    worker' = IF worker = "waiting" THEN "woken" ELSE worker

\* fault variant of NextTask (RoundRobin): the peer is requeued at the front
NextTask_requeue_front ==
    LET p    == Head(peers_queue)
        rest == Tail(tasks_queue[p])
    IN  /\ peers_queue # <<>>
        /\ current' = Head(tasks_queue[p])
        /\ IF rest # <<>>
           THEN /\ peers_queue' = peers_queue
                /\ tasks_queue' = [tasks_queue EXCEPT ![p] = rest]
           ELSE /\ peers_queue' = Tail(peers_queue)
                /\ tasks_queue' = [q \in DOMAIN tasks_queue \ {p} |-> tasks_queue[q]]
        /\ bypass' = [q \in Peers |->
                        IF q = p THEN ZeroBypass
                        ELSE IF q \in ToSet(Tail(peers_queue))
                             THEN [bypass[q] EXCEPT ![p] = @ + 1]
                             ELSE bypass[q]]

\* fault variant of NextTask (RoundRobin, three peers): the peer is requeued
\* behind the next waiting peer instead of at the tail
NextTask_requeue_second ==
    LET p    == Head(peers_queue)
        rest == Tail(tasks_queue[p])
        wait == Tail(peers_queue)
    IN  /\ peers_queue # <<>>
        /\ current' = Head(tasks_queue[p])
        /\ IF rest # <<>>
           THEN /\ peers_queue' = IF wait = <<>> THEN <<p>> ELSE InsertAt(wait, 2, p)
                /\ tasks_queue' = [tasks_queue EXCEPT ![p] = rest]
           ELSE /\ peers_queue' = wait
                /\ tasks_queue' = [q \in DOMAIN tasks_queue \ {p} |-> tasks_queue[q]]
        /\ bypass' = [q \in Peers |->
                        IF q = p THEN ZeroBypass
                        ELSE IF q \in ToSet(wait)
                             THEN [bypass[q] EXCEPT ![p] = @ + 1]
                             ELSE bypass[q]]

\* fault variant of NextTask (PeerServerSpec): the peer's entry is removed
\* with its first task, dropping the tasks queued behind it
NextTask_drop_rest ==
    LET p == Head(peers_queue)
    IN  /\ peers_queue # <<>>
        /\ current' = Head(tasks_queue[p])
        /\ peers_queue' = Tail(peers_queue)
        /\ tasks_queue' = [q \in DOMAIN tasks_queue \ {p} |-> tasks_queue[q]]
        /\ bypass' = [q \in Peers |->
                        IF q = p THEN ZeroBypass
                        ELSE IF q \in ToSet(Tail(peers_queue))
                             THEN [bypass[q] EXCEPT ![p] = @ + 1]
                             ELSE bypass[q]]

(* ServerQueue::next_task with a task available: pop the front peer, pop   *)
(* its front task, requeue the peer at the back or drop its empty entry.  *)
NextTask ==
    LET p    == Head(peers_queue)
        rest == Tail(tasks_queue[p])
    IN  /\ peers_queue # <<>>
        /\ current' = Head(tasks_queue[p])
        /\ IF rest # <<>>
           THEN /\ peers_queue' = Append(Tail(peers_queue), p)
                /\ tasks_queue' = [tasks_queue EXCEPT ![p] = rest]
           ELSE /\ peers_queue' = Tail(peers_queue)
                /\ tasks_queue' = [q \in DOMAIN tasks_queue \ {p} |-> tasks_queue[q]]
        /\ bypass' = [q \in Peers |->
                        IF q = p THEN ZeroBypass
                        ELSE IF q \in ToSet(Tail(peers_queue))
                             THEN [bypass[q] EXCEPT ![p] = @ + 1]
                             ELSE bypass[q]]

(* add_task (push_back) and add_task_front (push_front): the peer joins   *)
(* peers_queue at the back when its entry is missing or empty.            *)
AddTask(t, front) ==
    LET p      == t.peer
        joins  == p \notin DOMAIN tasks_queue \/ tasks_queue[p] = <<>>
        old    == IF p \in DOMAIN tasks_queue THEN tasks_queue[p] ELSE <<>>
        queued == IF front /\ p \in DOMAIN tasks_queue THEN <<t>> \o old
                  ELSE Append(old, t)
    IN  /\ tasks_queue' = (p :> queued) @@ tasks_queue
        /\ peers_queue' = IF joins THEN Append(peers_queue, p) ELSE peers_queue

add_task(t) == AddTask(t, FALSE)

\* fault variant of add_task_front (ResponsesInRequestOrder): push_back
add_task_front_at_back(t) == AddTask(t, FALSE)

add_task_front(t) == AddTask(t, TRUE)

\* fault variant of remove_peer_tasks (QueueConsistent): peer left in peers_queue
remove_peer_tasks_keep_queued(p) ==
    /\ tasks_queue' = [q \in DOMAIN tasks_queue \ {p} |-> tasks_queue[q]]
    /\ UNCHANGED peers_queue

\* ServerQueue::remove_peer_tasks
remove_peer_tasks(p) ==
    IF p \in DOMAIN tasks_queue
    THEN /\ tasks_queue' = [q \in DOMAIN tasks_queue \ {p} |-> tasks_queue[q]]
         /\ peers_queue' = RemoveAt(peers_queue, SelectInSeq(peers_queue, LAMBDA x : x = p))
    ELSE UNCHANGED <<tasks_queue, peers_queue>>

-----------------------------------------------------------------------------
(* Producers: Server::execute and Server::on_disconnect, from any thread   *)
(* while the server is alive.                                              *)

\* fault variant of execute (RequestsServed): add_task without notify_one
execute_no_notify(p, r) ==
    /\ owner = "running"
    /\ p \in connected
    /\ Len(submitted) < MaxRequests
    /\ LET t == [r EXCEPT !.peer = p, !.seq = Len(submitted) + 1]
       IN  /\ add_task(t)
           /\ submitted' = Append(submitted, t)
    /\ UNCHANGED <<is_stopping, worker, current, owner, connected, sent, completed, bypass>>

execute(p, r) ==
    /\ owner = "running"
    /\ p \in connected
    /\ Len(submitted) < MaxRequests
    /\ LET t == [r EXCEPT !.peer = p, !.seq = Len(submitted) + 1]
       IN  /\ add_task(t)
           /\ submitted' = Append(submitted, t)
    /\ NotifyOne
    /\ UNCHANGED <<is_stopping, current, owner, connected, sent, completed, bypass>>

on_disconnect(p) ==
    /\ owner = "running"
    /\ p \in connected
    /\ remove_peer_tasks(p)
    /\ connected' = connected \ {p}
    /\ bypass' = [bypass EXCEPT ![p] = ZeroBypass]
    /\ UNCHANGED <<is_stopping, worker, current, owner, submitted, sent, completed>>

-----------------------------------------------------------------------------
(* The worker thread, ServerImpl::server_worker.                           *)

\* lock; is_stopping is set: break out of the loop
WorkerStop ==
    /\ worker = "loop"
    /\ is_stopping
    /\ worker' = "exited"
    /\ UNCHANGED <<peers_queue, tasks_queue, is_stopping, current, owner,
                   connected, submitted, sent, completed, bypass>>

\* lock; next_task() is Some
WorkerTakeTask ==
    /\ worker = "loop"
    /\ ~is_stopping
    /\ NextTask
    /\ worker' = "execute"
    /\ UNCHANGED <<is_stopping, owner, connected, submitted, sent, completed>>

\* lock; next_task() is None: queue_ready.wait releases the mutex
WorkerWait ==
    /\ worker = "loop"
    /\ ~is_stopping
    /\ peers_queue = <<>>
    /\ worker' = "waiting"
    /\ UNCHANGED <<peers_queue, tasks_queue, is_stopping, current, owner,
                   connected, submitted, sent, completed, bypass>>

\* notified: wait reacquires the mutex and next_task() runs again
WorkerWake ==
    /\ worker = "woken"
    /\ \/ /\ NextTask
          /\ worker' = "execute"
       \/ /\ peers_queue = <<>>
          /\ worker' = "loop"
          /\ UNCHANGED <<peers_queue, tasks_queue, current, bypass>>
    /\ UNCHANGED <<is_stopping, owner, connected, submitted, sent, completed>>

\* executor.execute(task), outside the mutex
WorkerExecute ==
    /\ worker = "execute"
    /\ LET r == Exec!ExecuteTask(Storage, current)
       IN  /\ sent' = [sent EXCEPT ![current.peer] = @ \o r.out]
           /\ current' = r.cont
           /\ IF r.cont = Exec!NoTask
              THEN /\ worker' = "loop"
                   /\ completed' = completed \cup {current.seq}
              ELSE /\ worker' = "reinject"
                   /\ UNCHANGED completed
    /\ UNCHANGED <<peers_queue, tasks_queue, is_stopping, owner, connected,
                   submitted, bypass>>

\* lock; add_task_front(continuation); its notify_one finds no waiter
WorkerReinject ==
    /\ worker = "reinject"
    /\ add_task_front(current)
    /\ worker' = "loop"
    /\ UNCHANGED <<is_stopping, current, owner, connected, submitted, sent,
                   completed, bypass>>

-----------------------------------------------------------------------------
(* ServerImpl::drop: set is_stopping under the mutex, notify, join.        *)

DropStop ==
    /\ owner = "running"
    /\ is_stopping' = TRUE
    /\ owner' = "stopped"
    /\ UNCHANGED <<peers_queue, tasks_queue, worker, current, connected,
                   submitted, sent, completed, bypass>>

\* fault variant of DropNotify (ShutdownCompletes): the notify is forgotten
DropNotify_lost ==
    /\ owner = "stopped"
    /\ owner' = "notified"
    /\ UNCHANGED <<peers_queue, tasks_queue, is_stopping, worker, current, connected,
                   submitted, sent, completed, bypass>>

DropNotify ==
    /\ owner = "stopped"
    /\ NotifyOne
    /\ owner' = "notified"
    /\ UNCHANGED <<peers_queue, tasks_queue, is_stopping, current, connected,
                   submitted, sent, completed, bypass>>

DropJoin ==
    /\ owner = "notified"
    /\ worker = "exited"
    /\ owner' = "joined"
    /\ UNCHANGED <<peers_queue, tasks_queue, is_stopping, worker, current,
                   connected, submitted, sent, completed, bypass>>

\* the server is gone: nothing is left to run
Terminated ==
    /\ owner = "joined"
    /\ UNCHANGED vars

-----------------------------------------------------------------------------

Init ==
    /\ peers_queue = <<>>
    /\ tasks_queue = <<>>
    /\ is_stopping = FALSE
    /\ worker = "loop"
    /\ current = Exec!NoTask
    /\ owner = "running"
    /\ connected = Peers
    /\ submitted = <<>>
    /\ sent = [p \in Peers |-> <<>>]
    /\ completed = {}
    /\ bypass = [q \in Peers |-> ZeroBypass]

WorkerNext ==
    WorkerStop \/ WorkerTakeTask \/ WorkerWait \/ WorkerWake
    \/ WorkerExecute \/ WorkerReinject

Next ==
    \/ \E p \in Peers, r \in Requests : execute(p, r)
    \/ \E p \in Peers : on_disconnect(p)
    \/ WorkerNext
    \/ DropStop \/ DropNotify \/ DropJoin
    \/ Terminated

(* The worker thread and the dropping thread, once started, are scheduled *)
(* by the OS: each keeps running.  Producers, disconnects and the decision *)
(* to drop the server are the environment's and need not happen.           *)
Fairness ==
    /\ WF_vars(WorkerNext)
    /\ WF_vars(DropNotify)
    /\ WF_vars(DropJoin)

Spec == Init /\ [][Next]_vars

FairSpec == Spec /\ Fairness

-----------------------------------------------------------------------------
(* Properties                                                              *)

TypeOK ==
    /\ peers_queue \in Seq(Peers)
    /\ DOMAIN tasks_queue \subseteq Peers
    /\ is_stopping \in BOOLEAN
    /\ worker \in WorkerStates
    /\ owner \in OwnerStates
    /\ connected \subseteq Peers
    /\ completed \subseteq 1..MaxRequests
    /\ bypass \in [Peers -> [Peers -> 0..MaxRequests]]

(* The shape next_task and remove_peer_tasks rely on in their expect()s   *)
(* (spec I3, I4): a peer is in peers_queue exactly once iff it has a      *)
(* tasks_queue entry, and no entry is an empty deque.  Broken, the worker *)
(* or on_disconnect panics while holding the queue mutex.                 *)
QueueConsistent ==
    /\ IsInjective(peers_queue)
    /\ ToSet(peers_queue) = DOMAIN tasks_queue
    /\ \A p \in DOMAIN tasks_queue : tasks_queue[p] # <<>>

(* Round-robin (spec 4.4): while peer q waits in peers_queue, the worker  *)
(* pops at most one task of any other peer, also when continuations are   *)
(* re-queued by add_task_front after the peer's entry was dropped.        *)
RoundRobin ==
    \A q \in ToSet(peers_queue), p \in Peers : bypass[q][p] <= 1

(* The full answer of one request: the blocks found, in inventory order,  *)
(* then one NotFound with the missing MessageBlock items; for the other   *)
(* requests the executor's single step.                                   *)
ExpectedResponse(t) ==
    IF t.kind = "GetData"
    THEN LET isBlock(it) == it.type = "MessageBlock"
             found   == SelectSeq(t.inv, LAMBDA it : isBlock(it) /\ Exec!HasBlock(Storage, it.hash))
             missing == SelectSeq(t.inv, LAMBDA it : isBlock(it) /\ ~Exec!HasBlock(Storage, it.hash))
         IN  [i \in DOMAIN found |-> Exec!Out("Block", <<found[i].hash>>, 0)]
             \o (IF missing = <<>> THEN <<>>
                 ELSE <<Exec!Out("NotFound", Exec!InvHashes(missing), 0)>>)
    ELSE Exec!ExecuteTask(Storage, t).out

(* Per-peer ordering (spec 5): what a peer receives is always a prefix of *)
(* the answers to its requests, each complete and in execute order.  This *)
(* needs the reverse-and-pop of serve_get_data and the push_front of the  *)
(* continuation to agree while later requests of the same peer arrive.    *)
ResponsesInRequestOrder ==
    \A p \in Peers :
        LET mine == SelectSeq(submitted, LAMBDA t : t.peer = p)
        IN  IsPrefix(sent[p], FlattenSeq([i \in DOMAIN mine |-> ExpectedResponse(mine[i])]))

(* Spec I5: after on_disconnect(p) no task of p is left in the queue.     *)
NoTasksAfterDisconnect ==
    \A p \in Peers \ connected : p \notin DOMAIN tasks_queue

(* Every request of a peer that stays connected is answered in full       *)
(* unless the server is being dropped: the worker never waits on the      *)
(* condition variable while a task is queued (no lost notify).            *)
RequestsServed ==
    \A i \in 1..MaxRequests :
        (i <= Len(submitted)) ~>
            \/ i \in completed
            \/ i <= Len(submitted) /\ submitted[i].peer \notin connected
            \/ is_stopping

(* Dropping the server returns: once is_stopping is set, the worker wakes *)
(* from the condition variable or sees the flag before it waits again,    *)
(* exits, and join() returns, whatever the worker was doing.              *)
ShutdownCompletes ==
    (owner = "stopped") ~> (owner = "joined")


-----------------------------------------------------------------------------
(* Refinement of PeerServer.  What the server owes peer p is what it sent  *)
(* p, then the rest of the answer of the task the worker holds for p      *)
(* (popped or being re-queued), then the answers of p's queued tasks in   *)
(* deque order; the rest of a task's answer is what ServerTaskExecutor    *)
(* emits when the task and its continuations run to the end.              *)

RECURSIVE RunToEnd(_)
RunToEnd(t) ==
    LET r == Exec!ExecuteTask(Storage, t)
    IN  IF r.cont = Exec!NoTask THEN r.out ELSE r.out \o RunToEnd(r.cont)

\* a task without the peer and sequence number, which its answer ignores
Key(t) == [t EXCEPT !.peer = Zero, !.seq = 0]

\* a request and the continuations it becomes
RECURSIVE Continuations(_)
Continuations(t) ==
    LET c == Exec!ExecuteTask(Storage, t).cont
    IN  {t} \cup (IF c = Exec!NoTask THEN {} ELSE Continuations(c))

\* the rest of the answer of every task that can exist, computed once
Rest == [t \in UNION {Continuations(Key(r)) : r \in Requests} |-> RunToEnd(t)]

Held(p) ==
    IF worker \in {"execute", "reinject"} /\ current.peer = p
    THEN Rest[Key(current)] ELSE <<>>

Queued(p) ==
    IF p \in DOMAIN tasks_queue
    THEN FlattenSeq([i \in DOMAIN tasks_queue[p] |-> Rest[Key(tasks_queue[p][i])]])
    ELSE <<>>

Owed == [p \in Peers |-> sent[p] \o Held(p) \o Queued(p)]

Abstract == INSTANCE PeerServer WITH owed <- Owed, Answer <- ExpectedResponse

(* The server implements PeerServer: every step of a producer, the worker *)
(* or Drop either leaves each peer's owed and sent messages alone, adds a *)
(* request's complete answer behind what is owed, sends the next owed     *)
(* message, or is the peer's one disconnect and cancels only unsent       *)
(* messages; no other step may drop an answer owed to a connected peer.  This ties   *)
(* the reverse-and-pop getdata continuation, its push_front re-queue, the *)
(* round-robin pops and remove_peer_tasks to one per-peer FIFO promise.   *)
PeerServerSpec == Abstract!Spec
=============================================================================
