# TLA+ models of rust-randchain-prototype's sync core

These modules model the two stateful components of `src/sync`: the
**peer request server** (`synchronization_server.rs`) and the **block
ingestion pipeline** (`blocks_writer.rs`). Both read storage through the
`BlockProvider` interface (`src/storage/src/block_provider.rs`). TLC checks
them. Each definition is translated from the code. `PROJECT.json` maps
every definition to the lines it models.

## The system and how its parts interact

| part | source | role |
|---|---|---|
| `ServerImpl` + `ServerQueue` | `sync/src/synchronization_server.rs` 27-229 | `execute(task)` and `on_disconnect(peer)` are called by network threads. The tasks sit in per-peer FIFO deques behind one mutex, and the peers are served round-robin. One worker thread waits on a condvar, pops a task and runs it outside the lock. It re-queues a continuation at the front of the peer's deque. `Drop` sets `is_stopping`, notifies the worker and joins it. |
| `ServerTaskExecutor` | same file, 218-396 | Serves getdata one inventory item per dispatch, through a `ReversedGetData` continuation and a final `notfound`. Also serves getblocks, getheaders and mempool. Answers go out as `synchronization_executor::Task`s, and a peer whose locator matches nothing is reported as misbehaving. |
| `BlocksWriter` + sink | `sync/src/blocks_writer.rs` 1-142 | `append_block` handles one block. A stored block is a duplicate and returns Ok. A block whose parent is not stored goes to the orphan pool, bounded by `MAX_ORPHANED_BLOCKS`. Otherwise the block and its pooled descendants are verified one by one. The verifier calls the sink back on the same thread, and the sink commits through `Chain::insert_best_block`. |
| `BlockProvider` | `storage/src/block_provider.rs` | Read interface: `block_number`, `block_hash`, `block_header`, `block`, `contains_block`. |
| type aliases | `sync/src/types.rs` | `RequestId`, `PeerIndex` and the shared references. |
| RPC v1 | `rpc/src/v1/mod.rs` | Module re-exports only. |

The writer changes the storage that the server's executor reads. The two
meet only through storage.

## Modules

| module | models | state and actions |
|---|---|---|
| `ServerTaskExecutor` | `ServerTaskExecutor`, `BlockProvider` reads | No variables. `ExecuteTask(st, t)` returns the emitted messages and the continuation (`Result(out, cont)`), with one operator per `serve_*` function. A storage snapshot `st` is the set of stored hashes plus the canonical chain. `LocateBestCommonBlock` is RECURSIVE, like the code's two loops. |
| `ServerQueue` | `ServerQueue`, `server_worker`, `execute`, `on_disconnect`, `Drop` | Variables `peers_queue`, `tasks_queue`, `is_stopping`, the worker's control point (loop / waiting / woken / execute / reinject / exited), the held task and the dropping thread's control point. Each mutex-held operation is one action. `WorkerExecute` (outside the lock) and `WorkerReinject` are separate actions, so producers interleave between them. `notify_one` wakes only a waiting worker. History variables (`submitted`, `sent`, `completed`, `connected`, `bypass`) exist only to state properties. |
| `BlocksWriter` | `append_block`, the sink, and (from the spec) `OrphanBlocksPool` and `Chain` | Variables: `stored`, `best`, `orphans`, the `verification_queue`, and `pc` (idle or verifying). The decision of `append_block` is one step, split into the `AppendKnown`, `AppendOrphan` and `AppendConnected` actions. Each loop iteration is a `VerifyNext` step, covering verify, the sink commit or error, and `error()`. |
| `PeerServer` | abstract spec | What the server promises each peer, with no queue or worker. `owed[p]` holds every message p is to receive; `Submit` appends a request's whole answer, `Deliver` sends the next owed message, `Cancel` is the peer's one disconnect: it cuts back only unsent messages, and a disconnected peer submits nothing more. |
| `SyncNode` | composition of `BlocksWriter` (by `INSTANCE`) with the worker serving getblocks/getheaders | The writer's actions interleave with the executor split at each storage call. `locate_best_common_block` is one `LocateNumber` step per candidate's `block_number` and one `LocateWalk` step per round of its walk back. `Found` starts the window. One `Collect` step follows per `block_hash(height)` read, ending in `Send`. Storage is the writer's `stored` set with the canonical chain from genesis to `best`. |
| `MCServerTaskExecutor` | check module | Encodes the nine unit tests of `synchronization_server.rs`: each has a storage, a task and the tasks the `DummyTaskExecutor` must receive. It also enumerates every storage snapshot of a tree with two branches, every locator of up to two hashes, and every stop hash. It compares `LocateBestCommonBlock` with a declarative reference built with `Relation!TransitiveClosure`, and the getblocks/getheaders answers with a declarative response window. |
| `MCServerQueue`, `MCBlocksWriter`, `MCSyncNode` | check modules | The block trees, requests and constants for TLC. |

### Refinement

`ServerQueue` defines the mapping `Owed`: for each peer, what it was sent,
then the rest of the answer of the task the worker holds for it (popped, or
a continuation being re-queued), then the answers of its queued tasks in
deque order. The rest of a task's answer is what `ServerTaskExecutor` emits
when the task and its continuations run to the end (`RunToEnd`). `Rest`
tabulates it once for every request and continuation, so TLC does not
re-run the recursion under a prime on every step. `Answer` of the abstract
spec is the independent reference `ExpectedResponse`, so the Submit step
also checks that the executor's answer is the right one.

`connected` maps to the model's own history of open connections, so
`Cancel` matches exactly one `on_disconnect` per peer. No other step may
shorten what is owed to a peer. A `next_task` that dropped a connected
peer's queued tasks, for example, is not an implementation.

The pool and the chain (`sync/src/utils`, `synchronization_chain`) are not
in the repository. The map marks their operators `spec_modelled`, as the spec
(4.2, 4.3) describes them:
- `remove_blocks_for_parent` returns every transitively pooled descendant, in
  any ancestor-first order.
- `insert_best_block` stores the block and moves the tip when the block's
  chain has more work.

## Runs

| run | cfg | expect | what it shows |
|---|---|---|---|
| prs_safety | `MCServerQueue.cfg` | pass (about 860k states) | Two peers, up to 3 `execute` calls drawn from 5 request kinds, with disconnects, worker interleavings and Drop. `QueueConsistent`: the two queues agree, which the `expect()`s in `next_task` and `remove_peer_tasks` rely on. `RoundRobin`: no peer is served twice while another waits. `ResponsesInRequestOrder`: each peer receives a prefix of the concatenated answers to its requests in request order, even when a later request arrives while a getdata continuation is executing. |
| prs_round_robin_3 | `MCServerQueue_3peers.cfg` | pass (about 3.8M states) | `RoundRobin` with three peers and four `execute` calls (getdata and mempool only). A peer that still has tasks after `next_task` goes behind every waiting peer. With two peers, the tail and second place are the same slot. |
| prs_liveness | `MCServerQueue_live.cfg` | pass | `RequestsServed`: every request of a peer that stays connected is completed, unless the server stops, so no wakeup is lost. `ShutdownCompletes`: `Drop`'s join returns. |
| prs_disconnect | `MCServerQueue_disconnect.cfg` | violation | Finding F1, below. |
| locate_reference | `MCServerTaskExecutor.cfg` | pass | `LocateMatchesReference`: `locate_best_common_block` agrees with spec I6's reference (the first locator entry with a canonical ancestor-or-self, at the highest such height). `ServeMatchesReference`: the getblocks and getheaders answers equal the window of spec 4 (the canonical hashes right above the common block, at most the bound, before `hash_stop` and the chain's end; no empty inventory). 16,758 combinations. |
| prs_refinement | `MCServerQueue_refine.cfg` | pass (about 860k states) | `PeerServerSpec`: `ServerQueue` implements `PeerServer`. |
| sync_locate | `MCSyncNode_locate.cfg` | pass | `MisbehavingOnlyIfUnknown`: on the forked tree, the writer may reorganise between any two storage reads of `locate_best_common_block`. Even so, a peer is reported misbehaving only if none of its locator hashes, nor `hash_stop`, was stored when its request was taken. A getblocks from A2 after B2 has won walks back through the side block A1 to genesis. |
| sync_reorg | `MCSyncNode_reorg.cfg` | violation | Finding F4, below. |
| bip_import | `MCBlocksWriter_import.cfg` | pass | `Convergence` (spec R2): appending the blocks of a 7-block tree in any order, with repeats, a reorg and pool overflow, ends with all of them stored. |
| bip_errors | `MCBlocksWriter_errors.cfg` | pass | One block is invalid. No pooled block ever has a stored parent, which would strand it. |
| bip_orphans_dropped | `MCBlocksWriter_dropped.cfg` | violation | Finding F3, below. |
| bip_orphan_bound | `MCBlocksWriter_bound.cfg` | violation | Finding F2, below. |

### Findings

- **F1**, `synchronization_server.rs:121`. The worker re-queues a getdata
  continuation after `on_disconnect` has removed the peer's tasks. The peer
  gets a fresh queue entry and the rest of its inventory is served. This
  contradicts spec I5.
- **F2**, `blocks_writer.rs:78-81`. The orphan is inserted before the size
  check and is kept when `TooManyOrphanBlocks` is returned. The pool holds
  MAX+1 blocks and grows by one per further orphan. This contradicts I2 and §7.
- **F3**, `blocks_writer.rs:93-95`. A verification error drops the rest of the
  drained queue. A sibling orphan that was accepted earlier is then neither
  stored nor pooled. This contradicts §4.3.

- **F4**, `synchronization_server.rs:305` (spec gap). A reorg committed by
  the writer between `locate_best_common_block` and a `block_hash` read
  makes the answer mix branches. TLC: a getheaders from A1 locates height 1;
  B2 is appended and becomes best; `block_hash(2)` returns B2, so the peer
  gets headers `<<B2>>`, which do not extend A1. The spec promises a
  consistent snapshot (section 3) but also says multi-call reads are not
  one, and only covers a block appearing between lookups.

Also noted: `serve_get_headers` excludes `hash_stop` from the answer, which
agrees with the spec but differs from Bitcoin Core.

## Bounds and why they are enough

- **Server.** 2 peers are the least that shows round-robin and one peer's
  disconnect racing another's work. 3 requests allow a getdata continuation
  with a later request of the same peer behind it.
  - The requests are a getdata of four items (two found, one missing, one
    skipped), so every branch of `serve_reversed_get_data` runs and the
    order of the found blocks shows.
  - A getblocks hits a side branch, which exercises the walk back.
  - A getheaders has an empty locator and a stop hash.
  - A getblocks has a locator with no match, which makes the peer misbehaving.
  - A mempool request completes the set.
  - `GetBlocksMax = GetHeadersMax = 2`, so the response window is cut by the
    bound as well as by the chain end.
- **Three peers.** `Peers` are the model values q1, q2 and q3 under
  `SYMMETRY`. This is sound because no request, action or checked property
  names a peer, and the run checks only safety. Four requests are the least
  that lets a peer hold a continuation plus a later task while both other
  peers wait. To keep the run short, the request kinds are cut to getdata
  and mempool.
- **Executor reference.** The tree G–A1–A2–A3 plus G–B1–B2, with
  `GetBlocksMax = 1` and `GetHeadersMax = 2`, so each window is cut by the
  bound with the chain going on, by the chain end, and by `hash_stop`.
- **Composition.** The fork G–A1–A2 / G–B1–B2, with B2 heavier, so
  appending B2 reorganises. There are three requests: a getblocks from
  genesis, a getheaders from A1 and a getblocks from A2. `MaxServed = 2`
  and the response bound is 2. A2's walk back crosses the side block A1
  only after the reorg.
- **Writer.** The tree G–A1–A2 plus G–B1 with children B2 and C2, and D2
  under B2, has two branches. The B-branch carries more work, so there is a
  reorg. B1 has two children, so the drained queue holds siblings. B2 and D2
  can both wait in the pool, so B1's drain must be transitive. `MaxOrphans = 2`
  is exceeded by the four blocks that can wait for B1 and A1.

## Fairness

`WF` applies to the worker's actions and to `Drop`'s notify and join. These
are OS threads that keep running once started. Producers (`execute`,
`on_disconnect`) and the decision to drop the server are the environment's,
so they carry no fairness. `BlocksWriter` is checked only for safety. It is
called synchronously and does not loop on its own.

## Not modelled

- Transport and outbound `TaskExecutor`: modelled as a per-peer history of
  messages.
- The verifier: modelled as the `Invalid` set.
- `Peers`, the storage engine and the memory pool.
- RPC and the type aliases.
- Block contents: a block is its hash.
- Real `RequestId` widths: the ids are echoed only.
- In `LocateWalk`, `block_header(cursor)` and the parent's `block_number` are one
  step. Storage never deletes a block, so the header is still present at the
  second read.
- `ResponseIsChain` has no passing run. In a tree without side branches it
  cannot fail. In any tree with one, it fails (F4).
- The unit tests of `blocks_writer.rs`: they build real blocks with the
  verifier on. `bip_import` and `bip_errors` cover their scenarios: in-order
  import, a reorg, a rejected block, and pool overflow (F2 is the
  `TooManyOrphanBlocks` case of `blocks_writer_verification_error`).
- `BlockHeight` overflow in `block_height + 1 + MAX`: heights stay far below
  `u32::MAX` in any reachable storage.

## Further work

- `SyncNode` with the full `ServerQueue` worker, several peers and requests
  instead of one request at a time.
