------------------------------ MODULE SyncNode ------------------------------
(***************************************************************************)
(* The block writer and the peer request server of one node, sharing one  *)
(* storage.  BlocksWriter commits blocks and reorganises the canonical    *)
(* chain; meanwhile the server's worker answers a getblocks or getheaders *)
(* with separate BlockProvider calls: locate_best_common_block, then one  *)
(* storage.block_hash(height) per height of the response window (and, for *)
(* getheaders, storage.block_header of that hash).  Each call sees the    *)
(* storage of its own moment, so the writer's steps interleave between    *)
(* them.                                                                  *)
(*                                                                         *)
(* locate_best_common_block is split at its reads too: one step per       *)
(* candidate's block_number, one per round of the walk back.  block_header *)
(* never misses for a hash block_hash returned, since storage never       *)
(* deletes a block, so it is read in the same step as block_hash.         *)
(***************************************************************************)
EXTENDS Integers, Sequences, SequencesExt, FiniteSets

CONSTANTS
    Blocks, Parent, Genesis, Work, Invalid, MaxOrphans,  \* as in BlocksWriter
    Zero, GetBlocksMax, GetHeadersMax,   \* as in ServerTaskExecutor
    Requests,       \* getblocks / getheaders tasks a peer may send
    MaxServed       \* bound on the number of requests served

VARIABLES
    stored, best, orphans, queue, pc, arg, result, appended, accepted,
    spc,            \* the worker: "idle", "locate", "walk" or "collect"
    task,           \* the task being served
    cands,          \* locate: the candidates locator ++ [hash_stop] left
    cursor,         \* locate: the hash whose fork is being walked back
    base,           \* the located common block: its height and hash
    height,         \* the next height the response iterator reads
    inv,            \* the hashes collected so far
    responses,      \* history: every answer sent, with its common block
    known           \* history: the request's candidates stored when it was taken

writer_vars == <<stored, best, orphans, queue, pc, arg, result, appended, accepted>>
server_vars == <<spc, task, cands, cursor, base, height, inv, responses, known>>
vars == <<writer_vars, server_vars>>

W == INSTANCE BlocksWriter

ExecParent == [b \in Blocks |-> IF b = Genesis THEN Zero ELSE Parent[b]]

Exec == INSTANCE ServerTaskExecutor WITH Parent <- ExecParent

-----------------------------------------------------------------------------
(* BlockProvider over the writer's storage: the canonical chain runs from *)
(* genesis to the best block.                                             *)

RECURSIVE CanonTo(_)
CanonTo(b) == IF b = Genesis THEN <<b>> ELSE Append(CanonTo(Parent[b]), b)

Storage == [stored |-> stored, canon |-> CanonTo(best)]

\* storage.block_hash(n) is Some
HasHeight(n) == n + 1 <= Len(Storage.canon)

BlockHash(n) == Storage.canon[n + 1]

-----------------------------------------------------------------------------
(* The worker serving one task: ServerTaskExecutor::serve_get_blocks and  *)
(* serve_get_headers, split at their storage calls.                      *)

\* the worker pops a getblocks or getheaders task
ServeRequest(t) ==
    /\ spc = "idle"
    /\ Len(responses) < MaxServed
    /\ task' = t
    /\ cands' = Append(t.locator, t.stop)
    /\ known' = ToSet(cands') \cap stored
    /\ spc' = "locate"
    /\ UNCHANGED <<cursor, base, height, inv, responses>>

Misbehaving == [kind |-> "Misbehaving", base |-> Zero, hashes |-> <<>>]

\* Some(block_number) of hash h: the window starts at the height above it
Found(n, h) ==
    /\ base' = [height |-> n, hash |-> h]
    /\ height' = n + 1
    /\ inv' = <<>>
    /\ spc' = "collect"
    /\ UNCHANGED <<cands, cursor, responses, known>>

BlockNumber(h) == Exec!BlockNumber(Storage, h)

(* One candidate of locator ++ [hash_stop]: block_number(hash).  A        *)
(* canonical hash is the common block; otherwise its fork is walked.     *)
(* With no candidate left the peer is reported.                          *)
LocateNumber ==
    /\ spc = "locate"
    /\ IF cands = <<>>
       THEN /\ responses' = Append(responses, Misbehaving)
            /\ spc' = "idle"
            /\ UNCHANGED <<base, height, inv, cands, cursor>>
       ELSE IF BlockNumber(Head(cands)) # Exec!NoHeight
       THEN Found(BlockNumber(Head(cands)), Head(cands))
       ELSE /\ cursor' = Head(cands)
            /\ spc' = "walk"
            /\ UNCHANGED <<base, height, inv, cands, responses>>
    /\ UNCHANGED <<task, known>>

\* fault variant of LocateWalk (MisbehavingOnlyIfUnknown): the walk gives
\* up on a candidate whose parent is not canonical instead of going on
LocateWalk_one_round ==
    /\ spc = "walk"
    /\ IF cursor \notin stored \/ BlockNumber(ExecParent[cursor]) = Exec!NoHeight
       THEN /\ cands' = Tail(cands)
            /\ spc' = "locate"
            /\ UNCHANGED <<base, height, inv, cursor, responses>>
       ELSE Found(BlockNumber(ExecParent[cursor]), ExecParent[cursor])
    /\ UNCHANGED <<task, known>>

(* One round of the walk back: block_header(cursor), then block_number of *)
(* its parent.  A missing header moves on to the next candidate.  The two *)
(* reads are one step: storage never deletes a block, so a header present *)
(* at the first read is still present at the second.                     *)
LocateWalk ==
    /\ spc = "walk"
    /\ IF cursor \notin stored
       THEN /\ cands' = Tail(cands)
            /\ spc' = "locate"
            /\ UNCHANGED <<base, height, inv, cursor, responses>>
       ELSE IF BlockNumber(ExecParent[cursor]) # Exec!NoHeight
       THEN Found(BlockNumber(ExecParent[cursor]), ExecParent[cursor])
       ELSE /\ cursor' = ExecParent[cursor]
            /\ UNCHANGED <<spc, base, height, inv, cands, responses>>
    /\ UNCHANGED <<task, known>>

MaxOf(t) == IF t.kind = "GetBlocks" THEN GetBlocksMax ELSE GetHeadersMax

\* the window ends: past the range, a missing height, or hash_stop
WindowEnds ==
    \/ height > base.height + MaxOf(task)
    \/ ~HasHeight(height)
    \/ BlockHash(height) = task.stop

\* the collected response is sent; an empty inventory is not
Send ==
    responses' =
        IF task.kind = "GetBlocks" /\ inv = <<>> THEN responses
        ELSE Append(responses, [kind |-> IF task.kind = "GetBlocks"
                                         THEN "Inventory" ELSE "Headers",
                                base |-> base.hash, hashes |-> inv])

\* one item of the iterator: block_hash(height) and its take_whiles
Collect ==
    /\ spc = "collect"
    /\ IF WindowEnds
       THEN /\ Send
            /\ spc' = "idle"
            /\ UNCHANGED <<height, inv>>
       ELSE /\ inv' = Append(inv, BlockHash(height))
            /\ height' = height + 1
            /\ UNCHANGED <<spc, responses>>
    /\ UNCHANGED <<task, base, cands, cursor, known>>

-----------------------------------------------------------------------------

Init ==
    /\ W!Init
    /\ spc = "idle"
    /\ task = CHOOSE t \in Requests : TRUE
    /\ cands = <<>>
    /\ cursor = Zero
    /\ base = [height |-> 0, hash |-> Genesis]
    /\ height = 0
    /\ inv = <<>>
    /\ responses = <<>>
    /\ known = {}

ServerNext ==
    \/ \E t \in Requests : ServeRequest(t)
    \/ LocateNumber
    \/ LocateWalk
    \/ Collect

Next ==
    \/ W!Next /\ UNCHANGED server_vars
    \/ ServerNext /\ UNCHANGED writer_vars

Spec == Init /\ [][Next]_vars

-----------------------------------------------------------------------------
(* Properties                                                              *)

(* Every getblocks / getheaders answer is a chain segment: its first hash *)
(* is a child of the common block that was located, and each next hash a *)
(* child of the one before, although storage may change between the     *)
(* block_hash calls that produced them (spec 3: callers tolerate a block  *)
(* appearing between two lookups).                                        *)
ResponseIsChain ==
    \A r \in ToSet(responses) :
        r.hashes # <<>> =>
            /\ ExecParent[r.hashes[1]] = r.base
            /\ \A i \in 2..Len(r.hashes) : ExecParent[r.hashes[i]] = r.hashes[i - 1]

(* A peer is reported misbehaving only if none of its locator hashes, nor *)
(* hash_stop, was stored when its request was taken: the walk back of     *)
(* locate_best_common_block reaches the canonical chain from any stored   *)
(* block, even when the writer reorganises between the walk's reads and  *)
(* the candidate and the parents it reads leave or join the chain.       *)
MisbehavingOnlyIfUnknown ==
    [][ (Len(responses') > Len(responses) /\ Last(responses').kind = "Misbehaving")
          => known = {} ]_vars
=============================================================================
