---------------------------- MODULE BlocksWriter ----------------------------
(***************************************************************************)
(* BlocksWriter of sync/src/blocks_writer.rs: the synchronous block        *)
(* importer.  append_block deduplicates, parks a block whose parent is not *)
(* stored in the orphan pool, or verifies the block and the orphans that   *)
(* descend from it one at a time; the verifier calls the sink back on the  *)
(* same thread, and the sink commits through Chain::insert_best_block.     *)
(*                                                                         *)
(* One call of append_block is several steps: the decision step, then one *)
(* step per iteration of the verification loop, so that another component *)
(* reading storage can interleave with an import in progress.              *)
(*                                                                         *)
(* OrphanBlocksPool (sync utils) and Chain (synchronization_chain) are not *)
(* in this repository's sources: their operators are modelled from the     *)
(* spec (4.2, 4.3).                                                        *)
(***************************************************************************)
EXTENDS Integers, Sequences, SequencesExt, FiniteSets

CONSTANTS
    Blocks,         \* hashes of the blocks an importer may append
    Parent,         \* Parent[b]: header.raw.previous_header_hash
    Genesis,        \* the block the storage is initialised with
    Work,           \* Work[b]: the work a block adds to its chain
    Invalid,        \* blocks the verifier rejects
    MaxOrphans      \* MAX_ORPHANED_BLOCKS (1024 in the code)

ASSUME /\ Genesis \in Blocks
       /\ Parent \in [Blocks \ {Genesis} -> Blocks]
       /\ Work \in [Blocks -> Nat \ {0}]
       /\ Invalid \subseteq Blocks \ {Genesis}

VARIABLES
    stored,         \* blocks in storage (storage.contains_block)
    best,           \* the canonical tip (storage.best_block)
    orphans,        \* orphaned_blocks_pool
    queue,          \* verification_queue of the running append_block
    pc,             \* "idle", or "verifying" inside append_block's loop
    \* history, not in the code: kept to state the properties
    arg,            \* the block of the last append_block call
    result,         \* what the last completed append_block returned
    appended,       \* every block append_block was called with
    accepted        \* every block append_block returned Ok for

vars == <<stored, best, orphans, queue, pc, arg, result, appended, accepted>>

NoError == "None"
Results == {"Ok", "TooManyOrphanBlocks", "Verification", "Database", NoError}

-----------------------------------------------------------------------------
(* The block tree.                                                         *)

RECURSIVE Ancestors(_)
Ancestors(b) == IF b = Genesis THEN {} ELSE {Parent[b]} \cup Ancestors(Parent[b])

RECURSIVE ChainWork(_)
ChainWork(b) == IF b = Genesis THEN Work[b] ELSE Work[b] + ChainWork(Parent[b])

\* blocks that can never be valid: rejected, or descending from a rejected block
Doomed == {b \in Blocks : (Ancestors(b) \cup {b}) \cap Invalid # {}}

-----------------------------------------------------------------------------
(* OrphanBlocksPool::remove_blocks_for_parent (spec 4.2): every pooled    *)
(* block descending from h through pooled blocks, in an order where a     *)
(* block follows its pooled ancestors; the order of siblings is the       *)
(* pool's (HashMap) and is left open.                                     *)
\* fault variant of PoolDescendants (Convergence): direct children only
PoolChildren(pool, hs) == {o \in pool : Parent[o] \in hs}

RECURSIVE PoolDescendants(_, _)
PoolDescendants(pool, hs) ==
    LET children == {o \in pool : Parent[o] \in hs}
    IN  IF children = {} THEN {} ELSE children \cup PoolDescendants(pool \ children, children)

AncestorFirstOrders(S) ==
    {s \in SetToSeqs(S) :
        \A i, j \in DOMAIN s : i < j => s[j] \notin Ancestors(s[i])}

\* fault variant of insert_best_block (TypeOK): a new tip is canonized but
\* not written
insert_best_block_canonize_only(b) ==
    /\ stored' = IF ChainWork(b) > ChainWork(best) THEN stored ELSE stored \cup {b}
    /\ best' = IF ChainWork(b) > ChainWork(best) THEN b ELSE best

(* Chain::insert_best_block (spec 4.3): the block is stored and becomes  *)
(* the canonical tip when its chain carries more work than the current    *)
(* one (extending the tip, or a side branch overtaking it: a reorg).      *)
insert_best_block(b) ==
    /\ stored' = stored \cup {b}
    /\ best' = IF ChainWork(b) > ChainWork(best) THEN b ELSE best

(* The error SyncVerifier::verify_block(b) leaves in the sink:            *)
(* on_block_verification_error for a rejected block, or the Database      *)
(* error of on_block_verification_success when insert_best_block finds    *)
(* no stored parent; None when the block is committed.                    *)
SinkError(b) ==
    CASE b \in Invalid          -> "Verification"
      [] Parent[b] \notin stored -> "Database"
      [] OTHER                   -> NoError

-----------------------------------------------------------------------------
(* BlocksWriter::append_block                                              *)

Return(r) ==
    /\ pc' = "idle"
    /\ result' = r
    /\ accepted' = IF r = "Ok" THEN accepted \cup {arg'} ELSE accepted

\* storage.contains_block(block.hash): nothing to do
AppendKnown(b) ==
    /\ pc = "idle"
    /\ b \in stored
    /\ arg' = b
    /\ appended' = appended \cup {b}
    /\ Return("Ok")
    /\ UNCHANGED <<stored, best, orphans, queue>>

(* the parent is not stored: insert into the pool, then fail if the pool  *)
(* is over MAX_ORPHANED_BLOCKS (the block stays in the pool)             *)
AppendOrphan(b) ==
    /\ pc = "idle"
    /\ b \notin stored
    /\ Parent[b] \notin stored
    /\ orphans' = orphans \cup {b}
    /\ arg' = b
    /\ appended' = appended \cup {b}
    /\ Return(IF Cardinality(orphans') > MaxOrphans THEN "TooManyOrphanBlocks" ELSE "Ok")
    /\ UNCHANGED <<stored, best, queue>>

\* fault variant of AppendConnected (NoOrphanWithStoredParent): the drained
\* blocks are queued but left in the pool
AppendConnected_keeps_pool(b) ==
    /\ pc = "idle"
    /\ b \notin stored
    /\ Parent[b] \in stored
    /\ LET drained == PoolDescendants(orphans, {b})
       IN  \E order \in AncestorFirstOrders(drained) : queue' = <<b>> \o order
    /\ pc' = "verifying"
    /\ arg' = b
    /\ appended' = appended \cup {b}
    /\ UNCHANGED <<stored, best, orphans, result, accepted>>

(* the parent is stored: the verification queue is the block followed by  *)
(* the pooled blocks that descend from it, which leave the pool           *)
AppendConnected(b) ==
    /\ pc = "idle"
    /\ b \notin stored
    /\ Parent[b] \in stored
    /\ LET drained == PoolDescendants(orphans, {b})
       IN  /\ \E order \in AncestorFirstOrders(drained) : queue' = <<b>> \o order
           /\ orphans' = orphans \ drained
    /\ pc' = "verifying"
    /\ arg' = b
    /\ appended' = appended \cup {b}
    /\ UNCHANGED <<stored, best, result, accepted>>

(* One iteration of the loop: pop, verify (the sink runs on this thread  *)
(* and sets err), take err with sink.lock().error().  An error returns    *)
(* it and drops the rest of the queue; an empty queue returns Ok.         *)
VerifyNext ==
    /\ pc = "verifying"
    /\ UNCHANGED <<orphans, arg, appended>>
    /\ LET e == SinkError(Head(queue))
       IN  /\ IF e = NoError THEN insert_best_block(Head(queue))
                             ELSE UNCHANGED <<stored, best>>
           /\ IF e # NoError
              THEN /\ Return(e)
                   /\ queue' = <<>>
              ELSE IF Tail(queue) = <<>>
              THEN /\ Return("Ok")
                   /\ queue' = <<>>
              ELSE /\ queue' = Tail(queue)
                   /\ UNCHANGED <<pc, result, accepted>>

-----------------------------------------------------------------------------

Init ==
    /\ stored = {Genesis}
    /\ best = Genesis
    /\ orphans = {}
    /\ queue = <<>>
    /\ pc = "idle"
    /\ arg = Genesis
    /\ result = NoError
    /\ appended = {}
    /\ accepted = {}

Next ==
    \/ \E b \in Blocks : AppendKnown(b) \/ AppendOrphan(b) \/ AppendConnected(b)
    \/ VerifyNext

Spec == Init /\ [][Next]_vars

-----------------------------------------------------------------------------
(* Properties                                                              *)

TypeOK ==
    /\ stored \subseteq Blocks /\ best \in stored
    /\ orphans \subseteq Blocks
    /\ queue \in Seq(Blocks)
    /\ pc \in {"idle", "verifying"}
    /\ result \in Results
    /\ accepted \subseteq appended /\ appended \subseteq Blocks

(* A pooled block never has a stored parent: nothing would ever drain it. *)
(* Holds only if every block that reaches storage takes all its pooled    *)
(* descendants out of the pool (remove_blocks_for_parent is transitive    *)
(* and its result leaves the pool), across any sequence of calls.         *)
NoOrphanWithStoredParent ==
    \A o \in orphans : Parent[o] \notin stored

(* Spec R2: once every block that can be valid has been appended, in any  *)
(* order, each of them is in storage, however many arrived before their   *)
(* parents and whether or not the pool overflowed.                        *)
Convergence ==
    (pc = "idle" /\ Blocks \ (Doomed \cup {Genesis}) \subseteq appended)
        => Blocks \ Doomed \subseteq stored

(* Spec I1 and 4.3 ("remaining orphans stay in the pool"): a block that   *)
(* append_block accepted with Ok, and that no rejected block precedes,   *)
(* is in storage, still in the orphan pool, or in the verification queue *)
(* of the call in progress.                                               *)
AcceptedBlocksKept ==
    \A b \in accepted \ Doomed : b \in stored \cup orphans \cup ToSet(queue)

(* Spec I2: the orphan pool holds at most MAX_ORPHANED_BLOCKS blocks.     *)
OrphanPoolBounded ==
    Cardinality(orphans) <= MaxOrphans

=============================================================================
