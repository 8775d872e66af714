------------------------- MODULE ServerTaskExecutor -------------------------
(***************************************************************************)
(* ServerTaskExecutor of sync/src/synchronization_server.rs: serving one   *)
(* ServerTask against a storage snapshot.  Every operator is a pure        *)
(* function of the task and of the storage it reads, so that the queue     *)
(* model (ServerQueue) can call it with a constant storage and a composed  *)
(* model can call it with a storage that the block writer changes.         *)
(*                                                                         *)
(* A storage snapshot st is a record                                       *)
(*   st.stored : the hashes whose header and body are in the database      *)
(*   st.canon  : the canonical chain, st.canon[n+1] is the hash at height n *)
(* Block bodies are identified by their hash.                              *)
(***************************************************************************)
EXTENDS Integers, Sequences, SequencesExt

CONSTANTS
    Blocks,         \* hashes of the blocks that may exist (a block tree)
    Parent,         \* Parent[b]: header.raw.previous_header_hash of block b
    Zero,           \* H256::default(): the parent of genesis, never a block
    GetBlocksMax,   \* types::GETBLOCKS_MAX_RESPONSE_HASHES (500 in the code)
    GetHeadersMax   \* types::GETHEADERS_MAX_RESPONSE_HEADERS (2000 in the code)

ASSUME Zero \notin Blocks /\ Parent \in [Blocks -> Blocks \cup {Zero}]

Hashes == Blocks \cup {Zero}

\* Option<BlockHeight>::None
NoHeight == -1

(* common::InventoryType: only MessageBlock is served, Error is skipped.   *)
InventoryTypes == {"MessageBlock", "Error"}

(* A ServerTask.  One record shape for every variant; the fields a variant *)
(* does not carry keep their empty value.  seq is not in the code: the     *)
(* queue model numbers every executed request to state its properties.    *)
Task(kind, p, inv, locator, stop, rid) ==
    [kind |-> kind, peer |-> p, inv |-> inv, notfound |-> <<>>,
     locator |-> locator, stop |-> stop, rid |-> rid, seq |-> 0]

NoTask == Task("None", Zero, <<>>, <<>>, Zero, 0)

(* An outbound synchronization_executor::Task, or a Peers::misbehaving    *)
(* report, addressed to the task's peer.                                  *)
Out(type, hashes, rid) == [type |-> type, hashes |-> hashes, rid |-> rid]

InvHashes(inv) == [i \in DOMAIN inv |-> inv[i].hash]

-----------------------------------------------------------------------------
(* BlockProvider reads (storage/src/block_provider.rs).                    *)

\* block_number(hash): height on the canonical chain, or None
BlockNumber(st, h) ==
    IF \E n \in DOMAIN st.canon : st.canon[n] = h
    THEN (CHOOSE n \in DOMAIN st.canon : st.canon[n] = h) - 1
    ELSE NoHeight

\* block_header(hash) / block(hash) is Some
HasBlock(st, h) == h \in st.stored

(* locate_best_common_block: scan locator ++ [hash_stop]; a canonical     *)
(* hash gives its height; otherwise walk back through the stored headers  *)
(* until a parent is canonical (its height) or a header is missing.       *)
RECURSIVE WalkBack(_, _)
WalkBack(st, h) ==
    IF ~HasBlock(st, h) THEN NoHeight
    ELSE IF BlockNumber(st, Parent[h]) # NoHeight THEN BlockNumber(st, Parent[h])
    ELSE WalkBack(st, Parent[h])

RECURSIVE ScanLocator(_, _)
ScanLocator(st, cands) ==
    IF cands = <<>> THEN NoHeight
    ELSE LET h == Head(cands)
             found == IF BlockNumber(st, h) # NoHeight THEN BlockNumber(st, h)
                      ELSE WalkBack(st, h)
         IN IF found # NoHeight THEN found ELSE ScanLocator(st, Tail(cands))

\* fault variant of LocateBestCommonBlock (LocateMatchesReference):
\* hash_stop is not scanned
LocateInLocatorOnly(st, stop, locator) == ScanLocator(st, locator)

LocateBestCommonBlock(st, stop, locator) == ScanLocator(st, Append(locator, stop))

\* fault variant of SuccessorHashes (ServeMatchesReference): the range end
\* is inclusive, h+1 ..= h+1+max
SuccessorHashes_inclusive(st, h, max, stop) ==
    LET upto  == IF h + 2 + max < Len(st.canon) THEN h + 2 + max ELSE Len(st.canon)
        range == SubSeq(st.canon, h + 2, upto)
        at    == SelectInSeq(range, LAMBDA x : x = stop)
    IN  IF at = 0 THEN range ELSE SubSeq(range, 1, at - 1)

(* The canonical hashes at heights h+1 .. h+max, cut before the first     *)
(* missing height and before hash_stop (the take_while chain).            *)
SuccessorHashes(st, h, max, stop) ==
    LET upto  == IF h + 1 + max < Len(st.canon) THEN h + 1 + max ELSE Len(st.canon)
        range == SubSeq(st.canon, h + 2, upto)
        at    == SelectInSeq(range, LAMBDA x : x = stop)
    IN  IF at = 0 THEN range ELSE SubSeq(range, 1, at - 1)

-----------------------------------------------------------------------------
(* The serve_* handlers: the messages they emit and the continuation.     *)

Result(out, cont) == [out |-> out, cont |-> cont]

\* fault variant of serve_get_data (PeerServerSpec): the inventory is not
\* reversed before the continuation pops items from its back
serve_get_data_unreversed(t) ==
    Result(<<>>, [t EXCEPT !.kind = "ReversedGetData", !.notfound = <<>>])

serve_get_data(t) ==
    Result(<<>>, [t EXCEPT !.kind = "ReversedGetData", !.inv = Reverse(t.inv),
                           !.notfound = <<>>])

\* fault variant of serve_reversed_get_data (AgreesWithUnitTests): the
\* collected notfound items are never sent
serve_reversed_get_data_no_notfound(st, t) ==
    IF t.inv = <<>>
    THEN Result(<<>>, NoTask)
    ELSE LET item == Last(t.inv)
             rest == [t EXCEPT !.inv = Front(t.inv)]
         IN  CASE item.type = "MessageBlock" /\ HasBlock(st, item.hash) ->
                    Result(<<Out("Block", <<item.hash>>, 0)>>, rest)
               [] item.type = "MessageBlock" ->
                    Result(<<>>, [rest EXCEPT !.notfound = Append(@, item)])
               [] OTHER -> Result(<<>>, rest)

serve_reversed_get_data(st, t) ==
    IF t.inv = <<>>
    THEN Result(IF t.notfound # <<>>
                THEN <<Out("NotFound", InvHashes(t.notfound), 0)>> ELSE <<>>,
                NoTask)
    ELSE LET item == Last(t.inv)
             rest == [t EXCEPT !.inv = Front(t.inv)]
         IN  CASE item.type = "MessageBlock" /\ HasBlock(st, item.hash) ->
                    Result(<<Out("Block", <<item.hash>>, 0)>>, rest)
               [] item.type = "MessageBlock" ->
                    Result(<<>>, [rest EXCEPT !.notfound = Append(@, item)])
               [] OTHER -> Result(<<>>, rest)

serve_get_blocks(st, t) ==
    LET h   == LocateBestCommonBlock(st, t.stop, t.locator)
        inv == SuccessorHashes(st, h, GetBlocksMax, t.stop)
    IN  Result(CASE h = NoHeight -> <<Out("Misbehaving", <<>>, 0)>>
                 [] inv # <<>>   -> <<Out("Inventory", inv, 0)>>
                 [] OTHER        -> <<>>,
               NoTask)

\* every canonical hash has its header, so the header take_while never cuts
serve_get_headers(st, t) ==
    LET h == LocateBestCommonBlock(st, t.stop, t.locator)
    IN  Result(IF h = NoHeight THEN <<Out("Misbehaving", <<>>, 0)>>
               ELSE <<Out("Headers", SuccessorHashes(st, h, GetHeadersMax, t.stop), t.rid)>>,
               NoTask)

serve_mempool(t) == Result(<<>>, NoTask)

\* ServerTaskExecutor::execute
ExecuteTask(st, t) ==
    CASE t.kind = "GetData"         -> serve_get_data(t)
      [] t.kind = "ReversedGetData" -> serve_reversed_get_data(st, t)
      [] t.kind = "GetBlocks"       -> serve_get_blocks(st, t)
      [] t.kind = "GetHeaders"      -> serve_get_headers(st, t)
      [] t.kind = "Mempool"         -> serve_mempool(t)

=============================================================================
