----------------------- MODULE MCServerTaskExecutor -----------------------
(***************************************************************************)
(* locate_best_common_block checked against a reference definition, over  *)
(* every storage snapshot of a small block tree                           *)
(*     G - A1 - A2 - A3                                                    *)
(*      \- B1 - B2                                                         *)
(* (any parent-closed set of stored blocks, any stored block as canonical *)
(* tip) and every locator of up to two hashes, Zero and unknown blocks    *)
(* included, with every hash_stop; and the getblocks / getheaders answer *)
(* built on it checked against the response window of spec 4; and the  *)
(* unit tests of synchronization_server.rs replayed against the model.  *)
(***************************************************************************)
EXTENDS ServerTaskExecutor, FiniteSets, Relation

VARIABLES st, locator, stop

vars == <<st, locator, stop>>

MCBlocks == {"G", "A1", "A2", "A3", "B1", "B2"}
MCParent == ("G" :> "0") @@ ("A1" :> "G") @@ ("A2" :> "A1") @@ ("A3" :> "A2")
            @@ ("B1" :> "G") @@ ("B2" :> "B1")
MCZero == "0"

RECURSIVE PathTo(_)
PathTo(b) == IF b = "G" THEN <<b>> ELSE Append(PathTo(Parent[b]), b)

\* the storage states the database can be in: parent-closed, with genesis
Snapshots ==
    { [stored |-> s, canon |-> PathTo(t)] :
        s \in {S \in SUBSET Blocks : "G" \in S /\ \A b \in S \ {"G"} : Parent[b] \in S},
        t \in Blocks }
Snapshot == {x \in Snapshots : ToSet(x.canon) \subseteq x.stored}

Locators == {<<>>} \cup {<<h>> : h \in Hashes} \cup (Hashes \X Hashes)

-----------------------------------------------------------------------------
(* Reference (spec I6): scan locator ++ [hash_stop] in order; the first   *)
(* entry with an ancestor-or-self on the canonical chain, reached through *)
(* stored headers only, gives the height of its highest such ancestor.    *)

ParentRel == [x, y \in Hashes |-> x \in Blocks /\ Parent[x] = y]

StrictAncestor == TransitiveClosure(ParentRel, Hashes)

Reachable(s, h) ==
    {h} \cup {a \in Hashes :
                /\ StrictAncestor[h, a]
                /\ \A x \in Hashes :
                     ((x = h \/ StrictAncestor[h, x]) /\ StrictAncestor[x, a])
                        => x \in s.stored}

LocateReference(s, hstop, loc) ==
    LET cands     == Append(loc, hstop)
        common(i) == Reachable(s, cands[i]) \cap ToSet(s.canon)
        hits      == {i \in DOMAIN cands : common(i) # {}}
    IN  IF hits = {} THEN NoHeight
        ELSE Max({BlockNumber(s, a) : a \in common(Min(hits))})

(* Reference (spec 4, GetBlocks and GetHeaders): the canonical hashes    *)
(* strictly above height h, at most max of them, ending before hash_stop *)
(* and at the chain's end: the longest such prefix of the chain above h. *)
RefWindow(s, h, max, hstop) ==
    LET above == [i \in 1..(Len(s.canon) - 1 - h) |-> s.canon[h + 1 + i]]
        ok    == {p \in {SubSeq(above, 1, k) : k \in 0..Len(above)} :
                    Len(p) <= max /\ hstop \notin ToSet(p)}
    IN  CHOOSE p \in ok : \A q \in ok : Len(q) <= Len(p)

\* what a peer must receive for the request: misbehaving, an inventory
\* (none when empty) or the headers, tagged with the request id
ServeReference(s, t) ==
    LET h == LocateReference(s, t.stop, t.locator)
        w == RefWindow(s, h, IF t.kind = "GetBlocks" THEN GetBlocksMax ELSE GetHeadersMax, t.stop)
    IN  CASE h = NoHeight        -> <<Out("Misbehaving", <<>>, 0)>>
          [] t.kind = "GetHeaders" -> <<Out("Headers", w, t.rid)>>
          [] w = <<>>            -> <<>>
          [] OTHER               -> <<Out("Inventory", w, 0)>>

-----------------------------------------------------------------------------
(* The unit tests of synchronization_server.rs, each a storage, a task    *)
(* and the tasks the DummyTaskExecutor must have received.  The storage   *)
(* is test_data's genesis G, with block_h1 (A1) inserted and canonized    *)
(* when the test does; H256::default() is Zero.                           *)

\* create_synchronization_server: the test chain holds genesis only
TestGenesisOnly == [stored |-> {"G"}, canon |-> <<"G">>]

\* storage.insert(block_h1) and storage.canonize(block_h1)
TestWithH1 == [stored |-> {"G", "A1"}, canon |-> <<"G", "A1">>]

\* the worker running a task and every continuation it returns to the end
RECURSIVE Served(_, _)
Served(s, t) ==
    LET r == ExecuteTask(s, t)
    IN  IF r.cont = NoTask THEN r.out ELSE r.out \o Served(s, r.cont)

Case(s, t, expect) == [storage |-> s, task |-> t, expect |-> expect]

MB(h) == [type |-> "MessageBlock", hash |-> h]

\* server_getdata_responds_notfound_when_block_not_found
TestGetDataNotFound ==
    Case(TestGenesisOnly, Task("GetData", "p", <<MB(MCZero)>>, <<>>, MCZero, 0),
         <<Out("NotFound", <<MCZero>>, 0)>>)

\* server_getdata_responds_block_when_block_is_found
TestGetDataFound ==
    Case(TestGenesisOnly, Task("GetData", "p", <<MB("G")>>, <<>>, MCZero, 0),
         <<Out("Block", <<"G">>, 0)>>)

\* server_getblocks_do_not_responds_inventory_when_synchronized
TestGetBlocksSynchronized ==
    Case(TestGenesisOnly, Task("GetBlocks", "p", <<>>, <<"G">>, MCZero, 0), <<>>)

\* server_getblocks_responds_inventory_when_have_unknown_blocks
TestGetBlocksUnknown ==
    Case(TestWithH1, Task("GetBlocks", "p", <<>>, <<"G">>, MCZero, 0),
         <<Out("Inventory", <<"A1">>, 0)>>)

\* server_getheaders_do_not_responds_headers_when_synchronized
TestGetHeadersSynchronized ==
    Case(TestGenesisOnly, Task("GetHeaders", "p", <<>>, <<"G">>, MCZero, 6),
         <<Out("Headers", <<>>, 6)>>)

\* server_getheaders_responds_headers_when_have_unknown_blocks
TestGetHeadersUnknown ==
    Case(TestWithH1, Task("GetHeaders", "p", <<>>, <<"G">>, MCZero, 0),
         <<Out("Headers", <<"A1">>, 0)>>)

\* server_mempool_do_not_responds_inventory_when_empty_memory_pool
TestMempool ==
    Case(TestGenesisOnly, Task("Mempool", "p", <<>>, <<>>, MCZero, 0), <<>>)

\* server_responds_with_nonempty_inventory_when_getdata_stop_hash_filled
TestGetBlocksStopHash ==
    Case(TestWithH1, Task("GetBlocks", "p", <<>>, <<>>, "G", 0),
         <<Out("Inventory", <<"A1">>, 0)>>)

\* server_responds_with_nonempty_headers_when_getdata_stop_hash_filled
TestGetHeadersStopHash ==
    Case(TestWithH1, Task("GetHeaders", "p", <<>>, <<>>, "G", 6),
         <<Out("Headers", <<"A1">>, 6)>>)

UnitTests ==
    { TestGetDataNotFound, TestGetDataFound, TestGetBlocksSynchronized,
      TestGetBlocksUnknown, TestGetHeadersSynchronized, TestGetHeadersUnknown,
      TestMempool, TestGetBlocksStopHash, TestGetHeadersStopHash }

-----------------------------------------------------------------------------

Init ==
    /\ st \in Snapshot
    /\ locator \in Locators
    /\ stop \in Hashes

NewSnapshot == /\ st' \in Snapshot /\ UNCHANGED <<locator, stop>>
NewLocator  == /\ locator' \in Locators /\ UNCHANGED <<st, stop>>
NewStop     == /\ stop' \in Hashes /\ UNCHANGED <<st, locator>>

Next == NewSnapshot \/ NewLocator \/ NewStop

Spec == Init /\ [][Next]_vars

(* locate_best_common_block returns what the reference says, for every    *)
(* storage state and request: the stop hash is scanned after the locator, *)
(* a side-branch hash resolves to its fork point, an unknown hash to      *)
(* nothing.                                                               *)
LocateMatchesReference ==
    LocateBestCommonBlock(st, stop, locator) = LocateReference(st, stop, locator)

(* serve_get_blocks and serve_get_headers answer what the reference says: *)
(* the window starts right above the common block, stops before hash_stop *)
(* and at the first missing height, and holds at most the constant's     *)
(* number of hashes; an empty getblocks answer is not sent.              *)
ServeMatchesReference ==
    \A kind \in {"GetBlocks", "GetHeaders"} :
        LET t == Task(kind, "p", <<>>, locator, stop, 7)
        IN  ExecuteTask(st, t).out = ServeReference(st, t)

(* The model answers every unit test of synchronization_server.rs as the  *)
(* test asserts: the tasks the executor receives, in order, including a   *)
(* notfound for an unknown getdata item, no inventory when synchronized,  *)
(* an empty headers message, and hash_stop used as the locator's last     *)
(* entry.                                                                 *)
AgreesWithUnitTests ==
    \A c \in UnitTests : Served(c.storage, c.task) = c.expect
=============================================================================
