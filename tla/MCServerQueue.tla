--------------------------- MODULE MCServerQueue ---------------------------
(***************************************************************************)
(* Model of ServerQueue for TLC: two or three peers, a block tree with a canonical  *)
(* branch G-A1-A2, a stored side block B1 and an unknown block C1, and a   *)
(* request of every ServerTask kind that reaches each serve_* outcome.     *)
(***************************************************************************)
EXTENDS ServerQueue

MCBlocks == {"G", "A1", "A2", "B1", "C1"}
MCParent == [b \in MCBlocks |->
                CASE b = "G" -> "0"
                  [] b \in {"A1", "B1"} -> "G"
                  [] b = "A2" -> "A1"
                  [] b = "C1" -> "B1"]
MCZero == "0"

\* C1 is not stored; B1 is stored on a side branch
MCStorage == [stored |-> {"G", "A1", "A2", "B1"}, canon |-> <<"G", "A1", "A2">>]

Item(type, h) == [type |-> type, hash |-> h]

\* getdata with two found blocks (their order shows), a missing block and
\* an unserved Error item;
\* getblocks whose locator is on a side branch; getheaders with only a
\* stop hash; getblocks with nothing known (misbehaving); mempool
MCRequests ==
    { Exec!Task("GetData", MCZero,
                <<Item("MessageBlock", "A1"), Item("MessageBlock", "C1"),
                  Item("Error", "B1"), Item("MessageBlock", "A2")>>, <<>>, MCZero, 0),
      Exec!Task("GetBlocks", MCZero, <<>>, <<"B1">>, MCZero, 0),
      Exec!Task("GetHeaders", MCZero, <<>>, <<>>, "A1", 7),
      Exec!Task("GetBlocks", MCZero, <<>>, <<"C1">>, MCZero, 0),
      Exec!Task("Mempool", MCZero, <<>>, <<>>, MCZero, 0) }

\* for three peers and four execute calls: the getdata (its continuations
\* reach next_task while the peer has a later task queued) and mempool
MCRequests3 ==
    { Exec!Task("GetData", MCZero,
                <<Item("MessageBlock", "A1"), Item("MessageBlock", "C1"),
                  Item("Error", "B1"), Item("MessageBlock", "A2")>>, <<>>, MCZero, 0),
      Exec!Task("Mempool", MCZero, <<>>, <<>>, MCZero, 0) }

MCPeers == {"p1", "p2"}

\* with three peers given as model values, which are interchangeable: no
\* request or property names a peer
PeerSymmetry == Permutations(Peers)
=============================================================================
