---------------------------- MODULE MCSyncNode ----------------------------
(***************************************************************************)
(* Model of SyncNode for TLC, over a forked block tree                    *)
(*     G - A1 - A2             B2 carries work 2, so appending it          *)
(*      \- B1 - B2             reorganises away from A1 - A2               *)
(* A peer asks from genesis (getblocks, hash_stop unknown), from A1       *)
(* (getheaders, request id 7) or from A2 (getblocks): once B2 is best,    *)
(* A2's walk back passes the side block A1 before reaching genesis.       *)
(***************************************************************************)
EXTENDS SyncNode

MCZero == "0"

MCForkBlocks == {"G", "A1", "A2", "B1", "B2"}
MCForkParent == ("A1" :> "G") @@ ("A2" :> "A1") @@ ("B1" :> "G") @@ ("B2" :> "B1")

MCWork == [b \in Blocks |-> IF b = "B2" THEN 2 ELSE 1]

MCRequests ==
    { Exec!Task("GetBlocks", "p", <<>>, <<"G">>, MCZero, 0),
      Exec!Task("GetHeaders", "p", <<>>, <<"A1">>, MCZero, 7),
      Exec!Task("GetBlocks", "p", <<>>, <<"A2">>, MCZero, 0) }
=============================================================================
