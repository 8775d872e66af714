-------------------------- MODULE MCBlocksWriter --------------------------
(***************************************************************************)
(* Model of BlocksWriter for TLC.  The block tree                         *)
(*     G - A1 - A2                                                         *)
(*      \- B1 - B2 - D2                                                    *)
(*            \- C2                                                        *)
(* with work 1 per block except B2 (2): the B branch overtakes A2 only     *)
(* through B2, so reorgs happen both ways.  B2 and C2 are siblings, so a   *)
(* drained queue can hold a rejected block ahead of a valid one.  D2 and   *)
(* B2 can both wait in the pool, so B1 drains a pooled chain of depth two. *)
(* Four blocks can wait for B1, more than the pool bound of 2.             *)
(***************************************************************************)
EXTENDS BlocksWriter

MCBlocks == {"G", "A1", "A2", "B1", "B2", "C2", "D2"}
MCParent == ("A1" :> "G") @@ ("A2" :> "A1") @@ ("B1" :> "G")
            @@ ("B2" :> "B1") @@ ("C2" :> "B1") @@ ("D2" :> "B2")
MCWork == [b \in MCBlocks |-> IF b = "B2" THEN 2 ELSE 1]
=============================================================================
