CONSTANTS
    Blocks <- MCBlocks
    Parent <- MCParent
    Zero <- MCZero
    GetBlocksMax = 2
    GetHeadersMax = 2
    Peers = {q1, q2, q3}
    Requests <- MCRequests3
    MaxRequests = 4
    Storage <- MCStorage

SPECIFICATION Spec

INVARIANT RoundRobin
SYMMETRY PeerSymmetry
