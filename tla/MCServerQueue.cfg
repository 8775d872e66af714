CONSTANTS
    Blocks <- MCBlocks
    Parent <- MCParent
    Zero <- MCZero
    GetBlocksMax = 2
    GetHeadersMax = 2
    Peers <- MCPeers
    Requests <- MCRequests
    MaxRequests = 3
    Storage <- MCStorage

SPECIFICATION Spec

INVARIANT QueueConsistent
INVARIANT RoundRobin
INVARIANT ResponsesInRequestOrder
