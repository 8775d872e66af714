CONSTANTS
    Blocks <- MCForkBlocks
    Parent <- MCForkParent
    Genesis = "G"
    Work <- MCWork
    Invalid = {}
    MaxOrphans = 2
    Zero <- MCZero
    GetBlocksMax = 2
    GetHeadersMax = 2
    Requests <- MCRequests
    MaxServed = 2

SPECIFICATION Spec

INVARIANT ResponseIsChain
