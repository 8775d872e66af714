CONSTANTS
    Blocks <- MCBlocks
    Parent <- MCParent
    Zero <- MCZero
    GetBlocksMax = 2
    GetHeadersMax = 2
    Peers <- MCPeers
    Requests <- MCRequests
    MaxRequests = 2
    Storage <- MCStorage
SPECIFICATION FairSpec
PROPERTY RequestsServed
PROPERTY ShutdownCompletes
