CONSTANTS
    Blocks <- MCBlocks
    Parent <- MCParent
    Zero <- MCZero
    GetBlocksMax = 1
    GetHeadersMax = 2

SPECIFICATION Spec


INVARIANT LocateMatchesReference
INVARIANT ServeMatchesReference
INVARIANT AgreesWithUnitTests
