\* every block is valid: imports in any order
CONSTANTS
    Blocks <- MCBlocks
    Parent <- MCParent
    Genesis = "G"
    Work <- MCWork
    Invalid = {"C2"}
    MaxOrphans = 2

SPECIFICATION Spec

INVARIANT AcceptedBlocksKept
