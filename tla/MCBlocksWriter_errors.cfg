\* C2 fails verification: imports in any order, with the error path
CONSTANTS
    Blocks <- MCBlocks
    Parent <- MCParent
    Genesis = "G"
    Work <- MCWork
    Invalid = {"C2"}
    MaxOrphans = 2

SPECIFICATION Spec

INVARIANT NoOrphanWithStoredParent
