\* every block is valid: imports in any order
CONSTANTS
    Blocks <- MCBlocks
    Parent <- MCParent
    Genesis = "G"
    Work <- MCWork
    Invalid = {}
    MaxOrphans = 2

SPECIFICATION Spec

INVARIANT OrphanPoolBounded
