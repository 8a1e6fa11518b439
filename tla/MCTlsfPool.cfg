CONSTANTS
  PoolSize = 4144
  Request = {0, 200, 520}
  MaxHeld = 3
SPECIFICATION Spec
INVARIANT HeapTiled
INVARIANT BoundaryTags
INVARIANT FullyCoalesced
INVARIANT ListsMatchBlocks
INVARIANT RequestsServed
INVARIANT SearchComplete
