SPECIFICATION Spec
CONSTANTS
  Node = {n1, n2}
  CanLead = {n1, n2}
  NoNode = NoNode
  Zombie = Zombie
  MaxWrites = 2
  MaxFaults = 2
  MaxCancels = 1
SYMMETRY NodeSymmetry
INVARIANTS EpochFencing LockHolderIsProven WritableOnlyAfterHandoff
  DurableChainIntact MemoryIsDurablePrefix 
PROPERTIES DurableAppendOnly
