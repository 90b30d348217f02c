SPECIFICATION Spec
CONSTANTS
  Node = {n1, n2}
  CanLead = {n1, n2}
  NoNode = NoNode
  Zombie = Zombie
  MaxWrites = 2
  MaxFaults = 0
  MaxCancels = 1
INVARIANT DurableChainIsDense
