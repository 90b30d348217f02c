SPECIFICATION FairSpec
CONSTANTS
  Node = {n1, n2}
  CanLead = {n1, n2}
  NoNode = NoNode
  Zombie = Zombie
  MaxWrites = 2
  MaxFaults = 2
  MaxCancels = 0
PROPERTIES WritableLeaderReturns  RefinesLog
