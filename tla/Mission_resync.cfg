CONSTANTS
  east = east  west = west
  Places = {east, west}
  NoPlace = noplace
  Missions <- MCPasses
  MaxStay = 0
  MaxSyncs = 2
  MaxRestarts = 1
SPECIFICATION Spec
INVARIANT Converged
