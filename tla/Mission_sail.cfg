CONSTANTS
  east = east  west = west
  Places = {east, west}
  NoPlace = noplace
  Missions <- MCStays
  MaxStay = 1
  MaxSyncs = 1
  MaxRestarts = 0
SPECIFICATION FairSpec
INVARIANTS TypeOK 
PROPERTIES HarvestedInOrder MissionCompleted
