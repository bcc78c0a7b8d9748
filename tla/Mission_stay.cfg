CONSTANTS
  east = east  west = west
  Places = {east, west}
  NoPlace = noplace
  Missions <- MCStays
  MaxStay = 1
  MaxSyncs = 0
  MaxRestarts = 0
SPECIFICATION Spec
PROPERTY StayedDesignatedTime
