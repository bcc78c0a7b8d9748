SPECIFICATION OnboardSpec
CONSTANTS
  Announced = {"waypoints"}
  MaxVersion = 2
  MaxMishaps = 2
  Legs <- MCLegs
  Points <- MCPoints
  Unset = Unset
  Radius = 1
  MaxStates = 2
  MaxWinds = 2
  VoterCount = 2
  CourseCount = 3
  Half = 4
  Votes <- MCVotes
  Weight <- MCWeight
  Stack = {0, 7}
  MaxCourse = 2
  BusBound = 2
  CANBound = 2
  LastBuffer = 1
  Sensors = {"wind", "arduino"}
  Unguarded = {"arduino"}
  Asked = {"wind"}
  Kinds = {"130306", "130311", "701", "702"}
  KindOf <- MCKindOf
  Tested <- MCTested
  MemberCount = 3
  MaxFrames = 3
  Bytes <- MCBytes
  MaxData = 2
  MaxFrame = 6
  Overhead = 2
  SizeCount = 8
  IdCount = 2
  Burst = 2
  MaxReceive = 3
  MaxLost = 3
INVARIANTS
  OnboardTypeOK
  NothingForgotten
  LineStartsAsAnnounced
  AtMostOneOldCourse
  WinnerIsBest
  FramesInOrder
  GuardedReadingsWhole
  ReceivedAsSent
PROPERTIES
  SyncedOrSlipped
  CourseCatchesUp
  FinallySteered
  ReadingsCatchUp
