CONSTANTS
  ais = ais  wind = wind
  v1 = v1  v2 = v2
  Ids = {ais, wind}
  Fast = {ais}
  Registered = {ais, wind}
  Sequences = 2
  Lengths = {6, 13, 14}
  MaxPackets <- MCMaxPackets
  None = none
  Adders = {adder}  Collectors = {gc}
  Readers = {bus}
  Free = free
  MMSIs = {v1, v2}
  TimeOut = 1
SPECIFICATION ReceptionSpec
INVARIANTS
  TypeOK
  DeliversPackets
  MixedOnlyByFaults
  UndamagedDelivered
  NoFrameStarves
  AISTypeOK
  ExclusiveUntilSkipped
  NothingLeftBehind
  OneContactPerVessel
PROPERTIES
  StableWhileRead
CHECK_DEADLOCK FALSE
