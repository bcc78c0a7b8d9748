CONSTANTS
  Buffer = 2
  Chunk = 2
  OnlyLatest = FALSE
  UIntMax = 255
  MaxReadings = 2
  MaxItems = 4
SPECIFICATION Spec
INVARIANT NewItemsAreSent
