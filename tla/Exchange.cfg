CONSTANTS
  Words <- MCWords
  Kind <- MCKind
  RangeOf <- MCRangeOf
  MaxAccept = 2
  Streams <- MCStreams
  Files <- MCFiles
  InitialRoom = 4
  RoomStep = 4
  ReadLimit = 12
  HeadUnits = 2
SPECIFICATION Spec
INVARIANTS RecogniserRight FieldsComeFromThisRequest DeliveredInOrder 
