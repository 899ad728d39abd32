SPECIFICATION MCSpec
CONSTANTS
  Families <- ShadowFamilies
  LastMoves = TRUE
  Shadowing = TRUE
  Kind <- Tc
  MaxNesting = 5
  MaxIters = 2
  Keys = {k1}
  Capacity = 1
  Scopes <- MCScopes
  RingCapacity = 1
  RecordSizes <- MCRecordSizes
  PacketSize = 1
  Deltas <- MCDeltas
  ViewRanges <- MCNone
  MaxObjects = 40
  MaxEntries = 1
  MaxLayout = 16
  MaxPacket = 1
  MaxTrace = 40
  MaxHeld = 8
INVARIANT
  NeverRefused
