SPECIFICATION Spec
CONSTANTS
  Keys = {k1, k2}
  Capacity = 2
  Scopes <- MCScopes
  RingCapacity = 2
  RecordSizes <- MCRecordSizes
  PacketSize = 1
  Deltas <- MCDeltas
  ViewRanges <- MCViewRanges
  MaxObjects = 3
  MaxEntries = 3
  MaxLayout = 2
  MaxPacket = 2
  MaxTrace = 3
  MaxHeld = 3
CONSTRAINT Explored
INVARIANTS
  TypeOK
  HeldOnce
  ReferencesBalance
  RecordsOnce
  PlacesKeepTheirKey
  EntriesDistinct
  ViewsInPacket
PROPERTIES
  NoCallInCriticalSection
  OwnershipSpec
SYMMETRY MCSymmetry
CHECK_DEADLOCK FALSE
