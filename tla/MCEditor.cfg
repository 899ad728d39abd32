SPECIFICATION MCSpec
CONSTANTS
  d1 = d1
  d2 = d2
  First = d1
  Docs = {d1, d2}
  Kernels = {"v6.8", "v6.12"}
  Default = "v6.8"
  MaxEvents = 3
  None = None
  Unread = Unread
  Missing = Missing
INVARIANTS
  ReadsItsOwn
  OwedIsUnderWay
PROPERTIES
  QuietIsChecked
CHECK_DEADLOCK FALSE
