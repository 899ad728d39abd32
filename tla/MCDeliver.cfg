SPECIFICATION DeliverSpec
CONSTANTS
  Jobs <- MCJobs
  Units <- MCJobs
  TableSize = 5
  Fds <- MCFds
  Bytes <- MCBytes
  Keys <- MCKeys
  Lengths <- MCLengths
  Registers <- MCRegisters
  None = None
INVARIANTS TypeOK ContentsFinal RefsResolve VerdictsNamed ReportExact LoadersAgree FuncInfoAtFunctions FileReadable
PROPERTIES RolloutSpec
CHECK_DEADLOCK FALSE
