SPECIFICATION FairServiceSpec
CONSTANTS
  Key = {"k1", "k2", "k3"}
  OwnerOf <- MCOwnerOf
  MaxRun = 3
  MaxWorkers = 2
  MaxQueue = 0
  MaxFaults = 2
  MaxStops = 2
  NoKey = NoKey
INVARIANTS
  ServiceTypeOK
  SlotsConserved
  DispatchedOnce
  NeverLockedOut
PROPERTIES
  OutcomeFinal
  AcceptedConcludes
CHECK_DEADLOCK FALSE
