CONSTANTS
  Sizes = {1, 2}
  Room = 1
  Requests <- MCRequests
  MaxBytes = 3
  MaxInputs = 3
SPECIFICATION FairSpec
CHECK_DEADLOCK FALSE
INVARIANTS
  TypeOK
  StreamIntegrity
  InterestsAgree
  NoLostEdge
PROPERTIES
  ImplementsPipe
  OutputKeepsWriter
  OutputDrains
  InputIsNoticed
