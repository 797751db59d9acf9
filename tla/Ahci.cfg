CONSTANTS
  NumPorts = 2
  NumSlots = 3
  TablesPerFrame = 2
  MaxCommands = 3
SPECIFICATION FairSpec
INVARIANTS SlotNotInUse ProgrammedAtRest PolledOkMeansDone TablesStayInFrame NoStrayTransfer
PROPERTY DriverReturns
