CONSTANTS
  Missing = Missing
  NoCd = NoCd
  Home <- u
  HighRoots <- MCHigh
  Scratch <- MCScratch
  Protected <- MCProtected
  HomeOnly = {"docs"}
  Worlds <- MCWorlds
  Cwds <- MCCwds
  Extras <- MCExtras
  Operands <- MCOperands
  Flags <- MCFlags
  Cds <- MCCds
  Origins = {"remote"}
  MaxWords = 2
  MaxCommands = 2
SPECIFICATION Spec
INVARIANTS TypeOK AllowedStaysInside HomeStays SharedRootsKept
