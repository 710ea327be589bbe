CONSTANTS
  Missing = Missing
  NoCd = NoCd
  Malformed = Malformed
  NoRoot = NoRoot
  Home <- u
  HighRoots <- MCHigh
  Scratch <- MCScratch
  Protected <- MCProtected
  HomeOnly = {"docs"}
  Worlds <- MCWorlds
  Cwds <- MCCwds
  Trusts <- MCTrusts
  Globals <- MCGlobals
SPECIFICATION Spec
INVARIANTS HonouredPathsCount
