CONSTANTS
  c1 = c1  c2 = c2  h1 = h1  h2 = h2  x1 = x1  x12 = x12
  Sessions = {s1}
  Commands = {c1, c2}
  Hashes = {h1, h2}
  HashOf <- TwoHashes
  Prefixes = {x1, x12}
  PrefixOf <- TwoPrefixes
  Hooks = {p1, p2, p3}
  TTL = 2
  NoEntry = NoEntry
  Modes <- MCModes
  Levels <- RiskyAndVarying
  Faults = {"open", "save"}
  MaxClock = 1
  NoHook = NoHook
  NoReq = NoReq
  Settings <- MCSettings
  Lowered <- MCLowered
SYMMETRY HookSymmetry
SPECIFICATION ModesSpec
INVARIANTS ModesTypeOK LiveHonours AmbiguousRefused NoCreditReturns RiskyRunsOnlyApproved
PROPERTY ImplementsLedger
