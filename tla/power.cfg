CONSTANTS
  c1 = c1  h1 = h1  x1 = x1
  Sessions = {s1, s2}
  Commands = {c1}
  Hashes = {h1}
  HashOf <- OneHash
  Prefixes = {x1}
  PrefixOf <- OnePrefix
  Hooks = {p1, p2, p3}
  TTL = 1
  NoEntry = NoEntry
  Modes = {"live"}
  Levels <- OneRisky
  Faults = {}
  MaxClock = 1
  NoHook = NoHook
  NoReq = NoReq
  MaxFailures = 1
SYMMETRY HookAndSessionSymmetry
SPECIFICATION PowerSpec
INVARIANTS PowerTypeOK TakenForGood ApprovalsAreReal RiskyRunsOnlyApproved
