CONSTANTS
  c1 = c1  h1 = h1  x1 = x1
  Sessions = {s1}
  Commands = {c1}
  Hashes = {h1}
  HashOf <- OneHash
  Prefixes = {x1}
  PrefixOf <- OnePrefix
  Hooks = {p1, p2, p3, p4}
  TTL = 2
  NoEntry = NoEntry
  Modes = {"live"}
  Levels <- OneRisky
  Faults = {"save"}
  MaxClock = 0
  NoHook = NoHook
  NoReq = NoReq
SYMMETRY HookSymmetry
SPECIFICATION Spec
INVARIANT SpentOnce
