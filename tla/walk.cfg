CONSTANTS
  Empty = Empty
  HookCwd = here
  Dirs = {tmp, etc}
  Words = {sub}
  Kinds = {"block", "subshell", "dash_c", "eval", "ssh", "subst", "pipe", "background", "and", "or", "not", "if"}
  MaxNodes = 4
  MaxDepth = 3
  MaxStages = 3
SYMMETRY Symmetry
SPECIFICATION Spec
INVARIANTS TypeOK ReadRunsRecorded InItsDirectory
