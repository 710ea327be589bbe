CONSTANTS
  Wrappers <- MCWrappers
  Shells <- MCShells
  Others <- MCOthers
  Takers <- MCTakers
  Blind <- MCBlind
  Plain <- MCPlain
  Valued <- MCValued
  Unlisted <- MCUnlisted
  Glued <- MCGlued
  Programs <- MCPrograms
  Values <- MCValues
  Args <- MCArgs
  Roots <- MCRoots
  Scripts <- MCScripts
  Broken <- MCBroken
  MaxWords = 5
  None = None
SPECIFICATION Spec
INVARIANTS TypeOK InnerIsRecorded
PROPERTIES LoopShrinks
