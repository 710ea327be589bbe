CONSTANTS
  Writers = {w1, w2, w3, w4, w5, w6}
  Full = 1
  Keep = 3
  MaxActive = 2
  NoFile = NoFile
SYMMETRY WriterSymmetry
SPECIFICATION Spec
INVARIANTS TypeOK RotatedAreFullAlone SizeBounded
PROPERTY DropsOldest
