SPECIFICATION ProfileSpec
CONSTANTS
  w1 = w1
  w2 = w2
  Branch = {b1, b2}
  Other = {other}
  Newline = Newline
  Writer <- MCWriter
  Reader = {reader}
  MaxFile = 6
  MaxLength = 9
SYMMETRY WriterSymmetry
CHECK_DEADLOCK FALSE
INVARIANTS
  ProfileSound
PROPERTIES
  LogGrows
