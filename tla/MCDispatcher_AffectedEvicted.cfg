SPECIFICATION Spec
CONSTANTS
  Pc <- MCPc
  NoPc = 0
  Page <- MCPage
  PageOf <- MCPageOf
  CodePages <- MCCodePages
  NoPage = "none"
  Programs <- MCPrograms
  NativeGate = TRUE
  PatchErrors = {"MakeWritable", "RestoreExecutable"}
  MaxSteps = 2
  MaxRing = 1
  Threshold = 2
  CountMax = 2
INVARIANT
  AffectedEvicted
CHECK_DEADLOCK FALSE
