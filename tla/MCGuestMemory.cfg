SPECIFICATION Spec
CONSTANTS
  a = a
  b = b
  c = c
  NoPage = NoPage
  Page <- MCPage
  Value = {zero, one}
  Zero = zero
  NoData = NoData
  Permissions <- MCPermissions
  MaxFailures = 1
  MaxExecPages = 2
  MaxGeneration = 1
SYMMETRY PageSymmetry
CHECK_DEADLOCK FALSE
INVARIANTS
  TypeOK
  FastmemWithinHost
  MirrorIndexExact
  MirrorsGrounded
  ExecutableRegistered
PROPERTIES
  WritesAreShared
