SPECIFICATION TestSpec
CONSTANTS
  Half = 8
  Low = 4
  PageCells = 2
  PageCount = 3
  Pool <- MCPool
  Tests <- MCTests
  Base = 8
  MaxSteps = 9
INVARIANTS
  LiftedVerifies
  NxirAgrees
  NativeAgrees
  FrameIntact
  LayoutFollowsRun
CHECK_DEADLOCK FALSE
