\* Three blocks are enough for one target with two sources, one source whose
\* target is replaced, and a self edge beside both; the threshold is the code's
\* default and an edge count saturates right at it.
SPECIFICATION Spec
CONSTANTS
  Pc = {p1, p2, p3}
  NoPc = NoPc
  Threshold = 2
  CountMax = 2
INVARIANTS
  IncomingExact
  ChainIsHot
PROPERTIES
  ImplementsChainMap
