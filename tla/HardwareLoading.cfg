SPECIFICATION LoadSpec
CONSTANTS
  t1 = t1  t2 = t2  int = int  str = str  k1 = k1  k2 = k2
  NoType = NoType
  Topics <- MCTopics
  Types <- MCTypes
  Keys <- MCKeys
  Group <- MCGroup
  MaxOps = 2
  MaxSeq = 3
  MaxSent = 3
SYMMETRY Symmetry
INVARIANTS
  Topology
  ReaderCurrent
  Routed
CHECK_DEADLOCK FALSE
