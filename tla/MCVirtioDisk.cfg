SPECIFICATION Spec
CONSTANTS
  Procs = {p1, p2, p3}
  Blocks = {b1, b2, b3}
  Vals = {v1, v2}
  NUM = 7
  WRAP = 7
  Intr = Intr
  Leaving = Leaving
  Nobody = Nobody
  NoReq = NoReq
  NoBlock = NoBlock
  NoData = NoData
SYMMETRY Symmetry
VIEW Rotated
INVARIANTS ChainsPartition NoLostCompletion
PROPERTIES TransfersOnce
