SPECIFICATION Spec
CONSTANTS
  Procs = {p1, p2}
  Bufs = {c1, c2, c3}
  Blocks = {b1, b2, b3, b4}
  Vals = {v1, v2}
  Nobody = Nobody
  NoBlock = NoBlock
  MAXPIN = 1
SYMMETRY Symmetry
INVARIANTS IInv
PROPERTIES Coherent
