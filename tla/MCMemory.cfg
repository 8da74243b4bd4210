SPECIFICATION MCSpec
CONSTANTS
  Procs = {p1, p2}
  InitProc = p1
  NPAGES = 18
  FAN = 3
  PGSIZE = 2
  WIDTH = 6
  MAXSZ = 3
  Grows = {1, 3}
  Shrinks = {2, 3}
  Units = {2, 3, 4}
  MINUNITS = 3
  SBRKS = {1}
  LIMIT = 11
INVARIANTS PagesPartition SpaceMatchesSize HeapSound
VIEW Shape
