SPECIFICATION Spec
CONSTANTS
  Readers = {r1, r2}
  Writers = {w1, w2}
  Nobody = Nobody
  Bytes = {a, b}
  PIPESIZE = 2
  WRAP = 4
  MAXN = 2
  Kills = {r1, w2}
  Faults = {r2, w2}
SYMMETRY Symmetry
INVARIANTS SleepersHaveCause CloseIsFinal
PROPERTIES Fifo
