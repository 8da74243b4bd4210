SPECIFICATION LiveSpec
CONSTANTS
  Procs = {p1, p2}
  Blocks = {b1, b2}
  Vals = {0, 1}
  Zero = 0
  NoBlock = NoBlock
  NoBuf = NoBuf
  MAXOPBLOCKS = 3
  LOGSIZE = 6
  NLOG = 7
  OPBLOCKS = 2
INVARIANTS IInv
PROPERTIES CrashAtomic WriteAhead SleepersWoken
