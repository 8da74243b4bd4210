SPECIFICATION Spec
CONSTANTS
  NPROC = 2
  CPUs = {c0, c1}
  Boot = c0
  tickslock = tickslock
  WRAP = 3
  Durations = {2}
  Killable = {2}
  None = None
INVARIANTS InterruptsMasked NoLostTick
VIEW Elapsed
