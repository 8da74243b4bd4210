SPECIFICATION Spec
CONSTANTS
  NPROC = 3
  CPUs = {c1, c2}
  MAXPID = 3
  KillPids = {2, 3}
SYMMETRY Symmetry
INVARIANTS OneCpuPerStack NoFreedStack LiveParent NoMissedZombie
