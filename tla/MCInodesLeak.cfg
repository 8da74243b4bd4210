SPECIFICATION Spec
CONSTANTS
  Procs = {p1, p2}
  NINODE = 2
  NINUM = 2
  Names = {a}
  Blocks = {}
  Here = Here
  Nobody = Nobody
  NoName = NoName
  Kinds = {"create", "unlink"}
  Crashes = FALSE
SYMMETRY Symmetry
INVARIANTS NothingLeaks
