SPECIFICATION Spec
CONSTANTS
  Procs = {p1, p2}
  NINODE = 3
  NINUM = 3
  Names = {a}
  Blocks = {k1}
  Here = Here
  Nobody = Nobody
  NoName = NoName
  Kinds = {"open", "create", "mkdir", "unlink", "link"}
  Crashes = TRUE
SYMMETRY Symmetry
INVARIANTS RefsCounted CopyFresh NoBugPanic DiskConsistent
