SPECIFICATION MCSpec
CONSTANTS
  Procs = {p1, p2}
  InitProc = p1
  NFILE = 3
  NOFILE = 2
  Pages = {k1, k2}
  Inodes = {i1}
  NoPage = NoPage
  BSIZE = 3
  NDIRECT = 1
  FSSIZE = 15
  NLOG = 1
  NINODES = 3
  IPB = 2
  BPB = 32
  Writers = {1, 2}
  Opens = {1, 2, 3}
  InodeOf <- TwoAndOne
  Args <- TwoFiles
  CHUNK = 3
  SIZES = {2, 7}
  NCALLS = 3
SYMMETRY Symmetry
INVARIANTS FileRefs EndsMatch BlocksOwned
 
