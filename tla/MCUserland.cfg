\* The descriptors, buffers and tables are small enough for find and primes
\* to run out of them, and for grep and cat to get lines in pieces.
\* The commands end, so the system may stop: AllEnd says where.
SPECIFICATION MCSpec
CONSTANTS
  MAXARGS = 4
  NOFILE = 7
  NFILE = 14
  PIPESIZE = 2
  MAXSH = 2
  LINE = 30
  LIMIT = 7
  XBUF = 5
  MAXARG = 5
  GBUF = 4
  CBUF = 2
  MAXPATH = 4
  DIRSIZ = 2
  PGSIZE = 2
  WIDTH = 8
  NIBBLES = 4
  LINELEN = 5
  RELEN = 4
  TEXTLEN = 3
  PATHLEN = 5
  MEMORY = 5
  FMTLEN = 4
  Scripts <- MCScripts
  Content <- MCContent
  Kids <- MCKids
  Name <- MCName
INVARIANTS  ShellGrammar GrepMatches 
PROPERTIES ExecClean AllEnd
CHECK_DEADLOCK FALSE
