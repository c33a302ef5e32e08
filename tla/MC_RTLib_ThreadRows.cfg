\* The same instance as MC_RTLib.cfg, asking whether every row of the
\* positions table can be reached by the lookup.
CONSTANTS
  NumLibraries = 6
  WordSize = 3
  MaxCalls = 3
  Libs = {l1, l2}
  AddrBits = 8
  TMNumLibraries = 2
  TMWordSize = 1
  TMBuilds = {TRUE, FALSE}
  NoLib = NoLib
  MaxLoads = 6
  MaxTraps = 4
SPECIFICATION RTSpec
INVARIANT ThreadInfoRowsReadable
CHECK_DEADLOCK FALSE
