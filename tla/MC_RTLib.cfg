\* Every mask of three three-bit words (NUM_LIBRARIES 6), every buffer of
\* every build, and three calls of DYNINSTloadLibrary on two libraries, so
\* that failed and successful calls, and a call for a library already
\* loaded, follow each other.  Addresses of 8 bits in units of 1K hold
\* both heaps on every page size.  The trap-mapping registry as in
\* MC_TrapMap.cfg: two slots of one-bit words, both builds, up to 6 loader
\* calls and 4 traps.
CONSTANTS
  NumLibraries = 6
  WordSize = 3
  MaxCalls = 3
  Libs = {l1, l2}
  AddrBits = 8
  TMNumLibraries = 2
  TMWordSize = 1
  TMBuilds = {TRUE, FALSE}
  NoLib = NoLib
  MaxLoads = 6
  MaxTraps = 4
SPECIFICATION RTSpec
INVARIANT LoadReported ScansFindNext ThreadInfoFirstUsableRow HeapsExecutable
INVARIANT SlotsConsistent AssertBuildFindsOwnLibrary
PROPERTY CallReturns
\* The mutatee stops calling the loader after MaxCalls calls, or dies in one.
CHECK_DEADLOCK FALSE
