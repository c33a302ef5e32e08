CONSTANTS
  Libs <- MC_Libs
  Main = "Main"
  Rewritten <- MC_Rewritten
  Base <- MC_Base
  Traps <- MC_Traps
  NumLibraries = 2
  WordSize = 1
  Builds = {TRUE}
  NoLib = NoLib
  MaxLoads = 4
  MaxTraps = 3
SPECIFICATION Spec
INVARIANT NoAbort
