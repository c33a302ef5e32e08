CONSTANTS
  Libs <- MC_Libs
  Main = "Main"
  Rewritten <- MC_Rewritten
  Base <- MC_Base
  Traps <- MC_Traps
  NumLibraries = 2
  WordSize = 1
  Builds = {FALSE}
  NoLib = NoLib
  MaxLoads = 4
  MaxTraps = 1
SPECIFICATION Spec
INVARIANT HeaderReadMapped
