\* Two mutatee threads in the breakpoint routines; every disposition and build.
CONSTANTS
  Threads = {t1, t2}
  ProgDisps = {"default", "ignore"}
  SigactionOutcomes = {TRUE, FALSE}
  MaxCalls = 3
  ProgramRaises = TRUE
SPECIFICATION Spec
INVARIANT HandlerRestored
