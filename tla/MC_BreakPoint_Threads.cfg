\* Two mutatee threads that raise the breakpoint signal only through the
\* library's routines; every disposition and build.
CONSTANTS
  Threads = {t1, t2}
  ProgDisps = {"default", "ignore"}
  SigactionOutcomes = {TRUE, FALSE}
  MaxCalls = 3
  ProgramRaises = FALSE
SPECIFICATION Spec
INVARIANT ReturnsAfterReport
