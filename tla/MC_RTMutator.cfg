\* The task registry with up to 3 tasks, names of 0, 4 and 12 characters and
\* realloc failing or not; one mutatee thread in the breakpoint routines,
\* every disposition and build.
CONSTANTS
  MaxTasks = 3
  FirstMax = 1
  NameLens = {0, 4, 12}
  Statuses = {"ready", "suspended", "pended"}
  Delays = {12}
  ReallocOutcomes = {TRUE, FALSE}
  TLMaxCalls = 2
  Threads = {t1}
  ProgDisps = {"default", "ignore"}
  SigactionOutcomes = {TRUE, FALSE}
  BPMaxCalls = 3
  ProgramRaises = TRUE
SPECIFICATION MutatorSpec
INVARIANT RefreshComplete InfoFitsWhenSized HandlerRestored ReturnsAfterReport
PROPERTY RefreshReturns HandshakeRefined CallsReturn
