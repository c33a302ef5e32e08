---------------------------- MODULE MC_RTMutator ----------------------------
(***************************************************************************)
(* The two runtime components the mutator drives by calls into the         *)
(* mutatee, checked by one run as a disjoint union: the VxWorks task       *)
(* registry (TaskList) and the Linux breakpoint handshake (BreakPoint).    *)
(* which picks the component in the initial state, and the other's         *)
(* variables stay at one initial state of theirs.  The two share no state  *)
(* in the code (they are in RTvxworks.c and RTlinux.c, never built         *)
(* together), so every behaviour of each is explored once.  Both modules   *)
(* name a variable and a bound calls and MaxCalls; each instance gets its  *)
(* own.                                                                    *)
(***************************************************************************)
CONSTANTS
  \* TaskList
  MaxTasks, FirstMax, NameLens, Statuses, Delays, ReallocOutcomes, TLMaxCalls,
  \* BreakPoint
  Threads, ProgDisps, SigactionOutcomes, BPMaxCalls, ProgramRaises

VARIABLES
  \* TaskList
  tasks, DYNINSTtaskListMax, DYNINSTtaskListCount, listNull, rpc, growFailed, seen,
  DYNINSTtaskNameSize, bufNull, ipc, nameLen, statLen, resized, written, resultLen,
  tlCalls,
  \* BreakPoint
  DYNINSTstaticMode, DYNINST_break_point_event, failed_breakpoint, disp, progDisp,
  pc, oldact, stopped, attached, process, reported, last, restoreFailed,
  bpCalls,
  which     \* "tasklist" or "breakpoint"

TL == INSTANCE TaskList WITH calls <- tlCalls, MaxCalls <- TLMaxCalls
BP == INSTANCE BreakPoint WITH calls <- bpCalls, MaxCalls <- BPMaxCalls

tlVars == << tasks, DYNINSTtaskListMax, DYNINSTtaskListCount, listNull, rpc, growFailed,
             seen, DYNINSTtaskNameSize, bufNull, ipc, nameLen, statLen, resized, written,
             resultLen, tlCalls >>
bpVars == << DYNINSTstaticMode, DYNINST_break_point_event, failed_breakpoint, disp,
             progDisp, pc, oldact, stopped, attached, process, reported, last,
             restoreFailed, bpCalls >>
allVars == << tlVars, bpVars, which >>

(* The task registry, with the breakpoint routines at one initial state.  *)
TaskListPart ==
  /\ which = "tasklist"
  /\ DYNINSTstaticMode = FALSE /\ progDisp = "default" /\ attached = TRUE
  /\ BP!Init /\ TL!Init

(* The breakpoint routines, with the task registry at one initial state.   *)
BreakPointPart ==
  /\ which = "breakpoint"
  /\ tasks = 1
  /\ TL!Init /\ BP!Init

MutatorInit == TaskListPart \/ BreakPointPart

(* A step of the task registry, the breakpoint routines left alone.        *)
TaskListStep(A) == which = "tasklist" /\ A /\ UNCHANGED << bpVars, which >>

(* A step of the breakpoint routines, the task registry left alone.        *)
BreakPointStep(A) == which = "breakpoint" /\ A /\ UNCHANGED << tlVars, which >>

MutatorNext == TaskListStep(TL!Next) \/ BreakPointStep(BP!Next)

(* Each module's fairness, confined to its own part: a call the mutator    *)
(* made runs to its end, a thread in a routine keeps running, and the      *)
(* mutator handles every stop.                                             *)
MutatorSpec ==
  /\ MutatorInit /\ [][MutatorNext]_allVars
  /\ WF_allVars(TaskListStep(TL!Refresh /\ rpc # "idle"))
  /\ WF_allVars(TaskListStep(TL!Info /\ ipc # "idle"))
  /\ \A t \in Threads :
       /\ WF_allVars(BreakPointStep(BP!Step(t) /\ pc[t] # "idle"))
       /\ WF_allVars(BreakPointStep(BP!Mutator(t)))

-----------------------------------------------------------------------------
(* TaskList's RefreshComplete: a refresh returns a list with room to spare *)
(* holding every task alive at its last taskIdListGet, unless the last     *)
(* realloc failed and the list came back full.                             *)
RefreshComplete == TL!RefreshComplete

(* TaskList's InfoFitsWhenSized: DYNINSTtaskInfo, with the buffer grown to *)
(* fit, writes within it and returns the whole name and status.            *)
InfoFitsWhenSized == TL!InfoFitsWhenSized

(* TaskList's RefreshReturns: every refresh returns, however the tasks     *)
(* come and go meanwhile.                                                  *)
RefreshReturns == TL!RefreshReturns

(* BreakPoint's HandlerRestored: once DYNINSTlinuxBreakPoint returns, the  *)
(* program's disposition of the signal is back unless sigaction failed.    *)
HandlerRestored == BP!HandlerRestored

(* BreakPoint's ReturnsAfterReport: DYNINSTbreakPoint, outside static      *)
(* mode, returns only after the mutator reported the thread's breakpoint.  *)
ReturnsAfterReport == BP!ReturnsAfterReport

(* BreakPoint's HandshakeRefined: the breakpoint routines implement the    *)
(* abstract handshake BreakPointHandshake.  In the task-registry part the  *)
(* routines' variables only stutter from an initial state.                 *)
HandshakeRefined == BP!HandshakeRefined

(* BreakPoint's CallsReturn: while the mutator stays attached, every       *)
(* breakpoint call returns or the process ends.                            *)
CallsReturn == BP!CallsReturn
=============================================================================
