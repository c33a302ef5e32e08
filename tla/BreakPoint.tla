----------------------------- MODULE BreakPoint -----------------------------
(***************************************************************************)
(* The breakpoint handshake between the runtime library and the mutator:   *)
(* DYNINSTbreakPoint, uncaught_breakpoint, DYNINSTlinuxBreakPoint and      *)
(* DYNINSTsafeBreakPoint (src/dyninstAPI_RT/src/RTlinux.c, lines 87-155;   *)
(* DYNINSTbreakPoint of RTvxworks.c, lines 47-60, is the same loop).       *)
(*                                                                         *)
(* A mutatee thread stores 1 (or 2) in DYNINST_break_point_event and       *)
(* signals itself.  A mutator attached with ptrace sees the thread stop    *)
(* with the signal; it is not under src/, and is modelled from the         *)
(* comment at line 99 ("Mutator resets to 0..."): on a stop with the flag  *)
(* set it reports a breakpoint, stores 0 and resumes the thread without    *)
(* the signal; on a stop with the flag clear the signal is not one of its  *)
(* breakpoints and it resumes the thread with the signal delivered.  The   *)
(* mutator may detach.  A signal delivered takes the disposition of        *)
(* DYNINST_BREAKPOINT_SIGNUM: the program's own (default: the process      *)
(* dies; or ignored), or uncaught_breakpoint while a linuxBreakPoint has   *)
(* it installed.  SIGSTOP delivered stops the process for good.            *)
(***************************************************************************)
EXTENDS Integers

CONSTANTS
  Threads,            \* the mutatee's threads
  ProgDisps,          \* the dispositions the program may have set: "default", "ignore"
  SigactionOutcomes,  \* TRUE: sigaction succeeds; FALSE: it returns -1
  MaxCalls,           \* bound on each thread's calls
  ProgramRaises       \* the program raises the breakpoint signal itself too

ASSUME ProgDisps \subseteq {"default", "ignore"} /\ SigactionOutcomes \subseteq BOOLEAN
ASSUME ProgramRaises \in BOOLEAN

VARIABLES
  DYNINSTstaticMode,
  DYNINST_break_point_event,
  failed_breakpoint,
  disp,         \* the disposition of DYNINST_BREAKPOINT_SIGNUM
  progDisp,     \* the program's disposition, before any breakpoint call
  pc,           \* each thread's place in the routine it runs
  oldact,       \* each linuxBreakPoint call's saved disposition (line 126)
  stopped,      \* each thread's pending stop: "none", "bp" (SIGNUM) or "stop" (SIGSTOP)
  attached,     \* the mutator is attached
  process,      \* "running", "dead" (killed by the signal) or "stopped" (SIGSTOP)
  reported,     \* history: the mutator reported a breakpoint of the thread since its store
  last,         \* history: the routine each thread last entered
  restoreFailed,\* history: a sigaction restoring the old disposition failed
  calls

vars == << DYNINSTstaticMode, DYNINST_break_point_event, failed_breakpoint, disp, progDisp,
           pc, oldact, stopped, attached, process, reported, last, restoreFailed, calls >>

Init ==
  /\ DYNINSTstaticMode \in BOOLEAN
  /\ DYNINST_break_point_event = 0 /\ failed_breakpoint = 0
  /\ progDisp \in ProgDisps /\ disp = progDisp
  /\ pc = [ t \in Threads |-> "idle" ]
  /\ oldact = [ t \in Threads |-> "none" ]
  /\ stopped = [ t \in Threads |-> "none" ]
  /\ attached \in BOOLEAN
  /\ process = "running"
  /\ reported = [ t \in Threads |-> FALSE ]
  /\ last = [ t \in Threads |-> "none" ]
  /\ restoreFailed = FALSE
  /\ calls = [ t \in Threads |-> 0 ]

(* A thread runs while the process runs and it is not stopped for the     *)
(* mutator.                                                                *)
Runs(t) == process = "running" /\ stopped[t] = "none"

Goto(t, l) == pc' = [ pc EXCEPT ![t] = l ]

(***************************************************************************)
(* A signal that reaches the thread: uncaught_breakpoint (lines 103-106)   *)
(* sets failed_breakpoint; the default action of the breakpoint signal     *)
(* ends the process; SIGSTOP stops it.                                     *)
(***************************************************************************)
Deliver(sig) ==
  IF sig = "stop" THEN process' = "stopped" /\ UNCHANGED failed_breakpoint
  ELSE CASE disp = "handler" -> failed_breakpoint' = 1 /\ UNCHANGED process
         [] disp = "default" -> process' = "dead" /\ UNCHANGED failed_breakpoint
         [] OTHER            -> UNCHANGED << process, failed_breakpoint >>

(* kill(dyn_lwp_self(), sig): the caller's lwp, from gettid or, where the *)
(* kernel lacks it, getpid (lines 289-316), which names the same thread    *)
(* when the process has one.  An attached mutator intercepts the signal.   *)
Kill(t, sig) ==
  IF attached THEN stopped' = [ stopped EXCEPT ![t] = sig ]
                   /\ UNCHANGED << process, failed_breakpoint >>
  ELSE Deliver(sig) /\ UNCHANGED stopped

-----------------------------------------------------------------------------
(* The mutatee's threads.                                                  *)

Call(t) ==
  /\ Runs(t) /\ pc[t] = "idle" /\ calls[t] < MaxCalls
  /\ \E r \in {"bp", "lb", "sb"} :
       /\ Goto(t, r) /\ last' = [ last EXCEPT ![t] = r ]
  /\ calls' = [ calls EXCEPT ![t] = @ + 1 ]
  /\ UNCHANGED << DYNINSTstaticMode, DYNINST_break_point_event, failed_breakpoint, disp,
                  progDisp, oldact, stopped, attached, process, reported, restoreFailed >>

(* Lines 92-93, 113-114 and 149-150: nothing to do in static mode.         *)
StaticReturn(t) ==
  /\ Runs(t) /\ pc[t] \in {"bp", "lb", "sb"} /\ DYNINSTstaticMode
  /\ Goto(t, "idle")
  /\ UNCHANGED << DYNINSTstaticMode, DYNINST_break_point_event, failed_breakpoint, disp,
                  progDisp, oldact, stopped, attached, process, reported, last,
                  restoreFailed, calls >>

(* Line 95, line 132, and line 152 with 2: store the flag.               *)
SetFlag(t) ==
  /\ Runs(t) /\ pc[t] \in {"bp", "lb_set", "sb"}
  /\ ~(pc[t] \in {"bp", "sb"} /\ DYNINSTstaticMode)
  /\ DYNINST_break_point_event' = IF pc[t] = "sb" THEN 2 ELSE 1
  /\ reported' = [ reported EXCEPT ![t] = FALSE ]
  /\ Goto(t, CASE pc[t] = "bp" -> "bp_test" [] pc[t] = "lb_set" -> "lb_clear"
                  [] OTHER -> "sb_kill")
  /\ UNCHANGED << DYNINSTstaticMode, failed_breakpoint, disp, progDisp, oldact,
                  stopped, attached, process, last, restoreFailed, calls >>

\* Mutant: the loop of lines 96-98 made an if: one signal, then return.
BpTestOnce(t) ==
  /\ Runs(t) /\ pc[t] \in {"bp_test", "bp_again"}
  /\ IF DYNINST_break_point_event # 0 /\ pc[t] = "bp_test"
       THEN Goto(t, "bp_kill") ELSE Goto(t, "idle")
  /\ UNCHANGED << DYNINSTstaticMode, DYNINST_break_point_event, failed_breakpoint, disp,
                  progDisp, oldact, stopped, attached, process, reported, last,
                  restoreFailed, calls >>

(* Lines 96-100: spin while the flag is set, else return.                 *)
BpTest(t) ==
  /\ Runs(t) /\ pc[t] \in {"bp_test", "bp_again"}
  /\ IF DYNINST_break_point_event # 0 THEN Goto(t, "bp_kill") ELSE Goto(t, "idle")
  /\ UNCHANGED << DYNINSTstaticMode, DYNINST_break_point_event, failed_breakpoint, disp,
                  progDisp, oldact, stopped, attached, process, reported, last,
                  restoreFailed, calls >>

\* Mutant: the signal sent to another lwp, so none reaches this thread.
BpKillLost(t) ==
  /\ Runs(t) /\ pc[t] = "bp_kill"
  /\ Goto(t, "bp_again")
  /\ UNCHANGED << DYNINSTstaticMode, DYNINST_break_point_event, failed_breakpoint, disp,
                  progDisp, oldact, stopped, attached, process, reported, last,
                  restoreFailed, calls >>

(* Line 97: kill(dyn_lwp_self(), DYNINST_BREAKPOINT_SIGNUM).               *)
BpKill(t) ==
  /\ Runs(t) /\ pc[t] = "bp_kill"
  /\ Kill(t, "bp")
  /\ Goto(t, "bp_again")
  /\ UNCHANGED << DYNINSTstaticMode, DYNINST_break_point_event, disp, progDisp, oldact,
                  attached, reported, last, restoreFailed, calls >>

(* Lines 119-123: sigaction(SIGNUM, NULL, &act); on -1, return.            *)
LbGet(t) ==
  /\ Runs(t) /\ pc[t] = "lb" /\ ~DYNINSTstaticMode
  /\ \E ok \in SigactionOutcomes : Goto(t, IF ok THEN "lb_install" ELSE "idle")
  /\ UNCHANGED << DYNINSTstaticMode, DYNINST_break_point_event, failed_breakpoint, disp,
                  progDisp, oldact, stopped, attached, process, reported, last,
                  restoreFailed, calls >>

(* Lines 124-130: install uncaught_breakpoint, saving the old action.     *)
LbInstall(t) ==
  /\ Runs(t) /\ pc[t] = "lb_install"
  /\ \E ok \in SigactionOutcomes :
       IF ok THEN /\ oldact' = [ oldact EXCEPT ![t] = disp ]
                  /\ disp' = "handler"
                  /\ Goto(t, "lb_set")
             ELSE Goto(t, "idle") /\ UNCHANGED << oldact, disp >>
  /\ UNCHANGED << DYNINSTstaticMode, DYNINST_break_point_event, failed_breakpoint,
                  progDisp, stopped, attached, process, reported, last, restoreFailed, calls >>

(* Line 133.                                                               *)
LbClear(t) ==
  /\ Runs(t) /\ pc[t] = "lb_clear"
  /\ failed_breakpoint' = 0
  /\ Goto(t, "lb_kill")
  /\ UNCHANGED << DYNINSTstaticMode, DYNINST_break_point_event, disp, progDisp, oldact,
                  stopped, attached, process, reported, last, restoreFailed, calls >>

(* Line 134.                                                               *)
LbKill(t) ==
  /\ Runs(t) /\ pc[t] = "lb_kill"
  /\ Kill(t, "bp")
  /\ Goto(t, "lb_check")
  /\ UNCHANGED << DYNINSTstaticMode, DYNINST_break_point_event, disp, progDisp, oldact,
                  attached, reported, last, restoreFailed, calls >>

\* Mutant: the failure path no longer clears the flag.
LbCheckNoReset(t) ==
  /\ Runs(t) /\ pc[t] = "lb_check"
  /\ Goto(t, IF failed_breakpoint # 0 THEN "lb_reset" ELSE "lb_restore")
  /\ UNCHANGED << DYNINSTstaticMode, DYNINST_break_point_event, failed_breakpoint, disp,
                  progDisp, oldact, stopped, attached, process, reported, last,
                  restoreFailed, calls >>

(* Lines 135-136: the signal reached uncaught_breakpoint, so no mutator    *)
(* will reset the flag: clear it here.                                     *)
LbCheck(t) ==
  /\ Runs(t) /\ pc[t] = "lb_check"
  /\ IF failed_breakpoint # 0
       THEN DYNINST_break_point_event' = 0 /\ Goto(t, "lb_reset")
       ELSE Goto(t, "lb_restore") /\ UNCHANGED DYNINST_break_point_event
  /\ UNCHANGED << DYNINSTstaticMode, failed_breakpoint, disp, progDisp, oldact, stopped,
                  attached, process, reported, last, restoreFailed, calls >>

(* Line 137.                                                               *)
LbReset(t) ==
  /\ Runs(t) /\ pc[t] = "lb_reset"
  /\ failed_breakpoint' = 0
  /\ Goto(t, "lb_restore")
  /\ UNCHANGED << DYNINSTstaticMode, DYNINST_break_point_event, disp, progDisp, oldact,
                  stopped, attached, process, reported, last, restoreFailed, calls >>

\* Mutant: act (the handler) restored instead of oldact.
LbRestoreAct(t) ==
  /\ Runs(t) /\ pc[t] = "lb_restore"
  /\ \E ok \in SigactionOutcomes :
       IF ok THEN disp' = "handler" /\ UNCHANGED restoreFailed
             ELSE restoreFailed' = TRUE /\ UNCHANGED disp
  /\ Goto(t, "idle")
  /\ UNCHANGED << DYNINSTstaticMode, DYNINST_break_point_event, failed_breakpoint, progDisp,
                  oldact, stopped, attached, process, reported, last, calls >>

(* Lines 140-144: put back the old action; on -1 it stays installed.      *)
LbRestore(t) ==
  /\ Runs(t) /\ pc[t] = "lb_restore"
  /\ \E ok \in SigactionOutcomes :
       IF ok THEN disp' = oldact[t] /\ UNCHANGED restoreFailed
             ELSE restoreFailed' = TRUE /\ UNCHANGED disp
  /\ Goto(t, "idle")
  /\ UNCHANGED << DYNINSTstaticMode, DYNINST_break_point_event, failed_breakpoint, progDisp,
                  oldact, stopped, attached, process, reported, last, calls >>

(* Line 154: kill(dyn_lwp_self(), SIGSTOP).                               *)
SbKill(t) ==
  /\ Runs(t) /\ pc[t] = "sb_kill"
  /\ Kill(t, "stop")
  /\ Goto(t, "sb_ret")
  /\ UNCHANGED << DYNINSTstaticMode, DYNINST_break_point_event, disp, progDisp, oldact,
                  attached, reported, last, restoreFailed, calls >>

(* Line 155: return, once the thread runs again.                           *)
SbReturn(t) ==
  /\ Runs(t) /\ pc[t] = "sb_ret"
  /\ Goto(t, "idle")
  /\ UNCHANGED << DYNINSTstaticMode, DYNINST_break_point_event, failed_breakpoint, disp,
                  progDisp, oldact, stopped, attached, process, reported, last,
                  restoreFailed, calls >>

-----------------------------------------------------------------------------
(* The environment: the program's own code and the mutator.                *)

(* The program raises the breakpoint signal itself, outside the library.   *)
ProgramSignal(t) ==
  /\ ProgramRaises
  /\ Runs(t) /\ pc[t] = "idle" /\ calls[t] < MaxCalls
  /\ Kill(t, "bp")
  /\ calls' = [ calls EXCEPT ![t] = @ + 1 ]
  /\ UNCHANGED << DYNINSTstaticMode, DYNINST_break_point_event, disp, progDisp, pc, oldact,
                  attached, reported, last, restoreFailed >>

(* A stop with the flag set is a breakpoint: report it, reset the flag,    *)
(* resume the thread with the signal suppressed.                           *)
Report(t) ==
  /\ attached /\ process = "running" /\ stopped[t] # "none"
  /\ DYNINST_break_point_event # 0
  /\ reported' = [ reported EXCEPT ![t] = TRUE ]
  /\ DYNINST_break_point_event' = 0
  /\ stopped' = [ stopped EXCEPT ![t] = "none" ]
  /\ UNCHANGED << DYNINSTstaticMode, failed_breakpoint, disp, progDisp, pc, oldact,
                  attached, process, last, restoreFailed, calls >>

(* A stop with the flag clear is not a breakpoint: resume the thread with  *)
(* the signal delivered.                                                   *)
PassOn(t) ==
  /\ attached /\ process = "running" /\ stopped[t] # "none"
  /\ DYNINST_break_point_event = 0
  /\ Deliver(stopped[t])
  /\ stopped' = [ stopped EXCEPT ![t] = "none" ]
  /\ UNCHANGED << DYNINSTstaticMode, DYNINST_break_point_event, disp, progDisp, pc, oldact,
                  attached, reported, last, restoreFailed, calls >>

(* The mutator detaches while no thread is stopped for it.                 *)
Detach ==
  /\ attached /\ process = "running" /\ \A t \in Threads : stopped[t] = "none"
  /\ attached' = FALSE
  /\ UNCHANGED << DYNINSTstaticMode, DYNINST_break_point_event, failed_breakpoint, disp,
                  progDisp, pc, oldact, stopped, process, reported, last, restoreFailed, calls >>

(* Every thread returned and made its calls, or the process is gone.       *)
Done ==
  /\ \/ process # "running"
     \/ \A t \in Threads : pc[t] = "idle" /\ stopped[t] = "none" /\ calls[t] = MaxCalls
  /\ UNCHANGED vars

Step(t) ==
  \/ Call(t) \/ StaticReturn(t) \/ SetFlag(t) \/ BpTest(t) \/ BpKill(t)
  \/ LbGet(t) \/ LbInstall(t) \/ LbClear(t) \/ LbKill(t) \/ LbCheck(t) \/ LbReset(t)
  \/ LbRestore(t) \/ SbKill(t) \/ SbReturn(t)

Mutator(t) == Report(t) \/ PassOn(t)

Next ==
  \/ \E t \in Threads : Step(t) \/ ProgramSignal(t) \/ Mutator(t)
  \/ Detach
  \/ Done

(* A thread in a routine keeps running; the mutator handles every stop.   *)
Spec == Init /\ [][Next]_vars
        /\ \A t \in Threads : WF_vars(Step(t) /\ pc[t] # "idle") /\ WF_vars(Mutator(t))

-----------------------------------------------------------------------------
(***************************************************************************)
(* The refinement mapping onto the abstract handshake: a thread is in the  *)
(* routine it last entered until its pc is back at idle; the one flag      *)
(* DYNINST_break_point_event is every thread's pending request; the        *)
(* process is gone once it died or stopped.                                *)
(***************************************************************************)
HS == INSTANCE BreakPointHandshake WITH
        inCall <- [ t \in Threads |-> IF pc[t] = "idle" THEN "none" ELSE last[t] ],
        req    <- [ t \in Threads |-> DYNINST_break_point_event # 0 ],
        gone   <- process # "running"

(***************************************************************************)
(* The routines implement the handshake: DYNINSTbreakPoint and             *)
(* DYNINSTlinuxBreakPoint return with the flag clear (the mutator reset it *)
(* after its report, or line 136 after uncaught_breakpoint ran); only      *)
(* linuxBreakPoint clears it itself; a flag is set only while none is     *)
(* pending.  A flag left set makes the mutator take a later, unrelated     *)
(* stop for a breakpoint.                                                  *)
(***************************************************************************)
HandshakeRefined == HS!Spec

(***************************************************************************)
(* Once every thread is out of DYNINSTlinuxBreakPoint, the program's own   *)
(* disposition of the breakpoint signal is back, unless a restoring        *)
(* sigaction failed.                                                       *)
(***************************************************************************)
HandlerRestored ==
  (\A t \in Threads : pc[t] = "idle") /\ ~restoreFailed => disp = progDisp

(***************************************************************************)
(* "stop oneself" (line 84): DYNINSTbreakPoint, outside static mode,       *)
(* returns only after the mutator has reported the thread's breakpoint.    *)
(***************************************************************************)
ReturnsAfterReport ==
  \A t \in Threads :
    pc[t] = "idle" /\ last[t] = "bp" /\ ~DYNINSTstaticMode => reported[t]

(***************************************************************************)
(* While the mutator stays attached, every breakpoint call returns (or     *)
(* the process ends): the loop of line 96 does not spin for ever.          *)
(***************************************************************************)
CallsReturn ==
  \A t \in Threads :
    (pc[t] # "idle") ~> (pc[t] = "idle" \/ process # "running" \/ ~attached)
=============================================================================
