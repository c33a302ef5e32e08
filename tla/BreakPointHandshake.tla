------------------------- MODULE BreakPointHandshake -------------------------
(***************************************************************************)
(* What the breakpoint routines of the runtime library promise the         *)
(* mutator, with no flags, signals or dispositions.  A thread in a         *)
(* breakpoint routine may request one stop; the mutator reports a pending  *)
(* request, or DYNINSTlinuxBreakPoint cancels it when no mutator took its  *)
(* signal.  DYNINSTbreakPoint and DYNINSTlinuxBreakPoint return only with  *)
(* no request of theirs pending; DYNINSTsafeBreakPoint returns and leaves  *)
(* its request to the mutator.  The process may end at any moment.         *)
(***************************************************************************)
CONSTANT Threads

Routines == {"bp", "lb", "sb"}

VARIABLES
  inCall,   \* the routine each thread is in, or "none"
  req,      \* the thread's request for a stop, not yet reported or cancelled
  gone      \* the process has died or stopped for good

vars == << inCall, req, gone >>

Init ==
  /\ inCall = [ t \in Threads |-> "none" ]
  /\ req = [ t \in Threads |-> FALSE ]
  /\ gone = FALSE

Enter(t) ==
  /\ ~gone /\ inCall[t] = "none"
  /\ \E r \in Routines : inCall' = [ inCall EXCEPT ![t] = r ]
  /\ UNCHANGED << req, gone >>

Request(t) ==
  /\ ~gone /\ inCall[t] # "none" /\ ~req[t]
  /\ req' = [ req EXCEPT ![t] = TRUE ]
  /\ UNCHANGED << inCall, gone >>

Report(t) ==
  /\ ~gone /\ req[t]
  /\ req' = [ req EXCEPT ![t] = FALSE ]
  /\ UNCHANGED << inCall, gone >>

Cancel(t) ==
  /\ ~gone /\ inCall[t] = "lb" /\ req[t]
  /\ req' = [ req EXCEPT ![t] = FALSE ]
  /\ UNCHANGED << inCall, gone >>

Return(t) ==
  /\ ~gone /\ inCall[t] # "none"
  /\ ~req[t] \/ inCall[t] = "sb"
  /\ inCall' = [ inCall EXCEPT ![t] = "none" ]
  /\ UNCHANGED << req, gone >>

End ==
  /\ ~gone
  /\ gone' = TRUE
  /\ UNCHANGED << inCall, req >>

Next ==
  \/ \E t \in Threads : Enter(t) \/ Request(t) \/ Report(t) \/ Cancel(t) \/ Return(t)
  \/ End

Spec == Init /\ [][Next]_vars
=============================================================================
