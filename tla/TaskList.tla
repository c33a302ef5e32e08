------------------------------ MODULE TaskList ------------------------------
(***************************************************************************)
(* The VxWorks task registry of the runtime library                        *)
(* (src/dyninstAPI_RT/src/RTvxworks.c, lines 62-157).                      *)
(*                                                                         *)
(* DYNINSTrefreshTasks fills the global task list with taskIdListGet,      *)
(* growing it (16, then doubling) until the list is not completely full.   *)
(* DYNINSTtaskInfo formats "name (STATUS|...)" into a global buffer that   *)
(* it grows with realloc when the text does not fit.                       *)
(*                                                                         *)
(* The mutator calls them (through inferior RPC) one at a time; other      *)
(* VxWorks tasks are created and deleted meanwhile.  Strings are kept as   *)
(* their lengths, which is all the buffer arithmetic depends on; a list or *)
(* buffer is kept as its size and whether the pointer is NULL.  realloc    *)
(* may fail, as a choice among ReallocOutcomes.                            *)
(***************************************************************************)
EXTENDS Integers, FiniteSets

CONSTANTS
  MaxTasks,         \* bound on the tasks alive in the system
  FirstMax,         \* the first list size, 16 at line 78
  NameLens,         \* lengths of the names taskName may return
  Statuses,         \* the READY/SUSPENDED/STOPPED/PENDED states a task may be in
  Delays,           \* values taskIsDelayed may report in delayTicks
  ReallocOutcomes,  \* TRUE: realloc succeeds; FALSE: it returns NULL
  MaxCalls          \* bound on the calls of each function

StatusLen == [ ready |-> 5, suspended |-> 9, stopped |-> 7, pended |-> 6 ]

ASSUME FirstMax > 0 /\ MaxTasks > 0 /\ ReallocOutcomes \subseteq BOOLEAN
ASSUME Statuses \subseteq DOMAIN StatusLen

VARIABLES
  tasks,                 \* the tasks alive now
  DYNINSTtaskListMax, DYNINSTtaskListCount,
  listNull,              \* DYNINSTtaskList == NULL
  rpc,                   \* DYNINSTrefreshTasks: idle, get, check, ret
  growFailed,            \* the last realloc of this refresh failed
  seen,                  \* history: the tasks alive at the last taskIdListGet
  DYNINSTtaskNameSize,
  bufNull,               \* DYNINSTtaskNameBuf == NULL
  ipc,                   \* DYNINSTtaskInfo: idle, size, copy, ret, crash, ub
  nameLen, statLen,      \* strlen(nameStr), strlen(statStr)
  resized,               \* the buffer holds newSize bytes after line 150
  written,               \* the highest index of the buffer written
  resultLen,             \* strlen of the returned string
  calls                  \* the calls made so far, of each function

vars == << tasks, DYNINSTtaskListMax, DYNINSTtaskListCount, listNull, rpc, growFailed, seen,
           DYNINSTtaskNameSize, bufNull, ipc, nameLen, statLen, resized, written,
           resultLen, calls >>
listVars == << DYNINSTtaskListMax, DYNINSTtaskListCount, listNull, rpc, growFailed, seen >>
infoVars == << DYNINSTtaskNameSize, bufNull, ipc, nameLen, statLen, resized, written,
               resultLen >>

Init ==
  /\ tasks \in 1 .. MaxTasks
  /\ DYNINSTtaskListMax = 0 /\ DYNINSTtaskListCount = 0 /\ listNull = TRUE
  /\ rpc = "idle" /\ growFailed = FALSE /\ seen = 0
  /\ DYNINSTtaskNameSize = 0 /\ bufNull = TRUE
  /\ ipc = "idle" /\ nameLen = 0 /\ statLen = 0 /\ resized = FALSE
  /\ written = -1 /\ resultLen = 0
  /\ calls = [ f \in {"refresh", "info"} |-> 0 ]

-----------------------------------------------------------------------------
(* DYNINSTrefreshTasks                                                     *)

RefreshCall ==
  /\ rpc = "idle" /\ ipc \in {"idle", "crash", "ub"} /\ calls["refresh"] < MaxCalls
  /\ rpc' = "get" /\ growFailed' = FALSE
  /\ calls' = [ calls EXCEPT !["refresh"] = @ + 1 ]
  /\ UNCHANGED << tasks, DYNINSTtaskListMax, DYNINSTtaskListCount, listNull, seen, infoVars >>

(* Lines 72-74: taskIdListGet stores at most max ids and returns how many. *)
ListGet ==
  /\ rpc = "get"
  /\ DYNINSTtaskListCount' = IF tasks < DYNINSTtaskListMax THEN tasks ELSE DYNINSTtaskListMax
  /\ seen' = tasks /\ rpc' = "check"
  /\ UNCHANGED << tasks, DYNINSTtaskListMax, listNull, growFailed, infoVars, calls >>

NewMax == IF DYNINSTtaskListMax = 0 THEN FirstMax ELSE DYNINSTtaskListMax * 2

\* Mutant: the size not doubled once the list exists.
GrowSame ==
  /\ rpc = "check" /\ DYNINSTtaskListCount >= DYNINSTtaskListMax
  /\ \E ok \in ReallocOutcomes :
       IF ok THEN /\ DYNINSTtaskListMax' = IF DYNINSTtaskListMax = 0 THEN FirstMax
                                           ELSE DYNINSTtaskListMax
                  /\ listNull' = FALSE /\ rpc' = "get" /\ UNCHANGED growFailed
             ELSE /\ rpc' = "ret" /\ growFailed' = TRUE
                  /\ UNCHANGED << DYNINSTtaskListMax, listNull >>
  /\ UNCHANGED << tasks, DYNINSTtaskListCount, seen, infoVars, calls >>

\* Mutant: the loop left after a successful grow (continue dropped).
GrowBreak ==
  /\ rpc = "check" /\ DYNINSTtaskListCount >= DYNINSTtaskListMax
  /\ \E ok \in ReallocOutcomes :
       IF ok THEN DYNINSTtaskListMax' = NewMax /\ listNull' = FALSE /\ UNCHANGED growFailed
             ELSE growFailed' = TRUE /\ UNCHANGED << DYNINSTtaskListMax, listNull >>
  /\ rpc' = "ret"
  /\ UNCHANGED << tasks, DYNINSTtaskListCount, seen, infoVars, calls >>

(***************************************************************************)
(* Lines 76-89: the list is full: realloc to the new size and get again;   *)
(* if realloc fails, warn and return the full (truncated) old list.        *)
(***************************************************************************)
Grow ==
  /\ rpc = "check" /\ DYNINSTtaskListCount >= DYNINSTtaskListMax
  /\ \E ok \in ReallocOutcomes :
       IF ok THEN /\ DYNINSTtaskListMax' = NewMax /\ listNull' = FALSE
                  /\ rpc' = "get" /\ UNCHANGED growFailed
             ELSE /\ rpc' = "ret" /\ growFailed' = TRUE
                  /\ UNCHANGED << DYNINSTtaskListMax, listNull >>
  /\ UNCHANGED << tasks, DYNINSTtaskListCount, seen, infoVars, calls >>

(* Lines 76 and 89: the list is not full: leave the loop.                  *)
NotFull ==
  /\ rpc = "check" /\ DYNINSTtaskListCount < DYNINSTtaskListMax
  /\ rpc' = "ret"
  /\ UNCHANGED << tasks, DYNINSTtaskListMax, DYNINSTtaskListCount, listNull, growFailed,
                  seen, infoVars, calls >>

(* Line 98: return DYNINSTtaskList.                                        *)
RefreshReturn ==
  /\ rpc = "ret" /\ rpc' = "idle"
  /\ UNCHANGED << tasks, DYNINSTtaskListMax, DYNINSTtaskListCount, listNull, growFailed,
                  seen, infoVars, calls >>

-----------------------------------------------------------------------------
(* DYNINSTtaskInfo                                                         *)

RECURSIVE Digits(_)
Digits(n) == IF n < 10 THEN 1 ELSE 1 + Digits(n \div 10)

(***************************************************************************)
(* Lines 114-138: strlen(statStr) for the states the task is in, and its   *)
(* delay if it is delayed (0 for none): " (", the names joined by "|",     *)
(* "DELAYED:<ticks>", ")".                                                 *)
(***************************************************************************)
StatStrLen(states, delayed, ticks) ==
  LET items == Cardinality(states) + (IF delayed THEN 1 ELSE 0)
      names == LET RECURSIVE SumOver(_)
                   SumOver(S) == IF S = {} THEN 0
                                 ELSE LET s == CHOOSE s \in S : TRUE
                                      IN StatusLen[s] + SumOver(S \ {s})
               IN SumOver(states)
  IN  2 + names + (IF delayed THEN 8 + Digits(ticks) ELSE 0)
        + (IF items > 0 THEN items - 1 ELSE 0) + 1

(* Lines 113-138: taskName and the status string of the task asked for.   *)
InfoCall ==
  /\ ipc = "idle" /\ rpc = "idle" /\ calls["info"] < MaxCalls
  /\ \E l \in NameLens, states \in SUBSET Statuses,
        delayed \in BOOLEAN, ticks \in Delays :
       nameLen' = l /\ statLen' = StatStrLen(states, delayed, ticks)
  /\ ipc' = "size" /\ resized' = FALSE
  /\ calls' = [ calls EXCEPT !["info"] = @ + 1 ]
  /\ UNCHANGED << tasks, listVars, DYNINSTtaskNameSize, bufNull, written, resultLen >>

NewSize == nameLen + statLen + 1

\* Mutant: the terminating NUL left out of newSize.
ResizeNoNul ==
  /\ ipc = "size"
  /\ IF nameLen + statLen > DYNINSTtaskNameSize
       THEN \E ok \in ReallocOutcomes :
              IF ok THEN /\ DYNINSTtaskNameSize' = nameLen + statLen
                         /\ bufNull' = FALSE /\ resized' = TRUE
                    ELSE UNCHANGED << DYNINSTtaskNameSize, bufNull, resized >>
       ELSE resized' = TRUE /\ UNCHANGED << DYNINSTtaskNameSize, bufNull >>
  /\ ipc' = "copy"
  /\ UNCHANGED << tasks, listVars, nameLen, statLen, written, resultLen, calls >>

(***************************************************************************)
(* Lines 140-150: a buffer too small is grown to newSize; if realloc       *)
(* fails, a warning is printed and the old buffer and size are kept.       *)
(***************************************************************************)
Resize ==
  /\ ipc = "size"
  /\ IF NewSize > DYNINSTtaskNameSize
       THEN \E ok \in ReallocOutcomes :
              IF ok THEN /\ DYNINSTtaskNameSize' = NewSize
                         /\ bufNull' = FALSE /\ resized' = TRUE
                    ELSE UNCHANGED << DYNINSTtaskNameSize, bufNull, resized >>
       ELSE resized' = TRUE /\ UNCHANGED << DYNINSTtaskNameSize, bufNull >>
  /\ ipc' = "copy"
  /\ UNCHANGED << tasks, listVars, nameLen, statLen, written, resultLen, calls >>

(***************************************************************************)
(* Lines 152-156.  A NULL buffer (the first call, realloc failed) is       *)
(* dereferenced at line 152.  strncpy writes exactly size bytes, with a    *)
(* NUL among them only if the name is shorter; without one, strncat's      *)
(* strlen reads past the buffer.  Otherwise strncat appends up to size     *)
(* characters of the status and a NUL.                                     *)
(***************************************************************************)
Copy ==
  LET size == DYNINSTtaskNameSize
      cat == IF statLen < size THEN statLen ELSE size
  IN
  /\ ipc = "copy"
  /\ \/ bufNull /\ ipc' = "crash" /\ UNCHANGED << written, resultLen >>
     \/ ~bufNull /\ nameLen >= size /\ ipc' = "ub" /\ written' = size - 1
        /\ UNCHANGED resultLen
     \/ ~bufNull /\ nameLen < size /\ ipc' = "ret"
        /\ written' = (IF nameLen + cat > size - 1 THEN nameLen + cat ELSE size - 1)
        /\ resultLen' = nameLen + cat
  /\ UNCHANGED << tasks, listVars, DYNINSTtaskNameSize, bufNull, nameLen, statLen,
                  resized, calls >>

(* Line 156: return the buffer; the call's locals go out of scope.        *)
InfoReturn ==
  /\ ipc = "ret" /\ ipc' = "idle"
  /\ nameLen' = 0 /\ statLen' = 0 /\ resized' = FALSE /\ written' = -1 /\ resultLen' = 0
  /\ UNCHANGED << tasks, listVars, DYNINSTtaskNameSize, bufNull, calls >>

-----------------------------------------------------------------------------
(* Other VxWorks tasks are spawned and deleted at any time.                *)
TaskSpawn ==
  /\ tasks < MaxTasks /\ tasks' = tasks + 1
  /\ UNCHANGED << listVars, infoVars, calls >>
TaskDelete ==
  /\ tasks > 1 /\ tasks' = tasks - 1
  /\ UNCHANGED << listVars, infoVars, calls >>

(* Both calls done, or the target died in DYNINSTtaskInfo.                 *)
Done ==
  /\ rpc = "idle" /\ calls["refresh"] = MaxCalls
  /\ ipc \in {"crash", "ub"} \/ (ipc = "idle" /\ calls["info"] = MaxCalls)
  /\ UNCHANGED vars

Refresh == RefreshCall \/ ListGet \/ Grow \/ NotFull \/ RefreshReturn
Info == InfoCall \/ Resize \/ Copy \/ InfoReturn

Next == Refresh \/ Info \/ TaskSpawn \/ TaskDelete \/ Done

(* A call the mutator made runs to its end: weak fairness of each call's   *)
(* steps once started.  Nothing obliges the mutator to call, or other      *)
(* tasks to come and go.                                                   *)
Spec ==
  /\ Init /\ [][Next]_vars
  /\ WF_vars(Refresh /\ rpc # "idle")
  /\ WF_vars(Info /\ ipc # "idle")

-----------------------------------------------------------------------------
(***************************************************************************)
(* The comment at line 70, "grow the task list until it's not completely   *)
(* full": a refresh returns a list with room to spare that holds every     *)
(* task alive at its last taskIdListGet, unless the last realloc failed    *)
(* and the list came back full (truncated).                                *)
(***************************************************************************)
RefreshComplete ==
  rpc = "ret" =>
    \/ DYNINSTtaskListCount = seen /\ DYNINSTtaskListCount < DYNINSTtaskListMax
    \/ growFailed /\ DYNINSTtaskListCount = DYNINSTtaskListMax

(* Every refresh returns, however the tasks come and go meanwhile.         *)
RefreshReturns == (rpc = "get") ~> (rpc = "ret")

(***************************************************************************)
(* When the buffer was grown to fit (or already did), DYNINSTtaskInfo      *)
(* writes within DYNINSTtaskNameSize and returns the whole name and        *)
(* status, NUL-terminated.                                                 *)
(***************************************************************************)
InfoFitsWhenSized ==
  ipc = "ret" /\ resized =>
    written < DYNINSTtaskNameSize /\ resultLen = nameLen + statLen

(* Every write of DYNINSTtaskInfo stays inside the buffer, and it never    *)
(* dereferences a NULL buffer, whatever realloc does.                      *)
InfoInBounds ==
  /\ ipc # "crash" /\ ipc # "ub"
  /\ written < DYNINSTtaskNameSize \/ written = -1
=============================================================================
