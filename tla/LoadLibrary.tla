----------------------------- MODULE LoadLibrary -----------------------------
(***************************************************************************)
(* DYNINSTloadLibrary (src/dyninstAPI_RT/src/RTlinux.c, lines 218-287),    *)
(* run in the mutatee by the mutator to load a library, and the error      *)
(* string gLoadLibraryErrorString it leaves for the mutator to read.       *)
(*                                                                         *)
(* dlopen may succeed or fail with a message; a message is its cause       *)
(* ("invalid_caller" for glibc's security check, "other" for the rest) and *)
(* whether it is as long as ERROR_STRING_LENGTH or longer.  The value of   *)
(* that constant is defined outside this file; glibc's "invalid caller"    *)
(* text is far shorter than any plausible value, so only other messages    *)
(* are long.  The string the call leaves is its cause and whether it is    *)
(* terminated.                                                             *)
(***************************************************************************)
EXTENDS Integers

CONSTANTS
  Libs,           \* library names the mutator asks for
  MaxCalls        \* the number of calls explored

Msgs == { m \in [cause : {"invalid_caller", "other"}, long : BOOLEAN] :
            ~(m.cause = "invalid_caller" /\ m.long) }

NoMsg   == [cause |-> "none", long |-> FALSE] \* dlerror() returns NULL
NoResult == -1           \* no call has returned
Empty   == [cause |-> "empty", term |-> TRUE]      \* gLoadLibraryErrorString[0] = '\0'
Unknown == [cause |-> "unknown", term |-> TRUE]    \* "unknown error with dlopen"

VARIABLES
  arch_x86,       \* the build defines arch_x86 (lines 257-284 compiled in)
  do_dlopen_set,  \* the mutator wrote DYNINST_do_dlopen
  errStr,         \* gLoadLibraryErrorString
  result,         \* what the last call returned, 0 or 1, NoResult before any
  calls,          \* calls made so far
  faulted,        \* a call crashed reading past the string
  opened,         \* the libraries dlopen has loaded into the mutatee
  \* history, for the properties
  loaded,         \* the last call loaded the library
  dlopenCause,    \* the cause of the last call's dlopen failure, or "none"
  retried         \* the last call called through DYNINST_do_dlopen

vars == << arch_x86, do_dlopen_set, errStr, result, calls, faulted, opened,
           loaded, dlopenCause, retried >>

Init ==
  /\ arch_x86 \in BOOLEAN
  /\ do_dlopen_set \in BOOLEAN
  /\ errStr = Empty
  /\ result = NoResult
  /\ calls = 0
  /\ faulted = FALSE
  /\ opened = {}
  /\ loaded = FALSE
  /\ dlopenCause = "none"
  /\ retried = FALSE

(* Line 236: strncpy of a message copies at most ERROR_STRING_LENGTH      *)
(* bytes and writes no terminator when the message fills them.             *)
Strncpy(m) == [cause |-> m.cause, term |-> ~m.long]

\* Mutant: no fallback text when dlerror() returns NULL.
get_dlopen_error_nofallback(d) == IF d = NoMsg THEN Empty ELSE Strncpy(d)
(* Lines 232-244: get_dlopen_error, given what dlerror() returns.          *)
get_dlopen_error(d) == IF d = NoMsg THEN Unknown ELSE Strncpy(d)

(* Line 265: strstr(gLoadLibraryErrorString, "invalid caller").  On an     *)
(* unterminated string the search runs past the array: undefined, it may   *)
(* match bytes beyond it, miss, or fault.                                  *)
Strstr(s) == IF s.term THEN {IF s.cause = "invalid_caller" THEN "found" ELSE "absent"}
             ELSE {"found", "absent", "fault"}

(* Lines 249-254: a call; the string is cleared and dlopen succeeds, as   *)
(* it always does for a library already loaded.                           *)
LoadOk(lib) ==
  /\ ~faulted /\ calls < MaxCalls
  /\ opened' = opened \cup {lib}
  /\ errStr' = Empty /\ result' = 1 /\ loaded' = TRUE
  /\ dlopenCause' = "none" /\ retried' = FALSE
  /\ calls' = calls + 1
  /\ UNCHANGED << arch_x86, do_dlopen_set, faulted >>

(* Lines 249-265 and 285: dlopen fails, get_dlopen_error copies its      *)
(* message (line 256), and the call returns 0 because the build has no    *)
(* retry, or the search finds no "invalid caller", or the mutator gave no  *)
(* do_dlopen.                                                              *)
LoadFail(lib) ==
  /\ ~faulted /\ calls < MaxCalls /\ lib \notin opened
  /\ \E m \in Msgs :
       /\ \/ ~arch_x86
          \/ "absent" \in Strstr(get_dlopen_error(m))
          \/ ("found" \in Strstr(get_dlopen_error(m)) /\ ~do_dlopen_set)
       /\ errStr' = get_dlopen_error(m)
       /\ dlopenCause' = m.cause
  /\ result' = 0 /\ loaded' = FALSE /\ retried' = FALSE
  /\ calls' = calls + 1
  /\ UNCHANGED << arch_x86, do_dlopen_set, faulted, opened >>

(* Lines 249-256 and 265: the search of line 265 runs off an unterminated *)
(* string into unmapped memory and the mutatee dies.                       *)
LoadFault(lib) ==
  /\ ~faulted /\ calls < MaxCalls /\ arch_x86 /\ lib \notin opened
  /\ \E m \in Msgs :
       /\ "fault" \in Strstr(get_dlopen_error(m))
       /\ errStr' = get_dlopen_error(m)
       /\ dlopenCause' = m.cause
  /\ faulted' = TRUE /\ result' = NoResult /\ loaded' = FALSE /\ retried' = FALSE
  /\ calls' = calls + 1
  /\ UNCHANGED << arch_x86, do_dlopen_set, opened >>

(* Lines 249-285 on x86: dlopen fails, the check of line 265 passes and    *)
(* glibc's do_dlopen is called through the mutator's pointer (lines        *)
(* 266-275).  It loads the library (return 1, the string left as it was)   *)
(* or not, and get_dlopen_error runs again on whatever dlerror() has then  *)
(* (line 282).                                                             *)
LoadRetry(lib) ==
  /\ ~faulted /\ calls < MaxCalls /\ arch_x86 /\ do_dlopen_set /\ lib \notin opened
  /\ \E m \in Msgs :
       /\ "found" \in Strstr(get_dlopen_error(m))
       /\ dlopenCause' = m.cause
       /\ \/ /\ errStr' = get_dlopen_error(m) /\ result' = 1 /\ loaded' = TRUE
             /\ opened' = opened \cup {lib}
          \/ /\ \E d \in Msgs \cup {NoMsg} : errStr' = get_dlopen_error(d)
             /\ result' = 0 /\ loaded' = FALSE /\ UNCHANGED opened
  /\ retried' = TRUE
  /\ calls' = calls + 1
  /\ UNCHANGED << arch_x86, do_dlopen_set, faulted >>

Next == \E lib \in Libs : LoadOk(lib) \/ LoadFail(lib) \/ LoadFault(lib) \/ LoadRetry(lib)

Spec == Init /\ [][Next]_vars

-----------------------------------------------------------------------------
(* The string is what the mutator reads when a call returns 0: that a     *)
(* call returns 1 exactly when it loaded the library, and that after a     *)
(* 0 the string is never empty, whichever path of lines 249-284 ran.       *)
LoadReported ==
  /\ result = 1 <=> loaded
  /\ result = 0 => errStr # Empty

=============================================================================
