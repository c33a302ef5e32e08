------------------------------ MODULE ThreadInfo ------------------------------
(***************************************************************************)
(* DYNINSTthreadInfo (src/dyninstAPI_RT/src/RTlinux.c, lines 360-486)      *)
(* reads a new thread's stack and start function out of the opaque        *)
(* pthread_t, trying one row of the build's positions table after another  *)
(* (lines 378-409): the first row whose pid and lwp offsets hold the       *)
(* event's ppid and lwp, and whose stack passes the check of line 466,     *)
(* fills the event.  It returns 1 in every case.                           *)
(*                                                                         *)
(* A buffer is what the reads see: at a pid or lwp offset, whether the     *)
(* value equals the event's; at a stack offset, 0, 0xffffffec or a         *)
(* plausible address.  A value read is named by its offset.                *)
(***************************************************************************)
EXTENDS Integers, Sequences, FiniteSets

Row(l, p, f, s) == [lwp_pos |-> l, pid_pos |-> p, start_func_pos |-> f, stck_start_pos |-> s]

(* Lines 378-409: the positions table of each build.                       *)
positions ==
  [ x86_64_m32 |-> << Row(72, 476, 516, 576), Row(72, 76, 516, 84),
                      Row(72, 476, 516, 80), Row(72, 76, 532, 96) >>,
    x86_64     |-> << Row(144, 952, 1008, 160), Row(144, 148, 1000, 160),
                      Row(144, 148, 1000, 688), Row(144, 148, 1024, 192) >>,
    x86        |-> << Row(72, 476, 516, 576), Row(72, 76, 516, 84),
                      Row(72, 76, 532, 592), Row(72, 476, 516, 80) >>,
    ppc64      |-> << Row(72, 76, 508, 576), Row(144, 148, 992, 160),
                      Row(144, 148, 992, 1072) >>,
    ppc32      |-> << Row(72, 76, 508, 576), Row(144, 148, 992, 160),
                      Row(144, 148, 992, 1072) >> ]

Builds == DOMAIN positions

StackVals == {"zero", "ffffffec", "addr"}

(* The offsets a build reads from the buffer, by what it reads there.     *)
IdOffsets(b)    == { positions[b][i].pid_pos : i \in DOMAIN positions[b] }
                     \cup { positions[b][i].lwp_pos : i \in DOMAIN positions[b] }
StackOffsets(b) == IF b = "ppc64"
                     THEN { positions[b][i].stck_start_pos : i \in DOMAIN positions[b] }
                     ELSE {}

(* What the reads of a buffer can see, in build b.                        *)
Buffers(b) == [ IdOffsets(b) -> BOOLEAN ] \X [ StackOffsets(b) -> StackVals ]

(***************************************************************************)
(* Lines 430-443: where stack_addr comes from.  x86 builds read the stack  *)
(* pointer, a plausible address; other POWER builds read the buffer; on    *)
(* ppc32 assert("Fix me.") passes and stack_addr is never assigned, so     *)
(* it is whatever the stack slot held.                                     *)
(***************************************************************************)
StackAddr(b, buf, row) ==
  CASE b \in {"x86_64_m32", "x86_64", "x86"} -> {"addr"}
    [] b = "ppc64"                          -> {buf[2][row.stck_start_pos]}
    [] b = "ppc32"                          -> StackVals

NoThread == [stack_addr |-> "zero", start_pc |-> 0]

(***************************************************************************)
(* Lines 421-486 from row i on: the set of events the call can leave (a    *)
(* set, because of the uninitialised read on ppc32).                       *)
(***************************************************************************)
\* Mutant: the check of line 466 ends the search (a break) instead of
\* trying the next row (a continue).
RECURSIVE ScanStopAtBadStack(_, _, _)
ScanStopAtBadStack(b, buf, i) ==
  IF i > Len(positions[b]) THEN {NoThread}
  ELSE LET row == positions[b][i] IN
       IF ~(buf[1][row.pid_pos] /\ buf[1][row.lwp_pos]) THEN ScanStopAtBadStack(b, buf, i + 1)
       ELSE UNION { IF s \in {"zero", "ffffffec"} THEN {NoThread}
                    ELSE {[stack_addr |-> s, start_pc |-> row.start_func_pos]}
                    : s \in StackAddr(b, buf, row) }

RECURSIVE Scan(_, _, _)
Scan(b, buf, i) ==
  IF i > Len(positions[b]) THEN {NoThread}
  ELSE LET row == positions[b][i] IN
       IF ~(buf[1][row.pid_pos] /\ buf[1][row.lwp_pos]) THEN Scan(b, buf, i + 1)
       ELSE UNION { IF s \in {"zero", "ffffffec"} THEN Scan(b, buf, i + 1)
                    ELSE {[stack_addr |-> s, start_pc |-> row.start_func_pos]}
                    : s \in StackAddr(b, buf, row) }

DYNINSTthreadInfo(b, buf) == Scan(b, buf, 1)

-----------------------------------------------------------------------------
(***************************************************************************)
(* Reference: the event is that of a row whose pid and lwp match and whose *)
(* stack can pass the check, every earlier matching row having a stack     *)
(* that can fail it; no thread only if every matching row can fail it.     *)
(***************************************************************************)
Bad == {"zero", "ffffffec"}
Matching(b, buf) ==
  { i \in DOMAIN positions[b] :
      buf[1][positions[b][i].pid_pos] /\ buf[1][positions[b][i].lwp_pos] }
CanFail(b, buf, i) == StackAddr(b, buf, positions[b][i]) \cap Bad # {}

ThreadInfoRef(b, buf) ==
  UNION { { [stack_addr |-> s, start_pc |-> positions[b][i].start_func_pos] :
              s \in StackAddr(b, buf, positions[b][i]) \ Bad } :
            i \in { k \in Matching(b, buf) :
                      \A j \in Matching(b, buf) : j < k => CanFail(b, buf, j) } }
  \cup (IF \A i \in Matching(b, buf) : CanFail(b, buf, i) THEN {NoThread} ELSE {})

(***************************************************************************)
(* For build b and buffer buf, the loop of lines 421-476 takes the first   *)
(* usable row of the build's table, and reports no thread only when none   *)
(* is usable; with the uninitialised stack_addr of ppc32, the set of       *)
(* outcomes is the reference's.  MC_RTLib checks it for every input.       *)
(***************************************************************************)
FirstUsableRow(b, buf) == DYNINSTthreadInfo(b, buf) = ThreadInfoRef(b, buf)

(* The start functions some buffer makes the lookup read, in build b.     *)
ReadableStartFuncs(b) ==
  { e.start_pc : e \in UNION { DYNINSTthreadInfo(b, buf) : buf \in Buffers(b) } }

(***************************************************************************)
(* The table has a row for each libc layout seen (comment at line 365):    *)
(* for every row of build b, some buffer makes the lookup read that row's  *)
(* start function.                                                         *)
(***************************************************************************)
RowsReadable(b) ==
  \A i \in DOMAIN positions[b] : positions[b][i].start_func_pos \in ReadableStartFuncs(b)
=============================================================================
