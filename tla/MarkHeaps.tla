------------------------------ MODULE MarkHeaps ------------------------------
(***************************************************************************)
(* mark_heaps_exec (src/dyninstAPI_RT/src/RTlinux.c, lines 157-193) makes  *)
(* the two static heaps of the runtime library executable, so that the     *)
(* mutator can place instrumentation in them: it rounds each heap's start  *)
(* down to a page with the mask ~(pageSize - 1) and calls mprotect from    *)
(* there over the heap's end.  When sysconf gives no page size it guesses  *)
(* 16K.  Failures are only printed.                                        *)
(*                                                                         *)
(* Addresses and sizes are in units of 1K, in an address space of          *)
(* AddrBits bits.  mprotect is the kernel's: EINVAL for a start that is    *)
(* not on a page of the machine, else every page the range touches.        *)
(***************************************************************************)
EXTENDS Integers, Bitwise

CONSTANT AddrBits         \* width of an unsigned long, in the model's units

PageGuess == 16           \* line 165: 1024 * 16

(* ~x of an unsigned long.                                                 *)
Complement(x) == (2^AddrBits - 1) - x

(* Lines 160-166: the page size used, given what sysconf returned.         *)
UsedPageSize(sc) == IF sc = 0 \/ sc = -1 THEN PageGuess ELSE sc

(* mprotect(addr, len, PROT_READ|PROT_WRITE|PROT_EXEC) on a machine with  *)
(* pages of size real: its result and the pages it made executable.        *)
mprotect(addr, len, real) ==
  IF addr % real # 0 THEN [ok |-> FALSE, exec |-> {}]
  ELSE [ok |-> TRUE, exec |-> (addr \div real) .. ((addr + len - 1) \div real)]

\* Mutant: the size passed is the heap's own, not extended by the rounding.
MarkHeapUnextended(ps, real, heap) ==
  LET aligned == heap.addr & Complement(ps - 1)
  IN mprotect(aligned, heap.size, real)
(* Lines 169-178 (and 182-190 for the second heap): align the start, add  *)
(* the bytes the rounding put before the heap, protect.                    *)
MarkHeap(ps, real, heap) ==
  LET aligned == heap.addr & Complement(ps - 1)
      adjustedSize == heap.addr - aligned + heap.size
  IN mprotect(aligned, adjustedSize, real)

(* Lines 157-193: both heaps, with the page size of lines 160-166.         *)
mark_heaps_exec(sc, real, anyHeap, lowmemHeap) ==
  << MarkHeap(UsedPageSize(sc), real, anyHeap),
     MarkHeap(UsedPageSize(sc), real, lowmemHeap) >>

-----------------------------------------------------------------------------
(* Reference: every byte of a heap lies on an executable page.             *)
HeapExecutable(heap, res, real) ==
  \A a \in heap.addr .. heap.addr + heap.size - 1 : a \div real \in res.exec

(* When the page size used is a multiple of the machine's (it is the       *)
(* machine's, or the 16K guess on a machine of 4K or 16K pages), both      *)
(* mprotect calls succeed and both heaps are executable in full.           *)
HeapsExecutableFor(sc, real, anyHeap, lowmemHeap) ==
  LET res == mark_heaps_exec(sc, real, anyHeap, lowmemHeap) IN
  UsedPageSize(sc) % real = 0 =>
    /\ res[1].ok /\ HeapExecutable(anyHeap, res[1], real)
    /\ res[2].ok /\ HeapExecutable(lowmemHeap, res[2], real)
=============================================================================
