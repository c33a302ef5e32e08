------------------------------- MODULE Thunks -------------------------------
(***************************************************************************)
(* The Thunk Detector: IndirectControlFlowAnalyzer::FindAllThunks and      *)
(* ThunkAdjustment (src/parseAPI/src/IndirectAnalyzer.C, lines 182-246).   *)
(*                                                                         *)
(* The binary image is a constant map from addresses to decoded            *)
(* instructions; blocks are address ranges [start, end).  One step decodes *)
(* one instruction.  The order in which std::set<Block*> hands out the     *)
(* reachable blocks is pointer order, which the model leaves open, and     *)
(* whether the region returns a buffer for a block (line 211-216) is an    *)
(* input chosen per block.                                                 *)
(***************************************************************************)
EXTENDS Integers, FiniteSets, Sequences, SequencesExt

CONSTANTS
  Width,      \* bits of an Address; values wrap modulo 2^Width
  Regs,       \* machine registers
  NoReg,      \* an operand that is not a register (e.g. memory)
  NoImm,      \* an operand whose eval() is not defined (not an immediate)
  Code,       \* the image: address -> [op, size, dst, imm, writes]
  Reachable   \* the reachable blocks, records [start, end]

AddrSpace == 0 .. (2^Width - 1)

ASSUME NoReg \notin Regs /\ NoImm \notin AddrSpace
ASSUME \A a \in DOMAIN Code : Code[a].size > 0

VARIABLES
  order,    \* the blocks still to scan, in set-iteration order
  bufOK,    \* per block: getPtrToInstruction returned a buffer
  blk,      \* the block being scanned
  cur,      \* Address cur
  thunks,   \* the ThunkData collected: records [addr, reg, value, block]
  done,     \* history: the blocks whose scan ran to the block's end
  pc        \* "next", "scan" or "done"

vars == << order, bufOK, blk, cur, thunks, done, pc >>

(* Bytes outside the image decode as an instruction that is not an add.    *)
Other == [op |-> "other", size |-> 1, dst |-> NoReg, imm |-> NoImm, writes |-> {}]
Insn(a) == IF a \in DOMAIN Code THEN Code[a] ELSE Other

(***************************************************************************)
(* Lines 182-203: the instruction after the call, decoded from the region  *)
(* whether or not it lies in the block, adjusts the value only if it is an *)
(* add whose first operand is the written register and whose second        *)
(* operand evaluates to a constant.                                        *)
(***************************************************************************)
\* Mutant: the register test of line 197 left out.
ThunkAdjustmentAnyReg(afterThunk, reg) ==
  LET next == Insn(afterThunk) IN
  IF next.op = "add" /\ next.dst # NoReg /\ next.imm # NoImm
    THEN next.imm ELSE 0

ThunkAdjustment(afterThunk, reg) ==
  LET next == Insn(afterThunk) IN
  IF next.op = "add" /\ next.dst # NoReg /\ next.dst = reg /\ next.imm # NoImm
    THEN next.imm ELSE 0

(* Lines 232-237: one ThunkInfo per register the thunk's first instruction *)
(* writes; t.value is an Address and wraps.                                *)
ThunkInfos(a, b) ==
  LET ret == (a + Insn(a).size) % 2^Width IN
  { [addr |-> a, reg |-> r, block |-> b,
     value |-> (ret + ThunkAdjustment(ret, r)) % 2^Width] : r \in Insn(a).writes }

Init ==
  /\ order \in SetToSeqs(Reachable)
  /\ bufOK \in [Reachable -> BOOLEAN]
  /\ blk = CHOOSE b \in Reachable : TRUE
  /\ cur = 0
  /\ thunks = {}
  /\ done = {}
  /\ pc = "next"

(* Lines 207-219: take the next block and start decoding at its start.     *)
StartBlock ==
  LET b == Head(order) IN
  /\ pc = "next" /\ order # << >>
  /\ bufOK[b]
  /\ blk' = b /\ cur' = b.start /\ pc' = "scan"
  /\ order' = Tail(order)
  /\ UNCHANGED << bufOK, thunks, done >>

(* Lines 213-216: no buffer for the block: FindAllThunks returns at once,  *)
(* leaving the remaining blocks unscanned.                                 *)
NoBuffer ==
  /\ pc = "next" /\ order # << >>
  /\ ~bufOK[Head(order)]
  /\ pc' = "done"
  /\ UNCHANGED << order, bufOK, blk, cur, thunks, done >>

(* Line 207: every reachable block has been scanned.                       *)
NoMoreBlocks ==
  /\ pc = "next" /\ order = << >>
  /\ pc' = "done"
  /\ UNCHANGED << order, bufOK, blk, cur, thunks, done >>

(* Lines 220-242: decode the instruction at cur; a call to a thunk records *)
(* its ThunkInfos; advance by the instruction's size.                      *)
ScanInsn ==
  /\ pc = "scan" /\ cur < blk.end
  /\ thunks' = IF Insn(cur).op = "thunkcall"
                 THEN thunks \cup ThunkInfos(cur, blk) ELSE thunks
  /\ cur' = cur + Insn(cur).size
  /\ UNCHANGED << order, bufOK, blk, done, pc >>

EndBlock ==
  /\ pc = "scan" /\ cur >= blk.end
  /\ done' = done \cup {blk}
  /\ pc' = "next"
  /\ UNCHANGED << order, bufOK, blk, cur, thunks >>

Done == pc = "done" /\ UNCHANGED vars

Next == StartBlock \/ NoBuffer \/ NoMoreBlocks \/ ScanInsn \/ EndBlock \/ Done

Spec == Init /\ [][Next]_vars /\ WF_vars(Next)

-----------------------------------------------------------------------------
(***************************************************************************)
(* The reference, from spec 4.2 and 8: the instructions of a block are     *)
(* those met decoding from its start; a call to a thunk writing register r *)
(* yields the return address, plus the immediate when the next instruction *)
(* adds an immediate into r.                                               *)
(***************************************************************************)
RECURSIVE InsnAddrsFrom(_, _)
InsnAddrsFrom(a, b) ==
  IF a >= b.end THEN {} ELSE {a} \cup InsnAddrsFrom(a + Insn(a).size, b)

AddsImmInto(a, r) ==
  Insn(a).op = "add" /\ Insn(a).dst = r /\ Insn(a).imm \in AddrSpace

ThunkFacts(b) ==
  UNION { { [addr |-> a, reg |-> r, block |-> b,
             value |-> LET ret == (a + Insn(a).size) % 2^Width
                       IN  IF AddsImmInto(ret, r) THEN (ret + Insn(ret).imm) % 2^Width
                                                  ELSE ret]
            : r \in Insn(a).writes }
          : a \in { a \in InsnAddrsFrom(b.start, b) : Insn(a).op = "thunkcall" } }

(***************************************************************************)
(* Every recorded thunk is a call to a thunk in a reachable block, and the *)
(* value it records for a register is the return address adjusted exactly  *)
(* by an immediate add into that same register.                            *)
(***************************************************************************)
ThunksSound == \A t \in thunks : t \in ThunkFacts(t.block)

=============================================================================
