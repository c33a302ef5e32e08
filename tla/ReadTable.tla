----------------------------- MODULE ReadTable -----------------------------
(***************************************************************************)
(* The Table Materializer: IndirectControlFlowAnalyzer::ReadTable          *)
(* (src/parseAPI/src/IndirectAnalyzer.C, lines 248-312).                   *)
(*                                                                         *)
(* One step of this module is one iteration of the scan loop over the      *)
(* index bound, so the order in which the loop accepts, rejects and stops  *)
(* is visible to the properties.  The inputs of one call (the strided      *)
(* interval, the scan-mode flag, the function's source, the architecture,  *)
(* the constant addresses found by the slicer and the value the concrete   *)
(* evaluator JumpTableReadVisitor produces for each index) are chosen in   *)
(* Init and never change: TLC explores every combination of them.          *)
(***************************************************************************)
EXTENDS Integers, FiniteSets, Sequences, SequencesExt

CONSTANTS
  Addr,          \* addresses the evaluator can produce (small integers)
  Invalid,       \* evaluator result with jtrv.valid = false
  CsCode,        \* addresses for which cs->isCode holds
  RegionCode,    \* addresses for which block->region()->isCode holds
  MaxIndex,      \* largest index value any bound in Bounds reaches
  Bounds,        \* candidate StridedIntervals [stride, low, high]
  Hints,         \* the code source's hint list: records [addr, size]
  BlockLast,     \* block->last(), the address of the indirect jump
  ConstAddrSets  \* candidate sets jtfp.constAddr

ASSUME Invalid \notin Addr
ASSUME CsCode \subseteq Addr /\ RegionCode \subseteq Addr
ASSUME \A b \in Bounds : b.stride >= 0 /\ b.high <= MaxIndex

Index == 0 .. MaxIndex

VARIABLES
  \* inputs of the call
  bound, scanTable, isPpc64, funcIsHint, table, constAddr,
  \* the loop's state
  v, jumpTargets, pc, targetEdges,
  \* history: the indices evaluated and how each was handled (indices only
  \* grow, so the index orders them)
  scanned

inputs == << bound, scanTable, isPpc64, funcIsHint, table, constAddr >>
vars == << inputs, v, jumpTargets, pc, targetEdges, scanned >>

(***************************************************************************)
(* Line 258-259: "if (indexBound.low > 0) start = indexBound.low = start;" *)
(* assigns start (0) to indexBound.low and then to start: the scan starts  *)
(* at index 0 whatever the bound's low end is.                             *)
(***************************************************************************)
ScanStart(b) == IF b.low > 0 THEN 0 ELSE 0

(***************************************************************************)
(* Lines 268-281: the hint that upper_bound(...) then iter-- selects, the  *)
(* last hint whose address is at most block->last().                       *)
(***************************************************************************)
HintsBelow == { h \in Hints : h.addr <= BlockLast }
FuncHint == CHOOSE h \in HintsBelow : \A g \in HintsBelow : g.addr <= h.addr

OutOfFuncRange(t) ==
  /\ funcIsHint
  /\ HintsBelow # {}
  /\ t < FuncHint.addr \/ t >= FuncHint.addr + FuncHint.size

(* Lines 282-293: the tentative-scan guard on the running min and max.     *)
NotMonotone(t) ==
  /\ scanTable
  /\ Cardinality(jumpTargets) > 0
  /\ ~isPpc64
  /\ t < Max(jumpTargets) /\ t > Min(jumpTargets)

(* Line 263: the evaluated entry is valid and is code.                     *)
GoodEntry(t) == t # Invalid /\ t \in CsCode

Init ==
  /\ bound \in Bounds
  /\ scanTable \in BOOLEAN
  /\ isPpc64 \in BOOLEAN
  /\ funcIsHint \in BOOLEAN
  /\ table \in [Index -> Addr \cup {Invalid}]
  /\ constAddr \in ConstAddrSets
  /\ v = ScanStart(bound)
  /\ jumpTargets = {}
  /\ pc = "scan"
  /\ targetEdges = {}
  /\ scanned = {}

Record(outcome) == scanned' = scanned \cup {[idx |-> v, outcome |-> outcome]}

\* Mutant: the stride-0 break of line 302 left out.
AcceptEntryNoStrideBreak ==
  LET t == table[v] IN
  /\ pc = "scan" /\ v <= bound.high
  /\ GoodEntry(t) /\ ~OutOfFuncRange(t) /\ ~NotMonotone(t)
  /\ jumpTargets' = jumpTargets \cup {t}
  /\ pc' = "scan" /\ v' = v + bound.stride
  /\ Record("accepted")
  /\ UNCHANGED << inputs, targetEdges >>

(* Lines 263-303, a good entry passing both guards: insert it, then either *)
(* advance by the stride or, for stride 0, leave the loop (line 302).      *)
AcceptEntry ==
  LET t == table[v] IN
  /\ pc = "scan" /\ v <= bound.high
  /\ GoodEntry(t) /\ ~OutOfFuncRange(t) /\ ~NotMonotone(t)
  /\ jumpTargets' = jumpTargets \cup {t}
  /\ IF bound.stride = 0
       THEN pc' = "merge" /\ v' = v
       ELSE pc' = "scan" /\ v' = v + bound.stride
  /\ Record("accepted")
  /\ UNCHANGED << inputs, targetEdges >>

(* Lines 264-294: a good entry that one of the two guards stops on.        *)
GuardStop ==
  LET t == table[v] IN
  /\ pc = "scan" /\ v <= bound.high
  /\ GoodEntry(t) /\ (OutOfFuncRange(t) \/ NotMonotone(t))
  /\ pc' = "merge"
  /\ Record("stopped")
  /\ UNCHANGED << inputs, v, jumpTargets, targetEdges >>

\* Mutant: a bad entry skipped ("continue") instead of ending the scan.
BadEntrySkip ==
  /\ pc = "scan" /\ v <= bound.high
  /\ ~GoodEntry(table[v])
  /\ IF bound.stride = 0
       THEN pc' = "merge" /\ v' = v
       ELSE pc' = "scan" /\ v' = v + bound.stride
  /\ Record("bad")
  /\ UNCHANGED << inputs, jumpTargets, targetEdges >>

(* Lines 296-301: a bad entry ends the scan, keeping the good entries.     *)
BadEntry ==
  /\ pc = "scan" /\ v <= bound.high
  /\ ~GoodEntry(table[v])
  /\ pc' = "merge"
  /\ Record("bad")
  /\ UNCHANGED << inputs, v, jumpTargets, targetEdges >>

(* Line 260: the loop condition fails.                                     *)
LoopExit ==
  /\ pc = "scan" /\ v > bound.high
  /\ pc' = "merge"
  /\ UNCHANGED << inputs, v, jumpTargets, targetEdges, scanned >>

\* Mutant: the edges pushed with the DIRECT edge type.
EmitEdgesDirect ==
  LET targets == jumpTargets \cup { a \in constAddr : a \in RegionCode } IN
  /\ pc = "merge"
  /\ jumpTargets' = targets
  /\ targetEdges' = { <<t, "DIRECT">> : t \in targets }
  /\ pc' = "done"
  /\ UNCHANGED << inputs, v, scanned >>

(* Lines 304-311: merge the constant addresses that are code in the block's *)
(* region and emit one INDIRECT edge per target.                           *)
EmitEdges ==
  LET targets == jumpTargets \cup { a \in constAddr : a \in RegionCode } IN
  /\ pc = "merge"
  /\ jumpTargets' = targets
  /\ targetEdges' = { <<t, "INDIRECT">> : t \in targets }
  /\ pc' = "done"
  /\ UNCHANGED << inputs, v, scanned >>

Done == pc = "done" /\ UNCHANGED vars

Next ==
  \/ AcceptEntry \/ GuardStop \/ BadEntry \/ LoopExit \/ EmitEdges
  \/ Done

(* The call runs synchronously to completion on its thread (spec section 5): *)
(* a step that is enabled is eventually taken.                             *)
Spec == Init /\ [][Next]_vars /\ WF_vars(Next)

-----------------------------------------------------------------------------
(* Type invariant; among others, every edge ReadTable emits is INDIRECT.  *)
TypeOK ==
  /\ bound \in Bounds
  /\ v \in Nat
  /\ jumpTargets \subseteq Addr
  /\ pc \in {"scan", "merge", "done"}
  /\ targetEdges \subseteq (Addr \X {"INDIRECT"})
  /\ scanned \subseteq [idx : Index, outcome : {"accepted", "stopped", "bad"}]

AcceptedIdx == { r.idx : r \in { r \in scanned : r.outcome = "accepted" } }
TableTargets == { table[i] : i \in AcceptedIdx }

(***************************************************************************)
(* Stop, never skip (spec 4.5, scenario D): once an entry is rejected,     *)
(* as bad or by a guard, the loop evaluates no further index, so no target *)
(* read beyond the first rejected entry reaches the edge list.             *)
(***************************************************************************)
StopNotSkip ==
  \A r \in scanned : r.outcome # "accepted" => \A q \in scanned : q.idx <= r.idx

(* The scan always ends: the loop is bounded by the interval, and stride 0 *)
(* evaluates one index only (line 302).                                    *)
Terminates == <>(pc = "done")

(***************************************************************************)
(* Spec 8, first property: the indices scanned are exactly those of the    *)
(* strided interval, low, low+stride, ..., at most high.                   *)
(***************************************************************************)
IntervalSet(b) == IF b.stride = 0 THEN {b.low}
                  ELSE { i \in b.low .. b.high : (i - b.low) % b.stride = 0 }
ScansIntervalOnly ==
  \A r \in scanned : r.idx \in IntervalSet(bound)
=============================================================================
