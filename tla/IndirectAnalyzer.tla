-------------------------- MODULE IndirectAnalyzer --------------------------
(***************************************************************************)
(* The Resolution Orchestrator: IndirectControlFlowAnalyzer::              *)
(* NewJumpTableAnalysis (src/parseAPI/src/IndirectAnalyzer.C, 60-154).     *)
(*                                                                         *)
(* It composes the Format Classifier (module Classifier, lines 101-109),   *)
(* the bound resolution of lines 111-141, and the Table Materializer       *)
(* (module ReadTable, lines 142-150), and returns whether any edge was     *)
(* found (line 153).  Reachability scoping and thunk detection (lines      *)
(* 66-72) are modelled on their own (modules Reachability and Thunks);     *)
(* here they only produce the slicer's results, which are inputs.          *)
(*                                                                         *)
(* The index slicer and the last-resort bound analysis (JumpTableIndexPred *)
(* and BoundFactsCalculator) are not under src/: whether each finds a      *)
(* bound, and which, is a nondeterministic choice over ProvenBounds.       *)
(***************************************************************************)
EXTENDS Integers, FiniteSets, Sequences

CONSTANTS
  \* Format Classifier
  Exprs, Null, NoIndex,
  \* Table Materializer
  Addr, Invalid, CsCode, RegionCode, MaxIndex, Hints, BlockLast, ConstAddrSets,
  \* bound resolution
  ProvenBounds,   \* the StridedIntervals the index analyses may prove
  ScanHigh,       \* the high end of StridedInterval(1, 0, 255), line 136
  VarargHigh      \* the high end of StridedInterval(1, 0, 8), line 140

ScanBound == [stride |-> 1, low |-> 0, high |-> ScanHigh]
VarargBound == [stride |-> 1, low |-> 0, high |-> VarargHigh]

VARIABLES
  \* classifier state (module Classifier)
  expr, jtFormat, isEntry, outcome, index,
  \* materializer state (module ReadTable; its pc is rtPc)
  bound, scanTable, isPpc64, funcIsHint, table, constAddr,
  v, jumpTargets, rtPc, targetEdges, scanned,
  \* the orchestrator's own
  isAarch64,  \* block->obj()->cs()->getArch() == Arch_aarch64
  findBound,  \* jtip.findBound
  stage,      \* where NewJumpTableAnalysis is
  result      \* its return value

C == INSTANCE Classifier
RT == INSTANCE ReadTable WITH pc <- rtPc, Bounds <- ProvenBounds \cup {ScanBound, VarargBound}

cvars == << expr, jtFormat, isEntry, outcome, index >>
rvars == << bound, scanTable, isPpc64, funcIsHint, table, constAddr,
            v, jumpTargets, rtPc, targetEdges, scanned >>
ovars == << isAarch64, findBound, stage, result >>
vars == << cvars, rvars, ovars >>

Init ==
  /\ C!CInit
  /\ bound = ScanBound /\ scanTable = FALSE
  /\ isPpc64 \in BOOLEAN /\ funcIsHint \in BOOLEAN
  /\ table \in [RT!Index -> Addr \cup {Invalid}]
  /\ constAddr \in ConstAddrSets
  /\ v = 0 /\ jumpTargets = {} /\ rtPc = "scan" /\ targetEdges = {} /\ scanned = {}
  /\ isAarch64 \in BOOLEAN
  /\ findBound = FALSE
  /\ stage = "classify"
  /\ result = FALSE

(* Lines 101-109: classify the jump-target expression.                     *)
Classify ==
  /\ stage = "classify"
  /\ C!Classify
  /\ stage' = "classified"
  /\ UNCHANGED << rvars, isAarch64, findBound, result >>

(* Line 107: neither form: return false with no edge.                      *)
RejectFormat ==
  /\ stage = "classified" /\ outcome = "fail"
  /\ stage' = "returned" /\ result' = FALSE
  /\ UNCHANGED << cvars, rvars, isAarch64, findBound >>

(* The undefined cast of IsIndexing took the parser down.                  *)
Crash ==
  /\ stage = "classified" /\ outcome = "crash"
  /\ stage' = "crashed"
  /\ UNCHANGED << cvars, rvars, isAarch64, findBound, result >>

(* Lines 113-117: slice backwards from the index; jtip may find a bound.   *)
IndexSlice ==
  /\ stage = "classified" /\ outcome = "jumptable"
  /\ findBound' \in BOOLEAN
  /\ bound' \in IF findBound' THEN ProvenBounds ELSE {bound}
  /\ stage' = "sliced"
  /\ UNCHANGED << cvars, scanTable, isPpc64, funcIsHint, table, constAddr,
                  v, jumpTargets, rtPc, targetEdges, scanned, isAarch64, result >>

(***************************************************************************)
(* Lines 119-130: without a bound, and not on aarch64, the last-resort     *)
(* analysis assuming a one-byte read may still bound the index.            *)
(***************************************************************************)
LastResort ==
  /\ stage = "sliced"
  /\ IF ~findBound /\ ~isAarch64
       THEN /\ findBound' \in BOOLEAN
            /\ bound' \in IF findBound' THEN ProvenBounds ELSE {bound}
       ELSE UNCHANGED << findBound, bound >>
  /\ stage' = "bounded"
  /\ UNCHANGED << cvars, scanTable, isPpc64, funcIsHint, table, constAddr,
                  v, jumpTargets, rtPc, targetEdges, scanned, isAarch64, result >>

(* The materializer's loop state as ReadTable(b, scanTable) starts it.     *)
StartRead(b, scan) ==
  /\ bound' = b /\ scanTable' = scan
  /\ v' = RT!ScanStart(b)
  /\ UNCHANGED << isPpc64, funcIsHint, table, constAddr, jumpTargets, rtPc,
                  targetEdges, scanned >>

\* Mutant: the vararg bound taken as the scan bound of line 136.
ChooseBoundVarargWide ==
  /\ \/ stage = "bounded" /\ findBound /\ StartRead(bound, FALSE)
     \/ stage = "bounded" /\ ~findBound /\ StartRead(ScanBound, TRUE)
     \/ stage = "classified" /\ outcome = "vararg" /\ StartRead(ScanBound, FALSE)
  /\ stage' = "read"
  /\ UNCHANGED << cvars, isAarch64, findBound, result >>

(***************************************************************************)
(* Lines 131-141 and 142-149: the proven bound, else [1, 0, 255] as a      *)
(* heuristic scan; for the vararg form [1, 0, 8]; then call ReadTable.     *)
(***************************************************************************)
ChooseBound ==
  /\ \/ stage = "bounded" /\ findBound /\ StartRead(bound, FALSE)
     \/ stage = "bounded" /\ ~findBound /\ StartRead(ScanBound, TRUE)
     \/ stage = "classified" /\ outcome = "vararg" /\ StartRead(VarargBound, FALSE)
  /\ stage' = "read"
  /\ UNCHANGED << cvars, isAarch64, findBound, result >>

(* One iteration of ReadTable's loop, or its final merge.                  *)
ReadStep ==
  /\ stage = "read"
  /\ \/ RT!AcceptEntry \/ RT!GuardStop \/ RT!BadEntry \/ RT!LoopExit \/ RT!EmitEdges
  /\ UNCHANGED << cvars, ovars >>

(* Lines 151-153: append the edges and return whether there are any.       *)
Return ==
  /\ stage = "read" /\ rtPc = "done"
  /\ stage' = "returned" /\ result' = (targetEdges # {})
  /\ UNCHANGED << cvars, rvars, isAarch64, findBound >>

Done == stage \in {"returned", "crashed"} /\ UNCHANGED vars

Next ==
  \/ Classify \/ RejectFormat \/ Crash \/ IndexSlice \/ LastResort
  \/ ChooseBound \/ ReadStep \/ Return \/ Done

(* The resolution is one synchronous call on its parsing thread (spec 5).  *)
Spec == Init /\ [][Next]_vars /\ WF_vars(Next)

-----------------------------------------------------------------------------
TypeOK ==
  /\ C!CTypeOK
  /\ RT!TypeOK
  /\ findBound \in BOOLEAN /\ result \in BOOLEAN
  /\ stage \in {"classify", "classified", "sliced", "bounded", "read", "returned", "crashed"}

(***************************************************************************)
(* Spec 4.4 step 5 and 8: a variable-argument dispatch reads no table      *)
(* entry beyond its fixed cap, whatever the classifier saw.                *)
(***************************************************************************)
VarargReadsCapped ==
  outcome = "vararg" => \A r \in scanned : r.idx <= VarargHigh

=============================================================================
