--------------------------- MODULE MC_Resolver -----------------------------
(***************************************************************************)
(* The resolver's parts, checked by one run as a disjoint union: the Table *)
(* Materializer on its own (as MC_ReadTable configures it), the whole      *)
(* resolution of one indirect jump (IndirectAnalyzer), the Reachability    *)
(* Scoper over a four-block graph, the Thunk Detector and the           *)
(* Format Classifier over every tree of the shapes it inspects.  which     *)
(* picks the part in the initial state and the other parts' variables stay *)
(* at one initial state of theirs, so each part's behaviours are explored  *)
(* once and the state count is the sum of the parts'.  (FindAllThunks and  *)
(* the walk run before the format slice, and their results reach the      *)
(* classifier and the materializer only through the slicer, which is not   *)
(* under src/.)  The stand-alone materializer keeps ReadTable's names; the *)
(* composed one's are prefixed with "a" (its pc is rtPc), the stand-alone  *)
(* classifier's with "k"; the walk's pc is walkPc and the scan's scanPc.   *)
(***************************************************************************)
EXTENDS MC_ReadTable

CONSTANTS Exprs, Null, NoIndex, ProvenBounds, ScanHigh, VarargHigh, NoReg, NoImm

VARIABLES
  expr, jtFormat, isEntry, outcome, index,
  aBound, aScanTable, aIsPpc64, aFuncIsHint, aTable, aConstAddr,
  aV, aJumpTargets, rtPc, aTargetEdges, aScanned,
  isAarch64, findBound, stage, result,
  edges, initEdges, q, reachable, walkPc,         \* the walk's
  order, bufOK, blk, cur, thunks, done, scanPc,           \* the thunk scan's
  kExpr, kJtFormat, kIsEntry, kOutcome, kIndex,           \* the classifier's
  which   \* "readtable", "analyzer", "reachability", "thunks" or "classifier"

(* As MC_IndirectAnalyzer: one expression of each kind the classifier      *)
(* tells apart, the index 0..2 (ScanHigh 2 stands for 255 and VarargHigh 1 *)
(* for 8), and two proven bounds.                                          *)
Var(r) == [kind |-> "var", reg |-> r]
Const(c) == [kind |-> "const", val |-> c]
Rose(o, k) == [kind |-> "rose", op |-> o, kids |-> k]

AN_Exprs ==
  { Rose("addOp", << Const(4), Rose("addOp", << Rose("invertOp", << Rose("sMultOp", << Var("ax"), Const(4) >>) >>), Const(1) >>) >>),
    Rose("addOp", << Const(4), Rose("shiftLOp", << Var("bx"), Const(1) >>) >>),
    Rose("addOp", << Const(4), Rose("addOp", << Rose("invertOp", << Var("ax") >>), Const(1) >>) >>),
    Rose("addOp", << Var("ax"), Const(4) >>) }
AN_ProvenBounds == { [stride |-> 1, low |-> 1, high |-> 2], [stride |-> 0, low |-> 1, high |-> 1] }

A == INSTANCE IndirectAnalyzer WITH
       Exprs <- Exprs, Null <- Null, NoIndex <- NoIndex,
       Addr <- 1 .. 3, Invalid <- Invalid, CsCode <- {1, 2}, RegionCode <- {1, 2},
       MaxIndex <- 2, Hints <- { [addr |-> 0, size |-> 3] }, BlockLast <- 4,
       ConstAddrSets <- { {}, {2} }, ProvenBounds <- ProvenBounds,
       ScanHigh <- ScanHigh, VarargHigh <- VarargHigh,
       bound <- aBound, scanTable <- aScanTable, isPpc64 <- aIsPpc64,
       funcIsHint <- aFuncIsHint, table <- aTable, constAddr <- aConstAddr,
       v <- aV, jumpTargets <- aJumpTargets, targetEdges <- aTargetEdges,
       scanned <- aScanned

analyzerVars ==
  << expr, jtFormat, isEntry, outcome, index,
     aBound, aScanTable, aIsPpc64, aFuncIsHint, aTable, aConstAddr,
     aV, aJumpTargets, rtPc, aTargetEdges, aScanned,
     isAarch64, findBound, stage, result >>
(* Four blocks, block 1 ending in the indirect jump, a                    *)
(* cycle 1 -> 3 -> 2 -> 1, a self loop, and block 4 reaching the jump      *)
(* block by a call edge and through block 3.                               *)
RC_EdgeUniverse ==
  { <<2, 1, TRUE>>, <<3, 2, TRUE>>, <<1, 3, TRUE>>, <<2, 2, TRUE>>,
    <<4, 1, FALSE>>, <<4, 3, TRUE>> }

R == INSTANCE Reachability WITH
       Blocks <- 1 .. 4, Start <- 1, EdgeUniverse <- RC_EdgeUniverse, pc <- walkPc

(* A 4-bit address space with four reachable blocks:                       *)
(*   [0,6)   call thunk writing bx and cx; add bx, 5; other                *)
(*   [6,10)  call thunk writing bx and cx; call thunk writing cx, the      *)
(*           block's last instruction, followed in the next block by       *)
(*   [10,13) add cx, 14 (the value wraps past 2^4); add to memory          *)
(*   [13,16) call thunk writing bx; add bx, reg (no immediate)             *)
I(op, size, dst, imm, writes) ==
  [op |-> op, size |-> size, dst |-> dst, imm |-> imm, writes |-> writes]

TH_Code ==
  (0 :> I("thunkcall", 2, NoReg, NoImm, {"bx", "cx"})) @@
  (2 :> I("add", 2, "bx", 5, {})) @@
  (4 :> I("other", 2, NoReg, NoImm, {})) @@
  (6 :> I("thunkcall", 2, NoReg, NoImm, {"bx", "cx"})) @@
  (8 :> I("thunkcall", 2, NoReg, NoImm, {"cx"})) @@
  (10 :> I("add", 2, "cx", 14, {})) @@
  (12 :> I("add", 1, NoReg, 3, {})) @@
  (13 :> I("thunkcall", 1, NoReg, NoImm, {"bx"})) @@
  (14 :> I("add", 2, "bx", NoImm, {}))
TH_Reachable == { [start |-> 0, end |-> 6], [start |-> 6, end |-> 10],
                  [start |-> 10, end |-> 13], [start |-> 13, end |-> 16] }

T == INSTANCE Thunks WITH
       Width <- 4, Regs <- {"bx", "cx"}, NoReg <- NoReg, NoImm <- NoImm,
       Code <- TH_Code, Reachable <- TH_Reachable, pc <- scanPc

(* As MC_Classifier: every tree built from two registers and the constants *)
(* 1 and 4 with the shapes the two classifiers inspect: a constant (or a   *)
(* product of constants) added to a middle term, the middle term an        *)
(* addition of an operand, possibly inverted, and a leaf, down to scaling, *)
(* shift and addition nodes over leaves.  Every early return of lines      *)
(* 34-58 is reached by some tree.                                          *)
Leaves == { Var("ax"), Var("bx"), Const(1), Const(4) }
Small == Leaves \cup { Rose(o, << l, r >>) : o \in {"sMultOp", "shiftLOp", "addOp"},
                                             l \in Leaves, r \in Leaves }
Inverted == { Rose("invertOp", << s >>) : s \in Small }
Mid == Small \cup { Rose("addOp", << c, l >>) : c \in Small \cup Inverted, l \in Leaves }
Top == { Rose("addOp", << a, m >>) : a \in Leaves \cup { Rose("sMultOp", << Const(4), Const(4) >>) },
                                     m \in Mid }

K == INSTANCE Classifier WITH
       Exprs <- Small \cup Top, Null <- Null, NoIndex <- NoIndex,
       expr <- kExpr, jtFormat <- kJtFormat, isEntry <- kIsEntry,
       outcome <- kOutcome, index <- kIndex

walkVars == << edges, initEdges, q, reachable, walkPc >>
scanVars == << order, bufOK, blk, cur, thunks, done, scanPc >>
kVars == << kExpr, kJtFormat, kIsEntry, kOutcome, kIndex >>
allVars == << vars, analyzerVars, walkVars, scanVars, kVars, which >>

(* The materializer at one initial state: the first stride-1 bound, every  *)
(* entry invalid.                                                          *)
TableIdle ==
  /\ bound = [stride |-> 1, low |-> 0, high |-> 3]
  /\ table = [i \in Index |-> Invalid]
  /\ scanTable = FALSE /\ isPpc64 = FALSE /\ funcIsHint = FALSE
  /\ constAddr = {}
  /\ Init

(* The analyzer at one initial state: a null expression, every entry       *)
(* invalid.                                                                *)
AnalyzerIdle ==
  /\ expr = Null /\ jtFormat = FALSE /\ isEntry = FALSE
  /\ aIsPpc64 = FALSE /\ aFuncIsHint = FALSE /\ aConstAddr = {}
  /\ aTable = [i \in 0 .. 2 |-> Invalid]
  /\ isAarch64 = FALSE
  /\ A!Init

(* The walk at one initial state: no edges.                                *)
WalkIdle == edges = {} /\ R!Init

(* The thunk scan at one initial state: some block order, every buffer     *)
(* readable.                                                               *)
FirstOrder == CHOOSE s \in SetToSeqs(TH_Reachable) : TRUE
AllBuffers == [b \in TH_Reachable |-> TRUE]
ScanIdle == order = FirstOrder /\ bufOK = AllBuffers /\ T!Init

(* The classifier at a null expression.                                    *)
ClassifierIdle ==
  /\ kExpr = Null /\ kJtFormat = FALSE /\ kIsEntry = FALSE
  /\ kOutcome = "pending" /\ kIndex = NoIndex

ResolverInit ==
  \/ which = "readtable" /\ AnalyzerIdle /\ WalkIdle /\ ScanIdle /\ ClassifierIdle /\ Init
  \/ which = "analyzer" /\ TableIdle /\ WalkIdle /\ ScanIdle /\ ClassifierIdle /\ A!Init
  \/ which = "reachability" /\ TableIdle /\ AnalyzerIdle /\ ScanIdle /\ ClassifierIdle /\ R!Init
  \/ which = "thunks" /\ TableIdle /\ AnalyzerIdle /\ WalkIdle /\ ClassifierIdle /\ T!Init
  \/ which = "classifier" /\ TableIdle /\ AnalyzerIdle /\ WalkIdle /\ ScanIdle /\ K!CInit

(* A step of one part, the others left alone.                              *)
TableStep(S) ==
  which = "readtable" /\ S /\ UNCHANGED << analyzerVars, walkVars, scanVars, kVars, which >>
AnalyzerStep(S) ==
  which = "analyzer" /\ S /\ UNCHANGED << vars, walkVars, scanVars, kVars, which >>
WalkStep(S) ==
  which = "reachability" /\ S /\ UNCHANGED << vars, analyzerVars, scanVars, kVars, which >>
ScanStep(S) ==
  which = "thunks" /\ S /\ UNCHANGED << vars, analyzerVars, walkVars, kVars, which >>
ClassifyStep(S) ==
  which = "classifier" /\ S /\ UNCHANGED << vars, analyzerVars, walkVars, scanVars, which >>

ResolverNext ==
  \/ TableStep(Next) \/ AnalyzerStep(A!Next) \/ WalkStep(R!Next)
  \/ ScanStep(T!Next) \/ ClassifyStep(K!Classify \/ K!CDone)

(* Every part is one synchronous call on the parsing thread (spec 5): its  *)
(* own steps are taken.  Parsers adding edges during the walk get no       *)
(* fairness.                                                               *)
ResolverSpec ==
  /\ ResolverInit /\ [][ResolverNext]_allVars
  /\ WF_allVars(TableStep(Next)) /\ WF_allVars(AnalyzerStep(A!Next))
  /\ WF_allVars(WalkStep(R!PopVisited \/ R!PopNew \/ R!Finish))

-----------------------------------------------------------------------------
(* Each part's properties, checked in the states of that part: elsewhere   *)
(* its variables are at the initial state they were fixed at.              *)

(* ReadTable's Terminates: the scan loop always ends.                      *)
TableTerminates == which = "readtable" => Terminates

(* IndirectAnalyzer's VarargReadsCapped: a variable-argument dispatch      *)
(* reads no table entry beyond its fixed cap.                              *)
VarargReadsCapped == A!VarargReadsCapped

(* Reachability's ReachableSound: every block collected reaches the jump   *)
(* block through intraprocedural edges of the current graph.               *)
ReachableSound == which = "reachability" => R!ReachableSound

(* Reachability's CompleteForStartGraph: when the walk returns it has      *)
(* every block that reached the jump block in the graph it started from.   *)
CompleteForStartGraph == which = "reachability" => R!CompleteForStartGraph

(* Reachability's Terminates: the walk returns, even while parsers keep    *)
(* adding edges.                                                           *)
WalkTerminates == which = "reachability" => R!Terminates

(* Thunks' ThunksSound: every recorded thunk is a call to a thunk in a     *)
(* reachable block, its value the return address adjusted exactly by an   *)
(* immediate add into the same register.                                   *)
ThunksSound == which = "thunks" => T!ThunksSound

=============================================================================
