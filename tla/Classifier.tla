----------------------------- MODULE Classifier -----------------------------
(***************************************************************************)
(* The Format Classifier: IsIndexing and IsVariableArgumentFormat          *)
(* (src/parseAPI/src/IndirectAnalyzer.C, lines 21-58) and the decision of  *)
(* NewJumpTableAnalysis between jump-table form, variable-argument form    *)
(* and failure (lines 101-109).                                            *)
(*                                                                         *)
(* The jump-target expression is an AST: a RoseAST [kind |-> "rose", op,   *)
(* kids], a VariableAST [kind |-> "var", reg] or a ConstantAST             *)
(* [kind |-> "const", val].  The slicer's verdict isJumpTableFormat(), the *)
(* expression it found (or Null) and whether the block is the function's  *)
(* entry block are the inputs.                                             *)
(*                                                                         *)
(* IsIndexing casts its argument to RoseAST without looking at its kind    *)
(* (line 22).  Line 51 passes it a child that may be a leaf; reading       *)
(* val().op of a leaf through that cast is undefined: the build either    *)
(* sees an op that is not a scaling one and returns false, or goes on to   *)
(* child(0) of a leaf and crashes.  Both outcomes are kept.                *)
(***************************************************************************)
EXTENDS Integers, FiniteSets, Sequences

CONSTANTS
  Exprs,      \* candidate jump-target expressions
  Null,       \* jtfp.jumpTargetExpr is a null pointer
  NoIndex     \* the index AbsRegion before a classifier assigns it

VARIABLES
  expr,       \* jtfp.jumpTargetExpr
  jtFormat,   \* jtfp.isJumpTableFormat()
  isEntry,    \* func->entry() == block
  outcome,    \* "pending", "jumptable", "vararg", "fail" or "crash"
  index       \* jtfp.index as the vararg classifier leaves it

cvars == << expr, jtFormat, isEntry, outcome, index >>

IsRose(n) == n.kind = "rose"
IsVar(n) == n.kind = "var"
IsConst(n) == n.kind = "const"
ScalingOps == {"sMultOp", "uMultOp", "shiftLOp", "rotateLOp"}

(***************************************************************************)
(* Lines 21-32.  The outcomes, as a set of records [ok, index, crash], of  *)
(* IsIndexing on node n: one for a RoseAST; for a leaf, false or a crash.  *)
(***************************************************************************)
NotVararg == {[ok |-> FALSE, index |-> NoIndex, crash |-> FALSE]}
UndefinedCast == NotVararg \cup {[ok |-> FALSE, index |-> NoIndex, crash |-> TRUE]}
Indexes(r) == {[ok |-> TRUE, index |-> r, crash |-> FALSE]}

IsIndexing(n) ==
  IF ~IsRose(n) THEN UndefinedCast
  ELSE IF n.op \in ScalingOps /\ IsVar(n.kids[1]) /\ IsConst(n.kids[2])
       THEN Indexes(n.kids[1].reg)
       ELSE NotVararg

(***************************************************************************)
(* Lines 34-58: const + (invert(I) + 1), or const + I for a RoseAST I that *)
(* is not an addition, where I must pass IsIndexing.                       *)
(***************************************************************************)
IsVariableArgumentFormat(t) ==
  IF ~IsRose(t) \/ t.op # "addOp" THEN NotVararg
  ELSE IF ~IsConst(t.kids[1]) \/ ~IsRose(t.kids[2]) THEN NotVararg
  ELSE LET c1 == t.kids[2] IN
       IF c1.op = "addOp"
         THEN IF /\ IsRose(c1.kids[1]) /\ IsConst(c1.kids[2])
                 /\ c1.kids[1].op = "invertOp" /\ c1.kids[2].val = 1
                THEN IsIndexing(c1.kids[1].kids[1])
                ELSE NotVararg
         ELSE IsIndexing(c1)

CInit ==
  /\ expr \in Exprs \cup {Null}
  /\ jtFormat \in BOOLEAN
  /\ isEntry \in BOOLEAN
  /\ outcome = "pending"
  /\ index = NoIndex

(***************************************************************************)
(* Lines 101-109: jump-table form first; the variable-argument form only   *)
(* for a non-null expression in the entry block; otherwise return false.   *)
(* The && of line 103 evaluates IsVariableArgumentFormat last.             *)
(***************************************************************************)
Classify ==
  /\ outcome = "pending"
  /\ IF jtFormat THEN outcome' = "jumptable" /\ UNCHANGED index
     ELSE IF expr = Null \/ ~isEntry THEN outcome' = "fail" /\ UNCHANGED index
     ELSE \E r \in IsVariableArgumentFormat(expr) :
            IF r.crash THEN outcome' = "crash" /\ UNCHANGED index
            ELSE IF r.ok THEN outcome' = "vararg" /\ index' = r.index
            ELSE outcome' = "fail" /\ UNCHANGED index
  /\ UNCHANGED << expr, jtFormat, isEntry >>

CDone == outcome # "pending" /\ UNCHANGED cvars

CSpec == CInit /\ [][Classify \/ CDone]_cvars

-----------------------------------------------------------------------------
CTypeOK ==
  /\ jtFormat \in BOOLEAN /\ isEntry \in BOOLEAN
  /\ outcome \in {"pending", "jumptable", "vararg", "fail", "crash"}

(* Classifying a jump-target expression never crashes the parser.          *)
NoClassifierCrash == outcome # "crash"
=============================================================================
