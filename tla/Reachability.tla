---------------------------- MODULE Reachability ----------------------------
(***************************************************************************)
(* The Reachability Scoper: IndirectControlFlowAnalyzer::                  *)
(* GetAllReachableBlock (src/parseAPI/src/IndirectAnalyzer.C, 159-179),    *)
(* a breadth-first walk over the predecessor ("sources") edges of the      *)
(* block that ends in the indirect jump, following intraprocedural edges.  *)
(*                                                                         *)
(* It runs while other parsing threads extend the CFG (spec section 5).    *)
(* A Parser step adds one edge to a block's source list.  Reading a        *)
(* block's source list happens under that block's lock (line 169), and so  *)
(* does adding to it, so each is one atomic step.  Adding a source edge    *)
(* takes no function lock, so a parser step may fall between any two       *)
(* steps of the walk, as spec section 5 expects.                           *)
(***************************************************************************)
EXTENDS Integers, FiniteSets, Sequences, SequencesExt, Graphs

CONSTANTS
  Blocks,        \* the function's blocks (small integers)
  Start,         \* "block": the block ending in the indirect jump
  EdgeUniverse   \* edges <<src, dst, intraproc>> the CFG may come to hold

ASSUME Start \in Blocks
ASSUME EdgeUniverse \subseteq (Blocks \X Blocks \X BOOLEAN)

VARIABLES
  edges,       \* the CFG's edges; sources(b) are those whose dst is b
  initEdges,   \* history: the edges present when the walk started
  q,           \* queue<Block*> q
  reachable,   \* the analyzer's "reachable" set
  pc           \* the analyzer's position: "walk" or "done"

vars == << edges, initEdges, q, reachable, pc >>

Sources(b) == { e \in edges : e[2] = b }

\* Mutant: every in-edge followed, interprocedural ones included.
AllSrcs(b) == SetToSortSeq({ e[1] : e \in Sources(b) }, <)

(* Lines 170-176: the source blocks of cur's intraprocedural in-edges, in *)
(* the order they are pushed.                                              *)
IntraSrcs(b) == SetToSortSeq({ e[1] : e \in { e \in Sources(b) : e[3] } }, <)

Init ==
  /\ edges \in SUBSET EdgeUniverse
  /\ initEdges = edges
  /\ q = << Start >>                                     \* lines 161-163
  /\ reachable = {}
  /\ pc = "walk"

\* Mutant: the visited test made before the pop, the "continue" leaving
\* the block at the head of the queue.
PopVisitedNoPop ==
  /\ pc = "walk" /\ q # << >>
  /\ Head(q) \in reachable
  /\ UNCHANGED << edges, initEdges, q, reachable, pc >>

(* Line 167: a block already in the set is popped and skipped.             *)
PopVisited ==
  /\ pc = "walk" /\ q # << >>
  /\ Head(q) \in reachable
  /\ q' = Tail(q)
  /\ UNCHANGED << edges, initEdges, reachable, pc >>

\* Mutant: the sources marked when pushed, while line 167 still tests at pop.
PopNewMarkOnPush ==
  LET cur == Head(q) IN
  /\ pc = "walk" /\ q # << >>
  /\ cur \notin reachable
  /\ reachable' = reachable \cup {cur} \cup ToSet(IntraSrcs(cur))
  /\ q' = Tail(q) \o IntraSrcs(cur)
  /\ UNCHANGED << edges, initEdges, pc >>

(* Lines 165-176: pop a new block, mark it, and, holding its lock, push    *)
(* the sources of its intraprocedural in-edges.                            *)
PopNew ==
  LET cur == Head(q) IN
  /\ pc = "walk" /\ q # << >>
  /\ cur \notin reachable
  /\ reachable' = reachable \cup {cur}
  /\ q' = Tail(q) \o IntraSrcs(cur)
  /\ UNCHANGED << edges, initEdges, pc >>

(* Line 164: the queue is empty, the walk returns.                         *)
Finish ==
  /\ pc = "walk" /\ q = << >>
  /\ pc' = "done"
  /\ UNCHANGED << edges, initEdges, q, reachable >>

(***************************************************************************)
(* Another parsing thread discovers a predecessor and appends the edge to  *)
(* the target block's source list under the block's lock.  The CFG only    *)
(* grows while the function is parsed.                                     *)
(***************************************************************************)
AddSource(e) ==
  /\ e \notin edges
  /\ edges' = edges \cup {e}
  /\ UNCHANGED << initEdges, q, reachable, pc >>

Done == pc = "done" /\ UNCHANGED vars

Next ==
  \/ PopVisited \/ PopNew \/ Finish
  \/ \E e \in EdgeUniverse : AddSource(e)
  \/ Done

Spec == Init /\ [][Next]_vars /\ WF_vars(PopVisited \/ PopNew \/ Finish)

-----------------------------------------------------------------------------
(* The intraprocedural graph of a set of edges, in the Graphs module's form. *)
IntraGraph(E) == [node |-> Blocks, edge |-> { <<e[1], e[2]>> : e \in { e \in E : e[3] } }]
Reaching(E) == {Start} \cup Ancestors(IntraGraph(E), Start)

(***************************************************************************)
(* Every block the walk collects reaches the jump block through            *)
(* intraprocedural edges of the current CFG: no call edge is followed.     *)
(***************************************************************************)
ReachableSound == reachable \subseteq Reaching(edges)

(***************************************************************************)
(* When the walk returns, it has collected every block that reached the    *)
(* jump block when it started: edges added concurrently never hide a       *)
(* block that was already connected.                                       *)
(***************************************************************************)
CompleteForStartGraph == pc = "done" => Reaching(initEdges) \subseteq reachable

(* The walk returns, even while parsers keep adding edges.                 *)
Terminates == <>(pc = "done")

=============================================================================
