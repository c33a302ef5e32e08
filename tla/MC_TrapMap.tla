----------------------------- MODULE MC_TrapMap -----------------------------
(***************************************************************************)
(* The main program and two rewritten libraries A and B, loaded at 10 and *)
(* 20; A has trap sites at offsets 0 and 2, B at offset 1.  With two       *)
(* slots of one-bit words both the empty-word and the full-word fast paths *)
(* of the bitmask scans are taken; with one slot the registry fills up.    *)
(***************************************************************************)
EXTENDS TrapMap

MC_Libs == {"Main", "A", "B"}
MC_Rewritten == {"A", "B"}
MC_Base == [ l \in MC_Libs |-> CASE l = "Main" -> 1 [] l = "A" -> 10 [] l = "B" -> 20 ]
MC_Traps == [ l \in MC_Libs |-> CASE l = "A" -> {0, 2} [] l = "B" -> {1} [] OTHER -> {} ]
=============================================================================
