---------------------------- MODULE MC_ReadTable ----------------------------
(* Model-checking instance of ReadTable: four addresses, one of them not   *)
(* code, one hint whose extent leaves out address 3, and bounds with       *)
(* strides 0, 1 and 2 over indices 0..3.                                   *)
EXTENDS ReadTable

MC_Addr == 1 .. 4
MC_CsCode == {1, 2, 3}
MC_RegionCode == {1, 2}
MC_Bounds == { [stride |-> 1, low |-> 0, high |-> 3],
               [stride |-> 2, low |-> 0, high |-> 3],
               [stride |-> 0, low |-> 0, high |-> 3],
               [stride |-> 1, low |-> 1, high |-> 3] }
MC_Hints == { [addr |-> 0, size |-> 3], [addr |-> 6, size |-> 2] }
MC_ConstAddrSets == { {}, {2, 4} }
=============================================================================
