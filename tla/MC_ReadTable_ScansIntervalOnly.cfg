CONSTANTS
  Addr <- MC_Addr
  Invalid = Invalid
  CsCode <- MC_CsCode
  RegionCode <- MC_RegionCode
  MaxIndex = 3
  Bounds <- MC_Bounds
  Hints <- MC_Hints
  BlockLast = 4
  ConstAddrSets <- MC_ConstAddrSets

SPECIFICATION Spec

INVARIANT ScansIntervalOnly
