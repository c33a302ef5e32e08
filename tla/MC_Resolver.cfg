\* The materializer as in MC_ReadTable; the analyzer with one expression of
\* each kind, indices 0..2 and two proven bounds; the walk over four
\* blocks, a four-instruction thunk image and the classifier's trees.
CONSTANTS
  Addr <- MC_Addr
  Invalid = Invalid
  CsCode <- MC_CsCode
  RegionCode <- MC_RegionCode
  MaxIndex = 3
  Bounds <- MC_Bounds
  Hints <- MC_Hints
  BlockLast = 4
  ConstAddrSets <- MC_ConstAddrSets
  Exprs <- AN_Exprs
  Null = Null
  NoIndex = NoIndex
  ProvenBounds <- AN_ProvenBounds
  ScanHigh = 2
  VarargHigh = 1
  NoReg = NoReg
  NoImm = NoImm

SPECIFICATION ResolverSpec

INVARIANT TypeOK
INVARIANT StopNotSkip
INVARIANT VarargReadsCapped
INVARIANT ReachableSound CompleteForStartGraph
INVARIANT ThunksSound 
PROPERTY TableTerminates
PROPERTY WalkTerminates
