CONSTANTS
  o1 = o1
  oms = oms
  gate = gate
  OrderIds <- OneOrder
  Holders <- TwoHolders
  MaxSeq = 6
SPECIFICATION LifecycleSpec
INVARIANT CopiesWereCommitted
PROPERTY ImplementsContract
