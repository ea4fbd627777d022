CONSTANTS
  Nodes <- SixNodes
  Trees <- AllTrees
  Processors = {p1}
  LineOf <- OneLine
  Incoherent = FALSE
SPECIFICATION FairSpec
INVARIANTS SubtreeSummed NoOverrun SoleWriter
PROPERTIES RootSummed
CHECK_DEADLOCK FALSE
