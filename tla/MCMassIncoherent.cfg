CONSTANTS
  Nodes <- SevenNodes
  Trees <- LopsidedTree
  Processors = {p1, p2}
  LineOf <- OneLine
  Incoherent = TRUE
SPECIFICATION Spec
INVARIANTS SubtreeSummed
CHECK_DEADLOCK FALSE
