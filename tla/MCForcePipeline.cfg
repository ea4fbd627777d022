CONSTANTS
  Layouts <- AllLayouts
  Massless <- MasslessSets
SPECIFICATION Spec
INVARIANTS RadixTreeBuilt OctreeBuilt EachBodyOnce OnlySingular
PROPERTIES StackSpec
CHECK_DEADLOCK FALSE
