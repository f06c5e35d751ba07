SPECIFICATION Spec
CONSTANTS
  NumDataHandles = 6
  Operations = {"create", "remove", "get_attr"}
INVARIANTS TreeConsistent
PROPERTIES ImplementsCollectiveOp
