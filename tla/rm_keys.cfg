CONSTANTS
  o1 = o1  o2 = o2  o3 = o3  Nowhere = Nowhere
  Objects <- ThreeObjects
  RosAlloc <- Spaces
  Los <- OneLarge
SPECIFICATION Spec
SYMMETRY Symmetry
INVARIANTS TypeOK KeysFollowObjects EntriesFollowStubs
