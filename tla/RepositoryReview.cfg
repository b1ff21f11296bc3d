SPECIFICATION Spec
CONSTANTS
  Names = {"AGENTS.md", "code", "moved"}
  Roots <- MCRoots
  Instructions <- MCRoots
  Order <- MCOrder
  Inodes = {i1, i2, i3}
  None = None
  Undefined = Undefined
  MaxEdits = 2
  MaxRenames = 1
  MaxMessages = 3
SYMMETRY InodeSymmetry
INVARIANTS
  DriftIsShown
PROPERTIES
  ToolLosesNothing
CHECK_DEADLOCK FALSE
