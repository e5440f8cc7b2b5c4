SPECIFICATION Spec
CONSTANTS
  Rows = 3
  MaxItems = 8
INVARIANTS
  SelectionVisible
