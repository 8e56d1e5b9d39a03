SPECIFICATION Spec
CONSTANTS
  Kind = {"forward"}
  Handler = {h1, h2}
  NoRow = NoRow
  Actions = 3
  Edits = 3
SYMMETRY Symmetry
INVARIANTS TypeOK ReorderStands
PROPERTIES NewestLast ImplementsActionList
CHECK_DEADLOCK FALSE
