CONSTANTS
  Open <- MCOpen
  Focused = {2}
  Layouts <- MCLayouts
SPECIFICATION ArrangeSpec
INVARIANTS
  RebuiltInOrder
  OpenColumnsUndisturbed
