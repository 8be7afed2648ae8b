CONSTANTS
  Open <- MCOpen
  Focused = {1, 2}
  Layouts <- MCLayouts
SPECIFICATION ArrangeSpec
INVARIANT OpenColumnsUndisturbed
