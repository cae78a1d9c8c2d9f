SPECIFICATION Spec
CONSTANTS
  Axes <- TwoAxes
  MaxEvents = 1
  MaxLost = 0
  EditorSize = 8
  Together = FALSE
PROPERTY OkCloses
