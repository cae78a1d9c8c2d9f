SPECIFICATION Spec
CONSTANTS
  N = 2
  Far = 2
  FullSpeed = 1
  Word = 3
PROPERTIES Move3DWhole RefusedLeavesAlone
