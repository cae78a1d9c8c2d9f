SPECIFICATION FairSpec
CONSTANTS
  Axes <- TwoAxes
  MaxEvents = 1
  MaxLost = 1
  EditorSize = 1
  Together = FALSE
INVARIANTS TypeOK CaptureIsLive LockedInMotion RefusalShown
PROPERTIES ToggleMeansPress StopAllStops EndsOnlyConfirmed StopHeeded
