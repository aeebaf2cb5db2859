SPECIFICATION Spec
CONSTANTS
  Images <- SmallImages
  ItcmBase = 1
  ItcmSize = 2
  DtcmBase = 3
  DtcmSize = 2
  FatalOnError = TRUE
  Waits = 2
  Hpm = 3
  Causes = {2}
  MaxCount = 2
INVARIANTS
  ImageLoaded
  TimerTrapsInWait
  CountersAgree
  VerdictTrue
PROPERTY
  RunEnds
CHECK_DEADLOCK FALSE
