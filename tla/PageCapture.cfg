SPECIFICATION FairSpec
CONSTANTS
  g1 = g1
  g2 = g2
  Gestures = {g1, g2}
  NoGesture = NoGesture
  Screen = 1
  MaxHeight = 3
  MaxSlices = 4
  Limits <- FewOfEach
  Kinds = 1
CHECK_DEADLOCK FALSE
INVARIANTS
  TypeOK
  NoArmLeft
  NewestSucceeds
  UploadsOwnTab
PROPERTIES
  PicturesOnlyWhileOpen
  CompleteIsWhole
  NothingHangs
