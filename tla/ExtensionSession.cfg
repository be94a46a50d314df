SPECIFICATION Spec
CONSTANTS
  c1 = c1
  c2 = c2
  d1 = d1
  d2 = d2
  t1 = t1
  t2 = t2
  t3 = t3
  Codes = {c1, c2}
  Devices = {d1, d2}
  Tokens = {t1, t2, t3}
  Pages = {p1}
  Popup = popup
  NoDevice = NoDevice
  NoToken = NoToken
  NoCode = NoCode
  Limits <- OneOfEach
  Kinds = 1
SYMMETRY Symmetry
CHECK_DEADLOCK FALSE
INVARIANTS
  TypeOK
  UnlinkedStaysUnlinked
  CodeConnectsOne
PROPERTIES
  RevokedForGood
  UnbindIsHonest
  ConnectionLasts
