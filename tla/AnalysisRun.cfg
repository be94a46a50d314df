SPECIFICATION Spec
CONSTANTS
  r1 = r1
  r2 = r2
  q1 = q1
  q2 = q2
  w1 = w1
  w2 = w2
  Rows = {r1, r2}
  Requests = {q1}
  Agents = {a1}
  Workers = {w1, w2}
  Beats = {b1}
  NoRow = NoRow
  Limits <- CrashSlowOverlap
SYMMETRY Symmetry
CHECK_DEADLOCK FALSE
INVARIANTS
  TypeOK
  CallsBounded
  OneAtWork
PROPERTIES
  WorkersKeepOutcome
  ReportIsReused
