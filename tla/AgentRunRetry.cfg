SPECIFICATION FairSpec
CONSTANTS
  a1 = a1
  a2 = a2
  w1 = w1
  w2 = w2
  b1 = b1
  Starters = {a1}
  Workers = {w1, w2}
  Beats = {b1}
  NSteps = 2
  Policy <- SafeThenManual
  Protected <- NoStep
  Limits <- OneRetry
PROPERTIES
  QueuedRunStarts
