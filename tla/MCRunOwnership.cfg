SPECIFICATION Spec
CONSTANTS
  Processes = {p, q}
  Runs = {r1, r2}
  Trees = {t1}
  MaxSegments = 2
  MaxEdits = 1
INVARIANTS
  Exclusive
  ReviewIsCurrent
  NothingLeftBehind
CHECK_DEADLOCK FALSE
