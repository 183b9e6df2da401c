CONSTANTS
  Thread = {t1, t2}
  DskId = {d1, d2}
SPECIFICATION MksSpec
INVARIANTS StopHeard
