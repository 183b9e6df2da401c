CONSTANTS
  Thread = {t1, t2}
  DskId = {d1}
SPECIFICATION MksSpec
INVARIANTS UniquePlayinfo
