SPECIFICATION Spec
CONSTANTS
  Tx = {t1, t2}
  NoTx = NoTx
  Record = {ra, rb}
  Dialect = "sqlite"
  AuditDays = 1
  MaxEdits = 1
  MaxDay = 2
  MaxId = 3
  PerTx = 2
  Chunk = 2
SYMMETRY AuditSymmetry
INVARIANTS CleanWhenUntouched EditsAreFound
PROPERTY ImplementsLog
CHECK_DEADLOCK FALSE
