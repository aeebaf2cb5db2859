SPECIFICATION Spec
CONSTANTS
  Tasks = {t1, t2}
  NoTcb = NoTcb
  Values = {"v"}
  Touched = {31}
  Length = 2
  NestMax = 2
INVARIANTS
  MaskedExactly
  OneFrame
PROPERTY
  TaskSpec
CHECK_DEADLOCK FALSE
