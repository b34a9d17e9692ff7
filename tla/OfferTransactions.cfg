SPECIFICATION Spec
CONSTANTS
  Mechanics = {m1, m2}
  Reserve = {m4}
  NoMechanic = NoMechanic
  Requests = {r1, r2, r3}
  NoRequest = NoRequest
  Job = Job
  BatchSize = 1
INVARIANTS
  TypeOK
  OneNextWave
  AcceptanceHolds
  RefusalsDeadlockByWave
PROPERTIES
  AnswersFinish
CHECK_DEADLOCK FALSE
