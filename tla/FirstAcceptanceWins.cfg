SPECIFICATION Spec
CONSTANTS
  Mechanics = {m1, m2}
  Reserve = {m4}
  NoMechanic = NoMechanic
  Requests = {r1, r2}
  NoRequest = NoRequest
  Job = Job
  BatchSize = 1
PROPERTIES
  FirstAcceptanceWins
CHECK_DEADLOCK FALSE
