SPECIFICATION Spec
CONSTANTS
  m1 = m1
  m2 = m2
  m3 = m3
  p1 = p1
  p2 = p2
  pi1 = pi1
  pi2 = pi2
  Mechanics = {m1}
  NoMechanic = NoMechanic
  Places = {p2}
  Nowhere = Nowhere
  InBox <- MCInBox
  InState <- MCInState
  Counts = {2}
  BatchSize = 1
  Responses = {"accepted", "declined", "other"}
  AutoAssign = FALSE
  Intents = {pi1}
  NoIntent = NoIntent
  SkipPayment = FALSE
INVARIANTS
  DispatchedIsConfirmed
