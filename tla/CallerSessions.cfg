SPECIFICATION Spec
CONSTANTS
  c1 = c1 c2 = c2 k1 = k1 p1 = p1 p2 = p2
  Callers = {c1, c2}
  NoOne = NoOne
  Spots = {p1, p2}
  Owner <- MCOwner
  Nowhere = Nowhere
  ShareLife = 1
  Sessions = {1}
  Codes <- MCCodes
  NoCode = NoCode
  OldCodes <- MCOldCodes
  Calls = {k1}
  NoCall = NoCall
  Caller <- MCCaller
  MapWindow = 0
  CodeLife = 0
  PhoneWindow = 0
  LinkLife = 1
  CallLife = 1
INVARIANTS TypeOK StatusFollowsLocation MatchedIsBacked OneCallerPerSession CallIsLocated
