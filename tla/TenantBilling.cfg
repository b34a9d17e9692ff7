SPECIFICATION Spec
CONSTANTS
  small = small big = big widget = widget h1 = h1
  Plans = {small, big}
  Features = {widget}
  FeaturesOf <- MCFeaturesOf
  MechanicFeatures = {widget}
  Subscriptions = {s1, s2}
  MaxActs = 1
  Abandoned = {s2}
  Handlers = {h1}
  None = None
INVARIANTS TypeOK FeaturesArePaidFor OnlyTrialsLockOut
