SPECIFICATION Spec
CONSTANTS
  Mechanics = {m1, m2}
  Copies = {c1, c2}
  Segment = {"new", "contacted"}
  Senders = {s1, s2}
  Workers = {w1}
  Nobody = Nobody
  BatchSize = 2
  MaxCrashes = 1
  StatusEdits = {"paused", "on hold"}
  LeadEdits = {"do_not_contact"}
SYMMETRY Symmetry
INVARIANTS TypeOK QueuedOnce TextsAccounted CountedWasTexted
PROPERTY CompletionIsTrue
