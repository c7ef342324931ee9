SPECIFICATION Spec
CONSTANTS
  Events = {e1, e2}
  Refused = {e2}
  Forwarders = {f1, f2}
  Deliverers = {d1, d2}
  BatchSize = 2
  MaxForward = 2
  MaxDeliver = 2
  MaxRollbacks = 1
SYMMETRY McSymmetry
INVARIANTS TypeOK SentIsTrue DuplicatesNeedRollback
PROPERTIES ImplementsRelay
