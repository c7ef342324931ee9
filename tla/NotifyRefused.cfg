SPECIFICATION FairSpec
CONSTANTS
  Events = {e1, e2}
  Refused = {e2}
  Forwarders = {f1}
  Deliverers = {d1}
  BatchSize = 2
  MaxForward = 2
  MaxDeliver = 2
  MaxRollbacks = 1
PROPERTIES EveryAlertSettles
