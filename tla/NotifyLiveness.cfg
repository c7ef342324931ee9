SPECIFICATION FairSpec
CONSTANTS
  Events = {e1, e2}
  Refused = {}
  Forwarders = {f1}
  Deliverers = {d1}
  BatchSize = 1
  MaxForward = 2
  MaxDeliver = 2
  MaxRollbacks = 1
PROPERTIES EveryAlertSettles
