SPECIFICATION Spec
CONSTANTS
  Clients = {c1, c2}
  Invoices = {i1, i2}
  Stays = {s1}
  Payments = {p1, p2}
  DepositKeys = {}
  References = {r1}
  NoReference = none
  Nothing = nothing
  MaxTotal = 2
SYMMETRY McSymmetry
INVARIANT NeverOvercollected
