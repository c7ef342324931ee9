SPECIFICATION Spec
CONSTANTS
  Clients = {c1}
  Invoices = {i1}
  Stays = {s1}
  Payments = {p1, p2, p3}
  DepositKeys = {k1}
  References = {r1}
  NoReference = none
  Nothing = nothing
  MaxTotal = 3
SYMMETRY McSymmetry
INVARIANT ReversalsRecorded
