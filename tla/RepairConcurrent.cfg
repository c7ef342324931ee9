SPECIFICATION Spec
CONSTANTS
  Clients = {c1, c2}
  Orders = {o1}
  Products = {p1}
  MaxStock = 1
  MaxMoney = 1
  MaxCash = 2
  MaxAdvances = 3
  PaymentIds = {}
  TestNames = {encendido}
  Phases <- McPhases
  WfStates <- McStates
  WfInitial = "recibido"
  WfTerminal <- McTerminal
  WfMoves <- McMoves
  WfPhase <- McPhase
SYMMETRY McSymmetry
INVARIANTS TypeOK RowsCoherent CancelledHoldsNoStock StockConserved
PROPERTIES ConsumedIsFinal WorkflowFollowsGraph
