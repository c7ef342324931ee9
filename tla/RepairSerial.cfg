SPECIFICATION Spec
CONSTANTS
  Clients = {c1}
  Orders = {o1}
  Products = {p1}
  MaxStock = 2
  MaxMoney = 2
  MaxCash = 4
  MaxAdvances = 6
  PaymentIds = {r1}
  TestNames = {encendido}
  Phases <- McPhases
  WfStates <- McStates
  WfInitial = "recibido"
  WfTerminal <- McTerminal
  WfMoves <- McMoves
  WfPhase <- McPhase
INVARIANTS ClosedOrderHoldsNoStock CashRecorded RequestBookedOnce DeliveredTested
PROPERTIES DeliveryIsDedicated
