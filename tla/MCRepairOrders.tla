--------------------------- MODULE MCRepairOrders ---------------------------
(* Instances of RepairOrders for TLC: a small REPAIR workflow with a       *)
(* cancellation, a delivery and a warranty that returns to work.           *)
EXTENDS RepairOrders, TLC

McStates   == {"recibido", "reparacion", "listo", "entregado", "garantia", "cancelado"}
McTerminal == {"cancelado"}
McMoves ==
  {<<"recibido", "reparacion">>, <<"reparacion", "listo">>, <<"listo", "entregado">>,
   <<"entregado", "garantia">>, <<"garantia", "reparacion">>,
   <<"reparacion", "cancelado">>}
McPhases == {"INTAKE", "WORK", "READY", "DELIVERED", "WARRANTY", "CANCELLED"}
McPhase ==
  [s \in McStates |->
     CASE s = "recibido"   -> "INTAKE"
       [] s = "reparacion" -> "WORK"
       [] s = "listo"      -> "READY"
       [] s = "entregado"  -> "DELIVERED"
       [] s = "garantia"   -> "WARRANTY"
       [] s = "cancelado"  -> "CANCELLED"]

McSymmetry == Permutations(Clients)
=============================================================================
