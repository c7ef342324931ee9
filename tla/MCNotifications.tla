-------------------------- MODULE MCNotifications --------------------------
(* Notifications with small sets of model values. *)
EXTENDS Notifications, TLC

(* Pollers of a service are interchangeable; events are not, as the mail *)
(* server refuses some of them.                                          *)
McSymmetry == Permutations(Forwarders) \cup Permutations(Deliverers)
=============================================================================
