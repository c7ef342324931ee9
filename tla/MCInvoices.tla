----------------------------- MODULE MCInvoices -----------------------------
(* Invoices with small sets of model values. *)
EXTENDS Invoices, TLC

(* Rows and requests are interchangeable, and so are references. *)
McSymmetry ==
  Permutations(Clients) \cup Permutations(Invoices) \cup Permutations(Payments)
    \cup Permutations(References)
=============================================================================
