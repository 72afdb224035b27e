----------------------------- MODULE MCBilling -----------------------------
(* Two requests about two invoices, a coupon and a registration.           *)
EXTENDS Registrations, TLC
CONSTANTS p1, p2, i1, i2, r1
Symmetry == Permutations({p1, p2}) \cup Permutations({i1, i2})
=============================================================================
