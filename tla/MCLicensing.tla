---------------------------- MODULE MCLicensing ----------------------------
(* Instances of Licensing for TLC.                                          *)
EXTENDS Licensing, TLC

CONSTANTS r1, r2, u1, u2, u3, p, q

MCSeats == [r \in Requests |-> IF r = r1 THEN 1 ELSE 2]

=============================================================================
