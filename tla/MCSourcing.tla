----------------------------- MODULE MCSourcing -----------------------------
(***************************************************************************)
(* Values for the constants of Sourcing: two vendors, one of which may     *)
(* quote again.                                                            *)
(***************************************************************************)
EXTENDS Sourcing, TLC

CONSTANTS a1, a2, b1, vA, vB, q1, q2

Vendors == a1 :> vA @@ a2 :> vA @@ b1 :> vB

\* Requests are interchangeable, and so are the quotations of one vendor.
SourcingSymmetry == Permutations(Requests) \cup Permutations({a1, a2})

=============================================================================
