----------------------------- MODULE MCPlanning -----------------------------
(***************************************************************************)
(* Values for the constants of Planning: one batch of two rows.            *)
(***************************************************************************)
EXTENDS Planning, TLC

CONSTANTS b1, r1, r2, k1, k2, e1, e2, q1, q2, t1

Sheets == r1 :> b1 @@ r2 :> b1
Numbers == r1 :> 1 @@ r2 :> 2
Periods == r1 :> k1 @@ r2 :> k2
Amounts == e1 :> 1 @@ e2 :> 2

\* The requests are interchangeable.
RequestSymmetry == Permutations(Requests)

=============================================================================
