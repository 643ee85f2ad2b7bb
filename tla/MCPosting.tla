----------------------------- MODULE MCPosting -----------------------------
(***************************************************************************)
(* Values for the constants of Posting: small sets of interchangeable ids. *)
(***************************************************************************)
EXTENDS Posting, TLC

Symmetry == Permutations(EventIds) \cup Permutations(Requests)
                \cup Permutations(Nonces) \cup Permutations(Sources)

=============================================================================
