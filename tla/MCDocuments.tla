---------------------------- MODULE MCDocuments ----------------------------
(***************************************************************************)
(* Values for the constants of Documents.                                  *)
(***************************************************************************)
EXTENDS Documents, TLC

CONSTANTS f1, f2, n1, rA, rB, rC, q1, q2

\* Files, revisions and requests are interchangeable.
DocumentSymmetry == Permutations(Files) \cup Permutations(Revisions) \cup Permutations(Requests)

=============================================================================
