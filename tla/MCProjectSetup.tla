--------------------------- MODULE MCProjectSetup ---------------------------
(***************************************************************************)
(* Values for the constants of ProjectSetup.                               *)
(***************************************************************************)
EXTENDS ProjectSetup, TLC

\* Requests, ids of templates, values and entities are interchangeable.
Symmetry ==
    Permutations(Requests) \cup Permutations(Ids)
        \cup Permutations(Values) \cup Permutations(Entities)

=============================================================================
