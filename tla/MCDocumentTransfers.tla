------------------------- MODULE MCDocumentTransfers -------------------------
(* Symmetry of the ids, for TLC.                                            *)
EXTENDS DocumentTransfers, TLC

MCSymmetry ==
    Permutations(Uploads) \cup Permutations(Downloads)
    \cup Permutations(Documents) \cup Permutations(Requests)
=============================================================================
