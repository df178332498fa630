--------------------------- MODULE MCUserEntries ---------------------------
(* Small instances of UserEntries for TLC. *)
EXTENDS UserEntries, TLC

Symmetry ==
  Permutations(Requests) \cup Permutations(Addresses)
    \cup Permutations(Names) \cup Permutations(Explorers)

=============================================================================
