------------------------------ MODULE MCEntities ------------------------------
(* The table of entities on small servers; edicts are interchangeable.      *)
EXTENDS EntityTable, TLC

Symmetry == Permutations(Edicts)

=============================================================================
