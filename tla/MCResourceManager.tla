------------------------- MODULE MCResourceManager -------------------------
(* Small instances of ResourceManager for TLC. *)
EXTENDS ResourceManager, TLC

CONSTANTS m1, m2

TwoManagers == {m1, m2}

Symmetry == Permutations(Managers)

=============================================================================
