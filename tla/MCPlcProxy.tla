----------------------------- MODULE MCPlcProxy -----------------------------
(* Small instances of PlcProxy for TLC. *)
EXTENDS PlcProxy, TLC

CONSTANTS c1, c2, stranger

OneTrain    == {c1}
TwoTrains   == {c1, c2}
OneStranger == {stranger}
NoStranger  == {}

Symmetry == Permutations(Clients)

=============================================================================
