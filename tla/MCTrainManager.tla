--------------------------- MODULE MCTrainManager ---------------------------
(* Small instances of TrainManager for TLC. *)
EXTENDS TrainManager

CONSTANT t1

OneTrain   == {t1}
NoStranger == {}

=============================================================================
