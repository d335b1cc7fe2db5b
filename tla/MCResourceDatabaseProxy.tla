---------------------- MODULE MCResourceDatabaseProxy ----------------------
(* Small instances of ResourceDatabaseProxy for TLC. *)
EXTENDS ResourceDatabaseProxy

CONSTANTS t1, t2, t3, r1, r2, outOfRange

TwoTrains   == {t1, t2}
ThreeTrains == {t1, t2, t3}
OneResource == {r1}
TwoResources == {r1, r2}
OneId == {r1, outOfRange}
TwoIds == {r1, r2, outOfRange}

OneUnit == {1}
OneOrTwoUnits == {1, 2}

=============================================================================
