----------------------- MODULE MCResourceManagerProxy -----------------------
(* Small instances of ResourceManagerProxy for TLC. *)
EXTENDS ResourceManagerProxy, TLC

CONSTANTS c1, c2, stranger

TwoClients  == {c1, c2}
OneClient   == {c1}
OneStranger == {stranger}
NoStranger  == {}
TwoAnswers  == {"GRANTED", "REFUSED"}
OneAnswer   == {"GRANTED"}

=============================================================================
