----------------------------- MODULE MCEchoLink -----------------------------
(* Small instances of EchoLink for TLC. *)
EXTENDS EchoLink

CONSTANTS c1, c2

TwoClients == {c1, c2}

=============================================================================
