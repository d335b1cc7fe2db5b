---------------------------- MODULE FrameSamples ----------------------------
(***************************************************************************)
(* The frames the unit tests hold to be right (unit_tests/comm.c): octets  *)
(* from an exchange with the PLC, which tie the operators of XWayFrame to  *)
(* the wire.                                                               *)
(***************************************************************************)
EXTENDS XWayFrame

TRAIN1         == 39
UNCHANGED_WORD == 65535

\* The station of the tests, and the PLC.
local    == [station_id |-> 40, network_id |-> 1, porte_id |-> 0]
automate == [station_id |-> 14, network_id |-> 1, porte_id |-> 0]
paquet   == init_write_package(local, automate, TRAIN1, UNCHANGED_WORD, 31)

WriteObjects ==
  <<0, 0, 0, 1, 0, 22, 0, 241, 40, 16, 14, 16, 9, 16, 55, 6, 104, 7,
    39, 0, 3, 0, 40, 0, 255, 255, 31, 0>>

WriteObjectsAck == <<0, 0, 0, 1, 0, 9, 0, 241, 14, 16, 40, 16, 25, 0, 254>>

ReadReceived ==
  <<0, 0, 0, 1, 0, 18, 0, 241, 14, 16, 40, 16, 9, 52, 55, 7, 104, 7,
    9, 0, 1, 0, 31, 0>>

Ack == <<0, 0, 0, 1, 0, 9, 0, 241, 40, 16, 14, 16, 25, 103, 254>>

\* The acknowledgement of the request: its length and its status.
is_write_ack_successful(response) ==
  Octet(response, 5) = LENGTH_ACK /\ Octet(response, 14) = 254

ASSUME test_write_ack_validation == is_write_ack_successful(WriteObjectsAck)

\* The request for the package of the tests.
test_write_req ==
  step \in {"requested", "reported"} /\ package = paquet => requete = WriteObjects

\* The report the PLC gave to it is accepted, with its conversation and switch.
test_read_validation ==
  reponse = ReadReceived /\ [package EXCEPT !.port_ack = 0] = paquet =>
    /\ step # "rejected"
    /\ step = "confirmed" => package.port_ack = 52 /\ switch_id = 31

\* The acknowledgement, in the conversation of the test.
test_ack ==
  step = "confirmed" /\ package = [paquet EXCEPT !.port_ack = 103] => requete = Ack

\* The functions that build and check frames agree, octet by octet, with the
\* frames of a real exchange that the unit tests keep.
UnitTests == test_write_req /\ test_read_validation /\ test_ack

=============================================================================
