---------------------------- MODULE MCXWayFrame ----------------------------
(* A small instance of XWayFrame for TLC. *)
EXTENDS FrameSamples

Station1(s, n, p) == [station_id |-> s, network_id |-> n, porte_id |-> p]

\* The station of the unit tests and the PLC, the program's station on another
\* network and port, and one that is wider than the frame.
SmallAddresses == {Station1(40, 1, 0), Station1(14, 1, 0), Station1(36, 15, 15),
                   Station1(300, 17, 18)}

\* A train and a switch of the unit tests, a word of two octets, and "unchanged".
SmallValues == {39, 31, 258, 65535}

\* The octets 13 of the unit tests.
SmallConversations == {52, 103}

\* The length of a report and that of an acknowledgement.
SmallLengths == {LENGTH_REPORT, LENGTH_ACK}

=============================================================================
