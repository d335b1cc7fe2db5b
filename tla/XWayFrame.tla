----------------------------- MODULE XWayFrame -----------------------------
(***************************************************************************)
(* The frames of a command to the PLC (remote_test/comm.c), octet by octet *)
(* where the program fills or reads them: the write request, the report of *)
(* the PLC and its acknowledgement.                                        *)
(*                                                                         *)
(* A frame is the sequence of the octets that are sent, octet i of the     *)
(* code being element i + 1.  Integers keep their widths: a station id is  *)
(* a word of which the frame has the low octet; network and port share an  *)
(* octet.                                                                  *)
(***************************************************************************)
EXTENDS Integers, Sequences

Nibble == {x \in Nat : x < 16}
Byte   == {x \in Nat : x < 256}
Word   == {x \in Nat : x < 65536}
Address == [station_id : Word, network_id : Byte, porte_id : Byte]

CONSTANTS Addresses,      \* the addresses of the stations
          Values,         \* the words a command carries
          Conversations,  \* the octets 13 the PLC chooses
          Lengths         \* the lengths its frames announce

ASSUME FrameAssumption ==
  /\ Addresses \subseteq Address
  /\ Values \subseteq Word
  /\ Conversations \subseteq Byte
  /\ Lengths \subseteq Byte

VARIABLES
  step,       \* where the exchange is
  package,    \* what the command says
  requete,    \* the frame the program sent last
  reponse,    \* the frame it received last
  switch_id,  \* the switch it read from it
  report      \* what the PLC meant by it

vars == <<step, package, requete, reponse, switch_id, report>>

-----------------------------------------------------------------------------
\* invert_byte_order: the low octet goes first.

Octet(frame, i) == frame[i + 1]

HighLost(word) == 0

Low(word)  == word % 256
High(word) == (word \div 256) % 256

UncutNetPort(a) == a.network_id * 16 + (a.porte_id % 16)

Station(a) == a.station_id % 256
NetPort(a) == ((a.network_id * 16) % 256) + (a.porte_id % 16)

NPDU == 241           \* data, standard service, refusal accepted, extended address
CODE_SEND == 9
CODE_RECEIVE == 25
UNITE_WRITE_OBJECT == 55
LENGTH_REQUEST == 22
LENGTH_ACK == 9
LENGTH_REPORT == 18

\* The program leaves port_ack unset until a report tells it; 0 stands for it.
init_write_package(local, automate, train, section, switch) ==
  [emitter |-> local, reciever |-> automate, port_ack |-> 0,
   address_start |-> train, word_count |-> 3,
   train_station_id |-> local.station_id, section_id |-> section, switch_id |-> switch]

build_write_request(p) ==
  <<0, 0, 0, 1, 0, LENGTH_REQUEST, 0, NPDU,
    Station(p.emitter), NetPort(p.emitter), Station(p.reciever), NetPort(p.reciever),
    CODE_SEND, 16, UNITE_WRITE_OBJECT, 6, 104, 7,
    Low(p.address_start), High(p.address_start), Low(p.word_count), High(p.word_count),
    Low(p.train_station_id), High(p.train_station_id),
    Low(p.section_id), High(p.section_id), Low(p.switch_id), High(p.switch_id)>>

build_ack(p) ==
  <<0, 0, 0, 1, 0, LENGTH_ACK, 0, NPDU,
    Station(p.emitter), NetPort(p.emitter), Station(p.reciever), NetPort(p.reciever),
    CODE_RECEIVE, p.port_ack, 254>>

AnySender(response, request) ==
  /\ Octet(response, 5) = LENGTH_REPORT
  /\ Octet(response, 10) = Octet(request, 8) /\ Octet(response, 11) = Octet(request, 9)

\* The frame has the length of a report and its addresses are those of the
\* request, swapped.
is_read_successful(response, request) ==
  /\ Octet(response, 5) = LENGTH_REPORT
  /\ Octet(response, 8) = Octet(request, 10) /\ Octet(response, 9) = Octet(request, 11)
  /\ Octet(response, 10) = Octet(request, 8) /\ Octet(response, 11) = Octet(request, 9)

HighFirst(response) == Octet(response, 22) * 256 + Octet(response, 23)

SwitchRead(response) == Octet(response, 23) * 256 + Octet(response, 22)

OldConversation(response) == package.port_ack

port_number(response) == Octet(response, 13)

-----------------------------------------------------------------------------
\* The PLC's side: what an address is on the wire, and how frames are read there.

WireAddress == [station : Byte, network : Nibble, porte : Nibble]

OnWire(a) == [station |-> a.station_id % 256,
              network |-> a.network_id % 16,
              porte   |-> a.porte_id % 16]

WireRead(frame, i) == [station |-> Octet(frame, i),
                       network |-> Octet(frame, i + 1) \div 16,
                       porte   |-> Octet(frame, i + 1) % 16]

WordRead(frame, i) == Octet(frame, i) + 256 * Octet(frame, i + 1)

Report == [emitter : WireAddress, reciever : WireAddress, conversation : Byte,
           switch : Word, length : Byte]

ReportFrame(r) ==
  <<0, 0, 0, 1, 0, r.length, 0, NPDU,
    r.emitter.station, r.emitter.network * 16 + r.emitter.porte,
    r.reciever.station, r.reciever.network * 16 + r.reciever.porte,
    9, r.conversation, 55, 7, 104, 7, 9, 0, 1, 0, r.switch % 256, r.switch \div 256>>

-----------------------------------------------------------------------------

NoReport == [emitter      |-> [station |-> 0, network |-> 0, porte |-> 0],
             reciever     |-> [station |-> 0, network |-> 0, porte |-> 0],
             conversation |-> 0, switch |-> 0, length |-> 0]

Init ==
  /\ step = "package"
  /\ \E local, automate \in Addresses, train, section, switch \in Values :
       package = init_write_package(local, automate, train, section, switch)
  /\ requete = <<>> /\ reponse = <<>>
  /\ switch_id = 0
  /\ report = NoReport

SendRequest ==
  /\ step = "package"
  /\ step' = "requested"
  /\ requete' = build_write_request(package)
  /\ UNCHANGED <<package, reponse, switch_id, report>>

\* A station reports, not always the one that was asked nor to the one that asked.
PlcReports ==
  /\ step = "requested"
  /\ step' = "reported"
  /\ \E from, to \in Addresses, c \in Conversations, s \in Values, n \in Lengths :
       report' = [emitter |-> OnWire(from), reciever |-> OnWire(to), conversation |-> c,
                  switch |-> s, length |-> n]
  /\ reponse' = ReportFrame(report')
  /\ UNCHANGED <<package, requete, switch_id>>

AcceptReport ==
  /\ step = "reported"
  /\ is_read_successful(reponse, requete)
  /\ step' = "confirmed"
  /\ switch_id' = SwitchRead(reponse)
  /\ package' = [package EXCEPT !.port_ack = port_number(reponse)]
  /\ requete' = build_ack(package')
  /\ UNCHANGED <<reponse, report>>

RejectReport ==
  /\ step = "reported"
  /\ ~is_read_successful(reponse, requete)
  /\ step' = "rejected"
  /\ switch_id' = SwitchRead(reponse)
  /\ UNCHANGED <<package, requete, reponse, report>>

Next == SendRequest \/ PlcReports \/ AcceptReport \/ RejectReport

Spec == Init /\ [][Next]_vars

-----------------------------------------------------------------------------
(* Properties *)

Package == [emitter : Address, reciever : Address, port_ack : Byte, address_start : Word,
            word_count : Word, train_station_id : Word, section_id : Word, switch_id : Word]

\* Every field has its width, and every octet of a frame that is sent is one.
TypeOK ==
  /\ step \in {"package", "requested", "reported", "confirmed", "rejected"}
  /\ package \in Package
  /\ \A i \in DOMAIN requete : requete[i] \in Byte
  /\ \A i \in DOMAIN reponse : reponse[i] \in Byte
  /\ switch_id \in Word
  /\ report \in Report

\* The PLC reads from the request what the command says, whatever the values of
\* its words; of the addresses it reads what fits on the wire.
RequestReadsBack ==
  step \in {"requested", "reported"} =>
    /\ WireRead(requete, 8) = OnWire(package.emitter)
    /\ WireRead(requete, 10) = OnWire(package.reciever)
    /\ WordRead(requete, 18) = package.address_start
    /\ WordRead(requete, 22) = package.train_station_id
    /\ WordRead(requete, 24) = package.section_id
    /\ WordRead(requete, 26) = package.switch_id

\* A report is accepted only from the station that was asked, and only when it is
\* for the station that asked.
AcceptedIsReply ==
  step = "confirmed" =>
    report.emitter = OnWire(package.reciever) /\ report.reciever = OnWire(package.emitter)

\* The acknowledgement goes to the station that reported, from the one it reported
\* to, in the conversation the report opened.
AckReachesReporter ==
  step = "confirmed" =>
    /\ WireRead(requete, 8) = report.reciever
    /\ WireRead(requete, 10) = report.emitter
    /\ Octet(requete, 13) = report.conversation

\* The switch the program learns from a report is the one the PLC reported.
SwitchIsReported == step \in {"confirmed", "rejected"} => switch_id = report.switch

\* What the proofs rest on: each frame is the one the code, or the PLC, makes of the
\* values that are known of it.
IInv ==
  /\ step \in {"package", "requested", "reported", "confirmed", "rejected"}
  /\ package \in Package
  /\ report \in Report
  /\ requete = CASE step = "package"   -> <<>>
                 [] step = "confirmed" -> build_ack(package)
                 [] OTHER              -> build_write_request(package)
  /\ reponse = IF step \in {"package", "requested"} THEN <<>> ELSE ReportFrame(report)
  /\ switch_id = IF step \in {"confirmed", "rejected"} THEN report.switch ELSE 0
  /\ AcceptedIsReply
  /\ step = "confirmed" => package.port_ack = report.conversation

=============================================================================
