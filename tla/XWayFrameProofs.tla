-------------------------- MODULE XWayFrameProofs --------------------------
(***************************************************************************)
(* Theorems about XWayFrame, for any addresses and any words: what is read *)
(* from a frame is what was put into it, as far as its widths allow; and   *)
(* the frames the unit tests keep are those the operators make and accept. *)
(***************************************************************************)
EXTENDS FrameSamples, TLAPS

-----------------------------------------------------------------------------
(* Octets *)

\* A word is read back from its two octets, in either notation.
LEMMA WordOctets ==
  ASSUME NEW w \in Word
  PROVE  /\ Low(w) \in Byte /\ High(w) \in Byte
         /\ Low(w) + 256 * High(w) = w
         /\ w % 256 \in Byte /\ w \div 256 \in Byte
         /\ (w \div 256) * 256 + (w % 256) = w
  BY DEF Word, Byte, Low, High

\* Network and port are read back from their octet, four bits of each.
LEMMA AddressOctets ==
  ASSUME NEW a \in Address
  PROVE  /\ Station(a) \in Byte /\ NetPort(a) \in Byte
         /\ NetPort(a) \div 16 = a.network_id % 16
         /\ NetPort(a) % 16 = a.porte_id % 16
<1>1. a.station_id \in Word /\ a.network_id \in Byte /\ a.porte_id \in Byte
  BY DEF Address
<1> QED
  BY <1>1 DEF Station, NetPort, Word, Byte

\* An octet has room for any network and port of the wire.
LEMMA WireOctet ==
  ASSUME NEW n \in Nibble, NEW p \in Nibble, NEW x, x = n * 16 + p
  PROVE  x \in Byte /\ x \div 16 = n /\ x % 16 = p
  BY DEF Nibble, Byte

-----------------------------------------------------------------------------
(* The frames *)

\* The request has its addresses and words where the PLC reads them.
LEMMA RequestOctets ==
  ASSUME NEW p \in Package, NEW f, f = build_write_request(p)
  PROVE  /\ \A i \in DOMAIN f : f[i] \in Byte
         /\ Octet(f, 8) = Station(p.emitter) /\ Octet(f, 9) = NetPort(p.emitter)
         /\ Octet(f, 10) = Station(p.reciever) /\ Octet(f, 11) = NetPort(p.reciever)
         /\ Octet(f, 18) = Low(p.address_start) /\ Octet(f, 19) = High(p.address_start)
         /\ Octet(f, 22) = Low(p.train_station_id) /\ Octet(f, 23) = High(p.train_station_id)
         /\ Octet(f, 24) = Low(p.section_id) /\ Octet(f, 25) = High(p.section_id)
         /\ Octet(f, 26) = Low(p.switch_id) /\ Octet(f, 27) = High(p.switch_id)
<1>1. \A w \in Word : Low(w) \in Byte /\ High(w) \in Byte
  BY WordOctets
<1>2. \A a \in Address : Station(a) \in Byte /\ NetPort(a) \in Byte
  BY AddressOctets
<1>3. /\ Station(p.emitter) \in Byte /\ NetPort(p.emitter) \in Byte
      /\ Station(p.reciever) \in Byte /\ NetPort(p.reciever) \in Byte
      /\ Low(p.address_start) \in Byte /\ High(p.address_start) \in Byte
      /\ Low(p.word_count) \in Byte /\ High(p.word_count) \in Byte
      /\ Low(p.train_station_id) \in Byte /\ High(p.train_station_id) \in Byte
      /\ Low(p.section_id) \in Byte /\ High(p.section_id) \in Byte
      /\ Low(p.switch_id) \in Byte /\ High(p.switch_id) \in Byte
  BY <1>1, <1>2 DEF Package
<1>4. \A i \in DOMAIN f : f[i] \in Byte
  <2>1. DOMAIN f = 1 .. 28
    BY DEF build_write_request
  <2>2. ASSUME NEW i \in 1 .. 8
        PROVE  f[i] \in Byte
    BY DEF build_write_request, Byte, LENGTH_REQUEST, NPDU
  <2>3. ASSUME NEW i \in 9 .. 18
        PROVE  f[i] \in Byte
    BY <1>3 DEF build_write_request, Byte, CODE_SEND, UNITE_WRITE_OBJECT
  <2>4. ASSUME NEW i \in 19 .. 28
        PROVE  f[i] \in Byte
    BY <1>3 DEF build_write_request
  <2> QED
    BY <2>1, <2>2, <2>3, <2>4
<1> QED
  BY <1>4 DEF build_write_request, Octet

\* So has the acknowledgement.
LEMMA AckOctets ==
  ASSUME NEW p \in Package, NEW f, f = build_ack(p)
  PROVE  /\ \A i \in DOMAIN f : f[i] \in Byte
         /\ Octet(f, 8) = Station(p.emitter) /\ Octet(f, 9) = NetPort(p.emitter)
         /\ Octet(f, 10) = Station(p.reciever) /\ Octet(f, 11) = NetPort(p.reciever)
         /\ Octet(f, 13) = p.port_ack
<1>1. \A a \in Address : Station(a) \in Byte /\ NetPort(a) \in Byte
  BY AddressOctets
<1> QED
  BY <1>1 DEF build_ack, Octet, Package, Byte, LENGTH_ACK, NPDU, CODE_RECEIVE

\* And the report, as the PLC builds it.
LEMMA ReportOctets ==
  ASSUME NEW r \in Report, NEW f, f = ReportFrame(r)
  PROVE  /\ \A i \in DOMAIN f : f[i] \in Byte
         /\ WireRead(f, 8) = r.emitter /\ WireRead(f, 10) = r.reciever
         /\ Octet(f, 13) = r.conversation
         /\ SwitchRead(f) = r.switch
<1>1. ASSUME NEW a \in WireAddress
      PROVE  /\ a.station \in Byte /\ a.network * 16 + a.porte \in Byte
             /\ (a.network * 16 + a.porte) \div 16 = a.network
             /\ (a.network * 16 + a.porte) % 16 = a.porte
             /\ a = [station |-> a.station, network |-> a.network, porte |-> a.porte]
  BY <1>1, WireOctet DEF WireAddress
<1>2. /\ r.emitter \in WireAddress /\ r.reciever \in WireAddress
      /\ r.conversation \in Byte /\ r.length \in Byte /\ r.switch \in Word
  BY DEF Report
<1>3. /\ r.switch % 256 \in Byte /\ r.switch \div 256 \in Byte
      /\ (r.switch \div 256) * 256 + (r.switch % 256) = r.switch
  BY <1>2, WordOctets
<1>4. /\ Octet(f, 8) = r.emitter.station
      /\ Octet(f, 9) = r.emitter.network * 16 + r.emitter.porte
      /\ Octet(f, 10) = r.reciever.station
      /\ Octet(f, 11) = r.reciever.network * 16 + r.reciever.porte
      /\ Octet(f, 13) = r.conversation
      /\ Octet(f, 22) = r.switch % 256 /\ Octet(f, 23) = r.switch \div 256
  BY DEF ReportFrame, Octet
<1>5. \A i \in DOMAIN f : f[i] \in Byte
  <2>1. /\ r.emitter.network * 16 + r.emitter.porte \in Byte
        /\ r.reciever.network * 16 + r.reciever.porte \in Byte
        /\ r.emitter.station \in Byte /\ r.reciever.station \in Byte
    BY <1>1, <1>2
  <2> QED
    BY <1>2, <1>3, <2>1 DEF ReportFrame, Byte, NPDU
<1>6. WireRead(f, 8) = r.emitter /\ WireRead(f, 10) = r.reciever
  BY <1>1, <1>2, <1>4 DEF WireRead
<1>7. SwitchRead(f) = r.switch
  BY <1>3, <1>4 DEF SwitchRead
<1> QED
  BY <1>4, <1>5, <1>6, <1>7

\* What is read of an address from the octets the program makes of it.
LEMMA AddressRead ==
  ASSUME NEW a \in Address, NEW f, NEW i \in Int,
         Octet(f, i) = Station(a), Octet(f, i + 1) = NetPort(a)
  PROVE  WireRead(f, i) = OnWire(a)
  BY AddressOctets DEF WireRead, OnWire, Station

\* On the wire an address is one.
LEMMA OnWireType == \A a \in Address : OnWire(a) \in WireAddress
  BY DEF Address, OnWire, WireAddress, Word, Byte, Nibble

-----------------------------------------------------------------------------
(* The inductive invariant *)

LEMMA InitInv == Init => IInv
<1> SUFFICES ASSUME Init
             PROVE  IInv
  OBVIOUS
<1>1. package \in Package
  <2>1. PICK station \in Addresses, plc \in Addresses, train \in Values,
             section \in Values, switch \in Values :
          package = init_write_package(station, plc, train, section, switch)
    BY DEF Init
  <2>2. /\ station \in Address /\ plc \in Address
        /\ train \in Word /\ section \in Word /\ switch \in Word
    BY FrameAssumption
  <2>3. station.station_id \in Word /\ 0 \in Byte /\ 3 \in Word
    BY <2>2 DEF Address, Byte, Word
  <2> QED
    BY <2>1, <2>2, <2>3 DEF init_write_package, Package
<1>2. report \in Report
  BY DEF Init, NoReport, Report, WireAddress, Byte, Nibble, Word
<1> QED
  BY <1>1, <1>2 DEF Init, IInv, AcceptedIsReply

LEMMA InvStep == IInv /\ [Next]_vars => IInv'
<1> SUFFICES ASSUME IInv, [Next]_vars
             PROVE  IInv'
  OBVIOUS
<1>1. CASE SendRequest
  BY <1>1 DEF SendRequest, IInv, AcceptedIsReply
<1>2. CASE PlcReports
  <2>1. report' \in Report
    <3>1. PICK from \in Addresses, to \in Addresses, c \in Conversations, s \in Values,
               n \in Lengths :
            report' = [emitter |-> OnWire(from), reciever |-> OnWire(to),
                       conversation |-> c, switch |-> s, length |-> n]
      BY <1>2 DEF PlcReports
    <3>2. OnWire(from) \in WireAddress /\ OnWire(to) \in WireAddress
      BY OnWireType, FrameAssumption
    <3> QED
      BY <3>1, <3>2, FrameAssumption DEF Report
  <2> QED
    BY <1>2, <2>1 DEF PlcReports, IInv, AcceptedIsReply
<1>3. CASE AcceptReport
  <2>1. /\ step = "reported" /\ step' = "confirmed"
        /\ package \in Package /\ report \in Report
        /\ requete = build_write_request(package) /\ reponse = ReportFrame(report)
    BY <1>3 DEF AcceptReport, IInv
  <2>2. /\ switch_id' = report.switch
        /\ package' = [package EXCEPT !.port_ack = report.conversation]
    BY <1>3, <2>1, ReportOctets DEF AcceptReport, port_number
  <2>3. package' \in Package
    BY <2>1, <2>2 DEF Package, Report
  <2>4. /\ WireRead(requete, 8) = OnWire(package.emitter)
        /\ WireRead(requete, 10) = OnWire(package.reciever)
    BY <2>1, RequestOctets, AddressRead DEF Package
  <2>5. WireRead(reponse, 8) = WireRead(requete, 10)
        /\ WireRead(reponse, 10) = WireRead(requete, 8)
    BY <1>3 DEF AcceptReport, is_read_successful, WireRead
  <2>6. report.emitter = OnWire(package.reciever) /\ report.reciever = OnWire(package.emitter)
    BY <2>1, <2>4, <2>5, ReportOctets
  <2>7. /\ package'.emitter = package.emitter /\ package'.reciever = package.reciever
        /\ package'.port_ack = report.conversation
    BY <2>1, <2>2 DEF Package
  <2> QED
    BY <1>3, <2>1, <2>2, <2>3, <2>6, <2>7 DEF AcceptReport, IInv, AcceptedIsReply
<1>4. CASE RejectReport
  <2>1. switch_id' = report.switch
    BY <1>4, ReportOctets DEF RejectReport, IInv
  <2> QED
    BY <1>4, <2>1 DEF RejectReport, IInv, AcceptedIsReply
<1>5. CASE UNCHANGED vars
  BY <1>5 DEF vars, IInv, AcceptedIsReply
<1> QED
  BY <1>1, <1>2, <1>3, <1>4, <1>5 DEF Next

\* Every frame is the one made of the values known of it.
THEOREM Invariance == Spec => []IInv
  BY InitInv, InvStep, PTL DEF Spec

-----------------------------------------------------------------------------
(* The properties *)

\* The octets of the frames are octets, the words are words.
THEOREM TypeCorrect == Spec => []TypeOK
<1>1. IInv => TypeOK
  <2> SUFFICES ASSUME IInv
               PROVE  TypeOK
    OBVIOUS
  <2>1. \A i \in DOMAIN requete : requete[i] \in Byte
    BY RequestOctets, AckOctets DEF IInv
  <2>2. \A i \in DOMAIN reponse : reponse[i] \in Byte
    BY ReportOctets DEF IInv
  <2>3. switch_id \in Word
    BY DEF IInv, Report, Word
  <2> QED
    BY <2>1, <2>2, <2>3 DEF IInv, TypeOK
<1> QED
  BY <1>1, Invariance, PTL

\* The PLC reads what the command says.
THEOREM RequestIsRead == Spec => []RequestReadsBack
<1>1. IInv => RequestReadsBack
  <2> SUFFICES ASSUME IInv, step \in {"requested", "reported"}
               PROVE  /\ WireRead(requete, 8) = OnWire(package.emitter)
                      /\ WireRead(requete, 10) = OnWire(package.reciever)
                      /\ WordRead(requete, 18) = package.address_start
                      /\ WordRead(requete, 22) = package.train_station_id
                      /\ WordRead(requete, 24) = package.section_id
                      /\ WordRead(requete, 26) = package.switch_id
    BY DEF RequestReadsBack
  <2>1. package \in Package /\ requete = build_write_request(package)
    BY DEF IInv
  <2>2. /\ WireRead(requete, 8) = OnWire(package.emitter)
        /\ WireRead(requete, 10) = OnWire(package.reciever)
    BY <2>1, RequestOctets, AddressRead DEF Package
  <2>3. /\ package.address_start \in Word /\ package.train_station_id \in Word
        /\ package.section_id \in Word /\ package.switch_id \in Word
    BY <2>1 DEF Package
  <2> QED
    BY <2>1, <2>2, <2>3, RequestOctets, WordOctets DEF WordRead
<1> QED
  BY <1>1, Invariance, PTL

\* A report is accepted only as the reply to the request.
THEOREM RepliesOnly == Spec => []AcceptedIsReply
<1>1. IInv => AcceptedIsReply
  BY DEF IInv
<1> QED
  BY <1>1, Invariance, PTL

\* The acknowledgement answers the report.
THEOREM AckAnswers == Spec => []AckReachesReporter
<1>1. IInv => AckReachesReporter
  <2> SUFFICES ASSUME IInv, step = "confirmed"
               PROVE  /\ WireRead(requete, 8) = report.reciever
                      /\ WireRead(requete, 10) = report.emitter
                      /\ Octet(requete, 13) = report.conversation
    BY DEF AckReachesReporter
  <2>1. package \in Package /\ requete = build_ack(package)
    BY DEF IInv
  <2>2. /\ WireRead(requete, 8) = OnWire(package.emitter)
        /\ WireRead(requete, 10) = OnWire(package.reciever)
    BY <2>1, AckOctets, AddressRead DEF Package
  <2> QED
    BY <2>1, <2>2, AckOctets DEF IInv, AcceptedIsReply
<1> QED
  BY <1>1, Invariance, PTL

\* The switch is the one that was reported.
THEOREM SwitchIsRead == Spec => []SwitchIsReported
<1>1. IInv => SwitchIsReported
  BY DEF IInv, SwitchIsReported
<1> QED
  BY <1>1, Invariance, PTL

-----------------------------------------------------------------------------
(* The frames of the unit tests *)

\* A report that was rejected is none the program accepts.
Rejected == step = "rejected" => ~is_read_successful(reponse, requete)

\* The octets of the test's request, and of the acknowledgement.
LEMMA SampleFrames ==
  /\ build_write_request(paquet) = WriteObjects
  /\ build_ack([paquet EXCEPT !.port_ack = 103]) = Ack
<1>1. /\ paquet.emitter = local /\ paquet.reciever = automate
      /\ paquet.address_start = 39 /\ paquet.word_count = 3
      /\ paquet.train_station_id = 40 /\ paquet.section_id = 65535 /\ paquet.switch_id = 31
  BY DEF paquet, init_write_package, TRAIN1, UNCHANGED_WORD, local
<1>2. Station(local) = 40 /\ NetPort(local) = 16 /\ Station(automate) = 14 /\ NetPort(automate) = 16
  BY DEF Station, NetPort, local, automate
<1>3. /\ Low(39) = 39 /\ High(39) = 0 /\ Low(3) = 3 /\ High(3) = 0 /\ Low(40) = 40 /\ High(40) = 0
      /\ Low(65535) = 255 /\ High(65535) = 255 /\ Low(31) = 31 /\ High(31) = 0
  BY DEF Low, High
<1>4. build_write_request(paquet) = WriteObjects
  BY <1>1, <1>2, <1>3 DEF build_write_request, WriteObjects, LENGTH_REQUEST, NPDU, CODE_SEND, UNITE_WRITE_OBJECT
<1>5. LET p == [paquet EXCEPT !.port_ack = 103]
      IN  p.emitter = local /\ p.reciever = automate /\ p.port_ack = 103
  BY DEF paquet, init_write_package
<1> QED
  BY <1>2, <1>4, <1>5 DEF build_ack, Ack, LENGTH_ACK, NPDU, CODE_RECEIVE

\* Whatever the addresses and words the exchange is run with, the operators make
\* and accept exactly the frames of unit_tests/comm.c.
THEOREM SamplesAgree == Spec => []UnitTests
<1>1. Init => Rejected
  BY DEF Init, Rejected
<1>2. Rejected /\ [Next]_vars => Rejected'
  <2> SUFFICES ASSUME Rejected, [Next]_vars PROVE Rejected'
    OBVIOUS
  <2>1. CASE RejectReport
    BY <2>1 DEF RejectReport, Rejected, is_read_successful
  <2>2. CASE UNCHANGED vars
    BY <2>2 DEF vars, Rejected, is_read_successful
  <2> QED
    BY <2>1, <2>2 DEF Next, SendRequest, PlcReports, AcceptReport, Rejected
<1>3. ASSUME IInv, step \in {"requested", "reported"}, package = paquet
      PROVE  requete = WriteObjects
  BY <1>3, SampleFrames DEF IInv
<1>4. ASSUME IInv, Rejected, reponse = ReadReceived, [package EXCEPT !.port_ack = 0] = paquet
      PROVE  /\ step # "rejected"
             /\ step = "confirmed" => package.port_ack = 52 /\ switch_id = 31
  <2>1. package \in Package /\ report \in Report
    BY <1>4 DEF IInv
  <2>2. Octet(reponse, 13) = 52 /\ SwitchRead(reponse) = 31
    BY <1>4 DEF ReadReceived, Octet, SwitchRead
  <2>3. ASSUME step = "rejected"
        PROVE  FALSE
    <3>1. requete = build_write_request(package)
      BY <1>4, <2>3 DEF IInv
    <3>2. package.emitter = local /\ package.reciever = automate
      <4> DEFINE p == [package EXCEPT !.port_ack = 0]
      <4>1. p.emitter = package.emitter /\ p.reciever = package.reciever
        BY <2>1 DEF Package
      <4>2. paquet.emitter = local /\ paquet.reciever = automate
        BY DEF paquet, init_write_package
      <4> QED
        BY <4>1, <4>2, <1>4
    <3>3. /\ Octet(requete, 8) = 40 /\ Octet(requete, 9) = 16
          /\ Octet(requete, 10) = 14 /\ Octet(requete, 11) = 16
      BY <2>1, <3>1, <3>2, RequestOctets DEF Station, NetPort, local, automate
    <3>4. is_read_successful(reponse, requete)
      BY <1>4, <3>3 DEF is_read_successful, ReadReceived, Octet, LENGTH_REPORT
    <3> QED
      BY <1>4, <2>3, <3>4 DEF Rejected
  <2>4. ASSUME step = "confirmed"
        PROVE  package.port_ack = 52 /\ switch_id = 31
    <3>1. /\ reponse = ReportFrame(report)
          /\ switch_id = report.switch /\ package.port_ack = report.conversation
      BY <1>4, <2>4 DEF IInv
    <3> QED
      BY <2>1, <2>2, <3>1, ReportOctets
  <2> QED
    BY <2>3, <2>4
<1>5. ASSUME IInv, step = "confirmed", package = [paquet EXCEPT !.port_ack = 103]
      PROVE  requete = Ack
  BY <1>5, SampleFrames DEF IInv
<1>6. IInv /\ Rejected => UnitTests
  BY <1>3, <1>4, <1>5 DEF UnitTests, test_write_req, test_read_validation, test_ack
<1> QED
  BY <1>1, <1>2, <1>6, Invariance, PTL DEF Spec

=============================================================================
