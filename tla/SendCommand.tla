---------------------------- MODULE SendCommand ----------------------------
(***************************************************************************)
(* One command to the PLC (send_command in remote_test/main.c) over a TCP  *)
(* connection: send the write request, wait for its acknowledgement, wait  *)
(* for the report that the train has passed, confirm the report.           *)
(*                                                                         *)
(* TCP keeps the octets in order and not the frames apart: a recvfrom      *)
(* takes any number of the octets that have arrived, wherever a frame ends *)
(* or begins, and the buffer keeps what a shorter read does not overwrite. *)
(* Each octet carries the frame it is of and its place there (history).    *)
(***************************************************************************)
EXTENDS Integers, Sequences

Octet  == {x \in Nat : x < 256}
Places == 0 .. 14   \* of the buffer: the code compares nothing beyond

CONSTANTS Stacks,   \* what the stack can hold where the buffer will be
          Station,  \* a station that is not the PLC's
          Port,     \* the conversation in which reports are sent
          Switch    \* the low octet of the switch they name

\* 18 is the length of a report: in a read cut before the length, the octet of
\* such a station could come to its place.
ASSUME CommandAssumption ==
  /\ Stacks \subseteq [Places -> Octet]
  /\ Station \in Octet \ {14, 18}
  /\ Port \in Octet /\ Switch \in Octet

\* The answers to the request and the reports, from station 14 to station 36.
Answer(status)  == <<0, 0, 0, 1, 0, 9, 0, 241, 14, 16, 36, 16, 25, 16, status>>
Report(station) == <<0, 0, 0, 1, 0, 18, 0, 241, station, 16, 36, 16, 9, Port,
                     55, 7, 104, 7, 9, 0, 1, 0, Switch, 0>>

Octets == [ack |-> Answer(254), nak |-> Answer(253),
           report |-> Report(14), stray |-> Report(Station)]

Frames == DOMAIN Octets
Byte   == [of : Frames \cup {"stack"}, at : 0 .. 23, octet : Octet]

Frame(f) == [i \in 1 .. Len(Octets[f]) |-> [of |-> f, at |-> i - 1, octet |-> Octets[f][i]]]

VARIABLES
  step,      \* where send_command is
  result,    \* what it returned, NoResult before
  reponse,   \* the places of its buffer
  sent,      \* all the PLC sent
  taken,     \* how many octets of it send_command has received
  plc,       \* what the PLC did with the command
  strayed,   \* a frame of another exchange was sent
  hungUp     \* the PLC closed the connection

external == <<sent, plc, strayed, hungUp>>
vars == <<step, result, reponse, taken, external>>

NoResult == -1

Init ==
  /\ step = "socket"
  /\ result = NoResult
  /\ \E stack \in Stacks :
       reponse = [i \in Places |-> [of |-> "stack", at |-> i, octet |-> stack[i]]]
  /\ sent = <<>> /\ taken = 0
  /\ plc = "idle"
  /\ strayed = FALSE /\ hungUp = FALSE

-----------------------------------------------------------------------------
\* send_command

Return(code) == step' = "returned" /\ result' = code
Goto(next)   == step' = next /\ UNCHANGED result

CreateSocket ==
  /\ step = "socket"
  /\ Goto("connect") \/ Return(1)
  /\ UNCHANGED <<reponse, taken, external>>

ConnectErrno ==
  /\ step = "connect"
  /\ Goto("request") \/ Return(111)
  /\ UNCHANGED <<reponse, taken, external>>

Connect ==
  /\ step = "connect"
  /\ Goto("request") \/ Return(2)
  /\ UNCHANGED <<reponse, taken, external>>

\* STEP 1.  A send that falls short is a failure.
SendRequest ==
  /\ step = "request"
  /\ \/ Goto("ack") /\ plc' = (IF hungUp THEN plc ELSE "asked")
     \/ Return(3) /\ UNCHANGED plc
  /\ UNCHANGED <<reponse, taken, sent, strayed, hungUp>>

\* recvfrom: some of the octets on their way, or none from a closed connection.
Receive(from, to) ==
  /\ step = from
  /\ \/ \E n \in 1 .. Len(sent) - taken :
          /\ reponse' = [i \in Places |-> IF i < n THEN sent[taken + i + 1] ELSE reponse[i]]
          /\ taken' = taken + n
     \/ /\ taken = Len(sent) /\ hungUp
        /\ UNCHANGED <<reponse, taken>>
  /\ Goto(to)
  /\ UNCHANGED external

\* STEP 2 and STEP 3
ReceiveAck    == Receive("ack", "check_ack")
ReceiveReport == Receive("passage", "check_report")

AnyAnswer(buffer) == buffer[5].octet = 9

\* The length of an acknowledgement and the status of a success.
is_write_ack_successful(buffer) == buffer[5].octet = 9 /\ buffer[14].octet = 254

LengthOnly(buffer) == buffer[5].octet = 18

\* The length of a report, and the addresses of the request, swapped.
is_read_successful(buffer) ==
  /\ buffer[5].octet = 18
  /\ buffer[8].octet = 14 /\ buffer[9].octet = 16
  /\ buffer[10].octet = 36 /\ buffer[11].octet = 16

CheckAck ==
  /\ step = "check_ack"
  /\ IF is_write_ack_successful(reponse) THEN Goto("passage") ELSE Return(4)
  /\ UNCHANGED <<reponse, taken, external>>

\* Waits on after a frame that is not the report.
CheckReportAgain ==
  /\ step = "check_report"
  /\ IF is_read_successful(reponse) THEN Goto("confirm") ELSE Goto("passage")
  /\ UNCHANGED <<reponse, taken, external>>

CheckReport ==
  /\ step = "check_report"
  /\ IF is_read_successful(reponse) THEN Goto("confirm") ELSE Return(5)
  /\ UNCHANGED <<reponse, taken, external>>

\* STEP 4.  The confirmation is for the conversation found in place 13.
SendAck ==
  /\ step = "confirm"
  /\ \/ /\ Return(0)
        /\ plc' = IF ~hungUp /\ plc = "reported" /\ reponse[13].octet = Port
                  THEN "confirmed" ELSE plc
     \/ Return(6) /\ UNCHANGED plc
  /\ UNCHANGED <<reponse, taken, sent, strayed, hungUp>>

send_command ==
  \/ CreateSocket \/ Connect \/ SendRequest \/ ReceiveAck \/ CheckAck
  \/ ReceiveReport \/ CheckReport \/ SendAck

-----------------------------------------------------------------------------
\* The PLC: it acknowledges the command or refuses it, and reports when the train
\* has passed.  A report of another station may come at any time: one, at most.

Sends(frame) ==
  /\ ~hungUp
  /\ sent' = sent \o Frame(frame)
  /\ UNCHANGED <<step, result, reponse, taken, hungUp>>

PlcAcknowledges == plc = "asked" /\ Sends("ack") /\ plc' = "accepted" /\ UNCHANGED strayed
PlcRefuses      == plc = "asked" /\ Sends("nak") /\ plc' = "refused" /\ UNCHANGED strayed
PlcReports      == plc = "accepted" /\ Sends("report") /\ plc' = "reported" /\ UNCHANGED strayed

OtherReports ==
  /\ step \notin {"socket", "connect"} /\ ~strayed
  /\ Sends("stray")
  /\ strayed' = TRUE /\ UNCHANGED plc

PlcHangsUp ==
  /\ ~hungUp
  /\ step \notin {"socket", "connect"}
  /\ hungUp' = TRUE
  /\ UNCHANGED <<step, result, reponse, taken, sent, plc, strayed>>

Plc == PlcAcknowledges \/ PlcRefuses \/ PlcReports

-----------------------------------------------------------------------------

Next == send_command \/ Plc \/ OtherReports \/ PlcHangsUp

Spec == Init /\ [][Next]_vars

\* The program runs, and the PLC deals with the command it was sent.
FairSpec == Spec /\ WF_vars(send_command) /\ WF_vars(Plc)

-----------------------------------------------------------------------------
(* Properties *)

TypeOK ==
  /\ step \in {"socket", "connect", "request", "ack", "check_ack", "passage",
               "check_report", "confirm", "returned"}
  /\ result \in NoResult .. 6
  /\ reponse \in [Places -> Byte]
  /\ sent \in Seq(Byte)
  /\ taken \in 0 .. Len(sent)
  /\ plc \in {"idle", "asked", "accepted", "refused", "reported", "confirmed"}
  /\ strayed \in BOOLEAN /\ hungUp \in BOOLEAN

\* A command that the PLC refused is never said to be done (0 returned), however
\* TCP cuts the refusal, whatever was in the buffer before and whatever follows.
RefusedIsNotDone == plc = "refused" => result # 0

\* The buffer begins with the header of one frame.
HeaderIsWhole == \E f \in Frames : \A i \in 0 .. 13 : reponse[i].of = f /\ reponse[i].at = i

\* Where the buffer holds the header of one frame, the program says that the
\* command is done only when the train has passed and the PLC's report of it is
\* confirmed, unless the PLC closed the connection.  (A header that is cut can be
\* accepted: the length of another station's report, the addresses of the
\* acknowledgement still behind it.)
WholeReportIsConfirmed == result = 0 /\ ~hungUp /\ HeaderIsWhole => plc = "confirmed"

\* A program that waits when the PLC has not reported yet waits no longer than
\* the PLC takes to report, or to hang up.
LateReportEndsWait == step = "passage" /\ plc = "accepted" ~> step = "returned"

\* STEP 3 waits "for return that signals the train has passed" (the comment of
\* main.c): when the PLC has reported, the wait ends.
ReportEndsWait == step = "passage" /\ plc = "reported" ~> step = "returned"

=============================================================================
