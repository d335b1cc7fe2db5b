------------------------- MODULE SendCommandProofs -------------------------
(***************************************************************************)
(* What a program that reports success can rely on, wherever TCP cuts the  *)
(* stream and whatever the buffer held before.                             *)
(***************************************************************************)
EXTENDS SendCommand, SequenceTheorems, TLAPS

\* The PLC answers after it was asked, the result comes with the end.
PhaseOK ==
  /\ step \in {"socket", "connect", "request"} => plc = "idle"
  /\ step \in {"socket", "connect", "request", "ack"} => taken = 0
  /\ step \in {"socket", "connect"} => ~strayed
  /\ result # NoResult => step = "returned"

\* An octet that is not of the stack is that of its frame, at its place.
IsTrue(byte) ==
  byte.of # "stack" => /\ byte.at + 1 \in 1 .. Len(Octets[byte.of])
                       /\ byte.octet = Octets[byte.of][byte.at + 1]

BytesOK ==
  /\ \A i \in 1 .. Len(sent) : IsTrue(sent[i])
  /\ \A i \in Places : IsTrue(reponse[i])

\* The octets of a report, on their way or received, were sent by the PLC.
ReportSent ==
  /\ \A i \in 1 .. Len(sent) : sent[i].of = "report" => plc \in {"reported", "confirmed"}
  /\ \A i \in Places : reponse[i].of = "report" => plc \in {"reported", "confirmed"}

\* What the PLC, and another station, sent to a command that is not accepted.
Unaccepted ==
  {<<>>, Frame("stray"), Frame("nak"), Frame("nak") \o Frame("stray"),
   Frame("stray") \o Frame("nak")}

SentOK ==
  /\ plc \in {"idle", "asked"} => sent = IF strayed THEN Frame("stray") ELSE <<>>
  /\ plc = "refused" /\ ~strayed => sent = Frame("nak")
  /\ plc = "refused" => sent \in Unaccepted

\* After the first recvfrom the buffer begins with what it took.
FirstRead ==
  step \in {"check_ack", "passage"} =>
    /\ taken = 0 => hungUp /\ sent = <<>>
    /\ \A i \in Places : i < taken => reponse[i] = sent[i + 1]

\* What the program found in the buffer is still there, and a report's length has
\* not come to its place before the command was accepted.
Checked ==
  /\ step = "passage" => is_write_ack_successful(reponse)
  /\ step = "confirm" => is_read_successful(reponse)
  /\ step \in {"check_report", "confirm"} /\ plc \in {"asked", "refused"} =>
       reponse[5].octet # 18

\* A command that is done is not refused any more.
DoneOK == result = 0 => plc \notin {"asked", "refused"}

IInv ==
  /\ TypeOK /\ PhaseOK /\ BytesOK /\ ReportSent /\ SentOK /\ FirstRead /\ Checked
  /\ DoneOK /\ WholeReportIsConfirmed

-----------------------------------------------------------------------------
\* The frames.

\* The stray frame and the refusal, octet by octet where a read that was cut could
\* bring them to the place of the length.
LEMMA StrayOctets ==
  /\ Len(Octets["stray"]) = 24
  /\ Octets["stray"][1] = 0 /\ Octets["stray"][2] = 0 /\ Octets["stray"][3] = 0
  /\ Octets["stray"][4] = 1 /\ Octets["stray"][5] = 0 /\ Octets["stray"][6] = 18
  /\ Octets["stray"][7] = 0 /\ Octets["stray"][8] = 241 /\ Octets["stray"][9] = Station
  /\ Octets["stray"][10] = 16 /\ Octets["stray"][11] = 36
  BY DEF Octets, Report

LEMMA RefusalOctets ==
  /\ Len(Octets["nak"]) = 15
  /\ Octets["nak"][6] = 9 /\ Octets["nak"][7] = 0 /\ Octets["nak"][8] = 241
  /\ Octets["nak"][9] = 14 /\ Octets["nak"][10] = 16 /\ Octets["nak"][11] = 36
  /\ Octets["nak"][12] = 16 /\ Octets["nak"][13] = 25 /\ Octets["nak"][14] = 16
  /\ Octets["nak"][15] = 253
  BY DEF Octets, Answer

LEMMA FrameOctets ==
  /\ Frames = {"ack", "nak", "report", "stray"}
  /\ \A f \in Frames : Octets[f] \in Seq(Octet) /\ Len(Octets[f]) \in Nat /\ Len(Octets[f]) <= 24
  <1>2. Octets["ack"] \in Seq(Octet) /\ Octets["nak"] \in Seq(Octet)
    BY DEF Octets, Answer, Octet
  <1>3. Octets["report"] \in Seq(Octet) /\ Octets["stray"] \in Seq(Octet)
    BY CommandAssumption DEF Octets, Report, Octet
  <1>4. Frames = {"ack", "nak", "report", "stray"}
    BY DEF Frames, Octets
  <1>7. /\ Len(Octets["ack"]) = 15 /\ Len(Octets["nak"]) = 15
        /\ Len(Octets["report"]) = 24 /\ Len(Octets["stray"]) = 24
    BY DEF Octets, Answer, Report
  <1>8. ASSUME NEW f \in Frames
        PROVE  Octets[f] \in Seq(Octet) /\ Len(Octets[f]) \in Nat /\ Len(Octets[f]) <= 24
    <2>1. Octets[f] \in Seq(Octet)
      BY <1>2, <1>3, <1>4, Zenon
    <2>2. Len(Octets[f]) = 15 \/ Len(Octets[f]) = 24
      BY <1>4, <1>7, Zenon
    <2>3. \A n : n = 15 \/ n = 24 => n \in Nat /\ n <= 24
      OBVIOUS
    <2> QED
      BY <2>1, <2>2, <2>3, Zenon
  <1> QED
    BY <1>4, <1>8

\* A frame on the stream: its octets, each at its place.
LEMMA FrameBytes ==
  ASSUME NEW f \in Frames
  PROVE  /\ Frame(f) \in Seq(Byte)
         /\ Len(Frame(f)) = Len(Octets[f])
         /\ \A i \in 1 .. Len(Octets[f]) : Frame(f)[i].octet = Octets[f][i]
         /\ \A i \in 1 .. Len(Octets[f]) : Frame(f)[i].of = f /\ IsTrue(Frame(f)[i])
  <1>1. Octets[f] \in Seq(Octet) /\ Len(Octets[f]) \in Nat /\ Len(Octets[f]) <= 24
    BY FrameOctets
  <1>2. ASSUME NEW i \in 1 .. Len(Octets[f])
        PROVE  /\ [of |-> f, at |-> i - 1, octet |-> Octets[f][i]] \in Byte
               /\ (i - 1) + 1 = i
    <2>1. i - 1 \in 0 .. 23 /\ (i - 1) + 1 = i
      BY <1>1
    <2>2. Octets[f][i] \in Octet
      BY <1>1
    <2> QED
      BY <2>1, <2>2 DEF Byte
  <1>3. "stack" \notin Frames
    BY FrameOctets
  <1> QED
    BY <1>1, <1>2, <1>3 DEF Frame, IsTrue

\* The same octets in the stream.
LEMMA StrayBytes ==
  /\ Frame("stray") \in Seq(Byte) /\ Len(Frame("stray")) = 24
  /\ \A i \in {1, 2, 3, 4, 5, 7, 8, 9, 10, 11} : Frame("stray")[i].octet # 18
  /\ Frame("stray")[6].octet = 18
  <1>1. "stray" \in Frames
    BY FrameOctets
  <1>2. PICK F, O : F = Frame("stray") /\ O = Octets["stray"]
    OBVIOUS
  <1>3. F \in Seq(Byte) /\ Len(F) = 24 /\ \A i \in 1 .. 24 : F[i].octet = O[i]
    <2>1. Len(O) = 24
      BY <1>2, StrayOctets
    <2>2. F \in Seq(Byte) /\ Len(F) = Len(O) /\ \A i \in 1 .. Len(O) : F[i].octet = O[i]
      BY <1>1, <1>2, FrameBytes
    <2> QED
      BY ONLY <2>1, <2>2
  <1>4. O[6] = 18 /\ \A i \in {1, 2, 3, 4, 5, 7, 8, 9, 10, 11} : O[i] # 18
    BY <1>2, StrayOctets, CommandAssumption
  <1>5. F[6].octet = 18 /\ \A i \in {1, 2, 3, 4, 5, 7, 8, 9, 10, 11} : F[i].octet # 18
    BY ONLY <1>3, <1>4
  <1> QED
    BY <1>2, <1>3, <1>5

LEMMA RefusalBytes ==
  /\ Frame("nak") \in Seq(Byte) /\ Len(Frame("nak")) = 15
  /\ \A i \in 6 .. 15 : Frame("nak")[i].octet # 18
  /\ Frame("nak")[15].octet # 254
  <1>1. "nak" \in Frames
    BY FrameOctets
  <1>2. PICK F, O : F = Frame("nak") /\ O = Octets["nak"]
    OBVIOUS
  <1>3. F \in Seq(Byte) /\ Len(F) = 15 /\ \A i \in 1 .. 15 : F[i].octet = O[i]
    <2>1. Len(O) = 15
      BY <1>2, RefusalOctets
    <2>2. F \in Seq(Byte) /\ Len(F) = Len(O) /\ \A i \in 1 .. Len(O) : F[i].octet = O[i]
      BY <1>1, <1>2, FrameBytes
    <2> QED
      BY ONLY <2>1, <2>2
  <1>4. O[15] # 254 /\ \A i \in 6 .. 15 : O[i] # 18
    BY <1>2, RefusalOctets
  <1>5. F[15].octet # 254 /\ \A i \in 6 .. 15 : F[i].octet # 18
    BY ONLY <1>3, <1>4
  <1> QED
    BY <1>2, <1>3, <1>5

\* Nothing in the place of the length is one of a report, where the first read
\* looked like an acknowledgement and the command was not accepted.
LEMMA LengthIsElsewhere ==
  ASSUME NEW s \in Unaccepted, NEW t \in Nat, t > 0, t + 6 <= Len(s),
         t >= 6 => s[6].octet = 9,
         t >= 15 => s[15].octet = 254
  PROVE  s[t + 6].octet # 18
  <1>1. PICK S, N : S = Frame("stray") /\ N = Frame("nak")
    OBVIOUS
  <1>2. /\ S \in Seq(Byte) /\ Len(S) = 24 /\ S[6].octet = 18
        /\ \A i \in {1, 2, 3, 4, 5, 7, 8, 9, 10, 11} : S[i].octet # 18
    BY <1>1, StrayBytes
  <1>3. /\ N \in Seq(Byte) /\ Len(N) = 15 /\ N[15].octet # 254
        /\ \A i \in 6 .. 15 : N[i].octet # 18
    BY <1>1, RefusalBytes
  <1>4. PICK NS, SN : NS = N \o S /\ SN = S \o N
    OBVIOUS
  <1>5. /\ Len(NS) = 39 /\ \A i \in 1 .. 39 : NS[i] = IF i <= 15 THEN N[i] ELSE S[i - 15]
        /\ Len(SN) = 39 /\ \A i \in 1 .. 39 : SN[i] = IF i <= 24 THEN S[i] ELSE N[i - 24]
    <2>0. N \in Seq(Byte) /\ S \in Seq(Byte)
      BY <1>2, <1>3
    <2>1. /\ Len(N \o S) = Len(N) + Len(S)
          /\ \A i \in 1 .. Len(N) + Len(S) :
               (N \o S)[i] = IF i <= Len(N) THEN N[i] ELSE S[i - Len(N)]
      BY ONLY <2>0, ConcatProperties, Zenon
    <2>2. /\ Len(S \o N) = Len(S) + Len(N)
          /\ \A i \in 1 .. Len(S) + Len(N) :
               (S \o N)[i] = IF i <= Len(S) THEN S[i] ELSE N[i - Len(S)]
      BY ONLY <2>0, ConcatProperties, Zenon
    <2>3. Len(S) = 24 /\ Len(N) = 15
      BY <1>2, <1>3
    <2>4. /\ Len(NS) = Len(N) + Len(S)
          /\ \A i \in 1 .. Len(N) + Len(S) :
               NS[i] = IF i <= Len(N) THEN N[i] ELSE S[i - Len(N)]
          /\ Len(SN) = Len(S) + Len(N)
          /\ \A i \in 1 .. Len(S) + Len(N) :
               SN[i] = IF i <= Len(S) THEN S[i] ELSE N[i - Len(S)]
      BY ONLY <1>4, <2>1, <2>2, Zenon
    <2> QED
      BY ONLY <2>3, <2>4
  <1>6. CASE s = S \/ s = SN
    <2>1. \A i \in 1 .. 24 : s[i] = S[i]
      BY ONLY <1>6, <1>5
    <2>2. S[6].octet = 18 /\ \A i \in {1, 2, 3, 4, 5, 7, 8, 9, 10, 11} : S[i].octet # 18
      BY <1>2
    <2>3. t \in Nat /\ t > 0 /\ (t >= 6 => s[6].octet = 9)
      OBVIOUS
    <2>4. t \in {1, 2, 3, 4, 5}
      BY ONLY <2>1, <2>2, <2>3
    <2> QED
      BY ONLY <2>1, <2>2, <2>4
  <1>7. CASE s = N \/ s = NS
    <2>1. \A i \in 1 .. 15 : s[i] = N[i]
      BY ONLY <1>7, <1>5
    <2>2. N[15].octet # 254 /\ \A i \in 6 .. 15 : N[i].octet # 18
      BY <1>3
    <2>3. t \in Nat /\ t > 0 /\ t + 6 <= Len(s) /\ (t >= 15 => s[15].octet = 254)
      OBVIOUS
    <2>4. t \in 1 .. 14
      BY ONLY <2>1, <2>2, <2>3
    <2>5. CASE t \in 1 .. 9
      BY ONLY <2>1, <2>2, <2>5
    <2>6. CASE t \in 10 .. 14
      <3>1. Len(N) = 15 /\ \A i \in {1, 2, 3, 4, 5} : S[i].octet # 18
        BY <1>2, <1>3
      <3>2. s = NS
        <4>1. ASSUME Len(s) = 15 PROVE FALSE
          <5>1. t + 6 <= 15
            BY <2>3, <4>1
          <5> QED
            BY ONLY <5>1, <2>6
        <4> QED
          BY ONLY <1>7, <3>1, <4>1
      <3>3. t + 6 \in 16 .. 39 /\ (t + 6) - 15 = t - 9 /\ t - 9 \in {1, 2, 3, 4, 5}
        BY ONLY <2>6
      <3>4. s[t + 6] = S[t - 9]
        BY ONLY <3>2, <3>3, <1>5
      <3> QED
        BY ONLY <3>1, <3>3, <3>4
    <2> QED
      BY <2>4, <2>5, <2>6
  <1>8. s # <<>>
    OBVIOUS
  <1>9. s \in {<<>>, S, N, NS, SN}
    BY <1>1, <1>4 DEF Unaccepted
  <1> QED
    BY <1>6, <1>7, <1>8, <1>9

-----------------------------------------------------------------------------
\* The steps.

LEMMA InitHolds == Init => IInv
  <1> SUFFICES ASSUME Init PROVE IInv
    OBVIOUS
  <1>1. PICK stack \in Stacks :
          reponse = [i \in Places |-> [of |-> "stack", at |-> i, octet |-> stack[i]]]
    BY DEF Init
  <1>2. \A i \in Places : stack[i] \in Octet /\ i \in 0 .. 23
    BY <1>1, CommandAssumption DEF Places
  <1>3. reponse \in [Places -> Byte] /\ \A i \in Places : reponse[i].of = "stack"
    BY <1>1, <1>2 DEF Byte
  <1>4. sent = <<>> /\ sent \in Seq(Byte) /\ Len(sent) = 0 /\ taken = 0
    BY DEF Init
  <1>5. result = -1 /\ result \in NoResult .. 6 /\ result # 0
    BY DEF Init, NoResult
  <1>6. TypeOK
    <2>1. step = "socket" /\ plc = "idle" /\ strayed = FALSE /\ hungUp = FALSE
      BY DEF Init
    <2>2. taken \in 0 .. Len(sent)
      BY ONLY <1>4
    <2> QED
      BY <1>3, <1>4, <1>5, <2>1, <2>2 DEF TypeOK
  <1>7. BytesOK /\ ReportSent
    BY <1>3, <1>4 DEF BytesOK, ReportSent, IsTrue
  <1> QED
    BY <1>4, <1>5, <1>6, <1>7 DEF Init, IInv, PhaseOK, SentOK, FirstRead, Checked, DoneOK,
      WholeReportIsConfirmed, NoResult

\* What recvfrom leaves in the buffer was there or in the stream.
LEMMA ReceiveBytes ==
  ASSUME TypeOK, NEW from, NEW to, Receive(from, to)
  PROVE  /\ reponse' \in [Places -> Byte]
         /\ taken' \in 0 .. Len(sent)
         /\ \A i \in Places : \/ reponse'[i] = reponse[i]
                              \/ \E j \in 1 .. Len(sent) : reponse'[i] = sent[j]
  <1>1. CASE taken = Len(sent) /\ UNCHANGED <<reponse, taken>>
    BY <1>1 DEF TypeOK
  <1>2. ASSUME NEW n \in 1 .. Len(sent) - taken,
               reponse' = [i \in Places |-> IF i < n THEN sent[taken + i + 1] ELSE reponse[i]],
               taken' = taken + n
        PROVE  /\ reponse' \in [Places -> Byte]
               /\ taken' \in 0 .. Len(sent)
               /\ \A i \in Places : \/ reponse'[i] = reponse[i]
                                    \/ \E j \in 1 .. Len(sent) : reponse'[i] = sent[j]
    <2>1. Len(sent) \in Nat /\ taken \in Nat /\ taken + n <= Len(sent)
      BY DEF TypeOK
    <2>2. \A i \in Places : i < n => taken + i + 1 \in 1 .. Len(sent)
      BY <2>1 DEF Places
    <2>3. \A j \in 1 .. Len(sent) : sent[j] \in Byte
      BY DEF TypeOK
    <2>4. taken' \in 0 .. Len(sent)
      BY <1>2, <2>1
    <2> QED
      BY <1>2, <2>2, <2>3, <2>4 DEF TypeOK
  <1> QED
    BY <1>1, <1>2 DEF Receive

\* What neither read disturbs.
LEMMA ReceiveStep ==
  ASSUME IInv, NEW from \in {"ack", "passage"},
         NEW to \in {"check_ack", "check_report"}, Receive(from, to)
  PROVE  /\ TypeOK' /\ PhaseOK' /\ BytesOK' /\ ReportSent' /\ SentOK'
         /\ DoneOK' /\ WholeReportIsConfirmed'
         /\ step = from /\ step' = to /\ UNCHANGED <<result, external>>
  <1>1. /\ step = from /\ step' = to /\ UNCHANGED <<result, sent, plc, strayed, hungUp>>
    BY DEF Receive, Goto, external
  <1>2. TypeOK'
    BY <1>1, ReceiveBytes DEF IInv, TypeOK
  <1>3. BytesOK' /\ ReportSent'
    BY <1>1, ReceiveBytes DEF IInv, BytesOK, ReportSent, IsTrue
  <1>4. result # 0
    BY <1>1 DEF IInv, PhaseOK, NoResult
  <1> QED
    BY <1>1, <1>2, <1>3, <1>4 DEF IInv, PhaseOK, SentOK, DoneOK, WholeReportIsConfirmed, external

LEMMA ReceiveAckStep ==
  ASSUME IInv, ReceiveAck
  PROVE  IInv'
  <1>1. Receive("ack", "check_ack")
    BY DEF ReceiveAck
  <1>2. /\ TypeOK' /\ PhaseOK' /\ BytesOK' /\ ReportSent' /\ SentOK'
        /\ DoneOK' /\ WholeReportIsConfirmed'
        /\ step = "ack" /\ step' = "check_ack" /\ UNCHANGED <<result, external>>
    BY <1>1, ReceiveStep
  <1>3. taken = 0 /\ sent \in Seq(Byte) /\ UNCHANGED <<sent, hungUp>>
    BY <1>2 DEF IInv, PhaseOK, TypeOK, external
  <1>4. FirstRead'
    <2>1. CASE taken = Len(sent) /\ hungUp /\ UNCHANGED <<reponse, taken>>
      <3>1. sent = <<>>
        BY <1>3, <2>1, EmptySeq, Zenon
      <3>2. taken' = 0 /\ sent' = <<>> /\ hungUp'
        BY <1>3, <2>1, <3>1, Zenon
      <3>3. \A i \in Places : ~(i < 0)
        BY DEF Places
      <3> QED
        BY <3>2, <3>3 DEF FirstRead
    <2>2. ASSUME NEW n \in 1 .. Len(sent) - taken,
                 reponse' = [i \in Places |-> IF i < n THEN sent[taken + i + 1] ELSE reponse[i]],
                 taken' = taken + n
          PROVE  FirstRead'
      <3>1. taken' = n /\ n # 0
        BY ONLY <1>3, <2>2
      <3>2. \A i \in Places : i < n => reponse'[i] = sent[i + 1]
        <4>1. \A i \in Places : taken + i + 1 = i + 1
          BY <1>3 DEF Places
        <4> QED
          BY <2>2, <4>1, Zenon
      <3> QED
        BY <1>3, <3>1, <3>2 DEF FirstRead
    <2> QED
      BY <1>1, <2>1, <2>2 DEF Receive
  <1>5. Checked'
    BY <1>2 DEF Checked
  <1> QED
    BY <1>2, <1>4, <1>5 DEF IInv

LEMMA ReceiveReportStep ==
  ASSUME IInv, ReceiveReport
  PROVE  IInv'
  <1>1. Receive("passage", "check_report")
    BY DEF ReceiveReport
  <1>2. /\ TypeOK' /\ PhaseOK' /\ BytesOK' /\ ReportSent' /\ SentOK'
        /\ DoneOK' /\ WholeReportIsConfirmed'
        /\ step = "passage" /\ step' = "check_report" /\ UNCHANGED <<result, external>>
    BY <1>1, ReceiveStep
  <1>3. /\ reponse[5].octet = 9 /\ reponse[14].octet = 254
        /\ taken = 0 => sent = <<>>
        /\ \A i \in Places : i < taken => reponse[i] = sent[i + 1]
    BY <1>2 DEF IInv, Checked, FirstRead, is_write_ack_successful
  <1>4. taken \in Nat /\ Len(sent) \in Nat
    BY DEF IInv, TypeOK
  <1>5. ASSUME plc \in {"asked", "refused"}
        PROVE  reponse'[5].octet # 18
    <2>1. CASE UNCHANGED <<reponse, taken>>
      BY <1>3, <2>1
    <2>2. ASSUME NEW n \in 1 .. Len(sent) - taken,
                 reponse' = [i \in Places |-> IF i < n THEN sent[taken + i + 1] ELSE reponse[i]],
                 taken' = taken + n
          PROVE  reponse'[5].octet # 18
      <3>1. 5 \in Places /\ 14 \in Places
        BY DEF Places
      <3>2. CASE ~(5 < n)
        BY <1>3, <2>2, <3>1, <3>2
      <3>3. CASE 5 < n
        <4>1. reponse'[5] = sent[taken + 6]
          <5>1. reponse'[5] = sent[taken + 5 + 1]
            BY <2>2, <3>1, <3>3, Zenon
          <5>2. taken + 5 + 1 = taken + 6
            BY <1>4
          <5> QED
            BY <5>1, <5>2, Zenon
        <4>2. taken + 6 <= Len(sent)
          BY <1>4, <3>3
        <4>3. taken > 0
          <5>1. sent # <<>>
            BY <1>4, <4>2
          <5> QED
            BY <1>3, <1>4, <5>1
        <4>4. sent \in Unaccepted
          <5>1. SentOK
            BY DEF IInv
          <5>2. CASE plc = "asked"
            BY <5>1, <5>2 DEF SentOK, Unaccepted
          <5>3. CASE plc = "refused"
            BY <5>1, <5>3 DEF SentOK
          <5> QED
            BY <1>5, <5>2, <5>3
        <4>5. taken >= 6 => sent[6].octet = 9
          <5>1. taken >= 6 => reponse[5] = sent[5 + 1]
            BY <1>3, <1>4, <3>1
          <5> QED
            BY ONLY <1>3, <5>1
        <4>6. taken >= 15 => sent[15].octet = 254
          <5>1. taken >= 15 => reponse[14] = sent[14 + 1]
            BY <1>3, <1>4, <3>1
          <5> QED
            BY ONLY <1>3, <5>1
        <4>7. sent[taken + 6].octet # 18
          BY <1>4, <4>2, <4>3, <4>4, <4>5, <4>6, LengthIsElsewhere
        <4> QED
          BY <4>1, <4>7, Zenon
      <3> QED
        BY <3>2, <3>3
    <2> QED
      BY <1>1, <2>1, <2>2 DEF Receive
  <1>6. Checked'
    BY <1>2, <1>5 DEF Checked, external
  <1>7. FirstRead'
    BY <1>2 DEF FirstRead
  <1> QED
    BY <1>2, <1>6, <1>7 DEF IInv

\* The steps before the confirmation, other than recvfrom.
LEMMA LocalStep ==
  ASSUME IInv, CreateSocket \/ Connect \/ CheckAck \/ CheckReport
  PROVE  IInv'
  <1> USE DEF Goto, Return, external, NoResult
  <1>1. /\ step \in {"socket", "connect", "check_ack", "check_report"}
        /\ UNCHANGED <<reponse, taken, sent, plc, strayed, hungUp>>
        /\ \/ result' = result
              /\ step' \in {"connect", "request", "passage", "confirm"}
           \/ result' \in {1, 2, 4, 5} /\ step' = "returned"
    BY DEF CreateSocket, Connect, CheckAck, CheckReport
  <1>2. result = -1 /\ result' # 0 /\ result' \in -1 .. 6
    BY <1>1 DEF IInv, PhaseOK
  <1>3. TypeOK'
    BY <1>1, <1>2 DEF IInv, TypeOK
  <1>4. /\ step' \in {"connect", "request"} => step \in {"socket", "connect"}
        /\ step' = "passage" => step = "check_ack" /\ is_write_ack_successful(reponse)
        /\ step' = "confirm" => step = "check_report" /\ is_read_successful(reponse)
    BY DEF CreateSocket, Connect, CheckAck, CheckReport
  <1>5. PhaseOK'
    BY <1>1, <1>2, <1>4 DEF IInv, PhaseOK
  <1>6. BytesOK' /\ ReportSent' /\ SentOK'
    BY <1>1 DEF IInv, BytesOK, ReportSent, SentOK, IsTrue
  <1>7. FirstRead'
    BY <1>1, <1>4 DEF IInv, FirstRead
  <1>8. Checked'
    BY <1>1, <1>4 DEF IInv, Checked, is_write_ack_successful, is_read_successful
  <1> QED
    BY <1>2, <1>3, <1>5, <1>6, <1>7, <1>8 DEF IInv, DoneOK, WholeReportIsConfirmed

LEMMA SendRequestStep ==
  ASSUME IInv, SendRequest
  PROVE  IInv'
  <1> USE DEF Goto, Return, NoResult
  <1>1. /\ step = "request" /\ plc = "idle" /\ taken = 0 /\ result = -1
        /\ UNCHANGED <<reponse, taken, sent, strayed, hungUp>>
        /\ plc' \in {"idle", "asked"}
        /\ \/ step' = "ack" /\ result' = -1
           \/ step' = "returned" /\ result' = 3 /\ plc' = plc
    BY DEF SendRequest, IInv, PhaseOK, TypeOK
  <1>2. TypeOK'
    BY <1>1 DEF IInv, TypeOK
  <1>3. PhaseOK' /\ FirstRead' /\ Checked' /\ DoneOK' /\ WholeReportIsConfirmed'
    BY <1>1 DEF PhaseOK, FirstRead, Checked, DoneOK, WholeReportIsConfirmed
  <1>4. BytesOK' /\ ReportSent'
    BY <1>1 DEF IInv, BytesOK, ReportSent, IsTrue
  <1>5. SentOK'
    BY <1>1 DEF IInv, SentOK
  <1> QED
    BY <1>2, <1>3, <1>4, <1>5 DEF IInv

\* A whole header that is accepted is that of the PLC's report.
LEMMA WholeHeader ==
  ASSUME IInv, step = "confirm", HeaderIsWhole
  PROVE  plc \in {"reported", "confirmed"} /\ reponse[13].octet = Port
  <1>1. PICK f \in Frames : \A i \in 0 .. 13 : reponse[i].of = f /\ reponse[i].at = i
    BY DEF HeaderIsWhole
  <1>2. "stack" \notin Frames /\ Frames = {"ack", "nak", "report", "stray"}
    BY FrameOctets
  <1>3. \A i \in {5, 8, 13} : reponse[i].of = f /\ reponse[i].octet = Octets[f][i + 1]
    <2>1. \A i \in {5, 8, 13} : i \in 0 .. 13 /\ i \in Places
      BY DEF Places
    <2>2. \A i \in {5, 8, 13} : reponse[i].of = f /\ reponse[i].at = i /\ f # "stack"
      BY <1>1, <1>2, <2>1, Zenon
    <2>3. \A i \in {5, 8, 13} : IsTrue(reponse[i])
      BY <2>1 DEF IInv, BytesOK
    <2> QED
      BY <2>2, <2>3, Zenon DEF IsTrue
  <1>4. reponse[5].octet = 18 /\ reponse[8].octet = 14
    BY DEF IInv, Checked, is_read_successful
  <1>5. Octets[f][6] = 18 /\ Octets[f][9] = 14
    BY <1>3, <1>4
  <1>6. /\ Octets["ack"][6] = 9 /\ Octets["nak"][6] = 9
        /\ Octets["stray"][9] = Station /\ Station # 14
        /\ Octets["report"][14] = Port
    BY CommandAssumption DEF Octets, Answer, Report
  <1>7. f = "report"
    BY <1>2, <1>5, <1>6
  <1>8. reponse[13].of = "report" /\ reponse[13].octet = Port
    BY <1>3, <1>6, <1>7
  <1> QED
    BY <1>8 DEF IInv, ReportSent, Places

LEMMA SendAckStep ==
  ASSUME IInv, SendAck
  PROVE  IInv'
  <1> USE DEF Return, NoResult
  <1>1. /\ step = "confirm" /\ step' = "returned" /\ result' \in {0, 6}
        /\ UNCHANGED <<reponse, taken, sent, strayed, hungUp>>
        /\ \/ plc' = plc
           \/ plc = "reported" /\ plc' = "confirmed"
    BY DEF SendAck
  <1>2. plc \notin {"asked", "refused"}
    BY <1>1 DEF IInv, Checked, is_read_successful
  <1>3. TypeOK' /\ PhaseOK'
    BY <1>1 DEF IInv, TypeOK, PhaseOK
  <1>4. BytesOK' /\ ReportSent'
    BY <1>1 DEF IInv, BytesOK, ReportSent, IsTrue
  <1>5. SentOK' /\ FirstRead' /\ Checked' /\ DoneOK'
    BY <1>1, <1>2 DEF IInv, SentOK, FirstRead, Checked, DoneOK
  <1>6. WholeReportIsConfirmed'
    <2> SUFFICES ASSUME result' = 0, ~hungUp, HeaderIsWhole
                 PROVE  plc' = "confirmed"
      BY <1>1 DEF WholeReportIsConfirmed, HeaderIsWhole
    <2>1. plc \in {"reported", "confirmed"} /\ reponse[13].octet = Port
      BY <1>1, WholeHeader
    <2> QED
      BY <1>1, <2>1 DEF SendAck
  <1> QED
    BY <1>3, <1>4, <1>5, <1>6 DEF IInv

\* A frame that is sent follows what was sent before.
LEMMA StreamGrows ==
  ASSUME IInv, NEW f \in Frames, Sends(f)
  PROVE  /\ sent' \in Seq(Byte) /\ Len(sent') \in Nat /\ Len(sent) <= Len(sent')
         /\ \A i \in 1 .. Len(sent) : sent'[i] = sent[i]
         /\ \A i \in 1 .. Len(sent') :
              IsTrue(sent'[i]) /\ (sent'[i].of = f \/ \E j \in 1 .. Len(sent) : sent'[i] = sent[j])
  <1>1. PICK F : F = Frame(f)
    OBVIOUS
  <1>2. /\ F \in Seq(Byte)
        /\ \A i \in 1 .. Len(F) : F[i].of = f /\ IsTrue(F[i])
    BY <1>1, FrameBytes
  <1>3. sent \in Seq(Byte) /\ \A i \in 1 .. Len(sent) : IsTrue(sent[i])
    BY DEF IInv, TypeOK, BytesOK
  <1>4. sent' = sent \o F
    BY <1>1 DEF Sends
  <1>5. /\ sent' \in Seq(Byte) /\ Len(sent') = Len(sent) + Len(F)
        /\ \A i \in 1 .. Len(sent) + Len(F) :
             sent'[i] = IF i <= Len(sent) THEN sent[i] ELSE F[i - Len(sent)]
    BY ONLY <1>2, <1>3, <1>4, ConcatProperties, Zenon
  <1>6. Len(sent) \in Nat /\ Len(F) \in Nat
    BY <1>2, <1>3
  <1>7. ASSUME NEW i \in 1 .. Len(sent')
        PROVE  \/ \E j \in 1 .. Len(sent) : sent'[i] = sent[j]
               \/ \E j \in 1 .. Len(F) : sent'[i] = F[j]
    <2>1. CASE i <= Len(sent)
      BY ONLY <1>5, <1>6, <2>1, i \in 1 .. Len(sent')
    <2>2. CASE ~(i <= Len(sent))
      <3>1. i - Len(sent) \in 1 .. Len(F) /\ sent'[i] = F[i - Len(sent)]
        BY ONLY <1>5, <1>6, <2>2, i \in 1 .. Len(sent')
      <3> QED
        BY <3>1
    <2> QED
      BY <2>1, <2>2
  <1>8. \A i \in 1 .. Len(sent) : sent'[i] = sent[i]
    BY ONLY <1>5, <1>6
  <1>9. Len(sent') \in Nat /\ Len(sent) <= Len(sent')
    BY ONLY <1>5, <1>6
  <1>10. ASSUME NEW i \in 1 .. Len(sent')
         PROVE  /\ IsTrue(sent'[i])
                /\ sent'[i].of = f \/ \E j \in 1 .. Len(sent) : sent'[i] = sent[j]
    BY <1>2, <1>3, <1>7, Zenon
  <1> QED
    BY <1>5, <1>8, <1>9, <1>10, Zenon

\* The answers of the PLC and the report of another station.
LEMMA PlcStep ==
  ASSUME IInv, Plc \/ OtherReports
  PROVE  IInv'
  <1>1. PICK f \in Frames :
          /\ Sends(f)
          /\ \/ plc = "asked" /\ f = "ack" /\ plc' = "accepted" /\ UNCHANGED strayed
             \/ plc = "asked" /\ f = "nak" /\ plc' = "refused" /\ UNCHANGED strayed
             \/ plc = "accepted" /\ f = "report" /\ plc' = "reported" /\ UNCHANGED strayed
             \/ /\ f = "stray" /\ step \notin {"socket", "connect"} /\ ~strayed
                /\ strayed' = TRUE /\ UNCHANGED plc
    BY FrameOctets DEF Plc, PlcAcknowledges, PlcRefuses, PlcReports, OtherReports
  <1>2. ~hungUp /\ sent' = sent \o Frame(f) /\ UNCHANGED <<step, result, reponse, taken, hungUp>>
    BY <1>1 DEF Sends
  <1>3. /\ sent' \in Seq(Byte) /\ Len(sent') \in Nat /\ Len(sent) <= Len(sent')
        /\ \A i \in 1 .. Len(sent) : sent'[i] = sent[i]
        /\ \A i \in 1 .. Len(sent') :
             IsTrue(sent'[i]) /\ (sent'[i].of = f \/ \E j \in 1 .. Len(sent) : sent'[i] = sent[j])
    BY <1>1, StreamGrows
  <1>4. taken \in 0 .. Len(sent) /\ Len(sent) \in Nat
    BY DEF IInv, TypeOK
  <1>5. TypeOK'
    <2>1. taken' \in 0 .. Len(sent')
      BY <1>2, <1>3, <1>4
    <2>2. strayed' \in BOOLEAN
      BY <1>1 DEF IInv, TypeOK
    <2>3. plc' \in {"idle", "asked", "accepted", "refused", "reported", "confirmed"}
      BY <1>1 DEF IInv, TypeOK
    <2> QED
      BY <1>2, <1>3, <2>1, <2>2, <2>3 DEF IInv, TypeOK
  <1>6. PhaseOK'
    BY <1>1, <1>2 DEF IInv, PhaseOK
  <1>7. BytesOK'
    BY <1>2, <1>3 DEF IInv, BytesOK, IsTrue
  <1>8. ReportSent'
    <2>1. plc \in {"reported", "confirmed"} => plc' \in {"reported", "confirmed"}
      BY <1>1
    <2>2. f = "report" => plc' = "reported"
      BY <1>1
    <2> QED
      BY <1>2, <1>3, <2>1, <2>2 DEF IInv, ReportSent
  <1>9. FirstRead'
    <2>1. \A i \in Places : i < taken => i + 1 \in 1 .. Len(sent)
      BY <1>4 DEF Places
    <2> QED
      BY <1>2, <1>3, <2>1 DEF IInv, FirstRead
  <1>10. Checked' /\ DoneOK' /\ WholeReportIsConfirmed'
    BY <1>1, <1>2 DEF IInv, Checked, DoneOK, WholeReportIsConfirmed, HeaderIsWhole,
      is_write_ack_successful, is_read_successful
  <1>11. SentOK'
    <2>1. SentOK
      BY DEF IInv
    <2>2. CASE plc' \notin {"idle", "asked", "refused"}
      BY <2>2 DEF SentOK
    <2>3. CASE f = "stray" /\ plc' \in {"idle", "asked"}
      <3>1. sent = <<>> /\ Frame("stray") \in Seq(Byte)
        BY <1>1, <2>1, <2>3, StrayBytes DEF SentOK
      <3>2. sent' = Frame("stray")
        BY <1>2, <2>3, <3>1
      <3> QED
        BY <1>1, <2>3, <3>2 DEF SentOK
    <2>4. CASE f = "stray" /\ plc' = "refused"
      <3>1. sent' = Frame("nak") \o Frame("stray")
        BY <1>1, <1>2, <2>1, <2>4 DEF SentOK
      <3> QED
        BY <1>1, <2>4, <3>1 DEF SentOK, Unaccepted
    <2>5. CASE f = "nak"
      <3>1. plc' = "refused" /\ plc = "asked" /\ UNCHANGED strayed
        BY <1>1, <2>5
      <3>2. CASE strayed
        <4>1. sent' = Frame("stray") \o Frame("nak")
          BY <1>2, <2>1, <2>5, <3>1, <3>2 DEF SentOK
        <4> QED
          BY <3>1, <3>2, <4>1 DEF SentOK, Unaccepted
      <3>3. CASE ~strayed
        <4>1. sent = <<>> /\ Frame("nak") \in Seq(Byte)
          BY <2>1, <3>1, <3>3, RefusalBytes DEF SentOK
        <4>2. sent' = Frame("nak")
          BY <1>2, <2>5, <4>1
        <4> QED
          BY <3>1, <3>3, <4>2 DEF SentOK, Unaccepted
      <3> QED
        BY <3>2, <3>3
    <2> QED
      BY <1>1, <2>2, <2>3, <2>4, <2>5
  <1> QED
    BY <1>5, <1>6, <1>7, <1>8, <1>9, <1>10, <1>11 DEF IInv

LEMMA HangsUpStep ==
  ASSUME IInv, PlcHangsUp
  PROVE  IInv'
  BY DEF PlcHangsUp, IInv, TypeOK, PhaseOK, BytesOK, ReportSent, SentOK, FirstRead, Checked,
    DoneOK, WholeReportIsConfirmed, IsTrue, is_write_ack_successful, is_read_successful

LEMMA StutterStep ==
  ASSUME IInv, UNCHANGED vars
  PROVE  IInv'
  BY DEF vars, external, IInv, TypeOK, PhaseOK, BytesOK, ReportSent, SentOK, FirstRead, Checked,
    DoneOK, WholeReportIsConfirmed, HeaderIsWhole, IsTrue, is_write_ack_successful,
    is_read_successful

-----------------------------------------------------------------------------
\* The theorems.

\* What the program and the PLC keep true of the buffer and of the stream, wherever
\* TCP cuts it: until the command is accepted nothing on its way has a report's
\* length where a read after an acknowledgement would bring it to place 5.
THEOREM Invariance == Spec => []IInv
  <1>1. IInv /\ [Next]_vars => IInv'
    BY LocalStep, SendRequestStep, ReceiveAckStep, ReceiveReportStep, SendAckStep, PlcStep,
      HangsUpStep, StutterStep DEF Next, send_command
  <1> QED
    BY InitHolds, <1>1, PTL DEF Spec

\* The variables keep their types: send_command returns only its own codes.
THEOREM TypeCorrect == Spec => []TypeOK
  <1>1. IInv => TypeOK
    BY DEF IInv
  <1> QED
    BY Invariance, <1>1, PTL

\* A command that the PLC refused is never said to be done, wherever TCP cuts the
\* refusal and whatever the buffer held.
THEOREM RefusedIsNot == Spec => []RefusedIsNotDone
  <1>1. IInv => RefusedIsNotDone
    BY DEF IInv, DoneOK, RefusedIsNotDone
  <1> QED
    BY Invariance, <1>1, PTL

\* A command that is said to be done was reported and confirmed, when the buffer
\* holds the header of one frame and the PLC keeps the connection.
THEOREM WholeIsConfirmed == Spec => []WholeReportIsConfirmed
  <1>1. IInv => WholeReportIsConfirmed
    BY DEF IInv
  <1> QED
    BY Invariance, <1>1, PTL

=============================================================================
