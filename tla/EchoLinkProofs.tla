--------------------------- MODULE EchoLinkProofs ---------------------------
(***************************************************************************)
(* The echo clients and their server go in lock-step, for any clients,     *)
(* lines and faults: nobody reads a line that is not its own, at most one  *)
(* datagram of a client is under way besides the network's copies, and     *)
(* without copies an answer is to the line just written.                   *)
(***************************************************************************)
EXTENDS EchoLink, FiniteSetTheorems, TLAPS

USE EchoAssumption

Datagrams == [to : {Server}, from : Clients, line : Lines]
             \cup [to : Clients, from : {Server}, line : Lines]

ClientOf(d) == IF d.to = Server THEN d.from ELSE d.to

NetOK ==
  /\ net \in [DOMAIN net -> Nat \ {0}]
  /\ \A d \in DOMAIN net : d \in Datagrams /\ d.line.by = ClientOf(d)
  /\ \A c \in Clients : IsFiniteSet(InNetwork(c))

\* Where the programs are: a program on its way to an address has a socket open
\* exactly while it tries to attach it.
PlacesOK ==
  /\ \A c \in Clients : pc[c] \notin {"receive", "reply"}
  /\ pc[Server] \notin {"fgets", "write", "read"}
  /\ \A p \in Programs :
       /\ pc[p] \in {"resolve", "try"} => sockets[p] = 0
       /\ pc[p] = "attach" => sockets[p] = 1 /\ address[p] <= Addresses

BuffersOK ==
  /\ \A c \in Clients : pc[c] \in {"write", "read"} => output[c] \in Lines /\ output[c].by = c
  /\ pc[Server] = "reply" => peer \in Clients /\ buf \in Lines /\ buf.by = peer

\* A refused datagram is gone, but its client has not seen it yet: until it does,
\* it will not write again, and the refusal stands in for the datagram.
Refusals(c) == IF refused[c] /\ pc[c] # "failed" THEN 1 ELSE 0

Balance ==
  \A c \in Clients :
    UnderWay(c) + Refusals(c) <= copied + (IF pc[c] = "read" THEN 1 ELSE 0)

\* Without copies, what is under way is the line in the client's buffer.
Fresh ==
  copied = 0 =>
    \A c \in Clients :
      /\ \A d \in OfClient(c) : d.line = output[c]
      /\ pc[Server] = "reply" /\ peer = c => buf = output[c]

IInv == TypeOK /\ NetOK /\ PlacesOK /\ BuffersOK /\ EchoIsOwn /\ Balance /\ Fresh
-----------------------------------------------------------------------------

\* The datagrams of a client are those ClientOf gives it.
LEMMA OwnDatagrams ==
  ASSUME NetOK, NEW c \in Clients
  PROVE  OfClient(c) = {d \in DOMAIN net : ClientOf(d) = c}
  BY DEF NetOK, OfClient, BagToSet, Datagrams, ClientOf

\* The copies of the datagrams of a client, numbered.
LEMMA Copies ==
  ASSUME NEW c, NEW x
  PROVE  x \in InNetwork(c) <=> \E e \in OfClient(c) : \E i \in 1 .. net[e] : x = <<e, i>>
  BY DEF InNetwork

LEMMA CopiesNext ==
  ASSUME NEW c, NEW x
  PROVE  x \in InNetwork(c)' <=> \E e \in OfClient(c)' : \E i \in 1 .. net'[e] : x = <<e, i>>
  BY DEF InNetwork

\* The copies of a client whose datagrams are not touched.
LEMMA SameCopies ==
  ASSUME NEW c, OfClient(c)' = OfClient(c), \A e \in OfClient(c) : net'[e] = net[e]
  PROVE  InNetwork(c)' = InNetwork(c)
  <1> SUFFICES ASSUME NEW x PROVE x \in InNetwork(c)' <=> x \in InNetwork(c)
    BY DEF InNetwork
  <1>1. x \in InNetwork(c) <=> \E e \in OfClient(c) : \E i \in 1 .. net[e] : x = <<e, i>>
    BY Copies
  <1>2. x \in InNetwork(c)' <=> \E e \in OfClient(c)' : \E i \in 1 .. net'[e] : x = <<e, i>>
    BY CopiesNext
  <1>3. x \in InNetwork(c)' <=> \E e \in OfClient(c) : \E i \in 1 .. net[e] : x = <<e, i>>
    BY <1>2
  <1> QED
    BY <1>1, <1>3

\* A datagram put into the network is one more of its client's.
LEMMA DatagramAdded ==
  ASSUME NetOK, NEW d \in Datagrams, d.line.by = ClientOf(d),
         net' = net (+) SetToBag({d})
  PROVE  /\ NetOK'
         /\ \A c \in Clients :
              /\ Cardinality(InNetwork(c))' =
                   Cardinality(InNetwork(c)) + (IF c = ClientOf(d) THEN 1 ELSE 0)
              /\ OfClient(c)' = OfClient(c) \cup (IF c = ClientOf(d) THEN {d} ELSE {})
  <1> DEFINE n == IF d \in DOMAIN net THEN net[d] ELSE 0
  <1>1. /\ DOMAIN net' = DOMAIN net \cup {d}
        /\ net'[d] = n + 1
        /\ \A e \in DOMAIN net : e # d => net'[e] = net[e]
        /\ net' \in [DOMAIN net' -> Nat \ {0}]
    BY DEF NetOK, (+), SetToBag
  <1>2. \A e \in DOMAIN net' : e \in Datagrams /\ e.line.by = ClientOf(e)
    BY <1>1 DEF NetOK
  <1>3. ASSUME NEW c \in Clients
        PROVE  /\ OfClient(c) = {e \in DOMAIN net : ClientOf(e) = c}
               /\ OfClient(c)' = {e \in DOMAIN net' : ClientOf(e) = c}
    BY OwnDatagrams, <1>2 DEF OfClient, BagToSet, Datagrams, ClientOf
  <1>4. ASSUME NEW c \in Clients, c # ClientOf(d)
        PROVE  OfClient(c)' = OfClient(c) /\ InNetwork(c)' = InNetwork(c)
    <2>0. /\ OfClient(c) = {e \in DOMAIN net : ClientOf(e) = c}
          /\ OfClient(c)' = {e \in DOMAIN net' : ClientOf(e) = c}
      BY <1>3
    <2>1. OfClient(c)' = OfClient(c)
      BY <2>0, <1>1, <1>4
    <2>2. \A e \in OfClient(c) : net'[e] = net[e]
      BY <2>0, <1>1, <1>4
    <2> QED
      BY <2>1, <2>2, SameCopies
  <1>5. ASSUME NEW c \in Clients, c = ClientOf(d)
        PROVE  /\ OfClient(c)' = OfClient(c) \cup {d}
               /\ InNetwork(c)' = InNetwork(c) \cup {<<d, n + 1>>}
               /\ <<d, n + 1>> \notin InNetwork(c)
    <2>1. OfClient(c)' = OfClient(c) \cup {d}
      BY <1>1, <1>3, <1>5
    <2>2. n \in Nat /\ 1 .. (n + 1) = (1 .. n) \cup {n + 1}
      BY DEF NetOK
    <2>3. <<d, n + 1>> \notin InNetwork(c)
      BY <2>2, <1>3 DEF InNetwork
    <2>4. InNetwork(c)' \subseteq InNetwork(c) \cup {<<d, n + 1>>}
      <3> SUFFICES ASSUME NEW e \in OfClient(c)', NEW i \in 1 .. net'[e]
                   PROVE  <<e, i>> \in InNetwork(c) \cup {<<d, n + 1>>}
        BY SMTT(30) DEF InNetwork
      <3>1. CASE e # d
        <4>1. e \in OfClient(c) /\ i \in 1 .. net[e]
          BY <3>1, <2>1, <1>1, <1>3
        <4> QED
          BY <4>1, Copies
      <3>2. CASE e = d /\ i = n + 1
        BY <3>2
      <3>3. CASE e = d /\ i # n + 1
        <4>1. i \in 1 .. n /\ n # 0 /\ d \in DOMAIN net
          BY <3>3, <1>1, <2>2
        <4> QED
          BY <3>3, <4>1, <1>3, <1>5 DEF InNetwork
      <3> QED
        BY <3>1, <3>2, <3>3
    <2>5. InNetwork(c) \cup {<<d, n + 1>>} \subseteq InNetwork(c)'
      <3>1. <<d, n + 1>> \in InNetwork(c)'
        BY <2>1, <2>2, <1>1 DEF InNetwork
      <3>2. ASSUME NEW e \in OfClient(c), NEW i \in 1 .. net[e]
            PROVE  <<e, i>> \in InNetwork(c)'
        <4>1. e \in DOMAIN net /\ e \in OfClient(c)'
          BY <2>1, <1>3
        <4>2. CASE e # d
          BY <4>1, <4>2, <1>1, CopiesNext
        <4>3. CASE e = d
          BY <4>1, <4>3, <1>1, <2>2, CopiesNext
        <4> QED
          BY <4>2, <4>3
      <3> QED
        BY <3>1, <3>2, Copies
    <2> QED
      BY <2>1, <2>3, <2>4, <2>5
  <1>6. ASSUME NEW c \in Clients
        PROVE  /\ IsFiniteSet(InNetwork(c))'
               /\ Cardinality(InNetwork(c))' =
                    Cardinality(InNetwork(c)) + (IF c = ClientOf(d) THEN 1 ELSE 0)
    <2>1. IsFiniteSet(InNetwork(c)) /\ Cardinality(InNetwork(c)) \in Nat
      BY FS_CardinalityType DEF NetOK
    <2>2. CASE c = ClientOf(d)
      BY <2>1, <2>2, <1>5, FS_AddElement
    <2>3. CASE c # ClientOf(d)
      BY <2>1, <2>3, <1>4
    <2> QED
      BY <2>2, <2>3
  <1> QED
    BY <1>1, <1>2, <1>4, <1>5, <1>6 DEF NetOK

\* A datagram taken from the network is one less of its client's.
LEMMA DatagramRemoved ==
  ASSUME NetOK, NEW d \in DOMAIN net, net' = net (-) SetToBag({d})
  PROVE  /\ NetOK'
         /\ d \in Datagrams /\ d.line.by = ClientOf(d) /\ ClientOf(d) \in Clients
         /\ d \in OfClient(ClientOf(d))
         /\ \A c \in Clients :
              /\ Cardinality(InNetwork(c))' =
                   Cardinality(InNetwork(c)) - (IF c = ClientOf(d) THEN 1 ELSE 0)
              /\ OfClient(c)' \subseteq OfClient(c)
  <1> DEFINE n == net[d]
  <1>0. n \in Nat \ {0} /\ 1 .. n = (1 .. (n - 1)) \cup {n}
    BY DEF NetOK
  <1>1. /\ DOMAIN net' = {e \in DOMAIN net : e # d \/ n > 1}
        /\ n > 1 => net'[d] = n - 1
        /\ \A e \in DOMAIN net : e # d => net'[e] = net[e]
        /\ net' \in [DOMAIN net' -> Nat \ {0}]
    BY DEF NetOK, (-), SetToBag
  <1>2. \A e \in DOMAIN net' : e \in Datagrams /\ e.line.by = ClientOf(e)
    BY <1>1 DEF NetOK
  <1>3. ASSUME NEW c \in Clients
        PROVE  /\ OfClient(c) = {e \in DOMAIN net : ClientOf(e) = c}
               /\ OfClient(c)' = {e \in DOMAIN net' : ClientOf(e) = c}
    BY OwnDatagrams, <1>2 DEF OfClient, BagToSet, Datagrams, ClientOf
  <1>4. ASSUME NEW c \in Clients, c # ClientOf(d)
        PROVE  OfClient(c)' = OfClient(c) /\ InNetwork(c)' = InNetwork(c)
    <2>0. /\ OfClient(c) = {e \in DOMAIN net : ClientOf(e) = c}
          /\ OfClient(c)' = {e \in DOMAIN net' : ClientOf(e) = c}
      BY <1>3
    <2>1. OfClient(c)' = OfClient(c)
      BY <2>0, <1>1, <1>4
    <2>2. \A e \in OfClient(c) : net'[e] = net[e]
      BY <2>0, <1>1, <1>4
    <2> QED
      BY <2>1, <2>2, SameCopies
  <1>5. ASSUME NEW c \in Clients, c = ClientOf(d)
        PROVE  /\ InNetwork(c)' = InNetwork(c) \ {<<d, n>>}
               /\ <<d, n>> \in InNetwork(c)
    <2>1. <<d, n>> \in InNetwork(c)
      BY <1>0, <1>3, <1>5 DEF InNetwork
    <2>2. InNetwork(c)' \subseteq InNetwork(c) \ {<<d, n>>}
      <3> SUFFICES ASSUME NEW e \in OfClient(c)', NEW i \in 1 .. net'[e]
                   PROVE  <<e, i>> \in InNetwork(c) \ {<<d, n>>}
        BY DEF InNetwork
      <3>1. e \in DOMAIN net' /\ e \in DOMAIN net /\ e \in OfClient(c)
        BY <1>1, <1>3
      <3>2. CASE e # d
        BY <3>1, <3>2, <1>1, Copies
      <3>3. CASE e = d
        <4>1. i \in 1 .. (n - 1)
          BY <3>1, <3>3, <1>1
        <4> QED
          BY <4>1, <3>1, <3>3, <1>0, Copies
      <3> QED
        BY <3>2, <3>3
    <2>3. ASSUME NEW e \in OfClient(c), NEW i \in 1 .. net[e], <<e, i>> # <<d, n>>
          PROVE  <<e, i>> \in InNetwork(c)'
      <3>1. e \in DOMAIN net /\ ClientOf(e) = c
        BY <1>3
      <3>2. CASE e # d
        BY <3>1, <3>2, <1>1, <1>3, CopiesNext, ZenonT(40)
      <3>3. CASE e = d
        <4>1. n > 1 /\ i \in 1 .. (n - 1)
          BY <2>3, <3>3, <1>0
        <4> QED
          BY <4>1, <3>1, <3>3, <1>1, <1>3, CopiesNext, SMTT(30)
      <3> QED
        BY <3>2, <3>3
    <2> QED
      BY <2>1, <2>2, <2>3, Copies
  <1>6. ASSUME NEW c \in Clients
        PROVE  /\ IsFiniteSet(InNetwork(c))'
               /\ Cardinality(InNetwork(c))' =
                    Cardinality(InNetwork(c)) - (IF c = ClientOf(d) THEN 1 ELSE 0)
    <2>1. IsFiniteSet(InNetwork(c)) /\ Cardinality(InNetwork(c)) \in Nat
      BY FS_CardinalityType DEF NetOK
    <2>2. CASE c = ClientOf(d)
      BY <2>1, <2>2, <1>5, FS_RemoveElement
    <2>3. CASE c # ClientOf(d)
      BY <2>1, <2>3, <1>4
    <2> QED
      BY <2>2, <2>3
  <1>7. d \in Datagrams /\ d.line.by = ClientOf(d) /\ ClientOf(d) \in Clients
    BY DEF NetOK, Datagrams, ClientOf
  <1> QED
    BY <1>1, <1>2, <1>3, <1>6, <1>7 DEF NetOK

\* A step that leaves the network alone.
LEMMA NetworkSame ==
  ASSUME NetOK, net' = net
  PROVE  /\ NetOK'
         /\ \A c \in Clients : /\ Cardinality(InNetwork(c))' = Cardinality(InNetwork(c))
                             /\ OfClient(c)' = OfClient(c)
  BY DEF NetOK, InNetwork, OfClient

LEMMA Counts ==
  ASSUME NetOK, NEW c \in Clients
  PROVE  /\ IsFiniteSet(InNetwork(c)) /\ Cardinality(InNetwork(c)) \in Nat
         /\ Cardinality(InNetwork(c)) = 0 => OfClient(c) = {}
  <1>1. IsFiniteSet(InNetwork(c)) /\ Cardinality(InNetwork(c)) \in Nat
    BY FS_CardinalityType DEF NetOK
  <1>2. ASSUME NEW d \in OfClient(c) PROVE <<d, 1>> \in InNetwork(c)
    <2>1. d \in DOMAIN net /\ 1 \in 1 .. net[d]
      BY DEF OfClient, BagToSet, NetOK
    <2> QED
      BY <2>1, Copies
  <1> QED
    BY <1>1, <1>2, FS_EmptySet

LEMMA CountsNext ==
  ASSUME NetOK', NEW c \in Clients
  PROVE  Cardinality(InNetwork(c))' \in Nat
  BY FS_CardinalityType DEF NetOK

LEMMA InitHolds == Init => IInv
  <1> SUFFICES ASSUME Init PROVE IInv
    OBVIOUS
  <1>1. net = [d \in {} |-> 1] /\ DOMAIN net = {}
    BY DEF Init, EmptyBag, SetToBag
  <1>2. \A c \in Clients : OfClient(c) = {} /\ InNetwork(c) = {}
    BY <1>1 DEF OfClient, InNetwork, BagToSet
  <1>3. NetOK
    BY <1>1, <1>2, FS_EmptySet DEF NetOK
  <1>4. TypeOK /\ PlacesOK /\ BuffersOK /\ EchoIsOwn
    BY DEF Init, TypeOK, PlacesOK, BuffersOK, EchoIsOwn, Programs
  <1>5. Balance /\ Fresh
    BY <1>2, FS_EmptySet DEF Init, Balance, UnderWay, Refusals, Fresh, Programs
  <1> QED
    BY <1>3, <1>4, <1>5 DEF IInv

\* A program moves, and no other.
LEMMA StepMoves ==
  ASSUME TypeOK, NEW p \in Programs, NEW from, NEW to, Step(p, from, to)
  PROVE  /\ pc[p] = from /\ pc'[p] = to
         /\ \A q \in Programs : q # p => pc'[q] = pc[q]
  BY DEF Step, TypeOK

\* On its way to an address a program touches neither lines nor datagrams.
LEMMA StartMoves ==
  ASSUME TypeOK, NEW p \in Programs, Start(p)
  PROVE  /\ UNCHANGED <<clientVars, serverVars, net, faults>>
         /\ pc[p] \in {"resolve", "try", "attach"}
         /\ pc'[p] \in {"try", "attach", "failed", IF p = Server THEN "receive" ELSE "fgets"}
         /\ \A q \in Programs : q # p => pc'[q] = pc[q]
  BY StepMoves
  DEF Start, Resolve, OpenSocket, NoSocket, Attach, NextAddress, NoAddress, Step, TypeOK

LEMMA StartStep ==
  ASSUME IInv, NEW p \in Programs, Start(p)
  PROVE  IInv'
  <1> USE DEF IInv
  <1>1. /\ UNCHANGED <<clientVars, serverVars, net, faults>>
        /\ pc[p] \in {"resolve", "try", "attach"}
        /\ pc'[p] \in {"try", "attach", "failed", IF p = Server THEN "receive" ELSE "fgets"}
        /\ \A q \in Programs : q # p => pc'[q] = pc[q]
    BY StartMoves
  <1>2. /\ pc' \in [Programs -> {"resolve", "try", "attach", "failed", "fgets", "write", "read",
                                 "receive", "reply"}]
        /\ address' \in [Programs -> 1 .. Addresses + 1]
        /\ sockets' \in [Programs -> {0, 1}]
        /\ \A q \in Programs :
             /\ pc'[q] \in {"resolve", "try"} => sockets'[q] = 0
             /\ pc'[q] = "attach" => sockets'[q] = 1 /\ address'[q] <= Addresses
    <2>1. CASE Resolve(p)
      BY <2>1 DEF Resolve, Step, TypeOK, PlacesOK
    <2>2. CASE OpenSocket(p)
      BY <2>2 DEF OpenSocket, Step, TypeOK, PlacesOK
    <2>3. CASE NoSocket(p)
      BY <2>3 DEF NoSocket, TypeOK, PlacesOK
    <2>4. CASE Attach(p)
      BY <2>4 DEF Attach, Step, TypeOK, PlacesOK
    <2>5. CASE NextAddress(p)
      BY <2>5 DEF NextAddress, Step, TypeOK, PlacesOK
    <2>6. CASE NoAddress(p)
      BY <2>6 DEF NoAddress, Step, TypeOK, PlacesOK
    <2> QED
      BY <2>1, <2>2, <2>3, <2>4, <2>5, <2>6 DEF Start
  <1>3. NetOK' /\ TypeOK' /\ PlacesOK'
    BY <1>1, <1>2, NetworkSame DEF TypeOK, PlacesOK, clientVars, serverVars, faults, Programs
  <1>4. BuffersOK' /\ EchoIsOwn'
    BY <1>1 DEF BuffersOK, EchoIsOwn, clientVars, serverVars, Programs
  <1>5. Balance'
    <2> SUFFICES ASSUME NEW c \in Clients
                 PROVE  (UnderWay(c) + Refusals(c) <= copied + (IF pc[c] = "read" THEN 1 ELSE 0))'
      BY DEF Balance
    <2>1. UnderWay(c)' = UnderWay(c)
      BY <1>1, NetworkSame DEF UnderWay, serverVars, Programs
    <2>2. Refusals(c)' \in {0, Refusals(c)}
      BY <1>1 DEF Refusals, clientVars, Programs
    <2>3. (pc'[c] = "read") = (pc[c] = "read") /\ copied' = copied
      BY <1>1 DEF Programs, faults
    <2> QED
      BY <2>1, <2>2, <2>3, Counts DEF Balance, UnderWay, Refusals, TypeOK
  <1>6. Fresh'
    BY <1>1, NetworkSame DEF Fresh, clientVars, serverVars, faults, Programs
  <1> QED
    BY <1>3, <1>4, <1>5, <1>6

\* Between two lines nothing of the client is under way, but for the copies.
LEMMA FgetsStep ==
  ASSUME IInv, NEW c \in Clients, Fgets(c)
  PROVE  IInv'
  <1> USE DEF IInv, Fgets
  <1>1. /\ pc[c] = "fgets" /\ pc'[c] = "write" /\ net' = net
        /\ \A q \in Programs : q # c => pc'[q] = pc[q]
    BY StepMoves DEF Programs
  <1>2. output'[c] \in Lines /\ output'[c].by = c
        /\ \A b \in Clients : b # c => output'[b] = output[b]
    BY DEF TypeOK, Lines
  <1>3. NetOK' /\ TypeOK' /\ PlacesOK'
    <2>1. output' \in [Clients -> Lines \cup {NoLine}]
      BY <1>2 DEF TypeOK
    <2> QED
      BY <1>1, <2>1, NetworkSame DEF TypeOK, PlacesOK, faults, serverVars, Programs, Step
  <1>4. BuffersOK' /\ EchoIsOwn'
    BY <1>1, <1>2 DEF BuffersOK, EchoIsOwn, serverVars, Programs
  <1>5. Balance'
    BY <1>1, NetworkSame DEF Balance, UnderWay, Refusals, serverVars, faults, Programs
  <1>6. copied = 0 => OfClient(c) = {} /\ ~(pc[Server] = "reply" /\ peer = c)
    BY <1>1, Counts DEF Balance, UnderWay, Refusals
  <1>7. Fresh'
    BY <1>1, <1>2, <1>6, NetworkSame DEF Fresh, serverVars, faults, Programs
  <1> QED
    BY <1>3, <1>4, <1>5, <1>7

LEMMA WriteStep ==
  ASSUME IInv, NEW c \in Clients, Write(c)
  PROVE  IInv'
  <1> USE DEF IInv, Write
  <1>1. /\ pc[c] = "write" /\ pc'[c] = "read"
        /\ \A q \in Programs : q # c => pc'[q] = pc[q]
    BY StepMoves DEF Programs
  <1>2. /\ Request(c) \in Datagrams /\ Request(c).line.by = c
        /\ ClientOf(Request(c)) = c /\ Request(c).line = output[c]
    BY <1>1 DEF Request, Datagrams, ClientOf, BuffersOK
  <1>3. /\ NetOK'
        /\ \A b \in Clients :
             /\ Cardinality(InNetwork(b))' = Cardinality(InNetwork(b)) + (IF b = c THEN 1 ELSE 0)
             /\ OfClient(b)' = OfClient(b) \cup (IF b = c THEN {Request(c)} ELSE {})
    BY <1>2, DatagramAdded
  <1>4. TypeOK' /\ PlacesOK' /\ BuffersOK' /\ EchoIsOwn'
    <2>1. writes' \in [Clients -> 0 .. MaxWrites]
      BY DEF TypeOK
    <2> QED
      BY <1>1, <2>1 DEF TypeOK, PlacesOK, BuffersOK, EchoIsOwn, faults, serverVars, Programs, Step
  <1>5. Balance'
    <2> SUFFICES ASSUME NEW b \in Clients
                 PROVE  (UnderWay(b) + Refusals(b) <= copied + (IF pc[b] = "read" THEN 1 ELSE 0))'
      BY DEF Balance
    <2>1. UnderWay(b)' = UnderWay(b) + (IF b = c THEN 1 ELSE 0)
      BY <1>1, <1>3, Counts DEF UnderWay, serverVars, Programs
    <2>2. Refusals(b)' = Refusals(b)
      BY <1>1 DEF Refusals, Programs
    <2> QED
      BY <1>1, <2>1, <2>2, Counts DEF Balance, UnderWay, Refusals, TypeOK, faults, Programs
  <1>6. Fresh'
    BY <1>1, <1>2, <1>3 DEF Fresh, serverVars, faults, Programs
  <1> QED
    BY <1>3, <1>4, <1>5, <1>6

LEMMA ReadStep ==
  ASSUME IInv, NEW c \in Clients, Read(c)
  PROVE  IInv' /\ (copied = 0 => got'[c] = output[c])
  <1> USE DEF IInv, Read
  <1>1. /\ pc[c] = "read" /\ pc'[c] = "fgets"
        /\ \A q \in Programs : q # c => pc'[q] = pc[q]
    BY StepMoves DEF Programs
  <1>2. PICK d \in DOMAIN net : /\ d.to = c /\ net' = net (-) SetToBag({d})
                              /\ got' = [got EXCEPT ![c] = d.line]
    BY DEF Arrived, BagToSet
  <1>3. /\ NetOK'
        /\ ClientOf(d) = c /\ d \in OfClient(c)
        /\ d.line \in Lines /\ d.line.by = c
        /\ \A b \in Clients :
             /\ Cardinality(InNetwork(b))' = Cardinality(InNetwork(b)) - (IF b = c THEN 1 ELSE 0)
             /\ OfClient(b)' \subseteq OfClient(b)
    <2>1. ClientOf(d) = c
      BY <1>2 DEF ClientOf
    <2>2. d.line \in Lines
      BY DatagramRemoved, <1>2 DEF Datagrams
    <2> QED
      BY <1>2, <2>1, <2>2, DatagramRemoved
  <1>4. TypeOK' /\ PlacesOK' /\ BuffersOK' /\ EchoIsOwn'
    <2>1. /\ got' \in [Clients -> Lines \cup {NoLine}] /\ got'[c].by = c
          /\ \A b \in Clients : b # c => got'[b] = got[b]
      BY <1>2, <1>3 DEF TypeOK
    <2> QED
      BY <1>1, <2>1 DEF TypeOK, PlacesOK, BuffersOK, EchoIsOwn, faults, serverVars, Programs, Step
  <1>5. Balance'
    <2> SUFFICES ASSUME NEW b \in Clients
                 PROVE  (UnderWay(b) + Refusals(b) <= copied + (IF pc[b] = "read" THEN 1 ELSE 0))'
      BY DEF Balance
    <2>1. UnderWay(b)' = UnderWay(b) - (IF b = c THEN 1 ELSE 0)
      BY <1>1, <1>3, Counts DEF UnderWay, serverVars, Programs
    <2>2. Refusals(b)' = Refusals(b)
      BY <1>1 DEF Refusals, Programs
    <2> QED
      BY <1>1, <2>1, <2>2, Counts DEF Balance, UnderWay, Refusals, TypeOK, faults, Programs
  <1>6. Fresh'
    BY <1>1, <1>3 DEF Fresh, serverVars, faults, Programs
  <1>7. copied = 0 => got'[c] = output[c]
    BY <1>2, <1>3 DEF Fresh, TypeOK
  <1> QED
    BY <1>3, <1>4, <1>5, <1>6, <1>7

LEMMA CallFailsStep ==
  ASSUME IInv, NEW c \in Clients, CallFails(c)
  PROVE  IInv'
  <1> USE DEF IInv, CallFails
  <1>1. /\ pc[c] \in {"write", "read"} /\ pc'[c] = "failed" /\ net' = net
        /\ \A q \in Programs : q # c => pc'[q] = pc[q]
    BY StepMoves DEF Programs
  <1>2. NetOK' /\ TypeOK' /\ PlacesOK' /\ BuffersOK' /\ EchoIsOwn'
    BY <1>1, NetworkSame
    DEF TypeOK, PlacesOK, BuffersOK, EchoIsOwn, clientVars, faults, serverVars, Programs, Step
  <1>3. Balance'
    <2> SUFFICES ASSUME NEW b \in Clients
                 PROVE  (UnderWay(b) + Refusals(b) <= copied + (IF pc[b] = "read" THEN 1 ELSE 0))'
      BY DEF Balance
    <2>1. UnderWay(b)' = UnderWay(b)
      BY <1>1, NetworkSame DEF UnderWay, serverVars, Programs
    <2>2. Refusals(b)' = IF b = c THEN 0 ELSE Refusals(b)
      BY <1>1 DEF Refusals, clientVars, Programs
    <2>3. Refusals(c) = 1
      BY <1>1 DEF Refusals
    <2> QED
      BY <1>1, <2>1, <2>2, <2>3, Counts DEF Balance, UnderWay, Refusals, TypeOK, faults, Programs
  <1>4. Fresh'
    BY <1>1, NetworkSame DEF Fresh, clientVars, serverVars, faults, Programs
  <1> QED
    BY <1>2, <1>3, <1>4

\* The datagram the server takes is then the line it has to answer.
LEMMA RecvfromStep ==
  ASSUME IInv, NEW c \in Clients, Recvfrom(c)
  PROVE  IInv'
  <1> USE DEF IInv, Recvfrom
  <1>1. /\ pc[Server] = "receive" /\ pc'[Server] = "reply" /\ peer' = c
        /\ \A q \in Clients : pc'[q] = pc[q]
    BY StepMoves DEF Programs
  <1>2. PICK d \in DOMAIN net : /\ d.to = Server /\ d.from = c /\ buf' = d.line
                              /\ net' = net (-) SetToBag({d})
    BY DEF Arrived, BagToSet
  <1>3. /\ NetOK'
        /\ ClientOf(d) = c /\ d \in OfClient(c)
        /\ buf' \in Lines /\ buf'.by = c
        /\ \A b \in Clients :
             /\ Cardinality(InNetwork(b))' = Cardinality(InNetwork(b)) - (IF b = c THEN 1 ELSE 0)
             /\ OfClient(b)' \subseteq OfClient(b)
    <2>1. ClientOf(d) = c
      BY <1>2 DEF ClientOf
    <2>2. d.line \in Lines
      BY DatagramRemoved, <1>2 DEF Datagrams
    <2> QED
      BY <1>2, <2>1, <2>2, DatagramRemoved
  <1>4. TypeOK' /\ PlacesOK' /\ BuffersOK' /\ EchoIsOwn'
    BY <1>1, <1>3 DEF TypeOK, PlacesOK, BuffersOK, EchoIsOwn, clientVars, faults, Programs, Step
  <1>5. Balance'
    <2> SUFFICES ASSUME NEW b \in Clients
                 PROVE  (UnderWay(b) + Refusals(b) <= copied + (IF pc[b] = "read" THEN 1 ELSE 0))'
      BY DEF Balance
    <2>1. UnderWay(b)' = UnderWay(b)
      BY <1>1, <1>3, Counts DEF UnderWay
    <2>2. Refusals(b)' = Refusals(b)
      BY <1>1 DEF Refusals, clientVars
    <2> QED
      BY <1>1, <2>1, <2>2 DEF Balance, faults
  <1>6. Fresh'
    BY <1>1, <1>2, <1>3 DEF Fresh, clientVars, faults
  <1> QED
    BY <1>3, <1>4, <1>5, <1>6

LEMMA SendtoStep ==
  ASSUME IInv, Sendto
  PROVE  IInv'
  <1> USE DEF IInv, Sendto
  <1>1. /\ pc[Server] = "reply" /\ pc'[Server] = "receive"
        /\ \A q \in Clients : pc'[q] = pc[q]
    BY StepMoves DEF Programs
  <1> DEFINE d == Answer(peer, buf)
  <1>2. /\ d \in Datagrams /\ d.line.by = peer /\ ClientOf(d) = peer /\ d.line = buf
        /\ peer \in Clients
    BY <1>1 DEF Answer, Datagrams, ClientOf, BuffersOK
  <1>3. /\ NetOK'
        /\ \A b \in Clients :
             /\ Cardinality(InNetwork(b))' = Cardinality(InNetwork(b)) + (IF b = peer THEN 1 ELSE 0)
             /\ OfClient(b)' = OfClient(b) \cup (IF b = peer THEN {d} ELSE {})
    BY <1>2, DatagramAdded
  <1>4. TypeOK' /\ PlacesOK' /\ BuffersOK' /\ EchoIsOwn'
    BY <1>1 DEF TypeOK, PlacesOK, BuffersOK, EchoIsOwn, clientVars, serverVars, faults, Programs, Step
  <1>5. Balance'
    <2> SUFFICES ASSUME NEW b \in Clients
                 PROVE  (UnderWay(b) + Refusals(b) <= copied + (IF pc[b] = "read" THEN 1 ELSE 0))'
      BY DEF Balance
    <2>1. UnderWay(b)' = UnderWay(b)
      BY <1>1, <1>3, Counts DEF UnderWay, serverVars
    <2>2. Refusals(b)' = Refusals(b)
      BY <1>1 DEF Refusals, clientVars
    <2> QED
      BY <1>1, <2>1, <2>2 DEF Balance, faults
  <1>6. Fresh'
    BY <1>1, <1>2, <1>3 DEF Fresh, clientVars, serverVars, faults
  <1> QED
    BY <1>3, <1>4, <1>5, <1>6

LEMMA LoseStep ==
  ASSUME IInv, NEW d \in DOMAIN net, Lose(d)
  PROVE  IInv'
  <1> USE DEF IInv, Lose
  <1>1. /\ NetOK'
        /\ \A b \in Clients :
             /\ Cardinality(InNetwork(b))' <= Cardinality(InNetwork(b))
             /\ OfClient(b)' \subseteq OfClient(b)
    BY DatagramRemoved, Counts
  <1>2. TypeOK' /\ PlacesOK' /\ BuffersOK' /\ EchoIsOwn'
    BY DEF TypeOK, PlacesOK, BuffersOK, EchoIsOwn, clientVars, serverVars
  <1>3. Balance'
    <2> SUFFICES ASSUME NEW b \in Clients
                 PROVE  (UnderWay(b) + Refusals(b) <= copied + (IF pc[b] = "read" THEN 1 ELSE 0))'
      BY DEF Balance
    <2>1. UnderWay(b)' <= UnderWay(b) /\ UnderWay(b)' \in Nat /\ UnderWay(b) \in Nat
      BY <1>1, Counts, CountsNext DEF UnderWay, serverVars
    <2>2. Refusals(b)' = Refusals(b)
      BY DEF Refusals, clientVars
    <2> QED
      BY <2>1, <2>2 DEF Balance, Refusals, TypeOK
  <1>4. Fresh'
    BY <1>1 DEF Fresh, clientVars, serverVars
  <1> QED
    BY <1>1, <1>2, <1>3, <1>4

LEMMA DuplicateStep ==
  ASSUME IInv, NEW d \in DOMAIN net, Duplicate(d)
  PROVE  IInv'
  <1> USE DEF IInv, Duplicate
  <1>1. d \in Datagrams /\ d.line.by = ClientOf(d)
    BY DEF NetOK
  <1>2. /\ NetOK'
        /\ \A b \in Clients :
             Cardinality(InNetwork(b))' <= Cardinality(InNetwork(b)) + 1
    BY <1>1, DatagramAdded, Counts
  <1>3. TypeOK' /\ PlacesOK' /\ BuffersOK' /\ EchoIsOwn'
    BY DEF TypeOK, PlacesOK, BuffersOK, EchoIsOwn, clientVars, serverVars
  <1>4. Balance'
    <2> SUFFICES ASSUME NEW b \in Clients
                 PROVE  (UnderWay(b) + Refusals(b) <= copied + (IF pc[b] = "read" THEN 1 ELSE 0))'
      BY DEF Balance
    <2>1. UnderWay(b)' <= UnderWay(b) + 1 /\ UnderWay(b)' \in Nat /\ UnderWay(b) \in Nat
      BY <1>2, Counts, CountsNext DEF UnderWay, serverVars
    <2>2. Refusals(b)' = Refusals(b)
      BY DEF Refusals, clientVars
    <2> QED
      BY <2>1, <2>2 DEF Balance, Refusals, TypeOK
  <1>5. Fresh'
    BY DEF Fresh, TypeOK
  <1> QED
    BY <1>2, <1>3, <1>4, <1>5

\* A refused datagram leaves the network, and its client gets to know.
LEMMA RefuseStep ==
  ASSUME IInv, NEW d \in DOMAIN net, Refuse(d)
  PROVE  IInv'
  <1> USE DEF IInv, Refuse
  <1>1. /\ NetOK'
        /\ d.from \in Clients /\ ClientOf(d) = d.from
        /\ \A b \in Clients :
             /\ Cardinality(InNetwork(b))' =
                  Cardinality(InNetwork(b)) - (IF b = d.from THEN 1 ELSE 0)
             /\ OfClient(b)' \subseteq OfClient(b)
    BY DatagramRemoved DEF ClientOf
  <1>2. TypeOK' /\ PlacesOK' /\ BuffersOK' /\ EchoIsOwn'
    <2>1. refused' \in [Clients -> BOOLEAN]
      BY <1>1 DEF TypeOK
    <2> QED
      BY <2>1 DEF TypeOK, PlacesOK, BuffersOK, EchoIsOwn, serverVars, faults
  <1>3. Balance'
    <2> SUFFICES ASSUME NEW b \in Clients
                 PROVE  (UnderWay(b) + Refusals(b) <= copied + (IF pc[b] = "read" THEN 1 ELSE 0))'
      BY DEF Balance
    <2>1. UnderWay(b)' = UnderWay(b) - (IF b = d.from THEN 1 ELSE 0)
      BY <1>1, Counts DEF UnderWay, serverVars
    <2>2. Refusals(b)' <= Refusals(b) + (IF b = d.from THEN 1 ELSE 0)
      BY <1>1 DEF Refusals, TypeOK
    <2> QED
      BY <2>1, <2>2, Counts DEF Balance, UnderWay, Refusals, TypeOK, faults
  <1>4. Fresh'
    BY <1>1 DEF Fresh, serverVars, faults
  <1> QED
    BY <1>1, <1>2, <1>3, <1>4

LEMMA StepHolds == IInv /\ [Next]_vars => IInv'
  <1> SUFFICES ASSUME IInv, [Next]_vars PROVE IInv'
    OBVIOUS
  <1>1. ASSUME NEW c \in Clients, client(c) PROVE IInv'
    BY <1>1, StartStep, FgetsStep, WriteStep, ReadStep, CallFailsStep DEF client, Programs
  <1>2. CASE server
    BY <1>2, StartStep, RecvfromStep, SendtoStep DEF server, Programs
  <1>3. CASE Network \/ Refusal
    BY <1>3, LoseStep, DuplicateStep, RefuseStep DEF Network, Refusal, BagToSet
  <1>4. CASE UNCHANGED vars
    <2>1. NetOK'
      BY <1>4, NetworkSame DEF IInv, vars
    <2> QED
      BY <1>4, <2>1 DEF IInv, vars, clientVars, serverVars, faults, TypeOK, PlacesOK, BuffersOK,
                    EchoIsOwn, Balance, UnderWay, Refusals, InNetwork, OfClient, Fresh
  <1> QED
    BY <1>1, <1>2, <1>3, <1>4 DEF Next
-----------------------------------------------------------------------------

\* The programs, their buffers and the network agree, in every reachable state.
THEOREM Invariance == Spec => []IInv
  BY InitHolds, StepHolds, PTL DEF Spec

\* The variables keep their types: no address is tried beyond the last, and no
\* program has two sockets open.
THEOREM TypeCorrect == Spec => []TypeOK
  <1>1. IInv => TypeOK
    BY DEF IInv
  <1> QED
    BY Invariance, <1>1, PTL

\* A client reads only lines of its own, through the server's single buffer.
THEOREM NoForeignLine == Spec => []EchoIsOwn
  <1>1. IInv => EchoIsOwn
    BY DEF IInv
  <1> QED
    BY Invariance, <1>1, PTL

\* At most one datagram of a client is under way, besides the network's copies.
THEOREM InLockStep == Spec => []LockStep
  <1>1. IInv => LockStep
    BY Counts DEF IInv, LockStep, Balance, UnderWay, Refusals, TypeOK
  <1> QED
    BY Invariance, <1>1, PTL

\* As long as the network made no copy, a client reads the line it just wrote.
THEOREM ReadsWhatItWrote == Spec => AnswersLastLine
  <1>1. ASSUME IInv, [Next]_vars, NEW c \in Clients,
               pc[c] = "read", pc'[c] = "fgets", copied = 0
        PROVE  got'[c] = output[c]
    <2>1. ASSUME NEW p \in Programs, Start(p) PROVE FALSE
      <3>1. pc[p] \in {"resolve", "try", "attach"} /\ \A q \in Programs : q # p => pc'[q] = pc[q]
        BY <1>1, <2>1, StartMoves DEF IInv
      <3> QED
        BY <1>1, <3>1 DEF Programs
    <2>2. ASSUME NEW b \in Clients, Fgets(b) \/ Write(b) \/ CallFails(b) PROVE FALSE
      BY <1>1, <2>2 DEF Fgets, Write, CallFails, Step, IInv, TypeOK, Programs
    <2>3. ASSUME NEW b \in Clients, Read(b) PROVE got'[c] = output[c]
      <3>1. b = c
        BY <1>1, <2>3 DEF Read, Step, IInv, TypeOK, Programs
      <3> QED
        BY <1>1, <2>3, <3>1, ReadStep
    <2>4. \A b \in Clients : ~Recvfrom(b)
      BY <1>1 DEF Recvfrom, Step, IInv, TypeOK, Programs
    <2>5. ~Sendto /\ ~Network /\ ~Refusal /\ ~UNCHANGED vars
      BY <1>1 DEF Sendto, Network, Refusal, Lose, Duplicate, Refuse, Step, vars, IInv, TypeOK, Programs
    <2> QED
      BY <1>1, <2>1, <2>2, <2>3, <2>4, <2>5 DEF Next, client, server, Programs
  <1>2. IInv /\ [Next]_vars =>
          [\A c \in Clients :
             pc[c] = "read" /\ pc'[c] = "fgets" /\ copied = 0 => got'[c] = output[c]]_vars
    BY <1>1
  <1> QED
    BY Invariance, <1>2, PTL DEF Spec, AnswersLastLine

=============================================================================
