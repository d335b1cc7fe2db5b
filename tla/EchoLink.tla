------------------------------ MODULE EchoLink ------------------------------
(***************************************************************************)
(* The UDP echo server (remote_test/plc_proxy.c) and its clients           *)
(* (remote_test/socket_client.c) over a network that loses, duplicates and *)
(* reorders datagrams.  A client writes a line and blocks until a datagram *)
(* comes back; it neither numbers its lines nor stops waiting.             *)
(*                                                                         *)
(* A line is its number and its client.  The server and the clients look   *)
(* for a usable address in the same way.                                   *)
(***************************************************************************)
EXTENDS Naturals, FiniteSets, Bags

CONSTANTS Clients,
          Server,
          NoLine,
          Addresses,  \* how many addresses getaddrinfo gives
          MaxLines,   \* bound: the lines on a client's standard input
          MaxWrites,  \* bound: the datagrams a client writes
          MaxFaults   \* bound: the datagrams lost, and those duplicated

ASSUME EchoAssumption ==
  /\ Server \notin Clients
  /\ {Addresses, MaxLines, MaxWrites, MaxFaults} \subseteq Nat
  /\ MaxLines > 0

Programs == Clients \cup {Server}
Lines    == [by : Clients, number : 1 .. MaxLines]

VARIABLES
  pc,       \* pc[p]: where program p is
  address,  \* address[p]: the address it tries
  sockets,  \* sockets[p]: how many it has open
  output,   \* output[c]: the line in the buffer of client c
  writes,   \* writes[c]: how many datagrams it wrote
  got,      \* got[c]: the line it read last
  refused,  \* refused[c]: a datagram of c found nobody bound to the port
  buf,      \* the server's buffer
  peer,     \* the client it answers
  net,      \* the bag of datagrams under way
  lost,     \* how many were lost
  copied    \* how many were duplicated

clientVars == <<output, writes, got, refused>>
serverVars == <<buf, peer>>
faults == <<lost, copied>>
vars == <<pc, address, sockets, clientVars, serverVars, net, faults>>

Init ==
  /\ pc = [p \in Programs |-> "resolve"]
  /\ address = [p \in Programs |-> 1]
  /\ sockets = [p \in Programs |-> 0]
  /\ output = [c \in Clients |-> NoLine]
  /\ writes = [c \in Clients |-> 0]
  /\ got = [c \in Clients |-> NoLine]
  /\ refused = [c \in Clients |-> FALSE]
  /\ buf = NoLine /\ peer = NoLine
  /\ net = EmptyBag
  /\ lost = 0 /\ copied = 0

Step(p, from, to) == pc[p] = from /\ pc' = [pc EXCEPT ![p] = to]

-----------------------------------------------------------------------------
\* Both programs: getaddrinfo, then one address after the other until bind()
\* or connect() succeeds; a socket that does not is closed.

Resolve(p) ==
  /\ \E to \in {"try", "failed"} : Step(p, "resolve", to)
  /\ UNCHANGED <<address, sockets, clientVars, serverVars, net, faults>>

OpenSocket(p) ==
  /\ Step(p, "try", "attach")
  /\ address[p] <= Addresses
  /\ sockets' = [sockets EXCEPT ![p] = @ + 1]
  /\ UNCHANGED <<address, clientVars, serverVars, net, faults>>

NoSocket(p) ==
  /\ pc[p] = "try" /\ address[p] <= Addresses
  /\ address' = [address EXCEPT ![p] = @ + 1]
  /\ UNCHANGED <<pc, sockets, clientVars, serverVars, net, faults>>

Attach(p) ==
  /\ Step(p, "attach", IF p = Server THEN "receive" ELSE "fgets")
  /\ UNCHANGED <<address, sockets, clientVars, serverVars, net, faults>>

NextAddressOpen(p) ==
  /\ Step(p, "attach", "try")
  /\ address' = [address EXCEPT ![p] = @ + 1]
  /\ UNCHANGED <<sockets, clientVars, serverVars, net, faults>>

NextAddress(p) ==
  /\ Step(p, "attach", "try")
  /\ address' = [address EXCEPT ![p] = @ + 1]
  /\ sockets' = [sockets EXCEPT ![p] = @ - 1]
  /\ UNCHANGED <<clientVars, serverVars, net, faults>>

NoAddress(p) ==
  /\ Step(p, "try", "failed")
  /\ address[p] > Addresses
  /\ UNCHANGED <<address, sockets, clientVars, serverVars, net, faults>>

Start(p) ==
  \/ Resolve(p) \/ OpenSocket(p) \/ NoSocket(p) \/ Attach(p) \/ NextAddress(p) \/ NoAddress(p)

-----------------------------------------------------------------------------
\* The client's loop.

Request(c)   == [to |-> Server, from |-> c, line |-> output[c]]
Answer(c, l) == [to |-> c, from |-> Server, line |-> l]
Arrived(p)   == {d \in BagToSet(net) : d.to = p}

\* At the end of the input fgets fails, unnoticed, and the line stays.
Fgets(c) ==
  /\ Step(c, "fgets", "write")
  /\ LET last == IF output[c] = NoLine THEN 0 ELSE output[c].number
         next == IF last < MaxLines THEN last + 1 ELSE last
     IN  output' = [output EXCEPT ![c] = [by |-> c, number |-> next]]
  /\ UNCHANGED <<address, sockets, writes, got, refused, serverVars, net, faults>>

WriteOnly(c) ==
  /\ Step(c, "write", "fgets")
  /\ ~refused[c] /\ writes[c] < MaxWrites
  /\ writes' = [writes EXCEPT ![c] = @ + 1]
  /\ net' = net (+) SetToBag({Request(c)})
  /\ UNCHANGED <<address, sockets, output, got, refused, serverVars, faults>>

Write(c) ==
  /\ Step(c, "write", "read")
  /\ ~refused[c] /\ writes[c] < MaxWrites
  /\ writes' = [writes EXCEPT ![c] = @ + 1]
  /\ net' = net (+) SetToBag({Request(c)})
  /\ UNCHANGED <<address, sockets, output, got, refused, serverVars, faults>>

Read(c) ==
  /\ Step(c, "read", "fgets")
  /\ \E d \in Arrived(c) :
       /\ net' = net (-) SetToBag({d})
       /\ got' = [got EXCEPT ![c] = d.line]
  /\ UNCHANGED <<address, sockets, output, writes, refused, serverVars, faults>>

\* The network's "refused" makes the next write() or read() fail.
CallFails(c) ==
  /\ \E from \in {"write", "read"} : Step(c, from, "failed")
  /\ refused[c]
  /\ UNCHANGED <<address, sockets, clientVars, serverVars, net, faults>>

client(c) == Start(c) \/ Fgets(c) \/ Write(c) \/ Read(c) \/ CallFails(c)

-----------------------------------------------------------------------------
\* The server's loop.  A recvfrom() that fails is ignored; so is a sendto(),
\* whose answer is lost.

RecvFromAnyone(c) ==
  /\ Step(Server, "receive", "reply")
  /\ \E d \in Arrived(Server) :
       d.from = c /\ buf' = d.line /\ net' = net (-) SetToBag({d})
  /\ peer' = IF peer = NoLine THEN c ELSE peer
  /\ UNCHANGED <<address, sockets, clientVars, faults>>

RecvBehind(c) ==
  /\ Step(Server, "receive", "reply")
  /\ \E d \in Arrived(Server) :
       /\ d.from = c /\ net' = net (-) SetToBag({d})
       /\ buf' = IF peer = c THEN buf ELSE d.line
  /\ peer' = c
  /\ UNCHANGED <<address, sockets, clientVars, faults>>

Recvfrom(c) ==
  /\ Step(Server, "receive", "reply")
  /\ \E d \in Arrived(Server) :
       d.from = c /\ buf' = d.line /\ net' = net (-) SetToBag({d})
  /\ peer' = c
  /\ UNCHANGED <<address, sockets, clientVars, faults>>

SkipReply ==
  /\ Step(Server, "reply", "receive")
  /\ UNCHANGED <<address, sockets, clientVars, serverVars, net, faults>>

Sendto ==
  /\ Step(Server, "reply", "receive")
  /\ net' = net (+) SetToBag({Answer(peer, buf)})
  /\ UNCHANGED <<address, sockets, clientVars, serverVars, faults>>

server == Start(Server) \/ (\E c \in Clients : Recvfrom(c)) \/ Sendto

-----------------------------------------------------------------------------
\* The network.

Attached == pc[Server] \in {"receive", "reply"}

Lose(d) ==
  /\ lost < MaxFaults
  /\ lost' = lost + 1
  /\ net' = net (-) SetToBag({d})
  /\ UNCHANGED <<pc, address, sockets, clientVars, serverVars, copied>>

Duplicate(d) ==
  /\ copied < MaxFaults
  /\ copied' = copied + 1
  /\ net' = net (+) SetToBag({d})
  /\ UNCHANGED <<pc, address, sockets, clientVars, serverVars, lost>>

Refuse(d) ==
  /\ d.to = Server /\ ~Attached
  /\ net' = net (-) SetToBag({d})
  /\ refused' = [refused EXCEPT ![d.from] = TRUE]
  /\ UNCHANGED <<pc, address, sockets, output, writes, got, serverVars, faults>>

Network == \E d \in BagToSet(net) : Lose(d) \/ Duplicate(d)
Refusal == \E d \in BagToSet(net) : Refuse(d)

-----------------------------------------------------------------------------

Next == (\E c \in Clients : client(c)) \/ server \/ Network \/ Refusal

Spec == Init /\ [][Next]_vars

\* The programs run, and what the network does not lose it delivers.
FairSpec ==
  /\ Spec
  /\ \A c \in Clients : WF_vars(client(c)) /\ WF_vars(Recvfrom(c))
  /\ WF_vars(Start(Server)) /\ WF_vars(Sendto) /\ WF_vars(Refusal)

-----------------------------------------------------------------------------
(* Properties *)

TypeOK ==
  /\ pc \in [Programs -> {"resolve", "try", "attach", "failed", "fgets", "write", "read",
                          "receive", "reply"}]
  /\ address \in [Programs -> 1 .. Addresses + 1]
  /\ sockets \in [Programs -> {0, 1}]
  /\ output \in [Clients -> Lines \cup {NoLine}]
  /\ got \in [Clients -> Lines \cup {NoLine}]
  /\ writes \in [Clients -> 0 .. MaxWrites]
  /\ refused \in [Clients -> BOOLEAN]
  /\ buf \in Lines \cup {NoLine} /\ peer \in Clients \cup {NoLine}
  /\ lost \in 0 .. MaxFaults /\ copied \in 0 .. MaxFaults

\* The server serves its clients one by one from one buffer, and each gets
\* back only lines of its own.
EchoIsOwn == \A c \in Clients : got[c] # NoLine => got[c].by = c

\* The lock-step keeps at most one datagram of a client under way, besides the
\* copies the network made: that is what bounds how stale an answer can be.
OfClient(c) == {d \in BagToSet(net) : c \in {d.from, d.to}}
InNetwork(c) == UNION {{d} \X (1 .. net[d]) : d \in OfClient(c)}

UnderWay(c) ==
  Cardinality(InNetwork(c)) + (IF pc[Server] = "reply" /\ peer = c THEN 1 ELSE 0)

LockStep ==
  \A c \in Clients : UnderWay(c) <= copied + (IF pc[c] = "read" THEN 1 ELSE 0)

\* As long as the network made no copy, an answer is to the line just written.
AnswersLastLine ==
  [][\A c \in Clients :
       pc[c] = "read" /\ pc'[c] = "fgets" /\ copied = 0 => got'[c] = output[c]]_vars

\* Nothing ends a client's read but a datagram: it ends if the network lost
\* none, whether the server answers or was never there.
ReadEndsUnlessLost == \A c \in Clients : pc[c] = "read" ~> pc[c] # "read" \/ lost > 0

=============================================================================
