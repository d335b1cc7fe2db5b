------------------------- MODULE TrainManagerProofs -------------------------
(***************************************************************************)
(* The PLC proxy alone, and in the train manager, where a second proxy     *)
(* reads the same input: whose the pipes are, where the messages to each   *)
(* train are on their way, and in what order, for any number of trains and *)
(* pipes and any bounds.  And the end: a program that ends the train       *)
(* before the PLC proxy is safe.                                           *)
(***************************************************************************)
EXTENDS TrainManager, TLAPS

USE RoutingAssumption, PlcAssumption

LinesOK ==
  /\ input \in Seq(Lines)
  /\ line \in Lines \cup {NoLine}
  /\ pipe \in [Pipes -> Seq(Lines)]
  /\ got \in [Ids -> Lines \cup {NoLine}]

Registers(c) == pc[Reader] \in {"open", "store"} /\ slot[Reader] = c
Holds(c) == pc[Reader] \in {"check", "open", "store", "registered", "failed"} /\ slot[Reader] = c

PlacesOK ==
  /\ \A c \in Ids :
       /\ pc[c] \in {"idle", "check", "open", "store", "registered", "failed", "blocked"}
       /\ c \notin Clients => pc[c] \in {"idle", "check", "failed"}
       /\ slot[c] = c
       /\ count[c] + (IF pc[c] = "idle" THEN 0 ELSE 1) <= reads[c]
  /\ pc[Main] \in {"idle", "kill", "join", "ended"}
  /\ pc[Reader] \notin {"idle", "blocked"}
  /\ pc[Reader] \in {"check", "open", "store", "registered", "failed"} =>
       line \in Lines /\ line.target = slot[Reader]
  /\ pc[Reader] \in {"open", "store", "registered"} => slot[Reader] \in Clients

\* Whose the pipes are: whatever a client's ends are, they are its own.
Owned(owner) ==
  /\ owner \in [1 .. opened -> Threads]
  /\ \A c \in Clients : \A p \in {outputFd[c].read, outputFd[c].write, fd[c]} :
       p # NoPipe => p \in 1 .. opened /\ owner[p] = c
  /\ pc[Reader] = "store" => fd[Reader] \in 1 .. opened /\ owner[fd[Reader]] = slot[Reader]
  /\ \A p \in Pipes : p > opened => pipe[p] = <<>>
  /\ \A p \in 1 .. opened : owner[p] \in Clients =>
       \A i \in 1 .. Len(pipe[p]) : pipe[p][i].target = owner[p]

\* The reader registers a client only before it has routed anything to it; a
\* client left behind on a pipe that was replaced will never read anything.
Registered(owner, c) ==
  /\ \A p \in 1 .. opened : owner[p] = c /\ pipe[p] # <<>> =>
       ~Registers(c) /\ outputFd[c].read # NoPipe
  /\ \/ outputFd[c].write # NoPipe
     \/ pc[c] \in {"store", "registered", "blocked"}
     \/ pc[Reader] \in {"store", "registered"} /\ slot[Reader] = c
     => outputFd[c].read # NoPipe
  /\ pc[c] = "blocked" => fd[c] # NoPipe
  /\ pc[c] = "blocked" /\ fd[c] # outputFd[c].read =>
       /\ pipe[fd[c]] = <<>>
       /\ IF pc[Reader] = "store" /\ slot[Reader] = c THEN fd[Reader] # fd[c]
                                                      ELSE outputFd[c].write # fd[c]

Last(c) == IF got[c] = NoLine THEN 0 ELSE got[c].about

\* Message m comes after number a, unless it repeats the last line.
Newer(repeats, m, a) == m.about > a \/ (repeats /\ m = line)

ToCome(repeats, c, a) ==
  /\ a <= emitted[c]
  /\ Holds(c) => line.about > a \/ repeats
  /\ \A i \in 1 .. Len(input) : input[i].target = c => input[i].about > a

Ordered(repeats, owner, c) ==
  /\ ToCome(repeats, c, Last(c))
  /\ \A p \in 1 .. opened : owner[p] = c => \A i \in 1 .. Len(pipe[p]) :
       /\ Newer(repeats, pipe[p][i], 0)
       /\ ToCome(repeats, c, pipe[p][i].about)
       /\ \A j \in 1 .. i - 1 : Newer(repeats, pipe[p][i], pipe[p][j].about)
       /\ p = outputFd[c].read => Newer(repeats, pipe[p][i], Last(c))
  /\ line # NoLine /\ line.target = c => line.about <= emitted[c]
  /\ Holds(c) => \A i \in 1 .. Len(input) : input[i].target = c => input[i].about > line.about
  /\ \A i \in 1 .. Len(input) : input[i].target = c =>
       /\ input[i].about <= emitted[c]
       /\ \A j \in 1 .. i - 1 : input[j].target = c => input[i].about > input[j].about

Routes(repeats, owner) ==
  /\ Owned(owner)
  /\ \A c \in Clients : Registered(owner, c) /\ Ordered(repeats, owner, c)

IInv == TypeOK /\ LinesOK /\ PlacesOK /\ \E owner : Routes(FALSE, owner)

-----------------------------------------------------------------------------

\* The trains' threads, the reader and main are different threads.
LEMMA ThreadFacts ==
  /\ Clients \subseteq Ids /\ Ids \subseteq Threads
  /\ Reader \in Threads /\ Main \in Threads /\ Reader # Main
  /\ Reader \notin Ids /\ Main \notin Ids
  BY DEF Ids, Threads

\* The step of a thread moves it, and no other.
LEMMA StepMoves ==
  ASSUME TypeOK, NEW th \in Threads, NEW from, NEW to, Step(th, from, to)
  PROVE  /\ pc[th] = from /\ pc'[th] = to
         /\ \A u \in Threads : u # th => pc'[u] = pc[u]
         /\ pc' = [pc EXCEPT ![th] = to]
  BY DEF Step, TypeOK, RoutingTypeOK

\* Only clients are registered.
LEMMA ClientRegistered ==
  ASSUME PlacesOK, NEW th \in Ids \cup {Reader}, pc[th] \in {"open", "store", "registered"}
  PROVE  slot[th] \in Clients
  <1>1. CASE th = Reader
    BY <1>1 DEF PlacesOK
  <1>2. CASE th \in Ids
    BY <1>2 DEF PlacesOK
  <1> QED
    BY <1>1, <1>2

\* Who registers a client has its id in its slot, and so is in one place of two.
LEMMA RegisterTypes ==
  ASSUME TypeOK, LinesOK, PlacesOK, NEW th \in Ids \cup {Reader},
         TryRegisterClient(th), UNCHANGED trainVars
  PROVE  TypeOK' /\ LinesOK' /\ PlacesOK'
  <1> USE ThreadFacts DEF TypeOK, RoutingTypeOK, LinesOK, Step, table, ending, trainVars
  <1>0. th \in Threads
    OBVIOUS
  <1>1. CASE CheckSlot(th)
    <2>1. TypeOK' /\ LinesOK'
      BY <1>1 DEF CheckSlot
    <2>2. PlacesOK'
      BY <1>1 DEF CheckSlot, PlacesOK
    <2> QED
      BY <2>1, <2>2
  <1>2. CASE OpenPipe(th)
    <2>1. slot[th] \in Clients
      BY <1>2, ClientRegistered DEF OpenPipe
    <2>2. opened + 1 \in Ends /\ opened' \in 0 .. MaxPipes
      BY <1>2 DEF OpenPipe, Ends, Pipes
    <2>3. outputFd' \in [Clients -> [read : Ends, write : Ends]]
      BY <1>2, <2>1, <2>2, ZenonT(40) DEF OpenPipe
    <2>4. TypeOK' /\ LinesOK'
      BY <1>2, <2>2, <2>3 DEF OpenPipe
    <2>5. UNCHANGED <<slot, line, reads, count>>
      BY <1>2 DEF OpenPipe
    <2>6. PlacesOK'
      BY <1>2, <2>5 DEF OpenPipe, PlacesOK
    <2> QED
      BY <2>4, <2>6
  <1>3. CASE StoreWriteEnd(th)
    <2>1. slot[th] \in Clients
      BY <1>3, ClientRegistered DEF StoreWriteEnd
    <2>3. outputFd' \in [Clients -> [read : Ends, write : Ends]]
      BY <1>3, <2>1, ZenonT(40) DEF StoreWriteEnd
    <2>4. TypeOK' /\ LinesOK'
      BY <1>3, <2>3 DEF StoreWriteEnd
    <2>5. UNCHANGED <<slot, line, reads, count>>
      BY <1>3 DEF StoreWriteEnd
    <2>6. PlacesOK'
      BY <1>3, <2>5 DEF StoreWriteEnd, PlacesOK
    <2> QED
      BY <2>4, <2>6
  <1>4. CASE PipeFails(th)
    <2>1. TypeOK' /\ LinesOK'
      BY <1>4 DEF PipeFails
    <2>2. PlacesOK'
      BY <1>4 DEF PipeFails, PlacesOK
    <2> QED
      BY <2>1, <2>2
  <1> QED
    BY <1>1, <1>2, <1>3, <1>4 DEF TryRegisterClient

\* What a train does apart from registering keeps the types.
LEMMA TrainTypes ==
  ASSUME TypeOK, LinesOK, PlacesOK, NEW c \in Ids, Train(c), ~plcProxyTryRegisterClient(c),
         pc[c] = "blocked" => fd[c] \in Pipes
  PROVE  TypeOK' /\ LinesOK' /\ PlacesOK'
  <1> USE ThreadFacts DEF TypeOK, RoutingTypeOK, LinesOK, Step, table, ending, trainVars
  <1>1. CASE readMessagePlcProxy(c)
    <2>1. TypeOK' /\ LinesOK'
      BY <1>1 DEF readMessagePlcProxy
    <2>2. PlacesOK'
      BY <1>1 DEF readMessagePlcProxy, PlacesOK
    <2> QED
      BY <2>1, <2>2
  <1>2. CASE ReturnNull(c)
    <2>1. TypeOK' /\ LinesOK'
      BY <1>2 DEF ReturnNull
    <2>2. PlacesOK'
      BY <1>2 DEF ReturnNull, PlacesOK
    <2> QED
      BY <2>1, <2>2
  <1>3. CASE ReadMessage(c)
    <2>1. c \in Clients /\ outputFd[c].read \in Ends
      BY <1>3 DEF ReadMessage, PlacesOK
    <2>2. TypeOK' /\ LinesOK'
      BY <1>3, <2>1 DEF ReadMessage, StartRead
    <2>3. PlacesOK'
      BY <1>3, <2>1 DEF ReadMessage, StartRead, PlacesOK
    <2> QED
      BY <2>2, <2>3
  <1>4. CASE ReturnMessage(c)
    <2>1. /\ pc[c] = "blocked" /\ fd[c] \in Pipes
          /\ pipe[fd[c]] \in Seq(Lines) /\ pipe[fd[c]] # <<>>
      BY <1>4 DEF ReturnMessage, FinishRead
    <2>2. Head(pipe[fd[c]]) \in Lines /\ Tail(pipe[fd[c]]) \in Seq(Lines)
      BY <2>1
    <2>3. /\ pipe' \in [Pipes -> Seq(Lines)] /\ got' \in [Ids -> Lines \cup {NoLine}]
      BY <1>4, <2>1, <2>2 DEF ReturnMessage, FinishRead
    <2>4. count[c] + 1 <= reads[c] /\ count[c] \in Nat /\ reads[c] \in 0 .. MaxReads
      BY <2>1 DEF PlacesOK
    <2>a. count' \in [Ids -> 0 .. MaxReads]
      <3>1. count[c] + 1 \in 0 .. MaxReads
        BY <2>4
      <3> QED
        BY <1>4, <3>1 DEF ReturnMessage
    <2>5. TypeOK' /\ LinesOK'
      BY <1>4, <2>3, <2>a DEF ReturnMessage, FinishRead
    <2>6. PlacesOK'
      BY <1>4, <2>4 DEF ReturnMessage, FinishRead, PlacesOK
    <2> QED
      BY <2>5, <2>6
  <1> QED
    BY <1>1, <1>2, <1>3, <1>4 DEF Train

\* So does the reader thread.
LEMMA ReaderTypes ==
  ASSUME TypeOK, LinesOK, PlacesOK, plcProxyMsgReceiverThread
  PROVE  TypeOK' /\ LinesOK' /\ PlacesOK'
  <1> USE ThreadFacts DEF TypeOK, RoutingTypeOK, LinesOK, Step, table, ending, trainVars,
                          plcProxyMsgReceiverThread
  <1>1. CASE TestFinished
    <2>1. TypeOK' /\ LinesOK'
      BY <1>1 DEF TestFinished
    <2>2. PlacesOK'
      BY <1>1 DEF TestFinished, PlacesOK
    <2> QED
      BY <2>1, <2>2
  <1>2. CASE ScanLine
    <2>0. Head(input) \in Lines /\ Tail(input) \in Seq(Lines)
      BY <1>2 DEF ScanLine
    <2>1. Head(input).target \in Ids
      BY <2>0 DEF Lines
    <2>2. TypeOK' /\ LinesOK'
      BY <1>2, <2>0, <2>1 DEF ScanLine
    <2>3. PlacesOK'
      BY <1>2, <2>0, <2>1 DEF ScanLine, PlacesOK
    <2> QED
      BY <2>2, <2>3
  <1>3. CASE TryRegisterClient(Reader)
    BY <1>3, RegisterTypes
  <1>4. CASE DropLine
    <2>1. TypeOK' /\ LinesOK'
      BY <1>4 DEF DropLine
    <2>2. PlacesOK'
      BY <1>4 DEF DropLine, PlacesOK
    <2> QED
      BY <2>1, <2>2
  <1>5. CASE RouteLine
    <2>1. line \in Lines /\ slot[Reader] \in Clients
      BY <1>5 DEF RouteLine, PlacesOK
    <2>2. \A p \in Pipes : Append(pipe[p], line) \in Seq(Lines)
      BY <2>1
    <2>3. pipe' \in [Pipes -> Seq(Lines)]
      BY <1>5, <2>1, <2>2 DEF RouteLine, Delivered
    <2>4. TypeOK' /\ LinesOK'
      BY <1>5, <2>3 DEF RouteLine
    <2>5. PlacesOK'
      BY <1>5 DEF RouteLine, PlacesOK
    <2> QED
      BY <2>4, <2>5
  <1> QED
    BY <1>1, <1>2, <1>3, <1>4, <1>5 DEF ReaderThread

\* So do main and the PLC.
LEMMA OtherTypes ==
  ASSUME TypeOK, LinesOK, PlacesOK, endPlcProxy \/ \E c \in Ids : Emit(c)
  PROVE  TypeOK' /\ LinesOK' /\ PlacesOK'
  <1> USE ThreadFacts DEF TypeOK, RoutingTypeOK, LinesOK, Step, table, ending, trainVars
  <1>1. CASE endPlcProxy
    <2>1. TypeOK' /\ LinesOK'
      BY <1>1 DEF endPlcProxy, EndProxy, SetFinished, KillReader, JoinAndFree
    <2>2. PlacesOK'
      BY <1>1 DEF endPlcProxy, EndProxy, SetFinished, KillReader, JoinAndFree, PlacesOK
    <2> QED
      BY <2>1, <2>2
  <1>2. ASSUME NEW c \in Ids, Emit(c) PROVE TypeOK' /\ LinesOK' /\ PlacesOK'
    <2>1. [target |-> c, about |-> emitted[c] + 1] \in Lines
      BY DEF Lines
    <2>2. TypeOK' /\ LinesOK'
      BY <1>2, <2>1 DEF Emit
    <2>3. PlacesOK'
      BY <1>2 DEF Emit, PlacesOK
    <2> QED
      BY <2>2, <2>3
  <1> QED
    BY <1>1, <1>2

-----------------------------------------------------------------------------
\* What is in the input, the pipes and the buffers are lines with their numbers.
LEMMA Numbers ==
  ASSUME TypeOK, LinesOK
  PROVE  /\ Len(input) \in Nat
         /\ \A i \in 1 .. Len(input) : input[i] \in Lines /\ input[i].about \in Nat
         /\ \A p \in 1 .. opened : p \in Pipes /\ pipe[p] \in Seq(Lines) /\ Len(pipe[p]) \in Nat
         /\ \A p \in 1 .. opened : \A i \in 1 .. Len(pipe[p]) :
              pipe[p][i] \in Lines /\ pipe[p][i].about \in Nat
         /\ \A c \in Ids : Last(c) \in Nat /\ emitted[c] \in Nat
         /\ line # NoLine => line \in Lines /\ line.about \in Nat
  <1>1. \A l \in Lines : l.about \in Nat
    BY DEF Lines
  <1>2. \A p \in 1 .. opened : p \in Pipes
    BY DEF TypeOK, RoutingTypeOK, Pipes
  <1>3. \A p \in 1 .. opened : pipe[p] \in Seq(Lines)
    BY <1>2 DEF LinesOK
  <1>4. \A p \in 1 .. opened : \A i \in 1 .. Len(pipe[p]) : pipe[p][i] \in Lines
    BY <1>3
  <1>5. \A i \in 1 .. Len(input) : input[i] \in Lines
    BY DEF LinesOK
  <1>6. \A c \in Ids : Last(c) \in Nat /\ emitted[c] \in Nat
    BY <1>1 DEF Last, LinesOK, TypeOK
  <1> QED
    BY <1>1, <1>2, <1>3, <1>4, <1>5, <1>6 DEF LinesOK

\* A step that only moves a thread.
LEMMA QuietStep ==
  ASSUME NEW repeats, NEW owner, Routes(repeats, owner),
         UNCHANGED <<slot, fd, outputFd, opened, pipe, line, input, got, emitted>>,
         pc'[Reader] = "store" <=> pc[Reader] = "store",
         \A c \in Clients : Holds(c)' => Holds(c),
         \A c \in Clients : Registers(c)' => Registers(c) \/ outputFd[c].read = NoPipe,
         \A c \in Clients :
           pc'[Reader] = "registered" /\ slot[Reader] = c => outputFd[c].read # NoPipe,
         \A c \in Clients : pc'[c] \in {"store", "registered"} => outputFd[c].read # NoPipe,
         \A c \in Clients : pc'[c] = "blocked" => pc[c] = "blocked"
  PROVE  Routes(repeats, owner)'
  <1>1. Owned(owner)'
    BY DEF Routes, Owned
  <1>2. ASSUME NEW c \in Clients PROVE Registered(owner, c)'
    <2>1. Registered(owner, c)
      BY DEF Routes
    <2> QED
      BY <2>1 DEF Registered, Registers
  <1>3. ASSUME NEW c \in Clients PROVE Ordered(repeats, owner, c)'
    <2>1. Ordered(repeats, owner, c)
      BY DEF Routes
    <2>2. /\ Last(c)' = Last(c)
          /\ \A a : ToCome(repeats, c, a) => ToCome(repeats, c, a)'
      BY DEF Last, ToCome
    <2>3. \A m, a : Newer(repeats, m, a) <=> Newer(repeats, m, a)'
      BY DEF Newer
    <2> QED
      BY <2>1, <2>2, <2>3 DEF Ordered
  <1> QED
    BY <1>1, <1>2, <1>3 DEF Routes

\* The message sent is newer than all that were sent before.
LEMMA EmitStep ==
  ASSUME TypeOK, LinesOK, PlacesOK, NEW repeats, NEW owner, Routes(repeats, owner),
         NEW b \in Ids, Emit(b)
  PROVE  Routes(repeats, owner)'
  <1> USE DEF Emit, table, ending
  <1>0. /\ emitted' = [emitted EXCEPT ![b] = @ + 1]
        /\ Len(input') = Len(input) + 1 /\ Len(input) \in Nat
        /\ \A i \in 1 .. Len(input) : input'[i] = input[i]
        /\ input'[Len(input) + 1] = [target |-> b, about |-> emitted[b] + 1]
    BY DEF LinesOK
  <1>1. Owned(owner)'
    BY DEF Routes, Owned
  <1>2. ASSUME NEW c \in Clients PROVE Registered(owner, c)'
    BY DEF Routes, Registered, Registers
  <1>3. ASSUME NEW c \in Clients PROVE Ordered(repeats, owner, c)'
    <2>0. Ordered(repeats, owner, c) /\ emitted[c] \in Nat /\ emitted'[c] \in Nat
          /\ emitted'[c] >= emitted[c] /\ (c = b => emitted'[c] = emitted[c] + 1)
      BY ThreadFacts DEF Routes, TypeOK
    <2>1. ASSUME NEW i \in 1 .. Len(input'), input'[i].target = c
          PROVE  \/ i \in 1 .. Len(input) /\ input'[i] = input[i]
                 \/ i = Len(input) + 1 /\ input'[i].about = emitted[c] + 1 /\ c = b
      BY <1>0, <2>1
    <2>2. Last(c)' = Last(c) /\ Holds(c)' = Holds(c)
      BY DEF Last, Holds
    <2>3. ASSUME NEW a \in Nat, ToCome(repeats, c, a) PROVE ToCome(repeats, c, a)'
      BY <2>0, <2>1, <2>2, <2>3 DEF ToCome
    <2>4. ToCome(repeats, c, Last(c))'
      BY <2>0, <2>2, <2>3, Numbers, ThreadFacts DEF Ordered
    <2>5. ASSUME NEW p \in 1 .. opened, owner[p] = c, NEW i \in 1 .. Len(pipe[p])
          PROVE  /\ Newer(repeats, pipe[p][i], 0)'
                 /\ ToCome(repeats, c, pipe[p][i].about)'
                 /\ \A j \in 1 .. i - 1 : Newer(repeats, pipe[p][i], pipe[p][j].about)'
                 /\ p = outputFd[c].read => Newer(repeats, pipe[p][i], Last(c))'
      BY <2>0, <2>2, <2>3, <2>5, Numbers DEF Ordered, Newer
    <2>6. /\ line # NoLine /\ line.target = c => line.about <= emitted'[c]
          /\ Holds(c)' => \A i \in 1 .. Len(input') :
                           input'[i].target = c => input'[i].about > line.about
      <3>1. Holds(c) => line # NoLine /\ line.target = c
        BY PlcAssumption DEF Holds, PlacesOK
      <3> QED
        BY <2>0, <2>1, <2>2, <3>1, Numbers DEF Ordered
    <2>7. ASSUME NEW i \in 1 .. Len(input'), input'[i].target = c
          PROVE  /\ input'[i].about <= emitted'[c]
                 /\ \A j \in 1 .. i - 1 : input'[j].target = c => input'[i].about > input'[j].about
      <3>1. \A j \in 1 .. i - 1 : j \in 1 .. Len(input) /\ input'[j] = input[j]
        BY <1>0
      <3>2. CASE i \in 1 .. Len(input) /\ input'[i] = input[i]
        BY <3>1, <3>2, <2>0, <2>7, Numbers DEF Ordered
      <3>3. CASE i = Len(input) + 1 /\ input'[i].about = emitted[c] + 1 /\ c = b
        <4>1. \A j \in 1 .. i - 1 : input[j].target = c => input[j].about <= emitted[c]
          BY <3>1, <2>0 DEF Ordered
        <4> QED
          BY <4>1, <3>1, <3>3, <2>0, Numbers
      <3> QED
        BY <2>1, <2>7, <3>2, <3>3
    <2> QED
      BY <2>4, <2>5, <2>6, <2>7 DEF Ordered
  <1> QED
    BY <1>1, <1>2, <1>3 DEF Routes

\* The new pipe is the client's, and it is empty.
LEMMA OpenStep ==
  ASSUME TypeOK, LinesOK, PlacesOK, NEW repeats, NEW owner, Routes(repeats, owner),
         NEW th \in Ids \cup {Reader}, OpenPipe(th), UNCHANGED trainVars
  PROVE  \E next : /\ Routes(repeats, next)'
                   /\ \A p \in 1 .. opened : next[p] = owner[p]
  <1> USE DEF OpenPipe, trainVars
  <1> DEFINE n == opened + 1
             b == slot[th]
  <1>1. /\ opened' = n /\ n \in Pipes /\ opened \in Nat
        /\ 1 .. n = (1 .. opened) \cup {n} /\ n \notin 1 .. opened
        /\ n # NoPipe
    <2>1. opened' = n /\ opened \in Nat /\ n \in 1 .. MaxPipes
      BY DEF TypeOK, RoutingTypeOK
    <2> QED
      BY <2>1 DEF Pipes
  <1>2. /\ b \in Clients /\ b \in Threads /\ th \in Threads
        /\ pc[th] = "open" /\ pc'[th] = "store"
        /\ \A u \in Threads : u # th => pc'[u] = pc[u]
        /\ th # Reader => b = th
    BY ClientRegistered, StepMoves, ThreadFacts DEF PlacesOK
  <1>3. /\ fd'[th] = n /\ \A u \in Threads : u # th => fd'[u] = fd[u]
        /\ outputFd'[b].read = n /\ outputFd'[b].write = outputFd[b].write
        /\ \A c \in Clients : c # b => outputFd'[c] = outputFd[c]
    BY <1>2 DEF TypeOK, RoutingTypeOK
  <1>4. /\ UNCHANGED <<slot, pipe, input, line, got, emitted>>
        /\ pipe[n] = <<>> /\ Len(pipe[n]) = 0
    BY <1>1 DEF Routes, Owned
  <1>5. PICK next \in [1 .. n -> Threads] :
          next[n] = b /\ \A p \in 1 .. opened : next[p] = owner[p]
    <2> DEFINE longer == [p \in 1 .. n |-> IF p = n THEN b ELSE owner[p]]
    <2>1. longer \in [1 .. n -> Threads]
      BY <1>1, <1>2 DEF Routes, Owned
    <2>2. longer[n] = b /\ \A p \in 1 .. opened : longer[p] = owner[p]
      BY <1>1
    <2> QED
      BY <2>1, <2>2
  <1> HIDE DEF n, b
  <1>6. Owned(next)'
    <2>0. Owned(owner)
      BY DEF Routes
    <2>1. \A c \in Clients : \A p \in {outputFd'[c].read, outputFd'[c].write, fd'[c]} :
            p # NoPipe => p \in 1 .. n /\ next[p] = c
      <3> SUFFICES ASSUME NEW c \in Clients, NEW p \in {outputFd'[c].read, outputFd'[c].write, fd'[c]},
                          p # NoPipe
                   PROVE  p \in 1 .. n /\ next[p] = c
        OBVIOUS
      <3>1. CASE p \in {outputFd[c].read, outputFd[c].write, fd[c]}
        BY <3>1, <2>0, <1>1, <1>5 DEF Owned
      <3>2. CASE p = n /\ c = b
        BY <3>2, <1>1, <1>5
      <3> QED
        BY <3>1, <3>2, <1>2, <1>3, ThreadFacts
    <2>2. pc'[Reader] = "store" =>
            fd'[Reader] \in 1 .. n /\ next[fd'[Reader]] = slot'[Reader]
      BY <2>0, <1>1, <1>2, <1>3, <1>4, <1>5, ThreadFacts DEF Owned, b
    <2>3. \A p \in Pipes : p > n => pipe'[p] = <<>>
      BY <2>0, <1>1, <1>4 DEF Owned, Pipes
    <2>4. \A p \in 1 .. n : next[p] \in Clients =>
            \A i \in 1 .. Len(pipe'[p]) : pipe'[p][i].target = next[p]
      BY <2>0, <1>1, <1>4, <1>5 DEF Owned
    <2> QED
      BY <2>1, <2>2, <2>3, <2>4, <1>1, <1>5 DEF Owned
  <1>7. ASSUME NEW c \in Clients PROVE Registered(next, c)'
    <2>0. Registered(owner, c) /\ Owned(owner)
      BY DEF Routes
    <2>1. CASE c = b
      <3>1. \A p \in 1 .. n : next[p] = c /\ pipe[p] # <<>> =>
               ~Registers(c)' /\ outputFd'[c].read # NoPipe
        <4> SUFFICES ASSUME NEW p \in 1 .. n, next[p] = c, pipe[p] # <<>>
                     PROVE  ~Registers(c)' /\ outputFd'[c].read # NoPipe
          OBVIOUS
        <4>1. p \in 1 .. opened /\ owner[p] = c
          BY <1>1, <1>4, <1>5
        <4>2. ~Registers(c)
          BY <4>1, <2>0 DEF Registered
        <4>3. ~Registers(c)'
          BY <4>2, <2>1, <1>2, <1>4, ThreadFacts DEF Registers, b
        <4> QED
          BY <4>3, <2>1, <1>1, <1>3
      <3>2. pc'[c] = "blocked" => fd'[c] # NoPipe
        BY <2>0, <2>1, <1>2, <1>3, ThreadFacts DEF Registered
      <3>3. ASSUME pc'[c] = "blocked", fd'[c] # outputFd'[c].read
            PROVE  /\ pipe[fd'[c]] = <<>>
                   /\ pc'[Reader] = "store" /\ slot'[Reader] = c /\ fd'[Reader] # fd'[c]
        <4>1. th = Reader /\ slot[Reader] = c /\ pc[c] = "blocked" /\ fd'[c] = fd[c]
          BY <3>3, <2>1, <1>2, <1>3, ThreadFacts DEF b
        <4>2. Registers(c)
          BY <4>1, <1>2 DEF Registers
        <4>3. fd[c] \in 1 .. opened /\ owner[fd[c]] = c
          BY <4>1, <2>0 DEF Owned, Registered
        <4> QED
          BY <4>1, <4>2, <4>3, <2>0, <1>1, <1>2, <1>3, <1>4 DEF Registered
      <3> QED
        BY <3>1, <3>2, <3>3, <2>1, <1>1, <1>3, <1>4 DEF Registered
    <2>2. CASE c # b
      <3>1. /\ outputFd'[c] = outputFd[c] /\ pc'[c] = pc[c] /\ fd'[c] = fd[c]
            /\ Registers(c)' = Registers(c)
        BY <2>2, <1>2, <1>3, <1>4, ThreadFacts DEF Registers, b
      <3>2. /\ (pc'[Reader] = "store" /\ slot'[Reader] = c) = (pc[Reader] = "store" /\ slot[Reader] = c)
            /\ pc'[Reader] = "store" /\ slot'[Reader] = c => fd'[Reader] = fd[Reader]
            /\ (pc'[Reader] = "registered" /\ slot'[Reader] = c) =
                 (pc[Reader] = "registered" /\ slot[Reader] = c)
        BY <2>2, <1>2, <1>3, <1>4, ThreadFacts DEF b
      <3>3. \A p \in 1 .. n : next[p] = c => p \in 1 .. opened /\ owner[p] = c
        BY <2>2, <1>1, <1>5
      <3> QED
        BY <2>0, <3>1, <3>2, <3>3, <1>1, <1>4 DEF Registered
    <2> QED
      BY <2>1, <2>2
  <1>8. ASSUME NEW c \in Clients PROVE Ordered(repeats, next, c)'
    <2>0. Ordered(repeats, owner, c)
      BY DEF Routes
    <2>1. Last(c)' = Last(c) /\ Holds(c)' = Holds(c)
      BY <1>2, <1>4, ThreadFacts DEF Last, Holds, b
    <2>2. /\ \A a : ToCome(repeats, c, a) => ToCome(repeats, c, a)'
          /\ \A m, a : Newer(repeats, m, a) <=> Newer(repeats, m, a)'
      BY <2>1, <1>4 DEF ToCome, Newer
    <2>3. ASSUME NEW p \in 1 .. n, next[p] = c, NEW i \in 1 .. Len(pipe[p])
          PROVE  /\ p \in 1 .. opened /\ owner[p] = c
                 /\ p = outputFd'[c].read => p = outputFd[c].read
      BY <2>3, <1>1, <1>3, <1>4, <1>5
    <2> QED
      BY <2>0, <2>1, <2>2, <2>3, <1>1, <1>4 DEF Ordered
  <1> QED
    BY <1>5, <1>6, <1>7, <1>8 DEF Routes

\* The write end stored is one of the client's own pipes.
LEMMA StoreStep ==
  ASSUME TypeOK, LinesOK, PlacesOK, NEW repeats, NEW owner, Routes(repeats, owner),
         NEW th \in Ids \cup {Reader}, StoreWriteEnd(th), UNCHANGED trainVars
  PROVE  Routes(repeats, owner)'
  <1> USE DEF StoreWriteEnd, trainVars
  <1> DEFINE b == slot[th]
  <1>1. /\ b \in Clients /\ th \in Threads
        /\ pc[th] = "store" /\ pc'[th] = "registered"
        /\ \A u \in Threads : u # th => pc'[u] = pc[u]
        /\ th # Reader => b = th
    BY ClientRegistered, StepMoves, ThreadFacts DEF PlacesOK
  <1>2. /\ outputFd'[b].write = fd[th] /\ outputFd'[b].read = outputFd[b].read
        /\ \A c \in Clients : c # b => outputFd'[c] = outputFd[c]
    BY <1>1 DEF TypeOK, RoutingTypeOK
  <1>3. UNCHANGED <<slot, fd, opened, pipe, input, line, got, emitted>>
    OBVIOUS
  <1> HIDE DEF b
  <1>4. Owned(owner)'
    <2>0. Owned(owner)
      BY DEF Routes
    <2>1. fd[th] # NoPipe => fd[th] \in 1 .. opened /\ owner[fd[th]] = b
      BY <2>0, <1>1 DEF Owned, b
    <2>2. \A c \in Clients : \A p \in {outputFd'[c].read, outputFd'[c].write, fd[c]} :
            p # NoPipe => p \in 1 .. opened /\ owner[p] = c
      <3> SUFFICES ASSUME NEW c \in Clients, NEW p \in {outputFd'[c].read, outputFd'[c].write, fd[c]},
                          p # NoPipe
                   PROVE  p \in 1 .. opened /\ owner[p] = c
        OBVIOUS
      <3>1. p \in {outputFd[c].read, outputFd[c].write, fd[c]} \/ (c = b /\ p = fd[th])
        BY <1>2
      <3> QED
        BY <3>1, <2>0, <2>1 DEF Owned
    <2>3. pc'[Reader] = "store" => pc[Reader] = "store"
      BY <1>1, ThreadFacts
    <2> QED
      BY <2>0, <2>2, <2>3, <1>3 DEF Owned
  <1>5. ASSUME NEW c \in Clients PROVE Registered(owner, c)'
    <2>0. Registered(owner, c) /\ Owned(owner)
      BY DEF Routes
    <2>1. CASE c = b
      <3>1. outputFd[c].read # NoPipe /\ outputFd'[c].read = outputFd[c].read
        BY <2>0, <2>1, <1>1, <1>2 DEF Registered, b
      <3>2. Registers(c)' => Registers(c)
        BY <1>1, <1>3, ThreadFacts DEF Registers
      <3>3. pc'[c] = "blocked" => fd[c] # NoPipe
        BY <2>0, <2>1, <1>1, ThreadFacts DEF Registered
      <3>4. ASSUME pc'[c] = "blocked", fd[c] # outputFd[c].read
            PROVE  pipe[fd[c]] = <<>> /\ pc'[Reader] # "store" /\ outputFd'[c].write # fd[c]
        <4>1. th = Reader /\ slot[Reader] = c /\ pc[c] = "blocked"
          BY <3>4, <2>1, <1>1, ThreadFacts DEF b
        <4> QED
          BY <4>1, <3>4, <2>0, <2>1, <1>1, <1>2 DEF Registered
      <3> QED
        BY <3>1, <3>2, <3>3, <3>4, <2>0, <1>3 DEF Registered
    <2>2. CASE c # b
      <3>1. /\ outputFd'[c] = outputFd[c] /\ pc'[c] = pc[c]
            /\ Registers(c)' = Registers(c)
        BY <2>2, <1>1, <1>2, <1>3, ThreadFacts DEF Registers, b
      <3>2. /\ (pc'[Reader] = "store" /\ slot'[Reader] = c) = (pc[Reader] = "store" /\ slot[Reader] = c)
            /\ (pc'[Reader] = "registered" /\ slot'[Reader] = c) =
                 (pc[Reader] = "registered" /\ slot[Reader] = c)
        BY <2>2, <1>1, <1>3, ThreadFacts DEF b
      <3> QED
        BY <2>0, <3>1, <3>2, <1>3 DEF Registered
    <2> QED
      BY <2>1, <2>2
  <1>6. ASSUME NEW c \in Clients PROVE Ordered(repeats, owner, c)'
    <2>0. Ordered(repeats, owner, c)
      BY DEF Routes
    <2>1. /\ Last(c)' = Last(c) /\ Holds(c)' = Holds(c)
          /\ outputFd'[c].read = outputFd[c].read
      BY <1>1, <1>2, <1>3, ThreadFacts DEF Last, Holds, b
    <2>2. /\ \A a : ToCome(repeats, c, a) => ToCome(repeats, c, a)'
          /\ \A m, a : Newer(repeats, m, a) <=> Newer(repeats, m, a)'
      BY <2>1, <1>3 DEF ToCome, Newer
    <2> QED
      BY <2>0, <2>1, <2>2, <1>3 DEF Ordered
  <1> QED
    BY <1>4, <1>5, <1>6 DEF Routes

\* The train reads the pipe the table holds for it.
LEMMA StartReadStep ==
  ASSUME TypeOK, LinesOK, PlacesOK, NEW repeats, NEW owner, Routes(repeats, owner),
         NEW b \in Ids, ReadMessage(b)
  PROVE  Routes(repeats, owner)'
  <1> USE DEF ReadMessage, StartRead, trainVars, table
  <1>1. /\ b \in Clients /\ pc[b] = "registered" /\ pc'[b] = "blocked"
        /\ \A u \in Threads : u # b => pc'[u] = pc[u]
        /\ fd'[b] = outputFd[b].read /\ \A u \in Threads : u # b => fd'[u] = fd[u]
    BY StepMoves, ThreadFacts DEF PlacesOK, TypeOK, RoutingTypeOK
  <1>2. UNCHANGED <<slot, outputFd, opened, pipe, input, line, got, emitted>>
        /\ pc'[Reader] = pc[Reader] /\ fd'[Reader] = fd[Reader]
    BY <1>1, ThreadFacts
  <1>3. Owned(owner)'
    BY <1>1, <1>2, ThreadFacts DEF Routes, Owned
  <1>4. ASSUME NEW c \in Clients PROVE Registered(owner, c)'
    <2>0. Registered(owner, c)
      BY DEF Routes
    <2>1. CASE c = b
      BY <2>0, <2>1, <1>1, <1>2 DEF Registered, Registers
    <2>2. CASE c # b
      BY <2>0, <2>2, <1>1, <1>2, ThreadFacts DEF Registered, Registers
    <2> QED
      BY <2>1, <2>2
  <1>5. ASSUME NEW c \in Clients PROVE Ordered(repeats, owner, c)'
    <2>0. Ordered(repeats, owner, c)
      BY DEF Routes
    <2>1. Last(c)' = Last(c) /\ Holds(c)' = Holds(c)
      BY <1>2 DEF Last, Holds
    <2>2. /\ \A a : ToCome(repeats, c, a) => ToCome(repeats, c, a)'
          /\ \A m, a : Newer(repeats, m, a) <=> Newer(repeats, m, a)'
      BY <2>1, <1>2 DEF ToCome, Newer
    <2> QED
      BY <2>0, <2>1, <2>2, <1>2 DEF Ordered
  <1> QED
    BY <1>3, <1>4, <1>5 DEF Routes

\* What is left of a sequence when its first element is taken.
LEMMA TailFacts ==
  ASSUME NEW S, NEW s \in Seq(S), s # <<>>
  PROVE  /\ Len(s) \in Nat \ {0} /\ 1 \in 1 .. Len(s)
         /\ Head(s) = s[1] /\ s[1] \in S
         /\ Len(Tail(s)) = Len(s) - 1
         /\ \A i \in 1 .. Len(Tail(s)) : i + 1 \in 1 .. Len(s) /\ Tail(s)[i] = s[i + 1]
  OBVIOUS

\* The line scanned is the oldest one in the input.
LEMMA ScanStep ==
  ASSUME TypeOK, LinesOK, PlacesOK, NEW owner, Routes(FALSE, owner),
         ScanLine, UNCHANGED trainVars
  PROVE  Routes(FALSE, owner)'
  <1> USE DEF ScanLine, trainVars, table
  <1>1. /\ pc[Reader] = "scan" /\ pc'[Reader] = "check"
        /\ \A u \in Threads : u # Reader => pc'[u] = pc[u]
        /\ slot'[Reader] = input[1].target /\ line' = input[1]
    BY StepMoves, ThreadFacts DEF TypeOK, RoutingTypeOK
  <1>2. UNCHANGED <<fd, outputFd, opened, pipe, got, emitted>>
    OBVIOUS
  <1>3. /\ Len(input) \in Nat \ {0} /\ Len(input') = Len(input) - 1
        /\ \A i \in 1 .. Len(input') : i + 1 \in 1 .. Len(input) /\ input'[i] = input[i + 1]
        /\ 1 \in 1 .. Len(input)
    BY DEF LinesOK
  <1>4. Owned(owner)'
    BY <1>1, <1>2, ThreadFacts DEF Routes, Owned
  <1>5. ASSUME NEW c \in Clients PROVE Registered(owner, c)'
    <2>0. Registered(owner, c) /\ ~Registers(c)' /\ pc'[c] = pc[c]
      BY <1>1, ThreadFacts DEF Routes, Registers
    <2> QED
      BY <2>0, <1>1, <1>2 DEF Registered
  <1>6. ASSUME NEW c \in Clients PROVE Ordered(FALSE, owner, c)'
    <2>0. Ordered(FALSE, owner, c)
      BY DEF Routes
    <2>1. Last(c)' = Last(c) /\ (Holds(c)' => input[1].target = c)
      BY <1>1, <1>2 DEF Last, Holds
    <2>2. ASSUME NEW a, ToCome(FALSE, c, a) PROVE ToCome(FALSE, c, a)'
      BY <2>1, <2>2, <1>1, <1>2, <1>3 DEF ToCome
    <2>3. ToCome(FALSE, c, Last(c))'
      BY <2>0, <2>1, <2>2 DEF Ordered
    <2>4. ASSUME NEW p \in 1 .. opened, owner[p] = c, NEW i \in 1 .. Len(pipe[p])
          PROVE  /\ Newer(FALSE, pipe[p][i], 0)'
                 /\ ToCome(FALSE, c, pipe[p][i].about)'
                 /\ \A j \in 1 .. i - 1 : Newer(FALSE, pipe[p][i], pipe[p][j].about)'
                 /\ p = outputFd[c].read => Newer(FALSE, pipe[p][i], Last(c))'
      BY <2>0, <2>1, <2>2, <2>4, <1>2 DEF Ordered, Newer
    <2>5. /\ line'.target = c => line'.about <= emitted[c]
          /\ Holds(c)' => \A i \in 1 .. Len(input') :
                           input'[i].target = c => input'[i].about > line'.about
      <3>1. line'.target = c => line'.about <= emitted[c]
        BY <2>0, <1>1, <1>3 DEF Ordered
      <3>2. ASSUME Holds(c)', NEW i \in 1 .. Len(input'), input'[i].target = c
            PROVE  input'[i].about > line'.about
        <4>1. 1 \in 1 .. (i + 1) - 1 /\ i + 1 \in 1 .. Len(input)
          BY <1>3
        <4> QED
          BY <4>1, <3>2, <2>0, <2>1, <1>1, <1>3 DEF Ordered
      <3> QED
        BY <3>1, <3>2
    <2>6. ASSUME NEW i \in 1 .. Len(input'), input'[i].target = c
          PROVE  /\ input'[i].about <= emitted[c]
                 /\ \A j \in 1 .. i - 1 : input'[j].target = c => input'[i].about > input'[j].about
      <3>1. input'[i].about <= emitted[c]
        BY <2>0, <2>6, <1>3 DEF Ordered
      <3>2. ASSUME NEW j \in 1 .. i - 1, input'[j].target = c
            PROVE  input'[i].about > input'[j].about
        <4>1. j + 1 \in 1 .. (i + 1) - 1 /\ j \in 1 .. Len(input')
          BY <1>3
        <4> QED
          BY <4>1, <3>2, <2>0, <2>6, <1>3 DEF Ordered
      <3> QED
        BY <3>1, <3>2
    <2> QED
      BY <2>3, <2>4, <2>5, <2>6, <1>2 DEF Ordered
  <1> QED
    BY <1>4, <1>5, <1>6 DEF Routes

\* The line written is newer than what its client read, and than what is in the
\* pipe already.
LEMMA RouteStep ==
  ASSUME TypeOK, LinesOK, PlacesOK, NEW repeats, NEW owner, Routes(repeats, owner),
         RouteLine, UNCHANGED trainVars
  PROVE  Routes(repeats, owner)'
  <1> USE DEF RouteLine, trainVars
  <1> DEFINE b == slot[Reader]
             w == outputFd[b].write
  <1>1. /\ pc[Reader] = "registered" /\ pc'[Reader] = "loop"
        /\ \A u \in Threads : u # Reader => pc'[u] = pc[u]
        /\ b \in Clients /\ line \in Lines /\ line.target = b /\ line.about \in Nat
    BY StepMoves, ThreadFacts DEF PlacesOK, Lines
  <1>2. UNCHANGED <<slot, fd, outputFd, opened, input, line, got, emitted>>
    OBVIOUS
  <1>3. /\ w # NoPipe => w \in 1 .. opened /\ owner[w] = b
        /\ \A p \in Pipes : p # w \/ w = NoPipe => pipe'[p] = pipe[p]
        /\ \A p \in 1 .. opened : p \in Pipes
    BY <1>1, Numbers DEF Routes, Owned, Delivered, LinesOK
  <1>4. w # NoPipe =>
          /\ Len(pipe[w]) \in Nat /\ Len(pipe'[w]) = Len(pipe[w]) + 1
          /\ \A i \in 1 .. Len(pipe[w]) : pipe'[w][i] = pipe[w][i]
          /\ pipe'[w][Len(pipe[w]) + 1] = line
    <2> SUFFICES ASSUME w # NoPipe
                 PROVE  /\ Len(pipe[w]) \in Nat /\ Len(pipe'[w]) = Len(pipe[w]) + 1
                        /\ \A i \in 1 .. Len(pipe[w]) : pipe'[w][i] = pipe[w][i]
                        /\ pipe'[w][Len(pipe[w]) + 1] = line
      OBVIOUS
    <2>1. w \in Pipes /\ pipe[w] \in Seq(Lines)
      BY <1>3 DEF LinesOK
    <2>2. pipe'[w] = Append(pipe[w], line)
      BY <2>1 DEF Delivered, LinesOK
    <2> QED
      BY <2>1, <2>2, <1>1
  <1>5. \A p \in Pipes : pipe[p] # <<>> \/ pipe'[p] = <<>> \/ (p = w /\ w # NoPipe)
    BY <1>3
  <1> HIDE DEF b, w
  <1>6. Owned(owner)'
    <2>0. Owned(owner)
      BY DEF Routes
    <2>1. \A p \in Pipes : p > opened => pipe'[p] = <<>>
      BY <2>0, <1>3 DEF Owned, TypeOK, RoutingTypeOK, Pipes
    <2>2. ASSUME NEW p \in 1 .. opened, owner[p] \in Clients, NEW i \in 1 .. Len(pipe'[p])
          PROVE  pipe'[p][i].target = owner[p]
      <3>1. CASE p = w /\ w # NoPipe
        <4>1. i \in 1 .. Len(pipe[w]) \/ i = Len(pipe[w]) + 1
          BY <3>1, <1>4
        <4> QED
          BY <4>1, <3>1, <2>0, <2>2, <1>1, <1>3, <1>4 DEF Owned
      <3>2. CASE p # w \/ w = NoPipe
        BY <3>2, <2>0, <2>2, <1>3 DEF Owned
      <3> QED
        BY <3>1, <3>2
    <2> QED
      BY <2>0, <2>1, <2>2, <1>1, <1>2 DEF Owned
  <1>7. ASSUME NEW c \in Clients PROVE Registered(owner, c)'
    <2>0. /\ Registered(owner, c) /\ Owned(owner) /\ ~Registers(c)' /\ ~Registers(c)
          /\ pc'[c] = pc[c]
      BY <1>1, ThreadFacts DEF Routes, Registers
    <2>1. \A p \in 1 .. opened : owner[p] = c /\ pipe'[p] # <<>> => outputFd[c].read # NoPipe
      BY <2>0, <1>3, <1>5 DEF Registered, w
    <2>2. ASSUME pc[c] = "blocked", fd[c] # outputFd[c].read
          PROVE  pipe'[fd[c]] = <<>> /\ outputFd[c].write # fd[c]
      <3>1. /\ fd[c] \in 1 .. opened /\ owner[fd[c]] = c
            /\ pipe[fd[c]] = <<>> /\ outputFd[c].write # fd[c]
        BY <2>0, <2>2, <1>1 DEF Registered, Owned
      <3>2. fd[c] # w \/ w = NoPipe
        BY <3>1, <1>3 DEF w
      <3> QED
        BY <3>1, <3>2, <1>3
    <2> QED
      BY <2>0, <2>1, <2>2, <1>1, <1>2 DEF Registered
  <1>8. ASSUME NEW c \in Clients PROVE Ordered(repeats, owner, c)'
    <2>0. Ordered(repeats, owner, c)
      BY DEF Routes
    <2>1. /\ Last(c)' = Last(c) /\ ~Holds(c)' /\ (c = b => Holds(c))
          /\ Last(c) \in Nat /\ emitted[c] \in Nat
      BY <1>1, <1>2, Numbers, ThreadFacts DEF Last, Holds, b
    <2>2. /\ \A a : ToCome(repeats, c, a) => ToCome(repeats, c, a)'
          /\ \A m, a : Newer(repeats, m, a) <=> Newer(repeats, m, a)'
      BY <2>1, <1>2 DEF ToCome, Newer
    <2>3. ASSUME NEW p \in 1 .. opened, owner[p] = c, NEW i \in 1 .. Len(pipe'[p])
          PROVE  /\ Newer(repeats, pipe'[p][i], 0)
                 /\ ToCome(repeats, c, pipe[p][i].about)'
                 /\ \A j \in 1 .. i - 1 : Newer(repeats, pipe'[p][i], pipe'[p][j].about)
                 /\ p = outputFd[c].read => Newer(repeats, pipe'[p][i], Last(c))
      <3>1. CASE p # w \/ w = NoPipe
        <4>1. pipe'[p] = pipe[p]
          BY <3>1, <1>3
        <4> QED
          BY <4>1, <2>0, <2>2, <2>3 DEF Ordered
      <3>2. CASE p = w /\ w # NoPipe /\ i \in 1 .. Len(pipe[p])
        <4>1. pipe'[p][i] = pipe[p][i] /\ \A j \in 1 .. i - 1 : pipe'[p][j] = pipe[p][j]
          BY <3>2, <1>4
        <4> QED
          BY <4>1, <3>2, <2>0, <2>2, <2>3 DEF Ordered
      <3>3. CASE p = w /\ w # NoPipe /\ i = Len(pipe[p]) + 1
        <4>1. pipe'[p][i] = line /\ \A j \in 1 .. i - 1 : pipe'[p][j] = pipe[p][j] /\ j \in 1 .. Len(pipe[p])
          BY <3>3, <1>4
        <4>2. c = b /\ Holds(c)
          BY <3>3, <2>1, <2>3, <1>3
        <4>3. Newer(repeats, line, Last(c)) /\ Newer(repeats, line, 0)
          BY <4>2, <2>0, <2>1, <1>1 DEF Ordered, ToCome, Newer
        <4>4. ToCome(repeats, c, line.about)'
          BY <4>2, <2>0, <2>1, <1>1, <1>2, PlcAssumption DEF Ordered, ToCome
        <4>5. \A j \in 1 .. Len(pipe[p]) : Newer(repeats, line, pipe[p][j].about)
          BY <4>2, <2>0, <2>3 DEF Ordered, ToCome, Newer
        <4> QED
          BY <4>1, <4>3, <4>4, <4>5
      <3> QED
        BY <3>1, <3>2, <3>3, <1>4
    <2> QED
      BY <2>0, <2>1, <2>2, <2>3, <1>2 DEF Ordered
  <1> QED
    BY <1>6, <1>7, <1>8 DEF Routes

\* What a train reads is its own, and newer than what it read before.
LEMMA ReturnStep ==
  ASSUME TypeOK, LinesOK, PlacesOK, NEW repeats, NEW owner, Routes(repeats, owner),
         NEW b \in Ids, ReturnMessage(b)
  PROVE  /\ Routes(repeats, owner)'
         /\ got'[b].target = b /\ Newer(repeats, got'[b], Last(b))
         /\ \A c \in Ids : c # b => count'[c] = count[c] /\ got'[c] = got[c]
  <1> USE DEF ReturnMessage, FinishRead
  <1> DEFINE q == fd[b]
  <1>1. /\ b \in Clients /\ b \in Threads /\ pc[b] = "blocked" /\ pc'[b] = "idle"
        /\ \A u \in Threads : u # b => pc'[u] = pc[u]
    BY StepMoves, ThreadFacts DEF PlacesOK
  <1>2. UNCHANGED <<slot, fd, outputFd, opened, input, line, emitted>>
    OBVIOUS
  <1>3. /\ q \in 1 .. opened /\ q \in Pipes /\ owner[q] = b /\ q = outputFd[b].read
        /\ pipe[q] \in Seq(Lines) /\ pipe[q] # <<>>
    <2>1. Registered(owner, b) /\ Owned(owner)
      BY <1>1 DEF Routes
    <2>2. q = outputFd[b].read /\ q # NoPipe /\ pipe[q] # <<>>
      BY <1>1, <2>1 DEF Registered
    <2> QED
      BY <1>1, <2>1, <2>2, Numbers DEF Owned
  <1>4. /\ Len(pipe[q]) \in Nat \ {0} /\ 1 \in 1 .. Len(pipe[q]) /\ pipe[q][1] \in Lines
        /\ got'[b] = pipe[q][1] /\ Last(b)' = pipe[q][1].about
        /\ \A c \in Ids : c # b => got'[c] = got[c] /\ count'[c] = count[c]
        /\ Len(pipe'[q]) = Len(pipe[q]) - 1
        /\ \A i \in 1 .. Len(pipe'[q]) : i + 1 \in 1 .. Len(pipe[q]) /\ pipe'[q][i] = pipe[q][i + 1]
        /\ \A p \in Pipes : p # q => pipe'[p] = pipe[p]
    <2>1. pipe'[q] = Tail(pipe[q]) /\ \A p \in Pipes : p # q => pipe'[p] = pipe[p]
      BY <1>3 DEF LinesOK
    <2>2. /\ got'[b] = Head(pipe[q])
          /\ \A c \in Ids : c # b => got'[c] = got[c] /\ count'[c] = count[c]
      BY DEF LinesOK, TypeOK
    <2>3. Head(pipe[q]) = pipe[q][1] /\ pipe[q][1] \in Lines
      BY <1>3
    <2>4. Last(b)' = pipe[q][1].about
      BY <2>2, <2>3 DEF Last
    <2>5. /\ Len(pipe[q]) \in Nat \ {0} /\ 1 \in 1 .. Len(pipe[q])
          /\ Len(pipe'[q]) = Len(pipe[q]) - 1
          /\ \A i \in 1 .. Len(pipe'[q]) : i + 1 \in 1 .. Len(pipe[q]) /\ pipe'[q][i] = pipe[q][i + 1]
      <3> DEFINE s == pipe[q]
      <3>1. s \in Seq(Lines) /\ s # <<>>
        BY <1>3
      <3> HIDE DEF s
      <3>2. /\ Len(s) \in Nat \ {0} /\ 1 \in 1 .. Len(s)
            /\ Len(Tail(s)) = Len(s) - 1
            /\ \A i \in 1 .. Len(Tail(s)) : i + 1 \in 1 .. Len(s) /\ Tail(s)[i] = s[i + 1]
        BY <3>1, TailFacts
      <3>3. pipe'[q] = Tail(s)
        BY <2>1 DEF s
      <3> QED
        BY <3>2, <3>3 DEF s
    <2> QED
      BY <2>1, <2>2, <2>3, <2>4, <2>5
  <1> HIDE DEF q
  <1>5. got'[b].target = b /\ Newer(repeats, got'[b], Last(b))
    BY <1>1, <1>3, <1>4 DEF Routes, Owned, Ordered
  <1>6. Owned(owner)'
    <2>0. Owned(owner)
      BY DEF Routes
    <2>1. \A p \in Pipes : p > opened => pipe'[p] = <<>>
      BY <2>0, <1>3, <1>4 DEF Owned, TypeOK, RoutingTypeOK
    <2>2. ASSUME NEW p \in 1 .. opened, owner[p] \in Clients, NEW i \in 1 .. Len(pipe'[p])
          PROVE  pipe'[p][i].target = owner[p]
      <3>1. CASE p = q
        BY <3>1, <2>0, <2>2, <1>3, <1>4, SMTT(30) DEF Owned
      <3>2. CASE p # q
        <4>1. pipe'[p] = pipe[p]
          BY <3>2, <1>4, Numbers
        <4> QED
          BY <4>1, <2>0, <2>2 DEF Owned
      <3> QED
        BY <3>1, <3>2
    <2>3. pc'[Reader] = pc[Reader]
      BY <1>1, ThreadFacts
    <2> QED
      BY <2>0, <2>1, <2>2, <2>3, <1>2 DEF Owned
  <1>7. ASSUME NEW c \in Clients PROVE Registered(owner, c)'
    <2>0. /\ Registered(owner, c) /\ Owned(owner) /\ Registers(c)' = Registers(c)
          /\ pc'[Reader] = pc[Reader] /\ (pc'[c] = pc[c] \/ pc'[c] = "idle")
          /\ c = b => pc'[c] = "idle"
      BY <1>1, <1>2, ThreadFacts DEF Routes, Registers
    <2>1. \A p \in 1 .. opened : pipe'[p] # <<>> => pipe[p] # <<>>
      BY <1>3, <1>4, Numbers
    <2>2. c # b /\ pc[c] = "blocked" => fd[c] # NoPipe /\ pipe'[fd[c]] = pipe[fd[c]]
      BY <2>0, <1>3, <1>4, Numbers DEF Registered, Owned
    <2> QED
      BY <2>0, <2>1, <2>2, <1>2 DEF Registered
  <1>8. ASSUME NEW c \in Clients PROVE Ordered(repeats, owner, c)'
    <2>0. Ordered(repeats, owner, c)
      BY DEF Routes
    <2>1. /\ Holds(c)' = Holds(c)
          /\ c # b => Last(c)' = Last(c)
      BY <1>1, <1>2, <1>4, ThreadFacts DEF Last, Holds
    <2>2. /\ \A a : ToCome(repeats, c, a) => ToCome(repeats, c, a)'
          /\ \A m, a : Newer(repeats, m, a) <=> Newer(repeats, m, a)'
      BY <2>1, <1>2 DEF ToCome, Newer
    <2>3. ToCome(repeats, c, Last(c))'
      BY <2>0, <2>1, <2>2, <1>3, <1>4 DEF Ordered
    <2>4. ASSUME NEW p \in 1 .. opened, owner[p] = c, NEW i \in 1 .. Len(pipe'[p])
          PROVE  /\ Newer(repeats, pipe'[p][i], 0)
                 /\ ToCome(repeats, c, pipe[p][i].about)'
                 /\ \A j \in 1 .. i - 1 : Newer(repeats, pipe'[p][i], pipe'[p][j].about)
                 /\ p = outputFd[c].read => Newer(repeats, pipe'[p][i], Last(c)')
      <3>1. CASE p # q
        <4>1. pipe'[p] = pipe[p] /\ (p = outputFd[c].read => c # b)
          BY <3>1, <1>3, <1>4, Numbers
        <4> QED
          BY <4>1, <2>0, <2>1, <2>2, <2>4 DEF Ordered
      <3>2. CASE p = q
        <4>1. c = b
          BY <3>2, <2>4, <1>3
        <4>2. /\ i + 1 \in 1 .. Len(pipe[p]) /\ pipe'[p][i] = pipe[p][i + 1]
              /\ 1 \in 1 .. (i + 1) - 1
              /\ \A j \in 1 .. i - 1 : j + 1 \in 1 .. (i + 1) - 1 /\ pipe'[p][j] = pipe[p][j + 1]
          BY <3>2, <1>4, SMTT(30)
        <4>3. /\ Newer(repeats, pipe[p][i + 1], 0)
              /\ ToCome(repeats, c, pipe[p][i + 1].about)
              /\ \A j \in 1 .. (i + 1) - 1 : Newer(repeats, pipe[p][i + 1], pipe[p][j].about)
          BY <4>2, <2>0, <2>4 DEF Ordered
        <4>4. ToCome(repeats, c, pipe[p][i].about)'
          BY <4>2, <4>3, <2>2
        <4>5. Newer(repeats, pipe'[p][i], 0) /\ Newer(repeats, pipe'[p][i], Last(c)')
          BY <4>1, <4>2, <4>3, <3>2, <1>4
        <4>6. \A j \in 1 .. i - 1 : Newer(repeats, pipe'[p][i], pipe'[p][j].about)
          BY <4>2, <4>3
        <4> QED
          BY <4>4, <4>5, <4>6
      <3> QED
        BY <3>1, <3>2
    <2> QED
      BY <2>0, <2>1, <2>2, <2>3, <2>4, <1>2 DEF Ordered
  <1> QED
    BY <1>4, <1>5, <1>6, <1>7, <1>8 DEF Routes

-----------------------------------------------------------------------------
\* Every step of the proxy, its trains and its PLC; the owners of the pipes there
\* were stay the same.
LEMMA ProxyStep ==
  ASSUME TypeOK, LinesOK, PlacesOK, NEW repeats \in BOOLEAN, NEW owner, Routes(repeats, owner),
         repeats => input = <<>>, Next
  PROVE  /\ TypeOK' /\ LinesOK' /\ PlacesOK'
         /\ \E next : /\ Routes(repeats, next)'
                      /\ \A p \in 1 .. opened : next[p] = owner[p]
         /\ \A c \in Clients : count'[c] # count[c] =>
              got'[c].target = c /\ Newer(repeats, got'[c], Last(c))
  <1> USE DEF Step, trainVars, table, ending
  <1>r. ASSUME NEW c \in Ids, pc[c] \in {"store", "registered", "blocked"}
        PROVE  outputFd[c].read # NoPipe
    BY <1>r DEF Routes, Registered, PlacesOK
  <1>s. pc[Reader] \in {"store", "registered"} => outputFd[slot[Reader]].read # NoPipe
    BY DEF Routes, Registered, PlacesOK
  <1>q. ASSUME Routes(repeats, owner)'
        PROVE  \E next : /\ Routes(repeats, next)'
                         /\ \A p \in 1 .. opened : next[p] = owner[p]
    BY <1>q
  <1>t. ASSUME NEW th \in Ids \cup {Reader}, TryRegisterClient(th), UNCHANGED trainVars
        PROVE  \E next : /\ Routes(repeats, next)'
                         /\ \A p \in 1 .. opened : next[p] = owner[p]
    <2>0. th \in Threads /\ (th # Reader => slot[th] = th)
      BY ThreadFacts DEF PlacesOK
    <2>1. CASE CheckSlot(th)
      <3>1. /\ pc[th] = "check" /\ \A u \in Threads : u # th => pc'[u] = pc[u]
            /\ pc'[th] = IF slot[th] \notin Clients THEN "failed"
                         ELSE IF outputFd[slot[th]].read # NoPipe THEN "registered" ELSE "open"
            /\ UNCHANGED <<slot, fd, outputFd, opened, pipe, line, input, got, emitted>>
        BY <1>t, <2>0, <2>1, StepMoves DEF CheckSlot
      <3>2. Routes(repeats, owner)'
        <4>1. CASE th = Reader
          BY <3>1, <4>1, <1>r, ThreadFacts, QuietStep DEF Holds, Registers
        <4>2. CASE th # Reader
          BY <3>1, <4>2, <1>r, <1>s, <2>0, ThreadFacts, QuietStep DEF Holds, Registers
        <4> QED
          BY <4>1, <4>2
      <3> QED
        BY <3>2, <1>q
    <2>2. CASE OpenPipe(th)
      BY <2>2, <1>t, OpenStep
    <2>3. CASE StoreWriteEnd(th)
      BY <2>3, <1>t, <1>q, StoreStep
    <2>4. CASE PipeFails(th)
      <3>1. /\ pc[th] = "open" /\ pc'[th] = "failed"
            /\ \A u \in Threads : u # th => pc'[u] = pc[u]
            /\ UNCHANGED <<slot, fd, outputFd, opened, pipe, line, input, got, emitted>>
        BY <1>t, <2>0, <2>4, StepMoves DEF PipeFails
      <3>2. Routes(repeats, owner)'
        BY <3>1, <1>r, <1>s, <2>0, ThreadFacts, QuietStep DEF Holds, Registers
      <3> QED
        BY <3>2, <1>q
    <2> QED
      BY <1>t, <2>1, <2>2, <2>3, <2>4 DEF TryRegisterClient
  <1>1. ASSUME NEW c \in Ids, Train(c)
        PROVE  /\ TypeOK' /\ LinesOK' /\ PlacesOK'
               /\ \E next : /\ Routes(repeats, next)'
                            /\ \A p \in 1 .. opened : next[p] = owner[p]
               /\ \A b \in Clients : count'[b] # count[b] =>
                    got'[b].target = b /\ Newer(repeats, got'[b], Last(b))
    <2>1. CASE plcProxyTryRegisterClient(c)
      BY <2>1, <1>t, RegisterTypes DEF plcProxyTryRegisterClient
    <2>2. CASE ~plcProxyTryRegisterClient(c)
      <3>1. pc[c] = "blocked" => fd[c] \in Pipes
        BY Numbers DEF Routes, Registered, Owned, PlacesOK
      <3>2. TypeOK' /\ LinesOK' /\ PlacesOK'
        BY <1>1, <2>2, <3>1, TrainTypes
      <3>3. CASE readMessagePlcProxy(c) \/ ReturnNull(c)
        <4>1. /\ pc[c] \in {"idle", "failed"} /\ pc'[c] \in {"check", "idle"}
              /\ \A u \in Threads : u # c => pc'[u] = pc[u]
              /\ UNCHANGED <<slot, fd, outputFd, opened, pipe, line, input, got, emitted, count>>
          BY <3>3, StepMoves, ThreadFacts DEF readMessagePlcProxy, ReturnNull
        <4>2. Routes(repeats, owner)'
          BY <4>1, <1>r, <1>s, ThreadFacts, QuietStep DEF Holds, Registers
        <4> QED
          BY <3>2, <4>1, <4>2, <1>q
      <3>4. CASE ReadMessage(c)
        BY <3>2, <3>4, <1>q, StartReadStep DEF ReadMessage
      <3>5. CASE ReturnMessage(c)
        BY <3>2, <3>5, <1>q, ReturnStep, ThreadFacts
      <3> QED
        BY <1>1, <2>2, <3>3, <3>4, <3>5 DEF Train
    <2> QED
      BY <2>1, <2>2
  <1>2. CASE plcProxyMsgReceiverThread
    <2>1. TypeOK' /\ LinesOK' /\ PlacesOK' /\ count' = count
      BY <1>2, ReaderTypes DEF plcProxyMsgReceiverThread
    <2>2. CASE TestFinished \/ DropLine
      <3>1. /\ pc[Reader] \in {"loop", "failed"} /\ pc'[Reader] \in {"exited", "scan", "loop"}
            /\ \A u \in Threads : u # Reader => pc'[u] = pc[u]
            /\ UNCHANGED <<slot, fd, outputFd, opened, pipe, line, input, got, emitted>>
        BY <1>2, <2>2, StepMoves, ThreadFacts DEF TestFinished, DropLine, plcProxyMsgReceiverThread
      <3>2. Routes(repeats, owner)'
        BY <3>1, <1>r, ThreadFacts, QuietStep DEF Holds, Registers
      <3> QED
        BY <2>1, <3>2, <1>q
    <2>3. CASE ScanLine
      <3>1. repeats = FALSE
        BY <2>3 DEF ScanLine
      <3>2. Routes(repeats, owner)'
        BY <1>2, <2>3, <3>1, ScanStep DEF plcProxyMsgReceiverThread
      <3> QED
        BY <2>1, <3>2, <1>q
    <2>4. CASE TryRegisterClient(Reader)
      BY <1>2, <2>1, <2>4, <1>t DEF plcProxyMsgReceiverThread
    <2>5. CASE RouteLine
      BY <1>2, <2>1, <2>5, <1>q, RouteStep DEF plcProxyMsgReceiverThread
    <2> QED
      BY <1>2, <2>2, <2>3, <2>4, <2>5 DEF plcProxyMsgReceiverThread, ReaderThread
  <1>3. CASE endPlcProxy
    <2>1. TypeOK' /\ LinesOK' /\ PlacesOK'
      BY <1>3, OtherTypes
    <2>2. /\ \A u \in Threads : u # Main => pc'[u] = pc[u]
          /\ UNCHANGED <<slot, fd, outputFd, opened, pipe, line, input, got, emitted, count>>
      BY <1>3, StepMoves, ThreadFacts DEF endPlcProxy, EndProxy, SetFinished, KillReader, JoinAndFree
    <2>3. Routes(repeats, owner)'
      BY <2>2, <1>r, <1>s, ThreadFacts, QuietStep DEF Holds, Registers
    <2> QED
      BY <2>1, <2>2, <2>3, <1>q
  <1>4. ASSUME NEW c \in Ids, Emit(c)
        PROVE  /\ TypeOK' /\ LinesOK' /\ PlacesOK' /\ count' = count
               /\ \E next : /\ Routes(repeats, next)'
                            /\ \A p \in 1 .. opened : next[p] = owner[p]
    BY <1>4, <1>q, OtherTypes, EmitStep DEF Emit
  <1> QED
    BY <1>1, <1>2, <1>3, <1>4 DEF Next

\* No pipe is open, so whoever owns the pipes, the proxy starts well.
LEMMA ProxyInit ==
  Init => IInv
  <1> SUFFICES ASSUME Init PROVE IInv
    OBVIOUS
  <1> USE ThreadFacts DEF Init, RoutingInit, table, ending
  <1>1. TypeOK
    <2>1. /\ slot \in [Threads -> Threads]
          /\ fd \in [Threads -> Ends]
          /\ outputFd \in [Clients -> [read : Ends, write : Ends]]
      BY DEF Ends
    <2>2. \A th \in Threads : pc[th] \in {"loop", "idle"}
      OBVIOUS
    <2>3. opened \in 0 .. MaxPipes
      OBVIOUS
    <2> QED
      <3>1. RoutingTypeOK
        BY <2>1, <2>2, <2>3 DEF RoutingTypeOK
      <3>2. /\ reads \in [Ids -> 0 .. MaxReads]
            /\ emitted \in [Ids -> 0 .. MaxMessages]
            /\ count \in [Ids -> 0 .. MaxReads]
        OBVIOUS
      <3> QED
        BY <3>1, <3>2 DEF TypeOK
  <1>2. LinesOK
    BY DEF LinesOK
  <1>3. PlacesOK
    BY DEF PlacesOK
  <1>4. PICK owner \in [1 .. opened -> Threads] : TRUE
    <2>1. [p \in 1 .. opened |-> Reader] \in [1 .. opened -> Threads]
      OBVIOUS
    <2> QED
      BY <2>1
  <1>5. \A p \in 1 .. opened : FALSE
    OBVIOUS
  <1>6. Owned(owner)
    BY <1>4, <1>5 DEF Owned
  <1>7. ASSUME NEW c \in Clients PROVE Registered(owner, c) /\ Ordered(FALSE, owner, c)
    <2>1. /\ ~Holds(c) /\ ~Registers(c) /\ Len(input) = 0 /\ Last(c) = 0 /\ emitted[c] = 0
          /\ outputFd[c].write = NoPipe /\ pc[c] = "idle" /\ pc[Reader] = "loop"
      BY DEF Holds, Registers, Last
    <2> QED
      BY <2>1, <1>5 DEF Registered, Ordered, ToCome
  <1> QED
    BY <1>1, <1>2, <1>3, <1>6, <1>7 DEF IInv, Routes

\* A step in which nothing of the proxy's moves.
LEMMA SameRoutes ==
  ASSUME NEW repeats, NEW owner, Routes(repeats, owner),
         UNCHANGED <<pc, slot, fd, outputFd, opened, pipe, line, input, got, emitted>>
  PROVE  Routes(repeats, owner)'
  <1>1. Owned(owner)'
    BY DEF Routes, Owned
  <1>2. ASSUME NEW c \in Clients PROVE Registered(owner, c)'
    BY DEF Routes, Registered, Registers
  <1>3. ASSUME NEW c \in Clients PROVE Ordered(repeats, owner, c)'
    <2>1. Ordered(repeats, owner, c)
      BY DEF Routes
    <2>2. /\ Last(c)' = Last(c) /\ Holds(c)' = Holds(c)
          /\ \A a : ToCome(repeats, c, a) => ToCome(repeats, c, a)'
          /\ \A m, a : Newer(repeats, m, a) <=> Newer(repeats, m, a)'
      BY DEF Last, Holds, ToCome, Newer
    <2> QED
      BY <2>1, <2>2 DEF Ordered
  <1> QED
    BY <1>1, <1>2, <1>3 DEF Routes

\* Where the pipes of the proxy's clients are, and where their messages are on
\* the way, in every reachable state.
THEOREM PlcInvariance == Spec => []IInv
  <1>1. IInv /\ [Next]_vars => IInv'
    <2> SUFFICES ASSUME IInv, [Next]_vars PROVE IInv'
      OBVIOUS
    <2>1. PICK owner : Routes(FALSE, owner)
      BY DEF IInv
    <2>2. CASE Next
      BY <2>1, <2>2, ProxyStep DEF IInv
    <2>3. CASE UNCHANGED vars
      <3> USE <2>3 DEF vars, routingVars, trainVars, table, ending
      <3>1. TypeOK' /\ LinesOK' /\ PlacesOK'
        BY DEF IInv, TypeOK, RoutingTypeOK, LinesOK, PlacesOK
      <3>2. Routes(FALSE, owner)'
        BY <2>1, SameRoutes
      <3> QED
        BY <3>1, <3>2 DEF IInv
    <2> QED
      BY <2>2, <2>3
  <1> QED
    BY ProxyInit, <1>1, PTL DEF Spec

\* The PLC proxy's variables keep their types: no pipe is stored for an id out of
\* range, and no message is counted but for a read.
THEOREM PlcTypeCorrect == Spec => []TypeOK
  <1>1. IInv => TypeOK
    BY DEF IInv
  <1> QED
    BY PlcInvariance, <1>1, PTL

\* A train reads the PLC's messages for it, and no others, in their order and each
\* at most once, whoever registers it.
THEOREM PlcInOrderOnce == Spec => InOrderOnce
  <1>1. ASSUME IInv, [Next]_vars
        PROVE  [\A c \in Clients :
                  count'[c] # count[c] =>
                    /\ got'[c].target = c
                    /\ got[c] # NoLine => got'[c].about > got[c].about]_vars
    <2>1. PICK owner : Routes(FALSE, owner)
      BY <1>1 DEF IInv
    <2>2. CASE Next
      <3>1. \A c \in Clients : count'[c] # count[c] =>
              got'[c].target = c /\ Newer(FALSE, got'[c], Last(c))
        BY <1>1, <2>1, <2>2, ProxyStep DEF IInv
      <3> QED
        BY <3>1 DEF Newer, Last
    <2>3. CASE UNCHANGED vars
      BY <2>3
    <2> QED
      BY <1>1, <2>2, <2>3
  <1> QED
    BY PlcInvariance, <1>1, PTL DEF Spec, InOrderOnce

-----------------------------------------------------------------------------
(* The train manager: the other proxy uses the same pipes and the same     *)
(* input, and the input ends.                                              *)

USE TrainAssumption

\* Main stands for the owner of the other proxy's pipes.
ResOwned(owner) ==
  /\ \A c \in Clients : \A p \in {resOutputFd[c].read, resOutputFd[c].write} :
       p # NoPipe => p \in 1 .. opened /\ owner[p] = Main
  /\ resPc[Reader] = "store" => resFd[Reader] \in 1 .. opened /\ owner[resFd[Reader]] = Main

ResPlacesOK ==
  /\ resLine \in Lines \cup {NoLine}
  /\ resPc[Reader] \in {"check", "open", "store", "registered"} => resLine \in Lines
  /\ resPc[Reader] \in {"open", "store", "registered"} => resSlot[Reader] \in Clients

\* At the end of the input the reader repeats its last line; nothing else changes.
ManagerInv ==
  /\ ManagerTypeOK
  /\ LinesOK
  /\ PlacesOK
  /\ ResPlacesOK
  /\ \E owner : /\ ResOwned(owner)
                /\ Routes(TRUE, owner)
                /\ ~AtEnd => Routes(FALSE, owner)

\* Where the train's thread can be, and the flags of the two that end it.
LifeOK ==
  /\ at \in {"test", "send", "read", "reading", "sleep", "exited", "undefined"}
  /\ stop \in BOOLEAN /\ gone \in BOOLEAN /\ closed \in BOOLEAN

\* The two proxies have the same clients, threads and pipes.
LEMMA SameNames ==
  Res!Threads = Threads /\ Res!Ids = Ids /\ Res!Pipes = Pipes /\ Res!Ends = Ends
  BY DEF Res!Threads, Threads, Res!Ids, Ids, Res!Pipes, Pipes, Res!Ends, Ends

\* Where no line is repeated, none is but the last.
LEMMA Weaken ==
  ASSUME NEW owner, Routes(FALSE, owner)
  PROVE  Routes(TRUE, owner)
  BY DEF Routes, Ordered, ToCome, Newer

\* The same, after a step.
LEMMA WeakenNext ==
  ASSUME NEW owner, Routes(FALSE, owner)'
  PROVE  Routes(TRUE, owner)'
  BY DEF Routes, Ordered, ToCome, Newer

\* The pipes the other proxy has are not touched by a step of this one.
LEMMA ResOwnedKept ==
  ASSUME TypeOK, NEW owner, NEW next, ResOwned(owner), UNCHANGED resVars,
         \A p \in 1 .. opened : next[p] = owner[p], opened' \in Nat, opened <= opened'
  PROVE  ResOwned(next)'
  BY DEF ResOwned, resVars, TypeOK, RoutingTypeOK

\* A pipe is never fuller than write() allows.
LEMMA PlcPipes ==
  ASSUME ManagerTypeOK, LinesOK, PlacesOK, Next,
         pc'[Reader] # pc[Reader] => ~(pc[Reader] = "registered" /\ Full(outputFd[slot[Reader]]))
  PROVE  \A p \in Pipes : Len(pipe'[p]) <= MaxBuffered
  <1> SUFFICES ASSUME NEW p \in Pipes PROVE Len(pipe'[p]) <= MaxBuffered
    OBVIOUS
  <1> USE DEF Step, table
  <1>0. pipe[p] \in Seq(Lines) /\ Len(pipe[p]) <= MaxBuffered /\ Len(pipe[p]) \in Nat
    BY DEF ManagerTypeOK, LinesOK
  <1>1. CASE \E c \in Ids : Train(c)
    <2>1. pipe'[p] = pipe[p] \/ (pipe[p] # <<>> /\ pipe'[p] = Tail(pipe[p]))
      BY <1>1, ZenonT(40) DEF Train, readMessagePlcProxy, plcProxyTryRegisterClient, TryRegisterClient, CheckSlot,
        OpenPipe, StoreWriteEnd, PipeFails, ReturnNull, ReadMessage, StartRead, ReturnMessage,
        FinishRead, LinesOK
    <2>2. pipe[p] # <<>> => Len(Tail(pipe[p])) = Len(pipe[p]) - 1
      BY <1>0, TailFacts
    <2>3. CASE pipe'[p] = pipe[p]
      BY <2>3, <1>0
    <2>4. CASE pipe[p] # <<>> /\ pipe'[p] = Tail(pipe[p])
      BY <2>2, <2>4, <1>0
    <2> QED
      BY <2>1, <2>3, <2>4
  <1>2. CASE plcProxyMsgReceiverThread
    <2>1. CASE RouteLine
      <3>1. /\ pipe' = Delivered(outputFd[slot[Reader]].write)
            /\ ~Full(outputFd[slot[Reader]]) /\ line \in Lines
        BY <2>1, ThreadFacts DEF RouteLine, PlacesOK, ManagerTypeOK, TypeOK, RoutingTypeOK
      <3>2. pipe'[p] = pipe[p] \/ (Len(pipe[p]) < MaxBuffered /\ pipe'[p] = Append(pipe[p], line))
        BY <3>1, <1>0 DEF Delivered, Full, LinesOK
      <3> QED
        BY <3>1, <3>2, <1>0
    <2>2. CASE ~RouteLine
      BY <1>0, <1>2, <2>2 DEF plcProxyMsgReceiverThread, ReaderThread, TestFinished, ScanLine, DropLine,
        TryRegisterClient, CheckSlot, OpenPipe, StoreWriteEnd, PipeFails
    <2> QED
      BY <2>1, <2>2
  <1>3. CASE endPlcProxy \/ \E c \in Ids : Emit(c)
    BY <1>0, <1>3 DEF endPlcProxy, EndProxy, SetFinished, KillReader, JoinAndFree, Emit
  <1> QED
    BY <1>1, <1>2, <1>3 DEF Next

\* No pipe is ever taken back.
LEMMA OpenedGrows ==
  ASSUME TypeOK, TypeOK', Next
  PROVE  opened' \in Nat /\ opened <= opened'
  <1> USE DEF table
  <1> DEFINE Grows == opened' = opened \/ opened' = opened + 1
  <1>1. ASSUME NEW th, TryRegisterClient(th) PROVE Grows
    BY <1>1 DEF TryRegisterClient, CheckSlot, OpenPipe, StoreWriteEnd, PipeFails
  <1>2. ASSUME NEW c \in Ids, Train(c) PROVE Grows
    BY <1>1, <1>2 DEF Train, readMessagePlcProxy, plcProxyTryRegisterClient, ReturnNull, ReadMessage,
      StartRead, ReturnMessage, FinishRead
  <1>3. plcProxyMsgReceiverThread => Grows
    BY <1>1 DEF plcProxyMsgReceiverThread, ReaderThread, TestFinished, ScanLine, DropLine, RouteLine
  <1>4. endPlcProxy \/ (\E c \in Ids : Emit(c)) => Grows
    BY DEF endPlcProxy, EndProxy, SetFinished, KillReader, JoinAndFree, Emit
  <1>5. Grows
    BY <1>2, <1>3, <1>4 DEF Next
  <1> QED
    BY <1>5 DEF TypeOK, RoutingTypeOK

\* The steps that the PLC proxy by itself has too.
LEMMA PlcPartStep ==
  ASSUME ManagerInv, Next, UNCHANGED resVars, LifeOK', AtEnd => AtEnd',
         pc'[Reader] # pc[Reader] => ~(pc[Reader] = "registered" /\ Full(outputFd[slot[Reader]]))
  PROVE  ManagerInv'
  <1>1. PICK owner : ResOwned(owner) /\ Routes(TRUE, owner) /\ (~AtEnd => Routes(FALSE, owner))
    BY DEF ManagerInv
  <1>0. TypeOK /\ LinesOK /\ PlacesOK /\ ManagerTypeOK
    BY DEF ManagerInv, ManagerTypeOK
  <1>3. ResPlacesOK'
    BY DEF ManagerInv, ResPlacesOK, resVars
  <1>5. TypeOK' /\ LinesOK' /\ PlacesOK'
    <2>1. CASE AtEnd
      BY <1>0, <1>1, <2>1, ProxyStep DEF AtEnd
    <2>2. CASE ~AtEnd
      BY <1>0, <1>1, <2>2, ProxyStep
    <2> QED
      BY <2>1, <2>2
  <1>4. opened' \in Nat /\ opened <= opened'
    BY <1>0, <1>5, OpenedGrows
  <1>2. TypeOK /\ LinesOK /\ PlacesOK /\ ManagerTypeOK'
    <2>1. Res!RoutingTypeOK'
      BY <1>0, <1>5, SameNames
      DEF ManagerTypeOK, Res!RoutingTypeOK, resVars, TypeOK, RoutingTypeOK
    <2>2. \A p \in Pipes : Len(pipe'[p]) <= MaxBuffered
      BY <1>0, PlcPipes
    <2> QED
      BY <1>0, <1>5, <2>1, <2>2 DEF ManagerTypeOK, LifeOK
  <1>6. CASE AtEnd
    <2>1. PICK next : Routes(TRUE, next)' /\ \A p \in 1 .. opened : next[p] = owner[p]
      BY <1>1, <1>2, <1>6, ProxyStep DEF AtEnd
    <2>2. ResOwned(next)'
      BY <2>1, <1>1, <1>2, <1>4, ResOwnedKept
    <2> QED
      BY <2>1, <2>2, <1>2, <1>3, <1>5, <1>6 DEF ManagerInv
  <1>7. CASE ~AtEnd
    <2>1. PICK next : Routes(FALSE, next)' /\ \A p \in 1 .. opened : next[p] = owner[p]
      BY <1>1, <1>2, <1>7, ProxyStep
    <2>2. ResOwned(next)'
      BY <2>1, <1>1, <1>2, <1>4, ResOwnedKept
    <2> QED
      BY <2>1, <2>2, <1>2, <1>3, <1>5, WeakenNext DEF ManagerInv
  <1> QED
    BY <1>6, <1>7

\* A step of the other proxy: it may open a pipe, write to its own, and take the
\* first line of the input.
LEMMA OtherStep ==
  ASSUME TypeOK, LinesOK, NEW repeats, NEW owner, Routes(repeats, owner),
         UNCHANGED <<pc, slot, fd, outputFd, line, got, emitted>>,
         opened' \in Nat, opened <= opened',
         NEW next \in [1 .. opened' -> Threads],
         \A p \in 1 .. opened' : next[p] = IF p \in 1 .. opened THEN owner[p] ELSE Main,
         \A p \in Pipes : pipe'[p] = pipe[p] \/ (p \in 1 .. opened' /\ next[p] = Main),
         NEW k \in {0, 1}, Len(input') \in Nat,
         \A i \in 1 .. Len(input') : i + k \in 1 .. Len(input) /\ input'[i] = input[i + k]
  PROVE  Routes(repeats, next)'
  <1>1. opened \in Nat /\ \A p \in 1 .. opened : p \in 1 .. opened' /\ next[p] = owner[p]
    BY DEF TypeOK, RoutingTypeOK
  <1>2. ASSUME NEW p \in 1 .. opened', next[p] \in Clients
        PROVE  p \in 1 .. opened /\ owner[p] = next[p] /\ pipe'[p] = pipe[p]
    <2>1. p \in 1 .. opened /\ owner[p] = next[p] /\ next[p] # Main
      BY <1>2, ThreadFacts
    <2> QED
      BY <2>1, Numbers
  <1>3. Owned(next)'
    <2>0. Owned(owner)
      BY DEF Routes
    <2>1. \A p \in Pipes : p > opened' => pipe'[p] = <<>>
      <3> SUFFICES ASSUME NEW p \in Pipes, p > opened' PROVE pipe'[p] = <<>>
        OBVIOUS
      <3>1. p > opened /\ p \notin 1 .. opened'
        BY <1>1 DEF Pipes
      <3> QED
        BY <3>1, <2>0 DEF Owned
    <2> QED
      BY <2>0, <2>1, <1>1, <1>2 DEF Owned
  <1>4. ASSUME NEW c \in Clients PROVE Registered(next, c)'
    <2>0. Registered(owner, c) /\ Owned(owner) /\ Registers(c)' = Registers(c)
      BY DEF Routes, Registers
    <2>1. pc[c] = "blocked" => fd[c] \in 1 .. opened /\ owner[fd[c]] = c
      BY <2>0 DEF Registered, Owned
    <2>2. pc[c] = "blocked" => pipe'[fd[c]] = pipe[fd[c]]
      BY <2>1, <1>1, <1>2
    <2>3. \A p \in 1 .. opened' : next[p] = c /\ pipe'[p] # <<>> =>
            ~Registers(c)' /\ outputFd[c].read # NoPipe
      BY <2>0, <1>2 DEF Registered
    <2> QED
      BY <2>0, <2>2, <2>3 DEF Registered
  <1>5. ASSUME NEW c \in Clients PROVE Ordered(repeats, next, c)'
    <2>0. Ordered(repeats, owner, c)
      BY DEF Routes
    <2>1. Last(c)' = Last(c) /\ Holds(c)' = Holds(c)
      BY DEF Last, Holds
    <2>2. /\ \A a : ToCome(repeats, c, a) => ToCome(repeats, c, a)'
          /\ \A m, a : Newer(repeats, m, a) <=> Newer(repeats, m, a)'
      BY <2>1 DEF ToCome, Newer
    <2>3. ToCome(repeats, c, Last(c))'
      BY <2>0, <2>1, <2>2 DEF Ordered
    <2>4. ASSUME NEW p \in 1 .. opened', next[p] = c, NEW i \in 1 .. Len(pipe'[p])
          PROVE  /\ Newer(repeats, pipe'[p][i], 0)
                 /\ ToCome(repeats, c, pipe[p][i].about)'
                 /\ \A j \in 1 .. i - 1 : Newer(repeats, pipe'[p][i], pipe'[p][j].about)
                 /\ p = outputFd[c].read => Newer(repeats, pipe'[p][i], Last(c))
      <3>1. p \in 1 .. opened /\ owner[p] = c /\ pipe'[p] = pipe[p]
        BY <2>4, <1>2
      <3> QED
        BY <3>1, <2>0, <2>2 DEF Ordered
    <2>5. ASSUME NEW i \in 1 .. Len(input'), input'[i].target = c
          PROVE  /\ input'[i].about <= emitted[c]
                 /\ Holds(c) => input'[i].about > line.about
                 /\ \A j \in 1 .. i - 1 : input'[j].target = c => input'[i].about > input'[j].about
      <3>1. i + k \in 1 .. Len(input) /\ input'[i] = input[i + k]
        OBVIOUS
      <3>2. \A j \in 1 .. i - 1 : j + k \in 1 .. (i + k) - 1 /\ input'[j] = input[j + k]
        OBVIOUS
      <3> QED
        BY <2>0, <2>5, <3>1, <3>2 DEF Ordered
    <2> QED
      BY <2>0, <2>1, <2>2, <2>3, <2>4, <2>5 DEF Ordered
  <1> QED
    BY <1>3, <1>4, <1>5 DEF Routes

\* At the end of the input the line of the reader stays what it was, or is one
\* that was never sent.
LEMMA ScanAtEndStep ==
  ASSUME TypeOK, LinesOK, PlacesOK, NEW owner, Routes(TRUE, owner), ScanAtEnd
  PROVE  Routes(TRUE, owner)' /\ TypeOK' /\ LinesOK' /\ PlacesOK'
  <1> USE DEF ScanAtEnd, table, trainVars
  <1>1. /\ pc[Reader] = "scan" /\ pc'[Reader] = "check" /\ pc' = [pc EXCEPT ![Reader] = "check"]
        /\ \A u \in Threads : u # Reader => pc'[u] = pc[u]
        /\ slot' = [slot EXCEPT ![Reader] = line'.target] /\ slot'[Reader] = line'.target
        /\ \A u \in Threads : u # Reader => slot'[u] = slot[u]
    BY StepMoves, ThreadFacts DEF TypeOK, RoutingTypeOK
  <1>2. /\ UNCHANGED <<fd, outputFd, opened, pipe, input, got, emitted, reads, count>>
        /\ input = <<>> /\ Len(input) = 0
    BY DEF AtEnd
  <1>3. /\ line' \in Lines
        /\ line # NoLine => line' = line
        /\ line = NoLine => line'.about = 0
    BY PlcAssumption DEF LeftOver, LinesOK, Lines
  <1>4. TypeOK' /\ LinesOK'
    <2>1. slot' \in [Threads -> Threads]
      BY <1>1, <1>3, ThreadFacts DEF TypeOK, RoutingTypeOK, Lines
    <2> QED
      BY <1>1, <1>2, <1>3, <2>1, ThreadFacts DEF TypeOK, RoutingTypeOK, LinesOK, ending
  <1>5. PlacesOK'
    BY <1>1, <1>2, <1>3, ThreadFacts DEF PlacesOK
  <1>6. Owned(owner)'
    BY <1>1, <1>2, ThreadFacts DEF Routes, Owned
  <1>7. ASSUME NEW c \in Clients PROVE Registered(owner, c)'
    <2>0. Registered(owner, c) /\ ~Registers(c)' /\ pc'[c] = pc[c]
      BY <1>1, ThreadFacts DEF Routes, Registers
    <2> QED
      BY <2>0, <1>1, <1>2 DEF Registered
  <1>8. ASSUME NEW c \in Clients PROVE Ordered(TRUE, owner, c)'
    <2>0. Ordered(TRUE, owner, c)
      BY DEF Routes
    <2>1. Last(c)' = Last(c) /\ emitted[c] \in Nat
      BY <1>2, Numbers, ThreadFacts DEF Last
    <2>2. \A a : ToCome(TRUE, c, a) => ToCome(TRUE, c, a)'
      BY <1>2 DEF ToCome
    <2>3. ToCome(TRUE, c, Last(c))'
      BY <2>0, <2>1, <2>2 DEF Ordered
    <2> DEFINE After(m, a) == m.about > a \/ m = line'
    <2>4. \A m, a : m \in Lines /\ Newer(TRUE, m, a) => After(m, a)
      BY <1>3, PlcAssumption DEF Newer
    <2> HIDE DEF After
    <2>5. ASSUME NEW p \in 1 .. opened, owner[p] = c, NEW i \in 1 .. Len(pipe[p])
          PROVE  /\ After(pipe[p][i], 0)
                 /\ ToCome(TRUE, c, pipe[p][i].about)'
                 /\ \A j \in 1 .. i - 1 : After(pipe[p][i], pipe[p][j].about)
                 /\ p = outputFd[c].read => After(pipe[p][i], Last(c))
      <3>1. pipe[p][i] \in Lines
        BY Numbers
      <3>2. ToCome(TRUE, c, pipe[p][i].about)'
        BY <2>0, <2>2, <2>5, <1>2 DEF Ordered
      <3>3. /\ Newer(TRUE, pipe[p][i], 0)
            /\ \A j \in 1 .. i - 1 : Newer(TRUE, pipe[p][i], pipe[p][j].about)
            /\ p = outputFd[c].read => Newer(TRUE, pipe[p][i], Last(c))
        BY <2>0, <2>5 DEF Ordered
      <3> QED
        BY <2>4, <3>1, <3>2, <3>3
    <2>6. line'.target = c => line'.about <= emitted[c]
      BY <2>0, <2>1, <1>3 DEF Ordered
    <2>7. \A i \in 1 .. Len(input') : FALSE
      BY <1>2
    <2>8. \A m, a : After(m, a) <=> Newer(TRUE, m, a)'
      BY DEF After, Newer
    <2>9. ASSUME NEW p \in 1 .. opened, owner[p] = c, NEW i \in 1 .. Len(pipe'[p])
          PROVE  /\ Newer(TRUE, pipe[p][i], 0)'
                 /\ ToCome(TRUE, c, pipe[p][i].about)'
                 /\ \A j \in 1 .. i - 1 : Newer(TRUE, pipe[p][i], pipe[p][j].about)'
                 /\ p = outputFd[c].read => Newer(TRUE, pipe[p][i], Last(c))'
      BY <2>1, <2>5, <2>8, <2>9, <1>2
    <2> QED
      BY <2>3, <2>6, <2>7, <2>9, <1>2, ZenonT(40) DEF Ordered
  <1> QED
    BY <1>4, <1>5, <1>6, <1>7, <1>8 DEF Routes

-----------------------------------------------------------------------------
\* The other proxy's reader thread moves, and what it shares keeps its type.
LEMMA ResTypes ==
  ASSUME ManagerInv, ResReaderThread
  PROVE  ManagerTypeOK' /\ LinesOK' /\ PlacesOK' /\ ResPlacesOK'
  <1> USE ThreadFacts, SameNames DEF Res!Step
  <1>0. /\ TypeOK /\ LinesOK /\ PlacesOK /\ ManagerTypeOK /\ ResPlacesOK /\ Res!RoutingTypeOK
        /\ UNCHANGED <<pc, slot, fd, outputFd, line, finished, freed, reads, emitted, got, count>>
        /\ UNCHANGED <<at, stop, gone, order, closed>>
    BY DEF ManagerInv, ManagerTypeOK, ResReaderThread, plcVars, trainVars, lifeVars
  <1>1. /\ Reader \in Res!Threads
        /\ \A c \in Clients : resOutputFd[c] \in [read : Ends, write : Ends]
    BY <1>0 DEF Res!RoutingTypeOK
  <1>2. ASSUME Res!RoutingTypeOK', ResPlacesOK', killed' = killed,
               input' \in Seq(Lines), pipe' \in [Pipes -> Seq(Lines)],
               \A p \in Pipes : Len(pipe'[p]) <= MaxBuffered
        PROVE  ManagerTypeOK' /\ LinesOK' /\ PlacesOK' /\ ResPlacesOK'
    <2>1. opened' \in 0 .. MaxPipes
      BY <1>2 DEF Res!RoutingTypeOK
    <2>2. TypeOK' /\ LinesOK' /\ PlacesOK'
      BY <1>0, <1>2, <2>1 DEF TypeOK, RoutingTypeOK, LinesOK, PlacesOK
    <2> QED
      BY <1>0, <1>2, <2>2 DEF ManagerTypeOK
  <1>3. ASSUME UNCHANGED <<input, pipe>>, killed' = killed, Res!RoutingTypeOK', ResPlacesOK'
        PROVE  ManagerTypeOK' /\ LinesOK' /\ PlacesOK' /\ ResPlacesOK'
    BY <1>0, <1>2, <1>3 DEF LinesOK, ManagerTypeOK
  <1>4. CASE Res!TestFinished \/ Res!DropLine
    <2> USE <1>4 DEF Res!TestFinished, Res!DropLine, Res!table, Res!ending
    <2>1. Res!RoutingTypeOK'
      BY <1>0 DEF Res!RoutingTypeOK
    <2>2. ResPlacesOK'
      BY <1>0, <1>1 DEF ResPlacesOK, Res!RoutingTypeOK
    <2> QED
      BY <2>1, <2>2, <1>3
  <1>5. CASE Res!CheckSlot(Reader) \/ Res!PipeFails(Reader)
    <2> USE <1>5 DEF Res!CheckSlot, Res!PipeFails, Res!table, Res!ending
    <2>1. Res!RoutingTypeOK'
      BY <1>0 DEF Res!RoutingTypeOK
    <2>2. ResPlacesOK'
      BY <1>0, <1>1 DEF ResPlacesOK, Res!RoutingTypeOK
    <2> QED
      BY <2>1, <2>2, <1>3
  <1>6. CASE Res!OpenPipe(Reader)
    <2> USE <1>6 DEF Res!OpenPipe, Res!table, Res!ending
    <2>1. resSlot[Reader] \in Clients
      BY <1>0 DEF ResPlacesOK
    <2>2. opened + 1 \in Ends /\ opened' \in 0 .. MaxPipes
      BY <1>0 DEF Ends, Pipes, Res!RoutingTypeOK
    <2>3. resOutputFd' \in [Clients -> [read : Ends, write : Ends]]
      BY <1>0, <2>1, <2>2 DEF Res!RoutingTypeOK
    <2>4. Res!RoutingTypeOK'
      BY <1>0, <2>2, <2>3 DEF Res!RoutingTypeOK
    <2>5. ResPlacesOK'
      BY <1>0, <2>1 DEF ResPlacesOK
    <2> QED
      BY <2>4, <2>5, <1>3
  <1>7. CASE Res!StoreWriteEnd(Reader)
    <2> USE <1>7 DEF Res!StoreWriteEnd, Res!table, Res!ending
    <2>1. resSlot[Reader] \in Clients
      BY <1>0 DEF ResPlacesOK
    <2>3. resOutputFd' \in [Clients -> [read : Ends, write : Ends]]
      BY <1>0, <2>1 DEF Res!RoutingTypeOK
    <2>4. Res!RoutingTypeOK'
      BY <1>0, <2>3 DEF Res!RoutingTypeOK
    <2>5. ResPlacesOK'
      BY <1>0, <2>1 DEF ResPlacesOK
    <2> QED
      BY <2>4, <2>5, <1>3
  <1>8. CASE Res!ScanLine
    <2> USE <1>8 DEF Res!ScanLine, Res!table, Res!ending
    <2>1. Head(input) \in Lines /\ Tail(input) \in Seq(Lines)
      BY <1>0 DEF LinesOK
    <2>2. Head(input).target \in Ids
      BY <2>1 DEF Lines
    <2>3. Res!RoutingTypeOK'
      BY <1>0, <2>2 DEF Res!RoutingTypeOK
    <2>4. ResPlacesOK'
      BY <1>0, <2>1, <1>1 DEF ResPlacesOK, Res!RoutingTypeOK
    <2> QED
      BY <2>1, <2>3, <2>4, <1>0, <1>2 DEF LinesOK, ManagerTypeOK
  <1>9. CASE ResScanAtEnd
    <2> USE <1>9 DEF ResScanAtEnd, Res!table, Res!ending
    <2>1. resLine' \in Lines /\ resLine'.target \in Ids
      BY <1>0 DEF LeftOver, Lines, ResPlacesOK
    <2>3. Res!RoutingTypeOK'
      BY <1>0, <2>1 DEF Res!RoutingTypeOK
    <2>4. ResPlacesOK'
      BY <1>0, <2>1, <1>1 DEF ResPlacesOK, Res!RoutingTypeOK
    <2> QED
      BY <2>3, <2>4, <1>3
  <1>10. CASE Res!RouteLine
    <2> USE <1>10 DEF Res!RouteLine, Res!table, Res!ending
    <2>1. Res!RoutingTypeOK'
      BY <1>0 DEF Res!RoutingTypeOK
    <2>2. ResPlacesOK'
      BY <1>0, <1>1 DEF ResPlacesOK, Res!RoutingTypeOK
    <2>3. resLine \in Lines /\ ~Full(resOutputFd[resSlot[Reader]])
      BY <1>0, SMTT(30) DEF ResReaderThread, ResPlacesOK
    <2> DEFINE w == resOutputFd[resSlot[Reader]].write
    <2>4. /\ pipe \in [Pipes -> Seq(Lines)]
          /\ w # NoPipe => ~(Len(pipe[w]) >= MaxBuffered)
          /\ w = NoPipe => pipe' = pipe
          /\ w # NoPipe => pipe' = [pipe EXCEPT ![w] = Append(@, resLine)]
      BY <1>0, <2>3 DEF Res!Delivered, Full, LinesOK
    <2>5. \A p \in Pipes : pipe[p] \in Seq(Lines) /\ Len(pipe[p]) \in Nat /\ Len(pipe[p]) <= MaxBuffered
      BY <1>0 DEF LinesOK, ManagerTypeOK
    <2> HIDE DEF w
    <2>6. \A p \in Pipes : pipe'[p] \in Seq(Lines) /\ Len(pipe'[p]) <= MaxBuffered
      <3> SUFFICES ASSUME NEW p \in Pipes
                   PROVE  pipe'[p] \in Seq(Lines) /\ Len(pipe'[p]) <= MaxBuffered
        OBVIOUS
      <3>1. CASE p = w /\ w # NoPipe
        <4>1. pipe'[p] = Append(pipe[p], resLine) /\ ~(Len(pipe[p]) >= MaxBuffered)
          BY <3>1, <2>4
        <4> QED
          BY <4>1, <2>3, <2>5
      <3>2. CASE p # w \/ w = NoPipe
        BY <3>2, <2>4, <2>5
      <3> QED
        BY <3>1, <3>2
    <2>7. pipe' \in [Pipes -> Seq(Lines)]
      BY <2>4, <2>6
    <2> QED
      BY <2>1, <2>2, <2>6, <2>7, <1>0, <1>2 DEF LinesOK
  <1> QED
    BY <1>4, <1>5, <1>6, <1>7, <1>8, <1>9, <1>10
    DEF ResReaderThread, Res!ReaderThread, Res!TryRegisterClient

\* Its pipes are its own, so what it writes to them is nobody's of this proxy.
LEMMA ResRoutes ==
  ASSUME ManagerInv, ResReaderThread
  PROVE  \E owner : /\ ResOwned(owner)'
                    /\ Routes(TRUE, owner)'
                    /\ ~AtEnd' => Routes(FALSE, owner)'
  <1> USE ThreadFacts, SameNames DEF Res!Step
  <1>0. /\ TypeOK /\ LinesOK /\ PlacesOK /\ ResPlacesOK /\ Res!RoutingTypeOK
        /\ UNCHANGED <<pc, slot, fd, outputFd, line, got, emitted, closed>>
        /\ Len(input) \in Nat /\ opened \in Nat
    BY Numbers DEF ManagerInv, ManagerTypeOK, ResReaderThread, plcVars, trainVars, lifeVars, TypeOK, RoutingTypeOK
  <1>1. PICK owner : ResOwned(owner) /\ Routes(TRUE, owner) /\ (~AtEnd => Routes(FALSE, owner))
    BY DEF ManagerInv
  <1>2. owner \in [1 .. opened -> Threads]
    BY <1>1 DEF Routes, Owned
  <1>3. CASE UNCHANGED <<opened, pipe, input>> /\ ResOwned(owner)'
    <2>1. Routes(TRUE, owner)' /\ (~AtEnd => Routes(FALSE, owner)')
      BY <1>0, <1>1, <1>3, SameRoutes
    <2>2. AtEnd' <=> AtEnd
      BY <1>0, <1>3 DEF AtEnd
    <2> QED
      BY <2>1, <2>2, <1>3
  <1>4. CASE Res!TestFinished \/ Res!DropLine \/ Res!CheckSlot(Reader) \/ Res!PipeFails(Reader) \/ ResScanAtEnd
    <2>1. /\ UNCHANGED <<opened, pipe, input, resFd, resOutputFd>>
          /\ resPc'[Reader] # "store"
      BY <1>0, <1>4 DEF Res!TestFinished, Res!DropLine, Res!CheckSlot, Res!PipeFails, ResScanAtEnd,
        Res!table, Res!ending, Res!RoutingTypeOK
    <2>2. ResOwned(owner)'
      BY <1>1, <2>1 DEF ResOwned
    <2> QED
      BY <2>1, <2>2, <1>3
  <1>5. CASE Res!StoreWriteEnd(Reader)
    <2>1. /\ UNCHANGED <<opened, pipe, input, resFd>>
          /\ resPc[Reader] = "store" /\ resPc'[Reader] # "store"
          /\ resOutputFd' = [resOutputFd EXCEPT ![resSlot[Reader]].write = resFd[Reader]]
      BY <1>0, <1>5 DEF Res!StoreWriteEnd, Res!table, Res!ending, Res!RoutingTypeOK
    <2>2. ASSUME NEW c \in Clients
          PROVE  /\ resOutputFd'[c].read = resOutputFd[c].read
                 /\ resOutputFd'[c].write \in {resOutputFd[c].write, resFd[Reader]}
      BY <1>0, <2>1 DEF Res!RoutingTypeOK
    <2>3. ResOwned(owner)'
      BY <1>1, <2>1, <2>2 DEF ResOwned
    <2> QED
      BY <2>1, <2>3, <1>3
  <1>6. CASE Res!OpenPipe(Reader)
    <2> DEFINE n == opened + 1
    <2>1. /\ UNCHANGED <<pipe, input>> /\ opened' = n
          /\ resFd'[Reader] = n
          /\ resOutputFd' = [resOutputFd EXCEPT ![resSlot[Reader]].read = n]
      BY <1>0, <1>6 DEF Res!OpenPipe, Res!table, Res!ending, Res!RoutingTypeOK
    <2>2. /\ n \in Nat /\ n \in 1 .. n /\ n \notin 1 .. opened /\ 1 .. n = (1 .. opened) \cup {n}
          /\ opened <= n
      BY <1>0
    <2>3. PICK next \in [1 .. n -> Threads] :
            \A p \in 1 .. n : next[p] = IF p \in 1 .. opened THEN owner[p] ELSE Main
      <3> DEFINE longer == [p \in 1 .. n |-> IF p \in 1 .. opened THEN owner[p] ELSE Main]
      <3>1. longer \in [1 .. n -> Threads]
        BY <1>2
      <3> QED
        BY <3>1
    <2>4. ASSUME NEW c \in Clients
          PROVE  /\ resOutputFd'[c].write = resOutputFd[c].write
                 /\ resOutputFd'[c].read \in {resOutputFd[c].read, n}
      BY <1>0, <2>1 DEF Res!RoutingTypeOK
    <2> HIDE DEF n
    <2>5. ResOwned(next)'
      <3>1. next[n] = Main /\ \A p \in 1 .. opened : p \in 1 .. n /\ next[p] = owner[p]
        BY <2>2, <2>3
      <3> QED
        BY <1>1, <2>1, <2>2, <2>4, <3>1 DEF ResOwned
    <2>6. ASSUME NEW repeats, Routes(repeats, owner)
          PROVE  Routes(repeats, next)'
      <3>1. \A i \in 1 .. Len(input') : i + 0 \in 1 .. Len(input) /\ input'[i] = input[i + 0]
        BY <1>0, <2>1
      <3> QED
        BY <3>1, <2>1, <2>2, <2>3, <2>6, <1>0, OtherStep
    <2>7. AtEnd' <=> AtEnd
      BY <1>0, <2>1 DEF AtEnd
    <2> QED
      BY <1>1, <2>5, <2>6, <2>7
  <1>7. CASE Res!ScanLine
    <2>1. /\ UNCHANGED <<opened, pipe, resFd, resOutputFd>>
          /\ input # <<>> /\ input' = Tail(input) /\ resPc'[Reader] # "store"
      BY <1>0, <1>7 DEF Res!ScanLine, Res!table, Res!ending, Res!RoutingTypeOK
    <2>2. ResOwned(owner)'
      BY <1>1, <2>1 DEF ResOwned
    <2>3. /\ Len(input') \in Nat
          /\ \A i \in 1 .. Len(input') : i + 1 \in 1 .. Len(input) /\ input'[i] = input[i + 1]
      BY <1>0, <2>1, TailFacts DEF LinesOK
    <2>4. Routes(FALSE, owner)
      BY <1>1, <2>1 DEF AtEnd
    <2>5. ASSUME NEW repeats, Routes(repeats, owner)
          PROVE  Routes(repeats, owner)'
      BY <2>1, <2>3, <2>5, <1>0, <1>2, OtherStep
    <2> QED
      BY <2>2, <2>4, <2>5, WeakenNext
  <1>8. CASE Res!RouteLine
    <2> DEFINE w == resOutputFd[resSlot[Reader]].write
    <2>1. /\ UNCHANGED <<opened, input, resFd, resOutputFd>> /\ resPc'[Reader] # "store"
          /\ \A p \in Pipes : pipe'[p] = pipe[p] \/ (p = w /\ w # NoPipe)
      BY <1>0, <1>8 DEF Res!RouteLine, Res!Delivered, Res!table, Res!ending, Res!RoutingTypeOK, LinesOK
    <2>2. ResOwned(owner)'
      BY <1>1, <2>1 DEF ResOwned
    <2>3. w # NoPipe => w \in 1 .. opened /\ owner[w] = Main
      BY <1>0, <1>1, <1>8 DEF ResOwned, ResPlacesOK, Res!RouteLine
    <2> HIDE DEF w
    <2>4. ASSUME NEW repeats, Routes(repeats, owner)
          PROVE  Routes(repeats, owner)'
      <3>1. \A i \in 1 .. Len(input') : i + 0 \in 1 .. Len(input) /\ input'[i] = input[i + 0]
        BY <1>0, <2>1
      <3>2. \A p \in Pipes : pipe'[p] = pipe[p] \/ (p \in 1 .. opened' /\ owner[p] = Main)
        BY <2>1, <2>3
      <3> QED
        BY <3>1, <3>2, <2>1, <2>4, <1>0, <1>2, OtherStep
    <2>5. AtEnd' <=> AtEnd
      BY <1>0, <2>1 DEF AtEnd
    <2> QED
      BY <1>1, <2>2, <2>4, <2>5
  <1> QED
    BY <1>4, <1>5, <1>6, <1>7, <1>8 DEF ResReaderThread, Res!ReaderThread, Res!TryRegisterClient

-----------------------------------------------------------------------------
\* A step of the manager that leaves both proxies and their input alone.
LEMMA SameManager ==
  ASSUME ManagerInv, LifeOK', AtEnd => AtEnd',
         UNCHANGED vars, UNCHANGED resVars
  PROVE  ManagerInv'
  <1> USE DEF vars, routingVars, table, ending, trainVars, resVars
  <1>1. TypeOK' /\ LinesOK' /\ PlacesOK' /\ ResPlacesOK' /\ Res!RoutingTypeOK'
    BY SameNames DEF ManagerInv, ManagerTypeOK, TypeOK, RoutingTypeOK, Res!RoutingTypeOK,
      LinesOK, PlacesOK, ResPlacesOK
  <1>2. ManagerTypeOK'
    BY <1>1 DEF ManagerInv, ManagerTypeOK, LifeOK
  <1>3. PICK owner : ResOwned(owner) /\ Routes(TRUE, owner) /\ (~AtEnd => Routes(FALSE, owner))
    BY DEF ManagerInv
  <1>4. ResOwned(owner)'
    BY <1>3 DEF ResOwned
  <1>5. Routes(TRUE, owner)' /\ (~AtEnd => Routes(FALSE, owner)')
    BY <1>3, SameRoutes
  <1> QED
    BY <1>1, <1>2, <1>4, <1>5 DEF ManagerInv

\* main's calls on the other proxy: SIGINT may end both.
LEMMA EndResourcesStep ==
  ASSUME ManagerInv, EndResources
  PROVE  ManagerInv'
  <1> USE ThreadFacts, SameNames DEF Res!Step, Res!table, Res!ending
  <1>0. /\ TypeOK /\ LinesOK /\ PlacesOK /\ ResPlacesOK /\ ManagerTypeOK /\ Res!RoutingTypeOK
    BY DEF ManagerInv, ManagerTypeOK
  <1>1. /\ UNCHANGED <<pc, slot, fd, outputFd, opened, pipe, input, line, finished, freed>>
        /\ UNCHANGED <<reads, emitted, got, count>>
        /\ UNCHANGED <<resFd, resSlot, resOutputFd, resLine>>
        /\ UNCHANGED <<at, stop, gone, closed>>
    BY DEF EndResources, Begin, plcVars, trainVars, lifeVars, Res!SetFinished, Res!KillReader, Res!JoinAndFree
  <1>2. /\ resFinished' \in BOOLEAN /\ killed' \in BOOLEAN /\ resFreed' \in BOOLEAN
        /\ resPc'[Reader] = resPc[Reader]
        /\ \E to \in {"kill", "join", "ended"} : resPc' = [resPc EXCEPT ![Main] = to]
    BY <1>0 DEF EndResources, Res!SetFinished, Res!KillReader, Res!JoinAndFree, Res!RoutingTypeOK
  <1>3. Res!RoutingTypeOK'
    BY <1>0, <1>1, <1>2 DEF Res!RoutingTypeOK
  <1>4. TypeOK' /\ LinesOK' /\ PlacesOK' /\ ResPlacesOK'
    BY <1>0, <1>1, <1>2 DEF TypeOK, RoutingTypeOK, LinesOK, PlacesOK, ResPlacesOK
  <1>5. ManagerTypeOK'
    BY <1>0, <1>1, <1>3, <1>4 DEF ManagerTypeOK
  <1>6. PICK owner : ResOwned(owner) /\ Routes(TRUE, owner) /\ (~AtEnd => Routes(FALSE, owner))
    BY DEF ManagerInv
  <1>7. ResOwned(owner)'
    BY <1>1, <1>2, <1>6 DEF ResOwned
  <1>8. Routes(TRUE, owner)' /\ (~AtEnd => Routes(FALSE, owner)') /\ (AtEnd' <=> AtEnd)
    BY <1>1, <1>6, SameRoutes DEF AtEnd
  <1> QED
    BY <1>4, <1>5, <1>7, <1>8 DEF ManagerInv

\* The train's thread, with the PLC proxy.
LEMMA TrainStep ==
  ASSUME ManagerInv, trainThread
  PROVE  ManagerInv'
  <1>0. /\ UNCHANGED resVars /\ LifeOK' /\ closed' = closed /\ TypeOK /\ train \in Ids
    BY ThreadFacts DEF ManagerInv, ManagerTypeOK, LifeOK, trainThread, TestStop, Send, CallRead, ContinueRead,
      EndRead, ReadClosedPipe, UseFreedProxy, Sleep, Goes
  <1>1. CASE UNCHANGED vars
    <2>1. AtEnd => AtEnd'
      BY <1>0, <1>1 DEF AtEnd, vars, routingVars
    <2> QED
      BY <2>1, <1>0, <1>1, SameManager
  <1>2. CASE Train(train)
    <2>1. input' = input /\ pc'[Reader] = pc[Reader]
      BY <1>0, <1>2, StepMoves, ThreadFacts DEF Train, readMessagePlcProxy, plcProxyTryRegisterClient,
        TryRegisterClient, CheckSlot, OpenPipe, StoreWriteEnd, PipeFails, ReturnNull,
        ReadMessage, StartRead, ReturnMessage, FinishRead
    <2>2. AtEnd => AtEnd'
      BY <1>0, <2>1 DEF AtEnd
    <2>3. Next
      BY <1>0, <1>2 DEF Next
    <2> QED
      BY <2>1, <2>2, <2>3, <1>0, PlcPartStep
  <1>3. CASE ReadClosedPipe
    <2> USE DEF ReadClosedPipe, table, trainVars, ending
    <2>0. LinesOK /\ PlacesOK /\ ManagerTypeOK /\ ResPlacesOK
      BY DEF ManagerInv
    <2>1. /\ pc' = [pc EXCEPT ![train] = "idle"] /\ pc[train] = "blocked"
          /\ \A u \in Threads : u # train => pc'[u] = pc[u]
          /\ pc'[train] = "idle"
      BY <1>0, <1>3, StepMoves, ThreadFacts DEF Step
    <2>2. /\ UNCHANGED <<slot, fd, outputFd, opened, pipe, input, line, got, emitted>>
          /\ UNCHANGED <<finished, killed, freed, reads, count>>
      BY <1>3
    <2>3. TypeOK'
      BY <1>0, <2>1, <2>2 DEF TypeOK, RoutingTypeOK
    <2>4. LinesOK' /\ PlacesOK' /\ ResPlacesOK'
      BY <1>0, <2>0, <2>1, <2>2, ThreadFacts DEF LinesOK, PlacesOK, ResPlacesOK, resVars, TypeOK
    <2>5. Res!RoutingTypeOK'
      BY <1>0, <2>0, <2>2, SameNames DEF ManagerTypeOK, Res!RoutingTypeOK, resVars
    <2>6. ManagerTypeOK'
      BY <1>0, <2>0, <2>2, <2>3, <2>5 DEF ManagerTypeOK, LifeOK
    <2>7. PICK owner : ResOwned(owner) /\ Routes(TRUE, owner) /\ (~AtEnd => Routes(FALSE, owner))
      BY DEF ManagerInv
    <2>8. ResOwned(owner)'
      BY <1>0, <2>2, <2>7 DEF ResOwned, resVars
    <2>9. ASSUME NEW repeats, Routes(repeats, owner) PROVE Routes(repeats, owner)'
      <3>1. /\ \A c \in Ids : pc[c] \in {"store", "registered"} => outputFd[c].read # NoPipe
            /\ pc[Reader] = "registered" => outputFd[slot[Reader]].read # NoPipe
        BY <2>0, <2>9 DEF Routes, Registered, PlacesOK
      <3> QED
        BY <1>0, <2>1, <2>2, <2>9, <3>1, QuietStep, ThreadFacts DEF Holds, Registers
    <2>10. AtEnd' <=> AtEnd
      BY <1>0, <2>2 DEF AtEnd
    <2> QED
      BY <2>4, <2>6, <2>7, <2>8, <2>9, <2>10 DEF ManagerInv
  <1> QED
    BY <1>1, <1>2, <1>3 DEF trainThread, TestStop, Send, CallRead, ContinueRead, EndRead, UseFreedProxy,
      Sleep, Train

\* The PLC proxy's reader thread, before the end of the input and at it.
LEMMA PlcReaderStep ==
  ASSUME ManagerInv, PlcReaderThread
  PROVE  ManagerInv'
  <1>0. /\ UNCHANGED resVars /\ LifeOK' /\ closed' = closed
        /\ TypeOK /\ LinesOK /\ PlacesOK /\ ManagerTypeOK /\ ResPlacesOK
    BY DEF ManagerInv, ManagerTypeOK, LifeOK, PlcReaderThread, lifeVars
  <1>1. CASE plcProxyMsgReceiverThread
    <2>1. AtEnd => input' = input
      BY <1>1 DEF AtEnd, plcProxyMsgReceiverThread, ReaderThread, TestFinished, ScanLine, DropLine,
        RouteLine, TryRegisterClient, CheckSlot, OpenPipe, StoreWriteEnd, PipeFails
    <2>2. AtEnd => AtEnd'
      BY <1>0, <2>1 DEF AtEnd
    <2>3. Next
      BY <1>1 DEF Next
    <2>4. ~(pc[Reader] = "registered" /\ Full(outputFd[slot[Reader]]))
      BY DEF PlcReaderThread
    <2> QED
      BY <2>2, <2>3, <2>4, <1>0, PlcPartStep
  <1>2. CASE ScanAtEnd
    <2>1. PICK owner : ResOwned(owner) /\ Routes(TRUE, owner)
      BY DEF ManagerInv
    <2>2. Routes(TRUE, owner)' /\ TypeOK' /\ LinesOK' /\ PlacesOK'
      BY <1>0, <1>2, <2>1, ScanAtEndStep
    <2>3. AtEnd' /\ UNCHANGED <<opened, pipe, killed>>
      BY <1>0, <1>2 DEF AtEnd, ScanAtEnd, table, ending
    <2>4. ResOwned(owner)' /\ ResPlacesOK'
      BY <1>0, <2>1, <2>3 DEF ResOwned, ResPlacesOK, resVars
    <2>5. Res!RoutingTypeOK'
      BY <1>0, <2>3, SameNames DEF ManagerTypeOK, Res!RoutingTypeOK, resVars
    <2>6. ManagerTypeOK'
      BY <1>0, <2>2, <2>3, <2>5 DEF ManagerTypeOK, LifeOK
    <2> QED
      BY <2>2, <2>3, <2>4, <2>6 DEF ManagerInv
  <1> QED
    BY <1>1, <1>2 DEF PlcReaderThread

\* main's calls on the PLC proxy are steps of the proxy.
LEMMA EndPlcStep ==
  ASSUME ManagerInv, EndPlc
  PROVE  ManagerInv'
  <1>1. /\ UNCHANGED resVars /\ LifeOK' /\ closed' = closed /\ TypeOK
        /\ endPlcProxy /\ input' = input
    BY DEF ManagerInv, ManagerTypeOK, LifeOK, EndPlc, Begin, lifeVars, endPlcProxy, EndProxy,
      SetFinished, KillReader, JoinAndFree
  <1>2. pc'[Reader] = pc[Reader]
    BY <1>1, StepMoves, ThreadFacts DEF endPlcProxy, EndProxy, SetFinished, KillReader, JoinAndFree
  <1>3. Next /\ (AtEnd => AtEnd')
    BY <1>1 DEF Next, AtEnd
  <1> QED
    BY <1>1, <1>2, <1>3, PlcPartStep

\* So are the messages that come before the input ends.
LEMMA PeerStep ==
  ASSUME ManagerInv, NEW c \in Ids, PeerWrites(c)
  PROVE  ManagerInv'
  <1>1. /\ UNCHANGED resVars /\ LifeOK' /\ ~AtEnd /\ pc' = pc /\ Emit(c)
    BY DEF ManagerInv, ManagerTypeOK, LifeOK, PeerWrites, lifeVars, AtEnd, Emit
  <1>2. Next
    BY <1>1 DEF Next
  <1> QED
    BY <1>1, <1>2, PlcPartStep

\* Every step of the manager keeps the invariant.
LEMMA ManagerStep ==
  ASSUME ManagerInv, [ManagerNext]_managerVars
  PROVE  ManagerInv'
  <1>1. CASE ResReaderThread
    BY <1>1, ResTypes, ResRoutes DEF ManagerInv
  <1>2. CASE endTrain \/ PeerCloses \/ UNCHANGED managerVars
    <2>1. /\ UNCHANGED vars /\ UNCHANGED resVars /\ LifeOK' /\ (AtEnd => AtEnd')
      BY <1>2 DEF ManagerInv, ManagerTypeOK, LifeOK, endTrain, StopTrain, JoinTrain, Begin, PeerCloses,
        managerVars, lifeVars, AtEnd, vars, routingVars
    <2> QED
      BY <2>1, SameManager
  <1> QED
    BY <1>1, <1>2, TrainStep, PlcReaderStep, EndResourcesStep, EndPlcStep, PeerStep
    DEF ManagerNext, main

\* No proxy has a pipe at the start.
LEMMA ManagerStart ==
  ManagerInit => ManagerInv
  <1> SUFFICES ASSUME ManagerInit PROVE ManagerInv
    OBVIOUS
  <1>1. IInv
    BY ProxyInit DEF ManagerInit
  <1> USE ThreadFacts, SameNames DEF ManagerInit, Init, RoutingInit, Res!RoutingInit
  <1>2. Res!RoutingTypeOK
    <2>1. /\ resSlot \in [Threads -> Threads]
          /\ resFd \in [Threads -> Ends]
          /\ resOutputFd \in [Clients -> [read : Ends, write : Ends]]
      BY DEF Ends
    <2>2. resPc \in [Threads -> {"loop", "idle"}]
      OBVIOUS
    <2>3. opened \in 0 .. MaxPipes
      OBVIOUS
    <2> QED
      BY <2>1, <2>2, <2>3 DEF Res!RoutingTypeOK
  <1>3. ManagerTypeOK
    <2>1. \A p \in Pipes : Len(pipe[p]) <= MaxBuffered
      OBVIOUS
    <2> QED
      BY <1>1, <1>2, <2>1 DEF ManagerTypeOK, IInv
  <1>4. ResPlacesOK
    BY DEF ResPlacesOK
  <1>5. PICK owner : Routes(FALSE, owner)
    BY <1>1 DEF IInv
  <1>6. ResOwned(owner)
    BY DEF ResOwned
  <1> QED
    BY <1>1, <1>3, <1>4, <1>5, <1>6, Weaken DEF IInv, ManagerInv

\* Two proxies in one process keep apart: each pipe belongs to a client of one of
\* them, and the messages on the way to the train come in their order, but for the
\* last line that is repeated at the end of the input.
THEOREM ManagerInvariance == ManagerSpec => []ManagerInv
  <1>1. ManagerInv /\ [ManagerNext]_managerVars => ManagerInv'
    BY ManagerStep
  <1> QED
    BY ManagerStart, <1>1, PTL DEF ManagerSpec

\* The variables of the train manager keep their types, and no pipe holds more
\* than write() puts in one.
THEOREM ManagerTypeCorrect == ManagerSpec => []ManagerTypeOK
  <1>1. ManagerInv => ManagerTypeOK
    BY DEF ManagerInv
  <1> QED
    BY ManagerInvariance, <1>1, PTL

\* Only a train's read counts a message, and it is a step of the PLC proxy's.
LEMMA CountSteps ==
  ASSUME [ManagerNext]_managerVars
  PROVE  Next \/ count' = count
  <1> USE DEF trainVars, vars, plcVars
  <1>1. CASE trainThread
    BY <1>1, ThreadFacts DEF trainThread, TestStop, Send, CallRead, ContinueRead, EndRead, ReadClosedPipe,
      UseFreedProxy, Sleep, Next, Train
  <1>2. CASE PlcReaderThread
    BY <1>2 DEF PlcReaderThread, plcProxyMsgReceiverThread, ScanAtEnd
  <1>3. CASE ResReaderThread \/ PeerCloses \/ UNCHANGED managerVars
    BY <1>3 DEF ResReaderThread, PeerCloses, managerVars
  <1>4. CASE main
    BY <1>4 DEF main, EndResources, EndPlc, endTrain, StopTrain, JoinTrain
  <1>5. CASE \E c \in Ids : PeerWrites(c)
    BY <1>5 DEF PeerWrites, Emit
  <1> QED
    BY <1>1, <1>2, <1>3, <1>4, <1>5 DEF ManagerNext

\* What the train reads is for it and newer than what it read before, until the
\* input has ended: then it may be the line the reader scanned last, again.
THEOREM RepeatsOnlyLast == ManagerSpec => RepeatsOnlyLastLine
  <1>1. ASSUME ManagerInv, [ManagerNext]_managerVars
        PROVE  [count'[train] # count[train] =>
                  \/ /\ got'[train].target = train
                     /\ got'[train].about > (IF got[train] = NoLine THEN 0 ELSE got[train].about)
                  \/ AtEnd /\ got'[train] = line]_managerVars
    <2>1. PICK owner : Routes(TRUE, owner) /\ (~AtEnd => Routes(FALSE, owner))
      BY <1>1 DEF ManagerInv
    <2>2. TypeOK /\ LinesOK /\ PlacesOK
      BY <1>1 DEF ManagerInv, ManagerTypeOK
    <2>3. ASSUME Next, count'[train] # count[train]
          PROVE  got'[train].target = train /\ Newer(AtEnd, got'[train], Last(train))
      <3>1. CASE AtEnd
        BY <2>1, <2>2, <2>3, <3>1, ProxyStep DEF AtEnd, Newer
      <3>2. CASE ~AtEnd
        BY <2>1, <2>2, <2>3, <3>2, ProxyStep DEF Newer
      <3> QED
        BY <3>1, <3>2
    <2> QED
      BY <1>1, <2>3, CountSteps DEF Newer, Last
  <1> QED
    BY ManagerInvariance, <1>1, PTL DEF ManagerSpec, RepeatsOnlyLastLine

-----------------------------------------------------------------------------
(* The end of the three, one call after the other.                         *)

\* A call that ends something begins once, when the calls before it returned: so
\* the train is gone before the proxy's end begins, and its thread with it.
OrderOK ==
  /\ order \in Seq(Calls)
  /\ \A i, j \in 1 .. Len(order) : i # j => order[i] # order[j]
  /\ \A i \in 1 .. Len(order) : i < Len(order) /\ order[i] = "train" => gone
  /\ gone => at = "exited"

\* A step of anyone else than main does not touch what the order speaks of, or
\* moves the train's thread, which never leaves "exited".
LEMMA OthersStep ==
  ASSUME OrderOK, UNCHANGED <<gone, order>>, at = "exited" => at' = "exited"
  PROVE  OrderOK'
  BY DEF OrderOK

\* A call begins when the ones before it have returned.
LEMMA BeginStep ==
  ASSUME OrderOK, NEW call \in Calls, Begin(call)
  PROVE  OrderOK'
  <1>1. order' = Append(order, call) /\ gone' = gone /\ at' = at
    BY DEF Begin
  <1>2. Len(order') = Len(order) + 1 /\ order'[Len(order')] = call /\ order' \in Seq(Calls)
    BY <1>1 DEF OrderOK
  <1>3. \A i \in 1 .. Len(order) : order'[i] = order[i]
    BY <1>1 DEF OrderOK
  <1>4. \A i \in 1 .. Len(order) : order[i] # call
    BY DEF Begin, Begun
  <1>5. ASSUME NEW i \in 1 .. Len(order), order[i] = "train" PROVE gone
    BY <1>5 DEF Begin, Begun, Returned, Calls
  <1>6. Len(order) \in Nat
    BY DEF OrderOK
  <1>7. \A i, j \in 1 .. Len(order') : i # j => order'[i] # order'[j]
    BY <1>2, <1>3, <1>4, <1>6 DEF OrderOK
  <1>8. \A i \in 1 .. Len(order') : i < Len(order') /\ order'[i] = "train" => gone'
    BY <1>1, <1>2, <1>3, <1>5, <1>6
  <1> QED
    BY <1>1, <1>2, <1>7, <1>8 DEF OrderOK

\* The train's thread never leaves its end.
LEMMA ThreadStep ==
  ASSUME OrderOK, trainThread
  PROVE  OrderOK'
  <1>1. UNCHANGED <<gone, order>> /\ at # "exited"
    BY DEF trainThread, TestStop, Send, CallRead, ContinueRead, EndRead,
      ReadClosedPipe, UseFreedProxy, UsesProxy, Sleep, Goes
  <1> QED
    BY <1>1, OthersStep

\* The train is freed by a call that saw its thread at its end.
LEMMA MainStep ==
  ASSUME OrderOK, main
  PROVE  OrderOK'
  <1>1. CASE EndResources
    <2>1. CASE Begin("resources")
      BY <2>1, BeginStep DEF Calls
    <2>2. CASE UNCHANGED lifeVars
      BY <2>2, OthersStep DEF lifeVars
    <2> QED
      BY <1>1, <2>1, <2>2 DEF EndResources
  <1>2. CASE EndPlc
    <2>1. CASE Begin("plc")
      BY <2>1, BeginStep DEF Calls
    <2>2. CASE UNCHANGED lifeVars
      BY <2>2, OthersStep DEF lifeVars
    <2> QED
      BY <1>2, <2>1, <2>2 DEF EndPlc
  <1>3. CASE StopTrain
    BY <1>3, BeginStep DEF StopTrain, Calls
  <1>4. CASE JoinTrain
    BY <1>4 DEF JoinTrain, OrderOK
  <1> QED
    BY <1>1, <1>2, <1>3, <1>4 DEF main, endTrain

\* Every step of the manager keeps the order of the calls.
LEMMA OrderStep ==
  ASSUME OrderOK, [ManagerNext]_managerVars
  PROVE  OrderOK'
  <1>1. CASE PlcReaderThread \/ ResReaderThread
    BY <1>1, OthersStep DEF PlcReaderThread, ResReaderThread, lifeVars
  <1>2. CASE PeerCloses
    BY <1>2, OthersStep DEF PeerCloses
  <1>3. ASSUME NEW c \in Ids, PeerWrites(c) PROVE OrderOK'
    BY <1>3, OthersStep DEF PeerWrites, lifeVars
  <1>4. CASE UNCHANGED managerVars
    BY <1>4, OthersStep DEF managerVars, lifeVars
  <1> QED
    BY <1>1, <1>2, <1>3, <1>4, ThreadStep, MainStep DEF ManagerNext

\* The ends begin one after the other, and a freed train has no thread.
THEOREM OrderHolds == ManagerSpec => []OrderOK
  <1>1. ManagerInit => OrderOK
    BY DEF ManagerInit, OrderOK, Calls
  <1>2. OrderOK /\ [ManagerNext]_managerVars => OrderOK'
    BY OrderStep
  <1> QED
    BY <1>1, <1>2, PTL DEF ManagerSpec

\* A train that is ended first is freed after its thread, which never uses a
\* freed proxy.
THEOREM TrainFirst == ManagerSpec => []TrainFirstIsSafe
  <1>1. OrderOK => TrainFirstIsSafe
    <2>1. SUFFICES ASSUME OrderOK, NEW i \in 1 .. Len(order), NEW j \in 1 .. Len(order),
                          i < j, order[i] = "train"
                   PROVE  gone
      BY DEF TrainFirstIsSafe, Precedes, OrderOK
    <2>2. Len(order) \in Nat
      BY DEF OrderOK
    <2> QED
      BY <2>1, <2>2 DEF OrderOK
  <1> QED
    BY OrderHolds, <1>1, PTL

=============================================================================
