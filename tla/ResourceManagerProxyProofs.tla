--------------------- MODULE ResourceManagerProxyProofs ---------------------
(***************************************************************************)
(* Each call gets the answer to its own request, through a pipe that is    *)
(* the client's alone, for any clients, any answers and any bounds.        *)
(***************************************************************************)
EXTENDS ResourceManagerProxy, SequenceTheorems, TLAPS

USE RoutingAssumption, CallsAssumption

LinesOK ==
  /\ input \in Seq(Lines)
  /\ line \in Lines \cup {NoLine}
  /\ pipe \in [Pipes -> Seq(Lines)]
  /\ got \in [Ids -> Lines \cup {NoLine}]

\* Where the threads are.  The reader never has to register anybody: a client is
\* registered before it asks, and nobody is answered who did not ask.
PlacesOK ==
  /\ \A c \in Clients :
       pc[c] \in {"idle", "check", "open", "store", "registered", "failed", "read", "blocked"}
  /\ \A c \in Strangers : pc[c] \in {"idle", "check", "failed"}
  /\ \A c \in Ids : slot[c] = c /\ (pc[c] # "idle" => calls[c] >= 1)
  /\ pc[Main] \in {"idle", "kill", "join", "ended"}
  /\ pc[Reader] \in {"loop", "scan", "check", "registered", "failed", "exited"}
  /\ pc[Reader] \in {"check", "registered", "failed"} =>
       line \in Lines /\ slot[Reader] = line.target
  /\ pc[Reader] = "failed" => slot[Reader] \notin Clients
  /\ pc[Reader] = "registered" => slot[Reader] \in Clients

\* The table has both ends of a client's pipe, or none, but for the moment in
\* which the client stores them.
EndsOK ==
  \A c \in Clients :
    /\ pc[c] = "store" => outputFd[c].read = fd[c] /\ fd[c] # NoPipe
    /\ pc[c] # "store" => outputFd[c].read = outputFd[c].write
    /\ pc[c] = "open" => outputFd[c].read = NoPipe
    /\ pc[c] \in {"registered", "read", "blocked"} => outputFd[c].read # NoPipe
    /\ pc[c] = "blocked" => fd[c] = outputFd[c].read
    /\ outputFd[c].read # NoPipe => outputFd[c].read \in 1 .. opened

\* A pipe has one client, and nothing is in a pipe before it is opened.
PipesOK ==
  /\ \A c, d \in Clients :
       c # d /\ outputFd[c].read # NoPipe => outputFd[c].read # outputFd[d].read
  /\ \A p \in Pipes : p > opened => pipe[p] = <<>>

\* Where the answer of client c can be: to be given, typed, scanned, or in its pipe.
InAsked(c)  == \E call \in asked : call.target = c
InInput(c)  == \E i \in 1 .. Len(input) : input[i].target = c
AtReader(c) == pc[Reader] \in {"check", "registered", "failed"} /\ slot[Reader] = c
InPipe(c)   == outputFd[c].read # NoPipe /\ pipe[outputFd[c].read] # <<>>

\* It is in at most one of these places, there once, and only while c waits.
OneAnswer(c) ==
  /\ InAsked(c) => ~InInput(c) /\ ~AtReader(c) /\ ~InPipe(c)
  /\ InInput(c) => ~AtReader(c) /\ ~InPipe(c)
  /\ AtReader(c) => ~InPipe(c)
  /\ \A i, j \in 1 .. Len(input) : input[i].target = c /\ input[j].target = c => i = j
  /\ InPipe(c) => Len(pipe[outputFd[c].read]) = 1
  /\ InAsked(c) \/ InInput(c) \/ AtReader(c) \/ InPipe(c) => pc[c] \in {"read", "blocked"}

\* It is the answer to the call that c is in.
RightAnswer(c) ==
  /\ \A call \in asked : call.target = c => call.about = calls[c]
  /\ \A i \in 1 .. Len(input) : input[i].target = c => input[i].about = calls[c]
  /\ AtReader(c) => line.about = calls[c]
  /\ InPipe(c) => LET message == Head(pipe[outputFd[c].read])
                  IN  message.target = c /\ message.about = calls[c]

IInv ==
  /\ TypeOK
  /\ LinesOK
  /\ PlacesOK
  /\ EndsOK
  /\ PipesOK
  /\ \A c \in Clients : OneAnswer(c) /\ RightAnswer(c)
  /\ AnswersItsRequest
-----------------------------------------------------------------------------

\* What can be said of the threads without looking at a state.
LEMMA ThreadFacts ==
  /\ Clients \subseteq Ids /\ Strangers \subseteq Ids /\ Ids \subseteq Threads
  /\ Reader \in Threads /\ Main \in Threads /\ Reader # Main
  /\ Reader \notin Ids /\ Main \notin Ids
  /\ \A c \in Clients : c \notin Strangers
  BY DEF Ids, Threads

LEMMA InitHolds == Init => IInv
  <1> SUFFICES ASSUME Init PROVE IInv
    OBVIOUS
  <1> USE DEF Init, RoutingInit, table, ending
  <1>1. TypeOK
    <2>1. RoutingTypeOK
      <3>1. /\ slot \in [Threads -> Threads]
            /\ fd \in [Threads -> Ends]
            /\ outputFd \in [Clients -> [read : Ends, write : Ends]]
        BY DEF Ends
      <3>2. \A th \in Threads : pc[th] \in {"loop", "idle"}
        OBVIOUS
      <3>3. opened \in 0 .. MaxPipes
        OBVIOUS
      <3> QED
        BY <3>1, <3>2, <3>3 DEF RoutingTypeOK
    <2> QED
      BY <2>1 DEF TypeOK
  <1>2. LinesOK
    BY DEF LinesOK
  <1>3. PlacesOK
    BY ThreadFacts DEF PlacesOK
  <1>4. EndsOK
    BY ThreadFacts DEF EndsOK
  <1>5. PipesOK
    BY DEF PipesOK
  <1>6. ASSUME NEW c \in Clients PROVE OneAnswer(c) /\ RightAnswer(c)
    <2>1. ~InAsked(c) /\ ~InInput(c) /\ ~AtReader(c) /\ ~InPipe(c) /\ Len(input) = 0
      BY ThreadFacts DEF InAsked, InInput, AtReader, InPipe
    <2> QED
      BY <2>1 DEF OneAnswer, RightAnswer
  <1>7. AnswersItsRequest
    BY DEF AnswersItsRequest
  <1> QED
    BY <1>1, <1>2, <1>3, <1>4, <1>5, <1>6, <1>7 DEF IInv

\* The step of a thread moves it, and no other.
LEMMA StepMoves ==
  ASSUME TypeOK, NEW th \in Threads, NEW from, NEW to, Step(th, from, to)
  PROVE  /\ pc[th] = from /\ pc'[th] = to
         /\ \A u \in Threads : u # th => pc'[u] = pc[u]
         /\ DOMAIN pc' = Threads
  BY DEF Step, TypeOK, RoutingTypeOK

LEMMA TypeStep == IInv /\ [Next]_vars => TypeOK' /\ LinesOK'
  <1> SUFFICES ASSUME IInv, [Next]_vars PROVE TypeOK' /\ LinesOK'
    OBVIOUS
  <1> USE ThreadFacts DEF IInv, TypeOK, RoutingTypeOK, LinesOK, Step, table, ending, clientVars
  <1>1. ASSUME NEW th \in Threads, TryRegisterClient(th), UNCHANGED clientVars
        PROVE  TypeOK' /\ LinesOK'
    <2>1. CASE CheckSlot(th)
      BY <1>1, <2>1 DEF CheckSlot
    <2>2. CASE OpenPipe(th)
      <3>1. slot[th] \in Clients
        BY <2>2, ZenonT(40) DEF OpenPipe, PlacesOK, Ids, Threads
      <3>2. opened + 1 \in Ends /\ opened' \in 0 .. MaxPipes
        BY <2>2 DEF OpenPipe, Ends, Pipes
      <3>3. outputFd' \in [Clients -> [read : Ends, write : Ends]]
        BY <2>2, <3>1, <3>2, ZenonT(40) DEF OpenPipe
      <3> QED
        BY <1>1, <2>2, <3>2, <3>3 DEF OpenPipe
    <2>3. CASE StoreWriteEnd(th)
      BY <1>1, <2>3, ZenonT(40) DEF StoreWriteEnd
    <2>4. CASE PipeFails(th)
      BY <1>1, <2>4 DEF PipeFails
    <2> QED
      BY <1>1, <2>1, <2>2, <2>3, <2>4 DEF TryRegisterClient
  <1>2. ASSUME NEW c \in Ids, Call(c) PROVE TypeOK' /\ LinesOK'
    BY <1>2 DEF Call
  <1>3. ASSUME NEW c \in Ids, ReturnFailure(c) PROVE TypeOK' /\ LinesOK'
    BY <1>3 DEF ReturnFailure
  <1>4. ASSUME NEW c \in Ids, PrintRequest(c) PROVE TypeOK' /\ LinesOK'
    <2>1. c \in Clients /\ calls[c] \in 1 .. MaxCalls
      BY <1>4 DEF PrintRequest, PlacesOK, Ids
    <2> QED
      BY <1>4, <2>1 DEF PrintRequest
  <1>5. ASSUME NEW c \in Ids, ReadAnswer(c) PROVE TypeOK' /\ LinesOK'
    BY <1>5 DEF ReadAnswer, StartRead, PlacesOK, Ids
  <1>6. ASSUME NEW c \in Ids, ReturnAnswer(c) PROVE TypeOK' /\ LinesOK'
    <2>1. c \in Clients /\ pc[c] = "blocked"
      BY <1>6 DEF ReturnAnswer, PlacesOK, Ids
    <2>2. fd[c] \in 1 .. opened
      BY <2>1 DEF EndsOK
    <2>3. fd[c] \in Pipes
      BY <2>2 DEF Pipes
    <2>4. Head(pipe[fd[c]]) \in Lines /\ Tail(pipe[fd[c]]) \in Seq(Lines)
      BY <1>6, <2>3 DEF ReturnAnswer, FinishRead
    <2> QED
      BY <1>6, <2>1, <2>3, <2>4 DEF ReturnAnswer, FinishRead
  <1>7. CASE resManagerMsgReceiverThread
    <2>1. CASE TestFinished
      BY <1>7, <2>1 DEF resManagerMsgReceiverThread, TestFinished
    <2>2. CASE ScanLine
      <3>1. Head(input) \in Lines /\ Tail(input) \in Seq(Lines)
        BY <2>2 DEF ScanLine
      <3>2. Head(input).target \in Threads
        BY <3>1 DEF Lines
      <3> QED
        BY <1>7, <2>2, <3>1, <3>2 DEF resManagerMsgReceiverThread, ScanLine
    <2>3. CASE DropLine
      BY <1>7, <2>3 DEF resManagerMsgReceiverThread, DropLine
    <2>4. CASE RouteLine
      <3>1. line \in Lines
        BY <2>4 DEF RouteLine, PlacesOK
      <3>2. pipe' \in [Pipes -> Seq(Lines)]
        <4>1. outputFd[slot[Reader]].write \in Ends
          BY <2>4 DEF RouteLine, PlacesOK
        <4> QED
          BY <2>4, <3>1, <4>1 DEF RouteLine, Delivered, Ends
      <3> QED
        BY <1>7, <2>4, <3>2 DEF resManagerMsgReceiverThread, RouteLine
    <2> QED
      BY <1>1, <1>7, <2>1, <2>2, <2>3, <2>4 DEF resManagerMsgReceiverThread, ReaderThread
  <1>8. CASE endResourceManagerProxy
    BY <1>8 DEF endResourceManagerProxy, EndProxy, SetFinished, KillReader, JoinAndFree
  <1>9. CASE AnswerCall
    <2>1. PICK call \in asked, answer \in Answers :
            /\ input' = Append(input, [target |-> call.target, about |-> call.about,
                                      answer |-> answer])
            /\ asked' = asked \ {call}
            /\ UNCHANGED <<pc, slot, fd, table, line, ending, calls, got, returned>>
      BY <1>9 DEF AnswerCall
    <2>2. call \in [target : Clients, about : 1 .. MaxCalls]
      OBVIOUS
    <2>3. [target |-> call.target, about |-> call.about, answer |-> answer] \in Lines
      BY <2>2 DEF Lines
    <2> QED
      BY <2>1, <2>3
  <1>10. CASE NameAStranger
    <2>1. ASSUME NEW t \in Strangers
          PROVE  [target |-> t, about |-> 0, answer |-> "GRANTED"] \in Lines
      BY DEF Lines
    <2> QED
      BY <1>10, <2>1 DEF NameAStranger
  <1>11. CASE UNCHANGED vars
    BY <1>11 DEF vars, routingVars
  <1> QED
    BY <1>1, <1>2, <1>3, <1>4, <1>5, <1>6, <1>7, <1>8, <1>9, <1>10, <1>11
       DEF Next, Client, resManagerTryRegisterClient

\* A client that the reader has a line for is registered: it waits for it.
LEMMA ReaderMeetsRegistered ==
  ASSUME IInv, pc[Reader] = "check", slot[Reader] \in Clients
  PROVE  outputFd[slot[Reader]].read # NoPipe
  BY DEF IInv, OneAnswer, AtReader, EndsOK

\* The reader opens no pipe and stores no end.
LEMMA ReaderChecks ==
  ASSUME IInv, TryRegisterClient(Reader)
  PROVE  CheckSlot(Reader)
  BY DEF IInv, PlacesOK, TryRegisterClient, OpenPipe, StoreWriteEnd, PipeFails, Step

\* A client registers itself.
LEMMA ClientRegisters ==
  ASSUME IInv, NEW c \in Ids, OpenPipe(c) \/ StoreWriteEnd(c) \/ PipeFails(c)
  PROVE  c \in Clients /\ slot[c] = c
  BY DEF IInv, PlacesOK, OpenPipe, StoreWriteEnd, PipeFails, Step, Ids

LEMMA PlacesStep == IInv /\ [Next]_vars => PlacesOK'
  <1> SUFFICES ASSUME IInv, [Next]_vars PROVE PlacesOK'
    OBVIOUS
  <1> USE ThreadFacts DEF table, ending, clientVars
  <1>1. PlacesOK /\ TypeOK /\ LinesOK
    BY DEF IInv
  <1>2. ASSUME NEW c \in Ids, Client(c) PROVE PlacesOK'
    <2>1. /\ UNCHANGED <<slot, line>>
          /\ pc'[Reader] = pc[Reader] /\ pc'[Main] = pc[Main]
          /\ \A d \in Ids : d # c => pc'[d] = pc[d] /\ calls'[d] = calls[d]
      BY <1>1, <1>2 DEF Client, Call, resManagerTryRegisterClient, TryRegisterClient, CheckSlot,
        OpenPipe, StoreWriteEnd, PipeFails, ReturnFailure, PrintRequest, ReadAnswer,
        StartRead, ReturnAnswer, FinishRead, Step, TypeOK, RoutingTypeOK
    <2>2. c \in Clients =>
            pc'[c] \in {"idle", "check", "open", "store", "registered", "failed", "read", "blocked"}
      BY <1>1, <1>2 DEF Client, Call, resManagerTryRegisterClient, TryRegisterClient, CheckSlot,
        OpenPipe, StoreWriteEnd, PipeFails, ReturnFailure, PrintRequest, ReadAnswer,
        ReturnAnswer, Step, TypeOK, RoutingTypeOK
    <2>3. c \in Strangers => pc'[c] \in {"idle", "check", "failed"}
      BY <1>1, <1>2 DEF Client, Call, resManagerTryRegisterClient, TryRegisterClient, CheckSlot,
        OpenPipe, StoreWriteEnd, PipeFails, ReturnFailure, PrintRequest, ReadAnswer,
        ReturnAnswer, Step, TypeOK, RoutingTypeOK, PlacesOK
    <2>4. pc'[c] # "idle" => calls'[c] >= 1
      <3>1. calls[c] \in Nat
        BY <1>1 DEF TypeOK
      <3> QED
        BY <1>1, <1>2, <3>1 DEF Client, Call, resManagerTryRegisterClient, TryRegisterClient,
          CheckSlot, OpenPipe, StoreWriteEnd, PipeFails, ReturnFailure, PrintRequest, ReadAnswer,
          ReturnAnswer, Step, TypeOK, RoutingTypeOK, PlacesOK
    <2> QED
      BY <1>1, <2>1, <2>2, <2>3, <2>4 DEF PlacesOK, Ids
  <1>3. CASE resManagerMsgReceiverThread
    <2>1. /\ UNCHANGED calls
          /\ \A th \in Threads : th # Reader => pc'[th] = pc[th] /\ slot'[th] = slot[th]
      BY <1>1, <1>3 DEF resManagerMsgReceiverThread, ReaderThread, TestFinished, ScanLine,
        TryRegisterClient, CheckSlot, OpenPipe, StoreWriteEnd, PipeFails, DropLine, RouteLine,
        Step, TypeOK, RoutingTypeOK
    <2>2. CASE ScanLine
      <3>1. Head(input) \in Lines
        BY <1>1, <2>2 DEF ScanLine, LinesOK
      <3> QED
        BY <1>1, <2>1, <2>2, <3>1 DEF ScanLine, Step, PlacesOK, TypeOK, RoutingTypeOK
    <2>3. CASE CheckSlot(Reader)
      BY <1>1, <2>1, <2>3, ReaderMeetsRegistered
         DEF CheckSlot, Step, PlacesOK, TypeOK, RoutingTypeOK
    <2>4. CASE TestFinished \/ DropLine \/ RouteLine
      BY <1>1, <2>1, <2>4 DEF TestFinished, DropLine, RouteLine, Step, PlacesOK, TypeOK,
        RoutingTypeOK
    <2> QED
      BY <1>3, <2>2, <2>3, <2>4, ReaderChecks DEF resManagerMsgReceiverThread, ReaderThread
  <1>4. CASE endResourceManagerProxy
    <2>1. /\ UNCHANGED <<slot, line, calls>>
          /\ \A th \in Threads : th # Main => pc'[th] = pc[th]
          /\ pc'[Main] \in {"kill", "join", "ended"}
      BY <1>1, <1>4 DEF endResourceManagerProxy, EndProxy, SetFinished, KillReader, JoinAndFree,
        Step, TypeOK, RoutingTypeOK
    <2> QED
      BY <1>1, <2>1 DEF PlacesOK
  <1>5. CASE AnswerCall \/ NameAStranger
    BY <1>1, <1>5 DEF AnswerCall, NameAStranger, PlacesOK
  <1>6. CASE UNCHANGED vars
    BY <1>1, <1>6 DEF vars, routingVars, PlacesOK
  <1> QED
    BY <1>2, <1>3, <1>4, <1>5, <1>6 DEF Next

LEMMA EndsStep == IInv /\ [Next]_vars => EndsOK' /\ PipesOK'
  <1> SUFFICES ASSUME IInv, [Next]_vars PROVE EndsOK' /\ PipesOK'
    OBVIOUS
  <1> USE ThreadFacts DEF table, ending, clientVars
  <1>1. PlacesOK /\ TypeOK /\ LinesOK /\ EndsOK /\ PipesOK
    BY DEF IInv
  <1>2. ASSUME NEW c \in Clients, OpenPipe(c) PROVE EndsOK' /\ PipesOK'
    <2>1. /\ outputFd[c].read = NoPipe /\ outputFd[c].write = NoPipe
          /\ opened' = opened + 1 /\ opened' \in Pipes /\ opened \in Nat
          /\ outputFd'[c].read = opened' /\ fd'[c] = opened' /\ pc'[c] = "store"
          /\ opened' # NoPipe
      BY <1>1, <1>2 DEF OpenPipe, Step, EndsOK, PlacesOK, TypeOK, RoutingTypeOK, Pipes
    <2>2. /\ UNCHANGED pipe
          /\ \A d \in Clients : d # c => /\ outputFd'[d] = outputFd[d]
                                       /\ pc'[d] = pc[d] /\ fd'[d] = fd[d]
      BY <1>1, <1>2 DEF OpenPipe, Step, PlacesOK, TypeOK, RoutingTypeOK
    <2>3. \A d \in Clients : outputFd[d].read # NoPipe =>
            outputFd[d].read \in 1 .. opened /\ outputFd[d].read # opened'
      BY <1>1, <2>1 DEF EndsOK
    <2>4. EndsOK'
      BY <1>1, <2>1, <2>2, <2>3 DEF EndsOK
    <2>5. PipesOK'
      BY <1>1, <2>1, <2>2, <2>3 DEF PipesOK
    <2> QED
      BY <2>4, <2>5
  <1>3. ASSUME NEW c \in Clients, StoreWriteEnd(c) PROVE EndsOK' /\ PipesOK'
    <2>1. /\ outputFd'[c].read = outputFd[c].read /\ outputFd'[c].write = fd[c]
          /\ pc[c] = "store" /\ pc'[c] = "registered"
          /\ UNCHANGED <<pipe, opened, fd>>
          /\ \A d \in Clients : d # c => outputFd'[d] = outputFd[d] /\ pc'[d] = pc[d]
      BY <1>1, <1>3 DEF StoreWriteEnd, Step, PlacesOK, TypeOK, RoutingTypeOK
    <2> QED
      BY <1>1, <2>1 DEF EndsOK, PipesOK
  <1>4. ASSUME NEW c \in Ids, CheckSlot(c) \/ PipeFails(c) PROVE EndsOK' /\ PipesOK'
    <2>1. /\ UNCHANGED <<outputFd, opened, pipe, fd>>
          /\ \A d \in Clients : d # c => pc'[d] = pc[d]
          /\ c \in Clients => /\ pc[c] # "store" /\ pc'[c] \notin {"store", "blocked", "read"}
                              /\ pc'[c] = "open" => outputFd[c].read = NoPipe
                              /\ pc'[c] = "registered" => outputFd[c].read # NoPipe
      BY <1>1, <1>4 DEF CheckSlot, PipeFails, Step, PlacesOK, TypeOK, RoutingTypeOK
    <2> QED
      BY <1>1, <2>1 DEF EndsOK, PipesOK
  <1>5. ASSUME NEW c \in Ids, Call(c) \/ ReturnFailure(c) \/ PrintRequest(c)
        PROVE  EndsOK' /\ PipesOK'
    <2>1. /\ UNCHANGED <<outputFd, opened, pipe, fd>>
          /\ \A d \in Clients : d # c => pc'[d] = pc[d]
          /\ c \in Clients =>
               \/ pc[c] # "store" /\ pc'[c] \in {"idle", "check"}
               \/ pc[c] = "registered" /\ pc'[c] = "read"
      BY <1>1, <1>5 DEF Call, ReturnFailure, PrintRequest, Step, TypeOK, RoutingTypeOK
    <2> QED
      BY <1>1, <2>1 DEF EndsOK, PipesOK
  <1>6. ASSUME NEW c \in Ids, ReadAnswer(c) PROVE EndsOK' /\ PipesOK'
    <2>1. /\ UNCHANGED <<outputFd, opened, pipe>>
          /\ \A d \in Clients : d # c => pc'[d] = pc[d] /\ fd'[d] = fd[d]
          /\ pc[c] = "read" /\ pc'[c] = "blocked" /\ fd'[c] = outputFd[c].read
      BY <1>1, <1>6 DEF ReadAnswer, StartRead, Step, TypeOK, RoutingTypeOK
    <2> QED
      BY <1>1, <2>1 DEF EndsOK, PipesOK
  <1>7. ASSUME NEW c \in Ids, ReturnAnswer(c) PROVE EndsOK' /\ PipesOK'
    <2>1. c \in Clients /\ fd[c] \in 1 .. opened
      <3>1. c \in Clients /\ pc[c] = "blocked"
        BY <1>1, <1>7 DEF ReturnAnswer, Step, PlacesOK, Ids
      <3> QED
        BY <1>1, <3>1 DEF EndsOK
    <2>2. /\ UNCHANGED <<outputFd, opened, fd>>
          /\ \A d \in Clients : d # c => pc'[d] = pc[d]
          /\ pc[c] = "blocked" /\ pc'[c] = "idle"
          /\ \A p \in Pipes : p # fd[c] => pipe'[p] = pipe[p]
      BY <1>1, <1>7 DEF ReturnAnswer, FinishRead, Step, TypeOK, RoutingTypeOK, LinesOK
    <2>3. opened \in Nat
      BY <1>1 DEF TypeOK, RoutingTypeOK
    <2> QED
      BY <1>1, <2>1, <2>2, <2>3 DEF EndsOK, PipesOK, Pipes
  <1>8. CASE resManagerMsgReceiverThread
    <2>1. /\ UNCHANGED <<outputFd, opened, fd>>
          /\ \A d \in Clients : pc'[d] = pc[d]
      BY <1>1, <1>8, ReaderChecks DEF resManagerMsgReceiverThread, ReaderThread, TestFinished,
        ScanLine, CheckSlot, DropLine, RouteLine, Step, TypeOK, RoutingTypeOK
    <2>2. EndsOK'
      BY <1>1, <2>1 DEF EndsOK
    <2>3. CASE RouteLine
      <3>1. slot[Reader] \in Clients
        BY <1>1, <2>3 DEF RouteLine, Step, PlacesOK
      <3>2. outputFd[slot[Reader]].write \in 1 .. opened
        <4>1. pc[slot[Reader]] \in {"read", "blocked"}
          BY <2>3, <3>1 DEF RouteLine, Step, IInv, OneAnswer, AtReader
        <4> QED
          BY <1>1, <3>1, <4>1 DEF EndsOK
      <3>3. \A p \in Pipes : p > opened => pipe'[p] = pipe[p]
        BY <1>1, <2>3, <3>2 DEF RouteLine, Delivered, LinesOK, TypeOK, RoutingTypeOK
      <3> QED
        BY <1>1, <2>1, <2>2, <3>3 DEF PipesOK
    <2>4. CASE UNCHANGED pipe
      BY <1>1, <2>1, <2>2, <2>4 DEF PipesOK
    <2> QED
      BY <1>8, <2>3, <2>4, ReaderChecks DEF resManagerMsgReceiverThread, ReaderThread,
        TestFinished, ScanLine, CheckSlot, DropLine
  <1>9. CASE endResourceManagerProxy
    <2>1. /\ UNCHANGED <<outputFd, opened, fd, pipe>>
          /\ \A d \in Clients : pc'[d] = pc[d]
      BY <1>1, <1>9 DEF endResourceManagerProxy, EndProxy, SetFinished, KillReader, JoinAndFree,
        Step, TypeOK, RoutingTypeOK
    <2> QED
      BY <1>1, <2>1 DEF EndsOK, PipesOK
  <1>10. CASE AnswerCall \/ NameAStranger \/ UNCHANGED vars
    BY <1>1, <1>10 DEF AnswerCall, NameAStranger, vars, routingVars, EndsOK, PipesOK
  <1> QED
    BY <1>2, <1>3, <1>4, <1>5, <1>6, <1>7, <1>8, <1>9, <1>10, ClientRegisters
       DEF Next, Client, resManagerTryRegisterClient, TryRegisterClient

\* The places of an answer, after a line was typed or scanned.
LEMMA LineTyped ==
  ASSUME LinesOK, NEW l \in Lines, input' = Append(input, l)
  PROVE  /\ Len(input) \in Nat /\ Len(input') = Len(input) + 1
         /\ \A i \in 1 .. Len(input) : input'[i] = input[i]
         /\ input'[Len(input) + 1] = l
  BY DEF LinesOK

LEMMA LineScanned ==
  ASSUME LinesOK, input # <<>>, input' = Tail(input)
  PROVE  /\ Len(input) \in Nat \ {0} /\ Len(input') = Len(input) - 1
         /\ \A i \in 1 .. Len(input') : input'[i] = input[i + 1]
         /\ Head(input) = input[1] /\ Head(input) \in Lines
  BY DEF LinesOK

\* Steps that move no answer: of a client that does not wait for one afterwards,
\* or of the reader between its places.
LEMMA AnswerStays ==
  ASSUME NEW c \in Clients, OneAnswer(c), RightAnswer(c),
         UNCHANGED <<asked, input, line, pipe>>,
         AtReader(c)' => AtReader(c),
         InPipe(c)' => InPipe(c) /\ outputFd'[c].read = outputFd[c].read,
         pc[c] \in {"read", "blocked"} => pc'[c] \in {"read", "blocked"} /\ calls'[c] = calls[c]
  PROVE  OneAnswer(c)' /\ RightAnswer(c)'
  BY DEF OneAnswer, RightAnswer, InAsked, InInput, AtReader, InPipe

\* A step of a client that neither asks nor reads an answer.
LEMMA ClientStays ==
  ASSUME IInv, NEW c \in Ids, NEW d \in Clients,
         \/ Call(c) \/ resManagerTryRegisterClient(c) \/ ReturnFailure(c) \/ ReadAnswer(c)
  PROVE  OneAnswer(d)' /\ RightAnswer(d)'
  <1> USE ThreadFacts DEF table, ending, clientVars
  <1>1. PlacesOK /\ TypeOK /\ LinesOK /\ EndsOK /\ PipesOK /\ OneAnswer(d) /\ RightAnswer(d)
    BY DEF IInv
  <1>2. UNCHANGED <<asked, input, line, pipe, slot>> /\ pc'[Reader] = pc[Reader]
    BY <1>1 DEF Call, resManagerTryRegisterClient, TryRegisterClient, CheckSlot, OpenPipe,
      StoreWriteEnd, PipeFails, ReturnFailure, ReadAnswer, StartRead, Step, TypeOK, RoutingTypeOK
  <1>3. pc[d] \in {"read", "blocked"} => pc'[d] \in {"read", "blocked"} /\ calls'[d] = calls[d]
    BY <1>1 DEF Call, resManagerTryRegisterClient, TryRegisterClient, CheckSlot, OpenPipe,
      StoreWriteEnd, PipeFails, ReturnFailure, ReadAnswer, Step, TypeOK, RoutingTypeOK
  <1>4. InPipe(d)' => InPipe(d) /\ outputFd'[d].read = outputFd[d].read
    <2>1. CASE OpenPipe(c)
      <3>1. c \in Clients /\ slot[c] = c
        BY <2>1, ClientRegisters
      <3>2. /\ d # c => outputFd'[d] = outputFd[d]
            /\ outputFd'[c].read = opened + 1 /\ opened + 1 \in Pipes /\ opened \in Nat
        BY <1>1, <2>1, <3>1 DEF OpenPipe, TypeOK, RoutingTypeOK, Pipes
      <3>3. pipe[opened + 1] = <<>>
        BY <1>1, <3>2 DEF PipesOK
      <3> QED
        BY <1>2, <3>2, <3>3 DEF InPipe
    <2>2. CASE StoreWriteEnd(c)
      <3>1. outputFd'[d].read = outputFd[d].read
        BY <1>1, <2>2 DEF StoreWriteEnd, TypeOK, RoutingTypeOK
      <3> QED
        BY <1>2, <3>1 DEF InPipe
    <2>3. CASE UNCHANGED outputFd
      BY <1>2, <2>3 DEF InPipe
    <2> QED
      BY <2>1, <2>2, <2>3 DEF Call, resManagerTryRegisterClient, TryRegisterClient, CheckSlot,
        PipeFails, ReturnFailure, ReadAnswer, StartRead
  <1> QED
    BY <1>1, <1>2, <1>3, <1>4, AnswerStays DEF AtReader

\* A client asks: until then its answer was nowhere.
LEMMA PrintStep ==
  ASSUME IInv, NEW c \in Ids, NEW d \in Clients, PrintRequest(c)
  PROVE  OneAnswer(d)' /\ RightAnswer(d)'
  <1>1. PlacesOK /\ TypeOK /\ OneAnswer(d) /\ RightAnswer(d)
    BY DEF IInv
  <1>2. /\ UNCHANGED <<input, line, pipe, slot, outputFd, calls>>
        /\ pc'[Reader] = pc[Reader]
        /\ d # c => pc'[d] = pc[d]
        /\ pc[c] = "registered" /\ pc'[c] = "read"
        /\ asked' = asked \cup {[target |-> c, about |-> calls[c]]}
    BY <1>1, ThreadFacts DEF PrintRequest, Step, TypeOK, RoutingTypeOK, table
  <1> QED
    BY <1>1, <1>2 DEF OneAnswer, RightAnswer, InAsked, InInput, AtReader, InPipe

\* A client reads its answer: afterwards it is nowhere.
LEMMA ReturnStep ==
  ASSUME IInv, NEW c \in Ids, NEW d \in Clients, ReturnAnswer(c)
  PROVE  OneAnswer(d)' /\ RightAnswer(d)'
  <1>1. PlacesOK /\ TypeOK /\ LinesOK /\ EndsOK /\ PipesOK /\ OneAnswer(d) /\ RightAnswer(d)
    BY DEF IInv
  <1>2. /\ UNCHANGED <<input, line, slot, outputFd, calls, asked>>
        /\ pc'[Reader] = pc[Reader]
        /\ d # c => pc'[d] = pc[d]
        /\ pc[c] = "blocked" /\ pc'[c] = "idle"
    BY <1>1, ThreadFacts DEF ReturnAnswer, FinishRead, Step, TypeOK, RoutingTypeOK
  <1>3. c \in Clients
    BY <1>1, <1>2 DEF PlacesOK, Ids
  <1>4. fd[c] = outputFd[c].read /\ fd[c] \in Pipes /\ fd[c] # NoPipe
    <2>1. fd[c] = outputFd[c].read /\ fd[c] \in 1 .. opened
      BY <1>1, <1>2, <1>3 DEF EndsOK
    <2> QED
      BY <1>1, <2>1 DEF TypeOK, RoutingTypeOK, Pipes
  <1>5. /\ pipe[fd[c]] # <<>> /\ pipe' = [pipe EXCEPT ![fd[c]] = Tail(@)]
    BY DEF ReturnAnswer, FinishRead
  <1>6. CASE d = c
    <2>1. InPipe(c) /\ Len(pipe[fd[c]]) = 1
      BY <1>1, <1>4, <1>5, <1>6 DEF InPipe, OneAnswer
    <2>2. pipe'[fd[c]] = <<>>
      <3>1. pipe[fd[c]] \in Seq(Lines)
        BY <1>1, <1>4 DEF LinesOK
      <3>2. Tail(pipe[fd[c]]) = <<>>
        <4>1. Tail(pipe[fd[c]]) \in Seq(Lines) /\ Len(Tail(pipe[fd[c]])) = 0
          BY <1>5, <2>1, <3>1, HeadTailProperties
        <4> QED
          BY ONLY <4>1, EmptySeq
      <3> QED
        BY <1>1, <1>4, <1>5, <3>2 DEF LinesOK
    <2>3. ~InAsked(c)' /\ ~InInput(c)' /\ ~AtReader(c)' /\ ~InPipe(c)'
      BY <1>1, <1>2, <1>4, <1>6, <2>1, <2>2 DEF OneAnswer, InAsked, InInput, AtReader, InPipe
    <2>4. /\ \A i, j \in 1 .. Len(input') : input'[i].target = c /\ input'[j].target = c => i = j
      BY <2>3 DEF InInput
    <2> QED
      BY <1>6, <2>3, <2>4 DEF OneAnswer, RightAnswer, InAsked, InInput
  <1>7. CASE d # c
    <2>1. outputFd[d].read # NoPipe => pipe'[outputFd[d].read] = pipe[outputFd[d].read]
      <3>1. outputFd[d].read # fd[c]
        BY <1>1, <1>3, <1>4, <1>7 DEF PipesOK
      <3>2. outputFd[d].read # NoPipe => outputFd[d].read \in Pipes
        BY <1>1 DEF TypeOK, RoutingTypeOK, Ends
      <3> QED
        BY <1>1, <1>5, <3>1, <3>2 DEF LinesOK
    <2> QED
      BY <1>1, <1>2, <1>7, <2>1
         DEF OneAnswer, RightAnswer, InAsked, InInput, AtReader, InPipe
  <1> QED
    BY <1>6, <1>7

\* The resource manager answers one of the calls it was asked.
LEMMA AnswerStep ==
  ASSUME IInv, NEW d \in Clients, AnswerCall
  PROVE  OneAnswer(d)' /\ RightAnswer(d)'
  <1>1. TypeOK /\ LinesOK /\ OneAnswer(d) /\ RightAnswer(d)
    BY DEF IInv
  <1>2. PICK call \in asked, answer \in Answers :
          /\ input' = Append(input, [target |-> call.target, about |-> call.about,
                                    answer |-> answer])
          /\ asked' = asked \ {call}
          /\ UNCHANGED <<pc, slot, fd, table, line, ending, calls, got, returned>>
    BY DEF AnswerCall
  <1> DEFINE l == [target |-> call.target, about |-> call.about, answer |-> answer]
  <1>3. call \in [target : Clients, about : 1 .. MaxCalls]
    BY <1>1 DEF TypeOK
  <1>4. l \in Lines /\ l.target = call.target /\ l.about = call.about
    BY <1>3, ThreadFacts DEF Lines
  <1>5. input' = Append(input, l)
    BY <1>2
  <1> HIDE DEF l
  <1>6. /\ Len(input) \in Nat /\ Len(input') = Len(input) + 1
        /\ \A i \in 1 .. Len(input) : input'[i] = input[i]
        /\ input'[Len(input) + 1] = l
    BY <1>1, <1>4, <1>5, LineTyped
  <1>7. UNCHANGED <<pc, slot, line, outputFd, pipe, calls>>
    BY <1>2 DEF table
  <1>8. CASE call.target # d
    <2>1. InAsked(d)' <=> InAsked(d)
      BY <1>2, <1>8 DEF InAsked
    <2>2. \A i \in 1 .. Len(input') : input'[i].target = d =>
            i \in 1 .. Len(input) /\ input'[i] = input[i]
      BY <1>4, <1>6, <1>8
    <2>3. InInput(d)' => InInput(d)
      BY <2>2 DEF InInput
    <2>4. /\ AtReader(d)' <=> AtReader(d)
          /\ InPipe(d)' <=> InPipe(d)
      BY <1>7 DEF AtReader, InPipe
    <2>5. OneAnswer(d)'
      BY <1>1, <1>7, <2>1, <2>2, <2>3, <2>4 DEF OneAnswer
    <2>6. RightAnswer(d)'
      BY <1>1, <1>2, <1>7, <2>2, <2>4 DEF RightAnswer
    <2> QED
      BY <2>5, <2>6
  <1>9. CASE call.target = d
    <2>1. InAsked(d) /\ call.about = calls[d]
      BY <1>1, <1>9 DEF InAsked, RightAnswer
    <2>2. ~InInput(d) /\ ~AtReader(d) /\ ~InPipe(d) /\ pc[d] \in {"read", "blocked"}
      BY <1>1, <2>1 DEF OneAnswer
    <2>3. ~InAsked(d)'
      <3>1. \A other \in asked : other.target = d => other = call
        BY <1>1, <1>3, <1>9, <2>1 DEF RightAnswer, TypeOK
      <3> QED
        BY <1>2, <3>1 DEF InAsked
    <2>4. ~AtReader(d)' /\ ~InPipe(d)'
      BY <1>7, <2>2 DEF AtReader, InPipe
    <2>5. \A i \in 1 .. Len(input') : input'[i].target = d => i = Len(input) + 1 /\ input'[i] = l
      BY <1>6, <2>2 DEF InInput
    <2>6. OneAnswer(d)'
      BY <1>7, <2>2, <2>3, <2>4, <2>5 DEF OneAnswer
    <2>7. RightAnswer(d)'
      BY <1>4, <1>7, <2>1, <2>3, <2>4, <2>5 DEF RightAnswer, InAsked
    <2> QED
      BY <2>6, <2>7
  <1> QED
    BY <1>8, <1>9

\* A mistyped client gets a line that is no client's.
LEMMA StrangerStep ==
  ASSUME IInv, NEW d \in Clients, NameAStranger
  PROVE  OneAnswer(d)' /\ RightAnswer(d)'
  <1>1. LinesOK /\ OneAnswer(d) /\ RightAnswer(d)
    BY DEF IInv
  <1>2. PICK l \in Lines : l.target \in Strangers /\ input' = Append(input, l)
    BY DEF NameAStranger, Lines, Ids
  <1>3. UNCHANGED <<asked, pc, slot, line, outputFd, pipe, calls>>
    BY DEF NameAStranger, table, clientVars
  <1>4. \A i \in 1 .. Len(input') : input'[i].target = d =>
          i \in 1 .. Len(input) /\ input'[i] = input[i]
    BY <1>1, <1>2, LineTyped, ThreadFacts
  <1>5. InInput(d)' => InInput(d)
    BY <1>4 DEF InInput
  <1>6. /\ AtReader(d)' <=> AtReader(d)
        /\ InPipe(d)' <=> InPipe(d)
        /\ InAsked(d)' <=> InAsked(d)
    BY <1>3 DEF AtReader, InPipe, InAsked
  <1> QED
    BY <1>1, <1>3, <1>4, <1>5, <1>6 DEF OneAnswer, RightAnswer

\* The reader takes a line, and routes it.
LEMMA ReaderStep ==
  ASSUME IInv, NEW d \in Clients, resManagerMsgReceiverThread
  PROVE  OneAnswer(d)' /\ RightAnswer(d)'
  <1>1. PlacesOK /\ TypeOK /\ LinesOK /\ EndsOK /\ PipesOK /\ OneAnswer(d) /\ RightAnswer(d)
    BY DEF IInv
  <1>2. UNCHANGED <<asked, calls, outputFd>> /\ pc'[d] = pc[d]
    BY <1>1, ReaderChecks, ThreadFacts DEF resManagerMsgReceiverThread, ReaderThread, TestFinished,
      ScanLine, CheckSlot, DropLine, RouteLine, Step, TypeOK, RoutingTypeOK, clientVars, table
  <1>3. CASE ScanLine
    <2>1. /\ input # <<>> /\ input' = Tail(input) /\ line' = Head(input)
          /\ slot'[Reader] = Head(input).target /\ pc[Reader] = "scan" /\ pc'[Reader] = "check"
          /\ UNCHANGED pipe
      BY <1>1, <1>3, ThreadFacts DEF ScanLine, Step, TypeOK, RoutingTypeOK, table
    <2>2. /\ Len(input) \in Nat \ {0} /\ Len(input') = Len(input) - 1
          /\ \A i \in 1 .. Len(input') : i + 1 \in 1 .. Len(input) /\ input'[i] = input[i + 1]
          /\ line' = input[1]
      BY <1>1, <2>1, LineScanned
    <2>3. InInput(d)' => InInput(d)
      BY <2>2 DEF InInput
    <2>4. AtReader(d)' => InInput(d) /\ line' = input[1] /\ input[1].target = d
      BY <2>1, <2>2 DEF InInput, AtReader
    <2>5. AtReader(d)' => ~InInput(d)'
      BY <1>1, <2>2, <2>4 DEF InInput, OneAnswer
    <2>6. /\ InAsked(d)' <=> InAsked(d)
          /\ InPipe(d)' <=> InPipe(d)
      BY <1>2, <2>1 DEF InAsked, InPipe
    <2>7. OneAnswer(d)'
      <3>1. \A i, j \in 1 .. Len(input') :
              input'[i].target = d /\ input'[j].target = d => i = j
        <4> SUFFICES ASSUME NEW i \in 1 .. Len(input'), NEW j \in 1 .. Len(input'),
                            input'[i].target = d, input'[j].target = d
                     PROVE  i = j
          OBVIOUS
        <4>1. i + 1 = j + 1
          BY <1>1, <2>2 DEF OneAnswer
        <4> QED
          BY <4>1
      <3> QED
        BY <1>1, <1>2, <2>1, <2>3, <2>4, <2>5, <2>6, <3>1 DEF OneAnswer
    <2>8. RightAnswer(d)'
      BY <1>1, <1>2, <2>1, <2>2, <2>4, <2>6 DEF RightAnswer
    <2> QED
      BY <2>7, <2>8
  <1>4. CASE RouteLine
    <2>1. /\ pc[Reader] = "registered" /\ pc'[Reader] = "loop"
          /\ UNCHANGED <<input, line, slot>>
          /\ pipe' = Delivered(outputFd[slot[Reader]].write)
      BY <1>1, <1>4, ThreadFacts DEF RouteLine, Step, TypeOK, RoutingTypeOK
    <2>2. slot[Reader] \in Clients /\ line \in Lines /\ line.target = slot[Reader]
      BY <1>1, <2>1 DEF PlacesOK
    <2> DEFINE c == slot[Reader]
               p == outputFd[c].read
    <2>3. /\ outputFd[c].write = p /\ p \in Pipes /\ p # NoPipe /\ ~InPipe(c)
      <3>1. pc[c] \in {"read", "blocked"} /\ ~InPipe(c)
        BY <2>1, <2>2 DEF IInv, OneAnswer, AtReader
      <3> QED
        BY <1>1, <2>2, <3>1 DEF EndsOK, TypeOK, RoutingTypeOK, Ends
    <2> HIDE DEF c, p
    <2>4. pipe' = [pipe EXCEPT ![p] = Append(@, line)]
      BY <2>1, <2>3 DEF Delivered, c, p
    <2>5. CASE d = c
      <3>1. pipe[p] = <<>>
        BY <2>3 DEF InPipe, p
      <3>2. pipe'[p] = <<line>>
        BY <1>1, <2>3, <2>4, <3>1 DEF LinesOK
      <3>3. AtReader(d) /\ line.about = calls[d]
        BY <1>1, <2>1, <2>5 DEF AtReader, RightAnswer, c
      <3>4. ~AtReader(d)' /\ InPipe(d)'
        BY <1>2, <2>1, <2>3, <2>5, <3>2 DEF AtReader, InPipe, p
      <3>5. ~InAsked(d)' /\ ~InInput(d)'
        BY <1>1, <1>2, <2>1, <3>3 DEF OneAnswer, InAsked, InInput
      <3>6. Len(pipe'[outputFd'[d].read]) = 1 /\ Head(pipe'[outputFd'[d].read]) = line
        BY <1>2, <2>5, <3>2 DEF p
      <3> QED
        BY <1>1, <1>2, <2>1, <2>2, <2>5, <3>3, <3>4, <3>5, <3>6
           DEF OneAnswer, RightAnswer, InAsked, InInput, c
    <2>6. CASE d # c
      <3>1. outputFd[d].read # p
        BY <1>1, <2>2, <2>3, <2>6 DEF PipesOK, c, p
      <3>2. outputFd[d].read # NoPipe => pipe'[outputFd[d].read] = pipe[outputFd[d].read]
        BY <1>1, <2>4, <3>1 DEF LinesOK, TypeOK, RoutingTypeOK, Ends
      <3> QED
        BY <1>1, <1>2, <2>1, <2>6, <3>2
           DEF OneAnswer, RightAnswer, InAsked, InInput, AtReader, InPipe, c
    <2> QED
      BY <2>5, <2>6
  <1>5. CASE TestFinished \/ CheckSlot(Reader) \/ DropLine
    <2>1. /\ UNCHANGED <<input, line, pipe, slot>>
          /\ pc[Reader] \in {"check", "registered", "failed"}
               \/ pc'[Reader] \in {"exited", "scan"}
      BY <1>1, <1>5, ThreadFacts
         DEF TestFinished, CheckSlot, DropLine, Step, TypeOK, RoutingTypeOK, table
    <2>2. AtReader(d)' => AtReader(d)
      BY <2>1 DEF AtReader
    <2>3. InPipe(d)' => InPipe(d)
      BY <1>2, <2>1 DEF InPipe
    <2> QED
      BY <1>1, <1>2, <2>1, <2>2, <2>3, AnswerStays
  <1> QED
    BY <1>3, <1>4, <1>5, ReaderChecks DEF resManagerMsgReceiverThread, ReaderThread

LEMMA AnswersStep ==
  IInv /\ [Next]_vars => \A d \in Clients : OneAnswer(d)' /\ RightAnswer(d)'
  <1> SUFFICES ASSUME IInv, [Next]_vars, NEW d \in Clients
               PROVE  OneAnswer(d)' /\ RightAnswer(d)'
    OBVIOUS
  <1>1. OneAnswer(d) /\ RightAnswer(d) /\ TypeOK
    BY DEF IInv
  <1>2. CASE endResourceManagerProxy
    <2>1. /\ UNCHANGED <<asked, input, line, pipe, slot, outputFd, calls>>
          /\ pc'[Reader] = pc[Reader] /\ pc'[d] = pc[d]
      BY <1>1, <1>2, ThreadFacts DEF endResourceManagerProxy, EndProxy, SetFinished, KillReader,
        JoinAndFree, Step, TypeOK, RoutingTypeOK, table, clientVars
    <2> QED
      BY <1>1, <2>1, AnswerStays DEF AtReader, InPipe
  <1>3. CASE UNCHANGED vars
    <2>1. UNCHANGED <<asked, input, line, pipe, slot, outputFd, calls, pc>>
      BY <1>3 DEF vars, routingVars, table, clientVars
    <2> QED
      BY <1>1, <2>1, AnswerStays DEF AtReader, InPipe
  <1> QED
    BY <1>2, <1>3, ClientStays, PrintStep, ReturnStep, AnswerStep, StrangerStep, ReaderStep
       DEF Next, Client

\* What a call returned with stays until the client calls again.
LEMMA ReturnedStep == IInv /\ [Next]_vars => AnswersItsRequest'
  <1> SUFFICES ASSUME IInv, [Next]_vars, NEW c \in Ids,
                      pc'[c] = "idle", calls'[c] > 0, returned'[c] = 0
               PROVE  got'[c] # NoLine /\ got'[c].target = c /\ got'[c].about = calls'[c]
    BY DEF AnswersItsRequest
  <1> USE ThreadFacts DEF clientVars
  <1>1. PlacesOK /\ TypeOK /\ LinesOK /\ EndsOK /\ AnswersItsRequest
    BY DEF IInv
  <1>2. CASE pc[c] = "idle" /\ UNCHANGED <<calls[c], returned[c], got[c]>>
    BY <1>1, <1>2 DEF AnswersItsRequest
  <1>3. CASE ReturnAnswer(c)
    <2>1. c \in Clients /\ pc[c] = "blocked"
      BY <1>1, <1>3 DEF ReturnAnswer, Step, PlacesOK, Ids
    <2>2. fd[c] = outputFd[c].read /\ fd[c] # NoPipe /\ fd[c] \in Pipes
      BY <1>1, <2>1 DEF EndsOK, TypeOK, RoutingTypeOK, Ends
    <2>3. pipe[fd[c]] # <<>> /\ pipe[fd[c]] \in Seq(Lines)
      BY <1>1, <1>3, <2>2 DEF ReturnAnswer, FinishRead, LinesOK
    <2>4. Head(pipe[fd[c]]) \in Lines
      BY <2>3
    <2>5. RightAnswer(c) /\ InPipe(c)
      BY <2>1, <2>2, <2>3 DEF IInv, InPipe
    <2>6. got'[c] = Head(pipe[fd[c]]) /\ UNCHANGED calls
      BY <1>1, <1>3, <2>1 DEF ReturnAnswer, LinesOK
    <2> QED
      BY <2>2, <2>4, <2>5, <2>6 DEF RightAnswer
  <1>4. ASSUME NEW d \in Ids, Client(d)
        PROVE  \/ pc[c] = "idle" /\ UNCHANGED <<calls[c], returned[c], got[c]>>
               \/ ReturnAnswer(c)
    <2>1. CASE d = c
      BY <1>1, <1>4, <2>1 DEF Client, Call, resManagerTryRegisterClient, TryRegisterClient,
        CheckSlot, OpenPipe, StoreWriteEnd, PipeFails, ReturnFailure, PrintRequest, ReadAnswer,
        Step, TypeOK, RoutingTypeOK
    <2>2. CASE d # c
      BY <1>1, <1>4, <2>2 DEF Client, Call, resManagerTryRegisterClient, TryRegisterClient,
        CheckSlot, OpenPipe, StoreWriteEnd, PipeFails, ReturnFailure, PrintRequest, ReadAnswer,
        ReturnAnswer, Step, TypeOK, RoutingTypeOK, LinesOK
    <2> QED
      BY <2>1, <2>2
  <1>5. CASE resManagerMsgReceiverThread
    BY <1>1, <1>2, <1>5, ReaderChecks DEF resManagerMsgReceiverThread, ReaderThread, TestFinished,
      ScanLine, CheckSlot, DropLine, RouteLine, Step, TypeOK, RoutingTypeOK
  <1>6. CASE endResourceManagerProxy
    BY <1>1, <1>2, <1>6 DEF endResourceManagerProxy, EndProxy, SetFinished, KillReader, JoinAndFree,
      Step, TypeOK, RoutingTypeOK
  <1>7. CASE AnswerCall \/ NameAStranger \/ UNCHANGED vars
    BY <1>1, <1>2, <1>7 DEF AnswerCall, NameAStranger, vars, routingVars
  <1> QED
    BY <1>2, <1>3, <1>4, <1>5, <1>6, <1>7 DEF Next

\* Where answers, pipes and threads are, in every reachable state.
THEOREM Invariance == Spec => []IInv
  <1>1. IInv /\ [Next]_vars => IInv'
    BY TypeStep, PlacesStep, EndsStep, AnswersStep, ReturnedStep DEF IInv
  <1> QED
    BY InitHolds, <1>1, PTL DEF Spec

\* The variables keep their types.
THEOREM TypeCorrect == Spec => []TypeOK
  <1>1. IInv => TypeOK
    BY DEF IInv
  <1> QED
    BY Invariance, <1>1, PTL

\* A client blocks on the pipe that the reader thread writes its answers to.
THEOREM PipesMatch == Spec => []ReadsItsOwnPipe
  <1>1. IInv => ReadsItsOwnPipe
    BY DEF IInv, EndsOK, ReadsItsOwnPipe, TypeOK, RoutingTypeOK
  <1> QED
    BY Invariance, <1>1, PTL

\* A call that succeeds has read the answer to the request it made: no other
\* client's, and no late answer to an earlier request.
THEOREM AnswersMatch == Spec => []AnswersItsRequest
  <1>1. IInv => AnswersItsRequest
    BY DEF IInv
  <1> QED
    BY Invariance, <1>1, PTL

=============================================================================
