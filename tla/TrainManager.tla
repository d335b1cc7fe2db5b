---------------------------- MODULE TrainManager ----------------------------
(***************************************************************************)
(* A train manager: one train (train.c), whose thread talks to the PLC     *)
(* through the PLC proxy, the proxy of the resource manager beside it, and *)
(* the program that ends the three (unit_tests/unit_test_train.c is the    *)
(* one there is; here the calls come in any order).  The reader threads of *)
(* both proxies scan the same standard input, and ignore what scanf        *)
(* returns: once the peer has closed it they route their last line again.  *)
(*                                                                         *)
(* PlcProxy is extended for the PLC proxy; Res is the other one.           *)
(***************************************************************************)
EXTENDS PlcProxy

CONSTANTS train,       \* the id of the train
          MaxBuffered  \* bound: the messages a pipe holds before write() blocks

ASSUME TrainAssumption == train \in Clients /\ MaxBuffered \in Nat \ {0}

VARIABLES
  resPc, resSlot, resFd, resOutputFd, resLine, resFinished,
  resFreed,  \* the proxy of the resource manager
  at,      \* where the train's thread is in its loop
  stop,    \* train->finished
  gone,    \* the train was freed
  order,   \* the calls that end something, as they began
  closed   \* the peer closed the standard input

\* One process: its pipes, its input and its end are those of both proxies.
Res == INSTANCE RoutingProxy WITH
  pc <- resPc, slot <- resSlot, fd <- resFd, outputFd <- resOutputFd,
  line <- resLine, finished <- resFinished, freed <- resFreed

plcVars == <<pc, slot, fd, outputFd, line, finished, freed, trainVars>>
resVars == <<resPc, resSlot, resFd, resOutputFd, resLine, resFinished, resFreed>>
lifeVars == <<at, stop, gone, order, closed>>
managerVars == <<vars, resVars, lifeVars>>

ManagerInit ==
  /\ Init
  /\ Res!RoutingInit
  /\ at = "test"
  /\ stop = FALSE /\ gone = FALSE
  /\ order = <<>>
  /\ closed = FALSE

-----------------------------------------------------------------------------
\* The train's thread: test the flag, send a command, read the answer, sleep.

Goes(from, to) ==
  /\ ~killed /\ at = from /\ at' = to
  /\ UNCHANGED <<resVars, stop, gone, order, closed>>

TestStop ==
  /\ Goes("test", IF stop THEN "exited" ELSE "send")
  /\ UNCHANGED vars

Send ==
  /\ Goes("send", "read")
  /\ ~freed
  /\ UNCHANGED vars

CallRead ==
  /\ Goes("read", "reading")
  /\ ~freed
  /\ readMessagePlcProxy(train)

ContinueRead ==
  /\ Goes("reading", "reading")
  /\ ~freed
  /\ plcProxyTryRegisterClient(train) \/ ReadMessage(train)

EndRead ==
  /\ Goes("reading", "sleep")
  /\ ReturnNull(train) \/ (~freed /\ ReturnMessage(train))

\* endPlcProxy closed the write end: read() gives 0.  The ends of a pipe that
\* is no longer in the table stay open.
WriteEndClosed(p) == freed /\ outputFd[train].write = p

ReadClosedPipe ==
  /\ Goes("reading", "sleep")
  /\ Step(train, "blocked", "idle")
  /\ pipe[fd[train]] = <<>> /\ WriteEndClosed(fd[train])
  /\ UNCHANGED <<slot, fd, table, input, line, ending, trainVars>>

\* The next thing the thread does is done with the proxy: a read that ends with a
\* message prints the descriptor, one that fails only returns.
UsesProxy ==
  \/ at \in {"send", "read"}
  \/ /\ at = "reading" /\ pc[train] # "failed"
     /\ pc[train] = "blocked" => pipe[fd[train]] # <<>>

UseFreedProxy ==
  /\ UsesProxy /\ freed
  /\ Goes(at, "undefined")
  /\ UNCHANGED vars

Sleep ==
  /\ Goes("sleep", "test")
  /\ UNCHANGED vars

trainThread ==
  \/ TestStop \/ Send \/ CallRead \/ ContinueRead \/ EndRead
  \/ ReadClosedPipe \/ UseFreedProxy \/ Sleep

-----------------------------------------------------------------------------
\* The two reader threads and their peer.

\* What a scanf at the end of the input leaves in target and resp: the line
\* before, or at first what happens to be on the stack.
LeftOver(last) == IF last = NoLine THEN [target : Ids, about : {0}] ELSE {last}

AtEnd == closed /\ input = <<>>

ScanAtEnd ==
  /\ AtEnd /\ Step(Reader, "scan", "check")
  /\ line' \in LeftOver(line)
  /\ slot' = [slot EXCEPT ![Reader] = line'.target]
  /\ UNCHANGED <<fd, table, input, ending, trainVars>>

Full(ends) == ends.write # NoPipe /\ Len(pipe[ends.write]) >= MaxBuffered

PlcReaderThread ==
  /\ \/ plcProxyMsgReceiverThread \/ ScanAtEnd
  /\ ~(pc[Reader] = "registered" /\ Full(outputFd[slot[Reader]]))
  /\ UNCHANGED <<resVars, lifeVars>>

ResScanAtEnd ==
  /\ AtEnd /\ Res!Step(Reader, "scan", "check")
  /\ resLine' \in LeftOver(resLine)
  /\ resSlot' = [resSlot EXCEPT ![Reader] = resLine'.target]
  /\ UNCHANGED <<resFd, resOutputFd, opened, pipe, input, resFinished, killed, resFreed>>

ResReaderThread ==
  /\ Res!ReaderThread \/ ResScanAtEnd
  /\ ~(resPc[Reader] = "registered" /\ Full(resOutputFd[resSlot[Reader]]))
  /\ UNCHANGED <<plcVars, lifeVars>>

PeerWrites(c) == ~closed /\ Emit(c) /\ UNCHANGED <<resVars, lifeVars>>

PeerCloses ==
  /\ ~closed
  /\ closed' = TRUE
  /\ UNCHANGED <<vars, resVars, at, stop, gone, order>>

-----------------------------------------------------------------------------
\* The program that ends the three, one call after the other.

Calls == {"resources", "plc", "train"}
Begun(call) == \E i \in 1 .. Len(order) : order[i] = call

Returned(call) ==
  CASE call = "resources" -> resPc[Main] = "ended"
    [] call = "plc"       -> pc[Main] = "ended"
    [] call = "train"     -> gone

Begin(call) ==
  /\ ~killed /\ ~Begun(call)
  /\ \A c \in Calls : Begun(c) => Returned(c)
  /\ order' = Append(order, call)
  /\ UNCHANGED <<at, gone, closed>>

EndResources ==
  /\ \/ Begin("resources") /\ Res!SetFinished /\ UNCHANGED stop
     \/ (Res!KillReader \/ Res!JoinAndFree) /\ UNCHANGED lifeVars
  /\ UNCHANGED plcVars

EndPlc ==
  /\ \/ Begin("plc") /\ SetFinished /\ UNCHANGED stop
     \/ (KillReader \/ JoinAndFree) /\ UNCHANGED lifeVars
  /\ UNCHANGED <<resVars, trainVars>>

StopForgotten ==
  /\ Begin("train")
  /\ UNCHANGED <<stop, vars, resVars>>

StopTrain ==
  /\ Begin("train")
  /\ stop' = TRUE
  /\ UNCHANGED <<vars, resVars>>

JoinTrainForgotten ==
  /\ ~killed /\ Begun("train") /\ ~gone
  /\ gone' = TRUE
  /\ UNCHANGED <<vars, resVars, at, stop, order, closed>>

JoinTrain ==
  /\ ~killed /\ Begun("train") /\ ~gone
  /\ at = "exited"
  /\ gone' = TRUE
  /\ UNCHANGED <<vars, resVars, at, stop, order, closed>>

endTrain == StopTrain \/ JoinTrain

main == EndResources \/ EndPlc \/ endTrain

-----------------------------------------------------------------------------

ManagerNext ==
  \/ trainThread
  \/ PlcReaderThread
  \/ ResReaderThread
  \/ main
  \/ PeerCloses
  \/ \E c \in Ids : PeerWrites(c)

ManagerSpec ==
  /\ ManagerInit /\ [][ManagerNext]_managerVars
  /\ WF_managerVars(trainThread)
  /\ WF_managerVars(PlcReaderThread)
  /\ WF_managerVars(endTrain)

-----------------------------------------------------------------------------
(* Properties *)

ManagerTypeOK ==
  /\ TypeOK
  /\ Res!RoutingTypeOK
  /\ at \in {"test", "send", "read", "reading", "sleep", "exited", "undefined"}
  /\ stop \in BOOLEAN /\ gone \in BOOLEAN /\ closed \in BOOLEAN
  /\ \A p \in Pipes : Len(pipe[p]) <= MaxBuffered

Precedes(a, b) == \E i, j \in 1 .. Len(order) : i < j /\ order[i] = a /\ order[j] = b

\* The train's thread has left before the train is freed, and it uses a freed
\* PLC proxy only where a program ends the proxy before the train: the owner
\* that ends the train first is safe.
TrainFirstIsSafe ==
  /\ gone => at = "exited"
  /\ at = "undefined" => ~Precedes("train", "plc")

\* With two threads on one input and an end of it nobody notices: the train
\* reads a message a second time, or one that was never sent, only after the
\* end of the input, and it is the reader's last line.
RepeatsOnlyLastLine ==
  [][count'[train] # count[train] =>
       \/ /\ got'[train].target = train
          /\ got'[train].about > (IF got[train] = NoLine THEN 0 ELSE got[train].about)
       \/ AtEnd /\ got'[train] = line]_managerVars

\* The thread is where no message has to come for it to test its flag again.
Released ==
  \/ at \in {"sleep", "test"}
  \/ /\ at = "reading" /\ pc[train] = "blocked"
     /\ IF freed THEN pipe[fd[train]] = <<>> /\ WriteEndClosed(fd[train])
                  ELSE pipe[fd[train]] # <<>>

\* endTrain joins a thread that may be blocked in a read: it returns once an
\* answer is in the train's pipe, or the PLC proxy, ended before, closed it.
EndTrainReturns == Begun("train") /\ Released ~> gone

=============================================================================
