---------------------------- MODULE RoutingProxy ----------------------------
(***************************************************************************)
(* What the proxies of the resource manager and of the PLC have in common  *)
(* (resource_manager_proxy_cli.c, resource_manager_proxy_remote.c and      *)
(* plc_proxy_cli.c, line for line): a table of pipes, one per client; a    *)
(* reader thread that takes the lines of the peer and routes each to the   *)
(* client it names; the registration of a client, which whoever comes      *)
(* first makes, client or reader; and the end of the proxy.                *)
(*                                                                         *)
(* ResourceManagerProxy and PlcProxy add what their clients and peers do.  *)
(***************************************************************************)
EXTENDS Integers, Sequences, FiniteSets

CONSTANTS Clients,    \* the ids below MAX_NUM_REGISTRABLE_TRAINS
          Strangers,  \* the ids out of range
          Reader,     \* the thread the proxy creates
          Main,       \* the thread that ends it
          MaxPipes,   \* the pipes the process can open
          NoPipe,     \* -1 in the table
          NoLine      \* nothing was scanned yet

ASSUME RoutingAssumption ==
  /\ Clients \cap Strangers = {}
  /\ {Reader, Main} \cap (Clients \cup Strangers) = {}
  /\ Reader # Main
  /\ MaxPipes \in Nat
  /\ NoPipe \notin 1 .. MaxPipes

Ids     == Clients \cup Strangers
Threads == Ids \cup {Reader, Main}
Pipes   == 1 .. MaxPipes

VARIABLES
  pc,        \* pc[th]: where thread th is
  slot,      \* slot[th]: the client it registers or reads for
  fd,        \* fd[th]: the pipe it opened, or blocks on
  outputFd,  \* outputFd[c]: the two ends of the pipe of client c
  opened,    \* how many pipes were opened
  pipe,      \* pipe[p]: the messages written to p and not read
  input,     \* the lines of the peer the reader did not scan yet
  line,      \* the line it scanned last
  finished,  \* the flag that ends its loop
  killed,    \* SIGINT ended the process
  freed      \* the proxy was freed

table  == <<outputFd, opened, pipe>>
ending == <<finished, killed, freed>>
routingVars == <<pc, slot, fd, table, input, line, ending>>

RoutingInit ==
  /\ pc = [th \in Threads |-> IF th = Reader THEN "loop" ELSE "idle"]
  /\ slot = [th \in Threads |-> th]
  /\ fd = [th \in Threads |-> NoPipe]
  /\ outputFd = [c \in Clients |-> [read |-> NoPipe, write |-> NoPipe]]
  /\ opened = 0
  /\ pipe = [p \in Pipes |-> <<>>]
  /\ input = <<>>
  /\ line = NoLine
  /\ finished = FALSE /\ killed = FALSE /\ freed = FALSE

\* Once SIGINT has ended the process no thread takes a step.
Step(th, from, to) == ~killed /\ pc[th] = from /\ pc' = [pc EXCEPT ![th] = to]

-----------------------------------------------------------------------------
\* TryRegisterClient: a test and a call of pipe(), with no lock around the two.
\* pipe() stores the two ends one after the other.

CheckRangeOnly(th) ==
  /\ Step(th, "check", IF slot[th] \notin Clients THEN "failed" ELSE "open")
  /\ UNCHANGED <<slot, fd, table, input, line, ending>>

CheckSlot(th) ==
  /\ Step(th, "check", IF slot[th] \notin Clients THEN "failed"
                       ELSE IF outputFd[slot[th]].read # NoPipe THEN "registered"
                       ELSE "open")
  /\ UNCHANGED <<slot, fd, table, input, line, ending>>

OpenPipeUncounted(th) ==
  /\ Step(th, "open", "store")
  /\ opened' = opened + 1
  /\ fd' = [fd EXCEPT ![th] = opened + 1]
  /\ outputFd' = [outputFd EXCEPT ![slot[th]].read = opened + 1]
  /\ UNCHANGED <<slot, pipe, input, line, ending>>

OpenPipe(th) ==
  /\ Step(th, "open", "store")
  /\ opened < MaxPipes
  /\ opened' = opened + 1
  /\ fd' = [fd EXCEPT ![th] = opened + 1]
  /\ outputFd' = [outputFd EXCEPT ![slot[th]].read = opened + 1]
  /\ UNCHANGED <<slot, pipe, input, line, ending>>

StoreWriteEnd(th) ==
  /\ Step(th, "store", "registered")
  /\ outputFd' = [outputFd EXCEPT ![slot[th]].write = fd[th]]
  /\ UNCHANGED <<slot, fd, opened, pipe, input, line, ending>>

PipeFails(th) ==
  /\ Step(th, "open", "failed")
  /\ opened = MaxPipes
  /\ UNCHANGED <<slot, fd, table, input, line, ending>>

TryRegisterClient(th) ==
  CheckSlot(th) \/ OpenPipe(th) \/ StoreWriteEnd(th) \/ PipeFails(th)

-----------------------------------------------------------------------------
\* A client's blocking read of its pipe.

StartRead(c) ==
  /\ fd' = [fd EXCEPT ![c] = outputFd[c].read]
  /\ UNCHANGED <<slot, table, input, line, ending>>

FinishRead(c) ==
  /\ pipe[fd[c]] # <<>>
  /\ pipe' = [pipe EXCEPT ![fd[c]] = Tail(@)]
  /\ UNCHANGED <<slot, fd, outputFd, opened, input, line, ending>>

-----------------------------------------------------------------------------
\* The reader thread.

TestFinished ==
  /\ Step(Reader, "loop", IF finished THEN "exited" ELSE "scan")
  /\ UNCHANGED <<slot, fd, table, input, line, ending>>

ScanLine ==
  /\ Step(Reader, "scan", "check")
  /\ input # <<>>
  /\ line' = Head(input)
  /\ input' = Tail(input)
  /\ slot' = [slot EXCEPT ![Reader] = Head(input).target]
  /\ UNCHANGED <<fd, table, ending>>

StopAtBadLine ==
  /\ Step(Reader, "failed", "exited")
  /\ UNCHANGED <<slot, fd, table, input, line, ending>>

\* A line for a client that cannot be registered is dropped.
DropLine ==
  /\ Step(Reader, "failed", "loop")
  /\ UNCHANGED <<slot, fd, table, input, line, ending>>

DeliveredTwice(p) == IF p = NoPipe THEN pipe ELSE [pipe EXCEPT ![p] = @ \o <<line, line>>]

\* write() to the end the table holds now; on -1 it fails and nobody is told.
Delivered(p) == IF p = NoPipe THEN pipe ELSE [pipe EXCEPT ![p] = Append(@, line)]

RouteLine ==
  /\ Step(Reader, "registered", "loop")
  /\ pipe' = Delivered(outputFd[slot[Reader]].write)
  /\ UNCHANGED <<slot, fd, outputFd, opened, input, line, ending>>

ReaderThread ==
  TestFinished \/ ScanLine \/ TryRegisterClient(Reader) \/ DropLine \/ RouteLine

-----------------------------------------------------------------------------
\* The end of the proxy.  SIGINT has its default action, which ends the process,
\* unless the reader thread is no more: it has left its loop, and terminated.

SetFinished ==
  /\ Step(Main, "idle", "kill")
  /\ finished' = TRUE
  /\ UNCHANGED <<slot, fd, table, input, line, killed, freed>>

KillReader ==
  /\ Step(Main, "kill", "join")
  /\ killed' \in BOOLEAN /\ (pc[Reader] # "exited" => killed')
  /\ UNCHANGED <<slot, fd, table, input, line, finished, freed>>

JoinAndFree ==
  /\ Step(Main, "join", "ended")
  /\ pc[Reader] = "exited"
  /\ freed' = TRUE
  /\ UNCHANGED <<slot, fd, table, input, line, finished, killed>>

EndProxy == SetFinished \/ KillReader \/ JoinAndFree

-----------------------------------------------------------------------------
(* Properties *)

Ends == Pipes \cup {NoPipe}

RoutingTypeOK ==
  /\ pc \in [Threads -> {"idle", "check", "open", "store", "registered", "failed", "read",
                         "blocked", "loop", "scan", "exited", "kill", "join", "ended"}]
  /\ slot \in [Threads -> Threads]
  /\ fd \in [Threads -> Ends]
  /\ outputFd \in [Clients -> [read : Ends, write : Ends]]
  /\ opened \in 0 .. MaxPipes
  /\ finished \in BOOLEAN /\ killed \in BOOLEAN /\ freed \in BOOLEAN

\* A client that reads, reads the pipe the reader thread writes its messages to.
ReadsItsOwnPipe ==
  \A c \in Clients :
    pc[c] = "blocked" => fd[c] # NoPipe /\ outputFd[c] = [read |-> fd[c], write |-> fd[c]]

=============================================================================
