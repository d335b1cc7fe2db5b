-------------------------- MODULE ResourceManager --------------------------
(***************************************************************************)
(* The resource manager's process (resource_manager.c and its main), over  *)
(* the TCP wrappers (comm_general.c), which the processes of the train     *)
(* managers use too: what initResourceManager initialises, step by step,   *)
(* and gives back when a step fails; the loop of accepts; and the end.     *)
(*                                                                         *)
(* Nobody calls listen(): connect() is refused and accept() fails at once. *)
(* Nothing in the source sets the flag that ends main's loop either; here  *)
(* it may end, so that what follows the loop is checked.  connectSocket,   *)
(* which main calls first, is defined nowhere: it is taken to open a       *)
(* socket or to fail.                                                      *)
(***************************************************************************)
EXTENDS Naturals

CONSTANTS Main,     \* the process of the resource manager
          Managers  \* the processes of the train managers

ASSUME ManagersAssumption == Main \notin Managers

Processes == Managers \cup {Main}

VARIABLES
  pc,       \* pc[p]: where process p is
  open,     \* open[p]: how many sockets it has
  socketFd, \* 1 if main has a socket of its own, which it uses for nothing
  held,     \* what the manager has initialised besides
  database  \* the database proxy exists

vars == <<pc, open, socketFd, held, database>>

Semaphores == {"queueAvailability", "queueAccess", "sendAccess"}

Init ==
  /\ pc = [p \in Processes |-> IF p = Main THEN "start" ELSE "socket"]
  /\ open = [p \in Processes |-> 0]
  /\ socketFd = 0
  /\ held = {}
  /\ database = FALSE

Step(p, from, to) == pc[p] = from /\ pc' = [pc EXCEPT ![p] = to]

-----------------------------------------------------------------------------
\* tcpCreateSocketWrapper: socket(), a test of the arguments, and bind() for a
\* server.  Where the last two fail it returns -1 and leaves the socket open.

CreateSocket(p) ==
  /\ Step(p, "socket", "arguments")
  /\ open' = [open EXCEPT ![p] = @ + 1]
  /\ UNCHANGED <<socketFd, held, database>>

Fails(p, from) ==
  /\ Step(p, from, "minusOne")
  /\ UNCHANGED <<socketFd, open, held, database>>

TestArguments(p) ==
  /\ Step(p, "arguments", IF p = Main THEN "bind" ELSE "connect")
  /\ UNCHANGED <<socketFd, open, held, database>>

Bind ==
  /\ Step(Main, "bind", "serving")
  /\ UNCHANGED <<socketFd, open, held, database>>

tcpCreateSocketWrapper(p) ==
  \/ CreateSocket(p) \/ Fails(p, "socket")
  \/ TestArguments(p) \/ Fails(p, "arguments")
  \/ p = Main /\ Bind
  \/ Fails(p, "bind")

tcpConnectWrapper(m) == Fails(m, "connect")

\* A train manager that has no connection ends, and may be started again.
Restart(m) ==
  /\ Step(m, "minusOne", "socket")
  /\ open' = [open EXCEPT ![m] = 0]
  /\ UNCHANGED <<socketFd, held, database>>

trainManager(m) == tcpCreateSocketWrapper(m) \/ tcpConnectWrapper(m) \/ Restart(m)

-----------------------------------------------------------------------------
\* main, up to the manager.

\* The result is not tested, and no call closes the socket.
connectSocket ==
  /\ Step(Main, "start", "main")
  /\ \/ socketFd' = 1 /\ open' = [open EXCEPT ![Main] = @ + 1]
     \/ UNCHANGED <<socketFd, open>>
  /\ UNCHANGED <<held, database>>

\* The end of the process gives back what it had.  It may be started again.
ProcessEnds(from) ==
  /\ Step(Main, from, "start")
  /\ open' = [open EXCEPT ![Main] = 0]
  /\ socketFd' = 0 /\ held' = {} /\ database' = FALSE

\* Where it fails it ends the process.
initRessourceDatabaseProxy ==
  \/ /\ Step(Main, "main", "malloc")
     /\ database' = TRUE
     /\ UNCHANGED <<socketFd, open, held>>
  \/ ProcessEnds("main")

-----------------------------------------------------------------------------
\* initResourceManager: malloc, three semaphores, the socket.

Malloc ==
  /\ \/ Step(Main, "malloc", "queueAvailability") /\ held' = {"manager"}
     \/ Step(Main, "malloc", "null") /\ UNCHANGED held
  /\ UNCHANGED <<socketFd, open, database>>

Following == [queueAvailability |-> "queueAccess", queueAccess |-> "sendAccess",
              sendAccess |-> "socket"]

InitSemaphore(s) ==
  /\ Step(Main, s, Following[s])
  /\ held' = held \cup {s}
  /\ UNCHANGED <<socketFd, open, database>>

\* The semaphores destroyed where a step fails: those before it.
DestroysLast ==
  [queueAvailability |-> {}, queueAccess |-> {"queueAvailability"},
   sendAccess |-> {"queueAccess"}, minusOne |-> Semaphores]

Destroys ==
  [queueAvailability |-> {}, queueAccess |-> {"queueAvailability"},
   sendAccess |-> {"queueAvailability", "queueAccess"}, minusOne |-> Semaphores]

Fail(step) ==
  /\ Step(Main, step, "null")
  /\ held' = held \ (Destroys[step] \cup {"manager"})
  /\ UNCHANGED <<socketFd, open, database>>

initResourceManager ==
  \/ Malloc
  \/ \E s \in Semaphores : InitSemaphore(s)
  \/ tcpCreateSocketWrapper(Main)
  \/ \E step \in DOMAIN Destroys : Fail(step)

\* Tests for NULL, and tries again.
RetriesStart ==
  /\ Step(Main, "null", "malloc")
  /\ UNCHANGED <<socketFd, open, held, database>>

\* main's loop reads the flag of the manager, NULL or not: without one the
\* process ends.
Crash == ProcessEnds("null")

-----------------------------------------------------------------------------
\* The loop, and the end.

acceptTrainManager ==
  /\ Step(Main, "serving", "refused")
  /\ UNCHANGED <<socketFd, open, held, database>>

TestFinished ==
  /\ Step(Main, "refused", "serving")
  /\ UNCHANGED <<socketFd, open, held, database>>

endResourceManager ==
  /\ Step(Main, "refused", "ended")
  /\ open' = [open EXCEPT ![Main] = @ - 1]
  /\ held' = held \ (Semaphores \cup {"manager"})
  /\ UNCHANGED <<socketFd, database>>

endResourceDataBaseProxy ==
  /\ Step(Main, "ended", "return")
  /\ database' = FALSE
  /\ UNCHANGED <<socketFd, open, held>>

ReturnFromMain == ProcessEnds("return")

-----------------------------------------------------------------------------

Next ==
  \/ connectSocket \/ initRessourceDatabaseProxy \/ initResourceManager \/ Crash
  \/ acceptTrainManager \/ TestFinished
  \/ endResourceManager \/ endResourceDataBaseProxy \/ ReturnFromMain
  \/ \E m \in Managers : trainManager(m)

Spec == Init /\ [][Next]_vars

-----------------------------------------------------------------------------
(* Properties *)

\* The sockets are counted: a train manager has one at most, main two.
TypeOK ==
  /\ pc \in [Processes -> Semaphores \cup {"start", "main", "malloc", "socket", "arguments",
               "bind", "connect", "minusOne", "null", "serving", "refused", "ended", "return"}]
  /\ open \in [Processes -> 0 .. 2]
  /\ \A m \in Managers : open[m] <= 1
  /\ socketFd \in {0, 1}
  /\ held \subseteq Semaphores \cup {"manager"}
  /\ database \in BOOLEAN

\* Whatever step of initResourceManager fails, it returns a complete manager or
\* NULL and nothing initialised; the end of a manager leaves nothing but main's
\* own socket; nothing of the manager outlives the database it was given.
\* (The socket of a wrapper that failed stays open: it is all that is left.)
CompleteOrNothing ==
  /\ pc[Main] \in {"serving", "refused"} =>
       held = Semaphores \cup {"manager"} /\ open[Main] = socketFd + 1
  /\ pc[Main] = "null" => held = {} /\ open[Main] \in {socketFd, socketFd + 1}
  /\ pc[Main] \in {"main", "malloc", "ended", "return"} =>
       held = {} /\ open[Main] = socketFd
  /\ held # {} => database

=============================================================================
