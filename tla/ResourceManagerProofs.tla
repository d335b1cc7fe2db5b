----------------------- MODULE ResourceManagerProofs -----------------------
(***************************************************************************)
(* A resource manager is complete or leaves nothing behind, whatever       *)
(* fails, for any train managers.                                          *)
(***************************************************************************)
EXTENDS ResourceManager, TLAPS

\* What has been initialised, and how many sockets are open, where main is.  A
\* start that failed may have left its socket; the crash that follows closes it.
Rung ==
  /\ pc[Main] = "start" => held = {} /\ open[Main] = 0 /\ socketFd = 0
  /\ pc[Main] \in {"main", "malloc", "ended", "return"} => held = {} /\ open[Main] = socketFd
  /\ pc[Main] = "null" => held = {} /\ open[Main] \in {socketFd, socketFd + 1}
  /\ pc[Main] = "queueAvailability" => held = {"manager"} /\ open[Main] = socketFd
  /\ pc[Main] = "queueAccess" =>
       held = {"manager", "queueAvailability"} /\ open[Main] = socketFd
  /\ pc[Main] = "sendAccess" =>
       held = {"manager", "queueAvailability", "queueAccess"} /\ open[Main] = socketFd
  /\ pc[Main] = "socket" => held = Semaphores \cup {"manager"} /\ open[Main] = socketFd
  /\ pc[Main] = "minusOne" =>
       held = Semaphores \cup {"manager"} /\ open[Main] \in {socketFd, socketFd + 1}
  /\ pc[Main] \in {"arguments", "bind", "serving", "refused"} =>
       held = Semaphores \cup {"manager"} /\ open[Main] = socketFd + 1
  /\ pc[Main] # "connect"
  /\ pc[Main] \notin {"start", "main", "return"} => database

\* A train manager has a socket only after it asked for one.
OneSocket ==
  \A m \in Managers :
    /\ pc[m] \in {"socket", "arguments", "connect", "minusOne"}
    /\ pc[m] = "socket" => open[m] = 0

Ladder == TypeOK /\ Rung /\ OneSocket

LEMMA LadderInit == Init => Ladder
  <1> SUFFICES ASSUME Init PROVE Ladder
    OBVIOUS
  <1>1. /\ pc = [p \in Processes |-> IF p = Main THEN "start" ELSE "socket"]
        /\ open = [p \in Processes |-> 0]
        /\ socketFd = 0 /\ held = {} /\ database = FALSE
    BY DEF Init
  <1>2. /\ Main \in Processes /\ pc[Main] = "start" /\ open[Main] = 0
        /\ \A m \in Managers : pc[m] = "socket" /\ open[m] = 0
    BY <1>1, ManagersAssumption DEF Processes
  <1>3. TypeOK
    <2>1. open \in [Processes -> 0 .. 2]
      BY <1>1
    <2>2. pc \in [Processes -> Semaphores \cup {"start", "main", "malloc", "socket",
                    "arguments", "bind", "connect", "minusOne", "null", "serving", "refused",
                    "ended", "return"}]
      BY <1>1
    <2>3. \A m \in Managers : open[m] <= 1
      BY <1>2
    <2>4. /\ socketFd \in {0, 1} /\ held \subseteq Semaphores \cup {"manager"}
          /\ database \in BOOLEAN
      BY <1>1
    <2> QED
      BY <2>1, <2>2, <2>3, <2>4, Zenon DEF TypeOK
  <1> QED
    BY <1>1, <1>2, <1>3 DEF Ladder, Rung, OneSocket

\* The steps of a train manager leave main alone.
LEMMA TrainManagerStep ==
  ASSUME Ladder, NEW m \in Managers, trainManager(m)
  PROVE  Ladder'
  <1> USE ManagersAssumption DEF Ladder, TypeOK, Rung, OneSocket, Processes, Step
  <1>1. CASE CreateSocket(m)
    BY <1>1 DEF CreateSocket
  <1>2. CASE Fails(m, "socket") \/ Fails(m, "arguments") \/ Fails(m, "connect")
    BY <1>2 DEF Fails
  <1>3. CASE TestArguments(m)
    BY <1>3 DEF TestArguments
  <1>4. CASE Restart(m)
    BY <1>4 DEF Restart
  <1> QED
    BY <1>1, <1>2, <1>3, <1>4 DEF trainManager, tcpCreateSocketWrapper, tcpConnectWrapper,
      Bind, Fails

\* Each step of the initialisation adds what its failure takes away.
LEMMA InitStep ==
  ASSUME Ladder, initResourceManager
  PROVE  Ladder'
  <1> USE ManagersAssumption DEF Ladder, TypeOK, Rung, OneSocket, Processes, Step, Semaphores
  <1>1. CASE Malloc
    BY <1>1 DEF Malloc
  <1>2. ASSUME NEW s \in Semaphores, InitSemaphore(s) PROVE Ladder'
    BY <1>2 DEF InitSemaphore, Following
  <1>3. CASE CreateSocket(Main)
    BY <1>3 DEF CreateSocket
  <1>4. CASE Fails(Main, "socket") \/ Fails(Main, "arguments") \/ Fails(Main, "bind")
    BY <1>4 DEF Fails
  <1>5. CASE TestArguments(Main)
    BY <1>5 DEF TestArguments
  <1>6. CASE Bind
    BY <1>6 DEF Bind
  <1>7. ASSUME NEW step \in DOMAIN Destroys, Fail(step) PROVE Ladder'
    BY <1>7 DEF Fail, Destroys
  <1> QED
    BY <1>1, <1>2, <1>3, <1>4, <1>5, <1>6, <1>7
      DEF initResourceManager, tcpCreateSocketWrapper

LEMMA TypedExcept ==
  ASSUME NEW S, NEW T, NEW f \in [S -> T], NEW x, NEW y \in T
  PROVE  [f EXCEPT ![x] = y] \in [S -> T]
  OBVIOUS

\* Nothing of a process that ended is left.
LEMMA ProcessEndsStep ==
  ASSUME Ladder, NEW from, ProcessEnds(from)
  PROVE  Ladder'
  <1>1. pc' = [pc EXCEPT ![Main] = "start"] /\ open' = [open EXCEPT ![Main] = 0]
    BY DEF ProcessEnds, Step
  <1>2. socketFd' = 0 /\ held' = {} /\ database' = FALSE
    BY DEF ProcessEnds
  <1>3. pc'[Main] = "start" /\ open'[Main] = 0
    BY <1>1 DEF Ladder, TypeOK, Processes
  <1>4. \A m \in Managers : pc'[m] = pc[m] /\ open'[m] = open[m]
    BY <1>1, ManagersAssumption DEF Ladder, TypeOK, Processes
  <1>5. TypeOK'
    <2> DEFINE Steps == Semaphores \cup {"start", "main", "malloc", "socket", "arguments",
                          "bind", "connect", "minusOne", "null", "serving", "refused",
                          "ended", "return"}
    <2>1. open' \in [Processes -> 0 .. 2]
      <3>1. open \in [Processes -> 0 .. 2] /\ 0 \in 0 .. 2
        BY DEF Ladder, TypeOK
      <3> QED
        BY ONLY <1>1, <3>1, TypedExcept, Zenon
    <2>2. pc' \in [Processes -> Steps]
      <3>1. pc \in [Processes -> Steps] /\ "start" \in Steps
        BY DEF Ladder, TypeOK
      <3> QED
        BY ONLY <1>1, <3>1, TypedExcept, Zenon
    <2>3. \A m \in Managers : open'[m] <= 1
      BY <1>4 DEF Ladder, TypeOK
    <2>4. /\ socketFd' \in {0, 1} /\ held' \subseteq Semaphores \cup {"manager"}
          /\ database' \in BOOLEAN
      BY <1>2
    <2> QED
      BY <2>1, <2>2, <2>3, <2>4, Zenon DEF TypeOK
  <1>6. Rung'
    BY <1>2, <1>3 DEF Rung
  <1> QED
    BY <1>4, <1>5, <1>6 DEF Ladder, OneSocket

LEMMA LadderStep ==
  ASSUME Ladder, [Next]_vars
  PROVE  Ladder'
  <1> USE ManagersAssumption DEF Ladder, TypeOK, Rung, OneSocket, Processes, Step, Semaphores
  <1>1. CASE UNCHANGED vars
    BY <1>1 DEF vars
  <1>2. CASE connectSocket
    BY <1>2 DEF connectSocket
  <1>3. CASE initRessourceDatabaseProxy
    BY <1>3, ProcessEndsStep DEF initRessourceDatabaseProxy
  <1>4. CASE acceptTrainManager \/ TestFinished
    BY <1>4 DEF acceptTrainManager, TestFinished
  <1>5. CASE endResourceManager
    BY <1>5 DEF endResourceManager
  <1>6. CASE endResourceDataBaseProxy
    BY <1>6 DEF endResourceDataBaseProxy
  <1>7. CASE Crash \/ ReturnFromMain
    BY <1>7, ProcessEndsStep DEF Crash, ReturnFromMain
  <1> QED
    BY <1>1, <1>2, <1>3, <1>4, <1>5, <1>6, <1>7, InitStep, TrainManagerStep DEF Next

\* Where main is tells what is initialised, in every reachable state.
THEOREM LadderHolds == Spec => []Ladder
  <1>1. Ladder /\ [Next]_vars => Ladder'
    BY LadderStep
  <1> QED
    BY LadderInit, <1>1, PTL DEF Spec

\* Main has two sockets at most, its own and the manager's, and a train manager
\* one, whatever fails and however often a process is started again.
THEOREM TypeCorrect == Spec => []TypeOK
  <1>1. Ladder => TypeOK
    BY DEF Ladder
  <1> QED
    BY LadderHolds, <1>1, PTL

\* Whichever step of the initialisation fails, what it had initialised is given
\* back; what the caller gets is complete, and its end leaves main's own socket.
THEOREM NothingIsLeft == Spec => []CompleteOrNothing
  <1>1. Ladder => CompleteOrNothing
    BY DEF Ladder, Rung, CompleteOrNothing
  <1> QED
    BY LadderHolds, <1>1, PTL

=============================================================================
