------------------------ MODULE ResourceManagerProxy ------------------------
(***************************************************************************)
(* The train manager's proxy of the resource manager                       *)
(* (resource_manager_proxy_cli.c; resource_manager_proxy_remote.c differs  *)
(* in its includes only): clients that request and release resources and   *)
(* block for the answer, and the resource manager, which answers each      *)
(* request it sees once, in any order.                                     *)
(***************************************************************************)
EXTENDS RoutingProxy

CONSTANTS Answers,   \* what the resource manager can answer
          MaxCalls,  \* bound: the calls each client makes
          MaxLines   \* bound: a mistyped line is added to fewer than these

\* The lines "client,answer", with the call that each answers.
Lines == [target : Ids, about : 0 .. MaxCalls, answer : Answers]

ASSUME CallsAssumption ==
  /\ MaxCalls \in Nat /\ MaxLines \in Nat \ {0}
  /\ "GRANTED" \in Answers
  /\ NoLine \notin Lines

VARIABLES
  calls,     \* calls[c]: how many calls client c has made
  asked,     \* the calls the resource manager saw and did not answer
  got,       \* got[c]: the answer c read last
  returned   \* returned[c]: what its last call returned

clientVars == <<calls, asked, got, returned>>
vars == <<routingVars, clientVars>>

Init ==
  /\ RoutingInit
  /\ calls = [c \in Ids |-> 0]
  /\ asked = {}
  /\ got = [c \in Ids |-> NoLine]
  /\ returned = [c \in Ids |-> 0]

-----------------------------------------------------------------------------
\* requestResource and releaseResource: register, print, read the answer.  They
\* differ in the word they print; ResourceManager's answer has the same form.

Call(c) ==
  /\ Step(c, "idle", "check")
  /\ calls[c] < MaxCalls
  /\ ~finished
  /\ calls' = [calls EXCEPT ![c] = @ + 1]
  /\ UNCHANGED <<slot, fd, table, input, line, ending, asked, got, returned>>

resManagerTryRegisterClient(th) == TryRegisterClient(th) /\ UNCHANGED clientVars

ReturnErrno(c) ==
  /\ Step(c, "failed", "idle")
  /\ returned' = [returned EXCEPT ![c] = 1]
  /\ UNCHANGED <<slot, fd, table, input, line, ending, calls, asked, got>>

ReturnFailure(c) ==
  /\ Step(c, "failed", "idle")
  /\ returned' = [returned EXCEPT ![c] = -1]
  /\ UNCHANGED <<slot, fd, table, input, line, ending, calls, asked, got>>

\* printf between sem_wait and sem_post of the mutex, which nothing else takes.
PrintRequest(c) ==
  /\ Step(c, "registered", "read")
  /\ asked' = asked \cup {[target |-> c, about |-> calls[c]]}
  /\ UNCHANGED <<slot, fd, table, input, line, ending, calls, got, returned>>

ReadAnswer(c) ==
  /\ Step(c, "read", "blocked")
  /\ StartRead(c)
  /\ UNCHANGED clientVars

\* The answer is printed and not returned: the call returns 0 whatever it was.
ReturnAnswer(c) ==
  /\ Step(c, "blocked", "idle")
  /\ FinishRead(c)
  /\ got' = [got EXCEPT ![c] = Head(pipe[fd[c]])]
  /\ returned' = [returned EXCEPT ![c] = 0]
  /\ UNCHANGED <<calls, asked>>

Client(c) ==
  \/ Call(c) \/ resManagerTryRegisterClient(c) \/ ReturnFailure(c)
  \/ PrintRequest(c) \/ ReadAnswer(c) \/ ReturnAnswer(c)

resManagerMsgReceiverThread == ReaderThread /\ UNCHANGED clientVars

\* endResourceManagerProxy waits for nobody; here its caller waits for the calls
\* to return, as a call it cut off would have nothing to return to.
endResourceManagerProxy ==
  /\ \A c \in Ids : pc[c] = "idle"
  /\ EndProxy
  /\ UNCHANGED clientVars

-----------------------------------------------------------------------------
\* The resource manager behind the terminal, where an operator types its answers
\* "client,answer" and may name a client that does not exist.

AnswerCall ==
  \E call \in asked, answer \in Answers :
    /\ input' = Append(input, [target |-> call.target, about |-> call.about, answer |-> answer])
    /\ asked' = asked \ {call}
    /\ UNCHANGED <<pc, slot, fd, table, line, ending, calls, got, returned>>

NameAStranger ==
  \E s \in Strangers :
    /\ Len(input) < MaxLines
    /\ input' = Append(input, [target |-> s, about |-> 0, answer |-> "GRANTED"])
    /\ UNCHANGED <<pc, slot, fd, table, line, ending, clientVars>>

-----------------------------------------------------------------------------

Next ==
  \/ \E c \in Ids : Client(c)
  \/ resManagerMsgReceiverThread
  \/ endResourceManagerProxy
  \/ AnswerCall \/ NameAStranger

Spec == Init /\ [][Next]_vars

\* The threads run, and the resource manager answers what it was asked.
Fairness ==
  /\ \A c \in Ids : WF_vars(Client(c))
  /\ WF_vars(resManagerMsgReceiverThread)
  /\ WF_vars(endResourceManagerProxy /\ pc[Main] # "idle")
  /\ \A call \in [target : Clients, about : 1 .. MaxCalls] :
       WF_vars(call \in asked /\ AnswerCall /\ call \notin asked')

FairSpec == Spec /\ Fairness

-----------------------------------------------------------------------------
(* Properties *)

TypeOK ==
  /\ RoutingTypeOK
  /\ calls \in [Ids -> 0 .. MaxCalls]
  /\ asked \subseteq [target : Clients, about : 1 .. MaxCalls]
  /\ returned \in [Ids -> {0, -1}]

\* Every call gets the answer to the request it made: not the answer to another
\* client's request, and not the late answer to an earlier one of its own.
AnswersItsRequest ==
  \A c \in Ids :
    pc[c] = "idle" /\ calls[c] > 0 /\ returned[c] = 0
      => got[c] # NoLine /\ got[c].target = c /\ got[c].about = calls[c]

\* A call returns, with lines for unknown clients between the answers and the
\* calls of others under way.
CallsReturn == \A c \in Ids : pc[c] = "check" ~> pc[c] = "idle"

=============================================================================
