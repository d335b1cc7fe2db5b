------------------------------ MODULE PlcProxy ------------------------------
(***************************************************************************)
(* The train manager's proxy of the PLC (plc_proxy_cli.c).  A train's      *)
(* thread registers with it when it reads, so the PLC may speak to a train *)
(* that is not registered yet: the reader thread then registers it too.    *)
(*                                                                         *)
(* sendMessagePlcProxy prints its message and leaves the state alone.      *)
(***************************************************************************)
EXTENDS RoutingProxy

CONSTANTS MaxReads,     \* bound: the reads each train makes
          MaxMessages   \* bound: the messages of the PLC to each train

\* A line names a train; the PLC numbers its messages from 1, and 0 is the
\* number of what it never sent.
Lines == [target : Ids, about : Nat]

ASSUME PlcAssumption == MaxReads \in Nat /\ MaxMessages \in Nat /\ NoLine \notin Lines

VARIABLES
  reads,    \* reads[c]: how often train c called readMessagePlcProxy
  emitted,  \* emitted[c]: how many messages the PLC sent it
  got,      \* got[c]: the message it read last
  count     \* count[c]: how many it read

trainVars == <<reads, emitted, got, count>>
vars == <<routingVars, trainVars>>

Init ==
  /\ RoutingInit
  /\ reads = [c \in Ids |-> 0]
  /\ emitted = [c \in Ids |-> 0]
  /\ got = [c \in Ids |-> NoLine]
  /\ count = [c \in Ids |-> 0]

-----------------------------------------------------------------------------
\* readMessagePlcProxy: register, then read; NULL for an id out of range.

readMessagePlcProxy(c) ==
  /\ Step(c, "idle", "check")
  /\ reads[c] < MaxReads
  /\ reads' = [reads EXCEPT ![c] = @ + 1]
  /\ UNCHANGED <<slot, fd, table, input, line, ending, emitted, got, count>>

plcProxyTryRegisterClient(th) == TryRegisterClient(th) /\ UNCHANGED trainVars

ReturnNull(c) ==
  /\ Step(c, "failed", "idle")
  /\ UNCHANGED <<slot, fd, table, input, line, ending, trainVars>>

ReadMessage(c) ==
  /\ Step(c, "registered", "blocked")
  /\ StartRead(c)
  /\ UNCHANGED trainVars

ReturnMessage(c) ==
  /\ Step(c, "blocked", "idle")
  /\ FinishRead(c)
  /\ got' = [got EXCEPT ![c] = Head(pipe[fd[c]])]
  /\ count' = [count EXCEPT ![c] = @ + 1]
  /\ UNCHANGED <<reads, emitted>>

Train(c) ==
  \/ readMessagePlcProxy(c) \/ plcProxyTryRegisterClient(c) \/ ReturnNull(c)
  \/ ReadMessage(c) \/ ReturnMessage(c)

plcProxyMsgReceiverThread == ReaderThread /\ UNCHANGED trainVars

endPlcProxy == EndProxy /\ UNCHANGED trainVars

\* The PLC sends a message to a train, registered or not.
Emit(c) ==
  /\ emitted[c] < MaxMessages
  /\ emitted' = [emitted EXCEPT ![c] = @ + 1]
  /\ input' = Append(input, [target |-> c, about |-> emitted[c] + 1])
  /\ UNCHANGED <<pc, slot, fd, table, line, ending, reads, got, count>>

-----------------------------------------------------------------------------

Next ==
  \/ \E c \in Ids : Train(c) \/ Emit(c)
  \/ plcProxyMsgReceiverThread
  \/ endPlcProxy

Spec == Init /\ [][Next]_vars

\* The threads that can run are run.
FairSpec ==
  /\ Spec
  /\ \A c \in Ids : WF_vars(Train(c))
  /\ WF_vars(plcProxyMsgReceiverThread)

-----------------------------------------------------------------------------
(* Properties *)

TypeOK ==
  /\ RoutingTypeOK
  /\ reads \in [Ids -> 0 .. MaxReads]
  /\ emitted \in [Ids -> 0 .. MaxMessages]
  /\ count \in [Ids -> 0 .. MaxReads]

\* A train reads the messages for it and no others, in the order the PLC sent
\* them and each at most once, even when two threads register it at once.
InOrderOnce ==
  [][\A c \in Clients :
       count'[c] # count[c] =>
         /\ got'[c].target = c
         /\ got[c] # NoLine => got'[c].about > got[c].about]_vars

\* Neither the train nor the reader thread is about to replace its pipe.
Settled(c) ==
  /\ outputFd[c] = [read |-> fd[c], write |-> fd[c]]
  /\ ~(pc[Reader] \in {"open", "store"} /\ slot[Reader] = c)

\* Once its pipe is settled, a train that reads gets the next message for it:
\* neither bad lines nor messages for other trains hold it up.
SettledReadReturns ==
  \A c \in Clients :
    pc[c] = "blocked" /\ Settled(c) /\ (\E i \in 1 .. Len(input) : input[i].target = c)
      ~> pc[c] # "blocked" \/ finished

\* readMessagePlcProxy returns the received message, or NULL on failure (its
\* comment): it returns once there is a message for the train.
MessageEndsRead ==
  \A c \in Clients :
    pc[c] = "blocked" /\ emitted[c] > count[c] ~> pc[c] # "blocked" \/ finished

=============================================================================
