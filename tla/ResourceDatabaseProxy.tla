----------------------- MODULE ResourceDatabaseProxy -----------------------
(***************************************************************************)
(* The resource database behind its proxy (resource_database_proxy.c),     *)
(* with every access to the shared tables a step of its own.               *)
(*                                                                         *)
(* attemptLockResourceProxy and releaseResourceProxy run under the         *)
(* semaphore `lock'.  waitResourceProxy and registerResourceProxy take no  *)
(* lock.  The resources are registered before the trains' threads start.   *)
(***************************************************************************)
EXTENDS Integers, FiniteSets

CONSTANTS Trains, Resources, Ids, Amounts, SemValueMax, Nobody, Nothing,
          Registrar    \* the thread that calls registerResourceProxy

ASSUME ProxyAssumption ==
  /\ Registrar \notin Trains
  /\ IsFiniteSet(Trains)
  /\ Resources \subseteq Ids
  /\ SemValueMax \in Nat \ {0}
  /\ Amounts \subseteq 0 .. SemValueMax
  /\ Nobody \notin Trains
  /\ Nothing \notin Ids

Threads == Trains \cup {Registrar}

VARIABLES
  registered, availability, owner, interest,  \* the tables of the database
  lock,        \* the value of the proxy's semaphore
  pc,          \* pc[th]: the next access of thread th
  arg,         \* arg[th]: the resource its call is about
  reg,         \* reg[th]: the units it registers, or the units it read
  known,       \* history: the resources whose registration has taken effect
  amount,      \* history: the amount each was registered with
  holds, want, woken   \* the callers, as in ResourceDatabase

tables  == <<registered, availability, owner, interest>>
history == <<known, amount>>
callers == <<holds, want, woken>>
locals  == <<pc, arg, reg>>
vars    == <<tables, lock, locals, history, callers>>

Uninit == -1

Init ==
  /\ registered = [r \in Resources |-> FALSE]
  /\ availability = [r \in Resources |-> 0]
  /\ owner = [r \in Resources |-> Nobody]
  /\ interest = [r \in Resources |-> Uninit]
  /\ lock = 1
  /\ pc = [th \in Threads |-> "idle"]
  /\ arg = [th \in Threads |-> Nothing]
  /\ reg = [th \in Threads |-> 0]
  /\ known = {}
  /\ amount = [r \in Resources |-> 0]
  /\ holds = [r \in Resources |-> {}]
  /\ want = [t \in Trains |-> Nothing]
  /\ woken = {}

Step(th, from, to) == pc[th] = from /\ pc' = [pc EXCEPT ![th] = to]

-----------------------------------------------------------------------------
\* registerResource: three writes, in this order.  It returns to the caller of
\* registerResourceProxy or to attemptLockResource.

MarkRegistered(th) ==
  /\ Step(th, "mark", "stock")
  /\ registered' = [registered EXCEPT ![arg[th]] = TRUE]
  /\ UNCHANGED <<availability, owner, interest, lock, arg, reg, history, callers>>

SetAvailability(th) ==
  /\ Step(th, "stock", "seminit")
  /\ availability' = [availability EXCEPT ![arg[th]] = reg[th]]
  /\ UNCHANGED <<registered, owner, interest, lock, arg, reg, history, callers>>

InitInterest(th) ==
  /\ Step(th, "seminit", IF th = Registrar THEN "idle" ELSE "check")
  /\ interest' = [interest EXCEPT ![arg[th]] = reg[th]]
  /\ IF th = Registrar
       THEN /\ known' = known \cup {arg[th]}
            /\ amount' = [amount EXCEPT ![arg[th]] = reg[th]]
       ELSE UNCHANGED history
  /\ UNCHANGED <<registered, availability, owner, lock, arg, reg, callers>>

RegisterResource(th) == MarkRegistered(th) \/ SetAvailability(th) \/ InitInterest(th)

\* The registrar registers resources that are not registered yet, then stops.
CallRegister(r, n) ==
  /\ Step(Registrar, "idle", "mark")
  /\ ~registered[r]
  /\ arg' = [arg EXCEPT ![Registrar] = r]
  /\ reg' = [reg EXCEPT ![Registrar] = n]
  /\ UNCHANGED <<tables, lock, history, callers>>

AllRegistered ==
  /\ Step(Registrar, "idle", "done")
  /\ UNCHANGED <<tables, lock, arg, reg, history, callers>>

-----------------------------------------------------------------------------
\* attemptLockResourceProxy

CallAttempt(t, r) ==
  /\ Step(t, "idle", "enter_attempt")
  /\ \/ want[t] = Nothing /\ (r \in Resources => t \notin holds[r])
     \/ want[t] = r /\ t \in woken
  /\ arg' = [arg EXCEPT ![t] = r]
  /\ UNCHANGED <<tables, lock, reg, history, callers>>

LockSkipped  == UNCHANGED lock
LockAcquired == lock = 1 /\ lock' = 0

\* sem_wait on the lock, then the test of the id against the size of the tables.
EnterAttempt(t) ==
  /\ Step(t, "enter_attempt", IF arg[t] \in Resources THEN "lookup" ELSE "refused")
  /\ LockAcquired
  /\ UNCHANGED <<tables, arg, reg, history, callers>>

LookUp(t) ==
  /\ Step(t, "lookup", IF registered[arg[t]] THEN "check" ELSE "mark")
  /\ reg' = [reg EXCEPT ![t] = 1]
  /\ UNCHANGED <<tables, lock, arg, history, callers>>

CheckAvailability(t) ==
  /\ Step(t, "check", IF availability[arg[t]] < 1 THEN "refused" ELSE "load")
  /\ UNCHANGED <<tables, lock, arg, reg, history, callers>>

LoadAvailability(t) ==
  /\ Step(t, "load", "take")
  /\ reg' = [reg EXCEPT ![t] = availability[arg[t]]]
  /\ UNCHANGED <<tables, lock, arg, history, callers>>

TakeUnit(t) ==
  /\ Step(t, "take", "own")
  /\ availability' = [availability EXCEPT ![arg[t]] = reg[t] - 1]
  /\ UNCHANGED <<registered, owner, interest, lock, arg, reg, history, callers>>

\* Here the resource is the train's.
SetOwner(t) ==
  /\ Step(t, "own", "leave")
  /\ owner' = [owner EXCEPT ![arg[t]] = t]
  /\ holds' = [holds EXCEPT ![arg[t]] = @ \cup {t}]
  /\ want' = [want EXCEPT ![t] = Nothing]
  /\ woken' = woken \ {t}
  /\ known' = known \cup {arg[t]}
  /\ amount' = [amount EXCEPT ![arg[t]] = IF arg[t] \in known THEN @ ELSE 1]
  /\ UNCHANGED <<registered, availability, interest, lock, arg, reg>>

LockKept     == UNCHANGED lock
LockReleased == lock' = lock + 1

\* sem_post on the lock; the answer is -1, and the train gives up or waits.
LeaveRefused(t) ==
  /\ Step(t, "refused", "idle")
  /\ LockReleased
  /\ \E w \in {Nothing} \cup ({arg[t]} \cap Resources) : want' = [want EXCEPT ![t] = w]
  /\ woken' = woken \ {t}
  /\ UNCHANGED <<tables, arg, reg, history, holds>>

\* sem_post on the lock at the end of a granted request and of every release.
Leave(t) ==
  /\ Step(t, "leave", "idle")
  /\ LockReleased
  /\ UNCHANGED <<tables, arg, reg, history, callers>>

-----------------------------------------------------------------------------
\* releaseResourceProxy

CallRelease(t, r) ==
  /\ Step(t, "idle", "enter_release")
  /\ t \in holds[r] /\ want[t] = Nothing
  /\ arg' = [arg EXCEPT ![t] = r]
  /\ UNCHANGED <<tables, lock, reg, history, callers>>

EnterRelease(t) ==
  /\ Step(t, "enter_release", "owned")
  /\ LockAcquired
  /\ UNCHANGED <<tables, arg, reg, history, callers>>

CheckOwner(t) ==
  /\ Step(t, "owned", IF owner[arg[t]] = t THEN "isregistered" ELSE "leave")
  /\ UNCHANGED <<tables, lock, arg, reg, history, callers>>

CheckRegistered(t) ==
  /\ Step(t, "isregistered", IF registered[arg[t]] THEN "reload" ELSE "leave")
  /\ UNCHANGED <<tables, lock, arg, reg, history, callers>>

ReloadAvailability(t) ==
  /\ Step(t, "reload", "return")
  /\ reg' = [reg EXCEPT ![t] = availability[arg[t]]]
  /\ UNCHANGED <<tables, lock, arg, history, callers>>

ReturnUnit(t) ==
  /\ Step(t, "return", "signal")
  /\ availability' = [availability EXCEPT ![arg[t]] = reg[t] + 1]
  /\ UNCHANGED <<registered, owner, interest, lock, arg, reg, history, callers>>

\* Here the resource is free again.
SignalInterest(t) ==
  /\ Step(t, "signal", "leave")
  /\ interest' = [interest EXCEPT ![arg[t]] = IF @ < SemValueMax THEN @ + 1 ELSE @]
  /\ holds' = [holds EXCEPT ![arg[t]] = @ \ {t}]
  /\ UNCHANGED <<registered, availability, owner, lock, arg, reg, history, want, woken>>

-----------------------------------------------------------------------------
\* waitResourceProxy: one sem_wait, outside the lock.

WaitResource(t, r) ==
  /\ pc[t] = "idle" /\ want[t] = r /\ t \notin woken
  /\ interest[r] >= 1 \/ interest[r] = Uninit
  /\ interest' = [interest EXCEPT ![r] = IF @ = Uninit THEN @ ELSE @ - 1]
  /\ woken' = woken \cup {t}
  /\ UNCHANGED <<registered, availability, owner, lock, locals, history, holds, want>>

-----------------------------------------------------------------------------

Inside(t) ==
  \/ LookUp(t) \/ RegisterResource(t) \/ CheckAvailability(t)
  \/ LoadAvailability(t) \/ TakeUnit(t) \/ SetOwner(t) \/ LeaveRefused(t)
  \/ CheckOwner(t) \/ CheckRegistered(t) \/ ReloadAvailability(t)
  \/ ReturnUnit(t) \/ SignalInterest(t) \/ Leave(t)

RegistrarNext ==
  \/ \E r \in Resources, n \in Amounts : CallRegister(r, n)
  \/ RegisterResource(Registrar)
  \/ AllRegistered

TrainNext(t) ==
  \/ \E r \in Ids : CallAttempt(t, r)
  \/ \E r \in Resources : CallRelease(t, r) \/ WaitResource(t, r)
  \/ EnterAttempt(t) \/ EnterRelease(t) \/ Inside(t)

Next ==
  \/ RegistrarNext
  \/ pc[Registrar] = "done" /\ \E t \in Trains : TrainNext(t)

Spec == Init /\ [][Next]_vars

\* A thread that is not blocked runs on to the end of its call.
FairSpec == Spec /\ \A t \in Trains : WF_vars(pc[Registrar] = "done" /\ Inside(t))

-----------------------------------------------------------------------------
(* Properties *)

Outside == {"idle", "done", "enter_attempt", "enter_release"}

TypeOK ==
  /\ registered \in [Resources -> BOOLEAN]
  /\ availability \in [Resources -> 0 .. SemValueMax]
  /\ owner \in [Resources -> Trains \cup {Nobody}]
  /\ interest \in [Resources -> Uninit .. SemValueMax]
  /\ lock \in 0 .. 1
  /\ pc \in [Threads -> Outside \cup
       {"mark", "stock", "seminit", "lookup", "check", "load", "take", "own", "refused",
        "owned", "isregistered", "reload", "return", "signal", "leave"}]
  /\ arg \in [Threads -> Ids \cup {Nothing}]
  /\ reg \in [Threads -> 0 .. SemValueMax]
  /\ known \subseteq Resources
  /\ amount \in [Resources -> Amounts \cup {0, 1}]
  /\ holds \in [Resources -> SUBSET Trains]
  /\ want \in [Trains -> Resources \cup {Nothing}]
  /\ woken \subseteq Trains

\* The semaphore is a lock: its value says whether a train's thread is between
\* the sem_wait and the sem_post, and no two of them are there at once.
LockGuards ==
  Cardinality({t \in Trains : pc[t] \notin Outside}) = 1 - lock

\* resource_manager.h says of the proxy that at most one modification can be
\* made to the database at a time, and the proxy's header that it synchronizes
\* access via a semaphore.  What that is for: two trains never hold a resource
\* that has one unit.
OneUnitOneTrain ==
  \A r \in known : amount[r] = 1 => Cardinality(holds[r]) <= 1

\* A thread that took the lock gives it back, whatever the answer to its call.
LockAlwaysFreed == lock = 0 ~> lock = 1

\* What is seen of the tables through the lock: a request takes effect when the
\* owner is set (its first write may come as early as the registration), a
\* release when the waiters are signalled, a refusal when the lock is given back.
At(label, r) == \E t \in Trains : pc[t] = label /\ arg[t] = r

Free(r) ==
  IF At("own", r) THEN availability[r] + 1
  ELSE IF At("signal", r) THEN availability[r] - 1
  ELSE availability[r]

seenRegistered   == [r \in Resources |-> r \in known]
seenAvailability == [r \in Resources |-> IF r \in known THEN Free(r) ELSE 0]
seenInterest     == [r \in Resources |-> IF r \in known THEN interest[r] ELSE Uninit]

Database == INSTANCE ResourceDatabase WITH
  registered <- seenRegistered, availability <- seenAvailability, interest <- seenInterest

\* The calls of the proxy, access by access under the lock, are atomic: each does
\* what the call of the database does in one step.
ImplementsDatabase == Database!Spec

=============================================================================
