-------------------------- MODULE ResourceDatabase --------------------------
(***************************************************************************)
(* The resource database of the resource manager (resource_database.c),    *)
(* every call of its interface taken as one step, together with the        *)
(* threads that call it on behalf of the trains.                           *)
(*                                                                         *)
(* A thread asks for a resource with attemptLockResource.  When it is      *)
(* refused it gives up, or calls waitResource and asks again once that     *)
(* returns.  It releases what it was granted.  ResourceDatabaseProxy takes *)
(* the calls apart into their memory accesses and implements this module.  *)
(***************************************************************************)
EXTENDS Integers, FiniteSets

CONSTANTS Trains,       \* the requesterId of every caller
          Resources,    \* the ids that index the tables: 0 .. MAX_RESOURCE_ID - 1
          Ids,          \* the ids callers ask for, in range or not
          Amounts,      \* the amounts registerResource is called with
          SemValueMax,  \* SEM_VALUE_MAX, where sem_post stops counting
          Nobody,       \* the owner of a resource never locked (-1 in the code)
          Nothing       \* "waits for no resource"

ASSUME DatabaseAssumption ==
  /\ IsFiniteSet(Trains)
  /\ Resources \subseteq Ids
  /\ SemValueMax \in Nat \ {0}
  /\ Amounts \subseteq 0 .. SemValueMax
  /\ Nobody \notin Trains
  /\ Nothing \notin Ids

VARIABLES
  registered,    \* registered[r]: has registerResource run for r?
  availability,  \* availability[r]: the units of r nobody has locked
  owner,         \* owner[r]: the last train that locked r
  interest,      \* interest[r]: the value of the semaphore waiters block on
  amount,        \* history: the amount r was registered with
  holds,         \* holds[r]: the trains that were granted r and did not release it
  want,          \* want[t]: the resource whose waitResource t is in, or is about
                 \* to ask for again
  woken          \* the trains whose waitResource returned and that ask again

database == <<registered, availability, owner, interest>>
callers  == <<holds, want, woken>>
vars     == <<database, amount, callers>>

\* malloc leaves the semaphores undefined until registerResource runs sem_init.
Uninit == -1

-----------------------------------------------------------------------------

Init ==
  /\ registered = [r \in Resources |-> FALSE]
  /\ availability = [r \in Resources |-> 0]
  /\ owner = [r \in Resources |-> Nobody]
  /\ interest = [r \in Resources |-> Uninit]
  /\ amount = [r \in Resources |-> 0]
  /\ holds = [r \in Resources |-> {}]
  /\ want = [t \in Trains |-> Nothing]
  /\ woken = {}

RegisterResource(r, n) ==
  /\ registered' = [registered EXCEPT ![r] = TRUE]
  /\ availability' = [availability EXCEPT ![r] = n]
  /\ interest' = [interest EXCEPT ![r] = n]
  /\ amount' = [amount EXCEPT ![r] = n]
  /\ UNCHANGED <<owner, callers>>

\* attemptLockResource registers a resource it does not know, with one unit.
UnitsTwice(r)    == IF registered[r] THEN availability[r] ELSE 2
Units(r)         == IF registered[r] THEN availability[r] ELSE 1
SignalsUninit(r) == interest[r]
Signals(r)       == IF registered[r] THEN interest[r] ELSE 1

LockableAtZero(r) == Units(r) >= 0
Lockable(r)       == Units(r) >= 1

GrantLock(t, r) ==
  /\ r \in Resources
  /\ Lockable(r)
  /\ registered' = [registered EXCEPT ![r] = TRUE]
  /\ availability' = [availability EXCEPT ![r] = Units(r) - 1]
  /\ interest' = [interest EXCEPT ![r] = Signals(r)]
  /\ amount' = [amount EXCEPT ![r] = IF registered[r] THEN @ ELSE 1]
  /\ owner' = [owner EXCEPT ![r] = t]
  /\ holds' = [holds EXCEPT ![r] = @ \cup {t}]
  /\ want' = [want EXCEPT ![t] = Nothing]
  /\ woken' = woken \ {t}

\* The answer is -1 for an id out of range and for a resource without a free
\* unit.  The caller gives up or goes on to wait for the resource.
RefuseLock(t, r) ==
  /\ r \in Resources => ~Lockable(r)
  /\ \/ want' = [want EXCEPT ![t] = Nothing]
     \/ r \in Resources /\ want' = [want EXCEPT ![t] = r]
  /\ woken' = woken \ {t}
  /\ UNCHANGED <<database, amount, holds>>

AttemptLockResource(t, r) == GrantLock(t, r) \/ RefuseLock(t, r)

\* sem_post fails without an effect at SEM_VALUE_MAX; the code ignores it.
SemPostLost(value)  == value
SemPostWraps(value) == value + 1
SemPost(value)      == IF value < SemValueMax THEN value + 1 ELSE value

AcceptRelease(t, r) ==
  /\ owner[r] = t
  /\ registered[r]
  /\ availability' = [availability EXCEPT ![r] = @ + 1]
  /\ interest' = [interest EXCEPT ![r] = SemPost(@)]
  /\ holds' = [holds EXCEPT ![r] = @ \ {t}]
  /\ UNCHANGED <<registered, owner, amount, want, woken>>

RefuseRelease(t, r) ==
  /\ owner[r] # t \/ ~registered[r]
  /\ UNCHANGED vars

ReleaseResource(t, r) == AcceptRelease(t, r) \/ RefuseRelease(t, r)

\* sem_wait returns once the value is positive.  On a semaphore that was never
\* initialised it may return as well.
WaitResource(t, r) ==
  /\ want[t] = r
  /\ t \notin woken
  /\ interest[r] >= 1 \/ interest[r] = Uninit
  /\ interest' = [interest EXCEPT ![r] = IF @ = Uninit THEN @ ELSE @ - 1]
  /\ woken' = woken \cup {t}
  /\ UNCHANGED <<registered, availability, owner, amount, holds, want>>

-----------------------------------------------------------------------------
\* What a thread may call next.

AsksFirst(t, r) ==
  /\ want[t] = Nothing
  /\ r \in Resources => t \notin holds[r]

AsksAgain(t, r) ==
  /\ want[t] = r
  /\ t \in woken

Retry(t, r) == AsksAgain(t, r) /\ AttemptLockResource(t, r)

\* A train that waits does nothing else; it releases what it holds before or after.
Returns(t, r) == t \in holds[r] /\ want[t] = Nothing

Next ==
  \/ \E t \in Trains, r \in Ids : AsksFirst(t, r) /\ AttemptLockResource(t, r)
  \/ \E t \in Trains, r \in Resources : Retry(t, r)
  \/ \E t \in Trains, r \in Resources : Returns(t, r) /\ ReleaseResource(t, r)
  \/ \E t \in Trains, r \in Resources : WaitResource(t, r)
  \* registerResource is for "a resource that HAS NOT YET been initialized".
  \/ \E r \in Resources, n \in Amounts : ~registered[r] /\ RegisterResource(r, n)

Spec == Init /\ [][Next]_vars

\* A thread that can run is run: a semaphore that stays positive lets a waiter
\* through, and a thread whose wait returned makes its next call.
Fairness ==
  \A t \in Trains, r \in Resources :
    WF_vars(WaitResource(t, r)) /\ WF_vars(Retry(t, r))

FairSpec == Spec /\ Fairness

\* The same, with trains that may release a resource they no longer hold, as a
\* train that repeats its request after a lost answer does.
ReleasesAgain(t, r) == t \notin holds[r] /\ want[t] = Nothing /\ ReleaseResource(t, r)

RepeatSpec ==
  Init /\ [][Next \/ \E t \in Trains, r \in Resources : ReleasesAgain(t, r)]_vars

-----------------------------------------------------------------------------
(* Properties *)

TypeOK ==
  /\ registered \in [Resources -> BOOLEAN]
  /\ availability \in [Resources -> Int]
  /\ owner \in [Resources -> Trains \cup {Nobody}]
  /\ interest \in [Resources -> Uninit .. SemValueMax]
  /\ amount \in [Resources -> Amounts \cup {0, 1}]
  /\ holds \in [Resources -> SUBSET Trains]
  /\ want \in [Trains -> Resources \cup {Nothing}]
  /\ woken \subseteq Trains

\* Mutual exclusion on the track: two trains never use the same resource.  The
\* requirement of the model in docs/ (at most one train manager has a given
\* resource at a time), kept by the availability counter and the owner check.
AtMostOneTrain ==
  \A r \in Resources : \A t, u \in holds[r] : t = u

\* No unit of a resource is lost or invented by locking and releasing: what is
\* free and what is in use add up to the amount it was registered with.
UnitsConserved ==
  \A r \in Resources :
    registered[r] => availability[r] + Cardinality(holds[r]) = amount[r]

\* The check that only the owner can release a resource never refuses a train
\* that was granted it: a resource in use can always be given back.
HolderMayRelease ==
  \A r \in Resources : \A t \in holds[r] : registered[r] /\ owner[r] = t

Waiters(r) == {t \in Trains : want[t] = r}

\* No wakeup is lost: while a unit of r is free, not every train that waits for
\* r is asleep.  Either the semaphore lets the next one through, or one was let
\* through and is about to ask again.
NoLostWakeup ==
  \A r \in Resources :
    registered[r] /\ availability[r] >= 1 /\ Waiters(r) # {}
      => interest[r] >= 1 \/ Waiters(r) \cap woken # {}

\* Nobody blocks on a semaphore sem_init has not run on: a train waits only for
\* a resource it was refused, and only a registered resource is refused.
WaitsOnInitialised ==
  \A t \in Trains, r \in Resources :
    want[t] = r => registered[r] /\ interest[r] # Uninit

\* A resource that became free while trains wait for it is used again, unless
\* the trains that wait give up.
FreedIsTaken ==
  \A r \in Resources :
    registered[r] /\ availability[r] >= 1 /\ Waiters(r) # {}
      ~> availability[r] < 1 \/ Waiters(r) = {}

\* With one unit per resource the database keeps the promise of ExclusiveUse.
Use == INSTANCE ExclusiveUse
ImplementsExclusiveUse == Use!FairSpec

\* The inductive invariant behind the properties above: for each resource, the
\* semaphore and the trains it let through cover the free units.
LetThrough(r) == Waiters(r) \cap woken

TokensCover ==
  \A r \in Resources :
    registered[r] => interest[r] + Cardinality(LetThrough(r)) >= availability[r]

RegisteredFirst ==
  \A r \in Resources :
    /\ registered[r] => /\ interest[r] >= 0 /\ availability[r] >= 0
                        /\ amount[r] \in Amounts \cup {1}
    /\ ~registered[r] => holds[r] = {} /\ Waiters(r) = {}

\* A train that waits does not hold what it waits for, and only a train that
\* waits is let through.
WaitersLack ==
  \A t \in Trains :
    /\ want[t] = Nothing => t \notin woken
    /\ \A r \in Resources : want[t] = r => t \notin holds[r]

IInv ==
  /\ TypeOK
  /\ UnitsConserved
  /\ RegisteredFirst
  /\ WaitersLack
  /\ TokensCover

=============================================================================
