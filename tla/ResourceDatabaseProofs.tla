----------------------- MODULE ResourceDatabaseProofs -----------------------
(***************************************************************************)
(* Theorems about ResourceDatabase, for any finite set of trains and any   *)
(* set of resources.  The safety theorems rest on one inductive invariant, *)
(* IInv.                                                                   *)
(***************************************************************************)
EXTENDS ResourceDatabase, FiniteSetTheorems, TLAPS

USE DatabaseAssumption

\* A state satisfies TypeOK after every step of a state that does.
LEMMA TypeStep == TypeOK /\ [Next]_vars => TypeOK'
<1> SUFFICES ASSUME TypeOK, [Next]_vars
             PROVE  TypeOK'
  OBVIOUS
<1> USE DEF TypeOK, Uninit
<1>1. ASSUME NEW t \in Trains, NEW r \in Ids, GrantLock(t, r)
      PROVE  TypeOK'
  BY <1>1 DEF GrantLock, Lockable, Units, Signals
<1>2. ASSUME NEW t \in Trains, NEW r \in Ids, RefuseLock(t, r)
      PROVE  TypeOK'
  BY <1>2 DEF RefuseLock, database
<1>3. ASSUME NEW t \in Trains, NEW r \in Resources, AcceptRelease(t, r)
      PROVE  TypeOK'
  BY <1>3 DEF AcceptRelease, SemPost
<1>4. ASSUME NEW t \in Trains, NEW r \in Resources, WaitResource(t, r)
      PROVE  TypeOK'
  BY <1>4 DEF WaitResource
<1>5. ASSUME NEW r \in Resources, NEW n \in Amounts, RegisterResource(r, n)
      PROVE  TypeOK'
  BY <1>5 DEF RegisterResource, callers
<1>6. CASE UNCHANGED vars
  BY <1>6 DEF vars, database, callers
<1> QED
  BY <1>1, <1>2, <1>3, <1>4, <1>5, <1>6
  DEF Next, AttemptLockResource, Retry, ReleaseResource, RefuseRelease

\* The state of the database and of its callers has its type.
THEOREM TypeCorrect == Spec => []TypeOK
<1>1. Init => TypeOK
  BY DEF Init, TypeOK, Uninit
<1> QED
  BY <1>1, TypeStep, PTL DEF Spec

-----------------------------------------------------------------------------
(* The trains that hold a resource, or that its semaphore let through, are *)
(* finitely many: they can be counted.                                     *)

LEMMA Counting ==
  ASSUME NEW S, S \subseteq Trains
  PROVE  /\ IsFiniteSet(S)
         /\ Cardinality(S) \in Nat
         /\ \A t \in Trains \ S : Cardinality(S \cup {t}) = Cardinality(S) + 1
         /\ \A t \in S : Cardinality(S \ {t}) = Cardinality(S) - 1
<1>1. IsFiniteSet(S)
  BY FS_Subset
<1> QED
  BY <1>1, FS_CardinalityType, FS_AddElement, FS_RemoveElement

LEMMA Counts ==
  ASSUME TypeOK
  PROVE  \A r \in Resources :
           /\ Cardinality(holds[r]) \in Nat
           /\ Cardinality(LetThrough(r)) \in Nat
<1>1. \A r \in Resources : holds[r] \subseteq Trains /\ LetThrough(r) \subseteq Trains
  BY DEF TypeOK, LetThrough, Waiters
<1> QED
  BY <1>1, Counting

LEMMA AmountBound == TypeOK => \A r \in Resources : amount[r] \in 0 .. SemValueMax
<1>1. Amounts \cup {0, 1} \subseteq 0 .. SemValueMax
  OBVIOUS
<1> QED
  BY <1>1 DEF TypeOK

\* Locking moves one unit from the free ones to the ones in use, releasing moves
\* it back, and nothing else touches either.
LEMMA UnitsStep == IInv /\ [Next]_vars => UnitsConserved'
<1> SUFFICES ASSUME IInv, [Next]_vars
             PROVE  UnitsConserved'
  OBVIOUS
<1> USE DEF IInv, TypeOK, UnitsConserved
<1>1. ASSUME NEW t \in Trains, NEW r \in Ids, GrantLock(t, r), t \notin holds[r]
      PROVE  UnitsConserved'
  <2>1. r \in Resources /\ holds[r] \subseteq Trains
    BY <1>1 DEF GrantLock
  <2>2. Cardinality(holds'[r]) = Cardinality(holds[r]) + 1
    BY <1>1, <2>1, Counting DEF GrantLock
  <2>3. ~registered[r] => Cardinality(holds[r]) = 0
    BY <2>1, FS_EmptySet DEF RegisteredFirst
  <2>4. availability'[r] + Cardinality(holds'[r]) = amount'[r]
    BY <1>1, <2>1, <2>2, <2>3, Counting DEF GrantLock, Units
  <2> QED
    BY <1>1, <2>4 DEF GrantLock
<1>2. ASSUME NEW t \in Trains, NEW r \in Ids, RefuseLock(t, r)
      PROVE  UnitsConserved'
  BY <1>2 DEF RefuseLock, database
<1>3. ASSUME NEW t \in Trains, NEW r \in Resources, AcceptRelease(t, r), t \in holds[r]
      PROVE  UnitsConserved'
  <2>1. Cardinality(holds'[r]) = Cardinality(holds[r]) - 1
    BY <1>3, Counting DEF AcceptRelease
  <2>2. Cardinality(holds[r]) \in Nat
    BY Counts
  <2> QED
    BY <1>3, <2>1, <2>2 DEF AcceptRelease
<1>4. ASSUME NEW t \in Trains, NEW r \in Resources, WaitResource(t, r)
      PROVE  UnitsConserved'
  BY <1>4 DEF WaitResource
<1>5. ASSUME NEW r \in Resources, NEW n \in Amounts, ~registered[r], RegisterResource(r, n)
      PROVE  UnitsConserved'
  <2>1. Cardinality(holds[r]) = 0
    BY <1>5, FS_EmptySet DEF RegisteredFirst
  <2> QED
    BY <1>5, <2>1 DEF RegisterResource, callers
<1>6. CASE UNCHANGED vars
  BY <1>6 DEF vars, database, callers
<1>7. \A t \in Trains, r \in Ids :
        AsksFirst(t, r) \/ (r \in Resources /\ AsksAgain(t, r)) =>
          (r \in Resources => t \notin holds[r])
  BY DEF AsksFirst, AsksAgain, WaitersLack
<1> QED
  BY <1>1, <1>2, <1>3, <1>4, <1>5, <1>6, <1>7
  DEF Next, AttemptLockResource, Retry, ReleaseResource, RefuseRelease, Returns, GrantLock

\* An unregistered resource has neither holders nor waiters, and a registered
\* one has no negative count.
LEMMA RegisteredStep == IInv /\ [Next]_vars => RegisteredFirst'
<1> SUFFICES ASSUME IInv, [Next]_vars
             PROVE  RegisteredFirst'
  OBVIOUS
<1> USE DEF IInv, TypeOK, RegisteredFirst, Waiters, Uninit
<1>1. ASSUME NEW t \in Trains, NEW r \in Ids, GrantLock(t, r)
      PROVE  RegisteredFirst'
  BY <1>1 DEF GrantLock, Lockable, Units, Signals
<1>2. ASSUME NEW t \in Trains, NEW r \in Ids, RefuseLock(t, r)
      PROVE  RegisteredFirst'
  BY <1>2 DEF RefuseLock, Lockable, Units, database
<1>3. ASSUME NEW t \in Trains, NEW r \in Resources, AcceptRelease(t, r)
      PROVE  RegisteredFirst'
  BY <1>3 DEF AcceptRelease, SemPost
<1>4. ASSUME NEW t \in Trains, NEW r \in Resources, WaitResource(t, r)
      PROVE  RegisteredFirst'
  BY <1>4 DEF WaitResource
<1>5. ASSUME NEW r \in Resources, NEW n \in Amounts, RegisterResource(r, n)
      PROVE  RegisteredFirst'
  BY <1>5 DEF RegisterResource, callers
<1>6. CASE UNCHANGED vars
  BY <1>6 DEF vars, database, callers
<1> QED
  BY <1>1, <1>2, <1>3, <1>4, <1>5, <1>6
  DEF Next, AttemptLockResource, Retry, ReleaseResource, RefuseRelease

\* No train waits for what it holds.
LEMMA WaitersStep == IInv /\ [Next]_vars => WaitersLack'
<1> SUFFICES ASSUME IInv, [Next]_vars
             PROVE  WaitersLack'
  OBVIOUS
<1> USE DEF IInv, TypeOK, WaitersLack
<1>1. ASSUME NEW t \in Trains, NEW r \in Ids, GrantLock(t, r)
      PROVE  WaitersLack'
  BY <1>1 DEF GrantLock
<1>2. ASSUME NEW t \in Trains, NEW r \in Ids, RefuseLock(t, r),
             r \in Resources => t \notin holds[r]
      PROVE  WaitersLack'
  BY <1>2 DEF RefuseLock
<1>3. ASSUME NEW t \in Trains, NEW r \in Resources, AcceptRelease(t, r)
      PROVE  WaitersLack'
  BY <1>3 DEF AcceptRelease
<1>4. ASSUME NEW t \in Trains, NEW r \in Resources, WaitResource(t, r)
      PROVE  WaitersLack'
  BY <1>4 DEF WaitResource
<1>5. ASSUME NEW r \in Resources, NEW n \in Amounts, RegisterResource(r, n)
      PROVE  WaitersLack'
  BY <1>5 DEF RegisterResource, callers
<1>6. CASE UNCHANGED vars
  BY <1>6 DEF vars, callers
<1>7. \A t \in Trains, r \in Ids :
        AsksFirst(t, r) \/ (r \in Resources /\ AsksAgain(t, r)) =>
          (r \in Resources => t \notin holds[r])
  BY DEF AsksFirst, AsksAgain
<1> QED
  BY <1>1, <1>2, <1>3, <1>4, <1>5, <1>6, <1>7
  DEF Next, AttemptLockResource, Retry, ReleaseResource, RefuseRelease

\* A free unit stays covered: a release signals it, a wait turns a signal into a
\* train let through, and only a train that finds no free unit sleeps again.
LEMMA TokensStep == IInv /\ [Next]_vars => TokensCover'
<1> SUFFICES ASSUME IInv, [Next]_vars
             PROVE  TokensCover'
  OBVIOUS
<1> USE DEF IInv
<1>c. /\ TypeOK' /\ UnitsConserved' /\ RegisteredFirst'
      /\ \A r \in Resources :
           /\ Cardinality(holds'[r]) \in Nat
           /\ Cardinality(LetThrough(r)) \in Nat
           /\ Cardinality(LetThrough(r)') \in Nat
  <2>1. TypeOK' /\ UnitsConserved' /\ RegisteredFirst'
    BY TypeStep, UnitsStep, RegisteredStep
  <2>2. \A r \in Resources : Cardinality(LetThrough(r)) \in Nat
    BY Counts
  <2>3. \A r \in Resources : holds'[r] \subseteq Trains /\ LetThrough(r)' \subseteq Trains
    BY <2>1 DEF TypeOK, LetThrough, Waiters
  <2> QED
    BY <2>1, <2>2, <2>3, Counting
<1> USE DEF TokensCover, TypeOK
<1>1. ASSUME NEW t \in Trains, NEW r \in Ids, GrantLock(t, r), want[t] \in {r, Nothing}
      PROVE  TokensCover'
  <2>1. ASSUME NEW q \in Resources, q # r
        PROVE  LetThrough(q)' = LetThrough(q)
    BY <1>1, <2>1 DEF GrantLock, LetThrough, Waiters
  <2>2. Cardinality(LetThrough(r)') >= Cardinality(LetThrough(r)) - 1
    <3>1. LetThrough(r)' = LetThrough(r) \ {t} /\ LetThrough(r) \subseteq Trains
      BY <1>1 DEF GrantLock, LetThrough, Waiters
    <3>2. CASE t \in LetThrough(r)
      <4>1. Cardinality(LetThrough(r) \ {t}) = Cardinality(LetThrough(r)) - 1
        BY <3>1, <3>2, Counting
      <4> QED
        BY <1>1, <1>c, <3>1, <4>1 DEF GrantLock
    <3>3. CASE t \notin LetThrough(r)
      <4>1. LetThrough(r)' = LetThrough(r)
        BY <3>1, <3>3
      <4> QED
        BY <1>1, <1>c, <4>1 DEF GrantLock
    <3> QED
      BY <3>2, <3>3
  <2>3. interest'[r] + Cardinality(LetThrough(r)') >= availability'[r]
    BY <1>1, <1>c, <2>2 DEF GrantLock, Units, Signals
  <2> QED
    BY <1>1, <2>1, <2>3 DEF GrantLock
<1>2. ASSUME NEW t \in Trains, NEW r \in Ids, RefuseLock(t, r), want[t] \in {r, Nothing}
      PROVE  TokensCover'
  <2>1. ASSUME NEW q \in Resources, q # r
        PROVE  LetThrough(q)' = LetThrough(q)
    BY <1>2, <2>1 DEF RefuseLock, LetThrough, Waiters, WaitersLack
  <2>2. r \in Resources /\ registered[r] => availability[r] <= 0 /\ interest[r] >= 0
    BY <1>2 DEF RefuseLock, Lockable, Units, RegisteredFirst
  <2> QED
    BY <1>2, <1>c, <2>1, <2>2 DEF RefuseLock, database
<1>3. ASSUME NEW t \in Trains, NEW r \in Resources, AcceptRelease(t, r)
      PROVE  TokensCover'
  <2>1. \A q \in Resources : LetThrough(q)' = LetThrough(q)
    BY <1>3 DEF AcceptRelease, LetThrough, Waiters
  <2>2. availability'[r] <= SemValueMax
    <3>1. amount'[r] \in 0 .. SemValueMax
      BY <1>3, AmountBound DEF AcceptRelease
    <3>2. availability'[r] + Cardinality(holds'[r]) = amount'[r]
      BY <1>3, <1>c DEF AcceptRelease, UnitsConserved
    <3> QED
      BY <1>c, <3>1, <3>2
  <2> QED
    BY <1>3, <1>c, <2>1, <2>2 DEF AcceptRelease, SemPost
<1>4. ASSUME NEW t \in Trains, NEW r \in Resources, WaitResource(t, r)
      PROVE  TokensCover'
  <2>1. ASSUME NEW q \in Resources, q # r
        PROVE  LetThrough(q)' = LetThrough(q)
    BY <1>4, <2>1 DEF WaitResource, LetThrough, Waiters
  <2>2. LetThrough(r)' = LetThrough(r) \cup {t} /\ t \notin LetThrough(r)
    BY <1>4 DEF WaitResource, LetThrough, Waiters
  <2>3. Cardinality(LetThrough(r)') = Cardinality(LetThrough(r)) + 1
    BY <2>2, Counting DEF LetThrough, Waiters
  <2> QED
    BY <1>4, <1>c, <2>1, <2>3 DEF WaitResource, RegisteredFirst, Uninit
<1>5. ASSUME NEW r \in Resources, NEW n \in Amounts, RegisterResource(r, n)
      PROVE  TokensCover'
  <2>1. \A q \in Resources : LetThrough(q)' = LetThrough(q)
    BY <1>5 DEF RegisterResource, callers, LetThrough, Waiters
  <2> QED
    BY <1>5, <1>c, <2>1 DEF RegisterResource
<1>6. CASE UNCHANGED vars
  BY <1>6 DEF vars, database, callers, LetThrough, Waiters
<1> QED
  BY <1>1, <1>2, <1>3, <1>4, <1>5, <1>6
  DEF Next, AttemptLockResource, Retry, ReleaseResource, RefuseRelease, AsksFirst, AsksAgain

-----------------------------------------------------------------------------
(* Theorems *)

\* IInv holds in every reachable state.
THEOREM Invariance == Spec => []IInv
<1>1. Init => IInv
  <2> SUFFICES ASSUME Init
               PROVE  IInv
    OBVIOUS
  <2>1. TypeOK
    BY DEF Init, TypeOK, Uninit
  <2> QED
    BY <2>1 DEF Init, IInv, UnitsConserved, RegisteredFirst, WaitersLack, TokensCover, Waiters
<1>2. IInv /\ [Next]_vars => IInv'
  BY TypeStep, UnitsStep, RegisteredStep, WaitersStep, TokensStep DEF IInv
<1> QED
  BY <1>1, <1>2, PTL DEF Spec

\* The units of a registered resource are free or in use, never lost or invented
\* by attemptLockResource and releaseResource.
THEOREM UnitsAreConserved == Spec => []UnitsConserved
<1>1. IInv => UnitsConserved
  BY DEF IInv
<1> QED
  BY <1>1, Invariance, PTL

\* The counting semaphore never leaves all waiters asleep beside a free unit,
\* although attemptLockResource takes units without taking its signals.
THEOREM WakeupsAreNotLost == Spec => []NoLostWakeup
<1>1. IInv => NoLostWakeup
  <2> SUFFICES ASSUME IInv, NEW r \in Resources, registered[r], availability[r] >= 1,
                      ~(interest[r] >= 1)
               PROVE  LetThrough(r) # {}
    BY DEF NoLostWakeup, LetThrough
  <2>1. interest[r] = 0 /\ availability[r] \in Int
    BY DEF IInv, TypeOK, RegisteredFirst, Uninit
  <2>2. interest[r] + Cardinality(LetThrough(r)) >= availability[r]
    BY DEF IInv, TokensCover
  <2>3. Cardinality(LetThrough(r)) # 0
    BY <2>1, <2>2
  <2> QED
    BY <2>3, FS_EmptySet
<1> QED
  BY <1>1, Invariance, PTL

\* waitResource is never called on a semaphore sem_init has not run on, although
\* initResourceDataBase leaves all of them uninitialised.
THEOREM WaitsAreOnInitialised == Spec => []WaitsOnInitialised
<1>1. IInv => WaitsOnInitialised
  BY DEF IInv, RegisteredFirst, WaitsOnInitialised, Waiters, Uninit
<1> QED
  BY <1>1, Invariance, PTL

\* With at most one unit per resource no two trains ever use the same one: the
\* requirement the resource manager exists for.
THEOREM MutualExclusion ==
  ASSUME Amounts \subseteq {0, 1}
  PROVE  Spec => []AtMostOneTrain
<1>1. IInv => AtMostOneTrain
  <2> SUFFICES ASSUME IInv, NEW r \in Resources, NEW t \in holds[r], NEW u \in holds[r]
               PROVE  t = u
    BY DEF AtMostOneTrain
  <2>1. registered[r]
    BY DEF IInv, RegisteredFirst
  <2>2. availability[r] >= 0 /\ availability[r] \in Int /\ amount[r] \in {0, 1}
    BY <2>1 DEF IInv, TypeOK, RegisteredFirst
  <2>3. IsFiniteSet(holds[r]) /\ Cardinality(holds[r]) \in Nat
    BY Counting DEF IInv, TypeOK
  <2>4. Cardinality(holds[r]) = 0 \/ Cardinality(holds[r]) = 1
    BY <2>1, <2>2, <2>3 DEF IInv, UnitsConserved
  <2> QED
    BY <2>3, <2>4, FS_EmptySet, FS_Singleton
<1> QED
  BY <1>1, Invariance, PTL

\* A resource with a free unit is unused when no resource has more than one.
LEMMA LockableIsUnused ==
  ASSUME Amounts \subseteq {0, 1}, IInv, NEW r \in Resources, Lockable(r)
  PROVE  holds[r] = {}
<1>1. CASE registered[r]
  <2>1. /\ availability[r] >= 1 /\ availability[r] \in Int /\ amount[r] \in {0, 1}
        /\ IsFiniteSet(holds[r]) /\ Cardinality(holds[r]) \in Nat
    BY <1>1, Counting DEF IInv, TypeOK, Lockable, Units
  <2>2. Cardinality(holds[r]) = 0
    BY <1>1, <2>1 DEF IInv, UnitsConserved
  <2> QED
    BY <2>1, <2>2, FS_EmptySet
<1>2. CASE ~registered[r]
  BY <1>2 DEF IInv, RegisteredFirst
<1> QED
  BY <1>1, <1>2

\* With at most one unit per resource the owner check of releaseResource never
\* refuses the train that holds it.
THEOREM HolderCanRelease ==
  ASSUME Amounts \subseteq {0, 1}
  PROVE  Spec => []HolderMayRelease
<1>1. Init => HolderMayRelease
  BY DEF Init, HolderMayRelease
<1>2. IInv /\ HolderMayRelease /\ [Next]_vars => HolderMayRelease'
  <2> SUFFICES ASSUME IInv, HolderMayRelease, [Next]_vars
               PROVE  HolderMayRelease'
    OBVIOUS
  <2> USE DEF HolderMayRelease
  <2>t. TypeOK
    BY DEF IInv
  <2>1. ASSUME NEW t \in Trains, NEW r \in Ids, GrantLock(t, r)
        PROVE  HolderMayRelease'
    <3>1. r \in Resources /\ holds[r] = {}
      BY <2>1, LockableIsUnused DEF GrantLock
    <3> QED
      BY <2>1, <2>t, <3>1 DEF GrantLock, TypeOK
  <2>2. ASSUME NEW t \in Trains, NEW r \in Ids, RefuseLock(t, r)
        PROVE  HolderMayRelease'
    BY <2>2 DEF RefuseLock, database
  <2>3. ASSUME NEW t \in Trains, NEW r \in Resources, AcceptRelease(t, r)
        PROVE  HolderMayRelease'
    BY <2>3, <2>t DEF AcceptRelease, TypeOK
  <2>4. ASSUME NEW t \in Trains, NEW r \in Resources, WaitResource(t, r)
        PROVE  HolderMayRelease'
    BY <2>4 DEF WaitResource
  <2>5. ASSUME NEW r \in Resources, NEW n \in Amounts, RegisterResource(r, n)
        PROVE  HolderMayRelease'
    BY <2>5, <2>t DEF RegisterResource, callers, TypeOK
  <2>6. CASE UNCHANGED vars
    BY <2>6 DEF vars, database, callers
  <2> QED
    BY <2>1, <2>2, <2>3, <2>4, <2>5, <2>6
    DEF Next, AttemptLockResource, Retry, ReleaseResource, RefuseRelease
<1> QED
  BY <1>1, <1>2, Invariance, PTL DEF Spec

-----------------------------------------------------------------------------
(* Refinement *)

\* A resource without a free unit is used by another train than the one that is
\* refused it, when every resource has exactly one unit.
LEMMA RefusedIsUsed ==
  ASSUME Amounts = {1}, IInv, NEW r \in Resources, ~Lockable(r)
  PROVE  holds[r] # {}
<1>1. registered[r]
  BY DEF Lockable, Units
<1>2. amount[r] = 1 /\ availability[r] \in Int /\ availability[r] < 1
  BY <1>1 DEF IInv, TypeOK, RegisteredFirst, Lockable, Units
<1>3. Cardinality(holds[r]) # 0
  BY <1>1, <1>2 DEF IInv, UnitsConserved
<1> QED
  BY <1>3, FS_EmptySet

\* When every resource has one unit, the database does to its callers what
\* ExclusiveUse promises: each call is a step of that module or leaves its
\* variables alone.
THEOREM RefinesExclusiveUse ==
  ASSUME Amounts = {1}
  PROVE  Spec => Use!Spec
<1>1. Init => Use!Init
  BY DEF Init, Use!Init
<1>2. IInv /\ [Next]_vars => [Use!Next]_Use!vars
  <2> SUFFICES ASSUME IInv, [Next]_vars
               PROVE  [Use!Next]_Use!vars
    OBVIOUS
  <2> USE DEF Use!Next, Use!vars
  <2>t. TypeOK /\ WaitersLack
    BY DEF IInv
  <2>1. ASSUME NEW t \in Trains, NEW r \in Ids, GrantLock(t, r), want[t] \in {r, Nothing}
        PROVE  Use!Next
    <3>1. r \in Resources /\ holds[r] = {}
      BY <2>1, LockableIsUnused DEF GrantLock
    <3>2. Use!Take(t, r)
      BY <2>1, <2>t, <3>1 DEF GrantLock, Use!Take, TypeOK
    <3> QED
      BY <3>1, <3>2
  <2>2. ASSUME NEW t \in Trains, NEW r \in Ids, RefuseLock(t, r), want[t] \in {r, Nothing},
               r \in Resources => t \notin holds[r]
        PROVE  [Use!Next]_Use!vars
    <3>1. want' = [want EXCEPT ![t] = Nothing] \/ want' = [want EXCEPT ![t] = r]
      BY <2>2 DEF RefuseLock
    <3>2. CASE want'[t] = want[t]
      BY <2>2, <2>t, <3>1, <3>2 DEF RefuseLock, TypeOK
    <3>3. CASE want'[t] # want[t]
      <4>1. r \in Resources
        BY <2>2, <2>t, <3>3 DEF RefuseLock, TypeOK
      <4>2. holds[r] \notin {{}, {t}}
        BY <2>2, <4>1, RefusedIsUsed DEF RefuseLock
      <4>3. Use!Ask(t, r) \/ Use!Withdraw(t, r)
        BY <2>2, <2>t, <3>1, <3>3, <4>1, <4>2 DEF RefuseLock, Use!Ask, Use!Withdraw, TypeOK
      <4> QED
        BY <4>1, <4>3
    <3> QED
      BY <3>2, <3>3
  <2>3. ASSUME NEW t \in Trains, NEW r \in Resources, AcceptRelease(t, r), t \in holds[r]
        PROVE  Use!Next
    <3>1. Use!GiveBack(t, r)
      BY <2>3 DEF AcceptRelease, Use!GiveBack
    <3> QED
      BY <3>1
  <2>4. ASSUME NEW t \in Trains, NEW r \in Resources, WaitResource(t, r)
        PROVE  UNCHANGED Use!vars
    BY <2>4 DEF WaitResource
  <2>5. ASSUME NEW r \in Resources, NEW n \in Amounts, RegisterResource(r, n)
        PROVE  UNCHANGED Use!vars
    BY <2>5 DEF RegisterResource, callers
  <2>6. CASE UNCHANGED vars
    BY <2>6 DEF vars, callers
  <2>7. \A t \in Trains, r \in Ids :
          AsksFirst(t, r) \/ (r \in Resources /\ AsksAgain(t, r)) =>
            want[t] \in {r, Nothing} /\ (r \in Resources => t \notin holds[r])
    BY <2>t DEF AsksFirst, AsksAgain, WaitersLack
  <2>8. \A t \in Trains, r \in Resources : RefuseRelease(t, r) => UNCHANGED Use!vars
    BY DEF RefuseRelease, vars, callers
  <2> QED
    BY <2>1, <2>2, <2>3, <2>4, <2>5, <2>6, <2>7, <2>8
    DEF Next, AttemptLockResource, Retry, ReleaseResource, Returns
<1> QED
  BY <1>1, <1>2, Invariance, PTL DEF Spec, Use!Spec

=============================================================================
