-------------------- MODULE ResourceDatabaseProxyProofs --------------------
(***************************************************************************)
(* The proxy's lock is exclusive, and behind it the calls that access the  *)
(* tables step by step implement the calls that take one step, for any     *)
(* finite set of trains.                                                   *)
(***************************************************************************)
EXTENDS ResourceDatabaseProxy, FiniteSetTheorems, TLAPS

Asking    == {"enter_attempt", "lookup", "mark", "stock", "seminit", "check",
              "load", "take", "own", "refused"}
Returning == {"enter_release", "owned", "isregistered", "reload", "return", "signal"}
Registering == {"stock", "seminit", "check", "load", "take", "own"}
Labels    == Outside \cup Asking \cup Returning \cup {"leave"}

\* The value of the semaphore says whether a train is inside, and it is alone.
Exclusive ==
  \/ lock = 1 /\ \A t \in Trains : pc[t] \in Outside
  \/ lock = 0 /\ \E t \in Trains : /\ pc[t] \notin Outside
                                   /\ \A u \in Trains \ {t} : pc[u] \in Outside

\* The registrar's calls, all of them before the trains'.
RegistrarOK ==
  LET r == arg[Registrar]
  IN  /\ pc[Registrar] \in {"idle", "mark", "stock", "seminit", "done"}
      /\ pc[Registrar] # "done" => \A t \in Trains : pc[t] = "idle"
      /\ pc[Registrar] \in {"mark", "stock", "seminit"} =>
           r \in Resources /\ r \notin known /\ reg[Registrar] \in Amounts
      /\ pc[Registrar] \in {"stock", "seminit"} => registered[r]
      /\ pc[Registrar] = "seminit" => availability[r] = reg[Registrar]

\* What a train wants and holds while it is in a call.
Asks(t) ==
  \/ want[t] = Nothing /\ (arg[t] \in Resources => t \notin holds[arg[t]])
  \/ want[t] = arg[t] /\ t \in woken

CallerOK(t) ==
  /\ want[t] = Nothing => t \notin woken
  /\ want[t] # Nothing => want[t] \in known /\ t \notin holds[want[t]]
  /\ pc[t] \in Asking => arg[t] \in Ids /\ Asks(t)
  /\ pc[t] \in Returning => /\ arg[t] \in Resources /\ t \in holds[arg[t]]
                            /\ want[t] = Nothing

\* What it has read and written, access by access.
AccessOK(t) ==
  LET r == arg[t]
  IN  /\ pc[t] \in Asking \ {"enter_attempt", "refused"} => r \in Resources
      /\ pc[t] \in {"mark", "stock", "seminit"} => r \notin known /\ reg[t] = 1
      /\ pc[t] = "seminit" => availability[r] = 1
      /\ pc[t] \in Registering => registered[r]
      /\ pc[t] \in {"check", "load", "take"} /\ r \notin known =>
           availability[r] = 1 /\ interest[r] = 1
      /\ pc[t] \in {"load", "take"} => availability[r] >= 1
      /\ pc[t] \in {"take", "return"} => reg[t] = availability[r]
      /\ pc[t] = "own" /\ r \notin known => availability[r] = 0 /\ interest[r] = 1
      /\ pc[t] = "refused" /\ r \in Resources => r \in known /\ availability[r] < 1
      /\ pc[t] \in {"isregistered", "reload", "return", "signal"} => owner[r] = t
      /\ pc[t] = "signal" => availability[r] >= 1

\* A resource is known when its registration has taken effect.
KnownOK ==
  \A r \in Resources :
    /\ r \in known => registered[r] /\ interest[r] # Uninit
    /\ registered[r] /\ r \notin known =>
         \E th \in Threads : pc[th] \in Registering /\ arg[th] = r
    /\ holds[r] # {} => r \in known

\* Counted from where the call in progress takes effect, units are conserved.
UnitsOK ==
  \A r \in known : /\ Free(r) + Cardinality(holds[r]) = amount[r]
                   /\ amount[r] \in 0 .. SemValueMax

IInv ==
  /\ TypeOK
  /\ Exclusive
  /\ RegistrarOK
  /\ \A t \in Trains : CallerOK(t) /\ AccessOK(t)
  /\ KnownOK
  /\ UnitsOK

LEMMA InitHolds == Init => IInv
  <1> SUFFICES ASSUME Init PROVE IInv
    OBVIOUS
  <1> USE ProxyAssumption DEF Init
  <1>1. TypeOK
    BY DEF TypeOK, Uninit, Threads, Outside
  <1>2. Exclusive
    BY DEF Exclusive, Threads, Outside
  <1>3. RegistrarOK
    BY DEF RegistrarOK, Threads
  <1>4. ASSUME NEW t \in Trains PROVE CallerOK(t) /\ AccessOK(t)
    BY <1>4 DEF CallerOK, AccessOK, Threads, Asking, Returning, Registering
  <1>5. KnownOK /\ UnitsOK
    BY DEF KnownOK, UnitsOK
  <1> QED
    BY <1>1, <1>2, <1>3, <1>4, <1>5 DEF IInv

\* A train inside the lock is alone there, and the registrar is done.
LEMMA Alone ==
  ASSUME IInv, NEW t \in Trains, pc[t] \notin Outside
  PROVE  /\ lock = 0
         /\ \A u \in Trains \ {t} : pc[u] \in Outside
         /\ pc[Registrar] = "done"
         /\ t # Registrar
  BY ProxyAssumption DEF IInv, Exclusive, RegistrarOK, Outside

\* A step inside is one of a train that is alone there; it leaves the other
\* trains, and what they want and hold, as they are.
LEMMA InsideFrame ==
  ASSUME IInv, NEW t \in Trains, Inside(t)
  PROVE  /\ pc[t] \notin Outside
         /\ arg' = arg
         /\ pc' = [pc EXCEPT ![t] = pc'[t]]
         /\ pc'[t] \in Labels
         /\ \A u \in Trains \ {t} : want'[u] = want[u] /\ (u \in woken' <=> u \in woken)
         /\ \A r \in Resources, u \in Trains \ {t} : u \in holds'[r] <=> u \in holds[r]
  <1> USE DEF Step, Outside, Labels, Asking, Returning, IInv, TypeOK, Threads
  <1>1. CASE LookUp(t)
    BY <1>1 DEF LookUp, callers
  <1>2. CASE MarkRegistered(t)
    BY <1>2 DEF MarkRegistered, callers
  <1>3. CASE SetAvailability(t)
    BY <1>3 DEF SetAvailability, callers
  <1>4. CASE InitInterest(t)
    BY <1>4, ProxyAssumption DEF InitInterest, callers
  <1>5. CASE CheckAvailability(t)
    BY <1>5 DEF CheckAvailability, callers
  <1>6. CASE LoadAvailability(t)
    BY <1>6 DEF LoadAvailability, callers
  <1>7. CASE TakeUnit(t)
    BY <1>7 DEF TakeUnit, callers
  <1>8. CASE SetOwner(t)
    BY <1>8 DEF SetOwner
  <1>9. CASE LeaveRefused(t)
    BY <1>9 DEF LeaveRefused
  <1>10. CASE CheckOwner(t)
    BY <1>10 DEF CheckOwner, callers
  <1>11. CASE CheckRegistered(t)
    BY <1>11 DEF CheckRegistered, callers
  <1>12. CASE ReloadAvailability(t)
    BY <1>12 DEF ReloadAvailability, callers
  <1>13. CASE ReturnUnit(t)
    BY <1>13 DEF ReturnUnit, callers
  <1>14. CASE SignalInterest(t)
    BY <1>14 DEF SignalInterest
  <1>15. CASE Leave(t)
    BY <1>15 DEF Leave, callers
  <1> QED
    BY <1>1, <1>2, <1>3, <1>4, <1>5, <1>6, <1>7, <1>8, <1>9, <1>10, <1>11, <1>12,
      <1>13, <1>14, <1>15 DEF Inside, RegisterResource

-----------------------------------------------------------------------------
(* Counting the trains that hold a resource. *)

LEMMA Counting ==
  ASSUME NEW S, S \subseteq Trains
  PROVE  /\ IsFiniteSet(S)
         /\ Cardinality(S) \in Nat
         /\ \A t \in Trains \ S : Cardinality(S \cup {t}) = Cardinality(S) + 1
         /\ \A t \in S : Cardinality(S \ {t}) = Cardinality(S) - 1
                         /\ Cardinality(S) >= 1
  <1>1. IsFiniteSet(S)
    BY FS_Subset, ProxyAssumption
  <1>2. \A t \in S : Cardinality(S) # 0
    BY <1>1, FS_EmptySet
  <1> QED
    BY <1>1, <1>2, FS_CardinalityType, FS_AddElement, FS_RemoveElement

\* Of a train that is alone inside, the free units follow from where it is.
LEMMA FreeAlone ==
  ASSUME NEW t \in Trains, \A u \in Trains \ {t} : pc[u] \in Outside, NEW r
  PROVE  Free(r) = IF pc[t] = "own" /\ arg[t] = r THEN availability[r] + 1
                   ELSE IF pc[t] = "signal" /\ arg[t] = r THEN availability[r] - 1
                   ELSE availability[r]
  BY DEF Free, At, Outside

LEMMA FreeAloneNext ==
  ASSUME NEW t \in Trains, \A u \in Trains \ {t} : pc'[u] \in Outside, NEW r
  PROVE  Free(r)' = IF pc'[t] = "own" /\ arg'[t] = r THEN availability'[r] + 1
                    ELSE IF pc'[t] = "signal" /\ arg'[t] = r THEN availability'[r] - 1
                    ELSE availability'[r]
  BY DEF Free, At, Outside

-----------------------------------------------------------------------------
(* The steps inside the lock. *)

LEMMA InsideTypes ==
  ASSUME IInv, NEW t \in Trains, Inside(t)
  PROVE  TypeOK'
  <1> USE ProxyAssumption DEF Step, IInv, TypeOK, Threads, Uninit
  <1>0. /\ pc' \in [Threads -> Labels]
        /\ arg' = arg
        /\ AccessOK(t) /\ CallerOK(t)
    BY InsideFrame DEF Labels, Outside, Asking, Returning
  <1>1. CASE LookUp(t)
    BY <1>0, <1>1 DEF LookUp, tables, history, callers, Labels, Outside, Asking, Returning
  <1>2. CASE MarkRegistered(t)
    BY <1>0, <1>2 DEF MarkRegistered, history, callers, Labels, Outside, Asking, Returning
  <1>3. CASE SetAvailability(t)
    BY <1>0, <1>3 DEF SetAvailability, history, callers, Labels, Outside, Asking, Returning
  <1>4. CASE InitInterest(t)
    <2>1. UNCHANGED <<registered, availability, owner, lock, arg, reg, history, callers>>
      BY <1>4 DEF InitInterest
    <2>2. reg[t] \in Uninit .. SemValueMax
      OBVIOUS
    <2>3. interest' \in [Resources -> Uninit .. SemValueMax]
      BY <1>4, <2>2 DEF InitInterest
    <2> QED
      BY <1>0, <2>1, <2>3 DEF history, callers, Labels, Outside, Asking, Returning
  <1>5. CASE CheckAvailability(t)
    BY <1>0, <1>5
      DEF CheckAvailability, tables, history, callers, Labels, Outside, Asking, Returning
  <1>6. CASE LoadAvailability(t)
    BY <1>0, <1>6
      DEF LoadAvailability, tables, history, callers, Labels, Outside, Asking, Returning,
      AccessOK
  <1>7. CASE TakeUnit(t)
    <2>1. arg[t] \in Resources /\ reg[t] >= 1
      BY <1>0, <1>7 DEF TakeUnit, AccessOK, Asking
    <2> QED
      BY <1>0, <1>7, <2>1 DEF TakeUnit, history, callers, Labels, Outside, Asking, Returning
  <1>8. CASE SetOwner(t)
    <2>1. arg[t] \in Resources
      BY <1>0, <1>8 DEF SetOwner, AccessOK, Asking
    <2> QED
      BY <1>0, <1>8, <2>1 DEF SetOwner, Labels, Outside, Asking, Returning
  <1>9. CASE LeaveRefused(t)
    <2>1. lock' \in 0 .. 1
      BY <1>9, Alone DEF LeaveRefused, LockReleased, Outside
    <2> QED
      BY <1>0, <1>9, <2>1
        DEF LeaveRefused, tables, history, Labels, Outside, Asking, Returning
  <1>10. CASE CheckOwner(t) \/ CheckRegistered(t)
    BY <1>0, <1>10 DEF CheckOwner, CheckRegistered, tables, history, callers,
      Labels, Outside, Asking, Returning
  <1>11. CASE ReloadAvailability(t)
    <2>1. arg[t] \in Resources
      BY <1>0, <1>11 DEF ReloadAvailability, CallerOK, Returning
    <2> QED
      BY <1>0, <1>11, <2>1
        DEF ReloadAvailability, tables, history, callers, Labels, Outside, Asking, Returning
  <1>12. CASE ReturnUnit(t)
    <2>1. arg[t] \in Resources /\ t \in holds[arg[t]] /\ reg[t] = availability[arg[t]]
      BY <1>0, <1>12 DEF ReturnUnit, CallerOK, AccessOK, Returning
    <2>2. arg[t] \in known
      BY <2>1 DEF KnownOK
    <2>3. Free(arg[t]) = availability[arg[t]]
      BY <1>12, Alone, FreeAlone DEF ReturnUnit, Outside
    <2>4. /\ availability[arg[t]] + Cardinality(holds[arg[t]]) = amount[arg[t]]
          /\ amount[arg[t]] \in 0 .. SemValueMax
      BY <2>2, <2>3 DEF UnitsOK
    <2>5. Cardinality(holds[arg[t]]) \in Nat /\ Cardinality(holds[arg[t]]) >= 1
      BY <2>1, Counting
    <2>6. reg[t] + 1 \in 0 .. SemValueMax
      BY <2>1, <2>4, <2>5
    <2> QED
      BY <1>0, <1>12, <2>1, <2>6
        DEF ReturnUnit, history, callers, Labels, Outside, Asking, Returning
  <1>13. CASE SignalInterest(t)
    <2>1. arg[t] \in Resources
      BY <1>0, <1>13 DEF SignalInterest, CallerOK, Returning
    <2> QED
      BY <1>0, <1>13, <2>1
        DEF SignalInterest, history, Labels, Outside, Asking, Returning
  <1>14. CASE Leave(t)
    <2>1. lock' \in 0 .. 1
      BY <1>14, Alone DEF Leave, LockReleased, Outside
    <2> QED
      BY <1>0, <1>14, <2>1
        DEF Leave, tables, history, callers, Labels, Outside, Asking, Returning
  <1> QED
    BY <1>1, <1>2, <1>3, <1>4, <1>5, <1>6, <1>7, <1>8, <1>9, <1>10, <1>11, <1>12,
      <1>13, <1>14 DEF Inside, RegisterResource

\* It stays inside with the lock at 0, or leaves and gives it back.
LEMMA InsideExclusive ==
  ASSUME IInv, NEW t \in Trains, Inside(t)
  PROVE  Exclusive' /\ RegistrarOK' /\ (\A u \in Trains \ {t} : pc'[u] \in Outside)
  <1>1. /\ lock = 0 /\ t # Registrar /\ pc[Registrar] = "done"
        /\ pc' = [pc EXCEPT ![t] = pc'[t]]
        /\ \A u \in Trains \ {t} : pc[u] \in Outside
    BY Alone, InsideFrame
  <1>2. pc \in [Threads -> Labels]
    BY DEF IInv, TypeOK, Labels, Outside, Asking, Returning
  <1>3. RegistrarOK' /\ \A u \in Trains \ {t} : pc'[u] \in Outside
    BY <1>1, <1>2, ProxyAssumption DEF RegistrarOK, Threads
  <1>4. \/ lock' = 1 /\ pc'[t] \in Outside
        \/ lock' = 0 /\ pc'[t] \notin Outside
    BY <1>1, <1>2 DEF Inside, RegisterResource, LookUp, MarkRegistered, SetAvailability,
      InitInterest, CheckAvailability, LoadAvailability, TakeUnit, SetOwner, LeaveRefused,
      CheckOwner, CheckRegistered, ReloadAvailability, ReturnUnit, SignalInterest, Leave,
      Step, LockReleased, Outside, Threads
  <1> QED
    BY <1>3, <1>4 DEF Exclusive

\* The trains outside are not touched.
LEMMA InsideOthers ==
  ASSUME IInv, NEW t \in Trains, Inside(t), NEW u \in Trains \ {t}
  PROVE  CallerOK(u)' /\ AccessOK(u)'
  <1>1. /\ pc[u] \in Outside /\ pc'[u] = pc[u] /\ arg' = arg
        /\ want'[u] = want[u] /\ (u \in woken' <=> u \in woken)
        /\ \A r \in Resources : u \in holds'[r] <=> u \in holds[r]
    BY Alone, InsideFrame DEF IInv, TypeOK, Threads
  <1>2. known \subseteq known'
    BY DEF Inside, RegisterResource, LookUp, MarkRegistered, SetAvailability, InitInterest,
      CheckAvailability, LoadAvailability, TakeUnit, SetOwner, LeaveRefused, CheckOwner,
      CheckRegistered, ReloadAvailability, ReturnUnit, SignalInterest, Leave, history
  <1>3. CallerOK(u) /\ want[u] \in Resources \cup {Nothing}
    BY DEF IInv, TypeOK
  <1>4. CallerOK(u)'
    BY <1>1, <1>2, <1>3 DEF CallerOK, Asks, Outside, Asking, Returning
  <1>5. AccessOK(u)'
    BY <1>1 DEF AccessOK, Outside, Asking, Registering
  <1> QED
    BY <1>4, <1>5

\* What the train wants and holds changes where its call takes effect.
LEMMA InsideCaller ==
  ASSUME IInv, NEW t \in Trains, Inside(t)
  PROVE  CallerOK(t)'
  <1>0. /\ t \in Threads /\ pc \in [Threads -> Labels]
        /\ CallerOK(t) /\ AccessOK(t)
        /\ holds \in [Resources -> SUBSET Trains]
        /\ want \in [Trains -> Resources \cup {Nothing}]
        /\ \A r \in Resources : holds[r] # {} => r \in known
    BY DEF IInv, KnownOK, TypeOK, Threads, Labels, Outside, Asking, Returning
  <1> USE DEF CallerOK, Asks, Step, Outside, Asking, Returning, Labels
  <1>1. CASE /\ UNCHANGED <<arg, callers>> /\ known \subseteq known'
             /\ \/ pc[t] \in Asking /\ pc'[t] \in Asking
                \/ pc[t] \in Returning /\ pc'[t] \in Returning \cup {"leave"}
                \/ pc'[t] = "idle"
    BY <1>0, <1>1 DEF callers
  <1>2. CASE SetOwner(t)
    BY <1>0, <1>2 DEF SetOwner
  <1>3. CASE LeaveRefused(t)
    <2>1. arg[t] \in Resources => arg[t] \in known /\ t \notin holds[arg[t]]
      BY <1>0, <1>3 DEF LeaveRefused, AccessOK
    <2> QED
      BY <1>0, <1>3, <2>1 DEF LeaveRefused, history
  <1>4. CASE SignalInterest(t)
    BY <1>0, <1>4, ProxyAssumption DEF SignalInterest, history
  <1>5. CASE LookUp(t) \/ MarkRegistered(t) \/ SetAvailability(t) \/ InitInterest(t)
             \/ CheckAvailability(t) \/ LoadAvailability(t) \/ TakeUnit(t)
    <2>1. UNCHANGED <<arg, callers>> /\ known \subseteq known'
      BY <1>5 DEF LookUp, MarkRegistered, SetAvailability, InitInterest, CheckAvailability,
        LoadAvailability, TakeUnit, history
    <2>2. pc[t] \in Asking /\ pc'[t] \in Asking
      BY <1>0, <1>5, ProxyAssumption DEF LookUp, MarkRegistered, SetAvailability,
        InitInterest, CheckAvailability, LoadAvailability, TakeUnit
    <2> QED
      BY <1>1, <2>1, <2>2
  <1>6. CASE CheckOwner(t) \/ CheckRegistered(t) \/ ReloadAvailability(t) \/ ReturnUnit(t)
             \/ Leave(t)
    <2>1. UNCHANGED <<arg, callers, known>>
      BY <1>6 DEF CheckOwner, CheckRegistered, ReloadAvailability, ReturnUnit, Leave, history
    <2>2. \/ pc[t] \in Returning /\ pc'[t] \in Returning \cup {"leave"}
          \/ pc'[t] = "idle"
      BY <1>0, <1>6 DEF CheckOwner, CheckRegistered, ReloadAvailability, ReturnUnit, Leave
    <2> QED
      BY <1>1, <2>1, <2>2
  <1> QED
    BY <1>2, <1>3, <1>4, <1>5, <1>6 DEF Inside, RegisterResource

\* Inside, nobody registers a resource but the train itself.
LEMMA RegisteredIsKnown ==
  ASSUME IInv, NEW t \in Trains, pc[t] = "lookup", NEW r \in Resources, registered[r]
  PROVE  r \in known
  BY Alone DEF IInv, KnownOK, Registering, Threads, Outside

\* What the train read stays true until it writes: nobody else does.
LEMMA InsideAccess ==
  ASSUME IInv, NEW t \in Trains, Inside(t)
  PROVE  AccessOK(t)'
  <1>0. /\ t \in Threads /\ pc \in [Threads -> Labels] /\ reg \in [Threads -> 0 .. SemValueMax]
        /\ AccessOK(t) /\ CallerOK(t) /\ KnownOK
        /\ registered \in [Resources -> BOOLEAN]
        /\ availability \in [Resources -> 0 .. SemValueMax]
        /\ interest \in [Resources -> Uninit .. SemValueMax]
        /\ t # Registrar
    BY ProxyAssumption DEF IInv, TypeOK, Threads, Labels, Outside, Asking, Returning
  <1> USE DEF AccessOK, Step, Asking, Returning, Registering, Labels, Outside
  <1>1. CASE LookUp(t)
    BY <1>0, <1>1, RegisteredIsKnown DEF LookUp, tables, history, callers, KnownOK
  <1>2. CASE MarkRegistered(t)
    BY <1>0, <1>2 DEF MarkRegistered, history, callers
  <1>3. CASE SetAvailability(t)
    BY <1>0, <1>3 DEF SetAvailability, history, callers
  <1>4. CASE InitInterest(t)
    BY <1>0, <1>4 DEF InitInterest, history, callers
  <1>5. CASE CheckAvailability(t)
    BY <1>0, <1>5 DEF CheckAvailability, tables, history, callers
  <1>6. CASE LoadAvailability(t)
    BY <1>0, <1>6 DEF LoadAvailability, tables, history, callers
  <1>7. CASE TakeUnit(t)
    BY <1>0, <1>7 DEF TakeUnit, history, callers
  <1>8. CASE SetOwner(t) \/ LeaveRefused(t) \/ SignalInterest(t) \/ Leave(t)
    <2>1. pc'[t] \in {"idle", "leave"}
      BY <1>0, <1>8 DEF SetOwner, LeaveRefused, SignalInterest, Leave
    <2> QED
      BY <2>1
  <1>9. CASE CheckOwner(t) \/ CheckRegistered(t)
    BY <1>0, <1>9 DEF CheckOwner, CheckRegistered, tables, history, callers
  <1>10. CASE ReloadAvailability(t)
    BY <1>0, <1>10 DEF ReloadAvailability, tables, history, callers
  <1>11. CASE ReturnUnit(t)
    <2>1. /\ arg' = arg /\ owner' = owner /\ owner[arg[t]] = t
          /\ availability' = [availability EXCEPT ![arg[t]] = reg[t] + 1]
          /\ pc'[t] = "signal" /\ arg[t] \in Resources /\ reg[t] \in Nat
      BY <1>0, <1>11, ProxyAssumption DEF ReturnUnit, CallerOK
    <2> QED
      BY <1>0, <2>1
  <1> QED
    BY <1>1, <1>2, <1>3, <1>4, <1>5, <1>6, <1>7, <1>8, <1>9, <1>10, <1>11
      DEF Inside, RegisterResource

LEMMA InsideKnown ==
  ASSUME IInv, NEW t \in Trains, Inside(t)
  PROVE  KnownOK'
  <1>0. /\ t \in Threads /\ pc \in [Threads -> Labels]
        /\ AccessOK(t) /\ CallerOK(t) /\ KnownOK
        /\ registered \in [Resources -> BOOLEAN]
        /\ interest \in [Resources -> Uninit .. SemValueMax]
        /\ reg \in [Threads -> 0 .. SemValueMax]
        /\ holds \in [Resources -> SUBSET Trains]
        /\ t # Registrar
    BY ProxyAssumption DEF IInv, TypeOK, Threads, Labels, Outside, Asking, Returning
  <1>r. \A th \in Threads : pc[th] \in Registering => th = t
    BY Alone, InsideFrame DEF Registering, Outside, Threads
  <1> USE DEF KnownOK, Registering, AccessOK, Step, Asking, Returning, Labels, Outside, Uninit
  <1>1. CASE LookUp(t)
    BY <1>0, <1>r, <1>1 DEF LookUp, tables, history, callers
  <1>2. CASE MarkRegistered(t)
    BY <1>0, <1>r, <1>2 DEF MarkRegistered, history, callers
  <1>3. CASE SetAvailability(t)
    BY <1>0, <1>r, <1>3 DEF SetAvailability, history, callers
  <1>4. CASE InitInterest(t)
    BY <1>0, <1>r, <1>4 DEF InitInterest, history, callers
  <1>5. CASE CheckAvailability(t)
    BY <1>0, <1>r, <1>5 DEF CheckAvailability, tables, history, callers
  <1>6. CASE LoadAvailability(t)
    BY <1>0, <1>r, <1>6 DEF LoadAvailability, tables, history, callers
  <1>7. CASE TakeUnit(t)
    BY <1>0, <1>r, <1>7 DEF TakeUnit, history, callers
  <1>8. CASE SetOwner(t)
    BY <1>0, <1>r, <1>8 DEF SetOwner
  <1>9. CASE LeaveRefused(t)
    BY <1>0, <1>r, <1>9 DEF LeaveRefused, tables, history
  <1>10. CASE CheckOwner(t) \/ CheckRegistered(t) \/ ReloadAvailability(t) \/ Leave(t)
    BY <1>0, <1>r, <1>10 DEF CheckOwner, CheckRegistered, ReloadAvailability, Leave,
      tables, history, callers
  <1>11. CASE ReturnUnit(t)
    BY <1>0, <1>r, <1>11 DEF ReturnUnit, history, callers
  <1>12. CASE SignalInterest(t)
    BY <1>0, <1>r, <1>12 DEF SignalInterest, history, CallerOK
  <1> QED
    BY <1>1, <1>2, <1>3, <1>4, <1>5, <1>6, <1>7, <1>8, <1>9, <1>10, <1>11, <1>12
      DEF Inside, RegisterResource

\* Where a call takes effect a unit moves between the free ones and the holders;
\* everywhere else the free units, counted from there, stay what they were.
LEMMA InsideUnits ==
  ASSUME IInv, NEW t \in Trains, Inside(t)
  PROVE  UnitsOK'
  <1>0. /\ t \in Threads /\ pc \in [Threads -> Labels]
        /\ AccessOK(t) /\ CallerOK(t) /\ KnownOK /\ UnitsOK
        /\ known \subseteq Resources
        /\ availability \in [Resources -> 0 .. SemValueMax]
        /\ reg \in [Threads -> 0 .. SemValueMax]
        /\ amount \in [Resources -> Amounts \cup {0, 1}]
        /\ holds \in [Resources -> SUBSET Trains]
        /\ t # Registrar
        /\ arg' = arg
    BY InsideFrame, ProxyAssumption
      DEF IInv, TypeOK, Threads, Labels, Outside, Asking, Returning
  <1>f. \A r : /\ Free(r) = IF pc[t] = "own" /\ arg[t] = r THEN availability[r] + 1
                            ELSE IF pc[t] = "signal" /\ arg[t] = r THEN availability[r] - 1
                            ELSE availability[r]
               /\ Free(r)' = IF pc'[t] = "own" /\ arg[t] = r THEN availability'[r] + 1
                             ELSE IF pc'[t] = "signal" /\ arg[t] = r THEN availability'[r] - 1
                             ELSE availability'[r]
    BY <1>0, Alone, InsideFrame, InsideExclusive, FreeAlone, FreeAloneNext
  <1>c. \A r \in Resources : Cardinality(holds[r]) \in Nat
    BY <1>0, Counting
  <1>s. ASSUME UNCHANGED <<history, callers>>, \A r \in known : Free(r)' = Free(r)
        PROVE  UnitsOK'
    BY <1>0, <1>s DEF UnitsOK, history, callers
  <1> USE DEF Step
  <1>1. CASE LookUp(t) \/ CheckAvailability(t) \/ LoadAvailability(t) \/ CheckOwner(t)
             \/ CheckRegistered(t) \/ ReloadAvailability(t) \/ Leave(t)
    <2>1. UNCHANGED <<history, callers, availability>>
          /\ pc[t] \notin {"own", "signal"} /\ pc'[t] \notin {"own", "signal"}
      BY <1>0, <1>1 DEF LookUp, CheckAvailability, LoadAvailability, CheckOwner,
        CheckRegistered, ReloadAvailability, Leave, tables
    <2> QED
      BY <1>f, <1>s, <2>1
  <1>2. CASE MarkRegistered(t) \/ InitInterest(t)
    <2>1. UNCHANGED <<history, callers, availability>>
          /\ pc[t] \notin {"own", "signal"} /\ pc'[t] \notin {"own", "signal"}
      BY <1>0, <1>2 DEF MarkRegistered, InitInterest
    <2> QED
      BY <1>f, <1>s, <2>1
  <1>3. CASE SetAvailability(t)
    <2>1. UNCHANGED <<history, callers>> /\ arg[t] \notin known
          /\ pc[t] \notin {"own", "signal"} /\ pc'[t] \notin {"own", "signal"}
          /\ \A r \in known : availability'[r] = availability[r]
      BY <1>0, <1>3 DEF SetAvailability, AccessOK
    <2> QED
      BY <1>f, <1>s, <2>1
  <1>4. CASE TakeUnit(t)
    <2>1. /\ UNCHANGED <<history, callers>>
          /\ pc[t] = "take" /\ pc'[t] = "own"
          /\ availability' = [availability EXCEPT ![arg[t]] = @ - 1]
      BY <1>0, <1>4 DEF TakeUnit, AccessOK
    <2> QED
      BY <1>0, <1>f, <1>s, <2>1
  <1>5. CASE ReturnUnit(t)
    <2>1. /\ UNCHANGED <<history, callers>>
          /\ pc[t] = "return" /\ pc'[t] = "signal"
          /\ availability' = [availability EXCEPT ![arg[t]] = @ + 1]
      BY <1>0, <1>5 DEF ReturnUnit, AccessOK
    <2> QED
      BY <1>0, <1>f, <1>s, <2>1
  <1>6. CASE SetOwner(t)
    <2> SUFFICES ASSUME NEW r \in known'
                 PROVE  /\ Free(r)' + Cardinality(holds'[r]) = amount'[r]
                        /\ amount'[r] \in 0 .. SemValueMax
      BY DEF UnitsOK
    <2>1. /\ arg[t] \in Resources /\ t \notin holds[arg[t]]
          /\ pc[t] = "own" /\ pc'[t] = "leave"
          /\ availability' = availability /\ known' = known \cup {arg[t]}
          /\ holds' = [holds EXCEPT ![arg[t]] = @ \cup {t}]
          /\ amount' = [amount EXCEPT ![arg[t]] = IF arg[t] \in known THEN @ ELSE 1]
      BY <1>0, <1>6 DEF SetOwner, AccessOK, CallerOK, Asks, Asking
    <2>2. CASE r # arg[t]
      <3>1. /\ r \in known
            /\ Free(r)' = Free(r) /\ holds'[r] = holds[r] /\ amount'[r] = amount[r]
        BY <1>0, <1>f, <2>1, <2>2
      <3> QED
        BY <3>1, <1>0 DEF UnitsOK
    <2>3. CASE r = arg[t]
      <3>1. Cardinality(holds'[r]) = Cardinality(holds[r]) + 1
        BY <1>0, <2>1, <2>3, Counting
      <3>2. CASE r \in known
        <4>1. /\ Free(r)' = Free(r) - 1 /\ Free(r) \in Int
              /\ amount'[r] = amount[r]
          BY <1>0, <1>f, <2>1, <2>3, <3>2
        <4>2. Free(r) + Cardinality(holds[r]) = amount[r] /\ amount[r] \in 0 .. SemValueMax
          BY <1>0, <3>2 DEF UnitsOK
        <4> QED
          BY <1>c, <2>1, <2>3, <3>1, <4>1, <4>2
      <3>3. CASE r \notin known
        <4>1. Cardinality(holds[r]) = 0 /\ availability[r] = 0
          BY <1>0, <2>1, <2>3, <3>3, FS_EmptySet DEF KnownOK, AccessOK
        <4>2. Free(r)' = 0 /\ amount'[r] = 1
          BY <1>0, <1>f, <2>1, <2>3, <3>3, <4>1
        <4> QED
          BY <3>1, <4>1, <4>2, ProxyAssumption
      <3> QED
        BY <3>2, <3>3
    <2> QED
      BY <2>2, <2>3
  <1>7. CASE LeaveRefused(t)
    <2>1. UNCHANGED <<history, holds, availability>>
          /\ pc[t] \notin {"own", "signal"} /\ pc'[t] \notin {"own", "signal"}
      BY <1>0, <1>7 DEF LeaveRefused, tables
    <2> QED
      BY <1>0, <1>f, <2>1 DEF UnitsOK, history
  <1>8. CASE SignalInterest(t)
    <2> SUFFICES ASSUME NEW r \in known'
                 PROVE  /\ Free(r)' + Cardinality(holds'[r]) = amount'[r]
                        /\ amount'[r] \in 0 .. SemValueMax
      BY DEF UnitsOK
    <2>1. /\ arg[t] \in Resources /\ t \in holds[arg[t]]
          /\ pc[t] = "signal" /\ pc'[t] = "leave"
          /\ UNCHANGED <<availability, known, amount>>
          /\ holds' = [holds EXCEPT ![arg[t]] = @ \ {t}]
      BY <1>0, <1>8 DEF SignalInterest, CallerOK, Returning, history
    <2>2. Free(r) + Cardinality(holds[r]) = amount[r] /\ amount[r] \in 0 .. SemValueMax
      BY <1>0, <2>1 DEF UnitsOK
    <2>3. CASE r # arg[t]
      <3>1. Free(r)' = Free(r) /\ holds'[r] = holds[r] /\ amount'[r] = amount[r]
        BY <1>0, <1>f, <2>1, <2>3
      <3> QED
        BY <3>1, <2>2
    <2>4. CASE r = arg[t]
      <3>1. Cardinality(holds'[r]) = Cardinality(holds[r]) - 1
        BY <1>0, <2>1, <2>4, Counting
      <3>2. Free(r)' = Free(r) + 1 /\ Free(r) \in Int /\ amount'[r] = amount[r]
        BY <1>0, <1>f, <2>1, <2>4
      <3> QED
        BY <1>c, <2>1, <2>2, <2>4, <3>1, <3>2
    <2> QED
      BY <2>3, <2>4
  <1> QED
    BY <1>1, <1>2, <1>3, <1>4, <1>5, <1>6, <1>7, <1>8 DEF Inside, RegisterResource

LEMMA InsideStep ==
  ASSUME IInv, NEW t \in Trains, Inside(t)
  PROVE  IInv'
  <1>1. \A u \in Trains : CallerOK(u)' /\ AccessOK(u)'
    BY InsideOthers, InsideCaller, InsideAccess
  <1> QED
    BY <1>1, InsideTypes, InsideExclusive, InsideKnown, InsideUnits DEF IInv

-----------------------------------------------------------------------------
(* The steps that lead into the lock, the wait, and the registrar's steps. *)

\* A train outside starts a call or takes the lock: no table is touched.
Approach(t) ==
  \/ \E r \in Ids : CallAttempt(t, r)
  \/ \E r \in Resources : CallRelease(t, r)
  \/ EnterAttempt(t) \/ EnterRelease(t)

LEMMA ApproachFrame ==
  ASSUME IInv, NEW t \in Trains, Approach(t)
  PROVE  /\ pc' = [pc EXCEPT ![t] = pc'[t]] /\ pc[t] \in Outside
         /\ pc'[t] \in {"enter_attempt", "enter_release", "lookup", "refused", "owned"}
         /\ arg' = [arg EXCEPT ![t] = arg'[t]] /\ arg'[t] \in Ids \cup {Nothing}
         /\ UNCHANGED <<tables, reg, history, callers>>
         /\ \/ lock' = lock /\ pc'[t] \in Outside
            \/ lock = 1 /\ lock' = 0 /\ pc'[t] \notin Outside
         /\ CallerOK(t)' /\ AccessOK(t)'
  <1>0. /\ t \in Threads /\ CallerOK(t) /\ Resources \subseteq Ids
        /\ pc \in [Threads -> Labels] /\ arg \in [Threads -> Ids \cup {Nothing}]
    BY ProxyAssumption DEF IInv, TypeOK, Threads, Labels, Outside, Asking, Returning
  <1> USE DEF Step, Outside, Asking, Returning, Registering, CallerOK, AccessOK, Asks,
        tables, history, callers
  <1>1. CASE \E r \in Ids : CallAttempt(t, r)
    BY <1>0, <1>1 DEF CallAttempt
  <1>2. CASE \E r \in Resources : CallRelease(t, r)
    BY <1>0, <1>2 DEF CallRelease
  <1>3. CASE EnterAttempt(t)
    BY <1>0, <1>3 DEF EnterAttempt, LockAcquired
  <1>4. CASE EnterRelease(t)
    BY <1>0, <1>4 DEF EnterRelease, LockAcquired
  <1> QED
    BY <1>1, <1>2, <1>3, <1>4 DEF Approach

LEMMA ApproachStep ==
  ASSUME IInv, NEW t \in Trains, pc[Registrar] = "done", Approach(t)
  PROVE  IInv'
  <1>0. /\ t \in Threads /\ t # Registrar /\ Registrar \in Threads
        /\ pc \in [Threads -> Labels] /\ arg \in [Threads -> Ids \cup {Nothing}]
    BY ProxyAssumption DEF IInv, TypeOK, Threads, Labels, Outside, Asking, Returning
  <1>1. \A u \in Threads \ {t} : pc'[u] = pc[u] /\ arg'[u] = arg[u]
    BY <1>0, ApproachFrame
  <1>2. TypeOK'
    BY <1>0, ApproachFrame DEF IInv, TypeOK, Outside, tables, history, callers
  <1>3. Exclusive'
    BY <1>0, <1>1, ApproachFrame, Alone DEF IInv, Exclusive, Threads
  <1>4. RegistrarOK'
    BY <1>0, <1>1 DEF IInv, RegistrarOK
  <1>5. ASSUME NEW u \in Trains PROVE CallerOK(u)' /\ AccessOK(u)'
    <2>1. CASE u = t
      BY <2>1, ApproachFrame
    <2>2. CASE u # t
      <3>1. pc'[u] = pc[u] /\ arg'[u] = arg[u] /\ UNCHANGED <<tables, reg, history, callers>>
        BY <1>1, <2>2, ApproachFrame DEF Threads
      <3>2. CallerOK(u) /\ AccessOK(u)
        BY DEF IInv
      <3> QED
        BY <3>1, <3>2 DEF CallerOK, AccessOK, Asks, tables, history, callers
    <2> QED
      BY <2>1, <2>2
  <1>6. KnownOK'
    <2>1. \A th \in Threads : pc[th] \in Registering => th # t
      BY ApproachFrame DEF Registering, Outside
    <2> QED
      BY <1>1, <2>1, ApproachFrame DEF IInv, KnownOK, tables, history, callers
  <1>7. UnitsOK'
    <2>1. \A label \in {"own", "signal"} : \A r : At(label, r)' <=> At(label, r)
      BY <1>1, ApproachFrame DEF At, Outside, Threads
    <2> QED
      BY <2>1, ApproachFrame DEF IInv, UnitsOK, Free, tables, history, callers
  <1> QED
    BY <1>2, <1>3, <1>4, <1>5, <1>6, <1>7 DEF IInv

LEMMA WaitStep ==
  ASSUME IInv, NEW t \in Trains, NEW r \in Resources, WaitResource(t, r)
  PROVE  IInv'
  <1>1. /\ UNCHANGED <<registered, availability, owner, lock, locals, history, holds, want>>
        /\ woken' = woken \cup {t} /\ want[t] = r
        /\ interest' = [interest EXCEPT ![r] = interest'[r]]
    BY DEF WaitResource, IInv, TypeOK
  <1>2. r \in known /\ interest[r] # Uninit /\ interest[r] \in Uninit .. SemValueMax
    BY <1>1, ProxyAssumption DEF IInv, TypeOK, CallerOK, KnownOK
  <1>3. interest'[r] \in 0 .. SemValueMax
    BY <1>2, ProxyAssumption DEF WaitResource, IInv, TypeOK, Uninit
  <1>4. TypeOK'
    BY <1>1, <1>3 DEF IInv, TypeOK, locals, history, Uninit
  <1>5. Exclusive' /\ RegistrarOK'
    BY <1>1 DEF IInv, Exclusive, RegistrarOK, locals, history
  <1>6. ASSUME NEW u \in Trains PROVE CallerOK(u)' /\ AccessOK(u)'
    <2>1. CallerOK(u) /\ AccessOK(u) /\ Resources \subseteq Ids
      BY ProxyAssumption DEF IInv
    <2>2. CallerOK(u)'
      BY <1>1, <2>1, ProxyAssumption
        DEF WaitResource, CallerOK, Asks, Asking, Returning, locals, history
    <2>3. \A q \in Resources : q \notin known => interest'[q] = interest[q]
      BY <1>1, <1>2 DEF IInv, TypeOK
    <2>4. AccessOK(u)'
      BY <1>1, <2>1, <2>3 DEF AccessOK, Asking, Registering, locals, history
    <2> QED
      BY <2>2, <2>4
  <1>7. KnownOK'
    BY <1>1, <1>2, <1>3 DEF IInv, TypeOK, KnownOK, locals, history, Uninit
  <1>8. UnitsOK'
    BY <1>1 DEF IInv, UnitsOK, Free, At, locals, history
  <1> QED
    BY <1>4, <1>5, <1>6, <1>7, <1>8 DEF IInv

\* While the registrar is not done, no train has made a call.
LEMMA RegistrarStep ==
  ASSUME IInv, RegistrarNext
  PROVE  IInv'
  <1> DEFINE a == arg[Registrar]
  <1>0. /\ Registrar \in Threads /\ Registrar \notin Trains
        /\ pc \in [Threads -> Labels] /\ reg \in [Threads -> 0 .. SemValueMax]
        /\ RegistrarOK /\ KnownOK /\ UnitsOK /\ Exclusive /\ TypeOK
        /\ Amounts \subseteq 0 .. SemValueMax
        /\ \A t \in Trains : t \in Threads
    BY ProxyAssumption DEF IInv, TypeOK, Threads, Labels, Outside, Asking, Returning
  <1>1. /\ pc[Registrar] # "done" /\ lock' = lock /\ UNCHANGED <<owner, callers>>
        /\ pc' = [pc EXCEPT ![Registrar] = pc'[Registrar]]
        /\ pc'[Registrar] \in {"idle", "mark", "stock", "seminit", "done"}
        /\ \A t \in Trains : arg'[t] = arg[t] /\ reg'[t] = reg[t]
        /\ known \subseteq known'
    BY <1>0 DEF RegistrarNext, CallRegister, AllRegistered, RegisterResource, MarkRegistered,
      SetAvailability, InitInterest, Step, tables, history, callers, TypeOK
  <1>2. \A t \in Trains : pc[t] = "idle" /\ pc'[t] = "idle"
    BY <1>0, <1>1 DEF RegistrarOK
  <1>3. TypeOK'
    <2> USE DEF TypeOK, Step, tables, history, callers, Uninit, Outside
    <2>1. CASE AllRegistered
      BY <1>0, <2>1 DEF AllRegistered
    <2>2. ASSUME NEW r \in Resources, NEW n \in Amounts, CallRegister(r, n) PROVE TypeOK'
      BY <1>0, <2>2, ProxyAssumption DEF CallRegister
    <2>3. CASE MarkRegistered(Registrar)
      BY <1>0, <2>3 DEF MarkRegistered
    <2>4. CASE SetAvailability(Registrar)
      BY <1>0, <2>4 DEF SetAvailability
    <2>5. CASE InitInterest(Registrar)
      <3>1. a \in Resources /\ reg[Registrar] \in Amounts
        BY <1>0, <2>5 DEF InitInterest, RegistrarOK
      <3> QED
        BY <1>0, <2>5, <3>1 DEF InitInterest
    <2> QED
      BY <2>1, <2>2, <2>3, <2>4, <2>5 DEF RegistrarNext, RegisterResource
  <1>4. Exclusive'
    BY <1>0, <1>1, <1>2 DEF Exclusive, Outside
  <1>5. ASSUME NEW t \in Trains PROVE CallerOK(t)' /\ AccessOK(t)'
    <2>1. CallerOK(t)
      BY DEF IInv
    <2> QED
      BY <1>1, <1>2, <2>1 DEF CallerOK, AccessOK, Asking, Returning, Registering, callers
  <1>6. \A r \in known : Free(r) = availability[r]
    BY <1>2 DEF Free, At
  <1>7. \A r : Free(r)' = availability'[r]
    BY <1>2 DEF Free, At
  <1>8. RegistrarOK' /\ KnownOK' /\ UnitsOK'
    <2> USE DEF Step, tables, history, callers
    <2>1. CASE AllRegistered
      BY <1>0, <1>2, <1>6, <1>7, <2>1 DEF AllRegistered, RegistrarOK, KnownOK, UnitsOK, Registering
    <2>2. ASSUME NEW r \in Resources, NEW n \in Amounts, CallRegister(r, n)
          PROVE  RegistrarOK' /\ KnownOK' /\ UnitsOK'
      BY <1>0, <1>2, <1>6, <1>7, <2>2
        DEF CallRegister, RegistrarOK, KnownOK, UnitsOK, Registering, TypeOK
    <2>3. CASE MarkRegistered(Registrar)
      BY <1>0, <1>2, <1>6, <1>7, <2>3
        DEF MarkRegistered, RegistrarOK, KnownOK, UnitsOK, Registering, TypeOK
    <2>4. CASE SetAvailability(Registrar)
      BY <1>0, <1>2, <1>6, <1>7, <2>4
        DEF SetAvailability, RegistrarOK, KnownOK, UnitsOK, Registering, TypeOK
    <2>5. CASE InitInterest(Registrar)
      <3>1. /\ a \in Resources /\ a \notin known /\ registered[a]
            /\ reg[Registrar] \in 0 .. SemValueMax /\ availability[a] = reg[Registrar]
        BY <1>0, <2>5 DEF InitInterest, RegistrarOK
      <3>2. /\ UNCHANGED <<registered, availability, arg, holds>>
            /\ known' = known \cup {a}
            /\ amount' = [amount EXCEPT ![a] = reg[Registrar]]
            /\ interest' = [interest EXCEPT ![a] = reg[Registrar]]
            /\ pc'[Registrar] = "idle"
        BY <1>0, <2>5 DEF InitInterest
      <3>3. holds[a] = {} /\ Cardinality(holds[a]) = 0
        BY <1>0, <3>1, FS_EmptySet DEF KnownOK
      <3>4. RegistrarOK'
        BY <1>2, <3>2 DEF RegistrarOK
      <3>5. \A th \in Threads : pc[th] \in Registering => th = Registrar
        BY <1>2 DEF Threads, Registering
      <3>6. KnownOK'
        BY <1>0, <3>1, <3>2, <3>5 DEF KnownOK, TypeOK, Uninit
      <3>7. UnitsOK'
        <4> SUFFICES ASSUME NEW r \in known'
                     PROVE  /\ Free(r)' + Cardinality(holds'[r]) = amount'[r]
                            /\ amount'[r] \in 0 .. SemValueMax
          BY DEF UnitsOK
        <4>1. CASE r \in known
          <5>1. Free(r) + Cardinality(holds[r]) = amount[r] /\ amount[r] \in 0 .. SemValueMax
            BY <1>0, <4>1 DEF UnitsOK
          <5>2. r # a /\ Free(r)' = Free(r)
            BY <1>6, <1>7, <3>1, <3>2, <4>1
          <5> QED
            BY <1>0, <3>2, <4>1, <5>1, <5>2 DEF TypeOK
        <4>2. CASE r = a
          <5>1. /\ availability'[r] = reg[Registrar] /\ amount'[r] = reg[Registrar]
                /\ Cardinality(holds'[r]) = 0
            BY <1>0, <3>1, <3>2, <3>3, <4>2 DEF TypeOK
          <5> QED
            BY <1>7, <3>1, <5>1
        <4> QED
          BY <3>2, <4>1, <4>2
      <3> QED
        BY <3>4, <3>6, <3>7
    <2> QED
      BY <2>1, <2>2, <2>3, <2>4, <2>5 DEF RegistrarNext, RegisterResource
  <1> QED
    BY <1>3, <1>4, <1>5, <1>8 DEF IInv

LEMMA StepHolds == IInv /\ [Next]_vars => IInv'
  <1> SUFFICES ASSUME IInv, [Next]_vars PROVE IInv'
    OBVIOUS
  <1>1. CASE RegistrarNext
    BY <1>1, RegistrarStep
  <1>2. ASSUME NEW t \in Trains, pc[Registrar] = "done", TrainNext(t) PROVE IInv'
    BY <1>2, InsideStep, ApproachStep, WaitStep DEF TrainNext, Approach
  <1>3. CASE UNCHANGED vars
    BY <1>3 DEF vars, tables, locals, history, callers, IInv, TypeOK, Exclusive, RegistrarOK,
      CallerOK, Asks, AccessOK, KnownOK, UnitsOK, Free, At
  <1> QED
    BY <1>1, <1>2, <1>3 DEF Next

\* The invariant behind the theorems.
THEOREM Invariance == Spec => []IInv
  <1> QED
    BY InitHolds, StepHolds, PTL DEF Spec

-----------------------------------------------------------------------------
(* What follows from it. *)

\* The tables, the threads and their callers keep their types.
THEOREM TypeCorrect == Spec => []TypeOK
  <1>1. IInv => TypeOK
    BY DEF IInv
  <1> QED
    BY Invariance, <1>1, PTL

\* The semaphore is a lock: its value tells whether a train is inside, alone.
THEOREM LockIsExclusive == Spec => []LockGuards
  <1>1. ASSUME IInv PROVE LockGuards
    <2> DEFINE S == {t \in Trains : pc[t] \notin Outside}
    <2>1. CASE lock = 1 /\ \A t \in Trains : pc[t] \in Outside
      <3>1. S = {}
        BY <2>1
      <3> QED
        BY <2>1, <3>1, FS_EmptySet DEF LockGuards
    <2>2. ASSUME lock = 0, NEW t \in Trains, pc[t] \notin Outside,
                 \A u \in Trains \ {t} : pc[u] \in Outside
          PROVE  LockGuards
      <3>1. S = {t}
        BY <2>2
      <3> QED
        BY <2>2, <3>1, FS_Singleton DEF LockGuards
    <2> QED
      BY <1>1, <2>1, <2>2 DEF IInv, Exclusive
  <1> QED
    BY Invariance, <1>1, PTL

\* Two trains never hold a resource that has one unit.
THEOREM OneUnitIsExclusive == Spec => []OneUnitOneTrain
  <1>1. IInv => OneUnitOneTrain
    <2> SUFFICES ASSUME IInv, NEW r \in known, amount[r] = 1
                 PROVE  Cardinality(holds[r]) <= 1
      BY DEF OneUnitOneTrain
    <2>1. r \in Resources /\ holds[r] \subseteq Trains /\ availability[r] \in 0 .. SemValueMax
      BY DEF IInv, TypeOK
    <2>2. Cardinality(holds[r]) \in Nat /\ Free(r) + Cardinality(holds[r]) = 1
      BY <2>1, Counting DEF IInv, UnitsOK
    <2>3. At("signal", r) => availability[r] >= 1
      BY DEF At, IInv, AccessOK
    <2>4. Free(r) \in Int /\ Free(r) >= 0
      BY <2>1, <2>3 DEF Free
    <2> QED
      BY <2>2, <2>4
  <1> QED
    BY Invariance, <1>1, PTL

-----------------------------------------------------------------------------
(* The refinement: the calls of the proxy, access by access, implement the *)
(* calls of the database that take one step.                               *)

seen == <<seenRegistered, seenAvailability, seenInterest>>

\* Nothing is seen of a step that leaves what is known, and what is counted of
\* it, alone.
LEMMA Unseen ==
  ASSUME UNCHANGED known,
         \A r \in known : Free(r)' = Free(r) /\ interest'[r] = interest[r]
  PROVE  UNCHANGED seen
  <1> USE DEF seenRegistered, seenAvailability, seenInterest
  <1>1. UNCHANGED seenRegistered
    OBVIOUS
  <1>2. UNCHANGED seenAvailability
    OBVIOUS
  <1>3. UNCHANGED seenInterest
    OBVIOUS
  <1> QED
    BY <1>1, <1>2, <1>3 DEF seen

\* What is seen of a resource before and after a step inside.
LEMMA InsideFree ==
  ASSUME IInv, NEW t \in Trains, Inside(t), NEW r
  PROVE  /\ Free(r) = IF pc[t] = "own" /\ arg[t] = r THEN availability[r] + 1
                      ELSE IF pc[t] = "signal" /\ arg[t] = r THEN availability[r] - 1
                      ELSE availability[r]
         /\ Free(r)' = IF pc'[t] = "own" /\ arg[t] = r THEN availability'[r] + 1
                       ELSE IF pc'[t] = "signal" /\ arg[t] = r THEN availability'[r] - 1
                       ELSE availability'[r]
  BY Alone, InsideFrame, InsideExclusive, FreeAlone, FreeAloneNext

\* The facts of the invariant about a train inside.
LEMMA InsideFacts ==
  ASSUME IInv, NEW t \in Trains
  PROVE  /\ t \in Threads /\ t # Registrar
         /\ pc \in [Threads -> Labels] /\ reg \in [Threads -> 0 .. SemValueMax]
         /\ arg \in [Threads -> Ids \cup {Nothing}]
         /\ AccessOK(t) /\ CallerOK(t) /\ KnownOK
         /\ known \subseteq Resources /\ Resources \subseteq Ids
         /\ availability \in [Resources -> 0 .. SemValueMax]
         /\ interest \in [Resources -> Uninit .. SemValueMax]
         /\ amount \in [Resources -> Amounts \cup {0, 1}]
         /\ holds \in [Resources -> SUBSET Trains]
         /\ want \in [Trains -> Resources \cup {Nothing}]
         /\ Nothing \notin Ids
  BY ProxyAssumption DEF IInv, TypeOK, Threads, Labels, Outside, Asking, Returning

LEMMA OnePoint ==
  ASSUME NEW S, NEW r \in S, NEW f \in [S -> BOOLEAN], NEW g \in [S -> BOOLEAN],
         g[r] = TRUE, \A q \in S : q # r => g[q] = f[q]
  PROVE  g = [f EXCEPT ![r] = TRUE]
  OBVIOUS

LEMMA Registration ==
  ASSUME NEW r \in Resources, known' = known \cup {r}
  PROVE  seenRegistered' = [seenRegistered EXCEPT ![r] = TRUE]
  <1>1. \A q \in Resources : seenRegistered[q] = (q \in known)
    BY Zenon DEF seenRegistered
  <1>2. \A q \in Resources : seenRegistered'[q] = (q \in known')
    BY Zenon DEF seenRegistered
  <1>3. seenRegistered \in [Resources -> BOOLEAN] /\ seenRegistered' \in [Resources -> BOOLEAN]
    BY DEF seenRegistered
  <1>4. seenRegistered'[r] = TRUE
    BY <1>2, <1>3
  <1>5. \A q \in Resources : q # r => seenRegistered'[q] = seenRegistered[q]
    <2>1. \A q \in Resources : q # r => (q \in known') = (q \in known)
      OBVIOUS
    <2> QED
      BY <1>1, <1>2, <2>1
  <1> QED
    BY <1>3, <1>4, <1>5, OnePoint

\* The units the database sees of a resource.
LEMMA SeenUnits ==
  ASSUME NEW r \in Resources
  PROVE  /\ seenRegistered[r] <=> r \in known
         /\ Database!Units(r) = IF r \in known THEN Free(r) ELSE 1
  <1>1. seenRegistered[r] <=> r \in known
    BY Zenon DEF seenRegistered
  <1>2. r \in known => seenAvailability[r] = Free(r)
    BY DEF seenAvailability
  <1> QED
    BY <1>1, <1>2 DEF Database!Units

-----------------------------------------------------------------------------
(* The steps that take effect. *)

\* A train that is in attemptLockResource asks first, or again.
LEMMA AsksInDatabase ==
  ASSUME IInv, NEW t \in Trains, pc[t] \in Asking
  PROVE  /\ arg[t] \in Ids
         /\ \/ Database!AsksFirst(t, arg[t])
            \/ arg[t] \in Resources /\ Database!AsksAgain(t, arg[t])
  BY InsideFacts DEF CallerOK, Asks, Database!AsksFirst, Database!AsksAgain

LEMMA GrantInDatabase ==
  ASSUME IInv, NEW t \in Trains, Inside(t), SetOwner(t)
  PROVE  Database!GrantLock(t, arg[t])
  <1> DEFINE r == arg[t]
  <1>1. /\ r \in Resources /\ registered[r]
        /\ pc[t] = "own" /\ pc'[t] = "leave"
        /\ UNCHANGED <<registered, availability, interest>>
        /\ known' = known \cup {r}
        /\ r \notin known => availability[r] = 0 /\ interest[r] = 1
    BY InsideFacts DEF SetOwner, Step, AccessOK, Asking, Registering
  <1>2. \A q \in Resources : Free(q)  = (IF q = r THEN availability[q] + 1 ELSE availability[q])
    BY <1>1, InsideFree
  <1>3. \A q \in Resources : Free(q)' = availability[q]
    BY <1>1, InsideFree
  <1>4. availability[r] \in Nat
    BY <1>1, InsideFacts, ProxyAssumption
  <1>5. seenRegistered' = [seenRegistered EXCEPT ![r] = TRUE]
    BY <1>1, Registration
  <1>6. seenAvailability' = [seenAvailability EXCEPT ![r] = Database!Units(r) - 1]
    <2>1. Database!Units(r) - 1 = availability[r]
      BY <1>1, <1>2, <1>4, SeenUnits
    <2> QED
      BY <1>1, <1>2, <1>3, <2>1 DEF seenAvailability
  <1>7. seenInterest' = [seenInterest EXCEPT ![r] = Database!Signals(r)]
    BY <1>1 DEF seenInterest, Database!Signals, seenRegistered
  <1>8. Database!Lockable(r)
    BY <1>1, <1>2, <1>4, SeenUnits DEF Database!Lockable
  <1>9. amount' = [amount EXCEPT ![r] = IF seenRegistered[r] THEN @ ELSE 1]
    BY <1>1 DEF SetOwner, seenRegistered
  <1> QED
    BY <1>1, <1>5, <1>6, <1>7, <1>8, <1>9 DEF SetOwner, Database!GrantLock

LEMMA RefuseInDatabase ==
  ASSUME IInv, NEW t \in Trains, Inside(t), LeaveRefused(t)
  PROVE  Database!RefuseLock(t, arg[t])
  <1> DEFINE r == arg[t]
  <1>1. /\ UNCHANGED <<known, amount, availability, interest, owner, holds>>
        /\ pc[t] = "refused" /\ pc'[t] = "idle"
        /\ r \in Resources => r \in known /\ availability[r] < 1
    BY InsideFacts DEF LeaveRefused, Step, AccessOK, tables, history
  <1>2. \A q : Free(q) = availability[q] /\ Free(q)' = availability[q]
    BY <1>1, InsideFree
  <1>3. UNCHANGED seen
    BY <1>1, <1>2, Unseen
  <1>4. r \in Resources => ~Database!Lockable(r)
    BY <1>1, <1>2, InsideFacts, SeenUnits, ProxyAssumption DEF Database!Lockable
  <1> QED
    BY <1>1, <1>3, <1>4 DEF LeaveRefused, Database!RefuseLock, Database!database, seen

LEMMA ReleaseInDatabase ==
  ASSUME IInv, NEW t \in Trains, Inside(t), SignalInterest(t)
  PROVE  /\ arg[t] \in Resources /\ Database!Returns(t, arg[t])
         /\ Database!AcceptRelease(t, arg[t])
  <1> DEFINE r == arg[t]
  <1>1. /\ UNCHANGED <<known, amount, availability, owner>>
        /\ pc[t] = "signal" /\ pc'[t] = "leave"
        /\ r \in Resources /\ t \in holds[r] /\ want[t] = Nothing
        /\ owner[r] = t /\ r \in known
    BY InsideFacts DEF SignalInterest, Step, AccessOK, CallerOK, Returning, KnownOK, history
  <1>2. \A q \in Resources : Free(q) = (IF q = r THEN availability[q] - 1 ELSE availability[q])
    BY <1>1, InsideFree
  <1>3. \A q \in Resources : Free(q)' = availability[q]
    BY <1>1, InsideFree
  <1>4. UNCHANGED seenRegistered /\ seenRegistered[r]
    BY <1>1 DEF seenRegistered
  <1>5. seenAvailability' = [seenAvailability EXCEPT ![r] = @ + 1]
    <2>1. availability[r] \in Nat
      BY <1>1, InsideFacts, ProxyAssumption
    <2> QED
      BY <1>1, <1>2, <1>3, <2>1 DEF seenAvailability
  <1>6. seenInterest' = [seenInterest EXCEPT ![r] = Database!SemPost(@)]
    BY <1>1, InsideFacts DEF SignalInterest, seenInterest, Database!SemPost
  <1> QED
    BY <1>1, <1>4, <1>5, <1>6
      DEF SignalInterest, Database!Returns, Database!AcceptRelease, history

LEMMA WaitInDatabase ==
  ASSUME IInv, NEW t \in Trains, NEW r \in Resources, WaitResource(t, r)
  PROVE  Database!WaitResource(t, r)
  <1>1. /\ UNCHANGED <<pc, arg, availability, owner, known, amount, holds, want>>
        /\ want[t] = r /\ t \notin woken /\ woken' = woken \cup {t}
        /\ interest[r] >= 1 \/ interest[r] = Uninit
        /\ interest' = [interest EXCEPT ![r] = IF @ = Uninit THEN @ ELSE @ - 1]
    BY DEF WaitResource, locals, history
  <1>2. r \in known /\ interest \in [Resources -> Uninit .. SemValueMax]
    BY <1>1, InsideFacts DEF CallerOK
  <1>3. \A q : Free(q)' = Free(q)
    BY <1>1 DEF Free, At
  <1>4. UNCHANGED <<seenRegistered, seenAvailability>>
    BY <1>1, <1>3 DEF seenRegistered, seenAvailability
  <1>5. seenInterest[r] = interest[r]
    BY <1>2 DEF seenInterest
  <1>6. seenInterest' = [seenInterest EXCEPT ![r] = IF @ = Uninit THEN @ ELSE @ - 1]
    BY <1>1, <1>2 DEF seenInterest
  <1> QED
    BY <1>1, <1>4, <1>5, <1>6 DEF Database!WaitResource, Uninit, Database!Uninit

LEMMA RegisterInDatabase ==
  ASSUME IInv, InitInterest(Registrar)
  PROVE  \E r \in Resources, n \in Amounts :
           ~seenRegistered[r] /\ Database!RegisterResource(r, n)
  <1> DEFINE r == arg[Registrar]
             n == reg[Registrar]
  <1>1. /\ pc[Registrar] = "seminit" /\ pc' = [pc EXCEPT ![Registrar] = "idle"]
        /\ UNCHANGED <<registered, availability, owner, callers, arg>>
        /\ known' = known \cup {r} /\ amount' = [amount EXCEPT ![r] = n]
        /\ interest' = [interest EXCEPT ![r] = n]
    BY DEF InitInterest, Step
  <1>2. /\ r \in Resources /\ r \notin known /\ n \in Amounts /\ availability[r] = n
        /\ \A t \in Trains : pc[t] = "idle" /\ pc'[t] = "idle"
        /\ interest \in [Resources -> Uninit .. SemValueMax]
    BY <1>1, ProxyAssumption DEF IInv, RegistrarOK, TypeOK, Threads
  <1>3. \A q : Free(q) = availability[q] /\ Free(q)' = availability[q]
    BY <1>1, <1>2 DEF Free, At
  <1>4. ~seenRegistered[r] /\ seenRegistered' = [seenRegistered EXCEPT ![r] = TRUE]
    BY <1>1, <1>2, Registration, SeenUnits
  <1>5. seenAvailability' = [seenAvailability EXCEPT ![r] = n]
    BY <1>1, <1>2, <1>3 DEF seenAvailability
  <1>6. seenInterest' = [seenInterest EXCEPT ![r] = n]
    BY <1>1, <1>2 DEF seenInterest
  <1>7. Database!RegisterResource(r, n)
    BY <1>1, <1>4, <1>5, <1>6 DEF Database!RegisterResource, Database!callers, callers
  <1> QED
    BY <1>2, <1>4, <1>7

-----------------------------------------------------------------------------
(* The steps the database does not see. *)

LEMMA InsideUnseen ==
  ASSUME IInv, NEW t \in Trains, Inside(t),
         ~SetOwner(t), ~LeaveRefused(t), ~SignalInterest(t)
  PROVE  UNCHANGED <<seen, owner, amount, callers>>
  <1> USE DEF Step
  <1>k. ASSUME UNCHANGED <<known, availability, interest>>,
               pc[t] \notin {"own", "signal"}, pc'[t] \notin {"own", "signal"}
        PROVE  UNCHANGED seen
    BY <1>k, InsideFree, Unseen
  <1>1. CASE LookUp(t) \/ CheckAvailability(t) \/ LoadAvailability(t) \/ CheckOwner(t)
             \/ CheckRegistered(t) \/ ReloadAvailability(t) \/ Leave(t)
    <2>1. UNCHANGED <<known, availability, interest, owner, amount, callers>>
          /\ pc[t] \notin {"own", "signal"} /\ pc'[t] \notin {"own", "signal"}
      BY <1>1, InsideFacts DEF LookUp, CheckAvailability, LoadAvailability, CheckOwner,
        CheckRegistered, ReloadAvailability, Leave, tables, history
    <2> QED
      BY <1>k, <2>1
  <1>2. CASE MarkRegistered(t)
    <2>1. UNCHANGED <<known, availability, interest, owner, amount, callers>>
          /\ pc[t] \notin {"own", "signal"} /\ pc'[t] \notin {"own", "signal"}
      BY <1>2, InsideFacts DEF MarkRegistered, history
    <2> QED
      BY <1>k, <2>1
  <1>3. CASE SetAvailability(t) \/ InitInterest(t)
    <2>1. /\ UNCHANGED <<known, owner, amount, callers>> /\ arg[t] \notin known
          /\ pc[t] \notin {"own", "signal"} /\ pc'[t] \notin {"own", "signal"}
          /\ \A r \in known : availability'[r] = availability[r] /\ interest'[r] = interest[r]
      BY <1>3, InsideFacts DEF SetAvailability, InitInterest, AccessOK, history
    <2> QED
      BY <2>1, InsideFree, Unseen
  <1>4. CASE TakeUnit(t)
    <2>1. /\ UNCHANGED <<known, interest, owner, amount, callers>>
          /\ pc[t] = "take" /\ pc'[t] = "own"
          /\ availability' = [availability EXCEPT ![arg[t]] = @ - 1]
      BY <1>4, InsideFacts DEF TakeUnit, AccessOK, history
    <2>2. \A r \in known : Free(r)' = Free(r)
      BY <2>1, InsideFree, InsideFacts, ProxyAssumption
    <2> QED
      BY <2>1, <2>2, Unseen
  <1>5. CASE ReturnUnit(t)
    <2>1. /\ UNCHANGED <<known, interest, owner, amount, callers>>
          /\ pc[t] = "return" /\ pc'[t] = "signal"
          /\ availability' = [availability EXCEPT ![arg[t]] = @ + 1]
      BY <1>5, InsideFacts DEF ReturnUnit, AccessOK, history
    <2>2. \A r \in known : Free(r)' = Free(r)
      BY <2>1, InsideFree, InsideFacts, ProxyAssumption
    <2> QED
      BY <2>1, <2>2, Unseen
  <1> QED
    BY <1>1, <1>2, <1>3, <1>4, <1>5 DEF Inside, RegisterResource

LEMMA ApproachUnseen ==
  ASSUME IInv, NEW t \in Trains, Approach(t)
  PROVE  UNCHANGED <<seen, owner, amount, callers>>
  <1>1. UNCHANGED <<known, amount, availability, interest, owner, callers>>
    BY ApproachFrame DEF tables, history
  <1>2. \A label \in {"own", "signal"} : \A r : At(label, r)' <=> At(label, r)
    BY ApproachFrame, InsideFacts DEF At, Outside, Threads
  <1>3. \A r : Free(r)' = Free(r)
    BY <1>1, <1>2 DEF Free
  <1> QED
    BY <1>1, <1>3, Unseen

LEMMA RegistrarUnseen ==
  ASSUME IInv, RegistrarNext, ~InitInterest(Registrar)
  PROVE  UNCHANGED <<seen, owner, amount, callers>>
  <1> USE DEF Step, history, tables
  <1>1. \A t \in Trains : pc[t] = "idle" /\ pc'[t] = "idle"
    BY ProxyAssumption DEF IInv, TypeOK, Threads, RegistrarOK, RegistrarNext, CallRegister,
      AllRegistered, RegisterResource, MarkRegistered, SetAvailability
  <1>2. \A r : Free(r) = availability[r] /\ Free(r)' = availability'[r]
    BY <1>1 DEF Free, At
  <1>3. UNCHANGED <<known, interest, owner, amount, callers>>
        /\ \A r \in known : availability'[r] = availability[r]
    BY DEF IInv, TypeOK, RegistrarOK, RegistrarNext, CallRegister, AllRegistered,
      RegisterResource, MarkRegistered, SetAvailability
  <1> QED
    BY <1>2, <1>3, Unseen

-----------------------------------------------------------------------------

LEMMA InitInDatabase == Init => Database!Init
  <1> SUFFICES ASSUME Init PROVE Database!Init
    OBVIOUS
  <1>1. seenRegistered = [r \in Resources |-> FALSE]
    <2>1. known = {}
      BY DEF Init
    <2>2. \A r \in Resources : (r \in known) = FALSE
      BY <2>1
    <2> QED
      BY <2>2, Zenon DEF seenRegistered
  <1>2. /\ seenAvailability = [r \in Resources |-> 0]
        /\ seenInterest = [r \in Resources |-> Uninit]
    BY DEF Init, seenAvailability, seenInterest
  <1> QED
    BY <1>1, <1>2 DEF Init, Database!Init, Uninit, Database!Uninit

LEMMA StepInDatabase == IInv /\ [Next]_vars => [Database!Next]_Database!vars
  <1> SUFFICES ASSUME IInv, [Next]_vars
               PROVE  [Database!Next]_Database!vars
    OBVIOUS
  <1>u. ASSUME UNCHANGED <<seen, owner, amount, callers>>
        PROVE  UNCHANGED Database!vars
    BY <1>u DEF seen, callers, Database!vars, Database!database, Database!callers
  <1>1. CASE RegistrarNext
    <2>1. CASE InitInterest(Registrar)
      BY <2>1, RegisterInDatabase DEF Database!Next
    <2>2. CASE ~InitInterest(Registrar)
      BY <1>1, <1>u, <2>2, RegistrarUnseen
    <2> QED
      BY <2>1, <2>2
  <1>2. ASSUME NEW t \in Trains, TrainNext(t)
        PROVE  [Database!Next]_Database!vars
    <2>1. ASSUME NEW r \in Resources, WaitResource(t, r)
          PROVE  Database!Next
      BY <2>1, WaitInDatabase DEF Database!Next
    <2>2. CASE Approach(t)
      BY <1>u, <2>2, ApproachUnseen
    <2>3. CASE Inside(t) /\ (SetOwner(t) \/ LeaveRefused(t))
      <3>1. pc[t] \in Asking
        BY <2>3 DEF SetOwner, LeaveRefused, Step, Asking
      <3>2. Database!AttemptLockResource(t, arg[t])
        BY <2>3, GrantInDatabase, RefuseInDatabase DEF Database!AttemptLockResource
      <3> QED
        BY <3>1, <3>2, AsksInDatabase DEF Database!Next, Database!Retry
    <2>4. CASE Inside(t) /\ SignalInterest(t)
      BY <2>4, ReleaseInDatabase DEF Database!Next, Database!ReleaseResource
    <2>5. CASE Inside(t) /\ ~SetOwner(t) /\ ~LeaveRefused(t) /\ ~SignalInterest(t)
      BY <1>u, <2>5, InsideUnseen
    <2> QED
      BY <1>2, <2>1, <2>2, <2>3, <2>4, <2>5 DEF TrainNext, Approach
  <1>3. CASE UNCHANGED vars
    BY <1>3, <1>u DEF vars, tables, locals, history, callers, seen, seenRegistered,
      seenAvailability, seenInterest, Free, At
  <1> QED
    BY <1>1, <1>2, <1>3 DEF Next

\* Interleaved as they are, the calls of the proxy are the calls of the database,
\* each in one step.
THEOREM RefinesDatabase == Spec => ImplementsDatabase
  <1> QED
    BY InitInDatabase, StepInDatabase, Invariance, PTL
      DEF Spec, ImplementsDatabase, Database!Spec

=============================================================================
