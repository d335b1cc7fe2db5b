---------------------------- MODULE ExclusiveUse ----------------------------
(***************************************************************************)
(* What the resource manager promises to the train managers, with nothing  *)
(* of how it keeps the promise: a resource of the track is used by at most *)
(* one train at a time, a train that finds it taken may ask to be told     *)
(* when it is free again, and a free resource that somebody asked for does *)
(* not stay unused.                                                        *)
(*                                                                         *)
(* ResourceDatabase implements this module when every resource is          *)
(* registered with one unit.                                               *)
(***************************************************************************)

CONSTANTS Trains,     \* the trains that use the track
          Resources,  \* the sections and switches they share
          Nothing     \* "asks for no resource", not a resource

VARIABLES holds,  \* holds[r]: the trains that use resource r
          want    \* want[t]: the resource train t asked to be told about

vars == <<holds, want>>

Init ==
  /\ holds = [r \in Resources |-> {}]
  /\ want = [t \in Trains |-> Nothing]

\* A train takes a free resource, whether or not it asked for it before.
Take(t, r) ==
  /\ holds[r] = {}
  /\ want[t] \in {r, Nothing}
  /\ holds' = [holds EXCEPT ![r] = {t}]
  /\ want' = [want EXCEPT ![t] = Nothing]

\* A train asks for a resource that some other train uses.
Ask(t, r) ==
  /\ want[t] = Nothing
  /\ holds[r] \notin {{}, {t}}
  /\ want' = [want EXCEPT ![t] = r]
  /\ UNCHANGED holds

\* It may give up while the resource is still in use.
Withdraw(t, r) ==
  /\ want[t] = r
  /\ holds[r] # {}
  /\ want' = [want EXCEPT ![t] = Nothing]
  /\ UNCHANGED holds

GiveBack(t, r) ==
  /\ t \in holds[r]
  /\ holds' = [holds EXCEPT ![r] = @ \ {t}]
  /\ UNCHANGED want

Next ==
  \E t \in Trains, r \in Resources :
    Take(t, r) \/ Ask(t, r) \/ Withdraw(t, r) \/ GiveBack(t, r)

\* A free resource that somebody asked for is taken by one of those who asked,
\* unless another train takes it first.
AskedForIsTaken(r) == \E t \in Trains : want[t] = r /\ Take(t, r)

Spec == Init /\ [][Next]_vars

FairSpec == Spec /\ \A r \in Resources : WF_vars(AskedForIsTaken(r))

=============================================================================
