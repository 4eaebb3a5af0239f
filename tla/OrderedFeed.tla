----------------------------- MODULE OrderedFeed -----------------------------
(***************************************************************************)
(* What a subscriber of the order events is promised: nothing it is given  *)
(* was not stored, the events of one order are first given in the order in *)
(* which they were stored, and one is given again only after a failure.    *)
(* An event is known by its place in the store.                            *)
(***************************************************************************)
EXTENDS Naturals, Sequences

CONSTANTS Orders, Events

VARIABLES
  stored,  \* per order, the events the subscriber is owed
  given,   \* what it was given, in the order it came
  failed   \* whether a failure may have left it unknown what was given

feedVars == <<stored, given>>

Init ==
  /\ stored = [o \in Orders |-> {}]
  /\ given = <<>>

Given(e) == \E i \in DOMAIN given : given[i] = e

Store(o, e) ==
  /\ \A d \in stored[o] : d < e
  /\ stored' = [stored EXCEPT ![o] = @ \cup {e}]
  /\ UNCHANGED given

Give(o, e) ==
  /\ \A d \in stored[o] : d < e => Given(d)
  /\ Given(e) => failed
  /\ given' = Append(given, e)
  /\ UNCHANGED stored

Next ==
  \E o \in Orders :
    \/ \E e \in Events : Store(o, e)
    \/ \E e \in stored[o] : Give(o, e)

Spec == Init /\ [][Next]_feedVars

AllGiven == \A o \in Orders : \A e \in stored[o] : Given(e)
=============================================================================
