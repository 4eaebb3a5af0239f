---------------------------- MODULE MCEventFeeds ----------------------------
EXTENDS EventFeeds

CONSTANTS a, b

\* An order that is routed and filled: two reports, two Kafka records and a
\* position write for the fill.  For the strategy it is submitted first, which
\* is not reported; elsewhere a second order takes positions between its own.
Stories == [r \in {"kafka", "fix", "ui"} |-> [o \in {a, b} |->
  CASE o = a /\ r # "fix" -> <<"order_routed", "order_filled">>
    [] o = a /\ r = "fix" -> <<"order_submitted", "order_routed", "order_filled">>
    [] o = b /\ r = "kafka" -> <<"order_submitted", "order_filled">>
    [] o = b /\ r = "fix" -> <<>>
    [] o = b /\ r = "ui" -> <<"order_submitted">>]]
=============================================================================
