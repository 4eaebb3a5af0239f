-------------------------------- MODULE MCColo --------------------------------
(***************************************************************************)
(* Following a co-located strategy and killing it, in one run: each        *)
(* behaviour runs one of the two, while the other stays as it started.     *)
(* They share no state but the strategy's row, and what one needs of the   *)
(* other (which orders and trades happen, when Kill comes) it takes as it  *)
(* likes.                                                                  *)
(***************************************************************************)
EXTENDS ColoFollow, ColoKill

VARIABLE part

Pair == [t \in Trades |-> t]

vars == <<part, followVars, killVars>>

Init == /\ part \in {"follow", "kill"}
        /\ FollowInit /\ (part # "follow" => key = 0)
        /\ KillInit

Follow(A) == part = "follow" /\ A /\ UNCHANGED <<part, killVars>>
Kill(A) == part = "kill" /\ A /\ UNCHANGED <<part, followVars>>

Next == \/ part = "follow" /\ FollowNext /\ UNCHANGED <<part, killVars>>
        \/ part = "kill" /\ KillNext /\ UNCHANGED <<part, followVars>>

\* FollowFairness and KillFairness, each in its part
Spec == /\ Init /\ [][Next]_vars
        /\ WF_vars(Follow(Worker)) /\ WF_vars(Follow(EngineBooks)) /\ WF_vars(Follow(Connect))
        /\ WF_vars(Kill(RequestStep)) /\ WF_vars(Kill(SweepStep)) /\ WF_vars(Kill(SecondPasses))
=============================================================================
