------------------------------- MODULE MCAccess -------------------------------
(***************************************************************************)
(* Signing in, what a session or a key is worth afterwards, and the        *)
(* control link a strategy opens with its trading token: each behaviour    *)
(* runs one of the three, the others stay as they started.                 *)
(***************************************************************************)
EXTENDS Access, SignIn, ColoLink

CONSTANTS s1, k1, ann, bob, tab, laptop

VARIABLE part

MCOwner == [c \in {s1, k1} |-> ann]

\* both have the name their code is made from
MCSeed == [s \in Subjects |-> ann]

vars == <<part, accessVars, signInVars, linkVars>>

Init == /\ part \in {"sign-in", "access", "link"}
        /\ AccessInit /\ SignInInit
        /\ LinkInit /\ (part # "link" => ~ registry.strict)

\* The clock starts with the login: a later one only shifts what follows.
LoggedInAtStart == now' = 0 \/ session[s1].status # "none"

Next == \/ part = "access" /\ AccessNext /\ LoggedInAtStart /\ UNCHANGED <<part, signInVars, linkVars>>
        \/ part = "sign-in" /\ SignInNext /\ UNCHANGED <<part, accessVars, linkVars>>
        \/ part = "link" /\ LinkNext /\ UNCHANGED <<part, accessVars, signInVars>>

Spec == Init /\ [][Next]_vars
=============================================================================
