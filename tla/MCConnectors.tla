----------------------------- MODULE MCConnectors -----------------------------
(***************************************************************************)
(* The two kinds of connector and the listing of open orders: each          *)
(* behaviour runs one of them, the others stay as they started.             *)
(***************************************************************************)
EXTENDS RestConnectors, OpenOrderPages, FixSession

VARIABLE part

vars == <<part, restVars, pagesVars, fixVars>>

Init == /\ part \in {"rest", "pages", "fix"}
        /\ RestInit /\ PagesInit /\ FixInit
        \* a part that is not run starts in one state only
        /\ part # "rest" => broker = "OKX"
        /\ part # "pages" => pager = "OKX" /\ book.newest = 0

Rest(A) == part = "rest" /\ A /\ UNCHANGED <<part, pagesVars, fixVars>>
Pages(A) == part = "pages" /\ A /\ UNCHANGED <<part, restVars, fixVars>>
Fix(A) == part = "fix" /\ A /\ UNCHANGED <<part, restVars, pagesVars>>

Next == Rest(RestNext) \/ Pages(PagesNext) \/ Fix(FixNext)

\* The supervisor dials, the heartbeat beats, the engine sweeps and QuickFIX
\* logs on again; the peer answers what reaches it.
Fairness ==
  /\ WF_vars(Rest(StreamStep)) /\ WF_vars(Rest(Beat)) /\ WF_vars(Rest(ReadPush)) /\ WF_vars(Rest(SweepStep))
  /\ WF_vars(Fix(Logon)) /\ WF_vars(Fix(VenueAnswers)) /\ WF_vars(Fix(FixReceive)) /\ WF_vars(Fix(DriverStep))

Spec == Init /\ [][Next]_vars /\ Fairness

-----------------------------------------------------------------------------
\* What any connector says of an order is so at the venue: rejected only if it
\* was not taken (but for the REST answers three of them misread), closed only
\* with what it executed.
VerdictsTrue == RestVerdictsTrue /\ FixVerdictsTrue

\* A list of open orders has every order that was open throughout the call.
OpenListsComplete == PagesComplete /\ FixListComplete

\* The close of an order the venue gave an id for is told in the end.
CloseIsTold == RestCloseIsTold /\ FixCloseIsTold
=============================================================================
