-------------------------------- MODULE MCDesk --------------------------------
(***************************************************************************)
(* The order's own state machine, a strategy's FIX requests, the routing   *)
(* of an order and the operator's commands in one run: each behaviour runs *)
(* one of the four, while the others stay as they started.                 *)
(***************************************************************************)
EXTENDS OrderAggregate, FixRequests, Routing, Setup, TLC

VARIABLE part

deskVars == <<part, vars, fixVars, routingVars, setupVars>>

DeskInit ==
  /\ part \in {"order", "requests", "routing", "setup"}
  /\ Init /\ FixRequestsInit /\ RoutingInit /\ SetupInit
  /\ part # "setup" => server = "local"
  /\ part # "routing" =>
       /\ connection = CHOOSE c \in [Connections -> {x \in CreatableConnections : x.active}] : TRUE
       /\ account = CHOOSE a \in [Accounts -> CreatableAccounts] : TRUE
       /\ default = CHOOSE d \in CreatablePortfolios : TRUE

OrderPart    == part = "order"    /\ Next            /\ UNCHANGED <<part, fixVars, routingVars, setupVars>>
RequestsPart == part = "requests" /\ FixRequestsNext /\ UNCHANGED <<part, vars, routingVars, setupVars>>
RoutingPart  == part = "routing"  /\ RoutingNext     /\ UNCHANGED <<part, vars, fixVars, setupVars>>
SetupPart    == part = "setup"    /\ SetupNext       /\ UNCHANGED <<part, vars, fixVars, routingVars>>

DeskNext == OrderPart \/ RequestsPart \/ RoutingPart \/ SetupPart

DeskSpec == DeskInit /\ [][DeskNext]_deskVars

\* Two terminals are alike.
AnyTerminal == Permutations(Terminals)
=============================================================================
