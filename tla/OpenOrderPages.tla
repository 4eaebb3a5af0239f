--------------------------- MODULE OpenOrderPages ---------------------------
(***************************************************************************)
(* open_orders of the REST connectors: the open orders of an account, read  *)
(* a page at a time while orders open and close at the venue in between.    *)
(* OKX pages back from the last id of a full page, Bybit and Coinbase hand   *)
(* the venue's cursor back, Alpaca reads one page and Binance everything.   *)
(* Ids grow with time and a page runs from the newest to the oldest.        *)
(***************************************************************************)
EXTENDS Naturals, FiniteSets

CONSTANTS
  PagedBrokers, \* the connectors to check
  PageLimit,    \* the page size asked for
  MaxOrderId    \* how many orders the account may ever open

ASSUME PagesAssumption ==
  /\ PagedBrokers \subseteq {"ALPACA", "BINANCE", "BYBIT", "COINBASE", "OKX"}
  /\ PageLimit \in Nat \ {0} /\ MaxOrderId \in Nat

VARIABLES
  pager,   \* whose open_orders this is
  book,    \* external: [open, newest], the ids open and the newest id given
  listing  \* open_orders: [pc, after, out], and for the property what was open
           \* all along and whether one page could hold it

pagesVars == <<pager, book, listing>>

PagesInit ==
  /\ pager \in PagedBrokers
  /\ \E n \in 0..MaxOrderId : book = [open |-> 1..n, newest |-> n]
  /\ listing = [pc |-> "idle", after |-> 0, out |-> {}, throughout |-> {}, small |-> TRUE]

\* external: the newest `size` ids of a set.
PageOf(below, size) == {i \in below : Cardinality({j \in below : j > i}) < size}

\* external: what comes after a position; nothing is before the first page.
Below(after) == {i \in book.open : after = 0 \/ i < after}

Oldest(ids) == CHOOSE i \in ids : \A j \in ids : i <= j

\* external: the cursor a venue gives with a page, none (0) with the last one.
NextCursor(below, page) == IF page = below THEN 0 ELSE Oldest(page)

\* OKX goes on from the last id whenever the page came back full.
OkxAfter(page) == IF Cardinality(page) = PageLimit THEN Oldest(page) ELSE 0

\* One page of the venue's, except that Binance answers everything at once.
PageAsked ==
  CASE pager = "BINANCE" -> Below(0)
    [] OTHER             -> PageOf(Below(listing.after), PageLimit)

\* Where the next page starts, 0 when the list is complete.
Onward(page) ==
  CASE pager \in {"BYBIT", "COINBASE"} -> NextCursor(Below(listing.after), page)
    [] pager = "OKX"                   -> OkxAfter(page)
    [] OTHER                           -> 0

ListOpenOrders ==
  /\ listing.pc = "idle"
  /\ listing' = [pc |-> "paging", after |-> 0, out |-> {}, throughout |-> book.open,
                 small |-> Cardinality(book.open) <= PageLimit]
  /\ UNCHANGED <<pager, book>>

ReadPage ==
  /\ listing.pc = "paging"
  /\ LET page == PageAsked
         next == Onward(page)
     IN  listing' = [listing EXCEPT !.out = @ \cup page, !.after = next,
                                    !.pc = IF next = 0 THEN "done" ELSE @]
  /\ UNCHANGED <<pager, book>>

OrderOpens ==
  /\ book.newest < MaxOrderId
  /\ book' = [open |-> book.open \cup {book.newest + 1}, newest |-> book.newest + 1]
  /\ listing' = IF listing.pc = "paging"
                  THEN [listing EXCEPT !.small = @ /\ Cardinality(book'.open) <= PageLimit]
                  ELSE listing
  /\ UNCHANGED pager

OrderCloses ==
  /\ \E i \in book.open : /\ book' = [book EXCEPT !.open = @ \ {i}]
                          /\ listing' = IF listing.pc = "paging"
                                          THEN [listing EXCEPT !.throughout = @ \ {i}] ELSE listing
  /\ UNCHANGED pager

ListingUsed ==
  /\ listing.pc = "done"
  /\ listing' = [pc |-> "idle", after |-> 0, out |-> {}, throughout |-> {}, small |-> TRUE]
  /\ UNCHANGED <<pager, book>>

PagesNext == ListOpenOrders \/ ReadPage \/ OrderOpens \/ OrderCloses \/ ListingUsed

-----------------------------------------------------------------------------
\* Every order that was open from the call to its answer is in the answer,
\* whatever opened or closed between two pages; Alpaca's one page holds the
\* newest PageLimit orders only.
PagesComplete ==
  listing.pc = "done" /\ (pager = "ALPACA" => listing.small) => listing.throughout \subseteq listing.out
=============================================================================
