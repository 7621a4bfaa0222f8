-------------------------- MODULE ListingHistory --------------------------
(***************************************************************************)
(* Listing with history variables: which rows were there for the whole of  *)
(* a listing, which at some time of it, and how many Query calls it made.  *)
(* They change nothing that the listers or the table do.  A caller that    *)
(* pages with limit and startAfter runs one listing per page; asked and    *)
(* steady span all its pages.                                              *)
(***************************************************************************)
EXTENDS Listing

VARIABLES
  asked,  \* the query the caller of each listing started with
  steady, \* rows that stayed: no replica was without them, and none lapsed
  shown,  \* rows that some replica held and the filter passed
  pages   \* Query calls of the listing that were answered, up to PagesCap

hvars == <<vars, asked, steady, shown, pages>>

\* Bound: pages counts no further than this, which is more than it may reach.
PagesCap == LastKey + 3

\* No replica is without row k, and l is to see it now.
Stays(l, k) ==
  \A s \in Versions(k) : s # Absent /\ (l \in TtlListers => s = Forever \/ s > now)

Shows(l, k) == \E s \in Versions(k) : s # Absent /\ PassesFilter(l, s)

\* A caller asks for something, rather than for the next page of it.
Asks(l) == calls'[l] # calls[l] /\ book'[l] = {}

Track ==
  /\ asked' = [l \in Listers |-> IF Asks(l) THEN query'[l] ELSE asked[l]]
  /\ steady' = [l \in Listers |->
                  {k \in IF Asks(l) THEN Keys ELSE steady[l] : Stays(l, k)'}]
  /\ shown' = [l \in Listers |->
                 (IF calls'[l] # calls[l] THEN {} ELSE shown[l])
                   \cup {k \in Keys : Shows(l, k)'}]
  /\ pages' = [l \in Listers |->
                 IF calls'[l] # calls[l] THEN 0
                 ELSE IF pages[l] < PagesCap /\ QueryPage(l) THEN pages[l] + 1
                 ELSE pages[l]]

HInit ==
  /\ Init
  /\ asked = query
  /\ steady = [l \in Listers |-> {}]
  /\ shown = [l \in Listers |-> {}]
  /\ pages = [l \in Listers |-> 0]

HNext == Next /\ Track
HSpec == HInit /\ [][HNext]_hvars
HFairSpec == HSpec /\ Fairness

InRange(q, k) == k \in q.low..q.high

-----------------------------------------------------------------------------
\* A listing makes at most one Query call per row of its range and one more,
\* although pages may bring nothing to keep and other clients go on changing
\* the partition.
PagesBounded ==
  \A l \in Listers :
    phase[l] # "idle" => pages[l] <= Cardinality(query[l].low..query[l].high) + 1

\* A listing that returned holds every row that stayed and fits its query, or
\* as many rows as its limit allows, none of which the table orders after one
\* it left out: pages of any size, some of them empty after the filter, with
\* rows coming and going around them.
NothingSkipped ==
  \A l \in Listers : phase[l] = "done" =>
    \A k \in steady[l] :
      InRange(query[l], k) /\ Fits(query[l], k) =>
        \/ k \in keys[l]
        \/ FullPage(l) /\ \A j \in keys[l] : j < k

\* Whatever a listing holds was in the table, not lapsed as of its start, at
\* some time while it ran, and lies in the namespace of its caller.
ListedWasThere ==
  \A l \in Listers, k \in Keys : k \in keys[l] => k \in shown[l] /\ k \notin Foreign

\* The pages of a caller that pages with limit and startAfter, from the first
\* to one that is not full, hold every row that stayed, and no row twice.
BookComplete ==
  \A l \in Listers :
    /\ keys[l] \cap book[l] = {}
    /\ (phase[l] = "done" /\ ~FullPage(l))
         => \A k \in steady[l] :
              InRange(asked[l], k) /\ Fits(asked[l], k) => k \in keys[l] \cup book[l]
=============================================================================
