------------------------------ MODULE Listing ------------------------------
(***************************************************************************)
(* list(DynamoDBListQuery): the keys of one partition, read page by page   *)
(* with Query while other clients put, delete and let lapse its rows.      *)
(*                                                                         *)
(* A listing is not a snapshot.  Each page is a call of its own, served by *)
(* whichever replica answers (Query is sent without ConsistentRead), and   *)
(* it goes on from the last row the previous page evaluated.  A filter on  *)
(* expiry, rows of other namespaces, the caller's cursor and the limit are *)
(* applied on top of that.                                                 *)
(*                                                                         *)
(* Rows are named by their rank 0, 1, ... in the sort-key order of the     *)
(* table, which compares bytes.  Collation ranks the same keys as the      *)
(* language compares strings: the same order in Python, another one in     *)
(* JavaScript when keys hold characters beyond U+FFFF.                     *)
(***************************************************************************)
EXTENDS Naturals, FiniteSets

CONSTANTS
  Listers,    \* callers of list
  LastKey,    \* rows are 0..LastKey
  Foreign,    \* rows of the partition outside the listers' namespace
  Collation,  \* rank of each key as the language compares strings
  TtlListers, \* listers whose instance opted in to TTL
  Limits,     \* the limits callers ask for; 0 stands for none
  Cursors,    \* the startAfter cursors callers ask for, None included
  None,       \* no cursor
  Absent,     \* no row
  Forever,    \* a row without an expiry stamp
  Stamps,     \* the expiry stamps of the rows other clients put
  Lagging,    \* whether replicas may lag behind the leader
  MaxChanges, \* bound: rows put or deleted in a behaviour
  MaxCalls,   \* bound: calls of list of each caller
  MaxNow      \* bound: seconds the clock advances

Keys == 0..LastKey
Stamp == Nat \cup {Forever}

ASSUME KeyAssumption ==
  /\ LastKey \in Nat
  /\ Foreign \subseteq Keys
  /\ Collation \in [Keys -> Nat]
  /\ \A j, k \in Keys : Collation[j] = Collation[k] => j = k
ASSUME SentinelAssumption ==
  /\ None \notin Nat /\ Absent \notin Nat /\ Forever \notin Nat
  /\ Absent # Forever
ASSUME CallerAssumption ==
  /\ TtlListers \subseteq Listers
  /\ Limits \subseteq Nat
  /\ Cursors \subseteq Keys \cup {None}
  /\ Stamps \subseteq Stamp
  /\ Lagging \in BOOLEAN
  /\ MaxChanges \in Nat /\ MaxCalls \in Nat /\ MaxNow \in Nat

VARIABLES
  row,     \* the partition: row[k] is Absent or the expiry stamp of its item
  past,    \* older versions of row[k] that a lagging replica still serves
  now,     \* epoch seconds
  changes, \* rows put or deleted so far
  phase,   \* the listing of each caller: idle, paging, done or failed
  query,   \* its query
  asOf,    \* the :now of its filter expression
  from,    \* its ExclusiveStartKey: the rows below have been evaluated
  keys,    \* the keys it has collected
  count,   \* the length of the list that holds them
  book,    \* the keys of the caller's earlier pages, when it pages with limit
  calls    \* calls of list of each caller so far

partition == <<row, past>>
listing == <<phase, query, asOf, from, keys, count, book, calls>>
vars == <<partition, now, changes, listing>>

-----------------------------------------------------------------------------
(* Queries.                                                                *)

\* begins_with and BETWEEN both select a range of sort keys.
Query ==
  {q \in [low : Keys, high : Keys, limit : Nat, startAfter : Keys \cup {None}] :
     q.low <= q.high}

Versions(k) == {row[k]} \cup past[k]

\* The filter expression: #ttl > :now, or no expiry attribute at all.
PassesFilter(l, stamp) ==
  l \in TtlListers => stamp = Forever \/ stamp > asOf[l]

\* DynamoDB's Limit counts rows before the filter and before the caller's
\* cursor, so it is sent only when neither is in play.
PushedLimit(l) ==
  IF l \notin TtlListers /\ query[l].startAfter = None THEN query[l].limit ELSE 0

\* MUTANT: the cursor itself is listed again.
AfterCursorInclusive(q, k) ==
  q.startAfter # None => Collation[k] >= Collation[q.startAfter]

AfterCursor(q, k) ==
  q.startAfter # None => Collation[k] > Collation[q.startAfter]

\* MUTANT: rows of other namespaces are not dropped.
FitsAnyNamespace(q, k) == AfterCursor(q, k)

\* The client drops rows of other namespaces and rows up to its cursor.
Fits(q, k) == k \notin Foreign /\ AfterCursor(q, k)

\* The rows of a page that the client keeps, the limit being reached in the
\* order the rows come.
Kept(l, items) ==
  LET fit == {k \in items : Fits(query[l], k)}
      room(k) == count[l] + Cardinality({j \in fit : j < k}) < query[l].limit
  IN  {k \in fit : query[l].limit # 0 => room(k)}

\* MUTANT: a page without anything to keep is taken for the last one.
EndsOnEmptyPage(l, kept, more) ==
  \/ query[l].limit # 0 /\ count[l] + Cardinality(kept) >= query[l].limit
  \/ ~more \/ kept = {}

\* MUTANT: a missing LastEvaluatedKey is taken for a call to make again.
EndsWhenFull(l, kept, more) ==
  query[l].limit # 0 /\ count[l] + Cardinality(kept) >= query[l].limit

\* The listing returns once it is full or no LastEvaluatedKey comes back.
Ends(l, kept, more) ==
  \/ query[l].limit # 0 /\ count[l] + Cardinality(kept) >= query[l].limit
  \/ ~more

\* MUTANT: the next page starts after the last row that was kept.
NextStartAfterKept(l, kept, last) ==
  IF kept = {} THEN from[l] ELSE 1 + (CHOOSE k \in kept : \A j \in kept : j <= k)

\* MUTANT: the next page starts with the last row of this one.
NextStartInclusive(l, kept, last) == last

\* The next page starts after the last row the service evaluated.
NextStart(l, kept, last) == last + 1

-----------------------------------------------------------------------------
(* The callers of list.                                                    *)

Call(l, q) ==
  /\ calls[l] < MaxCalls
  /\ calls' = [calls EXCEPT ![l] = @ + 1]
  /\ phase' = [phase EXCEPT ![l] = "paging"]
  /\ query' = [query EXCEPT ![l] = q]
  /\ asOf' = [asOf EXCEPT ![l] = now]
  /\ from' = [from EXCEPT ![l] = 0]
  /\ keys' = [keys EXCEPT ![l] = {}]
  /\ count' = [count EXCEPT ![l] = 0]
  /\ UNCHANGED <<partition, now, changes>>

List(l, q) ==
  /\ phase[l] # "paging"
  /\ Call(l, q)
  /\ book' = [book EXCEPT ![l] = {}]

\* The keys come sorted as the language compares strings.
LastListed(l) == CHOOSE k \in keys[l] : \A j \in keys[l] : Collation[j] <= Collation[k]

FullPage(l) == query[l].limit # 0 /\ count[l] = query[l].limit

\* A caller that pages with limit asks for the keys after the last one it got.
NextPage(l) ==
  /\ phase[l] = "done" /\ FullPage(l)
  /\ Call(l, [query[l] EXCEPT !.startAfter = LastListed(l)])
  /\ book' = [book EXCEPT ![l] = @ \cup keys[l]]

-----------------------------------------------------------------------------
(* One Query call and what the client does with its reply.                 *)

Ahead(l) == {k \in query[l].low..query[l].high : k >= from[l]}

\* The stamps (or absences) a replica may serve for the rows ahead.
Replies(l) ==
  {f \in [Ahead(l) -> UNION {Versions(k) : k \in Ahead(l)}] :
     \A k \in Ahead(l) : f[k] \in Versions(k)}

\* The client's part: keep what fits, then go on or return.
Collect(l, items, last, more) ==
  LET kept == Kept(l, items)
  IN  /\ keys' = [keys EXCEPT ![l] = @ \cup kept]
      /\ count' = [count EXCEPT ![l] = @ + Cardinality(kept)]
      /\ from' = [from EXCEPT ![l] = NextStart(l, kept, last)]
      /\ phase' = [phase EXCEPT ![l] = IF Ends(l, kept, more) THEN "done" ELSE @]

\* A page ends where the service chooses: at the limit, at its size cap, or
\* with the range; LastEvaluatedKey may come back even with the last row.
QueryPage(l) ==
  /\ phase[l] = "paging"
  /\ \E reply \in Replies(l) :
       LET found == {k \in Ahead(l) : reply[k] # Absent}
           limit == PushedLimit(l)
       IN  \/ /\ found = {}
              /\ Collect(l, {}, query[l].high, FALSE)
           \/ \E last \in found, more \in BOOLEAN :
                LET evaluated == {k \in found : k <= last}
                IN  /\ limit # 0 => Cardinality(evaluated) <= limit
                    /\ evaluated # found => more
                    /\ Collect(l, {k \in evaluated : PassesFilter(l, reply[k])}, last, more)
  /\ UNCHANGED <<partition, now, changes, query, asOf, book, calls>>

\* The Query call throws, and with it the listing.
QueryFails(l) ==
  /\ phase[l] = "paging"
  /\ phase' = [phase EXCEPT ![l] = "failed"]
  /\ UNCHANGED <<partition, now, changes, query, asOf, from, keys, count, book, calls>>

-----------------------------------------------------------------------------
(* Other clients, the clock and the TTL process.                           *)

Replace(k, new) ==
  /\ row' = [row EXCEPT ![k] = new]
  /\ past' = IF Lagging THEN [past EXCEPT ![k] = @ \cup {row[k]}] ELSE past

\* Another client writes or deletes a key; either reaches the table as one
\* call.
ChangeRow(k, new) ==
  /\ changes < MaxChanges /\ new # row[k]
  /\ Replace(k, new)
  /\ changes' = changes + 1
  /\ UNCHANGED <<now, listing>>

Reap(k) ==
  /\ row[k] \notin {Absent, Forever} /\ row[k] <= now
  /\ Replace(k, Absent)
  /\ UNCHANGED <<now, changes, listing>>

CatchUp(k) ==
  /\ past[k] # {}
  /\ past' = [past EXCEPT ![k] = {}]
  /\ UNCHANGED <<row, now, changes, listing>>

Tick ==
  /\ now < MaxNow
  /\ now' = now + 1
  /\ UNCHANGED <<partition, changes, listing>>

-----------------------------------------------------------------------------
Init ==
  /\ row \in [Keys -> Stamps \cup {Absent}]
  /\ past = [k \in Keys |-> {}]
  /\ now = 0
  /\ changes = 0
  /\ phase = [l \in Listers |-> "idle"]
  /\ query = [l \in Listers |-> [low |-> 0, high |-> 0, limit |-> 0, startAfter |-> None]]
  /\ asOf = [l \in Listers |-> 0]
  /\ from = [l \in Listers |-> 0]
  /\ keys = [l \in Listers |-> {}]
  /\ count = [l \in Listers |-> 0]
  /\ book = [l \in Listers |-> {}]
  /\ calls = [l \in Listers |-> 0]

Asked ==
  {q \in [low : Keys, high : Keys, limit : Limits, startAfter : Cursors] : q.low <= q.high}

Next ==
  \/ \E l \in Listers :
       \/ \E q \in Asked : List(l, q)
       \/ NextPage(l) \/ QueryPage(l) \/ QueryFails(l)
  \/ \E k \in Keys :
       \/ \E new \in Stamps \cup {Absent} : ChangeRow(k, new)
       \/ Reap(k) \/ CatchUp(k)
  \/ Tick

\* The SDK answers every call in the end or gives it up, and the event loop
\* resumes whoever awaits it; nothing makes anyone start a call, change a row
\* or let time pass.
Fairness == \A l \in Listers : WF_vars(QueryPage(l))

Spec == Init /\ [][Next]_vars
FairSpec == Spec /\ Fairness

-----------------------------------------------------------------------------
(* Properties.                                                             *)

\* The values every variable ranges over.
TypeOK ==
  /\ row \in [Keys -> Stamp \cup {Absent}]
  /\ past \in [Keys -> SUBSET (Stamp \cup {Absent})]
  /\ now \in Nat /\ changes \in Nat
  /\ phase \in [Listers -> {"idle", "paging", "done", "failed"}]
  /\ query \in [Listers -> Query]
  /\ asOf \in [Listers -> Nat]
  /\ from \in [Listers -> Nat]
  /\ keys \in [Listers -> SUBSET Keys]
  /\ count \in [Listers -> Nat]
  /\ book \in [Listers -> SUBSET Keys]
  /\ calls \in [Listers -> Nat]

\* A listing collects no key twice, however rows come and go between its
\* pages, and never more keys than its limit.
NoKeyTwice ==
  \A l \in Listers :
    /\ count[l] = Cardinality(keys[l])
    /\ query[l].limit # 0 => count[l] <= query[l].limit

\* A listing that is under way returns or throws, although a page may bring
\* nothing to keep and the row it stopped at may be gone by the next.
ListingEnds == \A l \in Listers : phase[l] = "paging" ~> phase[l] # "paging"
=============================================================================
