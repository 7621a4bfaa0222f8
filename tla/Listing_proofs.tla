--------------------------- MODULE Listing_proofs ---------------------------
(***************************************************************************)
(* What list returns, for partitions of any size, any pages, limits and    *)
(* cursors, replicas that lag, and other clients that change the rows      *)
(* while they are listed.                                                  *)
(***************************************************************************)
EXTENDS ListingHistory, FiniteSetTheorems, WellFoundedInduction, TLAPS

-----------------------------------------------------------------------------
(* Sets of keys.                                                           *)

\* Keys are numbers.
LEMMA KeysAreNat == Keys \in SUBSET Nat
  BY KeyAssumption DEF Keys

\* A partition is finite, and so is every set of its keys.
LEMMA KeySets ==
  ASSUME NEW S \in SUBSET Keys
  PROVE  IsFiniteSet(S) /\ Cardinality(S) \in Nat
<1>1. IsFiniteSet(Keys)
  BY KeyAssumption, FS_Interval DEF Keys
<1> QED
  BY <1>1, FS_Subset, FS_CardinalityType

\* Fewer keys, a smaller count.
LEMMA FewerKeys ==
  ASSUME NEW S \in SUBSET Keys, NEW T \in SUBSET S
  PROVE  /\ Cardinality(T) <= Cardinality(S)
         /\ T # S => Cardinality(T) < Cardinality(S)
<1>1. IsFiniteSet(S) /\ Cardinality(S) \in Nat /\ Cardinality(T) \in Nat
  BY KeySets
<1> QED
  BY <1>1, FS_Subset

\* The natural numbers are well-founded: a set of them has a least one.
LEMMA LeastNumber ==
  ASSUME NEW S \in SUBSET Nat, S # {}
  PROVE  \E n \in S : \A m \in S : n <= m
<1> DEFINE R == OpToRel(<, Nat)
<1>1. IsWellFoundedOn(R, Nat)
  BY NatLessThanWellFounded
<1>2. \A m, n \in Nat : <<m, n>> \in R <=> m < n
  BY DEF OpToRel
<1> HIDE DEF R
<1>3. PICK n \in S : \A m \in S : ~ (<<m, n>> \in R)
  BY <1>1, WFMin
<1>4. \A m \in S : ~ (m < n)
  BY <1>2, <1>3
<1> QED
  BY <1>4

\* A set of keys has a first one,
LEMMA FirstKey ==
  ASSUME NEW S \in SUBSET Keys, S # {}
  PROVE  \E k \in S : \A j \in S : k <= j
<1>1. S \in SUBSET Nat
  BY KeyAssumption DEF Keys
<1> QED
  BY <1>1, LeastNumber

\* and one that a ranking puts last: the one with fewest keys ranked above it.
LEMMA LastKeyOf ==
  ASSUME NEW S \in SUBSET Keys, S # {}, NEW rank \in [Keys -> Nat]
  PROVE  \E k \in S : \A j \in S : rank[j] <= rank[k]
<1> DEFINE Above(k) == {j \in S : rank[j] > rank[k]}
           counts == {Cardinality(Above(k)) : k \in S}
<1>1. \A k \in S : Above(k) \in SUBSET S
  OBVIOUS
<1>2. \A k \in S : Cardinality(Above(k)) \in Nat
  BY KeySets
<1>3. counts \in SUBSET Nat /\ counts # {}
  BY <1>2
<1>4. PICK n \in counts : \A m \in counts : n <= m
  <2> HIDE DEF counts
  <2> QED
    BY <1>3, LeastNumber
<1>5. PICK k \in S : n = Cardinality(Above(k))
  OBVIOUS
<1>6. ASSUME NEW j \in S, rank[j] > rank[k]
      PROVE  FALSE
  <2>1. Above(j) \in SUBSET Above(k) /\ j \in Above(k) /\ j \notin Above(j)
    BY <1>6
  <2>2. Cardinality(Above(j)) < Cardinality(Above(k))
    BY <2>1, FewerKeys
  <2>3. Cardinality(Above(j)) \in counts
    OBVIOUS
  <2>4. Cardinality(Above(k)) <= Cardinality(Above(j))
    BY <1>4, <1>5, <2>3
  <2> HIDE DEF Above
  <2> QED
    BY <1>2, <2>2, <2>4
<1> QED
  BY <1>6

-----------------------------------------------------------------------------
(* Invariants.                                                             *)

\* What a listing has collected lies behind it and fits its query; it goes on
\* while there is room, and no further than its range.
Collected(l) ==
  /\ \A k \in keys[l] : k < from[l] /\ Fits(query[l], k)
  /\ from[l] <= query[l].high + 1
  /\ count[l] = Cardinality(keys[l])
  /\ query[l].limit # 0 => count[l] <= query[l].limit
  /\ query[l].limit # 0 /\ phase[l] = "paging" => count[l] < query[l].limit

ListInv == TypeOK /\ \A l \in Listers : Collected(l)

HTypeOK ==
  /\ asked \in [Listers -> Query]
  /\ steady \in [Listers -> SUBSET Keys]
  /\ shown \in [Listers -> SUBSET Keys]
  /\ pages \in [Listers -> Nat]

\* A row that stayed is still there for every replica to serve.
StillThere(l) == asOf[l] <= now /\ \A k \in steady[l] : Stays(l, k)

\* Under way, a listing has all that stayed and lies behind it.
NoneBehind(l) ==
  phase[l] = "paging" => \A k \in steady[l] :
    k < from[l] /\ InRange(query[l], k) /\ Fits(query[l], k) => k \in keys[l]

\* Done, it has all that stayed up to the last key its limit let it take.
NoneMissing(l) ==
  phase[l] = "done" => \A k \in steady[l] :
    InRange(query[l], k) /\ Fits(query[l], k) =>
      \/ k \in keys[l]
      \/ FullPage(l) /\ \A j \in keys[l] : j < k

SkipInv ==
  /\ ListInv /\ HTypeOK
  /\ \A l \in Listers : StillThere(l) /\ NoneBehind(l) /\ NoneMissing(l)

\* Every answer but the last takes the listing past a row of its range.
PagesMoveOn(l) ==
  /\ phase[l] = "paging" => pages[l] = 0 \/ pages[l] + query[l].low <= from[l]
  /\ phase[l] # "idle" => pages[l] + query[l].low <= query[l].high + 2

\* The pages so far hold no key after the cursor of this one, and what they
\* lack comes after it.
BookKept(l) ==
  /\ query[l] = [asked[l] EXCEPT !.startAfter = query[l].startAfter]
  /\ \A j \in book[l] : /\ query[l].startAfter # None
                        /\ Collation[j] <= Collation[query[l].startAfter]
  /\ \A k \in steady[l] :
       InRange(asked[l], k) /\ Fits(asked[l], k) => k \in book[l] \/ Fits(query[l], k)

-----------------------------------------------------------------------------
(* One page.                                                               *)

\* What a page adds fits the query and fills the limit at most.
LEMMA KeptFits ==
  ASSUME NEW l \in Listers, NEW items \in SUBSET Keys, count[l] \in Nat,
         query[l] \in Query,
         query[l].limit # 0 => count[l] < query[l].limit
  PROVE  /\ Kept(l, items) \in SUBSET items
         /\ Cardinality(Kept(l, items)) \in Nat
         /\ \A k \in Kept(l, items) : Fits(query[l], k)
         /\ query[l].limit # 0 =>
              count[l] + Cardinality(Kept(l, items)) <= query[l].limit
<1> DEFINE kept == Kept(l, items)
           Before(k) == {j \in items : Fits(query[l], j) /\ j < k}
<1>1. /\ kept \in SUBSET items
      /\ \A k \in kept : Fits(query[l], k)
      /\ \A k \in kept : query[l].limit # 0 =>
           count[l] + Cardinality(Before(k)) < query[l].limit
  <2>1. \A k : Before(k) = {j \in {i \in items : Fits(query[l], i)} : j < k}
    OBVIOUS
  <2> HIDE DEF Before
  <2> QED
    BY <2>1 DEF Kept
<1>2. kept \in SUBSET Keys /\ Cardinality(kept) \in Nat
  BY <1>1, KeySets
<1>3. ASSUME query[l].limit # 0
      PROVE  count[l] + Cardinality(kept) <= query[l].limit
  <2>1. query[l].limit \in Nat
    BY DEF Query
  <2>2. CASE kept = {}
    BY <1>3, <2>1, <2>2, FS_EmptySet
  <2>3. CASE kept # {}
    <3>1. [k \in Keys |-> k] \in [Keys -> Nat]
      BY KeyAssumption DEF Keys
    <3>2. PICK m \in kept : \A j \in kept : j <= m
      <4> HIDE DEF kept
      <4>1. PICK m \in kept :
              \A j \in kept : [k \in Keys |-> k][j] <= [k \in Keys |-> k][m]
        BY <1>2, <2>3, <3>1, LastKeyOf
      <4> QED
        BY <1>2, <4>1
    <3>3. Before(m) \in SUBSET Keys /\ m \in Keys
      BY <1>1, <1>2
    <3>4. IsFiniteSet(Before(m)) /\ Cardinality(Before(m)) \in Nat
      BY <3>3, KeySets
    <3>5. Cardinality(Before(m) \cup {m}) <= Cardinality(Before(m)) + 1
      <4> HIDE DEF Before
      <4>1. Cardinality(Before(m) \cup {m}) =
              IF m \in Before(m) THEN Cardinality(Before(m)) ELSE Cardinality(Before(m)) + 1
        BY <3>4, FS_AddElement
      <4> QED
        BY <3>4, <4>1
    <3>6. kept \in SUBSET (Before(m) \cup {m}) /\ Before(m) \cup {m} \in SUBSET Keys
      <4>1. \A j \in kept : j < m \/ j = m
        BY <1>2, <3>2, KeyAssumption DEF Keys
      <4> QED
        BY <1>1, <3>3, <4>1
    <3>7. Cardinality(kept) <= Cardinality(Before(m) \cup {m})
      <4> HIDE DEF kept, Before
      <4> QED
        BY <3>6, FewerKeys
    <3>8. count[l] + Cardinality(Before(m)) < query[l].limit
      BY <1>1, <1>3, <3>2
    <3>9. Cardinality(Before(m) \cup {m}) \in Nat
      BY <3>6, KeySets
    <3> HIDE DEF kept, Before
    <3> QED
      BY <1>2, <2>1, <3>4, <3>5, <3>7, <3>8, <3>9
  <2> QED
    BY <2>2, <2>3
<1> QED
  BY <1>1, <1>2, <1>3

\* A page drops a row that fits only once the limit is reached, by rows before
\* that one.
LEMMA DroppedWhenFull ==
  ASSUME NEW l \in Listers, NEW items \in SUBSET Keys, count[l] \in Nat,
         query[l] \in Query,
         NEW k \in items, Fits(query[l], k), k \notin Kept(l, items)
  PROVE  /\ query[l].limit # 0
         /\ count[l] + Cardinality(Kept(l, items)) >= query[l].limit
         /\ \A j \in Kept(l, items) : j < k
<1> DEFINE kept == Kept(l, items)
           fit == {j \in items : Fits(query[l], j)}
           Before(i) == {j \in fit : j < i}
<1>1. query[l].limit # 0 /\ query[l].limit \in Nat
  BY DEF Kept, Query
<1>2. \A i \in fit : i \in kept <=> count[l] + Cardinality(Before(i)) < query[l].limit
  BY <1>1 DEF Kept
<1>3. kept \in SUBSET fit /\ fit \in SUBSET Keys /\ k \in fit \ kept
  BY DEF Kept
<1>4. \A i \in Keys : Before(i) \in SUBSET Keys /\ Cardinality(Before(i)) \in Nat
  BY <1>3, KeySets
<1> HIDE DEF kept, fit
<1>5. PICK m \in fit \ kept : \A j \in fit \ kept : m <= j
  <2>1. fit \ kept \in SUBSET Keys /\ fit \ kept # {}
    BY <1>3
  <2> QED
    BY <2>1, FirstKey
<1>6. Before(m) \in SUBSET kept
  <2>1. m \in Nat /\ \A i \in fit : i \in Nat
    BY <1>3, <1>5, KeysAreNat
  <2>2. ASSUME NEW i \in fit, i < m, i \notin kept
        PROVE  FALSE
    <3>1. m <= i
      BY <1>5, <2>2
    <3> QED
      BY <2>1, <2>2, <3>1
  <2> QED
    BY <2>2
<1>7. Cardinality(Before(m)) <= Cardinality(kept) /\ Cardinality(kept) \in Nat
  BY <1>3, <1>6, KeySets, FewerKeys
<1>8. count[l] + Cardinality(Before(m)) >= query[l].limit
  BY <1>1, <1>2, <1>3, <1>4, <1>5
<1>9. ASSUME NEW j \in kept
      PROVE  j < k
  <2>1. SUFFICES ASSUME ~ (j < k) PROVE FALSE
    OBVIOUS
  <2>2. j \in Keys /\ k \in Keys
    BY <1>3
  <2>3. Before(k) \in SUBSET Before(j)
    <3>1. k \in Nat /\ j \in Nat /\ \A i \in fit : i \in Nat
      BY <1>3, <2>2, KeysAreNat
    <3> QED
      BY <2>1, <3>1
  <2>4. Cardinality(Before(k)) <= Cardinality(Before(j))
    BY <1>4, <2>2, <2>3, FewerKeys
  <2>5. /\ count[l] + Cardinality(Before(j)) < query[l].limit
        /\ ~ (count[l] + Cardinality(Before(k)) < query[l].limit)
    BY <1>2, <1>3, <1>9 DEF kept
  <2> HIDE DEF Before
  <2> QED
    BY <1>1, <1>4, <2>2, <2>4, <2>5
<1> HIDE DEF Before
<1> QED
  BY <1>1, <1>3, <1>4, <1>5, <1>7, <1>8, <1>9 DEF kept

\* What comes back with a page: rows of the range that lie ahead, up to the
\* last one evaluated, every one of them that a replica had and that passed.
LEMMA PageFacts ==
  ASSUME TypeOK, NEW l \in Listers, from[l] <= query[l].high + 1, QueryPage(l)
  PROVE  \E reply \in Replies(l), items \in SUBSET Ahead(l),
            last \in query[l].low..query[l].high, more \in BOOLEAN :
           /\ Collect(l, items, last, more)
           /\ from[l] <= last + 1
           /\ more => from[l] <= last
           /\ \A k \in items : k <= last /\ reply[k] # Absent /\ PassesFilter(l, reply[k])
           /\ \A k \in Ahead(l) :
                reply[k] # Absent /\ PassesFilter(l, reply[k]) /\ (k <= last \/ ~more)
                  => k \in items
<1>1. query[l] \in Query /\ from[l] \in Nat
  BY DEF TypeOK
<1>2. /\ query[l].low \in Keys /\ query[l].high \in Keys
      /\ query[l].low <= query[l].high
  BY <1>1 DEF Query
<1>3. query[l].low \in Nat /\ query[l].high \in Nat
  BY <1>2, KeyAssumption DEF Keys
<1>4. PICK reply \in Replies(l) :
        LET found == {k \in Ahead(l) : reply[k] # Absent}
            limit == PushedLimit(l)
        IN  \/ /\ found = {}
               /\ Collect(l, {}, query[l].high, FALSE)
            \/ \E last \in found, more \in BOOLEAN :
                 LET evaluated == {k \in found : k <= last}
                 IN  /\ limit # 0 => Cardinality(evaluated) <= limit
                     /\ evaluated # found => more
                     /\ Collect(l, {k \in evaluated : PassesFilter(l, reply[k])},
                                last, more)
  BY DEF QueryPage
<1> DEFINE found == {k \in Ahead(l) : reply[k] # Absent}
<1>5. Ahead(l) \in SUBSET (query[l].low..query[l].high) /\ \A k \in Ahead(l) : from[l] <= k
  BY <1>1, <1>3 DEF Ahead
<1>6. CASE found = {} /\ Collect(l, {}, query[l].high, FALSE)
  <2>1. query[l].high \in query[l].low..query[l].high
    BY <1>2, <1>3
  <2>2. {} \in SUBSET Ahead(l)
    OBVIOUS
  <2>3. \A k \in Ahead(l) : reply[k] = Absent
    BY <1>6
  <2> QED
    BY <1>6, <2>1, <2>2, <2>3
<1>7. ASSUME NEW last \in found, NEW more \in BOOLEAN,
             LET evaluated == {k \in found : k <= last}
             IN  /\ evaluated # found => more
                 /\ Collect(l, {k \in evaluated : PassesFilter(l, reply[k])}, last, more)
      PROVE  \E items \in SUBSET Ahead(l) :
               /\ Collect(l, items, last, more)
               /\ \A k \in items :
                    k <= last /\ reply[k] # Absent /\ PassesFilter(l, reply[k])
               /\ \A k \in Ahead(l) :
                    reply[k] # Absent /\ PassesFilter(l, reply[k]) /\ (k <= last \/ ~more)
                      => k \in items
  <2> DEFINE evaluated == {k \in found : k <= last}
             items == {k \in evaluated : PassesFilter(l, reply[k])}
  <2>1. Collect(l, items, last, more) /\ (evaluated # found => more)
    BY <1>7
  <2>2. items \in SUBSET Ahead(l)
    OBVIOUS
  <2>3. \A k \in Ahead(l) : reply[k] # Absent /\ (k <= last \/ ~more) => k \in evaluated
    BY <2>1
  <2> QED
    BY <2>1, <2>2, <2>3
<1>8. \A last \in found : /\ last \in query[l].low..query[l].high
                          /\ from[l] <= last + 1 /\ from[l] <= last
  BY <1>1, <1>3, <1>5
<1>9. CASE \E last \in found, more \in BOOLEAN :
             LET evaluated == {k \in found : k <= last}
             IN  /\ evaluated # found => more
                 /\ Collect(l, {k \in evaluated : PassesFilter(l, reply[k])}, last, more)
  BY <1>7, <1>8, <1>9
<1> QED
  BY <1>4, <1>6, <1>9

\* What a page does to its listing, with what it keeps named.
LEMMA PageStep ==
  ASSUME TypeOK, NEW l \in Listers, Collected(l), QueryPage(l)
  PROVE  \E reply \in Replies(l), items \in SUBSET Ahead(l),
            last \in query[l].low..query[l].high, more \in BOOLEAN, kept \in SUBSET Keys :
           /\ kept = Kept(l, items) /\ kept \in SUBSET items
           /\ from[l] <= last + 1 /\ (more => from[l] <= last)
           /\ \A k \in items : k <= last /\ reply[k] # Absent /\ PassesFilter(l, reply[k])
           /\ \A k \in Ahead(l) :
                reply[k] # Absent /\ PassesFilter(l, reply[k]) /\ (k <= last \/ ~more)
                  => k \in items
           /\ keys' = [keys EXCEPT ![l] = @ \cup kept]
           /\ count' = [count EXCEPT ![l] = @ + Cardinality(kept)]
           /\ from' = [from EXCEPT ![l] = last + 1]
           /\ phase' = [phase EXCEPT ![l] = IF Ends(l, kept, more) THEN "done" ELSE @]
<1>1. PICK reply \in Replies(l), items \in SUBSET Ahead(l),
           last \in query[l].low..query[l].high, more \in BOOLEAN :
        /\ Collect(l, items, last, more)
        /\ from[l] <= last + 1
        /\ more => from[l] <= last
        /\ \A k \in items : k <= last /\ reply[k] # Absent /\ PassesFilter(l, reply[k])
        /\ \A k \in Ahead(l) :
             reply[k] # Absent /\ PassesFilter(l, reply[k]) /\ (k <= last \/ ~more)
               => k \in items
  BY PageFacts DEF Collected
<1>2. items \in SUBSET Keys
  BY KeyAssumption DEF Ahead, TypeOK, Query, Keys
<1>3. query[l] \in Query /\ count[l] \in Nat /\ phase[l] = "paging"
  BY DEF TypeOK, QueryPage
<1>4. Kept(l, items) \in SUBSET items
  BY <1>2, <1>3, KeptFits DEF Collected
<1>5. /\ keys' = [keys EXCEPT ![l] = @ \cup Kept(l, items)]
      /\ count' = [count EXCEPT ![l] = @ + Cardinality(Kept(l, items))]
      /\ from' = [from EXCEPT ![l] = last + 1]
      /\ phase' = [phase EXCEPT ![l] = IF Ends(l, Kept(l, items), more) THEN "done" ELSE @]
  BY <1>1 DEF Collect, NextStart
<1> QED
  BY <1>1, <1>2, <1>4, <1>5

\* A page that is not the last one takes the listing past a row.
LEMMA PageAdvances ==
  ASSUME TypeOK, NEW l \in Listers, Collected(l), QueryPage(l)
  PROVE  /\ phase'[l] \in {"paging", "done"}
         /\ phase'[l] = "paging" => from[l] < from'[l] /\ query[l].low < from'[l]
<1>1. PICK reply \in Replies(l), items \in SUBSET Ahead(l),
           last \in query[l].low..query[l].high, more \in BOOLEAN, kept \in SUBSET Keys :
        /\ kept = Kept(l, items) /\ kept \in SUBSET items
        /\ from[l] <= last + 1 /\ (more => from[l] <= last)
        /\ \A k \in items : k <= last /\ reply[k] # Absent /\ PassesFilter(l, reply[k])
        /\ \A k \in Ahead(l) :
             reply[k] # Absent /\ PassesFilter(l, reply[k]) /\ (k <= last \/ ~more)
               => k \in items
        /\ keys' = [keys EXCEPT ![l] = @ \cup kept]
        /\ count' = [count EXCEPT ![l] = @ + Cardinality(kept)]
        /\ from' = [from EXCEPT ![l] = last + 1]
        /\ phase' = [phase EXCEPT ![l] = IF Ends(l, kept, more) THEN "done" ELSE @]
  BY PageStep
<1>2. /\ phase[l] = "paging" /\ from[l] \in Nat
      /\ query[l].low \in Nat /\ query[l].high \in Nat
  BY KeysAreNat DEF QueryPage, TypeOK, Query
<1>3. /\ from'[l] = last + 1
      /\ phase'[l] = IF Ends(l, kept, more) THEN "done" ELSE "paging"
  BY <1>1, <1>2 DEF TypeOK
<1>4. phase'[l] = "paging" => more
  BY <1>3 DEF Ends
<1> QED
  BY <1>1, <1>2, <1>3, <1>4

-----------------------------------------------------------------------------
(* One step of a listing.                                                  *)

Untouched(l) ==
  /\ phase'[l] = phase[l] /\ query'[l] = query[l] /\ asOf'[l] = asOf[l]
  /\ from'[l] = from[l] /\ keys'[l] = keys[l] /\ count'[l] = count[l]
  /\ book'[l] = book[l] /\ calls'[l] = calls[l]

Started(l, q) ==
  /\ phase'[l] = "paging" /\ query'[l] = q /\ asOf'[l] = now
  /\ from'[l] = 0 /\ keys'[l] = {} /\ count'[l] = 0 /\ calls'[l] = calls[l] + 1

\* A call starts with nothing collected.
LEMMA CallStarts ==
  ASSUME TypeOK, NEW l \in Listers, NEW q, Call(l, q)
  PROVE  Started(l, q)
BY DEF TypeOK, Call, Started

\* Every step is one of the listing's own or leaves it as it was.
LEMMA StepOf ==
  ASSUME TypeOK, [Next]_vars, NEW l \in Listers
  PROVE  \/ \E q \in Asked : List(l, q)
         \/ NextPage(l) \/ QueryPage(l) \/ QueryFails(l)
         \/ Untouched(l)
<1>1. ASSUME NEW i \in Listers, i # l,
             \/ \E q \in Asked : List(i, q)
             \/ NextPage(i) \/ QueryPage(i) \/ QueryFails(i)
      PROVE  Untouched(l)
  <2>1. ASSUME NEW q, Call(i, q), NEW b, book' = [book EXCEPT ![i] = b]
        PROVE  Untouched(l)
    BY <1>1, <2>1 DEF TypeOK, Call, Untouched
  <2>2. CASE QueryPage(i)
    <3>1. PICK items, last, more : Collect(i, items, last, more)
      BY <2>2 DEF QueryPage
    <3>2. UNCHANGED <<query, asOf, book, calls>>
      BY <2>2 DEF QueryPage
    <3> QED
      BY <1>1, <3>1, <3>2 DEF TypeOK, Collect, Untouched
  <2>3. CASE QueryFails(i)
    BY <1>1, <2>3 DEF TypeOK, QueryFails, Untouched
  <2> QED
    BY <1>1, <2>1, <2>2, <2>3 DEF List, NextPage
<1>2. ASSUME UNCHANGED listing
      PROVE  Untouched(l)
  BY <1>2 DEF listing, Untouched
<1>3. ASSUME \/ UNCHANGED vars
             \/ \E k \in Keys :
                  \/ \E new \in Stamps \cup {Absent} : ChangeRow(k, new)
                  \/ Reap(k) \/ CatchUp(k)
             \/ Tick
      PROVE  UNCHANGED listing
  BY <1>3 DEF vars, ChangeRow, Reap, CatchUp, Tick
<1> QED
  BY <1>1, <1>2, <1>3 DEF Next

\* The clock does not go back.
LEMMA ClockGoesOn ==
  ASSUME TypeOK, [Next]_vars
  PROVE  now' \in Nat /\ now <= now'
<1>1. now \in Nat
  BY DEF TypeOK
<1>2. now' = now \/ now' = now + 1
  BY DEF Next, List, NextPage, Call, QueryPage, QueryFails, ChangeRow, Reap, CatchUp,
         Tick, vars
<1> QED
  BY <1>1, <1>2

\* A full page ends with a key: the cursor of the next page.
LEMMA LastListedIsKey ==
  ASSUME TypeOK, NEW l \in Listers, Collected(l), FullPage(l)
  PROVE  /\ LastListed(l) \in keys[l]
         /\ keys[l] # {}
         /\ \A j \in keys[l] : Collation[j] <= Collation[LastListed(l)]
<1>1. keys[l] \in SUBSET Keys /\ query[l].limit \in Nat
  BY DEF TypeOK, Query
<1>2. keys[l] # {}
  BY <1>1, FS_EmptySet DEF Collected, FullPage
<1>3. \E k \in keys[l] : \A j \in keys[l] : Collation[j] <= Collation[k]
  BY <1>1, <1>2, LastKeyOf, KeyAssumption
<1> QED
  BY <1>2, <1>3 DEF LastListed

-----------------------------------------------------------------------------
(* Types, and what a listing has collected.                                *)

\* What callers ask for is a query, and so is what they go on with.
LEMMA QueriesAsked ==
  /\ Asked \in SUBSET Query
  /\ \A q \in Query, k \in Keys : [q EXCEPT !.startAfter = k] \in Query
BY CallerAssumption DEF Asked, Query

\* Rows stay rows, whoever changes them.
LEMMA RowTypes ==
  ASSUME TypeOK, [Next]_vars
  PROVE  /\ row' \in [Keys -> Stamp \cup {Absent}]
         /\ past' \in [Keys -> SUBSET (Stamp \cup {Absent})]
         /\ changes' \in Nat
<1>1. CASE UNCHANGED <<row, past, changes>>
  BY <1>1 DEF TypeOK
<1>2. ASSUME NEW k \in Keys, NEW new \in Stamps \cup {Absent}, ChangeRow(k, new)
      PROVE  /\ row' \in [Keys -> Stamp \cup {Absent}]
             /\ past' \in [Keys -> SUBSET (Stamp \cup {Absent})]
             /\ changes' \in Nat
  BY <1>2, CallerAssumption DEF TypeOK, ChangeRow, Replace
<1>3. ASSUME NEW k \in Keys, Reap(k) \/ CatchUp(k)
      PROVE  /\ row' \in [Keys -> Stamp \cup {Absent}]
             /\ past' \in [Keys -> SUBSET (Stamp \cup {Absent})]
             /\ changes' \in Nat
  BY <1>3 DEF TypeOK, Reap, CatchUp, Replace
<1> QED
  BY <1>1, <1>2, <1>3 DEF Next, List, NextPage, Call, QueryPage, QueryFails, Tick, vars,
     partition

\* The types are kept by every step of a well-formed listing.
LEMMA StepType ==
  ASSUME ListInv, [Next]_vars
  PROVE  TypeOK'
<1>0. TypeOK /\ \A l \in Listers : Collected(l)
  BY DEF ListInv
<1>1. /\ row' \in [Keys -> Stamp \cup {Absent}]
      /\ past' \in [Keys -> SUBSET (Stamp \cup {Absent})]
      /\ now' \in Nat /\ changes' \in Nat
  BY <1>0, RowTypes, ClockGoesOn
<1> DEFINE ListingOK ==
             /\ phase \in [Listers -> {"idle", "paging", "done", "failed"}]
             /\ query \in [Listers -> Query]
             /\ asOf \in [Listers -> Nat]
             /\ from \in [Listers -> Nat]
             /\ keys \in [Listers -> SUBSET Keys]
             /\ count \in [Listers -> Nat]
             /\ book \in [Listers -> SUBSET Keys]
             /\ calls \in [Listers -> Nat]
<1>3. ASSUME NEW l \in Listers, NEW q \in Query, Call(l, q),
             book' \in [Listers -> SUBSET Keys]
      PROVE  ListingOK'
  BY <1>0, <1>3 DEF TypeOK, Call
<1>4. ASSUME NEW l \in Listers, NEW q \in Asked, List(l, q)
      PROVE  ListingOK'
  BY <1>0, <1>3, <1>4, QueriesAsked DEF List, TypeOK
<1>5. ASSUME NEW l \in Listers, NextPage(l)
      PROVE  ListingOK'
  <2>1. LastListed(l) \in Keys
    BY <1>0, <1>5, LastListedIsKey DEF NextPage, TypeOK
  <2>2. [query[l] EXCEPT !.startAfter = LastListed(l)] \in Query
    BY <1>0, <2>1, QueriesAsked DEF TypeOK
  <2> QED
    BY <1>0, <1>3, <1>5, <2>2 DEF NextPage, TypeOK
<1>6. ASSUME NEW l \in Listers, QueryPage(l)
      PROVE  ListingOK'
  <2>1. PICK last \in query[l].low..query[l].high, kept \in SUBSET Keys, p \in {"done", phase[l]} :
          /\ keys' = [keys EXCEPT ![l] = @ \cup kept]
          /\ count' = [count EXCEPT ![l] = @ + Cardinality(kept)]
          /\ from' = [from EXCEPT ![l] = last + 1]
          /\ phase' = [phase EXCEPT ![l] = p]
    BY <1>0, <1>6, PageStep
  <2>2. Cardinality(kept) \in Nat /\ last + 1 \in Nat
    <3>1. query[l].low \in Nat /\ query[l].high \in Nat
      BY <1>0, KeysAreNat DEF TypeOK, Query
    <3> QED
      BY <3>1, KeySets
  <2> QED
    BY <1>0, <1>6, <2>1, <2>2 DEF TypeOK, QueryPage
<1>7. ASSUME NEW l \in Listers, QueryFails(l)
      PROVE  ListingOK'
  BY <1>0, <1>7 DEF TypeOK, QueryFails
<1>8. ListingOK'
  <2>1. CASE \E l \in Listers :
               \/ \E q \in Asked : List(l, q)
               \/ NextPage(l) \/ QueryPage(l) \/ QueryFails(l)
    BY <2>1, <1>4, <1>5, <1>6, <1>7
  <2>2. CASE UNCHANGED listing
    BY <1>0, <2>2 DEF listing, TypeOK
  <2> QED
    BY <2>1, <2>2 DEF Next, ChangeRow, Reap, CatchUp, Tick, vars
<1> QED
  BY <1>1, <1>8 DEF TypeOK

\* No key twice, and room as long as it goes on.
LEMMA StepCollected ==
  ASSUME ListInv, [Next]_vars, NEW l \in Listers
  PROVE  Collected(l)'
<1>0. TypeOK /\ Collected(l) /\ query[l] \in Query
  BY DEF ListInv, TypeOK
<1>1. ASSUME NEW q \in Query, Started(l, q)
      PROVE  Collected(l)'
  <2>1. q.high \in Nat /\ q.limit \in Nat
    BY KeysAreNat DEF Query
  <2> QED
    BY <1>1, <2>1, FS_EmptySet DEF Started, Collected
<1>2. CASE \E q \in Asked : List(l, q)
  BY <1>0, <1>1, <1>2, CallStarts, QueriesAsked DEF List
<1>3. CASE NextPage(l)
  <2>1. LastListed(l) \in Keys
    BY <1>0, <1>3, LastListedIsKey DEF NextPage, TypeOK
  <2>2. [query[l] EXCEPT !.startAfter = LastListed(l)] \in Query
    BY <1>0, <2>1, QueriesAsked
  <2> QED
    BY <1>0, <1>1, <1>3, <2>2, CallStarts DEF NextPage
<1>4. CASE QueryPage(l)
  <2>1. PICK items \in SUBSET Ahead(l), last \in query[l].low..query[l].high,
             more \in BOOLEAN, kept \in SUBSET Keys :
          /\ kept = Kept(l, items) /\ kept \in SUBSET items
          /\ from[l] <= last + 1
          /\ \A k \in items : k <= last
          /\ keys' = [keys EXCEPT ![l] = @ \cup kept]
          /\ count' = [count EXCEPT ![l] = @ + Cardinality(kept)]
          /\ from' = [from EXCEPT ![l] = last + 1]
          /\ phase' = [phase EXCEPT ![l] = IF Ends(l, kept, more) THEN "done" ELSE @]
    BY <1>0, <1>4, PageStep
  <2>2. phase[l] = "paging" /\ query' = query
    BY <1>4 DEF QueryPage
  <2>3. /\ query[l].limit \in Nat /\ count[l] \in Nat /\ from[l] \in Nat
        /\ query[l].low \in Nat /\ query[l].high \in Nat
        /\ keys[l] \in SUBSET Keys /\ last \in Nat /\ last <= query[l].high
    <3>1. query[l].low \in Nat /\ query[l].high \in Nat
      BY <1>0, KeysAreNat DEF TypeOK, Query
    <3> QED
      BY <1>0, <3>1 DEF TypeOK, Query
  <2>4. items \in SUBSET Keys /\ \A k \in items : from[l] <= k
    BY <1>0, KeyAssumption DEF Ahead, Query, Keys
  <2>5. /\ Cardinality(kept) \in Nat
        /\ \A k \in kept : Fits(query[l], k)
        /\ query[l].limit # 0 => count[l] + Cardinality(kept) <= query[l].limit
    BY <1>0, <2>1, <2>2, <2>3, <2>4, KeptFits DEF Collected
  <2>6. /\ keys'[l] = keys[l] \cup kept
        /\ count'[l] = count[l] + Cardinality(kept)
        /\ from'[l] = last + 1
        /\ phase'[l] = "paging" => ~ Ends(l, kept, more)
    BY <1>0, <2>1 DEF TypeOK
  <2>7. \A k \in keys'[l] : k < from'[l] /\ Fits(query[l], k)
    <3>1. \A k \in keys[l] : k < from[l] /\ k \in Nat /\ Fits(query[l], k)
      BY <1>0, <2>3, KeysAreNat DEF Collected
    <3>2. \A k \in kept : k <= last /\ k \in Nat /\ Fits(query[l], k)
      BY <2>1, <2>5, KeysAreNat
    <3> QED
      BY <2>1, <2>3, <2>6, <3>1, <3>2
  <2>8. Cardinality(keys[l] \cup kept) = Cardinality(keys[l]) + Cardinality(kept)
    <3>1. keys[l] \cap kept = {}
      <4>1. \A k \in keys[l] : k < from[l] /\ k \in Nat
        BY <1>0, <2>3, KeysAreNat DEF Collected
      <4>2. \A k \in kept : from[l] <= k
        BY <2>1, <2>4
      <4> QED
        BY <2>3, <4>1, <4>2
    <3>2. /\ IsFiniteSet(keys[l]) /\ IsFiniteSet(kept)
          /\ Cardinality(keys[l]) \in Nat /\ Cardinality(kept) \in Nat
      BY <2>3, KeySets
    <3>3. Cardinality(keys[l] \cup kept)
            = Cardinality(keys[l]) + Cardinality(kept) - Cardinality({})
      BY <3>1, <3>2, FS_Union
    <3> QED
      BY <3>2, <3>3, FS_EmptySet
  <2>9. count'[l] = Cardinality(keys'[l]) /\ count'[l] \in Nat
    BY <1>0, <2>3, <2>5, <2>6, <2>8 DEF Collected
  <2>10. query[l].limit # 0 /\ phase'[l] = "paging" => count'[l] < query[l].limit
    BY <2>3, <2>6, <2>9 DEF Ends
  <2>11. from'[l] <= query[l].high + 1
    BY <2>3, <2>6
  <2> QED
    BY <2>2, <2>5, <2>6, <2>7, <2>9, <2>10, <2>11 DEF Collected, Fits, AfterCursor
<1>5. CASE QueryFails(l)
  <2>1. phase'[l] = "failed" /\ UNCHANGED <<query, from, keys, count>>
    BY <1>0, <1>5 DEF QueryFails, TypeOK
  <2> QED
    BY <1>0, <2>1 DEF Collected, Fits, AfterCursor
<1>6. CASE Untouched(l)
  BY <1>0, <1>6 DEF Untouched, Collected, Fits, AfterCursor
<1> QED
  BY <1>0, <1>2, <1>3, <1>4, <1>5, <1>6, StepOf

\* Listings start out well-formed.
LEMMA InitListing == Init => ListInv
<1> SUFFICES ASSUME Init PROVE ListInv
  OBVIOUS
<1>1. [low |-> 0, high |-> 0, limit |-> 0, startAfter |-> None] \in Query
  BY KeyAssumption DEF Query, Keys
<1>2. TypeOK
  BY <1>1, CallerAssumption DEF Init, TypeOK
<1> QED
  BY <1>2, FS_EmptySet DEF Init, ListInv, Collected

\* In every state of the listings: the types, and what each has collected.
THEOREM ListingsWellFormed == Spec => []ListInv
<1>1. ListInv /\ [Next]_vars => ListInv'
  BY StepType, StepCollected DEF ListInv
<1> QED
  BY <1>1, InitListing, PTL DEF Spec

\* No listing returns a key twice or more keys than its limit: for a partition
\* of any size, pages of any length, and replicas that show a row, lose it and
\* show it again between two pages.
THEOREM NoKeyListedTwice == Spec => []NoKeyTwice
<1>1. ListInv => NoKeyTwice
  BY DEF ListInv, Collected, NoKeyTwice
<1> QED
  BY <1>1, ListingsWellFormed, PTL

-----------------------------------------------------------------------------
(* What a listing leaves out.                                              *)

\* The history variables keep their types,
LEMMA StepHistoryType ==
  ASSUME ListInv, ListInv', HTypeOK, [HNext]_hvars
  PROVE  HTypeOK'
<1>0. TypeOK /\ TypeOK'
  BY DEF ListInv
<1>1. CASE UNCHANGED hvars
  BY <1>1 DEF HTypeOK, hvars
<1>2. CASE Track
  <2>1. asked' \in [Listers -> Query]
    BY <1>0, <1>2 DEF Track, HTypeOK, TypeOK
  <2>2. steady' \in [Listers -> SUBSET Keys]
    BY <1>2 DEF Track, HTypeOK
  <2>3. shown' \in [Listers -> SUBSET Keys]
    BY <1>2 DEF Track, HTypeOK
  <2>4. pages' \in [Listers -> Nat]
    BY <1>2 DEF Track, HTypeOK
  <2> QED
    BY <2>1, <2>2, <2>3, <2>4 DEF HTypeOK
<1> QED
  BY <1>1, <1>2 DEF HNext

\* and record what they stand for.
LEMMA Tracked ==
  ASSUME SkipInv, [HNext]_hvars, NEW l \in Listers
  PROVE  /\ [Next]_vars
         /\ \A k \in steady'[l] : Stays(l, k)'
         /\ Asks(l) => asked'[l] = query'[l]
         /\ ~ Asks(l) => asked'[l] = asked[l] /\ steady'[l] \subseteq steady[l]
         /\ calls'[l] = calls[l] => shown[l] \subseteq shown'[l]
         /\ calls'[l] # calls[l] => \A k \in Keys : Shows(l, k)' => k \in shown'[l]
         /\ QueryPage(l) => \A k \in Keys : Shows(l, k)' => k \in shown'[l]
<1>1. CASE UNCHANGED hvars
  <2>1. /\ UNCHANGED <<vars, asked, steady, shown>>
        /\ row' = row /\ past' = past /\ now' = now /\ calls' = calls
    BY <1>1 DEF hvars, vars, partition, listing
  <2>2. \A k \in steady[l] : Stays(l, k)
    BY DEF SkipInv, StillThere
  <2>3. ~ Asks(l)
    BY <2>1 DEF Asks
  <2>4. ~ QueryPage(l)
    <3>1. SUFFICES ASSUME QueryPage(l) PROVE FALSE
      OBVIOUS
    <3>2. TypeOK /\ Collected(l)
      BY DEF SkipInv, ListInv
    <3>3. phase' = phase /\ from' = from /\ phase[l] = "paging"
      BY <1>1, <3>1 DEF hvars, vars, listing, QueryPage
    <3>4. from[l] < from'[l] /\ from[l] \in Nat
      BY <3>1, <3>2, <3>3, PageAdvances DEF TypeOK
    <3> QED
      BY <3>3, <3>4
  <2> QED
    BY <2>1, <2>2, <2>3, <2>4 DEF Stays, Versions
<1>2. CASE HNext
  <2>1. /\ steady'[l] = {k \in IF Asks(l) THEN Keys ELSE steady[l] : Stays(l, k)'}
        /\ asked'[l] = IF Asks(l) THEN query'[l] ELSE asked[l]
        /\ shown'[l] = (IF calls'[l] # calls[l] THEN {} ELSE shown[l])
                         \cup {k \in Keys : Shows(l, k)'}
    BY <1>2 DEF HNext, Track
  <2> QED
    BY <1>2, <2>1 DEF HNext
<1> QED
  BY <1>1, <1>2

\* A row that stayed is served by whichever replica answers, and passes.
LEMMA StaysIsServed ==
  ASSUME TypeOK, NEW l \in Listers, asOf[l] <= now,
         NEW reply \in Replies(l), NEW k \in Ahead(l), Stays(l, k)
  PROVE  reply[k] # Absent /\ PassesFilter(l, reply[k])
<1>1. reply[k] \in Versions(k) /\ k \in Keys
  <2>1. reply[k] \in Versions(k)
    BY DEF Replies
  <2>2. query[l].low \in Keys /\ query[l].high \in Keys
    BY DEF TypeOK, Query
  <2>3. k \in query[l].low..query[l].high
    BY DEF Ahead
  <2>4. k \in Keys
    BY <2>2, <2>3, KeyAssumption DEF Keys
  <2> QED
    BY <2>1, <2>4
<1>2. reply[k] \in Stamp \cup {Absent}
  BY <1>1 DEF Versions, TypeOK
<1>3. asOf[l] \in Nat /\ now \in Nat
  BY DEF TypeOK
<1>4. reply[k] # Absent /\ (l \in TtlListers => reply[k] = Forever \/ reply[k] > now)
  BY <1>1 DEF Stays
<1>5. reply[k] = Forever \/ reply[k] \in Nat
  BY <1>2, <1>4 DEF Stamp
<1> QED
  BY <1>3, <1>4, <1>5 DEF PassesFilter

\* A page that skips a row that stayed is full, with rows before that one.
LEMMA PageSkips ==
  ASSUME TypeOK, NEW l \in Listers, Collected(l), QueryPage(l), asOf[l] <= now,
         Collected(l)',
         NEW k \in Keys, Stays(l, k), InRange(query[l], k), Fits(query[l], k),
         k < from[l] => k \in keys[l],
         k \notin keys'[l]
  PROVE  /\ phase'[l] = "paging" => from'[l] <= k
         /\ phase'[l] = "done" => FullPage(l)' /\ \A j \in keys'[l] : j < k
<1>1. PICK reply \in Replies(l), items \in SUBSET Ahead(l),
           last \in query[l].low..query[l].high, more \in BOOLEAN, kept \in SUBSET Keys :
        /\ kept = Kept(l, items) /\ kept \in SUBSET items
        /\ from[l] <= last + 1 /\ (more => from[l] <= last)
        /\ \A j \in items : j <= last /\ reply[j] # Absent /\ PassesFilter(l, reply[j])
        /\ \A j \in Ahead(l) :
             reply[j] # Absent /\ PassesFilter(l, reply[j]) /\ (j <= last \/ ~more)
               => j \in items
        /\ keys' = [keys EXCEPT ![l] = @ \cup kept]
        /\ count' = [count EXCEPT ![l] = @ + Cardinality(kept)]
        /\ from' = [from EXCEPT ![l] = last + 1]
        /\ phase' = [phase EXCEPT ![l] = IF Ends(l, kept, more) THEN "done" ELSE @]
  BY PageStep, Zenon
<1>2. /\ phase[l] = "paging" /\ query' = query
      /\ query[l] \in Query /\ count[l] \in Nat /\ from[l] \in Nat
      /\ keys[l] \in SUBSET Keys
  BY DEF QueryPage, TypeOK
<1>3. /\ query[l].low \in Nat /\ query[l].high \in Nat /\ query[l].limit \in Nat
      /\ k \in Nat
  BY <1>2, KeysAreNat DEF Query
<1>4. /\ keys'[l] = keys[l] \cup kept
      /\ count'[l] = count[l] + Cardinality(kept)
      /\ from'[l] = last + 1
      /\ phase'[l] = IF Ends(l, kept, more) THEN "done" ELSE "paging"
  BY <1>1, <1>2 DEF TypeOK
<1>5. last \in Nat /\ Cardinality(kept) \in Nat
  BY <1>3, KeySets
<1>6. k \in Ahead(l)
  <2>1. k \notin keys[l]
    BY <1>4
  <2> QED
    BY <1>2, <1>3, <2>1 DEF Ahead, InRange
<1>7. k \in items \/ (last < k /\ more)
  BY <1>1, <1>3, <1>5, <1>6, StaysIsServed
<1>8. items \in SUBSET Keys
  BY <1>2, KeyAssumption DEF Ahead, Query, Keys
<1>9. \A j \in keys[l] : j < from[l] /\ j \in Nat
  BY <1>2, KeysAreNat DEF Collected
<1>10. ASSUME query[l].limit # 0, count[l] + Cardinality(kept) >= query[l].limit
       PROVE  FullPage(l)'
  BY <1>2, <1>3, <1>4, <1>5, <1>10 DEF FullPage, Collected
<1>11. CASE k \in items
  <2>1. /\ query[l].limit # 0 /\ count[l] + Cardinality(kept) >= query[l].limit
        /\ \A j \in kept : j < k
    BY <1>1, <1>2, <1>4, <1>8, <1>11, DroppedWhenFull
  <2>2. \A j \in keys[l] : j < k
    BY <1>2, <1>3, <1>6, <1>9 DEF Ahead
  <2> QED
    BY <1>4, <1>10, <2>1, <2>2 DEF Ends
<1>12. CASE last < k /\ more
  <2>1. last + 1 <= k
    BY <1>3, <1>5, <1>12
  <2>2. \A j \in keys[l] \cup kept : j < k
    <3>1. \A j \in keys[l] : j < k
      BY <1>1, <1>2, <1>3, <1>5, <1>9, <1>12
    <3>2. \A j \in kept : j <= last /\ j \in Nat
      BY <1>1, KeysAreNat
    <3>3. last < k
      BY <1>12
    <3>4. \A j \in kept : j < k
      BY <1>3, <1>5, <3>2, <3>3
    <3> QED
      BY <3>1, <3>4
  <2> QED
    BY <1>4, <1>10, <1>12, <2>1, <2>2 DEF Ends
<1> QED
  BY <1>7, <1>11, <1>12

\* What stayed is kept, or comes after all the limit allowed.
LEMMA StepSkip ==
  ASSUME SkipInv, [HNext]_hvars
  PROVE  SkipInv'
<1>0. TypeOK /\ ListInv /\ HTypeOK
  BY DEF SkipInv, ListInv
<1>1. [Next]_vars
  <2>1. UNCHANGED hvars => UNCHANGED vars
    BY DEF hvars
  <2> QED
    BY <2>1 DEF HNext
<1>2. ListInv'
  BY <1>0, <1>1, StepType, StepCollected DEF ListInv
<1>3. HTypeOK'
  BY <1>0, <1>2, StepHistoryType
<1>4. now' \in Nat /\ now <= now' /\ now \in Nat
  BY <1>0, <1>1, ClockGoesOn DEF TypeOK
<1>5. ASSUME NEW l \in Listers
      PROVE  StillThere(l)' /\ NoneBehind(l)' /\ NoneMissing(l)'
  <2>0. Collected(l) /\ Collected(l)' /\ TypeOK'
    BY <1>2, <1>5 DEF SkipInv, ListInv
  <2>1. /\ \A k \in steady'[l] : Stays(l, k)'
        /\ calls'[l] = calls[l] => steady'[l] \subseteq steady[l]
    BY <1>5, Tracked DEF Asks
  <2>2. StillThere(l) /\ NoneBehind(l) /\ NoneMissing(l)
    BY <1>5 DEF SkipInv
  <2>3. asOf[l] \in Nat /\ calls[l] \in Nat /\ steady[l] \in SUBSET Keys
        /\ steady'[l] \in SUBSET Keys
    BY <1>0, <1>3, <1>5 DEF TypeOK, HTypeOK
  <2>4. ASSUME NEW q, Started(l, q)
        PROVE  StillThere(l)' /\ NoneBehind(l)' /\ NoneMissing(l)'
    <3>1. phase'[l] = "paging" /\ from'[l] = 0 /\ asOf'[l] <= now'
      BY <1>4, <2>4 DEF Started
    <3>2. \A k \in steady'[l] : ~ (k < from'[l])
      <4>1. \A k \in steady'[l] : k \in Nat
        BY <2>3, KeysAreNat
      <4> QED
        BY <3>1, <4>1
    <3> QED
      BY <2>1, <3>1, <3>2 DEF StillThere, NoneBehind, NoneMissing
  <2>5. CASE (\E q \in Asked : List(l, q)) \/ NextPage(l)
    BY <1>0, <1>5, <2>4, <2>5, CallStarts DEF List, NextPage
  <2>6. CASE QueryPage(l)
    <3>1. /\ phase[l] = "paging" /\ UNCHANGED <<now, query, asOf, calls>>
          /\ phase'[l] \in {"paging", "done"}
      BY <1>0, <1>5, <2>0, <2>6, PageAdvances DEF QueryPage
    <3>2. /\ asOf[l] <= now
          /\ \A k \in steady'[l] : k \in steady[l] /\ k \in Keys /\ Stays(l, k)
      BY <2>1, <2>2, <2>3, <3>1 DEF StillThere
    <3>3. ASSUME NEW k \in steady'[l], InRange(query[l], k), Fits(query[l], k),
                 k \notin keys'[l]
          PROVE  /\ phase'[l] = "paging" => from'[l] <= k
                 /\ phase'[l] = "done" => FullPage(l)' /\ \A j \in keys'[l] : j < k
      <4>1. k < from[l] => k \in keys[l]
        BY <2>2, <3>1, <3>2, <3>3 DEF NoneBehind
      <4> QED
        BY <1>0, <1>5, <2>0, <2>6, <3>2, <3>3, <4>1, PageSkips
    <3>4. \A k : Fits(query[l], k)' = Fits(query[l], k)
      BY <3>1 DEF Fits, AfterCursor
    <3>5. StillThere(l)'
      BY <2>1, <3>1, <3>2 DEF StillThere
    <3>6. from'[l] \in Nat /\ \A k \in steady'[l] : k \in Nat
      BY <1>5, <2>0, <2>3, KeysAreNat DEF TypeOK
    <3>7. NoneBehind(l)'
      BY <3>1, <3>3, <3>4, <3>6 DEF NoneBehind, InRange
    <3>8. NoneMissing(l)'
      BY <3>1, <3>3, <3>4 DEF NoneMissing, InRange
    <3> QED
      BY <3>5, <3>7, <3>8
  <2>7. CASE QueryFails(l)
    <3>1. phase'[l] = "failed" /\ UNCHANGED <<asOf, calls>>
      BY <1>0, <1>5, <2>7 DEF QueryFails, TypeOK
    <3> QED
      BY <1>4, <2>1, <2>2, <2>3, <3>1 DEF StillThere, NoneBehind, NoneMissing
  <2>8. CASE Untouched(l)
    <3>1. steady'[l] \subseteq steady[l]
      BY <2>1, <2>8 DEF Untouched
    <3>2. \A k : Fits(query[l], k)' = Fits(query[l], k)
      BY <2>8 DEF Untouched, Fits, AfterCursor
    <3>3. StillThere(l)'
      BY <1>4, <2>1, <2>2, <2>3, <2>8 DEF StillThere, Untouched
    <3>4. NoneBehind(l)'
      BY <2>2, <2>8, <3>1, <3>2 DEF NoneBehind, Untouched, InRange
    <3>5. NoneMissing(l)'
      BY <2>2, <2>8, <3>1, <3>2 DEF NoneMissing, Untouched, InRange, FullPage
    <3> QED
      BY <3>3, <3>4, <3>5
  <2> QED
    BY <1>0, <1>1, <1>5, <2>5, <2>6, <2>7, <2>8, StepOf
<1> QED
  BY <1>2, <1>3, <1>5 DEF SkipInv

\* Before any call, nothing has been left out.
LEMMA InitSkip == HInit => SkipInv
<1> SUFFICES ASSUME HInit PROVE SkipInv
  OBVIOUS
<1>1. ListInv /\ TypeOK
  BY InitListing DEF HInit, ListInv
<1>2. HTypeOK
  BY <1>1 DEF HInit, HTypeOK, TypeOK
<1> QED
  BY <1>1, <1>2 DEF HInit, Init, SkipInv, StillThere, NoneBehind, NoneMissing

\* In every state of the listings and their history: what stayed is not lost.
LEMMA AlwaysSkip == HSpec => []SkipInv
<1>1. SkipInv /\ [HNext]_hvars => SkipInv'
  BY StepSkip
<1> QED
  BY <1>1, InitSkip, PTL DEF HSpec

\* A listing that returns holds every row of its range that stayed and fits, or
\* is as full as its limit allows, with rows the table orders before any it
\* left out: whatever the pages, the replicas that answer them, and the rows
\* that come and go meanwhile.
THEOREM NothingIsSkipped == HSpec => []NothingSkipped
<1>1. SkipInv => NothingSkipped
  BY DEF SkipInv, NoneMissing, NothingSkipped
<1> QED
  BY <1>1, AlwaysSkip, PTL

-----------------------------------------------------------------------------
(* What a listing returns was there.                                       *)

WasThere(l) == keys[l] \subseteq shown[l]

\* What a page keeps, the replica that answered it had.
LEMMA StepWasThere ==
  ASSUME SkipInv, [HNext]_hvars, NEW l \in Listers, WasThere(l)
  PROVE  WasThere(l)'
<1>0. TypeOK /\ Collected(l)
  BY DEF SkipInv, ListInv
<1>1. /\ [Next]_vars
      /\ calls'[l] = calls[l] => shown[l] \subseteq shown'[l]
      /\ QueryPage(l) => \A k \in Keys : Shows(l, k)' => k \in shown'[l]
  BY Tracked
<1>2. CASE (\E q \in Asked : List(l, q)) \/ NextPage(l)
  BY <1>0, <1>2, CallStarts DEF List, NextPage, Started, WasThere
<1>3. CASE QueryPage(l)
  <2>1. PICK reply \in Replies(l), items \in SUBSET Ahead(l),
             last \in query[l].low..query[l].high, more \in BOOLEAN, kept \in SUBSET Keys :
          /\ kept = Kept(l, items) /\ kept \in SUBSET items
          /\ from[l] <= last + 1 /\ (more => from[l] <= last)
          /\ \A k \in items : k <= last /\ reply[k] # Absent /\ PassesFilter(l, reply[k])
          /\ \A k \in Ahead(l) :
               reply[k] # Absent /\ PassesFilter(l, reply[k]) /\ (k <= last \/ ~more)
                 => k \in items
          /\ keys' = [keys EXCEPT ![l] = @ \cup kept]
          /\ count' = [count EXCEPT ![l] = @ + Cardinality(kept)]
          /\ from' = [from EXCEPT ![l] = last + 1]
          /\ phase' = [phase EXCEPT ![l] = IF Ends(l, kept, more) THEN "done" ELSE @]
    BY <1>0, <1>3, PageStep
  <2>2. UNCHANGED <<row, past, asOf, calls>>
    BY <1>3 DEF QueryPage, partition
  <2>3. ASSUME NEW k \in kept
        PROVE  k \in shown'[l]
    <3>1. k \in Ahead(l) /\ reply[k] # Absent /\ PassesFilter(l, reply[k])
      BY <2>1
    <3>2. reply[k] \in Versions(k)
      BY <3>1 DEF Replies
    <3>3. Shows(l, k)'
      BY <2>2, <3>1, <3>2 DEF Shows, Versions, PassesFilter
    <3> QED
      BY <1>1, <1>3, <3>3
  <2> QED
    BY <1>0, <1>1, <2>1, <2>2, <2>3 DEF WasThere, TypeOK
<1>4. CASE QueryFails(l) \/ Untouched(l)
  BY <1>1, <1>4 DEF QueryFails, Untouched, WasThere
<1> QED
  BY <1>0, <1>1, <1>2, <1>3, <1>4, StepOf

\* Every key of a listing was in the table, and not lapsed as of its start, at
\* some time while it ran, and is a key of the caller's namespace: no page
\* makes a key up, keeps one from another listing or from outside, or returns
\* one that only an earlier listing could see.
THEOREM ListedWereThere == HSpec => []ListedWasThere
<1> DEFINE Inv == SkipInv /\ \A l \in Listers : WasThere(l)
<1>1. HInit => Inv
  BY InitSkip DEF HInit, Init, WasThere
<1>2. Inv /\ [HNext]_hvars => Inv'
  BY StepSkip, StepWasThere
<1>3. Inv => ListedWasThere
  BY DEF SkipInv, ListInv, Collected, Fits, WasThere, ListedWasThere
<1> QED
  BY <1>1, <1>2, <1>3, PTL DEF HSpec

-----------------------------------------------------------------------------
(* How many calls a listing makes.                                         *)

\* The count of a listing's calls starts over with it and goes up by pages.
LEMMA PagesCounted ==
  ASSUME HTypeOK, [HNext]_hvars, NEW l \in Listers
  PROVE  /\ calls'[l] # calls[l] => pages'[l] = 0
         /\ pages'[l] \in {0, pages[l], pages[l] + 1}
         /\ calls'[l] = calls[l] /\ ~ QueryPage(l) => pages'[l] = pages[l]
<1>1. CASE UNCHANGED hvars
  BY <1>1 DEF hvars, vars, listing
<1>2. CASE HNext
  BY <1>2 DEF HNext, Track
<1> QED
  BY <1>1, <1>2

\* Every answer but the last takes the listing past a row of its range.
LEMMA StepPages ==
  ASSUME SkipInv, SkipInv', [HNext]_hvars, NEW l \in Listers, PagesMoveOn(l)
  PROVE  PagesMoveOn(l)'
<1>0. TypeOK /\ Collected(l) /\ HTypeOK /\ TypeOK'
  BY DEF SkipInv, ListInv
<1>1. [Next]_vars
  BY Tracked
<1>2. /\ calls'[l] # calls[l] => pages'[l] = 0
      /\ pages'[l] \in {0, pages[l], pages[l] + 1}
      /\ calls'[l] = calls[l] /\ ~ QueryPage(l) => pages'[l] = pages[l]
  BY <1>0, PagesCounted
<1>3. /\ from[l] \in Nat /\ pages[l] \in Nat /\ calls[l] \in Nat /\ from'[l] \in Nat
      /\ query[l].low \in Nat /\ query[l].high \in Nat /\ query[l].low <= query[l].high
      /\ query'[l].low \in Nat /\ query'[l].high \in Nat
      /\ query'[l].low <= query'[l].high
  BY <1>0, KeysAreNat DEF TypeOK, HTypeOK, Query
<1>4. ASSUME NEW q, Started(l, q)
      PROVE  PagesMoveOn(l)'
  BY <1>2, <1>3, <1>4 DEF Started, PagesMoveOn
<1>5. CASE (\E q \in Asked : List(l, q)) \/ NextPage(l)
  BY <1>0, <1>4, <1>5, CallStarts DEF List, NextPage
<1>6. CASE QueryPage(l)
  <2>1. phase[l] = "paging" /\ query' = query
    BY <1>6 DEF QueryPage
  <2>2. /\ phase'[l] = "paging" => from[l] < from'[l] /\ query[l].low < from'[l]
        /\ from[l] <= query[l].high + 1
    BY <1>0, <1>6, PageAdvances DEF Collected
  <2> QED
    BY <1>2, <1>3, <2>1, <2>2 DEF PagesMoveOn
<1>7. CASE QueryFails(l) /\ ~ QueryPage(l)
  <2>1. phase'[l] = "failed" /\ phase[l] = "paging" /\ UNCHANGED <<query, calls>>
    BY <1>0, <1>7 DEF QueryFails, TypeOK
  <2> QED
    BY <1>2, <1>7, <2>1 DEF PagesMoveOn
<1>8. CASE Untouched(l) /\ ~ QueryPage(l)
  BY <1>2, <1>8 DEF Untouched, PagesMoveOn
<1> QED
  BY <1>0, <1>1, <1>5, <1>6, <1>7, <1>8, StepOf

\* A listing makes at most one Query call for each row of its range and one
\* more, however the service cuts its pages and the filter thins them out.
THEOREM PagesAreBounded == HSpec => []PagesBounded
<1> DEFINE Inv == SkipInv /\ \A l \in Listers : PagesMoveOn(l)
<1>1. HInit => Inv
  BY InitSkip DEF HInit, Init, PagesMoveOn
<1>2. Inv /\ [HNext]_hvars => Inv'
  BY StepSkip, StepPages
<1>3. Inv => PagesBounded
  <2> SUFFICES ASSUME Inv, NEW l \in Listers, phase[l] # "idle"
               PROVE  pages[l] <= Cardinality(query[l].low..query[l].high) + 1
    BY DEF PagesBounded
  <2>1. /\ query[l].low \in Nat /\ query[l].high \in Nat /\ query[l].low <= query[l].high
        /\ pages[l] \in Nat
    BY KeysAreNat DEF SkipInv, ListInv, TypeOK, HTypeOK, Query
  <2>2. Cardinality(query[l].low..query[l].high) = query[l].high - query[l].low + 1
    <3> DEFINE a == query[l].low
               b == query[l].high
    <3> HIDE DEF a, b
    <3>1. a \in Int /\ b \in Int /\ ~ (a > b)
      BY <2>1 DEF a, b
    <3>2. Cardinality(a..b) = IF a > b THEN 0 ELSE b - a + 1
      BY <3>1, FS_Interval
    <3> QED
      BY <3>1, <3>2 DEF a, b
  <2>3. pages[l] + query[l].low <= query[l].high + 2
    BY DEF PagesMoveOn
  <2> QED
    BY <2>1, <2>2, <2>3
<1> QED
  BY <1>1, <1>2, <1>3, PTL DEF HSpec

-----------------------------------------------------------------------------
(* A caller that pages with limit and startAfter.                          *)

\* The language compares keys as the table orders them: strings by code point,
\* as Python does, or no key with a character beyond U+FFFF.
InKeyOrder == \A j, k \in Keys : j < k => Collation[j] < Collation[k]

\* The book and the page after it, together, miss nothing that stayed.
LEMMA StepBook ==
  ASSUME InKeyOrder, SkipInv, SkipInv', [HNext]_hvars, NEW l \in Listers, BookKept(l)
  PROVE  BookKept(l)'
<1>0. TypeOK /\ TypeOK' /\ Collected(l) /\ HTypeOK
  BY DEF SkipInv, ListInv
<1>1. /\ [Next]_vars
      /\ Asks(l) => asked'[l] = query'[l]
      /\ ~ Asks(l) => asked'[l] = asked[l] /\ steady'[l] \subseteq steady[l]
  BY Tracked
<1>2. /\ query[l] \in Query /\ asked[l] \in Query /\ calls[l] \in Nat
      /\ keys[l] \in SUBSET Keys /\ book[l] \in SUBSET Keys /\ steady[l] \in SUBSET Keys
  BY <1>0 DEF TypeOK, HTypeOK
<1>3. ASSUME NEW q \in Asked, List(l, q)
      PROVE  BookKept(l)'
  <2>1. Started(l, q) /\ q \in Query
    BY <1>0, <1>3, CallStarts, QueriesAsked DEF List
  <2>2. book'[l] = {} /\ query'[l] = q /\ calls'[l] # calls[l]
    BY <1>0, <1>2, <1>3, <2>1 DEF List, Started, TypeOK
  <2>3. asked'[l] = q
    BY <1>1, <2>2 DEF Asks
  <2>4. q = [q EXCEPT !.startAfter = q.startAfter]
    BY <2>1 DEF Query
  <2> QED
    BY <2>2, <2>3, <2>4 DEF BookKept, Fits, AfterCursor
<1>4. CASE NextPage(l)
  <2> DEFINE last == LastListed(l)
             q == [query[l] EXCEPT !.startAfter = last]
  <2>1. /\ last \in keys[l] /\ \A j \in keys[l] : Collation[j] <= Collation[last]
        /\ keys[l] # {} /\ last \in Keys /\ FullPage(l) /\ phase[l] = "done"
    BY <1>0, <1>2, <1>4, LastListedIsKey DEF NextPage
  <2>2. Started(l, q)
    BY <1>0, <1>4, CallStarts DEF NextPage
  <2> HIDE DEF last
  <2>3. query'[l] = q /\ book'[l] = book[l] \cup keys[l]
    BY <1>0, <1>4, <2>2 DEF NextPage, Started, TypeOK
  <2>4. asked'[l] = asked[l] /\ steady'[l] \subseteq steady[l]
    BY <1>1, <2>1, <2>3 DEF Asks
  <2>5. last # None /\ \A j \in Keys : Collation[j] \in Nat
    BY <2>1, KeysAreNat, KeyAssumption, SentinelAssumption
  <2>6. /\ q = [asked[l] EXCEPT !.startAfter = last]
        /\ q.startAfter = last
        /\ q.low = asked[l].low /\ q.high = asked[l].high
        /\ query[l].low = asked[l].low /\ query[l].high = asked[l].high
    BY <1>2 DEF BookKept, Query
  <2>7. ASSUME NEW j \in book'[l]
        PROVE  Collation[j] <= Collation[last]
    <3>1. CASE j \in keys[l]
      BY <2>1, <3>1
    <3>2. CASE j \in book[l]
      <4>1. /\ query[l].startAfter # None
            /\ Collation[j] <= Collation[query[l].startAfter]
        BY <3>2 DEF BookKept
      <4>2. Collation[last] > Collation[query[l].startAfter]
        BY <1>0, <2>1, <4>1 DEF Collected, Fits, AfterCursor
      <4>3. query[l].startAfter \in Keys /\ j \in Keys
        BY <1>2, <3>2, <4>1 DEF Query
      <4> QED
        BY <2>1, <2>5, <4>1, <4>2, <4>3
    <3> QED
      BY <2>3, <3>1, <3>2
  <2>8. ASSUME NEW k \in steady'[l], InRange(asked[l], k), Fits(asked[l], k)
        PROVE  k \in book'[l] \/ Fits(q, k)
    <3>1. k \in steady[l] /\ k \in Keys
      BY <1>2, <2>4
    <3>2. CASE k \in book[l] \cup keys[l]
      BY <2>3, <3>2
    <3>3. CASE k \notin book[l] \cup keys[l]
      <4>1. Fits(query[l], k) /\ InRange(query[l], k)
        BY <2>6, <2>8, <3>1, <3>3 DEF BookKept, InRange
      <4>2. last < k
        BY <2>1, <3>1, <3>3, <4>1 DEF SkipInv, NoneMissing
      <4>3. Collation[last] < Collation[k]
        BY <2>1, <3>1, <4>2 DEF InKeyOrder
      <4>4. Collation[k] > Collation[last]
        BY <2>1, <2>5, <3>1, <4>3
      <4> QED
        BY <2>6, <2>8, <4>4 DEF Fits, AfterCursor
    <3> QED
      BY <3>2, <3>3
  <2>9. query'[l].startAfter = last
    BY <2>3, <2>6
  <2> HIDE DEF q
  <2> QED
    BY <2>3, <2>4, <2>5, <2>6, <2>7, <2>8, <2>9 DEF BookKept, InRange, Fits, AfterCursor
<1>5. CASE QueryPage(l) \/ QueryFails(l) \/ Untouched(l)
  <2>1. query'[l] = query[l] /\ book'[l] = book[l] /\ calls'[l] = calls[l]
    BY <1>5 DEF QueryPage, QueryFails, Untouched
  <2>2. asked'[l] = asked[l] /\ steady'[l] \subseteq steady[l]
    BY <1>1, <2>1 DEF Asks
  <2> QED
    BY <2>1, <2>2 DEF BookKept, InRange, Fits, AfterCursor
<1> QED
  BY <1>0, <1>1, <1>3, <1>4, <1>5, StepOf

\* Where the language compares keys in the order of the table, the pages of a
\* caller that goes on after the last key it got, down to one that is not full,
\* hold every row that stayed, and no row twice.
THEOREM BooksAreComplete == ASSUME InKeyOrder PROVE HSpec => []BookComplete
<1> DEFINE Inv == SkipInv /\ \A l \in Listers : BookKept(l)
<1>1. HInit => Inv
  <2> SUFFICES ASSUME HInit PROVE Inv
    OBVIOUS
  <2>1. SkipInv
    BY InitSkip
  <2>2. ASSUME NEW l \in Listers
        PROVE  BookKept(l)
    BY DEF HInit, Init, BookKept
  <2> QED
    BY <2>1, <2>2
<1>2. Inv /\ [HNext]_hvars => Inv'
  BY StepSkip, StepBook
<1>3. Inv => BookComplete
  <2> SUFFICES ASSUME Inv, NEW l \in Listers
               PROVE  /\ keys[l] \cap book[l] = {}
                      /\ (phase[l] = "done" /\ ~FullPage(l))
                           => \A k \in steady[l] :
                                InRange(asked[l], k) /\ Fits(asked[l], k)
                                  => k \in keys[l] \cup book[l]
    BY DEF BookComplete
  <2>1. /\ query[l] \in Query /\ asked[l] \in Query
        /\ keys[l] \in SUBSET Keys /\ book[l] \in SUBSET Keys
    BY DEF SkipInv, ListInv, TypeOK, HTypeOK
  <2>2. keys[l] \cap book[l] = {}
    <3>1. SUFFICES ASSUME NEW k \in keys[l], k \in book[l] PROVE FALSE
      OBVIOUS
    <3>2. /\ query[l].startAfter # None
          /\ Collation[k] <= Collation[query[l].startAfter]
      BY <3>1 DEF BookKept
    <3>3. Collation[k] > Collation[query[l].startAfter]
      BY <3>1, <3>2 DEF SkipInv, ListInv, Collected, Fits, AfterCursor
    <3>4. query[l].startAfter \in Keys /\ k \in Keys
      BY <2>1, <3>1, <3>2 DEF Query
    <3> QED
      BY <3>2, <3>3, <3>4, KeyAssumption
  <2>3. query[l].low = asked[l].low /\ query[l].high = asked[l].high
    BY <2>1 DEF BookKept, Query
  <2>4. ASSUME phase[l] = "done", ~FullPage(l), NEW k \in steady[l],
               InRange(asked[l], k), Fits(asked[l], k), k \notin book[l]
        PROVE  k \in keys[l]
    <3>1. Fits(query[l], k) /\ InRange(query[l], k)
      BY <2>3, <2>4 DEF BookKept, InRange
    <3> QED
      BY <2>4, <3>1 DEF SkipInv, NoneMissing
  <2> QED
    BY <2>2, <2>4
<1> QED
  BY <1>1, <1>2, <1>3, PTL DEF HSpec
=============================================================================
