------------------------------- MODULE Search -------------------------------
(***************************************************************************)
(* DynamoDBStorage.search: one SearchVectors call to the table's vector    *)
(* index, or one call of a vectorSearch adapter, and then a loop over the  *)
(* matches, which drops those of other namespaces and reads the values     *)
(* that the matches do not carry.                                          *)
(*                                                                         *)
(* The index is one more replica of the table that lags behind it, and the *)
(* loop may wait for a read at each match, so a search sees the table at   *)
(* several moments.  Writes and deletes take effect at once here, and a    *)
(* read sees one moment of the table: that the table and the bucket do     *)
(* look like this is the matter of DynamoDBStorage and KVStore.            *)
(*                                                                         *)
(* Rows are those the search condition selects: the partition the query    *)
(* names.                                                                  *)
(***************************************************************************)
EXTENDS Naturals, FiniteSets, SequencesExt, Selection

CONSTANTS
  Clients,    \* running calls of one storage, and of a memory store over it
  Keys,       \* keys of the partition
  Home,       \* where a key lies: in the memory store, elsewhere in the
              \* namespace of the storage ("view"), or in another namespace
  Data,       \* stored bytes
  Tags,       \* metadata entries
  None,       \* absence: no item, no vector, no metadata, no filter, no stamp
  Ttl,        \* config.ttlSeconds of every instance, or None
  MaxTopK,    \* MAX_TOP_K
  Overfetch,  \* FILTER_OVERFETCH
  Indexes,    \* how matches may come: see Index
  MaxNow,     \* bound: seconds the clock advances
  MaxChanges, \* bound: changes of the partition by anything but an add
  MaxCalls    \* bound: calls started

\* adapter: config.vectorSearch is there.  carries: what a match brings of its
\* item, as the index projects it or the adapter returns it; an adapter does
\* not return stored bytes.
Index == {x \in [adapter : BOOLEAN, carries : SUBSET {"data", "meta", "exp"}] :
            x.adapter => "data" \notin x.carries}

ASSUME SearchAssumption ==
  /\ IsFiniteSet(Keys)
  /\ None \notin Nat
  /\ Home \in [Keys -> {"memory", "view", "elsewhere"}]
  /\ Ttl \in Nat \cup {None}
  /\ Indexes \subseteq Index
  /\ MaxTopK \in Nat \ {0} /\ Overfetch \in Nat \ {0}

VARIABLES
  item,    \* item[k]: the item at k, or None
  past,    \* older versions of it that the index, or a replica, may serve
  index,   \* how matches come, from the beginning on
  now,     \* epoch seconds
  phase,   \* phase[c]: what call c waits for, or how it ended
  query,   \* query[c]: the query of its search
  todo,    \* todo[c]: matches its loop has not come to
  results, \* results[c]: what it has collected
  changes, calls

table == <<item, past, index>>
search == <<query, todo, results>>
vars == <<table, now, phase, search, changes, calls>>

-----------------------------------------------------------------------------
\* The vector's distance to the query is all that matters of it: score.
Content == [data : Data, score : Nat \cup {None}, meta : (SUBSET Tags) \cup {None},
            big : BOOLEAN]

Item == [data : Data, score : Nat \cup {None}, meta : (SUBSET Tags) \cup {None},
         big : BOOLEAN, exp : Nat \cup {None}]

Query == [limit : Nat, filter : (SUBSET Tags) \cup {None}, values : BOOLEAN,
          prefix : BOOLEAN]

NoQuery == [limit |-> 1, filter |-> None, values |-> FALSE, prefix |-> FALSE]

Stored(content) ==
  [data |-> content.data, score |-> content.score, meta |-> content.meta,
   big |-> content.big, exp |-> IF Ttl = None THEN None ELSE now + Ttl]

Versions(k) == {item[k]} \cup past[k]

Lapsed(i, time) == Ttl # None /\ i.exp # None /\ i.exp <= time

Replace(k, new) ==
  /\ item' = [item EXCEPT ![k] = new]
  /\ past' = [past EXCEPT ![k] = @ \cup {item[k]}]
  /\ UNCHANGED index

\* MUTANT: a filter fetches no more than the caller asked for.
FetchAsAsked(q) == q.limit

\* TopK of the request: a filter is applied after the search, so it fetches
\* more.
Fetch(q) ==
  IF q.filter = None THEN q.limit
  ELSE IF q.limit * Overfetch < MaxTopK THEN q.limit * Overfetch ELSE MaxTopK

\* Every entry of the filter is there; an item without metadata fails even the
\* filter that has no entries.
MatchesFilter(meta, filter) == filter = None \/ (meta # None /\ filter \subseteq meta)

\* What a match tells of its item's metadata, and of its expiry: one without a
\* stamp is kept.
CarriedMeta(i) == IF "meta" \in index.carries THEN i.meta ELSE None

SeenLapsed(i) == "exp" \in index.carries /\ Lapsed(i, now)

\* MUTANT: matches that have lapsed are kept.
WantedLapsed(q, i) == MatchesFilter(CarriedMeta(i), q.filter)

Wanted(q, i) == ~SeenLapsed(i) /\ MatchesFilter(CarriedMeta(i), q.filter)

\* MUTANT: a match of another namespace is taken for one of ours.
InScopeAny(q, k) == q.prefix => Home[k] # "view"

\* stripPrefix and keyPrefix.
InScope(q, k) == Home[k] # "elsewhere" /\ (q.prefix => Home[k] = "memory")

\* What the service may answer: for each key a version the index holds, those
\* with a vector in the order of their scores; TopK cuts it (see Matches).
Replies ==
  {reply \in
     UNION {SetToSeqs({[key |-> k, item |-> held[k]] :
                         k \in {j \in Keys : held[j] # None /\ held[j].score # None}})
            : held \in {h \in [Keys -> UNION {Versions(k) : k \in Keys}] :
                          \A k \in Keys : h[k] \in Versions(k)}}
   : \A i, j \in DOMAIN reply :
       i < j => reply[i].item.score <= reply[j].item.score}

FirstN(s, n) == SubSeq(s, 1, IF Len(s) < n THEN Len(s) ELSE n)

\* MUTANT: the loop does not stop at topK.
MatchesUntrimmed(q, reply) ==
  LET fetched == FirstN(reply, Fetch(q))
      native  == Kept(fetched, {m \in Range(fetched) : Wanted(q, m.item)})
  IN  Kept(native, {m \in Range(native) : InScope(q, m.key)})

\* The loop of nativeVectorSearch, and the matches that the loop of search does
\* not skip.
Matches(q, reply) ==
  LET fetched == FirstN(reply, Fetch(q))
      wanted  == {m \in Range(fetched) : Wanted(q, m.item)}
      native  == FirstN(Kept(fetched, wanted), q.limit)
  IN  Kept(native, {m \in Range(native) : InScope(q, m.key)})

\* An adapter is asked for topK matches that pass the filter.
AdapterMatches(q, reply) ==
  LET passing == {m \in Range(reply) : MatchesFilter(m.item.meta, q.filter)}
      first   == FirstN(Kept(reply, passing), q.limit)
  IN  Kept(first, {m \in Range(first) : InScope(q, m.key)})

-----------------------------------------------------------------------------
Ended == {"idle", "done", "added", "failed"}

\* A call starts, with the locals of a search for q, or ends at once.
Start(c, first, q) ==
  /\ phase[c] \in Ended
  /\ calls < MaxCalls
  /\ calls' = calls + 1
  /\ phase' = [phase EXCEPT ![c] = first]
  /\ query' = [query EXCEPT ![c] = IF first \in Ended THEN NoQuery ELSE q]
  /\ todo' = [todo EXCEPT ![c] = <<>>]
  /\ results' = [results EXCEPT ![c] = <<>>]

\* search(SearchQuery); without an adapter, a topK out of range is refused
\* before any call.  Other refusals, of a plain string or a vector that is not
\* finite, change nothing.
BeginSearch(c, q) ==
  /\ Start(c, IF index.adapter \/ q.limit \in 1..MaxTopK THEN "query" ELSE "failed", q)
  /\ UNCHANGED <<table, now, changes>>

\* The reply of SearchVectors or of the adapter, and the loop over it up to the
\* first match to take.  The native loop awaits the gunzip of matches that carry
\* their bytes; it calls no service meanwhile.
SearchVectors(c) ==
  /\ phase[c] = "query"
  /\ \E reply \in Replies :
       LET matches == IF index.adapter THEN AdapterMatches(query[c], reply)
                                       ELSE Matches(query[c], reply)
       IN  /\ todo' = [todo EXCEPT ![c] = matches]
           /\ phase' = [phase EXCEPT ![c] = IF matches = <<>> THEN "done" ELSE "matches"]
  /\ UNCHANGED <<table, now, query, results, changes, calls>>

\* What read(k) may find: a version that a replica serves, with the bytes in it
\* or in the object, which is that of the latest version.
Readings(k) ==
  {IF i = None \/ Lapsed(i, now) THEN None ELSE i.data
   : i \in {j \in Versions(k) : j # None => ~j.big \/ Lapsed(j, now)}}
  \cup
  {item[k].data : i \in {j \in Versions(k) : /\ j # None /\ j.big /\ ~Lapsed(j, now)
                                             /\ item[k] # None /\ item[k].big}}

\* A pointer whose object is gone makes read throw.
MayThrow(k) ==
  /\ \E i \in Versions(k) : i # None /\ i.big /\ ~Lapsed(i, now)
  /\ ~(item[k] # None /\ item[k].big)

\* The loop drops a match by the stamp that an adapter returned.
Dropped(m) == index.adapter /\ SeenLapsed(m.item)

\* The loop reads the table for the bytes of a match.
ReadBack(q, m) == q.values /\ (m.item.big \/ "data" \notin index.carries)

\* The bytes a match brings along, or that a read of its key finds.
Hydrated(q, m) ==
  IF ~q.values THEN {None}
  ELSE IF ReadBack(q, m) THEN Readings(m.key)
  ELSE {m.item.data}

\* A turn of the loop: a match is dropped, or becomes a result.
TakeMatch(c) ==
  /\ phase[c] = "matches"
  /\ LET m == Head(todo[c])
     IN  \/ Dropped(m) /\ UNCHANGED results
         \/ /\ ~Dropped(m)
            /\ \E d \in Hydrated(query[c], m) :
                 results' = [results EXCEPT ![c] = Append(@,
                   [key |-> m.key, score |-> m.item.score,
                    meta |-> CarriedMeta(m.item), data |-> d])]
  /\ todo' = [todo EXCEPT ![c] = Tail(@)]
  /\ phase' = [phase EXCEPT ![c] = IF Len(todo[c]) = 1 THEN "done" ELSE "matches"]
  /\ UNCHANGED <<table, now, query, changes, calls>>

\* The call throws: its locals and what it has collected are lost.
Fail(c) ==
  /\ phase' = [phase EXCEPT ![c] = "failed"]
  /\ query' = [query EXCEPT ![c] = NoQuery]
  /\ todo' = [todo EXCEPT ![c] = <<>>]
  /\ results' = [results EXCEPT ![c] = <<>>]
  /\ UNCHANGED <<table, now, changes, calls>>

\* One read that throws makes the whole search throw.
ReadThrows(c) ==
  /\ phase[c] = "matches"
  /\ ~Dropped(Head(todo[c])) /\ ReadBack(query[c], Head(todo[c]))
  /\ MayThrow(Head(todo[c]).key)
  /\ Fail(c)

\* The call that c waits for fails, without effect.
CallFails(c) ==
  /\ phase[c] \notin Ended
  /\ Fail(c)

-----------------------------------------------------------------------------
(* The rest of the system.                                                 *)

Change(k, new) ==
  /\ changes < MaxChanges
  /\ changes' = changes + 1
  /\ Replace(k, new)
  /\ UNCHANGED <<now, phase, search, calls>>

\* The application's own items, of this namespace and of others.
Write(k, content) == Home[k] # "memory" /\ Change(k, Stored(content))

Delete(k) == item[k] # None /\ Change(k, None)

\* DynamoDB's TTL process.
Reap(k) ==
  /\ item[k] # None /\ Lapsed(item[k], now)
  /\ Replace(k, None)
  /\ UNCHANGED <<now, phase, search, changes, calls>>

\* The index and the replicas catch up.  That they do so with one key and not
\* with another is among what Replies and Readings choose from.
CatchUp ==
  /\ \E k \in Keys : past[k] # {}
  /\ past' = [k \in Keys |-> {}]
  /\ UNCHANGED <<item, index, now, phase, search, changes, calls>>

Tick ==
  /\ now < MaxNow
  /\ now' = now + 1
  /\ UNCHANGED <<table, phase, search, changes, calls>>

Around ==
  \/ \E k \in Keys : Delete(k) \/ Reap(k)
  \/ CatchUp
  \/ Tick

SearchOn(c) ==
  SearchVectors(c) \/ TakeMatch(c) \/ ReadThrows(c) \/ CallFails(c)

SearchInit ==
  /\ past = [k \in Keys |-> {}]
  /\ index \in Indexes
  /\ now = 0
  /\ phase = [c \in Clients |-> "idle"]
  /\ query = [c \in Clients |-> NoQuery]
  /\ todo = [c \in Clients |-> <<>>]
  /\ results = [c \in Clients |-> <<>>]
  /\ changes = 0
  /\ calls = 0
=============================================================================
