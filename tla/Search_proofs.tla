--------------------------- MODULE Search_proofs ---------------------------
(***************************************************************************)
(* Searches of any number of clients, over partitions of any size, while   *)
(* memories are added and the application's items come and go.             *)
(***************************************************************************)
EXTENDS SearchHistory, Selection_proofs, FiniteSetTheorems, FunctionTheorems

-----------------------------------------------------------------------------
(* What is there.                                                          *)

Phases == {"idle", "embedText", "write", "added", "embedQuery", "query", "matches",
           "done", "failed"}

Match == [key : Keys, item : Item]

Result == [key : Keys, score : Nat \cup {None}, meta : (SUBSET Tags) \cup {None},
           data : Data \cup {None}]

Adding == [text : Texts \cup {None}, meta : (SUBSET Tags) \cup {None}]

Searching == {"embedQuery", "query", "matches"}

\* The part of the types that does not speak of one call.
TableTypes ==
  /\ item \in [Keys -> Item \cup {None}]
  /\ past \in [Keys -> SUBSET (Item \cup {None})]
  /\ index \in Index
  /\ now \in Nat

CallTypes ==
  /\ phase \in [Clients -> Phases]
  /\ query \in [Clients -> Query]
  /\ todo \in [Clients -> Seq(Match)]
  /\ results \in [Clients -> Seq(Result)]
  /\ adding \in [Clients -> Adding]

\* What a call has, for the phase it is in.
InPhase(c) ==
  /\ phase[c] \in Searching => index.adapter \/ query[c].limit \in 1..MaxTopK
  /\ phase[c] \in {"embedText", "write"} => adding[c].text \in Texts
  /\ adding[c].meta # None => adding[c].meta \cap Unstorable = {}
  /\ phase[c] = "matches" <=> todo[c] # <<>>
  /\ phase[c] \notin {"matches", "done"} => results[c] = <<>>
  /\ Len(results[c]) + Len(todo[c]) <= query[c].limit

\* The elements of a sequence, and whether no two have one key.
Listed(s) == {s[n] : n \in 1..Len(s)}

OneEach(s) == \A i, j \in 1..Len(s) : s[i].key = s[j].key => i = j

-----------------------------------------------------------------------------
(* Selections of matches.                                                  *)

\* What is kept, and the first of a sequence, hold one match of a key if the
\* sequence does.
LEMMA KeptMatches ==
  ASSUME NEW T, NEW s \in Seq(T), NEW S
  PROVE  /\ Kept(s, S) \in Seq(T) /\ Len(Kept(s, S)) <= Len(s)
         /\ Listed(Kept(s, S)) \subseteq Listed(s) \cap S
         /\ OneEach(s) => OneEach(Kept(s, S))
<1> DEFINE k == Kept(s, S)
<1>1. k \in Seq(T) /\ k \in Seq(S \cap T) /\ Len(k) <= Len(s)
  BY KeptElements
<1>2. PICK f \in [1..Len(k) -> 1..Len(s)] :
              /\ \A i \in 1..Len(k) : k[i] = s[f[i]]
              /\ \A i, j \in 1..Len(k) : i < j => f[i] < f[j]
  BY KeptPlaces
<1> HIDE DEF k
<1>3. Listed(k) \subseteq Listed(s) \cap S
  <2> SUFFICES ASSUME NEW i \in 1..Len(k) PROVE k[i] \in S /\ k[i] \in Listed(s)
    BY DEF Listed
  <2>1. k[i] \in S
    BY <1>1, ElementOfSeq
  <2>2. k[i] = s[f[i]] /\ f[i] \in 1..Len(s)
    BY <1>2
  <2> QED
    BY <2>1, <2>2 DEF Listed
<1>4. ASSUME OneEach(s), NEW i \in 1..Len(k), NEW j \in 1..Len(k), k[i].key = k[j].key
      PROVE  i = j
  <2>1. f[i] \in 1..Len(s) /\ f[j] \in 1..Len(s) /\ s[f[i]].key = s[f[j]].key
    BY <1>2, <1>4
  <2>2. f[i] = f[j]
    BY <1>4, <2>1 DEF OneEach
  <2>3. ~ (i < j) /\ ~ (j < i)
    BY <1>2, <2>1, <2>2
  <2> QED
    BY <2>3
<1>5. OneEach(s) => OneEach(k)
  BY <1>4 DEF OneEach
<1> QED
  BY <1>1, <1>3, <1>5 DEF k

\* The first n of a sequence.
LEMMA FirstMatches ==
  ASSUME NEW T, NEW s \in Seq(T), NEW n \in Nat
  PROVE  /\ FirstN(s, n) \in Seq(T) /\ Len(FirstN(s, n)) <= n
         /\ Listed(FirstN(s, n)) \subseteq Listed(s)
         /\ OneEach(s) => OneEach(FirstN(s, n))
<1> DEFINE m == IF Len(s) < n THEN Len(s) ELSE n
           k == FirstN(s, n)
<1>1. m \in Nat /\ m <= Len(s) /\ m <= n /\ Len(s) \in Nat
  OBVIOUS
<1>2. k = SubSeq(s, 1, m)
  BY DEF FirstN
<1> HIDE DEF m, k
<1>3. k \in Seq(T) /\ Len(k) = m /\ \A i \in 1..m : k[i] = s[i] /\ i \in 1..Len(s)
  BY <1>1, <1>2
<1>4. Listed(k) \subseteq Listed(s)
  BY <1>3 DEF Listed
<1>5. OneEach(s) => OneEach(k)
  BY <1>3 DEF OneEach
<1> QED
  BY <1>1, <1>3, <1>4, <1>5 DEF k

\* A reply holds one version, that the index may hold, of each of its keys.
LEMMA ReplyIs ==
  ASSUME TableTypes, NEW reply \in Replies
  PROVE  /\ reply \in Seq(Match) /\ OneEach(reply)
         /\ \A m \in Listed(reply) : m.item \in Versions(m.key) \ {None}
<1>1. PICK h \in [Keys -> UNION {Versions(k) : k \in Keys}] :
           /\ \A k \in Keys : h[k] \in Versions(k)
           /\ reply \in SetToSeqs({[key |-> k, item |-> h[k]] :
                                     k \in {j \in Keys : h[j] # None /\ h[j].score # None}})
  BY DEF Replies
<1> DEFINE K == {j \in Keys : h[j] # None /\ h[j].score # None}
           S == {[key |-> k, item |-> h[k]] : k \in K}
           f == [k \in K |-> [key |-> k, item |-> h[k]]]
<1>2. \A k \in Keys : Versions(k) \subseteq Item \cup {None}
  BY DEF TableTypes, Versions
<1>3. \A m \in S : m \in Match /\ m.item \in Versions(m.key) \ {None}
  BY <1>1, <1>2 DEF Match
<1>4. \A m, n \in S : m.key = n.key => m = n
  OBVIOUS
<1>5. IsFiniteSet(S)
  <2>1. IsFiniteSet(K)
    BY SearchAssumption, FS_Subset
  <2>2. f \in Surjection(K, S)
    BY DEF Surjection
  <2> HIDE DEF K, S, f
  <2> QED
    BY <2>1, <2>2, FS_Surjection
<1>6. Cardinality(S) \in Nat
  <2> HIDE DEF S
  <2> QED
    BY <1>5, FS_CardinalityType
<1>7. /\ reply \in [1..Cardinality(S) -> S]
      /\ \A i, j \in 1..Cardinality(S) : i # j => reply[i] # reply[j]
  BY <1>1 DEF SetToSeqs
<1> HIDE DEF S
<1>8. reply \in Seq(Match) /\ Len(reply) = Cardinality(S)
  BY <1>3, <1>6, <1>7
<1>9. \A i \in 1..Len(reply) : reply[i] \in S
  BY <1>7, <1>8
<1>10. OneEach(reply)
  BY <1>4, <1>7, <1>8, <1>9 DEF OneEach
<1> QED
  BY <1>3, <1>8, <1>9, <1>10 DEF Listed

\* What a match must be, for a query, when its reply comes.
Wants(q, m) ==
  /\ InScope(q, m.key)
  /\ q.filter # None => m.item.meta # None /\ q.filter \subseteq m.item.meta

\* The matches of the index are ones it replied, wanted and not lapsed.
LEMMA NativeMatches ==
  ASSUME TableTypes, NEW reply \in Replies, NEW q \in Query
  PROVE  /\ Matches(q, reply) \in Seq(Match) /\ OneEach(Matches(q, reply))
         /\ Len(Matches(q, reply)) <= q.limit
         /\ \A m \in Listed(Matches(q, reply)) :
              /\ m \in Listed(reply) /\ Wants(q, m)
              /\ "exp" \in index.carries => ~Lapsed(m.item, now)
<1> DEFINE fetched == FirstN(reply, Fetch(q))
           wanted  == {m \in Range(fetched) : Wanted(q, m.item)}
           kept    == Kept(fetched, wanted)
           native  == FirstN(kept, q.limit)
           ours    == {m \in Range(native) : InScope(q, m.key)}
<1>1. q.limit \in Nat /\ Fetch(q) \in Nat
  BY SearchAssumption DEF Query, Fetch
<1>2. reply \in Seq(Match) /\ OneEach(reply)
  BY ReplyIs
<1>3. Matches(q, reply) = Kept(native, ours)
  BY DEF Matches
<1>4. fetched \in Seq(Match) /\ Listed(fetched) \subseteq Listed(reply) /\ OneEach(fetched)
  BY <1>1, <1>2, FirstMatches
<1> HIDE DEF fetched, wanted
<1>5. kept \in Seq(Match) /\ Listed(kept) \subseteq Listed(fetched) \cap wanted /\ OneEach(kept)
  BY <1>4, KeptMatches
<1> HIDE DEF kept
<1>6. /\ native \in Seq(Match) /\ Len(native) <= q.limit
      /\ Listed(native) \subseteq Listed(kept) /\ OneEach(native)
  BY <1>1, <1>5, FirstMatches
<1> HIDE DEF native, ours
<1>7. /\ Kept(native, ours) \in Seq(Match) /\ Len(Kept(native, ours)) <= Len(native)
      /\ Listed(Kept(native, ours)) \subseteq Listed(native) \cap ours
      /\ OneEach(Kept(native, ours))
  BY <1>6, KeptMatches
<1>8. Len(Kept(native, ours)) <= q.limit
  <2> DEFINE a == Len(Kept(native, ours))
             b == Len(native)
             l == q.limit
  <2>1. a \in Nat /\ b \in Nat /\ l \in Nat /\ a <= b /\ b <= l
    BY <1>1, <1>6, <1>7, LenProperties
  <2> HIDE DEF a, b, l
  <2>2. a <= l
    BY <2>1
  <2> QED
    BY <2>2 DEF a, l
<1>9. ASSUME NEW m \in Listed(Kept(native, ours))
      PROVE  /\ m \in Listed(reply) /\ Wants(q, m)
             /\ "exp" \in index.carries => ~Lapsed(m.item, now)
  <2>1. m \in Listed(reply) /\ m \in wanted /\ m \in ours
    BY <1>4, <1>5, <1>6, <1>7
  <2>2. Wanted(q, m.item) /\ InScope(q, m.key)
    BY <2>1 DEF wanted, ours
  <2> QED
    BY <2>1, <2>2 DEF Wanted, Wants, SeenLapsed, MatchesFilter, CarriedMeta
<1> QED
  BY <1>3, <1>7, <1>8, <1>9

\* The matches of an adapter are ones it answered, and wanted.
LEMMA AdapterMatchesAre ==
  ASSUME TableTypes, NEW reply \in Replies, NEW q \in Query
  PROVE  /\ AdapterMatches(q, reply) \in Seq(Match) /\ OneEach(AdapterMatches(q, reply))
         /\ Len(AdapterMatches(q, reply)) <= q.limit
         /\ \A m \in Listed(AdapterMatches(q, reply)) : m \in Listed(reply) /\ Wants(q, m)
<1> DEFINE passing == {m \in Range(reply) : MatchesFilter(m.item.meta, q.filter)}
           kept    == Kept(reply, passing)
           first   == FirstN(kept, q.limit)
           ours    == {m \in Range(first) : InScope(q, m.key)}
<1>1. q.limit \in Nat
  BY DEF Query
<1>2. reply \in Seq(Match) /\ OneEach(reply)
  BY ReplyIs
<1>3. AdapterMatches(q, reply) = Kept(first, ours)
  BY DEF AdapterMatches
<1> HIDE DEF passing
<1>5. kept \in Seq(Match) /\ Listed(kept) \subseteq Listed(reply) \cap passing /\ OneEach(kept)
  BY <1>2, KeptMatches
<1> HIDE DEF kept
<1>6. /\ first \in Seq(Match) /\ Len(first) <= q.limit
      /\ Listed(first) \subseteq Listed(kept) /\ OneEach(first)
  BY <1>1, <1>5, FirstMatches
<1> HIDE DEF first, ours
<1>7. /\ Kept(first, ours) \in Seq(Match) /\ Len(Kept(first, ours)) <= Len(first)
      /\ Listed(Kept(first, ours)) \subseteq Listed(first) \cap ours
      /\ OneEach(Kept(first, ours))
  BY <1>6, KeptMatches
<1>8. Len(Kept(first, ours)) <= q.limit
  <2> DEFINE a == Len(Kept(first, ours))
             b == Len(first)
             l == q.limit
  <2>1. a \in Nat /\ b \in Nat /\ l \in Nat /\ a <= b /\ b <= l
    BY <1>1, <1>6, <1>7, LenProperties
  <2> HIDE DEF a, b, l
  <2>2. a <= l
    BY <2>1
  <2> QED
    BY <2>2 DEF a, l
<1>9. ASSUME NEW m \in Listed(Kept(first, ours))
      PROVE  m \in Listed(reply) /\ Wants(q, m)
  <2>1. m \in Listed(reply) /\ m \in passing /\ m \in ours
    BY <1>5, <1>6, <1>7
  <2>2. MatchesFilter(m.item.meta, q.filter) /\ InScope(q, m.key)
    BY <2>1 DEF passing, ours
  <2> QED
    BY <2>1, <2>2 DEF Wants, MatchesFilter
<1> QED
  BY <1>3, <1>7, <1>8, <1>9

\* What the loop of search goes through: versions the index may hold, of
\* different keys in the scope of the query, that its filter passes.
LEMMA MatchesAre ==
  ASSUME TableTypes, NEW reply \in Replies, NEW q \in Query, NEW matches,
         matches = IF index.adapter THEN AdapterMatches(q, reply) ELSE Matches(q, reply)
  PROVE  /\ matches \in Seq(Match) /\ OneEach(matches) /\ Len(matches) <= q.limit
         /\ \A m \in Listed(matches) :
              /\ m.item \in Versions(m.key) \ {None} /\ Wants(q, m)
              /\ ~index.adapter /\ "exp" \in index.carries => ~Lapsed(m.item, now)
<1>1. \A m \in Listed(reply) : m.item \in Versions(m.key) \ {None}
  BY ReplyIs
<1>2. CASE index.adapter
  BY <1>1, <1>2, AdapterMatchesAre
<1>3. CASE ~index.adapter
  BY <1>1, <1>3, NativeMatches
<1> QED
  BY <1>2, <1>3

-----------------------------------------------------------------------------
(* The table.                                                              *)

\* An item of a memory is made of the text that its key is made of.
OfText(k, i) ==
  /\ i.data \in Texts /\ KeyOf[i.data] = k /\ i.score = ScoreOf[i.data]
  /\ i.meta # None => i.meta \cap Unstorable = {}

\* Every version a replica may serve of a memory is of its text, and no older
\* version lapses after the item does.
VersionsOf(k) ==
  \A i \in Versions(k) \ {None} :
    /\ Home[k] = "memory" => OfText(k, i)
    /\ Ttl # None =>
         /\ i.exp \in Nat /\ i.exp <= now + Ttl
         /\ item[k] # None => i.exp <= item[k].exp

TableInv == TableTypes /\ \A k \in Keys : VersionsOf(k)

CallInv == CallTypes /\ \A c \in Clients : InPhase(c)

\* An item that is written is stamped with its time to live.
LEMMA StoredIs ==
  ASSUME now \in Nat, NEW content \in Content
  PROVE  /\ Stored(content) \in Item
         /\ Ttl # None => Ttl \in Nat /\ Stored(content).exp = now + Ttl
BY SearchAssumption DEF Stored, Content, Item

\* What add writes of a text is of that text.
LEMMA MemoryIs ==
  ASSUME now \in Nat, NEW text \in Texts, NEW meta \in (SUBSET Tags) \cup {None},
         meta # None => meta \cap Unstorable = {}
  PROVE  /\ Memory(text, meta) \in Content /\ KeyOf[text] \in Keys
         /\ Home[KeyOf[text]] = "memory"
         /\ OfText(KeyOf[text], Stored(Memory(text, meta)))
<1>1. text \in Data /\ ScoreOf[text] \in Nat /\ KeyOf[text] \in {k \in Keys : Home[k] = "memory"}
  BY MemoryAssumption
<1>2. Memory(text, meta) \in Content
  BY <1>1 DEF Memory, Content
<1> QED
  BY <1>1, <1>2 DEF Memory, Stored, OfText

\* Metadata is stored without what cannot be.
LEMMA StorableIs ==
  ASSUME NEW meta \in Metas
  PROVE  /\ Storable(meta) \in (SUBSET Tags) \cup {None}
         /\ Storable(meta) # None => Storable(meta) \cap Unstorable = {}
<1>1. CASE meta = None \/ meta \subseteq Unstorable
  BY <1>1 DEF Storable
<1>2. CASE ~(meta = None \/ meta \subseteq Unstorable)
  <2>1. meta \in SUBSET Tags
    BY <1>2, MemoryAssumption
  <2>2. Storable(meta) = meta \ Unstorable
    BY <1>2 DEF Storable
  <2> QED
    BY <2>1, <2>2
<1> QED
  BY <1>1, <1>2

\* What steps do to the table.
Puts(k, content) ==
  /\ Replace(k, Stored(content)) /\ now' = now
  /\ Home[k] = "memory" => OfText(k, Stored(content))

\* What a step does to the table: nothing, or the clock ticks, or the index and the
\* replicas catch up, or a key is emptied or written.
LEMMA TableSteps ==
  ASSUME TableTypes, CallInv, [Next]_mvars
  PROVE  \/ UNCHANGED table /\ now' \in {now, now + 1}
         \/ UNCHANGED <<item, index, now>> /\ past' = [k \in Keys |-> {}]
         \/ \E k \in Keys : Replace(k, None) /\ now' = now
         \/ \E k \in Keys, content \in Content : Puts(k, content)
<1>1. ASSUME NEW c \in Clients, WriteMemory(c)
      PROVE  \E k \in Keys, content \in Content : Puts(k, content)
  <2> DEFINE text == adding[c].text
             meta == adding[c].meta
  <2>1. phase[c] = "write" /\ now' = now /\ Replace(KeyOf[text], Stored(Memory(text, meta)))
    BY <1>1 DEF WriteMemory, KeyFor
  <2>2. /\ text \in Texts /\ meta \in (SUBSET Tags) \cup {None}
        /\ meta # None => meta \cap Unstorable = {}
    BY <2>1 DEF CallInv, InPhase, CallTypes, Adding
  <2>3. now \in Nat
    BY DEF TableTypes
  <2> HIDE DEF text, meta
  <2>4. /\ Memory(text, meta) \in Content /\ KeyOf[text] \in Keys
        /\ OfText(KeyOf[text], Stored(Memory(text, meta)))
    BY <2>2, <2>3, MemoryIs
  <2>5. Puts(KeyOf[text], Memory(text, meta))
    BY <2>1, <2>4 DEF Puts
  <2> QED
    BY <2>4, <2>5
<1>2. ASSUME NEW c \in Clients,
             Call(c) \/ EmbedText(c) \/ EmbedQuery(c) \/ (SearchOn(c) /\ UNCHANGED adding)
      PROVE  UNCHANGED table /\ now' = now
  BY <1>2 DEF Call, BeginSearch, Add, MemorySearch, EmbedText, EmbedQuery, SearchOn,
       SearchVectors, TakeMatch, ReadThrows, CallFails, Fail
<1>3. ASSUME NEW k \in Keys, NEW content \in Contents, Write(k, content)
      PROVE  Puts(k, content) /\ content \in Content
  BY <1>3, MemoryAssumption DEF Write, Change, Puts
<1>4. ASSUME NEW k \in Keys, Delete(k) \/ Reap(k)
      PROVE  Replace(k, None) /\ now' = now
  BY <1>4 DEF Delete, Change, Reap
<1>5. CASE CatchUp
  BY <1>5 DEF CatchUp
<1>6. CASE Tick
  BY <1>6 DEF Tick
<1>7. CASE UNCHANGED mvars
  BY <1>7 DEF mvars, vars
<1> QED
  BY <1>1, <1>2, <1>3, <1>4, <1>5, <1>6, <1>7 DEF Next, Around

\* A version that replaces the item is of the text of its key and lapses last.
LEMMA ReplaceKeeps ==
  ASSUME TableInv, NEW k \in Keys, NEW new \in Item \cup {None}, Replace(k, new), now' = now,
         new # None => /\ Home[k] = "memory" => OfText(k, new)
                       /\ Ttl # None => Ttl \in Nat /\ new.exp = now + Ttl
  PROVE  TableInv'
<1>0. TableTypes /\ now \in Nat
  BY DEF TableInv, TableTypes
<1>1. TableTypes'
  BY <1>0 DEF TableTypes, Replace
<1>2. ASSUME NEW j \in Keys, j # k
      PROVE  VersionsOf(j)'
  <2>1. item'[j] = item[j] /\ past'[j] = past[j]
    BY <1>0, <1>2 DEF TableTypes, Replace
  <2> QED
    BY <2>1 DEF TableInv, VersionsOf, Versions
<1>3. VersionsOf(k)'
  <2>1. item'[k] = new /\ past'[k] = past[k] \cup {item[k]}
    BY <1>0 DEF TableTypes, Replace
  <2>2. ASSUME NEW i \in Versions(k)', i # None
        PROVE  /\ Home[k] = "memory" => OfText(k, i)
               /\ Ttl # None =>
                    /\ i.exp \in Nat /\ i.exp <= now + Ttl
                    /\ new # None => i.exp <= new.exp
    <3>1. i = new \/ i \in Versions(k)
      BY <2>1, <2>2 DEF Versions
    <3>2. CASE i = new
      BY <1>0, <2>2, <3>2
    <3>3. CASE i \in Versions(k)
      <4>1. /\ Home[k] = "memory" => OfText(k, i)
            /\ Ttl # None => i.exp \in Nat /\ i.exp <= now + Ttl
        BY <2>2, <3>3 DEF TableInv, VersionsOf
      <4> QED
        BY <4>1
    <3> QED
      BY <3>1, <3>2, <3>3
  <2> QED
    BY <2>1, <2>2 DEF VersionsOf
<1> QED
  BY <1>1, <1>2, <1>3 DEF TableInv

\* The table keeps its types and its memories their texts; time does not go back.
LEMMA StepTable ==
  ASSUME TableInv, CallInv, [Next]_mvars
  PROVE  /\ TableInv'
         /\ index' = index /\ now' \in Nat /\ now <= now'
<1>0. TableTypes /\ now \in Nat
  BY DEF TableInv, TableTypes
<1>1. CASE UNCHANGED table /\ now' \in {now, now + 1}
  <2>1. now' \in Nat /\ now <= now'
    BY <1>0, <1>1
  <2>2. TableTypes'
    BY <1>0, <1>1, <2>1 DEF TableTypes, table
  <2>3. ASSUME NEW k \in Keys PROVE VersionsOf(k)'
    <3>1. VersionsOf(k)
      BY DEF TableInv
    <3>2. Ttl # None => Ttl \in Nat
      BY SearchAssumption
    <3> QED
      BY <1>0, <1>1, <2>1, <3>1, <3>2 DEF VersionsOf, Versions, table
  <2> QED
    BY <1>1, <2>1, <2>2, <2>3 DEF TableInv, table
<1>2. CASE UNCHANGED <<item, index, now>> /\ past' = [k \in Keys |-> {}]
  <2>1. TableTypes'
    BY <1>0, <1>2 DEF TableTypes
  <2>2. ASSUME NEW k \in Keys PROVE VersionsOf(k)'
    BY <1>2 DEF TableInv, VersionsOf, Versions
  <2> QED
    BY <1>0, <1>2, <2>1, <2>2 DEF TableInv
<1>3. ASSUME NEW k \in Keys, Replace(k, None), now' = now
      PROVE  TableInv' /\ index' = index
  BY <1>3, ReplaceKeeps DEF Replace
<1>4. ASSUME NEW k \in Keys, NEW content \in Content, Puts(k, content)
      PROVE  TableInv' /\ index' = index /\ now' = now
  <2> DEFINE new == Stored(content)
  <2>1. new \in Item /\ (Ttl # None => Ttl \in Nat /\ new.exp = now + Ttl)
    BY <1>0, StoredIs
  <2>2. Replace(k, new) /\ now' = now /\ (Home[k] = "memory" => OfText(k, new))
    BY <1>4 DEF Puts
  <2> HIDE DEF new
  <2> QED
    BY <2>1, <2>2, ReplaceKeeps DEF Replace
<1> QED
  BY <1>0, <1>1, <1>2, <1>3, <1>4, TableSteps
-----------------------------------------------------------------------------
(* The calls.                                                              *)

\* The first match and the rest.
LEMMA Takes ==
  ASSUME NEW s \in Seq(Match), s # <<>>
  PROVE  /\ Head(s) \in Match /\ Head(s) \in Listed(s)
         /\ Tail(s) \in Seq(Match) /\ Len(Tail(s)) = Len(s) - 1
         /\ Listed(Tail(s)) \subseteq Listed(s)
         /\ OneEach(s) => /\ OneEach(Tail(s))
                          /\ \A m \in Listed(Tail(s)) : m.key # Head(s).key
<1>1. /\ Len(s) \in Nat /\ 1 <= Len(s) /\ Head(s) = s[1] /\ s[1] \in Match
      /\ Tail(s) \in Seq(Match) /\ Len(Tail(s)) = Len(s) - 1
  OBVIOUS
<1>2. \A i \in 1..Len(Tail(s)) : Tail(s)[i] = s[i + 1] /\ i + 1 \in 2..Len(s)
  BY <1>1
<1> DEFINE t == Tail(s)
           n == Len(s)
<1> HIDE DEF t, n
<1>3. n \in Nat /\ 1 <= n /\ Len(t) = n - 1
  BY <1>1 DEF t, n
<1>4. \A i \in 1..Len(t) : t[i] = s[i + 1] /\ i + 1 \in 1..n /\ i + 1 # 1
  BY <1>2, <1>3 DEF t, n
<1>5. Listed(t) \subseteq Listed(s)
  BY <1>4 DEF Listed, n
<1>6. ASSUME OneEach(s)
      PROVE  OneEach(t) /\ \A m \in Listed(t) : m.key # s[1].key
  <2>1. \A i, j \in 1..n : s[i].key = s[j].key => i = j
    BY <1>6 DEF OneEach, n
  <2>2. OneEach(t)
    <3> SUFFICES ASSUME NEW i \in 1..Len(t), NEW j \in 1..Len(t), t[i].key = t[j].key
                 PROVE  i = j
      BY DEF OneEach
    <3>1. i + 1 = j + 1
      BY <1>4, <2>1
    <3> QED
      BY <1>3, <3>1
  <2>3. ASSUME NEW i \in 1..Len(t) PROVE t[i].key # s[1].key
    <3>1. 1 \in 1..n
      BY <1>3
    <3> QED
      BY <1>4, <2>1, <3>1
  <2> QED
    BY <2>2, <2>3 DEF Listed
<1>7. Head(s) \in Listed(s)
  BY <1>1 DEF Listed
<1> QED
  BY <1>1, <1>5, <1>6, <1>7 DEF t

\* One result more.
LEMMA Appends ==
  ASSUME NEW s \in Seq(Result), NEW r \in Result
  PROVE  /\ Append(s, r) \in Seq(Result) /\ Len(Append(s, r)) = Len(s) + 1
         /\ Listed(Append(s, r)) = Listed(s) \cup {r}
         /\ OneEach(s) /\ (\A x \in Listed(s) : x.key # r.key) => OneEach(Append(s, r))
<1> DEFINE t == Append(s, r)
           n == Len(s)
<1>1. /\ n \in Nat /\ t \in Seq(Result) /\ Len(t) = n + 1 /\ t[n + 1] = r
      /\ \A i \in 1..n : t[i] = s[i]
  OBVIOUS
<1> HIDE DEF t, n
<1>2. 1..Len(t) = (1..n) \cup {n + 1}
  BY <1>1
<1>3. Listed(t) = Listed(s) \cup {r}
  BY <1>1, <1>2 DEF Listed, n
<1>4. ASSUME OneEach(s), \A x \in Listed(s) : x.key # r.key,
             NEW i \in 1..Len(t), NEW j \in 1..Len(t), t[i].key = t[j].key
      PROVE  i = j
  <2>1. \A h \in 1..n : t[h].key # r.key
    BY <1>1, <1>4 DEF Listed, n
  <2>2. \A g, h \in 1..n : t[g].key = t[h].key => g = h
    BY <1>1, <1>4 DEF OneEach, n
  <2> QED
    BY <1>1, <1>2, <1>4, <2>1, <2>2
<1> QED
  BY <1>1, <1>3, <1>4 DEF OneEach, t, n

\* A step of a call changes its own locals only.
Others(c) ==
  \A d \in Clients \ {c} :
    /\ phase'[d] = phase[d] /\ query'[d] = query[d] /\ todo'[d] = todo[d]
    /\ results'[d] = results[d] /\ adding'[d] = adding[d]

\* A step of one call keeps the invariant of calls if it keeps it of that call.
LEMMA OneCallSteps ==
  ASSUME CallInv, NEW c \in Clients, Others(c), index' = index, CallTypes', InPhase(c)'
  PROVE  CallInv'
<1> SUFFICES ASSUME NEW d \in Clients, d # c PROVE InPhase(d)'
  BY DEF CallInv
<1>1. InPhase(d)
  BY DEF CallInv
<1> QED
  BY <1>1 DEF InPhase, Others

\* A memory search asks for no more than MAX_TOP_K.
LEMMA LimitIs ==
  ASSUME NEW request \in Requests
  PROVE  Limit(request) \in Nat /\ Limit(request) <= MaxTopK
BY SearchAssumption, MemoryAssumption DEF Limit

\* What a call begins with.
Begun(c, first, q, a) ==
  /\ Start(c, first, q)
  /\ adding' = [adding EXCEPT ![c] = a]
  /\ first \in {"idle", "failed", "embedText", "embedQuery", "query"}
  /\ q \in Query /\ a \in Adding
  /\ first \in Searching => index.adapter \/ q.limit \in 1..MaxTopK
  /\ first = "embedText" => a.text \in Texts
  /\ a.meta # None => a.meta \cap Unstorable = {}

\* The query of a call that does not search.
LEMMA NoQueryIs == NoQuery \in Query
BY DEF NoQuery, Query

\* Every call begins like that, or is refused.
LEMMA CallBegins ==
  ASSUME CallInv, NEW c \in Clients, Call(c)
  PROVE  \E first, q, a : Begun(c, first, q, a)
<1>0. /\ adding[c] \in Adding /\ adding = [adding EXCEPT ![c] = adding[c]]
      /\ adding[c].meta # None => adding[c].meta \cap Unstorable = {}
  BY DEF CallInv, CallTypes, InPhase
<1>1. ASSUME NEW q \in Queries, BeginSearch(c, q), UNCHANGED adding
      PROVE  \E first, qq, a : Begun(c, first, qq, a)
  <2> DEFINE first == IF index.adapter \/ q.limit \in 1..MaxTopK THEN "query" ELSE "failed"
  <2>1. Start(c, first, q) /\ q \in Query
    BY <1>1, MemoryAssumption DEF BeginSearch
  <2>2. /\ first \in {"query", "failed"}
        /\ first \in Searching => index.adapter \/ q.limit \in 1..MaxTopK
    BY DEF Searching
  <2> HIDE DEF first
  <2>3. first # "embedText"
    BY <2>2
  <2>4. Begun(c, first, q, adding[c])
    BY <1>0, <1>1, <2>1, <2>2, <2>3 DEF Begun
  <2> QED
    BY <2>4
<1>2. ASSUME NEW text \in Texts, NEW meta \in Metas, Add(c, text, meta)
      PROVE  \E first, qq, a : Begun(c, first, qq, a)
  <2> DEFINE a == [text |-> text, meta |-> Storable(meta)]
  <2>1. Start(c, "embedText", NoQuery) /\ adding' = [adding EXCEPT ![c] = a]
    BY <1>2 DEF Add
  <2>2. a \in Adding /\ (a.meta # None => a.meta \cap Unstorable = {}) /\ a.text \in Texts
    BY StorableIs DEF Adding
  <2> HIDE DEF a
  <2>3. Begun(c, "embedText", NoQuery, a)
    BY <2>1, <2>2, NoQueryIs DEF Begun, Searching
  <2> QED
    BY <2>3
<1>3. ASSUME NEW request \in Requests, NEW blank \in BOOLEAN, MemorySearch(c, request, blank)
      PROVE  \E first, qq, a : Begun(c, first, qq, a)
  <2> DEFINE l == Limit(request)
             first == IF l < 1 THEN "failed" ELSE IF blank THEN "idle" ELSE "embedQuery"
             q == [limit |-> l, filter |-> None, values |-> TRUE, prefix |-> TRUE]
  <2>1. Start(c, first, q) /\ UNCHANGED adding
    BY <1>3 DEF MemorySearch
  <2>2. l \in Nat /\ l <= MaxTopK /\ MaxTopK \in Nat
    BY LimitIs, SearchAssumption
  <2> HIDE DEF l
  <2>3. first \in {"failed", "idle", "embedQuery"} /\ (first \in Searching => l \in 1..MaxTopK)
    BY <2>2 DEF Searching
  <2>4. q \in Query /\ q.limit = l
    BY <2>2 DEF Query
  <2> HIDE DEF first, q
  <2>5. Begun(c, first, q, adding[c])
    BY <1>0, <2>1, <2>3, <2>4 DEF Begun
  <2> QED
    BY <2>5
<1> QED
  BY <1>1, <1>2, <1>3 DEF Call

\* A call that begins keeps the invariant of calls.
LEMMA BegunKeeps ==
  ASSUME CallInv, NEW c \in Clients, NEW first, NEW q, NEW a, Begun(c, first, q, a),
         index' = index
  PROVE  CallInv'
<1> DEFINE qq == IF first \in Ended THEN NoQuery ELSE q
<1>1. qq \in Query /\ (first \in Searching => qq = q)
  BY NoQueryIs DEF Begun, Searching, Ended
<1>2. /\ phase' = [phase EXCEPT ![c] = first] /\ query' = [query EXCEPT ![c] = qq]
      /\ todo' = [todo EXCEPT ![c] = <<>>] /\ results' = [results EXCEPT ![c] = <<>>]
      /\ adding' = [adding EXCEPT ![c] = a] /\ first \in Phases /\ a \in Adding
  BY DEF Begun, Start, Phases
<1> HIDE DEF qq
<1>3. CallTypes
  BY DEF CallInv
<1>4. CallTypes'
  BY <1>1, <1>2, <1>3 DEF CallTypes
<1>5. Others(c)
  BY <1>2, <1>3 DEF CallTypes, Others
<1>6. /\ phase'[c] = first /\ query'[c] = qq /\ todo'[c] = <<>> /\ results'[c] = <<>>
      /\ adding'[c] = a
  BY <1>2, <1>3 DEF CallTypes
<1>7. Len(results'[c]) + Len(todo'[c]) <= query'[c].limit
  <2>1. qq.limit \in Nat
    BY <1>1 DEF Query
  <2> QED
    BY <1>6, <2>1
<1>8. InPhase(c)'
  BY <1>1, <1>6, <1>7 DEF InPhase, Begun
<1> QED
  BY <1>4, <1>5, <1>8, OneCallSteps

\* The reply comes.
LEMMA ReplyKeeps ==
  ASSUME TableTypes, CallInv, NEW c \in Clients, SearchVectors(c), UNCHANGED adding
  PROVE  /\ CallInv'
         /\ OneEach(todo'[c])
         /\ \A m \in Listed(todo'[c]) :
              /\ m.item \in Versions(m.key) \ {None} /\ Wants(query[c], m)
              /\ ~index.adapter /\ "exp" \in index.carries => ~Lapsed(m.item, now)
<1>1. PICK reply \in Replies :
        LET matches == IF index.adapter THEN AdapterMatches(query[c], reply)
                                        ELSE Matches(query[c], reply)
        IN  /\ todo' = [todo EXCEPT ![c] = matches]
            /\ phase' = [phase EXCEPT ![c] = IF matches = <<>> THEN "done" ELSE "matches"]
  BY DEF SearchVectors
<1> DEFINE matches == IF index.adapter THEN AdapterMatches(query[c], reply)
                                       ELSE Matches(query[c], reply)
<1>2. /\ phase[c] = "query" /\ CallTypes /\ InPhase(c) /\ query[c] \in Query
      /\ UNCHANGED <<index, query, results, adding>>
  BY DEF SearchVectors, CallInv, CallTypes, table
<1>3. /\ matches \in Seq(Match) /\ OneEach(matches) /\ Len(matches) <= query[c].limit
      /\ \A m \in Listed(matches) :
           /\ m.item \in Versions(m.key) \ {None} /\ Wants(query[c], m)
           /\ ~index.adapter /\ "exp" \in index.carries => ~Lapsed(m.item, now)
  BY <1>2, MatchesAre
<1>4. /\ todo' = [todo EXCEPT ![c] = matches]
      /\ phase' = [phase EXCEPT ![c] = IF matches = <<>> THEN "done" ELSE "matches"]
  BY <1>1
<1> HIDE DEF matches
<1>5. CallTypes'
  BY <1>2, <1>3, <1>4 DEF CallTypes, Phases
<1>6. /\ Others(c) /\ todo'[c] = matches
      /\ phase'[c] = IF matches = <<>> THEN "done" ELSE "matches"
  BY <1>2, <1>4 DEF CallTypes, Others
<1>7. InPhase(c)'
  <2>1. results'[c] = <<>> /\ query'[c] = query[c] /\ adding'[c] = adding[c]
    BY <1>2 DEF InPhase
  <2>2. Len(results'[c]) + Len(todo'[c]) <= query'[c].limit
    <3> DEFINE l == query[c].limit
               n == Len(matches)
    <3>1. n \in Nat /\ l \in Nat /\ n <= l
      BY <1>2, <1>3 DEF Query
    <3> HIDE DEF n, l
    <3>2. 0 + n <= l
      BY <3>1
    <3>3. Len(results'[c]) = 0
      BY <2>1
    <3> QED
      BY <1>6, <2>1, <3>2, <3>3 DEF n, l
  <2>3. phase'[c] = "matches" <=> todo'[c] # <<>>
    BY <1>6
  <2>4. phase'[c] \in {"done", "matches"}
    BY <1>6
  <2> QED
    BY <1>2, <2>1, <2>2, <2>3, <2>4 DEF InPhase, Searching
<1> QED
  BY <1>2, <1>3, <1>5, <1>6, <1>7, OneCallSteps

\* What a read finds is of a version that has not lapsed.
LEMMA ReadingIs ==
  ASSUME TableInv, NEW k \in Keys, NEW d \in Readings(k)
  PROVE  /\ d \in Data \cup {None}
         /\ d # None => \E i \in Versions(k) \ {None} : i.data = d /\ ~Lapsed(i, now)
<1>1. Versions(k) \subseteq Item \cup {None} /\ item[k] \in Versions(k)
  BY DEF TableInv, TableTypes, Versions
<1>2. \A i \in Item : i.data \in Data
  BY DEF Item
<1>3. CASE d \in {IF i = None \/ Lapsed(i, now) THEN None ELSE i.data
                 : i \in {j \in Versions(k) : j # None => ~j.big \/ Lapsed(j, now)}}
  <2>1. PICK i \in Versions(k) : d = IF i = None \/ Lapsed(i, now) THEN None ELSE i.data
    BY <1>3
  <2> QED
    BY <1>1, <1>2, <2>1
<1>4. CASE d \in {item[k].data : i \in {j \in Versions(k) :
                                        /\ j # None /\ j.big /\ ~Lapsed(j, now)
                                        /\ item[k] # None /\ item[k].big}}
  <2>1. PICK j \in Versions(k) : /\ j # None /\ ~Lapsed(j, now)
                                 /\ item[k] # None /\ d = item[k].data
    BY <1>4
  <2>2. Ttl # None => /\ j.exp \in Nat /\ item[k].exp \in Nat /\ j.exp <= item[k].exp
    BY <1>1, <2>1 DEF TableInv, VersionsOf
  <2>3. now \in Nat
    BY DEF TableInv, TableTypes
  <2>4. ~Lapsed(item[k], now)
    BY <2>1, <2>2, <2>3, SearchAssumption DEF Lapsed
  <2> QED
    BY <1>1, <1>2, <2>1, <2>4
<1> QED
  BY <1>3, <1>4 DEF Readings

\* A result has stored bytes or none.
LEMMA HydratedIs ==
  ASSUME TableInv, NEW q, NEW m \in Match, NEW d \in Hydrated(q, m)
  PROVE  d \in Data \cup {None}
<1>1. m.key \in Keys /\ m.item.data \in Data
  BY DEF Match, Item
<1> QED
  BY <1>1, ReadingIs DEF Hydrated

\* A turn of the loop takes the first match, and may add a result of its key.
ResultOf(m, d) ==
  [key |-> m.key, score |-> m.item.score, meta |-> CarriedMeta(m.item), data |-> d]

\* A turn of the loop makes a result.
LEMMA ResultIs ==
  ASSUME TableInv, NEW q, NEW m \in Match, NEW d \in Hydrated(q, m)
  PROVE  ResultOf(m, d) \in Result
<1>1. m.key \in Keys /\ m.item.score \in Nat \cup {None} /\ m.item.meta \in (SUBSET Tags) \cup {None}
  BY DEF Match, Item
<1>2. CarriedMeta(m.item) \in (SUBSET Tags) \cup {None}
  BY <1>1 DEF CarriedMeta
<1> QED
  BY <1>1, <1>2, HydratedIs DEF ResultOf, Result

\* What a turn of the loop does.
LEMMA TakeIs ==
  ASSUME CallInv, NEW c \in Clients, TakeMatch(c)
  PROVE  /\ todo[c] \in Seq(Match) /\ todo[c] # <<>> /\ results[c] \in Seq(Result)
         /\ todo'[c] = Tail(todo[c])
         /\ phase'[c] = IF Len(todo[c]) = 1 THEN "done" ELSE "matches"
         /\ \/ Dropped(Head(todo[c])) /\ results'[c] = results[c]
            \/ /\ ~Dropped(Head(todo[c]))
               /\ \E d \in Hydrated(query[c], Head(todo[c])) :
                    results'[c] = Append(results[c], ResultOf(Head(todo[c]), d))
BY DEF TakeMatch, ResultOf, CallInv, CallTypes, InPhase

\* A turn of the loop keeps the invariant of calls.
LEMMA TakeKeeps ==
  ASSUME TableInv, CallInv, NEW c \in Clients, TakeMatch(c), UNCHANGED adding
  PROVE  CallInv'
<1> DEFINE s == todo[c]
           t == results[c]
<1>1. /\ phase[c] = "matches" /\ CallTypes /\ InPhase(c)
      /\ UNCHANGED <<index, query, adding>>
  BY DEF TakeMatch, CallInv, table
<1>2. /\ s \in Seq(Match) /\ s # <<>> /\ t \in Seq(Result)
      /\ todo'[c] = Tail(s) /\ phase'[c] = IF Len(s) = 1 THEN "done" ELSE "matches"
      /\ \/ results'[c] = t
         \/ \E d \in Hydrated(query[c], Head(s)) : results'[c] = Append(t, ResultOf(Head(s), d))
  BY TakeIs
<1>3. Head(s) \in Match /\ Tail(s) \in Seq(Match) /\ Len(Tail(s)) = Len(s) - 1
  BY <1>2, Takes
<1>4. /\ results'[c] \in Seq(Result)
      /\ Len(results'[c]) = Len(t) \/ Len(results'[c]) = Len(t) + 1
  <2>1. CASE results'[c] = t
    BY <1>2, <2>1
  <2>2. ASSUME NEW d \in Hydrated(query[c], Head(s)), results'[c] = Append(t, ResultOf(Head(s), d))
        PROVE  results'[c] \in Seq(Result) /\ Len(results'[c]) = Len(t) + 1
    BY <1>2, <1>3, <2>2, ResultIs, Appends
  <2> QED
    BY <1>2, <2>1, <2>2
<1>5. Others(c)
  BY <1>1 DEF TakeMatch, CallTypes, Others
<1>6. CallTypes'
  <2>1. \E r : results' = [results EXCEPT ![c] = r]
    <3>1. results = [results EXCEPT ![c] = results[c]]
      BY <1>1 DEF CallTypes
    <3> QED
      BY <3>1 DEF TakeMatch
  <2>2. results' \in [Clients -> Seq(Result)]
    BY <1>1, <1>4, <2>1 DEF CallTypes
  <2>3. todo' \in [Clients -> Seq(Match)] /\ phase' \in [Clients -> Phases]
    BY <1>1, <1>3 DEF TakeMatch, CallTypes, Phases
  <2> QED
    BY <1>1, <2>2, <2>3 DEF CallTypes
<1>7. InPhase(c)'
  <2> DEFINE n == Len(s)
             r == Len(t)
             l == query[c].limit
             rr == Len(results'[c])
  <2>1. n \in Nat /\ n # 0 /\ r \in Nat /\ l \in Nat /\ r + n <= l
    <3>1. query[c] \in Query
      BY <1>1 DEF CallTypes
    <3>2. l \in Nat
      BY <3>1 DEF Query
    <3>3. n \in Nat /\ n # 0 /\ r \in Nat
      BY <1>2
    <3>4. r + n <= l
      BY <1>1 DEF InPhase
    <3> QED
      BY <3>2, <3>3, <3>4
  <2>2. rr = r \/ rr = r + 1
    BY <1>4
  <2>3. Len(todo'[c]) = n - 1
    BY <1>2, <1>3
  <2> HIDE DEF n, r, l, rr
  <2>4. rr + (n - 1) <= l
    BY <2>1, <2>2
  <2>5. Len(results'[c]) + Len(todo'[c]) <= query'[c].limit
    BY <1>1, <2>3, <2>4 DEF l, rr
  <2>6. phase'[c] = "matches" <=> todo'[c] # <<>>
    <3>1. n = 1 <=> todo'[c] = <<>>
      <4>1. todo'[c] \in Seq(Match)
        BY <1>2, <1>3
      <4>2. todo'[c] = <<>> <=> Len(todo'[c]) = 0
        BY <4>1
      <4> QED
        BY <2>1, <2>3, <4>2
    <3>2. phase'[c] = IF n = 1 THEN "done" ELSE "matches"
      BY <1>2 DEF n
    <3> QED
      BY <3>1, <3>2
  <2>7. phase'[c] \in {"done", "matches"}
    BY <1>2
  <2> QED
    BY <1>1, <2>5, <2>6, <2>7 DEF InPhase, Searching
<1> QED
  BY <1>1, <1>5, <1>6, <1>7, OneCallSteps

\* A call gives up; what it knew is lost.
GivesUp(c) ==
  /\ phase[c] \notin Ended
  /\ phase' = [phase EXCEPT ![c] = "failed"]
  /\ query' = [query EXCEPT ![c] = NoQuery]
  /\ todo' = [todo EXCEPT ![c] = <<>>]
  /\ results' = [results EXCEPT ![c] = <<>>]

\* A call that gives up keeps the invariant of calls.
LEMMA GivingUpKeeps ==
  ASSUME CallInv, NEW c \in Clients, GivesUp(c), UNCHANGED <<index, adding>>
  PROVE  CallInv'
<1>1. CallTypes /\ InPhase(c)
  BY DEF CallInv
<1>2. CallTypes'
  BY <1>1, NoQueryIs DEF GivesUp, CallTypes, Phases
<1>3. Others(c)
  BY <1>1 DEF GivesUp, CallTypes, Others
<1>4. /\ phase'[c] = "failed" /\ query'[c] = NoQuery /\ todo'[c] = <<>> /\ results'[c] = <<>>
      /\ adding'[c] = adding[c]
  BY <1>1 DEF GivesUp, CallTypes
<1>5. Len(results'[c]) + Len(todo'[c]) <= query'[c].limit
  BY <1>4 DEF NoQuery
<1>6. InPhase(c)'
  BY <1>1, <1>4, <1>5 DEF InPhase, Searching
<1> QED
  BY <1>2, <1>3, <1>6, OneCallSteps

\* A call whose embedding arrives, or whose write ends.
MovesOn(c) ==
  /\ \E to : /\ phase' = [phase EXCEPT ![c] = to]
             /\ <<phase[c], to>> \in {<<"embedText", "write">>, <<"write", "added">>,
                                     <<"write", "failed">>, <<"embedQuery", "query">>}
  /\ adding' \in {adding, [adding EXCEPT ![c] = NoAdd]}
  /\ phase[c] # "write" => adding' = adding
  /\ UNCHANGED search

\* A call that moves on keeps it.
LEMMA MovingOnKeeps ==
  ASSUME CallInv, NEW c \in Clients, MovesOn(c), UNCHANGED index
  PROVE  CallInv'
<1>1. CallTypes /\ InPhase(c)
  BY DEF CallInv
<1>2. PICK to : /\ phase' = [phase EXCEPT ![c] = to]
                /\ <<phase[c], to>> \in {<<"embedText", "write">>, <<"write", "added">>,
                                        <<"write", "failed">>, <<"embedQuery", "query">>}
  BY DEF MovesOn
<1>3. to \in Phases
  BY <1>2 DEF Phases
<1>4. NoAdd \in Adding
  BY DEF NoAdd, Adding
<1>5. CallTypes'
  BY <1>1, <1>2, <1>3, <1>4 DEF MovesOn, CallTypes, search
<1>6. Others(c)
  BY <1>1, <1>2 DEF MovesOn, CallTypes, Others, search
<1>7. /\ phase'[c] = to /\ UNCHANGED search /\ adding'[c] \in {adding[c], NoAdd}
      /\ phase[c] # "write" => adding'[c] = adding[c]
  BY <1>1, <1>2 DEF MovesOn, CallTypes
<1>8. adding'[c].meta # None => adding'[c].meta \cap Unstorable = {}
  BY <1>1, <1>7 DEF InPhase, NoAdd
<1>9. InPhase(c)'
  BY <1>1, <1>2, <1>7, <1>8 DEF InPhase, Searching, search
<1> QED
  BY <1>5, <1>6, <1>9, OneCallSteps

\* Every step of the specification leaves the calls alone, or is of one call.
Steps(c) ==
  \/ \E first, q, a : Begun(c, first, q, a)
  \/ MovesOn(c)
  \/ SearchVectors(c) /\ UNCHANGED adding
  \/ TakeMatch(c) /\ UNCHANGED adding
  \/ GivesUp(c) /\ UNCHANGED adding

\* Every step leaves all calls alone, or is of one of these kinds.
LEMMA CallSteps ==
  ASSUME CallInv, [Next]_mvars
  PROVE  UNCHANGED <<phase, search, adding>> \/ \E c \in Clients : Steps(c)
<1>1. ASSUME NEW c \in Clients, Call(c) PROVE Steps(c)
  BY <1>1, CallBegins DEF Steps
<1>2. ASSUME NEW c \in Clients, EmbedText(c) \/ EmbedQuery(c) PROVE Steps(c)
  BY <1>2 DEF EmbedText, EmbedQuery, Steps, MovesOn
<1>3. ASSUME NEW c \in Clients, WriteMemory(c) PROVE Steps(c)
  BY <1>3 DEF WriteMemory, Steps, MovesOn
<1>4. ASSUME NEW c \in Clients, SearchOn(c), UNCHANGED adding PROVE Steps(c)
  BY <1>4 DEF SearchOn, ReadThrows, CallFails, Fail, Steps, GivesUp, Ended
<1>5. ASSUME NEW k \in Keys, NEW content \in Contents, Write(k, content), UNCHANGED adding
      PROVE  UNCHANGED <<phase, search, adding>>
  BY <1>5 DEF Write, Change
<1>6. CASE Around /\ UNCHANGED adding
  BY <1>6 DEF Around, Delete, Change, Reap, CatchUp, Tick
<1>7. CASE UNCHANGED mvars
  BY <1>7 DEF mvars, vars
<1> QED
  BY <1>1, <1>2, <1>3, <1>4, <1>5, <1>6, <1>7 DEF Next

\* Every step keeps the invariant of calls.
LEMMA StepCalls ==
  ASSUME TableInv, CallInv, [Next]_mvars
  PROVE  CallInv'
<1>1. index' = index /\ TableTypes
  BY StepTable DEF TableInv
<1>2. CASE UNCHANGED <<phase, search, adding>>
  BY <1>1, <1>2 DEF CallInv, CallTypes, InPhase, search
<1>3. ASSUME NEW c \in Clients, Steps(c) PROVE CallInv'
  BY <1>1, <1>3, BegunKeeps, MovingOnKeeps, ReplyKeeps, TakeKeeps, GivingUpKeeps DEF Steps
<1> QED
  BY <1>2, <1>3, CallSteps

-----------------------------------------------------------------------------
(* What a search has collected.                                            *)

\* A version that a search may still take: it could be served while the search
\* ran, and the query wants it.
Admitted(c, m) ==
  /\ m.item \in held[c][m.key] \ {None}
  /\ Wants(query[c], m)
  /\ ~index.adapter /\ "exp" \in index.carries => ~Lapsed(m.item, asOf[c])

\* A result stands for a version that could be served, and has the bytes of one.
Found(c, r) ==
  /\ InScope(query[c], r.key)
  /\ \E i \in held[c][r.key] \ {None} :
       /\ i.score = r.score /\ CarriedMeta(i) = r.meta
       /\ query[c].filter # None => i.meta # None /\ query[c].filter \subseteq i.meta
       /\ "exp" \in index.carries => ~Lapsed(i, asOf[c])
  /\ r.data # None =>
       \E i \in held[c][r.key] \ {None} :
         /\ i.data = r.data
         /\ ~Lapsed(i, asOf[c]) \/ (index.carries \cap {"data", "exp"} = {"data"} /\ ~i.big)

\* What the history of a search says: everything that can be served is among
\* what was held, and what was held of a memory is of its text.
HeldInv(c) ==
  /\ Follows(c) => asOf[c] \in Nat /\ asOf[c] <= now
  /\ \A k \in Keys :
       /\ Follows(c) /\ Running(c) => Versions(k) \subseteq held[c][k]
       /\ Home[k] = "memory" => \A i \in held[c][k] \ {None} : OfText(k, i)

Collected(c) ==
  /\ \A m \in Listed(todo[c]) : Admitted(c, m)
  /\ \A r \in Listed(results[c]) : Found(c, r)
  /\ OneEach(todo[c]) /\ OneEach(results[c])
  /\ \A m \in Listed(todo[c]), r \in Listed(results[c]) : m.key # r.key

SearchInv == TableInv /\ CallInv /\ \A c \in Clients : HeldInv(c) /\ Collected(c)

\* How the history of a search goes on.
LEMMA TrackIs ==
  ASSUME Track, NEW c \in Clients
  PROVE  /\ Starts(c) => asOf'[c] = now /\ \A k \in Keys : held'[c][k] = Versions(k)'
         /\ ~Follows(c)' => \A k \in Keys : held'[c][k] = {}
         /\ Follows(c)' /\ ~Starts(c) =>
              /\ asOf'[c] = asOf[c]
              /\ \A k \in Keys :
                   /\ held[c][k] \subseteq held'[c][k]
                   /\ held'[c][k] \subseteq held[c][k] \cup Versions(k)'
                   /\ Running(c) => Versions(k)' \subseteq held'[c][k]
<1>1. /\ asOf'[c] = IF Starts(c) THEN now ELSE IF ~Follows(c)' THEN 0 ELSE asOf[c]
      /\ held'[c] = IF Starts(c) THEN [k \in Keys |-> Versions(k)']
                    ELSE IF ~Follows(c)' THEN [k \in Keys |-> {}]
                    ELSE IF Running(c) THEN [k \in Keys |-> held[c][k] \cup Versions(k)']
                    ELSE held[c]
  BY DEF Track
<1>2. Starts(c) => Follows(c)'
  BY DEF Starts
<1>3. CASE Starts(c)
  BY <1>1, <1>2, <1>3
<1>4. CASE ~Starts(c) /\ ~Follows(c)'
  BY <1>1, <1>4
<1>5. CASE ~Starts(c) /\ Follows(c)' /\ Running(c)
  <2>1. held'[c] = [k \in Keys |-> held[c][k] \cup Versions(k)'] /\ asOf'[c] = asOf[c]
    BY <1>1, <1>5
  <2> QED
    BY <1>5, <2>1
<1>6. CASE ~Starts(c) /\ Follows(c)' /\ ~Running(c)
  BY <1>1, <1>6
<1> QED
  BY <1>3, <1>4, <1>5, <1>6

\* What has not lapsed now had not lapsed before.
LEMMA NotLapsedBefore ==
  ASSUME NEW i \in Item, NEW s \in Nat, NEW t \in Nat, s <= t, ~Lapsed(i, t)
  PROVE  ~Lapsed(i, s)
<1>1. i.exp \in Nat \cup {None}
  BY DEF Item
<1> QED
  BY <1>1 DEF Lapsed

\* How a step goes for one call.
Begins(c) == /\ ~Running(c) /\ phase'[c] # "done" /\ todo'[c] = <<>> /\ results'[c] = <<>>

Waits(c) ==
  /\ query'[c] = query[c] /\ todo'[c] = todo[c] /\ results'[c] = results[c]
  /\ Follows(c)' => Follows(c) /\ (Running(c)' <=> Running(c))

\* A step of any client, as one client sees it.
LEMMA ClientSteps ==
  ASSUME CallInv, [Next]_mvars, NEW c \in Clients
  PROVE  \/ Begins(c) \/ Waits(c)
         \/ SearchVectors(c) /\ UNCHANGED adding
         \/ TakeMatch(c) /\ UNCHANGED adding
         \/ phase'[c] = "failed" /\ todo'[c] = <<>> /\ results'[c] = <<>>
<1>1. CallTypes
  BY DEF CallInv
<1>2. CASE UNCHANGED <<phase, search, adding>>
  BY <1>2 DEF search, Waits, Follows, Running
<1>3. ASSUME NEW d \in Clients, d # c, Steps(d) PROVE Waits(c)
  <2>1. /\ phase'[c] = phase[c] /\ query'[c] = query[c] /\ todo'[c] = todo[c]
        /\ results'[c] = results[c]
    BY <1>1, <1>3 DEF Steps, Begun, Start, MovesOn, SearchVectors, TakeMatch, GivesUp,
         CallTypes, search
  <2> QED
    BY <2>1 DEF Waits, Follows, Running
<1>4. ASSUME NEW first, NEW q, NEW a, Begun(c, first, q, a) PROVE Begins(c)
  BY <1>1, <1>4 DEF Begun, Start, Begins, Running, CallTypes
<1>5. CASE MovesOn(c)
  <2>1. /\ query'[c] = query[c] /\ todo'[c] = todo[c] /\ results'[c] = results[c]
        /\ <<phase[c], phase'[c]>> \in {<<"embedText", "write">>, <<"write", "added">>,
                                     <<"write", "failed">>, <<"embedQuery", "query">>}
    BY <1>1, <1>5 DEF MovesOn, search, CallTypes
  <2> QED
    BY <2>1 DEF Waits, Follows, Running, Ended
<1>6. CASE GivesUp(c)
  BY <1>1, <1>6 DEF GivesUp, CallTypes
<1> QED
  BY <1>2, <1>3, <1>4, <1>5, <1>6, CallSteps DEF Steps

\* A search that is followed and has not just started was followed before.
LEMMA FollowedBefore ==
  ASSUME CallInv, [Next]_mvars, NEW c \in Clients, Follows(c)', ~Starts(c)
  PROVE  Follows(c) /\ (Running(c)' => Running(c))
<1>1. CASE Begins(c)
  BY <1>1 DEF Begins, Starts, Follows, Running, Ended
<1>2. CASE Waits(c)
  BY <1>2 DEF Waits
<1>3. CASE SearchVectors(c)
  BY <1>3 DEF SearchVectors, Follows, Running, Ended
<1>4. CASE TakeMatch(c)
  BY <1>4 DEF TakeMatch, Follows, Running, Ended
<1>5. CASE phase'[c] = "failed"
  BY <1>5 DEF Follows
<1> QED
  BY <1>1, <1>2, <1>3, <1>4, <1>5, ClientSteps

\* A search follows the versions of every key from its beginning to its end.
LEMMA HeldSteps ==
  ASSUME SearchInv, Next, Track, NEW c \in Clients
  PROVE  HeldInv(c)'
<1>1. TableInv /\ CallInv /\ HeldInv(c) /\ now \in Nat
  BY DEF SearchInv, TableInv, TableTypes
<1>2. TableInv' /\ now' \in Nat /\ now <= now'
  BY <1>1, StepTable
<1>3. \A k \in Keys : Home[k] = "memory" => \A i \in Versions(k)' \ {None} : OfText(k, i)
  BY <1>2 DEF TableInv, VersionsOf
<1>4. CASE Starts(c)
  <2>1. asOf'[c] = now /\ \A k \in Keys : held'[c][k] = Versions(k)'
    BY <1>4, TrackIs
  <2> QED
    BY <1>1, <1>2, <1>3, <2>1 DEF HeldInv
<1>5. CASE ~Starts(c) /\ ~Follows(c)'
  <2>1. \A k \in Keys : held'[c][k] = {}
    BY <1>5, TrackIs
  <2> QED
    BY <1>5, <2>1 DEF HeldInv
<1>6. CASE ~Starts(c) /\ Follows(c)'
  <2>1. /\ asOf'[c] = asOf[c]
        /\ \A k \in Keys : /\ held'[c][k] \subseteq held[c][k] \cup Versions(k)'
                           /\ Running(c) => Versions(k)' \subseteq held'[c][k]
    BY <1>6, TrackIs
  <2>2. Follows(c) /\ (Running(c)' => Running(c))
    BY <1>1, <1>6, FollowedBefore
  <2>3. asOf'[c] \in Nat /\ asOf'[c] <= now'
    BY <1>1, <1>2, <2>1, <2>2 DEF HeldInv
  <2>4. ASSUME NEW k \in Keys
        PROVE  /\ Running(c)' => Versions(k)' \subseteq held'[c][k]
               /\ Home[k] = "memory" => \A i \in held'[c][k] \ {None} : OfText(k, i)
    BY <1>1, <1>3, <2>1, <2>2 DEF HeldInv
  <2> QED
    BY <2>3, <2>4 DEF HeldInv
<1> QED
  BY <1>4, <1>5, <1>6

\* What was wanted, or found, stays so while more is held.
Grows(c) ==
  /\ UNCHANGED index /\ query'[c] = query[c] /\ asOf'[c] = asOf[c]
  /\ \A k \in Keys : held[c][k] \subseteq held'[c][k]

\* Admitted matches stay so, and found results.
LEMMA GrowthKeeps ==
  ASSUME NEW c \in Clients, Grows(c)
  PROVE  /\ \A m \in Match : Admitted(c, m) => Admitted(c, m)'
         /\ \A r \in Result : Found(c, r) => Found(c, r)'
<1>1. ASSUME NEW m \in Match, Admitted(c, m) PROVE Admitted(c, m)'
  <2>1. m.key \in Keys
    BY DEF Match
  <2> QED
    BY <1>1, <2>1 DEF Admitted, Grows
<1>2. ASSUME NEW r \in Result, Found(c, r) PROVE Found(c, r)'
  <2>1. r.key \in Keys
    BY DEF Result
  <2>2. /\ UNCHANGED index /\ query'[c] = query[c] /\ asOf'[c] = asOf[c]
        /\ held[c][r.key] \subseteq held'[c][r.key]
    BY <2>1 DEF Grows
  <2>3. PICK i \in held[c][r.key] \ {None} :
          /\ i.score = r.score /\ CarriedMeta(i) = r.meta
          /\ query[c].filter # None => i.meta # None /\ query[c].filter \subseteq i.meta
          /\ "exp" \in index.carries => ~Lapsed(i, asOf[c])
    BY <1>2 DEF Found
  <2>4. /\ i \in held'[c][r.key] \ {None} /\ i.score = r.score /\ CarriedMeta(i)' = r.meta
        /\ query'[c].filter # None => i.meta # None /\ query'[c].filter \subseteq i.meta
        /\ "exp" \in index'.carries => ~Lapsed(i, asOf'[c])
    BY <2>2, <2>3 DEF CarriedMeta
  <2>5. r.data # None =>
          \E j \in held'[c][r.key] \ {None} :
            /\ j.data = r.data
            /\ ~Lapsed(j, asOf'[c]) \/ (index'.carries \cap {"data", "exp"} = {"data"} /\ ~j.big)
    BY <1>2, <2>2 DEF Found
  <2>6. InScope(query'[c], r.key)
    BY <1>2, <2>2 DEF Found
  <2> QED
    BY <2>4, <2>5, <2>6 DEF Found, CarriedMeta
<1> QED
  BY <1>1, <1>2

\* A result that a turn of the loop adds stands for what could be served.
LEMMA TakeFinds ==
  ASSUME SearchInv, NEW c \in Clients, phase[c] = "matches", NEW m \in Match,
         m \in Listed(todo[c]), ~Dropped(m), NEW d \in Hydrated(query[c], m)
  PROVE  Found(c, ResultOf(m, d))
<1>1. /\ TableInv /\ CallInv /\ HeldInv(c) /\ Admitted(c, m) /\ index \in Index
      /\ now \in Nat /\ Follows(c) /\ Running(c)
  BY DEF SearchInv, TableInv, TableTypes, Collected, Follows, Running, Ended
<1>2. /\ m.key \in Keys /\ m.item \in Item /\ Versions(m.key) \subseteq held[c][m.key]
      /\ m.item \in held[c][m.key] \ {None}
      /\ asOf[c] \in Nat /\ asOf[c] <= now
  BY <1>1 DEF Match, HeldInv, Admitted
<1>3. "exp" \in index.carries => ~Lapsed(m.item, asOf[c])
  <2>1. CASE index.adapter /\ "exp" \in index.carries
    <3>1. ~Lapsed(m.item, now)
      BY <2>1 DEF Dropped, SeenLapsed
    <3> QED
      BY <1>2, <1>1, <3>1, NotLapsedBefore
  <2> QED
    BY <1>1, <2>1 DEF Admitted
<1>4. ASSUME d # None
      PROVE  \E i \in held[c][m.key] \ {None} :
               /\ i.data = d
               /\ \/ ~Lapsed(i, asOf[c])
                  \/ index.carries \cap {"data", "exp"} = {"data"} /\ ~i.big
  <2>1. CASE query[c].values /\ ReadBack(query[c], m)
    <3>1. d \in Readings(m.key)
      BY <2>1 DEF Hydrated
    <3>2. PICK i \in Versions(m.key) \ {None} : i.data = d /\ ~Lapsed(i, now)
      BY <1>1, <1>2, <1>4, <3>1, ReadingIs
    <3>3. i \in Item
      BY <1>1, <1>2 DEF TableInv, TableTypes, Versions
    <3>4. ~Lapsed(i, asOf[c])
      BY <1>1, <1>2, <3>2, <3>3, NotLapsedBefore
    <3> QED
      BY <1>2, <3>2, <3>4
  <2>2. CASE query[c].values /\ ~ReadBack(query[c], m)
    <3>1. d = m.item.data /\ ~m.item.big /\ "data" \in index.carries
      BY <2>2 DEF Hydrated, ReadBack
    <3>2. ~Lapsed(m.item, asOf[c]) \/ index.carries \cap {"data", "exp"} = {"data"}
      BY <1>3, <3>1
    <3> QED
      BY <1>2, <3>1, <3>2
  <2>3. query[c].values
    BY <1>4 DEF Hydrated
  <2> QED
    BY <2>1, <2>2, <2>3
<1> DEFINE r == ResultOf(m, d)
<1>5. /\ r.key = m.key /\ r.score = m.item.score /\ r.meta = CarriedMeta(m.item) /\ r.data = d
  BY DEF ResultOf
<1> HIDE DEF r
<1>6. Wants(query[c], m)
  BY <1>1 DEF Admitted
<1>7. Found(c, r)
  BY <1>2, <1>3, <1>4, <1>5, <1>6 DEF Found, Wants
<1> QED
  BY <1>7 DEF r

\* The empty sequence.
LEMMA NothingListed ==
  /\ Listed(<<>>) = {} /\ OneEach(<<>>)
BY DEF Listed, OneEach

\* What a search collects stays among what was served.
LEMMA CollectedSteps ==
  ASSUME SearchInv, Next, Track, NEW c \in Clients
  PROVE  Collected(c)'
<1>1. /\ TableInv /\ TableTypes /\ CallInv /\ CallTypes /\ InPhase(c) /\ HeldInv(c) /\ Collected(c)
      /\ now \in Nat
  BY DEF SearchInv, TableInv, TableTypes, CallInv
<1>2. UNCHANGED index /\ CallInv' /\ CallTypes' /\ InPhase(c)'
  BY <1>1, StepTable, StepCalls DEF CallInv
<1>3. /\ todo[c] \in Seq(Match) /\ results[c] \in Seq(Result)
      /\ \A m \in Listed(todo[c]) : m \in Match
      /\ \A r \in Listed(results[c]) : r \in Result
  <2>1. todo[c] \in Seq(Match) /\ results[c] \in Seq(Result)
    BY <1>1 DEF CallTypes
  <2> QED
    BY <2>1 DEF Listed
<1>4. ASSUME todo'[c] = <<>>, results'[c] = <<>> PROVE Collected(c)'
  BY <1>4, NothingListed DEF Collected
<1>5. ASSUME Follows(c)', ~Starts(c), query'[c] = query[c] PROVE Grows(c)
  BY <1>2, <1>5, TrackIs DEF Grows
<1>6. CASE Waits(c)
  <2>1. CASE ~Follows(c)'
    <3>1. todo'[c] = <<>> /\ results'[c] = <<>>
      BY <1>2, <2>1 DEF InPhase, Follows
    <3> QED
      BY <1>4, <3>1
  <2>2. CASE Follows(c)'
    <3>1. Grows(c)
      BY <1>5, <1>6, <2>2 DEF Waits, Starts
    <3>2. todo'[c] = todo[c] /\ results'[c] = results[c]
      BY <1>6 DEF Waits
    <3> QED
      BY <1>1, <1>3, <3>1, <3>2, GrowthKeeps DEF Collected
  <2> QED
    BY <2>1, <2>2
<1>7. CASE SearchVectors(c) /\ UNCHANGED adding
  <2>1. /\ OneEach(todo'[c])
        /\ \A m \in Listed(todo'[c]) :
             /\ m.item \in Versions(m.key) \ {None} /\ Wants(query[c], m)
             /\ ~index.adapter /\ "exp" \in index.carries => ~Lapsed(m.item, now)
    BY <1>1, <1>7, ReplyKeeps
  <2>2. /\ phase[c] = "query" /\ query'[c] = query[c] /\ results'[c] = results[c]
        /\ phase'[c] \in {"done", "matches"}
    BY <1>1, <1>7 DEF SearchVectors, CallTypes
  <2>3. Follows(c) /\ Running(c) /\ Follows(c)' /\ ~Starts(c) /\ results'[c] = <<>>
    BY <1>1, <2>2 DEF Follows, Running, Ended, Starts, InPhase
  <2>4. Grows(c) /\ asOf[c] \in Nat /\ asOf[c] <= now
    BY <1>1, <1>5, <2>2, <2>3 DEF HeldInv
  <2>5. ASSUME NEW m \in Listed(todo'[c]) PROVE Admitted(c, m)'
    <3>1. m \in Match
      BY <1>2 DEF CallTypes, Listed
    <3>2. m.key \in Keys /\ m.item \in Item
      BY <3>1 DEF Match
    <3>3. m.item \in held[c][m.key] \ {None}
      BY <1>1, <2>1, <2>3, <3>2 DEF HeldInv
    <3>4. ~index.adapter /\ "exp" \in index.carries => ~Lapsed(m.item, asOf[c])
      BY <1>1, <2>1, <2>4, <3>2, NotLapsedBefore
    <3>5. Admitted(c, m)
      BY <2>1, <3>3, <3>4 DEF Admitted
    <3> QED
      BY <2>4, <3>1, <3>5, GrowthKeeps
  <2> QED
    BY <2>1, <2>3, <2>5, NothingListed DEF Collected
<1>8. CASE TakeMatch(c) /\ UNCHANGED adding
  <2> DEFINE s == todo[c]
             t == results[c]
             m == Head(s)
  <2>1. /\ s \in Seq(Match) /\ s # <<>> /\ t \in Seq(Result) /\ todo'[c] = Tail(s)
        /\ phase'[c] = IF Len(s) = 1 THEN "done" ELSE "matches"
        /\ \/ Dropped(m) /\ results'[c] = t
           \/ /\ ~Dropped(m)
              /\ \E d \in Hydrated(query[c], m) : results'[c] = Append(t, ResultOf(m, d))
    BY <1>1, <1>8, TakeIs
  <2>2. /\ m \in Match /\ m \in Listed(s) /\ Listed(Tail(s)) \subseteq Listed(s)
        /\ OneEach(Tail(s)) /\ \A x \in Listed(Tail(s)) : x.key # m.key
    BY <1>1, <2>1, Takes DEF Collected
  <2>3. phase[c] = "matches" /\ query'[c] = query[c]
    BY <1>8 DEF TakeMatch
  <2>4. Grows(c)
    <3>1. Running(c) /\ Follows(c)'
      BY <2>1, <2>3 DEF Running, Ended, Follows
    <3> QED
      BY <1>5, <2>3, <3>1 DEF Starts
  <2> HIDE DEF m
  <2>5. /\ \A x \in Listed(s) : Admitted(c, x) /\ \A r \in Listed(t) : x.key # r.key
        /\ \A r \in Listed(t) : Found(c, r)
        /\ OneEach(t)
    BY <1>1 DEF Collected
  <2>6. \A x \in Listed(Tail(s)) : Admitted(c, x)'
    BY <1>3, <2>2, <2>4, <2>5, GrowthKeeps
  <2>7. \A r \in Listed(t) : Found(c, r)'
    BY <1>3, <2>4, <2>5, GrowthKeeps
  <2>8. CASE results'[c] = t
    BY <2>1, <2>2, <2>5, <2>6, <2>7, <2>8 DEF Collected
  <2>9. ASSUME ~Dropped(m), NEW d \in Hydrated(query[c], m),
               results'[c] = Append(t, ResultOf(m, d))
        PROVE  Collected(c)'
    <3>0. PICK r \in Result : r = ResultOf(m, d)
      BY <1>1, <2>2, ResultIs
    <3>1. r.key = m.key
      BY <3>0 DEF ResultOf
    <3>2. Found(c, r)
      BY <2>2, <2>3, <2>9, <3>0, TakeFinds
    <3>3. Found(c, r)'
      BY <2>4, <3>1, <3>2, GrowthKeeps
    <3>4. \A x \in Listed(t) : x.key # r.key
      BY <2>2, <2>5, <3>1
    <3>5. results'[c] = Append(t, r)
      BY <2>9, <3>0
    <3>6. Listed(Append(t, r)) = Listed(t) \cup {r} /\ OneEach(Append(t, r))
      BY <2>1, <2>5, <3>1, <3>4, Appends
    <3>7. \A x \in Listed(results'[c]) : Found(c, x)'
      BY <2>7, <3>3, <3>5, <3>6
    <3>8. \A x \in Listed(Tail(s)), y \in Listed(results'[c]) : x.key # y.key
      BY <2>2, <2>5, <3>1, <3>5, <3>6
    <3> QED
      BY <2>1, <2>2, <2>6, <3>5, <3>6, <3>7, <3>8 DEF Collected
  <2> QED
    BY <2>1, <2>8, <2>9
<1> QED
  BY <1>1, <1>4, <1>6, <1>7, <1>8, ClientSteps DEF Begins
-----------------------------------------------------------------------------
(* The beginning, and the theorems.                                        *)

\* The table at the beginning, with memories of earlier processes.
LEMMA InitTable ==
  ASSUME Init
  PROVE  TableInv
<1>1. PICK stored \in Before, meta \in Metas :
        item = [k \in Keys |->
          IF \E t \in stored : KeyOf[t] = k
          THEN Stored(Memory(CHOOSE t \in stored : KeyOf[t] = k, Storable(meta)))
          ELSE None]
  BY DEF Init
<1>2. /\ past = [k \in Keys |-> {}] /\ index \in Index /\ now = 0 /\ now \in Nat
      /\ stored \subseteq Texts
  BY SearchAssumption, MemoryAssumption DEF Init, SearchInit
<1>3. ASSUME NEW k \in Keys, item[k] # None
      PROVE  /\ item[k] \in Item /\ OfText(k, item[k])
             /\ Ttl # None => Ttl \in Nat /\ item[k].exp = now + Ttl
  <2>1. \E t \in stored : KeyOf[t] = k
    BY <1>1, <1>3
  <2> DEFINE text == CHOOSE t \in stored : KeyOf[t] = k
             m == Storable(meta)
  <2>2. text \in Texts /\ KeyOf[text] = k
    BY <1>2, <2>1
  <2>3. m \in (SUBSET Tags) \cup {None} /\ (m # None => m \cap Unstorable = {})
    BY StorableIs
  <2>4. item[k] = Stored(Memory(text, m))
    BY <1>1, <2>1
  <2> HIDE DEF text, m
  <2>5. Memory(text, m) \in Content /\ OfText(k, Stored(Memory(text, m)))
    BY <1>2, <2>2, <2>3, MemoryIs
  <2> QED
    BY <1>2, <2>4, <2>5, StoredIs
<1>4. TableTypes
  <2>1. DOMAIN item = Keys /\ item = [k \in Keys |-> item[k]]
    BY <1>1
  <2>2. \A k \in Keys : item[k] \in Item \cup {None}
    BY <1>3
  <2> QED
    BY <1>2, <2>1, <2>2 DEF TableTypes
<1>5. ASSUME NEW k \in Keys PROVE VersionsOf(k)
  <2>1. \A i \in Versions(k) \ {None} : i = item[k]
    BY <1>2 DEF Versions
  <2>2. ASSUME item[k] # None
        PROVE  /\ OfText(k, item[k])
               /\ Ttl # None => /\ item[k].exp \in Nat /\ item[k].exp <= now + Ttl
                                /\ item[k].exp <= item[k].exp
    BY <1>2, <1>3, <2>2
  <2> QED
    BY <2>1, <2>2 DEF VersionsOf
<1> QED
  BY <1>4, <1>5 DEF TableInv

\* No search runs at the beginning.
LEMMA InitSearches ==
  ASSUME HInit
  PROVE  SearchInv
<1>1. TableInv
  BY InitTable DEF HInit
<1>2. /\ phase = [c \in Clients |-> "idle"] /\ query = [c \in Clients |-> NoQuery]
      /\ todo = [c \in Clients |-> <<>>] /\ results = [c \in Clients |-> <<>>]
      /\ adding = [c \in Clients |-> NoAdd]
      /\ held = [c \in Clients |-> [k \in Keys |-> {}]]
  BY DEF HInit, Init, SearchInit
<1>3. CallTypes
  <2>1. NoAdd \in Adding
    BY DEF NoAdd, Adding
  <2> QED
    BY <1>2, <2>1, NoQueryIs DEF CallTypes, Phases
<1>4. ASSUME NEW c \in Clients PROVE InPhase(c)
  <2>1. Len(results[c]) + Len(todo[c]) <= query[c].limit
    BY <1>2 DEF NoQuery
  <2> QED
    BY <1>2, <2>1 DEF InPhase, Searching, NoAdd
<1>5. ASSUME NEW c \in Clients PROVE HeldInv(c)
  BY <1>2 DEF HeldInv, Follows
<1>6. ASSUME NEW c \in Clients PROVE Collected(c)
  BY <1>2, NothingListed DEF Collected
<1> QED
  BY <1>1, <1>3, <1>4, <1>5, <1>6 DEF SearchInv, CallInv

\* Every step keeps what searches have collected.
LEMMA SearchSteps ==
  ASSUME SearchInv, [HNext]_hvars
  PROVE  SearchInv'
<1>1. CASE HNext
  <2>1. Next /\ Track /\ TableInv /\ CallInv
    BY <1>1 DEF HNext, SearchInv
  <2>2. TableInv' /\ CallInv'
    BY <2>1, StepTable, StepCalls
  <2>3. \A c \in Clients : HeldInv(c)' /\ Collected(c)'
    BY <2>1, HeldSteps, CollectedSteps
  <2> QED
    BY <2>2, <2>3 DEF SearchInv
<1>2. CASE UNCHANGED hvars
  <2>1. [Next]_mvars /\ UNCHANGED <<table, now, query, todo, results, index>>
    BY <1>2 DEF hvars, mvars, vars, table, search
  <2>2. TableInv' /\ CallInv'
    BY <2>1, StepTable, StepCalls DEF SearchInv
  <2>3. /\ held' = held /\ asOf' = asOf /\ now' = now /\ phase' = phase /\ item' = item
        /\ past' = past /\ query' = query /\ todo' = todo /\ results' = results /\ index' = index
    BY <1>2 DEF hvars, mvars, vars, table, search
  <2>4. ASSUME NEW c \in Clients PROVE HeldInv(c)'
    BY <2>3 DEF SearchInv, HeldInv, Follows, Running, Versions
  <2>5. ASSUME NEW c \in Clients PROVE Collected(c)'
    <3>1. Collected(c)
      BY DEF SearchInv
    <3>2. \A m : Admitted(c, m) => Admitted(c, m)'
      BY <2>3 DEF Admitted
    <3>3. \A r : Found(c, r) => Found(c, r)'
      BY <2>3 DEF Found, CarriedMeta
    <3> QED
      BY <2>3, <3>1, <3>2, <3>3 DEF Collected
  <2> QED
    BY <2>2, <2>4, <2>5 DEF SearchInv
<1> QED
  BY <1>1, <1>2

\* Searches collect what they found, whatever else goes on: the invariant that
\* the other theorems follow from.
THEOREM SearchesCollect == HSpec => []SearchInv
<1>1. HInit => SearchInv
  BY InitSearches
<1>2. SearchInv /\ [HNext]_hvars => SearchInv'
  BY SearchSteps
<1> QED
  BY <1>1, <1>2, PTL DEF HSpec

\* The results of a search, listed.
LEMMA Results ==
  ASSUME SearchInv, NEW c \in Clients
  PROVE  /\ {results[c][i] : i \in DOMAIN results[c]} = Listed(results[c])
         /\ \A r \in Listed(results[c]) : r \in Result /\ Found(c, r)
         /\ OneEach(results[c])
<1>1. results[c] \in Seq(Result) /\ Collected(c)
  BY DEF SearchInv, CallInv, CallTypes
<1>2. DOMAIN results[c] = 1..Len(results[c])
  BY <1>1
<1> QED
  BY <1>1, <1>2 DEF Listed, Collected

\* The values of every variable: no search collects more than its limit, and it
\* loops exactly while matches are left.
THEOREM SearchesWellTyped == HSpec => []TypeOK
<1>1. ASSUME SearchInv PROVE TypeOK
  <2>1. TableTypes /\ CallTypes /\ \A c \in Clients : InPhase(c)
    BY <1>1 DEF SearchInv, TableInv, CallInv
  <2>2. ASSUME NEW c \in Clients
        PROVE  /\ query[c] \in Query
               /\ phase[c] \in {"query", "matches"} => index.adapter \/ query[c].limit \in 1..MaxTopK
               /\ Len(results[c]) + Len(todo[c]) <= query[c].limit
               /\ phase[c] = "matches" <=> todo[c] # <<>> /\ phase[c] # "failed"
               /\ phase[c] = "write" => adding[c].text \in Texts
    BY <2>1 DEF CallTypes, InPhase, Searching
  <2> QED
    BY <2>1, <2>2 DEF TypeOK, TableTypes
<1> QED
  BY <1>1, SearchesCollect, PTL

\* Every result of a search lies in its scope, and stands for a version that was
\* served while it ran, with the bytes of one.
THEOREM ResultsAreServed == HSpec => []ResultsWereThere
<1>1. ASSUME SearchInv PROVE ResultsWereThere
  <2> SUFFICES ASSUME NEW c \in Clients,
                      NEW r \in {results[c][i] : i \in DOMAIN results[c]}
               PROVE  /\ Home[r.key] # "elsewhere"
                      /\ query[c].prefix => Home[r.key] = "memory"
                      /\ \E i \in held[c][r.key] \ {None} :
                           /\ i.score = r.score /\ CarriedMeta(i) = r.meta
                           /\ query[c].filter # None =>
                                i.meta # None /\ query[c].filter \subseteq i.meta
                      /\ r.data # None => \E i \in held[c][r.key] \ {None} : i.data = r.data
    BY DEF ResultsWereThere
  <2>1. Found(c, r)
    BY <1>1, Results
  <2> QED
    BY <2>1 DEF Found, InScope
<1> QED
  BY <1>1, SearchesCollect, PTL

\* No result stands for a version that had lapsed when the search began, nor has
\* the bytes of one, as far as what the matches carry allows search to tell.
THEOREM LapsedStayHidden == HSpec => []LapsedNotFound
<1>1. ASSUME SearchInv PROVE LapsedNotFound
  <2> SUFFICES ASSUME NEW c \in Clients,
                      NEW r \in {results[c][n] : n \in DOMAIN results[c]}
               PROVE  /\ "exp" \in index.carries =>
                           \E i \in held[c][r.key] \ {None} :
                             /\ i.score = r.score /\ CarriedMeta(i) = r.meta
                             /\ ~Lapsed(i, asOf[c])
                      /\ r.data # None =>
                           \E i \in held[c][r.key] \ {None} :
                             /\ i.data = r.data
                             /\ \/ ~Lapsed(i, asOf[c])
                                \/ (index.carries \cap {"data", "exp"} = {"data"} /\ ~i.big)
    BY DEF LapsedNotFound
  <2>1. Found(c, r)
    BY <1>1, Results
  <2> QED
    BY <2>1 DEF Found
<1> QED
  BY <1>1, SearchesCollect, PTL

\* An entry of a memory search has the text of its key and of its score, and no
\* text comes twice, whatever adds, deletes and searches overlap.
THEOREM EntriesKeepTheirTexts == HSpec => []EntriesAreTheirTexts
<1>1. ASSUME SearchInv PROVE EntriesAreTheirTexts
  <2> SUFFICES ASSUME NEW c \in Clients, query[c].prefix
               PROVE  /\ \A e \in Entries(c) :
                           /\ e.data \in Texts
                           /\ e.key = KeyOf[e.data] /\ e.score = ScoreOf[e.data]
                           /\ e.meta # None => e.meta \cap Unstorable = {}
                      /\ \A d, e \in Entries(c) : d.data = e.data => d = e
    BY DEF EntriesAreTheirTexts
  <2>1. Entries(c) = {r \in Listed(results[c]) : r.data # None}
    BY <1>1, Results DEF Entries
  <2>2. ASSUME NEW e \in Entries(c)
        PROVE  /\ e.data \in Texts
               /\ e.key = KeyOf[e.data] /\ e.score = ScoreOf[e.data]
               /\ e.meta # None => e.meta \cap Unstorable = {}
    <3>1. e \in Result /\ Found(c, e) /\ e.data # None
      BY <1>1, <2>1, Results
    <3>2. e.key \in Keys /\ Home[e.key] = "memory"
      BY <3>1 DEF Result, Found, InScope
    <3>3. \A i \in held[c][e.key] \ {None} : OfText(e.key, i)
      BY <1>1, <3>2 DEF SearchInv, HeldInv
    <3>4. PICK i \in held[c][e.key] \ {None} : i.score = e.score /\ CarriedMeta(i) = e.meta
      BY <3>1 DEF Found
    <3>5. PICK j \in held[c][e.key] \ {None} : j.data = e.data
      BY <3>1 DEF Found
    <3>6. i.data = j.data
      BY <3>3, MemoryAssumption DEF OfText
    <3> QED
      BY <3>3, <3>4, <3>5, <3>6 DEF OfText, CarriedMeta
  <2>3. ASSUME NEW d \in Entries(c), NEW e \in Entries(c), d.data = e.data PROVE d = e
    <3>1. d.key = e.key
      BY <2>2, <2>3
    <3> QED
      BY <1>1, <2>1, <3>1, Results DEF Listed, OneEach
  <2> QED
    BY <2>2, <2>3
<1> QED
  BY <1>1, SearchesCollect, PTL

-----------------------------------------------------------------------------
(* What a search misses.                                                   *)

\* What MissedOnlyForCloser speaks of, for a table at that nothing changes.
Indexed(at) == {k \in Keys : at[k] # None /\ at[k].score # None}

Passing(at, q) == {k \in Indexed(at) : MatchesFilter(at[k].meta, q.filter)}

Living(x, at, q, time) ==
  {k \in Passing(at, q) : ~("exp" \in x.carries /\ Lapsed(at[k], time))}

Closer(at, k, rows) == {j \in rows \ {k} : at[j].score <= at[k].score}

Missing(x, at, q, time, k) ==
  IF x.adapter THEN Cardinality(Closer(at, k, Passing(at, q))) >= q.limit
  ELSE \/ Cardinality(Closer(at, k, Living(x, at, q, time))) >= q.limit
       \/ Cardinality(Closer(at, k, Indexed(at)))
            >= q.limit * (IF q.filter = None THEN 1 ELSE Overfetch)
       \/ Cardinality(Closer(at, k, Indexed(at))) >= MaxTopK
       \/ q.filter # None /\ "meta" \notin x.carries

\* A search that has, or has still to come to, these keys misses no other but
\* for closer ones.
Complete(x, at, q, time, keys) ==
  \A k \in Living(x, at, q, time) : InScope(q, k) => k \in keys \/ Missing(x, at, q, time, k)

\* The keys of matches or results.
KeysOf(s) == {m.key : m \in Listed(s)}

\* Matches come in the order of their scores.
InOrder(s) == \A i, j \in 1..Len(s) : i < j => s[i].item.score <= s[j].item.score

\* The matches before one in a sequence are at least as many as their keys.
LEMMA CountBefore ==
  ASSUME NEW s \in Seq(Match), OneEach(s), InOrder(s), NEW p \in 1..Len(s),
         NEW at, NEW rows \in SUBSET Keys,
         \A i \in 1..p : s[i].key \in rows /\ s[i].item = at[s[i].key]
  PROVE  /\ Cardinality(Closer(at, s[p].key, rows)) \in Nat
         /\ p - 1 <= Cardinality(Closer(at, s[p].key, rows))
<1> DEFINE C == Closer(at, s[p].key, rows)
           D == 1..(p - 1)
           f == [i \in D |-> s[i].key]
<1>1. IsFiniteSet(C)
  <2>1. C \subseteq Keys
    BY DEF Closer
  <2> HIDE DEF C
  <2> QED
    BY <2>1, SearchAssumption, FS_Subset
<1>2. p \in Nat /\ p - 1 \in Nat /\ \A i \in D : i \in 1..Len(s) /\ i \in 1..p /\ i < p /\ i # p
  OBVIOUS
<1>3. p \in 1..p
  BY <1>2
<1>4. \A i \in D : s[i].key \in C
  <2> SUFFICES ASSUME NEW i \in D PROVE s[i].key \in C
    OBVIOUS
  <2>1. s[i].key # s[p].key
    BY <1>2 DEF OneEach
  <2>2. s[i].item.score <= s[p].item.score
    BY <1>2 DEF InOrder
  <2>3. s[i].item = at[s[i].key] /\ s[p].item = at[s[p].key] /\ s[i].key \in rows
    BY <1>2, <1>3
  <2> QED
    BY <2>1, <2>2, <2>3 DEF Closer
<1>5. \A i, j \in D : s[i].key = s[j].key => i = j
  BY <1>2 DEF OneEach
<1> HIDE DEF C
<1>6. f \in Injection(D, C)
  BY <1>4, <1>5 DEF Injection, IsInjective
<1>7. Cardinality(D) <= Cardinality(C)
  <2> HIDE DEF D, f
  <2> QED
    BY <1>1, <1>6, FS_Injection
<1>8. Cardinality(D) = p - 1
  <2> DEFINE l == p - 1
  <2>1. l \in Nat
    BY <1>2
  <2> HIDE DEF l
  <2>2. Cardinality(1..l) = IF 1 > l THEN 0 ELSE l - 1 + 1
    BY <2>1, FS_Interval
  <2>3. Cardinality(1..l) = l
    BY <2>1, <2>2
  <2> QED
    BY <2>3 DEF l
<1> QED
  BY <1>1, <1>7, <1>8, FS_CardinalityType DEF C

\* What is kept of a sequence in order is in order.
LEMMA KeptInOrder ==
  ASSUME NEW s \in Seq(Match), InOrder(s), NEW S
  PROVE  InOrder(Kept(s, S))
<1> DEFINE k == Kept(s, S)
<1>1. PICK f \in [1..Len(k) -> 1..Len(s)] :
              /\ \A i \in 1..Len(k) : k[i] = s[f[i]]
              /\ \A i, j \in 1..Len(k) : i < j => f[i] < f[j]
  BY KeptPlaces
<1> HIDE DEF k
<1>2. ASSUME NEW i \in 1..Len(k), NEW j \in 1..Len(k), i < j
      PROVE  k[i].item.score <= k[j].item.score
  <2>1. f[i] \in 1..Len(s) /\ f[j] \in 1..Len(s) /\ f[i] < f[j]
    BY <1>1, <1>2
  <2>2. s[f[i]].item.score <= s[f[j]].item.score
    BY <2>1 DEF InOrder
  <2> QED
    BY <1>1, <2>2
<1> QED
  BY <1>2 DEF InOrder, k

\* An element of a sequence is among the first n, or comes after n others.
LEMMA AmongFirst ==
  ASSUME NEW T, NEW s \in Seq(T), NEW n \in Nat, NEW p \in 1..Len(s)
  PROVE  s[p] \in Listed(FirstN(s, n)) \/ n <= p - 1
<1> DEFINE m == IF Len(s) < n THEN Len(s) ELSE n
           k == FirstN(s, n)
<1>1. m \in Nat /\ m <= Len(s) /\ Len(s) \in Nat /\ p \in Nat /\ (n <= p - 1 \/ p <= m) /\ 1 <= p
  OBVIOUS
<1>2. k = SubSeq(s, 1, m)
  BY DEF FirstN
<1> HIDE DEF m, k
<1>3. k \in Seq(T) /\ Len(k) = m /\ \A i \in 1..m : k[i] = s[i]
  BY <1>1, <1>2
<1>4. ASSUME p <= m PROVE s[p] \in Listed(k)
  <2>1. p \in 1..Len(k) /\ k[p] = s[p]
    BY <1>1, <1>3, <1>4
  <2> QED
    BY <2>1 DEF Listed
<1> QED
  BY <1>1, <1>4 DEF k

\* When no replica lags, a reply is the indexed rows in the order of scores.
LEMMA ReplyWhole ==
  ASSUME TableTypes, \A k \in Keys : past[k] = {}, NEW reply \in Replies
  PROVE  /\ reply \in Seq(Match) /\ OneEach(reply) /\ InOrder(reply)
         /\ \A m \in Listed(reply) : m.key \in Indexed(item) /\ m.item = item[m.key]
         /\ \A k \in Indexed(item) : [key |-> k, item |-> item[k]] \in Listed(reply)
<1>1. PICK h \in [Keys -> UNION {Versions(k) : k \in Keys}] :
           /\ \A k \in Keys : h[k] \in Versions(k)
           /\ reply \in SetToSeqs({[key |-> k, item |-> h[k]] :
                                     k \in {j \in Keys : h[j] # None /\ h[j].score # None}})
  BY DEF Replies
<1> DEFINE K == Indexed(item)
           S == {[key |-> k, item |-> item[k]] : k \in K}
           f == [k \in K |-> [key |-> k, item |-> item[k]]]
<1>2. \A k \in Keys : h[k] = item[k]
  BY <1>1 DEF Versions
<1>3. reply \in SetToSeqs(S)
  <2>1. {j \in Keys : h[j] # None /\ h[j].score # None} = K
    BY <1>2 DEF Indexed
  <2>2. K \subseteq Keys
    BY DEF Indexed
  <2> HIDE DEF K
  <2>3. {[key |-> k, item |-> h[k]] : k \in K} = S
    BY <1>2, <2>2
  <2> QED
    BY <1>1, <2>1, <2>3
<1>4. reply \in Seq(Match) /\ OneEach(reply)
  BY ReplyIs
<1>5. InOrder(reply)
  <2>1. \A i, j \in DOMAIN reply : i < j => reply[i].item.score <= reply[j].item.score
    BY DEF Replies
  <2>2. DOMAIN reply = 1..Len(reply)
    BY <1>4
  <2> QED
    BY <2>1, <2>2 DEF InOrder
<1>6. IsFiniteSet(S)
  <2>1. IsFiniteSet(K)
    BY SearchAssumption, FS_Subset DEF Indexed
  <2>2. f \in Surjection(K, S)
    BY DEF Surjection
  <2> HIDE DEF K, S, f
  <2> QED
    BY <2>1, <2>2, FS_Surjection
<1> DEFINE n == Cardinality(S)
<1>7. n \in Nat
  <2> HIDE DEF S
  <2> QED
    BY <1>6, FS_CardinalityType
<1>8. reply \in [1..n -> S] /\ \A i, j \in 1..n : i # j => reply[i] # reply[j]
  BY <1>3 DEF SetToSeqs
<1>9. Len(reply) = n
  <2> HIDE DEF n, S
  <2> QED
    BY <1>4, <1>7, <1>8
<1>10. \A m \in S : m \in Listed(reply)
  <2> HIDE DEF S
  <2>1. reply \in Injection(1..n, S)
    BY <1>8 DEF Injection, IsInjective
  <2>2. Cardinality(1..n) = n
    <3> HIDE DEF n
    <3>1. Cardinality(1..n) = IF 1 > n THEN 0 ELSE n - 1 + 1
      BY <1>7, FS_Interval
    <3> QED
      BY <1>7, <3>1
  <2>3. reply \in Surjection(1..n, S)
    <3> DEFINE D == 1..n
    <3> HIDE DEF D
    <3>1. reply \in Injection(D, S) /\ Cardinality(D) = Cardinality(S)
      BY <2>1, <2>2 DEF D
    <3>2. reply \in Surjection(D, S)
      BY <1>6, <3>1, FS_Injection
    <3> QED
      BY <3>2 DEF D
  <2>4. \A m \in S : \E i \in 1..n : reply[i] = m
    BY <2>3 DEF Surjection
  <2> QED
    BY <1>9, <2>4 DEF Listed
<1>11. \A m \in Listed(reply) : m \in S
  <2> HIDE DEF S, n
  <2> QED
    BY <1>8, <1>9 DEF Listed
<1> QED
  BY <1>4, <1>5, <1>10, <1>11

\* What the native loop drops of a reply it drops for closer ones.
LEMMA NativeCatches ==
  ASSUME TableTypes, \A k \in Keys : past[k] = {}, NEW reply \in Replies, NEW q \in Query,
         ~index.adapter
  PROVE  Complete(index, item, q, now, KeysOf(Matches(q, reply)))
<1> DEFINE fetched == FirstN(reply, Fetch(q))
           wanted  == {m \in Range(fetched) : Wanted(q, m.item)}
           kept    == Kept(fetched, wanted)
           native  == FirstN(kept, q.limit)
           ours    == {m \in Range(native) : InScope(q, m.key)}
           L       == Living(index, item, q, now)
           I       == Indexed(item)
<1> SUFFICES ASSUME NEW k \in L, InScope(q, k), ~Missing(index, item, q, now, k)
             PROVE  k \in KeysOf(Matches(q, reply))
  BY DEF Complete
<1> DEFINE m == [key |-> k, item |-> item[k]]
<1>1. q.limit \in Nat /\ Fetch(q) \in Nat
  BY SearchAssumption DEF Query, Fetch
<1>2. /\ reply \in Seq(Match) /\ OneEach(reply) /\ InOrder(reply)
      /\ \A x \in Listed(reply) : x.key \in I /\ x.item = item[x.key]
      /\ \A j \in I : [key |-> j, item |-> item[j]] \in Listed(reply)
  BY ReplyWhole
<1>3. /\ L \subseteq I /\ I \subseteq Keys /\ k \in I /\ m.key = k /\ m.item = item[k]
      /\ MatchesFilter(item[k].meta, q.filter) /\ ~("exp" \in index.carries /\ Lapsed(item[k], now))
  BY DEF Living, Passing, Indexed
<1>4. /\ ~ (Cardinality(Closer(item, k, L)) >= q.limit)
      /\ ~ (Cardinality(Closer(item, k, I))
              >= q.limit * (IF q.filter = None THEN 1 ELSE Overfetch))
      /\ ~ (Cardinality(Closer(item, k, I)) >= MaxTopK)
      /\ q.filter # None => "meta" \in index.carries
  BY DEF Missing
<1>5. Matches(q, reply) = Kept(native, ours)
  BY DEF Matches
<1> HIDE DEF m, L, I
<1>6. fetched \in Seq(Match) /\ Listed(fetched) \subseteq Listed(reply) /\ OneEach(fetched)
  BY <1>1, <1>2, FirstMatches
<1>7. InOrder(fetched)
  <2> DEFINE n == Fetch(q)
             l == IF Len(reply) < n THEN Len(reply) ELSE n
  <2>1. n \in Nat /\ l \in Nat /\ l <= Len(reply)
    BY <1>1, <1>2, LenProperties
  <2>2. fetched = SubSeq(reply, 1, l)
    BY DEF FirstN
  <2> HIDE DEF l, fetched
  <2>3. Len(fetched) = l /\ \A i \in 1..l : fetched[i] = reply[i] /\ i \in 1..Len(reply)
    BY <1>2, <2>1, <2>2
  <2> QED
    BY <1>2, <2>3 DEF InOrder
<1>8. PICK p \in 1..Len(reply) : reply[p] = m
  BY <1>2, <1>3 DEF m, Listed
<1>9. m \in Listed(fetched)
  <2>1. SUFFICES ASSUME Fetch(q) <= p - 1 PROVE FALSE
    BY <1>1, <1>2, <1>8, AmongFirst
  <2>2. \A i \in 1..p : reply[i].key \in I /\ reply[i].item = item[reply[i].key]
    <3>1. \A i \in 1..p : i \in 1..Len(reply)
      BY <1>2, LenProperties
    <3> QED
      BY <1>2, <3>1 DEF Listed
  <2> DEFINE x == Cardinality(Closer(item, k, I))
  <2>3. x \in Nat /\ p - 1 <= x
    <3>1. reply[p].key = k
      BY <1>3, <1>8
    <3>2. /\ Cardinality(Closer(item, reply[p].key, I)) \in Nat
          /\ p - 1 <= Cardinality(Closer(item, reply[p].key, I))
      BY <1>2, <1>3, <2>2, CountBefore
    <3> QED
      BY <3>1, <3>2
  <2> DEFINE y == q.limit * Overfetch
  <2>4. y \in Nat
    BY <1>1, SearchAssumption
  <2>5. Fetch(q) = IF q.filter = None THEN q.limit ELSE IF y < MaxTopK THEN y ELSE MaxTopK
    BY DEF Fetch
  <2>6. q.limit * 1 = q.limit
    BY <1>1
  <2> HIDE DEF x, y
  <2>7. Fetch(q) <= x
    BY <1>1, <2>1, <2>3
  <2>8. ~ (x >= MaxTopK) /\ (q.filter = None => ~ (x >= q.limit)) /\ (q.filter # None => ~ (x >= y))
    BY <1>4, <2>6 DEF x, y
  <2> QED
    BY <1>1, <2>3, <2>4, <2>5, <2>7, <2>8, SearchAssumption
<1> HIDE DEF fetched
<1>10. Range(fetched) = Listed(fetched)
  BY <1>6 DEF Range, Listed
<1>11. m \in wanted
  BY <1>3, <1>4, <1>9, <1>10 DEF Wanted, SeenLapsed, CarriedMeta, MatchesFilter
<1>12. ASSUME NEW x \in wanted
       PROVE  x.key \in L /\ x.item = item[x.key]
  <2>1. x \in Listed(reply) /\ Wanted(q, x.item)
    BY <1>6, <1>10, <1>12
  <2>2. x.key \in I /\ x.item = item[x.key]
    BY <1>2, <2>1
  <2>3. MatchesFilter(item[x.key].meta, q.filter)
    BY <2>1, <2>2 DEF Wanted, CarriedMeta, MatchesFilter
  <2>4. ~("exp" \in index.carries /\ Lapsed(item[x.key], now))
    BY <2>1, <2>2 DEF Wanted, SeenLapsed
  <2> QED
    BY <2>2, <2>3, <2>4 DEF L, I, Living, Passing
<1> HIDE DEF wanted
<1>13. /\ kept \in Seq(Match) /\ Listed(kept) \subseteq Listed(fetched) \cap wanted
       /\ OneEach(kept) /\ InOrder(kept)
  BY <1>6, <1>7, KeptMatches, KeptInOrder
<1>14. PICK r \in 1..Len(kept) : kept[r] = m
  BY <1>6, <1>9, <1>11, KeptAllOfSet DEF Listed
<1> HIDE DEF kept
<1>15. m \in Listed(native)
  <2>1. SUFFICES ASSUME q.limit <= r - 1 PROVE FALSE
    BY <1>1, <1>13, <1>14, AmongFirst
  <2>2. \A i \in 1..r : kept[i].key \in L /\ kept[i].item = item[kept[i].key]
    <3>1. \A i \in 1..r : i \in 1..Len(kept)
      BY <1>13, LenProperties
    <3> QED
      BY <1>12, <1>13, <3>1 DEF Listed
  <2> DEFINE x == Cardinality(Closer(item, k, L))
  <2>3. x \in Nat /\ r - 1 <= x
    <3>1. kept[r].key = k
      BY <1>3, <1>14
    <3>2. /\ Cardinality(Closer(item, kept[r].key, L)) \in Nat
          /\ r - 1 <= Cardinality(Closer(item, kept[r].key, L))
      BY <1>3, <1>13, <2>2, CountBefore
    <3> QED
      BY <3>1, <3>2
  <2>4. ~ (x >= q.limit)
    BY <1>4
  <2> HIDE DEF x
  <2> QED
    BY <1>1, <2>1, <2>3, <2>4
<1>16. native \in Seq(Match)
  BY <1>1, <1>13, FirstMatches
<1> HIDE DEF native
<1>17. Range(native) = Listed(native)
  BY <1>16 DEF Range, Listed
<1>18. m \in ours
  BY <1>3, <1>15, <1>17
<1> HIDE DEF ours
<1>19. m \in Listed(Kept(native, ours))
  BY <1>15, <1>16, <1>18, KeptAllOfSet DEF Listed
<1> QED
  BY <1>3, <1>5, <1>19 DEF KeysOf

\* So does what becomes of an adapter's answer.
LEMMA AdapterCatches ==
  ASSUME TableTypes, \A k \in Keys : past[k] = {}, NEW reply \in Replies, NEW q \in Query,
         index.adapter
  PROVE  Complete(index, item, q, now, KeysOf(AdapterMatches(q, reply)))
<1> DEFINE passing == {x \in Range(reply) : MatchesFilter(x.item.meta, q.filter)}
           kept    == Kept(reply, passing)
           first   == FirstN(kept, q.limit)
           ours    == {x \in Range(first) : InScope(q, x.key)}
           P       == Passing(item, q)
<1> SUFFICES ASSUME NEW k \in Living(index, item, q, now), InScope(q, k),
                    ~Missing(index, item, q, now, k)
             PROVE  k \in KeysOf(AdapterMatches(q, reply))
  BY DEF Complete
<1> DEFINE m == [key |-> k, item |-> item[k]]
<1>1. q.limit \in Nat
  BY DEF Query
<1>2. /\ reply \in Seq(Match) /\ OneEach(reply) /\ InOrder(reply)
      /\ \A x \in Listed(reply) : x.key \in Indexed(item) /\ x.item = item[x.key]
      /\ \A j \in Indexed(item) : [key |-> j, item |-> item[j]] \in Listed(reply)
  BY ReplyWhole
<1>3. /\ P \subseteq Keys /\ k \in Indexed(item) /\ m.key = k /\ m.item = item[k]
      /\ MatchesFilter(item[k].meta, q.filter)
  BY DEF Living, Passing, Indexed
<1>4. ~ (Cardinality(Closer(item, k, P)) >= q.limit)
  BY DEF Missing
<1>5. AdapterMatches(q, reply) = Kept(first, ours)
  BY DEF AdapterMatches
<1>6. Range(reply) = Listed(reply)
  BY <1>2 DEF Range, Listed
<1>7. m \in passing /\ m \in Listed(reply)
  BY <1>2, <1>3, <1>6
<1>8. \A x \in passing : x.key \in P /\ x.item = item[x.key]
  BY <1>2, <1>6 DEF Passing
<1> HIDE DEF passing, P, m
<1>9. /\ kept \in Seq(Match) /\ Listed(kept) \subseteq Listed(reply) \cap passing
      /\ OneEach(kept) /\ InOrder(kept)
  BY <1>2, KeptMatches, KeptInOrder
<1>10. PICK r \in 1..Len(kept) : kept[r] = m
  BY <1>2, <1>7, KeptAllOfSet DEF Listed
<1> HIDE DEF kept
<1>11. m \in Listed(first)
  <2>1. SUFFICES ASSUME q.limit <= r - 1 PROVE FALSE
    BY <1>1, <1>9, <1>10, AmongFirst
  <2>2. \A i \in 1..r : kept[i].key \in P /\ kept[i].item = item[kept[i].key]
    <3>1. \A i \in 1..r : i \in 1..Len(kept)
      BY <1>9, LenProperties
    <3> QED
      BY <1>8, <1>9, <3>1 DEF Listed
  <2> DEFINE x == Cardinality(Closer(item, k, P))
  <2>3. x \in Nat /\ r - 1 <= x
    <3>1. kept[r].key = k
      BY <1>3, <1>10
    <3>2. /\ Cardinality(Closer(item, kept[r].key, P)) \in Nat
          /\ r - 1 <= Cardinality(Closer(item, kept[r].key, P))
      BY <1>3, <1>9, <2>2, CountBefore
    <3> QED
      BY <3>1, <3>2
  <2>4. ~ (x >= q.limit)
    BY <1>4
  <2> HIDE DEF x
  <2> QED
    BY <1>1, <2>1, <2>3, <2>4
<1>12. first \in Seq(Match)
  BY <1>1, <1>9, FirstMatches
<1> HIDE DEF first
<1>13. Range(first) = Listed(first)
  BY <1>12 DEF Range, Listed
<1>14. m \in ours
  BY <1>3, <1>11, <1>13
<1> HIDE DEF ours
<1>15. m \in Listed(Kept(first, ours))
  BY <1>11, <1>12, <1>14, KeptAllOfSet DEF Listed
<1> QED
  BY <1>3, <1>5, <1>15 DEF KeysOf

\* What a search was served of each key, when that was one version.
Table(c) == [k \in Keys |-> CHOOSE i \in held[c][k] : TRUE]

Caught(c) ==
  Complete(index, Table(c), query[c], asOf[c], KeysOf(results[c]) \cup KeysOf(todo[c]))

\* While nothing stirs a search is served one table, and has caught what it
\* wants of it, or will.
SteadyInv(c) ==
  steady[c] =>
    /\ Follows(c)
    /\ Running(c) => asOf[c] = now /\ \A k \in Keys : past[k] = {} /\ held[c][k] = {item[k]}
    /\ phase[c] \in {"matches", "done"} => Caught(c)

CompleteInv == SearchInv /\ \A c \in Clients : SteadyInv(c)

\* What was served is the table.
LEMMA TableIs ==
  ASSUME TableTypes, NEW c, \A k \in Keys : held[c][k] = {item[k]}
  PROVE  Table(c) = item
<1>1. \A k \in Keys : (CHOOSE i \in held[c][k] : TRUE) = item[k]
  OBVIOUS
<1> QED
  BY <1>1 DEF Table, TableTypes

\* How the keys change as the loop goes on.
LEMMA KeysOfSteps ==
  /\ KeysOf(<<>>) = {}
  /\ \A s \in Seq(Match) : s # <<>> => KeysOf(s) = {Head(s).key} \cup KeysOf(Tail(s))
  /\ \A s \in Seq(Result), r \in Result : KeysOf(Append(s, r)) = KeysOf(s) \cup {r.key}
<1>1. KeysOf(<<>>) = {}
  BY NothingListed DEF KeysOf
<1>2. ASSUME NEW s \in Seq(Match), s # <<>>
      PROVE  KeysOf(s) = {Head(s).key} \cup KeysOf(Tail(s))
  <2> DEFINE n == Len(s)
             t == Tail(s)
  <2>1. /\ n \in Nat /\ n # 0 /\ Head(s) = s[1] /\ t \in Seq(Match) /\ Len(t) = n - 1
        /\ \A i \in 1..(n - 1) : t[i] = s[i + 1]
    BY <1>2, EmptySeq, HeadTailProperties
  <2> HIDE DEF n, t
  <2>2. Listed(s) = {s[1]} \cup Listed(t)
    <3>1. ASSUME NEW i \in 1..n PROVE s[i] \in {s[1]} \cup Listed(t)
      <4>1. CASE i = 1
        BY <4>1
      <4>2. CASE i # 1
        <5> DEFINE j == i - 1
        <5>1. j \in 1..(n - 1) /\ j + 1 = i
          BY <2>1, <4>2
        <5> HIDE DEF j
        <5>2. t[j] = s[i] /\ j \in 1..Len(t)
          BY <2>1, <5>1
        <5> QED
          BY <5>2 DEF Listed
      <4> QED
        BY <4>1, <4>2
    <3>2. \A i \in 1..(n - 1) : t[i] = s[i + 1] /\ i + 1 \in 1..n
      BY <2>1
    <3>3. 1 \in 1..n
      BY <2>1
    <3> QED
      BY <2>1, <3>1, <3>2, <3>3 DEF Listed, n
  <2> QED
    BY <2>1, <2>2 DEF KeysOf, t
<1>3. ASSUME NEW s \in Seq(Result), NEW r \in Result
      PROVE  KeysOf(Append(s, r)) = KeysOf(s) \cup {r.key}
  BY Appends DEF KeysOf
<1> QED
  BY <1>1, <1>2, <1>3

\* A search starts in a step that changes nothing else, and has no match yet.
LEMMA StartIsQuiet ==
  ASSUME TableInv, CallInv, Next, NEW c \in Clients, Starts(c)
  PROVE  /\ UNCHANGED <<table, now>>
         /\ phase'[c] \notin {"matches", "done"}
<1>0. CallTypes
  BY DEF CallInv
<1>1. ASSUME NEW d \in Clients, Call(d) PROVE UNCHANGED <<table, now>>
  BY <1>1 DEF Call, BeginSearch, Add, MemorySearch
<1>2. ASSUME NEW d \in Clients, EmbedText(d) \/ EmbedQuery(d) \/ WriteMemory(d) PROVE FALSE
  <2>1. phase[d] \in {"embedText", "embedQuery", "write"}
    BY <1>2 DEF EmbedText, EmbedQuery, WriteMemory
  <2>2. \A e \in Clients : e # d => phase'[e] = phase[e]
    BY <1>0, <1>2 DEF EmbedText, EmbedQuery, WriteMemory, CallTypes
  <2> QED
    BY <1>0, <1>2, <2>1, <2>2 DEF EmbedText, EmbedQuery, WriteMemory, CallTypes,
         Starts, Running, Follows, Ended
<1>3. ASSUME NEW d \in Clients, SearchOn(d) PROVE FALSE
  <2>1. phase[d] \notin Ended
    BY <1>3 DEF SearchOn, SearchVectors, TakeMatch, ReadThrows, CallFails, Ended
  <2>2. \A e \in Clients : e # d => phase'[e] = phase[e]
    BY <1>0, <1>3 DEF SearchOn, SearchVectors, TakeMatch, ReadThrows, CallFails, Fail, CallTypes
  <2> QED
    BY <2>1, <2>2 DEF Starts, Running
<1>4. ASSUME UNCHANGED phase PROVE FALSE
  BY <1>4 DEF Starts, Running
<1>5. ASSUME NEW k \in Keys, NEW content \in Contents, Write(k, content) PROVE UNCHANGED phase
  BY <1>5 DEF Write, Change
<1>6. ASSUME Around PROVE UNCHANGED phase
  BY <1>6 DEF Around, Delete, Change, Reap, CatchUp, Tick
<1>7. UNCHANGED <<table, now>>
  BY <1>1, <1>2, <1>3, <1>4, <1>5, <1>6 DEF Next
<1>8. phase'[c] \notin {"matches", "done"}
  <2>1. ~Running(c) /\ Running(c)' /\ Follows(c)'
    BY DEF Starts
  <2>2. phase'[c] # "done" /\ phase'[c] # "failed" /\ phase[c] \in Ended
    BY <2>1 DEF Running, Ended
  <2>3. Begins(c)
    <3>1. ~Waits(c)
      BY <2>1 DEF Waits
    <3>2. ~SearchVectors(c) /\ ~TakeMatch(c)
      BY <2>2 DEF SearchVectors, TakeMatch, Ended
    <3>3. [Next]_mvars
      OBVIOUS
    <3> QED
      BY <2>2, <3>1, <3>2, <3>3, ClientSteps
  <2>4. InPhase(c)'
    <3>1. CallInv'
      BY StepCalls
    <3> QED
      BY <3>1 DEF CallInv
  <2> QED
    BY <2>2, <2>3, <2>4 DEF Begins, InPhase
<1> QED
  BY <1>7, <1>8

\* What Track says of steady, and of what it keeps of a search that has ended.
LEMMA TrackSteady ==
  ASSUME Track, NEW c \in Clients, steady'[c]
  PROVE  /\ Follows(c)'
         /\ Starts(c) => \A k \in Keys : past[k] = {}
         /\ ~Starts(c) => steady[c] /\ (Running(c) => UNCHANGED <<table, now>>)
         /\ ~Starts(c) /\ ~Running(c) => held'[c] = held[c]
<1>1. steady'[c] = /\ Follows(c)'
                   /\ IF Starts(c) THEN \A k \in Keys : past[k] = {}
                      ELSE IF Running(c) THEN steady[c] /\ UNCHANGED <<table, now>>
                      ELSE steady[c]
  BY DEF Track
<1>2. /\ Follows(c)'
      /\ IF Starts(c) THEN \A k \in Keys : past[k] = {}
         ELSE IF Running(c) THEN steady[c] /\ UNCHANGED <<table, now>>
         ELSE steady[c]
  BY <1>1
<1>3. ~Starts(c) /\ ~Running(c) => held'[c] = held[c]
  BY <1>2 DEF Track
<1> QED
  BY <1>2, <1>3

\* A search that has caught what it wants loses none of it in a turn.
LEMMA TakeCatches ==
  ASSUME SearchInv, NEW c \in Clients, TakeMatch(c),
         asOf[c] = now, \A k \in Keys : held[c][k] = {item[k]},
         Complete(index, item, query[c], now, KeysOf(results[c]) \cup KeysOf(todo[c]))
  PROVE  Complete(index, item, query[c], now, KeysOf(results'[c]) \cup KeysOf(todo'[c]))
<1> DEFINE s == todo[c]
           t == results[c]
           m == Head(s)
<1>1. CallInv /\ Collected(c)
  BY DEF SearchInv
<1>2. /\ s \in Seq(Match) /\ s # <<>> /\ t \in Seq(Result) /\ todo'[c] = Tail(s)
      /\ \/ Dropped(m) /\ results'[c] = t
         \/ /\ ~Dropped(m)
            /\ \E d \in Hydrated(query[c], m) : results'[c] = Append(t, ResultOf(m, d))
  BY <1>1, TakeIs
<1>3. m \in Match /\ m \in Listed(s)
  BY <1>1, <1>2, Takes DEF Collected
<1>4. KeysOf(s) = {m.key} \cup KeysOf(Tail(s))
  BY <1>2, KeysOfSteps
<1> HIDE DEF m
<1>5. ASSUME ~Dropped(m), NEW d \in Hydrated(query[c], m), results'[c] = Append(t, ResultOf(m, d))
      PROVE  KeysOf(results'[c]) = KeysOf(t) \cup {m.key}
  <2>1. PICK r \in Result : r = ResultOf(m, d)
    BY <1>3, ResultIs DEF SearchInv
  <2>2. r.key = m.key /\ results'[c] = Append(t, r)
    BY <1>5, <2>1 DEF ResultOf
  <2> QED
    BY <1>2, <2>2, KeysOfSteps
<1>6. CASE KeysOf(results'[c]) = KeysOf(t) \cup {m.key}
  <2>1. KeysOf(results'[c]) \cup KeysOf(todo'[c]) = KeysOf(t) \cup KeysOf(s)
    BY <1>2, <1>4, <1>6
  <2> QED
    BY <2>1
<1>7. CASE Dropped(m) /\ results'[c] = t
  <2>1. m.item \in held[c][m.key] /\ m.key \in Keys
    BY <1>1, <1>3 DEF Collected, Admitted, Match
  <2>2. m.item = item[m.key]
    BY <2>1
  <2>3. m.key \notin Living(index, item, query[c], now)
    BY <1>7, <2>2 DEF Dropped, SeenLapsed, Living
  <2>4. KeysOf(t) \cup KeysOf(s) = {m.key} \cup (KeysOf(results'[c]) \cup KeysOf(todo'[c]))
    BY <1>2, <1>4, <1>7
  <2> QED
    BY <2>3, <2>4 DEF Complete
<1> QED
  BY <1>2, <1>5, <1>6, <1>7

\* While nothing stirs, a search catches the whole of what it wants.
LEMMA SteadySteps ==
  ASSUME SearchInv, Next, Track, NEW c \in Clients, SteadyInv(c)
  PROVE  SteadyInv(c)'
<1> SUFFICES ASSUME steady'[c]
             PROVE  /\ Follows(c)'
                    /\ Running(c)' => /\ asOf'[c] = now'
                                      /\ \A k \in Keys : past'[k] = {} /\ held'[c][k] = {item'[k]}
                    /\ phase'[c] \in {"matches", "done"} => Caught(c)'
  BY DEF SteadyInv
<1>1. /\ TableInv /\ TableTypes /\ CallInv /\ CallTypes /\ InPhase(c) /\ [Next]_mvars
  BY DEF SearchInv, TableInv, CallInv
<1>2. TableInv' /\ CallInv' /\ InPhase(c)' /\ index' = index
  BY <1>1, StepTable, StepCalls DEF CallInv
<1>3. /\ Follows(c)'
      /\ Starts(c) => \A k \in Keys : past[k] = {}
      /\ ~Starts(c) => steady[c] /\ (Running(c) => UNCHANGED <<table, now>>)
      /\ ~Starts(c) /\ ~Running(c) => held'[c] = held[c]
  BY TrackSteady
<1>4. CASE Starts(c)
  <2>1. item' = item /\ past' = past /\ now' = now /\ phase'[c] \notin {"matches", "done"}
    BY <1>1, <1>4, StartIsQuiet DEF table
  <2>2. asOf'[c] = now /\ \A k \in Keys : held'[c][k] = Versions(k)'
    BY <1>4, TrackIs
  <2>3. ASSUME NEW k \in Keys PROVE past'[k] = {} /\ held'[c][k] = {item'[k]}
    BY <1>3, <1>4, <2>1, <2>2 DEF Versions
  <2> QED
    BY <1>3, <2>1, <2>2, <2>3
<1>5. CASE ~Starts(c) /\ ~Running(c)
  <2>1. ~Running(c)'
    BY <1>3, <1>5 DEF Starts
  <2>2. Follows(c) /\ asOf'[c] = asOf[c] /\ held'[c] = held[c]
    BY <1>1, <1>3, <1>5, FollowedBefore, TrackIs
  <2>3. phase[c] = "done" /\ phase'[c] = "done"
    BY <1>3, <1>5, <2>1, <2>2 DEF Follows, Running, Ended
  <2>4. Waits(c)
    <3>1. ~Begins(c) /\ ~SearchVectors(c) /\ ~TakeMatch(c) /\ phase'[c] # "failed"
      BY <2>3 DEF Begins, SearchVectors, TakeMatch
    <3> QED
      BY <1>1, <3>1, ClientSteps
  <2>5. query'[c] = query[c] /\ todo'[c] = todo[c] /\ results'[c] = results[c]
    BY <2>4 DEF Waits
  <2>6. Caught(c)
    BY <1>3, <1>5, <2>3 DEF SteadyInv
  <2>7. Table(c)' = Table(c)
    BY <2>2 DEF Table
  <2>8. Caught(c)'
    BY <1>2, <2>2, <2>5, <2>6, <2>7 DEF Caught
  <2> QED
    BY <1>3, <2>1, <2>8
<1>6. CASE ~Starts(c) /\ Running(c)
  <2>1. steady[c] /\ item' = item /\ past' = past /\ now' = now
    BY <1>3, <1>6 DEF table
  <2>2. /\ asOf[c] = now /\ \A k \in Keys : past[k] = {} /\ held[c][k] = {item[k]}
        /\ phase[c] \in {"matches", "done"} => Caught(c)
    BY <1>6, <2>1 DEF SteadyInv
  <2>3. asOf'[c] = now' /\ \A k \in Keys : past'[k] = {} /\ held'[c][k] = {item'[k]}
    <3>1. /\ asOf'[c] = asOf[c]
          /\ \A k \in Keys : /\ held[c][k] \subseteq held'[c][k]
                             /\ held'[c][k] \subseteq held[c][k] \cup Versions(k)'
      BY <1>3, <1>6, TrackIs
    <3>2. \A k \in Keys : Versions(k)' = {item[k]}
      BY <2>1, <2>2 DEF Versions
    <3> QED
      BY <2>1, <2>2, <3>1, <3>2
  <2>4. Table(c) = item /\ Table(c)' = item
    <3>1. Table(c) = item
      BY <1>1, <2>2, TableIs
    <3>2. \A k \in Keys : (CHOOSE i \in held'[c][k] : TRUE) = item[k]
      BY <2>1, <2>3
    <3>3. item = [k \in Keys |-> item[k]]
      BY <1>1 DEF TableTypes
    <3> QED
      BY <3>1, <3>2, <3>3 DEF Table
  <2>5. ASSUME Complete(index, item, query'[c], now, KeysOf(results'[c]) \cup KeysOf(todo'[c]))
        PROVE  Caught(c)'
    BY <1>2, <2>1, <2>3, <2>4, <2>5 DEF Caught
  <2>6. phase[c] = "matches" =>
          Complete(index, item, query[c], now, KeysOf(results[c]) \cup KeysOf(todo[c]))
    BY <2>2, <2>4 DEF Caught
  <2>7. ASSUME phase'[c] \in {"matches", "done"} PROVE Caught(c)'
    <3>1. CASE Begins(c)
      BY <1>6, <3>1 DEF Begins
    <3>2. CASE Waits(c)
      <4>1. /\ query'[c] = query[c] /\ todo'[c] = todo[c] /\ results'[c] = results[c]
            /\ Running(c)'
        BY <1>3, <1>6, <3>2 DEF Waits
      <4>2. phase'[c] = "matches"
        BY <2>7, <4>1 DEF Running, Ended
      <4>3. phase[c] = "matches"
        BY <1>1, <1>2, <4>1, <4>2 DEF InPhase
      <4> QED
        BY <2>5, <2>6, <4>1, <4>3
    <3>3. CASE SearchVectors(c)
      <4>1. /\ phase[c] = "query" /\ query'[c] = query[c] /\ results'[c] = results[c]
            /\ \E reply \in Replies :
                 todo'[c] = IF index.adapter THEN AdapterMatches(query[c], reply)
                                             ELSE Matches(query[c], reply)
        BY <1>1, <3>3 DEF SearchVectors, CallTypes
      <4>2. query[c] \in Query /\ results[c] = <<>>
        BY <1>1, <4>1 DEF CallTypes, InPhase
      <4>3. Complete(index, item, query[c], now, KeysOf(todo'[c]))
        <5>1. PICK reply \in Replies :
                 todo'[c] = IF index.adapter THEN AdapterMatches(query[c], reply)
                                             ELSE Matches(query[c], reply)
          BY <4>1
        <5>2. CASE index.adapter
          BY <1>1, <2>2, <4>2, <5>1, <5>2, AdapterCatches
        <5>3. CASE ~index.adapter
          BY <1>1, <2>2, <4>2, <5>1, <5>3, NativeCatches
        <5> QED
          BY <5>2, <5>3
      <4>4. KeysOf(results'[c]) \cup KeysOf(todo'[c]) = KeysOf(todo'[c])
        BY <4>1, <4>2, KeysOfSteps
      <4> QED
        BY <2>5, <4>1, <4>3, <4>4
    <3>4. CASE TakeMatch(c)
      <4>1. phase[c] = "matches" /\ query'[c] = query[c]
        BY <3>4 DEF TakeMatch
      <4>2. Complete(index, item, query[c], now, KeysOf(results'[c]) \cup KeysOf(todo'[c]))
        BY <2>2, <2>6, <3>4, <4>1, TakeCatches
      <4> QED
        BY <2>5, <4>1, <4>2
    <3>5. phase'[c] # "failed"
      BY <2>7
    <3> QED
      BY <1>1, <3>1, <3>2, <3>3, <3>4, <3>5, ClientSteps
  <2> QED
    BY <1>3, <2>3, <2>7
<1> QED
  BY <1>4, <1>5, <1>6

\* Searches that nothing disturbs catch all they want: the invariant that the next
\* theorem follows from.
THEOREM SearchesComplete == HSpec => []CompleteInv
<1>1. HInit => CompleteInv
  <2> SUFFICES ASSUME HInit PROVE CompleteInv
    OBVIOUS
  <2>1. SearchInv
    BY InitSearches
  <2>2. \A c \in Clients : steady[c] = FALSE
    BY DEF HInit
  <2> QED
    BY <2>1, <2>2 DEF CompleteInv, SteadyInv
<1>2. CompleteInv /\ [HNext]_hvars => CompleteInv'
  <2> SUFFICES ASSUME CompleteInv, [HNext]_hvars PROVE CompleteInv'
    OBVIOUS
  <2>1. SearchInv /\ SearchInv'
    BY SearchSteps DEF CompleteInv
  <2>2. CASE HNext
    <3>1. Next /\ Track
      BY <2>2 DEF HNext
    <3>2. \A c \in Clients : SteadyInv(c)
      BY DEF CompleteInv
    <3>3. \A c \in Clients : SteadyInv(c)'
      BY <2>1, <3>1, <3>2, SteadySteps
    <3> QED
      BY <2>1, <3>3 DEF CompleteInv
  <2>3. CASE UNCHANGED hvars
    <3>1. /\ held' = held /\ asOf' = asOf /\ now' = now /\ phase' = phase /\ item' = item
          /\ past' = past /\ query' = query /\ todo' = todo /\ results' = results
          /\ index' = index /\ steady' = steady
      BY <2>3 DEF hvars, mvars, vars, table, search
    <3>2. ASSUME NEW c \in Clients PROVE SteadyInv(c)'
      <4>1. SteadyInv(c)
        BY DEF CompleteInv
      <4>2. Caught(c)' = Caught(c)
        BY <3>1 DEF Caught, Table
      <4>3. (Follows(c)' <=> Follows(c)) /\ (Running(c)' <=> Running(c))
        BY <3>1 DEF Follows, Running
      <4> QED
        BY <3>1, <4>1, <4>2, <4>3 DEF SteadyInv
    <3> QED
      BY <2>1, <3>2 DEF CompleteInv
  <2> QED
    BY <2>2, <2>3
<1> QED
  BY <1>1, <1>2, PTL DEF HSpec

\* A search that nothing disturbed misses a row of its scope only for rows that
\* are at least as close: as many as it was asked for, or as its request fetches.
THEOREM OnlyCloserHide == HSpec => []MissedOnlyForCloser
<1>1. ASSUME CompleteInv PROVE MissedOnlyForCloser
  <2> SUFFICES ASSUME NEW c \in Clients, phase[c] = "done", steady[c]
               PROVE
    LET q == query[c]
        at(k) == CHOOSE i \in held[c][k] : TRUE
        indexed == {k \in Keys : at(k) # None /\ at(k).score # None}
        passing == {k \in indexed : MatchesFilter(at(k).meta, q.filter)}
        wanted == {k \in passing : ~("exp" \in index.carries /\ Lapsed(at(k), asOf[c]))}
        closer(k, rows) == Cardinality({j \in rows \ {k} : at(j).score <= at(k).score})
        missing(k) ==
          IF index.adapter THEN closer(k, passing) >= q.limit
          ELSE \/ closer(k, wanted) >= q.limit
               \/ closer(k, indexed) >= q.limit * (IF q.filter = None THEN 1 ELSE Overfetch)
               \/ closer(k, indexed) >= MaxTopK
               \/ q.filter # None /\ "meta" \notin index.carries
    IN  \A k \in wanted :
          /\ Home[k] # "elsewhere"
          /\ q.prefix => Home[k] = "memory"
          => k \in ResultKeys(c) \/ missing(k)
    BY DEF MissedOnlyForCloser
  <2> DEFINE q == query[c]
             at(k) == CHOOSE i \in held[c][k] : TRUE
             indexed == {k \in Keys : at(k) # None /\ at(k).score # None}
             passing == {k \in indexed : MatchesFilter(at(k).meta, q.filter)}
             wanted == {k \in passing : ~("exp" \in index.carries /\ Lapsed(at(k), asOf[c]))}
             near(k, rows) == {j \in rows \ {k} : at(j).score <= at(k).score}
             T == Table(c)
  <2>1. Caught(c) /\ CallTypes /\ InPhase(c)
    BY <1>1 DEF CompleteInv, SteadyInv, SearchInv, CallInv
  <2>2. ResultKeys(c) = KeysOf(results[c]) \cup KeysOf(todo[c])
    <3>1. todo[c] = <<>>
      BY <2>1 DEF InPhase
    <3>2. results[c] \in Seq(Result) /\ DOMAIN results[c] = 1..Len(results[c])
      BY <2>1 DEF CallTypes
    <3>3. ResultKeys(c) = KeysOf(results[c])
      BY <3>2 DEF ResultKeys, KeysOf, Listed
    <3> QED
      BY <3>1, <3>3, KeysOfSteps
  <2>3. \A k \in Keys : T[k] = at(k)
    BY DEF Table
  <2>4. indexed = Indexed(T)
    <3> HIDE DEF T, at
    <3> QED
      BY <2>3 DEF Indexed
  <2>5. indexed \subseteq Keys /\ passing \subseteq indexed /\ wanted \subseteq passing
    OBVIOUS
  <2>6. passing = Passing(T, q)
    <3> HIDE DEF T, at, indexed
    <3> QED
      BY <2>3, <2>4, <2>5 DEF Passing
  <2>7. wanted = Living(index, T, q, asOf[c])
    <3> HIDE DEF T, at, indexed, passing
    <3> QED
      BY <2>3, <2>5, <2>6 DEF Living
  <2>8. ASSUME NEW k \in Keys, NEW rows \in SUBSET Keys PROVE near(k, rows) = Closer(T, k, rows)
    <3> HIDE DEF T, at
    <3> QED
      BY <2>3 DEF Closer
  <2>9. Complete(index, T, q, asOf[c], ResultKeys(c))
    BY <2>1, <2>2 DEF Caught
  <2> HIDE DEF indexed, passing, wanted, T, near
  <2>10. ASSUME NEW k \in wanted, InScope(q, k)
         PROVE  \/ k \in ResultKeys(c)
                \/ IF index.adapter THEN Cardinality(near(k, passing)) >= q.limit
                   ELSE \/ Cardinality(near(k, wanted)) >= q.limit
                        \/ Cardinality(near(k, indexed))
                             >= q.limit * (IF q.filter = None THEN 1 ELSE Overfetch)
                        \/ Cardinality(near(k, indexed)) >= MaxTopK
                        \/ q.filter # None /\ "meta" \notin index.carries
    <3>1. k \in ResultKeys(c) \/ Missing(index, T, q, asOf[c], k)
      BY <2>7, <2>9, <2>10 DEF Complete
    <3>2. /\ near(k, passing) = Closer(T, k, Passing(T, q))
          /\ near(k, wanted) = Closer(T, k, Living(index, T, q, asOf[c]))
          /\ near(k, indexed) = Closer(T, k, Indexed(T))
      BY <2>4, <2>5, <2>6, <2>7, <2>8, <2>10
    <3> QED
      BY <3>1, <3>2 DEF Missing
  <2> QED
    BY <2>10 DEF near, wanted, indexed, passing, InScope
<1> QED
  BY <1>1, SearchesComplete, PTL
=============================================================================
