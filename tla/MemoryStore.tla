---------------------------- MODULE MemoryStore ----------------------------
(***************************************************************************)
(* DynamoDBMemoryStore: add embeds a text and writes it under a key made   *)
(* of its hash; search embeds the query, runs a storage search under the   *)
(* store's key prefix, and keeps the results that have a value.            *)
(*                                                                         *)
(* The store keeps no state: what a call knows is in its locals, and adds, *)
(* searches and the application's own calls overlap as they like.          *)
(***************************************************************************)
EXTENDS Search

CONSTANTS
  Texts,        \* what is added
  KeyOf,        \* the key each text hashes to
  ScoreOf,      \* how close the embedding of each text is to the query's
  Large,        \* texts above the offload threshold
  Metas,        \* metadata that callers of add pass, None included
  Unstorable,   \* metadata entries that add drops
  DefaultLimit, \* maxSearchResults of the store, or its default
  Requests,     \* the maxSearchResults that callers ask for, None included
  Before,       \* which sets of texts may have been added before
  Queries,      \* what callers of the storage search for
  Contents      \* what the application writes beside the memories

ASSUME MemoryAssumption ==
  /\ Texts \subseteq Data
  /\ KeyOf \in [Texts -> {k \in Keys : Home[k] = "memory"}]
  /\ \A t, u \in Texts : KeyOf[t] = KeyOf[u] => t = u
  /\ ScoreOf \in [Texts -> Nat]
  /\ Large \subseteq Texts
  /\ Unstorable \subseteq Tags
  /\ Metas \subseteq (SUBSET Tags) \cup {None}
  /\ DefaultLimit \in 1..MaxTopK
  /\ Requests \subseteq Nat \cup {None}
  /\ Before \subseteq SUBSET Texts
  /\ Queries \subseteq Query
  /\ Contents \subseteq Content

VARIABLE adding  \* adding[c]: the text and metadata of the add that c runs

mvars == <<vars, adding>>

-----------------------------------------------------------------------------
\* storableMetadata: what cannot be stored is dropped, and nothing is stored
\* when nothing is left.
Storable(meta) ==
  IF meta = None \/ meta \subseteq Unstorable THEN None ELSE meta \ Unstorable

\* MUTANT: every add makes a new key.
KeyForFresh(c, text) ==
  LET free == {k \in Keys : Home[k] = "memory" /\ item[k] = None}
  IN  IF free = {} THEN KeyOf[text] ELSE CHOOSE k \in free : TRUE

\* The key of a memory.
KeyFor(c, text) == KeyOf[text]

NoAdd == [text |-> None, meta |-> None]

Memory(text, meta) ==
  [data |-> text, score |-> ScoreOf[text], meta |-> meta, big |-> text \in Large]

\* add: everything before its first await.  Blank text and text that UTF-8
\* cannot encode are refused there, which changes nothing.
Add(c, text, meta) ==
  /\ Start(c, "embedText", NoQuery)
  /\ adding' = [adding EXCEPT ![c] = [text |-> text, meta |-> Storable(meta)]]
  /\ UNCHANGED <<table, now, changes>>

\* The embedder answers with a vector.
EmbedText(c) ==
  /\ phase[c] = "embedText"
  /\ phase' = [phase EXCEPT ![c] = "write"]
  /\ UNCHANGED <<table, now, search, changes, calls, adding>>

\* storage.write of the memory takes effect; it may throw all the same.
WriteMemory(c) ==
  /\ phase[c] = "write"
  /\ Replace(KeyFor(c, adding[c].text), Stored(Memory(adding[c].text, adding[c].meta)))
  /\ \E end \in {"added", "failed"} : phase' = [phase EXCEPT ![c] = end]
  /\ adding' = [adding EXCEPT ![c] = NoAdd]
  /\ UNCHANGED <<now, search, changes, calls>>

\* resolveLimit.
Limit(request) ==
  IF request = None THEN DefaultLimit
  ELSE IF request < MaxTopK THEN request ELSE MaxTopK

\* search: a limit below one is refused; a blank query returns nothing at once.
MemorySearch(c, request, blank) ==
  /\ Start(c, IF Limit(request) < 1 THEN "failed"
              ELSE IF blank THEN "idle" ELSE "embedQuery",
           [limit |-> Limit(request), filter |-> None, values |-> TRUE, prefix |-> TRUE])
  /\ UNCHANGED <<table, now, changes, adding>>

EmbedQuery(c) ==
  /\ phase[c] = "embedQuery"
  /\ phase' = [phase EXCEPT ![c] = "query"]
  /\ UNCHANGED <<table, now, search, changes, calls, adding>>

\* What a search of the store returns: the results that have a value.
Entries(c) == {r \in {results[c][i] : i \in DOMAIN results[c]} : r.data # None}

-----------------------------------------------------------------------------
Init ==
  /\ SearchInit
  /\ \E stored \in Before, meta \in Metas :
       item = [k \in Keys |->
         IF \E t \in stored : KeyOf[t] = k
         THEN Stored(Memory(CHOOSE t \in stored : KeyOf[t] = k, Storable(meta)))
         ELSE None]
  /\ adding = [c \in Clients |-> NoAdd]

Call(c) ==
  \/ \E q \in Queries : BeginSearch(c, q) /\ UNCHANGED adding
  \/ \E text \in Texts, meta \in Metas : Add(c, text, meta)
  \/ \E request \in Requests, blank \in BOOLEAN : MemorySearch(c, request, blank)

Next ==
  \/ \E c \in Clients :
       \/ Call(c) \/ EmbedText(c) \/ WriteMemory(c) \/ EmbedQuery(c)
       \/ SearchOn(c) /\ UNCHANGED adding
  \/ \E k \in Keys, content \in Contents : Write(k, content) /\ UNCHANGED adding
  \/ Around /\ UNCHANGED adding

Spec == Init /\ [][Next]_mvars
=============================================================================
