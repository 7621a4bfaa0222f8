--------------------------- MODULE SearchHistory ---------------------------
(***************************************************************************)
(* MemoryStore with history variables that follow each search: what its    *)
(* keys held while it ran, when it began, and whether anything stirred.    *)
(***************************************************************************)
EXTENDS MemoryStore

VARIABLES
  held,   \* held[c][k]: versions of k that could be served during the search
  asOf,   \* asOf[c]: when it began
  steady  \* steady[c]: the index was up to date and nothing has changed since

hvars == <<mvars, held, asOf, steady>>

Running(c) == phase[c] \notin Ended

\* c runs a search, or has run one that returned: there is something to follow.
Follows(c) == phase[c] \in {"embedQuery", "query", "matches", "done"}

\* A search of c starts, and is not answered at once.
Starts(c) == ~Running(c) /\ Running(c)' /\ Follows(c)'

Track ==
  /\ held' = [c \in Clients |->
       IF Starts(c) THEN [k \in Keys |-> Versions(k)']
       ELSE IF ~Follows(c)' THEN [k \in Keys |-> {}]
       ELSE IF Running(c) THEN [k \in Keys |-> held[c][k] \cup Versions(k)']
       ELSE held[c]]
  /\ asOf' = [c \in Clients |->
       IF Starts(c) THEN now ELSE IF ~Follows(c)' THEN 0 ELSE asOf[c]]
  /\ steady' = [c \in Clients |->
       /\ Follows(c)'
       /\ IF Starts(c) THEN \A k \in Keys : past[k] = {}
          ELSE IF Running(c) THEN steady[c] /\ UNCHANGED <<table, now>>
          ELSE steady[c]]

HInit ==
  /\ Init
  /\ held = [c \in Clients |-> [k \in Keys |-> {}]]
  /\ asOf = [c \in Clients |-> 0]
  /\ steady = [c \in Clients |-> FALSE]

HNext == Next /\ Track
HSpec == HInit /\ [][HNext]_hvars

-----------------------------------------------------------------------------
ResultKeys(c) == {results[c][i].key : i \in DOMAIN results[c]}

\* Whatever a search has collected lies in its namespace, and under its key
\* prefix if it has one; the score and the metadata belong to one version that
\* was served during the search, which the filter passes; and the bytes belong
\* to a version of the same key, perhaps another one.  Matches that carry less
\* bring less, never something else.
ResultsWereThere ==
  \A c \in Clients : \A r \in {results[c][i] : i \in DOMAIN results[c]} :
    /\ Home[r.key] # "elsewhere"
    /\ query[c].prefix => Home[r.key] = "memory"
    /\ \E i \in held[c][r.key] \ {None} :
         /\ i.score = r.score /\ CarriedMeta(i) = r.meta
         /\ query[c].filter # None => i.meta # None /\ query[c].filter \subseteq i.meta
    /\ r.data # None => \E i \in held[c][r.key] \ {None} : i.data = r.data

\* When matches carry the stamp, no result stands for a version that had lapsed
\* when the search began.  When they do not, or do not carry the bytes either,
\* no result has bytes of which every version had lapsed, unless the match
\* itself brought them.
LapsedNotFound ==
  \A c \in Clients : \A r \in {results[c][n] : n \in DOMAIN results[c]} :
    /\ "exp" \in index.carries =>
         \E i \in held[c][r.key] \ {None} :
           i.score = r.score /\ CarriedMeta(i) = r.meta /\ ~Lapsed(i, asOf[c])
    /\ r.data # None =>
         \E i \in held[c][r.key] \ {None} :
           /\ i.data = r.data
           /\ ~Lapsed(i, asOf[c]) \/ (index.carries \cap {"data", "exp"} = {"data"} /\ ~i.big)

\* When the index was up to date and nothing stirred, a search that returned
\* has missed a row of its scope only for rows that are at least as close:
\* as many as it was asked for that it wanted too, of whichever namespace, or
\* as many of any kind, lapsed ones included, as its request may fetch; for an
\* adapter, as many as were asked for that pass the filter.  A filter on an
\* index that does not project the metadata finds nothing.
MissedOnlyForCloser ==
  \A c \in Clients : phase[c] = "done" /\ steady[c] =>
    LET q == query[c]
        at(k) == CHOOSE i \in held[c][k] : TRUE
        indexed == {k \in Keys : at(k) # None /\ at(k).score # None}
        passing == {k \in indexed : MatchesFilter(at(k).meta, q.filter)}
        wanted == {k \in passing : ~("exp" \in index.carries /\ Lapsed(at(k), asOf[c]))}
        closer(k, rows) == Cardinality({j \in rows \ {k} : at(j).score <= at(k).score})
        missing(k) ==
          IF index.adapter THEN closer(k, passing) >= q.limit
          ELSE \/ closer(k, wanted) >= q.limit
               \/ closer(k, indexed) >= q.limit * (IF q.filter = None THEN 1 ELSE Overfetch)
               \/ closer(k, indexed) >= MaxTopK
               \/ q.filter # None /\ "meta" \notin index.carries
    IN  \A k \in wanted :
          /\ Home[k] # "elsewhere"
          /\ q.prefix => Home[k] = "memory"
          => k \in ResultKeys(c) \/ missing(k)

\* Whatever adds, searches and deletes overlap, an entry of a memory search has
\* the text that its key and its score were made of, and no text comes twice,
\* however often and however concurrently it is added; and none of its metadata
\* hides the key and the score that search puts there.
EntriesAreTheirTexts ==
  \A c \in Clients : query[c].prefix =>
    /\ \A e \in Entries(c) :
         /\ e.data \in Texts
         /\ e.key = KeyOf[e.data] /\ e.score = ScoreOf[e.data]
         /\ e.meta # None => e.meta \cap Unstorable = {}
    /\ \A d, e \in Entries(c) : d.data = e.data => d = e

\* The values every variable ranges over.
TypeOK ==
  /\ item \in [Keys -> Item \cup {None}]
  /\ \A k \in Keys : past[k] \subseteq Item \cup {None}
  /\ index \in Index
  /\ now \in Nat
  /\ \A c \in Clients :
       /\ query[c] \in Query
       /\ phase[c] \in {"query", "matches"} => index.adapter \/ query[c].limit \in 1..MaxTopK
       /\ Len(results[c]) + Len(todo[c]) <= query[c].limit
       /\ phase[c] = "matches" <=> todo[c] # <<>> /\ phase[c] # "failed"
       /\ phase[c] = "write" => adding[c].text \in Texts
=============================================================================
