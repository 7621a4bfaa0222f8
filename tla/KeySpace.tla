------------------------------ MODULE KeySpace ------------------------------
(***************************************************************************)
(* How storage keys become items of one shared table, and how a storage    *)
(* with a prefix (a view, as namespace() returns) sees only its own keys.  *)
(*                                                                         *)
(* A string is modelled by what key.split('/') makes of it: the sequence   *)
(* of the names between its slashes, NoName standing for an empty one.     *)
(* The empty string is <<NoName>>, 'a/b' is <<a, b>>, '/a//b/' is          *)
(* <<NoName, a, NoName, b, NoName>>; splitting at slashes and joining with *)
(* slashes are the identity on this form.  The prefix a view puts before   *)
(* its keys is empty or ends with a slash, so its last name is NoName.     *)
(***************************************************************************)
EXTENDS Naturals, FiniteSets, Selection

CONSTANTS
  Names,     \* what may stand between two slashes of a key
  NoName,    \* nothing between two slashes
  DotDot,    \* the name '..'
  Sentinel,  \* the sort key of a key without a third segment
  Memory,    \* the name 'memory', which applications may use too
  Begins,    \* pairs <<m, n>> of names: m # n and the string m begins with n
  Lang,      \* the language of the package: see ConstructorPrefix
  Roots,     \* the prefix settings storages are constructed with
  MaxLen,    \* bound: length of the strings callers pass
  MaxDepth,  \* bound: length of the prefixes of views
  MaxViews,  \* bound: views
  MaxRows    \* bound: items of the table

ASSUME NameAssumption ==
  /\ DotDot \in Names
  /\ Memory \in Names \ {DotDot}
  /\ NoName \notin Names /\ Sentinel \notin Names \cup {NoName}
  /\ Begins \subseteq Names \X Names
ASSUME BoundAssumption ==
  MaxLen \in Nat /\ MaxDepth \in Nat /\ MaxViews \in Nat /\ MaxRows \in Nat

Strings == UNION {[1..n -> Names \cup {NoName}] : n \in 1..MaxLen}

ASSUME SettingAssumption ==
  /\ Lang \in {"ts", "py"}
  /\ Roots \subseteq Strings

VARIABLES
  rows,  \* the table: items [pk, sk, k]
  views  \* the storages over it, by their prefix

vars == <<rows, views>>

-----------------------------------------------------------------------------
(* Strings.                                                                *)

Root == <<NoName>>

End(s) == s[Len(s)]

\* split('/') and the names that are not empty.
Segments(s) == Kept(s, Names \cup {Sentinel})

\* The prefix of a view, and then s.
Under(prefix, s) == SubSeq(prefix, 1, Len(prefix) - 1) \o s

\* s.startsWith(p): the last name of p may be the beginning of one of s.
StartsWith(s, p) ==
  LET n == Len(p)
  IN  /\ n <= Len(s)
      /\ SubSeq(s, 1, n - 1) = SubSeq(p, 1, n - 1)
      /\ End(p) \in {NoName, s[n]} \/ <<s[n], End(p)>> \in Begins

\* segments.slice(0, 2)
FirstTwo(s) == SubSeq(s, 1, IF Len(s) < 2 THEN Len(s) ELSE 2)

\* The partition that a string names, or would.
Partition(s) == FirstTwo(Segments(s))

-----------------------------------------------------------------------------
(* Normalisation, in the two packages.                                     *)

Escapes(s) == \E i \in DOMAIN s : s[i] = DotDot

\* normalizeKey refuses a key without segments, or with a '..' segment.
ValidKey(s) == Segments(s) # <<>> /\ ~Escapes(s)

NormalizeKey(s) == Segments(s)

\* normalizePrefix keeps one trailing slash.
NormalizePrefix(s) ==
  IF Segments(s) = <<>> THEN Root
  ELSE IF End(s) = NoName THEN Append(Segments(s), NoName) ELSE Segments(s)

\* The Python package: re.sub collapses runs of slashes, so that an empty name
\* is left at an end only; strip follows.
Collapse(s) ==
  IF Len(s) = 1 THEN s
  ELSE <<s[1]>> \o Segments(SubSeq(s, 2, Len(s) - 1)) \o <<End(s)>>

StripLeft(s) == IF Len(s) > 1 /\ s[1] = NoName THEN Tail(s) ELSE s
StripRight(s) == IF Len(s) > 1 /\ End(s) = NoName THEN SubSeq(s, 1, Len(s) - 1) ELSE s

NormalizeKeyPy(s) == StripRight(StripLeft(Collapse(s)))

\* MUTANT: a prefix is stripped on both sides, like a key.
NormalizePrefixPyBoth(s) == StripRight(StripLeft(Collapse(s)))

NormalizePrefixPy(s) == StripLeft(Collapse(s))

\* '/', with which no path begins.
BareSlash == <<NoName, NoName>>

\* The constructors: a prefix setting gets one trailing slash.  One that has
\* slashes and nothing else is no prefix in Python, a '/' in TypeScript.
ConstructorPrefix(s) ==
  IF Segments(s) = <<>> /\ s # Root /\ Lang = "ts" THEN BareSlash
  ELSE Append(Segments(s), NoName)

\* MUTANT: the prefix of the view itself is forgotten.
SubPrefixAlone(view, sub) == ConstructorPrefix(NormalizePrefix(sub))

\* namespace(sub) of a view.
SubPrefix(view, sub) == ConstructorPrefix(Under(view, NormalizePrefix(sub)))

-----------------------------------------------------------------------------
(* Partition and sort keys.                                                *)

\* MUTANT: the sort key starts one segment late.
SplitSkips(full) ==
  LET segs == Segments(full)
  IN  [pk |-> FirstTwo(segs),
       sk |-> IF Len(segs) <= 3 THEN <<Sentinel>> ELSE SubSeq(segs, 4, Len(segs))]

\* The first two segments are the partition, the rest is the sort key.
Split(full) ==
  LET segs == Segments(full)
  IN  [pk |-> FirstTwo(segs),
       sk |-> IF Len(segs) <= 2 THEN <<Sentinel>> ELSE SubSeq(segs, 3, Len(segs))]

\* The key search makes of an item the index returns.
Rebuild(r) == IF r.sk = <<Sentinel>> THEN r.pk ELSE r.pk \o r.sk

\* partitionKey(key) of a view.
PartitionKey(view, key) == Split(Under(view, NormalizeKey(key))).pk

\* MUTANT: only partitions below the prefix are in scope.
InScopeBelow(view, pk) == view = Root \/ StartsWith(pk, view)

\* A partition at or below the prefix of a view, or above it, is in scope.
InScope(view, pk) ==
  \/ view = Root
  \/ StartsWith(pk, view)
  \/ StartsWith(view, IF End(pk) = NoName THEN pk ELSE Append(pk, NoName))

\* stripPrefix returns null for keys that a view does not own.
Owns(view, k) == view = Root \/ StartsWith(k, view)
StripPrefix(view, k) == SubSeq(k, Len(view), Len(k))

OwnKeys(view, keys) == {StripPrefix(view, k) : k \in {j \in keys : Owns(view, j)}}

\* What a listing returns, or that it throws.
Listed(keys) == [thrown |-> FALSE, keys |-> keys]
Refused == [thrown |-> TRUE, keys |-> {}]

\* listByQuery: a partition out of scope is refused; of one in scope, the keys
\* of its rows whose sort key begins with skPrefix (Root for no condition).
ListByQuery(view, pk, skPrefix) ==
  IF InScope(view, pk)
  THEN Listed(OwnKeys(view,
         {r.k : r \in {q \in rows : q.pk = pk /\ StartsWith(q.sk, skPrefix)}}))
  ELSE Refused

\* A string prefix must name a partition.
Narrow(view, prefix) ==
  ~Escapes(prefix) /\ Len(Segments(Under(view, NormalizePrefix(prefix)))) >= 2

SkPrefix(full) ==
  LET rest == SubSeq(Segments(full), 3, Len(Segments(full)))
  IN  IF rest = <<>> THEN Root
      ELSE IF End(full) = NoName THEN Append(rest, NoName) ELSE rest

\* MUTANT: the rows of the partition are taken as they come.
ListByPrefixUnfiltered(view, prefix) ==
  LET full == Under(view, NormalizePrefix(prefix))
  IN  ListByQuery(view, Partition(full), SkPrefix(full))

\* listByPrefix, for a narrow prefix: a query that throws throws here too.
ListByPrefix(view, prefix) ==
  LET normalized == NormalizePrefix(prefix)
      full == Under(view, normalized)
      answer == ListByQuery(view, Partition(full), SkPrefix(full))
  IN  IF answer.thrown THEN Refused
      ELSE Listed({k \in answer.keys : StartsWith(k, normalized)})

\* The keys a search of a view returns, at most: the rows of the partition, or
\* of the whole index.
Found(view, pks) == OwnKeys(view, {Rebuild(r) : r \in {q \in rows : q.pk \in pks}})

-----------------------------------------------------------------------------
(* The keys of a memory store over a view.                                 *)

\* The constructor refuses an empty name, '..', and a name with a slash, which
\* would be more than one.
StoreNames == Names \ {DotDot}

\* MUTANT: the prefix of a store does not end with a slash.
KeyPrefixOpen(name) == <<Memory, name>>

KeyPrefix(name) == <<Memory, name, NoName>>

\* The key of a memory; id is the beginning of its text's hash.
MemoryKey(name, id) == Under(KeyPrefix(name), <<id>>)

\* The partition a store pins its searches to: that of a sample key.
StorePartition(view, name) ==
  PartitionKey(view, MemoryKey(name, CHOOSE id \in Names \ {DotDot} : TRUE))

\* The keys that a search of the store keeps.
Memories(view, name) ==
  {k \in Found(view, {StorePartition(view, name)}) : StartsWith(k, KeyPrefix(name))}

-----------------------------------------------------------------------------
Init ==
  /\ rows = {}
  /\ views \in {{ConstructorPrefix(s)} : s \in Roots}

ItemFor(view, key) ==
  LET full == Under(view, NormalizeKey(key))
  IN  [pk |-> Split(full).pk, sk |-> Split(full).sk, k |-> full]

SameItem(r, s) == r.pk = s.pk /\ r.sk = s.sk

Write(view, key) ==
  /\ ValidKey(key)
  /\ LET new == ItemFor(view, key)
     IN  rows' = {r \in rows : ~SameItem(r, new)} \cup {new}
  /\ Cardinality(rows') <= MaxRows
  /\ UNCHANGED views

Delete(view, key) ==
  /\ ValidKey(key)
  /\ rows' = {r \in rows : ~SameItem(r, ItemFor(view, key))}
  /\ UNCHANGED views

Namespace(view, sub) ==
  /\ ~Escapes(sub)
  /\ views' = views \cup {SubPrefix(view, sub)}
  /\ Cardinality(views') <= MaxViews
  /\ Len(SubPrefix(view, sub)) <= MaxDepth
  /\ UNCHANGED rows

Next ==
  \E view \in views, s \in Strings :
    Write(view, s) \/ Delete(view, s) \/ Namespace(view, s)

Spec == Init /\ [][Next]_vars

-----------------------------------------------------------------------------
(* Properties.                                                             *)

Paths == {Segments(r.k) : r \in rows}

\* The path at which the keys of a view begin.
Base(view) == Segments(view)

IsBelow(path, base) ==
  Len(path) > Len(base) /\ SubSeq(path, 1, Len(base)) = base

\* The keys of a view, told from the paths of the whole table.
Relative(view) ==
  {SubSeq(p, Len(Base(view)) + 1, Len(p)) : p \in {q \in Paths : IsBelow(q, Base(view))}}

\* The table looks like a tree of paths: a write adds its path and a delete
\* removes it, and neither touches another key, of this view or any other,
\* although two attributes hold what was one string.
Tree == INSTANCE KeyTree WITH
  tree  <- Paths,
  Paths <- UNION {[1..n -> Names] : n \in 1..(MaxDepth + MaxLen)}
ImplementsTree == Tree!TreeSpec

\* Listing by a string prefix returns the keys of the view that begin with it,
\* out of the partition the prefix names: a trailing slash counts, the row of
\* the partition itself does not, and no other view's key appears.  (Where no
\* view has the bare slash: see ScopeIsExact.)
ListsItsPrefix ==
  BareSlash \notin views => \A view \in views, s \in Strings :
    Narrow(view, s) =>
      ListByPrefix(view, s) =
        Listed({k \in Relative(view) :
                  /\ StartsWith(k, NormalizePrefix(s))
                  /\ FirstTwo(Base(view) \o k) = Partition(Under(view, NormalizePrefix(s)))})

\* Of two paths, one leads to the other.
OneBranch(p, q) == \A i \in DOMAIN p \cap DOMAIN q : p[i] = q[i]

\* A view may name a partition if one of their paths leads to the other, and is
\* refused any other: "a partition on a different branch (another tenant) is
\* rejected", whichever names begin alike.  Where it may, a search finds exactly
\* the keys the view has there, and a listing by a sort prefix those whose sort
\* key begins with it; where it may not, it has none.  With one exception: a
\* TypeScript storage made with a prefix of slashes alone keeps a bare slash, and
\* is refused every partition, that of each key it has written included, and no
\* search of the whole index finds it a key either.
ScopeIsExact ==
  \A view \in views, r \in rows :
    LET here == {k \in Relative(view) : FirstTwo(Base(view) \o k) = r.pk}
        refused == \A p \in Strings : ListByQuery(view, r.pk, p) = Refused
    IN  /\ view = BareSlash => refused /\ Found(view, {r.pk}) = {}
        /\ BareSlash \notin views /\ OneBranch(r.pk, Base(view)) =>
             /\ InScope(view, r.pk)
             /\ Found(view, {r.pk}) = here
             /\ \A p \in Strings :
                  ListByQuery(view, r.pk, p) =
                    Listed({k \in here : StartsWith(Split(Base(view) \o k).sk, p)})
        /\ BareSlash \notin views /\ ~OneBranch(r.pk, Base(view)) => here = {} /\ refused

\* Two keys share an item only if they are the same after normalisation, with
\* one exception: a caller's key whose third and last name is the sentinel is
\* the item of the two names before it.  No other place of a slash, of the
\* sentinel or of the end of a view's prefix makes two keys one.
ItemsAreKeys ==
  \A view \in views, r \in rows :
    \A s \in UNION {[1..n -> Names \cup {NoName, Sentinel}] : n \in 1..MaxLen} :
      LET path == Segments(Under(view, s))
          stored == Segments(r.k)
      IN  ValidKey(s) =>
            (SameItem(r, ItemFor(view, s)) <=>
               \/ path = stored
               \/ Len(stored) = 2 /\ path = Append(stored, Sentinel))

\* A memory store over any view searches one partition and keeps its own keys:
\* no memory that it adds lies elsewhere, whichever view it is over, and no key
\* of another store, of a name that begins with its name, or of the
\* application comes with them; the view lets it search that partition.  (Where
\* no view has the bare slash: see ScopeIsExact.)
MemoriesStayTogether ==
  BareSlash \notin views => \A view \in views, name \in StoreNames :
    /\ InScope(view, StorePartition(view, name))
    /\ Memories(view, name) = {k \in Relative(view) : IsBelow(k, <<Memory, name>>)}

\* The normalisers of the two packages make the same storage key, and the same
\* list prefix, of every string a caller passes, below the same prefix, although
\* one splits and joins and the other uses regular expressions.  (Their
\* constructors differ: see ScopeIsExact.)
LanguagesAgree ==
  \A view \in views, s \in Strings :
    /\ ValidKey(s) => Under(view, NormalizeKeyPy(s)) = Under(view, NormalizeKey(s))
    /\ ~ValidKey(s) => Escapes(s) \/ NormalizeKeyPy(s) = Root
    /\ Under(view, NormalizePrefixPy(s)) = Under(view, NormalizePrefix(s))

\* "Nested calls compose": a namespace of a namespace is the namespace of the
\* joined prefix.
NamespacesCompose ==
  LET accepted == {s \in Strings : ~Escapes(s)}
  IN  \A view \in views, s \in accepted, t \in accepted :
        Len(s) + Len(t) <= MaxLen + 1 =>
          SubPrefix(SubPrefix(view, s), t) = SubPrefix(view, s \o t)
=============================================================================
