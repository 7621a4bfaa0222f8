# Verification of strands-dynamodb-storage

TLA+ modules that model the storage backend of this repository, the TLC
configurations that check them on small instances, and TLAPS proofs of the
properties that matter most. The repository has two packages with one
behaviour, `src/typescript` and `src/python`; a definition stands for both, and
PROJECT.json maps it to the lines of the TypeScript package, or of the Python
one where only that has it. Where the two differ the difference is a constant
of the module (`Collation` in Listing, `Lang` in KeySpace).

## The system

| Component | State | Operations | Hard parts |
|---|---|---|---|
| Point operations and S3 offload (`write`, `read`, `delete`) | one item per key in a DynamoDB table; one S3 object per offloaded key; nothing in the client | each operation is one to three awaited calls (PutObject, PutItem, DeleteObject / GetItem, GetObject / DeleteItem, DeleteObject) | two services, no transaction, no lock; reclamation of replaced objects; failed, retried, abandoned calls; stale reads; TTL |
| Listing (`list`) | the loop's locals: start key, keys so far | one Query per page | no snapshot; filter, cursor, foreign rows and limit interact; string order |
| Key space (`keys.ts`/`keys.py`, `_split`, `_strip_prefix`, `_assert_pk_in_scope`, `_list_by_prefix`) | the prefix of each view | normalise, split, strip, scope check, prefix to Query | nested namespaces in shared partitions; two languages, one table |
| Namespaces and lazy clients (`namespace`, `_get_client`, `_get_s3_client`, `storageRegion`) | the clients an instance holds, created on first use | copy settings to a view; create a client | what a view gets depends on what the parent has created |
| Vector search (`search`, `_native_vector_search`) | the vector index, eventually consistent | one SearchVectors or one call of a `vectorSearch` adapter, client-side filters, point reads of matches | index and table disagree; over-fetch, limit and filters; what the index projects |
| `DynamoDBMemoryStore` | none of its own | `add`: embed and write under the hash of the text; `search`: embed and search | awaits between embedding and writing; repeated adds |
| Embedders | a lazily created Bedrock client | one InvokeModel per text | model IDs in many forms; three request and reply formats |

A component calls the one above it: the memory store calls search and write,
search calls read for matches without inline data, list and search use the key
space, and everything goes through the table and the bucket, which all
instances, processes and the TTL reaper share. The package takes no locks and
keeps no queue, so all concurrency is between operations of callers and the
services.

What makes each component correct:

- Point operations: a pointer item has its object; the compressed flag
  describes the bytes; no object is left without a pointer; a read returns
  something that was stored; together they are one store with one value per key.
- Listing: nothing that stayed is skipped, nothing is invented, no key comes
  twice, limits hold, it ends, and paging through it is complete.
- Key space: distinct keys are distinct items; a view sees its keys and no
  others; both languages normalise keys alike.
- Lazy clients: a view talks to the same endpoints as its parent.
- Embedders: a model is recognised by every name Bedrock has for it, and what
  the constructor accepts can be embedded with.
- Search and memories: results belong to the view, are not lapsed, carry the
  bytes they were scored for as far as the index allows; a text is stored once.

## Modules

| Module | What it is |
|---|---|
| `DynamoDBStorage` | the point operations: table, bucket, clock, and operations as little programs |
| `KVStore` | the abstract contract: a store with one value per key and overlapping calls |
| `ReadHistory` | `DynamoDBStorage` with history of running reads; the refinement mapping to `KVStore` |
| `Reclamation` | `DynamoDBStorage` with what each step may leave behind in table and bucket |
| `MCDynamoDBStorage`, `MCReadHistory`, `MCReclamation` | small deployments for TLC |
| `DynamoDBStorage_proofs`, `ReadHistory_proofs`, `Reclamation_proofs` | theorems about the point operations; `ReadHistory_proofs` holds the refinement |
| `Listing` | list(DynamoDBListQuery): pages, filters, cursor, limit, other clients |
| `ListingHistory` | `Listing` with the rows that stayed or were shown during a listing |
| `MCListing` | small partitions for TLC |
| `Listing_proofs` | theorems about listings, with and without their history |
| `Search` | the storage's search over an index that lags |
| `MemoryStore` | add and search of the memory store; EXTENDS `Search`, whose calls it makes |
| `SearchHistory`, `MCSearch` | both with what each search may have seen; a small partition for TLC |
| `Search_proofs` | theorems about searches and memories, with their history |
| `Selection` | the elements of a sequence that are in a set |
| `KeySpace`, `KeyTree`, `MCKeySpace` | keys to items and back, views, memory stores, scope; the tree it implements |
| `Selection_proofs`, `KeySpace_proofs` | what a selection keeps; theorems about keys, views and the tree |
| `Clients` | the AWS clients of storages, views and embedders, created on first use |
| `Embedders` | model IDs, settings, requests and replies of the Bedrock embedder |
| `StoreEmbedders` | `Clients` with `Embedders`: what must hold of embedders while there are stores |
| `MCClients` | a storage with two views and a memory store for TLC |
| `Clients_proofs` | theorems about clients, the Regions they are in, and embedders |

### DynamoDBStorage

`item`, `past`, `object` are the table, the older versions a lagging replica
may still serve, and the bucket. `pc[c]` is the AWS call operation slot `c`
waits for and `req[c]` the locals it carries across the awaits; a client in the
sense of the model is one running operation of one instance. `BeginWrite`,
`RefuseWrite`, `BeginRead`, `BeginDelete` do everything up to the first await:
gzip and whether to keep it (`Encode`), the size check (`Oversized`), the expiry
stamp (`StampOf`). Then one action per call: `S3Put`, `PutItem` (with
`ReturnValues=ALL_OLD` only for an inline write of an instance with a bucket),
`S3Reclaim` (best effort), `GetItem`, `S3Get`, `DeleteItem`, `S3Delete`. An
action is the call taking effect together with the code that runs when its
reply arrives; what may happen between two awaits is everything any other
client does. Delays before and after a call's effect need no action of their
own: nothing of the client is visible to others in between.

Faults: a call throws without effect (`CallFails`); the process stops or the
task is cancelled between calls (`Crash`); a call takes effect, its reply is
lost and the SDK sends it again (`ReplyLost`); the operation is abandoned with a
call on its way, as cancelling an `asyncio.to_thread` does (`Abandon`, then
`Arrive` at any time). GetItem may be served by a replica that lags (`stale`).
The TTL process removes lapsed items only (`Reap`).

Bytes are a value and whether they are gzipped. Whether a value, plain or
gzipped, is above the threshold and whether gzip makes it shorter are constants
(`RawBig`, `GzBig`, `Shrinks`): those are the only facts about bytes the code
branches on. Keys are full keys after normalisation. Vector and metadata
attributes are carried in the item without influence on these operations and
are left out.

The package takes no lock, so what callers do is a parameter: `Locking` is
`none`, `writers` (one mutation of a key at a time, reads beside), or `all`.

### KVStore and ReadHistory

`KVStore` is what callers may rely on when they mutate a key one at a time: a
register per key, where an acknowledged mutation has taken effect, a failed one
may have but never does so later, and a value may lapse and vanish. The code
never asks for consistent reads, so the store has replicas: `old[k]` are the
older versions that those that lag still serve, until they catch up (`CatchUp`).
An older version does not hold its bytes: the mutations of its key may give it
those of another value or take them away, as a replaced pointer item leads to
whatever object is at its key now.

`ReadHistory` adds `seen` (what a running read may return) and `quiet` (nothing
disturbed it) and maps `item`, `past` and `object` to `store` and `old`. The
property `ImplementsContract` is the abstract specification under that mapping.
It is promised to deployments whose offloaded objects are encoded alike
(`UniformOffload`) and whose callers serialise the mutations of a key and leave no
call on its way. `KVStore` lets a read fail at any time; when it may not is
`UndisturbedReadSucceeds`. A read is undisturbed (`Undisturbed`) while nobody
mutates its key, the replicas of the key have caught up, the item tells how its
object is encoded (`Described`, which only a write cut short or sent again
breaks, see `Reclamation`) and no call fails.

### Reclamation

An upload, a PutItem and a DeleteObject are separate calls, so an object can be
left that no pointer leads to ("orphan"), or under a pointer whose flag does not
describe it ("torn"). Neither can be excluded, so the module says what may cause
it: `excused[k]` holds what is amiss with key `k` and was left by a step that
cannot but leave it (a write or delete that ends between its calls, a call that
the SDK sends again, an instance without a bucket, the TTL process). Whatever
else is amiss when nobody mutates the key would be a bug. An excuse for a torn
key ends at the next PutItem of the key whose reply arrives (`Mends`), so that
`TornExplained` says that this write mends the key.

### Listing and ListingHistory

Rows are ranks in the table's byte order; `Collation` ranks the same keys as
the language compares strings. `row`, `past` are the partition. `List` starts a
call, `QueryPage` is one Query and one turn of the loop: a replica answers with
any of the versions it may hold, the page ends anywhere (limit, size cap, end of
range) and LastEvaluatedKey may be there even after the last row. `NextPage` is
a caller that goes on with `limit` and `startAfter`. A row's value does not
matter, only its presence and its stamp.

### KeySpace

A string is the sequence of the names between its slashes, so splitting and
joining are the identity and prefixes, trailing slashes and `startsWith` are
operators on short sequences; `Begins` says which name begins with which other.
`Write`, `Delete` and `Namespace` change the table and the set of views;
`ListByPrefix`, `ListByQuery` and `Found` are what list and search return. The
actions do not use the sentinel sort key as a name in a caller's key;
`ItemsAreKeys` does, and says which one pair of keys then shares an item.
`KeyPrefix`, `MemoryKey`, `StorePartition` and `Memories` are the keys of a
memory store over a view, and what its searches keep.

### Search, MemoryStore and SearchHistory

`item`, `past` are the table and the older versions that the vector index, or a
replica, may still serve; `index` says whether an adapter is configured and what
matches carry of their items (bytes, metadata, stamp); `phase[c]` is the call
that c waits for. `BeginSearch` checks topK, unless there is an adapter;
`SearchVectors` is the call and the two loops over its reply, up to the first
match to take (over-fetch, expiry, filter, topK, namespace, key prefix). The
first loop awaits the gunzip of matches that carry their bytes; that is part of
the step, since no service is called meanwhile and only the clock may move.
`TakeMatch` takes one match, with its bytes or by a read of the table at that
moment, or drops it by the stamp an adapter returned; `ReadThrows` is the read
of a pointer whose object is gone.
`Add` and `MemorySearch` await the embedder (`EmbedText`, `EmbedQuery`) and go
on to a write or to the same search.

A vector is its distance to the one query of the model, metadata a set of
entries. Writes and deletes take effect in one step, and a read sees one moment
of the table: this is what `contract` and `concurrent` check of the storage
underneath when callers serialise the mutations of a key. `SearchHistory` adds
`held` (the versions that could be served while a search ran), `asOf` and
`steady` (the index was up to date and nothing stirred). An index that projects
the bytes is taken to project the flags that describe them.

### Clients

`storage[i]` holds the configured region and the two clients of a storage
object. An operation awaits the import of its command (`BeginCall`), looks for a
client (`UseClient`, `MissClient`), awaits the import of the client's module and
creates one (`CreateClient`) without looking again, so first calls may overlap,
and `Namespace` may run at any point between. `ViewConfig` is what `namespace()`
passes to the constructor, `StorageRegion` what a memory store asks for the
Region of its embedder. `sent` collects the clients that requests went out by.
A client is its Region and whether the package created it.

### Embedders

A model ID is the sequence of its words and of the marks (`.`, `:`, `/`) that
the code splits at. `ModelFamily` reads the family, `Accepts` is the
constructor, `RequestBody`, `Parse` and `EmbedText` are `embed`. `Reply` is
Bedrock, as each family answers its own requests; `IdsOf` and `OtherIds` are
the names Bedrock has for supported models and for others. The module has no
state of its own: `StoreEmbedders` puts its embedders under the memory stores of
`Clients` and states what must hold of them whenever there is a store and
whenever a request went out. `WordAssumption` says that accounts, Regions,
versions and other models do not have the names of Bedrock's vendors and models,
and that no mark is a word.

## Runs

| Run | Module | Checks | Bounds |
|---|---|---|---|
| `reclaim` | MCReclamation | `PointerBacked`, `OrphansExplained`, `TornExplained` | 3 clients (one without a bucket, one compressing), one key, four kinds of value, TTL, 4 operations, 2 faults |
| `contract` | MCReadHistory | `UndisturbedReadSucceeds`, `ImplementsContract` | 3 clients (one without a bucket, one compressing), 1 key, objects encoded alike, TTL, stale reads, 3 operations, 2 faults |
| `concurrent` | MCReadHistory | `TypeOK`, `InlineReadable`, `ReadLegal` | 3 clients, objects encoded alike, TTL, no serialisation, every kind of fault, stale reads, 3 operations, 1 fault, 1 second |
| `listing` | MCListing | `NothingSkipped`, `ListedWasThere`, `ListingEnds` | 3 rows, one foreign, TTL, lagging replicas |
| `paging` | MCListing | `NoKeyTwice`, `PagesBounded`, `BookComplete` | 4 rows, 2 changes, 3 calls of list |
| `keyspace` | MCKeySpace | `ListsItsPrefix`, `ScopeIsExact`, `ItemsAreKeys`, `MemoriesStayTogether`, `LanguagesAgree`, `NamespacesCompose`, `ImplementsTree` | the TypeScript package, all strings of up to 3 names, 2 views, 2 items |
| `search` | MCSearch | `TypeOK`, `ResultsWereThere`, `LapsedNotFound`, `MissedOnlyForCloser`, `EntriesAreTheirTexts` | 2 clients, 2 memories, one there from the start, an item of the application and one of another namespace, TTL, three projections and two adapters, topK up to 4, 2 calls, 1 other change |
| `clients` | MCClients | `TypeOK`, `OneTable`, `EmbedsAtHome`, `FewClients`, `BucketWithoutRegion`, `RecognisedAsNamed`, `AcceptedConfigsWork` | 3 storages, 1 memory store, 2 overlapping calls, 2 Regions, every configuration |

The bounds are enough for the hazards. An operation has at most three calls, so
three operations and one fault let each be overtaken at each of its calls by two
others; four operations and two faults let what a fault left be overwritten or
deleted by a next operation that fails too. More keys add nothing, since no
operation touches two. In a partition of four rows a page boundary falls before,
at and after a foreign row, a cursor and a changed row. Two calls and a change
let a search be overtaken, at its embedding, its SearchVectors and each of its
reads, by an add that renews or adds a memory and by an overwrite or a delete;
four rows and a ceiling of three make every limit bite. Strings of three names
below prefixes of two give keys of one to five segments, on both sides of the
boundary between partition and sort key. A storage, a view and a view of the
view cover every way a client is passed on, and two calls every overlap of a
lookup and a creation.

Runs that stop at their bounds say CHECK_DEADLOCK FALSE: `MaxOps`, `MaxCalls`,
`MaxRows` and the like end every behaviour.

Four runs end in a violation and show where the code and its documentation
disagree:

- `race_dangling`: an inline overwrite's reclamation deletes the object of a
  large write that was acknowledged in between. The value is lost. Needs two
  concurrent writes of one key.
- `gzip_torn`: a large overwrite that fails between its upload and its PutItem,
  by an instance with the other compression setting, leaves a flag that does not
  describe the object. (`reclaim` shows that only writes cut short or sent again
  do, and that the next write mends it.)
- `utf16_paging`: in TypeScript, paging with `limit` and `startAfter` skips a row
  when keys hold characters beyond U+FFFF.
- `split_regions`: a view made after its storage has created a DynamoDB client is
  given the client and not the region; its own S3 client is then created in the
  Region of the default chain, away from the objects of its parent.

A fifth disagreement is part of a property. A TypeScript storage constructed with
a prefix of slashes only keeps `'/'` (`BareSlash`), which drops out of its
partition keys and stays in its scope check (dynamodb-storage.ts:205; Python takes
the setting for no prefix). It refuses the partition that its own `partitionKey`
returns for a key it has written, although the doc at dynamodb-storage.ts:417 says
that the result can pin a search; its lists are refused and its searches find
nothing. `ScopeIsExact` says so, and `keyspace` has such a storage; about the
namespaces of one, `ScopeIsExact`, `ListsItsPrefix` and `MemoriesStayTogether` say
nothing.

`OrphansExplained` does not say that nothing is left behind: a DeleteItem or
PutItem whose reply was lost is sent again by the SDK, finds no pointer to
return, and the object stays although the operation reports success; a failed
DeleteObject leaves it as well.

`MissedOnlyForCloser` says what a search may miss and no more. Rows of other
namespaces in the same partition, and lapsed rows that are not reaped yet,
compete for topK: the native loop stops at topK before search drops the foreign
ones, even when it over-fetched for a filter.

A read may throw although nobody mutates its key: a GetItem served by a replica
that lags may yield a pointer whose object is already reclaimed. No doc promises
otherwise. `ReadLegal` is therefore about reads that return, and
`UndisturbedReadSucceeds` asks that the replicas of the key have caught up. Its
run has replicas that lag and mixes the compression of inline values; that it
holds for mixed compression of offloaded values too is in its theorem.

## Fairness

Safety properties need none. `ListingEnds` assumes weak fairness of each
listing's `QueryPage`: the SDK answers or gives up every call, and the event
loop resumes the coroutine that awaits it. Nothing is assumed of callers, of
other clients or of the clock.

## Proofs

Each theorem holds for every value of the constants that satisfies the named
ASSUMEs of the modules, which TLC evaluates in the runs: sizes, configurations
and what the code's constants are. Hypotheses beyond these are in the theorem.
`TypeCorrect` of `DynamoDBStorage_proofs` and of `Clients_proofs` is
`Spec => []TypeOK`.

Point operations:

- `PointersStayBacked` (`DynamoDBStorage_proofs`): with mutations of a key
  serialised and no late calls, `PointerBacked` holds for any number of clients,
  keys, operations and any failures, crashes, retries and stale reads.
  `PointerBacked` alone is not inductive: PutItem puts a pointer without looking
  at the bucket. The invariant `PointerInv` adds `Exclusive` (at most one client
  mutates a key) and `Prepared` (a write that waits for its pointer's PutItem has
  its object stored, and one that waits to delete an object has no pointer in the
  table).
- `InlineStaysReadable`: `InlineReadable`, with no hypothesis. `InlineInv` adds
  that the data of every request under way, and of every abandoned call, carry
  the flag of their bytes, since a PutItem stores what its request holds.
- `OrphansAreExplained` and `TornAreExplained` (`Reclamation_proofs`), with
  mutations serialised and no late calls: `OrphansExplained`, `TornExplained`.
  These speak of keys nobody mutates; between, an object may lack its pointer
  because a client is about to write the pointer or to delete the object.
  `ReclaimInv` says of every key and every defect that it is excused or that such
  a client is there (`Accounted`), and adds `UploadInv`: what a write uploaded
  stays in the bucket, encoded as its request says, until its pointer is put.
- `ReadsAreLegal` (`ReadHistory_proofs`): if every offloaded object of the
  deployment is encoded alike (`UniformOffload`), `ReadLegal` holds under every
  interleaving and all faults, without serialisation. The invariant adds that
  items, requests and objects carry flags that agree with their bytes
  (`AlikeInv`) and that what a read between its two calls may still return has
  been collected (`Collected`).
- `UndisturbedReadsSucceed` (`ReadHistory_proofs`): `UndisturbedReadSucceeds`, with
  serialised mutations and no late calls, for any settings of the clients. The
  invariant joins `UploadInv` and `Unharmed`: a read that nothing has disturbed
  and that has got a pointer finds the object at its key, encoded as the item said.
- `ContractImplemented` (`ReadHistory_proofs`) is `HSpec => ImplementsContract`,
  `DynamoDBStorage` implements `KVStore`, with uniform offload, serialised
  mutations and no late calls (`Coordinated`), and with stale reads. Its invariant
  `ContractInv` joins `HistoryInv` and `UploadInv`. `StepImplements` maps every
  action: a call that changes the table, or the bytes of a pointer, to
  `TakesEffect` of the store, a call to S3 that only older versions can show to
  `ReachesReplicas`, the beginning of an operation to `Invoke`, its end to
  `Acknowledge` (which may bring the effect with it), `ReadReturns` or `Fails`, the
  clock and the TTL process to `Lapse` and `Vanish`, a replica that catches up to
  `CatchUp`, and calls that prepare or tidy up to a stutter.
- The hypotheses are needed. Without serialisation a pointer loses its object
  (`race_dangling`), which a read that nothing disturbs finds out. Without uniform
  offload a read returns gzipped bytes (`gzip_torn`), which no caller stored. With
  `"late"` among the `Faults` TLC finds `PointerBacked`, `UndisturbedReadSucceeds`
  and `ImplementsContract` violated: a PutItem that was abandoned on its way
  puts a pointer after a later write has reclaimed the object. Nor does
  `UndisturbedReadSucceeds` hold without `Described`.

Listing (`Listing_proofs`):

- `ListingsWellFormed`: `ListInv`, the types and `Collected`: what a listing has
  are keys of its query behind its start key, counted right and below its limit
  while it goes on. `NoKeyListedTwice` follows: a key behind the start key does
  not come again, even if its row goes and returns.
- `NothingIsSkipped`, `ListedWereThere`, `PagesAreBounded`: the history
  properties, for partitions of any size and pages cut anywhere. `NothingSkipped`
  speaks of listings that returned; the invariant `SkipInv` adds, for listings
  under way, that a row that stayed is still there for every replica
  (`StillThere`) and is among the keys once the start key is past it
  (`NoneBehind`).
- `BooksAreComplete` assumes `InKeyOrder` (the language compares keys in the
  table's order). `utf16_paging` shows that it fails otherwise.

Key space (`KeySpace_proofs`):

- `KeysAreATree`, with prefixes that may be as long as strings
  (`MaxLen <= MaxDepth`, of the two bounds): `ImplementsTree`, the refinement of `KeyTree`. `KeyInv` says
  that an item lies where its key says and that views have prefixes constructors
  make. `SplitTells` is the heart: two paths have one partition and one sort key
  only if they are one path, or the second ends with the sentinel.
- `ItemsMatchKeys` and `NestedNamespacesCompose`, under the same hypothesis:
  `ItemsAreKeys` for callers' keys with and without the sentinel, and
  `NamespacesCompose`.
- `ScopeExact`, `PrefixListingExact` and `StoresKeepTheirMemories`:
  `ScopeIsExact`, `ListsItsPrefix` and `MemoriesStayTogether`, for views, keys and
  list prefixes of any depth and whichever names begin with which, in both
  packages. They follow from `TableInv`: views have prefixes that constructors
  make, items lie where the segments of their keys say, and unless a view has the
  bare slash, views stand at paths (`PathViews`) and each row is the item of its
  key (`PathItem`). `BareIsBlind` is the exception of `ScopeIsExact`. The work is in
  the algorithms. `OwnsBelow` says that a view owns the keys below its path, and
  `ScopeIs` that it may name the partitions above, at and below its path and no
  others, though the code compares strings; `QueryIs`, `ChosenIs` and
  `QueryMissesNone` say which rows a query's conditions select and the loop keeps.
- `PackagesShareKeys`: `LanguagesAgree`, with no hypothesis. It is about the two
  normalisers only: the constructors differ (see Runs).
- What they rest on is in `Selection_proofs`: what a filter keeps of an appended
  and of a joined sequence, and that filtering twice is filtering once. A
  recursive function is all that the definition uses, and induction is done on
  sets of lengths, by their least element.

Search and memories (`Search_proofs`), for any number of calls over partitions of
any finite size, and every index and adapter:

- `SearchesCollect`: the invariant `SearchInv`. Its part about the table
  (`VersionsOf`) says that every version of a memory that may still be served is
  of the text of its key, and that no older version lapses after the item does:
  the second is what a read needs that finds the pointer of one version and the
  object of a later one. Its part about a search says that all that can be served
  is among what was held (`HeldInv`), that matches left are wanted and were held
  (`Admitted`), that results stand for what was held (`Found`), and that matches
  and results together have each key once.
- `SearchesWellTyped`, `ResultsAreServed`, `LapsedStayHidden` and
  `EntriesKeepTheirTexts` follow: `TypeOK`, `ResultsWereThere`, `LapsedNotFound`
  and `EntriesAreTheirTexts`. The last needs that different texts have different
  keys (`MemoryAssumption`), as hashes do.
- `OnlyCloserHide`: `MissedOnlyForCloser`. The property speaks of searches that
  returned; `CompleteInv` (`SearchesComplete`) says of those under way that nothing
  disturbed (`steady`) that they are served the table as it is, each key in one
  version, and that every row they want is a result, or a match left, or displaced
  by enough closer ones (`Caught`). `NativeCatches` and `AdapterCatches` are the
  step of the reply: a row that a cut leaves out comes after as many others as the
  cut lets through (`AmongFirst`), each of another key and none farther
  (`CountBefore`), whether the cut is TopK of the request or topK of the loop.

Clients (`Clients_proofs`):

- `TableIsOne` and `EmbedderFollows`: `OneTable` and `EmbedsAtHome`. Neither is
  inductive: `sent` tells of requests that went out, and the next request depends
  on what a storage holds. The invariant `HomeInv` adds that every client of the
  table a storage holds is at home, that a storage without one is configured with
  a region that a new client would take home (`StoragesAtHome`), that a call about
  to create a client would create it at home, also when its storage has got one
  from another call by now (`CallsAtHome`), and the same of embedders
  (`StoresAtHome`).
- `BucketIsOne`: `BucketWithoutRegion`, by the same argument for S3 clients
  (`BucketInv`), where the Region of the bucket does not depend on `region`.
- `ClientsAreFew`: `FewClients`. `MadeInv` counts the clients made together with
  the calls about to make one: those that looked before the first was there.

Embedders (`Clients_proofs`, which holds them for the sake of the memory stores
they belong to):

- `ModelsAreRecognised`: `RecognisedAsNamed`, for any set of words, where TLC has
  two. `FamilyIs` reads an ID from its end: the last slash is that of its ARN
  (`ResourceIs`), the first dot that of its geography or of its vendor
  (`GeographyIs`), and a name is told from a longer one by the mark behind it
  (`NamesModelIs`). The lemmas `FirstDot`, `LastSlash` and `JoinedParts` say what
  the sequence operators return.
- `AcceptedEmbeddersWork`: `AcceptedConfigsWork`. An accepted embedder has the
  family of its model (`AllWork`), and request, reply and check of a family agree
  on the length (`Embeds`).

Only model-checked: `ListingEnds`, since liveness and what involves ENABLED are
out of the prover's reach.

## Plan

The order is by what depends on what, and by what hurts most when it is wrong.

1. Done: `DynamoDBStorage`, `KVStore`, `ReadHistory`, `Reclamation`; `Listing`,
   `ListingHistory`; `KeySpace`, `KeyTree`; `Search`, `MemoryStore`,
   `SearchHistory`; `Clients`, `Embedders`; the theorems above.
2. Done: a theorem for every safety property that a run checks.
3. Answered by TLC on the way: a late call can break the contract of a deployment
   that is coordinated otherwise (see Proofs).

The runs stay few: a run of the plan replaces or joins one that asks a similar
question.

## Not modelled

Left out on purpose: the text of errors, logging, User-Agent strings, checks of
arguments that change nothing, and marshalling of metadata. What embeddings mean
is left to a score, and what an adapter does to its contract: up to topK matches
that pass the filter, in order. S3 objects are read after write consistent, as
S3 documents. The programs under `src/examples` are
applications of the package and not part of it; the package entry points only
re-export. The Python package's boto3 session, which takes the place of a
client, is not in `Clients`.
