------------------------------ MODULE Clients ------------------------------
(***************************************************************************)
(* The AWS clients of a DynamoDBStorage, of the views namespace() makes of *)
(* it, and of the memory stores built on them.                             *)
(*                                                                         *)
(* A storage keeps at most one client per service.  It is injected, copied *)
(* from the storage a view was made of, or created by the first call that  *)
(* needs it.  That call looks for a client, awaits the import of the SDK   *)
(* and only then creates and keeps one: two first calls may overlap, and   *)
(* namespace() may run between the two steps.                              *)
(***************************************************************************)
EXTENDS Naturals, FiniteSets

CONSTANTS
  Storages,  \* the storage objects of the application
  Root,      \* the one the application constructs itself
  Stores,    \* its memory stores
  Calls,     \* the calls that may be running at once
  Regions,   \* AWS Regions
  Default,   \* the Region the SDK's default chain resolves to
  Empty,     \* the empty string, as a configured region
  None       \* undefined

ASSUME StorageAssumption == Root \in Storages /\ None \notin Storages
ASSUME RegionAssumption ==
  /\ Default \in Regions
  /\ None \notin Regions /\ Empty \notin Regions /\ None # Empty
ASSUME CallAssumption == IsFiniteSet(Calls)

VARIABLES
  config,   \* what the application passed to the constructor of Root
  storage,  \* the fields of each storage that select its clients
  store,    \* each memory store's BedrockEmbedder
  call,     \* the call to AWS each running call is about to make
  made,     \* clients each storage has created, by service
  sent      \* the clients that requests of each service went out by

vars == <<config, storage, store, call, made, sent>>

Services == {"dynamodb", "s3"}

\* A client has a Region; `own` tells the package created it.
Client == [region : Regions, own : BOOLEAN]

ASSUME ClientAssumption == None \notin Client

ConfiguredRegion == Regions \cup {Empty, None}
Config == [region : ConfiguredRegion, client : Client \cup {None},
           s3Client : Client \cup {None}]
Storage == [region : ConfiguredRegion, client : [Services -> Client \cup {None}]]
Embedder == [region : Regions \cup {None}, client : Client \cup {None}]
Call == [storage : Storages, service : Services, step : {"load", "create"}]

ASSUME RecordAssumption == None \notin Storage \cup Embedder \cup Call

\* An empty string is as good as no region.
Set(region) == region \notin {Empty, None}

\* MUTANT: the configured value reaches the client as it is.
RegionOfRaw(region) == region

\* The Region of a client created with a configured region.
RegionOf(region) == IF Set(region) THEN region ELSE Default

NewClient(region) == [region |-> RegionOf(region), own |-> TRUE]

-----------------------------------------------------------------------------
(* Constructing storages and memory stores.                                *)

\* The constructor throws when both a client and a region are given.
Accepted(cfg) == ~(cfg.client # None /\ Set(cfg.region))

Construct(cfg) ==
  [region |-> cfg.region,
   client |-> [s \in Services |-> IF s = "s3" THEN cfg.s3Client ELSE cfg.client]]

\* MUTANT: a view without a client does not inherit the region.
ViewConfigForgetsRegion(s) ==
  [region |-> None, client |-> s.client["dynamodb"], s3Client |-> s.client["s3"]]

\* MUTANT: a view is not given the S3 client.
ViewConfigForgetsS3(s) ==
  [region |-> IF s.client["dynamodb"] = None THEN s.region ELSE None,
   client |-> s.client["dynamodb"], s3Client |-> None]

\* What namespace() passes to the constructor of a view of s.
ViewConfig(s) ==
  [region   |-> IF s.client["dynamodb"] = None THEN s.region ELSE None,
   client   |-> s.client["dynamodb"],
   s3Client |-> s.client["s3"]]

Namespace(i, j) ==
  /\ storage[i] # None /\ storage[j] = None
  /\ Accepted(ViewConfig(storage[i]))
  /\ storage' = [storage EXCEPT ![j] = Construct(ViewConfig(storage[i]))]
  /\ UNCHANGED <<config, store, call, made, sent>>

\* MUTANT: only a configured region counts.
StorageRegionConfigured(s) == IF Set(s.region) THEN s.region ELSE None

\* The Region a storage talks to, None standing for the default chain.
StorageRegion(s) ==
  IF Set(s.region) THEN s.region
  ELSE IF s.client["dynamodb"] # None THEN s.client["dynamodb"].region
  ELSE None

\* A memory store without an embedder of its own gets a BedrockEmbedder.
NewMemoryStore(i, m) ==
  /\ storage[i] # None /\ store[m] = None
  /\ store' = [store EXCEPT ![m] = [region |-> StorageRegion(storage[i]), client |-> None]]
  /\ UNCHANGED <<config, storage, call, made, sent>>

-----------------------------------------------------------------------------
(* Calls to AWS.                                                           *)

Send(service, client) == sent' = sent \cup {[service |-> service, client |-> client]}

\* An operation awaits the import of the command it sends.
BeginCall(c, i, s) ==
  /\ call[c] = None /\ storage[i] # None
  /\ call' = [call EXCEPT ![c] = [storage |-> i, service |-> s, step |-> "load"]]
  /\ UNCHANGED <<config, storage, store, made, sent>>

\* The storage has a client: the request goes out by it.
UseClient(c) ==
  /\ call[c] # None /\ call[c].step = "load"
  /\ LET client == storage[call[c].storage].client[call[c].service]
     IN  client # None /\ Send(call[c].service, client)
  /\ call' = [call EXCEPT ![c] = None]
  /\ UNCHANGED <<config, storage, store, made>>

\* It has none: the import of the client's module is awaited.
MissClient(c) ==
  /\ call[c] # None /\ call[c].step = "load"
  /\ storage[call[c].storage].client[call[c].service] = None
  /\ call' = [call EXCEPT ![c].step = "create"]
  /\ UNCHANGED <<config, storage, store, made, sent>>

\* MUTANT: the new client is used and not kept.
CreateClientDropped(c) ==
  /\ call[c] # None /\ call[c].step = "create"
  /\ LET i == call[c].storage  s == call[c].service
     IN  /\ made' = [made EXCEPT ![i][s] = @ + 1]
         /\ Send(s, NewClient(storage[i].region))
  /\ call' = [call EXCEPT ![c] = None]
  /\ UNCHANGED <<config, storage, store>>

\* The module is there.  Nothing looks again whether another call has kept a
\* client meanwhile.
CreateClient(c) ==
  /\ call[c] # None /\ call[c].step = "create"
  /\ LET i == call[c].storage
         s == call[c].service
         client == NewClient(storage[i].region)
     IN  /\ storage' = [storage EXCEPT ![i].client[s] = client]
         /\ made' = [made EXCEPT ![i][s] = @ + 1]
         /\ Send(s, client)
  /\ call' = [call EXCEPT ![c] = None]
  /\ UNCHANGED <<config, store>>

\* An import fails (an optional dependency is missing): the call throws.
ImportFails(c) ==
  /\ call[c] # None
  /\ call' = [call EXCEPT ![c] = None]
  /\ UNCHANGED <<config, storage, store, made, sent>>

\* embed() awaits the import first, then finds or creates its client and
\* sends the request without another await.
Embed(m) ==
  /\ store[m] # None
  /\ LET client == IF store[m].client # None THEN store[m].client
                   ELSE NewClient(store[m].region)
     IN  /\ store' = [store EXCEPT ![m].client = client]
         /\ Send("bedrock", client)
  /\ UNCHANGED <<config, storage, call, made>>

-----------------------------------------------------------------------------
Init ==
  /\ config \in Config
  /\ Accepted(config)
  /\ \A client \in {config.client, config.s3Client} : client # None => ~client.own
  /\ storage = [i \in Storages |-> IF i = Root THEN Construct(config) ELSE None]
  /\ store = [m \in Stores |-> None]
  /\ call = [c \in Calls |-> None]
  /\ made = [i \in Storages |-> [s \in Services |-> 0]]
  /\ sent = {}

Advance(c) == UseClient(c) \/ MissClient(c) \/ CreateClient(c) \/ ImportFails(c)

Next ==
  \/ \E i, j \in Storages : Namespace(i, j)
  \/ \E i \in Storages, m \in Stores : NewMemoryStore(i, m)
  \/ \E c \in Calls, i \in Storages, s \in Services : BeginCall(c, i, s)
  \/ \E c \in Calls : Advance(c)
  \/ \E m \in Stores : Embed(m)

Spec == Init /\ [][Next]_vars

-----------------------------------------------------------------------------
(* Properties.                                                             *)

\* The values every variable ranges over: among them, that a client always
\* has a Region and a running call always a storage.
TypeOK ==
  /\ config \in Config
  /\ storage \in [Storages -> Storage \cup {None}]
  /\ store \in [Stores -> Embedder \cup {None}]
  /\ call \in [Calls -> Call \cup {None}]
  /\ \A c \in Calls : call[c] # None => storage[call[c].storage] # None
  /\ made \in [Storages -> [Services -> Nat]]
  /\ sent \subseteq [service : Services \cup {"bedrock"}, client : Client]

\* Where the application said its table is, and its bucket.
Home == IF config.client # None THEN config.client.region ELSE RegionOf(config.region)
BucketHome ==
  IF config.s3Client # None THEN config.s3Client.region ELSE RegionOf(config.region)

\* However views were made and whenever clients were created, every request
\* to the table goes to the Region the application configured, and by its own
\* client if it injected one: a view is the same table under a prefix.
OneTable ==
  \A r \in sent : r.service = "dynamodb" =>
    /\ r.client.region = Home
    /\ config.client # None => r.client = config.client

\* A memory store's default embedder calls Bedrock in the Region of the table,
\* also when it stands on a view that holds a client and no region.
EmbedsAtHome ==
  \A r \in sent : r.service = "bedrock" => r.client.region = Home

\* First calls that overlap may each create a client, so a storage can make
\* several, but no more than there were calls running at once, and none where
\* the application injected one.
FewClients ==
  \A i \in Storages, s \in Services :
    /\ made[i][s] <= Cardinality(Calls)
    /\ made[i][s] > 0 =>
         (IF s = "s3" THEN config.s3Client ELSE config.client) = None

\* Every request for an offloaded value goes to the Region of the bucket: "a
\* real DynamoDBStorage sharing the same client and settings".
OneBucket ==
  \A r \in sent : r.service = "s3" => r.client.region = BucketHome

\* The same where the bucket's Region does not depend on `region`: an S3
\* client was injected, or no region was configured.
BucketWithoutRegion ==
  config.s3Client # None \/ ~Set(config.region) => OneBucket
=============================================================================
