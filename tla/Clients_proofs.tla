--------------------------- MODULE Clients_proofs ---------------------------
(***************************************************************************)
(* Every request to the table, and every request of a memory store's       *)
(* default embedder, goes to the Region the application configured, and    *)
(* what Embedders says of them holds whatever words model IDs are made of: *)
(* proved for any number of storages, views, memory stores and overlapping *)
(* calls.                                                                  *)
(***************************************************************************)
EXTENDS StoreEmbedders, FiniteSetTheorems, SequenceTheorems, TLAPS

\* The assumptions on the constants, for the leaves that need them.
LEMMA Constants ==
  /\ Root \in Storages
  /\ Default \in Regions /\ None \notin Regions /\ Empty \notin Regions
  /\ None \notin Client /\ None \notin Storage /\ None \notin Embedder
  /\ None \notin Call /\ None \notin Storages
BY StorageAssumption, RegionAssumption, ClientAssumption, RecordAssumption

\* A client is created in a Region, whatever was configured.
LEMMA NewClientType ==
  ASSUME NEW r \in ConfiguredRegion
  PROVE  /\ NewClient(r) \in Client
         /\ NewClient(r).region = RegionOf(r)
         /\ RegionOf(r) \in Regions
BY Constants DEF NewClient, RegionOf, Set, Client, ConfiguredRegion

\* What namespace() passes on, and what the constructor makes of it, are of
\* their types.
LEMMA ViewType ==
  ASSUME NEW s \in Storage
  PROVE  /\ ViewConfig(s) \in Config
         /\ Construct(ViewConfig(s)) \in Storage
BY Constants DEF ViewConfig, Construct, Config, Storage, ConfiguredRegion, Services

\* The region of a storage.
LEMMA StorageRegionType ==
  ASSUME NEW s \in Storage
  PROVE  StorageRegion(s) \in Regions \cup {None}
BY Constants DEF StorageRegion, Set, Storage, ConfiguredRegion, Services, Client

\* The variables keep their types: Init establishes them.
LEMMA InitType == Init => TypeOK
<1> SUFFICES ASSUME Init PROVE TypeOK
    OBVIOUS
<1>1. Construct(config) \in Storage
  BY DEF Init, Construct, Config, Storage, Services
<1>2. storage \in [Storages -> Storage \cup {None}]
  BY <1>1 DEF Init
<1>3. made \in [Storages -> [Services -> Nat]]
  BY DEF Init
<1> QED
  BY <1>2, <1>3 DEF Init, TypeOK

\* ... and every step keeps them.
LEMMA StepType == TypeOK /\ [Next]_vars => TypeOK'
<1> SUFFICES ASSUME TypeOK, [Next]_vars PROVE TypeOK'
    OBVIOUS
<1> USE Constants
<1>1. ASSUME NEW i \in Storages, NEW j \in Storages, Namespace(i, j)
      PROVE  TypeOK'
  <2>1. storage[i] \in Storage
    BY <1>1 DEF TypeOK, Namespace
  <2>2. Construct(ViewConfig(storage[i])) \in Storage
    BY <2>1, ViewType
  <2>3. storage' \in [Storages -> Storage \cup {None}]
    BY <1>1, <2>2 DEF TypeOK, Namespace
  <2>4. \A c \in Calls : call'[c] # None => storage'[call'[c].storage] # None
    BY <1>1, <2>2 DEF TypeOK, Namespace, Call
  <2> QED
    BY <1>1, <2>3, <2>4 DEF TypeOK, Namespace
<1>2. ASSUME NEW i \in Storages, NEW m \in Stores, NewMemoryStore(i, m)
      PROVE  TypeOK'
  <2>1. StorageRegion(storage[i]) \in Regions \cup {None}
    BY <1>2, StorageRegionType DEF TypeOK, NewMemoryStore
  <2>2. [region |-> StorageRegion(storage[i]), client |-> None] \in Embedder
    BY <2>1 DEF Embedder
  <2> QED
    BY <1>2, <2>2 DEF TypeOK, NewMemoryStore
<1>3. ASSUME NEW c \in Calls, NEW i \in Storages, NEW s \in Services, BeginCall(c, i, s)
      PROVE  TypeOK'
  <2>1. [storage |-> i, service |-> s, step |-> "load"] \in Call
    BY DEF Call
  <2> QED
    BY <1>3, <2>1 DEF TypeOK, BeginCall
<1>4. ASSUME NEW c \in Calls, UseClient(c)
      PROVE  TypeOK'
  <2>1. call[c] \in Call
    BY <1>4 DEF TypeOK, UseClient
  <2>2. storage[call[c].storage] \in Storage
    BY <2>1, <1>4 DEF TypeOK, UseClient, Call
  <2>3. storage[call[c].storage].client[call[c].service] \in Client
    BY <2>1, <2>2, <1>4 DEF Storage, Call, UseClient
  <2> QED
    BY <1>4, <2>1, <2>3 DEF TypeOK, UseClient, Send, Call
<1>5. ASSUME NEW c \in Calls, MissClient(c)
      PROVE  TypeOK'
  <2>1. call[c] \in Call
    BY <1>5 DEF TypeOK, MissClient
  <2>2. [call[c] EXCEPT !.step = "create"] \in Call
    BY <2>1 DEF Call
  <2>3. [call[c] EXCEPT !.step = "create"].storage = call[c].storage
    BY <2>1 DEF Call
  <2> QED
    BY <1>5, <2>2, <2>3 DEF TypeOK, MissClient
<1>6. ASSUME NEW c \in Calls, CreateClient(c)
      PROVE  TypeOK'
  <2> DEFINE i == call[c].storage
             s == call[c].service
             client == NewClient(storage[i].region)
  <2>1. call[c] \in Call /\ i \in Storages /\ s \in Services
    BY <1>6 DEF TypeOK, CreateClient, Call
  <2>2. storage[i] \in Storage
    BY <2>1, <1>6 DEF TypeOK, CreateClient
  <2>3. client \in Client
    BY <2>2, NewClientType DEF Storage
  <2>4. [storage[i] EXCEPT !.client[s] = client] \in Storage
    BY <2>1, <2>2, <2>3 DEF Storage
  <2>5. storage' \in [Storages -> Storage \cup {None}]
    BY <1>6, <2>1, <2>4 DEF TypeOK, CreateClient
  <2>6. \A d \in Calls : call'[d] # None => storage'[call'[d].storage] # None
    BY <1>6, <2>1, <2>4 DEF TypeOK, CreateClient, Call
  <2>7. made' \in [Storages -> [Services -> Nat]]
    BY <1>6, <2>1 DEF TypeOK, CreateClient
  <2>8. sent' \subseteq [service : Services \cup {"bedrock"}, client : Client]
    BY <1>6, <2>1, <2>3 DEF TypeOK, CreateClient, Send
  <2>9. call' \in [Calls -> Call \cup {None}]
    BY <1>6 DEF TypeOK, CreateClient
  <2> QED
    BY <1>6, <2>5, <2>6, <2>7, <2>8, <2>9 DEF TypeOK, CreateClient
<1>7. ASSUME NEW c \in Calls, ImportFails(c)
      PROVE  TypeOK'
  BY <1>7 DEF TypeOK, ImportFails
<1>8. ASSUME NEW m \in Stores, Embed(m)
      PROVE  TypeOK'
  <2> DEFINE client == IF store[m].client # None THEN store[m].client
                       ELSE NewClient(store[m].region)
  <2>1. store[m] \in Embedder
    BY <1>8 DEF TypeOK, Embed
  <2>2. client \in Client
    BY <2>1, NewClientType DEF Embedder, ConfiguredRegion
  <2>3. [store[m] EXCEPT !.client = client] \in Embedder
    BY <2>1, <2>2 DEF Embedder
  <2>4. store' \in [Stores -> Embedder \cup {None}]
    BY <1>8, <2>3 DEF TypeOK, Embed
  <2>5. sent' \subseteq [service : Services \cup {"bedrock"}, client : Client]
    BY <1>8, <2>2 DEF TypeOK, Embed, Send
  <2> QED
    BY <1>8, <2>4, <2>5 DEF TypeOK, Embed
<1>9. CASE UNCHANGED vars
  BY <1>9 DEF TypeOK, vars
<1> QED
  BY <1>1, <1>2, <1>3, <1>4, <1>5, <1>6, <1>7, <1>8, <1>9 DEF Next, Advance

\* Type correctness of Clients: TypeOK is an invariant.
THEOREM TypeCorrect == Spec => []TypeOK
BY InitType, StepType, PTL DEF Spec

-----------------------------------------------------------------------------
(* Every client of the table, and every Region a client may yet be created *)
(* in, is where the application said.                                      *)

AtHome(client) ==
  /\ client.region = Home
  /\ config.client # None => client = config.client

\* A storage with a client has no other Region than Home's; one without has
\* inherited the configuration a client will be created from.
StoragesAtHome ==
  \A i \in Storages : storage[i] # None =>
    /\ Set(storage[i].region) => storage[i].region = Home
    /\ storage[i].client["dynamodb"] # None => AtHome(storage[i].client["dynamodb"])
    /\ storage[i].client["dynamodb"] = None =>
         config.client = None /\ RegionOf(storage[i].region) = Home

\* A call that found no client creates one there, though meanwhile its storage
\* may have got one from another call.
CallsAtHome ==
  \A c \in Calls : call[c] # None /\ call[c].step = "create" /\ call[c].service = "dynamodb" =>
    config.client = None /\ RegionOf(storage[call[c].storage].region) = Home

StoresAtHome ==
  \A m \in Stores : store[m] # None =>
    /\ RegionOf(store[m].region) = Home
    /\ store[m].client # None => store[m].client.region = Home

HomeInv ==
  /\ TypeOK /\ Accepted(config)
  /\ StoragesAtHome /\ CallsAtHome /\ StoresAtHome
  /\ OneTable /\ EmbedsAtHome

\* Home depends on the configuration alone, which no step changes.
LEMMA HomeStays == [Next]_vars => config' = config /\ Home' = Home
BY DEF Next, Advance, vars, Home, Namespace, NewMemoryStore, BeginCall, UseClient, MissClient,
       CreateClient, ImportFails, Embed

\* HomeInv at the beginning.
LEMMA InitHome == Init => HomeInv
<1> SUFFICES ASSUME Init PROVE HomeInv
    OBVIOUS
<1>1. TypeOK
  BY InitType
<1>2. storage[Root] = Construct(config) /\ \A i \in Storages \ {Root} : storage[i] = None
  BY Constants DEF Init
<1>3. StoragesAtHome
  BY <1>2, Constants DEF Init, StoragesAtHome, AtHome, Home, Construct, Accepted, Services, Set,
     RegionOf
<1> QED
  BY <1>1, <1>3 DEF Init, HomeInv, CallsAtHome, StoresAtHome, OneTable, EmbedsAtHome

\* Every step keeps HomeInv.
LEMMA StepHome == HomeInv /\ [Next]_vars => HomeInv'
<1> SUFFICES ASSUME HomeInv, [Next]_vars PROVE HomeInv'
    OBVIOUS
<1> USE Constants
<1>1. TypeOK /\ TypeOK' /\ Accepted(config)' /\ config' = config /\ Home' = Home
  BY StepType, HomeStays DEF HomeInv, Accepted
<1>2. \A client : AtHome(client)' <=> AtHome(client)
  BY <1>1 DEF AtHome
<1> SUFFICES (StoragesAtHome /\ CallsAtHome /\ StoresAtHome /\ OneTable /\ EmbedsAtHome)'
  BY <1>1 DEF HomeInv
<1> USE DEF HomeInv
<1>3. ASSUME NEW i \in Storages, NEW j \in Storages, Namespace(i, j)
      PROVE  (StoragesAtHome /\ CallsAtHome /\ StoresAtHome /\ OneTable /\ EmbedsAtHome)'
  <2> DEFINE view == Construct(ViewConfig(storage[i]))
  <2>1. storage[i] \in Storage /\ storage[j] = None
    BY <1>1, <1>3 DEF TypeOK, Namespace
  <2>2. /\ view.region = IF storage[i].client["dynamodb"] = None THEN storage[i].region ELSE None
        /\ view.client["dynamodb"] = storage[i].client["dynamodb"]
    BY DEF Construct, ViewConfig, Services
  <2>3. storage' = [storage EXCEPT ![j] = view]
    BY <1>3 DEF Namespace
  <2>4. StoragesAtHome'
    BY <1>1, <1>2, <1>3, <2>1, <2>2, <2>3 DEF StoragesAtHome, TypeOK, Set, Namespace
  <2>5. CallsAtHome'
    BY <1>1, <1>3, <2>1, <2>3 DEF CallsAtHome, TypeOK, Namespace
  <2> QED
    BY <1>1, <1>3, <2>4, <2>5 DEF StoresAtHome, OneTable, EmbedsAtHome, Namespace
<1>4. ASSUME NEW i \in Storages, NEW m \in Stores, NewMemoryStore(i, m)
      PROVE  (StoragesAtHome /\ CallsAtHome /\ StoresAtHome /\ OneTable /\ EmbedsAtHome)'
  <2>1. storage[i] \in Storage
    BY <1>1, <1>4 DEF TypeOK, NewMemoryStore
  <2>2. RegionOf(StorageRegion(storage[i])) = Home
    <3>1. CASE Set(storage[i].region)
      BY <3>1, <1>4 DEF StoragesAtHome, NewMemoryStore, StorageRegion, RegionOf
    <3>2. CASE ~Set(storage[i].region) /\ storage[i].client["dynamodb"] # None
      <4>1. storage[i].client["dynamodb"].region \in Regions
        BY <2>1, <3>2 DEF Storage, Client, Services
      <4> QED
        BY <3>2, <4>1, <1>4 DEF StoragesAtHome, NewMemoryStore, StorageRegion, RegionOf, Set, AtHome
    <3>3. CASE ~Set(storage[i].region) /\ storage[i].client["dynamodb"] = None
      BY <3>3, <1>4 DEF StoragesAtHome, NewMemoryStore, StorageRegion, RegionOf, Set
    <3> QED
      BY <3>1, <3>2, <3>3
  <2>3. StoresAtHome'
    BY <1>1, <1>4, <2>2 DEF StoresAtHome, TypeOK, NewMemoryStore
  <2> QED
    BY <1>1, <1>2, <1>4, <2>3 DEF StoragesAtHome, CallsAtHome, OneTable, EmbedsAtHome, NewMemoryStore
<1>5. ASSUME NEW c \in Calls, NEW i \in Storages, NEW s \in Services, BeginCall(c, i, s)
      PROVE  (StoragesAtHome /\ CallsAtHome /\ StoresAtHome /\ OneTable /\ EmbedsAtHome)'
  <2>1. CallsAtHome'
    BY <1>1, <1>5 DEF CallsAtHome, TypeOK, BeginCall
  <2> QED
    BY <1>1, <1>2, <1>5, <2>1 DEF StoragesAtHome, StoresAtHome, OneTable, EmbedsAtHome, BeginCall
<1>6. ASSUME NEW c \in Calls, UseClient(c)
      PROVE  (StoragesAtHome /\ CallsAtHome /\ StoresAtHome /\ OneTable /\ EmbedsAtHome)'
  <2> DEFINE i == call[c].storage
             s == call[c].service
             client == storage[i].client[s]
  <2>1. i \in Storages /\ s \in Services /\ storage[i] # None
    BY <1>1, <1>6 DEF TypeOK, UseClient, Call
  <2>2. s = "dynamodb" => AtHome(client)
    BY <1>6, <2>1 DEF StoragesAtHome, UseClient
  <2>3. sent' = sent \cup {[service |-> s, client |-> client]}
    BY <1>6 DEF UseClient, Send
  <2>4. OneTable' /\ EmbedsAtHome'
    BY <1>1, <2>1, <2>2, <2>3 DEF OneTable, EmbedsAtHome, AtHome, Services
  <2>5. CallsAtHome'
    BY <1>1, <1>6 DEF CallsAtHome, TypeOK, UseClient
  <2> QED
    BY <1>1, <1>2, <1>6, <2>4, <2>5 DEF StoragesAtHome, StoresAtHome, UseClient
<1>7. ASSUME NEW c \in Calls, MissClient(c)
      PROVE  (StoragesAtHome /\ CallsAtHome /\ StoresAtHome /\ OneTable /\ EmbedsAtHome)'
  <2>1. call[c] \in Call /\ storage[call[c].storage] # None /\ call[c].storage \in Storages
    BY <1>1, <1>7 DEF TypeOK, MissClient, Call
  <2>2. call'[c].storage = call[c].storage /\ call'[c].service = call[c].service
    BY <1>1, <1>7, <2>1 DEF TypeOK, MissClient, Call
  <2>3. CallsAtHome'
    BY <1>1, <1>7, <2>1, <2>2 DEF CallsAtHome, StoragesAtHome, TypeOK, MissClient
  <2> QED
    BY <1>1, <1>2, <1>7, <2>3 DEF StoragesAtHome, StoresAtHome, OneTable, EmbedsAtHome, MissClient
<1>8. ASSUME NEW c \in Calls, CreateClient(c)
      PROVE  (StoragesAtHome /\ CallsAtHome /\ StoresAtHome /\ OneTable /\ EmbedsAtHome)'
  <2> DEFINE i == call[c].storage
             s == call[c].service
             client == NewClient(storage[i].region)
  <2>1. call[c] \in Call /\ i \in Storages /\ s \in Services /\ storage[i] \in Storage
    BY <1>1, <1>8 DEF TypeOK, CreateClient, Call
  <2>2. client.region = RegionOf(storage[i].region)
    BY DEF NewClient
  <2>3. s = "dynamodb" => AtHome(client)
    BY <1>8, <2>2 DEF CallsAtHome, CreateClient, AtHome
  <2>4. storage' = [storage EXCEPT ![i].client[s] = client]
    BY <1>8 DEF CreateClient
  <2>5. /\ storage'[i].region = storage[i].region
        /\ storage'[i].client = [storage[i].client EXCEPT ![s] = client]
        /\ \A j \in Storages : j # i => storage'[j] = storage[j]
    BY <1>1, <2>1, <2>4 DEF TypeOK, Storage
  <2>6. /\ s = "dynamodb" => storage'[i].client["dynamodb"] = client
        /\ s # "dynamodb" => storage'[i].client["dynamodb"] = storage[i].client["dynamodb"]
    BY <2>1, <2>5 DEF Storage, Services
  <2>7. client # None
    BY <2>1, NewClientType DEF Storage
  <2>8. StoragesAtHome'
    <3> SUFFICES ASSUME NEW j \in Storages, storage'[j] # None
                 PROVE  /\ Set(storage'[j].region) => storage'[j].region = Home
                        /\ storage'[j].client["dynamodb"] # None => AtHome(storage'[j].client["dynamodb"])
                        /\ storage'[j].client["dynamodb"] = None =>
                             config.client = None /\ RegionOf(storage'[j].region) = Home
        BY <1>1, <1>2 DEF StoragesAtHome, AtHome
    <3>1. CASE j # i
      BY <3>1, <2>5 DEF StoragesAtHome
    <3>2. CASE j = i /\ s = "dynamodb"
      BY <3>2, <2>1, <2>3, <2>5, <2>6, <2>7 DEF StoragesAtHome
    <3>3. CASE j = i /\ s # "dynamodb"
      BY <3>3, <2>1, <2>5, <2>6 DEF StoragesAtHome
    <3> QED
      BY <3>1, <3>2, <3>3
  <2>9. CallsAtHome'
    <3>1. \A j \in Storages : storage[j] # None => storage'[j].region = storage[j].region
      BY <2>5
    <3>2. call' = [call EXCEPT ![c] = None]
      BY <1>8 DEF CreateClient
    <3> QED
      BY <1>1, <3>1, <3>2 DEF CallsAtHome, TypeOK, Call
  <2>10. OneTable' /\ EmbedsAtHome'
    <3>1. sent' = sent \cup {[service |-> s, client |-> client]}
      BY <1>8 DEF CreateClient, Send
    <3> QED
      BY <1>1, <2>1, <2>3, <3>1 DEF OneTable, EmbedsAtHome, AtHome, Services
  <2>11. StoresAtHome'
    BY <1>1, <1>8 DEF StoresAtHome, CreateClient
  <2> QED
    BY <2>8, <2>9, <2>10, <2>11
<1>9. ASSUME NEW c \in Calls, ImportFails(c)
      PROVE  (StoragesAtHome /\ CallsAtHome /\ StoresAtHome /\ OneTable /\ EmbedsAtHome)'
  <2>1. CallsAtHome'
    BY <1>1, <1>9 DEF CallsAtHome, TypeOK, ImportFails
  <2> QED
    BY <1>1, <1>2, <1>9, <2>1 DEF StoragesAtHome, StoresAtHome, OneTable, EmbedsAtHome, ImportFails
<1>10. ASSUME NEW m \in Stores, Embed(m)
       PROVE  (StoragesAtHome /\ CallsAtHome /\ StoresAtHome /\ OneTable /\ EmbedsAtHome)'
  <2> DEFINE client == IF store[m].client # None THEN store[m].client
                       ELSE NewClient(store[m].region)
  <2>1. client.region = Home
    BY <1>10 DEF StoresAtHome, Embed, NewClient
  <2>2. store' = [store EXCEPT ![m].client = client]
    BY <1>10 DEF Embed
  <2>3. store[m] \in Embedder
    BY <1>1, <1>10 DEF TypeOK, Embed
  <2>4. /\ store'[m].region = store[m].region
        /\ store'[m].client = client
        /\ \A n \in Stores : n # m => store'[n] = store[n]
    BY <1>1, <2>2, <2>3 DEF TypeOK, Embedder
  <2>5. StoresAtHome'
    BY <1>1, <1>10, <2>1, <2>4 DEF StoresAtHome, Embed
  <2>6. sent' = sent \cup {[service |-> "bedrock", client |-> client]}
    BY <1>10 DEF Embed, Send
  <2>7. OneTable' /\ EmbedsAtHome'
    BY <1>1, <2>1, <2>6 DEF OneTable, EmbedsAtHome
  <2> QED
    BY <1>1, <1>2, <1>10, <2>5, <2>7 DEF StoragesAtHome, CallsAtHome, Embed
<1>11. ASSUME UNCHANGED vars
       PROVE  (StoragesAtHome /\ CallsAtHome /\ StoresAtHome /\ OneTable /\ EmbedsAtHome)'
  BY <1>1, <1>2, <1>11 DEF StoragesAtHome, CallsAtHome, StoresAtHome, OneTable, EmbedsAtHome, vars
<1> QED
  BY <1>3, <1>4, <1>5, <1>6, <1>7, <1>8, <1>9, <1>10, <1>11 DEF Next, Advance

\* HomeInv always holds.
LEMMA AlwaysHome == Spec => []HomeInv
BY InitHome, StepHome, PTL DEF Spec

\* Every request to the table goes to the Region the application configured,
\* by its own client if it injected one, whichever view it was made through
\* and whenever the client was created.
THEOREM TableIsOne == Spec => []OneTable
BY AlwaysHome, PTL DEF HomeInv

\* The default embedder of every memory store calls Bedrock in that Region.
THEOREM EmbedderFollows == Spec => []EmbedsAtHome
BY AlwaysHome, PTL DEF HomeInv
-----------------------------------------------------------------------------
(* Requests for offloaded values.                                          *)

\* Where the Region of the bucket does not depend on `region`.
Unregional == config.s3Client # None \/ ~Set(config.region)

\* A storage lacks an S3 client only if none was injected: namespace() hands
\* on whichever there is.  It has a region only if the application gave one.
StoragesAtBucket ==
  \A i \in Storages : storage[i] # None =>
    /\ ~Set(config.region) => ~Set(storage[i].region)
    /\ storage[i].client["s3"] = None => config.s3Client = None
    /\ storage[i].client["s3"] # None /\ Unregional =>
         storage[i].client["s3"].region = BucketHome

\* So a call that is about to create an S3 client found none injected.
CallsAtBucket ==
  \A c \in Calls : call[c] # None /\ call[c].step = "create" /\ call[c].service = "s3" =>
    config.s3Client = None

BucketInv == StoragesAtBucket /\ CallsAtBucket /\ BucketWithoutRegion

\* BucketInv at the beginning.
LEMMA InitBucket == Init => BucketInv
<1> SUFFICES ASSUME Init PROVE BucketInv
    OBVIOUS
<1>1. storage[Root] = Construct(config) /\ \A i \in Storages \ {Root} : storage[i] = None
  BY Constants DEF Init
<1>2. StoragesAtBucket
  BY <1>1, Constants DEF StoragesAtBucket, Construct, Services, Unregional, BucketHome
<1> QED
  BY <1>2 DEF Init, BucketInv, CallsAtBucket, BucketWithoutRegion, OneBucket

\* What the bucket's Region is depends on the configuration alone.
LEMMA BucketStays ==
  [Next]_vars => config' = config /\ BucketHome' = BucketHome /\ Unregional' = Unregional
BY HomeStays DEF BucketHome, Unregional

\* Every step keeps BucketInv.
LEMMA StepBucket == TypeOK /\ BucketInv /\ [Next]_vars => BucketInv'
<1> SUFFICES ASSUME TypeOK, BucketInv, [Next]_vars PROVE BucketInv'
    OBVIOUS
<1> USE Constants, BucketStays DEF BucketInv
<1>1. ASSUME NEW i \in Storages, NEW j \in Storages, Namespace(i, j)
      PROVE  BucketInv'
  <2> DEFINE view == Construct(ViewConfig(storage[i]))
  <2>1. /\ view.client["s3"] = storage[i].client["s3"]
        /\ view.region \in {storage[i].region, None}
    BY DEF Construct, ViewConfig, Services
  <2>2. storage[i] # None /\ storage' = [storage EXCEPT ![j] = view]
    BY <1>1 DEF Namespace
  <2>3. StoragesAtBucket'
    BY <2>1, <2>2 DEF StoragesAtBucket, TypeOK, Set
  <2> QED
    BY <1>1, <2>3 DEF CallsAtBucket, BucketWithoutRegion, OneBucket, Unregional, Namespace
<1>2. ASSUME NEW c \in Calls, UseClient(c)
      PROVE  BucketInv'
  <2> DEFINE i == call[c].storage
             s == call[c].service
  <2>1. i \in Storages /\ storage[i] # None
    BY <1>2 DEF TypeOK, UseClient, Call
  <2>2. s = "s3" /\ Unregional => storage[i].client[s].region = BucketHome
    BY <1>2, <2>1 DEF StoragesAtBucket, UseClient
  <2>3. BucketWithoutRegion'
    <3> DEFINE client == storage[i].client[s]
    <3>1. /\ sent' = sent \cup {[service |-> s, client |-> client]}
          /\ UNCHANGED config
      BY <1>2 DEF UseClient, Send
    <3>2. s = "s3" /\ Unregional => client.region = BucketHome
      BY <2>2
    <3> HIDE DEF s, client
    <3> QED
      BY <3>1, <3>2 DEF BucketWithoutRegion, OneBucket, Unregional, BucketHome
  <2> QED
    BY <1>2, <2>3 DEF StoragesAtBucket, CallsAtBucket, TypeOK, UseClient
<1>3. ASSUME NEW c \in Calls, MissClient(c)
      PROVE  BucketInv'
  <2>1. call[c] \in Call /\ storage[call[c].storage] # None
    BY <1>3 DEF TypeOK, MissClient
  <2>2. call[c].service = "s3" => config.s3Client = None
    BY <1>3, <2>1 DEF StoragesAtBucket, MissClient, Call
  <2>3. call'[c].service = call[c].service /\ \A d \in Calls \ {c} : call'[d] = call[d]
    BY <1>3, <2>1 DEF TypeOK, MissClient, Call
  <2>4. CallsAtBucket'
    BY <2>2, <2>3 DEF CallsAtBucket
  <2> QED
    BY <1>3, <2>4 DEF StoragesAtBucket, BucketWithoutRegion, OneBucket, Unregional, MissClient
<1>4. ASSUME NEW c \in Calls, CreateClient(c)
      PROVE  BucketInv'
  <2> DEFINE i == call[c].storage
             s == call[c].service
             client == NewClient(storage[i].region)
  <2>1. call[c] \in Call /\ i \in Storages /\ s \in Services /\ storage[i] \in Storage
    BY <1>4 DEF TypeOK, CreateClient, Call
  <2>2. client # None /\ client.region = RegionOf(storage[i].region)
    BY <2>1, NewClientType DEF Storage, NewClient
  <2>3. s = "s3" => config.s3Client = None
    BY <1>4 DEF CallsAtBucket, CreateClient
  <2>4. s = "s3" /\ Unregional => client.region = BucketHome
    <3>1. storage[i] # None
      BY <2>1
    <3> QED
      BY <2>1, <2>2, <2>3, <3>1 DEF StoragesAtBucket, Unregional, BucketHome, RegionOf
  <2>5. /\ storage'[i].region = storage[i].region
        /\ storage'[i].client = [storage[i].client EXCEPT ![s] = client]
        /\ \A j \in Storages : j # i => storage'[j] = storage[j]
    BY <1>4, <2>1 DEF TypeOK, Storage, CreateClient
  <2>6. /\ s = "s3" => storage'[i].client["s3"] = client
        /\ s # "s3" => storage'[i].client["s3"] = storage[i].client["s3"]
    BY <2>1, <2>5 DEF Storage, Services
  <2>7. StoragesAtBucket'
    <3> SUFFICES ASSUME NEW j \in Storages, storage'[j] # None
                 PROVE  /\ ~Set(config.region) => ~Set(storage'[j].region)
                        /\ storage'[j].client["s3"] = None => config.s3Client = None
                        /\ storage'[j].client["s3"] # None /\ Unregional =>
                             storage'[j].client["s3"].region = BucketHome
        BY DEF StoragesAtBucket
    <3>1. CASE j # i
      BY <2>5, <3>1 DEF StoragesAtBucket
    <3>2. CASE j = i
      <4>1. storage[i] # None
        BY <2>1
      <4> QED
        BY <2>2, <2>4, <2>5, <2>6, <3>2, <4>1 DEF StoragesAtBucket
    <3> QED
      BY <3>1, <3>2
  <2>8. CallsAtBucket'
    BY <1>4 DEF CallsAtBucket, TypeOK, CreateClient
  <2>9. BucketWithoutRegion'
    BY <1>4, <2>4 DEF BucketWithoutRegion, OneBucket, Unregional, CreateClient, Send
  <2> QED
    BY <2>7, <2>8, <2>9
<1>5. ASSUME NEW c \in Calls, (\E i \in Storages, s \in Services : BeginCall(c, i, s)) \/ ImportFails(c)
      PROVE  BucketInv'
  <2>1. UNCHANGED config /\ (call'[c] = None \/ call'[c].step = "load")
    BY <1>5 DEF TypeOK, BeginCall, ImportFails
  <2>2. \A d \in Calls \ {c} : call'[d] = call[d]
    BY <1>5 DEF TypeOK, BeginCall, ImportFails
  <2>3. CallsAtBucket'
    BY <2>1, <2>2 DEF CallsAtBucket
  <2> QED
    BY <1>5, <2>3 DEF StoragesAtBucket, BucketWithoutRegion, OneBucket, Unregional, BeginCall,
       ImportFails
<1>6. ASSUME NEW m \in Stores, Embed(m)
      PROVE  BucketInv'
  <2>1. BucketWithoutRegion'
    BY <1>6 DEF BucketWithoutRegion, OneBucket, Unregional, Embed, Send
  <2> QED
    BY <1>6, <2>1 DEF StoragesAtBucket, CallsAtBucket, Embed
<1>7. ASSUME UNCHANGED vars \/ \E i \in Storages, m \in Stores : NewMemoryStore(i, m)
      PROVE  BucketInv'
  BY <1>7 DEF StoragesAtBucket, CallsAtBucket, BucketWithoutRegion, OneBucket, Unregional,
     NewMemoryStore, vars
<1> QED
  BY <1>1, <1>2, <1>3, <1>4, <1>5, <1>6, <1>7 DEF Next, Advance

\* BucketInv always holds.
LEMMA AlwaysBucket == Spec => []BucketInv
BY InitBucket, StepBucket, TypeCorrect, PTL DEF Spec

\* Every request for an offloaded value goes to the Region of the bucket where
\* that Region does not depend on `region`, through views of any depth and
\* clients created at any time.
THEOREM BucketIsOne == Spec => []BucketWithoutRegion
BY AlwaysBucket, PTL DEF BucketInv
-----------------------------------------------------------------------------
(* How many clients are created.                                           *)

Injected(s) == IF s = "s3" THEN config.s3Client ELSE config.client

\* The calls that are about to create a client of service s for storage i.
Creating(i, s) ==
  {c \in Calls : call[c] # None /\ call[c].step = "create"
                   /\ call[c].storage = i /\ call[c].service = s}

\* A storage that has made a client keeps one, so no further call misses it;
\* the clients made and those that may yet be belong to different calls.
MadeInv ==
  \A i \in Storages, s \in Services :
    /\ made[i][s] + Cardinality(Creating(i, s)) <= Cardinality(Calls)
    /\ made[i][s] > 0 =>
         /\ storage[i] # None /\ storage[i].client[s] # None
         /\ Injected(s) = None

\* A storage without a client, and a call about to create one, tell that the
\* application injected none.
LEMMA NothingInjected ==
  ASSUME HomeInv, BucketInv, NEW c \in Calls, call[c] # None, call[c].step = "create"
  PROVE  Injected(call[c].service) = None
BY DEF HomeInv, BucketInv, CallsAtHome, CallsAtBucket, Injected, TypeOK, Call, Services

\* The calls that make a client are finitely many.
LEMMA CreatingFinite ==
  ASSUME NEW i, NEW s
  PROVE  /\ IsFiniteSet(Creating(i, s)) /\ IsFiniteSet(Calls)
         /\ Cardinality(Creating(i, s)) \in Nat /\ Cardinality(Calls) \in Nat
         /\ Cardinality(Creating(i, s)) <= Cardinality(Calls)
<1>1. Creating(i, s) \in SUBSET Calls
  BY DEF Creating
<1> QED
  BY <1>1, CallAssumption, FS_Subset, FS_CardinalityType

\* MadeInv at the beginning.
LEMMA InitMade == Init => MadeInv
<1> SUFFICES ASSUME Init PROVE MadeInv
    OBVIOUS
<1>1. \A i \in Storages, s \in Services : made[i][s] = 0 /\ Creating(i, s) = {}
  BY DEF Init, Creating
<1> QED
  BY <1>1, FS_EmptySet, CreatingFinite DEF MadeInv

\* A step that creates no client and takes none away, and after which no more
\* calls are about to create one.
LEMMA MadeKept ==
  ASSUME TypeOK, MadeInv, UNCHANGED <<config, made>>,
         \A i \in Storages, s \in Services : Creating(i, s)' \subseteq Creating(i, s),
         \A i \in Storages : storage[i] # None => storage'[i] = storage[i]
  PROVE  MadeInv'
<1> SUFFICES ASSUME NEW i \in Storages, NEW s \in Services
             PROVE  /\ made'[i][s] + Cardinality(Creating(i, s)') <= Cardinality(Calls)
                    /\ made'[i][s] > 0 =>
                         /\ storage'[i] # None /\ storage'[i].client[s] # None
                         /\ Injected(s)' = None
    BY DEF MadeInv
<1>1. Injected(s)' = Injected(s)
  BY DEF Injected
<1>2. /\ Cardinality(Creating(i, s)') <= Cardinality(Creating(i, s))
      /\ Cardinality(Creating(i, s)') \in Nat
  BY CreatingFinite, FS_Subset, FS_CardinalityType
<1>3. made[i][s] \in Nat
  BY DEF TypeOK
<1> QED
  BY <1>1, <1>2, <1>3, CreatingFinite DEF MadeInv

\* Every step keeps MadeInv.
LEMMA StepMade == HomeInv /\ BucketInv /\ MadeInv /\ [Next]_vars => MadeInv'
<1> SUFFICES ASSUME HomeInv, BucketInv, MadeInv, [Next]_vars PROVE MadeInv'
    OBVIOUS
<1>1. TypeOK /\ config' = config
  BY HomeStays DEF HomeInv
<1>2. ASSUME NEW c \in Calls, MissClient(c)
      PROVE  MadeInv'
  <2> DEFINE i == call[c].storage
             s == call[c].service
  <2>1. call[c] \in Call /\ i \in Storages /\ s \in Services /\ storage[i] # None
    BY <1>1, <1>2 DEF TypeOK, MissClient, Call
  <2>2. made[i][s] = 0
    BY <1>1, <1>2, <2>1 DEF MadeInv, MissClient, TypeOK
  <2>3. /\ call'[c].storage = i /\ call'[c].service = s
        /\ \A d \in Calls \ {c} : call'[d] = call[d]
        /\ UNCHANGED <<storage, made>>
    BY <1>1, <1>2, <2>1 DEF TypeOK, MissClient, Call
  <2> SUFFICES ASSUME NEW j \in Storages, NEW t \in Services
               PROVE  /\ made'[j][t] + Cardinality(Creating(j, t)') <= Cardinality(Calls)
                      /\ made'[j][t] > 0 =>
                           /\ storage'[j] # None /\ storage'[j].client[t] # None
                           /\ Injected(t)' = None
      BY DEF MadeInv
  <2>4. CASE j = i /\ t = s
    <3>1. Creating(j, t)' \in SUBSET Calls
      BY DEF Creating
    <3>2. Cardinality(Creating(j, t)') <= Cardinality(Calls)
          /\ Cardinality(Creating(j, t)') \in Nat
      BY <3>1, CallAssumption, FS_Subset, FS_CardinalityType
    <3> QED
      BY <2>2, <2>3, <2>4, <3>2
  <2>5. CASE j # i \/ t # s
    <3>1. Creating(j, t)' = Creating(j, t)
      BY <1>2, <2>3, <2>5 DEF Creating, MissClient
    <3>2. Injected(t)' = Injected(t)
      BY <1>1 DEF Injected
    <3> QED
      BY <2>3, <3>1, <3>2 DEF MadeInv
  <2> QED
    BY <2>4, <2>5
<1>3. ASSUME NEW c \in Calls, CreateClient(c)
      PROVE  MadeInv'
  <2> DEFINE i == call[c].storage
             s == call[c].service
             client == NewClient(storage[i].region)
  <2>1. call[c] \in Call /\ i \in Storages /\ s \in Services /\ storage[i] \in Storage
    BY <1>1, <1>3 DEF TypeOK, CreateClient, Call
  <2>2. client # None
    BY <2>1, NewClientType, Constants DEF Storage
  <2>3. /\ storage'[i].client = [storage[i].client EXCEPT ![s] = client]
        /\ storage'[i] # None
        /\ \A j \in Storages : j # i => storage'[j] = storage[j]
    <3>1. [storage[i] EXCEPT !.client[s] = client] \in Storage
      BY <2>1, NewClientType DEF Storage
    <3> QED
      BY <1>1, <1>3, <2>1, <3>1, Constants DEF TypeOK, Storage, CreateClient
  <2>4. /\ made'[i][s] = made[i][s] + 1
        /\ \A j \in Storages, t \in Services : j # i \/ t # s => made'[j][t] = made[j][t]
    BY <1>1, <1>3, <2>1 DEF TypeOK, CreateClient
  <2>5. call' = [call EXCEPT ![c] = None]
    BY <1>3 DEF CreateClient
  <2> SUFFICES ASSUME NEW j \in Storages, NEW t \in Services
               PROVE  /\ made'[j][t] + Cardinality(Creating(j, t)') <= Cardinality(Calls)
                      /\ made'[j][t] > 0 =>
                           /\ storage'[j] # None /\ storage'[j].client[t] # None
                           /\ Injected(t)' = None
      BY DEF MadeInv
  <2>6. Injected(t)' = Injected(t)
    BY <1>1 DEF Injected
  <2>7. CASE j = i /\ t = s
    <3>1. c \in Creating(j, t) /\ Creating(j, t)' = Creating(j, t) \ {c}
      BY <1>1, <1>3, <2>5, <2>7 DEF Creating, CreateClient, TypeOK
    <3>2. Cardinality(Creating(j, t)') = Cardinality(Creating(j, t)) - 1
      <4>1. IsFiniteSet(Creating(j, t))
        BY CreatingFinite
      <4>2. Cardinality(Creating(j, t) \ {c}) = Cardinality(Creating(j, t)) - 1
        BY <3>1, <4>1, FS_RemoveElement
      <4> QED
        BY <3>1, <4>2
    <3>3. made'[j][t] + Cardinality(Creating(j, t)') <= Cardinality(Calls)
      BY <1>1, <2>1, <2>4, <2>7, <3>2, CreatingFinite DEF MadeInv, TypeOK
    <3>4. Injected(s) = None
      BY <1>3, NothingInjected DEF CreateClient
    <3>5. storage'[i].client[s] # None
      BY <2>1, <2>2, <2>3 DEF Storage
    <3> QED
      BY <2>3, <2>6, <2>7, <3>3, <3>4, <3>5
  <2>8. CASE j # i \/ t # s
    <3>1. Creating(j, t)' = Creating(j, t)
      BY <1>1, <1>3, <2>5, <2>8 DEF Creating, CreateClient, TypeOK
    <3>2. storage[j] # None => storage'[j] # None /\ storage'[j].client[t] = storage[j].client[t]
      BY <2>1, <2>3, <2>8 DEF Storage
    <3> QED
      BY <2>4, <2>6, <2>8, <3>1, <3>2 DEF MadeInv
  <2> QED
    BY <2>7, <2>8
<1>4. ASSUME NEW c \in Calls,
             \/ UseClient(c) \/ ImportFails(c)
             \/ \E i \in Storages, s \in Services : BeginCall(c, i, s)
      PROVE  MadeInv'
  <2>1. UNCHANGED <<storage, made>>
    BY <1>4 DEF UseClient, ImportFails, BeginCall
  <2>2. \A d \in Calls : call'[d] = call[d] \/ call'[d] = None \/ call'[d].step = "load"
    BY <1>1, <1>4 DEF UseClient, ImportFails, BeginCall, TypeOK
  <2>3. \A i \in Storages, s \in Services : Creating(i, s)' \subseteq Creating(i, s)
    BY <2>2 DEF Creating
  <2> QED
    BY <1>1, <2>1, <2>3, MadeKept
<1>5. ASSUME \/ \E i, j \in Storages : Namespace(i, j)
             \/ \E i \in Storages, m \in Stores : NewMemoryStore(i, m)
             \/ \E m \in Stores : Embed(m)
             \/ UNCHANGED vars
      PROVE  MadeInv'
  <2>1. /\ UNCHANGED <<call, made>>
        /\ \A i \in Storages : storage[i] # None => storage'[i] = storage[i]
    BY <1>1, <1>5 DEF Namespace, NewMemoryStore, Embed, vars, TypeOK
  <2>2. \A i \in Storages, s \in Services : Creating(i, s)' \subseteq Creating(i, s)
    BY <2>1 DEF Creating
  <2> QED
    BY <1>1, <2>1, <2>2, MadeKept
<1> QED
  BY <1>2, <1>3, <1>4, <1>5 DEF Next, Advance

\* A storage makes at most as many clients of a service as there are calls that
\* can run at once, however its first calls overlap, and none where the
\* application injected one.
THEOREM ClientsAreFew == Spec => []FewClients
<1>1. TypeOK /\ MadeInv => FewClients
  BY CreatingFinite DEF TypeOK, MadeInv, FewClients, Injected
<1> QED
  BY <1>1, InitMade, StepMade, TypeCorrect, AlwaysHome, AlwaysBucket, PTL DEF Spec

-----------------------------------------------------------------------------
(* Model IDs.                                                              *)

\* What IDs are made of.
Parts == Words \cup {".", ":", "/", "arn", "amazon", "cohere", "titan-embed-text-v2",
                     "embed-english-v3", "embed-multilingual-v3", "embed-v4"}

\* The parts of a joined ID.
LEMMA JoinedParts ==
  ASSUME NEW s \in Seq(Parts), NEW t \in Seq(Parts)
  PROVE  /\ s \o t \in Seq(Parts) /\ Len(s) \in Nat /\ Len(t) \in Nat
         /\ Len(s \o t) = Len(s) + Len(t)
         /\ \A i \in 1..Len(s) : (s \o t)[i] = s[i]
         /\ \A i \in 1..Len(t) : (s \o t)[Len(s) + i] = t[i]
         /\ SubSeq(s \o t, Len(s) + 1, Len(s \o t)) = t
<1> DEFINE p == s \o t
           n == Len(s)
           l == Len(t)
           u == SubSeq(p, n + 1, Len(p))
<1>1. /\ p \in Seq(Parts) /\ n \in Nat /\ l \in Nat /\ Len(p) = n + l
      /\ \A i \in 1..n : p[i] = s[i]
      /\ \A i \in 1..l : p[n + i] = t[i]
  <2> HIDE DEF n, l
  <2>1. /\ p \in Seq(Parts) /\ n \in Nat /\ l \in Nat /\ Len(p) = n + l
        /\ \A i \in 1..Len(p) : p[i] = IF i <= n THEN s[i] ELSE t[i - n]
    BY ConcatProperties, LenProperties DEF n, l
  <2>2. \A i \in 1..n : i \in 1..Len(p) /\ i <= n
    BY <2>1
  <2>3. \A i \in 1..l : n + i \in 1..Len(p) /\ ~(n + i <= n) /\ (n + i) - n = i
    BY <2>1
  <2> QED
    BY <2>1, <2>2, <2>3
<1>2. u = t
  <2> HIDE DEF p, n, l
  <2>1. u \in Seq(Parts) /\ Len(u) = l /\ \A i \in 1..l : u[i] = p[n + i]
    <3>1. n + 1 \in Nat /\ Len(p) \in Nat /\ n + 1 <= Len(p) + 1 /\ Len(p) - (n + 1) + 1 = l
      BY <1>1
    <3>2. /\ u \in Seq(Parts)
          /\ Len(u) = IF n + 1 <= Len(p) THEN Len(p) - (n + 1) + 1 ELSE 0
          /\ \A i \in 1..(Len(p) - (n + 1) + 1) : u[i] = p[(n + 1) + i - 1]
      BY <1>1, <3>1, SubSeqProperties
    <3>3. \A i \in 1..l : (n + 1) + i - 1 = n + i
      BY <1>1
    <3>4. Len(u) = l
      BY <1>1, <3>1, <3>2
    <3> QED
      BY <3>1, <3>2, <3>3, <3>4
  <2>2. Len(u) = Len(t) /\ \A i \in 1..Len(u) : u[i] = t[i]
    BY <1>1, <2>1 DEF l
  <2> HIDE DEF u
  <2> QED
    BY <2>1, <2>2, SeqEqual
<1> QED
  BY <1>1, <1>2

\* The place of the first part of a kind, and of the last.
LEMMA FirstDot ==
  ASSUME NEW id \in Seq(Parts)
  PROVE  /\ \A n \in 1..Len(id) :
              id[n] = "." /\ (\A i \in 1..Len(id) : id[i] = "." => n <= i)
                => SelectInSeq(id, LAMBDA t : t = ".") = n
         /\ (\A i \in 1..Len(id) : id[i] # ".") => SelectInSeq(id, LAMBDA t : t = ".") = 0
<1> DEFINE I == {i \in 1..Len(id) : id[i] = "."}
<1>1. SelectInSeq(id, LAMBDA t : t = ".") = IF I # {} THEN Min(I) ELSE 0
  BY DEF SelectInSeq
<1>2. ASSUME NEW n \in 1..Len(id), id[n] = ".", \A i \in 1..Len(id) : id[i] = "." => n <= i
      PROVE  SelectInSeq(id, LAMBDA t : t = ".") = n
  <2>1. n \in I /\ (\A i \in I : n <= i) /\ (\A i \in I : i \in Int)
    BY <1>2
  <2> HIDE DEF I
  <2>2. \A x \in I : (\A y \in I : x <= y) => x = n
    BY <2>1
  <2>3. Min(I) = n
    BY <2>1, <2>2 DEF Min
  <2> QED
    BY <1>1, <2>1, <2>3
<1>3. ASSUME \A i \in 1..Len(id) : id[i] # "." PROVE I = {}
  BY <1>3
<1> QED
  BY <1>1, <1>2, <1>3

LEMMA LastSlash ==
  ASSUME NEW id \in Seq(Parts), NEW n \in 1..Len(id), id[n] = "/",
         \A i \in 1..Len(id) : id[i] = "/" => i <= n
  PROVE  SelectLastInSeq(id, LAMBDA t : t = "/") = n
<1> DEFINE I == {i \in 1..Len(id) : id[i] = "/"}
<1>1. SelectLastInSeq(id, LAMBDA t : t = "/") = IF I # {} THEN Max(I) ELSE 0
  BY DEF SelectLastInSeq
<1>2. n \in I /\ (\A i \in I : n >= i) /\ (\A i \in I : i \in Int)
  OBVIOUS
<1> HIDE DEF I
<1>3. \A x \in I : (\A y \in I : x >= y) => x = n
  BY <1>2
<1>4. Max(I) = n
  BY <1>2, <1>3 DEF Max
<1> QED
  BY <1>1, <1>2, <1>4

\* The sequence of one part, and the first part of a sequence.
LEMMA FirstPart ==
  ASSUME NEW s \in Seq(Parts), 1 <= Len(s)
  PROVE  SubSeq(s, 1, 1) = <<s[1]>>
<1> DEFINE u == SubSeq(s, 1, 1)
           o == <<s[1]>>
<1>1. s[1] \in Parts /\ Len(s) \in Nat
  BY LenProperties
<1>2. u \in Seq(Parts) /\ Len(u) = 1 /\ u[1] = s[1]
  <2>1. /\ u \in Seq(Parts) /\ Len(u) = (IF 1 <= 1 THEN 1 - 1 + 1 ELSE 0)
        /\ \A i \in 1..(1 - 1 + 1) : u[i] = s[1 + i - 1]
    BY <1>1, SubSeqProperties
  <2> HIDE DEF u
  <2> QED
    BY <2>1
<1>3. o \in Seq(Parts) /\ Len(o) = 1 /\ o[1] = s[1]
  BY <1>1
<1> HIDE DEF u, o
<1>4. u = o
  <2>1. Len(u) = Len(o) /\ \A i \in 1..Len(u) : u[i] = o[i]
    BY <1>2, <1>3
  <2> QED
    BY <1>2, <1>3, <2>1, SeqEqual
<1> QED
  BY <1>4 DEF u, o

\* What an ID needs to be an ARN.
LEMMA ArnBegins ==
  ASSUME NEW id \in Seq(Parts)
  PROVE  IsArn(id) <=> 2 <= Len(id) /\ id[1] = "arn" /\ id[2] = ":"
<1> DEFINE q == <<"arn", ":">>
           u == SubSeq(q, 1, 2)
           w == SubSeq(id, 1, 2)
<1>1. q \in Seq(Parts) /\ Len(q) = 2 /\ q[1] = "arn" /\ q[2] = ":" /\ Len(id) \in Nat
  BY LenProperties DEF Parts
<1>2. IsArn(id) <=> 2 <= Len(id) /\ u = w
  BY <1>1 DEF IsArn, IsPrefix
<1> HIDE DEF q
<1>3. ASSUME 2 <= Len(id)
      PROVE  u = w <=> id[1] = "arn" /\ id[2] = ":"
  <2>1. /\ u \in Seq(Parts) /\ Len(u) = 2 /\ \A i \in 1..2 : u[i] = q[i]
    <3>1. \A i \in 1..2 : q[i] \in Parts
      BY <1>1, LenProperties
    <3>2. /\ u \in Seq(Parts) /\ Len(u) = (IF 1 <= 2 THEN 2 - 1 + 1 ELSE 0)
          /\ \A i \in 1..(2 - 1 + 1) : u[i] = q[1 + i - 1]
      BY <3>1, SubSeqProperties
    <3> HIDE DEF u
    <3> QED
      BY <3>2
  <2>2. /\ w \in Seq(Parts) /\ Len(w) = 2 /\ \A i \in 1..2 : w[i] = id[i]
    <3>1. \A i \in 1..2 : id[i] \in Parts
      BY <1>1, <1>3, LenProperties
    <3>2. /\ w \in Seq(Parts) /\ Len(w) = (IF 1 <= 2 THEN 2 - 1 + 1 ELSE 0)
          /\ \A i \in 1..(2 - 1 + 1) : w[i] = id[1 + i - 1]
      BY <3>1, SubSeqProperties
    <3> HIDE DEF w
    <3> QED
      BY <3>2
  <2> HIDE DEF u, w
  <2>3. u = w <=> \A i \in 1..2 : u[i] = w[i]
    BY <2>1, <2>2, SeqEqual
  <2>4. (\A i \in 1..2 : u[i] = w[i]) <=> u[1] = w[1] /\ u[2] = w[2]
    OBVIOUS
  <2> QED
    BY <1>1, <2>1, <2>2, <2>3, <2>4
<1> QED
  BY <1>2, <1>3

\* The resource of an ARN is what it ends in.
LEMMA ResourceIs ==
  ASSUME NEW a \in Arns, NEW r \in Seq(Parts), \A i \in 1..Len(r) : r[i] # "/", ~IsArn(r)
  PROVE  Resource(a \o r) = r
<1>1. CASE a = <<>>
  <2>1. a \o r = r
    BY <1>1, ConcatEmptySeq
  <2> QED
    BY <2>1 DEF Resource
<1>2. ASSUME NEW w \in Words, NEW v \in Words, a = <<"arn", ":", w, ":", ":", v, "/">>
      PROVE  Resource(a \o r) = r
  <2> DEFINE id == a \o r
             l == Len(r)
  <2>1. a \in Seq(Parts) /\ Len(a) = 7 /\ a[1] = "arn" /\ a[2] = ":" /\ a[7] = "/"
    BY <1>2 DEF Parts
  <2>2. /\ id \in Seq(Parts) /\ l \in Nat /\ Len(id) = 7 + l
        /\ \A i \in 1..7 : id[i] = a[i]
        /\ \A i \in 1..l : id[7 + i] = r[i]
        /\ SubSeq(id, 7 + 1, Len(id)) = r
    <3>1. /\ id \in Seq(Parts) /\ l \in Nat /\ Len(id) = Len(a) + l
          /\ \A i \in 1..Len(a) : id[i] = a[i]
          /\ \A i \in 1..l : id[Len(a) + i] = r[i]
          /\ SubSeq(id, Len(a) + 1, Len(id)) = r
      BY <2>1, JoinedParts
    <3> HIDE DEF id, l
    <3> QED
      BY <2>1, <3>1
  <2> HIDE DEF id
  <2>3. IsArn(id)
    <3>1. 2 <= Len(id) /\ 1 \in 1..7 /\ 2 \in 1..7
      BY <2>2
    <3> QED
      BY <2>1, <2>2, <3>1, ArnBegins
  <2>4. 7 \in 1..Len(id) /\ id[7] = "/"
    BY <2>1, <2>2
  <2>5. ASSUME NEW i \in 1..Len(id), i > 7 PROVE id[i] # "/"
    <3> DEFINE j == i - 7
    <3>1. j \in 1..l /\ 7 + j = i
      BY <2>2, <2>5
    <3> HIDE DEF j
    <3> QED
      BY <2>2, <3>1
  <2>6. \A i \in 1..Len(id) : id[i] = "/" => i <= 7
    BY <2>2, <2>5
  <2>7. SelectLastInSeq(id, LAMBDA t : t = "/") = 7
    BY <2>2, <2>4, <2>6, LastSlash
  <2>8. Resource(id) = SubSeq(id, 7 + 1, Len(id))
    BY <2>3, <2>7 DEF Resource
  <2> QED
    BY <2>2, <2>8 DEF id
<1> QED
  BY <1>1, <1>2 DEF Arns

\* A name with its vendor, below any geography, is found without it.
LEMMA GeographyIs ==
  ASSUME NEW g \in Geographies, NEW b \in Seq(Parts), 2 <= Len(b),
         b[1] \in {"amazon", "cohere"}, b[2] = ".", \A i \in 1..Len(b) : b[i] # "/"
  PROVE  /\ g \o b \in Seq(Parts) /\ \A i \in 1..Len(g \o b) : (g \o b)[i] # "/"
         /\ ~IsArn(g \o b)
         /\ WithoutGeography(g \o b) = b
<1>0. Len(b) \in Nat /\ 1 \in 1..Len(b) /\ 2 \in 1..Len(b)
  BY LenProperties
<1>1. CASE g = <<>>
  <2>1. g \o b = b
    BY <1>1, ConcatEmptySeq
  <2>2. ~IsArn(b)
    BY ArnBegins
  <2>3. SelectInSeq(b, LAMBDA t : t = ".") = 2
    <3>1. \A i \in 1..Len(b) : b[i] = "." => 2 <= i
      BY <1>0
    <3> QED
      BY <1>0, <3>1, FirstDot
  <2>4. SubSeq(b, 1, 2 - 1) \in {<<"amazon">>, <<"cohere">>}
    <3>1. 2 - 1 = 1 /\ SubSeq(b, 1, 1) = <<b[1]>>
      BY <1>0, FirstPart
    <3> QED
      BY <3>1
  <2>5. WithoutGeography(b) = b
    BY <2>3, <2>4 DEF WithoutGeography
  <2> QED
    BY <2>1, <2>2, <2>5
<1>2. ASSUME NEW w \in Words, g = <<w, ".">>
      PROVE  /\ g \o b \in Seq(Parts) /\ \A i \in 1..Len(g \o b) : (g \o b)[i] # "/"
             /\ ~IsArn(g \o b)
             /\ WithoutGeography(g \o b) = b
  <2> DEFINE id == g \o b
             l == Len(b)
  <2>1. /\ g \in Seq(Parts) /\ Len(g) = 2 /\ g[1] = w /\ g[2] = "."
        /\ w \notin {"/", ".", "amazon", "cohere"}
    BY <1>2, WordAssumption DEF Parts
  <2>2. /\ id \in Seq(Parts) /\ l \in Nat /\ Len(id) = 2 + l
        /\ \A i \in 1..2 : id[i] = g[i]
        /\ \A i \in 1..l : id[2 + i] = b[i]
        /\ SubSeq(id, 2 + 1, Len(id)) = b
    <3>1. /\ id \in Seq(Parts) /\ l \in Nat /\ Len(id) = Len(g) + l
          /\ \A i \in 1..Len(g) : id[i] = g[i]
          /\ \A i \in 1..l : id[Len(g) + i] = b[i]
          /\ SubSeq(id, Len(g) + 1, Len(id)) = b
      BY <1>0, <2>1, JoinedParts
    <3> HIDE DEF id, l
    <3> QED
      BY <2>1, <3>1
  <2> HIDE DEF id
  <2>3. id[1] = w /\ id[2] = "." /\ 1 \in 1..Len(id) /\ 2 \in 1..Len(id) /\ 1 <= Len(id)
    BY <2>1, <2>2
  <2>4. ASSUME NEW i \in 1..Len(id) PROVE id[i] # "/"
    <3>1. CASE i <= 2
      BY <2>1, <2>2, <2>3, <3>1
    <3>2. CASE i > 2
      <4> DEFINE j == i - 2
      <4>1. j \in 1..l /\ 2 + j = i
        BY <2>2, <3>2
      <4> HIDE DEF j
      <4> QED
        BY <2>2, <4>1
    <3> QED
      BY <2>2, <3>1, <3>2
  <2>5. ~IsArn(id)
    BY <2>2, <2>3, ArnBegins
  <2>6. SelectInSeq(id, LAMBDA t : t = ".") = 2
    <3>1. \A i \in 1..Len(id) : id[i] = "." => 2 <= i
      BY <2>1, <2>2, <2>3
    <3> QED
      BY <2>2, <2>3, <3>1, FirstDot
  <2>7. SubSeq(id, 1, 2 - 1) \notin {<<"amazon">>, <<"cohere">>}
    <3>1. 2 - 1 = 1 /\ SubSeq(id, 1, 1) = <<w>>
      BY <2>2, <2>3, FirstPart
    <3>2. <<w>> # <<"amazon">> /\ <<w>> # <<"cohere">>
      BY <2>1
    <3> QED
      BY <3>1, <3>2
  <2>8. WithoutGeography(id) = SubSeq(id, 2 + 1, Len(id))
    BY <2>6, <2>7 DEF WithoutGeography
  <2> QED
    BY <2>2, <2>4, <2>5, <2>8 DEF id
<1> QED
  BY <1>1, <1>2 DEF Geographies

\* The prefixes of an ID.
LEMMA PrefixIs ==
  ASSUME NEW c \in Seq(Parts), NEW b \in Seq(Parts)
  PROVE  IsPrefix(c, b) <=> Len(c) <= Len(b) /\ \A i \in 1..Len(c) : c[i] = b[i]
<1> DEFINE n == Len(c)
           l == Len(b)
           u == SubSeq(c, 1, n)
           w == SubSeq(b, 1, n)
<1>1. n \in Nat /\ l \in Nat /\ u = c
  BY LenProperties, SubSeqFull
<1>2. IsPrefix(c, b) <=> n <= l /\ u = w
  BY DEF IsPrefix
<1>3. ASSUME n <= l
      PROVE  c = w <=> \A i \in 1..n : c[i] = b[i]
  <2>1. w \in Seq(Parts) /\ Len(w) = n /\ \A i \in 1..n : w[i] = b[i]
    <3> HIDE DEF n, l
    <3>1. \A i \in 1..n : b[i] \in Parts
      BY <1>1, <1>3, LenProperties DEF l
    <3>2. /\ w \in Seq(Parts) /\ Len(w) = (IF 1 <= n THEN n - 1 + 1 ELSE 0)
          /\ \A i \in 1..(n - 1 + 1) : w[i] = b[1 + i - 1]
      BY <1>1, <3>1, SubSeqProperties
    <3> HIDE DEF w
    <3>3. Len(w) = n
      BY <1>1, <3>2
    <3>4. \A i \in 1..n : i \in 1..(n - 1 + 1) /\ 1 + i - 1 = i
      BY <1>1
    <3> QED
      BY <3>2, <3>3, <3>4
  <2> HIDE DEF w
  <2>2. (\A i \in 1..n : c[i] = w[i]) => c = w
    BY <2>1, SeqEqual
  <2> QED
    BY <2>1, <2>2
<1> HIDE DEF n, l, u, w
<1>4. IsPrefix(c, b) <=> n <= l /\ \A i \in 1..n : c[i] = b[i]
  BY <1>1, <1>2, <1>3
<1> QED
  BY <1>4 DEF n, l

\* A version is nothing, or follows a colon.
LEMMA VersionIs ==
  ASSUME NEW v \in Versions
  PROVE  /\ v \in Seq(Parts) /\ Len(v) \in Nat
         /\ v # <<>> => 1 <= Len(v) /\ v[1] = ":"
         /\ \A i \in 1..Len(v) : v[i] # "/"
<1>1. CASE v = <<>>
  BY <1>1
<1>2. CASE v = <<":">>
  BY <1>2 DEF Parts
<1>3. ASSUME NEW w \in Words, v = <<":", w>>
      PROVE  /\ v \in Seq(Parts) /\ Len(v) \in Nat
             /\ 1 <= Len(v) /\ v[1] = ":"
             /\ \A i \in 1..Len(v) : v[i] # "/"
  BY <1>3, WordAssumption DEF Parts
<1>4. ASSUME NEW w \in Words, v = <<":", w, ":", w>>
      PROVE  /\ v \in Seq(Parts) /\ Len(v) \in Nat
             /\ 1 <= Len(v) /\ v[1] = ":"
             /\ \A i \in 1..Len(v) : v[i] # "/"
  <2>1. v \in Seq(Parts) /\ Len(v) = 4
    BY <1>4 DEF Parts
  <2>2. v[1] = ":" /\ v[2] = w /\ v[3] = ":" /\ v[4] = w /\ w # "/"
    BY <1>4, WordAssumption
  <2> QED
    BY <2>1, <2>2
<1> QED
  BY <1>1, <1>2, <1>3, <1>4 DEF Versions

\* A versioned name names a model if it is the name of the model, not if it goes
\* on or ends before.
LEMMA NamesModelIs ==
  ASSUME NEW n \in Seq(Parts), \A i \in 1..Len(n) : n[i] # ":", NEW v \in Versions,
         NEW m \in Seq(Parts), \A i \in 1..Len(m) : m[i] # ":"
  PROVE  NamesModel(n \o v, m) <=> n = m
<1> DEFINE b == n \o v
           c == Append(m, ":")
           x == Len(n)
           y == Len(m)
           z == Len(v)
<1>1. /\ v \in Seq(Parts) /\ z \in Nat
      /\ v # <<>> => 1 <= z /\ v[1] = ":"
      /\ v = <<>> => z = 0
  BY VersionIs
<1>2. /\ b \in Seq(Parts) /\ x \in Nat /\ y \in Nat /\ Len(b) = x + z
      /\ \A i \in 1..x : b[i] = n[i]
      /\ \A i \in 1..z : b[x + i] = v[i]
  BY <1>1, JoinedParts, LenProperties
<1>3. /\ c \in Seq(Parts) /\ Len(c) = y + 1 /\ c[y + 1] = ":"
      /\ \A i \in 1..y : c[i] = m[i]
  <2>1. ":" \in Parts
    BY DEF Parts
  <2> QED
    BY <2>1, AppendProperties
<1>4. v = <<>> => b = n
  BY ConcatEmptySeq
<1>5. NamesModel(b, m) <=> b = m \/ IsPrefix(c, b)
  BY DEF NamesModel
<1>6. IsPrefix(c, b) <=> Len(c) <= Len(b) /\ \A i \in 1..Len(c) : c[i] = b[i]
  BY <1>2, <1>3, PrefixIs
<1> HIDE DEF b, c, x, y, z
<1>7. v # <<>> => x + 1 \in 1..Len(b) /\ b[x + 1] = ":"
  BY <1>1, <1>2
<1>8. ASSUME n = m PROVE NamesModel(b, m)
  <2>1. CASE v = <<>>
    BY <1>4, <1>5, <1>8, <2>1
  <2>2. CASE v # <<>>
    <3>1. x = y
      BY <1>8 DEF x, y
    <3>2. Len(c) <= Len(b)
      BY <1>1, <1>2, <1>3, <2>2, <3>1
    <3>3. ASSUME NEW i \in 1..Len(c) PROVE c[i] = b[i]
      <4>1. CASE i <= y
        BY <1>2, <1>3, <1>8, <3>1, <4>1
      <4>2. CASE ~(i <= y)
        <5>1. i = y + 1
          BY <1>2, <1>3, <4>2
        <5> QED
          BY <1>3, <1>7, <2>2, <3>1, <5>1
      <4> QED
        BY <4>1, <4>2
    <3> QED
      BY <1>5, <1>6, <3>2, <3>3
  <2> QED
    BY <2>1, <2>2
<1>9. ASSUME b = m PROVE n = m
  <2>1. v = <<>>
    <3>1. SUFFICES ASSUME v # <<>> PROVE FALSE
      OBVIOUS
    <3>2. x + 1 \in 1..Len(m) /\ m[x + 1] = ":"
      BY <1>7, <1>9, <3>1
    <3> QED
      BY <3>2
  <2> QED
    BY <1>4, <1>9, <2>1
<1>10. ASSUME IsPrefix(c, b) PROVE n = m
  <2>1. y + 1 <= x + z /\ \A i \in 1..(y + 1) : c[i] = b[i]
    BY <1>2, <1>3, <1>6, <1>10
  <2>2. b[y + 1] = ":" /\ \A i \in 1..y : b[i] = m[i]
    BY <1>2, <1>3, <2>1
  <2>3. ~(y < x)
    <3>1. SUFFICES ASSUME y < x PROVE FALSE
      OBVIOUS
    <3>2. y + 1 \in 1..x
      BY <1>2, <3>1
    <3>3. n[y + 1] = ":"
      BY <1>2, <2>2, <3>2
    <3> QED
      BY <3>2, <3>3 DEF x
  <2>4. ~(x < y)
    <3>1. SUFFICES ASSUME x < y PROVE FALSE
      OBVIOUS
    <3>2. v # <<>> /\ x + 1 \in 1..y
      BY <1>1, <1>2, <2>1, <3>1
    <3>3. m[x + 1] = ":"
      BY <1>7, <2>2, <3>2
    <3> QED
      BY <3>2, <3>3 DEF y
  <2>5. x = y
    BY <1>2, <2>3, <2>4
  <2>6. \A i \in 1..x : n[i] = m[i]
    BY <1>2, <2>2, <2>5
  <2> QED
    BY <2>5, <2>6, SeqEqual DEF x, y
<1> QED
  BY <1>5, <1>8, <1>9, <1>10 DEF b

\* The names of the supported models have three parts, and each is of one family.
LEMMA NamesAre ==
  ASSUME NEW f \in Families, NEW n \in ModelNames(f)
  PROVE  /\ n \in Seq(Parts) /\ Len(n) = 3
         /\ n[1] \in {"amazon", "cohere"} /\ n[2] = "." /\ n[3] \in Parts \ (Words \cup {":", "/"})
         /\ \A i \in 1..Len(n) : n[i] # ":" /\ n[i] # "/"
         /\ \A h \in Families : n \in ModelNames(h) => h = f
<1> DEFINE t == <<"amazon", ".", "titan-embed-text-v2">>
           e == <<"cohere", ".", "embed-english-v3">>
           m == <<"cohere", ".", "embed-multilingual-v3">>
           r == <<"cohere", ".", "embed-v4">>
<1>1. /\ ModelNames(Titan) = {t} /\ ModelNames(CohereV3) = {e, m} /\ ModelNames(CohereV4) = {r}
      /\ Families = {Titan, CohereV3, CohereV4}
  BY DEF ModelNames, Families, Titan, CohereV3, CohereV4
<1>2. t \in Seq(Parts) /\ e \in Seq(Parts) /\ m \in Seq(Parts) /\ r \in Seq(Parts)
  BY DEF Parts
<1>3. /\ Len(t) = 3 /\ t[1] = "amazon" /\ t[2] = "." /\ t[3] = "titan-embed-text-v2"
      /\ Len(e) = 3 /\ e[1] = "cohere" /\ e[2] = "." /\ e[3] = "embed-english-v3"
      /\ Len(m) = 3 /\ m[1] = "cohere" /\ m[2] = "." /\ m[3] = "embed-multilingual-v3"
      /\ Len(r) = 3 /\ r[1] = "cohere" /\ r[2] = "." /\ r[3] = "embed-v4"
  OBVIOUS
<1> HIDE DEF t, e, m, r
<1>4. n \in {t, e, m, r}
  BY <1>1
<1>5. n \in Seq(Parts) /\ Len(n) = 3 /\ n[1] \in {"amazon", "cohere"} /\ n[2] = "."
  BY <1>2, <1>3, <1>4
<1>6. n[3] \in Parts \ (Words \cup {":", "/"})
  <2>1. n[3] \in {"titan-embed-text-v2", "embed-english-v3", "embed-multilingual-v3", "embed-v4"}
    BY <1>3, <1>4
  <2> QED
    BY <2>1, WordAssumption DEF Parts
<1>7. \A i \in 1..Len(n) : n[i] # ":" /\ n[i] # "/"
  <2>1. \A i \in 1..Len(n) : i = 1 \/ i = 2 \/ i = 3
    BY <1>5
  <2> QED
    BY <1>5, <1>6, <2>1
<1>8. \A h \in Families : n \in ModelNames(h) => h = f
  <2>1. t # e /\ t # m /\ t # r /\ e # r /\ m # r
    BY <1>3
  <2> QED
    BY <1>1, <2>1
<1> QED
  BY <1>5, <1>6, <1>7, <1>8

\* The families that a name names.
NamedBy(n) == {f \in Families : n \in ModelNames(f)}

\* Of every ID that Bedrock makes of a name, the family is that of the name.
LEMMA FamilyIs ==
  ASSUME NEW a \in Arns, NEW g \in Geographies, NEW n \in Seq(Parts), NEW v \in Versions,
         2 <= Len(n), n[1] \in {"amazon", "cohere"}, n[2] = ".",
         \A i \in 1..Len(n) : n[i] # ":" /\ n[i] # "/"
  PROVE  ModelFamily(a \o (g \o (n \o v))) =
           IF NamedBy(n) = {} THEN Unset ELSE CHOOSE f \in NamedBy(n) : TRUE
<1> DEFINE b == n \o v
           r == g \o b
           id == a \o r
           x == Len(n)
           z == Len(v)
<1>1. /\ v \in Seq(Parts) /\ z \in Nat /\ \A i \in 1..z : v[i] # "/"
  BY VersionIs
<1>2. /\ b \in Seq(Parts) /\ x \in Nat /\ Len(b) = x + z
      /\ \A i \in 1..x : b[i] = n[i]
      /\ \A i \in 1..z : b[x + i] = v[i]
  BY <1>1, JoinedParts
<1> HIDE DEF b
<1>3. 2 <= Len(b) /\ b[1] \in {"amazon", "cohere"} /\ b[2] = "."
  <2>1. 2 <= x
    OBVIOUS
  <2> HIDE DEF x, z
  <2>2. 2 <= Len(b) /\ 1 \in 1..x /\ 2 \in 1..x
    BY <1>1, <1>2, <2>1
  <2> QED
    BY <1>2, <2>2
<1>4. ASSUME NEW i \in 1..Len(b) PROVE b[i] # "/"
  <2>1. CASE i <= x
    <3>1. i \in 1..x
      BY <1>1, <1>2, <2>1
    <3> QED
      BY <1>2, <3>1
  <2>2. CASE ~(i <= x)
    <3> DEFINE j == i - x
    <3>1. j \in 1..z /\ x + j = i
      <4> HIDE DEF x, z
      <4> QED
        BY <1>1, <1>2, <2>2
    <3> HIDE DEF j
    <3> QED
      BY <1>1, <1>2, <3>1
  <2> QED
    BY <2>1, <2>2
<1>5. /\ r \in Seq(Parts) /\ \A i \in 1..Len(r) : r[i] # "/"
      /\ ~IsArn(r) /\ WithoutGeography(r) = b
  BY <1>2, <1>3, <1>4, GeographyIs
<1> HIDE DEF r
<1>6. Resource(id) = r
  BY <1>5, ResourceIs
<1> HIDE DEF id
<1>7. \A f \in Families : (\E name \in ModelNames(f) : NamesModel(b, name)) <=> n \in ModelNames(f)
  <2>1. ASSUME NEW f \in Families, NEW name \in ModelNames(f)
        PROVE  NamesModel(b, name) <=> n = name
    <3>1. name \in Seq(Parts) /\ \A i \in 1..Len(name) : name[i] # ":"
      BY NamesAre
    <3> QED
      BY <3>1, NamesModelIs DEF b
  <2> QED
    BY <2>1
<1>8. {f \in Families : \E name \in ModelNames(f) : NamesModel(b, name)} = NamedBy(n)
  BY <1>7 DEF NamedBy
<1>9. ModelFamily(id) = IF NamedBy(n) = {} THEN Unset ELSE CHOOSE f \in NamedBy(n) : TRUE
  <2> DEFINE base == WithoutGeography(Resource(id))
             named == {f \in Families : \E name \in ModelNames(f) : NamesModel(base, name)}
  <2>1. ModelFamily(id) = IF named = {} THEN Unset ELSE CHOOSE f \in named : TRUE
    BY DEF ModelFamily
  <2>2. base = b
    BY <1>5, <1>6
  <2> HIDE DEF base
  <2>3. named = NamedBy(n)
    BY <1>8, <2>2
  <2> HIDE DEF named
  <2> QED
    BY <2>1, <2>3
<1> QED
  BY <1>9 DEF id, r, b

\* An ARN that ends in a word names no model.
LEMMA OpaqueIs ==
  ASSUME NEW a \in Arns, NEW w \in Words
  PROVE  ModelFamily(a \o <<w>>) = Unset
<1> DEFINE r == <<w>>
<1>1. r \in Seq(Parts) /\ Len(r) = 1 /\ r[1] = w /\ w \notin {"/", ".", ":"}
  BY WordAssumption DEF Parts
<1>2. \A i \in 1..Len(r) : r[i] # "/" /\ r[i] # "." /\ r[i] # ":"
  BY <1>1
<1> HIDE DEF r
<1>3. ~IsArn(r)
  BY <1>1, ArnBegins
<1>4. Resource(a \o r) = r
  BY <1>1, <1>2, <1>3, ResourceIs
<1>5. WithoutGeography(r) = r
  <2>1. SelectInSeq(r, LAMBDA t : t = ".") = 0
    BY <1>1, <1>2, FirstDot
  <2>2. ~(0 > 1)
    OBVIOUS
  <2> QED
    BY <2>1, <2>2 DEF WithoutGeography
<1>6. ASSUME NEW f \in Families, NEW name \in ModelNames(f) PROVE ~NamesModel(r, name)
  <2>1. name \in Seq(Parts) /\ Len(name) = 3 /\ \A i \in 1..Len(name) : name[i] # ":"
    BY NamesAre
  <2>2. r \o <<>> = r /\ <<>> \in Versions
    BY <1>1, ConcatEmptySeq DEF Versions
  <2>3. NamesModel(r \o <<>>, name) <=> r = name
    BY <1>1, <1>2, <2>1, <2>2, NamesModelIs
  <2>4. NamesModel(r, name) <=> r = name
    BY <2>2, <2>3
  <2>5. r # name
    <3>1. Len(r) = 1
      BY <1>1
    <3>2. Len(name) = 3
      BY <2>1
    <3>3. 1 # 3
      OBVIOUS
    <3> QED
      BY ONLY <3>1, <3>2, <3>3
  <2> QED
    BY <2>4, <2>5
<1>7. {f \in Families : \E name \in ModelNames(f) : NamesModel(r, name)} = {}
  BY <1>6
<1>8. ModelFamily(a \o r) = Unset
  BY <1>4, <1>5, <1>7 DEF ModelFamily
<1> QED
  BY <1>8 DEF r

\* An ID is its pieces.
LEMMA PiecesOf ==
  ASSUME NEW S, NEW T, NEW id, id \in Concat(S, T)
  PROVE  \E s \in S, t \in T : id = s \o t
BY DEF Concat

\* The IDs of models of these names.
IdsNamed(names) == Concat(Arns, Concat(Geographies, Concat(names, Versions)))

HasParts(id, names) ==
  \E a \in Arns, g \in Geographies, n \in names, v \in Versions : id = a \o (g \o (n \o v))

\* An ID is an ARN's beginning, a geography, a name and a version.
LEMMA PartsOfAnId ==
  ASSUME NEW names, NEW id, id \in IdsNamed(names)
  PROVE  HasParts(id, names)
<1> DEFINE C == Concat(names, Versions)
           B == Concat(Geographies, C)
<1>1. id \in Concat(Arns, B)
  BY DEF IdsNamed
<1> HIDE DEF B
<1>2. PICK a \in Arns, r \in B : id = a \o r
  BY ONLY <1>1 DEF Concat
<1> USE DEF B
<1>3. r \in Concat(Geographies, C)
  BY <1>2
<1> HIDE DEF B, C
<1>4. PICK g \in Geographies, b \in C : r = g \o b
  BY ONLY <1>3 DEF Concat
<1>5. b \in Concat(names, Versions)
  BY <1>4 DEF C
<1>6. PICK n \in names, v \in Versions : b = n \o v
  BY ONLY <1>5 DEF Concat
<1> QED
  BY <1>2, <1>4, <1>6 DEF HasParts

\* A name of a vendor's model that is none of the supported ones.
Unsupported(n) ==
  /\ n \in Seq(Parts) /\ 2 <= Len(n) /\ n[1] \in {"amazon", "cohere"} /\ n[2] = "."
  /\ \A i \in 1..Len(n) : n[i] # ":" /\ n[i] # "/"
  /\ \A h \in Families : n \notin ModelNames(h)

\* A model's name that goes on is no name of a supported model.
LEMMA LongerIs ==
  ASSUME NEW f \in Families, NEW m \in ModelNames(f), NEW w \in Words
  PROVE  Unsupported(Append(m, w))
<1> DEFINE n == Append(m, w)
<1>1. /\ m \in Seq(Parts) /\ Len(m) = 3
      /\ m[1] \in {"amazon", "cohere"} /\ m[2] = "."
      /\ \A i \in 1..Len(m) : m[i] # ":" /\ m[i] # "/"
  BY NamesAre
<1>2. w \in Parts /\ w # ":" /\ w # "/"
  BY WordAssumption DEF Parts
<1>3. /\ n \in Seq(Parts) /\ Len(n) = 4 /\ n[4] = w /\ \A i \in 1..3 : n[i] = m[i]
  <2>1. /\ n \in Seq(Parts) /\ Len(n) = Len(m) + 1 /\ n[Len(m) + 1] = w
        /\ \A i \in 1..Len(m) : n[i] = m[i]
    <3>1. m \in Seq(Parts) /\ w \in Parts
      BY <1>1, <1>2
    <3> QED
      BY <3>1, AppendProperties
  <2> HIDE DEF n
  <2>2. 3 + 1 = 4
    OBVIOUS
  <2> QED
    BY <1>1, <2>1, <2>2
<1> HIDE DEF n
<1>4. \A i \in 1..Len(n) : i \in 1..3 \/ i = 4
  BY <1>3
<1>5. \A i \in 1..Len(n) : n[i] # ":" /\ n[i] # "/"
  BY <1>1, <1>2, <1>3, <1>4
<1>6. \A h \in Families : n \notin ModelNames(h)
  <2>1. \A h \in Families : n \in ModelNames(h) => Len(n) = 3
    BY NamesAre
  <2> QED
    BY <1>3, <2>1
<1>7. Unsupported(n)
  BY <1>1, <1>3, <1>5, <1>6 DEF Unsupported
<1> QED
  BY <1>7 DEF n
\* Every name of a supported model is recognised, and no other.
LEMMA AllRecognised == NamesRecognised
<1>1. ASSUME NEW f \in Families, NEW id \in IdsOf(f) PROVE ModelFamily(id) = f
  <2>1. PICK a \in Arns, g \in Geographies, n \in ModelNames(f), v \in Versions :
          id = a \o (g \o (n \o v))
    <3>1. id \in IdsNamed(ModelNames(f))
      BY DEF IdsOf, IdsNamed
    <3>2. HasParts(id, ModelNames(f))
      BY <3>1, PartsOfAnId
    <3> QED
      BY <3>2 DEF HasParts
  <2>2. /\ n \in Seq(Parts) /\ Len(n) = 3
        /\ n[1] \in {"amazon", "cohere"} /\ n[2] = "."
        /\ \A i \in 1..Len(n) : n[i] # ":" /\ n[i] # "/"
        /\ \A h \in Families : n \in ModelNames(h) => h = f
    BY NamesAre
  <2>3. NamedBy(n) = {f}
    BY <2>2 DEF NamedBy
  <2>4. 2 <= Len(n)
    BY <2>2
  <2>5. ModelFamily(id) = IF NamedBy(n) = {} THEN Unset ELSE CHOOSE h \in NamedBy(n) : TRUE
    BY <2>1, <2>2, <2>4, FamilyIs
  <2> QED
    BY <2>3, <2>5
<1>2. ASSUME NEW a \in Arns, NEW g \in Geographies, NEW v \in Versions, NEW n, Unsupported(n)
      PROVE  ModelFamily(a \o (g \o (n \o v))) = Unset
  <2>1. NamedBy(n) = {}
    BY <1>2 DEF NamedBy, Unsupported
  <2> QED
    BY <1>2, <2>1, FamilyIs DEF Unsupported
<1>4. ASSUME NEW d \in {"amazon", "cohere"}, NEW w \in Words, NEW n, n = <<d, ".", w>>
      PROVE  Unsupported(n)
  <2>1. n \in Seq(Parts) /\ Len(n) = 3
    BY <1>4 DEF Parts
  <2>2. n[1] = d /\ n[2] = "." /\ n[3] = w /\ w # ":" /\ w # "/"
    BY <1>4, WordAssumption
  <2>3. \A i \in 1..Len(n) : i = 1 \/ i = 2 \/ i = 3
    BY <2>1
  <2>4. \A i \in 1..Len(n) : n[i] # ":" /\ n[i] # "/"
    BY <2>2, <2>3
  <2>5. \A h \in Families : n \notin ModelNames(h)
    <3>1. \A h \in Families : n \in ModelNames(h) => n[3] \notin Words
      BY NamesAre
    <3> QED
      BY <2>2, <3>1
  <2> QED
    BY <2>1, <2>2, <2>4, <2>5 DEF Unsupported
<1> DEFINE longer == {Append(name, w) : name \in UNION {ModelNames(f) : f \in Families}, w \in Words}
           other == {<<vendor, ".", w>> : vendor \in {"amazon", "cohere"}, w \in Words}
<1>5. ASSUME NEW n \in longer \cup other
      PROVE  Unsupported(n)
  <2>1. CASE n \in longer
    <3>1. PICK f \in Families : \E m \in ModelNames(f), w \in Words : n = Append(m, w)
      BY <2>1
    <3>2. PICK m \in ModelNames(f), w \in Words : n = Append(m, w)
      BY <3>1
    <3>3. Unsupported(Append(m, w))
      BY LongerIs
    <3> QED
      BY <3>2, <3>3
  <2>2. CASE n \in other
    <3>1. PICK d \in {"amazon", "cohere"}, w \in Words : n = <<d, ".", w>>
      BY <2>2
    <3> QED
      BY <3>1, <1>4
  <2> QED
    BY <2>1, <2>2
<1> HIDE DEF longer, other
<1>6. ASSUME NEW id \in IdsNamed(longer \cup other)
      PROVE  ModelFamily(id) = Unset
  <2>1. PICK a \in Arns, g \in Geographies, n \in longer \cup other, v \in Versions :
          id = a \o (g \o (n \o v))
    <3>1. HasParts(id, longer \cup other)
      BY <1>6, PartsOfAnId
    <3> QED
      BY <3>1 DEF HasParts
  <2> QED
    BY <1>2, <1>5, <2>1
<1>7. ASSUME NEW id \in OpaqueIds PROVE ModelFamily(id) = Unset
  <2>1. PICK a \in Arns, w \in Words : id = a \o <<w>>
    <3>1. PICK a \in Arns \ {<<>>}, r \in {<<w>> : w \in Words} : id = a \o r
      BY PiecesOf DEF OpaqueIds
    <3>2. PICK w \in Words : r = <<w>>
      OBVIOUS
    <3> QED
      BY <3>1, <3>2
  <2> QED
    BY <2>1, OpaqueIs
<1>8. OtherIds = IdsNamed(longer \cup other) \cup OpaqueIds
  BY DEF OtherIds, IdsNamed, longer, other
<1> QED
  BY <1>1, <1>6, <1>7, <1>8 DEF NamesRecognised

-----------------------------------------------------------------------------
(* Requests and replies.                                                   *)

\* An embedder whose family is that of its model gets vectors of its length.
LEMMA Embeds ==
  ASSUME NEW f \in Families, NEW purpose, NEW cfg, Family(cfg) = f,
         Dimensions(cfg) \in SupportedDimensions(f)
  PROVE  EmbedText(cfg, f, purpose) = Vector(Dimensions(cfg))
<1> DEFINE n == Dimensions(cfg)
           body == RequestBody(f, n, purpose)
           reply == Reply(f, body)
<1>1. /\ Titan # CohereV3 /\ Titan # CohereV4 /\ CohereV3 # CohereV4
      /\ f = Titan \/ f = CohereV3 \/ f = CohereV4
  BY DEF Families, Titan, CohereV3, CohereV4
<1>2. n \in AskedDimensions /\ (f = CohereV3 => n = 1024)
  BY <1>1 DEF SupportedDimensions, AskedDimensions
<1>3. Vector(n).length = n /\ Vector(n).finite = TRUE
  BY DEF Vector
<1>4. /\ Unset # Vector(n) /\ Unset # [embedding |-> Vector(n)]
      /\ Unset # [float |-> <<Vector(n)>>]
  BY <1>2, UnsetAssumption
<1>5. EmbedText(cfg, f, purpose) = IF reply = Unset THEN Unset ELSE Parse(f, n, reply)
  BY DEF EmbedText
<1>6. reply # Unset /\ Embedding(f, reply) = Vector(n)
  <2>1. CASE f = Titan
    <3>1. body = [inputText |-> "text", dimensions |-> n, normalize |-> TRUE]
      BY <2>1, <1>1 DEF RequestBody
    <3> HIDE DEF n
    <3>2. reply = [embedding |-> Vector(n)]
      BY <2>1, <3>1 DEF Reply
    <3> QED
      BY <1>4, <2>1, <3>2 DEF Embedding
  <2>2. CASE f = CohereV3
    <3>1. body = [texts |-> <<"text">>, input_type |-> InputType(purpose),
                  embedding_types |-> {"float"}]
      BY <2>2, <1>1 DEF RequestBody
    <3> HIDE DEF n
    <3>2. reply = [float |-> <<Vector(n)>>]
      BY <1>1, <1>2, <2>2, <3>1 DEF Reply
    <3> QED
      BY <1>1, <1>4, <2>2, <3>2 DEF Embedding
  <2>3. CASE f = CohereV4
    <3>1. body = [texts |-> <<"text">>, input_type |-> InputType(purpose),
                  embedding_types |-> {"float"}, output_dimension |-> n]
      BY <2>3, <1>1 DEF RequestBody
    <3> HIDE DEF n
    <3>2. reply = [float |-> <<Vector(n)>>]
      BY <1>1, <2>3, <3>1 DEF Reply
    <3> QED
      BY <1>1, <1>4, <2>3, <3>2 DEF Embedding
  <2> QED
    BY <1>1, <2>1, <2>2, <2>3
<1> HIDE DEF n, reply
<1> QED
  BY <1>3, <1>4, <1>5, <1>6 DEF Parse, n

\* Whatever the constructor accepts for a model makes an embedder of its family.
LEMMA AllWork == ConfigsWork
<1> SUFFICES ASSUME NEW f \in Families, NEW purpose \in Purposes, NEW cfg \in AcceptedFor(f)
             PROVE  EmbedText(cfg, f, purpose) = Vector(Dimensions(cfg))
  BY DEF ConfigsWork
<1>1. Accepts(cfg) /\ Unset \notin Families
  BY UnsetAssumption DEF AcceptedFor
<1>2. Family(cfg) = f
  <2>1. CASE cfg \in Settings(IdsOf(f), Families, AskedDimensions)
    <3>1. cfg.modelId \in IdsOf(f)
      BY <2>1 DEF Settings
    <3>2. ModelFamily(cfg.modelId) = f
      BY <3>1, AllRecognised DEF NamesRecognised
    <3> QED
      BY <1>1, <3>2 DEF Accepts, Family
  <2>2. CASE cfg.modelFamily = f
    BY <1>1, <2>2 DEF Family
  <2> QED
    BY <2>1, <2>2 DEF AcceptedFor
<1>3. Dimensions(cfg) \in SupportedDimensions(f)
  BY <1>1, <1>2 DEF Accepts
<1> QED
  BY <1>2, <1>3, Embeds

\* Every name that Bedrock has for a supported model is recognised as a model of
\* its family, and no other ID is taken for one, whatever words IDs are made of.
THEOREM ModelsAreRecognised == Spec => []RecognisedAsNamed
<1>1. RecognisedAsNamed
  BY AllRecognised DEF RecognisedAsNamed
<1> QED
  BY <1>1, PTL

\* An embedder that the constructor accepts gets a vector of the length it
\* promised, whatever ID or ARN it was given, for either purpose.
THEOREM AcceptedEmbeddersWork == Spec => []AcceptedConfigsWork
<1>1. AcceptedConfigsWork
  BY AllWork DEF AcceptedConfigsWork
<1> QED
  BY <1>1, PTL
=============================================================================
