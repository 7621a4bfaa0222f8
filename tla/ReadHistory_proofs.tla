------------------------ MODULE ReadHistory_proofs ------------------------
(***************************************************************************)
(* What reads return, for every deployment whose S3 objects are encoded    *)
(* alike: any number of clients and operations, callers that coordinate    *)
(* or do not, and every kind of fault.  Then, for callers that mutate a    *)
(* key one at a time and leave no call on its way: that a read nothing     *)
(* disturbs succeeds, whatever the settings of the clients; and, where     *)
(* objects are encoded alike, that the storage implements KVStore.         *)
(*                                                                         *)
(* The argument: while a read runs, seen collects every value it could     *)
(* return; an object the read is about to fetch holds a collected value,   *)
(* because only a running or late write can have replaced it; and the      *)
(* flag the read took from the pointer fits whatever object it finds.      *)
(***************************************************************************)
EXTENDS ReadHistory, DynamoDBStorage_proofs

\* How the deployment encodes what it offloads.
OffloadedGz ==
  \E c \in Clients, v \in Values : Oversized(Encode(c, v)) /\ Encode(c, v).gz

\* A write records the encoding of its bytes, and bytes it offloads are
\* encoded like everyone's.
Alike(r) ==
  r.op = "write" =>
    /\ r.z = r.data.gz
    /\ Oversized(r.data) => r.data.gz = OffloadedGz

AlikeVersion(i) ==
  i # None =>
    /\ IsPointer(i) => i.z = OffloadedGz
    /\ ~IsPointer(i) => i.z = i.data.gz

\* The item, and what a lagging replica still serves for it.
AlikeItem(k) == \A i \in Versions(k) : AlikeVersion(i)

AlikeObject(k) == object[k] # None => object[k].gz = OffloadedGz

AlikeClient(c) ==
  /\ Alike(req[c])
  /\ pc[c] = "s3Put" => Oversized(req[c].data)
  /\ pc[c] = "s3Get" => req[c].z = OffloadedGz

AlikeCall(m) ==
  /\ Alike(m.req)
  /\ m.call = "s3Put" => Oversized(m.req.data)

AlikeInv ==
  /\ TypeOK
  /\ \A k \in Keys : AlikeItem(k) /\ AlikeObject(k)
  /\ \A c \in Clients : AlikeClient(c)
  /\ \A m \in late : AlikeCall(m)

\* A read has collected what it could return now, the bytes it is about to
\* fetch included.
Collected(c) ==
  /\ Candidates(c) \subseteq seen[c]
  /\ pc[c] = "s3Get" /\ object[req[c].key] # None
       => object[req[c].key].val \in seen[c]

HistoryInv ==
  /\ AlikeInv
  /\ \A c \in Clients : Collected(c)
  /\ ReadLegal

-----------------------------------------------------------------------------
(* The encoding of everything stored and in flight.                        *)

\* A write starts alike.
LEMMA WriteRequestAlike ==
  ASSUME UniformOffload, now \in Nat,
         NEW c \in Clients, NEW k \in Keys, NEW v \in Values, NEW ttl \in Ttls
  PROVE  Alike(WriteRequest(c, k, v, ttl))
  <1>1. Oversized(Encode(c, v)) => Encode(c, v).gz = OffloadedGz
    BY DEF UniformOffload, OffloadedGz, Encode
  <1> QED
    BY <1>1 DEF Alike, WriteRequest

\* A new version that is alike leaves all versions of all items alike.
LEMMA ReplaceAlike ==
  ASSUME AlikeInv, NEW k \in Keys, NEW new, Replace(k, new), AlikeVersion(new)
  PROVE  /\ \A j \in Keys : AlikeItem(j)' /\ AlikeObject(j)'
         /\ object' = object
  <1>1. object' = object /\ \A j \in Keys : AlikeObject(j)'
    BY DEF Replace, AlikeInv, AlikeObject, OffloadedGz, Oversized
  <1>2. ASSUME NEW j \in Keys, NEW i \in Versions(j)'
        PROVE  AlikeVersion(i)
    <2>1. item'[j] \in {item[j], new} /\ past'[j] \subseteq past[j] \cup {item[j]}
      BY DEF Replace, AlikeInv, TypeOK
    <2>2. i \in Versions(j) \cup {new}
      BY <2>1 DEF Versions
    <2> QED
      BY <2>2 DEF AlikeInv, AlikeItem
  <1>3. \A j \in Keys : AlikeItem(j)'
    BY <1>2 DEF AlikeItem, AlikeVersion, IsPointer, OffloadedGz, Oversized
  <1> QED
    BY <1>1, <1>3

\* A call keeps items and objects alike, and an object it leaves is the old
\* one, none, or the bytes of the write that sent it.
LEMMA EffectAlike ==
  ASSUME AlikeInv, NEW r \in Request, NEW call \in CallsOf(r.op), Alike(r),
         call = "s3Put" => Oversized(r.data), Effect(call, r)
  PROVE  /\ \A k \in Keys : AlikeItem(k)' /\ AlikeObject(k)'
         /\ \A k \in Keys :
              \/ object'[k] \in {None, object[k]}
              \/ r.op = "write" /\ r.key = k /\ object'[k] = r.data
  <1>1. r.key \in Keys
    BY DEF Request
  <1>2. CASE call = "s3Put" /\ PutObject(r)
    <2>1. r.op = "write" /\ r.data.gz = OffloadedGz
      BY <1>2, CallTellsOperation DEF Alike
    <2> QED
      BY <1>1, <1>2, <2>1 DEF PutObject, AlikeInv, AlikeItem, AlikeVersion, Versions, AlikeObject, IsPointer, TypeOK
  <1>3. CASE call = "put" /\ PutItemInTable(r)
    <2>1. r.op = "write" /\ ItemOf(r) \in Item /\ r.data.gz \in BOOLEAN
      BY <1>3, CallTellsOperation, ItemOfType DEF Request, Bytes
    <2>2. AlikeVersion(ItemOf(r))
      BY <2>1 DEF AlikeVersion, IsPointer, ItemOf, Alike
    <2> QED
      BY <1>1, <1>3, <2>2, ReplaceAlike DEF PutItemInTable
  <1>4. CASE call = "deleteItem" /\ DeleteItemInTable(r)
    BY <1>1, <1>4, ReplaceAlike DEF DeleteItemInTable, AlikeVersion
  <1>5. CASE call \in {"s3Reclaim", "s3Delete"} /\ DeleteObject(r)
    BY <1>1, <1>5 DEF DeleteObject, AlikeInv, AlikeItem, AlikeVersion, Versions, AlikeObject, IsPointer,
       TypeOK
  <1> QED
    BY <1>2, <1>3, <1>4, <1>5 DEF Effect

\* The step leaves the services alike, and takes the bytes of an object from a
\* running or a late write.
Stored ==
  /\ \A k \in Keys : AlikeItem(k)' /\ AlikeObject(k)'
  /\ \A k \in Keys :
       object'[k] \in {None, object[k]} \/ object'[k].val \in Writing(k)

\* Nothing happens to c, or c runs one of the two calls of a read, or c moves
\* otherwise, and then neither fetches an object nor ends a read well.
Moved(c) ==
  \/ pc'[c] = pc[c] /\ req'[c] = req[c] /\ result'[c] = result[c]
  \/ GetItem(c)
  \/ S3Get(c)
  \/ /\ Alike(req'[c])
     /\ pc'[c] = "s3Put" => Oversized(req'[c].data)
     /\ pc'[c] # "s3Get"
     /\ pc'[c] = "idle" /\ req'[c].op = "read" => result'[c].status # "ok"

\* A call that takes effect for its client leaves the services like that.
LEMMA ClientEffectStored ==
  ASSUME AlikeInv, NEW c \in Clients, pc[c] # "idle", Effect(pc[c], req[c])
  PROVE  Stored
  <1>1. req[c] \in Request /\ pc[c] \in CallsOf(req[c].op) /\ AlikeClient(c)
    BY ClientCall DEF AlikeInv
  <1>2. req[c].op = "write" => req[c].data.val \in Writing(req[c].key)
    BY DEF Writing, Active
  <1> QED
    BY <1>1, <1>2, EffectAlike DEF Stored, AlikeClient

\* So does a call that takes effect after its client gave up on it.
LEMMA LateEffectStored ==
  ASSUME AlikeInv, NEW m \in late, Effect(m.call, m.req)
  PROVE  Stored
  <1>1. m.req \in Request /\ m.call \in CallsOf(m.req.op) /\ AlikeCall(m)
    BY DEF AlikeInv, TypeOK
  <1>2. m.req.op = "write" => m.req.data.val \in Writing(m.req.key)
    BY DEF Writing
  <1> QED
    BY <1>1, <1>2, EffectAlike DEF Stored, AlikeCall

\* A step that leaves the table and the bucket alone stores nothing new.
LEMMA NothingStored ==
  ASSUME AlikeInv, UNCHANGED table
  PROVE  Stored
  BY DEF AlikeInv, Stored, AlikeItem, AlikeVersion, Versions, AlikeObject, IsPointer, table

\* Starting an operation moves only the client that starts it.
LEMMA BeginMoved ==
  ASSUME AlikeInv, NEW c \in Clients, NEW r \in Request, NEW first, Begin(c, r, first),
         \E res : result' = [result EXCEPT ![c] = res],
         Alike(r), first = "s3Put" => Oversized(r.data), first # "s3Get",
         first = "idle" => r.op # "read"
  PROVE  Stored /\ late' = late /\ \A d \in Clients : Moved(d)
  <1>1. /\ pc' = [pc EXCEPT ![c] = first] /\ req' = [req EXCEPT ![c] = r]
        /\ UNCHANGED <<table, late>>
    BY DEF Begin
  <1>2. Stored
    BY <1>1, NothingStored
  <1>3. ASSUME NEW d \in Clients
        PROVE  Moved(d)
    BY <1>1 DEF Moved, AlikeInv, TypeOK
  <1> QED
    BY <1>1, <1>2, <1>3

\* A step of an operation moves only the client that runs it.
LEMMA ReplyMoved ==
  ASSUME AlikeInv, NEW c \in Clients, UNCHANGED req,
         \A d \in Clients \ {c} : pc'[d] = pc[d] /\ result'[d] = result[d],
         pc'[c] \notin {"s3Put", "s3Get"},
         pc'[c] = "idle" => req[c].op # "read" \/ result'[c].status # "ok"
  PROVE  \A d \in Clients : Moved(d)
  <1>1. Alike(req[c])
    BY DEF AlikeInv, AlikeClient
  <1> QED
    BY <1>1 DEF Moved, AlikeInv, TypeOK

\* The same for a step that ends the operation.
LEMMA FinishMoved ==
  ASSUME AlikeInv, NEW c \in Clients, UNCHANGED req, NEW res, Finish(c, res),
         req[c].op # "read" \/ res.status # "ok"
  PROVE  \A d \in Clients : Moved(d)
  <1>1. /\ pc'[c] = "idle" /\ result'[c] = res
        /\ \A d \in Clients \ {c} : pc'[d] = pc[d] /\ result'[d] = result[d]
    BY DEF Finish, AlikeInv, TypeOK
  <1> QED
    BY <1>1, ReplyMoved

\* How a step changes what the argument is about.
LEMMA StepMoves ==
  ASSUME AlikeInv, UniformOffload, [Next]_vars
  PROVE  /\ Stored
         /\ \A m \in late' : AlikeCall(m)
         /\ \A c \in Clients : Moved(c)
  <1> DEFINE Goal == /\ Stored
                     /\ \A m \in late' : AlikeCall(m)
                     /\ \A c \in Clients : Moved(c)
  <1>0. \A m \in late : AlikeCall(m)
    BY DEF AlikeInv
  <1>1. ASSUME NEW c \in Clients, NEW k \in Keys, NEW v \in Values, NEW ttl \in Ttls,
               BeginWrite(c, k, v, ttl) \/ RefuseWrite(c, k, v, ttl)
        PROVE  Goal
    <2>1. /\ WriteRequest(c, k, v, ttl) \in Request
          /\ WriteRequest(c, k, v, ttl).op = "write"
          /\ WriteRequest(c, k, v, ttl).data = Encode(c, v)
          /\ Alike(WriteRequest(c, k, v, ttl))
      BY WriteRequestType, WriteRequestAlike DEF AlikeInv, TypeOK
    <2> DEFINE r == WriteRequest(c, k, v, ttl)
    <2>2. \E res : result' = [result EXCEPT ![c] = res]
      BY <1>1 DEF BeginWrite, RefuseWrite
    <2>3. \/ Begin(c, r, "s3Put") /\ Oversized(r.data)
          \/ Begin(c, r, "put")
          \/ Begin(c, r, "idle")
      BY <1>1, <2>1 DEF BeginWrite, RefuseWrite
    <2> HIDE DEF r
    <2>4. Stored /\ late' = late /\ \A d \in Clients : Moved(d)
      BY <2>1, <2>2, <2>3, BeginMoved DEF r
    <2> QED
      BY <1>0, <2>4
  <1>2. ASSUME NEW c \in Clients, NEW k \in Keys, BeginRead(c, k) \/ BeginDelete(c, k)
        PROVE  Goal
    <2>1. Alike(Plain("read", k)) /\ Alike(Plain("delete", k))
      BY DEF Alike, Plain
    <2>2. \E res : result' = [result EXCEPT ![c] = res]
      BY <1>2 DEF BeginRead, BeginDelete
    <2>3. Begin(c, Plain("read", k), "get") \/ Begin(c, Plain("delete", k), "deleteItem")
      BY <1>2 DEF BeginRead, BeginDelete
    <2>4. Stored /\ late' = late /\ \A d \in Clients : Moved(d)
      BY <2>1, <2>2, <2>3, PlainType, BeginMoved
    <2> QED
      BY <1>0, <2>4
  <1>3. ASSUME NEW c \in Clients, S3Put(c)
        PROVE  Goal
    <2>1. Stored
      BY <1>3, ClientEffectStored DEF S3Put, Effect
    <2>2. /\ UNCHANGED <<req, late>> /\ pc'[c] = "put"
          /\ \A d \in Clients \ {c} : pc'[d] = pc[d] /\ result'[d] = result[d]
      BY <1>3 DEF S3Put, GoTo, Environment, AlikeInv, TypeOK
    <2>3. \A d \in Clients : Moved(d)
      BY <2>2, ReplyMoved
    <2> QED
      BY <1>0, <2>1, <2>2, <2>3
  <1>4. ASSUME NEW c \in Clients, PutItem(c) \/ DeleteItem(c)
        PROVE  Goal
    <2>1. Stored
      BY <1>4, ClientEffectStored DEF PutItem, DeleteItem, Effect
    <2>2. req[c].op # "read"
      BY <1>4, ClientCall DEF PutItem, DeleteItem, AlikeInv
    <2>3. UNCHANGED <<req, late>>
      BY <1>4 DEF PutItem, DeleteItem, Environment
    <2>4. /\ \A d \in Clients \ {c} : pc'[d] = pc[d] /\ result'[d] = result[d]
          /\ pc'[c] \in {"s3Reclaim", "s3Delete", "idle"}
      BY <1>4 DEF PutItem, DeleteItem, GoTo, Finish, AlikeInv, TypeOK
    <2> QED
      BY <1>0, <2>1, <2>2, <2>3, <2>4, ReplyMoved
  <1>5. ASSUME NEW c \in Clients, S3Reclaim(c) \/ S3Delete(c)
        PROVE  Goal
    <2>1. Stored
      BY <1>5, ClientEffectStored, NothingStored DEF S3Reclaim, S3Delete, Effect, table
    <2>2. req[c].op # "read"
      BY <1>5, ClientCall DEF S3Reclaim, S3Delete, AlikeInv
    <2>3. UNCHANGED <<req, late>> /\ (Finish(c, Ok) \/ Finish(c, Error))
      BY <1>5 DEF S3Reclaim, S3Delete, Environment
    <2> QED
      BY <1>0, <2>1, <2>2, <2>3, FinishMoved
  <1>6. ASSUME NEW c \in Clients, GetItem(c) \/ S3Get(c)
        PROVE  Goal
    <2>1. UNCHANGED <<table, late>>
      BY <1>6 DEF GetItem, S3Get, table, Environment
    <2>2. ASSUME NEW d \in Clients, d # c
          PROVE  pc'[d] = pc[d] /\ req'[d] = req[d] /\ result'[d] = result[d]
      BY <1>6, <2>2 DEF GetItem, GetVersion, S3Get, GoTo, Finish, AlikeInv, TypeOK
    <2> QED
      BY <1>0, <1>6, <2>1, <2>2, NothingStored DEF Moved
  <1>7. ASSUME NEW c \in Clients, CallFails(c)
        PROVE  Goal
    <2>1. UNCHANGED <<table, req, late>>
      BY <1>7 DEF CallFails, table
    <2>2. CASE pc[c] = "s3Reclaim" /\ Finish(c, Ok)
      <3>1. req[c].op # "read"
        BY <2>2, ClientCall DEF AlikeInv
      <3> QED
        BY <1>0, <2>1, <2>2, <3>1, NothingStored, FinishMoved
    <2>3. CASE Finish(c, Error)
      BY <1>0, <2>1, <2>3, NothingStored, FinishMoved DEF Error
    <2> QED
      BY <1>7, <2>2, <2>3 DEF CallFails
  <1>8. ASSUME NEW c \in Clients, Crash(c)
        PROVE  Goal
    <2>1. UNCHANGED <<table, req, late>> /\ Finish(c, Gone)
      BY <1>8 DEF Crash, table
    <2> QED
      BY <1>0, <2>1, NothingStored, FinishMoved DEF Gone
  <1>9. ASSUME NEW c \in Clients, ReplyLost(c)
        PROVE  Goal
    <2>1. Stored /\ UNCHANGED <<pc, req, result, late>>
      BY <1>9, ClientEffectStored DEF ReplyLost, Sent
    <2> QED
      BY <1>0, <2>1 DEF Moved
  <1>10. ASSUME NEW c \in Clients, Abandon(c)
         PROVE  Goal
    <2>1. UNCHANGED <<table, req>> /\ Finish(c, Gone)
      BY <1>10 DEF Abandon, table
    <2>2. late' = late \cup {[call |-> pc[c], req |-> req[c]]} /\ AlikeClient(c)
      BY <1>10 DEF Abandon, AlikeInv
    <2>3. \A m \in late' : AlikeCall(m)
      BY <1>0, <2>2 DEF AlikeCall, AlikeClient
    <2> QED
      BY <2>1, <2>3, NothingStored, FinishMoved DEF Gone
  <1>11. ASSUME NEW m \in late, Arrive(m)
         PROVE  Goal
    <2>1. Stored /\ UNCHANGED <<pc, req, result>> /\ late' \subseteq late
      BY <1>11, LateEffectStored DEF Arrive
    <2> QED
      BY <1>0, <2>1 DEF Moved
  <1>12. CASE Tick \/ UNCHANGED vars
    <2>1. UNCHANGED <<table, pc, req, result, late>>
      BY <1>12 DEF Tick, table, vars
    <2> QED
      BY <1>0, <2>1, NothingStored DEF Moved
  <1>13. ASSUME NEW k \in Keys, Reap(k)
         PROVE  Goal
    <2>1. UNCHANGED <<object, pc, req, result, late>>
      BY <1>13 DEF Reap, Replace
    <2>2. Stored
      BY <1>13, ReplaceAlike DEF Reap, AlikeVersion, Stored
    <2> QED
      BY <1>0, <2>1, <2>2 DEF Moved
  <1>14. ASSUME NEW k \in Keys, CatchUp(k)
         PROVE  Goal
    <2>1. /\ UNCHANGED <<object, pc, req, result, late>>
          /\ \A j \in Keys : Versions(j)' \subseteq Versions(j)
      BY <1>14 DEF CatchUp, Versions, AlikeInv, TypeOK
    <2>2. Stored
      BY <2>1 DEF Stored, AlikeInv, AlikeItem, AlikeVersion, AlikeObject, IsPointer
    <2> QED
      BY <1>0, <2>1, <2>2 DEF Moved
  <1> QED
    BY <1>1, <1>2, <1>3, <1>4, <1>5, <1>6, <1>7, <1>8, <1>9, <1>10, <1>11,
       <1>12, <1>13, <1>14 DEF Next, BeginOperation, Proceed, Disturb

-----------------------------------------------------------------------------
(* The history of reads.                                                   *)

\* A client that calls GetItem or GetObject is running a read.
LEMMA ReaderCall ==
  ASSUME TypeOK, NEW c \in Clients, pc[c] \in {"get", "s3Get"}
  PROVE  /\ Reading(c) /\ req[c] \in Request /\ req[c].key \in Keys /\ req[c].op = "read"
         /\ \A i \in Versions(req[c].key) : Views(c, req[c].key, i) \subseteq Candidates(c)
         /\ Writing(req[c].key) \subseteq Candidates(c)
  <1>1. req[c] \in Request /\ req[c].key \in Keys /\ req[c].op = "read"
    BY ClientCall
  <1>2. Reading(c)
    BY <1>1 DEF Reading
  <1>3. Candidates(c) = (UNION {Views(c, req[c].key, i) : i \in Versions(req[c].key)})
                          \cup Writing(req[c].key)
    BY <1>2 DEF Candidates
  <1>4. ASSUME NEW i \in Versions(req[c].key), NEW v \in Views(c, req[c].key, i)
        PROVE  v \in Candidates(c)
    <2>1. Views(c, req[c].key, i) \in {Views(c, req[c].key, j) : j \in Versions(req[c].key)}
      OBVIOUS
    <2>2. v \in UNION {Views(c, req[c].key, j) : j \in Versions(req[c].key)}
      BY <2>1
    <2> QED
      BY <1>3, <2>2
  <1>5. Writing(req[c].key) \subseteq Candidates(c)
    BY <1>3
  <1> QED
    BY <1>1, <1>2, <1>4, <1>5

\* Bytes whose flag tells their encoding are decoded.
LEMMA DecodeSucceeds ==
  ASSUME NEW b \in Bytes, NEW z, z = b.gz
  PROVE  Decode(z, b).status = "ok"
BY DEF Decode, Returned, Bytes

\* What GetItem does to its client: the read fetches the object of a pointer
\* it may see, or ends with what it sees.
LEMMA GetItemSees ==
  ASSUME AlikeInv, NEW c \in Clients, GetItem(c)
  PROVE  \E i \in Versions(req[c].key) :
         \/ /\ pc'[c] = "s3Get" /\ req'[c] \in Request
            /\ req'[c].op = "read" /\ req'[c].key = req[c].key
            /\ req'[c].z = OffloadedGz
            /\ object[req[c].key] # None
                 => object[req[c].key].val \in Views(c, req[c].key, i)
         \/ /\ pc'[c] = "idle" /\ req'[c] = req[c] /\ result'[c].status = "ok"
            /\ IF result'[c].data = None THEN None \in Views(c, req[c].key, i)
               ELSE /\ ~result'[c].data.gz
                    /\ result'[c].data.val \in Views(c, req[c].key, i)
  <1> DEFINE k == req[c].key
  <1>0. PICK i \in Versions(k) : GetVersion(c, i)
    BY DEF GetItem
  <1> SUFFICES
        \/ /\ pc'[c] = "s3Get" /\ req'[c] \in Request
           /\ req'[c].op = "read" /\ req'[c].key = k
           /\ req'[c].z = OffloadedGz
           /\ object[k] # None => object[k].val \in Views(c, k, i)
        \/ /\ pc'[c] = "idle" /\ req'[c] = req[c] /\ result'[c].status = "ok"
           /\ IF result'[c].data = None THEN None \in Views(c, k, i)
              ELSE ~result'[c].data.gz /\ result'[c].data.val \in Views(c, k, i)
    OBVIOUS
  <1>1. /\ req[c] \in Request /\ k \in Keys /\ req[c].op = "read" /\ pc[c] = "get"
        /\ i \in Item \cup {None}
    BY <1>0, ReaderCall DEF GetItem, Versions, AlikeInv, TypeOK
  <1>2. AlikeVersion(i)
    BY <1>0, <1>1 DEF AlikeInv, AlikeItem
  <1>3. CASE ~Visible(c, i)
    <2>1. Finish(c, Returned(None)) /\ req' = req
      BY <1>0, <1>3 DEF GetVersion
    <2>2. None \in Views(c, k, i)
      BY <1>3 DEF Views
    <2> QED
      BY <2>1, <2>2 DEF Finish, Returned, AlikeInv, TypeOK
  <1>4. CASE Visible(c, i) /\ ~IsPointer(i)
    <2>1. Finish(c, Decode(i.z, i.data)) /\ req' = req
      BY <1>0, <1>4 DEF GetVersion
    <2>2. i \in Item /\ ~i.ptr /\ i.data \in Bytes /\ i.z = i.data.gz
      BY <1>1, <1>2, <1>4 DEF Visible, IsPointer, Item, AlikeVersion
    <2>3. i.data.val \in Views(c, k, i)
      BY <1>4, <2>2, NoneAssumption DEF Views, ValueOf, Bytes
    <2>4. Decode(i.z, i.data).data = [i.data EXCEPT !.gz = FALSE]
      BY <2>2 DEF Decode, Returned, Bytes
    <2>5. /\ Decode(i.z, i.data).data \in Bytes
          /\ ~Decode(i.z, i.data).data.gz
          /\ Decode(i.z, i.data).data.val = i.data.val
      BY <2>2, <2>4 DEF Bytes
    <2>6. Decode(i.z, i.data).data # None /\ Decode(i.z, i.data).status = "ok"
      BY <2>2, <2>5, NoneAssumption, DecodeSucceeds DEF Bytes
    <2>7. pc'[c] = "idle" /\ result'[c] = Decode(i.z, i.data) /\ req'[c] = req[c]
      BY <2>1 DEF Finish, AlikeInv, TypeOK
    <2> QED
      BY <2>3, <2>5, <2>6, <2>7
  <1>5. CASE Visible(c, i) /\ IsPointer(i)
    <2>1. pc'[c] = "s3Get" /\ req'[c] = [req[c] EXCEPT !.z = i.z]
      BY <1>0, <1>5 DEF GetVersion, GoTo, AlikeInv, TypeOK
    <2>2. i.z = OffloadedGz /\ i.z \in BOOLEAN
      BY <1>1, <1>2, <1>5 DEF AlikeVersion, Visible, Item
    <2>3. /\ req'[c] \in Request /\ req'[c].op = "read" /\ req'[c].key = k
          /\ req'[c].z = i.z
      BY <1>1, <2>1, <2>2 DEF Request
    <2>4. object[k] # None => object[k].val \in Views(c, k, i)
      BY <1>1, <1>5, NoneAssumption DEF Views, ValueOf, IsPointer, Bytes, AlikeInv, TypeOK
    <2> QED
      BY <2>1, <2>2, <2>3, <2>4
  <1> QED
    BY <1>3, <1>4, <1>5

\* What GetObject does: the read ends, and if it ends well, with the value of
\* the object as a caller wrote it.
LEMMA S3GetFetches ==
  ASSUME AlikeInv, NEW c \in Clients, S3Get(c)
  PROVE  /\ pc'[c] = "idle" /\ req'[c] = req[c]
         /\ result'[c].status = "ok" =>
              /\ object[req[c].key] # None
              /\ result'[c].data # None /\ ~result'[c].data.gz
              /\ result'[c].data.val = object[req[c].key].val
  <1> DEFINE b == object[req[c].key]
             z == req[c].z
  <1>1. /\ req[c].key \in Keys /\ pc[c] = "s3Get" /\ b \in Bytes \cup {None}
    BY ReaderCall DEF S3Get, AlikeInv, TypeOK
  <1>2. z = OffloadedGz /\ (b # None => b.gz = OffloadedGz)
    BY <1>1 DEF AlikeInv, AlikeClient, AlikeObject
  <1>3. CASE Finish(c, Error)
    BY <1>3 DEF S3Get, Finish, Error, AlikeInv, TypeOK
  <1>4. CASE b # None /\ Finish(c, Decode(z, b))
    <2>1. b \in Bytes /\ z = b.gz
      BY <1>1, <1>2, <1>4
    <2>2. Decode(z, b).data = [b EXCEPT !.gz = FALSE]
      BY <2>1 DEF Decode, Returned, Bytes
    <2>3. /\ Decode(z, b).data \in Bytes /\ ~Decode(z, b).data.gz
          /\ Decode(z, b).data.val = b.val
      BY <2>1, <2>2 DEF Bytes
    <2>4. Decode(z, b).data # None
      BY <2>3, NoneAssumption DEF Bytes
    <2>5. pc'[c] = "idle" /\ result'[c] = Decode(z, b) /\ req'[c] = req[c]
      BY <1>4 DEF S3Get, Finish, AlikeInv, TypeOK
    <2> QED
      BY <1>4, <2>3, <2>4, <2>5
  <1> QED
    BY <1>3, <1>4 DEF S3Get

\* Everything stored or in flight stays alike.
LEMMA StepAlike ==
  ASSUME AlikeInv, UniformOffload, [Next]_vars
  PROVE  AlikeInv'
  <1>1. TypeOK'
    BY StepType DEF AlikeInv
  <1>2. /\ Stored
        /\ \A m \in late' : AlikeCall(m)
        /\ \A c \in Clients : Moved(c)
    BY StepMoves
  <1>3. \A k \in Keys : AlikeItem(k)' /\ AlikeObject(k)'
    BY <1>2 DEF Stored
  <1>4. ASSUME NEW c \in Clients
        PROVE  AlikeClient(c)'
    <2>1. AlikeClient(c)
      BY DEF AlikeInv
    <2>2. CASE pc'[c] = pc[c] /\ req'[c] = req[c]
      BY <2>1, <2>2 DEF AlikeClient, Alike, Oversized, OffloadedGz
    <2>3. CASE GetItem(c)
      <3>1. req'[c].op = "read" /\ (pc'[c] = "s3Get" => req'[c].z = OffloadedGz)
            /\ pc'[c] # "s3Put"
        BY <2>3, GetItemSees, ReaderCall DEF GetItem, AlikeInv
      <3> QED
        BY <3>1 DEF AlikeClient, Alike, OffloadedGz
    <2>4. CASE S3Get(c)
      <3>1. req'[c] = req[c] /\ pc'[c] = "idle"
        BY <2>4, S3GetFetches
      <3> QED
        BY <2>1, <3>1 DEF AlikeClient, Alike, Oversized, OffloadedGz
    <2>5. CASE /\ Alike(req'[c])
               /\ pc'[c] = "s3Put" => Oversized(req'[c].data)
               /\ pc'[c] # "s3Get"
      BY <2>5 DEF AlikeClient, Alike, Oversized, OffloadedGz
    <2> QED
      BY <1>2, <2>2, <2>3, <2>4, <2>5 DEF Moved
  <1> QED
    BY <1>1, <1>2, <1>3, <1>4 DEF AlikeInv, AlikeCall, Alike, Oversized, OffloadedGz

\* Reads keep collecting what they could return.
LEMMA StepCollected ==
  ASSUME HistoryInv, UniformOffload, [Next]_vars, Track, NEW c \in Clients
  PROVE  /\ seen[c] \subseteq seen'[c]  \/ ~Reading(c)
         /\ Collected(c)'
  <1>1. AlikeInv /\ Stored /\ Moved(c) /\ Collected(c)
    BY StepMoves DEF HistoryInv
  <1>2. seen'[c] = IF Reading(c) THEN seen[c] \cup Candidates(c)'
                   ELSE IF Reading(c)' THEN Candidates(c)'
                   ELSE seen[c]
    BY DEF Track
  <1>3. Candidates(c)' \subseteq seen'[c]
    <2>1. CASE Reading(c)'
      BY <1>2, <2>1
    <2>2. CASE ~Reading(c)'
      BY <2>2 DEF Candidates, Reading
    <2> QED
      BY <2>1, <2>2
  <1>4. ASSUME pc'[c] = "s3Get", object'[req'[c].key] # None
        PROVE  object'[req'[c].key].val \in seen'[c]
    <2>1. CASE pc'[c] = pc[c] /\ req'[c] = req[c]
      <3> DEFINE k == req[c].key
      <3>1. k \in Keys /\ Reading(c) /\ Writing(k) \subseteq seen[c]
        BY <1>1, <1>4, <2>1, ReaderCall DEF AlikeInv, Collected
      <3>2. object'[k] = object[k] \/ object'[k].val \in Writing(k)
        BY <1>1, <1>4, <2>1, <3>1 DEF Stored
      <3>3. object[k] # None => object[k].val \in seen[c]
        BY <1>1, <1>4, <2>1 DEF Collected
      <3> QED
        BY <1>2, <1>4, <2>1, <3>1, <3>2, <3>3
    <2>2. CASE GetItem(c)
      <3> DEFINE k == req[c].key
      <3>0. PICK i \in Versions(k) :
              req'[c].key = k /\ (object[k] # None => object[k].val \in Views(c, k, i))
        BY <1>1, <1>4, <2>2, GetItemSees
      <3>1. /\ k \in Keys /\ Reading(c) /\ Views(c, k, i) \subseteq seen[c]
            /\ object' = object /\ req'[c].key = k
        BY <1>1, <1>4, <2>2, <3>0, ReaderCall
           DEF GetItem, table, AlikeInv, Collected
      <3>2. object[k] # None => object[k].val \in Views(c, k, i)
        BY <3>0
      <3> QED
        BY <1>2, <1>4, <3>1, <3>2
    <2>3. CASE S3Get(c)
      BY <1>1, <1>4, <2>3, S3GetFetches
    <2> QED
      BY <1>1, <1>4, <2>1, <2>2, <2>3 DEF Moved
  <1> QED
    BY <1>2, <1>3, <1>4 DEF Collected

\* A read returns something it has collected.
LEMMA StepLegal ==
  ASSUME HistoryInv, UniformOffload, [Next]_vars, Track
  PROVE  ReadLegal'
  <1> SUFFICES ASSUME NEW c \in Clients, pc'[c] = "idle", req'[c].op = "read",
                      result'[c].status = "ok"
               PROVE  IF result'[c].data = None THEN None \in seen'[c]
                      ELSE ~result'[c].data.gz /\ result'[c].data.val \in seen'[c]
    BY DEF ReadLegal
  <1>1. AlikeInv /\ Moved(c) /\ Collected(c)
    BY StepMoves DEF HistoryInv
  <1>2. seen[c] \subseteq seen'[c] \/ ~Reading(c)
    BY StepCollected
  <1>3. CASE pc'[c] = pc[c] /\ req'[c] = req[c] /\ result'[c] = result[c]
    <2>1. ~Reading(c) /\ ~Reading(c)'
      BY <1>3 DEF Reading
    <2>2. seen'[c] = seen[c]
      BY <2>1 DEF Track
    <2> QED
      BY <1>3, <2>2 DEF HistoryInv, ReadLegal
  <1>4. CASE GetItem(c)
    <2>2. PICK i \in Versions(req[c].key) :
            IF result'[c].data = None THEN None \in Views(c, req[c].key, i)
            ELSE ~result'[c].data.gz /\ result'[c].data.val \in Views(c, req[c].key, i)
      BY <1>1, <1>4, GetItemSees
    <2>1. Reading(c) /\ Views(c, req[c].key, i) \subseteq seen[c]
      BY <1>1, <1>4, <2>2, ReaderCall DEF GetItem, AlikeInv, Collected
    <2> QED
      BY <1>2, <2>1, <2>2
  <1>5. CASE S3Get(c)
    <2>1. Reading(c) /\ pc[c] = "s3Get"
      BY <1>1, <1>5, ReaderCall DEF S3Get, AlikeInv
    <2>2. /\ object[req[c].key] # None
          /\ result'[c].data # None /\ ~result'[c].data.gz
          /\ result'[c].data.val = object[req[c].key].val
      BY <1>1, <1>5, S3GetFetches
    <2> QED
      BY <1>1, <1>2, <2>1, <2>2 DEF Collected
  <1> QED
    BY <1>1, <1>3, <1>4, <1>5 DEF Moved

\* Nothing of the invariant depends on anything but the variables.
LEMMA StutterHistory ==
  ASSUME HistoryInv, UNCHANGED hvars
  PROVE  HistoryInv'
  <1> USE DEF hvars, vars
  <1>1. AlikeInv'
    BY DEF HistoryInv, AlikeInv, TypeOK, AlikeItem, AlikeVersion, Versions, AlikeObject, AlikeClient, AlikeCall,
       Alike, Oversized, OffloadedGz, IsPointer
  <1>2. ASSUME NEW c \in Clients
        PROVE  Collected(c)'
    <2>1. Candidates(c)' = Candidates(c)
      BY DEF Candidates, Reading, Views, ValueOf, Versions, Writing, Visible, IsPointer, HasPassed, TtlEnabled,
         Active
    <2> QED
      BY <2>1 DEF HistoryInv, Collected
  <1>3. ReadLegal'
    BY DEF HistoryInv, ReadLegal
  <1> QED
    BY <1>1, <1>2, <1>3 DEF HistoryInv

\* A read that ends well returns a value that was at the key while it ran, or
\* that a write was storing: no torn, undecoded or long-gone bytes, although
\* the item and the object are fetched by two calls and nobody takes a lock.
THEOREM ReadsAreLegal ==
  ASSUME UniformOffload
  PROVE  HSpec => []ReadLegal
  <1>1. HInit => HistoryInv
    <2> SUFFICES ASSUME HInit PROVE HistoryInv
      OBVIOUS
    <2>1. TypeOK
      BY PlainType, ResultConstants DEF HInit, Init, TypeOK
    <2>2. AlikeInv
      BY <2>1 DEF HInit, Init, AlikeInv, AlikeItem, AlikeVersion, Versions, AlikeObject, AlikeClient, Alike, Plain
    <2>3. \A c \in Clients : Collected(c)
      BY DEF HInit, Init, Collected, Candidates, Reading
    <2>4. ReadLegal
      BY DEF HInit, Init, ReadLegal, NoResult
    <2> QED
      BY <2>2, <2>3, <2>4 DEF HistoryInv
  <1>2. HistoryInv /\ [HNext]_hvars => HistoryInv'
    <2>1. CASE HistoryInv /\ HNext
      BY <2>1, StepAlike, StepCollected, StepLegal DEF HistoryInv, HNext
    <2>2. CASE HistoryInv /\ UNCHANGED hvars
      BY <2>2, StutterHistory
    <2> QED
      BY <2>1, <2>2
  <1>3. HistoryInv => ReadLegal
    BY DEF HistoryInv
  <1> QED
    BY <1>1, <1>2, <1>3, PTL DEF HSpec

-----------------------------------------------------------------------------
(* Reads that nothing disturbs, in deployments of any settings whose       *)
(* callers mutate a key one at a time and leave no call on its way.        *)

\* While a read is undisturbed, the object it is about to fetch is there and
\* is encoded as the read expects; when it is over, it has not failed.
Unharmed(c) ==
  /\ Reading(c) /\ quiet[c] =>
       /\ Undisturbed(c)
       /\ pc[c] = "s3Get" =>
            /\ object[req[c].key] # None
            /\ object[req[c].key].gz = req[c].z
  /\ c \in Buckets /\ pc[c] = "idle" /\ req[c].op = "read" /\ quiet[c] =>
       result[c].status # "error"

\* An object changes only through a write or a delete of its key.
LEMMA QuietObject ==
  ASSUME TypeOK, late = {}, [Next]_vars, NEW k \in Keys, Quiet(k)
  PROVE  object'[k] = object[k]
<1>1. ASSUME NEW c \in Clients, pc[c] # "idle", Effect(pc[c], req[c])
      PROVE  object'[k] = object[k]
  BY <1>1, EffectAtKey DEF Quiet
<1>2. ASSUME NEW c \in Clients, Proceed(c)
      PROVE  object' = object \/ Effect(pc[c], req[c])
  BY <1>2 DEF Proceed, S3Put, PutItem, S3Reclaim, GetItem, S3Get, DeleteItem, S3Delete,
     Effect, table
<1>3. ASSUME NEW c \in Clients, Disturb(c)
      PROVE  object' = object \/ Effect(pc[c], req[c])
  BY <1>3 DEF Disturb, CallFails, Crash, ReplyLost, Abandon, table
<1>4. ASSUME NEW c \in Clients, Proceed(c) \/ Disturb(c)
      PROVE  pc[c] # "idle"
  BY <1>4 DEF Proceed, S3Put, PutItem, S3Reclaim, GetItem, S3Get, DeleteItem, S3Delete,
     Disturb, CallFails, Crash, ReplyLost, Abandon, Sent
<1>5. ASSUME NEW c \in Clients, BeginOperation(c)
      PROVE  object' = object
  BY <1>5 DEF BeginOperation, BeginWrite, RefuseWrite, BeginRead, BeginDelete, Begin, table
<1> QED
  BY <1>1, <1>2, <1>3, <1>4, <1>5 DEF Next, Tick, Reap, Replace, CatchUp, table, vars

\* A read ends, or goes on to its object, by its own two calls or by a fault.
LEMMA ReadMoves ==
  ASSUME TypeOK, late = {}, [Next]_vars, NEW c \in Clients,
         pc'[c] \in {"idle", "s3Get"}, req'[c].op = "read"
  PROVE  \/ pc'[c] = pc[c] /\ req'[c] = req[c] /\ result'[c] = result[c]
         \/ GetItem(c) \/ S3Get(c)
         \/ Reading(c) /\ faults' # faults
<1>1. ASSUME NEW d \in Clients, BeginOperation(d)
      PROVE  pc'[c] = pc[c] /\ req'[c] = req[c] /\ result'[c] = result[c]
  <2>1. ASSUME d = c
        PROVE  FALSE
    BY <1>1, <2>1 DEF BeginOperation, BeginWrite, RefuseWrite, BeginRead, BeginDelete, Begin,
       WriteRequest, TypeOK
  <2> QED
    BY <1>1, <2>1 DEF BeginOperation, BeginWrite, RefuseWrite, BeginRead, BeginDelete, Begin,
       TypeOK
<1>2. ASSUME NEW d \in Clients, Proceed(d)
      PROVE  \/ pc'[c] = pc[c] /\ req'[c] = req[c] /\ result'[c] = result[c]
             \/ GetItem(c) \/ S3Get(c)
  <2>1. CASE d # c
    BY <1>2, <2>1 DEF Proceed, S3Put, PutItem, S3Reclaim, GetItem, GetVersion, S3Get,
       DeleteItem, S3Delete, GoTo, Finish, TypeOK
  <2>2. ASSUME d = c, ~ GetItem(c), ~ S3Get(c)
        PROVE  FALSE
    <3>1. pc[c] \in {"s3Put", "put", "s3Reclaim", "deleteItem", "s3Delete"} /\ req' = req
      BY <1>2, <2>2 DEF Proceed, S3Put, PutItem, S3Reclaim, DeleteItem, S3Delete
    <3> QED
      BY <3>1, ClientCall
  <2> QED
    BY <1>2, <2>1, <2>2
<1>3. ASSUME NEW d \in Clients, Disturb(d)
      PROVE  \/ pc'[c] = pc[c] /\ req'[c] = req[c] /\ result'[c] = result[c]
             \/ Reading(c) /\ faults' # faults
  <2>1. faults' # faults /\ req' = req /\ pc[d] # "idle"
    BY <1>3 DEF Disturb, CallFails, Crash, ReplyLost, Abandon, Sent, Fault, TypeOK
  <2>2. d # c => pc'[c] = pc[c] /\ result'[c] = result[c]
    BY <1>3 DEF Disturb, CallFails, Crash, ReplyLost, Abandon, Finish, TypeOK
  <2>3. d = c => Reading(c)
    BY <2>1 DEF Reading
  <2> QED
    BY <2>1, <2>2, <2>3
<1>4. CASE Tick \/ UNCHANGED vars \/ \E k \in Keys : Reap(k) \/ CatchUp(k)
  BY <1>4 DEF Tick, Reap, CatchUp, vars
<1> QED
  BY <1>1, <1>2, <1>3, <1>4 DEF Next

\* An undisturbed read is served the one version there is.  If that is a
\* pointer, its object is there, encoded as the pointer says; if it holds bytes,
\* they are encoded as it says itself.
LEMMA GetItemBacked ==
  ASSUME UploadInv, NEW c \in Clients, GetItem(c), Undisturbed(c)
  PROVE  /\ pc'[c] = "s3Get" =>
              /\ req'[c].key = req[c].key
              /\ object[req[c].key] # None /\ object[req[c].key].gz = req'[c].z
         /\ pc'[c] = "idle" => result'[c].status = "ok"
<1>0. TypeOK /\ PointerBacked /\ InlineReadable
  BY DEF UploadInv, PointerInv, InlineInv
<1>1. req[c].key \in Keys /\ req[c] \in Request /\ pc[c] = "get"
  BY <1>0, ReaderCall DEF GetItem
<1> DEFINE k == req[c].key
           i == item[k]
<1>2. GetVersion(c, i) /\ Described(k)
  BY <1>0, <1>1 DEF GetItem, Versions, Undisturbed
<1>3. i \in Item \cup {None} /\ i \in Versions(k)
  BY <1>0, <1>1 DEF TypeOK, Versions
<1>4. CASE ~ Visible(c, i)
  BY <1>0, <1>1, <1>2, <1>4 DEF GetVersion, Finish, Returned, TypeOK
<1>5. CASE Visible(c, i) /\ ~ IsPointer(i)
  <2>1. i.data \in Bytes /\ i.z = i.data.gz
    BY <1>0, <1>1, <1>3, <1>5 DEF Visible, IsPointer, Item, InlineReadable
  <2>2. Decode(i.z, i.data).status = "ok"
    BY <2>1, DecodeSucceeds
  <2> QED
    BY <1>0, <1>1, <1>2, <1>5, <2>2 DEF GetVersion, Finish, TypeOK
<1>6. CASE Visible(c, i) /\ IsPointer(i)
  <2>1. pc'[c] = "s3Get" /\ req'[c] = [req[c] EXCEPT !.z = i.z]
    BY <1>0, <1>2, <1>6 DEF GetVersion, GoTo, TypeOK
  <2>2. object[k] # None /\ object[k].gz = i.z
    BY <1>0, <1>1, <1>2, <1>6 DEF PointerBacked, Described
  <2> QED
    BY <1>1, <2>1, <2>2 DEF Request
<1> QED
  BY <1>4, <1>5, <1>6

\* Nothing harms a read that nothing disturbs.
LEMMA StepUnharmed ==
  ASSUME UploadInv, [HNext]_hvars, NEW c \in Clients, Unharmed(c)
  PROVE  Unharmed(c)'
<1>0. TypeOK /\ late = {} /\ [Next]_vars
  BY DEF UploadInv, PointerInv, HNext, hvars
<1>1. CASE UNCHANGED hvars
  BY <1>1 DEF hvars, vars, Unharmed, Reading, Undisturbed, Described, IsPointer, Quiet,
     Mutating, Active
<1>2. CASE HNext
  <2>1. quiet'[c] = IF Reading(c)
                    THEN quiet[c] /\ Undisturbed(c)' /\ faults' = faults
                    ELSE IF Reading(c)' THEN Undisturbed(c)'
                    ELSE quiet[c]
    BY <1>2 DEF HNext, Track
  <2>2. ASSUME Reading(c)', quiet'[c]
        PROVE  Undisturbed(c)'
    BY <2>1, <2>2
  <2>3. ASSUME Reading(c)', quiet'[c], pc'[c] = "s3Get"
        PROVE  object'[req'[c].key] # None /\ object'[req'[c].key].gz = req'[c].z
    <3>1. CASE GetItem(c)
      <4>1. Reading(c) /\ object' = object
        BY <1>0, <3>1, ReaderCall DEF GetItem, table
      <4>2. Undisturbed(c)
        BY <2>1, <2>3, <4>1 DEF Unharmed
      <4> QED
        BY <2>3, <3>1, <4>1, <4>2, GetItemBacked
    <3>2. CASE pc'[c] = pc[c] /\ req'[c] = req[c]
      <4>1. Reading(c) /\ req[c].key \in Keys
        BY <1>0, <2>3, <3>2, ReaderCall
      <4>2. /\ Quiet(req[c].key) /\ object[req[c].key] # None
            /\ object[req[c].key].gz = req[c].z
        BY <2>1, <2>3, <3>2, <4>1 DEF Unharmed, Undisturbed
      <4> QED
        BY <1>0, <3>2, <4>1, <4>2, QuietObject
    <3>3. CASE S3Get(c)
      BY <1>0, <2>3, <3>3 DEF S3Get, Finish, TypeOK
    <3>4. CASE Reading(c) /\ faults' # faults
      BY <2>1, <2>3, <3>4
    <3> QED
      BY <1>0, <2>3, <3>1, <3>2, <3>3, <3>4, ReadMoves DEF Reading
  <2>4. ASSUME c \in Buckets, pc'[c] = "idle", req'[c].op = "read", quiet'[c]
        PROVE  result'[c].status # "error"
    <3>1. CASE pc'[c] = pc[c] /\ req'[c] = req[c] /\ result'[c] = result[c]
      BY <2>1, <2>4, <3>1 DEF Unharmed, Reading
    <3>2. CASE GetItem(c)
      <4>1. Reading(c)
        BY <1>0, <3>2, ReaderCall DEF GetItem
      <4>2. Undisturbed(c)
        BY <2>1, <2>4, <4>1 DEF Unharmed
      <4> QED
        BY <2>4, <3>2, <4>2, GetItemBacked
    <3>3. CASE S3Get(c)
      <4>1. Reading(c) /\ req[c].key \in Keys /\ pc[c] = "s3Get"
        BY <1>0, <3>3, ReaderCall DEF S3Get
      <4> DEFINE b == object[req[c].key]
      <4>2. b # None /\ b \in Bytes /\ req[c].z = b.gz
        BY <1>0, <2>1, <2>4, <4>1 DEF Unharmed, TypeOK
      <4>3. result'[c] = Decode(req[c].z, b)
        BY <1>0, <2>4, <3>3, <4>2 DEF S3Get, Finish, TypeOK
      <4> QED
        BY <4>2, <4>3, DecodeSucceeds
    <3>4. CASE Reading(c) /\ faults' # faults
      BY <2>1, <2>4, <3>4
    <3> QED
      BY <1>0, <2>4, <3>1, <3>2, <3>3, <3>4, ReadMoves
  <2> QED
    BY <2>2, <2>3, <2>4 DEF Unharmed
<1> QED
  BY <1>1, <1>2

\* A read does not end in an error if nobody writes or deletes its key and
\* nothing fails while it runs, the replicas of the key have caught up, and its
\* item tells how its object is encoded: whatever else earlier operations left,
\* a crash between an upload and its pointer, a deletion sent twice, a clean-up
\* that never came.  For callers that mutate a key one at a time and leave no
\* call on its way, on instances of any settings, and replicas that lag
\* whenever the read does not run.
THEOREM UndisturbedReadsSucceed ==
  ASSUME Locking # "none", "late" \notin Faults
  PROVE  HSpec => []UndisturbedReadSucceeds
<1> DEFINE Inv == UploadInv /\ \A c \in Clients : Unharmed(c)
<1>1. HInit => Inv
  BY InitUpload DEF HInit, Init, Unharmed, Reading, NoResult
<1>2. Inv /\ [HNext]_hvars => Inv'
  <2>1. [HNext]_hvars => [Next]_vars
    BY DEF HNext, hvars
  <2> QED
    BY <2>1, StepUpload, StepUnharmed
<1>3. Inv => UndisturbedReadSucceeds
  <2>1. Buckets \subseteq Clients
    BY ConfigAssumption
  <2> QED
    BY <2>1 DEF UndisturbedReadSucceeds, Unharmed
<1> QED
  BY <1>1, <1>2, <1>3, PTL DEF HSpec

-----------------------------------------------------------------------------
(* The contract, for callers that mutate a key one at a time and leave no  *)
(* call on its way, in deployments whose objects are encoded alike: any    *)
(* number of clients, keys and values, calls that fail, crash or are sent  *)
(* again, and replicas that lag.                                           *)

\* The deployments, the callers and the faults that this section is about.
Coordinated == UniformOffload /\ Locking # "none" /\ "late" \notin Faults

ContractInv == HistoryInv /\ UploadInv

\* The invariant of everything below.
LEMMA StepContract ==
  ASSUME ContractInv, [HNext]_hvars, Coordinated
  PROVE  ContractInv'
<1>1. [Next]_vars
  BY DEF HNext, hvars
<1>2. UploadInv'
  BY <1>1, StepUpload DEF ContractInv, Coordinated
<1>3. HistoryInv'
  <2>1. CASE HNext
    BY <2>1, StepAlike, StepCollected, StepLegal DEF ContractInv, HistoryInv, HNext,
       Coordinated
  <2>2. CASE UNCHANGED hvars
    BY <2>2, StutterHistory DEF ContractInv
  <2> QED
    BY <2>1, <2>2
<1> QED
  BY <1>2, <1>3 DEF ContractInv

\* It holds at first.
LEMMA InitContract == HInit => ContractInv
<1> SUFFICES ASSUME HInit PROVE ContractInv
  OBVIOUS
<1>1. UploadInv /\ TypeOK
  BY InitUpload DEF HInit, UploadInv, PointerInv
<1>2. AlikeInv
  BY <1>1 DEF HInit, Init, AlikeInv, AlikeItem, AlikeVersion, Versions, AlikeObject,
     AlikeClient, Alike, Plain
<1>3. \A c \in Clients : Collected(c)
  BY DEF HInit, Init, Collected, Candidates, Reading
<1>4. ReadLegal
  BY DEF HInit, Init, ReadLegal, NoResult
<1> QED
  BY <1>1, <1>2, <1>3, <1>4 DEF ContractInv, HistoryInv

\* The table, its replicas, the calls and the answers as the contract sees them.
StoreMap == [k \in Keys |-> StoreView(k, item[k])]
OldMap == [k \in Keys |-> {StoreView(k, i) : i \in past[k]}]
CallMap == [c \in Clients |-> CallView(c)]
AnswerMap == [c \in Clients |-> AnswerView(c)]

\* A version of an item is a value for the contract, with bytes or without.
LEMMA StoreViewType ==
  ASSUME TypeOK, NEW k \in Keys, NEW i \in Item
  PROVE  /\ StoreView(k, i) = [val |-> ValueOf(k, i), lapsed |-> HasPassed(i.exp)]
         /\ ValueOf(k, i) \in Values \cup {None}
         /\ i # None /\ StoreView(k, i) # None
<1>1. i # None
  BY NoneAssumption DEF Item, Bytes, Stamp
<1>2. StoreView(k, i) = [val |-> ValueOf(k, i), lapsed |-> HasPassed(i.exp)]
  BY <1>1 DEF StoreView
<1>3. ValueOf(k, i) \in Values \cup {None}
  BY DEF ValueOf, Item, Bytes, TypeOK
<1>4. HasPassed(i.exp) \in BOOLEAN
  BY DEF HasPassed
<1>5. StoreView(k, i) \in [val : Values \cup {None}, lapsed : BOOLEAN]
  BY <1>2, <1>3, <1>4
<1> QED
  BY <1>1, <1>2, <1>3, <1>5, ViewAssumption

\* A reader sees the same of a version here and in the contract.
LEMMA SeesAlike ==
  ASSUME TypeOK, NEW c \in Clients, NEW k \in Keys, NEW i \in Item \cup {None}
  PROVE  Contract!Sees(c, StoreView(k, i)) = Views(c, k, i)
<1>1. CASE i = None
  BY <1>1 DEF StoreView, Contract!Sees, Views, Visible
<1>2. CASE i \in Item
  <2> DEFINE v == ValueOf(k, i)
             b == HasPassed(i.exp)
             s == StoreView(k, i)
  <2>1. s = [val |-> v, lapsed |-> b] /\ s # None /\ i # None
    BY <1>2, StoreViewType
  <2>2. Visible(c, i) <=> ~(b /\ TtlEnabled(c))
    BY <2>1 DEF Visible
  <2>3. Views(c, k, i) = IF b /\ TtlEnabled(c) THEN {None} ELSE {v} \ {None}
    BY <2>2 DEF Views
  <2> HIDE DEF v, b, s
  <2>4. s.val = v /\ s.lapsed = b
    BY <2>1
  <2>5. Contract!Sees(c, s) = IF b /\ TtlEnabled(c) THEN {None} ELSE {v} \ {None}
    BY <2>1, <2>4 DEF Contract!Sees
  <2> QED
    BY <2>3, <2>5 DEF s
<1> QED
  BY <1>1, <1>2

\* What the contract sees of a reader is what the reader sees.
SameReads ==
  \A c \in Clients :
    /\ Contract!Reading(c) <=> Reading(c)
    /\ Contract!Readable(c) = Candidates(c)

\* The contract's view of every client's read is the read's own.
LEMMA ViewsAgree == ContractInv => SameReads
<1> USE DEF SameReads
<1> SUFFICES ASSUME ContractInv, NEW c \in Clients
             PROVE  /\ Contract!Reading(c) <=> Reading(c)
                    /\ Contract!Readable(c) = Candidates(c)
  OBVIOUS
<1>0. TypeOK /\ late = {}
  BY DEF ContractInv, UploadInv, PointerInv
<1>1. ASSUME NEW d \in Clients
      PROVE  CallView(d) # None <=> pc[d] # "idle"
  <2>1. CASE pc[d] = "idle"
    BY <2>1 DEF CallView
  <2>2. CASE pc[d] # "idle"
    <3>1. req[d] \in Request
      BY <1>0 DEF TypeOK
    <3>2. /\ req[d].op \in {"write", "read", "delete"} /\ req[d].key \in Keys
          /\ req[d].op = "write" => req[d].data.val \in Values
      BY <3>1 DEF Request, Bytes
    <3>3. CallView(d) \in [op : {"write", "read", "delete"}, key : Keys,
                           val : Values \cup {None}, done : BOOLEAN]
      BY <2>2, <3>2 DEF CallView
    <3> QED
      BY <2>2, <3>3, ViewAssumption
  <2> QED
    BY <2>1, <2>2
<1>2. Contract!Reading(c) <=> Reading(c)
  BY <1>1 DEF Contract!Reading, Reading, CallView
<1>3. CASE Reading(c)
  <2> DEFINE k == req[c].key
  <2>1. k \in Keys /\ Versions(k) \subseteq Item \cup {None}
    BY <1>0, <1>3, ClientCall DEF Reading, Versions, TypeOK
  <2>2. Contract!Pending("write", k) = {d \in Clients : Active(d, k) /\ req[d].op = "write"}
    BY <1>1 DEF Contract!Pending, Active, CallView
  <2>3. {CallView(d).val : d \in Contract!Pending("write", k)} = Writing(k)
    BY <1>0, <2>2 DEF Writing, CallView, Active
  <2>4. {StoreMap[k]} \cup OldMap[k] = {StoreView(k, i) : i \in Versions(k)}
    BY <2>1 DEF StoreMap, OldMap, Versions
  <2> DEFINE S == {StoreMap[k]} \cup OldMap[k]
             P == {Contract!Sees(c, s) : s \in S}
             V == {Views(c, k, i) : i \in Versions(k)}
  <2>5. P = V
    <3>1. \A i \in Versions(k) : Contract!Sees(c, StoreView(k, i)) = Views(c, k, i)
      BY <1>0, <2>1, SeesAlike
    <3> HIDE DEF k, S
    <3>2. S = {StoreView(k, i) : i \in Versions(k)}
      BY <2>4 DEF S
    <3> QED
      BY <3>1, <3>2
  <2>6. CallView(c).key = k
    BY <1>3 DEF CallView, Reading
  <2> DEFINE R(j) == (UNION {Contract!Sees(c, s) : s \in {StoreMap[j]} \cup OldMap[j]})
                       \cup {CallMap[d].val : d \in Contract!Pending("write", j)}
  <2>7. Contract!Readable(c) = R(CallMap[c].key)
    BY <1>2, <1>3, Zenon DEF Contract!Readable, StoreMap, OldMap, CallMap
  <2>8. R(CallMap[c].key) = R(k)
    <3>1. CallMap[c].key = k
      BY <2>6 DEF CallMap
    <3> HIDE DEF R
    <3> QED
      BY <3>1
  <2>9. R(k) = (UNION P) \cup Writing(k)
    <3>1. {CallMap[d].val : d \in Contract!Pending("write", k)}
            = {CallView(d).val : d \in Contract!Pending("write", k)}
      BY DEF CallMap, Contract!Pending
    <3>2. R(k) = (UNION P) \cup {CallMap[d].val : d \in Contract!Pending("write", k)}
      BY Zenon
    <3> QED
      BY <2>3, <3>1, <3>2
  <2>10. Candidates(c) = (UNION V) \cup Writing(k)
    BY <1>3, Zenon DEF Candidates
  <2> HIDE DEF P, V, R
  <2> QED
    BY <1>2, <2>5, <2>7, <2>8, <2>9, <2>10
<1> QED
  BY <1>2, <1>3 DEF Contract!Readable, Candidates

\* A pending read collects for the contract what it collects here.
LEMMA WatchKept ==
  ASSUME ContractInv, ContractInv', Track
  PROVE  Contract!Watch
<1>1. SameReads
  BY ViewsAgree
<1>2. SameReads'
  <2>1. ContractInv' => SameReads'
    BY ViewsAgree, PTL
  <2> QED
    BY <2>1
<1> QED
  BY <1>1, <1>2 DEF SameReads, Contract!Watch, Track

\* A step of one client, and a step that touches one key.
Alone(c) ==
  \A d \in Clients \ {c} : pc'[d] = pc[d] /\ req'[d] = req[d] /\ result'[d] = result[d]

AtKey(k) ==
  /\ now' = now
  /\ \A j \in Keys \ {k} : item'[j] = item[j] /\ object'[j] = object[j] /\ past'[j] = past[j]

\* Only what the contract sees of that client moves.
LEMMA ClientMoves ==
  ASSUME NEW c \in Clients, Alone(c)
  PROVE  /\ CallMap' = [CallMap EXCEPT ![c] = CallView(c)']
         /\ AnswerMap' = [AnswerMap EXCEPT ![c] = AnswerView(c)']
<1>1. ASSUME NEW d \in Clients \ {c}
      PROVE  CallView(d)' = CallView(d) /\ AnswerView(d)' = AnswerView(d)
  BY <1>1 DEF Alone, CallView, AnswerView
<1> QED
  BY <1>1 DEF CallMap, AnswerMap

\* A version looks the same to the contract while its object and the clock stay.
LEMMA SameView ==
  ASSUME now' = now, NEW k, NEW i, object'[k] = object[k] \/ (i # None => ~i.ptr)
  PROVE  StoreView(k, i)' = StoreView(k, i)
BY DEF StoreView, ValueOf, HasPassed

\* Only what the contract sees of that key moves.
LEMMA KeyMoves ==
  ASSUME NEW k \in Keys, AtKey(k)
  PROVE  /\ StoreMap' = [StoreMap EXCEPT ![k] = StoreView(k, item[k])']
         /\ OldMap' = [OldMap EXCEPT ![k] = OldMap'[k]]
<1>1. ASSUME NEW j \in Keys \ {k}
      PROVE  StoreMap'[j] = StoreMap[j] /\ OldMap'[j] = OldMap[j]
  <2>1. /\ object'[j] = object[j] /\ item'[j] = item[j] /\ past'[j] = past[j]
        /\ now' = now
    BY <1>1 DEF AtKey
  <2>2. \A i : StoreView(j, i)' = StoreView(j, i)
    BY <2>1, SameView
  <2> QED
    BY <1>1, <2>1, <2>2 DEF StoreMap, OldMap
<1>2. StoreMap'[k] = StoreView(k, item[k])'
  BY DEF StoreMap
<1>3. \A j \in Keys : StoreMap'[j] = [StoreMap EXCEPT ![k] = StoreView(k, item[k])'][j]
  BY <1>1, <1>2 DEF StoreMap
<1>4. \A j \in Keys : OldMap'[j] = [OldMap EXCEPT ![k] = OldMap'[k]][j]
  BY <1>1 DEF OldMap
<1> QED
  BY <1>3, <1>4 DEF StoreMap, OldMap

\* The contract sees no change in a table that nobody touches.
LEMMA SameStore ==
  ASSUME UNCHANGED <<table, now>>
  PROVE  StoreMap' = StoreMap /\ OldMap' = OldMap
<1>1. ASSUME NEW k \in Keys
      PROVE  StoreMap'[k] = StoreMap[k] /\ OldMap'[k] = OldMap[k]
  <2>1. \A i : StoreView(k, i)' = StoreView(k, i)
    BY SameView DEF table
  <2> QED
    BY <2>1 DEF StoreMap, OldMap, table
<1> QED
  BY <1>1 DEF StoreMap, OldMap

\* What the contract does not see is a lapse of no key.
LEMMA Unseen ==
  ASSUME UNCHANGED <<StoreMap, OldMap, CallMap, AnswerMap>>
  PROVE  Contract!Step
<1>1. \E K \in SUBSET Keys :
        StoreMap' = [k \in Keys |-> IF k \in K THEN Contract!Lapsed(StoreMap[k]) ELSE StoreMap[k]]
  <2> DEFINE K == {}
  <2>1. K \in SUBSET Keys
    OBVIOUS
  <2>2. StoreMap' = [k \in Keys |->
                       IF k \in K THEN Contract!Lapsed(StoreMap[k]) ELSE StoreMap[k]]
    BY DEF StoreMap
  <2> HIDE DEF K
  <2> QED
    BY <2>1, <2>2
<1>2. /\ OldMap' = [k \in Keys |-> OldMap'[k]]
      /\ \A k \in Keys :
           OldMap'[k] \subseteq OldMap[k] \cup {Contract!Lapsed(s) : s \in OldMap[k]}
  BY DEF OldMap
<1>3. Contract!Lapse
  BY <1>1, <1>2 DEF Contract!Lapse, StoreMap, OldMap, CallMap, AnswerMap
<1> QED
  BY <1>3 DEF Contract!Step

\* What the contract allows the replicas to serve after a mutation of c.
Allowed(c) ==
  OldMap[CallMap[c].key] \cup {StoreMap[CallMap[c].key]}
    \cup Contract!WithBytes(CallMap[c].key, CallMap[c].val)
    \cup Contract!WithBytes(CallMap[c].key, None)

\* The replicas lag as the contract allows.
LEMMA LagsAllowed ==
  ASSUME NEW c \in Clients, NEW k \in Keys, CallMap[c].key = k,
         OldMap' = [OldMap EXCEPT ![k] = OldMap'[k]],
         OldMap'[k] \subseteq Allowed(c)
  PROVE  Contract!Lags(CallMap[c])
<1>1. Contract!Behind(CallMap[c].key, Allowed(c))
  BY DEF Contract!Behind, OldMap
<1> QED
  BY <1>1 DEF Contract!Lags, Allowed, OldMap, StoreMap, CallMap

\* They do when they serve what they did.
LEMMA SameLags ==
  ASSUME OldMap' = OldMap, NEW c \in Clients, CallMap[c].key \in Keys
  PROVE  Contract!Lags(CallMap[c])
<1> PICK k \in Keys : CallMap[c].key = k
  OBVIOUS
<1>1. OldMap' = [OldMap EXCEPT ![k] = OldMap'[k]]
  BY DEF OldMap
<1>2. OldMap'[k] \subseteq Allowed(c)
  BY DEF Allowed
<1> QED
  BY <1>1, <1>2, LagsAllowed

\* An operation that ends has returned, with what the contract sees of it.
LEMMA FinishReturns ==
  ASSUME TypeOK, NEW c \in Clients, UNCHANGED req, NEW res \in Result, Finish(c, res)
  PROVE  /\ CallMap' = [CallMap EXCEPT ![c] = None]
         /\ AnswerMap' = [AnswerMap EXCEPT ![c] =
              [status |-> res.status,
               val |-> IF res.data = None THEN None
                       ELSE IF res.data.gz THEN res.data ELSE res.data.val]]
<1>1. /\ pc' = [pc EXCEPT ![c] = "idle"] /\ result' = [result EXCEPT ![c] = res]
      /\ pc \in [Clients -> Calls \cup {"idle"}] /\ result \in [Clients -> Result]
  BY DEF Finish, TypeOK
<1>2. Alone(c) /\ pc'[c] = "idle" /\ result'[c] = res
  BY <1>1 DEF Alone
<1> QED
  BY <1>2, ClientMoves DEF CallView, AnswerView

\* A call that is pending for the contract is a record of its own.
LEMMA PendingCall ==
  ASSUME TypeOK, NEW c \in Clients, pc[c] # "idle"
  PROVE  /\ CallMap[c] = [op   |-> req[c].op,
                          key  |-> req[c].key,
                          val  |-> IF req[c].op = "write" THEN req[c].data.val ELSE None,
                          done |-> pc[c] \in {"s3Reclaim", "s3Delete"}]
         /\ CallMap[c] # None
<1>1. req[c] \in Request
  BY DEF TypeOK
<1>2. /\ req[c].op \in {"write", "read", "delete"} /\ req[c].key \in Keys
      /\ req[c].op = "write" => req[c].data.val \in Values
  BY <1>1 DEF Request, Bytes
<1>3. CallView(c) \in [op : {"write", "read", "delete"}, key : Keys,
                       val : Values \cup {None}, done : BOOLEAN]
  BY <1>2 DEF CallView
<1>4. CallView(c) # None
  BY <1>3, ViewAssumption
<1> QED
  BY <1>4 DEF CallMap, CallView

\* What a client's call does to the replicas: they may go on serving what it
\* replaces.
LEMMA EffectOnReplicas ==
  ASSUME TypeOK, NEW c \in Clients, pc[c] # "idle", Effect(pc[c], req[c])
  PROVE  /\ \A k \in Keys \ {req[c].key} : past'[k] = past[k]
         /\ pc[c] \in {"put", "deleteItem"} =>
              past'[req[c].key] \subseteq past[req[c].key] \cup {item[req[c].key]}
         /\ pc[c] \in {"s3Put", "s3Reclaim", "s3Delete"} => past' = past
<1>1. req[c].key \in Keys
  BY ClientCall
<1>2. CASE pc[c] = "s3Put" /\ PutObject(req[c])
  BY <1>2 DEF PutObject
<1>3. CASE pc[c] = "put" /\ PutItemInTable(req[c])
  BY <1>1, <1>3 DEF PutItemInTable, Replace, TypeOK
<1>4. CASE pc[c] = "deleteItem" /\ DeleteItemInTable(req[c])
  BY <1>1, <1>4 DEF DeleteItemInTable, Replace, TypeOK
<1>5. CASE pc[c] \in {"s3Reclaim", "s3Delete"} /\ DeleteObject(req[c])
  BY <1>5 DEF DeleteObject
<1> QED
  BY <1>2, <1>3, <1>4, <1>5 DEF Effect

\* Changing one field of a value that the contract stores.
LEMMA StoredRecord ==
  ASSUME NEW v, NEW b, NEW w
  PROVE  [[val |-> v, lapsed |-> b] EXCEPT !.val = w] = [val |-> w, lapsed |-> b]
OBVIOUS

\* A stored value that lapses stays the value it is.
LEMMA LapsedRecord ==
  ASSUME NEW v, NEW b
  PROVE  [[val |-> v, lapsed |-> b] EXCEPT !.lapsed = TRUE] = [val |-> v, lapsed |-> TRUE]
<1> DEFINE t == TRUE
<1>1. [[val |-> v, lapsed |-> b] EXCEPT !.lapsed = t] = [val |-> v, lapsed |-> t]
  <2> HIDE DEF t
  <2> QED
    OBVIOUS
<1> QED
  BY <1>1

\* What the contract allows its replicas to serve after a mutation.
LEMMA LagsSeen ==
  ASSUME NEW c \in Clients, NEW k \in Keys, CallMap[c].key = k, AtKey(k),
         \A i \in past'[k] :
           \/ StoreView(k, i)' \in OldMap[k] \cup {StoreMap[k]}
           \/ \E s \in OldMap[k] \ {None}, v \in {CallMap[c].val, None} :
                StoreView(k, i)' = [s EXCEPT !.val = v]
  PROVE  Contract!Lags(CallMap[c])
<1>1. OldMap' = [OldMap EXCEPT ![k] = OldMap'[k]]
  BY KeyMoves
<1>2. OldMap'[k] = {StoreView(k, i)' : i \in past'[k]}
  BY DEF OldMap
<1>3. ASSUME NEW i \in past'[k]
      PROVE  StoreView(k, i)' \in Allowed(c)
  <2>1. CASE StoreView(k, i)' \in OldMap[k] \cup {StoreMap[k]}
    BY <2>1 DEF Allowed
  <2>2. ASSUME NEW s \in OldMap[k] \ {None}, NEW v \in {CallMap[c].val, None},
               StoreView(k, i)' = [s EXCEPT !.val = v]
        PROVE  StoreView(k, i)' \in Allowed(c)
    <3>1. StoreView(k, i)' \in Contract!WithBytes(k, v)
      BY <2>2 DEF Contract!WithBytes, OldMap
    <3> QED
      BY <3>1 DEF Allowed
  <2> QED
    BY <1>3, <2>1, <2>2
<1>4. OldMap'[k] \subseteq Allowed(c)
  BY <1>2, <1>3
<1> QED
  BY <1>1, <1>4, LagsAllowed

\* What a call of an operation does to the services is, for the contract, the
\* effect of that operation, or nothing but to older versions.
LEMMA EffectSeen ==
  ASSUME ContractInv, NEW c \in Clients, pc[c] # "idle", Effect(pc[c], req[c]), now' = now
  PROVE  /\ Contract!Lags(CallMap[c])
         /\ pc[c] \in {"s3Put", "put", "deleteItem"}
              => Contract!Effect(CallMap[c]) \/ (pc[c] = "s3Put" /\ StoreMap' = StoreMap)
         /\ pc[c] \in {"s3Reclaim", "s3Delete"} => StoreMap' = StoreMap
         /\ pc[c] \in {"s3Put", "put", "s3Reclaim", "deleteItem", "s3Delete"}
<1> DEFINE r == req[c]
<1>0. TypeOK /\ Prepared(c) /\ Uploaded(c) /\ r \in Request
  BY ClientCall DEF ContractInv, UploadInv, PointerInv
<1> PICK k \in Keys : r.key = k
  BY <1>0, ClientCall
<1>1. /\ AtKey(k)
      /\ pc[c] = "s3Put" => item' = item /\ object'[k] = r.data
      /\ pc[c] = "put" => object' = object /\ item'[k] = ItemOf(r)
      /\ pc[c] = "deleteItem" => object' = object /\ item'[k] = None
      /\ pc[c] \in {"s3Reclaim", "s3Delete"} => item' = item /\ object'[k] = None
  BY <1>0, EffectAtKey, EffectOnReplicas DEF AtKey
<1>2. StoreMap' = [StoreMap EXCEPT ![k] = StoreView(k, item[k])']
  BY <1>1, KeyMoves
<1>3. /\ pc[c] \in {"s3Put", "put", "s3Reclaim"} => r.op = "write"
      /\ pc[c] \in {"deleteItem", "s3Delete"} => r.op = "delete"
  BY <1>0, ClientCall
<1>4. pc[c] \in {"s3Put", "put", "s3Reclaim", "deleteItem", "s3Delete"}
  BY DEF Effect
<1>5. /\ CallMap[c].op = r.op /\ CallMap[c].key = k
      /\ r.op = "write" => CallMap[c].val = r.data.val
  BY <1>0 DEF CallMap, CallView
<1>6. ASSUME StoreView(k, item[k])' \in Contract!Outcome(CallMap[c])
      PROVE  Contract!Effect(CallMap[c])
  BY <1>2, <1>5, <1>6 DEF Contract!Effect, StoreMap
<1>7. ASSUME StoreView(k, item[k])' = StoreView(k, item[k])
      PROVE  StoreMap' = StoreMap
  BY <1>2, <1>7 DEF StoreMap
<1>8. ASSUME r.op = "write", NEW b \in BOOLEAN,
             StoreView(k, item[k])' = [val |-> r.data.val, lapsed |-> b]
      PROVE  Contract!Effect(CallMap[c])
  <2>1. [val |-> r.data.val, lapsed |-> b] \in [val : {r.data.val}, lapsed : BOOLEAN]
    OBVIOUS
  <2> QED
    BY <1>5, <1>6, <1>8, <2>1 DEF Contract!Outcome
<1>9. ASSUME pc[c] = "put"
      PROVE  Contract!Effect(CallMap[c])
  <2>0. ItemOf(r) \in Item /\ r.data \in Bytes
    BY <1>0, <1>3, <1>9, ItemOfType DEF Request
  <2>1. (item')[k] = ItemOf(r) /\ ItemOf(r) # None
    BY <1>1, <1>9, <2>0, NoneAssumption DEF Item, Bytes, Stamp
  <2>2. ItemOf(r).ptr = Oversized(r.data) /\ (~ Oversized(r.data) => ItemOf(r).data = r.data)
    BY DEF ItemOf
  <2>3. Oversized(r.data) => (object')[k] = r.data /\ r.data # None
    BY <1>0, <1>1, <1>9, <2>0, NoneAssumption DEF Uploaded, Bytes
  <2>4. StoreView(k, item[k])' = [val |-> r.data.val, lapsed |-> HasPassed(ItemOf(r).exp)]
    BY <1>1, <2>1, <2>2, <2>3 DEF StoreView, ValueOf, HasPassed, AtKey
  <2>5. HasPassed(ItemOf(r).exp) \in BOOLEAN
    BY DEF HasPassed
  <2> QED
    BY <1>3, <1>8, <1>9, <2>4, <2>5
<1>10. ASSUME pc[c] = "s3Put"
       PROVE  Contract!Effect(CallMap[c]) \/ StoreMap' = StoreMap
  <2>1. CASE IsPointer(item[k])
    <3>1. r.data \in Bytes /\ r.data # None
      BY <1>0, <1>3, <1>10, NoneAssumption DEF Request, Bytes
    <3>2. StoreView(k, item[k])' = [val |-> r.data.val, lapsed |-> HasPassed(item[k].exp)]
      BY <1>1, <1>10, <2>1, <3>1 DEF StoreView, ValueOf, IsPointer, HasPassed, AtKey
    <3>3. HasPassed(item[k].exp) \in BOOLEAN
      BY DEF HasPassed
    <3> QED
      BY <1>3, <1>8, <1>10, <3>2, <3>3
  <2>2. CASE ~ IsPointer(item[k])
    <3>1. StoreView(k, item[k])' = StoreView(k, item[k])
      BY <1>1, <1>10, <2>2 DEF StoreView, ValueOf, IsPointer, HasPassed, AtKey
    <3> QED
      BY <1>7, <3>1
  <2> QED
    BY <2>1, <2>2
<1>11. ASSUME pc[c] = "deleteItem"
       PROVE  Contract!Effect(CallMap[c])
  <2>1. StoreView(k, item[k])' = None
    BY <1>1, <1>11 DEF StoreView
  <2>2. Contract!Outcome(CallMap[c]) = {None}
    BY <1>3, <1>5, <1>11 DEF Contract!Outcome
  <2> QED
    BY <1>6, <2>1, <2>2
<1>12. ASSUME pc[c] \in {"s3Reclaim", "s3Delete"}
       PROVE  StoreMap' = StoreMap
  <2>1. ~ IsPointer(item[k])
    BY <1>0, <1>12 DEF Prepared
  <2>2. StoreView(k, item[k])' = StoreView(k, item[k])
    BY <1>1, <1>12, <2>1 DEF StoreView, ValueOf, IsPointer, HasPassed, AtKey
  <2> QED
    BY <1>7, <2>2
<1>13. ASSUME NEW i \in past'[k]
       PROVE  \/ StoreView(k, i)' \in OldMap[k] \cup {StoreMap[k]}
              \/ \E s \in OldMap[k] \ {None}, v \in {CallMap[c].val, None} :
                   StoreView(k, i)' = [s EXCEPT !.val = v]
  <2>1. CASE pc[c] \in {"put", "deleteItem"}
    <3>1. i \in past[k] \cup {item[k]} /\ object'[k] = object[k]
      BY <1>0, <1>1, <1>13, <2>1, EffectOnReplicas
    <3>2. StoreView(k, i)' = StoreView(k, i)
      BY <1>1, <3>1, SameView DEF AtKey
    <3> QED
      BY <3>1, <3>2 DEF OldMap, StoreMap
  <2>2. CASE pc[c] \in {"s3Put", "s3Reclaim", "s3Delete"} /\ (i # None => ~i.ptr)
    <3>1. i \in past[k]
      BY <1>0, <1>13, <2>2, EffectOnReplicas
    <3>2. StoreView(k, i)' = StoreView(k, i)
      BY <1>1, <2>2, SameView DEF AtKey
    <3> QED
      BY <3>1, <3>2 DEF OldMap
  <2>3. CASE pc[c] \in {"s3Put", "s3Reclaim", "s3Delete"} /\ i # None /\ i.ptr
    <3> DEFINE s == StoreView(k, i)
               v == ValueOf(k, i)'
               b == HasPassed(i.exp)
    <3>1. i \in past[k] /\ i \in Item
      BY <1>0, <1>13, <2>3, EffectOnReplicas DEF TypeOK
    <3>2. s = [val |-> ValueOf(k, i), lapsed |-> b] /\ s # None
      BY <1>0, <3>1, StoreViewType
    <3>3. StoreView(k, i)' = [val |-> v, lapsed |-> b]
      BY <1>1, <2>3 DEF StoreView, HasPassed, AtKey
    <3>4. v \in {CallMap[c].val, None}
      <4>1. CASE pc[c] = "s3Put"
        BY <1>1, <1>3, <1>5, <2>3, <4>1 DEF ValueOf
      <4>2. CASE pc[c] # "s3Put"
        BY <1>1, <2>3, <4>2 DEF ValueOf
      <4> QED
        BY <4>1, <4>2
    <3>5. s \in OldMap[k] \ {None}
      BY <3>1, <3>2 DEF OldMap
    <3> HIDE DEF s, v, b
    <3>6. StoreView(k, i)' = [s EXCEPT !.val = v]
      BY <3>2, <3>3, StoredRecord
    <3> QED
      BY <3>4, <3>5, <3>6
  <2> QED
    BY <1>4, <2>1, <2>2, <2>3
<1>14. Contract!Lags(CallMap[c])
  BY <1>1, <1>5, <1>13, LagsSeen
<1> QED
  BY <1>4, <1>9, <1>10, <1>11, <1>12, <1>14

\* A write or a delete that returns is acknowledged by the contract.
LEMMA Acknowledged ==
  ASSUME TypeOK, NEW c \in Clients, pc[c] # "idle", req[c].op # "read", UNCHANGED req,
         Finish(c, Ok), Contract!Lags(CallMap[c]),
         \/ Contract!Effect(CallMap[c])
         \/ pc[c] \in {"s3Reclaim", "s3Delete"} /\ StoreMap' = StoreMap
  PROVE  Contract!Step
<1>1. /\ CallMap' = [CallMap EXCEPT ![c] = None]
      /\ AnswerMap' = [AnswerMap EXCEPT ![c] = [status |-> "ok", val |-> None]]
  BY FinishReturns, ResultConstants DEF Ok
<1>2. /\ CallMap[c] # None /\ CallMap[c].op # "read"
      /\ CallMap[c].done <=> pc[c] \in {"s3Reclaim", "s3Delete"}
  BY PendingCall DEF CallMap, CallView
<1>3. Contract!Effect(CallMap[c]) \/ (CallMap[c].done /\ StoreMap' = StoreMap)
  BY <1>2
<1>4. Contract!Acknowledge(c)
  BY <1>1, <1>2, <1>3 DEF Contract!Acknowledge, Contract!Mutating, Contract!Return,
     Contract!Answer, CallMap, AnswerMap, StoreMap
<1> QED
  BY <1>4 DEF Contract!Step

\* An operation that throws or is gone has failed for the contract.
LEMMA Failed ==
  ASSUME TypeOK, NEW c \in Clients, pc[c] # "idle", UNCHANGED req,
         NEW res \in {Error, Gone}, Finish(c, res), UNCHANGED <<StoreMap, OldMap>>
  PROVE  Contract!Step
<1>1. /\ CallMap' = [CallMap EXCEPT ![c] = None]
      /\ AnswerMap' = [AnswerMap EXCEPT ![c] = [status |-> res.status, val |-> None]]
      /\ res.status \in {"error", "gone"}
  BY FinishReturns, ResultConstants DEF Error, Gone
<1>2. CallMap[c] # None
  BY PendingCall
<1>3. Contract!Fails(c)
  BY <1>1, <1>2 DEF Contract!Fails, Contract!Return, Contract!Answer, CallMap, AnswerMap,
     StoreMap, OldMap
<1> QED
  BY <1>3 DEF Contract!Step

\* A write or a delete that moves on to its clean-up is done for the contract.
\* Its calls that replace no item reach the older versions alone.
LEMMA TookEffect ==
  ASSUME TypeOK, NEW c \in Clients, pc[c] # "idle", req[c].op # "read",
         UNCHANGED <<req, result>>, NEW p, p # "idle", pc' = [pc EXCEPT ![c] = p],
         Contract!Lags(CallMap[c]),
         \/ Contract!Effect(CallMap[c])
         \/ /\ StoreMap' = StoreMap
            /\ p \in {"s3Reclaim", "s3Delete"} <=> pc[c] \in {"s3Reclaim", "s3Delete"}
  PROVE  Contract!Step
<1> DEFINE done == p \in {"s3Reclaim", "s3Delete"}
<1>1. Alone(c) /\ pc'[c] = p
  BY DEF Alone, TypeOK
<1>2. /\ CallMap' = [CallMap EXCEPT ![c] = CallView(c)']
      /\ AnswerMap' = [AnswerMap EXCEPT ![c] = AnswerView(c)']
  BY <1>1, ClientMoves
<1>3. AnswerMap' = AnswerMap
  BY <1>2 DEF AnswerMap, AnswerView
<1>4. CallMap[c] = CallView(c) /\ CallMap[c] # None /\ CallMap[c].op # "read"
  BY PendingCall DEF CallMap
<1>5. CASE Contract!Effect(CallMap[c])
  <2>1. CallView(c)' = [CallView(c) EXCEPT !.done = done]
    BY <1>1 DEF CallView
  <2>2. CallMap' = [CallMap EXCEPT ![c].done = done]
    BY <1>2, <1>4, <2>1
  <2>3. \E d \in BOOLEAN : CallMap' = [CallMap EXCEPT ![c].done = d]
    <3>1. done \in BOOLEAN
      OBVIOUS
    <3> HIDE DEF done
    <3> QED
      BY <2>2, <3>1
  <2>4. Contract!TakesEffect(c)
    BY <1>3, <1>4, <1>5, <2>3
    DEF Contract!TakesEffect, Contract!Mutating, CallMap, AnswerMap, StoreMap
  <2> QED
    BY <2>4 DEF Contract!Step
<1>6. CASE /\ StoreMap' = StoreMap
           /\ p \in {"s3Reclaim", "s3Delete"} <=> pc[c] \in {"s3Reclaim", "s3Delete"}
  <2>1. CallView(c)' = CallView(c)
    BY <1>1, <1>6 DEF CallView
  <2>2. CallMap' = CallMap
    BY <1>2, <2>1 DEF CallMap
  <2>3. Contract!ReachesReplicas(c)
    BY <1>3, <1>4, <1>6, <2>2
    DEF Contract!ReachesReplicas, Contract!Mutating, CallMap, AnswerMap, StoreMap
  <2> QED
    BY <2>3 DEF Contract!Step
<1> QED
  BY <1>5, <1>6

\* An operation that starts is invoked.  Its callers start no mutation of a
\* key while another is pending.
LEMMA Invoked ==
  ASSUME ContractInv, Coordinated, NEW c \in Clients, NEW r \in Request, NEW first,
         Begin(c, r, first), first \notin {"idle", "s3Reclaim", "s3Delete"},
         result' = [result EXCEPT ![c] = NoResult]
  PROVE  Contract!Step
<1>0. TypeOK
  BY DEF ContractInv, UploadInv, PointerInv
<1>1. /\ pc[c] = "idle" /\ MayStart(r.op, r.key)
      /\ pc' = [pc EXCEPT ![c] = first] /\ req' = [req EXCEPT ![c] = r]
      /\ UNCHANGED <<table, now>>
  BY DEF Begin
<1>2. Alone(c) /\ pc'[c] = first /\ req'[c] = r /\ result'[c] = NoResult
  BY <1>0, <1>1 DEF Alone, TypeOK
<1>3. /\ CallMap' = [CallMap EXCEPT ![c] = CallView(c)']
      /\ AnswerMap' = [AnswerMap EXCEPT ![c] = AnswerView(c)']
      /\ UNCHANGED <<StoreMap, OldMap>>
  BY <1>1, <1>2, ClientMoves, SameStore
<1>4. AnswerView(c)' = [status |-> "none", val |-> None]
  BY <1>2 DEF AnswerView, NoResult
<1> DEFINE v == IF r.op = "write" THEN r.data.val ELSE None
<1>5. CallView(c)' = [op |-> r.op, key |-> r.key, val |-> v, done |-> FALSE]
  <2>1. (first \in {"s3Reclaim", "s3Delete"}) = FALSE
    OBVIOUS
  <2>2. CallView(c)' = [op |-> r.op, key |-> r.key, val |-> v,
                        done |-> first \in {"s3Reclaim", "s3Delete"}]
    BY <1>2 DEF CallView
  <2> QED
    BY <2>1, <2>2
<1>6. /\ r.op \in {"write", "read", "delete"} /\ r.key \in Keys
      /\ v \in IF r.op = "write" THEN Values ELSE {None}
  BY DEF Request, Bytes
<1>7. CallMap[c] = None
  BY <1>1 DEF CallMap, CallView
<1>8. r.op # "read"
        => Contract!Pending("write", r.key) \cup Contract!Pending("delete", r.key) = {}
  <2> SUFFICES ASSUME r.op # "read", NEW d \in Clients, CallMap[d] # None,
                      CallMap[d].key = r.key, CallMap[d].op \in {"write", "delete"}
               PROVE  FALSE
    BY DEF Contract!Pending, CallMap
  <2>1. pc[d] # "idle" /\ req[d].key = r.key /\ req[d].op # "read"
    BY DEF CallMap, CallView
  <2> QED
    BY <1>1, <2>1, EnvironmentAssumption DEF MayStart, Mutating, Active, Coordinated
<1> HIDE DEF v
<1>9. CallMap' = [CallMap EXCEPT ![c] = [op |-> r.op, key |-> r.key, val |-> v, done |-> FALSE]]
  BY <1>3, <1>5
<1>10. AnswerMap' = [AnswerMap EXCEPT ![c] = Contract!Answer("none", None)]
  BY <1>3, <1>4 DEF Contract!Answer
<1>11. Contract!Invoke(c)
  <2>1. \E op \in {"write", "read", "delete"}, k \in Keys :
          /\ op # "read" => Contract!Pending("write", k) \cup Contract!Pending("delete", k) = {}
          /\ \E w \in IF op = "write" THEN Values ELSE {None} :
               CallMap' = [CallMap EXCEPT ![c] =
                             [op |-> op, key |-> k, val |-> w, done |-> FALSE]]
    BY <1>6, <1>8, <1>9
  <2> QED
    BY <1>3, <1>7, <1>10, <2>1 DEF Contract!Invoke, CallMap, AnswerMap, StoreMap, OldMap
<1> QED
  BY <1>11 DEF Contract!Step

\* Whatever a client starts, the contract sees it start or refused.
LEMMA BeginContract ==
  ASSUME ContractInv, Coordinated, NEW c \in Clients, BeginOperation(c)
  PROVE  Contract!Step
<1>0. TypeOK
  BY DEF ContractInv, UploadInv, PointerInv
<1>1. ASSUME NEW k \in Keys, NEW v \in Values, NEW ttl \in Ttls, BeginWrite(c, k, v, ttl)
      PROVE  Contract!Step
  <2>1. WriteRequest(c, k, v, ttl) \in Request
    BY <1>0, WriteRequestType DEF TypeOK
  <2> DEFINE first == IF Oversized(Encode(c, v)) THEN "s3Put" ELSE "put"
  <2>2. /\ Begin(c, WriteRequest(c, k, v, ttl), first)
        /\ result' = [result EXCEPT ![c] = NoResult]
    BY <1>1 DEF BeginWrite
  <2>3. first \notin {"idle", "s3Reclaim", "s3Delete"}
    OBVIOUS
  <2> HIDE DEF first
  <2> QED
    BY <2>1, <2>2, <2>3, Invoked
<1>2. ASSUME NEW k \in Keys, NEW v \in Values, NEW ttl \in Ttls, RefuseWrite(c, k, v, ttl)
      PROVE  Contract!Step
  <2>1. /\ pc[c] = "idle" /\ pc' = [pc EXCEPT ![c] = "idle"]
        /\ \A d \in Clients \ {c} : req'[d] = req[d]
        /\ result' = [result EXCEPT ![c] = Error]
        /\ UNCHANGED <<table, now>>
    BY <1>0, <1>2 DEF RefuseWrite, Begin, TypeOK
  <2>2. Alone(c) /\ pc'[c] = "idle" /\ result'[c] = Error
    BY <1>0, <2>1 DEF Alone, TypeOK
  <2>3. /\ CallMap' = [CallMap EXCEPT ![c] = CallView(c)']
        /\ AnswerMap' = [AnswerMap EXCEPT ![c] = AnswerView(c)']
        /\ UNCHANGED <<StoreMap, OldMap>>
    BY <2>1, <2>2, ClientMoves, SameStore
  <2>4. CallMap[c] = None /\ CallMap' = CallMap
    BY <2>1, <2>2, <2>3 DEF CallMap, CallView
  <2>5. AnswerMap' = [AnswerMap EXCEPT ![c] = Contract!Answer("error", None)]
    BY <2>2, <2>3 DEF AnswerView, Error, Contract!Answer
  <2>6. Contract!Refuse(c)
    BY <2>3, <2>4, <2>5 DEF Contract!Refuse, CallMap, AnswerMap, StoreMap, OldMap
  <2> QED
    BY <2>6 DEF Contract!Step
<1>3. ASSUME NEW k \in Keys, BeginRead(c, k) \/ BeginDelete(c, k)
      PROVE  Contract!Step
  <2>1. Plain("read", k) \in Request /\ Plain("delete", k) \in Request
    BY PlainType
  <2> QED
    BY <1>3, <2>1, Invoked DEF BeginRead, BeginDelete
<1> QED
  BY <1>1, <1>2, <1>3 DEF BeginOperation

\* A read returns, to the contract too, one of the values it has collected.
LEMMA ReadReturned ==
  ASSUME ContractInv, NEW c \in Clients, Reading(c), UNCHANGED <<req, table, now>>,
         NEW res \in Result, Finish(c, res), res.status = "ok",
         NEW v \in seen[c],
         v = IF res.data = None THEN None ELSE res.data.val,
         res.data # None => ~res.data.gz
  PROVE  Contract!Step
<1>0. TypeOK
  BY DEF ContractInv, UploadInv, PointerInv
<1>1. /\ CallMap' = [CallMap EXCEPT ![c] = None]
      /\ AnswerMap' = [AnswerMap EXCEPT ![c] = [status |-> "ok", val |-> v]]
      /\ UNCHANGED <<StoreMap, OldMap>>
  BY <1>0, FinishReturns, SameStore
<1>2. CallMap[c] # None /\ CallMap[c].op = "read"
  BY <1>0, PendingCall DEF Reading, CallMap, CallView
<1>3. Contract!ReadReturns(c)
  BY <1>1, <1>2 DEF Contract!ReadReturns, Contract!Reading, Contract!Return, Contract!Answer,
     CallMap, AnswerMap, StoreMap, OldMap
<1> QED
  BY <1>3 DEF Contract!Step

\* The reply to GetItem ends the read with a value it has collected, or sends
\* it on to its object, which the contract does not see.
LEMMA GetItemContract ==
  ASSUME ContractInv, NEW c \in Clients, GetItem(c)
  PROVE  Contract!Step
<1>0. TypeOK /\ AlikeInv /\ Collected(c)
  BY DEF ContractInv, UploadInv, PointerInv, HistoryInv
<1>1. /\ Reading(c) /\ pc[c] = "get" /\ UNCHANGED <<table, now>>
      /\ req[c] \in Request /\ req[c].op = "read"
      /\ \A i \in Versions(req[c].key) : Views(c, req[c].key, i) \subseteq seen[c]
  BY <1>0, ReaderCall DEF GetItem, Environment, Collected
<1>2. CASE pc'[c] = "idle"
  <2>1. PICK i \in Versions(req[c].key) : GetVersion(c, i)
    BY DEF GetItem
  <2>2. i \in Item \cup {None}
    BY <1>0, <1>1 DEF TypeOK, Versions, Request
  <2>3. PICK res \in Result : Finish(c, res) /\ req' = req
    <3>1. CASE ~Visible(c, i)
      BY <2>1, <3>1, ResultConstants DEF GetVersion
    <3>2. CASE Visible(c, i) /\ ~IsPointer(i)
      <4>1. i.data \in Bytes /\ i.z \in BOOLEAN
        BY <2>2, <3>2 DEF Visible, IsPointer, Item
      <4>2. Decode(i.z, i.data) \in Result
        BY <4>1, DecodeType
      <4> QED
        BY <2>1, <3>2, <4>2 DEF GetVersion
    <3>3. CASE Visible(c, i) /\ IsPointer(i)
      BY <1>0, <1>2, <2>1, <3>3 DEF GetVersion, GoTo, TypeOK
    <3> QED
      BY <3>1, <3>2, <3>3
  <2>4. result'[c] = res /\ res.status = "ok"
    BY <1>0, <1>2, <2>3, GetItemSees DEF Finish, TypeOK
  <2>5. \E v \in seen[c] :
          /\ v = IF res.data = None THEN None ELSE res.data.val
          /\ res.data # None => ~res.data.gz
    BY <1>0, <1>1, <1>2, <2>4, GetItemSees
  <2> QED
    BY <1>1, <2>3, <2>4, <2>5, ReadReturned
<1>3. CASE pc'[c] # "idle"
  <2>1. pc'[c] = "s3Get" /\ req'[c].op = "read" /\ req'[c].key = req[c].key
    BY <1>0, <1>3, GetItemSees
  <2>2. Alone(c) /\ result'[c] = result[c]
    BY <1>0, <1>3 DEF GetItem, GetVersion, GoTo, Finish, Alone, TypeOK
  <2>3. CallView(c)' = CallView(c) /\ AnswerView(c)' = AnswerView(c)
    BY <1>1, <2>1, <2>2 DEF CallView, AnswerView
  <2>4. CallMap' = CallMap /\ AnswerMap' = AnswerMap
    BY <2>2, <2>3, ClientMoves DEF CallMap, AnswerMap
  <2> QED
    BY <1>1, <2>4, SameStore, Unseen
<1> QED
  BY <1>2, <1>3

\* The reply to the fetch of an object ends the read, with a value or not.
LEMMA S3GetContract ==
  ASSUME ContractInv, NEW c \in Clients, S3Get(c)
  PROVE  Contract!Step
<1>0. TypeOK /\ AlikeInv /\ Collected(c)
  BY DEF ContractInv, UploadInv, PointerInv, HistoryInv
<1>1. /\ Reading(c) /\ pc[c] = "s3Get" /\ UNCHANGED <<req, table, now>>
      /\ req[c] \in Request /\ req[c].key \in Keys
  BY <1>0, ReaderCall DEF S3Get, Environment
<1> DEFINE b == object[req[c].key]
           res == IF c \notin Buckets \/ b = None THEN Error ELSE Decode(req[c].z, b)
<1>2. Finish(c, res)
  BY DEF S3Get
<1>3. res \in Result /\ (res = Error \/ res.status = "ok")
  <2>1. CASE c \notin Buckets \/ b = None
    BY <2>1, ResultConstants
  <2>2. CASE ~ (c \notin Buckets \/ b = None)
    <3>1. b \in Bytes /\ req[c].z \in BOOLEAN
      BY <1>0, <1>1, <2>2 DEF TypeOK, Request
    <3>2. Decode(req[c].z, b) \in Result
      BY <3>1, DecodeType
    <3>3. Decode(req[c].z, b) = Error \/ Decode(req[c].z, b).status = "ok"
      BY DEF Decode, Returned
    <3> QED
      BY <2>2, <3>2, <3>3
  <2> QED
    BY <2>1, <2>2
<1>4. result'[c] = res
  BY <1>0, <1>2 DEF Finish, TypeOK
<1> HIDE DEF res
<1>5. CASE res = Error
  BY <1>0, <1>1, <1>2, <1>5, SameStore, Failed DEF Reading
<1>6. CASE res.status = "ok"
  <2>1. /\ b # None /\ res.data # None /\ ~res.data.gz
        /\ res.data.val = b.val
    BY <1>0, <1>4, <1>6, S3GetFetches
  <2>2. b.val \in seen[c]
    BY <1>0, <1>1, <2>1 DEF Collected
  <2> QED
    BY <1>1, <1>2, <1>3, <1>6, <2>1, <2>2, ReadReturned
<1> QED
  BY <1>3, <1>5, <1>6

\* Each call of a write or a delete is a step of the contract.
LEMMA ProceedContract ==
  ASSUME ContractInv, NEW c \in Clients, Proceed(c)
  PROVE  Contract!Step
<1>0. TypeOK
  BY DEF ContractInv, UploadInv, PointerInv
<1>1. CASE GetItem(c) \/ S3Get(c)
  BY <1>1, GetItemContract, S3GetContract
<1>2. CASE S3Put(c)
  <2>1. /\ pc[c] = "s3Put" /\ Effect(pc[c], req[c]) /\ now' = now
        /\ pc' = [pc EXCEPT ![c] = "put"] /\ UNCHANGED <<req, result>>
    BY <1>2 DEF S3Put, Effect, GoTo, Environment
  <2>2. req[c].op # "read"
    BY <1>0, <2>1, ClientCall
  <2>3. /\ Contract!Lags(CallMap[c])
        /\ Contract!Effect(CallMap[c]) \/ StoreMap' = StoreMap
    BY <2>1, EffectSeen
  <2> QED
    BY <1>0, <2>1, <2>2, <2>3, TookEffect
<1>3. CASE PutItem(c) \/ DeleteItem(c)
  <2>1. /\ pc[c] \in {"put", "deleteItem"} /\ Effect(pc[c], req[c]) /\ now' = now
        /\ UNCHANGED req
        /\ Finish(c, Ok) \/ GoTo(c, "s3Reclaim") \/ GoTo(c, "s3Delete")
    BY <1>3 DEF PutItem, DeleteItem, Effect, Environment
  <2>2. Contract!Effect(CallMap[c]) /\ Contract!Lags(CallMap[c]) /\ req[c].op # "read"
    BY <1>0, <2>1, EffectSeen, ClientCall
  <2>3. CASE Finish(c, Ok)
    BY <1>0, <2>1, <2>2, <2>3, Acknowledged
  <2>4. CASE GoTo(c, "s3Reclaim") \/ GoTo(c, "s3Delete")
    BY <1>0, <2>1, <2>2, <2>4, TookEffect DEF GoTo
  <2> QED
    BY <2>1, <2>3, <2>4
<1>4. CASE S3Reclaim(c) \/ (S3Delete(c) /\ c \in Buckets)
  <2>1. /\ pc[c] \in {"s3Reclaim", "s3Delete"} /\ Effect(pc[c], req[c]) /\ now' = now
        /\ UNCHANGED req /\ Finish(c, Ok)
    BY <1>4 DEF S3Reclaim, S3Delete, Effect, Environment
  <2>2. StoreMap' = StoreMap /\ Contract!Lags(CallMap[c]) /\ req[c].op # "read"
    BY <1>0, <2>1, EffectSeen, ClientCall
  <2> QED
    BY <1>0, <2>1, <2>2, Acknowledged
<1>5. CASE S3Delete(c) /\ c \notin Buckets
  <2>1. pc[c] # "idle" /\ UNCHANGED <<req, table, now>> /\ Finish(c, Error)
    BY <1>5 DEF S3Delete, Environment
  <2> QED
    BY <1>0, <2>1, SameStore, Failed
<1> QED
  BY <1>1, <1>2, <1>3, <1>4, <1>5 DEF Proceed

\* A fault fails the operation for the contract, or gives it its effect once
\* more; a failed clean-up is acknowledged, what it cleans up after being done.
LEMMA DisturbContract ==
  ASSUME ContractInv, Coordinated, NEW c \in Clients, Disturb(c)
  PROVE  Contract!Step
<1>0. TypeOK
  BY DEF ContractInv, UploadInv, PointerInv
<1>1. CASE CallFails(c)
  <2>1. /\ pc[c] # "idle" /\ UNCHANGED <<req, table, now>>
        /\ Finish(c, IF pc[c] = "s3Reclaim" THEN Ok ELSE Error)
    BY <1>1 DEF CallFails
  <2>2. UNCHANGED <<StoreMap, OldMap>>
    BY <2>1, SameStore
  <2>3. CASE pc[c] = "s3Reclaim"
    <3>1. CallMap[c].key \in Keys /\ req[c].op # "read"
      BY <1>0, <2>3, ClientCall DEF CallMap, CallView
    <3>2. Contract!Lags(CallMap[c])
      BY <2>2, <3>1, SameLags
    <3> QED
      BY <1>0, <2>1, <2>2, <2>3, <3>1, <3>2, Acknowledged
  <2>4. CASE pc[c] # "s3Reclaim"
    BY <1>0, <2>1, <2>2, <2>4, Failed
  <2> QED
    BY <2>3, <2>4
<1>2. CASE Crash(c)
  <2>1. pc[c] # "idle" /\ UNCHANGED <<req, table, now>> /\ Finish(c, Gone)
    BY <1>2 DEF Crash
  <2> QED
    BY <1>0, <2>1, SameStore, Failed
<1>3. CASE ReplyLost(c)
  <2>1. /\ pc[c] # "idle" /\ Effect(pc[c], req[c]) /\ now' = now
        /\ UNCHANGED <<pc, req, result>>
    BY <1>3 DEF ReplyLost, Sent
  <2>2. /\ Contract!Lags(CallMap[c])
        /\ Contract!Effect(CallMap[c]) \/ StoreMap' = StoreMap
        /\ req[c].op # "read" /\ pc' = [pc EXCEPT ![c] = pc[c]]
    BY <1>0, <2>1, EffectSeen, ClientCall DEF TypeOK
  <2> QED
    BY <1>0, <2>1, <2>2, TookEffect
<1>4. ~ Abandon(c)
  BY DEF Abandon, Fault, Coordinated
<1> QED
  BY <1>1, <1>2, <1>3, <1>4 DEF Disturb

\* What the clock does to a version: nothing, or it lapses.
LEMMA Ages ==
  ASSUME TypeOK, Tick, NEW k \in Keys, NEW i \in Item \cup {None}
  PROVE  StoreView(k, i)' \in {StoreView(k, i), Contract!Lapsed(StoreView(k, i))}
<1>1. now \in Nat /\ now' = now + 1 /\ object' = object
  BY DEF Tick, table, TypeOK
<1>2. CASE i = None
  BY <1>2 DEF StoreView
<1>3. CASE i \in Item
  <2> DEFINE v == ValueOf(k, i)
             b == HasPassed(i.exp)
             d == HasPassed(i.exp)'
             s == StoreView(k, i)
  <2>1. s = [val |-> v, lapsed |-> b] /\ s # None /\ i # None
    BY <1>3, StoreViewType
  <2>2. StoreView(k, i)' = [val |-> v, lapsed |-> d]
    BY <1>1, <2>1 DEF StoreView, ValueOf
  <2>3. b \in BOOLEAN /\ d \in BOOLEAN /\ (b => d)
    <3>1. i.exp \in Nat \cup {None}
      BY <1>3 DEF Item, Stamp
    <3> QED
      BY <1>1, <3>1 DEF HasPassed
  <2> HIDE DEF v, b, d, s
  <2>4. CASE d
    <3>1. StoreView(k, i)' = [val |-> v, lapsed |-> TRUE]
      BY <2>2, <2>4, d = TRUE
    <3>2. Contract!Lapsed(s) = [s EXCEPT !.lapsed = TRUE]
      BY <2>1 DEF Contract!Lapsed
    <3>3. [s EXCEPT !.lapsed = TRUE] = [val |-> v, lapsed |-> TRUE]
      BY <2>1, LapsedRecord
    <3> QED
      BY <3>1, <3>2, <3>3 DEF s
  <2>5. CASE ~d
    <3>1. b = d
      BY <2>3, <2>5
    <3> QED
      BY <2>1, <2>2, <3>1 DEF s
  <2> QED
    BY <2>4, <2>5
<1> QED
  BY <1>2, <1>3

\* The clock lets values lapse, the older versions on the replicas included.
LEMMA ClockContract ==
  ASSUME ContractInv, Tick
  PROVE  Contract!Step
<1>0. TypeOK
  BY DEF ContractInv, UploadInv, PointerInv
<1>1. CallMap' = CallMap /\ AnswerMap' = AnswerMap
  BY DEF Tick, CallMap, AnswerMap, CallView, AnswerView
<1>2. UNCHANGED table
  BY DEF Tick
<1> DEFINE K == {k \in Keys : StoreMap'[k] # StoreMap[k]}
<1>3. ASSUME NEW k \in Keys
      PROVE  /\ StoreMap'[k] = IF k \in K THEN Contract!Lapsed(StoreMap[k]) ELSE StoreMap[k]
             /\ OldMap'[k] \subseteq OldMap[k] \cup {Contract!Lapsed(s) : s \in OldMap[k]}
  <2>1. item[k] \in Item \cup {None} /\ past[k] \subseteq Item \cup {None}
    BY <1>0 DEF TypeOK
  <2>2. StoreMap'[k] \in {StoreMap[k], Contract!Lapsed(StoreMap[k])}
    <3>1. StoreMap[k] = StoreView(k, item[k]) /\ StoreMap'[k] = StoreView(k, item[k])'
      BY DEF StoreMap
    <3>2. item'[k] = item[k]
      BY <1>2 DEF table
    <3>3. StoreView(k, item[k])' \in {StoreView(k, item[k]), Contract!Lapsed(StoreView(k, item[k]))}
      <4> PICK i \in Item \cup {None} : i = item[k] /\ i = item'[k]
        BY <2>1, <3>2
      <4>1. StoreView(k, i)' \in {StoreView(k, i), Contract!Lapsed(StoreView(k, i))}
        BY <1>0, Ages
      <4>2. StoreView(k, item[k])' = StoreView(k, i)'
        BY DEF StoreView, ValueOf, HasPassed
      <4> QED
        BY <4>1, <4>2
    <3> QED
      BY <3>1, <3>3
  <2>3. OldMap'[k] \subseteq OldMap[k] \cup {Contract!Lapsed(s) : s \in OldMap[k]}
    <3>1. OldMap[k] = {StoreView(k, i) : i \in past[k]}
      BY DEF OldMap
    <3>2. OldMap'[k] = {StoreView(k, i)' : i \in past[k]}
      BY <1>2 DEF OldMap, table
    <3>3. \A i \in past[k] :
            StoreView(k, i)' \in {StoreView(k, i), Contract!Lapsed(StoreView(k, i))}
      BY <1>0, <2>1, Ages
    <3> QED
      BY <3>1, <3>2, <3>3
  <2> QED
    BY <2>2, <2>3
<1>4. K \in SUBSET Keys
  OBVIOUS
<1>5. /\ StoreMap' = [k \in Keys |-> StoreMap'[k]]
      /\ OldMap' = [k \in Keys |-> OldMap'[k]]
  BY DEF StoreMap, OldMap
<1> HIDE DEF K
<1>6. StoreMap' = [k \in Keys |->
                     IF k \in K THEN Contract!Lapsed(StoreMap[k]) ELSE StoreMap[k]]
  BY <1>3, <1>5
<1>7. Contract!Lapse
  BY <1>1, <1>3, <1>4, <1>5, <1>6
  DEF Contract!Lapse, CallMap, AnswerMap, StoreMap, OldMap
<1> QED
  BY <1>7 DEF Contract!Step

\* The reaper makes a lapsed value vanish, and leaves its version to the replicas
\* that have not heard of it.
LEMMA ReapContract ==
  ASSUME ContractInv, NEW k \in Keys, Reap(k)
  PROVE  Contract!Step
<1>0. TypeOK
  BY DEF ContractInv, UploadInv, PointerInv
<1>1. CallMap' = CallMap /\ AnswerMap' = AnswerMap
  BY DEF Reap, CallMap, AnswerMap, CallView, AnswerView
<1>2. /\ item[k] \in Item /\ HasPassed(item[k].exp)
      /\ AtKey(k) /\ item'[k] = None /\ object' = object
      /\ past'[k] \subseteq past[k] \cup {item[k]}
  BY <1>0 DEF Reap, Replace, AtKey, TypeOK
<1>3. /\ StoreMap' = [StoreMap EXCEPT ![k] = None]
      /\ OldMap' = [OldMap EXCEPT ![k] = OldMap'[k]]
  BY <1>2, KeyMoves DEF StoreView
<1>4. StoreMap[k] # None /\ StoreMap[k].lapsed
  BY <1>0, <1>2, StoreViewType DEF StoreMap
<1>5. OldMap'[k] \subseteq OldMap[k] \cup {StoreMap[k]}
  <2>1. \A i : StoreView(k, i)' = StoreView(k, i)
    BY <1>2, SameView DEF AtKey
  <2> QED
    BY <1>2, <2>1 DEF OldMap, StoreMap
<1>6. Contract!Behind(k, OldMap[k] \cup {StoreMap[k]})
  BY <1>3, <1>5 DEF Contract!Behind, OldMap
<1>7. Contract!Vanish(k)
  BY <1>1, <1>3, <1>4, <1>6 DEF Contract!Vanish, CallMap, AnswerMap, StoreMap, OldMap
<1> QED
  BY <1>7 DEF Contract!Step

\* Replicas that catch up serve no older version.
LEMMA CatchUpContract ==
  ASSUME ContractInv, NEW k \in Keys, CatchUp(k)
  PROVE  Contract!Step
<1>0. TypeOK
  BY DEF ContractInv, UploadInv, PointerInv
<1>1. UNCHANGED <<CallMap, AnswerMap>>
  BY DEF CatchUp, CallMap, AnswerMap, CallView, AnswerView
<1>2. AtKey(k) /\ UNCHANGED <<item, object, now>> /\ past'[k] = {}
  BY <1>0 DEF CatchUp, AtKey, TypeOK
<1>3. StoreMap' = StoreMap
  BY <1>2, SameView DEF StoreMap
<1>4. OldMap'[k] = {} /\ OldMap' = [OldMap EXCEPT ![k] = OldMap'[k]]
  BY <1>2, KeyMoves DEF OldMap
<1>5. Contract!Behind(k, {})
  BY <1>4 DEF Contract!Behind, OldMap
<1>6. Contract!CatchUp(k)
  BY <1>1, <1>3, <1>5 DEF Contract!CatchUp, CallMap, AnswerMap, StoreMap, OldMap
<1> QED
  BY <1>6 DEF Contract!Step

\* Every step is a step of the contract, and its reads are watched alike.
LEMMA StepImplements ==
  ASSUME ContractInv, ContractInv', HNext, Coordinated
  PROVE  Contract!KVNext
<1>1. Contract!Step
  <2>1. late = {}
    BY DEF ContractInv, UploadInv, PointerInv
  <2> QED
    BY <2>1, BeginContract, ProceedContract, DisturbContract, ClockContract, ReapContract,
       CatchUpContract
    DEF HNext, Next
<1>2. Contract!Watch
  BY WatchKept DEF HNext
<1> QED
  BY <1>1, <1>2 DEF Contract!KVNext

\* An empty table and idle clients are the contract's initial state.
LEMMA InitImplements == HInit => Contract!KVInit
<1> SUFFICES ASSUME HInit PROVE Contract!KVInit
  OBVIOUS
<1>1. StoreMap = [k \in Keys |-> None]
  BY DEF HInit, Init, StoreMap, StoreView
<1>2. OldMap = [k \in Keys |-> {}]
  BY DEF HInit, Init, OldMap
<1>3. CallMap = [c \in Clients |-> None]
  BY DEF HInit, Init, CallMap, CallView
<1>4. AnswerMap = [c \in Clients |-> Contract!Answer("none", None)]
  BY DEF HInit, Init, AnswerMap, AnswerView, NoResult, Contract!Answer
<1> QED
  BY <1>1, <1>2, <1>3, <1>4 DEF HInit, Contract!KVInit, StoreMap, OldMap, CallMap, AnswerMap

\* A step that changes nothing here changes nothing the contract sees.
LEMMA StutterImplements ==
  ASSUME UNCHANGED hvars
  PROVE  UNCHANGED <<StoreMap, OldMap, CallMap, seen, AnswerMap>>
<1>1. UNCHANGED <<table, now, pc, req, result, seen>>
  BY DEF hvars, vars, table
<1> QED
  BY <1>1, SameStore DEF CallMap, AnswerMap, CallView, AnswerView

\* Callers that mutate a key one at a time and leave no call on its way get,
\* in a deployment whose objects are encoded alike, a store that keeps at most
\* one value per key: what they are told is done is done, what they are told
\* failed never happens later, and a read returns a value that the store or a
\* replica that lags held while it ran, or one that was being written.  Write,
\* read and delete are two or three calls to two services that can each fail,
\* crash or be sent again, reads are served by any replica, and the refinement
\* mapping hides all of it.
THEOREM ContractImplemented ==
  ASSUME UniformOffload, Locking # "none", "late" \notin Faults
  PROVE  HSpec => ImplementsContract
<1>0. Coordinated
  BY DEF Coordinated
<1>1. HInit => ContractInv /\ Contract!KVInit
  BY InitContract, InitImplements
<1>2. ContractInv /\ [HNext]_hvars => ContractInv'
  BY <1>0, StepContract
<1>3. ContractInv /\ ContractInv' /\ [HNext]_hvars
        => [Contract!KVNext]_<<[k \in Keys |-> StoreView(k, item[k])],
                               [k \in Keys |-> {StoreView(k, i) : i \in past[k]}],
                               [c \in Clients |-> CallView(c)],
                               seen, [c \in Clients |-> AnswerView(c)]>>
  BY <1>0, StepImplements, StutterImplements DEF StoreMap, OldMap, CallMap, AnswerMap
<1> QED
  BY <1>1, <1>2, <1>3, PTL DEF HSpec, ImplementsContract, Contract!KVSpec
=============================================================================
