------------------------- MODULE DynamoDBStorage -------------------------
(***************************************************************************)
(* The point operations of a DynamoDBStorage instance (write, read,        *)
(* delete) over one DynamoDB table and one S3 bucket.                      *)
(*                                                                         *)
(* A value above the offload threshold lives in an S3 object, and the      *)
(* table keeps a pointer item; a smaller value lives in the item itself.   *)
(* The two services are updated by separate awaited calls with no          *)
(* transaction across them, so an operation is a little program: pc[c] is  *)
(* the AWS call the client c is waiting for, req[c] the locals it carries  *)
(* across the awaits.  Between two calls of one operation every other      *)
(* client, the TTL reaper and the clock may take steps.                    *)
(*                                                                         *)
(* A "client" is one running operation slot of one instance: two promises  *)
(* of one process, or two processes, are two clients.  A key is the full   *)
(* key (prefix included), after normalisation; see the README.             *)
(***************************************************************************)
EXTENDS Naturals, FiniteSets

CONSTANTS
  Clients,     \* operation slots that share the table and the bucket
  Keys,        \* full storage keys
  Values,      \* the byte strings callers store
  None,        \* absence: no item, no object, no bytes, no expiry stamp
  RawBig,      \* values above OFFLOAD_THRESHOLD_BYTES as they are
  Shrinks,     \* values whose gzip form is shorter
  GzBig,       \* values whose gzip form is above the threshold too
  Compressing, \* clients constructed with compression: 'gzip'
  Buckets,     \* clients constructed with an s3Bucket
  DefaultTtl,  \* config.ttlSeconds of each client, or None
  Ttls,        \* what callers pass as a per-write ttlSeconds, None included
  Locking,     \* how callers serialise operations on one key: see MayStart
  Faults,      \* the kinds of trouble that may happen: see FaultKinds
  MaxOps,      \* bound: operations started in a behaviour
  MaxFaults,   \* bound: faults in a behaviour
  MaxNow       \* bound: seconds the clock advances

\* Calls that fail, processes that stop, replies that are lost, calls that
\* arrive after their operation ended; and reads of the table served by a
\* replica that lags, GetItem being sent without ConsistentRead.
FaultKinds == {"fail", "crash", "lost", "late", "stale"}

ASSUME NoneAssumption ==
  /\ None \notin Values \cup Nat
  /\ None \notin [val : Values, gz : BOOLEAN]
  /\ None \notin [ptr : BOOLEAN, data : [val : Values, gz : BOOLEAN] \cup {None},
                  z : BOOLEAN, exp : Nat \cup {None}]
ASSUME SizeAssumption ==
  /\ RawBig \subseteq Values
  /\ Shrinks \subseteq Values
  /\ GzBig \subseteq RawBig \cap Shrinks
ASSUME ConfigAssumption ==
  /\ Compressing \subseteq Clients
  /\ Buckets \subseteq Clients
  /\ DefaultTtl \in [Clients -> Nat \cup {None}]
  /\ Ttls \subseteq Nat \cup {None}
ASSUME EnvironmentAssumption ==
  /\ Locking \in {"none", "writers", "all"}
  /\ Faults \subseteq FaultKinds
  /\ MaxOps \in Nat /\ MaxFaults \in Nat /\ MaxNow \in Nat

VARIABLES
  item,     \* the DynamoDB table: item[k] is None or the item stored at k
  past,     \* older versions of item[k] that a lagging replica still serves
  object,   \* the S3 bucket: object[k] is None or the bytes stored at k
  now,      \* epoch seconds
  pc,       \* the AWS call each client is waiting for
  req,      \* the operation each client runs, or ran last
  result,   \* what that operation returned
  late,     \* calls abandoned by their client that may still reach a service
  started,  \* operations started so far
  faults    \* faults so far

table == <<item, past, object>>
vars == <<item, past, object, now, pc, req, result, late, started, faults>>

\* The AWS calls each operation is made of.
CallsOf(op) ==
  CASE op = "write"  -> {"s3Put", "put", "s3Reclaim"}
    [] op = "read"   -> {"get", "s3Get"}
    [] op = "delete" -> {"deleteItem", "s3Delete"}

Calls == CallsOf("write") \cup CallsOf("read") \cup CallsOf("delete")

-----------------------------------------------------------------------------
(* Bytes, items and requests.                                              *)

\* What the services hold: a value, as it is or gzipped.
Bytes == [val : Values, gz : BOOLEAN]
Stamp == Nat \cup {None}

\* An inline item carries its bytes, a pointer item only the s3 flag.
Item == {i \in [ptr : BOOLEAN, data : Bytes \cup {None}, z : BOOLEAN, exp : Stamp] :
           i.ptr <=> i.data = None}

Request ==
  [op : {"write"}, key : Keys, data : Bytes, z : BOOLEAN, exp : Stamp]
    \cup [op : {"read", "delete"}, key : Keys, data : {None}, z : BOOLEAN,
          exp : {None}]

Result == [status : {"none", "ok", "error", "gone"}, data : Bytes \cup {None}]

NoResult == [status |-> "none", data |-> None]
Ok       == [status |-> "ok", data |-> None]
Error    == [status |-> "error", data |-> None]
Gone     == [status |-> "gone", data |-> None]
Returned(d) == [status |-> "ok", data |-> d]

\* gzip the payload, and keep the gzip form only when it is shorter.
Encode(c, v) == [val |-> v, gz |-> c \in Compressing /\ v \in Shrinks]

\* The bytes are above the offload threshold.
Oversized(b) == b.val \in (IF b.gz THEN GzBig ELSE RawBig)

TtlEnabled(c) == DefaultTtl[c] # None

\* The expiry a write stamps, computed before any AWS call of the write.
StampOf(c, ttl) ==
  LET seconds == IF ttl # None THEN ttl ELSE DefaultTtl[c]
  IN  IF TtlEnabled(c) THEN now + seconds ELSE None

HasPassed(exp) == exp # None /\ exp <= now

IsPointer(i) == i # None /\ i.ptr

\* An instance with TTL hides an item that has lapsed but is not yet reaped.
Visible(c, i) == i # None /\ ~(TtlEnabled(c) /\ HasPassed(i.exp))

\* MUTANT: the pointer item is put without its s3 flag.
ItemOfUnflagged(r) ==
  [ptr  |-> FALSE,
   data |-> IF Oversized(r.data) THEN None ELSE r.data,
   z    |-> r.z,
   exp  |-> r.exp]

\* The item a write puts for the request r.
ItemOf(r) ==
  [ptr  |-> Oversized(r.data),
   data |-> IF Oversized(r.data) THEN None ELSE r.data,
   z    |-> r.z,
   exp  |-> r.exp]

\* What read returns for bytes b of an item whose compressed flag is z:
\* gunzip of bytes that are not gzip throws, and with the flag unset the
\* bytes come back as they are, gzipped or not.
Decode(z, b) ==
  IF ~z THEN Returned(b)
  ELSE IF b.gz THEN Returned([b EXCEPT !.gz = FALSE])
  ELSE Error

-----------------------------------------------------------------------------
(* What a call does to the services, whoever sent it and whenever it       *)
(* arrives.                                                                *)

PutObject(r) ==
  /\ object' = [object EXCEPT ![r.key] = r.data]
  /\ UNCHANGED <<item, past>>

\* The table's leader takes the new version; replicas may serve the old one.
Replace(k, new) ==
  /\ item' = [item EXCEPT ![k] = new]
  /\ past' = IF "stale" \in Faults
             THEN [past EXCEPT ![k] = @ \cup {item[k]}]
             ELSE past
  /\ UNCHANGED object

PutItemInTable(r) == Replace(r.key, ItemOf(r))

DeleteItemInTable(r) == Replace(r.key, None)

DeleteObject(r) ==
  /\ object' = [object EXCEPT ![r.key] = None]
  /\ UNCHANGED <<item, past>>

\* What a read of the table may be given.  (The old version that ALL_OLD
\* returns with a write is always item[k].)
Versions(k) == {item[k]} \cup past[k]

Effect(call, r) ==
  \/ call = "s3Put" /\ PutObject(r)
  \/ call = "put" /\ PutItemInTable(r)
  \/ call = "deleteItem" /\ DeleteItemInTable(r)
  \/ call \in {"s3Reclaim", "s3Delete"} /\ DeleteObject(r)

-----------------------------------------------------------------------------
(* Starting operations.                                                    *)

Active(c, k) == pc[c] # "idle" /\ req[c].key = k
Mutating(c, k) == Active(c, k) /\ req[c].op # "read"

\* The package takes no lock.  What its callers do is a parameter: nothing;
\* one mutation of a key at a time; or one operation of a key at a time.
MayStart(op, k) ==
  /\ started < MaxOps
  /\ Locking = "all" => \A d \in Clients : ~Active(d, k)
  /\ Locking = "writers" /\ op # "read" => \A d \in Clients : ~Mutating(d, k)

Begin(c, r, first) ==
  /\ pc[c] = "idle"
  /\ MayStart(r.op, r.key)
  /\ req' = [req EXCEPT ![c] = r]
  /\ pc' = [pc EXCEPT ![c] = first]
  /\ started' = started + 1
  /\ UNCHANGED <<table, now, late, faults>>

\* MUTANT: the flag records the setting, not the choice made for the item.
WriteRequestBySetting(c, k, v, ttl) ==
  [op |-> "write", key |-> k, data |-> Encode(c, v),
   z |-> c \in Compressing, exp |-> StampOf(c, ttl)]

WriteRequest(c, k, v, ttl) ==
  [op |-> "write", key |-> k, data |-> Encode(c, v),
   z |-> Encode(c, v).gz, exp |-> StampOf(c, ttl)]

\* Everything write does before its first AWS call.
BeginWrite(c, k, v, ttl) ==
  LET big == Oversized(Encode(c, v))
  IN  /\ big => c \in Buckets
      /\ Begin(c, WriteRequest(c, k, v, ttl), IF big THEN "s3Put" ELSE "put")
      /\ result' = [result EXCEPT ![c] = NoResult]

\* An oversized value with no bucket configured is refused before any call.
RefuseWrite(c, k, v, ttl) ==
  /\ Oversized(Encode(c, v)) /\ c \notin Buckets
  /\ Begin(c, WriteRequest(c, k, v, ttl), "idle")
  /\ result' = [result EXCEPT ![c] = Error]

Plain(op, k) == [op |-> op, key |-> k, data |-> None, z |-> FALSE, exp |-> None]

BeginRead(c, k) ==
  /\ Begin(c, Plain("read", k), "get")
  /\ result' = [result EXCEPT ![c] = NoResult]

BeginDelete(c, k) ==
  /\ Begin(c, Plain("delete", k), "deleteItem")
  /\ result' = [result EXCEPT ![c] = NoResult]

-----------------------------------------------------------------------------
(* The calls of an operation: the call takes effect and its reply moves    *)
(* the operation on.                                                       *)

GoTo(c, call) ==
  /\ pc' = [pc EXCEPT ![c] = call]
  /\ UNCHANGED result

Finish(c, res) ==
  /\ pc' = [pc EXCEPT ![c] = "idle"]
  /\ result' = [result EXCEPT ![c] = res]

Environment == <<now, late, started, faults>>

\* MUTANT: an upload is taken for the whole write.
S3PutAnswers(c) ==
  /\ pc[c] = "s3Put"
  /\ PutObject(req[c])
  /\ Finish(c, Ok)
  /\ UNCHANGED <<req, Environment>>

S3Put(c) ==
  /\ pc[c] = "s3Put"
  /\ PutObject(req[c])
  /\ GoTo(c, "put")
  /\ UNCHANGED <<req, Environment>>

\* MUTANT: the replaced object is reclaimed even if the new item points to it.
PutItemReclaimsAlways(c) ==
  /\ pc[c] = "put"
  /\ PutItemInTable(req[c])
  /\ IF c \in Buckets /\ IsPointer(item[req[c].key])
     THEN GoTo(c, "s3Reclaim")
     ELSE Finish(c, Ok)
  /\ UNCHANGED <<req, Environment>>

\* MUTANT: an overwrite never asks for the replaced item.
PutItemForgetsOld(c) ==
  /\ pc[c] = "put"
  /\ PutItemInTable(req[c])
  /\ Finish(c, Ok)
  /\ UNCHANGED <<req, Environment>>

\* ReturnValues=ALL_OLD is asked for only by an inline write of an instance
\* that has a bucket; a replaced pointer sends the write on to reclaim.
PutItem(c) ==
  /\ pc[c] = "put"
  /\ PutItemInTable(req[c])
  /\ LET returnOld == c \in Buckets /\ ~Oversized(req[c].data)
     IN  IF returnOld /\ IsPointer(item[req[c].key])
         THEN GoTo(c, "s3Reclaim")
         ELSE Finish(c, Ok)
  /\ UNCHANGED <<req, Environment>>

S3Reclaim(c) ==
  /\ pc[c] = "s3Reclaim"
  /\ DeleteObject(req[c])
  /\ Finish(c, Ok)
  /\ UNCHANGED <<req, Environment>>

\* MUTANT: a read with no item to see looks for an object all the same.
GetVersionTrustsObject(c, i) ==
  \/ /\ i # None /\ ~IsPointer(i)
     /\ Finish(c, Decode(i.z, i.data))
     /\ UNCHANGED req
  \/ /\ i = None \/ IsPointer(i)
     /\ GoTo(c, "s3Get")
     /\ req' = [req EXCEPT ![c].z = i # None /\ i.z]

\* What a read does with version i of the item: nothing to see, bytes in the
\* item, or a pointer to follow.
GetVersion(c, i) ==
  \/ /\ ~Visible(c, i)
     /\ Finish(c, Returned(None))
     /\ UNCHANGED req
  \/ /\ Visible(c, i) /\ ~IsPointer(i)
     /\ Finish(c, Decode(i.z, i.data))
     /\ UNCHANGED req
  \/ /\ Visible(c, i) /\ IsPointer(i)
     /\ GoTo(c, "s3Get")
     /\ req' = [req EXCEPT ![c].z = i.z]

GetItem(c) ==
  /\ pc[c] = "get"
  /\ \E i \in Versions(req[c].key) : GetVersion(c, i)
  /\ UNCHANGED <<table, Environment>>

\* NoSuchKey, or a call without a bucket, throws.
S3Get(c) ==
  /\ pc[c] = "s3Get"
  /\ LET b == object[req[c].key]
     IN  Finish(c, IF c \notin Buckets \/ b = None
                   THEN Error
                   ELSE Decode(req[c].z, b))
  /\ UNCHANGED <<table, req, Environment>>

DeleteItem(c) ==
  /\ pc[c] = "deleteItem"
  /\ DeleteItemInTable(req[c])
  /\ IF IsPointer(item[req[c].key]) THEN GoTo(c, "s3Delete") ELSE Finish(c, Ok)
  /\ UNCHANGED <<req, Environment>>

S3Delete(c) ==
  /\ pc[c] = "s3Delete"
  /\ IF c \in Buckets
     THEN DeleteObject(req[c]) /\ Finish(c, Ok)
     ELSE UNCHANGED table /\ Finish(c, Error)
  /\ UNCHANGED <<req, Environment>>

-----------------------------------------------------------------------------
(* Faults.                                                                 *)

Fault(kind) ==
  /\ kind \in Faults
  /\ faults < MaxFaults
  /\ faults' = faults + 1

\* A call really goes out: an S3 call without a bucket never does.
Sent(c) ==
  /\ pc[c] # "idle"
  /\ pc[c] = "s3Delete" => c \in Buckets

\* The call the client waits for throws, without effect.  The reclamation
\* after an inline write is best effort: its failure is swallowed.
CallFails(c) ==
  /\ Fault("fail")
  /\ pc[c] # "idle"
  /\ Finish(c, IF pc[c] = "s3Reclaim" THEN Ok ELSE Error)
  /\ UNCHANGED <<table, now, req, late, started>>

\* The process stops, or the task that runs the operation is cancelled,
\* before the next call goes out.
Crash(c) ==
  /\ Fault("crash")
  /\ pc[c] # "idle"
  /\ Finish(c, Gone)
  /\ UNCHANGED <<table, now, req, late, started>>

\* The call takes effect but its reply is lost, and the AWS SDK's own retry
\* sends it again: the client still waits for the same call.
ReplyLost(c) ==
  /\ Fault("lost")
  /\ Sent(c)
  /\ Effect(pc[c], req[c])
  /\ UNCHANGED <<now, pc, req, result, late, started>>

\* The operation ends (cancelled, timed out, crashed) while its call is still
\* on its way: asyncio cancels the task, not the thread that runs the call.
Abandon(c) ==
  /\ Fault("late")
  /\ Sent(c)
  /\ pc[c] \notin {"get", "s3Get"}
  /\ late' = late \cup {[call |-> pc[c], req |-> req[c]]}
  /\ Finish(c, Gone)
  /\ UNCHANGED <<table, now, req, started>>

Arrive(m) ==
  /\ m \in late
  /\ Effect(m.call, m.req)
  /\ late' = late \ {m}
  /\ UNCHANGED <<now, pc, req, result, started, faults>>

-----------------------------------------------------------------------------
(* The clock, and DynamoDB's TTL process: it removes a lapsed item some    *)
(* time after its stamp, and knows nothing of S3.                          *)

Tick ==
  /\ now < MaxNow
  /\ now' = now + 1
  /\ UNCHANGED <<table, pc, req, result, late, started, faults>>

Reap(k) ==
  /\ item[k] # None /\ HasPassed(item[k].exp)
  /\ Replace(k, None)
  /\ UNCHANGED <<now, pc, req, result, late, started, faults>>

\* The replicas of k catch up with the leader.
CatchUp(k) ==
  /\ past[k] # {}
  /\ past' = [past EXCEPT ![k] = {}]
  /\ UNCHANGED <<item, object, now, pc, req, result, late, started, faults>>

-----------------------------------------------------------------------------
Init ==
  /\ item = [k \in Keys |-> None]
  /\ past = [k \in Keys |-> {}]
  /\ object = [k \in Keys |-> None]
  /\ now = 0
  /\ pc = [c \in Clients |-> "idle"]
  /\ req \in [Clients -> {Plain("read", k) : k \in Keys}]
  /\ \A c, d \in Clients : req[c] = req[d]
  /\ result = [c \in Clients |-> NoResult]
  /\ late = {}
  /\ started = 0
  /\ faults = 0

BeginOperation(c) ==
  \E k \in Keys :
    \/ \E v \in Values, ttl \in Ttls :
         BeginWrite(c, k, v, ttl) \/ RefuseWrite(c, k, v, ttl)
    \/ BeginRead(c, k)
    \/ BeginDelete(c, k)

Proceed(c) ==
  \/ S3Put(c) \/ PutItem(c) \/ S3Reclaim(c)
  \/ GetItem(c) \/ S3Get(c)
  \/ DeleteItem(c) \/ S3Delete(c)

Disturb(c) == CallFails(c) \/ Crash(c) \/ ReplyLost(c) \/ Abandon(c)

Next ==
  \/ \E c \in Clients : BeginOperation(c) \/ Proceed(c) \/ Disturb(c)
  \/ \E m \in late : Arrive(m)
  \/ Tick
  \/ \E k \in Keys : Reap(k) \/ CatchUp(k)

Spec == Init /\ [][Next]_vars

-----------------------------------------------------------------------------
(* Properties.                                                             *)

\* The values every variable ranges over, and the calls each operation waits
\* for or has left on their way.
TypeOK ==
  /\ item \in [Keys -> Item \cup {None}]
  /\ past \in [Keys -> SUBSET (Item \cup {None})]
  /\ object \in [Keys -> Bytes \cup {None}]
  /\ now \in Nat
  /\ pc \in [Clients -> Calls \cup {"idle"}]
  /\ req \in [Clients -> Request]
  /\ \A c \in Clients : pc[c] \in CallsOf(req[c].op) \cup {"idle"}
  /\ result \in [Clients -> Result]
  /\ \A m \in late : m \in [call : Calls, req : Request] /\ m.call \in CallsOf(m.req.op)
  /\ started \in Nat
  /\ faults \in Nat

Quiet(k) == \A c \in Clients : ~Mutating(c, k)

\* The bytes in an inline item, and every older version a replica may serve,
\* are encoded as the item's own flag says, whoever wrote it, with whatever
\* setting, and whatever else was running or failing.
InlineReadable ==
  \A k \in Keys : \A i \in Versions(k) :
    i # None /\ ~IsPointer(i) => i.data.gz = i.z

\* A pointer item always has an S3 object behind it: write uploads before it
\* puts the pointer, and removes the object only after the pointer is gone.
\* Several operations of several clients share the two records of a key.
PointerBacked ==
  \A k \in Keys : IsPointer(item[k]) => object[k] # None

\* The same, asked only when no write or delete of the key is running: what a
\* value that was written and acknowledged is worth to a later read.
StoredValueReadable ==
  \A k \in Keys : Quiet(k) /\ IsPointer(item[k]) => object[k] # None

\* When no write or delete of a key is running, the compressed flag of its
\* pointer item tells how the S3 object is encoded: "each item records whether
\* it was compressed, so reads are correct regardless of the setting".
FlagMatchesObject ==
  \A k \in Keys :
    Quiet(k) /\ IsPointer(item[k]) /\ object[k] # None => object[k].gz = item[k].z
=============================================================================
