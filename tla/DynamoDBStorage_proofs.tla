---------------------- MODULE DynamoDBStorage_proofs ----------------------
(***************************************************************************)
(* What holds of DynamoDBStorage for every deployment: any sets of         *)
(* clients, keys and values, any sizes, settings and bounds.               *)
(***************************************************************************)
EXTENDS DynamoDBStorage, TLAPS

-----------------------------------------------------------------------------
(* The operators the actions are built from.                               *)

\* gzip and the size rules turn a caller's value into bytes.
LEMMA EncodeType ==
  ASSUME NEW c \in Clients, NEW v \in Values
  PROVE  Encode(c, v) \in Bytes
  BY DEF Encode, Bytes

\* A write stamps its item with seconds since the epoch, or not at all.
LEMMA StampType ==
  ASSUME NEW c \in Clients, NEW ttl \in Ttls, now \in Nat
  PROVE  StampOf(c, ttl) \in Stamp
  BY NoneAssumption, ConfigAssumption DEF StampOf, Stamp, TtlEnabled

\* write starts with a well-formed request.
LEMMA WriteRequestType ==
  ASSUME NEW c \in Clients, NEW k \in Keys, NEW v \in Values, NEW ttl \in Ttls,
         now \in Nat
  PROVE  /\ WriteRequest(c, k, v, ttl) \in Request
         /\ WriteRequest(c, k, v, ttl).op = "write"
         /\ WriteRequest(c, k, v, ttl).key = k
         /\ WriteRequest(c, k, v, ttl).data = Encode(c, v)
  <1>1. Encode(c, v) \in Bytes /\ Encode(c, v).gz \in BOOLEAN
    BY EncodeType DEF Encode
  <1>2. StampOf(c, ttl) \in Stamp
    BY StampType
  <1> QED
    BY <1>1, <1>2 DEF WriteRequest, Request

\* So do read and delete.
LEMMA PlainType ==
  ASSUME NEW op \in {"read", "delete"}, NEW k \in Keys
  PROVE  /\ Plain(op, k) \in Request
         /\ Plain(op, k).op = op
         /\ Plain(op, k).key = k
  BY DEF Plain, Request

\* The item of a write is a pointer or carries the bytes, never both.
LEMMA ItemOfType ==
  ASSUME NEW r \in Request, r.op = "write"
  PROVE  /\ ItemOf(r) \in Item
         /\ IsPointer(ItemOf(r)) => Oversized(r.data)
  <1>1. r.data \in Bytes /\ r.z \in BOOLEAN /\ r.exp \in Stamp
    BY DEF Request
  <1>2. Oversized(r.data) \in BOOLEAN
    BY DEF Oversized
  <1>3. r.data # None
    BY <1>1, NoneAssumption DEF Bytes
  <1> QED
    BY <1>1, <1>2, <1>3 DEF ItemOf, Item, IsPointer

\* Decoding yields bytes or an error.
LEMMA DecodeType ==
  ASSUME NEW z \in BOOLEAN, NEW b \in Bytes
  PROVE  Decode(z, b) \in Result
  BY DEF Decode, Returned, Error, Result, Bytes

\* The results that a step names are results.
LEMMA ResultConstants ==
  {NoResult, Ok, Error, Gone, Returned(None)} \subseteq Result
  BY DEF NoResult, Ok, Error, Gone, Returned, Result

\* The calls of each operation, one by one.
LEMMA CallsOfOperations ==
  /\ CallsOf("write") = {"s3Put", "put", "s3Reclaim"}
  /\ CallsOf("read") = {"get", "s3Get"}
  /\ CallsOf("delete") = {"deleteItem", "s3Delete"}
  BY DEF CallsOf

\* Only a write can be at one of the calls of a write, and so on.
LEMMA CallTellsOperation ==
  ASSUME NEW r \in Request, NEW call \in CallsOf(r.op)
  PROVE  /\ call \in Calls
         /\ call \in {"s3Put", "put", "s3Reclaim"} => r.op = "write"
         /\ call \in {"get", "s3Get"} => r.op = "read"
         /\ call \in {"deleteItem", "s3Delete"} => r.op = "delete"
  <1>1. r.op \in {"write", "read", "delete"}
    BY DEF Request
  <1> QED
    BY <1>1, CallsOfOperations DEF Calls

-----------------------------------------------------------------------------
(* Type correctness.                                                       *)

\* What TypeOK says of the two services.
TableType ==
  /\ item \in [Keys -> Item \cup {None}]
  /\ past \in [Keys -> SUBSET (Item \cup {None})]
  /\ object \in [Keys -> Bytes \cup {None}]

\* A new version of an item keeps the type of the table.
LEMMA ReplaceType ==
  ASSUME TableType, NEW k \in Keys, NEW new \in Item \cup {None}, Replace(k, new)
  PROVE  TableType'
  BY DEF TableType, Replace

\* A call changes the services within their types.
LEMMA EffectType ==
  ASSUME TypeOK, NEW r \in Request, NEW call \in CallsOf(r.op), Effect(call, r)
  PROVE  TableType'
  <1>1. r.key \in Keys
    BY DEF Request
  <1>2. CASE call = "s3Put" /\ PutObject(r)
    <2>1. r.data \in Bytes
      BY <1>2, CallTellsOperation DEF Request
    <2> QED
      BY <1>1, <1>2, <2>1 DEF PutObject, TypeOK, TableType
  <1>3. CASE call = "put" /\ PutItemInTable(r)
    <2>1. ItemOf(r) \in Item
      BY <1>3, CallTellsOperation, ItemOfType
    <2> QED
      BY <1>1, <1>3, <2>1, ReplaceType DEF PutItemInTable, TypeOK, TableType
  <1>4. CASE call = "deleteItem" /\ DeleteItemInTable(r)
    BY <1>1, <1>4, ReplaceType DEF DeleteItemInTable, TypeOK, TableType
  <1>5. CASE call \in {"s3Reclaim", "s3Delete"} /\ DeleteObject(r)
    BY <1>1, <1>5 DEF DeleteObject, TypeOK, TableType
  <1> QED
    BY <1>2, <1>3, <1>4, <1>5 DEF Effect

\* The fields a step of client c may change at c, for steps that change no
\* other client's.
LEMMA ClientStepType ==
  ASSUME TypeOK, NEW c \in Clients, NEW r \in Request, NEW res \in Result,
         NEW p \in CallsOf(r.op) \cup {"idle"},
         pc' = [pc EXCEPT ![c] = p],
         req' = [req EXCEPT ![c] = r],
         result' = [result EXCEPT ![c] = res]
  PROVE  /\ pc' \in [Clients -> Calls \cup {"idle"}]
         /\ req' \in [Clients -> Request]
         /\ \A d \in Clients : pc'[d] \in CallsOf(req'[d].op) \cup {"idle"}
         /\ result' \in [Clients -> Result]
  <1>1. p \in Calls \cup {"idle"}
    BY CallTellsOperation
  <1> QED
    BY <1>1 DEF TypeOK

\* Starting an operation: the request is well formed and the first call is one
\* of the operation's.
LEMMA BeginType ==
  ASSUME TypeOK, NEW c \in Clients, NEW r \in Request,
         NEW first \in CallsOf(r.op) \cup {"idle"}, Begin(c, r, first),
         NEW res \in Result, result' = [result EXCEPT ![c] = res]
  PROVE  TypeOK'
  <1>1. /\ pc' = [pc EXCEPT ![c] = first]
        /\ req' = [req EXCEPT ![c] = r]
        /\ started' = started + 1
        /\ UNCHANGED <<table, now, late, faults>>
    BY DEF Begin
  <1>2. /\ pc' \in [Clients -> Calls \cup {"idle"}]
        /\ req' \in [Clients -> Request]
        /\ \A d \in Clients : pc'[d] \in CallsOf(req'[d].op) \cup {"idle"}
        /\ result' \in [Clients -> Result]
    BY <1>1, ClientStepType
  <1> QED
    BY <1>1, <1>2 DEF TypeOK, table

\* The reply to a call: only the client that waited for it moves on.
LEMMA ReplyType ==
  ASSUME TypeOK, NEW c \in Clients, NEW r \in Request, NEW res \in Result,
         NEW p \in CallsOf(r.op) \cup {"idle"},
         pc' = [pc EXCEPT ![c] = p],
         req' = [req EXCEPT ![c] = r],
         result' = [result EXCEPT ![c] = res],
         TableType',
         UNCHANGED <<now, late, started>>,
         faults' \in Nat
  PROVE  TypeOK'
  <1>1. /\ pc' \in [Clients -> Calls \cup {"idle"}]
        /\ req' \in [Clients -> Request]
        /\ \A d \in Clients : pc'[d] \in CallsOf(req'[d].op) \cup {"idle"}
        /\ result' \in [Clients -> Result]
    BY ClientStepType
  <1> QED
    BY <1>1 DEF TypeOK, TableType

\* The same reply when the client keeps its request.
LEMMA PlainReplyType ==
  ASSUME TypeOK, NEW c \in Clients, UNCHANGED req,
         TableType',
         UNCHANGED <<now, late, started>>, faults' \in Nat,
         \/ \E res \in Result : Finish(c, res)
         \/ \E p \in CallsOf(req[c].op) : GoTo(c, p)
  PROVE  TypeOK'
  <1>1. /\ req[c] \in Request /\ result[c] \in Result
        /\ req' = [req EXCEPT ![c] = req[c]]
        /\ result = [result EXCEPT ![c] = result[c]]
    BY DEF TypeOK
  <1>2. ASSUME NEW res \in Result, Finish(c, res)
        PROVE  TypeOK'
    <2>1. pc' = [pc EXCEPT ![c] = "idle"] /\ result' = [result EXCEPT ![c] = res]
      BY <1>2 DEF Finish
    <2> QED
      BY <1>1, <2>1, ReplyType
  <1>3. ASSUME NEW p \in CallsOf(req[c].op), GoTo(c, p)
        PROVE  TypeOK'
    <2>1. pc' = [pc EXCEPT ![c] = p] /\ result' = [result EXCEPT ![c] = result[c]]
      BY <1>1, <1>3 DEF GoTo
    <2> QED
      BY <1>1, <2>1, ReplyType
  <1> QED
    BY <1>2, <1>3

\* A client at a call runs the operation the call belongs to.
LEMMA ClientCall ==
  ASSUME TypeOK, NEW c \in Clients, pc[c] # "idle"
  PROVE  /\ req[c] \in Request /\ req[c].key \in Keys
         /\ pc[c] \in CallsOf(req[c].op)
         /\ pc[c] \in {"s3Put", "put", "s3Reclaim"} => req[c].op = "write"
         /\ pc[c] \in {"get", "s3Get"} => req[c].op = "read"
         /\ pc[c] \in {"deleteItem", "s3Delete"} => req[c].op = "delete"
  <1>1. req[c] \in Request /\ pc[c] \in CallsOf(req[c].op)
    BY DEF TypeOK
  <1>2. req[c].key \in Keys
    BY <1>1 DEF Request
  <1> QED
    BY <1>1, <1>2, CallTellsOperation

\* Every step keeps the types.
LEMMA StepType ==
  ASSUME TypeOK, [Next]_vars
  PROVE  TypeOK'
  <1>1. ASSUME NEW c \in Clients, NEW k \in Keys, NEW v \in Values, NEW ttl \in Ttls,
               BeginWrite(c, k, v, ttl)
        PROVE  TypeOK'
    <2> DEFINE r == WriteRequest(c, k, v, ttl)
               first == IF Oversized(Encode(c, v)) THEN "s3Put" ELSE "put"
    <2>1. r \in Request /\ r.op = "write"
      BY WriteRequestType DEF TypeOK
    <2>2. first \in CallsOf(r.op)
      BY <2>1, CallsOfOperations
    <2>3. Begin(c, r, first) /\ result' = [result EXCEPT ![c] = NoResult]
      BY <1>1 DEF BeginWrite
    <2> QED
      BY <2>1, <2>2, <2>3, BeginType, ResultConstants
  <1>2. ASSUME NEW c \in Clients, NEW k \in Keys, NEW v \in Values, NEW ttl \in Ttls,
               RefuseWrite(c, k, v, ttl)
        PROVE  TypeOK'
    <2>1. WriteRequest(c, k, v, ttl) \in Request
      BY WriteRequestType DEF TypeOK
    <2> QED
      BY <1>2, <2>1, BeginType, ResultConstants DEF RefuseWrite
  <1>3. ASSUME NEW c \in Clients, NEW k \in Keys, BeginRead(c, k)
        PROVE  TypeOK'
    <2>1. "get" \in CallsOf(Plain("read", k).op)
      BY PlainType, CallsOfOperations
    <2> QED
      BY <1>3, <2>1, PlainType, BeginType, ResultConstants DEF BeginRead
  <1>4. ASSUME NEW c \in Clients, NEW k \in Keys, BeginDelete(c, k)
        PROVE  TypeOK'
    <2>1. "deleteItem" \in CallsOf(Plain("delete", k).op)
      BY PlainType, CallsOfOperations
    <2> QED
      BY <1>4, <2>1, PlainType, BeginType, ResultConstants DEF BeginDelete
  <1>5. ASSUME NEW c \in Clients, S3Put(c)
        PROVE  TypeOK'
    <2>1. pc[c] \in CallsOf(req[c].op) /\ "put" \in CallsOf(req[c].op)
      BY <1>5, ClientCall, CallsOfOperations DEF S3Put
    <2>2. Effect(pc[c], req[c]) /\ req[c] \in Request
      BY <1>5, ClientCall DEF S3Put, Effect
    <2> QED
      BY <1>5, <2>1, <2>2, EffectType, PlainReplyType DEF S3Put, Environment, TypeOK, TableType
  <1>6. ASSUME NEW c \in Clients, PutItem(c)
        PROVE  TypeOK'
    <2>1. pc[c] \in CallsOf(req[c].op) /\ "s3Reclaim" \in CallsOf(req[c].op)
      BY <1>6, ClientCall, CallsOfOperations DEF PutItem
    <2>2. Effect(pc[c], req[c]) /\ req[c] \in Request
      BY <1>6, ClientCall DEF PutItem, Effect
    <2>3. GoTo(c, "s3Reclaim") \/ Finish(c, Ok)
      BY <1>6 DEF PutItem
    <2> QED
      BY <1>6, <2>1, <2>2, <2>3, EffectType, PlainReplyType, ResultConstants
         DEF PutItem, Environment, TypeOK, TableType
  <1>7. ASSUME NEW c \in Clients, S3Reclaim(c)
        PROVE  TypeOK'
    <2>1. Effect(pc[c], req[c]) /\ req[c] \in Request /\ pc[c] \in CallsOf(req[c].op)
      BY <1>7, ClientCall DEF S3Reclaim, Effect
    <2> QED
      BY <1>7, <2>1, EffectType, PlainReplyType, ResultConstants
         DEF S3Reclaim, Environment, TypeOK, TableType
  <1>8. ASSUME NEW c \in Clients, GetItem(c)
        PROVE  TypeOK'
    <2>0. PICK i \in Versions(req[c].key) : GetVersion(c, i)
      BY <1>8 DEF GetItem
    <2>1. /\ req[c] \in Request /\ req[c].op = "read" /\ i \in Item \cup {None}
          /\ "s3Get" \in CallsOf(req[c].op)
      BY <1>8, ClientCall, CallsOfOperations DEF GetItem, Versions, TypeOK
    <2>2. /\ UNCHANGED <<table, now, late, started, faults>>
          /\ TableType' /\ faults' \in Nat
      BY <1>8 DEF GetItem, table, Environment, TypeOK, TableType
    <2>3. CASE ~Visible(c, i)
      BY <2>0, <2>2, <2>3, PlainReplyType, ResultConstants DEF GetVersion
    <2>4. CASE Visible(c, i) /\ ~IsPointer(i)
      <3>1. i.z \in BOOLEAN /\ i.data \in Bytes
        BY <2>1, <2>4 DEF Visible, IsPointer, Item
      <3>2. Decode(i.z, i.data) \in Result
        BY <3>1, DecodeType
      <3> QED
        BY <2>0, <2>2, <2>4, <3>2, PlainReplyType DEF GetVersion
    <2>5. CASE Visible(c, i) /\ IsPointer(i)
      <3>1. i.z \in BOOLEAN
        BY <2>1, <2>5 DEF Visible, Item
      <3>2. /\ pc' = [pc EXCEPT ![c] = "s3Get"]
            /\ req' = [req EXCEPT ![c] = [req[c] EXCEPT !.z = i.z]]
            /\ result' = [result EXCEPT ![c] = result[c]]
        BY <2>0, <2>5 DEF GetVersion, GoTo, TypeOK
      <3>3. [req[c] EXCEPT !.z = i.z] \in Request /\ [req[c] EXCEPT !.z = i.z].op = "read"
        BY <2>1, <3>1 DEF Request
      <3>4. result[c] \in Result
        BY DEF TypeOK
      <3> QED
        BY <2>1, <2>2, <3>2, <3>3, <3>4, ReplyType
    <2> QED
      BY <2>3, <2>4, <2>5
  <1>9. ASSUME NEW c \in Clients, S3Get(c)
        PROVE  TypeOK'
    <2>1. req[c] \in Request /\ req[c].key \in Keys
      BY <1>9, ClientCall DEF S3Get
    <2>2. req[c].z \in BOOLEAN /\ object[req[c].key] \in Bytes \cup {None}
      BY <2>1 DEF TypeOK, Request
    <2>3. \E res \in Result : Finish(c, res)
      BY <1>9, <2>2, DecodeType, ResultConstants DEF S3Get
    <2> QED
      BY <1>9, <2>3, PlainReplyType DEF S3Get, table, Environment, TypeOK, TableType
  <1>10. ASSUME NEW c \in Clients, DeleteItem(c)
         PROVE  TypeOK'
    <2>1. pc[c] \in CallsOf(req[c].op) /\ "s3Delete" \in CallsOf(req[c].op)
      BY <1>10, ClientCall, CallsOfOperations DEF DeleteItem
    <2>2. Effect(pc[c], req[c]) /\ req[c] \in Request
      BY <1>10, ClientCall DEF DeleteItem, Effect
    <2>3. GoTo(c, "s3Delete") \/ Finish(c, Ok)
      BY <1>10 DEF DeleteItem
    <2> QED
      BY <1>10, <2>1, <2>2, <2>3, EffectType, PlainReplyType, ResultConstants
         DEF DeleteItem, Environment, TypeOK, TableType
  <1>11. ASSUME NEW c \in Clients, S3Delete(c)
         PROVE  TypeOK'
    <2>1. req[c] \in Request /\ pc[c] \in CallsOf(req[c].op)
      BY <1>11, ClientCall DEF S3Delete
    <2>2. CASE c \in Buckets
      <3>1. Effect(pc[c], req[c])
        BY <1>11, <2>2 DEF S3Delete, Effect
      <3> QED
        BY <1>11, <2>1, <2>2, <3>1, EffectType, PlainReplyType, ResultConstants
           DEF S3Delete, Environment, TypeOK, TableType
    <2>3. CASE c \notin Buckets
      BY <1>11, <2>3, PlainReplyType, ResultConstants
         DEF S3Delete, table, Environment, TypeOK, TableType
    <2> QED
      BY <2>2, <2>3
  <1>12. ASSUME NEW c \in Clients, CallFails(c)
         PROVE  TypeOK'
    <2>1. \E res \in Result : Finish(c, res)
      BY <1>12, ResultConstants DEF CallFails
    <2>2. faults' \in Nat
      BY <1>12 DEF CallFails, Fault, TypeOK
    <2> QED
      BY <1>12, <2>1, <2>2, PlainReplyType DEF CallFails, table, TypeOK, TableType
  <1>13. ASSUME NEW c \in Clients, Crash(c)
         PROVE  TypeOK'
    <2>1. \E res \in Result : Finish(c, res)
      BY <1>13, ResultConstants DEF Crash
    <2>2. faults' \in Nat
      BY <1>13 DEF Crash, Fault, TypeOK
    <2> QED
      BY <1>13, <2>1, <2>2, PlainReplyType DEF Crash, table, TypeOK, TableType
  <1>14. ASSUME NEW c \in Clients, ReplyLost(c)
         PROVE  TypeOK'
    <2>1. /\ req[c] \in Request /\ pc[c] \in CallsOf(req[c].op)
          /\ Effect(pc[c], req[c])
      BY <1>14, ClientCall DEF ReplyLost, Sent
    <2>2. faults' \in Nat
      BY <1>14 DEF ReplyLost, Fault, TypeOK
    <2> QED
      BY <1>14, <2>1, <2>2, EffectType DEF ReplyLost, TypeOK, TableType
  <1>15. ASSUME NEW c \in Clients, Abandon(c)
         PROVE  TypeOK'
    <2>1. req[c] \in Request /\ pc[c] \in CallsOf(req[c].op) /\ pc[c] \in Calls
      BY <1>15, ClientCall, CallTellsOperation DEF Abandon, Sent
    <2>2. \A m \in late' : m \in [call : Calls, req : Request]
                            /\ m.call \in CallsOf(m.req.op)
      BY <1>15, <2>1 DEF Abandon, TypeOK
    <2>3. /\ pc' \in [Clients -> Calls \cup {"idle"}]
          /\ \A d \in Clients : pc'[d] \in CallsOf(req'[d].op) \cup {"idle"}
          /\ result' \in [Clients -> Result]
      BY <1>15, ResultConstants DEF Abandon, Finish, TypeOK
    <2>4. faults' \in Nat
      BY <1>15 DEF Abandon, Fault, TypeOK
    <2> QED
      BY <1>15, <2>2, <2>3, <2>4 DEF Abandon, table, TypeOK
  <1>16. ASSUME NEW m \in late, Arrive(m)
         PROVE  TypeOK'
    <2>1. m.req \in Request /\ m.call \in CallsOf(m.req.op)
      BY DEF TypeOK
    <2> QED
      BY <1>16, <2>1, EffectType DEF Arrive, TypeOK, TableType
  <1>17. CASE Tick
    BY <1>17 DEF Tick, table, TypeOK
  <1>18. ASSUME NEW k \in Keys, Reap(k)
         PROVE  TypeOK'
    BY <1>18, ReplaceType DEF Reap, TypeOK, TableType
  <1>20. ASSUME NEW k \in Keys, CatchUp(k)
         PROVE  TypeOK'
    BY <1>20 DEF CatchUp, TypeOK
  <1>19. CASE UNCHANGED vars
    BY <1>19 DEF vars, TypeOK
  <1> QED
    BY <1>1, <1>2, <1>3, <1>4, <1>5, <1>6, <1>7, <1>8, <1>9, <1>10, <1>11,
       <1>12, <1>13, <1>14, <1>15, <1>16, <1>17, <1>18, <1>19, <1>20
       DEF Next, BeginOperation, Proceed, Disturb

\* Type correctness of every behaviour of every deployment.
THEOREM TypeCorrect == Spec => []TypeOK
  <1>1. Init => TypeOK
    <2> SUFFICES ASSUME Init PROVE TypeOK
      OBVIOUS
    <2>1. req \in [Clients -> Request]
      BY PlainType DEF Init
    <2> QED
      BY <2>1, ResultConstants DEF Init, TypeOK
  <1>2. TypeOK /\ [Next]_vars => TypeOK'
    BY StepType
  <1> QED
    BY <1>1, <1>2, PTL DEF Spec

-----------------------------------------------------------------------------
(* Pointers are backed by objects, when callers mutate a key one at a time *)
(* and no call arrives after its operation ended.  PointerBacked is not    *)
(* inductive: that an upload is still there when its pointer is put, and   *)
(* that a reclaimed object has lost its pointer, follow from the order of  *)
(* the calls and from the callers' exclusion together.                     *)

\* One mutation of a key at a time.
Exclusive ==
  \A c, d \in Clients, k \in Keys : Mutating(c, k) /\ Mutating(d, k) => c = d

\* A write that is about to put a pointer has its upload in place, and an
\* operation that is about to remove an object has removed the pointer.
Prepared(c) ==
  /\ pc[c] = "put" /\ Oversized(req[c].data) => object[req[c].key] # None
  /\ pc[c] \in {"s3Reclaim", "s3Delete"} => ~IsPointer(item[req[c].key])

PointerInv ==
  /\ TypeOK
  /\ late = {}
  /\ Exclusive
  /\ \A c \in Clients : Prepared(c)
  /\ PointerBacked

\* The call of a client leaves every pointer backed, touches no other key, and
\* leaves every client that has not moved as prepared as it was.
LEMMA EffectBacked ==
  ASSUME PointerInv, NEW c \in Clients, pc[c] # "idle", Effect(pc[c], req[c])
  PROVE  /\ PointerBacked'
         /\ \A d \in Clients : pc'[d] = pc[d] /\ req'[d] = req[d] => Prepared(d)'
  <1> DEFINE k == req[c].key
  <1>1. /\ req[c] \in Request /\ k \in Keys
        /\ pc[c] \in {"s3Put", "put", "s3Reclaim"} => req[c].op = "write"
        /\ pc[c] \in {"deleteItem", "s3Delete"} => req[c].op = "delete"
    BY ClientCall DEF PointerInv
  <1>2. Mutating(c, k)
    BY <1>1 DEF Effect, Mutating, Active
  <1>3. \A j \in Keys \ {k} : item'[j] = item[j] /\ object'[j] = object[j]
    BY <1>1 DEF Effect, PutObject, PutItemInTable, DeleteItemInTable, DeleteObject, Replace,
       PointerInv, TypeOK
  <1> DEFINE AtKey ==
        /\ IsPointer(item'[k]) => object'[k] # None
        /\ pc[c] = "put" /\ Oversized(req[c].data) => object'[k] # None
        /\ pc[c] \in {"s3Reclaim", "s3Delete"} => ~IsPointer(item'[k])
  <1>4. AtKey
    <2>1. CASE pc[c] = "s3Put" /\ PutObject(req[c])
      <3>1. req[c].data # None
        BY <1>1, <2>1, NoneAssumption DEF Request, Bytes
      <3>2. object'[k] = req[c].data
        BY <1>1, <2>1 DEF PutObject, PointerInv, TypeOK
      <3> QED
        BY <2>1, <3>1, <3>2
    <2>2. CASE pc[c] = "put" /\ PutItemInTable(req[c])
      <3>1. IsPointer(ItemOf(req[c])) => Oversized(req[c].data)
        BY <1>1, <2>2, ItemOfType
      <3>2. item'[k] = ItemOf(req[c]) /\ object' = object
        BY <1>1, <2>2 DEF PutItemInTable, Replace, PointerInv, TypeOK
      <3>3. Prepared(c)
        BY DEF PointerInv
      <3> QED
        BY <2>2, <3>1, <3>2, <3>3 DEF Prepared
    <2>3. CASE pc[c] = "deleteItem" /\ DeleteItemInTable(req[c])
      <3>1. item'[k] = None
        BY <1>1, <2>3 DEF DeleteItemInTable, Replace, PointerInv, TypeOK
      <3> QED
        BY <2>3, <3>1 DEF IsPointer
    <2>4. CASE pc[c] \in {"s3Reclaim", "s3Delete"} /\ DeleteObject(req[c])
      <3>1. item' = item /\ ~IsPointer(item[k])
        BY <2>4 DEF DeleteObject, PointerInv, Prepared
      <3> QED
        BY <2>4, <3>1
    <2> QED
      BY <2>1, <2>2, <2>3, <2>4 DEF Effect
  <1>5. PointerBacked'
    <2> SUFFICES ASSUME NEW j \in Keys, IsPointer(item'[j])
                 PROVE  object'[j] # None
      BY DEF PointerBacked, IsPointer
    <2> QED
      BY <1>3, <1>4 DEF PointerInv, PointerBacked
  <1>6. ASSUME NEW d \in Clients, pc'[d] = pc[d], req'[d] = req[d]
        PROVE  Prepared(d)'
    <2>1. CASE d = c
      BY <1>4, <1>6, <2>1 DEF Prepared, IsPointer, Oversized
    <2>2. CASE d # c /\ pc[d] \in {"put", "s3Reclaim", "s3Delete"}
      <3>1. req[d].key \in Keys /\ Mutating(d, req[d].key)
        BY <2>2, ClientCall DEF PointerInv, Mutating, Active
      <3>2. req[d].key # k
        BY <1>1, <1>2, <2>2, <3>1 DEF PointerInv, Exclusive
      <3>3. Prepared(d)
        BY DEF PointerInv
      <3> QED
        BY <1>3, <1>6, <3>1, <3>2, <3>3 DEF Prepared, IsPointer, Oversized
    <2>3. CASE pc[d] \notin {"put", "s3Reclaim", "s3Delete"}
      BY <1>6, <2>3 DEF Prepared
    <2> QED
      BY <2>1, <2>2, <2>3
  <1> QED
    BY <1>5, <1>6

\* No operation begins: the mutators of a key are among those it had.
LEMMA ExclusiveKept ==
  ASSUME Exclusive,
         \A d \in Clients : pc'[d] # "idle" =>
           pc[d] # "idle" /\ req'[d].op = req[d].op /\ req'[d].key = req[d].key
  PROVE  Exclusive'
  BY DEF Exclusive, Mutating, Active

\* Starting an operation respects the exclusion of the callers, and prepares
\* nothing but an inline put.
LEMMA BeginPointer ==
  ASSUME PointerInv, Locking # "none", TypeOK',
         NEW c \in Clients, NEW r \in Request, NEW first, Begin(c, r, first),
         first \notin {"s3Reclaim", "s3Delete"},
         first = "put" => ~Oversized(r.data)
  PROVE  PointerInv'
  <1>1. /\ pc' = [pc EXCEPT ![c] = first] /\ req' = [req EXCEPT ![c] = r]
        /\ UNCHANGED <<item, object, late>> /\ MayStart(r.op, r.key)
    BY DEF Begin, table
  <1>2. r.op # "read" => \A d \in Clients : ~Mutating(d, r.key)
    BY <1>1, EnvironmentAssumption DEF MayStart, Mutating
  <1>3. ASSUME NEW d \in Clients, NEW e \in Clients, NEW k \in Keys,
               Mutating(d, k)', Mutating(e, k)'
        PROVE  d = e
    <2>1. \A f \in Clients \ {c} : Mutating(f, k)' => Mutating(f, k)
      BY <1>1 DEF Mutating, Active, PointerInv, TypeOK
    <2>2. Mutating(c, k)' => r.op # "read" /\ r.key = k
      BY <1>1 DEF Mutating, Active, PointerInv, TypeOK
    <2> QED
      BY <1>2, <1>3, <2>1, <2>2 DEF PointerInv, Exclusive
  <1>4. Exclusive'
    BY <1>3 DEF Exclusive
  <1>5. ASSUME NEW d \in Clients
        PROVE  Prepared(d)'
    <2>1. Prepared(d)
      BY DEF PointerInv
    <2>2. CASE d = c
      BY <1>1, <2>2 DEF Prepared, Oversized, PointerInv, TypeOK
    <2>3. CASE d # c
      BY <1>1, <2>1, <2>3 DEF Prepared, Oversized, IsPointer, PointerInv, TypeOK
    <2> QED
      BY <2>2, <2>3
  <1> QED
    BY <1>1, <1>4, <1>5 DEF PointerInv, PointerBacked, IsPointer

\* The reply to a call, whether the call took effect or did nothing.
LEMMA ReplyPointer ==
  ASSUME PointerInv, TypeOK', UNCHANGED late,
         NEW c \in Clients, pc[c] # "idle", NEW p,
         pc' = [pc EXCEPT ![c] = p],
         UNCHANGED <<item, object>> \/ Effect(pc[c], req[c]),
         \A d \in Clients : req'[d].op = req[d].op /\ req'[d].key = req[d].key,
         \A d \in Clients \ {c} : req'[d] = req[d],
         Prepared(c)'
  PROVE  PointerInv'
  <1>1. Exclusive'
    BY ExclusiveKept DEF PointerInv, TypeOK
  <1>2. \A d \in Clients \ {c} : pc'[d] = pc[d]
    BY DEF PointerInv, TypeOK
  <1>3. PointerBacked' /\ \A d \in Clients \ {c} : Prepared(d)'
    <2>1. CASE UNCHANGED <<item, object>>
      <3>1. PointerBacked'
        BY <2>1 DEF PointerInv, PointerBacked, IsPointer
      <3>2. ASSUME NEW d \in Clients \ {c}
            PROVE  Prepared(d)'
        <4>1. Prepared(d)
          BY DEF PointerInv
        <4> QED
          BY <1>2, <2>1, <4>1 DEF Prepared, IsPointer, Oversized
      <3> QED
        BY <3>1, <3>2
    <2>2. CASE Effect(pc[c], req[c])
      BY <1>2, <2>2, EffectBacked
    <2> QED
      BY <2>1, <2>2
  <1> QED
    BY <1>1, <1>3 DEF PointerInv

\* Every step keeps the pointers backed.
LEMMA StepPointer ==
  ASSUME PointerInv, [Next]_vars, Locking # "none", "late" \notin Faults
  PROVE  PointerInv'
  <1> USE StepType DEF PointerInv
  <1>1. ASSUME NEW c \in Clients, NEW k \in Keys, NEW v \in Values, NEW ttl \in Ttls,
               BeginWrite(c, k, v, ttl)
        PROVE  PointerInv'
    <2>1. WriteRequest(c, k, v, ttl) \in Request
          /\ WriteRequest(c, k, v, ttl).data = Encode(c, v)
      BY WriteRequestType DEF TypeOK
    <2>2. CASE Oversized(Encode(c, v))
      BY <1>1, <2>1, <2>2, BeginPointer DEF BeginWrite
    <2>3. CASE ~Oversized(Encode(c, v))
      BY <1>1, <2>1, <2>3, BeginPointer DEF BeginWrite
    <2> QED
      BY <2>2, <2>3
  <1>2. ASSUME NEW c \in Clients, NEW k \in Keys, NEW v \in Values, NEW ttl \in Ttls,
               RefuseWrite(c, k, v, ttl)
        PROVE  PointerInv'
    <2>1. WriteRequest(c, k, v, ttl) \in Request
      BY WriteRequestType DEF TypeOK
    <2> QED
      BY <1>2, <2>1, BeginPointer DEF RefuseWrite
  <1>3. ASSUME NEW c \in Clients, NEW k \in Keys, BeginRead(c, k) \/ BeginDelete(c, k)
        PROVE  PointerInv'
    BY <1>3, PlainType, BeginPointer DEF BeginRead, BeginDelete
  <1>4. ASSUME NEW c \in Clients, S3Put(c)
        PROVE  PointerInv'
    <2>1. /\ req[c] \in Request /\ req[c].key \in Keys /\ req[c].op = "write"
          /\ Effect(pc[c], req[c])
      BY <1>4, ClientCall DEF S3Put, Effect
    <2>2. object'[req[c].key] # None
      BY <1>4, <2>1, NoneAssumption DEF S3Put, PutObject, Request, Bytes, TypeOK
    <2>3. pc' = [pc EXCEPT ![c] = "put"] /\ pc'[c] = "put" /\ UNCHANGED <<req, late>>
      BY <1>4 DEF S3Put, GoTo, Environment, TypeOK
    <2>4. Prepared(c)'
      BY <2>2, <2>3 DEF Prepared
    <2> QED
      BY <1>4, <2>1, <2>3, <2>4, ReplyPointer DEF S3Put
  <1>5. ASSUME NEW c \in Clients, PutItem(c)
        PROVE  PointerInv'
    <2>1. /\ req[c] \in Request /\ req[c].key \in Keys /\ req[c].op = "write"
          /\ Effect(pc[c], req[c])
      BY <1>5, ClientCall DEF PutItem, Effect
    <2>2. UNCHANGED <<req, late>> /\ item'[req[c].key] = ItemOf(req[c])
      BY <1>5, <2>1 DEF PutItem, PutItemInTable, Replace, Environment, TypeOK
    <2>3. CASE GoTo(c, "s3Reclaim") /\ ~Oversized(req[c].data)
      <3>1. ~IsPointer(item'[req[c].key])
        BY <2>1, <2>2, <2>3, ItemOfType
      <3>2. pc' = [pc EXCEPT ![c] = "s3Reclaim"] /\ pc'[c] = "s3Reclaim"
        BY <2>3 DEF GoTo, TypeOK
      <3>3. Prepared(c)'
        BY <2>2, <3>1, <3>2 DEF Prepared, IsPointer
      <3> QED
        BY <1>5, <2>1, <2>2, <3>2, <3>3, ReplyPointer DEF PutItem
    <2>4. CASE Finish(c, Ok)
      <3>1. pc' = [pc EXCEPT ![c] = "idle"] /\ Prepared(c)'
        BY <2>4 DEF Finish, Prepared, TypeOK
      <3> QED
        BY <1>5, <2>1, <2>2, <3>1, ReplyPointer DEF PutItem
    <2> QED
      BY <1>5, <2>3, <2>4 DEF PutItem
  <1>6. ASSUME NEW c \in Clients, NEW res, pc[c] # "idle", Finish(c, res),
               UNCHANGED <<item, object>> \/ Effect(pc[c], req[c]),
               UNCHANGED <<req, late>>
        PROVE  PointerInv'
    <2>1. pc' = [pc EXCEPT ![c] = "idle"] /\ Prepared(c)'
      BY <1>6 DEF Finish, Prepared, TypeOK
    <2> QED
      BY <1>6, <2>1, ReplyPointer
  <1>7. ASSUME NEW c \in Clients, S3Reclaim(c) \/ S3Get(c) \/ S3Delete(c)
        PROVE  PointerInv'
    <2>1. CASE S3Reclaim(c)
      BY <1>6, <2>1 DEF S3Reclaim, Effect, Environment
    <2>2. CASE S3Get(c)
      BY <1>6, <2>2 DEF S3Get, table, Environment
    <2>3. CASE S3Delete(c)
      BY <1>6, <2>3 DEF S3Delete, Effect, table, Environment
    <2> QED
      BY <1>7, <2>1, <2>2, <2>3
  <1>8. ASSUME NEW c \in Clients, GetItem(c)
        PROVE  PointerInv'
    <2>1. UNCHANGED <<item, object, late>> /\ pc[c] # "idle"
      BY <1>8 DEF GetItem, table, Environment
    <2>2. CASE UNCHANGED req /\ \E res : Finish(c, res)
      BY <1>6, <2>1, <2>2
    <2>3. CASE GoTo(c, "s3Get") /\ \E z : req' = [req EXCEPT ![c].z = z]
      <3>1. pc' = [pc EXCEPT ![c] = "s3Get"] /\ Prepared(c)'
        BY <2>3 DEF GoTo, Prepared, TypeOK
      <3>2. /\ \A d \in Clients : req'[d].op = req[d].op /\ req'[d].key = req[d].key
            /\ \A d \in Clients \ {c} : req'[d] = req[d]
        BY <2>3 DEF TypeOK, Request
      <3> QED
        BY <2>1, <3>1, <3>2, ReplyPointer
    <2> QED
      BY <1>8, <2>2, <2>3 DEF GetItem, GetVersion
  <1>9. ASSUME NEW c \in Clients, DeleteItem(c)
        PROVE  PointerInv'
    <2>1. /\ req[c] \in Request /\ req[c].key \in Keys /\ Effect(pc[c], req[c])
          /\ pc[c] # "idle"
      BY <1>9, ClientCall DEF DeleteItem, Effect
    <2>2. UNCHANGED <<req, late>> /\ item'[req[c].key] = None
      BY <1>9, <2>1 DEF DeleteItem, DeleteItemInTable, Replace, Environment, TypeOK
    <2>3. CASE GoTo(c, "s3Delete")
      <3>1. pc' = [pc EXCEPT ![c] = "s3Delete"] /\ Prepared(c)'
        BY <2>2, <2>3 DEF GoTo, Prepared, IsPointer, TypeOK
      <3> QED
        BY <2>1, <2>2, <3>1, ReplyPointer
    <2>4. CASE Finish(c, Ok)
      BY <1>6, <2>1, <2>2, <2>4
    <2> QED
      BY <1>9, <2>3, <2>4 DEF DeleteItem
  <1>10. ASSUME NEW c \in Clients, CallFails(c) \/ Crash(c)
         PROVE  PointerInv'
    BY <1>6, <1>10 DEF CallFails, Crash, table
  <1>11. ASSUME NEW c \in Clients, ReplyLost(c)
         PROVE  PointerInv'
    <2>1. /\ pc[c] # "idle" /\ Effect(pc[c], req[c]) /\ UNCHANGED <<pc, req, late>>
      BY <1>11 DEF ReplyLost, Sent
    <2>2. Prepared(c)' /\ pc' = [pc EXCEPT ![c] = pc[c]]
      BY <2>1, EffectBacked DEF TypeOK
    <2> QED
      BY <2>1, <2>2, ReplyPointer
  <1>12. ASSUME NEW c \in Clients, Abandon(c)
         PROVE  FALSE
    BY <1>12 DEF Abandon, Fault
  <1>13. CASE Tick \/ UNCHANGED vars \/ \E k \in Keys : CatchUp(k)
    <2>1. UNCHANGED <<item, object, pc, req, late>>
      BY <1>13 DEF Tick, CatchUp, table, vars
    <2>2. Exclusive'
      BY <2>1, ExclusiveKept
    <2> QED
      BY <2>1, <2>2 DEF Prepared, PointerBacked, IsPointer, Oversized
  <1>14. ASSUME NEW k \in Keys, Reap(k)
         PROVE  PointerInv'
    <2>1. /\ UNCHANGED <<object, pc, req, late>>
          /\ \A j \in Keys : IsPointer(item'[j]) => IsPointer(item[j])
      BY <1>14 DEF Reap, Replace, IsPointer, TypeOK
    <2>2. Exclusive' /\ PointerBacked'
      BY <2>1, ExclusiveKept DEF PointerBacked, IsPointer
    <2>3. ASSUME NEW d \in Clients
          PROVE  Prepared(d)'
      <3>1. Prepared(d) /\ req[d].key \in Keys
        BY DEF TypeOK, Request
      <3> QED
        BY <2>1, <3>1 DEF Prepared, IsPointer, Oversized
    <2> QED
      BY <2>1, <2>2, <2>3
  <1> QED
    BY <1>1, <1>2, <1>3, <1>4, <1>5, <1>7, <1>8, <1>9, <1>10, <1>11, <1>12,
       <1>13, <1>14 DEF Next, BeginOperation, Proceed, Disturb

\* A pointer item always has an S3 object behind it, whatever fails, crashes,
\* lapses or is retried, for callers that mutate a key one at a time.
THEOREM PointersStayBacked ==
  ASSUME Locking # "none", "late" \notin Faults
  PROVE  Spec => []PointerBacked
  <1>1. Init => PointerInv
    <2> SUFFICES ASSUME Init PROVE PointerInv
      OBVIOUS
    <2>1. TypeOK
      BY PlainType, ResultConstants DEF Init, TypeOK
    <2> QED
      BY <2>1 DEF Init, PointerInv, Exclusive, Mutating, Active, Prepared,
         PointerBacked, IsPointer
  <1>2. PointerInv /\ [Next]_vars => PointerInv'
    BY StepPointer
  <1>3. PointerInv => PointerBacked
    BY DEF PointerInv
  <1> QED
    BY <1>1, <1>2, <1>3, PTL DEF Spec
-----------------------------------------------------------------------------
(* An inline item's flag tells how its bytes are encoded, whatever runs,   *)
(* fails or arrives late.  InlineReadable is not inductive: PutItem stores *)
(* the flag and the bytes that its request carries, which may be one that  *)
(* was abandoned long ago.                                                 *)

\* The flag of a write is that of its bytes.
Flagged(r) == r.op = "write" => r.data.gz = r.z

FlaggedVersion(i) == i # None /\ ~IsPointer(i) => i.data.gz = i.z

InlineInv ==
  /\ TypeOK
  /\ InlineReadable
  /\ \A c \in Clients : Flagged(req[c])
  /\ \A m \in late : Flagged(m.req)

\* A call leaves no inline item of the table, and no older version that a
\* replica serves, with a flag that is not that of its bytes.
LEMMA EffectInline ==
  ASSUME InlineInv, NEW r \in Request, NEW call \in CallsOf(r.op), Flagged(r),
         Effect(call, r)
  PROVE  InlineReadable'
  <1>1. r.key \in Keys
    BY DEF Request
  <1>2. ASSUME NEW new, FlaggedVersion(new), Replace(r.key, new)
        PROVE  InlineReadable'
    <2>1. \A j \in Keys : \A i \in Versions(j)' : i = new \/ i \in Versions(j)
      BY <1>1, <1>2 DEF Replace, Versions, InlineInv, TypeOK
    <2> QED
      BY <1>2, <2>1 DEF InlineInv, InlineReadable, FlaggedVersion, IsPointer
  <1>3. CASE call = "put" /\ PutItemInTable(r)
    <2>1. ItemOf(r) # None /\ ~IsPointer(ItemOf(r)) => ItemOf(r).data = r.data
      BY DEF ItemOf, IsPointer, Oversized
    <2>2. ItemOf(r).z = r.z /\ r.op = "write"
      BY <1>3, CallTellsOperation DEF ItemOf
    <2>3. FlaggedVersion(ItemOf(r))
      BY <2>1, <2>2 DEF Flagged, FlaggedVersion
    <2> QED
      BY <1>2, <1>3, <2>3 DEF PutItemInTable
  <1>4. CASE call = "deleteItem" /\ DeleteItemInTable(r)
    BY <1>2, <1>4 DEF DeleteItemInTable, FlaggedVersion
  <1>5. CASE PutObject(r) \/ DeleteObject(r)
    BY <1>5 DEF PutObject, DeleteObject, InlineInv, InlineReadable, Versions, IsPointer
  <1> QED
    BY <1>3, <1>4, <1>5 DEF Effect

\* Starting an operation: write flags its request as it encodes the bytes.
LEMMA BeginInline ==
  ASSUME InlineInv, TypeOK', NEW c \in Clients, NEW r \in Request, NEW first,
         Begin(c, r, first), Flagged(r)
  PROVE  InlineInv'
  <1>1. UNCHANGED <<table, late>> /\ req' = [req EXCEPT ![c] = r]
    BY DEF Begin
  <1>2. \A d \in Clients : Flagged(req'[d])
    BY <1>1 DEF InlineInv, TypeOK
  <1>3. InlineReadable'
    BY <1>1 DEF table, InlineInv, InlineReadable, Versions, IsPointer
  <1> QED
    BY <1>1, <1>2, <1>3 DEF InlineInv, Flagged

\* A step that leaves the requests alone and whose call, if it takes effect, is
\* that of a running client.
LEMMA ReplyInline ==
  ASSUME InlineInv, TypeOK', NEW c \in Clients, pc[c] # "idle",
         UNCHANGED table \/ Effect(pc[c], req[c]), UNCHANGED req,
         \A m \in late' : m \in late \/ m.req = req[c]
  PROVE  InlineInv'
  <1>1. InlineReadable'
    <2>1. CASE UNCHANGED table
      BY <2>1 DEF table, InlineInv, InlineReadable, Versions, IsPointer
    <2>2. CASE Effect(pc[c], req[c])
      BY <2>2, ClientCall, EffectInline DEF InlineInv
    <2> QED
      BY <2>1, <2>2
  <1> QED
    BY <1>1 DEF InlineInv, Flagged

\* Every step keeps the flags right.
LEMMA StepInline ==
  ASSUME InlineInv, [Next]_vars
  PROVE  InlineInv'
  <1>0. TypeOK /\ TypeOK'
    BY StepType DEF InlineInv
  <1>1. ASSUME NEW c \in Clients, BeginOperation(c)
        PROVE  InlineInv'
    <2>1. ASSUME NEW k \in Keys, NEW v \in Values, NEW ttl \in Ttls,
                 BeginWrite(c, k, v, ttl) \/ RefuseWrite(c, k, v, ttl)
          PROVE  InlineInv'
      <3>1. WriteRequest(c, k, v, ttl) \in Request /\ Flagged(WriteRequest(c, k, v, ttl))
        BY <1>0, WriteRequestType DEF WriteRequest, Flagged, TypeOK
      <3> QED
        BY <1>0, <2>1, <3>1, BeginInline DEF BeginWrite, RefuseWrite
    <2>2. ASSUME NEW k \in Keys, BeginRead(c, k) \/ BeginDelete(c, k)
          PROVE  InlineInv'
      <3>1. Flagged(Plain("read", k)) /\ Flagged(Plain("delete", k))
        BY DEF Plain, Flagged
      <3> QED
        BY <1>0, <2>2, <3>1, PlainType, BeginInline DEF BeginRead, BeginDelete
    <2> QED
      BY <1>1, <2>1, <2>2 DEF BeginOperation
  <1>2. ASSUME NEW c \in Clients, Proceed(c), ~GetItem(c)
        PROVE  InlineInv'
    <2>1. /\ pc[c] # "idle" /\ UNCHANGED <<req, late>>
          /\ UNCHANGED table \/ Effect(pc[c], req[c])
      BY <1>2 DEF Proceed, S3Put, PutItem, S3Reclaim, S3Get, DeleteItem, S3Delete, Effect,
         Environment, table
    <2> QED
      BY <1>0, <2>1, ReplyInline
  <1>3. ASSUME NEW c \in Clients, GetItem(c)
        PROVE  InlineInv'
    <2>1. req[c].op = "read" /\ UNCHANGED <<table, late>>
      BY <1>0, <1>3, ClientCall DEF GetItem, Environment, table
    <2>2. \A d \in Clients : req'[d] = req[d] \/ req'[d].op = "read"
      BY <1>0, <1>3, <2>1 DEF GetItem, GetVersion, TypeOK, Request
    <2> QED
      BY <1>0, <2>1, <2>2 DEF table, InlineInv, InlineReadable, Versions, IsPointer, Flagged
  <1>4. ASSUME NEW c \in Clients, Disturb(c)
        PROVE  InlineInv'
    <2>1. /\ pc[c] # "idle" /\ UNCHANGED req
          /\ UNCHANGED table \/ Effect(pc[c], req[c])
          /\ \A m \in late' : m \in late \/ m.req = req[c]
      BY <1>4 DEF Disturb, CallFails, Crash, ReplyLost, Abandon, Sent, table
    <2> QED
      BY <1>0, <2>1, ReplyInline
  <1>5. ASSUME NEW m \in late, Arrive(m)
        PROVE  InlineInv'
    <2>1. /\ m.req \in Request /\ m.call \in CallsOf(m.req.op) /\ Flagged(m.req)
          /\ Effect(m.call, m.req) /\ UNCHANGED req /\ late' \subseteq late
      BY <1>5 DEF Arrive, InlineInv, TypeOK
    <2>2. InlineReadable'
      BY <2>1, EffectInline
    <2> QED
      BY <1>0, <2>1, <2>2 DEF InlineInv, Flagged
  <1>6. ASSUME Tick \/ UNCHANGED vars \/ \E k \in Keys : Reap(k) \/ CatchUp(k)
        PROVE  InlineInv'
    <2>1. /\ UNCHANGED <<req, late>>
          /\ \A k \in Keys : Versions(k)' \subseteq Versions(k) \cup {None}
      BY <1>0, <1>6 DEF Tick, vars, table, Reap, Replace, CatchUp, Versions, TypeOK
    <2> QED
      BY <1>0, <2>1 DEF InlineInv, InlineReadable, IsPointer, Flagged
  <1> QED
    BY <1>1, <1>2, <1>3, <1>4, <1>5, <1>6 DEF Next

\* The bytes of an inline item, old versions on lagging replicas included, are
\* encoded as the item's flag says: for instances with any settings, callers
\* that coordinate or do not, and every kind of fault.
THEOREM InlineStaysReadable == Spec => []InlineReadable
  <1>1. Init => InlineInv
    <2> SUFFICES ASSUME Init PROVE InlineInv
      OBVIOUS
    <2>1. TypeOK
      BY PlainType, ResultConstants DEF Init, TypeOK
    <2>2. \A c \in Clients : req[c].op = "read"
      BY PlainType DEF Init
    <2> QED
      BY <2>1, <2>2 DEF Init, InlineInv, InlineReadable, Versions, IsPointer, Flagged
  <1>2. InlineInv /\ [Next]_vars => InlineInv'
    BY StepInline
  <1>3. InlineInv => InlineReadable
    BY DEF InlineInv
  <1> QED
    BY <1>1, <1>2, <1>3, PTL DEF Spec

-----------------------------------------------------------------------------
(* Uploads, under the same exclusion of mutations.                         *)

\* A write uploads what is too big for its item, and what it uploaded is still
\* there, byte for byte, when it puts the pointer.
Uploaded(c) ==
  /\ pc[c] = "s3Put" => Oversized(req[c].data)
  /\ pc[c] = "put" /\ Oversized(req[c].data) => object[req[c].key] = req[c].data

UploadInv ==
  /\ PointerInv /\ InlineInv
  /\ \A c \in Clients : Uploaded(c)

\* A client's call changes no other key, and an object only by an upload or a
\* removal.
LEMMA EffectAtKey ==
  ASSUME TypeOK, NEW c \in Clients, pc[c] # "idle", Effect(pc[c], req[c])
  PROVE  /\ req[c] \in Request /\ req[c].key \in Keys
         /\ Mutating(c, req[c].key)
         /\ \A k \in Keys \ {req[c].key} : item'[k] = item[k] /\ object'[k] = object[k]
         /\ pc[c] = "s3Put" => item' = item /\ object'[req[c].key] = req[c].data
         /\ pc[c] = "put" => object' = object /\ item'[req[c].key] = ItemOf(req[c])
         /\ pc[c] = "deleteItem" => object' = object /\ item'[req[c].key] = None
         /\ pc[c] \in {"s3Reclaim", "s3Delete"} =>
              item' = item /\ object'[req[c].key] = None
<1>1. /\ req[c] \in Request /\ req[c].key \in Keys
      /\ pc[c] \in {"s3Put", "put", "s3Reclaim"} => req[c].op = "write"
      /\ pc[c] \in {"deleteItem", "s3Delete"} => req[c].op = "delete"
  BY ClientCall
<1>2. pc[c] \in {"s3Put", "put", "s3Reclaim", "deleteItem", "s3Delete"}
  BY DEF Effect
<1>3. Mutating(c, req[c].key)
  BY <1>1, <1>2 DEF Mutating, Active
<1>4. CASE pc[c] = "s3Put" /\ PutObject(req[c])
  BY <1>1, <1>3, <1>4 DEF PutObject, TypeOK
<1>5. CASE pc[c] = "put" /\ PutItemInTable(req[c])
  BY <1>1, <1>3, <1>5 DEF PutItemInTable, Replace, TypeOK
<1>6. CASE pc[c] = "deleteItem" /\ DeleteItemInTable(req[c])
  BY <1>1, <1>3, <1>6 DEF DeleteItemInTable, Replace, TypeOK
<1>7. CASE pc[c] \in {"s3Reclaim", "s3Delete"} /\ DeleteObject(req[c])
  BY <1>1, <1>3, <1>7 DEF DeleteObject, TypeOK
<1> QED
  BY <1>4, <1>5, <1>6, <1>7 DEF Effect

\* A client that has not moved finds its upload where it left it.
LEMMA UploadKept ==
  ASSUME UploadInv, NEW c \in Clients, pc[c] # "idle",
         UNCHANGED object \/ Effect(pc[c], req[c]),
         NEW d \in Clients, pc'[d] = pc[d], req'[d] = req[d]
  PROVE  Uploaded(d)'
<1>1. Uploaded(d) /\ TypeOK /\ Exclusive
  BY DEF UploadInv, PointerInv
<1>2. CASE UNCHANGED object
  BY <1>1, <1>2 DEF Uploaded, Oversized
<1>3. CASE Effect(pc[c], req[c]) /\ pc[d] = "put"
  <2>1. Mutating(c, req[c].key) /\ req[d].key \in Keys /\ Mutating(d, req[d].key)
    BY <1>1, <1>3, ClientCall, EffectAtKey DEF Mutating, Active
  <2>2. CASE d = c
    BY <1>1, <1>3, <2>2, EffectAtKey DEF Uploaded, Oversized
  <2>3. CASE d # c
    <3>1. req[d].key # req[c].key
      BY <1>1, <2>1, <2>3 DEF Exclusive
    <3>2. object'[req[d].key] = object[req[d].key]
      BY <1>1, <1>3, <2>1, <3>1, EffectAtKey
    <3> QED
      BY <1>1, <3>2 DEF Uploaded, Oversized
  <2> QED
    BY <2>2, <2>3
<1>4. CASE pc[d] # "put"
  BY <1>1, <1>4 DEF Uploaded, Oversized
<1> QED
  BY <1>2, <1>3, <1>4

\* Starting an operation uploads nothing yet.
LEMMA BeginUpload ==
  ASSUME UploadInv, NEW c \in Clients, NEW r \in Request, NEW first, Begin(c, r, first),
         first = "s3Put" => Oversized(r.data),
         first = "put" => ~Oversized(r.data)
  PROVE  \A d \in Clients : Uploaded(d)'
<1>1. /\ pc' = [pc EXCEPT ![c] = first] /\ req' = [req EXCEPT ![c] = r]
      /\ object' = object /\ TypeOK
  BY DEF Begin, table, UploadInv, PointerInv
<1>2. \A d \in Clients : Uploaded(d)
  BY DEF UploadInv
<1>3. ASSUME NEW d \in Clients
      PROVE  Uploaded(d)'
  BY <1>1, <1>2 DEF Uploaded, Oversized, TypeOK
<1> QED
  BY <1>3

\* Every step keeps what has been uploaded.
LEMMA StepUpload ==
  ASSUME UploadInv, [Next]_vars, Locking # "none", "late" \notin Faults
  PROVE  UploadInv'
<1>0. TypeOK /\ PointerInv' /\ InlineInv' /\ late = {}
  BY StepPointer, StepInline DEF UploadInv, PointerInv
<1>1. ASSUME NEW c \in Clients, BeginOperation(c)
      PROVE  \A d \in Clients : Uploaded(d)'
  <2>1. ASSUME NEW k \in Keys, NEW v \in Values, NEW ttl \in Ttls,
               BeginWrite(c, k, v, ttl) \/ RefuseWrite(c, k, v, ttl)
        PROVE  \A d \in Clients : Uploaded(d)'
    <3>1. WriteRequest(c, k, v, ttl) \in Request
          /\ WriteRequest(c, k, v, ttl).data = Encode(c, v)
      BY <1>0, WriteRequestType DEF TypeOK
    <3>2. CASE BeginWrite(c, k, v, ttl) /\ Oversized(Encode(c, v))
      BY <3>1, <3>2, BeginUpload DEF BeginWrite
    <3>3. CASE BeginWrite(c, k, v, ttl) /\ ~Oversized(Encode(c, v))
      BY <3>1, <3>3, BeginUpload DEF BeginWrite
    <3>4. CASE RefuseWrite(c, k, v, ttl)
      BY <3>1, <3>4, BeginUpload DEF RefuseWrite
    <3> QED
      BY <2>1, <3>2, <3>3, <3>4
  <2>2. ASSUME NEW k \in Keys, BeginRead(c, k) \/ BeginDelete(c, k)
        PROVE  \A d \in Clients : Uploaded(d)'
    BY <2>2, PlainType, BeginUpload DEF BeginRead, BeginDelete
  <2> QED
    BY <1>1, <2>1, <2>2 DEF BeginOperation
<1>2. ASSUME NEW c \in Clients, Proceed(c)
      PROVE  \A d \in Clients : Uploaded(d)'
  <2>1. /\ pc[c] # "idle"
        /\ UNCHANGED object \/ Effect(pc[c], req[c])
        /\ \A d \in Clients \ {c} : pc'[d] = pc[d] /\ req'[d] = req[d]
    BY <1>0, <1>2 DEF Proceed, S3Put, PutItem, S3Reclaim, S3Get, GetItem, GetVersion,
       DeleteItem, S3Delete, Effect, table, GoTo, Finish, TypeOK
  <2>2. Uploaded(c)'
    <3>1. CASE S3Put(c)
      <4>1. /\ pc'[c] = "put" /\ req' = req /\ pc[c] = "s3Put"
            /\ Effect(pc[c], req[c])
        BY <1>0, <3>1 DEF S3Put, GoTo, Effect, TypeOK
      <4>2. object'[req[c].key] = req[c].data
        BY <1>0, <4>1, EffectAtKey
      <4> QED
        BY <4>1, <4>2 DEF Uploaded
    <3>2. CASE ~S3Put(c)
      <4>1. pc'[c] \in {"idle", "s3Reclaim", "s3Get", "s3Delete"}
        BY <1>0, <1>2, <3>2 DEF Proceed, PutItem, S3Reclaim, S3Get, GetItem, GetVersion,
           DeleteItem, S3Delete, GoTo, Finish, TypeOK
      <4> QED
        BY <4>1 DEF Uploaded
    <3> QED
      BY <3>1, <3>2
  <2> QED
    BY <2>1, <2>2, UploadKept
<1>3. ASSUME NEW c \in Clients, Disturb(c)
      PROVE  \A d \in Clients : Uploaded(d)'
  <2>1. /\ pc[c] # "idle" /\ req' = req
        /\ UNCHANGED object \/ Effect(pc[c], req[c])
        /\ \A d \in Clients \ {c} : pc'[d] = pc[d]
        /\ pc'[c] = pc[c] \/ pc'[c] = "idle"
    BY <1>0, <1>3 DEF Disturb, CallFails, Crash, ReplyLost, Abandon, Sent, table, Finish,
       TypeOK
  <2>2. \A d \in Clients : pc'[d] = pc[d] => Uploaded(d)'
    BY <2>1, UploadKept
  <2>3. pc'[c] = "idle" => Uploaded(c)'
    BY DEF Uploaded
  <2> QED
    BY <2>1, <2>2, <2>3
<1>4. CASE \/ Tick \/ UNCHANGED vars
           \/ \E k \in Keys : Reap(k) \/ CatchUp(k)
  <2>1. UNCHANGED <<object, pc, req>> /\ \A d \in Clients : Uploaded(d)
    BY <1>4 DEF Tick, Reap, Replace, CatchUp, table, vars, UploadInv
  <2>2. ASSUME NEW d \in Clients
        PROVE  Uploaded(d)'
    <3>1. pc'[d] = pc[d] /\ req'[d] = req[d] /\ Uploaded(d)
      BY <2>1
    <3> QED
      BY <2>1, <3>1 DEF Uploaded, Oversized
  <2> QED
    BY <1>0, <2>2 DEF UploadInv
<1> QED
  BY <1>0, <1>1, <1>2, <1>3, <1>4 DEF Next, UploadInv

\* Nothing is stored or running at first.
LEMMA InitUpload == Init => UploadInv
<1> SUFFICES ASSUME Init PROVE UploadInv
  OBVIOUS
<1>1. TypeOK
  BY PlainType, ResultConstants DEF Init, TypeOK
<1>2. \A c \in Clients : req[c].op = "read"
  BY PlainType DEF Init
<1>3. PointerInv
  BY <1>1 DEF Init, PointerInv, Exclusive, Mutating, Active, Prepared, PointerBacked,
     IsPointer
<1>4. InlineInv
  BY <1>1, <1>2 DEF Init, InlineInv, InlineReadable, Versions, IsPointer, Flagged
<1> QED
  BY <1>3, <1>4 DEF Init, UploadInv, Uploaded
=============================================================================
