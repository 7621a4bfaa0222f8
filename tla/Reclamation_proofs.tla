------------------------- MODULE Reclamation_proofs -------------------------
(***************************************************************************)
(* What operations leave behind, when callers mutate a key one at a time   *)
(* and no call arrives after its operation ended: for any number of        *)
(* clients, keys and values, any settings, and any calls that fail, crash  *)
(* or are sent again.                                                      *)
(***************************************************************************)
EXTENDS Reclamation, DynamoDBStorage_proofs

-----------------------------------------------------------------------------
(* What is amiss, and who answers for it.  OrphansExplained speaks of keys *)
(* nobody mutates; the invariant has to speak of the others too.           *)

\* The operation that c runs is still to set a right at k: to put the pointer
\* to its upload, or to remove the object whose pointer it took away.
Under(c, k, a) ==
  /\ Mutating(c, k)
  /\ \/ pc[c] = "put" /\ Oversized(req[c].data)
     \/ a = "orphan" /\ pc[c] \in {"s3Reclaim", "s3Delete"}

Accounted(k) ==
  \A a \in Amiss(k) : a \in excused[k] \/ \E c \in Clients : Under(c, k, a)

ReclaimInv == UploadInv /\ \A k \in Keys : Accounted(k)

\* What a step leaves must be excused or set right by someone.
LEMMA Answered ==
  ASSUME Track, NEW k \in Keys,
         \A a \in Amiss(k)' : \/ a \in excused[k] /\ ~Mends(a, k)
                              \/ Leaves(a, k)
                              \/ \E c \in Clients : Under(c, k, a)'
  PROVE  Accounted(k)'
<1>1. excused'[k] =
        {a \in Amiss(k)' : Leaves(a, k) \/ (a \in excused[k] /\ ~Mends(a, k))}
  BY DEF Track
<1> QED
  BY <1>1 DEF Accounted

\* A step that changes nothing at k answers for the clients that give up.
LEMMA UntouchedKey ==
  ASSUME Track, NEW k \in Keys, Accounted(k),
         item'[k] = item[k], object'[k] = object[k],
         \A c \in Clients, a \in {"orphan", "torn"} :
           Under(c, k, a) => Under(c, k, a)' \/ Leaves(a, k),
         \A a \in {"orphan", "torn"} : Mends(a, k) => Leaves(a, k)
  PROVE  Accounted(k)'
<1>1. Amiss(k)' = Amiss(k) /\ Amiss(k) \subseteq {"orphan", "torn"}
  BY DEF Amiss, IsPointer
<1>2. ASSUME NEW a \in Amiss(k)'
      PROVE  \/ a \in excused[k] /\ ~Mends(a, k)
             \/ Leaves(a, k)
             \/ \E c \in Clients : Under(c, k, a)'
  <2>1. CASE a \in excused[k]
    BY <1>1, <1>2, <2>1
  <2>2. CASE \E c \in Clients : Under(c, k, a)
    BY <1>1, <1>2, <2>2
  <2> QED
    BY <1>1, <1>2, <2>1, <2>2 DEF Accounted
<1> QED
  BY <1>2, Answered

\* A client that stands still goes on answering for its key.
LEMMA StillUnder ==
  ASSUME NEW c \in Clients, pc'[c] = pc[c], req'[c] = req[c], NEW k, NEW a
  PROVE  Under(c, k, a)' <=> Under(c, k, a)
BY DEF Under, Mutating, Active, Oversized

\* Only a write at its PutItem, which goes on from there, takes an excuse away.
LEMMA Mender ==
  ASSUME TypeOK, NEW k, NEW a, Mends(a, k)
  PROVE  /\ a = "torn"
         /\ \E c \in Clients : pc[c] = "put" /\ req[c].key = k /\ pc'[c] # pc[c]
BY DEF Mends, PutItem, GoTo, Finish, TypeOK

\* Only one client answers for a key: the one that mutates it.
LEMMA OneAnswers ==
  ASSUME UploadInv, NEW c \in Clients, NEW k \in Keys, Mutating(c, k),
         NEW d \in Clients, NEW a, Under(d, k, a)
  PROVE  d = c
BY DEF UploadInv, PointerInv, Exclusive, Under

\* A client's call answers for every key but its own by leaving it alone.
LEMMA OtherKeys ==
  ASSUME UploadInv, Track, NEW c \in Clients, pc[c] # "idle",
         Effect(pc[c], req[c]),
         \A d \in Clients \ {c} : pc'[d] = pc[d] /\ req'[d] = req[d],
         NEW k \in Keys \ {req[c].key}, Accounted(k)
  PROVE  Accounted(k)'
<1>1. item'[k] = item[k] /\ object'[k] = object[k] /\ Mutating(c, req[c].key)
  BY EffectAtKey DEF UploadInv, PointerInv
<1>2. \A a : ~ Under(c, k, a)
  BY <1>1 DEF Under, Mutating, Active
<1>3. \A d \in Clients \ {c}, a \in {"orphan", "torn"} :
        Under(d, k, a) => Under(d, k, a)'
  BY StillUnder
<1>4. \A a : ~ Mends(a, k)
  BY Mender DEF UploadInv, PointerInv
<1> QED
  BY <1>1, <1>2, <1>3, <1>4, UntouchedKey

\* An upload is answered for by its own write, which puts the pointer next.
LEMMA StepS3Put ==
  ASSUME UploadInv, Track, NEW c \in Clients, S3Put(c),
         NEW k \in Keys, k = req[c].key
  PROVE  Accounted(k)'
<1>0. TypeOK
  BY DEF UploadInv, PointerInv
<1>1. pc'[c] = "put" /\ req' = req /\ req[c].op = "write"
  BY <1>0, ClientCall DEF S3Put, GoTo, TypeOK
<1>2. Oversized(req[c].data)
  BY DEF UploadInv, Uploaded, S3Put
<1>3. \A a : Under(c, k, a)'
  BY <1>1, <1>2 DEF Under, Mutating, Active, Oversized
<1> QED
  BY <1>3, Answered

\* An item that is no pointer, put where there was none or deleted, leaves an
\* object behind only with a pointer that someone answers for.
LEMMA PointerGone ==
  ASSUME UploadInv, Track, NEW c \in Clients, NEW k \in Keys, Accounted(k),
         Mutating(c, k), ~ (pc[c] = "put" /\ Oversized(req[c].data)),
         pc[c] \notin {"s3Reclaim", "s3Delete"},
         object'[k] = object[k], ~ IsPointer(item'[k]),
         IsPointer(item[k]) => \/ Under(c, k, "orphan")'
                               \/ Leaves("orphan", k)
  PROVE  Accounted(k)'
<1>1. \A a \in Amiss(k)' : a = "orphan" /\ object[k] # None
  BY DEF Amiss, IsPointer
<1>2. CASE IsPointer(item[k])
  BY <1>1, <1>2, Answered
<1>3. CASE ~ IsPointer(item[k]) /\ object[k] # None
  <2>1. "orphan" \in Amiss(k) /\ ~ Mends("orphan", k)
    BY <1>3 DEF Amiss, Mends
  <2>2. \A d \in Clients : ~ Under(d, k, "orphan")
    <3>1. ~ Under(c, k, "orphan")
      BY DEF Under
    <3> QED
      BY <3>1, OneAnswers
  <2>3. "orphan" \in excused[k]
    BY <2>1, <2>2 DEF Accounted
  <2> QED
    BY <1>1, <2>1, <2>3, Answered
<1>4. CASE object[k] = None
  BY <1>1, <1>4, Answered
<1> QED
  BY <1>2, <1>3, <1>4

\* A put pointer is not an orphan's, and has the flag of its upload; an inline
\* item that replaces a pointer goes on to reclaim, if its instance can.
LEMMA StepPutItem ==
  ASSUME UploadInv, Track, NEW c \in Clients, PutItem(c),
         NEW k \in Keys, k = req[c].key, Accounted(k)
  PROVE  Accounted(k)'
<1>0. TypeOK
  BY DEF UploadInv, PointerInv
<1>1. /\ pc[c] = "put" /\ Effect(pc[c], req[c]) /\ req' = req
      /\ req[c].op = "write" /\ req[c] \in Request /\ Mutating(c, k)
  BY <1>0, ClientCall DEF PutItem, Effect, Mutating, Active
<1>2. object' = object /\ item'[k] = ItemOf(req[c])
  BY <1>0, <1>1, EffectAtKey
<1>3. CASE Oversized(req[c].data)
  <2>1. object[k] = req[c].data /\ req[c].data.gz = req[c].z
    BY <1>1, <1>3 DEF UploadInv, Uploaded, InlineInv, Flagged
  <2>2. /\ item'[k].ptr /\ item'[k].z = req[c].z
        /\ item'[k] # None
    <3>1. item'[k] \in Item
      BY <1>1, <1>2, ItemOfType
    <3>2. item'[k] # None
      BY <3>1, NoneAssumption DEF Item, Bytes, Stamp
    <3>3. item'[k].ptr = Oversized(req[c].data) /\ item'[k].z = req[c].z
      BY <1>2 DEF ItemOf
    <3> QED
      BY <1>3, <3>2, <3>3
  <2>3. Amiss(k)' = {}
    BY <1>2, <2>1, <2>2 DEF Amiss, IsPointer
  <2> QED
    BY <2>3, Answered
<1>4. CASE ~ Oversized(req[c].data)
  <2>1. ~ IsPointer(item'[k])
    BY <1>1, <1>2, <1>4, ItemOfType
  <2>2. ASSUME IsPointer(item[k])
        PROVE  Under(c, k, "orphan")' \/ Leaves("orphan", k)
    <3>1. CASE c \in Buckets
      <4>1. pc'[c] = "s3Reclaim"
        BY <1>0, <1>4, <2>2, <3>1 DEF PutItem, GoTo, TypeOK
      <4> QED
        BY <1>1, <4>1 DEF Under, Mutating, Active
    <3>2. CASE c \notin Buckets
      BY <1>1, <3>2 DEF Leaves, Bucketless
    <3> QED
      BY <3>1, <3>2
  <2> QED
    BY <1>1, <1>2, <1>4, <2>1, <2>2, PointerGone
<1> QED
  BY <1>3, <1>4

\* A delete whose item was a pointer goes on to remove the object.
LEMMA StepDeleteItem ==
  ASSUME UploadInv, Track, NEW c \in Clients, DeleteItem(c),
         NEW k \in Keys, k = req[c].key, Accounted(k)
  PROVE  Accounted(k)'
<1>0. TypeOK
  BY DEF UploadInv, PointerInv
<1>1. /\ pc[c] = "deleteItem" /\ Effect(pc[c], req[c]) /\ req' = req
      /\ req[c].op = "delete" /\ Mutating(c, k)
  BY <1>0, ClientCall DEF DeleteItem, Effect, Mutating, Active
<1>2. object' = object /\ ~ IsPointer(item'[k])
  BY <1>0, <1>1, EffectAtKey DEF IsPointer
<1>3. IsPointer(item[k]) => Under(c, k, "orphan")'
  <2>1. IsPointer(item[k]) => pc'[c] = "s3Delete"
    BY <1>0 DEF DeleteItem, GoTo, TypeOK
  <2> QED
    BY <1>1, <2>1 DEF Under, Mutating, Active
<1> QED
  BY <1>1, <1>2, <1>3, PointerGone

\* Nothing is amiss where there is no object.
LEMMA NoObject ==
  ASSUME Track, NEW k \in Keys, object'[k] = None
  PROVE  Accounted(k)'
<1>1. Amiss(k)' = {}
  BY DEF Amiss
<1> QED
  BY <1>1, Answered

\* A call sent again is excused for what the second one cannot know.
LEMMA StepReplyLost ==
  ASSUME UploadInv, Track, NEW c \in Clients, ReplyLost(c),
         NEW k \in Keys, k = req[c].key, Accounted(k)
  PROVE  Accounted(k)'
<1>0. TypeOK
  BY DEF UploadInv, PointerInv
<1>1. pc[c] # "idle" /\ Effect(pc[c], req[c])
  BY DEF ReplyLost, Sent
<1>2. CASE pc[c] \in {"s3Put", "put"}
  <2>1. \A a : Leaves(a, k)
    BY <1>2 DEF Leaves, SentAgain
  <2> QED
    BY <2>1, Answered
<1>3. CASE pc[c] = "deleteItem"
  <2>1. ~ IsPointer(item'[k])
    BY <1>0, <1>1, <1>3, EffectAtKey DEF IsPointer
  <2>2. Leaves("orphan", k)
    BY <1>3 DEF Leaves, SentAgain
  <2>3. \A a \in Amiss(k)' : a = "orphan"
    BY <2>1 DEF Amiss
  <2> QED
    BY <2>2, <2>3, Answered
<1>4. CASE pc[c] \in {"s3Reclaim", "s3Delete"}
  BY <1>0, <1>1, <1>4, EffectAtKey, NoObject
<1> QED
  BY <1>1, <1>2, <1>3, <1>4 DEF Effect

\* Every step leaves every key accounted for.
LEMMA StepReclaim ==
  ASSUME ReclaimInv, [RNext]_rvars, Locking # "none", "late" \notin Faults
  PROVE  ReclaimInv'
<1>0. UploadInv /\ TypeOK /\ late = {} /\ \A k \in Keys : Accounted(k)
  BY DEF ReclaimInv, UploadInv, PointerInv
<1>1. [Next]_vars
  BY DEF RNext, rvars
<1>2. UploadInv'
  BY <1>0, <1>1, StepUpload
<1>3. CASE UNCHANGED rvars
  <2>1. \A c \in Clients, k \in Keys, a \in {"orphan", "torn"} :
          Under(c, k, a) => Under(c, k, a)'
    BY <1>3, StillUnder DEF rvars, vars
  <2>2. \A k \in Keys : Amiss(k)' = Amiss(k) /\ Amiss(k) \subseteq {"orphan", "torn"}
    BY <1>3 DEF rvars, vars, Amiss, IsPointer
  <2>3. excused' = excused
    BY <1>3 DEF rvars
  <2>4. \A k \in Keys : Accounted(k)'
    BY <1>0, <2>1, <2>2, <2>3 DEF Accounted
  <2> QED
    BY <1>2, <2>4 DEF ReclaimInv
<1>4. CASE Next /\ Track
  <2> SUFFICES ASSUME NEW k \in Keys PROVE Accounted(k)'
    BY <1>2 DEF ReclaimInv
  <2>0. Track /\ Accounted(k)
    BY <1>0, <1>4
  <2>1. ASSUME NEW c \in Clients, pc[c] # "idle", Effect(pc[c], req[c]),
               \A d \in Clients \ {c} : pc'[d] = pc[d] /\ req'[d] = req[d],
               k # req[c].key
        PROVE  Accounted(k)'
    BY <1>0, <2>0, <2>1, OtherKeys
  <2>2. ASSUME NEW c \in Clients, UNCHANGED <<item, object>>,
               \A d \in Clients \ {c} : pc'[d] = pc[d] /\ req'[d] = req[d],
               \A a \in {"orphan", "torn"} :
                 Under(c, k, a) => Under(c, k, a)' \/ Leaves(a, k),
               pc[c] = "put" /\ req[c].key = k => Leaves("torn", k)
        PROVE  Accounted(k)'
    <3>1. \A d \in Clients \ {c}, a \in {"orphan", "torn"} :
            Under(d, k, a) => Under(d, k, a)'
      BY <2>2, StillUnder
    <3>2. \A a : Mends(a, k) => Leaves(a, k)
      BY <1>0, <2>2, Mender
    <3> QED
      BY <2>0, <2>2, <3>1, <3>2, UntouchedKey
  <2>3. ASSUME NEW c \in Clients, BeginOperation(c)
        PROVE  Accounted(k)'
    <3>1. /\ pc[c] = "idle" /\ UNCHANGED <<item, object>>
          /\ \A d \in Clients \ {c} : pc'[d] = pc[d] /\ req'[d] = req[d]
      BY <1>0, <2>3 DEF BeginOperation, BeginWrite, RefuseWrite, BeginRead, BeginDelete,
         Begin, table, TypeOK
    <3>2. \A a : ~ Under(c, k, a)
      BY <3>1 DEF Under, Mutating, Active
    <3> QED
      BY <2>2, <3>1, <3>2
  <2>4. ASSUME NEW c \in Clients, Proceed(c)
        PROVE  Accounted(k)'
    <3>1. \A d \in Clients \ {c} : pc'[d] = pc[d] /\ req'[d] = req[d]
      BY <1>0, <2>4 DEF Proceed, S3Put, PutItem, S3Reclaim, S3Get, GetItem, GetVersion,
         DeleteItem, S3Delete, GoTo, Finish, TypeOK
    <3>2. CASE GetItem(c) \/ S3Get(c)
      <4>1. UNCHANGED <<item, object>> /\ pc[c] \in {"get", "s3Get"}
        BY <3>2 DEF GetItem, S3Get, table
      <4>2. \A a : ~ Under(c, k, a)
        BY <4>1 DEF Under
      <4> QED
        BY <2>2, <3>1, <4>1, <4>2
    <3>3. CASE S3Delete(c) /\ c \notin Buckets
      <4>1. UNCHANGED <<item, object>> /\ pc[c] = "s3Delete"
        BY <3>3 DEF S3Delete, table
      <4>2. ASSUME NEW a \in {"orphan", "torn"}, Under(c, k, a)
            PROVE  Leaves(a, k)
        BY <3>3, <4>1, <4>2 DEF Under, Mutating, Active, Leaves, Bucketless
      <4> QED
        BY <2>2, <3>1, <4>1, <4>2
    <3>4. CASE S3Put(c) \/ PutItem(c) \/ S3Reclaim(c) \/ DeleteItem(c)
               \/ (S3Delete(c) /\ c \in Buckets)
      <4>1. pc[c] # "idle" /\ Effect(pc[c], req[c])
        BY <3>4 DEF S3Put, PutItem, S3Reclaim, DeleteItem, S3Delete, Effect
      <4>2. CASE k # req[c].key
        BY <2>1, <3>1, <4>1, <4>2
      <4>3. CASE k = req[c].key
        <5>1. CASE S3Put(c)
          BY <1>0, <2>0, <4>3, <5>1, StepS3Put
        <5>2. CASE PutItem(c)
          BY <1>0, <2>0, <4>3, <5>2, StepPutItem
        <5>3. CASE DeleteItem(c)
          BY <1>0, <2>0, <4>3, <5>3, StepDeleteItem
        <5>4. CASE pc[c] \in {"s3Reclaim", "s3Delete"}
          BY <1>0, <2>0, <4>1, <4>3, <5>4, EffectAtKey, NoObject
        <5> QED
          BY <3>4, <5>1, <5>2, <5>3, <5>4 DEF S3Reclaim, S3Delete
      <4> QED
        BY <4>2, <4>3
    <3>5. CASE S3Delete(c)
      BY <3>3, <3>4, <3>5
    <3> QED
      BY <2>4, <3>2, <3>4, <3>5 DEF Proceed
  <2>5. ASSUME NEW c \in Clients, CallFails(c) \/ Crash(c)
        PROVE  Accounted(k)'
    <3>1. /\ UNCHANGED <<item, object>>
          /\ \A d \in Clients \ {c} : pc'[d] = pc[d] /\ req'[d] = req[d]
      BY <1>0, <2>5 DEF CallFails, Crash, table, Finish, TypeOK
    <3>2. ASSUME NEW a \in {"orphan", "torn"}, Under(c, k, a)
          PROVE  Leaves(a, k)
      BY <2>5, <3>2 DEF Under, Mutating, Active, Leaves, CutShort
    <3>3. pc[c] = "put" /\ req[c].key = k => Leaves("torn", k)
      BY <2>5 DEF Leaves, CutShort
    <3> QED
      BY <2>2, <3>1, <3>2, <3>3
  <2>6. ASSUME NEW c \in Clients, ReplyLost(c)
        PROVE  Accounted(k)'
    <3>1. /\ pc[c] # "idle" /\ Effect(pc[c], req[c]) /\ UNCHANGED <<pc, req>>
      BY <2>6 DEF ReplyLost, Sent
    <3>2. CASE k # req[c].key
      BY <2>1, <3>1, <3>2
    <3>3. CASE k = req[c].key
      BY <1>0, <2>0, <2>6, <3>3, StepReplyLost
    <3> QED
      BY <3>2, <3>3
  <2>7. ASSUME NEW c \in Clients, Abandon(c)
        PROVE  FALSE
    BY <2>7 DEF Abandon, Fault
  <2>8. CASE Tick \/ \E j \in Keys : CatchUp(j) \/ (Reap(j) /\ j # k)
    <3>1. /\ item'[k] = item[k] /\ object'[k] = object[k] /\ UNCHANGED <<pc, req>>
      BY <1>0, <2>8 DEF Tick, CatchUp, Reap, Replace, table, TypeOK
    <3>2. \A c \in Clients, a \in {"orphan", "torn"} : Under(c, k, a) => Under(c, k, a)'
      BY <3>1, StillUnder
    <3>3. \A a : ~ Mends(a, k)
      BY <1>0, <3>1, Mender
    <3> QED
      BY <2>0, <3>1, <3>2, <3>3, UntouchedKey
  <2>9. CASE Reap(k)
    <3>1. ~ IsPointer(item'[k])
      BY <1>0, <2>9 DEF Reap, Replace, IsPointer, TypeOK
    <3>2. \A a \in Amiss(k)' : a = "orphan"
      BY <3>1 DEF Amiss
    <3>3. Leaves("orphan", k)
      BY <2>9 DEF Leaves
    <3> QED
      BY <2>0, <3>2, <3>3, Answered
  <2> QED
    BY <1>0, <1>4, <2>3, <2>4, <2>5, <2>6, <2>7, <2>8, <2>9 DEF Next, Disturb
<1> QED
  BY <1>3, <1>4 DEF RNext

\* At first nothing is stored, and nothing is amiss.
LEMMA InitReclaim == RInit => ReclaimInv
<1> SUFFICES ASSUME RInit PROVE ReclaimInv
  OBVIOUS
<1>1. UploadInv
  BY InitUpload DEF RInit
<1>2. \A k \in Keys : Amiss(k) = {}
  BY DEF RInit, Init, Amiss
<1> QED
  BY <1>1, <1>2 DEF ReclaimInv, Accounted

\* In every state, what is amiss with a key is excused, or an operation that is
\* running will set it right.
LEMMA AlwaysAccounted ==
  ASSUME Locking # "none", "late" \notin Faults
  PROVE  RSpec => []ReclaimInv
<1>1. ReclaimInv /\ [RNext]_rvars => ReclaimInv'
  BY StepReclaim
<1> QED
  BY <1>1, InitReclaim, PTL DEF RSpec

\* Nobody mutates the key, so nobody is still to set anything right.
LEMMA QuietIsExcused ==
  ASSUME ReclaimInv, NEW k \in Keys, Quiet(k), NEW a \in Amiss(k)
  PROVE  a \in excused[k]
BY DEF ReclaimInv, Accounted, Quiet, Under

\* An object without a pointer, at a key that nobody mutates, was left by an
\* operation cut short or sent again, an instance without a bucket or the TTL
\* process: writes and deletes that run undisturbed reclaim what they replace,
\* and a failed upload or DeleteItem leaves nothing.
THEOREM OrphansAreExplained ==
  ASSUME Locking # "none", "late" \notin Faults
  PROVE  RSpec => []OrphansExplained
<1>1. ReclaimInv => OrphansExplained
  BY QuietIsExcused DEF OrphansExplained
<1> QED
  BY <1>1, AlwaysAccounted, PTL

\* A pointer whose flag is not its object's, at a key that nobody mutates, is
\* the work of a write cut short or sent again between upload and pointer, and
\* no write that runs undisturbed leaves it so.
THEOREM TornAreExplained ==
  ASSUME Locking # "none", "late" \notin Faults
  PROVE  RSpec => []TornExplained
<1>1. ReclaimInv => TornExplained
  BY QuietIsExcused DEF TornExplained
<1> QED
  BY <1>1, AlwaysAccounted, PTL
=============================================================================
