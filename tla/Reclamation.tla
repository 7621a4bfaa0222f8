----------------------------- MODULE Reclamation -----------------------------
(***************************************************************************)
(* DynamoDBStorage with a history variable about what operations leave     *)
(* behind in the table and the bucket: excused[k] is what is amiss with    *)
(* key k and was left by one of the steps that cannot but leave it.  It    *)
(* changes nothing that the clients or the services do; it lets a property *)
(* say that no other step leaves anything.                                 *)
(***************************************************************************)
EXTENDS DynamoDBStorage

VARIABLE excused

rvars == <<vars, excused>>

\* "orphan": an S3 object that no pointer leads to, which no later delete
\* reaches.  "torn": a pointer whose compressed flag is not its object's.
Amiss(k) ==
  {a \in {"orphan", "torn"} :
     /\ object[k] # None
     /\ IF a = "orphan" THEN ~IsPointer(item[k])
        ELSE IsPointer(item[k]) /\ object[k].gz # item[k].z}

\* An instance without a bucket neither asks for a replaced pointer nor
\* deletes the object of a deleted one.
Bucketless(c) == c \notin Buckets /\ (PutItem(c) \/ S3Delete(c))

\* An operation ends after an upload without its pointer, or without the
\* clean-up after a pointer is gone.
CutShort(c) ==
  pc[c] \in {"put", "s3Reclaim", "s3Delete"} /\ (CallFails(c) \/ Crash(c))

\* A call is sent again: a second PutItem or DeleteItem is told of no pointer,
\* and a second upload may not come to pass.
SentAgain(c) == pc[c] \in {"s3Put", "put", "deleteItem"} /\ ReplyLost(c)

\* The steps that may leave a amiss with k.
Leaves(a, k) ==
  \/ a = "orphan" /\ Reap(k)
  \/ \E c \in Clients :
       /\ req[c].key = k
       /\ a = "torn" => pc[c] \in {"s3Put", "put"}
       /\ Bucketless(c) \/ CutShort(c) \/ SentAgain(c)

\* A write that comes to its PutItem has uploaded before it, or needs no
\* object: what tore the key earlier is no excuse after it.
Mends(a, k) == a = "torn" /\ \E c \in Clients : req[c].key = k /\ PutItem(c)

Track ==
  excused' = [k \in Keys |->
                {a \in Amiss(k)' : Leaves(a, k) \/ (a \in excused[k] /\ ~Mends(a, k))}]

RInit == Init /\ excused = [k \in Keys |-> {}]
RNext == Next /\ Track
RSpec == RInit /\ [][RNext]_rvars

-----------------------------------------------------------------------------
\* When no write or delete of a key is running, an object that its item does
\* not point to was left by an operation cut short or sent again, by an
\* instance without a bucket or by the TTL process: writes and deletes that run
\* undisturbed reclaim what they replace, whatever was left before them, and a
\* failed upload or a failed DeleteItem leaves nothing.
OrphansExplained ==
  \A k \in Keys : Quiet(k) /\ "orphan" \in Amiss(k) => "orphan" \in excused[k]

\* When no write or delete of a key is running, a flag that does not describe
\* the object is the work of a write cut short or sent again between the two,
\* and the next write of the key that puts its item mends it.
TornExplained ==
  \A k \in Keys : Quiet(k) /\ "torn" \in Amiss(k) => "torn" \in excused[k]
=============================================================================
