---------------------------- MODULE ReadHistory ----------------------------
(***************************************************************************)
(* DynamoDBStorage with two history variables about the read that each     *)
(* client runs, or ran last: seen[c] is what it may return, and quiet[c]   *)
(* tells that nothing disturbed it.  They change nothing that the clients  *)
(* or the services do; they let a property relate the answer of a read to  *)
(* everything that happened to the key while the read was running.         *)
(***************************************************************************)
EXTENDS DynamoDBStorage

VARIABLES seen, quiet

hvars == <<vars, seen, quiet>>

Reading(c) == pc[c] # "idle" /\ req[c].op = "read"

\* The value that version i of the item at k has, now: its own bytes, or the
\* object's if it is a pointer, or None if there is no object.
ValueOf(k, i) ==
  IF ~i.ptr THEN i.data.val ELSE IF object[k] = None THEN None ELSE object[k].val

\* What a read by c of version i could return, if anything: None when there is
\* no item, or when c hides it.
Views(c, k, i) == IF ~Visible(c, i) THEN {None} ELSE {ValueOf(k, i)} \ {None}

\* The values that writes of k, running or abandoned, are storing.
Writing(k) ==
  {req[d].data.val : d \in {e \in Clients : Active(e, k) /\ req[e].op = "write"}}
    \cup {m.req.data.val : m \in {n \in late : n.req.key = k /\ n.req.op = "write"}}

\* What the read that c runs could return if it ended now.
Candidates(c) ==
  IF Reading(c)
  THEN (UNION {Views(c, req[c].key, i) : i \in Versions(req[c].key)})
         \cup Writing(req[c].key)
  ELSE {}

\* The pointer item of k records how its object is encoded.
Described(k) == IsPointer(item[k]) /\ object[k] # None => object[k].gz = item[k].z

\* A read is disturbed by a write or a delete of its key, by a replica that
\* lags, by what a write of other settings left that was cut short between its
\* two calls (see Reclamation), and by a fault.
Undisturbed(c) ==
  Quiet(req[c].key) /\ past[req[c].key] = {} /\ Described(req[c].key)

Track ==
  /\ seen' = [c \in Clients |->
                IF Reading(c) THEN seen[c] \cup Candidates(c)'
                ELSE IF Reading(c)' THEN Candidates(c)'
                ELSE seen[c]]
  /\ quiet' = [c \in Clients |->
                 IF Reading(c)
                 THEN quiet[c] /\ Undisturbed(c)' /\ faults' = faults
                 ELSE IF Reading(c)' THEN Undisturbed(c)'
                 ELSE quiet[c]]

HInit ==
  /\ Init
  /\ seen = [c \in Clients |-> {}]
  /\ quiet = [c \in Clients |-> FALSE]

HNext == Next /\ Track
HSpec == HInit /\ [][HNext]_hvars

-----------------------------------------------------------------------------
\* Every S3 object of the deployment is encoded alike, whichever client wrote
\* it: its clients agree on compression, or nothing they offload shrinks.
UniformOffload ==
  \A c, d \in Clients, v, w \in Values :
    Oversized(Encode(c, v)) /\ Oversized(Encode(d, w))
      => Encode(c, v).gz = Encode(d, w).gz

\* In a deployment whose objects are encoded alike (UniformOffload), a read that
\* returns without an error returns bytes a caller wrote, never their gzip form,
\* and bytes that a replica held for the key during the read or that a write was
\* storing then; it returns null only if some replica held nothing the reader
\* may see.  Whatever the interleaving of the two calls of a read with the calls
\* of writes and deletes, retried, failed and late calls included.
ReadLegal ==
  \A c \in Clients :
    (pc[c] = "idle" /\ req[c].op = "read" /\ result[c].status = "ok")
    => IF result[c].data = None THEN None \in seen[c]
       ELSE ~result[c].data.gz /\ result[c].data.val \in seen[c]

\* A read that nothing disturbs does not end in an error: no write or delete of
\* the key and no fault of any client while it runs, the replicas of its key up
\* to date, and an item that tells how its object is encoded.  What else earlier
\* writes and deletes left behind, crashed and retried ones included, is
\* readable: callers that mutate a key one at a time need nothing more.
UndisturbedReadSucceeds ==
  \A c \in Buckets :
    (pc[c] = "idle" /\ req[c].op = "read" /\ quiet[c]) => result[c].status # "error"

-----------------------------------------------------------------------------
(* Callers that mutate a key one at a time get the contract of KVStore.    *)

StoreView(k, i) ==
  IF i = None THEN None ELSE [val |-> ValueOf(k, i), lapsed |-> HasPassed(i.exp)]

\* A write or a delete that has reached its clean-up call is done.
CallView(c) ==
  IF pc[c] = "idle" THEN None
  ELSE [op   |-> req[c].op,
        key  |-> req[c].key,
        val  |-> IF req[c].op = "write" THEN req[c].data.val ELSE None,
        done |-> pc[c] \in {"s3Reclaim", "s3Delete"}]

\* Gzipped bytes are no value of any caller.
AnswerView(c) ==
  LET d == result[c].data
  IN  [status |-> result[c].status,
       val    |-> IF d = None THEN None ELSE IF d.gz THEN d ELSE d.val]

\* Absence is no stored value and no pending call.
ASSUME ViewAssumption ==
  /\ None \notin [val : Values \cup {None}, lapsed : BOOLEAN]
  /\ None \notin [op : {"write", "read", "delete"}, key : Keys, val : Values \cup {None},
                  done : BOOLEAN]

Contract == INSTANCE KVStore WITH
  store     <- [k \in Keys |-> StoreView(k, item[k])],
  old       <- [k \in Keys |-> {StoreView(k, i) : i \in past[k]}],
  call      <- [c \in Clients |-> CallView(c)],
  answer    <- [c \in Clients |-> AnswerView(c)],
  seen      <- seen,
  Filtering <- {c \in Clients : TtlEnabled(c)}

\* The table and the bucket together implement the contract: a mutation is
\* acknowledged only once it has taken effect and none takes effect after it
\* returned, although it is made of two or three calls that can fail alone.
\* This is so in a deployment whose objects are encoded alike (UniformOffload),
\* whose callers mutate a key one at a time and leave no call on its way.
ImplementsContract == Contract!KVSpec
=============================================================================
