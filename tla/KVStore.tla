------------------------------ MODULE KVStore ------------------------------
(***************************************************************************)
(* What the byte contract of the storage promises its callers, with no     *)
(* table, bucket or pointer in sight: write, read and delete on a store    *)
(* that keeps at most one value per key.                                   *)
(*                                                                         *)
(* The callers this promise is made to mutate a key one at a time; reads   *)
(* run beside them.  A mutation may take effect at any moment while it is  *)
(* pending, more than once if it is retried.  One that is acknowledged has *)
(* taken effect; one that failed may have, but never does so afterwards.   *)
(* A read returns a value the store held at some moment of the read, or    *)
(* one that a pending write was storing: a regular register, but for the   *)
(* replicas of the store.  Those that lag serve older versions too, until  *)
(* they catch up.  A version need not hold its bytes itself: a mutation of *)
(* its key may give it new ones or take them away.  A value may lapse, and *)
(* a lapsed value may vanish.                                              *)
(***************************************************************************)
CONSTANTS Clients, Keys, Values, None,
          Filtering  \* clients that do not see a lapsed value

VARIABLES
  store,   \* store[k]: None, or the value at k and whether it has lapsed
  old,     \* old[k]: older versions that a lagging replica may still serve
  call,    \* call[c]: the operation c has pending, or None
  seen,    \* seen[c]: what the last read of c may return
  answer   \* answer[c]: what the last operation of c returned

\* What a read by c of the version s returns: nothing, its value, or no answer
\* if its bytes are gone.
Sees(c, s) ==
  IF s = None \/ (s.lapsed /\ c \in Filtering) THEN {None} ELSE {s.val} \ {None}

Pending(op, k) == {c \in Clients : call[c] # None /\ call[c].op = op /\ call[c].key = k}

Reading(c) == call[c] # None /\ call[c].op = "read"
Mutating(c) == call[c] # None /\ call[c].op # "read"

\* What a read that c has pending could return if it ended now.
Readable(c) ==
  IF Reading(c)
  THEN (UNION {Sees(c, s) : s \in {store[call[c].key]} \cup old[call[c].key]})
         \cup {call[d].val : d \in Pending("write", call[c].key)}
  ELSE {}

\* Whatever happens, a pending read collects what it may return.
Watch ==
  seen' = [c \in Clients |->
             IF Reading(c) THEN seen[c] \cup Readable(c)'
             ELSE IF Reading(c)' THEN Readable(c)'
             ELSE seen[c]]

Answer(status, v) == [status |-> status, val |-> v]

-----------------------------------------------------------------------------
KVInit ==
  /\ store = [k \in Keys |-> None]
  /\ old = [k \in Keys |-> {}]
  /\ call = [c \in Clients |-> None]
  /\ seen = [c \in Clients |-> {}]
  /\ answer = [c \in Clients |-> Answer("none", None)]

Invoke(c) ==
  /\ call[c] = None
  /\ \E op \in {"write", "read", "delete"}, k \in Keys :
       /\ op # "read" => Pending("write", k) \cup Pending("delete", k) = {}
       /\ \E v \in IF op = "write" THEN Values ELSE {None} :
            call' = [call EXCEPT ![c] =
                       [op |-> op, key |-> k, val |-> v, done |-> FALSE]]
  /\ answer' = [answer EXCEPT ![c] = Answer("none", None)]
  /\ UNCHANGED <<store, old>>

\* A call refused for its arguments changes nothing.
Refuse(c) ==
  /\ call[c] = None
  /\ answer' = [answer EXCEPT ![c] = Answer("error", None)]
  /\ UNCHANGED <<store, old, call>>

\* What a mutation leaves at its key.  A value may be stored lapsed: its
\* expiry is stamped before it is stored.
Outcome(p) ==
  IF p.op = "delete" THEN {None} ELSE [val : {p.val}, lapsed : BOOLEAN]

Effect(p) == \E s \in Outcome(p) : store' = [store EXCEPT ![p.key] = s]

\* The replicas of k may be left with versions among V, and no other.
Behind(k, V) ==
  /\ old'[k] \subseteq V
  /\ old' = [old EXCEPT ![k] = old'[k]]

\* The older versions of k, if they have their bytes where v is now.
WithBytes(k, v) == {[s EXCEPT !.val = v] : s \in old[k] \ {None}}

\* A mutation leaves its replicas with what they had and with what it replaces;
\* what they had may have its bytes by now, or none.
Lags(p) ==
  Behind(p.key, old[p.key] \cup {store[p.key]}
                  \cup WithBytes(p.key, p.val) \cup WithBytes(p.key, None))

\* The effect may come before the mutation is done with it, and come again.
TakesEffect(c) ==
  /\ Mutating(c)
  /\ Effect(call[c])
  /\ Lags(call[c])
  /\ \E done \in BOOLEAN : call' = [call EXCEPT ![c].done = done]
  /\ UNCHANGED answer

\* Bytes that it brings or removes may matter to older versions only.
ReachesReplicas(c) ==
  /\ Mutating(c)
  /\ Lags(call[c])
  /\ UNCHANGED <<store, call, answer>>

Return(c, ans) ==
  /\ call' = [call EXCEPT ![c] = None]
  /\ answer' = [answer EXCEPT ![c] = ans]

Acknowledge(c) ==
  /\ Mutating(c)
  /\ Effect(call[c]) \/ (call[c].done /\ UNCHANGED store)
  /\ Lags(call[c])
  /\ Return(c, Answer("ok", None))

ReadReturns(c) ==
  /\ Reading(c)
  /\ \E v \in seen[c] : Return(c, Answer("ok", v))
  /\ UNCHANGED <<store, old>>

Fails(c) ==
  /\ call[c] # None
  /\ \E how \in {"error", "gone"} : Return(c, Answer(how, None))
  /\ UNCHANGED <<store, old>>

Lapsed(s) == IF s = None THEN None ELSE [s EXCEPT !.lapsed = TRUE]

\* Time passes, for any number of keys and versions at once.
Lapse ==
  /\ \E K \in SUBSET Keys :
       store' = [k \in Keys |-> IF k \in K THEN Lapsed(store[k]) ELSE store[k]]
  /\ old' = [k \in Keys |-> old'[k]]
  /\ \A k \in Keys : old'[k] \subseteq old[k] \cup {Lapsed(s) : s \in old[k]}
  /\ UNCHANGED <<call, answer>>

Vanish(k) ==
  /\ store[k] # None /\ store[k].lapsed
  /\ store' = [store EXCEPT ![k] = None]
  /\ Behind(k, old[k] \cup {store[k]})
  /\ UNCHANGED <<call, answer>>

CatchUp(k) ==
  /\ Behind(k, {})
  /\ UNCHANGED <<store, call, answer>>

Step ==
  \/ \E c \in Clients :
       \/ Invoke(c) \/ Refuse(c)
       \/ TakesEffect(c) \/ ReachesReplicas(c) \/ Acknowledge(c)
       \/ ReadReturns(c) \/ Fails(c)
  \/ Lapse
  \/ \E k \in Keys : Vanish(k) \/ CatchUp(k)

KVNext == Step /\ Watch

KVSpec == KVInit /\ [][KVNext]_<<store, old, call, seen, answer>>
=============================================================================
