-------------------------- MODULE Selection_proofs --------------------------
(***************************************************************************)
(* What the elements of a sequence that are in a set are: nothing of the   *)
(* empty sequence, and one more or none when an element is appended.       *)
(* Everything else follows by induction on the length, which is done here  *)
(* by looking at a shortest counterexample.                                *)
(***************************************************************************)
EXTENDS Selection, SequenceTheorems, WellFoundedInduction, TLAPS

\* The natural numbers are well-founded: a set of them has a least one.
LEMMA LeastNatural ==
  ASSUME NEW S \in SUBSET Nat, S # {}
  PROVE  \E n \in S : \A m \in S : n <= m
<1> DEFINE R == OpToRel(<, Nat)
<1>1. IsWellFoundedOn(R, Nat)
  BY NatLessThanWellFounded
<1>2. \A m, n \in Nat : <<m, n>> \in R <=> m < n
  BY DEF OpToRel
<1> HIDE DEF R
<1>3. PICK n \in S : \A m \in S : ~ (<<m, n>> \in R)
  BY <1>1, WFMin
<1>4. \A m \in S : ~ (m < n)
  BY <1>2, <1>3
<1> QED
  BY <1>4

\* A set of numbers that has 0, and n + 1 with every n below a bound, has all
\* numbers up to that bound.
LEMMA UpTo ==
  ASSUME NEW bound \in Nat, NEW P, 0 \in P,
         \A n \in 0..bound : n # bound /\ n \in P => n + 1 \in P
  PROVE  0..bound \subseteq P
<1> SUFFICES ASSUME (0..bound) \ P # {} PROVE FALSE
  OBVIOUS
<1>1. PICK n \in (0..bound) \ P : \A m \in (0..bound) \ P : n <= m
  <2>1. (0..bound) \ P \in SUBSET Nat
    OBVIOUS
  <2> QED
    BY <2>1, LeastNatural
<1>2. n # 0 /\ n \in 0..bound /\ n \notin P
  OBVIOUS
<1>3. n - 1 \in 0..bound /\ n - 1 # bound /\ (n - 1) + 1 = n
  BY <1>2
<1>4. n - 1 \in P
  BY <1>1, <1>2, <1>3
<1> QED
  BY <1>2, <1>3, <1>4

-----------------------------------------------------------------------------
(* The table of what is kept of the first n elements.                      *)

Step(g, s, S, n) == IF s[n] \in S THEN Append(g[n - 1], s[n]) ELSE g[n - 1]

IsTable(g, s, S, bound) ==
  /\ g \in [0..bound -> Seq(S)]
  /\ g[0] = <<>>
  /\ \A n \in 1..bound : g[n] = Step(g, s, S, n)

\* A table goes on for one more element.
LEMMA TableGrows ==
  ASSUME NEW T, NEW s \in Seq(T), NEW S, NEW n \in Nat, n < Len(s),
         NEW g, IsTable(g, s, S, n)
  PROVE  IsTable([i \in 0..(n + 1) |-> IF i <= n THEN g[i] ELSE Step(g, s, S, n + 1)],
                 s, S, n + 1)
<1> DEFINE h == [i \in 0..(n + 1) |-> IF i <= n THEN g[i] ELSE Step(g, s, S, n + 1)]
<1>1. g \in [0..n -> Seq(S)] /\ g[0] = <<>> /\ \A i \in 1..n : g[i] = Step(g, s, S, i)
  BY DEF IsTable
<1>2. Step(g, s, S, n + 1) \in Seq(S)
  <2>1. g[n] \in Seq(S) /\ (n + 1) - 1 = n
    BY <1>1
  <2> QED
    BY <2>1 DEF Step
<1>3. h \in [0..(n + 1) -> Seq(S)] /\ h[0] = <<>>
  BY <1>1, <1>2
<1>4. ASSUME NEW i \in 1..(n + 1)
      PROVE  h[i] = Step(h, s, S, i)
  <2>1. i - 1 \in 0..n /\ h[i - 1] = g[i - 1]
    OBVIOUS
  <2>2. Step(h, s, S, i) = Step(g, s, S, i)
    BY <2>1 DEF Step
  <2>3. CASE i <= n
    BY <1>1, <2>2, <2>3
  <2>4. CASE i = n + 1
    BY <2>2, <2>4
  <2> QED
    BY <2>3, <2>4
<1> QED
  BY <1>3, <1>4 DEF IsTable

\* There is a table of a whole sequence.
LEMMA TableExists ==
  ASSUME NEW T, NEW s \in Seq(T), NEW S
  PROVE  \E g : IsTable(g, s, S, Len(s))
<1> DEFINE P == {n \in Nat : n <= Len(s) => \E g : IsTable(g, s, S, n)}
<1>0. Len(s) \in Nat
  OBVIOUS
<1>1. 0 \in P
  <2>1. IsTable([i \in 0..0 |-> <<>>], s, S, 0)
    BY DEF IsTable
  <2> QED
    BY <2>1
<1>2. ASSUME NEW n \in 0..Len(s), n # Len(s), n \in P
      PROVE  n + 1 \in P
  <2>1. PICK g : IsTable(g, s, S, n)
    BY <1>0, <1>2
  <2>2. n < Len(s) /\ n \in Nat
    BY <1>0, <1>2
  <2>3. \E h : IsTable(h, s, S, n + 1)
    <3> HIDE DEF P
    <3> QED
      BY <2>1, <2>2, TableGrows
  <2> QED
    BY <2>2, <2>3
<1>3. 0..Len(s) \subseteq P
  <2> HIDE DEF P
  <2> QED
    BY <1>0, <1>1, <1>2, UpTo
<1> QED
  BY <1>0, <1>3

\* Its last entry is what is kept.
LEMMA TableTells ==
  ASSUME NEW T, NEW s \in Seq(T), NEW S, NEW g, IsTable(g, s, S, Len(s))
  PROVE  Kept(s, S) = g[Len(s)]
<1> DEFINE F(f) == [n \in 0..Len(s) |->
                      IF n = 0 THEN <<>>
                      ELSE IF s[n] \in S THEN Append(f[n - 1], s[n]) ELSE f[n - 1]]
           kept == CHOOSE f : f = F(f)
<1>0. Len(s) \in Nat
  OBVIOUS
<1>1. g = F(g)
  <2>1. g = [n \in 0..Len(s) |-> g[n]]
    BY DEF IsTable
  <2>2. ASSUME NEW n \in 0..Len(s)
        PROVE  g[n] = F(g)[n]
    <3>1. F(g)[n] = IF n = 0 THEN <<>>
                    ELSE IF s[n] \in S THEN Append(g[n - 1], s[n]) ELSE g[n - 1]
      OBVIOUS
    <3>2. CASE n = 0
      BY <3>1, <3>2 DEF IsTable
    <3>3. CASE n \in 1..Len(s)
      <4>1. n # 0 /\ g[n] = Step(g, s, S, n)
        BY <1>0, <3>3 DEF IsTable
      <4> HIDE DEF F
      <4> QED
        BY <3>1, <4>1 DEF Step
    <3> QED
      BY <1>0, <3>2, <3>3
  <2>3. F(g) = [n \in 0..Len(s) |-> F(g)[n]]
    OBVIOUS
  <2> HIDE DEF F
  <2> QED
    BY <2>1, <2>2, <2>3
<1>2. kept = F(kept)
  BY <1>1
<1>3. Kept(s, S) = kept[Len(s)]
  BY DEF Kept
<1> HIDE DEF kept
<1>4. 0..Len(s) \subseteq {n \in Nat : n <= Len(s) => kept[n] = g[n]}
  <2> DEFINE P == {n \in Nat : n <= Len(s) => kept[n] = g[n]}
  <2>1. 0 \in P
    BY <1>0, <1>1, <1>2
  <2>2. ASSUME NEW n \in 0..Len(s), n # Len(s), n \in P
        PROVE  n + 1 \in P
    <3>1. kept[n] = g[n] /\ n + 1 \in 0..Len(s) /\ (n + 1) - 1 = n /\ n + 1 # 0
      BY <1>0, <2>2
    <3>2. kept[n + 1] = IF s[n + 1] \in S THEN Append(kept[n], s[n + 1]) ELSE kept[n]
      BY <1>2, <3>1
    <3>3. g[n + 1] = IF s[n + 1] \in S THEN Append(g[n], s[n + 1]) ELSE g[n]
      BY <1>1, <3>1
    <3> QED
      BY <3>1, <3>2, <3>3
  <2> HIDE DEF P
  <2>3. 0..Len(s) \subseteq P
    BY <1>0, <2>1, <2>2, UpTo
  <2> QED
    BY <2>3 DEF P
<1> QED
  BY <1>0, <1>3, <1>4

-----------------------------------------------------------------------------
(* What is kept.                                                           *)

\* Nothing is kept of the empty sequence.
LEMMA KeptEmpty ==
  ASSUME NEW S
  PROVE  Kept(<<>>, S) = <<>>
<1>1. <<>> \in Seq({}) /\ Len(<<>>) = 0
  OBVIOUS
<1>2. PICK g : IsTable(g, <<>>, S, 0)
  BY <1>1, TableExists
<1> QED
  BY <1>1, <1>2, TableTells DEF IsTable

\* An element that is appended is kept if it is in the set.
LEMMA KeptAppend ==
  ASSUME NEW T, NEW s \in Seq(T), NEW e \in T, NEW S
  PROVE  Kept(Append(s, e), S) = IF e \in S THEN Append(Kept(s, S), e) ELSE Kept(s, S)
<1> DEFINE t == Append(s, e)
           n == Len(s)
<1>1. /\ t \in Seq(T) /\ Len(t) = n + 1 /\ n \in Nat /\ t[n + 1] = e
      /\ \A i \in 1..n : t[i] = s[i]
  OBVIOUS
<1> HIDE DEF t
<1>2. PICK g : IsTable(g, t, S, n + 1)
  BY <1>1, TableExists
<1> DEFINE h == [i \in 0..n |-> g[i]]
<1>3. IsTable(h, s, S, n)
  <2>1. h \in [0..n -> Seq(S)] /\ h[0] = <<>>
    BY <1>1, <1>2 DEF IsTable
  <2>2. ASSUME NEW i \in 1..n
        PROVE  h[i] = Step(h, s, S, i)
    BY <1>1, <1>2, <2>2 DEF IsTable, Step
  <2> QED
    BY <2>1, <2>2 DEF IsTable
<1>4. Kept(s, S) = g[n]
  BY <1>1, <1>3, TableTells
<1>5. Kept(t, S) = g[n + 1]
  BY <1>1, <1>2, TableTells
<1>6. g[n + 1] = IF e \in S THEN Append(g[n], e) ELSE g[n]
  BY <1>1, <1>2 DEF IsTable, Step
<1> QED
  BY <1>4, <1>5, <1>6 DEF t

\* A set that has the empty sequence, and with a sequence every longer one by an
\* element, has all sequences.
LEMMA AllSequences ==
  ASSUME NEW T, NEW P, <<>> \in P,
         \A s \in Seq(T), e \in T : s \in P => Append(s, e) \in P
  PROVE  Seq(T) \subseteq P
<1> SUFFICES ASSUME NEW seq \in Seq(T) PROVE seq \in P
  OBVIOUS
<1> DEFINE Q == {n \in Nat : \A s \in Seq(T) : Len(s) = n => s \in P}
<1>1. 0 \in Q
  OBVIOUS
<1>2. ASSUME NEW n \in 0..Len(seq), n # Len(seq), n \in Q
      PROVE  n + 1 \in Q
  <2> SUFFICES ASSUME NEW s \in Seq(T), Len(s) = n + 1 PROVE s \in P
    OBVIOUS
  <2>1. s # <<>>
    OBVIOUS
  <2>2. PICK t \in Seq(T), e \in T : s = Append(t, e)
    BY <2>1, SequenceEmptyOrAppend
  <2>3. Len(t) = n
    BY <2>2
  <2> QED
    BY <1>2, <2>2, <2>3
<1>3. Len(seq) \in Nat
  OBVIOUS
<1>4. 0..Len(seq) \subseteq Q
  <2> HIDE DEF Q
  <2> QED
    BY <1>1, <1>2, <1>3, UpTo
<1>5. Len(seq) \in Q
  BY <1>3, <1>4
<1> QED
  BY <1>5

\* What is kept is a selection of places of the sequence, in order.
LEMMA KeptPlaces ==
  ASSUME NEW T, NEW s \in Seq(T), NEW S
  PROVE  /\ Kept(s, S) \in Seq(S \cap T)
         /\ \E f \in [1..Len(Kept(s, S)) -> 1..Len(s)] :
              /\ \A i \in 1..Len(Kept(s, S)) : Kept(s, S)[i] = s[f[i]]
              /\ \A i, j \in 1..Len(Kept(s, S)) : i < j => f[i] < f[j]
<1> DEFINE Places(t, f) ==
             /\ f \in [1..Len(Kept(t, S)) -> 1..Len(t)]
             /\ \A i \in 1..Len(Kept(t, S)) : Kept(t, S)[i] = t[f[i]]
             /\ \A i, j \in 1..Len(Kept(t, S)) : i < j => f[i] < f[j]
           P == {t \in Seq(T) : Kept(t, S) \in Seq(S \cap T) /\ \E f : Places(t, f)}
<1>1. <<>> \in P
  <2>1. Kept(<<>>, S) = <<>>
    BY KeptEmpty
  <2>2. Places(<<>>, [i \in 1..0 |-> i])
    BY <2>1
  <2>3. \E f : Places(<<>>, f)
    <3> HIDE DEF Places
    <3> QED
      BY <2>2
  <2>4. <<>> \in Seq(T) /\ Kept(<<>>, S) \in Seq(S \cap T)
    BY <2>1, EmptySeq
  <2> HIDE DEF Places
  <2> QED
    BY <2>3, <2>4
<1>2. ASSUME NEW t \in Seq(T), NEW e \in T, t \in P
      PROVE  Append(t, e) \in P
  <2> DEFINE u == Append(t, e)
             k == Kept(t, S)
             n == Len(t)
  <2>1. k \in Seq(S \cap T) /\ Len(k) \in Nat /\ n \in Nat
    BY <1>2
  <2>2. PICK f : Places(t, f)
    BY <1>2
  <2>6. ASSUME NEW i \in 1..Len(k)
        PROVE  f[i] \in 1..n /\ k[i] = t[f[i]] /\ i <= Len(k)
    <3>1. f \in [1..Len(k) -> 1..n] /\ \A j \in 1..Len(k) : k[j] = t[f[j]]
      BY <2>2, Zenon
    <3> HIDE DEF k, n
    <3> QED
      BY <3>1
  <2>3. /\ u \in Seq(T) /\ Len(u) = n + 1 /\ u[n + 1] = e
        /\ \A i \in 1..n : u[i] = t[i]
    BY <2>1
  <2> HIDE DEF u
  <2>4. CASE e \in S
    <3>1. Kept(u, S) = Append(k, e)
      BY <2>4, KeptAppend DEF u
    <3>2. /\ Append(k, e) \in Seq(S \cap T) /\ Len(Append(k, e)) = Len(k) + 1
          /\ Append(k, e)[Len(k) + 1] = e
          /\ \A i \in 1..Len(k) : Append(k, e)[i] = k[i]
      BY <2>1, <2>4
    <3> DEFINE g == [i \in 1..(Len(k) + 1) |-> IF i <= Len(k) THEN f[i] ELSE n + 1]
    <3>3. g \in [1..(Len(k) + 1) -> 1..(n + 1)]
      BY <2>1, <2>2
    <3>4. ASSUME NEW i \in 1..(Len(k) + 1)
          PROVE  Append(k, e)[i] = u[g[i]]
      <4>1. CASE i <= Len(k)
        <5>1. i \in 1..Len(k) /\ g[i] = f[i]
          BY <2>1, <4>1
        <5>2. f[i] \in 1..n /\ k[i] = t[f[i]]
          BY <2>6, <5>1
        <5> QED
          BY <2>3, <3>2, <5>1, <5>2
      <4>2. CASE i = Len(k) + 1
        <5>1. g[i] = n + 1
          BY <2>1, <4>2
        <5> QED
          BY <2>3, <3>2, <4>2, <5>1
      <4> QED
        BY <2>1, <4>1, <4>2
    <3>5. ASSUME NEW i \in 1..(Len(k) + 1), NEW j \in 1..(Len(k) + 1), i < j
          PROVE  g[i] < g[j]
      <4>1. i \in 1..Len(k) /\ g[i] = f[i]
        BY <2>1, <3>5
      <4>2. f[i] \in 1..n
        BY <2>6, <4>1
      <4> QED
        BY <2>1, <2>2, <3>5, <4>1, <4>2
    <3> HIDE DEF g
    <3>6. Places(u, g)
      BY <2>3, <3>1, <3>2, <3>3, <3>4, <3>5
    <3> QED
      BY <2>3, <3>1, <3>2, <3>6 DEF u
  <2>5. CASE e \notin S
    <3>1. Kept(u, S) = k
      BY <2>5, KeptAppend DEF u
    <3>2. Places(u, f)
      <4>1. ASSUME NEW i \in 1..Len(k)
            PROVE  f[i] \in 1..(n + 1) /\ k[i] = u[f[i]]
        <5>1. f[i] \in 1..n /\ k[i] = t[f[i]]
          BY <2>2
        <5> QED
          BY <2>1, <2>3, <5>1
      <4>2. f \in [1..Len(k) -> 1..(n + 1)]
        BY <2>2, <4>1
      <4> QED
        BY <2>2, <2>3, <3>1, <4>1, <4>2
    <3> QED
      BY <2>1, <2>3, <3>1, <3>2 DEF u
  <2> QED
    BY <2>4, <2>5
<1>3. Seq(T) \subseteq P
  <2> HIDE DEF P
  <2> QED
    BY <1>1, <1>2, AllSequences
<1> QED
  BY <1>3

\* It is no longer than the sequence, and each of its elements is one of the
\* sequence's.
LEMMA KeptElements ==
  ASSUME NEW T, NEW s \in Seq(T), NEW S
  PROVE  /\ Kept(s, S) \in Seq(S \cap T) /\ Kept(s, S) \in Seq(T)
         /\ Len(Kept(s, S)) <= Len(s)
         /\ \A i \in 1..Len(Kept(s, S)) :
              Kept(s, S)[i] \in S /\ \E j \in 1..Len(s) : Kept(s, S)[i] = s[j]
<1> DEFINE k == Kept(s, S)
<1>1. PICK f \in [1..Len(k) -> 1..Len(s)] :
              /\ \A i \in 1..Len(k) : k[i] = s[f[i]]
              /\ \A i, j \in 1..Len(k) : i < j => f[i] < f[j]
  BY KeptPlaces
<1>2. k \in Seq(S \cap T) /\ Len(k) \in Nat /\ Len(s) \in Nat
  BY KeptPlaces
<1> HIDE DEF k
<1>3. k \in Seq(T)
  BY <1>2, SeqMonotonic
<1>4. \A i \in 1..Len(k) : k[i] \in S /\ \E j \in 1..Len(s) : k[i] = s[j]
  BY <1>1, <1>2, ElementOfSeq
<1>5. Len(k) <= Len(s)
  <2> DEFINE P == {n \in Nat : n \in 1..Len(k) => n <= f[n]}
  <2>1. 0 \in P
    OBVIOUS
  <2>2. ASSUME NEW n \in 0..Len(k), n # Len(k), n \in P
        PROVE  n + 1 \in P
    <3>1. n + 1 \in 1..Len(k) /\ f[n + 1] \in 1..Len(s)
      <4>1. n + 1 \in 1..Len(k)
        BY <1>2, <2>2
      <4> QED
        BY <1>1, <4>1
    <3>2. CASE n = 0
      BY <3>1, <3>2
    <3>3. CASE n # 0
      <4>1. n \in 1..Len(k) /\ n <= f[n] /\ f[n] \in Nat /\ n < n + 1
        BY <1>1, <1>2, <2>2, <3>3
      <4>2. f[n] < f[n + 1]
        BY <1>1, <3>1, <4>1
      <4> QED
        BY <1>2, <3>1, <4>1, <4>2
    <3> QED
      BY <3>2, <3>3
  <2>3. 0..Len(k) \subseteq P
    <3> HIDE DEF P
    <3> QED
      BY <1>2, <2>1, <2>2, UpTo
  <2>4. CASE Len(k) = 0
    BY <1>2, <2>4
  <2>5. CASE Len(k) # 0
    <3>1. Len(k) \in 1..Len(k) /\ Len(k) <= f[Len(k)]
      BY <1>2, <2>3, <2>5
    <3>2. f[Len(k)] \in 1..Len(s)
      BY <1>1, <3>1
    <3> QED
      BY <1>2, <3>1, <3>2
  <2> QED
    BY <2>4, <2>5
<1> QED
  BY <1>2, <1>3, <1>4, <1>5 DEF k

\* Every element of the sequence that is in the set is kept.
LEMMA KeptAllOfSet ==
  ASSUME NEW T, NEW s \in Seq(T), NEW S
  PROVE  \A j \in 1..Len(s) : s[j] \in S => \E i \in 1..Len(Kept(s, S)) : Kept(s, S)[i] = s[j]
<1> DEFINE All(t) == \A j \in 1..Len(t) : t[j] \in S =>
                       \E i \in 1..Len(Kept(t, S)) : Kept(t, S)[i] = t[j]
           P == {t \in Seq(T) : All(t)}
<1>1. <<>> \in P
  BY EmptySeq
<1>2. ASSUME NEW t \in Seq(T), NEW e \in T, t \in P
      PROVE  Append(t, e) \in P
  <2> DEFINE u == Append(t, e)
             k == Kept(t, S)
  <2>0. k \in Seq(T)
    BY KeptElements
  <2>1. k \in Seq(T) /\ Len(k) \in Nat /\ Len(t) \in Nat /\ All(t)
    BY <1>2, <2>0
  <2>2. /\ u \in Seq(T) /\ Len(u) = Len(t) + 1 /\ u[Len(t) + 1] = e
        /\ \A i \in 1..Len(t) : u[i] = t[i]
    BY <2>1
  <2>3. Kept(u, S) = IF e \in S THEN Append(k, e) ELSE k
    BY KeptAppend
  <2>4. /\ Len(Append(k, e)) = Len(k) + 1 /\ Append(k, e)[Len(k) + 1] = e
        /\ \A i \in 1..Len(k) : Append(k, e)[i] = k[i]
    BY <2>1
  <2> HIDE DEF u
  <2>5. ASSUME NEW j \in 1..Len(u), u[j] \in S
        PROVE  \E i \in 1..Len(Kept(u, S)) : Kept(u, S)[i] = u[j]
    <3>1. CASE j = Len(t) + 1
      <4>1. Kept(u, S) = Append(k, e)
        BY <2>2, <2>3, <2>5, <3>1
      <4>2. Len(k) + 1 \in 1..Len(Kept(u, S))
        BY <2>1, <2>4, <4>1
      <4> QED
        BY <2>2, <2>4, <3>1, <4>1, <4>2
    <3>2. CASE j \in 1..Len(t)
      <4>1. PICK i \in 1..Len(k) : k[i] = u[j]
        BY <2>1, <2>2, <2>5, <3>2
      <4>2. i \in 1..Len(Kept(u, S)) /\ Kept(u, S)[i] = k[i]
        BY <2>1, <2>3, <2>4, <4>1
      <4> QED
        BY <4>1, <4>2
    <3> QED
      BY <2>1, <2>2, <3>1, <3>2
  <2> QED
    BY <2>2, <2>5 DEF u
<1>3. Seq(T) \subseteq P
  <2> HIDE DEF P
  <2> QED
    BY <1>1, <1>2, AllSequences
<1> QED
  BY <1>3

\* A sequence of elements of the set is kept as it is.
LEMMA KeptWhole ==
  ASSUME NEW T, NEW s \in Seq(T), NEW S, T \subseteq S
  PROVE  Kept(s, S) = s
<1> DEFINE P == {t \in Seq(T) : Kept(t, S) = t}
<1>1. <<>> \in P
  BY EmptySeq, KeptEmpty
<1>2. ASSUME NEW t \in Seq(T), NEW e \in T, t \in P
      PROVE  Append(t, e) \in P
  BY <1>2, KeptAppend, AppendProperties
<1>3. Seq(T) \subseteq P
  <2> HIDE DEF P
  <2> QED
    BY <1>1, <1>2, AllSequences
<1> QED
  BY <1>3

\* What is kept of two sequences is kept of each.
LEMMA KeptConcat ==
  ASSUME NEW T, NEW s \in Seq(T), NEW t \in Seq(T), NEW S
  PROVE  Kept(s \o t, S) = Kept(s, S) \o Kept(t, S)
<1> DEFINE P == {u \in Seq(T) : Kept(s \o u, S) = Kept(s, S) \o Kept(u, S)}
<1>0. Kept(s, S) \in Seq(T)
  BY KeptElements
<1>1. <<>> \in P
  <2>1. s \o <<>> = s /\ Kept(s, S) \o <<>> = Kept(s, S)
    BY <1>0, ConcatEmptySeq
  <2> QED
    BY <2>1, EmptySeq, KeptEmpty
<1>2. ASSUME NEW u \in Seq(T), NEW e \in T, u \in P
      PROVE  Append(u, e) \in P
  <2>1. /\ Append(u, e) \in Seq(T) /\ s \o u \in Seq(T)
        /\ s \o Append(u, e) = Append(s \o u, e)
    <3>1. <<e>> \in Seq(T)
      OBVIOUS
    <3>2. s \o u \in Seq(T) /\ Append(u, e) \in Seq(T)
      BY ConcatProperties, AppendProperties
    <3> QED
      BY <3>1, <3>2, AppendIsConcat, ConcatAssociative
  <2>2. Kept(s \o Append(u, e), S)
          = IF e \in S THEN Append(Kept(s \o u, S), e) ELSE Kept(s \o u, S)
    <3> DEFINE v == s \o u
    <3>1. v \in Seq(T) /\ s \o Append(u, e) = Append(v, e)
      BY <2>1
    <3> HIDE DEF v
    <3>2. Kept(Append(v, e), S) = IF e \in S THEN Append(Kept(v, S), e) ELSE Kept(v, S)
      BY <3>1, KeptAppend
    <3>3. Kept(s \o Append(u, e), S) = IF e \in S THEN Append(Kept(v, S), e) ELSE Kept(v, S)
      BY <3>1, <3>2
    <3> QED
      BY <3>3 DEF v
  <2>3. Kept(Append(u, e), S) = IF e \in S THEN Append(Kept(u, S), e) ELSE Kept(u, S)
    BY KeptAppend
  <2>4. Kept(s \o u, S) = Kept(s, S) \o Kept(u, S)
    BY <1>2
  <2>5. Append(Kept(s, S) \o Kept(u, S), e) = Kept(s, S) \o Append(Kept(u, S), e)
    <3>1. Kept(u, S) \in Seq(T)
      BY KeptElements
    <3>2. <<e>> \in Seq(T)
      OBVIOUS
    <3>3. Kept(s, S) \o Kept(u, S) \in Seq(T)
      BY <1>0, <3>1, ConcatProperties
    <3>4. /\ Append(Kept(s, S) \o Kept(u, S), e) = (Kept(s, S) \o Kept(u, S)) \o <<e>>
          /\ Append(Kept(u, S), e) = Kept(u, S) \o <<e>>
      BY <3>1, <3>3, AppendIsConcat
    <3>5. (Kept(s, S) \o Kept(u, S)) \o <<e>> = Kept(s, S) \o (Kept(u, S) \o <<e>>)
      <4> DEFINE a == Kept(s, S)
                 b == Kept(u, S)
                 c == <<e>>
      <4>1. a \in Seq(T) /\ b \in Seq(T) /\ c \in Seq(T)
        BY <1>0, <3>1, <3>2
      <4> HIDE DEF a, b, c
      <4> DEFINE x == (a \o b) \o c
                 y == a \o (b \o c)
      <4>2. a \o b \in Seq(T) /\ b \o c \in Seq(T)
        BY <4>1
      <4>3. x \in Seq(T) /\ y \in Seq(T)
        BY <4>1, <4>2
      <4>4. Len(x) = Len(a) + Len(b) + Len(c) /\ Len(y) = Len(x)
        BY <4>1, <4>2
      <4>5. ASSUME NEW i \in 1..Len(x)
            PROVE  x[i] = y[i]
        BY <4>1, <4>2, <4>4
      <4> HIDE DEF x, y
      <4>6. x = y
        BY <4>3, <4>4, <4>5, SeqEqual
      <4> QED
        BY <4>6 DEF a, b, c, x, y
    <3> QED
      BY <3>4, <3>5
  <2> QED
    BY <2>1, <2>2, <2>3, <2>4, <2>5
<1>3. Seq(T) \subseteq P
  <2> HIDE DEF P
  <2> QED
    BY <1>1, <1>2, AllSequences
<1> QED
  BY <1>3
=============================================================================
