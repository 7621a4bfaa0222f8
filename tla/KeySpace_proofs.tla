-------------------------- MODULE KeySpace_proofs --------------------------
(***************************************************************************)
(* Whatever names an application uses, however deep its keys and the       *)
(* prefixes of its views are: the table is a tree of paths, a view sees    *)
(* its own branch of it, by a listing, a prefix or a search, and the two   *)
(* packages make one tree.                                                 *)
(***************************************************************************)
EXTENDS KeySpace, Selection_proofs

\* The names of a path, and what may stand between the slashes of a string.
Path == Seq(Names)
String == Seq(Names \cup {NoName})

\* A caller may spell the sentinel.
AnyPath == Seq(Names \cup {Sentinel})
AnyString == Seq(Names \cup {NoName, Sentinel})

-----------------------------------------------------------------------------
\* Counting.
LEMMA TwoOrLess ==
  ASSUME NEW n \in Nat, n <= 2, ~ (n < 2)
  PROVE  n = 2
OBVIOUS

-----------------------------------------------------------------------------
(* Segments and prefixes.                                                  *)

\* The segments of a string are its names, and there are no more of them.
LEMMA SegmentsType ==
  /\ \A s \in AnyString : Segments(s) \in AnyPath /\ Len(Segments(s)) <= Len(s)
  /\ \A s \in String : Segments(s) \in Path
  /\ String \subseteq AnyString /\ Path \subseteq AnyPath /\ Path \subseteq String
  /\ AnyPath \subseteq AnyString
<1> DEFINE N == Names \cup {Sentinel}
<1>1. ASSUME NEW s \in AnyString
      PROVE  Segments(s) \in AnyPath /\ Len(Segments(s)) <= Len(s)
  <2>1. N \cap (Names \cup {NoName, Sentinel}) = N
    OBVIOUS
  <2> QED
    BY <2>1, KeptElements DEF Segments, AnyPath, AnyString
<1>2. ASSUME NEW s \in String
      PROVE  Segments(s) \in Path
  <2>1. N \cap (Names \cup {NoName}) = Names
    BY NameAssumption
  <2> QED
    BY <2>1, KeptElements DEF Segments, Path, String
<1>3. /\ String \subseteq AnyString /\ Path \subseteq AnyPath /\ Path \subseteq String
      /\ AnyPath \subseteq AnyString
  BY SeqMonotonic DEF String, AnyString, Path, AnyPath
<1> QED
  BY <1>1, <1>2, <1>3

\* The segments of a path are the path; so normalising twice is normalising once.
LEMMA SegmentsOfPath ==
  ASSUME NEW p \in AnyPath
  PROVE  Segments(p) = p
BY KeptWhole DEF Segments, AnyPath

\* Joining two strings at a slash joins their segments.
LEMMA SegmentsOfConcat ==
  ASSUME NEW s \in AnyString, NEW t \in AnyString
  PROVE  s \o t \in AnyString /\ Segments(s \o t) = Segments(s) \o Segments(t)
<1>1. s \o t \in AnyString
  BY ConcatProperties DEF AnyString
<1> QED
  BY <1>1, KeptConcat DEF Segments, AnyString

\* The prefix of a view is put before a string whether it is normalised or not.
LEMMA SegmentsUnder ==
  ASSUME NEW v \in String, v # <<>>, NEW s \in AnyString
  PROVE  /\ Under(v, s) \in AnyString
         /\ Len(Under(v, s)) = Len(v) - 1 + Len(s)
         /\ s \in String => Under(v, s) \in String
         /\ Segments(Under(v, s)) = Segments(SubSeq(v, 1, Len(v) - 1)) \o Segments(s)
         /\ Segments(Under(v, Segments(s))) = Segments(Under(v, s))
<1> DEFINE head == SubSeq(v, 1, Len(v) - 1)
<1>1. head \in String /\ Len(head) = Len(v) - 1
  <2>1. Len(v) \in Nat /\ Len(v) # 0
    BY EmptySeq DEF String
  <2>2. 0 <= Len(v) - 1 /\ Len(v) - 1 <= Len(v) /\ Len(v) - 1 \in Nat
    BY <2>1
  <2> QED
    <3>1. \A i \in 1..(Len(v) - 1) : v[i] \in Names \cup {NoName}
      BY <2>1, ElementOfSeq DEF String
    <3>2. /\ SubSeq(v, 1, Len(v) - 1) \in Seq(Names \cup {NoName})
          /\ Len(SubSeq(v, 1, Len(v) - 1)) = IF 1 <= Len(v) - 1 THEN (Len(v) - 1) - 1 + 1 ELSE 0
      BY <2>1, <2>2, <3>1, SubSeqProperties
    <3> DEFINE n == Len(v)
               m == Len(head)
    <3>3. m = n - 1
      <4>1. n \in Nat /\ n # 0 /\ m = IF 1 <= n - 1 THEN (n - 1) - 1 + 1 ELSE 0
        BY <2>1, <3>2
      <4> HIDE DEF n, m
      <4> QED
        BY <4>1
    <3> QED
      BY <3>2, <3>3 DEF String
<1> HIDE DEF head
<1>2. head \in AnyString /\ Segments(s) \in AnyPath /\ Segments(s) \in AnyString
  BY <1>1, SegmentsType
<1>3. Segments(Segments(s)) = Segments(s)
  BY <1>2, SegmentsOfPath
<1>4. Segments(head \o s) = Segments(head) \o Segments(s)
  BY <1>2, SegmentsOfConcat
<1>5. Segments(head \o Segments(s)) = Segments(head) \o Segments(Segments(s))
  BY <1>2, SegmentsOfConcat
<1>6. head \o s \in AnyString /\ Len(head \o s) = Len(v) - 1 + Len(s)
  BY <1>1, <1>2, ConcatProperties DEF AnyString
<1>7. s \in String => head \o s \in String
  BY <1>1, ConcatProperties DEF String
<1> QED
  BY <1>3, <1>4, <1>5, <1>6, <1>7 DEF Under, head

-----------------------------------------------------------------------------
(* Items.                                                                  *)

\* The sort key of a path.
Rest(s) == IF Len(s) <= 2 THEN <<Sentinel>> ELSE SubSeq(s, 3, Len(s))

\* What a partition and a sort key hold of a path.
LEMMA SplitParts ==
  ASSUME NEW N, NEW s \in Seq(N)
  PROVE  /\ Len(s) \in Nat
         /\ FirstTwo(s) \in Seq(N)
         /\ Len(FirstTwo(s)) = IF Len(s) < 2 THEN Len(s) ELSE 2
         /\ \A i \in 1..Len(s) : i <= 2 => FirstTwo(s)[i] = s[i]
         /\ Len(s) <= 2 => Rest(s) = <<Sentinel>>
         /\ Len(s) > 2 =>
              /\ Rest(s) \in Seq(N) /\ Len(Rest(s)) = Len(s) - 2
              /\ \A i \in 1..Len(s) : i > 2 => Rest(s)[i - 2] = s[i]
<1>1. Len(s) \in Nat
  OBVIOUS
<1>2. /\ FirstTwo(s) \in Seq(N)
      /\ Len(FirstTwo(s)) = IF Len(s) < 2 THEN Len(s) ELSE 2
      /\ \A i \in 1..Len(s) : i <= 2 => FirstTwo(s)[i] = s[i]
  BY DEF FirstTwo
<1>3. Len(s) <= 2 => Rest(s) = <<Sentinel>>
  BY DEF Rest
<1>4. ASSUME Len(s) > 2
      PROVE  /\ Rest(s) \in Seq(N) /\ Len(Rest(s)) = Len(s) - 2
             /\ \A i \in 1..Len(s) : i > 2 => Rest(s)[i - 2] = s[i]
  <2>1. Rest(s) = SubSeq(s, 3, Len(s))
    BY <1>1, <1>4 DEF Rest
  <2> QED
    BY <1>1, <1>4, <2>1
<1> QED
  BY <1>1, <1>2, <1>3, <1>4

\* Paths that agree in both parts are one path, unless one is long and the other
\* is short.
LEMMA PartsTell ==
  ASSUME NEW N, NEW p \in Seq(N), NEW q \in Seq(N),
         FirstTwo(p) = FirstTwo(q), Rest(p) = Rest(q), Len(p) <= 2 <=> Len(q) <= 2
  PROVE  p = q
<1>1. /\ Len(p) \in Nat
      /\ Len(FirstTwo(p)) = IF Len(p) < 2 THEN Len(p) ELSE 2
      /\ \A i \in 1..Len(p) : i <= 2 => FirstTwo(p)[i] = p[i]
      /\ Len(p) > 2 =>
           /\ Len(Rest(p)) = Len(p) - 2
           /\ \A i \in 1..Len(p) : i > 2 => Rest(p)[i - 2] = p[i]
  BY SplitParts
<1>2. /\ Len(q) \in Nat
      /\ Len(FirstTwo(q)) = IF Len(q) < 2 THEN Len(q) ELSE 2
      /\ \A i \in 1..Len(q) : i <= 2 => FirstTwo(q)[i] = q[i]
      /\ Len(q) > 2 =>
           /\ Len(Rest(q)) = Len(q) - 2
           /\ \A i \in 1..Len(q) : i > 2 => Rest(q)[i - 2] = q[i]
  BY SplitParts
<1>3. Len(p) = Len(q)
  BY <1>1, <1>2
<1>4. ASSUME NEW i \in 1..Len(p)
      PROVE  p[i] = q[i]
  BY <1>1, <1>2, <1>3
<1> QED
  BY <1>3, <1>4, SeqEqual

\* Two paths have one partition and sort key only if they are one path, or if
\* the second is the first, of two names, with the sentinel as a third.
LEMMA SplitTells ==
  ASSUME NEW p \in Path, NEW q \in AnyPath
  PROVE  FirstTwo(p) = FirstTwo(q) /\ Rest(p) = Rest(q)
           <=> p = q \/ (Len(p) = 2 /\ q = Append(p, Sentinel))
<1> DEFINE N == Names \cup {Sentinel}
<1>0. p \in Seq(N) /\ q \in Seq(N) /\ Sentinel \in N
  BY SegmentsType DEF Path, AnyPath
<1>1. \A i \in 1..Len(p) : p[i] # Sentinel
  BY NameAssumption, ElementOfSeq DEF Path
<1> HIDE DEF N
<1>2. /\ Len(p) \in Nat /\ FirstTwo(p) \in Seq(N)
      /\ Len(FirstTwo(p)) = IF Len(p) < 2 THEN Len(p) ELSE 2
      /\ \A i \in 1..Len(p) : i <= 2 => FirstTwo(p)[i] = p[i]
      /\ Len(p) <= 2 => Rest(p) = <<Sentinel>>
      /\ Len(p) > 2 => \A i \in 1..Len(p) : i > 2 => Rest(p)[i - 2] = p[i]
  BY <1>0, SplitParts
<1>3. /\ Len(q) \in Nat /\ FirstTwo(q) \in Seq(N)
      /\ Len(FirstTwo(q)) = IF Len(q) < 2 THEN Len(q) ELSE 2
      /\ \A i \in 1..Len(q) : i <= 2 => FirstTwo(q)[i] = q[i]
      /\ Len(q) <= 2 => Rest(q) = <<Sentinel>>
      /\ Len(q) > 2 =>
           /\ Rest(q) \in Seq(N) /\ Len(Rest(q)) = Len(q) - 2
           /\ \A i \in 1..Len(q) : i > 2 => Rest(q)[i - 2] = q[i]
  BY <1>0, SplitParts
<1>4. /\ Append(p, Sentinel) \in Seq(N) /\ Len(Append(p, Sentinel)) = Len(p) + 1
      /\ \A i \in 1..Len(p) : Append(p, Sentinel)[i] = p[i]
      /\ Append(p, Sentinel)[Len(p) + 1] = Sentinel
  BY <1>0, AppendProperties
<1>5. ASSUME FirstTwo(p) = FirstTwo(q), Rest(p) = Rest(q), ~ (Len(p) <= 2 <=> Len(q) <= 2)
      PROVE  Len(p) = 2 /\ q = Append(p, Sentinel)
  <2>1. Len(p) <= 2
    <3>1. SUFFICES ASSUME Len(p) > 2 PROVE FALSE
      BY <1>2
    <3>2. Len(q) <= 2
      BY <1>5, <3>1, <1>2, <1>3
    <3>3. Rest(p) = <<Sentinel>>
      BY <1>5, <3>2, <1>3
    <3>4. 3 \in 1..Len(p)
      BY <1>2, <3>1
    <3>5. Rest(p)[3 - 2] = p[3]
      BY <1>2, <3>1, <3>4
    <3>6. Rest(p)[3 - 2] = Sentinel
      BY <3>3
    <3> QED
      BY <1>1, <3>4, <3>5, <3>6
  <2>2. Len(q) > 2 /\ Rest(q) = <<Sentinel>>
    BY <1>2, <1>3, <1>5, <2>1
  <2>3. Len(q) = 3
    BY <1>3, <2>2
  <2>4. 3 \in 1..Len(q) /\ Rest(q)[3 - 2] = Sentinel
    BY <2>2, <2>3
  <2>5. q[3] = Sentinel
    BY <1>3, <2>2, <2>4
  <2>6. Len(p) = 2
    <3>1. Len(FirstTwo(q)) = 2
      BY <1>3, <2>3
    <3>2. Len(FirstTwo(p)) = IF Len(p) < 2 THEN Len(p) ELSE 2
      BY <1>2
    <3>3. Len(FirstTwo(p)) = 2
      BY <1>5, <3>1
    <3>4. Len(p) \in Nat
      BY <1>2
    <3>5. ~ (Len(p) < 2)
      BY <3>2, <3>3, <3>4
    <3> QED
      BY <1>0, <2>1, <3>4, <3>5, TwoOrLess
  <2>7. ASSUME NEW i \in 1..2
        PROVE  q[i] = p[i]
    <3>1. FirstTwo(q)[i] = q[i]
      BY <1>3, <2>3
    <3>2. FirstTwo(p)[i] = p[i]
      BY <1>2, <2>6
    <3> QED
      BY <1>5, <3>1, <3>2
  <2>8. ASSUME NEW i \in 1..3
        PROVE  q[i] = Append(p, Sentinel)[i]
    <3>1. CASE i = 3
      BY <1>4, <2>5, <2>6, <3>1
    <3>2. CASE i \in 1..2
      BY <1>4, <2>6, <2>7, <3>2
    <3>3. i = 3 \/ i \in 1..2
      OBVIOUS
    <3> QED
      BY <3>1, <3>2, <3>3
  <2>9. Len(Append(p, Sentinel)) = 3
    BY <1>4, <2>6
  <2> QED
    BY <1>0, <1>4, <2>3, <2>6, <2>8, <2>9, SeqEqual
<1>6. ASSUME FirstTwo(p) = FirstTwo(q), Rest(p) = Rest(q), Len(p) <= 2 <=> Len(q) <= 2
      PROVE  p = q
  BY <1>0, <1>6, PartsTell
<1>7. ASSUME Len(p) = 2, q = Append(p, Sentinel)
      PROVE  FirstTwo(p) = FirstTwo(q) /\ Rest(p) = Rest(q)
  <2>1. Len(q) = 3 /\ q[3] = Sentinel /\ q[1] = p[1] /\ q[2] = p[2]
    BY <1>4, <1>7
  <2>2. ASSUME NEW i \in 1..2
        PROVE  FirstTwo(p)[i] = FirstTwo(q)[i]
    <3>1. p[i] = q[i]
      BY <1>4, <1>7
    <3>2. FirstTwo(q)[i] = q[i]
      BY <1>3, <2>1
    <3>3. FirstTwo(p)[i] = p[i]
      BY <1>2, <1>7
    <3> QED
      BY <3>1, <3>2, <3>3
  <2>3. Len(FirstTwo(p)) = 2 /\ Len(FirstTwo(q)) = 2
    BY <1>2, <1>3, <1>7, <2>1
  <2>4. FirstTwo(p) = FirstTwo(q)
    BY <1>2, <1>3, <2>2, <2>3, SeqEqual
  <2>5. Rest(q) \in Seq(N) /\ Len(Rest(q)) = 1 /\ Rest(q)[3 - 2] = Sentinel
    BY <1>3, <2>1
  <2>6. <<Sentinel>> \in Seq(N) /\ Len(<<Sentinel>>) = 1 /\ <<Sentinel>>[1] = Sentinel
    BY <1>0
  <2>7. Rest(q) = <<Sentinel>>
    <3>1. \A i \in 1..1 : Rest(q)[i] = <<Sentinel>>[i]
      BY <2>5, <2>6
    <3> QED
      BY <2>5, <2>6, <3>1, SeqEqual
  <2> QED
    BY <1>2, <1>7, <2>4, <2>7
<1> QED
  BY <1>5, <1>6, <1>7

-----------------------------------------------------------------------------
(* Views.                                                                  *)

\* A view without the end of its prefix.
Stem(v) == SubSeq(v, 1, Len(v) - 1)

\* The prefixes that constructors make: a path and a slash, and in one of the
\* packages a slash alone.
ViewPrefixes == {Append(b, NoName) : b \in Path}
                  \cup (IF Lang = "ts" THEN {<<NoName, NoName>>} ELSE {})

\* What is appended to a stem comes off again.
LEMMA StemOfAppend ==
  ASSUME NEW T, NEW b \in Seq(T), NEW e \in T
  PROVE  Append(b, e) \in Seq(T) /\ Append(b, e) # <<>> /\ Stem(Append(b, e)) = b
<1> DEFINE v == Append(b, e)
<1>1. /\ v \in Seq(T) /\ v # <<>> /\ Len(v) = Len(b) + 1
      /\ \A i \in 1..Len(b) : v[i] = b[i]
  BY AppendProperties
<1>2. Len(b) \in Nat
  OBVIOUS
<1> HIDE DEF v
<1>3. \A i \in 1..Len(b) : v[i] \in T
  BY <1>1, ElementOfSeq
<1>4. /\ SubSeq(v, 1, Len(b)) \in Seq(T)
      /\ Len(SubSeq(v, 1, Len(b))) = IF 1 <= Len(b) THEN Len(b) - 1 + 1 ELSE 0
      /\ \A i \in 1..(Len(b) - 1 + 1) : SubSeq(v, 1, Len(b))[i] = v[1 + i - 1]
  BY <1>2, <1>3, SubSeqProperties
<1>5. Len(SubSeq(v, 1, Len(b))) = Len(b)
  BY <1>2, <1>4
<1>6. \A i \in 1..Len(b) : SubSeq(v, 1, Len(b))[i] = b[i]
  BY <1>1, <1>2, <1>4
<1>7. SubSeq(v, 1, Len(b)) = b
  BY <1>4, <1>5, <1>6, SeqEqual
<1>8. Len(v) - 1 = Len(b)
  BY <1>1, <1>2
<1>9. Stem(v) = b
  BY <1>7, <1>8 DEF Stem
<1> QED
  BY <1>1, <1>9 DEF v

\* The stem of a view is a path or, for a slash alone, an empty name.
LEMMA ViewParts ==
  ASSUME NEW v \in ViewPrefixes
  PROVE  /\ v \in String /\ v # <<>>
         /\ Stem(v) \in String /\ Segments(Stem(v)) \in Path
         /\ Len(Segments(Stem(v))) <= Len(v) - 1
         /\ \/ v = Append(Segments(Stem(v)), NoName) /\ Stem(v) = Segments(Stem(v))
            \/ /\ Lang = "ts" /\ v = <<NoName, NoName>>
               /\ Stem(v) = <<NoName>> /\ Segments(Stem(v)) = <<>>
<1>1. CASE v \in {Append(b, NoName) : b \in Path}
  <2>1. PICK b \in Path : v = Append(b, NoName)
    BY <1>1
  <2>2. b \in String /\ b \in AnyPath
    BY SegmentsType
  <2>3. v \in String /\ v # <<>> /\ Stem(v) = b
    BY <2>1, <2>2, StemOfAppend DEF String
  <2>4. Segments(b) = b
    BY <2>2, SegmentsOfPath
  <2>5. Len(b) = Len(v) - 1 /\ Len(b) \in Nat
    BY <2>1, AppendProperties DEF Path
  <2> QED
    BY <2>1, <2>2, <2>3, <2>4, <2>5
<1>2. CASE Lang = "ts" /\ v = <<NoName, NoName>>
  <2> DEFINE T == Names \cup {NoName}
  <2>1. <<NoName>> \in Seq(T) /\ NoName \in T /\ v = Append(<<NoName>>, NoName)
    BY <1>2
  <2>2. v \in String /\ v # <<>> /\ Stem(v) = <<NoName>>
    <3> HIDE DEF T
    <3>1. /\ Append(<<NoName>>, NoName) \in Seq(T) /\ Append(<<NoName>>, NoName) # <<>>
          /\ Stem(Append(<<NoName>>, NoName)) = <<NoName>>
      BY <2>1, StemOfAppend
    <3> QED
      BY <2>1, <3>1 DEF String, T
  <2>3. Segments(<<NoName>>) = <<>>
    <3> DEFINE T1 == {NoName}
               empty == <<>>
    <3>1. empty \in Seq(T1) /\ NoName \in T1 /\ Append(empty, NoName) = <<NoName>>
      OBVIOUS
    <3>2. NoName \notin Names \cup {Sentinel}
      BY NameAssumption
    <3>3. Segments(empty) = <<>>
      BY KeptEmpty DEF Segments
    <3> HIDE DEF T1, empty
    <3>4. Segments(Append(empty, NoName)) = Segments(empty)
      BY <3>1, <3>2, KeptAppend DEF Segments
    <3> QED
      BY <3>1, <3>3, <3>4
  <2>4. <<>> \in Path /\ Len(<<>>) = 0 /\ Len(v) = 2
    BY <1>2 DEF Path
  <2>5. <<NoName>> \in String
    BY <2>1 DEF String
  <2>6. Segments(Stem(v)) = <<>> /\ Segments(Stem(v)) \in Path
    BY <2>2, <2>3, <2>4
  <2>7. Len(Segments(Stem(v))) <= Len(v) - 1
    BY <2>4, <2>6
  <2> QED
    BY <1>2, <2>2, <2>5, <2>6, <2>7
<1> QED
  BY <1>1, <1>2 DEF ViewPrefixes

\* The prefix a caller passes, normalised, has the segments it had.
LEMMA PrefixSegments ==
  ASSUME NEW s \in String, s # <<>>
  PROVE  /\ NormalizePrefix(s) \in String
         /\ Segments(NormalizePrefix(s)) = Segments(s)
         /\ Segments(s) = <<>> => NormalizePrefix(s) = Root
         /\ NormalizePrefix(s) # <<>>
<1>1. Segments(s) \in Path /\ Segments(s) \in AnyPath /\ Segments(s) \in String
  BY SegmentsType
<1>2. Segments(Segments(s)) = Segments(s)
  BY <1>1, SegmentsOfPath
<1>3. NoName \notin Names \cup {Sentinel}
  BY NameAssumption
<1>4. Append(Segments(s), NoName) \in String /\ Append(Segments(s), NoName) # <<>>
  BY <1>1, AppendProperties DEF String
<1>5. Segments(Append(Segments(s), NoName)) = Segments(s)
  <2>1. NoName \in Names \cup {NoName} /\ Segments(s) \in Seq(Names \cup {NoName})
    BY <1>1 DEF String
  <2>2. Segments(Append(Segments(s), NoName)) = Segments(Segments(s))
    BY <1>3, <2>1, KeptAppend DEF Segments
  <2> QED
    BY <1>2, <2>2
<1>6. Root \in String /\ Root # <<>>
  BY DEF Root, String
<1>7. Segments(s) = <<>> => Append(Segments(s), NoName) = Root
  BY DEF Root
<1> QED
  BY <1>1, <1>2, <1>4, <1>5, <1>6, <1>7 DEF NormalizePrefix

\* A namespace of a view has the names of its prefix after those of the view,
\* and is the view itself where there are none.
LEMMA NamespaceIs ==
  ASSUME NEW v \in ViewPrefixes, NEW s \in String, s # <<>>
  PROVE  /\ SubPrefix(v, s) = IF Segments(Stem(v)) \o Segments(s) = <<>> THEN v
                              ELSE Append(Segments(Stem(v)) \o Segments(s), NoName)
         /\ SubPrefix(v, s) \in ViewPrefixes
<1> DEFINE b == Segments(Stem(v))
           t == NormalizePrefix(s)
           x == Under(v, t)
           path == b \o Segments(s)
<1>1. /\ v \in String /\ v # <<>> /\ Stem(v) \in String /\ b \in Path
      /\ \/ v = Append(b, NoName) /\ Stem(v) = b
         \/ Lang = "ts" /\ v = <<NoName, NoName>> /\ Stem(v) = <<NoName>> /\ b = <<>>
  BY ViewParts
<1>2. t \in String /\ Segments(t) = Segments(s) /\ (Segments(s) = <<>> => t = Root)
  BY PrefixSegments
<1>3. x = Stem(v) \o t
  BY DEF Under, Stem
<1>4. Segments(x) = path
  BY <1>1, <1>2, <1>3, SegmentsOfConcat, SegmentsType
<1>5. path \in Path
  BY <1>1, SegmentsType, ConcatProperties DEF Path
<1>6. CASE path = <<>>
  <2>1. b = <<>> /\ Segments(s) = <<>>
    BY <1>1, <1>6, SegmentsType, ConcatEqualIffEmpty DEF Path
  <2>2. t = <<NoName>>
    BY <1>2, <2>1 DEF Root
  <2>3. CASE v = Append(b, NoName) /\ Stem(v) = b
    <3>1. x = Root /\ v = Root
      BY <1>3, <2>1, <2>2, <2>3 DEF Root
    <3> QED
      BY <1>1, <1>4, <1>6, <2>3, <3>1 DEF SubPrefix, ConstructorPrefix, ViewPrefixes
  <2>4. CASE Lang = "ts" /\ v = <<NoName, NoName>> /\ Stem(v) = <<NoName>>
    <3>1. <<NoName>> \o <<NoName>> = <<NoName, NoName>> /\ <<NoName, NoName>> # <<NoName>>
      <4>1. <<NoName>> \in Seq({NoName}) /\ NoName \in {NoName}
        OBVIOUS
      <4>2. Append(<<NoName>>, NoName) = <<NoName>> \o <<NoName>>
        BY <4>1, AppendIsConcat, Zenon
      <4>3. Append(<<NoName>>, NoName) = <<NoName, NoName>>
        <5>1. v = Append(<<NoName>>, NoName)
          BY <2>4, <4>1
        <5> QED
          BY <2>4, <5>1, Zenon
      <4>4. Len(<<NoName, NoName>>) = 2 /\ Len(<<NoName>>) = 1
        OBVIOUS
      <4> QED
        BY <4>2, <4>3, <4>4
    <3>2. x = <<NoName, NoName>> /\ x # Root
      BY <1>3, <2>2, <2>4, <3>1 DEF Root
    <3> QED
      BY <1>4, <1>6, <2>4, <3>2 DEF SubPrefix, ConstructorPrefix, ViewPrefixes, BareSlash
  <2> QED
    BY <1>1, <2>3, <2>4
<1>7. CASE path # <<>>
  <2>1. SubPrefix(v, s) = Append(path, NoName)
    BY <1>4, <1>7 DEF SubPrefix, ConstructorPrefix
  <2> QED
    BY <1>5, <1>7, <2>1 DEF ViewPrefixes
<1> QED
  BY <1>6, <1>7

\* Namespaces compose.
LEMMA NamespaceOfNamespace ==
  ASSUME NEW v \in ViewPrefixes, NEW s \in String, s # <<>>, NEW t \in String, t # <<>>
  PROVE  SubPrefix(SubPrefix(v, s), t) = SubPrefix(v, s \o t)
<1> DEFINE b == Segments(Stem(v))
           p == Segments(s)
           q == Segments(t)
           w == SubPrefix(v, s)
<1>1. b \in Path /\ p \in Path /\ q \in Path
  BY ViewParts, SegmentsType
<1>2. s \o t \in String /\ s \o t # <<>>
  BY ConcatProperties, ConcatEqualIffEmpty DEF String
<1>3. Segments(s \o t) = p \o q
  BY SegmentsOfConcat, SegmentsType
<1>4. SubPrefix(v, s \o t) = IF b \o (p \o q) = <<>> THEN v ELSE Append(b \o (p \o q), NoName)
  BY <1>2, <1>3, NamespaceIs
<1>5. /\ w = IF b \o p = <<>> THEN v ELSE Append(b \o p, NoName)
      /\ w \in ViewPrefixes
  BY NamespaceIs
<1>6. SubPrefix(w, t) = IF Segments(Stem(w)) \o q = <<>> THEN w
                        ELSE Append(Segments(Stem(w)) \o q, NoName)
  BY <1>5, NamespaceIs
<1>7. (b \o p) \o q = b \o (p \o q) /\ b \o p \in Path
  BY <1>1 DEF Path
<1>8. Segments(Stem(w)) = b \o p
  <2>1. CASE b \o p = <<>>
    <3>1. w = v /\ b = <<>>
      BY <1>1, <1>5, <2>1, ConcatEqualIffEmpty DEF Path
    <3> QED
      BY <2>1, <3>1
  <2>2. CASE b \o p # <<>>
    <3>1. b \o p \in String /\ b \o p \in AnyPath
      BY <1>7, SegmentsType
    <3>2. w = Append(b \o p, NoName)
      BY <1>5, <2>2
    <3>3. b \o p \in Seq(Names \cup {NoName}) /\ NoName \in Names \cup {NoName}
      BY <3>1 DEF String
    <3> HIDE DEF b, p, w
    <3>4. Stem(Append(b \o p, NoName)) = b \o p
      BY <3>3, StemOfAppend
    <3>5. Stem(w) = b \o p
      BY <3>2, <3>4
    <3> QED
      BY <3>1, <3>5, SegmentsOfPath
  <2> QED
    BY <2>1, <2>2
<1> HIDE DEF b, p, q
<1>9. SubPrefix(w, t) = IF b \o (p \o q) = <<>> THEN w ELSE Append(b \o (p \o q), NoName)
  BY <1>6, <1>7, <1>8
<1>10. b \o (p \o q) = <<>> => b \o p = <<>>
  BY <1>1, <1>7, ConcatEqualIffEmpty DEF Path
<1> QED
  BY <1>4, <1>5, <1>9, <1>10

-----------------------------------------------------------------------------
(* The table.                                                              *)

\* The paths of the tree.
TreePaths == UNION {[1..n -> Names] : n \in 1..(MaxDepth + MaxLen)}

\* An item lies where its key says, and its key is a path of the tree.
WellPlaced(r) ==
  /\ r.k \in String /\ Segments(r.k) \in TreePaths
  /\ r.pk = FirstTwo(Segments(r.k)) /\ r.sk = Rest(Segments(r.k))

KeyInv ==
  /\ \A v \in views : v \in ViewPrefixes /\ Len(v) <= MaxDepth + 1
  /\ \A r \in rows : WellPlaced(r)

\* What callers pass are strings, and none is without a name.
LEMMA StringsAreStrings == \A s \in Strings : s \in String /\ s # <<>> /\ Len(s) \in 1..MaxLen
<1> SUFFICES ASSUME NEW s \in Strings PROVE s \in String /\ s # <<>> /\ Len(s) \in 1..MaxLen
  OBVIOUS
<1>1. PICK n \in 1..MaxLen : s \in [1..n -> Names \cup {NoName}]
  BY DEF Strings
<1>2. n \in Nat /\ n # 0
  BY <1>1, BoundAssumption
<1>3. s \in String /\ Len(s) = n
  BY <1>1, <1>2 DEF String
<1> QED
  BY <1>1, <1>2, <1>3, EmptySeq

\* The item of a key lies where its key says.
LEMMA ItemPlaced ==
  ASSUME MaxLen <= MaxDepth, KeyInv, NEW v \in views, NEW s \in Strings, ValidKey(s)
  PROVE  /\ WellPlaced(ItemFor(v, s))
         /\ Segments(ItemFor(v, s).k) \in TreePaths
<1> DEFINE b == Segments(Stem(v))
           p == Segments(s)
           full == Under(v, NormalizeKey(s))
<1>1. /\ v \in ViewPrefixes /\ Len(v) <= MaxDepth + 1
      /\ v \in String /\ v # <<>> /\ b \in Path /\ Len(b) <= Len(v) - 1
  BY ViewParts DEF KeyInv
<1>2. s \in String /\ s \in AnyString /\ Len(s) \in 1..MaxLen
  BY StringsAreStrings, SegmentsType
<1>3. p \in Path /\ p # <<>> /\ Len(p) <= Len(s) /\ p \in String /\ p \in AnyString
  BY <1>2, SegmentsType DEF ValidKey
<1>4. full \in String
  BY <1>1, <1>3, SegmentsUnder DEF NormalizeKey
<1>5. Segments(full) = b \o p
  <2>1. Segments(Under(v, p)) = Segments(SubSeq(v, 1, Len(v) - 1)) \o Segments(p)
    BY <1>1, <1>3, SegmentsUnder
  <2>2. Segments(p) = p
    BY <1>3, SegmentsType, SegmentsOfPath
  <2> QED
    BY <2>1, <2>2 DEF NormalizeKey, Stem
<1>6. b \o p \in TreePaths
  <2>1. b \o p \in Path /\ Len(b \o p) = Len(b) + Len(p)
    BY <1>1, <1>3, ConcatProperties DEF Path
  <2>2. Len(b) \in Nat /\ Len(p) \in Nat /\ Len(p) # 0 /\ Len(v) \in Nat /\ Len(s) \in Nat
    BY <1>1, <1>2, <1>3, EmptySeq, LenProperties DEF Path, String
  <2> DEFINE n == Len(b \o p)
  <2>3. n \in 1..(MaxDepth + MaxLen)
    <3> DEFINE lb == Len(b)
               lp == Len(p)
               lv == Len(v)
               ls == Len(s)
    <3>1. /\ lb \in Nat /\ lp \in Nat /\ lp # 0 /\ lv \in Nat /\ ls \in Nat /\ n = lb + lp
          /\ lb <= lv - 1 /\ lv <= MaxDepth + 1 /\ lp <= ls /\ ls \in 1..MaxLen
      BY <1>1, <1>2, <1>3, <2>1, <2>2
    <3> HIDE DEF n, lb, lp, lv, ls
    <3> QED
      BY <3>1, BoundAssumption
  <2>4. b \o p \in [1..n -> Names]
    <3> DEFINE q == b \o p
    <3>1. q \in Seq(Names)
      BY <2>1 DEF Path
    <3> HIDE DEF q
    <3>2. q \in [1..Len(q) -> Names]
      BY <3>1
    <3> QED
      BY <3>2 DEF q
  <2> QED
    BY <2>3, <2>4 DEF TreePaths
<1>7. /\ ItemFor(v, s).k = full
      /\ ItemFor(v, s).pk = FirstTwo(Segments(full))
      /\ ItemFor(v, s).sk = Rest(Segments(full))
  BY DEF ItemFor, Split, Rest
<1> HIDE DEF full
<1> QED
  BY <1>4, <1>5, <1>6, <1>7 DEF WellPlaced

\* Two items that lie where their keys say are one only if their paths are one.
LEMMA SameItemSamePath ==
  ASSUME NEW r, NEW new, WellPlaced(r), WellPlaced(new)
  PROVE  SameItem(r, new) <=> Segments(r.k) = Segments(new.k)
<1> DEFINE p == Segments(r.k)
           q == Segments(new.k)
<1>1. p \in Path /\ q \in Path /\ q \in AnyPath
  BY SegmentsType DEF WellPlaced
<1>2. r.pk = FirstTwo(p) /\ r.sk = Rest(p) /\ new.pk = FirstTwo(q) /\ new.sk = Rest(q)
  BY DEF WellPlaced
<1>3. FirstTwo(p) = FirstTwo(q) /\ Rest(p) = Rest(q) <=> p = q \/ (Len(p) = 2 /\ q = Append(p, Sentinel))
  BY <1>1, SplitTells
<1>4. q # Append(p, Sentinel)
  <2>1. p \in Seq(Names \cup {Sentinel}) /\ Sentinel \in Names \cup {Sentinel}
    BY <1>1, SegmentsType DEF AnyPath
  <2>2. /\ Len(Append(p, Sentinel)) = Len(p) + 1 /\ Len(p) \in Nat
        /\ Append(p, Sentinel)[Len(p) + 1] = Sentinel
    BY <2>1, AppendProperties
  <2>3. ASSUME q = Append(p, Sentinel) PROVE FALSE
    <3>1. Len(p) + 1 \in 1..Len(q) /\ q[Len(p) + 1] = Sentinel
      BY <2>2, <2>3
    <3>2. q[Len(p) + 1] \in Names
      BY <1>1, <3>1, ElementOfSeq DEF Path
    <3> QED
      BY <3>1, <3>2, NameAssumption
  <2> QED
    BY <2>3
<1> QED
  BY <1>2, <1>3, <1>4 DEF SameItem

\* The storage an application constructs is a view of the root.
LEMMA InitKeys == ASSUME MaxLen <= MaxDepth PROVE Init => KeyInv
<1> SUFFICES ASSUME MaxLen <= MaxDepth, Init PROVE KeyInv
  OBVIOUS
<1>1. PICK s \in Roots : views = {ConstructorPrefix(s)}
  BY DEF Init
<1>2. s \in String /\ Len(s) \in 1..MaxLen
  BY SettingAssumption, StringsAreStrings
<1>3. Segments(s) \in Path /\ Len(Segments(s)) <= Len(s) /\ Segments(s) \in Seq(Names \cup {NoName})
  BY <1>2, SegmentsType DEF String
<1>4. Append(Segments(s), NoName) \in ViewPrefixes
  BY <1>3 DEF ViewPrefixes
<1>5. Len(Append(Segments(s), NoName)) <= MaxDepth + 1
  <2> DEFINE n == Len(Segments(s))
             m == Len(s)
             l == Len(Append(Segments(s), NoName))
  <2>1. l = n + 1 /\ n <= m /\ m \in 1..MaxLen /\ n \in Nat
    BY <1>2, <1>3, AppendProperties
  <2> HIDE DEF n, m, l
  <2>2. l <= MaxDepth + 1
    BY <2>1, BoundAssumption
  <2> QED
    BY <2>2 DEF l
<1>6. Len(<<NoName, NoName>>) <= MaxDepth + 1
  <2>1. 1 <= MaxDepth
    BY <1>2, BoundAssumption
  <2> DEFINE n == Len(<<NoName, NoName>>)
  <2>2. n = 2
    OBVIOUS
  <2> HIDE DEF n
  <2>3. n <= MaxDepth + 1
    BY <2>1, <2>2, BoundAssumption
  <2> QED
    BY <2>3 DEF n
<1>7. ConstructorPrefix(s) \in ViewPrefixes /\ Len(ConstructorPrefix(s)) <= MaxDepth + 1
  BY <1>4, <1>5, <1>6 DEF ConstructorPrefix, ViewPrefixes, BareSlash
<1> QED
  BY <1>1, <1>7 DEF Init, KeyInv

\* No operation puts an item where its key does not say, or makes another view.
LEMMA StepKeys == ASSUME MaxLen <= MaxDepth PROVE KeyInv /\ [Next]_vars => KeyInv'
<1> SUFFICES ASSUME MaxLen <= MaxDepth, KeyInv, [Next]_vars PROVE KeyInv'
  OBVIOUS
<1>1. ASSUME NEW v \in views, NEW s \in Strings, Write(v, s) PROVE KeyInv'
  <2>1. WellPlaced(ItemFor(v, s))
    BY <1>1, ItemPlaced DEF Write
  <2>2. \A r \in rows' : WellPlaced(r)
    BY <1>1, <2>1 DEF Write, KeyInv
  <2> QED
    BY <1>1, <2>2 DEF Write, KeyInv, WellPlaced
<1>2. ASSUME NEW v \in views, NEW s \in Strings, Delete(v, s) PROVE KeyInv'
  BY <1>2 DEF Delete, KeyInv, WellPlaced
<1>3. ASSUME NEW v \in views, NEW s \in Strings, Namespace(v, s) PROVE KeyInv'
  <2>1. SubPrefix(v, s) \in ViewPrefixes
    BY StringsAreStrings, NamespaceIs DEF KeyInv
  <2>2. Len(SubPrefix(v, s)) \in Nat /\ Len(SubPrefix(v, s)) <= MaxDepth
    BY <1>3, <2>1, ViewParts, LenProperties DEF Namespace, String
  <2>3. Len(SubPrefix(v, s)) <= MaxDepth + 1
    BY <2>2, BoundAssumption
  <2> QED
    BY <1>3, <2>1, <2>3 DEF Namespace, KeyInv, WellPlaced
<1>4. CASE UNCHANGED vars
  BY <1>4 DEF vars, KeyInv, WellPlaced
<1> QED
  BY <1>1, <1>2, <1>3, <1>4 DEF Next

\* In every state: what views may be, and that items lie where their keys say.
LEMMA AlwaysKeys == ASSUME MaxLen <= MaxDepth PROVE Spec => []KeyInv
BY InitKeys, StepKeys, PTL DEF Spec

\* A write and a delete are one step of the tree, and a namespace is none.
LEMMA StepTree ==
  ASSUME MaxLen <= MaxDepth, KeyInv, [Next]_vars
  PROVE  [Tree!TreeNext]_Paths
<1>1. ASSUME NEW v \in views, NEW s \in Strings, Write(v, s) PROVE Tree!TreeNext
  <2> DEFINE new == ItemFor(v, s)
  <2>1. WellPlaced(new) /\ Segments(new.k) \in TreePaths
    BY <1>1, ItemPlaced DEF Write
  <2>2. rows' = {r \in rows : ~SameItem(r, new)} \cup {new}
    BY <1>1 DEF Write
  <2>3. \A r \in rows : WellPlaced(r)
    BY DEF KeyInv
  <2> HIDE DEF new
  <2>4. \A r \in rows : SameItem(r, new) <=> Segments(r.k) = Segments(new.k)
    BY <2>1, <2>3, SameItemSamePath
  <2>5. {Segments(r.k) : r \in rows'} = Paths \cup {Segments(new.k)}
    BY <2>2, <2>4 DEF Paths
  <2>6. Paths' = Paths \cup {Segments(new.k)}
    BY <2>5 DEF Paths
  <2> QED
    BY <2>1, <2>6 DEF Tree!TreeNext, Tree!Put, TreePaths
<1>2. ASSUME NEW v \in views, NEW s \in Strings, Delete(v, s) PROVE Tree!TreeNext
  <2> DEFINE new == ItemFor(v, s)
  <2>1. WellPlaced(new) /\ Segments(new.k) \in TreePaths
    BY <1>2, ItemPlaced DEF Delete
  <2>2. rows' = {r \in rows : ~SameItem(r, new)}
    BY <1>2 DEF Delete
  <2>3. \A r \in rows : WellPlaced(r)
    BY DEF KeyInv
  <2> HIDE DEF new
  <2>4. \A r \in rows : SameItem(r, new) <=> Segments(r.k) = Segments(new.k)
    BY <2>1, <2>3, SameItemSamePath
  <2>5. {Segments(r.k) : r \in rows'} = Paths \ {Segments(new.k)}
    BY <2>2, <2>4 DEF Paths
  <2>6. Paths' = Paths \ {Segments(new.k)}
    BY <2>5 DEF Paths
  <2> QED
    BY <2>1, <2>6 DEF Tree!TreeNext, Tree!Remove, TreePaths
<1>3. ASSUME NEW v \in views, NEW s \in Strings, Namespace(v, s) PROVE Paths' = Paths
  BY <1>3 DEF Namespace, Paths
<1>4. CASE UNCHANGED vars
  BY <1>4 DEF vars, Paths
<1> QED
  BY <1>1, <1>2, <1>3, <1>4 DEF Next

\* The shared table is a tree of paths: through any views, of prefixes of any
\* depth, a write puts a value at one path and a delete removes it, although an
\* item is found by two attributes that are cut out of one string and several
\* views keep their keys in one partition.
THEOREM KeysAreATree ==
  ASSUME MaxLen <= MaxDepth
  PROVE  Spec => ImplementsTree
<1>1. Init => Tree!TreeInit
  BY DEF Init, Tree!TreeInit, Paths
<1>2. KeyInv /\ [Next]_vars => [Tree!TreeNext]_Paths
  BY StepTree
<1> QED
  BY <1>1, <1>2, AlwaysKeys, PTL DEF Spec, ImplementsTree, Tree!TreeSpec

\* Two keys share an item only if they are one key after normalisation, or if
\* one is the other with the sentinel as its third and last name: also for keys
\* that spell the sentinel, under every prefix.
THEOREM ItemsMatchKeys ==
  ASSUME MaxLen <= MaxDepth
  PROVE  Spec => []ItemsAreKeys
<1>1. KeyInv => ItemsAreKeys
  <2> SUFFICES ASSUME KeyInv, NEW v \in views, NEW r \in rows,
                      NEW n \in 1..MaxLen, NEW s \in [1..n -> Names \cup {NoName, Sentinel}]
               PROVE  LET path == Segments(Under(v, s))
                          stored == Segments(r.k)
                      IN  SameItem(r, ItemFor(v, s)) <=>
                            \/ path = stored
                            \/ Len(stored) = 2 /\ path = Append(stored, Sentinel)
    BY DEF ItemsAreKeys
  <2> DEFINE path == Segments(Under(v, s))
             stored == Segments(r.k)
             full == Under(v, NormalizeKey(s))
  <2>1. v \in String /\ v # <<>>
    BY ViewParts DEF KeyInv
  <2>2. s \in AnyString
    BY BoundAssumption DEF AnyString
  <2>3. Segments(full) = path /\ path \in AnyPath
    BY <2>1, <2>2, SegmentsUnder, SegmentsType DEF NormalizeKey
  <2>4. stored \in Path /\ r.pk = FirstTwo(stored) /\ r.sk = Rest(stored)
    BY SegmentsType DEF KeyInv, WellPlaced
  <2>5. /\ ItemFor(v, s).pk = FirstTwo(Segments(full))
        /\ ItemFor(v, s).sk = Rest(Segments(full))
    BY DEF ItemFor, Split, Rest
  <2> HIDE DEF path, stored, full
  <2>6. FirstTwo(stored) = FirstTwo(path) /\ Rest(stored) = Rest(path)
          <=> stored = path \/ (Len(stored) = 2 /\ path = Append(stored, Sentinel))
    BY <2>3, <2>4, SplitTells
  <2>7. SameItem(r, ItemFor(v, s)) <=> FirstTwo(stored) = FirstTwo(path) /\ Rest(stored) = Rest(path)
    BY <2>3, <2>4, <2>5 DEF SameItem
  <2> QED
    BY <2>6, <2>7 DEF path, stored
<1> QED
  BY <1>1, AlwaysKeys, PTL

\* "Nested calls compose": a namespace of a namespace is the namespace of the
\* joined prefix, for every view there can be and every prefix, with slashes
\* anywhere or nowhere.
THEOREM NestedNamespacesCompose ==
  ASSUME MaxLen <= MaxDepth
  PROVE  Spec => []NamespacesCompose
<1>1. KeyInv => NamespacesCompose
  BY StringsAreStrings, NamespaceOfNamespace DEF KeyInv, NamespacesCompose
<1> QED
  BY <1>1, AlwaysKeys, PTL

-----------------------------------------------------------------------------
(* Fronts and backs of sequences.                                          *)

\* The first n elements of a sequence.
LEMMA Front ==
  ASSUME NEW T, NEW s \in Seq(T), NEW n \in Nat, n <= Len(s)
  PROVE  /\ SubSeq(s, 1, n) \in Seq(T) /\ Len(SubSeq(s, 1, n)) = n
         /\ \A i \in 1..n : SubSeq(s, 1, n)[i] = s[i] /\ i \in 1..Len(s)
OBVIOUS

\* All but the first n elements.
LEMMA Back ==
  ASSUME NEW T, NEW s \in Seq(T), NEW n \in Nat, n <= Len(s)
  PROVE  /\ SubSeq(s, n + 1, Len(s)) \in Seq(T) /\ Len(SubSeq(s, n + 1, Len(s))) = Len(s) - n
         /\ \A i \in 1..(Len(s) - n) : SubSeq(s, n + 1, Len(s))[i] = s[n + i]
OBVIOUS

\* The two together.
LEMMA FrontAndBack ==
  ASSUME NEW T, NEW s \in Seq(T), NEW n \in Nat, n <= Len(s)
  PROVE  SubSeq(s, 1, n) \o SubSeq(s, n + 1, Len(s)) = s
<1> DEFINE f == SubSeq(s, 1, n)
           g == SubSeq(s, n + 1, Len(s))
           l == Len(s)
<1>1. /\ f \in Seq(T) /\ Len(f) = n /\ \A i \in 1..n : f[i] = s[i]
      /\ g \in Seq(T) /\ Len(g) = l - n /\ \A i \in 1..(l - n) : g[i] = s[n + i]
      /\ l \in Nat /\ n <= l
  BY Front, Back
<1> HIDE DEF f, g, l
<1>2. /\ f \o g \in Seq(T) /\ Len(f \o g) = Len(f) + Len(g)
      /\ \A i \in 1..(Len(f) + Len(g)) :
           (f \o g)[i] = IF i <= Len(f) THEN f[i] ELSE g[i - Len(f)]
  BY <1>1, ConcatProperties
<1>3. Len(f \o g) = l
  BY <1>1, <1>2
<1>4. \A i \in 1..l : (f \o g)[i] = s[i]
  BY <1>1, <1>2
<1>5. Len(s) = l
  BY DEF l
<1> QED
  BY <1>2, <1>3, <1>4, <1>5, SeqEqual DEF f, g, l

\* Two sequences begin alike if their first n elements are the same.
LEMMA SameFront ==
  ASSUME NEW T, NEW s \in Seq(T), NEW t \in Seq(T), NEW n \in Nat, n <= Len(s), n <= Len(t)
  PROVE  SubSeq(s, 1, n) = SubSeq(t, 1, n) <=> \A i \in 1..n : s[i] = t[i]
<1> DEFINE f == SubSeq(s, 1, n)
           g == SubSeq(t, 1, n)
<1>1. f \in Seq(T) /\ Len(f) = n /\ \A i \in 1..n : f[i] = s[i]
  BY Front
<1>2. g \in Seq(T) /\ Len(g) = n /\ \A i \in 1..n : g[i] = t[i]
  BY Front
<1> HIDE DEF f, g
<1> QED
  BY <1>1, <1>2, SeqEqual

\* A joined sequence comes apart where it was joined.
LEMMA Joined ==
  ASSUME NEW T, NEW b \in Seq(T), NEW k \in Seq(T)
  PROVE  /\ b \o k \in Seq(T) /\ Len(b \o k) = Len(b) + Len(k)
         /\ \A i \in 1..Len(b) : (b \o k)[i] = b[i]
         /\ \A i \in 1..Len(k) : (b \o k)[Len(b) + i] = k[i]
         /\ SubSeq(b \o k, Len(b) + 1, Len(b \o k)) = k
<1> DEFINE q == b \o k
           m == Len(b)
           n == Len(k)
<1>1. /\ q \in Seq(T) /\ Len(q) = m + n /\ m \in Nat /\ n \in Nat
      /\ \A i \in 1..(m + n) : q[i] = IF i <= m THEN b[i] ELSE k[i - m]
  BY ConcatProperties, LenProperties
<1> HIDE DEF q, m, n
<1>2. /\ \A i \in 1..m : q[i] = b[i]
      /\ \A i \in 1..n : q[m + i] = k[i]
  <2>1. \A i \in 1..m : i \in 1..(m + n) /\ i <= m
    BY <1>1
  <2>2. \A i \in 1..n : m + i \in 1..(m + n) /\ ~(m + i <= m) /\ (m + i) - m = i
    BY <1>1
  <2>3. \A i \in 1..n : q[m + i] = k[(m + i) - m]
    BY <1>1, <2>2
  <2> QED
    BY <1>1, <2>1, <2>2, <2>3
<1> DEFINE g == SubSeq(q, m + 1, Len(q))
<1>3. g \in Seq(T) /\ Len(g) = Len(q) - m /\ \A i \in 1..(Len(q) - m) : g[i] = q[m + i]
  <2>1. m <= Len(q)
    BY <1>1
  <2> QED
    BY <1>1, <2>1, Back
<1> HIDE DEF g
<1>4. Len(g) = n /\ \A i \in 1..n : g[i] = k[i]
  BY <1>1, <1>2, <1>3
<1>5. g = k
  BY <1>3, <1>4, SeqEqual DEF n
<1> QED
  BY <1>1, <1>2, <1>5 DEF q, m, n, g

-----------------------------------------------------------------------------
(* Beginnings of strings.                                                  *)

\* Whether the last name of p is, or may begin, a name.
Meets(p, name) == End(p) \in {NoName, name} \/ <<name, End(p)>> \in Begins

\* What it is to begin with p, place by place.
LEMMA StartPlaces ==
  ASSUME NEW s \in String, NEW p \in String, p # <<>>
  PROVE  StartsWith(s, p) <=> /\ Len(p) <= Len(s)
                              /\ \A i \in 1..(Len(p) - 1) : s[i] = p[i]
                              /\ Meets(p, s[Len(p)])
<1> DEFINE n == Len(p)
           m == n - 1
<1>1. n \in Nat /\ m \in Nat /\ m <= n /\ Len(s) \in Nat
  BY EmptySeq, LenProperties DEF String
<1>2. ASSUME n <= Len(s)
      PROVE  SubSeq(s, 1, m) = SubSeq(p, 1, m) <=> \A i \in 1..m : s[i] = p[i]
  <2>1. m <= Len(s)
    BY <1>1, <1>2
  <2> HIDE DEF m
  <2>2. s \in Seq(Names \cup {NoName}) /\ p \in Seq(Names \cup {NoName}) /\ m <= Len(p)
    BY <1>1 DEF String
  <2> QED
    BY <1>1, <2>1, <2>2, SameFront
<1> QED
  BY <1>2 DEF StartsWith, Meets

\* What follows a common front matters only.
LEMMA StartBehind ==
  ASSUME NEW b \in String, NEW s \in String, NEW p \in String, p # <<>>
  PROVE  StartsWith(b \o s, b \o p) <=> StartsWith(s, p)
<1> DEFINE T == Names \cup {NoName}
           m == Len(b)
           n == Len(p)
           l == Len(s)
           x == b \o s
           y == b \o p
<1>1. m \in Nat /\ n \in Nat /\ n # 0 /\ l \in Nat
  BY EmptySeq, LenProperties DEF String
<1>2. /\ x \in String /\ Len(x) = m + l
      /\ \A i \in 1..m : x[i] = b[i]
      /\ \A i \in 1..l : x[m + i] = s[i]
  BY Joined DEF String
<1>3. /\ y \in String /\ Len(y) = m + n
      /\ \A i \in 1..m : y[i] = b[i]
      /\ \A i \in 1..n : y[m + i] = p[i]
  BY Joined DEF String
<1>4. y # <<>>
  BY <1>1, <1>3
<1>a. /\ StartsWith(s, p) <=> n <= l /\ (\A i \in 1..(n - 1) : s[i] = p[i]) /\ Meets(p, s[n])
      /\ StartsWith(x, y) <=> /\ Len(y) <= Len(x)
                              /\ \A i \in 1..(Len(y) - 1) : x[i] = y[i]
                              /\ Meets(y, x[Len(y)])
  BY <1>2, <1>3, <1>4, StartPlaces
<1> HIDE DEF x, y, m, n, l
<1>5. Len(y) <= Len(x) <=> n <= l
  BY <1>1, <1>2, <1>3
<1>6. ASSUME n <= l
      PROVE  /\ (\A i \in 1..(Len(y) - 1) : x[i] = y[i]) <=> \A i \in 1..(n - 1) : s[i] = p[i]
             /\ Meets(y, x[Len(y)]) <=> Meets(p, s[n])
  <2>1. ASSUME \A i \in 1..(Len(y) - 1) : x[i] = y[i], NEW i \in 1..(n - 1)
        PROVE  s[i] = p[i]
    <3>1. m + i \in 1..(Len(y) - 1) /\ i \in 1..n /\ i \in 1..l
      BY <1>1, <1>3, <1>6
    <3> QED
      BY <1>2, <1>3, <2>1, <3>1
  <2>2. ASSUME \A i \in 1..(n - 1) : s[i] = p[i], NEW i \in 1..(Len(y) - 1)
        PROVE  x[i] = y[i]
    <3>1. CASE i \in 1..m
      BY <1>2, <1>3, <3>1
    <3>2. CASE i \notin 1..m
      <4> DEFINE j == i - m
      <4>1. j \in 1..(n - 1) /\ j \in 1..n /\ j \in 1..l /\ m + j = i
        BY <1>1, <1>3, <1>6, <3>2
      <4> HIDE DEF j
      <4> QED
        BY <1>2, <1>3, <2>2, <4>1
    <3> QED
      BY <3>1, <3>2
  <2>3. End(y) = End(p) /\ x[Len(y)] = s[n]
    <3>1. n \in 1..n /\ n \in 1..l
      BY <1>1, <1>6
    <3>2. y[m + n] = p[n] /\ x[m + n] = s[n]
      BY <1>2, <1>3, <3>1
    <3> QED
      BY <1>3, <3>2 DEF End, n
  <2> QED
    BY <2>1, <2>2, <2>3 DEF Meets
<1>7. StartsWith(x, y) <=> StartsWith(s, p)
  BY <1>a, <1>5, <1>6
<1> QED
  BY <1>7 DEF x, y
-----------------------------------------------------------------------------
(* Views whose prefix is a path.                                           *)

\* The prefix of a view at a path.
PathViews == {Append(b, NoName) : b \in Path}

\* The prefix b/ of a view: its path is b, and it puts b before a string.
LEMMA PathViewIs ==
  ASSUME NEW b \in Path, NEW v, v = Append(b, NoName)
  PROVE  /\ b \in String /\ v \in String /\ v # <<>>
         /\ Len(b) \in Nat /\ Len(v) = Len(b) + 1 /\ v[Len(v)] = NoName
         /\ \A i \in 1..Len(b) : v[i] = b[i]
         /\ Stem(v) = b /\ Base(v) = b
         /\ \A s : Under(v, s) = b \o s
         /\ v = Root <=> b = <<>>
<1> DEFINE T == Names \cup {NoName}
<1>1. b \in String /\ b \in AnyPath /\ b \in AnyString /\ b \in Seq(T) /\ NoName \in T
  BY SegmentsType DEF String
<1> HIDE DEF T
<1>2. /\ v \in Seq(T) /\ v # <<>> /\ Len(b) \in Nat /\ Len(v) = Len(b) + 1 /\ v[Len(b) + 1] = NoName
      /\ \A i \in 1..Len(b) : v[i] = b[i]
      /\ Stem(v) = b
  BY <1>1, AppendProperties, LenProperties, StemOfAppend
<1>3. Base(v) = b
  <2>1. NoName \notin Names \cup {Sentinel}
    BY NameAssumption
  <2>2. Segments(v) = Segments(b)
    BY <1>1, <2>1, KeptAppend DEF Segments
  <2> QED
    BY <1>1, <2>2, SegmentsOfPath DEF Base
<1>4. \A s : Under(v, s) = b \o s
  BY <1>2 DEF Under, Stem
<1>5. v = Root <=> b = <<>>
  <2>1. Len(Root) = 1 /\ Root[1] = NoName /\ Root \in Seq(T)
    BY <1>1 DEF Root
  <2>2. b = <<>> <=> Len(b) = 0
    BY <1>1, EmptySeq
  <2>3. ASSUME Len(b) = 0
        PROVE  v = Root
    <3>1. Len(v) = 1 /\ v[1] = NoName
      BY <1>2, <2>3
    <3>2. \A i \in 1..Len(v) : v[i] = Root[i]
      BY <2>1, <3>1
    <3> QED
      BY <1>2, <2>1, <3>1, <3>2, SeqEqual
  <2>4. ASSUME v = Root
        PROVE  Len(b) = 0
    <3> DEFINE n == Len(b)
               m == Len(v)
    <3>1. n \in Nat /\ m = n + 1 /\ m = 1
      BY <1>2, <2>1, <2>4
    <3> HIDE DEF n, m
    <3>2. n = 0
      BY <3>1
    <3> QED
      BY <3>2 DEF n
  <2> QED
    BY <2>2, <2>3, <2>4
<1> QED
  BY <1>1, <1>2, <1>3, <1>4, <1>5 DEF String, T

\* The places of a view's prefix.
LEMMA PathViewPlaces ==
  ASSUME NEW b \in Path, NEW v, v = Append(b, NoName)
  PROVE  /\ v \in String /\ v # <<>>
         /\ Len(b) \in Nat /\ Len(v) = Len(b) + 1 /\ v[Len(v)] = NoName
         /\ \A i \in 1..Len(b) : v[i] = b[i]
<1> DEFINE T == Names \cup {NoName}
<1>1. b \in String /\ b \in Seq(T) /\ NoName \in T
  BY SegmentsType DEF String
<1>2. v \in String
  BY <1>1, AppendProperties DEF String
<1> HIDE DEF T
<1>3. Len(b) \in Nat /\ Len(v) = Len(b) + 1 /\ v[Len(b) + 1] = NoName /\ v # <<>>
  BY <1>1, AppendProperties, LenProperties
<1>4. \A i \in 1..Len(b) : v[i] = b[i]
  BY <1>1, AppendProperties
<1> QED
  BY <1>2, <1>3, <1>4

\* What it is to lie below a path, place by place.
LEMMA BelowPlaces ==
  ASSUME NEW b \in Path, NEW k \in Path
  PROVE  IsBelow(k, b) <=> Len(k) > Len(b) /\ \A i \in 1..Len(b) : k[i] = b[i]
<1> DEFINE n == Len(b)
<1>1. n \in Nat /\ Len(k) \in Nat /\ SubSeq(b, 1, n) = b
  BY LenProperties, SubSeqFull DEF Path
<1>2. ASSUME Len(k) > n
      PROVE  SubSeq(k, 1, n) = SubSeq(b, 1, n) <=> \A i \in 1..n : k[i] = b[i]
  <2>1. n <= Len(k) /\ n <= Len(b)
    BY <1>1, <1>2
  <2> HIDE DEF n
  <2> QED
    BY <1>1, <2>1, SameFront DEF Path
<1> QED
  BY <1>1, <1>2 DEF IsBelow

\* The part of a path that a view at b shows.
Shown(b, k) == SubSeq(k, Len(b) + 1, Len(k))

\* A key below b is b and what a view at b shows of it.
LEMMA ShownIs ==
  ASSUME NEW b \in Path, NEW k \in Path, IsBelow(k, b)
  PROVE  Shown(b, k) \in Path /\ Shown(b, k) # <<>> /\ b \o Shown(b, k) = k
<1> DEFINE n == Len(b)
           g == SubSeq(k, n + 1, Len(k))
<1>1. n \in Nat /\ Len(k) \in Nat /\ n < Len(k) /\ n <= Len(k) /\ SubSeq(k, 1, n) = b
  BY LenProperties DEF Path, IsBelow
<1> HIDE DEF n
<1>2. g \in Path /\ Len(g) = Len(k) - n
  BY <1>1, Back DEF Path
<1>3. SubSeq(k, 1, n) \o g = k
  BY <1>1, FrontAndBack DEF Path
<1> HIDE DEF g
<1>4. g # <<>>
  BY <1>1, <1>2, EmptySeq
<1> QED
  BY <1>1, <1>2, <1>3, <1>4 DEF Shown, g, n

\* The other way: what is put below b is below b, and shows as it was.
LEMMA PutBelow ==
  ASSUME NEW b \in Path, NEW k \in Path, k # <<>>
  PROVE  b \o k \in Path /\ IsBelow(b \o k, b) /\ Shown(b, b \o k) = k
<1> DEFINE q == b \o k
           m == Len(b)
           n == Len(k)
<1>1. /\ q \in Path /\ Len(q) = m + n /\ (\A i \in 1..m : q[i] = b[i])
      /\ SubSeq(q, m + 1, Len(q)) = k
      /\ m \in Nat /\ n \in Nat /\ n # 0
  BY Joined, EmptySeq, LenProperties DEF Path
<1> HIDE DEF q, m, n
<1>2. Len(q) > m
  BY <1>1
<1>3. IsBelow(q, b)
  BY <1>1, <1>2, BelowPlaces DEF m
<1> QED
  BY <1>1, <1>3 DEF Shown, m, q

\* A view owns the keys below its path, and strips them of its path.
LEMMA OwnsBelow ==
  ASSUME NEW b \in Path, NEW v, v = Append(b, NoName), NEW k \in Path, k # <<>>
  PROVE  (Owns(v, k) <=> IsBelow(k, b)) /\ StripPrefix(v, k) = Shown(b, k)
<1> DEFINE n == Len(b)
<1>1. /\ v \in String /\ v # <<>> /\ n \in Nat /\ Len(v) = n + 1 /\ v[Len(v)] = NoName
      /\ (\A i \in 1..n : v[i] = b[i]) /\ (v = Root <=> b = <<>>)
  <2>1. /\ b \in Path /\ v \in String /\ v # <<>>
        /\ Len(b) \in Nat /\ Len(v) = Len(b) + 1 /\ v[Len(v)] = NoName
        /\ \A i \in 1..Len(b) : v[i] = b[i]
    BY PathViewPlaces
  <2>2. v = Root <=> b = <<>>
    BY PathViewIs
  <2> QED
    BY <2>1, <2>2
<1>2. k \in String /\ Len(k) \in Nat /\ Len(k) # 0
  BY SegmentsType, EmptySeq, LenProperties DEF Path
<1> HIDE DEF n
<1>3. StartsWith(k, v) <=> Len(k) > n /\ \A i \in 1..n : k[i] = b[i]
  <2>1. StartsWith(k, v) <=> /\ Len(v) <= Len(k)
                             /\ \A i \in 1..(Len(v) - 1) : k[i] = v[i]
                             /\ Meets(v, k[Len(v)])
    BY <1>1, <1>2, StartPlaces
  <2>2. Meets(v, k[Len(v)])
    BY <1>1 DEF Meets, End
  <2>3. Len(v) - 1 = n /\ (Len(v) <= Len(k) <=> Len(k) > n)
    BY <1>1, <1>2
  <2> QED
    BY <1>1, <2>1, <2>2, <2>3
<1>4. IsBelow(k, b) <=> Len(k) > n /\ \A i \in 1..n : k[i] = b[i]
  BY BelowPlaces DEF n
<1>5. b = <<>> => IsBelow(k, b)
  <2>1. ASSUME b = <<>> PROVE n = 0
    BY <2>1, EmptySeq DEF n
  <2> QED
    BY <1>2, <1>4, <2>1
<1>6. StripPrefix(v, k) = Shown(b, k)
  BY <1>1 DEF StripPrefix, Shown, n
<1> QED
  BY <1>1, <1>3, <1>4, <1>5, <1>6 DEF Owns

\* So the keys a view owns among some are those below its path, stripped.
LEMMA OwnKeysAre ==
  ASSUME NEW b \in Path, NEW v, v = Append(b, NoName), NEW K, K \subseteq Path \ {<<>>}
  PROVE  OwnKeys(v, K) = {Shown(b, k) : k \in {j \in K : IsBelow(j, b)}}
<1>1. \A k \in K : (Owns(v, k) <=> IsBelow(k, b)) /\ StripPrefix(v, k) = Shown(b, k)
  BY OwnsBelow
<1> QED
  BY <1>1 DEF OwnKeys
-----------------------------------------------------------------------------
(* What the table and the views are.                                       *)

\* An item lies at a path.
LiesAt(r, path) ==
  /\ path \in Path \ {<<>>}
  /\ r.pk = FirstTwo(path) /\ r.sk = Rest(path)

\* An item lies where its key says, and its key is a path.
PathItem(r) == LiesAt(r, r.k)

\* What holds where no view has the bare slash: views are at paths, and items
\* are those of paths.
OwnInv ==
  /\ \A v \in views : v \in PathViews
  /\ \A r \in rows : PathItem(r)

\* What always holds: views have prefixes that constructors make, and items lie
\* where the segments of their keys say.
TableInv ==
  /\ \A v \in views : v \in ViewPrefixes
  /\ \A r \in rows : LiesAt(r, Segments(r.k))
  /\ BareSlash \notin views => OwnInv

\* A view is at a path, unless it has the bare slash.
LEMMA PathOrBare ==
  ASSUME NEW v \in ViewPrefixes
  PROVE  v \in PathViews \/ v = BareSlash
BY DEF ViewPrefixes, PathViews, BareSlash

\* A write makes an item at the path of its key, which a view at a path makes
\* a path.
LEMMA ItemLies ==
  ASSUME NEW v \in ViewPrefixes, NEW s \in Strings, ValidKey(s)
  PROVE  /\ LiesAt(ItemFor(v, s), Segments(ItemFor(v, s).k))
         /\ v \in PathViews => PathItem(ItemFor(v, s))
<1> DEFINE b == Segments(Stem(v))
           p == Segments(s)
           full == Under(v, NormalizeKey(s))
<1>1. v \in String /\ v # <<>> /\ b \in Path
  BY ViewParts
<1>2. p \in Path /\ p # <<>> /\ p \in AnyString /\ p \in AnyPath
  BY StringsAreStrings, SegmentsType DEF ValidKey
<1>3. b \o p \in Path /\ b \o p # <<>>
  BY <1>1, <1>2, ConcatProperties, ConcatEqualIffEmpty DEF Path
<1>4. Segments(full) = b \o p
  <2>1. Segments(Under(v, p)) = Segments(SubSeq(v, 1, Len(v) - 1)) \o Segments(p)
    BY <1>1, <1>2, SegmentsUnder
  <2>2. Segments(p) = p
    BY <1>2, SegmentsOfPath
  <2> QED
    BY <2>1, <2>2 DEF NormalizeKey, Stem
<1>5. /\ ItemFor(v, s).k = full
      /\ ItemFor(v, s).pk = FirstTwo(Segments(full))
      /\ ItemFor(v, s).sk = Rest(Segments(full))
  BY DEF ItemFor, Split, Rest
<1>6. ASSUME v \in PathViews PROVE full = Segments(full)
  <2>1. PICK d \in Path : v = Append(d, NoName)
    BY <1>6 DEF PathViews
  <2>2. full = d \o p /\ Stem(v) = d
    BY <2>1, PathViewIs DEF NormalizeKey
  <2>3. Segments(d) = d
    BY <2>1, SegmentsType, SegmentsOfPath
  <2> QED
    BY <1>4, <2>2, <2>3
<1> HIDE DEF full, b, p
<1> QED
  BY <1>3, <1>4, <1>5, <1>6 DEF LiesAt, PathItem

\* The storage an application constructs has a prefix constructors make.
LEMMA InitTable == Init => TableInv
<1> SUFFICES ASSUME Init PROVE TableInv
  OBVIOUS
<1>1. PICK s \in Roots : views = {ConstructorPrefix(s)}
  BY DEF Init
<1>2. Segments(s) \in Path
  BY SettingAssumption, StringsAreStrings, SegmentsType
<1>3. \A v \in views : v \in ViewPrefixes
  BY <1>1, <1>2 DEF ConstructorPrefix, ViewPrefixes, BareSlash
<1> QED
  BY <1>3, PathOrBare DEF Init, TableInv, OwnInv

\* A write puts an item where its key says; views do not go, and a namespace of
\* a view at a path is a view at a path.
LEMMA StepTable == TableInv /\ [Next]_vars => TableInv'
<1> SUFFICES ASSUME TableInv, [Next]_vars PROVE TableInv'
  OBVIOUS
<1>1. ASSUME NEW v \in views, NEW s \in Strings, Write(v, s) PROVE TableInv'
  <2>1. ValidKey(s) /\ v \in ViewPrefixes
    BY <1>1 DEF Write, TableInv
  <2>2. /\ LiesAt(ItemFor(v, s), Segments(ItemFor(v, s).k))
        /\ v \in PathViews => PathItem(ItemFor(v, s))
    BY <2>1, ItemLies
  <2>3. views' = views /\ rows' \subseteq rows \cup {ItemFor(v, s)}
    BY <1>1 DEF Write
  <2>4. \A r \in rows' : LiesAt(r, Segments(r.k))
    BY <2>2, <2>3 DEF TableInv
  <2>5. BareSlash \notin views => \A r \in rows' : PathItem(r)
    BY <2>2, <2>3 DEF TableInv, OwnInv
  <2> QED
    BY <2>3, <2>4, <2>5 DEF TableInv, OwnInv
<1>2. ASSUME NEW v \in views, NEW s \in Strings, Delete(v, s) PROVE TableInv'
  BY <1>2 DEF Delete, TableInv, OwnInv
<1>3. ASSUME NEW v \in views, NEW s \in Strings, Namespace(v, s) PROVE TableInv'
  <2>1. rows' = rows /\ views' = views \cup {SubPrefix(v, s)}
    BY <1>3 DEF Namespace
  <2>2. SubPrefix(v, s) \in ViewPrefixes
    BY StringsAreStrings, NamespaceIs DEF TableInv
  <2>3. \A w \in views' : w \in ViewPrefixes
    BY <2>1, <2>2 DEF TableInv
  <2>4. BareSlash \notin views' => \A w \in views' : w \in PathViews
    BY <2>3, PathOrBare
  <2> QED
    BY <2>1, <2>3, <2>4 DEF TableInv, OwnInv
<1>4. CASE UNCHANGED vars
  BY <1>4 DEF vars, TableInv, OwnInv
<1> QED
  BY <1>1, <1>2, <1>3, <1>4 DEF Next

\* In every state: what views may be, and where items lie.
LEMMA AlwaysTable == Spec => []TableInv
BY InitTable, StepTable, PTL DEF Spec

-----------------------------------------------------------------------------
(* The keys of a view, in the table and in its answers.                    *)

\* The keys a view at b shows of the rows of one partition.
Within(b, pk) == {Shown(b, r.k) : r \in {q \in rows : IsBelow(q.k, b) /\ q.pk = pk}}

\* The keys of a view, by the rows they are the keys of.
LEMMA RelativeIs ==
  ASSUME OwnInv, NEW b \in Path, NEW v, v = Append(b, NoName)
  PROVE  Relative(v) = {Shown(b, r.k) : r \in {q \in rows : IsBelow(q.k, b)}}
<1>1. Base(v) = b
  BY PathViewIs
<1>2. \A r \in rows : Segments(r.k) = r.k
  BY SegmentsType, SegmentsOfPath DEF OwnInv, PathItem, LiesAt
<1>3. Paths = {r.k : r \in rows}
  BY <1>2 DEF Paths
<1> QED
  BY <1>1, <1>3 DEF Relative, Shown

\* The keys of a view that lie in one partition.
Here(v, pk) == {k \in Relative(v) : FirstTwo(Base(v) \o k) = pk}

\* Those that lie in one partition are shown of its rows.
LEMMA HereIs ==
  ASSUME OwnInv, NEW b \in Path, NEW v, v = Append(b, NoName), NEW pk
  PROVE  Here(v, pk) = Within(b, pk)
<1>1. Base(v) = b
  BY PathViewIs
<1>2. \A r \in rows : IsBelow(r.k, b) => FirstTwo(b \o Shown(b, r.k)) = r.pk
  BY ShownIs DEF OwnInv, PathItem, LiesAt
<1>3. Relative(v) = {Shown(b, r.k) : r \in {q \in rows : IsBelow(q.k, b)}}
  BY RelativeIs
<1> QED
  BY <1>1, <1>2, <1>3 DEF Within, Here

\* The key search makes of an item is the path at which the item lies.
LEMMA RebuildIs ==
  ASSUME NEW r, NEW k, LiesAt(r, k)
  PROVE  Rebuild(r) = k
<1> DEFINE n == Len(k)
<1>1. k \in Path /\ r.pk = FirstTwo(k) /\ r.sk = Rest(k) /\ n \in Nat /\ SubSeq(k, 1, n) = k
  BY LenProperties, SubSeqFull DEF LiesAt, Path
<1>2. CASE n <= 2
  <2>1. FirstTwo(k) = k
    <3>1. FirstTwo(k) = SubSeq(k, 1, n)
      <4>1. (IF n < 2 THEN n ELSE 2) = n
        <5> HIDE DEF n
        <5> QED
          BY <1>1, <1>2
      <4> QED
        BY <4>1 DEF FirstTwo
    <3> QED
      BY <1>1, <3>1
  <2>2. r.sk = <<Sentinel>>
    BY <1>1, <1>2 DEF Rest
  <2> QED
    BY <1>1, <2>1, <2>2 DEF Rebuild
<1>3. CASE n > 2
  <2>1. FirstTwo(k) = SubSeq(k, 1, 2) /\ Rest(k) = SubSeq(k, 3, n)
    BY <1>1, <1>3 DEF FirstTwo, Rest
  <2>2. FirstTwo(k) \o Rest(k) = k
    <3>1. 2 \in Nat /\ 2 <= Len(k) /\ 2 + 1 = 3
      BY <1>1, <1>3
    <3>2. SubSeq(k, 1, 2) \o SubSeq(k, 2 + 1, Len(k)) = k
      BY <1>1, <3>1, FrontAndBack DEF Path
    <3> QED
      BY <2>1, <3>1, <3>2
  <2>3. Rest(k) # <<Sentinel>>
    <3>1. 3 \in 1..Len(k) /\ 3 > 2 /\ 3 - 2 = 1
      BY <1>1, <1>3
    <3>2. Rest(k)[1] = k[3]
      BY <1>1, <1>3, <3>1, SplitParts DEF Path
    <3>3. k[3] \in Names
      BY <1>1, <3>1, ElementOfSeq DEF Path
    <3> QED
      BY <3>2, <3>3, NameAssumption
  <2> QED
    BY <1>1, <2>2, <2>3 DEF Rebuild
<1>4. n <= 2 \/ n > 2
  <2> HIDE DEF n
  <2> QED
    BY <1>1
<1> QED
  BY <1>2, <1>3, <1>4

\* What a search finds in one partition, and what a query lists of it.
LEMMA FoundIs ==
  ASSUME OwnInv, NEW b \in Path, NEW v, v = Append(b, NoName), NEW pk
  PROVE  Found(v, {pk}) = Within(b, pk)
<1> DEFINE K == {r.k : r \in {q \in rows : q.pk = pk}}
<1>1. {Rebuild(r) : r \in {q \in rows : q.pk \in {pk}}} = K
  BY RebuildIs DEF OwnInv, PathItem
<1>2. K \subseteq Path \ {<<>>}
  BY DEF OwnInv, PathItem, LiesAt
<1>3. Found(v, {pk}) = OwnKeys(v, K)
  BY <1>1 DEF Found
<1>4. OwnKeys(v, K) = {Shown(b, k) : k \in {j \in K : IsBelow(j, b)}}
  <2> HIDE DEF K
  <2> QED
    BY <1>2, OwnKeysAre
<1> QED
  BY <1>3, <1>4 DEF Within

\* Those among them whose sort key begins with p.
Chosen(b, pk, p) ==
  {Shown(b, r.k) : r \in {q \in rows : IsBelow(q.k, b) /\ q.pk = pk /\ StartsWith(q.sk, p)}}

\* listByQuery returns those, of a partition in scope.
LEMMA QueryIs ==
  ASSUME OwnInv, NEW b \in Path, NEW v, v = Append(b, NoName), NEW pk, InScope(v, pk), NEW p
  PROVE  ListByQuery(v, pk, p) = Listed(Chosen(b, pk, p))
<1> DEFINE K == {r.k : r \in {q \in rows : q.pk = pk /\ StartsWith(q.sk, p)}}
<1>1. K \subseteq Path \ {<<>>}
  BY DEF OwnInv, PathItem, LiesAt
<1>2. OwnKeys(v, K) = {Shown(b, k) : k \in {j \in K : IsBelow(j, b)}}
  <2> HIDE DEF K
  <2> QED
    BY <1>1, OwnKeysAre
<1>3. OwnKeys(v, K) = Chosen(b, pk, p)
  BY <1>2 DEF Chosen
<1> QED
  BY <1>3 DEF ListByQuery

\* Every string begins with nothing and every sort key is one.
LEMMA SortKeyStarts ==
  ASSUME NEW k \in Path
  PROVE  StartsWith(Rest(k), Root)
<1> DEFINE s == Rest(k)
<1>1. \E T : s \in Seq(T) /\ s # <<>>
  <2>1. CASE Len(k) <= 2
    <3>1. s = <<Sentinel>>
      BY <2>1 DEF Rest
    <3>2. <<Sentinel>> \in Seq({Sentinel}) /\ <<Sentinel>> # <<>>
      OBVIOUS
    <3> HIDE DEF s
    <3>3. s \in Seq({Sentinel}) /\ s # <<>>
      BY <3>1, <3>2, Zenon
    <3> QED
      BY <3>3
  <2>2. CASE Len(k) > 2
    <3>1. s \in Seq(Names) /\ Len(s) = Len(k) - 2 /\ Len(k) \in Nat
      BY <2>2, SplitParts DEF Path
    <3>2. Len(s) # 0
      <4> DEFINE n == Len(s)
                 l == Len(k)
      <4>1. n = l - 2 /\ l \in Nat /\ l > 2
        BY <2>2, <3>1
      <4> HIDE DEF n, l
      <4>2. n # 0
        BY <4>1
      <4> QED
        BY <4>2 DEF n
    <3> HIDE DEF s
    <3> QED
      BY <3>1, <3>2, EmptySeq
  <2>3. Len(k) <= 2 \/ Len(k) > 2
    BY LenProperties DEF Path
  <2> QED
    BY <2>1, <2>2, <2>3
<1> HIDE DEF s
<1>2. Len(s) \in Nat /\ Len(s) # 0
  BY <1>1, EmptySeq, LenProperties
<1>3. Len(Root) = 1 /\ End(Root) = NoName
  BY DEF Root, End
<1>4. SubSeq(s, 1, 0) = SubSeq(Root, 1, 0)
  <2>1. PICK T : s \in Seq(T)
    BY <1>1
  <2>2. Root \in Seq({NoName})
    BY DEF Root
  <2>3. SubSeq(s, 1, 0) = <<>> /\ SubSeq(Root, 1, 0) = <<>>
    BY <2>1, <2>2
  <2> QED
    BY <2>3
<1>5. StartsWith(s, Root)
  BY <1>2, <1>3, <1>4 DEF StartsWith
<1> QED
  BY <1>5 DEF s

\* The keys a view has in a partition whose sort key begins with p.
Asked(v, pk, p) == {k \in Here(v, pk) : StartsWith(Split(Base(v) \o k).sk, p)}

\* They are the same.
LEMMA ChosenIs ==
  ASSUME OwnInv, NEW b \in Path, NEW v, v = Append(b, NoName), NEW pk, NEW p
  PROVE  Chosen(b, pk, p) = Asked(v, pk, p)
<1>1. Base(v) = b
  BY PathViewIs
<1>2. \A r \in rows : IsBelow(r.k, b) => Split(b \o Shown(b, r.k)).sk = r.sk
  <2> SUFFICES ASSUME NEW r \in rows, IsBelow(r.k, b)
               PROVE  Split(b \o Shown(b, r.k)).sk = r.sk
    OBVIOUS
  <2>1. r.k \in Path /\ r.sk = Rest(r.k) /\ b \o Shown(b, r.k) = r.k
    BY ShownIs DEF OwnInv, PathItem, LiesAt
  <2>2. Segments(r.k) = r.k
    BY <2>1, SegmentsType, SegmentsOfPath
  <2> QED
    BY <2>1, <2>2 DEF Split, Rest
<1>3. Here(v, pk) = Within(b, pk)
  BY HereIs
<1> QED
  BY <1>1, <1>2, <1>3 DEF Within, Chosen, Asked

\* A view may name exactly the partitions above its path, at it or below it.
LEMMA ScopeIs ==
  ASSUME NEW b \in Path, NEW v, v = Append(b, NoName), NEW pk \in Path, pk # <<>>
  PROVE  InScope(v, pk) <=> OneBranch(pk, b)
<1> DEFINE n == Len(b)
           l == Len(pk)
           T == Names \cup {NoName}
           p == Append(pk, NoName)
<1>1. /\ v \in String /\ v # <<>> /\ n \in Nat /\ Len(v) = n + 1 /\ v[Len(v)] = NoName
      /\ \A i \in 1..n : v[i] = b[i]
  BY PathViewPlaces
<1>2. v = Root <=> n = 0
  BY PathViewIs, EmptySeq DEF Path
<1>3. l \in Nat /\ l # 0 /\ pk \in String /\ DOMAIN pk = 1..l /\ DOMAIN b = 1..n
  BY EmptySeq, LenProperties, SegmentsType DEF Path
<1>4. pk \in Seq(T) /\ NoName \in T
  BY <1>3 DEF String
<1>5. p \in String /\ p # <<>> /\ Len(p) = l + 1 /\ p[l + 1] = NoName /\ \A i \in 1..l : p[i] = pk[i]
  <2> HIDE DEF T
  <2>1. p \in Seq(T) /\ p # <<>> /\ Len(p) = Len(pk) + 1 /\ p[Len(pk) + 1] = NoName
        /\ \A i \in 1..Len(pk) : p[i] = pk[i]
    BY <1>4, AppendProperties
  <2> QED
    BY <2>1 DEF String, T
<1>6. End(pk) # NoName
  <2>1. l \in 1..l
    BY <1>3
  <2>2. pk[l] \in Names
    BY <2>1, ElementOfSeq DEF Path
  <2> QED
    BY <2>2, NameAssumption DEF End
<1> HIDE DEF n, l, T, p
<1>7. StartsWith(pk, v) <=> n + 1 <= l /\ \A i \in 1..n : pk[i] = b[i]
  <2>1. Meets(v, pk[Len(v)]) /\ Len(v) - 1 = n
    BY <1>1 DEF Meets, End
  <2>2. StartsWith(pk, v) <=> Len(v) <= Len(pk) /\ \A i \in 1..(Len(v) - 1) : pk[i] = v[i]
    BY <1>1, <1>3, <2>1, StartPlaces
  <2> QED
    BY <1>1, <2>1, <2>2 DEF l
<1>8. StartsWith(v, p) <=> l <= n /\ \A i \in 1..l : b[i] = pk[i]
  <2>1. Meets(p, v[Len(p)]) /\ Len(p) - 1 = l
    BY <1>3, <1>5 DEF Meets, End
  <2>2. StartsWith(v, p) <=> Len(p) <= Len(v) /\ \A i \in 1..l : v[i] = p[i]
    BY <1>1, <1>5, <2>1, StartPlaces
  <2>3. Len(p) <= Len(v) <=> l <= n
    BY <1>1, <1>3, <1>5
  <2>4. l <= n => \A i \in 1..l : v[i] = b[i] /\ p[i] = pk[i]
    BY <1>1, <1>3, <1>5
  <2> QED
    BY <2>2, <2>3, <2>4
<1>9. InScope(v, pk) <=> n = 0 \/ StartsWith(pk, v) \/ StartsWith(v, p)
  BY <1>2, <1>6 DEF InScope, p
<1>10. OneBranch(pk, b) <=> \A i \in 1..l : i <= n => pk[i] = b[i]
  BY <1>1, <1>3 DEF OneBranch
<1> QED
  BY <1>1, <1>3, <1>7, <1>8, <1>9, <1>10

\* The partition of a key at or below a path is on one branch with that path.
LEMMA OwnBranch ==
  ASSUME NEW b \in Path, NEW k \in Path, Len(b) <= Len(k), \A i \in 1..Len(b) : k[i] = b[i]
  PROVE  FirstTwo(k) \in Path /\ OneBranch(FirstTwo(k), b)
<1> DEFINE n == Len(b)
           l == Len(k)
           pk == FirstTwo(k)
           j == Len(pk)
<1>1. /\ l \in Nat /\ n \in Nat /\ pk \in Path
      /\ j = IF l < 2 THEN l ELSE 2
      /\ \A i \in 1..l : i <= 2 => pk[i] = k[i]
  BY SplitParts, LenProperties DEF Path
<1>2. DOMAIN pk = 1..j /\ DOMAIN b = 1..n
  BY <1>1, LenProperties DEF Path
<1>3. n <= l /\ \A i \in 1..n : k[i] = b[i]
  OBVIOUS
<1> HIDE DEF n, l, pk, j
<1>4. \A i \in 1..j : i \in 1..l /\ i <= 2
  BY <1>1
<1>5. OneBranch(pk, b)
  BY <1>1, <1>2, <1>3, <1>4 DEF OneBranch
<1> QED
  BY <1>1, <1>5 DEF pk

\* A view may name the partition of every key it has, and of its own path.
LEMMA ScopeReaches ==
  ASSUME NEW b \in Path, NEW v, v = Append(b, NoName),
         NEW g \in Path, FirstTwo(b \o g) # <<>>
  PROVE  InScope(v, FirstTwo(b \o g))
<1> DEFINE k == b \o g
<1>1. /\ k \in Path /\ Len(k) = Len(b) + Len(g) /\ Len(b) \in Nat /\ Len(g) \in Nat
      /\ \A i \in 1..Len(b) : k[i] = b[i]
  BY Joined, LenProperties DEF Path
<1> HIDE DEF k
<1>2. Len(b) <= Len(k)
  BY <1>1
<1>3. FirstTwo(k) \in Path /\ OneBranch(FirstTwo(k), b)
  BY <1>1, <1>2, OwnBranch
<1> QED
  BY <1>3, ScopeIs DEF k

\* The partition of a path is named by something.
LEMMA NamedPartition ==
  ASSUME NEW k \in Path, k # <<>>
  PROVE  FirstTwo(k) \in Path /\ FirstTwo(k) # <<>>
<1>1. Len(k) \in Nat /\ Len(k) # 0
  BY EmptySeq, LenProperties DEF Path
<1>2. FirstTwo(k) \in Path /\ Len(FirstTwo(k)) = IF Len(k) < 2 THEN Len(k) ELSE 2
  BY SplitParts DEF Path
<1>3. Len(FirstTwo(k)) # 0
  BY <1>1, <1>2
<1> QED
  BY <1>2, <1>3, EmptySeq DEF Path

\* No path begins with a bare slash, and no path leads to it.
LEMMA BareOwnsNothing ==
  ASSUME NEW k \in Path, k # <<>>
  PROVE  ~ Owns(BareSlash, k) /\ ~ InScope(BareSlash, k)
<1> DEFINE T == Names \cup {NoName}
           v == <<NoName, NoName>>
           e == Append(k, NoName)
           n == Len(k)
<1>1. n \in Nat /\ n # 0 /\ k \in Seq(T) /\ (\A i \in 1..n : k[i] \in Names)
  BY EmptySeq, LenProperties, ElementOfSeq, SegmentsType DEF Path, String
<1>2. /\ v \in Seq(T) /\ Len(v) = 2 /\ v[1] = NoName /\ v # Root /\ v # <<>>
      /\ BareSlash = v
  BY DEF Root, BareSlash
<1> HIDE DEF T, v
<1>3. e \in Seq(T) /\ Len(e) = n + 1 /\ e # <<>> /\ \A i \in 1..n : e[i] = k[i]
  <2>1. NoName \in T
    BY DEF T
  <2> QED
    BY <1>1, <2>1, AppendProperties
<1> HIDE DEF e, n
<1>4. 1 \in 1..n /\ k[1] # NoName
  BY <1>1, NameAssumption
<1>5. ~ StartsWith(k, v)
  <2>1. StartsWith(k, v) => \A i \in 1..(Len(v) - 1) : k[i] = v[i]
    BY <1>1, <1>2, StartPlaces DEF String, T
  <2> QED
    BY <1>2, <1>4, <2>1
<1>6. ~ StartsWith(v, e)
  <2>1. StartsWith(v, e) => \A i \in 1..(Len(e) - 1) : v[i] = e[i]
    BY <1>2, <1>3, StartPlaces DEF String, T
  <2>2. 1 \in 1..(Len(e) - 1)
    BY <1>1, <1>3, <1>4
  <2> QED
    BY <1>2, <1>3, <1>4, <2>1, <2>2
<1>7. End(k) # NoName
  <2>1. n \in 1..n
    BY <1>1
  <2> QED
    BY <1>1, <2>1, NameAssumption DEF End, n
<1> QED
  BY <1>2, <1>5, <1>6, <1>7 DEF Owns, InScope, e

\* A storage with the bare slash is refused every partition, and finds nothing.
LEMMA BareIsBlind ==
  ASSUME TableInv, NEW r \in rows
  PROVE  /\ Found(BareSlash, {r.pk}) = {}
         /\ \A p : ListByQuery(BareSlash, r.pk, p) = Refused
<1>1. \A q \in rows : Rebuild(q) \in Path /\ Rebuild(q) # <<>>
  <2> SUFFICES ASSUME NEW q \in rows PROVE Rebuild(q) \in Path /\ Rebuild(q) # <<>>
    OBVIOUS
  <2> DEFINE k == Segments(q.k)
  <2>1. LiesAt(q, k)
    BY DEF TableInv
  <2> HIDE DEF k
  <2>2. Rebuild(q) = k
    BY <2>1, RebuildIs
  <2> QED
    BY <2>1, <2>2 DEF LiesAt
<1>2. \A q \in rows : ~ Owns(BareSlash, Rebuild(q))
  BY <1>1, BareOwnsNothing
<1>3. Found(BareSlash, {r.pk}) = {}
  BY <1>2 DEF Found, OwnKeys
<1>4. r.pk \in Path /\ r.pk # <<>>
  BY NamedPartition DEF TableInv, LiesAt
<1>5. ~ InScope(BareSlash, r.pk)
  BY <1>4, BareOwnsNothing
<1> QED
  BY <1>3, <1>5 DEF ListByQuery

\* A view may name a partition exactly if one of their paths leads to the
\* other; of one it may name, a search finds the keys the view has there and a
\* listing those whose sort key begins with the prefix asked for, and of any
\* other it has none: for views and keys of any depth, and whichever names
\* begin with which.  A storage with the bare slash is refused all.
THEOREM ScopeExact == Spec => []ScopeIsExact
<1>1. TableInv => ScopeIsExact
  <2> SUFFICES ASSUME TableInv, NEW v \in views, NEW r \in rows,
                      v # BareSlash, BareSlash \notin views
               PROVE  LET here == {k \in Relative(v) : FirstTwo(Base(v) \o k) = r.pk}
                      IN  IF OneBranch(r.pk, Base(v))
                          THEN /\ InScope(v, r.pk)
                               /\ Found(v, {r.pk}) = here
                               /\ \A p \in Strings :
                                    ListByQuery(v, r.pk, p) =
                                      Listed({k \in here : StartsWith(Split(Base(v) \o k).sk, p)})
                          ELSE here = {} /\ \A p \in Strings : ListByQuery(v, r.pk, p) = Refused
    BY BareIsBlind DEF ScopeIsExact
  <2> OwnInv
    BY DEF TableInv
  <2>1. PICK b \in Path : v = Append(b, NoName)
    BY DEF OwnInv, PathViews
  <2>2. r.pk \in Path /\ r.pk # <<>> /\ Base(v) = b
    <3>1. r.k \in Path /\ r.k # <<>> /\ r.pk = FirstTwo(r.k)
      BY DEF OwnInv, PathItem, LiesAt
    <3>2. FirstTwo(r.k) \in Path /\ FirstTwo(r.k) # <<>>
      BY <3>1, NamedPartition
    <3> QED
      BY <2>1, <3>1, <3>2, PathViewIs
  <2> DEFINE pk == r.pk
  <2> HIDE DEF pk
  <2>3. InScope(v, pk) <=> OneBranch(pk, Base(v))
    BY <2>1, <2>2, ScopeIs DEF pk
  <2>4. Here(v, pk) = Within(b, pk)
    BY <2>1, HereIs
  <2>5. Found(v, {pk}) = Here(v, pk)
    BY <2>1, <2>4, FoundIs
  <2>6. ASSUME InScope(v, pk), NEW p
        PROVE  ListByQuery(v, pk, p)
                 = Listed({k \in Here(v, pk) : StartsWith(Split(Base(v) \o k).sk, p)})
    <3>1. ListByQuery(v, pk, p) = Listed(Chosen(b, pk, p))
      BY <2>1, <2>6, QueryIs
    <3>2. Chosen(b, pk, p) = Asked(v, pk, p)
      BY <2>1, ChosenIs
    <3> QED
      BY <3>1, <3>2, Zenon DEF Asked
  <2>7. ASSUME ~ InScope(v, pk), NEW p PROVE ListByQuery(v, pk, p) = Refused
    BY <2>7 DEF ListByQuery
  <2>8. ASSUME NEW k \in Here(v, pk) PROVE InScope(v, pk)
    <3>1. PICK q \in rows : IsBelow(q.k, b) /\ q.pk = pk
      BY <2>4 DEF Within
    <3>2. q.k \in Path /\ pk = FirstTwo(q.k)
      BY <3>1 DEF OwnInv, PathItem, LiesAt
    <3>3. Shown(b, q.k) \in Path /\ b \o Shown(b, q.k) = q.k
      BY <3>1, <3>2, ShownIs
    <3> DEFINE g == Shown(b, q.k)
    <3> HIDE DEF g
    <3>4. FirstTwo(b \o g) # <<>> => InScope(v, FirstTwo(b \o g))
      BY <2>1, <3>3, ScopeReaches DEF g
    <3> QED
      BY <2>2, <3>2, <3>3, <3>4 DEF pk, g
  <2> QED
    BY <2>3, <2>5, <2>6, <2>7, <2>8 DEF pk, Here
<1> QED
  BY <1>1, AlwaysTable, PTL

-----------------------------------------------------------------------------
(* The keys of a memory store.                                             *)

\* Paths that begin with the same two names lie in one partition.
LEMMA FirstTwoSame ==
  ASSUME NEW p \in Path, NEW q \in Path, Len(p) >= 2, Len(q) >= 2, p[1] = q[1], p[2] = q[2]
  PROVE  FirstTwo(p) = FirstTwo(q)
<1>1. 2 \in Nat /\ 2 <= Len(p) /\ 2 <= Len(q) /\ Len(p) \in Nat /\ Len(q) \in Nat
  BY LenProperties DEF Path
<1>2. FirstTwo(p) = SubSeq(p, 1, 2) /\ FirstTwo(q) = SubSeq(q, 1, 2)
  BY <1>1 DEF FirstTwo
<1>3. \A i \in 1..2 : p[i] = q[i]
  <2>1. \A i \in 1..2 : i = 1 \/ i = 2
    OBVIOUS
  <2> QED
    BY <2>1
<1>4. SubSeq(p, 1, 2) = SubSeq(q, 1, 2) <=> \A i \in 1..2 : p[i] = q[i]
  BY <1>1, SameFront DEF Path
<1> QED
  BY <1>2, <1>3, <1>4

\* All that lies below two names, under one path, lies in one partition.
LEMMA OnePartition ==
  ASSUME NEW b \in Path, NEW m \in Path, Len(m) = 2,
         NEW k \in Path, IsBelow(k, m), NEW j \in Path, IsBelow(j, m)
  PROVE  FirstTwo(b \o k) = FirstTwo(b \o j)
<1> DEFINE p == b \o k
           q == b \o j
           n == Len(b)
<1>1. /\ p \in Path /\ Len(p) = n + Len(k) /\ (\A i \in 1..n : p[i] = b[i])
      /\ \A i \in 1..Len(k) : p[n + i] = k[i]
  BY Joined DEF Path
<1>2. /\ q \in Path /\ Len(q) = n + Len(j) /\ (\A i \in 1..n : q[i] = b[i])
      /\ \A i \in 1..Len(j) : q[n + i] = j[i]
  BY Joined DEF Path
<1>3. Len(k) > 2 /\ Len(j) > 2 /\ \A i \in 1..2 : k[i] = m[i] /\ j[i] = m[i]
  <2>1. IsBelow(k, m) <=> Len(k) > Len(m) /\ \A i \in 1..Len(m) : k[i] = m[i]
    BY BelowPlaces
  <2>2. IsBelow(j, m) <=> Len(j) > Len(m) /\ \A i \in 1..Len(m) : j[i] = m[i]
    BY BelowPlaces
  <2> QED
    BY <2>1, <2>2
<1>4. n \in Nat /\ Len(k) \in Nat /\ Len(j) \in Nat
  BY LenProperties DEF Path
<1> HIDE DEF p, q, n
<1>5. \A i \in 1..2 : p[i] = q[i]
  <2> SUFFICES ASSUME NEW i \in 1..2 PROVE p[i] = q[i]
    OBVIOUS
  <2>1. CASE i <= n
    BY <1>1, <1>2, <1>4, <2>1
  <2>2. CASE i > n
    <3> DEFINE x == i - n
    <3>1. n + x = i /\ x \in 1..2 /\ x \in 1..Len(k) /\ x \in 1..Len(j)
      BY <1>3, <1>4, <2>2
    <3> HIDE DEF x
    <3> QED
      BY <1>1, <1>2, <1>3, <3>1
  <2> QED
    BY <1>4, <2>1, <2>2
<1>6. Len(p) >= 2 /\ Len(q) >= 2
  BY <1>1, <1>2, <1>3, <1>4
<1>7. FirstTwo(p) = FirstTwo(q)
  BY <1>1, <1>2, <1>5, <1>6, FirstTwoSame
<1> QED
  BY <1>7 DEF p, q

\* A memory store over any view searches one partition, which the view reaches,
\* and keeps of it exactly the memories of its name.
THEOREM StoresKeepTheirMemories == Spec => []MemoriesStayTogether
<1>1. TableInv => MemoriesStayTogether
  <2> SUFFICES ASSUME OwnInv, NEW v \in views, NEW name \in StoreNames
               PROVE  /\ InScope(v, StorePartition(v, name))
                      /\ Memories(v, name) = {k \in Relative(v) : IsBelow(k, <<Memory, name>>)}
    BY DEF TableInv, MemoriesStayTogether
  <2>1. PICK b \in Path : v = Append(b, NoName)
    BY DEF OwnInv, PathViews
  <2> DEFINE m == <<Memory, name>>
             id == CHOOSE x \in Names \ {DotDot} : TRUE
             key == <<Memory, name, id>>
  <2>2. name \in Names /\ Memory \in Names
    BY NameAssumption DEF StoreNames
  <2>3. id \in Names
    <3>1. \E x \in Names \ {DotDot} : TRUE
      BY NameAssumption
    <3> QED
      BY <3>1
  <2>4. m \in Path /\ Len(m) = 2 /\ m # <<>>
    BY <2>2 DEF Path
  <2>5. KeyPrefix(name) = Append(m, NoName)
    BY <2>2 DEF KeyPrefix
  <2> HIDE DEF id
  <2>6. key \in Path /\ key # <<>> /\ <<id>> \in Path /\ <<id>> # <<>> /\ key = m \o <<id>>
    BY <2>2, <2>3 DEF Path
  <2> HIDE DEF m, key
  <2>7. Under(KeyPrefix(name), <<id>>) = key
    BY <2>4, <2>5, <2>6, PathViewIs
  <2>8. IsBelow(key, m)
    BY <2>4, <2>6, PutBelow
  <2> DEFINE pk == FirstTwo(b \o key)
             full == b \o key
  <2>9. full \in Path /\ IsBelow(full, b)
    BY <2>6, PutBelow
  <2>10. StorePartition(v, name) = pk
    <3>1. Under(v, NormalizeKey(key)) = full
      <4>1. Segments(key) = key
        BY <2>6, SegmentsType, SegmentsOfPath
      <4>2. Under(v, key) = b \o key
        BY <2>1, PathViewIs
      <4> QED
        BY <4>1, <4>2 DEF NormalizeKey
    <3>2. Segments(full) = full
      BY <2>9, SegmentsType, SegmentsOfPath
    <3>3. StorePartition(v, name) = Split(Under(v, NormalizeKey(Under(KeyPrefix(name), <<id>>)))).pk
      BY DEF StorePartition, PartitionKey, MemoryKey, id
    <3>4. StorePartition(v, name) = Split(full).pk
      BY <2>7, <3>1, <3>3
    <3> QED
      BY <3>2, <3>4 DEF Split
  <2>11. InScope(v, pk)
    <3>1. full # <<>>
      BY <2>6, ConcatEqualIffEmpty DEF Path
    <3>2. pk # <<>>
      BY <2>9, <3>1, NamedPartition
    <3> QED
      BY <2>1, <2>6, <3>2, ScopeReaches
  <2>12. {k \in Relative(v) : FirstTwo(b \o k) = pk} = Found(v, {pk})
    <3> HIDE DEF pk
    <3>1. Found(v, {pk}) = Within(b, pk)
      BY <2>1, FoundIs
    <3>2. Here(v, pk) = Within(b, pk)
      BY <2>1, HereIs
    <3>3. Base(v) = b
      BY <2>1, PathViewIs
    <3> QED
      BY <3>1, <3>2, <3>3 DEF Here
  <2>13. \A k \in Relative(v) : k \in Path /\ k # <<>>
    <3>1. Relative(v) = {Shown(b, r.k) : r \in {q \in rows : IsBelow(q.k, b)}}
      BY <2>1, RelativeIs
    <3>2. \A r \in rows : IsBelow(r.k, b) => Shown(b, r.k) \in Path /\ Shown(b, r.k) # <<>>
      BY ShownIs DEF OwnInv, PathItem, LiesAt
    <3> QED
      BY <3>1, <3>2
  <2>14. \A k \in Relative(v) : StartsWith(k, KeyPrefix(name)) <=> IsBelow(k, m)
    <3> SUFFICES ASSUME NEW k \in Relative(v) PROVE StartsWith(k, KeyPrefix(name)) <=> IsBelow(k, m)
      OBVIOUS
    <3>1. Owns(KeyPrefix(name), k) <=> IsBelow(k, m)
      BY <2>4, <2>5, <2>13, OwnsBelow
    <3>2. KeyPrefix(name) # Root
      BY <2>4, <2>5, PathViewIs
    <3> QED
      BY <3>1, <3>2 DEF Owns
  <2>15. \A k \in Relative(v) : IsBelow(k, m) => FirstTwo(b \o k) = pk
    BY <2>4, <2>6, <2>8, <2>13, OnePartition
  <2>16. Memories(v, name) = {k \in Found(v, {pk}) : StartsWith(k, KeyPrefix(name))}
    BY <2>10 DEF Memories
  <2> HIDE DEF pk
  <2>17. Memories(v, name) = {k \in Relative(v) : IsBelow(k, m)}
    BY <2>12, <2>14, <2>15, <2>16
  <2> QED
    BY <2>10, <2>11, <2>17 DEF m
<1> QED
  BY <1>1, AlwaysTable, PTL

-----------------------------------------------------------------------------
(* Listing by a prefix.                                                    *)

\* A string of a path and perhaps a slash.
LEMMA NormalizedIs ==
  ASSUME NEW b \in Path, NEW v, v = Append(b, NoName), NEW s \in String, s # <<>>
  PROVE  LET full == Under(v, NormalizePrefix(s))
         IN  /\ full = b \o NormalizePrefix(s)
             /\ Segments(full) = b \o Segments(s)
             /\ \/ full = Append(b \o Segments(s), NoName) /\ End(full) = NoName
                \/ b \o Segments(s) # <<>> => full = b \o Segments(s) /\ End(full) # NoName
<1> DEFINE p == NormalizePrefix(s)
           path == b \o Segments(s)
<1>1. Under(v, p) = b \o p
  BY PathViewIs
<1>2. Segments(s) \in Path /\ p \in String /\ p # <<>> /\ Segments(p) = Segments(s)
  BY SegmentsType, PrefixSegments
<1>3. b \in AnyString /\ b \in AnyPath /\ p \in AnyString
  BY <1>2, SegmentsType
<1>4. Segments(b \o p) = path
  <2>1. Segments(b) = b
    BY <1>3, SegmentsOfPath
  <2>2. Segments(b \o p) = Segments(b) \o Segments(p)
    <3> HIDE DEF p
    <3> QED
      BY <1>3, SegmentsOfConcat
  <2> QED
    BY <1>2, <2>1, <2>2
<1>5. path \in Path
  BY <1>2, ConcatProperties DEF Path
<1>6. CASE p = Append(Segments(s), NoName)
  <2> DEFINE T == Names \cup {NoName}
             t == Segments(s)
             q == Append(path, NoName)
  <2>1. b \in Seq(T) /\ t \in Seq(T) /\ path \in Seq(T) /\ NoName \in T
    BY <1>2, <1>5, SegmentsType DEF String
  <2> HIDE DEF T
  <2>2. b \o p = Append(path, NoName)
    <3> HIDE DEF t
    <3>1. b \o Append(t, NoName) = Append(b \o t, NoName)
      BY <2>1
    <3> QED
      BY <1>6, <3>1 DEF t
  <2>3. End(q) = NoName
    <3> HIDE DEF path
    <3>1. Len(q) = Len(path) + 1 /\ q[Len(path) + 1] = NoName
      BY <2>1, AppendProperties
    <3> QED
      BY <3>1 DEF End
  <2> QED
    BY <1>1, <1>4, <2>2, <2>3
<1>7. CASE p = Segments(s)
  <2>1. ASSUME path # <<>> PROVE End(path) # NoName
    <3>1. path \in Seq(Names) /\ Len(path) \in 1..Len(path)
      BY <1>5, <2>1, EmptySeq, LenProperties DEF Path
    <3> HIDE DEF path
    <3>2. path[Len(path)] \in Names
      BY <3>1, ElementOfSeq
    <3> QED
      BY <3>2, NameAssumption DEF End
  <2> QED
    BY <1>1, <1>4, <1>7, <2>1
<1>8. p = Append(Segments(s), NoName) \/ p = Segments(s)
  BY <1>2 DEF NormalizePrefix, Root
<1> QED
  BY <1>6, <1>7, <1>8

\* A path of more than two names: its first two, and the rest.
LEMMA TwoAndRest ==
  ASSUME NEW k \in Path, Len(k) > 2
  PROVE  /\ FirstTwo(k) = SubSeq(k, 1, 2) /\ Rest(k) = SubSeq(k, 3, Len(k))
         /\ FirstTwo(k) \in Path /\ Rest(k) \in Path /\ Rest(k) # <<>>
         /\ FirstTwo(k) \o Rest(k) = k
<1> DEFINE n == Len(k)
<1>1. n \in Nat
  BY LenProperties DEF Path
<1>2. FirstTwo(k) = SubSeq(k, 1, 2) /\ Rest(k) = SubSeq(k, 3, n)
  BY <1>1 DEF FirstTwo, Rest
<1>3. FirstTwo(k) \in Path /\ Rest(k) \in Path /\ Len(Rest(k)) = n - 2
  BY SplitParts DEF Path
<1>4. SubSeq(k, 1, 2) \o SubSeq(k, 3, n) = k
  <2>1. 2 \in Nat /\ 2 <= Len(k) /\ 2 + 1 = 3
    BY <1>1
  <2>2. SubSeq(k, 1, 2) \o SubSeq(k, 2 + 1, Len(k)) = k
    BY <2>1, FrontAndBack DEF Path
  <2> QED
    BY <2>1, <2>2
<1>5. Rest(k) # <<>>
  <2> DEFINE m == Len(Rest(k))
  <2>1. m = n - 2 /\ n \in Nat /\ n > 2
    BY <1>1, <1>3
  <2> HIDE DEF m, n
  <2>2. m # 0
    BY <2>1
  <2> QED
    BY <2>2, EmptySeq DEF m
<1> QED
  BY <1>2, <1>3, <1>4, <1>5

\* Of the rows of its partition, the query of listByPrefix misses none whose key
\* begins with the prefix.
LEMMA QueryMissesNone ==
  ASSUME NEW path \in Path, Len(path) >= 2, NEW full, Segments(full) = path,
         \/ full = Append(path, NoName) /\ End(full) = NoName
         \/ full = path /\ End(full) # NoName,
         NEW k \in Path, FirstTwo(k) = FirstTwo(path), StartsWith(k, full)
  PROVE  StartsWith(Rest(k), SkPrefix(full))
<1> DEFINE T == Names \cup {NoName}
           t == SubSeq(path, 3, Len(path))
           x == IF End(full) = NoName THEN Append(t, NoName) ELSE t
<1>1. CASE Len(path) = 2
  <2>1. t = <<>>
    <3>1. SubSeq(path, 3, 2) = <<>>
      BY DEF Path
    <3> QED
      BY <1>1, <3>1
  <2>2. SkPrefix(full) = Root
    BY <2>1 DEF SkPrefix
  <2> QED
    BY <2>2, SortKeyStarts
<1>2. CASE Len(path) > 2
  <2> DEFINE h == FirstTwo(path)
  <2>1. h \in Path /\ t \in Path /\ t # <<>> /\ h \o t = path
    BY <1>2, TwoAndRest
  <2>2. SkPrefix(full) = x
    BY <2>1 DEF SkPrefix
  <2>3. h \in Seq(T) /\ t \in Seq(T) /\ NoName \in T /\ path \in Seq(T)
    BY <2>1, SegmentsType DEF String
  <2> HIDE DEF h, t, T
  <2>4. x \in Seq(T) /\ x # <<>> /\ h \o x = full
    <3>1. Append(t, NoName) \in Seq(T) /\ Append(t, NoName) # <<>>
      BY <2>3, AppendProperties
    <3>2. h \o Append(t, NoName) = Append(h \o t, NoName)
      BY <2>3
    <3> QED
      BY <2>1, <2>3, <3>1, <3>2
  <2>5. Len(k) > 2
    <3>1. Len(full) <= Len(k) /\ Len(k) \in Nat /\ Len(path) \in Nat
      BY LenProperties DEF StartsWith, Path
    <3>2. Len(full) \in {Len(path), Len(path) + 1}
      <4>1. Len(Append(path, NoName)) = Len(path) + 1
        BY <2>3, AppendProperties
      <4> QED
        BY <4>1
    <3> DEFINE lf == Len(full)
               lp == Len(path)
               lk == Len(k)
    <3>3. lf <= lk /\ lk \in Nat /\ lp \in Nat /\ lf \in {lp, lp + 1} /\ lp > 2
      BY <1>2, <3>1, <3>2
    <3> HIDE DEF lf, lp, lk
    <3>4. lk > 2
      BY <3>3
    <3> QED
      BY <3>4 DEF lk
  <2>6. h \o Rest(k) = k /\ Rest(k) \in Path
    BY <2>5, TwoAndRest DEF h
  <2> DEFINE q == Rest(k)
  <2> HIDE DEF q, x
  <2>7. q \in String /\ h \in String /\ x \in String
    BY <2>3, <2>4, <2>6, SegmentsType DEF String, T, q
  <2>8. StartsWith(h \o q, h \o x) <=> StartsWith(q, x)
    BY <2>4, <2>7, StartBehind
  <2>9. StartsWith(q, x)
    BY <2>4, <2>6, <2>8 DEF q
  <2> QED
    BY <2>2, <2>9 DEF q
<1>3. Len(path) = 2 \/ Len(path) > 2
  <2> DEFINE n == Len(path)
  <2>1. n \in Nat /\ n >= 2
    BY LenProperties DEF Path
  <2> HIDE DEF n
  <2>2. n = 2 \/ n > 2
    BY <2>1
  <2> QED
    BY <2>2 DEF n
<1> QED
  BY <1>1, <1>2, <1>3

\* Listing by a string prefix returns the keys of the view that begin with it,
\* out of the partition the prefix names, for every prefix and view: the sort
\* keys the query asks for leave none out, and the filter lets no other pass.
THEOREM PrefixListingExact == Spec => []ListsItsPrefix
<1>1. TableInv => ListsItsPrefix
  <2> SUFFICES ASSUME OwnInv, NEW v \in views, NEW s \in Strings, Narrow(v, s)
               PROVE  ListByPrefix(v, s) =
                        Listed({k \in Relative(v) :
                           /\ StartsWith(k, NormalizePrefix(s))
                           /\ FirstTwo(Base(v) \o k) = Partition(Under(v, NormalizePrefix(s)))})
    BY DEF TableInv, ListsItsPrefix
  <2>1. PICK b \in Path : v = Append(b, NoName)
    BY DEF OwnInv, PathViews
  <2>2. s \in String /\ s # <<>>
    BY StringsAreStrings
  <2> DEFINE p == NormalizePrefix(s)
             full == Under(v, p)
             path == b \o Segments(s)
             P == Partition(full)
  <2>3. /\ full = b \o p /\ Segments(full) = path
        /\ \/ full = Append(path, NoName) /\ End(full) = NoName
           \/ path # <<>> => full = path /\ End(full) # NoName
    BY <2>1, <2>2, NormalizedIs
  <2>4. path \in Path /\ p \in String /\ p # <<>>
    BY <2>2, SegmentsType, PrefixSegments, ConcatProperties DEF Path
  <2>5. Len(path) >= 2
    BY <2>3 DEF Narrow
  <2> HIDE DEF p, path
  <2>6. path # <<>>
    <3>1. Len(<<>>) = 0
      OBVIOUS
    <3> QED
      BY <2>5, <3>1
  <2>7. P = FirstTwo(path)
    BY <2>3 DEF Partition
  <2> DEFINE y == full
             pk == P
             q == SkPrefix(y)
  <2>8. Here(v, pk) = Within(b, pk)
    <3> HIDE DEF pk
    <3> QED
      BY <2>1, HereIs
  <2>18. InScope(v, pk)
    <3>1. Segments(s) \in Path /\ path = b \o Segments(s)
      BY <2>2, SegmentsType DEF path
    <3>2. FirstTwo(path) # <<>>
      BY <2>4, <2>6, NamedPartition
    <3> DEFINE g == Segments(s)
    <3> HIDE DEF g
    <3>3. FirstTwo(b \o g) # <<>> => InScope(v, FirstTwo(b \o g))
      BY <2>1, <3>1, ScopeReaches DEF g
    <3> QED
      BY <2>7, <3>1, <3>2, <3>3 DEF g
  <2>9. ListByQuery(v, pk, q) = Listed(Chosen(b, pk, q))
    <3> HIDE DEF pk, q
    <3> QED
      BY <2>1, <2>18, QueryIs
  <2> HIDE DEF y
  <2>10. y = b \o p /\ Segments(y) = path /\ ((y = Append(path, NoName) /\ End(y) = NoName)
                                               \/ (y = path /\ End(y) # NoName))
    BY <2>3, <2>6 DEF y
  <2>11. ASSUME NEW r \in rows, IsBelow(r.k, b), r.pk = pk, StartsWith(Shown(b, r.k), p)
         PROVE  StartsWith(r.sk, q)
    <3> DEFINE k == r.k
               g == Shown(b, k)
    <3>1. k \in Path /\ r.sk = Rest(k) /\ FirstTwo(k) = FirstTwo(path)
      BY <2>7, <2>11 DEF OwnInv, PathItem, LiesAt, y
    <3>2. g \in Path /\ b \o g = k
      BY <2>11, <3>1, ShownIs
    <3> HIDE DEF g, k
    <3>3. g \in String /\ b \in String
      BY <3>2, SegmentsType
    <3>4. StartsWith(b \o g, b \o p) <=> StartsWith(g, p)
      BY <2>4, <3>3, StartBehind
    <3>5. StartsWith(k, y)
      BY <2>10, <2>11, <3>2, <3>4 DEF g, k
    <3>6. StartsWith(Rest(k), SkPrefix(y))
      BY <2>4, <2>5, <2>10, <3>1, <3>5, QueryMissesNone
    <3> QED
      BY <3>1, <3>6
  <2>12. {k \in Chosen(b, pk, q) : StartsWith(k, p)} = {k \in Within(b, pk) : StartsWith(k, p)}
    <3> HIDE DEF pk, q
    <3> QED
      BY <2>11 DEF Chosen, Within
  <2>13. ListByPrefix(v, s) = Listed({k \in Chosen(b, pk, q) : StartsWith(k, p)})
    <3>1. ListByPrefix(v, s)
            = IF ListByQuery(v, pk, q).thrown THEN Refused
              ELSE Listed({k \in ListByQuery(v, pk, q).keys : StartsWith(k, p)})
      BY DEF ListByPrefix, p, y
    <3>2. ~ Listed(Chosen(b, pk, q)).thrown
          /\ Listed(Chosen(b, pk, q)).keys = Chosen(b, pk, q)
      BY DEF Listed
    <3> HIDE DEF pk, q
    <3> QED
      BY <2>9, <3>1, <3>2
  <2>14. {k \in Relative(v) : StartsWith(k, p) /\ FirstTwo(Base(v) \o k) = P}
           = {k \in Here(v, pk) : StartsWith(k, p)}
    BY DEF Here, y
  <2> HIDE DEF pk, q
  <2>15. ListByPrefix(v, s) = Listed({k \in Here(v, pk) : StartsWith(k, p)})
    BY <2>8, <2>12, <2>13
  <2> QED
    BY <2>14, <2>15 DEF p, pk
<1> QED
  BY <1>1, AlwaysTable, PTL
-----------------------------------------------------------------------------
(* The two packages.                                                       *)

\* The segments of one name, which may be empty.
LEMMA SegmentsOfOne ==
  ASSUME NEW e \in Names \cup {NoName}
  PROVE  <<e>> \in String /\ Segments(<<e>>) = IF e = NoName THEN <<>> ELSE <<e>>
<1> DEFINE T == Names \cup {NoName}
           empty == <<>>
<1>1. empty \in Seq(T) /\ e \in T /\ Append(empty, e) = <<e>>
  OBVIOUS
<1>2. e = NoName <=> e \notin Names \cup {Sentinel}
  BY NameAssumption
<1>3. Segments(empty) = empty
  BY KeptEmpty DEF Segments
<1> HIDE DEF T, empty
<1>4. Segments(Append(empty, e)) = IF e \in Names \cup {Sentinel} THEN Append(Segments(empty), e)
                                   ELSE Segments(empty)
  BY <1>1, KeptAppend DEF Segments
<1>5. <<e>> \in String
  BY DEF String
<1> QED
  BY <1>1, <1>2, <1>3, <1>4, <1>5 DEF empty

\* A sequence of one element.
LEMMA OneElement ==
  ASSUME NEW T, NEW s \in Seq(T), Len(s) = 1
  PROVE  s = <<s[1]>>
OBVIOUS

\* A string of two names or more: the first, the last, and what is between.
LEMMA EndsAndMiddle ==
  ASSUME NEW T, NEW s \in Seq(T), Len(s) >= 2
  PROVE  /\ s[1] \in T /\ End(s) \in T /\ SubSeq(s, 2, Len(s) - 1) \in Seq(T)
         /\ s = <<s[1]>> \o SubSeq(s, 2, Len(s) - 1) \o <<End(s)>>
<1> DEFINE n == Len(s)
           f == SubSeq(s, 1, n - 1)
           m == SubSeq(f, 2, Len(f))
<1>1. n \in Nat /\ n >= 2 /\ 1 \in 1..n /\ n \in 1..n /\ n - 1 \in Nat /\ n - 1 <= n /\ 1 <= n - 1
  BY LenProperties
<1>2. s[1] \in T /\ s[n] \in T
  BY <1>1, ElementOfSeq
<1>3. f \in Seq(T) /\ Len(f) = n - 1 /\ \A i \in 1..(n - 1) : f[i] = s[i]
  BY <1>1, Front
<1>4. f \o SubSeq(s, (n - 1) + 1, Len(s)) = s
  BY <1>1, FrontAndBack
<1>5. SubSeq(s, (n - 1) + 1, Len(s)) = <<s[n]>>
  <2> DEFINE l == n - 1
             g == SubSeq(s, l + 1, Len(s))
  <2>1. l \in Nat /\ l <= n /\ n - l = 1 /\ l + 1 = n
    BY <1>1
  <2> HIDE DEF l
  <2>2. g \in Seq(T) /\ Len(g) = n - l /\ \A i \in 1..(n - l) : g[i] = s[l + i]
    BY <2>1, Back
  <2> HIDE DEF g
  <2>3. Len(g) = 1 /\ g[1] = s[n]
    BY <2>1, <2>2
  <2>4. g = <<g[1]>>
    BY <2>2, <2>3, OneElement
  <2> QED
    BY <2>3, <2>4 DEF g, l
<1> HIDE DEF f
<1>6. m \in Seq(T) /\ Len(m) = Len(f) - 1 /\ SubSeq(f, 1, 1) \o m = f
  <2>1. 1 \in Nat /\ 1 <= Len(f) /\ 1 + 1 = 2
    BY <1>1, <1>3
  <2>2. SubSeq(f, 1 + 1, Len(f)) \in Seq(T) /\ Len(SubSeq(f, 1 + 1, Len(f))) = Len(f) - 1
    BY <1>3, <2>1, Back
  <2>3. SubSeq(f, 1, 1) \o SubSeq(f, 1 + 1, Len(f)) = f
    BY <1>3, <2>1, FrontAndBack
  <2> QED
    BY <2>1, <2>2, <2>3
<1>7. SubSeq(f, 1, 1) = <<s[1]>>
  <2> DEFINE g == SubSeq(f, 1, 1)
  <2>1. f[1] = s[1] /\ 1 \in Nat /\ 1 <= Len(f)
    BY <1>1, <1>3
  <2>2. g \in Seq(T) /\ Len(g) = 1 /\ \A i \in 1..1 : g[i] = f[i]
    BY <1>3, <2>1, Front
  <2> HIDE DEF g
  <2>3. g = <<g[1]>>
    BY <2>2, OneElement
  <2>4. g[1] = f[1]
    BY <2>2
  <2> QED
    BY <2>1, <2>3, <2>4 DEF g
<1>8. m = SubSeq(s, 2, n - 1)
  <2> DEFINE g == SubSeq(s, 2, n - 1)
  <2>1. /\ g \in Seq(T) /\ Len(g) = n - 2
        /\ \A i \in 1..(n - 2) : g[i] = s[1 + i]
    <3> DEFINE l == n - 1
    <3>1. l \in Nat /\ 2 \in Nat /\ 1 <= 2 /\ 2 <= l + 1 /\ l <= Len(s) /\ l \in Int
      BY <1>1
    <3>2. \A i \in 2..l : s[i] \in T
      BY <1>1, <3>1, ElementOfSeq
    <3> HIDE DEF l
    <3>3. /\ SubSeq(s, 2, l) \in Seq(T)
          /\ Len(SubSeq(s, 2, l)) = IF 2 <= l THEN l - 2 + 1 ELSE 0
          /\ \A i \in 1..(l - 2 + 1) : SubSeq(s, 2, l)[i] = s[2 + i - 1]
      BY <3>1, <3>2, SubSeqProperties
    <3>4. (IF 2 <= l THEN l - 2 + 1 ELSE 0) = n - 2 /\ l - 2 + 1 = n - 2
      <4> HIDE DEF n
      <4> QED
        BY <1>1 DEF l
    <3>5. \A i \in 1..(n - 2) : 2 + i - 1 = 1 + i
      OBVIOUS
    <3> HIDE DEF n
    <3> QED
      BY <3>3, <3>4, <3>5 DEF l
  <2>2. \A i \in 1..(n - 2) : m[i] = f[1 + i] /\ 1 + i \in 1..(n - 1)
    BY <1>1, <1>3
  <2>3. Len(m) = n - 2
    BY <1>1, <1>3, <1>6
  <2> HIDE DEF m, g
  <2>4. \A i \in 1..Len(m) : m[i] = g[i]
    BY <1>3, <2>1, <2>2, <2>3
  <2>5. Len(m) = Len(g)
    BY <2>1, <2>3
  <2>6. m = g
    BY <1>6, <2>1, <2>4, <2>5, SeqEqual
  <2> QED
    BY <2>6 DEF g
<1> HIDE DEF m
<1>9. s = <<s[1]>> \o m \o <<s[n]>>
  BY <1>4, <1>5, <1>6, <1>7
<1> QED
  BY <1>2, <1>6, <1>8, <1>9 DEF End

\* What the Python package makes of a prefix: its segments, the last one perhaps
\* empty.
LEMMA CollapsedIs ==
  ASSUME NEW s \in String, s # <<>>
  PROVE  \E d \in Path, e \in Names \cup {NoName} :
           /\ StripLeft(Collapse(s)) = Append(d, e) /\ End(s) = e
           /\ Segments(s) = IF e = NoName THEN d ELSE Append(d, e)
<1> DEFINE T == Names \cup {NoName}
           n == Len(s)
<1>1. s \in Seq(T) /\ n \in Nat /\ n # 0
  BY EmptySeq, LenProperties DEF String
<1>2. CASE n = 1
  <2>1. s = <<s[1]>> /\ s[1] \in T /\ End(s) = s[1]
    BY <1>1, <1>2 DEF End
  <2>2. StripLeft(Collapse(s)) = s
    <3>1. Collapse(s) = s
      BY <1>2 DEF Collapse
    <3>2. ~ (Len(s) > 1)
      BY <1>2
    <3> QED
      BY <3>1, <3>2 DEF StripLeft
  <2>3. Segments(s) = IF s[1] = NoName THEN <<>> ELSE <<s[1]>>
    <3> DEFINE e == s[1]
    <3>1. e \in T /\ s = <<e>>
      BY <2>1
    <3> HIDE DEF e
    <3>2. Segments(<<e>>) = IF e = NoName THEN <<>> ELSE <<e>>
      BY <3>1, SegmentsOfOne
    <3> QED
      BY <3>1, <3>2 DEF e
  <2>4. <<>> \in Path /\ Append(<<>>, s[1]) = <<s[1]>>
    BY DEF Path
  <2> QED
    BY <2>1, <2>2, <2>3, <2>4
<1>3. CASE n >= 2
  <2> DEFINE a == s[1]
             e == End(s)
             m == SubSeq(s, 2, n - 1)
             M == Segments(m)
             A == Segments(<<a>>)
             E == Segments(<<e>>)
             c == Collapse(s)
             d == A \o M
  <2>1. a \in T /\ e \in T /\ m \in Seq(T) /\ s = <<a>> \o m \o <<e>>
    BY <1>1, <1>3, EndsAndMiddle
  <2>2. c = <<a>> \o M \o <<e>>
    <3>1. Len(s) # 1
      <4>1. n # 1
        <5> HIDE DEF n
        <5> QED
          BY <1>1, <1>3
      <4> QED
        BY <4>1
    <3> QED
      BY <3>1 DEF Collapse
  <2> HIDE DEF a, e, m, c
  <2>3. /\ A = IF a = NoName THEN <<>> ELSE <<a>>
        /\ E = IF e = NoName THEN <<>> ELSE <<e>>
        /\ <<a>> \in AnyString /\ <<e>> \in AnyString /\ <<a>> \in String /\ <<e>> \in String
    BY <2>1, SegmentsOfOne, SegmentsType
  <2>4. m \in AnyString /\ m \in String
    BY <2>1, SegmentsType DEF String
  <2>5. Segments(s) = A \o M \o E
    <3>1. <<a>> \o m \in AnyString /\ Segments(<<a>> \o m) = A \o M
      BY <2>3, <2>4, SegmentsOfConcat
    <3> DEFINE am == <<a>> \o m
    <3> HIDE DEF am, A, M, E
    <3>2. Segments(am \o <<e>>) = Segments(am) \o Segments(<<e>>)
      BY <2>3, <3>1, SegmentsOfConcat DEF am
    <3> QED
      BY <2>1, <3>1, <3>2 DEF am, E
  <2>6. A \in Path /\ M \in Path /\ E \in Path /\ d \in Path
    <3>1. A \in Path /\ M \in Path /\ E \in Path
      BY <2>3, <2>4, SegmentsType
    <3> HIDE DEF A, M, E
    <3> QED
      BY <3>1, ConcatProperties DEF Path
  <2>7. M \in Seq(T) /\ d \in Seq(T)
    BY <2>6, SegmentsType DEF String
  <2> HIDE DEF M, A, E, T
  <2>8. StripLeft(c) = Append(d, e)
    <3> DEFINE r == M \o <<e>>
    <3>1. r \in Seq(T) /\ Len(r) = Len(M) + 1 /\ Len(M) \in Nat /\ c = <<a>> \o r
      BY <2>1, <2>2, <2>7
    <3> HIDE DEF r
    <3>2. c \in Seq(T) /\ Len(c) = Len(r) + 1 /\ c[1] = a /\ Tail(c) = r
      BY <2>1, <3>1
    <3>3. Len(c) > 1
      BY <3>1, <3>2
    <3>4. StripLeft(c) = IF a = NoName THEN r ELSE c
      BY <3>2, <3>3 DEF StripLeft
    <3>5. CASE a = NoName
      <4>1. d = M
        BY <2>3, <2>7, <3>5, ConcatEmptySeq
      <4>2. Append(M, e) = M \o <<e>>
        BY <2>1, <2>7, AppendIsConcat
      <4> QED
        BY <3>4, <3>5, <4>1, <4>2 DEF r
    <3>6. CASE a # NoName
      <4>1. d = <<a>> \o M
        BY <2>3, <3>6
      <4>2. Append(d, e) = d \o <<e>>
        <5> HIDE DEF d
        <5> QED
          BY <2>1, <2>7, AppendIsConcat
      <4> QED
        BY <2>2, <3>4, <3>6, <4>1, <4>2
    <3> QED
      BY <3>5, <3>6
  <2>9. Segments(s) = IF e = NoName THEN d ELSE Append(d, e)
    <3>1. Append(d, e) = d \o <<e>>
      <4> HIDE DEF d
      <4> QED
        BY <2>1, <2>7, AppendIsConcat
    <3>2. d \o <<>> = d
      <4> HIDE DEF d
      <4> QED
        BY <2>7, ConcatEmptySeq
    <3> QED
      BY <2>3, <2>5, <3>1, <3>2
  <2> QED
    BY <2>1, <2>6, <2>8, <2>9 DEF c, e, T
<1>4. n = 1 \/ n >= 2
  <2> HIDE DEF n
  <2> QED
    BY <1>1
<1> QED
  BY <1>2, <1>3, <1>4

\* The packages agree on a string.
LEMMA PackagesAgree ==
  ASSUME NEW s \in String, s # <<>>
  PROVE  /\ NormalizePrefixPy(s) = NormalizePrefix(s)
         /\ NormalizeKeyPy(s) = IF Segments(s) = <<>> THEN Root ELSE NormalizeKey(s)
<1>1. PICK d \in Path, e \in Names \cup {NoName} :
           /\ StripLeft(Collapse(s)) = Append(d, e) /\ End(s) = e
           /\ Segments(s) = IF e = NoName THEN d ELSE Append(d, e)
  BY CollapsedIs
<1> DEFINE T == Names \cup {NoName}
           v == Append(d, e)
<1>2. d \in Seq(T) /\ e \in T
  BY SegmentsType DEF String
<1> HIDE DEF T
<1>3. v \in Seq(T) /\ v # <<>> /\ Len(v) = Len(d) + 1 /\ v[Len(d) + 1] = e /\ Len(d) \in Nat
  BY <1>2, AppendProperties, LenProperties
<1>4. Stem(v) = d
  BY <1>2, StemOfAppend
<1>5. End(v) = e
  BY <1>3 DEF End
<1>6. Len(d) = 0 <=> d = <<>>
  BY <1>2, EmptySeq
<1>7. e = NoName /\ d = <<>> => v = Root
  BY DEF Root
<1>8. StripRight(v) = IF Len(v) > 1 /\ e = NoName THEN d ELSE v
  BY <1>4, <1>5 DEF StripRight, Stem
<1>9. Len(v) > 1 <=> d # <<>>
  BY <1>3, <1>6
<1>10. NormalizePrefixPy(s) = v /\ NormalizeKeyPy(s) = StripRight(v)
  BY <1>1 DEF NormalizePrefixPy, NormalizeKeyPy
<1> HIDE DEF v
<1>11. Segments(s) = IF e = NoName THEN d ELSE v
  BY <1>1 DEF v
<1>12. NormalizePrefix(s) = IF Segments(s) = <<>> THEN Root
                            ELSE IF e = NoName THEN Append(Segments(s), NoName) ELSE Segments(s)
  BY <1>1 DEF NormalizePrefix
<1>13. NormalizePrefixPy(s) = NormalizePrefix(s)
  <2>1. CASE e = NoName
    <3>1. v = Append(d, NoName)
      BY <2>1 DEF v
    <3> QED
      BY <1>7, <1>10, <1>11, <1>12, <2>1, <3>1
  <2>2. CASE e # NoName
    BY <1>3, <1>10, <1>11, <1>12, <2>2
  <2> QED
    BY <2>1, <2>2
<1>14. NormalizeKeyPy(s) = IF Segments(s) = <<>> THEN Root ELSE NormalizeKey(s)
  BY <1>3, <1>7, <1>8, <1>9, <1>10, <1>11 DEF NormalizeKey
<1> QED
  BY <1>13, <1>14

\* The normalisers of the two packages make the same storage key, and the same
\* list prefix, of every string a caller passes, with slashes in any number at
\* any place and whatever the names are.
THEOREM PackagesShareKeys == Spec => []LanguagesAgree
<1>1. LanguagesAgree
  <2> SUFFICES ASSUME NEW v \in views, NEW s \in Strings
               PROVE  /\ ValidKey(s) => Under(v, NormalizeKeyPy(s)) = Under(v, NormalizeKey(s))
                      /\ ~ValidKey(s) => Escapes(s) \/ NormalizeKeyPy(s) = Root
                      /\ Under(v, NormalizePrefixPy(s)) = Under(v, NormalizePrefix(s))
    BY DEF LanguagesAgree
  <2>1. s \in String /\ s # <<>>
    BY StringsAreStrings
  <2>2. NormalizePrefixPy(s) = NormalizePrefix(s)
    BY <2>1, PackagesAgree
  <2>3. NormalizeKeyPy(s) = IF Segments(s) = <<>> THEN Root ELSE NormalizeKey(s)
    BY <2>1, PackagesAgree
  <2> QED
    BY <2>2, <2>3 DEF ValidKey
<1> QED
  BY <1>1, PTL
=============================================================================
