--------------------------- MODULE SessionProofs ---------------------------
(***************************************************************************)
(* Theorems about Session: for records and buffers of any length, any      *)
(* number of packets, retransmissions and faults of the network.           *)
(***************************************************************************)
EXTENDS Session, FiniteSetTheorems, SequenceTheorems, WellFoundedInduction, TLAPS

-----------------------------------------------------------------------------
(***************************************************************************)
(* Numbers and sequences                                                   *)
(***************************************************************************)

(* A set of naturals has a least element.                                  *)
LEMMA Least ==
  ASSUME NEW S \in SUBSET Nat, S # {}
  PROVE  \E m \in S : \A n \in S : m <= n
<1> DEFINE R == OpToRel(<, Nat)
<1>1. IsWellFoundedOn(R, Nat)
  BY NatLessThanWellFounded
<1>2. \A x, y \in Nat : <<y, x>> \notin R => x <= y
  BY DEF OpToRel
<1> HIDE DEF R
<1>3. PICK m \in S : \A n \in S : <<n, m>> \notin R
  BY <1>1, WFMin
<1>. QED
  BY <1>2, <1>3

LEMMA MinOfTwo ==
  ASSUME NEW a \in Nat, NEW b \in Nat
  PROVE  Min({a, b}) = IF a <= b THEN a ELSE b
BY DEF Min

(* A finite set of naturals has an element with k - 1 smaller ones, for    *)
(* all k up to its size.                                                   *)
LEMMA Ranks ==
  ASSUME NEW S \in SUBSET Nat, IsFiniteSet(S), NEW k \in 1 .. Cardinality(S)
  PROVE  \E i \in S : Cardinality({j \in S : j <= i}) = k
<1> DEFINE Upto(i) == {j \in S : j <= i}
           Bad == {n \in 1 .. Cardinality(S) : \A i \in S : Cardinality(Upto(i)) # n}
<1>0. Cardinality(S) \in Nat /\ \A i \in S : i \in Nat
  BY FS_CardinalityType
<1>1. SUFFICES ASSUME Bad # {} PROVE FALSE
  OBVIOUS
<1>2. PICK n \in Bad : \A m \in Bad : n <= m
  <2>1. Bad \in SUBSET Nat
    BY <1>0
  <2>. QED
    BY <1>1, <2>1, Least
<1>3. \A i \in S : Upto(i) \in SUBSET S
  OBVIOUS
<1>4. \A i \in S : IsFiniteSet(Upto(i)) /\ Cardinality(Upto(i)) \in Nat
  BY <1>3, FS_Subset, FS_CardinalityType
<1>5. n \in 1 .. Cardinality(S) /\ \A i \in S : Cardinality(Upto(i)) # n
  OBVIOUS
<1>6. CASE n = 1
  <2>1. S # {}
    BY <1>0, <1>5, FS_EmptySet
  <2>2. PICK m \in S : \A i \in S : m <= i
    BY <2>1, Least
  <2>3. Upto(m) = {m}
    <3>1. \A i \in S : i <= m <=> i = m
      BY <1>0, <2>2
    <3>. QED
      BY <3>1
  <2>4. Cardinality(Upto(m)) = 1
    BY <2>3, FS_Singleton
  <2> HIDE DEF Upto, Bad
  <2>. QED
    BY <2>4, <1>5, <1>6
<1>7. CASE n # 1
  <2>1. n - 1 \in 1 .. Cardinality(S) /\ n - 1 \notin Bad
    BY <1>0, <1>2, <1>5, <1>7
  <2>2. PICK i \in S : Cardinality(Upto(i)) = n - 1
    BY <2>1
  <2> DEFINE T == {j \in S : j > i}
  <2>3. T # {}
    <3>1. SUFFICES ASSUME T = {} PROVE FALSE
      OBVIOUS
    <3>2. Upto(i) = S
      <4>1. \A j \in S : ~(j > i)
        BY <3>1
      <4>2. \A j \in S : j <= i
        BY <4>1, <1>0
      <4>. QED
        BY <4>2
    <3> HIDE DEF Upto, Bad, T
    <3>. QED
      BY <3>2, <2>2, <1>0, <1>5
  <2>4. T \in SUBSET Nat
    OBVIOUS
  <2>5. PICK m \in T : \A j \in T : m <= j
    BY <2>3, <2>4, Least
  <2>6. Upto(m) = Upto(i) \cup {m} /\ m \notin Upto(i) /\ m \in S
    <3>1. m \in S /\ m > i /\ \A j \in S : j > i => m <= j
      BY <2>5
    <3>2. \A j \in S : j <= m <=> j <= i \/ j = m
      BY <1>0, <3>1
    <3>3. ~(m <= i)
      BY <1>0, <3>1
    <3>. QED
      BY <3>1, <3>2, <3>3
  <2> HIDE DEF Upto, Bad, T
  <2>7. Cardinality(Upto(i) \cup {m}) = Cardinality(Upto(i)) + 1
    BY <2>6, <1>4, FS_AddElement
  <2>. QED
    BY <2>2, <2>6, <2>7, <1>5, <1>0
<1>. QED
  BY <1>6, <1>7

(* What the constants are.                                                 *)
LEMMA Sizes ==
  /\ BUF_SIZE \in Nat /\ Room \in Nat /\ Room >= 1 /\ Room < BUF_SIZE
  /\ ReadSize = BUF_SIZE
  /\ MaxData \in Nat /\ MaxResend \in Nat /\ MaxFaults \in Nat
BY SessionAssumption DEF Room, ReadSize

(* A sequence without one element.                                         *)
LEMMA Removed ==
  ASSUME NEW S, NEW q \in Seq(S), NEW i \in 1 .. Len(q)
  PROVE  /\ RemoveAt(q, i) \in Seq(S) /\ Len(RemoveAt(q, i)) = Len(q) - 1
         /\ \A k \in 1 .. Len(q) - 1 :
              RemoveAt(q, i)[k] = IF k < i THEN q[k] ELSE q[k + 1]
<1> DEFINE a == SubSeq(q, 1, i - 1)
           b == SubSeq(q, i + 1, Len(q))
<1>0. Len(q) \in Nat /\ \A k \in 1 .. Len(q) : q[k] \in S
  BY LenProperties
<1>1. /\ a \in Seq(S) /\ Len(a) = i - 1 /\ \A k \in 1 .. i - 1 : a[k] = q[k]
  <2>1. \A k \in 1 .. i - 1 : q[k] \in S
    BY <1>0
  <2>2. /\ a \in Seq(S) /\ Len(a) = IF 1 <= i - 1 THEN i - 1 - 1 + 1 ELSE 0
        /\ \A k \in 1 .. i - 1 - 1 + 1 : a[k] = q[1 + k - 1]
    BY <2>1, <1>0, SubSeqProperties
  <2> HIDE DEF a
  <2>. QED
    BY <2>2, <1>0
<1>2. /\ b \in Seq(S) /\ Len(b) = Len(q) - i
      /\ \A k \in 1 .. Len(q) - i : b[k] = q[i + k]
  <2>1. \A k \in i + 1 .. Len(q) : q[k] \in S
    BY <1>0
  <2>2. /\ b \in Seq(S) /\ Len(b) = IF i + 1 <= Len(q) THEN Len(q) - (i + 1) + 1 ELSE 0
        /\ \A k \in 1 .. Len(q) - (i + 1) + 1 : b[k] = q[i + 1 + k - 1]
    BY <2>1, <1>0, SubSeqProperties
  <2> HIDE DEF b
  <2>. QED
    BY <2>2, <1>0
<1>3. RemoveAt(q, i) = a \o b
  BY DEF RemoveAt
<1> HIDE DEF a, b
<1>4. /\ a \o b \in Seq(S) /\ Len(a \o b) = Len(a) + Len(b)
      /\ \A k \in 1 .. Len(a) + Len(b) :
           (a \o b)[k] = IF k <= Len(a) THEN a[k] ELSE b[k - Len(a)]
  BY <1>1, <1>2, ConcatProperties
<1>5. ASSUME NEW k \in 1 .. Len(q) - 1
      PROVE  (a \o b)[k] = IF k < i THEN q[k] ELSE q[k + 1]
  <2>1. CASE k < i
    BY <2>1, <1>0, <1>1, <1>2, <1>4
  <2>2. CASE ~(k < i)
    <3>0. k \in 1 .. Len(a) + Len(b) /\ ~(k <= Len(a))
      BY <2>2, <1>0, <1>1, <1>2
    <3>1. (a \o b)[k] = b[k - (i - 1)]
      BY <1>1, <1>4, <3>0
    <3>2. b[k - (i - 1)] = q[i + (k - (i - 1))]
      BY <2>2, <1>0, <1>2
    <3>3. i + (k - (i - 1)) = k + 1
      BY <1>0
    <3>. QED
      BY <2>2, <3>1, <3>2, <3>3
  <2>. QED
    BY <2>1, <2>2
<1>. QED
  BY <1>0, <1>1, <1>2, <1>3, <1>4, <1>5

LEMMA InSet ==
  ASSUME NEW S, NEW q \in Seq(S)
  PROVE  /\ ToSet(q) = {q[k] : k \in 1 .. Len(q)} /\ ToSet(q) \subseteq S
         /\ DOMAIN q = 1 .. Len(q) /\ Len(q) \in Nat
BY LenProperties DEF ToSet

Distinct(q) == \A i, j \in DOMAIN q : q[i] = q[j] => i = j

(* What becomes of the elements if one is removed, ...                     *)
LEMMA RemovedSet ==
  ASSUME NEW S, NEW q \in Seq(S), NEW i \in DOMAIN q
  PROVE  /\ RemoveAt(q, i) \in Seq(S) /\ Len(RemoveAt(q, i)) = Len(q) - 1
         /\ ToSet(RemoveAt(q, i)) \subseteq ToSet(q)
         /\ ToSet(q) \subseteq ToSet(RemoveAt(q, i)) \cup {q[i]}
         /\ Distinct(q) => Distinct(RemoveAt(q, i)) /\ q[i] \notin ToSet(RemoveAt(q, i))
<1> DEFINE u == RemoveAt(q, i)
           pos(k) == IF k < i THEN k ELSE k + 1
<1>0. Len(q) \in Nat /\ DOMAIN q = 1 .. Len(q) /\ ToSet(q) = {q[k] : k \in 1 .. Len(q)}
  BY InSet
<1>1. /\ u \in Seq(S) /\ Len(u) = Len(q) - 1
      /\ \A k \in 1 .. Len(q) - 1 : u[k] = IF k < i THEN q[k] ELSE q[k + 1]
  BY <1>0, Removed
<1>2. DOMAIN u = 1 .. Len(q) - 1 /\ ToSet(u) = {u[k] : k \in 1 .. Len(q) - 1}
  BY <1>1, InSet
<1> HIDE DEF u
<1>3. \A k \in 1 .. Len(q) - 1 :
        u[k] = q[pos(k)] /\ pos(k) \in 1 .. Len(q) /\ pos(k) # i
  BY <1>0, <1>1
<1>4. \A k, l \in 1 .. Len(q) - 1 : pos(k) = pos(l) => k = l
  BY <1>0
<1>5. \A m \in 1 .. Len(q) : m # i => \E k \in 1 .. Len(q) - 1 : pos(k) = m
  <2>1. SUFFICES ASSUME NEW m \in 1 .. Len(q), m # i
                 PROVE  \E k \in 1 .. Len(q) - 1 : pos(k) = m
    OBVIOUS
  <2>2. CASE m < i
    <3>1. m \in 1 .. Len(q) - 1 /\ pos(m) = m
      BY <1>0, <2>2
    <3>. QED
      BY <3>1
  <2>3. CASE m > i
    <3>1. m - 1 \in 1 .. Len(q) - 1 /\ pos(m - 1) = m
      BY <1>0, <2>3
    <3>. QED
      BY <3>1
  <2>. QED
    BY <2>1, <2>2, <2>3, <1>0
<1> HIDE DEF pos
<1>6. ToSet(u) \subseteq ToSet(q)
  BY <1>0, <1>2, <1>3
<1>7. ToSet(q) \subseteq ToSet(u) \cup {q[i]}
  BY <1>0, <1>2, <1>3, <1>5
<1>8. ASSUME Distinct(q) PROVE Distinct(u) /\ q[i] \notin ToSet(u)
  <2>1. \A k, l \in 1 .. Len(q) : q[k] = q[l] => k = l
    BY <1>0, <1>8 DEF Distinct
  <2>2. \A k, l \in 1 .. Len(q) - 1 : u[k] = u[l] => k = l
    <3>1. SUFFICES ASSUME NEW k \in 1 .. Len(q) - 1, NEW l \in 1 .. Len(q) - 1, u[k] = u[l]
                   PROVE  k = l
      OBVIOUS
    <3>2. pos(k) = pos(l)
      BY <1>3, <2>1, <3>1
    <3>. QED
      BY <1>4, <3>2
  <2>3. \A k \in 1 .. Len(q) - 1 : u[k] # q[i]
    BY <1>0, <1>3, <2>1
  <2>. QED
    BY <1>2, <2>2, <2>3 DEF Distinct
<1>. QED
  BY <1>1, <1>6, <1>7, <1>8 DEF u

(* ... moved to the front, ...                                             *)
LEMMA FrontSet ==
  ASSUME NEW S, NEW q \in Seq(S), NEW e \in S
  PROVE  /\ <<e>> \o q \in Seq(S) /\ Len(<<e>> \o q) = Len(q) + 1
         /\ ToSet(<<e>> \o q) = ToSet(q) \cup {e}
         /\ Distinct(q) /\ e \notin ToSet(q) => Distinct(<<e>> \o q)
<1> DEFINE u == <<e>> \o q
<1>0. Len(q) \in Nat /\ DOMAIN q = 1 .. Len(q) /\ ToSet(q) = {q[k] : k \in 1 .. Len(q)}
  BY InSet
<1>1. <<e>> \in Seq(S) /\ Len(<<e>>) = 1 /\ <<e>>[1] = e
  OBVIOUS
<1>2. /\ u \in Seq(S) /\ Len(u) = 1 + Len(q)
      /\ \A k \in 1 .. 1 + Len(q) : u[k] = IF k <= 1 THEN <<e>>[k] ELSE q[k - 1]
  BY <1>1, ConcatProperties
<1>3. DOMAIN u = 1 .. 1 + Len(q) /\ ToSet(u) = {u[k] : k \in 1 .. 1 + Len(q)}
  BY <1>2, InSet
<1> HIDE DEF u
<1>4. u[1] = e /\ \A k \in 1 .. Len(q) : u[k + 1] = q[k]
  BY <1>0, <1>1, <1>2
<1>5. \A k \in 1 .. 1 + Len(q) : k = 1 \/ (k - 1 \in 1 .. Len(q) /\ u[k] = q[k - 1])
  BY <1>0, <1>2
<1>6. ToSet(u) \subseteq ToSet(q) \cup {e}
  BY <1>0, <1>3, <1>4, <1>5
<1>7. ToSet(q) \cup {e} \subseteq ToSet(u)
  <2>1. 1 \in 1 .. 1 + Len(q) /\ \A k \in 1 .. Len(q) : k + 1 \in 1 .. 1 + Len(q)
    BY <1>0
  <2>. QED
    BY <2>1, <1>0, <1>3, <1>4
<1>8. ASSUME Distinct(q), e \notin ToSet(q) PROVE Distinct(u)
  <2>1. SUFFICES ASSUME NEW k \in 1 .. 1 + Len(q), NEW l \in 1 .. 1 + Len(q), u[k] = u[l]
                 PROVE  k = l
    BY <1>3 DEF Distinct
  <2>2. CASE k = 1 \/ l = 1
    BY <2>1, <2>2, <1>0, <1>4, <1>5, <1>8
  <2>3. CASE k # 1 /\ l # 1
    <3>1. k - 1 \in DOMAIN q /\ l - 1 \in DOMAIN q /\ q[k - 1] = q[l - 1]
      BY <2>1, <2>3, <1>0, <1>5
    <3>2. k - 1 = l - 1
      BY <3>1, <1>8 DEF Distinct
    <3>. QED
      BY <3>2, <1>0
  <2>. QED
    BY <2>2, <2>3
<1>. QED
  BY <1>0, <1>2, <1>6, <1>7, <1>8 DEF u

(* ... added at the end, ...                                               *)
LEMMA AppendSet ==
  ASSUME NEW S, NEW q \in Seq(S), NEW e \in S
  PROVE  /\ Append(q, e) \in Seq(S) /\ Len(Append(q, e)) = Len(q) + 1
         /\ ToSet(Append(q, e)) = ToSet(q) \cup {e}
         /\ Distinct(q) /\ e \notin ToSet(q) => Distinct(Append(q, e))
<1> DEFINE u == Append(q, e)
<1>0. Len(q) \in Nat /\ DOMAIN q = 1 .. Len(q) /\ ToSet(q) = {q[k] : k \in 1 .. Len(q)}
  BY InSet
<1>1. /\ u \in Seq(S) /\ Len(u) = Len(q) + 1 /\ u[Len(q) + 1] = e
      /\ \A k \in 1 .. Len(q) : u[k] = q[k]
  BY AppendProperties
<1>2. DOMAIN u = 1 .. Len(q) + 1 /\ ToSet(u) = {u[k] : k \in 1 .. Len(q) + 1}
  BY <1>1, InSet
<1> HIDE DEF u
<1>3. /\ Len(q) + 1 \in 1 .. Len(q) + 1 /\ Len(q) + 1 \notin 1 .. Len(q)
      /\ \A k : k \in 1 .. Len(q) + 1 <=> k \in 1 .. Len(q) \/ k = Len(q) + 1
  BY <1>0
<1>4. ToSet(u) = ToSet(q) \cup {e}
  BY <1>0, <1>1, <1>2, <1>3
<1>5. ASSUME Distinct(q), e \notin ToSet(q) PROVE Distinct(u)
  BY <1>5, <1>0, <1>1, <1>2, <1>3 DEF Distinct
<1>. QED
  BY <1>1, <1>4, <1>5 DEF u

(* ... or taken off the front.                                             *)
LEMMA TailSet ==
  ASSUME NEW S, NEW q \in Seq(S), q # <<>>
  PROVE  /\ Tail(q) \in Seq(S) /\ Len(Tail(q)) = Len(q) - 1 /\ Len(q) > 0
         /\ Head(q) \in ToSet(q) /\ ToSet(Tail(q)) \subseteq ToSet(q)
         /\ ToSet(q) \subseteq ToSet(Tail(q)) \cup {Head(q)}
         /\ Distinct(q) => Distinct(Tail(q)) /\ Head(q) \notin ToSet(Tail(q))
<1>0. Len(q) \in Nat /\ DOMAIN q = 1 .. Len(q) /\ Len(q) > 0
  BY InSet, EmptySeq
<1>1. 1 \in DOMAIN q /\ Head(q) = q[1]
  BY <1>0
<1>2. Tail(q) = RemoveAt(q, 1)
  <2>1. SubSeq(q, 1, 1 - 1) = <<>>
    BY SubSeqEmpty
  <2>2. Tail(q) = SubSeq(q, 2, Len(q)) /\ Tail(q) \in Seq(S)
    BY TailIsSubSeq, HeadTailProperties
  <2>3. <<>> \o Tail(q) = Tail(q)
    BY <2>2, ConcatEmptySeq
  <2>4. RemoveAt(q, 1) = SubSeq(q, 1, 1 - 1) \o SubSeq(q, 1 + 1, Len(q))
    BY DEF RemoveAt
  <2>5. 1 + 1 = 2
    OBVIOUS
  <2>. QED
    BY <2>1, <2>2, <2>3, <2>4, <2>5
<1>3. q[1] \in ToSet(q)
  BY <1>1 DEF ToSet
<1> DEFINE u == RemoveAt(q, 1)
<1>4. /\ u \in Seq(S) /\ Len(u) = Len(q) - 1
      /\ ToSet(u) \subseteq ToSet(q) /\ ToSet(q) \subseteq ToSet(u) \cup {q[1]}
      /\ Distinct(q) => Distinct(u) /\ q[1] \notin ToSet(u)
  BY <1>1, RemovedSet
<1> HIDE DEF u
<1>5. Tail(q) = u
  BY <1>2 DEF u
<1>. QED
  BY <1>0, <1>1, <1>3, <1>4, <1>5, Zenon

-----------------------------------------------------------------------------
(***************************************************************************)
(* Records and their bytes                                                 *)
(***************************************************************************)

LEMMA LenType ==
  ASSUME len \in Lengths
  PROVE  /\ \A f \in Kinds : len[f] \in Nat /\ len[f] >= 1
         /\ len[App] <= Room
BY SessionAssumption DEF Kinds

(* The bytes of a record.                                                  *)
LEMMA BytesOf ==
  ASSUME len \in Lengths, NEW r \in AllRecords
  PROVE  /\ Bytes(r) \in Seq(AllBytes) /\ Len(Bytes(r)) = len[r[1]]
         /\ \A i \in 1 .. len[r[1]] : Bytes(r)[i] = <<r[1], r[2], i>>
         /\ Bytes(r) # <<>> /\ First(Bytes(r)) = r /\ r = <<r[1], r[2]>>
<1>0. r[1] \in Kinds /\ r[2] \in Nat /\ r = <<r[1], r[2]>>
  BY DEF AllRecords
<1> DEFINE n == len[r[1]]
           a == r[1]
           b == r[2]
<1>1. n \in Nat /\ n >= 1
  BY <1>0, LenType
<1>2. Bytes(r) = [i \in 1 .. n |-> <<a, b, i>>]
  BY DEF Bytes
<1>3. \A i \in 1 .. n : <<a, b, i>> \in AllBytes
  BY <1>0, <1>1 DEF AllBytes
<1> HIDE DEF n, a, b
<1>4. Bytes(r) \in Seq(AllBytes) /\ Len(Bytes(r)) = n
  BY <1>1, <1>2, <1>3
<1>5. \A i \in 1 .. n : Bytes(r)[i] = <<a, b, i>>
  BY <1>2
<1>6. Bytes(r) # <<>> /\ Bytes(r)[1] = <<a, b, 1>>
  BY <1>1, <1>4, <1>5
<1>7. First(Bytes(r)) = <<a, b>>
  BY <1>6 DEF First
<1>. QED
  BY <1>0, <1>4, <1>5, <1>6, <1>7 DEF n, a, b

LEMMA BytesWritten ==
  ASSUME len \in Lengths, NEW s
  PROVE  /\ \A r \in Written(s) : Bytes(r) \in Seq(WrittenBytes(s)) /\ r \in AllRecords
         /\ len' = len =>
              \A r \in Written(s)' : Bytes(r) \in Seq(WrittenBytes(s)') /\ r \in AllRecords
<1>1. ASSUME NEW r \in AllRecords, NEW W,
             \A i \in 1 .. len[r[1]] : <<r[1], r[2], i>> \in W
      PROVE  Bytes(r) \in Seq(W)
  <2>1. len[r[1]] \in Nat
    BY LenType DEF AllRecords
  <2>. QED
    BY <1>1, <2>1 DEF Bytes
<1>2. ASSUME NEW r \in Written(s) PROVE Bytes(r) \in Seq(WrittenBytes(s)) /\ r \in AllRecords
  <2>1. r \in AllRecords /\ r = <<r[1], r[2]>> /\ r[1] \in Kinds /\ r[2] \in Nat
    BY DEF Written, AllRecords
  <2>2. len[r[1]] \in Nat
    BY <2>1, LenType
  <2>3. \A i \in 1 .. len[r[1]] : <<r[1], r[2], i>> \in WrittenBytes(s)
    BY <2>1, <2>2 DEF WrittenBytes, AllBytes
  <2>. QED
    BY <1>1, <2>1, <2>3
<1>3. ASSUME len' = len, NEW r \in Written(s)'
      PROVE  Bytes(r) \in Seq(WrittenBytes(s)') /\ r \in AllRecords
  <2>1. r \in AllRecords /\ r = <<r[1], r[2]>> /\ r[1] \in Kinds /\ r[2] \in Nat
    BY DEF Written, AllRecords
  <2>2. len[r[1]] \in Nat
    BY <2>1, LenType
  <2>3. \A i \in 1 .. len[r[1]] : <<r[1], r[2], i>> \in WrittenBytes(s)'
    BY <1>3, <2>1, <2>2 DEF WrittenBytes, AllBytes
  <2>. QED
    BY <1>1, <2>1, <2>3
<1>. QED
  BY <1>2, <1>3

(* A datagram of bytes of some records has some of these, each complete.   *)
LEMMA RecordsIn ==
  ASSUME len \in Lengths, NEW W, NEW B, \A b \in B : <<b[1], b[2]>> \in W,
         NEW d \in Seq(B), d # <<>>
  PROVE  /\ Records(d) \in Seq(W)
         /\ \A r \in ToSet(Records(d)) :
              /\ d[1][3] = 1
              /\ \E i \in 1 .. Len(d) :
                   i <= Room /\ d[i][3] = len[d[i][1]] /\ r = <<d[i][1], d[i][2]>>
<1> DEFINE n == Min({Room, Len(d)})
           ends == {i \in 1 .. n : d[i][3] = len[d[i][1]]}
           end(k) == CHOOSE i \in ends : Cardinality({j \in ends : j <= i}) = k
           m == IF d[1][3] = 1 THEN Cardinality(ends) ELSE 0
           rec(k) == <<d[end(k)][1], d[end(k)][2]>>
<1>0. Len(d) \in Nat /\ \A i \in 1 .. Len(d) : d[i] \in B
  BY LenProperties
<1>1. n \in Nat /\ n <= Room /\ n <= Len(d)
  BY <1>0, Sizes, MinOfTwo
<1>2. Records(d) = [k \in 1 .. m |-> rec(k)]
  BY DEF Records
<1> HIDE DEF n
<1>3. ends \in SUBSET Nat /\ IsFiniteSet(ends) /\ Cardinality(ends) \in Nat
  <2>1. IsFiniteSet(1 .. n)
    BY <1>1, FS_Interval
  <2>2. ends \in SUBSET (1 .. n) /\ ends \in SUBSET Nat
    BY <1>1
  <2>. QED
    BY <2>1, <2>2, FS_Subset, FS_CardinalityType
<1>4. m \in Nat /\ m <= Cardinality(ends) /\ (m > 0 => d[1][3] = 1)
  BY <1>3
<1>5. \A i \in ends : /\ i \in 1 .. Len(d) /\ i <= Room
                      /\ d[i][3] = len[d[i][1]]
                      /\ <<d[i][1], d[i][2]>> \in W
  <2>1. SUFFICES ASSUME NEW i \in ends
                 PROVE  /\ i \in 1 .. Len(d) /\ i <= Room
                        /\ d[i][3] = len[d[i][1]]
                        /\ <<d[i][1], d[i][2]>> \in W
    OBVIOUS
  <2>2. i \in 1 .. Len(d) /\ i <= Room
    BY <1>0, <1>1, Sizes
  <2>3. d[i] \in B
    BY <1>0, <2>2
  <2>. QED
    BY <2>2, <2>3
<1>6. \A k \in 1 .. Cardinality(ends) : end(k) \in ends
  <2> HIDE DEF ends
  <2>1. \A k \in 1 .. Cardinality(ends) :
          \E i \in ends : Cardinality({j \in ends : j <= i}) = k
    BY <1>3, Ranks
  <2>. QED
    BY <2>1
<1>7. \A k \in 1 .. m : k \in 1 .. Cardinality(ends) /\ m > 0
  BY <1>3, <1>4
<1>8. \A k \in 1 .. m : end(k) \in ends /\ d[1][3] = 1
  BY <1>4, <1>6, <1>7
<1> HIDE DEF ends, end, m
<1>9. \A k \in 1 .. m : rec(k) \in W
  BY <1>5, <1>8
<1>10. Records(d) \in Seq(W) /\ DOMAIN Records(d) = 1 .. m
  <2> HIDE DEF rec
  <2>. QED
    BY <1>2, <1>4, <1>9
<1>11. ASSUME NEW r \in ToSet(Records(d))
       PROVE  /\ d[1][3] = 1
              /\ \E i \in 1 .. Len(d) :
                   i <= Room /\ d[i][3] = len[d[i][1]] /\ r = <<d[i][1], d[i][2]>>
  <2>1. PICK k \in 1 .. m : r = rec(k)
    BY <1>2, <1>10 DEF ToSet
  <2>. QED
    BY <2>1, <1>5, <1>8
<1>. QED
  BY <1>10, <1>11

(* A datagram of bytes of s has records of s, each of them complete.       *)
LEMMA RecordsOf ==
  ASSUME len \in Lengths, NEW s \in Sides, NEW d \in Seq(WrittenBytes(s)), d # <<>>
  PROVE  Records(d) \in Seq(Written(s))
<1>1. \A b \in WrittenBytes(s) : <<b[1], b[2]>> \in Written(s)
  BY DEF WrittenBytes
<1>. QED
  BY <1>1, RecordsIn

LEMMA RecordsEnd ==
  ASSUME len \in Lengths, NEW d \in Seq(AllBytes), d # <<>>, NEW r \in ToSet(Records(d))
  PROVE  /\ d[1][3] = 1
         /\ \E i \in 1 .. Len(d) :
              i <= Room /\ d[i][3] = len[d[i][1]] /\ r = <<d[i][1], d[i][2]>>
<1>1. \A b \in AllBytes : <<b[1], b[2]>> \in AllRecords
  BY DEF AllBytes, AllRecords
<1>2. /\ Records(d) \in Seq(AllRecords)
      /\ \A e \in ToSet(Records(d)) :
           /\ d[1][3] = 1
           /\ \E i \in 1 .. Len(d) :
                i <= Room /\ d[i][3] = len[d[i][1]] /\ e = <<d[i][1], d[i][2]>>
  BY <1>1, RecordsIn
<1>. QED
  BY <1>2

(* A record that fits into a buffer is all that is found in its datagram.  *)
LEMMA RecordsWhole ==
  ASSUME len \in Lengths, NEW r \in AllRecords, len[r[1]] <= Room
  PROVE  Records(Bytes(r)) = <<r>>
<1> DEFINE d == Bytes(r)
           n == Min({Room, Len(d)})
           ends == {i \in 1 .. n : d[i][3] = len[d[i][1]]}
           end(k) == CHOOSE i \in ends : Cardinality({j \in ends : j <= i}) = k
           m == IF d[1][3] = 1 THEN Cardinality(ends) ELSE 0
           rec(k) == <<d[end(k)][1], d[end(k)][2]>>
           l == len[r[1]]
<1>1. Records(d) = [k \in 1 .. m |-> rec(k)]
  BY DEF Records
<1>2. /\ Len(d) = l /\ \A i \in 1 .. l : d[i] = <<r[1], r[2], i>>
      /\ r = <<r[1], r[2]>> /\ l \in Nat /\ l >= 1
  BY BytesOf, LenType
<1>3. n = l
  BY <1>2, Sizes, MinOfTwo
<1> HIDE DEF d, n
<1>4. \A i \in 1 .. l : d[i][3] = i /\ d[i][1] = r[1] /\ d[i][2] = r[2]
  BY <1>2
<1>5. ends = {l}
  BY <1>2, <1>3, <1>4
<1>6. m = 1
  <2>1. Cardinality(ends) = 1
    BY <1>5, FS_Singleton
  <2>2. d[1][3] = 1
    BY <1>2, <1>4
  <2> HIDE DEF ends
  <2>. QED
    BY <2>1, <2>2
<1> HIDE DEF l
<1>7. end(1) = l
  <2>1. {j \in {l} : j <= l} = {l}
    BY <1>2
  <2>2. Cardinality({j \in {l} : j <= l}) = 1
    BY <2>1, FS_Singleton
  <2> HIDE DEF ends
  <2>3. \E i \in ends : Cardinality({j \in ends : j <= i}) = 1
    BY <1>5, <2>2
  <2>4. end(1) \in ends
    BY <2>3
  <2>. QED
    BY <1>5, <2>4
<1> HIDE DEF end, m
<1>8. rec(1) = r
  BY <1>2, <1>4, <1>7
<1>9. [k \in 1 .. m |-> rec(k)] = <<rec(1)>>
  <2> HIDE DEF rec
  <2>. QED
    BY <1>6
<1>. QED
  BY <1>1, <1>8, <1>9 DEF d

(* What is found first in a sequence.                                      *)
LEMMA AwaitedCases ==
  ASSUME NEW s, NEW S, NEW q \in Seq(S)
  PROVE  LET i == Awaited(s, q)
         IN \/ /\ i = 0
               /\ \A k \in 1 .. Len(q) : ~(q[k][1] = flight[s] + 1 /\ q[k] \notin known[s])
            \/ /\ i \in 1 .. Len(q)
               /\ q[i][1] = flight[s] + 1 /\ q[i] \notin known[s]
<1> DEFINE I == {k \in 1 .. Len(q) : q[k][1] = flight[s] + 1 /\ q[k] \notin known[s]}
<1>1. Awaited(s, q) = IF I # {} THEN Min(I) ELSE 0
  BY DEF Awaited, SelectInSeq
<1>2. CASE I = {}
  BY <1>1, <1>2
<1>3. CASE I # {}
  <2>1. I \in SUBSET Nat
    BY LenProperties
  <2>2. Min(I) \in I
    <3> HIDE DEF I
    <3>1. \E m \in I : \A n \in I : m <= n
      BY <1>3, <2>1, Least
    <3>. QED
      BY <3>1 DEF Min
  <2>. QED
    BY <1>1, <1>3, <2>2
<1>. QED
  BY <1>2, <1>3

LEMMA PacketCases ==
  ASSUME NEW s, NEW S, NEW q \in Seq(S)
  PROVE  LET i == FirstPacket(s, q)
         IN \/ /\ i = 0
               /\ \A k \in 1 .. Len(q) : ~(q[k][1] = App /\ q[k] \notin known[s])
            \/ /\ i \in 1 .. Len(q)
               /\ q[i][1] = App /\ q[i] \notin known[s]
<1> DEFINE I == {k \in 1 .. Len(q) : q[k][1] = App /\ q[k] \notin known[s]}
<1>1. FirstPacket(s, q) = IF I # {} THEN Min(I) ELSE 0
  BY DEF FirstPacket, SelectInSeq
<1>2. CASE I = {}
  BY <1>1, <1>2
<1>3. CASE I # {}
  <2>1. I \in SUBSET Nat
    BY LenProperties
  <2>2. Min(I) \in I
    <3> HIDE DEF I
    <3>1. \E m \in I : \A n \in I : m <= n
      BY <1>3, <2>1, Least
    <3>. QED
      BY <3>1 DEF Min
  <2>. QED
    BY <1>1, <1>3, <2>2
<1>. QED
  BY <1>2, <1>3

-----------------------------------------------------------------------------
(***************************************************************************)
(* One BIO_read                                                            *)
(***************************************************************************)

LEMMA TwoSides ==
  /\ \A s \in Sides : Peer(s) \in Sides /\ Peer(s) # s /\ Peer(Peer(s)) = s
  /\ \A s, t \in Sides : t = s \/ t = Peer(s)
BY DEF Sides, Peer

(* The client starts before anyone else has written a flight.              *)
LEMMA FirstTurn ==
  ASSUME SessionTypeOK, TakeTurns, NEW s \in Sides, s = "client", pc[s] = "start",
         flight' = [flight EXCEPT ![s] = 1]
  PROVE  /\ flight["client"] = 0 /\ flight[Peer(s)] = 0
         /\ flight[s] = 0 /\ flight'[s] = 1 /\ flight'[Peer(s)] = 0 /\ Shaking(Peer(s))
<1>1. Peer(s) = "server" /\ Peer(s) # s /\ Peer(s) \in Sides
  BY DEF Peer, Sides
<1>2. flight["client"] = 0 /\ flight["server"] = 0
  BY DEF TakeTurns
<1>3. Shaking("server")
  BY <1>2 DEF TakeTurns
<1>4. DOMAIN flight = Sides
  BY DEF SessionTypeOK
<1>5. flight'[s] = 1 /\ flight'[Peer(s)] = flight[Peer(s)]
  BY <1>1, <1>4
<1>. QED
  BY <1>1, <1>2, <1>3, <1>5

(* The part of a stream up to, and the part from, what one BIO_read takes. *)
LEMMA Cut ==
  ASSUME NEW S, NEW q \in Seq(S)
  PROVE  LET d == SubSeq(q, 1, Min({ReadSize, Len(q)}))
             t == SubSeq(q, ReadSize + 1, Len(q))
         IN /\ d \in Seq(S) /\ Len(d) <= BUF_SIZE /\ Len(d) <= Len(q)
            /\ \A k \in 1 .. Len(d) : d[k] = q[k]
            /\ q # <<>> => Len(d) >= 1
            /\ t \in Seq(S)
            /\ \A k \in 1 .. Len(t) : BUF_SIZE + k \in 1 .. Len(q) /\ t[k] = q[BUF_SIZE + k]
            /\ Len(q) <= BUF_SIZE => d = q /\ t = <<>>
<1> DEFINE m == Min({ReadSize, Len(q)})
           d == SubSeq(q, 1, m)
           t == SubSeq(q, ReadSize + 1, Len(q))
<1>0. Len(q) \in Nat /\ \A k \in 1 .. Len(q) : q[k] \in S
  BY LenProperties
<1>1. ReadSize = BUF_SIZE /\ BUF_SIZE \in Nat /\ BUF_SIZE >= 1
  BY Sizes
<1>2. m \in Nat /\ m <= BUF_SIZE /\ m <= Len(q) /\ (Len(q) >= 1 => m >= 1)
      /\ (Len(q) <= BUF_SIZE => m = Len(q))
  BY <1>0, <1>1, MinOfTwo
<1> HIDE DEF m
<1>3. d \in Seq(S) /\ Len(d) = m /\ \A k \in 1 .. m : d[k] = q[k]
  <2>1. \A k \in 1 .. m : q[k] \in S
    BY <1>0, <1>2
  <2>2. /\ d \in Seq(S) /\ Len(d) = IF 1 <= m THEN m - 1 + 1 ELSE 0
        /\ \A k \in 1 .. m - 1 + 1 : d[k] = q[1 + k - 1]
    BY <2>1, <1>2, SubSeqProperties
  <2> HIDE DEF d
  <2>. QED
    BY <2>2, <1>2
<1>4. /\ t \in Seq(S) /\ Len(t) = IF BUF_SIZE + 1 <= Len(q) THEN Len(q) - BUF_SIZE ELSE 0
      /\ \A k \in 1 .. Len(q) - BUF_SIZE : t[k] = q[BUF_SIZE + k]
  <2>1. \A k \in ReadSize + 1 .. Len(q) : q[k] \in S
    BY <1>0, <1>1
  <2>2. /\ t \in Seq(S)
        /\ Len(t) = IF ReadSize + 1 <= Len(q) THEN Len(q) - (ReadSize + 1) + 1 ELSE 0
        /\ \A k \in 1 .. Len(q) - (ReadSize + 1) + 1 : t[k] = q[ReadSize + 1 + k - 1]
    BY <2>1, <1>0, <1>1, SubSeqProperties
  <2> HIDE DEF t
  <2>. QED
    BY <2>2, <1>0, <1>1
<1> HIDE DEF d, t
<1>5. \A k \in 1 .. Len(t) : BUF_SIZE + k \in 1 .. Len(q) /\ t[k] = q[BUF_SIZE + k]
  BY <1>0, <1>1, <1>4
<1>6. ASSUME Len(q) <= BUF_SIZE PROVE d = q /\ t = <<>>
  <2>1. d = q
    BY <1>0, <1>2, <1>3, <1>6, SeqEqual
  <2>2. t = <<>>
    BY <1>0, <1>1, <1>4, <1>6
  <2>. QED
    BY <2>1, <2>2
<1>7. q # <<>> => Len(d) >= 1
  BY <1>2, <1>3, EmptySeq
<1>8. Len(d) <= BUF_SIZE /\ Len(d) <= Len(q) /\ \A k \in 1 .. Len(d) : d[k] = q[k]
  BY <1>2, <1>3
<1>. QED
  BY <1>3, <1>4, <1>5, <1>6, <1>7, <1>8 DEF d, t, m

LEMMA Flushed ==
  ASSUME wbio \in [Sides -> Seq(AllBytes)], net \in [Sides -> Seq(Seq(AllBytes))],
         NEW s \in Sides, NEW rest, NEW stream, Flush(s, rest, stream)
  PROVE  /\ wbio'[s] = SubSeq(stream, ReadSize + 1, Len(stream))
         /\ wbio'[Peer(s)] = wbio[Peer(s)] /\ net'[s] = rest
         /\ net'[Peer(s)] =
              IF stream = <<>> THEN net[Peer(s)]
              ELSE Append(net[Peer(s)], SubSeq(stream, 1, Min({ReadSize, Len(stream)})))
         /\ DOMAIN wbio' = Sides /\ DOMAIN net' = Sides
         /\ wbio' = [t \in Sides |-> wbio'[t]] /\ net' = [t \in Sides |-> net'[t]]
BY TwoSides DEF Flush

-----------------------------------------------------------------------------
(***************************************************************************)
(* Types, and what is on its way                                           *)
(***************************************************************************)

(* What concerns wbio and net.                                             *)
Travels(s) ==
  /\ wbio[s] \in Seq(WrittenBytes(s))
  /\ net[Peer(s)] \in Seq(Seq(WrittenBytes(s)))
  /\ \A d \in ToSet(net[s]) : Len(d) \in 1 .. BUF_SIZE

(* Nobody forgets what was written.                                        *)
LEMMA Growing ==
  ASSUME SessionTypeOK, NEW s \in Sides, len' = len,
         sent'[s] \in Nat, flight'[s] \in Nat, copies'[s] \in Nat,
         sent'[s] >= sent[s], flight'[s] >= flight[s], copies'[s] >= copies[s]
  PROVE  /\ Written(s) \subseteq Written(s)' /\ WrittenBytes(s) \subseteq WrittenBytes(s)'
<1>1. sent[s] \in Nat /\ flight[s] \in Nat /\ copies[s] \in Nat
  <2>1. /\ sent \in [Sides -> 0 .. MaxData] /\ flight \in [Sides -> 0 .. 4]
        /\ copies \in [Sides -> Nat]
    BY DEF SessionTypeOK
  <2>. QED
    BY <2>1, Sizes
<1>2. ASSUME NEW r \in Written(s) PROVE r \in Written(s)'
  <2>1. r \in AllRecords /\ r[1] \in Nat /\ r[2] \in Nat
    BY DEF Written, AllRecords, Kinds, App, Flights
  <2>2. CASE r[1] = App
    BY <1>1, <2>1, <2>2 DEF Written
  <2>3. CASE r[1] # App
    BY <1>1, <2>1, <2>3 DEF Written
  <2>. QED
    BY <2>2, <2>3
<1>3. Written(s) \subseteq Written(s)'
  BY <1>2
<1>4. WrittenBytes(s) \subseteq WrittenBytes(s)'
  BY <1>3 DEF WrittenBytes
<1>. QED
  BY <1>3, <1>4

LEMMA WrittenTypes ==
  /\ \A s : Written(s) \subseteq AllRecords /\ WrittenBytes(s) \subseteq AllBytes
  /\ \A s : Written(s)' \subseteq AllRecords /\ WrittenBytes(s)' \subseteq AllBytes
BY DEF Written, WrittenBytes

(* A step that takes what rest leaves from the network and flushes.        *)
LEMMA FlushTravels ==
  ASSUME SessionTypeOK, Genuine, len' = len, NEW s \in Sides,
         \A t \in Sides : WrittenBytes(t) \subseteq WrittenBytes(t)',
         NEW rest \in Seq(Seq(WrittenBytes(Peer(s)))), ToSet(rest) \subseteq ToSet(net[s]),
         NEW stream \in Seq(WrittenBytes(s)'), Flush(s, rest, stream)
  PROVE  /\ wbio' \in [Sides -> Seq(AllBytes)] /\ net' \in [Sides -> Seq(Seq(AllBytes))]
         /\ \A t \in Sides : Travels(t)'
<1> DEFINE p == Peer(s)
           W(t) == WrittenBytes(t)'
           d == SubSeq(stream, 1, Min({ReadSize, Len(stream)}))
<1>1. p \in Sides /\ p # s /\ Peer(p) = s /\ \A t \in Sides : t = s \/ t = p
  BY TwoSides
<1>2. /\ wbio \in [Sides -> Seq(AllBytes)] /\ net \in [Sides -> Seq(Seq(AllBytes))]
      /\ \A t \in Sides : \A i \in DOMAIN net[t] : Len(net[t][i]) \in 1 .. BUF_SIZE
  BY DEF SessionTypeOK
<1>3. /\ wbio[p] \in Seq(WrittenBytes(p)) /\ net[p] \in Seq(Seq(WrittenBytes(s)))
  BY <1>1 DEF Genuine
<1>4. /\ wbio'[s] = SubSeq(stream, ReadSize + 1, Len(stream))
      /\ wbio'[p] = wbio[p] /\ net'[s] = rest
      /\ net'[p] = IF stream = <<>> THEN net[p] ELSE Append(net[p], d)
      /\ wbio' = [t \in Sides |-> wbio'[t]] /\ net' = [t \in Sides |-> net'[t]]
  BY <1>2, Flushed
<1>5. /\ d \in Seq(W(s)) /\ (stream # <<>> => Len(d) \in 1 .. BUF_SIZE)
      /\ SubSeq(stream, ReadSize + 1, Len(stream)) \in Seq(W(s))
  <2>1. /\ d \in Seq(W(s)) /\ Len(d) <= BUF_SIZE /\ (stream # <<>> => Len(d) >= 1)
        /\ SubSeq(stream, ReadSize + 1, Len(stream)) \in Seq(W(s))
    BY Cut
  <2> HIDE DEF d, W
  <2>2. Len(d) \in Nat
    BY <2>1, LenProperties
  <2>. QED
    BY <2>1, <2>2, Sizes
<1> HIDE DEF d, p, W
<1>6. /\ wbio[p] \in Seq(W(p)) /\ net[p] \in Seq(Seq(W(s))) /\ rest \in Seq(Seq(W(p)))
  <2>1. \A S, T : S \subseteq T => Seq(S) \subseteq Seq(T)
    BY SeqMonotonic
  <2>2. WrittenBytes(s) \subseteq W(s) /\ WrittenBytes(p) \subseteq W(p)
    BY <1>1 DEF W
  <2>. QED
    BY <1>3, <2>1, <2>2 DEF p
<1>7. wbio'[s] \in Seq(W(s)) /\ wbio'[p] \in Seq(W(p))
  BY <1>4, <1>5, <1>6
<1>8. /\ net'[s] \in Seq(Seq(W(p))) /\ net'[p] \in Seq(Seq(W(s)))
      /\ ToSet(net'[p]) \subseteq IF stream = <<>> THEN ToSet(net[p]) ELSE ToSet(net[p]) \cup {d}
  BY <1>4, <1>5, <1>6, AppendSet
<1>9. \A t \in Sides : \A e \in ToSet(net[t]) : Len(e) \in 1 .. BUF_SIZE
  BY <1>2 DEF ToSet
<1>10. \A t \in Sides : \A e \in ToSet(net'[t]) : Len(e) \in 1 .. BUF_SIZE
  BY <1>1, <1>4, <1>5, <1>8, <1>9
<1>11. \A t \in Sides : W(t) \subseteq AllBytes
  BY WrittenTypes DEF W
<1>12. wbio'[s] \in Seq(AllBytes) /\ wbio'[p] \in Seq(AllBytes)
       /\ net'[s] \in Seq(Seq(AllBytes)) /\ net'[p] \in Seq(Seq(AllBytes))
  <2>1. \A S, T : S \subseteq T => Seq(S) \subseteq Seq(T)
    BY SeqMonotonic
  <2>. QED
    BY <1>1, <1>7, <1>8, <1>11, <2>1
<1>13. wbio' \in [Sides -> Seq(AllBytes)] /\ net' \in [Sides -> Seq(Seq(AllBytes))]
  BY <1>1, <1>4, <1>12
<1>14. Travels(s)' /\ Travels(p)'
  <2>1. wbio'[s] \in Seq(WrittenBytes(s)') /\ net'[Peer(s)] \in Seq(Seq(WrittenBytes(s)'))
    BY <1>7, <1>8 DEF W, p
  <2>2. wbio'[p] \in Seq(WrittenBytes(p)') /\ net'[Peer(p)] \in Seq(Seq(WrittenBytes(p)'))
    BY <1>1, <1>7, <1>8 DEF W
  <2>. QED
    BY <1>1, <1>10, <2>1, <2>2 DEF Travels
<1>. QED
  BY <1>1, <1>13, <1>14

Base == SessionTypeOK /\ Genuine /\ TakeTurns /\ Replay

(* What the invariant says of one side.                                    *)
LEMMA OneSide ==
  ASSUME Base, NEW s \in Sides
  PROVE  /\ wbio[s] \in Seq(WrittenBytes(s)) /\ net[s] \in Seq(Seq(WrittenBytes(Peer(s))))
         /\ held[s] \in Seq(Written(Peer(s))) /\ known[s] \subseteq Written(Peer(s))
         /\ \A d \in ToSet(net[s]) : Len(d) \in 1 .. BUF_SIZE
         /\ flight[s] \in 0 .. 4 /\ flight[s] \in Nat /\ copies[s] \in Nat
         /\ sent[s] \in 0 .. MaxData /\ sent[s] \in Nat
         /\ pc[s] \in {"start", "wait", "data", "ended"} /\ (Shaking(s) => held[s] = <<>>)
<1>1. /\ \A t \in Sides : \A i \in DOMAIN net[t] : Len(net[t][i]) \in 1 .. BUF_SIZE
      /\ flight \in [Sides -> 0 .. 4] /\ copies \in [Sides -> Nat]
      /\ sent \in [Sides -> 0 .. MaxData]
      /\ pc \in [Sides -> {"start", "wait", "data", "ended"}]
      /\ \A t \in Sides : Shaking(t) => held[t] = <<>>
  BY DEF Base, SessionTypeOK
<1>2. Peer(s) \in Sides /\ Peer(Peer(s)) = s
  BY TwoSides
<1>3. /\ wbio[s] \in Seq(WrittenBytes(s)) /\ net[s] \in Seq(Seq(WrittenBytes(Peer(s))))
      /\ held[s] \in Seq(Written(Peer(s))) /\ known[s] \subseteq Written(Peer(s))
  BY <1>2 DEF Base, Genuine
<1>4. flight[s] \in 0 .. 4 /\ copies[s] \in Nat /\ sent[s] \in 0 .. MaxData
  BY <1>1
<1>5. sent[s] \in Nat /\ flight[s] \in Nat
  BY <1>4, Sizes
<1>6. \A d \in ToSet(net[s]) : Len(d) \in 1 .. BUF_SIZE
  BY <1>1 DEF ToSet
<1>. QED
  BY <1>1, <1>3, <1>4, <1>5, <1>6

(* A record that was written is a packet or a flight of that side.         *)
LEMMA WrittenCases ==
  ASSUME NEW s, NEW r \in Written(s)
  PROVE  /\ r = <<r[1], r[2]>> /\ r[1] \in 0 .. 4 /\ r[2] \in Nat
         /\ \/ r[1] = App /\ r[2] \in 1 .. sent[s]
            \/ r[1] # App /\ r[1] \in Turn(s) /\ r[1] <= flight[s] /\ r[2] <= copies[s]
BY DEF Written, AllRecords, Kinds, App, Flights

LEMMA KnownLow ==
  ASSUME Base, NEW s \in Sides, NEW r \in Written(Peer(s))
  PROVE  r[1] \in Nat /\ r[1] <= flight[Peer(s)]
<1>1. Peer(s) \in Sides /\ flight[Peer(s)] \in Nat
  BY TwoSides, OneSide
<1>. QED
  BY <1>1, WrittenCases DEF App

(* Where the handshake is when a side finds what it waits for.             *)
LEMMA FoundCases ==
  ASSUME Base, NEW s \in Sides, NEW r \in Written(Peer(s)), r[1] = flight[s] + 1
  PROVE  \/ s = "client" /\ flight["client"] = 1 /\ flight["server"] = 2 /\ r[1] = 2
         \/ s = "client" /\ flight["client"] = 3 /\ flight["server"] = 4 /\ r[1] = 4
         \/ s = "server" /\ flight["client"] = 1 /\ flight["server"] = 0 /\ r[1] = 1
         \/ s = "server" /\ flight["client"] = 3 /\ flight["server"] = 2 /\ r[1] = 3
<1>1. r[1] \in Turn(Peer(s)) /\ r[1] <= flight[Peer(s)]
  BY WrittenCases, OneSide DEF App
<1>2. \/ flight["client"] = 0 /\ flight["server"] = 0
      \/ flight["client"] = 1 /\ flight["server"] = 0
      \/ flight["client"] = 1 /\ flight["server"] = 2
      \/ flight["client"] = 3 /\ flight["server"] = 2
      \/ flight["client"] = 3 /\ flight["server"] = 4
  BY DEF Base, TakeTurns
<1>3. CASE s = "client"
  BY <1>1, <1>2, <1>3 DEF Peer, Turn
<1>4. CASE s = "server"
  BY <1>1, <1>2, <1>4 DEF Peer, Turn
<1>. QED
  BY <1>3, <1>4 DEF Sides

(* How types and Genuine are put together again.                           *)
LEMMA Together ==
  ASSUME len' \in Lengths, pc' \in [Sides -> {"start", "wait", "data", "ended"}],
         flight' \in [Sides -> 0 .. 4], copies' \in [Sides -> Nat],
         wbio' \in [Sides -> Seq(AllBytes)], net' \in [Sides -> Seq(Seq(AllBytes))],
         DOMAIN held' = Sides, held' = [t \in Sides |-> held'[t]],
         DOMAIN known' = Sides, known' = [t \in Sides |-> known'[t]],
         sent' \in [Sides -> 0 .. MaxData],
         delivered' \in [Sides -> [1 .. MaxData -> Nat]],
         hit' \subseteq Faults, nfaults' \in 0 .. MaxFaults,
         \A t \in Sides : Travels(t)',
         \A t \in Sides : /\ held'[t] \in Seq(Written(Peer(t))')
                          /\ known'[t] \subseteq Written(Peer(t))'
                          /\ Shaking(t)' => held'[t] = <<>>
  PROVE  SessionTypeOK' /\ Genuine'
<1>1. \A t \in Sides : \A i \in DOMAIN net'[t] : Len(net'[t][i]) \in 1 .. BUF_SIZE
  BY DEF Travels, ToSet
<1>2. held' \in [Sides -> Seq(AllRecords)] /\ known' \in [Sides -> SUBSET AllRecords]
  <2>1. \A t \in Sides : held'[t] \in Seq(AllRecords)
    BY WrittenTypes, SeqMonotonic
  <2>2. \A t \in Sides : known'[t] \in SUBSET AllRecords
    BY WrittenTypes
  <2>. QED
    BY <2>1, <2>2
<1>3. SessionTypeOK'
  BY <1>1, <1>2 DEF SessionTypeOK
<1>4. Genuine'
  <2>1. SUFFICES ASSUME NEW t \in Sides
                 PROVE  /\ wbio'[t] \in Seq(WrittenBytes(t)')
                        /\ net'[Peer(t)] \in Seq(Seq(WrittenBytes(t)'))
                        /\ held'[Peer(t)] \in Seq(Written(t)')
                        /\ known'[Peer(t)] \subseteq Written(t)'
    BY DEF Genuine
  <2>2. Peer(t) \in Sides /\ Peer(Peer(t)) = t
    BY TwoSides
  <2>. QED
    BY <2>2 DEF Travels
<1>. QED
  BY <1>3, <1>4

-----------------------------------------------------------------------------
(***************************************************************************)
(* Types, what is on its way, turns and replays: one lemma per action      *)
(***************************************************************************)

LEMMA StartBase ==
  ASSUME Base, NEW s \in Sides, Start(s)
  PROVE  Base'
<1>0. SessionTypeOK /\ Genuine /\ TakeTurns /\ Replay
  BY DEF Base
<1>1. /\ pc[s] = "start" /\ pc' = [pc EXCEPT ![s] = "wait"] /\ len' = len
      /\ UNCHANGED <<copies, held, known, sent, delivered, hit, nfaults>>
  BY DEF Start, packetVars, faultVars
<1>2. /\ pc' \in [Sides -> {"start", "wait", "data", "ended"}]
      /\ copies' \in [Sides -> Nat] /\ sent' \in [Sides -> 0 .. MaxData]
      /\ delivered' \in [Sides -> [1 .. MaxData -> Nat]]
      /\ held \in [Sides -> Seq(AllRecords)] /\ known \in [Sides -> SUBSET AllRecords]
      /\ hit' \subseteq Faults /\ nfaults' \in 0 .. MaxFaults /\ len' \in Lengths
      /\ flight \in [Sides -> 0 .. 4] /\ \A t \in Sides : flight[t] \in Nat
  BY <1>0, <1>1, OneSide DEF SessionTypeOK
<1>3. \/ s = "client" /\ flight["client"] = 0 /\ flight["server"] = 0
      \/ s = "server" /\ flight["server"] = 0
  BY <1>0, <1>1 DEF TakeTurns, Sides
<1>4. /\ flight' \in [Sides -> 0 .. 4] /\ \A t \in Sides : flight'[t] >= flight[t]
      /\ \/ s = "client" /\ flight'["client"] = 1 /\ flight'["server"] = 0
         \/ s = "server" /\ flight' = flight
  <2>1. CASE s = "client" /\ flight' = [flight EXCEPT ![s] = 1]
    BY <1>2, <1>3, <2>1 DEF Sides
  <2>2. CASE s = "server" /\ flight' = flight
    BY <1>2, <2>2
  <2>. QED
    BY <2>1, <2>2 DEF Start
<1>5. \A t \in Sides :
        Written(t) \subseteq Written(t)' /\ WrittenBytes(t) \subseteq WrittenBytes(t)'
  <2>1. SUFFICES ASSUME NEW t \in Sides
                 PROVE  Written(t) \subseteq Written(t)' /\ WrittenBytes(t) \subseteq WrittenBytes(t)'
    OBVIOUS
  <2>2. flight[t] \in Nat /\ sent[t] \in Nat /\ copies[t] \in Nat
    BY OneSide
  <2>3. flight'[t] \in Nat
    BY <1>4, <2>2
  <2>. QED
    BY <1>0, <1>1, <1>4, <2>2, <2>3, Growing
<1>6. /\ wbio' \in [Sides -> Seq(AllBytes)] /\ net' \in [Sides -> Seq(Seq(AllBytes))]
      /\ \A t \in Sides : Travels(t)'
  <2>1. CASE s = "client" /\ Flush(s, net[s], Bytes(<<1, 0>>))
    <3>1. <<1, 0>> \in Written(s)'
      <4>1. copies'[s] \in Nat /\ flight'[s] = 1
        BY <1>2, <1>4, <2>1 DEF Sides
      <4>. QED
        BY <2>1, <4>1 DEF Written, AllRecords, Kinds, Flights, App, Turn
    <3>2. Bytes(<<1, 0>>) \in Seq(WrittenBytes(s)')
      BY <1>1, <1>2, <3>1, BytesWritten
    <3>3. net[s] \in Seq(Seq(WrittenBytes(Peer(s))))
      BY OneSide
    <3>. QED
      BY <1>0, <1>1, <1>5, <2>1, <3>2, <3>3, FlushTravels
  <2>2. CASE s = "server" /\ flight' = flight /\ wbio' = wbio /\ net' = net
    <3>1. \A t \in Sides : WrittenBytes(t)' = WrittenBytes(t)
      BY <1>1, <2>2 DEF WrittenBytes, Written
    <3>2. \A t \in Sides : Travels(t)
      <4>1. SUFFICES ASSUME NEW t \in Sides PROVE Travels(t)
        OBVIOUS
      <4>2. Peer(t) \in Sides /\ Peer(Peer(t)) = t
        BY TwoSides
      <4>. QED
        BY <4>2, OneSide DEF Travels
    <3>3. wbio \in [Sides -> Seq(AllBytes)] /\ net \in [Sides -> Seq(Seq(AllBytes))]
      BY <1>0 DEF SessionTypeOK
    <3>. QED
      BY <2>2, <3>1, <3>2, <3>3 DEF Travels
  <2>. QED
    BY <2>1, <2>2 DEF Start
<1>7. \A t \in Sides : /\ held'[t] \in Seq(Written(Peer(t))')
                       /\ known'[t] \subseteq Written(Peer(t))'
                       /\ Shaking(t)' => held'[t] = <<>>
  <2>1. SUFFICES ASSUME NEW t \in Sides
                 PROVE  /\ held[t] \in Seq(Written(Peer(t))')
                        /\ known[t] \subseteq Written(Peer(t))'
                        /\ Shaking(t)' => held[t] = <<>>
    BY <1>1
  <2>2. held[t] \in Seq(Written(Peer(t))) /\ known[t] \subseteq Written(Peer(t))
    BY OneSide
  <2>3. Written(Peer(t)) \subseteq Written(Peer(t))'
    BY <1>5, TwoSides
  <2>4. Shaking(t) => held[t] = <<>>
    BY OneSide
  <2>5. Shaking(t)' => Shaking(t)
    BY <1>0, <1>1 DEF SessionTypeOK, Shaking
  <2>. QED
    BY <2>2, <2>3, <2>4, <2>5, SeqMonotonic
<1>8. SessionTypeOK' /\ Genuine'
  BY <1>1, <1>2, <1>4, <1>6, <1>7, Together
<1>9. TakeTurns'
  <2>1. ASSUME NEW t \in Sides, Shaking(t)', NEW r \in known'[t]
        PROVE  r[1] # flight'[t] + 1
    <3>1. Shaking(t) /\ r \in known[t] /\ r \in Written(Peer(t))
      BY <1>0, <1>1, <2>1, OneSide DEF SessionTypeOK, Shaking
    <3>2. CASE flight'[t] = flight[t]
      BY <1>0, <2>1, <3>1, <3>2 DEF TakeTurns
    <3>3. CASE t = "client" /\ s = "client"
      <4>1. r[1] \in Nat /\ r[1] <= flight["server"]
        BY <3>1, <3>3, KnownLow DEF Peer
      <4>. QED
        BY <1>3, <1>4, <3>3, <4>1
    <3>. QED
      BY <1>3, <1>4, <3>2, <3>3 DEF Sides
  <2>2. CASE s = "client"
    <3>1. pc'["client"] = "wait" /\ pc'["server"] = pc["server"]
      BY <1>0, <1>1, <2>2 DEF SessionTypeOK, Sides
    <3>. QED
      BY <1>0, <1>1, <1>3, <1>4, <2>1, <2>2, <3>1 DEF TakeTurns, Shaking
  <2>3. CASE s = "server"
    <3>1. pc'["client"] = pc["client"] /\ pc'["server"] = "wait" /\ pc["server"] = "start"
      BY <1>0, <1>1, <2>3 DEF SessionTypeOK, Sides
    <3>. QED
      BY <1>0, <1>1, <1>3, <1>4, <2>1, <2>3, <3>1 DEF TakeTurns, Shaking
  <2>. QED
    BY <2>2, <2>3 DEF Sides
<1>10. Replay'
  BY <1>0, <1>1 DEF Replay
<1>. QED
  BY <1>8, <1>9, <1>10 DEF Base

(* What a side finds when it receives.                                     *)
LEMMA Arrives ==
  ASSUME Base, NEW s \in Sides, net[s] # <<>>
  PROVE  /\ Head(net[s]) \in Seq(WrittenBytes(Peer(s))) /\ Head(net[s]) # <<>>
         /\ Head(net[s]) \in ToSet(net[s])
         /\ Records(Head(net[s])) \in Seq(Written(Peer(s)))
         /\ Tail(net[s]) \in Seq(Seq(WrittenBytes(Peer(s))))
         /\ ToSet(Tail(net[s])) \subseteq ToSet(net[s])
         /\ len \in Lengths /\ Peer(s) \in Sides
<1>0. len \in Lengths /\ Peer(s) \in Sides
  BY TwoSides DEF Base, SessionTypeOK
<1>1. /\ net[s] \in Seq(Seq(WrittenBytes(Peer(s))))
      /\ \A d \in ToSet(net[s]) : Len(d) \in 1 .. BUF_SIZE
  BY OneSide
<1>2. /\ Tail(net[s]) \in Seq(Seq(WrittenBytes(Peer(s)))) /\ Head(net[s]) \in ToSet(net[s])
      /\ ToSet(Tail(net[s])) \subseteq ToSet(net[s])
  BY <1>1, TailSet
<1>3. Head(net[s]) \in Seq(WrittenBytes(Peer(s)))
  BY <1>1, HeadTailProperties
<1>4. Len(Head(net[s])) >= 1
  BY <1>1, <1>2, Sizes
<1>5. Head(net[s]) # <<>>
  BY <1>4
<1>6. Records(Head(net[s])) \in Seq(Written(Peer(s)))
  BY <1>0, <1>3, <1>5, RecordsOf
<1>. QED
  BY <1>0, <1>2, <1>3, <1>5, <1>6

(* What every step but one of the network does to a side, and what it      *)
(* leaves alone.                                                           *)
LEMMA GrowsAll ==
  ASSUME Base, len' = len,
         \A t \in Sides : /\ sent'[t] \in Nat /\ flight'[t] \in Nat /\ copies'[t] \in Nat
                          /\ sent'[t] >= sent[t] /\ flight'[t] >= flight[t]
                          /\ copies'[t] >= copies[t]
  PROVE  \A t \in Sides :
           /\ Written(t) \subseteq Written(t)' /\ WrittenBytes(t) \subseteq WrittenBytes(t)'
           /\ held[t] \in Seq(Written(Peer(t))') /\ known[t] \subseteq Written(Peer(t))'
<1>1. \A t \in Sides :
        Written(t) \subseteq Written(t)' /\ WrittenBytes(t) \subseteq WrittenBytes(t)'
  BY Growing DEF Base
<1>2. ASSUME NEW t \in Sides
      PROVE  held[t] \in Seq(Written(Peer(t))') /\ known[t] \subseteq Written(Peer(t))'
  <2>1. Written(Peer(t)) \subseteq Written(Peer(t))'
    BY <1>1, TwoSides
  <2>. QED
    BY <2>1, OneSide, SeqMonotonic
<1>. QED
  BY <1>1, <1>2

LEMMA AdvanceBase ==
  ASSUME Base, NEW s \in Sides, pc[s] = "wait", net[s] # <<>>,
         Advance(s, Records(Head(net[s]))), UNCHANGED <<len, packetVars, faultVars>>
  PROVE  Base'
<1> DEFINE q == Records(Head(net[s]))
           i == Awaited(s, q)
           f == q[i][1]
           p == Peer(s)
<1>0. SessionTypeOK /\ Genuine /\ TakeTurns /\ Replay
  BY DEF Base
<1>1. /\ q \in Seq(Written(p)) /\ Tail(net[s]) \in Seq(Seq(WrittenBytes(p)))
      /\ ToSet(Tail(net[s])) \subseteq ToSet(net[s]) /\ len \in Lengths /\ p \in Sides
  BY Arrives
<1>2. /\ i # 0 /\ pc' = [pc EXCEPT ![s] = IF Completes(f) THEN "data" ELSE @]
      /\ flight' = [flight EXCEPT ![s] = IF f = 4 THEN @ ELSE f + 1]
      /\ held' = [held EXCEPT ![s] = IF Completes(f) THEN SubSeq(q, i + 1, Len(q)) ELSE <<>>]
      /\ known' = [known EXCEPT ![s] = @ \cup {q[i]}]
      /\ Flush(s, Tail(net[s]), wbio[s] \o Answer(f))
      /\ copies' = copies /\ len' = len /\ sent' = sent /\ delivered' = delivered
      /\ hit' = hit /\ nfaults' = nfaults
  BY DEF Advance, packetVars, faultVars
<1> HIDE DEF q, i
<1>3. i \in 1 .. Len(q) /\ f = flight[s] + 1 /\ q[i] \notin known[s]
  BY <1>1, <1>2, AwaitedCases DEF i
<1>4. q[i] \in Written(p) /\ Len(q) \in Nat /\ \A k \in 1 .. Len(q) : q[k] \in Written(p)
  BY <1>1, <1>3, LenProperties
<1>5. \/ s = "client" /\ flight["client"] = 1 /\ flight["server"] = 2 /\ f = 2
      \/ s = "client" /\ flight["client"] = 3 /\ flight["server"] = 4 /\ f = 4
      \/ s = "server" /\ flight["client"] = 1 /\ flight["server"] = 0 /\ f = 1
      \/ s = "server" /\ flight["client"] = 3 /\ flight["server"] = 2 /\ f = 3
  BY <1>3, <1>4, FoundCases
<1> HIDE DEF f
<1>6. \/ s = "client" /\ flight'["client"] = 3 /\ flight'["server"] = 2 /\ f = 2
      \/ s = "client" /\ flight'["client"] = 3 /\ flight'["server"] = 4 /\ f = 4
      \/ s = "server" /\ flight'["client"] = 1 /\ flight'["server"] = 2 /\ f = 1
      \/ s = "server" /\ flight'["client"] = 3 /\ flight'["server"] = 4 /\ f = 3
  <2>1. flight'[s] = (IF f = 4 THEN flight[s] ELSE f + 1) /\ flight'[p] = flight[p]
    BY <1>0, <1>1, <1>2, TwoSides DEF SessionTypeOK
  <2>2. CASE s = "client"
    BY <1>5, <2>1, <2>2 DEF Peer
  <2>3. CASE s = "server"
    BY <1>5, <2>1, <2>3 DEF Peer
  <2>. QED
    BY <2>2, <2>3 DEF Sides
<1>7. flight' \in [Sides -> 0 .. 4] /\ \A t \in Sides : flight'[t] \in Nat /\ flight'[t] >= flight[t]
  <2>1. flight' = [t \in Sides |-> flight'[t]]
    BY <1>0, <1>2 DEF SessionTypeOK
  <2>2. \A t \in Sides : flight'[t] \in 0 .. 4 /\ flight'[t] \in Nat /\ flight'[t] >= flight[t]
    BY <1>5, <1>6 DEF Sides
  <2>. QED
    BY <2>1, <2>2
<1>8. \A t \in Sides :
        /\ Written(t) \subseteq Written(t)' /\ WrittenBytes(t) \subseteq WrittenBytes(t)'
        /\ held[t] \in Seq(Written(Peer(t))') /\ known[t] \subseteq Written(Peer(t))'
  <2>1. \A t \in Sides : /\ sent'[t] \in Nat /\ copies'[t] \in Nat
                         /\ sent'[t] >= sent[t] /\ copies'[t] >= copies[t]
    BY <1>2, OneSide
  <2>. QED
    BY <1>2, <1>7, <2>1, GrowsAll
<1>9. wbio[s] \o Answer(f) \in Seq(WrittenBytes(s)')
  <2>1. wbio[s] \in Seq(WrittenBytes(s)')
    BY <1>8, OneSide, SeqMonotonic
  <2>2. Answer(f) \in Seq(WrittenBytes(s)')
    <3>1. CASE f = 4
      BY <3>1 DEF Answer
    <3>2. CASE f # 4
      <4>1. <<f + 1, 0>> \in Written(s)'
        <5>1. copies'[s] \in Nat /\ flight'[s] = f + 1 /\ f + 1 \in Turn(s) /\ f + 1 \in 2 .. 4
          BY <1>2, <1>6, <3>2, OneSide DEF Turn
        <5>. QED
          BY <5>1 DEF Written, AllRecords, Kinds, Flights, App
      <4>2. Bytes(<<f + 1, 0>>) \in Seq(WrittenBytes(s)')
        BY <1>1, <1>2, <4>1, BytesWritten
      <4>. QED
        BY <3>2, <4>2 DEF Answer
    <3>. QED
      BY <3>1, <3>2
  <2>. QED
    BY <2>1, <2>2, ConcatProperties
<1>10. /\ wbio' \in [Sides -> Seq(AllBytes)] /\ net' \in [Sides -> Seq(Seq(AllBytes))]
       /\ \A t \in Sides : Travels(t)'
  BY <1>0, <1>1, <1>2, <1>8, <1>9, FlushTravels
<1>11. ASSUME NEW t \in Sides
       PROVE  /\ held'[t] \in Seq(Written(Peer(t))') /\ known'[t] \subseteq Written(Peer(t))'
              /\ Shaking(t)' => held'[t] = <<>>
  <2>1. CASE t # s
    <3>1. held'[t] = held[t] /\ known'[t] = known[t] /\ pc'[t] = pc[t]
      BY <1>0, <1>2, <2>1 DEF SessionTypeOK
    <3>2. Shaking(t)' = Shaking(t)
      BY <3>1 DEF Shaking
    <3>. QED
      BY <1>8, <3>1, <3>2, OneSide
  <2>2. CASE t = s
    <3>1. /\ held'[s] = IF Completes(f) THEN SubSeq(q, i + 1, Len(q)) ELSE <<>>
          /\ known'[s] = known[s] \cup {q[i]}
          /\ pc'[s] = IF Completes(f) THEN "data" ELSE "wait"
      BY <1>0, <1>2 DEF SessionTypeOK
    <3>2. Written(p) \subseteq Written(p)'
      BY <1>1, <1>8
    <3>3. SubSeq(q, i + 1, Len(q)) \in Seq(Written(p)')
      <4>1. \A k \in i + 1 .. Len(q) : q[k] \in Written(p)'
        BY <1>3, <1>4, <3>2
      <4>. QED
        BY <1>3, <1>4, <4>1, SubSeqProperties
    <3>4. Shaking(s)' => ~Completes(f)
      BY <3>1 DEF Shaking
    <3>. QED
      BY <1>4, <1>8, <2>2, <3>1, <3>2, <3>3, <3>4
  <2>. QED
    BY <2>1, <2>2
<1>12. SessionTypeOK' /\ Genuine'
  <2>1. /\ pc' \in [Sides -> {"start", "wait", "data", "ended"}] /\ len' \in Lengths
        /\ copies' \in [Sides -> Nat] /\ sent' \in [Sides -> 0 .. MaxData]
        /\ delivered' \in [Sides -> [1 .. MaxData -> Nat]]
        /\ hit' \subseteq Faults /\ nfaults' \in 0 .. MaxFaults
        /\ DOMAIN held' = Sides /\ held' = [t \in Sides |-> held'[t]]
        /\ DOMAIN known' = Sides /\ known' = [t \in Sides |-> known'[t]]
    BY <1>0, <1>2 DEF SessionTypeOK
  <2>. QED
    BY <1>7, <1>10, <1>11, <2>1, Together
<1>13. TakeTurns'
  <2>1. ASSUME NEW t \in Sides, Shaking(t)', NEW r \in known'[t]
        PROVE  r[1] # flight'[t] + 1
    <3>1. CASE t # s
      <4>1. pc'[t] = pc[t] /\ r \in known[t] /\ flight'[t] = flight[t]
        BY <1>0, <1>2, <2>1, <3>1 DEF SessionTypeOK
      <4>. QED
        BY <1>0, <2>1, <4>1 DEF TakeTurns, Shaking
    <3>2. CASE t = s
      <4>1. r \in Written(p)
        BY <1>0, <1>2, <1>4, <2>1, <3>2, OneSide DEF SessionTypeOK
      <4>2. r[1] \in Nat /\ r[1] <= flight[p]
        BY <4>1, KnownLow
      <4>3. f = 1 \/ f = 2
        <5>1. pc'[s] = IF Completes(f) THEN "data" ELSE "wait"
          BY <1>0, <1>2 DEF SessionTypeOK
        <5>2. ~Completes(f)
          BY <2>1, <3>2, <5>1 DEF Shaking
        <5>. QED
          BY <1>5, <5>2 DEF Completes
      <4>. QED
        BY <1>5, <1>6, <3>2, <4>2, <4>3 DEF Peer
    <3>. QED
      BY <3>1, <3>2
  <2>2. pc'[s] = (IF f >= 3 THEN "data" ELSE "wait") /\ pc'[p] = pc[p]
    BY <1>0, <1>1, <1>2, TwoSides DEF SessionTypeOK, Completes
  <2>3. CASE s = "client"
    BY <1>0, <1>5, <1>6, <2>1, <2>2, <2>3 DEF TakeTurns, Shaking, Peer
  <2>4. CASE s = "server"
    BY <1>0, <1>5, <1>6, <2>1, <2>2, <2>4 DEF TakeTurns, Shaking, Peer
  <2>. QED
    BY <2>3, <2>4 DEF Sides
<1>14. Replay'
  <2>1. \A t \in Sides : known[t] \subseteq known'[t]
    BY <1>0, <1>2 DEF SessionTypeOK
  <2>. QED
    BY <1>0, <1>2, <2>1 DEF Replay
<1>. QED
  BY <1>12, <1>13, <1>14 DEF Base

(* The last flight of a side that has sent one can be sent again.          *)
LEMMA SentAgain ==
  ASSUME Base, NEW s \in Sides, flight[s] > 0, len' = len, flight' = flight,
         copies' = [copies EXCEPT ![s] = @ + 1]
  PROVE  /\ Bytes(<<flight[s], copies[s] + 1>>) \in Seq(WrittenBytes(s)')
         /\ <<flight[s], copies[s] + 1>> \in AllRecords
<1>1. flight[s] \in Turn(s)
  BY DEF Base, TakeTurns, Sides, Turn
<1>2. flight[s] \in 1 .. 4 /\ copies[s] \in Nat /\ copies'[s] = copies[s] + 1
  BY OneSide DEF Base, SessionTypeOK
<1>3. <<flight[s], copies[s] + 1>> \in Written(s)'
  BY <1>1, <1>2 DEF Written, AllRecords, Kinds, Flights, App
<1>. QED
  BY <1>3, BytesWritten DEF Base, SessionTypeOK

LEMMA NoAdvanceBase ==
  ASSUME Base, NEW s \in Sides, pc[s] = "wait", net[s] # <<>>,
         NoAdvance(s, Records(Head(net[s]))), UNCHANGED <<len, packetVars, faultVars>>
  PROVE  Base'
<1> DEFINE q == Records(Head(net[s]))
           p == Peer(s)
<1>0. SessionTypeOK /\ Genuine /\ TakeTurns /\ Replay
  BY DEF Base
<1>1. /\ q \in Seq(Written(p)) /\ Tail(net[s]) \in Seq(Seq(WrittenBytes(p)))
      /\ ToSet(Tail(net[s])) \subseteq ToSet(net[s]) /\ len \in Lengths /\ p \in Sides
  BY Arrives
<1>2. /\ Awaited(s, q) = 0
      /\ known' = [known EXCEPT ![s] = @ \cup {r \in ToSet(q) : r[1] # App}]
      /\ \/ copies' = copies
         \/ /\ flight[s] > 0 /\ copies' = [copies EXCEPT ![s] = @ + 1]
      /\ pc' = pc /\ flight' = flight /\ held' = held
      /\ len' = len /\ sent' = sent /\ delivered' = delivered
      /\ hit' = hit /\ nfaults' = nfaults
  BY DEF NoAdvance, packetVars, faultVars
<1>3. PICK stream :
        /\ Flush(s, Tail(net[s]), stream)
        /\ \/ stream = wbio[s]
           \/ /\ stream = wbio[s] \o Bytes(<<flight[s], copies[s] + 1>>)
              /\ flight[s] > 0 /\ copies' = [copies EXCEPT ![s] = @ + 1]
  BY DEF NoAdvance
<1> HIDE DEF q
<1>4. ToSet(q) \subseteq Written(p) /\ ToSet(q) = {q[k] : k \in 1 .. Len(q)}
  BY <1>1, InSet
<1>5. \A r \in ToSet(q) : r[1] = flight[s] + 1 => r \in known[s]
  BY <1>1, <1>2, <1>4, AwaitedCases
<1>6. copies' \in [Sides -> Nat] /\ \A t \in Sides : copies'[t] \in Nat /\ copies'[t] >= copies[t]
  <2>1. copies \in [Sides -> Nat]
    BY <1>0 DEF SessionTypeOK
  <2>. QED
    BY <1>2, <2>1
<1>7. \A t \in Sides :
        /\ Written(t) \subseteq Written(t)' /\ WrittenBytes(t) \subseteq WrittenBytes(t)'
        /\ held[t] \in Seq(Written(Peer(t))') /\ known[t] \subseteq Written(Peer(t))'
  <2>1. \A t \in Sides : /\ sent'[t] \in Nat /\ flight'[t] \in Nat
                         /\ sent'[t] >= sent[t] /\ flight'[t] >= flight[t]
    BY <1>2, OneSide
  <2>. QED
    BY <1>2, <1>6, <2>1, GrowsAll
<1>8. stream \in Seq(WrittenBytes(s)')
  <2>1. wbio[s] \in Seq(WrittenBytes(s)')
    BY <1>7, OneSide, SeqMonotonic
  <2>2. CASE stream = wbio[s]
    BY <2>1, <2>2
  <2>3. CASE /\ stream = wbio[s] \o Bytes(<<flight[s], copies[s] + 1>>)
             /\ flight[s] > 0 /\ copies' = [copies EXCEPT ![s] = @ + 1]
    <3>1. Bytes(<<flight[s], copies[s] + 1>>) \in Seq(WrittenBytes(s)')
      BY <1>2, <2>3, SentAgain
    <3>. QED
      BY <2>1, <2>3, <3>1, ConcatProperties
  <2>. QED
    BY <1>3, <2>2, <2>3
<1>9. /\ wbio' \in [Sides -> Seq(AllBytes)] /\ net' \in [Sides -> Seq(Seq(AllBytes))]
      /\ \A t \in Sides : Travels(t)'
  BY <1>0, <1>1, <1>2, <1>3, <1>7, <1>8, FlushTravels
<1>10. ASSUME NEW t \in Sides
       PROVE  /\ known'[t] \subseteq Written(Peer(t))' /\ known[t] \subseteq known'[t]
              /\ \A r \in known'[t] : r \in known[t] \/ (t = s /\ r \in ToSet(q))
  <2>1. CASE t # s
    <3>1. known'[t] = known[t]
      BY <1>0, <1>2, <2>1 DEF SessionTypeOK
    <3>. QED
      BY <1>7, <3>1
  <2>2. CASE t = s
    <3>1. known'[s] = known[s] \cup {r \in ToSet(q) : r[1] # App}
      BY <1>0, <1>2 DEF SessionTypeOK
    <3>2. Written(p) \subseteq Written(p)'
      BY <1>1, <1>7
    <3>. QED
      BY <1>4, <1>7, <2>2, <3>1, <3>2
  <2>. QED
    BY <2>1, <2>2
<1>11. SessionTypeOK' /\ Genuine'
  <2>1. /\ pc' \in [Sides -> {"start", "wait", "data", "ended"}] /\ len' \in Lengths
        /\ flight' \in [Sides -> 0 .. 4] /\ sent' \in [Sides -> 0 .. MaxData]
        /\ delivered' \in [Sides -> [1 .. MaxData -> Nat]]
        /\ hit' \subseteq Faults /\ nfaults' \in 0 .. MaxFaults
        /\ DOMAIN held' = Sides /\ held' = [t \in Sides |-> held'[t]]
        /\ DOMAIN known' = Sides /\ known' = [t \in Sides |-> known'[t]]
    BY <1>0, <1>2 DEF SessionTypeOK
  <2>2. \A t \in Sides : /\ held'[t] \in Seq(Written(Peer(t))')
                         /\ known'[t] \subseteq Written(Peer(t))'
                         /\ Shaking(t)' => held'[t] = <<>>
    BY <1>2, <1>7, <1>10, OneSide DEF Shaking
  <2>. QED
    BY <1>6, <1>9, <2>1, <2>2, Together
<1>12. TakeTurns'
  <2>1. ASSUME NEW t \in Sides, Shaking(t)', NEW r \in known'[t]
        PROVE  r[1] # flight'[t] + 1
    <3>1. Shaking(t) /\ flight'[t] = flight[t]
      BY <1>2, <2>1 DEF Shaking
    <3>2. \A u \in known[t] : u[1] # flight[t] + 1
      BY <1>0, <3>1 DEF TakeTurns
    <3>. QED
      BY <1>5, <1>10, <2>1, <3>1, <3>2
  <2>. QED
    BY <1>0, <1>2, <2>1 DEF TakeTurns, Shaking
<1>13. Replay'
  BY <1>0, <1>2, <1>10 DEF Replay
<1>. QED
  BY <1>11, <1>12, <1>13 DEF Base

LEMMA EncryptBase ==
  ASSUME Base, NEW s \in Sides, Encrypt(s)
  PROVE  Base'
<1>0. SessionTypeOK /\ Genuine /\ TakeTurns /\ Replay /\ len \in Lengths
  BY DEF Base, SessionTypeOK
<1>1. /\ sent[s] < MaxData /\ sent' = [sent EXCEPT ![s] = @ + 1]
      /\ Flush(s, net[s], wbio[s] \o Bytes(<<App, sent[s] + 1>>))
      /\ len' = len /\ pc' = pc /\ flight' = flight /\ copies' = copies /\ held' = held
      /\ known' = known /\ delivered' = delivered /\ hit' = hit /\ nfaults' = nfaults
  BY DEF Encrypt, faultVars
<1>2. sent' \in [Sides -> 0 .. MaxData] /\ \A t \in Sides : sent'[t] \in Nat /\ sent'[t] >= sent[t]
  <2>1. sent \in [Sides -> 0 .. MaxData] /\ \A t \in Sides : sent[t] \in Nat
    BY <1>0, OneSide DEF SessionTypeOK
  <2>2. sent[s] + 1 \in 0 .. MaxData
    BY <1>1, <2>1, Sizes
  <2>3. sent' \in [Sides -> 0 .. MaxData]
    BY <1>1, <2>1, <2>2
  <2>4. ASSUME NEW t \in Sides PROVE sent'[t] \in Nat /\ sent'[t] >= sent[t]
    BY <1>1, <2>1
  <2>. QED
    BY <2>3, <2>4
<1>3. \A t \in Sides :
        /\ Written(t) \subseteq Written(t)' /\ WrittenBytes(t) \subseteq WrittenBytes(t)'
        /\ held[t] \in Seq(Written(Peer(t))') /\ known[t] \subseteq Written(Peer(t))'
  <2>1. \A t \in Sides : /\ copies'[t] \in Nat /\ flight'[t] \in Nat
                         /\ copies'[t] >= copies[t] /\ flight'[t] >= flight[t]
    BY <1>1, OneSide
  <2>. QED
    BY <1>1, <1>2, <2>1, GrowsAll
<1>4. wbio[s] \o Bytes(<<App, sent[s] + 1>>) \in Seq(WrittenBytes(s)')
  <2>1. wbio[s] \in Seq(WrittenBytes(s)')
    BY <1>3, OneSide, SeqMonotonic
  <2>2. sent[s] \in Nat /\ sent'[s] = sent[s] + 1
    BY <1>0, <1>1, OneSide DEF SessionTypeOK
  <2>3. <<App, sent[s] + 1>> \in Written(s)'
    BY <2>2 DEF Written, AllRecords, Kinds
  <2>4. Bytes(<<App, sent[s] + 1>>) \in Seq(WrittenBytes(s)')
    BY <1>0, <1>1, <2>3, BytesWritten
  <2>. QED
    BY <2>1, <2>4, ConcatProperties
<1>5. /\ wbio' \in [Sides -> Seq(AllBytes)] /\ net' \in [Sides -> Seq(Seq(AllBytes))]
      /\ \A t \in Sides : Travels(t)'
  <2>1. net[s] \in Seq(Seq(WrittenBytes(Peer(s))))
    BY OneSide
  <2>. QED
    BY <1>0, <1>1, <1>3, <1>4, <2>1, FlushTravels
<1>6. SessionTypeOK' /\ Genuine'
  <2>1. /\ pc' \in [Sides -> {"start", "wait", "data", "ended"}] /\ len' \in Lengths
        /\ flight' \in [Sides -> 0 .. 4] /\ copies' \in [Sides -> Nat]
        /\ delivered' \in [Sides -> [1 .. MaxData -> Nat]]
        /\ hit' \subseteq Faults /\ nfaults' \in 0 .. MaxFaults
        /\ DOMAIN held' = Sides /\ held' = [t \in Sides |-> held'[t]]
        /\ DOMAIN known' = Sides /\ known' = [t \in Sides |-> known'[t]]
    BY <1>0, <1>1 DEF SessionTypeOK
  <2>2. \A t \in Sides : /\ held'[t] \in Seq(Written(Peer(t))')
                         /\ known'[t] \subseteq Written(Peer(t))'
                         /\ Shaking(t)' => held'[t] = <<>>
    BY <1>1, <1>3, OneSide DEF Shaking
  <2>. QED
    BY <1>2, <1>5, <2>1, <2>2, Together
<1>7. TakeTurns' /\ Replay'
  BY <1>0, <1>1 DEF TakeTurns, Replay, Shaking
<1>. QED
  BY <1>6, <1>7 DEF Base

LEMMA FaultBase ==
  ASSUME Base, NEW s \in Sides, NEW f, NEW q \in Seq(Seq(WrittenBytes(Peer(s)))),
         ToSet(q) \subseteq ToSet(net[s]), Fault(f, s, q)
  PROVE  Base'
<1>0. SessionTypeOK /\ Genuine /\ TakeTurns /\ Replay
  BY DEF Base
<1>1. /\ f \in Faults /\ nfaults < MaxFaults /\ net' = [net EXCEPT ![s] = q]
      /\ hit' = hit \cup {f} /\ nfaults' = nfaults + 1
      /\ len' = len /\ pc' = pc /\ flight' = flight /\ copies' = copies /\ wbio' = wbio
      /\ held' = held /\ known' = known /\ sent' = sent /\ delivered' = delivered
  BY DEF Fault, sslVars, packetVars
<1>2. \A t \in Sides : Written(t)' = Written(t) /\ WrittenBytes(t)' = WrittenBytes(t)
  BY <1>1 DEF WrittenBytes, Written
<1>3. q \in Seq(Seq(AllBytes))
  BY WrittenTypes, SeqMonotonic
<1>4. net' \in [Sides -> Seq(Seq(AllBytes))]
  BY <1>0, <1>1, <1>3 DEF SessionTypeOK
<1>5. ASSUME NEW t \in Sides PROVE Travels(t)'
  <2>1. Peer(t) \in Sides /\ Peer(Peer(t)) = t
    BY TwoSides
  <2>2. /\ net'[Peer(t)] \in Seq(Seq(WrittenBytes(t)))
        /\ ToSet(net'[t]) \subseteq ToSet(net[t])
    <3>1. \A u \in Sides : net'[u] = IF u = s THEN q ELSE net[u]
      BY <1>0, <1>1 DEF SessionTypeOK
    <3>2. net[Peer(t)] \in Seq(Seq(WrittenBytes(t)))
      BY <2>1, OneSide
    <3>3. Peer(t) = s => q \in Seq(Seq(WrittenBytes(t)))
      BY <2>1
    <3>. QED
      BY <2>1, <3>1, <3>2, <3>3
  <2>3. \A d \in ToSet(net'[t]) : Len(d) \in 1 .. BUF_SIZE
    BY <2>2, OneSide
  <2>4. wbio'[t] \in Seq(WrittenBytes(t))
    BY <1>1, OneSide
  <2>. QED
    BY <1>2, <2>2, <2>3, <2>4 DEF Travels
<1>6. SessionTypeOK' /\ Genuine'
  <2>1. /\ pc' \in [Sides -> {"start", "wait", "data", "ended"}] /\ len' \in Lengths
        /\ flight' \in [Sides -> 0 .. 4] /\ copies' \in [Sides -> Nat]
        /\ wbio' \in [Sides -> Seq(AllBytes)] /\ sent' \in [Sides -> 0 .. MaxData]
        /\ delivered' \in [Sides -> [1 .. MaxData -> Nat]]
        /\ DOMAIN held' = Sides /\ held' = [t \in Sides |-> held'[t]]
        /\ DOMAIN known' = Sides /\ known' = [t \in Sides |-> known'[t]]
    BY <1>0, <1>1 DEF SessionTypeOK
  <2>2. hit' \subseteq Faults /\ nfaults' \in 0 .. MaxFaults
    <3>1. hit \subseteq Faults /\ nfaults \in 0 .. MaxFaults
      BY <1>0 DEF SessionTypeOK
    <3>. QED
      BY <1>1, <3>1, Sizes
  <2>3. \A t \in Sides : /\ held'[t] \in Seq(Written(Peer(t))')
                         /\ known'[t] \subseteq Written(Peer(t))'
                         /\ Shaking(t)' => held'[t] = <<>>
    BY <1>1, <1>2, TwoSides, OneSide DEF Shaking
  <2>. QED
    BY <1>4, <1>5, <2>1, <2>2, <2>3, Together
<1>7. TakeTurns' /\ Replay'
  BY <1>0, <1>1 DEF TakeTurns, Replay, Shaking
<1>. QED
  BY <1>6, <1>7 DEF Base

LEMMA DecryptBase ==
  ASSUME Base, NEW s \in Sides, Decrypt(s)
  PROVE  Base'
<1> DEFINE q == held[s] \o Records(Head(net[s]))
           i == FirstPacket(s, q)
           done == IF i = 0 THEN q ELSE SubSeq(q, 1, i)
           p == Peer(s)
           again == Repeated(s, done)
<1>0. SessionTypeOK /\ Genuine /\ TakeTurns /\ Replay
  BY DEF Base
<1>1. /\ pc[s] = "data" /\ net[s] # <<>> /\ net' = [net EXCEPT ![s] = Tail(@)]
      /\ known' = [known EXCEPT ![s] = @ \cup ToSet(done)]
      /\ held' = [held EXCEPT ![s] = SubSeq(q, Len(done) + 1, Len(q))]
      /\ IF again
         THEN /\ copies' = [copies EXCEPT ![s] = @ + 1]
              /\ wbio' = [wbio EXCEPT ![s] = @ \o Bytes(<<flight[s], copies[s] + 1>>)]
         ELSE copies' = copies /\ wbio' = wbio
      /\ \/ /\ i # 0
            /\ delivered' = [delivered EXCEPT ![s][q[i][2]] = @ + 1]
            /\ pc' = pc
         \/ /\ i = 0
            /\ pc' = [pc EXCEPT ![s] = "ended"]
            /\ delivered' = delivered
      /\ len' = len /\ flight' = flight /\ sent' = sent /\ hit' = hit /\ nfaults' = nfaults
  BY DEF Decrypt, faultVars
<1>2. /\ q \in Seq(Written(p)) /\ Tail(net[s]) \in Seq(Seq(WrittenBytes(p)))
      /\ ToSet(Tail(net[s])) \subseteq ToSet(net[s]) /\ len \in Lengths
      /\ p \in Sides /\ p # s /\ Peer(p) = s
  BY <1>1, Arrives, OneSide, ConcatProperties, TwoSides
<1> HIDE DEF q, i, again
<1>3. \/ i = 0
      \/ /\ i \in 1 .. Len(q) /\ q[i][1] = App /\ q[i] \notin known[s]
  BY <1>2, PacketCases DEF i
<1>4. Len(q) \in Nat /\ \A k \in 1 .. Len(q) : q[k] \in Written(p)
  BY <1>2, LenProperties
<1>5. /\ done \in Seq(Written(p)) /\ Len(done) \in Nat /\ ToSet(done) \subseteq Written(p)
      /\ i # 0 => q[i] \in ToSet(done)
  <2>1. CASE i = 0
    BY <1>2, <2>1, InSet
  <2>2. CASE i # 0
    <3>1. i \in 1 .. Len(q) /\ \A k \in 1 .. i : q[k] \in Written(p)
      BY <1>3, <1>4, <2>2
    <3>2. /\ SubSeq(q, 1, i) \in Seq(Written(p)) /\ Len(SubSeq(q, 1, i)) = i - 1 + 1
          /\ \A k \in 1 .. i - 1 + 1 : SubSeq(q, 1, i)[k] = q[1 + k - 1]
      BY <1>4, <3>1, SubSeqProperties
    <3>3. Len(SubSeq(q, 1, i)) = i /\ SubSeq(q, 1, i)[i] = q[i]
      BY <3>1, <3>2, <1>4
    <3>4. SubSeq(q, 1, i)[i] \in ToSet(SubSeq(q, 1, i)) /\ ToSet(SubSeq(q, 1, i)) \subseteq Written(p)
      <4> DEFINE u == SubSeq(q, 1, i)
      <4>1. u \in Seq(Written(p)) /\ Len(u) = i
        BY <3>2, <3>3
      <4> HIDE DEF u
      <4>2. ToSet(u) = {u[k] : k \in 1 .. i} /\ ToSet(u) \subseteq Written(p)
        BY <4>1, InSet
      <4>3. i \in 1 .. i
        BY <1>4, <3>1
      <4>4. u[i] \in ToSet(u)
        BY <4>2, <4>3
      <4>. QED
        BY <4>2, <4>4 DEF u
    <3>. QED
      BY <1>4, <2>2, <3>1, <3>2, <3>3, <3>4
  <2>. QED
    BY <2>1, <2>2
<1> HIDE DEF done
<1>6. SubSeq(q, Len(done) + 1, Len(q)) \in Seq(Written(p))
  <2>1. \A k \in Len(done) + 1 .. Len(q) : q[k] \in Written(p)
    BY <1>4, <1>5
  <2>. QED
    BY <1>4, <1>5, <2>1, SubSeqProperties
<1>7. copies' \in [Sides -> Nat] /\ \A t \in Sides : copies'[t] \in Nat /\ copies'[t] >= copies[t]
  <2>1. copies \in [Sides -> Nat]
    BY <1>0 DEF SessionTypeOK
  <2>2. CASE again
    <3>1. copies' = [copies EXCEPT ![s] = @ + 1]
      BY <1>1, <2>2
    <3>. QED
      BY <2>1, <3>1
  <2>3. CASE ~again
    <3>1. copies' = copies
      BY <1>1, <2>3
    <3>. QED
      BY <2>1, <3>1
  <2>. QED
    BY <2>2, <2>3
<1>8. \A t \in Sides :
        /\ Written(t) \subseteq Written(t)' /\ WrittenBytes(t) \subseteq WrittenBytes(t)'
        /\ held[t] \in Seq(Written(Peer(t))') /\ known[t] \subseteq Written(Peer(t))'
  <2>1. \A t \in Sides : /\ sent'[t] \in Nat /\ flight'[t] \in Nat
                         /\ sent'[t] >= sent[t] /\ flight'[t] >= flight[t]
    BY <1>1, OneSide
  <2>. QED
    BY <1>1, <1>7, <2>1, GrowsAll
<1>9. /\ wbio'[p] = wbio[p] /\ wbio'[s] \in Seq(WrittenBytes(s)')
      /\ DOMAIN wbio' = Sides /\ wbio' = [t \in Sides |-> wbio'[t]]
  <2>0. wbio \in [Sides -> Seq(AllBytes)]
    BY <1>0 DEF SessionTypeOK
  <2>1. wbio[s] \in Seq(WrittenBytes(s)')
    BY <1>8, OneSide, SeqMonotonic
  <2>2. CASE again
    <3>1. flight[s] > 0
      BY <1>0, <1>1 DEF TakeTurns, Shaking, Sides
    <3>2. Bytes(<<flight[s], copies[s] + 1>>) \in Seq(WrittenBytes(s)')
      BY <1>1, <2>2, <3>1, SentAgain
    <3>3. /\ wbio'[s] = wbio[s] \o Bytes(<<flight[s], copies[s] + 1>>)
          /\ wbio'[p] = wbio[p] /\ DOMAIN wbio' = Sides /\ wbio' = [t \in Sides |-> wbio'[t]]
      BY <1>1, <1>2, <2>0, <2>2
    <3>. QED
      BY <2>1, <3>2, <3>3, ConcatProperties
  <2>3. CASE ~again
    BY <1>1, <2>0, <2>1, <2>3
  <2>. QED
    BY <2>2, <2>3
<1>10. /\ net'[s] = Tail(net[s]) /\ net'[p] = net[p]
       /\ DOMAIN net' = Sides /\ net' = [t \in Sides |-> net'[t]]
  BY <1>0, <1>1, <1>2 DEF SessionTypeOK
<1>11. /\ wbio' \in [Sides -> Seq(AllBytes)] /\ net' \in [Sides -> Seq(Seq(AllBytes))]
       /\ \A t \in Sides : Travels(t)'
  <2>1. wbio'[p] \in Seq(WrittenBytes(p)')
    BY <1>2, <1>8, <1>9, OneSide, SeqMonotonic
  <2>2. net'[p] \in Seq(Seq(WrittenBytes(s)')) /\ net'[s] \in Seq(Seq(WrittenBytes(p)'))
    <3>1. \A S, T : S \subseteq T => Seq(S) \subseteq Seq(T)
      BY SeqMonotonic
    <3>2. net[p] \in Seq(Seq(WrittenBytes(s)))
      BY <1>2, OneSide
    <3>3. WrittenBytes(s) \subseteq WrittenBytes(s)' /\ WrittenBytes(p) \subseteq WrittenBytes(p)'
      BY <1>2, <1>8
    <3>. QED
      BY <1>2, <1>10, <3>1, <3>2, <3>3
  <2>3. \A t \in Sides : \A d \in ToSet(net'[t]) : Len(d) \in 1 .. BUF_SIZE
    <3>1. \A t \in Sides : ToSet(net'[t]) \subseteq ToSet(net[t])
      BY <1>2, <1>10, TwoSides
    <3>2. \A t \in Sides : \A d \in ToSet(net[t]) : Len(d) \in 1 .. BUF_SIZE
      BY OneSide
    <3>. QED
      BY <3>1, <3>2
  <2>4. \A t \in Sides : Travels(t)'
    BY <1>2, <1>9, <2>1, <2>2, <2>3, TwoSides DEF Travels
  <2>5. \A t \in Sides : wbio'[t] \in Seq(AllBytes) /\ net'[t] \in Seq(Seq(AllBytes))
    <3>1. \A S, T : S \subseteq T => Seq(S) \subseteq Seq(T)
      BY SeqMonotonic
    <3>2. WrittenBytes(s)' \subseteq AllBytes /\ WrittenBytes(p)' \subseteq AllBytes
      BY WrittenTypes
    <3>. QED
      BY <1>9, <2>1, <2>2, <3>1, <3>2, TwoSides
  <2>. QED
    BY <1>9, <1>10, <2>4, <2>5
<1>12. /\ held'[s] = SubSeq(q, Len(done) + 1, Len(q)) /\ known'[s] = known[s] \cup ToSet(done)
       /\ held'[p] = held[p] /\ known'[p] = known[p] /\ pc'[p] = pc[p]
       /\ pc'[s] \in {"data", "ended"}
  BY <1>0, <1>1, <1>2 DEF SessionTypeOK
<1>13. \A t \in Sides : /\ held'[t] \in Seq(Written(Peer(t))')
                        /\ known'[t] \subseteq Written(Peer(t))'
                        /\ Shaking(t)' => held'[t] = <<>>
  <2>1. /\ held'[s] \in Seq(Written(p)') /\ known'[s] \subseteq Written(p)' /\ ~Shaking(s)'
    <3>1. Written(p) \subseteq Written(p)'
      BY <1>2, <1>8
    <3>. QED
      BY <1>5, <1>6, <1>8, <1>12, <3>1, SeqMonotonic DEF Shaking
  <2>2. /\ held'[p] \in Seq(Written(s)') /\ known'[p] \subseteq Written(s)'
        /\ Shaking(p)' => held'[p] = <<>>
    BY <1>2, <1>8, <1>12, OneSide DEF Shaking
  <2>. QED
    BY <1>2, <2>1, <2>2, TwoSides
<1>14. \A n : n \in 1 .. MaxData => delivered[s][n] \in Nat
  BY <1>0 DEF SessionTypeOK
<1>15. i # 0 => /\ q[i] = <<App, q[i][2]>> /\ q[i][2] \in 1 .. MaxData
                /\ delivered[s][q[i][2]] = 0
  <2>1. SUFFICES ASSUME i # 0 PROVE q[i] = <<App, q[i][2]>> /\ q[i][2] \in 1 .. MaxData
                                    /\ delivered[s][q[i][2]] = 0
    OBVIOUS
  <2>2. q[i] \in Written(p) /\ q[i][1] = App /\ q[i] \notin known[s]
    BY <1>3, <1>4, <2>1
  <2>3. q[i] = <<App, q[i][2]>> /\ q[i][2] \in 1 .. sent[p]
    BY <2>2, WrittenCases
  <2>4. sent[p] \in 0 .. MaxData /\ sent[p] \in Nat
    BY <1>2, OneSide
  <2>5. q[i][2] \in 1 .. MaxData
    BY <2>3, <2>4, Sizes
  <2>. QED
    BY <1>0, <2>2, <2>3, <2>5 DEF Replay
<1>16. /\ delivered' \in [Sides -> [1 .. MaxData -> Nat]]
       /\ \A n \in 1 .. MaxData : /\ delivered'[p][n] = delivered[p][n]
                                  /\ delivered'[s][n] = IF i # 0 /\ n = q[i][2] THEN 1
                                                        ELSE delivered[s][n]
  <2>1. delivered \in [Sides -> [1 .. MaxData -> Nat]]
    BY <1>0 DEF SessionTypeOK
  <2>2. CASE i = 0
    BY <1>1, <2>1, <2>2
  <2>3. CASE i # 0
    <3>1. delivered' = [delivered EXCEPT ![s][q[i][2]] = 1]
      BY <1>1, <1>15, <2>3
    <3>2. q[i][2] \in 1 .. MaxData
      BY <1>15, <2>3
    <3>. QED
      BY <1>2, <2>1, <2>3, <3>1, <3>2
  <2>. QED
    BY <2>2, <2>3
<1>17. SessionTypeOK' /\ Genuine'
  <2>1. /\ pc' \in [Sides -> {"start", "wait", "data", "ended"}] /\ len' \in Lengths
        /\ flight' \in [Sides -> 0 .. 4] /\ sent' \in [Sides -> 0 .. MaxData]
        /\ hit' \subseteq Faults /\ nfaults' \in 0 .. MaxFaults
        /\ DOMAIN held' = Sides /\ held' = [t \in Sides |-> held'[t]]
        /\ DOMAIN known' = Sides /\ known' = [t \in Sides |-> known'[t]]
    BY <1>0, <1>1 DEF SessionTypeOK
  <2>. QED
    BY <1>7, <1>11, <1>13, <1>16, <2>1, Together
<1>18. TakeTurns'
  <2>1. \A t \in Sides : (Shaking(t)' <=> Shaking(t)) /\ (Shaking(t) => known'[t] = known[t])
    BY <1>1, <1>12, TwoSides DEF Shaking
  <2>2. \A t \in Sides : pc'[t] = "start" <=> pc[t] = "start"
    BY <1>1, <1>12, TwoSides
  <2>. QED
    BY <1>0, <1>1, <2>1, <2>2 DEF TakeTurns, Sides
<1>19. Replay'
  <2>1. ASSUME NEW n \in 1 .. MaxData
        PROVE  delivered'[s][n] = 0 \/ (delivered'[s][n] = 1 /\ <<App, n>> \in known'[s])
    <3>1. CASE i # 0 /\ n = q[i][2]
      BY <1>5, <1>12, <1>15, <1>16, <3>1
    <3>2. CASE ~(i # 0 /\ n = q[i][2])
      BY <1>0, <1>12, <1>16, <3>2 DEF Replay
    <3>. QED
      BY <3>1, <3>2
  <2>2. \A n \in 1 .. MaxData :
          delivered'[p][n] = 0 \/ (delivered'[p][n] = 1 /\ <<App, n>> \in known'[p])
    BY <1>0, <1>2, <1>12, <1>16 DEF Replay
  <2>. QED
    BY <2>1, <2>2, TwoSides DEF Replay
<1>. QED
  BY <1>17, <1>18, <1>19 DEF Base

(* What a fault leaves of what was on its way to s.                        *)
LEMMA FaultCases ==
  ASSUME Base, NEW s \in Sides, Lose(s) \/ Duplicate(s) \/ Overtake(s)
  PROVE  \E f \in FaultKinds, q \in Seq(Seq(WrittenBytes(Peer(s)))) :
           /\ Fault(f, s, q) /\ ToSet(q) \subseteq ToSet(net[s])
           /\ f # "lose" => ToSet(q) = ToSet(net[s])
           /\ f # "duplicate" => /\ Len(q) <= Len(net[s])
                                 /\ Distinct(net[s]) => Distinct(q)
<1> DEFINE n == net[s]
           S == Seq(WrittenBytes(Peer(s)))
<1>1. n \in Seq(S) /\ DOMAIN n = 1 .. Len(n) /\ Len(n) \in Nat
      /\ \A i \in DOMAIN n : n[i] \in S /\ n[i] \in ToSet(n)
  BY OneSide, LenProperties DEF ToSet
<1>2. CASE Lose(s)
  <2>1. PICK i \in DOMAIN n : Fault("lose", s, RemoveAt(n, i))
    BY <1>2 DEF Lose
  <2> HIDE DEF n, S
  <2>2. /\ RemoveAt(n, i) \in Seq(S) /\ Len(RemoveAt(n, i)) = Len(n) - 1
        /\ ToSet(RemoveAt(n, i)) \subseteq ToSet(n)
        /\ Distinct(n) => Distinct(RemoveAt(n, i))
    BY <1>1, RemovedSet
  <2>3. Len(RemoveAt(n, i)) <= Len(n)
    BY <1>1, <2>2
  <2>. QED
    BY <2>1, <2>2, <2>3 DEF n, S, FaultKinds
<1>3. CASE Duplicate(s)
  <2>1. PICK i \in DOMAIN n : Fault("duplicate", s, Append(n, n[i]))
    BY <1>3 DEF Duplicate
  <2> HIDE DEF n, S
  <2>2. Append(n, n[i]) \in Seq(S) /\ ToSet(Append(n, n[i])) = ToSet(n) \cup {n[i]}
    BY <1>1, AppendSet
  <2>3. ToSet(Append(n, n[i])) = ToSet(n)
    BY <1>1, <2>2
  <2>. QED
    BY <2>1, <2>2, <2>3 DEF n, S, FaultKinds
<1>4. CASE Overtake(s)
  <2>1. PICK i \in 2 .. Len(n) : Fault("overtake", s, <<n[i]>> \o RemoveAt(n, i))
    BY <1>4 DEF Overtake
  <2> HIDE DEF n, S
  <2> DEFINE u == RemoveAt(n, i)
  <2>2. i \in DOMAIN n
    BY <1>1
  <2>3. /\ u \in Seq(S) /\ Len(u) = Len(n) - 1
        /\ ToSet(u) \subseteq ToSet(n) /\ ToSet(n) \subseteq ToSet(u) \cup {n[i]}
        /\ Distinct(n) => Distinct(u) /\ n[i] \notin ToSet(u)
    BY <1>1, <2>2, RemovedSet
  <2> HIDE DEF u
  <2>4. /\ <<n[i]>> \o u \in Seq(S) /\ Len(<<n[i]>> \o u) = Len(u) + 1
        /\ ToSet(<<n[i]>> \o u) = ToSet(u) \cup {n[i]}
        /\ Distinct(u) /\ n[i] \notin ToSet(u) => Distinct(<<n[i]>> \o u)
    BY <1>1, <2>2, <2>3, FrontSet
  <2>5. ToSet(<<n[i]>> \o u) = ToSet(n) /\ (Distinct(n) => Distinct(<<n[i]>> \o u))
    BY <1>1, <2>2, <2>3, <2>4
  <2>6. Len(<<n[i]>> \o u) <= Len(n)
    BY <1>1, <2>3, <2>4
  <2>7. Fault("overtake", s, <<n[i]>> \o u)
    BY <2>1 DEF u
  <2>. QED
    BY <2>4, <2>5, <2>6, <2>7 DEF n, S, FaultKinds
<1>. QED
  BY <1>2, <1>3, <1>4

LEMMA BaseInit ==
  Init => Base
<1> SUFFICES ASSUME Init PROVE Base
  OBVIOUS
<1>1. \A S : <<>> \in Seq(S) /\ DOMAIN <<>> = {}
  OBVIOUS
<1>2. SessionTypeOK
  BY <1>1, Sizes DEF Init, SessionTypeOK, Sides
<1>3. Genuine
  BY <1>1, TwoSides DEF Init, Genuine
<1>4. TakeTurns /\ Replay
  BY DEF Init, TakeTurns, Replay, Shaking, Sides
<1>. QED
  BY <1>2, <1>3, <1>4 DEF Base

(* What can happen.                                                        *)
Shaken(s) ==
  /\ pc[s] = "wait" /\ net[s] # <<>>
  /\ UNCHANGED <<len, packetVars, faultVars>>

LEMMA NextCases ==
  ASSUME Next
  PROVE  \E s \in Sides :
           \/ Start(s)
           \/ Shaken(s) /\ Advance(s, Records(Head(net[s])))
           \/ Shaken(s) /\ NoAdvance(s, Records(Head(net[s])))
           \/ Encrypt(s) \/ Decrypt(s)
           \/ Lose(s) \/ Duplicate(s) \/ Overtake(s)
BY DEF Next, Receive, ShakeRecv, Shaken

LEMMA BaseNext ==
  Base /\ [Next]_vars => Base'
<1> SUFFICES ASSUME Base, [Next]_vars PROVE Base'
  OBVIOUS
<1>1. CASE Next
  <2>1. PICK s \in Sides :
           \/ Start(s)
           \/ Shaken(s) /\ Advance(s, Records(Head(net[s])))
           \/ Shaken(s) /\ NoAdvance(s, Records(Head(net[s])))
           \/ Encrypt(s) \/ Decrypt(s)
           \/ Lose(s) \/ Duplicate(s) \/ Overtake(s)
    BY <1>1, NextCases
  <2>2. CASE Start(s)
    BY <2>2, StartBase
  <2>3. CASE Shaken(s) /\ Advance(s, Records(Head(net[s])))
    BY <2>3, AdvanceBase DEF Shaken
  <2>4. CASE Shaken(s) /\ NoAdvance(s, Records(Head(net[s])))
    BY <2>4, NoAdvanceBase DEF Shaken
  <2>5. CASE Encrypt(s)
    BY <2>5, EncryptBase
  <2>6. CASE Decrypt(s)
    BY <2>6, DecryptBase
  <2>7. CASE Lose(s) \/ Duplicate(s) \/ Overtake(s)
    BY <2>7, FaultCases, FaultBase
  <2>. QED
    BY <2>1, <2>2, <2>3, <2>4, <2>5, <2>6, <2>7
<1>2. CASE UNCHANGED vars
  <2>1. /\ len' = len /\ pc' = pc /\ flight' = flight /\ copies' = copies /\ wbio' = wbio
        /\ held' = held /\ known' = known /\ net' = net /\ sent' = sent
        /\ delivered' = delivered /\ hit' = hit /\ nfaults' = nfaults
    BY <1>2 DEF vars, sslVars, packetVars, faultVars
  <2>2. SessionTypeOK' /\ TakeTurns' /\ Replay'
    BY <2>1 DEF Base, SessionTypeOK, TakeTurns, Replay, Shaking
  <2>3. \A s : Written(s)' = Written(s) /\ WrittenBytes(s)' = WrittenBytes(s)
    BY <2>1 DEF WrittenBytes, Written
  <2>4. Genuine'
    BY <2>1, <2>3 DEF Base, Genuine
  <2>. QED
    BY <2>2, <2>4 DEF Base
<1>. QED
  BY <1>1, <1>2

-----------------------------------------------------------------------------
(***************************************************************************)
(* Packets                                                                 *)
(***************************************************************************)

(* What is decrypted was encrypted and is decrypted for the first time.    *)
LEMMA DecryptDelivers ==
  ASSUME Base, NEW s \in Sides, Decrypt(s)
  PROVE  /\ sent' = sent
         /\ \/ delivered' = delivered
            \/ \E n \in 1 .. sent[Peer(s)] :
                 /\ n \in 1 .. MaxData /\ delivered[s][n] = 0
                 /\ delivered' = [delivered EXCEPT ![s][n] = 1]
<1> DEFINE q == held[s] \o Records(Head(net[s]))
           i == FirstPacket(s, q)
           p == Peer(s)
<1>1. /\ net[s] # <<>> /\ sent' = sent
      /\ \/ i # 0 /\ delivered' = [delivered EXCEPT ![s][q[i][2]] = @ + 1]
         \/ delivered' = delivered
  BY DEF Decrypt
<1>2. q \in Seq(Written(p)) /\ p \in Sides
  BY <1>1, Arrives, OneSide, ConcatProperties, TwoSides
<1> HIDE DEF q, i
<1>3. CASE i # 0 /\ delivered' = [delivered EXCEPT ![s][q[i][2]] = @ + 1]
  <2> DEFINE n == q[i][2]
  <2>1. i \in 1 .. Len(q) /\ q[i][1] = App /\ q[i] \notin known[s]
    BY <1>2, <1>3, PacketCases DEF i
  <2>2. q[i] \in Written(p)
    BY <1>2, <2>1, ElementOfSeq
  <2>3. q[i] = <<App, n>> /\ n \in 1 .. sent[p]
    BY <2>1, <2>2, WrittenCases
  <2>4. sent[p] \in 0 .. MaxData /\ sent[p] \in Nat
    BY <1>2, OneSide
  <2>5. n \in 1 .. MaxData
    BY <2>3, <2>4, Sizes
  <2>6. delivered[s][n] = 0
    BY <2>1, <2>3, <2>5 DEF Base, Replay
  <2>7. delivered' = [delivered EXCEPT ![s][n] = 1]
    BY <1>3, <2>6
  <2>. QED
    BY <1>1, <2>3, <2>5, <2>6, <2>7
<1>. QED
  BY <1>1, <1>3

LEMMA RelayInit ==
  Base /\ Init => Tunnel!Init
<1> SUFFICES ASSUME Base, Init PROVE Tunnel!Init
  OBVIOUS
<1>1. \A p \in Sides \X (1 .. MaxData) : /\ ~(p[2] <= sent[p[1]])
                                         /\ delivered[Peer(p[1])][p[2]] = 0
  BY TwoSides, Sizes DEF Init
<1>. QED
  BY <1>1 DEF Tunnel!Init

LEMMA RelayNext ==
  Base /\ [Next]_vars => [Tunnel!Next]_(Tunnel!vars)
<1> DEFINE P == Sides \X (1 .. MaxData)
           in == {p \in P : p[2] <= sent[p[1]]}
           out == [p \in P |-> delivered[Peer(p[1])][p[2]]]
<1> SUFFICES ASSUME Base, [Next]_vars PROVE [Tunnel!Next]_(Tunnel!vars)
  OBVIOUS
<1>1. ASSUME NEW p \in P, p \notin in, in' = in \cup {p}, out' = out
      PROVE  Tunnel!Next
  BY <1>1 DEF Tunnel!Next, Tunnel!Take
<1>2. ASSUME NEW p \in P, p \in in, out[p] = 0, out' = [out EXCEPT ![p] = 1], in' = in
      PROVE  Tunnel!Next
  BY <1>2 DEF Tunnel!Next, Tunnel!Deliver
<1>3. ASSUME sent' = sent, delivered' = delivered
      PROVE  UNCHANGED Tunnel!vars
  BY <1>3 DEF Tunnel!vars
<1>4. ASSUME NEW s \in Sides, Encrypt(s) PROVE Tunnel!Next
  <2>1. /\ sent[s] < MaxData /\ sent' = [sent EXCEPT ![s] = @ + 1] /\ delivered' = delivered
    BY <1>4 DEF Encrypt
  <2>2. sent \in [Sides -> 0 .. MaxData] /\ \A t \in Sides : sent[t] \in Nat
    BY OneSide DEF Base, SessionTypeOK
  <2> DEFINE p == <<s, sent[s] + 1>>
  <2>3. p \in P
    BY <2>1, <2>2, Sizes
  <2>4. p \notin in
    BY <2>2
  <2>5. in' = in \cup {p}
    <3>1. \A t \in Sides, n \in 1 .. MaxData :
            n <= sent'[t] <=> n <= sent[t] \/ (t = s /\ n = sent[s] + 1)
      BY <2>1, <2>2
    <3>. QED
      BY <2>3, <3>1
  <2>6. out' = out
    BY <2>1
  <2> HIDE DEF p, in, out
  <2>. QED
    BY <1>1, <2>3, <2>4, <2>5, <2>6
<1>5. ASSUME NEW s \in Sides, Decrypt(s) PROVE Tunnel!Next \/ UNCHANGED Tunnel!vars
  <2>1. /\ sent' = sent
        /\ \/ delivered' = delivered
           \/ \E n \in 1 .. sent[Peer(s)] :
                /\ n \in 1 .. MaxData /\ delivered[s][n] = 0
                /\ delivered' = [delivered EXCEPT ![s][n] = 1]
    BY <1>5, DecryptDelivers
  <2>2. CASE delivered' = delivered
    BY <1>3, <2>1, <2>2
  <2>3. ASSUME NEW n \in 1 .. sent[Peer(s)], n \in 1 .. MaxData, delivered[s][n] = 0,
               delivered' = [delivered EXCEPT ![s][n] = 1]
        PROVE  Tunnel!Next
    <3> DEFINE p == <<Peer(s), n>>
    <3>0. /\ Peer(s) \in Sides /\ Peer(Peer(s)) = s /\ sent[Peer(s)] \in Nat
          /\ delivered \in [Sides -> [1 .. MaxData -> Nat]]
      BY TwoSides, OneSide DEF Base, SessionTypeOK
    <3>1. p \in P /\ p \in in
      BY <2>3, <3>0
    <3>2. out[p] = 0
      BY <2>3, <3>0
    <3>3. out' = [out EXCEPT ![p] = 1]
      <4>1. \A e \in P : Peer(e[1]) \in Sides /\ (Peer(e[1]) = s <=> e[1] = Peer(s))
        BY TwoSides
      <4>2. \A t \in Sides, m \in 1 .. MaxData :
              delivered'[t][m] = IF t = s /\ m = n THEN 1 ELSE delivered[t][m]
        BY <2>3, <3>0
      <4>3. \A e \in P : e = p <=> e[1] = Peer(s) /\ e[2] = n
        OBVIOUS
      <4>4. \A e \in P : delivered'[Peer(e[1])][e[2]] = IF e = p THEN 1 ELSE out[e]
        BY <4>1, <4>2, <4>3
      <4>5. out' = [e \in P |-> delivered'[Peer(e[1])][e[2]]]
        OBVIOUS
      <4> HIDE DEF out, p
      <4>6. DOMAIN out = P
        BY DEF out
      <4>7. out = [e \in P |-> out[e]]
        BY DEF out
      <4>. QED
        BY <4>4, <4>5, <4>6, <4>7
    <3>4. in' = in
      BY <2>1
    <3> HIDE DEF p, in, out
    <3>. QED
      BY <1>2, <3>1, <3>2, <3>3, <3>4
  <2>. QED
    BY <2>1, <2>2, <2>3
<1>6. CASE Next
  <2>1. PICK s \in Sides :
           \/ Start(s)
           \/ Shaken(s) /\ Advance(s, Records(Head(net[s])))
           \/ Shaken(s) /\ NoAdvance(s, Records(Head(net[s])))
           \/ Encrypt(s) \/ Decrypt(s)
           \/ Lose(s) \/ Duplicate(s) \/ Overtake(s)
    BY <1>6, NextCases
  <2>2. CASE ~(Encrypt(s) \/ Decrypt(s))
    <3>1. sent' = sent /\ delivered' = delivered
      BY <2>1, <2>2 DEF Start, Shaken, Lose, Duplicate, Overtake, Fault, packetVars
    <3>. QED
      BY <1>3, <3>1
  <2>. QED
    BY <1>4, <1>5, <2>1, <2>2
<1>7. CASE UNCHANGED vars
  BY <1>3, <1>7 DEF vars, packetVars
<1>. QED
  BY <1>6, <1>7

(* Every variable keeps its type; no datagram is empty or longer than a    *)
(* buffer, and during its handshake a side keeps no record back.           *)
THEOREM SessionTypeCorrect == Spec => []SessionTypeOK
<1>1. Base => SessionTypeOK
  BY DEF Base
<1>. QED
  BY <1>1, BaseInit, BaseNext, PTL DEF Spec

(* Both directions of a connection implement the abstract relay, whatever  *)
(* the network does and whether or not flights fit: no packet is decrypted *)
(* twice, and none that was not encrypted.                                 *)
THEOREM SessionImplementsRelay == Spec => SessionRelay
<1>1. Base /\ Init => Tunnel!Init
  BY RelayInit
<1>2. Base /\ [Next]_vars => [Tunnel!Next]_(Tunnel!vars)
  BY RelayNext
<1>. QED
  BY <1>1, <1>2, BaseInit, BaseNext, PTL DEF Spec, SessionRelay, Tunnel!Spec

-----------------------------------------------------------------------------
(***************************************************************************)
(* As long as flights fit, a datagram is a record                          *)
(***************************************************************************)

(* What the invariant says of side s if flights fit.                       *)
Orderly(s) ==
  /\ held[s] = <<>> /\ (pc[s] # "ended" => wbio[s] = <<>>)
  /\ \A d \in ToSet(net[s]) : d = Bytes(First(d))
  /\ "lose" \notin hit /\ Shaking(s) /\ flight[Peer(s)] = flight[s] + 1 =>
       Bytes(<<flight[s] + 1, 0>>) \in ToSet(net[s])
  /\ Quiet => /\ pc[s] # "ended" /\ Distinct(net[s])
              /\ \A d \in ToSet(net[s]) :
                   /\ First(d) \notin known[s]
                   /\ First(d)[1] # App => Shaking(s) /\ First(d)[1] = flight[s] + 1

Ordered == Emptied /\ Whole /\ OnItsWay /\ New

LEMMA OrderedSides ==
  /\ Ordered <=> (Fits => \A s \in Sides : Orderly(s))
  /\ Ordered' <=> (Fits' => \A s \in Sides : Orderly(s)')
<1>1. Ordered <=> (Fits => \A s \in Sides : Orderly(s))
  BY DEF Ordered, Orderly, Emptied, Whole, OnItsWay, New, Distinct
<1>2. Ordered' <=> (Fits' => \A s \in Sides : Orderly(s)')
  BY DEF Ordered, Orderly, Emptied, Whole, OnItsWay, New, Distinct
<1>. QED
  BY <1>1, <1>2

LEMMA FitsAll ==
  ASSUME Fits, len \in Lengths
  PROVE  \A r \in AllRecords : len[r[1]] <= Room /\ len[r[1]] <= BUF_SIZE
<1>1. \A f \in Kinds : len[f] \in Nat /\ len[f] <= Room
  BY LenType DEF Fits, Kinds
<1>2. \A r \in AllRecords : r[1] \in Kinds
  BY DEF AllRecords
<1>. QED
  BY <1>1, <1>2, Sizes

(* A datagram of what was not written yet is not on its way.               *)
LEMMA Unsent ==
  ASSUME Base, NEW s \in Sides, NEW r \in AllRecords, r \notin Written(s)
  PROVE  Bytes(r) \notin ToSet(net[Peer(s)]) /\ r \notin known[Peer(s)]
<1> DEFINE p == Peer(s)
<1>1. p \in Sides /\ Peer(p) = s
  BY TwoSides
<1>2. net[p] \in Seq(Seq(WrittenBytes(s))) /\ known[p] \subseteq Written(s) /\ len \in Lengths
  BY <1>1, OneSide DEF Base, SessionTypeOK
<1>3. ToSet(net[p]) \subseteq Seq(WrittenBytes(s))
  BY <1>2, InSet
<1>4. /\ Len(Bytes(r)) = len[r[1]] /\ Bytes(r)[1] = <<r[1], r[2], 1>> /\ r = <<r[1], r[2]>>
      /\ 1 \in 1 .. len[r[1]]
  <2>1. len[r[1]] \in Nat /\ len[r[1]] >= 1
    BY <1>2, LenType DEF AllRecords
  <2>. QED
    BY <1>2, <2>1, BytesOf
<1>5. ASSUME Bytes(r) \in ToSet(net[p]) PROVE FALSE
  <2>1. Bytes(r) \in Seq(WrittenBytes(s))
    BY <1>3, <1>5
  <2>2. Bytes(r)[1] \in WrittenBytes(s)
    BY <1>4, <2>1, ElementOfSeq
  <2>. QED
    BY <1>4, <2>2 DEF WrittenBytes
<1>. QED
  BY <1>2, <1>5

(* What a side finds when it receives.                                     *)
LEMMA ArrivesWhole ==
  ASSUME Base, Fits, NEW s \in Sides, Orderly(s), net[s] # <<>>
  PROVE  \E r \in Written(Peer(s)) :
           /\ r \in AllRecords /\ Head(net[s]) = Bytes(r) /\ Records(Head(net[s])) = <<r>>
           /\ \A d \in ToSet(Tail(net[s])) :
                d = Bytes(First(d)) /\ (Distinct(net[s]) => First(d) # r)
           /\ \A d \in ToSet(net[s]) : d \in ToSet(Tail(net[s])) \/ d = Bytes(r)
           /\ Distinct(net[s]) => Distinct(Tail(net[s]))
           /\ Head(net[s]) \in ToSet(net[s]) /\ First(Head(net[s])) = r
           /\ ToSet(Tail(net[s])) \subseteq ToSet(net[s])
<1> DEFINE h == Head(net[s])
           r == First(h)
           p == Peer(s)
<1>1. h \in Seq(WrittenBytes(p)) /\ h # <<>> /\ h \in ToSet(net[s]) /\ len \in Lengths
  BY Arrives
<1>2. h = Bytes(r)
  BY <1>1 DEF Orderly
<1>3. 1 \in 1 .. Len(h)
  BY <1>1, EmptySeq, LenProperties
<1>4. h[1] \in WrittenBytes(p)
  BY <1>1, <1>3, ElementOfSeq
<1>5. r \in Written(p)
  BY <1>4 DEF WrittenBytes, First
<1>6. r \in AllRecords
  BY <1>5, WrittenTypes
<1>7. Records(h) = <<r>>
  BY <1>1, <1>2, <1>6, FitsAll, RecordsWhole
<1>8. net[s] \in Seq(Seq(WrittenBytes(p)))
  BY OneSide
<1>9. /\ ToSet(Tail(net[s])) \subseteq ToSet(net[s])
      /\ ToSet(net[s]) \subseteq ToSet(Tail(net[s])) \cup {h}
      /\ Distinct(net[s]) => Distinct(Tail(net[s])) /\ h \notin ToSet(Tail(net[s]))
  BY <1>8, TailSet
<1>10. \A d \in ToSet(Tail(net[s])) : d = Bytes(First(d))
  BY <1>9 DEF Orderly
<1> HIDE DEF h, r
<1>11. \A d \in ToSet(Tail(net[s])) : Distinct(net[s]) => First(d) # r
  BY <1>2, <1>9, <1>10
<1>. QED
  BY <1>1, <1>2, <1>5, <1>6, <1>7, <1>9, <1>10, <1>11 DEF h, r

(* One BIO_read of what SSL has written: something, a record, or nothing.  *)
LEMMA FlushStream ==
  ASSUME Base, NEW s \in Sides, NEW rest, NEW stream, stream # <<>>, Flush(s, rest, stream)
  PROVE  /\ wbio'[s] = SubSeq(stream, ReadSize + 1, Len(stream))
         /\ wbio'[Peer(s)] = wbio[Peer(s)] /\ net'[s] = rest
         /\ net'[Peer(s)] =
              Append(net[Peer(s)], SubSeq(stream, 1, Min({ReadSize, Len(stream)})))
<1>1. wbio \in [Sides -> Seq(AllBytes)] /\ net \in [Sides -> Seq(Seq(AllBytes))]
  BY DEF Base, SessionTypeOK
<1>2. /\ wbio'[s] = SubSeq(stream, ReadSize + 1, Len(stream))
      /\ wbio'[Peer(s)] = wbio[Peer(s)] /\ net'[s] = rest
      /\ net'[Peer(s)] =
           IF stream = <<>> THEN net[Peer(s)]
           ELSE Append(net[Peer(s)], SubSeq(stream, 1, Min({ReadSize, Len(stream)})))
  BY <1>1, Flushed
<1>. QED
  BY <1>2

LEMMA FlushRecord ==
  ASSUME Base, NEW s \in Sides, NEW rest, NEW r \in AllRecords, len[r[1]] <= Room,
         Flush(s, rest, Bytes(r))
  PROVE  /\ wbio'[s] = <<>> /\ wbio'[Peer(s)] = wbio[Peer(s)] /\ net'[s] = rest
         /\ net'[Peer(s)] = Append(net[Peer(s)], Bytes(r))
<1>1. len \in Lengths /\ wbio \in [Sides -> Seq(AllBytes)] /\ net \in [Sides -> Seq(Seq(AllBytes))]
  BY DEF Base, SessionTypeOK
<1> DEFINE b == Bytes(r)
<1>2. b \in Seq(AllBytes) /\ b # <<>> /\ Len(b) <= BUF_SIZE /\ Flush(s, rest, b)
  <2>1. len[r[1]] \in Nat
    BY <1>1, LenType DEF AllRecords
  <2>. QED
    BY <1>1, <2>1, BytesOf, Sizes
<1> HIDE DEF b
<1>3. SubSeq(b, 1, Min({ReadSize, Len(b)})) = b /\ SubSeq(b, ReadSize + 1, Len(b)) = <<>>
  BY <1>2, Cut
<1>4. /\ wbio'[s] = SubSeq(b, ReadSize + 1, Len(b))
      /\ wbio'[Peer(s)] = wbio[Peer(s)] /\ net'[s] = rest
      /\ net'[Peer(s)] = Append(net[Peer(s)], SubSeq(b, 1, Min({ReadSize, Len(b)})))
  BY <1>2, FlushStream
<1>5. net'[Peer(s)] = Append(net[Peer(s)], b)
  BY <1>2, <1>3, <1>4
<1>. QED
  BY <1>3, <1>4, <1>5 DEF b

LEMMA FlushNothing ==
  ASSUME Base, NEW s \in Sides, NEW rest, Flush(s, rest, <<>>)
  PROVE  /\ wbio'[s] = <<>> /\ wbio'[Peer(s)] = wbio[Peer(s)] /\ net'[s] = rest
         /\ net'[Peer(s)] = net[Peer(s)]
<1>1. wbio \in [Sides -> Seq(AllBytes)] /\ net \in [Sides -> Seq(Seq(AllBytes))]
  BY DEF Base, SessionTypeOK
<1> DEFINE b == <<>>
<1>2. b \in Seq(AllBytes) /\ Len(b) = 0
  OBVIOUS
<1>3. SubSeq(b, ReadSize + 1, Len(b)) = <<>>
  <2>1. Len(b) <= BUF_SIZE
    BY <1>2, Sizes
  <2> HIDE DEF b
  <2>. QED
    BY <1>2, <2>1, Cut
<1>. QED
  BY <1>1, <1>3, Flushed

(* The side that does not act.                                             *)
LEMMA OtherSide ==
  ASSUME Base, NEW s \in Sides, Orderly(Peer(s)), len' = len, hit' = hit, Quiet' => Quiet,
         held'[Peer(s)] = held[Peer(s)], wbio'[Peer(s)] = wbio[Peer(s)],
         pc'[Peer(s)] = pc[Peer(s)], flight'[Peer(s)] = flight[Peer(s)],
         known'[Peer(s)] = known[Peer(s)],
         \/ net'[Peer(s)] = net[Peer(s)] /\ flight'[s] = flight[s]
         \/ \E r \in AllRecords :
              /\ net'[Peer(s)] = Append(net[Peer(s)], Bytes(r))
              /\ flight'[s] = flight[s] \/ r = <<flight[Peer(s)] + 1, 0>>
              /\ Quiet' => /\ r \notin Written(s)
                           /\ r[1] # App => Shaking(Peer(s)) /\ r[1] = flight[Peer(s)] + 1
  PROVE  Orderly(Peer(s))'
<1> DEFINE p == Peer(s)
<1>1. p \in Sides /\ Peer(p) = s /\ len \in Lengths
  BY TwoSides DEF Base, SessionTypeOK
<1>2. /\ Shaking(p)' = Shaking(p) /\ \A r : Bytes(r)' = Bytes(r)
      /\ \A d : First(d)' = First(d)
  BY DEF Shaking, Bytes, First
<1>3. CASE net'[p] = net[p] /\ flight'[s] = flight[s]
  BY <1>1, <1>2, <1>3 DEF Orderly, Distinct
<1>4. ASSUME NEW r \in AllRecords, net'[p] = Append(net[p], Bytes(r)),
             flight'[s] = flight[s] \/ r = <<flight[p] + 1, 0>>,
             Quiet' => r \notin Written(s) /\ (r[1] # App => Shaking(p) /\ r[1] = flight[p] + 1)
      PROVE  Orderly(p)'
  <2>1. First(Bytes(r)) = r /\ Bytes(r) \in Seq(AllBytes)
    BY <1>1, BytesOf
  <2>2. net[p] \in Seq(Seq(AllBytes))
    BY <1>1 DEF Base, SessionTypeOK
  <2>3. /\ ToSet(net'[p]) = ToSet(net[p]) \cup {Bytes(r)}
        /\ Distinct(net[p]) /\ Bytes(r) \notin ToSet(net[p]) => Distinct(net'[p])
    BY <1>4, <2>1, <2>2, AppendSet
  <2>4. r \notin Written(s) => Bytes(r) \notin ToSet(net[p]) /\ r \notin known[p]
    BY Unsent
  <2>5. held'[p] = <<>> /\ (pc'[p] # "ended" => wbio'[p] = <<>>)
    BY DEF Orderly
  <2>6. \A d \in ToSet(net'[p]) : d = Bytes(First(d))
    BY <2>1, <2>3 DEF Orderly
  <2>7. "lose" \notin hit' /\ Shaking(p)' /\ flight'[s] = flight'[p] + 1 =>
          Bytes(<<flight'[p] + 1, 0>>) \in ToSet(net'[p])
    BY <1>1, <1>2, <1>4, <2>3 DEF Orderly
  <2>8. ASSUME Quiet'
        PROVE  /\ pc'[p] # "ended" /\ Distinct(net'[p])
               /\ \A d \in ToSet(net'[p]) :
                    /\ First(d) \notin known'[p]
                    /\ First(d)[1] # App => Shaking(p)' /\ First(d)[1] = flight'[p] + 1
    <3>1. /\ pc[p] # "ended" /\ Distinct(net[p])
          /\ \A d \in ToSet(net[p]) :
               /\ First(d) \notin known[p]
               /\ First(d)[1] # App => Shaking(p) /\ First(d)[1] = flight[p] + 1
      BY <2>8 DEF Orderly
    <3>. QED
      BY <1>2, <1>4, <2>1, <2>3, <2>4, <2>8, <3>1
  <2>. QED
    BY <1>1, <1>2, <2>5, <2>6, <2>7, <2>8 DEF Orderly, Distinct
<1>. QED
  BY <1>3, <1>4

LEMMA BothSides ==
  ASSUME NEW s \in Sides, Orderly(s)', Orderly(Peer(s))'
  PROVE  Ordered'
<1>1. \A t \in Sides : t = s \/ t = Peer(s)
  BY TwoSides
<1>2. \A t \in Sides : Orderly(t)'
  BY <1>1
<1>. QED
  BY <1>2, OrderedSides

(* Being quiet is for as long as nothing happened.                         *)
LEMMA QuietOnly ==
  ASSUME Base, hit \subseteq hit', \A t \in Sides : copies'[t] \in Nat /\ copies'[t] >= copies[t]
  PROVE  Quiet' => Quiet /\ \A t \in Sides : copies'[t] = 0 /\ copies[t] = 0
<1>1. \A t \in Sides : copies[t] \in Nat
  BY OneSide
<1>. QED
  BY <1>1 DEF Quiet, Resent

LEMMA StartOrdered ==
  ASSUME Base, Ordered, NEW s \in Sides, Start(s)
  PROVE  Ordered'
<1> DEFINE p == Peer(s)
<1>0. SessionTypeOK /\ TakeTurns /\ p \in Sides /\ p # s /\ Peer(p) = s /\ len \in Lengths
  BY TwoSides DEF Base, SessionTypeOK
<1>1. /\ pc[s] = "start" /\ pc' = [pc EXCEPT ![s] = "wait"] /\ len' = len /\ copies' = copies
      /\ held' = held /\ known' = known /\ hit' = hit
  BY DEF Start, packetVars, faultVars
<1>2. SUFFICES ASSUME Fits PROVE Orderly(s)' /\ Orderly(p)'
  BY <1>1, OrderedSides, BothSides DEF Fits
<1>3. Orderly(s) /\ Orderly(p)
  BY <1>0, <1>2, OrderedSides
<1>4. /\ Quiet' <=> Quiet
      /\ pc'[s] = "wait" /\ pc'[p] = pc[p] /\ Shaking(s) /\ Shaking(s)'
      /\ \A r : Bytes(r)' = Bytes(r)
  BY <1>0, <1>1 DEF Quiet, Resent, SessionTypeOK, Shaking, Bytes
<1>5. CASE s = "server" /\ flight' = flight /\ wbio' = wbio /\ net' = net
  <2>1. Orderly(s)'
    BY <1>1, <1>3, <1>4, <1>5 DEF Orderly, Distinct
  <2>2. Orderly(p)'
    BY <1>1, <1>3, <1>4, <1>5, OtherSide
  <2>. QED
    BY <2>1, <2>2
<1>6. CASE /\ s = "client" /\ flight' = [flight EXCEPT ![s] = 1]
           /\ Flush(s, net[s], Bytes(<<1, 0>>))
  <2> DEFINE r == <<1, 0>>
  <2>1. r \in AllRecords /\ r[1] = 1
    BY DEF AllRecords, Kinds, Flights
  <2>2. /\ wbio'[s] = <<>> /\ wbio'[p] = wbio[p] /\ net'[s] = net[s]
        /\ net'[p] = Append(net[p], Bytes(r))
    BY <1>0, <1>2, <1>6, <2>1, FitsAll, FlushRecord
  <2>3. /\ flight[s] = 0 /\ flight[p] = 0 /\ flight'[s] = 1 /\ flight'[p] = 0 /\ Shaking(p)
    BY <1>0, <1>1, <1>6, FirstTurn
  <2>4. r \notin Written(s)
    BY <2>1, <2>3, WrittenCases DEF App
  <2> HIDE DEF r
  <2>5. Orderly(p)'
    <3>1. r = <<flight[p] + 1, 0>> /\ r[1] = flight[p] + 1
      BY <2>1, <2>3 DEF r
    <3>. QED
      BY <1>1, <1>3, <1>4, <2>1, <2>2, <2>3, <2>4, <3>1, OtherSide
  <2>6. ASSUME NEW d \in ToSet(net[s]) PROVE First(d)[1] = App
    <3>1. net[s] # <<>>
      BY DEF ToSet
    <3>2. net[s] \in Seq(Seq(WrittenBytes(p)))
      BY OneSide
    <3>3. d \in Seq(WrittenBytes(p)) /\ Len(d) \in 1 .. BUF_SIZE
      BY <3>2, InSet, OneSide
    <3>4. d[1] \in WrittenBytes(p)
      <4>1. 1 \in 1 .. Len(d)
        BY <3>3, Sizes
      <4>. QED
        BY <3>3, <4>1, ElementOfSeq
    <3>5. First(d) \in Written(p)
      BY <3>4 DEF WrittenBytes, First
    <3>. QED
      BY <2>3, <3>5, WrittenCases DEF App
  <2>7. Orderly(s)'
    BY <1>0, <1>1, <1>3, <1>4, <2>2, <2>3, <2>6 DEF Orderly, Distinct
  <2>. QED
    BY <2>5, <2>7
<1>. QED
  BY <1>5, <1>6 DEF Start

LEMMA AdvanceOrdered ==
  ASSUME Base, Ordered, NEW s \in Sides, pc[s] = "wait", net[s] # <<>>,
         Advance(s, Records(Head(net[s]))), UNCHANGED <<len, packetVars, faultVars>>
  PROVE  Ordered'
<1> DEFINE p == Peer(s)
<1>0. /\ SessionTypeOK /\ TakeTurns /\ p \in Sides /\ p # s /\ Peer(p) = s /\ len \in Lengths
      /\ len' = len /\ hit' = hit
  BY TwoSides DEF Base, SessionTypeOK, faultVars
<1>1. SUFFICES ASSUME Fits PROVE Orderly(s)' /\ Orderly(p)'
  BY <1>0, OrderedSides, BothSides DEF Fits
<1>2. Orderly(s) /\ Orderly(p)
  BY <1>0, <1>1, OrderedSides
<1>3. PICK r \in Written(p) :
        /\ r \in AllRecords /\ Head(net[s]) = Bytes(r) /\ Records(Head(net[s])) = <<r>>
        /\ \A d \in ToSet(Tail(net[s])) :
             d = Bytes(First(d)) /\ (Distinct(net[s]) => First(d) # r)
        /\ Distinct(net[s]) => Distinct(Tail(net[s]))
        /\ Head(net[s]) \in ToSet(net[s]) /\ First(Head(net[s])) = r
        /\ ToSet(Tail(net[s])) \subseteq ToSet(net[s])
  BY <1>1, <1>2, ArrivesWhole
<1> DEFINE q == <<r>>
           f == r[1]
<1>4. q \in Seq(AllRecords) /\ Len(q) = 1 /\ q[1] = r /\ SubSeq(q, 2, Len(q)) = <<>>
  <2>1. q \in Seq(AllRecords) /\ Len(q) = 1 /\ q[1] = r
    BY <1>3
  <2>2. SubSeq(q, 1 + 1, Len(q)) = <<>>
    BY <2>1, SubSeqEmpty
  <2> HIDE DEF q
  <2>3. 1 + 1 = 2
    OBVIOUS
  <2>. QED
    BY <2>1, <2>2, <2>3
<1>5. Awaited(s, q) = 1 /\ f = flight[s] + 1 /\ r \notin known[s]
  <2>1. Awaited(s, q) # 0
    BY <1>3 DEF Advance
  <2> HIDE DEF q
  <2>. QED
    BY <1>4, <2>1, AwaitedCases
<1>6. /\ pc' = [pc EXCEPT ![s] = IF Completes(f) THEN "data" ELSE @]
      /\ flight' = [flight EXCEPT ![s] = IF f = 4 THEN @ ELSE f + 1]
      /\ held' = [held EXCEPT ![s] = <<>>]
      /\ known' = [known EXCEPT ![s] = @ \cup {r}]
      /\ Flush(s, Tail(net[s]), wbio[s] \o Answer(f)) /\ copies' = copies
  <2>1. Advance(s, q)
    BY <1>3
  <2> HIDE DEF q
  <2>2. /\ pc' = [pc EXCEPT ![s] = IF Completes(f) THEN "data" ELSE @]
        /\ flight' = [flight EXCEPT ![s] = IF f = 4 THEN @ ELSE f + 1]
        /\ held' = [held EXCEPT ![s] = IF Completes(f) THEN SubSeq(q, 1 + 1, Len(q)) ELSE <<>>]
        /\ known' = [known EXCEPT ![s] = @ \cup {r}]
        /\ Flush(s, Tail(net[s]), wbio[s] \o Answer(f)) /\ copies' = copies
    BY <1>4, <1>5, <2>1 DEF Advance
  <2>3. (IF Completes(f) THEN SubSeq(q, 1 + 1, Len(q)) ELSE <<>>) = <<>>
    BY <1>4
  <2> HIDE DEF f
  <2>. QED
    BY <2>2, <2>3
<1>7. \/ s = "client" /\ flight["client"] = 1 /\ flight["server"] = 2 /\ f = 2
      \/ s = "client" /\ flight["client"] = 3 /\ flight["server"] = 4 /\ f = 4
      \/ s = "server" /\ flight["client"] = 1 /\ flight["server"] = 0 /\ f = 1
      \/ s = "server" /\ flight["client"] = 3 /\ flight["server"] = 2 /\ f = 3
  BY <1>3, <1>5, FoundCases
<1> HIDE DEF f, q
<1>8. /\ f \in 1 .. 4 /\ flight[p] = f /\ flight'[p] = f /\ flight[s] = f - 1
      /\ flight'[s] = (IF f = 4 THEN 3 ELSE f + 1) /\ (f # 4 => Shaking(p))
      /\ pc'[s] = (IF f >= 3 THEN "data" ELSE "wait") /\ pc'[p] = pc[p]
      /\ held'[s] = <<>> /\ held'[p] = held[p]
      /\ known'[s] = known[s] \cup {r} /\ known'[p] = known[p]
  <2>1. /\ flight'[p] = flight[p] /\ flight'[s] = (IF f = 4 THEN flight[s] ELSE f + 1)
        /\ pc'[s] = (IF f >= 3 THEN "data" ELSE "wait") /\ pc'[p] = pc[p]
    BY <1>0, <1>6 DEF SessionTypeOK, Completes
  <2>2. /\ held'[s] = <<>> /\ held'[p] = held[p]
        /\ known'[s] = known[s] \cup {r} /\ known'[p] = known[p]
    BY <1>0, <1>6 DEF SessionTypeOK
  <2>3. CASE s = "client"
    BY <1>0, <1>7, <2>1, <2>2, <2>3 DEF Peer, TakeTurns
  <2>4. CASE s = "server"
    BY <1>0, <1>7, <2>1, <2>2, <2>4 DEF Peer, TakeTurns
  <2>. QED
    BY <2>3, <2>4 DEF Sides
<1>9. wbio[s] = <<>> /\ \A a \in Seq(AllBytes) : wbio[s] \o a = a
  <2>1. wbio[s] = <<>>
    BY <1>2 DEF Orderly
  <2>. QED
    BY <2>1, ConcatEmptySeq
<1>10. /\ wbio'[s] = <<>> /\ wbio'[p] = wbio[p] /\ net'[s] = Tail(net[s])
       /\ IF f = 4 THEN net'[p] = net[p]
          ELSE net'[p] = Append(net[p], Bytes(<<f + 1, 0>>)) /\ <<f + 1, 0>> \in AllRecords
  <2>1. CASE f = 4
    <3>1. wbio[s] \o Answer(f) = <<>>
      BY <1>9, <2>1 DEF Answer
    <3>. QED
      BY <1>6, <2>1, <3>1, FlushNothing
  <2>2. CASE f # 4
    <3>1. <<f + 1, 0>> \in AllRecords
      BY <1>8, <2>2 DEF AllRecords, Kinds, Flights
    <3>2. Bytes(<<f + 1, 0>>) \in Seq(AllBytes) /\ Answer(f) = Bytes(<<f + 1, 0>>)
      BY <1>0, <2>2, <3>1, BytesOf DEF Answer
    <3>3. Flush(s, Tail(net[s]), Bytes(<<f + 1, 0>>))
      BY <1>6, <1>9, <3>2
    <3>. QED
      BY <1>0, <1>1, <2>2, <3>1, <3>3, FitsAll, FlushRecord
  <2>. QED
    BY <2>1, <2>2
<1>11. (Quiet' <=> Quiet) /\ \A e : Bytes(e)' = Bytes(e)
  BY <1>0, <1>6 DEF Quiet, Resent, Bytes
<1>12. Orderly(p)'
  <2>1. CASE f = 4
    <3>1. flight'[s] = flight[s]
      BY <1>8, <2>1
    <3>. QED
      BY <1>0, <1>2, <1>8, <1>10, <1>11, <2>1, <3>1, OtherSide
  <2>2. CASE f # 4
    <3> DEFINE e == <<f + 1, 0>>
    <3>1. e \in AllRecords /\ e[1] = f + 1 /\ e = <<flight[p] + 1, 0>> /\ e[1] = flight[p] + 1
      BY <1>8, <1>10, <2>2
    <3>2. e \notin Written(s)
      BY <1>8, <3>1, WrittenCases DEF App
    <3>3. net'[p] = Append(net[p], Bytes(e))
      BY <1>10, <2>2
    <3> HIDE DEF e
    <3>. QED
      BY <1>0, <1>2, <1>8, <1>10, <1>11, <2>2, <3>1, <3>2, <3>3, OtherSide
  <2>. QED
    BY <2>1, <2>2
<1>13. ASSUME Quiet', NEW d \in ToSet(Tail(net[s])) PROVE First(d) # r /\ First(d)[1] = App
  <2>1. /\ Quiet /\ Distinct(net[s]) /\ d \in ToSet(net[s]) /\ First(d) # r
    BY <1>2, <1>3, <1>11, <1>13 DEF Orderly
  <2>2. First(d)[1] # App => First(d)[1] = f
    BY <1>2, <1>5, <2>1 DEF Orderly
  <2>3. First(d) \in Written(p)
    <3>1. net[s] \in Seq(Seq(WrittenBytes(p)))
      BY OneSide
    <3>2. d \in Seq(WrittenBytes(p)) /\ Len(d) \in 1 .. BUF_SIZE
      BY <2>1, <3>1, InSet, OneSide
    <3>3. 1 \in 1 .. Len(d)
      BY <3>2, Sizes
    <3>4. d[1] \in WrittenBytes(p)
      BY <3>2, <3>3, ElementOfSeq
    <3>. QED
      BY <3>4 DEF WrittenBytes, First
  <2>4. copies[p] = 0
    BY <1>0, <2>1, OneSide DEF Quiet, Resent
  <2>5. ASSUME First(d)[1] # App PROVE FALSE
    <3>1. First(d)[2] = 0 /\ First(d) = <<First(d)[1], First(d)[2]>>
      BY <2>3, <2>4, <2>5, WrittenCases
    <3>2. r[2] = 0 /\ r = <<r[1], r[2]>>
      <4>1. f # App
        BY <1>8 DEF App
      <4>. QED
        BY <1>3, <2>4, <4>1, WrittenCases DEF f
    <3>. QED
      BY <2>1, <2>2, <2>5, <3>1, <3>2 DEF f
  <2>. QED
    BY <2>1, <2>5
<1>14. Orderly(s)'
  <2>1. held'[s] = <<>> /\ wbio'[s] = <<>> /\ pc'[s] # "ended"
    BY <1>8, <1>10
  <2>2. \A d \in ToSet(net'[s]) : d = Bytes(First(d))
    BY <1>3, <1>10
  <2>3. flight'[p] # flight'[s] + 1 \/ ~Shaking(s)'
    <3>1. CASE f = 4
      BY <1>8, <3>1 DEF Shaking
    <3>2. CASE f # 4
      BY <1>8, <3>2
    <3>. QED
      BY <3>1, <3>2
  <2>4. ASSUME Quiet'
        PROVE  /\ Distinct(net'[s])
               /\ \A d \in ToSet(net'[s]) : First(d) \notin known'[s] /\ First(d)[1] = App
    <3>1. Distinct(net[s]) /\ \A d \in ToSet(net[s]) : First(d) \notin known[s]
      BY <1>2, <1>11, <2>4 DEF Orderly
    <3>. QED
      BY <1>3, <1>8, <1>10, <1>13, <2>4, <3>1
  <2>. QED
    BY <1>0, <1>11, <2>1, <2>2, <2>3, <2>4 DEF Orderly, Distinct
<1>. QED
  BY <1>12, <1>14

LEMMA NoAdvanceOrdered ==
  ASSUME Base, Ordered, NEW s \in Sides, pc[s] = "wait", net[s] # <<>>,
         NoAdvance(s, Records(Head(net[s]))), UNCHANGED <<len, packetVars, faultVars>>
  PROVE  Ordered'
<1> DEFINE p == Peer(s)
           e == <<flight[s], copies[s] + 1>>
<1>0. /\ SessionTypeOK /\ TakeTurns /\ p \in Sides /\ p # s /\ Peer(p) = s /\ len \in Lengths
      /\ len' = len /\ hit' = hit
  BY TwoSides DEF Base, SessionTypeOK, faultVars
<1>1. SUFFICES ASSUME Fits PROVE Orderly(s)' /\ Orderly(p)'
  BY <1>0, OrderedSides, BothSides DEF Fits
<1>2. Orderly(s) /\ Orderly(p)
  BY <1>0, <1>1, OrderedSides
<1>3. PICK r \in Written(p) :
        /\ r \in AllRecords /\ Head(net[s]) = Bytes(r) /\ Records(Head(net[s])) = <<r>>
        /\ \A d \in ToSet(Tail(net[s])) :
             d = Bytes(First(d)) /\ (Distinct(net[s]) => First(d) # r)
        /\ \A d \in ToSet(net[s]) : d \in ToSet(Tail(net[s])) \/ d = Bytes(r)
        /\ Distinct(net[s]) => Distinct(Tail(net[s]))
        /\ ToSet(Tail(net[s])) \subseteq ToSet(net[s])
  BY <1>1, <1>2, ArrivesWhole
<1> DEFINE q == <<r>>
<1>4. q \in Seq(AllRecords) /\ Len(q) = 1 /\ q[1] = r /\ ToSet(q) = {r}
  <2>1. q \in Seq(AllRecords) /\ Len(q) = 1 /\ q[1] = r
    BY <1>3
  <2> HIDE DEF q
  <2>2. ToSet(q) = {q[k] : k \in 1 .. 1}
    BY <2>1, InSet
  <2>. QED
    BY <2>1, <2>2
<1>5. NoAdvance(s, q)
  BY <1>3
<1> HIDE DEF q
<1>6. /\ Awaited(s, q) = 0 /\ known' = [known EXCEPT ![s] = @ \cup {a \in ToSet(q) : a[1] # App}]
      /\ pc' = pc /\ flight' = flight /\ held' = held
      /\ \/ Flush(s, Tail(net[s]), wbio[s]) /\ copies' = copies
         \/ /\ flight[s] > 0 /\ copies' = [copies EXCEPT ![s] = @ + 1]
            /\ Flush(s, Tail(net[s]), wbio[s] \o Bytes(e))
  BY <1>5 DEF NoAdvance
<1>7. r # <<flight[s] + 1, 0>>
  <2>1. r[1] = flight[s] + 1 => r \in known[s]
    BY <1>4, <1>6, AwaitedCases
  <2>2. \A a \in known[s] : a[1] # flight[s] + 1
    BY <1>0 DEF TakeTurns, Shaking
  <2>. QED
    BY <2>1, <2>2
<1>8. known'[p] = known[p] /\ known'[s] \subseteq known[s] \cup {r}
  BY <1>0, <1>4, <1>6 DEF SessionTypeOK
<1>9. wbio[s] = <<>>
  BY <1>2 DEF Orderly
<1>10. /\ wbio'[s] = <<>> /\ wbio'[p] = wbio[p] /\ net'[s] = Tail(net[s])
       /\ \/ net'[p] = net[p] /\ copies' = copies
          \/ net'[p] = Append(net[p], Bytes(e)) /\ e \in AllRecords /\ ~Quiet'
       /\ Quiet' => Quiet
  <2>1. CASE Flush(s, Tail(net[s]), wbio[s]) /\ copies' = copies
    <3>1. /\ wbio'[s] = <<>> /\ wbio'[p] = wbio[p] /\ net'[s] = Tail(net[s]) /\ net'[p] = net[p]
      BY <1>9, <2>1, FlushNothing
    <3>. QED
      BY <1>0, <2>1, <3>1 DEF Quiet, Resent
  <2>2. CASE /\ flight[s] > 0 /\ copies' = [copies EXCEPT ![s] = @ + 1]
             /\ Flush(s, Tail(net[s]), wbio[s] \o Bytes(e))
    <3>1. flight[s] \in 0 .. 4 /\ copies[s] \in Nat /\ copies'[s] = copies[s] + 1
      BY <1>0, <2>2, OneSide DEF SessionTypeOK
    <3>2. e \in AllRecords
      BY <2>2, <3>1 DEF AllRecords, Kinds, Flights, App
    <3>3. Bytes(e) \in Seq(AllBytes)
      BY <1>0, <3>2, BytesOf
    <3>4. wbio[s] \o Bytes(e) = Bytes(e)
      BY <1>9, <3>3, ConcatEmptySeq
    <3>5. /\ wbio'[s] = <<>> /\ wbio'[p] = wbio[p] /\ net'[s] = Tail(net[s])
          /\ net'[p] = Append(net[p], Bytes(e))
      <4>1. Flush(s, Tail(net[s]), Bytes(e)) /\ len[e[1]] <= Room
        BY <1>0, <1>1, <2>2, <3>2, <3>4, FitsAll
      <4> HIDE DEF e
      <4>. QED
        BY <3>2, <4>1, FlushRecord
    <3>6. ~Quiet'
      <4>1. copies'[s] > 0
        BY <3>1
      <4>. QED
        BY <4>1 DEF Quiet, Resent
    <3>. QED
      BY <3>2, <3>5, <3>6
  <2>. QED
    BY <1>6, <2>1, <2>2
<1>11. Shaking(s)' = Shaking(s) /\ \A a : Bytes(a)' = Bytes(a)
  BY <1>0, <1>6 DEF Shaking, Bytes
<1> HIDE DEF e
<1>12. Orderly(p)'
  BY <1>0, <1>2, <1>6, <1>8, <1>10, OtherSide
<1>13. Orderly(s)'
  <2>1. held'[s] = <<>> /\ wbio'[s] = <<>> /\ pc'[s] # "ended"
    BY <1>2, <1>6, <1>10 DEF Orderly
  <2>2. \A d \in ToSet(net'[s]) : d = Bytes(First(d))
    BY <1>3, <1>10
  <2>3. ASSUME "lose" \notin hit', flight'[p] = flight'[s] + 1
        PROVE  Bytes(<<flight'[s] + 1, 0>>) \in ToSet(net'[s])
    <3> DEFINE a == <<flight[s] + 1, 0>>
    <3>1. Bytes(a) \in ToSet(net[s])
      BY <1>0, <1>2, <1>6, <2>3 DEF Orderly, Shaking
    <3>2. Bytes(a) # Bytes(r)
      <4>1. flight[s] \in 0 .. 4 /\ flight[p] \in 0 .. 4 /\ flight[p] = flight[s] + 1
        BY <1>0, <1>6, <2>3, OneSide
      <4>2. a \in AllRecords
        BY <4>1 DEF AllRecords, Kinds, Flights
      <4> HIDE DEF a
      <4>3. First(Bytes(a)) = a /\ First(Bytes(r)) = r
        BY <1>0, <1>3, <4>2, BytesOf
      <4>. QED
        BY <1>7, <4>3 DEF a
    <3>. QED
      BY <1>3, <1>6, <1>10, <3>1, <3>2
  <2>4. ASSUME Quiet'
        PROVE  /\ Distinct(net'[s])
               /\ \A d \in ToSet(net'[s]) :
                    /\ First(d) \notin known'[s]
                    /\ First(d)[1] # App => Shaking(s)' /\ First(d)[1] = flight'[s] + 1
    <3>1. /\ Distinct(net[s])
          /\ \A d \in ToSet(net[s]) :
               /\ First(d) \notin known[s]
               /\ First(d)[1] # App => Shaking(s) /\ First(d)[1] = flight[s] + 1
      BY <1>2, <1>10, <2>4 DEF Orderly
    <3>. QED
      BY <1>3, <1>6, <1>8, <1>10, <1>11, <3>1
  <2>. QED
    BY <1>0, <1>11, <2>1, <2>2, <2>3, <2>4 DEF Orderly, Distinct
<1>. QED
  BY <1>12, <1>13

LEMMA EncryptOrdered ==
  ASSUME Base, Ordered, NEW s \in Sides, Encrypt(s)
  PROVE  Ordered'
<1> DEFINE p == Peer(s)
           e == <<App, sent[s] + 1>>
<1>0. /\ SessionTypeOK /\ p \in Sides /\ p # s /\ Peer(p) = s /\ len \in Lengths
  BY TwoSides DEF Base, SessionTypeOK
<1>1. /\ pc[s] = "data" /\ Flush(s, net[s], wbio[s] \o Bytes(e)) /\ len' = len /\ pc' = pc
      /\ flight' = flight /\ copies' = copies /\ held' = held /\ known' = known /\ hit' = hit
  BY DEF Encrypt, faultVars
<1>2. SUFFICES ASSUME Fits PROVE Orderly(s)' /\ Orderly(p)'
  BY <1>1, OrderedSides, BothSides DEF Fits
<1>3. Orderly(s) /\ Orderly(p)
  BY <1>0, <1>2, OrderedSides
<1>4. sent[s] \in Nat
  BY OneSide
<1>5. e \in AllRecords /\ e[1] = App /\ e[2] = sent[s] + 1
  BY <1>4 DEF AllRecords, Kinds
<1>6. e \notin Written(s)
  BY <1>4, <1>5, WrittenCases
<1> HIDE DEF e
<1>7. wbio[s] \o Bytes(e) = Bytes(e)
  <2>1. wbio[s] = <<>> /\ Bytes(e) \in Seq(AllBytes)
    BY <1>0, <1>1, <1>3, <1>5, BytesOf DEF Orderly
  <2>. QED
    BY <2>1, ConcatEmptySeq
<1>8. /\ wbio'[s] = <<>> /\ wbio'[p] = wbio[p] /\ net'[s] = net[s]
      /\ net'[p] = Append(net[p], Bytes(e))
  BY <1>0, <1>1, <1>2, <1>5, <1>7, FitsAll, FlushRecord
<1>9. (Quiet' <=> Quiet) /\ (Shaking(s)' <=> Shaking(s)) /\ \A a : Bytes(a)' = Bytes(a)
  BY <1>1 DEF Quiet, Resent, Shaking, Bytes
<1>10. Orderly(p)'
  BY <1>1, <1>3, <1>5, <1>6, <1>8, <1>9, OtherSide
<1>11. Orderly(s)'
  BY <1>1, <1>3, <1>8, <1>9 DEF Orderly, Distinct
<1>. QED
  BY <1>10, <1>11

LEMMA DecryptOrdered ==
  ASSUME Base, Ordered, NEW s \in Sides, Decrypt(s)
  PROVE  Ordered'
<1> DEFINE p == Peer(s)
<1>0. /\ SessionTypeOK /\ p \in Sides /\ p # s /\ Peer(p) = s /\ len \in Lengths
      /\ pc[s] = "data" /\ net[s] # <<>> /\ len' = len /\ hit' = hit /\ flight' = flight
      /\ net' = [net EXCEPT ![s] = Tail(@)]
  <2>1. /\ pc[s] = "data" /\ net[s] # <<>> /\ len' = len /\ hit' = hit /\ flight' = flight
        /\ net' = [net EXCEPT ![s] = Tail(@)]
    BY DEF Decrypt, faultVars
  <2>2. SessionTypeOK /\ len \in Lengths
    BY DEF Base, SessionTypeOK
  <2>. QED
    BY <2>1, <2>2, TwoSides
<1>1. SUFFICES ASSUME Fits PROVE Orderly(s)' /\ Orderly(p)'
  BY <1>0, OrderedSides, BothSides DEF Fits
<1>2. Orderly(s) /\ Orderly(p)
  BY <1>0, <1>1, OrderedSides
<1>3. PICK r \in Written(p) :
        /\ r \in AllRecords /\ Head(net[s]) = Bytes(r) /\ Records(Head(net[s])) = <<r>>
        /\ \A d \in ToSet(Tail(net[s])) :
             d = Bytes(First(d)) /\ (Distinct(net[s]) => First(d) # r)
        /\ Distinct(net[s]) => Distinct(Tail(net[s]))
        /\ Head(net[s]) \in ToSet(net[s]) /\ First(Head(net[s])) = r
        /\ ToSet(Tail(net[s])) \subseteq ToSet(net[s])
  BY <1>0, <1>1, <1>2, ArrivesWhole
<1> DEFINE q == <<r>>
           i == FirstPacket(s, q)
           done == IF i = 0 THEN q ELSE SubSeq(q, 1, i)
<1>4. /\ q \in Seq(AllRecords) /\ Len(q) = 1 /\ q[1] = r /\ SubSeq(q, 1, 1) = q
      /\ SubSeq(q, 1 + 1, Len(q)) = <<>> /\ ToSet(q) = {r}
  <2>1. q \in Seq(AllRecords) /\ Len(q) = 1 /\ q[1] = r
    BY <1>3
  <2>2. SubSeq(q, 1 + 1, Len(q)) = <<>>
    BY <2>1, SubSeqEmpty
  <2>3. SubSeq(q, 1, Len(q)) = q
    BY <2>1, SubSeqFull
  <2> HIDE DEF q
  <2>4. ToSet(q) = {q[k] : k \in 1 .. 1}
    BY <2>1, InSet
  <2>. QED
    BY <2>1, <2>2, <2>3, <2>4
<1>5. held[s] \o Records(Head(net[s])) = q
  <2>1. held[s] = <<>> /\ Records(Head(net[s])) = q
    BY <1>2, <1>3 DEF Orderly
  <2> HIDE DEF q
  <2>. QED
    BY <1>4, <2>1, ConcatEmptySeq
<1> HIDE DEF q
<1>6. /\ known' = [known EXCEPT ![s] = @ \cup ToSet(done)]
      /\ held' = [held EXCEPT ![s] = SubSeq(q, Len(done) + 1, Len(q))]
      /\ \/ /\ ~Repeated(s, done) /\ copies' = copies /\ wbio' = wbio
         \/ /\ Repeated(s, done) /\ copies' = [copies EXCEPT ![s] = @ + 1]
            /\ wbio' = [wbio EXCEPT ![s] = @ \o Bytes(<<flight[s], copies[s] + 1>>)]
      /\ \/ i # 0 /\ pc' = pc
         \/ i = 0 /\ pc' = [pc EXCEPT ![s] = "ended"]
  <2> DEFINE x == held[s] \o Records(Head(net[s]))
             j == FirstPacket(s, x)
             all == IF j = 0 THEN x ELSE SubSeq(x, 1, j)
             again == Repeated(s, all)
  <2>1. /\ known' = [known EXCEPT ![s] = @ \cup ToSet(all)]
        /\ held' = [held EXCEPT ![s] = SubSeq(x, Len(all) + 1, Len(x))]
        /\ IF again
           THEN /\ copies' = [copies EXCEPT ![s] = @ + 1]
                /\ wbio' = [wbio EXCEPT ![s] = @ \o Bytes(<<flight[s], copies[s] + 1>>)]
           ELSE copies' = copies /\ wbio' = wbio
        /\ \/ j # 0 /\ pc' = pc
           \/ j = 0 /\ pc' = [pc EXCEPT ![s] = "ended"]
    BY DEF Decrypt
  <2>2. x = q /\ j = i /\ all = done /\ (again <=> Repeated(s, done))
    BY <1>5
  <2> HIDE DEF x, j, all, again, i, done
  <2>. QED
    BY <2>1, <2>2
<1>7. \/ i = 0 /\ ~(r[1] = App /\ r \notin known[s])
      \/ i = 1 /\ r[1] = App /\ r \notin known[s]
  BY <1>4, PacketCases
<1>8. done = q
  BY <1>4, <1>7
<1> HIDE DEF i, done
<1>9. /\ known'[s] = known[s] \cup {r} /\ known'[p] = known[p]
      /\ held'[s] = <<>> /\ held'[p] = held[p]
  <2>1. held' = [held EXCEPT ![s] = <<>>] /\ known' = [known EXCEPT ![s] = @ \cup {r}]
    BY <1>4, <1>6, <1>8
  <2>. QED
    BY <1>0, <2>1 DEF SessionTypeOK
<1>10. pc'[p] = pc[p] /\ net'[s] = Tail(net[s]) /\ net'[p] = net[p] /\ wbio'[p] = wbio[p]
  BY <1>0, <1>6 DEF SessionTypeOK
<1>11. pc'[s] # "ended" => i = 1 /\ pc'[s] = "data" /\ wbio' = wbio
  <2>1. ASSUME pc'[s] # "ended" PROVE i = 1 /\ pc' = pc
    BY <1>0, <1>6, <1>7, <2>1 DEF SessionTypeOK
  <2>2. i = 1 => ~Repeated(s, done)
    BY <1>4, <1>7, <1>8 DEF Repeated, App
  <2>. QED
    BY <1>0, <1>6, <2>1, <2>2
<1>12. /\ Quiet' => Quiet
       /\ \A a : Bytes(a)' = Bytes(a)
  <2>1. CASE copies' = copies
    BY <1>0, <2>1 DEF Quiet, Resent, Bytes
  <2>2. CASE copies' = [copies EXCEPT ![s] = @ + 1]
    <3>1. copies[s] \in Nat /\ copies'[s] = copies[s] + 1
      BY <1>0, <2>2, OneSide DEF SessionTypeOK
    <3>2. copies'[s] > 0
      BY <3>1
    <3>. QED
      BY <1>0, <3>2 DEF Quiet, Resent, Bytes
  <2>. QED
    BY <1>6, <2>1, <2>2
<1>13. Orderly(p)'
  BY <1>0, <1>2, <1>9, <1>10, <1>12, OtherSide
<1>14. ~Shaking(s) /\ ~Shaking(s)'
  <2>1. pc'[s] \in {"data", "ended"}
    BY <1>11
  <2>. QED
    BY <1>0, <2>1 DEF Shaking
<1>15. Orderly(s)'
  <2>1. held'[s] = <<>> /\ (pc'[s] # "ended" => wbio'[s] = <<>>)
    BY <1>0, <1>2, <1>9, <1>11 DEF Orderly
  <2>2. \A d \in ToSet(net'[s]) : d = Bytes(First(d))
    BY <1>3, <1>10
  <2>3. ASSUME Quiet'
        PROVE  /\ pc'[s] # "ended" /\ Distinct(net'[s])
               /\ \A d \in ToSet(net'[s]) : First(d) \notin known'[s] /\ First(d)[1] = App
    <3>1. /\ Distinct(net[s])
          /\ \A d \in ToSet(net[s]) : First(d) \notin known[s] /\ First(d)[1] = App
      BY <1>2, <1>12, <1>14, <2>3 DEF Orderly
    <3>2. r[1] = App /\ r \notin known[s]
      BY <1>3, <3>1
    <3>3. pc' = pc
      BY <1>6, <1>7, <3>2
    <3>. QED
      BY <1>0, <1>3, <1>9, <1>10, <3>1, <3>3
  <2>. QED
    BY <1>0, <1>12, <1>14, <2>1, <2>2, <2>3 DEF Orderly, Distinct
<1>. QED
  BY <1>13, <1>15

LEMMA FaultOrdered ==
  ASSUME Base, Ordered, NEW s \in Sides, NEW f, NEW q \in Seq(Seq(WrittenBytes(Peer(s)))),
         Fault(f, s, q), ToSet(q) \subseteq ToSet(net[s]),
         f # "lose" => ToSet(q) = ToSet(net[s]),
         f # "duplicate" => (Distinct(net[s]) => Distinct(q))
  PROVE  Ordered'
<1> DEFINE p == Peer(s)
<1>0. /\ SessionTypeOK /\ p \in Sides /\ p # s /\ Peer(p) = s
  BY TwoSides DEF Base
<1>1. /\ net' = [net EXCEPT ![s] = q] /\ hit' = hit \cup {f}
      /\ len' = len /\ pc' = pc /\ flight' = flight /\ copies' = copies /\ wbio' = wbio
      /\ held' = held /\ known' = known
  BY DEF Fault, sslVars
<1>2. net'[s] = q /\ net'[p] = net[p]
  BY <1>0, <1>1 DEF SessionTypeOK
<1>3. SUFFICES ASSUME Fits PROVE Orderly(s)' /\ Orderly(p)'
  BY <1>1, OrderedSides, BothSides DEF Fits
<1>4. Orderly(s) /\ Orderly(p)
  BY <1>0, <1>3, OrderedSides
<1>5. /\ Quiet' => Quiet /\ f # "duplicate"
      /\ "lose" \notin hit' => "lose" \notin hit /\ f # "lose"
  BY <1>1 DEF Quiet, Resent
<1>6. \A t : (Shaking(t)' <=> Shaking(t)) /\ Bytes(t)' = Bytes(t)
  BY <1>1 DEF Shaking, Bytes
<1>7. Orderly(p)'
  BY <1>1, <1>2, <1>4, <1>5, <1>6 DEF Orderly, Distinct
<1>8. Orderly(s)'
  <2>1. held'[s] = <<>> /\ (pc'[s] # "ended" => wbio'[s] = <<>>)
    BY <1>1, <1>4 DEF Orderly
  <2>2. \A d \in ToSet(q) : d = Bytes(First(d))
    BY <1>4 DEF Orderly
  <2>3. "lose" \notin hit' /\ Shaking(s) /\ flight[p] = flight[s] + 1 =>
          Bytes(<<flight[s] + 1, 0>>) \in ToSet(q)
    BY <1>4, <1>5 DEF Orderly
  <2>4. Quiet' => /\ pc[s] # "ended" /\ Distinct(q)
                  /\ \A d \in ToSet(q) :
                       /\ First(d) \notin known[s]
                       /\ First(d)[1] # App => Shaking(s) /\ First(d)[1] = flight[s] + 1
    BY <1>4, <1>5 DEF Orderly
  <2>. QED
    BY <1>1, <1>2, <1>6, <2>1, <2>2, <2>3, <2>4 DEF Orderly, Distinct
<1>. QED
  BY <1>7, <1>8

LEMMA OrderedInit ==
  Init => Ordered
<1> SUFFICES ASSUME Init PROVE \A s \in Sides : Orderly(s)
  BY OrderedSides
<1>1. DOMAIN <<>> = {} /\ ToSet(<<>>) = {}
  BY DEF ToSet
<1>. QED
  BY <1>1 DEF Init, Orderly, Distinct, Sides, Peer

LEMMA OrderedNext ==
  Base /\ Ordered /\ [Next]_vars => Ordered'
<1> SUFFICES ASSUME Base, Ordered, [Next]_vars PROVE Ordered'
  OBVIOUS
<1>1. CASE Next
  <2>1. PICK s \in Sides :
           \/ Start(s)
           \/ Shaken(s) /\ Advance(s, Records(Head(net[s])))
           \/ Shaken(s) /\ NoAdvance(s, Records(Head(net[s])))
           \/ Encrypt(s) \/ Decrypt(s)
           \/ Lose(s) \/ Duplicate(s) \/ Overtake(s)
    BY <1>1, NextCases
  <2>2. CASE Start(s)
    BY <2>2, StartOrdered
  <2>3. CASE Shaken(s) /\ Advance(s, Records(Head(net[s])))
    BY <2>3, AdvanceOrdered DEF Shaken
  <2>4. CASE Shaken(s) /\ NoAdvance(s, Records(Head(net[s])))
    BY <2>4, NoAdvanceOrdered DEF Shaken
  <2>5. CASE Encrypt(s)
    BY <2>5, EncryptOrdered
  <2>6. CASE Decrypt(s)
    BY <2>6, DecryptOrdered
  <2>7. CASE Lose(s) \/ Duplicate(s) \/ Overtake(s)
    BY <2>7, FaultCases, FaultOrdered
  <2>. QED
    BY <2>1, <2>2, <2>3, <2>4, <2>5, <2>6, <2>7
<1>2. CASE UNCHANGED vars
  <2>1. /\ len' = len /\ pc' = pc /\ flight' = flight /\ copies' = copies /\ wbio' = wbio
        /\ held' = held /\ known' = known /\ net' = net /\ hit' = hit
    BY <1>2 DEF vars, sslVars, packetVars, faultVars
  <2>2. \A t : (Shaking(t)' <=> Shaking(t)) /\ Bytes(t)' = Bytes(t)
    BY <2>1 DEF Shaking, Bytes
  <2>3. (Fits' <=> Fits) /\ (Quiet' <=> Quiet)
    BY <2>1 DEF Fits, Quiet, Resent
  <2>4. \A s \in Sides : Orderly(s) => Orderly(s)'
    BY <2>1, <2>2, <2>3 DEF Orderly, Distinct
  <2>. QED
    BY <2>3, <2>4, OrderedSides
<1>. QED
  BY <1>1, <1>2

-----------------------------------------------------------------------------
(***************************************************************************)
(* If a flight does not fit                                                *)
(***************************************************************************)

(* What s has sent of its flight, which the peer has not answered.         *)
Partly(s) ==
  IF len[flight[s]] <= Room
  THEN /\ wbio[s] = <<>> /\ Len(net[Peer(s)]) <= 1
       /\ \A d \in ToSet(net[Peer(s)]) : d = Bytes(<<flight[s], 0>>)
  ELSE /\ Unfinished(flight[s], wbio[s])
       /\ \A d \in ToSet(net[Peer(s)]) : \A r \in ToSet(Records(d)) : r[1] # flight[s]

(* Side s is ahead.                                                        *)
Ahead(s) ==
  /\ Shaking(Peer(s)) /\ pc[s] # "ended"
  /\ net[s] = <<>> /\ wbio[Peer(s)] = <<>>
  /\ \A f \in 1 .. flight[Peer(s)] : len[f] <= Room
  /\ Partly(s)

LEMMA HaltedSides ==
  /\ Halted <=> (~Fits /\ Quiet =>
       /\ flight["client"] = 0 => \A s \in Sides : net[s] = <<>> /\ wbio[s] = <<>>
       /\ \A s \in Sides : flight[s] > flight[Peer(s)] => Ahead(s))
  /\ Halted' <=> (~Fits' /\ Quiet' =>
       /\ flight'["client"] = 0 => \A s \in Sides : net'[s] = <<>> /\ wbio'[s] = <<>>
       /\ \A s \in Sides : flight'[s] > flight'[Peer(s)] => Ahead(s)')
<1>1. Halted <=> (~Fits /\ Quiet =>
       /\ flight["client"] = 0 => \A s \in Sides : net[s] = <<>> /\ wbio[s] = <<>>
       /\ \A s \in Sides : flight[s] > flight[Peer(s)] => Ahead(s))
  BY DEF Halted, Ahead, Partly
<1>2. Halted' <=> (~Fits' /\ Quiet' =>
       /\ flight'["client"] = 0 => \A s \in Sides : net'[s] = <<>> /\ wbio'[s] = <<>>
       /\ \A s \in Sides : flight'[s] > flight'[Peer(s)] => Ahead(s)')
  BY DEF Halted, Ahead, Partly
<1>. QED
  BY <1>1, <1>2

(* One side is ahead once the client has begun.                            *)
LEMMA WhoIsAhead ==
  ASSUME Base
  PROVE  /\ flight["client"] = 0 => flight["server"] = 0
         /\ flight["client"] # 0 => \E s \in Sides : flight[s] > flight[Peer(s)]
         /\ \A s \in Sides : /\ flight[s] \in Nat /\ flight[Peer(s)] \in Nat
                             /\ flight[s] > flight[Peer(s)] => flight[s] \in 1 .. 4
<1>1. \/ flight["client"] = 0 /\ flight["server"] = 0
      \/ flight["client"] = 1 /\ flight["server"] = 0
      \/ flight["client"] = 1 /\ flight["server"] = 2
      \/ flight["client"] = 3 /\ flight["server"] = 2
      \/ flight["client"] = 3 /\ flight["server"] = 4
  BY DEF Base, TakeTurns
<1>2. "client" \in Sides /\ "server" \in Sides /\ \A s \in Sides : s = "client" \/ s = "server"
  BY DEF Sides
<1>3. Peer("client") = "server" /\ Peer("server") = "client"
  BY DEF Peer
<1>4. flight["client"] = 0 => flight["server"] = 0
  BY <1>1
<1>5. flight["client"] # 0 => \E s \in Sides : flight[s] > flight[Peer(s)]
  <2>1. flight["client"] # 0 =>
          flight["client"] > flight["server"] \/ flight["server"] > flight["client"]
    BY <1>1
  <2>. QED
    BY <1>2, <1>3, <2>1
<1>6. \A s \in Sides : flight[s] \in 0 .. 4 /\ flight[Peer(s)] \in 0 .. 4
  BY <1>1, <1>2, <1>3
<1>. QED
  BY <1>4, <1>5, <1>6

(* Cutting a stream does not add the beginning of a flight, and what lacks *)
(* the beginning is not a record.                                          *)
LEMMA CutUnfinished ==
  ASSUME NEW f, NEW q \in Seq(AllBytes), Unfinished(f, q), q # <<>>, len \in Lengths
  PROVE  /\ Unfinished(f, SubSeq(q, ReadSize + 1, Len(q)))
         /\ \A r \in ToSet(Records(SubSeq(q, 1, Min({ReadSize, Len(q)})))) : r[1] # f
<1> DEFINE d == SubSeq(q, 1, Min({ReadSize, Len(q)}))
           t == SubSeq(q, ReadSize + 1, Len(q))
<1>0. Len(q) \in Nat /\ DOMAIN q = 1 .. Len(q)
  BY InSet
<1>1. /\ d \in Seq(AllBytes) /\ Len(d) <= Len(q) /\ Len(d) >= 1
      /\ \A k \in 1 .. Len(d) : d[k] = q[k]
      /\ t \in Seq(AllBytes)
      /\ \A k \in 1 .. Len(t) : BUF_SIZE + k \in 1 .. Len(q) /\ t[k] = q[BUF_SIZE + k]
  BY Cut
<1> HIDE DEF d, t
<1>2. Len(t) \in Nat /\ DOMAIN t = 1 .. Len(t) /\ Len(d) \in Nat /\ DOMAIN d = 1 .. Len(d)
  BY <1>1, InSet
<1>3. \A k \in 1 .. Len(q) : q[k][1] = f => \A j \in 1 .. k : q[j][1] = f /\ q[j][3] > 1
  BY <1>0 DEF Unfinished
<1>4. Unfinished(f, t)
  <2>1. SUFFICES ASSUME NEW k \in 1 .. Len(t), t[k][1] = f, NEW j \in 1 .. k
                 PROVE  t[j][1] = f /\ t[j][3] > 1
    BY <1>2 DEF Unfinished
  <2>2. /\ BUF_SIZE + k \in 1 .. Len(q) /\ q[BUF_SIZE + k][1] = f
        /\ j \in 1 .. Len(t) /\ t[j] = q[BUF_SIZE + j]
    BY <1>1, <1>2, <2>1
  <2>3. BUF_SIZE + j \in 1 .. BUF_SIZE + k
    BY <1>2, Sizes
  <2>. QED
    BY <1>3, <2>2, <2>3
<1>5. ASSUME NEW r \in ToSet(Records(d)), r[1] = f PROVE FALSE
  <2>1. d # <<>>
    BY <1>1, <1>2, EmptySeq
  <2>3. /\ d[1][3] = 1 /\ \E i \in 1 .. Len(d) : r = <<d[i][1], d[i][2]>>
    BY <1>1, <1>5, <2>1, RecordsEnd
  <2>4. PICK i \in 1 .. Len(d) : r = <<d[i][1], d[i][2]>>
    BY <2>3
  <2>5. i \in 1 .. Len(q) /\ q[i][1] = f /\ 1 \in 1 .. i
    BY <1>0, <1>1, <1>2, <1>5, <2>4
  <2>6. q[1][3] > 1 /\ d[1] = q[1]
    BY <1>1, <1>2, <1>3, <2>5
  <2>. QED
    BY <2>3, <2>6
<1>. QED
  BY <1>4, <1>5 DEF d, t

(* A flight that is too long: what one BIO_read takes is no record, and    *)
(* what it leaves does not begin with the beginning.                       *)
LEMMA CutFlight ==
  ASSUME NEW f \in Flights, len \in Lengths, ~(len[f] <= Room)
  PROVE  LET b == Bytes(<<f, 0>>)
         IN /\ Unfinished(f, SubSeq(b, ReadSize + 1, Len(b)))
            /\ \A r \in ToSet(Records(SubSeq(b, 1, Min({ReadSize, Len(b)})))) : r[1] # f
<1> DEFINE b == Bytes(<<f, 0>>)
           d == SubSeq(b, 1, Min({ReadSize, Len(b)}))
           t == SubSeq(b, ReadSize + 1, Len(b))
<1>1. <<f, 0>> \in AllRecords /\ f \in Kinds
  BY DEF AllRecords, Kinds
<1>2. len[f] \in Nat
  BY <1>1, LenType
<1>3. /\ b \in Seq(AllBytes) /\ Len(b) = len[f] /\ b # <<>>
      /\ \A i \in 1 .. len[f] : b[i] = <<f, 0, i>>
  <2> DEFINE r == <<f, 0>>
  <2>1. r \in AllRecords /\ r[1] = f /\ r[2] = 0
    BY <1>1
  <2> HIDE DEF r
  <2>2. /\ Bytes(r) \in Seq(AllBytes) /\ Len(Bytes(r)) = len[r[1]] /\ Bytes(r) # <<>>
        /\ \A i \in 1 .. len[r[1]] : Bytes(r)[i] = <<r[1], r[2], i>>
    BY <2>1, BytesOf
  <2>. QED
    BY <2>1, <2>2 DEF r
<1> HIDE DEF b
<1>4. /\ d \in Seq(AllBytes) /\ Len(d) <= Len(b) /\ Len(d) >= 1
      /\ \A k \in 1 .. Len(d) : d[k] = b[k]
      /\ t \in Seq(AllBytes)
      /\ \A k \in 1 .. Len(t) : BUF_SIZE + k \in 1 .. Len(b) /\ t[k] = b[BUF_SIZE + k]
  BY <1>3, Cut
<1> HIDE DEF d, t
<1>5. Len(t) \in Nat /\ DOMAIN t = 1 .. Len(t) /\ Len(d) \in Nat /\ DOMAIN d = 1 .. Len(d)
  BY <1>4, InSet
<1>6. Unfinished(f, t)
  <2>1. SUFFICES ASSUME NEW k \in 1 .. Len(t), NEW j \in 1 .. k
                 PROVE  t[j][1] = f /\ t[j][3] > 1
    BY <1>5 DEF Unfinished
  <2>2. j \in 1 .. Len(t)
    BY <1>5
  <2>3. BUF_SIZE + j \in 1 .. len[f] /\ t[j] = b[BUF_SIZE + j]
    BY <1>3, <1>4, <2>2
  <2>4. t[j] = <<f, 0, BUF_SIZE + j>>
    BY <1>3, <2>3
  <2>5. BUF_SIZE + j > 1
    BY <1>5, <2>2, Sizes
  <2>. QED
    BY <2>4, <2>5
<1>7. ASSUME NEW r \in ToSet(Records(d)) PROVE FALSE
  <2>1. d # <<>>
    BY <1>4, <1>5, EmptySeq
  <2>3. PICK i \in 1 .. Len(d) : i <= Room /\ d[i][3] = len[d[i][1]]
    BY <1>4, <1>7, <2>1, RecordsEnd
  <2>4. i \in 1 .. len[f] /\ d[i] = b[i]
    BY <1>2, <1>3, <1>4, <1>5
  <2>5. d[i] = <<f, 0, i>>
    BY <1>3, <2>4
  <2>6. i = len[f]
    BY <2>3, <2>5
  <2>. QED
    BY <1>2, <2>3, <2>6
<1>8. Unfinished(f, t) /\ \A r \in ToSet(Records(d)) : r[1] # f
  BY <1>6, <1>7
<1>. QED
  BY <1>8 DEF b, d, t

LEMMA Alone ==
  ASSUME NEW S, NEW q \in Seq(S), Len(q) = 0, NEW e \in S
  PROVE  Len(Append(q, e)) = 1 /\ ToSet(Append(q, e)) = {e}
<1>1. ToSet(q) = {}
  <2>1. DOMAIN q = 1 .. 0
    BY LenProperties
  <2>2. DOMAIN q = {}
    BY <2>1
  <2>. QED
    BY <2>2 DEF ToSet
<1> DEFINE u == Append(q, e)
<1>2. /\ u \in Seq(S) /\ Len(u) = Len(q) + 1
      /\ ToSet(u) = ToSet(q) \cup {e}
      /\ Distinct(q) /\ e \notin ToSet(q) => Distinct(u)
  BY AppendSet
<1> HIDE DEF u
<1>3. Len(u) = 1 /\ ToSet(u) = {e}
  BY <1>1, <1>2
<1>. QED
  BY <1>3 DEF u

LEMMA TailOfOne ==
  ASSUME NEW S, NEW q \in Seq(S), q # <<>>, Len(q) <= 1
  PROVE  Tail(q) = <<>>
<1> DEFINE u == Tail(q)
<1>1. u \in Seq(S) /\ Len(u) = Len(q) - 1 /\ Len(q) > 0
  BY TailSet
<1> HIDE DEF u
<1>2. Len(u) = 0
  BY <1>1, LenProperties
<1>3. u = <<>>
  BY <1>1, <1>2, EmptySeq
<1>. QED
  BY <1>3 DEF u

(* A flight goes out, and nothing else was on its way.                     *)
LEMMA FlushFlight ==
  ASSUME Base, NEW s \in Sides, NEW f \in Flights, Len(net[Peer(s)]) = 0, NEW rest,
         Flush(s, rest, Bytes(<<f, 0>>)), len' = len, flight'[s] = f
  PROVE  net'[s] = rest /\ wbio'[Peer(s)] = wbio[Peer(s)] /\ Partly(s)'
<1> DEFINE p == Peer(s)
           e == <<f, 0>>
           b == Bytes(e)
           d == SubSeq(b, 1, Min({ReadSize, Len(b)}))
<1>0. /\ p \in Sides /\ len \in Lengths /\ e \in AllRecords /\ e[1] = f
      /\ wbio \in [Sides -> Seq(AllBytes)] /\ net \in [Sides -> Seq(Seq(AllBytes))]
  <2>1. e \in AllRecords /\ e[1] = f
    BY DEF AllRecords, Kinds
  <2>. QED
    BY <2>1, TwoSides DEF Base, SessionTypeOK
<1>1. (\A a : Bytes(a)' = Bytes(a)) /\ (\A a : Records(a)' = Records(a))
  BY DEF Bytes, Records
<1>2. CASE len[f] <= Room
  <2>1. /\ wbio'[s] = <<>> /\ wbio'[p] = wbio[p] /\ net'[s] = rest
        /\ net'[p] = Append(net[p], b)
    <3> HIDE DEF e
    <3>. QED
      BY <1>0, <1>2, FlushRecord DEF e
  <2>2. b \in Seq(AllBytes)
    BY <1>0, BytesOf
  <2> HIDE DEF b
  <2>3. Len(net'[p]) = 1 /\ ToSet(net'[p]) = {b}
    <3>1. net[p] \in Seq(Seq(AllBytes))
      BY <1>0
    <3>2. Len(Append(net[p], b)) = 1 /\ ToSet(Append(net[p], b)) = {b}
      BY <2>2, <3>1, Alone
    <3>. QED
      BY <2>1, <3>2
  <2>4. Len(net'[p]) <= 1 /\ \A a \in ToSet(net'[p]) : a = Bytes(<<f, 0>>)
    BY <2>3 DEF b
  <2>. QED
    BY <1>1, <1>2, <2>1, <2>4 DEF Partly
<1>3. CASE ~(len[f] <= Room)
  <2>1. /\ Unfinished(f, SubSeq(b, ReadSize + 1, Len(b)))
        /\ \A r \in ToSet(Records(d)) : r[1] # f
    BY <1>0, <1>3, CutFlight
  <2>2. b \in Seq(AllBytes) /\ b # <<>>
    BY <1>0, BytesOf
  <2>3. Flush(s, rest, b)
    OBVIOUS
  <2> HIDE DEF b
  <2>4. d \in Seq(AllBytes)
    BY <2>2, Cut
  <2>5. /\ wbio'[s] = SubSeq(b, ReadSize + 1, Len(b)) /\ wbio'[p] = wbio[p] /\ net'[s] = rest
        /\ net'[p] = Append(net[p], d)
    BY <2>2, <2>3, FlushStream
  <2> HIDE DEF d
  <2>6. ToSet(net'[p]) = {d}
    <3>1. net[p] \in Seq(Seq(AllBytes))
      BY <1>0
    <3>2. ToSet(Append(net[p], d)) = {d}
      BY <2>4, <3>1, Alone
    <3>. QED
      BY <2>5, <3>2
  <2>7. \A a \in ToSet(net'[p]) : \A r \in ToSet(Records(a)) : r[1] # f
    BY <2>1, <2>6
  <2>8. Unfinished(f, wbio'[s])
    BY <2>1, <2>5
  <2>. QED
    BY <1>1, <1>3, <2>5, <2>7, <2>8 DEF Partly
<1>. QED
  BY <1>2, <1>3

LEMMA HaltedBy ==
  ASSUME NEW s \in Sides, flight'["client"] # 0,
         flight'[s] \in Nat, flight'[Peer(s)] \in Nat, flight'[s] > flight'[Peer(s)],
         ~Fits' /\ Quiet' => Ahead(s)'
  PROVE  Halted'
<1>1. ASSUME NEW t \in Sides, flight'[t] > flight'[Peer(t)] PROVE t = s
  <2>1. t = s \/ (t = Peer(s) /\ Peer(t) = s)
    BY TwoSides
  <2>. QED
    BY <1>1, <2>1
<1>. QED
  BY <1>1, HaltedSides

LEMMA StartHalted ==
  ASSUME Base, Halted, NEW s \in Sides, Start(s)
  PROVE  Halted'
<1> DEFINE p == Peer(s)
<1>0. SessionTypeOK /\ TakeTurns /\ p \in Sides /\ p # s /\ Peer(p) = s
  BY TwoSides DEF Base
<1>1. /\ pc[s] = "start" /\ pc' = [pc EXCEPT ![s] = "wait"] /\ len' = len /\ copies' = copies
      /\ hit' = hit
  BY DEF Start, faultVars
<1>2. /\ pc'[s] = "wait" /\ pc'[p] = pc[p] /\ (Fits' <=> Fits) /\ (Quiet' <=> Quiet)
  BY <1>0, <1>1 DEF SessionTypeOK, Quiet, Resent, Fits
<1>3. CASE s = "server" /\ flight' = flight /\ wbio' = wbio /\ net' = net
  <2>1. \A t \in Sides : pc'[t] = pc[t] \/ (pc'[t] = "wait" /\ pc[t] = "start")
    BY <1>0, <1>1, <1>2 DEF SessionTypeOK
  <2>2. \A t \in Sides : Shaking(t)' <=> Shaking(t)
    BY <2>1 DEF Shaking
  <2>3. \A t \in Sides : Partly(t)' <=> Partly(t)
    <3>1. (\A a : Bytes(a)' = Bytes(a)) /\ (\A a : Records(a)' = Records(a))
      BY <1>1 DEF Bytes, Records
    <3>. QED
      BY <1>1, <1>3, <3>1 DEF Partly
  <2>4. \A t \in Sides : Ahead(t) => Ahead(t)'
    <3>1. \A t \in Sides : Peer(t) \in Sides
      BY TwoSides
    <3>. QED
      BY <1>1, <1>3, <2>1, <2>2, <2>3, <3>1 DEF Ahead
  <2>. QED
    BY <1>2, <1>3, <2>4, HaltedSides
<1>4. CASE /\ s = "client" /\ flight' = [flight EXCEPT ![s] = 1]
           /\ Flush(s, net[s], Bytes(<<1, 0>>))
  <2>1. /\ flight["client"] = 0 /\ flight[p] = 0 /\ flight'[s] = 1 /\ flight'[p] = 0
        /\ Shaking(p)
    BY <1>0, <1>1, <1>4, FirstTurn
  <2>2. ASSUME ~Fits', Quiet' PROVE Ahead(s)'
    <3>1. net[s] = <<>> /\ net[p] = <<>> /\ wbio[p] = <<>>
      BY <1>0, <1>2, <2>1, <2>2, HaltedSides
    <3>2. 1 \in Flights
      BY DEF Flights
    <3>3. Len(net[p]) = 0
      BY <3>1
    <3>4. net'[s] = net[s] /\ wbio'[p] = wbio[p] /\ Partly(s)'
      BY <1>1, <1>4, <2>1, <3>2, <3>3, FlushFlight
    <3>. QED
      BY <1>1, <1>2, <2>1, <3>1, <3>4 DEF Ahead, Shaking
  <2>. QED
    BY <1>4, <2>1, <2>2, HaltedBy
<1>. QED
  BY <1>3, <1>4 DEF Start

LEMMA AdvanceHalted ==
  ASSUME Base, Halted, NEW s \in Sides, pc[s] = "wait", net[s] # <<>>,
         Advance(s, Records(Head(net[s]))), UNCHANGED <<len, packetVars, faultVars>>
  PROVE  Halted'
<1> DEFINE q == Records(Head(net[s]))
           i == Awaited(s, q)
           f == q[i][1]
           p == Peer(s)
<1>0. /\ SessionTypeOK /\ TakeTurns /\ p \in Sides /\ p # s /\ Peer(p) = s
      /\ len' = len /\ hit' = hit
  BY TwoSides DEF Base, faultVars
<1>1. q \in Seq(Written(p)) /\ Head(net[s]) \in ToSet(net[s]) /\ len \in Lengths
  BY Arrives
<1>2. /\ i # 0 /\ pc' = [pc EXCEPT ![s] = IF Completes(f) THEN "data" ELSE @]
      /\ flight' = [flight EXCEPT ![s] = IF f = 4 THEN @ ELSE f + 1]
      /\ Flush(s, Tail(net[s]), wbio[s] \o Answer(f)) /\ copies' = copies
  BY DEF Advance
<1>3. \A r \in ToSet(q) : r \in ToSet(Records(Head(net[s])))
  OBVIOUS
<1> HIDE DEF q, i
<1>4. i \in 1 .. Len(q) /\ f = flight[s] + 1
  BY <1>1, <1>2, AwaitedCases DEF i
<1>5. q[i] \in Written(p) /\ q[i] \in ToSet(q)
  BY <1>1, <1>4, ElementOfSeq, InSet
<1>6. \/ s = "client" /\ flight["client"] = 1 /\ flight["server"] = 2 /\ f = 2
      \/ s = "client" /\ flight["client"] = 3 /\ flight["server"] = 4 /\ f = 4
      \/ s = "server" /\ flight["client"] = 1 /\ flight["server"] = 0 /\ f = 1
      \/ s = "server" /\ flight["client"] = 3 /\ flight["server"] = 2 /\ f = 3
  BY <1>4, <1>5, FoundCases
<1>7. (Fits' <=> Fits) /\ (Quiet' <=> Quiet)
  BY <1>0, <1>2 DEF Quiet, Resent, Fits
<1>8. SUFFICES ASSUME ~Fits, Quiet PROVE Halted'
  BY <1>7, HaltedSides
<1>9. Ahead(p) /\ flight[p] = f /\ flight[s] = f - 1 /\ f \in 1 .. 4
  <2>1. flight[p] = f /\ flight[p] > flight[Peer(p)] /\ flight[s] = f - 1 /\ f \in 1 .. 4
    <3> HIDE DEF f
    <3>1. CASE s = "client"
      BY <1>6, <3>1 DEF Peer
    <3>2. CASE s = "server"
      BY <1>6, <3>2 DEF Peer
    <3>. QED
      BY <3>1, <3>2 DEF Sides
  <2>2. \A t \in Sides : flight[t] > flight[Peer(t)] => Ahead(t)
    BY <1>8, HaltedSides
  <2> HIDE DEF f
  <2>. QED
    BY <1>0, <2>1, <2>2
<1>10. /\ wbio[s] = <<>> /\ net[p] = <<>> /\ \A g \in 1 .. f - 1 : len[g] <= Room
  BY <1>0, <1>9 DEF Ahead
<1>11. /\ len[f] <= Room /\ wbio[p] = <<>> /\ Len(net[s]) <= 1
  <2>1. \A d \in ToSet(net[s]) : (\E r \in ToSet(Records(d)) : r[1] = f) => len[f] <= Room
    BY <1>0, <1>9 DEF Ahead, Partly
  <2>2. len[f] <= Room
    BY <1>1, <1>3, <1>5, <2>1
  <2>. QED
    BY <1>0, <1>9, <2>2 DEF Ahead, Partly
<1> HIDE DEF f
<1>12. Tail(net[s]) = <<>>
  <2>1. net[s] \in Seq(Seq(WrittenBytes(p)))
    BY OneSide
  <2>. QED
    BY <1>11, <2>1, TailOfOne
<1>13. f # 4
  <2>1. SUFFICES ASSUME f = 4 PROVE Fits
    BY <1>8
  <2>2. \A g \in Flights : g = 4 \/ g \in 1 .. 3
    BY DEF Flights
  <2>. QED
    BY <1>10, <1>11, <2>1, <2>2 DEF Fits
<1>14. Flush(s, <<>>, Bytes(<<f + 1, 0>>)) /\ f + 1 \in Flights
  <2>1. f + 1 \in Flights /\ Answer(f) = Bytes(<<f + 1, 0>>)
    BY <1>9, <1>13 DEF Flights, Answer
  <2>2. <<f + 1, 0>> \in AllRecords
    BY <2>1 DEF AllRecords, Kinds
  <2>3. Bytes(<<f + 1, 0>>) \in Seq(AllBytes)
    BY <1>1, <2>2, BytesOf
  <2>4. wbio[s] \o Answer(f) = Bytes(<<f + 1, 0>>)
    BY <1>10, <2>1, <2>3, ConcatEmptySeq
  <2>. QED
    BY <1>2, <1>12, <2>1, <2>4
<1>15. /\ flight'[s] = f + 1 /\ flight'[p] = f /\ pc'[s] \in {"data", "wait"} /\ pc'[p] = pc[p]
  BY <1>0, <1>2, <1>9, <1>13 DEF SessionTypeOK
<1>16. Ahead(s)'
  <2>0. Len(net[p]) = 0
    BY <1>10
  <2>1. net'[s] = <<>> /\ wbio'[p] = <<>> /\ Partly(s)'
    BY <1>0, <1>11, <1>14, <1>15, <2>0, FlushFlight
  <2>2. Shaking(p)
    <3>1. CASE s = "client"
      BY <1>0, <1>6, <1>13, <3>1 DEF Peer, TakeTurns
    <3>2. CASE s = "server"
      BY <1>0, <1>6, <1>13, <3>2 DEF Peer, TakeTurns
    <3>. QED
      BY <3>1, <3>2 DEF Sides
  <2>3. \A g \in 1 .. f : len[g] <= Room
    <3>1. \A g \in 1 .. f : g = f \/ g \in 1 .. f - 1
      BY <1>9
    <3>. QED
      BY <1>10, <1>11, <3>1
  <2>. QED
    BY <1>0, <1>15, <2>1, <2>2, <2>3 DEF Ahead, Shaking
<1>17. flight'["client"] # 0 /\ flight'[s] \in Nat /\ flight'[p] \in Nat /\ flight'[s] > flight'[p]
  <2>1. flight'[s] # 0 /\ flight'[p] # 0 /\ ("client" = s \/ "client" = p)
    BY <1>9, <1>15 DEF Sides, Peer
  <2>. QED
    BY <1>9, <1>15, <2>1
<1>. QED
  BY <1>16, <1>17, HaltedBy

(* What is on its way may be lost.                                         *)
LEMMA PartlyKept ==
  ASSUME NEW s \in Sides, len' = len, flight'[s] = flight[s], wbio'[s] = wbio[s],
         ToSet(net'[Peer(s)]) \subseteq ToSet(net[Peer(s)]),
         Len(net[Peer(s)]) \in Nat, Len(net'[Peer(s)]) \in Nat,
         Len(net'[Peer(s)]) <= Len(net[Peer(s)]), Partly(s)
  PROVE  Partly(s)'
<1>1. (\A a : Bytes(a)' = Bytes(a)) /\ (\A a : Records(a)' = Records(a))
  BY DEF Bytes, Records
<1>2. CASE len[flight[s]] <= Room
  <2>1. /\ wbio[s] = <<>> /\ Len(net[Peer(s)]) <= 1
        /\ \A d \in ToSet(net[Peer(s)]) : d = Bytes(<<flight[s], 0>>)
    BY <1>2 DEF Partly
  <2>2. Len(net'[Peer(s)]) <= 1
    BY <2>1
  <2>. QED
    BY <1>1, <1>2, <2>1, <2>2 DEF Partly
<1>3. CASE ~(len[flight[s]] <= Room)
  BY <1>1, <1>3 DEF Partly
<1>. QED
  BY <1>2, <1>3

(* Who is out of the handshake if a flight does not fit.                   *)
LEMMA OutIsServer ==
  ASSUME Base, Halted, ~Fits, Quiet, NEW s \in Sides, ~Shaking(s)
  PROVE  /\ s = "server" /\ Peer(s) = "client" /\ Ahead(s)
         /\ flight[s] = 4 /\ flight[Peer(s)] = 3 /\ ~(len[4] <= Room)
<1>1. flight["client"] = 3 /\ flight["server"] = 4
  BY DEF Base, TakeTurns, Sides
<1>2. Peer("server") = "client" /\ "server" \in Sides
  BY DEF Peer, Sides
<1>3. Ahead("server")
  <2>1. flight["server"] > flight[Peer("server")]
    BY <1>1, <1>2
  <2>. QED
    BY <1>2, <2>1, HaltedSides
<1>4. s = "server"
  BY <1>2, <1>3 DEF Ahead, Sides
<1>5. \A g \in 1 .. 3 : len[g] <= Room
  BY <1>1, <1>2, <1>3 DEF Ahead
<1>6. ~(len[4] <= Room)
  <2>1. \A g \in Flights : g = 4 \/ g \in 1 .. 3
    BY DEF Flights
  <2>. QED
    BY <1>5, <2>1 DEF Fits
<1>. QED
  BY <1>1, <1>2, <1>3, <1>4, <1>6

LEMMA NoAdvanceHalted ==
  ASSUME Base, Halted, NEW s \in Sides, pc[s] = "wait", net[s] # <<>>,
         NoAdvance(s, Records(Head(net[s]))), UNCHANGED <<len, packetVars, faultVars>>
  PROVE  Halted'
<1> DEFINE p == Peer(s)
<1>0. /\ SessionTypeOK /\ p \in Sides /\ p # s /\ Peer(p) = s /\ len' = len /\ hit' = hit
  BY TwoSides DEF Base, faultVars
<1>1. /\ pc' = pc /\ flight' = flight
      /\ \/ Flush(s, Tail(net[s]), wbio[s]) /\ copies' = copies
         \/ copies' = [copies EXCEPT ![s] = @ + 1]
  BY DEF NoAdvance
<1>2. SUFFICES ASSUME ~Fits, Quiet' PROVE Halted'
  BY <1>0, HaltedSides DEF Fits
<1>3. Flush(s, Tail(net[s]), wbio[s]) /\ copies' = copies
  <2>1. ASSUME copies' = [copies EXCEPT ![s] = @ + 1] PROVE FALSE
    <3>1. copies[s] \in Nat /\ copies'[s] = copies[s] + 1
      BY <1>0, <2>1, OneSide DEF SessionTypeOK
    <3>2. copies'[s] > 0
      BY <3>1
    <3>. QED
      BY <1>2, <3>2 DEF Quiet, Resent
  <2>. QED
    BY <1>1, <2>1
<1>4. Quiet
  BY <1>0, <1>2, <1>3 DEF Quiet, Resent
<1>5. /\ flight["client"] # 0 /\ flight[p] > flight[s] /\ Ahead(p)
      /\ flight[p] \in Nat /\ flight[s] \in Nat
  <2>1. flight["client"] # 0
    BY <1>2, <1>4, HaltedSides
  <2>2. PICK t \in Sides : flight[t] > flight[Peer(t)]
    BY <2>1, WhoIsAhead
  <2>3. Ahead(t)
    BY <1>2, <1>4, <2>2, HaltedSides
  <2>4. t # s
    BY <2>3 DEF Ahead
  <2>5. t = p
    BY <2>4, TwoSides
  <2>. QED
    BY <1>0, <2>1, <2>2, <2>3, <2>5, WhoIsAhead
<1>6. wbio[s] = <<>> /\ net[p] = <<>>
  BY <1>0, <1>5 DEF Ahead
<1>7. wbio'[s] = <<>> /\ wbio'[p] = wbio[p] /\ net'[s] = Tail(net[s]) /\ net'[p] = net[p]
  <2>1. Flush(s, Tail(net[s]), <<>>)
    BY <1>3, <1>6
  <2>. QED
    BY <2>1, FlushNothing
<1>8. /\ ToSet(net'[s]) \subseteq ToSet(net[s]) /\ Len(net[s]) \in Nat /\ Len(net'[s]) \in Nat
      /\ Len(net'[s]) <= Len(net[s])
  <2> DEFINE u == Tail(net[s])
             w == net[s]
  <2>1. w \in Seq(Seq(WrittenBytes(p)))
    BY OneSide
  <2>2. u \in Seq(Seq(WrittenBytes(p))) /\ Len(u) = Len(w) - 1 /\ ToSet(u) \subseteq ToSet(w)
    BY <2>1, TailSet
  <2>3. net'[s] = u /\ w = net[s]
    BY <1>7
  <2> HIDE DEF u, w
  <2>4. Len(u) \in Nat /\ Len(w) \in Nat
    BY <2>1, <2>2, LenProperties
  <2>. QED
    BY <2>2, <2>3, <2>4
<1>9. Partly(p)'
  BY <1>0, <1>1, <1>5, <1>7, <1>8, PartlyKept DEF Ahead
<1>10. Ahead(p)'
  BY <1>0, <1>1, <1>5, <1>6, <1>7, <1>9 DEF Ahead, Shaking
<1>. QED
  BY <1>0, <1>1, <1>5, <1>10, HaltedBy

LEMMA EncryptHalted ==
  ASSUME Base, Halted, NEW s \in Sides, Encrypt(s)
  PROVE  Halted'
<1> DEFINE p == Peer(s)
           e == <<App, sent[s] + 1>>
           w == wbio[s]
           b == Bytes(e)
           q == w \o b
           d == SubSeq(q, 1, Min({ReadSize, Len(q)}))
<1>0. SessionTypeOK /\ p \in Sides /\ p # s /\ Peer(p) = s /\ len \in Lengths
  BY TwoSides DEF Base, SessionTypeOK
<1>1. /\ pc[s] = "data" /\ Flush(s, net[s], q) /\ len' = len /\ pc' = pc
      /\ flight' = flight /\ copies' = copies /\ hit' = hit
  BY DEF Encrypt, faultVars
<1>2. (Fits' <=> Fits) /\ (Quiet' <=> Quiet)
  BY <1>1 DEF Fits, Quiet, Resent
<1>3. SUFFICES ASSUME ~Fits, Quiet PROVE Halted'
  BY <1>2, HaltedSides
<1>4. /\ s = "server" /\ p = "client" /\ Ahead(s)
      /\ flight[s] = 4 /\ flight[p] = 3 /\ ~(len[4] <= Room)
  BY <1>1, <1>3, OutIsServer DEF Shaking
<1>5. /\ Unfinished(4, w) /\ net[s] = <<>> /\ wbio[p] = <<>>
      /\ \A a \in ToSet(net[p]) : \A r \in ToSet(Records(a)) : r[1] # 4
  BY <1>4 DEF Ahead, Partly
<1>6. e \in AllRecords /\ e[1] = 0
  <2>1. sent[s] \in Nat
    BY OneSide
  <2>. QED
    BY <2>1 DEF AllRecords, Kinds, App
<1> HIDE DEF e
<1>7. /\ w \in Seq(AllBytes) /\ b \in Seq(AllBytes) /\ b # <<>>
      /\ \A k \in 1 .. Len(b) : b[k][1] = 0
  <2>1. w \in Seq(AllBytes)
    BY <1>0 DEF SessionTypeOK
  <2>2. /\ b \in Seq(AllBytes) /\ Len(b) = len[e[1]] /\ b # <<>>
        /\ \A k \in 1 .. len[e[1]] : b[k] = <<e[1], e[2], k>>
    BY <1>0, <1>6, BytesOf
  <2>. QED
    BY <1>6, <2>1, <2>2
<1> HIDE DEF w, b
<1>8. /\ Len(w) \in Nat /\ Len(b) \in Nat /\ Len(b) > 0 /\ DOMAIN w = 1 .. Len(w)
      /\ q \in Seq(AllBytes) /\ Len(q) = Len(w) + Len(b) /\ DOMAIN q = 1 .. Len(w) + Len(b)
      /\ \A k \in 1 .. Len(w) + Len(b) :
           q[k] = IF k <= Len(w) THEN w[k] ELSE b[k - Len(w)]
  <2>1. Len(w) \in Nat /\ Len(b) \in Nat /\ Len(b) > 0 /\ DOMAIN w = 1 .. Len(w)
    BY <1>7, InSet, EmptySeq
  <2>2. /\ q \in Seq(AllBytes) /\ Len(q) = Len(w) + Len(b)
        /\ \A k \in 1 .. Len(w) + Len(b) :
             q[k] = IF k <= Len(w) THEN w[k] ELSE b[k - Len(w)]
    BY <1>7, ConcatProperties
  <2> HIDE DEF q
  <2>3. DOMAIN q = 1 .. Len(q)
    BY <2>2, InSet
  <2>. QED
    BY <2>1, <2>2, <2>3
<1> HIDE DEF q
<1>9. Unfinished(4, q) /\ q # <<>>
  <2>1. ASSUME NEW k \in 1 .. Len(w) + Len(b), q[k][1] = 4, NEW j \in 1 .. k
        PROVE  q[j][1] = 4 /\ q[j][3] > 1
    <3>1. k <= Len(w)
      <4>1. SUFFICES ASSUME ~(k <= Len(w)) PROVE FALSE
        OBVIOUS
      <4>2. k - Len(w) \in 1 .. Len(b) /\ q[k] = b[k - Len(w)]
        BY <1>8, <4>1
      <4>3. b[k - Len(w)][1] = 0
        BY <1>7, <4>2
      <4>. QED
        BY <2>1, <4>2, <4>3
    <3>2. k \in 1 .. Len(w) /\ j \in 1 .. Len(w) /\ q[k] = w[k] /\ q[j] = w[j]
      BY <1>8, <3>1
    <3>3. w[k][1] = 4
      BY <2>1, <3>2
    <3>. QED
      BY <1>5, <1>8, <3>2, <3>3 DEF Unfinished
  <2>2. q # <<>>
    BY <1>8
  <2>. QED
    BY <1>8, <2>1, <2>2 DEF Unfinished
<1>10. /\ wbio'[s] = SubSeq(q, ReadSize + 1, Len(q)) /\ wbio'[p] = wbio[p] /\ net'[s] = net[s]
       /\ net'[p] = Append(net[p], d)
  BY <1>1, <1>9, FlushStream
<1>11. /\ Unfinished(4, SubSeq(q, ReadSize + 1, Len(q)))
       /\ \A r \in ToSet(Records(d)) : r[1] # 4
  BY <1>0, <1>8, <1>9, CutUnfinished
<1>12. d \in Seq(AllBytes)
  BY <1>8, Cut
<1> HIDE DEF d
<1>13. ToSet(net'[p]) = ToSet(net[p]) \cup {d}
  <2>1. net[p] \in Seq(Seq(AllBytes))
    BY <1>0 DEF SessionTypeOK
  <2>. QED
    BY <1>10, <1>12, <2>1, AppendSet
<1>14. Partly(s)'
  <2>1. \A a : Records(a)' = Records(a)
    BY <1>1 DEF Records
  <2>2. \A a \in ToSet(net'[p]) : \A r \in ToSet(Records(a)) : r[1] # 4
    BY <1>5, <1>11, <1>13
  <2>. QED
    BY <1>1, <1>4, <1>10, <1>11, <2>1, <2>2 DEF Partly
<1>15. Ahead(s)'
  BY <1>1, <1>4, <1>5, <1>10, <1>14 DEF Ahead, Shaking
<1>. QED
  BY <1>1, <1>4, <1>15, HaltedBy

LEMMA DecryptHalted ==
  ASSUME Base, Halted, NEW s \in Sides, Decrypt(s)
  PROVE  Halted'
<1>1. /\ pc[s] = "data" /\ net[s] # <<>> /\ len' = len /\ hit' = hit
  BY DEF Decrypt, faultVars
<1>2. copies' = copies \/ copies' = [copies EXCEPT ![s] = @ + 1]
  BY DEF Decrypt
<1>3. Quiet' => Quiet
  <2>1. CASE copies' = copies
    BY <1>1, <2>1 DEF Quiet, Resent
  <2>2. CASE copies' = [copies EXCEPT ![s] = @ + 1]
    <3>1. copies[s] \in Nat /\ copies'[s] = copies[s] + 1
      BY <2>2, OneSide DEF Base, SessionTypeOK
    <3>2. copies'[s] > 0
      BY <3>1
    <3>. QED
      BY <3>2 DEF Quiet, Resent
  <2>. QED
    BY <1>2, <2>1, <2>2
<1>4. SUFFICES ASSUME ~Fits, Quiet PROVE FALSE
  BY <1>1, <1>3, HaltedSides DEF Fits
<1>. QED
  BY <1>1, <1>4, OutIsServer DEF Ahead, Shaking

LEMMA FaultHalted ==
  ASSUME Base, Halted, NEW s \in Sides, NEW f, NEW q \in Seq(Seq(WrittenBytes(Peer(s)))),
         Fault(f, s, q), ToSet(q) \subseteq ToSet(net[s]),
         f # "duplicate" => Len(q) <= Len(net[s])
  PROVE  Halted'
<1>0. \A t \in Sides : Peer(t) \in Sides /\ Len(net[t]) \in Nat
  <2>1. \A t \in Sides : net[t] \in Seq(Seq(WrittenBytes(Peer(t))))
    BY OneSide
  <2>. QED
    BY <2>1, TwoSides, LenProperties
<1>1. /\ net' = [net EXCEPT ![s] = q] /\ hit' = hit \cup {f}
      /\ len' = len /\ pc' = pc /\ flight' = flight /\ copies' = copies /\ wbio' = wbio
  BY DEF Fault, sslVars
<1>2. SUFFICES ASSUME ~Fits, Quiet' PROVE Halted'
  BY <1>1, HaltedSides DEF Fits
<1>3. Quiet /\ f # "duplicate"
  BY <1>1, <1>2 DEF Quiet, Resent
<1>4. \A t \in Sides : /\ ToSet(net'[t]) \subseteq ToSet(net[t])
                       /\ Len(net'[t]) \in Nat /\ Len(net'[t]) <= Len(net[t])
  <2>1. /\ net'[s] = q /\ \A t \in Sides : t # s => net'[t] = net[t]
    BY <1>1 DEF Base, SessionTypeOK
  <2>2. Len(q) \in Nat
    BY LenProperties
  <2>. QED
    BY <1>0, <1>3, <2>1, <2>2
<1>5. \A t \in Sides : net[t] = <<>> => net'[t] = <<>>
  <2>1. SUFFICES ASSUME NEW t \in Sides, net[t] = <<>> PROVE net'[t] = <<>>
    OBVIOUS
  <2>2. CASE t # s
    BY <1>1, <2>1, <2>2 DEF Base, SessionTypeOK
  <2>3. CASE t = s
    <3>1. net'[s] = q
      BY <1>1 DEF Base, SessionTypeOK
    <3>2. Len(net[s]) = 0
      BY <2>1, <2>3
    <3>3. Len(q) \in Nat /\ Len(q) <= Len(net[s])
      BY <1>3, LenProperties
    <3>4. Len(q) = 0
      BY <3>2, <3>3
    <3>5. q = <<>>
      BY <3>4, EmptySeq
    <3>. QED
      BY <2>3, <3>1, <3>5
  <2>. QED
    BY <2>2, <2>3
<1>6. \A t \in Sides : Partly(t) => Partly(t)'
  BY <1>0, <1>1, <1>4, PartlyKept
<1>7. \A t \in Sides : Ahead(t) => Ahead(t)'
  BY <1>0, <1>1, <1>5, <1>6 DEF Ahead, Shaking
<1>. QED
  BY <1>1, <1>2, <1>3, <1>5, <1>7, HaltedSides

LEMMA HaltedInit ==
  Init => Halted
<1> SUFFICES ASSUME Init PROVE Halted
  OBVIOUS
<1>1. \A s \in Sides : net[s] = <<>> /\ wbio[s] = <<>> /\ flight[s] = 0
  BY DEF Init
<1>2. \A s \in Sides : ~(flight[s] > flight[Peer(s)])
  BY <1>1, TwoSides
<1>. QED
  BY <1>1, <1>2, HaltedSides

LEMMA HaltedNext ==
  Base /\ Halted /\ [Next]_vars => Halted'
<1> SUFFICES ASSUME Base, Halted, [Next]_vars PROVE Halted'
  OBVIOUS
<1>1. CASE Next
  <2>1. PICK s \in Sides :
           \/ Start(s)
           \/ Shaken(s) /\ Advance(s, Records(Head(net[s])))
           \/ Shaken(s) /\ NoAdvance(s, Records(Head(net[s])))
           \/ Encrypt(s) \/ Decrypt(s)
           \/ Lose(s) \/ Duplicate(s) \/ Overtake(s)
    BY <1>1, NextCases
  <2>2. CASE Start(s)
    BY <2>2, StartHalted
  <2>3. CASE Shaken(s) /\ Advance(s, Records(Head(net[s])))
    BY <2>3, AdvanceHalted DEF Shaken
  <2>4. CASE Shaken(s) /\ NoAdvance(s, Records(Head(net[s])))
    BY <2>4, NoAdvanceHalted DEF Shaken
  <2>5. CASE Encrypt(s)
    BY <2>5, EncryptHalted
  <2>6. CASE Decrypt(s)
    BY <2>6, DecryptHalted
  <2>7. CASE Lose(s) \/ Duplicate(s) \/ Overtake(s)
    BY <2>7, FaultCases, FaultHalted
  <2>. QED
    BY <2>1, <2>2, <2>3, <2>4, <2>5, <2>6, <2>7
<1>2. CASE UNCHANGED vars
  <2>1. /\ len' = len /\ pc' = pc /\ flight' = flight /\ copies' = copies /\ wbio' = wbio
        /\ net' = net /\ hit' = hit
    BY <1>2 DEF vars, sslVars, packetVars, faultVars
  <2>2. \A t : (Shaking(t)' <=> Shaking(t)) /\ Bytes(t)' = Bytes(t) /\ Records(t)' = Records(t)
    BY <2>1 DEF Shaking, Bytes, Records
  <2>3. (Fits' <=> Fits) /\ (Quiet' <=> Quiet)
    BY <2>1 DEF Fits, Quiet, Resent
  <2>4. \A s \in Sides : Ahead(s) => Ahead(s)'
    BY <2>1, <2>2 DEF Ahead, Partly
  <2>. QED
    BY <2>1, <2>3, <2>4, HaltedSides
<1>. QED
  BY <1>1, <1>2

-----------------------------------------------------------------------------
(***************************************************************************)
(* The theorems                                                            *)
(***************************************************************************)

(* The inductive invariant: see its parts in Session.                      *)
THEOREM SessionInvariance == Spec => []SessionInv
<1>1. SessionInv <=> Base /\ Ordered /\ Halted
  BY DEF SessionInv, Base, Ordered
<1>2. Init => Base /\ Ordered /\ Halted
  BY BaseInit, OrderedInit, HaltedInit
<1>3. Base /\ Ordered /\ Halted /\ [Next]_vars => (Base /\ Ordered /\ Halted)'
  BY BaseNext, OrderedNext, HaltedNext
<1>. QED
  BY <1>1, <1>2, <1>3, PTL DEF Spec

(* As long as flights fit into a ring buffer, one BIO_read takes all that  *)
(* SSL has written and one SSL_read all that has come, whatever the        *)
(* network does: that connection.c asks neither again loses nothing.       *)
THEOREM NothingLeftBehind == Spec => []Emptied
<1>1. SessionInv => Emptied
  BY DEF SessionInv
<1>. QED
  BY <1>1, SessionInvariance, PTL

(* A program only ends by itself after a datagram came twice or a timer    *)
(* ran out: neither loss nor reordering make dtls_decrypt_packet fail,     *)
(* whether or not flights fit.                                             *)
THEOREM EndsForAReason == Spec => []EndsOnlyIf
<1>1. SessionInv => EndsOnlyIf
  <2>1. SUFFICES ASSUME Base, Ordered, Halted, Quiet, NEW s \in Sides, pc[s] = "ended"
                 PROVE  FALSE
    BY DEF SessionInv, Base, Ordered, EndsOnlyIf, Quiet
  <2>2. CASE Fits
    BY <2>1, <2>2 DEF Ordered, New
  <2>3. CASE ~Fits
    BY <2>1, <2>3, OutIsServer DEF Ahead, Shaking
  <2>. QED
    BY <2>2, <2>3
<1>. QED
  BY <1>1, SessionInvariance, PTL

(* Two programs that wait for one another with nothing on its way have     *)
(* lost a flight, or one did not fit.                                      *)
THEOREM StuckForAReason == Spec => []StuckOnlyByLoss
<1>1. SessionInv => StuckOnlyByLoss
  <2>1. SUFFICES ASSUME Base, Ordered, Fits, "lose" \notin hit,
                        \A s \in Sides : pc[s] = "wait" /\ net[s] = <<>>
                 PROVE  FALSE
    BY DEF SessionInv, Base, Ordered, StuckOnlyByLoss
  <2>2. /\ "client" \in Sides /\ "server" \in Sides
        /\ Peer("client") = "server" /\ Peer("server") = "client"
    BY DEF Sides, Peer
  <2>3. Shaking("client") /\ Shaking("server") /\ pc["client"] # "start"
    BY <2>1, <2>2 DEF Shaking
  <2>4. \/ flight["client"] = 1 /\ flight["server"] = 0
        \/ flight["client"] = 1 /\ flight["server"] = 2
        \/ flight["client"] = 3 /\ flight["server"] = 2
    BY <2>1, <2>3 DEF Base, TakeTurns
  <2>5. \E s \in Sides : flight[Peer(s)] = flight[s] + 1 /\ Shaking(s)
    BY <2>2, <2>3, <2>4
  <2>6. \A s \in Sides : ToSet(net[s]) = {}
    BY <2>1 DEF ToSet
  <2>. QED
    BY <2>1, <2>5, <2>6 DEF Ordered, OnItsWay
<1>. QED
  BY <1>1, SessionInvariance, PTL
=============================================================================
