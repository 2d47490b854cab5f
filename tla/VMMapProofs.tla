----------------------------- MODULE VMMapProofs -----------------------------
(***************************************************************************)
(* The safety properties of the address space, and that it implements      *)
(* PageMap, proved for any number of areas and pages.                      *)
(***************************************************************************)
EXTENDS VMMap, SequenceTheorems, WellFoundedInduction, TLAPS

-----------------------------------------------------------------------------
(* The list operations, pointwise                                          *)

In(map, a) == \E i \in 1 .. Len(map) : map[i] = a

(* A set of naturals that is not empty has a least member.                 *)
LEMMA LeastOne ==
    ASSUME NEW T \in SUBSET Nat, T # {}
    PROVE  \E m \in T : \A k \in T : m <= k
<1>1. PICK m \in T : \A k \in T : ~(<<k, m>> \in OpToRel(<, Nat))
  BY NatLessThanWellFounded, WFMin
<1>2. \A k \in T : ~(k < m)
  BY <1>1 DEF OpToRel
<1> QED BY <1>2

(* So has one that is bounded a greatest.                                  *)
LEMMA GreatestOne ==
    ASSUME NEW n \in Nat, NEW T \in SUBSET (1 .. n), T # {}
    PROVE  Greatest(T) \in T /\ \A k \in T : Greatest(T) >= k
<1> DEFINE U == {j \in Nat : n - j \in T}
<1>1. U \in SUBSET Nat /\ U # {}
  <2>1. PICK k \in T : TRUE
    OBVIOUS
  <2>2. n - k \in Nat /\ n - (n - k) = k
    OBVIOUS
  <2> QED BY <2>2
<1>2. PICK m \in U : \A k \in U : m <= k
  <2> HIDE DEF U
  <2> QED BY <1>1, LeastOne
<1>3. PICK g \in T : g = n - m
  BY <1>2
<1>4. \A k \in T : g >= k
  <2> TAKE k \in T
  <2>1. n - k \in Nat /\ n - (n - k) = k
    OBVIOUS
  <2>2. m <= n - k
    BY <1>2, <2>1
  <2> QED BY <1>2, <1>3, <2>2
<1> QED BY <1>3, <1>4 DEF Greatest

LEMMA FoundInSeq ==
    ASSUME NEW S, NEW map \in Seq(S), NEW a, In(map, a)
    PROVE  /\ SelectInSeq(map, LAMBDA x : x = a) \in 1 .. Len(map)
           /\ map[SelectInSeq(map, LAMBDA x : x = a)] = a
<1> DEFINE I == {i \in 1 .. Len(map) : map[i] = a}
<1>1. SelectInSeq(map, LAMBDA x : x = a) = IF I # {} THEN Min(I) ELSE 0
  BY DEF SelectInSeq
<1>2. I # {} /\ I \in SUBSET Nat /\ I \subseteq 1 .. Len(map) /\ \A i \in I : map[i] = a
  BY DEF In
<1> HIDE DEF I
<1>3. \E m \in I : \A k \in I : m <= k
  BY <1>2, LeastOne
<1>4. Min(I) \in I
  BY <1>3 DEF Min
<1> QED BY <1>1, <1>2, <1>4

LEMMA InsertedAt ==
    ASSUME NEW S, NEW map \in Seq(S), NEW k \in 1 .. Len(map) + 1, NEW a \in S
    PROVE  /\ InsertAt(map, k, a) \in Seq(S)
           /\ Len(InsertAt(map, k, a)) = Len(map) + 1
           /\ \A j \in 1 .. Len(map) + 1 :
                 InsertAt(map, k, a)[j] = IF j < k THEN map[j] ELSE IF j = k THEN a ELSE map[j - 1]
<1> DEFINE n == Len(map)
           s == SubSeq(map, 1, k - 1)
           t == SubSeq(map, k, n)
           u == s \o <<a>>
<1>1. n \in Nat /\ \A i \in 1 .. n : map[i] \in S
  BY LenProperties, ElementOfSeq
<1>2. /\ s \in Seq(S) /\ Len(s) = k - 1
      /\ \A i \in 1 .. k - 1 : s[i] = map[i]
  <2>1. k - 1 \in Int /\ 1 \in Int /\ \A i \in 1 .. k - 1 : map[i] \in S
    BY <1>1
  <2>2. /\ s \in Seq(S) /\ Len(s) = IF 1 <= k - 1 THEN (k - 1) - 1 + 1 ELSE 0
        /\ \A i \in 1 .. (k - 1) - 1 + 1 : s[i] = map[1 + i - 1]
    BY <2>1, SubSeqProperties
  <2> QED BY <1>1, <2>2
<1>3. /\ t \in Seq(S) /\ Len(t) = n - k + 1
      /\ \A i \in 1 .. n - k + 1 : t[i] = map[k + i - 1]
  <2>1. k \in Int /\ n \in Int /\ \A i \in k .. n : map[i] \in S
    BY <1>1
  <2>2. /\ t \in Seq(S) /\ Len(t) = IF k <= n THEN n - k + 1 ELSE 0
        /\ \A i \in 1 .. n - k + 1 : t[i] = map[k + i - 1]
    BY <2>1, SubSeqProperties
  <2> QED BY <1>1, <2>2
<1>4. <<a>> \in Seq(S) /\ Len(<<a>>) = 1 /\ <<a>>[1] = a
  OBVIOUS
<1>0. n = Len(map)
  OBVIOUS
<1> HIDE DEF s, t, n
<1>5. /\ u \in Seq(S) /\ Len(u) = k
      /\ \A i \in 1 .. k : u[i] = IF i < k THEN map[i] ELSE a
  <2>1. /\ u \in Seq(S) /\ Len(u) = Len(s) + 1
        /\ \A i \in 1 .. Len(s) + 1 : u[i] = IF i <= Len(s) THEN s[i] ELSE <<a>>[i - Len(s)]
    BY <1>2, <1>4, ConcatProperties
  <2> QED BY <1>1, <1>2, <1>4, <2>1 DEF n
<1> HIDE DEF u
<1>6. /\ u \o t \in Seq(S) /\ Len(u \o t) = Len(u) + Len(t)
      /\ \A i \in 1 .. Len(u) + Len(t) : (u \o t)[i] = IF i <= Len(u) THEN u[i] ELSE t[i - Len(u)]
  BY <1>3, <1>5, ConcatProperties
<1>7. InsertAt(map, k, a) = u \o t
  BY <1>0 DEF InsertAt, u, s, t
<1>8. Len(u) + Len(t) = n + 1
  BY <1>1, <1>3, <1>5
<1>9. ASSUME NEW j \in 1 .. n + 1
      PROVE  (u \o t)[j] = IF j < k THEN map[j] ELSE IF j = k THEN a ELSE map[j - 1]
  <2>1. CASE j <= k
    BY <1>1, <1>5, <1>6, <1>8, <2>1
  <2>2. CASE j > k
    <3>1. (u \o t)[j] = t[j - k] /\ j - k \in 1 .. n - k + 1
      BY <1>1, <1>5, <1>6, <1>8, <2>2
    <3>2. t[j - k] = map[k + (j - k) - 1] /\ k + (j - k) - 1 = j - 1
      BY <1>1, <1>3, <3>1
    <3> QED BY <1>1, <2>2, <3>1, <3>2
  <2>3. j <= k \/ j > k
    BY <1>0, <1>1
  <2> QED BY <2>1, <2>2, <2>3
<1>11. \A j \in 1 .. n + 1 :
          InsertAt(map, k, a)[j] = IF j < k THEN map[j] ELSE IF j = k THEN a ELSE map[j - 1]
  BY <1>7, <1>9
<1>12. InsertAt(map, k, a) \in Seq(S) /\ Len(InsertAt(map, k, a)) = n + 1
  BY <1>6, <1>7, <1>8
<1> QED BY <1>0, <1>11, <1>12

LEMMA RemovedAt ==
    ASSUME NEW S, NEW map \in Seq(S), NEW k \in 1 .. Len(map)
    PROVE  /\ RemoveAt(map, k) \in Seq(S)
           /\ Len(RemoveAt(map, k)) = Len(map) - 1
           /\ \A j \in 1 .. Len(map) - 1 : RemoveAt(map, k)[j] = map[IF j < k THEN j ELSE j + 1]
<1> DEFINE n == Len(map)
           s == SubSeq(map, 1, k - 1)
           t == SubSeq(map, k + 1, n)
<1>1. n \in Nat /\ \A i \in 1 .. n : map[i] \in S
  BY LenProperties, ElementOfSeq
<1>2. /\ s \in Seq(S) /\ Len(s) = k - 1
      /\ \A i \in 1 .. k - 1 : s[i] = map[i]
  <2>1. k - 1 \in Int /\ 1 \in Int /\ \A i \in 1 .. k - 1 : map[i] \in S
    BY <1>1
  <2>2. /\ s \in Seq(S) /\ Len(s) = IF 1 <= k - 1 THEN (k - 1) - 1 + 1 ELSE 0
        /\ \A i \in 1 .. (k - 1) - 1 + 1 : s[i] = map[1 + i - 1]
    BY <2>1, SubSeqProperties
  <2> QED BY <1>1, <2>2
<1>3. /\ t \in Seq(S) /\ Len(t) = n - k
      /\ \A i \in 1 .. n - k : t[i] = map[k + i]
  <2>1. k + 1 \in Int /\ n \in Int /\ \A i \in k + 1 .. n : map[i] \in S
    BY <1>1
  <2>2. /\ t \in Seq(S) /\ Len(t) = IF k + 1 <= n THEN n - (k + 1) + 1 ELSE 0
        /\ \A i \in 1 .. n - (k + 1) + 1 : t[i] = map[(k + 1) + i - 1]
    BY <2>1, SubSeqProperties
  <2> QED BY <1>1, <2>2
<1>0. n = Len(map)
  OBVIOUS
<1> HIDE DEF s, t, n
<1>4. /\ s \o t \in Seq(S) /\ Len(s \o t) = Len(s) + Len(t)
      /\ \A i \in 1 .. Len(s) + Len(t) : (s \o t)[i] = IF i <= Len(s) THEN s[i] ELSE t[i - Len(s)]
  BY <1>2, <1>3, ConcatProperties
<1>5. RemoveAt(map, k) = s \o t
  BY <1>0 DEF RemoveAt, s, t
<1>6. Len(s) + Len(t) = n - 1
  BY <1>1, <1>2, <1>3
<1>7. ASSUME NEW j \in 1 .. n - 1 PROVE (s \o t)[j] = map[IF j < k THEN j ELSE j + 1]
  <2>1. CASE j < k
    BY <1>1, <1>2, <1>4, <1>6, <2>1
  <2>2. CASE j >= k
    <3>1. (s \o t)[j] = t[j - (k - 1)] /\ j - (k - 1) \in 1 .. n - k
      BY <1>1, <1>2, <1>4, <1>6, <2>2
    <3>2. t[j - (k - 1)] = map[k + (j - (k - 1))] /\ k + (j - (k - 1)) = j + 1
      BY <1>1, <1>3, <3>1
    <3> QED BY <1>1, <2>2, <3>1, <3>2
  <2>3. j < k \/ j >= k
    BY <1>0, <1>1
  <2> QED BY <2>1, <2>2, <2>3
<1>9. \A j \in 1 .. n - 1 : RemoveAt(map, k)[j] = map[IF j < k THEN j ELSE j + 1]
  BY <1>5, <1>7
<1>10. RemoveAt(map, k) \in Seq(S) /\ Len(RemoveAt(map, k)) = n - 1
  BY <1>4, <1>5, <1>6
<1> QED BY <1>0, <1>9, <1>10
-----------------------------------------------------------------------------
(* Areas in lists                                                          *)

(* What AreasDisjoint says of the map of st.                               *)
Disjoint(map) == \A i, j \in 1 .. Len(map), p \in LOW .. HIGH :
    Covers(map[i], p) /\ Covers(map[j], p) => i = j

(* Area a covers no page that an area of map covers.                       *)
Apart(map, a) == \A x : \A p \in LOW .. HIGH : In(map, x) /\ Covers(x, p) => ~Covers(a, p)

LEMMA InsertedSomewhere ==
    ASSUME NEW map \in Seq(Areas), NEW a \in Areas
    PROVE  /\ Inserted(map, a) \in Seq(Areas)
           /\ Len(Inserted(map, a)) = Len(map) + 1
           /\ \E k \in 1 .. Len(map) + 1 : \A j \in 1 .. Len(map) + 1 :
                 Inserted(map, a)[j] = IF j < k THEN map[j] ELSE IF j = k THEN a ELSE map[j - 1]
<1> DEFINE below == {i \in 1 .. Len(map) : a.start > map[i].start}
<1>1. Len(map) \in Nat
  BY LenProperties
<1>2. CASE below = {}
  <2>1. Inserted(map, a) = <<a>> \o map
    BY <1>2 DEF Inserted
  <2>2. <<a>> \in Seq(Areas) /\ Len(<<a>>) = 1 /\ <<a>>[1] = a
    OBVIOUS
  <2> DEFINE h == <<a>>
  <2>3. h \in Seq(Areas) /\ Len(h) = 1 /\ h[1] = a
    BY <2>2
  <2> HIDE DEF h
  <2>4. /\ h \o map \in Seq(Areas) /\ Len(h \o map) = Len(h) + Len(map)
        /\ \A i \in 1 .. Len(h) + Len(map) :
              (h \o map)[i] = IF i <= Len(h) THEN h[i] ELSE map[i - Len(h)]
    BY <2>3, ConcatProperties
  <2>5. Inserted(map, a) = h \o map
    BY <2>1 DEF h
  <2>6. \A j \in 1 .. Len(map) + 1 :
           Inserted(map, a)[j] = IF j < 1 THEN map[j] ELSE IF j = 1 THEN a ELSE map[j - 1]
    BY <1>1, <2>3, <2>4, <2>5
  <2>7. 1 \in 1 .. Len(map) + 1
    BY <1>1
  <2>8. Inserted(map, a) \in Seq(Areas) /\ Len(Inserted(map, a)) = Len(map) + 1
    BY <1>1, <2>3, <2>4, <2>5
  <2> QED BY <2>6, <2>7, <2>8
<1>3. CASE below # {}
  <2>1. Inserted(map, a) = InsertAt(map, Least(below) + 1, a)
    BY <1>3 DEF Inserted
  <2>2. below \in SUBSET Nat /\ below \subseteq 1 .. Len(map)
    BY <1>1
  <2> HIDE DEF below
  <2>3. Least(below) \in below
    BY <1>3, <2>2, LeastOne DEF Least
  <2> DEFINE k == Least(below)
  <2>4. k \in 1 .. Len(map)
    BY <2>2, <2>3
  <2>5. Inserted(map, a) = InsertAt(map, k + 1, a)
    BY <2>1
  <2> HIDE DEF k
  <2>6. k + 1 \in 1 .. Len(map) + 1
    BY <1>1, <2>4
  <2> DEFINE l == k + 1
             new == InsertAt(map, l, a)
  <2>7. l \in 1 .. Len(map) + 1 /\ Inserted(map, a) = new
    BY <2>5, <2>6
  <2> HIDE DEF l
  <2>8. /\ new \in Seq(Areas) /\ Len(new) = Len(map) + 1
        /\ \A j \in 1 .. Len(map) + 1 :
              new[j] = IF j < l THEN map[j] ELSE IF j = l THEN a ELSE map[j - 1]
    BY <2>7, InsertedAt, SMTT(30)
  <2> HIDE DEF new
  <2> QED BY <2>7, <2>8
<1> QED BY <1>2, <1>3

LEMMA InsertedIn ==
    ASSUME NEW map \in Seq(Areas), NEW a \in Areas
    PROVE  /\ Inserted(map, a) \in Seq(Areas)
           /\ \A x : In(Inserted(map, a), x) <=> x = a \/ In(map, x)
           /\ Disjoint(map) /\ Apart(map, a) => Disjoint(Inserted(map, a))
<1> DEFINE n == Len(map)
           new == Inserted(map, a)
<1>1. n \in Nat /\ new \in Seq(Areas) /\ Len(new) = n + 1
  BY LenProperties, InsertedSomewhere
<1>2. PICK k \in 1 .. n + 1 : \A j \in 1 .. n + 1 :
         new[j] = IF j < k THEN map[j] ELSE IF j = k THEN a ELSE map[j - 1]
  BY InsertedSomewhere
<1>0. n = Len(map) /\ new = Inserted(map, a)
  OBVIOUS
<1> HIDE DEF n, new
<1>3. ASSUME NEW x, In(new, x) PROVE x = a \/ In(map, x)
  <2>1. PICK j \in 1 .. n + 1 : new[j] = x
    BY <1>1, <1>3 DEF In
  <2>2. CASE j < k
    BY <1>0, <1>1, <1>2, <2>1, <2>2 DEF In
  <2>3. CASE j > k
    <3>1. j - 1 \in 1 .. n /\ map[j - 1] = x
      BY <1>1, <1>2, <2>1, <2>3
    <3> QED BY <1>0, <3>1 DEF In
  <2>4. CASE j = k
    BY <1>1, <1>2, <2>1, <2>4
  <2> QED BY <1>1, <2>2, <2>3, <2>4
<1>4. In(new, a)
  <2>1. k \in 1 .. Len(new) /\ new[k] = a
    BY <1>1, <1>2
  <2> QED BY <2>1 DEF In
<1>5. ASSUME NEW x, In(map, x) PROVE In(new, x)
  <2>1. PICK j \in 1 .. n : map[j] = x
    BY <1>0, <1>5 DEF In
  <2>2. CASE j < k
    BY <1>0, <1>1, <1>2, <2>1, <2>2 DEF In
  <2>3. CASE j >= k
    <3>1. j + 1 \in 1 .. n + 1 /\ new[j + 1] = x
      <4>1. j + 1 \in 1 .. n + 1 /\ ~(j + 1 < k) /\ j + 1 # k /\ (j + 1) - 1 = j
        BY <1>1, <2>1, <2>3
      <4> QED BY <1>2, <2>1, <4>1
    <3> QED BY <1>1, <3>1 DEF In
  <2> QED BY <1>1, <2>2, <2>3
<1>6. ASSUME Disjoint(map), Apart(map, a) PROVE Disjoint(new)
  <2> SUFFICES ASSUME NEW i \in 1 .. n + 1, NEW j \in 1 .. n + 1, NEW p \in LOW .. HIGH,
                      Covers(new[i], p), Covers(new[j], p)
               PROVE  i = j
    BY <1>1 DEF Disjoint
  <2> DEFINE old(m) == IF m < k THEN m ELSE m - 1
  <2>1. ASSUME NEW m \in 1 .. n + 1, m # k
        PROVE  old(m) \in 1 .. n /\ new[m] = map[old(m)]
    BY <1>1, <1>2, <2>1
  <2>2. ASSUME NEW m \in 1 .. n + 1, m # k PROVE In(map, new[m])
    BY <1>0, <2>1, <2>2 DEF In
  <2>3. new[k] = a
    BY <1>1, <1>2
  <2>4. CASE i = k /\ j # k
    BY <1>6, <2>2, <2>3, <2>4 DEF Apart
  <2>5. CASE i # k /\ j = k
    BY <1>6, <2>2, <2>3, <2>5 DEF Apart
  <2>6. CASE i # k /\ j # k
    <3>1. old(i) \in 1 .. n /\ new[i] = map[old(i)]
      BY <2>1, <2>6
    <3>2. old(j) \in 1 .. n /\ new[j] = map[old(j)]
      BY <2>1, <2>6
    <3>3. old(i) = old(j)
      <4> HIDE DEF old
      <4> QED BY <1>0, <1>6, <3>1, <3>2 DEF Disjoint
    <3> QED BY <1>1, <2>6, <3>3
  <2> QED BY <2>4, <2>5, <2>6
<1> QED BY <1>0, <1>1, <1>3, <1>4, <1>5, <1>6

LEMMA RemovedIn ==
    ASSUME NEW map \in Seq(Areas), NEW a
    PROVE  /\ RemoveFirst(map, a) \in Seq(Areas)
           /\ \A x : In(RemoveFirst(map, a), x) => In(map, x)
           /\ \A x : In(map, x) /\ x # a => In(RemoveFirst(map, a), x)
           /\ Disjoint(map) => Disjoint(RemoveFirst(map, a))
           /\ \A p \in LOW .. HIGH : Disjoint(map) /\ Covers(a, p) => ~In(RemoveFirst(map, a), a)
<1>1. CASE ~In(map, a)
  BY <1>1 DEF RemoveFirst, In
<1>2. CASE In(map, a)
  <2> DEFINE n == Len(map)
             k == SelectInSeq(map, LAMBDA x : x = a)
             new == RemoveAt(map, k)
             old(m) == IF m < k THEN m ELSE m + 1
  <2>1. RemoveFirst(map, a) = new
    BY <1>2 DEF RemoveFirst, In
  <2>2. k \in 1 .. n /\ map[k] = a
    BY <1>2, FoundInSeq
  <2> HIDE DEF k
  <2>3. n \in Nat /\ new \in Seq(Areas) /\ Len(new) = n - 1
    BY <2>2, LenProperties, RemovedAt
  <2>4. \A j \in 1 .. n - 1 : new[j] = map[old(j)]
    BY <2>2, RemovedAt
  <2>0. n = Len(map)
    OBVIOUS
  <2> HIDE DEF n, new
  <2>5. \A j \in 1 .. n - 1 : old(j) \in 1 .. n /\ old(j) # k
    BY <2>2, <2>3
  <2>6. \A i, j \in 1 .. n - 1 : old(i) = old(j) => i = j
    BY <2>2, <2>3
  <2>7. ASSUME NEW i \in 1 .. n, i # k PROVE \E j \in 1 .. n - 1 : old(j) = i
    <3>1. CASE i < k
      BY <2>2, <2>3, <3>1
    <3>2. CASE i > k
      <4>1. i - 1 \in 1 .. n - 1 /\ ~(i - 1 < k) /\ (i - 1) + 1 = i
        BY <2>2, <2>3, <3>2
      <4> QED BY <4>1
    <3> QED BY <2>2, <2>3, <2>7, <3>1, <3>2
  <2> HIDE DEF old
  <2>8. \A x : In(new, x) => In(map, x)
    BY <2>0, <2>3, <2>4, <2>5 DEF In
  <2>9. ASSUME NEW x, In(map, x), x # a PROVE In(new, x)
    <3>1. PICK i \in 1 .. n : map[i] = x
      BY <2>0, <2>9 DEF In
    <3>2. PICK j \in 1 .. n - 1 : old(j) = i
      BY <2>2, <2>7, <2>9, <3>1
    <3>3. j \in 1 .. Len(new) /\ new[j] = x
      BY <2>3, <2>4, <3>1, <3>2
    <3> QED BY <3>3 DEF In
  <2>10. Disjoint(map) => Disjoint(new)
    BY <2>0, <2>3, <2>4, <2>5, <2>6 DEF Disjoint
  <2>11. ASSUME NEW p \in LOW .. HIGH, Disjoint(map), Covers(a, p), In(new, a) PROVE FALSE
    BY <2>0, <2>2, <2>3, <2>4, <2>5, <2>11 DEF In, Disjoint
  <2> QED BY <2>1, <2>3, <2>8, <2>9, <2>10, <2>11
<1> QED BY <1>1, <1>2

(* An area that is not empty covers its first page.                        *)
LEMMA CoversStart ==
    ASSUME NEW a \in Areas, a.start < a.end
    PROVE  a.start \in LOW .. HIGH /\ Covers(a, a.start)
<1>1. /\ a.start \in Nat /\ a.end \in Nat /\ LOW <= a.start /\ a.end <= HIGH
      /\ LOW \in Nat /\ HIGH \in Nat
  BY VMMapAssumption DEF Areas
<1> QED BY <1>1 DEF Covers

(* b takes the place of a.                                                 *)
ReplacedMap(map, a, b) == ReplaceAt(map, SelectInSeq(map, LAMBDA x : x = a), b)

LEMMA ReplacedIn ==
    ASSUME NEW map \in Seq(Areas), NEW a, In(map, a), NEW b \in Areas
    PROVE  LET new == ReplacedMap(map, a, b)
           IN  /\ new \in Seq(Areas)
               /\ In(new, b)
               /\ \A x : In(new, x) => x = b \/ In(map, x)
               /\ \A x : In(map, x) /\ x # a => In(new, x)
               /\ Disjoint(map) /\ (\A p \in LOW .. HIGH : Covers(b, p) => Covers(a, p)) => Disjoint(new)
               /\ \A p \in LOW .. HIGH :
                     Disjoint(map) /\ Covers(a, p) /\ a # b => ~In(new, a)
<1> DEFINE n == Len(map)
           k == SelectInSeq(map, LAMBDA x : x = a)
           new == ReplaceAt(map, k, b)
<1>1. k \in 1 .. n /\ map[k] = a
  BY FoundInSeq
<1> HIDE DEF k
<1>2. /\ new \in Seq(Areas) /\ Len(new) = n /\ n \in Nat
      /\ \A i \in 1 .. n : new[i] = IF i = k THEN b ELSE map[i]
  <2>1. \A i \in 1 .. n : map[i] \in Areas
    BY ElementOfSeq
  <2>2. map \in [1 .. n -> Areas] /\ n \in Nat
    BY LenProperties
  <2>3. new \in [1 .. n -> Areas]
    BY <2>2 DEF ReplaceAt
  <2>4. new \in Seq(Areas) /\ Len(new) = n
    BY <2>2, <2>3
  <2>5. \A i \in 1 .. n : new[i] = IF i = k THEN b ELSE map[i]
    BY <1>1, <2>2 DEF ReplaceAt
  <2> QED BY <2>2, <2>4, <2>5
<1>0. n = Len(map) /\ new = ReplacedMap(map, a, b)
  BY DEF k, ReplacedMap
<1> HIDE DEF n, new
<1>3. In(new, b)
  BY <1>1, <1>2 DEF In
<1>4. \A x : In(new, x) => x = b \/ In(map, x)
  BY <1>0, <1>2 DEF In
<1>5. \A x : In(map, x) /\ x # a => In(new, x)
  BY <1>0, <1>1, <1>2 DEF In
<1>6. ASSUME Disjoint(map), \A p \in LOW .. HIGH : Covers(b, p) => Covers(a, p) PROVE Disjoint(new)
  <2>1. \A i \in 1 .. n, p \in LOW .. HIGH : Covers(new[i], p) => Covers(map[i], p)
    BY <1>1, <1>2, <1>6
  <2>2. \A i, j \in 1 .. n, p \in LOW .. HIGH :
           Covers(map[i], p) /\ Covers(map[j], p) => i = j
    BY <1>0, <1>6 DEF Disjoint
  <2>3. \A i, j \in 1 .. n, p \in LOW .. HIGH :
           Covers(new[i], p) /\ Covers(new[j], p) => i = j
    BY <2>1, <2>2
  <2>4. Len(new) = n
    BY <1>2
  <2> QED BY <2>3, <2>4 DEF Disjoint
<1>7. ASSUME NEW p \in LOW .. HIGH, Disjoint(map), Covers(a, p), a # b, In(new, a) PROVE FALSE
  BY <1>0, <1>1, <1>2, <1>7 DEF In, Disjoint
<1> QED BY <1>0, <1>2, <1>3, <1>4, <1>5, <1>6, <1>7
-----------------------------------------------------------------------------
(* What pages show                                                         *)

ShowsOf(a, p) == [obj |-> a.obj, off |-> a.off + p - a.start]

LEMMA AreaIn ==
    ASSUME NEW map \in Seq(Areas), NEW a, In(map, a)
    PROVE  a \in Areas
BY ElementOfSeq DEF In

LEMMA LookupFinds ==
    ASSUME NEW map \in Seq(Areas), NEW p
    PROVE  \/ vmmap_lookup(map, p) = 0 /\ \A i \in 1 .. Len(map) : ~Covers(map[i], p)
           \/ vmmap_lookup(map, p) \in 1 .. Len(map) /\ Covers(map[vmmap_lookup(map, p)], p)
<1> DEFINE found == {i \in 1 .. Len(map) : Covers(map[i], p)}
<1>1. vmmap_lookup(map, p) = IF found = {} THEN 0 ELSE Least(found)
  BY DEF vmmap_lookup
<1>2. CASE found = {}
  BY <1>1, <1>2
<1>3. CASE found # {}
  <2>1. found \in SUBSET Nat /\ \A i \in found : i \in 1 .. Len(map) /\ Covers(map[i], p)
    BY LenProperties
  <2> HIDE DEF found
  <2>2. Least(found) \in found
    BY <1>3, <2>1, LeastOne DEF Least
  <2> QED BY <1>1, <1>3, <2>1, <2>2
<1> QED BY <1>2, <1>3

LEMMA ShowsCovered ==
    ASSUME NEW map \in Seq(Areas), Disjoint(map), NEW p \in LOW .. HIGH,
           NEW a, In(map, a), Covers(a, p)
    PROVE  Shows(map, p) = ShowsOf(a, p)
<1>1. PICK i \in 1 .. Len(map) : map[i] = a
  BY DEF In
<1>2. vmmap_lookup(map, p) = i
  BY <1>1, LookupFinds DEF Disjoint
<1>3. i # 0
  BY <1>1, LenProperties
<1> QED BY <1>1, <1>2, <1>3 DEF Shows, ShowsOf

LEMMA ShowsNothing ==
    ASSUME NEW map \in Seq(Areas), NEW p, \A a : In(map, a) => ~Covers(a, p)
    PROVE  Shows(map, p) = Nothing
<1>1. \A i \in 1 .. Len(map) : ~Covers(map[i], p)
  BY DEF In
<1>2. vmmap_lookup(map, p) = 0
  BY <1>1, LookupFinds
<1> QED BY <1>2 DEF Shows

(* A page shows nothing or what an area that covers it shows.              *)
LEMMA ShowsCases ==
    ASSUME NEW map \in Seq(Areas), NEW p \in LOW .. HIGH
    PROVE  \/ Shows(map, p) = Nothing /\ \A a : In(map, a) => ~Covers(a, p)
           \/ \E a \in Areas : In(map, a) /\ Covers(a, p) /\ Shows(map, p) = ShowsOf(a, p)
<1> DEFINE i == vmmap_lookup(map, p)
<1>1. CASE i = 0
  <2>1. Shows(map, p) = Nothing
    BY <1>1 DEF Shows
  <2>2. \A j \in 1 .. Len(map) : ~Covers(map[j], p)
    BY <1>1, LookupFinds, LenProperties
  <2> QED BY <2>1, <2>2 DEF In
<1>2. CASE i # 0
  <2>1. i \in 1 .. Len(map) /\ Covers(map[i], p)
    BY <1>2, LookupFinds
  <2>2. Shows(map, p) = ShowsOf(map[i], p)
    BY <1>2 DEF Shows, ShowsOf
  <2>3. In(map, map[i]) /\ map[i] \in Areas
    BY <2>1, ElementOfSeq DEF In
  <2> QED BY <2>1, <2>2, <2>3
<1> QED BY <1>1, <1>2

LEMMA ShowsOfType ==
    ASSUME NEW a \in Areas, NEW p \in LOW .. HIGH, Covers(a, p)
    PROVE  /\ ShowsOf(a, p) \in [obj : Objs \union {Data}, off : Nat]
           /\ ShowsOf(a, p) # Nothing
<1>1. a.off \in Nat /\ a.start \in Nat /\ a.obj \in Objs \union {Data}
  BY DEF Areas
<1>2. p \in Nat /\ a.start <= p
  BY VMMapAssumption DEF Covers
<1>3. a.off + p - a.start \in Nat
  BY <1>1, <1>2
<1>4. ShowsOf(a, p) \in [obj : Objs \union {Data}, off : Nat]
  BY <1>1, <1>3 DEF ShowsOf
<1> QED BY <1>4, VMMapAssumption

LEMMA ShowsType ==
    ASSUME NEW map \in Seq(Areas), NEW p \in LOW .. HIGH
    PROVE  Shows(map, p) \in [obj : Objs \union {Data}, off : Nat] \union {Nothing}
BY ShowsCases, ShowsOfType
-----------------------------------------------------------------------------
(* One area of vmmap_remove                                                *)

Maps == [map : Seq(Areas), panic : BOOLEAN, misplaced : BOOLEAN]
Drafts == [start : Nat, end : Nat, off : Nat, obj : Objs \union {Data}]

Insertable(a) == a.start < a.end /\ LOW <= a.start /\ HIGH >= a.end

LEMMA MapField ==
    ASSUME NEW s \in Maps, NEW map \in Seq(Areas)
    PROVE  /\ [s EXCEPT !.map = map] \in Maps
           /\ [s EXCEPT !.map = map].map = map
           /\ [s EXCEPT !.map = map].panic = s.panic
           /\ [s EXCEPT !.map = map].misplaced = s.misplaced
BY DEF Maps

LEMMA PanicFields ==
    ASSUME NEW s \in Maps
    PROVE  /\ Panic(s) \in Maps /\ Panic(s).map = s.map
           /\ Panic(s).panic /\ Panic(s).misplaced = s.misplaced
BY DEF Maps, Panic

LEMMA InsertStep ==
    ASSUME NEW s \in Maps, NEW a \in Drafts
    PROVE  /\ vmmap_insert(s, a) \in Maps
           /\ vmmap_insert(s, a).misplaced = s.misplaced
           /\ Insertable(a) => /\ a \in Areas
                               /\ vmmap_insert(s, a).map = Inserted(s.map, a)
                               /\ vmmap_insert(s, a).panic = s.panic
           /\ ~Insertable(a) => vmmap_insert(s, a).map = s.map /\ vmmap_insert(s, a).panic
<1>1. CASE Insertable(a)
  <2>1. a \in Areas
    BY <1>1, VMMapAssumption DEF Insertable, Areas, Drafts
  <2>2. s.map \in Seq(Areas)
    BY DEF Maps
  <2>3. Inserted(s.map, a) \in Seq(Areas)
    BY <2>1, <2>2, InsertedIn
  <2>4. vmmap_insert(s, a) = [s EXCEPT !.map = Inserted(s.map, a)]
    BY <1>1 DEF vmmap_insert, Insertable
  <2> QED BY <1>1, <2>1, <2>3, <2>4, MapField
<1>2. CASE ~Insertable(a)
  <2>1. vmmap_insert(s, a) = Panic(s)
    BY <1>2 DEF vmmap_insert, Insertable
  <2> QED BY <1>2, <2>1, PanicFields
<1> QED BY <1>1, <1>2

(* The part of an area below e, and the part from e on.                    *)
LEMMA LowerPart ==
    ASSUME NEW a \in Areas, NEW e \in Nat, a.start < e, e <= a.end
    PROVE  LET b == [a EXCEPT !.end = e]
           IN  /\ b \in Areas /\ b \in Drafts /\ Insertable(b)
               /\ \A p \in LOW .. HIGH : Covers(b, p) <=> Covers(a, p) /\ p < e
               /\ \A p \in LOW .. HIGH : ShowsOf(b, p) = ShowsOf(a, p)
               /\ e # a.end => b # a
<1> DEFINE b == [a EXCEPT !.end = e]
<1>1. /\ b.start = a.start /\ b.end = e /\ b.off = a.off /\ b.obj = a.obj
      /\ b \in [start : Nat, end : Nat, off : Nat, obj : Objs \union {Data}]
  BY DEF Areas
<1>2. /\ a.start \in Nat /\ a.end \in Nat /\ LOW <= a.start /\ a.end <= HIGH
      /\ LOW \in Nat /\ HIGH \in Nat
  BY VMMapAssumption DEF Areas
<1> HIDE DEF b
<1>3. LOW <= b.start /\ b.start <= b.end /\ b.end <= HIGH
  BY <1>1, <1>2
<1>4. b \in Areas /\ b \in Drafts
  BY <1>1, <1>3 DEF Areas, Drafts
<1>5. Insertable(b)
  BY <1>1, <1>3 DEF Insertable
<1>6. \A p \in LOW .. HIGH : Covers(b, p) <=> Covers(a, p) /\ p < e
  BY <1>1, <1>2 DEF Covers
<1>7. \A p \in LOW .. HIGH : ShowsOf(b, p) = ShowsOf(a, p)
  BY <1>1 DEF ShowsOf
<1>8. e # a.end => b # a
  BY <1>1
<1> QED BY <1>4, <1>5, <1>6, <1>7, <1>8 DEF b

LEMMA UpperPart ==
    ASSUME NEW a \in Areas, NEW e \in Nat, a.start < e, e <= a.end
    PROVE  LET b == Shortened(a, e)
           IN  /\ b \in Areas /\ b \in Drafts /\ (Insertable(b) <=> e < a.end)
               /\ \A p \in LOW .. HIGH : Covers(b, p) <=> Covers(a, p) /\ p >= e
               /\ \A p \in LOW .. HIGH : ShowsOf(b, p) = ShowsOf(a, p)
               /\ b # a
<1> DEFINE b == Shortened(a, e)
<1>1. a.start \in Nat /\ a.end \in Nat /\ a.off \in Nat /\ a.obj \in Objs \union {Data}
  BY DEF Areas
<1>2. a.off + e - a.start \in Nat
  BY <1>1
<1>3. /\ b.start = e /\ b.end = a.end /\ b.off = a.off + e - a.start /\ b.obj = a.obj
      /\ b \in [start : Nat, end : Nat, off : Nat, obj : Objs \union {Data}]
  BY <1>1, <1>2 DEF Areas, Shortened
<1>4. LOW <= a.start /\ a.end <= HIGH /\ LOW \in Nat /\ HIGH \in Nat
  BY VMMapAssumption DEF Areas
<1> HIDE DEF b
<1>5. LOW <= b.start /\ b.start <= b.end /\ b.end <= HIGH
  BY <1>1, <1>3, <1>4
<1>6. b \in Areas /\ b \in Drafts
  BY <1>3, <1>5 DEF Areas, Drafts
<1>7. Insertable(b) <=> e < a.end
  BY <1>1, <1>3, <1>5 DEF Insertable
<1>8. \A p \in LOW .. HIGH : Covers(b, p) <=> Covers(a, p) /\ p >= e
  BY <1>1, <1>3, <1>4 DEF Covers
<1>9. \A p \in LOW .. HIGH : ShowsOf(b, p) = ShowsOf(a, p)
  <2> TAKE p \in LOW .. HIGH
  <2>1. b.off + p - b.start = a.off + p - a.start
    BY <1>1, <1>3, <1>4
  <2> QED BY <1>3, <2>1 DEF ShowsOf
<1>10. b # a
  BY <1>1, <1>3
<1> QED BY <1>6, <1>7, <1>8, <1>9, <1>10 DEF b

(* What is left of s in r once area a is cut: no page of the n pages from  *)
(* lo on in a, and all other pages, showing what they showed.              *)
OnlyOld(s, r, a, lo, n) == \A x : \A p \in LOW .. HIGH :
    In(r.map, x) /\ Covers(x, p) =>
        \E y : /\ In(s.map, y) /\ Covers(y, p) /\ ShowsOf(y, p) = ShowsOf(x, p)
               /\ y = a => p \notin lo .. lo + n - 1

AllOther(s, r, a, lo, n) == \A y : \A p \in LOW .. HIGH :
    In(s.map, y) /\ Covers(y, p) /\ (y = a => p \notin lo .. lo + n - 1) =>
        \E x : In(r.map, x) /\ Covers(x, p)

OthersIn(s, r, a) == \A y : In(s.map, y) /\ y # a => In(r.map, y)

CutOne(s, r, a, lo, n) == OnlyOld(s, r, a, lo, n) /\ AllOther(s, r, a, lo, n) /\ OthersIn(s, r, a)

(* The range is inside the area.                                           *)
LEMMA CutInside ==
    ASSUME NEW s \in Maps, ~s.panic, Disjoint(s.map), NEW a \in Areas, In(s.map, a),
           NEW lo \in Nat, NEW n \in Nat \ {0},
           lo > a.start, lo < a.end, lo + n <= a.end
    PROVE  LET r == RemoveFrom(s, a, lo, n)
           IN  /\ r \in Maps /\ Disjoint(r.map) /\ r.misplaced = s.misplaced
               /\ ~r.panic => CutOne(s, r, a, lo, n)
<1> DEFINE b == [a EXCEPT !.end = lo]
           c == Shortened(a, lo + n)
           u == Unlinked(s, a)
           v == vmmap_insert(u, b)
           r == vmmap_insert(v, c)
<1>0. /\ a.start \in Nat /\ a.end \in Nat /\ LOW <= a.start /\ a.end <= HIGH
      /\ LOW \in Nat /\ HIGH \in Nat /\ s.map \in Seq(Areas)
  BY VMMapAssumption DEF Areas, Maps
<1>1. RemoveFrom(s, a, lo, n) = r
  BY <1>0 DEF RemoveFrom, Splits
<1>2. /\ b \in Areas /\ b \in Drafts /\ Insertable(b) /\ b # a
      /\ \A p \in LOW .. HIGH : Covers(b, p) <=> Covers(a, p) /\ p < lo
      /\ \A p \in LOW .. HIGH : ShowsOf(b, p) = ShowsOf(a, p)
  BY <1>0, LowerPart
<1>3. /\ c \in Areas /\ c \in Drafts /\ (Insertable(c) <=> lo + n < a.end) /\ c # a
      /\ \A p \in LOW .. HIGH : Covers(c, p) <=> Covers(a, p) /\ p >= lo + n
      /\ \A p \in LOW .. HIGH : ShowsOf(c, p) = ShowsOf(a, p)
  <2>1. lo + n \in Nat /\ a.start < lo + n
    BY <1>0
  <2> QED BY <2>1, UpperPart
<1> HIDE DEF b, c
<1>4. /\ u \in Maps /\ u.map = RemoveFirst(s.map, a) /\ u.panic = s.panic
      /\ u.misplaced = s.misplaced
  <2>1. RemoveFirst(s.map, a) \in Seq(Areas)
    BY <1>0, RemovedIn
  <2> QED BY <2>1, MapField DEF Unlinked
<1>5. /\ \A x : In(u.map, x) => In(s.map, x)
      /\ \A x : In(s.map, x) /\ x # a => In(u.map, x)
      /\ Disjoint(u.map) /\ u.map \in Seq(Areas)
  BY <1>0, <1>4, RemovedIn
<1>6. ~In(u.map, a)
  <2>1. a.start \in LOW .. HIGH /\ Covers(a, a.start)
    BY <1>0 DEF Covers
  <2> QED BY <1>0, <1>4, <2>1, RemovedIn
<1> HIDE DEF u
(* An area that is left covers no page of a.                               *)
<1>7. ASSUME NEW x, NEW p \in LOW .. HIGH, In(u.map, x), Covers(x, p) PROVE ~Covers(a, p)
  <2>1. In(s.map, x) /\ x # a
    BY <1>5, <1>6, <1>7
  <2> QED BY <1>7, <2>1 DEF Disjoint, In
<1>8. /\ v \in Maps /\ v.map = Inserted(u.map, b) /\ ~v.panic /\ v.misplaced = s.misplaced
  BY <1>2, <1>4, InsertStep
<1>9. v.map \in Seq(Areas) /\ Disjoint(v.map) /\ \A x : In(v.map, x) <=> x = b \/ In(u.map, x)
  <2>1. Apart(u.map, b)
    BY <1>2, <1>7 DEF Apart
  <2> QED BY <1>2, <1>5, <1>8, <2>1, InsertedIn, ZenonT(30)
<1> HIDE DEF v
<1>10. CASE lo + n < a.end
  <2>1. r \in Maps /\ r.map = Inserted(v.map, c) /\ ~r.panic /\ r.misplaced = s.misplaced
    BY <1>3, <1>8, <1>10, InsertStep
  <2> HIDE DEF r
  <2>2. Disjoint(r.map) /\ \A x : In(r.map, x) <=> x = c \/ x = b \/ In(u.map, x)
    <3>1. Apart(v.map, c)
      BY <1>0, <1>2, <1>3, <1>7, <1>9 DEF Apart
    <3>2. Disjoint(r.map) /\ \A x : In(r.map, x) <=> x = c \/ In(v.map, x)
      BY <1>3, <1>9, <2>1, <3>1, InsertedIn, SMTT(30)
    <3> QED BY <1>9, <3>2
  <2>3. OnlyOld(s, r, a, lo, n)
    <3> SUFFICES ASSUME NEW x, NEW p \in LOW .. HIGH, In(r.map, x), Covers(x, p)
                 PROVE  \E y : /\ In(s.map, y) /\ Covers(y, p) /\ ShowsOf(y, p) = ShowsOf(x, p)
                               /\ y = a => p \notin lo .. lo + n - 1
      BY DEF OnlyOld
    <3>1. CASE x = b
      BY <1>0, <1>2, <3>1
    <3>2. CASE x = c
      BY <1>0, <1>3, <3>2
    <3>3. CASE In(u.map, x)
      BY <1>5, <1>6, <3>3
    <3> QED BY <2>2, <3>1, <3>2, <3>3
  <2>4. AllOther(s, r, a, lo, n)
    <3> SUFFICES ASSUME NEW y, NEW p \in LOW .. HIGH, In(s.map, y), Covers(y, p),
                        y = a => p \notin lo .. lo + n - 1
                 PROVE  \E x : In(r.map, x) /\ Covers(x, p)
      BY DEF AllOther
    <3>1. CASE y = a
      <4>1. p < lo \/ p >= lo + n
        BY <1>0, <3>1
      <4> QED BY <1>2, <1>3, <2>2, <3>1, <4>1
    <3>2. CASE y # a
      BY <1>5, <2>2, <3>2
    <3> QED BY <3>1, <3>2
  <2>5. OthersIn(s, r, a)
    BY <1>5, <2>2 DEF OthersIn
  <2> QED BY <1>1, <2>1, <2>2, <2>3, <2>4, <2>5 DEF CutOne, r
<1>11. CASE ~(lo + n < a.end)
  <2>1. r \in Maps /\ r.map = v.map /\ r.panic /\ r.misplaced = s.misplaced
    BY <1>3, <1>8, <1>11, InsertStep
  <2> QED BY <1>1, <1>9, <2>1
<1> QED BY <1>10, <1>11
(* The range reaches over one end of the area: b is what is left of it.    *)
LEMMA CutReplaced ==
    ASSUME NEW s \in Maps, Disjoint(s.map), NEW a \in Areas, In(s.map, a),
           NEW lo \in Nat, NEW n \in Nat \ {0}, NEW b \in Areas, b # a, a.start < a.end,
           \A p \in LOW .. HIGH : Covers(b, p) <=> Covers(a, p) /\ p \notin lo .. lo + n - 1,
           \A p \in LOW .. HIGH : ShowsOf(b, p) = ShowsOf(a, p)
    PROVE  LET r == Replaced(s, a, b)
           IN  /\ r \in Maps /\ Disjoint(r.map) /\ r.misplaced = s.misplaced
               /\ CutOne(s, r, a, lo, n)
<1> DEFINE m == ReplacedMap(s.map, a, b)
           r == Replaced(s, a, b)
<1>0. /\ a.start \in LOW .. HIGH /\ Covers(a, a.start) /\ s.map \in Seq(Areas)
  BY VMMapAssumption DEF Areas, Maps, Covers
<1>1. /\ m \in Seq(Areas) /\ In(m, b)
      /\ \A x : In(m, x) => x = b \/ In(s.map, x)
      /\ \A x : In(s.map, x) /\ x # a => In(m, x)
      /\ (\A p \in LOW .. HIGH : Covers(b, p) => Covers(a, p)) => Disjoint(m)
      /\ ~In(m, a)
  <2>1. /\ m \in Seq(Areas) /\ In(m, b)
        /\ \A x : In(m, x) => x = b \/ In(s.map, x)
        /\ \A x : In(s.map, x) /\ x # a => In(m, x)
        /\ Disjoint(s.map) /\ (\A p \in LOW .. HIGH : Covers(b, p) => Covers(a, p)) => Disjoint(m)
        /\ \A p \in LOW .. HIGH : Disjoint(s.map) /\ Covers(a, p) /\ a # b => ~In(m, a)
    <3>1. s.map \in Seq(Areas)
      BY <1>0
    <3> QED BY <3>1, ReplacedIn
  <2> HIDE DEF m
  <2>2. ~In(m, a)
    <3>1. \A p \in LOW .. HIGH : Covers(a, p) => ~In(m, a)
      BY <2>1
    <3> QED BY <1>0, <3>1, Zenon
  <2> QED BY <2>1, <2>2
<1>2. Disjoint(m)
  BY <1>1
<1>3. r = [s EXCEPT !.map = m]
  BY DEF Replaced, ReplacedMap
<1> HIDE DEF m
<1>4. r \in Maps /\ r.map = m /\ r.misplaced = s.misplaced
  BY <1>1, <1>3, MapField
<1> HIDE DEF r
<1>5. OnlyOld(s, r, a, lo, n)
  <2> SUFFICES ASSUME NEW x, NEW p \in LOW .. HIGH, In(r.map, x), Covers(x, p)
               PROVE  \E y : /\ In(s.map, y) /\ Covers(y, p) /\ ShowsOf(y, p) = ShowsOf(x, p)
                             /\ y = a => p \notin lo .. lo + n - 1
    BY DEF OnlyOld
  <2>1. CASE x = b
    <3>1. Covers(a, p) /\ p \notin lo .. lo + n - 1 /\ ShowsOf(a, p) = ShowsOf(x, p)
      BY <2>1
    <3> QED BY <3>1
  <2>2. CASE x # b
    <3>1. In(s.map, x) /\ x # a
      BY <1>1, <1>4, <2>2
    <3> QED BY <3>1
  <2> QED BY <2>1, <2>2
<1>6. AllOther(s, r, a, lo, n)
  <2> SUFFICES ASSUME NEW y, NEW p \in LOW .. HIGH, In(s.map, y), Covers(y, p),
                      y = a => p \notin lo .. lo + n - 1
               PROVE  \E x : In(r.map, x) /\ Covers(x, p)
    BY DEF AllOther
  <2>1. CASE y = a
    BY <1>1, <1>4, <2>1
  <2>2. CASE y # a
    BY <1>1, <1>4, <2>2
  <2> QED BY <2>1, <2>2
<1>7. OthersIn(s, r, a)
  BY <1>1, <1>4 DEF OthersIn
<1> QED BY <1>2, <1>4, <1>5, <1>6, <1>7 DEF CutOne, r

(* The range is all around the area, which may be empty.                   *)
LEMMA CutWhole ==
    ASSUME NEW s \in Maps, Disjoint(s.map), NEW a \in Areas,
           NEW lo \in Nat, NEW n \in Nat \ {0}, a.start >= lo, a.end <= lo + n
    PROVE  LET r == Unlinked(s, a)
           IN  /\ r \in Maps /\ Disjoint(r.map) /\ r.misplaced = s.misplaced
               /\ CutOne(s, r, a, lo, n)
<1> DEFINE m == RemoveFirst(s.map, a)
           r == Unlinked(s, a)
<1>0. /\ a.start \in Nat /\ a.end \in Nat /\ s.map \in Seq(Areas)
      /\ LOW \in Nat /\ HIGH \in Nat
  BY VMMapAssumption DEF Areas, Maps
<1>1. /\ m \in Seq(Areas) /\ Disjoint(m)
      /\ \A x : In(m, x) => In(s.map, x)
      /\ \A x : In(s.map, x) /\ x # a => In(m, x)
      /\ \A p \in LOW .. HIGH : Covers(a, p) => ~In(m, a)
  BY <1>0, RemovedIn
<1>2. r = [s EXCEPT !.map = m]
  BY DEF Unlinked
<1> HIDE DEF m
<1>3. r \in Maps /\ r.map = m /\ r.misplaced = s.misplaced
  BY <1>1, <1>2, MapField
<1> HIDE DEF r
<1>4. OnlyOld(s, r, a, lo, n)
  BY <1>1, <1>3 DEF OnlyOld
<1>5. AllOther(s, r, a, lo, n)
  <2>1. \A p \in LOW .. HIGH : Covers(a, p) => p \in lo .. lo + n - 1
    BY <1>0 DEF Covers
  <2> QED BY <1>1, <1>3, <2>1 DEF AllOther
<1>6. OthersIn(s, r, a)
  BY <1>1, <1>3 DEF OthersIn
<1> QED BY <1>1, <1>3, <1>4, <1>5, <1>6 DEF CutOne, r

(* The whole of what vmmap_remove does to one area.                        *)
LEMMA CutArea ==
    ASSUME NEW s \in Maps, ~s.panic, Disjoint(s.map), NEW a \in Areas,
           a.start < a.end => In(s.map, a), NEW lo \in Nat, NEW n \in Nat \ {0}
    PROVE  LET r == RemoveFrom(s, a, lo, n)
           IN  /\ r \in Maps /\ Disjoint(r.map) /\ r.misplaced = s.misplaced
               /\ ~r.panic => CutOne(s, r, a, lo, n)
<1>0. /\ a.start \in Nat /\ a.end \in Nat /\ s.map \in Seq(Areas) /\ a.start <= a.end
      /\ LOW \in Nat /\ HIGH \in Nat /\ lo + n \in Nat
  BY VMMapAssumption DEF Areas, Maps
<1> DEFINE inside == lo > a.start /\ lo < a.end
           upto == lo + n > a.start /\ lo + n <= a.end
           around == a.start >= lo /\ a.end <= lo + n
           r == RemoveFrom(s, a, lo, n)
<1>1. CASE inside /\ lo + n <= a.end
  BY <1>0, <1>1, CutInside
<1>2. CASE inside /\ lo + n > a.end
  <2> DEFINE b == [a EXCEPT !.end = lo]
  <2>1. r = Replaced(s, a, b)
    BY <1>0, <1>2 DEF RemoveFrom, Splits
  <2>2. /\ b \in Areas /\ b # a
        /\ \A p \in LOW .. HIGH : Covers(b, p) <=> Covers(a, p) /\ p < lo
        /\ \A p \in LOW .. HIGH : ShowsOf(b, p) = ShowsOf(a, p)
    BY <1>0, <1>2, LowerPart
  <2> HIDE DEF b, r
  <2>3. a.start < a.end /\ In(s.map, a)
    BY <1>0, <1>2
  <2>4. \A p \in LOW .. HIGH : Covers(b, p) <=> Covers(a, p) /\ p \notin lo .. lo + n - 1
    <3>1. \A p \in LOW .. HIGH : Covers(a, p) => (p < lo <=> p \notin lo .. lo + n - 1)
      BY <1>0, <1>2 DEF Covers
    <3> QED BY <2>2, <3>1
  <2> QED BY <2>1, <2>2, <2>3, <2>4, CutReplaced DEF r
<1>3. CASE ~inside /\ upto
  <2> DEFINE b == Shortened(a, lo + n)
  <2>1. r = Replaced(s, a, b)
    BY <1>0, <1>3 DEF RemoveFrom, Splits
  <2>2. /\ b \in Areas /\ b # a
        /\ \A p \in LOW .. HIGH : Covers(b, p) <=> Covers(a, p) /\ p >= lo + n
        /\ \A p \in LOW .. HIGH : ShowsOf(b, p) = ShowsOf(a, p)
    BY <1>0, <1>3, UpperPart
  <2> HIDE DEF b, r
  <2>3. a.start < a.end /\ In(s.map, a)
    BY <1>0, <1>3
  <2>4. \A p \in LOW .. HIGH : Covers(b, p) <=> Covers(a, p) /\ p \notin lo .. lo + n - 1
    <3>1. \A p \in LOW .. HIGH : Covers(a, p) => (p >= lo + n <=> p \notin lo .. lo + n - 1)
      BY <1>0, <1>3 DEF Covers
    <3> QED BY <2>2, <3>1
  <2> QED BY <2>1, <2>2, <2>3, <2>4, CutReplaced DEF r
<1>4. CASE around /\ ~upto
  <2>1. r = Unlinked(s, a)
    BY <1>0, <1>4 DEF RemoveFrom, Splits
  <2> QED BY <1>4, <2>1, CutWhole
<1>5. CASE ~inside /\ ~upto /\ ~around
  <2>1. r = s
    BY <1>0, <1>5 DEF RemoveFrom, Splits
  <2>2. \A p \in LOW .. HIGH : Covers(a, p) => p \notin lo .. lo + n - 1
    BY <1>0, <1>5 DEF Covers
  <2> HIDE DEF r
  <2>3. CutOne(s, r, a, lo, n)
    BY <2>1, <2>2 DEF CutOne, OnlyOld, AllOther, OthersIn
  <2> QED BY <2>1, <2>3 DEF r
<1>6. inside /\ around => upto
  BY <1>0
<1> QED BY <1>0, <1>1, <1>2, <1>3, <1>4, <1>5, <1>6
-----------------------------------------------------------------------------
(* The loop of vmmap_remove                                                *)

(* f holds what the first k areas of s leave.                              *)
CutSteps(f, s, lo, n, k) ==
    /\ f = [j \in 0 .. k |-> f[j]]
    /\ f[0] = s
    /\ \A j \in 1 .. k : f[j] = RemoveFrom(f[j - 1], s.map[j], lo, n)

(* The loop is well founded.                                               *)
LEMMA CutsExist ==
    ASSUME NEW s, NEW lo, NEW n, NEW N \in Nat
    PROVE  \E f : CutSteps(f, s, lo, n, N)
<1> DEFINE T == {k \in 0 .. N : ~ \E f : CutSteps(f, s, lo, n, k)}
<1> SUFFICES ASSUME T # {} PROVE FALSE
  OBVIOUS
<1>1. PICK m \in T : \A k \in T : m <= k
  <2>1. T \subseteq Nat
    OBVIOUS
  <2> HIDE DEF T
  <2> QED BY <2>1, LeastOne
<1>2. m \in 0 .. N /\ ~ \E f : CutSteps(f, s, lo, n, m)
  OBVIOUS
<1>3. CASE m = 0
  <2> DEFINE g == [j \in 0 .. 0 |-> s]
  <2>1. CutSteps(g, s, lo, n, 0)
    BY DEF CutSteps
  <2> QED BY <1>2, <1>3, <2>1
<1>4. CASE m > 0
  <2>1. m - 1 \in 0 .. N /\ m - 1 \notin T
    BY <1>1, <1>2, <1>4
  <2>2. PICK f : CutSteps(f, s, lo, n, m - 1)
    BY <2>1
  <2> DEFINE v == RemoveFrom(f[m - 1], s.map[m], lo, n)
             g == [j \in 0 .. m |-> IF j = m THEN v ELSE f[j]]
  <2> HIDE DEF v
  <2>3. g = [j \in 0 .. m |-> g[j]] /\ g[0] = s
    BY <1>2, <1>4, <2>2 DEF CutSteps
  <2>4. ASSUME NEW k \in 1 .. m PROVE g[k] = RemoveFrom(g[k - 1], s.map[k], lo, n)
    <3>1. g[k - 1] = f[k - 1] /\ k \in 0 .. m
      BY <1>2
    <3>2. CASE k = m
      BY <3>1, <3>2 DEF v
    <3>3. CASE k # m
      <4>1. k \in 1 .. m - 1
        BY <1>2, <3>3
      <4>2. f[k] = RemoveFrom(f[k - 1], s.map[k], lo, n)
        BY <2>2, <4>1 DEF CutSteps
      <4> QED BY <3>1, <3>3, <4>2
    <3> QED BY <3>2, <3>3
  <2> HIDE DEF g
  <2>5. CutSteps(g, s, lo, n, m)
    BY <2>3, <2>4 DEF CutSteps
  <2> QED BY <1>2, <2>5
<1> QED BY <1>2, <1>3, <1>4

LEMMA RemoveIsLoop ==
    ASSUME NEW s, NEW lo, NEW n, Len(s.map) \in Nat
    PROVE  CutSteps(Removing(s, lo, n), s, lo, n, Len(s.map))
<1> DEFINE N == Len(s.map)
           Eq(f) == f = [k \in 0 .. N |-> IF k = 0 THEN s
                                          ELSE RemoveFrom(f[k - 1], s.map[k], lo, n)]
           b == CHOOSE f : Eq(f)
<1>1. PICK f : CutSteps(f, s, lo, n, N)
  BY CutsExist
<1>2. Eq(f)
  <2>1. \A k \in 0 .. N : f[k] = IF k = 0 THEN s ELSE RemoveFrom(f[k - 1], s.map[k], lo, n)
    BY <1>1, SMTT(30) DEF CutSteps
  <2> QED BY <1>1, <2>1 DEF CutSteps
<1>3. Eq(b)
  BY <1>2
<1>4. Removing(s, lo, n) = b
  BY DEF Removing
<1> HIDE DEF b
<1>5. CutSteps(b, s, lo, n, N)
  <2>1. \A k \in 0 .. N : b[k] = IF k = 0 THEN s ELSE RemoveFrom(b[k - 1], s.map[k], lo, n)
    BY <1>3
  <2>2. b = [k \in 0 .. N |-> b[k]]
    BY <1>3
  <2>3. b[0] = s
    BY <2>1
  <2>4. \A k \in 1 .. N : b[k] = RemoveFrom(b[k - 1], s.map[k], lo, n)
    BY <2>1
  <2> QED BY <2>2, <2>3, <2>4 DEF CutSteps
<1> QED BY <1>4, <1>5

(* What is left of s in r once the first k areas are cut.                  *)
OnlyOldUpTo(s, r, k, lo, n) == \A x : \A p \in LOW .. HIGH :
    In(r.map, x) /\ Covers(x, p) => \E i \in 1 .. Len(s.map) :
        /\ Covers(s.map[i], p) /\ ShowsOf(s.map[i], p) = ShowsOf(x, p)
        /\ i <= k => p \notin lo .. lo + n - 1

AllOtherUpTo(s, r, k, lo, n) == \A i \in 1 .. Len(s.map), p \in LOW .. HIGH :
    Covers(s.map[i], p) /\ (i <= k => p \notin lo .. lo + n - 1) =>
        \E x : In(r.map, x) /\ Covers(x, p)

RestIn(s, r, k) == \A i \in 1 .. Len(s.map), p \in LOW .. HIGH :
    i > k /\ Covers(s.map[i], p) => In(r.map, s.map[i])

CutUpTo(s, r, k, lo, n) ==
    /\ r \in Maps /\ Disjoint(r.map) /\ r.misplaced = s.misplaced
    /\ ~r.panic => OnlyOldUpTo(s, r, k, lo, n) /\ AllOtherUpTo(s, r, k, lo, n) /\ RestIn(s, r, k)

LEMMA CutNext ==
    ASSUME NEW s \in Maps, Disjoint(s.map), NEW lo \in Nat, NEW n \in Nat \ {0},
           NEW k \in 1 .. Len(s.map), NEW r, CutUpTo(s, r, k - 1, lo, n)
    PROVE  CutUpTo(s, RemoveFrom(r, s.map[k], lo, n), k, lo, n)
<1> DEFINE a == s.map[k]
           t == RemoveFrom(r, a, lo, n)
           N == Len(s.map)
<1>0. N \in Nat /\ s.map \in Seq(Areas) /\ a \in Areas /\ LOW \in Nat /\ HIGH \in Nat
  BY VMMapAssumption, ElementOfSeq, LenProperties DEF Maps
<1>1. r \in Maps /\ Disjoint(r.map) /\ r.misplaced = s.misplaced
  BY DEF CutUpTo
<1>2. CASE r.panic
  <2>1. t = r
    BY <1>2 DEF RemoveFrom
  <2>2. CutUpTo(s, r, k, lo, n)
    BY <1>1, <1>2 DEF CutUpTo
  <2> QED BY <2>1, <2>2
<1>3. CASE ~r.panic
  <2>1. OnlyOldUpTo(s, r, k - 1, lo, n) /\ AllOtherUpTo(s, r, k - 1, lo, n) /\ RestIn(s, r, k - 1)
    BY <1>3 DEF CutUpTo
  <2>2. \A p \in LOW .. HIGH : Covers(a, p) => In(r.map, a)
    <3>1. k \in 1 .. N /\ k > k - 1
      BY <1>0
    <3>2. \A i \in 1 .. N, p \in LOW .. HIGH :
             i > k - 1 /\ Covers(s.map[i], p) => In(r.map, s.map[i])
      BY <2>1 DEF RestIn
    <3> QED BY <3>1, <3>2, Zenon
  <2>3. a.start < a.end => In(r.map, a)
    <3>1. a \in Areas
      BY <1>0
    <3>2. a.start < a.end => a.start \in LOW .. HIGH /\ Covers(a, a.start)
      BY <3>1, CoversStart
    <3> HIDE DEF a
    <3> QED BY <2>2, <3>2
  <2>4. /\ t \in Maps /\ Disjoint(t.map) /\ t.misplaced = r.misplaced
        /\ ~t.panic => CutOne(r, t, a, lo, n)
    <3> HIDE DEF a
    <3> QED BY <1>0, <1>1, <1>3, <2>3, CutArea
  <2> HIDE DEF t
  <2> SUFFICES ASSUME ~t.panic
               PROVE  OnlyOldUpTo(s, t, k, lo, n) /\ AllOtherUpTo(s, t, k, lo, n) /\ RestIn(s, t, k)
    BY <1>1, <2>4 DEF CutUpTo, t
  <2>5. OnlyOld(r, t, a, lo, n) /\ AllOther(r, t, a, lo, n) /\ OthersIn(r, t, a)
    BY <2>4 DEF CutOne
(* In s, only a itself is area k, and only area k covers its pages.        *)
  <2>6. ASSUME NEW i \in 1 .. N, NEW p \in LOW .. HIGH, Covers(s.map[i], p), Covers(a, p)
        PROVE  i = k
    BY <2>6 DEF Disjoint
  <2>7. OnlyOldUpTo(s, t, k, lo, n)
    <3> SUFFICES ASSUME NEW x, NEW p \in LOW .. HIGH, In(t.map, x), Covers(x, p)
                 PROVE  \E i \in 1 .. N : /\ Covers(s.map[i], p) /\ ShowsOf(s.map[i], p) = ShowsOf(x, p)
                                          /\ i <= k => p \notin lo .. lo + n - 1
      BY DEF OnlyOldUpTo
    <3>1. PICK y : /\ In(r.map, y) /\ Covers(y, p) /\ ShowsOf(y, p) = ShowsOf(x, p)
                   /\ y = a => p \notin lo .. lo + n - 1
      BY <2>5 DEF OnlyOld
    <3>2. PICK i \in 1 .. N : /\ Covers(s.map[i], p) /\ ShowsOf(s.map[i], p) = ShowsOf(y, p)
                              /\ i <= k - 1 => p \notin lo .. lo + n - 1
      BY <2>1, <3>1 DEF OnlyOldUpTo
    <3>3. CASE i = k
      <4>1. In(r.map, a) /\ Covers(a, p)
        BY <2>2, <3>2, <3>3
      <4>2. y = a
        BY <1>1, <3>1, <4>1 DEF In, Disjoint
      <4> QED BY <3>1, <3>2, <4>2
    <3>4. CASE i # k
      <4>1. i <= k => i <= k - 1
        BY <1>0, <3>4
      <4> QED BY <3>1, <3>2, <4>1
    <3> QED BY <3>3, <3>4
  <2>8. AllOtherUpTo(s, t, k, lo, n)
    <3> SUFFICES ASSUME NEW i \in 1 .. N, NEW p \in LOW .. HIGH, Covers(s.map[i], p),
                        i <= k => p \notin lo .. lo + n - 1
                 PROVE  \E x : In(t.map, x) /\ Covers(x, p)
      BY DEF AllOtherUpTo
    <3>1. i <= k - 1 => i <= k
      BY <1>0
    <3>2. PICK y : In(r.map, y) /\ Covers(y, p)
      BY <2>1, <3>1 DEF AllOtherUpTo
    <3>3. y = a => p \notin lo .. lo + n - 1
      <4> HAVE y = a
      <4>1. i = k
        BY <2>6, <3>2
      <4>2. i <= k
        BY <1>0, <4>1
      <4> QED BY <4>2
    <3> QED BY <2>5, <3>2, <3>3 DEF AllOther
  <2>9. RestIn(s, t, k)
    <3> SUFFICES ASSUME NEW i \in 1 .. N, NEW p \in LOW .. HIGH, i > k, Covers(s.map[i], p)
                 PROVE  In(t.map, s.map[i])
      BY DEF RestIn
    <3>1. i > k - 1 /\ i # k
      BY <1>0
    <3>2. In(r.map, s.map[i])
      BY <2>1, <3>1 DEF RestIn
    <3>3. s.map[i] # a
      BY <2>6, <3>1
    <3> QED BY <2>5, <3>2, <3>3 DEF OthersIn
  <2> QED BY <2>7, <2>8, <2>9
<1> QED BY <1>2, <1>3

LEMMA CutEach ==
    ASSUME NEW s \in Maps, ~s.panic, Disjoint(s.map), NEW lo \in Nat, NEW n \in Nat \ {0},
           NEW j \in 0 .. Len(s.map)
    PROVE  CutUpTo(s, Removing(s, lo, n)[j], j, lo, n)
<1> DEFINE N == Len(s.map)
<1>0. N \in Nat /\ s.map \in Seq(Areas)
  BY LenProperties DEF Maps
<1>1. PICK f : CutSteps(f, s, lo, n, N) /\ f = Removing(s, lo, n)
  BY <1>0, RemoveIsLoop
<1>2. CutUpTo(s, s, 0, lo, n)
  <2>1. OnlyOldUpTo(s, s, 0, lo, n)
    <3> SUFFICES ASSUME NEW x, NEW p \in LOW .. HIGH, In(s.map, x), Covers(x, p)
                 PROVE  \E i \in 1 .. N : /\ Covers(s.map[i], p) /\ ShowsOf(s.map[i], p) = ShowsOf(x, p)
                                          /\ i <= 0 => p \notin lo .. lo + n - 1
      BY DEF OnlyOldUpTo
    <3>1. PICK i \in 1 .. N : s.map[i] = x
      BY DEF In
    <3>2. ~(i <= 0)
      BY <1>0
    <3> QED BY <3>1, <3>2
  <2>2. AllOtherUpTo(s, s, 0, lo, n)
    BY DEF AllOtherUpTo, In
  <2>3. RestIn(s, s, 0)
    BY DEF RestIn, In
  <2> QED BY <2>1, <2>2, <2>3 DEF CutUpTo
<1>3. f[0] = s /\ \A k \in 1 .. N : f[k] = RemoveFrom(f[k - 1], s.map[k], lo, n)
  BY <1>1 DEF CutSteps
<1>4. \A k \in 0 .. N : CutUpTo(s, f[k], k, lo, n)
  <2> DEFINE T == {k \in 0 .. N : ~CutUpTo(s, f[k], k, lo, n)}
  <2> SUFFICES ASSUME T # {} PROVE FALSE
    OBVIOUS
  <2>1. PICK m \in T : \A k \in T : m <= k
    <3>1. T \subseteq Nat
      BY <1>0
    <3> HIDE DEF T
    <3> QED BY <3>1, LeastOne
  <2>2. m # 0
    BY <1>2, <1>3
  <2>3. m \in 1 .. N /\ m - 1 \in 0 .. N
    BY <1>0, <2>2
  <2>4. m - 1 \notin T
    <3>1. ~(m <= m - 1)
      BY <1>0
    <3> QED BY <2>1, <3>1
  <2>5. CutUpTo(s, f[m - 1], m - 1, lo, n)
    BY <2>3, <2>4
  <2>6. CutUpTo(s, f[m], m, lo, n)
    BY <1>3, <2>3, <2>5, CutNext
  <2> QED BY <2>6
<1> QED BY <1>0, <1>1, <1>4

LEMMA CutAll ==
    ASSUME NEW s \in Maps, ~s.panic, Disjoint(s.map), NEW lo \in Nat, NEW n \in Nat \ {0}
    PROVE  CutUpTo(s, vmmap_remove(s, lo, n), Len(s.map), lo, n)
<1>1. Len(s.map) \in 0 .. Len(s.map)
  BY LenProperties DEF Maps
<1> QED BY <1>1, CutEach DEF vmmap_remove

(* The pages asked for, and no other, show nothing any more.               *)
LEMMA RemovedShows ==
    ASSUME NEW s \in Maps, ~s.panic, Disjoint(s.map), NEW lo \in Nat, NEW n \in Nat \ {0},
           ~vmmap_remove(s, lo, n).panic, NEW p \in LOW .. HIGH
    PROVE  Shows(vmmap_remove(s, lo, n).map, p) =
              IF p \in lo .. lo + n - 1 THEN Nothing ELSE Shows(s.map, p)
<1> DEFINE N == Len(s.map)
           r == vmmap_remove(s, lo, n)
<1>0. N \in Nat /\ s.map \in Seq(Areas)
  BY LenProperties DEF Maps
<1>1. CutUpTo(s, r, N, lo, n)
  BY CutAll
<1> HIDE DEF r
<1>2. /\ r.map \in Seq(Areas) /\ Disjoint(r.map)
      /\ OnlyOldUpTo(s, r, N, lo, n) /\ AllOtherUpTo(s, r, N, lo, n)
  BY <1>1 DEF CutUpTo, Maps, r
<1>3. ASSUME NEW x, In(r.map, x), Covers(x, p)
      PROVE  p \notin lo .. lo + n - 1 /\ Shows(s.map, p) = ShowsOf(x, p)
  <2>1. PICK i \in 1 .. N : /\ Covers(s.map[i], p) /\ ShowsOf(s.map[i], p) = ShowsOf(x, p)
                            /\ i <= N => p \notin lo .. lo + n - 1
    BY <1>2, <1>3 DEF OnlyOldUpTo
  <2>2. In(s.map, s.map[i])
    BY DEF In
  <2>3. Shows(s.map, p) = ShowsOf(s.map[i], p)
    BY <1>0, <2>1, <2>2, ShowsCovered
  <2>4. i <= N
    BY <1>0
  <2> QED BY <2>1, <2>3, <2>4
<1>4. CASE \E x : In(r.map, x) /\ Covers(x, p)
  <2>1. PICK x : In(r.map, x) /\ Covers(x, p)
    BY <1>4
  <2>2. Shows(r.map, p) = ShowsOf(x, p)
    BY <1>2, <2>1, ShowsCovered
  <2> QED BY <1>3, <2>1, <2>2 DEF r
<1>5. CASE ~ \E x : In(r.map, x) /\ Covers(x, p)
  <2>1. Shows(r.map, p) = Nothing
    BY <1>2, <1>5, ShowsNothing
  <2>2. CASE p \in lo .. lo + n - 1
    BY <2>1, <2>2 DEF r
  <2>3. CASE p \notin lo .. lo + n - 1
    <3>1. \A a : In(s.map, a) => ~Covers(a, p)
      BY <1>2, <1>5, <2>3 DEF AllOtherUpTo, In
    <3>2. Shows(s.map, p) = Nothing
      BY <1>0, <3>1, ShowsNothing
    <3> QED BY <2>1, <2>3, <3>2 DEF r
  <2> QED BY <2>2, <2>3
<1> QED BY <1>4, <1>5

LEMMA RemoveKeeps ==
    ASSUME NEW s \in Maps, ~s.panic, Disjoint(s.map), NEW lo \in Nat, NEW n \in Nat \ {0}
    PROVE  /\ vmmap_remove(s, lo, n) \in Maps
           /\ Disjoint(vmmap_remove(s, lo, n).map)
           /\ vmmap_remove(s, lo, n).misplaced = s.misplaced
BY CutAll DEF CutUpTo

(* Every page shows what it showed.                                        *)
Unmoved(map, new) == \A p \in LOW .. HIGH : Shows(new, p) = Shows(map, p)

(* When the loop is left because an area cannot be split, nothing has been *)
(* unmapped: that area holds the whole range.                              *)
LEMMA OutOfMemoryKeeps ==
    ASSUME NEW s \in Maps, ~s.panic, Disjoint(s.map), NEW lo \in Nat, NEW n \in Nat \ {0},
           NEW r \in OutOfMemory(s, lo, n)
    PROVE  /\ r \in Maps /\ Disjoint(r.map) /\ r.misplaced = s.misplaced
           /\ r.panic \/ Unmoved(s.map, r.map)
<1> DEFINE N == Len(s.map)
<1>0. N \in Nat /\ s.map \in Seq(Areas)
  BY LenProperties DEF Maps
<1>1. PICK k \in 1 .. N : Splits(s.map[k], lo, n) /\ r = Removing(s, lo, n)[k - 1]
  BY DEF OutOfMemory
<1>2. CutUpTo(s, r, k - 1, lo, n)
  <2>1. k - 1 \in 0 .. N
    BY <1>0
  <2> QED BY <1>1, <2>1, CutEach
<1>3. r \in Maps /\ Disjoint(r.map) /\ r.misplaced = s.misplaced /\ r.map \in Seq(Areas)
  BY <1>2 DEF CutUpTo, Maps
<1>4. ASSUME ~r.panic PROVE Unmoved(s.map, r.map)
  <2> SUFFICES ASSUME NEW p \in LOW .. HIGH PROVE Shows(r.map, p) = Shows(s.map, p)
    BY DEF Unmoved
  <2>1. OnlyOldUpTo(s, r, k - 1, lo, n) /\ AllOtherUpTo(s, r, k - 1, lo, n)
    BY <1>2, <1>4 DEF CutUpTo
  <2>2. ASSUME NEW i \in 1 .. N, i <= k - 1, Covers(s.map[i], p), p \in lo .. lo + n - 1
        PROVE  FALSE
    <3>1. s.map[k] \in Areas
      BY <1>0, ElementOfSeq
    <3>2. s.map[k].start \in Nat /\ s.map[k].end \in Nat
      BY <3>1 DEF Areas
    <3>3. Covers(s.map[k], p)
      BY <1>1, <2>2, <3>2 DEF Splits, Covers
    <3>4. i = k
      BY <2>2, <3>3 DEF Disjoint
    <3> QED BY <1>0, <2>2, <3>4
  <2>3. CASE \E x : In(r.map, x) /\ Covers(x, p)
    <3>1. PICK x : In(r.map, x) /\ Covers(x, p)
      BY <2>3
    <3>2. PICK i \in 1 .. N : Covers(s.map[i], p) /\ ShowsOf(s.map[i], p) = ShowsOf(x, p)
      BY <2>1, <3>1 DEF OnlyOldUpTo
    <3>3. In(s.map, s.map[i])
      BY DEF In
    <3>4. Shows(s.map, p) = ShowsOf(s.map[i], p)
      BY <1>0, <3>2, <3>3, ShowsCovered
    <3>5. Shows(r.map, p) = ShowsOf(x, p)
      BY <1>3, <3>1, ShowsCovered
    <3> QED BY <3>2, <3>4, <3>5
  <2>4. CASE ~ \E x : In(r.map, x) /\ Covers(x, p)
    <3>1. Shows(r.map, p) = Nothing
      BY <1>3, <2>4, ShowsNothing
    <3>2. \A a : In(s.map, a) => ~Covers(a, p)
      BY <2>1, <2>2, <2>4 DEF AllOtherUpTo, In
    <3>3. Shows(s.map, p) = Nothing
      BY <1>0, <3>2, ShowsNothing
    <3> QED BY <3>1, <3>3
  <2> QED BY <2>3, <2>4
<1> QED BY <1>3, <1>4
-----------------------------------------------------------------------------
(* The operations                                                          *)

LEMMA Pages ==
    /\ PageNo(p_brk) \in LOW .. HIGH - 1
    /\ \A len \in Lens : NPages(len) \in Nat \ {0}
    /\ \A addr \in p_brk .. HIGH * PAGE_SIZE :
          PageNo(addr) \in Nat /\ PageNo(addr) <= HIGH /\ PageNo(p_brk) <= PageNo(addr)
<1>1. LOW \in Nat /\ HIGH \in Nat /\ p_brk \in Nat /\ PAGE_SIZE \in Nat /\ PAGE_SIZE > 0
  BY VMMapAssumption
<1>2. PageNo(p_brk) \in LOW .. HIGH - 1
  BY VMMapAssumption DEF PageNo
<1>3. \A len \in Lens : NPages(len) \in Nat \ {0}
  BY VMMapAssumption DEF NPages
<1>4. ASSUME NEW addr \in p_brk .. HIGH * PAGE_SIZE
      PROVE  PageNo(addr) \in Nat /\ PageNo(addr) <= HIGH /\ PageNo(p_brk) <= PageNo(addr)
  BY <1>1 DEF PageNo
<1> QED BY <1>2, <1>3, <1>4

LEMMA EmptyRange ==
    ASSUME NEW map \in Seq(Areas), NEW lo \in Nat, NEW n \in Nat, vmmap_is_range_empty(map, lo, n),
           NEW p \in LOW .. HIGH, p \in lo .. lo + n - 1, NEW x, In(map, x)
    PROVE  ~Covers(x, p)
<1>1. PICK i \in 1 .. Len(map) : map[i] = x
  BY DEF In
<1>2. x.start \in Nat /\ x.end \in Nat /\ LOW \in Nat /\ HIGH \in Nat
  <2>1. x \in Areas
    BY AreaIn
  <2> QED BY <2>1, VMMapAssumption DEF Areas
<1>3. /\ ~(x.start <= lo /\ lo < x.end)
      /\ ~(x.start < lo + n /\ x.end >= lo + n)
      /\ ~(x.start >= lo /\ x.end <= lo + n)
  BY <1>1 DEF vmmap_is_range_empty, Covers
<1> QED BY <1>2, <1>3 DEF Covers

(* A new area where there is none.                                         *)
LEMMA InsertedShows ==
    ASSUME NEW map \in Seq(Areas), Disjoint(map), NEW a \in Areas, Apart(map, a),
           NEW p \in LOW .. HIGH
    PROVE  Shows(Inserted(map, a), p) = IF Covers(a, p) THEN ShowsOf(a, p) ELSE Shows(map, p)
<1> DEFINE new == Inserted(map, a)
<1>1. new \in Seq(Areas) /\ Disjoint(new) /\ \A x : In(new, x) <=> x = a \/ In(map, x)
  BY InsertedIn
<1> HIDE DEF new
<1>2. CASE Covers(a, p)
  BY <1>1, <1>2, ShowsCovered DEF new
<1>3. CASE ~Covers(a, p) /\ \E x : In(map, x) /\ Covers(x, p)
  <2>1. PICK x : In(map, x) /\ Covers(x, p)
    BY <1>3
  <2>2. Shows(new, p) = ShowsOf(x, p) /\ Shows(map, p) = ShowsOf(x, p)
    BY <1>1, <2>1, ShowsCovered
  <2> QED BY <1>3, <2>2 DEF new
<1>4. CASE ~Covers(a, p) /\ ~ \E x : In(map, x) /\ Covers(x, p)
  <2>1. Shows(new, p) = Nothing
    BY <1>1, <1>4, ShowsNothing
  <2>2. Shows(map, p) = Nothing
    BY <1>4, ShowsNothing
  <2> QED BY <1>4, <2>1, <2>2 DEF new
<1> QED BY <1>2, <1>3, <1>4

(* The n pages from lo on are unmapped, or mapped to obj from off on; the  *)
(* others show what they showed.                                           *)
Unmaps(map, new, lo, n) == \A p \in LOW .. HIGH :
    Shows(new, p) = IF p \in lo .. lo + n - 1 THEN Nothing ELSE Shows(map, p)

Remaps(map, new, lo, n, obj, off) == \A p \in LOW .. HIGH :
    Shows(new, p) = IF p \in lo .. lo + n - 1 THEN [obj |-> obj, off |-> off + p - lo]
                    ELSE Shows(map, p)

(* vmmap_insert of an area for pages that show nothing.                    *)
LEMMA InsertMaps ==
    ASSUME NEW s \in Maps, ~s.panic, Disjoint(s.map), NEW lo \in Nat, NEW n \in Nat \ {0},
           NEW obj \in Objs, NEW off \in Offs,
           \A x : \A p \in LOW .. HIGH : In(s.map, x) /\ p \in lo .. lo + n - 1 => ~Covers(x, p)
    PROVE  LET r == vmmap_insert(s, Area(lo, lo + n, off, obj))
           IN  /\ r \in Maps /\ Disjoint(r.map) /\ r.misplaced = s.misplaced
               /\ \/ r.panic
                  \/ LOW <= lo /\ lo + n <= HIGH /\ Remaps(s.map, r.map, lo, n, obj, off)
<1> DEFINE a == Area(lo, lo + n, off, obj)
           r == vmmap_insert(s, a)
<1>0. s.map \in Seq(Areas)
  BY DEF Maps
<1>1. /\ a \in Drafts /\ (Insertable(a) => LOW <= lo /\ lo + n <= HIGH)
      /\ \A p \in LOW .. HIGH : Covers(a, p) <=> p \in lo .. lo + n - 1
      /\ \A p \in LOW .. HIGH : ShowsOf(a, p) = [obj |-> obj, off |-> off + p - lo]
  <2>1. a.start = lo /\ a.end = lo + n /\ a.off = off /\ a.obj = obj
    BY DEF Area
  <2>2. off \in Nat /\ lo + n \in Nat /\ LOW \in Nat /\ HIGH \in Nat
    BY VMMapAssumption
  <2>3. a \in Drafts
    BY <2>2 DEF Area, Drafts
  <2> HIDE DEF a
  <2>4. \A p \in LOW .. HIGH : Covers(a, p) <=> p \in lo .. lo + n - 1
    BY <2>1, <2>2 DEF Covers
  <2>5. \A p \in LOW .. HIGH : ShowsOf(a, p) = [obj |-> obj, off |-> off + p - lo]
    BY <2>1 DEF ShowsOf
  <2>6. Insertable(a) => LOW <= lo /\ lo + n <= HIGH
    BY <2>1, <2>2 DEF Insertable
  <2> QED BY <2>3, <2>4, <2>5, <2>6
<1> HIDE DEF a
<1>2. /\ r \in Maps /\ r.misplaced = s.misplaced
      /\ Insertable(a) => a \in Areas /\ r.map = Inserted(s.map, a)
      /\ ~Insertable(a) => r.map = s.map /\ r.panic
  BY <1>1, InsertStep
<1> HIDE DEF r
<1>3. CASE Insertable(a)
  <2>1. a \in Areas /\ Apart(s.map, a)
    BY <1>1, <1>2, <1>3 DEF Apart
  <2>2. Disjoint(r.map)
    BY <1>0, <1>2, <1>3, <2>1, InsertedIn
  <2>3. \A p \in LOW .. HIGH :
           Shows(r.map, p) = IF Covers(a, p) THEN ShowsOf(a, p) ELSE Shows(s.map, p)
    BY <1>0, <1>2, <1>3, <2>1, InsertedShows
  <2>4. Remaps(s.map, r.map, lo, n, obj, off)
    BY <1>1, <2>3 DEF Remaps
  <2> QED BY <1>1, <1>2, <1>3, <2>2, <2>4 DEF r, a
<1>4. CASE ~Insertable(a)
  BY <1>2, <1>4 DEF r, a
<1> QED BY <1>3, <1>4

LEMMA MapAtMaps ==
    ASSUME NEW s \in Maps, ~s.panic, Disjoint(s.map), NEW lo \in Nat, NEW n \in Nat \ {0},
           NEW obj \in Objs, NEW off \in Offs, NEW r \in MapAt(s, lo, n, obj, off)
    PROVE  /\ r \in Maps /\ Disjoint(r.map) /\ r.misplaced = s.misplaced
           /\ \/ r.panic
              \/ Unmoved(s.map, r.map)
              \/ Unmaps(s.map, r.map, lo, n)
              \/ Remaps(s.map, r.map, lo, n, obj, off)
<1> DEFINE c == IF vmmap_is_range_empty(s.map, lo, n) THEN s ELSE vmmap_remove(s, lo, n)
           i == vmmap_insert(c, Area(lo, lo + n, off, obj))
<1>0. s.map \in Seq(Areas)
  BY DEF Maps
<1>1. r \in OutOfMemory(s, lo, n) \/ r = c \/ r = Panic(c) \/ (~c.panic /\ r = i)
  BY DEF MapAt
<1>2. /\ c \in Maps /\ Disjoint(c.map) /\ c.misplaced = s.misplaced
      /\ c.panic \/ Unmaps(s.map, c.map, lo, n)
  <2>1. CASE vmmap_is_range_empty(s.map, lo, n)
    <3>1. c = s
      BY <2>1
    <3>2. \A p \in LOW .. HIGH : p \in lo .. lo + n - 1 => Shows(s.map, p) = Nothing
      <4> TAKE p \in LOW .. HIGH
      <4> HAVE p \in lo .. lo + n - 1
      <4>1. \A x : In(s.map, x) => ~Covers(x, p)
        BY <1>0, <2>1, EmptyRange
      <4> QED BY <1>0, <4>1, ShowsNothing
    <3> HIDE DEF c
    <3> QED BY <3>1, <3>2 DEF Unmaps
  <2>2. CASE ~vmmap_is_range_empty(s.map, lo, n)
    <3>1. c = vmmap_remove(s, lo, n)
      BY <2>2
    <3> HIDE DEF c
    <3>2. c \in Maps /\ Disjoint(c.map) /\ c.misplaced = s.misplaced
      BY <3>1, RemoveKeeps
    <3>3. ~c.panic => Unmaps(s.map, c.map, lo, n)
      BY <3>1, RemovedShows DEF Unmaps
    <3> QED BY <3>2, <3>3
  <2> QED BY <2>1, <2>2
<1> HIDE DEF c
<1>3. CASE r = c
  BY <1>2, <1>3
<1>4. CASE ~c.panic /\ r = i
  <2>1. c.map \in Seq(Areas)
    BY <1>2 DEF Maps
  <2>2. ASSUME NEW x, NEW p \in LOW .. HIGH, In(c.map, x), p \in lo .. lo + n - 1, Covers(x, p)
        PROVE  FALSE
    <3>1. Shows(c.map, p) = Nothing
      BY <1>2, <1>4, <2>2 DEF Unmaps
    <3>2. x \in Areas /\ Shows(c.map, p) = ShowsOf(x, p)
      BY <1>2, <2>1, <2>2, AreaIn, ShowsCovered
    <3> QED BY <2>2, <3>1, <3>2, ShowsOfType
  <2>3. /\ i \in Maps /\ Disjoint(i.map) /\ i.misplaced = c.misplaced
        /\ i.panic \/ Remaps(c.map, i.map, lo, n, obj, off)
    BY <1>2, <1>4, <2>2, InsertMaps
  <2> HIDE DEF i
  <2>4. Remaps(c.map, i.map, lo, n, obj, off) => Remaps(s.map, i.map, lo, n, obj, off)
    BY <1>2, <1>4 DEF Unmaps, Remaps
  <2> QED BY <1>2, <1>4, <2>3, <2>4
<1>5. CASE r \in OutOfMemory(s, lo, n)
  BY <1>5, OutOfMemoryKeeps
<1>6. CASE r = Panic(c)
  <2>1. Panic(c) \in Maps /\ Panic(c).map = c.map /\ Panic(c).panic /\ Panic(c).misplaced = c.misplaced
    BY <1>2, PanicFields
  <2> QED BY <1>2, <1>6, <2>1
<1> QED BY <1>1, <1>3, <1>4, <1>5, <1>6

LEMMA FindRangeType ==
    ASSUME NEW map \in Seq(Areas), NEW n, NEW at \in vmmap_find_range(map, n, "HILO")
    PROVE  at \in Nat \union {-1}
<1> DEFINE fit == {i \in 1 .. Len(map) : Fits(GapAbove(map, i), n)}
<1>0. Len(map) \in Nat
  BY LenProperties
<1>1. CASE map = <<>> \/ fit = {}
  BY <1>1 DEF vmmap_find_range, FindHigh, HeadMisread
<1>2. CASE map # <<>> /\ fit # {}
  <2>1. at = map[Greatest(fit)].end
    BY <1>2 DEF vmmap_find_range, FindHigh
  <2>2. Greatest(fit) \in fit
    BY <1>0, <1>2, GreatestOne
  <2>3. Greatest(fit) \in 1 .. Len(map)
    BY <2>2
  <2>4. map[Greatest(fit)] \in Areas
    BY <2>3, ElementOfSeq
  <2> QED BY <2>1, <2>4 DEF Areas
<1> QED BY <1>1, <1>2
LEMMA MapAnywhereMaps ==
    ASSUME NEW s \in Maps, ~s.panic, ~s.misplaced, Disjoint(s.map), NEW n \in Nat \ {0},
           NEW obj \in Objs, NEW off \in Offs, NEW at \in Nat \union {-1}
    PROVE  LET r == MapAnywhere(s, n, obj, off, at)
           IN  /\ r \in Maps
               /\ ~r.misplaced => Disjoint(r.map)
               /\ \/ r = s \/ r.panic \/ r.misplaced
                  \/ at \in LOW .. HIGH /\ at + n <= HIGH /\ Remaps(s.map, r.map, at, n, obj, off)
<1> DEFINE r == MapAnywhere(s, n, obj, off, at)
           a == Area(at, at + n, off, obj)
           i == vmmap_insert(s, a)
           used == at > 0 /\ InUse(s.map, at, n)
<1>1. CASE at = -1
  BY <1>1 DEF MapAnywhere
<1>2. CASE at # -1
  <2>0. at \in Nat /\ off \in Nat /\ LOW \in Nat /\ HIGH \in Nat /\ LOW > 0
    BY <1>2, VMMapAssumption
  <2>1. r = [i EXCEPT !.misplaced = used]
    BY <1>2 DEF MapAnywhere
  <2>2. a \in Drafts /\ a.start = at
    BY <2>0 DEF Area, Drafts
  <2>3. i \in Maps /\ (~Insertable(a) => i.map = s.map /\ i.panic)
    <3> HIDE DEF a
    <3> QED BY <2>2, InsertStep
  <2> HIDE DEF i
  <2>4. used \in BOOLEAN
    OBVIOUS
  <2>5. r \in Maps /\ r.map = i.map /\ r.panic = i.panic /\ r.misplaced = used
    <3> HIDE DEF used, r
    <3> QED BY <2>1, <2>3, <2>4 DEF Maps
  <2> HIDE DEF r
  <2>6. CASE used
    BY <2>5, <2>6 DEF r
  <2>7. CASE ~used /\ at > 0
    <3>1. \A x : \A p \in LOW .. HIGH : In(s.map, x) /\ p \in at .. at + n - 1 => ~Covers(x, p)
      BY <2>7 DEF InUse, In
    <3>2. /\ i \in Maps /\ Disjoint(i.map)
          /\ \/ i.panic
             \/ LOW <= at /\ at + n <= HIGH /\ Remaps(s.map, i.map, at, n, obj, off)
      BY <2>0, <3>1, InsertMaps DEF i
    <3>3. LOW <= at /\ at + n <= HIGH => at \in LOW .. HIGH
      BY <2>0
    <3> QED BY <2>5, <3>2, <3>3 DEF r
  <2>8. CASE ~used /\ at = 0
    <3>1. ~Insertable(a)
      BY <2>0, <2>2, <2>8 DEF Insertable
    <3> QED BY <2>3, <2>5, <3>1 DEF r
  <2> QED BY <2>0, <2>6, <2>7, <2>8
<1> QED BY <1>1, <1>2

(* The pages above b up to e, which showed nothing, go on with what b      *)
(* shows.                                                                  *)
Grows(map, new, b, e) ==
    /\ Shows(map, b) # Nothing
    /\ \A p \in b + 1 .. e - 1 : Shows(map, p) = Nothing
    /\ Remaps(map, new, b + 1, e - b - 1, Shows(map, b).obj, Shows(map, b).off + 1)

LEMMA GrowMaps ==
    ASSUME NEW map \in Seq(Areas), Disjoint(map), NEW b \in LOW .. HIGH - 1,
           NEW i \in 1 .. Len(map), Covers(map[i], b), NEW e \in b + 1 .. HIGH,
           vmmap_is_range_empty(map, b + 1, e - b)
    PROVE  LET new == [map EXCEPT ![i].end = e]
           IN  new \in Seq(Areas) /\ Disjoint(new) /\ Grows(map, new, b, e)
<1> DEFINE a == map[i]
           c == [a EXCEPT !.end = e]
           new == [map EXCEPT ![i].end = e]
<1>0. LOW \in Nat /\ HIGH \in Nat /\ b \in Nat /\ e \in Nat /\ e - b \in Nat /\ b + 1 + (e - b) = e + 1
  BY VMMapAssumption
<1>1. a \in Areas /\ a.start \in Nat /\ a.end \in Nat /\ a.off \in Nat /\ LOW <= a.start
  BY ElementOfSeq DEF Areas
<1>2. a.start <= b /\ a.end = b + 1
  <2>1. a.start <= b /\ b < a.end
    BY DEF Covers
  <2>2. ~(a.start <= b + 1 /\ b + 1 < a.end)
    BY DEF vmmap_is_range_empty, Covers
  <2> QED BY <1>0, <1>1, <2>1, <2>2
<1>3. c \in Areas /\ c.start = a.start /\ c.end = e /\ c.off = a.off /\ c.obj = a.obj
  <2> HIDE DEF a
  <2>1. /\ c.start = a.start /\ c.end = e /\ c.off = a.off /\ c.obj = a.obj
        /\ c \in [start : Nat, end : Nat, off : Nat, obj : Objs \union {Data}]
    BY <1>0, <1>1 DEF Areas
  <2> HIDE DEF c
  <2>2. LOW <= c.start /\ c.start <= c.end /\ c.end <= HIGH
    BY <1>0, <1>1, <1>2, <2>1
  <2> QED BY <2>1, <2>2 DEF Areas
<1>4. /\ new \in Seq(Areas) /\ Len(new) = Len(map) /\ Len(map) \in Nat
      /\ \A j \in 1 .. Len(map) : new[j] = IF j = i THEN c ELSE map[j]
  <2>1. map \in [1 .. Len(map) -> Areas] /\ Len(map) \in Nat
    BY LenProperties, ElementOfSeq
  <2>2. new = [map EXCEPT ![i] = c]
    OBVIOUS
  <2> HIDE DEF c, new
  <2>3. new \in [1 .. Len(map) -> Areas]
    BY <1>3, <2>1, <2>2
  <2>4. \A j \in 1 .. Len(map) : new[j] = IF j = i THEN c ELSE map[j]
    BY <2>1, <2>2
  <2>5. new \in Seq(Areas) /\ Len(new) = Len(map)
    BY <2>1, <2>3
  <2> QED BY <2>1, <2>4, <2>5
<1> HIDE DEF c, new
<1>5. In(map, a) /\ In(new, c)
  BY <1>4 DEF In
<1> DEFINE grown == b + 1 .. e - 1
<1>6. ASSUME NEW p \in grown, NEW x, In(map, x) PROVE ~Covers(x, p)
  <2>1. p \in LOW .. HIGH /\ p \in b + 1 .. (b + 1) + (e - b) - 1 /\ b + 1 \in Nat
    BY <1>0
  <2> QED BY <1>0, <1>6, <2>1, EmptyRange
<1>7. \A p \in LOW .. HIGH : Covers(c, p) <=> Covers(a, p) \/ p \in grown
  BY <1>0, <1>1, <1>2, <1>3 DEF Covers
<1>8. Disjoint(new)
  <2> SUFFICES ASSUME NEW j \in 1 .. Len(map), NEW k \in 1 .. Len(map), NEW p \in LOW .. HIGH,
                      Covers(new[j], p), Covers(new[k], p)
               PROVE  j = k
    BY <1>4 DEF Disjoint
  <2>1. ASSUME NEW l \in 1 .. Len(map) PROVE In(map, map[l])
    BY DEF In
  <2>2. CASE p \in grown
    BY <1>4, <1>6, <2>1, <2>2
  <2>3. CASE p \notin grown
    <3>1. \A l \in 1 .. Len(map) : Covers(new[l], p) => Covers(map[l], p)
      BY <1>4, <1>7, <2>3
    <3> QED BY <3>1 DEF Disjoint
  <2> QED BY <2>2, <2>3
<1>9. Shows(map, b) = ShowsOf(a, b) /\ Shows(map, b) # Nothing
  <2>1. b \in LOW .. HIGH
    BY <1>0
  <2>2. Shows(map, b) = ShowsOf(a, b)
    BY <1>5, <2>1, ShowsCovered
  <2> QED BY <1>1, <2>1, <2>2, ShowsOfType
<1>10. \A p \in grown : Shows(map, p) = Nothing
  BY <1>6, ShowsNothing
<1>11. Remaps(map, new, b + 1, e - b - 1, Shows(map, b).obj, Shows(map, b).off + 1)
  <2> SUFFICES ASSUME NEW p \in LOW .. HIGH
               PROVE  Shows(new, p) = IF p \in grown
                                      THEN [obj |-> a.obj, off |-> (a.off + b - a.start) + 1 + p - (b + 1)]
                                      ELSE Shows(map, p)
    <3>1. b + 1 .. (b + 1) + (e - b - 1) - 1 = grown
      BY <1>0
    <3>2. Shows(map, b).obj = a.obj /\ Shows(map, b).off = a.off + b - a.start
      BY <1>9 DEF ShowsOf
    <3> HIDE DEF grown
    <3> QED BY <3>1, <3>2 DEF Remaps
  <2>1. CASE Covers(c, p)
    <3>1. Shows(new, p) = ShowsOf(c, p)
      BY <1>4, <1>5, <1>8, <2>1, ShowsCovered
    <3>2. ShowsOf(c, p) = ShowsOf(a, p)
      BY <1>3 DEF ShowsOf
    <3>3. CASE p \in grown
      <4>1. a.off + p - a.start = (a.off + b - a.start) + 1 + p - (b + 1)
        <5>1. p \in Nat
          BY <1>0
        <5> HIDE DEF a
        <5> QED BY <1>0, <1>1, <5>1
      <4> QED BY <3>1, <3>2, <3>3, <4>1 DEF ShowsOf
    <3>4. CASE p \notin grown
      <4>1. Covers(a, p)
        BY <1>7, <2>1, <3>4
      <4>2. Shows(map, p) = ShowsOf(a, p)
        BY <1>5, <4>1, ShowsCovered
      <4> QED BY <3>1, <3>2, <3>4, <4>2
    <3> QED BY <3>3, <3>4
  <2>2. CASE ~Covers(c, p)
    <3>1. p \notin grown /\ ~Covers(a, p)
      BY <1>7, <2>2
    <3>2. \A x : Covers(x, p) => (In(new, x) <=> In(map, x))
      BY <1>4, <2>2, <3>1 DEF In
    <3>3. CASE \E x : In(map, x) /\ Covers(x, p)
      <4>1. PICK x : In(map, x) /\ Covers(x, p)
        BY <3>3
      <4>2. Shows(map, p) = ShowsOf(x, p)
        BY <4>1, ShowsCovered
      <4>3. Shows(new, p) = ShowsOf(x, p)
        BY <1>4, <1>8, <3>2, <4>1, ShowsCovered
      <4> QED BY <3>1, <4>2, <4>3
    <3>4. CASE ~ \E x : In(map, x) /\ Covers(x, p)
      <4>1. Shows(map, p) = Nothing
        BY <3>4, ShowsNothing
      <4>2. Shows(new, p) = Nothing
        BY <1>4, <3>2, <3>4, ShowsNothing
      <4> QED BY <3>1, <4>1, <4>2
    <3> QED BY <3>3, <3>4
  <2> QED BY <2>1, <2>2
<1>12. Grows(map, new, b, e)
  BY <1>9, <1>10, <1>11 DEF Grows
<1> QED BY <1>4, <1>8, <1>12 DEF new
-----------------------------------------------------------------------------
(* The steps                                                               *)

(* What a step does to the pages, unless it breaks the address space.      *)
Moved(map, new) ==
    \/ Unmoved(map, new)
    \/ \E lo \in Nat, n \in Nat \ {0} : Unmaps(map, new, lo, n)
    \/ \E lo \in LOW .. HIGH, n \in Nat \ {0}, obj \in Objs, off \in Offs :
          lo + n <= HIGH /\ Remaps(map, new, lo, n, obj, off)
    \/ \E b \in LOW .. HIGH - 1 : \E e \in b + 1 .. HIGH : Grows(map, new, b, e)

StepRight(s, r) ==
    /\ r \in Maps
    /\ ~r.misplaced => Disjoint(r.map)
    /\ r.panic \/ r.misplaced \/ Moved(s.map, r.map)

LEMMA Before ==
    ASSUME VMIInv, Running
    PROVE  st \in Maps /\ ~st.panic /\ ~st.misplaced /\ Disjoint(st.map) /\ st.map \in Seq(Areas)
BY DEF VMIInv, VMTypeOK, Running, Maps, AreasDisjoint, Disjoint

LEMMA PanicRight ==
    ASSUME VMIInv, Running
    PROVE  StepRight(st, Panic(st))
BY Before, PanicFields DEF StepRight

LEMMA MmapRight ==
    ASSUME VMIInv, do_mmap
    PROVE  StepRight(st, st')
<1>1. PICK lo \in 0 .. HIGH, len \in Lens, obj \in Objs, off \in Offs,
           flags \in {"MAP_SHARED", "MAP_FIXED"} :
         Running /\ st' \in vmmap_map(st, lo, NPages(len), flags, obj, off)
  BY DEF do_mmap
<1>2. st \in Maps /\ ~st.panic /\ ~st.misplaced /\ Disjoint(st.map) /\ st.map \in Seq(Areas)
  BY <1>1, Before
<1>3. PICK n \in Nat \ {0} : n = NPages(len)
  BY Pages
<1>4. LOW \in Nat /\ HIGH \in Nat /\ lo \in Nat
  BY VMMapAssumption
<1>5. CASE ~MapArgsOK(lo, n, flags, off)
  <2>1. st' = Panic(st)
    BY <1>1, <1>3, <1>5 DEF vmmap_map
  <2> QED BY <1>1, <2>1, PanicRight
<1>6. CASE MapArgsOK(lo, n, flags, off) /\ lo # 0
  <2>1. st' \in MapAt(st, lo, n, obj, off)
    BY <1>1, <1>3, <1>6 DEF vmmap_map
  <2>2. LOW <= lo /\ lo + n <= HIGH
    BY <1>3, <1>4, <1>6 DEF MapArgsOK
  <2>3. /\ st' \in Maps /\ Disjoint(st'.map) /\ st'.misplaced = st.misplaced
        /\ \/ st'.panic \/ Unmoved(st.map, st'.map)
           \/ Unmaps(st.map, st'.map, lo, n) \/ Remaps(st.map, st'.map, lo, n, obj, off)
    BY <1>2, <1>4, <2>1, MapAtMaps
  <2>4. lo \in LOW .. HIGH
    BY <1>4, <2>2
  <2> QED BY <1>4, <2>2, <2>3, <2>4 DEF StepRight, Moved, Unmoved
<1>7. CASE MapArgsOK(lo, n, flags, off) /\ lo = 0
  <2>1. \/ st' = st
        \/ \E at \in vmmap_find_range(st.map, n, "HILO") : st' = MapAnywhere(st, n, obj, off, at)
    BY <1>1, <1>3, <1>7 DEF vmmap_map
  <2>2. CASE st' = st
    BY <1>2, <2>2 DEF StepRight, Moved, Unmoved
  <2>3. ASSUME NEW at \in vmmap_find_range(st.map, n, "HILO"), st' = MapAnywhere(st, n, obj, off, at)
        PROVE  StepRight(st, st')
    <3>1. at \in Nat \union {-1}
      BY <1>2, FindRangeType
    <3>2. /\ st' \in Maps
          /\ ~st'.misplaced => Disjoint(st'.map)
          /\ \/ st' = st \/ st'.panic \/ st'.misplaced
             \/ at \in LOW .. HIGH /\ at + n <= HIGH /\ Remaps(st.map, st'.map, at, n, obj, off)
      BY <1>2, <2>3, <3>1, MapAnywhereMaps
    <3> QED BY <3>2 DEF StepRight, Moved, Unmoved
  <2> QED BY <2>1, <2>2, <2>3
<1> QED BY <1>5, <1>6, <1>7

LEMMA MunmapRight ==
    ASSUME VMIInv, do_munmap
    PROVE  StepRight(st, st')
<1>1. PICK lo \in 0 .. HIGH, len \in Lens :
         Running /\ st' \in {vmmap_remove(st, lo, NPages(len))} \union OutOfMemory(st, lo, NPages(len))
  BY DEF do_munmap
<1>2. st \in Maps /\ ~st.panic /\ ~st.misplaced /\ Disjoint(st.map)
  BY <1>1, Before
<1>3. NPages(len) \in Nat \ {0} /\ lo \in Nat
  BY Pages, VMMapAssumption
<1>4. CASE st' = vmmap_remove(st, lo, NPages(len))
  <2>1. st' \in Maps /\ Disjoint(st'.map)
    BY <1>2, <1>3, <1>4, RemoveKeeps
  <2>2. ~st'.panic => Unmaps(st.map, st'.map, lo, NPages(len))
    BY <1>2, <1>3, <1>4, RemovedShows DEF Unmaps
  <2> QED BY <1>3, <2>1, <2>2 DEF StepRight, Moved
<1>5. CASE st' \in OutOfMemory(st, lo, NPages(len))
  BY <1>2, <1>3, <1>5, OutOfMemoryKeeps DEF StepRight, Moved
<1> QED BY <1>1, <1>4, <1>5

LEMMA BrkRight ==
    ASSUME VMIInv, do_brk
    PROVE  StepRight(st, st')
<1> DEFINE b == PageNo(p_brk)
           i == vmmap_lookup(st.map, b)
<1>1. PICK addr \in p_brk .. HIGH * PAGE_SIZE :
         /\ Running
         /\ i # 0
         /\ st' = IF addr > p_brk THEN GrowTo(st, i, addr) ELSE ShrinkTo(st, i, addr)
  BY DEF do_brk
<1>2. st \in Maps /\ ~st.panic /\ ~st.misplaced /\ Disjoint(st.map) /\ st.map \in Seq(Areas)
  BY <1>1, Before
<1>3. /\ LOW \in Nat /\ HIGH \in Nat /\ p_brk \in Nat /\ PAGE_SIZE \in Nat
      /\ b \in LOW .. HIGH - 1
      /\ PageNo(addr) \in Nat /\ PageNo(addr) <= HIGH /\ b <= PageNo(addr)
  BY Pages, VMMapAssumption
<1>4. i \in 1 .. Len(st.map) /\ Covers(st.map[i], b)
  BY <1>1, <1>2, LookupFinds
<1>5. st.map[i] \in Areas
  BY <1>2, <1>4, ElementOfSeq
<1> HIDE DEF b, i
<1>6. CASE st' = st
  BY <1>2, <1>6 DEF StepRight, Moved, Unmoved
<1>7. CASE addr > p_brk
  <2> DEFINE e == PageNo(addr)
             new == [st.map EXCEPT ![i].end = e]
  <2>1. CASE ~vmmap_is_range_empty(st.map, b + 1, e - (b + 1) + 1)
    BY <1>1, <1>6, <1>7, <2>1 DEF GrowTo, b
  <2>2. CASE vmmap_is_range_empty(st.map, b + 1, e - (b + 1) + 1)
    <3>1. e - (b + 1) + 1 = e - b
      BY <1>3
    <3>2. e \in b + 1 .. HIGH
      <4>1. ~(st.map[i].start < b + 1 + (e - b) /\ st.map[i].end >= b + 1 + (e - b))
        BY <1>4, <2>2, <3>1 DEF vmmap_is_range_empty
      <4>2. st.map[i].start <= b /\ b < st.map[i].end
        BY <1>4 DEF Covers
      <4>3. st.map[i].start \in Nat /\ st.map[i].end \in Nat
        BY <1>5 DEF Areas
      <4>4. e # b
        BY <1>3, <4>1, <4>2, <4>3
      <4> QED BY <1>3, <4>4
    <3>3. st' = [st EXCEPT !.map = new]
      BY <1>1, <1>7, <2>2 DEF GrowTo, b
    <3>4. new \in Seq(Areas) /\ Disjoint(new) /\ Grows(st.map, new, b, e)
      <4> HIDE DEF e
      <4> QED BY <1>2, <1>3, <1>4, <2>2, <3>1, <3>2, GrowMaps
    <3> HIDE DEF new, e
    <3>5. st' \in Maps /\ st'.map = new
      BY <1>2, <3>3, <3>4, MapField
    <3> QED BY <1>3, <3>2, <3>4, <3>5 DEF StepRight, Moved, Unmoved
  <2> QED BY <2>1, <2>2
<1>8. CASE ~(addr > p_brk)
  <2>1. addr = p_brk
    BY <1>3, <1>8
  <2>2. b - b + 1 = 1
    BY <1>3
  <2>3. ~vmmap_is_range_empty(st.map, b, b - b + 1)
    BY <1>4 DEF vmmap_is_range_empty
  <2>4. st' = st
    BY <1>1, <1>8, <2>1, <2>3 DEF ShrinkTo, b
  <2> QED BY <1>6, <2>4
<1> QED BY <1>7, <1>8

LEMMA ForkRight ==
    ASSUME VMIInv, do_fork
    PROVE  StepRight(st, st')
<1>1. Running /\ (st' = st \/ st' = Panic(st))
  <2>1. st' \in {Panic(st)} \union (IF vmmap_clone(st.map).panic THEN {} ELSE {st})
    BY DEF do_fork
  <2> QED BY <2>1 DEF do_fork
<1>2. StepRight(st, st)
  BY <1>1, Before DEF StepRight, Moved, Unmoved
<1> QED BY <1>1, <1>2, PanicRight

LEMMA NextRight ==
    ASSUME VMIInv, Next
    PROVE  StepRight(st, st')
BY MmapRight, MunmapRight, BrkRight, ForkRight DEF Next

LEMMA InitRight ==
    ASSUME Init
    PROVE  VMIInv
<1> DEFINE a == Area(PageNo(p_brk), PageNo(p_brk) + 1, 0, Data)
<1>1. LOW \in Nat /\ HIGH \in Nat /\ PageNo(p_brk) \in LOW .. HIGH - 1
  BY Pages, VMMapAssumption
<1>2. a \in Areas
  BY <1>1 DEF Area, Areas
<1>3. st = [map |-> <<a>>, panic |-> FALSE, misplaced |-> FALSE]
  BY DEF Init
<1> HIDE DEF a
<1>4. <<a>> \in Seq(Areas) /\ Len(<<a>>) = 1
  BY <1>2
<1>5. VMTypeOK
  BY <1>3, <1>4 DEF VMTypeOK
<1>6. AreasDisjoint
  BY <1>3, <1>4 DEF AreasDisjoint
<1> QED BY <1>5, <1>6 DEF VMIInv

(* The inductive invariant: areas are well formed and lie in user memory,  *)
(* and no page belongs to two of them, whatever vmmap_remove cuts and      *)
(* do_brk grows.                                                           *)
THEOREM VMInvariant == Spec => []VMIInv
<1>1. ASSUME VMIInv, [Next]_vars PROVE VMIInv'
  <2>1. CASE Next
    <3>1. st' \in Maps /\ (~st'.misplaced => Disjoint(st'.map))
      BY <1>1, <2>1, NextRight DEF StepRight
    <3>2. VMTypeOK'
      BY <3>1 DEF VMTypeOK, Maps
    <3>3. AreasDisjoint'
      BY <3>1 DEF AreasDisjoint, Disjoint
    <3> QED BY <3>2, <3>3 DEF VMIInv
  <2>2. CASE UNCHANGED vars
    BY <1>1, <2>2 DEF VMIInv, VMTypeOK, AreasDisjoint, vars
  <2> QED BY <1>1, <2>1, <2>2
<1> QED BY <1>1, InitRight, PTL DEF Spec

(* No page belongs to two areas, unless vmmap_find_range, misled by a list *)
(* out of order, has put an area where there was one.                      *)
THEOREM NoOverlap == Spec => []AreasDisjoint
<1>1. VMIInv => AreasDisjoint
  BY DEF VMIInv
<1> QED BY <1>1, VMInvariant, PTL

(* vmmap_remove, in any map that can arise, unmaps the pages asked for and *)
(* no other, and what is left of the areas shows what it showed.           *)
THEOREM RemovesExactly == Spec => []RemoveExact
<1>1. ASSUME VMIInv PROVE RemoveExact
  <2> SUFFICES ASSUME Running, NEW lo \in LOW .. HIGH, NEW len \in Lens,
                      ~vmmap_remove(st, lo, NPages(len)).panic, NEW p \in LOW .. HIGH - 1
               PROVE  Shows(vmmap_remove(st, lo, NPages(len)).map, p) =
                         IF p \in lo .. lo + NPages(len) - 1 THEN Nothing ELSE Shows(st.map, p)
    BY DEF RemoveExact
  <2>1. st \in Maps /\ ~st.panic /\ Disjoint(st.map)
    BY <1>1, Before
  <2>2. lo \in Nat /\ NPages(len) \in Nat \ {0} /\ p \in LOW .. HIGH
    BY Pages, VMMapAssumption
  <2> QED BY <2>1, <2>2, RemovedShows
<1> QED BY <1>1, VMInvariant, PTL
-----------------------------------------------------------------------------
(* The refinement of PageMap                                               *)

LEMMA PageTypes ==
    ASSUME NEW map \in Seq(Areas)
    PROVE  [p \in LOW .. HIGH - 1 |-> Shows(map, p)] \in
              [LOW .. HIGH - 1 -> [obj : Objs \union {Data}, off : Nat] \union {Nothing}]
<1>1. ASSUME NEW p \in LOW .. HIGH - 1
      PROVE  Shows(map, p) \in [obj : Objs \union {Data}, off : Nat] \union {Nothing}
  <2>1. p \in LOW .. HIGH
    BY VMMapAssumption
  <2> QED BY <2>1, ShowsType
<1> QED BY <1>1

LEMMA UnmapsImplemented ==
    ASSUME NEW lo \in Nat, NEW n \in Nat \ {0}, Unmaps(st.map, st'.map, lo, n)
    PROVE  Abstract!UnmapRange \/ \A p \in LOW .. HIGH - 1 : Shows(st'.map, p) = Shows(st.map, p)
<1> DEFINE l == IF lo < LOW THEN LOW ELSE lo
           h == IF lo + n > HIGH THEN HIGH - 1 ELSE lo + n - 1
<1>0. LOW \in Nat /\ HIGH \in Nat /\ LOW .. HIGH - 1 \subseteq LOW .. HIGH
  BY VMMapAssumption
<1>1. \A p \in LOW .. HIGH - 1 : p \in lo .. lo + n - 1 <=> p \in l .. h
  BY <1>0
<1>2. CASE l \in LOW .. HIGH - 1 /\ h \in LOW .. HIGH - 1
  <2> HIDE DEF l, h
  <2>1. \A p \in LOW .. HIGH - 1 :
           Shows(st'.map, p) = IF p \in l .. h THEN Nothing
                               ELSE [q \in LOW .. HIGH - 1 |-> Shows(st.map, q)][p]
    BY <1>0, <1>1 DEF Unmaps
  <2> QED BY <1>2, <2>1 DEF Abstract!UnmapRange
<1>3. CASE ~(l \in LOW .. HIGH - 1 /\ h \in LOW .. HIGH - 1)
  <2>1. \A p \in LOW .. HIGH - 1 : p \notin lo .. lo + n - 1
    BY <1>0, <1>3
  <2> QED BY <1>0, <2>1 DEF Unmaps
<1> QED BY <1>2, <1>3

LEMMA RemapsImplemented ==
    ASSUME NEW lo \in LOW .. HIGH, NEW n \in Nat \ {0}, NEW obj \in Objs, NEW off \in Offs,
           lo + n <= HIGH, Remaps(st.map, st'.map, lo, n, obj, off)
    PROVE  Abstract!MapRange
<1> DEFINE h == lo + n - 1
<1>0. LOW \in Nat /\ HIGH \in Nat /\ off \in Nat /\ LOW .. HIGH - 1 \subseteq LOW .. HIGH
  BY VMMapAssumption
<1>1. lo \in LOW .. HIGH - 1 /\ h \in LOW .. HIGH - 1 /\ lo <= h /\ lo \in lo .. h
      /\ off + lo - lo = off
  BY <1>0
<1> HIDE DEF h
<1>2. \A p \in LOW .. HIGH - 1 :
         Shows(st'.map, p) = IF p \in lo .. h THEN [obj |-> obj, off |-> off + p - lo]
                             ELSE [q \in LOW .. HIGH - 1 |-> Shows(st.map, q)][p]
  BY <1>0 DEF Remaps, h
<1>3. Shows(st'.map, lo) = [obj |-> obj, off |-> off]
  BY <1>1, <1>2
<1>4. Abstract!Map(lo, h, obj, off)
  BY <1>2 DEF Abstract!Map, Abstract!Show
<1>5. [q \in LOW .. HIGH - 1 |-> Shows(st'.map, q)][lo] = Abstract!Show(obj, off)
  BY <1>1, <1>3 DEF Abstract!Show
<1>6. obj \in Objs \union {Data}
  OBVIOUS
<1> QED BY <1>1, <1>4, <1>5, <1>6 DEF Abstract!MapRange

LEMMA GrowsImplemented ==
    ASSUME NEW b \in LOW .. HIGH - 1, NEW e \in b + 1 .. HIGH, Grows(st.map, st'.map, b, e)
    PROVE  Abstract!Grow \/ \A p \in LOW .. HIGH - 1 : Shows(st'.map, p) = Shows(st.map, p)
<1> DEFINE l == b + 1
           h == e - 1
           page == [q \in LOW .. HIGH - 1 |-> Shows(st.map, q)]
<1>0. LOW \in Nat /\ HIGH \in Nat /\ LOW .. HIGH - 1 \subseteq LOW .. HIGH /\ b \in Nat /\ e \in Nat
  BY VMMapAssumption
<1>1. l + (e - b - 1) - 1 = h /\ l - 1 = b
  BY <1>0
<1>2. /\ page[b] = Shows(st.map, b) /\ page[b] # Nothing
      /\ \A p \in l .. h : Shows(st.map, p) = Nothing
      /\ \A p \in LOW .. HIGH - 1 :
            Shows(st'.map, p) = IF p \in l .. h
                                THEN [obj |-> page[b].obj, off |-> page[b].off + 1 + p - l]
                                ELSE page[p]
  <2> DEFINE S == l .. h
  <2>1. b + 1 .. (b + 1) + (e - b - 1) - 1 = S
    BY <1>0
  <2>2. b + 1 .. e - 1 = S
    OBVIOUS
  <2> HIDE DEF S
  <2> QED BY <1>0, <2>1, <2>2 DEF Grows, Remaps, S
<1> HIDE DEF page
<1>3. CASE e = b + 1
  <2>1. \A p \in LOW .. HIGH - 1 : p \notin l .. h
    BY <1>0, <1>3
  <2>2. \A p \in LOW .. HIGH - 1 : Shows(st'.map, p) = Shows(st.map, p)
    BY <1>2, <2>1 DEF page
  <2> QED BY <2>2
<1>4. CASE e # b + 1
  <2>1. l \in LOW .. HIGH - 1 /\ h \in LOW .. HIGH - 1 /\ l .. h \subseteq LOW .. HIGH - 1
    BY <1>0, <1>4
  <2> HIDE DEF l, h
  <2>2. \A p \in l .. h : page[p] = Nothing
    BY <1>2, <2>1 DEF page
  <2>3. [q \in LOW .. HIGH - 1 |-> Shows(st'.map, q)] =
           [p \in LOW .. HIGH - 1 |-> IF p \in l .. h
                THEN Abstract!Show(page[l - 1].obj, page[l - 1].off + 1 + p - l) ELSE page[p]]
    BY <1>1, <1>2 DEF Abstract!Show
  <2> QED BY <1>1, <1>2, <2>1, <2>2, <2>3 DEF Abstract!Grow, Abstract!Map, page
<1> QED BY <1>3, <1>4
(* Every step of the address space is a step of PageMap: pages only change *)
(* by a range being mapped, unmapped, or joined to the area below it.      *)
THEOREM RefinesPageMap == Spec => ImplementsPageMap
<1>1. Init => Abstract!Init
  <2> SUFFICES ASSUME Init PROVE Abstract!Init
    OBVIOUS
  <2>1. st.map \in Seq(Areas)
    BY InitRight DEF VMIInv, VMTypeOK
  <2>2. ~st.panic /\ ~st.misplaced
    BY DEF Init
  <2> QED BY <2>1, <2>2, PageTypes DEF Abstract!Init, Abstract!Contents
<1>2. ASSUME VMIInv, Next
      PROVE  \/ Abstract!Next
             \/ UNCHANGED <<[p \in LOW .. HIGH - 1 |-> Shows(st.map, p)], st.panic \/ st.misplaced>>
  <2>1. Running
    BY <1>2 DEF Next, do_mmap, do_munmap, do_brk, do_fork
  <2>2. ~st.panic /\ ~st.misplaced
    BY <2>1 DEF Running
  <2>3. StepRight(st, st')
    BY <1>2, NextRight
  <2>4. CASE st'.panic \/ st'.misplaced
    <3>1. st'.map \in Seq(Areas)
      BY <2>3 DEF StepRight, Maps
    <3>2. Abstract!Break
      BY <2>4, <3>1, PageTypes DEF Abstract!Break, Abstract!Contents
    <3> QED BY <2>2, <3>2 DEF Abstract!Next
  <2>5. CASE ~st'.panic /\ ~st'.misplaced
    <3>1. Moved(st.map, st'.map)
      BY <2>3, <2>5 DEF StepRight
    <3>2. \/ Abstract!UnmapRange \/ Abstract!MapRange \/ Abstract!Grow
          \/ \A p \in LOW .. HIGH - 1 : Shows(st'.map, p) = Shows(st.map, p)
      <4>1. LOW .. HIGH - 1 \subseteq LOW .. HIGH
        BY VMMapAssumption
      <4>2. Unmoved(st.map, st'.map) => \A p \in LOW .. HIGH - 1 : Shows(st'.map, p) = Shows(st.map, p)
        BY <4>1 DEF Unmoved
      <4> QED BY <3>1, <4>2, UnmapsImplemented, RemapsImplemented, GrowsImplemented DEF Moved
    <3>3. CASE Abstract!UnmapRange \/ Abstract!MapRange \/ Abstract!Grow
      BY <2>2, <2>5, <3>3 DEF Abstract!Next
    <3>4. CASE \A p \in LOW .. HIGH - 1 : Shows(st'.map, p) = Shows(st.map, p)
      <4>1. [p \in LOW .. HIGH - 1 |-> Shows(st'.map, p)] = [p \in LOW .. HIGH - 1 |-> Shows(st.map, p)]
        BY <3>4
      <4>2. (st'.panic \/ st'.misplaced) = (st.panic \/ st.misplaced)
        BY <2>2, <2>5
      <4> QED BY <4>1, <4>2
    <3> QED BY <3>2, <3>3, <3>4
  <2> QED BY <2>4, <2>5
<1>3. ASSUME UNCHANGED vars
      PROVE  UNCHANGED <<[p \in LOW .. HIGH - 1 |-> Shows(st.map, p)], st.panic \/ st.misplaced>>
  BY <1>3 DEF vars
<1> QED BY <1>1, <1>2, <1>3, VMInvariant, PTL DEF Spec, ImplementsPageMap, Abstract!Spec
-----------------------------------------------------------------------------
(* vmmap_find_range in a list in order                                     *)

LEMMA GapsAbove ==
    ASSUME NEW map \in Seq(Areas), InOrder(map), NEW n \in 1 .. HIGH - LOW,
           NEW i \in 1 .. Len(map)
    PROVE  /\ map[i].end \in LOW .. HIGH /\ map[i].start \in LOW .. HIGH
           /\ map[i].start <= map[i].end
           /\ Fits(GapAbove(map, i), n) <=>
                 map[i].end + n <= (IF i = Len(map) THEN HIGH ELSE map[i + 1].start)
<1>1. LOW \in Nat /\ HIGH \in Nat /\ Len(map) \in Nat /\ n \in Nat
  BY VMMapAssumption, LenProperties
<1>2. ASSUME NEW j \in 1 .. Len(map)
      PROVE  /\ map[j].end \in LOW .. HIGH /\ map[j].start \in LOW .. HIGH
             /\ map[j].start <= map[j].end
  <2>1. map[j] \in Areas
    BY ElementOfSeq
  <2>2. /\ map[j].start \in Nat /\ map[j].end \in Nat
        /\ LOW <= map[j].start /\ map[j].start <= map[j].end /\ map[j].end <= HIGH
    BY <2>1 DEF Areas
  <2> DEFINE x == map[j].start
             y == map[j].end
  <2>3. x \in Nat /\ y \in Nat /\ LOW <= x /\ x <= y /\ y <= HIGH
    BY <2>2
  <2> HIDE DEF x, y
  <2>4. x \in LOW .. HIGH /\ y \in LOW .. HIGH /\ x <= y
    BY <1>1, <2>3
  <2> QED BY <2>4 DEF x, y
<1>3. CASE i = Len(map)
  BY <1>1, <1>2, <1>3 DEF Fits, GapAbove
<1>4. CASE i # Len(map)
  <2>1. i + 1 \in 1 .. Len(map) /\ i < i + 1
    BY <1>1, <1>4
  <2>2. map[i].end <= map[i + 1].start
    BY <2>1 DEF InOrder
  <2>3. map[i + 1].start \in LOW .. HIGH
    BY <1>2, <2>1
  <2> QED BY <1>1, <1>2, <1>4, <2>2, <2>3 DEF Fits, GapAbove
<1> QED BY <1>3, <1>4

(* A gap between two areas, or above the last, is free.                    *)
LEMMA GapIsFree ==
    ASSUME NEW map \in Seq(Areas), InOrder(map), NEW n \in 1 .. HIGH - LOW,
           NEW i \in 1 .. Len(map), Fits(GapAbove(map, i), n)
    PROVE  /\ LOW <= map[i].end /\ map[i].end + n <= HIGH
           /\ Free(map, map[i].end, n)
<1>1. LOW \in Nat /\ HIGH \in Nat /\ Len(map) \in Nat /\ n \in Nat /\ i \in Nat
  BY VMMapAssumption, LenProperties
<1>2. \A j \in 1 .. Len(map) : /\ map[j].end \in LOW .. HIGH /\ map[j].start \in LOW .. HIGH
                               /\ map[j].start <= map[j].end
  BY GapsAbove
<1>3. map[i].end + n <= (IF i = Len(map) THEN HIGH ELSE map[i + 1].start)
  BY GapsAbove
<1>4. ASSUME NEW j \in 1 .. Len(map), j > i PROVE map[j].start >= map[i].end + n
  <2>1. i + 1 \in 1 .. Len(map) /\ i # Len(map)
    BY <1>1, <1>4
  <2>2. map[i + 1].start >= map[i].end + n
    BY <1>1, <1>2, <1>3, <2>1
  <2>3. CASE j = i + 1
    BY <2>2, <2>3
  <2>4. CASE j # i + 1
    <3>1. i + 1 < j
      BY <1>1, <1>4, <2>4
    <3>2. map[i + 1].end <= map[j].start
      BY <2>1, <3>1 DEF InOrder
    <3>3. map[i + 1].start <= map[i + 1].end /\ map[i + 1].start \in Nat /\ map[i + 1].end \in Nat
          /\ map[j].start \in Nat /\ map[i].end \in Nat
      BY <1>1, <1>2, <2>1
    <3> QED BY <1>1, <2>2, <3>2, <3>3, SMTT(30)
  <2> QED BY <2>3, <2>4
<1>5. ASSUME NEW j \in 1 .. Len(map), j < i PROVE map[j].end <= map[i].end
  <2>1. map[j].end <= map[i].start
    BY <1>5 DEF InOrder
  <2> QED BY <1>1, <1>2, <2>1
<1>6. Free(map, map[i].end, n)
  <2> SUFFICES ASSUME NEW j \in 1 .. Len(map)
               PROVE  map[j].end <= map[i].end \/ map[j].start >= map[i].end + n
    BY DEF Free
  <2>1. CASE j = i
    BY <1>1, <1>2, <2>1
  <2>2. j \in Nat
    OBVIOUS
  <2> QED BY <1>1, <1>4, <1>5, <2>1, <2>2
<1>7. map[i].end + n <= HIGH
  <2>1. CASE i = Len(map)
    BY <1>3, <2>1
  <2>2. CASE i # Len(map)
    <3>1. i + 1 \in 1 .. Len(map) /\ map[i].end + n <= map[i + 1].start
      BY <1>1, <1>3, <2>2
    <3>2. map[i + 1].start \in LOW .. HIGH /\ map[i].end \in LOW .. HIGH
      BY <1>2, <3>1
    <3> QED BY <1>1, <3>1, <3>2
  <2> QED BY <2>1, <2>2
<1> QED BY <1>1, <1>2, <1>6, <1>7

(* Above the area below a free range there is a gap that fits it.          *)
LEMMA FreeIsInGap ==
    ASSUME NEW map \in Seq(Areas), InOrder(map), map # <<>>, NEW n \in 1 .. HIGH - LOW,
           NEW lo \in map[1].end .. HIGH - n, Free(map, lo, n)
    PROVE  \E i \in 1 .. Len(map) :
              /\ Fits(GapAbove(map, i), n)
              /\ \A k \in 1 .. Len(map) : k > i => map[k].start >= lo + n
<1> DEFINE below == {i \in 1 .. Len(map) : map[i].end <= lo}
           g == Greatest(below)
<1>1. LOW \in Nat /\ HIGH \in Nat /\ Len(map) \in Nat /\ n \in Nat /\ 1 \in 1 .. Len(map)
  BY VMMapAssumption, EmptySeq, LenProperties
<1>2. \A j \in 1 .. Len(map) : map[j].end \in Nat /\ map[j].start \in Nat
  <2>1. \A j \in 1 .. Len(map) : map[j].end \in LOW .. HIGH /\ map[j].start \in LOW .. HIGH
    BY GapsAbove
  <2> QED BY <1>1, <2>1
<1>3. lo \in Nat /\ map[1].end <= lo /\ lo + n <= HIGH
  BY <1>1, <1>2
<1>4. g \in below /\ \A k \in below : g >= k
  <2>1. below # {} /\ below \in SUBSET (1 .. Len(map))
    BY <1>1, <1>3
  <2> HIDE DEF below
  <2> QED BY <1>1, <2>1, GreatestOne
<1>5. g \in 1 .. Len(map) /\ map[g].end <= lo
  BY <1>4
<1>6. ASSUME NEW k \in 1 .. Len(map), k > g PROVE map[k].start >= lo + n
  <2>1. k \notin below
    BY <1>4, <1>5, <1>6
  <2>2. ~(map[k].end <= lo)
    BY <2>1
  <2> QED BY <2>2 DEF Free
<1> HIDE DEF g, below
<1>7. CASE g = Len(map)
  <2>1. map[g].end \in Nat /\ map[g].end <= lo
    BY <1>2, <1>5
  <2>2. map[g].end + n <= HIGH
    BY <1>1, <1>3, <2>1
  <2>3. Fits(GapAbove(map, g), n)
    BY <1>5, <1>7, <2>2, GapsAbove
  <2> QED BY <1>5, <1>6, <2>3
<1>8. CASE g # Len(map)
  <2>1. g + 1 \in 1 .. Len(map) /\ g + 1 > g
    BY <1>1, <1>5, <1>8
  <2>2. map[g + 1].start >= lo + n /\ map[g + 1].start \in Nat
    BY <1>2, <1>6, <2>1
  <2>3. map[g].end + n <= map[g + 1].start
    <3> DEFINE x == map[g].end
               y == map[g + 1].start
    <3>1. x \in Nat /\ y \in Nat /\ x <= lo /\ lo + n <= y
      BY <1>1, <1>2, <1>5, <2>2
    <3> HIDE DEF x, y
    <3>2. x + n <= y
      BY <1>1, <1>3, <3>1
    <3> QED BY <3>2 DEF x, y
  <2>4. Fits(GapAbove(map, g), n)
    <3>1. Fits(GapAbove(map, g), n) <=>
              map[g].end + n <= (IF g = Len(map) THEN HIGH ELSE map[g + 1].start)
      BY <1>5, GapsAbove
    <3> QED BY <1>8, <2>3, <3>1
  <2> QED BY <1>5, <1>6, <2>4
<1> QED BY <1>7, <1>8

(* vmmap_find_range, high to low, as long as the areas lie one above the   *)
(* other: the range it returns is free, in user memory and in the highest  *)
(* gap that is large enough, and it returns one whenever there is one      *)
(* above the first area.                                                   *)
THEOREM FindsRange == Spec => []FindRangeRight
<1>1. ASSUME VMIInv PROVE FindRangeRight
  <2> SUFFICES ASSUME st.map # <<>>, InOrder(st.map), NEW n \in 1 .. HIGH - LOW,
                      NEW at \in vmmap_find_range(st.map, n, "HILO")
               PROVE  /\ at > 0 =>
                            /\ LOW <= at /\ at + n <= HIGH /\ Free(st.map, at, n)
                            /\ \A lo \in at .. HIGH - n :
                                  Free(st.map, lo, n) => Free(st.map, at, lo + n - at)
                      /\ (\E lo \in st.map[1].end .. HIGH - n : Free(st.map, lo, n)) => at > 0
    BY DEF FindRangeRight
  <2> DEFINE map == st.map
             fit == {i \in 1 .. Len(map) : Fits(GapAbove(map, i), n)}
             g == Greatest(fit)
  <2>1. map \in Seq(Areas)
    BY <1>1 DEF VMIInv, VMTypeOK
  <2>2. Len(map) \in Nat /\ LOW \in Nat /\ HIGH \in Nat /\ LOW > 0 /\ n \in Nat
    BY <2>1, VMMapAssumption, LenProperties
  <2> HIDE DEF map
  <2>3. CASE fit = {}
    <3>1. at \in {-1, 0}
      BY <2>3 DEF vmmap_find_range, FindHigh, HeadMisread, map
    <3>2. ~ \E lo \in map[1].end .. HIGH - n : Free(map, lo, n)
      BY <2>1, <2>3, FreeIsInGap DEF map
    <3> QED BY <3>1, <3>2 DEF map
  <2>4. CASE fit # {}
    <3>1. at = map[g].end
      BY <2>4 DEF vmmap_find_range, FindHigh, map
    <3>2. g \in fit /\ \A i \in fit : g >= i
      BY <2>2, <2>4, GreatestOne
    <3>3. /\ g \in 1 .. Len(map) /\ Fits(GapAbove(map, g), n)
          /\ \A i \in 1 .. Len(map) : Fits(GapAbove(map, i), n) => i <= g
      BY <3>2
    <3> HIDE DEF g
    <3>4. LOW <= map[g].end /\ map[g].end + n <= HIGH /\ Free(map, map[g].end, n)
      BY <2>1, <3>3, GapIsFree DEF map
    <3>5. at > 0 /\ LOW <= at /\ at + n <= HIGH /\ Free(map, at, n) /\ at \in Nat
      <4>1. map[g].end \in LOW .. HIGH
        BY <2>1, <3>3, GapsAbove DEF map
      <4> QED BY <2>2, <3>1, <3>4, <4>1
    <3>6. ASSUME NEW i \in 1 .. Len(map), i <= g PROVE map[i].end <= at
      <4>1. CASE i = g
        BY <3>1, <3>5, <4>1
      <4>2. CASE i # g
        <5>1. map[i].end <= map[g].start
          BY <3>3, <3>6, <4>2 DEF InOrder, map
        <5>2. /\ map[i].end \in LOW .. HIGH /\ map[g].start \in LOW .. HIGH
              /\ map[g].start <= map[g].end
          BY <2>1, <3>3, GapsAbove DEF map
        <5> QED BY <2>2, <3>1, <3>5, <5>1, <5>2
      <4> QED BY <4>1, <4>2
    <3>7. ASSUME NEW lo \in at .. HIGH - n, Free(map, lo, n) PROVE Free(map, at, lo + n - at)
      <4>1. 1 \in 1 .. Len(map) /\ map # <<>> /\ map[1].end <= at /\ map[1].end \in Nat
        <5>1. 1 \in 1 .. Len(map) /\ 1 <= g
          BY <2>2, <3>3
        <5>2. map[1].end \in LOW .. HIGH
          BY <2>1, <5>1, GapsAbove DEF map
        <5> QED BY <2>2, <3>6, <5>1, <5>2 DEF map
      <4>2. lo \in map[1].end .. HIGH - n /\ lo \in Nat
        BY <2>2, <3>5, <4>1
      <4>3. PICK i \in 1 .. Len(map) :
               /\ Fits(GapAbove(map, i), n)
               /\ \A k \in 1 .. Len(map) : k > i => map[k].start >= lo + n
        BY <2>1, <3>7, <4>1, <4>2, FreeIsInGap DEF map
      <4>4. i <= g
        BY <3>3, <4>3
      <4> SUFFICES ASSUME NEW k \in 1 .. Len(map)
                   PROVE  map[k].end <= at \/ map[k].start >= at + (lo + n - at)
        BY DEF Free
      <4>5. at + (lo + n - at) = lo + n
        BY <2>2, <3>5, <4>2
      <4>6. CASE k <= g
        BY <3>6, <4>6
      <4>7. CASE ~(k <= g)
        <5>1. k > i
          BY <2>2, <3>3, <4>4, <4>7
        <5> QED BY <4>3, <4>5, <5>1
      <4> QED BY <4>6, <4>7
    <3> QED BY <3>5, <3>7 DEF map
  <2> QED BY <2>3, <2>4
<1> QED BY <1>1, VMInvariant, PTL
=============================================================================
