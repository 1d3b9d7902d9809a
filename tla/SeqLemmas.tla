------------------------------ MODULE SeqLemmas ------------------------------
(***************************************************************************)
(* Facts about sequences that the proofs about the kernel's lists cite:    *)
(* where an element is found, what inserting and removing one does to a    *)
(* list on which nothing is twice; and induction over the numbers, stated  *)
(* of sets.                                                                *)
(***************************************************************************)
EXTENDS Integers, SequencesExt, SequenceTheorems, WellFoundedInduction, TLAPS

(* The elements of a list.                                                 *)
Elements(s) == {s[i] : i \in 1..Len(s)}

-----------------------------------------------------------------------------
(* A set of numbers that is not empty has a least one.                     *)
LEMMA LeastNumber ==
    ASSUME NEW T \in SUBSET Nat, T # {}
    PROVE  \E x \in T : \A y \in T : x <= y
<1> DEFINE R == {p \in Nat \X Nat : p[1] < p[2]}
<1>1. PICK x \in T : \A y \in T : <<y, x>> \notin R
  <2>1. IsWellFoundedOn(R, Nat)
    BY NatLessThanWellFounded DEF OpToRel
  <2>2. QED BY <2>1, WFMin
<1>2. ASSUME NEW y \in T PROVE x <= y
  <2>1. x \in Nat /\ y \in Nat /\ <<y, x>> \notin R
    BY <1>1, <1>2
  <2>2. y < x => <<y, x>> \in R
    BY <2>1
  <2>3. QED BY <2>1, <2>2
<1>3. QED BY <1>2

(* A set that holds 0, and with a number the next one, holds them all.     *)
LEMMA SetInduction ==
    ASSUME NEW S, 0 \in S, \A n \in Nat : n \in S => n + 1 \in S
    PROVE  \A n \in Nat : n \in S
<1> SUFFICES ASSUME Nat \ S # {} PROVE FALSE
  OBVIOUS
<1>1. PICK x \in Nat \ S : \A y \in Nat \ S : x <= y
  BY LeastNumber
<1>2. x # 0 /\ x - 1 \in Nat /\ x - 1 \in S
  BY <1>1
<1>3. QED BY <1>1, <1>2

(* The same up to a bound.                                                 *)
LEMMA IntervalInduction ==
    ASSUME NEW S, NEW m \in Nat, 0 \in S, \A n \in 0..m-1 : n \in S => n + 1 \in S
    PROVE  \A n \in 0..m : n \in S
<1> DEFINE U == S \cup {n \in Nat : n > m}
<1>1. 0 \in U
  OBVIOUS
<1>2. ASSUME NEW n \in Nat, n \in U PROVE n + 1 \in U
  BY <1>2
<1>3. \A n \in Nat : n \in U
  <2> HIDE DEF U
  <2>1. QED BY <1>1, <1>2, SetInduction
<1>4. QED BY <1>3

(* The function on 0..n whose first value is a and whose value at i comes  *)
(* from the one before by g[i]: what a recursive definition along a list   *)
(* denotes.                                                                *)
Iterate(A, n, a, g) ==
    CHOOSE h \in [0..n -> A] : h[0] = a /\ \A i \in 1..n : h[i] = g[i][h[i-1]]

LEMMA Iteration ==
    ASSUME NEW A, NEW a \in A, NEW n \in Nat, NEW g \in [1..n -> [A -> A]]
    PROVE  /\ Iterate(A, n, a, g) \in [0..n -> A]
           /\ Iterate(A, n, a, g)[0] = a
           /\ \A i \in 1..n :
                 Iterate(A, n, a, g)[i] = g[i][Iterate(A, n, a, g)[i-1]]
<1> DEFINE Good(m, h) == h[0] = a /\ \A i \in 1..m : h[i] = g[i][h[i-1]]
           S == {m \in 0..n : \E h \in [0..m -> A] : Good(m, h)}
<1>1. 0 \in S
  <2> DEFINE h == [i \in 0..0 |-> a]
  <2>1. h \in [0..0 -> A] /\ Good(0, h)
    OBVIOUS
  <2>2. \E k \in [0..0 -> A] : Good(0, k)
    <3> HIDE DEF h, Good
    <3>1. QED BY <2>1
  <2>3. QED BY <2>2
<1>2. ASSUME NEW m \in 0..n-1, m \in S PROVE m + 1 \in S
  <2>1. PICK h \in [0..m -> A] : Good(m, h)
    BY <1>2
  <2> DEFINE e == g[m+1][h[m]]
             k == [i \in 0..m+1 |-> IF i = m+1 THEN e ELSE h[i]]
  <2>2. e \in A
    OBVIOUS
  <2>3. k \in [0..m+1 -> A]
    BY <2>2
  <2>4. k[0] = a
    BY <2>1
  <2>5. ASSUME NEW i \in 1..m+1 PROVE k[i] = g[i][k[i-1]]
    <3>1. CASE i = m+1
      <4>1. k[i] = e /\ k[i-1] = h[m]
        BY <3>1
      <4>2. QED BY <3>1, <4>1
    <3>2. CASE i # m+1
      <4>1. k[i] = h[i] /\ k[i-1] = h[i-1] /\ i \in 1..m
        BY <3>2
      <4>2. QED BY <2>1, <4>1
    <3>3. QED BY <3>1, <3>2
  <2> HIDE DEF k
  <2>6. QED BY <2>3, <2>4, <2>5, SMTT(30)
<1>3. \A m \in 0..n : m \in S
  <2> HIDE DEF S
  <2>1. QED BY <1>1, <1>2, IntervalInduction
<1>4. \E h \in [0..n -> A] : Good(n, h)
  BY <1>3
<1>5. QED BY <1>4 DEF Iterate

(* The minimum of a set of numbers that is not empty.                      *)
LEMMA MinOf ==
    ASSUME NEW I \in SUBSET Nat, I # {}
    PROVE  Min(I) \in I /\ \A i \in I : Min(I) <= i
BY LeastNumber DEF Min

(* A function on 1..n is a sequence.                                       *)
LEMMA FunctionIsSeq ==
    ASSUME NEW S, NEW n \in Nat, NEW f \in [1..n -> S]
    PROVE  f \in Seq(S) /\ Len(f) = n
OBVIOUS

-----------------------------------------------------------------------------
(* Inserting an element.                                                   *)
LEMMA InsertAtFacts ==
    ASSUME NEW S, NEW s \in Seq(S), NEW n \in 1..Len(s)+1, NEW e \in S
    PROVE  /\ InsertAt(s, n, e) \in Seq(S)
           /\ Len(InsertAt(s, n, e)) = Len(s) + 1
           /\ \A i \in 1..Len(s)+1 :
                 InsertAt(s, n, e)[i] = IF i < n THEN s[i] ELSE IF i = n THEN e ELSE s[i-1]
<1> DEFINE a == SubSeq(s, 1, n - 1)
           b == SubSeq(s, n, Len(s))
<1>1. Len(s) \in Nat /\ n \in Int
  BY LenProperties
<1>2. /\ a \in Seq(S) /\ Len(a) = n - 1
      /\ \A i \in 1..n-1 : a[i] = s[i]
  BY <1>1, ElementOfSeq, SubSeqProperties
<1>3. /\ b \in Seq(S) /\ Len(b) = Len(s) - n + 1
      /\ \A i \in 1..Len(s)-n+1 : b[i] = s[n + i - 1]
  BY <1>1, ElementOfSeq, SubSeqProperties
<1>4. <<e>> \in Seq(S) /\ Len(<<e>>) = 1 /\ <<e>>[1] = e
  OBVIOUS
<1> HIDE DEF a, b
<1>5. /\ a \o <<e>> \in Seq(S) /\ Len(a \o <<e>>) = n
      /\ \A i \in 1..n : (a \o <<e>>)[i] = IF i < n THEN s[i] ELSE e
  BY <1>1, <1>2, <1>4, ConcatProperties
<1>6. /\ (a \o <<e>>) \o b \in Seq(S)
      /\ Len((a \o <<e>>) \o b) = Len(s) + 1
      /\ \A i \in 1..Len(s)+1 : ((a \o <<e>>) \o b)[i] =
             IF i <= n THEN (a \o <<e>>)[i] ELSE b[i - n]
  BY <1>1, <1>3, <1>5, ConcatProperties
<1> DEFINE t == (a \o <<e>>) \o b
<1> HIDE DEF t
<1>7. ASSUME NEW i \in 1..Len(s)+1
      PROVE  t[i] = IF i < n THEN s[i] ELSE IF i = n THEN e ELSE s[i-1]
  <2>1. CASE i <= n
    BY <1>1, <1>5, <1>6, <2>1 DEF t
  <2>2. CASE i > n
    <3>1. i - n \in 1..Len(s)-n+1 /\ n + (i - n) - 1 = i - 1
      BY <1>1, <2>2
    <3>2. t[i] = b[i - n] /\ b[i - n] = s[n + (i - n) - 1]
      BY <1>1, <1>3, <1>6, <2>2, <3>1 DEF t
    <3>3. QED BY <1>1, <2>2, <3>1, <3>2
  <2>3. QED BY <1>1, <2>1, <2>2
<1>8. InsertAt(s, n, e) = t
  BY DEF InsertAt, a, b, t
<1>9. t \in Seq(S) /\ Len(t) = Len(s) + 1
  BY <1>6 DEF t
<1>10. QED BY <1>7, <1>8, <1>9

LEMMA InsertAtParts ==
    ASSUME NEW S, NEW s \in Seq(S), NEW n \in 1..Len(s)+1, NEW e \in S
    PROVE  /\ Len(InsertAt(s, n, e)) = Len(s) + 1
           /\ \A i \in 1..n-1 : InsertAt(s, n, e)[i] = s[i]
           /\ InsertAt(s, n, e)[n] = e
           /\ \A i \in n+1..Len(s)+1 : InsertAt(s, n, e)[i] = s[i-1]
<1> DEFINE t == InsertAt(s, n, e)
<1>1. /\ Len(t) = Len(s) + 1
      /\ \A i \in 1..Len(s)+1 : t[i] = IF i < n THEN s[i] ELSE IF i = n THEN e ELSE s[i-1]
  BY InsertAtFacts
<1> HIDE DEF t
<1>2. Len(s) \in Nat
  BY LenProperties
<1>3. ASSUME NEW i \in 1..n-1 PROVE t[i] = s[i]
  BY <1>1, <1>2
<1>4. t[n] = e
  BY <1>1, <1>2
<1>5. ASSUME NEW i \in n+1..Len(s)+1 PROVE t[i] = s[i-1]
  BY <1>1, <1>2
<1>6. QED BY <1>1, <1>3, <1>4, <1>5 DEF t

(* Removing the element at a place.                                        *)
LEMMA RemoveAtFacts ==
    ASSUME NEW S, NEW s \in Seq(S), NEW n \in 1..Len(s)
    PROVE  /\ RemoveAt(s, n) \in Seq(S)
           /\ Len(RemoveAt(s, n)) = Len(s) - 1
           /\ \A i \in 1..Len(s)-1 :
                 RemoveAt(s, n)[i] = IF i < n THEN s[i] ELSE s[i+1]
<1> DEFINE a == SubSeq(s, 1, n - 1)
           b == SubSeq(s, n + 1, Len(s))
<1>1. Len(s) \in Nat /\ n \in Int
  BY LenProperties
<1>2. /\ a \in Seq(S) /\ Len(a) = n - 1
      /\ \A i \in 1..n-1 : a[i] = s[i]
  BY <1>1, ElementOfSeq, SubSeqProperties
<1>3. /\ b \in Seq(S) /\ Len(b) = Len(s) - n
      /\ \A i \in 1..Len(s)-n : b[i] = s[n + i]
  BY <1>1, ElementOfSeq, SubSeqProperties
<1> HIDE DEF a, b
<1> DEFINE t == a \o b
<1>4. /\ t \in Seq(S) /\ Len(t) = Len(a) + Len(b)
      /\ \A i \in 1..Len(a)+Len(b) : t[i] = IF i <= Len(a) THEN a[i] ELSE b[i - Len(a)]
  BY <1>2, <1>3, ConcatProperties
<1> HIDE DEF t
<1>5. Len(a) + Len(b) = Len(s) - 1
  BY <1>1, <1>2, <1>3
<1>6. ASSUME NEW i \in 1..Len(s)-1
      PROVE  t[i] = IF i < n THEN s[i] ELSE s[i+1]
  <2>1. CASE i < n
    BY <1>1, <1>2, <1>4, <1>5, <2>1
  <2>2. CASE i >= n
    <3>1. i - (n-1) \in 1..Len(s)-n /\ n + (i - (n-1)) = i + 1
      BY <1>1, <2>2
    <3>2. b[i - (n-1)] = s[n + (i - (n-1))]
      BY <1>3, <3>1
    <3>3. i \in 1..Len(a)+Len(b) /\ ~(i <= Len(a)) /\ i - Len(a) = i - (n-1)
      BY <1>1, <1>2, <1>5, <2>2
    <3>4. t[i] = b[i - Len(a)]
      BY <1>4, <3>3
    <3>5. QED BY <1>1, <2>2, <3>1, <3>2, <3>3, <3>4
  <2>3. QED BY <1>1, <2>1, <2>2
<1>7. RemoveAt(s, n) = t
  BY DEF RemoveAt, a, b, t
<1>8. QED BY <1>4, <1>5, <1>6, <1>7

-----------------------------------------------------------------------------
(* A new element, put at the end (0) or at place n.                        *)
LEMMA Enlisted ==
    ASSUME NEW S, NEW s \in Seq(S), NEW e \in S, NEW n \in 0..Len(s)+1
    PROVE  LET t == IF n = 0 THEN Append(s, e) ELSE InsertAt(s, n, e)
           IN  /\ t \in Seq(S) /\ Len(t) = Len(s) + 1 /\ t # <<>>
               /\ Elements(t) = Elements(s) \cup {e}
               /\ e \notin Elements(s) /\ IsInjective(s) => IsInjective(t)
               /\ Head(t) = e \/ (s # <<>> /\ Head(t) = Head(s))
<1> DEFINE t == IF n = 0 THEN Append(s, e) ELSE InsertAt(s, n, e)
<1>1. Len(s) \in Nat /\ DOMAIN s = 1..Len(s)
  BY LenProperties
<1>2. PICK k \in 1..Len(s)+1 :
         /\ t \in Seq(S) /\ Len(t) = Len(s) + 1
         /\ \A i \in 1..Len(s)+1 :
               t[i] = IF i < k THEN s[i] ELSE IF i = k THEN e ELSE s[i-1]
  <2>1. CASE n = 0
    <3>1. /\ t \in Seq(S) /\ Len(t) = Len(s) + 1
          /\ \A i \in 1..Len(s)+1 : t[i] = IF i = Len(s)+1 THEN e ELSE s[i]
      BY <1>1, <2>1, AppendProperties
    <3>2. Len(s) + 1 \in 1..Len(s)+1
      BY <1>1
    <3>3. \A i \in 1..Len(s)+1 :
             t[i] = IF i < Len(s)+1 THEN s[i] ELSE IF i = Len(s)+1 THEN e ELSE s[i-1]
      BY <1>1, <3>1
    <3>4. QED BY <3>1, <3>2, <3>3
  <2>2. CASE n # 0
    <3>1. n \in 1..Len(s)+1 /\ t = InsertAt(s, n, e)
      BY <1>1, <2>2
    <3>2. InsertAt(s, n, e) \in Seq(S) /\ Len(InsertAt(s, n, e)) = Len(s) + 1
      BY <3>1, InsertAtFacts
    <3>3. \A i \in 1..Len(s)+1 : InsertAt(s, n, e)[i] =
                IF i < n THEN s[i] ELSE IF i = n THEN e ELSE s[i-1]
      BY <3>1, InsertAtFacts
    <3>4. QED BY <3>1, <3>2, <3>3
  <2>3. QED BY <2>1, <2>2
<1> HIDE DEF t
<1>3. DOMAIN t = 1..Len(s)+1 /\ t # <<>>
  BY <1>1, <1>2, LenProperties, EmptySeq
<1>4. Elements(t) = Elements(s) \cup {e}
  <2>1. ASSUME NEW i \in 1..Len(t) PROVE t[i] \in Elements(s) \cup {e}
    <3>1. CASE i < k
      BY <1>1, <1>2, <3>1 DEF Elements
    <3>2. CASE i = k
      BY <1>1, <1>2, <3>2
    <3>3. CASE i > k
      <4>1. i - 1 \in 1..Len(s) /\ t[i] = s[i-1]
        BY <1>1, <1>2, <3>3
      <4>2. QED BY <4>1 DEF Elements
    <3>4. QED BY <1>1, <1>2, <3>1, <3>2, <3>3
  <2>2. ASSUME NEW i \in 1..Len(s) PROVE \E j \in 1..Len(t) : t[j] = s[i]
    <3>1. CASE i < k
      BY <1>1, <1>2, <3>1
    <3>2. CASE i >= k
      <4>1. i + 1 \in 1..Len(t) /\ t[i + 1] = s[i]
        BY <1>1, <1>2, <3>2
      <4>2. QED BY <4>1
    <3>3. QED BY <1>1, <1>2, <3>1, <3>2
  <2>3. k \in 1..Len(t) /\ t[k] = e
    BY <1>1, <1>2
  <2>4. Elements(t) \subseteq Elements(s) \cup {e}
    BY <2>1 DEF Elements
  <2>5. Elements(s) \cup {e} \subseteq Elements(t)
    BY <2>2, <2>3 DEF Elements
  <2>6. QED BY <2>4, <2>5
<1>5. ASSUME e \notin Elements(s), IsInjective(s) PROVE IsInjective(t)
  <2>1. SUFFICES ASSUME NEW i \in 1..Len(s)+1, NEW j \in 1..Len(s)+1, t[i] = t[j], i < j
                 PROVE  FALSE
    BY <1>1, <1>3 DEF IsInjective
  <2>2. \A m \in 1..Len(s) : s[m] # e
    BY <1>5 DEF Elements
  <2>3. \A m, l \in 1..Len(s) : s[m] = s[l] => m = l
    BY <1>1, <1>5 DEF IsInjective
  <2>4. CASE i = k \/ j = k
    BY <1>1, <1>2, <2>1, <2>2, <2>4
  <2>5. CASE i # k /\ j # k
    <3> DEFINE m == IF i < k THEN i ELSE i - 1
               l == IF j < k THEN j ELSE j - 1
    <3>1. m \in 1..Len(s) /\ l \in 1..Len(s) /\ m # l
      BY <1>1, <1>2, <2>1, <2>5
    <3>2. s[m] = t[i] /\ s[l] = t[j]
      BY <1>1, <1>2, <2>5
    <3> HIDE DEF m, l
    <3>3. QED BY <2>1, <2>3, <3>1, <3>2
  <2>6. QED BY <2>4, <2>5
<1>6. Head(t) = e \/ (s # <<>> /\ Head(t) = Head(s))
  <2>1. Head(t) = t[1]
    BY <1>2, <1>3
  <2>2. CASE k = 1
    BY <1>1, <1>2, <2>1, <2>2
  <2>3. CASE k # 1
    BY <1>1, <1>2, <2>1, <2>3, EmptySeq
  <2>4. QED BY <2>2, <2>3
<1>7. QED BY <1>2, <1>3, <1>4, <1>5, <1>6 DEF t

(* An element found first at place k and removed from there.               *)
LEMMA Removed ==
    ASSUME NEW S, NEW s \in Seq(S), NEW k \in 1..Len(s), IsInjective(s)
    PROVE  /\ RemoveAt(s, k) \in Seq(S) /\ Len(RemoveAt(s, k)) = Len(s) - 1
           /\ Elements(RemoveAt(s, k)) = Elements(s) \ {s[k]}
           /\ IsInjective(RemoveAt(s, k))
<1> DEFINE t == RemoveAt(s, k)
<1>1. Len(s) \in Nat /\ DOMAIN s = 1..Len(s)
  BY LenProperties
<1>2. /\ t \in Seq(S) /\ Len(t) = Len(s) - 1
      /\ \A i \in 1..Len(s)-1 : t[i] = IF i < k THEN s[i] ELSE s[i+1]
  BY RemoveAtFacts
<1> HIDE DEF t
<1>3. DOMAIN t = 1..Len(s)-1
  BY <1>2, LenProperties
<1>4. \A m, l \in 1..Len(s) : s[m] = s[l] => m = l
  BY <1>1 DEF IsInjective
<1>5. Elements(t) = Elements(s) \ {s[k]}
  <2>1. ASSUME NEW i \in 1..Len(t) PROVE t[i] \in Elements(s) \ {s[k]}
    <3>1. CASE i < k
      BY <1>1, <1>2, <1>4, <3>1 DEF Elements
    <3>2. CASE i >= k
      <4>1. i + 1 \in 1..Len(s) /\ i + 1 # k /\ t[i] = s[i + 1]
        BY <1>1, <1>2, <3>2
      <4>2. QED BY <1>4, <4>1 DEF Elements
    <3>3. QED BY <1>1, <1>2, <3>1, <3>2
  <2>2. ASSUME NEW i \in 1..Len(s), s[i] # s[k] PROVE \E j \in 1..Len(t) : t[j] = s[i]
    <3>1. CASE i < k
      BY <1>1, <1>2, <3>1
    <3>2. CASE i > k
      <4>1. i - 1 \in 1..Len(t) /\ t[i - 1] = s[i]
        BY <1>1, <1>2, <3>2
      <4>2. QED BY <4>1
    <3>3. QED BY <1>1, <2>2, <3>1, <3>2
  <2>3. QED BY <2>1, <2>2 DEF Elements
<1>6. IsInjective(t)
  <2>1. SUFFICES ASSUME NEW i \in 1..Len(s)-1, NEW j \in 1..Len(s)-1, t[i] = t[j], i < j
                 PROVE  FALSE
    BY <1>1, <1>3 DEF IsInjective
  <2>2. QED BY <1>1, <1>2, <1>4, <2>1
<1>7. QED BY <1>2, <1>5, <1>6 DEF t

(* Removing an element from a list on which nothing is twice.              *)
LEMMA Delisted ==
    ASSUME NEW S, NEW s \in Seq(S), NEW e, IsInjective(s)
    PROVE  /\ RemoveFirst(s, e) \in Seq(S)
           /\ Elements(RemoveFirst(s, e)) = Elements(s) \ {e}
           /\ IsInjective(RemoveFirst(s, e))
           /\ e \notin Elements(s) => RemoveFirst(s, e) = s
           /\ e \in Elements(s) => Len(RemoveFirst(s, e)) = Len(s) - 1
<1> DEFINE I == {i \in 1..Len(s) : s[i] = e}
<1>1. CASE I = {}
  BY <1>1 DEF RemoveFirst, Elements
<1>2. CASE I # {}
  <2>1. Min(I) \in I
    <3>1. I \in SUBSET Nat
      OBVIOUS
    <3>2. QED BY <1>2, <3>1, MinOf
  <2>2. RemoveFirst(s, e) = RemoveAt(s, Min(I))
    BY <1>2 DEF RemoveFirst, SelectInSeq
  <2> DEFINE k == Min(I)
  <2>3. k \in 1..Len(s) /\ s[k] = e
    BY <2>1
  <2>4. e \in Elements(s)
    BY <2>3 DEF Elements
  <2> HIDE DEF k
  <2>5. /\ RemoveAt(s, k) \in Seq(S) /\ Len(RemoveAt(s, k)) = Len(s) - 1
        /\ Elements(RemoveAt(s, k)) = Elements(s) \ {e}
        /\ IsInjective(RemoveAt(s, k))
    BY <2>3, Removed
  <2>6. RemoveFirst(s, e) = RemoveAt(s, k)
    BY <2>2 DEF k
  <2>7. QED BY <2>4, <2>5, <2>6
<1>3. QED BY <1>1, <1>2

(* The first element leaves the list.                                      *)
LEMMA HeadLeaves ==
    ASSUME NEW S, NEW s \in Seq(S), s # <<>>, IsInjective(s)
    PROVE  /\ Head(s) \in S /\ Head(s) \in Elements(s)
           /\ Tail(s) \in Seq(S) /\ Len(Tail(s)) = Len(s) - 1
           /\ Elements(Tail(s)) = Elements(s) \ {Head(s)}
           /\ IsInjective(Tail(s))
<1>1. Len(s) \in Nat \ {0} /\ Head(s) = s[1]
  BY EmptySeq
<1>2. Tail(s) = RemoveAt(s, 1)
  <2>1. /\ Tail(s) \in Seq(S) /\ Len(Tail(s)) = Len(s) - 1
        /\ \A i \in 1..Len(Tail(s)) : Tail(s)[i] = s[i + 1]
    BY HeadTailProperties
  <2>2. /\ RemoveAt(s, 1) \in Seq(S) /\ Len(RemoveAt(s, 1)) = Len(s) - 1
        /\ \A i \in 1..Len(s)-1 : RemoveAt(s, 1)[i] = s[i + 1]
    BY <1>1, RemoveAtFacts
  <2>3. QED BY <2>1, <2>2, SeqEqual
<1>3. 1 \in 1..Len(s)
  BY <1>1
<1>4. s[1] \in S /\ s[1] \in Elements(s)
  BY <1>3, ElementOfSeq DEF Elements
<1>5. /\ RemoveAt(s, 1) \in Seq(S) /\ Len(RemoveAt(s, 1)) = Len(s) - 1
      /\ Elements(RemoveAt(s, 1)) = Elements(s) \ {s[1]}
      /\ IsInjective(RemoveAt(s, 1))
  BY <1>3, Removed
<1>6. QED BY <1>1, <1>2, <1>4, <1>5

(* No element is on the empty list, and only on that.                      *)
LEMMA EmptyList ==
    ASSUME NEW S, NEW s \in Seq(S)
    PROVE  s = <<>> <=> Elements(s) = {}
<1>1. CASE s = <<>>
  BY <1>1 DEF Elements
<1>2. CASE s # <<>>
  <2>1. Len(s) \in Nat /\ Len(s) # 0
    BY <1>2, EmptySeq
  <2>2. 1 \in 1..Len(s)
    BY <2>1
  <2>3. QED BY <1>2, <2>2 DEF Elements
<1>3. QED BY <1>1, <1>2
=============================================================================
