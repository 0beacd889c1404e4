--------------------------- MODULE SockReaderProofs ---------------------------
(***************************************************************************)
(* ReaderInv is an invariant for every message, every way recv may cut it,  *)
(* every bound and every program: so a body passes whole, careful programs  *)
(* refuse what can be read in two ways, a buffer stays bounded, a capture   *)
(* is a beginning of the data, and a tunnel begins with its first byte.     *)
(***************************************************************************)
EXTENDS SockReader, SequenceTheorems, WellFoundedInduction, TLAPS

-----------------------------------------------------------------------------
(* Numbers: a set of them has a least one, and induction as a statement     *)
(* about sets.                                                             *)

Below == {p \in Nat \X Nat : p[1] < p[2]}

\* There is no endless descent in the natural numbers.
LEMMA BelowWellFounded == IsWellFoundedOn(Below, Nat)
  <1>1. OpToRel(<, Nat) = Below BY DEF OpToRel, Below
  <1> QED BY <1>1, NatLessThanWellFounded

LEMMA BelowPair == ASSUME NEW a \in Nat, NEW b \in Nat, a < b PROVE <<a, b>> \in Below
  BY DEF Below

\* What Min and Max are: CHOOSE finds an element.
LEMMA LeastOf ==
  ASSUME NEW S, S \subseteq Nat, S # {}
  PROVE  Min(S) \in S /\ \A n \in S : Min(S) <= n
  <1>1. PICK a \in S : \A b \in S : ~(<<b, a>> \in Below)
    BY BelowWellFounded, WFMin
  <1>2. ASSUME NEW b \in S PROVE a <= b
    <2>1. a \in Nat /\ b \in Nat OBVIOUS
    <2>2. ~(b < a) BY <1>1, <2>1, BelowPair
    <2> QED BY <2>1, <2>2
  <1>3. \E x \in S : \A y \in S : x <= y BY <1>2
  <1> QED BY <1>3 DEF Min

LEMMA GreatestOf ==
  ASSUME NEW S, NEW n \in Nat, S \subseteq 1..n, S # {}
  PROVE  Max(S) \in S /\ \A k \in S : k <= Max(S)
  <1> DEFINE T == {k \in Nat : n - k \in S}
  <1>1. T # {}
    <2>1. PICK k \in S : TRUE OBVIOUS
    <2>2. k \in Nat /\ n - k \in Nat /\ n - (n - k) = k BY <2>1
    <2> QED BY <2>1, <2>2
  <1>2. Min(T) \in T /\ \A k \in T : Min(T) <= k
    <2>1. T \subseteq Nat OBVIOUS
    <2> HIDE DEF T
    <2> QED BY <1>1, <2>1, LeastOf
  <1>3. n - Min(T) \in S BY <1>2
  <1>4. ASSUME NEW k \in S PROVE k <= n - Min(T)
    <2>1. k \in Nat /\ n - k \in Nat /\ n - (n - k) = k OBVIOUS
    <2>2. n - k \in T BY <2>1
    <2>3. Min(T) \in Nat /\ Min(T) <= n - k BY <1>2, <2>2
    <2> QED BY <2>1, <2>3
  <1>5. \E x \in S : \A y \in S : x >= y
    <2>1. Min(T) \in Nat BY <1>2
    <2>2. \A y \in S : n - Min(T) >= y BY <1>4, <2>1
    <2> QED BY <1>3, <2>2
  <1>6. Max(S) \in S /\ \A y \in S : Max(S) >= y BY <1>5 DEF Max
  <1> QED BY <1>6

\* Induction from 0.
LEMMA FromZero ==
  ASSUME NEW S, 0 \in S, \A n \in Nat : n \in S => n + 1 \in S
  PROVE  \A n \in Nat : n \in S
  <1> SUFFICES ASSUME NEW m \in Nat, m \notin S PROVE FALSE OBVIOUS
  <1> DEFINE R == {n \in Nat : n \notin S}
  <1>1. Min(R) \in R /\ \A n \in R : Min(R) <= n
    <2>1. R \subseteq Nat /\ R # {} OBVIOUS
    <2> HIDE DEF R
    <2> QED BY <2>1, LeastOf
  <1> DEFINE a == Min(R)
  <1>2. a \in Nat /\ a \notin S /\ a # 0 BY <1>1
  <1>3. a - 1 \in Nat /\ a - 1 \notin R BY <1>1, <1>2
  <1>4. a - 1 \in S BY <1>3
  <1>5. (a - 1) + 1 = a BY <1>2
  <1> QED BY <1>2, <1>3, <1>4, <1>5

-----------------------------------------------------------------------------
(* Sequences: the part between two places, and where a part stands.        *)

Part(s, p, q) == SubSeq(s, p + 1, q)
Stands(s, p, w) == p + Len(w) <= Len(s) /\ \A i \in 1..Len(w) : s[p + i] = w[i]

LEMMA PartIs ==
  ASSUME NEW A, NEW s \in Seq(A), NEW q \in 0..Len(s), NEW p \in 0..q
  PROVE  /\ Part(s, p, q) \in Seq(A) /\ Len(Part(s, p, q)) = q - p
         /\ \A i \in 1..q - p : Part(s, p, q)[i] = s[p + i]
  <1>1. Len(s) \in Nat /\ \A i \in 1..Len(s) : s[i] \in A BY LenProperties, ElementOfSeq
  <1>2. p + 1 \in Int /\ q \in Int /\ \A i \in (p + 1)..q : s[i] \in A BY <1>1
  <1>3. /\ SubSeq(s, p + 1, q) \in Seq(A)
        /\ Len(SubSeq(s, p + 1, q)) = IF p + 1 <= q THEN q - (p + 1) + 1 ELSE 0
        /\ \A i \in 1..q - (p + 1) + 1 : SubSeq(s, p + 1, q)[i] = s[p + 1 + i - 1]
    BY <1>2, SubSeqProperties
  <1>4. p \in Nat /\ q \in Nat /\ p <= q BY <1>1
  <1> QED BY <1>3, <1>4 DEF Part

LEMMA SameParts ==
  ASSUME NEW A, NEW s \in Seq(A), NEW t \in Seq(A), Len(s) = Len(t),
         \A i \in 1..Len(s) : s[i] = t[i]
  PROVE  s = t
  BY SeqEqual

LEMMA PartJoin ==
  ASSUME NEW A, NEW s \in Seq(A), NEW r \in 0..Len(s), NEW q \in 0..r, NEW p \in 0..q
  PROVE  Part(s, p, q) \o Part(s, q, r) = Part(s, p, r)
  <1> DEFINE m == p + 1
  <1>1. Len(s) \in Nat BY LenProperties
  <1>2. m \in 1..Len(s) + 1 /\ q \in m - 1..Len(s) /\ r \in q..Len(s) BY <1>1
  <1> HIDE DEF m
  <1>3. SubSeq(s, m, q) \o SubSeq(s, q + 1, r) = SubSeq(s, m, r) BY <1>2, ConcatAdjacentSubSeq
  <1> QED BY <1>3 DEF Part, m

LEMMA PartOfPart ==
  ASSUME NEW A, NEW s \in Seq(A), NEW q \in 0..Len(s), NEW p \in 0..q,
         NEW m \in 0..q - p, NEW k \in 0..m
  PROVE  Part(Part(s, p, q), k, m) = Part(s, p + k, p + m)
  <1> DEFINE a == Part(s, p, q)
             b == Part(a, k, m)
             c == Part(s, p + k, p + m)
  <1>0. Len(s) \in Nat /\ p \in Nat /\ q \in Nat /\ m \in Nat /\ k \in Nat
        /\ p <= q /\ q <= Len(s) /\ m <= q - p /\ k <= m BY LenProperties
  <1>1. a \in Seq(A) /\ Len(a) = q - p /\ \A i \in 1..q - p : a[i] = s[p + i] BY <1>0, PartIs
  <1> HIDE DEF a
  <1>2. b \in Seq(A) /\ Len(b) = m - k /\ \A i \in 1..m - k : b[i] = a[k + i] 
    <2>1. m \in 0..Len(a) /\ k \in 0..m BY <1>0, <1>1
    <2> QED BY <1>1, <2>1, PartIs
  <1>3. c \in Seq(A) /\ Len(c) = m - k /\ \A i \in 1..m - k : c[i] = s[p + k + i]
    <2>1. p + m \in 0..Len(s) /\ p + k \in 0..p + m /\ (p + m) - (p + k) = m - k BY <1>0
    <2> DEFINE u == p + k
               v == p + m
    <2>2. v \in 0..Len(s) /\ u \in 0..v /\ v - u = m - k BY <2>1
    <2> HIDE DEF u, v
    <2>3. Part(s, u, v) \in Seq(A) /\ Len(Part(s, u, v)) = v - u /\ \A i \in 1..v - u : Part(s, u, v)[i] = s[u + i]
      BY <2>2, PartIs
    <2> QED BY <2>2, <2>3 DEF u, v
  <1> HIDE DEF b, c
  <1>4. ASSUME NEW i \in 1..m - k PROVE b[i] = c[i]
    <2>1. k + i \in 1..q - p /\ p + (k + i) = p + k + i BY <1>0
    <2>2. a[k + i] = s[p + k + i] BY <1>1, <2>1
    <2> QED BY <1>2, <1>3, <2>2
  <1>5. b = c BY <1>2, <1>3, <1>4, SameParts
  <1> QED BY <1>5 DEF a, b, c

LEMMA PartStands ==
  ASSUME NEW A, NEW s \in Seq(A), NEW w \in Seq(A), NEW p \in Nat, Stands(s, p, w)
  PROVE  p + Len(w) \in 0..Len(s) /\ p \in 0..p + Len(w) /\ Part(s, p, p + Len(w)) = w
  <1>0. Len(s) \in Nat /\ Len(w) \in Nat /\ p + Len(w) <= Len(s) BY LenProperties DEF Stands
  <1>1. p + Len(w) \in 0..Len(s) /\ p \in 0..p + Len(w) BY <1>0
  <1> DEFINE a == Part(s, p, p + Len(w))
  <1>2. a \in Seq(A) /\ Len(a) = Len(w) /\ \A i \in 1..Len(w) : a[i] = s[p + i]
    <2> DEFINE q == p + Len(w)
    <2>1. q \in 0..Len(s) /\ p \in 0..q /\ q - p = Len(w) BY <1>0, <1>1
    <2> HIDE DEF q
    <2>2. /\ Part(s, p, q) \in Seq(A) /\ Len(Part(s, p, q)) = q - p
          /\ \A i \in 1..q - p : Part(s, p, q)[i] = s[p + i]
      BY <2>1, PartIs
    <2> QED BY <2>1, <2>2 DEF q
  <1> HIDE DEF a
  <1>3. \A i \in 1..Len(w) : a[i] = w[i] BY <1>2 DEF Stands
  <1>4. a = w BY <1>2, <1>3, SameParts
  <1> QED BY <1>1, <1>4 DEF a

LEMMA WholePart ==
  ASSUME NEW A, NEW s \in Seq(A)
  PROVE  Part(s, 0, Len(s)) = s /\ Part(s, Len(s), Len(s)) = <<>> /\ Part(s, 0, 0) = <<>>
  <1>0. Len(s) \in Nat /\ Len(s) + 1 > Len(s) BY LenProperties
  <1>1. Part(s, 0, Len(s)) = s BY <1>0, SubSeqFull DEF Part
  <1> QED BY <1>0, <1>1, SubSeqEmpty DEF Part

LEMMA Concat ==
  ASSUME NEW A, NEW s \in Seq(A), NEW t \in Seq(A)
  PROVE  /\ s \o t \in Seq(A) /\ Len(s \o t) = Len(s) + Len(t)
         /\ Len(s) \in Nat /\ Len(t) \in Nat
         /\ Stands(s \o t, 0, s) /\ Stands(s \o t, Len(s), t)
  <1>0. Len(s) \in Nat /\ Len(t) \in Nat BY LenProperties
  <1>1. /\ s \o t \in Seq(A) /\ Len(s \o t) = Len(s) + Len(t)
        /\ \A i \in 1..Len(s) + Len(t) : (s \o t)[i] = IF i <= Len(s) THEN s[i] ELSE t[i - Len(s)]
    BY ConcatProperties
  <1>2. \A i \in 1..Len(s) : (s \o t)[0 + i] = s[i] BY <1>0, <1>1
  <1>3. \A i \in 1..Len(t) : (s \o t)[Len(s) + i] = t[i]
    <2> SUFFICES ASSUME NEW i \in 1..Len(t) PROVE (s \o t)[Len(s) + i] = t[i] OBVIOUS
    <2>1. Len(s) + i \in 1..Len(s) + Len(t) /\ ~(Len(s) + i <= Len(s)) /\ Len(s) + i - Len(s) = i BY <1>0
    <2> QED BY <1>1, <2>1
  <1> QED BY <1>0, <1>1, <1>2, <1>3 DEF Stands

LEMMA PartAppend ==
  ASSUME NEW A, NEW s \in Seq(A), NEW n \in Nat, n < Len(s)
  PROVE  Append(SubSeq(s, 1, n), s[n + 1]) = SubSeq(s, 1, n + 1)
  <1> DEFINE k == n + 1
             a == SubSeq(s, 1, n)
  <1>1. Len(s) \in Nat /\ 1 \in 1..Len(s) /\ k \in 1..Len(s) /\ k - 1 = n BY LenProperties
  <1>2. a \in Seq(A)
    <2>1. n \in 0..Len(s) /\ 0 \in 0..n BY <1>1
    <2>2. Part(s, 0, n) \in Seq(A) BY <2>1, PartIs
    <2> QED BY <2>2 DEF Part
  <1> HIDE DEF k, a
  <1>3. s[k] \in A BY <1>1, ElementOfSeq
  <1>4. SubSeq(s, 1, k) = SubSeq(s, 1, k - 1) \o <<s[k]>> BY <1>1, SubSeqRecursiveSecond
  <1>5. Append(a, s[k]) = a \o <<s[k]>> BY <1>2, <1>3, AppendIsConcat
  <1> QED BY <1>1, <1>4, <1>5 DEF k, a

\* What stands in a part of a whole stands in the whole.
LEMMA StandsIn ==
  ASSUME NEW A, NEW s \in Seq(A), NEW t \in Seq(A), NEW w \in Seq(A), NEW p \in Nat, NEW q \in Nat,
         Stands(s, p, t), Stands(t, q, w)
  PROVE  Stands(s, p + q, w)
  <1>0. Len(s) \in Nat /\ Len(t) \in Nat /\ Len(w) \in Nat BY LenProperties
  <1>1. p + Len(t) <= Len(s) /\ q + Len(w) <= Len(t) BY DEF Stands
  <1>2. ASSUME NEW i \in 1..Len(w) PROVE s[(p + q) + i] = w[i]
    <2>1. q + i \in 1..Len(t) /\ p + (q + i) = (p + q) + i BY <1>0, <1>1
    <2>2. s[p + (q + i)] = t[q + i] /\ t[q + i] = w[i] BY <2>1 DEF Stands
    <2> QED BY <2>1, <2>2
  <1> QED BY <1>0, <1>1, <1>2 DEF Stands

-----------------------------------------------------------------------------
(* FlattenSeq: where its parts are.                                        *)

Flat(parts, n) == FlattenSeq(SubSeq(parts, 1, n))
\* The function FlattenSeq is defined with: f[i] is the first i parts.
Appends(parts, f, n) == f = [i \in 1..n |-> IF i = 1 THEN parts[i] ELSE f[i-1] \o parts[i]]
Same(a, b, k) == \A i \in 1..k : a[i] = b[i]

\* There is one, ...
LEMMA AppendsExists ==
  ASSUME NEW parts, NEW n \in Nat
  PROVE  \E f : Appends(parts, f, n)
  <1> DEFINE S == {k \in Nat : \E f : Appends(parts, f, k)}
  <1>1. 0 \in S
    <2>1. Appends(parts, [i \in 1..0 |-> parts], 0) BY DEF Appends
    <2> QED BY <2>1
  <1>2. ASSUME NEW k \in Nat, k \in S PROVE k + 1 \in S
    <2>1. PICK f : Appends(parts, f, k) BY <1>2
    <2> DEFINE g == [i \in 1..k + 1 |->
                      IF i <= k THEN f[i] ELSE IF i = 1 THEN parts[i] ELSE f[i-1] \o parts[i]]
    <2>2. ASSUME NEW i \in 1..k + 1 PROVE g[i] = IF i = 1 THEN parts[i] ELSE g[i-1] \o parts[i]
      <3>1. i \in Nat /\ 1 <= i /\ i <= k + 1 OBVIOUS
      <3>2. CASE i <= k
        <4>1. i \in 1..k /\ g[i] = f[i] BY <3>1, <3>2
        <4>2. f[i] = IF i = 1 THEN parts[i] ELSE f[i-1] \o parts[i] BY <2>1, <4>1 DEF Appends
        <4>3. i # 1 => g[i-1] = f[i-1]
          <5>1. i # 1 => i - 1 \in 1..k + 1 /\ i - 1 <= k BY <3>1, <3>2
          <5> QED BY <5>1
        <4> HIDE DEF g
        <4> QED BY <4>1, <4>2, <4>3
      <3>3. CASE i = k + 1
        <4>1. ~(i <= k) /\ i \in 1..k + 1 BY <3>3
        <4>2. g[i] = IF i = 1 THEN parts[i] ELSE f[i-1] \o parts[i] BY <4>1
        <4>3. i # 1 => g[i-1] = f[i-1]
          <5>1. i # 1 => i - 1 \in 1..k + 1 /\ i - 1 <= k BY <3>1, <3>3
          <5> QED BY <5>1
        <4> HIDE DEF g
        <4> QED BY <4>2, <4>3
      <3> QED BY <3>1, <3>2, <3>3
    <2>3. g = [i \in 1..k + 1 |-> IF i = 1 THEN parts[i] ELSE g[i-1] \o parts[i]]
      <3>1. g = [i \in 1..k + 1 |-> g[i]] OBVIOUS
      <3> HIDE DEF g
      <3> QED BY <2>2, <3>1
    <2> HIDE DEF g
    <2>4. Appends(parts, g, k + 1) BY <2>3 DEF Appends
    <2> QED BY <2>4
  <1> HIDE DEF S
  <1>3. \A k \in Nat : k \in S BY <1>1, <1>2, FromZero
  <1> QED BY <1>3 DEF S

\* ... and what it is depends on the parts it has appended only.
LEMMA AppendsAgree ==
  ASSUME NEW a, NEW b, NEW n \in Nat, NEW m \in Nat, NEW f, NEW g,
         Appends(a, f, n), Appends(b, g, m), NEW k \in Nat, k <= n, k <= m,
         Same(a, b, k)
  PROVE  Same(f, g, k)
  <1> DEFINE S == {i \in Nat : i \in 1..k => f[i] = g[i]}
  <1>1. 0 \in S OBVIOUS
  <1>2. ASSUME NEW i \in Nat, i \in S PROVE i + 1 \in S
    <2> SUFFICES ASSUME i + 1 \in 1..k PROVE f[i + 1] = g[i + 1] OBVIOUS
    <2>1. i + 1 \in 1..n /\ i + 1 \in 1..m /\ (i + 1) - 1 = i OBVIOUS
    <2>2. f[i + 1] = IF i + 1 = 1 THEN a[i + 1] ELSE f[i] \o a[i + 1] BY <2>1 DEF Appends
    <2>3. g[i + 1] = IF i + 1 = 1 THEN b[i + 1] ELSE g[i] \o b[i + 1] BY <2>1 DEF Appends
    <2>4. a[i + 1] = b[i + 1] BY DEF Same
    <2>5. i + 1 # 1 => f[i] = g[i]
      <3>1. i + 1 # 1 => i \in 1..k OBVIOUS
      <3> QED BY <1>2, <3>1
    <2> QED BY <2>2, <2>3, <2>4, <2>5
  <1> HIDE DEF S
  <1>3. \A i \in Nat : i \in S BY <1>1, <1>2, FromZero
  <1> QED BY <1>3 DEF S, Same

LEMMA FlattenIs ==
  ASSUME NEW parts, Len(parts) \in Nat \ {0}
  PROVE  \E f : Appends(parts, f, Len(parts)) /\ FlattenSeq(parts) = f[Len(parts)]
  <1> DEFINE c == CHOOSE f : Appends(parts, f, Len(parts))
  <1>1. Appends(parts, c, Len(parts)) BY AppendsExists
  <1>2. FlattenSeq(parts) = c[Len(parts)] BY DEF FlattenSeq, Appends
  <1> QED BY <1>1, <1>2

\* The first n parts, and one more.
LEMMA FlatStep ==
  ASSUME NEW A, NEW parts \in Seq(Seq(A)), NEW n \in Nat, n < Len(parts)
  PROVE  /\ n > 0 => Flat(parts, n + 1) = Flat(parts, n) \o parts[n + 1]
         /\ n = 0 => Flat(parts, 1) = parts[1]
  <1>0. Len(parts) \in Nat BY LenProperties
  <1> DEFINE a == SubSeq(parts, 1, n)
             b == SubSeq(parts, 1, n + 1)
  <1>1. Len(a) = n /\ \A i \in 1..n : a[i] = parts[i]
    <2>1. n \in 0..Len(parts) /\ 0 \in 0..n BY <1>0
    <2>2. Len(Part(parts, 0, n)) = n - 0 /\ \A i \in 1..n - 0 : Part(parts, 0, n)[i] = parts[0 + i]
      BY <2>1, PartIs
    <2>3. \A i \in 1..n : 0 + i = i OBVIOUS
    <2> QED BY <2>2, <2>3 DEF Part
  <1>2. Len(b) = n + 1 /\ \A i \in 1..n + 1 : b[i] = parts[i]
    <2> DEFINE q == n + 1
    <2>1. q \in Nat /\ q - 0 = q /\ q \in 0..Len(parts) /\ 0 \in 0..q BY <1>0
    <2> HIDE DEF q
    <2>2. Len(Part(parts, 0, q)) = q - 0 /\ \A i \in 1..q - 0 : Part(parts, 0, q)[i] = parts[0 + i]
      BY <2>1, PartIs
    <2>3. \A i \in 1..q : 0 + i = i BY <2>1
    <2>4. Len(Part(parts, 0, q)) = q /\ \A i \in 1..q : Part(parts, 0, q)[i] = parts[i] BY <2>1, <2>2, <2>3
    <2> QED BY <2>4 DEF q, Part
  <1> HIDE DEF a, b
  <1>3. PICK g : Appends(b, g, n + 1) /\ FlattenSeq(b) = g[n + 1]
    <2>1. Len(b) \in Nat \ {0} BY <1>2
    <2> QED BY <1>2, <2>1, FlattenIs
  <1>4. g[n + 1] = IF n + 1 = 1 THEN b[n + 1] ELSE g[n] \o b[n + 1]
    <2>1. n + 1 \in 1..n + 1 /\ (n + 1) - 1 = n OBVIOUS
    <2> QED BY <1>3, <2>1 DEF Appends
  <1>5. b[n + 1] = parts[n + 1] BY <1>2
  <1>6. ASSUME n > 0 PROVE g[n] = FlattenSeq(a)
    <2>1. Len(a) \in Nat \ {0} BY <1>1, <1>6
    <2>2. PICK f : Appends(a, f, n) /\ FlattenSeq(a) = f[n] BY <1>1, <2>1, FlattenIs
    <2>3. \A i \in 1..n : a[i] = b[i]
      <3>1. \A i \in 1..n : i \in 1..n + 1 OBVIOUS
      <3> QED BY <1>1, <1>2, <3>1
    <2>5. \A i \in 1..n : f[i] = g[i]
      <3> DEFINE m == n + 1
      <3>1. m \in Nat /\ n <= n /\ n <= m OBVIOUS
      <3>2. Appends(b, g, m) BY <1>3
      <3> HIDE DEF m
      <3>3. Appends(a, f, n) BY <2>2
      <3>4. Same(a, b, n) BY <2>3 DEF Same
      <3>5. Same(f, g, n) BY <3>1, <3>2, <3>3, <3>4, AppendsAgree
      <3> QED BY <3>5 DEF Same
    <2>6. n \in 1..n BY <1>6
    <2> QED BY <2>2, <2>5, <2>6
  <1>7. Flat(parts, n + 1) = FlattenSeq(b) /\ Flat(parts, n) = FlattenSeq(a) BY DEF Flat, a, b
  <1>8. CASE n > 0
    <2>1. n + 1 # 1 /\ n # 0 BY <1>8
    <2> QED BY <1>3, <1>4, <1>5, <1>6, <1>7, <1>8, <2>1
  <1>9. CASE n = 0
    <2>1. n + 1 = 1 BY <1>9
    <2> QED BY <1>3, <1>4, <1>5, <1>7, <1>9, <2>1
  <1> QED BY <1>8, <1>9

LEMMA FlatNone == ASSUME NEW parts PROVE Flat(parts, 0) = <<>> /\ FlattenSeq(<<>>) = <<>>
  <1>1. SubSeq(parts, 1, 0) = <<>> BY SubSeqEmpty
  <1>2. Len(<<>>) = 0 OBVIOUS
  <1>3. FlattenSeq(<<>>) = <<>> BY <1>2 DEF FlattenSeq
  <1> QED BY <1>1, <1>3 DEF Flat

\* The parts one by one: each begins where those before it end.
LEMMA FlatOne ==
  ASSUME NEW A, NEW parts \in Seq(Seq(A)), NEW n \in Nat, n < Len(parts), Flat(parts, n) \in Seq(A)
  PROVE  Flat(parts, n + 1) = Flat(parts, n) \o parts[n + 1] /\ parts[n + 1] \in Seq(A)
  <1>0. Len(parts) \in Nat BY LenProperties
  <1>1. parts[n + 1] \in Seq(A)
    <2>1. n + 1 \in 1..Len(parts) BY <1>0
    <2> QED BY <2>1, ElementOfSeq
  <1>2. CASE n > 0 BY <1>1, <1>2, FlatStep
  <1>3. CASE n = 0
    <2>1. Flat(parts, n) = <<>> BY <1>3, FlatNone
    <2>2. <<>> \o parts[n + 1] = parts[n + 1] BY <1>1, ConcatEmptySeq
    <2>3. Flat(parts, 1) = parts[1] BY <1>3, FlatStep
    <2> QED BY <1>1, <1>3, <2>1, <2>2, <2>3
  <1> QED BY <1>2, <1>3

LEMMA FlatSeq ==
  ASSUME NEW A, NEW parts \in Seq(Seq(A))
  PROVE  /\ \A n \in 0..Len(parts) : Flat(parts, n) \in Seq(A)
         /\ Flat(parts, Len(parts)) = FlattenSeq(parts) /\ FlattenSeq(parts) \in Seq(A)
  <1>0. Len(parts) \in Nat BY LenProperties
  <1> DEFINE S == {n \in Nat : n <= Len(parts) => Flat(parts, n) \in Seq(A)}
  <1>1. 0 \in S
    <2>1. Flat(parts, 0) \in Seq(A) BY FlatNone, EmptySeq
    <2> QED BY <2>1
  <1>2. ASSUME NEW n \in Nat, n \in S PROVE n + 1 \in S
    <2> SUFFICES ASSUME n + 1 <= Len(parts) PROVE Flat(parts, n + 1) \in Seq(A) OBVIOUS
    <2>1. n < Len(parts) /\ Flat(parts, n) \in Seq(A) BY <1>0, <1>2
    <2>2. Flat(parts, n + 1) = Flat(parts, n) \o parts[n + 1] /\ parts[n + 1] \in Seq(A) BY <2>1, FlatOne
    <2> QED BY <2>1, <2>2, ConcatProperties
  <1> HIDE DEF S
  <1>3. \A n \in Nat : n \in S BY <1>1, <1>2, FromZero
  <1>4. \A n \in 0..Len(parts) : Flat(parts, n) \in Seq(A)
    <2>1. \A n \in 0..Len(parts) : n \in Nat /\ n <= Len(parts) BY <1>0
    <2> QED BY <1>3, <2>1 DEF S
  <1>5. SubSeq(parts, 1, Len(parts)) = parts BY SubSeqFull
  <1>6. Len(parts) \in 0..Len(parts) BY <1>0
  <1> QED BY <1>4, <1>5, <1>6 DEF Flat

\* A part stands behind those before it, in the first k parts ...
LEMMA FlatStandsIn ==
  ASSUME NEW A, NEW parts \in Seq(Seq(A)), NEW n \in Nat, n < Len(parts)
  PROVE  \A k \in n + 1..Len(parts) : Stands(Flat(parts, k), Len(Flat(parts, n)), parts[n + 1])
  <1>0. Len(parts) \in Nat BY LenProperties
  <1>n. Flat(parts, n) \in Seq(A) /\ Flat(parts, n + 1) = Flat(parts, n) \o parts[n + 1] /\ parts[n + 1] \in Seq(A)
    <2>1. n \in 0..Len(parts) BY <1>0
    <2> QED BY <2>1, FlatSeq, FlatOne
  <1> DEFINE w == parts[n + 1]
             p == Len(Flat(parts, n))
             S == {j \in Nat : n + 1 + j <= Len(parts) => Stands(Flat(parts, n + 1 + j), p, w)}
  <1>1. 0 \in S
    <2>1. Stands(Flat(parts, n) \o w, p, w) BY <1>n, Concat
    <2>2. n + 1 + 0 = n + 1 OBVIOUS
    <2> QED BY <1>n, <2>1, <2>2
  <1>2. ASSUME NEW j \in Nat, j \in S PROVE j + 1 \in S
    <2> DEFINE m == n + 1 + j
    <2> SUFFICES ASSUME m + 1 <= Len(parts) PROVE Stands(Flat(parts, m + 1), p, w)
      <3>1. n + 1 + (j + 1) = m + 1 OBVIOUS
      <3> QED BY <3>1
    <2>1. m \in Nat /\ m < Len(parts) /\ m \in 0..Len(parts) BY <1>0
    <2>2. Stands(Flat(parts, m), p, w) BY <1>2, <2>1
    <2> HIDE DEF m, p, w
    <2>3. Flat(parts, m) \in Seq(A) BY <2>1, FlatSeq
    <2>4. Flat(parts, m + 1) = Flat(parts, m) \o parts[m + 1] /\ parts[m + 1] \in Seq(A) BY <2>1, <2>3, FlatOne
    <2> DEFINE s == Flat(parts, m)
               t == s \o parts[m + 1]
    <2>5. t \in Seq(A) /\ Stands(t, 0, s) BY <2>3, <2>4, Concat
    <2>6. p \in Nat /\ w \in Seq(A) BY <1>n, LenProperties DEF p, w
    <2> HIDE DEF s, t
    <2>7. 0 \in Nat /\ 0 + p = p /\ s \in Seq(A) BY <2>3, <2>6 DEF s
    <2>8. Stands(s, p, w) BY <2>2 DEF s
    <2>9. Stands(t, 0 + p, w) BY <2>5, <2>6, <2>7, <2>8, StandsIn
    <2> QED BY <2>4, <2>7, <2>9 DEF s, t
  <1> HIDE DEF S, p, w
  <1>3. \A j \in Nat : j \in S BY <1>1, <1>2, FromZero
  <1>4. ASSUME NEW k \in n + 1..Len(parts) PROVE Stands(Flat(parts, k), p, w)
    <2>1. k - (n + 1) \in Nat /\ n + 1 + (k - (n + 1)) = k /\ k <= Len(parts) BY <1>0
    <2>2. k - (n + 1) \in S BY <1>3, <2>1
    <2> QED BY <2>1, <2>2 DEF S
  <1> QED BY <1>4 DEF p, w

\* ... and in all of them.
LEMMA FlatStands ==
  ASSUME NEW A, NEW parts \in Seq(Seq(A)), NEW n \in Nat, n < Len(parts)
  PROVE  /\ parts[n + 1] \in Seq(A)
         /\ Stands(FlattenSeq(parts), Before(parts, n), parts[n + 1])
         /\ Before(parts, n) \in Nat /\ Before(parts, n + 1) = Before(parts, n) + Len(parts[n + 1])
         /\ Before(parts, n + 1) <= Len(FlattenSeq(parts))
         /\ Flat(parts, n + 1) = Flat(parts, n) \o parts[n + 1] /\ Flat(parts, n) \in Seq(A)
  <1>0. Len(parts) \in Nat /\ Len(parts) \in n + 1..Len(parts) /\ n \in 0..Len(parts) BY LenProperties
  <1>1. Flat(parts, n) \in Seq(A) /\ Flat(parts, n + 1) = Flat(parts, n) \o parts[n + 1] /\ parts[n + 1] \in Seq(A)
    BY <1>0, FlatSeq, FlatOne
  <1>2. Stands(Flat(parts, Len(parts)), Len(Flat(parts, n)), parts[n + 1]) BY <1>0, FlatStandsIn
  <1>3. Flat(parts, Len(parts)) = FlattenSeq(parts) BY FlatSeq
  <1>4. Before(parts, n) = Len(Flat(parts, n)) /\ Before(parts, n + 1) = Len(Flat(parts, n + 1)) BY DEF Before, Flat
  <1>5. Len(Flat(parts, n) \o parts[n + 1]) = Len(Flat(parts, n)) + Len(parts[n + 1]) /\ Len(Flat(parts, n)) \in Nat
    BY <1>1, Concat
  <1>6. Before(parts, n + 1) <= Len(FlattenSeq(parts)) BY <1>1, <1>2, <1>3, <1>4, <1>5 DEF Stands
  <1> QED BY <1>1, <1>2, <1>3, <1>4, <1>5, <1>6

LEMMA FlatEnds ==
  ASSUME NEW A, NEW parts \in Seq(Seq(A))
  PROVE  /\ Before(parts, 0) = 0 /\ Before(parts, Len(parts)) = Len(FlattenSeq(parts))
         /\ FlattenSeq(parts) \in Seq(A) /\ Len(FlattenSeq(parts)) \in Nat
  <1>1. Before(parts, 0) = 0 BY FlatNone DEF Before, Flat
  <1>2. Before(parts, Len(parts)) = Len(FlattenSeq(parts)) BY FlatSeq DEF Before, Flat
  <1> QED BY <1>1, <1>2, FlatSeq, LenProperties

-----------------------------------------------------------------------------
(* The places of a message.                                                *)

LEMMA FunctionIsSeq ==
  ASSUME NEW S, NEW n \in Nat, NEW f \in [1..n -> S]
  PROVE  f \in Seq(S) /\ Len(f) = n
  <1>1. f \in Seq(S) BY SeqDef
  <1>2. DOMAIN f = 1..Len(f) /\ Len(f) \in Nat BY <1>1, LenProperties
  <1>3. DOMAIN f = 1..n OBVIOUS
  <1> QED BY <1>1, <1>2, <1>3

LEMMA ShortSeq ==
  /\ <<"lf">> \in Seq(Unit) /\ Len(<<"lf">>) = 1
  /\ <<"cr", "lf">> \in Seq(Unit) /\ Len(<<"cr", "lf">>) = 2
  <1>1. "lf" \in Unit /\ "cr" \in Unit BY DEF Unit
  <1> QED BY <1>1

\* Ends of lines, and lines without them.
Eols == {<<"lf">>, <<"cr", "lf">>}
LEMMA EolIs ==
  ASSUME NEW e \in Eols
  PROVE  /\ e \in Seq(Unit) /\ Len(e) \in {1, 2} /\ e[Len(e)] = "lf"
         /\ Len(e) = 2 => e[1] = "cr"
  <1>1. Len(<<"lf">>) = 1 /\ <<"lf">>[1] = "lf" /\ <<"lf">> \in Seq(Unit) BY ShortSeq
  <1>2. /\ Len(<<"cr", "lf">>) = 2 /\ <<"cr", "lf">>[1] = "cr" /\ <<"cr", "lf">>[2] = "lf"
        /\ <<"cr", "lf">> \in Seq(Unit)
    BY ShortSeq
  <1>3. CASE e = <<"lf">> BY <1>1, <1>3
  <1>4. CASE e = <<"cr", "lf">> BY <1>2, <1>4
  <1> QED BY <1>3, <1>4 DEF Eols

LEMMA WordsAreUnits == ASSUME NEW w \in Seq(Word) PROVE w \in Seq(Unit)
  <1>1. Word \subseteq Unit BY DEF Unit
  <1> QED BY <1>1, SeqMonotonic

LEMMA LineIs ==
  ASSUME NEW w \in Seq(Unit)
  PROVE  Line(w) = w \o <<"cr", "lf">> /\ Line(w) \in Seq(Unit) /\ Len(Line(w)) = Len(w) + 2 /\ Len(w) \in Nat
  <1>1. <<"cr", "lf">> \in Seq(Unit) /\ Len(<<"cr", "lf">>) = 2 BY ShortSeq
  <1> QED BY <1>1, Concat DEF Line

LEMMA MessageFields ==
  ASSUME NEW m, IsMessage(m)
  PROVE  /\ m.eol \in Eols /\ m.plain \in Seq(Unit) /\ m.next \in Seq(Unit)
         /\ Len(m.lines) \in Nat /\ DOMAIN m.lines = 1..Len(m.lines)
         /\ \A n \in DOMAIN m.lines : m.lines[n] \in Seq(Word)
         /\ Len(m.chunks) \in Nat /\ DOMAIN m.chunks = 1..Len(m.chunks)
         /\ \A n \in DOMAIN m.chunks : m.chunks[n].size \in Seq(Word) /\ m.chunks[n].data \in Seq(Unit)
         /\ Len(m.trailers) \in Nat /\ DOMAIN m.trailers = 1..Len(m.trailers)
         /\ \A n \in DOMAIN m.trailers : m.trailers[n] \in Seq(Word)
  <1>1. m.lines \in Seq(Seq(Word)) /\ m.trailers \in Seq(Seq(Word)) BY DEF IsMessage
  <1>2. m.chunks \in Seq([size : Seq(Word), data : Seq(Unit)]) BY DEF IsMessage
  <1>3. m.eol \in Eols /\ m.plain \in Seq(Unit) /\ m.next \in Seq(Unit) BY DEF IsMessage, Eols
  <1>4. /\ Len(m.lines) \in Nat /\ DOMAIN m.lines = 1..Len(m.lines)
        /\ \A n \in DOMAIN m.lines : m.lines[n] \in Seq(Word)
    BY <1>1, LenProperties, ElementOfSeq
  <1>5. /\ Len(m.trailers) \in Nat /\ DOMAIN m.trailers = 1..Len(m.trailers)
        /\ \A n \in DOMAIN m.trailers : m.trailers[n] \in Seq(Word)
    BY <1>1, LenProperties, ElementOfSeq
  <1>6. /\ Len(m.chunks) \in Nat /\ DOMAIN m.chunks = 1..Len(m.chunks)
        /\ \A n \in DOMAIN m.chunks : m.chunks[n] \in [size : Seq(Word), data : Seq(Unit)]
    BY <1>2, LenProperties, ElementOfSeq
  <1>7. \A n \in DOMAIN m.chunks : m.chunks[n].size \in Seq(Word) /\ m.chunks[n].data \in Seq(Unit) BY <1>6
  <1> QED BY <1>3, <1>4, <1>5, <1>6, <1>7

LEMMA LinesAre ==
  ASSUME NEW m, IsMessage(m)
  PROVE  /\ LinesOf(m) \in Seq(Seq(Unit)) /\ Len(LinesOf(m)) = Len(m.lines)
         /\ \A n \in DOMAIN m.lines : LinesOf(m)[n] = m.lines[n] \o m.eol
  <1>1. m.eol \in Seq(Unit) BY MessageFields, EolIs
  <1>2. \A n \in 1..Len(m.lines) : m.lines[n] \o m.eol \in Seq(Unit)
    BY <1>1, MessageFields, WordsAreUnits, ConcatProperties
  <1>3. LinesOf(m) \in [1..Len(m.lines) -> Seq(Unit)] BY <1>2, MessageFields DEF LinesOf
  <1>4. Len(m.lines) \in Nat BY MessageFields
  <1> QED BY <1>3, <1>4, FunctionIsSeq DEF LinesOf

LEMMA ChunksAre ==
  ASSUME NEW m, IsMessage(m)
  PROVE  /\ ChunksOf(m) \in Seq(Seq(Unit)) /\ Len(ChunksOf(m)) = Len(m.chunks)
         /\ \A n \in DOMAIN m.chunks :
               ChunksOf(m)[n] = Line(m.chunks[n].size) \o m.chunks[n].data \o EndOf(m.chunks[n])
         /\ DatasOf(m) \in Seq(Seq(Unit)) /\ Len(DatasOf(m)) = Len(m.chunks)
         /\ \A n \in DOMAIN m.chunks : DatasOf(m)[n] = m.chunks[n].data
  <1>0. Len(m.chunks) \in Nat /\ DOMAIN m.chunks = 1..Len(m.chunks) BY MessageFields
  <1>1. ASSUME NEW n \in DOMAIN m.chunks
        PROVE  Line(m.chunks[n].size) \o m.chunks[n].data \o EndOf(m.chunks[n]) \in Seq(Unit)
    <2>1. m.chunks[n].size \in Seq(Unit) /\ m.chunks[n].data \in Seq(Unit) BY MessageFields, WordsAreUnits
    <2>2. EndOf(m.chunks[n]) \in Seq(Unit)
      <3>1. <<"cr", "lf">> \in Seq(Unit) /\ <<>> \in Seq(Unit) BY ShortSeq, EmptySeq
      <3> QED BY <3>1 DEF EndOf
    <2>3. Line(m.chunks[n].size) \in Seq(Unit) BY <2>1, LineIs
    <2> QED BY <2>1, <2>2, <2>3, ConcatProperties
  <1>2. ChunksOf(m) \in [1..Len(m.chunks) -> Seq(Unit)] BY <1>0, <1>1 DEF ChunksOf
  <1>3. DatasOf(m) \in [1..Len(m.chunks) -> Seq(Unit)] BY <1>0, MessageFields DEF DatasOf
  <1>4. ChunksOf(m) \in Seq(Seq(Unit)) /\ Len(ChunksOf(m)) = Len(m.chunks) BY <1>0, <1>2, FunctionIsSeq
  <1>5. DatasOf(m) \in Seq(Seq(Unit)) /\ Len(DatasOf(m)) = Len(m.chunks) BY <1>0, <1>3, FunctionIsSeq
  <1> QED BY <1>4, <1>5 DEF ChunksOf, DatasOf

LEMMA TrailersAre ==
  ASSUME NEW m, IsMessage(m)
  PROVE  /\ TrailersOf(m) \in Seq(Seq(Unit)) /\ Len(TrailersOf(m)) = Len(m.trailers)
         /\ \A n \in DOMAIN m.trailers : TrailersOf(m)[n] = Line(m.trailers[n])
  <1>0. Len(m.trailers) \in Nat /\ DOMAIN m.trailers = 1..Len(m.trailers) BY MessageFields
  <1>1. \A n \in DOMAIN m.trailers : Line(m.trailers[n]) \in Seq(Unit) BY MessageFields, WordsAreUnits, LineIs
  <1>2. TrailersOf(m) \in [1..Len(m.trailers) -> Seq(Unit)] BY <1>0, <1>1 DEF TrailersOf
  <1>3. TrailersOf(m) \in Seq(Seq(Unit)) /\ Len(TrailersOf(m)) = Len(m.trailers) BY <1>0, <1>2, FunctionIsSeq
  <1> QED BY <1>3 DEF TrailersOf

\* Head, body, and what follows.
LEMMA StreamIs ==
  ASSUME NEW m, IsMessage(m)
  PROVE  /\ HeadOf(m) \in Seq(Unit) /\ BodyOf(m) \in Seq(Unit) /\ Stream(m) \in Seq(Unit)
         /\ HeadEnd(m) \in Nat /\ BodyEnd(m) \in Nat /\ Len(BodyOf(m)) \in Nat /\ Len(m.next) \in Nat
         /\ BodyEnd(m) = HeadEnd(m) + Len(BodyOf(m)) /\ Len(Stream(m)) = BodyEnd(m) + Len(m.next)
         /\ Stands(Stream(m), 0, HeadOf(m)) /\ Stands(Stream(m), HeadEnd(m), BodyOf(m))
         /\ Stands(Stream(m), BodyEnd(m), m.next)
  <1>1. FlattenSeq(LinesOf(m)) \in Seq(Unit) BY LinesAre, FlatEnds
  <1>2. m.eol \in Seq(Unit) BY MessageFields, EolIs
  <1>3. HeadOf(m) \in Seq(Unit) BY <1>1, <1>2, ConcatProperties DEF HeadOf
  <1>4. BodyOf(m) \in Seq(Unit)
    <2>1. FlattenSeq(ChunksOf(m)) \in Seq(Unit) BY ChunksAre, FlatEnds
    <2>2. FlattenSeq(TrailersOf(m)) \in Seq(Unit) BY TrailersAre, FlatEnds
    <2>3. m.plain \in Seq(Unit) BY MessageFields
    <2>4. m.plain \o FlattenSeq(ChunksOf(m)) \in Seq(Unit) BY <2>1, <2>3, ConcatProperties
    <2> QED BY <2>2, <2>4, ConcatProperties DEF BodyOf
  <1>5. m.next \in Seq(Unit) BY MessageFields
  <1> DEFINE h == HeadOf(m)
             b == BodyOf(m)
             a == h \o b
             x == m.next
             s == a \o x
  <1>6. a \in Seq(Unit) /\ Len(a) = Len(h) + Len(b) /\ Len(h) \in Nat /\ Len(b) \in Nat /\ Stands(a, 0, h) /\ Stands(a, Len(h), b)
    BY <1>3, <1>4, Concat
  <1>7. Stream(m) = s BY DEF Stream
  <1>8. h \in Seq(Unit) /\ b \in Seq(Unit) /\ x \in Seq(Unit) BY <1>3, <1>4, <1>5
  <1> HIDE DEF a, h, b, x
  <1>9. s \in Seq(Unit) /\ Len(s) = Len(a) + Len(x) /\ Len(x) \in Nat /\ Stands(s, 0, a) /\ Stands(s, Len(a), x)
    BY <1>6, <1>8, Concat
  <1> HIDE DEF s
  <1>10. 0 \in Nat /\ 0 + 0 = 0 /\ 0 + Len(h) = Len(h) BY <1>6
  <1>11. Stands(s, 0 + 0, h) BY <1>6, <1>8, <1>9, <1>10, StandsIn
  <1>12. Stands(s, 0 + Len(h), b) BY <1>6, <1>8, <1>9, <1>10, StandsIn
  <1>13. HeadEnd(m) = Len(h) /\ BodyEnd(m) = Len(h) + Len(b) BY DEF HeadEnd, BodyEnd, h, b
  <1>14. /\ s \in Seq(Unit) /\ Len(h) \in Nat /\ Len(b) \in Nat /\ Len(h) + Len(b) \in Nat
         /\ Len(s) = (Len(h) + Len(b)) + Len(x) /\ Len(x) \in Nat
         /\ Stands(s, 0, h) /\ Stands(s, Len(h), b) /\ Stands(s, Len(h) + Len(b), x)
    BY <1>6, <1>9, <1>10, <1>11, <1>12
  <1> QED BY <1>7, <1>8, <1>13, <1>14 DEF h, b, x

\* The lines of the head, and the empty one at its end.
LEMMA HeadLines ==
  ASSUME NEW m, IsMessage(m), NEW n \in 0..Len(m.lines)
  PROVE  /\ Before(LinesOf(m), n) \in Nat
         /\ n < Len(m.lines) =>
               /\ m.lines[n + 1] \in Seq(Word)
               /\ Stands(Stream(m), Before(LinesOf(m), n), m.lines[n + 1] \o m.eol)
               /\ Before(LinesOf(m), n + 1) = Before(LinesOf(m), n) + Len(m.lines[n + 1]) + Len(m.eol)
         /\ n = Len(m.lines) =>
               /\ Stands(Stream(m), Before(LinesOf(m), n), <<>> \o m.eol)
               /\ HeadEnd(m) = Before(LinesOf(m), n) + Len(m.eol)
  <1> DEFINE lines == LinesOf(m)
             p == Before(LinesOf(m), n)
  <1>0. /\ n \in Nat /\ n <= Len(m.lines) /\ Len(m.lines) \in Nat /\ m.eol \in Seq(Unit) /\ Len(m.eol) \in Nat
    BY MessageFields, EolIs, LenProperties
  <1>1. lines \in Seq(Seq(Unit)) /\ Len(lines) = Len(m.lines) BY LinesAre
  <1>2. FlattenSeq(lines) \in Seq(Unit) /\ Before(lines, Len(lines)) = Len(FlattenSeq(lines)) /\ Len(FlattenSeq(lines)) \in Nat
    BY <1>1, FlatEnds
  <1>3. HeadOf(m) = FlattenSeq(lines) \o m.eol BY DEF HeadOf
  <1>4. /\ Stands(HeadOf(m), 0, FlattenSeq(lines)) /\ Stands(HeadOf(m), Len(FlattenSeq(lines)), m.eol)
        /\ Len(HeadOf(m)) = Len(FlattenSeq(lines)) + Len(m.eol)
    BY <1>0, <1>2, <1>3, Concat
  <1>5. HeadOf(m) \in Seq(Unit) /\ Stream(m) \in Seq(Unit) /\ Stands(Stream(m), 0, HeadOf(m)) BY StreamIs
  <1>6. ASSUME n < Len(m.lines)
        PROVE  /\ p \in Nat /\ m.lines[n + 1] \in Seq(Word)
               /\ Stands(Stream(m), p, m.lines[n + 1] \o m.eol)
               /\ Before(lines, n + 1) = p + Len(m.lines[n + 1]) + Len(m.eol)
    <2>1. n + 1 \in DOMAIN m.lines BY <1>0, <1>6, MessageFields
    <2>2. m.lines[n + 1] \in Seq(Word) /\ lines[n + 1] = m.lines[n + 1] \o m.eol BY <2>1, MessageFields, LinesAre
    <2>3. m.lines[n + 1] \in Seq(Unit) BY <2>2, WordsAreUnits
    <2>4. Len(lines[n + 1]) = Len(m.lines[n + 1]) + Len(m.eol) /\ Len(m.lines[n + 1]) \in Nat BY <1>0, <2>2, <2>3, Concat
    <2>5. n < Len(lines) BY <1>1, <1>6
    <2>6. /\ lines[n + 1] \in Seq(Unit) /\ Stands(FlattenSeq(lines), p, lines[n + 1])
          /\ p \in Nat /\ Before(lines, n + 1) = p + Len(lines[n + 1])
      <3> HIDE DEF lines
      <3> QED BY <1>0, <1>1, <2>5, FlatStands DEF lines
    <2>13. Before(lines, n + 1) = p + Len(m.lines[n + 1]) + Len(m.eol)
      <3> DEFINE x == Before(lines, n + 1)
                 y == Len(lines[n + 1])
                 z == Len(m.lines[n + 1])
                 e == Len(m.eol)
      <3>1. x = p + y /\ y = z + e /\ p \in Nat /\ z \in Nat /\ e \in Nat BY <1>0, <2>4, <2>6
      <3> HIDE DEF x, y, z, e, p
      <3>2. x = p + z + e BY <3>1
      <3> QED BY <3>2 DEF x, z, e
    <2>7. 0 \in Nat /\ 0 + 0 = 0 /\ 0 + p = p BY <2>6
    <2> DEFINE f == FlattenSeq(lines)
               w == lines[n + 1]
               h == HeadOf(m)
               s == Stream(m)
    <2>8. f \in Seq(Unit) /\ w \in Seq(Unit) /\ h \in Seq(Unit) /\ s \in Seq(Unit) BY <1>2, <1>5, <2>6
    <2>9. Stands(h, 0, f) /\ Stands(f, p, w) /\ Stands(s, 0, h) /\ p \in Nat BY <1>4, <1>5, <2>6
    <2>w. w = m.lines[n + 1] \o m.eol BY <2>2
    <2> HIDE DEF f, w, h, p, lines, s
    <2>10. Stands(h, 0 + p, w) BY <2>7, <2>8, <2>9, StandsIn
    <2>11. Stands(s, 0 + p, w) BY <2>7, <2>8, <2>9, <2>10, StandsIn
    <2>12. Stands(Stream(m), p, m.lines[n + 1] \o m.eol) BY <2>7, <2>11, <2>w DEF s
    <2> QED BY <2>2, <2>6, <2>12, <2>13
  <1>7. ASSUME n = Len(m.lines)
        PROVE  p \in Nat /\ Stands(Stream(m), p, <<>> \o m.eol) /\ HeadEnd(m) = p + Len(m.eol)
    <2>1. p = Len(FlattenSeq(lines)) BY <1>1, <1>2, <1>7
    <2>2. <<>> \o m.eol = m.eol BY <1>0, ConcatEmptySeq
    <2>3. 0 \in Nat /\ 0 + p = p BY <1>2, <2>1
    <2>4. Stands(HeadOf(m), p, m.eol) BY <1>4, <2>1
    <2>5. p \in Nat BY <1>2, <2>1
    <2> HIDE DEF p
    <2>6. Stands(Stream(m), 0 + p, m.eol) BY <1>0, <1>5, <2>3, <2>4, <2>5, StandsIn
    <2> QED BY <1>4, <2>1, <2>2, <2>3, <2>5, <2>6 DEF HeadEnd
  <1> QED BY <1>0, <1>6, <1>7


\* A part of what stands somewhere.
LEMMA StandsPart ==
  ASSUME NEW A, NEW s \in Seq(A), NEW w \in Seq(A), NEW p \in Nat, Stands(s, p, w),
         NEW b \in 0..Len(w), NEW a \in 0..b
  PROVE  /\ p + b \in 0..Len(s) /\ p + a \in 0..p + b
         /\ Part(s, p + a, p + b) = Part(w, a, b)
  <1>0. Len(s) \in Nat /\ Len(w) \in Nat /\ p + Len(w) <= Len(s) BY LenProperties DEF Stands
  <1>1. p + Len(w) \in 0..Len(s) /\ p \in 0..p + Len(w) /\ Part(s, p, p + Len(w)) = w BY PartStands
  <1> DEFINE q == p + Len(w)
  <1>2. q \in 0..Len(s) /\ p \in 0..q /\ q - p = Len(w) /\ Part(s, p, q) = w BY <1>0, <1>1
  <1> HIDE DEF q
  <1>3. b \in 0..q - p /\ a \in 0..b BY <1>2
  <1>4. Part(Part(s, p, q), a, b) = Part(s, p + a, p + b) BY <1>2, <1>3, PartOfPart
  <1>5. p + b \in 0..Len(s) /\ p + a \in 0..p + b BY <1>0
  <1> QED BY <1>2, <1>4, <1>5

\* Two words that stand one behind the other.
LEMMA StandsBoth ==
  ASSUME NEW A, NEW s \in Seq(A), NEW v \in Seq(A), NEW w \in Seq(A), NEW p \in Nat,
         Stands(s, p, v \o w)
  PROVE  Stands(s, p, v) /\ Stands(s, p + Len(v), w)
  <1> DEFINE t == v \o w
  <1>1. t \in Seq(A) /\ Len(v) \in Nat /\ Stands(t, 0, v) /\ Stands(t, Len(v), w) BY Concat
  <1>2. Stands(s, p, t) OBVIOUS
  <1> HIDE DEF t
  <1>3. 0 \in Nat /\ p + 0 = p OBVIOUS
  <1>4. Stands(s, p + 0, v) BY <1>1, <1>2, <1>3, StandsIn
  <1>5. Stands(s, p + Len(v), w) BY <1>1, <1>2, StandsIn
  <1> QED BY <1>3, <1>4, <1>5

LEMMA StartIs ==
  ASSUME NEW m, IsMessage(m)
  PROVE  /\ StartOf(m) \in 1..Len(m.lines)
         /\ \A n \in 1..Len(m.lines) : m.lines[n] = <<>> <=> n < StartOf(m)
  <1>0. Len(m.lines) \in Nat /\ DOMAIN m.lines = 1..Len(m.lines) BY MessageFields
  <1>1. PICK start \in DOMAIN m.lines : \A n \in DOMAIN m.lines : m.lines[n] = <<>> <=> n < start
    BY DEF IsMessage
  <1> DEFINE T == {n \in DOMAIN m.lines : m.lines[n] # <<>>}
  <1>2. start \in T BY <1>0, <1>1
  <1>3. T \subseteq Nat /\ T # {} BY <1>0, <1>2
  <1>4. Min(T) \in T /\ \A n \in T : Min(T) <= n
    <2> HIDE DEF T
    <2> QED BY <1>3, LeastOf
  <1>5. Min(T) = start
    <2> DEFINE a == Min(T)
    <2>1. a <= start /\ a \in DOMAIN m.lines /\ m.lines[a] # <<>> /\ start \in Nat BY <1>0, <1>2, <1>4
    <2> HIDE DEF a
    <2>2. ~(a < start) /\ a \in Nat BY <1>0, <1>1, <2>1
    <2>3. a = start BY <2>1, <2>2
    <2> QED BY <2>3 DEF a
  <1> QED BY <1>0, <1>1, <1>5 DEF StartOf

LEMMA NamesAre ==
  ASSUME NEW m, IsMessage(m)
  PROVE  /\ NamesOf(m) \in Seq(Word) /\ Len(NamesOf(m)) = Len(m.lines) - StartOf(m)
         /\ \A n \in 1..Len(m.lines) - StartOf(m) : NamesOf(m)[n] = m.lines[StartOf(m) + n][1]
  <1>0. /\ Len(m.lines) \in Nat /\ StartOf(m) \in Nat /\ Len(m.lines) - StartOf(m) \in Nat
        /\ DOMAIN m.lines = 1..Len(m.lines)
    BY MessageFields, StartIs
  <1>1. ASSUME NEW n \in 1..Len(m.lines) - StartOf(m) PROVE m.lines[StartOf(m) + n][1] \in Word
    <2> DEFINE k == StartOf(m) + n
    <2>1. k \in 1..Len(m.lines) /\ ~(k < StartOf(m)) BY <1>0
    <2> HIDE DEF k
    <2>2. m.lines[k] \in Seq(Word) /\ m.lines[k] # <<>> BY <1>0, <2>1, MessageFields, StartIs
    <2>3. Len(m.lines[k]) \in Nat /\ 1 \in 1..Len(m.lines[k]) BY <2>2, EmptySeq, LenProperties
    <2> QED BY <2>2, <2>3, ElementOfSeq DEF k
  <1> DEFINE c == Len(m.lines) - StartOf(m)
  <1>2. NamesOf(m) \in [1..c -> Word] BY <1>1 DEF NamesOf
  <1>3. c \in Nat BY <1>0
  <1> HIDE DEF c
  <1>4. NamesOf(m) \in Seq(Word) /\ Len(NamesOf(m)) = c BY <1>2, <1>3, FunctionIsSeq
  <1> QED BY <1>4 DEF NamesOf, c

LEMMA PlainBody ==
  ASSUME NEW m, IsMessage(m), IsPlain(m)
  PROVE  BodyOf(m) = m.plain /\ DataOf(m) = m.plain
  <1>0. m.plain \in Seq(Unit) BY MessageFields
  <1>1. Len(m.chunks) = 0 /\ Len(m.trailers) = 0 BY DEF IsPlain
  <1>2. ChunksOf(m) = <<>> /\ DatasOf(m) = <<>> BY <1>1, ChunksAre, EmptySeq
  <1>3. TrailersOf(m) = <<>> BY <1>1, TrailersAre, EmptySeq
  <1>4. FlattenSeq(<<>>) = <<>> BY FlatNone
  <1>5. m.plain \o <<>> = m.plain BY <1>0, ConcatEmptySeq
  <1> QED BY <1>2, <1>3, <1>4, <1>5 DEF BodyOf, DataOf

\* The parts of a body in chunks: each is a size, data, and an end, ...
LEMMA ChunkPlaces ==
  ASSUME NEW m, IsMessage(m), m.plain = <<>>, NEW n \in 1..Len(m.chunks)
  PROVE  /\ ChunkAt(m, n) \in Nat /\ DataAt(m, n) \in Nat /\ HeadEnd(m) <= ChunkAt(m, n)
         /\ m.chunks[n].size \in Seq(Word) /\ m.chunks[n].data \in Seq(Unit) /\ Len(m.chunks[n].data) \in Nat
         /\ DataAt(m, n) = ChunkAt(m, n) + Len(m.chunks[n].size) + 2 /\ Len(m.chunks[n].size) \in Nat
         /\ Stands(Stream(m), ChunkAt(m, n), Line(m.chunks[n].size))
         /\ Stands(Stream(m), DataAt(m, n), m.chunks[n].data)
         /\ Stands(Stream(m), DataAt(m, n) + Len(m.chunks[n].data), EndOf(m.chunks[n]))
         /\ ChunkAt(m, n + 1) = DataAt(m, n) + Len(m.chunks[n].data) + Len(EndOf(m.chunks[n]))
         /\ ChunkAt(m, n + 1) <= BodyEnd(m)
         /\ n = Len(m.chunks) => ChunkAt(m, n + 1) = TrailerAt(m, 1)
  <1> DEFINE parts == ChunksOf(m)
             k == n - 1
             c == m.chunks[n]
             l == Line(c.size)
             e == EndOf(c)
             d == c.data
             h == HeadEnd(m)
             s == Stream(m)
             f == FlattenSeq(parts)
             t == FlattenSeq(TrailersOf(m))
             b == BodyOf(m)
             u == Before(parts, k)
  <1>0. Len(m.chunks) \in Nat /\ DOMAIN m.chunks = 1..Len(m.chunks) BY MessageFields
  <1>k. k \in Nat /\ k < Len(m.chunks) /\ k + 1 = n /\ (n + 1) - 1 = n /\ n \in Nat BY <1>0
  <1>1. /\ c.size \in Seq(Word) /\ d \in Seq(Unit) /\ l \in Seq(Unit) /\ Len(l) = Len(c.size) + 2
        /\ Len(c.size) \in Nat /\ Len(d) \in Nat
    BY <1>0, MessageFields, WordsAreUnits, LineIs, LenProperties
  <1>2. e \in Seq(Unit) /\ Len(e) \in Nat
    <2>1. <<"cr", "lf">> \in Seq(Unit) /\ <<>> \in Seq(Unit) BY ShortSeq, EmptySeq
    <2>2. e \in Seq(Unit) BY <2>1 DEF EndOf
    <2> QED BY <2>2, LenProperties
  <1>3. /\ parts \in Seq(Seq(Unit)) /\ Len(parts) = Len(m.chunks) /\ parts[n] = l \o d \o e
    BY <1>0, ChunksAre
  <1>4. /\ f \in Seq(Unit) /\ Len(f) \in Nat /\ t \in Seq(Unit) /\ Before(parts, Len(parts)) = Len(f)
        /\ Before(TrailersOf(m), 0) = 0
    BY <1>3, TrailersAre, FlatEnds
  <1>5. s \in Seq(Unit) /\ h \in Nat /\ Stands(s, h, b) /\ b \in Seq(Unit) /\ BodyEnd(m) = h + Len(b) /\ Len(b) \in Nat
    BY StreamIs
  <1>6. b = f \o t
    <2>1. <<>> \o f = f BY <1>4, ConcatEmptySeq
    <2> QED BY <2>1 DEF BodyOf
  <1>7. /\ Stands(f, u, parts[n]) /\ u \in Nat /\ Before(parts, n) = u + Len(parts[n])
        /\ Before(parts, n) <= Len(f)
    <2>1. k < Len(parts) BY <1>3, <1>k
    <2> HIDE DEF parts, k
    <2>2. /\ Stands(FlattenSeq(parts), Before(parts, k), parts[k + 1]) /\ Before(parts, k) \in Nat
          /\ Before(parts, k + 1) = Before(parts, k) + Len(parts[k + 1])
          /\ Before(parts, k + 1) <= Len(FlattenSeq(parts))
      BY <1>3, <1>k, <2>1, FlatStands
    <2> QED BY <1>k, <2>2
  <1>8. /\ ChunkAt(m, n) = h + u /\ DataAt(m, n) = h + u + Len(l) /\ ChunkAt(m, n + 1) = h + Before(parts, n)
        /\ TrailerAt(m, 1) = h + Len(f) + Before(TrailersOf(m), 0)
    <2>1. 1 - 1 = 0 OBVIOUS
    <2> QED BY <1>k, <2>1 DEF ChunkAt, DataAt, TrailerAt
  <1> DEFINE x == l \o d
             y == x \o e
             v == Before(parts, n)
  <1>9. x \in Seq(Unit) /\ Len(x) = Len(l) + Len(d) /\ y \in Seq(Unit) /\ Len(y) = Len(x) + Len(e)
    BY <1>1, <1>2, Concat
  <1>10. Stands(s, h + u, y)
    <2>1. Stands(f, u, y) /\ Stands(b, 0, f) BY <1>3, <1>4, <1>6, <1>7, Concat
    <2> HIDE DEF s, b, f, y, u, h
    <2>2. 0 \in Nat /\ h + 0 = h BY <1>5
    <2>3. Stands(s, h + 0, f) BY <1>4, <1>5, <2>1, <2>2, StandsIn
    <2>4. Stands(s, h, f) BY <2>2, <2>3
    <2> QED BY <1>4, <1>5, <1>7, <1>9, <2>1, <2>4, StandsIn
  <1>11. Stands(s, h + u, l) /\ Stands(s, h + u + Len(l), d) /\ Stands(s, h + u + Len(l) + Len(d), e)
    <2> HIDE DEF s, h, u, l, d, e
    <2> DEFINE a == h + u
    <2>1. a \in Nat /\ Stands(s, a, x \o e) BY <1>5, <1>7, <1>10
    <2> HIDE DEF a, x
    <2>2. Stands(s, a, x) /\ Stands(s, a + Len(x), e) BY <1>2, <1>5, <1>9, <2>1, StandsBoth
    <2>3. Stands(s, a, l \o d) BY <2>2 DEF x
    <2>4. Stands(s, a, l) /\ Stands(s, a + Len(l), d) BY <1>1, <1>5, <2>1, <2>3, StandsBoth
    <2>5. a + Len(x) = a + Len(l) + Len(d) BY <1>1, <1>9, <2>1, LenProperties
    <2> QED BY <2>2, <2>4, <2>5 DEF a
  <1>12. Len(b) = Len(f) + Len(t) /\ Len(t) \in Nat BY <1>4, <1>6, Concat
  <1>13. parts[n] = y BY <1>3
  <1>14. n = Len(m.chunks) => v = Len(f) BY <1>3, <1>4
  <1>15. v = u + Len(y) /\ v <= Len(f) BY <1>7, <1>13
  <1> HIDE DEF parts, k, l, e, d, h, s, f, t, b, u, x, y, v
  <1>16. /\ h + u \in Nat /\ h + u + Len(l) \in Nat /\ h <= h + u
         /\ h + v = h + u + Len(l) + Len(d) + Len(e)
         /\ h + v <= h + Len(b)
    <2> DEFINE ll == Len(l)
               ld == Len(d)
               le == Len(e)
               lx == Len(x)
               ly == Len(y)
               lc == Len(c.size)
               lf == Len(f)
               lt == Len(t)
               lb == Len(b)
    <2>1. /\ h \in Nat /\ u \in Nat /\ lc \in Nat /\ ld \in Nat /\ le \in Nat /\ lf \in Nat /\ lt \in Nat
          /\ ll = lc + 2 /\ lx = ll + ld /\ ly = lx + le /\ v = u + ly /\ v <= lf /\ lb = lf + lt
      BY <1>1, <1>2, <1>4, <1>5, <1>7, <1>9, <1>12, <1>15
    <2> HIDE DEF ll, ld, le, lx, ly, lc, lf, lt, lb
    <2>2. h + u \in Nat /\ h + u + ll \in Nat /\ h <= h + u /\ h + v = h + u + ll + ld + le /\ h + v <= h + lb
      BY <2>1
    <2> QED BY <2>2 DEF ll, ld, le, lb
  <1>17. /\ ChunkAt(m, n) = h + u /\ DataAt(m, n) = h + u + Len(l) /\ ChunkAt(m, n + 1) = h + v
         /\ TrailerAt(m, 1) = h + Len(f)
    BY <1>4, <1>5, <1>8 DEF v
  <1>18. Stands(s, ChunkAt(m, n), l) /\ Stands(s, DataAt(m, n), d) /\ Stands(s, DataAt(m, n) + Len(d), e)
    BY <1>11, <1>17
  <1>19. /\ ChunkAt(m, n) \in Nat /\ DataAt(m, n) \in Nat /\ h <= ChunkAt(m, n)
         /\ ChunkAt(m, n + 1) = DataAt(m, n) + Len(d) + Len(e)
         /\ ChunkAt(m, n + 1) <= BodyEnd(m)
         /\ n = Len(m.chunks) => ChunkAt(m, n + 1) = TrailerAt(m, 1)
    BY <1>5, <1>14, <1>16, <1>17
  <1>20. DataAt(m, n) = ChunkAt(m, n) + Len(c.size) + 2
    <2> DEFINE ll == Len(l)
               lc == Len(c.size)
               z == h + u
    <2>1. lc \in Nat /\ ll = lc + 2 /\ z \in Nat /\ DataAt(m, n) = z + ll /\ ChunkAt(m, n) = z
      BY <1>1, <1>16, <1>17
    <2> HIDE DEF ll, lc, z
    <2>2. DataAt(m, n) = ChunkAt(m, n) + lc + 2 BY <2>1
    <2> QED BY <2>2 DEF lc
  <1> QED BY <1>1, <1>18, <1>19, <1>20 DEF h, l, d, e, s

\* ... the trailers are lines behind them, ...
LEMMA TrailerPlaces ==
  ASSUME NEW m, IsMessage(m), m.plain = <<>>, NEW n \in 1..Len(m.trailers)
  PROVE  /\ TrailerAt(m, n) \in Nat /\ HeadEnd(m) <= TrailerAt(m, n) /\ m.trailers[n] \in Seq(Word)
         /\ Stands(Stream(m), TrailerAt(m, n), Line(m.trailers[n]))
         /\ TrailerAt(m, n + 1) = TrailerAt(m, n) + Len(Line(m.trailers[n]))
         /\ TrailerAt(m, n + 1) <= BodyEnd(m)
         /\ n = Len(m.trailers) => TrailerAt(m, n + 1) = BodyEnd(m)
  <1> DEFINE parts == TrailersOf(m)
             k == n - 1
             l == Line(m.trailers[n])
             h == HeadEnd(m)
             s == Stream(m)
             f == FlattenSeq(ChunksOf(m))
             t == FlattenSeq(parts)
             b == BodyOf(m)
             u == Before(parts, k)
             v == Before(parts, n)
  <1>0. Len(m.trailers) \in Nat /\ DOMAIN m.trailers = 1..Len(m.trailers) BY MessageFields
  <1>k. k \in Nat /\ k < Len(m.trailers) /\ k + 1 = n /\ (n + 1) - 1 = n /\ n \in Nat BY <1>0
  <1>1. /\ m.trailers[n] \in Seq(Word) /\ l \in Seq(Unit) /\ Len(l) \in Nat
    BY <1>0, MessageFields, WordsAreUnits, LineIs, LenProperties
  <1>3. /\ parts \in Seq(Seq(Unit)) /\ Len(parts) = Len(m.trailers) /\ parts[n] = l
    BY <1>0, TrailersAre
  <1>4. /\ t \in Seq(Unit) /\ Len(t) \in Nat /\ f \in Seq(Unit) /\ Before(parts, Len(parts)) = Len(t)
    BY <1>3, ChunksAre, FlatEnds
  <1>5. s \in Seq(Unit) /\ h \in Nat /\ Stands(s, h, b) /\ b \in Seq(Unit) /\ BodyEnd(m) = h + Len(b) /\ Len(b) \in Nat
    BY StreamIs
  <1>6. b = f \o t
    <2>1. <<>> \o f = f BY <1>4, ConcatEmptySeq
    <2> QED BY <2>1 DEF BodyOf
  <1>7. /\ Stands(t, u, l) /\ u \in Nat /\ v = u + Len(l) /\ v <= Len(t)
    <2>1. k < Len(parts) BY <1>3, <1>k
    <2> HIDE DEF parts, k
    <2>2. /\ Stands(FlattenSeq(parts), Before(parts, k), parts[k + 1]) /\ Before(parts, k) \in Nat
          /\ Before(parts, k + 1) = Before(parts, k) + Len(parts[k + 1])
          /\ Before(parts, k + 1) <= Len(FlattenSeq(parts))
      BY <1>3, <1>k, <2>1, FlatStands
    <2> QED BY <1>3, <1>k, <2>2
  <1>8. TrailerAt(m, n) = h + Len(f) + u /\ TrailerAt(m, n + 1) = h + Len(f) + v
    BY <1>k DEF TrailerAt
  <1>9. Stands(b, Len(f), t) /\ Len(f) \in Nat /\ Len(b) = Len(f) + Len(t) BY <1>4, <1>6, Concat
  <1>10. n = Len(m.trailers) => v = Len(t) BY <1>3, <1>4
  <1> HIDE DEF parts, k, l, h, s, f, t, b, u, v
  <1>11. Stands(s, h + Len(f), t) BY <1>4, <1>5, <1>9, StandsIn
  <1> DEFINE a == h + Len(f)
             ll == Len(l)
             lf == Len(f)
             lb == Len(b)
             lt == Len(t)
  <1>12. /\ h \in Nat /\ lf \in Nat /\ a = h + lf /\ u \in Nat /\ ll \in Nat /\ lt \in Nat
         /\ v = u + ll /\ v <= lt /\ lb = lf + lt /\ Stands(s, a, t) /\ BodyEnd(m) = h + lb
         /\ TrailerAt(m, n) = a + u /\ TrailerAt(m, n + 1) = a + v
         /\ n = Len(m.trailers) => v = lt
    BY <1>1, <1>4, <1>5, <1>7, <1>8, <1>9, <1>10, <1>11
  <1> HIDE DEF a, ll, lf, lb, lt
  <1>13. a \in Nat BY <1>12
  <1>14. Stands(s, a + u, l) BY <1>1, <1>4, <1>5, <1>7, <1>12, <1>13, StandsIn
  <1>15. /\ TrailerAt(m, n) \in Nat /\ h <= TrailerAt(m, n)
         /\ TrailerAt(m, n + 1) = TrailerAt(m, n) + ll /\ TrailerAt(m, n + 1) <= BodyEnd(m)
         /\ n = Len(m.trailers) => TrailerAt(m, n + 1) = BodyEnd(m)
    BY <1>12
  <1> QED BY <1>1, <1>12, <1>14, <1>15 DEF h, s, l, ll

\* ... and the data are what is left without the framing.
LEMMA DataPlaces ==
  ASSUME NEW m, IsMessage(m), m.plain = <<>>
  PROVE  /\ DataOf(m) \in Seq(Unit) /\ Len(DataOf(m)) \in Nat
         /\ Before(DatasOf(m), 0) = 0 /\ Before(DatasOf(m), Len(m.chunks)) = Len(DataOf(m))
         /\ \A n \in 1..Len(m.chunks) :
               /\ Before(DatasOf(m), n - 1) \in Nat
               /\ Stands(DataOf(m), Before(DatasOf(m), n - 1), m.chunks[n].data)
               /\ Before(DatasOf(m), n) = Before(DatasOf(m), n - 1) + Len(m.chunks[n].data)
               /\ Before(DatasOf(m), n) <= Len(DataOf(m))
  <1> DEFINE parts == DatasOf(m)
             f == FlattenSeq(parts)
  <1>0. Len(m.chunks) \in Nat /\ DOMAIN m.chunks = 1..Len(m.chunks) BY MessageFields
  <1>1. parts \in Seq(Seq(Unit)) /\ Len(parts) = Len(m.chunks) BY ChunksAre
  <1>2. f \in Seq(Unit) /\ Len(f) \in Nat /\ Before(parts, Len(parts)) = Len(f) /\ Before(parts, 0) = 0
    BY <1>1, FlatEnds
  <1>3. DataOf(m) = f
    <2>1. <<>> \o f = f BY <1>2, ConcatEmptySeq
    <2> QED BY <2>1 DEF DataOf
  <1>4. ASSUME NEW n \in 1..Len(m.chunks)
        PROVE  /\ Before(parts, n - 1) \in Nat
               /\ Stands(f, Before(parts, n - 1), m.chunks[n].data)
               /\ Before(parts, n) = Before(parts, n - 1) + Len(m.chunks[n].data)
               /\ Before(parts, n) <= Len(f)
    <2> DEFINE k == n - 1
    <2>k. k \in Nat /\ k < Len(parts) /\ k + 1 = n BY <1>0, <1>1
    <2>1. parts[n] = m.chunks[n].data BY <1>0, ChunksAre
    <2> HIDE DEF parts, k
    <2>2. /\ Stands(FlattenSeq(parts), Before(parts, k), parts[k + 1]) /\ Before(parts, k) \in Nat
          /\ Before(parts, k + 1) = Before(parts, k) + Len(parts[k + 1])
          /\ Before(parts, k + 1) <= Len(FlattenSeq(parts))
      BY <1>1, <2>k, FlatStands
    <2> QED BY <2>k, <2>1, <2>2 DEF k
  <1> QED BY <1>1, <1>2, <1>3, <1>4

-----------------------------------------------------------------------------
(* Where the reader is.                                                    *)

LEMMA BufferIs ==
  ASSUME TypeOK
  PROVE  /\ IsMessage(message) /\ Stream(message) \in Seq(Unit) /\ Len(Stream(message)) \in Nat
         /\ received \in 0..Len(Stream(message)) /\ used \in 0..received /\ received \in Nat /\ used \in Nat
         /\ Buffer = Part(Stream(message), used, received)
         /\ Buffer \in Seq(Unit) /\ Len(Buffer) = received - used /\ Len(Buffer) \in Nat
         /\ \A i \in 1..Len(Buffer) : Buffer[i] = Stream(message)[used + i]
         /\ Coming = Part(Stream(message), received, Len(Stream(message)))
         /\ Coming \in Seq(Unit) /\ Len(Coming) = Len(Stream(message)) - received /\ Len(Coming) \in Nat
  <1> DEFINE s == Stream(message)
             l == Len(s)
  <1>1. IsMessage(message) BY SockReaderAssumption DEF TypeOK
  <1>2. s \in Seq(Unit) /\ l \in Nat BY <1>1, StreamIs, LenProperties
  <1>3. received \in 0..l /\ used \in 0..received BY DEF TypeOK
  <1>4. Buffer = Part(s, used, received) /\ Coming = Part(s, received, l) BY DEF Buffer, Coming, Part
  <1> HIDE DEF s
  <1>5. /\ Part(s, used, received) \in Seq(Unit) /\ Len(Part(s, used, received)) = received - used
        /\ \A i \in 1..received - used : Part(s, used, received)[i] = s[used + i]
    BY <1>2, <1>3, PartIs
  <1>6. l \in 0..l /\ received \in Nat /\ used \in Nat /\ received - used \in Nat /\ l - received \in Nat BY <1>2, <1>3
  <1> HIDE DEF l
  <1>7. Part(s, received, l) \in Seq(Unit) /\ Len(Part(s, received, l)) = l - received
    <2>1. l \in 0..Len(s) /\ received \in 0..l BY <1>3, <1>6 DEF l
    <2> QED BY <1>2, <2>1, PartIs
  <1> QED BY <1>1, <1>2, <1>3, <1>4, <1>5, <1>6, <1>7 DEF s, l

LEMMA LineFeedIs ==
  ASSUME TypeOK
  PROVE  /\ LineFeed \in 0..Len(Buffer)
         /\ LineFeed = 0 => \A i \in 1..Len(Buffer) : Buffer[i] # "lf"
         /\ LineFeed # 0 => Buffer[LineFeed] = "lf" /\ \A i \in 1..LineFeed - 1 : Buffer[i] # "lf"
  <1> DEFINE T == {i \in 1..Len(Buffer) : Buffer[i] = "lf"}
  <1>0. Len(Buffer) \in Nat BY BufferIs
  <1>1. LineFeed = IF T # {} THEN Min(T) ELSE 0 BY DEF LineFeed, SelectInSeq
  <1>2. CASE T = {}
    <2>1. LineFeed = 0 BY <1>1, <1>2
    <2>2. \A i \in 1..Len(Buffer) : Buffer[i] # "lf" BY <1>2
    <2> QED BY <1>0, <2>1, <2>2
  <1>3. CASE T # {}
    <2>1. T \subseteq Nat BY <1>0
    <2>2. Min(T) \in T /\ \A n \in T : Min(T) <= n
      <3> HIDE DEF T
      <3> QED BY <1>3, <2>1, LeastOf
    <2> DEFINE a == Min(T)
    <2>3. LineFeed = a BY <1>1, <1>3
    <2>4. a \in 1..Len(Buffer) /\ Buffer[a] = "lf" /\ \A n \in T : a <= n BY <2>2
    <2> HIDE DEF a
    <2>5. ASSUME NEW i \in 1..a - 1 PROVE Buffer[i] # "lf"
      <3>1. i \in 1..Len(Buffer) /\ ~(a <= i) BY <1>0, <2>4
      <3> QED BY <2>4, <3>1
    <2> QED BY <1>0, <2>3, <2>4, <2>5
  <1> QED BY <1>2, <1>3

LEMMA WordsAre ==
  ASSUME TypeOK, LineFeed # 0
  PROVE  Words \in Seq(Unit) /\ Len(Words) \in Nat
  <1> DEFINE words == SubSeq(Buffer, 1, LineFeed - 1)
             k == LineFeed - 1
  <1>1. k \in 0..Len(Buffer) /\ 0 \in 0..k /\ Buffer \in Seq(Unit) /\ Len(Buffer) \in Nat
    BY BufferIs, LineFeedIs
  <1>2. words = Part(Buffer, 0, k) BY DEF Part
  <1> HIDE DEF k
  <1>3. words \in Seq(Unit) BY <1>1, <1>2, PartIs
  <1>4. Words = IF words # <<>> /\ Last(words) = "cr" THEN Front(words) ELSE words BY DEF Words
  <1> HIDE DEF words
  <1>5. ASSUME words # <<>> PROVE Front(words) \in Seq(Unit)
    <2> DEFINE j == Len(words) - 1
    <2>1. Len(words) \in Nat /\ Len(words) # 0 BY <1>3, <1>5, EmptySeq, LenProperties
    <2>2. j \in 0..Len(words) /\ 0 \in 0..j BY <2>1
    <2>3. Front(words) = Part(words, 0, j) BY DEF Front, Part
    <2> HIDE DEF j
    <2> QED BY <1>3, <2>2, <2>3, PartIs
  <1>6. Words \in Seq(Unit) BY <1>3, <1>4, <1>5
  <1> QED BY <1>6, LenProperties

\* Where a line stands, the reader finds its end, once it has come, and its words.
LEMMA LineRead ==
  ASSUME TypeOK, NEW w \in Seq(Word), NEW e \in Eols, Stands(Stream(message), used, w \o e)
  PROVE  /\ Len(w) \in Nat /\ Len(e) \in Nat /\ used + Len(w) + Len(e) <= Len(Stream(message))
         /\ LineFeed = 0 => received < used + Len(w) + Len(e)
         /\ LineFeed # 0 => LineFeed = Len(w) + Len(e) /\ Words = w
  <1> DEFINE s == Stream(message)
             n == Len(w)
             k == Len(e)
  <1>1. /\ w \in Seq(Unit) /\ e \in Seq(Unit) /\ n \in Nat /\ k \in {1, 2} /\ e[k] = "lf" /\ (k = 2 => e[1] = "cr")
    BY WordsAreUnits, EolIs, LenProperties
  <1>2. \A i \in 1..n : w[i] # "cr" /\ w[i] # "lf"
    <2>1. \A i \in 1..n : w[i] \in Word BY ElementOfSeq
    <2> QED BY <2>1 DEF Word
  <1>3. Stands(s, used, w) /\ Stands(s, used + n, e)
    <2> HIDE DEF s
    <2>1. s \in Seq(Unit) /\ used \in Nat BY BufferIs DEF s
    <2>2. Stands(s, used, w \o e) BY DEF s
    <2> QED BY <1>1, <2>1, <2>2, StandsBoth
  <1> HIDE DEF n, k
  <1>4. \A i \in 1..n : s[used + i] = w[i] BY <1>3 DEF Stands, n
  <1>5. used + n + k <= Len(s) /\ s[used + n + k] = "lf" /\ (k = 2 => s[used + n + 1] = "cr")
    <2>1. used + n + k <= Len(s) /\ \A i \in 1..k : s[used + n + i] = e[i] BY <1>3 DEF Stands, k
    <2>2. k \in 1..k /\ 1 \in 1..k BY <1>1
    <2> QED BY <1>1, <2>1, <2>2
  <1>6. /\ Buffer \in Seq(Unit) /\ Len(Buffer) = received - used /\ Len(Buffer) \in Nat /\ used \in Nat /\ received \in Nat
        /\ \A i \in 1..Len(Buffer) : Buffer[i] = s[used + i]
    BY BufferIs
  <1> HIDE DEF s
  <1>7. ASSUME NEW i \in 1..n + k - 1 PROVE s[used + i] # "lf"
    <2>1. CASE i <= n
      <3>1. i \in 1..n BY <1>1, <2>1
      <3> QED BY <1>2, <1>4, <3>1
    <2>2. CASE i > n
      <3>1. k = 2 /\ i = n + 1 BY <1>1, <2>2
      <3>2. used + i = used + n + 1 BY <1>1, <1>6, <3>1
      <3>3. s[used + i] = "cr" BY <1>5, <3>1, <3>2
      <3> QED BY <3>3
    <2>3. i \in Nat BY <1>1
    <2> QED BY <1>1, <2>1, <2>2, <2>3
  <1>8. ASSUME LineFeed = 0 PROVE received < used + n + k
    <2> SUFFICES ASSUME ~(received < used + n + k) PROVE FALSE OBVIOUS
    <2>1. n + k \in 1..Len(Buffer) /\ used + (n + k) = used + n + k BY <1>1, <1>6
    <2>2. Buffer[n + k] = "lf" BY <1>5, <1>6, <2>1
    <2> QED BY <1>8, <2>1, <2>2, LineFeedIs
  <1>9. ASSUME LineFeed # 0 PROVE LineFeed = n + k
    <2>1. LineFeed \in 1..Len(Buffer) /\ Buffer[LineFeed] = "lf" /\ \A i \in 1..LineFeed - 1 : Buffer[i] # "lf"
      <3>1. LineFeed \in 0..Len(Buffer) /\ LineFeed # 0 BY <1>9, LineFeedIs
      <3>2. LineFeed \in 1..Len(Buffer) BY <1>6, <3>1
      <3> QED BY <1>9, <3>2, LineFeedIs
    <2>2. s[used + LineFeed] = "lf" BY <1>6, <2>1
    <2>3. LineFeed \in Nat /\ LineFeed <= Len(Buffer) BY <1>6, <2>1
    <2>4. ~(LineFeed < n + k)
      <3>1. LineFeed < n + k => LineFeed \in 1..n + k - 1 BY <1>1, <2>1, <2>3
      <3> QED BY <1>7, <2>2, <3>1
    <2>5. ~(LineFeed > n + k)
      <3> SUFFICES ASSUME LineFeed > n + k PROVE FALSE OBVIOUS
      <3>1. n + k \in 1..LineFeed - 1 /\ n + k \in 1..Len(Buffer) /\ used + (n + k) = used + n + k BY <1>1, <1>6, <2>3
      <3>2. Buffer[n + k] = "lf" BY <1>5, <1>6, <3>1
      <3> QED BY <2>1, <3>1, <3>2
    <2> QED BY <1>1, <2>3, <2>4, <2>5
  <1>10. ASSUME LineFeed # 0 PROVE Words = w
    <2> DEFINE j == LineFeed - 1
               words == SubSeq(Buffer, 1, j)
    <2>1. j = n + k - 1 /\ j \in Nat /\ j \in 0..Len(Buffer) /\ 0 \in 0..j /\ j - 0 = j
      BY <1>1, <1>6, <1>9, <1>10, LineFeedIs
    <2>2. Words = IF words # <<>> /\ Last(words) = "cr" THEN Front(words) ELSE words BY DEF Words
    <2> HIDE DEF j
    <2>3. words \in Seq(Unit) /\ Len(words) = j /\ \A i \in 1..j : words[i] = s[used + i]
      <3>1. words = Part(Buffer, 0, j) BY DEF Part
      <3>4. Buffer \in Seq(Unit) /\ j \in 0..Len(Buffer) /\ 0 \in 0..j BY <1>6, <2>1
      <3>2. /\ Part(Buffer, 0, j) \in Seq(Unit) /\ Len(Part(Buffer, 0, j)) = j - 0
            /\ \A i \in 1..j - 0 : Part(Buffer, 0, j)[i] = Buffer[0 + i]
        BY <3>4, PartIs
      <3>3. \A i \in 1..j : i \in 1..Len(Buffer) /\ 0 + i = i BY <1>6, <2>1
      <3> QED BY <1>6, <2>1, <3>1, <3>2, <3>3
    <2> HIDE DEF words
    <2>4. CASE k = 1
      <3>1. j = n BY <1>1, <2>1, <2>4
      <3>2. words = w
        <4>1. Len(words) = Len(w) /\ \A i \in 1..Len(words) : words[i] = w[i] BY <1>4, <2>3, <3>1 DEF n
        <4> QED BY <1>1, <2>3, <4>1, SameParts
      <3>3. words # <<>> => Last(words) # "cr"
        <4>1. words # <<>> => n \in 1..n BY <1>1, <2>3, <3>1, EmptySeq
        <4> QED BY <1>2, <2>3, <3>1, <3>2, <4>1 DEF Last
      <3> QED BY <2>2, <3>2, <3>3
    <2>5. CASE k = 2
      <3>1. j = n + 1 /\ j \in 1..j BY <1>1, <2>1, <2>5
      <3>2. words # <<>> /\ Last(words) = "cr"
        <4>1. words[j] = "cr"
          <5>1. used + j = used + n + 1 BY <1>1, <1>6, <3>1
          <5> QED BY <1>5, <2>3, <2>5, <3>1, <5>1
        <4>2. words # <<>> BY <1>1, <2>3, <3>1
        <4> QED BY <2>3, <4>1, <4>2 DEF Last
      <3>3. Front(words) = w
        <4>1. Front(words) = Part(words, 0, n)
          <5>1. Len(words) - 1 = n BY <1>1, <2>3, <3>1
          <5> QED BY <5>1 DEF Front, Part
        <4>2. n \in 0..Len(words) /\ 0 \in 0..n /\ n - 0 = n BY <1>1, <2>3, <3>1
        <4>3. /\ Part(words, 0, n) \in Seq(Unit) /\ Len(Part(words, 0, n)) = n - 0
              /\ \A i \in 1..n - 0 : Part(words, 0, n)[i] = words[0 + i]
          BY <2>3, <4>2, PartIs
        <4>4. \A i \in 1..n : i \in 1..j /\ 0 + i = i BY <1>1, <3>1
        <4>5. \A i \in 1..n : Part(words, 0, n)[i] = w[i] BY <1>4, <2>3, <4>2, <4>3, <4>4
        <4>6. Len(Part(words, 0, n)) = n BY <4>2, <4>3
        <4> QED BY <1>1, <4>1, <4>3, <4>5, <4>6, SameParts DEF n
      <3> QED BY <2>2, <3>2, <3>3
    <2> QED BY <1>1, <2>4, <2>5
  <1> QED BY <1>1, <1>5, <1>6, <1>8, <1>9, <1>10 DEF n, k, s

-----------------------------------------------------------------------------
(* The framing.                                                            *)

LEMMA FirstIs ==
  ASSUME NEW m, IsMessage(m), NEW kind, Has(NamesOf(m), kind)
  PROVE  /\ FirstOf(NamesOf(m), kind) \in kind
         /\ \E n \in Among(NamesOf(m), kind) : FirstOf(NamesOf(m), kind) = NamesOf(m)[n]
  <1> DEFINE names == NamesOf(m)
             T == Among(names, kind)
  <1>1. names \in Seq(Word) BY NamesAre
  <1>2. Len(names) \in Nat /\ DOMAIN names = 1..Len(names) BY <1>1, LenProperties
  <1>3. T \subseteq Nat /\ T # {} BY <1>2 DEF Among, Has
  <1>4. Min(T) \in T
    <2> HIDE DEF T
    <2> QED BY <1>3, LeastOf
  <1>5. FirstOf(names, kind) = names[Min(T)] BY DEF FirstOf
  <1>6. \A n \in T : names[n] \in kind BY DEF Among
  <1> DEFINE a == Min(T)
  <1>7. a \in T /\ FirstOf(names, kind) = names[a] BY <1>4, <1>5
  <1> HIDE DEF a, T, names
  <1> QED BY <1>6, <1>7 DEF T, names

\* A careful program takes a request that can be read in two ways for an error.
LEMMA AmbiguousRefused ==
  ASSUME Self.head.careful, Ambiguous(message), head = NamesOf(message)
  PROVE  Framing.mode = "error"
  <1>1. message.side = "request" BY DEF Ambiguous
  <1>2. Framing = CarefulRequestMode BY <1>1 DEF Framing, RequestMode
  <1>3. CarefulRequestMode = Mode("error", 0) BY DEF CarefulRequestMode, Ambiguous
  <1> QED BY <1>2, <1>3 DEF Mode

\* It takes what is in bad chunks for chunks, if not for an error.
LEMMA BadlyChunkedIs ==
  ASSUME IsMessage(message), Self.head.careful, BadlyChunked(message), head = NamesOf(message)
  PROVE  Framing.mode \in {"chunked", "error"}
  <1>1. /\ message.side # "connect" /\ ~NoBody(message) /\ Has(head, Codings)
        /\ message.side # "request" => FirstOf(head, Codings) = "chunked"
    BY DEF BadlyChunked
  <1>2. CASE message.side = "request"
    <2>1. Framing = CarefulRequestMode BY <1>2 DEF Framing, RequestMode
    <2>2. CarefulRequestMode \in {Mode("error", 0), Mode("chunked", 0)} BY <1>1 DEF CarefulRequestMode
    <2> QED BY <2>1, <2>2 DEF Mode
  <1>3. CASE message.side # "request"
    <2>1. Framing = FirstMode("close")
      <3>1. message.side = "response"
        <4>1. message.side \in {"request", "response", "connect"} BY DEF IsMessage
        <4> QED BY <1>1, <1>3, <4>1
      <3>2. ~NoContent(message) /\ message.method # "HEAD" BY <1>1, <3>1 DEF NoBody
      <3> QED BY <3>1, <3>2 DEF Framing, ResponseMode
    <2>2. FirstMode("close") = Mode("chunked", 0) BY <1>1, <1>3 DEF FirstMode
    <2> QED BY <2>1, <2>2 DEF Mode
  <1> QED BY <1>2, <1>3

\* Where the sender and the program agree, the framing is that of the body.
LEMMA CertainFraming ==
  ASSUME IsMessage(message), Agreed, head = NamesOf(message)
  PROVE  /\ Framing.mode \in {"none", "length", "chunked", "close"}
         /\ Framing.mode = "chunked" => IsChunked(message)
         /\ Framing.mode # "chunked" => IsPlain(message)
         /\ Framing.mode = "none" => message.plain = <<>>
         /\ Framing.mode = "length" => Framing.n = Len(message.plain)
         /\ Framing.mode = "close" => message.next = <<>>
  <1> DEFINE names == NamesOf(message)
             Good(f) == /\ f.mode \in {"none", "length", "chunked", "close"}
                        /\ f.mode = "chunked" => IsChunked(message)
                        /\ f.mode # "chunked" => IsPlain(message)
                        /\ f.mode = "none" => message.plain = <<>>
                        /\ f.mode = "length" => f.n = Len(message.plain)
                        /\ f.mode = "close" => message.next = <<>>
  <1>0. \A k, n : Mode(k, n).mode = k /\ Mode(k, n).n = n BY DEF Mode
  <1>1. /\ message.side \in {"request", "response"} /\ ~Disagrees
        /\ NoBody(message) => message.plain = <<>> /\ IsPlain(message)
        /\ ~NoBody(message) /\ Has(names, Codings) =>
              /\ LastOf(names, Codings) = "chunked" /\ IsChunked(message)
              /\ message.side = "request" => ~Has(names, Lengths)
        /\ ~NoBody(message) /\ ~Has(names, Codings) /\ Has(names, Lengths) =>
              /\ IsPlain(message) /\ ~Has(names, BadLengths)
              /\ \A n \in Among(names, Lengths) : LengthOf[names[n]] = Len(message.plain)
        /\ ~NoBody(message) /\ ~Has(names, Codings) /\ ~Has(names, Lengths) =>
              /\ IsPlain(message)
              /\ IF message.side = "request" THEN message.plain = <<>> ELSE message.next = <<>>
    <2>1. message.side \in {"request", "response", "connect"} BY DEF IsMessage
    <2>2. Certain(message) /\ ~Disagrees BY DEF Agreed
    <2>3. message.side # "connect" BY <2>2 DEF Certain
    <2> HIDE DEF names
    <2> QED BY <2>1, <2>2, <2>3 DEF Certain, names
  <1>2. head = names OBVIOUS
  <1>3. /\ Has(names, Codings) => FirstOf(names, Codings) \in Codings
        /\ Has(names, Lengths) =>
             \E n \in Among(names, Lengths) : FirstOf(names, Lengths) = names[n] /\ names[n] \in Lengths
    <2>1. \A kind, n : n \in Among(names, kind) => names[n] \in kind BY DEF Among
    <2>2. Has(names, Codings) => FirstOf(names, Codings) \in Codings BY FirstIs
    <2>3. Has(names, Lengths) => \E n \in Among(names, Lengths) : FirstOf(names, Lengths) = names[n] BY FirstIs
    <2> QED BY <2>1, <2>2, <2>3
  <1> HIDE DEF names
  <1>4. ASSUME ~NoBody(message), ~Has(names, Codings), Has(names, Lengths)
        PROVE  /\ FirstOf(names, Lengths) \in DOMAIN LengthOf /\ Value(FirstOf(names, Lengths)) = Len(message.plain)
               /\ ~Conflicting(names) /\ ~Has(names, BadLengths) /\ IsPlain(message)
    <2>1. PICK n \in Among(names, Lengths) : FirstOf(names, Lengths) = names[n] /\ names[n] \in Lengths BY <1>3, <1>4
    <2>2. names[n] \notin BadLengths
      <3>1. names[n] \in BadLengths => n \in Among(names, BadLengths) BY <2>1 DEF Among
      <3> QED BY <1>1, <1>4, <3>1 DEF Has
    <2>3. FirstOf(names, Lengths) \in DOMAIN LengthOf BY <2>1, <2>2 DEF Lengths
    <2>4. Value(FirstOf(names, Lengths)) = Len(message.plain) BY <1>1, <1>4, <2>1, <2>3 DEF Value
    <2>5. ~Conflicting(names)
      <3>1. Among(names, DOMAIN LengthOf) \subseteq Among(names, Lengths) BY DEF Among, Lengths
      <3> QED BY <1>1, <1>4, <3>1 DEF Conflicting
    <2> QED BY <1>1, <1>4, <2>3, <2>4, <2>5
  <1>5. ASSUME message.side = "request" PROVE Good(RequestMode)
    <2>0. ~NoBody(message) BY <1>5 DEF NoBody
    <2>1. CASE Self.head.careful
      <3>0. RequestMode = CarefulRequestMode BY <2>1 DEF RequestMode
      <3>1. CASE Has(names, Codings)
        <4>1. ~Has(names, Lengths) /\ LastOf(names, Codings) = "chunked" /\ IsChunked(message)
          BY <1>1, <1>5, <2>0, <3>1
        <4>2. Among(names, Lengths) = {} BY <4>1 DEF Has
        <4>3. ~Has(names, BadLengths) /\ ~Conflicting(names)
          <5>1. Among(names, BadLengths) = {} /\ Among(names, DOMAIN LengthOf) = {} BY <4>2 DEF Among, Lengths
          <5> QED BY <5>1 DEF Has, Conflicting
        <4>4. CarefulRequestMode = Mode("chunked", 0) BY <1>2, <3>1, <4>1, <4>3 DEF CarefulRequestMode
        <4> QED BY <1>0, <3>0, <4>1, <4>4
      <3>2. CASE ~Has(names, Codings) /\ Has(names, Lengths)
        <4>1. CarefulRequestMode = Mode("length", Value(FirstOf(names, Lengths)))
          BY <1>2, <1>4, <2>0, <3>2 DEF CarefulRequestMode
        <4> QED BY <1>0, <1>4, <2>0, <3>0, <3>2, <4>1
      <3>3. CASE ~Has(names, Codings) /\ ~Has(names, Lengths)
        <4>1. Among(names, Lengths) = {} BY <3>3 DEF Has
        <4>2. ~Has(names, BadLengths) /\ ~Conflicting(names)
          <5>1. Among(names, BadLengths) = {} /\ Among(names, DOMAIN LengthOf) = {} BY <4>1 DEF Among, Lengths
          <5> QED BY <5>1 DEF Has, Conflicting
        <4>3. CarefulRequestMode = Mode("none", 0) BY <1>2, <3>3, <4>2 DEF CarefulRequestMode
        <4>4. message.plain = <<>> /\ IsPlain(message) BY <1>1, <1>5, <2>0, <3>3
        <4> QED BY <1>0, <3>0, <4>3, <4>4
      <3> QED BY <3>1, <3>2, <3>3
    <2>2. CASE ~Self.head.careful
      <3>0. RequestMode = FirstMode("none") BY <2>2 DEF RequestMode
      <3>1. CASE Has(names, Codings)
        <4>1. FirstOf(names, Codings) = "chunked" /\ IsChunked(message)
          BY <1>1, <2>0, <2>2, <3>1 DEF Disagrees, names
        <4>2. FirstMode("none") = Mode("chunked", 0) BY <1>2, <3>1, <4>1 DEF FirstMode
        <4> QED BY <1>0, <3>0, <4>1, <4>2
      <3>2. CASE ~Has(names, Codings) /\ Has(names, Lengths)
        <4>1. FirstMode("none") = Mode("length", Value(FirstOf(names, Lengths)))
          BY <1>2, <1>4, <2>0, <3>2 DEF FirstMode, Usable
        <4> QED BY <1>0, <1>4, <2>0, <3>0, <3>2, <4>1
      <3>3. CASE ~Has(names, Codings) /\ ~Has(names, Lengths)
        <4>1. FirstMode("none") = Mode("none", 0) BY <1>2, <3>3 DEF FirstMode
        <4>2. message.plain = <<>> /\ IsPlain(message) BY <1>1, <1>5, <2>0, <3>3
        <4> QED BY <1>0, <3>0, <4>1, <4>2
      <3> QED BY <3>1, <3>2, <3>3
    <2> QED BY <2>1, <2>2
  <1>6. ASSUME message.side = "response" PROVE Good(ResponseMode)
    <2>1. CASE NoBody(message)
      <3>1. message.method = "HEAD" => Self.head.method BY <1>1 DEF Disagrees
      <3>2. ResponseMode = Mode("none", 0) BY <2>1, <3>1 DEF ResponseMode, NoBody
      <3>3. message.plain = <<>> /\ IsPlain(message) BY <1>1, <2>1
      <3> QED BY <1>0, <3>2, <3>3
    <2>2. CASE ~NoBody(message)
      <3>0. ResponseMode = FirstMode("close") BY <1>6, <2>2 DEF ResponseMode, NoBody
      <3>1. CASE Has(names, Codings)
        <4>1. FirstOf(names, Codings) = "chunked" /\ IsChunked(message)
          BY <1>1, <1>6, <2>2, <3>1 DEF Disagrees, names
        <4>2. FirstMode("close") = Mode("chunked", 0) BY <1>2, <3>1, <4>1 DEF FirstMode
        <4> QED BY <1>0, <3>0, <4>1, <4>2
      <3>2. CASE ~Has(names, Codings) /\ Has(names, Lengths)
        <4>1. FirstMode("close") = Mode("length", Value(FirstOf(names, Lengths)))
          BY <1>2, <1>4, <2>2, <3>2 DEF FirstMode, Usable
        <4> QED BY <1>0, <1>4, <2>2, <3>0, <3>2, <4>1
      <3>3. CASE ~Has(names, Codings) /\ ~Has(names, Lengths)
        <4>1. FirstMode("close") = Mode("close", 0) BY <1>2, <3>3 DEF FirstMode
        <4>2. message.next = <<>> /\ IsPlain(message) BY <1>1, <1>6, <2>2, <3>3
        <4> QED BY <1>0, <3>0, <4>1, <4>2
      <3> QED BY <3>1, <3>2, <3>3
    <2> QED BY <2>1, <2>2
  <1>7. Good(Framing) BY <1>1, <1>5, <1>6 DEF Framing
  <1> QED BY <1>7

-----------------------------------------------------------------------------
(* The capture.                                                            *)

Least(a, b) == IF a <= b THEN a ELSE b

LEMMA MinOfTwo == ASSUME NEW a \in Nat, NEW b \in Nat PROVE Min({a, b}) = Least(a, b)
  <1> DEFINE T == {a, b}
             c == Min(T)
  <1>1. T \subseteq Nat /\ T # {} OBVIOUS
  <1>2. c \in T /\ \A n \in T : c <= n
    <2> HIDE DEF T
    <2> QED BY <1>1, LeastOf
  <1>3. c \in {a, b} /\ c <= a /\ c <= b BY <1>2
  <1> HIDE DEF c
  <1>4. c = Least(a, b) BY <1>3 DEF Least
  <1> QED BY <1>4 DEF c

\* The first n units of a part that begins at 0.
LEMMA UpToPart ==
  ASSUME NEW A, NEW s \in Seq(A), NEW n \in Nat, NEW q \in 0..Len(s)
  PROVE  /\ UpTo(n, Part(s, 0, q)) = Part(s, 0, Least(n, q))
         /\ Least(n, q) \in 0..q /\ Least(n, q) \in 0..Len(s)
         /\ Len(Part(s, 0, q)) = q /\ Len(UpTo(n, Part(s, 0, q))) = Least(n, q)
         /\ UpTo(n, Part(s, 0, q)) \in Seq(A)
  <1> DEFINE a == Part(s, 0, q)
             k == Least(n, q)
  <1>0. Len(s) \in Nat /\ q \in Nat /\ 0 \in 0..q /\ q - 0 = q BY LenProperties
  <1>1. a \in Seq(A) /\ Len(a) = q
    <2>1. Len(a) = q - 0 /\ a \in Seq(A) BY <1>0, PartIs
    <2> QED BY <1>0, <2>1
  <1>2. k \in 0..q /\ k \in 0..Len(s) /\ k \in Nat /\ 0 \in 0..k /\ k \in 0..q - 0 /\ 0 + k = k /\ 0 + 0 = 0 /\ k - 0 = k
    BY <1>0 DEF Least
  <1>3. UpTo(n, a) = Part(a, 0, k)
    <2>1. Min({n, Len(a)}) = k BY <1>0, <1>1, MinOfTwo
    <2> HIDE DEF a, k
    <2>2. Part(a, 0, k) = SubSeq(a, 1, k) BY DEF Part
    <2>3. UpTo(n, a) = SubSeq(a, 1, Min({n, Len(a)})) BY DEF UpTo
    <2> QED BY <2>1, <2>2, <2>3
  <1> HIDE DEF k
  <1>4. Part(a, 0, k) = Part(s, 0 + 0, 0 + k) BY <1>0, <1>2, PartOfPart
  <1>5. Part(s, 0, k) \in Seq(A) /\ Len(Part(s, 0, k)) = k - 0 BY <1>2, PartIs
  <1>6. UpTo(n, a) = Part(s, 0, k) /\ Len(Part(s, 0, k)) = k BY <1>2, <1>3, <1>4, <1>5
  <1> QED BY <1>1, <1>2, <1>5, <1>6 DEF k

LEMMA UpToLength ==
  ASSUME NEW A, NEW s \in Seq(A), NEW n \in Nat
  PROVE  UpTo(n, s) \in Seq(A) /\ Len(UpTo(n, s)) <= n
  <1> DEFINE k == Least(n, Len(s))
  <1>0. Len(s) \in Nat BY LenProperties
  <1>1. k \in 0..Len(s) /\ 0 \in 0..k /\ k - 0 = k /\ k <= n BY <1>0 DEF Least
  <1>2. Min({n, Len(s)}) = k BY <1>0, MinOfTwo
  <1> HIDE DEF k
  <1>3. Part(s, 0, k) = SubSeq(s, 1, k) BY DEF Part
  <1>4. UpTo(n, s) = Part(s, 0, k) BY <1>2, <1>3 DEF UpTo
  <1>5. Part(s, 0, k) \in Seq(A) /\ Len(Part(s, 0, k)) = k - 0 BY <1>1, PartIs
  <1> QED BY <1>1, <1>4, <1>5

\* The first n units of some part.
LEMMA UpToAnyPart ==
  ASSUME NEW A, NEW s \in Seq(A), NEW n \in Nat, NEW q \in 0..Len(s), NEW p \in 0..q
  PROVE  /\ UpTo(n, Part(s, p, q)) = Part(s, p, p + Least(n, q - p))
         /\ p + Least(n, q - p) \in p..q
  <1> DEFINE a == Part(s, p, q)
             k == Least(n, q - p)
  <1>0. Len(s) \in Nat /\ q \in Nat /\ p \in Nat /\ q - p \in Nat /\ p <= q BY LenProperties
  <1>1. a \in Seq(A) /\ Len(a) = q - p BY <1>0, PartIs
  <1>2. k \in 0..q - p /\ k \in Nat /\ 0 \in 0..k /\ p + 0 = p /\ p + k \in p..q
    BY <1>0 DEF Least
  <1>3. UpTo(n, a) = Part(a, 0, k)
    <2>1. Min({n, Len(a)}) = k BY <1>0, <1>1, MinOfTwo
    <2> HIDE DEF a, k
    <2>2. Part(a, 0, k) = SubSeq(a, 1, k) BY DEF Part
    <2>3. UpTo(n, a) = SubSeq(a, 1, Min({n, Len(a)})) BY DEF UpTo
    <2> QED BY <2>1, <2>2, <2>3
  <1> HIDE DEF k
  <1>4. Part(a, 0, k) = Part(s, p + 0, p + k) BY <1>0, <1>2, PartOfPart
  <1> QED BY <1>2, <1>3, <1>4 DEF k

\* One more fragment, up to the bound.
LEMMA CaptureGrows ==
  ASSUME NEW s \in Seq(Unit), NEW e \in 0..Len(s), NEW d \in 0..e,
         NEW c, c = UpTo(Cap, SubSeq(s, 1, d)), NEW x, x = Part(s, d, e)
  PROVE  (IF Len(c) < Cap THEN c \o UpTo(Cap - Len(c), x) ELSE c) = UpTo(Cap, SubSeq(s, 1, e))
  <1>0. Len(s) \in Nat /\ d \in Nat /\ e \in Nat /\ d <= e /\ Cap \in Nat /\ d \in 0..Len(s)
    BY LenProperties, SockReaderAssumption
  <1> DEFINE k == Least(Cap, d)
             j == Least(Cap, e)
  <1>1. c = Part(s, 0, k) /\ Len(c) = k /\ k \in 0..d
    <2>1. c = UpTo(Cap, Part(s, 0, d)) BY DEF Part
    <2> QED BY <1>0, <2>1, UpToPart
  <1>2. UpTo(Cap, SubSeq(s, 1, e)) = Part(s, 0, j)
    <2>1. UpTo(Cap, SubSeq(s, 1, e)) = UpTo(Cap, Part(s, 0, e)) BY DEF Part
    <2> QED BY <1>0, <2>1, UpToPart
  <1>3. CASE k < Cap
    <2> DEFINE n == Cap - k
               q == d + Least(n, e - d)
    <2>1. k = d /\ n \in Nat BY <1>0, <1>1, <1>3 DEF Least
    <2> HIDE DEF n
    <2>2. UpTo(n, x) = Part(s, d, q) /\ q \in d..e
      <3>1. n \in Nat /\ e \in 0..Len(s) /\ d \in 0..e BY <2>1
      <3>2. UpTo(n, Part(s, d, e)) = Part(s, d, d + Least(n, e - d)) /\ d + Least(n, e - d) \in d..e
        BY <3>1, UpToAnyPart
      <3> QED BY <3>2
    <2>3. q = j BY <1>0, <2>1 DEF Least, n
    <2> HIDE DEF q, j, k
    <2>4. j \in 0..Len(s) /\ d \in 0..j /\ 0 \in 0..d BY <1>0, <2>2, <2>3
    <2>5. Part(s, 0, d) \o Part(s, d, j) = Part(s, 0, j) BY <2>4, PartJoin
    <2>6. c \o UpTo(n, x) = Part(s, 0, j) BY <1>1, <2>1, <2>2, <2>3, <2>5
    <2>7. Len(c) < Cap /\ Cap - Len(c) = n BY <1>1, <1>3 DEF n
    <2> QED BY <1>2, <2>6, <2>7
  <1>4. CASE ~(k < Cap)
    <2>1. j = k BY <1>0, <1>4 DEF Least
    <2>2. ~(Len(c) < Cap) BY <1>1, <1>4
    <2> QED BY <1>1, <1>2, <2>1, <2>2
  <1> QED BY <1>3, <1>4

-----------------------------------------------------------------------------
(* Every step keeps the types.                                             *)

LEMMA InitType == Init => TypeOK
  <1> SUFFICES ASSUME Init PROVE TypeOK OBVIOUS
  <1>1. program \in Checked
    <2>1. \A copy \in {CopyOf[p] : p \in Checked} : \E p \in Checked : CopyOf[p] = copy OBVIOUS
    <2>2. PICK copy \in {CopyOf[p] : p \in Checked} : program = CHOOSE p \in Checked : CopyOf[p] = copy
      BY DEF Init, Different
    <2> QED BY <2>1, <2>2
  <1>2. message \in Messages /\ IsMessage(message) BY SockReaderAssumption DEF Init
  <1>3. Len(Stream(message)) \in Nat BY <1>2, StreamIs, LenProperties
  <1>4. Len(<<>>) = 0 /\ 0 <= Cap BY SockReaderAssumption
  <1>5. 0 \in 0..Len(Stream(message)) /\ 0 \in 0..0 BY <1>3
  <1>6. received = 0 /\ used = 0 /\ at \in {"first", "start"} /\ head = <<>> /\ total = 0 /\ mode = "none" /\ left = 0
        /\ out = <<>> /\ capture = <<>> /\ prefix = <<>>
    BY DEF Init
  <1>7. <<>> \in Seq(Unit) /\ <<>> \in Seq(Headers) BY EmptySeq
  <1> QED BY <1>1, <1>2, <1>4, <1>5, <1>6, <1>7 DEF TypeOK

\* What most steps do: they consume what is there, and pass some of it on.
LEMMA TypeStep ==
  ASSUME TypeOK, UNCHANGED <<program, message>>,
         received' \in 0..Len(Stream(message)), used' \in 0..received',
         at' \in {"first", "start", "headers", "size", "exact", "crlf", "trailers", "close", "tunnel", "done", "failed"},
         mode' \in {"none", "length", "chunked", "close", "error"},
         head' \in Seq(Headers), total' \in Nat, left' \in Nat, out' \in Seq(Unit), prefix' \in Seq(Unit),
         capture' \in Seq(Unit), Len(capture') <= Cap
  PROVE  TypeOK'
  BY DEF TypeOK

LEMMA Consuming ==
  ASSUME TypeOK, NEW n \in 0..Len(Buffer), Consumed(n)
  PROVE  used' \in 0..received /\ used' = used + n /\ used <= used'
  <1>1. used \in Nat /\ received \in Nat /\ Len(Buffer) = received - used BY BufferIs
  <1>2. used' = used + n BY DEF Consumed
  <1> QED BY <1>1, <1>2

LEMMA Typed ==
  ASSUME TypeOK
  PROVE  /\ received \in 0..Len(Stream(message)) /\ used \in 0..received
         /\ at \in {"first", "start", "headers", "size", "exact", "crlf", "trailers", "close", "tunnel", "done", "failed"}
         /\ mode \in {"none", "length", "chunked", "close", "error"}
         /\ head \in Seq(Headers) /\ total \in Nat /\ left \in Nat /\ out \in Seq(Unit) /\ prefix \in Seq(Unit)
         /\ capture \in Seq(Unit) /\ Len(capture) <= Cap
  BY DEF TypeOK

LEMMA Arriving ==
  ASSUME TypeOK, NEW k \in 1..Chunk, k <= Len(Coming)
  PROVE  received + k \in 0..Len(Stream(message)) /\ received < received + k /\ used \in 0..received + k
         /\ received + k \in 0..received + k
  <1>1. /\ received \in Nat /\ used \in Nat /\ used <= received /\ Len(Stream(message)) \in Nat
        /\ Len(Coming) = Len(Stream(message)) - received
    BY BufferIs
  <1>2. k \in Nat /\ 1 <= k BY SockReaderAssumption
  <1> QED BY <1>1, <1>2

LEMMA FramingType ==
  ASSUME TypeOK
  PROVE  Framing.mode \in {"none", "length", "chunked", "close", "error"} /\ Framing.n \in Nat
  <1> DEFINE Good(f) == f.mode \in {"none", "length", "chunked", "close", "error"} /\ f.n \in Nat
  <1>0. \A k, n : Mode(k, n).mode = k /\ Mode(k, n).n = n BY DEF Mode
  <1>1. \A word : Value(word) \in Nat
    <2>1. Endless \in Nat BY BufferIs DEF Endless
    <2> QED BY <2>1, SockReaderAssumption DEF Value
  <1>2. Good(CarefulRequestMode) BY <1>0, <1>1 DEF CarefulRequestMode
  <1>3. \A o \in {"none", "close"} : Good(FirstMode(o)) BY <1>0, <1>1 DEF FirstMode
  <1>4. Good(RequestMode) BY <1>2, <1>3 DEF RequestMode
  <1>5. Good(ResponseMode) BY <1>0, <1>3 DEF ResponseMode
  <1>6. Good(Framing) BY <1>4, <1>5 DEF Framing
  <1> QED BY <1>6

LEMMA CaptureType ==
  ASSUME TypeOK, NEW x \in Seq(Unit), Capture(x)
  PROVE  capture' \in Seq(Unit) /\ Len(capture') <= Cap
  <1>1. capture \in Seq(Unit) /\ Len(capture) <= Cap /\ Len(capture) \in Nat BY Typed, LenProperties
  <1>2. CASE message.side \in Self.reader.captures /\ Len(capture) < Cap
    <2> DEFINE n == Cap - Len(capture)
               u == UpTo(n, x)
    <2>1. n \in Nat BY <1>1, <1>2, SockReaderAssumption
    <2>4. u \in Seq(Unit) /\ Len(u) <= n
      <3> HIDE DEF n
      <3> QED BY <2>1, UpToLength
    <2>5. capture' = capture \o u BY <1>2 DEF Capture, Captured, n
    <2> HIDE DEF u, n
    <2>6. Len(capture \o u) = Len(capture) + Len(u) /\ capture \o u \in Seq(Unit) /\ Len(u) \in Nat BY <1>1, <2>4, Concat
    <2>7. Cap \in Nat /\ n = Cap - Len(capture) BY SockReaderAssumption DEF n
    <2> DEFINE lc == Len(capture)
               lu == Len(u)
    <2>8. lc \in Nat /\ lu \in Nat /\ lu <= n /\ n = Cap - lc BY <1>1, <2>4, <2>6, <2>7
    <2> HIDE DEF lc, lu
    <2>9. lc + lu <= Cap BY <2>1, <2>7, <2>8
    <2> QED BY <2>5, <2>6, <2>9 DEF lc, lu
  <1>3. CASE ~(message.side \in Self.reader.captures /\ Len(capture) < Cap)
    <2>1. capture' = capture BY <1>3 DEF Capture
    <2> QED BY <1>1, <2>1
  <1> QED BY <1>2, <1>3

LEMMA FirstPart ==
  ASSUME NEW A, NEW s \in Seq(A), NEW n \in 0..Len(s)
  PROVE  /\ SubSeq(s, 1, n) = Part(s, 0, n) /\ SubSeq(s, 1, n) \in Seq(A) /\ Len(SubSeq(s, 1, n)) = n
         /\ SubSeq(s, n + 1, Len(s)) = Part(s, n, Len(s)) /\ SubSeq(s, n + 1, Len(s)) \in Seq(A)
         /\ Len(SubSeq(s, n + 1, Len(s))) = Len(s) - n
  <1>1. Len(s) \in Nat /\ 0 \in 0..n /\ n - 0 = n BY LenProperties
  <1>2. SubSeq(s, 1, n) = Part(s, 0, n) BY DEF Part
  <1>3. Part(s, 0, n) \in Seq(A) /\ Len(Part(s, 0, n)) = n - 0 BY <1>1, PartIs
  <1>4. SubSeq(s, n + 1, Len(s)) = Part(s, n, Len(s)) BY DEF Part
  <1> DEFINE q == Len(s)
  <1>5. q \in 0..Len(s) /\ n \in 0..q BY <1>1
  <1> HIDE DEF q
  <1>6. Part(s, n, q) \in Seq(A) /\ Len(Part(s, n, q)) = q - n BY <1>5, PartIs
  <1> QED BY <1>1, <1>2, <1>3, <1>4, <1>6 DEF q

\* What is in the buffer is in the stream.
LEMMA BufferPart ==
  ASSUME TypeOK, NEW n \in 0..Len(Buffer)
  PROVE  /\ SubSeq(Buffer, 1, n) = Part(Stream(message), used, used + n) /\ SubSeq(Buffer, 1, n) \in Seq(Unit)
         /\ SubSeq(Buffer, n + 1, Len(Buffer)) = Part(Stream(message), used + n, received)
         /\ SubSeq(Buffer, n + 1, Len(Buffer)) \in Seq(Unit) /\ Len(SubSeq(Buffer, 1, n)) = n
  <1> DEFINE s == Stream(message)
             b == Buffer
             l == Len(b)
  <1>1. /\ s \in Seq(Unit) /\ received \in 0..Len(s) /\ used \in 0..received /\ received \in Nat /\ used \in Nat
        /\ b = Part(s, used, received) /\ b \in Seq(Unit) /\ l = received - used /\ l \in Nat
    BY BufferIs
  <1>2. /\ SubSeq(b, 1, n) = Part(b, 0, n) /\ SubSeq(b, 1, n) \in Seq(Unit) /\ Len(SubSeq(b, 1, n)) = n
        /\ SubSeq(b, n + 1, l) = Part(b, n, l) /\ SubSeq(b, n + 1, l) \in Seq(Unit)
    BY <1>1, FirstPart
  <1> HIDE DEF s, b
  <1>3. n \in 0..received - used /\ 0 \in 0..n /\ l \in 0..received - used /\ n \in 0..l BY <1>1 DEF b
  <1> HIDE DEF l
  <1>4. Part(Part(s, used, received), 0, n) = Part(s, used + 0, used + n) BY <1>1, <1>3, PartOfPart
  <1>5. Part(Part(s, used, received), n, l) = Part(s, used + n, used + l) BY <1>1, <1>3, PartOfPart
  <1>6. used + 0 = used /\ used + l = received BY <1>1
  <1> QED BY <1>1, <1>2, <1>4, <1>5, <1>6 DEF s, b, l

LEMMA FillType == TypeOK /\ Fill => TypeOK'
  <1> SUFFICES ASSUME TypeOK, Fill PROVE TypeOK' OBVIOUS
  <1>1. PICK k \in 1..Chunk : k <= Len(Coming) /\ received' = received + k BY DEF Fill
  <1>2. received' \in 0..Len(Stream(message)) /\ used \in 0..received' BY <1>1, Arriving
  <1> QED BY <1>2, Typed, TypeStep DEF Fill

LEMMA GoesType ==
  ASSUME TypeOK, NEW where \in {"tunnel", "done", "failed", "start"}, Goes(where) PROVE TypeOK'
  <1>1. at' = where /\ UNCHANGED <<program, message, received, used, head, total, mode, left, out, capture, prefix>>
    BY DEF Goes
  <1> QED BY <1>1, Typed, TypeStep

LEMMA StartLineType == TypeOK /\ StartLine => TypeOK'
  <1> SUFFICES ASSUME TypeOK, StartLine PROVE TypeOK' OBVIOUS
  <1>1. LineFeed # 0 /\ Consumed(LineFeed)
        /\ UNCHANGED <<program, message, received, head, mode, left, out, capture, prefix>>
    BY DEF StartLine, LineAt
  <1>2. used' \in 0..received' BY <1>1, LineFeedIs, Consuming
  <1>3. at' \in {at, "headers"} /\ (total' = total \/ total' = Len(Words) + 2) BY DEF StartLine
  <1>4. total' \in Nat BY <1>1, <1>3, WordsAre, Typed
  <1> QED BY <1>1, <1>2, <1>3, <1>4, Typed, TypeStep

LEMMA HeaderLineType == TypeOK /\ HeaderLine => TypeOK'
  <1> SUFFICES ASSUME TypeOK, HeaderLine PROVE TypeOK' OBVIOUS
  <1>1. LineFeed # 0 /\ Consumed(LineFeed) /\ total' = total + Len(Words) + 2
        /\ UNCHANGED <<program, message, received, mode, left, out, capture, prefix>>
    BY DEF HeaderLine, LineAt
  <1>2. used' \in 0..received' BY <1>1, LineFeedIs, Consuming
  <1>3. total' \in Nat BY <1>1, WordsAre, Typed
  <1>4. at' \in {at, "failed"} BY DEF HeaderLine
  <1>5. head' \in Seq(Headers)
    <2>1. head' = head \/ (Words[1] \in Headers /\ head' = Append(head, Words[1])) BY DEF HeaderLine, BadHeader
    <2>2. head \in Seq(Headers) BY Typed
    <2> QED BY <2>1, <2>2, AppendProperties
  <1> QED BY <1>1, <1>2, <1>3, <1>4, <1>5, Typed, TypeStep

LEMMA EndOfHeadType == TypeOK /\ EndOfHead => TypeOK'
  <1> SUFFICES ASSUME TypeOK, EndOfHead PROVE TypeOK' OBVIOUS
  <1>1. LineFeed # 0 /\ Consumed(LineFeed) /\ Framed(Framing)
        /\ UNCHANGED <<program, message, received, head, total, out, capture, prefix>>
    BY DEF EndOfHead, LineAt
  <1>2. used' \in 0..received' BY <1>1, LineFeedIs, Consuming
  <1> DEFINE f == Framing
  <1>3. f.mode \in {"none", "length", "chunked", "close", "error"} /\ f.n \in Nat BY FramingType
  <1> HIDE DEF f
  <1>4. mode' = f.mode /\ left' = f.n /\ at' \in {"failed", "done", "exact", "size", "close"}
    BY <1>1, <1>3 DEF Framed, f
  <1> QED BY <1>1, <1>2, <1>3, <1>4, Typed, TypeStep

LEMMA SizeType == ASSUME TypeOK, NEW words PROVE Size(words) \in Nat
  <1>1. Endless \in Nat BY BufferIs DEF Endless
  <1> QED BY <1>1, SockReaderAssumption DEF Size, Sized

LEMMA SizeLineType == TypeOK /\ SizeLine => TypeOK'
  <1> SUFFICES ASSUME TypeOK, SizeLine PROVE TypeOK' OBVIOUS
  <1>1. LineFeed # 0 /\ Consumed(LineFeed)
        /\ UNCHANGED <<program, message, received, head, total, mode, capture, prefix>>
    BY DEF SizeLine, LineAt
  <1>2. used' \in 0..received' BY <1>1, LineFeedIs, Consuming
  <1>3. at' \in {"failed", "trailers", "exact"} /\ left' \in {left, Size(Words)} /\ out' \in {out, out \o Line(Words)}
    BY DEF SizeLine
  <1>4. left' \in Nat BY <1>3, SizeType, Typed
  <1>5. out' \in Seq(Unit)
    <2>1. Line(Words) \in Seq(Unit) BY <1>1, WordsAre, LineIs
    <2>2. out \in Seq(Unit) BY Typed
    <2>3. out \o Line(Words) \in Seq(Unit) BY <2>1, <2>2, ConcatProperties
    <2> QED BY <1>3, <2>2, <2>3
  <1> QED BY <1>1, <1>2, <1>3, <1>4, <1>5, Typed, TypeStep

LEMMA AvailableIs ==
  ASSUME TypeOK
  PROVE  Available = Least(left, Len(Buffer)) /\ Available \in 0..Len(Buffer) /\ Available \in Nat /\ Available <= left
  <1>1. left \in Nat /\ Len(Buffer) \in Nat BY Typed, BufferIs
  <1>2. Available = Least(left, Len(Buffer)) BY <1>1, MinOfTwo DEF Available
  <1> QED BY <1>1, <1>2 DEF Least

LEMMA ForwardExactType == TypeOK /\ ForwardExact => TypeOK'
  <1> SUFFICES ASSUME TypeOK, ForwardExact PROVE TypeOK' OBVIOUS
  <1> DEFINE x == SubSeq(Buffer, 1, Available)
  <1>1. Consumed(Available) /\ out' = out \o x /\ Capture(x)
        /\ UNCHANGED <<program, message, received, head, total, mode, prefix>>
    BY DEF ForwardExact
  <1>2. used' \in 0..received' BY <1>1, AvailableIs, Consuming
  <1>3. x \in Seq(Unit) BY AvailableIs, BufferPart
  <1>4. capture' \in Seq(Unit) /\ Len(capture') <= Cap
    <2> HIDE DEF x
    <2> QED BY <1>1, <1>3, CaptureType
  <1>5. out' \in Seq(Unit)
    <2>1. out \in Seq(Unit) BY Typed
    <2> HIDE DEF x
    <2> QED BY <1>1, <1>3, <2>1, ConcatProperties
  <1>6. left' \in Nat
    <2>1. left \in Nat /\ Available \in Nat /\ Available <= left BY Typed, AvailableIs
    <2>2. left' = IF Available >= left THEN 0 ELSE left - Available BY DEF ForwardExact
    <2> QED BY <2>1, <2>2
  <1>7. at' \in {"exact", "crlf", "done"}
    <2>1. at' = IF left' > 0 THEN "exact" ELSE IF mode = "chunked" THEN "crlf" ELSE "done" BY DEF ForwardExact
    <2> QED BY <2>1
  <1> HIDE DEF x
  <1> QED BY <1>1, <1>2, <1>4, <1>5, <1>6, <1>7, Typed, TypeStep

LEMMA EndOfChunkType == TypeOK /\ EndOfChunk => TypeOK'
  <1> SUFFICES ASSUME TypeOK, EndOfChunk PROVE TypeOK' OBVIOUS
  <1>1. Consumed(2) /\ Len(Buffer) >= 2 /\ out' = out \o SubSeq(Buffer, 1, 2) /\ at' = "size"
        /\ UNCHANGED <<program, message, received, head, total, mode, left, capture, prefix>>
    BY DEF EndOfChunk
  <1>2. 2 \in 0..Len(Buffer) BY <1>1, BufferIs
  <1>3. used' \in 0..received' BY <1>1, <1>2, Consuming
  <1>4. SubSeq(Buffer, 1, 2) \in Seq(Unit) /\ out \in Seq(Unit) BY <1>2, BufferPart, Typed
  <1>5. out' \in Seq(Unit) BY <1>1, <1>4, ConcatProperties
  <1> QED BY <1>1, <1>3, <1>5, Typed, TypeStep

LEMMA TrailerType == TypeOK /\ Trailer => TypeOK'
  <1> SUFFICES ASSUME TypeOK, Trailer PROVE TypeOK' OBVIOUS
  <1>1. LineFeed # 0 /\ Consumed(LineFeed) /\ out' = out \o Line(Words) /\ at' \in {"done", "trailers"}
        /\ UNCHANGED <<program, message, received, head, total, mode, left, capture, prefix>>
    BY DEF Trailer, LineAt
  <1>2. used' \in 0..received' BY <1>1, LineFeedIs, Consuming
  <1>3. Line(Words) \in Seq(Unit) /\ out \in Seq(Unit) BY <1>1, WordsAre, LineIs, Typed
  <1>4. out' \in Seq(Unit) BY <1>1, <1>3, ConcatProperties
  <1> QED BY <1>1, <1>2, <1>4, Typed, TypeStep

\* What ForwardUntilClose passes on is what has come.
LEMMA UntilCloseIs ==
  ASSUME TypeOK, ForwardUntilClose
  PROVE  /\ at = "close" /\ received' \in 0..Len(Stream(message)) /\ used' = received' /\ used <= received' /\ used \in 0..received'
         /\ out' = out \o Part(Stream(message), used, received')
         /\ Capture(Part(Stream(message), used, received'))
         /\ Part(Stream(message), used, received') \in Seq(Unit)
         /\ UNCHANGED <<program, message, at, head, total, mode, left, prefix>>
  <1>0. /\ at = "close" /\ used' = received' /\ UNCHANGED <<program, message, at, head, total, mode, left, prefix>>
        /\ out' = out \o SubSeq(Stream(message), used + 1, received') /\ Capture(SubSeq(Stream(message), used + 1, received'))
    BY DEF ForwardUntilClose
  <1>1. received \in 0..Len(Stream(message)) /\ used \in 0..received /\ Stream(message) \in Seq(Unit) BY BufferIs
  <1>2. received' \in 0..Len(Stream(message)) /\ used \in 0..received'
    <2>1. CASE UNCHANGED received BY <1>1, <2>1
    <2>2. CASE \E k \in 1..Chunk : k <= Len(Coming) /\ received' = received + k
      <3>1. PICK k \in 1..Chunk : k <= Len(Coming) /\ received' = received + k BY <2>2
      <3> QED BY <3>1, Arriving
    <2> QED BY <2>1, <2>2 DEF ForwardUntilClose
  <1>3. Part(Stream(message), used, received') \in Seq(Unit) BY <1>1, <1>2, PartIs
  <1>4. used <= received' BY <1>2
  <1> QED BY <1>0, <1>2, <1>3, <1>4 DEF Part

LEMMA UntilCloseType == TypeOK /\ ForwardUntilClose => TypeOK'
  <1> SUFFICES ASSUME TypeOK, ForwardUntilClose PROVE TypeOK' OBVIOUS
  <1> DEFINE x == Part(Stream(message), used, received')
  <1>1. /\ received' \in 0..Len(Stream(message)) /\ used' = received' /\ out' = out \o x /\ Capture(x) /\ x \in Seq(Unit)
        /\ UNCHANGED <<program, message, at, head, total, mode, left, prefix>>
    BY UntilCloseIs
  <1> HIDE DEF x
  <1>2. used' \in 0..received' BY <1>1, BufferIs
  <1>3. capture' \in Seq(Unit) /\ Len(capture') <= Cap BY <1>1, CaptureType
  <1>4. out' \in Seq(Unit)
    <2>1. out \in Seq(Unit) BY Typed
    <2> QED BY <1>1, <2>1, ConcatProperties
  <1> QED BY <1>1, <1>2, <1>3, <1>4, Typed, TypeStep

LEMMA TunnelledType ==
  ASSUME TypeOK, NEW x \in Seq(Unit), Tunnelled(x) PROVE TypeOK'
  <1>1. at' = "tunnel" /\ used' = received /\ prefix' = x
        /\ UNCHANGED <<program, message, received, head, total, mode, left, out, capture>>
    BY DEF Tunnelled
  <1>2. received \in 0..received BY BufferIs
  <1> QED BY <1>1, <1>2, Typed, TypeStep

LEMMA ReadAheadIs ==
  ASSUME TypeOK
  PROVE  /\ ReadAhead \in Seq(Unit)
         /\ Self.ahead = "kept" => ReadAhead = Part(Stream(message), used + LineFeed, received)
         /\ Self.ahead # "kept" => ReadAhead = <<>>
  <1>1. LineFeed \in 0..Len(Buffer) BY LineFeedIs
  <1> DEFINE n == LineFeed
  <1> HIDE DEF n
  <1>2. /\ SubSeq(Buffer, n + 1, Len(Buffer)) \in Seq(Unit)
        /\ SubSeq(Buffer, n + 1, Len(Buffer)) = Part(Stream(message), used + n, received)
    BY <1>1, BufferPart DEF n
  <1> QED BY <1>2, EmptySeq DEF ReadAhead, n

LEMMA FirstRecvType == TypeOK /\ FirstRecv => TypeOK'
  <1> SUFFICES ASSUME TypeOK, FirstRecv PROVE TypeOK' OBVIOUS
  <1>1. Tunnelled(<<>>) \/ Goes("failed") \/ Goes("start") BY DEF FirstRecv
  <1>2. <<>> \in Seq(Unit) BY EmptySeq
  <1> QED BY <1>1, <1>2, TunnelledType, GoesType

\* Into the tunnel goes some of the prefix, or of what comes.
LEMMA TunnelReadIs ==
  ASSUME TypeOK, TunnelRead
  PROVE  /\ at = "tunnel" /\ UNCHANGED <<program, message, at, head, total, mode, left, capture>>
         /\ out' \in Seq(Unit) /\ prefix' \in Seq(Unit)
         /\ \/ out' \o prefix' = out \o prefix /\ UNCHANGED <<received, used>>
            \/ /\ prefix = <<>> /\ prefix' = <<>> /\ received' \in 0..Len(Stream(message)) /\ used' = received'
               /\ received \in 0..received' /\ out' = out \o Part(Stream(message), received, received')
  <1>0. at = "tunnel" /\ UNCHANGED <<program, message, at, head, total, mode, left, capture>> BY DEF TunnelRead
  <1>1. out \in Seq(Unit) /\ prefix \in Seq(Unit) BY Typed
  <1>2. CASE prefix # <<>>
    <2>1. PICK k \in 1..Len(prefix) :
             /\ out' = out \o SubSeq(prefix, 1, k) /\ prefix' = SubSeq(prefix, k + 1, Len(prefix))
             /\ UNCHANGED <<received, used>>
      BY <1>2 DEF TunnelRead
    <2> DEFINE l == Len(prefix)
    <2>2. l \in Nat /\ k \in 0..Len(prefix) /\ l \in 0..Len(prefix) /\ k \in 0..l /\ 0 \in 0..k BY <1>1, LenProperties
    <2>3. /\ SubSeq(prefix, 1, k) = Part(prefix, 0, k) /\ SubSeq(prefix, k + 1, l) = Part(prefix, k, l)
          /\ SubSeq(prefix, 1, k) \in Seq(Unit) /\ SubSeq(prefix, k + 1, l) \in Seq(Unit)
      BY <1>1, <2>2, FirstPart
    <2>4. Part(prefix, 0, l) = prefix BY <1>1, WholePart
    <2> HIDE DEF l
    <2>5. Part(prefix, 0, k) \o Part(prefix, k, l) = Part(prefix, 0, l) BY <1>1, <2>2, PartJoin
    <2> DEFINE a == SubSeq(prefix, 1, k)
               b == SubSeq(prefix, k + 1, l)
    <2>6. a \o b = prefix /\ a \in Seq(Unit) /\ b \in Seq(Unit) /\ out' = out \o a /\ prefix' = b
      BY <2>1, <2>3, <2>4, <2>5 DEF l
    <2> HIDE DEF a, b
    <2>7. (out \o a) \o b = out \o (a \o b) 
      <3>1. out \in Seq(Unit) BY <1>1
      <3>2. a \in Seq(Unit) /\ b \in Seq(Unit) BY <2>6
      <3> QED BY <3>1, <3>2, ConcatAssociative
    <2>8. out' \in Seq(Unit) BY <1>1, <2>6, ConcatProperties
    <2> QED BY <1>0, <2>1, <2>6, <2>7, <2>8
  <1>3. CASE prefix = <<>>
    <2>1. PICK k \in 1..Chunk :
             /\ k <= Len(Coming) /\ received' = received + k /\ used' = received'
             /\ out' = out \o SubSeq(Coming, 1, k) /\ UNCHANGED prefix
      BY <1>3 DEF TunnelRead
    <2>2. received + k \in 0..Len(Stream(message)) /\ received < received + k /\ received \in Nat BY <2>1, Arriving, BufferIs
    <2> DEFINE s == Stream(message)
               l == Len(s)
    <2>3. /\ s \in Seq(Unit) /\ l \in Nat /\ Coming = Part(s, received, l) /\ Coming \in Seq(Unit)
          /\ Len(Coming) = l - received /\ l \in 0..Len(s) /\ received \in 0..l
      BY BufferIs
    <2>4. k \in 0..Len(Coming) /\ k \in 0..l - received /\ 0 \in 0..k /\ received + 0 = received BY <2>1, <2>2, <2>3
    <2>5. SubSeq(Coming, 1, k) = Part(Coming, 0, k) /\ SubSeq(Coming, 1, k) \in Seq(Unit) BY <2>3, <2>4, FirstPart
    <2> HIDE DEF l, s
    <2>6. Part(Part(s, received, l), 0, k) = Part(s, received + 0, received + k) BY <2>3, <2>4, PartOfPart
    <2>7. SubSeq(Coming, 1, k) = Part(s, received, received') BY <2>1, <2>3, <2>4, <2>5, <2>6
    <2>8. out' \in Seq(Unit) BY <1>1, <2>1, <2>5, ConcatProperties
    <2>9. received \in 0..received' BY <2>1, <2>2
    <2> QED BY <1>0, <1>1, <1>3, <2>1, <2>2, <2>7, <2>8, <2>9 DEF s
  <1> QED BY <1>2, <1>3

LEMMA TunnelReadType == TypeOK /\ TunnelRead => TypeOK'
  <1> SUFFICES ASSUME TypeOK, TunnelRead PROVE TypeOK' OBVIOUS
  <1>1. /\ UNCHANGED <<program, message, at, head, total, mode, left, capture>>
        /\ out' \in Seq(Unit) /\ prefix' \in Seq(Unit)
    BY TunnelReadIs
  <1>2. received' \in 0..Len(Stream(message)) /\ used' \in 0..received'
    <2>1. \/ UNCHANGED <<received, used>>
          \/ received' \in 0..Len(Stream(message)) /\ used' = received'
      BY TunnelReadIs
    <2>2. received \in 0..Len(Stream(message)) /\ used \in 0..received /\ Len(Stream(message)) \in Nat BY BufferIs
    <2> QED BY <2>1, <2>2
  <1> QED BY <1>1, <1>2, Typed, TypeStep

LEMMA TypeKept == TypeOK /\ [Next]_vars => TypeOK'
  <1> SUFFICES ASSUME TypeOK, [Next]_vars PROVE TypeOK' OBVIOUS
  <1>1. CASE ReadHead
    <2>1. CASE RecvFails
      <3>1. \E where \in {"done", "failed"} : Goes(where) BY <2>1 DEF RecvFails
      <3> QED BY <3>1, GoesType
    <2>2. CASE LineTooLong BY <2>2, GoesType DEF LineTooLong
    <2>3. CASE EndOfConnect
      <3>1. Tunnelled(ReadAhead) BY <2>3 DEF EndOfConnect
      <3> QED BY <3>1, ReadAheadIs, TunnelledType
    <2> QED BY <1>1, <2>1, <2>2, <2>3, FillType, StartLineType, HeaderLineType, EndOfHeadType DEF ReadHead
  <1>2. CASE Forward
    <2>1. CASE WriteFails BY <2>1, GoesType DEF WriteFails
    <2> QED BY <1>2, <2>1, SizeLineType, ForwardExactType, EndOfChunkType, TrailerType, UntilCloseType DEF Forward
  <1>3. CASE UNCHANGED vars
    BY <1>3 DEF TypeOK, vars
  <1> QED BY <1>1, <1>2, <1>3, FirstRecvType, TunnelReadType DEF Next, Over

-----------------------------------------------------------------------------
(* What a step leaves alone.                                               *)

\* The parts of the invariant but the types.
Places == InHead /\ Followed /\ Passed /\ InPlain /\ InChunks /\ CaptureBegins /\ InTunnel

LEMMA SelfKept ==
  ASSUME UNCHANGED <<program, message>>
  PROVE  Self' = Self /\ (Agreed' <=> Agreed)
  <1>1. Self' = Self BY DEF Self
  <1>2. Disagrees' <=> Disagrees BY <1>1 DEF Disagrees
  <1> QED BY <1>1, <1>2 DEF Agreed

LEMMA FramingKept ==
  ASSUME UNCHANGED <<program, message, head>>
  PROVE  Framing' = Framing
  <1>1. Self' = Self BY DEF Self
  <1>2. CarefulRequestMode' = CarefulRequestMode BY DEF CarefulRequestMode
  <1>3. \A word : (Usable(word)' <=> Usable(word)) /\ Value(word)' = Value(word)
    BY <1>1 DEF Usable, Value, Endless
  <1>4. \A o : FirstMode(o)' = FirstMode(o) BY <1>3 DEF FirstMode
  <1>5. RequestMode' = RequestMode BY <1>1, <1>2, <1>4 DEF RequestMode
  <1>6. ResponseMode' = ResponseMode BY <1>1, <1>4 DEF ResponseMode
  <1> QED BY <1>5, <1>6 DEF Framing

LEMMA CapturesKept ==
  ASSUME UNCHANGED <<program, message, capture>>, NEW n
  PROVE  Captures(n)' <=> Captures(n)
  <1>1. Self' = Self BY DEF Self
  <1> QED BY <1>1 DEF Captures

LEMMA CaptureBeginsKept ==
  ASSUME CaptureBegins, UNCHANGED <<program, message, capture>>
  PROVE  CaptureBegins'
  <1>1. Self' = Self /\ (Agreed' <=> Agreed) BY SelfKept
  <1>2. \A n : Captures(n)' <=> Captures(n) BY CapturesKept
  <1> QED BY <1>1, <1>2 DEF CaptureBegins

LEMMA PassedKept ==
  ASSUME Passed, UNCHANGED <<program, message, out>>, InTransfer' => InTransfer /\ used' = used
  PROVE  Passed'
  <1>1. Agreed' <=> Agreed BY SelfKept
  <1> QED BY <1>1 DEF Passed

\* After a failure nothing is claimed but that what was passed on was right.
LEMMA FailedStep ==
  ASSUME Places, UNCHANGED <<program, message, out, capture>>, at' = "failed"
  PROVE  Places'
  <1>1. ~InTransfer' BY DEF InTransfer
  <1>2. InHead' BY DEF InHead
  <1>3. Followed' BY <1>1 DEF Followed
  <1>4. Passed' BY <1>1, PassedKept DEF Places
  <1>5. InPlain' BY <1>1 DEF InPlain
  <1>6. InChunks' BY DEF InChunks
  <1>7. CaptureBegins' BY CaptureBeginsKept DEF Places
  <1>8. InTunnel' BY DEF InTunnel
  <1> QED BY <1>2, <1>3, <1>4, <1>5, <1>6, <1>7, <1>8 DEF Places

-----------------------------------------------------------------------------
(* The steps of the head.                                                  *)

\* As long as the head is read.
LEMMA HeadStep ==
  ASSUME Places, UNCHANGED <<program, message, out, capture>>, at' \in {"start", "headers"}, InHead'
  PROVE  Places'
  <1>1. ~InTransfer' BY DEF InTransfer
  <1>3. Followed' BY <1>1 DEF Followed
  <1>4. Passed' BY <1>1, PassedKept DEF Places
  <1>5. InPlain' BY <1>1 DEF InPlain
  <1>6. InChunks' BY DEF InChunks
  <1>7. CaptureBegins' BY CaptureBeginsKept DEF Places
  <1>8. InTunnel' BY DEF InTunnel
  <1> QED BY <1>3, <1>4, <1>5, <1>6, <1>7, <1>8 DEF Places

LEMMA EmptyIsWords == <<>> \in Seq(Word) /\ Len(<<>>) = 0
  BY EmptySeq

\* The line that is read next.
LEMMA NextLine ==
  ASSUME TypeOK, NEW n \in 0..Len(message.lines), used = Before(LinesOf(message), n), LineFeed # 0
  PROVE  /\ n < Len(message.lines) =>
               Words = message.lines[n + 1] /\ used + LineFeed = Before(LinesOf(message), n + 1)
         /\ n = Len(message.lines) => Words = <<>> /\ used + LineFeed = HeadEnd(message)
  <1> DEFINE e == message.eol
  <1>0. IsMessage(message) /\ used \in Nat BY BufferIs
  <1>1. e \in Eols BY <1>0, MessageFields
  <1>2. ASSUME n < Len(message.lines)
        PROVE  Words = message.lines[n + 1] /\ used + LineFeed = Before(LinesOf(message), n + 1)
    <2> DEFINE w == message.lines[n + 1]
               b == Before(LinesOf(message), n + 1)
    <2>1. w \in Seq(Word) /\ Stands(Stream(message), used, w \o e) /\ b = used + Len(w) + Len(e)
      BY <1>0, <1>2, HeadLines
    <2> HIDE DEF w, e, b
    <2>2. Len(w) \in Nat /\ Len(e) \in Nat /\ LineFeed = Len(w) + Len(e) /\ Words = w BY <1>1, <2>1, LineRead
    <2> DEFINE lw == Len(w)
               le == Len(e)
    <2>3. lw \in Nat /\ le \in Nat /\ LineFeed = lw + le /\ b = used + lw + le BY <2>1, <2>2
    <2> HIDE DEF lw, le
    <2>4. used + LineFeed = b BY <1>0, <2>3
    <2> QED BY <2>2, <2>4 DEF w, b
  <1>3. ASSUME n = Len(message.lines) PROVE Words = <<>> /\ used + LineFeed = HeadEnd(message)
    <2>1. Stands(Stream(message), used, <<>> \o e) /\ HeadEnd(message) = used + Len(e)
      BY <1>0, <1>3, HeadLines
    <2> HIDE DEF e
    <2>2. LineFeed = Len(<<>>) + Len(e) /\ Len(e) \in Nat /\ Words = <<>> BY <1>1, <2>1, LineRead, EmptyIsWords
    <2>3. used + LineFeed = used + Len(e) BY <1>0, <2>2, EmptyIsWords
    <2> QED BY <2>1, <2>2, <2>3
  <1> QED BY <1>2, <1>3

LEMMA StartLineStep == ReaderInv /\ StartLine => Places'
  <1> SUFFICES ASSUME ReaderInv, StartLine PROVE Places' OBVIOUS
  <1>0. TypeOK /\ Places BY DEF ReaderInv, Places
  <1>1. /\ at = "start" /\ LineFeed # 0 /\ used' = used + LineFeed
        /\ UNCHANGED <<program, message, received, head, mode, left, out, capture, prefix>>
        /\ IF Words = <<>> THEN UNCHANGED at ELSE at' = "headers"
    BY DEF StartLine, LineAt, Consumed
  <1>2. PICK n \in 0..StartOf(message) - 1 : used = Before(LinesOf(message), n)
    BY <1>0, <1>1 DEF Places, InHead
  <1>3. head = <<>> /\ out = <<>> /\ capture = <<>> /\ prefix = <<>> BY <1>0, <1>1 DEF Places, InHead
  <1> DEFINE lines == message.lines
             start == StartOf(message)
             k == n + 1
  <1>4. /\ IsMessage(message) /\ Len(lines) \in Nat /\ start \in 1..Len(lines)
        /\ \A i \in 1..Len(lines) : lines[i] = <<>> <=> i < start
    BY <1>0, BufferIs, MessageFields, StartIs
  <1>5. n \in 0..Len(lines) /\ n < Len(lines) /\ k \in 1..Len(lines) /\ k <= start BY <1>4
  <1>6. Words = lines[k] /\ used' = Before(LinesOf(message), k)
    <2>1. Words = lines[n + 1] /\ used + LineFeed = Before(LinesOf(message), n + 1)
      BY <1>0, <1>1, <1>2, <1>5, NextLine
    <2> QED BY <1>1, <2>1
  <1> HIDE DEF k
  <1>7. InHead'
    <2>1. CASE Words = <<>>
      <3>1. k < start BY <1>4, <1>5, <1>6, <2>1
      <3>2. k \in 0..start - 1 BY <1>4, <1>5, <3>1
      <3>3. at' = "start" BY <1>1, <2>1
      <3> QED BY <1>1, <1>3, <1>6, <3>2, <3>3 DEF InHead
    <2>2. CASE Words # <<>>
      <3>1. k = start BY <1>4, <1>5, <1>6, <2>2
      <3>2. at' = "headers" /\ k \in start..Len(lines) BY <1>1, <1>4, <1>5, <2>2, <3>1
      <3>3. head = SubSeq(NamesOf(message), 1, k - start)
        <4>1. k - start = 0 BY <1>4, <3>1
        <4>2. SubSeq(NamesOf(message), 1, 0) = <<>> BY SubSeqEmpty
        <4> QED BY <1>3, <4>1, <4>2
      <3> QED BY <1>1, <1>3, <1>6, <3>2, <3>3 DEF InHead
    <2> QED BY <2>1, <2>2
  <1>8. at' \in {"start", "headers"} BY <1>1
  <1> QED BY <1>0, <1>1, <1>7, <1>8, HeadStep

\* Where a line of the headers is read: the next one, or the end of the head.
LEMMA HeadersPlace ==
  ASSUME ReaderInv, at = "headers", LineFeed # 0
  PROVE  /\ out = <<>> /\ capture = <<>> /\ prefix = <<>>
         /\ Words = <<>> => head = NamesOf(message) /\ used + LineFeed = HeadEnd(message)
         /\ Words # <<>> =>
              \E n \in StartOf(message)..Len(message.lines) - 1 :
                  /\ Words = message.lines[n + 1] /\ used + LineFeed = Before(LinesOf(message), n + 1)
                  /\ head = SubSeq(NamesOf(message), 1, n - StartOf(message))
  <1>0. TypeOK /\ InHead BY DEF ReaderInv
  <1> DEFINE lines == message.lines
             start == StartOf(message)
             names == NamesOf(message)
  <1>1. PICK n \in start..Len(lines) : used = Before(LinesOf(message), n) /\ head = SubSeq(names, 1, n - start)
    BY <1>0 DEF InHead
  <1>2. out = <<>> /\ capture = <<>> /\ prefix = <<>> BY <1>0 DEF InHead
  <1>3. /\ IsMessage(message) /\ Len(lines) \in Nat /\ start \in 1..Len(lines)
        /\ \A i \in 1..Len(lines) : lines[i] = <<>> <=> i < start
        /\ names \in Seq(Word) /\ Len(names) = Len(lines) - start
    BY <1>0, BufferIs, MessageFields, StartIs, NamesAre
  <1>4. n \in 0..Len(lines) BY <1>3
  <1>5. CASE n < Len(lines)
    <2>1. Words = lines[n + 1] /\ used + LineFeed = Before(LinesOf(message), n + 1) BY <1>0, <1>1, <1>4, <1>5, NextLine
    <2>2. n + 1 \in 1..Len(lines) /\ ~(n + 1 < start) /\ n \in start..Len(lines) - 1 BY <1>3, <1>5
    <2>3. Words # <<>> BY <1>3, <2>1, <2>2
    <2> QED BY <1>1, <1>2, <2>1, <2>2, <2>3
  <1>6. CASE n = Len(lines)
    <2>1. Words = <<>> /\ used + LineFeed = HeadEnd(message) BY <1>0, <1>1, <1>4, <1>6, NextLine
    <2>2. head = names
      <3>1. n - start = Len(names) BY <1>3, <1>6
      <3> QED BY <1>1, <1>3, <3>1, SubSeqFull
    <2> QED BY <1>2, <2>1, <2>2
  <1> QED BY <1>3, <1>5, <1>6

LEMMA HeaderLineStep == ReaderInv /\ HeaderLine => Places'
  <1> SUFFICES ASSUME ReaderInv, HeaderLine PROVE Places' OBVIOUS
  <1>0. TypeOK /\ Places BY DEF ReaderInv, Places
  <1>1. /\ at = "headers" /\ LineFeed # 0 /\ Words # <<>> /\ used' = used + LineFeed
        /\ UNCHANGED <<program, message, received, mode, left, out, capture, prefix>>
        /\ IF BadHeader THEN at' = "failed" ELSE UNCHANGED at /\ head' = Append(head, Words[1])
    BY DEF HeaderLine, LineAt, Consumed
  <1>2. CASE BadHeader
    <2>1. at' = "failed" BY <1>1, <1>2
    <2> QED BY <1>0, <1>1, <2>1, FailedStep
  <1>3. CASE ~BadHeader
    <2> DEFINE start == StartOf(message)
               names == NamesOf(message)
    <2>1. PICK n \in start..Len(message.lines) - 1 :
            /\ Words = message.lines[n + 1] /\ used + LineFeed = Before(LinesOf(message), n + 1)
            /\ head = SubSeq(names, 1, n - start)
      BY <1>1, HeadersPlace
    <2>2. out = <<>> /\ capture = <<>> /\ prefix = <<>> BY <1>1, HeadersPlace
    <2>3. /\ start \in Nat /\ Len(message.lines) \in Nat /\ names \in Seq(Word) /\ Len(names) = Len(message.lines) - start
          /\ \A i \in 1..Len(message.lines) - start : names[i] = message.lines[start + i][1]
      BY <1>0, BufferIs, MessageFields, StartIs, NamesAre
    <2> DEFINE j == n - start
               k == n + 1
    <2>4. j \in Nat /\ j < Len(names) /\ j + 1 \in 1..Len(message.lines) - start /\ start + (j + 1) = n + 1
          /\ k - start = j + 1 /\ k \in start..Len(message.lines)
      BY <2>3
    <2>5. names[j + 1] = Words[1] BY <2>1, <2>3, <2>4
    <2> HIDE DEF j, names
    <2>6. Append(SubSeq(names, 1, j), names[j + 1]) = SubSeq(names, 1, j + 1) BY <2>3, <2>4, PartAppend
    <2>7. head' = SubSeq(names, 1, k - start) BY <1>1, <1>3, <2>1, <2>4, <2>5, <2>6 DEF j
    <2>8. used' = Before(LinesOf(message), k) BY <1>1, <2>1
    <2>9. at' = "headers" BY <1>1, <1>3
    <2> HIDE DEF k
    <2>10. InHead' BY <1>1, <2>2, <2>4, <2>7, <2>8, <2>9 DEF InHead, names
    <2>11. at' \in {"start", "headers"} BY <2>9
    <2> QED BY <1>0, <1>1, <2>10, <2>11, HeadStep
  <1> QED BY <1>2, <1>3

\* What has come changes nothing, but where the reader waits for it.
LEMMA WaitStep ==
  ASSUME ReaderInv, UNCHANGED <<program, message, used, at, head, total, mode, left, out, capture, prefix>>,
         at \in {"first", "start", "headers", "size", "trailers", "exact", "crlf"} \/ UNCHANGED received
  PROVE  Places'
  <1>0. TypeOK /\ Places BY DEF ReaderInv, Places
  <1>1. UNCHANGED <<program, message, used, at, head, total, mode, left, out, capture, prefix>> OBVIOUS
  <1>2. at \in {"first", "start", "headers", "size", "trailers", "exact", "crlf"} \/ UNCHANGED received OBVIOUS
  <1>3. Self' = Self /\ (Agreed' <=> Agreed) /\ Framing' = Framing BY <1>1, SelfKept, FramingKept
  <1>4. \A n : Captures(n)' <=> Captures(n) BY <1>1, CapturesKept
  <1>5. InTransfer' <=> InTransfer BY <1>1 DEF InTransfer
  <1>6. InHead' BY <1>0, <1>1, <1>3 DEF InHead, Decides, Places
  <1>7. Followed' BY <1>0, <1>1, <1>3, <1>5 DEF Followed, Places
  <1>8. Passed' BY <1>0, <1>1, <1>5, PassedKept DEF Places
  <1>9. InPlain' BY <1>0, <1>1, <1>2, <1>3, <1>4, <1>5 DEF InPlain, Places
  <1>10. InChunks'
    <2>1. Chunking' <=> Chunking BY <1>1, <1>3 DEF Chunking
    <2> QED BY <1>0, <1>1, <1>2, <1>3, <1>4, <2>1 DEF InChunks, Places
  <1>11. CaptureBegins' BY <1>0, <1>1, CaptureBeginsKept DEF Places
  <1>12. InTunnel' BY <1>0, <1>1, <1>2, <1>3 DEF InTunnel, Places
  <1> QED BY <1>6, <1>7, <1>8, <1>9, <1>10, <1>11, <1>12 DEF Places

LEMMA FillStep == ReaderInv /\ Fill => Places'
  <1> SUFFICES ASSUME ReaderInv, Fill PROVE Places' OBVIOUS
  <1>1. UNCHANGED <<program, message, used, at, head, total, mode, left, out, capture, prefix>> BY DEF Fill
  <1>2. at \in {"first", "start", "headers", "size", "trailers", "exact", "crlf"} BY DEF Fill, Starved, AtLine
  <1> QED BY <1>1, <1>2, WaitStep

\* Into the tunnel.
LEMMA TunnelledStep ==
  ASSUME ReaderInv, message.side = "connect", at \in {"first", "start", "headers"}, NEW x, Tunnelled(x),
         NEW from \in 0..received, x = Part(Stream(message), from, received),
         Self.ahead = "kept" => from = HeadEnd(message),
         Self.ahead = "dropped" => from >= HeadEnd(message)
  PROVE  Places'
  <1>0. TypeOK /\ Places BY DEF ReaderInv, Places
  <1>1. /\ at' = "tunnel" /\ used' = received /\ prefix' = x
        /\ UNCHANGED <<program, message, received, head, total, mode, left, out, capture>>
    BY DEF Tunnelled
  <1>2. out = <<>> BY <1>0 DEF Places, InHead
  <1>3. ~InTransfer' BY <1>1 DEF InTransfer
  <1>4. InHead' BY <1>1 DEF InHead
  <1>5. Followed' BY <1>1, <1>3 DEF Followed
  <1>6. Passed' BY <1>0, <1>1, <1>3, PassedKept DEF Places
  <1>7. InPlain' BY <1>3 DEF InPlain
  <1>8. InChunks' BY <1>1 DEF InChunks
  <1>9. CaptureBegins' BY <1>0, <1>1, CaptureBeginsKept DEF Places
  <1>10. InTunnel'
    <2>1. Self' = Self BY <1>1, SelfKept
    <2>2. out' \o prefix' = Part(Stream(message), from, received)
      <3>1. Part(Stream(message), from, received) \in Seq(Unit) BY <1>0, BufferIs, PartIs
      <3>2. <<>> \o x = x BY <3>1, ConcatEmptySeq
      <3> QED BY <1>1, <1>2, <3>2
    <2> QED BY <1>1, <2>1, <2>2 DEF InTunnel, Part
  <1> QED BY <1>4, <1>5, <1>6, <1>7, <1>8, <1>9, <1>10 DEF Places

LEMMA EndOfConnectStep == ReaderInv /\ EndOfConnect => Places'
  <1> SUFFICES ASSUME ReaderInv, EndOfConnect PROVE Places' OBVIOUS
  <1>0. TypeOK BY DEF ReaderInv
  <1>1. at = "headers" /\ LineFeed # 0 /\ Words = <<>> /\ message.side = "connect" /\ Tunnelled(ReadAhead)
    BY DEF EndOfConnect, LineAt
  <1>2. used + LineFeed = HeadEnd(message) BY <1>1, HeadersPlace
  <1> DEFINE h == HeadEnd(message)
             x == ReadAhead
  <1>3. h \in 0..received /\ received \in 0..received
    <2>1. /\ used \in Nat /\ received \in Nat /\ used <= received /\ Len(Buffer) = received - used
          /\ LineFeed \in 0..Len(Buffer)
      BY <1>0, BufferIs, LineFeedIs
    <2> QED BY <1>2, <2>1
  <1>4. Self.ahead = "kept" => x = Part(Stream(message), h, received) BY <1>0, <1>2, ReadAheadIs
  <1>5. Self.ahead # "kept" => x = Part(Stream(message), received, received)
    <2>1. Self.ahead # "kept" => x = <<>> BY <1>0, ReadAheadIs
    <2>2. Part(Stream(message), received, received) = <<>>
      <3>1. received \in Int /\ received + 1 \in Int /\ received < received + 1 BY <1>0, BufferIs
      <3> QED BY <3>1, SubSeqEmpty DEF Part
    <2> QED BY <2>1, <2>2
  <1>6. received >= h /\ h = HeadEnd(message) /\ at \in {"first", "start", "headers"} /\ Tunnelled(x) BY <1>1, <1>3
  <1> HIDE DEF h, x
  <1>7. CASE Self.ahead = "kept"
    <2>1. Self.ahead # "dropped" BY <1>7
    <2> QED BY <1>1, <1>3, <1>4, <1>6, <1>7, <2>1, TunnelledStep
  <1>8. CASE Self.ahead # "kept"
    <2>1. received >= HeadEnd(message) BY <1>6
    <2> QED BY <1>1, <1>3, <1>5, <1>6, <1>8, <2>1, TunnelledStep
  <1> QED BY <1>7, <1>8

LEMMA FirstRecvStep == ReaderInv /\ FirstRecv => Places'
  <1> SUFFICES ASSUME ReaderInv, FirstRecv PROVE Places' OBVIOUS
  <1>0. TypeOK /\ Places BY DEF ReaderInv, Places
  <1>1. /\ at = "first" /\ Self.ahead = "first" /\ message.side = "connect"
        /\ Tunnelled(<<>>) \/ Goes("failed") \/ Goes("start")
    BY <1>0 DEF FirstRecv, Places, InHead, Decides
  <1>2. CASE Tunnelled(<<>>)
    <2>1. Part(Stream(message), received, received) = <<>>
      <3>1. received \in Int /\ received + 1 \in Int /\ received < received + 1 BY <1>0, BufferIs
      <3> QED BY <3>1, SubSeqEmpty DEF Part
    <2>2. received \in 0..received BY <1>0, BufferIs
    <2>3. Self.ahead # "kept" /\ Self.ahead # "dropped" /\ at \in {"first", "start", "headers"} BY <1>1
    <2> QED BY <1>1, <1>2, <2>1, <2>2, <2>3, TunnelledStep
  <1>3. CASE Goes("failed")
    <2>1. at' = "failed" /\ UNCHANGED <<program, message, out, capture>> BY <1>3 DEF Goes
    <2> QED BY <1>0, <2>1, FailedStep
  <1>4. CASE Goes("start")
    <2>1. at' = "start" /\ UNCHANGED <<program, message, used, head, out, capture, prefix>> BY <1>4 DEF Goes
    <2>2. InHead' BY <1>0, <1>1, <2>1 DEF Places, InHead
    <2> QED BY <1>0, <2>1, <2>2, HeadStep
  <1> QED BY <1>1, <1>2, <1>3, <1>4

LEMMA TunnelReadStep == ReaderInv /\ TunnelRead => Places'
  <1> SUFFICES ASSUME ReaderInv, TunnelRead PROVE Places' OBVIOUS
  <1>0. TypeOK /\ Places BY DEF ReaderInv, Places
  <1>1. at = "tunnel" /\ UNCHANGED <<program, message, at, head, total, mode, left, capture>> BY <1>0, TunnelReadIs
  <1>2. message.side = "connect" /\ used = received BY <1>0, <1>1 DEF Places, InTunnel
  <1>3. ~InTransfer' BY <1>1 DEF InTransfer
  <1>4. InHead' BY <1>1 DEF InHead
  <1>5. Followed' BY <1>1, <1>3 DEF Followed
  <1>a. ~Agreed' /\ Self' = Self
    <2>1. ~Agreed BY <1>2 DEF Agreed, Certain
    <2> QED BY <1>1, <2>1, SelfKept
  <1>6. Passed' BY <1>a DEF Passed
  <1>7. InPlain' BY <1>3 DEF InPlain
  <1>8. InChunks' BY <1>1 DEF InChunks
  <1>9. CaptureBegins' BY <1>a DEF CaptureBegins
  <1>10. InTunnel'
    <2> DEFINE s == Stream(message)
               Good(from) == /\ Self.ahead = "kept" => from = HeadEnd(message)
                             /\ Self.ahead = "dropped" => from >= HeadEnd(message)
    <2>1. PICK from \in 0..received : out \o prefix = Part(s, from, received) /\ Good(from)
      BY <1>0, <1>1 DEF Places, InTunnel, Part
    <2>2. used' = received' /\ received \in 0..received' /\ out' \o prefix' = Part(s, from, received') /\ received' \in Nat
      <3>1. CASE out' \o prefix' = out \o prefix /\ UNCHANGED <<received, used>>
        <4>1. received \in Nat BY <1>0, BufferIs
        <4> QED BY <1>2, <2>1, <3>1, <4>1
      <3>2. CASE /\ prefix = <<>> /\ prefix' = <<>> /\ received' \in 0..Len(Stream(message)) /\ used' = received'
                 /\ received \in 0..received' /\ out' = out \o Part(Stream(message), received, received')
        <4>0. s \in Seq(Unit) /\ Len(s) \in Nat BY <1>0, BufferIs
        <4> HIDE DEF s
        <4>1. out \in Seq(Unit) BY <1>0, Typed
        <4>2. out \o <<>> = out BY <4>1, ConcatEmptySeq
        <4>3. out = Part(s, from, received) BY <2>1, <3>2, <4>2
        <4>4. received' \in 0..Len(s) /\ received \in 0..received' /\ from \in 0..received BY <3>2 DEF s
        <4>5. Part(s, from, received) \o Part(s, received, received') = Part(s, from, received') BY <4>0, <4>4, PartJoin
        <4>6. Part(s, from, received') \in Seq(Unit)
          <5>1. from \in 0..received' BY <4>0, <4>4
          <5> QED BY <4>0, <4>4, <5>1, PartIs
        <4>7. out' = Part(s, from, received') BY <3>2, <4>3, <4>5 DEF s
        <4>8. out' \o <<>> = out' BY <4>6, <4>7, ConcatEmptySeq
        <4>9. received' \in Nat BY <4>0, <4>4
        <4> QED BY <3>2, <4>7, <4>8, <4>9
      <3> QED BY <1>0, <3>1, <3>2, TunnelReadIs
    <2>3. from \in 0..received' BY <2>2
    <2> HIDE DEF s
    <2>4. out' \o prefix' = SubSeq(Stream(message'), from + 1, received') BY <1>1, <2>2 DEF Part, s
    <2>5. Self'.ahead = "kept" => from = HeadEnd(message') BY <1>1, <1>a, <2>1
    <2>6. Self'.ahead = "dropped" => from >= HeadEnd(message') BY <1>1, <1>a, <2>1
    <2>7. message'.side = "connect" BY <1>1, <1>2
    <2> QED BY <2>2, <2>3, <2>4, <2>5, <2>6, <2>7 DEF InTunnel
  <1> QED BY <1>4, <1>5, <1>6, <1>7, <1>8, <1>9, <1>10 DEF Places

-----------------------------------------------------------------------------
(* The steps of the body.                                                  *)

LEMMA DataIs ==
  ASSUME NEW m, IsMessage(m)
  PROVE  DataOf(m) \in Seq(Unit) /\ Len(DataOf(m)) \in Nat
  <1>1. FlattenSeq(DatasOf(m)) \in Seq(Unit) BY ChunksAre, FlatEnds
  <1>2. m.plain \in Seq(Unit) BY MessageFields
  <1>3. DataOf(m) \in Seq(Unit) BY <1>1, <1>2, ConcatProperties DEF DataOf
  <1> QED BY <1>3, LenProperties

LEMMA NothingUpTo == UpTo(Cap, <<>>) = <<>>
  <1>1. Len(<<>>) = 0 OBVIOUS
  <1>2. Min({Cap, 0}) = 0 BY MinOfTwo, SockReaderAssumption DEF Least
  <1>3. SubSeq(<<>>, 1, 0) = <<>> BY SubSeqEmpty
  <1> QED BY <1>1, <1>2, <1>3 DEF UpTo

LEMMA NothingCaptured ==
  ASSUME capture' = <<>>
  PROVE  Captures(0)'
  <1>1. SubSeq(DataOf(message'), 1, 0) = <<>> BY SubSeqEmpty
  <1> QED BY <1>1, NothingUpTo DEF Captures

\* What is captured now is the first n units of the data, or Cap of them.
CapturedTo(n) ==
    message.side \in Self.reader.captures => capture' = UpTo(Cap, SubSeq(DataOf(message), 1, n))

\* A fragment of the data is captured behind those before it.
LEMMA CaptureStep ==
  ASSUME TypeOK, NEW e \in 0..Len(DataOf(message)), NEW d \in 0..e,
         NEW x, x = Part(DataOf(message), d, e), Capture(x), Captures(d)
  PROVE  CapturedTo(e)
  <1> SUFFICES ASSUME message.side \in Self.reader.captures
               PROVE  capture' = UpTo(Cap, SubSeq(DataOf(message), 1, e))
    BY DEF CapturedTo
  <1>3. capture' = IF Len(capture) < Cap THEN capture \o UpTo(Cap - Len(capture), x) ELSE capture
    BY DEF Capture, Captured
  <1> DEFINE s == DataOf(message)
             c == capture
  <1>4. s \in Seq(Unit) /\ e \in 0..Len(s) BY BufferIs, DataIs
  <1>5. c = UpTo(Cap, SubSeq(s, 1, d)) /\ x = Part(s, d, e) BY DEF Captures
  <1> HIDE DEF s, c
  <1>6. (IF Len(c) < Cap THEN c \o UpTo(Cap - Len(c), x) ELSE c) = UpTo(Cap, SubSeq(s, 1, e))
    BY <1>4, <1>5, CaptureGrows
  <1> QED BY <1>3, <1>6 DEF s, c

LEMMA CapturedBegins ==
  ASSUME UNCHANGED <<program, message>>, NEW n \in 0..Len(DataOf(message)), CapturedTo(n)
  PROVE  CaptureBegins'
  <1>1. Self' = Self BY SelfKept
  <1> QED BY <1>1 DEF CaptureBegins, Captures, CapturedTo

\* What is passed on behind what was passed on is the beginning of the body.
LEMMA PassOn ==
  ASSUME TypeOK, Passed, Followed, InTransfer, UNCHANGED <<program, message>>,
         Agreed => /\ used <= used' /\ used' \in Nat /\ used' <= BodyEnd(message)
                   /\ out' = out \o Part(Stream(message), used, used')
  PROVE  Passed'
  <1> SUFFICES ASSUME Agreed
               PROVE  /\ Len(out') <= Len(BodyOf(message')) /\ out' = SubSeq(BodyOf(message'), 1, Len(out'))
                      /\ InTransfer' => Len(out') = used' - HeadEnd(message')
    BY SelfKept DEF Passed
  <1> DEFINE s == Stream(message)
             b == BodyOf(message)
             h == HeadEnd(message)
             u == used'
             i == used - h
             j == u - h
             lb == Len(b)
  <1>1. /\ s \in Seq(Unit) /\ b \in Seq(Unit) /\ h \in Nat /\ lb \in Nat /\ Stands(s, h, b)
        /\ BodyEnd(message) = h + lb /\ used \in Nat
    BY BufferIs, StreamIs
  <1>2. used >= h /\ u \in Nat /\ used <= u /\ u <= h + lb BY <1>1 DEF Followed
  <1>3. Len(out) = i /\ out = SubSeq(b, 1, i) BY DEF Passed
  <1> HIDE DEF s, b, h, u, lb
  <1>4. i \in 0..lb /\ j \in 0..lb /\ i \in 0..j /\ h + i = used /\ h + j = u /\ 0 \in 0..i /\ 0 \in 0..j /\ h + 0 = h
        /\ j - 0 = j
    BY <1>1, <1>2
  <1> HIDE DEF i, j
  <1>5. out = Part(b, 0, i) BY <1>3 DEF Part
  <1>b. lb = Len(b) BY DEF lb
  <1>6. /\ Part(s, h + 0, h + i) = Part(b, 0, i) /\ Part(s, h + 0, h + j) = Part(b, 0, j)
        /\ Part(s, h + i, h + j) = Part(b, i, j)
    BY <1>1, <1>4, <1>b, StandsPart
  <1>7. Part(b, 0, i) \o Part(b, i, j) = Part(b, 0, j) BY <1>1, <1>4, <1>b, PartJoin
  <1>8. out' = Part(b, 0, j) BY <1>4, <1>5, <1>6, <1>7 DEF s, u
  <1>9. Len(Part(b, 0, j)) = j - 0 BY <1>1, <1>4, <1>b, PartIs
  <1>10. Len(out') = j BY <1>4, <1>8, <1>9
  <1>11. out' = SubSeq(b, 1, Len(out'))
    <2>1. Part(b, 0, j) = SubSeq(b, 1, j) BY DEF Part
    <2> QED BY <1>8, <1>10, <2>1
  <1>12. Len(out') <= lb BY <1>1, <1>4, <1>10
  <1> QED BY <1>10, <1>11, <1>12 DEF b, h, j, u, lb

\* What the places say of every step within the body.
LEMMA BodyStep ==
  ASSUME ReaderInv, InTransfer, UNCHANGED <<program, message, head, mode>>, used' \in Nat, used <= used',
         at' \in {"exact", "size", "crlf", "trailers", "close", "done"},
         at' \in {"size", "crlf", "trailers"} => mode = "chunked",
         at' = "exact" => mode \in {"length", "chunked"} /\ left' > 0, at' = "close" => mode = "close",
         Agreed => /\ used' <= BodyEnd(message)
                   /\ out' = out \o Part(Stream(message), used, used'),
         InPlain', InChunks', CaptureBegins'
  PROVE  Places'
  <1>0. TypeOK /\ Passed /\ Followed BY DEF ReaderInv
  <1>1. InHead' BY DEF InHead
  <1>2. InTunnel' BY DEF InTunnel
  <1>3. Passed' BY <1>0, PassOn
  <1>4. Followed'
    <2>1. Framing' = Framing BY FramingKept
    <2>2. head = NamesOf(message) /\ mode = Framing.mode /\ mode # "error"
          /\ used >= HeadEnd(message)
      BY <1>0 DEF Followed
    <2>3. used' >= HeadEnd(message)
      <3>1. used \in Nat /\ HeadEnd(message) \in Nat BY <1>0, BufferIs, StreamIs
      <3> DEFINE u == used'
                 h == HeadEnd(message)
      <3>2. u \in Nat /\ used <= u /\ used >= h /\ h \in Nat BY <2>2, <3>1
      <3> HIDE DEF u, h
      <3>3. u >= h BY <3>1, <3>2
      <3> QED BY <3>3 DEF u, h
    <2>4. UNCHANGED <<message, head, mode>> OBVIOUS
    <2>5. head' = NamesOf(message') /\ mode' = Framing'.mode /\ mode' # "error"
          /\ used' >= HeadEnd(message')
      BY <2>1, <2>2, <2>3, <2>4
    <2> QED BY <2>4, <2>5 DEF Followed
  <1> QED BY <1>1, <1>2, <1>3, <1>4 DEF Places

\* What the framing says of the body, once it is known.
LEMMA AgreedBody ==
  ASSUME TypeOK, Followed, InTransfer, Agreed
  PROVE  /\ mode = "chunked" => IsChunked(message) /\ Chunking
         /\ mode # "chunked" => BodyOf(message) = message.plain /\ DataOf(message) = message.plain
         /\ mode = "none" => message.plain = <<>>
         /\ mode = "close" => Len(Stream(message)) = BodyEnd(message)
  <1>1. IsMessage(message) BY BufferIs
  <1>2. head = NamesOf(message) /\ mode = Framing.mode BY DEF Followed
  <1>3. /\ mode = "chunked" => IsChunked(message)
        /\ mode # "chunked" => IsPlain(message)
        /\ mode = "none" => message.plain = <<>>
        /\ mode = "close" => message.next = <<>>
    BY <1>1, <1>2, CertainFraming
  <1>4. Chunking \/ ~(mode = "chunked" /\ IsChunked(message)) BY DEF Chunking
  <1>5. mode = "close" => Len(Stream(message)) = BodyEnd(message)
    <2>1. Len(Stream(message)) = BodyEnd(message) + Len(message.next) /\ BodyEnd(message) \in Nat BY <1>1, StreamIs
    <2> DEFINE ls == Len(Stream(message))
               ln == Len(message.next)
               b == BodyEnd(message)
    <2>2. ls = b + ln /\ b \in Nat BY <2>1
    <2>3. mode = "close" => ln = 0
      <3>1. Len(<<>>) = 0 OBVIOUS
      <3> QED BY <1>3, <3>1
    <2> HIDE DEF ls, ln, b
    <2>4. mode = "close" => ls = b BY <2>2, <2>3
    <2> QED BY <2>4 DEF ls, b
  <1>6. mode # "chunked" => BodyOf(message) = message.plain /\ DataOf(message) = message.plain
    BY <1>1, <1>3, PlainBody
  <1> QED BY <1>3, <1>4, <1>5, <1>6

LEMMA ChunksThere ==
  ASSUME IsMessage(message), IsChunked(message) \/ BadlyChunked(message)
  PROVE  /\ message.plain = <<>> /\ 1 \in 1..Len(message.chunks)
         /\ DOMAIN message.chunks = 1..Len(message.chunks) /\ Len(message.chunks) \in Nat
  <1>1. message.plain = <<>> /\ message.chunks # <<>> BY DEF IsChunked, BadlyChunked
  <1>2. DOMAIN message.chunks = 1..Len(message.chunks) /\ Len(message.chunks) \in Nat BY MessageFields
  <1>3. message.chunks \in Seq([size : Seq(Word), data : Seq(Unit)]) BY DEF IsMessage
  <1>4. Len(message.chunks) # 0 BY <1>1, <1>3, EmptySeq
  <1> QED BY <1>1, <1>2, <1>4

LEMMA ChunkingIs ==
  ASSUME TypeOK, Chunking
  PROVE  mode = "chunked" /\ message.plain = <<>> /\ 1 \in 1..Len(message.chunks)
         /\ IsMessage(message) /\ DOMAIN message.chunks = 1..Len(message.chunks) /\ Len(message.chunks) \in Nat
  <1>1. mode = "chunked" /\ (IsChunked(message) \/ BadlyChunked(message)) BY DEF Chunking
  <1>2. IsMessage(message) BY BufferIs
  <1> QED BY <1>1, <1>2, ChunksThere

\* Captured from the place of a plain body on.
LEMMA PlainCapture ==
  ASSUME TypeOK, Followed, InPlain, InTransfer, Agreed, mode # "chunked",
         used' \in Nat, used <= used', used' <= BodyEnd(message), Capture(Part(Stream(message), used, used'))
  PROVE  CapturedTo(used' - HeadEnd(message)) /\ used' - HeadEnd(message) \in 0..Len(DataOf(message))
  <1> DEFINE s == Stream(message)
             w == message.plain
             x == Part(s, used, used')
             u == used'
             h == HeadEnd(message)
             b == BodyEnd(message)
             lw == Len(w)
             i == used - h
             j == u - h
  <1>1. used \in Nat /\ h \in Nat /\ s \in Seq(Unit) /\ IsMessage(message) BY BufferIs, StreamIs
  <1>2. BodyOf(message) = w /\ DataOf(message) = w BY AgreedBody
  <1>3. used >= h /\ Captures(i) BY DEF Followed, InPlain
  <1>4. w \in Seq(Unit) /\ lw \in Nat /\ Stands(s, h, w) /\ b = h + lw BY <1>1, <1>2, StreamIs
  <1>5. u \in Nat /\ used <= u /\ u <= b /\ Capture(x) OBVIOUS
  <1> HIDE DEF s, x, h, b, w, u, lw
  <1>6. j \in 0..lw /\ i \in 0..j /\ h + i = used /\ h + j = u BY <1>1, <1>3, <1>4, <1>5
  <1> HIDE DEF i, j
  <1>7. x = Part(w, i, j)
    <2>1. Part(s, h + i, h + j) = Part(w, i, j) BY <1>1, <1>4, <1>6, StandsPart DEF lw
    <2> QED BY <1>6, <2>1 DEF x, u
  <1>8. j \in 0..Len(DataOf(message)) /\ x = Part(DataOf(message), i, j) BY <1>2, <1>6, <1>7 DEF lw
  <1>9. CapturedTo(j) BY <1>3, <1>5, <1>6, <1>8, CaptureStep
  <1> QED BY <1>8, <1>9 DEF u, h, j


\* A careful program checks its chunk sizes.
LEMMA CarefulChecks == ASSUME TypeOK, Self.head.careful PROVE Self.reader.sizes = "checked"
  <1>1. program \in DOMAIN CopyOf BY SockReaderAssumption DEF TypeOK
  <1>2. program \in {"v2", "v3", "v4", "planA", "planB", "pureM2", "noMitm", "mitmPure", "engine"}
    BY <1>1 DEF CopyOf
  <1>3. /\ V2Reader.sizes = "checked" /\ PlanAReader.sizes = "checked"
        /\ ~PureM2Head.careful /\ ~EngineHead.careful
    BY DEF V2Reader, PlanAReader, PureM2Head, EngineHead
  <1>4. Self.head.careful => program \in {"v2", "v3", "v4", "planA", "planB"}
    BY <1>2, <1>3 DEF Self, CopyOf, Copy, NoMitmHead, MitmPureHead
  <1>5. program \in {"v2", "v3", "v4", "planA", "planB"} => Self.reader.sizes = "checked"
    BY <1>3 DEF Self, CopyOf, Copy, V3Reader, V4Reader, PlanBReader
  <1> QED BY <1>4, <1>5

\* A size that is none is found: what is passed is a chunk as it was announced.
LEMMA SizeIs ==
  ASSUME TypeOK, Chunking, NEW n \in DOMAIN message.chunks, Words = message.chunks[n].size, ~BadSize
  PROVE  /\ FullChunk(message.chunks[n]) /\ Size(Words) = Len(message.chunks[n].data)
         /\ message.chunks[n].data = <<>> => IsChunked(message) /\ n = Len(message.chunks)
  <1>0. /\ mode = "chunked" /\ DOMAIN message.chunks = 1..Len(message.chunks) /\ Len(message.chunks) \in Nat
    BY ChunkingIs
  <1> DEFINE c == message.chunks[n]
  <1>1. CASE IsChunked(message)
    <2>1. FullChunk(c) /\ (c.data = <<>> <=> n = Len(message.chunks)) BY <1>1 DEF IsChunked
    <2> QED BY <1>1, <2>1 DEF FullChunk, Size
  <1>2. CASE Self.head.careful /\ BadlyChunked(message)
    <2>1. Sized(c.size) BY <1>2, CarefulChecks DEF BadSize
    <2>2. n # Len(message.chunks) BY <1>2, <2>1 DEF BadlyChunked
    <2>3. n \in 1..Len(message.chunks) - 1 BY <1>0, <2>2
    <2>4. FullChunk(c) /\ c.data # <<>> BY <1>2, <2>3 DEF BadlyChunked
    <2> QED BY <2>4 DEF FullChunk, Size
  <1> QED BY <1>1, <1>2 DEF Chunking

\* A line behind the head, with its end.
LEMMA BodyLine ==
  ASSUME TypeOK, NEW w \in Seq(Word), Stands(Stream(message), used, Line(w))
  PROVE  /\ LineFeed = 0 => received < used + Len(Line(w))
         /\ LineFeed # 0 =>
               /\ Words = w /\ LineFeed = Len(Line(w))
               /\ Line(Words) = Part(Stream(message), used, used + LineFeed)
         /\ Len(Line(w)) \in Nat
  <1> DEFINE e == <<"cr", "lf">>
             s == Stream(message)
             l == Line(w)
             ll == Len(l)
             lw == Len(w)
             le == Len(e)
  <1>0. used \in Nat /\ received \in Nat /\ s \in Seq(Unit) BY BufferIs
  <1>1. e \in Eols /\ le = 2 BY ShortSeq DEF Eols
  <1>2. l = w \o e /\ l \in Seq(Unit) /\ ll = lw + 2 /\ lw \in Nat BY WordsAreUnits, LineIs
  <1>3. Stands(s, used, l) OBVIOUS
  <1> HIDE DEF l, e
  <1>4. Stands(Stream(message), used, w \o e) BY <1>2, <1>3
  <1>5. /\ LineFeed = 0 => received < used + lw + le
        /\ LineFeed # 0 => LineFeed = lw + le /\ Words = w
    BY <1>1, <1>4, LineRead
  <1>6. Part(s, used, used + ll) = l
    <2>1. l \in Seq(Unit) BY <1>2
    <2> HIDE DEF s
    <2> QED BY <1>0, <1>3, <2>1, PartStands
  <1> HIDE DEF s, ll, lw, le
  <1>7. LineFeed = 0 => received < used + ll BY <1>0, <1>1, <1>2, <1>5
  <1>8. LineFeed # 0 => LineFeed = ll BY <1>1, <1>2, <1>5
  <1>9. LineFeed # 0 => Line(Words) = l /\ Words = w BY <1>5 DEF l
  <1>10. ll \in Nat BY <1>2
  <1> QED BY <1>6, <1>7, <1>8, <1>9, <1>10 DEF s, l, ll

LEMMA SizeLineStep == ReaderInv /\ SizeLine => Places'
  <1> SUFFICES ASSUME ReaderInv, SizeLine PROVE Places' OBVIOUS
  <1>0. TypeOK /\ Places /\ Followed /\ InChunks /\ CaptureBegins BY DEF ReaderInv, Places
  <1>1. /\ at = "size" /\ LineFeed # 0 /\ used' = used + LineFeed
        /\ UNCHANGED <<program, message, received, head, total, mode, capture, prefix>>
        /\ IF BadSize THEN at' = "failed" /\ UNCHANGED <<left, out>>
           ELSE /\ out' = out \o Line(Words) /\ left' = Size(Words)
                /\ at' = IF Size(Words) = 0 THEN "trailers" ELSE "exact"
    BY DEF SizeLine, LineAt, Consumed
  <1>2. CASE BadSize
    <2>1. at' = "failed" /\ UNCHANGED out BY <1>1, <1>2
    <2> QED BY <1>0, <1>1, <2>1, FailedStep
  <1>3. CASE ~BadSize
    <2>1. InTransfer /\ mode = "chunked" BY <1>0, <1>1 DEF InTransfer, Followed
    <2>2. Self' = Self /\ (Agreed' <=> Agreed) BY <1>1, SelfKept
    <2>3. used \in Nat /\ LineFeed \in Nat /\ IsMessage(message) BY <1>0, BufferIs, LineFeedIs
    <2>4. used' \in Nat /\ used <= used' BY <1>1, <2>3
    <2>5. Size(Words) \in Nat BY <1>0, SizeType
    <2>6. InPlain' BY <1>1, <2>1 DEF InPlain
    <2>7. CaptureBegins' BY <1>0, <1>1, CaptureBeginsKept
    <2>8. ASSUME Chunking
          PROVE  /\ used' <= BodyEnd(message) /\ Line(Words) = Part(Stream(message), used, used')
                 /\ InChunks'
      <3>1. PICK n \in DOMAIN message.chunks :
              used = ChunkAt(message, n) /\ Captures(Before(DatasOf(message), n - 1))
        BY <1>0, <1>1, <2>8 DEF InChunks
      <3>2. message.plain = <<>> /\ n \in 1..Len(message.chunks) /\ Len(message.chunks) \in Nat BY <1>0, <2>8, ChunkingIs
      <3> DEFINE c == message.chunks[n]
                 w == c.size
                 ld == Len(c.data)
                 le == Len(EndOf(c))
                 lw == Len(w)
                 b == BodyEnd(message)
                 dat == DataAt(message, n)
                 nxt == ChunkAt(message, n + 1)
      <3>3. /\ w \in Seq(Word) /\ Stands(Stream(message), used, Line(w)) /\ lw \in Nat
            /\ dat = used + lw + 2 /\ ld \in Nat /\ nxt = dat + ld + le
            /\ nxt <= b /\ dat \in Nat /\ b \in Nat
        BY <2>3, <3>1, <3>2, ChunkPlaces, StreamIs
      <3>4. le = (IF c.data = <<>> THEN 0 ELSE 2)
        <4>1. Len(<<>>) = 0 /\ Len(<<"cr", "lf">>) = 2 BY ShortSeq
        <4> QED BY <4>1 DEF EndOf
      <3>5. /\ Words = w /\ LineFeed = Len(Line(w))
            /\ Line(Words) = Part(Stream(message), used, used + LineFeed)
        BY <1>0, <1>1, <3>3, BodyLine
      <3>6. LineFeed = lw + 2
        <4>1. Len(Line(w)) = lw + 2 BY <3>3, WordsAreUnits, LineIs
        <4> QED BY <3>5, <4>1
      <3>7. FullChunk(c) /\ Size(Words) = ld /\ (c.data = <<>> => IsChunked(message) /\ n = Len(message.chunks))
        BY <1>0, <1>3, <2>8, <3>5, SizeIs
      <3> HIDE DEF ld, le, lw, b, dat, nxt
      <3>8. used' = dat BY <1>1, <2>3, <3>3, <3>6
      <3>9. dat <= b
        <4>1. le \in Nat BY <3>4
        <4> QED BY <3>3, <4>1
      <3>10. /\ Before(DatasOf(message), n - 1) \in Nat /\ Before(DatasOf(message), n) = Before(DatasOf(message), n - 1) + ld
             /\ n = Len(message.chunks) => Before(DatasOf(message), n) = Len(DataOf(message))
        BY <2>3, <3>2, DataPlaces DEF ld
      <3>11. InChunks'
        <4> DEFINE bn == Before(DatasOf(message), n)
                   bm == Before(DatasOf(message), n - 1)
        <4>1. CASE ld = 0
          <5>1. c.data = <<>>
            <6>1. c.data \in Seq(Unit) BY <2>3, <3>2, ChunkPlaces
            <6> QED BY <4>1, <6>1, EmptySeq DEF ld
          <5>2. IsChunked(message) /\ n = Len(message.chunks) BY <3>7, <5>1
          <5>3. used' = TrailerAt(message, 1)
            <6>1. nxt = TrailerAt(message, 1) BY <2>3, <3>2, <5>2, ChunkPlaces DEF nxt
            <6>2. nxt = dat BY <3>3, <3>4, <4>1, <5>1
            <6> QED BY <3>8, <6>1, <6>2
          <5>4. Captures(Len(DataOf(message)))
            <6>1. bn = bm BY <3>10, <4>1
            <6> QED BY <3>1, <3>10, <5>2, <6>1
          <5>5. Captures(Len(DataOf(message)))' BY <1>1, <5>4, CapturesKept
          <5>6. 1 \in DOMAIN message.trailers
            <6>1. DOMAIN message.trailers = 1..Len(message.trailers) /\ Len(message.trailers) \in Nat BY <2>3, MessageFields
            <6>2. message.trailers \in Seq(Seq(Word)) BY <2>3 DEF IsMessage
            <6>3. Len(message.trailers) # 0 BY <5>2, <6>2, EmptySeq DEF IsChunked
            <6> QED BY <6>1, <6>3
          <5>7. at' = "trailers" BY <1>1, <1>3, <3>7, <4>1
          <5> QED BY <1>1, <5>2, <5>3, <5>5, <5>6, <5>7 DEF InChunks
        <4>2. CASE ld # 0
          <5>1. at' = "exact" /\ left' = ld BY <1>1, <1>3, <3>7, <4>2
          <5>2. bn - ld = bm BY <3>3, <3>10
          <5>3. Captures(bm)' BY <1>1, <3>1, CapturesKept
          <5>4. (bn - left)' = bm' BY <1>1, <5>1, <5>2
          <5>5. Captures(bn - left)' BY <5>3, <5>4
          <5>6. left' <= ld BY <3>3, <5>1
          <5>7. used' + left' = dat + ld BY <3>8, <5>1
          <5> QED BY <1>1, <3>7, <5>1, <5>5, <5>6, <5>7 DEF InChunks, ld, dat
        <4> QED BY <4>1, <4>2
      <3> QED BY <1>1, <3>5, <3>8, <3>9, <3>11 DEF b
    <2>9. InChunks'
      <3>1. Chunking' <=> Chunking BY <1>1, <2>2 DEF Chunking
      <3> QED BY <2>8, <3>1 DEF InChunks
    <2>10. Agreed => /\ used' <= BodyEnd(message)
                     /\ out' = out \o Part(Stream(message), used, used')
      <3> SUFFICES ASSUME Agreed PROVE used' <= BodyEnd(message) /\ out' = out \o Part(Stream(message), used, used')
        OBVIOUS
      <3>1. Chunking BY <1>0, <2>1, AgreedBody
      <3> QED BY <1>1, <1>3, <2>8, <3>1
    <2>11. /\ at' \in {"exact", "trailers"} /\ (at' = "exact" => left' > 0)
      BY <1>1, <1>3, <2>5
    <2>12. /\ at' \in {"exact", "size", "crlf", "trailers", "close", "done"}
           /\ at' \in {"size", "crlf", "trailers"} => mode = "chunked"
           /\ at' = "exact" => mode \in {"length", "chunked"} /\ left' > 0
           /\ at' = "close" => mode = "close"
      BY <2>1, <2>11
    <2>13. UNCHANGED <<program, message, head, mode>> BY <1>1
    <2> QED BY <2>1, <2>4, <2>6, <2>7, <2>9, <2>10, <2>12, <2>13, BodyStep
  <1> QED BY <1>2, <1>3

\* What one step passes on, of what is left.
LEMMA ExactIs ==
  ASSUME TypeOK, ForwardExact, left > 0
  PROVE  /\ used' = used + Available /\ left' = left - Available /\ Available \in Nat /\ Available <= left
         /\ left' \in Nat /\ used' \in Nat /\ used <= used'
         /\ out' = out \o Part(Stream(message), used, used') /\ Capture(Part(Stream(message), used, used'))
  <1>1. Available \in 0..Len(Buffer) /\ Available \in Nat /\ Available <= left /\ left \in Nat /\ used \in Nat
    BY AvailableIs, Typed, BufferIs
  <1>2. /\ used' = used + Available /\ left' = IF Available >= left THEN 0 ELSE left - Available
        /\ out' = out \o SubSeq(Buffer, 1, Available) /\ Capture(SubSeq(Buffer, 1, Available))
    BY DEF ForwardExact, Consumed
  <1>3. SubSeq(Buffer, 1, Available) = Part(Stream(message), used, used') BY <1>1, <1>2, BufferPart
  <1>4. left' = left - Available BY <1>1, <1>2
  <1>5. used' \in Nat /\ used <= used' /\ left' \in Nat BY <1>1, <1>2, <1>4
  <1> QED BY <1>1, <1>2, <1>3, <1>4, <1>5

\* In a body with a length: from the place of the body on.
LEMMA ExactPlain ==
  ASSUME ReaderInv, ForwardExact, Agreed, mode # "chunked"
  PROVE  /\ used' <= BodyEnd(message) /\ used' + left' = BodyEnd(message)
         /\ CapturedTo(used' - HeadEnd(message)) /\ used' - HeadEnd(message) \in 0..Len(DataOf(message))
  <1>0. TypeOK /\ Followed /\ InPlain BY DEF ReaderInv
  <1>1. at = "exact" BY DEF ForwardExact
  <1>2. InTransfer /\ mode = "length" /\ left > 0 BY <1>0, <1>1 DEF InTransfer, Followed
  <1>3. used + left = BodyEnd(message) BY <1>0, <1>1, <1>2 DEF InPlain
  <1> DEFINE k == Available
             u == used'
             v == left'
             b == BodyEnd(message)
  <1>4. u = used + k /\ v = left - k /\ k \in Nat /\ k <= left /\ v \in Nat /\ u \in Nat /\ used <= u
        /\ Capture(Part(Stream(message), used, u))
    BY <1>0, <1>2, ExactIs
  <1>5. used \in Nat /\ left \in Nat /\ used + left = b BY <1>0, <1>3, BufferIs, Typed
  <1>6. u <= b /\ u + v = b
    <2> HIDE DEF k, u, v, b
    <2> QED BY <1>4, <1>5
  <1> QED BY <1>0, <1>2, <1>4, <1>6, PlainCapture

\* In a chunk: from the place of its data on.
LEMMA ExactChunk ==
  ASSUME ReaderInv, ForwardExact, Chunking
  PROVE  \E n \in DOMAIN message.chunks :
           /\ FullChunk(message.chunks[n]) /\ left' <= Len(message.chunks[n].data)
           /\ message.chunks[n].data # <<>>
           /\ used' + left' = DataAt(message, n) + Len(message.chunks[n].data)
           /\ used' <= BodyEnd(message) /\ CapturedTo(Before(DatasOf(message), n) - left')
           /\ Before(DatasOf(message), n) - left' \in 0..Len(DataOf(message))
  <1>0. TypeOK /\ Followed /\ InChunks BY DEF ReaderInv
  <1>1. at = "exact" BY DEF ForwardExact
  <1>2. left > 0 BY <1>0, <1>1 DEF Followed
  <1>3. PICK n \in DOMAIN message.chunks :
          /\ FullChunk(message.chunks[n]) /\ left <= Len(message.chunks[n].data)
          /\ used + left = DataAt(message, n) + Len(message.chunks[n].data)
          /\ Captures(Before(DatasOf(message), n) - left)
    BY <1>0, <1>1 DEF InChunks
  <1> DEFINE k == Available
             s == Stream(message)
             c == message.chunks[n].data
             t == DataOf(message)
             x == Part(s, used, used')
             u == used'
             v == left'
             b == BodyEnd(message)
             a == DataAt(message, n)
             g == Before(DatasOf(message), n)
             f == Before(DatasOf(message), n - 1)
             lc == Len(c)
             lt == Len(t)
             e == Len(EndOf(message.chunks[n]))
             q == ChunkAt(message, n + 1)
  <1>4. u = used + k /\ v = left - k /\ k \in Nat /\ k <= left /\ v \in Nat /\ u \in Nat /\ used <= u /\ Capture(x)
    BY <1>0, <1>2, ExactIs
  <1>5. used \in Nat /\ left \in Nat /\ b \in Nat /\ s \in Seq(Unit) BY <1>0, BufferIs, Typed, StreamIs
  <1>6. message.plain = <<>> /\ IsMessage(message) /\ n \in 1..Len(message.chunks) BY <1>0, ChunkingIs
  <1>7. /\ a \in Nat /\ c \in Seq(Unit) /\ lc \in Nat /\ Stands(s, a, c) /\ q = a + lc + e /\ q <= b /\ q \in Nat
    <2>1. /\ a \in Nat /\ c \in Seq(Unit) /\ lc \in Nat /\ Stands(s, a, c) /\ q = a + lc + e /\ q <= b
      BY <1>6, ChunkPlaces
    <2>2. e \in Nat
      <3>1. Len(<<>>) = 0 /\ Len(<<"cr", "lf">>) = 2 BY ShortSeq
      <3> QED BY <3>1 DEF EndOf
    <2> HIDE DEF a, lc, q, e
    <2>3. q \in Nat BY <2>1, <2>2
    <2> QED BY <2>1, <2>3
  <1>8. f \in Nat /\ Stands(t, f, c) /\ g = f + lc /\ g <= lt /\ t \in Seq(Unit) /\ lt \in Nat
    BY <1>6, DataPlaces
  <1>9. e \in Nat
    <2>1. Len(<<>>) = 0 /\ Len(<<"cr", "lf">>) = 2 BY ShortSeq
    <2> QED BY <2>1 DEF EndOf
  <1>10. left <= lc /\ used + left = a + lc /\ Captures(g - left) BY <1>3
  <1>11. lc = 0 <=> c = <<>> BY <1>7, EmptySeq
  <1> DEFINE i == lc - left
             j == lc - v
             m == g - left
             r == g - v
  <1> HIDE DEF k, s, c, t, x, u, v, b, a, g, f, lc, lt, e, q
  <1>12. /\ j \in 0..lc /\ i \in 0..j /\ a + i = used /\ a + j = u /\ f + i = m /\ f + j = r
         /\ r \in 0..lt /\ m \in 0..r /\ u <= b /\ v <= lc /\ u + v = a + lc /\ lc # 0
    BY <1>2, <1>4, <1>5, <1>7, <1>8, <1>9, <1>10
  <1>13. Captures(m) BY <1>10 DEF m
  <1> HIDE DEF i, j, m, r
  <1>14. x = Part(t, m, r)
    <2>1. Part(s, a + i, a + j) = Part(c, i, j) BY <1>5, <1>7, <1>12, StandsPart DEF lc
    <2>2. Part(t, f + i, f + j) = Part(c, i, j) BY <1>7, <1>8, <1>12, StandsPart DEF lc
    <2> QED BY <1>12, <2>1, <2>2 DEF x, u
  <1>15. r \in 0..Len(DataOf(message)) /\ x = Part(DataOf(message), m, r) BY <1>12, <1>14 DEF lt, t
  <1>16. CapturedTo(r) BY <1>0, <1>4, <1>12, <1>13, <1>15, CaptureStep
  <1>17. CapturedTo(g - v) /\ g - v \in 0..Len(DataOf(message)) BY <1>15, <1>16 DEF r
  <1>18. c # <<>> BY <1>11, <1>12
  <1> QED BY <1>3, <1>12, <1>17, <1>18 DEF u, v, b, a, g, lc, c

LEMMA ForwardExactStep == ReaderInv /\ ForwardExact => Places'
  <1> SUFFICES ASSUME ReaderInv, ForwardExact PROVE Places' OBVIOUS
  <1>0. TypeOK /\ Followed BY DEF ReaderInv
  <1>1. /\ at = "exact" /\ at' = IF left' > 0 THEN "exact" ELSE IF mode = "chunked" THEN "crlf" ELSE "done"
        /\ UNCHANGED <<program, message, received, head, total, mode, prefix>>
    BY DEF ForwardExact
  <1>2. InTransfer /\ mode \in {"length", "chunked"} /\ left > 0 BY <1>0, <1>1 DEF InTransfer, Followed
  <1>3. used' \in Nat /\ used <= used' /\ left' \in Nat /\ out' = out \o Part(Stream(message), used, used')
    BY <1>0, <1>2, ExactIs
  <1>4. Self' = Self /\ (Agreed' <=> Agreed) BY <1>1, SelfKept
  <1>5. InTransfer' BY <1>1 DEF InTransfer
  <1>6. Agreed => Chunking \/ mode # "chunked" BY <1>0, <1>2, AgreedBody
  <1>7. InPlain'
    <2> SUFFICES ASSUME Agreed, mode # "chunked"
                 PROVE  /\ Captures(used - HeadEnd(message))'
                        /\ used' + left' = BodyEnd(message)
                        /\ at' = "done" => used' = BodyEnd(message)
      BY <1>1, <1>4, <1>5 DEF InPlain
    <2>1. used' + left' = BodyEnd(message) /\ CapturedTo(used' - HeadEnd(message)) BY ExactPlain
    <2>2. Captures(used - HeadEnd(message))' BY <1>1, <1>4, <2>1 DEF Captures, CapturedTo
    <2>3. ASSUME at' = "done" PROVE used' = BodyEnd(message)
      <3>1. ~(left' > 0) BY <1>1, <2>3
      <3> DEFINE u == used'
                 v == left'
                 b == BodyEnd(message)
      <3>2. u + v = b /\ u \in Nat /\ v \in Nat /\ ~(v > 0) BY <1>3, <2>1, <3>1
      <3> HIDE DEF u, v, b
      <3>3. u = b BY <3>2
      <3> QED BY <3>3 DEF u, b
    <2> QED BY <2>1, <2>2, <2>3
  <1>8. InChunks'
    <2> SUFFICES ASSUME Chunking PROVE InChunks' BY <1>1, <1>4 DEF InChunks, Chunking
    <2>1. PICK n \in DOMAIN message.chunks :
            /\ FullChunk(message.chunks[n]) /\ left' <= Len(message.chunks[n].data)
            /\ message.chunks[n].data # <<>>
            /\ used' + left' = DataAt(message, n) + Len(message.chunks[n].data)
            /\ CapturedTo(Before(DatasOf(message), n) - left')
      BY ExactChunk
    <2>2. mode = "chunked" BY DEF Chunking
    <2>3. CASE left' > 0
      <3>1. at' = "exact" BY <1>1, <2>3
      <3>2. Captures(Before(DatasOf(message), n) - left)' BY <1>1, <1>4, <2>1 DEF Captures, CapturedTo
      <3> QED BY <1>1, <2>1, <3>1, <3>2 DEF InChunks
    <2>4. CASE ~(left' > 0)
      <3>1. at' = "crlf" BY <1>1, <2>2, <2>4
      <3> DEFINE g == Before(DatasOf(message), n)
                 a == DataAt(message, n) + Len(message.chunks[n].data)
                 u == used'
                 v == left'
      <3>2. g \in Nat
        <4>1. message.plain = <<>> /\ IsMessage(message) /\ n \in 1..Len(message.chunks) BY <1>0, ChunkingIs
        <4> DEFINE f == Before(DatasOf(message), n - 1)
                   lc == Len(message.chunks[n].data)
        <4>2. f \in Nat /\ g = f + lc BY <4>1, DataPlaces
        <4>3. lc \in Nat BY <4>1, ChunkPlaces
        <4> HIDE DEF f, g, lc
        <4> QED BY <4>2, <4>3
      <3>3. u \in Nat /\ v = 0 /\ u + v = a BY <1>3, <2>1, <2>4
      <3>4. CapturedTo(g - v) BY <2>1
      <3> HIDE DEF g, a, u, v
      <3>5. g - v = g /\ u = a BY <3>2, <3>3
      <3>6. CapturedTo(g) BY <3>4, <3>5
      <3>7. used' = DataAt(message, n) + Len(message.chunks[n].data) /\ CapturedTo(Before(DatasOf(message), n))
        BY <3>5, <3>6 DEF u, a, g
      <3>8. Captures(Before(DatasOf(message), n))' BY <1>1, <1>4, <3>7 DEF Captures, CapturedTo
      <3> QED BY <1>1, <2>1, <3>1, <3>7, <3>8 DEF InChunks
    <2> QED BY <2>3, <2>4
  <1>9. CaptureBegins'
    <2>1. CASE ~Agreed BY <1>4, <2>1 DEF CaptureBegins
    <2>2. CASE Agreed /\ mode # "chunked"
      <3>1. CapturedTo(used' - HeadEnd(message)) /\ used' - HeadEnd(message) \in 0..Len(DataOf(message))
        BY <2>2, ExactPlain
      <3> QED BY <1>1, <3>1, CapturedBegins
    <2>3. CASE Chunking
      <3>1. PICK n \in DOMAIN message.chunks :
              /\ CapturedTo(Before(DatasOf(message), n) - left')
              /\ Before(DatasOf(message), n) - left' \in 0..Len(DataOf(message))
        BY <2>3, ExactChunk
      <3> QED BY <1>1, <3>1, CapturedBegins
    <2> QED BY <1>6, <2>1, <2>2, <2>3
  <1>10. Agreed => /\ used' <= BodyEnd(message)
                   /\ out' = out \o Part(Stream(message), used, used')
    <2>1. Agreed => used' <= BodyEnd(message) BY <1>6, ExactPlain, ExactChunk
    <2> QED BY <1>3, <2>1
  <1>11. /\ at' \in {"exact", "size", "crlf", "trailers", "close", "done"}
         /\ at' \in {"size", "crlf", "trailers"} => mode = "chunked"
         /\ at' = "exact" => mode \in {"length", "chunked"} /\ left' > 0
         /\ at' = "close" => mode = "close"
    BY <1>1, <1>2
  <1>12. UNCHANGED <<program, message, head, mode>> BY <1>1
  <1> QED BY <1>2, <1>3, <1>7, <1>8, <1>9, <1>10, <1>11, <1>12, BodyStep

LEMMA EndOfChunkStep == ReaderInv /\ EndOfChunk => Places'
  <1> SUFFICES ASSUME ReaderInv, EndOfChunk PROVE Places' OBVIOUS
  <1>0. TypeOK /\ Followed /\ InChunks /\ CaptureBegins BY DEF ReaderInv
  <1>1. /\ at = "crlf" /\ Len(Buffer) >= 2 /\ used' = used + 2
        /\ out' = out \o SubSeq(Buffer, 1, 2) /\ at' = "size"
        /\ UNCHANGED <<program, message, received, head, total, mode, left, capture, prefix>>
    BY DEF EndOfChunk, Consumed
  <1>2. InTransfer /\ mode = "chunked" BY <1>0, <1>1 DEF InTransfer, Followed
  <1>3. used \in Nat /\ IsMessage(message) /\ 2 \in 0..Len(Buffer) BY <1>0, <1>1, BufferIs
  <1>4. used' \in Nat /\ used <= used' BY <1>1, <1>3
  <1>5. out' = out \o Part(Stream(message), used, used') BY <1>0, <1>1, <1>3, BufferPart
  <1>6. Self' = Self /\ (Agreed' <=> Agreed) BY <1>1, SelfKept
  <1>7. ASSUME Chunking PROVE used' <= BodyEnd(message) /\ InChunks'
    <2>1. PICK n \in DOMAIN message.chunks :
            /\ FullChunk(message.chunks[n]) /\ message.chunks[n].data # <<>>
            /\ used = DataAt(message, n) + Len(message.chunks[n].data)
            /\ Captures(Before(DatasOf(message), n))
      BY <1>0, <1>1, <1>7 DEF InChunks
    <2>2. /\ message.plain = <<>> /\ DOMAIN message.chunks = 1..Len(message.chunks)
          /\ Len(message.chunks) \in Nat /\ n \in 1..Len(message.chunks)
      BY <1>0, <1>7, ChunkingIs
    <2>3. n # Len(message.chunks)
      BY <1>7, <2>1, <2>2 DEF Chunking, IsChunked, BadlyChunked, FullChunk
    <2> DEFINE k == n + 1
               a == DataAt(message, n)
               lc == Len(message.chunks[n].data)
               q == ChunkAt(message, n + 1)
               u == used'
    <2>4. k \in DOMAIN message.chunks /\ k - 1 = n BY <2>2, <2>3
    <2>5. q = a + lc + 2 /\ q <= BodyEnd(message)
      <3>1. Len(EndOf(message.chunks[n])) = 2 BY <2>1, ShortSeq DEF EndOf
      <3> QED BY <1>3, <2>2, <3>1, ChunkPlaces
    <2>6. u = q
      <3>1. u = used + 2 /\ used = a + lc BY <1>1, <2>1
      <3> HIDE DEF u, q, a, lc
      <3> QED BY <2>5, <3>1
    <2>7. used' = ChunkAt(message, k) BY <2>6
    <2>8. Captures(Before(DatasOf(message), k - 1)) BY <2>1, <2>4
    <2> HIDE DEF k
    <2>9. Captures(Before(DatasOf(message), k - 1))' BY <1>1, <2>8, CapturesKept
    <2> QED BY <1>1, <2>4, <2>5, <2>6, <2>7, <2>9 DEF InChunks
  <1>8. InChunks'
    <2>1. Chunking' <=> Chunking BY <1>1, <1>6 DEF Chunking
    <2> QED BY <1>7, <2>1 DEF InChunks
  <1>9. Agreed => /\ used' <= BodyEnd(message)
                  /\ out' = out \o Part(Stream(message), used, used')
    BY <1>0, <1>2, <1>5, <1>7, AgreedBody
  <1>10. InPlain' BY <1>1, <1>2 DEF InPlain
  <1>11. CaptureBegins' BY <1>0, <1>1, CaptureBeginsKept
  <1>12. /\ at' \in {"exact", "size", "crlf", "trailers", "close", "done"}
         /\ at' \in {"size", "crlf", "trailers"} => mode = "chunked"
         /\ at' = "exact" => mode \in {"length", "chunked"} /\ left' > 0
         /\ at' = "close" => mode = "close"
    BY <1>1, <1>2
  <1>13. UNCHANGED <<program, message, head, mode>> BY <1>1
  <1> QED BY <1>2, <1>4, <1>8, <1>9, <1>10, <1>11, <1>12, <1>13, BodyStep

\* Where a trailer is read.
LEMMA TrailerPlace ==
  ASSUME ReaderInv, at = "trailers", Chunking
  PROVE  /\ IsChunked(message) /\ Captures(Len(DataOf(message)))
         /\ \E n \in 1..Len(message.trailers) :
               /\ LineFeed = 0 => received < BodyEnd(message)
               /\ LineFeed # 0 =>
                     /\ Words = message.trailers[n] /\ used + LineFeed = TrailerAt(message, n + 1)
                     /\ Line(Words) = Part(Stream(message), used, used + LineFeed)
               /\ TrailerAt(message, n + 1) <= BodyEnd(message)
               /\ n = Len(message.trailers) => TrailerAt(message, n + 1) = BodyEnd(message)
  <1>0. TypeOK /\ InChunks BY DEF ReaderInv
  <1>1. IsChunked(message) /\ Captures(Len(DataOf(message))) BY <1>0 DEF InChunks
  <1>2. PICK n \in DOMAIN message.trailers : used = TrailerAt(message, n) BY <1>0 DEF InChunks
  <1>3. message.plain = <<>> /\ IsMessage(message) BY <1>0, ChunkingIs
  <1>4. n \in 1..Len(message.trailers) BY <1>3, MessageFields
  <1> DEFINE w == message.trailers[n]
             q == TrailerAt(message, n + 1)
             b == BodyEnd(message)
             lw == Len(Line(w))
  <1>5. /\ w \in Seq(Word) /\ Stands(Stream(message), used, Line(w)) /\ q = used + lw /\ q <= b
        /\ n = Len(message.trailers) => q = b
    BY <1>2, <1>3, <1>4, TrailerPlaces
  <1>6. /\ LineFeed = 0 => received < used + lw
        /\ LineFeed # 0 =>
              /\ Words = w /\ LineFeed = lw
              /\ Line(Words) = Part(Stream(message), used, used + LineFeed)
        /\ lw \in Nat
    BY <1>0, <1>5, BodyLine
  <1>7. received \in Nat /\ used \in Nat /\ b \in Nat BY <1>0, <1>3, BufferIs, StreamIs
  <1>8. LineFeed = 0 => received < b
    <2> HIDE DEF b, q, lw
    <2> QED BY <1>5, <1>6, <1>7
  <1> QED BY <1>1, <1>4, <1>5, <1>6, <1>8

LEMMA TrailerStep == ReaderInv /\ Trailer => Places'
  <1> SUFFICES ASSUME ReaderInv, Trailer PROVE Places' OBVIOUS
  <1>0. TypeOK /\ Followed /\ InChunks /\ CaptureBegins BY DEF ReaderInv
  <1>1. /\ at = "trailers" /\ LineFeed # 0 /\ used' = used + LineFeed
        /\ out' = out \o Line(Words) /\ at' = IF Words = <<>> THEN "done" ELSE "trailers"
        /\ UNCHANGED <<program, message, received, head, total, mode, left, capture, prefix>>
    BY DEF Trailer, LineAt, Consumed
  <1>2. InTransfer /\ mode = "chunked" BY <1>0, <1>1 DEF InTransfer, Followed
  <1>3. used \in Nat /\ LineFeed \in Nat /\ IsMessage(message) BY <1>0, BufferIs, LineFeedIs
  <1>4. used' \in Nat /\ used <= used' BY <1>1, <1>3
  <1>5. Self' = Self /\ (Agreed' <=> Agreed) BY <1>1, SelfKept
  <1>6. ASSUME Chunking
        PROVE  /\ used' <= BodyEnd(message) /\ Line(Words) = Part(Stream(message), used, used')
               /\ InChunks'
    <2>1. IsChunked(message) /\ Captures(Len(DataOf(message))) BY <1>1, <1>6, TrailerPlace
    <2>2. PICK n \in 1..Len(message.trailers) :
            /\ Words = message.trailers[n] /\ used + LineFeed = TrailerAt(message, n + 1)
            /\ Line(Words) = Part(Stream(message), used, used + LineFeed)
            /\ TrailerAt(message, n + 1) <= BodyEnd(message)
            /\ n = Len(message.trailers) => TrailerAt(message, n + 1) = BodyEnd(message)
      BY <1>1, <1>6, TrailerPlace
    <2>3. Captures(Len(DataOf(message)))' BY <1>1, <2>1, CapturesKept
    <2>4. Len(message.trailers) \in Nat /\ DOMAIN message.trailers = 1..Len(message.trailers) BY <1>3, MessageFields
    <2>5. Words = <<>> <=> n = Len(message.trailers) BY <2>1, <2>2, <2>4 DEF IsChunked
    <2> DEFINE k == n + 1
    <2>6. used' = TrailerAt(message, k) BY <1>1, <2>2
    <2>7. CASE Words = <<>>
      <3>1. at' = "done" /\ used' = BodyEnd(message) BY <1>1, <2>2, <2>5, <2>7
      <3> QED BY <1>1, <2>1, <2>2, <2>3, <2>6, <3>1 DEF InChunks
    <2>8. CASE Words # <<>>
      <3>1. k \in DOMAIN message.trailers BY <2>4, <2>5, <2>8
      <3>2. at' = "trailers" BY <1>1, <2>8
      <3>3. used' <= BodyEnd(message) BY <2>2, <2>6
      <3> HIDE DEF k
      <3> QED BY <1>1, <2>1, <2>2, <2>3, <2>6, <3>1, <3>2, <3>3 DEF InChunks
    <2> QED BY <2>7, <2>8
  <1>7. InChunks'
    <2>1. Chunking' <=> Chunking BY <1>1, <1>5 DEF Chunking
    <2> QED BY <1>6, <2>1 DEF InChunks
  <1>8. Agreed => /\ used' <= BodyEnd(message)
                  /\ out' = out \o Part(Stream(message), used, used')
    <2>1. Agreed => Chunking BY <1>0, <1>2, AgreedBody
    <2> QED BY <1>1, <1>6, <2>1
  <1>9. InPlain' BY <1>1, <1>2 DEF InPlain
  <1>10. CaptureBegins' BY <1>0, <1>1, CaptureBeginsKept
  <1>11. /\ at' \in {"exact", "size", "crlf", "trailers", "close", "done"}
         /\ at' \in {"size", "crlf", "trailers"} => mode = "chunked"
         /\ at' = "exact" => mode \in {"length", "chunked"} /\ left' > 0
         /\ at' = "close" => mode = "close"
    BY <1>1, <1>2
  <1>12. UNCHANGED <<program, message, head, mode>> BY <1>1
  <1> QED BY <1>2, <1>4, <1>7, <1>8, <1>9, <1>10, <1>11, <1>12, BodyStep

LEMMA UntilCloseStep == ReaderInv /\ ForwardUntilClose => Places'
  <1> SUFFICES ASSUME ReaderInv, ForwardUntilClose PROVE Places' OBVIOUS
  <1>0. TypeOK /\ Followed /\ InPlain BY DEF ReaderInv
  <1>1. /\ at = "close" /\ received' \in 0..Len(Stream(message)) /\ used' = received' /\ used <= received'
        /\ out' = out \o Part(Stream(message), used, received')
        /\ Capture(Part(Stream(message), used, received'))
        /\ UNCHANGED <<program, message, at, head, total, mode, left, prefix>>
    BY <1>0, UntilCloseIs
  <1>2. InTransfer /\ mode = "close" BY <1>0, <1>1 DEF InTransfer, Followed
  <1>3. used' \in Nat /\ used <= used' /\ used' <= Len(Stream(message))
    <2>1. Len(Stream(message)) \in Nat BY <1>0, BufferIs
    <2> QED BY <1>1, <2>1
  <1>4. out' = out \o Part(Stream(message), used, used') /\ Capture(Part(Stream(message), used, used')) BY <1>1
  <1>5. Self' = Self /\ (Agreed' <=> Agreed) BY <1>1, SelfKept
  <1>6. ASSUME Agreed PROVE used' <= BodyEnd(message)
    <2>1. Len(Stream(message)) = BodyEnd(message) BY <1>0, <1>2, <1>6, AgreedBody
    <2> QED BY <1>3, <2>1
  <1>7. ASSUME Agreed
        PROVE  CapturedTo(used' - HeadEnd(message)) /\ used' - HeadEnd(message) \in 0..Len(DataOf(message))
    <2>1. mode # "chunked" BY <1>2
    <2> QED BY <1>0, <1>2, <1>3, <1>4, <1>6, <1>7, <2>1, PlainCapture
  <1>8. InPlain'
    <2>1. Agreed => Captures(used - HeadEnd(message))' BY <1>1, <1>5, <1>7 DEF Captures, CapturedTo
    <2> QED BY <1>1, <1>2, <1>5, <2>1 DEF InPlain
  <1>9. InChunks' BY <1>1, <1>2 DEF InChunks, Chunking
  <1>10. CaptureBegins'
    <2>1. CASE Agreed BY <1>1, <1>7, <2>1, CapturedBegins
    <2>2. CASE ~Agreed BY <1>5, <2>2 DEF CaptureBegins
    <2> QED BY <2>1, <2>2
  <1>11. /\ at' \in {"exact", "size", "crlf", "trailers", "close", "done"}
         /\ at' \in {"size", "crlf", "trailers"} => mode = "chunked"
         /\ at' = "exact" => mode \in {"length", "chunked"} /\ left' > 0
         /\ at' = "close" => mode = "close"
    BY <1>1, <1>2
  <1>12. UNCHANGED <<program, message, head, mode>> BY <1>1
  <1> QED BY <1>2, <1>3, <1>4, <1>6, <1>8, <1>9, <1>10, <1>11, <1>12, BodyStep

\* The reader never is behind the end of a body both agree on.
LEMMA WithinBody ==
  ASSUME TypeOK, Passed, Followed, InTransfer, Agreed
  PROVE  used <= BodyEnd(message)
  <1> DEFINE h == HeadEnd(message)
             lb == Len(BodyOf(message))
             lo == Len(out)
  <1>1. lo <= lb /\ lo = used - h BY DEF Passed
  <1>2. BodyEnd(message) = h + lb /\ h \in Nat /\ lb \in Nat /\ used \in Nat BY BufferIs, StreamIs
  <1> HIDE DEF h, lb, lo
  <1> QED BY <1>1, <1>2

\* A broken connection that passes for the end.
LEMMA EndStep ==
  ASSUME ReaderInv, RecvFails, at' = "done"
  PROVE  Places'
  <1>0. TypeOK /\ Passed /\ Followed /\ InPlain /\ InChunks /\ CaptureBegins BY DEF ReaderInv
  <1>1. /\ Starved /\ (at = "close" \/ (at = "trailers" /\ Self.reader.endsEarly))
        /\ UNCHANGED <<program, message, received, used, head, total, mode, left, out, capture, prefix>>
    BY DEF RecvFails, Goes
  <1>2. InTransfer BY <1>1 DEF InTransfer
  <1>3. Self' = Self /\ (Agreed' <=> Agreed) BY <1>1, SelfKept
  <1>4. used \in Nat /\ used' = used /\ used <= used BY <1>0, <1>1, BufferIs
  <1>5. Agreed => used <= BodyEnd(message) BY <1>0, <1>2, WithinBody
  <1>6. out' = out \o Part(Stream(message), used, used')
    <2>1. Part(Stream(message), used, used) = <<>>
      <3>1. used \in Int /\ used + 1 \in Int /\ used < used + 1 BY <1>4
      <3> QED BY <3>1, SubSeqEmpty DEF Part
    <2>2. out \in Seq(Unit) BY <1>0, Typed
    <2>3. out \o <<>> = out BY <2>2, ConcatEmptySeq
    <2> QED BY <1>1, <1>4, <2>1, <2>3
  <1>7. \A n : Captures(n)' <=> Captures(n) BY <1>1, CapturesKept
  <1>8. InPlain'
    <2> SUFFICES ASSUME Agreed, mode # "chunked"
                 PROVE  /\ Captures(used - HeadEnd(message))
                        /\ used = BodyEnd(message) \/ (mode = "close" /\ received < BodyEnd(message))
      BY <1>1, <1>3, <1>7 DEF InPlain
    <2>1. Captures(used - HeadEnd(message)) BY <1>0, <1>2 DEF InPlain
    <2>2. at = "close" /\ mode = "close" BY <1>0, <1>1 DEF Followed
    <2>3. received = used
      <3>1. Buffer = <<>> BY <1>1, <2>2 DEF Starved, AtLine
      <3>2. Len(Buffer) = received - used /\ received \in Nat BY <1>0, BufferIs
      <3>3. received - used = 0 BY <3>1, <3>2, EmptyIsWords
      <3> QED BY <1>4, <3>2, <3>3
    <2>4. BodyEnd(message) \in Nat BY <1>0, BufferIs, StreamIs
    <2> QED BY <1>4, <1>5, <2>1, <2>2, <2>3, <2>4
  <1>9. InChunks'
    <2> SUFFICES ASSUME Chunking
                 PROVE  /\ IsChunked(message) /\ Captures(Len(DataOf(message)))
                        /\ Self.reader.endsEarly /\ received < BodyEnd(message)
      BY <1>1, <1>3, <1>7 DEF InChunks, Chunking
    <2>1. at = "trailers" /\ Self.reader.endsEarly BY <1>0, <1>1 DEF Followed, Chunking
    <2>2. LineFeed = 0 BY <1>1, <2>1 DEF Starved
    <2> QED BY <2>1, <2>2, TrailerPlace
  <1>10. CaptureBegins' BY <1>0, <1>1, CaptureBeginsKept
  <1>11. UNCHANGED <<program, message, head, mode>> BY <1>1
  <1>12. Agreed => /\ used' <= BodyEnd(message)
                   /\ out' = out \o Part(Stream(message), used, used')
    BY <1>4, <1>5, <1>6
  <1>13. /\ used' \in Nat /\ used <= used' BY <1>4
  <1> QED BY <1>2, <1>8, <1>9, <1>10, <1>11, <1>12, <1>13, BodyStep

LEMMA RecvFailsStep == ReaderInv /\ RecvFails => Places'
  <1> SUFFICES ASSUME ReaderInv, RecvFails PROVE Places' OBVIOUS
  <1>0. Places BY DEF ReaderInv, Places
  <1>1. at' \in {"done", "failed"} /\ UNCHANGED <<program, message, out, capture>> BY DEF RecvFails, Goes
  <1>2. CASE at' = "failed" BY <1>0, <1>1, <1>2, FailedStep
  <1>3. CASE at' = "done" BY <1>3, EndStep
  <1> QED BY <1>1, <1>2, <1>3

\* A line that is too long, and a side that is gone.
LEMMA GivesUpStep == ReaderInv /\ (LineTooLong \/ WriteFails) => Places'
  <1> SUFFICES ASSUME ReaderInv, LineTooLong \/ WriteFails PROVE Places' OBVIOUS
  <1>0. Places BY DEF ReaderInv, Places
  <1>1. at' = "failed" /\ UNCHANGED <<program, message, out, capture>> BY DEF LineTooLong, WriteFails, Goes
  <1> QED BY <1>0, <1>1, FailedStep

\* The end of the head of what has a body.
LEMMA FramedIs ==
  ASSUME TypeOK, EndOfHead, Framing.mode # "error"
  PROVE  /\ mode' = Framing.mode /\ left' = Framing.n /\ left' \in Nat
         /\ mode' \in {"none", "length", "chunked", "close"}
         /\ at' = "done" <=> mode' = "none" \/ (mode' = "length" /\ left' = 0)
         /\ at' = "exact" <=> mode' = "length" /\ left' # 0
         /\ at' = "size" <=> mode' = "chunked"
         /\ at' = "close" <=> mode' = "close"
         /\ at' \in {"exact", "size", "close", "done"}
  <1> DEFINE f == Framing
  <1>1. f.mode \in {"none", "length", "chunked", "close"} /\ f.n \in Nat BY FramingType
  <1>2. Framed(f) BY DEF EndOfHead
  <1> HIDE DEF f
  <1>3. mode' = f.mode /\ left' = f.n BY <1>2 DEF Framed
  <1>4. /\ at' = "done" <=> f.mode = "none" \/ (f.mode = "length" /\ f.n = 0)
        /\ at' = "exact" <=> f.mode = "length" /\ f.n # 0
        /\ at' = "size" <=> f.mode = "chunked"
        /\ at' = "close" <=> f.mode = "close"
        /\ at' \in {"exact", "size", "close", "done"}
    BY <1>1, <1>2 DEF Framed
  <1>5. /\ at' = "done" <=> mode' = "none" \/ (mode' = "length" /\ left' = 0)
        /\ at' = "exact" <=> mode' = "length" /\ left' # 0
        /\ at' = "size" <=> mode' = "chunked"
        /\ at' = "close" <=> mode' = "close"
        /\ at' \in {"exact", "size", "close", "done"}
        /\ left' \in Nat /\ mode' \in {"none", "length", "chunked", "close"}
    BY <1>1, <1>3, <1>4
  <1> QED BY <1>3, <1>5 DEF f

\* The places at the beginning of a body.
LEMMA BodyBegins ==
  ASSUME TypeOK, EndOfHead, head = NamesOf(message), used' = HeadEnd(message), capture' = <<>>,
         Framing.mode # "error"
  PROVE  InPlain' /\ InChunks'
  <1>1. UNCHANGED <<program, message, received, head>> BY DEF EndOfHead
  <1>2. Self' = Self /\ (Agreed' <=> Agreed) BY <1>1, SelfKept
  <1>3. IsMessage(message) /\ HeadEnd(message) \in Nat BY BufferIs, StreamIs
  <1>4. Captures(0)' BY NothingCaptured
  <1>5. InPlain'
    <2> SUFFICES ASSUME Agreed, mode' # "chunked"
                 PROVE  /\ Captures(used - HeadEnd(message))'
                        /\ mode' = "length" /\ at' = "exact" => used' + left' = BodyEnd(message)
                        /\ at' = "done" => used' = BodyEnd(message)
      BY <1>1, <1>2 DEF InPlain
    <2>1. /\ IsPlain(message)
          /\ Framing.mode = "none" => message.plain = <<>>
          /\ Framing.mode = "length" => Framing.n = Len(message.plain)
      <3>1. Framing.mode # "chunked" BY FramedIs
      <3> QED BY <1>3, <3>1, CertainFraming
    <2>2. BodyOf(message) = message.plain BY <1>3, <2>1, PlainBody
    <2> DEFINE h == HeadEnd(message)
               lw == Len(message.plain)
               b == BodyEnd(message)
               u == used'
               v == left'
    <2>3. b = h + lw /\ h \in Nat /\ lw \in Nat /\ u = h BY <1>3, <2>2, StreamIs
    <2>4. mode' = "none" => lw = 0 BY <2>1, FramedIs, EmptyIsWords
    <2>5. mode' = "length" => v = lw BY <2>1, FramedIs
    <2>6. at' = "done" => lw = 0 BY <2>4, <2>5, FramedIs
    <2>7. (used - HeadEnd(message))' = 0
      <3>1. h' = h BY <1>1
      <3>2. u - h = 0
        <4> HIDE DEF u, h
        <4> QED BY <2>3
      <3> QED BY <3>1, <3>2
    <2>8. Captures(used - HeadEnd(message))' BY <1>4, <2>7
    <2>9. (mode' = "length" => u + v = b) /\ (at' = "done" => u = b)
      <3> HIDE DEF u, v, b, h, lw
      <3> QED BY <2>3, <2>5, <2>6
    <2> QED BY <2>8, <2>9
  <1>6. InChunks'
    <2> SUFFICES ASSUME mode' = "chunked", IsChunked(message) \/ BadlyChunked(message)
                 PROVE  InChunks'
      BY <1>1 DEF InChunks, Chunking
    <2>1. at' = "size" BY FramedIs
    <2>2. /\ message.plain = <<>> /\ 1 \in DOMAIN message.chunks
      BY <1>3, ChunksThere
    <2>3. Before(ChunksOf(message), 0) = 0 /\ Before(DatasOf(message), 0) = 0 BY <1>3, ChunksAre, FlatEnds
    <2> DEFINE n == 1
    <2>4. n - 1 = 0 /\ n \in DOMAIN message'.chunks BY <1>1, <2>2
    <2> HIDE DEF n
    <2>5. used' = ChunkAt(message', n)
      <3>1. ChunkAt(message, n) = HeadEnd(message) + 0 BY <2>3, <2>4 DEF ChunkAt
      <3> DEFINE h == HeadEnd(message)
      <3>2. h + 0 = h
        <4>1. h \in Nat BY <1>3
        <4> HIDE DEF h
        <4> QED BY <4>1
      <3> QED BY <1>1, <3>1, <3>2
    <2>6. Captures(Before(DatasOf(message), n - 1))'
      <3>1. Before(DatasOf(message), n - 1)' = 0 BY <1>1, <2>3, <2>4
      <3> QED BY <1>4, <3>1
    <2> QED BY <2>1, <2>4, <2>5, <2>6 DEF InChunks
  <1> QED BY <1>5, <1>6

LEMMA EndOfHeadStep == ReaderInv /\ EndOfHead => Places'
  <1> SUFFICES ASSUME ReaderInv, EndOfHead PROVE Places' OBVIOUS
  <1>0. TypeOK /\ Places BY DEF ReaderInv, Places
  <1>1. /\ at = "headers" /\ LineFeed # 0 /\ Words = <<>>
        /\ used' = used + LineFeed /\ Framed(Framing)
        /\ UNCHANGED <<program, message, received, head, total, out, capture, prefix>>
    BY DEF EndOfHead, LineAt, Consumed
  <1>2. /\ head = NamesOf(message) /\ used' = HeadEnd(message)
        /\ out = <<>> /\ capture = <<>>
    BY <1>1, HeadersPlace
  <1>3. CASE Framing.mode = "error"
    <2>1. at' = "failed" BY <1>1, <1>3 DEF Framed
    <2> QED BY <1>0, <1>1, <2>1, FailedStep
  <1>4. CASE Framing.mode # "error"
    <2>1. IsMessage(message) /\ HeadEnd(message) \in Nat BY <1>0, BufferIs, StreamIs
    <2>2. Self' = Self /\ (Agreed' <=> Agreed) /\ Framing' = Framing BY <1>1, SelfKept, FramingKept
    <2>3. capture' = <<>> BY <1>1, <1>2
    <2>4. InPlain' /\ InChunks' BY <1>0, <1>2, <1>4, <2>3, BodyBegins
    <2>5. /\ mode' = Framing.mode /\ left' \in Nat
          /\ at' = "exact" <=> mode' = "length" /\ left' # 0
          /\ at' = "size" <=> mode' = "chunked"
          /\ at' = "close" <=> mode' = "close"
          /\ at' \in {"exact", "size", "close", "done"}
      BY <1>0, <1>4, FramedIs
    <2>6. InHead' BY <2>5 DEF InHead
    <2>7. InTunnel' BY <2>5 DEF InTunnel
    <2>8. Followed'
      <3>1. HeadEnd(message) >= HeadEnd(message)
        <4> DEFINE h == HeadEnd(message)
        <4>1. h \in Nat BY <2>1
        <4> HIDE DEF h
        <4>2. h >= h BY <4>1
        <4> QED BY <4>2 DEF h
      <3>2. /\ head' = NamesOf(message') /\ mode' = Framing'.mode /\ mode' # "error"
            /\ used' >= HeadEnd(message')
        BY <1>1, <1>2, <1>4, <2>2, <2>5, <3>1
      <3>3. left' # 0 => left' > 0
        <4> DEFINE v == left'
        <4>1. v \in Nat BY <2>5
        <4> HIDE DEF v
        <4>2. v # 0 => v > 0 BY <4>1
        <4> QED BY <4>2 DEF v
      <3> QED BY <2>5, <3>2, <3>3 DEF Followed
    <2>9. Passed'
      <3>1. out' = <<>> /\ Len(<<>>) = 0 BY <1>1, <1>2, EmptyIsWords
      <3>2. SubSeq(BodyOf(message), 1, 0) = <<>> BY SubSeqEmpty
      <3>3. Len(BodyOf(message)) \in Nat BY <2>1, StreamIs
      <3> DEFINE h == HeadEnd(message)
                 lb == Len(BodyOf(message))
                 u == used'
      <3>4. 0 <= lb /\ u - h = 0
        <4>1. lb \in Nat /\ u = h /\ h \in Nat BY <1>2, <2>1, <3>3
        <4> HIDE DEF lb, u, h
        <4> QED BY <4>1
      <3>5. Len(out') <= Len(BodyOf(message)) /\ out' = SubSeq(BodyOf(message), 1, Len(out'))
        BY <3>1, <3>2, <3>4
      <3>6. Len(out') = used' - HeadEnd(message) BY <3>1, <3>4
      <3> QED BY <1>1, <3>5, <3>6 DEF Passed
    <2>10. CaptureBegins'
      <3>1. Len(DataOf(message)) \in Nat BY <2>1, DataIs
      <3>2. 0 \in 0..Len(DataOf(message)) BY <3>1
      <3>3. Captures(0)' BY <2>3, NothingCaptured
      <3> QED BY <1>1, <3>2, <3>3 DEF CaptureBegins
    <2> QED BY <2>4, <2>6, <2>7, <2>8, <2>9, <2>10 DEF Places
  <1> QED BY <1>3, <1>4

-----------------------------------------------------------------------------
(* The invariant.                                                          *)

LEMMA InitPlaces == Init => Places
  <1> SUFFICES ASSUME Init PROVE Places OBVIOUS
  <1>1. /\ message \in Messages /\ used = 0 /\ at \in {"first", "start"} /\ head = <<>>
        /\ at = "first" => Decides
        /\ out = <<>> /\ capture = <<>> /\ prefix = <<>>
    BY DEF Init
  <1>2. IsMessage(message) BY <1>1, SockReaderAssumption
  <1>3. InHead
    <2>1. StartOf(message) \in 1..Len(message.lines) /\ Len(message.lines) \in Nat BY <1>2, StartIs, MessageFields
    <2>2. 0 \in 0..StartOf(message) - 1 BY <2>1
    <2>3. Before(LinesOf(message), 0) = 0 BY <1>2, LinesAre, FlatEnds
    <2> QED BY <1>1, <2>2, <2>3 DEF InHead
  <1>4. ~InTransfer BY <1>1 DEF InTransfer
  <1>5. Followed BY <1>1, <1>4 DEF Followed
  <1>6. Passed
    <2>1. Len(out) = 0 BY <1>1, EmptyIsWords
    <2>2. SubSeq(BodyOf(message), 1, 0) = <<>> BY SubSeqEmpty
    <2>3. Len(BodyOf(message)) \in Nat BY <1>2, StreamIs
    <2>4. 0 <= Len(BodyOf(message)) BY <2>3
    <2> QED BY <1>1, <1>4, <2>1, <2>2, <2>4 DEF Passed
  <1>7. InPlain BY <1>4 DEF InPlain
  <1>8. InChunks BY <1>1 DEF InChunks
  <1>9. CaptureBegins
    <2>1. Captures(0)
      <3>1. SubSeq(DataOf(message), 1, 0) = <<>> BY SubSeqEmpty
      <3> QED BY <1>1, <3>1, NothingUpTo DEF Captures
    <2>2. Len(DataOf(message)) \in Nat BY <1>2, DataIs
    <2>3. 0 \in 0..Len(DataOf(message)) BY <2>2
    <2> QED BY <2>1, <2>3 DEF CaptureBegins
  <1>10. InTunnel BY <1>1 DEF InTunnel
  <1> QED BY <1>3, <1>5, <1>6, <1>7, <1>8, <1>9, <1>10 DEF Places

LEMMA PlacesKept == ReaderInv /\ [Next]_vars => Places'
  <1> SUFFICES ASSUME ReaderInv, [Next]_vars PROVE Places' OBVIOUS
  <1>1. CASE ReadHead
    BY <1>1, FillStep, RecvFailsStep, GivesUpStep, StartLineStep, HeaderLineStep, EndOfHeadStep, EndOfConnectStep
       DEF ReadHead
  <1>2. CASE Forward
    BY <1>2, SizeLineStep, ForwardExactStep, EndOfChunkStep, TrailerStep, UntilCloseStep, GivesUpStep DEF Forward
  <1>3. CASE UNCHANGED vars
    <2>1. UNCHANGED <<program, message, received, used, at, head, total, mode, left, out, capture, prefix>>
      BY <1>3 DEF vars
    <2> QED BY <2>1, WaitStep
  <1> QED BY <1>1, <1>2, <1>3, FirstRecvStep, TunnelReadStep DEF Next, Over

\* Wherever recv cuts the stream, the reader is where the message says: at the
\* beginning of a line, in its body or one of its chunks, or in a tunnel, and it
\* has passed on and captured what is ahead of that place (SockReader, readHead,
\* forwardExact, forwardChunked, forwardUntilClose).
THEOREM ReaderInvariant == Spec => []ReaderInv
  <1>1. Init => ReaderInv BY InitType, InitPlaces DEF ReaderInv, Places
  <1>2. ReaderInv /\ [Next]_vars => ReaderInv'
    <2> SUFFICES ASSUME ReaderInv, [Next]_vars PROVE ReaderInv' OBVIOUS
    <2>1. TypeOK BY DEF ReaderInv
    <2>2. TypeOK' BY <2>1, TypeKept
    <2>3. Places' BY PlacesKept
    <2> QED BY <2>2, <2>3 DEF ReaderInv, Places
  <1> QED BY <1>1, <1>2, PTL DEF Spec

-----------------------------------------------------------------------------
(* What follows from it.                                                   *)

LEMMA PartIsPrefix ==
  ASSUME NEW A, NEW s \in Seq(A), NEW n \in 0..Len(s)
  PROVE  IsPrefix(Part(s, 0, n), s)
  <1> DEFINE p == Part(s, 0, n)
  <1>1. p = SubSeq(s, 1, n) BY FirstPart
  <1>2. p \in Seq(A) /\ Len(p) = n
    <2>1. SubSeq(s, 1, n) \in Seq(A) /\ Len(SubSeq(s, 1, n)) = n BY FirstPart
    <2> QED BY <1>1, <2>1
  <1>3. n <= Len(s) OBVIOUS
  <1>4. SubSeq(p, 1, n) = p BY <1>2, SubSeqFull
  <1> HIDE DEF p
  <1>5. Len(p) <= Len(s) /\ SubSeq(p, 1, Len(p)) = SubSeq(s, 1, Len(p)) BY <1>1, <1>2, <1>3, <1>4
  <1> QED BY <1>5 DEF IsPrefix, p

LEMMA PartIsSuffix ==
  ASSUME NEW A, NEW s \in Seq(A), NEW n \in 0..Len(s)
  PROVE  IsSuffix(Part(s, n, Len(s)), s)
  <1> DEFINE p == Part(s, n, Len(s))
             ls == Len(s)
             lp == Len(p)
             a == Reverse(p)
             b == Reverse(s)
  <1>1. ls \in Nat /\ n \in Nat /\ n <= ls BY LenProperties
  <1>2. p \in Seq(A) /\ lp = ls - n /\ \A i \in 1..lp : p[i] = s[n + i]
    <2>1. ls \in 0..ls /\ n \in 0..ls BY <1>1
    <2> QED BY <2>1, PartIs
  <1>3. a = [i \in 1..lp |-> p[(lp - i) + 1]] /\ b = [i \in 1..ls |-> s[(ls - i) + 1]] BY DEF Reverse
  <1>s. \A i \in 1..ls : s[i] \in A BY ElementOfSeq
  <1>p. \A i \in 1..lp : p[i] \in A BY <1>2, ElementOfSeq
  <1> HIDE DEF p, ls, lp, a, b
  <1>4. lp \in Nat /\ lp <= ls BY <1>1, <1>2
  <1>5. \A i \in 1..ls : (ls - i) + 1 \in 1..ls BY <1>1
  <1>6. \A i \in 1..lp : (lp - i) + 1 \in 1..lp /\ i \in 1..ls /\ n + ((lp - i) + 1) = (ls - i) + 1 BY <1>1, <1>2, <1>4
  <1>7. b \in [1..ls -> A]
    <2>1. \A i \in 1..ls : s[(ls - i) + 1] \in A BY <1>5, <1>s
    <2> QED BY <1>3, <2>1
  <1>8. a \in [1..lp -> A]
    <2>1. \A i \in 1..lp : p[(lp - i) + 1] \in A BY <1>6, <1>p
    <2> QED BY <1>3, <2>1
  <1>9. a \in Seq(A) /\ Len(a) = lp /\ b \in Seq(A) /\ Len(b) = ls BY <1>1, <1>4, <1>7, <1>8, FunctionIsSeq
  <1>10. \A i \in 1..lp : a[i] = b[i]
    <2> SUFFICES ASSUME NEW i \in 1..lp PROVE a[i] = b[i] OBVIOUS
    <2>1. a[i] = p[(lp - i) + 1] /\ b[i] = s[(ls - i) + 1] BY <1>3, <1>6
    <2>2. p[(lp - i) + 1] = s[n + ((lp - i) + 1)] BY <1>2, <1>6
    <2>3. n + ((lp - i) + 1) = (ls - i) + 1 BY <1>6
    <2> QED BY <2>1, <2>2, <2>3
  <1>11. a = Part(b, 0, lp)
    <2> DEFINE c == Part(b, 0, lp)
    <2>1. lp \in 0..Len(b) /\ 0 \in 0..lp BY <1>1, <1>4, <1>9
    <2>2. c \in Seq(A) /\ Len(c) = lp - 0 /\ \A i \in 1..lp - 0 : c[i] = b[0 + i] BY <1>9, <2>1, PartIs
    <2> HIDE DEF c
    <2>3. Len(c) = lp /\ \A i \in 1..lp : c[i] = a[i] BY <1>4, <1>10, <2>2
    <2>4. c = a BY <1>9, <2>2, <2>3, SameParts
    <2> QED BY <2>4 DEF c
  <1>12. lp \in 0..Len(b) BY <1>1, <1>4, <1>9
  <1>13. IsPrefix(a, b) BY <1>9, <1>11, <1>12, PartIsPrefix
  <1> QED BY <1>13 DEF IsSuffix, a, b, p, ls

\* From a place on that was received, what is buffered and what is coming.
LEMMA Remaining ==
  ASSUME TypeOK, NEW p \in 0..received
  PROVE  /\ Part(Stream(message), p, received) \o Coming = Part(Stream(message), p, Len(Stream(message)))
         /\ Part(Stream(message), p, received) \in Seq(Unit)
  <1> DEFINE s == Stream(message)
             ls == Len(s)
  <1>1. s \in Seq(Unit) /\ ls \in Nat /\ received \in 0..ls /\ Coming = Part(s, received, ls) BY BufferIs
  <1>2. ls \in 0..ls BY <1>1
  <1> HIDE DEF s
  <1>3. Part(s, p, received) \o Part(s, received, ls) = Part(s, p, ls) BY <1>1, <1>2, PartJoin
  <1>4. Part(s, p, received) \in Seq(Unit) BY <1>1, PartIs
  <1> QED BY <1>1, <1>3, <1>4 DEF s

\* Behind the body is the next message.
LEMMA NextIs ==
  ASSUME TypeOK
  PROVE  Part(Stream(message), BodyEnd(message), Len(Stream(message))) = message.next
  <1> DEFINE s == Stream(message)
             w == message.next
             b == BodyEnd(message)
  <1>1. s \in Seq(Unit) /\ w \in Seq(Unit) /\ b \in Nat /\ Stands(s, b, w) /\ Len(s) = b + Len(w)
    BY BufferIs, MessageFields, StreamIs
  <1> HIDE DEF s, w, b
  <1>2. Part(s, b, b + Len(w)) = w BY <1>1, PartStands
  <1>3. Part(s, b, Len(s)) = w BY <1>1, <1>2
  <1> QED BY <1>3 DEF s, w, b

\* Where a body both agree on is over.
LEMMA DoneIs ==
  ASSUME ReaderInv, Agreed, at = "done"
  PROVE  /\ used = BodyEnd(message) \/ (EndsUnnoticed /\ received < BodyEnd(message))
         /\ Len(out) = used - HeadEnd(message)
         /\ mode = "chunked" => Captures(Len(DataOf(message)))
         /\ mode # "chunked" => Captures(used - HeadEnd(message)) /\ DataOf(message) = BodyOf(message)
  <1>0. TypeOK /\ Followed /\ Passed /\ InPlain /\ InChunks BY DEF ReaderInv
  <1>1. InTransfer BY DEF InTransfer
  <1>2. CASE mode = "chunked"
    <2>1. Chunking BY <1>0, <1>1, <1>2, AgreedBody
    <2> QED BY <1>0, <1>1, <1>2, <2>1 DEF InChunks, EndsUnnoticed, Passed
  <1>3. CASE mode # "chunked"
    <2>1. DataOf(message) = BodyOf(message) BY <1>0, <1>1, <1>3, AgreedBody
    <2> QED BY <1>0, <1>1, <1>3, <2>1 DEF InPlain, EndsUnnoticed, Passed
  <1> QED BY <1>2, <1>3

\* However recv cuts the stream, the body that is passed on is the sender's, no
\* unit more, less or out of order, and the next message is still there when it
\* is over, unless the end is that of the connection (forwardExact,
\* forwardChunked and forwardUntilClose, SockReader).
THEOREM AlwaysBodyIntact == Spec => []BodyIntact
  <1>1. ReaderInv => BodyIntact
    <2> SUFFICES ASSUME ReaderInv, Agreed
                 PROVE  /\ IsPrefix(out, BodyOf(message))
                        /\ at = "done" => \/ out = BodyOf(message) /\ Buffer \o Coming = message.next
                                          \/ EndsUnnoticed /\ received < Len(HeadOf(message) \o BodyOf(message))
      BY DEF BodyIntact
    <2>0. TypeOK /\ Passed BY DEF ReaderInv
    <2> DEFINE w == BodyOf(message)
               h == HeadEnd(message)
               lw == Len(w)
               lo == Len(out)
               b == BodyEnd(message)
    <2>1. /\ w \in Seq(Unit) /\ lw \in Nat /\ h \in Nat /\ b = h + lw /\ out \in Seq(Unit) /\ lo \in Nat
          /\ Len(HeadOf(message) \o w) = b
      <3>1. w \in Seq(Unit) /\ lw \in Nat /\ h \in Nat /\ b = h + lw /\ HeadOf(message) \in Seq(Unit)
        BY <2>0, BufferIs, StreamIs
      <3>2. out \in Seq(Unit) /\ lo \in Nat BY <2>0, Typed, LenProperties
      <3>3. Len(HeadOf(message) \o w) = h + lw BY <3>1, Concat DEF HeadEnd
      <3> QED BY <3>1, <3>2, <3>3
    <2>2. lo <= lw /\ out = SubSeq(w, 1, lo) BY <2>0 DEF Passed
    <2>3. IsPrefix(out, w)
      <3> HIDE DEF w
      <3>1. lo \in 0..Len(w) BY <2>1, <2>2
      <3> HIDE DEF lo
      <3>2. IsPrefix(Part(w, 0, lo), w) BY <2>1, <3>1, PartIsPrefix
      <3>3. Part(w, 0, lo) = SubSeq(w, 1, lo) BY DEF Part
      <3> QED BY <2>2, <3>2, <3>3
    <2>4. ASSUME at = "done", used = b PROVE out = w /\ Buffer \o Coming = message.next
      <3>1. lo = used - h BY <2>4, DoneIs
      <3>2. lo = lw
        <4> HIDE DEF lo, lw, h, b
        <4> QED BY <2>1, <2>4, <3>1
      <3>3. out = w
        <4>1. SubSeq(w, 1, lw) = w BY <2>1, SubSeqFull
        <4> QED BY <2>2, <3>2, <4>1
      <3>4. used \in 0..received /\ Buffer = Part(Stream(message), used, received) BY <2>0, BufferIs
      <3>5. Buffer \o Coming = Part(Stream(message), used, Len(Stream(message))) BY <2>0, <3>4, Remaining
      <3> QED BY <2>0, <2>4, <3>3, <3>5, NextIs
    <2>5. at = "done" => used = b \/ (EndsUnnoticed /\ received < b) BY DoneIs
    <2> QED BY <2>1, <2>3, <2>4, <2>5
  <1> QED BY <1>1, ReaderInvariant, PTL

\* A request whose length can be read in two ways, and a chunk size that is none
\* or too large, are never passed on as complete by careful programs
\* (requestBodyMode and parseHexChunkSize of v2, v3, v4 and Plan A and B).
THEOREM AlwaysRefusesToGuess == Spec => []NeverGuesses
  <1>1. ReaderInv => NeverGuesses
    <2> SUFFICES ASSUME ReaderInv, Self.head.careful, Ambiguous(message) \/ BadlyChunked(message), at = "done"
                 PROVE  FALSE
      BY DEF NeverGuesses
    <2>0. TypeOK /\ Followed /\ InChunks BY DEF ReaderInv
    <2>1. head = NamesOf(message) /\ mode = Framing.mode /\ mode # "error" BY <2>0 DEF Followed, InTransfer
    <2>2. IsMessage(message) BY <2>0, BufferIs
    <2>3. CASE Ambiguous(message) BY <2>1, <2>3, AmbiguousRefused
    <2>4. CASE BadlyChunked(message)
      <3>1. mode = "chunked" BY <2>1, <2>2, <2>4, BadlyChunkedIs
      <3>2. Chunking BY <2>4, <3>1 DEF Chunking
      <3>3. IsChunked(message) BY <2>0, <3>2 DEF InChunks
      <3>4. Len(message.chunks) \in DOMAIN message.chunks BY <2>0, <3>2, ChunkingIs
      <3>5. Sized(message.chunks[Len(message.chunks)].size) BY <3>3, <3>4 DEF IsChunked, FullChunk
      <3> QED BY <2>4, <3>5 DEF BadlyChunked
    <2> QED BY <2>3, <2>4
  <1> QED BY <1>1, ReaderInvariant, PTL

\* The capture is the beginning of the body without its framing, and at the end
\* all of it or exactly Cap (the capture sink of proxy_v4 and the later programs).
THEOREM AlwaysCapturesTheBody == Spec => []CaptureIsBody
  <1>1. ReaderInv => CaptureIsBody
    <2> SUFFICES ASSUME ReaderInv, Agreed, message.side \in Self.reader.captures
                 PROVE  /\ IsPrefix(capture, DataOf(message))
                        /\ at = "done" /\ out = BodyOf(message) => capture = UpTo(Cap, DataOf(message))
      BY DEF CaptureIsBody
    <2>0. TypeOK /\ CaptureBegins BY DEF ReaderInv
    <2> DEFINE t == DataOf(message)
               lt == Len(t)
    <2>1. t \in Seq(Unit) /\ lt \in Nat BY <2>0, BufferIs, DataIs
    <2>2. IsPrefix(capture, t)
      <3>1. PICK n \in 0..lt : Captures(n) BY <2>0 DEF CaptureBegins
      <3>2. capture = UpTo(Cap, SubSeq(t, 1, n)) BY <3>1 DEF Captures
      <3> HIDE DEF t
      <3>3. SubSeq(t, 1, n) = Part(t, 0, n) BY DEF Part
      <3> DEFINE k == Least(Cap, n)
      <3>4. UpTo(Cap, Part(t, 0, n)) = Part(t, 0, k) /\ k \in 0..Len(t)
        BY <2>1, <3>1, UpToPart, SockReaderAssumption
      <3> HIDE DEF k
      <3>5. IsPrefix(Part(t, 0, k), t) BY <2>1, <3>4, PartIsPrefix
      <3> QED BY <3>2, <3>3, <3>4, <3>5
    <2>3. ASSUME at = "done", out = BodyOf(message) PROVE capture = UpTo(Cap, t)
      <3>1. Captures(lt)
        <4>1. CASE mode = "chunked" BY <2>3, <4>1, DoneIs
        <4>2. CASE mode # "chunked"
          <5>1. Captures(used - HeadEnd(message)) /\ t = BodyOf(message) /\ Len(out) = used - HeadEnd(message)
            BY <2>3, <4>2, DoneIs
          <5>2. used - HeadEnd(message) = lt BY <2>3, <5>1
          <5> QED BY <5>1, <5>2
        <4> QED BY <4>1, <4>2
      <3>2. SubSeq(t, 1, lt) = t BY <2>1, SubSeqFull
      <3> QED BY <3>1, <3>2 DEF Captures
    <2> QED BY <2>2, <2>3
  <1> QED BY <1>1, ReaderInvariant, PTL

\* What follows the head of a CONNECT reaches the tunnel in order and, where
\* takeBuffered hands it over, from its first byte on (handleConnect,
\* prefixBioRead).
THEOREM AlwaysFromTheFirstByte == Spec => []TunnelFromTheFirstByte
  <1>1. ReaderInv => TunnelFromTheFirstByte
    <2> DEFINE arrives == out \o prefix \o Coming
    <2> SUFFICES ASSUME ReaderInv, message.side = "connect", at = "tunnel"
                 PROVE  /\ Self.ahead = "kept" => arrives = message.next
                        /\ Self.ahead = "dropped" => IsSuffix(arrives, message.next)
                        /\ IsSuffix(arrives, Stream(message))
      BY DEF TunnelFromTheFirstByte
    <2>0. TypeOK /\ InTunnel BY DEF ReaderInv
    <2> DEFINE s == Stream(message)
               w == message.next
               h == HeadEnd(message)
               ls == Len(s)
               lw == Len(w)
    <2>1. PICK from \in 0..received :
            /\ out \o prefix = Part(s, from, received)
            /\ Self.ahead = "kept" => from = h
            /\ Self.ahead = "dropped" => from >= h
      BY <2>0 DEF InTunnel, Part
    <2>2. arrives = Part(s, from, ls) BY <2>0, <2>1, Remaining
    <2>3. /\ s \in Seq(Unit) /\ ls \in Nat /\ received \in 0..ls /\ IsMessage(message) /\ w \in Seq(Unit)
          /\ h \in Nat /\ lw \in Nat
      BY <2>0, BufferIs, MessageFields, StreamIs
    <2>4. BodyEnd(message) = h /\ Stands(s, h, w) /\ ls = h + lw
      <3>1. IsPlain(message) /\ message.plain = <<>> BY <2>3 DEF IsMessage
      <3>2. Len(BodyOf(message)) = 0 BY <2>3, <3>1, PlainBody, EmptyIsWords
      <3>3. BodyEnd(message) = h + Len(BodyOf(message)) /\ Stands(s, BodyEnd(message), w)
            /\ ls = BodyEnd(message) + lw
        BY <2>3, StreamIs
      <3>4. BodyEnd(message) = h
        <4> DEFINE b == BodyEnd(message)
        <4>1. b = h + 0 /\ h \in Nat BY <2>3, <3>2, <3>3
        <4> HIDE DEF b, h
        <4>2. b = h BY <4>1
        <4> QED BY <4>2 DEF b
      <3> QED BY <3>3, <3>4
    <2>5. from \in 0..ls BY <2>3
    <2>6. ASSUME from >= h PROVE IsSuffix(arrives, w)
      <3> DEFINE i == from - h
      <3> HIDE DEF s, w, h, ls
      <3>1. i \in 0..lw /\ lw \in 0..lw /\ h + i = from /\ h + lw = ls BY <2>3, <2>4, <2>5, <2>6
      <3> HIDE DEF i
      <3>2. Part(s, h + i, h + lw) = Part(w, i, lw) BY <2>3, <2>4, <3>1, StandsPart
      <3>3. IsSuffix(Part(w, i, lw), w) BY <2>3, <3>1, PartIsSuffix
      <3> QED BY <2>2, <3>1, <3>2, <3>3
    <2>7. ASSUME from = h PROVE arrives = w
      <3>1. Part(s, h, ls) = w BY <2>0, <2>4, NextIs
      <3> QED BY <2>2, <2>7, <3>1
    <2>8. IsSuffix(arrives, s)
      <3> HIDE DEF s
      <3>1. IsSuffix(Part(s, from, ls), s) BY <2>3, <2>5, PartIsSuffix
      <3> QED BY <2>2, <3>1
    <2> QED BY <2>1, <2>6, <2>7, <2>8
  <1> QED BY <1>1, ReaderInvariant, PTL

-----------------------------------------------------------------------------
(* The buffer.  It grows with one recv only, and only where the reader      *)
(* cannot go on with what it has.                                          *)

Held == Self.reader.bounded => received - used <= MaxHead + Chunk

LEMMA HeldIs == TypeOK => (Held <=> BufferBounded)
  BY BufferIs DEF Held, BufferBounded

LEMMA NotGrown ==
  ASSUME TypeOK, Held, UNCHANGED <<program, received>>, used' \in Nat, used <= used'
  PROVE  Held'
  <1>1. Self' = Self BY DEF Self
  <1>2. used \in Nat /\ received \in Nat BY BufferIs
  <1> DEFINE u == used'
  <1>3. u \in Nat /\ used <= u OBVIOUS
  <1>4. Self.reader.bounded => received - used <= MaxHead + Chunk BY DEF Held
  <1> HIDE DEF u
  <1>5. Self.reader.bounded => received - u <= MaxHead + Chunk
    BY <1>2, <1>3, <1>4, SockReaderAssumption
  <1> QED BY <1>1, <1>5 DEF Held, u

LEMMA AllTaken ==
  ASSUME UNCHANGED program, used' = received', received' \in Nat
  PROVE  Held'
  <1>1. received' - used' <= MaxHead + Chunk
    <2> DEFINE r == received'
    <2>1. r - r = 0 /\ 0 <= MaxHead + Chunk BY SockReaderAssumption
    <2> QED BY <2>1
  <1> QED BY <1>1 DEF Held

LEMMA FillHeld ==
  ASSUME TypeOK, Fill
  PROVE  Held'
  <1>1. PICK k \in 1..Chunk : received' = received + k BY DEF Fill
  <1>2. UNCHANGED <<program, used>> /\ Starved /\ at # "close" BY DEF Fill
  <1>3. Self' = Self BY <1>2 DEF Self
  <1>4. Len(Buffer) = received - used /\ received \in Nat /\ used \in Nat BY BufferIs
  <1>5. Self.reader.bounded => Len(Buffer) <= MaxHead
    <2>1. Buffer = <<>> => Len(Buffer) = 0 BY EmptyIsWords
    <2>2. LineFeed = 0 /\ ~TooLong /\ Self.reader.bounded => Len(Buffer) <= MaxHead
      BY <1>4, SockReaderAssumption DEF TooLong
    <2> QED BY <1>2, <1>4, <2>1, <2>2, SockReaderAssumption DEF Starved
  <1>6. Self.reader.bounded => (received + k) - used <= MaxHead + Chunk
    BY <1>4, <1>5, SockReaderAssumption
  <1> QED BY <1>1, <1>2, <1>3, <1>6 DEF Held

LEMMA HeldKept == TypeOK /\ Held /\ [Next]_vars => Held'
  <1> SUFFICES ASSUME TypeOK, Held, [Next]_vars PROVE Held' OBVIOUS
  <1>0. used \in Nat /\ received \in Nat /\ used <= received BY BufferIs
  <1>n. LineFeed \in Nat BY BufferIs, LineFeedIs
  <1>s. used \in Nat /\ used <= used BY <1>0
  <1>1. ASSUME NEW n \in Nat, Consumed(n), UNCHANGED <<program, received>> PROVE Held'
    <2>1. used' = used + n BY <1>1 DEF Consumed
    <2>2. used' \in Nat /\ used <= used' BY <1>0, <2>1
    <2> QED BY <1>1, <2>2, NotGrown
  <1>2. ASSUME UNCHANGED <<program, received, used>> PROVE Held'
    <2>1. used' \in Nat /\ used <= used' BY <1>2, <1>s
    <2> QED BY <1>2, <2>1, NotGrown
  <1>3. ASSUME NEW x, Tunnelled(x) PROVE Held'
    <2>1. UNCHANGED <<program, received>> /\ used' = received BY <1>3 DEF Tunnelled
    <2>2. used' \in Nat /\ used <= used' BY <1>0, <2>1
    <2> QED BY <2>1, <2>2, NotGrown
  <1>4. ASSUME NEW where, Goes(where) PROVE Held' BY <1>2, <1>4 DEF Goes
  <1>5. CASE ReadHead
    <2>1. CASE Fill BY <2>1, FillHeld
    <2>2. CASE RecvFails BY <1>4, <2>2 DEF RecvFails
    <2>3. CASE LineTooLong BY <1>4, <2>3 DEF LineTooLong
    <2>4. CASE StartLine BY <1>1, <1>n, <2>4 DEF StartLine
    <2>5. CASE HeaderLine BY <1>1, <1>n, <2>5 DEF HeaderLine
    <2>6. CASE EndOfHead BY <1>1, <1>n, <2>6 DEF EndOfHead
    <2>7. CASE EndOfConnect BY <1>3, <2>7 DEF EndOfConnect
    <2> QED BY <1>5, <2>1, <2>2, <2>3, <2>4, <2>5, <2>6, <2>7 DEF ReadHead
  <1>6. CASE Forward
    <2>1. CASE SizeLine BY <1>1, <1>n, <2>1 DEF SizeLine
    <2>2. CASE ForwardExact
      <3>1. Available \in Nat BY AvailableIs
      <3> QED BY <1>1, <2>2, <3>1 DEF ForwardExact
    <2>3. CASE EndOfChunk
      <3>1. 2 \in Nat OBVIOUS
      <3> QED BY <1>1, <2>3, <3>1 DEF EndOfChunk
    <2>4. CASE Trailer BY <1>1, <1>n, <2>4 DEF Trailer
    <2>5. CASE ForwardUntilClose
      <3>1. UNCHANGED program /\ used' = received' /\ received' \in 0..Len(Stream(message)) BY <2>5, UntilCloseIs
      <3>2. received' \in Nat BY <3>1, BufferIs
      <3> QED BY <3>1, <3>2, AllTaken
    <2>6. CASE WriteFails BY <1>4, <2>6 DEF WriteFails
    <2> QED BY <1>6, <2>1, <2>2, <2>3, <2>4, <2>5, <2>6 DEF Forward
  <1>7. CASE FirstRecv BY <1>3, <1>4, <1>7 DEF FirstRecv
  <1>8. CASE TunnelRead
    <2>1. /\ UNCHANGED program
          /\ UNCHANGED <<received, used>> \/ (received' \in 0..Len(Stream(message)) /\ used' = received')
      BY <1>8, TunnelReadIs
    <2>2. CASE UNCHANGED <<received, used>> BY <1>2, <2>1, <2>2
    <2>3. CASE received' \in 0..Len(Stream(message)) /\ used' = received'
      <3>1. received' \in Nat BY <2>3, BufferIs
      <3> QED BY <2>1, <2>3, <3>1, AllTaken
    <2> QED BY <2>1, <2>2, <2>3
  <1>9. CASE UNCHANGED vars BY <1>2, <1>9 DEF vars
  <1> QED BY <1>5, <1>6, <1>7, <1>8, <1>9 DEF Next, Over

\* A reader with a bound on lines never holds more than that and one recv, be
\* the line in the head, a chunk size or a trailer (SockReader, MAX_HEAD_BYTES).
THEOREM AlwaysBounded == Spec => []BufferBounded
  <1>1. Init => Held
    <2> SUFFICES ASSUME Init PROVE Held OBVIOUS
    <2>1. received = 0 /\ used = 0 BY DEF Init
    <2>2. received - used <= MaxHead + Chunk BY <2>1, SockReaderAssumption
    <2> QED BY <2>2 DEF Held
  <1>2. TypeOK /\ Held => BufferBounded BY HeldIs
  <1>3. ReaderInv => TypeOK BY DEF ReaderInv
  <1> QED BY <1>1, <1>2, <1>3, HeldKept, ReaderInvariant, PTL DEF Spec
=============================================================================
