----------------------------- MODULE SeqLemmas -----------------------------
(* Lemmas the proofs share.  About sequences: which elements a sequence has, *)
(* whether it repeats one, and what Head, Tail, Append and \o do to both.     *)
(* About sets of numbers: induction, the least element, a number not in use.  *)
EXTENDS Filter, SequencesExt, SequenceTheorems, FunctionTheorems, FiniteSetTheorems, TLAPS

\* x is an element of s.
InSeq(s, x) == \E k \in DOMAIN s : s[k] = x

\* s has no element twice.
Distinct(s) == \A i, j \in DOMAIN s : s[i] = s[j] => i = j

\* Three sequences are put together in either order.
Grouped(a, b, c) == (a \o b) \o c = a \o (b \o c)

\* Concatenation is associative.
LEMMA ConcatGrouped ==
  ASSUME NEW T, NEW a \in Seq(T), NEW b \in Seq(T), NEW c \in Seq(T)
  PROVE  Grouped(a, b, c)
BY ConcatAssociative, SMTT(60) DEF Grouped

\* Taking the head off: the tail has the other elements, and if s repeats none the
\* head is not among them.
LEMMA HeadAndTail ==
  ASSUME NEW S, NEW s \in Seq(S), s # <<>>
  PROVE  /\ Head(s) \in S /\ InSeq(s, Head(s))
         /\ Tail(s) \in Seq(S)
         /\ \A x : InSeq(Tail(s), x) => InSeq(s, x)
         /\ Distinct(s) => Distinct(Tail(s)) /\ ~InSeq(Tail(s), Head(s))
         /\ \A x : InSeq(s, x) => x = Head(s) \/ InSeq(Tail(s), x)
<1>1. Len(s) \in Nat \ {0} /\ DOMAIN s = 1 .. Len(s)
  BY EmptySeq, LenProperties
<1>2. /\ Head(s) = s[1] /\ Head(s) \in S
      /\ Tail(s) \in Seq(S) /\ DOMAIN Tail(s) = 1 .. Len(s) - 1
      /\ \A k \in 1 .. Len(s) - 1 : Tail(s)[k] = s[k + 1]
  BY <1>1, HeadTailProperties, LenProperties
<1>3. ASSUME NEW x, InSeq(Tail(s), x)  PROVE InSeq(s, x)
  BY <1>1, <1>2, <1>3 DEF InSeq
<1>4. ASSUME Distinct(s)  PROVE Distinct(Tail(s)) /\ ~InSeq(Tail(s), Head(s))
  <2>1. \A k \in 1 .. Len(s) - 1 : k + 1 \in DOMAIN s /\ 1 \in DOMAIN s
    BY <1>1
  <2>2. Distinct(Tail(s))
    BY <1>2, <1>4, <2>1 DEF Distinct
  <2>3. ~InSeq(Tail(s), Head(s))
    BY <1>2, <1>4, <2>1 DEF Distinct, InSeq
  <2>4. QED BY <2>2, <2>3
<1>5. ASSUME NEW x, InSeq(s, x)  PROVE x = Head(s) \/ InSeq(Tail(s), x)
  <2>1. PICK k \in 1 .. Len(s) : s[k] = x
    BY <1>1, <1>5 DEF InSeq
  <2>2. CASE k = 1
    BY <1>2, <2>1, <2>2
  <2>3. CASE k # 1
    <3>1. k - 1 \in 1 .. Len(s) - 1 /\ (k - 1) + 1 = k
      BY <1>1, <2>3
    <3>2. Tail(s)[k - 1] = x
      BY <1>2, <2>1, <3>1
    <3>3. QED BY <1>2, <3>1, <3>2 DEF InSeq
  <2>4. QED BY <2>2, <2>3
<1>6. InSeq(s, Head(s))
  BY <1>1, <1>2 DEF InSeq
<1>7. QED BY <1>2, <1>3, <1>4, <1>5, <1>6

\* One sequence after another has the elements of both.
LEMMA InConcat ==
  ASSUME NEW S, NEW s \in Seq(S), NEW t \in Seq(S)
  PROVE  /\ s \o t \in Seq(S)
         /\ \A x : InSeq(s \o t, x) <=> InSeq(s, x) \/ InSeq(t, x)
         /\ Distinct(s) /\ Distinct(t) /\ (\A x \in S : ~(InSeq(s, x) /\ InSeq(t, x)))
              => Distinct(s \o t)
<1>. DEFINE m == Len(s)
            n == Len(t)
            u == s \o t
<1>1. m \in Nat /\ n \in Nat /\ DOMAIN s = 1 .. m /\ DOMAIN t = 1 .. n
  BY LenProperties
<1>2. u \in Seq(S) /\ Len(u) = m + n
      /\ \A k \in 1 .. m + n : u[k] = IF k <= m THEN s[k] ELSE t[k - m]
  BY <1>1, ConcatProperties
<1>3. DOMAIN u = 1 .. m + n
  BY <1>2, LenProperties
<1>. HIDE DEF m, n, u
<1>4. \A k \in 1 .. m : k \in 1 .. m + n /\ u[k] = s[k]
  BY <1>1, <1>2
<1>5. \A k \in 1 .. n : m + k \in 1 .. m + n /\ u[m + k] = t[k]
  BY <1>1, <1>2
<1>6. \A k \in 1 .. m + n : k \in 1 .. m \/ (k - m \in 1 .. n /\ m + (k - m) = k)
  BY <1>1
<1>7. ASSUME NEW x
      PROVE  InSeq(u, x) <=> InSeq(s, x) \/ InSeq(t, x)
  <2>1. ASSUME InSeq(u, x)  PROVE InSeq(s, x) \/ InSeq(t, x)
    <3>1. PICK k \in 1 .. m + n : u[k] = x
      BY <1>3, <2>1 DEF InSeq
    <3>2. CASE k \in 1 .. m
      BY <1>1, <1>4, <3>1, <3>2 DEF InSeq
    <3>3. CASE k - m \in 1 .. n /\ m + (k - m) = k
      <4>1. t[k - m] = x
        BY <1>5, <3>1, <3>3
      <4>2. QED BY <1>1, <3>3, <4>1 DEF InSeq
    <3>4. QED BY <1>6, <3>2, <3>3
  <2>2. ASSUME InSeq(s, x)  PROVE InSeq(u, x)
    <3>1. PICK k \in 1 .. m : s[k] = x
      BY <1>1, <2>2 DEF InSeq
    <3>2. QED BY <1>3, <1>4, <3>1 DEF InSeq
  <2>3. ASSUME InSeq(t, x)  PROVE InSeq(u, x)
    <3>1. PICK k \in 1 .. n : t[k] = x
      BY <1>1, <2>3 DEF InSeq
    <3>2. QED BY <1>3, <1>5, <3>1 DEF InSeq
  <2>4. QED BY <2>1, <2>2, <2>3
<1>8. ASSUME Distinct(s), Distinct(t), \A x \in S : ~(InSeq(s, x) /\ InSeq(t, x))
      PROVE  Distinct(u)
  <2>1. SUFFICES ASSUME NEW i \in 1 .. m + n, NEW j \in 1 .. m + n, u[i] = u[j]
                 PROVE  i = j
    BY <1>3 DEF Distinct
  <2>2. ASSUME NEW k \in 1 .. m, NEW l \in 1 .. n, s[k] = t[l]  PROVE FALSE
    <3>1. s[k] \in S /\ InSeq(s, s[k]) /\ InSeq(t, s[k])
      BY <1>1, <2>2, ElementOfSeq DEF InSeq, m
    <3>2. QED BY <1>8, <3>1
  <2>3. CASE i \in 1 .. m /\ j \in 1 .. m
    BY <1>1, <1>4, <1>8, <2>1, <2>3 DEF Distinct
  <2>4. CASE i - m \in 1 .. n /\ j - m \in 1 .. n
    <3>1. u[m + (i - m)] = t[i - m] /\ u[m + (j - m)] = t[j - m]
      BY <1>5, <2>4
    <3>2. m + (i - m) = i /\ m + (j - m) = j
      BY <1>1, <2>1
    <3>3. t[i - m] = t[j - m]
      BY <2>1, <3>1, <3>2
    <3>4. i - m = j - m
      BY <1>1, <1>8, <2>4, <3>3 DEF Distinct
    <3>5. QED BY <3>2, <3>4
  <2>5. CASE i \in 1 .. m /\ j - m \in 1 .. n
    <3>1. u[i] = s[i]
      BY <1>4, <2>5
    <3>2. u[m + (j - m)] = t[j - m]
      BY <1>5, <2>5
    <3>3. m + (j - m) = j
      BY <1>1
    <3>4. s[i] = t[j - m]
      BY <2>1, <3>1, <3>2, <3>3
    <3>5. QED BY <2>2, <2>5, <3>4
  <2>6. CASE j \in 1 .. m /\ i - m \in 1 .. n
    <3>1. u[j] = s[j]
      BY <1>4, <2>6
    <3>2. u[m + (i - m)] = t[i - m]
      BY <1>5, <2>6
    <3>3. m + (i - m) = i
      BY <1>1
    <3>4. s[j] = t[i - m]
      BY <2>1, <3>1, <3>2, <3>3
    <3>5. QED BY <2>2, <2>6, <3>4
  <2>7. QED BY <1>6, <2>3, <2>4, <2>5, <2>6
<1>9. QED BY <1>2, <1>7, <1>8 DEF u

\* A sequence of one element.
LEMMA OneElement ==
  ASSUME NEW S, NEW x \in S
  PROVE  <<x>> \in Seq(S) /\ Distinct(<<x>>) /\ \A y : InSeq(<<x>>, y) <=> y = x
<1>1. <<x>> \in Seq(S) /\ DOMAIN <<x>> = 1 .. 1 /\ <<x>>[1] = x
  OBVIOUS
<1>2. QED BY <1>1 DEF Distinct, InSeq

\* The empty sequence.
LEMMA NoElement ==
  ASSUME NEW S
  PROVE  <<>> \in Seq(S) /\ Distinct(<<>>) /\ \A y : ~InSeq(<<>>, y)
<1>1. <<>> \in Seq(S) /\ DOMAIN <<>> = 1 .. 0
  OBVIOUS
<1>2. QED BY <1>1 DEF Distinct, InSeq
\* Append is \o of one element.
LEMMA InAppend ==
  ASSUME NEW S, NEW s \in Seq(S), NEW x \in S
  PROVE  /\ Append(s, x) \in Seq(S)
         /\ \A y : InSeq(Append(s, x), y) <=> InSeq(s, y) \/ y = x
         /\ Distinct(s) /\ ~InSeq(s, x) => Distinct(Append(s, x))
<1>1. Append(s, x) = s \o <<x>>
  BY AppendIsConcat
<1>2. <<x>> \in Seq(S) /\ Distinct(<<x>>) /\ \A y : InSeq(<<x>>, y) <=> y = x
  BY OneElement
<1>. DEFINE one == <<x>>
<1>. HIDE DEF one
<1>3. /\ s \o one \in Seq(S)
      /\ \A y : InSeq(s \o one, y) <=> InSeq(s, y) \/ InSeq(one, y)
      /\ Distinct(s) /\ Distinct(one) /\ (\A y \in S : ~(InSeq(s, y) /\ InSeq(one, y)))
           => Distinct(s \o one)
  BY <1>2, InConcat DEF one
<1>4. QED BY <1>1, <1>2, <1>3 DEF one

\* The elements of a sequence over S are in S.
LEMMA InSeqType ==
  ASSUME NEW S, NEW s \in Seq(S), NEW x, InSeq(s, x)
  PROVE  x \in S
BY ElementOfSeq, LenProperties DEF InSeq

\* The first n elements of a sequence.
LEMMA FirstElements ==
  ASSUME NEW S, NEW s \in Seq(S), NEW n \in Nat, n <= Len(s)
  PROVE  /\ SubSeq(s, 1, n) \in Seq(S) /\ Len(SubSeq(s, 1, n)) = n
         /\ DOMAIN SubSeq(s, 1, n) = 1 .. n
         /\ \A k \in 1 .. n : SubSeq(s, 1, n)[k] = s[k]
<1>1. \A k \in 1 .. n : s[k] \in S /\ 1 + k - 1 = k
  BY ElementOfSeq, LenProperties
<1>. DEFINE t == SubSeq(s, 1, n)
<1>2. /\ t \in Seq(S) /\ Len(t) = IF 1 <= n THEN n - 1 + 1 ELSE 0
      /\ \A k \in 1 .. n - 1 + 1 : t[k] = s[1 + k - 1]
  BY <1>1, SubSeqProperties
<1>3. n - 1 + 1 = n /\ (1 <= n \/ n = 0)
  OBVIOUS
<1>. HIDE DEF t
<1>4. t \in Seq(S) /\ Len(t) = n /\ \A k \in 1 .. n : t[k] = s[k]
  BY <1>1, <1>2, <1>3
<1>5. QED BY <1>4, LenProperties DEF t

\* The elements of a sequence but for the one at position n.
LEMMA LeftOut ==
  ASSUME NEW S, NEW s \in Seq(S), NEW n \in 1 .. Len(s)
  PROVE  LET t == SubSeq(s, 1, n - 1) \o SubSeq(s, n + 1, Len(s))
         IN  /\ t \in Seq(S)
             /\ Distinct(s) => Distinct(t) /\ \A x : InSeq(t, x) <=> InSeq(s, x) /\ x # s[n]
<1>. DEFINE m == Len(s)
            a == SubSeq(s, 1, n - 1)
            b == SubSeq(s, n + 1, m)
<1>1. m \in Nat /\ DOMAIN s = 1 .. m /\ n \in 1 .. m
  BY LenProperties
<1>2. /\ a \in Seq(S) /\ DOMAIN a = 1 .. n - 1 /\ \A k \in 1 .. n - 1 : a[k] = s[k]
  <2>1. n - 1 \in Nat /\ n - 1 <= Len(s)
    BY <1>1
  <2>2. QED BY <2>1, FirstElements
<1>3. /\ b \in Seq(S) /\ DOMAIN b = 1 .. m - n /\ \A k \in 1 .. m - n : b[k] = s[n + k]
  <2>1. \A k \in n + 1 .. m : s[k] \in S
    BY <1>1, ElementOfSeq
  <2>2. n + 1 \in Int /\ m \in Int
    BY <1>1
  <2>. HIDE DEF m
  <2>3. /\ b \in Seq(S) /\ Len(b) = IF n + 1 <= m THEN m - (n + 1) + 1 ELSE 0
        /\ \A k \in 1 .. m - (n + 1) + 1 : b[k] = s[(n + 1) + k - 1]
    BY <2>1, <2>2, SubSeqProperties
  <2>4. m - (n + 1) + 1 = m - n /\ Len(b) = m - n
    BY <1>1, <2>3
  <2>5. \A k \in 1 .. m - n : (n + 1) + k - 1 = n + k
    BY <1>1
  <2>. HIDE DEF b
  <2>6. QED BY <2>3, <2>4, <2>5, LenProperties
<1>. HIDE DEF m, a, b
<1>4. \A k \in 1 .. m : k \in 1 .. n - 1 \/ k = n \/ (k - n \in 1 .. m - n /\ n + (k - n) = k)
  BY <1>1
<1>5. \A k \in 1 .. n - 1 : k \in 1 .. m /\ k # n
  BY <1>1
<1>6. \A k \in 1 .. m - n : n + k \in 1 .. m /\ n + k # n
  BY <1>1
<1>7. \A j \in 1 .. n - 1 : \A k \in 1 .. m - n : j # n + k
  BY <1>1
<1>8. ASSUME Distinct(s)
      PROVE  /\ Distinct(a) /\ Distinct(b) /\ \A x \in S : ~(InSeq(a, x) /\ InSeq(b, x))
             /\ \A x : InSeq(a, x) \/ InSeq(b, x) <=> InSeq(s, x) /\ x # s[n]
  <2>1. Distinct(a)
    BY <1>1, <1>2, <1>5, <1>8 DEF Distinct
  <2>2. Distinct(b)
    <3>1. \A j, k \in 1 .. m - n : n + j = n + k => j = k
      BY <1>1
    <3>2. QED BY <1>1, <1>3, <1>6, <1>8, <3>1 DEF Distinct
  <2>3. \A x : InSeq(a, x) => ~InSeq(b, x)
    <3>1. SUFFICES ASSUME NEW j \in 1 .. n - 1, NEW k \in 1 .. m - n, a[j] = b[k] PROVE FALSE
      BY <1>2, <1>3 DEF InSeq
    <3>2. s[j] = s[n + k] /\ j \in 1 .. m /\ n + k \in 1 .. m /\ j # n + k
      BY <1>2, <1>3, <1>5, <1>6, <1>7, <3>1
    <3>3. QED BY <1>1, <1>8, <3>2 DEF Distinct
  <2>4. ASSUME NEW x, InSeq(a, x) \/ InSeq(b, x) PROVE InSeq(s, x) /\ x # s[n]
    <3>1. \E k \in 1 .. m : k # n /\ s[k] = x
      BY <1>2, <1>3, <1>5, <1>6, <2>4 DEF InSeq
    <3>2. QED BY <1>1, <1>8, <3>1 DEF Distinct, InSeq
  <2>5. ASSUME NEW x, InSeq(s, x), x # s[n] PROVE InSeq(a, x) \/ InSeq(b, x)
    <3>1. PICK k \in 1 .. m : s[k] = x
      BY <1>1, <2>5 DEF InSeq
    <3>2. k # n
      BY <2>5, <3>1
    <3>3. CASE k \in 1 .. n - 1
      BY <1>2, <3>1, <3>3 DEF InSeq
    <3>4. CASE k - n \in 1 .. m - n /\ n + (k - n) = k
      <4>1. b[k - n] = s[n + (k - n)]
        BY <1>3, <3>4
      <4>2. QED BY <1>3, <3>1, <3>4, <4>1 DEF InSeq
    <3>5. QED BY <1>4, <3>2, <3>3, <3>4
  <2>6. QED BY <2>1, <2>2, <2>3, <2>4, <2>5
<1>9. /\ a \o b \in Seq(S)
      /\ \A x : InSeq(a \o b, x) <=> InSeq(a, x) \/ InSeq(b, x)
      /\ Distinct(a) /\ Distinct(b) /\ (\A x \in S : ~(InSeq(a, x) /\ InSeq(b, x)))
           => Distinct(a \o b)
  BY <1>2, <1>3, InConcat
<1>10. QED BY <1>8, <1>9 DEF a, b, m

-----------------------------------------------------------------------------
\* A set of numbers that has 0, and with a number the next one, has them all: else
\* the first m + 1 numbers could be mapped one to one into the first m.
LEMMA SetInduction ==
  ASSUME NEW S, 0 \in S, \A n \in Nat : n \in S => n + 1 \in S
  PROVE  Nat \subseteq S
<1>. SUFFICES ASSUME NEW m \in Nat, m \notin S PROVE FALSE
  OBVIOUS
<1>. DEFINE f == [i \in 1 .. m + 1 |-> IF i - 1 \in S THEN i ELSE i - 1]
<1>1. f \in [1 .. m + 1 -> 1 .. m]
  <2>. SUFFICES ASSUME NEW i \in 1 .. m + 1 PROVE f[i] \in 1 .. m
    OBVIOUS
  <2>1. CASE i - 1 \in S
    <3>1. i # m + 1
      BY <2>1
    <3>2. QED BY <2>1, <3>1
  <2>2. CASE i - 1 \notin S
    <3>1. i # 1
      BY <2>2
    <3>2. QED BY <2>2, <3>1
  <2>3. QED BY <2>1, <2>2
<1>2. \A i, j \in 1 .. m + 1 : f[i] = f[j] => i = j
  <2>. SUFFICES ASSUME NEW i \in 1 .. m + 1, NEW j \in 1 .. m + 1, f[i] = f[j], i < j
                PROVE  FALSE
    OBVIOUS
  <2>1. j - 1 \notin S /\ j = i + 1
    OBVIOUS
  <2>2. i - 1 \in S
    BY <2>1
  <2>3. i - 1 \in Nat /\ (i - 1) + 1 \in S
    BY <2>2
  <2>4. QED BY <2>1, <2>3
<1>3. ExistsInjection(1 .. m + 1, 1 .. m)
  BY <1>1, <1>2, Fun_IsInj, Fun_ExistsInj
<1>. HIDE DEF f
<1>4. QED BY <1>3, Fun_NatInjLeq

\* The same up to n.
LEMMA SetInductionTo ==
  ASSUME NEW n \in Nat, NEW S, 0 \in S, \A k \in 0 .. n - 1 : k \in S => k + 1 \in S
  PROVE  0 .. n \subseteq S
<1>. DEFINE T == {k \in Nat : k <= n => k \in S}
<1>1. 0 \in T
  OBVIOUS
<1>2. \A k \in Nat : k \in T => k + 1 \in T
  <2>. SUFFICES ASSUME NEW k \in Nat, k \in T, k + 1 <= n  PROVE k + 1 \in S
    OBVIOUS
  <2>1. k \in 0 .. n - 1 /\ k \in S
    OBVIOUS
  <2>2. QED BY <2>1
<1>. HIDE DEF T
<1>3. Nat \subseteq T
  BY <1>1, <1>2, SetInduction
<1>4. QED BY <1>3 DEF T

\* A function on 0 .. n whose value at k follows from the one at k - 1.
Follows(w, n, V, v0, G) == /\ w \in [0 .. n -> V]
                           /\ w[0] = G[0][v0]
                           /\ \A k \in 1 .. n : w[k] = G[k][w[k - 1]]

\* A recursive definition over 0 .. n has the values its equations say.
LEMMA RecursionTo ==
  ASSUME NEW n \in Nat, NEW V, NEW v0 \in V, NEW G \in [0 .. n -> [V -> V]]
  PROVE  \E w : Follows(w, n, V, v0, G)
<1>. DEFINE S == {m \in 0 .. n : \E w \in [0 .. m -> V] :
                                   /\ w[0] = G[0][v0]
                                   /\ \A k \in 1 .. m : w[k] = G[k][w[k - 1]]}
<1>1. 0 \in S
  <2>. DEFINE w == [k \in 0 .. 0 |-> G[0][v0]]
  <2>1. w \in [0 .. 0 -> V] /\ w[0] = G[0][v0] /\ 0 \in 0 .. n
    OBVIOUS
  <2>2. \A k \in 1 .. 0 : w[k] = G[k][w[k - 1]]
    OBVIOUS
  <2>. HIDE DEF w
  <2>3. QED BY <2>1, <2>2
<1>2. \A m \in 0 .. n - 1 : m \in S => m + 1 \in S
  <2>. SUFFICES ASSUME NEW m \in 0 .. n - 1, m \in S  PROVE m + 1 \in S
    OBVIOUS
  <2>1. PICK w \in [0 .. m -> V] : /\ w[0] = G[0][v0]
                                  /\ \A k \in 1 .. m : w[k] = G[k][w[k - 1]]
    OBVIOUS
  <2>. DEFINE u == [k \in 0 .. m + 1 |-> IF k <= m THEN w[k] ELSE G[m + 1][w[m]]]
  <2>2. m + 1 \in 0 .. n /\ w[m] \in V /\ G[m + 1][w[m]] \in V
    OBVIOUS
  <2>3. u \in [0 .. m + 1 -> V]
    BY <2>2
  <2>4. u[0] = G[0][v0]
    BY <2>1
  <2>5. ASSUME NEW k \in 1 .. m + 1  PROVE u[k] = G[k][u[k - 1]]
    <3>1. CASE k <= m
      <4>1. k \in 1 .. m /\ u[k] = w[k] /\ u[k - 1] = w[k - 1]
        BY <3>1
      <4>2. QED BY <2>1, <4>1
    <3>2. CASE k = m + 1
      BY <3>2
    <3>3. QED BY <3>1, <3>2
  <2>. HIDE DEF u
  <2>6. QED BY <2>2, <2>3, <2>4, <2>5
<1>. HIDE DEF S
<1>3. 0 .. n \subseteq S
  BY <1>1, <1>2, SetInductionTo
<1>4. n \in S
  BY <1>3
<1>5. QED BY <1>4 DEF S, Follows

\* A set of numbers that is not empty has a least one.
LEMMA LeastOne ==
  ASSUME NEW P \in SUBSET Nat, P # {}
  PROVE  \E k \in P : \A j \in P : k <= j
<1>. DEFINE S == {n \in Nat : \A j \in P : n <= j}
<1>1. SUFFICES ASSUME \A k \in P : \E j \in P : ~(k <= j)
               PROVE  FALSE
  OBVIOUS
<1>2. 0 \in S
  OBVIOUS
<1>3. \A n \in Nat : n \in S => n + 1 \in S
  <2>. SUFFICES ASSUME NEW n \in S, NEW j \in P PROVE n + 1 <= j
    OBVIOUS
  <2>1. n \notin P
    BY <1>1
  <2>2. n # j /\ n <= j /\ j \in Nat /\ n \in Nat
    BY <2>1
  <2>3. QED BY <2>2
<1>. HIDE DEF S
<1>4. Nat \subseteq S
  BY <1>2, <1>3, SetInduction
<1>5. PICK p \in P : TRUE
  OBVIOUS
<1>6. p + 1 \in S
  BY <1>4
<1>7. QED BY <1>5, <1>6 DEF S

\* A finite set of numbers is not all of 1 .. n for some n one above its size: a
\* least number is left.
LEMMA LeastUnused ==
  ASSUME NEW used, IsFiniteSet(used)
  PROVE  LET free == (1 .. Cardinality(used) + 1) \ used
         IN  \E k \in free : \A j \in free : k <= j
<1>. DEFINE n == Cardinality(used)
            free == (1 .. n + 1) \ used
<1>1. n \in Nat
  BY FS_CardinalityType
<1>. HIDE DEF n
<1>2. Cardinality(1 .. n + 1) = n + 1
  BY <1>1, FS_Interval
<1>3. ~(1 .. n + 1 \subseteq used)
  <2>. SUFFICES ASSUME 1 .. n + 1 \subseteq used PROVE FALSE
    OBVIOUS
  <2>1. n + 1 <= Cardinality(used)
    BY <1>2, FS_Subset
  <2>2. QED BY <1>1, <2>1 DEF n
<1>4. free \in SUBSET Nat /\ free # {}
  BY <1>3
<1>5. QED BY <1>4, LeastOne DEF n

\* The values of a function on a finite set.
LEMMA ImageFinite ==
  ASSUME NEW S, IsFiniteSet(S), NEW f
  PROVE  IsFiniteSet({f[x] : x \in S})
<1>. DEFINE T == {f[x] : x \in S}
            g == [x \in S |-> f[x]]
<1>1. g \in Surjection(S, T)
  BY DEF Surjection
<1>2. QED BY <1>1, FS_Surjection

-----------------------------------------------------------------------------
(* One sequence after another.                                                *)

\* FlattenSeq runs through its sequences from the first to the last.
Joins(f, n, T, ss) ==
  /\ f \in [0 .. n -> Seq(T)]
  /\ f[0] = <<>>
  /\ \A i \in 1 .. n : f[i] = f[i - 1] \o ss[i]
  /\ FlattenSeq(ss) = f[n]

\* The flattened sequence, run by run.
LEMMA FlattenRuns ==
  ASSUME NEW T, NEW ss \in Seq(Seq(T)), NEW n, Len(ss) = n
  PROVE  \E f : Joins(f, n, T, ss)
<1>. DEFINE V == Seq(T)
            G == [i \in 0 .. n |-> [v \in V |-> IF i = 0 THEN <<>> ELSE v \o ss[i]]]
<1>1. n \in Nat /\ DOMAIN ss = 1 .. n /\ \A i \in 1 .. n : ss[i] \in V
  BY LenProperties, ElementOfSeq
<1>2. <<>> \in V /\ \A v, w \in V : v \o w \in V
  BY ConcatProperties
<1>3. G \in [0 .. n -> [V -> V]]
  <2>1. ASSUME NEW i \in 0 .. n, NEW v \in V
        PROVE  (IF i = 0 THEN <<>> ELSE v \o ss[i]) \in V
    <3>1. i # 0 => i \in 1 .. n
      BY <1>1
    <3>. HIDE DEF V
    <3>2. QED BY <1>1, <1>2, <3>1
  <2>. HIDE DEF V
  <2>2. QED BY <2>1
<1>4. PICK f : Follows(f, n, V, <<>>, G)
  <2>. HIDE DEF V, G
  <2>1. QED BY <1>1, <1>2, <1>3, RecursionTo
<1>5. f \in [0 .. n -> V] /\ f[0] = <<>> /\ \A i \in 1 .. n : f[i] = f[i - 1] \o ss[i]
  <2>1. 0 \in 0 .. n /\ f \in [0 .. n -> V] /\ f[0] = <<>>
    BY <1>1, <1>2, <1>4 DEF Follows
  <2>2. ASSUME NEW i \in 1 .. n  PROVE f[i] = f[i - 1] \o ss[i]
    <3>1. i \in 0 .. n /\ i - 1 \in 0 .. n /\ i # 0
      BY <1>1
    <3>2. f[i - 1] \in V /\ f[i] = G[i][f[i - 1]]
      BY <1>4, <3>1 DEF Follows
    <3>3. G[i] = [v \in V |-> v \o ss[i]]
      BY <3>1
    <3>. HIDE DEF V, G
    <3>4. QED BY <3>2, <3>3
  <2>3. QED BY <2>1, <2>2
<1>. HIDE DEF G
<1>6. ASSUME n = 0  PROVE FlattenSeq(ss) = f[n]
  <2>1. ss = <<>>
    BY <1>6, EmptySeq
  <2>2. FlattenSeq(ss) = ss
    BY <1>6 DEF FlattenSeq
  <2>3. QED BY <1>5, <1>6, <2>1, <2>2
<1>7. ASSUME n # 0  PROVE FlattenSeq(ss) = f[n]
  <2>. DEFINE Whole(h) == h = [i \in 1 .. n |-> IF i = 1 THEN ss[i] ELSE h[i - 1] \o ss[i]]
              g == [i \in 1 .. n |-> f[i]]
              flatten == CHOOSE h : Whole(h)
  <2>1. FlattenSeq(ss) = flatten[n]
    BY <1>7 DEF FlattenSeq
  <2>2. Whole(g)
    <3>1. ASSUME NEW i \in 1 .. n
          PROVE  f[i] = IF i = 1 THEN ss[i] ELSE g[i - 1] \o ss[i]
      <4>1. CASE i = 1
        <5>1. i \in 1 .. n /\ i - 1 = 0 /\ f[i] = f[i - 1] \o ss[i] /\ f[0] = <<>>
          BY <1>5, <4>1
        <5>2. <<>> \o ss[i] = ss[i]
          BY <1>1, <5>1, ConcatEmptySeq
        <5>3. f[i] = ss[i]
          BY <5>1, <5>2
        <5>4. QED BY <4>1, <5>3
      <4>2. CASE i # 1
        <5>1. i - 1 \in 1 .. n
          BY <1>1, <4>2
        <5>2. QED BY <1>5, <4>2, <5>1
      <4>3. QED BY <4>1, <4>2
    <3>2. QED BY <3>1
  <2>3. Whole(flatten)
    BY <2>2
  <2>. HIDE DEF flatten
  <2>. DEFINE S == {i \in 0 .. n : i # 0 => flatten[i] = f[i]}
  <2>4. 0 \in S
    BY <1>1
  <2>5. \A k \in 0 .. n - 1 : k \in S => k + 1 \in S
    <3>. SUFFICES ASSUME NEW k \in 0 .. n - 1, k \in S  PROVE k + 1 \in S
      OBVIOUS
    <3>1. k + 1 \in 1 .. n /\ k + 1 \in 0 .. n /\ (k + 1) - 1 = k
      BY <1>1
    <3>2. flatten[k + 1] = IF k + 1 = 1 THEN ss[k + 1] ELSE flatten[k] \o ss[k + 1]
      BY <2>3, <3>1
    <3>3. CASE k = 0
      <4>1. f[k + 1] = f[k] \o ss[k + 1] /\ f[k] = <<>> /\ k + 1 = 1
        BY <1>5, <3>1, <3>3
      <4>2. <<>> \o ss[k + 1] = ss[k + 1]
        BY <1>1, <3>1, ConcatEmptySeq
      <4>3. flatten[k + 1] = ss[k + 1]
        BY <3>2, <4>1
      <4>4. QED BY <3>1, <4>1, <4>2, <4>3
    <3>4. CASE k # 0
      <4>1. flatten[k] = f[k]
        BY <3>4
      <4>2. f[k + 1] = f[k] \o ss[k + 1]
        BY <1>5, <3>1
      <4>3. k + 1 # 1
        BY <3>4
      <4>4. QED BY <3>1, <3>2, <4>1, <4>2, <4>3
    <3>5. QED BY <3>3, <3>4
  <2>. HIDE DEF S
  <2>6. 0 .. n \subseteq S
    BY <1>1, <2>4, <2>5, SetInductionTo
  <2>7. n \in S
    BY <1>1, <2>6
  <2>8. flatten[n] = f[n]
    BY <1>7, <2>7 DEF S
  <2>9. QED BY <2>1, <2>8
<1>8. QED BY <1>5, <1>6, <1>7 DEF Joins

\* Sequences that repeat nothing and share nothing, one after another: nothing is
\* repeated, and the whole has the elements of each.
LEMMA FlattenDisjoint ==
  ASSUME NEW T, NEW ss \in Seq(Seq(T)),
         \A i \in DOMAIN ss : Distinct(ss[i]),
         \A i, j \in DOMAIN ss : i # j => \A x : ~(InSeq(ss[i], x) /\ InSeq(ss[j], x))
  PROVE  /\ FlattenSeq(ss) \in Seq(T) /\ Distinct(FlattenSeq(ss))
         /\ \A x : InSeq(FlattenSeq(ss), x) <=> \E i \in DOMAIN ss : InSeq(ss[i], x)
<1>. DEFINE n == Len(ss)
<1>1. n \in Nat /\ DOMAIN ss = 1 .. n /\ \A i \in 1 .. n : ss[i] \in Seq(T)
  BY LenProperties, ElementOfSeq
<1>2. PICK f : Joins(f, n, T, ss)
  BY FlattenRuns
<1>. HIDE DEF n
<1>3. /\ f[0] = <<>> /\ FlattenSeq(ss) = f[n] /\ \A i \in 0 .. n : f[i] \in Seq(T)
      /\ \A i \in 1 .. n : f[i] = f[i - 1] \o ss[i]
  <2>1. f \in [0 .. n -> Seq(T)]
    BY <1>2 DEF Joins
  <2>2. \A i \in 0 .. n : f[i] \in Seq(T)
    BY <2>1
  <2>3. QED BY <1>2, <2>2, Zenon DEF Joins
<1>. DEFINE Good == {i \in 0 .. n : /\ Distinct(f[i])
                                    /\ \A x : InSeq(f[i], x) <=> \E j \in 1 .. i : InSeq(ss[j], x)}
<1>4. 0 \in Good
  <2>1. Distinct(f[0]) /\ \A x : ~InSeq(f[0], x)
    BY <1>3, NoElement
  <2>2. \A j \in 1 .. 0 : FALSE
    OBVIOUS
  <2>3. QED BY <1>1, <2>1, <2>2
<1>5. ASSUME NEW k \in 0 .. n - 1, k \in Good  PROVE k + 1 \in Good
  <2>1. k + 1 \in 1 .. n /\ k + 1 \in 0 .. n /\ k \in 0 .. n /\ (k + 1) - 1 = k
        /\ \A j \in 1 .. k + 1 : j \in 1 .. k \/ j = k + 1
    BY <1>1
  <2>2. \A j \in 1 .. k : j \in 1 .. n /\ j \in 1 .. k + 1 /\ j # k + 1
    BY <1>1
  <2>3. k + 1 \in 1 .. k + 1
    BY <1>1
  <2>. DEFINE a == f[k]
              b == ss[k + 1]
  <2>4. a \in Seq(T) /\ b \in Seq(T) /\ f[k + 1] = a \o b /\ Distinct(b)
    BY <1>1, <1>3, <2>1
  <2>5. Distinct(a) /\ \A x : InSeq(a, x) <=> \E j \in 1 .. k : InSeq(ss[j], x)
    BY <1>5
  <2>6. \A x : ~(InSeq(a, x) /\ InSeq(b, x))
    BY <1>1, <2>1, <2>2, <2>5
  <2>. HIDE DEF a
  <2>7. /\ \A x : InSeq(a \o b, x) <=> InSeq(a, x) \/ InSeq(b, x)
        /\ Distinct(a \o b)
    <3>. HIDE DEF b
    <3>1. QED BY <2>4, <2>5, <2>6, InConcat
  <2>8. \A x : InSeq(f[k + 1], x) <=> \E j \in 1 .. k + 1 : InSeq(ss[j], x)
    BY <2>1, <2>2, <2>3, <2>4, <2>5, <2>7
  <2>9. QED BY <2>1, <2>4, <2>7, <2>8
<1>. HIDE DEF Good
<1>6. 0 .. n \subseteq Good
  BY <1>1, <1>4, <1>5, SetInductionTo
<1>7. n \in Good
  BY <1>1, <1>6
<1>8. QED BY <1>1, <1>3, <1>7 DEF Good

\* A function on 1 .. n is a sequence.
LEMMA ListSeq ==
  ASSUME NEW S, NEW n \in Nat, NEW f, f = [i \in 1 .. n |-> f[i]], \A i \in 1 .. n : f[i] \in S
  PROVE  f \in Seq(S) /\ Len(f) = n /\ DOMAIN f = 1 .. n
<1>1. f \in [1 .. n -> S]
  OBVIOUS
<1>2. f \in Seq(S)
  BY <1>1, SeqDef
<1>3. DOMAIN f = 1 .. n /\ DOMAIN f = 1 .. Len(f) /\ Len(f) \in Nat
  BY <1>1, <1>2, LenProperties
<1>4. Len(f) = n
  BY <1>3
<1>5. QED BY <1>2, <1>3, <1>4

-----------------------------------------------------------------------------
(* What is left of a sequence.                                                *)

\* Only goes through s from the first element to the last.
Filters(f, s, S, T) ==
  /\ f \in [0 .. Len(s) -> Seq(T)]
  /\ f[0] = <<>>
  /\ \A i \in 1 .. Len(s) : f[i] = IF s[i] \in S THEN Append(f[i - 1], s[i]) ELSE f[i - 1]
  /\ Only(s, S) = f[Len(s)]

\* Only is such a filter.
LEMMA OnlyRuns ==
  ASSUME NEW T, NEW s \in Seq(T), NEW S
  PROVE  \E f : Filters(f, s, S, T)
<1>. DEFINE n == Len(s)
            V == Seq(T)
            Step(i, v) == IF s[i] \in S THEN Append(v, s[i]) ELSE v
            G == [i \in 0 .. n |-> [v \in V |-> IF i = 0 THEN v ELSE Step(i, v)]]
            v0 == <<>>
            Whole(f) == f = [i \in 0 .. n |->
                               IF i = 0 THEN <<>>
                               ELSE IF s[i] \in S THEN Append(f[i - 1], s[i]) ELSE f[i - 1]]
            kept == CHOOSE f : Whole(f)
<1>1. n \in Nat /\ \A i \in 1 .. n : s[i] \in T
  BY LenProperties, ElementOfSeq
<1>2. v0 \in V
  BY EmptySeq
<1>3. \A i \in 1 .. n : \A v \in V : Step(i, v) \in V
  BY <1>1, AppendProperties
<1>4. G \in [0 .. n -> [V -> V]]
  <2>. SUFFICES ASSUME NEW i \in 0 .. n, NEW v \in V
                PROVE  (IF i = 0 THEN v ELSE Step(i, v)) \in V
    OBVIOUS
  <2>1. i = 0 \/ i \in 1 .. n
    BY <1>1
  <2>. HIDE DEF V, Step, n
  <2>2. QED BY <1>3, <2>1
<1>5. G[0][v0] = v0 /\ \A i \in 1 .. n : \A v \in V : G[i][v] = Step(i, v)
  <2>. HIDE DEF Step, V, v0
  <2>1. QED BY <1>1, <1>2
<1>6. PICK w : Follows(w, n, V, v0, G)
  <2>. HIDE DEF n, V, v0, G
  <2>1. QED BY <1>1, <1>2, <1>4, RecursionTo
<1>7. /\ w \in [0 .. n -> V] /\ w[0] = v0
      /\ \A i \in 1 .. n : w[i] = Step(i, w[i - 1])
  <2>1. w \in [0 .. n -> V] /\ w[0] = G[0][v0] /\ \A i \in 1 .. n : w[i] = G[i][w[i - 1]]
    BY <1>6 DEF Follows
  <2>. HIDE DEF G, v0, V, n, Step
  <2>2. \A i \in 1 .. n : w[i - 1] \in V
    BY <1>1, <2>1
  <2>3. QED BY <1>5, <2>1, <2>2
<1>8. Whole(w)
  <2>1. ASSUME NEW i \in 0 .. n
        PROVE  w[i] = IF i = 0 THEN <<>> ELSE Step(i, w[i - 1])
    <3>1. i # 0 => i \in 1 .. n
      BY <1>1
    <3>. HIDE DEF n, Step
    <3>2. QED BY <1>7, <3>1
  <2>2. QED BY <1>7, <2>1
<1>9. Whole(kept)
  BY <1>8
<1>10. Only(s, S) = kept[n]
  BY DEF Only
<1>. HIDE DEF kept
<1>11. DOMAIN kept = 0 .. n /\ \A i \in 0 .. n : kept[i] = IF i = 0 THEN <<>> ELSE Step(i, kept[i - 1])
  BY <1>9
<1>12. \A i \in 0 .. n : kept[i] = w[i]
  <2>. DEFINE Same == {i \in 0 .. n : kept[i] = w[i]}
  <2>1. 0 \in Same
    BY <1>1, <1>7, <1>11
  <2>2. ASSUME NEW k \in 0 .. n - 1, k \in Same  PROVE k + 1 \in Same
    <3>1. k + 1 \in 1 .. n /\ k + 1 \in 0 .. n /\ (k + 1) - 1 = k /\ k + 1 # 0
      BY <1>1
    <3>. HIDE DEF Step
    <3>2. QED BY <1>7, <1>11, <2>2, <3>1
  <2>. HIDE DEF Same
  <2>3. 0 .. n \subseteq Same
    BY <1>1, <2>1, <2>2, SetInductionTo
  <2>4. QED BY <2>3 DEF Same
<1>13. Only(s, S) = w[n]
  BY <1>1, <1>10, <1>12
<1>14. QED BY <1>7, <1>13 DEF Filters

\* The elements of t = Only(s, S) are those of s at the places g, in the same order.
Picked(g, t, s, S) ==
  /\ g \in [DOMAIN t -> DOMAIN s]
  /\ \A k, m \in DOMAIN t : k < m => g[k] < g[m]
  /\ \A k \in DOMAIN t : t[k] = s[g[k]] /\ t[k] \in S
  /\ \A j \in DOMAIN s : s[j] \in S => \E k \in DOMAIN t : g[k] = j

\* The positions that are left, in their order.
LEMMA OnlyPicks ==
  ASSUME NEW T, NEW s \in Seq(T), NEW S
  PROVE  Only(s, S) \in Seq(T) /\ \E g : Picked(g, Only(s, S), s, S)
<1>1. PICK f : Filters(f, s, S, T)
  BY OnlyRuns
<1>. DEFINE n == Len(s)
            Upto(g, i) == /\ g \in [DOMAIN f[i] -> 1 .. i]
                          /\ \A k, m \in DOMAIN f[i] : k < m => g[k] < g[m]
                          /\ \A k \in DOMAIN f[i] : f[i][k] = s[g[k]] /\ f[i][k] \in S
                          /\ \A j \in 1 .. i : s[j] \in S => \E k \in DOMAIN f[i] : g[k] = j
            Good == {i \in 0 .. n : \E g : Upto(g, i)}
<1>2. n \in Nat /\ DOMAIN s = 1 .. n /\ \A i \in 1 .. n : s[i] \in T
  BY LenProperties, ElementOfSeq
<1>3. /\ f[0] = <<>> /\ \A i \in 0 .. n : f[i] \in Seq(T)
      /\ \A i \in 1 .. n : f[i] = IF s[i] \in S THEN Append(f[i - 1], s[i]) ELSE f[i - 1]
      /\ Only(s, S) = f[n]
  BY <1>1 DEF Filters
<1>. HIDE DEF n
<1>4. 0 \in Good
  <2>1. Upto(<<>>, 0)
    BY <1>3
  <2>. HIDE DEF Upto
  <2>2. \E g : Upto(g, 0)
    BY <2>1
  <2>3. QED BY <1>2, <2>2
<1>5. ASSUME NEW i \in 0 .. n - 1, i \in Good  PROVE i + 1 \in Good
  <2>1. i + 1 \in 1 .. n /\ i \in 0 .. n /\ i + 1 \in 0 .. n /\ (i + 1) - 1 = i /\ i \in Nat
    BY <1>2
  <2>2. PICK g : Upto(g, i)
    BY <1>5
  <2>. DEFINE t == f[i]
              x == s[i + 1]
              l == Len(t)
  <2>3. t \in Seq(T) /\ x \in T /\ l \in Nat /\ DOMAIN t = 1 .. l
    BY <1>2, <1>3, <2>1, LenProperties
  <2>4. CASE x \notin S
    <3>1. f[i + 1] = f[i]
      BY <1>3, <2>1, <2>4
    <3>2. \A j \in 1 .. i + 1 : j \in 1 .. i \/ j = i + 1
      BY <2>1
    <3>3. g \in [DOMAIN f[i] -> 1 .. i + 1]
      BY <2>1, <2>2
    <3>4. \A j \in 1 .. i + 1 : s[j] \in S => \E k \in DOMAIN f[i] : g[k] = j
      BY <2>2, <2>4, <3>2
    <3>5. Upto(g, i + 1)
      BY <2>2, <3>1, <3>3, <3>4
    <3>6. QED BY <2>1, <3>5
  <2>5. CASE x \in S
    <3>. DEFINE u == f[i + 1]
                h == [k \in 1 .. l + 1 |-> IF k <= l THEN g[k] ELSE i + 1]
    <3>1. u = Append(t, x)
      BY <1>3, <2>1, <2>5
    <3>2. g \in [1 .. l -> 1 .. i]
      BY <2>2, <2>3
    <3>. HIDE DEF t, x, l, u
    <3>3. /\ DOMAIN u = 1 .. l + 1 /\ u[l + 1] = x
          /\ \A k \in 1 .. l : u[k] = t[k]
      BY <2>3, <3>1, AppendProperties, LenProperties DEF l
    <3>4. \A k \in 1 .. l + 1 : k \in 1 .. l \/ k = l + 1
      BY <2>3
    <3>5. h \in [1 .. l + 1 -> 1 .. i + 1]
      BY <2>1, <2>3, <3>2, <3>4
    <3>6. (\A k \in 1 .. l : h[k] = g[k] /\ g[k] \in 1 .. i) /\ h[l + 1] = i + 1
      BY <2>3, <3>2
    <3>. HIDE DEF h
    <3>7. \A k, m \in 1 .. l + 1 : k < m => h[k] < h[m]
      <4>. SUFFICES ASSUME NEW k \in 1 .. l + 1, NEW m \in 1 .. l + 1, k < m  PROVE h[k] < h[m]
        OBVIOUS
      <4>1. k \in 1 .. l
        BY <2>3
      <4>2. CASE m \in 1 .. l
        BY <2>2, <2>3, <3>6, <4>1, <4>2 DEF t
      <4>3. CASE m = l + 1
        BY <2>1, <3>6, <4>1, <4>3
      <4>4. QED BY <3>4, <4>2, <4>3
    <3>8. \A k \in 1 .. l + 1 : u[k] = s[h[k]] /\ u[k] \in S
      <4>1. \A k \in 1 .. l : t[k] = s[g[k]] /\ t[k] \in S
        BY <2>2, <2>3 DEF t
      <4>2. QED BY <2>5, <3>3, <3>4, <3>6, <4>1 DEF x
    <3>9. \A j \in 1 .. i + 1 : s[j] \in S => \E k \in 1 .. l + 1 : h[k] = j
      <4>. SUFFICES ASSUME NEW j \in 1 .. i + 1, s[j] \in S  PROVE \E k \in 1 .. l + 1 : h[k] = j
        OBVIOUS
      <4>1. CASE j \in 1 .. i
        <5>1. PICK k \in 1 .. l : g[k] = j
          BY <2>2, <2>3, <4>1 DEF t
        <5>2. k \in 1 .. l + 1 /\ h[k] = j
          BY <2>3, <3>6, <5>1
        <5>3. QED BY <5>2
      <4>2. CASE j = i + 1
        BY <2>3, <3>6, <4>2
      <4>3. QED BY <2>1, <4>1, <4>2
    <3>10. Upto(h, i + 1)
      BY <3>3, <3>5, <3>7, <3>8, <3>9 DEF u
    <3>11. QED BY <2>1, <3>10
  <2>6. QED BY <2>4, <2>5
<1>. HIDE DEF Good
<1>6. 0 .. n \subseteq Good
  BY <1>2, <1>4, <1>5, SetInductionTo
<1>7. PICK g : Upto(g, n)
  BY <1>2, <1>6 DEF Good
<1>8. Picked(g, Only(s, S), s, S)
  BY <1>2, <1>3, <1>7 DEF Picked
<1>9. QED BY <1>2, <1>3, <1>8

\* What is left are the elements that are in S, and it repeats none that s does not.
LEMMA InOnly ==
  ASSUME NEW T, NEW s \in Seq(T), NEW S
  PROVE  /\ Only(s, S) \in Seq(T)
         /\ \A x : InSeq(Only(s, S), x) <=> InSeq(s, x) /\ x \in S
         /\ Distinct(s) => Distinct(Only(s, S))
<1>. DEFINE t == Only(s, S)
<1>1. t \in Seq(T)
  BY OnlyPicks
<1>2. PICK g : Picked(g, t, s, S)
  BY OnlyPicks
<1>3. DOMAIN t = 1 .. Len(t) /\ Len(t) \in Nat /\ DOMAIN s = 1 .. Len(s) /\ Len(s) \in Nat
  BY <1>1, LenProperties
<1>. HIDE DEF t
<1>4. \A x : InSeq(t, x) <=> InSeq(s, x) /\ x \in S
  BY <1>2 DEF Picked, InSeq
<1>5. ASSUME Distinct(s)  PROVE Distinct(t)
  <2>. SUFFICES ASSUME NEW k \in DOMAIN t, NEW m \in DOMAIN t, t[k] = t[m]  PROVE k = m
    BY DEF Distinct
  <2>1. g[k] = g[m] /\ g[k] \in DOMAIN s /\ g[m] \in DOMAIN s
    BY <1>2, <1>5 DEF Picked, Distinct
  <2>2. k \in Nat /\ m \in Nat /\ g[k] \in Nat /\ g[m] \in Nat
    BY <1>3, <2>1
  <2>3. ~(g[k] < g[m]) /\ ~(g[m] < g[k])
    BY <2>1, <2>2
  <2>4. ~(k < m) /\ ~(m < k)
    BY <1>2, <2>3 DEF Picked
  <2>5. QED BY <2>2, <2>4
<1>6. QED BY <1>1, <1>4, <1>5 DEF t

\* One more element.
LEMMA OnlyAppend ==
  ASSUME NEW T, NEW s \in Seq(T), NEW x \in T, NEW S
  PROVE  Only(Append(s, x), S) = IF x \in S THEN Append(Only(s, S), x) ELSE Only(s, S)
<1>. DEFINE u == Append(s, x)
            n == Len(s)
<1>1. /\ n \in Nat /\ u \in Seq(T) /\ Len(u) = n + 1 /\ u[n + 1] = x
      /\ \A i \in 1 .. n : u[i] = s[i]
  BY AppendProperties, LenProperties
<1>. HIDE DEF u
<1>2. PICK f : Filters(f, s, S, T)
  BY OnlyRuns
<1>3. PICK h : Filters(h, u, S, T)
  BY <1>1, OnlyRuns
<1>4. /\ f[0] = <<>> /\ Only(s, S) = f[n]
      /\ \A i \in 1 .. n : f[i] = IF s[i] \in S THEN Append(f[i - 1], s[i]) ELSE f[i - 1]
  BY <1>2 DEF Filters
<1>5. /\ h[0] = <<>> /\ Only(u, S) = h[n + 1]
      /\ \A i \in 1 .. n + 1 : h[i] = IF u[i] \in S THEN Append(h[i - 1], u[i]) ELSE h[i - 1]
  BY <1>1, <1>3 DEF Filters
<1>. DEFINE Same == {i \in 0 .. n : h[i] = f[i]}
<1>. HIDE DEF n
<1>6. 0 \in Same
  BY <1>1, <1>4, <1>5
<1>7. ASSUME NEW i \in 0 .. n - 1, i \in Same  PROVE i + 1 \in Same
  <2>1. i + 1 \in 1 .. n /\ i + 1 \in 0 .. n /\ i + 1 \in 1 .. n + 1 /\ (i + 1) - 1 = i
    BY <1>1
  <2>2. QED BY <1>1, <1>4, <1>5, <1>7, <2>1
<1>. HIDE DEF Same
<1>8. 0 .. n \subseteq Same
  BY <1>1, <1>6, <1>7, SetInductionTo
<1>9. h[n] = f[n]
  BY <1>1, <1>8 DEF Same
<1>10. n + 1 \in 1 .. n + 1 /\ (n + 1) - 1 = n
  BY <1>1
<1>11. h[n + 1] = IF x \in S THEN Append(h[n], x) ELSE h[n]
  BY <1>1, <1>5, <1>10
<1>12. QED BY <1>4, <1>5, <1>9, <1>11 DEF u

\* Nothing is left of nothing.
LEMMA OnlyNothing == \A S : Only(<<>>, S) = <<>>
<1>. TAKE S
<1>1. <<>> \in Seq({}) /\ Len(<<>>) = 0
  BY EmptySeq
<1>2. PICK f : Filters(f, <<>>, S, {})
  BY <1>1, OnlyRuns
<1>3. QED BY <1>1, <1>2 DEF Filters

\* Filtered twice, or once by a test that agrees with both.
LEMMA OnlyOnly ==
  ASSUME NEW T, NEW s \in Seq(T), NEW A, NEW B, NEW C,
         \A x : InSeq(s, x) => (x \in C <=> x \in A /\ x \in B)
  PROVE  Only(Only(s, A), B) = Only(s, C)
<1>. DEFINE n == Len(s)
<1>1. n \in Nat /\ DOMAIN s = 1 .. n /\ \A i \in 1 .. n : s[i] \in T
  BY LenProperties, ElementOfSeq
<1>2. PICK f : Filters(f, s, A, T)
  BY OnlyRuns
<1>3. PICK h : Filters(h, s, C, T)
  BY OnlyRuns
<1>4. /\ f[0] = <<>> /\ Only(s, A) = f[n] /\ \A i \in 0 .. n : f[i] \in Seq(T)
      /\ \A i \in 1 .. n : f[i] = IF s[i] \in A THEN Append(f[i - 1], s[i]) ELSE f[i - 1]
  BY <1>2 DEF Filters
<1>5. /\ h[0] = <<>> /\ Only(s, C) = h[n]
      /\ \A i \in 1 .. n : h[i] = IF s[i] \in C THEN Append(h[i - 1], s[i]) ELSE h[i - 1]
  BY <1>3 DEF Filters
<1>. DEFINE Same == {i \in 0 .. n : Only(f[i], B) = h[i]}
<1>. HIDE DEF n
<1>6. 0 \in Same
  BY <1>1, <1>4, <1>5, OnlyNothing
<1>7. ASSUME NEW i \in 0 .. n - 1, i \in Same  PROVE i + 1 \in Same
  <2>1. i + 1 \in 1 .. n /\ i + 1 \in 0 .. n /\ i \in 0 .. n /\ (i + 1) - 1 = i
    BY <1>1
  <2>. DEFINE x == s[i + 1]
              v == f[i]
  <2>2. x \in T /\ v \in Seq(T) /\ Only(v, B) = h[i] /\ (x \in C <=> x \in A /\ x \in B)
    BY <1>1, <1>4, <1>7, <2>1 DEF InSeq
  <2>3. f[i + 1] = IF x \in A THEN Append(v, x) ELSE v
    BY <1>4, <2>1
  <2>4. h[i + 1] = IF x \in C THEN Append(h[i], x) ELSE h[i]
    BY <1>5, <2>1
  <2>. HIDE DEF x, v
  <2>5. Only(Append(v, x), B) = IF x \in B THEN Append(Only(v, B), x) ELSE Only(v, B)
    BY <2>2, OnlyAppend
  <2>6. Only(f[i + 1], B) = h[i + 1]
    BY <2>2, <2>3, <2>4, <2>5
  <2>7. QED BY <2>1, <2>6
<1>. HIDE DEF Same
<1>8. 0 .. n \subseteq Same
  BY <1>1, <1>6, <1>7, SetInductionTo
<1>9. QED BY <1>1, <1>4, <1>5, <1>8 DEF Same

\* Two tests that agree on the elements of s leave the same.
LEMMA OnlySame ==
  ASSUME NEW T, NEW s \in Seq(T), NEW A, NEW B,
         \A x : InSeq(s, x) => (x \in A <=> x \in B)
  PROVE  Only(s, A) = Only(s, B)
<1>1. \A x : InSeq(s, x) => x \in T
  BY InSeqType
<1>2. Only(Only(s, T), A) = Only(s, A) /\ Only(Only(s, T), A) = Only(s, B)
  <2>1. \A x : InSeq(s, x) => (x \in A <=> x \in T /\ x \in A)
    BY <1>1
  <2>2. \A x : InSeq(s, x) => (x \in B <=> x \in T /\ x \in A)
    BY <1>1
  <2>3. Only(Only(s, T), A) = Only(s, A)
    BY <2>1, OnlyOnly
  <2>4. Only(Only(s, T), A) = Only(s, B)
    BY <2>2, OnlyOnly
  <2>5. QED BY <2>3, <2>4
<1>3. QED BY <1>2
=============================================================================
