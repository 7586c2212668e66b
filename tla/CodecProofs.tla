----------------------------- MODULE CodecProofs -----------------------------
(***************************************************************************)
(* Proofs about the bytes of a call, for all values of the constants: a    *)
(* request arrives as it was made and a response as it was answered,       *)
(* however long the content or the list is and wherever partitions cut it. *)
(***************************************************************************)
EXTENDS Codec, SequenceTheorems, FiniteSetTheorems, WellFoundedInduction, TLAPS

\* Induction over data

\* A set of numbers has a least one.
LEMMA Least ==
  ASSUME NEW T \in SUBSET Nat, T # {}
  PROVE  \E m \in T : \A n \in T : m <= n
<1>1. IsWellFoundedOn(OpToRel(<,Nat), Nat)
  BY NatLessThanWellFounded
<1>2. PICK m \in T : \A n \in T : <<n, m>> \notin OpToRel(<,Nat)
  BY <1>1, WFMin
<1>3. \A n \in T : ~ n < m
  BY <1>2 DEF OpToRel
<1>4. QED
  BY <1>3

\* Induction over the natural numbers, for the set of those with a property
LEMMA Induction ==
  ASSUME NEW S, 0 \in S, \A n \in Nat : n \in S => n + 1 \in S
  PROVE  Nat \subseteq S
<1>. DEFINE T == Nat \ S
<1>1. SUFFICES ASSUME T # {}
               PROVE  FALSE
  OBVIOUS
<1>2. PICK m \in T : \A n \in T : m <= n
  BY <1>1, Least
<1>3. m - 1 \in Nat
  BY <1>2
<1>4. QED
  BY <1>2, <1>3

-----------------------------------------------------------------------------
\* FlattenSeq

LEMMA SeqLen ==
  ASSUME NEW S, NEW s \in Seq(S)
  PROVE  Len(s) \in Nat /\ (s = <<>> <=> Len(s) = 0)
<1>1. s = <<>> => Len(s) = 0
  BY EmptySeq
<1>2. s # <<>> => Len(s) \in Nat \ {0}
  BY EmptySeq
<1>3. QED
  BY <1>1, <1>2

\* The function that FlattenSeq recurses over, as far as n
Turns(f, s, n) == f = [i \in 1 .. n |-> IF i = 1 THEN s[i] ELSE f[i - 1] \o s[i]]

LEMMA TurnsAt ==
  ASSUME NEW f, NEW s, NEW n \in Nat, Turns(f, s, n), NEW i \in 1 .. n
  PROVE  f[i] = IF i = 1 THEN s[i] ELSE f[i - 1] \o s[i]
<1>. DEFINE g == [j \in 1 .. n |-> IF j = 1 THEN s[j] ELSE f[j - 1] \o s[j]]
<1>1. f = g
  BY DEF Turns
<1>2. g[i] = IF i = 1 THEN s[i] ELSE f[i - 1] \o s[i]
  OBVIOUS
<1>3. QED
  <2>. HIDE DEF g
  <2>1. QED
    BY <1>1, <1>2

LEMMA TurnsExist ==
  ASSUME NEW s, NEW n \in Nat
  PROVE  \E f : Turns(f, s, n)
<1>. DEFINE P == {k \in Nat : \E f : Turns(f, s, k)}
<1>1. 0 \in P
  <2>1. Turns([i \in 1 .. 0 |-> 0], s, 0)
    BY DEF Turns
  <2>2. QED
    BY <2>1
<1>2. ASSUME NEW k \in Nat, k \in P
      PROVE  k + 1 \in P
  <2>1. PICK f : Turns(f, s, k)
    BY <1>2
  <2>. DEFINE g == [i \in 1 .. k + 1 |-> IF i = 1 THEN s[i] ELSE f[i - 1] \o s[i]]
  <2>2. ASSUME NEW i \in 1 .. k
        PROVE  g[i] = f[i]
    BY <2>1, TurnsAt
  <2>3. ASSUME NEW i \in 1 .. k + 1, i # 1
        PROVE  f[i - 1] = g[i - 1]
    <3>1. i - 1 \in 1 .. k
      BY <2>3
    <3>2. QED
      BY <2>2, <3>1
  <2>4. Turns(g, s, k + 1)
    BY <2>3 DEF Turns
  <2>5. QED
    BY <2>4
<1>3. Nat \subseteq P
  <2>. HIDE DEF P
  <2>1. QED
    BY <1>1, <1>2, Induction
<1>4. QED
  BY <1>3

\* Two such functions agree as far as both go, if the sequences do.
LEMMA TurnsAgree ==
  ASSUME NEW f, NEW g, NEW s, NEW t, NEW m \in Nat, NEW n \in Nat, m <= n,
         Turns(f, s, m), Turns(g, t, n), \A i \in 1 .. m : s[i] = t[i]
  PROVE  \A i \in 1 .. m : f[i] = g[i]
<1>. DEFINE P == {k \in Nat : k \in 1 .. m => f[k] = g[k]}
<1>1. 0 \in P
  OBVIOUS
<1>2. ASSUME NEW k \in Nat, k \in P
      PROVE  k + 1 \in P
  <2>1. SUFFICES ASSUME k + 1 \in 1 .. m
                 PROVE  f[k + 1] = g[k + 1]
    OBVIOUS
  <2>2. f[k + 1] = IF k + 1 = 1 THEN s[k + 1] ELSE f[k] \o s[k + 1]
    BY <2>1, TurnsAt
  <2>3. g[k + 1] = IF k + 1 = 1 THEN t[k + 1] ELSE g[k] \o t[k + 1]
    BY <2>1, TurnsAt
  <2>4. k # 0 => k \in 1 .. m
    BY <2>1
  <2>5. QED
    BY <1>2, <2>1, <2>2, <2>3, <2>4
<1>3. Nat \subseteq P
  <2>. HIDE DEF P
  <2>1. QED
    BY <1>1, <1>2, Induction
<1>4. QED
  BY <1>3

LEMMA FlattenTurns ==
  ASSUME NEW s, Len(s) \in Nat, Len(s) # 0
  PROVE  \E f : Turns(f, s, Len(s)) /\ FlattenSeq(s) = f[Len(s)]
<1>1. FlattenSeq(s) = (CHOOSE f : Turns(f, s, Len(s)))[Len(s)]
  BY DEF FlattenSeq, Turns
<1>2. QED
  BY <1>1, TurnsExist

LEMMA FlattenEmpty == FlattenSeq(<<>>) = <<>>
BY DEF FlattenSeq

LEMMA FlattenAppend ==
  ASSUME NEW T, NEW s \in Seq(T), NEW x \in T
  PROVE  FlattenSeq(Append(s, x)) = IF s = <<>> THEN x ELSE FlattenSeq(s) \o x
<1>1. PICK n \in Nat : Len(s) = n
  BY LenProperties
<1>2. PICK t \in Seq(T) :
        t = Append(s, x) /\ Len(t) = n + 1 /\ t[n + 1] = x /\ \A i \in 1 .. n : t[i] = s[i]
  <2>1. PICK t : t = Append(s, x)
    OBVIOUS
  <2>2. t \in Seq(T) /\ Len(t) = n + 1 /\ t[n + 1] = x
    BY <1>1, <2>1, AppendProperties
  <2>3. \A i \in 1 .. n : t[i] = s[i]
    BY <1>1, <2>1, AppendProperties
  <2>4. QED
    BY <2>1, <2>2, <2>3
<1>3. PICK g : Turns(g, t, n + 1) /\ FlattenSeq(t) = g[n + 1]
  <2>1. Len(t) \in Nat /\ Len(t) # 0
    BY <1>2
  <2>2. PICK g : Turns(g, t, Len(t)) /\ FlattenSeq(t) = g[Len(t)]
    BY <2>1, FlattenTurns
  <2>3. QED
    BY <1>2, <2>2
<1>4. g[n + 1] = IF n + 1 = 1 THEN t[n + 1] ELSE g[n + 1 - 1] \o t[n + 1]
  <2>1. n + 1 \in Nat /\ n + 1 \in 1 .. n + 1
    OBVIOUS
  <2>2. QED
    BY <1>3, <2>1, TurnsAt
<1>5. g[n + 1] = IF n = 0 THEN x ELSE g[n] \o x
  BY <1>2, <1>4
<1>6. CASE s = <<>>
  <2>1. n = 0
    BY <1>1, <1>6, EmptySeq
  <2>2. QED
    BY <1>2, <1>3, <1>5, <1>6, <2>1
<1>7. CASE s # <<>>
  <2>1. n # 0
    BY <1>1, <1>7, EmptySeq
  <2>2. PICK f : Turns(f, s, n) /\ FlattenSeq(s) = f[n]
    BY <1>1, <2>1, FlattenTurns
  <2>3. \A i \in 1 .. n : s[i] = t[i]
    BY <1>2
  <2>4. \A i \in 1 .. n : f[i] = g[i]
    BY <1>3, <2>2, <2>3, TurnsAgree
  <2>5. f[n] = g[n]
    BY <2>1, <2>4
  <2>6. QED
    BY <1>2, <1>3, <1>5, <1>7, <2>1, <2>2, <2>5
<1>8. QED
  BY <1>6, <1>7

\* T is a set of sequences over S.
Over(T, S) == T \subseteq Seq(S)

LEMMA OverType ==
  ASSUME NEW S, NEW T, Over(T, S), NEW x \in T
  PROVE  x \in Seq(S)
BY DEF Over

LEMMA FlattenType ==
  ASSUME NEW S, NEW T, Over(T, S), NEW s \in Seq(T)
  PROVE  FlattenSeq(s) \in Seq(S)
<1>. DEFINE P == {k \in Nat : \A t \in Seq(T) : Len(t) = k => FlattenSeq(t) \in Seq(S)}
<1>1. 0 \in P
  BY FlattenEmpty, EmptySeq, SeqLen
<1>2. ASSUME NEW k \in Nat, k \in P
      PROVE  k + 1 \in P
  <2>1. SUFFICES ASSUME NEW t \in Seq(T), Len(t) = k + 1
                 PROVE  FlattenSeq(t) \in Seq(S)
    OBVIOUS
  <2>2. t # <<>>
    BY <2>1
  <2>3. PICK u \in Seq(T), x \in T : t = Append(u, x)
    BY <2>2, SequenceEmptyOrAppend
  <2>4. Len(u) = k
    BY <2>1, <2>3, AppendProperties, LenProperties
  <2>5. FlattenSeq(u) \in Seq(S) /\ x \in Seq(S)
    BY <1>2, <2>4, OverType
  <2>6. FlattenSeq(t) = IF u = <<>> THEN x ELSE FlattenSeq(u) \o x
    BY <2>3, FlattenAppend
  <2>7. QED
    BY <2>5, <2>6, ConcatProperties
<1>3. Nat \subseteq P
  <2>. HIDE DEF P
  <2>1. QED
    BY <1>1, <1>2, Induction
<1>4. QED
  BY <1>3, LenProperties

LEMMA FlattenConcat ==
  ASSUME NEW S, NEW T, Over(T, S), NEW s \in Seq(T), NEW x \in T
  PROVE  FlattenSeq(Append(s, x)) = FlattenSeq(s) \o x
<1>1. x \in Seq(S)
  BY OverType
<1>2. <<>> \o x = x
  BY <1>1, ConcatEmptySeq
<1>3. QED
  BY <1>2, FlattenAppend, FlattenEmpty

\* Concatenation, without what the provers know of it
Cat(a, b) == a \o b

LEMMA CatAssociative ==
  ASSUME NEW S, NEW a \in Seq(S), NEW b \in Seq(S), NEW c \in Seq(S)
  PROVE  Cat(Cat(a, b), c) = Cat(a, Cat(b, c))
BY ConcatAssociative DEF Cat

LEMMA CatFlatten ==
  ASSUME NEW S, NEW T, Over(T, S), NEW s \in Seq(T), NEW x \in T
  PROVE  FlattenSeq(Append(s, x)) = Cat(FlattenSeq(s), x)
BY FlattenConcat DEF Cat

LEMMA CatFirst ==
  ASSUME NEW S, NEW T, Over(T, S), NEW u \in Seq(T), NEW x \in T,
         NEW h \in T, NEW t \in Seq(T), FlattenSeq(u) = Cat(h, FlattenSeq(t))
  PROVE  FlattenSeq(Append(u, x)) = Cat(h, FlattenSeq(Append(t, x)))
<1>1. PICK b \in Seq(S) : b = FlattenSeq(t)
  BY FlattenType
<1>2. h \in Seq(S) /\ x \in Seq(S)
  BY OverType
<1>3. Cat(Cat(h, b), x) = Cat(h, Cat(b, x))
  BY <1>2, CatAssociative
<1>4. FlattenSeq(Append(u, x)) = Cat(FlattenSeq(u), x) /\ FlattenSeq(Append(t, x)) = Cat(b, x)
  BY <1>1, CatFlatten
<1>5. QED
  BY <1>1, <1>3, <1>4

\* The first of the sequences comes first.
LEMMA FlattenFirst ==
  ASSUME NEW S, NEW T, Over(T, S), NEW s \in Seq(T), s # <<>>
  PROVE  FlattenSeq(s) = Head(s) \o FlattenSeq(Tail(s))
<1>. DEFINE P == {k \in Nat : \A t \in Seq(T) :
                    Len(t) = k /\ t # <<>> => FlattenSeq(t) = Cat(Head(t), FlattenSeq(Tail(t)))}
<1>1. 0 \in P
  BY SeqLen
<1>2. ASSUME NEW k \in Nat, k \in P
      PROVE  k + 1 \in P
  <2>1. SUFFICES ASSUME NEW t \in Seq(T), Len(t) = k + 1, t # <<>>
                 PROVE  FlattenSeq(t) = Cat(Head(t), FlattenSeq(Tail(t)))
    OBVIOUS
  <2>2. PICK u \in Seq(T), x \in T : t = Append(u, x)
    BY <2>1, SequenceEmptyOrAppend
  <2>3. Len(u) = k
    <3>1. Len(t) = Len(u) + 1 /\ Len(u) \in Nat
      BY <2>2, AppendProperties, LenProperties
    <3>2. QED
      BY <2>1, <3>1
  <2>4. CASE u = <<>>
    <3>1. Head(t) = x /\ Tail(t) = <<>>
      BY <2>2, <2>4, HeadTailAppend
    <3>2. FlattenSeq(t) = x
      BY <2>2, <2>4, FlattenAppend
    <3>3. Cat(x, <<>>) = x
      BY OverType, ConcatEmptySeq DEF Cat
    <3>4. QED
      BY <3>1, <3>2, <3>3, FlattenEmpty
  <2>5. CASE u # <<>>
    <3>1. Head(t) = Head(u) /\ Tail(t) = Append(Tail(u), x)
      BY <2>2, <2>5, HeadTailAppend
    <3>2. FlattenSeq(u) = Cat(Head(u), FlattenSeq(Tail(u)))
      BY <1>2, <2>3, <2>5
    <3>3. PICK h \in T, r \in Seq(T) : h = Head(u) /\ r = Tail(u)
      BY <2>5, HeadTailProperties
    <3>4. FlattenSeq(u) = Cat(h, FlattenSeq(r))
      BY <3>2, <3>3
    <3>5. FlattenSeq(Append(u, x)) = Cat(h, FlattenSeq(Append(r, x)))
      BY <3>4, CatFirst
    <3>6. QED
      BY <2>2, <3>1, <3>3, <3>5
  <2>6. QED
    BY <2>4, <2>5
<1>3. Nat \subseteq P
  <2>. HIDE DEF P
  <2>1. QED
    BY <1>1, <1>2, Induction
<1>4. Len(s) \in Nat
  BY SeqLen
<1>5. QED
  BY <1>3, <1>4 DEF Cat

-----------------------------------------------------------------------------
\* Parts of sequences

\* A sequence is known by its length and its elements.
LEMMA SameSeq ==
  ASSUME NEW S, NEW s \in Seq(S), NEW t \in Seq(S), NEW n \in Nat, Len(s) = n, Len(t) = n,
         \A i \in 1 .. n : s[i] = t[i]
  PROVE  s = t
BY SeqEqual

\* s has n elements after the first o ones, and x are these.
Fits(s, o, n) == o + n <= Len(s)
IsPart(x, s, o, n) == Fits(s, o, n) /\ Len(x) = n /\ \A i \in 1 .. n : x[i] = s[o + i]

LEMMA GetType ==
  ASSUME NEW S, NEW s \in Seq(S), NEW o \in Nat, NEW n \in Nat, Fits(s, o, n)
  PROVE  Get(s, o, n) \in Seq(S) /\ IsPart(Get(s, o, n), s, o, n)
<1>1. PICK len \in Nat : len = Len(s) /\ \A i \in 1 .. len : s[i] \in S
  BY SeqLen, ElementOfSeq
<1>2. PICK l \in Int, r \in Int : l = o + 1 /\ r = o + n
  OBVIOUS
<1>3. \A i \in l .. r : s[i] \in S
  BY <1>1, <1>2 DEF Fits
<1>4. PICK x : x = SubSeq(s, l, r)
  OBVIOUS
<1>5. /\ x \in Seq(S) /\ Len(x) = IF l <= r THEN r - l + 1 ELSE 0
      /\ \A i \in 1 .. r - l + 1 : x[i] = s[l + i - 1]
  BY <1>3, <1>4, SubSeqProperties
<1>6. Len(x) = n
  BY <1>2, <1>5
<1>7. ASSUME NEW i \in 1 .. n
      PROVE  x[i] = s[o + i]
  <2>1. i \in 1 .. r - l + 1 /\ l + i - 1 = o + i
    BY <1>2
  <2>2. QED
    BY <1>5, <2>1
<1>8. x = Get(s, o, n)
  BY <1>2, <1>4 DEF Get
<1>9. QED
  BY <1>5, <1>6, <1>7, <1>8 DEF IsPart

LEMMA GetOf ==
  ASSUME NEW S, NEW s \in Seq(S), NEW o \in Nat, NEW n \in Nat, NEW x \in Seq(S),
         IsPart(x, s, o, n)
  PROVE  Get(s, o, n) = x
<1>1. Fits(s, o, n)
  BY DEF IsPart
<1>2. PICK y \in Seq(S) : y = Get(s, o, n) /\ IsPart(y, s, o, n)
  BY <1>1, GetType
<1>3. Len(x) = n /\ Len(y) = n /\ \A i \in 1 .. n : y[i] = x[i]
  BY <1>2 DEF IsPart
<1>4. y = x
  BY <1>3, SameSeq
<1>5. QED
  BY <1>2, <1>4

LEMMA GetAll ==
  ASSUME NEW S, NEW s \in Seq(S)
  PROVE  Get(s, 0, Len(s)) = s
<1>1. PICK n \in Nat : n = Len(s)
  BY SeqLen
<1>2. IsPart(s, s, 0, n)
  BY <1>1 DEF IsPart, Fits
<1>3. Get(s, 0, n) = s
  BY <1>2, GetOf
<1>4. QED
  BY <1>1, <1>3

LEMMA GetGet ==
  ASSUME NEW S, NEW s \in Seq(S), NEW o \in Nat, NEW n \in Nat, Fits(s, o, n),
         NEW p \in Nat, NEW m \in Nat, p + m <= n
  PROVE  Get(Get(s, o, n), p, m) = Get(s, o + p, m)
<1>1. PICK t \in Seq(S) : t = Get(s, o, n) /\ IsPart(t, s, o, n)
  BY GetType
<1>2. PICK q \in Nat : q = o + p
  OBVIOUS
<1>3. Fits(s, q, m)
  <2>1. PICK len \in Nat : len = Len(s)
    BY SeqLen
  <2>2. QED
    BY <1>2, <2>1 DEF Fits
<1>4. PICK x \in Seq(S) : x = Get(s, q, m) /\ IsPart(x, s, q, m)
  BY <1>3, GetType
<1>5. ASSUME NEW i \in 1 .. m
      PROVE  x[i] = t[p + i]
  <2>1. p + i \in 1 .. n /\ o + (p + i) = q + i
    BY <1>2
  <2>2. t[p + i] = s[o + (p + i)]
    BY <1>1, <2>1 DEF IsPart
  <2>3. x[i] = s[q + i]
    BY <1>4 DEF IsPart
  <2>4. QED
    BY <2>1, <2>2, <2>3
<1>6. IsPart(x, t, p, m)
  <2>1. Len(t) = n /\ Len(x) = m
    BY <1>1, <1>4 DEF IsPart
  <2>2. QED
    BY <1>5, <2>1 DEF IsPart, Fits
<1>7. Get(t, p, m) = x
  BY <1>6, GetOf
<1>8. QED
  BY <1>1, <1>2, <1>4, <1>7

\* c is a, which has m elements, and then b, which has n.
IsCat(c, a, b, m, n) ==
  /\ Len(a) = m /\ Len(b) = n /\ Len(c) = m + n
  /\ \A i \in 1 .. m : c[i] = a[i]
  /\ \A i \in 1 .. n : c[m + i] = b[i]

LEMMA CatType ==
  ASSUME NEW S, NEW a \in Seq(S), NEW b \in Seq(S), NEW m \in Nat, NEW n \in Nat,
         m = Len(a), n = Len(b)
  PROVE  Cat(a, b) \in Seq(S) /\ IsCat(Cat(a, b), a, b, m, n)
<1>1. PICK c : c = Cat(a, b)
  OBVIOUS
<1>2. /\ c \in Seq(S) /\ Len(c) = m + n
      /\ \A i \in 1 .. m + n : c[i] = IF i <= m THEN a[i] ELSE b[i - m]
  BY <1>1, ConcatProperties DEF Cat
<1>3. \A i \in 1 .. m : c[i] = a[i]
  BY <1>2
<1>4. ASSUME NEW i \in 1 .. n
      PROVE  c[m + i] = b[i]
  <2>1. m + i \in 1 .. m + n /\ ~ (m + i <= m) /\ m + i - m = i
    OBVIOUS
  <2>2. QED
    BY <1>2, <2>1
<1>5. QED
  BY <1>1, <1>2, <1>3, <1>4 DEF IsCat

LEMMA GetLeft ==
  ASSUME NEW S, NEW a \in Seq(S), NEW b \in Seq(S), NEW o \in Nat, NEW n \in Nat, Fits(a, o, n)
  PROVE  Get(Cat(a, b), o, n) = Get(a, o, n)
<1>1. PICK k \in Nat, l \in Nat : k = Len(a) /\ l = Len(b)
  BY SeqLen
<1>2. PICK c \in Seq(S) : c = Cat(a, b) /\ IsCat(c, a, b, k, l)
  BY <1>1, CatType
<1>3. PICK x \in Seq(S) : x = Get(a, o, n) /\ IsPart(x, a, o, n)
  BY GetType
<1>4. ASSUME NEW i \in 1 .. n
      PROVE  x[i] = c[o + i]
  <2>1. o + i \in 1 .. k
    BY <1>1 DEF Fits
  <2>2. c[o + i] = a[o + i]
    BY <1>2, <2>1 DEF IsCat
  <2>3. x[i] = a[o + i]
    BY <1>3 DEF IsPart
  <2>4. QED
    BY <2>2, <2>3
<1>5. IsPart(x, c, o, n)
  <2>1. Len(x) = n /\ Len(c) = k + l /\ o + n <= k
    BY <1>1, <1>2, <1>3 DEF IsPart, IsCat, Fits
  <2>2. QED
    BY <1>4, <2>1 DEF IsPart, Fits
<1>6. Get(c, o, n) = x
  BY <1>5, GetOf
<1>7. QED
  BY <1>2, <1>3, <1>6

LEMMA GetRight ==
  ASSUME NEW S, NEW a \in Seq(S), NEW b \in Seq(S), NEW k \in Nat, k = Len(a),
         NEW o \in Nat, NEW n \in Nat, Fits(b, o, n)
  PROVE  Get(Cat(a, b), k + o, n) = Get(b, o, n)
<1>1. PICK l \in Nat : l = Len(b)
  BY SeqLen
<1>2. PICK c \in Seq(S) : c = Cat(a, b) /\ IsCat(c, a, b, k, l)
  BY <1>1, CatType
<1>3. PICK x \in Seq(S) : x = Get(b, o, n) /\ IsPart(x, b, o, n)
  BY GetType
<1>4. PICK q \in Nat : q = k + o
  OBVIOUS
<1>5. ASSUME NEW i \in 1 .. n
      PROVE  x[i] = c[q + i]
  <2>1. o + i \in 1 .. l /\ k + (o + i) = q + i
    BY <1>1, <1>4 DEF Fits
  <2>2. c[k + (o + i)] = b[o + i]
    BY <1>2, <2>1 DEF IsCat
  <2>3. x[i] = b[o + i]
    BY <1>3 DEF IsPart
  <2>4. QED
    BY <2>1, <2>2, <2>3
<1>6. IsPart(x, c, q, n)
  <2>1. Len(x) = n /\ Len(c) = k + l /\ o + n <= l
    BY <1>1, <1>2, <1>3 DEF IsPart, IsCat, Fits
  <2>2. q + n <= Len(c)
    BY <1>4, <2>1
  <2>3. QED
    BY <1>5, <2>1, <2>2 DEF IsPart, Fits
<1>7. Get(c, q, n) = x
  BY <1>6, GetOf
<1>8. QED
  BY <1>2, <1>3, <1>4, <1>7

\* Parts that follow each other
LEMMA GetNext ==
  ASSUME NEW S, NEW s \in Seq(S), NEW o \in Nat, NEW m \in Nat, NEW n \in Nat, Fits(s, o + m, n)
  PROVE  Cat(Get(s, o, m), Get(s, o + m, n)) = Get(s, o, m + n)
<1>1. PICK len \in Nat : len = Len(s)
  BY SeqLen
<1>2. PICK q \in Nat, k \in Nat : q = o + m /\ k = m + n
  OBVIOUS
<1>3. Fits(s, q, n) /\ Fits(s, o, k) /\ Fits(s, o, m)
  BY <1>1, <1>2 DEF Fits
<1>4. PICK a \in Seq(S) : a = Get(s, o, m) /\ IsPart(a, s, o, m)
  BY <1>3, GetType
<1>5. PICK b \in Seq(S) : b = Get(s, q, n) /\ IsPart(b, s, q, n)
  BY <1>3, GetType
<1>6. PICK c \in Seq(S) : c = Cat(a, b) /\ IsCat(c, a, b, m, n)
  <2>1. Len(a) = m /\ Len(b) = n
    BY <1>4, <1>5 DEF IsPart
  <2>2. QED
    BY <2>1, CatType
<1>7. ASSUME NEW i \in 1 .. k
      PROVE  c[i] = s[o + i]
  <2>1. CASE i <= m
    <3>1. i \in 1 .. m
      BY <2>1
    <3>2. c[i] = a[i]
      BY <1>6, <3>1 DEF IsCat
    <3>3. a[i] = s[o + i]
      BY <1>4, <3>1 DEF IsPart
    <3>4. QED
      BY <3>2, <3>3
  <2>2. CASE i > m
    <3>1. PICK j \in 1 .. n : i = m + j
      <4>1. i - m \in 1 .. n /\ i = m + (i - m)
        BY <1>2, <2>2
      <4>2. QED
        BY <4>1
    <3>2. c[m + j] = b[j]
      BY <1>6 DEF IsCat
    <3>3. b[j] = s[q + j]
      BY <1>5 DEF IsPart
    <3>4. q + j = o + i
      BY <1>2, <3>1
    <3>5. QED
      BY <3>1, <3>2, <3>3, <3>4
  <2>3. QED
    BY <2>1, <2>2
<1>8. IsPart(c, s, o, k)
  <2>1. Len(c) = k
    BY <1>2, <1>6 DEF IsCat
  <2>2. QED
    BY <1>3, <1>7, <2>1 DEF IsPart
<1>9. Get(s, o, k) = c
  BY <1>8, GetOf
<1>10. QED
  BY <1>2, <1>4, <1>5, <1>6, <1>9

-----------------------------------------------------------------------------
\* Numbers and ids

LEMMA WeightDef ==
  Weight[1] = 1 /\ Weight[2] = 256 /\ Weight[3] = 65536 /\ Weight[4] = 16777216
BY DEF Weight

LEMMA FunctionSeq ==
  ASSUME NEW S, NEW n \in Nat, NEW f \in [1 .. n -> S]
  PROVE  f \in Seq(S) /\ Len(f) = n
<1>1. f \in Seq(S)
  BY SeqDef
<1>2. DOMAIN f = 1 .. n /\ DOMAIN f = 1 .. Len(f) /\ Len(f) \in Nat
  BY <1>1, LenProperties
<1>3. QED
  BY <1>1, <1>2

\* The bytes of a number
LEMMA NumBytes ==
  ASSUME NEW num \in Nat, NEW n \in {1, 2, 4}
  PROVE  /\ pack(num, n) = parseNumIntoBuffer(num, n)
         /\ pack(num, n) \in Seq(Bytes) /\ Len(pack(num, n)) = n
<1>1. ASSUME NEW i \in 1 .. n
      PROVE  (num \div Weight[i]) % 256 \in 0 .. 255
  <2>1. PICK w : w = Weight[i] /\ w \in Nat \ {0}
    BY WeightDef
  <2>2. (num \div w) % 256 \in 0 .. 255
    BY <2>1
  <2>3. QED
    BY <2>1, <2>2
<1>2. pack(num, n) \in [1 .. n -> Bytes]
  BY <1>1 DEF pack, Bytes
<1>3. pack(num, n) = parseNumIntoBuffer(num, n)
  BY DEF pack, parseNumIntoBuffer
<1>4. QED
  BY <1>2, <1>3, FunctionSeq

\* The low byte of a number
LEMMA LowByte ==
  ASSUME NEW num \in Nat
  PROVE  \E q \in Nat, r \in Nat :
            256 * q + r = num /\ r < 256 /\ q = num \div 256 /\ r = num % 256
<1>1. num \div 256 \in Nat /\ num % 256 \in Nat
  OBVIOUS
<1>2. PICK q \in Nat, r \in Nat : q = num \div 256 /\ r = num % 256
  BY <1>1
<1>3. 256 * q + r = num /\ r < 256
  BY <1>2
<1>4. QED
  BY <1>2, <1>3

\* The bytes of a number, one after the other
LEMMA Digits ==
  ASSUME NEW num \in Nat, num <= MaxNumber
  PROVE  \E x, y, z, c \in Nat :
            /\ x + 256 * y + 65536 * z + 16777216 * c = num
            /\ x = num % 256 /\ y = (num \div 256) % 256
            /\ z = (num \div 65536) % 256 /\ c = (num \div 16777216) % 256
<1>1. PICK a \in Nat, x \in Nat : 256 * a + x = num /\ x < 256 /\ a = num \div 256 /\ x = num % 256
  BY LowByte
<1>2. PICK b \in Nat, y \in Nat : 256 * b + y = a /\ y < 256 /\ b = a \div 256 /\ y = a % 256
  BY LowByte
<1>3. PICK c \in Nat, z \in Nat : 256 * c + z = b /\ z < 256 /\ c = b \div 256 /\ z = b % 256
  BY LowByte
<1>4. 256 * a + x = num /\ 256 * b + y = a /\ 256 * c + z = b /\ x < 256 /\ y < 256 /\ z < 256
  BY <1>1, <1>2, <1>3
<1>5. x + 256 * y + 65536 * z + 16777216 * c = num
  BY SMT, <1>4
<1>6. num \div 65536 = b
  <2>1. PICK v \in Nat : 65536 * b + v = num /\ v < 65536
    <3>1. 256 * y + x \in Nat /\ 65536 * b + (256 * y + x) = num /\ 256 * y + x < 65536
      BY SMT, <1>4
    <3>2. QED
      BY SMT, <3>1
  <2>2. QED
    BY SMT, <2>1
<1>7. num \div 16777216 = c
  <2>1. PICK v \in Nat : 16777216 * c + v = num /\ v < 16777216
    <3>1. /\ 65536 * z + 256 * y + x \in Nat /\ 65536 * z + 256 * y + x < 16777216
          /\ 16777216 * c + (65536 * z + 256 * y + x) = num
      BY SMT, <1>4
    <3>2. QED
      BY SMT, <3>1
  <2>2. QED
    BY SMT, <2>1
<1>8. c % 256 = c
  <2>1. c < 256
    BY SMT, <1>5 DEF MaxNumber
  <2>2. QED
    BY <2>1
<1>9. x = num % 256 /\ y = (num \div 256) % 256
  BY <1>1, <1>2
<1>10. z = (num \div 65536) % 256 /\ c = (num \div 16777216) % 256
  BY SMT, <1>3, <1>6, <1>7, <1>8
<1>11. QED
  BY SMT, <1>5, <1>9, <1>10

\* n bytes are enough for the number.
FitsBytes(num, n) == num <= MaxNumber /\ (n = 1 => num < 256) /\ (n = 2 => num < 65536)

LEMMA NumBack ==
  ASSUME NEW num \in Nat, NEW n \in {1, 2, 4}, FitsBytes(num, n)
  PROVE  getNumFromBuffer(pack(num, n)) = num
<1>1. PICK s \in Seq(Bytes) : s = pack(num, n)
  <2>1. pack(num, n) \in Seq(Bytes)
    BY NumBytes
  <2>2. QED
    BY <2>1
<1>2. Len(s) = n
  <2>1. Len(pack(num, n)) = n
    BY NumBytes
  <2>2. QED
    BY <1>1, <2>1
<1>3. ASSUME NEW i \in 1 .. n
      PROVE  s[i] = (num \div Weight[i]) % 256
  BY <1>1 DEF pack
<1>4. PICK x, y, z, c \in Nat :
        /\ x + 256 * y + 65536 * z + 16777216 * c = num
        /\ x = num % 256 /\ y = (num \div 256) % 256
        /\ z = (num \div 65536) % 256 /\ c = (num \div 16777216) % 256
  <2>1. num <= MaxNumber
    BY DEF FitsBytes
  <2>2. QED
    BY SMT, <2>1, Digits
<1>5. num \div 1 = num
  OBVIOUS
<1>6. CASE n = 1
  <2>1. 1 \in 1 .. n
    BY <1>6
  <2>2. s[1] = x
    <3>1. s[1] = (num \div Weight[1]) % 256
      BY <1>3, <2>1
    <3>2. s[1] = x
      BY SMT, <3>1, <1>4, <1>5, WeightDef
    <3>3. QED
      BY <3>2
  <2>3. num < 256
    BY <1>6 DEF FitsBytes
  <2>4. x = num
    BY SMT, <1>4, <2>3
  <2>5. getNumFromBuffer(s) = s[1] * 1 + 0 + 0 + 0
    BY SMT, <1>2, <1>6, WeightDef DEF getNumFromBuffer
  <2>6. QED
    BY <1>1, <2>2, <2>4, <2>5
<1>7. CASE n = 2
  <2>1. 1 \in 1 .. n /\ 2 \in 1 .. n
    BY <1>7
  <2>2. s[1] = x /\ s[2] = y
    <3>1. s[1] = (num \div Weight[1]) % 256 /\ s[2] = (num \div Weight[2]) % 256
      BY <1>3, <2>1
    <3>2. s[1] = x
      BY SMT, <3>1, <1>4, <1>5, WeightDef
    <3>3. s[2] = y
      BY SMT, <3>1, <1>4, WeightDef
    <3>4. QED
      BY <3>2, <3>3
  <2>3. x + 256 * y = num
    <3>1. num < 65536
      BY SMT, <1>7 DEF FitsBytes
    <3>2. z = 0 /\ c = 0
      BY SMT, <1>4, <3>1
    <3>3. QED
      BY SMT, <1>4, <3>2
  <2>4. getNumFromBuffer(s) = s[1] * 1 + s[2] * 256 + 0 + 0
    BY SMT, <1>2, <1>7, WeightDef DEF getNumFromBuffer
  <2>5. QED
    BY <1>1, <2>2, <2>3, <2>4
<1>8. CASE n = 4
  <2>1. 1 \in 1 .. n /\ 2 \in 1 .. n /\ 3 \in 1 .. n /\ 4 \in 1 .. n
    BY <1>8
  <2>2. s[1] = x /\ s[2] = y /\ s[3] = z /\ s[4] = c
    <3>1. /\ s[1] = (num \div Weight[1]) % 256 /\ s[2] = (num \div Weight[2]) % 256
          /\ s[3] = (num \div Weight[3]) % 256 /\ s[4] = (num \div Weight[4]) % 256
      BY <1>3, <2>1
    <3>2. s[1] = x
      BY SMT, <3>1, <1>4, <1>5, WeightDef
    <3>3. s[2] = y
      BY SMT, <3>1, <1>4, WeightDef
    <3>4. s[3] = z
      BY SMT, <3>1, <1>4, WeightDef
    <3>5. s[4] = c
      BY SMT, <3>1, <1>4, WeightDef
    <3>6. QED
      BY <3>2, <3>3, <3>4, <3>5
  <2>3. getNumFromBuffer(s) = s[1] * 1 + s[2] * 256 + s[3] * 65536 + s[4] * 16777216
    BY SMT, <1>2, <1>8, WeightDef DEF getNumFromBuffer
  <2>4. QED
    BY SMT, <1>1, <1>4, <2>2, <2>3
<1>9. QED
  BY <1>6, <1>7, <1>8

\* The strings of digits that a client has for ids
HexStrings == [1 .. 2 * CLIENT_ID_BYTE_SIZE -> 0 .. 15]

LEMMA SameString ==
  ASSUME NEW g \in HexStrings, NEW h \in HexStrings,
         \A j \in 1 .. 2 * CLIENT_ID_BYTE_SIZE : g[j] = h[j]
  PROVE  g = h
<1>1. PICK n \in Nat : n = 2 * CLIENT_ID_BYTE_SIZE
  BY DEF CLIENT_ID_BYTE_SIZE
<1>2. g \in [1 .. n -> 0 .. 15] /\ h \in [1 .. n -> 0 .. 15] /\ \A j \in 1 .. n : g[j] = h[j]
  BY <1>1 DEF HexStrings
<1>3. g \in Seq(0 .. 15) /\ Len(g) = n /\ h \in Seq(0 .. 15) /\ Len(h) = n
  BY <1>2, FunctionSeq
<1>4. QED
  BY <1>2, <1>3, SameSeq

LEMMA Nibbles ==
  ASSUME NEW b \in Bytes
  PROVE  b \div 16 \in 0 .. 15 /\ b % 16 \in 0 .. 15 /\ (b <= 15 => b \div 16 = 0 /\ b % 16 = b)
BY DEF Bytes

LEMMA Halves ==
  ASSUME NEW j \in 1 .. 2 * CLIENT_ID_BYTE_SIZE
  PROVE  /\ j % 2 = 1 => /\ (j + 1) \div 2 \in 1 .. CLIENT_ID_BYTE_SIZE
                         /\ 2 * ((j + 1) \div 2) - 1 = j
         /\ j % 2 # 1 => j \div 2 \in 1 .. CLIENT_ID_BYTE_SIZE /\ 2 * (j \div 2) = j
<1>1. j \in Nat /\ j >= 1 /\ j <= 32
  BY DEF CLIENT_ID_BYTE_SIZE
<1>2. CASE j % 2 = 1
  <2>1. (j + 1) \div 2 \in Nat /\ 2 * ((j + 1) \div 2) - 1 = j
    BY <1>1, <1>2
  <2>2. QED
    BY <1>1, <1>2, <2>1 DEF CLIENT_ID_BYTE_SIZE
<1>3. CASE j % 2 # 1
  <2>1. j \div 2 \in Nat /\ 2 * (j \div 2) = j
    BY <1>1, <1>3
  <2>2. QED
    BY <1>1, <1>3, <2>1 DEF CLIENT_ID_BYTE_SIZE
<1>4. QED
  BY <1>2, <1>3

LEMMA IdStringType ==
  ASSUME NEW id \in IdBytes
  PROVE  IdString(id) \in HexStrings
<1>1. ASSUME NEW j \in 1 .. 2 * CLIENT_ID_BYTE_SIZE
      PROVE  (IF j % 2 = 1 THEN id[(j + 1) \div 2] \div 16 ELSE id[j \div 2] % 16) \in 0 .. 15
  <2>1. CASE j % 2 = 1
    <3>1. id[(j + 1) \div 2] \in Bytes
      BY <2>1, Halves DEF IdBytes
    <3>2. QED
      BY <2>1, <3>1, Nibbles
  <2>2. CASE j % 2 # 1
    <3>1. id[j \div 2] \in Bytes
      BY <2>2, Halves DEF IdBytes
    <3>2. QED
      BY <2>2, <3>1, Nibbles
  <2>3. QED
    BY <2>1, <2>2
<1>2. QED
  BY <1>1 DEF IdString, HexStrings

\* From a string to bytes and back
LEMMA IdBack ==
  ASSUME NEW h \in HexStrings
  PROVE  /\ parseClientId(h) \in IdBytes
         /\ IdString(parseClientId(h)) = h
<1>1. ASSUME NEW i \in 1 .. CLIENT_ID_BYTE_SIZE
      PROVE  h[2 * i - 1] \in 0 .. 15 /\ h[2 * i] \in 0 .. 15
  <2>1. 2 * i - 1 \in 1 .. 2 * CLIENT_ID_BYTE_SIZE /\ 2 * i \in 1 .. 2 * CLIENT_ID_BYTE_SIZE
    BY DEF CLIENT_ID_BYTE_SIZE
  <2>2. QED
    BY <2>1 DEF HexStrings
<1>2. PICK id : id = parseClientId(h)
  OBVIOUS
<1>3. ASSUME NEW i \in 1 .. CLIENT_ID_BYTE_SIZE
      PROVE  /\ id[i] = 16 * h[2 * i - 1] + h[2 * i] /\ id[i] \in Bytes
             /\ id[i] \div 16 = h[2 * i - 1] /\ id[i] % 16 = h[2 * i]
  <2>1. PICK a \in 0 .. 15, b \in 0 .. 15 : a = h[2 * i - 1] /\ b = h[2 * i]
    BY <1>1
  <2>2. id[i] = 16 * a + b
    BY <1>2, <2>1 DEF parseClientId
  <2>3. 16 * a + b \in Bytes /\ (16 * a + b) \div 16 = a /\ (16 * a + b) % 16 = b
    BY DEF Bytes
  <2>4. QED
    BY <2>1, <2>2, <2>3
<1>4. id \in IdBytes
  <2>1. id = [i \in 1 .. CLIENT_ID_BYTE_SIZE |-> id[i]]
    BY <1>2 DEF parseClientId
  <2>2. QED
    BY <1>3, <2>1 DEF IdBytes
<1>5. ASSUME NEW j \in 1 .. 2 * CLIENT_ID_BYTE_SIZE
      PROVE  IdString(id)[j] = h[j]
  <2>1. CASE j % 2 = 1
    <3>1. PICK i \in 1 .. CLIENT_ID_BYTE_SIZE : i = (j + 1) \div 2 /\ 2 * i - 1 = j
      BY <2>1, Halves
    <3>2. IdString(id)[j] = id[i] \div 16
      BY <2>1, <3>1 DEF IdString
    <3>3. QED
      BY <1>3, <3>1, <3>2
  <2>2. CASE j % 2 # 1
    <3>1. PICK i \in 1 .. CLIENT_ID_BYTE_SIZE : i = j \div 2 /\ 2 * i = j
      BY <2>2, Halves
    <3>2. IdString(id)[j] = id[i] % 16
      BY <2>2, <3>1 DEF IdString
    <3>3. QED
      BY <1>3, <3>1, <3>2
  <2>3. QED
    BY <2>1, <2>2
<1>6. IdString(id) \in HexStrings
  BY <1>4, IdStringType
<1>7. IdString(id) = h
  BY <1>5, <1>6, SameString
<1>8. QED
  BY <1>2, <1>4, <1>7

LEMMA FakeIdType == fakeId \in HexStrings
<1>1. fakeId \in [1 .. 32 -> 0 .. 15]
  BY SMT DEF fakeId
<1>2. QED
  BY <1>1 DEF HexStrings, CLIENT_ID_BYTE_SIZE

\* The elements of a sequence of pairs
LEMMA FlattenPairs ==
  ASSUME NEW S, NEW T, Over(T, S), \A p \in T : Len(p) = 2, NEW s \in Seq(T)
  PROVE  /\ Len(FlattenSeq(s)) = 2 * Len(s)
         /\ \A i \in 1 .. Len(s) : FlattenSeq(s)[2 * i - 1] = s[i][1] /\ FlattenSeq(s)[2 * i] = s[i][2]
<1>. DEFINE Right(t, k) == 
              /\ Len(FlattenSeq(t)) = 2 * k
              /\ \A i \in 1 .. k : /\ FlattenSeq(t)[2 * i - 1] = t[i][1]
                                   /\ FlattenSeq(t)[2 * i] = t[i][2]
            P == {k \in Nat : \A t \in Seq(T) : Len(t) = k => Right(t, k)}
<1>1. 0 \in P
  <2>1. SUFFICES ASSUME NEW t \in Seq(T), Len(t) = 0
                 PROVE  Right(t, 0)
    OBVIOUS
  <2>2. t = <<>>
    BY <2>1, SeqLen
  <2>3. FlattenSeq(t) = <<>> /\ Len(<<>>) = 0
    BY <2>2, FlattenEmpty, EmptySeq
  <2>4. QED
    BY <2>3
<1>2. ASSUME NEW k \in Nat, k \in P
      PROVE  k + 1 \in P
  <2>1. SUFFICES ASSUME NEW t \in Seq(T), Len(t) = k + 1
                 PROVE  Right(t, k + 1)
    OBVIOUS
  <2>2. t # <<>>
    BY <2>1, SeqLen
  <2>3. PICK u \in Seq(T), x \in T : t = Append(u, x)
    BY <2>2, SequenceEmptyOrAppend
  <2>4. Len(u) = k /\ t[k + 1] = x /\ \A i \in 1 .. k : t[i] = u[i]
    <3>1. PICK n \in Nat : n = Len(u)
      BY SeqLen
    <3>2. Len(t) = n + 1 /\ t[n + 1] = x /\ \A i \in 1 .. n : t[i] = u[i]
      BY <2>3, <3>1, AppendProperties
    <3>3. QED
      BY <2>1, <3>1, <3>2
  <2>5. PICK a \in Seq(S) : a = FlattenSeq(u)
    BY FlattenType
  <2>6. PICK m \in Nat : m = 2 * k
    OBVIOUS
  <2>7. Len(a) = m /\ \A i \in 1 .. k : a[2 * i - 1] = u[i][1] /\ a[2 * i] = u[i][2]
    BY <1>2, <2>4, <2>5, <2>6
  <2>8. x \in Seq(S) /\ Len(x) = 2
    BY OverType
  <2>9. PICK c : c = Cat(a, x) /\ c = FlattenSeq(t)
    BY <2>3, <2>5, CatFlatten
  <2>10. /\ Len(c) = m + 2
         /\ \A i \in 1 .. m : c[i] = a[i]
         /\ \A i \in 1 .. 2 : c[m + i] = x[i]
    <3>1. PICK l \in Nat : l = 2 /\ l = Len(x) /\ m = Len(a)
      BY <2>7, <2>8
    <3>2. IsCat(c, a, x, m, l)
      BY <2>8, <2>9, <3>1, CatType
    <3>3. QED
      BY <3>1, <3>2 DEF IsCat
  <2>11. ASSUME NEW i \in 1 .. k
         PROVE  c[2 * i - 1] = t[i][1] /\ c[2 * i] = t[i][2]
    <3>1. 2 * i - 1 \in 1 .. m /\ 2 * i \in 1 .. m
      BY <2>6
    <3>2. c[2 * i - 1] = a[2 * i - 1] /\ c[2 * i] = a[2 * i]
      BY <2>10, <3>1
    <3>3. QED
      BY <2>4, <2>7, <3>2
  <2>12. c[2 * (k + 1) - 1] = t[k + 1][1] /\ c[2 * (k + 1)] = t[k + 1][2]
    <3>1. 2 * (k + 1) - 1 = m + 1 /\ 2 * (k + 1) = m + 2 /\ 1 \in 1 .. 2 /\ 2 \in 1 .. 2
      BY <2>6
    <3>2. QED
      BY <2>4, <2>10, <3>1
  <2>13. Len(c) = 2 * (k + 1)
    BY <2>6, <2>10
  <2>14. \A i \in 1 .. k + 1 : i \in 1 .. k \/ i = k + 1
    OBVIOUS
  <2>15. \A i \in 1 .. k + 1 : c[2 * i - 1] = t[i][1] /\ c[2 * i] = t[i][2]
    BY <2>11, <2>12, <2>14
  <2>16. QED
    BY <2>9, <2>13, <2>15
<1>3. Nat \subseteq P
  <2>. HIDE DEF P
  <2>1. QED
    BY <1>1, <1>2, Induction
<1>4. Len(s) \in Nat
  BY SeqLen
<1>5. QED
  BY <1>3, <1>4

LEMMA PairType ==
  ASSUME NEW S, NEW x \in S, NEW y \in S
  PROVE  <<x, y>> \in [1 .. 2 -> S]
OBVIOUS

\* From bytes to a string
LEMMA IdText ==
  ASSUME NEW bytes \in Seq(Bytes), CLIENT_ID_BYTE_SIZE <= Len(bytes)
  PROVE  /\ Get(bytes, 0, CLIENT_ID_BYTE_SIZE) \in IdBytes
         /\ getClientIdFromBuffer(bytes) = IdString(Get(bytes, 0, CLIENT_ID_BYTE_SIZE))
<1>1. PICK z \in Nat : z = CLIENT_ID_BYTE_SIZE
  BY DEF CLIENT_ID_BYTE_SIZE
<1>2. PICK id \in Seq(Bytes) : id = Get(bytes, 0, z) /\ Len(id) = z /\ \A i \in 1 .. z : id[i] = bytes[i]
  <2>1. PICK l \in Nat : l = Len(bytes)
    BY SeqLen
  <2>2. Fits(bytes, 0, z)
    BY <1>1, <2>1 DEF Fits
  <2>3. PICK id \in Seq(Bytes) : id = Get(bytes, 0, z) /\ IsPart(id, bytes, 0, z)
    BY <2>2, GetType
  <2>4. \A i \in 1 .. z : 0 + i = i
    OBVIOUS
  <2>5. Len(id) = z /\ \A i \in 1 .. z : id[i] = bytes[i]
    BY <2>3, <2>4 DEF IsPart
  <2>6. QED
    BY <2>3, <2>5
<1>3. id \in IdBytes
  BY <1>1, <1>2, LenProperties DEF IdBytes
<1>. DEFINE T == [1 .. 2 -> 0 .. 15]
<1>4. Over(T, 0 .. 15) /\ \A p \in T : Len(p) = 2
  BY FunctionSeq DEF Over
<1>5. PICK s \in Seq(T) : /\ Len(s) = z /\ getClientIdFromBuffer(bytes) = FlattenSeq(s)
                          /\ \A i \in 1 .. z : s[i][1] = id[i] \div 16 /\ s[i][2] = id[i] % 16
  <2>. DEFINE pair(i) == IF bytes[i] > 15 THEN <<bytes[i] \div 16, bytes[i] % 16>> ELSE <<0, bytes[i]>>
  <2>1. ASSUME NEW i \in 1 .. z
        PROVE  pair(i) \in T /\ pair(i)[1] = id[i] \div 16 /\ pair(i)[2] = id[i] % 16
    <3>1. PICK b \in Bytes : b = id[i] /\ b = bytes[i]
      BY <1>2, ElementOfSeq
    <3>2. <<b \div 16, b % 16>> \in T
      <4>1. PICK x \in 0 .. 15, y \in 0 .. 15 : x = b \div 16 /\ y = b % 16
        BY Nibbles
      <4>2. <<x, y>> \in T
        BY PairType
      <4>3. QED
        BY <4>1, <4>2
    <3>3. pair(i) = IF b > 15 THEN <<b \div 16, b % 16>> ELSE <<0, b>>
      BY <3>1
    <3>4. ~ (b > 15) => b \div 16 = 0 /\ b % 16 = b
      BY Nibbles DEF Bytes
    <3>5. pair(i) = <<b \div 16, b % 16>>
      BY <3>3, <3>4
    <3>6. QED
      BY <3>1, <3>2, <3>5
  <2>2. getClientIdFromBuffer(bytes) = FlattenSeq([i \in 1 .. z |-> pair(i)])
    BY <1>1 DEF getClientIdFromBuffer
  <2>. HIDE DEF pair, T
  <2>3. PICK f : f = [i \in 1 .. z |-> pair(i)]
    OBVIOUS
  <2>4. f \in [1 .. z -> T]
    BY <2>1, <2>3
  <2>5. f \in Seq(T) /\ Len(f) = z
    BY <2>4, FunctionSeq
  <2>6. QED
    BY <2>1, <2>2, <2>3, <2>5
<1>6. PICK h \in Seq(0 .. 15) : /\ h = FlattenSeq(s) /\ Len(h) = 2 * z
                               /\ \A i \in 1 .. z : h[2 * i - 1] = s[i][1] /\ h[2 * i] = s[i][2]
  <2>. HIDE DEF T
  <2>1. FlattenSeq(s) \in Seq(0 .. 15)
    BY <1>4, FlattenType
  <2>2. /\ Len(FlattenSeq(s)) = 2 * Len(s)
        /\ \A i \in 1 .. Len(s) : /\ FlattenSeq(s)[2 * i - 1] = s[i][1]
                                  /\ FlattenSeq(s)[2 * i] = s[i][2]
    BY <1>4, FlattenPairs
  <2>3. QED
    BY <1>5, <2>1, <2>2
<1>7. h \in HexStrings
  BY <1>1, <1>6, LenProperties DEF HexStrings
<1>8. IdString(id) \in HexStrings
  BY <1>3, IdStringType
<1>9. ASSUME NEW j \in 1 .. 2 * CLIENT_ID_BYTE_SIZE
      PROVE  h[j] = IdString(id)[j]
  <2>1. CASE j % 2 = 1
    <3>1. PICK i \in 1 .. CLIENT_ID_BYTE_SIZE : i = (j + 1) \div 2 /\ 2 * i - 1 = j
      BY <2>1, Halves
    <3>2. IdString(id)[j] = id[i] \div 16
      BY <2>1, <3>1 DEF IdString
    <3>3. QED
      BY <1>1, <1>5, <1>6, <3>1, <3>2
  <2>2. CASE j % 2 # 1
    <3>1. PICK i \in 1 .. CLIENT_ID_BYTE_SIZE : i = j \div 2 /\ 2 * i = j
      BY <2>2, Halves
    <3>2. IdString(id)[j] = id[i] % 16
      BY <2>2, <3>1 DEF IdString
    <3>3. QED
      BY <1>1, <1>5, <1>6, <3>1, <3>2
  <2>3. QED
    BY <2>1, <2>2
<1>10. h = IdString(id)
  BY <1>7, <1>8, <1>9, SameString
<1>11. QED
  BY <1>1, <1>2, <1>3, <1>5, <1>6, <1>10

-----------------------------------------------------------------------------
\* Buffers that are filled field by field

FieldSet == [offset : Nat, bytes : Seq(Bytes)]

End(f) == f.offset + Len(f.bytes)

\* Each field starts where the one before it has ended, or later.
Chain(fields) == \A k \in 1 .. Len(fields) - 1 : End(fields[k]) <= fields[k + 1].offset

LEMMA FieldEnd ==
  ASSUME NEW f \in FieldSet
  PROVE  f.offset \in Nat /\ f.bytes \in Seq(Bytes) /\ Len(f.bytes) \in Nat /\ End(f) \in Nat
         /\ f.offset <= End(f)
<1>1. f.offset \in Nat /\ f.bytes \in Seq(Bytes)
  BY DEF FieldSet
<1>2. Len(f.bytes) \in Nat
  BY <1>1, SeqLen
<1>3. QED
  BY <1>1, <1>2 DEF End

\* None of the later fields covers what is before the end of one.
LEMMA ChainOrder ==
  ASSUME NEW fields \in Seq(FieldSet), Chain(fields), NEW k \in 1 .. Len(fields)
  PROVE  \A j \in 1 .. Len(fields) : k < j => End(fields[k]) <= fields[j].offset
<1>1. PICK n \in Nat : n = Len(fields)
  BY SeqLen
<1>. DEFINE P == {j \in Nat : k < j /\ j <= n => End(fields[k]) <= fields[j].offset}
<1>2. 0 \in P
  BY <1>1
<1>3. ASSUME NEW j \in Nat, j \in P
      PROVE  j + 1 \in P
  <2>1. SUFFICES ASSUME k < j + 1, j + 1 <= n
                 PROVE  End(fields[k]) <= fields[j + 1].offset
    OBVIOUS
  <2>2. j \in 1 .. Len(fields) - 1
    BY <1>1, <2>1
  <2>3. End(fields[j]) <= fields[j + 1].offset
    BY <2>2 DEF Chain
  <2>4. CASE k = j
    BY <2>3, <2>4
  <2>5. CASE k # j
    <3>1. End(fields[k]) <= fields[j].offset
      BY <1>3, <2>1, <2>5
    <3>2. PICK f \in FieldSet, g \in FieldSet, h \in FieldSet :
            f = fields[k] /\ g = fields[j] /\ h = fields[j + 1]
      <4>1. k \in 1 .. Len(fields) /\ j \in 1 .. Len(fields) /\ j + 1 \in 1 .. Len(fields)
        BY <1>1, <2>1, <2>2
      <4>2. fields[k] \in FieldSet /\ fields[j] \in FieldSet /\ fields[j + 1] \in FieldSet
        BY <4>1, ElementOfSeq
      <4>3. QED
        BY <4>2
    <3>3. End(f) \in Nat /\ g.offset \in Nat /\ Len(g.bytes) \in Nat /\ h.offset \in Nat
      BY FieldEnd
    <3>4. End(f) <= g.offset /\ g.offset + Len(g.bytes) <= h.offset
      BY <2>3, <3>1, <3>2 DEF End
    <3>5. End(f) <= h.offset
      BY <3>3, <3>4
    <3>6. QED
      BY <3>2, <3>5
  <2>6. QED
    BY <2>4, <2>5
<1>4. Nat \subseteq P
  <2>. HIDE DEF P
  <2>1. QED
    BY <1>2, <1>3, Induction
<1>5. QED
  BY <1>1, <1>4

LEMMA LastAt ==
  ASSUME NEW fields, NEW i, NEW k \in 1 .. Len(fields), k \in Int,
         {j \in 1 .. Len(fields) : Covers(fields[j], i)} = {k}
  PROVE  SelectLastInSeq(fields, LAMBDA f : Covers(f, i)) = k
<1>1. PICK I : I = {j \in 1 .. Len(fields) : Covers(fields[j], i)}
  OBVIOUS
<1>2. I # {} /\ I = {k}
  BY <1>1
<1>3. SelectLastInSeq(fields, LAMBDA f : Covers(f, i)) = Max(I)
  BY <1>1, <1>2 DEF SelectLastInSeq
<1>4. k >= k
  OBVIOUS
<1>5. Max(I) = k
  BY <1>2, <1>4 DEF Max
<1>6. QED
  BY <1>3, <1>5

LEMMA FilledAt ==
  ASSUME NEW fields, NEW i \in 1 .. BUFFER_PARTITION_SIZE, NEW k \in 1 .. Len(fields), k \in Int,
         {j \in 1 .. Len(fields) : Covers(fields[j], i)} = {k}
  PROVE  Filled(fields)[i] = fields[k].bytes[i - fields[k].offset]
<1>1. SelectLastInSeq(fields, LAMBDA f : Covers(f, i)) = k
  BY LastAt
<1>2. k # 0
  OBVIOUS
<1>3. QED
  BY <1>1, <1>2 DEF Filled

LEMMA FilledNone ==
  ASSUME NEW fields, NEW i \in 1 .. BUFFER_PARTITION_SIZE,
         {j \in 1 .. Len(fields) : Covers(fields[j], i)} = {}
  PROVE  Filled(fields)[i] = 0
<1>1. SelectLastInSeq(fields, LAMBDA f : Covers(f, i)) = 0
  BY DEF SelectLastInSeq
<1>2. QED
  BY <1>1 DEF Filled

\* A buffer has one partition.
BufferSet == {b \in Seq(Bytes) : Len(b) = BUFFER_PARTITION_SIZE}

LEMMA CoversInside ==
  ASSUME NEW f \in FieldSet, NEW i \in Nat
  PROVE  /\ Covers(f, i) <=> f.offset < i /\ i <= End(f)
         /\ Covers(f, i) => f.bytes[i - f.offset] \in Bytes
<1>1. PICK o \in Nat, x \in Seq(Bytes), l \in Nat : o = f.offset /\ x = f.bytes /\ l = Len(x)
  BY FieldEnd
<1>2. Covers(f, i) <=> i > o /\ i <= o + l
  BY <1>1 DEF Covers
<1>3. End(f) = o + l
  BY <1>1 DEF End
<1>4. ASSUME i > o, i <= o + l
      PROVE  x[i - o] \in Bytes
  <2>1. i - o \in 1 .. l
    BY <1>4
  <2>2. QED
    BY <1>1, <2>1, ElementOfSeq
<1>5. QED
  BY <1>1, <1>2, <1>3, <1>4

\* At most one field covers a byte.
LEMMA OneCovers ==
  ASSUME NEW fields \in Seq(FieldSet), Chain(fields), NEW i \in Nat,
         NEW j \in 1 .. Len(fields), NEW k \in 1 .. Len(fields),
         Covers(fields[j], i), Covers(fields[k], i)
  PROVE  j = k
<1>1. SUFFICES ASSUME NEW l \in 1 .. Len(fields), NEW m \in 1 .. Len(fields), l < m,
                      Covers(fields[l], i), Covers(fields[m], i)
               PROVE  FALSE
  <2>1. j \in Int /\ k \in Int
    BY SeqLen
  <2>2. j < k \/ k < j \/ j = k
    BY <2>1
  <2>3. QED
    BY <1>1, <2>2
<1>2. End(fields[l]) <= fields[m].offset
  BY <1>1, ChainOrder
<1>3. PICK f \in FieldSet, g \in FieldSet : f = fields[l] /\ g = fields[m]
  BY ElementOfSeq
<1>4. i <= End(f) /\ g.offset < i
  BY <1>1, <1>3, CoversInside
<1>5. End(f) \in Nat /\ g.offset \in Nat
  BY FieldEnd
<1>6. QED
  BY <1>2, <1>3, <1>4, <1>5

LEMMA FilledType ==
  ASSUME NEW fields \in Seq(FieldSet), Chain(fields)
  PROVE  Filled(fields) \in BufferSet
<1>1. PICK z \in Nat : z = BUFFER_PARTITION_SIZE
  BY DEF BUFFER_PARTITION_SIZE
<1>2. PICK b : b = Filled(fields)
  OBVIOUS
<1>3. ASSUME NEW i \in 1 .. z
      PROVE  b[i] \in Bytes
  <2>1. i \in Nat /\ i \in 1 .. BUFFER_PARTITION_SIZE
    BY <1>1
  <2>2. CASE \E k \in 1 .. Len(fields) : Covers(fields[k], i)
    <3>1. PICK k \in 1 .. Len(fields) : Covers(fields[k], i)
      BY <2>2
    <3>2. {j \in 1 .. Len(fields) : Covers(fields[j], i)} = {k}
      BY <2>1, <3>1, OneCovers
    <3>3. k \in Int
      BY SeqLen
    <3>4. b[i] = fields[k].bytes[i - fields[k].offset]
      BY <1>2, <2>1, <3>2, <3>3, FilledAt
    <3>5. fields[k] \in FieldSet
      BY ElementOfSeq
    <3>6. QED
      BY <2>1, <3>1, <3>4, <3>5, CoversInside
  <2>3. CASE ~ \E k \in 1 .. Len(fields) : Covers(fields[k], i)
    <3>1. {j \in 1 .. Len(fields) : Covers(fields[j], i)} = {}
      BY <2>3
    <3>2. b[i] = 0
      BY <1>2, <2>1, <3>1, FilledNone
    <3>3. QED
      BY <3>2 DEF Bytes
  <2>4. QED
    BY <2>2, <2>3
<1>4. b = [i \in 1 .. z |-> b[i]]
  BY <1>1, <1>2 DEF Filled
<1>5. b \in [1 .. z -> Bytes]
  BY <1>3, <1>4
<1>6. b \in Seq(Bytes) /\ Len(b) = z
  BY <1>5, FunctionSeq
<1>7. QED
  BY <1>1, <1>2, <1>6 DEF BufferSet

\* A field is found where it was copied to.
LEMMA FilledField ==
  ASSUME NEW fields \in Seq(FieldSet), Chain(fields), NEW k \in 1 .. Len(fields),
         End(fields[k]) <= BUFFER_PARTITION_SIZE
  PROVE  Get(Filled(fields), fields[k].offset, Len(fields[k].bytes)) = fields[k].bytes
<1>1. PICK z \in Nat : z = BUFFER_PARTITION_SIZE
  BY DEF BUFFER_PARTITION_SIZE
<1>2. PICK b \in Seq(Bytes) : b = Filled(fields) /\ Len(b) = z
  <2>1. Filled(fields) \in BufferSet
    BY FilledType
  <2>2. QED
    BY <1>1, <2>1 DEF BufferSet
<1>3. PICK f \in FieldSet : f = fields[k]
  BY ElementOfSeq
<1>4. PICK o \in Nat, x \in Seq(Bytes), n \in Nat : o = f.offset /\ x = f.bytes /\ n = Len(x)
  BY FieldEnd
<1>5. End(f) = o + n /\ o + n <= z
  BY <1>1, <1>3, <1>4 DEF End
<1>6. ASSUME NEW i \in 1 .. n
      PROVE  x[i] = b[o + i]
  <2>1. PICK l \in Nat : l = o + i /\ l \in 1 .. z
    <3>1. o + i \in 1 .. z
      BY <1>5
    <3>2. QED
      BY <3>1
  <2>2. Covers(f, l)
    <3>1. o < l /\ l <= o + n
      BY <2>1
    <3>2. QED
      BY <1>4, <1>5, <3>1, CoversInside
  <2>3. {j \in 1 .. Len(fields) : Covers(fields[j], l)} = {k}
    BY <1>3, <2>2, OneCovers
  <2>4. k \in Int
    BY SeqLen
  <2>5. l \in 1 .. BUFFER_PARTITION_SIZE
    BY <1>1, <2>1
  <2>6. b[l] = f.bytes[l - f.offset]
    BY <1>2, <1>3, <2>3, <2>4, <2>5, FilledAt
  <2>7. l - o = i
    BY <2>1
  <2>8. QED
    BY <1>4, <2>1, <2>6, <2>7
<1>7. IsPart(x, b, o, n)
  BY <1>2, <1>4, <1>5, <1>6 DEF IsPart, Fits
<1>8. Get(b, o, n) = x
  BY <1>7, GetOf
<1>9. QED
  BY <1>2, <1>3, <1>4, <1>8

\* Zeros are left between two fields.
LEMMA FilledGap ==
  ASSUME NEW fields \in Seq(FieldSet), Chain(fields), NEW k \in 1 .. Len(fields) - 1,
         NEW i \in 1 .. BUFFER_PARTITION_SIZE, i \in Nat,
         End(fields[k]) < i, i <= fields[k + 1].offset
  PROVE  Filled(fields)[i] = 0
<1>1. PICK n \in Nat : n = Len(fields)
  BY SeqLen
<1>2. ASSUME NEW j \in 1 .. n, Covers(fields[j], i)
      PROVE  FALSE
  <2>1. k \in 1 .. n /\ k + 1 \in 1 .. n
    BY <1>1
  <2>2. PICK e \in FieldSet, f \in FieldSet, g \in FieldSet :
          e = fields[j] /\ f = fields[k] /\ g = fields[k + 1]
    <3>1. fields[j] \in FieldSet /\ fields[k] \in FieldSet /\ fields[k + 1] \in FieldSet
      BY <1>1, <2>1, ElementOfSeq
    <3>2. QED
      BY <3>1
  <2>3. e.offset < i /\ i <= End(e)
    BY <1>2, <2>2, CoversInside
  <2>4. /\ e.offset \in Nat /\ End(e) \in Nat /\ f.offset \in Nat /\ End(f) \in Nat
        /\ g.offset \in Nat /\ End(g) \in Nat
    BY FieldEnd
  <2>5. CASE j = k
    BY <2>2, <2>3, <2>4, <2>5
  <2>6. CASE j < k
    <3>1. End(e) <= f.offset
      BY <1>1, <2>1, <2>2, <2>6, ChainOrder
    <3>2. f.offset <= End(f)
      BY FieldEnd
    <3>3. QED
      BY <2>2, <2>3, <2>4, <3>1, <3>2
  <2>7. CASE j = k + 1
    BY <2>2, <2>3, <2>4, <2>7
  <2>8. CASE k + 1 < j
    <3>1. End(g) <= e.offset
      BY <1>1, <2>1, <2>2, <2>8, ChainOrder
    <3>2. g.offset <= End(g)
      BY FieldEnd
    <3>3. QED
      BY <2>2, <2>3, <2>4, <3>1, <3>2
  <2>9. QED
    BY <2>1, <2>5, <2>6, <2>7, <2>8
<1>3. {j \in 1 .. Len(fields) : Covers(fields[j], i)} = {}
  BY <1>1, <1>2
<1>4. QED
  BY <1>3, FilledNone

-----------------------------------------------------------------------------
\* Names with zeros after them

\* p has n bytes, the l ones of the name first.
IsPadded(p, name, l, n) ==
  /\ Len(p) = n /\ Len(name) = l /\ l < n
  /\ \A i \in 1 .. l : p[i] = name[i] /\ p[i] # 0
  /\ \A i \in 1 .. n : l < i => p[i] = 0

LEMMA NameType ==
  ASSUME NEW name \in Names
  PROVE  /\ name \in Seq(Bytes) /\ Len(name) \in Nat /\ Len(name) < USER_NAME_BYTE_SIZE
         /\ \A i \in 1 .. Len(name) : name[i] # 0
<1>1. name \in Seq(1 .. 255) /\ Len(name) < USER_NAME_BYTE_SIZE
  BY DEF Names
<1>2. 1 .. 255 \subseteq Bytes /\ 0 \notin 1 .. 255
  BY DEF Bytes
<1>3. name \in Seq(Bytes)
  BY <1>1, <1>2, SeqMonotonic
<1>4. \A i \in 1 .. Len(name) : name[i] \in 1 .. 255
  BY <1>1, ElementOfSeq
<1>5. QED
  BY <1>1, <1>2, <1>3, <1>4, SeqLen

LEMMA ZerosType ==
  ASSUME NEW n \in Nat
  PROVE  Zeros(n) \in Seq(Bytes) /\ Len(Zeros(n)) = n /\ \A i \in 1 .. n : Zeros(n)[i] = 0
<1>1. 0 \in Bytes
  BY DEF Bytes
<1>2. Zeros(n) \in [1 .. n -> Bytes] /\ \A i \in 1 .. n : Zeros(n)[i] = 0
  BY <1>1 DEF Zeros
<1>3. QED
  BY <1>2, FunctionSeq

LEMMA PaddedIs ==
  ASSUME NEW name \in Names
  PROVE  /\ Padded(name) \in Seq(Bytes)
         /\ IsPadded(Padded(name), name, Len(name), USER_NAME_BYTE_SIZE)
<1>1. PICK n \in Nat, l \in Nat, k \in Nat :
        n = USER_NAME_BYTE_SIZE /\ l = Len(name) /\ k = n - l /\ l < n
  <2>1. USER_NAME_BYTE_SIZE \in Nat
    BY DEF USER_NAME_BYTE_SIZE
  <2>2. PICK n \in Nat, l \in Nat : n = USER_NAME_BYTE_SIZE /\ l = Len(name) /\ l < n
    BY <2>1, NameType
  <2>3. n - l \in Nat
    BY <2>2
  <2>4. QED
    BY <2>2, <2>3
<1>2. name \in Seq(Bytes) /\ \A i \in 1 .. l : name[i] # 0
  BY <1>1, NameType
<1>3. PICK z \in Seq(Bytes) : z = Zeros(k) /\ Len(z) = k /\ \A i \in 1 .. k : z[i] = 0
  BY ZerosType
<1>4. PICK p \in Seq(Bytes) : p = Cat(name, z) /\ IsCat(p, name, z, l, k)
  BY <1>1, <1>2, <1>3, CatType
<1>5. p = Padded(name)
  BY <1>1, <1>3, <1>4 DEF Padded, Cat
<1>6. Len(p) = n
  BY <1>1, <1>4 DEF IsCat
<1>7. \A i \in 1 .. l : p[i] = name[i] /\ p[i] # 0
  BY <1>2, <1>4 DEF IsCat
<1>8. ASSUME NEW i \in 1 .. n, l < i
      PROVE  p[i] = 0
  <2>1. PICK j \in 1 .. k : i = l + j
    <3>1. i - l \in 1 .. k /\ i = l + (i - l)
      BY <1>1, <1>8
    <3>2. QED
      BY <3>1
  <2>2. p[l + j] = z[j]
    BY <1>4 DEF IsCat
  <2>3. QED
    BY <1>3, <2>1, <2>2
<1>9. QED
  BY <1>1, <1>4, <1>5, <1>6, <1>7, <1>8 DEF IsPadded

LEMMA NamePart ==
  ASSUME NEW name \in Names, NEW p \in Seq(Bytes), NEW l \in Nat, NEW n \in Nat,
         IsPadded(p, name, l, n)
  PROVE  SubSeq(p, 1, l) = name
<1>1. name \in Seq(Bytes)
  BY NameType
<1>2. \A i \in 1 .. l : 0 + i = i
  OBVIOUS
<1>3. IsPart(name, p, 0, l)
  BY <1>2 DEF IsPart, Fits, IsPadded
<1>4. Get(p, 0, l) = name
  BY <1>1, <1>3, GetOf
<1>5. 0 + 1 = 1 /\ 0 + l = l
  OBVIOUS
<1>6. QED
  BY <1>4, <1>5 DEF Get

\* The server removes the zeros after a name, and no byte of the name.
LEMMA NameStripped ==
  ASSUME NEW name \in Names, NEW p \in Seq(Bytes), NEW l \in Nat, NEW n \in Nat,
         IsPadded(p, name, l, n)
  PROVE  rstrip(p) = name
<1>1. PICK I : I = {i \in 1 .. Len(p) : p[i] # 0}
  OBVIOUS
<1>2. I = 1 .. l
  <2>1. Len(p) = n /\ l < n
    BY DEF IsPadded
  <2>2. \A i \in 1 .. n : p[i] # 0 => i \in 1 .. l
    BY DEF IsPadded
  <2>3. \A i \in 1 .. l : i \in 1 .. n /\ p[i] # 0
    BY <2>1 DEF IsPadded
  <2>4. QED
    BY <1>1, <2>1, <2>2, <2>3
<1>3. SelectLastInSeq(p, LAMBDA x : x # 0) = IF I # {} THEN Max(I) ELSE 0
  BY <1>1 DEF SelectLastInSeq
<1>4. I # {} => Max(I) = l
  <2>1. SUFFICES ASSUME I # {}
                 PROVE  Max(I) = l
    OBVIOUS
  <2>2. l \in I /\ \A j \in I : l >= j
    BY <1>2, <2>1
  <2>3. \A k \in I : (\A j \in I : k >= j) => k = l
    BY <1>2, <2>2
  <2>4. QED
    BY <2>2, <2>3 DEF Max
<1>5. I = {} => l = 0
  BY <1>2
<1>6. SelectLastInSeq(p, LAMBDA x : x # 0) = l
  BY <1>3, <1>4, <1>5
<1>7. rstrip(p) = SubSeq(p, 1, l)
  BY <1>6 DEF rstrip
<1>8. QED
  BY <1>7, NamePart

\* The client takes a name to end at the first zero.
LEMMA NameCut ==
  ASSUME NEW name \in Names, NEW p \in Seq(Bytes), NEW l \in Nat, NEW n \in Nat,
         IsPadded(p, name, l, n)
  PROVE  CString(p) = name
<1>1. PICK I : I = {i \in 1 .. Len(p) : p[i] = 0}
  OBVIOUS
<1>2. I = l + 1 .. n
  <2>1. Len(p) = n /\ l < n
    BY DEF IsPadded
  <2>2. \A i \in 1 .. n : p[i] = 0 => i \in l + 1 .. n
    <3>1. \A i \in 1 .. n : ~ (l < i) => i \in 1 .. l
      OBVIOUS
    <3>2. \A i \in 1 .. n : p[i] = 0 => l < i
      BY <3>1 DEF IsPadded
    <3>3. QED
      BY <3>2
  <2>3. \A i \in l + 1 .. n : i \in 1 .. n /\ p[i] = 0
    BY <2>1 DEF IsPadded
  <2>4. QED
    BY <1>1, <2>1, <2>2, <2>3
<1>3. PICK k \in Nat : k = l + 1 /\ k <= n
  BY DEF IsPadded
<1>4. k \in I /\ \A j \in I : k =< j
  BY <1>2, <1>3
<1>5. \A m \in I : (\A j \in I : m =< j) => m = k
  BY <1>2, <1>3, <1>4
<1>6. Min(I) = k
  BY <1>4, <1>5 DEF Min
<1>7. SelectInSeq(p, LAMBDA x : x = 0) = k
  BY <1>1, <1>4, <1>6 DEF SelectInSeq
<1>8. k # 0 /\ k - 1 = l
  BY <1>3
<1>9. CString(p) = SubSeq(p, 1, l)
  BY <1>7, <1>8 DEF CString
<1>10. QED
  BY <1>9, NamePart

-----------------------------------------------------------------------------
\* The first buffer of a request

LEMMA AtType ==
  ASSUME NEW o \in Nat, NEW x \in Seq(Bytes)
  PROVE  At(o, x) \in FieldSet /\ At(o, x).offset = o /\ At(o, x).bytes = x /\ End(At(o, x)) = o + Len(x)
BY DEF At, FieldSet, End

LEMMA FieldIn ==
  ASSUME NEW fields \in Seq(FieldSet), Chain(fields), NEW k \in 1 .. Len(fields),
         NEW o \in Nat, NEW x \in Seq(Bytes), fields[k] = At(o, x),
         o + Len(x) <= BUFFER_PARTITION_SIZE
  PROVE  Get(Filled(fields), o, Len(x)) = x
<1>1. fields[k].offset = o /\ fields[k].bytes = x /\ End(fields[k]) = o + Len(x)
  BY AtType
<1>2. QED
  BY <1>1, FilledField

LEMMA OneMore ==
  ASSUME NEW fields \in Seq(FieldSet), Chain(fields), NEW n \in Nat \ {0}, Len(fields) = n,
         NEW f \in FieldSet, End(fields[n]) <= f.offset
  PROVE  /\ Append(fields, f) \in Seq(FieldSet) /\ Chain(Append(fields, f))
         /\ Len(Append(fields, f)) = n + 1 /\ Append(fields, f)[n + 1] = f
         /\ \A k \in 1 .. n : Append(fields, f)[k] = fields[k]
<1>1. PICK g : g = Append(fields, f)
  OBVIOUS
<1>2. /\ g \in Seq(FieldSet) /\ Len(g) = n + 1 /\ g[n + 1] = f
      /\ \A k \in 1 .. n : g[k] = fields[k]
  BY <1>1, AppendProperties
<1>3. ASSUME NEW k \in 1 .. Len(g) - 1
      PROVE  End(g[k]) <= g[k + 1].offset
  <2>1. k \in 1 .. n /\ g[k] = fields[k]
    BY <1>2
  <2>2. CASE k = n
    BY <1>2, <2>1, <2>2
  <2>3. CASE k # n
    <3>1. k \in 1 .. Len(fields) - 1 /\ k + 1 \in 1 .. n
      BY <2>1, <2>3
    <3>2. g[k + 1] = fields[k + 1]
      BY <1>2, <3>1
    <3>3. QED
      BY <2>1, <3>1, <3>2 DEF Chain
  <2>4. QED
    BY <2>2, <2>3
<1>4. QED
  BY <1>1, <1>2, <1>3 DEF Chain

LEMMA AppendTwo ==
  ASSUME NEW S, NEW s \in Seq(S), NEW a \in S, NEW b \in S
  PROVE  s \o <<a, b>> = Append(Append(s, a), b)
<1>1. Append(s, a) \in Seq(S) /\ Append(s, a) = s \o <<a>>
  BY AppendProperties, AppendIsConcat
<1>2. Append(Append(s, a), b) = Append(s, a) \o <<b>>
  BY <1>1, AppendIsConcat
<1>3. <<a>> \in Seq(S) /\ <<b>> \in Seq(S)
  OBVIOUS
<1>4. (s \o <<a>>) \o <<b>> = s \o (<<a>> \o <<b>>)
  BY <1>3, ConcatAssociative
<1>5. <<a>> \o <<b>> = <<a, b>>
  <2>1. Append(<<a>>, b) = <<a, b>>
    <3>1. PICK l : l = Append(<<a>>, b)
      OBVIOUS
    <3>2. <<a>>[1] = a /\ Len(<<a>>) = 1
      OBVIOUS
    <3>3. l \in Seq(S) /\ Len(l) = 2 /\ l[1] = a /\ l[2] = b
      BY <1>3, <3>1, <3>2, AppendProperties
    <3>4. PICK t : t = <<a, b>>
      OBVIOUS
    <3>5. t \in [1 .. 2 -> S] /\ t[1] = a /\ t[2] = b
      BY <3>4, PairType
    <3>6. t \in Seq(S) /\ Len(t) = 2
      BY <3>5, FunctionSeq
    <3>7. l = t
      BY <3>3, <3>5, <3>6, SameSeq
    <3>8. QED
      BY <3>1, <3>4, <3>7
  <2>2. Append(<<a>>, b) = <<a>> \o <<b>>
    BY <1>3, AppendIsConcat
  <2>3. QED
    BY <2>1, <2>2
<1>6. QED
  BY <1>1, <1>2, <1>4, <1>5

LEMMA IdSeq ==
  ASSUME NEW id \in IdBytes
  PROVE  id \in Seq(Bytes) /\ Len(id) = CLIENT_ID_BYTE_SIZE
<1>1. PICK n \in Nat : n = CLIENT_ID_BYTE_SIZE
  BY DEF CLIENT_ID_BYTE_SIZE
<1>2. id \in [1 .. n -> Bytes]
  BY <1>1 DEF IdBytes
<1>3. QED
  BY <1>1, <1>2, FunctionSeq

LEMMA StringsType == Strings \subseteq HexStrings
BY CodecAssumption, IdStringType DEF Strings

\* The requests that are made
LEMMA MadeTypes ==
  ASSUME NEW r \in MadeRequests
  PROVE  /\ r.op \in {"REGISTER", "LIST_CLIENTS", "GET_PUBLIC_KEY", "SEND_MESSAGE", "PULL_MESSAGES"}
         /\ r.clientId \in HexStrings
         /\ r.op = "REGISTER" => r.userName \in Names /\ r.publicKey \in PublicKeys
         /\ r.op \in {"GET_PUBLIC_KEY", "SEND_MESSAGE"} => r.destClientId \in HexStrings
         /\ r.op = "SEND_MESSAGE" =>
              /\ r.messageType \in Bytes /\ r.content \in Seq(Bytes)
              /\ Len(r.content) + SendHeaderSize <= MaxNumber
BY CodecAssumption, StringsType, FakeIdType DEF MadeRequests

LEMMA KeySeq ==
  ASSUME NEW key \in PublicKeys
  PROVE  key \in Seq(Bytes) /\ Len(key) = PUBLIC_KEY_BYTE_SIZE
<1>1. PICK n \in Nat : n = PUBLIC_KEY_BYTE_SIZE
  BY DEF PUBLIC_KEY_BYTE_SIZE
<1>2. key \in [1 .. n -> Bytes]
  BY <1>1, CodecAssumption
<1>3. QED
  BY <1>1, <1>2, FunctionSeq

LEMMA HexBytes ==
  ASSUME NEW h \in HexStrings
  PROVE  parseClientId(h) \in Seq(Bytes) /\ Len(parseClientId(h)) = CLIENT_ID_BYTE_SIZE
BY IdBack, IdSeq

LEMMA SizeBound ==
  ASSUME NEW r \in MadeRequests
  PROVE  payloadSize(r) \in Nat /\ payloadSize(r) <= MaxNumber
<1>1. CASE r.op = "SEND_MESSAGE"
  <2>1. PICK n \in Nat : n = Len(r.content) /\ n + SendHeaderSize <= MaxNumber
    BY <1>1, MadeTypes, SeqLen
  <2>2. payloadSize(r) = CLIENT_ID_BYTE_SIZE + 1 + 4 + n
    BY <1>1, <2>1 DEF payloadSize
  <2>3. QED
    BY SMT, <2>1, <2>2 DEF CLIENT_ID_BYTE_SIZE, SendHeaderSize, RequestHeaderSize, MaxNumber
<1>2. CASE r.op # "SEND_MESSAGE"
  <2>1. payloadSize(r) \in {0, 16, 415}
    BY <1>2, MadeTypes DEF payloadSize, CLIENT_ID_BYTE_SIZE, USER_NAME_BYTE_SIZE, PUBLIC_KEY_BYTE_SIZE
  <2>2. QED
    BY SMT, <2>1 DEF MaxNumber
<1>3. QED
  BY <1>1, <1>2

LEMMA CodeBound ==
  ASSUME NEW op \in DOMAIN RequestCode
  PROVE  RequestCode[op] \in Nat /\ RequestCode[op] < 65536 /\ RequestCode[op] <= 1104
BY DEF RequestCode

\* The fields of the header
IsHeader(fields, r) ==
  /\ fields[1] = At(0, parseClientId(r.clientId))
  /\ fields[2] = At(VERSION_OFFSET, parseNumIntoBuffer(CLIENT_VERSION, 1))
  /\ fields[3] = At(REQUEST_CODE_OFFSET, parseNumIntoBuffer(RequestCode[r.op], 2))
  /\ fields[4] = At(PAYLOAD_SIZE_OFFSET, parseNumIntoBuffer(payloadSize(r), 4))

LEMMA NumSeq ==
  ASSUME NEW num \in Nat, NEW n \in {1, 2, 4}
  PROVE  parseNumIntoBuffer(num, n) \in Seq(Bytes) /\ Len(parseNumIntoBuffer(num, n)) = n
BY NumBytes

LEMMA HeaderBytes ==
  ASSUME NEW r \in MadeRequests
  PROVE  /\ parseClientId(r.clientId) \in Seq(Bytes) /\ Len(parseClientId(r.clientId)) = 16
         /\ parseNumIntoBuffer(CLIENT_VERSION, 1) \in Seq(Bytes)
         /\ Len(parseNumIntoBuffer(CLIENT_VERSION, 1)) = 1
         /\ parseNumIntoBuffer(RequestCode[r.op], 2) \in Seq(Bytes)
         /\ Len(parseNumIntoBuffer(RequestCode[r.op], 2)) = 2
         /\ parseNumIntoBuffer(payloadSize(r), 4) \in Seq(Bytes)
         /\ Len(parseNumIntoBuffer(payloadSize(r), 4)) = 4
<1>1. parseClientId(r.clientId) \in Seq(Bytes) /\ Len(parseClientId(r.clientId)) = 16
  BY MadeTypes, HexBytes DEF CLIENT_ID_BYTE_SIZE
<1>2. /\ parseNumIntoBuffer(CLIENT_VERSION, 1) \in Seq(Bytes)
      /\ Len(parseNumIntoBuffer(CLIENT_VERSION, 1)) = 1
  <2>1. CLIENT_VERSION \in Nat
    BY DEF CLIENT_VERSION
  <2>2. QED
    BY <2>1, NumSeq
<1>3. /\ parseNumIntoBuffer(RequestCode[r.op], 2) \in Seq(Bytes)
      /\ Len(parseNumIntoBuffer(RequestCode[r.op], 2)) = 2
  <2>1. r.op \in DOMAIN RequestCode
    BY MadeTypes DEF RequestCode
  <2>2. RequestCode[r.op] \in Nat
    BY <2>1, CodeBound
  <2>3. QED
    BY <2>2, NumSeq
<1>4. /\ parseNumIntoBuffer(payloadSize(r), 4) \in Seq(Bytes)
      /\ Len(parseNumIntoBuffer(payloadSize(r), 4)) = 4
  BY SizeBound, NumSeq
<1>5. QED
  BY <1>1, <1>2, <1>3, <1>4

LEMMA HeaderFields ==
  ASSUME NEW r \in MadeRequests
  PROVE  /\ parseHeaderIntoBuffer(r) \in Seq(FieldSet) /\ Len(parseHeaderIntoBuffer(r)) = 4
         /\ IsHeader(parseHeaderIntoBuffer(r), r) /\ Chain(parseHeaderIntoBuffer(r))
         /\ End(parseHeaderIntoBuffer(r)[4]) = RequestHeaderSize
<1>1. PICK a, b, c, d \in Seq(Bytes) :
        /\ a = parseClientId(r.clientId) /\ b = parseNumIntoBuffer(CLIENT_VERSION, 1)
        /\ c = parseNumIntoBuffer(RequestCode[r.op], 2) /\ d = parseNumIntoBuffer(payloadSize(r), 4)
        /\ Len(a) = 16 /\ Len(b) = 1 /\ Len(c) = 2 /\ Len(d) = 4
  BY HeaderBytes
<1>2. PICK o, p, q, w \in Nat :
        /\ o = 0 /\ p = VERSION_OFFSET /\ q = REQUEST_CODE_OFFSET /\ w = PAYLOAD_SIZE_OFFSET
        /\ p = 16 /\ q = 17 /\ w = 19
  BY DEF VERSION_OFFSET, REQUEST_CODE_OFFSET, PAYLOAD_SIZE_OFFSET, CLIENT_ID_BYTE_SIZE
<1>3. PICK e, f, g, h \in FieldSet :
        /\ e = At(o, a) /\ f = At(p, b) /\ g = At(q, c) /\ h = At(w, d)
        /\ e.offset = 0 /\ f.offset = 16 /\ g.offset = 17 /\ h.offset = 19
        /\ End(e) = 16 /\ End(f) = 17 /\ End(g) = 19 /\ End(h) = 23
  <2>1. PICK e \in FieldSet : e = At(o, a) /\ e.offset = o /\ End(e) = o + Len(a)
    BY AtType
  <2>2. PICK f \in FieldSet : f = At(p, b) /\ f.offset = p /\ End(f) = p + Len(b)
    BY AtType
  <2>3. PICK g \in FieldSet : g = At(q, c) /\ g.offset = q /\ End(g) = q + Len(c)
    BY AtType
  <2>4. PICK h \in FieldSet : h = At(w, d) /\ h.offset = w /\ End(h) = w + Len(d)
    BY AtType
  <2>5. End(e) = 16 /\ End(f) = 17 /\ End(g) = 19 /\ End(h) = 23
    <3>1. Len(a) = 16 /\ Len(b) = 1 /\ Len(c) = 2 /\ Len(d) = 4
      BY <1>1
    <3>2. o = 0 /\ p = 16 /\ q = 17 /\ w = 19
      BY <1>2
    <3>3. End(e) = o + Len(a) /\ End(f) = p + Len(b) /\ End(g) = q + Len(c) /\ End(h) = w + Len(d)
      BY <2>1, <2>2, <2>3, <2>4
    <3>4. QED
      BY <3>1, <3>2, <3>3
  <2>6. QED
    BY <1>2, <2>1, <2>2, <2>3, <2>4, <2>5
<1>4. PICK hd : hd = <<e, f, g, h>>
  OBVIOUS
<1>5. hd = parseHeaderIntoBuffer(r)
  BY <1>1, <1>2, <1>3, <1>4 DEF parseHeaderIntoBuffer
<1>6. hd \in [1 .. 4 -> FieldSet] /\ hd[1] = e /\ hd[2] = f /\ hd[3] = g /\ hd[4] = h
  BY <1>4
<1>7. hd \in Seq(FieldSet) /\ Len(hd) = 4
  <2>1. PICK n \in Nat : n = 4
    OBVIOUS
  <2>2. hd \in [1 .. n -> FieldSet]
    BY <1>6, <2>1
  <2>3. hd \in Seq(FieldSet) /\ Len(hd) = n
    BY <2>2, FunctionSeq
  <2>4. QED
    BY <2>1, <2>3
<1>8. ASSUME NEW k \in 1 .. Len(hd) - 1
      PROVE  End(hd[k]) <= hd[k + 1].offset
  <2>1. k = 1 \/ k = 2 \/ k = 3
    BY <1>7
  <2>2. CASE k = 1
    BY <1>3, <1>6, <2>2
  <2>3. CASE k = 2
    BY <1>3, <1>6, <2>3
  <2>4. CASE k = 3
    BY <1>3, <1>6, <2>4
  <2>5. QED
    BY <2>1, <2>2, <2>3, <2>4
<1>9. IsHeader(hd, r)
  BY <1>1, <1>2, <1>3, <1>6 DEF IsHeader
<1>10. End(hd[4]) = RequestHeaderSize
  BY <1>3, <1>6 DEF RequestHeaderSize, CLIENT_ID_BYTE_SIZE
<1>11. QED
  BY <1>5, <1>7, <1>8, <1>9, <1>10 DEF Chain

LEMMA AppendThree ==
  ASSUME NEW S, NEW s \in Seq(S), NEW a \in S, NEW b \in S, NEW c \in S
  PROVE  s \o <<a, b, c>> = Append(Append(Append(s, a), b), c)
<1>1. PICK t : t = <<a, b>>
  OBVIOUS
<1>2. t \in Seq(S) /\ Len(t) = 2 /\ t[1] = a /\ t[2] = b
  <2>1. t \in [1 .. 2 -> S] /\ t[1] = a /\ t[2] = b
    BY <1>1, PairType
  <2>2. QED
    BY <2>1, FunctionSeq
<1>3. Append(t, c) = <<a, b, c>>
  <2>1. PICK l : l = Append(t, c)
    OBVIOUS
  <2>2. l \in Seq(S) /\ Len(l) = 3 /\ l[1] = a /\ l[2] = b /\ l[3] = c
    <3>1. t \in Seq(S)
      BY <1>2
    <3>2. /\ Append(t, c) \in Seq(S) /\ Len(Append(t, c)) = Len(t) + 1
          /\ Append(t, c)[Len(t) + 1] = c /\ \A i \in 1 .. Len(t) : Append(t, c)[i] = t[i]
      BY <3>1, AppendProperties
    <3>3. Len(t) = 2 /\ t[1] = a /\ t[2] = b
      BY <1>2
    <3>4. QED
      BY <2>1, <3>2, <3>3
  <2>3. PICK u : u = <<a, b, c>>
    OBVIOUS
  <2>4. u \in [1 .. 3 -> S] /\ u[1] = a /\ u[2] = b /\ u[3] = c
    BY <2>3
  <2>5. u \in Seq(S) /\ Len(u) = 3
    BY <2>4, FunctionSeq
  <2>6. l = u
    BY <2>2, <2>4, <2>5, SameSeq
  <2>7. QED
    BY <2>1, <2>3, <2>6
<1>4. <<c>> \in Seq(S)
  OBVIOUS
<1>5. Append(t, c) = t \o <<c>>
  BY <1>2, AppendIsConcat
<1>6. s \o (t \o <<c>>) = (s \o t) \o <<c>>
  BY <1>2, <1>4, ConcatAssociative
<1>7. s \o t \in Seq(S)
  BY <1>2, ConcatProperties
<1>8. (s \o t) \o <<c>> = Append(s \o t, c)
  BY <1>7, AppendIsConcat
<1>9. s \o t = Append(Append(s, a), b)
  BY <1>1, AppendTwo
<1>10. QED
  BY <1>3, <1>5, <1>6, <1>8, <1>9

\* What the server reads from the first buffer, but for the content
HeaderIn(b, r) ==
  /\ Get(b, 0, CLIENT_ID_BYTE_SIZE) = parseClientId(r.clientId)
  /\ Get(b, REQUEST_CODE_OFFSET, 2) = parseNumIntoBuffer(RequestCode[r.op], 2)
  /\ Get(b, PAYLOAD_SIZE_OFFSET, 4) = parseNumIntoBuffer(payloadSize(r), 4)

FirstBuffer(b, r) ==
  /\ b \in BufferSet /\ HeaderIn(b, r)
  /\ r.op = "REGISTER" =>
       /\ IsPadded(Get(b, PAYLOAD_OFFSET, USER_NAME_BYTE_SIZE), r.userName,
                   Len(r.userName), USER_NAME_BYTE_SIZE)
       /\ Get(b, PUBLIC_KEY_OFFSET, PUBLIC_KEY_BYTE_SIZE) = r.publicKey
  /\ r.op \in {"GET_PUBLIC_KEY", "SEND_MESSAGE"} =>
       Get(b, PAYLOAD_OFFSET, CLIENT_ID_BYTE_SIZE) = parseClientId(r.destClientId)
  /\ r.op = "SEND_MESSAGE" =>
       /\ Get(b, MESSAGE_TYPE_OFFSET, 1) = parseNumIntoBuffer(r.messageType, 1)
       /\ Get(b, CONTENT_SIZE_OFFSET, 4) = parseNumIntoBuffer(Len(r.content), 4)

LEMMA Offsets ==
  /\ VERSION_OFFSET = 16 /\ REQUEST_CODE_OFFSET = 17 /\ PAYLOAD_SIZE_OFFSET = 19
  /\ PAYLOAD_OFFSET = 23 /\ PUBLIC_KEY_OFFSET = 278 /\ MESSAGE_TYPE_OFFSET = 39
  /\ CONTENT_SIZE_OFFSET = 40 /\ CONTENT_OFFSET = 44
  /\ RequestHeaderSize = 23 /\ SendHeaderSize = 44 /\ BUFFER_PARTITION_SIZE = 1024
  /\ CLIENT_ID_BYTE_SIZE = 16 /\ USER_NAME_BYTE_SIZE = 255 /\ PUBLIC_KEY_BYTE_SIZE = 160
BY DEF VERSION_OFFSET, REQUEST_CODE_OFFSET, PAYLOAD_SIZE_OFFSET, PAYLOAD_OFFSET, PUBLIC_KEY_OFFSET,
       MESSAGE_TYPE_OFFSET, CONTENT_SIZE_OFFSET, CONTENT_OFFSET, RequestHeaderSize, SendHeaderSize,
       BUFFER_PARTITION_SIZE, CLIENT_ID_BYTE_SIZE, USER_NAME_BYTE_SIZE, PUBLIC_KEY_BYTE_SIZE

LEMMA HeaderRead ==
  ASSUME NEW r \in MadeRequests, NEW fields \in Seq(FieldSet), Chain(fields),
         4 <= Len(fields), IsHeader(fields, r)
  PROVE  HeaderIn(Filled(fields), r)
<1>1. PICK a, c, d \in Seq(Bytes) :
        /\ a = parseClientId(r.clientId)
        /\ c = parseNumIntoBuffer(RequestCode[r.op], 2) /\ d = parseNumIntoBuffer(payloadSize(r), 4)
  BY HeaderBytes
<1>2. Len(a) = 16 /\ Len(c) = 2 /\ Len(d) = 4
  BY <1>1, HeaderBytes
<1>3. PICK o, q, w \in Nat :
        o = 0 /\ q = REQUEST_CODE_OFFSET /\ w = PAYLOAD_SIZE_OFFSET /\ q = 17 /\ w = 19
  BY Offsets
<1>4. PICK b : b = Filled(fields)
  OBVIOUS
<1>5. fields[1] = At(o, a) /\ fields[3] = At(q, c) /\ fields[4] = At(w, d)
  BY <1>1, <1>3 DEF IsHeader
<1>6. 1 \in 1 .. Len(fields) /\ 3 \in 1 .. Len(fields) /\ 4 \in 1 .. Len(fields)
  BY SeqLen
<1>7. /\ o + Len(a) <= BUFFER_PARTITION_SIZE /\ q + Len(c) <= BUFFER_PARTITION_SIZE
      /\ w + Len(d) <= BUFFER_PARTITION_SIZE
  BY <1>2, <1>3, Offsets
<1>8. Get(b, o, Len(a)) = a
  BY <1>4, <1>5, <1>6, <1>7, FieldIn
<1>9. Get(b, q, Len(c)) = c
  BY <1>4, <1>5, <1>6, <1>7, FieldIn
<1>10. Get(b, w, Len(d)) = d
  BY <1>4, <1>5, <1>6, <1>7, FieldIn
<1>11. QED
  BY <1>1, <1>2, <1>3, <1>4, <1>8, <1>9, <1>10, Offsets DEF HeaderIn

\* A list of fields that starts with the header
Started(fields, r, n, e) ==
  /\ fields \in Seq(FieldSet) /\ Chain(fields) /\ Len(fields) = n /\ IsHeader(fields, r)
  /\ End(fields[n]) = e

LEMMA StartedHeader ==
  ASSUME NEW r \in MadeRequests
  PROVE  Started(parseHeaderIntoBuffer(r), r, 4, RequestHeaderSize)
BY HeaderFields DEF Started

\* Field k of l bytes, from o on to d, comes after one that has ended at e.
Follows(n, k, e, o, l, d) == n >= 4 /\ k = n + 1 /\ e <= o /\ d = o + l
HasBytes(x, l) == x \in Seq(Bytes) /\ Len(x) = l
SameUpTo(g, fields, n) == \A i \in 1 .. n : g[i] = fields[i]
HasField(fields, n, k, o, x) == k \in 1 .. n /\ fields[k] = At(o, x)

LEMMA StartedMore ==
  ASSUME NEW r, NEW fields, NEW n \in Nat, NEW e \in Nat, Started(fields, r, n, e),
         NEW x, NEW l \in Nat, HasBytes(x, l),
         NEW k \in Nat, NEW o \in Nat, NEW d \in Nat, Follows(n, k, e, o, l, d)
  PROVE  /\ At(o, x) \in FieldSet
         /\ Started(Append(fields, At(o, x)), r, k, d)
         /\ HasField(Append(fields, At(o, x)), k, k, o, x)
         /\ SameUpTo(Append(fields, At(o, x)), fields, n)
<1>1. PICK f \in FieldSet : f = At(o, x) /\ f.offset = o /\ End(f) = o + l
  <2>1. x \in Seq(Bytes) /\ Len(x) = l
    BY DEF HasBytes
  <2>2. At(o, x) \in FieldSet /\ At(o, x).offset = o /\ End(At(o, x)) = o + Len(x)
    BY <2>1, AtType
  <2>3. QED
    BY <2>1, <2>2
<1>2. fields \in Seq(FieldSet) /\ Chain(fields) /\ Len(fields) = n /\ IsHeader(fields, r)
  BY DEF Started
<1>3. n \in Nat \ {0} /\ n >= 4 /\ k = n + 1 /\ d = o + l
  BY DEF Follows
<1>4. End(fields[n]) <= f.offset
  BY <1>1 DEF Started, Follows
<1>5. PICK g : g = Append(fields, f)
  OBVIOUS
<1>6. /\ g \in Seq(FieldSet) /\ Chain(g) /\ Len(g) = n + 1 /\ g[n + 1] = f
      /\ \A i \in 1 .. n : g[i] = fields[i]
  BY <1>2, <1>3, <1>4, <1>5, OneMore
<1>7. g[1] = fields[1] /\ g[2] = fields[2] /\ g[3] = fields[3] /\ g[4] = fields[4]
  BY <1>3, <1>6
<1>8. IsHeader(g, r)
  BY <1>2, <1>7 DEF IsHeader
<1>9. k \in 1 .. k /\ Len(g) = k /\ g[k] = f
  BY <1>3, <1>6
<1>10. Started(g, r, k, d) /\ HasField(g, k, k, o, x)
  BY <1>1, <1>3, <1>6, <1>8, <1>9 DEF Started, HasField
<1>11. SameUpTo(g, fields, n)
  BY <1>6 DEF SameUpTo
<1>12. QED
  BY <1>1, <1>5, <1>10, <1>11

LEMMA StartedRead ==
  ASSUME NEW r \in MadeRequests, NEW fields, NEW n \in Nat, n >= 4, NEW e, Started(fields, r, n, e)
  PROVE  Filled(fields) \in BufferSet /\ HeaderIn(Filled(fields), r)
<1>1. fields \in Seq(FieldSet) /\ Chain(fields) /\ 4 <= Len(fields) /\ IsHeader(fields, r)
  BY DEF Started
<1>2. QED
  BY <1>1, FilledType, HeaderRead

LEMMA StartedField ==
  ASSUME NEW r, NEW fields, NEW n \in Nat, NEW e, Started(fields, r, n, e),
         NEW k, NEW o \in Nat, NEW x, HasField(fields, n, k, o, x),
         NEW l \in Nat, HasBytes(x, l), NEW d, d <= BUFFER_PARTITION_SIZE, d = o + l
  PROVE  Get(Filled(fields), o, l) = x
<1>1. fields \in Seq(FieldSet) /\ Chain(fields) /\ k \in 1 .. Len(fields) /\ fields[k] = At(o, x)
  BY DEF Started, HasField
<1>2. x \in Seq(Bytes) /\ Len(x) = l
  BY DEF HasBytes
<1>3. o + Len(x) <= BUFFER_PARTITION_SIZE
  BY <1>2
<1>4. Get(Filled(fields), o, Len(x)) = x
  BY <1>1, <1>2, <1>3, FieldIn
<1>5. QED
  BY <1>2, <1>4

\* The buffer of a request without payload
LEMMA PlainBuffer ==
  ASSUME NEW r \in MadeRequests, r.op \in {"LIST_CLIENTS", "PULL_MESSAGES"}
  PROVE  FirstBuffer(Filled(Fields(r)), r)
<1>1. Fields(r) = parseHeaderIntoBuffer(r)
  BY DEF Fields
<1>2. Started(Fields(r), r, 4, RequestHeaderSize)
  BY <1>1, StartedHeader
<1>3. Filled(Fields(r)) \in BufferSet /\ HeaderIn(Filled(Fields(r)), r)
  BY <1>2, StartedRead
<1>4. QED
  BY <1>3 DEF FirstBuffer

LEMMA KeyBuffer ==
  ASSUME NEW r \in MadeRequests, r.op = "GET_PUBLIC_KEY"
  PROVE  FirstBuffer(Filled(Fields(r)), r)
<1>1. PICK x : x = parseClientId(r.destClientId) /\ HasBytes(x, CLIENT_ID_BYTE_SIZE)
  BY MadeTypes, HexBytes DEF HasBytes
<1>2. PICK n, k, e, o, l, d \in Nat :
        /\ n = 4 /\ k = 5 /\ e = RequestHeaderSize /\ o = PAYLOAD_OFFSET /\ l = CLIENT_ID_BYTE_SIZE
        /\ d = o + l /\ d <= BUFFER_PARTITION_SIZE /\ Follows(n, k, e, o, l, d)
  BY Offsets DEF Follows
<1>3. PICK h : h = parseHeaderIntoBuffer(r) /\ Started(h, r, n, e)
  BY <1>2, StartedHeader
<1>4. PICK g : g = Append(h, At(o, x))
  OBVIOUS
<1>5. HasBytes(x, l)
  BY <1>1, <1>2
<1>6. Started(g, r, k, d) /\ HasField(g, k, k, o, x)
  BY <1>2, <1>3, <1>4, <1>5, StartedMore
<1>7. Filled(g) \in BufferSet /\ HeaderIn(Filled(g), r)
  BY <1>2, <1>6, StartedRead
<1>8. Get(Filled(g), o, l) = x
  <2>1. d <= BUFFER_PARTITION_SIZE /\ d = o + l
    BY <1>2
  <2>2. QED
    BY <1>5, <1>6, <2>1, StartedField
<1>9. g = Fields(r)
  BY <1>1, <1>2, <1>3, <1>4 DEF Fields
<1>10. QED
  BY <1>1, <1>2, <1>7, <1>8, <1>9 DEF FirstBuffer

\* A name is followed by zeros up to the next field.
LEMMA NameInBuffer ==
  ASSUME NEW g \in Seq(FieldSet), Chain(g), NEW j \in 1 .. Len(g) - 1,
         NEW o \in Nat, NEW name \in Names, g[j] = At(o, name),
         g[j + 1].offset = o + USER_NAME_BYTE_SIZE,
         o + USER_NAME_BYTE_SIZE <= BUFFER_PARTITION_SIZE
  PROVE  /\ Get(Filled(g), o, USER_NAME_BYTE_SIZE) \in Seq(Bytes)
         /\ IsPadded(Get(Filled(g), o, USER_NAME_BYTE_SIZE), name, Len(name), USER_NAME_BYTE_SIZE)
<1>1. PICK l \in Nat : /\ name \in Seq(Bytes) /\ Len(name) = l /\ l < USER_NAME_BYTE_SIZE
                       /\ \A i \in 1 .. l : name[i] # 0
  BY NameType
<1>2. PICK z, s, q \in Nat :
        /\ z = BUFFER_PARTITION_SIZE /\ s = USER_NAME_BYTE_SIZE /\ q = o + s /\ q <= z /\ l < s
  <2>1. BUFFER_PARTITION_SIZE \in Nat /\ USER_NAME_BYTE_SIZE \in Nat
    BY DEF BUFFER_PARTITION_SIZE, USER_NAME_BYTE_SIZE
  <2>2. QED
    BY <1>1, <2>1
<1>3. PICK b \in Seq(Bytes) : b = Filled(g) /\ Len(b) = z
  <2>1. Filled(g) \in BufferSet
    BY FilledType
  <2>2. QED
    BY <1>2, <2>1 DEF BufferSet
<1>4. PICK p \in Seq(Bytes) : p = Get(b, o, s) /\ IsPart(p, b, o, s)
  <2>1. Fits(b, o, s)
    BY <1>2, <1>3 DEF Fits
  <2>2. QED
    BY <2>1, GetType
<1>5. PICK n \in Nat : n = Len(g) /\ j \in 1 .. n /\ j \in Nat
  BY SeqLen
<1>6. Get(b, o, l) = name
  <2>1. o + Len(name) <= BUFFER_PARTITION_SIZE
    BY <1>1, <1>2
  <2>2. j \in 1 .. Len(g)
    BY <1>5
  <2>3. Get(Filled(g), o, Len(name)) = name
    BY <1>1, <2>1, <2>2, FieldIn
  <2>4. QED
    BY <1>1, <1>3, <2>3
<1>7. ASSUME NEW i \in 1 .. l
      PROVE  p[i] = name[i]
  <2>1. PICK u \in Seq(Bytes) : u = Get(b, o, l) /\ IsPart(u, b, o, l)
    <3>1. Fits(b, o, l)
      BY <1>2, <1>3 DEF Fits
    <3>2. QED
      BY <3>1, GetType
  <2>2. u[i] = b[o + i]
    BY <2>1 DEF IsPart
  <2>3. i \in 1 .. s
    BY <1>2
  <2>4. p[i] = b[o + i]
    BY <1>4, <2>3 DEF IsPart
  <2>5. QED
    BY <1>6, <2>1, <2>2, <2>4
<1>8. ASSUME NEW i \in 1 .. s, l < i
      PROVE  p[i] = 0
  <2>1. p[i] = b[o + i]
    BY <1>4 DEF IsPart
  <2>2. PICK v \in Nat : v = o + i /\ v \in 1 .. z /\ o + l < v /\ v <= q
    <3>1. o + i \in Nat /\ o + i \in 1 .. z /\ o + l < o + i /\ o + i <= q
      BY <1>2, <1>8
    <3>2. QED
      BY <3>1
  <2>3. End(g[j]) = o + l
    <3>1. End(At(o, name)) = o + Len(name)
      BY <1>1, AtType
    <3>2. QED
      BY <1>1, <3>1
  <2>4. v \in 1 .. BUFFER_PARTITION_SIZE /\ End(g[j]) < v /\ v <= g[j + 1].offset
    BY <1>2, <2>2, <2>3
  <2>5. Filled(g)[v] = 0
    BY <2>4, FilledGap
  <2>6. QED
    BY <1>3, <2>1, <2>2, <2>5
<1>9. IsPadded(p, name, l, s)
  <2>1. Len(p) = s
    BY <1>4 DEF IsPart
  <2>2. QED
    BY <1>1, <1>2, <1>7, <1>8, <2>1 DEF IsPadded
<1>10. QED
  BY <1>1, <1>2, <1>3, <1>4, <1>9

LEMMA RegisterBuffer ==
  ASSUME NEW r \in MadeRequests, r.op = "REGISTER"
  PROVE  FirstBuffer(Filled(Fields(r)), r)
<1>1. PICK x : x = r.userName /\ x \in Names
  BY MadeTypes
<1>2. PICK y : y = r.publicKey /\ HasBytes(y, PUBLIC_KEY_BYTE_SIZE)
  BY MadeTypes, KeySeq DEF HasBytes
<1>3. PICK l \in Nat : HasBytes(x, l) /\ l < USER_NAME_BYTE_SIZE
  BY <1>1, NameType DEF HasBytes
<1>4. PICK n, j, k, e, o, q, m, c, d \in Nat :
        /\ n = 4 /\ j = 5 /\ k = 6 /\ e = RequestHeaderSize /\ o = PAYLOAD_OFFSET
        /\ q = PUBLIC_KEY_OFFSET /\ m = PUBLIC_KEY_BYTE_SIZE /\ c = o + l /\ d = q + m
        /\ Follows(n, j, e, o, l, c) /\ Follows(j, k, c, q, m, d) /\ d <= BUFFER_PARTITION_SIZE
        /\ q = o + USER_NAME_BYTE_SIZE /\ q <= BUFFER_PARTITION_SIZE
  <2>1. PICK o, c \in Nat : o = PAYLOAD_OFFSET /\ o = 23 /\ c = o + l /\ c < 278
    <3>1. PAYLOAD_OFFSET \in Nat /\ PAYLOAD_OFFSET = 23 /\ PAYLOAD_OFFSET + l \in Nat
          /\ PAYLOAD_OFFSET + l < 278
      BY <1>3, Offsets
    <3>2. QED
      BY <3>1
  <2>2. QED
    BY <2>1, Offsets DEF Follows
<1>5. PICK h : h = parseHeaderIntoBuffer(r) /\ Started(h, r, n, e)
  BY <1>4, StartedHeader
<1>6. PICK f : f = Append(h, At(o, x))
  OBVIOUS
<1>7. PICK g : g = Append(f, At(q, y))
  OBVIOUS
<1>8. At(o, x) \in FieldSet /\ Started(f, r, j, c) /\ HasField(f, j, j, o, x)
  <2>1. Follows(n, j, e, o, l, c) /\ HasBytes(x, l) /\ Started(h, r, n, e)
    BY <1>3, <1>4, <1>5
  <2>2. QED
    BY <1>6, <2>1, StartedMore
<1>9. HasBytes(y, m)
  BY <1>2, <1>4
<1>10. /\ At(q, y) \in FieldSet /\ Started(g, r, k, d) /\ HasField(g, k, k, q, y)
       /\ SameUpTo(g, f, j)
  <2>1. Follows(j, k, c, q, m, d) /\ HasBytes(y, m) /\ Started(f, r, j, c)
    BY <1>4, <1>8, <1>9
  <2>2. QED
    BY <1>7, <2>1, StartedMore
<1>11. PICK b : b = Filled(g) /\ b \in BufferSet /\ HeaderIn(b, r)
  <2>1. k >= 4 /\ Started(g, r, k, d)
    BY <1>4, <1>10
  <2>2. QED
    BY <2>1, StartedRead
<1>12. Get(b, q, m) = y
  <2>1. d <= BUFFER_PARTITION_SIZE /\ d = q + m
    BY <1>4
  <2>2. QED
    BY <1>9, <1>10, <1>11, <2>1, StartedField
<1>13. IsPadded(Get(b, o, USER_NAME_BYTE_SIZE), x, Len(x), USER_NAME_BYTE_SIZE)
  <2>1. g \in Seq(FieldSet) /\ Chain(g) /\ Len(g) = k
    BY <1>10 DEF Started
  <2>2. j \in 1 .. Len(g) - 1 /\ j + 1 = k /\ j \in 1 .. j
    BY <1>4, <2>1
  <2>3. g[j] = At(o, x) /\ g[j + 1] = At(q, y)
    BY <1>8, <1>10, <2>2 DEF HasField, SameUpTo
  <2>4. g[j + 1].offset = q
    BY <2>3 DEF At
  <2>5. g[j + 1].offset = o + USER_NAME_BYTE_SIZE /\ o + USER_NAME_BYTE_SIZE <= BUFFER_PARTITION_SIZE
    BY <1>4, <2>4
  <2>6. QED
    BY <1>1, <1>11, <2>1, <2>2, <2>3, <2>5, NameInBuffer
<1>14. g = Fields(r)
  <2>1. h \in Seq(FieldSet)
    BY <1>5 DEF Started
  <2>2. h \o <<At(o, x), At(q, y)>> = g
    BY <1>6, <1>7, <1>8, <1>10, <2>1, AppendTwo
  <2>3. QED
    BY <1>1, <1>2, <1>4, <1>5, <2>2 DEF Fields
<1>15. QED
  BY <1>1, <1>2, <1>4, <1>11, <1>12, <1>13, <1>14 DEF FirstBuffer

\* The bytes of the content after the first s that go into one buffer
Start(s) == bufferStartIndex(s, CONTENT_OFFSET)
Share(r, s) == AtMost(Len(r.content) - s, BUFFER_PARTITION_SIZE - Start(s))
Carries(b, r, s) == Get(b, Start(s), Share(r, s)) = Get(r.content, s, Share(r, s))

LEMMA ShareType ==
  ASSUME NEW r \in MadeRequests, r.op = "SEND_MESSAGE", NEW s \in Nat, s <= Len(r.content)
  PROVE  /\ Start(s) \in Nat /\ Share(r, s) \in Nat
         /\ s + Share(r, s) <= Len(r.content) /\ Start(s) + Share(r, s) <= BUFFER_PARTITION_SIZE
         /\ Get(r.content, s, Share(r, s)) \in Seq(Bytes)
         /\ Len(Get(r.content, s, Share(r, s))) = Share(r, s)
<1>1. PICK c \in Seq(Bytes), l \in Nat : c = r.content /\ l = Len(c)
  BY MadeTypes, SeqLen
<1>2. PICK o \in Nat : o = Start(s) /\ (o = 0 \/ o = 44)
  BY Offsets DEF Start, bufferStartIndex
<1>3. PICK n : n = Share(r, s) /\ n = AtMost(l - s, 1024 - o)
  BY <1>1, <1>2, Offsets DEF Share
<1>4. n \in Nat /\ s + n <= l /\ o + n <= 1024
  BY <1>1, <1>2, <1>3 DEF AtMost
<1>5. Fits(c, s, n)
  BY <1>1, <1>4 DEF Fits
<1>6. PICK x \in Seq(Bytes) : x = Get(c, s, n) /\ IsPart(x, c, s, n)
  BY <1>1, <1>4, <1>5, GetType
<1>7. Len(x) = n
  BY <1>6 DEF IsPart
<1>8. QED
  BY <1>1, <1>2, <1>3, <1>4, <1>6, <1>7, Offsets

LEMMA WrittenContent ==
  ASSUME NEW r \in MadeRequests, r.op = "SEND_MESSAGE", NEW s \in Nat, s <= Len(r.content), sent = s
  PROVE  /\ numOfBytesToWrite(r) = Share(r, s)
         /\ parseMessageContentIntoBuffer(r) = <<At(Start(s), Get(r.content, s, Share(r, s)))>>
<1>1. numOfBytesToWrite(r) = Share(r, s)
  BY DEF numOfBytesToWrite, Share, Start
<1>2. QED
  BY <1>1 DEF parseMessageContentIntoBuffer, Start

LEMMA SendMoreBuffer ==
  ASSUME NEW r \in MadeRequests, r.op = "SEND_MESSAGE", NEW s \in Nat, s <= Len(r.content),
         s > 0, sent = s
  PROVE  Filled(Fields(r)) \in BufferSet /\ Carries(Filled(Fields(r)), r, s)
<1>1. PICK o \in Nat, l \in Nat, x \in Seq(Bytes), d \in Nat :
        /\ o = Start(s) /\ l = Share(r, s) /\ x = Get(r.content, s, l) /\ Len(x) = l
        /\ d = o + l /\ d <= BUFFER_PARTITION_SIZE
  <2>1. PICK o \in Nat, l \in Nat, x \in Seq(Bytes) :
          /\ o = Start(s) /\ l = Share(r, s) /\ x = Get(r.content, s, l) /\ Len(x) = l
          /\ o + l <= BUFFER_PARTITION_SIZE
    BY ShareType
  <2>2. o + l \in Nat
    OBVIOUS
  <2>3. QED
    BY <2>1, <2>2
<1>2. PICK f \in FieldSet : f = At(o, x)
  BY AtType
<1>3. PICK g : g = <<f>>
  OBVIOUS
<1>4. g = Fields(r)
  BY <1>1, <1>2, <1>3, WrittenContent DEF Fields
<1>5. g \in Seq(FieldSet) /\ Len(g) = 1 /\ g[1] = f
  BY <1>3
<1>6. Chain(g)
  BY <1>5 DEF Chain
<1>7. Filled(g) \in BufferSet
  BY <1>5, <1>6, FilledType
<1>8. Get(Filled(g), o, Len(x)) = x
  <2>1. PICK k \in 1 .. Len(g) : g[k] = At(o, x)
    BY <1>2, <1>5
  <2>2. o + Len(x) <= BUFFER_PARTITION_SIZE
    BY <1>1
  <2>3. g \in Seq(FieldSet)
    BY <1>5
  <2>4. QED
    BY <1>6, <2>1, <2>2, <2>3, FieldIn
<1>9. QED
  BY <1>1, <1>4, <1>7, <1>8 DEF Carries

SendMiddle(r) ==
  <<At(PAYLOAD_OFFSET, parseClientId(r.destClientId)),
    At(MESSAGE_TYPE_OFFSET, parseNumIntoBuffer(r.messageType, 1)),
    At(CONTENT_SIZE_OFFSET, parseNumIntoBuffer(Len(r.content), 4))>>

LEMMA SendFields ==
  ASSUME NEW r, r.op = "SEND_MESSAGE", sent = 0
  PROVE  Fields(r) =
           parseHeaderIntoBuffer(r) \o SendMiddle(r) \o parseMessageContentIntoBuffer(r)
BY DEF Fields, SendMiddle

LEMMA SendFirstBuffer ==
  ASSUME NEW r \in MadeRequests, r.op = "SEND_MESSAGE", sent = 0
  PROVE  FirstBuffer(Filled(Fields(r)), r) /\ Carries(Filled(Fields(r)), r, 0)
<1>1. PICK x : x = parseClientId(r.destClientId) /\ HasBytes(x, CLIENT_ID_BYTE_SIZE)
  BY MadeTypes, HexBytes DEF HasBytes
<1>2. PICK y : y = parseNumIntoBuffer(r.messageType, 1) /\ HasBytes(y, 1)
  <2>1. r.messageType \in Bytes
    BY MadeTypes
  <2>2. r.messageType \in Nat
    BY <2>1 DEF Bytes
  <2>3. QED
    BY <2>2, NumSeq DEF HasBytes
<1>3. PICK z : z = parseNumIntoBuffer(Len(r.content), 4) /\ HasBytes(z, 4)
  <2>1. Len(r.content) \in Nat
    BY MadeTypes, SeqLen
  <2>2. QED
    BY <2>1, NumSeq DEF HasBytes
<1>4. PICK l \in Nat, v \in Seq(Bytes) :
                         /\ l = Share(r, 0) /\ v = Get(r.content, 0, l) /\ HasBytes(v, l)
                         /\ CONTENT_OFFSET + l <= BUFFER_PARTITION_SIZE
                         /\ parseMessageContentIntoBuffer(r) = <<At(CONTENT_OFFSET, v)>>
  <2>1. 0 <= Len(r.content)
    BY MadeTypes, SeqLen
  <2>2. Start(0) = CONTENT_OFFSET
    BY DEF Start, bufferStartIndex
  <2>3. /\ Share(r, 0) \in Nat /\ Start(0) + Share(r, 0) <= BUFFER_PARTITION_SIZE
        /\ HasBytes(Get(r.content, 0, Share(r, 0)), Share(r, 0))
        /\ Get(r.content, 0, Share(r, 0)) \in Seq(Bytes)
    BY <2>1, ShareType DEF HasBytes
  <2>4. parseMessageContentIntoBuffer(r) = <<At(Start(0), Get(r.content, 0, Share(r, 0)))>>
    BY <2>1, WrittenContent
  <2>5. QED
    BY <2>2, <2>3, <2>4
<1>5. PICK n4, n5, n6, n7, n8 \in Nat : n4 = 4 /\ n5 = 5 /\ n6 = 6 /\ n7 = 7 /\ n8 = 8
  OBVIOUS
<1>6. PICK o5, o6, o7, o8, l5, l6, l7, d \in Nat :
        /\ o5 = PAYLOAD_OFFSET /\ o6 = MESSAGE_TYPE_OFFSET /\ o7 = CONTENT_SIZE_OFFSET
        /\ o8 = CONTENT_OFFSET /\ l5 = CLIENT_ID_BYTE_SIZE /\ l6 = 1 /\ l7 = 4 /\ d = o8 + l
        /\ o5 = 23 /\ o6 = 39 /\ o7 = 40 /\ o8 = 44 /\ l5 = 16
  <2>1. CONTENT_OFFSET \in Nat /\ CONTENT_OFFSET + l \in Nat
    BY Offsets
  <2>2. QED
    BY <2>1, Offsets
<1>7. /\ Follows(n4, n5, o5, o5, l5, o6) /\ Follows(n5, n6, o6, o6, l6, o7)
      /\ Follows(n6, n7, o7, o7, l7, o8) /\ Follows(n7, n8, o8, o8, l, d)
  BY <1>5, <1>6 DEF Follows
<1>8. PICK h : h = parseHeaderIntoBuffer(r) /\ Started(h, r, n4, o5)
  BY <1>5, <1>6, StartedHeader, Offsets
<1>9. HasBytes(x, l5) /\ HasBytes(y, l6) /\ HasBytes(z, l7)
  BY <1>1, <1>2, <1>3, <1>6
<1>10. PICK e : /\ e = Append(h, At(o5, x)) /\ At(o5, x) \in FieldSet
                /\ Started(e, r, n5, o6) /\ HasField(e, n5, n5, o5, x)
  <2>1. Follows(n4, n5, o5, o5, l5, o6) /\ HasBytes(x, l5) /\ Started(h, r, n4, o5)
    BY <1>7, <1>8, <1>9
  <2>2. /\ At(o5, x) \in FieldSet /\ Started(Append(h, At(o5, x)), r, n5, o6)
        /\ HasField(Append(h, At(o5, x)), n5, n5, o5, x)
    BY <2>1, StartedMore
  <2>3. QED
    BY <2>2
<1>11. PICK f : /\ f = Append(e, At(o6, y)) /\ At(o6, y) \in FieldSet
                /\ Started(f, r, n6, o7) /\ HasField(f, n6, n6, o6, y) /\ SameUpTo(f, e, n5)
  BY <1>7, <1>9, <1>10, StartedMore
<1>12. PICK g : /\ g = Append(f, At(o7, z)) /\ At(o7, z) \in FieldSet
                /\ Started(g, r, n7, o8) /\ HasField(g, n7, n7, o7, z) /\ SameUpTo(g, f, n6)
  BY <1>7, <1>9, <1>11, StartedMore
<1>13. PICK k : /\ k = Append(g, At(o8, v)) /\ At(o8, v) \in FieldSet
                /\ Started(k, r, n8, d) /\ HasField(k, n8, n8, o8, v) /\ SameUpTo(k, g, n7)
  <2>1. Follows(n7, n8, o8, o8, l, d) /\ HasBytes(v, l) /\ Started(g, r, n7, o8)
    BY <1>4, <1>7, <1>12
  <2>2. /\ At(o8, v) \in FieldSet /\ Started(Append(g, At(o8, v)), r, n8, d)
        /\ HasField(Append(g, At(o8, v)), n8, n8, o8, v)
        /\ SameUpTo(Append(g, At(o8, v)), g, n7)
    BY <2>1, StartedMore
  <2>3. QED
    BY <2>2
<1>14. HasField(k, n8, n5, o5, x) /\ HasField(k, n8, n6, o6, y) /\ HasField(k, n8, n7, o7, z)
  <2>1. /\ n5 \in 1 .. n5 /\ n5 \in 1 .. n6 /\ n5 \in 1 .. n7 /\ n5 \in 1 .. n8
        /\ n6 \in 1 .. n6 /\ n6 \in 1 .. n7 /\ n6 \in 1 .. n8 /\ n7 \in 1 .. n7 /\ n7 \in 1 .. n8
    BY <1>5
  <2>2. e[n5] = At(o5, x) /\ f[n6] = At(o6, y) /\ g[n7] = At(o7, z)
    BY <1>10, <1>11, <1>12 DEF HasField
  <2>3. f[n5] = e[n5] /\ g[n5] = f[n5] /\ k[n5] = g[n5]
    BY <1>11, <1>12, <1>13, <2>1 DEF SameUpTo
  <2>4. g[n6] = f[n6] /\ k[n6] = g[n6] /\ k[n7] = g[n7]
    BY <1>12, <1>13, <2>1 DEF SameUpTo
  <2>5. QED
    BY <2>1, <2>2, <2>3, <2>4 DEF HasField
<1>15. PICK b : b = Filled(k) /\ b \in BufferSet /\ HeaderIn(b, r)
  <2>1. n8 >= 4 /\ Started(k, r, n8, d)
    BY <1>5, <1>13
  <2>2. QED
    BY <2>1, StartedRead
<1>16. PICK d5, d6, d7 \in Nat :
         /\ d5 = o5 + l5 /\ d6 = o6 + l6 /\ d7 = o7 + l7 /\ d5 <= BUFFER_PARTITION_SIZE
         /\ d6 <= BUFFER_PARTITION_SIZE /\ d7 <= BUFFER_PARTITION_SIZE
  BY <1>6, Offsets
<1>17. Get(b, o5, l5) = x
  BY <1>9, <1>13, <1>14, <1>15, <1>16, StartedField
<1>18. Get(b, o6, l6) = y
  BY <1>9, <1>13, <1>14, <1>15, <1>16, StartedField
<1>19. Get(b, o7, l7) = z
  BY <1>9, <1>13, <1>14, <1>15, <1>16, StartedField
<1>20. Get(b, o8, l) = v
  <2>1. d = o8 + l /\ d <= BUFFER_PARTITION_SIZE
    BY <1>4, <1>6
  <2>2. QED
    BY <1>4, <1>13, <1>15, <2>1, StartedField
<1>21. k = Fields(r)
  <2>1. h \in Seq(FieldSet) /\ g \in Seq(FieldSet)
    BY <1>8, <1>12 DEF Started
  <2>2. h \o <<At(o5, x), At(o6, y), At(o7, z)>> = g
    BY <1>10, <1>11, <1>12, <2>1, AppendThree
  <2>3. g \o <<At(o8, v)>> = k
    BY <1>13, <2>1, AppendIsConcat
  <2>4. Fields(r) = parseHeaderIntoBuffer(r) \o
           <<At(PAYLOAD_OFFSET, x), At(MESSAGE_TYPE_OFFSET, y), At(CONTENT_SIZE_OFFSET, z)>> \o
           <<At(CONTENT_OFFSET, v)>>
    <3>1. SendMiddle(r) = <<At(PAYLOAD_OFFSET, x), At(MESSAGE_TYPE_OFFSET, y), At(CONTENT_SIZE_OFFSET, z)>>
      BY <1>1, <1>2, <1>3 DEF SendMiddle
    <3>2. Fields(r) =
            parseHeaderIntoBuffer(r) \o SendMiddle(r) \o parseMessageContentIntoBuffer(r)
      BY SendFields
    <3>3. QED
      BY <1>4, <3>1, <3>2, Zenon
  <2>5. QED
    BY <1>6, <1>8, <2>2, <2>3, <2>4
<1>22. Carries(b, r, 0)
  BY <1>4, <1>6, <1>20 DEF Carries, Start, bufferStartIndex
<1>23. FirstBuffer(b, r)
  BY <1>1, <1>2, <1>3, <1>6, <1>15, <1>17, <1>18, <1>19 DEF FirstBuffer
<1>24. QED
  BY <1>15, <1>21, <1>22, <1>23

LEMMA FirstBuffers ==
  ASSUME NEW r \in MadeRequests, sent = 0
  PROVE  FirstBuffer(Filled(Fields(r)), r)
<1>1. CASE r.op \in {"LIST_CLIENTS", "PULL_MESSAGES"}
  BY <1>1, PlainBuffer
<1>2. CASE r.op = "REGISTER"
  BY <1>2, RegisterBuffer
<1>3. CASE r.op = "GET_PUBLIC_KEY"
  BY <1>3, KeyBuffer
<1>4. CASE r.op = "SEND_MESSAGE"
  BY <1>4, SendFirstBuffer
<1>5. QED
  BY <1>1, <1>2, <1>3, <1>4, MadeTypes

-----------------------------------------------------------------------------
\* What the server parses

LEMMA Unpacked ==
  ASSUME NEW b, NEW o, NEW n \in {1, 2, 4}, NEW num \in Nat, FitsBytes(num, n),
         Get(b, o, n) = parseNumIntoBuffer(num, n)
  PROVE  unpack(b, o, n) = num
BY NumBytes, NumBack DEF unpack

LEMMA HeaderParsed ==
  ASSUME NEW r \in MadeRequests, NEW b, HeaderIn(b, r)
  PROVE  /\ parse_header(b).code = RequestCode[r.op]
         /\ parse_header(b).payloadSize = payloadSize(r)
         /\ Get(b, 0, CLIENT_ID_BYTE_SIZE) \in IdBytes
         /\ IdString(Get(b, 0, CLIENT_ID_BYTE_SIZE)) = r.clientId
<1>1. unpack(b, REQUEST_CODE_OFFSET, 2) = RequestCode[r.op]
  <2>1. PICK num \in Nat : num = RequestCode[r.op] /\ num <= 1104
    BY MadeTypes, CodeBound DEF RequestCode
  <2>2. FitsBytes(num, 2)
    BY SMT, <2>1 DEF FitsBytes, MaxNumber
  <2>3. Get(b, REQUEST_CODE_OFFSET, 2) = parseNumIntoBuffer(num, 2)
    BY <2>1 DEF HeaderIn
  <2>4. QED
    BY <2>1, <2>2, <2>3, Unpacked
<1>2. unpack(b, PAYLOAD_SIZE_OFFSET, 4) = payloadSize(r)
  <2>1. PICK num \in Nat : num = payloadSize(r) /\ num <= MaxNumber
    BY SizeBound
  <2>2. FitsBytes(num, 4)
    BY <2>1 DEF FitsBytes
  <2>3. Get(b, PAYLOAD_SIZE_OFFSET, 4) = parseNumIntoBuffer(num, 4)
    BY <2>1 DEF HeaderIn
  <2>4. QED
    BY <2>1, <2>2, <2>3, Unpacked
<1>3. REQUEST_CODE_OFFSET = CLIENT_ID_BYTE_SIZE + 1 /\ PAYLOAD_SIZE_OFFSET = CLIENT_ID_BYTE_SIZE + 1 + 2
  BY DEF VERSION_OFFSET, REQUEST_CODE_OFFSET, PAYLOAD_SIZE_OFFSET, CLIENT_ID_BYTE_SIZE
<1>4. Get(b, 0, CLIENT_ID_BYTE_SIZE) = parseClientId(r.clientId) /\ r.clientId \in HexStrings
  BY MadeTypes DEF HeaderIn
<1>5. QED
  BY <1>1, <1>2, <1>3, <1>4, IdBack DEF parse_header

\* q is what the server has of the request r, with s bytes of its content.
SendRecords ==
  [op: {"SEND_MESSAGE"}, clientId: IdBytes, destClientId: IdBytes, messageType: Bytes,
   contentSize: Nat, index: Nat, content: Seq(Bytes)]

Has(q, r, s) ==
  /\ q.op = r.op /\ q.clientId \in IdBytes /\ IdString(q.clientId) = r.clientId
  /\ r.op = "REGISTER" => q.userName = r.userName /\ q.publicKey = r.publicKey
  /\ r.op \in {"GET_PUBLIC_KEY", "SEND_MESSAGE"} =>
       q.destClientId \in IdBytes /\ IdString(q.destClientId) = r.destClientId
  /\ r.op = "SEND_MESSAGE" =>
       /\ q \in SendRecords /\ q.messageType = r.messageType
       /\ q.contentSize = Len(r.content) /\ q.index = s /\ q.content = Get(r.content, 0, s)

LEMMA RegisterParsed ==
  ASSUME NEW r \in MadeRequests, r.op = "REGISTER", NEW b, FirstBuffer(b, r)
  PROVE  Has(parse_request(b), r, 0)
<1>1. PICK h : h = parse_header(b)
  OBVIOUS
<1>2. h.code = 1100 /\ h.payloadSize = USER_NAME_BYTE_SIZE + PUBLIC_KEY_BYTE_SIZE
  BY <1>1, HeaderParsed DEF FirstBuffer, RequestCode, payloadSize
<1>3. PICK id \in IdBytes : id = Get(b, 0, CLIENT_ID_BYTE_SIZE) /\ IdString(id) = r.clientId
  BY HeaderParsed DEF FirstBuffer
<1>4. PICK x : x = Get(b, PAYLOAD_OFFSET, USER_NAME_BYTE_SIZE) /\ rstrip(x) = r.userName
  <2>1. PICK x : x = Get(b, PAYLOAD_OFFSET, USER_NAME_BYTE_SIZE)
    OBVIOUS
  <2>2. IsPadded(x, r.userName, Len(r.userName), USER_NAME_BYTE_SIZE)
    BY <2>1 DEF FirstBuffer
  <2>3. r.userName \in Names /\ Len(r.userName) \in Nat /\ USER_NAME_BYTE_SIZE \in Nat
    BY MadeTypes, NameType DEF USER_NAME_BYTE_SIZE
  <2>4. x \in Seq(Bytes)
    <3>1. b \in Seq(Bytes) /\ Len(b) = BUFFER_PARTITION_SIZE
      BY DEF FirstBuffer, BufferSet
    <3>2. PICK o \in Nat, n \in Nat : o = PAYLOAD_OFFSET /\ n = USER_NAME_BYTE_SIZE /\ o = 23 /\ n = 255
      BY Offsets
    <3>3. Fits(b, o, n)
      BY <3>1, <3>2, Offsets DEF Fits
    <3>4. Get(b, o, n) \in Seq(Bytes)
      BY <3>1, <3>3, GetType
    <3>5. QED
      BY <2>1, <3>2, <3>4
  <2>5. rstrip(x) = r.userName
    BY <2>2, <2>3, <2>4, NameStripped
  <2>6. QED
    BY <2>1, <2>5
<1>5. Get(b, PUBLIC_KEY_OFFSET, PUBLIC_KEY_BYTE_SIZE) = r.publicKey
  BY DEF FirstBuffer
<1>6. PAYLOAD_OFFSET = RequestHeaderSize /\ PUBLIC_KEY_OFFSET = RequestHeaderSize + USER_NAME_BYTE_SIZE
  BY Offsets
<1>7. parse_request(b) =
        [op |-> "REGISTER", clientId |-> id, userName |-> r.userName, publicKey |-> r.publicKey]
  BY <1>1, <1>2, <1>3, <1>4, <1>5, <1>6 DEF parse_request
<1>8. QED
  BY <1>3, <1>7 DEF Has

LEMMA PlainParsed ==
  ASSUME NEW r \in MadeRequests, r.op \in {"LIST_CLIENTS", "PULL_MESSAGES"}, NEW b, FirstBuffer(b, r)
  PROVE  Has(parse_request(b), r, 0)
<1>1. PICK h : h = parse_header(b)
  OBVIOUS
<1>2. h.code = (IF r.op = "LIST_CLIENTS" THEN 1101 ELSE 1104) /\ h.payloadSize = 0
  BY <1>1, HeaderParsed DEF FirstBuffer, RequestCode, payloadSize
<1>3. PICK id \in IdBytes : id = Get(b, 0, CLIENT_ID_BYTE_SIZE) /\ IdString(id) = r.clientId
  BY HeaderParsed DEF FirstBuffer
<1>4. parse_request(b) = [op |-> r.op, clientId |-> id]
  BY <1>1, <1>2, <1>3 DEF parse_request
<1>5. QED
  BY <1>3, <1>4 DEF Has

LEMMA KeyParsed ==
  ASSUME NEW r \in MadeRequests, r.op = "GET_PUBLIC_KEY", NEW b, FirstBuffer(b, r)
  PROVE  Has(parse_request(b), r, 0)
<1>1. PICK h : h = parse_header(b)
  OBVIOUS
<1>2. h.code = 1102 /\ h.payloadSize = CLIENT_ID_BYTE_SIZE
  BY <1>1, HeaderParsed DEF FirstBuffer, RequestCode, payloadSize
<1>3. PICK id \in IdBytes : id = Get(b, 0, CLIENT_ID_BYTE_SIZE) /\ IdString(id) = r.clientId
  BY HeaderParsed DEF FirstBuffer
<1>4. PICK d \in IdBytes : /\ d = Get(b, RequestHeaderSize, CLIENT_ID_BYTE_SIZE)
                           /\ IdString(d) = r.destClientId
  <2>1. Get(b, PAYLOAD_OFFSET, CLIENT_ID_BYTE_SIZE) = parseClientId(r.destClientId)
    BY DEF FirstBuffer
  <2>2. PAYLOAD_OFFSET = RequestHeaderSize
    BY Offsets
  <2>3. QED
    BY <2>1, <2>2, MadeTypes, IdBack
<1>5. parse_request(b) = [op |-> "GET_PUBLIC_KEY", clientId |-> id, destClientId |-> d]
  BY <1>1, <1>2, <1>3, <1>4 DEF parse_request
<1>6. QED
  BY <1>3, <1>4, <1>5 DEF Has

LEMMA GetNone ==
  ASSUME NEW s
  PROVE  Get(s, 0, 0) = <<>>
BY DEF Get

\* One more buffer of content
LEMMA MoreParsed ==
  ASSUME NEW r \in MadeRequests, r.op = "SEND_MESSAGE", NEW s \in Nat, s <= Len(r.content),
         NEW b, Carries(b, r, s), NEW q, Has(q, r, s), NEW t, t = s + Share(r, s)
  PROVE  Has(_content(b, q), r, t)
<1>1. PICK c \in Seq(Bytes), l \in Nat : c = r.content /\ l = Len(c)
  BY MadeTypes, SeqLen
<1>2. PICK n \in Nat, o \in Nat : n = Share(r, s) /\ o = Start(s) /\ s + n <= l
  BY <1>1, ShareType
<1>3. /\ q \in SendRecords /\ q.messageType = r.messageType
      /\ q.contentSize = l /\ q.index = s /\ q.content = Get(c, 0, s)
  BY <1>1 DEF Has
<1>4. request_buffer_start_index(q.index) = o
  <2>1. o = IF s = 0 THEN SendHeaderSize ELSE 0
    BY <1>2, Offsets DEF Start, bufferStartIndex
  <2>2. QED
    BY <1>3, <2>1 DEF request_buffer_start_index
<1>5. number_of_bytes_to_read(q, q) = n
  <2>1. Room(s) = 1024 - o
    BY <1>3, <1>4, Offsets DEF Room
  <2>2. n = AtMost(l - s, 1024 - o)
    BY <1>1, <1>2, Offsets DEF Share
  <2>3. AtMost(1024 - o, l - s) = AtMost(l - s, 1024 - o)
    BY <1>2 DEF AtMost
  <2>4. QED
    BY <1>3, <2>1, <2>2, <2>3 DEF number_of_bytes_to_read
<1>6. Get(b, o, n) = Get(c, s, n)
  BY <1>1, <1>2 DEF Carries
<1>7. Cat(Get(c, 0, s), Get(c, s, n)) = Get(c, 0, t)
  <2>1. PICK z \in Nat : z = 0
    OBVIOUS
  <2>2. z + s = s /\ s + n = t
    BY <1>2, <2>1
  <2>3. Fits(c, z + s, n)
    BY <1>1, <1>2, <2>2 DEF Fits
  <2>4. Cat(Get(c, z, s), Get(c, z + s, n)) = Get(c, z, s + n)
    BY <1>1, <2>3, GetNext
  <2>5. QED
    BY <2>1, <2>2, <2>4
<1>8. Get(c, 0, t) \in Seq(Bytes) /\ t \in Nat
  <2>1. t \in Nat /\ t <= Len(c)
    BY <1>1, <1>2
  <2>2. Fits(c, 0, t)
    BY <2>1 DEF Fits
  <2>3. QED
    BY <2>1, <2>2, GetType
<1>9. PICK p : p = [q EXCEPT !.content = Get(c, 0, t), !.index = t]
  OBVIOUS
<1>10. _content(b, q) = p
  <2>1. q.content \o Get(b, o, n) = Get(c, 0, t)
    BY <1>3, <1>6, <1>7 DEF Cat
  <2>2. q.index + n = t
    BY <1>2, <1>3
  <2>3. _content(b, q) = [q EXCEPT !.content = q.content \o Get(b, o, n), !.index = q.index + n]
    BY <1>4, <1>5 DEF _content
  <2>4. QED
    BY <1>9, <2>1, <2>2, <2>3
<1>11. p \in SendRecords /\ p.index = t /\ p.content = Get(c, 0, t)
  BY <1>3, <1>8, <1>9 DEF SendRecords
<1>12. /\ p.op = q.op /\ p.clientId = q.clientId /\ p.destClientId = q.destClientId
       /\ p.messageType = q.messageType /\ p.contentSize = q.contentSize
  BY <1>3, <1>9 DEF SendRecords
<1>13. QED
  BY <1>1, <1>10, <1>11, <1>12 DEF Has

LEMMA SendParsed ==
  ASSUME NEW r \in MadeRequests, r.op = "SEND_MESSAGE", NEW b, FirstBuffer(b, r), Carries(b, r, 0)
  PROVE  Has(parse_request(b), r, Share(r, 0))
<1>1. PICK h : h = parse_header(b)
  OBVIOUS
<1>2. h.code = 1103
  BY <1>1, HeaderParsed DEF FirstBuffer, RequestCode
<1>3. PICK id \in IdBytes : id = Get(b, 0, CLIENT_ID_BYTE_SIZE) /\ IdString(id) = r.clientId
  BY HeaderParsed DEF FirstBuffer
<1>4. PICK d \in IdBytes : /\ d = Get(b, RequestHeaderSize, CLIENT_ID_BYTE_SIZE)
                           /\ IdString(d) = r.destClientId
  <2>1. Get(b, PAYLOAD_OFFSET, CLIENT_ID_BYTE_SIZE) = parseClientId(r.destClientId)
    BY DEF FirstBuffer
  <2>2. PAYLOAD_OFFSET = RequestHeaderSize
    BY Offsets
  <2>3. QED
    BY <2>1, <2>2, MadeTypes, IdBack
<1>5. unpack(b, RequestHeaderSize + CLIENT_ID_BYTE_SIZE, 1) = r.messageType /\ r.messageType \in Bytes
  <2>1. PICK num \in Nat : num = r.messageType /\ num \in Bytes /\ num < 256
    <3>1. r.messageType \in Bytes
      BY MadeTypes
    <3>2. r.messageType \in Nat /\ r.messageType < 256
      BY <3>1 DEF Bytes
    <3>3. QED
      BY <3>1, <3>2
  <2>2. FitsBytes(num, 1)
    BY SMT, <2>1 DEF FitsBytes, MaxNumber
  <2>3. Get(b, MESSAGE_TYPE_OFFSET, 1) = parseNumIntoBuffer(num, 1)
    BY <2>1 DEF FirstBuffer
  <2>4. unpack(b, MESSAGE_TYPE_OFFSET, 1) = num
    BY <2>2, <2>3, Unpacked
  <2>5. MESSAGE_TYPE_OFFSET = RequestHeaderSize + CLIENT_ID_BYTE_SIZE
    BY Offsets
  <2>6. QED
    BY <2>1, <2>4, <2>5
<1>6. PICK l \in Nat : l = Len(r.content) /\ unpack(b, RequestHeaderSize + CLIENT_ID_BYTE_SIZE + 1, 4) = l
  <2>1. PICK num \in Nat : num = Len(r.content) /\ num + SendHeaderSize <= MaxNumber
    BY MadeTypes, SeqLen
  <2>2. num <= MaxNumber
    BY SMT, <2>1, Offsets DEF MaxNumber
  <2>3. FitsBytes(num, 4)
    BY <2>2 DEF FitsBytes
  <2>4. Get(b, CONTENT_SIZE_OFFSET, 4) = parseNumIntoBuffer(num, 4)
    BY <2>1 DEF FirstBuffer
  <2>5. unpack(b, CONTENT_SIZE_OFFSET, 4) = num
    BY <2>3, <2>4, Unpacked
  <2>6. CONTENT_SIZE_OFFSET = RequestHeaderSize + CLIENT_ID_BYTE_SIZE + 1
    BY Offsets
  <2>7. QED
    BY <2>1, <2>5, <2>6
<1>7. PICK q : q = [op |-> "SEND_MESSAGE", clientId |-> id, destClientId |-> d,
                    messageType |-> r.messageType, contentSize |-> l, index |-> 0, content |-> <<>>]
  OBVIOUS
<1>8. parse_request(b) = _content(b, q)
  BY <1>1, <1>2, <1>3, <1>4, <1>5, <1>6, <1>7 DEF parse_request
<1>9. <<>> \in Seq(Bytes)
  OBVIOUS
<1>10. q \in SendRecords
  BY <1>5, <1>7, <1>9 DEF SendRecords
<1>11. Has(q, r, 0)
  BY <1>3, <1>4, <1>6, <1>7, <1>10, GetNone DEF Has
<1>12. PICK z, t : z \in Nat /\ z = 0 /\ t = z + Share(r, z) /\ t = Share(r, 0) /\ z <= Len(r.content)
  BY <1>6, ShareType
<1>13. Has(q, r, z) /\ Carries(b, r, z)
  BY <1>11, <1>12
<1>14. Has(_content(b, q), r, t)
  BY <1>12, <1>13, MoreParsed
<1>15. QED
  BY <1>8, <1>12, <1>14

-----------------------------------------------------------------------------
\* The request on its way

\* The bytes of the content that are sent before each buffer that is on its way,
\* and after the last one
OneBuffer(pos, u, r, j) ==
  /\ pos[j] <= Len(r.content) /\ pos[j + 1] = pos[j] + Share(r, pos[j])
  /\ Carries(u[j], r, pos[j])
  /\ j > 1 => pos[j] < Len(r.content) /\ pos[j] >= 1024 * (j - 1) - 44

Track(pos, u, r, base, s) ==
  /\ pos \in Seq(Nat) /\ Len(pos) = Len(u) + 1 /\ pos[1] = base /\ pos[Len(u) + 1] = s
  /\ \A j \in 1 .. Len(u) : OneBuffer(pos, u, r, j)

LEMMA TrackNone ==
  ASSUME NEW r, NEW s \in Nat
  PROVE  Track(<<s>>, <<>>, r, s, s)
BY DEF Track

LEMMA ShareFull ==
  ASSUME NEW r \in MadeRequests, r.op = "SEND_MESSAGE", NEW s \in Nat,
         NEW t \in Nat, t = s + Share(r, s), t < Len(r.content)
  PROVE  t >= 1024 - 44 /\ (s > 0 => t = s + 1024)
<1>1. PICK l \in Nat : l = Len(r.content)
  BY MadeTypes, SeqLen
<1>2. PICK o \in Nat : o = Start(s) /\ (o = 0 \/ o = 44) /\ (s > 0 => o = 0)
  BY Offsets DEF Start, bufferStartIndex
<1>3. t = s + AtMost(l - s, 1024 - o)
  BY <1>1, <1>2, Offsets DEF Share
<1>4. t = s + (1024 - o)
  BY <1>1, <1>2, <1>3 DEF AtMost
<1>5. QED
  BY <1>2, <1>4

LEMMA TrackMore ==
  ASSUME NEW r \in MadeRequests, r.op = "SEND_MESSAGE", NEW S, NEW u \in Seq(S), NEW b \in S,
         NEW pos, NEW base, NEW s \in Nat, Track(pos, u, r, base, s), s <= Len(r.content),
         u # <<>> => s < Len(r.content), Carries(b, r, s), NEW t \in Nat, t = s + Share(r, s)
  PROVE  Track(Append(pos, t), Append(u, b), r, base, t)
<1>1. PICK n \in Nat : n = Len(u)
  BY SeqLen
<1>2. PICK k \in Nat : k = n + 1
  BY <1>1
<1>3. pos \in Seq(Nat) /\ Len(pos) = k /\ pos[1] = base /\ pos[k] = s
  BY <1>1, <1>2 DEF Track
<1>4. PICK p : p = Append(pos, t)
  OBVIOUS
<1>5. p \in Seq(Nat) /\ Len(p) = k + 1 /\ p[k + 1] = t /\ \A i \in 1 .. k : p[i] = pos[i]
  BY <1>3, <1>4, AppendProperties
<1>6. PICK v : v = Append(u, b)
  OBVIOUS
<1>7. Len(v) = k /\ v[k] = b /\ \A i \in 1 .. n : v[i] = u[i]
  BY <1>1, <1>2, <1>6, AppendProperties
<1>8. ASSUME NEW j \in 1 .. k
      PROVE  OneBuffer(p, v, r, j)
  <2>1. CASE j <= n
    <3>1. j \in 1 .. n /\ j \in 1 .. k /\ j + 1 \in 1 .. k
      BY <1>2, <2>1
    <3>2. OneBuffer(pos, u, r, j)
      BY <1>1, <3>1 DEF Track
    <3>3. p[j] = pos[j] /\ p[j + 1] = pos[j + 1] /\ v[j] = u[j]
      BY <1>5, <1>7, <3>1
    <3>4. QED
      BY <3>2, <3>3 DEF OneBuffer
  <2>2. CASE j > n
    <3>1. j = k
      BY <1>2, <2>2
    <3>2. p[j] = s /\ p[j + 1] = t /\ v[j] = b
      BY <1>2, <1>3, <1>5, <1>7, <3>1
    <3>3. ASSUME j > 1
          PROVE  s < Len(r.content) /\ s >= 1024 * (j - 1) - 44
      <4>1. n \in 1 .. n /\ j - 1 = n /\ n + 1 = k
        BY <1>2, <3>1, <3>3
      <4>2. u # <<>>
        BY <1>1, <4>1
      <4>3. s < Len(r.content)
        BY <4>2
      <4>4. PICK x \in Nat : x = pos[n]
        BY <1>2, <1>3, <4>1, ElementOfSeq
      <4>5. s = x + Share(r, x) /\ (n > 1 => x >= 1024 * (n - 1) - 44)
        <5>1. OneBuffer(pos, u, r, n)
          BY <1>1, <4>1 DEF Track
        <5>2. pos[n + 1] = s
          BY <1>3, <4>1
        <5>3. QED
          BY <4>4, <5>1, <5>2 DEF OneBuffer
      <4>6. s >= 1024 - 44 /\ (x > 0 => s = x + 1024)
        <5>1. s = x + Share(r, x) /\ s < Len(r.content)
          BY <4>3, <4>5
        <5>2. QED
          BY <5>1, ShareFull
      <4>7. s >= 1024 * n - 44
        BY <4>1, <4>5, <4>6
      <4>8. QED
        BY <4>1, <4>3, <4>7
    <3>4. QED
      BY <3>2, <3>3 DEF OneBuffer
  <2>3. QED
    BY <1>1, <2>1, <2>2
<1>9. p[1] = base
  BY <1>2, <1>3, <1>5
<1>10. QED
  BY <1>4, <1>5, <1>6, <1>7, <1>8, <1>9 DEF Track

\* After one recv()
LEMMA TrackLess ==
  ASSUME NEW r \in MadeRequests, r.op = "SEND_MESSAGE", NEW S, NEW u \in Seq(S), u # <<>>,
         NEW pos, NEW base, NEW s \in Nat, Track(pos, u, r, base, s)
  PROVE  /\ base \in Nat /\ base <= Len(r.content) /\ Carries(u[1], r, base)
         /\ base + Share(r, base) \in Nat /\ base + Share(r, base) <= Len(r.content)
         /\ Track(Tail(pos), Tail(u), r, base + Share(r, base), s)
         /\ base + Share(r, base) = Len(r.content) => Tail(u) = <<>> /\ s = Len(r.content)
<1>1. PICK n \in Nat : n = Len(u) /\ n >= 1
  BY SeqLen, EmptySeq
<1>2. pos \in Seq(Nat) /\ Len(pos) = n + 1 /\ pos[1] = base /\ pos[n + 1] = s
  BY <1>1 DEF Track
<1>3. OneBuffer(pos, u, r, 1) /\ base \in Nat
  BY <1>1, <1>2, ElementOfSeq DEF Track
<1>4. base <= Len(r.content) /\ pos[2] = base + Share(r, base) /\ Carries(u[1], r, base)
  BY <1>2, <1>3 DEF OneBuffer
<1>5. PICK t \in Nat : t = base + Share(r, base) /\ t <= Len(r.content)
  BY <1>3, <1>4, ShareType
<1>6. PICK p : p = Tail(pos)
  OBVIOUS
<1>7. p \in Seq(Nat) /\ Len(p) = n /\ \A i \in 1 .. n : p[i] = pos[i + 1]
  BY <1>1, <1>2, <1>6, HeadTailProperties
<1>8. PICK v : v = Tail(u)
  OBVIOUS
<1>9. v \in Seq(S) /\ Len(v) = n - 1 /\ \A i \in 1 .. n - 1 : v[i] = u[i + 1]
  BY <1>1, <1>8, HeadTailProperties
<1>10. ASSUME NEW j \in 1 .. n - 1
       PROVE  OneBuffer(p, v, r, j)
  <2>1. j + 1 \in 1 .. n /\ j \in 1 .. n /\ (j + 1) + 1 = j + 2
    OBVIOUS
  <2>2. OneBuffer(pos, u, r, j + 1)
    BY <1>1, <2>1 DEF Track
  <2>3. p[j] = pos[j + 1] /\ p[j + 1] = pos[(j + 1) + 1] /\ v[j] = u[j + 1]
    BY <1>7, <1>9, <2>1
  <2>4. j > 1 => 1024 * ((j + 1) - 1) - 44 >= 1024 * (j - 1) - 44
    OBVIOUS
  <2>5. p[j] \in Nat
    BY <1>7, <2>1, ElementOfSeq
  <2>6. QED
    BY <2>1, <2>2, <2>3, <2>4, <2>5 DEF OneBuffer
<1>11. p[1] = t /\ p[n] = s
  BY <1>1, <1>2, <1>4, <1>5, <1>7
<1>12. Track(p, v, r, t, s)
  BY <1>1, <1>7, <1>9, <1>10, <1>11 DEF Track
<1>13. ASSUME t = Len(r.content)
       PROVE  v = <<>> /\ s = Len(r.content)
  <2>1. n = 1
    <3>1. ASSUME n > 1
          PROVE  FALSE
      <4>1. OneBuffer(pos, u, r, 2)
        BY <1>1, <3>1 DEF Track
      <4>2. QED
        BY <1>4, <1>5, <1>13, <4>1 DEF OneBuffer
    <3>2. QED
      BY <1>1, <3>1
  <2>2. QED
    BY <1>9, <1>11, <1>13, <2>1, EmptySeq
<1>14. QED
  BY <1>3, <1>4, <1>5, <1>6, <1>8, <1>12, <1>13

\* What of the content the server has
Base == IF parsed.op = "SEND_MESSAGE" THEN parsed.index ELSE 0

SendInv ==
  /\ \E pos : Track(pos, up, request, Base, sent)
  /\ sent <= Len(request.content)
  /\ IF up = <<>> /\ parsed = NoRequest
       THEN ~ prepared
       ELSE (prepared <=> sent = Len(request.content)) /\ (~ prepared => sent > 0)
  /\ parsed # NoRequest /\ Base = Len(request.content) =>
       up = <<>> /\ sent = Len(request.content)

\* One buffer is enough for the other requests.
OtherInv ==
  /\ sent = 0
  /\ IF up = <<>> /\ parsed = NoRequest
       THEN ~ prepared
       ELSE prepared /\ IF parsed = NoRequest THEN Len(up) = 1 ELSE up = <<>>

RequestInv ==
  /\ request \in MadeRequests /\ sent \in Nat /\ prepared \in BOOLEAN
  /\ up \in Seq(BufferSet)
  /\ parsed = NoRequest /\ up # <<>> => FirstBuffer(up[1], request)
  /\ parsed # NoRequest => Has(parsed, request, Base)
  /\ IF request.op = "SEND_MESSAGE" THEN SendInv ELSE OtherInv
  /\ served # NoResponse <=> parsed # NoRequest /\ IsParsed(parsed)
  /\ served # NoResponse => served \in Answers(parsed) \cup {ErrorResponse}

LEMMA RequestInit == Init => RequestInv
<1>1. SUFFICES ASSUME Init
               PROVE  RequestInv
  OBVIOUS
<1>2. /\ request \in MadeRequests /\ sent = 0 /\ prepared = FALSE /\ up = <<>>
      /\ parsed = NoRequest /\ served = NoResponse
  BY <1>1 DEF Init
<1>3. up \in Seq(BufferSet) /\ 0 \in Nat
  BY <1>2
<1>4. Base = 0
  BY <1>2 DEF Base, NoRequest
<1>5. request.op = "SEND_MESSAGE" => SendInv
  <2>1. SUFFICES ASSUME request.op = "SEND_MESSAGE"
                 PROVE  SendInv
    OBVIOUS
  <2>2. Track(<<0>>, <<>>, request, 0, 0)
    <3>1. PICK z \in Nat : z = 0
      OBVIOUS
    <3>2. Track(<<z>>, <<>>, request, z, z)
      BY TrackNone
    <3>3. QED
      BY <3>1, <3>2
  <2>3. \E pos : Track(pos, up, request, Base, sent)
    BY <1>2, <1>4, <2>2
  <2>4. Len(request.content) \in Nat
    BY <1>2, <2>1, MadeTypes, SeqLen
  <2>5. QED
    BY <1>2, <2>3, <2>4 DEF SendInv
<1>6. OtherInv
  BY <1>2 DEF OtherInv
<1>7. QED
  BY <1>2, <1>3, <1>5, <1>6 DEF RequestInv

LEMMA StartEmpty ==
  ASSUME SendInv, up = <<>>, parsed = NoRequest
  PROVE  sent = 0
<1>1. PICK pos : Track(pos, up, request, Base, sent)
  BY DEF SendInv
<1>2. Base = 0
  BY DEF Base, NoRequest
<1>3. Len(up) = 0 /\ 0 + 1 = 1
  OBVIOUS
<1>4. QED
  BY <1>1, <1>2, <1>3 DEF Track

LEMMA RequestPrepare ==
  ASSUME RequestInv, prepareRequestBuffer
  PROVE  RequestInv'
<1>1. PICK r \in MadeRequests : r = request /\ r = request'
  BY DEF RequestInv, prepareRequestBuffer
<1>2. PICK u \in Seq(BufferSet) : u = up
  BY DEF RequestInv
<1>3. PICK s \in Nat : s = sent
  BY DEF RequestInv
<1>4. ~ prepared /\ prepared' \in BOOLEAN /\ UNCHANGED <<parsed, served>>
  BY DEF prepareRequestBuffer
<1>5. PICK b : b = Filled(Fields(r)) /\ up' = Append(u, b)
  BY <1>1, <1>2 DEF prepareRequestBuffer
<1>6. Base' = Base
  BY <1>4 DEF Base
<1>7. CASE r.op # "SEND_MESSAGE"
  <2>1. s = 0 /\ u = <<>> /\ parsed = NoRequest
    BY <1>1, <1>2, <1>3, <1>4, <1>7 DEF RequestInv, OtherInv
  <2>2. FirstBuffer(b, r)
    BY <1>3, <1>5, <2>1, FirstBuffers
  <2>3. b \in BufferSet
    BY <2>2 DEF FirstBuffer
  <2>4. up' = <<b>> /\ up' \in Seq(BufferSet) /\ Len(up') = 1 /\ up'[1] = b /\ up' # <<>>
    BY <1>5, <2>1, <2>3
  <2>5. sent' = 0 /\ prepared'
    BY <1>1, <1>3, <1>7, <2>1 DEF prepareRequestBuffer
  <2>6. OtherInv'
    BY <1>4, <2>1, <2>4, <2>5 DEF OtherInv
  <2>7. QED
    BY <1>1, <1>4, <1>6, <1>7, <2>1, <2>2, <2>4, <2>5, <2>6 DEF RequestInv
<1>8. CASE r.op = "SEND_MESSAGE"
  <2>1. PICK l \in Nat : l = Len(r.content)
    BY <1>8, MadeTypes, SeqLen
  <2>2. SendInv
    BY <1>1, <1>8 DEF RequestInv
  <2>3. s <= l /\ (s = 0 \/ s < l)
    <3>1. s <= l
      BY <1>1, <1>3, <2>1, <2>2 DEF SendInv
    <3>2. ~ (up = <<>> /\ parsed = NoRequest) => s # l
      BY <1>1, <1>3, <1>4, <2>1, <2>2 DEF SendInv
    <3>3. up = <<>> /\ parsed = NoRequest => s = 0
      BY <1>3, <2>2, StartEmpty
    <3>4. QED
      BY <3>1, <3>2, <3>3
  <2>4. PICK pos : Track(pos, u, r, Base, s)
    BY <1>1, <1>2, <1>3, <2>2 DEF SendInv
  <2>5. u # <<>> => s < l
    BY <1>1, <1>2, <1>3, <1>4, <2>1, <2>2, <2>3 DEF SendInv
  <2>6. s = 0 => u = <<>> /\ parsed = NoRequest
    BY <1>1, <1>2, <1>3, <1>4, <2>2 DEF SendInv
  <2>7. b \in BufferSet /\ Carries(b, r, s) /\ (s = 0 => FirstBuffer(b, r))
    <3>1. CASE s = 0
      BY <1>3, <1>5, <1>8, <3>1, SendFirstBuffer DEF FirstBuffer
    <3>2. CASE s > 0
      BY <1>3, <1>5, <1>8, <2>1, <2>3, <3>2, SendMoreBuffer
    <3>3. QED
      BY <3>1, <3>2
  <2>8. PICK t \in Nat : t = s + Share(r, s) /\ t <= l /\ (s < l => t > 0)
    <3>1. PICK n \in Nat : n = Share(r, s) /\ s + n <= l
      BY <1>8, <2>1, <2>3, ShareType
    <3>2. s < l => n > 0
      <4>1. PICK o \in Nat : o = Start(s) /\ (o = 0 \/ o = 44)
        BY Offsets DEF Start, bufferStartIndex
      <4>2. n = AtMost(l - s, 1024 - o)
        BY <2>1, <3>1, <4>1, Offsets DEF Share
      <4>3. QED
        BY <2>1, <4>1, <4>2 DEF AtMost
    <3>3. s + n \in Nat /\ (s < l => s + n > 0)
      BY <3>2
    <3>4. QED
      BY <3>1, <3>3
  <2>9. sent' = t /\ prepared' = (t = l)
    <3>1. numOfBytesToWrite(r) = Share(r, s)
      BY <1>3, <1>8, <2>1, <2>3, WrittenContent
    <3>2. sent' = sent + numOfBytesToWrite(r) /\ prepared' = (sent' = Len(r.content))
      BY <1>1, <1>8 DEF prepareRequestBuffer
    <3>3. QED
      BY <1>3, <2>1, <2>8, <3>1, <3>2
  <2>10. Track(Append(pos, t), up', r, Base, t)
    <3>1. u # <<>> => s < Len(r.content)
      BY <2>1, <2>5
    <3>2. s <= Len(r.content)
      BY <2>1, <2>3
    <3>3. t = s + Share(r, s)
      BY <2>8
    <3>4. Track(Append(pos, t), Append(u, b), r, Base, t)
      BY <1>8, <2>4, <2>7, <3>1, <3>2, <3>3, TrackMore
    <3>5. QED
      BY <1>5, <3>4
  <2>11. up' \in Seq(BufferSet) /\ up' # <<>> /\ (parsed = NoRequest => FirstBuffer(up'[1], r))
    <3>1. up' \in Seq(BufferSet) /\ up' # <<>>
      BY <1>5, <2>7
    <3>2. CASE u = <<>>
      <4>1. up'[1] = b
        BY <1>5, <3>2
      <4>2. ASSUME parsed = NoRequest
            PROVE  s = 0
        BY <1>1, <1>2, <1>3, <2>2, <3>2, <4>2, StartEmpty
      <4>3. QED
        BY <2>7, <3>1, <4>1, <4>2
    <3>3. CASE u # <<>>
      <4>1. Len(u) \in Nat /\ Len(u) >= 1
        BY <3>3, SeqLen, EmptySeq
      <4>2. up'[1] = u[1]
        BY <1>5, <4>1, AppendProperties
      <4>3. QED
        BY <1>1, <1>2, <3>1, <3>3, <4>2 DEF RequestInv
    <3>4. QED
      BY <3>2, <3>3
  <2>12. SendInv'
    <3>1. (\E p : Track(p, up, request, Base, sent))'
      BY <1>1, <1>6, <2>9, <2>10
    <3>2. sent' <= Len(request'.content) /\ (prepared' <=> sent' = Len(request'.content))
      BY <1>1, <2>1, <2>8, <2>9
    <3>3. ~ prepared' => sent' > 0
      <4>1. t # l => t > 0
        BY <2>3, <2>8
      <4>2. QED
        BY <2>9, <4>1
    <3>4. ~ (parsed' # NoRequest /\ Base' = Len(request'.content))
      BY <1>1, <1>4, <1>6, <2>2 DEF SendInv
    <3>5. QED
      BY <2>11, <3>1, <3>2, <3>3, <3>4 DEF SendInv
  <2>13. QED
    BY <1>1, <1>4, <1>6, <1>8, <2>9, <2>11, <2>12 DEF RequestInv
<1>9. QED
  BY <1>7, <1>8

LEMMA Parsed ==
  ASSUME NEW r \in MadeRequests, NEW q, NEW s, Has(q, r, s)
  PROVE  /\ q # NoRequest
         /\ r.op = "SEND_MESSAGE" => q.op = "SEND_MESSAGE" /\ q.index = s
         /\ IsParsed(q) <=> (r.op = "SEND_MESSAGE" => s = Len(r.content))
<1>1. q.op = r.op /\ q.op # "NONE"
  BY MadeTypes DEF Has
<1>2. q # NoRequest
  BY <1>1 DEF NoRequest
<1>3. r.op = "SEND_MESSAGE" => q.contentSize = Len(r.content) /\ q.index = s
  BY DEF Has
<1>4. QED
  BY <1>1, <1>2, <1>3 DEF IsParsed

LEMMA AnswerCode ==
  ASSUME NEW q, NEW a \in Answers(q) \cup {ErrorResponse}
  PROVE  a # NoResponse
<1>1. a.code # "NONE"
  BY DEF Answers, ErrorResponse
<1>2. QED
  BY <1>1 DEF NoResponse

LEMMA RequestRecv ==
  ASSUME RequestInv, Recv
  PROVE  RequestInv'
<1>1. PICK r \in MadeRequests : r = request /\ r = request'
  BY DEF RequestInv, Recv
<1>2. PICK u \in Seq(BufferSet) : u = up
  BY DEF RequestInv
<1>3. PICK s \in Nat : s = sent /\ s = sent'
  BY DEF RequestInv, Recv
<1>4. u # <<>> /\ served = NoResponse /\ up' = Tail(u) /\ prepared' = prepared /\ prepared \in BOOLEAN
  BY <1>2 DEF Recv, RequestInv
<1>5. up' \in Seq(BufferSet) /\ Head(u) = u[1]
  BY <1>4, HeadTailProperties
<1>6. parsed' = IF parsed = NoRequest THEN parse_request(u[1]) ELSE _content(u[1], parsed)
  BY <1>2, <1>5 DEF Recv
<1>7. /\ parsed = NoRequest => FirstBuffer(u[1], r)
      /\ parsed # NoRequest => Has(parsed, r, Base)
  BY <1>1, <1>2, <1>4 DEF RequestInv
<1>8. PICK q : q = parsed'
  OBVIOUS
<1>9. /\ \/ ~ IsParsed(q) /\ served' = NoResponse
         \/ IsParsed(q) /\ served' \in Answers(q) \cup {ErrorResponse}
  BY <1>4, <1>8 DEF Recv
<1>10. /\ served' # NoResponse <=> IsParsed(q)
       /\ served' # NoResponse => served' \in Answers(q) \cup {ErrorResponse}
  BY <1>9, AnswerCode
<1>11. CASE r.op # "SEND_MESSAGE"
  <2>1. OtherInv
    BY <1>1, <1>11 DEF RequestInv
  <2>2. parsed = NoRequest /\ prepared /\ Len(u) = 1 /\ s = 0
    BY <1>2, <1>3, <1>4, <2>1 DEF OtherInv
  <2>3. Has(q, r, 0)
    BY <1>6, <1>7, <1>8, <1>11, <2>2, MadeTypes, RegisterParsed, PlainParsed, KeyParsed
  <2>4. q # NoRequest /\ q.op # "SEND_MESSAGE"
    BY <1>11, <2>3, Parsed DEF Has
  <2>5. Base' = 0
    BY <1>8, <2>4 DEF Base
  <2>6. up' = <<>>
    BY <1>4, <1>5, <2>2, HeadTailProperties, EmptySeq
  <2>7. OtherInv'
    BY <1>3, <1>4, <1>8, <2>2, <2>4, <2>6 DEF OtherInv
  <2>8. QED
    BY <1>1, <1>3, <1>4, <1>5, <1>8, <1>10, <1>11, <2>3, <2>4, <2>5, <2>7 DEF RequestInv
<1>12. CASE r.op = "SEND_MESSAGE"
  <2>1. SendInv
    BY <1>1, <1>12 DEF RequestInv
  <2>2. PICK l \in Nat : l = Len(r.content)
    BY <1>12, MadeTypes, SeqLen
  <2>3. PICK pos, base : base = Base /\ Track(pos, u, r, base, s)
    BY <1>1, <1>2, <1>3, <2>1 DEF SendInv
  <2>4. PICK t : t = base + Share(r, base)
    OBVIOUS
  <2>5. /\ base \in Nat /\ base <= Len(r.content) /\ Carries(u[1], r, base)
        /\ t \in Nat /\ t <= Len(r.content) /\ Track(Tail(pos), Tail(u), r, t, s)
        /\ t = Len(r.content) => Tail(u) = <<>> /\ s = Len(r.content)
    BY <1>4, <1>12, <2>3, <2>4, TrackLess
  <2>6. Has(q, r, t)
    <3>1. CASE parsed = NoRequest
      <4>1. base = 0
        BY <2>3, <3>1 DEF Base, NoRequest
      <4>2. Carries(u[1], r, 0) /\ FirstBuffer(u[1], r) /\ t = Share(r, 0)
        <5>1. t = 0 + Share(r, 0) /\ Share(r, 0) \in Nat
          BY <1>12, <2>4, <2>5, <4>1, ShareType
        <5>2. QED
          BY <1>7, <2>5, <3>1, <4>1, <5>1
      <4>3. QED
        BY <1>6, <1>8, <1>12, <3>1, <4>2, SendParsed
    <3>2. CASE parsed # NoRequest
      <4>1. Has(parsed, r, base)
        BY <1>7, <2>3, <3>2
      <4>2. base \in Nat /\ base <= Len(r.content) /\ Carries(u[1], r, base)
        BY <2>5
      <4>3. Has(_content(u[1], parsed), r, t)
        BY <1>12, <2>4, <4>1, <4>2, MoreParsed
      <4>4. QED
        BY <1>6, <1>8, <3>2, <4>3
    <3>3. QED
      BY <3>1, <3>2
  <2>7. q # NoRequest /\ q.op = "SEND_MESSAGE" /\ q.index = t /\ (IsParsed(q) <=> t = Len(r.content))
    BY <1>12, <2>6, Parsed
  <2>8. Base' = t
    BY <1>8, <2>7 DEF Base
  <2>9. (\E p : Track(p, up, request, Base, sent))'
    BY <1>1, <1>3, <1>4, <2>5, <2>8
  <2>10. /\ sent <= Len(r.content) /\ (prepared <=> sent = Len(r.content))
         /\ ~ prepared => sent > 0
    BY <1>1, <1>2, <1>4, <2>1 DEF SendInv
  <2>11. SendInv'
    <3>1. Base' = Len(r.content) => up' = <<>> /\ sent' = Len(r.content)
      BY <1>3, <1>4, <2>5, <2>8
    <3>2. QED
      BY <1>1, <1>3, <1>4, <1>8, <2>7, <2>9, <2>10, <3>1 DEF SendInv
  <2>12. QED
    BY <1>1, <1>3, <1>4, <1>5, <1>8, <1>10, <1>12, <2>6, <2>7, <2>8, <2>11 DEF RequestInv
<1>13. QED
  BY <1>11, <1>12

LEMMA RequestKept ==
  ASSUME RequestInv, UNCHANGED <<requestVars, parsed, served>>
  PROVE  RequestInv'
BY DEF RequestInv, requestVars, SendInv, OtherInv, Base

LEMMA RequestNext == RequestInv /\ [Next]_vars => RequestInv'
<1>1. SUFFICES ASSUME RequestInv, [Next]_vars
               PROVE  RequestInv'
  OBVIOUS
<1>2. CASE prepareRequestBuffer
  BY <1>1, <1>2, RequestPrepare
<1>3. CASE Recv
  BY <1>1, <1>3, RequestRecv
<1>4. CASE ReadPartition
  BY <1>1, <1>4, RequestKept DEF ReadPartition
<1>5. CASE ParseClient
  BY <1>1, <1>5, RequestKept DEF ParseClient
<1>6. CASE ParseMessage
  BY <1>1, <1>6, RequestKept DEF ParseMessage
<1>7. CASE UNCHANGED vars
  BY <1>1, <1>7, RequestKept DEF vars
<1>8. QED
  BY <1>1, <1>2, <1>3, <1>4, <1>5, <1>6, <1>7 DEF Next

LEMMA RequestIntactHolds == RequestInv => RequestIntact
<1>1. SUFFICES ASSUME RequestInv, served # NoResponse
               PROVE  RequestIntact
  BY DEF RequestIntact
<1>2. PICK r \in MadeRequests : r = request
  BY <1>1 DEF RequestInv
<1>3. PICK q : q = parsed /\ Has(q, r, Base) /\ IsParsed(q)
  BY <1>1, <1>2 DEF RequestInv
<1>4. q.op = r.op /\ IdString(q.clientId) = r.clientId
  BY <1>3 DEF Has
<1>5. "userName" \in DOMAIN r => r.op = "REGISTER"
  BY DEF MadeRequests
<1>6. "destClientId" \in DOMAIN r => r.op \in {"GET_PUBLIC_KEY", "SEND_MESSAGE"}
  BY DEF MadeRequests
<1>7. "content" \in DOMAIN r => r.op = "SEND_MESSAGE"
  BY DEF MadeRequests
<1>8. r.op = "SEND_MESSAGE" => q.messageType = r.messageType /\ q.content = r.content
  <2>1. SUFFICES ASSUME r.op = "SEND_MESSAGE"
                 PROVE  q.messageType = r.messageType /\ q.content = r.content
    OBVIOUS
  <2>2. Base = Len(r.content)
    BY <1>3, <2>1, Parsed
  <2>3. q.content = Get(r.content, 0, Len(r.content)) /\ q.messageType = r.messageType
    BY <1>3, <2>1, <2>2 DEF Has
  <2>4. QED
    BY <2>1, <2>3, MadeTypes, GetAll
<1>9. QED
  BY <1>2, <1>3, <1>4, <1>5, <1>6, <1>7, <1>8 DEF RequestIntact, Has

\* The last partition of a request completes it, and Relay counts its partitions right.
RequestAgrees ==
  /\ served # NoResponse => prepared /\ up = <<>>
  /\ prepared /\ served = NoResponse => up # <<>>
  /\ Len(up) <= RequestPartitions(RelayRequest)

LEMMA PartitionsOf ==
  ASSUME NEW l \in Nat
  PROVE  /\ RequestPartitions([op |-> "SEND_MESSAGE", contentSize |-> l]) \in Nat \ {0}
         /\ \A k \in Nat : l > 1024 * k - 44 =>
              k + 1 <= RequestPartitions([op |-> "SEND_MESSAGE", contentSize |-> l])
<1>1. PICK n : n = RequestPartitions([op |-> "SEND_MESSAGE", contentSize |-> l])
  OBVIOUS
<1>2. n = IF l > 1024 - 44 THEN (44 + l + 1024 - 1) \div 1024 ELSE 1
  BY <1>1, Offsets DEF RequestPartitions, Partitions
<1>3. PICK d \in Nat : d = (44 + l + 1024 - 1) \div 1024 /\ 1024 * d <= l + 1067 /\ l + 1067 < 1024 * d + 1024
  OBVIOUS
<1>4. n \in Nat \ {0} /\ \A k \in Nat : l > 1024 * k - 44 => k + 1 <= n
  BY <1>2, <1>3
<1>5. QED
  BY <1>1, <1>4

LEMMA RequestAgreesHolds == RequestInv => RequestAgrees
<1>1. SUFFICES ASSUME RequestInv
               PROVE  RequestAgrees
  OBVIOUS
<1>2. PICK r \in MadeRequests : r = request
  BY <1>1 DEF RequestInv
<1>3. /\ served # NoResponse <=> parsed # NoRequest /\ IsParsed(parsed)
      /\ parsed # NoRequest => Has(parsed, r, Base)
      /\ up \in Seq(BufferSet)
  BY <1>1, <1>2 DEF RequestInv
<1>4. PICK n \in Nat : n = Len(up)
  BY <1>3, SeqLen
<1>5. CASE r.op # "SEND_MESSAGE"
  <2>1. OtherInv
    BY <1>1, <1>2, <1>5 DEF RequestInv
  <2>2. /\ served # NoResponse => prepared /\ up = <<>>
        /\ prepared /\ served = NoResponse => up # <<>>
    <3>1. parsed # NoRequest => served # NoResponse
      BY <1>3, <1>5, Parsed
    <3>2. QED
      BY <1>3, <2>1, <3>1 DEF OtherInv
  <2>3. n <= 1
    <3>1. up = <<>> => n = 0
      BY <1>4
    <3>2. QED
      BY <1>4, <2>1, <3>1 DEF OtherInv
  <2>4. RequestPartitions(RelayRequest) = 1
    BY <1>2, <1>5 DEF RelayRequest, RequestPartitions
  <2>5. QED
    BY <1>4, <2>2, <2>3, <2>4 DEF RequestAgrees
<1>6. CASE r.op = "SEND_MESSAGE"
  <2>1. SendInv
    BY <1>1, <1>2, <1>6 DEF RequestInv
  <2>2. PICK l \in Nat : l = Len(r.content)
    BY <1>6, MadeTypes, SeqLen
  <2>3. parsed # NoRequest => (IsParsed(parsed) <=> Base = l)
    BY <1>3, <1>6, <2>2, Parsed
  <2>4. served # NoResponse => prepared /\ up = <<>>
    BY <1>2, <1>3, <2>1, <2>2, <2>3 DEF SendInv
  <2>5. PICK pos, base, s : base = Base /\ s = sent /\ Track(pos, up, r, base, s)
    BY <1>2, <2>1 DEF SendInv
  <2>6. prepared /\ served = NoResponse => up # <<>>
    <3>1. SUFFICES ASSUME prepared, up = <<>>
                   PROVE  served # NoResponse
      OBVIOUS
    <3>2. parsed # NoRequest /\ sent = l
      BY <1>2, <2>1, <2>2, <3>1 DEF SendInv
    <3>3. Len(up) = 0 /\ 0 + 1 = 1
      BY <3>1
    <3>4. base = s
      BY <2>5, <3>3 DEF Track
    <3>5. QED
      BY <1>3, <2>3, <2>5, <3>2, <3>4
  <2>7. n <= RequestPartitions(RelayRequest)
    <3>1. PICK q : q = RelayRequest /\ q = [op |-> "SEND_MESSAGE", contentSize |-> l]
      BY <1>2, <1>6, <2>2 DEF RelayRequest
    <3>2. PICK m : m = RequestPartitions(q)
      OBVIOUS
    <3>3. m \in Nat \ {0}
      BY <3>1, <3>2, PartitionsOf
    <3>4. ASSUME NEW k \in Nat, l > 1024 * k - 44
          PROVE  k + 1 <= m
      BY <3>1, <3>2, <3>4, PartitionsOf
    <3>5. ASSUME n > 1
          PROVE  n <= m
      <4>1. n \in 1 .. n /\ n - 1 \in Nat /\ (n - 1) + 1 = n
        BY <3>5
      <4>2. OneBuffer(pos, up, r, n)
        BY <1>4, <2>5, <4>1 DEF Track
      <4>3. pos[n] < l /\ pos[n] >= 1024 * (n - 1) - 44
        BY <2>2, <3>5, <4>2 DEF OneBuffer
      <4>4. pos[n] \in Nat
        <5>1. pos \in Seq(Nat) /\ Len(pos) = n + 1
          BY <1>4, <2>5 DEF Track
        <5>2. n \in 1 .. n + 1
          BY <3>5
        <5>3. QED
          BY <5>1, <5>2, ElementOfSeq
      <4>5. l > 1024 * (n - 1) - 44
        BY <4>3, <4>4
      <4>6. (n - 1) + 1 <= m
        BY <3>4, <4>1, <4>5
      <4>7. QED
        BY <4>1, <4>6
    <3>6. n <= 1 => n <= m
      BY <1>4, <3>3
    <3>7. n <= m
      BY <1>4, <3>5, <3>6
    <3>8. QED
      BY <3>1, <3>2, <3>7
  <2>8. QED
    BY <1>4, <2>4, <2>6, <2>7 DEF RequestAgrees
<1>7. QED
  BY <1>5, <1>6

-----------------------------------------------------------------------------
\* The entries of the lists that are sent

PackedClient(e) == Cat(e.id, Padded(e.userName))

MailHeader(m) ==
  Cat(Cat(Cat(m.fromClient, pack(m.id, 4)), pack(m.type, 1)), pack(Len(m.content), 4))
PackedMail(m) == Cat(MailHeader(m), m.content)

LEMMA CatBytes ==
  ASSUME NEW a, NEW k \in Nat, HasBytes(a, k), NEW b, NEW n \in Nat, HasBytes(b, n)
  PROVE  HasBytes(Cat(a, b), k + n)
<1>1. a \in Seq(Bytes) /\ b \in Seq(Bytes) /\ k = Len(a) /\ n = Len(b)
  BY DEF HasBytes
<1>2. Cat(a, b) \in Seq(Bytes) /\ IsCat(Cat(a, b), a, b, k, n)
  BY <1>1, CatType
<1>3. QED
  BY <1>2 DEF HasBytes, IsCat

\* What comes first, and what comes after it
LEMMA CatPart ==
  ASSUME NEW a, NEW k \in Nat, HasBytes(a, k), NEW b, NEW n \in Nat, HasBytes(b, n)
  PROVE  Get(Cat(a, b), 0, k) = a /\ Get(Cat(a, b), k, n) = b
<1>1. a \in Seq(Bytes) /\ b \in Seq(Bytes) /\ k = Len(a) /\ n = Len(b)
  BY DEF HasBytes
<1>2. PICK z \in Nat : z = 0 /\ k + z = k
  OBVIOUS
<1>3. Fits(a, z, k) /\ Fits(b, z, n)
  BY <1>1, <1>2 DEF Fits
<1>4. Get(Cat(a, b), z, k) = Get(a, z, k)
  BY <1>1, <1>3, GetLeft
<1>5. Get(Cat(a, b), k + z, n) = Get(b, z, n)
  BY <1>1, <1>3, GetRight
<1>6. Get(a, 0, k) = a /\ Get(b, 0, n) = b
  BY <1>1, GetAll
<1>7. QED
  BY <1>2, <1>4, <1>5, <1>6

LEMMA CatBoth ==
  ASSUME NEW a, NEW k \in Nat, HasBytes(a, k), NEW b, NEW n \in Nat, HasBytes(b, n),
         NEW e, e = k + n, NEW c, c = Cat(a, b)
  PROVE  HasBytes(c, e) /\ Get(c, 0, k) = a /\ Get(c, k, n) = b
BY CatBytes, CatPart

\* What is put behind it changes no part.
LEMMA CatKeeps ==
  ASSUME NEW a, NEW k \in Nat, HasBytes(a, k), NEW b \in Seq(Bytes),
         NEW o \in Nat, NEW n \in Nat, NEW e \in Nat, e = o + n, e <= k
  PROVE  Get(Cat(a, b), o, n) = Get(a, o, n)
<1>1. a \in Seq(Bytes) /\ k = Len(a)
  BY DEF HasBytes
<1>2. Fits(a, o, n)
  BY <1>1 DEF Fits
<1>3. QED
  BY <1>1, <1>2, GetLeft

LEMMA PaddedBytes ==
  ASSUME NEW name \in Names
  PROVE  HasBytes(Padded(name), USER_NAME_BYTE_SIZE) /\ CString(Padded(name)) = name
<1>1. PICK p \in Seq(Bytes), l \in Nat, n \in Nat :
        p = Padded(name) /\ l = Len(name) /\ n = USER_NAME_BYTE_SIZE
  BY NameType, PaddedIs DEF USER_NAME_BYTE_SIZE
<1>2. IsPadded(p, name, l, n)
  BY <1>1, PaddedIs
<1>3. CString(p) = name
  BY <1>1, <1>2, NameCut
<1>4. Len(p) = n
  BY <1>2 DEF IsPadded
<1>5. QED
  BY <1>1, <1>3, <1>4 DEF HasBytes

LEMMA PackedClientType ==
  ASSUME NEW e \in ListEntries
  PROVE  HasBytes(PackedClient(e), CLIENT_ID_BYTE_SIZE + USER_NAME_BYTE_SIZE)
<1>1. e.id \in IdBytes /\ e.userName \in Names
  BY DEF ListEntries
<1>2. HasBytes(e.id, CLIENT_ID_BYTE_SIZE) /\ HasBytes(Padded(e.userName), USER_NAME_BYTE_SIZE)
  BY <1>1, IdSeq, PaddedBytes DEF HasBytes
<1>3. CLIENT_ID_BYTE_SIZE \in Nat /\ USER_NAME_BYTE_SIZE \in Nat
  BY Offsets
<1>4. QED
  BY <1>2, <1>3, CatBytes DEF PackedClient

LEMMA ClientParsed ==
  ASSUME NEW e \in ListEntries, NEW rest \in Seq(Bytes), NEW p, p = Cat(PackedClient(e), rest)
  PROVE  /\ getClientIdFromBuffer(p) = IdString(e.id)
         /\ CString(Get(p, CLIENT_ID_BYTE_SIZE, USER_NAME_BYTE_SIZE)) = e.userName
<1>1. e.id \in IdBytes /\ e.userName \in Names
  BY DEF ListEntries
<1>2. PICK a \in IdBytes, b \in Seq(Bytes), i, n, z, k \in Nat :
        /\ a = e.id /\ b = Padded(e.userName) /\ i = CLIENT_ID_BYTE_SIZE /\ n = USER_NAME_BYTE_SIZE
        /\ z = 0 /\ k = i + n
  BY <1>1, Offsets, PaddedIs
<1>3. HasBytes(a, i) /\ HasBytes(b, n) /\ CString(b) = e.userName
  BY <1>1, <1>2, IdSeq, PaddedBytes DEF HasBytes
<1>4. PICK c : c = Cat(a, b) /\ p = Cat(c, rest)
  BY <1>2 DEF PackedClient
<1>5. HasBytes(c, k) /\ Get(c, z, i) = a /\ Get(c, i, n) = b
  BY <1>2, <1>3, <1>4, CatBytes, CatPart
<1>6. Get(p, i, n) = b
  <2>1. i + n = k /\ k <= k
    BY <1>2
  <2>2. QED
    BY <1>4, <1>5, <2>1, CatKeeps
<1>7. Get(p, z, i) = a
  <2>1. PICK d \in Nat : d = z + i /\ d <= k
    BY <1>2, <1>4
  <2>2. QED
    BY <1>4, <1>5, <2>1, CatKeeps
<1>8. p \in Seq(Bytes) /\ i <= Len(p)
  <2>1. PICK m \in Nat : m = Len(rest)
    BY SeqLen
  <2>2. HasBytes(p, k + m)
    BY <1>4, <1>5, <2>1, CatBytes DEF HasBytes
  <2>3. QED
    BY <1>2, <2>1, <2>2 DEF HasBytes
<1>9. getClientIdFromBuffer(p) = IdString(a)
  BY <1>2, <1>7, <1>8, IdText
<1>10. QED
  BY <1>2, <1>3, <1>6, <1>9

LEMMA NumHas ==
  ASSUME NEW num \in Nat, NEW n \in {1, 2, 4}
  PROVE  HasBytes(pack(num, n), n)
BY NumBytes DEF HasBytes

LEMMA MailTypes ==
  ASSUME NEW m \in MailEntries
  PROVE  /\ HasBytes(m.fromClient, 16) /\ m.fromClient \in IdBytes
         /\ m.id \in Nat /\ FitsBytes(m.id, 4)
         /\ m.type \in Nat /\ FitsBytes(m.type, 1)
         /\ m.content \in Seq(Bytes)
<1>1. m.fromClient \in IdBytes /\ m.id \in 0 .. MaxNumber /\ m.type \in Bytes /\ m.content \in Seq(Bytes)
  BY DEF MailEntries
<1>2. HasBytes(m.fromClient, 16)
  BY <1>1, IdSeq, Offsets DEF HasBytes
<1>3. m.id \in Nat /\ FitsBytes(m.id, 4)
  BY <1>1 DEF FitsBytes
<1>4. m.type \in Nat /\ FitsBytes(m.type, 1)
  <2>1. m.type \in Nat /\ m.type < 256
    <3>1. m.type \in Bytes
      BY <1>1
    <3>2. QED
      BY <3>1 DEF Bytes
  <2>2. QED
    BY SMT, <2>1 DEF FitsBytes, MaxNumber
<1>5. QED
  BY <1>1, <1>2, <1>3, <1>4

\* The four fields before a content
LEMMA MailHeaderParts ==
  ASSUME NEW a, HasBytes(a, 16), NEW b, HasBytes(b, 4), NEW c, HasBytes(c, 1), NEW d, HasBytes(d, 4),
         NEW h, h = Cat(Cat(Cat(a, b), c), d)
  PROVE  /\ HasBytes(h, 25) /\ Get(h, 0, 16) = a /\ Get(h, 16, 4) = b
         /\ Get(h, 20, 1) = c /\ Get(h, 21, 4) = d
<1>1. PICK z, n1, n4, n16, n20, n21, n25 \in Nat :
        z = 0 /\ n1 = 1 /\ n4 = 4 /\ n16 = 16 /\ n20 = 20 /\ n21 = 21 /\ n25 = 25
  OBVIOUS
<1>2. n16 + n4 = n20 /\ n20 + n1 = n21 /\ n21 + n4 = n25
  BY <1>1
<1>3. HasBytes(a, n16) /\ HasBytes(b, n4) /\ HasBytes(c, n1) /\ HasBytes(d, n4)
  BY <1>1
<1>4. PICK ab : ab = Cat(a, b)
  OBVIOUS
<1>5. HasBytes(ab, n20) /\ Get(ab, z, n16) = a /\ Get(ab, n16, n4) = b
  BY <1>1, <1>2, <1>3, <1>4, CatBoth
<1>6. PICK abc : abc = Cat(ab, c)
  OBVIOUS
<1>7. HasBytes(abc, n21) /\ Get(abc, n20, n1) = c
  <2>1. HasBytes(ab, n20) /\ HasBytes(c, n1) /\ n21 = n20 + n1
    BY <1>2, <1>3, <1>5
  <2>2. QED
    BY <1>6, <2>1, CatBoth
<1>8. HasBytes(h, n25) /\ Get(h, n21, n4) = d
  <2>1. HasBytes(abc, n21) /\ HasBytes(d, n4) /\ n25 = n21 + n4 /\ h = Cat(abc, d)
    BY <1>2, <1>3, <1>4, <1>6, <1>7
  <2>2. QED
    BY <2>1, CatBoth
<1>9. c \in Seq(Bytes) /\ d \in Seq(Bytes) /\ h = Cat(abc, d)
  BY <1>3, <1>4, <1>6 DEF HasBytes
<1>10. Get(abc, z, n16) = a
  <2>1. PICK e \in Nat : e = z + n16 /\ e <= n20
    BY <1>1
  <2>2. QED
    BY <1>5, <1>6, <1>9, <2>1, CatKeeps
<1>11. Get(abc, n16, n4) = b
  <2>1. n20 = n16 + n4 /\ n20 <= n20
    BY <1>2
  <2>2. QED
    BY <1>5, <1>6, <1>9, <2>1, CatKeeps
<1>12. Get(h, z, n16) = a
  <2>1. PICK e \in Nat : e = z + n16 /\ e <= n21
    BY <1>1
  <2>2. QED
    BY <1>7, <1>9, <1>10, <2>1, CatKeeps
<1>13. Get(h, n16, n4) = b
  <2>1. n20 = n16 + n4 /\ n20 <= n21
    BY <1>1
  <2>2. QED
    BY <1>7, <1>9, <1>11, <2>1, CatKeeps
<1>14. Get(h, n20, n1) = c
  <2>1. n21 = n20 + n1 /\ n21 <= n21
    BY <1>2
  <2>2. QED
    BY <1>7, <1>9, <2>1, CatKeeps
<1>15. QED
  BY <1>1, <1>8, <1>12, <1>13, <1>14

\* The packed entry, and what follows it in the payload
MailLength(m) == MessageHeaderSize + Len(m.content)

LEMMA PackedMailType ==
  ASSUME NEW m \in MailEntries
  PROVE  /\ MailLength(m) \in Nat /\ MailLength(m) >= 25
         /\ HasBytes(PackedMail(m), MailLength(m))
         /\ HasBytes(MailHeader(m), 25) /\ Get(MailHeader(m), 0, 16) = m.fromClient
         /\ Get(MailHeader(m), 16, 4) = pack(m.id, 4) /\ Get(MailHeader(m), 20, 1) = pack(m.type, 1)
         /\ Get(MailHeader(m), 21, 4) = pack(Len(m.content), 4)
         /\ Get(PackedMail(m), 25, Len(m.content)) = m.content
<1>1. PICK l \in Nat : l = Len(m.content)
  BY MailTypes, SeqLen
<1>2. PICK a, b, c, d : a = m.fromClient /\ b = pack(m.id, 4) /\ c = pack(m.type, 1) /\ d = pack(l, 4)
  OBVIOUS
<1>3. HasBytes(a, 16) /\ HasBytes(b, 4) /\ HasBytes(c, 1) /\ HasBytes(d, 4)
  BY <1>2, MailTypes, NumHas
<1>4. PICK h : h = Cat(Cat(Cat(a, b), c), d)
  OBVIOUS
<1>5. h = MailHeader(m)
  BY <1>1, <1>2, <1>4 DEF MailHeader
<1>6. /\ HasBytes(h, 25) /\ Get(h, 0, 16) = a /\ Get(h, 16, 4) = b
      /\ Get(h, 20, 1) = c /\ Get(h, 21, 4) = d
  BY <1>3, <1>4, MailHeaderParts
<1>7. HasBytes(m.content, l)
  BY <1>1, MailTypes DEF HasBytes
<1>8. PICK k \in Nat : k = 25 /\ MailLength(m) = k + l
  BY <1>1 DEF MailLength, MessageHeaderSize, CLIENT_ID_BYTE_SIZE, MESSAGE_ID_BYTE_SIZE
<1>9. HasBytes(h, k)
  BY <1>6, <1>8
<1>10. HasBytes(Cat(h, m.content), k + l) /\ Get(Cat(h, m.content), k, l) = m.content
  BY <1>7, <1>9, CatBytes, CatPart
<1>11. QED
  BY <1>1, <1>2, <1>5, <1>6, <1>8, <1>10 DEF PackedMail

LEMMA MailParsed ==
  ASSUME NEW m \in MailEntries, Len(m.content) <= MaxNumber,
         NEW rest \in Seq(Bytes), NEW p, p = Cat(PackedMail(m), rest)
  PROVE  /\ getClientIdFromBuffer(p) = IdString(m.fromClient)
         /\ getNumFromBuffer(Get(p, 16, 4)) = m.id
         /\ getNumFromBuffer(Get(p, 20, 1)) = m.type
         /\ getNumFromBuffer(Get(p, 21, 4)) = Len(m.content)
         /\ Get(p, 25, Len(m.content)) = m.content
         /\ p \in Seq(Bytes) /\ Len(p) = MailLength(m) + Len(rest)
<1>1. PICK l \in Nat : l = Len(m.content) /\ l <= MaxNumber
  BY MailTypes, SeqLen
<1>2. PICK x, h : x = PackedMail(m) /\ h = MailHeader(m) /\ x = Cat(h, m.content) /\ p = Cat(x, rest)
  BY DEF PackedMail
<1>3. PICK k \in Nat : k = MailLength(m) /\ k = 25 + l
  BY <1>1 DEF MailLength, MessageHeaderSize, CLIENT_ID_BYTE_SIZE, MESSAGE_ID_BYTE_SIZE
<1>4. /\ HasBytes(x, k) /\ HasBytes(h, 25) /\ Get(h, 0, 16) = m.fromClient
      /\ Get(h, 16, 4) = pack(m.id, 4) /\ Get(h, 20, 1) = pack(m.type, 1)
      /\ Get(h, 21, 4) = pack(l, 4) /\ Get(x, 25, l) = m.content
  BY <1>1, <1>2, <1>3, PackedMailType
<1>5. m.content \in Seq(Bytes)
  BY MailTypes
<1>6. ASSUME NEW o \in Nat, NEW n \in Nat, o + n <= 25
      PROVE  Get(p, o, n) = Get(h, o, n)
  <2>1. PICK e \in Nat, q \in Nat : e = o + n /\ e <= k /\ q = 25 /\ e <= q
    BY <1>3, <1>6
  <2>2. HasBytes(h, q)
    BY <1>4, <2>1
  <2>3. Get(x, o, n) = Get(h, o, n)
    BY <1>2, <1>5, <2>1, <2>2, CatKeeps
  <2>4. Get(p, o, n) = Get(x, o, n)
    BY <1>2, <1>4, <2>1, CatKeeps
  <2>5. QED
    BY <2>3, <2>4
<1>7. /\ Get(p, 0, 16) = m.fromClient /\ Get(p, 16, 4) = pack(m.id, 4)
      /\ Get(p, 20, 1) = pack(m.type, 1) /\ Get(p, 21, 4) = pack(l, 4)
  BY <1>4, <1>6
<1>8. Get(p, 25, l) = m.content
  <2>1. PICK q \in Nat : q = 25 /\ k = q + l /\ k <= k
    BY <1>3
  <2>2. Get(p, q, l) = Get(x, q, l)
    BY <1>2, <1>4, <2>1, CatKeeps
  <2>3. QED
    BY <1>4, <2>1, <2>2
<1>9. PICK v \in Nat : v = Len(rest)
  BY SeqLen
<1>10. HasBytes(p, k + v)
  <2>1. HasBytes(rest, v)
    BY <1>9 DEF HasBytes
  <2>2. HasBytes(x, k) /\ p = Cat(x, rest)
    BY <1>2, <1>4
  <2>3. QED
    BY <2>1, <2>2, CatBytes
<1>11. p \in Seq(Bytes) /\ Len(p) = k + v /\ 16 <= Len(p)
  BY <1>3, <1>9, <1>10 DEF HasBytes
<1>12. getClientIdFromBuffer(p) = IdString(m.fromClient)
  BY <1>7, <1>11, IdText, Offsets
<1>13. getNumFromBuffer(pack(m.id, 4)) = m.id /\ getNumFromBuffer(pack(m.type, 1)) = m.type
  BY MailTypes, NumBack
<1>14. getNumFromBuffer(pack(l, 4)) = l
  <2>1. FitsBytes(l, 4)
    BY <1>1 DEF FitsBytes
  <2>2. QED
    BY <2>1, NumBack
<1>15. QED
  BY <1>1, <1>3, <1>7, <1>8, <1>9, <1>11, <1>12, <1>13, <1>14

-----------------------------------------------------------------------------
\* Lists that are taken apart entry by entry

NonEmpty == {x \in Seq(Bytes) : x # <<>>}

LEMMA NonEmptyOver == Over(NonEmpty, Bytes)
BY DEF Over, NonEmpty

LEMMA HasNonEmpty ==
  ASSUME NEW x, NEW k \in Nat, k > 0, HasBytes(x, k)
  PROVE  x \in NonEmpty
BY SeqLen DEF HasBytes, NonEmpty

\* What is left of s after k elements
Left(s, k) == Get(s, k, Len(s) - k)

LEMMA LeftFirst ==
  ASSUME NEW S, NEW s \in Seq(S), NEW k \in Nat, k < Len(s)
  PROVE  /\ Left(s, k) \in Seq(S) /\ Left(s, k) # <<>>
         /\ Head(Left(s, k)) = s[k + 1] /\ Tail(Left(s, k)) = Left(s, k + 1)
         /\ Left(s, k + 1) \in Seq(S) /\ (Left(s, k + 1) = <<>> <=> k + 1 = Len(s))
<1>1. PICK m \in Nat, n \in Nat, j \in Nat, l \in Nat :
        m = Len(s) /\ n = m - k /\ j = k + 1 /\ l = m - j /\ n = l + 1
  <2>1. PICK m \in Nat : m = Len(s)
    BY SeqLen
  <2>2. m - k \in Nat /\ k + 1 \in Nat /\ m - (k + 1) \in Nat
    BY <2>1
  <2>3. QED
    BY <2>1, <2>2
<1>2. Fits(s, k, n) /\ Fits(s, j, l)
  BY <1>1 DEF Fits
<1>3. PICK x \in Seq(S) : x = Get(s, k, n) /\ IsPart(x, s, k, n)
  BY <1>2, GetType
<1>4. PICK y \in Seq(S) : y = Get(s, j, l) /\ IsPart(y, s, j, l)
  BY <1>2, GetType
<1>5. Len(x) = n /\ Len(y) = l /\ x # <<>>
  BY <1>1, <1>3, <1>4, SeqLen DEF IsPart
<1>6. Head(x) = s[j]
  <2>1. 1 \in 1 .. n
    BY <1>1
  <2>2. x[1] = s[k + 1]
    BY <1>3, <2>1 DEF IsPart
  <2>3. QED
    BY <1>1, <1>5, <2>2, HeadTailProperties
<1>7. PICK t \in Seq(S) : t = Tail(x) /\ Len(t) = l /\ \A i \in 1 .. l : t[i] = x[i + 1]
  <2>1. Tail(x) \in Seq(S) /\ Len(Tail(x)) = Len(x) - 1 /\ \A i \in 1 .. Len(Tail(x)) : Tail(x)[i] = x[i + 1]
    BY <1>5, HeadTailProperties
  <2>2. Len(x) - 1 = l
    BY <1>1, <1>5
  <2>3. QED
    BY <2>1, <2>2
<1>8. ASSUME NEW i \in 1 .. l
      PROVE  t[i] = y[i]
  <2>1. i + 1 \in 1 .. n /\ k + (i + 1) = j + i
    BY <1>1
  <2>2. x[i + 1] = s[k + (i + 1)]
    BY <1>3, <2>1 DEF IsPart
  <2>3. y[i] = s[j + i]
    BY <1>4 DEF IsPart
  <2>4. QED
    BY <1>7, <2>1, <2>2, <2>3
<1>9. t = y
  BY <1>5, <1>7, <1>8, SameSeq
<1>10. y = <<>> <=> j = m
  BY <1>1, <1>5, SeqLen
<1>11. x = Left(s, k) /\ y = Left(s, j)
  BY <1>1, <1>3, <1>4 DEF Left
<1>12. QED
  BY <1>1, <1>3, <1>4, <1>5, <1>6, <1>7, <1>9, <1>10, <1>11

LEMMA FlattenLeft ==
  ASSUME NEW s \in Seq(NonEmpty), NEW k \in Nat, k < Len(s)
  PROVE  /\ s[k + 1] \in NonEmpty
         /\ FlattenSeq(Left(s, k)) \in Seq(Bytes) /\ FlattenSeq(Left(s, k + 1)) \in Seq(Bytes)
         /\ FlattenSeq(Left(s, k)) = Cat(s[k + 1], FlattenSeq(Left(s, k + 1)))
<1>1. PICK t \in Seq(NonEmpty) :
        t = Left(s, k) /\ t # <<>> /\ Head(t) = s[k + 1] /\ Tail(t) = Left(s, k + 1)
  BY LeftFirst
<1>2. Left(s, k + 1) \in Seq(NonEmpty)
  BY LeftFirst
<1>3. FlattenSeq(t) = Head(t) \o FlattenSeq(Tail(t))
  BY <1>1, NonEmptyOver, FlattenFirst
<1>4. FlattenSeq(t) \in Seq(Bytes) /\ FlattenSeq(Left(s, k + 1)) \in Seq(Bytes)
  BY <1>2, NonEmptyOver, FlattenType
<1>5. s[k + 1] \in NonEmpty
  BY <1>1, HeadTailProperties
<1>6. QED
  BY <1>1, <1>3, <1>4, <1>5 DEF Cat

\* There is more to parse as long as an entry is left.
LEMMA FlattenNone ==
  ASSUME NEW t \in Seq(NonEmpty)
  PROVE  FlattenSeq(t) = <<>> <=> t = <<>>
<1>1. ASSUME t # <<>>
      PROVE  FlattenSeq(t) # <<>>
  <2>1. FlattenSeq(t) = Head(t) \o FlattenSeq(Tail(t))
    BY <1>1, NonEmptyOver, FlattenFirst
  <2>2. Head(t) \in NonEmpty /\ Tail(t) \in Seq(NonEmpty)
    BY <1>1, HeadTailProperties
  <2>3. PICK x \in Seq(Bytes), y \in Seq(Bytes) : x = Head(t) /\ x # <<>> /\ y = FlattenSeq(Tail(t))
    BY <2>2, NonEmptyOver, FlattenType DEF NonEmpty
  <2>4. Len(x) \in Nat \ {0} /\ Len(y) \in Nat /\ Len(x \o y) = Len(x) + Len(y)
    BY <2>3, SeqLen, ConcatProperties
  <2>5. Len(x \o y) # 0
    BY <2>4
  <2>6. QED
    BY <2>1, <2>3, <2>5, EmptySeq
<1>2. QED
  BY <1>1, FlattenEmpty

\* The first k elements and the next
LEMMA FirstMore ==
  ASSUME NEW S, NEW s \in Seq(S), NEW k \in Nat, k < Len(s)
  PROVE  Append(Get(s, 0, k), s[k + 1]) = Get(s, 0, k + 1)
<1>1. PICK m \in Nat, j \in Nat, z \in Nat : m = Len(s) /\ j = k + 1 /\ j <= m /\ z = 0
  BY SeqLen
<1>2. Fits(s, z, k) /\ Fits(s, z, j)
  BY <1>1 DEF Fits
<1>3. PICK x \in Seq(S) : x = Get(s, z, k) /\ IsPart(x, s, z, k)
  BY <1>2, GetType
<1>4. PICK y \in Seq(S) : y = Get(s, z, j) /\ IsPart(y, s, z, j)
  BY <1>2, GetType
<1>5. Len(x) = k /\ Len(y) = j /\ s[j] \in S
  <2>1. j \in 1 .. Len(s)
    BY <1>1
  <2>2. QED
    BY <1>3, <1>4, <2>1, ElementOfSeq DEF IsPart
<1>6. PICK a : a = Append(x, s[j])
  OBVIOUS
<1>7. a \in Seq(S) /\ Len(a) = j /\ a[j] = s[j] /\ \A i \in 1 .. k : a[i] = x[i]
  BY <1>1, <1>5, <1>6, AppendProperties
<1>8. ASSUME NEW i \in 1 .. j
      PROVE  a[i] = y[i]
  <2>1. y[i] = s[i]
    <3>1. y[i] = s[z + i] /\ z + i = i
      BY <1>1, <1>4 DEF IsPart
    <3>2. QED
      BY <3>1
  <2>2. CASE i = j
    BY <1>7, <2>1, <2>2
  <2>3. CASE i # j
    <3>1. i \in 1 .. k /\ z + i = i
      BY <1>1, <2>3
    <3>2. x[i] = s[z + i]
      BY <1>3, <3>1 DEF IsPart
    <3>3. QED
      BY <1>7, <2>1, <3>1, <3>2
  <2>4. QED
    BY <2>2, <2>3
<1>9. a = y
  BY <1>5, <1>7, <1>8, SameSeq
<1>10. QED
  BY <1>1, <1>3, <1>4, <1>6, <1>9

-----------------------------------------------------------------------------
\* What the server sends

ResponseSet ==
  [code: {"REGISTER_SUCCESS"}, clientId: IdBytes]
    \cup [code: {"LIST_CLIENTS_SUCCESS"}, clients: ClientLists]
    \cup [code: {"PUBLIC_KEY_SUCCESS"}, clientId: IdBytes, publicKey: PublicKeys]
    \cup [code: {"MESSAGE_SENT_SUCCESS"}, clientId: IdBytes, messageId: MessageIds]
    \cup [code: {"MESSAGES_PULLED_SUCCESS"}, messages: MessageLists]
    \cup {ErrorResponse}

LEMMA AnswerType ==
  ASSUME NEW r \in MadeRequests, NEW q, NEW s, Has(q, r, s), NEW a \in Answers(q) \cup {ErrorResponse}
  PROVE  a \in ResponseSet
<1>1. q.op \in {"GET_PUBLIC_KEY", "SEND_MESSAGE"} => q.destClientId \in IdBytes
  BY DEF Has
<1>2. ClientIds \subseteq IdBytes
  BY CodecAssumption
<1>3. CASE a = ErrorResponse
  BY <1>3 DEF ResponseSet
<1>4. CASE a \in Answers(q)
  <2>1. CASE q.op = "REGISTER"
    BY <1>2, <1>4, <2>1 DEF Answers, ResponseSet
  <2>2. CASE q.op = "LIST_CLIENTS"
    BY <1>4, <2>2 DEF Answers, ResponseSet
  <2>3. CASE q.op = "GET_PUBLIC_KEY"
    BY <1>1, <1>4, <2>3 DEF Answers, ResponseSet
  <2>4. CASE q.op = "SEND_MESSAGE"
    BY <1>1, <1>4, <2>4 DEF Answers, ResponseSet
  <2>5. CASE q.op = "PULL_MESSAGES"
    BY <1>4, <2>5 DEF Answers, ResponseSet
  <2>6. q.op \in {"REGISTER", "LIST_CLIENTS", "GET_PUBLIC_KEY", "SEND_MESSAGE", "PULL_MESSAGES"}
    BY MadeTypes DEF Has
  <2>7. QED
    BY <2>1, <2>2, <2>3, <2>4, <2>5, <2>6
<1>5. QED
  BY <1>3, <1>4

LEMMA ServedType ==
  ASSUME RequestInv, served # NoResponse
  PROVE  served \in ResponseSet
<1>1. /\ request \in MadeRequests /\ Has(parsed, request, Base)
      /\ served \in Answers(parsed) \cup {ErrorResponse}
  BY DEF RequestInv
<1>2. QED
  BY <1>1, AnswerType

LEMMA AnswerKinds ==
  ASSUME NEW a \in ResponseSet
  PROVE  \/ a.code = "REGISTER_SUCCESS" /\ a.clientId \in IdBytes
         \/ a.code = "LIST_CLIENTS_SUCCESS" /\ a.clients \in ClientLists
            /\ a = [code |-> "LIST_CLIENTS_SUCCESS", clients |-> a.clients]
         \/ a.code = "PUBLIC_KEY_SUCCESS" /\ a.clientId \in IdBytes /\ a.publicKey \in PublicKeys
         \/ a.code = "MESSAGE_SENT_SUCCESS" /\ a.clientId \in IdBytes /\ a.messageId \in MessageIds
         \/ a.code = "MESSAGES_PULLED_SUCCESS" /\ a.messages \in MessageLists
            /\ a = [code |-> "MESSAGES_PULLED_SUCCESS", messages |-> a.messages]
         \/ a.code = "GENERAL_SERVER_ERROR"
BY DEF ResponseSet, ErrorResponse

LEMMA ListTypes ==
  ASSUME NEW a \in ResponseSet
  PROVE  /\ a.code = "LIST_CLIENTS_SUCCESS" => a.clients \in Seq(ListEntries) /\ HasKeys(a.clients)
         /\ a.code = "MESSAGES_PULLED_SUCCESS" =>
              a.messages \in Seq(MailEntries) /\ HasKeys(a.messages)
         /\ IsBig(a) => Len(_get_pack_data(a)) <= MaxNumber
<1>1. CASE a.code = "LIST_CLIENTS_SUCCESS"
  <2>1. PICK rows \in ClientLists :
          rows = a.clients /\ a = [code |-> "LIST_CLIENTS_SUCCESS", clients |-> rows]
    BY <1>1, AnswerKinds
  <2>2. /\ rows \in Seq(ListEntries) /\ HasKeys(rows)
        /\ Len(_get_pack_data([code |-> "LIST_CLIENTS_SUCCESS", clients |-> rows])) <= MaxNumber
    BY ListsAssumption
  <2>3. QED
    BY <1>1, <2>1, <2>2
<1>2. CASE a.code = "MESSAGES_PULLED_SUCCESS"
  <2>1. PICK rows \in MessageLists :
          rows = a.messages /\ a = [code |-> "MESSAGES_PULLED_SUCCESS", messages |-> rows]
    BY <1>2, AnswerKinds
  <2>2. /\ rows \in Seq(MailEntries) /\ HasKeys(rows)
        /\ Len(_get_pack_data([code |-> "MESSAGES_PULLED_SUCCESS", messages |-> rows])) <= MaxNumber
    BY ListsAssumption
  <2>3. QED
    BY <1>2, <2>1, <2>2
<1>3. CASE ~ IsBig(a)
  BY <1>3 DEF IsBig
<1>4. QED
  BY <1>1, <1>2, <1>3 DEF IsBig

Packed(a) ==
  IF a.code = "LIST_CLIENTS_SUCCESS"
    THEN [i \in DOMAIN a.clients |-> PackedClient(a.clients[i])]
    ELSE [i \in DOMAIN a.messages |-> PackedMail(a.messages[i])]

LEMMA PackedIs ==
  ASSUME NEW a
  PROVE  /\ a.code = "LIST_CLIENTS_SUCCESS" => _get_pack_data(a) = FlattenSeq(Packed(a))
         /\ a.code = "MESSAGES_PULLED_SUCCESS" => _get_pack_data(a) = FlattenSeq(Packed(a))
<1>1. CASE a.code = "LIST_CLIENTS_SUCCESS"
  <2>1. \A i \in DOMAIN a.clients :
          PackedClient(a.clients[i]) = a.clients[i].id \o Padded(a.clients[i].userName)
    BY DEF PackedClient, Cat
  <2>2. Packed(a) = [i \in DOMAIN a.clients |-> a.clients[i].id \o Padded(a.clients[i].userName)]
    BY <1>1, <2>1 DEF Packed
  <2>3. QED
    BY <1>1, <2>2 DEF _get_pack_data
<1>2. CASE a.code = "MESSAGES_PULLED_SUCCESS"
  <2>1. \A i \in DOMAIN a.messages :
          LET m == a.messages[i]
          IN  PackedMail(m) = m.fromClient \o pack(m.id, 4) \o pack(m.type, 1)
                                \o pack(Len(m.content), 4) \o m.content
    BY DEF PackedMail, MailHeader, Cat
  <2>2. Packed(a) =
          [i \in DOMAIN a.messages |->
             LET m == a.messages[i]
             IN  m.fromClient \o pack(m.id, 4) \o pack(m.type, 1)
                   \o pack(Len(m.content), 4) \o m.content]
    BY <1>2, <2>1 DEF Packed
  <2>3. QED
    BY <1>2, <2>2 DEF _get_pack_data
<1>3. QED
  BY <1>1, <1>2

LEMMA RowsSeq ==
  ASSUME NEW R, NEW rows \in Seq(R), NEW S, NEW f, DOMAIN f = DOMAIN rows,
         \A i \in DOMAIN rows : f[i] \in S, f = [i \in DOMAIN rows |-> f[i]]
  PROVE  f \in Seq(S) /\ Len(f) = Len(rows)
<1>1. PICK n \in Nat : n = Len(rows) /\ DOMAIN rows = 1 .. n
  BY SeqLen, LenProperties
<1>2. f \in [1 .. n -> S]
  BY <1>1
<1>3. QED
  BY <1>1, <1>2, FunctionSeq

ListShown(rows) ==
  [i \in DOMAIN rows |-> [clientId |-> IdString(rows[i].id), clientName |-> rows[i].userName]]
MailShown(rows) ==
  [i \in DOMAIN rows |->
     [clientId |-> IdString(rows[i].fromClient), messageId |-> rows[i].id,
      messageType |-> rows[i].type, content |-> rows[i].content]]

LEMMA PackedRows ==
  ASSUME NEW a \in ResponseSet, IsBig(a)
  PROVE  /\ Packed(a) \in Seq(NonEmpty)
         /\ \E S : Shown(a) \in Seq(S)
         /\ Len(Shown(a)) = Len(Packed(a))
         /\ _get_pack_data(a) = FlattenSeq(Packed(a))
<1>1. CASE a.code = "LIST_CLIENTS_SUCCESS"
  <2>1. PICK rows \in Seq(ListEntries) : rows = a.clients
    BY <1>1, ListTypes
  <2>2. PICK f : f = Packed(a) /\ f = [i \in DOMAIN rows |-> PackedClient(rows[i])]
    BY <1>1, <2>1 DEF Packed
  <2>3. PICK g : g = Shown(a) /\ g = ListShown(rows)
    BY <1>1, <2>1 DEF Shown, ListShown
  <2>4. ASSUME NEW i \in DOMAIN rows
        PROVE  PackedClient(rows[i]) \in NonEmpty
    <3>1. PICK e \in ListEntries : e = rows[i]
      BY LenProperties, ElementOfSeq
    <3>2. PICK w \in Nat : w = CLIENT_ID_BYTE_SIZE + USER_NAME_BYTE_SIZE /\ w > 0
      BY Offsets
    <3>3. HasBytes(PackedClient(e), w)
      BY <3>2, PackedClientType
    <3>4. QED
      BY <3>1, <3>2, <3>3, HasNonEmpty
  <2>5. f \in Seq(NonEmpty) /\ Len(f) = Len(rows)
    <3>1. DOMAIN f = DOMAIN rows /\ f = [i \in DOMAIN rows |-> f[i]] /\ \A i \in DOMAIN rows : f[i] \in NonEmpty
      BY <2>2, <2>4
    <3>2. QED
      BY <3>1, RowsSeq
  <2>6. PICK S : g \in Seq(S) /\ Len(g) = Len(rows)
    <3>1. PICK S : S = {g[i] : i \in DOMAIN rows}
      OBVIOUS
    <3>2. DOMAIN g = DOMAIN rows /\ g = [i \in DOMAIN rows |-> g[i]] /\ \A i \in DOMAIN rows : g[i] \in S
      BY <2>3, <3>1 DEF ListShown
    <3>3. g \in Seq(S) /\ Len(g) = Len(rows)
      BY <3>2, RowsSeq
    <3>4. QED
      BY <3>3
  <2>7. QED
    BY <1>1, <2>2, <2>3, <2>5, <2>6, PackedIs
<1>2. CASE a.code = "MESSAGES_PULLED_SUCCESS"
  <2>1. PICK rows \in Seq(MailEntries) : rows = a.messages
    BY <1>2, ListTypes
  <2>2. PICK f : f = Packed(a) /\ f = [i \in DOMAIN rows |-> PackedMail(rows[i])]
    BY <1>2, <2>1 DEF Packed
  <2>3. PICK g : g = Shown(a) /\ g = MailShown(rows)
    BY <1>2, <2>1 DEF Shown, MailShown
  <2>4. ASSUME NEW i \in DOMAIN rows
        PROVE  PackedMail(rows[i]) \in NonEmpty
    <3>1. PICK e \in MailEntries : e = rows[i]
      BY LenProperties, ElementOfSeq
    <3>2. PICK w \in Nat : w = MailLength(e) /\ w > 0
      BY PackedMailType
    <3>3. HasBytes(PackedMail(e), w)
      BY <3>2, PackedMailType
    <3>4. QED
      BY <3>1, <3>2, <3>3, HasNonEmpty
  <2>5. f \in Seq(NonEmpty) /\ Len(f) = Len(rows)
    <3>1. DOMAIN f = DOMAIN rows /\ f = [i \in DOMAIN rows |-> f[i]] /\ \A i \in DOMAIN rows : f[i] \in NonEmpty
      BY <2>2, <2>4
    <3>2. QED
      BY <3>1, RowsSeq
  <2>6. PICK S : g \in Seq(S) /\ Len(g) = Len(rows)
    <3>1. PICK S : S = {g[i] : i \in DOMAIN rows}
      OBVIOUS
    <3>2. DOMAIN g = DOMAIN rows /\ g = [i \in DOMAIN rows |-> g[i]] /\ \A i \in DOMAIN rows : g[i] \in S
      BY <2>3, <3>1 DEF MailShown
    <3>3. g \in Seq(S) /\ Len(g) = Len(rows)
      BY <3>2, RowsSeq
    <3>4. QED
      BY <3>3
  <2>7. QED
    BY <1>2, <2>2, <2>3, <2>5, <2>6, PackedIs
<1>3. QED
  BY <1>1, <1>2 DEF IsBig

\* Parts of the payloads of small responses
LEMMA SmallData ==
  ASSUME NEW a \in ResponseSet, ~ IsBig(a)
  PROVE  \E n \in Nat :
           /\ HasBytes(_get_pack_data(a), n) /\ n = ExpectedSize[a.code] /\ n <= 176
           /\ a.code # "GENERAL_SERVER_ERROR" => n >= 16 /\ Get(_get_pack_data(a), 0, 16) = a.clientId
           /\ a.code = "PUBLIC_KEY_SUCCESS" =>
                n = 16 + 160 /\ Get(_get_pack_data(a), 16, 160) = a.publicKey
           /\ a.code = "MESSAGE_SENT_SUCCESS" =>
                n = 16 + 4 /\ Get(_get_pack_data(a), 16, 4) = pack(a.messageId, 4)
<1>1. PICK z, k, p, i, e \in Nat : z = 0 /\ k = 160 /\ p = 16 + 160 /\ i = 16 /\ e = 4
  OBVIOUS
<1>2. CASE a.code = "REGISTER_SUCCESS"
  <2>1. a.clientId \in IdBytes /\ _get_pack_data(a) = a.clientId
    BY <1>2, AnswerKinds DEF _get_pack_data
  <2>2. HasBytes(a.clientId, 16) /\ Get(a.clientId, 0, 16) = a.clientId
    BY <2>1, IdSeq, GetAll, Offsets DEF HasBytes
  <2>3. ExpectedSize[a.code] = 16
    BY <1>2, Offsets DEF ExpectedSize
  <2>4. QED
    BY <1>2, <2>1, <2>2, <2>3
<1>3. CASE a.code = "PUBLIC_KEY_SUCCESS"
  <2>1. PICK x, y : x = a.clientId /\ y = a.publicKey /\ x \in IdBytes /\ y \in PublicKeys
    BY <1>3, AnswerKinds
  <2>2. _get_pack_data(a) = Cat(x, y)
    BY <1>3, <2>1 DEF _get_pack_data, Cat
  <2>3. HasBytes(x, i) /\ HasBytes(y, k)
    BY <1>1, <2>1, IdSeq, KeySeq, Offsets DEF HasBytes
  <2>4. p = i + k
    BY <1>1
  <2>5. PICK c : c = Cat(x, y)
    OBVIOUS
  <2>6. HasBytes(c, p) /\ Get(c, 0, i) = x /\ Get(c, i, k) = y
    BY <2>3, <2>4, <2>5, CatBoth
  <2>7. ExpectedSize[a.code] = 176
    BY <1>3, Offsets DEF ExpectedSize
  <2>8. QED
    BY <1>1, <1>3, <2>1, <2>2, <2>5, <2>6, <2>7
<1>4. CASE a.code = "MESSAGE_SENT_SUCCESS"
  <2>1. PICK x, y : x = a.clientId /\ y = pack(a.messageId, 4) /\ x \in IdBytes /\ a.messageId \in Nat
    BY <1>4, AnswerKinds, CodecAssumption
  <2>2. _get_pack_data(a) = Cat(x, y)
    BY <1>4, <2>1 DEF _get_pack_data, Cat
  <2>3. HasBytes(x, i) /\ HasBytes(y, e)
    BY <1>1, <2>1, IdSeq, NumHas, Offsets DEF HasBytes
  <2>4. PICK n \in Nat : n = i + e
    OBVIOUS
  <2>5. PICK c : c = Cat(x, y)
    OBVIOUS
  <2>6. HasBytes(c, n) /\ Get(c, 0, i) = x /\ Get(c, i, e) = y
    BY <2>3, <2>4, <2>5, CatBoth
  <2>7. ExpectedSize[a.code] = 20
    BY <1>4, Offsets DEF ExpectedSize, MESSAGE_ID_BYTE_SIZE
  <2>8. QED
    BY <1>1, <1>4, <2>1, <2>2, <2>4, <2>5, <2>6, <2>7
<1>5. CASE a.code = "GENERAL_SERVER_ERROR"
  <2>1. _get_pack_data(a) = <<>>
    BY <1>5 DEF _get_pack_data
  <2>2. HasBytes(<<>>, 0)
    BY DEF HasBytes
  <2>3. ExpectedSize[a.code] = 0
    BY <1>5 DEF ExpectedSize
  <2>4. QED
    BY <1>5, <2>1, <2>2, <2>3
<1>6. QED
  BY <1>2, <1>3, <1>4, <1>5, AnswerKinds DEF IsBig

LEMMA PayloadType ==
  ASSUME NEW a \in ResponseSet
  PROVE  \E n \in Nat : HasBytes(_get_pack_data(a), n) /\ n <= MaxNumber
<1>1. CASE IsBig(a)
  <2>1. _get_pack_data(a) \in Seq(Bytes)
    BY <1>1, PackedRows, NonEmptyOver, FlattenType
  <2>2. Len(_get_pack_data(a)) <= MaxNumber
    BY <1>1, ListTypes
  <2>3. QED
    BY <2>1, <2>2, SeqLen DEF HasBytes
<1>2. CASE ~ IsBig(a)
  <2>1. PICK n \in Nat : HasBytes(_get_pack_data(a), n) /\ n <= 176
    BY <1>2, SmallData
  <2>2. n <= MaxNumber
    BY SMT, <2>1 DEF MaxNumber
  <2>3. QED
    BY <2>1, <2>2
<1>3. QED
  BY <1>1, <1>2

\* m partitions with the header and the n bytes of the payload p.
Formatted(a, d, p, n, m) ==
  /\ p = _get_pack_data(a) /\ HasBytes(p, n) /\ n <= MaxNumber
  /\ HasBytes(d, 1024 * m) /\ m > 0 /\ 7 + n <= 1024 * m /\ 1024 * m < 7 + n + 1024
  /\ m = Partitions(7 + n)
  /\ Get(d, 1, 2) = pack(ResponseCode[a.code], 2) /\ Get(d, 3, 4) = pack(n, 4)
  /\ \A o, k \in Nat : o + k <= n => Get(d, 7 + o, k) = Get(p, o, k)

LEMMA CodeRange ==
  ASSUME NEW a \in ResponseSet
  PROVE  /\ a.code \in DOMAIN ResponseCode
         /\ ResponseCode[a.code] \in Nat /\ ResponseCode[a.code] <= 9000
<1>1. a.code \in DOMAIN ResponseCode
  BY AnswerKinds DEF ResponseCode
<1>2. \A name \in DOMAIN ResponseCode : ResponseCode[name] \in Nat /\ ResponseCode[name] <= 9000
  BY DEF ResponseCode
<1>3. QED
  BY <1>1, <1>2

LEMMA FormatType ==
  ASSUME NEW a \in ResponseSet
  PROVE  \E n, m \in Nat : Formatted(a, _format_response(a), _get_pack_data(a), n, m)
<1>0. PICK p : p = _get_pack_data(a)
  OBVIOUS
<1>1. PICK n \in Nat : p = _get_pack_data(a) /\ HasBytes(p, n) /\ n <= MaxNumber
  BY <1>0, PayloadType
<1>2. PICK x, y, w : /\ x = pack(SERVER_VERSION, 1) /\ y = pack(ResponseCode[a.code], 2)
                     /\ w = pack(n, 4)
  OBVIOUS
<1>3. PICK n1, n2, n3, n4, n7, k, z \in Nat :
        n1 = 1 /\ n2 = 2 /\ n3 = 3 /\ n4 = 4 /\ n7 = 7 /\ k = n7 + n /\ z = 0
  <2>1. 7 + n \in Nat
    OBVIOUS
  <2>2. QED
    BY <2>1
<1>4. HasBytes(x, n1) /\ HasBytes(y, n2) /\ HasBytes(w, n4)
  BY <1>2, <1>3, CodeRange, NumHas DEF SERVER_VERSION
<1>5. PICK h1 : h1 = Cat(x, y)
  OBVIOUS
<1>6. PICK h : h = Cat(h1, w)
  OBVIOUS
<1>7. HasBytes(h1, n3) /\ Get(h1, n1, n2) = y
  <2>1. n3 = n1 + n2
    BY <1>3
  <2>2. QED
    BY <1>4, <1>5, <2>1, CatBoth
<1>8. HasBytes(h, n7) /\ Get(h, n3, n4) = w
  <2>1. n7 = n3 + n4
    BY <1>3
  <2>2. QED
    BY <1>4, <1>6, <1>7, <2>1, CatBoth
<1>9. PICK c : c = Cat(h, p)
  OBVIOUS
<1>10. HasBytes(c, k)
  BY <1>1, <1>3, <1>8, <1>9, CatBoth
<1>11. PICK m \in Nat, r \in Nat : /\ m = Partitions(7 + n) /\ m > 0 /\ 7 + n <= 1024 * m
                                   /\ 1024 * m < 7 + n + 1024 /\ r = 1024 * m - k
  <2>1. PICK m \in Nat : m = (7 + n + 1024 - 1) \div 1024 /\ 1024 * m <= 7 + n + 1023 /\ 7 + n + 1023 < 1024 * m + 1024
    OBVIOUS
  <2>2. m = Partitions(7 + n)
    BY <2>1, Offsets DEF Partitions
  <2>3. 7 + n <= 1024 * m /\ m > 0 /\ 1024 * m < 7 + n + 1024
    BY <2>1
  <2>4. 1024 * m - k \in Nat
    BY <1>3, <2>3
  <2>5. QED
    BY <2>2, <2>3, <2>4
<1>12. PICK v : v = Zeros(r) /\ HasBytes(v, r)
  BY ZerosType DEF HasBytes
<1>13. PICK d : d = Cat(c, v)
  OBVIOUS
<1>14. HasBytes(d, 1024 * m)
  <2>1. PICK e : e = 1024 * m /\ e = k + r
    BY <1>3, <1>11
  <2>2. HasBytes(d, e)
    <3>1. HasBytes(c, k) /\ HasBytes(v, r) /\ e = k + r /\ d = Cat(c, v)
      BY <1>10, <1>12, <1>13, <2>1
    <3>2. QED
      BY <3>1, CatBoth
  <2>3. QED
    BY <2>1, <2>2
<1>15. d = _format_response(a)
  <2>1. c = pack(SERVER_VERSION, 1) \o pack(ResponseCode[a.code], 2) \o pack(Len(p), 4) \o p
    BY <1>1, <1>2, <1>5, <1>6, <1>9 DEF Cat, HasBytes
  <2>2. Len(c) = k /\ BUFFER_PARTITION_SIZE = 1024
    BY <1>10, Offsets DEF HasBytes
  <2>3. v = Zeros(BUFFER_PARTITION_SIZE * Partitions(Len(c)) - Len(c))
    BY <1>3, <1>11, <1>12, <2>2
  <2>4. QED
    BY <1>1, <1>13, <2>1, <2>3 DEF _format_response, Cat
<1>16. p \in Seq(Bytes) /\ v \in Seq(Bytes) /\ w \in Seq(Bytes)
  BY <1>1, <1>4, <1>12 DEF HasBytes
<1>17. ASSUME NEW o \in Nat, NEW j \in Nat, NEW e \in Nat, e = o + j, e <= k
       PROVE  Get(d, o, j) = Get(c, o, j)
  BY <1>10, <1>13, <1>16, <1>17, CatKeeps
<1>18. ASSUME NEW o \in Nat, NEW j \in Nat, NEW e \in Nat, e = o + j, e <= n7
       PROVE  Get(d, o, j) = Get(h, o, j)
  <2>1. Get(c, o, j) = Get(h, o, j)
    BY <1>8, <1>9, <1>16, <1>18, CatKeeps
  <2>2. e <= k
    BY <1>3, <1>18
  <2>3. QED
    BY <1>17, <1>18, <2>1, <2>2
<1>19. Get(d, n1, n2) = y
  <2>1. n3 = n1 + n2 /\ n3 <= n7 /\ n3 <= n3
    BY <1>3
  <2>2. Get(d, n1, n2) = Get(h, n1, n2)
    BY <1>18, <2>1
  <2>3. Get(h, n1, n2) = Get(h1, n1, n2)
    BY <1>6, <1>7, <1>16, <2>1, CatKeeps
  <2>4. QED
    BY <1>7, <2>2, <2>3
<1>20. Get(d, n3, n4) = w
  <2>1. n7 = n3 + n4 /\ n7 <= n7
    BY <1>3
  <2>2. QED
    BY <1>8, <1>18, <2>1
<1>21. ASSUME NEW o \in Nat, NEW j \in Nat, o + j <= n
       PROVE  Get(d, 7 + o, j) = Get(p, o, j)
  <2>1. PICK q \in Nat, e \in Nat : q = 7 + o /\ q = n7 + o /\ e = q + j /\ e <= k
    <3>1. 7 + o \in Nat /\ 7 + o + j \in Nat /\ 7 + o + j <= k
      BY <1>3, <1>21
    <3>2. QED
      BY <1>3, <3>1
  <2>2. Get(d, q, j) = Get(c, q, j)
    BY <1>17, <2>1
  <2>3. Fits(p, o, j)
    BY <1>1, <1>21 DEF Fits, HasBytes
  <2>4. h \in Seq(Bytes) /\ n7 = Len(h)
    BY <1>8 DEF HasBytes
  <2>5. Get(c, n7 + o, j) = Get(p, o, j)
    <3>1. p \in Seq(Bytes)
      BY <1>16
    <3>2. Get(Cat(h, p), n7 + o, j) = Get(p, o, j)
      BY <2>3, <2>4, <3>1, GetRight
    <3>3. QED
      BY <1>9, <3>2
  <2>6. QED
    BY <2>1, <2>2, <2>5
<1>22. Formatted(a, d, p, n, m)
  BY <1>1, <1>2, <1>3, <1>11, <1>14, <1>19, <1>20, <1>21 DEF Formatted
<1>23. QED
  BY <1>1, <1>15, <1>22

-----------------------------------------------------------------------------
\* What the client reads

\* What is left of d, of m partitions, after j of them
Rest(d, m, j) == Get(d, 1024 * j, 1024 * (m - j))

IsPartition(b, d, j) ==
  \A o, k \in Nat : o + k <= 1024 => Get(b, o, k) = Get(d, 1024 * j + o, k)

Splits(e, b, rest) == b = Get(e, 0, 1024) /\ rest = SubSeq(e, 1025, Len(e))

\* The client reads the partition b of those that are left of d.
LEMMA NextPartition ==
  ASSUME NEW d, NEW m \in Nat, HasBytes(d, 1024 * m), NEW j \in Nat, j < m,
         NEW e, e = Rest(d, m, j), NEW b, NEW rest, Splits(e, b, rest), NEW i \in Nat, i = j + 1
  PROVE  /\ b \in BufferSet /\ IsPartition(b, d, j)
         /\ HasBytes(e, 1024 * (m - j)) /\ e # <<>> /\ rest = Rest(d, m, i)
<1>0. b = Get(e, 0, 1024) /\ rest = SubSeq(e, 1025, Len(e)) /\ e = Get(d, 1024 * j, 1024 * (m - j))
  BY DEF Splits, Rest
<1>1. PICK p, l, q, r, z, k0 \in Nat :
        /\ p = 1024 * j /\ l = 1024 * (m - j) /\ q = 1024 * (j + 1) /\ r = 1024 * (m - (j + 1))
        /\ z = 0 /\ k0 = 1024
        /\ p + l = 1024 * m /\ q = p + 1024 /\ l = r + 1024
  OBVIOUS
<1>2. d \in Seq(Bytes) /\ Len(d) = p + l
  BY <1>1 DEF HasBytes
<1>3. Fits(d, p, l)
  BY <1>2 DEF Fits
<1>4. e \in Seq(Bytes) /\ Len(e) = l
  <2>1. e = Get(d, p, l)
    BY <1>0, <1>1
  <2>2. QED
    BY <1>2, <1>3, <2>1, GetType DEF IsPart
<1>5. Fits(d, p, k0) /\ z + k0 <= l /\ p + z = p
  BY <1>1, <1>2 DEF Fits
<1>6. b = Get(d, p, k0)
  <2>1. Get(Get(d, p, l), z, k0) = Get(d, p + z, k0)
    BY <1>2, <1>3, <1>5, GetGet
  <2>2. QED
    BY <1>0, <1>1, <1>5, <2>1
<1>7. b \in BufferSet
  <2>1. Get(d, p, k0) \in Seq(Bytes) /\ IsPart(Get(d, p, k0), d, p, k0)
    BY <1>2, <1>5, GetType
  <2>2. Len(b) = k0
    BY <1>6, <2>1 DEF IsPart
  <2>3. k0 = BUFFER_PARTITION_SIZE
    BY <1>1, Offsets
  <2>4. QED
    BY <1>6, <2>1, <2>2, <2>3 DEF BufferSet
<1>8. ASSUME NEW o \in Nat, NEW k \in Nat, o + k <= 1024
      PROVE  Get(b, o, k) = Get(d, 1024 * j + o, k)
  <2>1. o + k <= k0
    BY <1>1, <1>8
  <2>2. Get(Get(d, p, k0), o, k) = Get(d, p + o, k)
    BY <1>2, <1>5, <2>1, GetGet
  <2>3. QED
    BY <1>1, <1>6, <2>2
<1>9. SubSeq(e, 1025, Len(e)) = Get(d, q, r)
  <2>1. k0 + r <= l /\ p + k0 = q /\ 1024 + 1 = 1025 /\ 1024 + r = l
    BY <1>1
  <2>2. SubSeq(e, 1025, Len(e)) = Get(e, k0, r)
    <3>1. k0 + 1 = 1025 /\ k0 + r = Len(e)
      BY <1>1, <1>4
    <3>2. Get(e, k0, r) = SubSeq(e, k0 + 1, k0 + r)
      BY DEF Get
    <3>3. QED
      BY <3>1, <3>2
  <2>3. Get(Get(d, p, l), k0, r) = Get(d, p + k0, r)
    BY <1>2, <1>3, <2>1, GetGet
  <2>4. QED
    BY <1>0, <1>1, <2>1, <2>2, <2>3
<1>10. e # <<>>
  BY <1>1, <1>4, SeqLen
<1>11. QED
  <2>1. IsPartition(b, d, j)
    BY <1>8 DEF IsPartition
  <2>2. HasBytes(e, 1024 * (m - j))
    BY <1>1, <1>4 DEF HasBytes
  <2>3. rest = Rest(d, m, i)
    <3>1. q = 1024 * i /\ r = 1024 * (m - i)
      BY <1>1
    <3>2. QED
      BY <1>0, <1>9, <3>1 DEF Rest
  <2>4. QED
    BY <1>7, <1>10, <2>1, <2>2, <2>3

\* A response as far as it is parsed
Record(a, n, status, payload, list) ==
  [status |-> status, size |-> n, payload |-> payload, list |-> list, code |-> a.code]

LEMMA CodesDiffer ==
  ASSUME NEW x \in DOMAIN ResponseCode, NEW y \in DOMAIN ResponseCode,
         ResponseCode[x] = ResponseCode[y]
  PROVE  x = y
<1>1. DOMAIN ResponseCode =
        {"REGISTER_SUCCESS", "LIST_CLIENTS_SUCCESS", "PUBLIC_KEY_SUCCESS", "MESSAGE_SENT_SUCCESS",
         "MESSAGES_PULLED_SUCCESS", "GENERAL_SERVER_ERROR"}
  BY DEF ResponseCode
<1>2. /\ ResponseCode["REGISTER_SUCCESS"] = 2100 /\ ResponseCode["LIST_CLIENTS_SUCCESS"] = 2101
      /\ ResponseCode["PUBLIC_KEY_SUCCESS"] = 2102 /\ ResponseCode["MESSAGE_SENT_SUCCESS"] = 2103
      /\ ResponseCode["MESSAGES_PULLED_SUCCESS"] = 2104
      /\ ResponseCode["GENERAL_SERVER_ERROR"] = 9000
  BY DEF ResponseCode
<1>3. QED
  BY <1>1, <1>2

\* The entries of a list of clients have the same length.
LEMMA FlattenLength ==
  ASSUME NEW T, \A x \in T : HasBytes(x, 271), NEW s \in Seq(T)
  PROVE  Len(FlattenSeq(s)) = 271 * Len(s)
<1>. DEFINE P == {k \in Nat : \A t \in Seq(T) : Len(t) = k => HasBytes(FlattenSeq(t), 271 * k)}
<1>1. 0 \in P
  <2>1. SUFFICES ASSUME NEW t \in Seq(T), Len(t) = 0
                 PROVE  HasBytes(FlattenSeq(t), 271 * 0)
    OBVIOUS
  <2>2. t = <<>> /\ 271 * 0 = 0
    BY <2>1, SeqLen
  <2>3. QED
    <3>1. HasBytes(<<>>, 0)
      BY DEF HasBytes
    <3>2. QED
      BY <2>2, <3>1, FlattenEmpty
<1>2. ASSUME NEW k \in Nat, k \in P
      PROVE  k + 1 \in P
  <2>1. SUFFICES ASSUME NEW t \in Seq(T), Len(t) = k + 1
                 PROVE  HasBytes(FlattenSeq(t), 271 * (k + 1))
    OBVIOUS
  <2>2. t # <<>>
    BY <2>1
  <2>3. PICK u \in Seq(T), x \in T : t = Append(u, x)
    BY <2>2, SequenceEmptyOrAppend
  <2>4. Len(u) = k
    <3>1. Len(t) = Len(u) + 1 /\ Len(u) \in Nat
      BY <2>3, AppendProperties, LenProperties
    <3>2. QED
      BY <2>1, <3>1
  <2>5. PICK n, w, v \in Nat : n = 271 * k /\ w = 271 /\ v = 271 * (k + 1) /\ v = n + w
    OBVIOUS
  <2>6. HasBytes(FlattenSeq(u), n) /\ HasBytes(x, w)
    BY <1>2, <2>4, <2>5
  <2>7. Over(T, Bytes)
    BY DEF Over, HasBytes
  <2>8. FlattenSeq(t) = Cat(FlattenSeq(u), x)
    BY <2>3, <2>7, CatFlatten
  <2>9. HasBytes(FlattenSeq(t), v)
    BY <2>5, <2>6, <2>8, CatBoth
  <2>10. QED
    BY <2>5, <2>9
<1>3. Nat \subseteq P
  <2>. HIDE DEF P
  <2>1. QED
    BY <1>1, <1>2, Induction
<1>4. PICK k \in Nat : k = Len(s)
  BY SeqLen
<1>5. HasBytes(FlattenSeq(s), 271 * k)
  BY <1>3, <1>4
<1>6. QED
  BY <1>4, <1>5 DEF HasBytes

LEMMA ClientsLength ==
  ASSUME NEW a \in ResponseSet, a.code = "LIST_CLIENTS_SUCCESS"
  PROVE  Len(_get_pack_data(a)) = 271 * Len(a.clients)
<1>1. PICK rows \in Seq(ListEntries) : rows = a.clients
  BY ListTypes
<1>2. PICK T : T = {x \in Seq(Bytes) : HasBytes(x, 271)}
  OBVIOUS
<1>3. PICK f : f = Packed(a) /\ f = [i \in DOMAIN rows |-> PackedClient(rows[i])]
  BY <1>1 DEF Packed
<1>4. ASSUME NEW i \in DOMAIN rows
      PROVE  PackedClient(rows[i]) \in T
  <2>1. PICK e \in ListEntries : e = rows[i]
    BY LenProperties, ElementOfSeq
  <2>2. HasBytes(PackedClient(e), CLIENT_ID_BYTE_SIZE + USER_NAME_BYTE_SIZE)
    BY PackedClientType
  <2>3. CLIENT_ID_BYTE_SIZE + USER_NAME_BYTE_SIZE = 271
    BY Offsets
  <2>4. QED
    BY <1>2, <2>1, <2>2, <2>3 DEF HasBytes
<1>5. f \in Seq(T) /\ Len(f) = Len(rows)
  <2>1. DOMAIN f = DOMAIN rows /\ f = [i \in DOMAIN rows |-> f[i]] /\ \A i \in DOMAIN rows : f[i] \in T
    BY <1>3, <1>4
  <2>2. QED
    BY <2>1, RowsSeq
<1>6. Len(FlattenSeq(f)) = 271 * Len(f)
  BY <1>2, <1>5, FlattenLength
<1>7. QED
  BY <1>1, <1>3, <1>5, <1>6, PackedIs

LEMMA CreatedRight ==
  ASSUME NEW a \in ResponseSet, NEW d, NEW p, NEW n \in Nat, NEW m \in Nat, Formatted(a, d, p, n, m),
         NEW b, Get(b, 1, 2) = Get(d, 1, 2), Get(b, 3, 4) = Get(d, 3, 4)
  PROVE  Created(b) = Record(a, n, "partitions", <<>>, <<>>)
<1>1. PICK code \in DOMAIN ResponseCode : code = a.code
  BY CodeRange
<1>2. PICK num \in Nat : num = ResponseCode[code] /\ num <= 9000
  BY <1>1, CodeRange
<1>3. getNumFromBuffer(Get(b, 1, 2)) = num
  <2>1. FitsBytes(num, 2)
    BY SMT, <1>2 DEF FitsBytes, MaxNumber
  <2>2. Get(b, 1, 2) = pack(num, 2)
    BY <1>1, <1>2 DEF Formatted
  <2>3. QED
    BY <2>1, <2>2, NumBack
<1>4. getNumFromBuffer(Get(b, 3, 4)) = n
  <2>1. FitsBytes(n, 4)
    BY DEF FitsBytes, Formatted
  <2>2. Get(b, 3, 4) = pack(n, 4)
    BY DEF Formatted
  <2>3. QED
    BY <2>1, <2>2, NumBack
<1>5. \A name \in DOMAIN ResponseCode : ResponseCode[name] = num <=> name = code
  BY <1>2, CodesDiffer
<1>6. (CHOOSE name \in DOMAIN ResponseCode : ResponseCode[name] = num) = code
  BY <1>5
<1>7. ~ \A name \in DOMAIN ResponseCode : ResponseCode[name] # num
  BY <1>5
<1>8. ~ (ResponseCode["LIST_CLIENTS_SUCCESS"] = num /\ n % (CLIENT_ID_BYTE_SIZE + USER_NAME_BYTE_SIZE) # 0)
  <2>1. SUFFICES ASSUME ResponseCode["LIST_CLIENTS_SUCCESS"] = num
                 PROVE  n % (CLIENT_ID_BYTE_SIZE + USER_NAME_BYTE_SIZE) = 0
    OBVIOUS
  <2>2. "LIST_CLIENTS_SUCCESS" \in DOMAIN ResponseCode
    BY DEF ResponseCode
  <2>3. a.code = "LIST_CLIENTS_SUCCESS"
    BY <1>1, <1>5, <2>1, <2>2
  <2>4. n = 271 * Len(a.clients) /\ Len(a.clients) \in Nat
    <3>1. a.clients \in Seq(ListEntries)
      BY <2>3, ListTypes
    <3>2. Len(_get_pack_data(a)) = 271 * Len(a.clients)
      BY <2>3, ClientsLength
    <3>3. n = Len(_get_pack_data(a))
      BY DEF Formatted, HasBytes
    <3>4. QED
      BY <3>1, <3>2, <3>3, SeqLen
  <2>5. PICK k \in Nat : n = 271 * k
    BY <2>4
  <2>6. n % 271 = 0
    BY <2>5
  <2>7. CLIENT_ID_BYTE_SIZE + USER_NAME_BYTE_SIZE = 271
    BY Offsets
  <2>8. QED
    BY <2>6, <2>7
<1>9. Created(b) = [status |-> "partitions", size |-> n, payload |-> <<>>, list |-> <<>>, code |-> code]
  BY <1>3, <1>4, <1>6, <1>7, <1>8 DEF Created
<1>10. QED
  BY <1>1, <1>9 DEF Record

LEMMA RecordParts ==
  ASSUME NEW a, NEW n, NEW status, NEW payload, NEW list, NEW rsp,
         rsp = Record(a, n, status, payload, list)
  PROVE  /\ rsp # Raised /\ rsp.code = a.code /\ rsp.size = n /\ rsp.payload = payload
         /\ rsp.list = list /\ rsp.status = status
         /\ IsBig(rsp) <=> IsBig(a)
<1>1. rsp = [status |-> status, size |-> n, payload |-> payload, list |-> list, code |-> a.code]
  BY DEF Record
<1>2. rsp.code = a.code /\ rsp.size = n /\ rsp.payload = payload /\ rsp.list = list /\ rsp.status = status
  BY <1>1
<1>3. rsp # Raised
  <2>1. "code" \in DOMAIN rsp /\ "code" \notin DOMAIN Raised
    BY <1>1 DEF Raised
  <2>2. QED
    BY <2>1
<1>4. QED
  BY <1>2, <1>3 DEF IsBig

LEMMA RecordIs ==
  ASSUME NEW a, NEW n, NEW status, NEW payload, NEW list,
         NEW x \in [status: {status}, size: {n}, payload: {payload}, list: {list}, code: {a.code}]
  PROVE  x = Record(a, n, status, payload, list)
BY DEF Record

\* b is the first partition of d.
Begins(b, d) == \A o, k \in Nat : o + k <= 1024 => Get(b, o, k) = Get(d, o, k)

\* The item of a small response
LEMMA SmallParsed ==
  ASSUME NEW a \in ResponseSet, ~ IsBig(a), NEW d, NEW p, NEW n \in Nat, NEW m \in Nat,
         Formatted(a, d, p, n, m), NEW b \in BufferSet, Begins(b, d),
         NEW rsp, rsp.code = a.code
  PROVE  SmallItem(rsp, b) = Shown(a) /\ n = ExpectedSize[a.code] /\ m = 1
<1>1. /\ HasBytes(p, n) /\ n = ExpectedSize[a.code] /\ n <= 176
      /\ a.code # "GENERAL_SERVER_ERROR" => n >= 16 /\ Get(p, 0, 16) = a.clientId
      /\ a.code = "PUBLIC_KEY_SUCCESS" => n = 16 + 160 /\ Get(p, 16, 160) = a.publicKey
      /\ a.code = "MESSAGE_SENT_SUCCESS" => n = 16 + 4 /\ Get(p, 16, 4) = pack(a.messageId, 4)
  <2>1. PICK k \in Nat :
          /\ HasBytes(p, k) /\ k = ExpectedSize[a.code] /\ k <= 176
          /\ a.code # "GENERAL_SERVER_ERROR" => k >= 16 /\ Get(p, 0, 16) = a.clientId
          /\ a.code = "PUBLIC_KEY_SUCCESS" => k = 16 + 160 /\ Get(p, 16, 160) = a.publicKey
          /\ a.code = "MESSAGE_SENT_SUCCESS" => k = 16 + 4 /\ Get(p, 16, 4) = pack(a.messageId, 4)
    BY SmallData DEF Formatted
  <2>2. k = n
    BY <2>1 DEF Formatted, HasBytes
  <2>3. QED
    BY <2>1, <2>2
<1>2. m = 1
  BY <1>1 DEF Formatted
<1>3. ASSUME NEW o \in Nat, NEW k \in Nat, o + k <= n
      PROVE  Get(b, 7 + o, k) = Get(p, o, k)
  <2>1. 7 + o \in Nat /\ (7 + o) + k <= 1024
    BY <1>1, <1>3
  <2>2. Get(b, 7 + o, k) = Get(d, 7 + o, k)
    BY <2>1 DEF Begins
  <2>3. QED
    BY <1>3, <2>2 DEF Formatted
<1>4. RESPONSE_PAYLOAD_OFFSET = 7 + 0 /\ RESPONSE_PAYLOAD_OFFSET + CLIENT_ID_BYTE_SIZE = 7 + 16
  BY Offsets DEF RESPONSE_PAYLOAD_OFFSET
<1>5. a.code # "GENERAL_SERVER_ERROR" =>
        getClientIdFromBuffer(Get(b, RESPONSE_PAYLOAD_OFFSET, CLIENT_ID_BYTE_SIZE)) = IdString(a.clientId)
  <2>1. SUFFICES ASSUME a.code # "GENERAL_SERVER_ERROR"
                 PROVE  getClientIdFromBuffer(Get(b, RESPONSE_PAYLOAD_OFFSET, CLIENT_ID_BYTE_SIZE))
                          = IdString(a.clientId)
    OBVIOUS
  <2>2. a.clientId \in IdBytes
    BY <2>1, AnswerKinds DEF IsBig
  <2>3. 0 + 16 <= n
    BY <1>1, <2>1
  <2>4. Get(b, 7 + 0, 16) = Get(p, 0, 16)
    BY <1>3, <2>3
  <2>5. Get(b, RESPONSE_PAYLOAD_OFFSET, CLIENT_ID_BYTE_SIZE) = a.clientId
    BY <1>1, <1>4, <2>1, <2>4, Offsets
  <2>6. /\ a.clientId \in Seq(Bytes) /\ Len(a.clientId) = CLIENT_ID_BYTE_SIZE
        /\ Get(a.clientId, 0, CLIENT_ID_BYTE_SIZE) = a.clientId
    BY <2>2, IdSeq, GetAll
  <2>7. CLIENT_ID_BYTE_SIZE <= Len(a.clientId)
    BY <2>6, Offsets
  <2>8. QED
    BY <2>5, <2>6, <2>7, IdText
<1>6. CASE a.code = "REGISTER_SUCCESS"
  BY <1>1, <1>2, <1>5, <1>6 DEF SmallItem, Shown
<1>7. CASE a.code = "PUBLIC_KEY_SUCCESS"
  <2>1. 16 + 160 <= n
    BY <1>1, <1>7
  <2>2. Get(b, 7 + 16, 160) = Get(p, 16, 160)
    BY <1>3, <2>1
  <2>3. Get(b, RESPONSE_PAYLOAD_OFFSET + CLIENT_ID_BYTE_SIZE, PUBLIC_KEY_BYTE_SIZE) = a.publicKey
    BY <1>1, <1>4, <1>7, <2>2, Offsets
  <2>4. QED
    BY <1>1, <1>2, <1>5, <1>7, <2>3 DEF SmallItem, Shown
<1>8. CASE a.code = "MESSAGE_SENT_SUCCESS"
  <2>1. 16 + 4 <= n
    BY <1>1, <1>8
  <2>2. Get(b, 7 + 16, 4) = Get(p, 16, 4)
    BY <1>3, <2>1
  <2>3. Get(b, RESPONSE_PAYLOAD_OFFSET + CLIENT_ID_BYTE_SIZE, MESSAGE_ID_BYTE_SIZE) = pack(a.messageId, 4)
    BY <1>1, <1>4, <1>8, <2>2 DEF MESSAGE_ID_BYTE_SIZE
  <2>4. a.messageId \in 0 .. MaxNumber
    BY <1>8, AnswerKinds, CodecAssumption
  <2>5. a.messageId \in Nat /\ FitsBytes(a.messageId, 4)
    BY <2>4 DEF FitsBytes
  <2>6. getNumFromBuffer(pack(a.messageId, 4)) = a.messageId
    BY <2>5, NumBack
  <2>7. QED
    BY <1>1, <1>2, <1>5, <1>8, <2>3, <2>6 DEF SmallItem, Shown
<1>9. CASE a.code = "GENERAL_SERVER_ERROR"
  BY <1>1, <1>2, <1>9 DEF SmallItem, Shown
<1>10. QED
  BY <1>6, <1>7, <1>8, <1>9, AnswerKinds DEF IsBig

\* After the first partition was read: some are left, or the entries from the k-th on
\* are left, or nothing is.
Reading(a, n, p, c, rsp) == rsp = Record(a, n, "partitions", Get(p, 0, c), <<>>)

Partly(a, p, n, m, d, D, rsp) ==
  \E j \in Nat \ {0}, c \in Nat :
    /\ j < m /\ c = 1024 * j - 7 /\ c < n
    /\ d = Rest(D, m, j)
    /\ Reading(a, n, p, c, rsp)

Remaining(a, k) == FlattenSeq(Left(Packed(a), k))

Kept(a, n, k, rsp) ==
  /\ k < Len(Packed(a)) /\ Len(Remaining(a, k)) <= MaxNumber
  /\ rsp = Record(a, n, "list", Remaining(a, k), Get(Shown(a), 0, k))

Listed(a, n, rsp) == \E k \in Nat : Kept(a, n, k, rsp)

Done(a, n, rsp) == rsp = Record(a, n, "done", <<>>, Shown(a))

After(a, p, n, m, d, D, rsp) ==
  \/ IsBig(a) /\ Partly(a, p, n, m, d, D, rsp)
  \/ d = <<>> /\ IsBig(a) /\ Listed(a, n, rsp)
  \/ d = <<>> /\ Done(a, n, rsp)

\* What is copied to the payload: the part after the c bytes that are there
LEMMA Copied ==
  ASSUME NEW n \in Nat, NEW c \in Nat, c <= n, NEW o \in Nat, o <= 1024,
         NEW p, HasBytes(p, n), NEW q, q = Get(p, 0, c),
         NEW b, NEW w, w = AtMost(n - c, 1024 - o), Get(b, o, w) = Get(p, c, w),
         NEW x, x = Cat(q, Get(b, o, w))
  PROVE  /\ w \in Nat /\ c + w \in Nat /\ c + w <= n /\ o + w <= 1024
         /\ c + w < n => o + w = 1024
         /\ HasBytes(x, c + w) /\ x = Get(p, 0, c + w)
<1>1. w \in Nat /\ c + w \in Nat /\ c + w <= n /\ o + w <= 1024 /\ (c + w < n => o + w = 1024)
  BY DEF AtMost
<1>2. PICK z, t \in Nat : z = 0 /\ t = c + w /\ z + c = c /\ z + t = t
  <2>1. PICK z \in Nat : z = 0
    OBVIOUS
  <2>2. PICK t \in Nat : t = c + w
    BY <1>1
  <2>3. z + c = c /\ z + t = t
    BY <2>1, <2>2
  <2>4. QED
    BY <2>1, <2>2, <2>3
<1>3. p \in Seq(Bytes) /\ Len(p) = n
  BY DEF HasBytes
<1>4. Fits(p, z + c, w) /\ Fits(p, z, t)
  BY <1>1, <1>2, <1>3 DEF Fits
<1>5. Cat(Get(p, z, c), Get(p, z + c, w)) = Get(p, z, c + w)
  BY <1>1, <1>3, <1>4, GetNext
<1>6. x = Get(p, z, t)
  BY <1>2, <1>5
<1>7. HasBytes(Get(p, z, t), t)
  BY <1>3, <1>4, GetType DEF HasBytes, IsPart
<1>8. HasBytes(x, c + w) /\ x = Get(p, 0, c + w)
  BY <1>2, <1>6, <1>7
<1>9. QED
  BY <1>1, <1>8

\* An empty list, and a list of which no entry is parsed
LEMMA ListStarts ==
  ASSUME NEW a \in ResponseSet, IsBig(a), NEW p, NEW n \in Nat, p = _get_pack_data(a),
         HasBytes(p, n), n <= MaxNumber
  PROVE  /\ n = 0 => p = <<>> /\ Shown(a) = <<>>
         /\ n # 0 => /\ 0 < Len(Packed(a)) /\ Len(Remaining(a, 0)) <= MaxNumber
                     /\ p = Remaining(a, 0) /\ Get(Shown(a), 0, 0) = <<>>
<1>1. PICK s \in Seq(NonEmpty) : s = Packed(a) /\ p = FlattenSeq(s)
  BY PackedRows
<1>2. PICK S : Shown(a) \in Seq(S)
  BY PackedRows
<1>3. Len(Shown(a)) = Len(s)
  BY <1>1, PackedRows
<1>4. PICK k \in Nat : k = Len(s)
  BY SeqLen
<1>5. n = 0 <=> p = <<>>
  BY SeqLen, EmptySeq DEF HasBytes
<1>6. p = <<>> <=> s = <<>>
  BY <1>1, FlattenNone
<1>7. s = <<>> <=> k = 0
  BY <1>4, SeqLen, EmptySeq
<1>8. ASSUME n = 0
      PROVE  p = <<>> /\ Shown(a) = <<>>
  <2>1. Len(Shown(a)) = 0
    BY <1>3, <1>4, <1>5, <1>6, <1>7, <1>8
  <2>2. QED
    BY <1>2, <1>5, <1>8, <2>1, EmptySeq
<1>9. ASSUME n # 0
      PROVE  0 < Len(Packed(a)) /\ Len(Remaining(a, 0)) <= MaxNumber /\ p = Remaining(a, 0)
  <2>1. 0 < k
    BY <1>5, <1>6, <1>7, <1>9
  <2>2. k - 0 = k
    OBVIOUS
  <2>3. Left(s, 0) = Get(s, 0, k)
    BY <1>4, <2>2 DEF Left
  <2>4. Get(s, 0, k) = s
    BY <1>4, GetAll
  <2>5. p = Remaining(a, 0)
    BY <1>1, <2>3, <2>4 DEF Remaining
  <2>6. QED
    BY <1>1, <1>4, <2>1, <2>5 DEF HasBytes
<1>10. QED
  BY <1>8, <1>9, GetNone

\* c bytes of n are read with j partitions of m, and the next b is read from o.
Stands(n, m, j, c, o) ==
  j < m /\ c <= n /\ o <= 1024 /\ o = bufferStartIndex(c, 7) /\ 1024 * j + o = 7 + c

LEMMA BigPayloadIs ==
  ASSUME NEW a, NEW n, NEW s, NEW q, NEW l, NEW rsp, rsp = Record(a, n, s, q, l), NEW b,
         NEW start, start = bufferStartIndex(Len(q), RESPONSE_PAYLOAD_OFFSET),
         NEW x, x = Cat(q, Get(b, start, numOfBytesToCopy(rsp))),
         NEW status, status = CASE n = 0 -> "done"
                                [] n # 0 /\ Len(x) = n -> "list"
                                [] OTHER -> "partitions"
  PROVE  BigPayload(rsp, b) = Record(a, n, status, x, l)
<1>1. rsp.payload = q /\ rsp.size = n
  BY RecordParts
<1>2. BigPayload(rsp, b) = [rsp EXCEPT !.payload = x, !.status = status]
  BY <1>1 DEF BigPayload, Cat
<1>3. [rsp EXCEPT !.payload = x, !.status = status]
        \in [status: {status}, size: {n}, payload: {x}, list: {l}, code: {a.code}]
  BY DEF Record
<1>4. QED
  BY <1>2, <1>3, RecordIs

LEMMA NothingLeft ==
  ASSUME NEW m \in Nat, NEW j \in Nat, m = j + 1, NEW D,
         NEW i \in Nat, i = j + 1, NEW d, d = Rest(D, m, i)
  PROVE  d = <<>>
<1>1. PICK r \in Nat : r = 1024 * i /\ r + 1 > r + 0
  OBVIOUS
<1>2. 1024 * (m - i) = 0
  OBVIOUS
<1>3. Get(D, r, 0) = SubSeq(D, r + 1, r + 0)
  BY DEF Get
<1>4. SubSeq(D, r + 1, r + 0) = <<>>
  BY <1>1
<1>5. QED
  BY <1>1, <1>2, <1>3, <1>4 DEF Rest

\* One more partition of a list
LEMMA BigRead ==
  ASSUME NEW a \in ResponseSet, IsBig(a), NEW D, NEW p, NEW n \in Nat, NEW m \in Nat,
         Formatted(a, D, p, n, m), NEW j \in Nat, NEW c \in Nat,
         NEW o \in Nat, Stands(n, m, j, c, o), NEW b, IsPartition(b, D, j),
         NEW rsp, Reading(a, n, p, c, rsp),
         NEW i \in Nat, i = j + 1, NEW d, d = Rest(D, m, i)
  PROVE  After(a, p, n, m, d, D, parsePayload(rsp, b))
<1>1. /\ p = _get_pack_data(a) /\ HasBytes(p, n) /\ n <= MaxNumber
      /\ 7 + n <= 1024 * m /\ 1024 * m < 7 + n + 1024
      /\ j < m /\ c <= n /\ o <= 1024 /\ 1024 * j + o = 7 + c
  BY DEF Formatted, Stands
<1>2. PICK q : q = Get(p, 0, c) /\ HasBytes(q, c)
  <2>1. PICK z \in Nat : z = 0 /\ z + c = c
    OBVIOUS
  <2>2. p \in Seq(Bytes) /\ Len(p) = n
    BY <1>1 DEF HasBytes
  <2>3. Fits(p, z, c)
    BY <1>1, <2>1, <2>2 DEF Fits
  <2>4. HasBytes(Get(p, z, c), c)
    BY <2>2, <2>3, GetType DEF HasBytes, IsPart
  <2>5. QED
    BY <2>1, <2>4
<1>3. /\ rsp # Raised /\ IsBig(rsp) /\ rsp.code = a.code /\ rsp.size = n /\ rsp.payload = q
      /\ rsp.list = <<>> /\ rsp = Record(a, n, "partitions", q, <<>>)
  <2>1. PICK s, l : s = "partitions" /\ l = <<>> /\ rsp = Record(a, n, s, q, l)
    BY <1>2 DEF Reading
  <2>2. rsp # Raised /\ rsp.code = a.code /\ rsp.size = n /\ rsp.payload = q /\ rsp.list = l /\ IsBig(rsp)
    BY <2>1, RecordParts
  <2>3. QED
    BY <2>1, <2>2
<1>4. PICK w \in Nat : /\ w = AtMost(n - c, 1024 - o) /\ w = numOfBytesToCopy(rsp)
                       /\ c + w <= n /\ o + w <= 1024
  <2>1. PICK w : w = AtMost(n - c, 1024 - o)
    OBVIOUS
  <2>2. w \in Nat /\ c + w <= n /\ o + w <= 1024
    BY <1>1, <2>1 DEF AtMost
  <2>3. Len(rsp.payload) = c /\ rsp.size = n
    BY <1>2, <1>3 DEF HasBytes
  <2>4. numOfBytesToCopy(rsp) = AtMost(n - c, 1024 - o)
    <3>1. o = bufferStartIndex(c, RESPONSE_PAYLOAD_OFFSET)
      BY DEF Stands, RESPONSE_PAYLOAD_OFFSET
    <3>2. BUFFER_PARTITION_SIZE = 1024
      BY Offsets
    <3>3. QED
      BY <2>3, <3>1, <3>2 DEF numOfBytesToCopy
  <2>5. QED
    BY <2>1, <2>2, <2>4
<1>5. Get(b, o, w) = Get(p, c, w)
  <2>1. Get(b, o, w) = Get(D, 1024 * j + o, w)
    BY <1>4 DEF IsPartition
  <2>2. Get(D, 7 + c, w) = Get(p, c, w)
    BY <1>4 DEF Formatted
  <2>3. QED
    BY <1>1, <2>1, <2>2
<1>6. PICK x : x = Cat(q, Get(b, o, w))
  OBVIOUS
<1>7. /\ c + w \in Nat /\ (c + w < n => o + w = 1024)
      /\ HasBytes(x, c + w) /\ x = Get(p, 0, c + w)
  <2>1. c <= n /\ o <= 1024 /\ HasBytes(p, n) /\ q = Get(p, 0, c)
    BY <1>1, <1>2
  <2>2. w = AtMost(n - c, 1024 - o)
    BY <1>4
  <2>3. QED
    BY <1>5, <1>6, <2>1, <2>2, Copied
<1>8. PICK status, y : /\ status = CASE n = 0 -> "done"
                                     [] n # 0 /\ Len(x) = n -> "list"
                                     [] OTHER -> "partitions"
                       /\ y = parsePayload(rsp, b) /\ y = Record(a, n, status, x, <<>>)
  <2>1. PICK start, l, s : start = o /\ l = <<>> /\ s = "partitions" /\ rsp = Record(a, n, s, q, l)
    BY <1>3
  <2>2. start = bufferStartIndex(Len(q), RESPONSE_PAYLOAD_OFFSET)
    BY <1>2, <2>1 DEF Stands, RESPONSE_PAYLOAD_OFFSET, HasBytes
  <2>3. x = Cat(q, Get(b, start, numOfBytesToCopy(rsp)))
    BY <1>4, <1>6, <2>1
  <2>4. PICK status : status = CASE n = 0 -> "done"
                                 [] n # 0 /\ Len(x) = n -> "list"
                                 [] OTHER -> "partitions"
    OBVIOUS
  <2>5. BigPayload(rsp, b) = Record(a, n, status, x, l)
    BY <2>1, <2>2, <2>3, <2>4, BigPayloadIs
  <2>6. BigPayload(rsp, b) = Record(a, n, status, x, <<>>)
    BY <2>1, <2>5
  <2>7. parsePayload(rsp, b) = BigPayload(rsp, b)
    BY <1>3 DEF parsePayload
  <2>8. QED
    BY <2>4, <2>6, <2>7
<1>9. CASE c + w = n
  <2>1. d = <<>>
    <3>1. 7 + n <= 1024 * m /\ 1024 * m < 7 + n + 1024 /\ j < m /\ 1024 * j + o = 7 + c
      BY <1>1
    <3>2. o + w <= 1024 /\ c + w = n
      BY <1>4, <1>9
    <3>3. m = j + 1
      BY <3>1, <3>2
    <3>4. QED
      BY <3>3, NothingLeft
  <2>2. x = p /\ Len(x) = n
    <3>1. x = Get(p, 0, n)
      BY <1>7, <1>9
    <3>2. p \in Seq(Bytes) /\ Len(p) = n
      BY <1>1 DEF HasBytes
    <3>3. QED
      BY <3>1, <3>2, GetAll
  <2>3. CASE n = 0
    <3>1. y = Record(a, n, "done", p, <<>>)
      BY <1>8, <2>2, <2>3
    <3>2. p = <<>> /\ Shown(a) = <<>>
      BY <1>1, <2>3, ListStarts
    <3>3. QED
      BY <1>8, <2>1, <3>1, <3>2 DEF After, Done
  <2>4. CASE n # 0
    <3>1. y = Record(a, n, "list", p, <<>>)
      BY <1>8, <2>2, <2>4
    <3>2. /\ 0 < Len(Packed(a)) /\ Len(Remaining(a, 0)) <= MaxNumber
          /\ p = Remaining(a, 0) /\ Get(Shown(a), 0, 0) = <<>>
      BY <1>1, <2>4, ListStarts
    <3>3. Listed(a, n, y)
      BY <3>1, <3>2 DEF Listed, Kept
    <3>4. QED
      BY <1>8, <2>1, <3>3 DEF After
  <2>5. QED
    BY <2>3, <2>4
<1>10. CASE c + w # n
  <2>1. PICK e \in Nat : i # 0 /\ e = c + w /\ e < n /\ e = 1024 * i - 7 /\ i < m
    <3>1. c + w < n /\ o + w = 1024
      <4>1. c + w <= n
        BY <1>4
      <4>2. c + w < n
        BY <1>10, <4>1
      <4>3. QED
        BY <1>7, <4>2
    <3>2. c + w = 1024 * (j + 1) - 7 /\ j + 1 < m
      <4>1. 7 + n <= 1024 * m /\ 1024 * j + o = 7 + c
        BY <1>1
      <4>2. QED
        BY <3>1, <4>1
    <3>3. QED
      BY <1>7, <3>1, <3>2
  <2>2. y = Record(a, n, "partitions", x, <<>>)
    <3>1. n # 0 /\ Len(x) # n
      BY <1>7, <1>10, <2>1 DEF HasBytes
    <3>2. QED
      BY <1>8, <3>1
  <2>3. x = Get(p, 0, e)
    BY <1>7, <2>1
  <2>4. Partly(a, p, n, m, d, D, y)
    <3>1. Reading(a, n, p, e, y)
      BY <2>2, <2>3 DEF Reading
    <3>2. i \in Nat \ {0} /\ i < m /\ e = 1024 * i - 7 /\ e < n
      BY <2>1
    <3>3. QED
      BY <3>1, <3>2 DEF Partly
  <2>5. QED
    BY <1>8, <2>4 DEF After
<1>11. QED
  BY <1>9, <1>10

LEMMA SmallIs ==
  ASSUME NEW a, NEW n, NEW s, NEW q, NEW l, NEW rsp, rsp = Record(a, n, s, q, l), NEW b,
         ~ IsBig(a), n = ExpectedSize[a.code]
  PROVE  parsePayload(rsp, b) = Record(a, n, "done", q, SmallItem(rsp, b))
<1>1. rsp # Raised /\ rsp.size = n /\ rsp.code = a.code /\ ~ IsBig(rsp)
  BY RecordParts
<1>2. PICK i : i = SmallItem(rsp, b)
  OBVIOUS
<1>3. parsePayload(rsp, b) = [rsp EXCEPT !.status = "done", !.list = i]
  BY <1>1, <1>2 DEF parsePayload
<1>4. [rsp EXCEPT !.status = "done", !.list = i]
        \in [status: {"done"}, size: {n}, payload: {q}, list: {i}, code: {a.code}]
  BY DEF Record
<1>5. QED
  BY <1>2, <1>3, <1>4, RecordIs

LEMMA FirstRead ==
  ASSUME NEW a \in ResponseSet, NEW D, NEW p, NEW n \in Nat, NEW m \in Nat,
         Formatted(a, D, p, n, m), NEW b, NEW d, Splits(D, b, d)
  PROVE  After(a, p, n, m, d, D, parsePayload(Created(b), b))
<1>1. HasBytes(D, 1024 * m) /\ m > 0
  BY DEF Formatted
<1>2. PICK z \in Nat, z1 \in Nat : z = 0 /\ z < m /\ 1024 * z = 0 /\ m - z = m /\ z1 = z + 1
  BY <1>1
<1>3. D = Rest(D, m, z)
  <2>1. D \in Seq(Bytes) /\ Len(D) = 1024 * m
    BY <1>1 DEF HasBytes
  <2>2. Get(D, 0, Len(D)) = D
    BY <2>1, GetAll
  <2>3. QED
    BY <1>2, <2>1, <2>2 DEF Rest
<1>4. b \in BufferSet /\ IsPartition(b, D, z) /\ d = Rest(D, m, z1)
  BY <1>1, <1>2, <1>3, NextPartition
<1>5. ASSUME NEW o \in Nat, NEW k \in Nat, o + k <= 1024
      PROVE  Get(b, o, k) = Get(D, o, k)
  <2>1. Get(b, o, k) = Get(D, 1024 * z + o, k)
    BY <1>4, <1>5 DEF IsPartition
  <2>2. 1024 * z + o = o
    BY <1>2
  <2>3. QED
    BY <2>1, <2>2
<1>6. PICK rsp, s, l : rsp = Created(b) /\ s = "partitions" /\ l = <<>> /\ rsp = Record(a, n, s, l, l)
  <2>1. Get(b, 1, 2) = Get(D, 1, 2) /\ Get(b, 3, 4) = Get(D, 3, 4)
    BY <1>5
  <2>2. Created(b) = Record(a, n, "partitions", <<>>, <<>>)
    BY <2>1, CreatedRight
  <2>3. QED
    BY <2>2
<1>7. CASE IsBig(a)
  <2>1. PICK o \in Nat : o = 7
    OBVIOUS
  <2>2. Stands(n, m, z, z, o)
    BY <1>2, <2>1 DEF Stands, bufferStartIndex
  <2>3. Reading(a, n, p, z, rsp)
    BY <1>2, <1>6, GetNone DEF Reading
  <2>4. After(a, p, n, m, d, D, parsePayload(rsp, b))
    <3>1. z1 = z + 1 /\ d = Rest(D, m, z1) /\ IsPartition(b, D, z)
      BY <1>2, <1>4
    <3>2. QED
      BY <1>7, <2>2, <2>3, <3>1, BigRead
  <2>5. QED
    BY <1>6, <2>4
<1>8. CASE ~ IsBig(a)
  <2>1. rsp.code = a.code
    BY <1>6, RecordParts
  <2>2. SmallItem(rsp, b) = Shown(a) /\ n = ExpectedSize[a.code] /\ m = 1
    <3>1. Begins(b, D) /\ b \in BufferSet
      BY <1>4, <1>5 DEF Begins
    <3>2. QED
      BY <1>8, <2>1, <3>1, SmallParsed
  <2>3. parsePayload(rsp, b) = Record(a, n, "done", l, SmallItem(rsp, b))
    <3>1. rsp = Record(a, n, s, l, l) /\ n = ExpectedSize[a.code]
      BY <1>6, <2>2
    <3>2. QED
      BY <1>8, <3>1, SmallIs
  <2>4. Done(a, n, parsePayload(rsp, b))
    BY <1>6, <2>2, <2>3 DEF Done
  <2>5. d = <<>>
    <3>1. m = z + 1 /\ z1 = z + 1 /\ d = Rest(D, m, z1)
      BY <1>2, <1>4, <2>2
    <3>2. QED
      BY <3>1, NothingLeft
  <2>6. QED
    BY <1>6, <2>4, <2>5 DEF After
<1>9. QED
  BY <1>7, <1>8

LEMMA MoreRead ==
  ASSUME NEW a \in ResponseSet, IsBig(a), NEW D, NEW p, NEW n \in Nat, NEW m \in Nat,
         Formatted(a, D, p, n, m), NEW e, NEW rsp, Partly(a, p, n, m, e, D, rsp),
         NEW b, NEW d, Splits(e, b, d)
  PROVE  After(a, p, n, m, d, D, parsePayload(rsp, b))
<1>1. PICK j \in Nat \ {0}, c \in Nat :
        /\ j < m /\ c = 1024 * j - 7 /\ c < n
        /\ e = Rest(D, m, j)
        /\ Reading(a, n, p, c, rsp)
  BY DEF Partly
<1>2. HasBytes(D, 1024 * m)
  BY DEF Formatted
<1>3. PICK i \in Nat : i = j + 1
  <2>1. j + 1 \in Nat
    BY <1>1
  <2>2. QED
    BY <2>1
<1>7. IsPartition(b, D, j) /\ d = Rest(D, m, i)
  <2>1. j \in Nat /\ j < m /\ e = Rest(D, m, j)
    BY <1>1
  <2>2. QED
    BY <1>2, <1>3, <2>1, NextPartition
<1>4. PICK z \in Nat : z = 0
  OBVIOUS
<1>5. Stands(n, m, j, c, z)
  BY <1>1, <1>4 DEF Stands, bufferStartIndex
<1>6. Reading(a, n, p, c, rsp) /\ j \in Nat
  BY <1>1
<1>8. QED
  BY <1>3, <1>5, <1>6, <1>7, BigRead

\* What comes after n elements, and the status with that left
Behind(q, n) == SubSeq(q, n + 1, Len(q))
Longer(list, item) == Append(list, item)
StatusWith(rest) == IF rest = <<>> THEN "done" ELSE "list"

\* One turn of a parseDataList
Turned(rsp, item, n) ==
  LET rest == SubSeq(rsp.payload, n + 1, Len(rsp.payload))
  IN  [rsp EXCEPT !.list = Append(@, item), !.payload = rest,
                  !.status = IF rest = <<>> THEN "done" ELSE "list"]

LEMMA TurnedIs ==
  ASSUME NEW a, NEW n, NEW s, NEW q, NEW l, NEW rsp, rsp = Record(a, n, s, q, l),
         NEW item, NEW size, NEW rest, rest = Behind(q, size),
         NEW list, list = Longer(l, item), NEW status, status = StatusWith(rest)
  PROVE  Turned(rsp, item, size) = Record(a, n, status, rest, list)
<1>1. rsp.payload = q /\ rsp.list = l
  BY RecordParts
<1>2. Turned(rsp, item, size) = [rsp EXCEPT !.list = list, !.payload = rest, !.status = status]
  BY <1>1 DEF Turned, Behind, Longer, StatusWith
<1>3. [rsp EXCEPT !.list = list, !.payload = rest, !.status = status]
        \in [status: {status}, size: {n}, payload: {rest}, list: {list}, code: {a.code}]
  BY DEF Record
<1>4. QED
  BY <1>2, <1>3, RecordIs

\* What comes after the first entry of what remains
LEMMA AfterFirst ==
  ASSUME NEW x \in Seq(Bytes), NEW y \in Seq(Bytes), NEW p, p = Cat(x, y)
  PROVE  /\ SubSeq(p, Len(x) + 1, Len(p)) = y
         /\ Len(x) <= Len(p) /\ Len(y) <= Len(p)
         /\ Len(x) \in Nat /\ Len(y) \in Nat /\ Len(p) \in Nat
<1>1. PICK m \in Nat, n \in Nat : m = Len(x) /\ n = Len(y)
  BY SeqLen
<1>2. HasBytes(x, m) /\ HasBytes(y, n)
  BY <1>1 DEF HasBytes
<1>3. PICK l \in Nat : l = m + n
  OBVIOUS
<1>4. HasBytes(p, l) /\ Get(p, m, n) = y
  BY <1>2, <1>3, CatBoth
<1>5. Len(p) = l
  BY <1>4 DEF HasBytes
<1>6. Get(p, m, n) = SubSeq(p, m + 1, m + n)
  BY DEF Get
<1>7. SubSeq(p, Len(x) + 1, Len(p)) = y
  BY <1>1, <1>3, <1>4, <1>5, <1>6
<1>8. QED
  BY <1>1, <1>3, <1>5, <1>7

LEMMA KeptParts ==
  ASSUME NEW a \in ResponseSet, IsBig(a), NEW n, NEW k \in Nat, NEW i \in Nat, i = k + 1,
         NEW rsp, Kept(a, n, k, rsp)
  PROVE  /\ rsp.payload = Cat(Packed(a)[i], Remaining(a, i)) /\ rsp.code = a.code
         /\ Packed(a)[i] \in Seq(Bytes) /\ Remaining(a, i) \in Seq(Bytes)
         /\ Len(Packed(a)[i]) <= MaxNumber /\ Len(Remaining(a, i)) <= MaxNumber
         /\ i \in 1 .. Len(Packed(a))
<1>1. PICK s \in Seq(NonEmpty) : s = Packed(a)
  BY PackedRows
<1>2. k < Len(s) /\ Len(Remaining(a, k)) <= MaxNumber
  BY <1>1 DEF Kept
<1>3. rsp.payload = Remaining(a, k) /\ rsp.code = a.code
  <2>1. PICK q, l, st : q = Remaining(a, k) /\ l = Get(Shown(a), 0, k) /\ st = "list"
    OBVIOUS
  <2>2. rsp = Record(a, n, st, q, l)
    BY <2>1 DEF Kept
  <2>3. QED
    BY <2>1, <2>2, RecordParts
<1>4. /\ s[i] \in NonEmpty /\ Remaining(a, i) \in Seq(Bytes)
      /\ Remaining(a, k) = Cat(s[i], Remaining(a, i))
  <2>1. /\ s[k + 1] \in NonEmpty
        /\ FlattenSeq(Left(s, k)) \in Seq(Bytes) /\ FlattenSeq(Left(s, k + 1)) \in Seq(Bytes)
        /\ FlattenSeq(Left(s, k)) = Cat(s[k + 1], FlattenSeq(Left(s, k + 1)))
    BY <1>2, FlattenLeft
  <2>2. QED
    BY <1>1, <2>1 DEF Remaining
<1>5. s[i] \in Seq(Bytes)
  BY <1>4 DEF NonEmpty
<1>6. PICK p, x, y, max : p = Remaining(a, k) /\ x = s[i] /\ y = Remaining(a, i) /\ max = MaxNumber
  OBVIOUS
<1>7. /\ Len(x) <= Len(p) /\ Len(y) <= Len(p)
      /\ Len(x) \in Nat /\ Len(y) \in Nat /\ Len(p) \in Nat
  BY <1>4, <1>5, <1>6, AfterFirst
<1>8. max \in Nat
  BY <1>6 DEF MaxNumber
<1>9. Len(x) <= max /\ Len(y) <= max
  BY <1>2, <1>6, <1>7, <1>8
<1>10. i \in 1 .. Len(s)
  BY <1>2, SeqLen
<1>11. QED
  BY <1>1, <1>3, <1>4, <1>5, <1>6, <1>9, <1>10

\* The entry i of a list, and its size in the payload
EntryIs(a, i, item, size) == item = Shown(a)[i] /\ size = Len(Packed(a)[i])

LEMMA KeptTurn ==
  ASSUME NEW a \in ResponseSet, IsBig(a), NEW n, NEW k \in Nat, NEW i \in Nat, i = k + 1,
         NEW rsp, Kept(a, n, k, rsp), NEW item, NEW size, EntryIs(a, i, item, size)
  PROVE  Listed(a, n, Turned(rsp, item, size)) \/ Done(a, n, Turned(rsp, item, size))
<1>0. PICK S : Shown(a) \in Seq(S)
  BY PackedRows
<1>1. PICK s \in Seq(NonEmpty), t \in Seq(S) : s = Packed(a) /\ t = Shown(a) /\ Len(t) = Len(s)
  BY <1>0, PackedRows
<1>2. PICK x, y, p :
        /\ x \in Seq(Bytes) /\ y \in Seq(Bytes)
        /\ x = s[i] /\ y = Remaining(a, i) /\ p = Remaining(a, k) /\ p = Cat(x, y)
        /\ Len(y) <= MaxNumber
  <2>1. rsp.payload = Remaining(a, k)
    <3>1. PICK q, l, st : q = Remaining(a, k) /\ l = Get(Shown(a), 0, k) /\ st = "list"
      OBVIOUS
    <3>2. rsp = Record(a, n, st, q, l)
      BY <3>1 DEF Kept
    <3>3. QED
      BY <3>1, <3>2, RecordParts
  <2>2. /\ rsp.payload = Cat(Packed(a)[i], Remaining(a, i))
        /\ Packed(a)[i] \in Seq(Bytes) /\ Remaining(a, i) \in Seq(Bytes)
        /\ Len(Remaining(a, i)) <= MaxNumber
    BY KeptParts
  <2>3. QED
    BY <1>1, <2>1, <2>2
<1>3. k < Len(s)
  BY <1>1 DEF Kept
<1>4. y = Behind(p, size)
  <2>1. x \in Seq(Bytes) /\ y \in Seq(Bytes) /\ p = Cat(x, y)
    BY <1>2
  <2>2. SubSeq(p, Len(x) + 1, Len(p)) = y
    BY <2>1, AfterFirst
  <2>3. size = Len(x)
    BY <1>1, <1>2 DEF EntryIs
  <2>4. QED
    BY <2>2, <2>3 DEF Behind
<1>5. PICK l : l = Get(t, 0, k) /\ Append(l, item) = Get(t, 0, i)
  BY <1>1, <1>3, FirstMore DEF EntryIs
<1>6. y = <<>> <=> i = Len(s)
  <2>1. Left(s, i) \in Seq(NonEmpty) /\ (Left(s, i) = <<>> <=> i = Len(s))
    BY <1>3, LeftFirst
  <2>2. y = FlattenSeq(Left(s, i))
    BY <1>1, <1>2 DEF Remaining
  <2>3. QED
    BY <2>1, <2>2, FlattenNone
<1>7. PICK status : status = StatusWith(y)
  OBVIOUS
<1>8. PICK list : list = Append(l, item) /\ list = Get(t, 0, i)
  BY <1>5
<1>9. Turned(rsp, item, size) = Record(a, n, status, y, list)
  <2>1. PICK st : st = "list" /\ rsp = Record(a, n, st, p, l)
    BY <1>1, <1>2, <1>5 DEF Kept
  <2>2. list = Longer(l, item) /\ y = Behind(p, size)
    BY <1>4, <1>8 DEF Longer
  <2>3. rsp = Record(a, n, st, p, l)
    BY <2>1
  <2>4. QED
    BY <1>7, <2>2, <2>3, TurnedIs
<1>10. CASE i = Len(s)
  <2>1. list = t
    BY <1>1, <1>8, <1>10, GetAll
  <2>2. y = <<>> /\ status = "done"
    BY <1>6, <1>7, <1>10 DEF StatusWith
  <2>3. QED
    BY <1>1, <1>9, <2>1, <2>2 DEF Done
<1>11. CASE i # Len(s)
  <2>1. i < Len(Packed(a))
    BY <1>1, <1>3, <1>11, SeqLen
  <2>2. status = "list"
    BY <1>6, <1>7, <1>11 DEF StatusWith
  <2>3. Turned(rsp, item, size) = Record(a, n, "list", Remaining(a, i), Get(Shown(a), 0, i))
    BY <1>1, <1>2, <1>8, <1>9, <2>2
  <2>4. Len(Remaining(a, i)) <= MaxNumber
    BY <1>2
  <2>5. Listed(a, n, Turned(rsp, item, size))
    BY <2>1, <2>3, <2>4 DEF Listed, Kept
  <2>6. QED
    BY <2>5
<1>12. QED
  BY <1>10, <1>11

\* What a turn reads is the next entry.
ClientItem(p) ==
  [clientId |-> getClientIdFromBuffer(p),
   clientName |-> CString(Get(p, CLIENT_ID_BYTE_SIZE, USER_NAME_BYTE_SIZE))]
MailItem(p) ==
  [clientId |-> getClientIdFromBuffer(p), messageId |-> getNumFromBuffer(Get(p, 16, 4)),
   messageType |-> getNumFromBuffer(Get(p, 20, 1)),
   content |-> Get(p, 25, getNumFromBuffer(Get(p, 21, 4)))]

LEMMA ClientEntry ==
  ASSUME NEW a \in ResponseSet, a.code = "LIST_CLIENTS_SUCCESS", NEW i \in 1 .. Len(Packed(a)),
         NEW rest \in Seq(Bytes), NEW p, p = Cat(Packed(a)[i], rest)
  PROVE  EntryIs(a, i, ClientItem(p), CLIENT_ID_BYTE_SIZE + USER_NAME_BYTE_SIZE)
<1>1. PICK rows \in Seq(ListEntries) : rows = a.clients
  BY ListTypes
<1>2. IsBig(a)
  BY DEF IsBig
<1>3. Len(Packed(a)) = Len(rows)
  <2>1. PICK f : f = Packed(a) /\ f = [j \in DOMAIN rows |-> PackedClient(rows[j])]
    BY <1>1 DEF Packed
  <2>2. PICK l \in Nat : l = Len(rows) /\ DOMAIN rows = 1 .. l
    BY SeqLen, LenProperties
  <2>3. f \in Seq(NonEmpty) /\ DOMAIN f = 1 .. l
    BY <1>2, <2>1, <2>2, PackedRows
  <2>4. DOMAIN f = 1 .. Len(f) /\ Len(f) \in Nat
    BY <2>3, LenProperties
  <2>5. Len(f) = l
    BY <2>3, <2>4
  <2>6. QED
    BY <2>1, <2>2, <2>5
<1>4. PICK e \in ListEntries : e = rows[i] /\ i \in DOMAIN rows
  BY <1>3, ElementOfSeq, LenProperties
<1>5. Packed(a)[i] = PackedClient(e)
  BY <1>1, <1>4 DEF Packed
<1>6. Shown(a)[i] = [clientId |-> IdString(e.id), clientName |-> e.userName]
  BY <1>1, <1>4 DEF Shown
<1>7. ClientItem(p) = Shown(a)[i]
  <2>1. p = Cat(PackedClient(e), rest)
    BY <1>5
  <2>2. /\ getClientIdFromBuffer(p) = IdString(e.id)
        /\ CString(Get(p, CLIENT_ID_BYTE_SIZE, USER_NAME_BYTE_SIZE)) = e.userName
    BY <2>1, ClientParsed
  <2>3. QED
    BY <1>6, <2>2 DEF ClientItem
<1>8. Len(PackedClient(e)) = CLIENT_ID_BYTE_SIZE + USER_NAME_BYTE_SIZE
  BY PackedClientType DEF HasBytes
<1>9. QED
  BY <1>5, <1>7, <1>8 DEF EntryIs

LEMMA MailEntry ==
  ASSUME NEW a \in ResponseSet, a.code = "MESSAGES_PULLED_SUCCESS", NEW i \in 1 .. Len(Packed(a)),
         NEW rest \in Seq(Bytes), NEW p, p = Cat(Packed(a)[i], rest), Len(Packed(a)[i]) <= MaxNumber
  PROVE  /\ EntryIs(a, i, MailItem(p), 25 + getNumFromBuffer(Get(p, 21, 4)))
         /\ Len(p) \in Nat /\ getNumFromBuffer(Get(p, 21, 4)) \in Nat
         /\ 25 + getNumFromBuffer(Get(p, 21, 4)) <= Len(p)
<1>1. PICK rows \in Seq(MailEntries) : rows = a.messages
  BY ListTypes
<1>2. IsBig(a)
  BY DEF IsBig
<1>3. Len(Packed(a)) = Len(rows)
  <2>1. PICK f : f = Packed(a) /\ f = [j \in DOMAIN rows |-> PackedMail(rows[j])]
    BY <1>1 DEF Packed
  <2>2. PICK l \in Nat : l = Len(rows) /\ DOMAIN rows = 1 .. l
    BY SeqLen, LenProperties
  <2>3. f \in Seq(NonEmpty) /\ DOMAIN f = 1 .. l
    BY <1>2, <2>1, <2>2, PackedRows
  <2>4. DOMAIN f = 1 .. Len(f) /\ Len(f) \in Nat
    BY <2>3, LenProperties
  <2>5. Len(f) = l
    BY <2>3, <2>4
  <2>6. QED
    BY <2>1, <2>2, <2>5
<1>4. PICK e \in MailEntries : e = rows[i] /\ i \in DOMAIN rows
  BY <1>3, ElementOfSeq, LenProperties
<1>5. Packed(a)[i] = PackedMail(e)
  BY <1>1, <1>4 DEF Packed
<1>6. Shown(a)[i] = [clientId |-> IdString(e.fromClient), messageId |-> e.id,
                     messageType |-> e.type, content |-> e.content]
  BY <1>1, <1>4 DEF Shown
<1>7. PICK l \in Nat, v \in Nat : l = Len(e.content) /\ v = Len(rest)
  BY MailTypes, SeqLen
<1>8. Len(PackedMail(e)) = 25 + l
  <2>1. Len(PackedMail(e)) = MailLength(e)
    BY PackedMailType DEF HasBytes
  <2>2. MailLength(e) = 25 + l
    BY <1>7 DEF MailLength, MessageHeaderSize, CLIENT_ID_BYTE_SIZE, MESSAGE_ID_BYTE_SIZE
  <2>3. QED
    BY <2>1, <2>2
<1>9. l <= MaxNumber
  <2>1. PICK max \in Nat : max = MaxNumber
    BY DEF MaxNumber
  <2>2. 25 + l <= max
    BY <1>5, <1>8, <2>1
  <2>3. QED
    BY <2>1, <2>2
<1>10. /\ getClientIdFromBuffer(p) = IdString(e.fromClient)
       /\ getNumFromBuffer(Get(p, 16, 4)) = e.id /\ getNumFromBuffer(Get(p, 20, 1)) = e.type
       /\ getNumFromBuffer(Get(p, 21, 4)) = l /\ Get(p, 25, l) = e.content
       /\ Len(p) = MailLength(e) + v
  <2>1. p = Cat(PackedMail(e), rest) /\ Len(e.content) <= MaxNumber
    BY <1>5, <1>7, <1>9
  <2>2. /\ getClientIdFromBuffer(p) = IdString(e.fromClient)
        /\ getNumFromBuffer(Get(p, 16, 4)) = e.id /\ getNumFromBuffer(Get(p, 20, 1)) = e.type
        /\ getNumFromBuffer(Get(p, 21, 4)) = Len(e.content)
        /\ Get(p, 25, Len(e.content)) = e.content
        /\ Len(p) = MailLength(e) + Len(rest)
    BY <2>1, MailParsed
  <2>3. QED
    BY <1>7, <2>2
<1>11. MailItem(p) = Shown(a)[i]
  BY <1>6, <1>10 DEF MailItem
<1>12. MailLength(e) = 25 + l
  BY <1>7 DEF MailLength, MessageHeaderSize, CLIENT_ID_BYTE_SIZE, MESSAGE_ID_BYTE_SIZE
<1>13. EntryIs(a, i, MailItem(p), 25 + getNumFromBuffer(Get(p, 21, 4)))
  BY <1>5, <1>8, <1>10, <1>11 DEF EntryIs
<1>14. Len(p) = 25 + l + v
  BY <1>10, <1>12
<1>15. QED
  BY <1>7, <1>10, <1>13, <1>14

-----------------------------------------------------------------------------
\* The response on its way

ResponseOf(a, d, rsp) ==
  \E n, m \in Nat : \E D, p :
    /\ Formatted(a, D, p, n, m)
    /\ IF rsp = NotCreated THEN d = D ELSE After(a, p, n, m, d, D, rsp)

ResponseInv ==
  /\ RequestInv
  /\ served = NoResponse => down = <<>> /\ response = NotCreated
  /\ served # NoResponse => ResponseOf(served, down, response)

LEMMA AfterIs ==
  ASSUME NEW a, NEW p, NEW n, NEW m, NEW d, NEW D, NEW rsp, After(a, p, n, m, d, D, rsp)
  PROVE  /\ rsp # NotCreated /\ rsp # Raised /\ rsp.code = a.code
         /\ rsp.status \in {"partitions", "list", "done"}
         /\ rsp.status = "partitions" => IsBig(a) /\ Partly(a, p, n, m, d, D, rsp)
         /\ rsp.status = "list" => d = <<>> /\ IsBig(a) /\ Listed(a, n, rsp)
         /\ rsp.status = "done" => d = <<>> /\ Done(a, n, rsp)
<1>1. CASE IsBig(a) /\ Partly(a, p, n, m, d, D, rsp)
  <2>1. PICK s, q, l : s = "partitions" /\ rsp = Record(a, n, s, q, l)
    BY <1>1 DEF Partly, Reading
  <2>2. rsp # Raised /\ rsp.code = a.code /\ rsp.status = s
    BY <2>1, RecordParts
  <2>3. rsp # NotCreated
    BY <2>1, <2>2 DEF NotCreated
  <2>4. QED
    BY <1>1, <2>1, <2>2, <2>3
<1>2. CASE d = <<>> /\ IsBig(a) /\ Listed(a, n, rsp)
  <2>1. PICK s, q, l : s = "list" /\ rsp = Record(a, n, s, q, l)
    BY <1>2 DEF Listed, Kept
  <2>2. rsp # Raised /\ rsp.code = a.code /\ rsp.status = s
    BY <2>1, RecordParts
  <2>3. rsp # NotCreated
    BY <2>1, <2>2 DEF NotCreated
  <2>4. QED
    BY <1>2, <2>1, <2>2, <2>3
<1>3. CASE d = <<>> /\ Done(a, n, rsp)
  <2>1. PICK s, q, l : s = "done" /\ rsp = Record(a, n, s, q, l)
    BY <1>3 DEF Done
  <2>2. rsp # Raised /\ rsp.code = a.code /\ rsp.status = s
    BY <2>1, RecordParts
  <2>3. rsp # NotCreated
    BY <2>1, <2>2 DEF NotCreated
  <2>4. QED
    BY <1>3, <2>1, <2>2, <2>3
<1>4. QED
  BY <1>1, <1>2, <1>3 DEF After

LEMMA ResponseInit == Init => ResponseInv
BY RequestInit DEF Init, ResponseInv

LEMMA ResponseRecv ==
  ASSUME ResponseInv, Recv, RequestInv'
  PROVE  ResponseInv'
<1>1. /\ served = NoResponse /\ down = <<>> /\ response' = NotCreated
  BY DEF ResponseInv, Recv
<1>2. PICK q : q = parsed'
  OBVIOUS
<1>3. \/ ~ IsParsed(q) /\ served' = served /\ down' = down
      \/ IsParsed(q) /\ served' \in Answers(q) \cup {ErrorResponse} /\ down' = _format_response(served')
  BY <1>2 DEF Recv
<1>4. CASE ~ IsParsed(q)
  BY <1>1, <1>3, <1>4 DEF ResponseInv
<1>5. CASE IsParsed(q)
  <2>1. PICK a : a = served' /\ a \in Answers(q) \cup {ErrorResponse} /\ down' = _format_response(a)
    BY <1>3, <1>5
  <2>2. a # NoResponse
    BY <2>1, AnswerCode
  <2>3. q # NoRequest
    BY <1>2, <2>1, <2>2 DEF RequestInv
  <2>4. PICK r, s : r \in MadeRequests /\ Has(q, r, s)
    BY <1>2, <2>3 DEF RequestInv
  <2>5. a \in ResponseSet
    BY <2>1, <2>4, AnswerType
  <2>6. \E n, m \in Nat : Formatted(a, _format_response(a), _get_pack_data(a), n, m)
    BY <2>5, FormatType
  <2>7. ResponseOf(a, down', response')
    BY <1>1, <2>1, <2>6 DEF ResponseOf
  <2>8. QED
    BY <2>1, <2>2, <2>7 DEF ResponseInv
<1>6. QED
  BY <1>4, <1>5

LEMMA ResponseRead ==
  ASSUME ResponseInv, ReadPartition, RequestInv'
  PROVE  ResponseInv'
<1>1. /\ down # <<>> /\ response.status \in {"none", "partitions"}
      /\ served' = served
  BY DEF ReadPartition
<1>2. PICK b : b = Get(down, 0, 1024)
  OBVIOUS
<1>3. /\ response' = parsePayload(IF response = NotCreated THEN Created(b) ELSE response, b)
      /\ Splits(down, b, down')
  <2>1. BUFFER_PARTITION_SIZE = 1024 /\ BUFFER_PARTITION_SIZE + 1 = 1025
    BY Offsets
  <2>2. QED
    BY <1>2, <2>1 DEF ReadPartition, Splits
<1>4. PICK a \in ResponseSet : a = served /\ a # NoResponse /\ ResponseOf(a, down, response)
  BY <1>1, ServedType DEF ResponseInv
<1>5. PICK n, m, D, p :
        /\ n \in Nat /\ m \in Nat /\ Formatted(a, D, p, n, m)
        /\ IF response = NotCreated THEN down = D ELSE After(a, p, n, m, down, D, response)
  BY <1>4 DEF ResponseOf
<1>6. After(a, p, n, m, down', D, response')
  <2>1. PICK rsp, d, e : rsp = response /\ d = down' /\ e = down
    OBVIOUS
  <2>2. CASE rsp = NotCreated
    <3>1. Splits(D, b, d) /\ response' = parsePayload(Created(b), b)
      BY <1>3, <1>5, <2>1, <2>2
    <3>2. After(a, p, n, m, d, D, parsePayload(Created(b), b))
      BY <1>5, <3>1, FirstRead
    <3>3. QED
      BY <2>1, <3>1, <3>2
  <2>3. CASE rsp # NotCreated
    <3>1. Splits(e, b, d) /\ response' = parsePayload(rsp, b) /\ After(a, p, n, m, e, D, rsp)
      BY <1>3, <1>5, <2>1, <2>3
    <3>2. rsp.status \in {"none", "partitions"} /\ e # <<>>
      BY <1>1, <2>1
    <3>3. IsBig(a) /\ Partly(a, p, n, m, e, D, rsp)
      BY <3>1, <3>2, AfterIs
    <3>4. After(a, p, n, m, d, D, parsePayload(rsp, b))
      BY <1>5, <3>1, <3>3, MoreRead
    <3>5. QED
      BY <2>1, <3>1, <3>4
  <2>4. QED
    BY <2>2, <2>3
<1>7. response' # NotCreated
  BY <1>6, AfterIs
<1>8. ResponseOf(a, down', response')
  BY <1>5, <1>6, <1>7 DEF ResponseOf
<1>9. QED
  BY <1>1, <1>4, <1>8 DEF ResponseInv

\* What both turns start from and end with
LEMMA TurnStarts ==
  ASSUME ResponseInv, response.status = "list"
  PROVE  \E a \in ResponseSet, n \in Nat, k \in Nat :
           /\ a = served /\ a # NoResponse /\ IsBig(a) /\ Kept(a, n, k, response) /\ down = <<>>
           /\ \E m \in Nat : \E D, p : Formatted(a, D, p, n, m)
<1>1. response # NotCreated
  BY DEF NotCreated
<1>2. PICK a \in ResponseSet : a = served /\ a # NoResponse /\ ResponseOf(a, down, response)
  BY <1>1, ServedType DEF ResponseInv
<1>3. PICK n, m, D, p :
        n \in Nat /\ m \in Nat /\ Formatted(a, D, p, n, m) /\ After(a, p, n, m, down, D, response)
  BY <1>1, <1>2 DEF ResponseOf
<1>4. down = <<>> /\ IsBig(a) /\ Listed(a, n, response)
  BY <1>3, AfterIs
<1>5. QED
  BY <1>2, <1>3, <1>4 DEF Listed

LEMMA TurnEnds ==
  ASSUME NEW a, NEW n \in Nat, NEW m \in Nat, NEW D, NEW p, Formatted(a, D, p, n, m),
         IsBig(a), NEW rsp, Listed(a, n, rsp) \/ Done(a, n, rsp)
  PROVE  ResponseOf(a, <<>>, rsp)
<1>1. After(a, p, n, m, <<>>, D, rsp)
  BY DEF After
<1>2. rsp # NotCreated
  BY <1>1, AfterIs
<1>3. QED
  BY <1>1, <1>2 DEF ResponseOf

LEMMA ResponseClient ==
  ASSUME ResponseInv, ParseClient, RequestInv'
  PROVE  ResponseInv'
<1>1. /\ response.status = "list" /\ response.code = "LIST_CLIENTS_SUCCESS"
      /\ served' = served /\ down' = down
  BY DEF ParseClient
<1>2. PICK rsp, size : rsp = response /\ size = CLIENT_ID_BYTE_SIZE + USER_NAME_BYTE_SIZE
  OBVIOUS
<1>3. response' = Turned(rsp, ClientItem(rsp.payload), size)
  BY <1>2 DEF ParseClient, Item, Turned, ClientItem
<1>4. PICK a \in ResponseSet, n \in Nat, k \in Nat :
        /\ a = served /\ a # NoResponse /\ IsBig(a) /\ Kept(a, n, k, rsp) /\ down = <<>>
        /\ \E m \in Nat : \E D, p : Formatted(a, D, p, n, m)
  BY <1>1, <1>2, TurnStarts
<1>5. PICK i \in Nat : i = k + 1
  OBVIOUS
<1>6. /\ rsp.payload = Cat(Packed(a)[i], Remaining(a, i)) /\ rsp.code = a.code
      /\ Remaining(a, i) \in Seq(Bytes) /\ i \in 1 .. Len(Packed(a))
  BY <1>4, <1>5, KeptParts
<1>7. EntryIs(a, i, ClientItem(rsp.payload), size)
  BY <1>1, <1>2, <1>6, ClientEntry
<1>8. Listed(a, n, response') \/ Done(a, n, response')
  BY <1>3, <1>4, <1>5, <1>7, KeptTurn
<1>9. ResponseOf(a, <<>>, response')
  BY <1>4, <1>8, TurnEnds
<1>10. QED
  BY <1>1, <1>4, <1>9 DEF ResponseInv

LEMMA ResponseMail ==
  ASSUME ResponseInv, ParseMessage, RequestInv'
  PROVE  ResponseInv'
<1>1. /\ response.status = "list" /\ response.code = "MESSAGES_PULLED_SUCCESS"
      /\ served' = served /\ down' = down
  BY DEF ParseMessage
<1>2. PICK rsp, q : rsp = response /\ q = rsp.payload
  OBVIOUS
<1>3. PICK length, l : length = getNumFromBuffer(Get(q, 21, 4)) /\ l = Len(q)
  OBVIOUS
<1>4. IF l < 25 \/ l < 25 + length
        THEN response' = Raised
        ELSE response' = Turned(rsp, MailItem(q), 25 + length)
  <2>1. /\ CLIENT_ID_BYTE_SIZE = 16 /\ CLIENT_ID_BYTE_SIZE + MESSAGE_ID_BYTE_SIZE = 20
        /\ CLIENT_ID_BYTE_SIZE + MESSAGE_ID_BYTE_SIZE + 1 = 21 /\ MessageHeaderSize = 25
        /\ MESSAGE_ID_BYTE_SIZE = 4
    BY DEF CLIENT_ID_BYTE_SIZE, MESSAGE_ID_BYTE_SIZE, MessageHeaderSize
  <2>2. QED
    BY <1>2, <1>3, <2>1 DEF ParseMessage, Item, Turned, MailItem
<1>5. PICK a \in ResponseSet, n \in Nat, k \in Nat :
        /\ a = served /\ a # NoResponse /\ IsBig(a) /\ Kept(a, n, k, rsp) /\ down = <<>>
        /\ \E m \in Nat : \E D, p : Formatted(a, D, p, n, m)
  BY <1>1, <1>2, TurnStarts
<1>6. PICK i \in Nat : i = k + 1
  OBVIOUS
<1>7. /\ q = Cat(Packed(a)[i], Remaining(a, i)) /\ rsp.code = a.code
      /\ Remaining(a, i) \in Seq(Bytes) /\ i \in 1 .. Len(Packed(a))
      /\ Len(Packed(a)[i]) <= MaxNumber
  BY <1>2, <1>5, <1>6, KeptParts
<1>8. /\ EntryIs(a, i, MailItem(q), 25 + length)
      /\ l \in Nat /\ length \in Nat /\ 25 + length <= l
  BY <1>1, <1>2, <1>3, <1>7, MailEntry
<1>9. response' = Turned(rsp, MailItem(q), 25 + length)
  BY <1>4, <1>8
<1>10. Listed(a, n, response') \/ Done(a, n, response')
  BY <1>5, <1>6, <1>8, <1>9, KeptTurn
<1>11. ResponseOf(a, <<>>, response')
  BY <1>5, <1>10, TurnEnds
<1>12. QED
  BY <1>1, <1>5, <1>11 DEF ResponseInv

LEMMA ResponseNext == ResponseInv /\ [Next]_vars => ResponseInv'
<1>1. SUFFICES ASSUME ResponseInv, [Next]_vars
               PROVE  ResponseInv'
  OBVIOUS
<1>2. RequestInv'
  BY <1>1, RequestNext DEF ResponseInv
<1>3. CASE prepareRequestBuffer
  BY <1>1, <1>2, <1>3 DEF prepareRequestBuffer, responseVars, ResponseInv
<1>4. CASE Recv
  BY <1>1, <1>2, <1>4, ResponseRecv
<1>5. CASE ReadPartition
  BY <1>1, <1>2, <1>5, ResponseRead
<1>6. CASE ParseClient
  BY <1>1, <1>2, <1>6, ResponseClient
<1>7. CASE ParseMessage
  BY <1>1, <1>2, <1>7, ResponseMail
<1>8. CASE UNCHANGED vars
  BY <1>1, <1>2, <1>8 DEF vars, responseVars, ResponseInv
<1>9. QED
  BY <1>1, <1>3, <1>4, <1>5, <1>6, <1>7, <1>8 DEF Next

-----------------------------------------------------------------------------
\* The number of partitions that Relay counts

\* The function that SizeOf recurses over
First(s) == CHOOSE x \in s : TRUE
SumAt(g, s) == IF s = {} THEN 0 ELSE size_of_message(First(s)) + g[s \ {First(s)}]
Sums(g, S) == g = [s \in SUBSET S |-> SumAt(g, s)]

\* The same for the sets of at most k elements
SumsTo(g, S, k) == \A s \in SUBSET S : Cardinality(s) <= k => g[s] = SumAt(g, s)

LEMMA SizeIs ==
  ASSUME NEW S
  PROVE  SizeOf(S) = (CHOOSE g : Sums(g, S))[S]
BY DEF SizeOf, MapThenSumSet, MapThenFoldSet, Sums, SumAt, First

LEMMA FirstIn ==
  ASSUME NEW s, s # {}
  PROVE  First(s) \in s
BY DEF First

LEMMA LessOne ==
  ASSUME NEW S, IsFiniteSet(S), NEW s \in SUBSET S
  PROVE  /\ Cardinality(s) \in Nat /\ (Cardinality(s) = 0 <=> s = {})
         /\ \A x \in s : /\ s \ {x} \in SUBSET S
                         /\ Cardinality(s \ {x}) = Cardinality(s) - 1
<1>1. IsFiniteSet(s)
  BY FS_Subset
<1>2. Cardinality(s) \in Nat /\ (Cardinality(s) = 0 <=> s = {})
  BY <1>1, FS_CardinalityType, FS_EmptySet
<1>3. \A x \in s : Cardinality(s \ {x}) = Cardinality(s) - 1
  BY <1>1, FS_RemoveElement
<1>4. QED
  BY <1>2, <1>3

LEMMA SumsExist ==
  ASSUME NEW S, IsFiniteSet(S)
  PROVE  \E g : Sums(g, S) /\ SizeOf(S) = g[S]
<1>. DEFINE P == {k \in Nat : \E g : SumsTo(g, S, k)}
<1>1. 0 \in P
  <2>. DEFINE g == [s \in SUBSET S |-> 0]
  <2>1. SumsTo(g, S, 0)
    <3>1. SUFFICES ASSUME NEW s \in SUBSET S, Cardinality(s) <= 0
                   PROVE  g[s] = SumAt(g, s)
      BY DEF SumsTo
    <3>2. s = {}
      BY <3>1, LessOne
    <3>3. QED
      BY <3>2 DEF SumAt
  <2>2. QED
    BY <2>1
<1>2. ASSUME NEW k \in Nat, k \in P
      PROVE  k + 1 \in P
  <2>1. PICK g : SumsTo(g, S, k)
    BY <1>2
  <2>. DEFINE h == [s \in SUBSET S |-> SumAt(g, s)]
  <2>2. ASSUME NEW s \in SUBSET S, Cardinality(s) <= k
        PROVE  h[s] = g[s]
    BY <2>1, <2>2 DEF SumsTo
  <2>3. SumsTo(h, S, k + 1)
    <3>1. SUFFICES ASSUME NEW s \in SUBSET S, Cardinality(s) <= k + 1
                   PROVE  h[s] = SumAt(h, s)
      BY DEF SumsTo
    <3>2. h[s] = SumAt(g, s)
      OBVIOUS
    <3>3. CASE s = {}
      BY <3>2, <3>3 DEF SumAt
    <3>4. CASE s # {}
      <4>1. PICK x \in s : x = First(s)
        BY <3>4, FirstIn
      <4>2. PICK t \in SUBSET S : t = s \ {x} /\ Cardinality(t) <= k
        <5>1. /\ s \ {x} \in SUBSET S /\ Cardinality(s \ {x}) = Cardinality(s) - 1
              /\ Cardinality(s) \in Nat
          BY LessOne
        <5>2. Cardinality(s \ {x}) <= k
          BY <3>1, <5>1
        <5>3. QED
          BY <5>1, <5>2
      <4>3. h[t] = g[t]
        BY <2>2, <4>2
      <4>4. SumAt(g, s) = size_of_message(x) + g[t] /\ SumAt(h, s) = size_of_message(x) + h[t]
        <5>. HIDE DEF h
        <5>1. QED
          BY <3>4, <4>1, <4>2 DEF SumAt
      <4>5. QED
        BY <3>2, <4>3, <4>4
    <3>5. QED
      BY <3>3, <3>4
  <2>4. QED
    BY <2>3
<1>3. Nat \subseteq P
  <2>. HIDE DEF P
  <2>1. QED
    BY <1>1, <1>2, Induction
<1>4. PICK k \in Nat : k = Cardinality(S)
  BY FS_CardinalityType
<1>5. PICK g : SumsTo(g, S, k)
  BY <1>3
<1>6. \A s \in SUBSET S : g[s] = SumAt(g, s)
  <2>1. \A s \in SUBSET S : Cardinality(s) <= k
    BY <1>4, FS_Subset
  <2>2. QED
    BY <1>5, <2>1 DEF SumsTo
<1>7. PICK h : h = [s \in SUBSET S |-> g[s]]
  OBVIOUS
<1>8. \A s \in SUBSET S : h[s] = g[s]
  BY <1>7
<1>9. ASSUME NEW s \in SUBSET S
      PROVE  h[s] = SumAt(h, s)
  <2>1. h[s] = SumAt(g, s)
    BY <1>6, <1>8
  <2>2. SumAt(h, s) = SumAt(g, s)
    <3>1. s \ {First(s)} \in SUBSET S
      OBVIOUS
    <3>2. h[s \ {First(s)}] = g[s \ {First(s)}]
      BY <1>8, <3>1
    <3>3. QED
      BY <3>2 DEF SumAt
  <2>3. QED
    BY <2>1, <2>2
<1>10. Sums(h, S)
  <2>1. h = [s \in SUBSET S |-> h[s]]
    BY <1>7
  <2>2. h = [s \in SUBSET S |-> SumAt(h, s)]
    BY <1>9, <2>1
  <2>3. QED
    BY <2>2 DEF Sums
<1>11. QED
  BY <1>10, SizeIs

LEMMA SumsAt ==
  ASSUME NEW S, IsFiniteSet(S), NEW g, Sums(g, S), NEW s \in SUBSET S
  PROVE  /\ s = {} => g[s] = 0
         /\ s # {} => \E x \in s : s \ {x} \in SUBSET S /\ g[s] = size_of_message(x) + g[s \ {x}]
<1>. DEFINE h == [t \in SUBSET S |-> SumAt(g, t)]
<1>1. g = h
  BY DEF Sums
<1>2. h[s] = SumAt(g, s)
  OBVIOUS
<1>3. g[s] = SumAt(g, s)
  <2>. HIDE DEF h
  <2>1. QED
    BY <1>1, <1>2
<1>4. CASE s = {}
  BY <1>3, <1>4 DEF SumAt
<1>5. CASE s # {}
  <2>1. PICK x \in s : x = First(s)
    BY <1>5, FirstIn
  <2>2. g[s] = size_of_message(x) + g[s \ {x}]
    BY <1>3, <1>5, <2>1 DEF SumAt
  <2>3. s \ {x} \in SUBSET S
    OBVIOUS
  <2>4. QED
    BY <1>5, <2>2, <2>3
<1>6. QED
  BY <1>4, <1>5

LEMMA SumsType ==
  ASSUME NEW S, IsFiniteSet(S), \A x \in S : size_of_message(x) \in Nat, NEW g, Sums(g, S)
  PROVE  \A s \in SUBSET S : g[s] \in Nat
<1>. DEFINE Q == {k \in Nat : \A t \in SUBSET S : Cardinality(t) = k => g[t] \in Nat}
<1>1. 0 \in Q
  <2>1. SUFFICES ASSUME NEW t \in SUBSET S, Cardinality(t) = 0
                 PROVE  g[t] \in Nat
    OBVIOUS
  <2>2. t = {}
    BY <2>1, LessOne
  <2>3. g[t] = 0
    BY <2>2, SumsAt
  <2>4. QED
    BY <2>3
<1>2. ASSUME NEW k \in Nat, k \in Q
      PROVE  k + 1 \in Q
  <2>1. SUFFICES ASSUME NEW t \in SUBSET S, Cardinality(t) = k + 1
                 PROVE  g[t] \in Nat
    OBVIOUS
  <2>2. t # {}
    <3>1. Cardinality(t) # 0
      BY <2>1
    <3>2. QED
      BY <3>1, LessOne
  <2>3. PICK x \in t : t \ {x} \in SUBSET S /\ g[t] = size_of_message(x) + g[t \ {x}]
    BY <2>2, SumsAt
  <2>4. Cardinality(t \ {x}) = k
    <3>1. Cardinality(t \ {x}) = Cardinality(t) - 1
      BY LessOne
    <3>2. QED
      BY <2>1, <3>1
  <2>5. PICK a \in Nat, b \in Nat : a = size_of_message(x) /\ b = g[t \ {x}]
    BY <1>2, <2>3, <2>4
  <2>6. g[t] = a + b
    BY <2>3, <2>5
  <2>7. QED
    BY <2>6
<1>3. Nat \subseteq Q
  <2>. HIDE DEF Q
  <2>1. QED
    BY <1>1, <1>2, Induction
<1>4. \A s \in SUBSET S : Cardinality(s) \in Nat
  BY LessOne
<1>5. QED
  BY <1>3, <1>4

\* A sum does not depend on the order of the elements.
Additive(g, S) == \A s \in SUBSET S : \A x \in s : g[s] = size_of_message(x) + g[s \ {x}]

LEMMA SumsAny ==
  ASSUME NEW S, IsFiniteSet(S), \A x \in S : size_of_message(x) \in Nat, NEW g, Sums(g, S)
  PROVE  Additive(g, S)
<1>. DEFINE Q == {k \in Nat : \A t \in SUBSET S : Cardinality(t) = k =>
                    \A x \in t : g[t] = size_of_message(x) + g[t \ {x}]}
<1>1. 0 \in Q
  <2>1. SUFFICES ASSUME NEW t \in SUBSET S, Cardinality(t) = 0
                 PROVE  t = {}
    OBVIOUS
  <2>2. QED
    BY <2>1, LessOne
<1>2. ASSUME NEW k \in Nat, k \in Q
      PROVE  k + 1 \in Q
  <2>1. SUFFICES ASSUME NEW t \in SUBSET S, Cardinality(t) = k + 1, NEW x \in t
                 PROVE  g[t] = size_of_message(x) + g[t \ {x}]
    OBVIOUS
  <2>2. PICK y \in t : g[t] = size_of_message(y) + g[t \ {y}]
    BY <2>1, SumsAt
  <2>3. CASE x = y
    BY <2>2, <2>3
  <2>4. CASE x # y
    <3>1. \A z \in t : t \ {z} \in SUBSET S /\ Cardinality(t \ {z}) = k
      <4>1. \A z \in t : /\ t \ {z} \in SUBSET S
                         /\ Cardinality(t \ {z}) = Cardinality(t) - 1
        BY LessOne
      <4>2. k + 1 - 1 = k
        OBVIOUS
      <4>3. QED
        BY <2>1, <4>1, <4>2
    <3>2. PICK u \in SUBSET S : u = (t \ {y}) \ {x} /\ u = (t \ {x}) \ {y}
      OBVIOUS
    <3>3. x \in t \ {y} /\ y \in t \ {x}
      BY <2>4
    <3>4. g[t \ {y}] = size_of_message(x) + g[u] /\ g[t \ {x}] = size_of_message(y) + g[u]
      BY <1>2, <3>1, <3>2, <3>3
    <3>5. PICK a \in Nat, b \in Nat, c \in Nat :
            a = size_of_message(x) /\ b = size_of_message(y) /\ c = g[u]
      BY SumsType
    <3>6. a + (b + c) = b + (a + c)
      OBVIOUS
    <3>7. QED
      BY <2>2, <3>4, <3>5, <3>6
  <2>5. QED
    BY <2>3, <2>4
<1>3. Nat \subseteq Q
  <2>. HIDE DEF Q
  <2>1. QED
    BY <1>1, <1>2, Induction
<1>4. \A s \in SUBSET S : Cardinality(s) \in Nat
  BY LessOne
<1>5. QED
  BY <1>3, <1>4 DEF Additive

\* The first k of the values of f
Firsts(f, k) == {f[i] : i \in 1 .. k}
Distinct(f, n) == \A i, j \in 1 .. n : f[i] = f[j] => i = j

LEMMA FirstsCount ==
  ASSUME NEW n \in Nat, NEW f, Distinct(f, n)
  PROVE  IsFiniteSet(Firsts(f, n)) /\ Cardinality(Firsts(f, n)) = n
<1>1. PICK h : h = [i \in 1 .. n |-> f[i]]
  OBVIOUS
<1>2. PICK T : T = Firsts(f, n)
  OBVIOUS
<1>3. /\ h \in [1 .. n -> T] /\ \A t \in T : \E i \in 1 .. n : h[i] = t
      /\ \A i, j \in 1 .. n : h[i] = h[j] => i = j
  BY <1>1, <1>2 DEF Firsts, Distinct
<1>4. h \in Bijection(1 .. n, T)
  BY <1>3 DEF Bijection, Injection, Surjection, IsInjective
<1>5. ExistsBijection(1 .. n, T)
  BY <1>4 DEF ExistsBijection
<1>6. IsFiniteSet(T)
  BY <1>5, FS_NatBijection
<1>7. Cardinality(T) = n
  BY <1>5, FS_CountingElements
<1>8. QED
  BY <1>2, <1>6, <1>7

LEMMA FirstsMore ==
  ASSUME NEW n \in Nat, NEW f, Distinct(f, n), NEW k \in Nat, k < n
  PROVE  /\ Firsts(f, k + 1) \in SUBSET Firsts(f, n) /\ f[k + 1] \in Firsts(f, k + 1)
         /\ Firsts(f, k + 1) \ {f[k + 1]} = Firsts(f, k)
<1>1. k + 1 \in 1 .. n /\ 1 .. (k + 1) \subseteq 1 .. n /\ 1 .. k = 1 .. (k + 1) \ {k + 1}
  OBVIOUS
<1>2. k + 1 \in 1 .. (k + 1)
  OBVIOUS
<1>3. PICK l : l = k + 1
  OBVIOUS
<1>4. \A i \in 1 .. l : f[i] = f[l] => i = l
  BY <1>1, <1>3 DEF Distinct
<1>5. l \in 1 .. l /\ 1 .. l \subseteq 1 .. n /\ 1 .. k = 1 .. l \ {l}
  BY <1>1, <1>2, <1>3
<1>6. Firsts(f, l) \in SUBSET Firsts(f, n) /\ f[l] \in Firsts(f, l)
  BY <1>5 DEF Firsts
<1>7. Firsts(f, l) \ {f[l]} = Firsts(f, k)
  BY <1>4, <1>5 DEF Firsts
<1>8. QED
  BY <1>3, <1>6, <1>7

\* Every element of s takes as many bytes as the row with the same number.
Sized(s, f) == \A i \in 1 .. Len(s) : size_of_message(f[i]) \in Nat /\ HasBytes(s[i], size_of_message(f[i]))

LEMMA SizesFlatten ==
  ASSUME NEW T, Over(T, Bytes), NEW s \in Seq(T), NEW f, Distinct(f, Len(s)), Sized(s, f)
  PROVE  SizeOf(Firsts(f, Len(s))) = Len(FlattenSeq(s))
<1>1. PICK n \in Nat : n = Len(s)
  BY SeqLen
<1>2. PICK S : S = Firsts(f, n) /\ IsFiniteSet(S)
  BY <1>1, FirstsCount
<1>3. PICK g : Sums(g, S) /\ SizeOf(S) = g[S]
  BY <1>2, SumsExist
<1>4. \A x \in S : size_of_message(x) \in Nat
  BY <1>1, <1>2 DEF Firsts, Sized
<1>5. Additive(g, S)
  BY <1>2, <1>3, <1>4, SumsAny
<1>6. \A t \in SUBSET S : g[t] \in Nat
  BY <1>2, <1>3, <1>4, SumsType
<1>. DEFINE P == {k \in Nat : k <= n => HasBytes(FlattenSeq(Get(s, 0, k)), g[Firsts(f, k)])
                                          /\ Firsts(f, k) \in SUBSET S}
<1>7. 0 \in P
  <2>1. Firsts(f, 0) = {}
    BY DEF Firsts
  <2>2. Firsts(f, 0) \in SUBSET S
    BY <2>1
  <2>3. g[Firsts(f, 0)] = 0
    BY <1>2, <1>3, <2>1, <2>2, SumsAt
  <2>4. Get(s, 0, 0) = <<>>
    BY GetNone
  <2>5. HasBytes(<<>>, 0)
    BY DEF HasBytes
  <2>6. HasBytes(FlattenSeq(Get(s, 0, 0)), g[Firsts(f, 0)])
    BY <2>3, <2>4, <2>5, FlattenEmpty
  <2>7. QED
    BY <2>2, <2>6
<1>8. ASSUME NEW k \in Nat, k \in P
      PROVE  k + 1 \in P
  <2>1. SUFFICES ASSUME k + 1 <= n
                 PROVE  /\ HasBytes(FlattenSeq(Get(s, 0, k + 1)), g[Firsts(f, k + 1)])
                        /\ Firsts(f, k + 1) \in SUBSET S
    OBVIOUS
  <2>2. k < n /\ k <= n /\ k + 1 \in 1 .. n
    BY <2>1
  <2>3. PICK b, c : b = FlattenSeq(Get(s, 0, k)) /\ c = FlattenSeq(Get(s, 0, k + 1))
    OBVIOUS
  <2>4. PICK u, v : u = Firsts(f, k) /\ v = Firsts(f, k + 1)
    OBVIOUS
  <2>5. HasBytes(b, g[u]) /\ u \in SUBSET S
    BY <1>8, <2>2, <2>3, <2>4
  <2>6. PICK x, y : x = s[k + 1] /\ y = f[k + 1]
    OBVIOUS
  <2>7. v \in SUBSET S /\ y \in v /\ v \ {y} = u
    BY <1>1, <1>2, <2>2, <2>4, <2>6, FirstsMore
  <2>8. PICK w \in Nat : w = size_of_message(y) /\ HasBytes(x, w)
    BY <1>1, <2>2, <2>6 DEF Sized
  <2>9. PICK a \in Nat, e \in Nat : a = g[u] /\ e = g[v]
    BY <1>6, <2>5, <2>7
  <2>10. e = a + w
    <3>1. e = w + a
      BY <1>5, <2>7, <2>8, <2>9 DEF Additive
    <3>2. QED
      BY <3>1
  <2>11. c = Cat(b, x)
    <3>1. PICK t : t = Get(s, 0, k)
      OBVIOUS
    <3>2. t \in Seq(T) /\ x \in T
      <4>1. x \in T
        BY <1>1, <2>2, <2>6, ElementOfSeq
      <4>2. t \in Seq(T)
        <5>1. PICK z \in Nat : z = 0
          OBVIOUS
        <5>2. Fits(s, z, k)
          BY <1>1, <2>2, <5>1 DEF Fits
        <5>3. QED
          BY <3>1, <5>1, <5>2, GetType
      <4>3. QED
        BY <4>1, <4>2
    <3>3. Append(t, x) = Get(s, 0, k + 1)
      BY <1>1, <2>2, <2>6, <3>1, FirstMore
    <3>4. FlattenSeq(Append(t, x)) = Cat(FlattenSeq(t), x)
      BY <3>2, CatFlatten
    <3>5. QED
      BY <2>3, <3>1, <3>3, <3>4
  <2>12. HasBytes(c, e)
    <3>1. HasBytes(b, a)
      BY <2>5, <2>9
    <3>2. QED
      BY <2>8, <2>10, <2>11, <3>1, CatBoth
  <2>13. QED
    BY <2>3, <2>4, <2>7, <2>9, <2>12
<1>9. Nat \subseteq P
  <2>. HIDE DEF P
  <2>1. QED
    BY <1>7, <1>8, Induction
<1>10. HasBytes(FlattenSeq(Get(s, 0, n)), g[Firsts(f, n)])
  BY <1>9
<1>11. Get(s, 0, n) = s
  BY <1>1, GetAll
<1>12. HasBytes(FlattenSeq(s), g[S])
  BY <1>2, <1>10, <1>11
<1>13. QED
  BY <1>1, <1>2, <1>3, <1>12 DEF HasBytes

RowSize(m) == [id |-> m.id, length |-> Len(m.content)]

LEMMA RowSizeIs ==
  ASSUME NEW m
  PROVE  RowSize(m).id = m.id /\ RowSize(m).length = Len(m.content)
BY DEF RowSize

\* RelayResponse, for any answer
Counted(a) ==
  CASE a.code = "LIST_CLIENTS_SUCCESS" -> [code |-> a.code, clients |-> Range(a.clients)]
    [] a.code = "MESSAGES_PULLED_SUCCESS" ->
         [code |-> a.code, messages |-> {RowSize(m) : m \in Range(a.messages)}]
    [] OTHER -> a

LEMMA CountedServed == RelayResponse = Counted(served)
BY DEF RelayResponse, Counted, RowSize

LEMMA KeysDistinct ==
  ASSUME NEW R, NEW rows \in Seq(R), HasKeys(rows), NEW n \in Nat, n = Len(rows)
  PROVE  Distinct(rows, n) /\ Range(rows) = Firsts(rows, n)
<1>1. DOMAIN rows = 1 .. n
  BY LenProperties
<1>2. QED
  BY <1>1 DEF Distinct, HasKeys, Range, Firsts

LEMMA ClientsCounted ==
  ASSUME NEW a \in ResponseSet, a.code = "LIST_CLIENTS_SUCCESS"
  PROVE  PayloadSize(Counted(a)) = Len(_get_pack_data(a))
<1>1. PICK rows \in Seq(ListEntries) : rows = a.clients /\ HasKeys(rows)
  BY ListTypes
<1>2. PICK n \in Nat : n = Len(rows)
  BY SeqLen
<1>3. Cardinality(Range(rows)) = n
  BY <1>1, <1>2, KeysDistinct, FirstsCount
<1>4. PICK b : b = Counted(a)
  OBVIOUS
<1>5. b.code = "LIST_CLIENTS_SUCCESS" /\ b.clients = Range(rows)
  BY <1>1, <1>4 DEF Counted
<1>6. PayloadSize(b) = n * (CLIENT_ID_BYTE_SIZE + USER_NAME_BYTE_SIZE)
  BY <1>3, <1>5 DEF PayloadSize
<1>7. CLIENT_ID_BYTE_SIZE + USER_NAME_BYTE_SIZE = 271
  BY Offsets
<1>8. PayloadSize(b) = n * 271
  BY <1>6, <1>7
<1>9. n * 271 = 271 * n
  OBVIOUS
<1>10. Len(_get_pack_data(a)) = 271 * n
  BY <1>1, <1>2, ClientsLength
<1>11. QED
  BY <1>4, <1>8, <1>9, <1>10

LEMMA MailCounted ==
  ASSUME NEW a \in ResponseSet, a.code = "MESSAGES_PULLED_SUCCESS"
  PROVE  PayloadSize(Counted(a)) = Len(_get_pack_data(a))
<1>1. PICK rows \in Seq(MailEntries) : rows = a.messages /\ HasKeys(rows)
  BY ListTypes
<1>2. PICK n \in Nat : n = Len(rows)
  BY SeqLen
<1>3. DOMAIN rows = 1 .. n
  BY <1>2, LenProperties
<1>4. PICK s : s = Packed(a) /\ s = [i \in 1 .. n |-> PackedMail(rows[i])]
  BY <1>1, <1>3 DEF Packed
<1>5. s \in Seq(NonEmpty) /\ Len(s) = n
  <2>1. s \in Seq(NonEmpty)
    BY <1>4, PackedRows DEF IsBig
  <2>2. DOMAIN s = DOMAIN rows /\ s = [i \in DOMAIN rows |-> s[i]]
    BY <1>3, <1>4
  <2>3. \A i \in DOMAIN rows : s[i] \in NonEmpty
    BY <2>1, <2>2, LenProperties, ElementOfSeq
  <2>4. Len(s) = Len(rows)
    BY <2>2, <2>3, RowsSeq
  <2>5. QED
    BY <1>2, <2>1, <2>4
<1>6. PICK f : f = [i \in 1 .. n |-> RowSize(rows[i])]
  OBVIOUS
<1>7. \A i \in 1 .. n : f[i] = RowSize(rows[i])
  BY <1>6
<1>8. Distinct(f, n)
  <2>1. \A i \in 1 .. n : f[i].id = rows[i].id
    BY <1>7, RowSizeIs
  <2>2. QED
    BY <1>1, <1>3, <2>1 DEF Distinct, HasKeys
<1>9. Firsts(f, n) = {RowSize(m) : m \in Range(rows)}
  BY <1>3, <1>7 DEF Firsts, Range
<1>10. Sized(s, f)
  <2>1. SUFFICES ASSUME NEW i \in 1 .. n
                 PROVE  size_of_message(f[i]) \in Nat /\ HasBytes(s[i], size_of_message(f[i]))
    BY <1>5 DEF Sized
  <2>2. PICK m \in MailEntries : m = rows[i]
    BY <1>2, ElementOfSeq
  <2>3. MailLength(m) \in Nat /\ HasBytes(PackedMail(m), MailLength(m))
    BY PackedMailType
  <2>4. size_of_message(f[i]) = MailLength(m)
    <3>1. f[i].length = Len(m.content)
      BY <1>7, <2>2, RowSizeIs
    <3>2. PICK l \in Nat : l = Len(m.content)
      BY SeqLen DEF MailEntries
    <3>3. MessageHeaderSize \in Nat
      BY DEF MessageHeaderSize, CLIENT_ID_BYTE_SIZE, MESSAGE_ID_BYTE_SIZE
    <3>4. l + MessageHeaderSize = MessageHeaderSize + l
      BY <3>3
    <3>5. QED
      BY <3>1, <3>2, <3>4 DEF size_of_message, MailLength
  <2>5. s[i] = PackedMail(m)
    BY <1>4, <2>2
  <2>6. QED
    BY <2>3, <2>4, <2>5
<1>11. SizeOf(Firsts(f, n)) = Len(FlattenSeq(s))
  BY <1>5, <1>8, <1>10, NonEmptyOver, SizesFlatten
<1>12. PICK b : b = Counted(a)
  OBVIOUS
<1>13. b.code = "MESSAGES_PULLED_SUCCESS" /\ b.messages = {RowSize(m) : m \in Range(rows)}
  BY <1>1, <1>12 DEF Counted
<1>14. PayloadSize(b) = SizeOf(b.messages)
  BY <1>13 DEF PayloadSize
<1>15. _get_pack_data(a) = FlattenSeq(s)
  BY <1>4, PackedIs
<1>16. QED
  BY <1>9, <1>11, <1>12, <1>13, <1>14, <1>15

LEMMA SmallCounted ==
  ASSUME NEW a \in ResponseSet, ~ IsBig(a)
  PROVE  PayloadSize(Counted(a)) = Len(_get_pack_data(a))
<1>1. Counted(a) = a
  BY DEF Counted, IsBig
<1>2. Len(_get_pack_data(a)) = ExpectedSize[a.code]
  BY SmallData DEF HasBytes
<1>3. a.code \in {"REGISTER_SUCCESS", "PUBLIC_KEY_SUCCESS", "MESSAGE_SENT_SUCCESS",
                  "GENERAL_SERVER_ERROR"}
  BY AnswerKinds DEF IsBig
<1>4. ExpectedSize[a.code] = PayloadSize(a)
  BY <1>3 DEF ExpectedSize, PayloadSize
<1>5. QED
  BY <1>1, <1>2, <1>4

LEMMA PartitionsCounted ==
  ASSUME NEW a \in ResponseSet, NEW d, NEW p, NEW n \in Nat, NEW m \in Nat, Formatted(a, d, p, n, m)
  PROVE  Len(d) = BUFFER_PARTITION_SIZE * ResponsePartitions(Counted(a))
<1>1. Len(d) = 1024 * m /\ m = Partitions(7 + n) /\ n = Len(_get_pack_data(a))
  BY DEF Formatted, HasBytes
<1>2. PayloadSize(Counted(a)) = Len(_get_pack_data(a))
  BY ClientsCounted, MailCounted, SmallCounted DEF IsBig
<1>3. ResponseHeaderSize = 7
  BY DEF ResponseHeaderSize
<1>4. ResponsePartitions(Counted(a)) = m
  BY <1>1, <1>2, <1>3 DEF ResponsePartitions
<1>5. QED
  BY <1>1, <1>4, Offsets

-----------------------------------------------------------------------------
\* The properties

LEMMA BufferFunction ==
  ASSUME NEW b \in BufferSet
  PROVE  b \in [1 .. BUFFER_PARTITION_SIZE -> Bytes]
<1>1. b \in Seq(Bytes) /\ Len(b) = BUFFER_PARTITION_SIZE
  BY DEF BufferSet
<1>2. b \in [1 .. Len(b) -> Bytes]
  BY <1>1, LenProperties
<1>3. QED
  BY <1>1, <1>2

\* What is left of a response that the client has begun to read
LEMMA LeftOver ==
  ASSUME NEW a, NEW p, NEW n \in Nat, NEW m \in Nat, NEW d, NEW D, NEW rsp,
         Formatted(a, D, p, n, m), Partly(a, p, n, m, d, D, rsp)
  PROVE  d \in Seq(Bytes) /\ d # <<>>
<1>1. PICK j \in Nat : j < m /\ d = Rest(D, m, j)
  BY DEF Partly
<1>2. HasBytes(D, 1024 * m)
  BY DEF Formatted
<1>3. PICK b, rest : Splits(d, b, rest)
  <2>1. Splits(d, Get(d, 0, 1024), SubSeq(d, 1025, Len(d)))
    BY DEF Splits
  <2>2. QED
    BY <2>1
<1>4. PICK i \in Nat : i = j + 1
  OBVIOUS
<1>5. HasBytes(d, 1024 * (m - j)) /\ d # <<>>
  BY <1>1, <1>2, <1>3, <1>4, NextPartition
<1>6. QED
  BY <1>5 DEF HasBytes

LEMMA DownBytes == ResponseInv => down \in Seq(Bytes)
<1>1. SUFFICES ASSUME ResponseInv
               PROVE  down \in Seq(Bytes)
  OBVIOUS
<1>2. CASE served = NoResponse
  BY <1>1, <1>2 DEF ResponseInv
<1>3. CASE served # NoResponse
  <2>1. PICK a, d, rsp : a = served /\ d = down /\ rsp = response
    OBVIOUS
  <2>2. ResponseOf(a, d, rsp)
    BY <1>1, <1>3, <2>1 DEF ResponseInv
  <2>3. PICK n, m \in Nat : \E D, p :
          /\ Formatted(a, D, p, n, m)
          /\ IF rsp = NotCreated THEN d = D ELSE After(a, p, n, m, d, D, rsp)
    BY <2>2 DEF ResponseOf
  <2>4. PICK D, p : /\ Formatted(a, D, p, n, m)
                    /\ IF rsp = NotCreated THEN d = D ELSE After(a, p, n, m, d, D, rsp)
    BY <2>3
  <2>5. CASE rsp = NotCreated
    BY <2>1, <2>4, <2>5 DEF Formatted, HasBytes
  <2>6. CASE rsp # NotCreated
    <3>1. After(a, p, n, m, d, D, rsp)
      BY <2>4, <2>6
    <3>2. d = <<>> \/ Partly(a, p, n, m, d, D, rsp)
      BY <3>1, AfterIs
    <3>3. <<>> \in Seq(Bytes)
      OBVIOUS
    <3>4. d \in Seq(Bytes)
      BY <2>3, <2>4, <3>2, <3>3, LeftOver
    <3>5. QED
      BY <2>1, <3>4
  <2>7. QED
    BY <2>5, <2>6
<1>4. QED
  BY <1>2, <1>3

LEMMA TypesHold == ResponseInv => TypeOK
<1>1. SUFFICES ASSUME ResponseInv
               PROVE  TypeOK
  OBVIOUS
<1>2. request \in MadeRequests /\ sent \in Nat /\ prepared \in BOOLEAN /\ up \in Seq(BufferSet)
  BY <1>1 DEF ResponseInv, RequestInv
<1>3. ASSUME NEW i \in DOMAIN up
      PROVE  up[i] \in [1 .. BUFFER_PARTITION_SIZE -> Bytes]
  <2>1. up[i] \in BufferSet
    BY <1>2, LenProperties, ElementOfSeq
  <2>2. QED
    BY <2>1, BufferFunction
<1>4. Range(down) \subseteq Bytes
  <2>1. PICK d \in Seq(Bytes) : d = down
    BY <1>1, DownBytes
  <2>2. \A i \in DOMAIN d : d[i] \in Bytes
    BY LenProperties, ElementOfSeq
  <2>3. QED
    BY <2>1, <2>2 DEF Range
<1>5. QED
  BY <1>2, <1>3, <1>4 DEF TypeOK

\* How far the client is with a response that it has begun to read
LEMMA ResponseStarted ==
  ASSUME ResponseInv, response # NotCreated
  PROVE  /\ served # NoResponse
         /\ \E n, m \in Nat : \E D, p :
              /\ Formatted(served, D, p, n, m)
              /\ After(served, p, n, m, down, D, response)
<1>1. served # NoResponse
  BY DEF ResponseInv
<1>2. ResponseOf(served, down, response)
  BY <1>1 DEF ResponseInv
<1>3. QED
  BY <1>1, <1>2 DEF ResponseOf

LEMMA ResponseIntactHolds == ResponseInv => ResponseIntact
<1>1. SUFFICES ASSUME ResponseInv, response # NotCreated
               PROVE  /\ response # Raised /\ response.code = served.code
                      /\ response.status = "done" => response.list = Shown(served)
  BY DEF ResponseIntact
<1>2. PICK n, m \in Nat : \E D, p : After(served, p, n, m, down, D, response)
  BY <1>1, ResponseStarted
<1>3. PICK D, p : After(served, p, n, m, down, D, response)
  BY <1>2
<1>4. PICK a, d, rsp : a = served /\ d = down /\ rsp = response
  OBVIOUS
<1>5. After(a, p, n, m, d, D, rsp)
  BY <1>3, <1>4
<1>6. rsp # Raised /\ rsp.code = a.code /\ (rsp.status = "done" => Done(a, n, rsp))
  BY <1>5, AfterIs
<1>7. Done(a, n, rsp) => rsp.list = Shown(a)
  BY DEF Done, Record
<1>8. QED
  BY <1>4, <1>6, <1>7

LEMMA PartitionsAgreeHolds == ResponseInv => PartitionsAgree
<1>1. SUFFICES ASSUME ResponseInv
               PROVE  PartitionsAgree
  OBVIOUS
<1>2. RequestAgrees
  BY <1>1, RequestAgreesHolds DEF ResponseInv
<1>3. PICK a, d, rsp : a = served /\ d = down /\ rsp = response
  OBVIOUS
<1>4. ASSUME served # NoResponse, response = NotCreated
      PROVE  Len(down) = BUFFER_PARTITION_SIZE * ResponsePartitions(RelayResponse)
  <2>1. ResponseOf(a, d, rsp) /\ rsp = NotCreated
    BY <1>1, <1>3, <1>4 DEF ResponseInv
  <2>2. PICK n, m \in Nat : \E D, p : Formatted(a, D, p, n, m) /\ d = D
    BY <2>1 DEF ResponseOf
  <2>3. PICK D, p : Formatted(a, D, p, n, m) /\ d = D
    BY <2>2
  <2>4. a \in ResponseSet
    BY <1>1, <1>3, <1>4, ServedType DEF ResponseInv
  <2>5. Formatted(a, d, p, n, m)
    BY <2>3
  <2>6. Len(d) = BUFFER_PARTITION_SIZE * ResponsePartitions(Counted(a))
    BY <2>2, <2>4, <2>5, PartitionsCounted
  <2>7. QED
    BY <1>3, <2>6, CountedServed
<1>5. ASSUME response \notin {NotCreated, Raised}
      PROVE  response.status = "partitions" <=> down # <<>>
  <2>1. PICK n, m \in Nat : \E D, p :
          Formatted(a, D, p, n, m) /\ After(a, p, n, m, d, D, rsp)
    BY <1>1, <1>3, <1>5, ResponseStarted
  <2>2. PICK D, p : Formatted(a, D, p, n, m) /\ After(a, p, n, m, d, D, rsp)
    BY <2>1
  <2>3. /\ rsp.status \in {"partitions", "list", "done"}
        /\ rsp.status = "partitions" => Partly(a, p, n, m, d, D, rsp)
        /\ rsp.status = "list" => d = <<>>
        /\ rsp.status = "done" => d = <<>>
    BY <2>2, AfterIs
  <2>4. Partly(a, p, n, m, d, D, rsp) => d # <<>>
    BY <2>1, <2>2, LeftOver
  <2>5. rsp.status = "partitions" <=> d # <<>>
    BY <2>3, <2>4
  <2>6. QED
    BY <1>3, <2>5
<1>6. QED
  BY <1>2, <1>4, <1>5 DEF PartitionsAgree, RequestAgrees

\* Every call keeps the invariant from its first partition to its last item.
LEMMA Always == Spec => []ResponseInv
<1>1. Init => ResponseInv
  BY ResponseInit
<1>2. ResponseInv /\ [Next]_vars => ResponseInv'
  BY ResponseNext
<1>3. QED
  BY <1>1, <1>2, PTL DEF Spec

\* Every partition of a request is a buffer of 1024 bytes, and what the server sends
\* is made of bytes (prepareRequestBuffer, _format_response), whatever the ids, names,
\* keys, contents and lists are.
THEOREM CodecTypes == Spec => []TypeOK
<1>1. ResponseInv => TypeOK
  BY TypesHold
<1>2. QED
  BY <1>1, Always, PTL

\* What the server's parsers find in the partitions of a request is what the client
\* put there (parse_request and _content against the requests' prepareRequestBuffer):
\* id, name without its padding, key, receiver, type and all of the content, for a
\* content of any size and wherever the partitions cut it.
THEOREM CodecRequestIntact == Spec => []RequestIntact
<1>1. ResponseInv => RequestIntact
  BY RequestIntactHolds DEF ResponseInv
<1>2. QED
  BY <1>1, Always, PTL

\* What the client has parsed in the end is what the server answered
\* (ServerResponse.cpp against _get_pack_data and _format_response): each item of a
\* list of any length, in its order, and it never throws an answer away.
THEOREM CodecResponseIntact == Spec => []ResponseIntact
<1>1. ResponseInv => ResponseIntact
  BY ResponseIntactHolds
<1>2. QED
  BY <1>1, Always, PTL

\* Client, server and the modules that count partitions instead of bytes agree on how
\* many a request and a response have.
THEOREM CodecPartitionsAgree == Spec => []PartitionsAgree
<1>1. ResponseInv => PartitionsAgree
  BY PartitionsAgreeHolds
<1>2. QED
  BY <1>1, Always, PTL
=============================================================================
