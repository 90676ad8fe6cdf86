----------------------------- MODULE ListLemmas -----------------------------
(***************************************************************************)
(* What Python's list.remove, append and pop(0) do to a list, for lists of *)
(* any length (RemoveFirst of SequencesExt is list.remove), and that a     *)
(* function defined by recursion on a number exists.                       *)
(***************************************************************************)
EXTENDS Integers, Sequences, SequencesExt, Lists, SequenceTheorems,
        WellFoundedInduction, TLAPS

\* A set of places that is not empty has a first one.
LEMMA FirstPlace ==
  ASSUME NEW I \in SUBSET Nat, I # {}
  PROVE  \E i \in I : \A j \in I : i <= j
<1> DEFINE R == OpToRel(<, Nat)
<1>1. IsWellFoundedOn(R, Nat)
  BY NatLessThanWellFounded
<1>2. \A x, y \in Nat : x < y => <<x, y>> \in R
  BY DEF OpToRel
<1> HIDE DEF R
<1>3. PICK x \in I : \A y \in I : ~ (<<y, x>> \in R)
  BY <1>1, WFMin
<1>4. \A y \in I : x <= y
  <2> SUFFICES ASSUME NEW y \in I, ~ (x <= y) PROVE FALSE
    OBVIOUS
  <2>1. x \in Nat /\ y \in Nat /\ y < x
    OBVIOUS
  <2> QED BY <1>2, <1>3, <2>1
<1> QED BY <1>4

\* list.remove takes the element at the first place where it occurs, and
\* moves what is behind it one place forward.
LEMMA RemoveFirstAt ==
  ASSUME NEW S, NEW q \in Seq(S), NEW t \in ToSet(q)
  PROVE  \E i \in 1 .. Len(q) :
           /\ q[i] = t
           /\ \A j \in 1 .. i - 1 : q[j] # t
           /\ RemoveFirst(q, t) \in Seq(S)
           /\ Len(RemoveFirst(q, t)) = Len(q) - 1
           /\ \A j \in 1 .. Len(q) - 1 :
                RemoveFirst(q, t)[j] = IF j < i THEN q[j] ELSE q[j + 1]
<1> DEFINE I == {k \in 1 .. Len(q) : q[k] = t}
           i == Min(I)
           a == SubSeq(q, 1, i - 1)
           b == SubSeq(q, i + 1, Len(q))
<1>1. Len(q) \in Nat /\ DOMAIN q = 1 .. Len(q) /\ \A k \in 1 .. Len(q) : q[k] \in S
  BY LenProperties, ElementOfSeq
<1>2. I # {}
  BY <1>1 DEF ToSet
<1>3. i \in I /\ \A k \in I : i <= k
  <2>1. I \in SUBSET Nat
    BY <1>1
  <2> HIDE DEF I
  <2>2. \E x \in I : \A y \in I : x <= y
    BY <1>2, <2>1, FirstPlace
  <2> QED BY <2>2 DEF Min
<1>4. RemoveFirst(q, t) = a \o b
  BY <1>2 DEF RemoveFirst, RemoveAt, SelectInSeq
<1>5. i \in 1 .. Len(q) /\ q[i] = t /\ \A j \in 1 .. i - 1 : q[j] # t
  BY <1>1, <1>3
<1> HIDE DEF I, i
<1>6. /\ a \in Seq(S)
      /\ Len(a) = i - 1
      /\ \A j \in 1 .. i - 1 : a[j] = q[j]
  <2>1. \A j \in 1 .. i - 1 : q[j] \in S
    BY <1>1, <1>5
  <2> QED BY <1>1, <1>5, <2>1, SubSeqProperties
<1>7. /\ b \in Seq(S)
      /\ Len(b) = Len(q) - i
      /\ \A j \in 1 .. Len(q) - i : b[j] = q[i + j]
  <2>1. \A j \in i + 1 .. Len(q) : q[j] \in S
    BY <1>1, <1>5
  <2>2. i + 1 \in Int /\ Len(q) \in Int
    BY <1>1, <1>5
  <2>3. b \in Seq(S)
    BY <2>1, <2>2, SubSeqProperties
  <2>4. Len(b) = IF i + 1 <= Len(q) THEN Len(q) - (i + 1) + 1 ELSE 0
    BY <2>1, <2>2, SubSeqProperties
  <2>5. \A j \in 1 .. Len(q) - (i + 1) + 1 : b[j] = q[(i + 1) + j - 1]
    BY <2>1, <2>2, SubSeqProperties
  <2> HIDE DEF b
  <2>6. \A j \in 1 .. Len(q) - i : b[j] = q[i + j]
    <3> TAKE j \in 1 .. Len(q) - i
    <3>1. j \in 1 .. Len(q) - (i + 1) + 1 /\ (i + 1) + j - 1 = i + j
      BY <1>1, <1>5
    <3> QED BY <2>5, <3>1
  <2>7. Len(b) = Len(q) - i
    <3>1. CASE i + 1 <= Len(q)
      BY <1>1, <1>5, <2>4, <3>1
    <3>2. CASE ~ (i + 1 <= Len(q))
      <4>1. Len(b) = 0
        BY <2>4, <3>2
      <4>2. i \in Int /\ i <= Len(q) /\ Len(q) \in Int
        BY <1>1, <1>5
      <4>3. Len(q) - i = 0
        BY <3>2, <4>2
      <4> QED BY <4>1, <4>3
    <3> QED BY <3>1, <3>2
  <2> QED BY <2>3, <2>6, <2>7
<1> HIDE DEF a, b
<1>8. a \o b \in Seq(S) /\ Len(a \o b) = Len(q) - 1
  <2>1. a \o b \in Seq(S)
    BY <1>6, <1>7, ConcatProperties
  <2>2. Len(a \o b) = Len(a) + Len(b)
    BY <1>6, <1>7, ConcatProperties
  <2>3. (i - 1) + (Len(q) - i) = Len(q) - 1
    BY <1>1, <1>5
  <2> QED BY <1>6, <1>7, <2>1, <2>2, <2>3
<1>9. \A j \in 1 .. Len(q) - 1 :
        (a \o b)[j] = IF j < i THEN q[j] ELSE q[j + 1]
  <2> TAKE j \in 1 .. Len(q) - 1
  <2>1. (a \o b)[j] = IF j <= i - 1 THEN a[j] ELSE b[j - (i - 1)]
    BY <1>1, <1>5, <1>6, <1>7, ConcatProperties
  <2>2. CASE j < i
    BY <1>1, <1>5, <1>6, <2>1, <2>2
  <2>3. CASE ~ (j < i)
    <3>1. j - (i - 1) \in 1 .. Len(q) - i /\ i + (j - (i - 1)) = j + 1 /\ ~ (j <= i - 1)
      BY <1>1, <1>5, <2>3
    <3> QED BY <1>7, <2>1, <2>3, <3>1
  <2> QED BY <2>2, <2>3
<1> QED BY <1>4, <1>5, <1>8, <1>9

\* In any list, list.remove takes out nothing but (one copy of) its argument.
LEMMA RemoveFirstElements ==
  ASSUME NEW S, NEW q \in Seq(S), NEW t \in ToSet(q)
  PROVE  /\ RemoveFirst(q, t) \in Seq(S)
         /\ ToSet(RemoveFirst(q, t)) \subseteq ToSet(q)
         /\ ToSet(q) \ {t} \subseteq ToSet(RemoveFirst(q, t))
<1> DEFINE r == RemoveFirst(q, t)
           n == Len(q)
<1>1. PICK i \in 1 .. n :
        /\ q[i] = t /\ r \in Seq(S) /\ Len(r) = n - 1
        /\ \A j \in 1 .. n - 1 : r[j] = IF j < i THEN q[j] ELSE q[j + 1]
  BY RemoveFirstAt
<1>2. n \in Nat /\ DOMAIN q = 1 .. n /\ DOMAIN r = 1 .. n - 1
  BY <1>1, LenProperties
<1> HIDE DEF r, n
<1>3. ASSUME NEW j \in 1 .. n - 1 PROVE r[j] \in ToSet(q)
  <2>1. j \in 1 .. n /\ j + 1 \in 1 .. n
    BY <1>2
  <2> QED BY <1>1, <1>2, <2>1 DEF ToSet
<1>4. ASSUME NEW j \in 1 .. n, q[j] # t PROVE q[j] \in ToSet(r)
  <2>1. CASE j < i
    <3>1. j \in 1 .. n - 1
      BY <1>2, <2>1
    <3> QED BY <1>1, <1>2, <2>1, <3>1 DEF ToSet
  <2>2. CASE j > i
    <3>1. j - 1 \in 1 .. n - 1 /\ ~ (j - 1 < i) /\ (j - 1) + 1 = j
      BY <1>2, <2>2
    <3> QED BY <1>1, <1>2, <3>1 DEF ToSet
  <2>3. j # i
    BY <1>1, <1>4
  <2> QED BY <1>2, <2>1, <2>2, <2>3
<1>5. ToSet(r) \subseteq ToSet(q) /\ ToSet(q) \ {t} \subseteq ToSet(r)
  BY <1>2, <1>3, <1>4 DEF ToSet
<1> QED BY <1>1, <1>5 DEF r

\* Appending adds its argument.
LEMMA AppendElements ==
  ASSUME NEW S, NEW q \in Seq(S), NEW t \in S
  PROVE  /\ Append(q, t) \in Seq(S) /\ Append(q, t) # <<>>
         /\ ToSet(Append(q, t)) = ToSet(q) \cup {t}
<1> DEFINE r == Append(q, t)
           n == Len(q)
<1>1. /\ r \in Seq(S) /\ n \in Nat /\ DOMAIN q = 1 .. n /\ Len(r) = n + 1
      /\ DOMAIN r = 1 .. n + 1 /\ r[n + 1] = t /\ \A i \in 1 .. n : r[i] = q[i]
  BY AppendProperties, LenProperties
<1> HIDE DEF r, n
<1>2. /\ \A i \in 1 .. n + 1 : i \in 1 .. n \/ i = n + 1
      /\ \A i \in 1 .. n : i \in 1 .. n + 1
      /\ n + 1 \in 1 .. n + 1
  BY <1>1
<1>3. ToSet(r) = ToSet(q) \cup {t}
  BY <1>1, <1>2 DEF ToSet
<1>4. r # <<>>
  BY <1>1, <1>2, EmptySeq
<1> QED BY <1>1, <1>3, <1>4 DEF r

\* From a list without duplicates list.remove takes the element, keeps the
\* others, and leaves the head alone unless it is the one removed.
LEMMA RemoveFirstInjective ==
  ASSUME NEW S, NEW q \in Seq(S), IsInjective(q), NEW t \in ToSet(q)
  PROVE  /\ RemoveFirst(q, t) \in Seq(S)
         /\ IsInjective(RemoveFirst(q, t))
         /\ ToSet(RemoveFirst(q, t)) = ToSet(q) \ {t}
         /\ t # Head(q) => /\ RemoveFirst(q, t) # <<>>
                           /\ Head(RemoveFirst(q, t)) = Head(q)
<1> DEFINE r == RemoveFirst(q, t)
<1>1. PICK i \in 1 .. Len(q) :
           /\ q[i] = t
           /\ \A j \in 1 .. i - 1 : q[j] # t
           /\ r \in Seq(S)
           /\ Len(r) = Len(q) - 1
           /\ \A j \in 1 .. Len(q) - 1 : r[j] = IF j < i THEN q[j] ELSE q[j + 1]
  BY RemoveFirstAt
<1> HIDE DEF r
<1>2. /\ Len(q) \in Nat /\ DOMAIN q = 1 .. Len(q)
      /\ DOMAIN r = 1 .. Len(q) - 1
  BY <1>1, LenProperties
<1> DEFINE g(j) == IF j < i THEN j ELSE j + 1
<1>a. \A j \in 1 .. Len(q) - 1 : r[j] = q[g(j)]
  BY <1>1
<1>b. \A j \in 1 .. Len(q) - 1 : g(j) \in 1 .. Len(q) /\ g(j) # i
  BY <1>2
<1>c. \A j, k \in 1 .. Len(q) - 1 : g(j) = g(k) => j = k
  BY <1>2
<1> HIDE DEF g
<1>3. IsInjective(r)
  BY <1>2, <1>a, <1>b, <1>c DEF IsInjective
<1>4. ToSet(r) = ToSet(q) \ {t}
  <2>1. ASSUME NEW x \in ToSet(r) PROVE x \in ToSet(q) \ {t}
    <3>1. PICK j \in 1 .. Len(q) - 1 : x = q[g(j)]
      BY <1>2, <1>a DEF ToSet
    <3>2. x # t
      BY <1>1, <1>2, <1>b, <3>1 DEF IsInjective
    <3> QED BY <1>2, <1>b, <3>1, <3>2 DEF ToSet
  <2>2. ASSUME NEW x \in ToSet(q) \ {t} PROVE x \in ToSet(r)
    <3>1. PICK k \in 1 .. Len(q) : q[k] = x
      BY <1>2 DEF ToSet
    <3>2. k # i
      BY <1>1, <3>1
    <3>3. CASE k < i
      <4>1. k \in 1 .. Len(q) - 1
        BY <1>2, <3>3
      <4> QED BY <1>1, <1>2, <3>1, <3>3, <4>1 DEF ToSet
    <3>4. CASE k > i
      <4>1. k - 1 \in 1 .. Len(q) - 1 /\ ~ (k - 1 < i) /\ (k - 1) + 1 = k
        BY <1>2, <3>4
      <4>2. r[k - 1] = x
        BY <1>1, <3>1, <4>1
      <4> QED BY <1>2, <4>1, <4>2 DEF ToSet
    <3> QED BY <3>2, <3>3, <3>4
  <2> QED BY <2>1, <2>2
<1>5. ASSUME t # Head(q) PROVE r # <<>> /\ Head(r) = Head(q)
  <2>1. q # <<>> /\ Head(q) = q[1]
    BY <1>2, EmptySeq
  <2>2. 1 < i
    BY <1>1, <1>5, <2>1
  <2>3. 1 \in 1 .. Len(q) - 1
    BY <1>2, <2>2
  <2>4. r[1] = q[1]
    BY <1>1, <2>2, <2>3
  <2>5. r # <<>>
    BY <1>1, <2>3, EmptySeq
  <2> QED BY <1>1, <2>1, <2>4, <2>5
<1> QED BY <1>1, <1>3, <1>4, <1>5 DEF r

\* append puts a new element behind a list without duplicates.
LEMMA AppendInjectiveList ==
  ASSUME NEW S, NEW q \in Seq(S), IsInjective(q), NEW t \in S, t \notin ToSet(q)
  PROVE  /\ Append(q, t) \in Seq(S)
         /\ IsInjective(Append(q, t))
         /\ ToSet(Append(q, t)) = ToSet(q) \cup {t}
         /\ Append(q, t) # <<>>
         /\ q # <<>> => Head(Append(q, t)) = Head(q)
<1> DEFINE r == Append(q, t)
<1>1. /\ r \in Seq(S) /\ r # <<>> /\ Len(r) = Len(q) + 1
      /\ \A i \in 1 .. Len(q) : r[i] = q[i]
      /\ r[Len(q) + 1] = t
  BY AppendProperties
<1> HIDE DEF r
<1>2. Len(q) \in Nat /\ DOMAIN q = 1 .. Len(q) /\ DOMAIN r = 1 .. Len(q) + 1
  BY <1>1, LenProperties
<1>3. IsInjective(r)
  <2> SUFFICES ASSUME NEW i \in 1 .. Len(q) + 1, NEW j \in 1 .. Len(q) + 1,
                      r[i] = r[j]
               PROVE  i = j
    BY <1>2 DEF IsInjective
  <2>1. CASE i \in 1 .. Len(q) /\ j \in 1 .. Len(q)
    BY <1>1, <1>2, <2>1 DEF IsInjective
  <2>2. CASE i = Len(q) + 1 \/ j = Len(q) + 1
    BY <1>1, <1>2, <2>2 DEF ToSet
  <2> QED BY <1>2, <2>1, <2>2
<1>4. ToSet(r) = ToSet(q) \cup {t}
  <2>1. ASSUME NEW x \in ToSet(r) PROVE x \in ToSet(q) \cup {t}
    BY <1>1, <1>2 DEF ToSet
  <2>2. ASSUME NEW x \in ToSet(q) \cup {t} PROVE x \in ToSet(r)
    <3>1. CASE x = t
      <4>1. Len(q) + 1 \in 1 .. Len(q) + 1
        BY <1>2
      <4> QED BY <1>1, <1>2, <3>1, <4>1 DEF ToSet
    <3>2. CASE x \in ToSet(q)
      BY <1>1, <1>2, <3>2 DEF ToSet
    <3> QED BY <3>1, <3>2
  <2> QED BY <2>1, <2>2
<1>5. q # <<>> => Head(r) = Head(q)
  <2> SUFFICES ASSUME q # <<>> PROVE Head(r) = Head(q)
    OBVIOUS
  <2>1. 1 \in 1 .. Len(q)
    BY <1>2, EmptySeq
  <2>2. Head(q) = q[1] /\ Head(r) = r[1]
    BY <1>1
  <2> QED BY <1>1, <2>1, <2>2
<1> QED BY <1>1, <1>3, <1>4, <1>5 DEF r

\* pop(0) takes the head from a list without duplicates and keeps the others.
LEMMA TailInjective ==
  ASSUME NEW S, NEW q \in Seq(S), IsInjective(q), q # <<>>
  PROVE  /\ Head(q) \in ToSet(q) /\ Head(q) \in S
         /\ Tail(q) \in Seq(S)
         /\ IsInjective(Tail(q))
         /\ ToSet(Tail(q)) = ToSet(q) \ {Head(q)}
<1> DEFINE r == Tail(q)
<1>1. /\ Head(q) = q[1] /\ r \in Seq(S) /\ Len(r) = Len(q) - 1
      /\ \A i \in 1 .. Len(r) : r[i] = q[i + 1]
  BY HeadTailProperties
<1>2. Len(q) \in Nat \ {0} /\ DOMAIN q = 1 .. Len(q) /\ \A k \in 1 .. Len(q) : q[k] \in S
  BY LenProperties, EmptySeq, ElementOfSeq
<1> HIDE DEF r
<1>3. DOMAIN r = 1 .. Len(q) - 1
  BY <1>1, LenProperties
<1>4. 1 \in 1 .. Len(q)
  BY <1>2
<1>5. \A j \in 1 .. Len(q) - 1 : j + 1 \in 1 .. Len(q) /\ j + 1 # 1
  BY <1>2
<1>6. \A j, k \in 1 .. Len(q) - 1 : j + 1 = k + 1 => j = k
  BY <1>2
<1>7. Head(q) \in ToSet(q) /\ Head(q) \in S
  BY <1>1, <1>2, <1>4 DEF ToSet
<1>8. IsInjective(r)
  BY <1>1, <1>2, <1>3, <1>5, <1>6 DEF IsInjective
<1>9. ToSet(r) = ToSet(q) \ {Head(q)}
  <2>1. ASSUME NEW x \in ToSet(r) PROVE x \in ToSet(q) \ {Head(q)}
    BY <1>1, <1>2, <1>3, <1>4, <1>5 DEF ToSet, IsInjective
  <2>2. ASSUME NEW x \in ToSet(q) \ {Head(q)} PROVE x \in ToSet(r)
    <3>1. PICK k \in 1 .. Len(q) : q[k] = x
      BY <1>2 DEF ToSet
    <3>2. k - 1 \in 1 .. Len(q) - 1 /\ (k - 1) + 1 = k
      BY <1>1, <1>2, <3>1
    <3> QED BY <1>1, <1>3, <3>1, <3>2 DEF ToSet
  <2> QED BY <2>1, <2>2
<1> QED BY <1>1, <1>7, <1>8, <1>9 DEF r

----------------------------------------------------------------------------
(* Functions made by recursion on a natural number.                        *)

\* What holds of 0, and of n + 1 when it does of n, holds of every number.
LEMMA Induction ==
  ASSUME NEW S, 0 \in S, \A n \in Nat : n \in S => n + 1 \in S
  PROVE  Nat \subseteq S
<1> SUFFICES ASSUME Nat \ S # {} PROVE FALSE
  OBVIOUS
<1>1. PICK i \in Nat \ S : \A j \in Nat \ S : i <= j
  BY FirstPlace
<1>2. i # 0 /\ i - 1 \in Nat /\ i - 1 \in S
  BY <1>1
<1> QED BY <1>1, <1>2

\* The functions on 0 .. n that start with a and go on as F says.
Starts(A, a, F, n) ==
  {g \in [0 .. n -> A] : g[0] = a /\ \A i \in 0 .. n - 1 : g[i + 1] = F[i][g[i]]}

\* F takes the elements of A, at every number, to elements of A.
StepsIn(A, F) == F \in [Nat -> [A -> A]]

\* f starts with a and goes on as F says.
Follows(f, A, a, F) ==
  f \in [Nat -> A] /\ f[0] = a /\ \A n \in Nat : f[n + 1] = F[n][f[n]]

\* The function that starts with a and goes on as F says exists.
LEMMA Recursion ==
  ASSUME NEW A, NEW a \in A, NEW F, StepsIn(A, F)
  PROVE  \E f : Follows(f, A, a, F)
<1> USE DEF StepsIn, Follows
<1> DEFINE G(n) == Starts(A, a, F, n)
           S == {n \in Nat : G(n) # {}}
           U == {i \in Nat : \A n, m \in Nat : i <= n /\ i <= m =>
                               \A g \in G(n), h \in G(m) : g[i] = h[i]}
<1>1. \A n \in Nat : \A g : g \in G(n) <=>
         /\ g \in [0 .. n -> A]
         /\ g[0] = a
         /\ \A i \in 0 .. n - 1 : g[i + 1] = F[i][g[i]]
  BY DEF Starts
<1> HIDE DEF G
<1>2. Nat \subseteq S
  <2>1. 0 \in S
    <3> DEFINE h == [i \in 0 .. 0 |-> a]
    <3>1. h \in [0 .. 0 -> A] /\ h[0] = a
      OBVIOUS
    <3> HIDE DEF h
    <3>2. \A i \in 0 .. 0 - 1 : h[i + 1] = F[i][h[i]]
      OBVIOUS
    <3>3. 0 \in Nat
      OBVIOUS
    <3>4. h \in G(0)
      BY <3>1, <3>2, <3>3, <1>1, Zenon
    <3> QED BY <3>4
  <2>2. ASSUME NEW n \in Nat, n \in S PROVE n + 1 \in S
    <3>1. PICK g : g \in G(n)
      BY <2>2
    <3> DEFINE h == [i \in 0 .. n + 1 |-> IF i = n + 1 THEN F[n][g[n]] ELSE g[i]]
    <3>2. n \in 0 .. n /\ g[n] \in A /\ F[n][g[n]] \in A /\ g \in [0 .. n -> A]
      BY <3>1, <1>1
    <3>3. h \in [0 .. n + 1 -> A] /\ h[0] = a
      BY <3>1, <3>2, <1>1
    <3>4. ASSUME NEW i \in 0 .. (n + 1) - 1 PROVE h[i + 1] = F[i][h[i]]
      <4>1. CASE i = n
        BY <4>1
      <4>2. CASE i # n
        <5>1. i \in 0 .. n - 1 /\ h[i + 1] = g[i + 1] /\ h[i] = g[i]
          BY <4>2
        <5> QED BY <3>1, <5>1, <1>1
      <4> QED BY <4>1, <4>2
    <3> HIDE DEF h
    <3>5. h \in G(n + 1)
      BY <3>3, <3>4, <1>1
    <3> QED BY <3>5
  <2> HIDE DEF S
  <2> QED BY <2>1, <2>2, Induction
<1>3. Nat \subseteq U
  <2>1. 0 \in U
    BY <1>1
  <2>2. ASSUME NEW i \in Nat, i \in U PROVE i + 1 \in U
    <3> SUFFICES ASSUME NEW n \in Nat, NEW m \in Nat, i + 1 <= n, i + 1 <= m,
                        NEW g \in G(n), NEW h \in G(m)
                 PROVE  g[i + 1] = h[i + 1]
      OBVIOUS
    <3>1. i <= n /\ i <= m
      OBVIOUS
    <3>2. g[i] = h[i]
      BY <2>2, <3>1
    <3>3. i \in 0 .. n - 1 /\ i \in 0 .. m - 1
      OBVIOUS
    <3> QED BY <3>2, <3>3, <1>1
  <2> HIDE DEF U
  <2> QED BY <2>1, <2>2, Induction
<1> DEFINE g(n) == CHOOSE x : x \in G(n)
           f == [n \in Nat |-> g(n)[n]]
<1>4. \A n \in Nat : g(n) \in G(n)
  BY <1>2
<1> HIDE DEF g
<1>5. f \in [Nat -> A]
  <2>1. ASSUME NEW n \in Nat PROVE g(n)[n] \in A
    <3>1. g(n) \in [0 .. n -> A] /\ n \in 0 .. n
      BY <1>4, <1>1
    <3> QED BY <3>1
  <2> QED BY <2>1
<1>6. f[0] = a
  BY <1>4, <1>1
<1>7. ASSUME NEW n \in Nat PROVE f[n + 1] = F[n][f[n]]
  <2>1. n + 1 \in Nat /\ n \in 0 .. (n + 1) - 1 /\ n <= n /\ n <= n + 1
    OBVIOUS
  <2>2. g(n) \in G(n) /\ g(n + 1) \in G(n + 1)
    BY <1>4, <2>1
  <2>3. g(n + 1)[n + 1] = F[n][g(n + 1)[n]]
    BY <2>1, <2>2, <1>1
  <2>4. g(n + 1)[n] = g(n)[n]
    BY <1>3, <2>1, <2>2
  <2> QED BY <2>1, <2>3, <2>4
<1> HIDE DEF f
<1> QED BY <1>5, <1>6, <1>7

----------------------------------------------------------------------------
(* List comprehensions.                                                    *)

\* The list r has the elements of the first n places of q that are not in
\* drop, in their order: h says where they are in q.
PicksOut(q, drop, n, r, h) ==
  /\ h \in [1 .. Len(r) -> 1 .. n]
  /\ \A i, j \in 1 .. Len(r) : i < j => h[i] < h[j]
  /\ \A i \in 1 .. Len(r) : r[i] = q[h[i]] /\ r[i] \notin drop
  /\ \A k \in 1 .. n : q[k] \notin drop => \E i \in 1 .. Len(r) : h[i] = k

\* One place more.
LEMMA KeepsOneMore ==
  ASSUME NEW S, NEW q \in Seq(S), NEW drop, NEW n \in Nat, n + 1 <= Len(q),
         NEW r \in Seq(S), NEW h, PicksOut(q, drop, n, r, h)
  PROVE  /\ q[n + 1] \in drop => PicksOut(q, drop, n + 1, r, h)
         /\ q[n + 1] \notin drop =>
              \E g : PicksOut(q, drop, n + 1, Append(r, q[n + 1]), g)
<1>1. Len(r) \in Nat /\ Len(q) \in Nat /\ q[n + 1] \in S
  BY LenProperties, ElementOfSeq
<1>2. ASSUME q[n + 1] \in drop PROVE PicksOut(q, drop, n + 1, r, h)
  <2>1. h \in [1 .. Len(r) -> 1 .. n + 1]
    BY <1>1 DEF PicksOut
  <2>2. \A k \in 1 .. n + 1 : q[k] \notin drop => k \in 1 .. n
    BY <1>2
  <2> QED BY <2>1, <2>2 DEF PicksOut
<1>3. ASSUME q[n + 1] \notin drop
      PROVE  \E g : PicksOut(q, drop, n + 1, Append(r, q[n + 1]), g)
  <2> DEFINE L == Len(r)
             s == Append(r, q[n + 1])
             g == [i \in 1 .. L + 1 |-> IF i = L + 1 THEN n + 1 ELSE h[i]]
  <2>1. Len(s) = L + 1 /\ s[L + 1] = q[n + 1] /\ \A i \in 1 .. L : s[i] = r[i]
    BY <1>1, AppendProperties
  <2>2. \A i \in 1 .. L : h[i] \in 1 .. n
    BY DEF PicksOut
  <2> HIDE DEF s
  <2>3. g \in [1 .. Len(s) -> 1 .. n + 1]
    BY <1>1, <2>1, <2>2
  <2>4. /\ g[L + 1] = n + 1
        /\ \A i \in 1 .. L : g[i] = h[i]
        /\ \A i \in 1 .. L + 1 : i \in 1 .. L \/ i = L + 1
    BY <1>1
  <2> HIDE DEF g
  <2>5. ASSUME NEW i \in 1 .. Len(s), NEW j \in 1 .. Len(s), i < j
        PROVE  g[i] < g[j]
    <3>1. i \in 1 .. L
      BY <1>1, <2>1, <2>5
    <3>2. CASE j = L + 1
      BY <2>2, <2>4, <3>1, <3>2
    <3>3. CASE j \in 1 .. L
      BY <2>4, <2>5, <3>1, <3>3 DEF PicksOut
    <3> QED BY <2>1, <2>4, <3>2, <3>3
  <2>6. \A i \in 1 .. Len(s) : s[i] = q[g[i]] /\ s[i] \notin drop
    BY <1>3, <2>1, <2>4 DEF PicksOut
  <2>7. ASSUME NEW k \in 1 .. n + 1, q[k] \notin drop PROVE \E i \in 1 .. Len(s) : g[i] = k
    <3>1. CASE k = n + 1
      BY <1>1, <2>1, <2>4, <3>1
    <3>2. CASE k # n + 1
      <4>1. k \in 1 .. n
        BY <3>2
      <4>2. PICK i \in 1 .. L : h[i] = k
        BY <2>7, <4>1 DEF PicksOut
      <4>3. i \in 1 .. Len(s)
        BY <1>1, <2>1
      <4> QED BY <2>4, <4>2, <4>3
    <3> QED BY <3>1, <3>2
  <2>8. PicksOut(q, drop, n + 1, s, g)
    BY <2>3, <2>5, <2>6, <2>7 DEF PicksOut
  <2> QED BY <2>8 DEF s
<1> QED BY <1>2, <1>3

\* The comprehension is a list, of the elements that are not dropped.
LEMMA WithoutKeeps ==
  ASSUME NEW S, NEW q \in Seq(S), NEW drop
  PROVE  /\ Without(q, drop) \in Seq(S)
         /\ \E h : PicksOut(q, drop, Len(q), Without(q, drop), h)
<1> DEFINE L == Len(q)
           A == Seq(S)
           More(n, x) == IF n + 1 \in 1 .. L /\ q[n + 1] \notin drop
                         THEN Append(x, q[n + 1]) ELSE x
           F == [n \in Nat |-> [x \in A |-> More(n, x)]]
           Body(g) == [n \in 0 .. L |->
                         IF n = 0 THEN <<>>
                         ELSE IF q[n] \in drop THEN g[n - 1] ELSE Append(g[n - 1], q[n])]
           kept == CHOOSE g : g = Body(g)
<1>1. L \in Nat /\ \A n \in 1 .. L : q[n] \in S
  BY LenProperties, ElementOfSeq
<1>2. <<>> \in A
  BY EmptySeq
<1>3. Without(q, drop) = kept[L]
  BY DEF Without
<1>4. \A n \in Nat, x \in A : More(n, x) \in A
  BY <1>1, AppendProperties
<1>5. StepsIn(A, F) /\ \A n \in Nat, x \in A : F[n][x] = More(n, x)
  <2> HIDE DEF More, A
  <2> QED BY <1>4 DEF StepsIn
<1> HIDE DEF F, A
<1>6. \E f : Follows(f, A, <<>>, F)
  BY <1>2, <1>5, Recursion
<1>7. PICK f \in [Nat -> A] : f[0] = <<>> /\ \A n \in Nat : f[n + 1] = More(n, f[n])
  <2>1. PICK f \in [Nat -> A] : f[0] = <<>> /\ \A n \in Nat : f[n + 1] = F[n][f[n]]
    BY <1>6 DEF Follows
  <2> HIDE DEF More
  <2>2. \A n \in Nat : f[n + 1] = More(n, f[n])
    BY <1>5, <2>1
  <2> QED BY <2>1, <2>2
<1> DEFINE g == [n \in 0 .. L |-> f[n]]
<1>8. g = Body(g)
  <2>1. ASSUME NEW n \in 0 .. L PROVE g[n] = Body(g)[n]
    <3>1. CASE n = 0
      BY <1>7, <3>1
    <3>2. CASE n # 0
      <4>1. n - 1 \in Nat /\ n - 1 \in 0 .. L /\ (n - 1) + 1 = n /\ n \in 1 .. L
        BY <1>1, <3>2
      <4>2. f[n] = More(n - 1, f[n - 1]) /\ g[n - 1] = f[n - 1]
        BY <1>7, <4>1
      <4> QED BY <3>2, <4>1, <4>2
    <3> QED BY <3>1, <3>2
  <2> QED BY <2>1
<1> HIDE DEF g, Body
<1>9. kept = Body(kept)
  BY <1>8, Zenon
<1> HIDE DEF kept
<1>10. /\ kept[0] = <<>>
       /\ \A n \in Nat : n + 1 <= L => kept[n + 1] = More(n, kept[n])
  <2>1. kept[0] = <<>>
    BY <1>1, <1>9 DEF Body
  <2>2. ASSUME NEW n \in Nat, n + 1 <= L PROVE kept[n + 1] = More(n, kept[n])
    <3>1. n + 1 \in 0 .. L /\ n + 1 # 0 /\ (n + 1) - 1 = n /\ n + 1 \in 1 .. L
      BY <1>1, <2>2
    <3>2. kept[n + 1] = Body(kept)[n + 1]
      BY <1>9
    <3> QED BY <3>1, <3>2 DEF Body
  <2> QED BY <2>1, <2>2
<1> DEFINE T == {n \in Nat : n <= L =>
                   kept[n] \in Seq(S) /\ \E h : PicksOut(q, drop, n, kept[n], h)}
<1>11. Nat \subseteq T
  <2>1. 0 \in T
    <3>1. kept[0] \in Seq(S) /\ Len(kept[0]) = 0
      BY <1>10, EmptySeq
    <3> DEFINE h == [i \in 1 .. 0 |-> i]
    <3>2. PicksOut(q, drop, 0, kept[0], h)
      BY <3>1 DEF PicksOut
    <3> QED BY <3>1, <3>2
  <2>2. ASSUME NEW n \in Nat, n \in T PROVE n + 1 \in T
    <3> SUFFICES ASSUME n + 1 <= L
                 PROVE  kept[n + 1] \in Seq(S) /\ \E h : PicksOut(q, drop, n + 1, kept[n + 1], h)
      OBVIOUS
    <3>1. n <= L /\ n + 1 \in 1 .. L
      BY <1>1
    <3>2. kept[n] \in Seq(S)
      BY <2>2, <3>1
    <3>3. PICK h : PicksOut(q, drop, n, kept[n], h)
      BY <2>2, <3>1
    <3>4. CASE q[n + 1] \in drop
      <4>1. kept[n + 1] = kept[n]
        BY <1>10, <3>4
      <4>2. PicksOut(q, drop, n + 1, kept[n], h)
        BY <3>2, <3>3, <3>4, KeepsOneMore
      <4> QED BY <3>2, <4>1, <4>2
    <3>5. CASE q[n + 1] \notin drop
      <4>1. kept[n + 1] = Append(kept[n], q[n + 1])
        BY <1>10, <3>1, <3>5
      <4>2. \E x : PicksOut(q, drop, n + 1, Append(kept[n], q[n + 1]), x)
        BY <3>2, <3>3, <3>5, KeepsOneMore
      <4>3. Append(kept[n], q[n + 1]) \in Seq(S)
        BY <1>1, <3>1, <3>2, AppendProperties
      <4> QED BY <4>1, <4>2, <4>3
    <3> QED BY <3>4, <3>5
  <2> HIDE DEF T
  <2> QED BY <2>1, <2>2, Induction
<1> QED BY <1>1, <1>3, <1>11

\* The comprehension has the elements that are not dropped.
LEMMA WithoutElements ==
  ASSUME NEW S, NEW q \in Seq(S), NEW drop
  PROVE  ToSet(Without(q, drop)) = ToSet(q) \ drop
<1> DEFINE r == Without(q, drop)
<1>1. r \in Seq(S)
  BY WithoutKeeps
<1>2. PICK h : PicksOut(q, drop, Len(q), r, h)
  BY WithoutKeeps
<1> HIDE DEF r
<1>3. DOMAIN r = 1 .. Len(r) /\ DOMAIN q = 1 .. Len(q)
  BY <1>1, LenProperties
<1>4. ASSUME NEW i \in DOMAIN r PROVE r[i] \in ToSet(q) \ drop
  BY <1>2, <1>3 DEF PicksOut, ToSet
<1>5. ASSUME NEW k \in DOMAIN q, q[k] \notin drop PROVE q[k] \in ToSet(r)
  <2>1. PICK i \in 1 .. Len(r) : h[i] = k
    BY <1>2, <1>3, <1>5 DEF PicksOut
  <2>2. r[i] = q[k]
    BY <1>2, <2>1 DEF PicksOut
  <2> QED BY <1>3, <2>1, <2>2 DEF ToSet
<1>6. ToSet(r) = ToSet(q) \ drop
  BY <1>4, <1>5 DEF ToSet
<1> QED BY <1>6 DEF r
=============================================================================
