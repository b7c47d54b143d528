---------------------------- MODULE TelnetProofs ----------------------------
(***************************************************************************)
(* The Telnet codec for every client, every stream and every way in which  *)
(* TCP cuts it.                                                            *)
(***************************************************************************)
EXTENDS Telnet, SequenceTheorems, WellFoundedInduction, TLAPS

(* ------------------------------ induction ------------------------------ *)

Less == {p \in Nat \X Nat : p[1] < p[2]}

LEMMA LessIsWellFounded == IsWellFoundedOn(Less, Nat)
BY NatLessThanWellFounded DEF OpToRel, Less

(* Induction over the natural numbers, of a set of them.                   *)
LEMMA Induction ==
  ASSUME NEW T, 0 \in T, \A n \in Nat : n \in T => n + 1 \in T
  PROVE  \A n \in Nat : n \in T
<1> DEFINE Rest == Nat \ T
<1>1. SUFFICES ASSUME Rest # {} PROVE FALSE
  OBVIOUS
<1>2. PICK x \in Rest : \A y \in Rest : ~(<<y, x>> \in Less)
  BY <1>1, WFMin, LessIsWellFounded, Zenon
<1>3. x \in Nat /\ x # 0
  OBVIOUS
<1>4. x - 1 \in Nat /\ x - 1 < x
  BY <1>3
<1>5. x - 1 \in T
  <2> SUFFICES ASSUME x - 1 \notin T PROVE FALSE
    OBVIOUS
  <2>1. x - 1 \in Rest
    BY <1>4
  <2>2. <<x - 1, x>> \in Less
    BY <1>3, <1>4 DEF Less
  <2> QED
    BY <1>2, <2>1, <2>2
<1> QED
  BY <1>3, <1>4, <1>5

(* ------------------------- sequences of sequences ---------------------- *)

(* f joins the first elements of ss, as FlattenSeq does.                   *)
Joins(f, ss, n) == f[1] = ss[1] /\ \A i \in 2 .. n : f[i] = f[i - 1] \o ss[i]

LEMMA JoinedOnce ==
  ASSUME NEW f, NEW g, NEW ss, NEW n \in Nat, Joins(f, ss, n), Joins(g, ss, n)
  PROVE  \A i \in 1 .. n : f[i] = g[i]
<1> DEFINE T == {i \in Nat : i + 1 <= n => f[i + 1] = g[i + 1]}
<1>1. 0 \in T
  BY DEF Joins
<1>2. ASSUME NEW i \in Nat, i \in T PROVE i + 1 \in T
  <2> SUFFICES ASSUME i + 2 <= n PROVE f[i + 2] = g[i + 2]
    OBVIOUS
  <2>1. f[i + 1] = g[i + 1] /\ i + 2 \in 2 .. n /\ (i + 2) - 1 = i + 1
    BY <1>2
  <2> QED
    BY <2>1 DEF Joins
<1>3. \A i \in Nat : i \in T
  <2> HIDE DEF T
  <2> QED
    BY <1>1, <1>2, Induction
<1> SUFFICES ASSUME NEW i \in 1 .. n PROVE f[i] = g[i]
  OBVIOUS
<1>4. i - 1 \in T
  BY <1>3
<1> QED
  BY <1>4

LEMMA JoinExists ==
  ASSUME NEW S, NEW ss \in Seq(Seq(S)), ss # <<>>
  PROVE  \E f \in [1 .. Len(ss) -> Seq(S)] : Joins(f, ss, Len(ss))
<1> DEFINE T == {n \in Nat : n + 1 <= Len(ss) =>
                   \E f \in [1 .. n + 1 -> Seq(S)] : Joins(f, ss, n + 1)}
<1>1. 0 \in T
  <2>1. [i \in 1 .. 1 |-> ss[1]] \in [1 .. 1 -> Seq(S)]
    OBVIOUS
  <2>2. Joins([i \in 1 .. 1 |-> ss[1]], ss, 1)
    BY DEF Joins
  <2> QED
    BY <2>1, <2>2
<1>2. ASSUME NEW n \in Nat, n \in T PROVE n + 1 \in T
  <2> SUFFICES ASSUME n + 2 <= Len(ss)
               PROVE  \E f \in [1 .. n + 2 -> Seq(S)] : Joins(f, ss, n + 2)
    BY (n + 1) + 1 = n + 2
  <2>1. PICK f \in [1 .. n + 1 -> Seq(S)] : Joins(f, ss, n + 1)
    BY <1>2
  <2> DEFINE g == [i \in 1 .. n + 2 |-> IF i <= n + 1 THEN f[i] ELSE f[n + 1] \o ss[n + 2]]
  <2>2. f[n + 1] \in Seq(S) /\ ss[n + 2] \in Seq(S)
    OBVIOUS
  <2>3. f[n + 1] \o ss[n + 2] \in Seq(S)
    BY <2>2, ConcatProperties
  <2>4. g \in [1 .. n + 2 -> Seq(S)]
    BY <2>3
  <2>5. Joins(g, ss, n + 2)
    <3>1. g[1] = ss[1]
      BY <2>1 DEF Joins
    <3>2. ASSUME NEW i \in 2 .. n + 2 PROVE g[i] = g[i - 1] \o ss[i]
      <4>1. CASE i <= n + 1
        <5>1. i \in 2 .. n + 1 /\ i - 1 \in 1 .. n + 2 /\ i - 1 <= n + 1
          BY <4>1
        <5>2. g[i] = f[i] /\ g[i - 1] = f[i - 1]
          BY <4>1, <5>1
        <5>3. f[i] = f[i - 1] \o ss[i]
          BY <5>1, <2>1 DEF Joins
        <5> QED
          BY <5>2, <5>3
      <4>2. CASE i = n + 2
        <5>1. /\ i - 1 = n + 1 /\ n + 1 \in 1 .. n + 2 /\ n + 2 \in 1 .. n + 2
              /\ n + 1 <= n + 1 /\ ~(n + 2 <= n + 1)
          BY <4>2
        <5>2. g[n + 1] = f[n + 1] /\ g[n + 2] = f[n + 1] \o ss[n + 2]
          BY <5>1
        <5> QED
          BY <4>2, <5>1, <5>2
      <4>3. i <= n + 1 \/ i = n + 2
        OBVIOUS
      <4> HIDE DEF g
      <4> QED
        BY <4>1, <4>2, <4>3
    <3> QED
      BY <3>1, <3>2 DEF Joins
  <2> QED
    BY <2>4, <2>5
<1>3. \A n \in Nat : n \in T
  <2> HIDE DEF T
  <2> QED
    BY <1>1, <1>2, Induction
<1>4. Len(ss) \in Nat \ {0} /\ Len(ss) - 1 \in Nat /\ (Len(ss) - 1) + 1 = Len(ss)
  BY EmptySeq
<1>5. Len(ss) - 1 \in T
  BY <1>3, <1>4
<1> QED
  BY <1>4, <1>5

LEMMA FlattenJoins ==
  ASSUME NEW S, NEW ss \in Seq(Seq(S)), ss # <<>>
  PROVE  \E f \in [1 .. Len(ss) -> Seq(S)] :
           Joins(f, ss, Len(ss)) /\ FlattenSeq(ss) = f[Len(ss)]
<1> DEFINE n == Len(ss)
           Def(f) == [i \in 1 .. n |-> IF i = 1 THEN ss[i] ELSE f[i - 1] \o ss[i]]
           flatten == CHOOSE f : f = Def(f)
<1>1. n \in Nat \ {0}
  BY EmptySeq
<1>2. PICK f \in [1 .. n -> Seq(S)] : Joins(f, ss, n)
  BY JoinExists
<1>3. f = Def(f)
  <2>1. ASSUME NEW i \in 1 .. n PROVE f[i] = IF i = 1 THEN ss[i] ELSE f[i - 1] \o ss[i]
    <3>1. i = 1 \/ i \in 2 .. n
      OBVIOUS
    <3> QED
      BY <3>1, <1>2 DEF Joins
  <2> QED
    BY <2>1
<1>4. flatten = Def(flatten)
  BY <1>3
<1>5. FlattenSeq(ss) = flatten[n]
  BY <1>1 DEF FlattenSeq
<1>6. Joins(flatten, ss, n)
  <2> HIDE DEF flatten
  <2>1. flatten[1] = ss[1]
    BY <1>1, <1>4
  <2>2. ASSUME NEW i \in 2 .. n PROVE flatten[i] = flatten[i - 1] \o ss[i]
    <3>1. i \in 1 .. n /\ i # 1
      OBVIOUS
    <3> QED
      BY <3>1, <1>4
  <2> QED
    BY <2>1, <2>2 DEF Joins
<1>7. flatten[n] = f[n]
  <2> HIDE DEF flatten
  <2> QED
    BY <1>1, <1>2, <1>6, JoinedOnce
<1> QED
  BY <1>2, <1>5, <1>7

LEMMA FlattenEmpty == FlattenSeq(<<>>) = <<>>
BY DEF FlattenSeq

LEMMA FlattenType ==
  ASSUME NEW S, NEW ss \in Seq(Seq(S))
  PROVE  FlattenSeq(ss) \in Seq(S)
<1>1. CASE ss = <<>>
  BY <1>1, FlattenEmpty, EmptySeq
<1>2. CASE ss # <<>>
  <2>1. Len(ss) \in 1 .. Len(ss)
    BY <1>2, EmptySeq
  <2>2. PICK f \in [1 .. Len(ss) -> Seq(S)] : FlattenSeq(ss) = f[Len(ss)]
    BY <1>2, FlattenJoins
  <2> QED
    BY <2>1, <2>2
<1> QED
  BY <1>1, <1>2

LEMMA FlattenAppend ==
  ASSUME NEW S, NEW ss \in Seq(Seq(S)), NEW t \in Seq(S)
  PROVE  FlattenSeq(Append(ss, t)) = FlattenSeq(ss) \o t
<1> DEFINE n == Len(ss)
           more == Append(ss, t)
<1>1. /\ more \in Seq(Seq(S)) /\ more # <<>> /\ Len(more) = n + 1 /\ n \in Nat
      /\ more[n + 1] = t /\ \A i \in 1 .. n : more[i] = ss[i]
  BY AppendProperties
<1> HIDE DEF more
<1>2. PICK g \in [1 .. n + 1 -> Seq(S)] : Joins(g, more, n + 1) /\ FlattenSeq(more) = g[n + 1]
  BY <1>1, FlattenJoins
<1>3. CASE ss = <<>>
  <2>1. n = 0
    BY <1>3
  <2>2. g[1] = t
    BY <1>1, <1>2, <2>1 DEF Joins
  <2> QED
    BY <1>2, <1>3, <2>1, <2>2, FlattenEmpty, ConcatEmptySeq DEF more
<1>4. CASE ss # <<>>
  <2>1. PICK f \in [1 .. n -> Seq(S)] : Joins(f, ss, n) /\ FlattenSeq(ss) = f[n]
    BY <1>4, FlattenJoins
  <2>2. n >= 1
    BY <1>4, EmptySeq
  <2>3. Joins(g, ss, n)
    <3>1. g[1] = ss[1]
      BY <1>1, <1>2, <2>2 DEF Joins
    <3>2. ASSUME NEW i \in 2 .. n PROVE g[i] = g[i - 1] \o ss[i]
      <4>1. i \in 2 .. n + 1 /\ more[i] = ss[i]
        BY <1>1
      <4> QED
        BY <1>2, <4>1 DEF Joins
    <3> QED
      BY <3>1, <3>2 DEF Joins
  <2>4. g[n] = f[n]
    <3>1. n \in Nat /\ n \in 1 .. n
      BY <1>1, <2>2
    <3>2. \A i \in 1 .. n : g[i] = f[i]
      BY <2>1, <2>3, <3>1, JoinedOnce
    <3> QED
      BY <3>1, <3>2
  <2>5. g[n + 1] = g[n] \o t
    <3>1. n + 1 \in 2 .. n + 1 /\ (n + 1) - 1 = n
      BY <1>1, <2>2
    <3> QED
      BY <1>1, <1>2, <3>1 DEF Joins
  <2> QED
    BY <1>2, <2>1, <2>4, <2>5 DEF more
<1> QED
  BY <1>3, <1>4

(* Induction over sequences, of a set of them.                             *)
LEMMA SeqInduction ==
  ASSUME NEW S, NEW T, <<>> \in T, \A s \in Seq(S), e \in S : s \in T => Append(s, e) \in T
  PROVE  \A s \in Seq(S) : s \in T
<1> DEFINE N == {n \in Nat : \A s \in Seq(S) : Len(s) = n => s \in T}
<1>1. 0 \in N
  BY EmptySeq
<1>2. ASSUME NEW n \in Nat, n \in N PROVE n + 1 \in N
  <2> SUFFICES ASSUME NEW s \in Seq(S), Len(s) = n + 1 PROVE s \in T
    OBVIOUS
  <2>1. s # <<>>
    BY EmptySeq
  <2>2. PICK r \in Seq(S), e \in S : s = Append(r, e)
    BY <2>1, SequenceEmptyOrAppend
  <2>3. Len(r) = n
    BY <2>2, AppendProperties, LenProperties
  <2> QED
    BY <1>2, <2>2, <2>3
<1>3. \A n \in Nat : n \in N
  <2> HIDE DEF N
  <2> QED
    BY <1>1, <1>2, Induction
<1> SUFFICES ASSUME NEW s \in Seq(S) PROVE s \in T
  OBVIOUS
<1>4. Len(s) \in N
  BY <1>3, LenProperties
<1> QED
  BY <1>4

(* What a function makes of a sequence, element by element, and joined.    *)
Functions(X, Y) == [X -> Y]
Mapped(F, s) == [i \in DOMAIN s |-> F[s[i]]]
Joined(F, s) == FlattenSeq(Mapped(F, s))

LEMMA MappedType ==
  ASSUME NEW X, NEW Y, NEW F \in Functions(X, Y), NEW s \in Seq(X)
  PROVE  /\ Mapped(F, s) \in Seq(Y) /\ Len(Mapped(F, s)) = Len(s)
         /\ \A i \in 1 .. Len(s) : Mapped(F, s)[i] = F[s[i]]
<1>1. DOMAIN s = 1 .. Len(s) /\ Len(s) \in Nat /\ s \in [1 .. Len(s) -> X]
  BY LenProperties
<1> QED
  BY <1>1 DEF Mapped, Functions

LEMMA MappedAppend ==
  ASSUME NEW X, NEW Y, NEW F \in Functions(X, Y), NEW s \in Seq(X), NEW x \in X
  PROVE  Mapped(F, Append(s, x)) = Append(Mapped(F, s), F[x])
<1> DEFINE t == Append(s, x)
           a == Mapped(F, t)
           b == Append(Mapped(F, s), F[x])
<1>1. /\ t \in Seq(X) /\ Len(t) = Len(s) + 1 /\ Len(s) \in Nat
      /\ \A i \in 1 .. Len(s) : t[i] = s[i]
      /\ t[Len(s) + 1] = x
  BY AppendProperties, LenProperties
<1>2. a \in Seq(Y) /\ Len(a) = Len(s) + 1 /\ \A i \in 1 .. Len(s) + 1 : a[i] = F[t[i]]
  <2> HIDE DEF t
  <2>1. /\ Mapped(F, t) \in Seq(Y) /\ Len(Mapped(F, t)) = Len(t)
        /\ \A i \in 1 .. Len(t) : Mapped(F, t)[i] = F[t[i]]
    BY <1>1, MappedType
  <2> QED
    BY <1>1, <2>1
<1>3. /\ b \in Seq(Y) /\ Len(b) = Len(s) + 1
      /\ \A i \in 1 .. Len(s) : b[i] = F[s[i]]
      /\ b[Len(s) + 1] = F[x]
  <2>1. /\ Mapped(F, s) \in Seq(Y) /\ Len(Mapped(F, s)) = Len(s)
        /\ \A i \in 1 .. Len(s) : Mapped(F, s)[i] = F[s[i]]
    BY MappedType
  <2>2. F[x] \in Y
    BY DEF Functions
  <2> QED
    BY <2>1, <2>2, AppendProperties
<1> HIDE DEF t, a, b
<1>4. \A i \in 1 .. Len(a) : a[i] = b[i]
  BY <1>1, <1>2, <1>3
<1>5. a = b
  BY <1>2, <1>3, <1>4, SeqEqual
<1> QED
  BY <1>5 DEF a, b, t

LEMMA MappedOne ==
  ASSUME NEW X, NEW Y, NEW F \in Functions(X, Y), NEW x \in X
  PROVE  Mapped(F, <<x>>) = <<F[x]>>
BY DEF Mapped

LEMMA MappedConcat ==
  ASSUME NEW X, NEW Y, NEW F \in Functions(X, Y), NEW s \in Seq(X), NEW t \in Seq(X)
  PROVE  Mapped(F, s \o t) = Mapped(F, s) \o Mapped(F, t)
<1> DEFINE a == Mapped(F, s \o t)
           b == Mapped(F, s) \o Mapped(F, t)
<1>1. /\ s \o t \in Seq(X) /\ Len(s \o t) = Len(s) + Len(t)
      /\ Len(s) \in Nat /\ Len(t) \in Nat
      /\ \A i \in 1 .. Len(s) + Len(t) :
           (s \o t)[i] = IF i <= Len(s) THEN s[i] ELSE t[i - Len(s)]
  BY ConcatProperties, LenProperties
<1>2. a \in Seq(Y) /\ Len(a) = Len(s) + Len(t) /\ \A i \in 1 .. Len(s) + Len(t) : a[i] = F[(s \o t)[i]]
  <2> DEFINE u == s \o t
  <2> HIDE DEF u
  <2>1. u \in Seq(X)
    BY <1>1 DEF u
  <2>2. /\ Mapped(F, u) \in Seq(Y) /\ Len(Mapped(F, u)) = Len(u)
        /\ \A i \in 1 .. Len(u) : Mapped(F, u)[i] = F[u[i]]
    BY <2>1, MappedType
  <2> QED
    BY <1>1, <2>2 DEF u
<1>3. /\ Mapped(F, s) \in Seq(Y) /\ Len(Mapped(F, s)) = Len(s)
      /\ \A i \in 1 .. Len(s) : Mapped(F, s)[i] = F[s[i]]
      /\ Mapped(F, t) \in Seq(Y) /\ Len(Mapped(F, t)) = Len(t)
      /\ \A i \in 1 .. Len(t) : Mapped(F, t)[i] = F[t[i]]
  BY MappedType
<1>4. /\ b \in Seq(Y) /\ Len(b) = Len(s) + Len(t)
      /\ \A i \in 1 .. Len(s) + Len(t) :
           b[i] = IF i <= Len(s) THEN Mapped(F, s)[i] ELSE Mapped(F, t)[i - Len(s)]
  <2> DEFINE p == Mapped(F, s)
             q == Mapped(F, t)
             m == Len(s)
             n == Len(t)
  <2>1. p \in Seq(Y) /\ Len(p) = m /\ q \in Seq(Y) /\ Len(q) = n
    BY <1>3
  <2> HIDE DEF p, q, m, n
  <2>2. /\ p \o q \in Seq(Y) /\ Len(p \o q) = m + n
        /\ \A i \in 1 .. m + n : (p \o q)[i] = IF i <= m THEN p[i] ELSE q[i - m]
    BY ONLY <2>1, ConcatProperties
  <2> QED
    BY <2>2 DEF p, q, m, n
<1> HIDE DEF a, b
<1>5. ASSUME NEW i \in 1 .. Len(s) + Len(t) PROVE a[i] = b[i]
  <2>1. a[i] = F[(s \o t)[i]]
    BY <1>2
  <2>2. CASE i <= Len(s)
    <3>1. i \in 1 .. Len(s) /\ (s \o t)[i] = s[i] /\ b[i] = Mapped(F, s)[i]
      BY <1>1, <1>4, <2>2
    <3> QED
      BY <1>3, <2>1, <3>1
  <2>3. CASE i > Len(s)
    <3>1. /\ i - Len(s) \in 1 .. Len(t) /\ (s \o t)[i] = t[i - Len(s)]
          /\ b[i] = Mapped(F, t)[i - Len(s)]
      BY <1>1, <1>4, <2>3
    <3> QED
      BY <1>3, <2>1, <3>1
  <2> QED
    BY <1>1, <2>2, <2>3
<1>6. a = b
  BY <1>2, <1>4, <1>5, SeqEqual
<1> QED
  BY <1>6 DEF a, b

LEMMA JoinedType ==
  ASSUME NEW X, NEW S, NEW F \in Functions(X, Seq(S)), NEW s \in Seq(X)
  PROVE  Joined(F, s) \in Seq(S)
<1>1. Mapped(F, s) \in Seq(Seq(S))
  BY MappedType
<1> QED
  BY <1>1, FlattenType DEF Joined

LEMMA JoinedEmpty == ASSUME NEW F PROVE Joined(F, <<>>) = <<>>
<1>1. Mapped(F, <<>>) = <<>>
  BY DEF Mapped
<1> QED
  BY <1>1, FlattenEmpty DEF Joined

LEMMA JoinedAppend ==
  ASSUME NEW X, NEW S, NEW F \in Functions(X, Seq(S)), NEW s \in Seq(X), NEW x \in X
  PROVE  Joined(F, Append(s, x)) = Joined(F, s) \o F[x]
<1>1. Mapped(F, s) \in Seq(Seq(S)) /\ Mapped(F, Append(s, x)) = Append(Mapped(F, s), F[x])
  BY MappedType, MappedAppend
<1>2. F[x] \in Seq(S)
  BY DEF Functions
<1> QED
  BY <1>1, <1>2, FlattenAppend DEF Joined

LEMMA JoinedOne ==
  ASSUME NEW X, NEW S, NEW F \in Functions(X, Seq(S)), NEW x \in X
  PROVE  Joined(F, <<x>>) = F[x]
<1>1. <<x>> = Append(<<>>, x) /\ <<>> \in Seq(X) /\ F[x] \in Seq(S)
  BY EmptySeq DEF Functions
<1>2. Joined(F, <<x>>) = <<>> \o F[x]
  BY <1>1, JoinedAppend, JoinedEmpty
<1> QED
  BY <1>1, <1>2, ConcatEmptySeq

(* Concatenation without what the provers know of sequences.               *)
Cat(s, t) == s \o t

LEMMA CatRegroups ==
  ASSUME NEW S, NEW s \in Seq(S), NEW t \in Seq(S), NEW u \in Seq(S)
  PROVE  Cat(Cat(s, t), u) = Cat(s, Cat(t, u))
BY ConcatAssociative DEF Cat

LEMMA JoinedConcat ==
  ASSUME NEW X, NEW S, NEW F \in Functions(X, Seq(S)), NEW s \in Seq(X), NEW t \in Seq(X)
  PROVE  Joined(F, s \o t) = Joined(F, s) \o Joined(F, t)
<1> DEFINE T == {r \in Seq(X) : Joined(F, s \o r) = Joined(F, s) \o Joined(F, r)}
<1>1. <<>> \in T
  <2>1. <<>> \in Seq(X) /\ s \o <<>> = s /\ Joined(F, s) \in Seq(S)
    BY EmptySeq, ConcatEmptySeq, JoinedType
  <2> QED
    BY <2>1, JoinedEmpty, ConcatEmptySeq
<1>2. ASSUME NEW r \in Seq(X), NEW x \in X, r \in T PROVE Append(r, x) \in T
  <2>1. s \o r \in Seq(X) /\ F[x] \in Seq(S) /\ Append(r, x) \in Seq(X) /\ <<x>> \in Seq(X)
    BY ConcatProperties, AppendProperties DEF Functions
  <2>2. s \o Append(r, x) = Append(s \o r, x)
    <3>1. Append(r, x) = r \o <<x>> /\ Append(s \o r, x) = (s \o r) \o <<x>>
      BY <2>1, AppendIsConcat
    <3> QED
      BY <2>1, <3>1, ConcatAssociative
  <2>3. Joined(F, s \o r) = Joined(F, s) \o Joined(F, r)
    BY <1>2
  <2>4. /\ Joined(F, Append(s \o r, x)) = Joined(F, s \o r) \o F[x]
        /\ Joined(F, Append(r, x)) = Joined(F, r) \o F[x]
    BY <2>1, JoinedAppend
  <2>5. Joined(F, s) \in Seq(S) /\ Joined(F, r) \in Seq(S)
    BY JoinedType
  <2>6. (Joined(F, s) \o Joined(F, r)) \o F[x] = Joined(F, s) \o (Joined(F, r) \o F[x])
    <3>1. Joined(F, s) \in Seq(S) /\ Joined(F, r) \in Seq(S) /\ F[x] \in Seq(S)
      BY ONLY <2>1, <2>5
    <3>2. Cat(Cat(Joined(F, s), Joined(F, r)), F[x]) = Cat(Joined(F, s), Cat(Joined(F, r), F[x]))
      BY ONLY <3>1, CatRegroups
    <3> QED
      BY ONLY <3>2 DEF Cat
  <2>7. Joined(F, s \o Append(r, x)) = Joined(F, s) \o Joined(F, Append(r, x))
    BY <2>2, <2>3, <2>4, <2>6
  <2> QED
    BY <2>1, <2>7
<1>3. \A r \in Seq(X) : r \in T
  <2> HIDE DEF T
  <2> QED
    BY <1>1, <1>2, SeqInduction
<1> QED
  BY <1>3

(* ------------------------------ sequences ------------------------------ *)

LEMMA Singleton == ASSUME NEW S, NEW x \in S PROVE <<x>> \in Seq(S)
OBVIOUS

LEMMA ConcatIn == ASSUME NEW S PROVE \A s, t \in Seq(S) : s \o t \in Seq(S)
BY ConcatProperties

LEMMA Associative ==
  ASSUME NEW S PROVE \A s, t, u \in Seq(S) : (s \o t) \o u = s \o (t \o u)
BY ConcatAssociative

LEMMA Neutral == ASSUME NEW S PROVE \A s \in Seq(S) : s \o <<>> = s /\ <<>> \o s = s
BY ConcatEmptySeq

LEMMA Cancel ==
  ASSUME NEW S PROVE \A s, t, u \in Seq(S) : s \o t = s \o u => t = u
BY ConcatSimplifications, Zenon

LEMMA SameHead ==
  ASSUME NEW S, NEW a \in S, NEW b \in S, NEW s \in Seq(S), NEW t \in Seq(S),
         <<a>> \o s = <<b>> \o t
  PROVE  a = b /\ s = t
<1>1. <<a>> \in Seq(S) /\ <<b>> \in Seq(S) /\ Len(<<a>>) = 1 /\ Len(<<b>>) = 1
  OBVIOUS
<1>2. (<<a>> \o s)[1] = a /\ (<<b>> \o t)[1] = b
  BY <1>1, ConcatProperties
<1>3. a = b
  BY <1>2
<1>4. <<a>> \o s = <<a>> \o t
  BY <1>3
<1> QED
  BY <1>1, <1>3, <1>4, Cancel

LEMMA HeadAndTail ==
  ASSUME NEW S, NEW s \in Seq(S), s # <<>>
  PROVE  /\ Head(s) \in S /\ Tail(s) \in Seq(S)
         /\ s = <<Head(s)>> \o Tail(s)
<1>1. Head(s) \in S /\ Tail(s) \in Seq(S) /\ Len(Tail(s)) = Len(s) - 1
  BY HeadTailProperties
<1>2. <<Head(s)>> \in Seq(S) /\ Len(<<Head(s)>>) = 1
  BY <1>1
<1> DEFINE t == <<Head(s)>> \o Tail(s)
<1>3. t \in Seq(S) /\ Len(t) = 1 + Len(Tail(s))
  BY <1>1, <1>2, ConcatProperties
<1>4. ASSUME NEW i \in 1 .. Len(s) PROVE t[i] = s[i]
  <2>1. t[i] = IF i <= 1 THEN <<Head(s)>>[i] ELSE Tail(s)[i - 1]
    BY <1>1, <1>2, ConcatProperties
  <2>2. i > 1 => Tail(s)[i - 1] = s[i]
    BY <1>1, HeadTailProperties
  <2> QED
    BY <2>1, <2>2
<1>5. s = t
  <2> HIDE DEF t
  <2>1. Len(s) = Len(t)
    BY <1>1, <1>3
  <2> QED
    BY <1>3, <1>4, <2>1, SeqEqual
<1> QED
  BY <1>1, <1>5

LEMMA EmptyOrMore ==
  ASSUME NEW S, NEW s \in Seq(S)
  PROVE  s = <<>> \/ \E x \in S, t \in Seq(S) : s = <<x>> \o t
BY HeadAndTail

LEMMA NotEmpty ==
  ASSUME NEW S, NEW x \in S, NEW s \in Seq(S)
  PROVE  <<x>> \o s # <<>> /\ s \o <<x>> # <<>>
BY Singleton, ConcatProperties, EmptySeq

LEMMA Pair ==
  ASSUME NEW S, NEW a \in S, NEW b \in S
  PROVE  <<a, b>> = <<a>> \o <<b>>
<1> DEFINE t == <<a>> \o <<b>>
<1>1. <<a>> \in Seq(S) /\ <<b>> \in Seq(S) /\ Len(<<a>>) = 1 /\ Len(<<b>>) = 1
  OBVIOUS
<1>2. t \in Seq(S) /\ Len(t) = 2 /\ t[1] = a /\ t[2] = b
  BY <1>1, ConcatProperties
<1>3. <<a, b>> \in Seq(S) /\ Len(<<a, b>>) = 2 /\ <<a, b>>[1] = a /\ <<a, b>>[2] = b
  OBVIOUS
<1> HIDE DEF t
<1>4. <<a, b>> = t
  BY <1>2, <1>3, SeqEqual
<1> QED
  BY <1>4 DEF t

LEMMA Triple ==
  ASSUME NEW S, NEW a \in S, NEW b \in S, NEW c \in S
  PROVE  <<a, b, c>> = <<a>> \o (<<b>> \o <<c>>)
<1> DEFINE t == <<a>> \o <<b, c>>
<1>1. <<a>> \in Seq(S) /\ <<b, c>> \in Seq(S) /\ Len(<<a>>) = 1 /\ Len(<<b, c>>) = 2
  OBVIOUS
<1>2. t \in Seq(S) /\ Len(t) = 3 /\ t[1] = a /\ t[2] = b /\ t[3] = c
  BY <1>1, ConcatProperties
<1>3. /\ <<a, b, c>> \in Seq(S) /\ Len(<<a, b, c>>) = 3
      /\ <<a, b, c>>[1] = a /\ <<a, b, c>>[2] = b /\ <<a, b, c>>[3] = c
  OBVIOUS
<1> HIDE DEF t
<1>4. <<a, b, c>> = t
  BY <1>2, <1>3, SeqEqual
<1> QED
  BY <1>4, Pair DEF t

LEMMA PrefixOfConcat ==
  ASSUME NEW S, NEW s \in Seq(S), NEW t \in Seq(S)
  PROVE  IsPrefix(s, s \o t)
<1>1. /\ s \o t \in Seq(S) /\ Len(s \o t) = Len(s) + Len(t)
      /\ Len(s) \in Nat /\ Len(t) \in Nat
  BY ConcatProperties, LenProperties
<1>2. SubSeq(s \o t, 1, Len(s)) = s /\ SubSeq(s, 1, Len(s)) = s
  BY SubSeqOfConcat1, SubSeqFull, ConcatProperties, SeqEqual, SubSeqProperties
<1> QED
  BY <1>1, <1>2 DEF IsPrefix
(* ------------------------------- the codec ----------------------------- *)

EscapedByte == [b \in Bytes |-> IF b = IAC THEN <<IAC, IAC>> ELSE <<b>>]
EncodedItem == [x \in Items |-> Encode(x)]
MeantItem   == [x \in Items |-> MeantBy(x)]
MeantOf(s)  == Joined(MeantItem, s)

LEMMA Constants ==
  /\ IAC \in Bytes /\ SB \in Bytes /\ SE \in Bytes /\ 241 \in Bytes /\ ComPort \in Bytes
  /\ Commands \subseteq Bytes /\ IAC \notin Commands /\ SB \notin Commands
  /\ 241 \notin Commands /\ SE # IAC /\ SB # IAC /\ 241 # IAC /\ 241 # SB
BY DEF IAC, SB, SE, Bytes, Commands, WILL, WONT, DO, DONT, ComPort

LEMMA ItemKinds ==
  ASSUME NEW x \in Items
  PROVE  \/ \E b \in Bytes : x = <<"data", b>>
         \/ \E c \in Commands, o \in Bytes : x = <<"neg", c, o>>
         \/ \E body \in Seq(Bytes) : x = <<"sub", body>>
         \/ x = <<"nop">>
BY DEF Items

(* What a stream of bytes is, without the provers looking inside.           *)
Strings == Seq(Bytes)
Talk    == Seq(Items)

LEMMA StringEmpty == <<>> \in Strings
BY EmptySeq DEF Strings

LEMMA StringOne == \A b \in Bytes : <<b>> \in Strings
BY Singleton DEF Strings

LEMMA StringConcat == \A s, t \in Strings : s \o t \in Strings
BY ConcatIn DEF Strings

LEMMA StringAssociative == \A s, t, u \in Strings : (s \o t) \o u = s \o (t \o u)
BY ConcatAssociative DEF Strings

LEMMA CatAssociative == \A s, t, u \in Strings : Cat(Cat(s, t), u) = Cat(s, Cat(t, u))
BY StringAssociative DEF Cat

LEMMA CatType == \A s, t \in Strings : Cat(s, t) \in Strings
BY StringConcat DEF Cat

(* Behind s: a frame of four parts, two of them read at a time.            *)
LEMMA Regrouped ==
  \A s, a, b, c, d, e \in Strings :
    Cat(s, Cat(a, Cat(b, Cat(c, Cat(d, e))))) = Cat(Cat(Cat(s, Cat(a, b)), c), Cat(d, e))
<1> SUFFICES ASSUME NEW s \in Strings, NEW a \in Strings, NEW b \in Strings,
                    NEW c \in Strings, NEW d \in Strings, NEW e \in Strings
             PROVE  Cat(s, Cat(a, Cat(b, Cat(c, Cat(d, e))))) = Cat(Cat(Cat(s, Cat(a, b)), c), Cat(d, e))
  OBVIOUS
<1> DEFINE f == Cat(d, e)
           ab == Cat(a, b)
<1>1. f \in Strings /\ ab \in Strings /\ Cat(c, f) \in Strings /\ Cat(s, ab) \in Strings
  BY CatType
<1> HIDE DEF f
<1>2. Cat(a, Cat(b, Cat(c, f))) = Cat(ab, Cat(c, f))
  BY <1>1, CatAssociative
<1> HIDE DEF ab
<1>3. Cat(Cat(Cat(s, ab), c), f) = Cat(Cat(s, ab), Cat(c, f))
  BY <1>1, CatAssociative
<1>4. Cat(Cat(s, ab), Cat(c, f)) = Cat(s, Cat(ab, Cat(c, f)))
  BY <1>1, CatAssociative
<1> QED
  BY <1>2, <1>3, <1>4 DEF f, ab

(* The head of a frame of which the third byte is the body's first.        *)
LEMMA HeadRegrouped ==
  \A a, b, c, d, e \in Strings :
    Cat(Cat(Cat(a, Cat(b, c)), d), e) = Cat(a, Cat(b, Cat(Cat(c, d), e)))
<1> SUFFICES ASSUME NEW a \in Strings, NEW b \in Strings, NEW c \in Strings,
                    NEW d \in Strings, NEW e \in Strings
             PROVE  Cat(Cat(Cat(a, Cat(b, c)), d), e) = Cat(a, Cat(b, Cat(Cat(c, d), e)))
  OBVIOUS
<1> DEFINE bc == Cat(b, c)
           de == Cat(d, e)
<1>1. bc \in Strings /\ de \in Strings /\ Cat(a, bc) \in Strings
  BY CatType
<1>2. Cat(Cat(c, d), e) = Cat(c, de) /\ Cat(b, Cat(c, de)) = Cat(bc, de)
  BY <1>1, CatAssociative
<1> HIDE DEF bc
<1>3. Cat(Cat(Cat(a, bc), d), e) = Cat(Cat(a, bc), de)
  BY <1>1, CatAssociative
<1> HIDE DEF de
<1>4. Cat(Cat(a, bc), de) = Cat(a, Cat(bc, de))
  BY <1>1, CatAssociative
<1> QED
  BY <1>2, <1>3, <1>4 DEF bc

LEMMA StringNeutral == \A s \in Strings : s \o <<>> = s /\ <<>> \o s = s
BY ConcatEmptySeq DEF Strings

LEMMA StringHead ==
  \A a, b \in Bytes, s, t \in Strings : <<a>> \o s = <<b>> \o t => a = b /\ s = t
BY SameHead DEF Strings

LEMMA CatHead ==
  \A a, b \in Bytes, s, t \in Strings : Cat(<<a>>, s) = Cat(<<b>>, t) => a = b /\ s = t
BY StringHead DEF Cat

LEMMA StringOnly == \A a, b \in Bytes, s \in Strings : <<a>> \o s = <<b>> => a = b /\ s = <<>>
<1> SUFFICES ASSUME NEW a \in Bytes, NEW b \in Bytes, NEW s \in Strings, <<a>> \o s = <<b>>
             PROVE  a = b /\ s = <<>>
  OBVIOUS
<1>1. <<b>> = <<b>> \o <<>>
  BY StringOne, StringNeutral
<1>2. <<a>> \o s = <<b>> \o <<>> => a = b /\ s = <<>>
  BY StringHead, StringEmpty
<1> QED
  BY <1>1, <1>2

LEMMA StringMore ==
  \A s \in Strings : s = <<>> \/ \E b \in Bytes, t \in Strings : s = <<b>> \o t
BY EmptyOrMore DEF Strings

LEMMA StringNotEmpty == \A b \in Bytes, s \in Strings : <<b>> \o s # <<>>
BY NotEmpty DEF Strings

LEMMA TalkEmpty == <<>> \in Talk
BY EmptySeq DEF Talk

LEMMA TalkOne == \A x \in Items : <<x>> \in Talk
BY Singleton DEF Talk

LEMMA TalkConcat == \A s, t \in Talk : s \o t \in Talk
BY ConcatIn DEF Talk

LEMMA TalkAssociative == \A s, t, u \in Talk : (s \o t) \o u = s \o (t \o u)
BY ConcatAssociative DEF Talk

LEMMA TalkRegroups == \A s, t, u \in Talk : Cat(Cat(s, t), u) = Cat(s, Cat(t, u))
BY TalkAssociative DEF Cat

LEMMA TalkNeutral == \A s \in Talk : s \o <<>> = s /\ <<>> \o s = s
BY ConcatEmptySeq DEF Talk

LEMMA TalkMore ==
  \A s \in Talk : s = <<>> \/ \E x \in Items, t \in Talk : s = <<x>> \o t
BY EmptyOrMore DEF Talk

LEMMA EscapedByteType == EscapedByte \in Functions(Bytes, Seq(Bytes))
<1> SUFFICES ASSUME NEW b \in Bytes
             PROVE  (IF b = IAC THEN <<IAC, IAC>> ELSE <<b>>) \in Seq(Bytes)
  BY DEF EscapedByte, Functions
<1> QED
  BY Constants

LEMMA EscapedJoined == ASSUME NEW s \in Seq(Bytes) PROVE Escaped(s) = Joined(EscapedByte, s)
<1>1. DOMAIN s = 1 .. Len(s) /\ \A i \in 1 .. Len(s) : s[i] \in Bytes
  BY LenProperties, ElementOfSeq
<1>2. [i \in DOMAIN s |-> IF s[i] = IAC THEN <<IAC, IAC>> ELSE <<s[i]>>] = Mapped(EscapedByte, s)
  BY <1>1 DEF Mapped, EscapedByte
<1> QED
  BY <1>2 DEF Escaped, Joined

LEMMA EscapedType == \A s \in Strings : Escaped(s) \in Strings
BY EscapedJoined, EscapedByteType, JoinedType DEF Strings

LEMMA EscapedEmpty == Escaped(<<>>) = <<>>
BY EscapedJoined, JoinedEmpty, EmptySeq

LEMMA EscapedOne ==
  \A b \in Bytes : Escaped(<<b>>) = IF b = IAC THEN <<IAC>> \o <<IAC>> ELSE <<b>>
<1> SUFFICES ASSUME NEW b \in Bytes
             PROVE  Escaped(<<b>>) = IF b = IAC THEN <<IAC>> \o <<IAC>> ELSE <<b>>
  OBVIOUS
<1>1. Joined(EscapedByte, <<b>>) = EscapedByte[b]
  BY EscapedByteType, JoinedOne
<1>2. <<IAC, IAC>> = <<IAC>> \o <<IAC>>
  BY Pair, Constants
<1> QED
  BY <1>1, <1>2, EscapedJoined, Singleton DEF EscapedByte

LEMMA EscapedConcat == \A s, t \in Strings : Escaped(s \o t) = Escaped(s) \o Escaped(t)
<1> SUFFICES ASSUME NEW s \in Seq(Bytes), NEW t \in Seq(Bytes)
             PROVE  Escaped(s \o t) = Escaped(s) \o Escaped(t)
  BY DEF Strings
<1>1. s \o t \in Seq(Bytes)
  BY ConcatIn
<1>2. Joined(EscapedByte, s \o t) = Joined(EscapedByte, s) \o Joined(EscapedByte, t)
  BY EscapedByteType, JoinedConcat
<1> QED
  BY <1>1, <1>2, EscapedJoined

LEMMA EncodeData ==
  \A b \in Bytes : Encode(<<"data", b>>) = IF b = IAC THEN <<IAC>> \o <<IAC>> ELSE <<b>>
BY EscapedOne DEF Encode

LEMMA EncodeNeg ==
  \A c, o \in Bytes : Encode(<<"neg", c, o>>) = <<IAC>> \o (<<c>> \o <<o>>)
<1> SUFFICES ASSUME NEW c \in Bytes, NEW o \in Bytes
             PROVE  Encode(<<"neg", c, o>>) = <<IAC>> \o (<<c>> \o <<o>>)
  OBVIOUS
<1>1. Encode(<<"neg", c, o>>) = <<IAC, c, o>>
  BY DEF Encode
<1>2. <<IAC, c, o>> = <<IAC>> \o (<<c>> \o <<o>>)
  BY ONLY Triple, Constants, c \in Bytes, o \in Bytes
<1> QED
  BY ONLY <1>1, <1>2

LEMMA EncodeSub ==
  \A body \in Strings :
     Encode(<<"sub", body>>) = <<IAC>> \o (<<SB>> \o (Escaped(body) \o (<<IAC>> \o <<SE>>)))
<1> SUFFICES ASSUME NEW body \in Strings
             PROVE  Encode(<<"sub", body>>)
                      = <<IAC>> \o (<<SB>> \o (Escaped(body) \o (<<IAC>> \o <<SE>>)))
  OBVIOUS
<1>1. Encode(<<"sub", body>>) = <<IAC, SB>> \o Escaped(body) \o <<IAC, SE>>
  BY DEF Encode
<1>2. <<IAC, SB>> = <<IAC>> \o <<SB>> /\ <<IAC, SE>> = <<IAC>> \o <<SE>>
  BY Pair, Constants
<1>3. /\ <<IAC>> \in Strings /\ <<SB>> \in Strings /\ <<SE>> \in Strings
      /\ Escaped(body) \in Strings
  BY Constants, StringOne, EscapedType
<1>4. ((<<IAC>> \o <<SB>>) \o Escaped(body)) \o (<<IAC>> \o <<SE>>)
        = <<IAC>> \o (<<SB>> \o (Escaped(body) \o (<<IAC>> \o <<SE>>)))
  BY <1>3, StringConcat, StringAssociative
<1> QED
  BY <1>1, <1>2, <1>4, Zenon

LEMMA EncodeNop == Encode(<<"nop">>) = <<IAC>> \o <<241>>
BY Pair, Constants DEF Encode
LEMMA ItemIs ==
  \A x \in Items :
     \/ \E b \in Bytes : x = <<"data", b>>
     \/ \E c \in Commands, o \in Bytes : x = <<"neg", c, o>>
     \/ \E body \in Strings : x = <<"sub", body>>
     \/ x = <<"nop">>
BY ItemKinds DEF Strings

LEMMA EncodeType ==
  ASSUME NEW x \in Items
  PROVE  Encode(x) \in Strings /\ \E b \in Bytes, t \in Strings : Encode(x) = <<b>> \o t
<1>0. <<IAC>> \in Strings /\ <<SB>> \in Strings /\ <<SE>> \in Strings /\ <<241>> \in Strings
  BY Constants, StringOne
<1>1. ASSUME NEW t \in Strings, Encode(x) = <<IAC>> \o t
      PROVE  Encode(x) \in Strings /\ \E b \in Bytes, u \in Strings : Encode(x) = <<b>> \o u
  BY <1>0, <1>1, StringConcat, Constants
<1>2. CASE \E b \in Bytes : x = <<"data", b>>
  <2>1. PICK b \in Bytes : x = <<"data", b>>
    BY <1>2
  <2>2. CASE b = IAC
    BY <1>0, <1>1, <2>1, <2>2, EncodeData
  <2>3. CASE b # IAC
    <3>1. <<b>> = <<b>> \o <<>> /\ <<b>> \in Strings
      BY StringOne, StringNeutral
    <3> QED
      BY <2>1, <2>3, <3>1, EncodeData, StringEmpty
  <2> QED
    BY <2>2, <2>3
<1>3. CASE \E c \in Commands, o \in Bytes : x = <<"neg", c, o>>
  <2>1. PICK c \in Commands, o \in Bytes : x = <<"neg", c, o>>
    BY <1>3
  <2>2. c \in Bytes /\ <<c>> \o <<o>> \in Strings
    BY Constants, StringOne, StringConcat
  <2> QED
    BY <1>1, <2>1, <2>2, EncodeNeg
<1>4. CASE \E body \in Strings : x = <<"sub", body>>
  <2>1. PICK body \in Strings : x = <<"sub", body>>
    BY <1>4
  <2>2. <<SB>> \o (Escaped(body) \o (<<IAC>> \o <<SE>>)) \in Strings
    BY <1>0, EscapedType, StringConcat
  <2> QED
    BY <1>1, <2>1, <2>2, EncodeSub
<1>5. CASE x = <<"nop">>
  BY <1>0, <1>1, <1>5, EncodeNop
<1> QED
  BY <1>2, <1>3, <1>4, <1>5, ItemIs

LEMMA EncodedItemType == EncodedItem \in Functions(Items, Seq(Bytes))
BY EncodeType DEF EncodedItem, Functions, Strings

LEMMA EncodeAllJoined == ASSUME NEW s \in Talk PROVE EncodeAll(s) = Joined(EncodedItem, s)
<1>1. DOMAIN s = 1 .. Len(s) /\ \A i \in 1 .. Len(s) : s[i] \in Items
  BY LenProperties, ElementOfSeq DEF Talk
<1>2. [i \in DOMAIN s |-> Encode(s[i])] = Mapped(EncodedItem, s)
  BY <1>1 DEF Mapped, EncodedItem
<1> QED
  BY <1>2 DEF EncodeAll, Joined

LEMMA EncodeAllType == \A s \in Talk : EncodeAll(s) \in Strings
BY EncodeAllJoined, EncodedItemType, JoinedType DEF Strings, Talk

LEMMA EncodeAllEmpty == EncodeAll(<<>>) = <<>>
BY EncodeAllJoined, JoinedEmpty, TalkEmpty

LEMMA EncodeAllConcat == \A s, t \in Talk : EncodeAll(s \o t) = EncodeAll(s) \o EncodeAll(t)
<1> SUFFICES ASSUME NEW s \in Seq(Items), NEW t \in Seq(Items)
             PROVE  EncodeAll(s \o t) = EncodeAll(s) \o EncodeAll(t)
  BY DEF Talk
<1>1. EncodedItem \in Functions(Items, Seq(Bytes))
  BY EncodedItemType
<1>2. Joined(EncodedItem, s \o t) = Joined(EncodedItem, s) \o Joined(EncodedItem, t)
  BY <1>1, JoinedConcat
<1>3. s \o t \in Talk /\ s \in Talk /\ t \in Talk
  BY ConcatIn DEF Talk
<1> QED
  BY <1>2, <1>3, EncodeAllJoined

LEMMA EncodeAllMore ==
  ASSUME NEW x \in Items, NEW s \in Talk
  PROVE  EncodeAll(<<x>> \o s) = Encode(x) \o EncodeAll(s)
<1>1. <<x>> \in Talk
  BY TalkOne
<1>2. Joined(EncodedItem, <<x>>) = EncodedItem[x]
  BY EncodedItemType, JoinedOne
<1>3. EncodeAll(<<x>>) = Encode(x)
  BY <1>1, <1>2, EncodeAllJoined DEF EncodedItem
<1> QED
  BY <1>1, <1>3, EncodeAllConcat

LEMMA EncodeAllNothing ==
  ASSUME NEW s \in Talk, EncodeAll(s) = <<>> PROVE s = <<>>
<1> SUFFICES ASSUME NEW x \in Items, NEW t \in Talk, s = <<x>> \o t PROVE FALSE
  BY TalkMore
<1>1. PICK b \in Bytes, u \in Strings : Encode(x) = <<b>> \o u
  BY EncodeType
<1>2. EncodeAll(s) = (<<b>> \o u) \o EncodeAll(t)
  BY <1>1, EncodeAllMore
<1>3. EncodeAll(t) \in Strings /\ <<b>> \in Strings
  BY EncodeAllType, StringOne
<1>4. EncodeAll(s) = <<b>> \o (u \o EncodeAll(t)) /\ u \o EncodeAll(t) \in Strings
  BY <1>2, <1>3, StringAssociative, StringConcat
<1> QED
  BY <1>4, StringNotEmpty

(* ------------------------- what a client means ------------------------- *)

LEMMA KeptType == \A body \in Strings : Kept(body) \in Strings /\ Len(Kept(body)) <= SubnegMax
<1> SUFFICES ASSUME NEW body \in Seq(Bytes)
             PROVE  Kept(body) \in Seq(Bytes) /\ Len(Kept(body)) <= SubnegMax
  BY DEF Strings
<1> DEFINE n == IF Len(body) < SubnegMax THEN Len(body) ELSE SubnegMax
<1>1. n \in Nat /\ n <= Len(body) /\ n <= SubnegMax /\ Len(body) \in Nat
  BY TelnetAssumption, LenProperties
<1>2. \A i \in 1 .. n : body[i] \in Bytes
  BY <1>1, ElementOfSeq
<1>3. SubSeq(body, 1, n) \in Seq(Bytes) /\ Len(SubSeq(body, 1, n)) = IF 1 <= n THEN n - 1 + 1 ELSE 0
  BY <1>1, <1>2, SubSeqProperties
<1> QED
  BY <1>1, <1>3 DEF Kept

LEMMA KeptEmpty == Kept(<<>>) = <<>>
<1>1. Kept(<<>>) = SubSeq(<<>>, 1, 0)
  BY TelnetAssumption DEF Kept
<1> QED
  BY <1>1, SubSeqEmpty

LEMMA KeptLonger ==
  ASSUME NEW body \in Seq(Bytes), NEW b \in Bytes
  PROVE  Kept(Append(body, b)) = IF Len(Kept(body)) < SubnegMax THEN Append(Kept(body), b)
                                                               ELSE Kept(body)
<1> DEFINE more == Append(body, b)
<1>1. /\ more \in Seq(Bytes) /\ Len(more) = Len(body) + 1 /\ Len(body) \in Nat
      /\ \A i \in 1 .. Len(body) : more[i] = body[i]
      /\ SubnegMax \in Nat \ {0}
  BY AppendProperties, LenProperties, TelnetAssumption
<1> HIDE DEF more
<1>2. CASE Len(body) < SubnegMax
  <2>1. Kept(body) = body /\ Kept(more) = more
    BY <1>1, <1>2, SubSeqFull DEF Kept
  <2> QED
    BY <1>2, <2>1 DEF more
<1>3. CASE Len(body) >= SubnegMax
  <2>1. Kept(body) = SubSeq(body, 1, SubnegMax) /\ Kept(more) = SubSeq(more, 1, SubnegMax)
    BY <1>1, <1>3 DEF Kept
  <2>2. /\ \A i \in 1 .. SubnegMax : body[i] \in Bytes
        /\ \A i \in 1 .. SubnegMax : more[i] \in Bytes
    BY <1>1, <1>3, ElementOfSeq
  <2>3. /\ Kept(body) \in Seq(Bytes) /\ Len(Kept(body)) = SubnegMax
        /\ \A i \in 1 .. SubnegMax : Kept(body)[i] = body[i]
    BY <1>1, <2>1, <2>2, SubSeqProperties
  <2>4. /\ Kept(more) \in Seq(Bytes) /\ Len(Kept(more)) = SubnegMax
        /\ \A i \in 1 .. SubnegMax : Kept(more)[i] = more[i]
    BY <1>1, <2>1, <2>2, SubSeqProperties
  <2>5. Kept(more) = Kept(body)
    <3>1. \A i \in 1 .. SubnegMax : Kept(more)[i] = Kept(body)[i]
      <4>1. \A i \in 1 .. SubnegMax : i \in 1 .. Len(body)
        BY <1>1, <1>3
      <4>2. \A i \in 1 .. SubnegMax : more[i] = body[i]
        BY ONLY <1>1, <4>1, Zenon
      <4> QED
        BY ONLY <2>3, <2>4, <4>2, Zenon
    <3> QED
      BY <2>3, <2>4, <3>1, SeqEqual
  <2> QED
    BY <1>1, <2>3, <2>5 DEF more
<1> QED
  BY <1>1, <1>2, <1>3
LEMMA MeantItemType == MeantItem \in Functions(Items, Seq(Items))
<1> SUFFICES ASSUME NEW x \in Items PROVE MeantBy(x) \in Seq(Items)
  BY DEF MeantItem, Functions
<1>1. CASE \E body \in Strings : x = <<"sub", body>>
  <2>1. PICK body \in Strings : x = <<"sub", body>>
    BY <1>1
  <2>2. MeantBy(x) = << <<"sub", Kept(body)>> >>
    BY <2>1 DEF MeantBy
  <2>3. <<"sub", Kept(body)>> \in Items
    BY KeptType DEF Items, Strings
  <2> QED
    BY <2>2, <2>3, Singleton
<1>2. CASE x = <<"nop">>
  BY <1>2, EmptySeq DEF MeantBy
<1>3. CASE \/ \E b \in Bytes : x = <<"data", b>>
           \/ \E c \in Commands, o \in Bytes : x = <<"neg", c, o>>
  <2>1. x[1] # "nop" /\ x[1] # "sub"
    BY <1>3
  <2> QED
    BY <2>1, Singleton DEF MeantBy
<1> QED
  BY <1>1, <1>2, <1>3, ItemIs

LEMMA MeantOfType == \A s \in Talk : MeantOf(s) \in Talk
BY MeantItemType, JoinedType DEF MeantOf, Talk

LEMMA MeantOfEmpty == MeantOf(<<>>) = <<>>
BY JoinedEmpty DEF MeantOf

LEMMA MeantOfConcat == \A s, t \in Talk : MeantOf(s \o t) = MeantOf(s) \o MeantOf(t)
<1> SUFFICES ASSUME NEW s \in Seq(Items), NEW t \in Seq(Items)
             PROVE  Joined(MeantItem, s \o t) = Joined(MeantItem, s) \o Joined(MeantItem, t)
  BY DEF Talk, MeantOf
<1>1. MeantItem \in Functions(Items, Seq(Items))
  BY MeantItemType
<1> QED
  BY <1>1, JoinedConcat

LEMMA MeantOfOne == \A x \in Items : MeantOf(<<x>>) = MeantBy(x)
<1> SUFFICES ASSUME NEW x \in Items PROVE MeantOf(<<x>>) = MeantBy(x)
  OBVIOUS
<1>1. Joined(MeantItem, <<x>>) = MeantItem[x]
  BY MeantItemType, JoinedOne
<1> QED
  BY <1>1 DEF MeantOf, MeantItem

LEMMA MeantJoined == ASSUME NEW s \in Talk PROVE
  FlattenSeq([i \in DOMAIN s |-> MeantBy(s[i])]) = MeantOf(s)
<1>1. DOMAIN s = 1 .. Len(s) /\ \A i \in 1 .. Len(s) : s[i] \in Items
  BY LenProperties, ElementOfSeq DEF Talk
<1>2. [i \in DOMAIN s |-> MeantBy(s[i])] = Mapped(MeantItem, s)
  BY <1>1 DEF Mapped, MeantItem
<1> QED
  BY <1>2 DEF MeantOf, Joined
(* --------------------------- what is acted upon ------------------------ *)

Acts == ({"data"} \X Bytes \X {"written", "dropped"}) \cup ({"neg"} \X Commands \X Bytes)
          \cup ({"sub"} \X Seq(Bytes))
Deeds == Seq(Acts)

PlainAct == [y \in Acts |-> IF y[1] = "data" THEN <<"data", y[2]>> ELSE y]
DataItem == [b \in Bytes |-> <<"data", b>>]
Plain(deeds) == Mapped(PlainAct, deeds)
DataOf(data) == Mapped(DataItem, data)

LEMMA PlainActType == PlainAct \in Functions(Acts, Items)
<1> SUFFICES ASSUME NEW y \in Acts
             PROVE  (IF y[1] = "data" THEN <<"data", y[2]>> ELSE y) \in Items
  BY DEF PlainAct, Functions
<1>1. \/ \E b \in Bytes, f \in {"written", "dropped"} : y = <<"data", b, f>>
      \/ \E c \in Commands, o \in Bytes : y = <<"neg", c, o>>
      \/ \E body \in Seq(Bytes) : y = <<"sub", body>>
  BY DEF Acts
<1>2. CASE \E b \in Bytes, f \in {"written", "dropped"} : y = <<"data", b, f>>
  BY <1>2 DEF Items
<1>3. CASE \E c \in Commands, o \in Bytes : y = <<"neg", c, o>>
  BY <1>3 DEF Items
<1>4. CASE \E body \in Seq(Bytes) : y = <<"sub", body>>
  BY <1>4 DEF Items
<1> QED
  BY <1>1, <1>2, <1>3, <1>4

LEMMA DataItemType == DataItem \in Functions(Bytes, Items)
BY DEF DataItem, Functions, Items

LEMMA PlainType == \A d \in Deeds : Plain(d) \in Talk
BY PlainActType, MappedType DEF Deeds, Talk, Plain

LEMMA PlainConcat == \A d, e \in Deeds : Plain(d \o e) = Plain(d) \o Plain(e)
<1> SUFFICES ASSUME NEW d \in Seq(Acts), NEW e \in Seq(Acts)
             PROVE  Mapped(PlainAct, d \o e) = Mapped(PlainAct, d) \o Mapped(PlainAct, e)
  BY DEF Deeds, Plain
<1>1. PlainAct \in Functions(Acts, Items)
  BY PlainActType
<1> QED
  BY <1>1, MappedConcat

LEMMA DeedsConcat == \A d, e \in Deeds : d \o e \in Deeds
BY ConcatIn DEF Deeds

LEMMA DataOfType == \A d \in Strings : DataOf(d) \in Talk
BY DataItemType, MappedType DEF Strings, Talk, DataOf

LEMMA DataOfEmpty == DataOf(<<>>) = <<>>
BY DEF DataOf, Mapped

LEMMA DataOfConcat == \A s, t \in Strings : DataOf(s \o t) = DataOf(s) \o DataOf(t)
<1> SUFFICES ASSUME NEW s \in Seq(Bytes), NEW t \in Seq(Bytes)
             PROVE  Mapped(DataItem, s \o t) = Mapped(DataItem, s) \o Mapped(DataItem, t)
  BY DEF Strings, DataOf
<1>1. DataItem \in Functions(Bytes, Items)
  BY DataItemType
<1> QED
  BY <1>1, MappedConcat

LEMMA DataOfOne == \A b \in Bytes : DataOf(<<b>>) = << <<"data", b>> >>
<1> SUFFICES ASSUME NEW b \in Bytes PROVE Mapped(DataItem, <<b>>) = << <<"data", b>> >>
  BY DEF DataOf
<1>1. DataItem[b] = <<"data", b>>
  BY DEF DataItem
<1> QED
  BY <1>1, DataItemType, MappedOne

LEMMA FlushedIsData ==
  ASSUME NEW d \in Strings
  PROVE  Flushed(d) \in Deeds /\ Plain(Flushed(d)) = DataOf(d)
<1> DEFINE f == Flushed(d)
<1>1. DOMAIN d = 1 .. Len(d) /\ Len(d) \in Nat /\ \A i \in 1 .. Len(d) : d[i] \in Bytes
  BY LenProperties, ElementOfSeq DEF Strings
<1>2. /\ f = [i \in 1 .. Len(d) |-> <<"data", d[i], IF open THEN "written" ELSE "dropped">>]
      /\ \A i \in 1 .. Len(d) : f[i] \in Acts /\ f[i][1] = "data" /\ f[i][2] = d[i]
  BY <1>1 DEF Flushed, Acts
<1>3. f \in Seq(Acts) /\ DOMAIN f = 1 .. Len(d)
  BY <1>1, <1>2
<1> HIDE DEF f
<1>4. \A i \in 1 .. Len(d) : PlainAct[f[i]] = DataItem[d[i]]
  BY <1>1, <1>2 DEF PlainAct, DataItem
<1>5. Mapped(PlainAct, f) = Mapped(DataItem, d)
  BY <1>1, <1>3, <1>4 DEF Mapped
<1> QED
  BY <1>3, <1>5 DEF f, Deeds, Plain, DataOf

LEMMA HeardIsPlain == ASSUME heard \in Deeds PROVE Heard = Plain(heard)
<1>1. DOMAIN heard = 1 .. Len(heard) /\ \A i \in 1 .. Len(heard) : heard[i] \in Acts
  BY LenProperties, ElementOfSeq DEF Deeds
<1> QED
  BY <1>1 DEF Heard, Plain, Mapped, PlainAct
(* --------------------------- the parser's state ------------------------ *)

Types ==
  /\ parse \in {"Data", "Iac", "Option", "Subneg", "SubnegIac"}
  /\ script \in Talk /\ heard \in Deeds /\ command \in Bytes
  /\ wire \in Strings /\ chunk \in Strings /\ payload \in Strings /\ subneg \in Strings
  /\ chunk = <<>> => payload = <<>>
  /\ ~served => chunk = <<>>
  /\ parse = "Option" => command \in Commands

(* What the client sent and the parser has not seen, and what the parser   *)
(* has taken from it so far.                                               *)
Left  == chunk \o wire
Taken == Plain(heard) \o DataOf(payload)

(* The parser is inside item x, of which the bytes t are left.             *)
Inside(x, t) ==
  \/ parse = "Iac" /\ Encode(x) = <<IAC>> \o t
  \/ parse = "Option" /\ \E o \in Bytes : x = <<"neg", command, o>> /\ t = <<o>>
  \/ /\ parse = "Subneg"
     /\ \E b1, b2 \in Strings :
          /\ x = <<"sub", b1 \o b2>> /\ subneg = Kept(b1)
          /\ t = Escaped(b2) \o (<<IAC>> \o <<SE>>)
  \/ /\ parse = "SubnegIac"
     /\ \E b1 \in Strings :
          /\ subneg = Kept(b1)
          /\ \/ x = <<"sub", b1>> /\ t = <<SE>>
             \/ \E b2 \in Strings :
                  /\ x = <<"sub", b1 \o (<<IAC>> \o b2)>>
                  /\ t = <<IAC>> \o (Escaped(b2) \o (<<IAC>> \o <<SE>>))

Between(done, rest) ==
  /\ parse = "Data"
  /\ script = done \o rest /\ Left = EncodeAll(rest) /\ Taken = MeantOf(done)

Within(done, x, t, rest) ==
  /\ script = done \o (<<x>> \o rest) /\ Left = t \o EncodeAll(rest)
  /\ Taken = MeantOf(done) /\ Inside(x, t)

Parsed ==
  \/ \E done, rest \in Talk : Between(done, rest)
  \/ \E done, rest \in Talk, x \in Items, t \in Strings : Within(done, x, t, rest)

(* Once the client is gone, what it meant may stay unheard from some point. *)
HeardInv == Types /\ IF served THEN Parsed ELSE IsPrefix(Heard, Meant)

LEMMA LeftTail ==
  ASSUME chunk \in Strings, wire \in Strings, chunk # <<>>,
         chunk' = Tail(chunk), wire' = wire
  PROVE  /\ Byte \in Bytes /\ chunk' \in Strings /\ Left' \in Strings
         /\ Left = <<Byte>> \o Left'
<1>1. Byte \in Bytes /\ chunk' \in Strings /\ chunk = <<Byte>> \o chunk'
  BY HeadAndTail DEF Strings, Byte
<1>2. <<Byte>> \in Strings /\ chunk' \o wire \in Strings
  BY <1>1, StringOne, StringConcat
<1>3. (<<Byte>> \o chunk') \o wire = <<Byte>> \o (chunk' \o wire)
  <2>1. <<Byte>> \in Strings /\ chunk' \in Strings /\ wire \in Strings
    BY <1>1, <1>2
  <2> QED
    BY ONLY <2>1, StringAssociative
<1> QED
  BY <1>1, <1>2, <1>3 DEF Left

(* One byte is consumed: the next one of what is left.                     *)
LEMMA Consumed ==
  ASSUME chunk \in Strings, wire \in Strings, chunk # <<>>,
         chunk' = Tail(chunk), wire' = wire,
         NEW b \in Bytes
  PROVE  \A m \in Strings : Left = <<b>> \o m => Byte = b /\ Left' = m
<1>1. Byte \in Bytes /\ Left' \in Strings /\ Left = <<Byte>> \o Left'
  BY LeftTail
<1>2. SUFFICES ASSUME NEW m \in Strings, Left = <<b>> \o m PROVE Byte = b /\ Left' = m
  OBVIOUS
<1>3. <<Byte>> \o Left' = <<b>> \o m
  BY <1>1, <1>2
<1>4. Cat(<<Byte>>, Left') = Cat(<<b>>, m)
  BY ONLY <1>3 DEF Cat
<1> QED
  BY ONLY <1>1, <1>4, b \in Bytes, m \in Strings, CatHead

LEMMA ConsumedOf ==
  ASSUME chunk \in Strings, wire \in Strings, chunk # <<>>,
         chunk' = Tail(chunk), wire' = wire,
         NEW b \in Bytes, NEW u \in Strings, NEW m \in Strings,
         Left = (<<b>> \o u) \o m
  PROVE  Byte = b /\ Left' = u \o m
<1>1. <<b>> \in Strings /\ u \o m \in Strings
  BY StringOne, StringConcat
<1>2. Left = <<b>> \o (u \o m)
  BY <1>1, StringAssociative
<1> QED
  BY <1>1, <1>2, Consumed, Zenon

(* flush() passes payload on as it is.                                     *)
LEMMA Proceeds ==
  ASSUME chunk \in Strings, chunk # <<>>,
         NEW data \in Strings, NEW acted \in Deeds, Proceed(data, acted)
  PROVE  /\ heard' \in Deeds /\ payload' \in Strings
         /\ chunk' = <<>> => payload' = <<>>
         /\ Taken' = Plain(acted) \o DataOf(data)
         /\ \E more \in Talk : Plain(heard') = Plain(acted) \o more
<1>1. Flushed(data) \in Deeds /\ Plain(Flushed(data)) = DataOf(data)
  BY FlushedIsData
<1>2. DataOf(data) \in Talk /\ Plain(acted) \in Talk
  BY DataOfType, PlainType
<1>3. CASE Len(data) >= Chunk \/ Len(chunk) = 1
  <2>1. payload' = <<>> /\ heard' = acted \o Flushed(data)
    BY <1>3 DEF Proceed
  <2>2. heard' \in Deeds /\ Plain(heard') = Plain(acted) \o DataOf(data)
    BY <1>1, <2>1, DeedsConcat, PlainConcat
  <2>3. Taken' = Plain(heard') \o <<>> /\ Plain(heard') \in Talk
    BY <2>1, <2>2, DataOfEmpty, PlainType DEF Taken
  <2> QED
    BY <1>2, <2>1, <2>2, <2>3, TalkNeutral, StringEmpty
<1>4. CASE ~(Len(data) >= Chunk \/ Len(chunk) = 1)
  <2>1. payload' = data /\ heard' = acted /\ chunk' = Tail(chunk)
    BY <1>4 DEF Proceed
  <2>2. chunk' # <<>>
    <3>1. Len(chunk) \in Nat /\ Len(chunk) # 0 /\ Len(Tail(chunk)) = Len(chunk) - 1
      BY EmptySeq, LenProperties, HeadTailProperties DEF Strings
    <3>2. Len(chunk') # 0
      BY <1>4, <2>1, <3>1
    <3> QED
      BY <3>2
  <2>3. Plain(acted) = Plain(acted) \o <<>> /\ <<>> \in Talk
    BY <1>2, TalkNeutral, TalkEmpty
  <2> QED
    BY <2>1, <2>2, <2>3 DEF Taken
<1> QED
  BY <1>3, <1>4
LEMMA ItemDone ==
  ASSUME NEW done \in Talk, NEW rest \in Talk, NEW x \in Items,
         script = done \o (<<x>> \o rest), script' = script, parse' = "Data",
         Left' = EncodeAll(rest), Taken' = MeantOf(done) \o MeantBy(x)
  PROVE  Parsed'
<1>1. <<x>> \in Talk /\ done \o <<x>> \in Talk
  BY TalkOne, TalkConcat
<1>2. script' = (done \o <<x>>) \o rest
  BY <1>1, TalkAssociative
<1>3. Taken' = MeantOf(done \o <<x>>)
  BY <1>1, MeantOfConcat, MeantOfOne
<1>4. Between(done \o <<x>>, rest)'
  BY <1>2, <1>3 DEF Between
<1> QED
  BY <1>1, <1>4 DEF Parsed

LEMMA ItemGoesOn ==
  ASSUME NEW done \in Talk, NEW rest \in Talk, NEW x \in Items, NEW t \in Strings,
         script = done \o (<<x>> \o rest), script' = script,
         Left' = t \o EncodeAll(rest), Taken' = MeantOf(done), Inside(x, t)'
  PROVE  Parsed'
<1>1. Within(done, x, t, rest)'
  BY DEF Within
<1> QED
  BY <1>1 DEF Parsed

LEMMA Split ==
  ASSUME Parsed, parse # "Data"
  PROVE  \E done, rest \in Talk, x \in Items, t \in Strings : Within(done, x, t, rest)
BY DEF Parsed, Between

LEMMA DataKeepsParsed ==
  ASSUME Types, Parsed, ParseData
  PROVE  Parsed'
<1>1. /\ chunk # <<>> /\ parse = "Data" /\ chunk' = Tail(chunk) /\ script' = script /\ wire' = wire
      /\ chunk \in Strings /\ wire \in Strings /\ payload \in Strings /\ heard \in Deeds
  BY DEF Types, ParseData, At, Session, Proceed
<1>2. PICK done \in Talk, rest \in Talk : Between(done, rest)
  BY <1>1 DEF Parsed, Within, Inside
<1>3. Byte \in Bytes /\ Left' \in Strings /\ Left = <<Byte>> \o Left'
  BY <1>1, LeftTail
<1>4. PICK x \in Items, more \in Talk : rest = <<x>> \o more
  <2>1. rest # <<>>
    BY <1>2, <1>3, EncodeAllEmpty, StringNotEmpty DEF Between
  <2> QED
    BY <2>1, TalkMore
<1>5. PICK b \in Bytes, u \in Strings : Encode(x) = <<b>> \o u
  BY EncodeType
<1>6. EncodeAll(more) \in Strings
  BY EncodeAllType
<1>7. Left = (<<b>> \o u) \o EncodeAll(more)
  BY <1>2, <1>4, <1>5, EncodeAllMore DEF Between
<1>8. Byte = b /\ Left' = u \o EncodeAll(more)
  BY <1>1, <1>6, <1>7, ConsumedOf
<1>9. script = done \o (<<x>> \o more) /\ Taken = MeantOf(done)
  BY <1>2, <1>4 DEF Between
<1>10. CASE b = IAC
  <2>1. parse' = "Iac" /\ Proceed(payload, heard)
    BY <1>8, <1>10 DEF ParseData
  <2>2. Taken' = MeantOf(done)
    BY <1>1, <1>9, <2>1, Proceeds DEF Taken
  <2>3. Inside(x, u)'
    BY <1>5, <1>10, <2>1 DEF Inside
  <2> QED
    BY <1>1, <1>8, <1>9, <2>2, <2>3, ItemGoesOn
<1>11. CASE b # IAC
  <2>1. parse' = "Data" /\ Proceed(Append(payload, b), heard)
    BY <1>8, <1>11 DEF ParseData
  <2>2. x = <<"data", b>> /\ u = <<>>
    <3>1. PICK d \in Bytes : x = <<"data", d>> /\ d # IAC
      <4>1. ASSUME NEW v \in Strings, Encode(x) = <<IAC>> \o v PROVE FALSE
        BY <1>5, <1>11, <4>1, StringHead, Constants
      <4>2. /\ <<IAC>> \in Strings /\ <<241>> \in Strings
            /\ \A c, o \in Bytes : <<c>> \o <<o>> \in Strings
            /\ \A s \in Strings : <<SB>> \o (Escaped(s) \o (<<IAC>> \o <<SE>>)) \in Strings
        BY Constants, StringOne, StringConcat, EscapedType
      <4>3. ~\E c \in Commands, o \in Bytes : x = <<"neg", c, o>>
        <5> SUFFICES ASSUME NEW c \in Commands, NEW o \in Bytes, x = <<"neg", c, o>>
                     PROVE  FALSE
          OBVIOUS
        <5>1. c \in Bytes
          BY Constants
        <5>2. Encode(x) = <<IAC>> \o (<<c>> \o <<o>>)
          BY <5>1, EncodeNeg
        <5> QED
          BY <4>1, <4>2, <5>1, <5>2
      <4>4. ~\E s \in Strings : x = <<"sub", s>>
        <5> SUFFICES ASSUME NEW s \in Strings, x = <<"sub", s>> PROVE FALSE
          OBVIOUS
        <5>1. Encode(x) = <<IAC>> \o (<<SB>> \o (Escaped(s) \o (<<IAC>> \o <<SE>>)))
          BY EncodeSub
        <5>2. <<SB>> \o (Escaped(s) \o (<<IAC>> \o <<SE>>)) \in Strings
          BY <4>2
        <5> QED
          BY ONLY <4>1, <5>1, <5>2
      <4>5. x # <<"nop">>
        BY <4>1, <4>2, EncodeNop
      <4>6. x # <<"data", IAC>>
        BY <4>1, <4>2, EncodeData, Constants
      <4> QED
        BY <4>3, <4>4, <4>5, <4>6, ItemIs
    <3>2. <<b>> \o u = <<d>>
      BY <1>5, <3>1, EncodeData
    <3>3. b = d /\ u = <<>>
      BY <3>2, StringOnly
    <3> QED
      BY <3>1, <3>3
  <2>3. Append(payload, b) = payload \o <<b>> /\ <<b>> \in Strings /\ payload \o <<b>> \in Strings
    BY <1>1, AppendIsConcat, StringOne, StringConcat DEF Strings
  <2>4. Taken' = Plain(heard) \o DataOf(payload \o <<b>>)
    BY <1>1, <2>1, <2>3, Proceeds
  <2>5. DataOf(payload \o <<b>>) = DataOf(payload) \o <<x>>
    BY <1>1, <2>2, <2>3, DataOfConcat, DataOfOne
  <2>6. Taken' = Taken \o <<x>>
    <3>1. Plain(heard) \in Talk /\ DataOf(payload) \in Talk /\ <<x>> \in Talk
      BY <1>1, PlainType, DataOfType, TalkOne
    <3>2. Cat(Cat(Plain(heard), DataOf(payload)), <<x>>) = Cat(Plain(heard), Cat(DataOf(payload), <<x>>))
      BY ONLY <3>1, TalkRegroups
    <3>3. (Plain(heard) \o DataOf(payload)) \o <<x>> = Plain(heard) \o (DataOf(payload) \o <<x>>)
      BY ONLY <3>2 DEF Cat
    <3> QED
      BY <2>4, <2>5, <3>3 DEF Taken
  <2>7. MeantBy(x) = <<x>>
    BY <2>2 DEF MeantBy
  <2>8. Left' = EncodeAll(more)
    BY <1>6, <1>8, <2>2, StringNeutral
  <2> QED
    BY <1>1, <1>9, <2>1, <2>6, <2>7, <2>8, ItemDone
<1> QED
  BY <1>10, <1>11
LEMMA IacKeepsParsed ==
  ASSUME Types, Parsed, ParseIac
  PROVE  Parsed'
<1>1. /\ chunk # <<>> /\ parse = "Iac" /\ chunk' = Tail(chunk) /\ script' = script /\ wire' = wire
      /\ chunk \in Strings /\ wire \in Strings /\ payload \in Strings /\ heard \in Deeds
  BY DEF Types, ParseIac, At, Session, Proceed
<1>2. PICK done \in Talk, rest \in Talk, x \in Items, t \in Strings : Within(done, x, t, rest)
  BY <1>1, Split
<1>3. /\ script = done \o (<<x>> \o rest) /\ Left = t \o EncodeAll(rest)
      /\ Taken = MeantOf(done) /\ Encode(x) = <<IAC>> \o t
  BY <1>1, <1>2 DEF Within, Inside
<1>4. EncodeAll(rest) \in Strings
  BY EncodeAllType
<1>5. ASSUME NEW b \in Bytes, NEW u \in Strings, t = <<b>> \o u
      PROVE  Byte = b /\ Left' = u \o EncodeAll(rest)
  BY <1>1, <1>3, <1>4, <1>5, ConsumedOf
<1>6. ASSUME NEW b \in Bytes, t = <<b>>
      PROVE  Byte = b /\ Left' = EncodeAll(rest)
  BY <1>1, <1>3, <1>4, <1>6, Consumed
<1>7. ASSUME NEW u \in Strings, Encode(x) = <<IAC>> \o u PROVE t = u
  BY <1>3, <1>7, StringHead, Constants
<1>8. /\ <<IAC>> \in Strings /\ <<241>> \in Strings
      /\ \A c, o \in Bytes : <<c>> \o <<o>> \in Strings
      /\ \A s \in Strings : Escaped(s) \o (<<IAC>> \o <<SE>>) \in Strings
      /\ \A s \in Strings : <<SB>> \o s \in Strings
  BY Constants, StringOne, StringConcat, EscapedType
<1>9. Byte # IAC => Taken' = MeantOf(done)
  <2> SUFFICES ASSUME Byte # IAC PROVE Taken' = MeantOf(done)
    OBVIOUS
  <2>1. Proceed(payload, heard)
    BY DEF ParseIac
  <2> QED
    BY <1>1, <1>3, <2>1, Proceeds DEF Taken
<1>10. CASE \E d \in Bytes : x = <<"data", d>>
  <2>1. PICK d \in Bytes : x = <<"data", d>>
    BY <1>10
  <2>2. d = IAC
    <3> SUFFICES ASSUME d # IAC PROVE FALSE
      OBVIOUS
    <3>1. <<IAC>> \o t = <<d>>
      BY <1>3, <2>1, EncodeData
    <3> QED
      BY <3>1, StringOnly, Constants
  <2>3. t = <<IAC>>
    BY <1>7, <1>8, <2>1, <2>2, EncodeData
  <2>4. Byte = IAC /\ Left' = EncodeAll(rest)
    BY <1>6, <2>3, Constants
  <2>5. parse' = "Data" /\ Proceed(Append(payload, IAC), heard)
    BY <2>4, Constants DEF ParseIac
  <2>6. Append(payload, IAC) = payload \o <<IAC>> /\ payload \o <<IAC>> \in Strings
    BY <1>1, <1>8, AppendIsConcat, StringConcat, Constants DEF Strings
  <2>7. Taken' = Plain(heard) \o DataOf(payload \o <<IAC>>)
    BY <1>1, <2>5, <2>6, Proceeds
  <2>8. DataOf(payload \o <<IAC>>) = DataOf(payload) \o <<x>>
    <3>1. DataOf(payload \o <<IAC>>) = DataOf(payload) \o DataOf(<<IAC>>)
      BY <1>1, <1>8, DataOfConcat
    <3>2. DataOf(<<IAC>>) = <<x>>
      BY <2>1, <2>2, DataOfOne, Constants
    <3> QED
      BY <3>1, <3>2
  <2>9. Plain(heard) \in Talk /\ DataOf(payload) \in Talk /\ <<x>> \in Talk
    BY <1>1, PlainType, DataOfType, TalkOne
  <2>10. (Plain(heard) \o DataOf(payload)) \o <<x>> = Plain(heard) \o (DataOf(payload) \o <<x>>)
    <3>1. Cat(Cat(Plain(heard), DataOf(payload)), <<x>>) = Cat(Plain(heard), Cat(DataOf(payload), <<x>>))
      BY ONLY <2>9, TalkRegroups
    <3> QED
      BY ONLY <3>1 DEF Cat
  <2>11. Taken' = Taken \o <<x>> /\ MeantBy(x) = <<x>>
    BY <2>1, <2>7, <2>8, <2>10 DEF Taken, MeantBy
  <2> QED
    BY <1>1, <1>3, <2>4, <2>5, <2>11, ItemDone
<1>11. CASE \E c \in Commands, o \in Bytes : x = <<"neg", c, o>>
  <2>1. PICK c \in Commands, o \in Bytes : x = <<"neg", c, o>>
    BY <1>11
  <2>2. c \in Bytes /\ <<o>> \in Strings
    BY Constants, StringOne
  <2>3. t = <<c>> \o <<o>>
    <3>1. Encode(x) = <<IAC>> \o (<<c>> \o <<o>>) /\ <<c>> \o <<o>> \in Strings
      BY <1>8, <2>1, <2>2, EncodeNeg
    <3> QED
      BY <1>7, <3>1
  <2>4. Byte = c /\ Left' = <<o>> \o EncodeAll(rest)
    BY <1>5, <2>2, <2>3
  <2>5. parse' = "Option" /\ command' = c /\ Byte # IAC
    BY <2>4, Constants DEF ParseIac
  <2>6. Inside(x, <<o>>)'
    BY <2>1, <2>5 DEF Inside
  <2> QED
    BY <1>1, <1>3, <1>9, <2>2, <2>4, <2>5, <2>6, ItemGoesOn
<1>12. CASE \E body \in Strings : x = <<"sub", body>>
  <2>1. PICK body \in Strings : x = <<"sub", body>>
    BY <1>12
  <2> DEFINE u == Escaped(body) \o (<<IAC>> \o <<SE>>)
  <2>2. u \in Strings
    BY <1>8
  <2>3. t = <<SB>> \o u
    BY <1>7, <1>8, <2>1, EncodeSub
  <2>4. Byte = SB /\ Left' = u \o EncodeAll(rest)
    BY <1>5, <2>2, <2>3, Constants
  <2>5. parse' = "Subneg" /\ subneg' = <<>> /\ Byte # IAC
    BY <2>4, Constants DEF ParseIac
  <2>6. Inside(x, u)'
    <3>1. x = <<"sub", <<>> \o body>> /\ <<>> \in Strings /\ subneg' = Kept(<<>>)
      BY <2>1, <2>5, StringNeutral, StringEmpty, KeptEmpty
    <3> QED
      BY <2>5, <3>1 DEF Inside
  <2> QED
    BY <1>1, <1>3, <1>9, <2>2, <2>4, <2>5, <2>6, ItemGoesOn
<1>13. CASE x = <<"nop">>
  <2>1. t = <<241>>
    BY <1>7, <1>8, <1>13, EncodeNop
  <2>2. Byte = 241 /\ Left' = EncodeAll(rest)
    BY <1>6, <2>1, Constants
  <2>3. parse' = "Data" /\ Byte # IAC
    BY <2>2, Constants DEF ParseIac
  <2>4. MeantBy(x) = <<>> /\ MeantOf(done) \in Talk
    BY <1>13, MeantOfType DEF MeantBy
  <2>5. Taken' = MeantOf(done) \o MeantBy(x)
    BY <1>9, <2>3, <2>4, TalkNeutral
  <2> QED
    BY <1>1, <1>3, <2>2, <2>3, <2>5, ItemDone
<1> QED
  BY <1>10, <1>11, <1>12, <1>13, ItemIs
LEMMA DeedsOne == \A y \in Acts : <<y>> \in Deeds
BY Singleton DEF Deeds

LEMMA PlainOne == \A y \in Acts : Plain(<<y>>) = <<PlainAct[y]>>
BY PlainActType, MappedOne DEF Plain

(* A negotiation or a request: what came before it is flushed first.       *)
LEMMA ActedUpon ==
  ASSUME heard \in Deeds, payload \in Strings, chunk \in Strings, chunk # <<>>,
         NEW y \in Acts, y \in Items, y[1] # "data",
         Proceed(<<>>, heard \o Flushed(payload) \o <<y>>)
  PROVE  /\ Taken' = Taken \o <<y>>
         /\ heard' \in Deeds /\ payload' \in Strings
         /\ chunk' = <<>> => payload' = <<>>
         /\ \E more \in Talk : Plain(heard') = (Taken \o <<y>>) \o more
<1> DEFINE f == Flushed(payload)
           acted == (heard \o f) \o <<y>>
<1>1. f \in Deeds /\ Plain(f) = DataOf(payload)
  BY FlushedIsData
<1>2. <<y>> \in Deeds /\ Plain(<<y>>) = <<y>>
  BY DeedsOne, PlainOne DEF PlainAct
<1> HIDE DEF f
<1>3. /\ heard \o f \in Deeds /\ acted \in Deeds
      /\ Plain(acted) = (Plain(heard) \o DataOf(payload)) \o <<y>>
  <2>1. heard \o f \in Deeds /\ Plain(heard \o f) = Plain(heard) \o DataOf(payload)
    BY <1>1, DeedsConcat, PlainConcat
  <2>2. acted \in Deeds /\ Plain(acted) = Plain(heard \o f) \o Plain(<<y>>)
    BY <1>2, <2>1, DeedsConcat, PlainConcat
  <2> QED
    BY <1>2, <2>1, <2>2
<1>4. Plain(acted) = Taken \o <<y>> /\ Plain(acted) \in Talk
  BY <1>3, PlainType DEF Taken
<1>5. Proceed(<<>>, acted)
  BY DEF f
<1> HIDE DEF acted
<1>6. /\ heard' \in Deeds /\ payload' \in Strings
      /\ chunk' = <<>> => payload' = <<>>
      /\ Taken' = Plain(acted) \o DataOf(<<>>)
      /\ \E more \in Talk : Plain(heard') = Plain(acted) \o more
  BY <1>3, <1>5, Proceeds, StringEmpty
<1>7. Plain(acted) \o DataOf(<<>>) = Plain(acted)
  BY <1>4, DataOfEmpty, TalkNeutral
<1> QED
  BY <1>4, <1>6, <1>7

LEMMA OptionKeepsParsed ==
  ASSUME Types, Parsed, ParseOption
  PROVE  Parsed'
<1>1. /\ chunk # <<>> /\ parse = "Option" /\ chunk' = Tail(chunk) /\ script' = script /\ wire' = wire
      /\ chunk \in Strings /\ wire \in Strings /\ payload \in Strings /\ heard \in Deeds
      /\ parse' = "Data" /\ Proceed(<<>>, heard \o Flushed(payload) \o << <<"neg", command, Byte>> >>)
  BY DEF Types, ParseOption, At, Session, Proceed
<1>2. PICK done \in Talk, rest \in Talk, x \in Items, t \in Strings : Within(done, x, t, rest)
  BY <1>1, Split
<1>3. /\ script = done \o (<<x>> \o rest) /\ Left = t \o EncodeAll(rest)
      /\ Taken = MeantOf(done) /\ \E o \in Bytes : x = <<"neg", command, o>> /\ t = <<o>>
  BY <1>1, <1>2 DEF Within, Inside
<1>4. PICK o \in Bytes : x = <<"neg", command, o>> /\ t = <<o>>
  BY <1>3
<1>5. EncodeAll(rest) \in Strings
  BY EncodeAllType
<1>6. Byte = o /\ Left' = EncodeAll(rest)
  BY <1>1, <1>3, <1>4, <1>5, Consumed
<1>7. x \in Acts /\ x[1] # "data" /\ MeantBy(x) = <<x>>
  BY <1>4 DEF Acts, Items, MeantBy
<1>8. Proceed(<<>>, heard \o Flushed(payload) \o <<x>>)
  BY <1>1, <1>4, <1>6
<1>9. Taken' = MeantOf(done) \o MeantBy(x)
  BY <1>1, <1>3, <1>7, <1>8, ActedUpon
<1> QED
  BY <1>1, <1>3, <1>6, <1>9, ItemDone
LEMMA LongerIsKept ==
  ASSUME NEW body \in Strings, NEW b \in Bytes, subneg = Kept(body)
  PROVE  /\ Longer(b) = Kept(body \o <<b>>)
         /\ body \o <<b>> \in Strings /\ Longer(b) \in Strings
<1>1. body \in Seq(Bytes) /\ Append(body, b) = body \o <<b>> /\ body \o <<b>> \in Strings
  BY AppendIsConcat, StringOne, StringConcat DEF Strings
<1>2. Kept(Append(body, b)) = IF Len(Kept(body)) < SubnegMax THEN Append(Kept(body), b)
                                                             ELSE Kept(body)
  BY <1>1, KeptLonger
<1>3. Longer(b) = Kept(Append(body, b))
  BY <1>2 DEF Longer
<1> QED
  BY <1>1, <1>3, KeptType

LEMMA SubnegKeepsParsed ==
  ASSUME Types, Parsed, ParseSubneg
  PROVE  Parsed'
<1>1. /\ chunk # <<>> /\ parse = "Subneg" /\ chunk' = Tail(chunk) /\ script' = script /\ wire' = wire
      /\ chunk \in Strings /\ wire \in Strings /\ payload \in Strings /\ heard \in Deeds
      /\ parse' = IF Byte = IAC THEN "SubnegIac" ELSE "Subneg"
      /\ subneg' = IF Byte = IAC THEN subneg ELSE Longer(Byte)
      /\ Proceed(payload, heard)
  BY DEF Types, ParseSubneg, At, Session, Proceed
<1>2. PICK done \in Talk, rest \in Talk, x \in Items, t \in Strings : Within(done, x, t, rest)
  BY <1>1, Split
<1>3. /\ script = done \o (<<x>> \o rest) /\ Left = t \o EncodeAll(rest)
      /\ Taken = MeantOf(done)
      /\ \E b1, b2 \in Strings :
           /\ x = <<"sub", b1 \o b2>> /\ subneg = Kept(b1)
           /\ t = Escaped(b2) \o (<<IAC>> \o <<SE>>)
  BY <1>1, <1>2 DEF Within, Inside
<1> DEFINE end == <<IAC>> \o <<SE>>
<1>4. PICK b1 \in Strings, b2 \in Strings :
        x = <<"sub", b1 \o b2>> /\ subneg = Kept(b1) /\ t = Escaped(b2) \o end
  BY <1>3
<1>5. /\ EncodeAll(rest) \in Strings /\ end \in Strings
      /\ <<IAC>> \in Strings /\ <<SE>> \in Strings /\ IAC \in Bytes
      /\ \A s \in Strings : Escaped(s) \in Strings /\ Escaped(s) \o end \in Strings
  BY EncodeAllType, Constants, StringOne, StringConcat, EscapedType
<1>6. Taken' = MeantOf(done)
  BY <1>1, <1>3, Proceeds DEF Taken
<1>7. ASSUME NEW b \in Bytes, NEW u \in Strings, t = <<b>> \o u
      PROVE  Byte = b /\ Left' = u \o EncodeAll(rest)
  BY <1>1, <1>3, <1>5, <1>7, ConsumedOf
<1>8. CASE b2 = <<>>
  <2>1. t = <<IAC>> \o <<SE>> /\ b1 \o b2 = b1
    BY <1>4, <1>5, <1>8, EscapedEmpty, StringNeutral
  <2>2. Byte = IAC /\ Left' = <<SE>> \o EncodeAll(rest)
    BY <1>5, <1>7, <2>1
  <2>3. Inside(x, <<SE>>)'
    <3>1. parse' = "SubnegIac" /\ subneg' = Kept(b1) /\ x = <<"sub", b1>>
      BY <1>1, <1>4, <2>1, <2>2
    <3> QED
      BY <3>1 DEF Inside
  <2> QED
    BY <1>1, <1>3, <1>5, <1>6, <2>2, <2>3, ItemGoesOn
<1>9. CASE b2 # <<>>
  <2>1. PICK b \in Bytes, v \in Strings : b2 = <<b>> \o v
    BY <1>9, StringMore
  <2> DEFINE u == Escaped(v) \o end
  <2>2. u \in Strings /\ <<b>> \in Strings /\ Escaped(b2) = Escaped(<<b>>) \o Escaped(v)
    BY <1>5, <2>1, StringOne, EscapedConcat
  <2>3. CASE b = IAC
    <3>1. Escaped(<<b>>) = <<IAC>> \o <<IAC>>
      BY <2>3, EscapedOne
    <3>2. ((<<IAC>> \o <<IAC>>) \o Escaped(v)) \o end = <<IAC>> \o (<<IAC>> \o u)
      <4> HIDE DEF end
      <4>1. <<IAC>> \in Strings /\ Escaped(v) \in Strings /\ end \in Strings
        BY <1>5
      <4> QED
        BY <4>1, StringConcat, StringAssociative
    <3>3. t = <<IAC>> \o (<<IAC>> \o u) /\ <<IAC>> \o u \in Strings
      <4> HIDE DEF u
      <4> QED
        BY <1>4, <1>5, <2>2, <3>1, <3>2, StringConcat
    <3>4. Byte = IAC /\ Left' = (<<IAC>> \o u) \o EncodeAll(rest)
      <4> HIDE DEF u
      <4> QED
        BY <1>5, <1>7, <3>3
    <3>5. Inside(x, <<IAC>> \o u)'
      <4>1. parse' = "SubnegIac" /\ subneg' = Kept(b1) /\ x = <<"sub", b1 \o (<<IAC>> \o v)>>
        BY <1>1, <1>4, <2>1, <2>3, <3>4
      <4> QED
        BY <4>1 DEF Inside
    <3> QED
      BY <1>1, <1>3, <1>6, <3>3, <3>4, <3>5, ItemGoesOn
  <2>4. CASE b # IAC
    <3>1. Escaped(<<b>>) = <<b>>
      BY <2>4, EscapedOne
    <3>2. (<<b>> \o Escaped(v)) \o end = <<b>> \o u
      <4> HIDE DEF end
      <4>1. <<b>> \in Strings /\ Escaped(v) \in Strings /\ end \in Strings
        BY <1>5, <2>2
      <4> QED
        BY <4>1, StringAssociative
    <3>3. t = <<b>> \o u
      <4> HIDE DEF u
      <4> QED
        BY <1>4, <2>2, <3>1, <3>2
    <3>4. Byte = b /\ Left' = u \o EncodeAll(rest)
      <4> HIDE DEF u
      <4> QED
        BY <1>7, <2>2, <3>3
    <3>5. Inside(x, u)'
      <4>1. /\ b1 \o <<b>> \in Strings /\ Longer(b) = Kept(b1 \o <<b>>)
        BY <1>4, LongerIsKept
      <4>2. b1 \o (<<b>> \o v) = (b1 \o <<b>>) \o v
        <5>1. b1 \in Strings /\ <<b>> \in Strings /\ v \in Strings
          BY <2>2, <1>4, StringOne
        <5>2. Cat(Cat(b1, <<b>>), v) = Cat(b1, Cat(<<b>>, v))
          BY ONLY <5>1, CatAssociative
        <5> QED
          BY ONLY <5>2 DEF Cat
      <4>3. /\ parse' = "Subneg" /\ subneg' = Kept(b1 \o <<b>>)
            /\ x = <<"sub", (b1 \o <<b>>) \o v>>
        BY <1>1, <1>4, <2>1, <2>4, <3>4, <4>1, <4>2
      <4> QED
        BY <4>1, <4>3 DEF Inside
    <3> QED
      BY <1>1, <1>3, <1>6, <2>2, <3>4, <3>5, ItemGoesOn
  <2> QED
    BY <2>3, <2>4
<1> QED
  BY <1>8, <1>9

LEMMA SubnegIacKeepsParsed ==
  ASSUME Types, Parsed, ParseSubnegIac
  PROVE  Parsed'
<1>1. /\ chunk # <<>> /\ parse = "SubnegIac" /\ chunk' = Tail(chunk) /\ script' = script /\ wire' = wire
      /\ chunk \in Strings /\ wire \in Strings /\ payload \in Strings /\ heard \in Deeds
      /\ subneg \in Strings
  BY DEF Types, ParseSubnegIac, At, Session, Proceed
<1>2. PICK done \in Talk, rest \in Talk, x \in Items, t \in Strings : Within(done, x, t, rest)
  BY <1>1, Split
<1> DEFINE end == <<IAC>> \o <<SE>>
<1>3. /\ script = done \o (<<x>> \o rest) /\ Left = t \o EncodeAll(rest)
      /\ Taken = MeantOf(done)
  BY <1>2 DEF Within
<1>4. PICK b1 \in Strings :
        /\ subneg = Kept(b1)
        /\ \/ x = <<"sub", b1>> /\ t = <<SE>>
           \/ \E b2 \in Strings :
                x = <<"sub", b1 \o (<<IAC>> \o b2)>> /\ t = <<IAC>> \o (Escaped(b2) \o end)
  BY <1>1, <1>2 DEF Within, Inside
<1>5. /\ EncodeAll(rest) \in Strings /\ IAC \in Bytes /\ SE \in Bytes /\ IAC # SE
      /\ <<IAC>> \in Strings
      /\ \A s \in Strings : Escaped(s) \o end \in Strings
  BY EncodeAllType, Constants, StringOne, StringConcat, EscapedType
<1>6. CASE x = <<"sub", b1>> /\ t = <<SE>>
  <2>1. Byte = SE /\ Left' = EncodeAll(rest)
    BY <1>1, <1>3, <1>5, <1>6, Consumed
  <2> DEFINE y == <<"sub", subneg>>
  <2>2. parse' = "Data" /\ Proceed(<<>>, heard \o Flushed(payload) \o <<y>>)
    BY <2>1 DEF ParseSubnegIac
  <2>3. y \in Acts /\ y \in Items /\ y[1] # "data"
    BY <1>1 DEF Acts, Items, Strings
  <2>4. MeantBy(x) = <<y>>
    BY <1>4, <1>6 DEF MeantBy
  <2> HIDE DEF y
  <2>5. Taken' = Taken \o <<y>>
    BY <1>1, <2>2, <2>3, ActedUpon
  <2> QED
    BY <1>1, <1>3, <2>1, <2>2, <2>4, <2>5, ItemDone
<1>7. CASE \E b2 \in Strings :
             x = <<"sub", b1 \o (<<IAC>> \o b2)>> /\ t = <<IAC>> \o (Escaped(b2) \o end)
  <2>1. PICK b2 \in Strings :
          x = <<"sub", b1 \o (<<IAC>> \o b2)>> /\ t = <<IAC>> \o (Escaped(b2) \o end)
    BY <1>7
  <2> DEFINE u == Escaped(b2) \o end
  <2>2. u \in Strings
    BY <1>5
  <2>3. Byte = IAC /\ Left' = u \o EncodeAll(rest)
    <3> HIDE DEF u
    <3>1. Left = (<<IAC>> \o u) \o EncodeAll(rest)
      BY <1>3, <2>1 DEF u
    <3> QED
      BY <1>1, <1>5, <2>2, <3>1, ConsumedOf
  <2>4. parse' = "Subneg" /\ subneg' = Longer(IAC) /\ Proceed(payload, heard)
    BY <1>5, <2>3 DEF ParseSubnegIac
  <2>5. Taken' = MeantOf(done)
    BY <1>1, <1>3, <2>4, Proceeds DEF Taken
  <2>6. Inside(x, u)'
    <3>1. b1 \o <<IAC>> \in Strings /\ Longer(IAC) = Kept(b1 \o <<IAC>>)
      BY <1>4, <1>5, LongerIsKept
    <3>2. b1 \o (<<IAC>> \o b2) = (b1 \o <<IAC>>) \o b2
      <4>1. b1 \in Strings /\ <<IAC>> \in Strings /\ b2 \in Strings
        BY <1>5
      <4>2. Cat(Cat(b1, <<IAC>>), b2) = Cat(b1, Cat(<<IAC>>, b2))
        BY ONLY <4>1, CatAssociative
      <4> QED
        BY ONLY <4>2 DEF Cat
    <3>3. /\ parse' = "Subneg" /\ subneg' = Kept(b1 \o <<IAC>>)
          /\ x = <<"sub", (b1 \o <<IAC>>) \o b2>>
      BY <2>1, <2>4, <3>1, <3>2
    <3> QED
      BY <3>1, <3>3 DEF Inside
  <2> QED
    BY <1>1, <1>3, <2>2, <2>3, <2>5, <2>6, ItemGoesOn
<1> QED
  BY <1>4, <1>6, <1>7
LEMMA ParsedIsPrefix ==
  ASSUME Types, Parsed
  PROVE  IsPrefix(Heard, Meant)
<1>1. Heard = Plain(heard) /\ Meant = MeantOf(script)
  BY HeardIsPlain, MeantJoined DEF Types, Meant
<1>2. PICK done \in Talk, more \in Talk : script = done \o more /\ Taken = MeantOf(done)
  <2>1. \A x \in Items, t \in Talk : <<x>> \o t \in Talk
    BY TalkOne, TalkConcat
  <2> QED
    BY <2>1 DEF Parsed, Between, Within
<1>3. Plain(heard) \in Talk /\ DataOf(payload) \in Talk /\ MeantOf(more) \in Talk
  BY PlainType, DataOfType, MeantOfType DEF Types
<1>4. MeantOf(script) = (Plain(heard) \o DataOf(payload)) \o MeantOf(more)
  BY <1>2, MeantOfConcat DEF Taken
<1>5. /\ MeantOf(script) = Plain(heard) \o (DataOf(payload) \o MeantOf(more))
      /\ DataOf(payload) \o MeantOf(more) \in Talk
  <2>1. (Plain(heard) \o DataOf(payload)) \o MeantOf(more)
          = Plain(heard) \o (DataOf(payload) \o MeantOf(more))
    <3>1. Cat(Cat(Plain(heard), DataOf(payload)), MeantOf(more))
            = Cat(Plain(heard), Cat(DataOf(payload), MeantOf(more)))
      BY ONLY <1>3, TalkRegroups
    <3> QED
      BY ONLY <3>1 DEF Cat
  <2> QED
    BY <1>3, <1>4, <2>1, TalkConcat
<1>6. \A s, t \in Talk : IsPrefix(s, s \o t)
  BY PrefixOfConcat DEF Talk
<1> QED
  BY <1>1, <1>3, <1>5, <1>6

LEMMA ParsedStays ==
  ASSUME Parsed, Left' = Left, UNCHANGED <<script, parse, command, subneg, payload, heard>>
  PROVE  Parsed'
<1>1. Taken' = Taken
  BY DEF Taken
<1>2. CASE \E done, rest \in Talk : Between(done, rest)
  BY <1>1, <1>2 DEF Parsed, Between
<1>3. CASE \E done, rest \in Talk, x \in Items, t \in Strings : Within(done, x, t, rest)
  <2>1. PICK done \in Talk, rest \in Talk, x \in Items, t \in Strings : Within(done, x, t, rest)
    BY <1>3
  <2>2. Inside(x, t)'
    BY <2>1 DEF Within, Inside
  <2>3. Within(done, x, t, rest)'
    BY <1>1, <2>1, <2>2 DEF Within
  <2> QED
    BY <2>3 DEF Parsed
<1> QED
  BY <1>2, <1>3 DEF Parsed

(* ------------------------------- every step ---------------------------- *)

LEMMA HeardInit == Init => HeardInv
<1> SUFFICES ASSUME Init PROVE HeardInv
  OBVIOUS
<1>1. /\ ~served /\ parse = "Data" /\ script = <<>> /\ heard = <<>> /\ command = 0 /\ wire = <<>>
      /\ chunk = <<>> /\ payload = <<>> /\ subneg = <<>>
  BY DEF Init
<1>2. <<>> \in Deeds /\ Plain(<<>>) = <<>>
  BY EmptySeq DEF Deeds, Plain, Mapped
<1>3. Types
  BY <1>1, <1>2, StringEmpty, TalkEmpty DEF Types, Bytes
<1>4. Heard = <<>> /\ Meant = <<>>
  BY <1>1, <1>2, HeardIsPlain, MeantJoined, MeantOfEmpty, TalkEmpty DEF Meant
<1>5. IsPrefix(<<>>, <<>>)
  BY DEF IsPrefix
<1> QED
  BY <1>1, <1>3, <1>4, <1>5 DEF HeardInv

LEMMA HeardConnect ==
  ASSUME HeardInv, NEW s \in Scripts, Connect(s)
  PROVE  HeardInv'
<1>1. /\ Types /\ ~served
      /\ served' = TRUE /\ parse' = "Data" /\ subneg' = <<>> /\ script' = s
      /\ wire' = EncodeAll(s) /\ heard' = <<>>
      /\ UNCHANGED <<chunk, command, payload>>
  BY DEF HeardInv, Connect
<1>2. chunk = <<>> /\ payload = <<>>
  BY <1>1 DEF Types
<1>3. s \in Talk /\ EncodeAll(s) \in Strings
  BY TelnetAssumption, EncodeAllType DEF Talk
<1>4. <<>> \in Deeds /\ Plain(<<>>) = <<>>
  BY EmptySeq DEF Deeds, Plain, Mapped
<1>5. Types'
  BY <1>1, <1>2, <1>3, <1>4, StringEmpty DEF Types
<1>6. Left' = EncodeAll(s)
  BY <1>1, <1>2, <1>3, StringNeutral DEF Left
<1>7. Taken' = MeantOf(<<>>)
  BY <1>1, <1>2, <1>4, DataOfEmpty, MeantOfEmpty, TalkEmpty, TalkNeutral DEF Taken
<1>8. Between(<<>>, s)'
  BY <1>1, <1>3, <1>6, <1>7, TalkNeutral DEF Between
<1>9. Parsed'
  BY <1>3, <1>8, TalkEmpty DEF Parsed
<1> QED
  BY <1>1, <1>5, <1>9 DEF HeardInv

LEMMA HeardReceive ==
  ASSUME HeardInv, NEW n \in 1 .. Chunk, Receive(n)
  PROVE  HeardInv'
<1>1. /\ Types /\ served /\ Parsed /\ chunk = <<>> /\ Len(wire) >= n
      /\ chunk' = SubSeq(wire, 1, n) /\ wire' = SubSeq(wire, n + 1, Len(wire))
      /\ UNCHANGED <<script, parse, command, subneg, payload, heard, served>>
  BY DEF HeardInv, Receive
<1>2. wire \in Seq(Bytes) /\ Len(wire) \in Nat /\ n \in 1 .. Len(wire) /\ n \in Nat
  BY <1>1, TelnetAssumption, LenProperties DEF Types, Strings
<1>3. chunk' \in Strings /\ wire' \in Strings
  <2>1. /\ \A i \in 1 .. n : wire[i] \in Bytes
        /\ \A i \in n + 1 .. Len(wire) : wire[i] \in Bytes
    BY <1>2, ElementOfSeq
  <2> QED
    BY <1>1, <1>2, <2>1, SubSeqProperties DEF Strings
<1>4. Left' = wire
  <2>1. SubSeq(wire, 1, n) \o SubSeq(wire, n + 1, Len(wire)) = SubSeq(wire, 1, Len(wire))
    BY <1>2, ConcatAdjacentSubSeq
  <2>2. SubSeq(wire, 1, Len(wire)) = wire
    BY <1>2, SubSeqFull
  <2> QED
    BY <1>1, <2>1, <2>2 DEF Left
<1>5. Left = wire
  BY <1>1, StringNeutral DEF Types, Left
<1>6. Parsed'
  BY <1>1, <1>4, <1>5, ParsedStays
<1>7. Types'
  BY <1>1, <1>3 DEF Types
<1> QED
  BY <1>1, <1>6, <1>7 DEF HeardInv
LEMMA ParserTypes ==
  ASSUME Types, ParseData \/ ParseIac \/ ParseOption \/ ParseSubneg \/ ParseSubnegIac
  PROVE  Types'
<1>1. /\ chunk # <<>> /\ chunk' = Tail(chunk) /\ script' = script /\ wire' = wire /\ served' = served
      /\ script \in Talk /\ heard \in Deeds /\ command \in Bytes /\ served
      /\ wire \in Strings /\ chunk \in Strings /\ payload \in Strings /\ subneg \in Strings
  BY DEF Types, ParseData, ParseIac, ParseOption, ParseSubneg, ParseSubnegIac, At, Session, Proceed
<1>2. Byte \in Bytes /\ chunk' \in Strings
  BY <1>1, LeftTail
<1>3. SUFFICES /\ parse' \in {"Data", "Iac", "Option", "Subneg", "SubnegIac"}
               /\ heard' \in Deeds /\ command' \in Bytes /\ payload' \in Strings /\ subneg' \in Strings
               /\ chunk' = <<>> => payload' = <<>>
               /\ parse' = "Option" => command' \in Commands
  BY <1>1, <1>2 DEF Types
<1>4. /\ \A b \in Bytes : Append(payload, b) \in Strings
      /\ \A b \in Bytes : Longer(b) \in Strings
  BY <1>1, AppendProperties DEF Strings, Longer
<1>5. ASSUME NEW data \in Strings, Proceed(data, heard)
      PROVE  heard' \in Deeds /\ payload' \in Strings /\ (chunk' = <<>> => payload' = <<>>)
  BY <1>1, <1>5, Proceeds
<1>6. ASSUME NEW y \in Acts, y \in Items, y[1] # "data",
             Proceed(<<>>, heard \o Flushed(payload) \o <<y>>)
      PROVE  heard' \in Deeds /\ payload' \in Strings /\ (chunk' = <<>> => payload' = <<>>)
  BY <1>1, <1>6, ActedUpon
<1>7. CASE ParseData
  <2>1. /\ parse' = (IF Byte = IAC THEN "Iac" ELSE "Data") /\ command' = command /\ subneg' = subneg
        /\ Proceed(IF Byte = IAC THEN payload ELSE Append(payload, Byte), heard)
    BY <1>7 DEF ParseData
  <2>2. (IF Byte = IAC THEN payload ELSE Append(payload, Byte)) \in Strings
    BY <1>1, <1>2, <1>4
  <2> QED
    BY <1>1, <1>5, <2>1, <2>2
<1>8. CASE ParseIac
  <2>1. /\ parse' = (IF Byte \in Commands THEN "Option" ELSE IF Byte = SB THEN "Subneg" ELSE "Data")
        /\ command' = (IF Byte \in Commands THEN Byte ELSE command)
        /\ subneg' = (IF Byte = SB THEN <<>> ELSE subneg)
        /\ Proceed(IF Byte = IAC THEN Append(payload, IAC) ELSE payload, heard)
    BY <1>8 DEF ParseIac
  <2>2. (IF Byte = IAC THEN Append(payload, IAC) ELSE payload) \in Strings
    BY <1>1, <1>4, Constants
  <2> QED
    BY <1>1, <1>2, <1>5, <2>1, <2>2, StringEmpty
<1>9. CASE ParseOption
  <2> DEFINE y == <<"neg", command, Byte>>
  <2>1. /\ parse' = "Data" /\ command' = command /\ subneg' = subneg /\ command \in Commands
        /\ Proceed(<<>>, heard \o Flushed(payload) \o <<y>>)
    BY <1>9 DEF ParseOption, At, Types
  <2>2. y \in Acts /\ y \in Items /\ y[1] # "data"
    BY <1>2, <2>1 DEF Acts, Items
  <2> HIDE DEF y
  <2> QED
    BY <1>1, <1>6, <2>1, <2>2
<1>10. CASE ParseSubneg
  <2>1. /\ parse' = (IF Byte = IAC THEN "SubnegIac" ELSE "Subneg") /\ command' = command
        /\ subneg' = (IF Byte = IAC THEN subneg ELSE Longer(Byte))
        /\ Proceed(payload, heard)
    BY <1>10 DEF ParseSubneg
  <2> QED
    BY <1>1, <1>2, <1>4, <1>5, <2>1
<1>11. CASE ParseSubnegIac
  <2>1. CASE Byte = SE
    <3> DEFINE y == <<"sub", subneg>>
    <3>1. /\ parse' = "Data" /\ command' = command /\ subneg' = subneg
          /\ Proceed(<<>>, heard \o Flushed(payload) \o <<y>>)
      BY <1>11, <2>1 DEF ParseSubnegIac
    <3>2. y \in Acts /\ y \in Items /\ y[1] # "data"
      BY <1>1 DEF Acts, Items, Strings
    <3> HIDE DEF y
    <3> QED
      BY <1>1, <1>6, <3>1, <3>2
  <2>2. CASE Byte # SE
    <3>1. /\ parse' = "Subneg" /\ command' = command /\ subneg' = Longer(Byte)
          /\ Proceed(payload, heard)
      BY <1>11, <2>2 DEF ParseSubnegIac
    <3> QED
      BY <1>1, <1>2, <1>4, <1>5, <3>1
  <2> QED
    BY <2>1, <2>2
<1> QED
  BY <1>7, <1>8, <1>9, <1>10, <1>11

LEMMA HeardParse ==
  ASSUME HeardInv, ParseData \/ ParseIac \/ ParseOption \/ ParseSubneg \/ ParseSubnegIac
  PROVE  HeardInv'
<1>1. Types /\ chunk # <<>> /\ served' = served
  BY DEF HeardInv, ParseData, ParseIac, ParseOption, ParseSubneg, ParseSubnegIac, At, Session
<1>2. served /\ Parsed
  BY <1>1 DEF HeardInv, Types
<1>3. Types'
  BY <1>1, ParserTypes
<1>4. Parsed'
  BY <1>1, <1>2, DataKeepsParsed, IacKeepsParsed, OptionKeepsParsed, SubnegKeepsParsed,
     SubnegIacKeepsParsed
<1> QED
  BY <1>1, <1>2, <1>3, <1>4 DEF HeardInv

LEMMA HeardDisconnect ==
  ASSUME HeardInv, Disconnect
  PROVE  HeardInv'
<1>1. /\ Types /\ Parsed /\ chunk = <<>> /\ served' = FALSE /\ wire' = <<>>
      /\ UNCHANGED <<script, parse, command, subneg, payload, heard, chunk>>
  BY DEF HeardInv, Disconnect, parser
<1>2. IsPrefix(Heard, Meant)
  BY <1>1, ParsedIsPrefix
<1>3. Heard' = Heard /\ Meant' = Meant
  BY <1>1 DEF Heard, Meant
<1>4. Types'
  BY <1>1, StringEmpty DEF Types
<1> QED
  BY <1>1, <1>2, <1>3, <1>4 DEF HeardInv

LEMMA HeardElse ==
  ASSUME HeardInv,
         UNCHANGED <<script, wire, chunk, parse, command, subneg, payload, heard, served>>
  PROVE  HeardInv'
<1>1. Left' = Left /\ Heard' = Heard /\ Meant' = Meant
  BY DEF Left, Heard, Meant
<1>2. Types'
  BY DEF HeardInv, Types
<1>3. Parsed => Parsed'
  BY <1>1, ParsedStays
<1> QED
  BY <1>1, <1>2, <1>3 DEF HeardInv

LEMMA HeardNext == HeardInv /\ [Next]_vars => HeardInv'
<1> SUFFICES ASSUME HeardInv, [Next]_vars PROVE HeardInv'
  OBVIOUS
<1>1. ASSUME NEW s \in Scripts, Connect(s) PROVE HeardInv'
  BY <1>1, HeardConnect
<1>2. ASSUME NEW n \in 1 .. Chunk, Receive(n) PROVE HeardInv'
  BY <1>2, HeardReceive
<1>3. CASE ParseData \/ ParseIac \/ ParseOption \/ ParseSubneg \/ ParseSubnegIac
  BY <1>3, HeardParse
<1>4. ASSUME NEW data \in Answers, Send(data) PROVE HeardInv'
  BY <1>4, HeardElse DEF Send, parser
<1>5. CASE Disconnect
  BY <1>5, HeardDisconnect
<1>6. CASE Unplug
  BY <1>6, HeardElse DEF Unplug, parser
<1>7. CASE UNCHANGED vars
  BY <1>7, HeardElse DEF vars, parser
<1> QED
  BY <1>1, <1>2, <1>3, <1>4, <1>5, <1>6, <1>7 DEF Next

(* Inside an item something is left of it.                                 *)
LEMMA InsideHasMore ==
  ASSUME NEW x \in Items, NEW t \in Strings, Inside(x, t)
  PROVE  t # <<>>
<1> SUFFICES ASSUME t = <<>> PROVE FALSE
  OBVIOUS
<1>1. <<IAC>> \in Strings /\ <<SE>> \in Strings /\ IAC \in Bytes
  BY Constants, StringOne
<1>2. \A s \in Strings : s \o (<<IAC>> \o <<SE>>) # <<>> /\ <<IAC>> \o s # <<>>
  <2> SUFFICES ASSUME NEW s \in Strings
               PROVE  s \o (<<IAC>> \o <<SE>>) # <<>> /\ <<IAC>> \o s # <<>>
    OBVIOUS
  <2>1. (s \o <<IAC>>) \o <<SE>> = s \o (<<IAC>> \o <<SE>>) /\ s \o <<IAC>> \in Strings
    BY <1>1, StringAssociative, StringConcat
  <2>2. (s \o <<IAC>>) \o <<SE>> # <<>>
    BY <2>1, NotEmpty, Constants DEF Strings
  <2> QED
    BY <1>1, <2>1, <2>2, StringNotEmpty
<1>3. \A b \in Bytes : <<b>> # <<>>
  OBVIOUS
<1>4. Encode(x) # <<IAC>>
  <2>1. ASSUME NEW b \in Bytes PROVE <<IAC>> \o <<b>> # <<IAC>>
    BY <1>1, <1>3, StringOnly, StringOne
  <2>2. ASSUME NEW b \in Bytes, NEW s \in Strings PROVE <<IAC>> \o (<<b>> \o s) # <<IAC>>
    <3>1. <<b>> \o s \in Strings /\ <<b>> \o s # <<>>
      BY StringOne, StringConcat, StringNotEmpty
    <3> QED
      BY <1>1, <3>1, StringOnly
  <2>3. CASE \E b \in Bytes : x = <<"data", b>>
    <3>1. PICK b \in Bytes : x = <<"data", b>>
      BY <2>3
    <3>2. Encode(x) = IF b = IAC THEN <<IAC>> \o <<IAC>> ELSE <<b>>
      BY <3>1, EncodeData
    <3> QED
      BY <1>1, <2>1, <3>2
  <2>4. CASE \E c \in Commands, o \in Bytes : x = <<"neg", c, o>>
    <3>1. PICK c \in Commands, o \in Bytes : x = <<"neg", c, o>>
      BY <2>4
    <3>2. Encode(x) = <<IAC>> \o (<<c>> \o <<o>>) /\ c \in Bytes /\ <<o>> \in Strings
      BY <3>1, EncodeNeg, StringOne, Constants
    <3>3. <<IAC>> \o (<<c>> \o <<o>>) # <<IAC>>
      BY <2>2, <3>2
    <3> QED
      BY <3>2, <3>3
  <2>5. CASE \E body \in Strings : x = <<"sub", body>>
    <3>1. PICK body \in Strings : x = <<"sub", body>>
      BY <2>5
    <3>2. /\ Encode(x) = <<IAC>> \o (<<SB>> \o (Escaped(body) \o (<<IAC>> \o <<SE>>)))
          /\ Escaped(body) \o (<<IAC>> \o <<SE>>) \in Strings
      BY <1>1, <3>1, EncodeSub, EscapedType, StringConcat
    <3> QED
      BY <2>2, <3>2, Constants
  <2>6. CASE x = <<"nop">>
    BY <2>1, <2>6, EncodeNop, Constants
  <2> QED
    BY <2>3, <2>4, <2>5, <2>6, ItemIs
<1>5. Encode(x) # <<IAC>> \o t
  BY <1>1, <1>4, StringNeutral
<1>6. \A s \in Strings : Escaped(s) \in Strings /\ Escaped(s) \o (<<IAC>> \o <<SE>>) \in Strings
  BY <1>1, EscapedType, StringConcat
<1> QED
  BY <1>2, <1>3, <1>5, <1>6, Constants DEF Inside

LEMMA HeardInvIsRight == HeardInv => HeardRight
<1> SUFFICES ASSUME HeardInv PROVE HeardRight
  OBVIOUS
<1>1. IsPrefix(Heard, Meant)
  BY ParsedIsPrefix DEF HeardInv
<1>2. ASSUME served, wire = <<>>, chunk = <<>> PROVE Heard = Meant
  <2>1. Types /\ Parsed /\ payload = <<>> /\ Left = <<>>
    BY <1>2, StringEmpty, StringNeutral DEF HeardInv, Types, Left
  <2>2. Heard = Plain(heard) /\ Meant = MeantOf(script) /\ Plain(heard) \in Talk
    BY <2>1, HeardIsPlain, MeantJoined, PlainType DEF Types, Meant
  <2>3. Taken = Heard
    BY <2>1, <2>2, DataOfEmpty, TalkNeutral DEF Taken
  <2>4. ASSUME NEW done \in Talk, NEW rest \in Talk, Between(done, rest) PROVE Heard = Meant
    <3>1. rest = <<>>
      BY <2>1, <2>4, EncodeAllNothing DEF Between
    <3> QED
      BY <2>2, <2>3, <2>4, <3>1, TalkNeutral DEF Between
  <2>5. ASSUME NEW done \in Talk, NEW rest \in Talk, NEW x \in Items, NEW t \in Strings,
               Within(done, x, t, rest)
        PROVE  FALSE
    <3>1. PICK b \in Bytes, u \in Strings : t = <<b>> \o u
      BY <2>5, InsideHasMore, StringMore DEF Within
    <3>2. <<b>> \in Strings /\ EncodeAll(rest) \in Strings
      BY StringOne, EncodeAllType
    <3>3. Left = <<b>> \o (u \o EncodeAll(rest)) /\ u \o EncodeAll(rest) \in Strings
      BY <2>5, <3>1, <3>2, StringAssociative, StringConcat DEF Within
    <3> QED
      BY <2>1, <3>3, StringNotEmpty
  <2> QED
    BY <2>1, <2>4, <2>5 DEF Parsed
<1> QED
  BY <1>1, <1>2 DEF HeardRight

(* Whatever a client sends, however TCP cuts it and whenever it breaks     *)
(* off, feedFromClient() acts on what the client means, in its order.      *)
THEOREM ServerHearsRight == Spec => []HeardRight
<1>1. Init => HeardInv
  BY HeardInit
<1>2. HeardInv /\ [Next]_vars => HeardInv'
  BY HeardNext
<1>3. HeardInv => HeardRight
  BY HeardInvIsRight
<1> QED
  BY <1>1, <1>2, <1>3, PTL DEF Spec
(* ------------------------------- the client ---------------------------- *)

Idle(items) == Place("data", <<>>, items)

(* read is what the client makes of the first bytes of s.                  *)
Follows(read, s, n) ==
  read[0] = Idle(<<>>) /\ \A i \in 1 .. n : read[i] = Reads(read[i - 1], s[i])

LEMMA FollowsOnce ==
  ASSUME NEW f, NEW g, NEW s, NEW n \in Nat, Follows(f, s, n), Follows(g, s, n)
  PROVE  f[n] = g[n]
<1> DEFINE T == {i \in Nat : i <= n => f[i] = g[i]}
<1>1. 0 \in T
  BY DEF Follows
<1>2. ASSUME NEW i \in Nat, i \in T PROVE i + 1 \in T
  <2> SUFFICES ASSUME i + 1 <= n PROVE f[i + 1] = g[i + 1]
    OBVIOUS
  <2>1. i + 1 \in 1 .. n /\ (i + 1) - 1 = i /\ f[i] = g[i]
    BY <1>2
  <2>2. f[i + 1] = Reads(f[i], s[i + 1]) /\ g[i + 1] = Reads(g[i], s[i + 1])
    BY <2>1 DEF Follows
  <2> QED
    BY <2>1, <2>2
<1>3. \A i \in Nat : i \in T
  <2> HIDE DEF T
  <2> QED
    BY <1>1, <1>2, Induction
<1> QED
  BY <1>3

LEMMA FollowsExists ==
  ASSUME NEW s, NEW n \in Nat
  PROVE  \E f : f = [i \in 0 .. n |-> f[i]] /\ Follows(f, s, n)
<1> DEFINE T == {m \in Nat : \E f : f = [i \in 0 .. m |-> f[i]] /\ Follows(f, s, m)}
<1>1. 0 \in T
  <2> DEFINE f == [i \in 0 .. 0 |-> Idle(<<>>)]
  <2>1. f = [i \in 0 .. 0 |-> f[i]] /\ Follows(f, s, 0)
    BY DEF Follows
  <2> QED
    BY <2>1
<1>2. ASSUME NEW m \in Nat, m \in T PROVE m + 1 \in T
  <2>1. PICK f : f = [i \in 0 .. m |-> f[i]] /\ Follows(f, s, m)
    BY <1>2
  <2> DEFINE g == [i \in 0 .. m + 1 |-> IF i <= m THEN f[i] ELSE Reads(f[m], s[m + 1])]
  <2>2. g = [i \in 0 .. m + 1 |-> g[i]]
    OBVIOUS
  <2>3. g[0] = Idle(<<>>)
    BY <2>1 DEF Follows
  <2>4. ASSUME NEW i \in 1 .. m + 1 PROVE g[i] = Reads(g[i - 1], s[i])
    <3>1. CASE i <= m
      <4>1. i \in 1 .. m /\ i - 1 \in 0 .. m + 1 /\ i - 1 <= m /\ i \in 0 .. m + 1
        BY <3>1
      <4>2. g[i] = f[i] /\ g[i - 1] = f[i - 1]
        BY <3>1, <4>1
      <4>3. f[i] = Reads(f[i - 1], s[i])
        BY <2>1, <4>1 DEF Follows
      <4> QED
        BY <4>2, <4>3
    <3>2. CASE i = m + 1
      <4>1. /\ i - 1 = m /\ m \in 0 .. m + 1 /\ m + 1 \in 0 .. m + 1
            /\ m <= m /\ ~(m + 1 <= m)
        BY <3>2
      <4>2. g[m] = f[m] /\ g[m + 1] = Reads(f[m], s[m + 1])
        BY <4>1
      <4> HIDE DEF g
      <4> QED
        BY <3>2, <4>1, <4>2
    <3> QED
      BY <3>1, <3>2
  <2> HIDE DEF g
  <2>5. Follows(g, s, m + 1)
    BY <2>3, <2>4 DEF Follows
  <2> QED
    BY <2>2, <2>5
<1>3. \A m \in Nat : m \in T
  <2> HIDE DEF T
  <2> QED
    BY <1>1, <1>2, Induction
<1> QED
  BY <1>3

LEMMA UnderstoodFollows ==
  ASSUME NEW s, Len(s) \in Nat
  PROVE  \E f : Follows(f, s, Len(s)) /\ Understood(s) = f[Len(s)]
<1> DEFINE n == Len(s)
           Def(f) == [i \in 0 .. n |-> IF i = 0 THEN Place("data", <<>>, <<>>)
                                      ELSE Reads(f[i - 1], s[i])]
           read == CHOOSE f : f = Def(f)
<1>1. PICK f : f = [i \in 0 .. n |-> f[i]] /\ Follows(f, s, n)
  BY FollowsExists
<1>2. f = Def(f)
  <2>1. ASSUME NEW i \in 0 .. n
        PROVE  f[i] = IF i = 0 THEN Place("data", <<>>, <<>>)
                      ELSE Reads(f[i - 1], s[i])
    <3>1. i = 0 \/ i \in 1 .. n
      OBVIOUS
    <3> QED
      BY <3>1, <1>1 DEF Follows, Idle
  <2> QED
    BY <1>1, <2>1
<1>3. read = Def(read)
  BY <1>2
<1>4. Understood(s) = read[n]
  BY DEF Understood
<1>5. Follows(read, s, n)
  <2> HIDE DEF read
  <2>1. read[0] = Idle(<<>>)
    BY <1>3 DEF Idle
  <2>2. ASSUME NEW i \in 1 .. n PROVE read[i] = Reads(read[i - 1], s[i])
    <3>1. i \in 0 .. n /\ i # 0
      OBVIOUS
    <3> QED
      BY <3>1, <1>3
  <2> QED
    BY <2>1, <2>2 DEF Follows
<1> QED
  BY <1>4, <1>5

LEMMA UnderstoodEmpty == Understood(<<>>) = Idle(<<>>)
<1>1. Len(<<>>) = 0
  OBVIOUS
<1>2. PICK f : Follows(f, <<>>, 0) /\ Understood(<<>>) = f[0]
  BY <1>1, UnderstoodFollows
<1> QED
  BY <1>2 DEF Follows

LEMMA UnderstoodByte ==
  \A s \in Strings, b \in Bytes : Understood(s \o <<b>>) = Reads(Understood(s), b)
<1> SUFFICES ASSUME NEW s \in Seq(Bytes), NEW b \in Bytes
             PROVE  Understood(s \o <<b>>) = Reads(Understood(s), b)
  BY DEF Strings
<1> DEFINE t == s \o <<b>>
           n == Len(s)
<1>1. n \in Nat /\ Len(t) = n + 1 /\ t[n + 1] = b /\ \A i \in 1 .. n : t[i] = s[i]
  <2>1. t = Append(s, b)
    BY AppendIsConcat
  <2> QED
    BY <2>1, AppendProperties, LenProperties
<1> HIDE DEF t
<1>2. PICK f : Follows(f, s, n) /\ Understood(s) = f[n]
  BY <1>1, UnderstoodFollows
<1>3. PICK g : Follows(g, t, n + 1) /\ Understood(t) = g[n + 1]
  BY <1>1, UnderstoodFollows
<1>4. Follows(g, s, n)
  <2>1. ASSUME NEW i \in 1 .. n PROVE g[i] = Reads(g[i - 1], s[i])
    <3>1. i \in 1 .. n + 1 /\ t[i] = s[i]
      BY <1>1
    <3> QED
      BY <1>3, <3>1 DEF Follows
  <2> QED
    BY <1>3, <2>1 DEF Follows
<1>5. f[n] = g[n]
  BY <1>1, <1>2, <1>4, FollowsOnce
<1>6. g[n + 1] = Reads(g[n], b)
  <2>1. n + 1 \in 1 .. n + 1 /\ (n + 1) - 1 = n
    BY <1>1
  <2> QED
    BY <1>1, <1>3, <2>1 DEF Follows
<1> QED
  BY <1>2, <1>3, <1>5, <1>6 DEF t
LEMMA ReadsIdle ==
  ASSUME NEW m, NEW b
  PROVE  Reads(Idle(m), b) =
           IF b = IAC THEN Place("iac", <<>>, m) ELSE Idle(Append(m, <<"data", b>>))
<1> DEFINE r == Place("data", <<>>, m)
<1>1. r.at = "data" /\ r.frame = <<>> /\ r.items = m
  BY DEF Place
<1> HIDE DEF r
<1>2. Reads(r, b) =
           IF b = IAC THEN Place("iac", <<>>, m) ELSE Idle(Append(m, <<"data", b>>))
  BY <1>1 DEF Reads, Idle
<1> QED
  BY <1>2 DEF r, Idle

LEMMA ReadsIac ==
  ASSUME NEW m, NEW b
  PROVE  Reads(Place("iac", <<>>, m), b) =
           IF b = IAC THEN Idle(Append(m, <<"data", b>>))
           ELSE IF b = SB THEN Place("sub", <<>>, m)
           ELSE IF b \in Commands THEN Place("option", <<b>>, m) ELSE Idle(m)
<1> DEFINE r == Place("iac", <<>>, m)
<1>1. r.at = "iac" /\ r.frame = <<>> /\ r.items = m
  BY DEF Place
<1> HIDE DEF r
<1>2. Reads(r, b) =
           IF b = IAC THEN Idle(Append(m, <<"data", b>>))
           ELSE IF b = SB THEN Place("sub", <<>>, m)
           ELSE IF b \in Commands THEN Place("option", <<b>>, m) ELSE Idle(m)
  BY <1>1 DEF Reads, Idle
<1> QED
  BY <1>2 DEF r

LEMMA ReadsOption ==
  ASSUME NEW m, NEW c, NEW b
  PROVE  Reads(Place("option", <<c>>, m), b) = Idle(Append(m, <<"neg", c, b>>))
<1> DEFINE r == Place("option", <<c>>, m)
<1>1. r.at = "option" /\ r.frame = <<c>> /\ r.items = m
  BY DEF Place
<1> HIDE DEF r
<1>2. Reads(r, b) = Idle(Append(m, <<"neg", c, b>>))
  BY <1>1 DEF Reads, Idle
<1> QED
  BY <1>2 DEF r

LEMMA ReadsSub ==
  ASSUME NEW m, NEW f, NEW b
  PROVE  Reads(Place("sub", f, m), b) =
           IF b = IAC THEN Place("subIac", f, m) ELSE Place("sub", Append(f, b), m)
<1> DEFINE r == Place("sub", f, m)
<1>1. r.at = "sub" /\ r.frame = f /\ r.items = m
  BY DEF Place
<1> HIDE DEF r
<1>2. Reads(r, b) =
           IF b = IAC THEN Place("subIac", f, m) ELSE Place("sub", Append(f, b), m)
  BY <1>1 DEF Reads, Idle
<1> QED
  BY <1>2 DEF r

LEMMA ReadsSubIac ==
  ASSUME NEW m, NEW f, NEW b
  PROVE  Reads(Place("subIac", f, m), b) =
           IF b = SE THEN Idle(Append(m, <<"sub", f>>)) ELSE Place("sub", Append(f, b), m)
<1> DEFINE r == Place("subIac", f, m)
<1>1. r.at = "subIac" /\ r.frame = f /\ r.items = m
  BY DEF Place
<1> HIDE DEF r
<1>2. Reads(r, b) =
           IF b = SE THEN Idle(Append(m, <<"sub", f>>)) ELSE Place("sub", Append(f, b), m)
  BY <1>1 DEF Reads, Idle
<1> QED
  BY <1>2 DEF r

LEMMA TalkAppend == \A m \in Talk, x \in Items : Append(m, x) = m \o <<x>>
BY AppendIsConcat DEF Talk

LEMMA StringAppend == \A s \in Strings, b \in Bytes : Append(s, b) = s \o <<b>>
BY AppendIsConcat DEF Strings

LEMMA TwoBytes ==
  ASSUME NEW s \in Strings, NEW a \in Bytes, NEW b \in Bytes
  PROVE  /\ Understood(s \o (<<a>> \o <<b>>)) = Reads(Reads(Understood(s), a), b)
         /\ s \o (<<a>> \o <<b>>) \in Strings
<1>1. <<a>> \in Strings /\ <<b>> \in Strings /\ s \o <<a>> \in Strings /\ <<a>> \o <<b>> \in Strings
  BY StringOne, StringConcat
<1>2. s \o (<<a>> \o <<b>>) = (s \o <<a>>) \o <<b>>
  BY <1>1, StringAssociative
<1>3. Understood((s \o <<a>>) \o <<b>>) = Reads(Understood(s \o <<a>>), b)
  BY <1>1, UnderstoodByte
<1>4. Understood(s \o <<a>>) = Reads(Understood(s), a)
  BY UnderstoodByte
<1> QED
  BY <1>1, <1>2, <1>3, <1>4, StringConcat

(* The body of a frame is read back byte for byte.                         *)
LEMMA BodyUnderstood ==
  ASSUME NEW s \in Strings, NEW m, Understood(s) = Place("sub", <<>>, m)
  PROVE  \A body \in Strings : Understood(s \o Escaped(body)) = Place("sub", body, m)
<1> DEFINE T == {body \in Strings : Understood(s \o Escaped(body)) = Place("sub", body, m)}
<1>1. <<>> \in T
  BY EscapedEmpty, StringEmpty, StringNeutral
<1>2. ASSUME NEW r \in Seq(Bytes), NEW b \in Bytes, r \in T PROVE Append(r, b) \in T
  <2>1. r \in Strings /\ Append(r, b) = r \o <<b>> /\ r \o <<b>> \in Strings /\ <<b>> \in Strings
    BY StringAppend, StringOne, StringConcat DEF Strings
  <2> DEFINE p == s \o Escaped(r)
  <2>2. p \in Strings /\ Understood(p) = Place("sub", r, m) /\ Escaped(r) \in Strings
    BY <1>2, <2>1, EscapedType, StringConcat
  <2>3. Escaped(r \o <<b>>) = Escaped(r) \o Escaped(<<b>>) /\ Escaped(<<b>>) \in Strings
    BY <2>1, EscapedConcat, EscapedType
  <2>4. s \o Escaped(r \o <<b>>) = p \o Escaped(<<b>>)
    <3>1. s \o (Escaped(r) \o Escaped(<<b>>)) = (s \o Escaped(r)) \o Escaped(<<b>>)
      BY <2>2, <2>3, StringAssociative
    <3> QED
      BY <2>3, <3>1
  <2> HIDE DEF p
  <2>5. Understood(p \o Escaped(<<b>>)) = Place("sub", Append(r, b), m)
    <3>1. CASE b = IAC
      <4>1. Escaped(<<b>>) = <<b>> \o <<b>>
        BY <3>1, EscapedOne
      <4>2. Understood(p \o (<<b>> \o <<b>>)) = Reads(Reads(Understood(p), b), b)
        BY <2>2, TwoBytes
      <4>3. Reads(Reads(Place("sub", r, m), b), b) = Place("sub", Append(r, b), m)
        BY <3>1, ReadsSub, ReadsSubIac, Constants
      <4> QED
        BY <2>2, <4>1, <4>2, <4>3
    <3>2. CASE b # IAC
      <4>1. Escaped(<<b>>) = <<b>>
        BY <3>2, EscapedOne
      <4>2. Understood(p \o <<b>>) = Reads(Understood(p), b)
        BY <2>2, UnderstoodByte
      <4>3. Reads(Place("sub", r, m), b) = Place("sub", Append(r, b), m)
        BY <3>2, ReadsSub
      <4> QED
        BY <2>2, <4>1, <4>2, <4>3
    <3> QED
      BY <3>1, <3>2
  <2> QED
    BY <2>1, <2>4, <2>5
<1>3. \A body \in Seq(Bytes) : body \in T
  <2> HIDE DEF T
  <2> QED
    BY <1>1, <1>2, SeqInduction
<1> QED
  BY <1>3 DEF Strings

Said == Items \ {<<"nop">>}

(* What the server sends for an item, the client takes for that item.      *)
LEMMA ItemUnderstood ==
  ASSUME NEW s \in Strings, NEW m \in Talk, Understood(s) = Idle(m), NEW x \in Said
  PROVE  Understood(s \o Encode(x)) = Idle(m \o <<x>>)
<1>0. IAC \in Bytes /\ <<IAC>> \in Strings /\ <<SB>> \in Strings /\ <<SE>> \in Strings
  BY Constants, StringOne
<1>1. x \in Items /\ Append(m, x) = m \o <<x>>
  BY TalkAppend DEF Said
<1>2. CASE \E b \in Bytes : x = <<"data", b>>
  <2>1. PICK b \in Bytes : x = <<"data", b>>
    BY <1>2
  <2>2. CASE b = IAC
    <3>1. Encode(x) = <<b>> \o <<b>>
      BY <2>1, <2>2, EncodeData
    <3>2. Understood(s \o (<<b>> \o <<b>>)) = Reads(Reads(Understood(s), b), b)
      BY TwoBytes
    <3>3. Reads(Reads(Idle(m), b), b) = Idle(Append(m, x))
      BY <2>1, <2>2, ReadsIdle, ReadsIac
    <3> QED
      BY <1>1, <3>1, <3>2, <3>3
  <2>3. CASE b # IAC
    <3>1. Encode(x) = <<b>>
      BY <2>1, <2>3, EncodeData
    <3>2. Understood(s \o <<b>>) = Reads(Understood(s), b)
      BY UnderstoodByte
    <3>3. Reads(Idle(m), b) = Idle(Append(m, x))
      BY <2>1, <2>3, ReadsIdle
    <3> QED
      BY <1>1, <3>1, <3>2, <3>3
  <2> QED
    BY <2>2, <2>3
<1>3. CASE \E c \in Commands, o \in Bytes : x = <<"neg", c, o>>
  <2>1. PICK c \in Commands, o \in Bytes : x = <<"neg", c, o>>
    BY <1>3
  <2>2. /\ c \in Bytes /\ c # IAC /\ c # SB /\ <<c>> \in Strings /\ <<o>> \in Strings
        /\ Encode(x) = <<IAC>> \o (<<c>> \o <<o>>)
    BY <2>1, Constants, StringOne, EncodeNeg
  <2>3. s \o (<<IAC>> \o (<<c>> \o <<o>>)) = (s \o (<<IAC>> \o <<c>>)) \o <<o>>
    BY <1>0, <2>2, StringAssociative, StringConcat
  <2> DEFINE p == s \o (<<IAC>> \o <<c>>)
  <2>4. p \in Strings /\ Understood(p) = Reads(Reads(Idle(m), IAC), c)
    BY <1>0, <2>2, TwoBytes
  <2> HIDE DEF p
  <2>5. Reads(Reads(Idle(m), IAC), c) = Place("option", <<c>>, m)
    BY <2>2, ReadsIdle, ReadsIac
  <2>6. Understood(p \o <<o>>) = Reads(Understood(p), o)
    BY <2>4, UnderstoodByte
  <2>7. Understood(p \o <<o>>) = Idle(Append(m, x))
    BY <2>1, <2>4, <2>5, <2>6, ReadsOption
  <2> QED
    BY <1>1, <2>2, <2>3, <2>7 DEF p
<1>4. CASE \E body \in Strings : x = <<"sub", body>>
  <2>1. PICK body \in Strings : x = <<"sub", body>>
    BY <1>4
  <2>2. /\ Encode(x) = <<IAC>> \o (<<SB>> \o (Escaped(body) \o (<<IAC>> \o <<SE>>)))
        /\ Escaped(body) \in Strings
    BY <2>1, EncodeSub, EscapedType
  <2> DEFINE p == s \o (<<IAC>> \o <<SB>>)
             q == p \o Escaped(body)
  <2>3. s \o Encode(x) = q \o (<<IAC>> \o <<SE>>)
    <3>1. Cat(s, Cat(<<IAC>>, Cat(<<SB>>, Cat(Escaped(body), Cat(<<IAC>>, <<SE>>)))))
            = Cat(Cat(Cat(s, Cat(<<IAC>>, <<SB>>)), Escaped(body)), Cat(<<IAC>>, <<SE>>))
      BY ONLY <1>0, <2>2, s \in Strings, Regrouped
    <3> QED
      BY ONLY <2>2, <3>1 DEF Cat, p, q
  <2>4. p \in Strings /\ Understood(p) = Reads(Reads(Idle(m), IAC), SB)
    BY <1>0, TwoBytes, Constants
  <2>5. Reads(Reads(Idle(m), IAC), SB) = Place("sub", <<>>, m)
    BY ReadsIdle, ReadsIac, Constants
  <2> HIDE DEF p
  <2>6. q \in Strings /\ Understood(q) = Place("sub", body, m)
    BY <2>2, <2>4, <2>5, BodyUnderstood, StringConcat
  <2> HIDE DEF q
  <2>7. Understood(q \o (<<IAC>> \o <<SE>>)) = Reads(Reads(Understood(q), IAC), SE)
    BY <1>0, <2>6, TwoBytes, Constants
  <2>8. Reads(Reads(Place("sub", body, m), IAC), SE) = Idle(Append(m, x))
    BY <2>1, ReadsSub, ReadsSubIac
  <2> QED
    BY <1>1, <2>3, <2>6, <2>7, <2>8
<1> QED
  BY <1>1, <1>2, <1>3, <1>4, ItemIs DEF Said
LEMMA DataUnderstood ==
  ASSUME NEW s \in Strings, NEW m \in Talk, Understood(s) = Idle(m)
  PROVE  \A d \in Strings : Understood(s \o Escaped(d)) = Idle(m \o DataOf(d))
<1> DEFINE T == {d \in Strings : Understood(s \o Escaped(d)) = Idle(m \o DataOf(d))}
<1>1. <<>> \in T
  BY EscapedEmpty, DataOfEmpty, StringEmpty, StringNeutral, TalkNeutral
<1>2. ASSUME NEW d \in Seq(Bytes), NEW b \in Bytes, d \in T PROVE Append(d, b) \in T
  <2>1. d \in Strings /\ Append(d, b) = d \o <<b>> /\ d \o <<b>> \in Strings /\ <<b>> \in Strings
    BY StringAppend, StringOne, StringConcat DEF Strings
  <2> DEFINE p == s \o Escaped(d)
             q == m \o DataOf(d)
             x == <<"data", b>>
  <2>2. x \in Said /\ x \in Items /\ Encode(x) = Escaped(<<b>>)
    BY EncodeData, EscapedOne DEF Said, Items
  <2>3. /\ p \in Strings /\ Understood(p) = Idle(q) /\ Escaped(d) \in Strings /\ q \in Talk
        /\ DataOf(d) \in Talk /\ Escaped(<<b>>) \in Strings /\ <<x>> \in Talk
    BY <1>2, <2>1, <2>2, EscapedType, DataOfType, StringConcat, TalkConcat, TalkOne
  <2>4. s \o Escaped(d \o <<b>>) = p \o Escaped(<<b>>)
    <3>1. s \o (Escaped(d) \o Escaped(<<b>>)) = (s \o Escaped(d)) \o Escaped(<<b>>)
      BY <2>3, StringAssociative
    <3> QED
      BY <2>1, <3>1, EscapedConcat
  <2>5. m \o DataOf(d \o <<b>>) = q \o <<x>>
    <3>1. m \o (DataOf(d) \o <<x>>) = (m \o DataOf(d)) \o <<x>>
      BY <2>3, TalkAssociative
    <3>2. DataOf(d \o <<b>>) = DataOf(d) \o <<x>>
      BY <2>1, DataOfConcat, DataOfOne
    <3> QED
      BY <3>1, <3>2
  <2> HIDE DEF p, q, x
  <2>6. Understood(p \o Encode(x)) = Idle(q \o <<x>>)
    BY <2>2, <2>3, ItemUnderstood
  <2> QED
    BY <2>1, <2>2, <2>4, <2>5, <2>6
<1>3. \A d \in Seq(Bytes) : d \in T
  <2> HIDE DEF T
  <2> QED
    BY <1>1, <1>2, SeqInduction
<1> QED
  BY <1>3 DEF Strings

(* A conversation without nops, from its beginning.                        *)
LEMMA AllUnderstood == \A q \in Seq(Said) : q \in Talk /\ Understood(EncodeAll(q)) = Idle(q)
<1> DEFINE T == {q \in Talk : Understood(EncodeAll(q)) = Idle(q)}
<1>1. <<>> \in T
  BY EncodeAllEmpty, UnderstoodEmpty, TalkEmpty
<1>2. ASSUME NEW q \in Seq(Said), NEW x \in Said, q \in T PROVE Append(q, x) \in T
  <2>1. x \in Items /\ q \in Talk /\ Append(q, x) = q \o <<x>> /\ <<x>> \in Talk /\ q \o <<x>> \in Talk
    BY <1>2, TalkAppend, TalkOne, TalkConcat DEF Said
  <2>2. EncodeAll(<<x>>) = Encode(x)
    <3>1. <<x>> \o <<>> = <<x>> /\ Encode(x) \in Strings
      BY <2>1, TalkNeutral, EncodeType
    <3>2. EncodeAll(<<x>> \o <<>>) = Encode(x) \o EncodeAll(<<>>)
      BY <2>1, EncodeAllMore, TalkEmpty
    <3> QED
      BY <3>1, <3>2, EncodeAllEmpty, StringNeutral
  <2>3. EncodeAll(q \o <<x>>) = EncodeAll(q) \o Encode(x) /\ EncodeAll(q) \in Strings
    BY <2>1, <2>2, EncodeAllConcat, EncodeAllType
  <2>4. Understood(EncodeAll(q) \o Encode(x)) = Idle(q \o <<x>>)
    BY <1>2, <2>1, <2>3, ItemUnderstood
  <2> QED
    BY <2>1, <2>3, <2>4
<1>3. \A q \in Seq(Said) : q \in T
  <2> HIDE DEF T
  <2> QED
    BY <1>1, <1>2, SeqInduction
<1> QED
  BY <1>3

LEMMA FrameIsEncoded ==
  ASSUME NEW reply \in Strings
  PROVE  /\ SubnegotiationFrame(reply) = Encode(<<"sub", <<ComPort>> \o reply>>)
         /\ <<"sub", <<ComPort>> \o reply>> \in Said
<1> DEFINE end == <<IAC>> \o <<SE>>
           body == <<ComPort>> \o reply
<1>1. <<IAC, SB, ComPort>> = <<IAC>> \o (<<SB>> \o <<ComPort>>) /\ <<IAC, SE>> = end
  BY Pair, Triple, Constants
<1>2. /\ <<IAC>> \in Strings /\ <<SB>> \in Strings /\ <<ComPort>> \in Strings
      /\ Escaped(reply) \in Strings /\ end \in Strings /\ body \in Strings
  BY Constants, StringOne, StringConcat, EscapedType
<1>3. ComPort # IAC /\ ComPort \in Bytes
  BY Constants DEF ComPort, IAC
<1>4. Escaped(body) = <<ComPort>> \o Escaped(reply)
  <2>1. Escaped(<<ComPort>>) = <<ComPort>>
    BY <1>3, EscapedOne
  <2>2. Escaped(body) = Escaped(<<ComPort>>) \o Escaped(reply)
    BY <1>2, EscapedConcat
  <2> QED
    BY <2>1, <2>2
<1>5. Encode(<<"sub", body>>) = <<IAC>> \o (<<SB>> \o ((<<ComPort>> \o Escaped(reply)) \o end))
  BY <1>2, <1>4, EncodeSub
<1>6. ((<<IAC>> \o (<<SB>> \o <<ComPort>>)) \o Escaped(reply)) \o end
        = <<IAC>> \o (<<SB>> \o ((<<ComPort>> \o Escaped(reply)) \o end))
  <2> HIDE DEF end
  <2>1. Cat(Cat(Cat(<<IAC>>, Cat(<<SB>>, <<ComPort>>)), Escaped(reply)), end)
          = Cat(<<IAC>>, Cat(<<SB>>, Cat(Cat(<<ComPort>>, Escaped(reply)), end)))
    BY ONLY <1>2, HeadRegrouped
  <2> QED
    BY ONLY <2>1 DEF Cat
<1>7. SubnegotiationFrame(reply) = ((<<IAC>> \o (<<SB>> \o <<ComPort>>)) \o Escaped(reply)) \o end
  BY <1>1 DEF SubnegotiationFrame
<1>8. <<"sub", body>> \in Said
  <2> HIDE DEF body
  <2> QED
    BY <1>2 DEF Said, Items, Strings
<1> QED
  BY <1>5, <1>6, <1>7, <1>8

(* ------------------------------ the answers ---------------------------- *)

Ports == [baud : Strings, data : 5 .. 8, parity : 1 .. 5, stop : 1 .. 3,
          dtr : BOOLEAN, rts : BOOLEAN]

LEMMA CodingType ==
  ASSUME port \in Ports, NEW cmd, NEW v \in Bytes
  PROVE  Coding(cmd, v) \in Ports
BY DEF Ports, Coding

LEMMA LinesType == ASSUME port \in Ports, NEW v \in Bytes PROVE Lines(v) \in Ports
BY DEF Ports, Lines

LEMMA ControlAnswerType == ASSUME NEW v \in Bytes PROVE ControlAnswer(v) \in Bytes
BY DEF ControlAnswer, Bytes

LEMMA HandledType ==
  ASSUME port \in Ports, NEW body \in Strings
  PROVE  Handled(body).port \in Ports /\ Handled(body).reply \in Strings
<1> DEFINE cmd == body[2]
           v == IF Len(body) >= 3 THEN body[3] ELSE 0
           set == Coding(cmd, v)
           baud == IF Len(body) >= 6 /\ SubSeq(body, 3, 6) # <<0, 0, 0, 0>>
                   THEN SubSeq(body, 3, 6) ELSE port.baud
           Reply(p, values) == [port |-> p, reply |-> <<cmd + Offset>> \o values]
           Good(r) == r.port \in Ports /\ r.reply \in Strings
<1>1. CASE Len(body) < 2 \/ body[1] # ComPort
  <2>1. Handled(body) = [port |-> port, reply |-> <<>>]
    BY <1>1 DEF Handled
  <2> QED
    BY <2>1, StringEmpty
<1>2. CASE ~(Len(body) < 2 \/ body[1] # ComPort)
  <2>1. Len(body) \in Nat /\ body \in Seq(Bytes)
    BY LenProperties DEF Strings
  <2>2. v \in Bytes
    BY <2>1, ElementOfSeq DEF Bytes
  <2>3. baud \in Strings
    <3>1. CASE Len(body) >= 6
      <4>1. \A i \in 3 .. 6 : body[i] \in Bytes
        BY <2>1, <3>1, ElementOfSeq
      <4>2. SubSeq(body, 3, 6) \in Strings
        BY <4>1, SubSeqProperties DEF Strings
      <4> QED
        BY <4>2 DEF Ports
    <3>2. CASE ~(Len(body) >= 6)
      BY <3>2 DEF Ports
    <3> QED
      BY <3>1, <3>2
  <2>4. set \in Ports /\ Lines(v) \in Ports /\ ControlAnswer(v) \in Bytes
    BY <2>2, CodingType, LinesType, ControlAnswerType
  <2>5. [port EXCEPT !.baud = baud] \in Ports
    <3> HIDE DEF baud
    <3> QED
      BY <2>3 DEF Ports
  <2>6. set.data \in Bytes /\ set.parity \in Bytes /\ set.stop \in Bytes /\ 0 \in Bytes
    <3> HIDE DEF set
    <3> QED
      BY <2>4 DEF Ports, Bytes
  <2>7. ASSUME NEW p \in Ports, NEW values \in Strings, cmd \in {1, 2, 3, 4, 5, 10, 11, 12}
        PROVE  Good(Reply(p, values))
    <3>1. cmd + Offset \in Bytes
      BY <2>7 DEF Offset, Bytes
    <3>2. <<cmd + Offset>> \o values \in Strings
      BY <3>1, StringOne, StringConcat
    <3> QED
      BY <3>2
  <2> DEFINE whole ==
        CASE cmd = 1 -> Reply([port EXCEPT !.baud = baud], baud)
          [] cmd = 2 -> Reply(set, <<set.data>>)
          [] cmd = 3 -> Reply(set, <<set.parity>>)
          [] cmd = 4 -> Reply(set, <<set.stop>>)
          [] cmd = 5 -> IF Len(body) >= 3 THEN Reply(Lines(v), <<ControlAnswer(v)>>)
                        ELSE Reply(port, <<0>>)
          [] cmd \in {10, 11, 12} -> Reply(port, <<v>>)
          [] OTHER -> [port |-> port, reply |-> <<>>]
  <2>8. SUFFICES Good(whole)
    BY <1>2 DEF Handled
  <2>9. \A b \in Bytes : <<b>> \in Strings
    BY StringOne
  <2> HIDE DEF cmd, v, set, baud, Reply, Good
  <2>10. CASE cmd = 1
    BY <2>3, <2>5, <2>7, <2>10
  <2>11. CASE cmd \in {2, 3, 4}
    BY <2>4, <2>6, <2>7, <2>9, <2>11
  <2>12. CASE cmd = 5
    BY <2>4, <2>6, <2>7, <2>9, <2>12
  <2>13. CASE cmd \in {10, 11, 12}
    BY <2>2, <2>7, <2>9, <2>13
  <2>14. CASE cmd \notin {1, 2, 3, 4, 5, 10, 11, 12}
    <3>1. whole = [port |-> port, reply |-> <<>>]
      BY <2>14
    <3> QED
      BY <3>1, StringEmpty DEF Good
  <2> QED
    BY <2>10, <2>11, <2>12, <2>13, <2>14
<1> QED
  BY <1>1, <1>2
(* Between two items of the server the client has read all of them.        *)
ClientInv ==
  /\ port \in Ports
  /\ toClient \in Strings /\ said \in Talk
  /\ Understood(toClient) = Idle(said)

LEMMA OneMore ==
  ASSUME ClientInv, NEW x \in Said, port' \in Ports,
         said' = Append(said, x), toClient' = toClient \o Encode(x)
  PROVE  ClientInv'
<1>1. x \in Items /\ Encode(x) \in Strings /\ <<x>> \in Talk
  BY EncodeType, TalkOne DEF Said
<1>2. said' = said \o <<x>> /\ said' \in Talk /\ toClient' \in Strings
  BY <1>1, TalkAppend, TalkConcat, StringConcat DEF ClientInv
<1>3. Understood(toClient \o Encode(x)) = Idle(said \o <<x>>)
  BY ItemUnderstood DEF ClientInv
<1> QED
  BY <1>2, <1>3 DEF ClientInv

LEMMA SaysNothing ==
  ASSUME ClientInv, port' \in Ports, Silent
  PROVE  ClientInv'
BY DEF ClientInv, Silent

LEMMA FreshType == Fresh \in Ports
<1>1. <<0, 1, 194, 0>> \in Strings
  BY DEF Strings, Bytes
<1> QED
  BY <1>1 DEF Fresh, Ports

LEMMA ClientInit == Init => ClientInv
<1> SUFFICES ASSUME Init PROVE ClientInv
  OBVIOUS
<1>1. port = Fresh /\ toClient = <<>> /\ said = <<>>
  BY DEF Init
<1> QED
  BY <1>1, FreshType, StringEmpty, TalkEmpty, UnderstoodEmpty DEF ClientInv

LEMMA OffersType == Offers \in Seq(Said)
<1>1. WILL \in Commands /\ DO \in Commands /\ 0 \in Bytes /\ 3 \in Bytes /\ ComPort \in Bytes
  BY Constants DEF Commands, Bytes
<1>2. \A c \in Commands, o \in Bytes : <<"neg", c, o>> \in Said
  BY DEF Said, Items
<1> QED
  BY <1>1, <1>2 DEF Offers

LEMMA ClientConnect ==
  ASSUME ClientInv, NEW s \in Scripts, Connect(s)
  PROVE  ClientInv'
<1>1. said' = Offers /\ toClient' = EncodeAll(Offers) /\ port' = port
  BY DEF Connect
<1>2. Offers \in Talk /\ Understood(EncodeAll(Offers)) = Idle(Offers)
  BY OffersType, AllUnderstood
<1>3. EncodeAll(Offers) \in Strings
  BY <1>2, EncodeAllType
<1> QED
  BY <1>1, <1>2, <1>3 DEF ClientInv

LEMMA ClientOption ==
  ASSUME ClientInv, Types, ParseOption
  PROVE  ClientInv'
<1> DEFINE answer == Negotiated(command, Byte)
<1>1. chunk # <<>> /\ port' = port /\ Byte \in Bytes
  BY HeadAndTail DEF ParseOption, At, Types, Strings, Byte
<1>2. answer = <<>> \/ \E c \in Commands : answer = <<c>>
  BY DEF Negotiated, Commands
<1>3. port' \in Ports
  BY <1>1 DEF ClientInv
<1>4. CASE answer = <<>>
  <2>1. Silent
    BY <1>4 DEF ParseOption
  <2> QED
    BY <1>3, <2>1, SaysNothing
<1>5. ASSUME NEW c \in Commands, answer = <<c>> PROVE ClientInv'
  <2> DEFINE x == <<"neg", c, Byte>>
  <2>1. said' = Append(said, x) /\ toClient' = toClient \o CommandFrame(c, Byte)
    BY <1>5 DEF ParseOption
  <2>2. x \in Said /\ Encode(x) = CommandFrame(c, Byte)
    BY <1>1 DEF Said, Items, Encode, CommandFrame
  <2> HIDE DEF x
  <2> QED
    BY <1>3, <2>1, <2>2, OneMore
<1> QED
  BY <1>2, <1>4, <1>5

LEMMA ClientSubnegIac ==
  ASSUME ClientInv, Types, ParseSubnegIac
  PROVE  ClientInv'
<1>1. CASE Byte # SE
  <2>1. Silent /\ port' = port
    BY <1>1 DEF ParseSubnegIac
  <2> QED
    BY <2>1, SaysNothing DEF ClientInv
<1>2. CASE Byte = SE
  <2> DEFINE done == Handled(subneg)
             x == <<"sub", <<ComPort>> \o done.reply>>
  <2>1. done.port \in Ports /\ done.reply \in Strings
    BY HandledType DEF ClientInv, Types
  <2>2. /\ port' = done.port
        /\ IF done.reply = <<>> THEN Silent
           ELSE said' = Append(said, x) /\ toClient' = toClient \o SubnegotiationFrame(done.reply)
    BY <1>2 DEF ParseSubnegIac
  <2>3. SubnegotiationFrame(done.reply) = Encode(x) /\ x \in Said
    BY <2>1, FrameIsEncoded
  <2> HIDE DEF done, x
  <2>4. CASE done.reply = <<>>
    BY <2>1, <2>2, <2>4, SaysNothing
  <2>5. CASE done.reply # <<>>
    BY <2>1, <2>2, <2>3, <2>5, OneMore
  <2> QED
    BY <2>4, <2>5
<1> QED
  BY <1>1, <1>2

LEMMA ClientSend ==
  ASSUME ClientInv, NEW data \in Answers, Send(data)
  PROVE  ClientInv'
<1>1. /\ port' = port /\ toClient' = toClient \o Escaped(data)
      /\ said' = said \o [i \in DOMAIN data |-> <<"data", data[i]>>]
  BY DEF Send, DataFrame
<1>2. data \in Strings
  BY TelnetAssumption DEF Strings
<1>3. [i \in DOMAIN data |-> <<"data", data[i]>>] = DataOf(data)
  <2>1. DOMAIN data = 1 .. Len(data) /\ \A i \in 1 .. Len(data) : data[i] \in Bytes
    BY <1>2, LenProperties, ElementOfSeq DEF Strings
  <2> QED
    BY <2>1 DEF DataOf, Mapped, DataItem
<1>4. Understood(toClient \o Escaped(data)) = Idle(said \o DataOf(data))
  BY <1>2, DataUnderstood DEF ClientInv
<1>5. toClient \o Escaped(data) \in Strings /\ said \o DataOf(data) \in Talk
  BY <1>2, EscapedType, DataOfType, StringConcat, TalkConcat DEF ClientInv
<1> QED
  BY <1>1, <1>3, <1>4, <1>5 DEF ClientInv

LEMMA ClientNext == HeardInv /\ ClientInv /\ [Next]_vars => ClientInv'
<1> SUFFICES ASSUME HeardInv, ClientInv, [Next]_vars PROVE ClientInv'
  OBVIOUS
<1>0. Types
  BY DEF HeardInv
<1>1. ASSUME NEW s \in Scripts, Connect(s) PROVE ClientInv'
  BY <1>1, ClientConnect
<1>2. ASSUME NEW n \in 1 .. Chunk, Receive(n) PROVE ClientInv'
  BY <1>2 DEF Receive, ClientInv
<1>3. CASE ParseData \/ ParseIac \/ ParseSubneg
  BY <1>3, SaysNothing DEF ParseData, ParseIac, ParseSubneg, ClientInv
<1>4. CASE ParseOption
  BY <1>0, <1>4, ClientOption
<1>5. CASE ParseSubnegIac
  BY <1>0, <1>5, ClientSubnegIac
<1>6. ASSUME NEW data \in Answers, Send(data) PROVE ClientInv'
  BY <1>6, ClientSend
<1>7. CASE Disconnect
  BY <1>7, FreshType DEF Disconnect, ClientInv
<1>8. CASE Unplug
  BY <1>8 DEF Unplug, ClientInv
<1>9. CASE UNCHANGED vars
  BY <1>9 DEF vars, ClientInv
<1> QED
  BY <1>1, <1>2, <1>3, <1>4, <1>5, <1>6, <1>7, <1>8, <1>9 DEF Next

(* Every offer, answer and byte of the target that the server puts on the  *)
(* wire with sendCommand(), sendSubnegotiation() and sendEscaped() is what *)
(* a Telnet client reads out of it, also where a byte is 255.              *)
THEOREM ClientsUnderstand == Spec => []ClientUnderstands
<1>1. Init => HeardInv /\ ClientInv
  BY HeardInit, ClientInit
<1>2. HeardInv /\ ClientInv /\ [Next]_vars => (HeardInv /\ ClientInv)'
  BY HeardNext, ClientNext
<1>3. HeardInv /\ ClientInv => ClientUnderstands
  BY DEF ClientInv, ClientUnderstands, Idle, Place
<1> QED
  BY <1>1, <1>2, <1>3, PTL DEF Spec
(* -------------------------------- the types ---------------------------- *)

LEMMA BaudNeverZero ==
  ASSUME port \in Ports, port.baud # <<0, 0, 0, 0>>, NEW body \in Strings
  PROVE  Handled(body).port.baud # <<0, 0, 0, 0>>
<1> DEFINE cmd == body[2]
           v == IF Len(body) >= 3 THEN body[3] ELSE 0
           baud == IF Len(body) >= 6 /\ SubSeq(body, 3, 6) # <<0, 0, 0, 0>>
                   THEN SubSeq(body, 3, 6) ELSE port.baud
<1>1. baud # <<0, 0, 0, 0>>
  OBVIOUS
<1>2. /\ Coding(cmd, v).baud = port.baud /\ Lines(v).baud = port.baud
      /\ [port EXCEPT !.baud = baud].baud = baud
  BY DEF Coding, Lines, Ports
<1>3. Handled(body).port \in {port, Coding(cmd, v), Lines(v), [port EXCEPT !.baud = baud]}
  <2> HIDE DEF v, baud
  <2> QED
    BY DEF Handled, v, baud
<1> QED
  BY <1>1, <1>2, <1>3

LEMMA ProceedBounds ==
  ASSUME TypeOK, chunk \in Strings, chunk # <<>>, NEW data, NEW acted, Proceed(data, acted)
  PROVE  Len(chunk') <= Chunk /\ ((payload' = data /\ Len(data) < Chunk) \/ payload' = <<>>)
<1>1. Len(chunk) \in Nat /\ Len(Tail(chunk)) = Len(chunk) - 1
  BY HeadTailProperties, LenProperties DEF Strings
<1> QED
  BY <1>1, TelnetAssumption DEF TypeOK, Proceed
LEMMA LongerBounds ==
  ASSUME subneg \in Strings, Len(subneg) <= SubnegMax, NEW b \in Bytes
  PROVE  Len(Longer(b)) <= SubnegMax
BY TelnetAssumption DEF Longer, Strings

(* What the port holds, and what the invariants above say of the rest. *)
LEMMA PortBounds ==
  ASSUME port \in Ports, port.baud # <<0, 0, 0, 0>>
  PROVE  /\ port.data \in 5 .. 8 /\ port.parity \in 1 .. 5 /\ port.stop \in 1 .. 3
         /\ port.baud # <<0, 0, 0, 0>>
BY DEF Ports

Bounds ==
  /\ open \in BOOLEAN /\ served \in BOOLEAN
  /\ Len(chunk) <= Chunk /\ Len(subneg) <= SubnegMax /\ Len(payload) < Chunk
  /\ port.baud # <<0, 0, 0, 0>>

LEMMA BoundsAreTypes == Types /\ ClientInv /\ Bounds <=> Types /\ ClientInv /\ TypeOK
<1>1. Types /\ ClientInv /\ Bounds => TypeOK
  BY PortBounds DEF Types, ClientInv, Bounds, TypeOK
<1> QED
  BY <1>1 DEF TypeOK, Bounds

LEMMA NoBaudFresh == Fresh.baud # <<0, 0, 0, 0>>
BY DEF Fresh

LEMMA BoundsInit == Init => Bounds
<1>1. Len(<<>>) = 0 /\ 0 < Chunk /\ 0 <= Chunk /\ 0 <= SubnegMax
  BY TelnetAssumption
<1> SUFFICES ASSUME Init PROVE Bounds
  OBVIOUS
<1>2. /\ open = TRUE /\ served = FALSE
      /\ chunk = <<>> /\ subneg = <<>> /\ payload = <<>> /\ port = Fresh
  BY DEF Init
<1> QED
  BY <1>1, <1>2, NoBaudFresh DEF Bounds

LEMMA BoundsReceive ==
  ASSUME Types, Bounds, NEW n \in 1 .. Chunk, Receive(n)
  PROVE  Bounds'
<1>1. wire \in Seq(Bytes) /\ Len(SubSeq(wire, 1, n)) = n
  BY TelnetAssumption DEF Receive, Types, Strings
<1> QED
  BY <1>1, TelnetAssumption DEF Receive, Bounds

LEMMA BoundsParse ==
  ASSUME Types, ClientInv, Bounds,
         ParseData \/ ParseIac \/ ParseOption \/ ParseSubneg \/ ParseSubnegIac
  PROVE  Bounds'
<1>0. chunk # <<>>
  BY DEF ParseData, ParseIac, ParseOption, ParseSubneg, ParseSubnegIac, At
<1>1. /\ chunk # <<>> /\ chunk \in Strings /\ subneg \in Strings /\ payload \in Strings
      /\ port \in Ports /\ port.baud # <<0, 0, 0, 0>>
  BY <1>0 DEF Types, ClientInv, Bounds
<1>8. Byte \in Bytes /\ Len(<<>>) = 0
  BY <1>1, HeadTailProperties DEF Byte, Strings
<1>2. TypeOK
  BY BoundsAreTypes
<1>3. \E data, acted : Proceed(data, acted)
  BY DEF ParseData, ParseIac, ParseOption, ParseSubneg, ParseSubnegIac
<1>4. Len(chunk') <= Chunk /\ Len(payload') < Chunk
  BY <1>1, <1>2, <1>3, <1>8, ProceedBounds, TelnetAssumption
<1>5. Len(subneg') <= SubnegMax
  BY <1>1, <1>8, LongerBounds, TelnetAssumption
     DEF Bounds, ParseData, ParseIac, ParseOption, ParseSubneg, ParseSubnegIac
<1>6. port' = port \/ port' = Handled(subneg).port
  BY DEF ParseData, ParseIac, ParseOption, ParseSubneg, ParseSubnegIac
<1>7. port'.baud # <<0, 0, 0, 0>>
  BY <1>1, <1>6, BaudNeverZero
<1> QED
  BY <1>4, <1>5, <1>7
     DEF Bounds, ParseData, ParseIac, ParseOption, ParseSubneg, ParseSubnegIac, Session

LEMMA BoundsNext == Types /\ ClientInv /\ Bounds /\ [Next]_vars => Bounds'
<1> SUFFICES ASSUME Types, ClientInv, Bounds, [Next]_vars PROVE Bounds'
  OBVIOUS
<1>1. ASSUME NEW s \in Scripts, Connect(s) PROVE Bounds'
  BY <1>1, TelnetAssumption DEF Connect, Bounds
<1>2. ASSUME NEW n \in 1 .. Chunk, Receive(n) PROVE Bounds'
  BY <1>2, BoundsReceive
<1>3. CASE ParseData \/ ParseIac \/ ParseOption \/ ParseSubneg \/ ParseSubnegIac
  BY <1>3, BoundsParse
<1>4. ASSUME NEW data \in Answers, Send(data) PROVE Bounds'
  BY <1>4 DEF Send, parser, Bounds
<1>5. CASE Disconnect
  BY <1>5, NoBaudFresh DEF Disconnect, parser, Bounds
<1>6. CASE Unplug
  BY <1>6 DEF Unplug, parser, Bounds
<1>7. CASE UNCHANGED vars
  BY <1>7 DEF vars, parser, Bounds
<1> QED
  BY <1>1, <1>2, <1>3, <1>4, <1>5, <1>6, <1>7 DEF Next

(* The buffers of the server keep their sizes, whatever a client sends,    *)
(* and no request sets a rate of 0 or a coding outside its range.          *)
THEOREM TypesHold == Spec => []TypeOK
<1>1. Init => HeardInv /\ ClientInv /\ Bounds
  BY HeardInit, ClientInit, BoundsInit
<1>2. HeardInv /\ ClientInv /\ Bounds /\ [Next]_vars => (HeardInv /\ ClientInv /\ Bounds)'
  BY HeardNext, ClientNext, BoundsNext DEF HeardInv
<1>3. HeardInv /\ ClientInv /\ Bounds => TypeOK
  BY BoundsAreTypes DEF HeardInv
<1> QED
  BY <1>1, <1>2, <1>3, PTL DEF Spec
=============================================================================
