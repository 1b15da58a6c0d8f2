-------------------------- MODULE AioSessionProofs --------------------------
(***************************************************************************)
(* Theorems about AioSession, for messages and replies of any number and   *)
(* size: however the transfers split the streams nothing is lost, repeated *)
(* or moved, and a patient user's outputs are the answers to the messages. *)
(***************************************************************************)
EXTENDS AioSession, SequenceTheorems, WellFoundedInduction, TLAPS

-----------------------------------------------------------------------------
(* The operations on streams by name, so that the provers use the facts    *)
(* stated here only.                                                       *)
Nil == <<>>
Cat(s, t) == s \o t
App(s, e) == Append(s, e)
Take(s, n) == SubSeq(s, 1, n)

LEMMA NilProperties ==
  ASSUME NEW S
  PROVE  Nil \in Seq(S) /\ Len(Nil) = 0 /\ \A s \in Seq(S) : Len(s) = 0 <=> s = Nil
BY EmptySeq, LenProperties DEF Nil

LEMMA CatProperties ==
  ASSUME NEW S, NEW s \in Seq(S), NEW t \in Seq(S)
  PROVE  /\ Cat(s, t) \in Seq(S) /\ Len(Cat(s, t)) = Len(s) + Len(t)
         /\ Cat(s, Nil) = s /\ Cat(Nil, s) = s
<1>1. Cat(s, t) \in Seq(S) /\ Len(Cat(s, t)) = Len(s) + Len(t)
  BY ConcatProperties DEF Cat
<1>2. Cat(s, Nil) = s /\ Cat(Nil, s) = s
  BY ConcatEmptySeq DEF Cat, Nil
<1>. QED
  BY <1>1, <1>2

LEMMA CatAssociative ==
  ASSUME NEW S, NEW s \in Seq(S), NEW t \in Seq(S), NEW u \in Seq(S)
  PROVE  Cat(Cat(s, t), u) = Cat(s, Cat(t, u))
BY ConcatAssociative DEF Cat

LEMMA AppProperties ==
  ASSUME NEW S, NEW s \in Seq(S), NEW e \in S
  PROVE  /\ App(s, e) \in Seq(S) /\ Len(App(s, e)) = Len(s) + 1
         /\ \A i \in 1..Len(s) : App(s, e)[i] = s[i]
         /\ App(s, e)[Len(s) + 1] = e
BY AppendProperties DEF App

\* What a transfer of n units takes and what it leaves
LEMMA Transfer ==
  ASSUME NEW S, NEW s \in Seq(S), NEW n \in 0..Len(s)
  PROVE  /\ Take(s, n) \in Seq(S) /\ Len(Take(s, n)) = n
         /\ Drop(s, n) \in Seq(S) /\ Len(Drop(s, n)) = Len(s) - n
         /\ Cat(Take(s, n), Drop(s, n)) = s
         /\ Drop(s, n) = Nil <=> n = Len(s)
         /\ Take(s, Len(s)) = s
<1>1. Len(s) \in Nat /\ \A i \in 1..Len(s) : s[i] \in S
  BY LenProperties, ElementOfSeq
<1>2. /\ SubSeq(s, 1, n) \in Seq(S)
      /\ Len(SubSeq(s, 1, n)) = IF 1 <= n THEN n - 1 + 1 ELSE 0
  BY <1>1, SubSeqProperties
<1>3. /\ SubSeq(s, n + 1, Len(s)) \in Seq(S)
      /\ Len(SubSeq(s, n + 1, Len(s))) = IF n + 1 <= Len(s) THEN Len(s) - (n + 1) + 1 ELSE 0
  <2>1. n + 1 \in Int /\ Len(s) \in Int /\ \A i \in n + 1 .. Len(s) : s[i] \in S
    BY <1>1
  <2> DEFINE m == n + 1
  <2> HIDE DEF m
  <2>2. /\ SubSeq(s, m, Len(s)) \in Seq(S)
        /\ Len(SubSeq(s, m, Len(s))) = IF m <= Len(s) THEN Len(s) - m + 1 ELSE 0
    BY <2>1, SubSeqProperties DEF m
  <2>. QED
    BY <2>2 DEF m
<1>4. SubSeq(s, 1, n) \o SubSeq(s, n + 1, Len(s)) = SubSeq(s, 1, Len(s))
  <2>1. 1 \in 1..Len(s) + 1 /\ n \in 1 - 1 .. Len(s) /\ Len(s) \in n .. Len(s)
    BY <1>1
  <2>. QED
    BY <2>1, ConcatAdjacentSubSeq
<1>5. SubSeq(s, 1, Len(s)) = s
  BY SubSeqFull
<1>6. Take(s, n) \in Seq(S) /\ Drop(s, n) \in Seq(S)
  BY <1>2, <1>3 DEF Take, Drop
<1>7. Cat(Take(s, n), Drop(s, n)) = s /\ Take(s, Len(s)) = s
  BY <1>4, <1>5 DEF Cat, Take, Drop
<1> DEFINE a == Len(Take(s, n))
           b == Len(Drop(s, n))
<1>8. a = (IF 1 <= n THEN n - 1 + 1 ELSE 0)
  BY <1>2 DEF Take
<1>9. b = (IF n + 1 <= Len(s) THEN Len(s) - (n + 1) + 1 ELSE 0)
  BY <1>3 DEF Drop
<1>10. Drop(s, n) = Nil <=> b = 0
  BY <1>6, NilProperties
<1> HIDE DEF a, b
<1>11. a = n /\ b = Len(s) - n /\ (b = 0 <=> n = Len(s))
  BY <1>1, <1>8, <1>9
<1>. QED
  BY <1>6, <1>7, <1>10, <1>11 DEF a, b

-----------------------------------------------------------------------------
(***************************************************************************)
(* FlattenSeq is a recursive function of the index.  Such a function       *)
(* exists, and there is one only: a least index at which either fails      *)
(* would have a predecessor at which it holds.                             *)
(***************************************************************************)
Joined(f, s, n) ==
  f = [i \in 1..n |-> IF i = 1 THEN s[i] ELSE Cat(f[i - 1], s[i])]

LEMMA LeastNat ==
  ASSUME NEW T, T \subseteq Nat, T # {}
  PROVE  \E n \in T : \A m \in T : n <= m
<1>1. \E x \in T : \A y \in T : ~ (<<y, x>> \in OpToRel(<, Nat))
  BY NatLessThanWellFounded, WFMin, Zenon
<1>2. PICK x \in T : \A y \in T : ~ (<<y, x>> \in OpToRel(<, Nat))
  BY <1>1
<1>3. ASSUME NEW y \in T PROVE x <= y
  <2>1. <<y, x>> \notin OpToRel(<, Nat)
    BY <1>2
  <2>2. ~(y < x)
    BY <2>1 DEF OpToRel
  <2>. QED
    BY <2>2
<1>. QED
  BY <1>3

LEMMA JoinedExists ==
  ASSUME NEW S, NEW s \in Seq(Seq(S)), NEW n \in 0..Len(s)
  PROVE  \E f \in [1..n -> Seq(S)] : Joined(f, s, n)
<1>0. Len(s) \in Nat /\ \A i \in 1..Len(s) : s[i] \in Seq(S)
  BY LenProperties, ElementOfSeq
<1> DEFINE P(m) == \E f \in [1..m -> Seq(S)] : Joined(f, s, m)
           Bad == {m \in 0..Len(s) : ~P(m)}
<1> SUFFICES ASSUME Bad # {} PROVE FALSE
  OBVIOUS
<1>1. Bad \subseteq Nat
  BY <1>0
<1>2. PICK m \in Bad : \A k \in Bad : m <= k
  BY <1>1, LeastNat
<1>3. m \in 0..Len(s) /\ m \in Nat /\ ~P(m)
  BY <1>0
<1>4. P(0)
  <2> DEFINE e == [i \in 1..0 |-> Nil]
  <2>1. e \in [1..0 -> Seq(S)]
    OBVIOUS
  <2>2. Joined(e, s, 0)
    BY DEF Joined
  <2>. QED
    BY <2>1, <2>2
<1>5. m # 0 /\ m - 1 \in 0..Len(s)
  <2>1. m # 0
    BY <1>3, <1>4, Zenon
  <2>. QED
    BY <1>0, <1>3, <2>1
<1>6. P(m - 1)
  <2>1. ~(m <= m - 1)
    BY <1>3
  <2>2. m - 1 \notin Bad
    BY <1>2, <2>1, Zenon
  <2>. QED
    BY <1>5, <2>2
<1>7. PICK f \in [1..m - 1 -> Seq(S)] : Joined(f, s, m - 1)
  BY <1>6
<1> DEFINE g == [i \in 1..m |-> IF i = m THEN (IF m = 1 THEN s[m] ELSE Cat(f[m - 1], s[m]))
                                         ELSE f[i]]
<1>8. ASSUME NEW i \in 1..m
      PROVE  g[i] \in Seq(S) /\ g[i] = IF i = 1 THEN s[i] ELSE Cat(g[i - 1], s[i])
  <2>1. s[i] \in Seq(S) /\ s[m] \in Seq(S)
    BY <1>0, <1>3, <1>5
  <2>2. CASE i # m
    <3>1. i \in 1..m - 1 /\ (i # 1 => i - 1 \in 1..m /\ i - 1 # m)
      BY <1>3, <2>2
    <3>2. f[i] = IF i = 1 THEN s[i] ELSE Cat(f[i - 1], s[i])
      BY <1>7, <3>1 DEF Joined
    <3>3. g[i] = f[i] /\ (i # 1 => g[i - 1] = f[i - 1])
      BY <2>2, <3>1
    <3>4. f[i] \in Seq(S)
      BY <3>1
    <3>. QED
      BY <3>2, <3>3, <3>4
  <2>3. CASE i = m /\ m = 1
    BY <2>1, <2>3
  <2>4. CASE i = m /\ m # 1
    <3>1. m - 1 \in 1..m - 1 /\ m - 1 \in 1..m /\ m - 1 # m
      BY <1>3, <2>4, <1>5
    <3>2. f[m - 1] \in Seq(S) /\ g[m - 1] = f[m - 1]
      BY <3>1
    <3>3. g[i] = Cat(f[m - 1], s[m])
      BY <2>4
    <3>. QED
      BY <2>1, <2>4, <3>2, <3>3, CatProperties
  <2>. QED
    BY <2>2, <2>3, <2>4
<1>9. g \in [1..m -> Seq(S)] /\ Joined(g, s, m)
  <2>1. g = [i \in 1..m |-> g[i]]
    OBVIOUS
  <2> HIDE DEF g
  <2>. QED
    BY <1>8, <2>1 DEF Joined
<1>. QED
  BY <1>3, <1>9

LEMMA JoinedUnique ==
  ASSUME NEW s, NEW n \in Nat, NEW f, Joined(f, s, n), NEW g, Joined(g, s, n)
  PROVE  f = g
<1> DEFINE Bad == {i \in 1..n : f[i] # g[i]}
<1>1. Bad = {}
  <2> SUFFICES ASSUME Bad # {} PROVE FALSE
    OBVIOUS
  <2>0. Bad \subseteq Nat
    OBVIOUS
  <2>1. PICK i \in Bad : \A k \in Bad : i <= k
    BY <2>0, LeastNat
  <2>2. i \in 1..n /\ f[i] # g[i]
    OBVIOUS
  <2>3. /\ f[i] = IF i = 1 THEN s[i] ELSE Cat(f[i - 1], s[i])
        /\ g[i] = IF i = 1 THEN s[i] ELSE Cat(g[i - 1], s[i])
    BY <2>2 DEF Joined
  <2>4. i # 1 => f[i - 1] = g[i - 1]
    <3>1. i # 1 => i - 1 \in 1..n /\ ~(i <= i - 1)
      BY <2>2
    <3>. QED
      BY <2>1, <3>1
  <2>. QED
    BY <2>2, <2>3, <2>4
<1>2. f = [i \in 1..n |-> f[i]] /\ g = [i \in 1..n |-> g[i]]
  BY DEF Joined
<1>. QED
  BY <1>1, <1>2

LEMMA FlattenJoined ==
  ASSUME NEW S, NEW s \in Seq(Seq(S)), Len(s) # 0, NEW f, Joined(f, s, Len(s))
  PROVE  FlattenSeq(s) = f[Len(s)]
<1> DEFINE h == CHOOSE g : Joined(g, s, Len(s))
<1>1. Joined(h, s, Len(s))
  OBVIOUS
<1>2. FlattenSeq(s) = h[Len(s)]
  BY DEF FlattenSeq, Joined, Cat
<1>. QED
  BY <1>1, <1>2, JoinedUnique, LenProperties

LEMMA FlattenNil == FlattenSeq(Nil) = Nil
BY NilProperties DEF FlattenSeq

LEMMA FlattenType ==
  ASSUME NEW S, NEW s \in Seq(Seq(S))
  PROVE  FlattenSeq(s) \in Seq(S)
<1>0. Len(s) \in Nat
  BY LenProperties
<1>1. CASE Len(s) = 0
  BY <1>1, NilProperties, FlattenNil
<1>2. CASE Len(s) # 0
  <2>1. PICK f \in [1..Len(s) -> Seq(S)] : Joined(f, s, Len(s))
    <3>1. Len(s) \in 0..Len(s)
      BY <1>0
    <3>. QED
      BY <3>1, JoinedExists
  <2>2. FlattenSeq(s) = f[Len(s)]
    BY <1>2, <2>1, FlattenJoined
  <2>3. Len(s) \in 1..Len(s)
    BY <1>0, <1>2
  <2>. QED
    BY <2>1, <2>2, <2>3
<1>. QED
  BY <1>1, <1>2

\* One chunk more is flattened to the units of that chunk behind the others
LEMMA FlattenApp ==
  ASSUME NEW S, NEW s \in Seq(Seq(S)), NEW x \in Seq(S)
  PROVE  FlattenSeq(App(s, x)) = Cat(FlattenSeq(s), x)
<1> DEFINE t == App(s, x)
           n == Len(s)
<1>1. /\ n \in Nat /\ t \in Seq(Seq(S)) /\ Len(t) = n + 1
      /\ \A i \in 1..n : t[i] = s[i]
      /\ t[n + 1] = x
  <2>1. n \in Nat
    BY LenProperties
  <2>. QED
    BY <2>1, AppProperties
<1> HIDE DEF t
<1>2. PICK f \in [1..n + 1 -> Seq(S)] : Joined(f, t, n + 1)
  <2>1. n + 1 \in 0..Len(t)
    BY <1>1
  <2>. QED
    BY <1>1, <2>1, JoinedExists
<1>3. FlattenSeq(t) = f[n + 1]
  BY <1>1, <1>2, FlattenJoined
<1>4. CASE n = 0
  <2>1. s = Nil
    BY <1>4, NilProperties
  <2>2. f[1] = t[1]
    BY <1>2, <1>4 DEF Joined
  <2>. QED
    BY <1>1, <1>3, <1>4, <2>1, <2>2, FlattenNil, CatProperties DEF t
<1>5. CASE n # 0
  <2> DEFINE g == [i \in 1..n |-> f[i]]
  <2>1. ASSUME NEW i \in 1..n PROVE g[i] = IF i = 1 THEN s[i] ELSE Cat(g[i - 1], s[i])
    <3>1. i \in 1..n + 1 /\ (i # 1 => i - 1 \in 1..n)
      BY <1>1
    <3>2. f[i] = IF i = 1 THEN t[i] ELSE Cat(f[i - 1], t[i])
      BY <1>2, <3>1 DEF Joined
    <3>. QED
      BY <1>1, <3>1, <3>2
  <2>2. Joined(g, s, n)
    <3>1. g = [i \in 1..n |-> g[i]]
      OBVIOUS
    <3> HIDE DEF g
    <3>. QED
      BY <2>1, <3>1 DEF Joined
  <2>3. FlattenSeq(s) = g[n]
    BY <1>5, <2>2, FlattenJoined
  <2>4. n \in 1..n /\ n + 1 \in 1..n + 1 /\ n + 1 # 1 /\ (n + 1) - 1 = n
    BY <1>1, <1>5
  <2>5. f[n + 1] = Cat(f[n], t[n + 1])
    BY <1>2, <2>4 DEF Joined
  <2>. QED
    BY <1>1, <1>3, <2>3, <2>4, <2>5 DEF t
<1>. QED
  BY <1>4, <1>5
-----------------------------------------------------------------------------
\* The units of the first n messages, or replies, of p units each, except those of B,
\* which are empty
Line(k, p) == [j \in 1..p |-> <<k, j>>]
Typed(k, p, B) == IF k \in B THEN Nil ELSE Line(k, p)
Lines(n, p, B) == [k \in 1..n |-> Typed(k, p, B)]
UnitsOf(n, p, B) == FlattenSeq(Lines(n, p, B))

LEMMA LineType ==
  ASSUME NEW K, NEW k \in K, NEW m \in Nat, NEW p \in 0..m
  PROVE  Line(k, p) \in Seq(K \X (1..m)) /\ Len(Line(k, p)) = p /\ (p # 0 => Line(k, p) # Nil)
<1>1. Line(k, p) \in [1..p -> K \X (1..m)]
  BY DEF Line
<1>2. Line(k, p) \in Seq(K \X (1..m))
  BY <1>1, SeqDef
<1>3. DOMAIN Line(k, p) = 1..p
  BY DEF Line
<1>4. Len(Line(k, p)) \in Nat /\ DOMAIN Line(k, p) = 1..Len(Line(k, p))
  BY <1>2, LenProperties
<1> DEFINE l == Len(Line(k, p))
<1> HIDE DEF l
<1>5. l \in Nat /\ 1..l = 1..p
  BY <1>3, <1>4 DEF l
<1>6. l = p
  BY <1>5
<1>7. Len(Line(k, p)) = p
  BY <1>6 DEF l
<1>8. p # 0 => Line(k, p) # Nil
  BY <1>2, <1>7, NilProperties
<1>. QED
  BY <1>2, <1>7, <1>8

LEMMA TypedType ==
  ASSUME NEW K, NEW k \in K, NEW m \in Nat, NEW p \in 0..m, NEW B
  PROVE  Typed(k, p, B) \in Seq(K \X (1..m)) /\ Len(Typed(k, p, B)) <= p
<1>1. Nil \in Seq(K \X (1..m)) /\ Len(Nil) = 0
  BY NilProperties
<1>2. Line(k, p) \in Seq(K \X (1..m)) /\ Len(Line(k, p)) = p
  BY LineType
<1>3. CASE k \in B
  BY <1>1, <1>3 DEF Typed
<1>4. CASE k \notin B
  BY <1>2, <1>4 DEF Typed
<1>. QED
  BY <1>3, <1>4

LEMMA LinesType ==
  ASSUME NEW m \in Nat, NEW p \in 0..m, NEW n \in Nat, NEW B
  PROVE  Lines(n, p, B) \in Seq(Seq(Nat \X (1..m)))
<1>1. ASSUME NEW k \in 1..n PROVE Typed(k, p, B) \in Seq(Nat \X (1..m))
  <2>1. k \in Nat
    OBVIOUS
  <2>. QED
    BY <2>1, TypedType
<1>2. Lines(n, p, B) \in [1..n -> Seq(Nat \X (1..m))]
  BY <1>1 DEF Lines
<1>. QED
  BY <1>2, SeqDef

LEMMA LinesLen ==
  ASSUME NEW S, NEW n \in Nat, NEW p, NEW B, Lines(n, p, B) \in Seq(S)
  PROVE  Len(Lines(n, p, B)) = n
<1>1. DOMAIN Lines(n, p, B) = 1..n
  BY DEF Lines
<1>2. Len(Lines(n, p, B)) \in Nat /\ DOMAIN Lines(n, p, B) = 1..Len(Lines(n, p, B))
  BY LenProperties
<1> DEFINE l == Len(Lines(n, p, B))
<1> HIDE DEF l
<1>3. l \in Nat /\ 1..l = 1..n
  BY <1>1, <1>2 DEF l
<1>4. l = n
  BY <1>3
<1>. QED
  BY <1>4 DEF l

LEMMA UnitsOfNone == ASSUME NEW p, NEW B PROVE UnitsOf(0, p, B) = Nil
<1>1. Lines(0, p, B) \in [1..0 -> {}]
  BY DEF Lines
<1>2. Lines(0, p, B) \in Seq({})
  BY <1>1, SeqDef
<1>3. DOMAIN Lines(0, p, B) = 1..0
  BY DEF Lines
<1>4. Len(Lines(0, p, B)) = 0
  BY <1>2, <1>3, LenProperties
<1>5. Lines(0, p, B) = Nil
  BY <1>2, <1>4, NilProperties
<1>. QED
  BY <1>5, FlattenNil DEF UnitsOf

LEMMA UnitsOfNext ==
  ASSUME NEW m \in Nat, NEW p \in 0..m, NEW n \in Nat, NEW B
  PROVE  UnitsOf(n + 1, p, B) = Cat(UnitsOf(n, p, B), Typed(n + 1, p, B))
<1> DEFINE S == Nat \X (1..m)
           s == Lines(n, p, B)
           x == Typed(n + 1, p, B)
           t == Lines(n + 1, p, B)
           u == App(s, x)
<1>1. /\ s \in Seq(Seq(S)) /\ Len(s) = n /\ x \in Seq(S)
      /\ t \in Seq(Seq(S)) /\ Len(t) = n + 1
  <2>1. n + 1 \in Nat
    OBVIOUS
  <2>0. ASSUME NEW k \in Nat
        PROVE  Lines(k, p, B) \in Seq(Seq(S)) /\ Len(Lines(k, p, B)) = k
    <3> DEFINE T == Seq(Seq(Nat \X (1..m)))
    <3>1. Lines(k, p, B) \in T
      BY LinesType
    <3>2. Len(Lines(k, p, B)) = k
      BY <3>1, LinesLen
    <3>. QED
      BY <3>1, <3>2
  <2>2. s \in Seq(Seq(S)) /\ Len(s) = n
    BY <2>0
  <2>3. t \in Seq(Seq(S)) /\ Len(t) = n + 1
    BY <2>0, <2>1
  <2>4. x \in Seq(S)
    BY <2>1, TypedType
  <2>. QED
    BY <2>2, <2>3, <2>4
<1>2. \A i \in 1..n + 1 : t[i] = IF i = n + 1 THEN x ELSE s[i]
  BY DEF Lines
<1> HIDE DEF s, x, t
<1>3. u \in Seq(Seq(S)) /\ Len(u) = Len(s) + 1
      /\ (\A i \in 1..Len(s) : u[i] = s[i]) /\ u[Len(s) + 1] = x
  <2> DEFINE E == Seq(S)
  <2>1. s \in Seq(E) /\ x \in E
    BY <1>1
  <2> HIDE DEF E
  <2>2. u \in Seq(E)  /\ Len(u) = Len(s) + 1
      /\ (\A i \in 1..Len(s) : u[i] = s[i]) /\ u[Len(s) + 1] = x
    BY <2>1, AppProperties
  <2>. QED
    BY <2>2 DEF E
<1> HIDE DEF u
<1>4. Len(t) = Len(u) /\ \A i \in 1..Len(t) : t[i] = u[i]
  <2>1. Len(t) = n + 1 /\ Len(u) = n + 1 /\ Len(s) = n
    BY <1>1, <1>3
  <2>2. ASSUME NEW i \in 1..n + 1 PROVE t[i] = u[i]
    <3>1. i = n + 1 \/ i \in 1..n
      OBVIOUS
    <3>2. n + 1 \notin 1..n
      OBVIOUS
    <3>3. t[i] = IF i = n + 1 THEN x ELSE s[i]
      BY <1>2
    <3>4. (\A j \in 1..n : u[j] = s[j]) /\ u[n + 1] = x
      BY <1>3, <2>1
    <3>. QED
      BY <3>1, <3>2, <3>3, <3>4, Zenon
  <2>. QED
    BY <2>1, <2>2
<1>5. t = u
  BY <1>1, <1>3, <1>4, SeqEqual
<1>6. FlattenSeq(u) = Cat(FlattenSeq(s), x)
  BY <1>1, FlattenApp DEF u
<1>. QED
  BY <1>5, <1>6 DEF UnitsOf, s, t, x

LEMMA AllAreUnits ==
  ASSUME NEW S, evaluated \in Seq(S)
  PROVE  /\ AllSent = UnitsOf(sent, session.parts, session.blank)
         /\ AllReplies = UnitsOf(Len(evaluated), session.replyParts, {})
<1>1. DOMAIN evaluated = 1..Len(evaluated)
  BY LenProperties
<1>2. AllSent = UnitsOf(sent, session.parts, session.blank)
  BY DEF AllSent, UnitsOf, Lines, Typed, Line, Msg, Nil
<1>3. AllReplies = UnitsOf(Len(evaluated), session.replyParts, {})
  BY <1>1 DEF AllReplies, UnitsOf, Lines, Typed, Line, Reply
<1>. QED
  BY <1>2, <1>3

-----------------------------------------------------------------------------
(***************************************************************************)
(* The inductive invariant: its first part is about the sequences and the  *)
(* operations that may be outstanding on them, its second the              *)
(* conservation of the units, its third what a patient user's message has  *)
(* become.                                                                 *)
(***************************************************************************)
Unit == (1..Msgs) \X (1..MaxParts)
Piece == (0..Msgs * MaxParts) \X (1..MaxReplyParts)

FieldsInv ==
  /\ session \in [patient: BOOLEAN, blank: SUBSET (1..Msgs), parts: 1..MaxParts,
                 replyParts: 0..MaxReplyParts]
  /\ main \in {"typing", "quit", "threw"}
  /\ runner \in {"new", "awaiting", "done"}
  /\ latch \in {"null", "one", "zero"}
  /\ chan \in {"new", "connecting", "open", "closed"}
  /\ killed \in BOOLEAN /\ rop \in BOOLEAN /\ broken \in BOOLEAN /\ rstDue \in BOOLEAN
  /\ srv \in {"none", "read", "write", "closed", "gone"}
  /\ blanks \in 0..Msgs

StreamsInv ==
  /\ sent \in 0..Msgs
  /\ wbuf \in Seq(Unit) /\ up \in Seq(Unit) /\ evaluated \in Seq(Seq(Unit))
  /\ sbuf \in Seq(Piece) /\ down \in Seq(Piece) /\ printed \in Seq(Seq(Piece))

\* Every chunk evaluated used up at least one unit
CountInv == Len(evaluated) + Len(up) + Len(wbuf) <= sent * session.parts

\* A closed channel has nothing outstanding; one not yet open has seen nothing
ChannelInv ==
  /\ chan # "open" => ~rop /\ wbuf = Nil
  /\ killed => chan = "closed"
  /\ latch = "zero" => chan = "closed"
  /\ runner = "new" => chan = "new" \/ killed
  /\ chan \in {"new", "connecting"} =>
       /\ sent = 0 /\ srv = "none" /\ blanks = 0
       /\ up = Nil /\ down = Nil /\ evaluated = Nil /\ printed = Nil
  /\ srv \in {"none", "read", "closed"} => sbuf = Nil
  /\ blanks <= sent

ConservedInv ==
  chan = "open" =>
    /\ Cat(Cat(FlattenSeq(evaluated), up), wbuf) = UnitsOf(sent, session.parts, session.blank)
    /\ ~broken =>
         Cat(Cat(FlattenSeq(printed), down), sbuf) = UnitsOf(Len(evaluated), session.replyParts, {})

\* An output is the end of the stream, or the answer
Matched ==
  OneByOne =>
    \A k \in 1..Len(printed) :
      \/ printed[k] = Nil /\ srv = "gone"
      \/ /\ printed[k] = Line(k, 1) /\ evaluated[k] = Line(k, 1)
         /\ k <= Len(evaluated) /\ k \notin session.blank

\* What arrives is the answer to the message after the last one that had an output
Arriving ==
  down # Nil =>
    LET n == Len(printed) + 1 IN
    /\ down = Line(n, 1) /\ evaluated[n] = Line(n, 1)
    /\ n <= Len(evaluated) /\ n \notin session.blank

\* Answered, in the write buffer, on its way, evaluated, its reply on its way, or empty
Progress ==
  LET n == Len(printed) + 1 IN
  \/ /\ sent = n - 1 /\ Len(evaluated) = n - 1
     /\ wbuf = Nil /\ up = Nil /\ sbuf = Nil /\ down = Nil
  \/ /\ sent = n /\ n \notin session.blank /\ Len(evaluated) = n - 1
     /\ wbuf = Line(n, 1) /\ up = Nil /\ sbuf = Nil /\ down = Nil
  \/ /\ sent = n /\ n \notin session.blank /\ Len(evaluated) = n - 1
     /\ wbuf = Nil /\ up = Line(n, 1) /\ sbuf = Nil /\ down = Nil
  \/ /\ sent = n /\ n \notin session.blank /\ Len(evaluated) = n /\ evaluated[n] = Line(n, 1)
     /\ wbuf = Nil /\ up = Nil /\ sbuf = Line(n, 1) /\ down = Nil
  \/ /\ sent = n /\ n \notin session.blank /\ Len(evaluated) = n /\ evaluated[n] = Line(n, 1)
     /\ wbuf = Nil /\ up = Nil /\ sbuf = Nil /\ down = Line(n, 1)
  \/ /\ sent = n /\ n \in session.blank /\ Len(evaluated) = n - 1
     /\ wbuf = Nil /\ up = Nil /\ sbuf = Nil /\ down = Nil

\* A patient user types, or one operation is outstanding for the last message
Turn ==
  OneByOne /\ chan = "open" =>
    \/ sent = Len(printed) /\ ~rop /\ wbuf = Nil /\ blanks = 0
    \/ /\ sent = Len(printed) + 1 /\ blanks <= 1
       /\ rop => wbuf = Nil /\ blanks = 0
       /\ wbuf # Nil => blanks = 0

PatientInv ==
  /\ Matched
  /\ OneByOne /\ chan = "open" /\ ~broken => Arriving /\ (srv # "gone" => Progress)

Basic == FieldsInv /\ StreamsInv /\ ChannelInv /\ CountInv

\* Steps that move no unit
ControlStep ==
  Run \/ Connected \/ ConnectFailed \/ RunReturn \/ SendRefused \/ Quit \/ OpFailed \/ Kill
  \/ BlankWritten \/ ServerEof \/ ServerFailed \/ ServerEnds \/ Reset \/ Fault

LEMMA MsgReply ==
  ASSUME NEW k
  PROVE  Msg(k) = Typed(k, session.parts, session.blank) /\ Reply(k) = Line(k, session.replyParts)
BY DEF Msg, Reply, Typed, Line, Nil

LEMMA CountKept ==
  ASSUME StreamsInv, CountInv, UNCHANGED <<session, sent, up, evaluated>>,
         wbuf' = wbuf \/ wbuf' = Nil, FieldsInv, sent * session.parts \in Nat
  PROVE  CountInv'
<1>1. /\ Len(wbuf) \in Nat /\ Len(up) \in Nat /\ Len(evaluated) \in Nat
      /\ Len(wbuf') = Len(wbuf) \/ Len(wbuf') = 0
  BY NilProperties, LenProperties DEF StreamsInv
<1> DEFINE b == sent * session.parts
           c == sent' * session'.parts
           w == Len(wbuf')
           e == Len(evaluated')
           u == Len(up')
<1>2. Len(evaluated) + Len(up) + Len(wbuf) <= b
  BY DEF CountInv
<1>3. b = c /\ e = Len(evaluated) /\ u = Len(up) /\ (w = Len(wbuf) \/ w = 0)
  BY <1>1
<1> HIDE DEF b, c, w, e, u
<1>4. e + u + w <= c
  <2>1. CASE w = Len(wbuf)
    BY <1>2, <1>3, <2>1
  <2>2. CASE w = 0
    <3>1. b \in Int
      BY DEF b
    <3>. QED
      BY <1>1, <1>2, <1>3, <2>2, <3>1
  <2>. QED
    BY <1>3, <2>1, <2>2
<1>. QED
  BY <1>4 DEF CountInv, e, u, w, c

LEMMA BasicControl ==
  ASSUME Basic, ControlStep
  PROVE  FieldsInv' /\ StreamsInv' /\ ChannelInv'
<1> USE DEF Basic, FieldsInv, StreamsInv, ChannelInv
<1>1. CASE Run
  BY <1>1 DEF Run, server, net
<1>2. CASE Connected
  BY <1>2 DEF Connected, net
<1>3. CASE ConnectFailed
  BY <1>3 DEF ConnectFailed, server, net
<1>4. CASE RunReturn
  BY <1>4 DEF RunReturn, server, net
<1>5. CASE SendRefused
  BY <1>5 DEF SendRefused, server, net
<1>6. CASE Quit
  BY <1>6 DEF Quit, server, net
<1>7. CASE OpFailed
  <2>1. wbuf' = Nil
    BY <1>7 DEF OpFailed, Nil
  <2>. QED
    BY <1>7, <2>1, NilProperties DEF OpFailed, server, net
<1>8. CASE Kill
  <2>1. wbuf' = Nil /\ down' = Nil
    BY <1>8 DEF Kill, Nil
  <2>2. Nil \in Seq(Unit) /\ Nil \in Seq(Piece)
    BY NilProperties
  <2>3. /\ killed' = TRUE /\ chan' = "closed" /\ rop' = FALSE
        /\ UNCHANGED <<session, main, runner, latch, sent, blanks, printed, srv, sbuf, evaluated, up,
                       broken, rstDue>>
    BY <1>8 DEF Kill, server
  <2>4. FieldsInv'
    BY <2>3
  <2>5. StreamsInv'
    BY <2>1, <2>2, <2>3
  <2>6. ChannelInv'
    BY <2>1, <2>3
  <2>. QED
    BY <2>4, <2>5, <2>6
<1>9. CASE ServerEof
  <2>1. sbuf' = ErrorReply
    BY <1>9 DEF ServerEof
  <2>2. sbuf' \in Seq(Piece)
    <3>1. 0 \in 0..Msgs * MaxParts /\ 1 \in 1..MaxReplyParts
      BY SessionAssumption
    <3>2. <<0, 1>> \in Piece
      BY <3>1 DEF Piece
    <3>. QED
      BY <2>1, <3>2 DEF ErrorReply
  <2>. QED
    BY <1>9, <2>2 DEF ServerEof, client, net
<1>10. CASE ServerFailed
  <2>1. sbuf' = Nil
    BY <1>10 DEF ServerFailed, Nil
  <2>. QED
    BY <1>10, <2>1, NilProperties DEF ServerFailed, client, net
<1>11. CASE Reset
  BY <1>11 DEF Reset, client, server
<1>12. CASE Fault
  BY <1>12 DEF Fault, client, server
<1>13. CASE BlankWritten
  <2>1. blanks' = blanks - 1 /\ blanks > 0 /\ blanks \in 0..Msgs /\ Msgs \in Nat /\ sent \in 0..Msgs
    BY <1>13, SessionAssumption DEF BlankWritten
  <2>2. blanks' \in 0..Msgs /\ (blanks <= sent => blanks' <= sent)
    BY <2>1
  <2>. QED
    BY <1>13, <2>1, <2>2 DEF BlankWritten, server, net
<1>14. CASE ServerEnds
  BY <1>14 DEF ServerEnds, client
<1>. QED
  BY <1>1, <1>2, <1>3, <1>4, <1>5, <1>6, <1>7, <1>8, <1>9, <1>10, <1>11, <1>12, <1>13, <1>14 DEF ControlStep

\* What each of them leaves alone, as far as the streams are concerned
LEMMA ControlMoves ==
  ASSUME Basic, ControlStep
  PROVE  /\ UNCHANGED <<session, sent, up, evaluated, printed>>
         /\ chan' = "open" => wbuf' = wbuf /\ down' = down /\ (sbuf' = sbuf \/ broken')
         /\ chan' = "open" /\ chan # "open" =>
              /\ sent = 0 /\ wbuf = Nil /\ up = Nil /\ down = Nil /\ sbuf = Nil
              /\ evaluated = Nil /\ printed = Nil
         /\ broken => broken'
         /\ srv = "gone" => srv' = "gone"
BY DEF ControlStep, Run, Connected, ConnectFailed, RunReturn, SendRefused, Quit, OpFailed, Kill,
       BlankWritten, ServerEof, ServerFailed, ServerEnds, Reset, Fault, client, server, net, Basic, FieldsInv, ChannelInv

\* A handler of an empty line reads for the user who waits
LEMMA TurnControl ==
  ASSUME Basic, Turn, ControlStep
  PROVE  Turn'
<1>1. CASE BlankWritten
  <2>1. /\ blanks > 0 /\ blanks' = blanks - 1 /\ rop' = (rop \/ chan = "open")
        /\ UNCHANGED <<session, chan, sent, wbuf, printed>>
    BY <1>1 DEF BlankWritten
  <2>2. blanks \in Nat
    BY SessionAssumption DEF Basic, FieldsInv
  <2>3. ASSUME OneByOne, chan = "open" PROVE sent = Len(printed) + 1 /\ wbuf = Nil /\ blanks' = 0
    BY <2>1, <2>2, <2>3 DEF Turn
  <2>. QED
    BY <2>1, <2>3 DEF Turn, OneByOne
<1>2. CASE ~BlankWritten
  <2>1. /\ UNCHANGED <<session, sent, printed, blanks>>
        /\ chan' = "open" => wbuf' = wbuf /\ rop' = rop
        /\ chan' = "open" /\ chan # "open" => sent = 0 /\ wbuf = Nil /\ ~rop /\ blanks = 0 /\ printed = Nil
    BY <1>2 DEF ControlStep, Run, Connected, ConnectFailed, RunReturn, SendRefused, Quit, OpFailed, Kill,
       ServerEof, ServerFailed, ServerEnds, Reset, Fault, client, server, net, Basic, FieldsInv, ChannelInv
  <2>. QED
    BY <2>1, NilProperties DEF Turn, OneByOne
<1>. QED
  BY <1>1, <1>2

LEMMA ControlKeeps ==
  ASSUME Basic, ConservedInv, PatientInv, ControlStep
  PROVE  ConservedInv' /\ PatientInv'
<1>1. /\ UNCHANGED <<session, sent, up, evaluated, printed>>
      /\ chan' = "open" => wbuf' = wbuf /\ down' = down /\ (sbuf' = sbuf \/ broken')
      /\ chan' = "open" /\ chan # "open" =>
           /\ sent = 0 /\ wbuf = Nil /\ up = Nil /\ down = Nil /\ sbuf = Nil
           /\ evaluated = Nil /\ printed = Nil
      /\ broken => broken'
      /\ srv = "gone" => srv' = "gone"
  BY ControlMoves
<1>2. Len(Nil) = 0 /\ FlattenSeq(Nil) = Nil /\ Cat(Nil, Nil) = Nil
      /\ UnitsOf(0, session.parts, session.blank) = Nil /\ UnitsOf(0, session.replyParts, {}) = Nil
  BY NilProperties, FlattenNil, CatProperties, UnitsOfNone
<1>3. Matched'
  BY <1>1 DEF PatientInv, Matched, OneByOne
<1>4. ConservedInv'
  BY <1>1, <1>2 DEF ConservedInv
<1>5. ASSUME OneByOne, chan' = "open", ~broken' PROVE Arriving' /\ (srv' # "gone" => Progress')
  <2>1. CASE chan = "open"
    <3>1. Arriving /\ (srv # "gone" => Progress)
      BY <1>1, <1>5, <2>1 DEF PatientInv
    <3>. QED
      BY <1>1, <1>5, <3>1 DEF Arriving, Progress
  <2>2. CASE chan # "open"
    BY <1>1, <1>2, <1>5, <2>2 DEF Arriving, Progress
  <2>. QED
    BY <2>1, <2>2
<1>. QED
  BY <1>1, <1>3, <1>4, <1>5 DEF PatientInv, OneByOne
-----------------------------------------------------------------------------
\* A transfer moves the first units from one stream behind another
LEMMA MovedBehind ==
  ASSUME NEW S, NEW f \in Seq(S), NEW u \in Seq(S), NEW w \in Seq(S), NEW n \in 0..Len(w)
  PROVE  Cat(Cat(f, Cat(u, Take(w, n))), Drop(w, n)) = Cat(Cat(f, u), w)
<1> DEFINE a == Take(w, n)
           b == Drop(w, n)
<1>1. a \in Seq(S) /\ b \in Seq(S) /\ Cat(a, b) = w
  BY Transfer
<1> HIDE DEF a, b
<1>2. Cat(f, Cat(u, a)) = Cat(Cat(f, u), a)
  BY <1>1, CatAssociative
<1>3. Cat(f, u) \in Seq(S)
  BY CatProperties
<1>4. Cat(Cat(Cat(f, u), a), b) = Cat(Cat(f, u), Cat(a, b))
  BY <1>1, <1>3, CatAssociative
<1>. QED
  BY <1>1, <1>2, <1>4 DEF a, b

\* A read takes the first units of a stream off it, and behind what was read before
LEMMA TakenOff ==
  ASSUME NEW S, NEW f \in Seq(S), NEW u \in Seq(S), NEW w \in Seq(S), NEW n \in 0..Len(u)
  PROVE  Cat(Cat(Cat(f, Take(u, n)), Drop(u, n)), w) = Cat(Cat(f, u), w)
<1> DEFINE a == Take(u, n)
           b == Drop(u, n)
<1>1. a \in Seq(S) /\ b \in Seq(S) /\ Cat(a, b) = u
  BY Transfer
<1> HIDE DEF a, b
<1>2. Cat(Cat(f, a), b) = Cat(f, Cat(a, b))
  BY <1>1, CatAssociative
<1>. QED
  BY <1>1, <1>2 DEF a, b

\* A unit that travels is taken whole
LEMMA TakenWhole ==
  ASSUME NEW S, NEW s \in Seq(S), Len(s) = 1, NEW n \in 1..Len(s)
  PROVE  Take(s, n) = s /\ Drop(s, n) = Nil
<1>1. n = Len(s) /\ n \in 0..Len(s)
  OBVIOUS
<1>. QED
  BY <1>1, Transfer

LEMMA SendKeeps ==
  ASSUME Basic, ConservedInv, PatientInv, Send
  PROVE  Basic' /\ ConservedInv' /\ PatientInv'
<1> DEFINE m == Typed(sent + 1, session.parts, session.blank)
           F == FlattenSeq(evaluated)
<1>1. /\ chan = "open" /\ chan' = "open" /\ wbuf = Nil /\ wbuf' = m /\ sent' = sent + 1
      /\ sent \in Nat /\ sent + 1 \in 1..Msgs /\ sent + 1 \in 0..Msgs
      /\ session.patient => Len(printed) = sent
      /\ UNCHANGED <<session, main, runner, latch, killed, rop, printed, srv, sbuf, evaluated,
                     up, down, broken, rstDue>>
  BY MsgReply, SessionAssumption DEF Send, Nil, Basic, StreamsInv, server, net
<1>0. blanks' \in 0..Msgs /\ blanks' <= sent'
  <2>1. blanks \in Nat /\ blanks <= sent /\ (blanks' = blanks + 1 \/ blanks' = blanks) /\ Msgs \in Nat
    BY SessionAssumption DEF Send, Basic, FieldsInv, ChannelInv
  <2>. QED
    BY <1>1, <2>1
<1>2. session.parts \in 1..MaxParts /\ session.parts \in 0..MaxParts /\ MaxParts \in Nat
  BY SessionAssumption DEF Basic, FieldsInv
<1>3. m \in Seq(Unit) /\ Len(m) <= session.parts /\ Len(m) \in Nat
  BY <1>1, <1>2, TypedType, LenProperties DEF Unit
<1>4. UnitsOf(sent + 1, session.parts, session.blank) = Cat(UnitsOf(sent, session.parts, session.blank), m)
  BY <1>1, <1>2, UnitsOfNext
<1>5. F \in Seq(Unit)
  BY FlattenType DEF Basic, StreamsInv
<1> HIDE DEF m, F
<1>6. FieldsInv' /\ StreamsInv' /\ ChannelInv'
  BY <1>0, <1>1, <1>3 DEF Basic, FieldsInv, StreamsInv, ChannelInv
<1>7. CountInv'
  <2>1. /\ Len(wbuf) = 0 /\ Len(wbuf') <= session.parts /\ Len(wbuf') \in Nat /\ Len(up) \in Nat /\ Len(evaluated) \in Nat
    BY <1>1, <1>3, NilProperties, LenProperties DEF Basic, StreamsInv
  <2>2. sent' * session'.parts = sent * session.parts + session.parts
    BY <1>1, <1>2
  <2>3. sent * session.parts \in Nat
    BY <1>1, <1>2
  <2>4. Len(evaluated) + Len(up) + Len(wbuf) <= sent * session.parts
    BY DEF Basic, CountInv
  <2> DEFINE b == sent * session.parts
             c == sent' * session'.parts
             p == session.parts
             k == Len(wbuf')
  <2>5. c = b + p /\ b \in Nat /\ p \in Nat /\ k <= p /\ k \in Nat /\ Len(evaluated) + Len(up) + 0 <= b
    BY <1>2, <2>1, <2>2, <2>3, <2>4
  <2> HIDE DEF b, c, p, k
  <2>6. Len(evaluated) + Len(up) + k <= c
    BY <2>1, <2>5
  <2>. QED
    BY <1>1, <2>6 DEF CountInv, c, k
<1>8. ConservedInv'
  <2>1. Cat(F, up) \in Seq(Unit)
    BY <1>5, CatProperties DEF Basic, StreamsInv
  <2>2. Cat(Cat(F, up), Nil) = UnitsOf(sent, session.parts, session.blank)
    BY <1>1 DEF ConservedInv, F
  <2>3. Cat(F, up) = UnitsOf(sent, session.parts, session.blank)
    BY <2>1, <2>2, CatProperties
  <2>. QED
    BY <1>1, <1>4, <2>3 DEF ConservedInv, F
<1>9. PatientInv'
  <2>1. Matched'
    BY <1>1 DEF PatientInv, Matched, OneByOne
  <2>2. ASSUME OneByOne, ~broken, srv # "gone" PROVE Progress'
    <3>1. Progress /\ Len(printed) = sent
      BY <1>1, <2>2 DEF PatientInv, OneByOne
    <3>2. /\ Len(evaluated) = Len(printed)
          /\ up = Nil /\ sbuf = Nil /\ down = Nil
      BY <1>1, <3>1 DEF Progress
    <3>3. wbuf' = IF Len(printed) + 1 \in session.blank THEN Nil ELSE Line(Len(printed) + 1, 1)
      BY <1>1, <2>2, <3>1 DEF m, Typed, OneByOne
    <3>. QED
      BY <1>1, <3>1, <3>2, <3>3 DEF Progress
  <2>3. OneByOne /\ ~broken => Arriving'
    BY <1>1 DEF PatientInv, Arriving
  <2>. QED
    BY <1>1, <2>1, <2>2, <2>3 DEF PatientInv, OneByOne
<1>. QED
  BY <1>6, <1>7, <1>8, <1>9 DEF Basic

\* A line of one unit is transferred whole
LEMMA OneLine ==
  ASSUME NEW n \in Nat
  PROVE  /\ Line(n, 1) # Nil /\ Len(Line(n, 1)) = 1
         /\ Cat(Nil, Line(n, 1)) = Line(n, 1)
         /\ \A i \in 1..Len(Line(n, 1)) : Take(Line(n, 1), i) = Line(n, 1) /\ Drop(Line(n, 1), i) = Nil
<1> DEFINE S == Nat \X (1..1)
           l == Line(n, 1)
<1>2. l \in Seq(S) /\ Len(l) = 1 /\ l # Nil
  <2>1. 1 \in Nat /\ 1 \in 0..1 /\ 1 # 0
    OBVIOUS
  <2>. QED
    BY <2>1, LineType
<1> HIDE DEF l, S
<1>3. Cat(Nil, l) = l
  BY <1>2, CatProperties
<1>4. \A i \in 1..Len(l) : Take(l, i) = l /\ Drop(l, i) = Nil
  BY <1>2, TakenWhole
<1>. QED
  BY <1>2, <1>3, <1>4 DEF l

\* A patient user's operations one after the other
LEMMA TurnMoves ==
  ASSUME Basic, Turn, Send \/ WriteCompleted \/ ReadCompleted \/ ServerRead \/ ServerWrite
  PROVE  Turn'
<1>0. sent \in Nat /\ Len(printed) \in Nat /\ blanks \in Nat /\ printed \in Seq(Seq(Piece))
  BY LenProperties, SessionAssumption DEF Basic, StreamsInv, FieldsInv
<1>1. CASE Send
  <2>1. /\ sent' = sent + 1 /\ wbuf = Nil /\ wbuf' = Msg(sent + 1) /\ chan = "open"
        /\ session.patient => Len(printed) = sent
        /\ blanks' = IF sent + 1 \in session.blank THEN blanks + 1 ELSE blanks
        /\ UNCHANGED <<session, chan, rop, printed>>
    BY <1>1 DEF Send, Nil
  <2>2. sent + 1 \in session.blank => wbuf' = Nil
    BY <2>1 DEF Msg, Nil
  <2>3. ASSUME OneByOne PROVE blanks = 0 /\ ~rop /\ sent = Len(printed)
    BY <1>0, <2>1, <2>3 DEF Turn, OneByOne
  <2>. QED
    BY <1>0, <2>1, <2>2, <2>3 DEF Turn, OneByOne
<1>2. CASE WriteCompleted
  <2>1. /\ wbuf # Nil /\ rop' = (rop \/ wbuf' = Nil) /\ UNCHANGED <<session, chan, sent, blanks, printed>>
    BY <1>2 DEF WriteCompleted, Nil
  <2>. QED
    BY <1>0, <2>1 DEF Turn, OneByOne
<1>3. CASE ReadCompleted
  <2>1. /\ rop /\ ~rop' /\ chan = "open" /\ UNCHANGED <<session, chan, sent, wbuf, blanks>>
        /\ \E a : printed' = Append(printed, a)
    BY <1>3 DEF ReadCompleted
  <2>2. Len(printed') = Len(printed) + 1
    BY <1>0, <2>1
  <2>. QED
    BY <1>0, <2>1, <2>2 DEF Turn, OneByOne
<1>4. CASE ServerRead \/ ServerWrite
  <2>1. UNCHANGED <<session, chan, sent, wbuf, blanks, rop, printed>>
    BY <1>4 DEF ServerRead, ServerWrite, client
  <2>. QED
    BY <2>1 DEF Turn, OneByOne
<1>. QED
  BY <1>1, <1>2, <1>3, <1>4

LEMMA WriteKeeps ==
  ASSUME Basic, ConservedInv, PatientInv, WriteCompleted
  PROVE  Basic' /\ ConservedInv' /\ PatientInv'
<1> DEFINE F == FlattenSeq(evaluated)
<1>1. PICK n \in 1..Len(wbuf) : up' = Cat(up, Take(wbuf, n)) /\ wbuf' = Drop(wbuf, n)
  BY DEF WriteCompleted, Cat, Take
<1>2. /\ chan = "open" /\ chan' = "open" /\ wbuf # Nil /\ ~broken /\ ~killed
      /\ rop' \in BOOLEAN /\ rstDue' \in BOOLEAN
      /\ UNCHANGED <<session, main, runner, latch, chan, killed, sent, blanks, printed, srv, sbuf,
                     evaluated, down, broken>>
  BY DEF WriteCompleted, Nil, server, Basic, FieldsInv
<1>3. wbuf \in Seq(Unit) /\ up \in Seq(Unit) /\ F \in Seq(Unit)
  BY FlattenType DEF Basic, StreamsInv
<1>4. /\ Take(wbuf, n) \in Seq(Unit) /\ Len(Take(wbuf, n)) = n
      /\ wbuf' \in Seq(Unit) /\ Len(wbuf') = Len(wbuf) - n
  BY <1>1, <1>3, Transfer
<1>5. up' \in Seq(Unit) /\ Len(up') = Len(up) + n
  <2> DEFINE a == Take(wbuf, n)
  <2>1. a \in Seq(Unit) /\ Len(a) = n /\ up' = Cat(up, a)
    BY <1>1, <1>4
  <2> HIDE DEF a
  <2>2. Cat(up, a) \in Seq(Unit) /\ Len(Cat(up, a)) = Len(up) + Len(a)
    BY <1>3, <2>1, CatProperties
  <2>. QED
    BY <2>1, <2>2
<1>6. FieldsInv' /\ StreamsInv' /\ ChannelInv'
  BY <1>2, <1>4, <1>5 DEF Basic, FieldsInv, StreamsInv, ChannelInv
<1>7. CountInv'
  <2>1. Len(wbuf) \in Nat /\ Len(up) \in Nat /\ Len(evaluated) \in Nat
    BY <1>3, LenProperties DEF Basic, StreamsInv
  <2>2. Len(evaluated') + Len(up') + Len(wbuf') = Len(evaluated) + Len(up) + Len(wbuf)
    BY <1>2, <1>4, <1>5, <2>1
  <2>. QED
    BY <1>2, <2>2 DEF Basic, CountInv
<1>8. ConservedInv'
  <2>1. Cat(Cat(F, up'), wbuf') = Cat(Cat(F, up), wbuf)
    BY <1>1, <1>3, MovedBehind
  <2>. QED
    BY <1>2, <2>1 DEF ConservedInv
<1>9. PatientInv'
  <2>1. Matched'
    BY <1>2 DEF PatientInv, Matched, OneByOne
  <2>2. OneByOne => Arriving'
    BY <1>2 DEF PatientInv, Arriving
  <2>3. ASSUME OneByOne, srv # "gone" PROVE Progress'
    <3>1. Progress
      BY <1>2, <2>3 DEF PatientInv
    <3> DEFINE p == Len(printed)
    <3>2. /\ sent = p + 1 /\ p + 1 \notin session.blank /\ Len(evaluated) = p
          /\ wbuf = Line(p + 1, 1) /\ up = Nil /\ sbuf = Nil /\ down = Nil /\ p \in Nat
      BY <1>2, <3>1, LenProperties DEF Progress, Basic, StreamsInv
    <3>3. wbuf' = Nil /\ up' = Line(p + 1, 1)
      <4>1. p + 1 \in Nat
        BY <3>2
      <4>2. n \in 1..Len(Line(p + 1, 1))
        BY <3>2
      <4>. QED
        BY <1>1, <3>2, <4>1, <4>2, OneLine
    <3>4. Len(printed') = p
      BY <1>2
    <3> HIDE DEF p
    <3>. QED
      BY <1>2, <3>2, <3>3, <3>4 DEF Progress
  <2>. QED
    BY <1>2, <2>1, <2>2, <2>3 DEF PatientInv, OneByOne
<1>. QED
  BY <1>6, <1>7, <1>8, <1>9 DEF Basic

LEMMA ReadKeeps ==
  ASSUME Basic, ConservedInv, PatientInv, ReadCompleted
  PROVE  Basic' /\ ConservedInv' /\ PatientInv'
<1> DEFINE F == FlattenSeq(printed)
<1>1. PICK n \in 0..Len(down) :
        /\ n = 0 => down = Nil /\ srv = "gone"
        /\ printed' = App(printed, Take(down, n)) /\ down' = Drop(down, n)
  BY DEF ReadCompleted, App, Take, Nil
<1>2. /\ chan = "open" /\ chan' = "open" /\ ~broken /\ ~killed
      /\ rop' \in BOOLEAN /\ ~rop'
      /\ UNCHANGED <<session, main, runner, latch, chan, killed, sent, wbuf, blanks, srv, sbuf,
                     evaluated, up, broken, rstDue>>
  BY DEF ReadCompleted, server
<1>3. down \in Seq(Piece) /\ sbuf \in Seq(Piece) /\ printed \in Seq(Seq(Piece)) /\ F \in Seq(Piece)
  BY FlattenType DEF Basic, StreamsInv
<1>4. Take(down, n) \in Seq(Piece) /\ down' \in Seq(Piece)
  BY <1>1, <1>3, Transfer
<1> DEFINE a == Take(down, n)
           E == Seq(Piece)
<1>5. a \in E /\ printed \in Seq(E) /\ printed' = App(printed, a)
  BY <1>1, <1>3, <1>4
<1>6. FlattenSeq(printed') = Cat(F, a)
  BY <1>5, FlattenApp
<1>7. Cat(Cat(Cat(F, a), Drop(down, n)), sbuf) = Cat(Cat(F, down), sbuf)
  BY <1>1, <1>3, TakenOff
<1> HIDE DEF a, E, F
<1>8. /\ printed' \in Seq(E) /\ Len(printed') = Len(printed) + 1 /\ Len(printed) \in Nat
      /\ \A k \in 1..Len(printed) : printed'[k] = printed[k]
      /\ printed'[Len(printed) + 1] = a
  <2>1. Len(printed) \in Nat
    BY <1>5, LenProperties
  <2>2. /\ App(printed, a) \in Seq(E) /\ Len(App(printed, a)) = Len(printed) + 1
        /\ \A k \in 1..Len(printed) : App(printed, a)[k] = printed[k]
        /\ App(printed, a)[Len(printed) + 1] = a
    BY <1>5, AppProperties
  <2>. QED
    BY <1>5, <2>1, <2>2
<1>9. FieldsInv' /\ StreamsInv' /\ ChannelInv' /\ CountInv'
  <2>1. printed' \in Seq(Seq(Piece))
    BY <1>8 DEF E
  <2>2. CountInv'
    BY <1>2 DEF Basic, CountInv
  <2>3. FieldsInv'
    BY <1>2 DEF Basic, FieldsInv
  <2>4. StreamsInv'
    BY <1>2, <1>4, <2>1 DEF Basic, StreamsInv
  <2>5. ChannelInv'
    BY <1>2 DEF Basic, ChannelInv
  <2>. QED
    BY <2>2, <2>3, <2>4, <2>5
<1>10. ConservedInv'
  BY <1>1, <1>2, <1>6, <1>7 DEF ConservedInv, F
<1>11. PatientInv'
  <2> DEFINE p == Len(printed)
  <2>0. p \in Nat /\ p + 1 \in Nat /\ Len(printed') = p + 1
    BY <1>8
  <2>1. OneByOne => Arriving' /\ Matched' /\ (srv # "gone" => Progress')
    <3>1. CASE n = 0
      <4>1. a = Nil /\ down' = Nil /\ srv = "gone" /\ srv' = "gone"
        <5>1. 0 \in 0..Len(down) /\ Take(down, 0) \in Seq(Piece) /\ Len(Take(down, 0)) = 0
          BY <1>1, <1>3, <3>1, Transfer
        <5>2. a = Nil
          BY <5>1, <3>1, NilProperties DEF a
        <5>3. Drop(down, 0) = Nil
          BY <1>1, <1>3, <3>1, Transfer, NilProperties
        <5>. QED
          BY <1>1, <1>2, <3>1, <5>2, <5>3
      <4>2. ASSUME OneByOne PROVE Matched'
        <5>1. \A k \in 1..p : \/ printed[k] = Nil /\ srv = "gone"
                              \/ /\ printed[k] = Line(k, 1) /\ evaluated[k] = Line(k, 1)
                                 /\ k <= Len(evaluated) /\ k \notin session.blank
          BY <4>2 DEF PatientInv, Matched
        <5>2. \A k \in 1..p + 1 : k \in 1..p \/ k = p + 1
          BY <2>0
        <5>. QED
          BY <1>2, <1>8, <2>0, <4>1, <5>1, <5>2 DEF Matched
      <4>. QED
        BY <1>2, <4>1, <4>2 DEF Arriving
    <3>2. CASE n # 0 /\ OneByOne
      <4>1. Arriving /\ Matched /\ (srv # "gone" => Progress)
        BY <1>2, <3>2 DEF PatientInv
      <4>2. n \in 1..Len(down) /\ down # Nil
        BY <1>3, <3>2, NilProperties, LenProperties
      <4>3. /\ down = Line(p + 1, 1) /\ evaluated[p + 1] = Line(p + 1, 1)
            /\ p + 1 <= Len(evaluated) /\ p + 1 \notin session.blank
        BY <4>1, <4>2 DEF Arriving
      <4>4. down' = Nil /\ a = Line(p + 1, 1)
        BY <1>1, <2>0, <4>2, <4>3, OneLine DEF a
      <4>5. Matched'
        <5>1. \A k \in 1..p : \/ printed[k] = Nil /\ srv = "gone"
                              \/ /\ printed[k] = Line(k, 1) /\ evaluated[k] = Line(k, 1)
                                 /\ k <= Len(evaluated) /\ k \notin session.blank
          BY <3>2, <4>1 DEF Matched
        <5>2. \A k \in 1..p + 1 : k \in 1..p \/ k = p + 1
          BY <2>0
        <5>. QED
          BY <1>2, <1>8, <2>0, <4>3, <4>4, <5>1, <5>2 DEF Matched
      <4>6. srv # "gone" => Progress'
        <5>1. ASSUME srv # "gone"
              PROVE  sent = p + 1 /\ Len(evaluated) = p + 1 /\ up = Nil /\ sbuf = Nil /\ wbuf = Nil
          BY <4>1, <4>2, <5>1 DEF Progress
        <5>. QED
          BY <1>2, <2>0, <4>4, <5>1 DEF Progress
      <4>. QED
        BY <4>4, <4>5, <4>6 DEF Arriving
    <3>3. CASE ~OneByOne
      BY <3>3
    <3>. QED
      BY <3>1, <3>2, <3>3
  <2>. QED
    BY <1>2, <2>1 DEF PatientInv, OneByOne, Matched
<1>. QED
  BY <1>9, <1>10, <1>11 DEF Basic

\* The number of a chunk that is read next is one that a reply can bear
LEMMA ChunkNumber ==
  ASSUME Basic, Len(up) > 0
  PROVE  Len(evaluated) + 1 \in 0..Msgs * MaxParts
<1> DEFINE p == session.parts
           e == Len(evaluated)
           u == Len(up)
           w == Len(wbuf)
<1>1. sent \in 0..Msgs /\ p \in 1..MaxParts /\ Msgs \in Nat /\ MaxParts \in Nat
  BY SessionAssumption DEF Basic, FieldsInv, StreamsInv
<1>2. e \in Nat /\ u \in Nat /\ w \in Nat /\ e + u + w <= sent * p /\ u > 0
  BY LenProperties DEF Basic, StreamsInv, CountInv
<1> HIDE DEF p, e, u, w
<1>3. sent * p <= Msgs * p /\ Msgs * p <= Msgs * MaxParts
  <2>1. \A a, b, c \in Nat : a <= b => a * c <= b * c /\ c * a <= c * b
    OBVIOUS
  <2>. QED
    BY <1>1, <2>1
<1>4. sent * p \in Int /\ Msgs * p \in Int /\ Msgs * MaxParts \in Int
  BY <1>1
<1> DEFINE x == sent * p
           y == Msgs * p
           z == Msgs * MaxParts
<1> HIDE DEF x, y, z
<1>5. x <= y /\ y <= z /\ x \in Int /\ y \in Int /\ z \in Int /\ e + u + w <= x
  BY <1>2, <1>3, <1>4 DEF x, y, z
<1>6. e + 1 \in 0..z
  BY <1>2, <1>5
<1>. QED
  BY <1>6 DEF e, z

LEMMA ServerReadKeeps ==
  ASSUME Basic, ConservedInv, PatientInv, ServerRead
  PROVE  Basic' /\ ConservedInv' /\ PatientInv'
<1> DEFINE F == FlattenSeq(evaluated)
           G == FlattenSeq(printed)
           r == Line(Len(evaluated) + 1, session.replyParts)
<1>1. PICK n \in 1..Len(up) : evaluated' = App(evaluated, Take(up, n)) /\ up' = Drop(up, n)
  BY DEF ServerRead, App, Take
<1>0. n \in 0..Len(up)
  OBVIOUS
<1>2. /\ srv = "read" /\ srv' = "write" /\ ~broken /\ up # Nil /\ sbuf = Nil
      /\ sbuf' = Reply(Len(evaluated'))
      /\ UNCHANGED <<session, main, runner, latch, chan, killed, sent, wbuf, blanks, rop, printed,
                     down, broken, rstDue>>
  BY DEF ServerRead, Nil, client, Basic, ChannelInv
<1>3. /\ up \in Seq(Unit) /\ wbuf \in Seq(Unit) /\ evaluated \in Seq(Seq(Unit)) /\ F \in Seq(Unit)
      /\ down \in Seq(Piece) /\ G \in Seq(Piece)
  BY FlattenType DEF Basic, StreamsInv
<1>4. /\ Take(up, n) \in Seq(Unit)
      /\ up' \in Seq(Unit) /\ Len(up') = Len(up) - n
  BY <1>0, <1>1, <1>3, Transfer
<1> DEFINE a == Take(up, n)
           E == Seq(Unit)
<1>5. a \in E /\ evaluated \in Seq(E) /\ evaluated' = App(evaluated, a)
  BY <1>1, <1>3, <1>4
<1>6. FlattenSeq(evaluated') = Cat(F, a)
  BY <1>5, FlattenApp
<1>7. Cat(Cat(Cat(F, a), Drop(up, n)), wbuf) = Cat(Cat(F, up), wbuf)
  BY <1>0, <1>1, <1>3, TakenOff
<1> HIDE DEF a, E, F
<1>8. /\ evaluated' \in Seq(E) /\ Len(evaluated') = Len(evaluated) + 1 /\ Len(evaluated) \in Nat
      /\ \A k \in 1..Len(evaluated) : evaluated'[k] = evaluated[k]
      /\ evaluated'[Len(evaluated) + 1] = a
  <2>1. Len(evaluated) \in Nat
    BY <1>5, LenProperties
  <2>2. /\ App(evaluated, a) \in Seq(E) /\ Len(App(evaluated, a)) = Len(evaluated) + 1
        /\ \A k \in 1..Len(evaluated) : App(evaluated, a)[k] = evaluated[k]
        /\ App(evaluated, a)[Len(evaluated) + 1] = a
    BY <1>5, AppProperties
  <2>. QED
    BY <1>5, <2>1, <2>2
<1>9. sbuf' = r
  BY <1>2, <1>8, MsgReply
<1>10. r \in Seq(Piece)
  <2>1. Len(up) > 0
    BY <1>2, <1>3, NilProperties, LenProperties
  <2>2. Len(evaluated) + 1 \in 0..Msgs * MaxParts
    BY <2>1, ChunkNumber
  <2>3. session.replyParts \in 0..MaxReplyParts /\ MaxReplyParts \in Nat
    BY SessionAssumption DEF Basic, FieldsInv
  <2>. QED
    BY <2>2, <2>3, LineType DEF Piece
<1> HIDE DEF r, G
<1>11. FieldsInv' /\ StreamsInv' /\ ChannelInv'
  <2>1. evaluated' \in Seq(Seq(Unit))
    BY <1>8 DEF E
  <2>2. chan \notin {"new", "connecting"}
    BY <1>2 DEF Basic, ChannelInv
  <2>. QED
    BY <1>2, <1>4, <1>9, <1>10, <2>1, <2>2 DEF Basic, FieldsInv, StreamsInv, ChannelInv
<1>12. CountInv'
  <2>1. Len(wbuf) \in Nat /\ Len(up) \in Nat /\ Len(evaluated) \in Nat
    BY <1>3, <1>8, LenProperties
  <2>2. sent * session.parts \in Int
    BY DEF Basic, StreamsInv, FieldsInv
  <2> DEFINE b == sent * session.parts
  <2>3. b \in Int /\ Len(evaluated) + Len(up) + Len(wbuf) <= b
    BY <2>2 DEF Basic, CountInv
  <2> HIDE DEF b
  <2>4. Len(evaluated') + Len(up') + Len(wbuf) <= b
    BY <1>4, <1>8, <2>1, <2>3
  <2>. QED
    BY <1>2, <2>4 DEF CountInv, b
<1>13. ConservedInv'
  <2>1. ASSUME chan = "open"
        PROVE  Cat(Cat(G, down), r) = UnitsOf(Len(evaluated) + 1, session.replyParts, {})
    <3>1. Cat(Cat(G, down), Nil) = UnitsOf(Len(evaluated), session.replyParts, {})
      BY <1>2, <2>1 DEF ConservedInv, G
    <3>2. Cat(G, down) \in Seq(Piece)
      BY <1>3, CatProperties
    <3>3. Cat(G, down) = UnitsOf(Len(evaluated), session.replyParts, {})
      BY <3>1, <3>2, CatProperties
    <3>4. session.replyParts \in 0..MaxReplyParts /\ MaxReplyParts \in Nat
      BY SessionAssumption DEF Basic, FieldsInv
    <3>5. Typed(Len(evaluated) + 1, session.replyParts, {}) = r
      BY DEF Typed, r
    <3>. QED
      BY <1>8, <3>3, <3>4, <3>5, UnitsOfNext
  <2>2. chan = "open" => Cat(Cat(FlattenSeq(evaluated'), up'), wbuf) = UnitsOf(sent, session.parts, session.blank)
    BY <1>1, <1>6, <1>7 DEF ConservedInv, F
  <2>. QED
    BY <1>2, <1>8, <1>9, <2>1, <2>2 DEF ConservedInv, G
<1>14. PatientInv'
  <2> DEFINE p == Len(printed)
  <2>0. p \in Nat /\ p + 1 \in Nat /\ Len(printed') = p
    BY <1>2, LenProperties DEF Basic, StreamsInv
  <2>1. ASSUME OneByOne, chan = "open" PROVE Progress' /\ Arriving'
    <3>1. Progress
      BY <1>2, <2>1 DEF PatientInv
    <3>2. /\ sent = p + 1 /\ p + 1 \notin session.blank /\ Len(evaluated) = p
          /\ up = Line(p + 1, 1) /\ down = Nil /\ wbuf = Nil
      BY <1>2, <3>1 DEF Progress
    <3>3. up' = Nil /\ a = Line(p + 1, 1)
      BY <1>1, <2>0, <3>2, OneLine DEF a
    <3>4. sbuf' = Line(p + 1, 1)
      BY <1>9, <2>1, <3>2 DEF r, OneByOne
    <3>5. Len(evaluated') = p + 1 /\ evaluated'[p + 1] = Line(p + 1, 1)
      BY <1>8, <3>2, <3>3
    <3> HIDE DEF p
    <3>. QED
      BY <1>2, <2>0, <3>2, <3>3, <3>4, <3>5 DEF Progress, Arriving
  <2>2. Matched'
    <3>1. ASSUME OneByOne, NEW k \in 1..p
          PROVE  /\ printed[k] = Line(k, 1) /\ evaluated'[k] = Line(k, 1)
                 /\ k <= Len(evaluated') /\ k \notin session.blank
      <4>1. /\ printed[k] = Line(k, 1) /\ evaluated[k] = Line(k, 1)
            /\ k <= Len(evaluated) /\ k \notin session.blank
        BY <1>2, <3>1 DEF PatientInv, Matched
      <4>. QED
        BY <1>8, <2>0, <4>1
    <3>. QED
      BY <1>2, <2>0, <3>1 DEF Matched, OneByOne
  <2>. QED
    BY <1>2, <2>1, <2>2 DEF PatientInv, OneByOne
<1>. QED
  BY <1>11, <1>12, <1>13, <1>14 DEF Basic

LEMMA ServerWriteKeeps ==
  ASSUME Basic, ConservedInv, PatientInv, ServerWrite
  PROVE  Basic' /\ ConservedInv' /\ PatientInv'
<1> DEFINE G == FlattenSeq(printed)
<1>1. PICK n \in 0..Len(sbuf) :
        /\ n = 0 <=> sbuf = Nil
        /\ down' = IF killed THEN down ELSE Cat(down, Take(sbuf, n))
        /\ sbuf' = Drop(sbuf, n)
  BY DEF ServerWrite, Cat, Take, Nil
<1>2. /\ srv = "write" /\ srv' = (IF sbuf' = Nil THEN "read" ELSE "write") /\ ~broken
      /\ rstDue' \in BOOLEAN
      /\ UNCHANGED <<session, main, runner, latch, chan, killed, sent, wbuf, blanks, rop, printed,
                     evaluated, up, broken>>
  BY DEF ServerWrite, Nil, client, Basic, FieldsInv
<1>3. sbuf \in Seq(Piece) /\ down \in Seq(Piece) /\ G \in Seq(Piece)
  BY FlattenType DEF Basic, StreamsInv
<1> DEFINE a == Take(sbuf, n)
<1>4. a \in Seq(Piece) /\ sbuf' \in Seq(Piece)
  BY <1>1, <1>3, Transfer
<1>5. Cat(Cat(G, Cat(down, a)), Drop(sbuf, n)) = Cat(Cat(G, down), sbuf)
  BY <1>3, MovedBehind
<1> HIDE DEF a, G
<1>6. down' = IF killed THEN down ELSE Cat(down, a)
  BY <1>1 DEF a
<1>7. down' \in Seq(Piece)
  BY <1>3, <1>4, <1>6, CatProperties
<1>8. chan \notin {"new", "connecting"} /\ (chan = "open" => ~killed)
  BY <1>2 DEF Basic, ChannelInv
<1>9. FieldsInv' /\ StreamsInv' /\ ChannelInv' /\ CountInv'
  BY <1>2, <1>4, <1>7, <1>8 DEF Basic, FieldsInv, StreamsInv, ChannelInv, CountInv
<1>10. ConservedInv'
  BY <1>1, <1>2, <1>5, <1>6, <1>8 DEF ConservedInv, G
<1>11. PatientInv'
  <2>0. srv' # "gone" /\ srv # "gone"
    BY <1>2
  <2>1. Matched'
    BY <1>2, <2>0 DEF PatientInv, Matched, OneByOne
  <2>2. ASSUME OneByOne, chan = "open" PROVE Progress' /\ Arriving'
    <3>1. Progress /\ Arriving
      BY <1>2, <2>2 DEF PatientInv
    <3> DEFINE p == Len(printed)
    <3>0. p \in Nat /\ p + 1 \in Nat /\ Len(printed') = p
      BY <1>2, LenProperties DEF Basic, StreamsInv
    <3>2. CASE n = 0
      <4>1. sbuf = Nil /\ sbuf' = Nil
        BY <1>1, <1>3, <3>2, Transfer, NilProperties
      <4>2. a = Nil
        <5>1. 0 \in 0..Len(sbuf) /\ Take(sbuf, 0) \in Seq(Piece) /\ Len(Take(sbuf, 0)) = 0
          BY <1>3, <3>2, Transfer
        <5>. QED
          BY <3>2, <5>1, NilProperties DEF a
      <4>3. down' = down
        BY <1>3, <1>6, <1>8, <2>2, <4>2, CatProperties
      <4>. QED
        BY <1>2, <3>1, <4>1, <4>3 DEF Progress, Arriving
    <3>3. CASE n # 0
      <4>2. sbuf # Nil /\ n \in 1..Len(sbuf)
        BY <1>1, <3>3
      <4>3. /\ sent = p + 1 /\ p + 1 \notin session.blank
            /\ Len(evaluated) = p + 1 /\ evaluated[p + 1] = Line(p + 1, 1)
            /\ sbuf = Line(p + 1, 1) /\ down = Nil /\ wbuf = Nil /\ up = Nil
        BY <3>1, <4>2 DEF Progress
      <4>4. sbuf' = Nil /\ a = Line(p + 1, 1) /\ Cat(Nil, Line(p + 1, 1)) = Line(p + 1, 1)
        BY <1>1, <3>0, <4>2, <4>3, OneLine DEF a
      <4>5. down' = Line(p + 1, 1)
        BY <1>6, <1>8, <2>2, <4>3, <4>4
      <4> HIDE DEF p
      <4>. QED
        BY <1>2, <3>0, <4>3, <4>4, <4>5 DEF Progress, Arriving
    <3>. QED
      BY <3>2, <3>3
  <2>. QED
    BY <1>2, <2>0, <2>1, <2>2 DEF PatientInv, OneByOne
<1>. QED
  BY <1>9, <1>10, <1>11 DEF Basic

-----------------------------------------------------------------------------
IInv == Basic /\ ConservedInv /\ PatientInv /\ Turn

LEMMA IInvInvariant == Spec => []IInv
<1>1. Init => IInv
  <2> SUFFICES ASSUME Init PROVE IInv
    OBVIOUS
  <2>1. /\ wbuf = Nil /\ printed = Nil /\ sbuf = Nil /\ evaluated = Nil /\ up = Nil /\ down = Nil
        /\ sent = 0 /\ chan = "new" /\ main = "typing" /\ runner = "new" /\ latch = "null"
        /\ ~killed /\ ~rop /\ ~broken /\ ~rstDue /\ srv = "none" /\ blanks = 0
        /\ killed \in BOOLEAN /\ rop \in BOOLEAN /\ broken \in BOOLEAN /\ rstDue \in BOOLEAN
        /\ session \in Sessions
    BY DEF Init, Nil
  <2>2. FieldsInv
    BY <2>1, SessionAssumption DEF FieldsInv, Sessions
  <2>3. StreamsInv /\ ChannelInv
    BY <2>1, NilProperties, SessionAssumption DEF StreamsInv, ChannelInv
  <2>4. CountInv
    <3>1. Len(Nil) = 0 /\ session.parts \in Int
      BY <2>1, NilProperties DEF Sessions
    <3>. QED
      BY <2>1, <3>1 DEF CountInv
  <2>5. ConservedInv /\ PatientInv /\ Turn
    BY <2>1, NilProperties DEF ConservedInv, PatientInv, Matched, Turn
  <2>. QED
    BY <2>2, <2>3, <2>4, <2>5 DEF IInv, Basic
<1>2. IInv /\ [Next]_vars => IInv'
  <2> SUFFICES ASSUME IInv, [Next]_vars PROVE IInv'
    OBVIOUS
  <2>1. CASE ControlStep
    <3>1. FieldsInv' /\ StreamsInv' /\ ChannelInv'
      BY <2>1, BasicControl DEF IInv
    <3>2. ConservedInv' /\ PatientInv'
      BY <2>1, ControlKeeps DEF IInv
    <3>3. UNCHANGED <<session, sent, up, evaluated>> /\ (wbuf' = wbuf \/ wbuf' = Nil)
      <4>1. UNCHANGED <<session, sent, up, evaluated>> /\ (chan' = "open" => wbuf' = wbuf)
        BY <2>1, ControlMoves DEF IInv
      <4>. QED
        BY <3>1, <4>1 DEF ChannelInv
    <3>4. sent * session.parts \in Nat
      BY DEF IInv, Basic, StreamsInv, FieldsInv
    <3>5. CountInv'
      BY <3>3, <3>4, CountKept DEF IInv, Basic
    <3>6. Turn'
      BY <2>1, TurnControl DEF IInv
    <3>. QED
      BY <3>1, <3>2, <3>5, <3>6 DEF IInv, Basic
  <2>2. CASE Send
    BY <2>2, SendKeeps, TurnMoves DEF IInv
  <2>3. CASE WriteCompleted
    BY <2>3, WriteKeeps, TurnMoves DEF IInv
  <2>4. CASE ReadCompleted
    BY <2>4, ReadKeeps, TurnMoves DEF IInv
  <2>5. CASE ServerRead
    BY <2>5, ServerReadKeeps, TurnMoves DEF IInv
  <2>6. CASE ServerWrite
    BY <2>6, ServerWriteKeeps, TurnMoves DEF IInv
  <2>7. CASE UNCHANGED vars
    BY <2>7 DEF vars, client, server, net, IInv, Basic, FieldsInv, StreamsInv, ChannelInv, CountInv,
       ConservedInv, PatientInv, Matched, OneByOne, Progress, Arriving, Turn
  <2>. QED
    BY <2>1, <2>2, <2>3, <2>4, <2>5, <2>6, <2>7 DEF Next, ClientIO, ServerIO, ControlStep
<1>. QED
  BY <1>1, <1>2, PTL DEF Spec

-----------------------------------------------------------------------------
\* Type correctness: in particular the number that a reply bears stays within the
\* number of units sent, however the reads cut the stream
THEOREM TypeCorrect == Spec => []TypeOK
<1>1. IInv => TypeOK
  <2> SUFFICES ASSUME IInv PROVE TypeOK
    OBVIOUS
  <2>1. \A s \in {wbuf, up} : \A i \in DOMAIN s : s[i] \in Unit
    BY ElementOfSeq, LenProperties DEF IInv, Basic, StreamsInv
  <2>2. \A s \in {sbuf, down} : \A i \in DOMAIN s : s[i] \in Piece
    BY ElementOfSeq, LenProperties DEF IInv, Basic, StreamsInv
  <2>3. chan # "open" => ~rop /\ wbuf = <<>>
    BY DEF IInv, Basic, ChannelInv, Nil
  <2>. QED
    BY <2>1, <2>2, <2>3 DEF TypeOK, IInv, Basic, FieldsInv, Sessions, Unit, Piece
<1>. QED
  BY <1>1, IInvInvariant, PTL

\* WriteHandler.java:18, ReadHandler_Server.java:19-58 and ReadHandler.java:16-27: however
\* writes and reads split the streams, no unit is lost, repeated or moved
THEOREM StreamsConservedHolds == Spec => []StreamsConserved
<1>1. IInv => StreamsConserved
  <2> SUFFICES ASSUME IInv PROVE StreamsConserved
    OBVIOUS
  <2>1. /\ AllSent = UnitsOf(sent, session.parts, session.blank)
        /\ AllReplies = UnitsOf(Len(evaluated), session.replyParts, {})
    BY AllAreUnits DEF IInv, Basic, StreamsInv
  <2>. QED
    BY <2>1 DEF StreamsConserved, IInv, ConservedInv, Cat
<1>. QED
  BY <1>1, IInvInvariant, PTL

\* ReadHandler.java:16-27: the k-th output of a patient user's session is the answer to
\* the k-th message, or the end of the stream
THEOREM AnswerMatchesHolds == Spec => []AnswerMatches
<1>1. IInv => AnswerMatches
  <2> SUFFICES ASSUME IInv, OneByOne, NEW k \in DOMAIN printed
               PROVE  IF printed[k] = <<>> THEN srv = "gone"
                                           ELSE evaluated[k] = Msg(k) /\ printed[k] = Reply(k)
    BY DEF AnswerMatches
  <2>1. k \in 1..Len(printed) /\ k \in Nat
    BY LenProperties DEF IInv, Basic, StreamsInv
  <2>2. \/ printed[k] = Nil /\ srv = "gone"
        \/ printed[k] = Line(k, 1) /\ evaluated[k] = Line(k, 1) /\ k \notin session.blank
    BY <2>1 DEF IInv, PatientInv, Matched
  <2>3. Line(k, 1) # Nil
    BY <2>1, OneLine
  <2>4. k \notin session.blank => Msg(k) = Line(k, 1)
    BY MsgReply DEF OneByOne, Typed
  <2>5. Reply(k) = Line(k, 1)
    BY MsgReply DEF OneByOne
  <2>. QED
    BY <2>2, <2>3, <2>4, <2>5 DEF Nil
<1>. QED
  BY <1>1, IInvInvariant, PTL

-----------------------------------------------------------------------------
(* The session of a patient user as a request/reply service.               *)
AskedMap == [k \in 1..Msgs |-> Asked(k)]
ServedMap == [k \in 1..Msgs |-> Served(k)]

\* Evaluated is only what was sent, answered only what was evaluated
LEMMA CountsOrdered ==
  ASSUME IInv, OneByOne
  PROVE  /\ Len(printed) \in Nat /\ Len(evaluated) \in Nat /\ sent \in 0..Msgs /\ Len(up) \in Nat
         /\ Len(evaluated) + Len(up) <= sent
<1>1. /\ Len(printed) \in Nat /\ Len(evaluated) \in Nat /\ Len(up) \in Nat /\ Len(wbuf) \in Nat
      /\ sent \in 0..Msgs
  BY LenProperties DEF IInv, Basic, StreamsInv
<1>3. Len(evaluated) + Len(up) + Len(wbuf) <= sent * 1
  BY DEF IInv, Basic, CountInv, OneByOne
<1>. QED
  BY <1>1, <1>3, SessionAssumption

\* A step that sends, evaluates and prints nothing is not seen
LEMMA Unseen ==
  ASSUME sent' = sent, Len(evaluated)' = Len(evaluated), printed' = printed
  PROVE  UNCHANGED <<AskedMap, ServedMap>>
BY DEF AskedMap, ServedMap, Asked, Served

\* A message is sent: its user asks
LEMMA SendAsks ==
  ASSUME IInv, OneByOne, Send
  PROVE  Abstract!Next
<1> DEFINE k == sent + 1
           p == Len(printed)
           e == Len(evaluated)
<1>1. p \in Nat /\ e \in Nat /\ sent \in 0..Msgs
  BY CountsOrdered
<1>2. sent < Msgs /\ sent' = k /\ p = sent /\ UNCHANGED <<printed, evaluated>>
  BY DEF Send, OneByOne, server, net
<1>3. k \in 1..Msgs /\ Msgs \in Nat
  BY <1>1, <1>2, SessionAssumption
<1>4. ServedMap' = ServedMap
  BY <1>2 DEF ServedMap, Served
<1>5. p' = p
  BY <1>2
<1> HIDE DEF p, e
<1>6. Asked(k) = "idle"
  BY <1>1, <1>2, <1>3 DEF Asked, p
<1>7. \A m \in 1..Msgs : Asked(m)' = IF m = k THEN "waiting" ELSE Asked(m)
  BY <1>1, <1>2, <1>3, <1>5 DEF Asked, p
<1>8. AskedMap' = [AskedMap EXCEPT ![k] = "waiting"] /\ AskedMap[k] = "idle"
  BY <1>3, <1>6, <1>7 DEF AskedMap
<1>. QED
  BY <1>3, <1>4, <1>8 DEF Abstract!Next, Abstract!Ask, AskedMap, ServedMap

\* A message is evaluated: it is served, for the first time
LEMMA ServerReadServes ==
  ASSUME IInv, OneByOne, ServerRead
  PROVE  Abstract!Next
<1> DEFINE k == Len(evaluated) + 1
           e == Len(evaluated)
           p == Len(printed)
<1>1. p \in Nat /\ e \in Nat /\ sent \in 0..Msgs /\ Len(up) \in Nat /\ e + Len(up) <= sent
  BY CountsOrdered
<1>2. up \in Seq(Unit) /\ evaluated \in Seq(Seq(Unit)) /\ up # <<>>
  BY DEF IInv, Basic, StreamsInv, ServerRead
<1>3. Len(up) > 0
  BY <1>2, EmptySeq, LenProperties
<1>4. PICK n \in 1..Len(up) : evaluated' = Append(evaluated, SubSeq(up, 1, n))
  BY DEF ServerRead
<1>5. Len(evaluated') = k
  BY <1>2, <1>4
<1>6. UNCHANGED <<sent, printed>>
  BY DEF ServerRead, client
<1>7. k \in 1..Msgs /\ k <= sent /\ Msgs \in Nat /\ k = e + 1
  BY <1>1, <1>3, SessionAssumption
<1>12. p < k
  <2>1. srv # "gone"
    BY DEF ServerRead
  <2>2. \A m \in 1..p : m <= e
    BY <2>1 DEF IInv, PatientInv, Matched
  <2>3. k \in 1..p => FALSE
    BY <1>1, <1>7, <2>2
  <2>. QED
    BY <1>1, <1>7, <2>3
<1>8. AskedMap' = AskedMap
  BY <1>6 DEF AskedMap, Asked
<1>9. Asked(k) = "waiting"
  BY <1>1, <1>7, <1>12 DEF Asked
<1>10. Served(k) = "no" /\ \A m \in 1..Msgs : Served(m)' = IF m = k THEN "yes" ELSE Served(m)
  <2> HIDE DEF k
  <2>1. \A m \in Nat : m <= k <=> m <= e \/ m = k
    BY <1>1, <1>7
  <2>2. ~(k <= e)
    BY <1>1, <1>7
  <2>. QED
    BY <1>5, <2>1, <2>2 DEF Served
<1> HIDE DEF k
<1>11. ServedMap' = [ServedMap EXCEPT ![k] = "yes"] /\ ServedMap[k] = "no" /\ AskedMap[k] = "waiting"
  BY <1>7, <1>9, <1>10 DEF ServedMap, AskedMap
<1>. QED
  BY <1>7, <1>8, <1>11 DEF Abstract!Next, Abstract!Serve, AskedMap, ServedMap

\* An output is printed: the message that was served last is answered; or the stream
\* has ended, and the user is told nothing
LEMMA ReadAnswers ==
  ASSUME IInv, OneByOne, ReadCompleted
  PROVE  Abstract!Next
<1> DEFINE p == Len(printed)
           k == p + 1
           e == Len(evaluated)
<1>1. p \in Nat /\ e \in Nat /\ sent \in 0..Msgs /\ Msgs \in Nat
  BY CountsOrdered, SessionAssumption
<1>2. /\ printed \in Seq(Seq(Piece)) /\ down \in Seq(Piece)
      /\ chan = "open" /\ ~broken /\ rop /\ UNCHANGED <<sent, evaluated>>
  BY DEF IInv, Basic, StreamsInv, ReadCompleted, server
<1>3. PICK n \in 0..Len(down) :
        (n = 0 => down = Nil /\ srv = "gone") /\ printed' = App(printed, Take(down, n))
  BY DEF ReadCompleted, Nil, App, Take
<1> DEFINE a == Take(down, n)
<1>4. a \in Seq(Piece) /\ Len(a) = n
  BY <1>2, <1>3, Transfer
<1> HIDE DEF a
<1>5. Len(printed') = k /\ printed'[k] = a /\ \A m \in 1..p : printed'[m] = printed[m]
  <2> DEFINE E == Seq(Piece)
  <2>1. printed \in Seq(E) /\ a \in E
    BY <1>2, <1>4
  <2> HIDE DEF E
  <2>2. /\ Len(App(printed, a)) = p + 1 /\ App(printed, a)[p + 1] = a
        /\ \A m \in 1..p : App(printed, a)[m] = printed[m]
    BY <2>1, AppProperties
  <2>. QED
    BY <1>3, <2>2 DEF a
<1>6. sent = k /\ k \in 1..Msgs
  BY <1>1, <1>2 DEF IInv, Turn
<1>7. ServedMap' = ServedMap
  BY <1>2 DEF ServedMap, Served
<1> DEFINE v == IF a = <<>> THEN "failed" ELSE "answered"
<1>8. Asked(k) = "waiting" /\ \A m \in 1..Msgs : Asked(m)' = IF m = k THEN v ELSE Asked(m)
  <2>1. ~(k <= p) /\ k > p /\ k <= sent /\ k <= k
    BY <1>1, <1>6
  <2>2. Asked(k) = "waiting"
    BY <2>1 DEF Asked
  <2>3. ASSUME NEW m \in 1..Msgs, m = k PROVE Asked(m)' = v
    <3>1. m <= Len(printed') /\ printed'[m] = a
      BY <1>5, <2>1, <2>3
    <3>. QED
      BY <3>1 DEF Asked
  <2>4. ASSUME NEW m \in 1..Msgs, m # k PROVE Asked(m)' = Asked(m)
    <3>1. CASE m <= p
      <4>1. m \in 1..p /\ m <= k /\ ~(m > k) /\ ~(m > p)
        BY <1>1, <3>1
      <4>2. printed'[m] = printed[m]
        BY <1>5, <4>1
      <4>. QED
        BY <1>5, <3>1, <4>1, <4>2 DEF Asked
    <3>2. CASE ~(m <= p)
      <4>1. ~(m <= k) /\ m > k /\ m > p /\ ~(m <= sent)
        BY <1>1, <1>6, <2>4, <3>2
      <4>. QED
        BY <1>2, <1>5, <3>2, <4>1 DEF Asked
    <3>. QED
      BY <3>1, <3>2
  <2>. QED
    BY <2>2, <2>3, <2>4
<1> HIDE DEF k, v
<1>9. AskedMap' = [AskedMap EXCEPT ![k] = v] /\ AskedMap[k] = "waiting"
  BY <1>6, <1>8 DEF AskedMap
<1>10. CASE a = <<>>
  BY <1>6, <1>7, <1>9, <1>10 DEF v, Abstract!Next, Abstract!Fail, AskedMap, ServedMap
<1>11. CASE a # <<>>
  <2>1. down # Nil
    BY <1>2, <1>3, <1>4, <1>11, NilProperties DEF Nil
  <2>2. k <= e
    BY <1>2, <2>1 DEF IInv, PatientInv, Arriving, k
  <2>3. ServedMap[k] = "yes"
    BY <1>6, <2>2 DEF ServedMap, Served
  <2>. QED
    BY <1>6, <1>7, <1>9, <1>11, <2>3 DEF v, Abstract!Next, Abstract!Answer, AskedMap, ServedMap
<1>. QED
  BY <1>10, <1>11

\* ReadHandler_Server.java:19-35, ReadHandler.java:16-27: a patient user's session, of any
\* number of messages that travel whole, implements RequestReply: a message is served at
\* most once, after it was asked, and answered after that; the end of the stream tells
\* the user nothing
THEOREM PatientServiceHolds == Spec => PatientService
<1>1. Init => Abstract!Init
  <2> SUFFICES ASSUME Init PROVE Abstract!Init
    OBVIOUS
  <2>1. printed = <<>> /\ Len(printed) = 0 /\ Len(evaluated) = 0 /\ sent = 0
    BY DEF Init
  <2>. QED
    BY <2>1 DEF Abstract!Init, Asked, Served
<1>2. IInv /\ [Next]_vars
        => [OneByOne => Abstract!Next]_<<[k \in 1..Msgs |-> Asked(k)], [k \in 1..Msgs |-> Served(k)]>>
  <2> SUFFICES ASSUME IInv, [Next]_vars, OneByOne
               PROVE  Abstract!Next \/ UNCHANGED <<AskedMap, ServedMap>>
    BY DEF AskedMap, ServedMap
  <2>1. CASE ControlStep
    BY <2>1, ControlMoves, Unseen DEF IInv
  <2>2. CASE Send
    BY <2>2, SendAsks
  <2>3. CASE WriteCompleted \/ ServerWrite
    BY <2>3, Unseen DEF WriteCompleted, ServerWrite, client, server
  <2>4. CASE ReadCompleted
    BY <2>4, ReadAnswers
  <2>5. CASE ServerRead
    BY <2>5, ServerReadServes
  <2>6. CASE UNCHANGED vars
    BY <2>6, Unseen DEF vars, client, server
  <2>. QED
    BY <2>1, <2>2, <2>3, <2>4, <2>5, <2>6 DEF Next, ClientIO, ServerIO, ControlStep
<1>. QED
  BY IInvInvariant, <1>1, <1>2, PTL DEF Spec, PatientService
=============================================================================
