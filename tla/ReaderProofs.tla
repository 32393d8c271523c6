--------------------------- MODULE ReaderProofs ---------------------------
(***************************************************************************)
(* Theorems on the scanner, for texts of any length.                       *)
(*                                                                         *)
(* The invariant speaks of a source as a whole: the characters taken, the  *)
(* rest of the line and what the input will still deliver make up the text *)
(* (Whole), and the characters taken since the token began are what the    *)
(* place in the scanner says of them (Taking).  A character is got, behind *)
(* any number of quoted newlines, and put back (GetcGets, UngetcPuts).     *)
(* There is no theorem of induction over sequences to cite, since those of *)
(* the library are on predicates: Characters states it for a set.          *)
(***************************************************************************)
EXTENDS Reader, SequenceTheorems, WellFoundedInduction, TLAPS

-----------------------------------------------------------------------------
(***************************************************************************)
(* Induction, for a set in the place of a predicate.                       *)
(***************************************************************************)

LEMMA UpTo ==
    ASSUME NEW n \in Nat, NEW S \in SUBSET (0..n), 0 \in S,
           \A i \in 1..n : i - 1 \in S => i \in S
    PROVE  S = 0..n
  <1> DEFINE R == OpToRel(<, Nat)
  <1> DEFINE C == (0..n) \ S
  <1> SUFFICES ASSUME C # {} PROVE FALSE  OBVIOUS
  <1>1. C \subseteq Nat  OBVIOUS
  <1>2. \E i \in C : \A j \in C : <<j, i>> \notin R
    <2>1. IsWellFoundedOn(R, Nat)  BY NatLessThanWellFounded
    <2> HIDE DEF R, C
    <2> QED  BY <1>1, <2>1, WFMin
  <1>3. \A i, j \in Nat : <<j, i>> \notin R => i <= j  BY DEF OpToRel
  <1> HIDE DEF R
  <1>4. PICK i \in C : \A j \in C : i <= j  BY <1>1, <1>2, <1>3
  <1>5. i \in 1..n /\ i - 1 \in 0..n /\ i - 1 < i  BY <1>4
  <1>6. i - 1 \in S  BY <1>4, <1>5
  <1> QED  BY <1>4, <1>5, <1>6

\* A sequence is its characters, appended one by one.
LEMMA Characters ==
    ASSUME NEW S \in SUBSET Seq(Class), <<>> \in S,
           \A t \in S : \A c \in Class : Append(t, c) \in S
    PROVE  S = Seq(Class)
  <1> SUFFICES ASSUME NEW s \in Seq(Class) PROVE s \in S  OBVIOUS
  <1> DEFINE n == Len(s)
  <1> DEFINE upto(i) == [j \in 1..i |-> s[j]]
  <1> DEFINE I == {i \in 0..n : upto(i) \in S}
  <1>1. n \in Nat /\ \A j \in 1..n : s[j] \in Class  OBVIOUS
  <1> HIDE DEF n
  <1>2. 0 \in I
    <2>1. upto(0) = <<>>  OBVIOUS
    <2> QED  BY <1>1, <2>1
  <1>3. ASSUME NEW i \in 1..n, i - 1 \in I PROVE i \in I
    <2>1. i - 1 \in Nat /\ i \in Nat /\ \A j \in 1..i : s[j] \in Class  BY <1>1
    <2>2. upto(i - 1) \in Seq(Class) /\ Len(upto(i - 1)) = i - 1  BY <2>1
    <2>3. upto(i) \in Seq(Class) /\ Len(upto(i)) = i  BY <2>1
    <2>4. upto(i) = Append(upto(i - 1), s[i])
      <3> DEFINE u == upto(i - 1)
      <3> DEFINE v == upto(i)
      <3>1. \A j \in 1..i - 1 : u[j] = s[j]  OBVIOUS
      <3>2. \A j \in 1..i : v[j] = s[j]  OBVIOUS
      <3> HIDE DEF u, v
      <3>3. /\ Append(u, s[i]) \in Seq(Class) /\ Len(Append(u, s[i])) = i
            /\ \A j \in 1..i : Append(u, s[i])[j] = s[j]
        BY <2>1, <2>2, <3>1 DEF u
      <3>4. v \in Seq(Class) /\ Len(v) = i  BY <2>3 DEF v
      <3>5. v = Append(u, s[i])  BY <3>2, <3>3, <3>4, SeqEqual
      <3> QED  BY <3>5 DEF u, v
    <2>5. upto(i - 1) \in S /\ s[i] \in Class /\ i \in 0..n  BY <1>1, <1>3, <2>1
    <2> HIDE DEF upto
    <2>6. upto(i) \in S  BY <2>4, <2>5
    <2> QED  BY <2>5, <2>6
  <1>4. I \in SUBSET (0..n)  OBVIOUS
  <1>5. s = upto(n)  BY DEF n
  <1> HIDE DEF I, upto
  <1>6. I = 0..n  BY <1>1, <1>2, <1>3, <1>4, UpTo
  <1>7. n \in I  BY <1>1, <1>6
  <1> QED  BY <1>5, <1>7 DEF I

-----------------------------------------------------------------------------
(***************************************************************************)
(* Through: a step per character.                                          *)
(***************************************************************************)
Step == [Seq(Class) \X Class -> Seq(Class)]

\* v has what g makes of the first characters of s, for every number of them.
Passes(g, s, v) ==
    /\ v \in [0..Len(s) -> Seq(Class)] /\ v[0] = <<>>
    /\ \A i \in 1..Len(s) : v[i] = g[<<v[i - 1], s[i]>>]

Turns(g, s, w) == [n \in 0..Len(s) |-> IF n = 0 THEN <<>> ELSE g[<<w[n - 1], s[n]>>]]

LEMMA ThroughIs ==
    ASSUME NEW g, NEW s \in Seq(Class), NEW v, Passes(g, s, v)
    PROVE  Through(g, s) = v[Len(s)]
  <1> DEFINE n == Len(s)
  <1> DEFINE w == CHOOSE w : w = Turns(g, s, w)
  <1>1. n \in Nat  OBVIOUS
  <1>2. v = Turns(g, s, v)
    <2>1. v = [i \in 0..n |-> v[i]]  BY DEF Passes
    <2>2. \A i \in 0..n : v[i] = IF i = 0 THEN <<>> ELSE g[<<v[i - 1], s[i]>>]
      <3>1. \A i \in 0..n : i # 0 => i \in 1..n  BY <1>1
      <3> HIDE DEF n
      <3> QED  BY <3>1 DEF Passes, n
    <2> HIDE DEF n
    <2> QED  BY <2>1, <2>2 DEF Turns, n
  <1>3. w = Turns(g, s, w)  BY <1>2
  <1>4. Through(g, s) = w[n]  BY DEF Through, Turns
  <1> HIDE DEF w
  <1> DEFINE S == {i \in 0..n : w[i] = v[i]}
  <1>5. \A i \in 0..n : w[i] = IF i = 0 THEN <<>> ELSE g[<<w[i - 1], s[i]>>]
    BY <1>3 DEF Turns
  <1>6. v[0] = <<>> /\ \A i \in 1..n : v[i] = g[<<v[i - 1], s[i]>>]  BY DEF Passes
  <1> HIDE DEF n
  <1>7. 0 \in S
    <2>1. 0 \in 0..n  BY <1>1
    <2>2. w[0] = <<>>  BY <1>5, <2>1
    <2> QED  BY <1>6, <2>1, <2>2
  <1>8. ASSUME NEW i \in 1..n, i - 1 \in S PROVE i \in S
    <2>1. i \in 0..n /\ i # 0  BY <1>1
    <2>2. w[i - 1] = v[i - 1]  BY <1>8
    <2> QED  BY <1>5, <1>6, <2>1, <2>2
  <1>9. S \in SUBSET (0..n)  OBVIOUS
  <1> HIDE DEF S
  <1>10. S = 0..n  BY <1>1, <1>7, <1>8, <1>9, UpTo
  <1> QED  BY <1>1, <1>4, <1>10 DEF S, n

LEMMA AppendIs ==
    ASSUME NEW s \in Seq(Class), NEW c \in Class
    PROVE  /\ Append(s, c) \in Seq(Class) /\ Append(s, c) # <<>>
           /\ Len(Append(s, c)) = Len(s) + 1 /\ Len(s) \in Nat
           /\ Last(Append(s, c)) = c /\ Front(Append(s, c)) = s
           /\ Append(s, c) = s \o <<c>>
  <1> DEFINE w == Append(s, c)
  <1>1. /\ w \in Seq(Class) /\ Len(w) = Len(s) + 1 /\ w[Len(s) + 1] = c /\ Len(s) \in Nat
        /\ \A i \in 1..Len(s) : w[i] = s[i]
        /\ w = s \o <<c>>
    OBVIOUS
  <1> HIDE DEF w
  <1>2. w # <<>> /\ Last(w) = c  BY <1>1 DEF Last
  <1>3. Front(w) = s
    <2>1. Len(w) - 1 = Len(s) /\ \A i \in 1..Len(s) : w[i] \in Class  BY <1>1
    <2>2. /\ Len(s) - 1 + 1 = Len(s) /\ 1 \in Int /\ Len(s) \in Int
          /\ \A i \in 1..Len(s) : 1 + i - 1 = i
      BY <1>1
    <2>3. /\ SubSeq(w, 1, Len(s)) \in Seq(Class) /\ Len(SubSeq(w, 1, Len(s))) = Len(s)
          /\ \A i \in 1..Len(s) : SubSeq(w, 1, Len(s))[i] = s[i]
      BY <1>1, <2>1, <2>2, SubSeqProperties
    <2>4. SubSeq(w, 1, Len(s)) = s  BY <2>3, SeqEqual
    <2> QED  BY <2>1, <2>4 DEF Front
  <1> QED  BY <1>1, <1>2, <1>3 DEF w

LEMMA AppendJoin ==
    ASSUME NEW s \in Seq(Class), NEW t \in Seq(Class), NEW c \in Class
    PROVE  s \o Append(t, c) = Append(s \o t, c)
  OBVIOUS

LEMMA PairIs ==
    ASSUME NEW y \in Class, NEW z \in Class
    PROVE  <<y>> \o <<z>> = <<y, z>>
  <1> DEFINE p == <<y>>
  <1> DEFINE q == <<z>>
  <1> DEFINE r == <<y, z>>
  <1> DEFINE w == p \o q
  <1>1. p \in Seq(Class) /\ Len(p) = 1 /\ p[1] = y  OBVIOUS
  <1>2. q \in Seq(Class) /\ Len(q) = 1 /\ q[1] = z  OBVIOUS
  <1>3. r \in Seq(Class) /\ Len(r) = 2 /\ r[1] = y /\ r[2] = z  OBVIOUS
  <1> HIDE DEF p, q, r
  <1>4. w \in Seq(Class)  BY ONLY <1>1, <1>2, ConcatProperties
  <1>5. Len(w) = Len(p) + Len(q)  BY ONLY <1>1, <1>2, ConcatProperties
  <1>6. \A i \in 1..Len(p) + Len(q) : w[i] = IF i <= Len(p) THEN p[i] ELSE q[i - Len(p)]
    BY ONLY <1>1, <1>2, ConcatProperties
  <1>7. 1 \in 1..1 + 1 /\ 2 \in 1..1 + 1 /\ 1 <= 1 /\ ~(2 <= 1) /\ 2 - 1 = 1 /\ 1 + 1 = 2
    OBVIOUS
  <1> HIDE DEF w
  <1>8. Len(w) = 2 /\ w[1] = y /\ w[2] = z  BY <1>1, <1>2, <1>5, <1>6, <1>7
  <1>9. \A i \in 1..2 : i = 1 \/ i = 2  OBVIOUS
  <1>10. w = r  BY <1>3, <1>4, <1>8, <1>9, SeqEqual
  <1> QED  BY <1>10 DEF p, q, r, w

\* One character more.
LEMMA PassesOn ==
    ASSUME NEW g \in Step, NEW s \in Seq(Class), NEW c \in Class, NEW v, Passes(g, s, v)
    PROVE  \E w : /\ Passes(g, Append(s, c), w)
                  /\ w[Len(Append(s, c))] = g[<<v[Len(s)], c>>]
  <1> DEFINE n == Len(s)
  <1> DEFINE t == Append(s, c)
  <1> DEFINE w == [i \in 0..n + 1 |-> IF i <= n THEN v[i] ELSE g[<<v[n], c>>]]
  <1>1. /\ n \in Nat /\ t \in Seq(Class) /\ Len(t) = n + 1
        /\ \A i \in 1..n : t[i] = s[i] /\ s[i] \in Class
        /\ t[n + 1] = c
    OBVIOUS
  <1>2. /\ v \in [0..n -> Seq(Class)] /\ v[0] = <<>>
        /\ \A i \in 1..n : v[i] = g[<<v[i - 1], s[i]>>]
    BY DEF Passes
  <1> HIDE DEF n, t
  <1>3. n \in 0..n /\ n + 1 \in 0..n + 1 /\ ~(n + 1 <= n) /\ 0 <= n  BY <1>1
  <1>4. g[<<v[n], c>>] \in Seq(Class)  BY <1>2, <1>3 DEF Step
  <1>5. \A i \in 0..n + 1 : i <= n => i \in 0..n  BY <1>1
  <1>6. w \in [0..n + 1 -> Seq(Class)]  BY <1>2, <1>4, <1>5
  <1>7. w[0] = <<>> /\ w[n + 1] = g[<<v[n], c>>]  BY <1>1, <1>2, <1>3
  <1>8. ASSUME NEW i \in 1..n + 1 PROVE w[i] = g[<<w[i - 1], t[i]>>]
    <2>1. i - 1 \in 0..n + 1 /\ i - 1 <= n /\ i \in 0..n + 1  BY <1>1
    <2>2. w[i - 1] = v[i - 1]  BY <2>1
    <2>3. CASE i <= n
      <3>1. i \in 1..n  BY <1>1, <2>3
      <3>2. w[i] = v[i]  BY <2>1, <2>3
      <3> HIDE DEF w
      <3> QED  BY <1>1, <1>2, <2>2, <3>1, <3>2
    <2>4. CASE i = n + 1
      <3>1. i - 1 = n  BY <1>1, <2>4
      <3> HIDE DEF w
      <3> QED  BY <1>1, <1>7, <2>2, <2>4, <3>1
    <2>5. i <= n \/ i = n + 1  BY <1>1
    <2> QED  BY <2>3, <2>4, <2>5
  <1> HIDE DEF w
  <1>9. Passes(g, t, w)  BY <1>1, <1>6, <1>7, <1>8 DEF Passes
  <1>10. w[Len(t)] = g[<<v[Len(s)], c>>]  BY <1>1, <1>7 DEF n
  <1> QED  BY <1>9, <1>10 DEF t

LEMMA PassesAll ==
    ASSUME NEW g \in Step, NEW s \in Seq(Class)
    PROVE  \E v : Passes(g, s, v)
  <1> DEFINE S == {t \in Seq(Class) : \E v : Passes(g, t, v)}
  <1>1. <<>> \in S
    <2> DEFINE v == [i \in 0..0 |-> <<>>]
    <2>1. Len(<<>>) = 0 /\ <<>> \in Seq(Class) /\ 1..0 = {}  OBVIOUS
    <2>2. v \in [0..0 -> Seq(Class)] /\ v[0] = <<>>  OBVIOUS
    <2> HIDE DEF v
    <2>3. Passes(g, <<>>, v)  BY <2>1, <2>2 DEF Passes
    <2> QED  BY <2>1, <2>3
  <1>2. ASSUME NEW t \in S, NEW c \in Class PROVE Append(t, c) \in S
    <2>1. t \in Seq(Class) /\ Append(t, c) \in Seq(Class)  OBVIOUS
    <2>2. PICK v : Passes(g, t, v)  OBVIOUS
    <2>3. \E w : Passes(g, Append(t, c), w)  BY <2>1, <2>2, PassesOn
    <2> QED  BY <2>1, <2>3
  <1>3. S \in SUBSET Seq(Class)  OBVIOUS
  <1> HIDE DEF S
  <1>4. S = Seq(Class)  BY <1>1, <1>2, <1>3, Characters
  <1> QED  BY <1>4 DEF S

LEMMA ThroughAppend ==
    ASSUME NEW g \in Step, NEW s \in Seq(Class)
    PROVE  /\ Through(g, <<>>) = <<>> /\ Through(g, s) \in Seq(Class)
           /\ \A c \in Class : Through(g, Append(s, c)) = g[<<Through(g, s), c>>]
  <1>1. PICK v : Passes(g, s, v)  BY PassesAll
  <1>2. Through(g, s) = v[Len(s)]  BY <1>1, ThroughIs
  <1>3. v[Len(s)] \in Seq(Class)
    <2>1. Len(s) \in 0..Len(s)  OBVIOUS
    <2> QED  BY <1>1, <2>1 DEF Passes
  <1>4. Through(g, <<>>) = <<>>
    <2>1. <<>> \in Seq(Class) /\ Len(<<>>) = 0  OBVIOUS
    <2>2. PICK w : Passes(g, <<>>, w)  BY <2>1, PassesAll
    <2>3. Through(g, <<>>) = w[Len(<<>>)]  BY <2>1, <2>2, ThroughIs
    <2> QED  BY <2>1, <2>2, <2>3 DEF Passes
  <1>5. ASSUME NEW c \in Class PROVE Through(g, Append(s, c)) = g[<<Through(g, s), c>>]
    <2>1. Append(s, c) \in Seq(Class)  OBVIOUS
    <2>2. PICK w : Passes(g, Append(s, c), w) /\ w[Len(Append(s, c))] = g[<<v[Len(s)], c>>]
      BY <1>1, PassesOn
    <2>3. Through(g, Append(s, c)) = w[Len(Append(s, c))]  BY <2>1, <2>2, ThroughIs
    <2> QED  BY <1>2, <2>2, <2>3
  <1> QED  BY <1>2, <1>3, <1>4, <1>5

LEMMA NonNulIs ==
    ASSUME NEW s \in Seq(Class)
    PROVE  /\ NonNul(<<>>) = <<>> /\ NonNul(s) \in Seq(Class)
           /\ NonNul(Append(s, "nul")) = NonNul(s)
           /\ \A c \in Class : c # "nul" => NonNul(Append(s, c)) = Append(NonNul(s), c)
  <1>1. \A x \in Seq(Class) \X Class : Filter[x] = IF x[2] = "nul" THEN x[1] ELSE Append(x[1], x[2])
    BY DEF Filter
  <1>2. Filter \in Step
    <2>1. \A x \in Seq(Class) \X Class : x[1] \in Seq(Class) /\ Append(x[1], x[2]) \in Seq(Class)
      OBVIOUS
    <2> QED  BY <2>1 DEF Filter, Step
  <1>3. "nul" \in Class  BY DEF Class
  <1>4. /\ Through(Filter, <<>>) = <<>> /\ Through(Filter, s) \in Seq(Class)
        /\ \A c \in Class : Through(Filter, Append(s, c)) = Filter[<<Through(Filter, s), c>>]
    BY <1>2, ThroughAppend
  <1> DEFINE t == Through(Filter, s)
  <1> HIDE DEF t
  <1>5. \A c \in Class : <<t, c>> \in Seq(Class) \X Class /\ <<t, c>>[1] = t /\ <<t, c>>[2] = c
    BY <1>4 DEF t
  <1>6. \A c \in Class : Filter[<<t, c>>] = IF c = "nul" THEN t ELSE Append(t, c)
    BY <1>1, <1>5
  <1> QED  BY <1>3, <1>4, <1>6 DEF NonNul, t

LEMMA NonNulJoin ==
    ASSUME NEW s \in Seq(Class), NEW t \in Seq(Class)
    PROVE  NonNul(s \o t) = NonNul(s) \o NonNul(t)
  <1> DEFINE S == {u \in Seq(Class) : NonNul(s \o u) = NonNul(s) \o NonNul(u)}
  <1>1. <<>> \in S
    <2>1. s \o <<>> = s /\ <<>> \in Seq(Class)  OBVIOUS
    <2>2. NonNul(<<>>) = <<>> /\ NonNul(s) \in Seq(Class)  BY NonNulIs
    <2>3. NonNul(s) \o <<>> = NonNul(s)  BY <2>2
    <2> QED  BY <2>1, <2>2, <2>3
  <1>2. ASSUME NEW u \in S, NEW c \in Class PROVE Append(u, c) \in S
    <2>1. u \in Seq(Class) /\ NonNul(s \o u) = NonNul(s) \o NonNul(u)  OBVIOUS
    <2>2. s \o u \in Seq(Class) /\ Append(u, c) \in Seq(Class)  BY <2>1
    <2>3. s \o Append(u, c) = Append(s \o u, c)  BY <2>1
    <2>4. NonNul(s) \in Seq(Class) /\ NonNul(u) \in Seq(Class)  BY <2>1, NonNulIs
    <2>5. CASE c = "nul"
      <3>1. NonNul(Append(s \o u, c)) = NonNul(s \o u)  BY <2>2, <2>5, NonNulIs
      <3>2. NonNul(Append(u, c)) = NonNul(u)  BY <2>1, <2>5, NonNulIs
      <3> QED  BY <2>1, <2>2, <2>3, <3>1, <3>2
    <2>6. CASE c # "nul"
      <3>1. NonNul(Append(s \o u, c)) = Append(NonNul(s \o u), c)  BY <2>2, <2>6, NonNulIs
      <3>2. NonNul(Append(u, c)) = Append(NonNul(u), c)  BY <2>1, <2>6, NonNulIs
      <3>3. NonNul(s) \o Append(NonNul(u), c) = Append(NonNul(s) \o NonNul(u), c)  BY <2>4
      <3> QED  BY <2>1, <2>2, <2>3, <3>1, <3>2, <3>3
    <2> QED  BY <2>5, <2>6
  <1>3. S \in SUBSET Seq(Class)  OBVIOUS
  <1> HIDE DEF S
  <1>4. S = Seq(Class)  BY <1>1, <1>2, <1>3, Characters
  <1> QED  BY <1>4 DEF S

\* No character comes in.
Without(c, s) == \A i \in 1..Len(s) : s[i] # c

LEMMA NonNulFree ==
    ASSUME NEW s \in Seq(Class), NEW c, Without(c, s)
    PROVE  Without(c, NonNul(s))
  <1> DEFINE S == {u \in Seq(Class) : Without(c, u) => Without(c, NonNul(u))}
  <1>1. <<>> \in S
    <2>1. NonNul(<<>>) = <<>> /\ <<>> \in Seq(Class)  BY NonNulIs
    <2>2. Without(c, <<>>)  BY DEF Without
    <2> QED  BY <2>1, <2>2
  <1>2. ASSUME NEW u \in S, NEW d \in Class PROVE Append(u, d) \in S
    <2>1. /\ u \in Seq(Class) /\ Append(u, d) \in Seq(Class)
          /\ Without(c, u) => Without(c, NonNul(u))
      OBVIOUS
    <2> SUFFICES ASSUME Without(c, Append(u, d)) PROVE Without(c, NonNul(Append(u, d)))
      BY <2>1
    <2>2. Without(c, u) /\ d # c
      <3>1. /\ Len(Append(u, d)) = Len(u) + 1 /\ Len(u) \in Nat /\ Append(u, d)[Len(u) + 1] = d
            /\ \A i \in 1..Len(u) : Append(u, d)[i] = u[i]
        BY <2>1
      <3>2. Len(u) + 1 \in 1..Len(u) + 1 /\ \A i \in 1..Len(u) : i \in 1..Len(u) + 1  BY <3>1
      <3> QED  BY <3>1, <3>2 DEF Without
    <2>3. NonNul(u) \in Seq(Class)  BY <2>1, NonNulIs
    <2>4. CASE d = "nul"  BY <2>1, <2>2, <2>4, NonNulIs
    <2>5. CASE d # "nul"
      <3>1. NonNul(Append(u, d)) = Append(NonNul(u), d)  BY <2>1, <2>5, NonNulIs
      <3> DEFINE n == NonNul(u)
      <3>2. n \in Seq(Class) /\ Without(c, n)  BY <2>1, <2>2, <2>3
      <3> HIDE DEF n
      <3>3. Without(c, Append(n, d))  BY <2>2, <3>2 DEF Without
      <3> QED  BY <3>1, <3>3 DEF n
    <2> QED  BY <2>4, <2>5
  <1>3. S \in SUBSET Seq(Class)  OBVIOUS
  <1> HIDE DEF S
  <1>4. S = Seq(Class)  BY <1>1, <1>2, <1>3, Characters
  <1> QED  BY <1>4 DEF S

LEMMA UnfoldedIs ==
    ASSUME NEW s \in Seq(Class)
    PROVE  /\ Unfolded(<<>>) = <<>> /\ Unfolded(s) \in Seq(Class)
           /\ \A c \in Class :
                 c # "nl" \/ Unfolded(s) = <<>> \/ Last(Unfolded(s)) # "\\"
                    => Unfolded(Append(s, c)) = Append(Unfolded(s), c)
           /\ Unfolded(s) # <<>> /\ Last(Unfolded(s)) = "\\"
                 => Unfolded(Append(s, "nl")) = Front(Unfolded(s))
  <1>1. \A x \in Seq(Class) \X Class :
           Unfold[x] = IF x[2] = "nl" /\ x[1] # <<>> /\ Last(x[1]) = "\\"
                       THEN Front(x[1]) ELSE Append(x[1], x[2])
    BY DEF Unfold
  <1>2. Unfold \in Step
    <2>1. ASSUME NEW x \in Seq(Class) \X Class PROVE Unfold[x] \in Seq(Class)
      <3>1. x[1] \in Seq(Class) /\ x[2] \in Class /\ Append(x[1], x[2]) \in Seq(Class)  OBVIOUS
      <3>2. x[1] # <<>> => Front(x[1]) \in Seq(Class)
        <4> DEFINE y == x[1]
        <4>1. y \in Seq(Class)  BY <3>1
        <4> HIDE DEF y
        <4>2. Len(y) \in Nat /\ \A i \in 1..Len(y) - 1 : y[i] \in Class  BY <4>1
        <4>3. SubSeq(y, 1, Len(y) - 1) \in Seq(Class)  BY <4>2, SubSeqProperties
        <4> QED  BY <4>3 DEF Front, y
      <3> QED  BY <1>1, <3>1, <3>2
    <2>2. Unfold = [x \in Seq(Class) \X Class |-> Unfold[x]]  BY DEF Unfold
    <2> HIDE DEF Unfold
    <2> QED  BY <2>1, <2>2 DEF Step
  <1>3. "nl" \in Class  BY DEF Class
  <1>4. /\ Through(Unfold, <<>>) = <<>> /\ Through(Unfold, s) \in Seq(Class)
        /\ \A c \in Class : Through(Unfold, Append(s, c)) = Unfold[<<Through(Unfold, s), c>>]
    BY <1>2, ThroughAppend
  <1> DEFINE t == Through(Unfold, s)
  <1> HIDE DEF t
  <1>5. \A c \in Class : <<t, c>> \in Seq(Class) \X Class /\ <<t, c>>[1] = t /\ <<t, c>>[2] = c
    BY <1>4 DEF t
  <1>6. \A c \in Class : Unfold[<<t, c>>] = IF c = "nl" /\ t # <<>> /\ Last(t) = "\\"
                                            THEN Front(t) ELSE Append(t, c)
    BY <1>1, <1>5
  <1> QED  BY <1>3, <1>4, <1>6 DEF Unfolded, t

\* Quoted newlines, as far as the text without them tells.
Quoted(q) == q \in Seq(Class) /\ \A s \in Seq(Class) : Unfolded(s \o q) = Unfolded(s)

LEMMA QuotedNone == Quoted(<<>>)
  <1>1. \A s \in Seq(Class) : s \o <<>> = s  OBVIOUS
  <1>2. <<>> \in Seq(Class)  OBVIOUS
  <1> QED  BY <1>1, <1>2 DEF Quoted

LEMMA QuotedMore ==
    ASSUME NEW q, Quoted(q)
    PROVE  Quoted(<<"\\", "nl">> \o q)
  <1> DEFINE b == <<"\\", "nl">>
  <1>1. b \in Seq(Class) /\ "\\" \in Class /\ "nl" \in Class  BY DEF Class
  <1>2. q \in Seq(Class)  BY DEF Quoted
  <1>3. ASSUME NEW s \in Seq(Class) PROVE Unfolded(s \o (b \o q)) = Unfolded(s)
    <2>1. s \o (b \o q) = (s \o b) \o q
      <3> HIDE DEF b
      <3> QED  BY <1>1, <1>2, ConcatAssociative
    <2>2. s \o b \in Seq(Class) /\ s \o b = Append(Append(s, "\\"), "nl")
          /\ Append(s, "\\") \in Seq(Class)
      BY <1>1
    <2> HIDE DEF b
    <2>3. Unfolded((s \o b) \o q) = Unfolded(s \o b)  BY <2>2 DEF Quoted
    <2> DEFINE u == Unfolded(s)
    <2>4. u \in Seq(Class) /\ Unfolded(Append(s, "\\")) = Append(u, "\\")
      <3>1. "\\" # "nl"  OBVIOUS
      <3> QED  BY <1>1, <3>1, UnfoldedIs
    <2> HIDE DEF u
    <2>5. /\ Append(u, "\\") # <<>> /\ Last(Append(u, "\\")) = "\\"
          /\ Front(Append(u, "\\")) = u
      BY <1>1, <2>4, AppendIs
    <2>6. Unfolded(Append(Append(s, "\\"), "nl")) = u
      <3>1. Unfolded(Append(s, "\\")) # <<>> /\ Last(Unfolded(Append(s, "\\"))) = "\\"
        BY <2>4, <2>5
      <3>2. Unfolded(Append(Append(s, "\\"), "nl")) = Front(Unfolded(Append(s, "\\")))
        BY <2>2, <3>1, UnfoldedIs
      <3> QED  BY <2>4, <2>5, <3>2
    <2> QED  BY <2>1, <2>2, <2>3, <2>6 DEF u
  <1>4. b \o q \in Seq(Class)  BY <1>1, <1>2
  <1> HIDE DEF b
  <1>5. Quoted(b \o q)  BY <1>3, <1>4 DEF Quoted
  <1> QED  BY <1>5 DEF b

-----------------------------------------------------------------------------
(***************************************************************************)
(* Lines.                                                                  *)
(***************************************************************************)

\* What shell_input_line can be: empty, or with one newline, at its end.
Line(l) ==
    l \in Seq(Class) /\ (l # <<>> => l[Len(l)] = "nl" /\ \A i \in 1..Len(l) - 1 : l[i] # "nl")

FirstNewline(s) == SelectInSeq(s, LAMBDA c : c = "nl")

LEMMA FirstNewlineIs ==
    ASSUME NEW s \in Seq(Class)
    PROVE  \/ FirstNewline(s) = 0 /\ Without("nl", s)
           \/ /\ FirstNewline(s) \in 1..Len(s) /\ s[FirstNewline(s)] = "nl"
              /\ \A i \in 1..FirstNewline(s) - 1 : s[i] # "nl"
  <1> DEFINE I == {i \in 1..Len(s) : s[i] = "nl"}
  <1>1. FirstNewline(s) = IF I # {} THEN Min(I) ELSE 0  BY DEF FirstNewline, SelectInSeq
  <1>2. I \subseteq Nat /\ Len(s) \in Nat  OBVIOUS
  <1>3. CASE I = {}  BY <1>1, <1>3 DEF Without
  <1>4. CASE I # {}
    <2> DEFINE R == OpToRel(<, Nat)
    <2>1. \E i \in I : \A j \in I : <<j, i>> \notin R
      <3>1. IsWellFoundedOn(R, Nat)  BY NatLessThanWellFounded
      <3> HIDE DEF R, I
      <3> QED  BY <1>2, <1>4, <3>1, WFMin
    <2>2. \A i, j \in Nat : <<j, i>> \notin R => i <= j  BY DEF OpToRel
    <2> HIDE DEF R
    <2>3. \E i \in I : \A j \in I : i <= j  BY <1>2, <2>1, <2>2
    <2>4. Min(I) \in I /\ \A j \in I : Min(I) <= j
      <3> HIDE DEF I
      <3> QED  BY <2>3 DEF Min
    <2> DEFINE k == FirstNewline(s)
    <2>5. k \in I /\ \A j \in I : k <= j  BY <1>1, <1>4, <2>4
    <2> HIDE DEF k
    <2>6. k \in 1..Len(s) /\ s[k] = "nl"  BY <2>5
    <2>7. ASSUME NEW i \in 1..k - 1 PROVE s[i] # "nl"
      <3>1. i \in 1..Len(s) /\ ~(k <= i)  BY <1>2, <2>6
      <3> QED  BY <2>5, <3>1
    <2> QED  BY <2>6, <2>7 DEF k
  <1> QED  BY <1>3, <1>4

\* Up to the newline, the newline, and what is behind it.
LEMMA SplitAt ==
    ASSUME NEW x \in Seq(Class), NEW k \in 1..Len(x)
    PROVE  /\ SubSeq(x, 1, k - 1) \in Seq(Class) /\ Len(SubSeq(x, 1, k - 1)) = k - 1
           /\ \A i \in 1..k - 1 : SubSeq(x, 1, k - 1)[i] = x[i]
           /\ SubSeq(x, k + 1, Len(x)) \in Seq(Class)
           /\ Len(SubSeq(x, k + 1, Len(x))) = Len(x) - k
           /\ x = Append(SubSeq(x, 1, k - 1), x[k]) \o SubSeq(x, k + 1, Len(x))
  <1> DEFINE m == Len(x)
  <1> DEFINE p == SubSeq(x, 1, k - 1)
  <1> DEFINE q == SubSeq(x, k + 1, m)
  <1>1. m \in Nat /\ k \in 1..m /\ \A i \in 1..m : x[i] \in Class  OBVIOUS
  <1> HIDE DEF m
  <1>2. p \in Seq(Class) /\ Len(p) = k - 1 /\ \A i \in 1..k - 1 : p[i] = x[i]
    <2>1. \A i \in 1..k - 1 : x[i] \in Class /\ 1 + i - 1 = i  BY <1>1
    <2>2. 1 \in Int /\ k - 1 \in Int /\ (IF 1 <= k - 1 THEN k - 1 - 1 + 1 ELSE 0) = k - 1
          /\ k - 1 - 1 + 1 = k - 1
      BY <1>1
    <2> QED  BY <2>1, <2>2, SubSeqProperties
  <1>3. q \in Seq(Class) /\ Len(q) = m - k /\ \A i \in 1..m - k : q[i] = x[k + i]
    <2>1. \A i \in k + 1..m : x[i] \in Class  BY <1>1
    <2>2. k + 1 \in Int /\ m \in Int /\ (IF k + 1 <= m THEN m - (k + 1) + 1 ELSE 0) = m - k
          /\ m - (k + 1) + 1 = m - k /\ \A i \in 1..m - k : k + 1 + i - 1 = k + i
      BY <1>1
    <2>3. Len(q) = IF k + 1 <= m THEN m - (k + 1) + 1 ELSE 0  BY <2>1, <2>2, SubSeqProperties
    <2>4. \A i \in 1..m - (k + 1) + 1 : q[i] = x[k + 1 + i - 1]  BY <2>1, <2>2, SubSeqProperties
    <2>5. q \in Seq(Class)  BY <2>1, <2>2, SubSeqProperties
    <2> QED  BY <2>2, <2>3, <2>4, <2>5
  <1> HIDE DEF p, q
  <1> DEFINE a == Append(p, x[k])
  <1>4. x[k] \in Class /\ k - 1 + 1 = k  BY <1>1
  <1>5. /\ a \in Seq(Class) /\ Len(a) = k
        /\ \A i \in 1..k - 1 : a[i] = x[i]
        /\ a[k] = x[k]
    BY <1>2, <1>4
  <1> HIDE DEF a
  <1>6. \A i \in 1..k : a[i] = x[i]
    <2>1. \A i \in 1..k : i \in 1..k - 1 \/ i = k  BY <1>1
    <2> QED  BY <1>5, <2>1
  <1> DEFINE y == a \o q
  <1>7. /\ y \in Seq(Class) /\ Len(y) = k + (m - k)
        /\ \A i \in 1..k + (m - k) : y[i] = IF i <= k THEN a[i] ELSE q[i - k]
    <2>1. Len(a) = k /\ Len(q) = m - k /\ a \in Seq(Class) /\ q \in Seq(Class)  BY <1>3, <1>5
    <2>2. y \in Seq(Class)  BY ONLY <2>1, ConcatProperties
    <2>3. Len(y) = Len(a) + Len(q)  BY ONLY <2>1, ConcatProperties
    <2>4. \A i \in 1..Len(a) + Len(q) : y[i] = IF i <= Len(a) THEN a[i] ELSE q[i - Len(a)]
      BY ONLY <2>1, ConcatProperties
    <2> QED  BY <2>1, <2>2, <2>3, <2>4
  <1>8. k + (m - k) = m  BY <1>1
  <1> HIDE DEF y
  <1>9. ASSUME NEW i \in 1..m PROVE y[i] = x[i]
    <2>1. y[i] = IF i <= k THEN a[i] ELSE q[i - k]  BY <1>7, <1>8
    <2>2. CASE i <= k
      <3>1. i \in 1..k  BY <1>1, <2>2
      <3> QED  BY <1>6, <2>1, <2>2, <3>1
    <2>3. CASE ~(i <= k)
      <3>1. i - k \in 1..m - k /\ k + (i - k) = i  BY <1>1, <2>3
      <3>2. q[i - k] = x[k + (i - k)]  BY <1>3, <3>1
      <3> QED  BY <2>1, <2>3, <3>1, <3>2
    <2> QED  BY <2>2, <2>3
  <1>10. x = y
    <2>1. Len(x) = Len(y) /\ \A i \in 1..Len(x) : x[i] = y[i]  BY <1>7, <1>8, <1>9 DEF m
    <2> QED  BY <1>7, <2>1, SeqEqual
  <1> QED  BY <1>2, <1>3, <1>10 DEF y, a, p, q, m

LEMMA DeliveredIs ==
    ASSUME NEW s \in Seq(Class)
    PROVE  Delivered(s) \in Seq(Class) /\ Delivered(<<>>) = <<>>
  <1>1. NonNul(s) \in Seq(Class) /\ NonNul(<<>>) = <<>> /\ "nl" \in Class  BY NonNulIs DEF Class
  <1>2. Append(NonNul(s), "nl") \in Seq(Class)  BY <1>1
  <1> QED  BY <1>1, <1>2 DEF Delivered

\* A text is delivered line by line.
LEMMA DeliveredJoin ==
    ASSUME NEW p \in Seq(Class), NEW q \in Seq(Class)
    PROVE  Delivered(Append(p, "nl") \o q) = Append(NonNul(p), "nl") \o Delivered(q)
  <1>0. "nl" \in Class  BY DEF Class
  <1>1. "nl" \in Class /\ "nl" # "nul" /\ Append(p, "nl") \in Seq(Class)  BY <1>0, AppendIs
  <1> DEFINE a == Append(NonNul(p), "nl")
  <1> DEFINE b == NonNul(q)
  <1>2. NonNul(Append(p, "nl") \o q) = a \o b
    <2>1. NonNul(Append(p, "nl") \o q) = NonNul(Append(p, "nl")) \o NonNul(q)
      BY <1>1, NonNulJoin
    <2>2. NonNul(Append(p, "nl")) = Append(NonNul(p), "nl")  BY <1>1, NonNulIs
    <2> QED  BY <2>1, <2>2
  <1>3. a \in Seq(Class) /\ a # <<>> /\ Last(a) = "nl" /\ b \in Seq(Class)
    <2>1. NonNul(p) \in Seq(Class) /\ b \in Seq(Class)  BY NonNulIs
    <2>2. a \in Seq(Class) /\ a # <<>> /\ Last(a) = "nl"  BY <1>1, <2>1, AppendIs
    <2> QED  BY <2>1, <2>2
  <1>4. Delivered(q) = IF b = <<>> \/ Last(b) = "nl" THEN b ELSE Append(b, "nl")  BY DEF Delivered
  <1>5. Delivered(Append(p, "nl") \o q)
           = IF a \o b = <<>> \/ Last(a \o b) = "nl" THEN a \o b ELSE Append(a \o b, "nl")
    BY <1>2 DEF Delivered
  <1> HIDE DEF a, b
  <1>6. CASE b = <<>>
    <2>1. a \o b = a  BY <1>3, <1>6
    <2>2. Delivered(Append(p, "nl") \o q) = a  BY <1>3, <1>5, <2>1
    <2>3. Delivered(q) = b  BY <1>4, <1>6
    <2> QED  BY <2>1, <2>2, <2>3 DEF a
  <1>7. CASE b # <<>>
    <2>1. Last(a \o b) = Last(b) /\ a \o b # <<>>
      <3>1. Len(a) \in Nat /\ Len(b) \in Nat /\ Len(b) >= 1  BY <1>3, <1>7
      <3>2. Len(a \o b) = Len(a) + Len(b)  BY <1>3
      <3>3. Len(a) + Len(b) \in 1..Len(a) + Len(b) /\ ~(Len(a) + Len(b) <= Len(a))
            /\ Len(a) + Len(b) - Len(a) = Len(b)
        BY <3>1
      <3>4. (a \o b)[Len(a) + Len(b)] = b[Len(b)]
        <4>1. (a \o b)[Len(a) + Len(b)] = IF Len(a) + Len(b) <= Len(a) THEN a[Len(a) + Len(b)]
                                          ELSE b[Len(a) + Len(b) - Len(a)]
          BY ONLY <1>3, <3>3, ConcatProperties
        <4> QED  BY <3>3, <4>1
      <3>5. a \o b # <<>>  BY <1>3
      <3> QED  BY <3>2, <3>4, <3>5 DEF Last
    <2>2. Append(a \o b, "nl") = a \o Append(b, "nl")  BY <1>1, <1>3, AppendJoin
    <2> QED  BY <1>4, <1>5, <1>7, <2>1, <2>2 DEF a
  <1> QED  BY <1>6, <1>7

\* What a new line r leaves of the source s.
NextLine(s, r) ==
    /\ r \in Source /\ r.index = 0 /\ r.taken = s.taken /\ r.lookahead = s.lookahead
    /\ Line(r.line)
    /\ r.line = <<>> => r.input = <<>>
    /\ r.line # <<>> => Len(r.input) < Len(s.input)
    /\ r.line \o Delivered(r.input) = Delivered(s.input)

LEMMA ReadLineIs ==
    ASSUME NEW s \in Source
    PROVE  NextLine(s, ReadLine(s))
  <1> DEFINE x == s.input
  <1> DEFINE m == Len(x)
  <1> DEFINE k == FirstNewline(x)
  <1> DEFINE e == IF k = 0 THEN m ELSE k - 1
  <1> DEFINE b == NonNul(SubSeq(x, 1, e))
  <1> DEFINE l == IF k = 0 /\ b = <<>> THEN <<>> ELSE Append(b, "nl")
  <1> DEFINE i == SubSeq(x, e + 2, m)
  <1> DEFINE r == [s EXCEPT !.input = i, !.line = l, !.index = 0]
  <1>1. ReadLine(s) = r  BY DEF ReadLine, FirstNewline
  <1>2. x \in Seq(Class) /\ m \in Nat /\ s.taken \in Seq(Class) /\ "nl" \in Class
    <2>1. "nl" \in Class  BY DEF Class
    <2> QED  BY <2>1 DEF Source
  <1>3. \/ k = 0 /\ Without("nl", x)
        \/ k \in 1..m /\ x[k] = "nl" /\ \A j \in 1..k - 1 : x[j] # "nl"
    BY <1>2, FirstNewlineIs
  <1> HIDE DEF x, m, k
  <1> DEFINE Good == /\ i \in Seq(Class) /\ Line(l) /\ (l = <<>> => i = <<>>)
                     /\ (l # <<>> => Len(i) < m)
                     /\ l \o Delivered(i) = Delivered(x)
  <1>4. ASSUME NEW c \in Seq(Class), Without("nl", c) PROVE Line(Append(c, "nl"))
    <2>1. /\ Append(c, "nl") \in Seq(Class) /\ Len(Append(c, "nl")) = Len(c) + 1 /\ Len(c) \in Nat
          /\ Append(c, "nl")[Len(c) + 1] = "nl"
          /\ \A j \in 1..Len(c) : Append(c, "nl")[j] = c[j]
      <3> DEFINE z == "nl"
      <3>1. z \in Class  BY <1>2
      <3> HIDE DEF z
      <3>2. /\ Append(c, z) \in Seq(Class) /\ Len(Append(c, z)) = Len(c) + 1 /\ Len(c) \in Nat
            /\ Append(c, z)[Len(c) + 1] = z
            /\ \A j \in 1..Len(c) : Append(c, z)[j] = c[j]
        BY <3>1
      <3> QED  BY <3>2 DEF z
    <2> DEFINE a == Append(c, "nl")
    <2> HIDE DEF a
    <2>2. Len(a) - 1 = Len(c) /\ a \in Seq(Class) /\ a[Len(a)] = "nl"
          /\ \A j \in 1..Len(c) : a[j] = c[j]
      BY <2>1 DEF a
    <2>3. \A j \in 1..Len(a) - 1 : a[j] # "nl"  BY <1>4, <2>2 DEF Without
    <2> QED  BY <2>2, <2>3 DEF Line, a
  <1>5. ASSUME k = 0, Without("nl", x) PROVE Good
    <2>1. e = m /\ SubSeq(x, 1, m) = x  BY <1>2, <1>5 DEF m
    <2>2. b = NonNul(x)  BY <2>1
    <2>3. b \in Seq(Class) /\ Without("nl", b)  BY <1>2, <1>5, <2>2, NonNulIs, NonNulFree
    <2>4. i = <<>>
      <3>1. e + 2 \in Int /\ m \in Int /\ m < e + 2  BY <1>2, <2>1
      <3> QED  BY <3>1, SubSeqEmpty
    <2>5. Delivered(i) = <<>>  BY <1>2, <2>4, DeliveredIs
    <2>6. CASE b = <<>>
      <3>1. l = <<>>  BY <1>5, <2>6
      <3>2. Delivered(x) = <<>>  BY <2>2, <2>6 DEF Delivered
      <3>3. <<>> \o <<>> = <<>> /\ <<>> \in Seq(Class) /\ Line(<<>>)  BY DEF Line
      <3> HIDE DEF l, i
      <3> QED  BY <2>4, <2>5, <3>1, <3>2, <3>3
    <2>7. CASE b # <<>>
      <3>1. l = Append(b, "nl")  BY <2>7
      <3>2. Line(l) /\ l # <<>> /\ l \in Seq(Class)  BY <1>2, <1>4, <2>3, <3>1, AppendIs
      <3>3. Delivered(x) = Append(b, "nl")
        <4>1. Last(b) # "nl"
          <5> HIDE DEF b
          <5>1. Len(b) \in 1..Len(b)  BY <2>3, <2>7
          <5> QED  BY <2>3, <5>1 DEF Last, Without
        <4> QED  BY <2>2, <2>7, <4>1 DEF Delivered
      <3>4. m > 0
        <4> SUFFICES ASSUME m = 0 PROVE FALSE  BY <1>2
        <4>1. x = <<>>  BY <1>2 DEF m
        <4>2. NonNul(x) = <<>>  BY <1>2, <4>1, NonNulIs
        <4> QED  BY <2>2, <2>7, <4>2
      <3>5. <<>> \in Seq(Class) /\ Len(<<>>) = 0  OBVIOUS
      <3> HIDE DEF l, i, b
      <3>6. l \o <<>> = l  BY <3>2
      <3> QED  BY <1>2, <2>4, <2>5, <3>1, <3>2, <3>3, <3>4, <3>5, <3>6
    <2> QED  BY <2>6, <2>7
  <1>6. ASSUME k \in 1..m, x[k] = "nl", \A j \in 1..k - 1 : x[j] # "nl" PROVE Good
    <2> DEFINE p == SubSeq(x, 1, k - 1)
    <2> DEFINE q == SubSeq(x, k + 1, m)
    <2>1. e = k - 1 /\ e + 2 = k + 1 /\ k # 0  BY <1>2, <1>6
    <2>2. /\ p \in Seq(Class) /\ Len(p) = k - 1 /\ \A j \in 1..k - 1 : p[j] = x[j]
          /\ q \in Seq(Class) /\ Len(q) = m - k /\ x = Append(p, "nl") \o q
      BY <1>2, <1>6, SplitAt DEF m
    <2>3. b = NonNul(p) /\ i = q  BY <2>1
    <2> HIDE DEF p, q, i
    <2>4. Without("nl", p)  BY <1>6, <2>2 DEF Without
    <2>5. b \in Seq(Class) /\ Without("nl", b)  BY <2>2, <2>3, <2>4, NonNulIs, NonNulFree
    <2>6. l = Append(b, "nl")  BY <2>1
    <2>7. Line(l) /\ l # <<>>  BY <1>2, <1>4, <2>5, <2>6, AppendIs
    <2>8. Delivered(x) = Append(NonNul(p), "nl") \o Delivered(q)  BY <2>2, DeliveredJoin
    <2>9. Len(i) < m  BY <1>2, <1>6, <2>2, <2>3
    <2> HIDE DEF l, b
    <2> QED  BY <2>2, <2>3, <2>6, <2>7, <2>8, <2>9
  <1>7. Good  BY <1>3, <1>5, <1>6
  <1> HIDE DEF i, l
  <1>8. l \in Seq(Class) /\ i \in Seq(Class)  BY <1>7 DEF Line
  <1>9. /\ r \in Source /\ r.input = i /\ r.line = l /\ r.index = 0
        /\ r.taken = s.taken /\ r.lookahead = s.lookahead
    BY <1>8 DEF Source
  <1> HIDE DEF r
  <1> QED  BY <1>1, <1>7, <1>9 DEF NextLine, x, m

-----------------------------------------------------------------------------
(***************************************************************************)
(* The recursion of shell_getc() over quoted newlines.                     *)
(***************************************************************************)

\* A function may be defined by going on elsewhere from the members of G:
\* its value is found where the steps p have left G.
GoesOn(D, G, p, b, w) == [s \in D |-> IF s \in G THEN w[p[s]] ELSE b[s]]

LEMMA GoingOn ==
    ASSUME NEW D, NEW G \in SUBSET D, NEW p \in [G -> D], NEW b
    PROVE  \E w : w = GoesOn(D, G, p, b, w)
  <1> DEFINE Closed(C) == \A x \in C \cap G : p[x] \in C
  <1> DEFINE Reach(s) == {t \in D : \A C \in SUBSET D : s \in C /\ Closed(C) => t \in C}
  <1> DEFINE Ends(s) == Reach(s) \ G
  <1> DEFINE w == [s \in D |-> b[CHOOSE t : t \in Ends(s)]]
  <1>1. ASSUME NEW s \in D PROVE s \in Reach(s) /\ Closed(Reach(s)) /\ Reach(s) \in SUBSET D
    <2>1. ASSUME NEW x \in Reach(s) \cap G PROVE p[x] \in Reach(s)
      <3>1. p[x] \in D /\ x \in G  BY <2>1
      <3> SUFFICES ASSUME NEW C \in SUBSET D, s \in C, Closed(C) PROVE p[x] \in C  BY <3>1
      <3>2. x \in C  BY <2>1
      <3> QED  BY <3>1, <3>2
    <2> QED  BY <2>1
  <1>2. ASSUME NEW s \in G PROVE Ends(s) = Ends(p[s])
    <2>0. s \in D /\ p[s] \in D  OBVIOUS
    <2>1. Reach(p[s]) \subseteq Reach(s)
      <3> SUFFICES ASSUME NEW t \in Reach(p[s]), NEW C \in SUBSET D, s \in C, Closed(C)
                   PROVE  t \in C
        OBVIOUS
      <3>1. p[s] \in C  OBVIOUS
      <3> QED  BY <3>1
    <2>2. Reach(s) \subseteq {s} \cup Reach(p[s])
      <3> DEFINE C == {s} \cup Reach(p[s])
      <3>1. Closed(C) /\ s \in C /\ C \in SUBSET D
        <4>1. p[s] \in Reach(p[s]) /\ Closed(Reach(p[s])) /\ Reach(p[s]) \in SUBSET D
          BY <1>1, <2>0
        <4> DEFINE P == Reach(p[s])
        <4> HIDE DEF P
        <4>2. p[s] \in P /\ (\A x \in P \cap G : p[x] \in P) /\ P \in SUBSET D  BY <4>1 DEF P
        <4>3. \A x \in ({s} \cup P) \cap G : p[x] \in {s} \cup P  BY <4>2
        <4> QED  BY <2>0, <4>2, <4>3 DEF P
      <3> HIDE DEF C, Closed
      <3>2. Reach(s) \subseteq C  BY <3>1
      <3> QED  BY <3>2 DEF C
    <2> HIDE DEF Reach
    <2> QED  BY <2>1, <2>2
  <1>3. ASSUME NEW s \in D, s \notin G PROVE Ends(s) = {s}
    <2>1. Closed({s}) /\ {s} \in SUBSET D  BY <1>3
    <2>2. Reach(s) \subseteq {s}  BY <2>1
    <2>3. s \in Reach(s)  BY <1>1
    <2> HIDE DEF Reach
    <2> QED  BY <1>3, <2>2, <2>3
  <1> HIDE DEF Ends
  <1>4. ASSUME NEW s \in D PROVE w[s] = IF s \in G THEN w[p[s]] ELSE b[s]
    <2>1. CASE s \in G
      <3>1. p[s] \in D /\ Ends(s) = Ends(p[s])  BY <1>2, <2>1
      <3>2. w[s] = b[CHOOSE t : t \in Ends(s)]  OBVIOUS
      <3>3. w[p[s]] = b[CHOOSE t : t \in Ends(p[s])]  BY <3>1
      <3> QED  BY <2>1, <3>1, <3>2, <3>3
    <2>2. CASE s \notin G
      <3>1. Ends(s) = {s}  BY <1>3, <2>2
      <3>2. w[s] = b[CHOOSE t : t \in {s}]  BY <3>1
      <3>3. (CHOOSE t : t \in {s}) = s  OBVIOUS
      <3> QED  BY <2>2, <3>2, <3>3
    <2> QED  BY <2>1, <2>2
  <1>5. w = [s \in D |-> w[s]]  OBVIOUS
  <1> HIDE DEF w
  <1>6. w = GoesOn(D, G, p, b, w)  BY <1>4, <1>5 DEF GoesOn
  <1> QED  BY <1>6

\* The next character of the line, and the source without it.
Ahead(s)  == s.line[s.index + 1]
Beyond(s) == [s EXCEPT !.index = @ + 1, !.taken = Append(@, Ahead(s))]

\* A quoted newline is ahead: shell_getc(1) goes on with the next line.
Folds(remove, s) ==
    s.line # <<>> /\ remove /\ Ahead(s) = "\\" /\ Beyond(s).line[Beyond(s).index + 1] = "nl"

Unquoted(s) == ReadLine([Beyond(s) EXCEPT !.taken = Append(@, "nl")])

Found(s) == IF s.line = <<>> THEN [c |-> EOF, s |-> s] ELSE [c |-> Ahead(s), s |-> Beyond(s)]

Takes(remove, w) ==
    [s \in Source |-> IF Folds(remove, s) THEN w[Unquoted(s)] ELSE Found(s)]

\* What a source is made of.
LEMMA SourceIs ==
    ASSUME NEW s \in Source
    PROVE  /\ s.input \in Seq(Class) /\ s.line \in Seq(Class) /\ s.index \in Nat
           /\ s.lookahead \in Class \cup {EOF, None} /\ s.taken \in Seq(Class)
  BY DEF Source

LEMMA BeyondIs ==
    ASSUME NEW s \in Source, Ahead(s) \in Class
    PROVE  /\ Beyond(s) \in Source /\ Beyond(s).input = s.input /\ Beyond(s).line = s.line
           /\ Beyond(s).index = s.index + 1 /\ Beyond(s).lookahead = s.lookahead
           /\ Beyond(s).taken = Append(s.taken, Ahead(s))
  <1> DEFINE t == Append(s.taken, Ahead(s))
  <1> DEFINE n == s.index + 1
  <1>1. t \in Seq(Class)  BY SourceIs
  <1>2. n \in Nat  BY SourceIs
  <1>3. Beyond(s) = [s EXCEPT !.index = n, !.taken = t]  BY DEF Beyond
  <1> HIDE DEF t, n
  <1>4. /\ Beyond(s) \in Source /\ Beyond(s).input = s.input /\ Beyond(s).line = s.line
        /\ Beyond(s).index = n /\ Beyond(s).lookahead = s.lookahead
        /\ Beyond(s).taken = t
    BY <1>1, <1>2, <1>3 DEF Source
  <1> QED  BY <1>4 DEF t, n

\* A source with a newline taken.
LEMMA NewlineTaken ==
    ASSUME NEW s \in Source
    PROVE  /\ [s EXCEPT !.taken = Append(@, "nl")] \in Source
           /\ [s EXCEPT !.taken = Append(@, "nl")].input = s.input
           /\ [s EXCEPT !.taken = Append(@, "nl")].lookahead = s.lookahead
           /\ [s EXCEPT !.taken = Append(@, "nl")].taken = Append(s.taken, "nl")
  <1> DEFINE t == Append(s.taken, "nl")
  <1>1. t \in Seq(Class)
    <2>1. "nl" \in Class  BY DEF Class
    <2> QED  BY <2>1, SourceIs, AppendIs
  <1>2. [s EXCEPT !.taken = Append(@, "nl")] = [s EXCEPT !.taken = t]  OBVIOUS
  <1> HIDE DEF t
  <1>3. /\ [s EXCEPT !.taken = t] \in Source /\ [s EXCEPT !.taken = t].input = s.input
        /\ [s EXCEPT !.taken = t].lookahead = s.lookahead /\ [s EXCEPT !.taken = t].taken = t
    BY <1>1 DEF Source
  <1> QED  BY <1>2, <1>3 DEF t

LEMMA FromLineIs ==
    ASSUME NEW remove \in BOOLEAN
    PROVE  \A s \in Source :
              FromLine(remove)[s] = IF Folds(remove, s) THEN FromLine(remove)[Unquoted(s)]
                                                        ELSE Found(s)
  <1> DEFINE G == {s \in Source : Folds(remove, s)}
  <1> DEFINE p == [s \in G |-> Unquoted(s)]
  <1> DEFINE b == [s \in Source |-> Found(s)]
  <1>1. p \in [G -> Source]
    <2>1. ASSUME NEW s \in G PROVE Unquoted(s) \in Source
      <3>1. s \in Source /\ Ahead(s) \in Class
        <4>1. "\\" \in Class  BY DEF Class
        <4> QED  BY <4>1 DEF Folds
      <3>2. Beyond(s) \in Source  BY <3>1, BeyondIs
      <3>3. [Beyond(s) EXCEPT !.taken = Append(@, "nl")] \in Source  BY <3>2, NewlineTaken
      <3> QED  BY <3>3, ReadLineIs DEF Unquoted, NextLine
    <2> HIDE DEF G
    <2> QED  BY <2>1
  <1>2. PICK v : v = [s \in Source |-> IF s \in G THEN v[p[s]] ELSE b[s]]
    <2>1. G \in SUBSET Source  OBVIOUS
    <2> HIDE DEF G, p, b
    <2>2. PICK v : v = GoesOn(Source, G, p, b, v)  BY <1>1, <2>1, GoingOn
    <2> QED  BY <2>2 DEF GoesOn
  <1>3. v = Takes(remove, v)
    <2>1. \A s \in Source : (IF s \in G THEN v[p[s]] ELSE b[s])
                               = IF Folds(remove, s) THEN v[Unquoted(s)] ELSE Found(s)
      OBVIOUS
    <2> DEFINE old(s) == IF s \in G THEN v[p[s]] ELSE b[s]
    <2> DEFINE new(s) == IF Folds(remove, s) THEN v[Unquoted(s)] ELSE Found(s)
    <2>2. \A s \in Source : old(s) = new(s)  BY <2>1
    <2>3. v = [s \in Source |-> old(s)]  BY <1>2
    <2>4. Takes(remove, v) = [s \in Source |-> new(s)]  BY DEF Takes
    <2> HIDE DEF old, new
    <2> QED  BY <2>2, <2>3, <2>4
  <1> DEFINE w == CHOOSE w : w = Takes(remove, w)
  <1>4. w = Takes(remove, w)  BY <1>3
  <1>5. FromLine(remove) = w
    BY DEF FromLine, Takes, Folds, Unquoted, Found, Ahead, Beyond
  <1> HIDE DEF w
  <1>6. \A s \in Source : w[s] = IF Folds(remove, s) THEN w[Unquoted(s)] ELSE Found(s)
    BY <1>4 DEF Takes
  <1> QED  BY <1>5, <1>6

-----------------------------------------------------------------------------
(***************************************************************************)
(* What shell_getc() and shell_ungetc() give and leave.                    *)
(***************************************************************************)

Rest(s)  == SubSeq(s.line, s.index + 1, Len(s.line))
Whole(s) == s.taken \o (Rest(s) \o Delivered(s.input))

\* What holds of a source between two calls: nothing but the end of the
\* input is ever pushed back in front of a line.
SourceInv(s) ==
    /\ s \in Source /\ Line(s.line) /\ s.index <= Len(s.line)
    /\ s.lookahead # None =>
          s.lookahead = EOF /\ s.line = <<>> /\ s.input = <<>> /\ s.index = 0

\* A line is there, or there is none left.
Ready(s) ==
    /\ s \in Source /\ Line(s.line) /\ s.lookahead = None
    /\ s.line # <<>> => s.index < Len(s.line)
    /\ s.line = <<>> => s.input = <<>> /\ s.index = 0

\* q and then c were taken from s, which leaves t.
TakenFrom(s, q, c, t) ==
    \/ c = EOF /\ t.taken = s.taken \o q /\ t.line = <<>> /\ t.input = <<>> /\ t.index = 0
    \/ /\ c \in Class /\ t.taken = Append(s.taken \o q, c)
       /\ t.index \in 1..Len(t.line) /\ t.line[t.index] = c

Got(remove, s, g) ==
    /\ SourceInv(g.s) /\ g.s.lookahead = None
    /\ Whole(g.s) = Whole(s)
    /\ \E q : Quoted(q) /\ (~remove => q = <<>>) /\ TakenFrom(s, q, g.c, g.s)
    /\ ~remove /\ Rest(s) # <<>> => g.c = Ahead(s)

LEMMA RestIs ==
    ASSUME NEW s \in Source, Line(s.line), s.index < Len(s.line)
    PROVE  /\ Ahead(s) \in Class
           /\ Rest(s) = <<Ahead(s)>> \o SubSeq(s.line, s.index + 2, Len(s.line))
           /\ SubSeq(s.line, s.index + 2, Len(s.line)) \in Seq(Class)
           /\ s.index + 1 \in 1..Len(s.line)
           /\ Ahead(s) # "nl" => s.index + 1 < Len(s.line)
  <1> DEFINE l == s.line
  <1> DEFINE i == s.index
  <1> DEFINE n == Len(l)
  <1>1. l \in Seq(Class) /\ i \in Nat /\ n \in Nat  BY SourceIs
  <1>2. l # <<>> => l[n] = "nl"  BY DEF Line
  <1>3. i < n /\ Ahead(s) = l[i + 1] /\ Rest(s) = SubSeq(l, i + 1, n)  BY DEF Ahead, Rest
  <1>4. \A j \in 1..n : l[j] \in Class  BY <1>1
  <1>5. l = <<>> => n = 0  OBVIOUS
  <1> HIDE DEF n, i
  <1>6. i + 1 \in 1..n /\ n \in i + 1..n /\ i + 1 + 1 = i + 2  BY <1>1, <1>3
  <1>7. SubSeq(l, i + 1, n) = <<l[i + 1]>> \o SubSeq(l, i + 2, n)
    <2>1. SubSeq(l, i + 1, n) = <<l[i + 1]>> \o SubSeq(l, i + 1 + 1, n)
      BY <1>1, <1>6, SubSeqRecursiveFirst DEF n
    <2> QED  BY <1>6, <2>1
  <1>8. SubSeq(l, i + 2, n) \in Seq(Class)
    <2>1. \A j \in i + 2..n : l[j] \in Class  BY <1>1, <1>4
    <2>2. i + 2 \in Int /\ n \in Int  BY <1>1
    <2> QED  BY <2>1, <2>2, SubSeqProperties
  <1>9. l[i + 1] # "nl" => i + 1 < n  BY <1>1, <1>2, <1>3, <1>5, <1>6
  <1> QED  BY <1>3, <1>4, <1>6, <1>7, <1>8, <1>9 DEF n, i

LEMMA RestOf ==
    ASSUME NEW s \in Source
    PROVE  /\ Rest(s) \in Seq(Class) /\ Delivered(s.input) \in Seq(Class)
           /\ Rest(s) \o Delivered(s.input) \in Seq(Class)
           /\ s.index >= Len(s.line) => Rest(s) = <<>>
           /\ s.index = 0 => Rest(s) = s.line
  <1> DEFINE l == s.line
  <1> DEFINE i == s.index
  <1>1. l \in Seq(Class) /\ i \in Nat /\ Len(l) \in Nat /\ \A j \in 1..Len(l) : l[j] \in Class
    BY SourceIs
  <1>2. SubSeq(l, i + 1, Len(l)) \in Seq(Class)
    <2>1. \A j \in i + 1..Len(l) : l[j] \in Class /\ i + 1 \in Int /\ Len(l) \in Int  BY <1>1
    <2>2. i + 1 \in Int /\ Len(l) \in Int  BY <1>1
    <2> QED  BY <2>1, <2>2, SubSeqProperties
  <1>3. i >= Len(l) => SubSeq(l, i + 1, Len(l)) = <<>>
    <2>1. i >= Len(l) => Len(l) < i + 1  BY <1>1
    <2>2. i + 1 \in Int /\ Len(l) \in Int  BY <1>1
    <2> QED  BY <2>1, <2>2, SubSeqEmpty
  <1>4. i = 0 => SubSeq(l, i + 1, Len(l)) = l
    <2>1. SubSeq(l, 1, Len(l)) = l  BY <1>1, SubSeqFull
    <2> QED  BY <2>1
  <1>5. Delivered(s.input) \in Seq(Class)  BY SourceIs, DeliveredIs
  <1> DEFINE r == Rest(s)
  <1> DEFINE d == Delivered(s.input)
  <1>6. r \in Seq(Class) /\ d \in Seq(Class)  BY <1>2, <1>5 DEF Rest
  <1> HIDE DEF r, d
  <1>7. r \o d \in Seq(Class)  BY <1>6
  <1> QED  BY <1>2, <1>3, <1>4, <1>5, <1>7 DEF Rest, r, d

\* A new line brings what the old one left out.
LEMMA NextLineIs ==
    ASSUME NEW s \in Source, NEW r, NextLine(s, r), s.lookahead = None
    PROVE  Ready(r) /\ Whole(r) = s.taken \o Delivered(s.input)
  <1>1. r \in Source /\ r.index = 0  BY DEF NextLine
  <1>2. Rest(r) = r.line  BY <1>1, RestOf
  <1>3. r.line # <<>> => 0 < Len(r.line)  BY <1>1, SourceIs
  <1> QED  BY <1>1, <1>2, <1>3 DEF NextLine, Ready, Whole

\* A character on either side of what separates the taken from the rest.
LEMMA Moved ==
    ASSUME NEW u \in Seq(Class), NEW c \in Class, NEW z \in Seq(Class), NEW d \in Seq(Class)
    PROVE  Append(u, c) \o (z \o d) = u \o ((<<c>> \o z) \o d)
  <1>1. Append(u, c) = u \o <<c>> /\ <<c>> \in Seq(Class) /\ z \o d \in Seq(Class)  BY AppendIs
  <1>2. (u \o <<c>>) \o (z \o d) = u \o (<<c>> \o (z \o d))  BY <1>1, ConcatAssociative
  <1>3. (<<c>> \o z) \o d = <<c>> \o (z \o d)  BY <1>1, ConcatAssociative
  <1> QED  BY <1>1, <1>2, <1>3

LEMMA OneCharacter ==
    ASSUME NEW remove \in BOOLEAN, NEW s, Ready(s)
    PROVE  Got(remove, s, Found(s))
  <1> DEFINE g == Found(s)
  <1>1. s \in Source /\ Line(s.line) /\ s.lookahead = None  BY DEF Ready
  <1>2. s.taken \in Seq(Class) /\ s.taken \o <<>> = s.taken /\ s.index \in Nat
        /\ Len(s.line) \in Nat
    BY <1>1, SourceIs
  <1>3. CASE s.line = <<>>
    <2>1. g.c = EOF /\ g.s = s  BY <1>3 DEF Found
    <2>2. SourceInv(s)
      <3>1. Len(s.line) = 0 /\ s.index = 0  BY <1>3 DEF Ready
      <3> QED  BY <1>1, <3>1 DEF SourceInv
    <2>3. Rest(s) = <<>>
      <3>1. s.index = 0  BY <1>3 DEF Ready
      <3> QED  BY <1>1, <1>3, <3>1, RestOf
    <2>4. TakenFrom(s, <<>>, g.c, g.s)  BY <1>2, <1>3, <2>1 DEF TakenFrom, Ready
    <2> HIDE DEF g
    <2> QED  BY <1>1, <2>1, <2>2, <2>3, <2>4, QuotedNone DEF Got, g
  <1>4. CASE s.line # <<>>
    <2> DEFINE t == Beyond(s)
    <2> DEFINE c == Ahead(s)
    <2>1. g.c = c /\ g.s = t  BY <1>4 DEF Found
    <2>2. s.index < Len(s.line)  BY <1>4 DEF Ready
    <2>3. /\ c \in Class /\ Rest(s) = <<c>> \o SubSeq(s.line, s.index + 2, Len(s.line))
          /\ SubSeq(s.line, s.index + 2, Len(s.line)) \in Seq(Class)
          /\ s.index + 1 \in 1..Len(s.line)
      BY <1>1, <2>2, RestIs
    <2>4. /\ t \in Source /\ t.input = s.input /\ t.line = s.line /\ t.index = s.index + 1
          /\ t.lookahead = None /\ t.taken = Append(s.taken, c)
      BY <1>1, <2>3, BeyondIs
    <2>5. c = s.line[s.index + 1]  BY DEF Ahead
    <2> HIDE DEF t, c, g
    <2>6. SourceInv(t)
      <3>1. t.index <= Len(t.line)  BY <1>2, <2>2, <2>4
      <3> QED  BY <1>1, <2>4, <3>1 DEF SourceInv
    <2>7. Whole(t) = Whole(s)
      <3> DEFINE z == SubSeq(s.line, s.index + 2, Len(s.line))
      <3> DEFINE d == Delivered(s.input)
      <3>1. Rest(t) = z
        <4>1. s.index + 1 + 1 = s.index + 2  BY <1>2
        <4> QED  BY <2>4, <4>1 DEF Rest
      <3>2. z \in Seq(Class) /\ d \in Seq(Class) /\ <<c>> \in Seq(Class)  BY <1>1, <2>3, RestOf
      <3> DEFINE u == s.taken
      <3>3. u \in Seq(Class)  BY <1>2
      <3>4. Whole(t) = Append(u, c) \o (z \o d)  BY <2>4, <3>1 DEF Whole
      <3>5. Whole(s) = u \o ((<<c>> \o z) \o d)  BY <2>3 DEF Whole
      <3> HIDE DEF u, z, d
      <3>6. Append(u, c) \o (z \o d) = u \o ((<<c>> \o z) \o d)  BY <2>3, <3>2, <3>3, Moved
      <3> QED  BY <3>4, <3>5, <3>6
    <2>8. TakenFrom(s, <<>>, c, t)
      <3>1. t.index \in 1..Len(t.line) /\ t.line[t.index] = c  BY <2>3, <2>4, <2>5
      <3> QED  BY <1>2, <2>3, <2>4, <3>1 DEF TakenFrom
    <2>9. \E q : Quoted(q) /\ (~remove => q = <<>>) /\ TakenFrom(s, q, g.c, g.s)
      BY <2>1, <2>8, QuotedNone
    <2>10. g.c = Ahead(s)  BY <2>1 DEF c
    <2>11. SourceInv(g.s) /\ g.s.lookahead = None /\ Whole(g.s) = Whole(s)
      BY <2>1, <2>4, <2>6, <2>7
    <2>12. Got(remove, s, g)  BY ONLY <2>9, <2>10, <2>11 DEF Got
    <2> QED  BY <2>12 DEF g
  <1> QED  BY <1>3, <1>4
LEMMA OneTurn ==
    ASSUME NEW s, Ready(s), Folds(TRUE, s), NEW u, u = Unquoted(s)
    PROVE  /\ Ready(u) /\ (u.line = <<>> \/ Len(u.input) < Len(s.input))
           /\ Whole(u) = Whole(s) /\ u.taken = s.taken \o <<"\\", "nl">>
  <1> DEFINE b == <<"\\", "nl">>
  <1> DEFINE t == Beyond(s)
  <1> DEFINE v == [t EXCEPT !.taken = Append(@, "nl")]
  <1> DEFINE d == Delivered(s.input)
  <1>1. s \in Source /\ Line(s.line) /\ s.lookahead = None  BY DEF Ready
  <1>2. s.taken \in Seq(Class) /\ s.line \in Seq(Class) /\ s.index \in Nat /\ Len(s.line) \in Nat
        /\ d \in Seq(Class)
    BY <1>1, SourceIs, RestOf
  <1>3. s.line # <<>> /\ Ahead(s) = "\\" /\ t.line[t.index + 1] = "nl"  BY DEF Folds
  <1>4. s.index < Len(s.line)  BY <1>3 DEF Ready
  <1>5. /\ Ahead(s) \in Class /\ Rest(s) = <<Ahead(s)>> \o SubSeq(s.line, s.index + 2, Len(s.line))
        /\ s.index + 1 < Len(s.line)
    <2>1. Ahead(s) # "nl"  BY <1>3
    <2> QED  BY <1>1, <1>4, <2>1, RestIs
  <1>6. /\ t \in Source /\ t.input = s.input /\ t.line = s.line /\ t.index = s.index + 1
        /\ t.lookahead = None /\ t.taken = Append(s.taken, Ahead(s))
    BY <1>1, <1>5, BeyondIs
  <1>7. Ahead(t) = "nl"  BY <1>3 DEF Ahead
  <1>0. u = ReadLine(v)  BY DEF Unquoted
  <1> HIDE DEF t
  <1>8. Rest(t) = <<"nl">>
    <2>1. Rest(t) = <<Ahead(t)>> \o SubSeq(t.line, t.index + 2, Len(t.line))
      BY <1>1, <1>5, <1>6, RestIs
    <2>2. t.index + 1 = Len(t.line)
      <3>1. t.line[t.index + 1] = "nl" /\ t.index + 1 \in 1..Len(t.line)
        BY <1>2, <1>3, <1>5, <1>6
      <3>2. \A i \in 1..Len(t.line) - 1 : t.line[i] # "nl"  BY <1>1, <1>3, <1>6 DEF Line
      <3>3. Len(t.line) \in Nat  BY <1>2, <1>6
      <3> QED  BY <3>1, <3>2, <3>3
    <2>3. SubSeq(t.line, t.index + 2, Len(t.line)) = <<>>
      <3>1. Len(t.line) < t.index + 2 /\ t.index + 2 \in Int /\ Len(t.line) \in Int
        BY <1>2, <1>6, <2>2
      <3> QED  BY <3>1, SubSeqEmpty
    <2> DEFINE z == Ahead(t)
    <2>4. z \in Class  BY <1>7 DEF Class
    <2> HIDE DEF z
    <2>5. <<z>> \o <<>> = <<z>>  BY <2>4
    <2>6. Rest(t) = <<z>>  BY <2>1, <2>3, <2>5 DEF z
    <2> QED  BY <1>7, <2>6 DEF z
  <1>9. Rest(s) = b
    <2>1. t.index + 1 = s.index + 2  BY <1>2, <1>6
    <2>2. SubSeq(s.line, s.index + 2, Len(s.line)) = <<"nl">>  BY <1>6, <1>8, <2>1 DEF Rest
    <2> DEFINE z == "nl"
    <2> DEFINE y == "\\"
    <2>3. z \in Class /\ y \in Class  BY DEF Class
    <2>4. Rest(s) = <<y>> \o <<z>> /\ b = <<y, z>>  BY <1>3, <1>5, <2>2
    <2> HIDE DEF y, z, b
    <2>5. <<y>> \o <<z>> = <<y, z>>  BY <2>3, PairIs
    <2> QED  BY <2>4, <2>5
  <1>10. v \in Source /\ v.input = s.input /\ v.lookahead = None /\ v.taken = Append(t.taken, "nl")
    BY <1>6, NewlineTaken
  <1> HIDE DEF v
  <1>11. NextLine(v, u)  BY <1>10, <1>0, ReadLineIs
  <1>12. Ready(u) /\ Whole(u) = v.taken \o d  BY <1>10, <1>11, NextLineIs
  <1>13. u.line = <<>> \/ Len(u.input) < Len(s.input)  BY <1>10, <1>11 DEF NextLine
  <1>14. v.taken = s.taken \o b
    <2> DEFINE w == s.taken
    <2>1. w \in Seq(Class) /\ v.taken = Append(Append(w, "\\"), "nl")  BY <1>2, <1>3, <1>6, <1>10
    <2> HIDE DEF w
    <2> QED  BY <2>1 DEF w
  <1>15. u.taken = s.taken \o b  BY <1>11, <1>14 DEF NextLine
  <1>16. Whole(s) = s.taken \o (b \o d)  BY <1>9 DEF Whole
  <1>17. s.taken \o (b \o d) = (s.taken \o b) \o d
    <2>1. b \in Seq(Class)
      <3>1. "\\" \in Class /\ "nl" \in Class  BY DEF Class
      <3> QED  BY <3>1
    <2>2. s.taken \in Seq(Class) /\ d \in Seq(Class)  BY <1>2
    <2> DEFINE w == s.taken
    <2> HIDE DEF b, d, w
    <2>3. w \in Seq(Class)  BY <2>2 DEF w
    <2>4. (w \o b) \o d = w \o (b \o d)  BY ONLY <2>1, <2>2, <2>3, ConcatAssociative
    <2> QED  BY <2>4 DEF w
  <1>18. Whole(u) = Whole(s)  BY <1>12, <1>14, <1>16, <1>17
  <1> QED  BY <1>12, <1>13, <1>15, <1>18

\* What is got behind a quoted newline is got in front of it.
LEMMA GotBehind ==
    ASSUME NEW s, Ready(s), Folds(TRUE, s), NEW g, Got(TRUE, Unquoted(s), g)
    PROVE  Got(TRUE, s, g)
  <1> DEFINE b == <<"\\", "nl">>
  <1> DEFINE u == Unquoted(s)
  <1>1. Whole(u) = Whole(s) /\ u.taken = s.taken \o b /\ s \in Source  BY OneTurn DEF Ready
  <1>2. SourceInv(g.s) /\ g.s.lookahead = None /\ Whole(g.s) = Whole(u)  BY DEF Got
  <1>3. PICK q : Quoted(q) /\ TakenFrom(u, q, g.c, g.s)  BY DEF Got
  <1>4. u.taken \o q = s.taken \o (b \o q)
    <2>1. s.taken \in Seq(Class) /\ q \in Seq(Class)  BY <1>1, <1>3, SourceIs DEF Quoted
    <2>2. b \in Seq(Class)
      <3>1. "\\" \in Class /\ "nl" \in Class  BY DEF Class
      <3> QED  BY <3>1
    <2> HIDE DEF b, u
    <2> DEFINE w == s.taken
    <2>3. w \in Seq(Class)  BY <2>1
    <2> HIDE DEF w
    <2>4. (w \o b) \o q = w \o (b \o q)  BY ONLY <2>1, <2>2, <2>3, ConcatAssociative
    <2> QED  BY <1>1, <2>4 DEF w
  <1>5. Quoted(b \o q)  BY <1>3, QuotedMore
  <1> HIDE DEF b, u
  <1>6. TakenFrom(s, b \o q, g.c, g.s)  BY <1>3, <1>4 DEF TakenFrom
  <1> QED  BY <1>1, <1>2, <1>5, <1>6 DEF Got

LEMMA FromLineGets ==
    ASSUME NEW remove \in BOOLEAN, NEW s, Ready(s)
    PROVE  Got(remove, s, FromLine(remove)[s])
  <1> DEFINE f == FromLine(remove)
  <1>1. \A x \in Source : f[x] = IF Folds(remove, x) THEN f[Unquoted(x)] ELSE Found(x)
    BY FromLineIs
  <1> HIDE DEF f
  <1>2. ASSUME NEW x, Ready(x), ~Folds(remove, x) PROVE Got(remove, x, f[x])
    <2>1. x \in Source  BY <1>2 DEF Ready
    <2>2. f[x] = Found(x)  BY <1>1, <1>2, <2>1
    <2> QED  BY <1>2, <2>2, OneCharacter
  <1>3. ASSUME NEW x, Ready(x), Folds(remove, x), Got(remove, Unquoted(x), f[Unquoted(x)])
        PROVE  Got(remove, x, f[x])
    <2>1. x \in Source  BY <1>3 DEF Ready
    <2>2. f[x] = f[Unquoted(x)]  BY <1>1, <1>3, <2>1
    <2>3. remove = TRUE  BY <1>3 DEF Folds
    <2>4. Folds(TRUE, x) /\ Got(TRUE, Unquoted(x), f[Unquoted(x)])  BY <1>3, <2>3
    <2>5. Got(TRUE, x, f[Unquoted(x)])  BY ONLY <1>3, <2>4, GotBehind
    <2> QED  BY <2>2, <2>3, <2>5
  <1> DEFINE n == Len(s.input)
  <1> DEFINE Done(k) == \A x : Ready(x) /\ Len(x.input) <= k => Got(remove, x, f[x])
  <1> DEFINE S == {k \in 0..n : Done(k)}
  <1>4. n \in Nat  BY SourceIs DEF Ready
  <1>5. ASSUME NEW x, Ready(x), Folds(remove, x),
               Unquoted(x).line # <<>> => Got(remove, Unquoted(x), f[Unquoted(x)])
        PROVE  Got(remove, x, f[x])
    <2> DEFINE u == Unquoted(x)
    <2>1. Folds(TRUE, x)  BY <1>5 DEF Folds
    <2>2. Ready(u)  BY <1>5, <2>1, OneTurn
    <2>3. u.line = <<>> => ~Folds(remove, u)  BY DEF Folds
    <2> HIDE DEF u
    <2>4. Got(remove, u, f[u])  BY <1>2, <1>5, <2>2, <2>3 DEF u
    <2> QED  BY <1>3, <1>5, <2>4 DEF u
  <1> HIDE DEF n
  <1>6. 0 \in S
    <2> SUFFICES ASSUME NEW x, Ready(x), Len(x.input) <= 0 PROVE Got(remove, x, f[x])  BY <1>4
    <2>1. CASE ~Folds(remove, x)  BY <1>2, <2>1
    <2>2. CASE Folds(remove, x)
      <3> DEFINE u == Unquoted(x)
      <3>1. Folds(TRUE, x)  BY <2>2 DEF Folds
      <3>2. Ready(u) /\ (u.line = <<>> \/ Len(u.input) < Len(x.input))  BY <3>1, OneTurn
      <3>3. Len(x.input) \in Nat /\ Len(u.input) \in Nat  BY <3>2, SourceIs DEF Ready
      <3>4. u.line = <<>>  BY <3>2, <3>3
      <3> QED  BY <1>5, <2>2, <3>4
    <2> QED  BY <2>1, <2>2
  <1>7. ASSUME NEW k \in 1..n, k - 1 \in S PROVE k \in S
    <2>1. Done(k - 1) /\ k \in 0..n  BY <1>4, <1>7
    <2> SUFFICES ASSUME NEW x, Ready(x), Len(x.input) <= k PROVE Got(remove, x, f[x])  BY <2>1
    <2>2. CASE ~Folds(remove, x)  BY <1>2, <2>2
    <2>3. CASE Folds(remove, x)
      <3> DEFINE u == Unquoted(x)
      <3>1. Folds(TRUE, x)  BY <2>3 DEF Folds
      <3>2. Ready(u) /\ (u.line = <<>> \/ Len(u.input) < Len(x.input))  BY <3>1, OneTurn
      <3>3. Len(x.input) \in Nat /\ Len(u.input) \in Nat  BY <3>2, SourceIs DEF Ready
      <3>4. u.line # <<>> => Len(u.input) <= k - 1  BY <3>2, <3>3, <1>4
      <3> HIDE DEF u
      <3>5. u.line # <<>> => Got(remove, u, f[u])  BY <2>1, <3>2, <3>4
      <3> QED  BY <1>5, <2>3, <3>5 DEF u
    <2> QED  BY <2>2, <2>3
  <1>8. S \in SUBSET (0..n)  OBVIOUS
  <1> HIDE DEF S
  <1>9. S = 0..n  BY <1>4, <1>6, <1>7, <1>8, UpTo
  <1>10. n \in S  BY <1>4, <1>9
  <1>11. Done(n) /\ Len(s.input) <= n  BY <1>4, <1>10 DEF S, n
  <1> QED  BY <1>11 DEF f
LEMMA GetcGets ==
    ASSUME NEW remove \in BOOLEAN, NEW s, SourceInv(s)
    PROVE  Got(remove, s, shell_getc(s, remove))
  <1> DEFINE g == shell_getc(s, remove)
  <1>1. s \in Source /\ Line(s.line) /\ s.index <= Len(s.line)  BY DEF SourceInv
  <1>2. /\ s.taken \in Seq(Class) /\ s.line \in Seq(Class) /\ s.index \in Nat
        /\ Len(s.line) \in Nat /\ Len(<<>>) = 0 /\ s.taken \o <<>> = s.taken
    BY <1>1, SourceIs
  <1>3. CASE s.lookahead # None
    <2> DEFINE t == [s EXCEPT !.lookahead = None, !.taken = s.taken]
    <2>1. /\ s.lookahead = EOF /\ s.line = <<>> /\ s.input = <<>> /\ s.index = 0
      BY <1>3 DEF SourceInv
    <2>2. g.c = EOF /\ g.s = t  BY <1>3, <2>1 DEF shell_getc
    <2>3. /\ t \in Source /\ t.line = s.line /\ t.index = s.index /\ t.lookahead = None
          /\ t.taken = s.taken /\ t.input = s.input
      BY <1>1 DEF Source
    <2> HIDE DEF t, g
    <2>4. SourceInv(t)  BY <1>1, <2>3 DEF SourceInv
    <2>5. Whole(t) = Whole(s)  BY <2>3 DEF Whole, Rest
    <2>6. Rest(s) = <<>>  BY <1>1, <2>1, RestOf
    <2>7. TakenFrom(s, <<>>, EOF, t)  BY <1>2, <2>1, <2>3 DEF TakenFrom
    <2>8. Got(remove, s, g)  BY <2>2, <2>3, <2>4, <2>5, <2>6, <2>7, QuotedNone DEF Got
    <2> QED  BY <2>8 DEF g
  <1>4. CASE s.lookahead = None /\ s.index = Len(s.line)
    <2> DEFINE r == ReadLine(s)
    <2>1. g = FromLine(remove)[r]  BY <1>4 DEF shell_getc
    <2>2. NextLine(s, r)  BY <1>1, ReadLineIs
    <2> HIDE DEF r, g
    <2>3. Ready(r) /\ Whole(r) = s.taken \o Delivered(s.input)  BY <1>1, <1>4, <2>2, NextLineIs
    <2>4. Got(remove, r, g)  BY <2>1, <2>3, FromLineGets
    <2>5. Rest(s) = <<>> /\ Delivered(s.input) \in Seq(Class)  BY <1>1, <1>2, <1>4, RestOf
    <2> DEFINE d == Delivered(s.input)
    <2>6. d \in Seq(Class)  BY <2>5
    <2> HIDE DEF d
    <2>7. <<>> \o d = d  BY <2>6
    <2>8. Whole(r) = Whole(s)  BY <2>3, <2>5, <2>7 DEF Whole, d
    <2>9. r.taken = s.taken  BY <2>2 DEF NextLine
    <2>10. \A q : TakenFrom(r, q, g.c, g.s) => TakenFrom(s, q, g.c, g.s)
      BY <2>9 DEF TakenFrom
    <2>11. Got(remove, s, g)  BY <2>4, <2>5, <2>8, <2>10 DEF Got
    <2> QED  BY <2>11 DEF g
  <1>5. CASE s.lookahead = None /\ s.index # Len(s.line)
    <2>1. g = FromLine(remove)[s]  BY <1>5 DEF shell_getc
    <2>2. Ready(s)
      <3>1. s.index < Len(s.line)  BY <1>1, <1>2, <1>5
      <3>2. s.line # <<>>  BY <1>2, <3>1
      <3> QED  BY <1>1, <1>5, <3>1, <3>2 DEF Ready
    <2> QED  BY <2>1, <2>2, FromLineGets
  <1> QED  BY <1>3, <1>4, <1>5

\* What was got is put back: nothing but quoted newlines was taken, and the
\* character is ahead again.
Back(remove, s, c, u) ==
    /\ SourceInv(u) /\ Whole(u) = Whole(s)
    /\ \E q : Quoted(q) /\ (~remove => q = <<>>) /\ u.taken = s.taken \o q
    /\ c # EOF => u.lookahead = None /\ Rest(u) # <<>> /\ Ahead(u) = c

LEMMA UngetcPuts ==
    ASSUME NEW remove \in BOOLEAN, NEW s, SourceInv(s), NEW g, Got(remove, s, g)
    PROVE  Back(remove, s, g.c, shell_ungetc(g.s, g.c))
  <1> DEFINE c == g.c
  <1> DEFINE t == g.s
  <1> DEFINE u == shell_ungetc(t, c)
  <1>1. SourceInv(t) /\ t.lookahead = None /\ Whole(t) = Whole(s)  BY DEF Got
  <1>2. t \in Source /\ Line(t.line)  BY <1>1 DEF SourceInv
  <1>3. PICK q : Quoted(q) /\ (~remove => q = <<>>) /\ TakenFrom(s, q, c, t)  BY DEF Got
  <1>4. s.taken \o q \in Seq(Class)
    <2>1. s.taken \in Seq(Class) /\ q \in Seq(Class)  BY <1>3, SourceIs DEF Quoted, SourceInv
    <2> QED  BY <2>1
  <1>5. CASE c = EOF
    <2> HIDE DEF t, c
    <2>1. t.taken = s.taken \o q /\ t.line = <<>> /\ t.input = <<>> /\ t.index = 0
      <3>1. EOF \notin Class  BY DEF EOF, Class
      <3> QED  BY <1>3, <1>5, <3>1 DEF TakenFrom
    <2>2. u = [t EXCEPT !.lookahead = EOF, !.taken = t.taken]  BY <1>5, <2>1 DEF shell_ungetc
    <2>3. /\ u \in Source /\ u.line = t.line /\ u.index = t.index /\ u.lookahead = EOF
          /\ u.taken = t.taken /\ u.input = t.input
      BY <1>2, <2>2 DEF Source
    <2> HIDE DEF u
    <2>4. SourceInv(u)  BY <1>1, <2>1, <2>3 DEF SourceInv
    <2>5. Whole(u) = Whole(s)  BY <1>1, <2>3 DEF Whole, Rest
    <2>6. Back(remove, s, c, u)  BY <1>3, <1>5, <2>1, <2>3, <2>4, <2>5 DEF Back
    <2> QED  BY <2>6 DEF u, t, c
  <1>6. CASE c # EOF
    <2> HIDE DEF t, c
    <2>1. c \in Class /\ t.taken = Append(s.taken \o q, c) /\ t.index \in 1..Len(t.line)
          /\ t.line[t.index] = c
      BY <1>3, <1>6 DEF TakenFrom
    <2>2. t.line \in Seq(Class) /\ Len(t.line) \in Nat /\ t.input \in Seq(Class)  BY <1>2, SourceIs
    <2> DEFINE i == t.index - 1
    <2> DEFINE w == s.taken \o q
    <2>3. i \in Nat /\ i < Len(t.line) /\ i + 1 = t.index /\ i + 2 = t.index + 1 /\ t.index # 0
      BY <2>1, <2>2
    <2>4. [t.line EXCEPT ![t.index] = c] = t.line  BY <2>1, <2>2
    <2>5. Front(t.taken) = w  BY <1>4, <2>1, AppendIs
    <2>6. u = [t EXCEPT !.line = t.line, !.index = i, !.taken = w]
      BY <2>3, <2>4, <2>5 DEF shell_ungetc
    <2> HIDE DEF u, i, w
    <2>7. /\ u \in Source /\ u.line = t.line /\ u.index = i /\ u.lookahead = None
          /\ u.taken = w /\ u.input = t.input
      BY <1>1, <1>2, <1>4, <2>3, <2>6 DEF Source, w
    <2>8. SourceInv(u)  BY <1>2, <2>2, <2>3, <2>7 DEF SourceInv
    <2>9. Ahead(u) = c  BY <2>1, <2>3, <2>7 DEF Ahead
    <2>10. Rest(u) = <<c>> \o Rest(t) /\ Rest(t) \in Seq(Class) /\ Delivered(t.input) \in Seq(Class)
      <3>1. Rest(u) = <<Ahead(u)>> \o SubSeq(u.line, u.index + 2, Len(u.line))
        BY <1>2, <2>3, <2>7, RestIs
      <3>2. SubSeq(u.line, u.index + 2, Len(u.line)) = Rest(t)  BY <2>3, <2>7 DEF Rest
      <3> QED  BY <1>2, <2>9, <3>1, <3>2, RestOf
    <2>11. Whole(u) = Whole(s)
      <3>1. Append(w, c) \o (Rest(t) \o Delivered(t.input))
               = w \o ((<<c>> \o Rest(t)) \o Delivered(t.input))
        BY <1>4, <2>1, <2>10, Moved DEF w
      <3> QED  BY <1>1, <2>1, <2>7, <2>10, <3>1 DEF Whole, w
    <2>12. Rest(u) # <<>>
      <3> DEFINE z == Rest(t)
      <3>1. z \in Seq(Class) /\ Rest(u) = <<c>> \o z  BY <2>10
      <3> HIDE DEF z
      <3> QED  BY <2>1, <3>1
    <2>13. Back(remove, s, c, u)  BY <1>3, <2>7, <2>8, <2>9, <2>11, <2>12 DEF Back, w
    <2> QED  BY <2>13 DEF u, t, c
  <1> QED  BY <1>5, <1>6

-----------------------------------------------------------------------------
(***************************************************************************)
(* What was taken since the scanner began the token.                       *)
(***************************************************************************)
LEMMA JoinSplit ==
    ASSUME NEW p \in Seq(Class), NEW q \in Seq(Class)
    PROVE  /\ SubSeq(p \o q, 1, Len(p)) = p
           /\ SubSeq(p \o q, Len(p) + 1, Len(p \o q)) = q
           /\ p \o q \in Seq(Class) /\ Len(p) \in 0..Len(p \o q)
  <1> DEFINE w == p \o q
  <1> DEFINE m == Len(p)
  <1> DEFINE n == Len(q)
  <1>1. m \in Nat /\ n \in Nat  OBVIOUS
  <1>2. w \in Seq(Class) /\ Len(w) = m + n  BY ONLY ConcatProperties
  <1>3. \A i \in 1..m + n : w[i] = IF i <= m THEN p[i] ELSE q[i - m]
    BY ONLY ConcatProperties
  <1>4. (\A i \in 1..m : p[i] \in Class) /\ (\A i \in 1..n : q[i] \in Class)  OBVIOUS
  <1>5. \A i \in 1..m : w[i] = p[i] /\ w[i] \in Class
    <2> HIDE DEF w, m, n
    <2>1. \A i \in 1..m : i \in 1..m + n /\ i <= m  BY <1>1
    <2> QED  BY <1>3, <1>4, <2>1
  <1>6. \A i \in 1..n : w[m + i] = q[i] /\ w[m + i] \in Class
    <2> HIDE DEF w, m, n
    <2> TAKE i \in 1..n
    <2> DEFINE k == m + i
    <2>1. k \in 1..m + n /\ ~(k <= m) /\ k - m = i  BY <1>1
    <2> HIDE DEF k
    <2>2. w[k] = q[k - m]  BY <1>3, <2>1
    <2> QED  BY <1>4, <2>1, <2>2 DEF k
  <1> HIDE DEF m, n, w
  <1>7. SubSeq(w, 1, m) = p
    <2>1. /\ 1 \in Int /\ m \in Int /\ m - 1 + 1 = m /\ (IF 1 <= m THEN m - 1 + 1 ELSE 0) = m
          /\ \A i \in 1..m : 1 + i - 1 = i /\ w[i] \in Class
      BY <1>1, <1>5
    <2>2. /\ SubSeq(w, 1, m) \in Seq(Class) /\ Len(SubSeq(w, 1, m)) = m
          /\ \A i \in 1..m : SubSeq(w, 1, m)[i] = w[i]
      BY <2>1, SubSeqProperties
    <2>3. \A i \in 1..m : SubSeq(w, 1, m)[i] = p[i]  BY <1>5, <2>2
    <2>4. Len(p) = m  BY DEF m
    <2> QED  BY <2>2, <2>3, <2>4, SeqEqual
  <1>8. SubSeq(w, m + 1, m + n) = q
    <2> DEFINE a == m + 1
    <2> DEFINE b == m + n
    <2>1. /\ a \in Int /\ b \in Int /\ b - a + 1 = n /\ (IF a <= b THEN b - a + 1 ELSE 0) = n
          /\ \A i \in 1..n : a + i - 1 = m + i
      BY <1>1
    <2>2. \A i \in a..b : w[i] \in Class
      <3>1. \A i \in a..b : i - m \in 1..n /\ m + (i - m) = i  BY <1>1
      <3> QED  BY <1>6, <3>1
    <2> HIDE DEF a, b
    <2>3. SubSeq(w, a, b) \in Seq(Class)  BY <2>1, <2>2, SubSeqProperties
    <2>4. Len(SubSeq(w, a, b)) = IF a <= b THEN b - a + 1 ELSE 0  BY <2>1, <2>2, SubSeqProperties
    <2>5. \A i \in 1..b - a + 1 : SubSeq(w, a, b)[i] = w[a + i - 1]
      BY <2>1, <2>2, SubSeqProperties
    <2> DEFINE z == SubSeq(w, a, b)
    <2>6. z \in Seq(Class) /\ Len(z) = n /\ \A i \in 1..n : z[i] = w[a + i - 1]
      BY <2>1, <2>3, <2>4, <2>5
    <2> HIDE DEF z
    <2>7. \A i \in 1..n : z[i] = q[i]  BY <1>6, <2>1, <2>6
    <2>8. Len(q) = n  BY DEF n
    <2>9. z = q  BY <2>6, <2>7, <2>8, SeqEqual
    <2> QED  BY <2>9 DEF z, a, b
  <1>9. m \in 0..m + n  BY <1>1
  <1> QED  BY <1>2, <1>7, <1>8, <1>9 DEF w, m

Blanks(u) == u \in Seq(Class) /\ ToSet(Unfolded(u)) \subseteq {" "}

\* Blanks, and then characters that are cs but for quoted newlines.
Written(cs, w) ==
    \E u, v : w = u \o v /\ Blanks(u) /\ v \in Seq(Class) /\ Unfolded(v) = cs

\* Blanks, and then a comment as far as it goes.
Remark(w) ==
    \E u, v : /\ w = u \o v /\ Blanks(u) /\ v \in Seq(Class)
              /\ v # <<>> /\ v[1] = "#" /\ Without("nl", v)

\* Blanks, and then what token t is written as.
Named(t, w) ==
    \E u, v : w = u \o v /\ Blanks(u) /\ v \in Seq(Class) /\ Spells(t, v)

LEMMA BlanksNone == Blanks(<<>>)
  <1>0. <<>> \in Seq(Class)  OBVIOUS
  <1>1. <<>> \in Seq(Class) /\ Unfolded(<<>>) = <<>>  BY <1>0, UnfoldedIs
  <1>2. ToSet(<<>>) = {}  BY DEF ToSet
  <1> QED  BY <1>1, <1>2 DEF Blanks

LEMMA BlanksMore ==
    ASSUME NEW u, Blanks(u), NEW q, Quoted(q)
    PROVE  Blanks(u \o q) /\ Blanks(Append(u \o q, " "))
  <1>1. u \in Seq(Class) /\ q \in Seq(Class) /\ u \o q \in Seq(Class) /\ " " \in Class
    <2>1. u \in Seq(Class) /\ q \in Seq(Class)  BY DEF Blanks, Quoted
    <2>2. " " \in Class  BY DEF Class
    <2>3. u \o q \in Seq(Class)  BY ONLY <2>1, ConcatProperties
    <2> QED  BY <2>1, <2>2, <2>3
  <1>2. Unfolded(u \o q) = Unfolded(u)  BY <1>1 DEF Quoted
  <1>3. Blanks(u \o q)  BY <1>1, <1>2 DEF Blanks
  <1> DEFINE w == u \o q
  <1> DEFINE f == Unfolded(w)
  <1> DEFINE z == " "
  <1>4. w \in Seq(Class) /\ ToSet(f) \subseteq {z}  BY <1>1, <1>3 DEF Blanks
  <1>5. Unfolded(Append(w, z)) = Append(f, z) /\ f \in Seq(Class) /\ z \in Class
    <2>1. " " # "nl"  OBVIOUS
    <2> HIDE DEF w
    <2> QED  BY <1>1, <1>4, <2>1, UnfoldedIs
  <1> HIDE DEF f, w, z
  <1>6. ToSet(Append(f, z)) \subseteq {z}
    <2>1. /\ Len(Append(f, z)) = Len(f) + 1 /\ Len(f) \in Nat /\ Append(f, z)[Len(f) + 1] = z
          /\ \A i \in 1..Len(f) : Append(f, z)[i] = f[i]
      BY <1>5
    <2>2. \A i \in 1..Len(f) + 1 : i \in 1..Len(f) \/ i = Len(f) + 1  BY <2>1
    <2>3. \A i \in 1..Len(f) : f[i] = z  BY <1>4 DEF ToSet
    <2>4. \A i \in 1..Len(f) + 1 : Append(f, z)[i] = z  BY <2>1, <2>2, <2>3
    <2> DEFINE a == Append(f, z)
    <2>5. Len(a) = Len(f) + 1 /\ \A i \in 1..Len(f) + 1 : a[i] = z  BY <2>1, <2>4
    <2> HIDE DEF a
    <2>6. ToSet(a) \subseteq {z}  BY <2>5 DEF ToSet
    <2> QED  BY <2>6 DEF a
  <1>7. Append(w, z) \in Seq(Class)  BY <1>4, <1>5
  <1>8. Blanks(Append(w, z))  BY <1>5, <1>6, <1>7 DEF Blanks, z
  <1> QED  BY <1>3, <1>8 DEF w, z
LEMMA WrittenMore ==
    ASSUME NEW w, NEW cs, Written(cs, w), NEW q, Quoted(q)
    PROVE  /\ Written(cs, w \o q)
           /\ \A c \in Class : c # "nl" => Written(cs \o <<c>>, Append(w \o q, c))
  <1>1. PICK u, v : w = u \o v /\ Blanks(u) /\ v \in Seq(Class) /\ Unfolded(v) = cs
    BY DEF Written
  <1>2. u \in Seq(Class) /\ q \in Seq(Class)  BY <1>1 DEF Blanks, Quoted
  <1> DEFINE x == v \o q
  <1>3. x \in Seq(Class) /\ w \o q = u \o x
    <2>1. x \in Seq(Class)  BY ONLY <1>1, <1>2, ConcatProperties
    <2>2. (u \o v) \o q = u \o (v \o q)  BY <1>1, <1>2, ConcatAssociative
    <2> QED  BY <1>1, <2>1, <2>2
  <1>4. Unfolded(x) = cs /\ cs \in Seq(Class)  BY <1>1, UnfoldedIs DEF Quoted
  <1> HIDE DEF x
  <1>5. Written(cs, w \o q)  BY <1>1, <1>3, <1>4 DEF Written
  <1>6. ASSUME NEW c \in Class, c # "nl" PROVE Written(cs \o <<c>>, Append(w \o q, c))
    <2>1. Append(w \o q, c) = u \o Append(x, c)
      <3>1. u \o Append(x, c) = Append(u \o x, c)  BY <1>2, <1>3, AppendJoin
      <3> QED  BY <1>3, <3>1
    <2>2. Append(x, c) \in Seq(Class)  BY <1>3, AppendIs
    <2>3. Unfolded(Append(x, c)) = cs \o <<c>>
      <3>1. Unfolded(Append(x, c)) = Append(cs, c)  BY <1>3, <1>4, <1>6, UnfoldedIs
      <3> QED  BY <1>4, <3>1, AppendIs
    <2> QED  BY <1>1, <2>1, <2>2, <2>3 DEF Written
  <1> QED  BY <1>5, <1>6

LEMMA One ==
    ASSUME NEW c \in Class
    PROVE  <<c>> \in Seq(Class) /\ Unfolded(<<c>>) = <<c>>
  <1>1. <<>> \in Seq(Class) /\ Append(<<>>, c) = <<c>>  OBVIOUS
  <1>2. Unfolded(<<>>) = <<>>  BY <1>1, UnfoldedIs
  <1>3. Unfolded(Append(<<>>, c)) = Append(Unfolded(<<>>), c)  BY <1>1, <1>2, UnfoldedIs
  <1> QED  BY <1>1, <1>2, <1>3

LEMMA WrittenOne ==
    ASSUME NEW w, Blanks(w), NEW q, Quoted(q), NEW c \in Class
    PROVE  Written(<<c>>, Append(w \o q, c))
  <1> DEFINE u == w \o q
  <1>1. Blanks(u) /\ u \in Seq(Class)  BY BlanksMore DEF Blanks
  <1> HIDE DEF u
  <1>2. Append(u, c) = u \o <<c>>  BY <1>1, AppendIs
  <1>3. Written(<<c>>, Append(u, c))  BY <1>1, <1>2, One DEF Written
  <1> QED  BY <1>3 DEF u

LEMMA CharacterNamed ==
    ASSUME NEW c \in Class, c # "nl", NEW w, Written(<<c>>, w)
    PROVE  Named(c, w)
  <1>1. c # "yacc_EOF" /\ c \notin Words /\ c \notin DOMAIN Operator
    BY DEF Class, Words, Operator
  <1>2. \A v : Unfolded(v) = <<c>> => Spells(c, v)  BY <1>1 DEF Spells
  <1> QED  BY <1>2 DEF Written, Named

LEMMA OperatorNamed ==
    ASSUME NEW t \in DOMAIN Operator, NEW w, Written(Operator[t], w)
    PROVE  Named(t, w)
  <1>1. t # "nl" /\ t # "yacc_EOF" /\ t \notin Words  BY DEF Words, Operator
  <1>2. \A v : Unfolded(v) = Operator[t] => Spells(t, v)  BY <1>1 DEF Spells
  <1> QED  BY <1>2 DEF Written, Named

LEMMA SpellsIs ==
    ASSUME NEW s
    PROVE  /\ Spells("nl", s) = (s # <<>> /\ Last(s) = "nl" /\ "nl" \notin ToSet(Front(s))
                                    /\ (Len(s) > 1 => s[1] = "#"))
           /\ Spells("yacc_EOF", s) = (s = <<>>)
           /\ \A t \in Words : Spells(t, s) = (s # <<>>)
  <1>1. /\ "nl" \notin Words /\ "nl" \notin DOMAIN Operator /\ "nl" # "yacc_EOF"
        /\ "yacc_EOF" \notin Words /\ "yacc_EOF" \notin DOMAIN Operator
        /\ \A t \in Words : t \notin DOMAIN Operator
    BY DEF Words, Operator
  <1> QED  BY <1>1 DEF Spells

LEMMA NewlineNamed ==
    ASSUME NEW w, Blanks(w), NEW q, Quoted(q)
    PROVE  Named("nl", Append(w \o q, "nl"))
  <1> DEFINE u == w \o q
  <1> DEFINE z == "nl"
  <1>1. Blanks(u) /\ u \in Seq(Class) /\ z \in Class
    <2>1. z \in Class  BY DEF Class
    <2> QED  BY <2>1, BlanksMore DEF Blanks
  <1> HIDE DEF u, z
  <1> DEFINE v == Append(<<>>, z)
  <1>2. v \in Seq(Class) /\ v # <<>> /\ Last(v) = z /\ Front(v) = <<>> /\ Len(v) = 1
    <2>1. <<>> \in Seq(Class) /\ Len(<<>>) + 1 = 1  OBVIOUS
    <2> QED  BY <1>1, <2>1, AppendIs
  <1>3. Append(u, z) = u \o v
    <2>1. v = <<z>>  OBVIOUS
    <2> QED  BY <1>1, <2>1, AppendIs
  <1> HIDE DEF v
  <1>4. Spells("nl", v)
    <2>1. ToSet(<<>>) = {}  BY DEF ToSet
    <2>2. ~(Len(v) > 1) /\ "nl" \notin ToSet(Front(v))  BY <1>2, <2>1
    <2> QED  BY <1>2, <2>2, SpellsIs DEF z
  <1>5. Named("nl", Append(u, z))  BY <1>1, <1>2, <1>3, <1>4 DEF Named
  <1> QED  BY <1>5 DEF u, z

LEMMA EndNamed ==
    ASSUME NEW w, Blanks(w), NEW q, Quoted(q)
    PROVE  Named("yacc_EOF", w \o q)
  <1> DEFINE u == w \o q
  <1>1. Blanks(u) /\ u \in Seq(Class)  BY BlanksMore DEF Blanks
  <1> HIDE DEF u
  <1>2. <<>> \in Seq(Class) /\ u \o <<>> = u  BY <1>1
  <1>3. Spells("yacc_EOF", <<>>)  BY SpellsIs
  <1>4. Named("yacc_EOF", u)  BY <1>1, <1>2, <1>3 DEF Named
  <1> QED  BY <1>4 DEF u

LEMMA WordNamed ==
    ASSUME NEW w \in Seq(Class), w # <<>>, NEW t \in Words
    PROVE  Named(t, w)
  <1>1. Spells(t, w)  BY SpellsIs
  <1>2. <<>> \o w = w  OBVIOUS
  <1> QED  BY <1>1, <1>2, BlanksNone DEF Named

LEMMA RemarkBegins ==
    ASSUME NEW w, Blanks(w), NEW q, Quoted(q)
    PROVE  Remark(Append(w \o q, "#"))
  <1> DEFINE u == w \o q
  <1> DEFINE z == "#"
  <1>1. Blanks(u) /\ u \in Seq(Class) /\ z \in Class /\ z # "nl"
    <2>1. z \in Class  BY DEF Class
    <2> QED  BY <2>1, BlanksMore DEF Blanks
  <1> HIDE DEF u, z
  <1>2. <<z>> \in Seq(Class) /\ <<z>> # <<>> /\ <<z>>[1] = z /\ Len(<<z>>) = 1  BY <1>1
  <1>3. Without("nl", <<z>>)  BY <1>1, <1>2 DEF Without
  <1>4. Append(u, z) = u \o <<z>>  BY <1>1, AppendIs
  <1>5. Remark(Append(u, z))  BY <1>1, <1>2, <1>3, <1>4 DEF Remark, z
  <1> QED  BY <1>5 DEF u, z

LEMMA RemarkMore ==
    ASSUME NEW w, Remark(w), NEW c \in Class
    PROVE  IF c = "nl" THEN Named("nl", Append(w, c)) ELSE Remark(Append(w, c))
  <1>1. PICK u, v : /\ w = u \o v /\ Blanks(u) /\ v \in Seq(Class)
                    /\ v # <<>> /\ v[1] = "#" /\ Without("nl", v)
    BY DEF Remark
  <1>2. u \in Seq(Class)  BY <1>1 DEF Blanks
  <1> DEFINE a == Append(v, c)
  <1>3. Append(w, c) = u \o a  BY <1>1, <1>2, AppendJoin
  <1>4. /\ a \in Seq(Class) /\ a # <<>> /\ Last(a) = c /\ Front(a) = v
    BY <1>1, AppendIs
  <1>5. a[1] = "#" /\ Len(a) = Len(v) + 1 /\ a[Len(v) + 1] = c /\ Len(v) \in Nat
        /\ \A i \in 1..Len(v) : a[i] = v[i]
    <2>1. /\ Len(a) = Len(v) + 1 /\ a[Len(v) + 1] = c /\ Len(v) \in Nat
          /\ \A i \in 1..Len(v) : a[i] = v[i]
      BY <1>1
    <2>2. 1 \in 1..Len(v)  BY <1>1
    <2> QED  BY <1>1, <2>1, <2>2
  <1> HIDE DEF a
  <1>6. CASE c = "nl"
    <2>1. "nl" \notin ToSet(v)  BY <1>1 DEF ToSet, Without
    <2>2. Spells("nl", a)  BY <1>4, <1>5, <1>6, <2>1, SpellsIs
    <2>3. Named("nl", Append(w, c))  BY <1>1, <1>3, <1>4, <2>2 DEF Named
    <2> QED  BY <1>6, <2>3
  <1>7. CASE c # "nl"
    <2>1. Without("nl", a)
      <3>1. \A i \in 1..Len(v) + 1 : i \in 1..Len(v) \/ i = Len(v) + 1  BY <1>5
      <3> QED  BY <1>1, <1>5, <1>7, <3>1 DEF Without
    <2>2. Remark(Append(w, c))  BY <1>1, <1>3, <1>4, <1>5, <2>1 DEF Remark
    <2> QED  BY <1>7, <2>2
  <1> QED  BY <1>6, <1>7
\* w is what was taken of s since the first n characters.
Since(s, n, w) ==
    w \in Seq(Class) /\ \E p \in Seq(Class) : Len(p) = n /\ s.taken = p \o w

LEMMA SinceGrows ==
    ASSUME NEW s, NEW n, NEW w, Since(s, n, w), NEW x \in Seq(Class), NEW t,
           t.taken = s.taken \o x
    PROVE  Since(t, n, w \o x)
  <1>1. PICK p \in Seq(Class) : Len(p) = n /\ s.taken = p \o w  BY DEF Since
  <1>2. w \in Seq(Class)  BY DEF Since
  <1>3. w \o x \in Seq(Class)  BY ONLY <1>2, ConcatProperties
  <1>4. (p \o w) \o x = p \o (w \o x)  BY ONLY <1>2, ConcatAssociative
  <1>5. t.taken = p \o (w \o x)  BY <1>1, <1>4
  <1> QED  BY <1>1, <1>3, <1>5 DEF Since

\* A character was got, or there was none.
LEMMA SinceGot ==
    ASSUME NEW s, NEW n, NEW w, Since(s, n, w), SourceInv(s), NEW remove,
           NEW g, Got(remove, s, g)
    PROVE  \E q : /\ Quoted(q) /\ (~remove => q = <<>>)
                  /\ \/ g.c = EOF /\ Since(g.s, n, w \o q)
                     \/ g.c \in Class /\ Since(g.s, n, Append(w \o q, g.c))
  <1>1. PICK q : Quoted(q) /\ (~remove => q = <<>>) /\ TakenFrom(s, q, g.c, g.s)  BY DEF Got
  <1> DEFINE a == s.taken
  <1>2. a \in Seq(Class) /\ q \in Seq(Class) /\ w \in Seq(Class)
    BY <1>1, SourceIs DEF Quoted, SourceInv, Since
  <1>3. CASE g.c = EOF
    <2>1. EOF \notin Class  BY DEF EOF, Class
    <2>2. g.s.taken = s.taken \o q  BY <1>1, <1>3, <2>1 DEF TakenFrom
    <2>3. Since(g.s, n, w \o q)  BY <1>2, <2>2, SinceGrows
    <2> QED  BY <1>1, <1>3, <2>3
  <1>4. CASE g.c # EOF
    <2>1. g.c \in Class /\ g.s.taken = Append(a \o q, g.c)  BY <1>1, <1>4 DEF TakenFrom
    <2> DEFINE x == Append(q, g.c)
    <2>2. x \in Seq(Class)  BY <1>2, <2>1, AppendIs
    <2> HIDE DEF a
    <2>3. Append(a \o q, g.c) = a \o x  BY <1>2, <2>1, AppendJoin
    <2>4. Append(w \o q, g.c) = w \o x  BY <1>2, <2>1, AppendJoin
    <2> HIDE DEF x
    <2>5. g.s.taken = s.taken \o x  BY <2>1, <2>3 DEF a
    <2>6. Since(g.s, n, w \o x)  BY <2>2, <2>5, SinceGrows
    <2> QED  BY <1>1, <2>1, <2>4, <2>6
  <1> QED  BY <1>3, <1>4

LEMMA SinceBack ==
    ASSUME NEW s, NEW n, NEW w, Since(s, n, w), SourceInv(s), NEW remove, NEW c,
           NEW u, Back(remove, s, c, u)
    PROVE  \E q : Quoted(q) /\ (~remove => q = <<>>) /\ Since(u, n, w \o q)
  <1>1. PICK q : Quoted(q) /\ (~remove => q = <<>>) /\ u.taken = s.taken \o q  BY DEF Back
  <1>2. q \in Seq(Class)  BY <1>1 DEF Quoted
  <1>3. Since(u, n, w \o q)  BY <1>1, <1>2, SinceGrows
  <1> QED  BY <1>1, <1>3

\* A source t further on: nothing is lost, and w only grows.
Later(s, t) ==
    /\ SourceInv(t) /\ Whole(t) = Whole(s)
    /\ \A n, w : Since(s, n, w) => \E x \in Seq(Class) : Since(t, n, w \o x)

LEMMA LaterGot ==
    ASSUME NEW s, SourceInv(s), NEW remove, NEW g, Got(remove, s, g)
    PROVE  Later(s, g.s) /\ g.c \in Class \cup {EOF}
  <1>1. ASSUME NEW n, NEW w, Since(s, n, w) PROVE \E x \in Seq(Class) : Since(g.s, n, w \o x)
    <2>1. PICK q : /\ Quoted(q) /\ (~remove => q = <<>>)
                   /\ \/ g.c = EOF /\ Since(g.s, n, w \o q)
                      \/ g.c \in Class /\ Since(g.s, n, Append(w \o q, g.c))
      BY <1>1, SinceGot
    <2>2. q \in Seq(Class) /\ w \in Seq(Class)  BY <1>1, <2>1 DEF Quoted, Since
    <2>3. CASE g.c = EOF /\ Since(g.s, n, w \o q)  BY <2>2, <2>3
    <2>4. CASE g.c \in Class /\ Since(g.s, n, Append(w \o q, g.c))
      <3>1. Append(q, g.c) \in Seq(Class)  BY <2>2, <2>4, AppendIs
      <3>2. Append(w \o q, g.c) = w \o Append(q, g.c)  BY <2>2, <2>4, AppendJoin
      <3> QED  BY <2>4, <3>1, <3>2
    <2> QED  BY <2>1, <2>3, <2>4
  <1>2. g.c \in Class \cup {EOF}  BY DEF Got, TakenFrom
  <1>3. SourceInv(g.s) /\ Whole(g.s) = Whole(s)  BY DEF Got
  <1> QED  BY <1>1, <1>2, <1>3 DEF Later

LEMMA LaterBack ==
    ASSUME NEW s, SourceInv(s), NEW remove, NEW c, NEW u, Back(remove, s, c, u)
    PROVE  Later(s, u)
  <1>1. ASSUME NEW n, NEW w, Since(s, n, w) PROVE \E x \in Seq(Class) : Since(u, n, w \o x)
    <2>1. PICK q : Quoted(q) /\ (~remove => q = <<>>) /\ Since(u, n, w \o q)
      BY <1>1, SinceBack
    <2> QED  BY <2>1 DEF Quoted
  <1>2. SourceInv(u) /\ Whole(u) = Whole(s)  BY DEF Back
  <1> QED  BY <1>1, <1>2 DEF Later

LEMMA LaterStill ==
    ASSUME NEW s, NEW t, NEW u, Later(s, t), Later(t, u)
    PROVE  Later(s, u)
  <1>1. ASSUME NEW n, NEW w, Since(s, n, w) PROVE \E x \in Seq(Class) : Since(u, n, w \o x)
    <2>1. PICK x \in Seq(Class) : Since(t, n, w \o x)  BY <1>1 DEF Later
    <2>2. PICK y \in Seq(Class) : Since(u, n, (w \o x) \o y)  BY <2>1 DEF Later
    <2>3. w \in Seq(Class)  BY <1>1 DEF Since
    <2>4. (w \o x) \o y = w \o (x \o y)  BY ONLY <2>3, ConcatAssociative
    <2>5. x \o y \in Seq(Class)  BY ONLY ConcatProperties
    <2> QED  BY <2>2, <2>4, <2>5
  <1> QED  BY <1>1 DEF Later

\* Reading a character, with or without pushing it back.
LEMMA Reading ==
    ASSUME NEW s, SourceInv(s), NEW remove \in BOOLEAN, NEW g, g = shell_getc(s, remove)
    PROVE  /\ Got(remove, s, g) /\ Later(s, g.s) /\ g.c \in Class \cup {EOF}
           /\ Back(remove, s, g.c, shell_ungetc(g.s, g.c))
           /\ Later(s, shell_ungetc(g.s, g.c))
  <1>1. Got(remove, s, g)  BY GetcGets
  <1>2. Back(remove, s, g.c, shell_ungetc(g.s, g.c))  BY <1>1, UngetcPuts
  <1>3. Later(s, g.s) /\ g.c \in Class \cup {EOF}  BY <1>1, LaterGot
  <1>4. Later(s, shell_ungetc(g.s, g.c))  BY <1>2, LaterBack
  <1> QED  BY <1>1, <1>2, <1>3, <1>4

-----------------------------------------------------------------------------
(***************************************************************************)
(* The invariant: nothing of the text is lost, and what was taken since    *)
(* the token began is what the place in the scanner says.                  *)
(***************************************************************************)
Taking(where, s, n, c, t) ==
    /\ where = "blank"   => \E w : Since(s, n, w) /\ Blanks(w)
    /\ where = "comment" => Rest(s) # <<>> /\ \E w : Since(s, n, w) /\ Remark(w)
    /\ where = "meta"    => /\ c \in shellmeta \ {" ", "nl"}
                            /\ \E w : Since(s, n, w) /\ Written(<<c>>, w)
    /\ where = "word"    => c \in Class \cup {EOF} /\ \E w : Since(s, n, w) /\ w # <<>>
    /\ where = "token"   => \E w : Since(s, n, w) /\ Named(t, w)

ReaderInv ==
    /\ TypeOK
    /\ SourceInv(source)
    /\ Whole(source) = Delivered(text)
    /\ Taking(pc, source, start, character, current_token)

\* TypeOK but for the source
Typed ==
    /\ text \in Seq(Class)
    /\ pc \in {"yylex", "blank", "comment", "meta", "word", "token", "returned", "crashed"}
    /\ character \in Class \cup {EOF, None}
    /\ pass \in BOOLEAN /\ casepat \in BOOLEAN /\ EOF_Reached \in BOOLEAN
    /\ token \in Seq(Class)
    /\ current_token \in Token /\ last_read_token \in Token
    /\ state \in {"start", "redirection", "command", "operand", "recover", "accept"}
    /\ start \in Nat

LEMMA InitReader == Init => ReaderInv
  <1> SUFFICES ASSUME Init PROVE ReaderInv  OBVIOUS
  <1>1. text \in Seq(Class)  BY TextsAssumption DEF Init
  <1>2. source = [input |-> text, line |-> <<>>, index |-> 0, lookahead |-> None, taken |-> <<>>]
    BY DEF Init
  <1>3. <<>> \in Seq(Class) /\ Len(<<>>) = 0  OBVIOUS
  <1>4. source \in Source  BY <1>1, <1>2, <1>3 DEF Source
  <1>5. /\ source.line = <<>> /\ source.index = 0 /\ source.lookahead = None
        /\ source.taken = <<>> /\ source.input = text
    BY <1>2
  <1>6. SourceInv(source)  BY <1>3, <1>4, <1>5 DEF SourceInv, Line
  <1>7. Whole(source) = Delivered(text)
    <2>1. Rest(source) = <<>> /\ Delivered(text) \in Seq(Class)  BY <1>1, <1>4, <1>5, RestOf
    <2> DEFINE d == Delivered(text)
    <2>2. d \in Seq(Class)  BY <2>1
    <2>3. Whole(source) = <<>> \o (<<>> \o d)  BY <1>5, <2>1 DEF Whole
    <2> HIDE DEF d
    <2>4. <<>> \o d = d  BY <2>2
    <2> QED  BY <2>3, <2>4 DEF d
  <1>8. pc = "yylex"  BY DEF Init
  <1>9. TypeOK
    <2>1. "0" \in Token  BY DEF Token
    <2>2. source.index <= Len(source.line)  BY <1>3, <1>5
    <2>3. Typed
      <3>1. token \in Seq(Class) /\ start \in Nat  BY <1>3 DEF Init
      <3>2. /\ pc \in {"yylex", "blank", "comment", "meta", "word", "token", "returned", "crashed"}
            /\ character \in Class \cup {EOF, None}
            /\ pass \in BOOLEAN /\ casepat \in BOOLEAN /\ EOF_Reached \in BOOLEAN
            /\ current_token \in Token /\ last_read_token \in Token
            /\ state \in {"start", "redirection", "command", "operand", "recover", "accept"}
        BY <2>1 DEF Init
      <3> QED  BY <1>1, <3>1, <3>2 DEF Typed
    <2> QED  BY <1>4, <2>2, <2>3 DEF TypeOK, Typed
  <1>10. Taking(pc, source, start, character, current_token)  BY <1>8 DEF Taking
  <1> QED  BY <1>6, <1>7, <1>9, <1>10 DEF ReaderInv

\* A step by which the source goes on to a later one.
LEMMA Advance ==
    ASSUME ReaderInv, Later(source, source'), text' = text, Typed',
           Taking(pc, source, start, character, current_token)'
    PROVE  ReaderInv'
  <1>1. SourceInv(source') /\ Whole(source') = Whole(source)  BY DEF Later
  <1>2. source' \in Source /\ source'.index <= Len(source'.line)  BY <1>1 DEF SourceInv
  <1>3. TypeOK'  BY <1>2 DEF TypeOK, Typed
  <1>4. Whole(source)' = Delivered(text)'
    <2>1. Whole(source) = Delivered(text)  BY DEF ReaderInv
    <2>2. Whole(source)' = Whole(source')  BY DEF Whole, Rest
    <2>3. Delivered(text)' = Delivered(text')  OBVIOUS
    <2> QED  BY <1>1, <2>1, <2>2, <2>3
  <1>5. SourceInv(source)'  BY <1>1
  <1> QED  BY <1>3, <1>4, <1>5 DEF ReaderInv

\* A step by which the source stays.
LEMMA Remains ==
    ASSUME ReaderInv, UNCHANGED <<text, source>>, Typed',
           Taking(pc, source, start, character, current_token)'
    PROVE  ReaderInv'
  <1>1. TypeOK'  BY DEF TypeOK, Typed, ReaderInv
  <1>2. SourceInv(source)' /\ Whole(source)' = Delivered(text)'  BY DEF ReaderInv
  <1> QED  BY <1>1, <1>2 DEF ReaderInv

LEMMA YylexKeeps == ReaderInv /\ Yylex => ReaderInv'
  <1> SUFFICES ASSUME ReaderInv, Yylex PROVE ReaderInv'  OBVIOUS
  <1>1. /\ UNCHANGED <<text, source, character, pass, token, current_token, casepat,
                       EOF_Reached, state>>
        /\ pc' = "blank" /\ last_read_token' = current_token /\ start' = Len(source.taken)
    BY DEF Yylex, scanner
  <1>2. source.taken \in Seq(Class)  BY SourceIs DEF ReaderInv, SourceInv
  <1>3. Typed'  BY <1>1, <1>2 DEF Typed, ReaderInv, TypeOK
  <1>4. Since(source', start', <<>>)
    <2> DEFINE w == source.taken
    <2>1. w \in Seq(Class)  BY <1>2
    <2> HIDE DEF w
    <2>2. w \o <<>> = w /\ <<>> \in Seq(Class)  BY <2>1
    <2>3. source'.taken = w /\ start' = Len(w)  BY <1>1 DEF w
    <2> QED  BY <2>1, <2>2, <2>3 DEF Since
  <1>5. Taking(pc', source', start', character', current_token')
    BY <1>1, <1>4, BlanksNone DEF Taking
  <1> QED  BY <1>1, <1>3, <1>5, Remains

LEMMA ParseKeeps == ReaderInv /\ Parse => ReaderInv'
  <1> SUFFICES ASSUME ReaderInv, Parse PROVE ReaderInv'  OBVIOUS
  <1>1. /\ UNCHANGED <<text, source, character, pass, token, current_token, last_read_token,
                       casepat, EOF_Reached, start>>
        /\ state' = Shifted(state, current_token)
        /\ pc' = "returned" \/ pc' = "yylex"
    BY DEF Parse, scanner, tokens
  <1>2. state' \in {"start", "redirection", "command", "operand", "recover", "accept"}
    BY <1>1 DEF Shifted
  <1>3. Typed'  BY <1>1, <1>2 DEF Typed, ReaderInv, TypeOK
  <1>4. Taking(pc', source', start', character', current_token')  BY <1>1 DEF Taking
  <1> QED  BY <1>1, <1>3, <1>4, Remains

LEMMA ParseAgainKeeps == ReaderInv /\ ParseAgain => ReaderInv'
  <1> SUFFICES ASSUME ReaderInv, ParseAgain PROVE ReaderInv'  OBVIOUS
  <1>1. /\ UNCHANGED <<text, source, character, pass, token, current_token, last_read_token,
                       casepat, EOF_Reached, start>>
        /\ state' = "start" /\ pc' = "yylex"
    BY DEF ParseAgain, scanner, tokens
  <1>2. Typed'  BY <1>1 DEF Typed, ReaderInv, TypeOK
  <1>3. Taking(pc', source', start', character', current_token')  BY <1>1 DEF Taking
  <1> QED  BY <1>1, <1>2, <1>3, Remains

LEMMA StutterKeeps == ReaderInv /\ UNCHANGED vars => ReaderInv'
  <1> SUFFICES ASSUME ReaderInv, UNCHANGED vars PROVE ReaderInv'  OBVIOUS
  <1>1. UNCHANGED <<text, source, character, pass, token, current_token, last_read_token,
                    casepat, EOF_Reached, start, state, pc>>
    BY DEF vars, scanner, tokens
  <1>2. Typed'  BY <1>1 DEF Typed, ReaderInv, TypeOK
  <1>3. Taking(pc', source', start', character', current_token')  BY <1>1 DEF ReaderInv
  <1> QED  BY <1>1, <1>2, <1>3, Remains

\* A character that is no newline is not the last of its line.
LEMMA NotLast ==
    ASSUME NEW s, SourceInv(s), s.index \in 1..Len(s.line), s.line[s.index] # "nl"
    PROVE  Rest(s) # <<>>
  <1>1. s \in Source /\ Line(s.line) /\ s.line # <<>> /\ Len(s.line) \in Nat /\ s.index \in Nat
    BY SourceIs DEF SourceInv
  <1>2. s.line[Len(s.line)] = "nl"  BY <1>1 DEF Line
  <1>3. s.index < Len(s.line)  BY <1>1, <1>2
  <1>4. Ahead(s) \in Class /\ Rest(s) = <<Ahead(s)>> \o SubSeq(s.line, s.index + 2, Len(s.line))
        /\ SubSeq(s.line, s.index + 2, Len(s.line)) \in Seq(Class)
    BY <1>1, <1>3, RestIs
  <1> DEFINE z == SubSeq(s.line, s.index + 2, Len(s.line))
  <1> DEFINE c == Ahead(s)
  <1>5. c \in Class /\ z \in Seq(Class) /\ Rest(s) = <<c>> \o z  BY <1>4
  <1> HIDE DEF z, c
  <1> QED  BY <1>5

\* read_token() returns t: its type, apart from that of the scanner's own.
LEMMA Returned ==
    ASSUME ReaderInv, NEW t \in Token, Return(t), UNCHANGED <<text, state>>,
           character' \in Class \cup {EOF, None}, pass' \in BOOLEAN, token' \in Seq(Class),
           NEW w, Since(source', start, w), Named(t, w)
    PROVE  Typed' /\ Taking(pc, source, start, character, current_token)'
  <1>1. /\ current_token' = t /\ pc' = "token" /\ last_read_token' = last_read_token
        /\ start' = start
        /\ casepat' = (casepat \/ t = "SEMI_SEMI")
        /\ EOF_Reached' = (EOF_Reached \/ t = "yacc_EOF")
    BY DEF Return
  <1>2. casepat' \in BOOLEAN /\ EOF_Reached' \in BOOLEAN  BY <1>1
  <1>3. Typed'  BY <1>1, <1>2 DEF Typed, ReaderInv, TypeOK
  <1>4. Taking(pc', source', start', character', current_token')  BY <1>1 DEF Taking
  <1> QED  BY <1>3, <1>4

\* read_token() goes on elsewhere.
LEMMA Continued ==
    ASSUME ReaderInv, NEW where, Continue(where), UNCHANGED <<text, state>>,
           where \in {"blank", "comment", "meta", "word"},
           character' \in Class \cup {EOF, None}, pass' \in BOOLEAN, token' \in Seq(Class),
           Taking(where, source', start, character', current_token)
    PROVE  Typed' /\ Taking(pc, source, start, character, current_token)'
  <1>1. /\ pc' = where
        /\ UNCHANGED <<current_token, last_read_token, casepat, EOF_Reached, start>>
    BY DEF Continue, tokens
  <1>2. Typed'  BY <1>1 DEF Typed, ReaderInv, TypeOK
  <1>3. Taking(pc', source', start', character', current_token')  BY <1>1
  <1> QED  BY <1>2, <1>3

\* Where a token may begin, with c as its first character, or with none.
LEMMA Begins ==
    ASSUME NEW s, NEW n, NEW w, Since(s, n, w), Blanks(w), SourceInv(s),
           NEW g, Got(TRUE, s, g), NEW t
    PROVE  /\ g.c = " " => Taking("blank", g.s, n, t, t)
           /\ g.c = EOF => \E x : Since(g.s, n, x) /\ Named("yacc_EOF", x)
           /\ g.c = "#" => Taking("comment", g.s, n, t, t)
           /\ g.c = "nl" => \E x : Since(g.s, n, x) /\ Named("nl", x)
           /\ g.c = "-" => \E x : Since(g.s, n, x) /\ Named("-", x)
           /\ g.c \in shellmeta \ {" ", "nl"} => Taking("meta", g.s, n, g.c, t)
           /\ g.c \in Class => Taking("word", g.s, n, g.c, t)
  <1> DEFINE c == g.c
  <1>1. PICK q : /\ Quoted(q)
                 /\ \/ c = EOF /\ Since(g.s, n, w \o q)
                    \/ c \in Class /\ Since(g.s, n, Append(w \o q, c))
    BY SinceGot
  <1>2. w \o q \in Seq(Class)
    <2>1. Blanks(w \o q)  BY <1>1, BlanksMore
    <2> QED  BY <2>1 DEF Blanks
  <1>3. EOF \notin Class /\ \A d \in {" ", "#", "nl", "-"} : d \in Class /\ d # EOF
    BY DEF EOF, Class
  <1> HIDE DEF c
  <1>4. c \in Class => Since(g.s, n, Append(w \o q, c)) /\ Written(<<c>>, Append(w \o q, c))
                       /\ Append(w \o q, c) # <<>>
    <2> SUFFICES ASSUME c \in Class
                 PROVE  Since(g.s, n, Append(w \o q, c)) /\ Written(<<c>>, Append(w \o q, c))
                        /\ Append(w \o q, c) # <<>>
      OBVIOUS
    <2>1. Written(<<c>>, Append(w \o q, c))  BY <1>1, WrittenOne
    <2>2. Append(w \o q, c) # <<>>  BY <1>2, AppendIs
    <2> QED  BY <1>1, <1>3, <2>1, <2>2
  <1>5. c = " " => Taking("blank", g.s, n, t, t)
    <2>1. Blanks(Append(w \o q, " "))  BY <1>1, BlanksMore
    <2> QED  BY <1>3, <1>4, <2>1 DEF Taking
  <1>6. c = EOF => \E x : Since(g.s, n, x) /\ Named("yacc_EOF", x)
    <2>1. Named("yacc_EOF", w \o q)  BY <1>1, EndNamed
    <2> QED  BY <1>1, <1>3, <2>1
  <1>7. c = "#" => Taking("comment", g.s, n, t, t)
    <2> SUFFICES ASSUME c = "#" PROVE Taking("comment", g.s, n, t, t)  OBVIOUS
    <2>1. Remark(Append(w \o q, "#"))  BY <1>1, RemarkBegins
    <2>2. Rest(g.s) # <<>>
      <3>1. SourceInv(g.s)  BY DEF Got
      <3>2. g.s.index \in 1..Len(g.s.line) /\ g.s.line[g.s.index] = c
        BY <1>3 DEF Got, TakenFrom, c
      <3> QED  BY <3>1, <3>2, NotLast
    <2> QED  BY <1>3, <1>4, <2>1, <2>2 DEF Taking
  <1>8. c = "nl" => \E x : Since(g.s, n, x) /\ Named("nl", x)
    <2>1. Named("nl", Append(w \o q, "nl"))  BY <1>1, NewlineNamed
    <2> QED  BY <1>3, <1>4, <2>1
  <1>9. c = "-" => \E x : Since(g.s, n, x) /\ Named("-", x)
    <2> SUFFICES ASSUME c = "-" PROVE \E x : Since(g.s, n, x) /\ Named("-", x)  OBVIOUS
    <2>1. c \in Class /\ c # "nl"  BY <1>3
    <2>2. Named(c, Append(w \o q, c))  BY <1>4, <2>1, CharacterNamed
    <2> QED  BY <1>4, <2>1, <2>2
  <1>10. c \in shellmeta \ {" ", "nl"} => Taking("meta", g.s, n, c, t)
    <2>1. shellmeta \subseteq Class  BY DEF shellmeta, Class
    <2> QED  BY <1>4, <2>1 DEF Taking
  <1>11. c \in Class => Taking("word", g.s, n, c, t)  BY <1>4 DEF Taking
  <1> QED  BY <1>5, <1>6, <1>7, <1>8, <1>9, <1>10, <1>11 DEF c

LEMMA BlankKeeps == ReaderInv /\ Blank => ReaderInv'
  <1> SUFFICES ASSUME ReaderInv, Blank PROVE ReaderInv'  OBVIOUS
  <1> DEFINE g == shell_getc(source, TRUE)
  <1>1. SourceInv(source)  BY DEF ReaderInv
  <1>2. Got(TRUE, source, g) /\ Later(source, g.s) /\ g.c \in Class \cup {EOF}  BY <1>1, Reading
  <1>3. PICK w : Since(source, start, w) /\ Blanks(w)  BY DEF ReaderInv, Taking, Blank
  <1>4. /\ source' = g.s /\ text' = text /\ state' = state
        /\ \/ g.c = " "   /\ Continue("blank") /\ UNCHANGED scanner
           \/ g.c = EOF   /\ Return("yacc_EOF") /\ UNCHANGED scanner
           \/ g.c = "#"   /\ Continue("comment") /\ UNCHANGED scanner
           \/ g.c = "nl"  /\ Return("nl") /\ UNCHANGED scanner
           \/ Dash(g.c)   /\ Return("-") /\ UNCHANGED scanner
           \/ g.c \in shellmeta \ {" ", "nl"} /\ Continue("meta")
                 /\ character' = g.c /\ UNCHANGED <<pass, token>>
           \/ g.c \notin shellmeta \cup {EOF, "#"} /\ ~Dash(g.c) /\ Continue("word")
                 /\ character' = g.c /\ pass' = FALSE /\ token' = <<>>
    BY DEF Blank
  <1> HIDE DEF g
  <1>5. \A t : /\ g.c = " " => Taking("blank", g.s, start, t, t)
               /\ g.c = EOF => \E x : Since(g.s, start, x) /\ Named("yacc_EOF", x)
               /\ g.c = "#" => Taking("comment", g.s, start, t, t)
               /\ g.c = "nl" => \E x : Since(g.s, start, x) /\ Named("nl", x)
               /\ g.c = "-" => \E x : Since(g.s, start, x) /\ Named("-", x)
               /\ g.c \in shellmeta \ {" ", "nl"} => Taking("meta", g.s, start, g.c, t)
               /\ g.c \in Class => Taking("word", g.s, start, g.c, t)
    BY <1>1, <1>2, <1>3, Begins
  <1>6. \A s, n, c, t, d, e : /\ Taking("blank", s, n, d, e) => Taking("blank", s, n, c, t)
                              /\ Taking("comment", s, n, d, e) => Taking("comment", s, n, c, t)
                              /\ Taking("meta", s, n, c, e) => Taking("meta", s, n, c, t)
                              /\ Taking("word", s, n, c, e) => Taking("word", s, n, c, t)
    <2> TAKE s, n, c, t, d, e
    <2>1. Taking("blank", s, n, d, e) => Taking("blank", s, n, c, t)  BY DEF Taking
    <2>2. Taking("comment", s, n, d, e) => Taking("comment", s, n, c, t)  BY DEF Taking
    <2>3. Taking("meta", s, n, c, e) => Taking("meta", s, n, c, t)  BY DEF Taking
    <2>4. Taking("word", s, n, c, e) => Taking("word", s, n, c, t)  BY DEF Taking
    <2> QED  BY <2>1, <2>2, <2>3, <2>4
  <1>7. /\ character \in Class \cup {EOF, None} /\ pass \in BOOLEAN /\ token \in Seq(Class)
        /\ g.c \in Class \cup {EOF, None} /\ <<>> \in Seq(Class)
    BY <1>2 DEF ReaderInv, TypeOK
  <1>8. UNCHANGED scanner => UNCHANGED <<character, pass, token>>  BY DEF scanner
  <1>9. "yacc_EOF" \in Token /\ "nl" \in Token /\ "-" \in Token  BY DEF Token, Class
  <1>10. Typed' /\ Taking(pc, source, start, character, current_token)'
    <2>1. CASE g.c = " " /\ Continue("blank") /\ UNCHANGED scanner
      <3>1. Taking("blank", source', start, character', current_token)  BY <1>4, <1>5, <1>6, <2>1
      <3> QED  BY <1>4, <1>7, <1>8, <2>1, <3>1, Continued
    <2>2. CASE g.c = EOF /\ Return("yacc_EOF") /\ UNCHANGED scanner
      <3>1. PICK x : Since(source', start, x) /\ Named("yacc_EOF", x)  BY <1>4, <1>5, <2>2
      <3> QED  BY <1>4, <1>7, <1>8, <1>9, <2>2, <3>1, Returned
    <2>3. CASE g.c = "#" /\ Continue("comment") /\ UNCHANGED scanner
      <3>1. Taking("comment", source', start, character', current_token)
        BY <1>4, <1>5, <1>6, <2>3
      <3> QED  BY <1>4, <1>7, <1>8, <2>3, <3>1, Continued
    <2>4. CASE g.c = "nl" /\ Return("nl") /\ UNCHANGED scanner
      <3>1. PICK x : Since(source', start, x) /\ Named("nl", x)  BY <1>4, <1>5, <2>4
      <3> QED  BY <1>4, <1>7, <1>8, <1>9, <2>4, <3>1, Returned
    <2>5. CASE Dash(g.c) /\ Return("-") /\ UNCHANGED scanner
      <3>1. g.c = "-"  BY <2>5 DEF Dash
      <3>2. PICK x : Since(source', start, x) /\ Named("-", x)  BY <1>4, <1>5, <3>1
      <3> QED  BY <1>4, <1>7, <1>8, <1>9, <2>5, <3>2, Returned
    <2>6. CASE g.c \in shellmeta \ {" ", "nl"} /\ Continue("meta")
                  /\ character' = g.c /\ UNCHANGED <<pass, token>>
      <3>1. Taking("meta", source', start, character', current_token)  BY <1>4, <1>5, <2>6
      <3> QED  BY <1>4, <1>7, <2>6, <3>1, Continued
    <2>7. CASE g.c \notin shellmeta \cup {EOF, "#"} /\ ~Dash(g.c) /\ Continue("word")
                  /\ character' = g.c /\ pass' = FALSE /\ token' = <<>>
      <3>1. g.c \in Class  BY <1>2, <2>7
      <3>2. Taking("word", source', start, character', current_token)  BY <1>4, <1>5, <2>7, <3>1
      <3> QED  BY <1>4, <1>7, <2>7, <3>2, Continued
    <2> QED  BY <1>4, <2>1, <2>2, <2>3, <2>4, <2>5, <2>6, <2>7
  <1> QED  BY <1>2, <1>4, <1>10, Advance

LEMMA CommentKeeps == ReaderInv /\ Comment => ReaderInv'
  <1> SUFFICES ASSUME ReaderInv, Comment PROVE ReaderInv'  OBVIOUS
  <1> DEFINE g == shell_getc(source, FALSE)
  <1> DEFINE u == shell_ungetc(g.s, g.c)
  <1> DEFINE h == shell_getc(u, FALSE)
  <1>1. SourceInv(source)  BY DEF ReaderInv
  <1>2. /\ Got(FALSE, source, g) /\ Later(source, g.s) /\ g.c \in Class \cup {EOF}
        /\ Back(FALSE, source, g.c, u) /\ Later(source, u)
    BY <1>1, Reading
  <1>3. PICK w : Since(source, start, w) /\ Remark(w)  BY DEF ReaderInv, Taking, Comment
  <1>4. Rest(source) # <<>>  BY DEF ReaderInv, Taking, Comment
  <1>5. g.c \in Class /\ g.c # EOF
    <2>1. source \in Source /\ Line(source.line)  BY <1>1 DEF SourceInv
    <2>2. source.index < Len(source.line)  BY <1>4, <2>1, RestOf, SourceIs
    <2>3. Ahead(source) \in Class  BY <2>1, <2>2, RestIs
    <2>4. g.c = Ahead(source)  BY <1>2, <1>4 DEF Got
    <2>5. EOF \notin Class  BY DEF EOF, Class
    <2> QED  BY <2>3, <2>4, <2>5
  <1>6. w \in Seq(Class) /\ w \o <<>> = w
    <2>1. w \in Seq(Class)  BY <1>3 DEF Since
    <2> QED  BY <2>1
  <1>7. /\ text' = text /\ state' = state /\ UNCHANGED <<character, pass, token>>
        /\ \/ g.c \notin {"nl", EOF} /\ source' = g.s /\ Continue("comment")
           \/ g.c = "nl" /\ source' = h.s /\ Return("nl")
    <2>1. /\ text' = text /\ state' = state /\ UNCHANGED <<character, pass, token>>
          /\ \/ g.c \notin {"nl", EOF} /\ source' = g.s /\ Continue("comment")
             \/ /\ g.c \in {"nl", EOF}
                /\ source' = shell_getc(discard_until_last(g.s, g.c), FALSE).s
                /\ Return("nl")
      BY DEF Comment, scanner
    <2>2. discard_until_last(g.s, g.c) = u  BY <1>5 DEF discard_until_last
    <2> HIDE DEF g, u
    <2> QED  BY <1>5, <2>1, <2>2
  <1>8. Got(FALSE, u, h) /\ Later(u, h.s)
    <2>1. SourceInv(u)  BY <1>2 DEF Back
    <2> HIDE DEF u
    <2> QED  BY <2>1, Reading
  <1> HIDE DEF g, u, h
  <1>9. Since(g.s, start, Append(w, g.c)) /\ Since(u, start, w)
    <2>1. PICK q : /\ q = <<>>
                   /\ \/ g.c = EOF /\ Since(g.s, start, w \o q)
                      \/ g.c \in Class /\ Since(g.s, start, Append(w \o q, g.c))
      BY <1>1, <1>2, <1>3, SinceGot
    <2>2. PICK q2 : q2 = <<>> /\ Since(u, start, w \o q2)  BY <1>1, <1>2, <1>3, SinceBack
    <2> QED  BY <1>5, <1>6, <2>1, <2>2
  <1>10. /\ character \in Class \cup {EOF, None} /\ pass \in BOOLEAN /\ token \in Seq(Class)
         /\ "nl" \in Token
    <2>1. "nl" \in Token  BY DEF Token, Class
    <2> QED  BY <2>1 DEF ReaderInv, TypeOK
  <1>11. CASE g.c \notin {"nl", EOF} /\ source' = g.s /\ Continue("comment")
    <2>1. Remark(Append(w, g.c))  BY <1>3, <1>5, <1>11, RemarkMore
    <2>2. Rest(g.s) # <<>>
      <3>1. SourceInv(g.s)  BY <1>2 DEF Got
      <3>2. g.s.index \in 1..Len(g.s.line) /\ g.s.line[g.s.index] = g.c
        BY <1>2, <1>5 DEF Got, TakenFrom
      <3> QED  BY <1>11, <3>1, <3>2, NotLast
    <2>3. Taking("comment", source', start, character', current_token)
      BY <1>9, <1>11, <2>1, <2>2 DEF Taking
    <2>4. Typed' /\ Taking(pc, source, start, character, current_token)'
      BY <1>7, <1>10, <1>11, <2>3, Continued
    <2> QED  BY <1>2, <1>7, <1>11, <2>4, Advance
  <1>12. CASE g.c = "nl" /\ source' = h.s /\ Return("nl")
    <2>1. Rest(u) # <<>> /\ Ahead(u) = "nl"  BY <1>2, <1>5, <1>12 DEF Back
    <2>2. h.c = "nl"  BY <1>8, <2>1 DEF Got
    <2>3. SourceInv(u)  BY <1>2 DEF Back
    <2>4. Since(h.s, start, Append(w, "nl"))
      <3>1. PICK q : /\ q = <<>>
                     /\ \/ h.c = EOF /\ Since(h.s, start, w \o q)
                        \/ h.c \in Class /\ Since(h.s, start, Append(w \o q, h.c))
        BY <1>8, <1>9, <2>3, SinceGot
      <3>2. h.c # EOF  BY <2>2 DEF EOF
      <3> QED  BY <1>6, <2>2, <3>1, <3>2
    <2>5. Named("nl", Append(w, "nl"))
      <3>1. "nl" \in Class  BY DEF Class
      <3> QED  BY <1>3, <3>1, RemarkMore
    <2>6. Since(source', start, Append(w, "nl"))  BY <1>12, <2>4
    <2>7. Typed' /\ Taking(pc, source, start, character, current_token)'
      BY <1>7, <1>10, <1>12, <2>5, <2>6, Returned
    <2>8. Later(source, source')  BY <1>2, <1>8, <1>12, LaterStill
    <2> QED  BY <1>7, <2>7, <2>8, Advance
  <1> QED  BY <1>7, <1>11, <1>12

Pair(x, y)      == <<x, y>>
Triple(x, y, z) == <<x, y, z>>

\* What follows in an operator is no newline.
LEMMA OperatorIs ==
    /\ \A t \in DOMAIN Operator : \A a, c : Operator[t] = <<a, c>> => c \in Class \ {"nl"}
    /\ \A t \in DOMAIN Operator : \A a, b, c : Operator[t] = <<a, b, c>> => c \in Class \ {"nl"}
    /\ "LESS_LESS" \in DOMAIN Operator /\ Operator["LESS_LESS"] = <<"<", "<">>
    /\ DOMAIN Operator \subseteq Token /\ shellmeta \subseteq Class /\ Class \subseteq Token
  <1> DEFINE Signs == {"<", ">", "&", "|", ";", "-"}
  <1>1. \A x, y, z : /\ Len(Pair(x, y)) = 2 /\ Pair(x, y)[2] = y
                     /\ Len(Triple(x, y, z)) = 3 /\ Triple(x, y, z)[2] = y /\ Triple(x, y, z)[3] = z
    BY DEF Pair, Triple
  <1>2. DOMAIN Operator = {"LESS_LESS", "LESS_AND", "LESS_GREATER", "GREATER_GREATER",
                           "GREATER_AND", "GREATER_BAR", "AND_AND", "AND_GREATER", "OR_OR",
                           "SEMI_SEMI", "LESS_LESS_LESS", "LESS_LESS_MINUS"}
    BY DEF Operator
  <1>3. /\ Operator["LESS_LESS"] = Pair("<", "<")
        /\ Operator["LESS_AND"] = Pair("<", "&")
        /\ Operator["LESS_GREATER"] = Pair("<", ">")
        /\ Operator["GREATER_GREATER"] = Pair(">", ">")
        /\ Operator["GREATER_AND"] = Pair(">", "&")
        /\ Operator["GREATER_BAR"] = Pair(">", "|")
        /\ Operator["AND_AND"] = Pair("&", "&")
        /\ Operator["AND_GREATER"] = Pair("&", ">")
        /\ Operator["OR_OR"] = Pair("|", "|")
        /\ Operator["SEMI_SEMI"] = Pair(";", ";")
        /\ Operator["LESS_LESS_LESS"] = Triple("<", "<", "<")
        /\ Operator["LESS_LESS_MINUS"] = Triple("<", "<", "-")
    BY DEF Operator, Pair, Triple
  <1>4. \A t \in DOMAIN Operator :
           \/ \E x, y \in Signs : Operator[t] = Pair(x, y)
           \/ \E x, y, z \in Signs : Operator[t] = Triple(x, y, z)
    BY <1>2, <1>3
  <1>5. Signs \subseteq Class \ {"nl"}  BY DEF Class
  <1> HIDE DEF Signs
  <1>6. ASSUME NEW t \in DOMAIN Operator, NEW a, NEW c, Operator[t] = Pair(a, c)
        PROVE  c \in Class \ {"nl"}
    BY <1>1, <1>4, <1>5, <1>6
  <1>7. ASSUME NEW t \in DOMAIN Operator, NEW a, NEW b, NEW c, Operator[t] = Triple(a, b, c)
        PROVE  c \in Class \ {"nl"}
    <2>1. Len(Operator[t]) = 3 /\ Operator[t][3] = c  BY <1>1, <1>7
    <2>2. PICK x, y, z \in Signs : Operator[t] = Triple(x, y, z)
      <3>1. \A x, y : Len(Pair(x, y)) # 3  BY <1>1
      <3> QED  BY <1>4, <2>1, <3>1
    <2> QED  BY <1>1, <1>5, <2>1, <2>2
  <1>8. "LESS_LESS" \in DOMAIN Operator /\ Operator["LESS_LESS"] = <<"<", "<">>
    BY <1>2, <1>3 DEF Pair
  <1>9. DOMAIN Operator \subseteq Token /\ Class \subseteq Token  BY DEF Token
  <1>10. shellmeta \subseteq Class  BY DEF shellmeta, Class
  <1> QED  BY <1>6, <1>7, <1>8, <1>9, <1>10 DEF Pair, Triple

LEMMA TripleIs ==
    ASSUME NEW x \in Class, NEW y \in Class, NEW z \in Class
    PROVE  <<x, y>> \o <<z>> = <<x, y, z>>
  <1> DEFINE p == <<x, y>>
  <1> DEFINE q == <<z>>
  <1> DEFINE r == <<x, y, z>>
  <1> DEFINE w == p \o q
  <1>1. p \in Seq(Class) /\ Len(p) = 2 /\ p[1] = x /\ p[2] = y  OBVIOUS
  <1>2. q \in Seq(Class) /\ Len(q) = 1 /\ q[1] = z  OBVIOUS
  <1>3. r \in Seq(Class) /\ Len(r) = 3 /\ r[1] = x /\ r[2] = y /\ r[3] = z  OBVIOUS
  <1> HIDE DEF p, q, r
  <1>4. w \in Seq(Class)  BY ONLY <1>1, <1>2, ConcatProperties
  <1>5. Len(w) = Len(p) + Len(q)  BY ONLY <1>1, <1>2, ConcatProperties
  <1>6. \A i \in 1..Len(p) + Len(q) : w[i] = IF i <= Len(p) THEN p[i] ELSE q[i - Len(p)]
    BY ONLY <1>1, <1>2, ConcatProperties
  <1>7. /\ 1 \in 1..2 + 1 /\ 2 \in 1..2 + 1 /\ 3 \in 1..2 + 1
        /\ 1 <= 2 /\ 2 <= 2 /\ ~(3 <= 2) /\ 3 - 2 = 1 /\ 2 + 1 = 3
    OBVIOUS
  <1> HIDE DEF w
  <1>8. Len(w) = 3 /\ w[1] = x /\ w[2] = y /\ w[3] = z  BY <1>1, <1>2, <1>5, <1>6, <1>7
  <1>9. \A i \in 1..3 : i = 1 \/ i = 2 \/ i = 3  OBVIOUS
  <1>10. w = r  BY <1>3, <1>4, <1>8, <1>9, SeqEqual
  <1> QED  BY <1>10 DEF p, q, r, w

LEMMA WrittenSome ==
    ASSUME NEW c \in Class, NEW w, Written(<<c>>, w)
    PROVE  w # <<>>
  <1>1. PICK u, v : w = u \o v /\ Blanks(u) /\ v \in Seq(Class) /\ Unfolded(v) = <<c>>
    BY DEF Written
  <1>2. u \in Seq(Class)  BY <1>1 DEF Blanks
  <1>3. v # <<>>
    <2>1. <<c>> # <<>> /\ <<>> \in Seq(Class)  OBVIOUS
    <2>2. Unfolded(<<>>) = <<>>  BY <2>1, UnfoldedIs
    <2> QED  BY <1>1, <2>1, <2>2
  <1> QED  BY <1>1, <1>2, <1>3

LEMMA MetaKeeps == ReaderInv /\ Meta => ReaderInv'
  <1> SUFFICES ASSUME ReaderInv, Meta PROVE ReaderInv'  OBVIOUS
  <1> DEFINE g == shell_getc(source, TRUE)
  <1> DEFINE h == shell_getc(g.s, TRUE)
  <1> DEFINE gu == shell_ungetc(g.s, g.c)
  <1> DEFINE hu == shell_ungetc(h.s, h.c)
  <1>1. SourceInv(source)  BY DEF ReaderInv
  <1>2. /\ Got(TRUE, source, g) /\ Later(source, g.s) /\ g.c \in Class \cup {EOF}
        /\ Back(TRUE, source, g.c, gu) /\ Later(source, gu)
    BY <1>1, Reading
  <1>3. SourceInv(g.s)  BY <1>2 DEF Got
  <1>4. /\ Got(TRUE, g.s, h) /\ Later(g.s, h.s) /\ h.c \in Class \cup {EOF}
        /\ Back(TRUE, g.s, h.c, hu) /\ Later(g.s, hu)
    <2> HIDE DEF g
    <2> QED  BY <1>3, Reading
  <1>5. /\ text' = text /\ state' = state /\ character' = character
        /\ pass' = FALSE /\ token' = <<>>
        /\ \/ /\ character = "<" /\ g.c = "<"
              /\ \/ \E t \in OperatorOf(<<"<", "<", h.c>>) : source' = h.s /\ Return(t)
                 \/ source' = hu /\ Return("LESS_LESS")
           \/ \E t \in OperatorOf(<<character, g.c>>) : source' = g.s /\ Return(t)
           \/ /\ source' = gu
              /\ IF character \in {"<", ">"} /\ g.c = "(" THEN Continue("word")
                                                          ELSE Return(character)
    BY DEF Meta
  <1> HIDE DEF g, h, gu, hu
  <1>6. PICK w : Since(source, start, w) /\ Written(<<character>>, w)
    BY DEF ReaderInv, Taking, Meta
  <1>7. character \in Class /\ character # "nl"
    BY OperatorIs DEF ReaderInv, Taking, Meta
  <1>8. /\ character' \in Class \cup {EOF, None} /\ pass' \in BOOLEAN /\ token' \in Seq(Class)
    <2>1. <<>> \in Seq(Class)  OBVIOUS
    <2> QED  BY <1>5, <1>7, <2>1
  <1>9. EOF \notin Class  BY DEF EOF, Class
  <1>10. ASSUME g.c \in Class \ {"nl"}
         PROVE  \E x : Since(g.s, start, x) /\ Written(<<character, g.c>>, x)
    <2>1. PICK q : /\ Quoted(q)
                   /\ \/ g.c = EOF /\ Since(g.s, start, w \o q)
                      \/ g.c \in Class /\ Since(g.s, start, Append(w \o q, g.c))
      BY <1>1, <1>2, <1>6, SinceGot
    <2>2. Written(<<character>> \o <<g.c>>, Append(w \o q, g.c))
      BY <1>6, <1>10, <2>1, WrittenMore
    <2>3. <<character>> \o <<g.c>> = <<character, g.c>>  BY <1>7, <1>10, PairIs
    <2> QED  BY <1>9, <1>10, <2>1, <2>2, <2>3
  <1>11. ASSUME character = "<", g.c = "<",
                \/ \E t \in OperatorOf(<<"<", "<", h.c>>) : source' = h.s /\ Return(t)
                \/ source' = hu /\ Return("LESS_LESS")
         PROVE  ReaderInv'
    <2> DEFINE z == "<"
    <2>1. character = z /\ g.c = z /\ z \in Class /\ z # "nl"  BY <1>7, <1>11
    <2> HIDE DEF z
    <2>2. PICK x : Since(g.s, start, x) /\ Written(<<z, z>>, x)  BY <1>10, <2>1
    <2>3. ASSUME NEW t \in OperatorOf(<<z, z, h.c>>), source' = h.s, Return(t)
          PROVE  ReaderInv'
      <3>1. t \in DOMAIN Operator /\ Operator[t] = <<z, z, h.c>>  BY <2>3 DEF OperatorOf
      <3>2. h.c \in Class \ {"nl"} /\ t \in Token  BY <3>1, OperatorIs
      <3>3. PICK q : /\ Quoted(q)
                     /\ \/ h.c = EOF /\ Since(h.s, start, x \o q)
                        \/ h.c \in Class /\ Since(h.s, start, Append(x \o q, h.c))
        BY <1>3, <1>4, <2>2, SinceGot
      <3> DEFINE y == Append(x \o q, h.c)
      <3>4. Written(<<z, z>> \o <<h.c>>, y)  BY <2>2, <3>2, <3>3, WrittenMore
      <3>5. <<z, z>> \o <<h.c>> = <<z, z, h.c>>  BY <2>1, <3>2, TripleIs
      <3>6. Named(t, y)  BY <3>1, <3>4, <3>5, OperatorNamed
      <3>7. Since(source', start, y)  BY <1>9, <2>3, <3>2, <3>3
      <3> HIDE DEF y
      <3>8. Typed' /\ Taking(pc, source, start, character, current_token)'
        BY <1>5, <1>8, <2>3, <3>2, <3>6, <3>7, Returned
      <3>9. Later(source, source')  BY <1>2, <1>4, <2>3, LaterStill
      <3> QED  BY <1>5, <3>8, <3>9, Advance
    <2>4. ASSUME source' = hu, Return("LESS_LESS") PROVE ReaderInv'
      <3>1. PICK q : Quoted(q) /\ Since(hu, start, x \o q)
        BY <1>3, <1>4, <2>2, SinceBack
      <3>2. Written(<<z, z>>, x \o q)  BY <2>2, <3>1, WrittenMore
      <3>3. "LESS_LESS" \in DOMAIN Operator /\ Operator["LESS_LESS"] = <<z, z>>
            /\ "LESS_LESS" \in Token
        BY OperatorIs DEF z
      <3>4. Named("LESS_LESS", x \o q)
        <4> DEFINE t == "LESS_LESS"
        <4>1. t \in DOMAIN Operator /\ Written(Operator[t], x \o q)  BY <3>2, <3>3
        <4> HIDE DEF t
        <4>2. Named(t, x \o q)  BY <4>1, OperatorNamed
        <4> QED  BY <4>2 DEF t
      <3>5. Since(source', start, x \o q)  BY <2>4, <3>1
      <3>6. Typed' /\ Taking(pc, source, start, character, current_token)'
        BY <1>5, <1>8, <2>4, <3>3, <3>4, <3>5, Returned
      <3>7. Later(source, source')  BY <1>2, <1>4, <2>4, LaterStill
      <3> QED  BY <1>5, <3>6, <3>7, Advance
    <2> QED  BY <1>11, <2>3, <2>4 DEF z
  <1>12. ASSUME NEW t \in OperatorOf(<<character, g.c>>), source' = g.s, Return(t)
         PROVE  ReaderInv'
    <2>1. t \in DOMAIN Operator /\ Operator[t] = <<character, g.c>>  BY <1>12 DEF OperatorOf
    <2>2. g.c \in Class \ {"nl"} /\ t \in Token  BY <2>1, OperatorIs
    <2>3. PICK x : Since(g.s, start, x) /\ Written(<<character, g.c>>, x)  BY <1>10, <2>2
    <2>4. Named(t, x)  BY <2>1, <2>3, OperatorNamed
    <2>5. Since(source', start, x)  BY <1>12, <2>3
    <2>6. Typed' /\ Taking(pc, source, start, character, current_token)'
      BY <1>5, <1>8, <1>12, <2>2, <2>4, <2>5, Returned
    <2>7. Later(source, source')  BY <1>2, <1>12
    <2> QED  BY <1>5, <2>6, <2>7, Advance
  <1>13. ASSUME source' = gu,
                IF character \in {"<", ">"} /\ g.c = "(" THEN Continue("word")
                                                         ELSE Return(character)
         PROVE  ReaderInv'
    <2>1. PICK q : Quoted(q) /\ Since(gu, start, w \o q)  BY <1>1, <1>2, <1>6, SinceBack
    <2>2. Written(<<character>>, w \o q)  BY <1>6, <2>1, WrittenMore
    <2>3. Since(source', start, w \o q)  BY <1>13, <2>1
    <2>4. w \o q # <<>>  BY <1>7, <2>2, WrittenSome
    <2>5. Named(character, w \o q)  BY <1>7, <2>2, CharacterNamed
    <2>6. Typed' /\ Taking(pc, source, start, character, current_token)'
      <3>1. CASE Continue("word")
        <4>1. Taking("word", source', start, character', current_token)
          BY <1>5, <1>7, <2>3, <2>4 DEF Taking
        <4> QED  BY <1>5, <1>8, <3>1, <4>1, Continued
      <3>2. CASE Return(character)
        <4>1. character \in Token  BY <1>7, OperatorIs
        <4> QED  BY <1>5, <1>8, <2>3, <2>5, <3>2, <4>1, Returned
      <3> QED  BY <1>13, <3>1, <3>2
    <2>7. Later(source, source')  BY <1>2, <1>13
    <2> QED  BY <1>5, <2>6, <2>7, Advance
  <1> QED  BY <1>5, <1>11, <1>12, <1>13

LEMMA LaterSame ==
    ASSUME NEW s, SourceInv(s)
    PROVE  Later(s, s)
  <1>1. ASSUME NEW n, NEW w, Since(s, n, w) PROVE \E x \in Seq(Class) : Since(s, n, w \o x)
    <2>1. w \in Seq(Class)  BY <1>1 DEF Since
    <2>2. w \o <<>> = w /\ <<>> \in Seq(Class)  BY <2>1
    <2> QED  BY <1>1, <2>2
  <1> QED  BY <1>1 DEF Later

\* next_character
LEMMA NextKeeps ==
    ASSUME ReaderInv, pc = "word", UNCHANGED <<text, state>>,
           NEW s, Later(source, s), NEW word \in Seq(Class), NEW passing \in BOOLEAN,
           NextCharacter(s, word, passing)
    PROVE  ReaderInv'
  <1> DEFINE g == shell_getc(s, ~passing)
  <1>1. /\ character' = g.c /\ source' = g.s /\ token' = word /\ pass' = passing
        /\ Continue("word")
    BY DEF NextCharacter
  <1>2. Later(s, g.s) /\ g.c \in Class \cup {EOF}
    <2>1. SourceInv(s) /\ (~passing) \in BOOLEAN  BY DEF Later
    <2> QED  BY <2>1, Reading
  <1> HIDE DEF g
  <1>3. Later(source, g.s)  BY <1>2, LaterStill
  <1>4. PICK w : Since(source, start, w) /\ w # <<>>  BY DEF ReaderInv, Taking
  <1>5. PICK x \in Seq(Class) : Since(g.s, start, w \o x)  BY <1>3, <1>4 DEF Later
  <1>6. w \o x # <<>>
    <2>1. w \in Seq(Class)  BY <1>4 DEF Since
    <2> QED  BY <1>4, <2>1
  <1>7. Taking("word", source', start, character', current_token)
    BY <1>1, <1>2, <1>5, <1>6 DEF Taking
  <1>8. Typed' /\ Taking(pc, source, start, character, current_token)'
    BY <1>1, <1>2, <1>7, Continued
  <1> QED  BY <1>1, <1>3, <1>8, Advance

LEMMA CrashKeeps ==
    ASSUME ReaderInv, UNCHANGED <<text, state>>, Crash
    PROVE  ReaderInv'
  <1>1. /\ pc' = "crashed"
        /\ UNCHANGED <<source, character, pass, token, current_token, last_read_token, casepat,
                       EOF_Reached, start>>
    BY DEF Crash, scanner, tokens
  <1>2. Typed'  BY <1>1 DEF Typed, ReaderInv, TypeOK
  <1>3. Taking(pc', source', start', character', current_token')  BY <1>1 DEF Taking
  <1> QED  BY <1>1, <1>2, <1>3, Remains

LEMMA WordKeeps == ReaderInv /\ Word => ReaderInv'
  <1> SUFFICES ASSUME ReaderInv, Word PROVE ReaderInv'  OBVIOUS
  <1>1. /\ pc = "word" /\ text' = text /\ state' = state
        /\ Plain \/ Backslash \/ Quote \/ Dollar \/ GotToken
    BY DEF Word
  <1>2. SourceInv(source) /\ Later(source, source)  BY LaterSame DEF ReaderInv
  <1>3. character \in Class \cup {EOF} /\ token \in Seq(Class)
    BY <1>1 DEF ReaderInv, Taking, TypeOK
  <1>4. ASSUME NEW s, Later(source, s), NEW passing \in BOOLEAN, character # EOF,
               GotCharacter(s, passing)
        PROVE  ReaderInv'
    <2>1. Append(token, character) \in Seq(Class)  BY <1>3, <1>4, AppendIs
    <2>2. NextCharacter(s, Append(token, character), passing)  BY <1>4 DEF GotCharacter
    <2> QED  BY <1>1, <1>4, <2>1, <2>2, NextKeeps
  <1>5. character \in {"\\", "$"} => character # EOF  BY DEF EOF
  <1>6. CASE Plain  BY <1>2, <1>4, <1>6 DEF Plain
  <1>7. CASE Backslash
    <2> DEFINE g == shell_getc(source, FALSE)
    <2>1. Later(source, shell_ungetc(g.s, g.c))  BY <1>2, Reading
    <2>2. GotCharacter(shell_ungetc(g.s, g.c), TRUE) /\ character = "\\"  BY <1>7 DEF Backslash
    <2> HIDE DEF g
    <2> QED  BY <1>4, <1>5, <2>1, <2>2
  <1>8. CASE Quote  BY <1>1, <1>8, CrashKeeps DEF Quote
  <1>9. CASE Dollar
    <2> DEFINE g == shell_getc(source, TRUE)
    <2>1. Later(source, shell_ungetc(g.s, g.c)) /\ Later(source, g.s)  BY <1>2, Reading
    <2>2. /\ character = "$"
          /\ \/ Crash
             \/ NextCharacter(g.s, token \o <<"'", "'">>, FALSE)
             \/ NextCharacter(g.s, token \o <<"$", "$">>, FALSE)
             \/ GotCharacter(shell_ungetc(g.s, g.c), FALSE)
      BY <1>9 DEF Dollar
    <2> HIDE DEF g
    <2>3. token \o <<"'", "'">> \in Seq(Class) /\ token \o <<"$", "$">> \in Seq(Class)
      <3>1. <<"'", "'">> \in Seq(Class) /\ <<"$", "$">> \in Seq(Class)
        <4>1. "'" \in Class /\ "$" \in Class  BY DEF Class
        <4> QED  BY <4>1
      <3>2. token \in Seq(Class)  BY <1>3
      <3>3. token \o <<"'", "'">> \in Seq(Class)  BY ONLY <3>1, <3>2, ConcatProperties
      <3>4. token \o <<"$", "$">> \in Seq(Class)  BY ONLY <3>1, <3>2, ConcatProperties
      <3> QED  BY <3>3, <3>4
    <2>4. CASE Crash  BY <1>1, <2>4, CrashKeeps
    <2>5. CASE NextCharacter(g.s, token \o <<"'", "'">>, FALSE)
      BY <1>1, <2>1, <2>3, <2>5, NextKeeps
    <2>6. CASE NextCharacter(g.s, token \o <<"$", "$">>, FALSE)
      BY <1>1, <2>1, <2>3, <2>6, NextKeeps
    <2>7. CASE GotCharacter(shell_ungetc(g.s, g.c), FALSE)
      BY <1>4, <1>5, <2>1, <2>2, <2>7
    <2> QED  BY <2>2, <2>4, <2>5, <2>6, <2>7
  <1>10. CASE GotToken
    <2>1. PICK t \in Words : Return(t)  BY <1>10 DEF GotToken, Words
    <2>2. /\ UNCHANGED <<source, character, pass, token>>  BY <1>10 DEF GotToken, scanner
    <2>3. PICK w : Since(source, start, w) /\ w # <<>>  BY <1>1 DEF ReaderInv, Taking
    <2>4. Named(t, w)
      <3>1. w \in Seq(Class)  BY <2>3 DEF Since
      <3> QED  BY <2>3, <3>1, WordNamed
    <2>5. t \in Token  BY DEF Token
    <2>6. Since(source', start, w)  BY <2>2, <2>3
    <2>7. /\ character' \in Class \cup {EOF, None} /\ pass' \in BOOLEAN /\ token' \in Seq(Class)
      BY <2>2 DEF ReaderInv, TypeOK
    <2>8. Typed' /\ Taking(pc, source, start, character, current_token)'
      BY <1>1, <2>1, <2>4, <2>5, <2>6, <2>7, Returned
    <2> QED  BY <1>1, <2>2, <2>8, Remains
  <1> QED  BY <1>1, <1>6, <1>7, <1>8, <1>9, <1>10

LEMMA NextReader == ReaderInv /\ [Next]_vars => ReaderInv'
  BY YylexKeeps, BlankKeeps, CommentKeeps, MetaKeeps, WordKeeps, ParseKeeps, ParseAgainKeeps,
     StutterKeeps DEF Next

\* ReaderInv is inductive.
LEMMA Inductive == Spec => []ReaderInv
  <1>1. Init => ReaderInv  BY InitReader
  <1>2. ReaderInv /\ [Next]_vars => ReaderInv'  BY NextReader
  <1> QED  BY <1>1, <1>2, PTL DEF Spec

-----------------------------------------------------------------------------
(***************************************************************************)
(* What follows from it.                                                   *)
(***************************************************************************)

\* Every variable keeps its type, whatever the text: shell_input_line_index
\* never gets past the line (parser.y:2083, 2122).
THEOREM TypesKept == Spec => []TypeOK
  <1>1. ReaderInv => TypeOK  BY DEF ReaderInv
  <1> QED  BY <1>1, Inductive, PTL

\* shell_getc() and shell_ungetc() lose and repeat nothing: at any time the
\* characters handed out and those still to come are the text (parser.y:1933).
THEOREM TextKept == Spec => []NothingLost
  <1>1. ReaderInv => NothingLost
    <2> SUFFICES ASSUME ReaderInv PROVE NothingLost  OBVIOUS
    <2>1. source \in Source /\ source.lookahead \in {None, EOF}  BY DEF ReaderInv, SourceInv
    <2>2. source.lookahead \notin Class  BY <2>1 DEF None, EOF, Class
    <2> DEFINE p == source.taken
    <2> DEFINE r == Rest(source)
    <2> DEFINE d == Delivered(source.input)
    <2>3. p \in Seq(Class) /\ r \in Seq(Class) /\ d \in Seq(Class)  BY <2>1, SourceIs, RestOf
    <2>4. p \o (r \o d) = Delivered(text)  BY DEF ReaderInv, Whole
    <2>5. NothingLost = (((p \o <<>>) \o r) \o d = Delivered(text))
      BY <2>2 DEF NothingLost, Rest
    <2> HIDE DEF p, r, d
    <2>6. p \o <<>> = p  BY <2>3
    <2>7. (p \o r) \o d = p \o (r \o d)  BY ONLY <2>3, ConcatAssociative
    <2> QED  BY <2>4, <2>5, <2>6, <2>7
  <1> QED  BY <1>1, Inductive, PTL

\* A token takes blanks, and the characters it is written with, and no others,
\* however far read_token() has read ahead (parser.y:2600-2671).
THEOREM TokensSpelled == Spec => []TokenSpelled
  <1>1. ReaderInv => TokenSpelled
    <2> SUFFICES ASSUME ReaderInv, pc = "token" PROVE TokenSpelled  BY DEF TokenSpelled
    <2>1. PICK w : Since(source, start, w) /\ Named(current_token, w)  BY DEF ReaderInv, Taking
    <2>2. PICK p \in Seq(Class) : Len(p) = start /\ source.taken = p \o w  BY <2>1 DEF Since
    <2>3. PICK u, v : w = u \o v /\ Blanks(u) /\ v \in Seq(Class) /\ Spells(current_token, v)
      BY <2>1 DEF Named
    <2>4. w \in Seq(Class) /\ u \in Seq(Class)  BY <2>1, <2>3 DEF Since, Blanks
    <2>5. SubSeq(source.taken, start + 1, Len(source.taken)) = w  BY <2>2, <2>4, JoinSplit
    <2>6. /\ SubSeq(w, 1, Len(u)) = u /\ SubSeq(w, Len(u) + 1, Len(w)) = v
          /\ Len(u) \in 0..Len(w)
      BY <2>3, <2>4, JoinSplit
    <2>7. \E i \in 0..Len(w) : /\ ToSet(Unfolded(SubSeq(w, 1, i))) \subseteq {" "}
                               /\ Spells(current_token, SubSeq(w, i + 1, Len(w)))
      BY <2>3, <2>6 DEF Blanks
    <2> QED  BY <2>5, <2>7 DEF TokenSpelled
  <1> QED  BY <1>1, Inductive, PTL
=============================================================================
