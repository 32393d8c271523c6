---------------------------- MODULE ExprProofs ----------------------------
(***************************************************************************)
(* Theorems on the lists of expressions, for any number of expressions and *)
(* of compound commands in a line.                                         *)
(***************************************************************************)
EXTENDS Expr, SequenceTheorems, FiniteSetTheorems, WellFoundedInduction, TLAPS

-----------------------------------------------------------------------------
(***************************************************************************)
(* The inductive invariant.  A list is a path over next to a null pointer; *)
(* t is the field type of a heap.                                          *)
(***************************************************************************)

\* c is the list of e.
IsList(h, e, c) ==
    /\ c \in Seq(Expr) /\ c # <<>> /\ c[1] = e
    /\ \A i \in 1..Len(c) - 1 : h.next[c[i]] = c[i + 1]
    /\ h.next[c[Len(c)]] = Null
    /\ \A i, j \in 1..Len(c) : c[i] = c[j] => i = j

\* The flags of the expressions of c, in order.
Flags(h, c) == [i \in 1..Len(c) |-> h.type[c[i]]]

Paired(f) ==
    \A i \in 1..Len(f) :
        /\ "PIPE_INPUT" \in f[i] => i > 1 /\ "PIPE_OUTPUT" \in f[i - 1]
        /\ "PIPE_OUTPUT" \in f[i] => i < Len(f) /\ "PIPE_INPUT" \in f[i + 1]

Bracketed(f) ==
    \A i \in 1..Len(f) :
        /\ "CMD_START_BLOCK" \in f[i]
              => \E j \in 1..Len(f) : j >= i /\ "CMD_END_BLOCK" \in f[j]
        /\ "CMD_END_BLOCK" \in f[i]
              => \E j \in 1..Len(f) : j <= i /\ "CMD_START_BLOCK" \in f[j]
        /\ "CMD_ELSE" \in f[i] \/ ("CMD_ELSE_IF" \in f[i] /\ i # 1)
              => i > 1 /\ "CMD_END_BLOCK" \in f[i - 1]

\* How many scopes an expression with the flags x opens, and closes.
Opens(x)  == IF x \cap {"CMD_START_BLOCK", "CMD_FUNCTION"} = {} THEN 0 ELSE 1
Closes(x) == IF x \cap {"CMD_END_BLOCK", "CMD_END_FUNCTION"} = {} THEN 0 ELSE 1

\* s has the number of open scopes behind each expression.
Height(f, s) ==
    /\ s \in [0..Len(f) -> Nat] /\ s[0] = 0
    /\ \A i \in 1..Len(f) : s[i] = s[i - 1] + Opens(f[i]) - Closes(f[i])

Functionless(f) == \A i \in 1..Len(f) : "CMD_FUNCTION" \notin f[i]

\* The end of a function is behind its start, and without functions scopes nest.
Scoped(f) ==
    /\ \A i \in 1..Len(f) : "CMD_END_FUNCTION" \in f[i]
          => \E j \in 1..Len(f) : j <= i /\ "CMD_FUNCTION" \in f[j]
    /\ Functionless(f) => \E s \in [0..Len(f) -> Nat] : Height(f, s)

WellMade(f) == f \in Seq(SUBSET Flag) /\ f # <<>> /\ Paired(f) /\ Bracketed(f) /\ Scoped(f)

\* The first expression of a list has no part in a block: it begins no block
\* until the list becomes one.
Marked(f) ==
    WellMade(f) /\ f[1] \cap {"CMD_START_BLOCK", "CMD_END_BLOCK", "CMD_ELSE"} = {}

ListOf(i) == Chain(heap, stack[i].expr)

ListsInv ==
    /\ \A i \in DOMAIN stack :
          /\ IsList(heap, stack[i].expr, ListOf(i))
          /\ ToSet(ListOf(i)) \subseteq alive
          /\ Marked(Flags(heap, ListOf(i)))
          /\ "CMD_ELSE_IF" \in heap.type[stack[i].expr] => stack[i].sym = "elif_clause"
    /\ \A i, j \in DOMAIN stack :
          i # j => ToSet(ListOf(i)) \cap ToSet(ListOf(j)) = {}

\* Nothing is lost so far.
KeptInv ==
    phase = "yyparse" /\ ~cut => born = UNION {ToSet(ListOf(i)) : i \in DOMAIN stack}

EndInv ==
    /\ phase # "yyparse" => stack = <<>>
    /\ phase = "accepted" =>
          /\ command # Null /\ IsList(heap, command, Chain(heap, command))
          /\ Marked(Flags(heap, Chain(heap, command)))
          /\ ~cut => born = ToSet(Chain(heap, command))

ExprInv == TypeOK /\ ListsInv /\ KeptInv /\ EndInv

-----------------------------------------------------------------------------
(***************************************************************************)
(* Chain, the recursion along next.                                        *)
(***************************************************************************)

\* Induction, for a set in the place of a predicate.
LEMMA UpTo ==
    ASSUME NEW n \in Nat, NEW S \in SUBSET (0..n), 0 \in S,
           \A i \in 1..n : i - 1 \in S => i \in S
    PROVE  S = 0..n
  <1> DEFINE R == OpToRel(<, Nat)
  <1> DEFINE C == (0..n) \ S
  <1> SUFFICES ASSUME C # {} PROVE FALSE  OBVIOUS
  <1>1. C \subseteq Nat  OBVIOUS
  <1>2. \E i \in C : \A j \in C : <<j, i>> \notin R
    <2>1. IsWellFoundedOn(R, Nat)  BY NatLessThanWellFounded
    <2> HIDE DEF R, C
    <2> QED  BY <1>1, <2>1, WFMin
  <1>3. \A i, j \in Nat : <<j, i>> \notin R => i <= j  BY DEF OpToRel
  <1> HIDE DEF R
  <1>4. PICK i \in C : \A j \in C : i <= j  BY <1>1, <1>2, <1>3
  <1>5. i \in 1..n /\ i - 1 \in 0..n /\ i - 1 < i  BY <1>4
  <1>6. i - 1 \in S  BY <1>4, <1>5
  <1> QED  BY <1>4, <1>5, <1>6

\* What Chain computes, turn by turn.
Turns(h, e, w) ==
    [n \in Nat |->
        IF n = 0 THEN <<e>>
        ELSE LET before == w[n - 1]
                 after  == h.next[Last(before)]
             IN  IF after = Null \/ Contains(before, after)
                 THEN before ELSE Append(before, after)]

LEMMA ChainTurns ==
    ASSUME NEW h, NEW e, NEW v, v = Turns(h, e, v)
    PROVE  \E w : w = Turns(h, e, w) /\ Chain(h, e) = w[Cardinality(Expr)]
  <1> DEFINE w == CHOOSE w : w = Turns(h, e, w)
  <1>1. w = Turns(h, e, w)  OBVIOUS
  <1>2. Chain(h, e) = w[Cardinality(Expr)]  BY DEF Chain, Turns
  <1> QED  BY <1>1, <1>2

\* A list is no longer than there are expressions.
LEMMA ListShort ==
    ASSUME NEW h, NEW e, NEW c, IsList(h, e, c)
    PROVE  /\ Len(c) \in Nat /\ Len(c) >= 1 /\ Cardinality(Expr) \in Nat
           /\ Len(c) <= Cardinality(Expr)
  <1> DEFINE n == Len(c)
  <1>1. c \in Seq(Expr) /\ c # <<>>  BY DEF IsList
  <1>2. n \in Nat /\ n >= 1  BY <1>1
  <1>3. c \in Injection(1..n, Expr)
    <2>1. c \in [1..n -> Expr]  BY <1>1
    <2> QED  BY <2>1 DEF IsList, Injection, IsInjective
  <1>4. Cardinality(1..n) = n  BY <1>2, FS_Interval
  <1> HIDE DEF n
  <1>5. Cardinality(1..n) <= Cardinality(Expr)  BY <1>3, ExprAssumption, FS_Injection
  <1>6. Cardinality(Expr) \in Nat  BY ExprAssumption, FS_CardinalityType
  <1> QED  BY <1>2, <1>4, <1>5, <1>6 DEF n

LEMMA ChainIs ==
    ASSUME NEW h, NEW e, NEW c, IsList(h, e, c)
    PROVE  Chain(h, e) = c
  <1> DEFINE N == Cardinality(Expr)
  <1> DEFINE k == Len(c)
  <1> DEFINE some(i) == IF i < k THEN i + 1 ELSE k
  <1> DEFINE upto(i) == [j \in 1..some(i) |-> c[j]]
  <1> DEFINE v == [i \in Nat |-> upto(i)]
  <1>1. k \in Nat /\ k >= 1 /\ N \in Nat /\ k <= N  BY ListShort
  <1>2. /\ c \in Seq(Expr) /\ c[1] = e /\ h.next[c[k]] = Null
        /\ \A i \in 1..k : c[i] \in Expr
        /\ \A i \in 1..k - 1 : h.next[c[i]] = c[i + 1]
        /\ \A i, j \in 1..k : c[i] = c[j] => i = j
    BY DEF IsList
  <1> HIDE DEF k, N
  <1>3. ASSUME NEW i \in Nat
        PROVE  /\ some(i) \in 1..k
               /\ upto(i) \in Seq(Expr) /\ Len(upto(i)) = some(i)
               /\ \A j \in 1..some(i) : upto(i)[j] = c[j]
               /\ Last(upto(i)) = c[some(i)]
    <2>1. some(i) \in 1..k  BY <1>1
    <2> DEFINE m == some(i)
    <2> HIDE DEF m
    <2>2. \A j \in 1..m : c[j] \in Expr
      <3>1. m \in 1..k  BY <2>1 DEF m
      <3>2. 1..m \subseteq 1..k  BY <1>1, <3>1
      <3> QED  BY <1>2, <3>2
    <2>3. [j \in 1..m |-> c[j]] \in Seq(Expr) /\ Len([j \in 1..m |-> c[j]]) = m
      BY <1>1, <2>1, <2>2 DEF m
    <2>4. Last([j \in 1..m |-> c[j]]) = c[m]  BY <1>1, <2>1, <2>3 DEF Last, m
    <2> QED  BY <2>1, <2>3, <2>4 DEF m
  <1>4. ASSUME NEW i \in Nat, i # 0
        PROVE  upto(i) = LET before == upto(i - 1)
                             after  == h.next[Last(before)]
                         IN  IF after = Null \/ Contains(before, after)
                             THEN before ELSE Append(before, after)
    <2> DEFINE m == some(i - 1)
    <2> DEFINE s == upto(i - 1)
    <2>0. i - 1 \in Nat  BY <1>4
    <2>1. /\ m \in 1..k /\ s \in Seq(Expr) /\ Len(s) = m /\ Last(s) = c[m]
          /\ \A j \in 1..m : s[j] = c[j]
      BY <1>3, <2>0
    <2>2. CASE i < k
      <3>1. m = i /\ some(i) = i + 1 /\ m \in 1..k - 1 /\ m + 1 \in 1..k  BY <1>1, <1>4, <2>2
      <3>2. h.next[Last(s)] = c[m + 1] /\ c[m + 1] \in Expr  BY <1>2, <2>1, <3>1
      <3>3. ~Contains(s, c[m + 1])
        <4> HIDE DEF s, m
        <4>1. \A j \in 1..m : j \in 1..k /\ j # m + 1  BY <1>1, <3>1
        <4> QED  BY <1>2, <2>1, <3>1, <4>1 DEF Contains
      <3>4. upto(i) = Append(s, c[m + 1])
        <4>1. upto(i) \in Seq(Expr) /\ Len(upto(i)) = m + 1 /\ \A j \in 1..m + 1 : upto(i)[j] = c[j]
          BY <1>3, <3>1
        <4> DEFINE u == upto(i)
        <4> HIDE DEF s, m, u
        <4>2. Append(s, c[m + 1]) \in Seq(Expr) /\ Len(Append(s, c[m + 1])) = m + 1
          BY <2>1, <3>2
        <4>3. \A j \in 1..m + 1 : Append(s, c[m + 1])[j] = c[j]  BY <2>1, <3>2
        <4>4. u \in Seq(Expr) /\ Len(u) = m + 1 /\ \A j \in 1..m + 1 : u[j] = c[j]  BY <4>1 DEF u
        <4>5. u = Append(s, c[m + 1])  BY <4>2, <4>3, <4>4, SeqEqual
        <4> QED  BY <4>5 DEF u
      <3>5. c[m + 1] # Null  BY <3>2, ExprAssumption
      <3> HIDE DEF s, m, upto
      <3> QED  BY <3>2, <3>3, <3>4, <3>5 DEF s
    <2>3. CASE i >= k
      <3>1. m = k /\ some(i) = k  BY <1>1, <1>4, <2>3
      <3>2. h.next[Last(s)] = Null  BY <1>2, <2>1, <3>1
      <3>3. upto(i) = s  BY <3>1
      <3> HIDE DEF s, m, upto
      <3> QED  BY <3>2, <3>3 DEF s
    <2>4. i < k \/ i >= k  BY <1>1
    <2> QED  BY <2>2, <2>3, <2>4
  <1>5. upto(0) = <<e>>
    <2>1. some(0) = 1  BY <1>1
    <2>2. upto(0) = [j \in 1..1 |-> c[j]]  BY <2>1
    <2> QED  BY <1>2, <2>2
  <1>6. v = Turns(h, e, v)
    <2>1. \A i \in Nat : i # 0 => i - 1 \in Nat /\ v[i - 1] = upto(i - 1)  OBVIOUS
    <2>2. \A i \in Nat : v[i] = upto(i)  OBVIOUS
    <2>3. ASSUME NEW i \in Nat PROVE upto(i) = Turns(h, e, v)[i]
      <3>1. CASE i = 0  BY <1>5, <3>1 DEF Turns
      <3>2. CASE i # 0
        <4>1. v[i - 1] = upto(i - 1)  BY <2>1, <3>2
        <4> HIDE DEF upto, v
        <4> QED  BY <4>1, <3>2, <1>4 DEF Turns
      <3> QED  BY <3>1, <3>2
    <2>4. v = [i \in Nat |-> Turns(h, e, v)[i]]
      <3> HIDE DEF upto
      <3> QED  BY <2>3
    <2> QED  BY <2>4 DEF Turns
  <1>7. PICK w : w = Turns(h, e, w) /\ Chain(h, e) = w[N]  BY <1>6, ChainTurns DEF N
  <1>8. {i \in 0..N : w[i] = upto(i)} = 0..N
    <2> DEFINE S == {i \in 0..N : w[i] = upto(i)}
    <2>1. 0 \in S
      <3>1. w[0] = <<e>> /\ 0 \in 0..N  BY <1>1, <1>7 DEF Turns
      <3> QED  BY <1>5, <3>1
    <2>2. ASSUME NEW i \in 1..N, i - 1 \in S PROVE i \in S
      <3> HIDE DEF upto
      <3>1. w[i - 1] = upto(i - 1) /\ i \in 0..N /\ i # 0 /\ i \in Nat  BY <1>1, <2>2
      <3>2. w[i] = upto(i)  BY <1>4, <1>7, <3>1 DEF Turns
      <3> QED  BY <3>1, <3>2
    <2>3. S \in SUBSET (0..N)  OBVIOUS
    <2> HIDE DEF S
    <2>4. S = 0..N  BY <1>1, <2>1, <2>2, <2>3, UpTo
    <2> QED  BY <2>4 DEF S
  <1>9. w[N] = upto(N)
    <2> HIDE DEF upto
    <2> QED  BY <1>1, <1>8
  <1>10. upto(N) = c
    <2>1. some(N) = k  BY <1>1
    <2>2. upto(N) = [j \in 1..k |-> c[j]]  BY <2>1
    <2>3. c = [j \in 1..k |-> c[j]]  BY <1>2 DEF k
    <2> QED  BY <2>2, <2>3
  <1> QED  BY <1>7, <1>9, <1>10

-----------------------------------------------------------------------------
(***************************************************************************)
(* How the marks of a list change.                                         *)
(***************************************************************************)

\* The flags F are set in the i-th expression.
With(f, i, F) == [f EXCEPT ![i] = @ \cup F]

\* The list becomes a block, and the body of a function.
Block(f)    == With(With(f, 1, {"CMD_START_BLOCK"}), Len(f), {"CMD_END_BLOCK"})
Function(f) == With(With(f, 1, {"CMD_FUNCTION"}), Len(f), {"CMD_END_FUNCTION"})

\* The flags that the marks of a list are about, CMD_ELSE_IF apart.
Special == {"CMD_START_BLOCK", "CMD_END_BLOCK", "CMD_ELSE", "CMD_FUNCTION",
            "CMD_END_FUNCTION", "PIPE_INPUT", "PIPE_OUTPUT"}

LEMMA WithIs ==
    ASSUME NEW f \in Seq(SUBSET Flag), NEW i \in 1..Len(f), NEW F \in SUBSET Flag
    PROVE  /\ With(f, i, F) \in Seq(SUBSET Flag) /\ Len(With(f, i, F)) = Len(f)
           /\ With(f, i, F)[i] = f[i] \cup F
           /\ \A j \in 1..Len(f) : j # i => With(f, i, F)[j] = f[j]
  <1>1. f[i] \cup F \in SUBSET Flag  OBVIOUS
  <1>2. With(f, i, F) = [f EXCEPT ![i] = f[i] \cup F]  BY DEF With
  <1> QED  BY <1>1, <1>2, ExceptSeq

LEMMA BlockIs ==
    ASSUME NEW f \in Seq(SUBSET Flag), f # <<>>
    PROVE  /\ Block(f) \in Seq(SUBSET Flag) /\ Len(Block(f)) = Len(f)
           /\ Len(f) \in Nat /\ Len(f) >= 1
           /\ \A i \in 1..Len(f) : Block(f)[i] = f[i]
                    \cup (IF i = 1 THEN {"CMD_START_BLOCK"} ELSE {})
                    \cup (IF i = Len(f) THEN {"CMD_END_BLOCK"} ELSE {})
  <1> DEFINE g == With(f, 1, {"CMD_START_BLOCK"})
  <1> DEFINE n == Len(f)
  <1>1. n \in Nat /\ n >= 1 /\ 1 \in 1..n /\ n \in 1..n  OBVIOUS
  <1>2. {"CMD_START_BLOCK"} \in SUBSET Flag /\ {"CMD_END_BLOCK"} \in SUBSET Flag  BY DEF Flag
  <1>3. /\ g \in Seq(SUBSET Flag) /\ Len(g) = n /\ g[1] = f[1] \cup {"CMD_START_BLOCK"}
        /\ \A j \in 1..n : j # 1 => g[j] = f[j]
    BY <1>1, <1>2, WithIs
  <1> HIDE DEF g
  <1>4. /\ With(g, n, {"CMD_END_BLOCK"}) \in Seq(SUBSET Flag)
        /\ Len(With(g, n, {"CMD_END_BLOCK"})) = n
        /\ With(g, n, {"CMD_END_BLOCK"})[n] = g[n] \cup {"CMD_END_BLOCK"}
        /\ \A j \in 1..n : j # n => With(g, n, {"CMD_END_BLOCK"})[j] = g[j]
    <2> HIDE DEF n
    <2> QED  BY <1>1, <1>2, <1>3, WithIs
  <1>5. Block(f) = With(g, n, {"CMD_END_BLOCK"})  BY DEF Block, g
  <1> HIDE DEF n
  <1> QED  BY <1>1, <1>3, <1>4, <1>5 DEF n

LEMMA FunctionIs ==
    ASSUME NEW f \in Seq(SUBSET Flag), f # <<>>
    PROVE  /\ Function(f) \in Seq(SUBSET Flag) /\ Len(Function(f)) = Len(f)
           /\ Len(f) \in Nat /\ Len(f) >= 1
           /\ \A i \in 1..Len(f) : Function(f)[i] = f[i]
                    \cup (IF i = 1 THEN {"CMD_FUNCTION"} ELSE {})
                    \cup (IF i = Len(f) THEN {"CMD_END_FUNCTION"} ELSE {})
  <1> DEFINE g == With(f, 1, {"CMD_FUNCTION"})
  <1> DEFINE n == Len(f)
  <1>1. n \in Nat /\ n >= 1 /\ 1 \in 1..n /\ n \in 1..n  OBVIOUS
  <1>2. {"CMD_FUNCTION"} \in SUBSET Flag /\ {"CMD_END_FUNCTION"} \in SUBSET Flag  BY DEF Flag
  <1>3. /\ g \in Seq(SUBSET Flag) /\ Len(g) = n /\ g[1] = f[1] \cup {"CMD_FUNCTION"}
        /\ \A j \in 1..n : j # 1 => g[j] = f[j]
    BY <1>1, <1>2, WithIs
  <1> HIDE DEF g
  <1>4. /\ With(g, n, {"CMD_END_FUNCTION"}) \in Seq(SUBSET Flag)
        /\ Len(With(g, n, {"CMD_END_FUNCTION"})) = n
        /\ With(g, n, {"CMD_END_FUNCTION"})[n] = g[n] \cup {"CMD_END_FUNCTION"}
        /\ \A j \in 1..n : j # n => With(g, n, {"CMD_END_FUNCTION"})[j] = g[j]
    <2> HIDE DEF n
    <2> QED  BY <1>1, <1>2, <1>3, WithIs
  <1>5. Function(f) = With(g, n, {"CMD_END_FUNCTION"})  BY DEF Function, g
  <1> HIDE DEF n
  <1> QED  BY <1>1, <1>3, <1>4, <1>5 DEF n

\* Other flags of the first expression do not matter.
LEMMA NeutralFlags ==
    ASSUME NEW f, Marked(f), NEW F \in SUBSET Flag, F \cap Special = {}
    PROVE  Marked(With(f, 1, F))
  <1> DEFINE g == With(f, 1, F)
  <1>1. f \in Seq(SUBSET Flag) /\ f # <<>> /\ Paired(f) /\ Bracketed(f) /\ Scoped(f)
    BY DEF Marked, WellMade
  <1>2. Len(f) \in Nat /\ 1 \in 1..Len(f)  BY <1>1
  <1>3. /\ g \in Seq(SUBSET Flag) /\ Len(g) = Len(f)
        /\ g[1] = f[1] \cup F /\ \A j \in 1..Len(f) : j # 1 => g[j] = f[j]
    BY <1>1, <1>2, WithIs
  <1> HIDE DEF g
  <1>4. \A j \in 1..Len(f) : \A x \in Special : x \in g[j] <=> x \in f[j]  BY <1>2, <1>3
  <1>5. \A j \in 1..Len(f) : "CMD_ELSE_IF" \in g[j] /\ j # 1 => "CMD_ELSE_IF" \in f[j]
    BY <1>3
  <1>6. Paired(g)
    <2>1. \A i \in 1..Len(f) : i > 1 => i - 1 \in 1..Len(f)  BY <1>2
    <2>2. \A i \in 1..Len(f) : i < Len(f) => i + 1 \in 1..Len(f)  BY <1>2
    <2> QED  BY <1>1, <1>3, <1>4, <2>1, <2>2 DEF Paired, Special
  <1>7. Bracketed(g)
    <2>1. \A i \in 1..Len(f) : i > 1 => i - 1 \in 1..Len(f)  BY <1>2
    <2> QED  BY <1>1, <1>3, <1>4, <1>5, <2>1 DEF Bracketed, Special
  <1>8. Scoped(g)
    <2>1. \A i \in 1..Len(f) : Opens(g[i]) = Opens(f[i]) /\ Closes(g[i]) = Closes(f[i])
      BY <1>4 DEF Opens, Closes, Special
    <2>2. \A s : Height(f, s) => Height(g, s)  BY <1>3, <2>1 DEF Height
    <2>3. Functionless(g) => Functionless(f)  BY <1>3, <1>4 DEF Functionless, Special
    <2>4. Functionless(g) => \E s \in [0..Len(g) -> Nat] : Height(g, s)
      BY <1>1, <1>3, <2>2, <2>3 DEF Scoped
    <2> QED  BY <1>1, <1>3, <1>4, <2>4 DEF Scoped, Special
  <1>9. g[1] \cap {"CMD_START_BLOCK", "CMD_END_BLOCK", "CMD_ELSE"} = {}
    BY <1>2, <1>4 DEF Marked, Special
  <1>10. g # <<>>  BY <1>2, <1>3
  <1> QED  BY <1>3, <1>6, <1>7, <1>8, <1>9, <1>10 DEF Marked, WellMade, g

\* A list becomes a block.
LEMMA BlockMarks ==
    ASSUME NEW f, Marked(f)
    PROVE  WellMade(Block(f)) /\ "CMD_END_BLOCK" \in Block(f)[Len(f)]
           /\ ("CMD_ELSE_IF" \in Block(f)[1] => "CMD_ELSE_IF" \in f[1])
  <1> DEFINE g == Block(f)
  <1> DEFINE n == Len(f)
  <1>1. f \in Seq(SUBSET Flag) /\ f # <<>> /\ Paired(f) /\ Bracketed(f) /\ Scoped(f)
    BY DEF Marked, WellMade
  <1>2. /\ g \in Seq(SUBSET Flag) /\ Len(g) = n /\ n \in Nat /\ n >= 1
        /\ \A i \in 1..n : g[i] = f[i] \cup (IF i = 1 THEN {"CMD_START_BLOCK"} ELSE {})
                                       \cup (IF i = n THEN {"CMD_END_BLOCK"} ELSE {})
    BY <1>1, BlockIs
  <1>3. f[1] \cap {"CMD_START_BLOCK", "CMD_END_BLOCK", "CMD_ELSE"} = {}
    BY DEF Marked
  <1> HIDE DEF g
  <1>4. \A i \in 1..n : \A x \in Special \ {"CMD_START_BLOCK", "CMD_END_BLOCK"} :
            x \in g[i] <=> x \in f[i]
    BY <1>2
  <1>5. \A i \in 1..n : "CMD_ELSE_IF" \in g[i] => "CMD_ELSE_IF" \in f[i]  BY <1>2
  <1>6. 1 \in 1..n /\ n \in 1..n  BY <1>2
  <1>7. "CMD_START_BLOCK" \in g[1] /\ "CMD_END_BLOCK" \in g[n]  BY <1>2, <1>6
  <1>8. \A i \in 1..n : "CMD_END_BLOCK" \in f[i] => "CMD_END_BLOCK" \in g[i]  BY <1>2
  <1>9. \A i \in 1..n : i > 1 => i - 1 \in 1..n  BY <1>2
  <1>10. \A i \in 1..n : i < n => i + 1 \in 1..n  BY <1>2
  <1>11. Paired(g)
    <2> HIDE DEF n
    <2> QED  BY <1>1, <1>2, <1>4, <1>9, <1>10 DEF Paired, Special, n
  <1>12. Bracketed(g)
    <2>1. \A i \in 1..n : i <= n /\ i >= 1  BY <1>2
    <2>2. ASSUME NEW i \in 1..n, "CMD_ELSE" \in g[i] \/ ("CMD_ELSE_IF" \in g[i] /\ i # 1)
          PROVE  i > 1 /\ "CMD_END_BLOCK" \in g[i - 1]
      <3>1. "CMD_ELSE" \in f[i] \/ ("CMD_ELSE_IF" \in f[i] /\ i # 1)
        BY <1>4, <1>5, <2>2 DEF Special
      <3>2. i > 1 /\ "CMD_END_BLOCK" \in f[i - 1]  BY <1>1, <3>1 DEF Bracketed
      <3> QED  BY <1>8, <1>9, <3>2
    <2> HIDE DEF n
    <2> QED  BY <1>2, <1>6, <1>7, <2>1, <2>2 DEF Bracketed
  <1>13. Scoped(g)
    <2>1. \A i \in 1..n : "CMD_END_FUNCTION" \in g[i]
                => \E j \in 1..n : j <= i /\ "CMD_FUNCTION" \in g[j]
      BY <1>1, <1>4 DEF Scoped, Special
    <2>2. ASSUME Functionless(g) PROVE \E s \in [0..n -> Nat] : Height(g, s)
      <3>1. \A i \in 1..n : "CMD_FUNCTION" \notin f[i]
        BY <1>2, <1>4, <2>2 DEF Functionless, Special
      <3>2. \A i \in 1..n : "CMD_END_FUNCTION" \notin f[i]  BY <1>1, <3>1 DEF Scoped
      <3>3. PICK s \in [0..n -> Nat] : Height(f, s)  BY <1>1, <3>1 DEF Scoped, Functionless
      <3> DEFINE u == [i \in 0..n |-> IF i = 0 THEN 0
                                      ELSE IF i < n THEN s[i] + 1
                                      ELSE s[n] + Closes(f[n])]
      <3> HIDE DEF n
      <3>4. \A i \in 1..n : Opens(f[i]) \in {0, 1} /\ Closes(f[i]) \in {0, 1}  BY DEF Opens, Closes
      <3>5. u \in [0..n -> Nat]  BY <1>2, <1>6, <3>4
      <3>6. ASSUME NEW i \in 1..n PROVE u[i] = u[i - 1] + Opens(g[i]) - Closes(g[i])
        <4>1. s[i] = s[i - 1] + Opens(f[i]) - Closes(f[i]) /\ s[0] = 0  BY <3>3 DEF Height, n
        <4>2. i - 1 \in 0..n /\ s[i] \in Nat /\ s[i - 1] \in Nat  BY <1>2
        <4>3. Opens(f[1]) = 0 /\ Closes(f[1]) = 0
          BY <1>3, <1>6, <3>1, <3>2 DEF Opens, Closes
        <4>4. Opens(g[i]) = IF i = 1 THEN 1 ELSE Opens(f[i])
          <5>1. i # 1 => (g[i] \cap {"CMD_START_BLOCK", "CMD_FUNCTION"}
                          = f[i] \cap {"CMD_START_BLOCK", "CMD_FUNCTION"})  BY <1>2
          <5> QED  BY <1>7, <5>1 DEF Opens
        <4>5. Closes(g[i]) = IF i = n THEN 1 ELSE Closes(f[i])
          <5>1. i # n => (g[i] \cap {"CMD_END_BLOCK", "CMD_END_FUNCTION"}
                          = f[i] \cap {"CMD_END_BLOCK", "CMD_END_FUNCTION"})  BY <1>2
          <5> QED  BY <1>7, <5>1 DEF Closes
        <4>6. Opens(f[i]) \in {0, 1} /\ Closes(f[i]) \in {0, 1}  BY <3>4
        <4>7. CASE i = 1 /\ n = 1  BY <4>1, <4>2, <4>3, <4>4, <4>5, <4>7
        <4>8. CASE i = 1 /\ n # 1  BY <1>2, <4>1, <4>2, <4>3, <4>4, <4>5, <4>8
        <4>9. CASE i # 1 /\ i < n  BY <1>2, <4>1, <4>2, <4>4, <4>5, <4>6, <4>9
        <4>10. CASE i # 1 /\ i = n  BY <1>2, <4>1, <4>2, <4>4, <4>5, <4>6, <4>10
        <4> QED  BY <1>2, <4>7, <4>8, <4>9, <4>10
      <3>7. u[0] = 0  BY <1>2
      <3> HIDE DEF u
      <3>8. Height(g, u)  BY <1>2, <3>5, <3>6, <3>7 DEF Height
      <3> QED  BY <3>5, <3>8
    <2> HIDE DEF n
    <2> QED  BY <1>2, <2>1, <2>2 DEF Scoped
  <1>14. g # <<>>  BY <1>2
  <1> QED  BY <1>2, <1>5, <1>6, <1>7, <1>11, <1>12, <1>13, <1>14 DEF WellMade, g

\* One list behind the other.
LEMMA JoinIs ==
    ASSUME NEW S, NEW f \in Seq(S), NEW g \in Seq(S), f # <<>>, g # <<>>
    PROVE  /\ f \o g \in Seq(S) /\ Len(f \o g) = Len(f) + Len(g) /\ f \o g # <<>>
           /\ Len(f) \in Nat /\ Len(g) \in Nat /\ Len(f) >= 1 /\ Len(g) >= 1
           /\ \A i \in 1..Len(f) : (f \o g)[i] = f[i] /\ i \in 1..Len(f) + Len(g)
           /\ \A i \in 1..Len(f) + Len(g) :
                 i > Len(f) => i - Len(f) \in 1..Len(g) /\ (f \o g)[i] = g[i - Len(f)]
           /\ \A i \in 1..Len(g) :
                 i + Len(f) \in 1..Len(f) + Len(g) /\ (f \o g)[i + Len(f)] = g[i]
  <1>1. Len(f) \in Nat /\ Len(g) \in Nat /\ Len(f) >= 1 /\ Len(g) >= 1  OBVIOUS
  <1>2. f \o g \in Seq(S) /\ Len(f \o g) = Len(f) + Len(g)  OBVIOUS
  <1>3. \A i \in 1..Len(f) + Len(g) : (f \o g)[i] = IF i <= Len(f) THEN f[i] ELSE g[i - Len(f)]
    BY ConcatProperties
  <1> DEFINE m == Len(f)
  <1> DEFINE n == Len(g)
  <1> DEFINE k == f \o g
  <1>4. k # <<>>  BY <1>1, <1>2
  <1> HIDE DEF m, n, k
  <1>5. \A i \in 1..m : k[i] = f[i] /\ i \in 1..m + n  BY <1>1, <1>3 DEF m, n, k
  <1>6. \A i \in 1..m + n : i > m => i - m \in 1..n /\ k[i] = g[i - m]
    BY <1>1, <1>3 DEF m, n, k
  <1>7. \A i \in 1..n : i + m \in 1..m + n /\ k[i + m] = g[i]
    <2>1. \A i \in 1..n : i + m \in 1..m + n /\ i + m > m /\ (i + m) - m = i
      BY <1>1 DEF m, n
    <2> QED  BY <1>6, <2>1
  <1> QED  BY <1>1, <1>2, <1>4, <1>5, <1>6, <1>7 DEF m, n, k

LEMMA JoinMarks ==
    ASSUME NEW f, NEW g, WellMade(f), WellMade(g),
           "CMD_ELSE_IF" \in g[1] => "CMD_END_BLOCK" \in f[Len(f)]
    PROVE  WellMade(f \o g) /\ (f \o g)[1] = f[1]
  <1> DEFINE m == Len(f)
  <1> DEFINE n == Len(g)
  <1> DEFINE k == f \o g
  <1>1. /\ f \in Seq(SUBSET Flag) /\ f # <<>> /\ Paired(f) /\ Bracketed(f) /\ Scoped(f)
        /\ g \in Seq(SUBSET Flag) /\ g # <<>> /\ Paired(g) /\ Bracketed(g) /\ Scoped(g)
    BY DEF WellMade
  <1>2. /\ k \in Seq(SUBSET Flag) /\ Len(k) = m + n /\ k # <<>>
        /\ m \in Nat /\ n \in Nat /\ m >= 1 /\ n >= 1
        /\ \A i \in 1..m : k[i] = f[i] /\ i \in 1..m + n
        /\ \A i \in 1..m + n : i > m => i - m \in 1..n /\ k[i] = g[i - m]
        /\ \A i \in 1..n : i + m \in 1..m + n /\ k[i + m] = g[i]
    BY <1>1, JoinIs
  <1>3. "CMD_ELSE_IF" \in g[1] => "CMD_END_BLOCK" \in f[m]  OBVIOUS
  <1> HIDE DEF m, n, k
  <1>4. \A i \in 1..m + n : i \in 1..m \/ i > m  BY <1>2
  <1>5. Paired(k)
    <2>1. ASSUME NEW i \in 1..m
          PROVE  /\ "PIPE_INPUT" \in f[i] => i > 1 /\ "PIPE_OUTPUT" \in f[i - 1]
                 /\ "PIPE_OUTPUT" \in f[i] => i < m /\ "PIPE_INPUT" \in f[i + 1]
      BY <1>1 DEF Paired, m
    <2>2. ASSUME NEW i \in 1..n
          PROVE  /\ "PIPE_INPUT" \in g[i] => i > 1 /\ "PIPE_OUTPUT" \in g[i - 1]
                 /\ "PIPE_OUTPUT" \in g[i] => i < n /\ "PIPE_INPUT" \in g[i + 1]
      BY <1>1 DEF Paired, n
    <2>3. ASSUME NEW i \in 1..m + n
          PROVE  /\ "PIPE_INPUT" \in k[i] => i > 1 /\ "PIPE_OUTPUT" \in k[i - 1]
                 /\ "PIPE_OUTPUT" \in k[i] => i < m + n /\ "PIPE_INPUT" \in k[i + 1]
      <3>1. CASE i \in 1..m
        <4>1. k[i] = f[i]  BY <1>2, <3>1
        <4>2. i > 1 => k[i - 1] = f[i - 1]  BY <1>2, <3>1
        <4>3. i < m => k[i + 1] = f[i + 1] /\ i < m + n  BY <1>2, <3>1
        <4> QED  BY <2>1, <3>1, <4>1, <4>2, <4>3
      <3>2. CASE i > m
        <4> DEFINE j == i - m
        <4>1. j \in 1..n /\ k[i] = g[j]  BY <1>2, <3>2
        <4>2. j > 1 => k[i - 1] = g[j - 1] /\ i > 1
          <5>1. j > 1 => j - 1 \in 1..n /\ (j - 1) + m = i - 1 /\ i > 1  BY <1>2, <4>1
          <5> QED  BY <1>2, <5>1
        <4>3. j < n => k[i + 1] = g[j + 1] /\ i < m + n
          <5>1. j < n => j + 1 \in 1..n /\ (j + 1) + m = i + 1 /\ i < m + n  BY <1>2, <4>1
          <5> QED  BY <1>2, <5>1
        <4> HIDE DEF j
        <4> QED  BY <2>2, <4>1, <4>2, <4>3
      <3> QED  BY <1>4, <3>1, <3>2
    <2> QED  BY <1>2, <2>3 DEF Paired
  <1>6. Bracketed(k)
    <2>1. ASSUME NEW i \in 1..m
          PROVE  /\ "CMD_START_BLOCK" \in f[i]
                       => \E j \in 1..m : j >= i /\ "CMD_END_BLOCK" \in f[j]
                 /\ "CMD_END_BLOCK" \in f[i]
                       => \E j \in 1..m : j <= i /\ "CMD_START_BLOCK" \in f[j]
                 /\ "CMD_ELSE" \in f[i] \/ ("CMD_ELSE_IF" \in f[i] /\ i # 1)
                       => i > 1 /\ "CMD_END_BLOCK" \in f[i - 1]
      BY <1>1 DEF Bracketed, m
    <2>2. ASSUME NEW i \in 1..n
          PROVE  /\ "CMD_START_BLOCK" \in g[i]
                       => \E j \in 1..n : j >= i /\ "CMD_END_BLOCK" \in g[j]
                 /\ "CMD_END_BLOCK" \in g[i]
                       => \E j \in 1..n : j <= i /\ "CMD_START_BLOCK" \in g[j]
                 /\ "CMD_ELSE" \in g[i] \/ ("CMD_ELSE_IF" \in g[i] /\ i # 1)
                       => i > 1 /\ "CMD_END_BLOCK" \in g[i - 1]
      BY <1>1 DEF Bracketed, n
    <2>3. ASSUME NEW i \in 1..m + n
          PROVE  /\ "CMD_START_BLOCK" \in k[i]
                       => \E j \in 1..m + n : j >= i /\ "CMD_END_BLOCK" \in k[j]
                 /\ "CMD_END_BLOCK" \in k[i]
                       => \E j \in 1..m + n : j <= i /\ "CMD_START_BLOCK" \in k[j]
                 /\ "CMD_ELSE" \in k[i] \/ ("CMD_ELSE_IF" \in k[i] /\ i # 1)
                       => i > 1 /\ "CMD_END_BLOCK" \in k[i - 1]
      <3>1. CASE i \in 1..m
        <4>1. k[i] = f[i]  BY <1>2, <3>1
        <4>2. i > 1 => k[i - 1] = f[i - 1]  BY <1>2, <3>1
        <4>3. \A j \in 1..m : j \in 1..m + n /\ k[j] = f[j]  BY <1>2
        <4> QED  BY <2>1, <3>1, <4>1, <4>2, <4>3
      <3>2. CASE i > m
        <4> DEFINE j == i - m
        <4>1. j \in 1..n /\ k[i] = g[j] /\ i = j + m  BY <1>2, <3>2
        <4>2. j > 1 => k[i - 1] = g[j - 1] /\ i > 1
          <5>1. j > 1 => j - 1 \in 1..n /\ (j - 1) + m = i - 1 /\ i > 1  BY <1>2, <4>1
          <5> QED  BY <1>2, <5>1
        <4>3. j = 1 => k[i - 1] = f[m] /\ i > 1
          <5>1. j = 1 => i - 1 = m /\ i > 1 /\ m \in 1..m  BY <1>2, <4>1
          <5> QED  BY <1>2, <5>1
        <4>4. \A l \in 1..n : l + m \in 1..m + n /\ k[l + m] = g[l]
                              /\ (l >= j => l + m >= i) /\ (l <= j => l + m <= i)
          BY <1>2, <4>1
        <4>5. j = 1 \/ j > 1  BY <1>2, <4>1
        <4> HIDE DEF j
        <4>6. "CMD_START_BLOCK" \in k[i] => \E l \in 1..m + n : l >= i /\ "CMD_END_BLOCK" \in k[l]
          BY <2>2, <4>1, <4>4
        <4>7. "CMD_END_BLOCK" \in k[i] => \E l \in 1..m + n : l <= i /\ "CMD_START_BLOCK" \in k[l]
          BY <2>2, <4>1, <4>4
        <4>8. ASSUME "CMD_ELSE" \in k[i] \/ ("CMD_ELSE_IF" \in k[i] /\ i # 1)
              PROVE  i > 1 /\ "CMD_END_BLOCK" \in k[i - 1]
          <5>1. CASE j > 1  BY <2>2, <4>1, <4>2, <4>8, <5>1
          <5>2. CASE j = 1  BY <1>3, <2>2, <4>1, <4>3, <4>8, <5>2
          <5> QED  BY <4>5, <5>1, <5>2
        <4> QED  BY <4>6, <4>7, <4>8
      <3> QED  BY <1>4, <3>1, <3>2
    <2> QED  BY <1>2, <2>3 DEF Bracketed
  <1>7. Scoped(k)
    <2>1. ASSUME NEW i \in 1..m + n, "CMD_END_FUNCTION" \in k[i]
          PROVE  \E j \in 1..m + n : j <= i /\ "CMD_FUNCTION" \in k[j]
      <3>1. CASE i \in 1..m
        <4>1. \E j \in 1..m : j <= i /\ "CMD_FUNCTION" \in f[j]
          BY <1>1, <1>2, <2>1, <3>1 DEF Scoped, m
        <4> QED  BY <1>2, <4>1
      <3>2. CASE i > m
        <4>1. i - m \in 1..n /\ "CMD_END_FUNCTION" \in g[i - m]  BY <1>2, <2>1, <3>2
        <4>2. PICK j \in 1..n : j <= i - m /\ "CMD_FUNCTION" \in g[j]
          BY <1>1, <4>1 DEF Scoped, n
        <4>3. j + m \in 1..m + n /\ j + m <= i /\ "CMD_FUNCTION" \in k[j + m]  BY <1>2, <4>2
        <4> QED  BY <4>3
      <3> QED  BY <1>4, <3>1, <3>2
    <2>2. ASSUME Functionless(k) PROVE \E s \in [0..m + n -> Nat] : Height(k, s)
      <3>1. \A i \in 1..m : "CMD_FUNCTION" \notin f[i]  BY <1>2, <2>2 DEF Functionless
      <3>2. \A i \in 1..n : "CMD_FUNCTION" \notin g[i]
        <4>1. \A i \in 1..n : i + m \in 1..m + n /\ k[i + m] = g[i]  BY <1>2
        <4> QED  BY <1>2, <2>2, <4>1 DEF Functionless
      <3>3. PICK p \in [0..m -> Nat] : Height(f, p)  BY <1>1, <3>1 DEF Scoped, Functionless, m
      <3>4. PICK q \in [0..n -> Nat] : Height(g, q)  BY <1>1, <3>2 DEF Scoped, Functionless, n
      <3>5. /\ p[0] = 0 /\ \A i \in 1..m : p[i] = p[i - 1] + Opens(f[i]) - Closes(f[i])
            /\ q[0] = 0 /\ \A i \in 1..n : q[i] = q[i - 1] + Opens(g[i]) - Closes(g[i])
        BY <3>3, <3>4 DEF Height, m, n
      <3> DEFINE u == [i \in 0..m + n |-> IF i <= m THEN p[i] ELSE p[m] + q[i - m]]
      <3>6. u \in [0..m + n -> Nat]
        <4>1. \A i \in 0..m + n : i <= m => i \in 0..m  BY <1>2
        <4>2. \A i \in 0..m + n : ~(i <= m) => i - m \in 0..n  BY <1>2
        <4>3. m \in 0..m  BY <1>2
        <4> QED  BY <4>1, <4>2, <4>3
      <3>7. u[0] = 0  BY <1>2, <3>5
      <3>8. ASSUME NEW i \in 1..m + n PROVE u[i] = u[i - 1] + Opens(k[i]) - Closes(k[i])
        <4>1. i - 1 \in 0..m + n /\ i \in 0..m + n  BY <1>2
        <4>2. CASE i \in 1..m
          <5>1. u[i] = p[i] /\ u[i - 1] = p[i - 1] /\ k[i] = f[i]  BY <1>2, <4>1, <4>2
          <5> QED  BY <3>5, <4>2, <5>1
        <4>3. CASE i > m
          <5>1. i - m \in 1..n /\ k[i] = g[i - m] /\ (i - m) - 1 = (i - 1) - m  BY <1>2, <4>3
          <5>2. u[i] = p[m] + q[i - m]  BY <1>2, <4>1, <4>3
          <5>3. u[i - 1] = p[m] + q[(i - m) - 1]
            <6>1. CASE i - 1 > m  BY <1>2, <4>1, <5>1, <6>1
            <6>2. CASE i - 1 = m
              <7>1. u[i - 1] = p[m] /\ (i - m) - 1 = 0 /\ p[m] \in Nat  BY <1>2, <4>1, <6>2
              <7> QED  BY <3>5, <7>1
            <6> QED  BY <1>2, <4>3, <6>1, <6>2
          <5>4. /\ q[i - m] = q[(i - m) - 1] + Opens(g[i - m]) - Closes(g[i - m])
                /\ p[m] \in Nat /\ q[(i - m) - 1] \in Nat
            <6>1. m \in Nat /\ n \in Nat  BY <1>2
            <6>2. \A j \in 1..n : j - 1 \in 0..n  BY <6>1
            <6>3. m \in 0..m  BY <6>1
            <6> QED  BY <3>5, <5>1, <6>2, <6>3
          <5>5. \A x : Opens(x) \in {0, 1} /\ Closes(x) \in {0, 1}  BY DEF Opens, Closes
          <5>6. k[i] = g[i - m]  BY <5>1
          <5> HIDE DEF u
          <5> QED  BY <5>2, <5>3, <5>4, <5>5, <5>6
        <4> QED  BY <1>4, <4>2, <4>3
      <3> HIDE DEF u
      <3>9. Height(k, u)  BY <1>2, <3>6, <3>7, <3>8 DEF Height
      <3> QED  BY <3>6, <3>9
    <2> QED  BY <1>2, <2>1, <2>2 DEF Scoped
  <1>8. k[1] = f[1]  BY <1>2
  <1> QED  BY <1>2, <1>5, <1>6, <1>7, <1>8 DEF WellMade, k

\* What follows the end of a block becomes an else.
LEMMA ElseMarks ==
    ASSUME NEW f, WellMade(f), NEW i \in 1..Len(f), i > 1, "CMD_END_BLOCK" \in f[i - 1]
    PROVE  WellMade(With(f, i, {"CMD_ELSE"})) /\ With(f, i, {"CMD_ELSE"})[1] = f[1]
  <1> DEFINE g == With(f, i, {"CMD_ELSE"})
  <1> DEFINE n == Len(f)
  <1>1. f \in Seq(SUBSET Flag) /\ f # <<>> /\ Paired(f) /\ Bracketed(f) /\ Scoped(f)
    BY DEF WellMade
  <1>2. n \in Nat /\ 1 \in 1..n /\ {"CMD_ELSE"} \in SUBSET Flag  BY <1>1 DEF Flag
  <1>3. /\ g \in Seq(SUBSET Flag) /\ Len(g) = n
        /\ g[i] = f[i] \cup {"CMD_ELSE"} /\ \A j \in 1..n : j # i => g[j] = f[j]
    BY <1>1, <1>2, WithIs
  <1> HIDE DEF g
  <1>4. \A j \in 1..n : \A x \in (Special \cup {"CMD_ELSE_IF"}) \ {"CMD_ELSE"} :
            x \in g[j] <=> x \in f[j]
    BY <1>3
  <1>5. \A j \in 1..n : "CMD_ELSE" \in g[j] => j = i \/ "CMD_ELSE" \in f[j]  BY <1>3
  <1>6. \A j \in 1..n : j > 1 => j - 1 \in 1..n  BY <1>2
  <1>7. \A j \in 1..n : j < n => j + 1 \in 1..n  BY <1>2
  <1>8. Paired(g)
    <2> HIDE DEF n
    <2> QED  BY <1>1, <1>3, <1>4, <1>6, <1>7 DEF Paired, Special, n
  <1>9. Bracketed(g)
    <2>1. ASSUME NEW j \in 1..n, "CMD_ELSE" \in g[j] \/ ("CMD_ELSE_IF" \in g[j] /\ j # 1)
          PROVE  j > 1 /\ "CMD_END_BLOCK" \in g[j - 1]
      <3>1. CASE j = i  BY <1>4, <1>6, <3>1 DEF Special
      <3>2. CASE j # i
        <4>1. j > 1 /\ "CMD_END_BLOCK" \in f[j - 1]
          BY <1>1, <1>4, <1>5, <2>1, <3>2 DEF Bracketed
        <4> QED  BY <1>4, <1>6, <4>1 DEF Special
      <3> QED  BY <3>1, <3>2
    <2> HIDE DEF n
    <2>2. \A j \in 1..n : /\ "CMD_START_BLOCK" \in g[j] <=> "CMD_START_BLOCK" \in f[j]
                          /\ "CMD_END_BLOCK" \in g[j] <=> "CMD_END_BLOCK" \in f[j]
      BY <1>4 DEF Special
    <2> QED  BY <1>1, <1>3, <2>1, <2>2 DEF Bracketed, n
  <1>10. Scoped(g)
    <2> HIDE DEF n
    <2>1. \A j \in 1..n : Opens(g[j]) = Opens(f[j]) /\ Closes(g[j]) = Closes(f[j])
      BY <1>4 DEF Opens, Closes, Special
    <2>2. \A s : Height(f, s) => Height(g, s)  BY <1>3, <2>1 DEF Height, n
    <2>3. Functionless(g) => Functionless(f)  BY <1>3, <1>4 DEF Functionless, Special, n
    <2>4. Functionless(g) => \E s \in [0..Len(g) -> Nat] : Height(g, s)
      BY <1>1, <1>3, <2>2, <2>3 DEF Scoped, n
    <2> QED  BY <1>1, <1>3, <1>4, <2>4 DEF Scoped, Special, n
  <1>11. g # <<>> /\ g[1] = f[1]  BY <1>2, <1>3
  <1> QED  BY <1>3, <1>8, <1>9, <1>10, <1>11 DEF WellMade, g

\* A list becomes the body of a function.
LEMMA FunctionMarks ==
    ASSUME NEW f, Marked(f)
    PROVE  /\ Marked(Function(f))
           /\ ("CMD_ELSE_IF" \in Function(f)[1] => "CMD_ELSE_IF" \in f[1])
  <1> DEFINE g == Function(f)
  <1> DEFINE n == Len(f)
  <1>1. f \in Seq(SUBSET Flag) /\ f # <<>> /\ Paired(f) /\ Bracketed(f) /\ Scoped(f)
    BY DEF Marked, WellMade
  <1>2. /\ g \in Seq(SUBSET Flag) /\ Len(g) = n /\ n \in Nat /\ n >= 1
        /\ \A i \in 1..n : g[i] = f[i] \cup (IF i = 1 THEN {"CMD_FUNCTION"} ELSE {})
                                       \cup (IF i = n THEN {"CMD_END_FUNCTION"} ELSE {})
    BY <1>1, FunctionIs
  <1> HIDE DEF g
  <1>3. \A i \in 1..n : \A x \in {"CMD_START_BLOCK", "CMD_END_BLOCK", "CMD_ELSE", "CMD_ELSE_IF",
                                  "PIPE_INPUT", "PIPE_OUTPUT"} :
            x \in g[i] <=> x \in f[i]
    BY <1>2
  <1>4. 1 \in 1..n  BY <1>2
  <1>5. "CMD_FUNCTION" \in g[1]  BY <1>2, <1>4
  <1>6. \A i \in 1..n : i > 1 => i - 1 \in 1..n  BY <1>2
  <1>7. \A i \in 1..n : i < n => i + 1 \in 1..n  BY <1>2
  <1>8. Paired(g)
    <2> HIDE DEF n
    <2> QED  BY <1>1, <1>2, <1>3, <1>6, <1>7 DEF Paired, n
  <1>9. Bracketed(g)
    <2> HIDE DEF n
    <2> QED  BY <1>1, <1>2, <1>3, <1>6 DEF Bracketed, n
  <1>10. Scoped(g)
    <2>1. ~Functionless(g)  BY <1>2, <1>4, <1>5 DEF Functionless
    <2>2. \A i \in 1..n : 1 <= i  BY <1>2
    <2> HIDE DEF n
    <2> QED  BY <1>2, <1>4, <1>5, <2>1, <2>2 DEF Scoped
  <1>11. g[1] \cap {"CMD_START_BLOCK", "CMD_END_BLOCK", "CMD_ELSE"} = {}
    BY <1>3, <1>4 DEF Marked
  <1>12. g # <<>>  BY <1>2
  <1> QED  BY <1>2, <1>3, <1>4, <1>8, <1>9, <1>10, <1>11, <1>12 DEF Marked, WellMade, g

\* The first expression of a list pipes into another list.
LEMMA PipeMarks ==
    ASSUME NEW f, NEW g, Marked(f), Marked(g), "CMD_ELSE_IF" \notin g[1]
    PROVE  Marked(<<f[1] \cup {"PIPE_OUTPUT"}>> \o With(g, 1, {"PIPE_INPUT"}))
  <1> DEFINE x == f[1] \cup {"PIPE_OUTPUT"}
  <1> DEFINE w == With(g, 1, {"PIPE_INPUT"})
  <1> DEFINE k == <<x>> \o w
  <1> DEFINE n == Len(g)
  <1>1. /\ f \in Seq(SUBSET Flag) /\ f # <<>> /\ Paired(f) /\ Bracketed(f) /\ Scoped(f)
        /\ g \in Seq(SUBSET Flag) /\ g # <<>> /\ Paired(g) /\ Bracketed(g) /\ Scoped(g)
        /\ f[1] \cap {"CMD_START_BLOCK", "CMD_END_BLOCK", "CMD_ELSE"} = {}
        /\ g[1] \cap {"CMD_START_BLOCK", "CMD_END_BLOCK", "CMD_ELSE"} = {}
    BY DEF Marked, WellMade
  <1>2. /\ Len(f) \in Nat /\ 1 \in 1..Len(f) /\ n \in Nat /\ 1 \in 1..n /\ n >= 1
        /\ {"PIPE_INPUT"} \in SUBSET Flag /\ {"PIPE_OUTPUT"} \in SUBSET Flag
    BY <1>1 DEF Flag
  <1>3. /\ w \in Seq(SUBSET Flag) /\ Len(w) = n
        /\ w[1] = g[1] \cup {"PIPE_INPUT"} /\ \A j \in 1..n : j # 1 => w[j] = g[j]
    BY <1>1, <1>2, WithIs
  <1>4. x \in SUBSET Flag  BY <1>1, <1>2
  <1>5. "PIPE_INPUT" \notin f[1]  BY <1>1, <1>2 DEF Paired
  <1>6. "CMD_END_FUNCTION" \in f[1] => "CMD_FUNCTION" \in f[1]
    <2>1. \A j \in 1..Len(f) : j <= 1 => j = 1  BY <1>2
    <2> QED  BY <1>1, <1>2, <2>1 DEF Scoped
  <1>7. /\ k \in Seq(SUBSET Flag) /\ Len(k) = n + 1 /\ k # <<>> /\ k[1] = x
        /\ \A i \in 1..n + 1 : i # 1 => i - 1 \in 1..n /\ k[i] = w[i - 1]
        /\ \A i \in 1..n : i + 1 \in 1..n + 1 /\ k[i + 1] = w[i]
    <2> HIDE DEF x, w, n
    <2>1. <<x>> \in Seq(SUBSET Flag) /\ Len(<<x>>) = 1 /\ <<x>> # <<>> /\ <<x>>[1] = x
      BY <1>4
    <2>2. w # <<>>  BY <1>2, <1>3
    <2>3. /\ <<x>> \o w \in Seq(SUBSET Flag) /\ Len(<<x>> \o w) = 1 + n /\ <<x>> \o w # <<>>
          /\ (<<x>> \o w)[1] = x
          /\ \A i \in 1..1 + n : i > 1 => i - 1 \in 1..n /\ (<<x>> \o w)[i] = w[i - 1]
          /\ \A i \in 1..n : i + 1 \in 1..1 + n /\ (<<x>> \o w)[i + 1] = w[i]
      BY <1>3, <2>1, <2>2, JoinIs
    <2> HIDE DEF k
    <2>4. 1 + n = n + 1 /\ \A i \in 1..n + 1 : i # 1 => i > 1  BY <1>2
    <2> QED  BY <2>3, <2>4 DEF k
  <1>8. \A i \in 1..n : \A y \in Special \ {"PIPE_INPUT"} : y \in w[i] <=> y \in g[i]
    BY <1>3
  <1>9. \A i \in 1..n : "CMD_ELSE_IF" \in w[i] => "CMD_ELSE_IF" \in g[i] /\ i # 1  BY <1>2, <1>3
  <1>10. \A y \in Special \ {"PIPE_OUTPUT"} : y \in x <=> y \in f[1]  OBVIOUS
  <1>11. "PIPE_OUTPUT" \in x /\ "PIPE_INPUT" \in w[1]  BY <1>3
  <1> HIDE DEF x, w, k, n
  <1>12. \A i \in 1..n + 1 : i > 1 \/ i = 1  BY <1>2
  <1>13. Paired(k)
    <2>1. ASSUME NEW i \in 1..n + 1
          PROVE  /\ "PIPE_INPUT" \in k[i] => i > 1 /\ "PIPE_OUTPUT" \in k[i - 1]
                 /\ "PIPE_OUTPUT" \in k[i] => i < n + 1 /\ "PIPE_INPUT" \in k[i + 1]
      <3>1. CASE i = 1
        <4>1. k[2] = w[1]  BY <1>2, <1>7
        <4>2. i < n + 1 /\ i + 1 = 2  BY <1>2, <3>1
        <4> QED  BY <1>5, <1>7, <1>10, <1>11, <3>1, <4>1, <4>2 DEF Special
      <3>2. CASE i # 1
        <4> DEFINE j == i - 1
        <4>1. j \in 1..n /\ k[i] = w[j] /\ i > 1 /\ i = j + 1  BY <1>2, <1>7, <3>2
        <4>2. j > 1 => j - 1 \in 1..n /\ k[i - 1] = w[j - 1] /\ w[j] = g[j]
          <5>1. j > 1 => j - 1 \in 1..n /\ (j - 1) + 1 = i - 1  BY <1>2, <4>1
          <5> QED  BY <1>3, <1>7, <4>1, <5>1
        <4>3. j = 1 => k[i - 1] = x  BY <1>7, <4>1
        <4>4. j < n => j + 1 \in 1..n /\ k[i + 1] = w[j + 1] /\ w[j + 1] = g[j + 1] /\ i < n + 1
          <5>1. j < n => j + 1 \in 1..n /\ (j + 1) + 1 = i + 1 /\ i < n + 1 /\ j + 1 # 1
            BY <1>2, <4>1
          <5> QED  BY <1>3, <1>7, <4>1, <5>1
        <4>5. j = 1 \/ j > 1  BY <1>2, <4>1
        <4> HIDE DEF j
        <4>6. ASSUME "PIPE_INPUT" \in k[i] PROVE "PIPE_OUTPUT" \in k[i - 1]
          <5>1. CASE j = 1  BY <1>11, <4>3, <5>1
          <5>2. CASE j > 1
            <6>1. "PIPE_INPUT" \in g[j]  BY <4>1, <4>2, <4>6, <5>2
            <6>2. "PIPE_OUTPUT" \in g[j - 1]  BY <1>1, <4>1, <6>1 DEF Paired, n
            <6> QED  BY <1>8, <4>2, <5>2, <6>2 DEF Special
          <5> QED  BY <4>5, <5>1, <5>2
        <4>7. ASSUME "PIPE_OUTPUT" \in k[i] PROVE i < n + 1 /\ "PIPE_INPUT" \in k[i + 1]
          <5>1. "PIPE_OUTPUT" \in g[j]  BY <1>8, <4>1, <4>7 DEF Special
          <5>2. j < n /\ "PIPE_INPUT" \in g[j + 1]  BY <1>1, <4>1, <5>1 DEF Paired, n
          <5> QED  BY <4>4, <5>2
        <4> QED  BY <4>1, <4>6, <4>7
      <3> QED  BY <3>1, <3>2
    <2> QED  BY <1>7, <2>1 DEF Paired
  <1>14. Bracketed(k)
    <2>1. ASSUME NEW i \in 1..n
          PROVE  /\ "CMD_START_BLOCK" \in w[i]
                       => \E j \in 1..n : j >= i /\ "CMD_END_BLOCK" \in w[j]
                 /\ "CMD_END_BLOCK" \in w[i]
                       => \E j \in 1..n : j <= i /\ "CMD_START_BLOCK" \in w[j]
                 /\ "CMD_ELSE" \in w[i] \/ "CMD_ELSE_IF" \in w[i]
                       => i > 1 /\ i - 1 \in 1..n /\ "CMD_END_BLOCK" \in w[i - 1]
      <3>1. \A j \in 1..n : /\ "CMD_START_BLOCK" \in w[j] <=> "CMD_START_BLOCK" \in g[j]
                            /\ "CMD_END_BLOCK" \in w[j] <=> "CMD_END_BLOCK" \in g[j]
                            /\ "CMD_ELSE" \in w[j] <=> "CMD_ELSE" \in g[j]
        BY <1>8 DEF Special
      <3>2. i > 1 => i - 1 \in 1..n  BY <1>2
      <3>3. ASSUME "CMD_ELSE" \in w[i] \/ "CMD_ELSE_IF" \in w[i]
            PROVE  i > 1 /\ "CMD_END_BLOCK" \in g[i - 1]
        <4>1. "CMD_ELSE" \in g[i] \/ ("CMD_ELSE_IF" \in g[i] /\ i # 1)
          BY <1>9, <3>1, <3>3
        <4> QED  BY <1>1, <4>1 DEF Bracketed, n
      <3> QED  BY <1>1, <3>1, <3>2, <3>3 DEF Bracketed, n
    <2>2. ASSUME NEW i \in 1..n + 1
          PROVE  /\ "CMD_START_BLOCK" \in k[i]
                       => \E j \in 1..n + 1 : j >= i /\ "CMD_END_BLOCK" \in k[j]
                 /\ "CMD_END_BLOCK" \in k[i]
                       => \E j \in 1..n + 1 : j <= i /\ "CMD_START_BLOCK" \in k[j]
                 /\ "CMD_ELSE" \in k[i] \/ ("CMD_ELSE_IF" \in k[i] /\ i # 1)
                       => i > 1 /\ "CMD_END_BLOCK" \in k[i - 1]
      <3>1. CASE i = 1  BY <1>1, <1>7, <1>10, <3>1 DEF Special
      <3>2. CASE i # 1
        <4> DEFINE l == i - 1
        <4>1. l \in 1..n /\ k[i] = w[l] /\ i > 1 /\ i = l + 1  BY <1>2, <1>7, <3>2
        <4>2. \A j \in 1..n : j + 1 \in 1..n + 1 /\ k[j + 1] = w[j]
                              /\ (j >= l => j + 1 >= i) /\ (j <= l => j + 1 <= i)
          BY <1>2, <1>7, <4>1
        <4>3. l > 1 /\ l - 1 \in 1..n => k[i - 1] = w[l - 1]
          <5>1. (l - 1) + 1 = i - 1  BY <4>1
          <5> QED  BY <1>7, <5>1
        <4> HIDE DEF l
        <4> QED  BY <2>1, <4>1, <4>2, <4>3
      <3> QED  BY <3>1, <3>2
    <2> QED  BY <1>7, <2>2 DEF Bracketed
  <1>15. Scoped(k)
    <2>1. ASSUME NEW i \in 1..n + 1, "CMD_END_FUNCTION" \in k[i]
          PROVE  \E j \in 1..n + 1 : j <= i /\ "CMD_FUNCTION" \in k[j]
      <3>1. CASE i = 1
        <4>1. "CMD_FUNCTION" \in k[1]  BY <1>6, <1>7, <1>10, <2>1, <3>1 DEF Special
        <4>2. 1 \in 1..n + 1 /\ 1 <= i  BY <1>2, <3>1
        <4> QED  BY <4>1, <4>2
      <3>2. CASE i # 1
        <4>1. i - 1 \in 1..n /\ "CMD_END_FUNCTION" \in g[i - 1]
          BY <1>7, <1>8, <2>1, <3>2 DEF Special
        <4>2. PICK j \in 1..n : j <= i - 1 /\ "CMD_FUNCTION" \in g[j]
          BY <1>1, <4>1 DEF Scoped, n
        <4>3. j + 1 \in 1..n + 1 /\ j + 1 <= i  BY <1>2, <4>2
        <4>4. "CMD_FUNCTION" \in k[j + 1]  BY <1>7, <1>8, <4>2 DEF Special
        <4> QED  BY <4>3, <4>4
      <3> QED  BY <3>1, <3>2
    <2>2. ASSUME Functionless(k) PROVE \E s \in [0..n + 1 -> Nat] : Height(k, s)
      <3>1. \A i \in 1..n : "CMD_FUNCTION" \notin g[i]
        BY <1>7, <1>8, <2>2 DEF Functionless, Special
      <3>2. PICK s \in [0..n -> Nat] : Height(g, s)  BY <1>1, <3>1 DEF Scoped, Functionless, n
      <3>3. s[0] = 0 /\ \A i \in 1..n : s[i] = s[i - 1] + Opens(g[i]) - Closes(g[i])
        BY <3>2 DEF Height, n
      <3>4. Opens(k[1]) = 0 /\ Closes(k[1]) = 0
        <4>1. 1 \in 1..n + 1  BY <1>2
        <4>2. "CMD_FUNCTION" \notin x  BY <1>7, <2>2, <4>1 DEF Functionless
        <4>3. x \cap {"CMD_START_BLOCK", "CMD_END_BLOCK", "CMD_FUNCTION", "CMD_END_FUNCTION"} = {}
          BY <1>1, <1>6, <1>10, <4>2 DEF Special
        <4> QED  BY <1>7, <4>3 DEF Opens, Closes
      <3>5. \A i \in 1..n : Opens(w[i]) = Opens(g[i]) /\ Closes(w[i]) = Closes(g[i])
        BY <1>8 DEF Opens, Closes, Special
      <3> DEFINE u == [i \in 0..n + 1 |-> IF i = 0 THEN 0 ELSE s[i - 1]]
      <3>6. u \in [0..n + 1 -> Nat] /\ u[0] = 0
        <4>1. \A i \in 0..n + 1 : i # 0 => i - 1 \in 0..n  BY <1>2
        <4>2. 0 \in 0..n + 1  BY <1>2
        <4> QED  BY <4>1, <4>2
      <3>7. ASSUME NEW i \in 1..n + 1 PROVE u[i] = u[i - 1] + Opens(k[i]) - Closes(k[i])
        <4>1. i - 1 \in 0..n + 1 /\ i \in 0..n + 1 /\ i # 0  BY <1>2
        <4>2. u[i] = s[i - 1]  BY <4>1
        <4>3. CASE i = 1
          <5>1. u[0] = 0 /\ u[1] = s[0]  BY <3>6, <4>2, <4>3
          <5> HIDE DEF u
          <5> QED  BY <3>3, <3>4, <4>3, <5>1
        <4>4. CASE i # 1
          <5> DEFINE j == i - 1
          <5>1. j \in 1..n /\ k[i] = w[j] /\ j # 0  BY <1>7, <4>4
          <5>2. u[j] = s[j - 1]  BY <4>1, <5>1
          <5>3. s[j] = s[j - 1] + Opens(g[j]) - Closes(g[j])  BY <3>3, <5>1
          <5>4. u[i] = s[j]  BY <4>2
          <5>5. Opens(k[i]) = Opens(g[j]) /\ Closes(k[i]) = Closes(g[j])  BY <3>5, <5>1
          <5> HIDE DEF u
          <5> QED  BY <5>2, <5>3, <5>4, <5>5
        <4> QED  BY <4>3, <4>4
      <3> HIDE DEF u
      <3>8. Height(k, u)  BY <1>7, <3>6, <3>7 DEF Height
      <3> QED  BY <3>6, <3>8
    <2> QED  BY <1>7, <2>1, <2>2 DEF Scoped
  <1>16. k[1] \cap {"CMD_START_BLOCK", "CMD_END_BLOCK", "CMD_ELSE"} = {}
    BY <1>1, <1>7, <1>10 DEF Special
  <1> QED  BY <1>7, <1>13, <1>14, <1>15, <1>16 DEF Marked, WellMade, k, x, w

-----------------------------------------------------------------------------
(***************************************************************************)
(* How the functions of cmd.c change a heap.                               *)
(***************************************************************************)

\* The expressions outside U are left alone.
Off(h, g, U) == \A x \in Expr \ U : g.type[x] = h.type[x] /\ g.next[x] = h.next[x]

\* h becomes g, in which c is the list of e and f its flags; only U is touched.
Becomes(h, g, e, c, f, U) ==
    g \in Heap /\ IsList(g, e, c) /\ Flags(g, c) = f /\ Off(h, g, U)

LEMMA ToSetIs ==
    ASSUME NEW S, NEW c \in Seq(S)
    PROVE  ToSet(c) = {c[i] : i \in 1..Len(c)} /\ ToSet(c) \subseteq S
  BY DEF ToSet

LEMMA ToSetJoin ==
    ASSUME NEW S, NEW c \in Seq(S), NEW d \in Seq(S), c # <<>>, d # <<>>
    PROVE  ToSet(c \o d) = ToSet(c) \cup ToSet(d)
  <1> DEFINE k == c \o d
  <1>1. /\ k \in Seq(S) /\ Len(k) = Len(c) + Len(d) /\ Len(c) \in Nat /\ Len(d) \in Nat
        /\ \A i \in 1..Len(c) : k[i] = c[i] /\ i \in 1..Len(c) + Len(d)
        /\ \A i \in 1..Len(c) + Len(d) :
              i > Len(c) => i - Len(c) \in 1..Len(d) /\ k[i] = d[i - Len(c)]
        /\ \A i \in 1..Len(d) :
              i + Len(c) \in 1..Len(c) + Len(d) /\ k[i + Len(c)] = d[i]
    BY JoinIs
  <1> HIDE DEF k
  <1>2. \A i \in 1..Len(c) + Len(d) : i \in 1..Len(c) \/ i > Len(c)  BY <1>1
  <1>3. ToSet(k) = {k[i] : i \in 1..Len(k)}  BY <1>1, ToSetIs
  <1>4. ToSet(c) = {c[i] : i \in 1..Len(c)} /\ ToSet(d) = {d[i] : i \in 1..Len(d)}  BY ToSetIs
  <1>5. ASSUME NEW i \in 1..Len(c) + Len(d) PROVE k[i] \in ToSet(c) \cup ToSet(d)
    BY <1>1, <1>2, <1>4
  <1>6. \A i \in 1..Len(c) : c[i] \in ToSet(k)  BY <1>1, <1>3
  <1>7. \A i \in 1..Len(d) : d[i] \in ToSet(k)  BY <1>1, <1>3
  <1>8. ToSet(k) \subseteq ToSet(c) \cup ToSet(d)  BY <1>1, <1>3, <1>5
  <1>9. ToSet(c) \cup ToSet(d) \subseteq ToSet(k)  BY <1>4, <1>6, <1>7
  <1> QED  BY <1>8, <1>9 DEF k

LEMMA ListIs ==
    ASSUME NEW h, NEW e, NEW c, IsList(h, e, c)
    PROVE  /\ c \in Seq(Expr) /\ c # <<>> /\ Len(c) \in Nat /\ Len(c) >= 1
           /\ 1 \in 1..Len(c) /\ Len(c) \in 1..Len(c)
           /\ e = c[1] /\ e \in Expr /\ e \in ToSet(c) /\ c[Len(c)] \in Expr
           /\ ToSet(c) \subseteq Expr /\ ToSet(c) = {c[i] : i \in 1..Len(c)}
  <1>1. c \in Seq(Expr) /\ c # <<>> /\ c[1] = e  BY DEF IsList
  <1>2. Len(c) \in Nat /\ Len(c) >= 1  BY <1>1
  <1>3. ToSet(c) \subseteq Expr /\ ToSet(c) = {c[i] : i \in 1..Len(c)}  BY <1>1, ToSetIs
  <1> QED  BY <1>1, <1>2, <1>3

LEMMA LastIs ==
    ASSUME NEW h, NEW e, NEW c, IsList(h, e, c)
    PROVE  cmd_last(h, e) = c[Len(c)]
  BY ChainIs DEF cmd_last, Last

LEMMA FlagsIs ==
    ASSUME NEW h \in Heap, NEW c \in Seq(Expr), c # <<>>
    PROVE  /\ Flags(h, c) \in Seq(SUBSET Flag) /\ Len(Flags(h, c)) = Len(c)
           /\ Flags(h, c) # <<>>
           /\ \A i \in 1..Len(c) : Flags(h, c)[i] = h.type[c[i]]
  <1>1. Len(c) \in Nat /\ Len(c) >= 1 /\ \A i \in 1..Len(c) : c[i] \in Expr  OBVIOUS
  <1>2. \A i \in 1..Len(c) : h.type[c[i]] \in SUBSET Flag  BY <1>1 DEF Heap
  <1>3. Flags(h, c) \in Seq(SUBSET Flag) /\ Len(Flags(h, c)) = Len(c)  BY <1>1, <1>2 DEF Flags
  <1> QED  BY <1>1, <1>3 DEF Flags

LEMMA FlagsKept ==
    ASSUME NEW h, NEW g, NEW c \in Seq(Expr), \A x \in ToSet(c) : g.type[x] = h.type[x]
    PROVE  Flags(g, c) = Flags(h, c)
  <1>1. \A i \in 1..Len(c) : c[i] \in ToSet(c)  BY ToSetIs
  <1> QED  BY <1>1 DEF Flags

LEMMA FlagsJoin ==
    ASSUME NEW h \in Heap, NEW c \in Seq(Expr), NEW d \in Seq(Expr), c # <<>>, d # <<>>
    PROVE  Flags(h, c \o d) = Flags(h, c) \o Flags(h, d)
  <1> DEFINE k == c \o d
  <1> DEFINE f == Flags(h, c)
  <1> DEFINE g == Flags(h, d)
  <1>1. /\ k \in Seq(Expr) /\ k # <<>> /\ Len(k) = Len(c) + Len(d)
        /\ Len(c) \in Nat /\ Len(d) \in Nat
        /\ \A i \in 1..Len(c) : k[i] = c[i]
        /\ \A i \in 1..Len(c) + Len(d) :
              i > Len(c) => i - Len(c) \in 1..Len(d) /\ k[i] = d[i - Len(c)]
    BY JoinIs
  <1>2. /\ f \in Seq(SUBSET Flag) /\ Len(f) = Len(c) /\ f # <<>>
        /\ \A i \in 1..Len(c) : f[i] = h.type[c[i]]
    BY FlagsIs
  <1>3. /\ g \in Seq(SUBSET Flag) /\ Len(g) = Len(d) /\ g # <<>>
        /\ \A i \in 1..Len(d) : g[i] = h.type[d[i]]
    BY FlagsIs
  <1> DEFINE p == Flags(h, k)
  <1> DEFINE q == f \o g
  <1>4. f \in Seq(SUBSET Flag) /\ f # <<>> /\ g \in Seq(SUBSET Flag) /\ g # <<>>
    BY <1>2, <1>3
  <1>5. /\ p \in Seq(SUBSET Flag) /\ Len(p) = Len(k)
        /\ \A i \in 1..Len(k) : p[i] = h.type[k[i]]
    <2> HIDE DEF k, f, g
    <2> QED  BY <1>1, FlagsIs
  <1> HIDE DEF k, f, g, p
  <1>6. /\ q \in Seq(SUBSET Flag) /\ Len(q) = Len(f) + Len(g)
        /\ \A i \in 1..Len(f) : q[i] = f[i]
        /\ \A i \in 1..Len(f) + Len(g) : i > Len(f) => q[i] = g[i - Len(f)]
    BY <1>4, JoinIs
  <1> HIDE DEF q
  <1>7. \A i \in 1..Len(c) + Len(d) : i \in 1..Len(c) \/ i > Len(c)  BY <1>1
  <1>8. ASSUME NEW i \in 1..Len(c) + Len(d) PROVE p[i] = q[i]
    <2>1. p[i] = h.type[k[i]]  BY <1>1, <1>5
    <2>2. CASE i \in 1..Len(c)
      <3>1. k[i] = c[i] /\ i \in 1..Len(f)  BY <1>1, <1>2, <2>2
      <3>2. q[i] = f[i] /\ f[i] = h.type[c[i]]  BY <1>2, <1>6, <2>2, <3>1
      <3> QED  BY <2>1, <3>1, <3>2
    <2>3. CASE i > Len(c)
      <3>1. k[i] = d[i - Len(c)] /\ i - Len(c) \in 1..Len(d)  BY <1>1, <2>3
      <3>2. q[i] = g[i - Len(c)]  BY <1>2, <1>3, <1>6, <2>3
      <3>3. g[i - Len(c)] = h.type[d[i - Len(c)]]  BY <1>3, <3>1
      <3> QED  BY <2>1, <3>1, <3>2, <3>3
    <2> QED  BY <1>7, <2>2, <2>3
  <1>9. Len(p) = Len(c) + Len(d) /\ Len(q) = Len(c) + Len(d)  BY <1>1, <1>2, <1>3, <1>5, <1>6
  <1>10. p = q  BY <1>5, <1>6, <1>8, <1>9, SeqEqual
  <1> QED  BY <1>10 DEF p, q, k, f, g

\* A list no expression of which is touched stays what it is.
LEMMA ListKept ==
    ASSUME NEW h, NEW g, NEW U, Off(h, g, U),
           NEW e, NEW c, IsList(h, e, c), ToSet(c) \cap U = {}
    PROVE  IsList(g, e, c) /\ Flags(g, c) = Flags(h, c)
  <1>1. c \in Seq(Expr) /\ ToSet(c) \subseteq Expr /\ ToSet(c) = {c[i] : i \in 1..Len(c)}
        /\ Len(c) \in 1..Len(c) /\ Len(c) \in Nat
    BY ListIs
  <1>2. \A x \in ToSet(c) : g.type[x] = h.type[x] /\ g.next[x] = h.next[x]  BY <1>1 DEF Off
  <1>3. \A i \in 1..Len(c) : g.next[c[i]] = h.next[c[i]]  BY <1>1, <1>2
  <1>4. \A i \in 1..Len(c) - 1 : i \in 1..Len(c)  BY <1>1
  <1>5. IsList(g, e, c)  BY <1>1, <1>3, <1>4 DEF IsList
  <1> QED  BY <1>1, <1>2, <1>5, FlagsKept

\* cmd_set_type()
LEMMA SetTypeIs ==
    ASSUME NEW h \in Heap, NEW e \in Expr, NEW F \in SUBSET Flag
    PROVE  /\ cmd_set_type(h, e, F) \in Heap
           /\ cmd_set_type(h, e, F).next = h.next
           /\ cmd_set_type(h, e, F).type[e] = h.type[e] \cup F
           /\ \A x \in Expr : x # e => cmd_set_type(h, e, F).type[x] = h.type[x]
  <1>1. h.type \in [Expr -> SUBSET Flag] /\ h.next \in [Expr -> Expr \cup {Null}]  BY DEF Heap
  <1> DEFINE k == cmd_set_type(h, e, F)
  <1> DEFINE t == [h.type EXCEPT ![e] = h.type[e] \cup F]
  <1>2. k.type = t /\ k.next = h.next /\ k = [type |-> k.type, next |-> k.next]
    <2>1. h = [type |-> h.type, next |-> h.next]  BY DEF Heap
    <2>2. k = [h EXCEPT !.type = t]  BY DEF cmd_set_type
    <2> HIDE DEF t, k
    <2>3. k = [type |-> t, next |-> h.next]  BY <2>1, <2>2
    <2> QED  BY <2>3
  <1>3. /\ t \in [Expr -> SUBSET Flag] /\ t[e] = h.type[e] \cup F
        /\ \A x \in Expr : x # e => t[x] = h.type[x]
    BY <1>1
  <1> HIDE DEF t, k
  <1> QED  BY <1>1, <1>2, <1>3 DEF Heap, k

\* Two heaps with the same pointers have the same lists.
LEMMA SameNext ==
    ASSUME NEW h, NEW g, g.next = h.next, NEW e, NEW c, IsList(h, e, c)
    PROVE  IsList(g, e, c)
  BY DEF IsList

\* g is h with the flags F set in the i-th expression of c.
Typed(h, g, c, i, F) ==
    /\ g \in Heap /\ g.next = h.next
    /\ \A x \in Expr \ {c[i]} : g.type[x] = h.type[x]
    /\ Flags(g, c) = With(Flags(h, c), i, F)

LEMMA SetTypeOfList ==
    ASSUME NEW h \in Heap, NEW e, NEW c, IsList(h, e, c), NEW i \in 1..Len(c),
           NEW F \in SUBSET Flag
    PROVE  Typed(h, cmd_set_type(h, c[i], F), c, i, F)
  <1> DEFINE g == cmd_set_type(h, c[i], F)
  <1> DEFINE f == Flags(h, c)
  <1>1. c \in Seq(Expr) /\ c # <<>> /\ Len(c) \in Nat /\ \A j \in 1..Len(c) : c[j] \in Expr
    BY ListIs
  <1>2. /\ g \in Heap /\ g.next = h.next /\ g.type[c[i]] = h.type[c[i]] \cup F
        /\ \A x \in Expr : x # c[i] => g.type[x] = h.type[x]
    BY <1>1, SetTypeIs
  <1> HIDE DEF g
  <1>3. /\ f \in Seq(SUBSET Flag) /\ Len(f) = Len(c)
        /\ \A j \in 1..Len(c) : f[j] = h.type[c[j]]
    BY <1>1, FlagsIs
  <1>4. /\ Flags(g, c) \in Seq(SUBSET Flag) /\ Len(Flags(g, c)) = Len(c)
        /\ \A j \in 1..Len(c) : Flags(g, c)[j] = g.type[c[j]]
    BY <1>1, <1>2, FlagsIs
  <1> HIDE DEF f
  <1>5. /\ With(f, i, F) \in Seq(SUBSET Flag) /\ Len(With(f, i, F)) = Len(f)
        /\ With(f, i, F)[i] = f[i] \cup F
        /\ \A j \in 1..Len(f) : j # i => With(f, i, F)[j] = f[j]
    <2>1. i \in 1..Len(f)  BY <1>3
    <2> QED  BY <1>3, <2>1, WithIs
  <1>6. \A j \in 1..Len(c) : j # i => c[j] # c[i]  BY DEF IsList
  <1> DEFINE p == Flags(g, c)
  <1> DEFINE q == With(f, i, F)
  <1> HIDE DEF p, q
  <1>7. /\ p \in Seq(SUBSET Flag) /\ Len(p) = Len(c)
        /\ q \in Seq(SUBSET Flag) /\ Len(q) = Len(c)
    BY <1>3, <1>4, <1>5 DEF p, q
  <1>8. ASSUME NEW j \in 1..Len(c) PROVE p[j] = q[j]
    <2>1. p[j] = g.type[c[j]]  BY <1>4 DEF p
    <2>2. q[j] = IF j = i THEN h.type[c[i]] \cup F ELSE h.type[c[j]]
      BY <1>3, <1>5 DEF q
    <2> QED  BY <1>1, <1>2, <1>6, <2>1, <2>2
  <1>9. p = q  BY <1>7, <1>8, SeqEqual
  <1> QED  BY <1>2, <1>9 DEF p, q, f, g, Typed

\* cmd_mark_block() and cmd_mark_function()
LEMMA MarkBlockIs ==
    ASSUME NEW h \in Heap, NEW e, NEW c, IsList(h, e, c)
    PROVE  Becomes(h, cmd_mark_block(h, e), e, c, Block(Flags(h, c)), ToSet(c))
  <1> DEFINE n == Len(c)
  <1> DEFINE p == cmd_set_type(h, c[1], {"CMD_START_BLOCK"})
  <1> DEFINE g == cmd_set_type(p, c[n], {"CMD_END_BLOCK"})
  <1>1. /\ c \in Seq(Expr) /\ c # <<>> /\ 1 \in 1..n /\ n \in 1..n /\ e = c[1]
        /\ ToSet(c) \subseteq Expr /\ ToSet(c) = {c[i] : i \in 1..Len(c)}
    BY ListIs
  <1>2. {"CMD_START_BLOCK"} \in SUBSET Flag /\ {"CMD_END_BLOCK"} \in SUBSET Flag  BY DEF Flag
  <1>3. /\ p \in Heap /\ p.next = h.next /\ \A x \in Expr \ {c[1]} : p.type[x] = h.type[x]
        /\ Flags(p, c) = With(Flags(h, c), 1, {"CMD_START_BLOCK"})
    <2>1. 1 \in 1..Len(c)  BY <1>1
    <2>2. Typed(h, p, c, 1, {"CMD_START_BLOCK"})  BY <1>2, <2>1, SetTypeOfList
    <2> QED  BY <2>2 DEF Typed
  <1> HIDE DEF p
  <1>4. IsList(p, e, c)  BY <1>3, SameNext
  <1>5. /\ g \in Heap /\ g.next = p.next /\ \A x \in Expr \ {c[n]} : g.type[x] = p.type[x]
        /\ Flags(g, c) = With(Flags(p, c), n, {"CMD_END_BLOCK"})
    <2>1. n \in 1..Len(c) /\ p \in Heap  BY <1>1, <1>3
    <2> HIDE DEF n
    <2>2. Typed(p, g, c, n, {"CMD_END_BLOCK"})  BY <1>2, <1>4, <2>1, SetTypeOfList
    <2> QED  BY <2>2 DEF Typed
  <1>6. g = cmd_mark_block(h, e)  BY <1>1, LastIs DEF cmd_mark_block, p
  <1> HIDE DEF g
  <1>7. IsList(g, e, c)  BY <1>4, <1>5, SameNext
  <1>8. Off(h, g, ToSet(c))
    <2>1. c[1] \in ToSet(c) /\ c[n] \in ToSet(c)  BY <1>1
    <2> QED  BY <1>3, <1>5, <2>1 DEF Off
  <1>9. Flags(g, c) = Block(Flags(h, c))
    <2>1. Len(Flags(h, c)) = n  BY <1>1, FlagsIs
    <2> QED  BY <1>3, <1>5, <2>1 DEF Block
  <1> QED  BY <1>5, <1>6, <1>7, <1>8, <1>9 DEF Becomes

LEMMA MarkFunctionIs ==
    ASSUME NEW h \in Heap, NEW e, NEW c, IsList(h, e, c)
    PROVE  Becomes(h, cmd_mark_function(h, e), e, c, Function(Flags(h, c)), ToSet(c))
  <1> DEFINE n == Len(c)
  <1> DEFINE p == cmd_set_type(h, c[1], {"CMD_FUNCTION"})
  <1> DEFINE g == cmd_set_type(p, c[n], {"CMD_END_FUNCTION"})
  <1>1. /\ c \in Seq(Expr) /\ c # <<>> /\ 1 \in 1..n /\ n \in 1..n /\ e = c[1]
        /\ ToSet(c) \subseteq Expr /\ ToSet(c) = {c[i] : i \in 1..Len(c)}
    BY ListIs
  <1>2. {"CMD_FUNCTION"} \in SUBSET Flag /\ {"CMD_END_FUNCTION"} \in SUBSET Flag  BY DEF Flag
  <1>3. /\ p \in Heap /\ p.next = h.next /\ \A x \in Expr \ {c[1]} : p.type[x] = h.type[x]
        /\ Flags(p, c) = With(Flags(h, c), 1, {"CMD_FUNCTION"})
    <2>1. 1 \in 1..Len(c)  BY <1>1
    <2>2. Typed(h, p, c, 1, {"CMD_FUNCTION"})  BY <1>2, <2>1, SetTypeOfList
    <2> QED  BY <2>2 DEF Typed
  <1> HIDE DEF p
  <1>4. IsList(p, e, c)  BY <1>3, SameNext
  <1>5. /\ g \in Heap /\ g.next = p.next /\ \A x \in Expr \ {c[n]} : g.type[x] = p.type[x]
        /\ Flags(g, c) = With(Flags(p, c), n, {"CMD_END_FUNCTION"})
    <2>1. n \in 1..Len(c) /\ p \in Heap  BY <1>1, <1>3
    <2> HIDE DEF n
    <2>2. Typed(p, g, c, n, {"CMD_END_FUNCTION"})  BY <1>2, <1>4, <2>1, SetTypeOfList
    <2> QED  BY <2>2 DEF Typed
  <1>6. g = cmd_mark_function(h, e)  BY <1>1, LastIs DEF cmd_mark_function, p
  <1> HIDE DEF g
  <1>7. IsList(g, e, c)  BY <1>4, <1>5, SameNext
  <1>8. Off(h, g, ToSet(c))
    <2>1. c[1] \in ToSet(c) /\ c[n] \in ToSet(c)  BY <1>1
    <2> QED  BY <1>3, <1>5, <2>1 DEF Off
  <1>9. Flags(g, c) = Function(Flags(h, c))
    <2>1. Len(Flags(h, c)) = n  BY <1>1, FlagsIs
    <2> QED  BY <1>3, <1>5, <2>1 DEF Function
  <1> QED  BY <1>5, <1>6, <1>7, <1>8, <1>9 DEF Becomes

\* A path that ends at the first expression of a list is a list with it.
LEMMA LinkIs ==
    ASSUME NEW g, NEW c \in Seq(Expr), c # <<>>, NEW b, NEW d, IsList(g, b, d),
           \A i \in 1..Len(c) - 1 : g.next[c[i]] = c[i + 1],
           g.next[c[Len(c)]] = b,
           \A i, j \in 1..Len(c) : c[i] = c[j] => i = j,
           ToSet(c) \cap ToSet(d) = {}
    PROVE  IsList(g, c[1], c \o d)
  <1> DEFINE m == Len(c)
  <1> DEFINE n == Len(d)
  <1> DEFINE k == c \o d
  <1>1. /\ d \in Seq(Expr) /\ d # <<>> /\ b = d[1]
        /\ ToSet(d) = {d[i] : i \in 1..Len(d)}
        /\ \A i \in 1..n - 1 : g.next[d[i]] = d[i + 1]
        /\ g.next[d[n]] = Null /\ \A i, j \in 1..n : d[i] = d[j] => i = j
    BY ListIs DEF IsList
  <1>2. /\ k \in Seq(Expr) /\ Len(k) = m + n /\ k # <<>>
        /\ m \in Nat /\ n \in Nat /\ m >= 1 /\ n >= 1
        /\ \A i \in 1..m : k[i] = c[i]
        /\ \A i \in 1..m + n : i > m => i - m \in 1..n /\ k[i] = d[i - m]
    BY <1>1, JoinIs
  <1>3. \A i \in 1..m, j \in 1..n : c[i] # d[j]
    <2>1. \A i \in 1..Len(c) : c[i] \in ToSet(c)  BY ToSetIs
    <2>2. \A j \in 1..Len(d) : d[j] \in ToSet(d)  BY <1>1
    <2> QED  BY <2>1, <2>2
  <1>4. \A i \in 1..m - 1 : g.next[c[i]] = c[i + 1]  OBVIOUS
  <1>5. g.next[c[m]] = d[1] /\ \A i, j \in 1..m : c[i] = c[j] => i = j  BY <1>1
  <1> HIDE DEF m, n, k
  <1>6. \A i \in 1..m + n : i \in 1..m \/ i > m  BY <1>2
  <1>7. ASSUME NEW i \in 1..m + n - 1 PROVE g.next[k[i]] = k[i + 1]
    <2>0. i \in 1..m + n /\ i + 1 \in 1..m + n  BY <1>2
    <2>1. CASE i < m
      <3>1. i \in 1..m /\ i + 1 \in 1..m /\ i \in 1..m - 1  BY <1>2, <2>1
      <3> QED  BY <1>2, <1>4, <3>1
    <2>2. CASE i = m
      <3>1. i \in 1..m /\ i + 1 > m /\ (i + 1) - m = 1  BY <1>2, <2>2
      <3>2. k[i] = c[m] /\ k[i + 1] = d[1]  BY <1>2, <2>0, <2>2, <3>1
      <3> QED  BY <1>5, <3>2
    <2>3. CASE i > m
      <3>1. i - m \in 1..n - 1 /\ (i + 1) - m = (i - m) + 1 /\ i + 1 > m  BY <1>2, <2>3
      <3>2. k[i] = d[i - m] /\ k[i + 1] = d[(i - m) + 1]  BY <1>2, <2>0, <2>3, <3>1
      <3> QED  BY <1>1, <3>1, <3>2 DEF n
    <2> QED  BY <1>2, <2>1, <2>2, <2>3
  <1>8. g.next[k[m + n]] = Null
    <2>1. m + n \in 1..m + n /\ m + n > m /\ (m + n) - m = n  BY <1>2
    <2>2. k[m + n] = d[n]  BY <1>2, <2>1
    <2> QED  BY <1>1, <2>2 DEF n
  <1>9. ASSUME NEW i \in 1..m + n, NEW j \in 1..m + n, k[i] = k[j] PROVE i = j
    <2>1. CASE i \in 1..m /\ j \in 1..m  BY <1>2, <1>5, <1>9, <2>1
    <2>2. CASE i \in 1..m /\ j > m
      <3>1. k[i] = c[i] /\ k[j] = d[j - m] /\ j - m \in 1..n  BY <1>2, <2>2
      <3> QED  BY <1>3, <1>9, <2>2, <3>1
    <2>3. CASE i > m /\ j \in 1..m
      <3>1. k[j] = c[j] /\ k[i] = d[i - m] /\ i - m \in 1..n  BY <1>2, <2>3
      <3> QED  BY <1>3, <1>9, <2>3, <3>1
    <2>4. CASE i > m /\ j > m
      <3>1. i - m \in 1..n /\ j - m \in 1..n /\ d[i - m] = d[j - m]  BY <1>2, <1>9, <2>4
      <3>2. i - m = j - m  BY <1>1, <3>1 DEF n
      <3> QED  BY <1>2, <3>2
    <2> QED  BY <1>6, <2>1, <2>2, <2>3, <2>4
  <1>10. k[1] = c[1]  BY <1>2
  <1>11. /\ k \in Seq(Expr) /\ k # <<>> /\ k[1] = c[1]
         /\ \A i \in 1..Len(k) - 1 : g.next[k[i]] = k[i + 1]
         /\ g.next[k[Len(k)]] = Null
         /\ \A i, j \in 1..Len(k) : k[i] = k[j] => i = j
    BY <1>2, <1>7, <1>8, <1>9, <1>10
  <1>12. IsList(g, c[1], k)  BY <1>11 DEF IsList
  <1> QED  BY <1>12 DEF k

\* The end of a list is a list.
LEMMA TailIs ==
    ASSUME NEW h, NEW e, NEW c \in Seq(Expr), NEW d \in Seq(Expr), c # <<>>, d # <<>>,
           IsList(h, e, c \o d)
    PROVE  IsList(h, d[1], d) /\ cmd_last(h, d[1]) = cmd_last(h, e)
  <1> DEFINE m == Len(c)
  <1> DEFINE n == Len(d)
  <1> DEFINE k == c \o d
  <1>1. /\ Len(k) = m + n /\ m \in Nat /\ n \in Nat /\ m >= 1 /\ n >= 1
        /\ \A i \in 1..n : i + m \in 1..m + n /\ k[i + m] = d[i]
    BY JoinIs
  <1>2. /\ \A i \in 1..Len(k) - 1 : h.next[k[i]] = k[i + 1]
        /\ h.next[k[Len(k)]] = Null /\ \A i, j \in 1..Len(k) : k[i] = k[j] => i = j
        /\ cmd_last(h, e) = k[Len(k)]
    BY LastIs DEF IsList
  <1> HIDE DEF m, n, k
  <1>3. k[Len(k)] = d[n]
    <2>1. n \in 1..n /\ n + m = m + n  BY <1>1
    <2> QED  BY <1>1, <2>1
  <1>4. ASSUME NEW i \in 1..n - 1 PROVE h.next[d[i]] = d[i + 1]
    <2>1. /\ i \in 1..n /\ i + 1 \in 1..n /\ (i + 1) + m = (i + m) + 1
          /\ i + m \in 1..(m + n) - 1
      BY <1>1
    <2>2. d[i] = k[i + m] /\ d[i + 1] = k[(i + m) + 1]  BY <1>1, <2>1
    <2> QED  BY <1>1, <1>2, <2>1, <2>2
  <1>5. ASSUME NEW i \in 1..n, NEW j \in 1..n, d[i] = d[j] PROVE i = j
    <2>1. k[i + m] = k[j + m] /\ i + m \in 1..m + n /\ j + m \in 1..m + n  BY <1>1, <1>5
    <2>2. i + m = j + m  BY <1>1, <1>2, <2>1
    <2> QED  BY <1>1, <2>2
  <1>6. IsList(h, d[1], d)  BY <1>2, <1>3, <1>4, <1>5 DEF IsList, n
  <1>7. cmd_last(h, d[1]) = d[n]  BY <1>6, LastIs DEF n
  <1> QED  BY <1>2, <1>3, <1>6, <1>7
\* cmd_append()
LEMMA SetNextIs ==
    ASSUME NEW h \in Heap, NEW e \in Expr, NEW b \in Expr
    PROVE  LET g == [h EXCEPT !.next[e] = b] IN
           /\ g \in Heap /\ g.type = h.type /\ g.next[e] = b
           /\ \A x \in Expr : x # e => g.next[x] = h.next[x]
  <1>1. h.type \in [Expr -> SUBSET Flag] /\ h.next \in [Expr -> Expr \cup {Null}]  BY DEF Heap
  <1> DEFINE k == [h EXCEPT !.next[e] = b]
  <1> DEFINE t == [h.next EXCEPT ![e] = b]
  <1>2. k.type = h.type /\ k.next = t /\ k = [type |-> k.type, next |-> k.next]
    <2>1. h = [type |-> h.type, next |-> h.next]  BY DEF Heap
    <2>2. k = [h EXCEPT !.next = t]  OBVIOUS
    <2> HIDE DEF t, k
    <2>3. k = [type |-> h.type, next |-> t]  BY <2>1, <2>2
    <2> QED  BY <2>3
  <1>3. /\ t \in [Expr -> Expr \cup {Null}] /\ t[e] = b
        /\ \A x \in Expr : x # e => t[x] = h.next[x]
    BY <1>1
  <1> HIDE DEF t, k
  <1>4. /\ k \in Heap /\ k.type = h.type /\ k.next[e] = b
        /\ \A x \in Expr : x # e => k.next[x] = h.next[x]
    BY <1>1, <1>2, <1>3 DEF Heap
  <1> QED  BY <1>4 DEF k

LEMMA AppendIs ==
    ASSUME NEW h \in Heap, NEW a, NEW b, NEW c, NEW d, IsList(h, a, c), IsList(h, b, d),
           ToSet(c) \cap ToSet(d) = {}
    PROVE  Becomes(h, cmd_append(h, a, b), a, c \o d, Flags(h, c) \o Flags(h, d),
                   ToSet(c) \cup ToSet(d))
  <1> DEFINE m == Len(c)
  <1> DEFINE g == [h EXCEPT !.next[c[m]] = b]
  <1>1. /\ c \in Seq(Expr) /\ c # <<>> /\ a = c[1] /\ m \in Nat /\ m \in 1..m
        /\ c[m] \in Expr /\ c[m] \in ToSet(c)
        /\ \A i \in 1..m : c[i] \in Expr
    BY ListIs
  <1>2. d \in Seq(Expr) /\ d # <<>> /\ b = d[1] /\ b \in Expr  BY ListIs
  <1>3. g = cmd_append(h, a, b)  BY LastIs DEF cmd_append
  <1>4. /\ g \in Heap /\ g.type = h.type /\ g.next[c[m]] = b
        /\ \A x \in Expr : x # c[m] => g.next[x] = h.next[x]
    <2>1. c[m] \in Expr /\ b \in Expr  BY <1>1, <1>2
    <2> HIDE DEF m
    <2> QED  BY <2>1, SetNextIs
  <1> HIDE DEF g
  <1>5. Off(h, g, {c[m]})  BY <1>4 DEF Off
  <1>6. IsList(g, b, d)  BY <1>1, <1>5, ListKept
  <1>7. ASSUME NEW i \in 1..m - 1 PROVE g.next[c[i]] = c[i + 1]
    <2>1. i \in 1..m /\ i # m  BY <1>1
    <2>2. c[i] # c[m] /\ h.next[c[i]] = c[i + 1]  BY <1>1, <2>1 DEF IsList
    <2> QED  BY <1>1, <1>4, <2>1, <2>2
  <1>8. \A i, j \in 1..m : c[i] = c[j] => i = j  BY DEF IsList
  <1>9. IsList(g, c[1], c \o d)  BY <1>1, <1>4, <1>6, <1>7, <1>8, LinkIs
  <1>10. Flags(g, c \o d) = Flags(h, c) \o Flags(h, d)
    <2>1. Flags(g, c \o d) = Flags(h, c \o d)  BY <1>4 DEF Flags
    <2>2. Flags(h, c \o d) = Flags(h, c) \o Flags(h, d)  BY <1>1, <1>2, FlagsJoin
    <2> QED  BY <2>1, <2>2
  <1>11. Off(h, g, ToSet(c) \cup ToSet(d))  BY <1>1, <1>5 DEF Off
  <1> QED  BY <1>1, <1>3, <1>4, <1>9, <1>10, <1>11 DEF Becomes

LEMMA SetTypeAt ==
    ASSUME NEW h \in Heap, NEW e, NEW c, IsList(h, e, c), NEW i \in 1..Len(c),
           NEW F \in SUBSET Flag, NEW x, x = c[i]
    PROVE  Becomes(h, cmd_set_type(h, x, F), e, c, With(Flags(h, c), i, F), ToSet(c))
  <1> DEFINE g == cmd_set_type(h, c[i], F)
  <1>1. Typed(h, g, c, i, F)  BY SetTypeOfList
  <1> HIDE DEF g
  <1>2. /\ g \in Heap /\ g.next = h.next /\ \A y \in Expr \ {c[i]} : g.type[y] = h.type[y]
        /\ Flags(g, c) = With(Flags(h, c), i, F)
    BY <1>1 DEF Typed
  <1>3. IsList(g, e, c)  BY <1>2, SameNext
  <1>4. c[i] \in ToSet(c)  BY ListIs
  <1>5. Off(h, g, ToSet(c))  BY <1>2, <1>4 DEF Off
  <1> QED  BY <1>2, <1>3, <1>5 DEF Becomes, g

LEMMA ThenBecomes ==
    ASSUME NEW h, NEW g, NEW k, NEW U, NEW V, NEW e, NEW c, NEW f,
           Off(h, g, U), U \subseteq V, Becomes(g, k, e, c, f, V)
    PROVE  Becomes(h, k, e, c, f, V)
  BY DEF Becomes, Off

\* A condition and its block: if, elif, for, while and until.
LEMMA BranchIs ==
    ASSUME NEW h \in Heap, NEW a, NEW b, NEW c, NEW d, IsList(h, a, c), IsList(h, b, d),
           ToSet(c) \cap ToSet(d) = {}, NEW F \in SUBSET Flag
    PROVE  Becomes(h, Branch(h, a, b, F), a, c \o d,
                   With(Flags(h, c) \o Block(Flags(h, d)), 1, F), ToSet(c) \cup ToSet(d))
  <1> DEFINE p == cmd_mark_block(h, b)
  <1> DEFINE q == cmd_append(p, a, b)
  <1> DEFINE r == cmd_set_type(q, a, F)
  <1> DEFINE k == c \o d
  <1> DEFINE U == ToSet(c) \cup ToSet(d)
  <1>1. c \in Seq(Expr) /\ c # <<>> /\ a = c[1] /\ d \in Seq(Expr) /\ d # <<>>  BY ListIs
  <1>2. Becomes(h, p, b, d, Block(Flags(h, d)), ToSet(d))  BY MarkBlockIs
  <1> HIDE DEF p
  <1>3. p \in Heap /\ IsList(p, b, d) /\ Flags(p, d) = Block(Flags(h, d)) /\ Off(h, p, ToSet(d))
    BY <1>2 DEF Becomes
  <1>4. IsList(p, a, c) /\ Flags(p, c) = Flags(h, c)  BY <1>3, ListKept
  <1>5. Becomes(p, q, a, k, Flags(p, c) \o Flags(p, d), U)  BY <1>3, <1>4, AppendIs
  <1>6. Becomes(h, q, a, k, Flags(p, c) \o Flags(p, d), U)
    <2> HIDE DEF q, k
    <2> QED  BY <1>3, <1>5, ThenBecomes
  <1>7. 1 \in 1..Len(k) /\ a = k[1] /\ ToSet(k) = U  BY <1>1, JoinIs, ToSetJoin
  <1> HIDE DEF q, k
  <1>8. q \in Heap /\ IsList(q, a, k) /\ Flags(q, k) = Flags(h, c) \o Block(Flags(h, d))
        /\ Off(h, q, U)
    BY <1>3, <1>4, <1>6 DEF Becomes
  <1>9. Becomes(q, r, a, k, With(Flags(q, k), 1, F), U)
    <2>1. q \in Heap /\ IsList(q, a, k) /\ 1 \in 1..Len(k) /\ a = k[1]  BY <1>7, <1>8
    <2>2. Becomes(q, r, a, k, With(Flags(q, k), 1, F), ToSet(k))  BY <2>1, SetTypeAt
    <2> HIDE DEF r, U
    <2> QED  BY <1>7, <2>2
  <1>10. r = Branch(h, a, b, F)  BY DEF Branch, q, p
  <1> HIDE DEF r, U
  <1>11. Becomes(h, r, a, k, With(Flags(q, k), 1, F), U)  BY <1>8, <1>9, ThenBecomes
  <1> QED  BY <1>8, <1>10, <1>11 DEF k, U

\* What is appended behind the first expression of a tail is appended to the list.
LEMMA AppendToTail ==
    ASSUME NEW h, NEW a, NEW c \in Seq(Expr), NEW d \in Seq(Expr), c # <<>>, d # <<>>,
           IsList(h, a, c \o d), NEW b
    PROVE  cmd_append(h, d[1], b) = cmd_append(h, a, b)
  BY TailIs DEF cmd_append

\* The block of an else behind the block before it.
LEMMA ElseIs ==
    ASSUME NEW h \in Heap, NEW a, NEW b, NEW c \in Seq(Expr), NEW d \in Seq(Expr), NEW l,
           c # <<>>, d # <<>>, IsList(h, a, c \o d), IsList(h, b, l),
           ToSet(c \o d) \cap ToSet(l) = {}
    PROVE  Becomes(h, Else(h, d[1], b), a, (c \o d) \o l,
                   With(Flags(h, c \o d) \o Block(Flags(h, l)), Len(c \o d) + 1, {"CMD_ELSE"}),
                   ToSet(c \o d) \cup ToSet(l))
  <1> DEFINE o == c \o d
  <1> DEFINE p == cmd_mark_block(h, b)
  <1> DEFINE q == cmd_append(p, a, b)
  <1> DEFINE r == cmd_set_type(q, b, {"CMD_ELSE"})
  <1> DEFINE k == o \o l
  <1> DEFINE U == ToSet(o) \cup ToSet(l)
  <1>1. Becomes(h, p, b, l, Block(Flags(h, l)), ToSet(l))  BY MarkBlockIs
  <1> HIDE DEF p, o
  <1>2. p \in Heap /\ IsList(p, b, l) /\ Flags(p, l) = Block(Flags(h, l)) /\ Off(h, p, ToSet(l))
    BY <1>1 DEF Becomes
  <1>3. IsList(h, a, o) /\ ToSet(o) \cap ToSet(l) = {}  BY DEF o
  <1>4. IsList(p, a, o) /\ Flags(p, o) = Flags(h, o)  BY <1>2, <1>3, ListKept
  <1>5. cmd_append(p, d[1], b) = q
    <2>1. IsList(p, a, c \o d)  BY <1>4 DEF o
    <2> QED  BY <2>1, AppendToTail
  <1>6. Becomes(p, q, a, k, Flags(p, o) \o Flags(p, l), U)  BY <1>2, <1>3, <1>4, AppendIs
  <1>7. Becomes(h, q, a, k, Flags(p, o) \o Flags(p, l), U)
    <2> HIDE DEF q, k
    <2> QED  BY <1>2, <1>6, ThenBecomes
  <1>8. Len(o) + 1 \in 1..Len(k) /\ b = k[Len(o) + 1] /\ ToSet(k) = U
    <2>1. o \in Seq(Expr) /\ o # <<>> /\ l \in Seq(Expr) /\ l # <<>> /\ b = l[1]
          /\ 1 \in 1..Len(l)
      BY <1>2, <1>4, ListIs
    <2>2. /\ Len(k) = Len(o) + Len(l) /\ Len(o) \in Nat
          /\ 1 + Len(o) \in 1..Len(o) + Len(l) /\ k[1 + Len(o)] = l[1]
      BY <2>1, JoinIs
    <2>3. ToSet(k) = U  BY <2>1, ToSetJoin
    <2>4. 1 + Len(o) = Len(o) + 1  BY <2>2
    <2> HIDE DEF k, U
    <2> QED  BY <2>1, <2>2, <2>3, <2>4
  <1> HIDE DEF q, k
  <1>9. q \in Heap /\ IsList(q, a, k) /\ Flags(q, k) = Flags(h, o) \o Block(Flags(h, l))
        /\ Off(h, q, U)
    BY <1>2, <1>4, <1>7 DEF Becomes
  <1>10. {"CMD_ELSE"} \in SUBSET Flag  BY DEF Flag
  <1>11. Becomes(q, r, a, k, With(Flags(q, k), Len(o) + 1, {"CMD_ELSE"}), U)
    <2> DEFINE i == Len(o) + 1
    <2>1. /\ q \in Heap /\ IsList(q, a, k) /\ i \in 1..Len(k) /\ b = k[i]
      BY <1>8, <1>9
    <2> HIDE DEF i
    <2>2. Becomes(q, r, a, k, With(Flags(q, k), i, {"CMD_ELSE"}), ToSet(k))
      BY <1>10, <2>1, SetTypeAt
    <2> HIDE DEF r, U
    <2> QED  BY <1>8, <2>2 DEF i
  <1>12. r = Else(h, d[1], b)  BY <1>5 DEF Else, p
  <1> HIDE DEF r, U
  <1>13. Becomes(h, r, a, k, With(Flags(q, k), Len(o) + 1, {"CMD_ELSE"}), U)
    BY <1>9, <1>11, ThenBecomes
  <1> QED  BY <1>9, <1>12, <1>13 DEF k, U, o

\* cmd_pipe()
LEMMA PipeIs ==
    ASSUME NEW h \in Heap, NEW a, NEW b, NEW c, NEW d, IsList(h, a, c), IsList(h, b, d),
           ToSet(c) \cap ToSet(d) = {}
    PROVE  Becomes(h, cmd_pipe(h, a, b), a, <<a>> \o d,
                   <<Flags(h, c)[1] \cup {"PIPE_OUTPUT"}>>
                       \o With(Flags(h, d), 1, {"PIPE_INPUT"}),
                   ToSet(c) \cup ToSet(d))
  <1> DEFINE p == cmd_set_type(h, a, {"PIPE_OUTPUT"})
  <1> DEFINE q == cmd_set_type(p, b, {"PIPE_INPUT"})
  <1> DEFINE g == [q EXCEPT !.next[a] = b]
  <1>1. /\ c \in Seq(Expr) /\ c # <<>> /\ a = c[1] /\ a \in Expr /\ a \in ToSet(c)
        /\ 1 \in 1..Len(c)
    BY ListIs
  <1>2. d \in Seq(Expr) /\ d # <<>> /\ b = d[1] /\ b \in Expr /\ 1 \in 1..Len(d)  BY ListIs
  <1>3. {"PIPE_INPUT"} \in SUBSET Flag /\ {"PIPE_OUTPUT"} \in SUBSET Flag  BY DEF Flag
  <1>4. /\ p \in Heap /\ p.next = h.next /\ p.type[a] = h.type[a] \cup {"PIPE_OUTPUT"}
        /\ \A x \in Expr : x # a => p.type[x] = h.type[x]
    BY <1>1, <1>3, SetTypeIs
  <1> HIDE DEF p
  <1>5. Off(h, p, {a})  BY <1>4 DEF Off
  <1>6. IsList(p, b, d) /\ Flags(p, d) = Flags(h, d)  BY <1>1, <1>5, ListKept
  <1>7. Becomes(p, q, b, d, With(Flags(p, d), 1, {"PIPE_INPUT"}), ToSet(d))
    BY <1>2, <1>3, <1>4, <1>6, SetTypeAt
  <1> HIDE DEF q
  <1>8. /\ q \in Heap /\ IsList(q, b, d) /\ Off(p, q, ToSet(d))
        /\ Flags(q, d) = With(Flags(h, d), 1, {"PIPE_INPUT"})
    BY <1>6, <1>7 DEF Becomes
  <1>9. /\ g \in Heap /\ g.type = q.type /\ g.next[a] = b
        /\ \A x \in Expr : x # a => g.next[x] = q.next[x]
    <2>1. q \in Heap /\ a \in Expr /\ b \in Expr  BY <1>1, <1>2, <1>8
    <2> QED  BY <2>1, SetNextIs
  <1>10. g = cmd_pipe(h, a, b)  BY DEF cmd_pipe, q, p
  <1> HIDE DEF g
  <1> DEFINE s == <<a>>
  <1>11. /\ s \in Seq(Expr) /\ s # <<>> /\ Len(s) = 1 /\ s[1] = a
         /\ \A i \in 1..Len(s) : i = 1
    BY <1>1
  <1>12. ToSet(s) = {a}
    <2> HIDE DEF s
    <2>1. ToSet(s) = {s[i] : i \in 1..Len(s)}  BY <1>11, ToSetIs
    <2>2. 1 \in 1..Len(s)  BY <1>11
    <2> QED  BY <1>11, <2>1, <2>2
  <1> HIDE DEF s
  <1>13. Off(q, g, {a})  BY <1>9 DEF Off
  <1>14. IsList(g, b, d) /\ Flags(g, d) = Flags(q, d)  BY <1>1, <1>8, <1>13, ListKept
  <1>15. IsList(g, s[1], s \o d)
    <2>1. \A i \in 1..Len(s) - 1 : g.next[s[i]] = s[i + 1]  BY <1>11
    <2>2. \A i, j \in 1..Len(s) : s[i] = s[j] => i = j  BY <1>11
    <2>3. ToSet(s) \cap ToSet(d) = {} /\ g.next[s[Len(s)]] = b  BY <1>1, <1>9, <1>11, <1>12
    <2> QED  BY <1>11, <1>14, <2>1, <2>2, <2>3, LinkIs
  <1>16. Flags(g, s) = <<Flags(h, c)[1] \cup {"PIPE_OUTPUT"}>>
    <2>1. Flags(h, c)[1] = h.type[a]  BY <1>1, FlagsIs
    <2>2. g.type[a] = h.type[a] \cup {"PIPE_OUTPUT"}  BY <1>1, <1>4, <1>8, <1>9 DEF Off
    <2> DEFINE x == h.type[a] \cup {"PIPE_OUTPUT"}
    <2>3. Flags(g, s) = [i \in 1..1 |-> x]  BY <1>11, <2>2 DEF Flags
    <2> HIDE DEF x
    <2>4. Flags(g, s) = <<x>>  BY <2>3
    <2> QED  BY <2>1, <2>4 DEF x
  <1>17. Flags(g, s \o d) = Flags(g, s) \o Flags(g, d)  BY <1>2, <1>9, <1>11, FlagsJoin
  <1>18. Off(h, g, ToSet(c) \cup ToSet(d))  BY <1>1, <1>5, <1>8, <1>13 DEF Off
  <1> QED  BY <1>8, <1>9, <1>10, <1>11, <1>14, <1>15, <1>16, <1>17, <1>18 DEF Becomes, s
-----------------------------------------------------------------------------
(***************************************************************************)
(* Lists and their marks, as the reductions put them together.             *)
(***************************************************************************)

\* Flags F, no marks, are set in the first expression of a list.
FlagsSet(h, g, e, c, F) ==
    \E f : Becomes(h, g, e, c, f, ToSet(c)) /\ Marked(f) /\ f[1] = Flags(h, c)[1] \cup F

LEMMA FirstTyped ==
    ASSUME NEW h \in Heap, NEW e, NEW c, IsList(h, e, c), Marked(Flags(h, c)),
           NEW F \in SUBSET Flag, F \cap Special = {}
    PROVE  FlagsSet(h, cmd_set_type(h, e, F), e, c, F)
  <1> DEFINE f == Flags(h, c)
  <1>1. c \in Seq(Expr) /\ c # <<>> /\ e = c[1] /\ 1 \in 1..Len(c)  BY ListIs
  <1>2. f \in Seq(SUBSET Flag) /\ Len(f) = Len(c)  BY <1>1, FlagsIs
  <1>3. Becomes(h, cmd_set_type(h, e, F), e, c, With(f, 1, F), ToSet(c))  BY <1>1, SetTypeAt
  <1>4. Marked(With(f, 1, F))  BY NeutralFlags
  <1> HIDE DEF f
  <1>5. With(f, 1, F)[1] = f[1] \cup F  BY <1>1, <1>2, WithIs
  <1> QED  BY <1>3, <1>4, <1>5 DEF f, FlagsSet

LEMMA BranchMarks ==
    ASSUME NEW f, NEW g, Marked(f), Marked(g), "CMD_ELSE_IF" \notin g[1],
           NEW F \in SUBSET Flag, F \cap Special = {}
    PROVE  LET k == With(f \o Block(g), 1, F) IN
           Marked(k) /\ k[1] = f[1] \cup F /\ "CMD_END_BLOCK" \in k[Len(k)]
  <1> DEFINE b == Block(g)
  <1> DEFINE j == f \o b
  <1> DEFINE k == With(j, 1, F)
  <1>1. f \in Seq(SUBSET Flag) /\ f # <<>> /\ WellMade(f)  BY DEF Marked, WellMade
  <1>2. g \in Seq(SUBSET Flag) /\ g # <<>>  BY DEF Marked, WellMade
  <1>3. /\ WellMade(b) /\ "CMD_END_BLOCK" \in b[Len(g)]
        /\ ("CMD_ELSE_IF" \in b[1] => "CMD_ELSE_IF" \in g[1])
    BY BlockMarks
  <1>4. b \in Seq(SUBSET Flag) /\ b # <<>> /\ Len(b) = Len(g)  BY <1>2, <1>3, BlockIs DEF WellMade
  <1> HIDE DEF b
  <1>5. WellMade(j) /\ j[1] = f[1]  BY <1>1, <1>3, JoinMarks
  <1>6. /\ j \in Seq(SUBSET Flag) /\ Len(j) = Len(f) + Len(b) /\ Len(f) \in Nat /\ Len(b) \in Nat
        /\ Len(f) >= 1 /\ Len(b) >= 1
        /\ \A i \in 1..Len(b) : j[i + Len(f)] = b[i]
    <2>1. /\ f \in Seq(SUBSET Flag) /\ f # <<>> /\ b \in Seq(SUBSET Flag) /\ b # <<>>
      BY <1>1, <1>4
    <2> QED  BY <2>1, JoinIs
  <1>7. Marked(j)  BY <1>5 DEF Marked
  <1> HIDE DEF j
  <1>8. Marked(k)  BY <1>7, NeutralFlags
  <1>9. 1 \in 1..Len(j) /\ Len(j) \in 1..Len(j) /\ Len(j) # 1  BY <1>6
  <1>10. Len(k) = Len(j) /\ k[1] = j[1] \cup F /\ k[Len(j)] = j[Len(j)]  BY <1>6, <1>9, WithIs
  <1>11. "CMD_END_BLOCK" \in j[Len(j)]
    <2>1. Len(b) \in 1..Len(b) /\ Len(b) + Len(f) = Len(j)  BY <1>6
    <2>2. j[Len(j)] = b[Len(b)]  BY <1>6, <2>1
    <2> QED  BY <1>3, <1>4, <2>2
  <1> HIDE DEF k
  <1>12. Marked(k) /\ k[1] = f[1] \cup F /\ "CMD_END_BLOCK" \in k[Len(k)]
    BY <1>5, <1>8, <1>10, <1>11
  <1> QED  BY <1>12 DEF k, j, b

LEMMA ElseBlockMarks ==
    ASSUME NEW f, NEW g, Marked(f), Marked(g), "CMD_ELSE_IF" \notin g[1],
           "CMD_END_BLOCK" \in f[Len(f)]
    PROVE  LET k == With(f \o Block(g), Len(f) + 1, {"CMD_ELSE"}) IN
           Marked(k) /\ k[1] = f[1]
  <1> DEFINE b == Block(g)
  <1> DEFINE j == f \o b
  <1> DEFINE m == Len(f) + 1
  <1> DEFINE k == With(j, m, {"CMD_ELSE"})
  <1>1. f \in Seq(SUBSET Flag) /\ f # <<>> /\ WellMade(f)  BY DEF Marked, WellMade
  <1>2. WellMade(b) /\ ("CMD_ELSE_IF" \in b[1] => "CMD_ELSE_IF" \in g[1])  BY BlockMarks
  <1>3. b \in Seq(SUBSET Flag) /\ b # <<>>  BY <1>2 DEF WellMade
  <1> HIDE DEF b
  <1>4. WellMade(j) /\ j[1] = f[1]  BY <1>1, <1>2, JoinMarks
  <1>5. /\ Len(j) = Len(f) + Len(b) /\ Len(f) \in Nat /\ Len(b) \in Nat
        /\ Len(f) >= 1 /\ Len(b) >= 1
        /\ \A i \in 1..Len(f) : j[i] = f[i]
    BY <1>1, <1>3, JoinIs
  <1> HIDE DEF j
  <1>6. m \in 1..Len(j) /\ m > 1 /\ m - 1 = Len(f) /\ Len(f) \in 1..Len(f)  BY <1>5
  <1>7. "CMD_END_BLOCK" \in j[m - 1]  BY <1>5, <1>6
  <1> HIDE DEF m
  <1>8. WellMade(k) /\ k[1] = j[1]  BY <1>4, <1>6, <1>7, ElseMarks
  <1> HIDE DEF k
  <1>9. Marked(k) /\ k[1] = f[1]  BY <1>4, <1>8 DEF Marked
  <1> QED  BY <1>9 DEF k, m, j, b

\* A condition and its block have become one list.
Branched(h, g, a, c, d, F) ==
    \E f : /\ Becomes(h, g, a, c \o d, f, ToSet(c) \cup ToSet(d))
           /\ Marked(f) /\ f[1] = Flags(h, c)[1] \cup F
           /\ "CMD_END_BLOCK" \in f[Len(f)]

LEMMA BranchMakes ==
    ASSUME NEW h \in Heap, NEW a, NEW b, NEW c, NEW d, IsList(h, a, c), IsList(h, b, d),
           ToSet(c) \cap ToSet(d) = {}, Marked(Flags(h, c)), Marked(Flags(h, d)),
           "CMD_ELSE_IF" \notin Flags(h, d)[1], NEW F \in SUBSET Flag, F \cap Special = {}
    PROVE  Branched(h, Branch(h, a, b, F), a, c, d, F)
  <1> DEFINE f == With(Flags(h, c) \o Block(Flags(h, d)), 1, F)
  <1>1. Becomes(h, Branch(h, a, b, F), a, c \o d, f, ToSet(c) \cup ToSet(d))  BY BranchIs
  <1>2. Marked(f) /\ f[1] = Flags(h, c)[1] \cup F /\ "CMD_END_BLOCK" \in f[Len(f)]  BY BranchMarks
  <1> HIDE DEF f
  <1> QED  BY <1>1, <1>2 DEF Branched

\* Three lists have become one.
Joined(h, g, a, c, d, l, F) ==
    \E f : /\ Becomes(h, g, a, (c \o d) \o l, f, ToSet(c) \cup ToSet(d) \cup ToSet(l))
           /\ Marked(f) /\ f[1] = Flags(h, c)[1] \cup F
           /\ ToSet((c \o d) \o l) = ToSet(c) \cup ToSet(d) \cup ToSet(l)

\* A condition, its block and the block of an else.
LEMMA ElseMakes ==
    ASSUME NEW h \in Heap, NEW a, NEW b, NEW x, NEW c, NEW d, NEW l,
           IsList(h, a, c), IsList(h, b, d), IsList(h, x, l),
           ToSet(c) \cap ToSet(d) = {}, ToSet(c) \cap ToSet(l) = {}, ToSet(d) \cap ToSet(l) = {},
           Marked(Flags(h, c)), Marked(Flags(h, d)), Marked(Flags(h, l)),
           "CMD_ELSE_IF" \notin Flags(h, d)[1], "CMD_ELSE_IF" \notin Flags(h, l)[1],
           NEW F \in SUBSET Flag, F \cap Special = {}
    PROVE  Joined(h, Else(Branch(h, a, b, F), b, x), a, c, d, l, F)
  <1> DEFINE g == Branch(h, a, b, F)
  <1> DEFINE o == c \o d
  <1> DEFINE U == ToSet(c) \cup ToSet(d)
  <1>1. PICK p : /\ Becomes(h, g, a, o, p, U) /\ Marked(p) /\ p[1] = Flags(h, c)[1] \cup F
                 /\ "CMD_END_BLOCK" \in p[Len(p)]
    <2>1. Branched(h, g, a, c, d, F)  BY BranchMakes
    <2> HIDE DEF g
    <2> QED  BY <2>1 DEF Branched
  <1> HIDE DEF g
  <1>2. /\ c \in Seq(Expr) /\ c # <<>> /\ d \in Seq(Expr) /\ d # <<>> /\ b = d[1]
        /\ l \in Seq(Expr) /\ l # <<>>
    BY ListIs
  <1>3. ToSet(o) = U /\ o \in Seq(Expr) /\ o # <<>>  BY <1>2, ToSetJoin, JoinIs
  <1>4. g \in Heap /\ IsList(g, a, o) /\ Flags(g, o) = p /\ Off(h, g, U)  BY <1>1 DEF Becomes
  <1>5. IsList(g, x, l) /\ Flags(g, l) = Flags(h, l)
    <2>1. ToSet(l) \cap U = {}  OBVIOUS
    <2> HIDE DEF U
    <2> QED  BY <1>4, <2>1, ListKept
  <1>6. ToSet(o) \cap ToSet(l) = {}  BY <1>3
  <1> DEFINE f == With(Flags(g, o) \o Block(Flags(g, l)), Len(o) + 1, {"CMD_ELSE"})
  <1> DEFINE r == Else(g, b, x)
  <1> DEFINE V == ToSet(o) \cup ToSet(l)
  <1>7. Becomes(g, r, a, o \o l, f, V)  BY <1>2, <1>4, <1>5, <1>6, ElseIs
  <1>8. Len(p) = Len(o)  BY <1>3, <1>4, FlagsIs
  <1>9. Marked(f) /\ f[1] = p[1]
    <2> HIDE DEF o
    <2> DEFINE q == Flags(h, l)
    <2>1. f = With(p \o Block(q), Len(p) + 1, {"CMD_ELSE"})  BY <1>4, <1>5, <1>8
    <2> HIDE DEF f, q
    <2>2. Marked(q) /\ "CMD_ELSE_IF" \notin q[1]  BY DEF q
    <2> QED  BY <1>1, <2>1, <2>2, ElseBlockMarks
  <1>10. ToSet(o \o l) = V
    <2> HIDE DEF o
    <2> QED  BY <1>2, <1>3, ToSetJoin
  <1>11. V = U \cup ToSet(l)  BY <1>3
  <1>12. Becomes(h, r, a, o \o l, f, V)
    <2> HIDE DEF f, r, o, U, V
    <2> QED  BY <1>4, <1>7, <1>11, ThenBecomes
  <1> HIDE DEF f, r
  <1> QED  BY <1>1, <1>9, <1>10, <1>11, <1>12 DEF r, g, Joined

\* A condition, its block and an elif clause.
LEMMA ElifMakes ==
    ASSUME NEW h \in Heap, NEW a, NEW b, NEW x, NEW c, NEW d, NEW l,
           IsList(h, a, c), IsList(h, b, d), IsList(h, x, l),
           ToSet(c) \cap ToSet(d) = {}, ToSet(c) \cap ToSet(l) = {}, ToSet(d) \cap ToSet(l) = {},
           Marked(Flags(h, c)), Marked(Flags(h, d)), Marked(Flags(h, l)),
           "CMD_ELSE_IF" \notin Flags(h, d)[1],
           NEW F \in SUBSET Flag, F \cap Special = {}
    PROVE  Joined(h, cmd_append(Branch(h, a, b, F), b, x), a, c, d, l, F)
  <1> DEFINE g == Branch(h, a, b, F)
  <1> DEFINE o == c \o d
  <1> DEFINE U == ToSet(c) \cup ToSet(d)
  <1>1. PICK p : /\ Becomes(h, g, a, o, p, U) /\ Marked(p) /\ p[1] = Flags(h, c)[1] \cup F
                 /\ "CMD_END_BLOCK" \in p[Len(p)]
    <2>1. Branched(h, g, a, c, d, F)  BY BranchMakes
    <2> HIDE DEF g
    <2> QED  BY <2>1 DEF Branched
  <1> HIDE DEF g
  <1>2. /\ c \in Seq(Expr) /\ c # <<>> /\ d \in Seq(Expr) /\ d # <<>> /\ b = d[1]
        /\ l \in Seq(Expr) /\ l # <<>>
    BY ListIs
  <1>3. ToSet(o) = U /\ o \in Seq(Expr) /\ o # <<>>  BY <1>2, ToSetJoin, JoinIs
  <1>4. g \in Heap /\ IsList(g, a, o) /\ Flags(g, o) = p /\ Off(h, g, U)  BY <1>1 DEF Becomes
  <1>5. IsList(g, x, l) /\ Flags(g, l) = Flags(h, l)
    <2>1. ToSet(l) \cap U = {}  OBVIOUS
    <2> HIDE DEF U
    <2> QED  BY <1>4, <2>1, ListKept
  <1>6. ToSet(o) \cap ToSet(l) = {}  BY <1>3
  <1> DEFINE f == Flags(g, o) \o Flags(g, l)
  <1> DEFINE r == cmd_append(g, b, x)
  <1> DEFINE V == ToSet(o) \cup ToSet(l)
  <1>7. Becomes(g, r, a, o \o l, f, V)
    <2>1. Becomes(g, cmd_append(g, a, x), a, o \o l, f, V)  BY <1>4, <1>5, <1>6, AppendIs
    <2>2. r = cmd_append(g, a, x)  BY <1>2, <1>4, AppendToTail
    <2> QED  BY <2>1, <2>2
  <1>8. Marked(f) /\ f[1] = p[1]
    <2> DEFINE q == Flags(h, l)
    <2>1. f = p \o q  BY <1>4, <1>5
    <2> HIDE DEF f, q
    <2>2. WellMade(p) /\ WellMade(q)  BY <1>1 DEF Marked, q
    <2>3. WellMade(f) /\ f[1] = p[1]  BY <1>1, <2>1, <2>2, JoinMarks
    <2> QED  BY <1>1, <2>3 DEF Marked
  <1>9. ToSet(o \o l) = V
    <2> HIDE DEF o
    <2> QED  BY <1>2, <1>3, ToSetJoin
  <1>10. V = U \cup ToSet(l)  BY <1>3
  <1>11. Becomes(h, r, a, o \o l, f, V)
    <2> HIDE DEF f, r, o, U, V
    <2> QED  BY <1>4, <1>7, <1>10, ThenBecomes
  <1> HIDE DEF f, r
  <1> QED  BY <1>1, <1>8, <1>9, <1>10, <1>11 DEF r, g, Joined
-----------------------------------------------------------------------------
(***************************************************************************)
(* The reductions keep the invariant.                                      *)
(***************************************************************************)

\* The list of the n-th semantic value from the top, from 0.
ArgList(n) == Chain(heap, Arg(n).expr)

\* The expressions that the n values on top lead to.
Tops(n) == UNION {ToSet(ListOf(i)) : i \in Len(stack) - n + 1..Len(stack)}

\* What is known of an argument.
LEMMA ArgIs ==
    ASSUME ExprInv, NEW n \in Nat, n < Len(stack)
    PROVE  /\ IsList(heap, Arg(n).expr, ArgList(n)) /\ Marked(Flags(heap, ArgList(n)))
           /\ ToSet(ArgList(n)) \subseteq alive
           /\ "CMD_ELSE_IF" \in Flags(heap, ArgList(n))[1] => Arg(n).sym = "elif_clause"
           /\ Arg(n) \in Value /\ heap \in Heap
  <1> DEFINE i == Len(stack) - n
  <1>1. stack \in Seq(Value) /\ heap \in Heap /\ Len(stack) \in Nat  BY DEF ExprInv, TypeOK
  <1>2. i \in 1..Len(stack) /\ i \in DOMAIN stack /\ stack[i] \in Value  BY <1>1
  <1>3. Arg(n) = stack[i] /\ ArgList(n) = ListOf(i)  BY DEF Arg, ArgList, ListOf
  <1> HIDE DEF i
  <1>4. /\ IsList(heap, stack[i].expr, ListOf(i)) /\ Marked(Flags(heap, ListOf(i)))
        /\ ToSet(ListOf(i)) \subseteq alive
        /\ "CMD_ELSE_IF" \in heap.type[stack[i].expr] => stack[i].sym = "elif_clause"
    BY <1>2 DEF ExprInv, ListsInv
  <1>5. Flags(heap, ListOf(i))[1] = heap.type[stack[i].expr]  BY <1>1, <1>4, ListIs, FlagsIs
  <1> QED  BY <1>1, <1>2, <1>3, <1>4, <1>5

\* Arguments share no expression.
LEMMA ArgsApart ==
    ASSUME ExprInv, NEW n \in Nat, NEW m \in Nat, n < Len(stack), m < Len(stack), n # m
    PROVE  ToSet(ArgList(n)) \cap ToSet(ArgList(m)) = {}
  <1>1. stack \in Seq(Value) /\ Len(stack) \in Nat  BY DEF ExprInv, TypeOK
  <1>2. /\ Len(stack) - n \in DOMAIN stack /\ Len(stack) - m \in DOMAIN stack
        /\ Len(stack) - n # Len(stack) - m
    BY <1>1
  <1>3. ToSet(ListOf(Len(stack) - n)) \cap ToSet(ListOf(Len(stack) - m)) = {}
    BY <1>2 DEF ExprInv, ListsInv
  <1> QED  BY <1>3 DEF Arg, ArgList, ListOf

LEMMA TopsAre ==
    ASSUME ExprInv
    PROVE  /\ Len(stack) >= 1 => Tops(1) = ToSet(ArgList(0))
           /\ Len(stack) >= 2 => Tops(2) = ToSet(ArgList(1)) \cup ToSet(ArgList(0))
           /\ Len(stack) >= 3 => Tops(3) = ToSet(ArgList(2)) \cup ToSet(ArgList(1))
                                           \cup ToSet(ArgList(0))
  <1> DEFINE L == Len(stack)
  <1>1. L \in Nat  BY DEF ExprInv, TypeOK
  <1>2. \A n : ArgList(n) = ListOf(L - n)  BY DEF Arg, ArgList, ListOf
  <1>3. L - 0 = L  BY <1>1
  <1>4. Tops(1) = UNION {ToSet(ListOf(i)) : i \in L - 1 + 1..L}
        /\ Tops(2) = UNION {ToSet(ListOf(i)) : i \in L - 2 + 1..L}
        /\ Tops(3) = UNION {ToSet(ListOf(i)) : i \in L - 3 + 1..L}
    BY DEF Tops
  <1> HIDE DEF L
  <1>5. L - 1 + 1..L = {L}  BY <1>1
  <1>6. L - 2 + 1..L = {L - 1, L}  BY <1>1
  <1>7. L - 3 + 1..L = {L - 2, L - 1, L}  BY <1>1
  <1>8. Tops(1) = ToSet(ListOf(L))  BY <1>4, <1>5
  <1>9. Tops(2) = ToSet(ListOf(L - 1)) \cup ToSet(ListOf(L))  BY <1>4, <1>6
  <1>10. Tops(3) = ToSet(ListOf(L - 2)) \cup ToSet(ListOf(L - 1)) \cup ToSet(ListOf(L))
    BY <1>4, <1>7
  <1> QED  BY <1>2, <1>3, <1>8, <1>9, <1>10

\* The list that a reduction makes of the n values on top.
Reduced(n, sym, h, r, f) ==
    /\ Becomes(heap, h, Arg(n - 1).expr, r, f, Tops(n))
    /\ ToSet(r) \subseteq Tops(n) /\ Marked(f)
    /\ "CMD_ELSE_IF" \in f[1] => sym = "elif_clause"

\* A reduction that puts a list together keeps the invariant.
LEMMA ReplaceKept ==
    ASSUME ExprInv, NEW n \in Nat, n >= 1, n <= Len(stack), NEW sym \in Symbol, NEW h,
           NEW r, NEW f, Reduced(n, sym, h, r, f), Replace(n, sym, h), phase = "yyparse",
           cut' \in BOOLEAN, compounds' \in 0..MaxCompounds,
           ~cut' => ~cut /\ ToSet(r) = Tops(n)
    PROVE  ExprInv'
  <1> DEFINE L == Len(stack)
  <1> DEFINE a == Arg(n - 1)
  <1> DEFINE v == [sym |-> sym, expr |-> a.expr]
  <1>1. /\ stack \in Seq(Value) /\ L \in Nat /\ alive \subseteq Expr /\ born \subseteq Expr
        /\ heap \in Heap /\ command \in Expr \cup {Null}
    BY DEF ExprInv, TypeOK
  <1>0. PICK m \in Nat : m = L - n  BY <1>1
  <1>2. /\ stack' = Append(SubSeq(stack, 1, m), v) /\ heap' = h
        /\ alive' = alive /\ command' = command /\ phase' = phase /\ born' = born
    BY <1>0 DEF Replace
  <1>3. n - 1 \in Nat /\ n - 1 < L  BY <1>1
  <1>4. a \in Value  BY <1>3, ArgIs
  <1>5. v \in Value  BY <1>4 DEF Value
  <1>6. m \in Nat /\ m < L /\ m + 1 <= L  BY <1>0, <1>1
  <1> HIDE DEF a, v, L
  <1>7. /\ stack' \in Seq(Value) /\ Len(stack') = m + 1 /\ stack'[m + 1] = v
        /\ DOMAIN stack' = 1..m + 1
        /\ \A i \in 1..m : stack'[i] = stack[i] /\ i \in 1..L
    <2> DEFINE s == SubSeq(stack, 1, m)
    <2>1. /\ s \in Seq(Value) /\ Len(s) = m /\ \A i \in 1..m : s[i] = stack[i]
          /\ \A i \in 1..m : i \in 1..L
      BY <1>1, <1>6 DEF L
    <2> HIDE DEF s
    <2>2. stack' = Append(s, v)  BY <1>2 DEF s
    <2>3. /\ Append(s, v) \in Seq(Value) /\ Len(Append(s, v)) = m + 1
          /\ Append(s, v)[m + 1] = v /\ \A i \in 1..m : Append(s, v)[i] = s[i]
      BY <1>5, <1>6, <2>1
    <2>4. DOMAIN stack' = 1..m + 1  BY <2>2, <2>3
    <2> QED  BY <2>1, <2>2, <2>3, <2>4
  <1>8. DOMAIN stack = 1..L  BY <1>1 DEF L
  <1>9. /\ h \in Heap /\ IsList(h, v.expr, r) /\ Flags(h, r) = f /\ Off(heap, h, Tops(n))
        /\ ToSet(r) \subseteq Tops(n) /\ Marked(f)
        /\ "CMD_ELSE_IF" \in f[1] => v.sym = "elif_clause"
    BY DEF Reduced, Becomes, v, a
  <1>10. ASSUME NEW i \in 1..L
         PROVE  /\ IsList(heap, stack[i].expr, ListOf(i)) /\ ToSet(ListOf(i)) \subseteq alive
                /\ Marked(Flags(heap, ListOf(i)))
                /\ "CMD_ELSE_IF" \in heap.type[stack[i].expr] => stack[i].sym = "elif_clause"
    BY <1>8 DEF ExprInv, ListsInv
  <1>10a. ASSUME NEW i \in 1..L, NEW j \in 1..L, i # j
         PROVE  ToSet(ListOf(i)) \cap ToSet(ListOf(j)) = {}
    BY <1>8, <1>10a DEF ExprInv, ListsInv
  <1>11. Tops(n) = UNION {ToSet(ListOf(i)) : i \in m + 1..L}  BY <1>0 DEF Tops, L
  <1>12. Tops(n) \subseteq alive
    <2>1. \A i \in m + 1..L : i \in 1..L  BY <1>1, <1>6
    <2> QED  BY <1>10, <1>11, <2>1
  <1>13. ASSUME NEW i \in 1..m PROVE ToSet(ListOf(i)) \cap Tops(n) = {}
    <2>1. i \in 1..L /\ \A j \in m + 1..L : j \in 1..L /\ j # i  BY <1>1, <1>6
    <2>2. \A j \in m + 1..L : ToSet(ListOf(i)) \cap ToSet(ListOf(j)) = {}  BY <1>10a, <2>1
    <2> QED  BY <1>11, <2>2
  <1>14. ASSUME NEW i \in 1..m
         PROVE  /\ ListOf(i)' = ListOf(i) /\ IsList(h, stack[i].expr, ListOf(i))
                /\ Flags(h, ListOf(i)) = Flags(heap, ListOf(i))
    <2>1. i \in 1..L  BY <1>7
    <2>2. IsList(heap, stack[i].expr, ListOf(i))  BY <1>10, <2>1
    <2>3. /\ IsList(h, stack[i].expr, ListOf(i))
          /\ Flags(h, ListOf(i)) = Flags(heap, ListOf(i))
      BY <1>9, <1>13, <2>2, ListKept
    <2>4. Chain(h, stack[i].expr) = ListOf(i)  BY <2>3, ChainIs
    <2>5. ListOf(i)' = Chain(h, stack[i].expr)  BY <1>2, <1>7 DEF ListOf
    <2> QED  BY <2>3, <2>4, <2>5
  <1>15. ListOf(m + 1)' = r
    <2>1. ListOf(m + 1)' = Chain(h, v.expr)  BY <1>2, <1>7 DEF ListOf
    <2> QED  BY <1>9, <2>1, ChainIs
  <1>16. Flags(h, r)[1] = h.type[v.expr]  BY <1>9, ListIs, FlagsIs
  <1>17. \A i \in 1..m + 1 : i \in 1..m \/ i = m + 1  BY <1>6
  <1>18. ASSUME NEW i \in 1..m + 1
         PROVE  /\ IsList(heap, stack[i].expr, ListOf(i))'
                /\ (ToSet(ListOf(i)) \subseteq alive)'
                /\ Marked(Flags(heap, ListOf(i)))'
                /\ ("CMD_ELSE_IF" \in heap.type[stack[i].expr] => stack[i].sym = "elif_clause")'
    <2>1. CASE i \in 1..m
      <3>1. i \in 1..L /\ stack'[i] = stack[i]  BY <1>7, <2>1
      <3>2. IsList(h, stack[i].expr, ListOf(i))  BY <1>14, <2>1
      <3>3. h.type[stack[i].expr] = heap.type[stack[i].expr]
        <4>1. stack[i].expr \in ToSet(ListOf(i)) /\ stack[i].expr \in Expr  BY <3>2, ListIs
        <4> QED  BY <1>9, <1>13, <2>1, <4>1 DEF Off
      <3>4. ListOf(i)' = ListOf(i) /\ Flags(h, ListOf(i)) = Flags(heap, ListOf(i))
        BY <1>14, <2>1
      <3>5. /\ ToSet(ListOf(i)) \subseteq alive /\ Marked(Flags(heap, ListOf(i)))
            /\ "CMD_ELSE_IF" \in heap.type[stack[i].expr] => stack[i].sym = "elif_clause"
        BY <1>10, <3>1
      <3>6. IsList(heap, stack[i].expr, ListOf(i))'  BY <1>2, <3>1, <3>2, <3>4
      <3>7. (ToSet(ListOf(i)) \subseteq alive)'  BY <1>2, <3>4, <3>5
      <3>8. Marked(Flags(heap, ListOf(i)))'  BY <1>2, <3>4, <3>5
      <3>9. ("CMD_ELSE_IF" \in heap.type[stack[i].expr] => stack[i].sym = "elif_clause")'
        BY <1>2, <3>1, <3>3, <3>5
      <3> QED  BY <3>6, <3>7, <3>8, <3>9
    <2>2. CASE i = m + 1
      <3>1. IsList(heap, stack[i].expr, ListOf(i))'  BY <1>2, <1>7, <1>9, <1>15, <2>2
      <3>2. (ToSet(ListOf(i)) \subseteq alive)'  BY <1>2, <1>9, <1>12, <1>15, <2>2
      <3>3. Marked(Flags(heap, ListOf(i)))'  BY <1>2, <1>9, <1>15, <2>2
      <3>4. ("CMD_ELSE_IF" \in heap.type[stack[i].expr] => stack[i].sym = "elif_clause")'
        BY <1>2, <1>7, <1>9, <1>16, <2>2
      <3> QED  BY <3>1, <3>2, <3>3, <3>4
    <2> QED  BY <1>17, <2>1, <2>2
  <1>19. ASSUME NEW i \in 1..m + 1, NEW j \in 1..m + 1, i # j
         PROVE  (ToSet(ListOf(i)) \cap ToSet(ListOf(j)) = {})'
    <2>1. CASE i \in 1..m /\ j \in 1..m
      <3>1. ToSet(ListOf(i)) \cap ToSet(ListOf(j)) = {}  BY <1>7, <1>10a, <1>19, <2>1
      <3> QED  BY <1>14, <2>1, <3>1
    <2>2. CASE i \in 1..m /\ j = m + 1
      <3>1. ToSet(ListOf(i)) \cap ToSet(r) = {}  BY <1>9, <1>13, <2>2
      <3> QED  BY <1>14, <1>15, <2>2, <3>1
    <2>3. CASE i = m + 1 /\ j \in 1..m
      <3>1. ToSet(ListOf(j)) \cap ToSet(r) = {}  BY <1>9, <1>13, <2>3
      <3> QED  BY <1>14, <1>15, <2>3, <3>1
    <2> QED  BY <1>17, <1>19, <2>1, <2>2, <2>3
  <1>20. ListsInv'  BY <1>7, <1>18, <1>19 DEF ListsInv
  <1>21. KeptInv'
    <2> SUFFICES ASSUME ~cut'
                 PROVE  born' = UNION {ToSet(ListOf(i)') : i \in 1..m + 1}
      BY <1>7 DEF KeptInv
    <2>1. ~cut /\ ToSet(r) = Tops(n)  OBVIOUS
    <2>2. born = UNION {ToSet(ListOf(i)) : i \in 1..L}  BY <1>8, <2>1 DEF ExprInv, KeptInv
    <2>3. \A i \in 1..L : i \in 1..m \/ i \in m + 1..L  BY <1>1, <1>6
    <2>4. (\A i \in 1..m : i \in 1..L) /\ (\A i \in m + 1..L : i \in 1..L)  BY <1>1, <1>6
    <2>5. born = (UNION {ToSet(ListOf(i)) : i \in 1..m}) \cup Tops(n)
      BY <1>11, <2>2, <2>3, <2>4
    <2>6. \A i \in 1..m : i \in 1..m + 1  BY <1>6
    <2>7. m + 1 \in 1..m + 1  BY <1>6
    <2>8. \A i \in 1..m : ToSet(ListOf(i)') = ToSet(ListOf(i))  BY <1>14
    <2>9. ToSet(ListOf(m + 1)') = Tops(n)  BY <1>15, <2>1
    <2>10. UNION {ToSet(ListOf(i)') : i \in 1..m + 1}
              = (UNION {ToSet(ListOf(i)) : i \in 1..m}) \cup Tops(n)
      BY <1>17, <2>6, <2>7, <2>8, <2>9
    <2> QED  BY <1>2, <2>5, <2>10
  <1>22. EndInv'  BY <1>2 DEF EndInv
  <1>23. TypeOK'  BY <1>1, <1>2, <1>7, <1>9 DEF TypeOK
  <1> QED  BY <1>20, <1>21, <1>22, <1>23 DEF ExprInv
LEMMA Top1 ==
    ASSUME ExprInv, NEW A, TopAre(<<A>>)
    PROVE  phase = "yyparse" /\ Len(stack) \in Nat /\ Len(stack) >= 1 /\ Arg(0).sym \in A
  <1>1. Len(stack) \in Nat  BY DEF ExprInv, TypeOK
  <1>2. Len(<<A>>) = 1 /\ 1 \in 1..1 /\ 1 - 1 = 0 /\ <<A>>[1] = A  OBVIOUS
  <1> QED  BY <1>1, <1>2 DEF TopAre

LEMMA Top2 ==
    ASSUME ExprInv, NEW A, NEW B, TopAre(<<A, B>>)
    PROVE  /\ phase = "yyparse" /\ Len(stack) \in Nat /\ Len(stack) >= 2
           /\ Arg(1).sym \in A /\ Arg(0).sym \in B
  <1>1. Len(stack) \in Nat  BY DEF ExprInv, TypeOK
  <1>2. Len(<<A, B>>) = 2 /\ 1 \in 1..2 /\ 2 \in 1..2 /\ 2 - 1 = 1 /\ 2 - 2 = 0
        /\ <<A, B>>[1] = A /\ <<A, B>>[2] = B
    OBVIOUS
  <1> QED  BY <1>1, <1>2 DEF TopAre

LEMMA Top3 ==
    ASSUME ExprInv, NEW A, NEW B, NEW C, TopAre(<<A, B, C>>)
    PROVE  /\ phase = "yyparse" /\ Len(stack) \in Nat /\ Len(stack) >= 3
           /\ Arg(2).sym \in A /\ Arg(1).sym \in B /\ Arg(0).sym \in C
  <1>1. Len(stack) \in Nat  BY DEF ExprInv, TypeOK
  <1>2. Len(<<A, B, C>>) = 3 /\ 1 \in 1..3 /\ 2 \in 1..3 /\ 3 \in 1..3
        /\ 3 - 1 = 2 /\ 3 - 2 = 1 /\ 3 - 3 = 0
        /\ <<A, B, C>>[1] = A /\ <<A, B, C>>[2] = B /\ <<A, B, C>>[3] = C
    OBVIOUS
  <1> QED  BY <1>1, <1>2 DEF TopAre

\* The kinds of nonterminals.
LEMMA Kinds ==
    /\ Pipelines \subseteq Symbol /\ AndOrs \subseteq Symbol /\ Lists \subseteq Symbol
    /\ Compounds \subseteq Symbol
    /\ "elif_clause" \notin Pipelines /\ "elif_clause" \notin AndOrs
    /\ "elif_clause" \notin Lists /\ "elif_clause" \notin Compounds
    /\ {"command", "pipeline", "and_or", "simple_list1", "list1", "shell_command",
        "elif_clause"} \subseteq Symbol
  BY DEF Symbol, Compounds, Lists, AndOrs, Pipelines

\* What Reduce, ReduceCompound and ReduceCutting leave of a reduction's history.
LEMMA ReduceIs ==
    ASSUME ExprInv, NEW n, NEW sym, NEW h
    PROVE  /\ Reduce(n, sym, h)
                 => Replace(n, sym, h) /\ cut' = cut /\ compounds' \in 0..MaxCompounds
           /\ ReduceCompound(n, sym, h)
                 => Replace(n, sym, h) /\ cut' = cut /\ compounds' \in 0..MaxCompounds
           /\ cut \in BOOLEAN /\ compounds \in 0..MaxCompounds
  <1>1. cut \in BOOLEAN /\ compounds \in 0..MaxCompounds  BY DEF ExprInv, TypeOK
  <1>2. compounds < MaxCompounds => compounds + 1 \in 0..MaxCompounds
    BY <1>1, CompoundsAssumption
  <1> QED  BY <1>1, <1>2 DEF Reduce, ReduceCompound

\* A reduction of the value on top that sets flags, but no mark.
LEMMA FlagsKeepInv ==
    ASSUME ExprInv, NEW sym \in Symbol, NEW F \in SUBSET Flag, F \cap Special = {},
           "CMD_ELSE_IF" \notin F, phase = "yyparse", Len(stack) >= 1,
           Arg(0).sym # "elif_clause",
           Replace(1, sym, cmd_set_type(heap, Arg(0).expr, F)),
           cut' = cut, compounds' \in 0..MaxCompounds
    PROVE  ExprInv'
  <1> DEFINE c == ArgList(0)
  <1> DEFINE e == Arg(0).expr
  <1>1. Len(stack) \in Nat /\ cut \in BOOLEAN  BY DEF ExprInv, TypeOK
  <1>2. /\ IsList(heap, e, c) /\ Marked(Flags(heap, c)) /\ heap \in Heap
        /\ "CMD_ELSE_IF" \notin Flags(heap, c)[1]
    BY <1>1, ArgIs
  <1> HIDE DEF c, e
  <1>3. PICK f : /\ Becomes(heap, cmd_set_type(heap, e, F), e, c, f, ToSet(c))
                 /\ Marked(f) /\ f[1] = Flags(heap, c)[1] \cup F
    <2>1. FlagsSet(heap, cmd_set_type(heap, e, F), e, c, F)  BY <1>2, FirstTyped
    <2> QED  BY <2>1 DEF FlagsSet
  <1>4. Tops(1) = ToSet(c)  BY <1>1, TopsAre DEF c
  <1>5. Reduced(1, sym, cmd_set_type(heap, e, F), c, f)
    <2>1. 1 - 1 = 0  OBVIOUS
    <2> QED  BY <1>2, <1>3, <1>4, <2>1 DEF Reduced, e
  <1>6. Replace(1, sym, cmd_set_type(heap, e, F))  BY DEF e
  <1> HIDE DEF Tops
  <1>7. 1 \in Nat /\ 1 >= 1 /\ 1 <= Len(stack)  BY <1>1
  <1> QED  BY <1>1, <1>4, <1>5, <1>6, <1>7, ReplaceKept

LEMMA SimpleCommandKeeps ==
    ASSUME ExprInv, SimpleCommand PROVE ExprInv'
  <1> DEFINE L == Len(stack)
  <1>1. /\ stack \in Seq(Value) /\ L \in Nat /\ alive \subseteq Expr /\ born \subseteq Expr
        /\ heap \in Heap /\ command \in Expr \cup {Null} /\ cut \in BOOLEAN
        /\ compounds \in 0..MaxCompounds
    BY DEF ExprInv, TypeOK
  <1> DEFINE F == {"CMD_SIMPLE", "CMD"}
  <1> DEFINE v(e) == [sym |-> "command", expr |-> e]
  <1>2. PICK e \in Expr \ alive :
          /\ heap' = cmd_set_type(cmd_create(heap, e), e, F)
          /\ alive' = alive \cup {e} /\ born' = born \cup {e}
          /\ stack' = Append(stack, v(e))
    BY DEF SimpleCommand
  <1>3. /\ phase = "yyparse" /\ phase' = phase /\ command' = command /\ cut' = cut
        /\ compounds' = compounds
    BY DEF SimpleCommand
  <1>4. F \in SUBSET Flag  BY DEF Flag
  <1> DEFINE g == cmd_create(heap, e)
  <1>5. /\ g \in Heap /\ g.type[e] = {} /\ g.next[e] = Null
        /\ \A x \in Expr : x # e => g.type[x] = heap.type[x] /\ g.next[x] = heap.next[x]
    <2>1. heap.type \in [Expr -> SUBSET Flag] /\ heap.next \in [Expr -> Expr \cup {Null}]
      BY <1>1 DEF Heap
    <2> DEFINE t == [heap.type EXCEPT ![e] = {}]
    <2> DEFINE x == [heap.next EXCEPT ![e] = Null]
    <2>2. /\ t \in [Expr -> SUBSET Flag] /\ t[e] = {}
          /\ \A y \in Expr : y # e => t[y] = heap.type[y]
      BY <2>1
    <2>3. /\ x \in [Expr -> Expr \cup {Null}] /\ x[e] = Null
          /\ \A y \in Expr : y # e => x[y] = heap.next[y]
      BY <2>1
    <2>4. g = [type |-> t, next |-> x]  BY DEF cmd_create
    <2> HIDE DEF t, x, g
    <2> QED  BY <2>2, <2>3, <2>4 DEF Heap
  <1> HIDE DEF g, F
  <1>6. /\ heap' \in Heap /\ heap'.next = g.next /\ heap'.type[e] = g.type[e] \cup F
        /\ \A x \in Expr : x # e => heap'.type[x] = g.type[x]
    <2>1. heap' = cmd_set_type(g, e, F)  BY <1>2 DEF g
    <2>2. g \in Heap /\ e \in Expr  BY <1>2, <1>5
    <2>3. /\ cmd_set_type(g, e, F) \in Heap /\ cmd_set_type(g, e, F).next = g.next
          /\ cmd_set_type(g, e, F).type[e] = g.type[e] \cup F
          /\ \A x \in Expr : x # e => cmd_set_type(g, e, F).type[x] = g.type[x]
      BY <1>4, <2>2, SetTypeIs
    <2> QED  BY <2>1, <2>3
  <1>7. Off(heap, heap', {e})  BY <1>5, <1>6 DEF Off
  <1>8. v(e) \in Value
    <2>1. "command" \in Symbol /\ e \in Expr  BY <1>2, Kinds
    <2> QED  BY <2>1 DEF Value
  <1> DEFINE r == <<e>>
  <1>9. /\ r \in Seq(Expr) /\ r # <<>> /\ Len(r) = 1 /\ r[1] = e /\ \A i \in 1..Len(r) : i = 1
    OBVIOUS
  <1>10. ToSet(r) = {e}
    <2> HIDE DEF r
    <2>1. ToSet(r) = {r[i] : i \in 1..Len(r)} /\ 1 \in 1..Len(r)  BY <1>9, ToSetIs
    <2> QED  BY <1>9, <2>1
  <1> HIDE DEF r, L
  <1>11. IsList(heap', e, r)  BY <1>5, <1>6, <1>9 DEF IsList
  <1>12. Marked(Flags(heap', r)) /\ "CMD_ELSE_IF" \notin heap'.type[e]
    <2> DEFINE f == Flags(heap', r)
    <2>1. f \in Seq(SUBSET Flag) /\ Len(f) = 1 /\ f # <<>> /\ f[1] = heap'.type[e]
      BY <1>6, <1>9, FlagsIs
    <2>2. f[1] = F  BY <1>5, <1>6, <2>1
    <2> HIDE DEF f
    <2>3. \A i \in 1..Len(f) : f[i] = F  BY <2>1, <2>2
    <2>4. Paired(f)  BY <2>3 DEF Paired, F
    <2>5. Bracketed(f)  BY <2>3 DEF Bracketed, F
    <2>6. Scoped(f)
      <3> DEFINE s == [i \in 0..1 |-> 0]
      <3>1. s \in [0..1 -> Nat] /\ s[0] = 0 /\ s[1] = 0  OBVIOUS
      <3>2. Opens(F) = 0 /\ Closes(F) = 0  BY DEF Opens, Closes, F
      <3>3. Height(f, s)
        <4> HIDE DEF s
        <4>1. \A i \in 1..Len(f) : i = 1 /\ i - 1 = 0  BY <2>1
        <4>2. \A i \in 1..Len(f) : s[i] = s[i - 1] + Opens(f[i]) - Closes(f[i])
          BY <2>3, <3>1, <3>2, <4>1
        <4> QED  BY <2>1, <3>1, <4>2 DEF Height
      <3> HIDE DEF s
      <3> QED  BY <2>1, <2>3, <3>1, <3>3 DEF Scoped, F
    <2> QED  BY <2>1, <2>2, <2>4, <2>5, <2>6 DEF Marked, WellMade, f, F
  <1>13. /\ stack' \in Seq(Value) /\ Len(stack') = L + 1 /\ DOMAIN stack' = 1..L + 1
         /\ stack'[L + 1] = v(e) /\ \A i \in 1..L : stack'[i] = stack[i]
    <2>1. DOMAIN stack = 1..Len(stack)  BY <1>1
    <2> HIDE DEF v
    <2> QED  BY <1>1, <1>2, <1>8, <2>1 DEF L
  <1>14. PICK m \in Nat : m = L  BY <1>1
  <1>15. DOMAIN stack = 1..m  BY <1>1, <1>14 DEF L
  <1>16. ASSUME NEW i \in 1..m
         PROVE  /\ IsList(heap, stack[i].expr, ListOf(i)) /\ ToSet(ListOf(i)) \subseteq alive
                /\ Marked(Flags(heap, ListOf(i)))
                /\ "CMD_ELSE_IF" \in heap.type[stack[i].expr] => stack[i].sym = "elif_clause"
    BY <1>15 DEF ExprInv, ListsInv
  <1>17. ASSUME NEW i \in 1..m, NEW j \in 1..m, i # j
         PROVE  ToSet(ListOf(i)) \cap ToSet(ListOf(j)) = {}
    BY <1>15, <1>17 DEF ExprInv, ListsInv
  <1>18. ASSUME NEW i \in 1..m
         PROVE  /\ ListOf(i)' = ListOf(i) /\ IsList(heap', stack[i].expr, ListOf(i))
                /\ Flags(heap', ListOf(i)) = Flags(heap, ListOf(i)) /\ e \notin ToSet(ListOf(i))
    <2>1. IsList(heap, stack[i].expr, ListOf(i)) /\ ToSet(ListOf(i)) \cap {e} = {}
      BY <1>2, <1>16
    <2>2. /\ IsList(heap', stack[i].expr, ListOf(i))
          /\ Flags(heap', ListOf(i)) = Flags(heap, ListOf(i))
      BY <1>7, <2>1, ListKept
    <2>3. Chain(heap', stack[i].expr) = ListOf(i)  BY <2>2, ChainIs
    <2>4. ListOf(i)' = Chain(heap', stack[i].expr)  BY <1>13, <1>14 DEF ListOf
    <2> QED  BY <2>1, <2>2, <2>3, <2>4
  <1>19. ListOf(m + 1)' = r
    <2>1. ListOf(m + 1)' = Chain(heap', e)  BY <1>13, <1>14 DEF ListOf
    <2> QED  BY <1>11, <2>1, ChainIs
  <1>20. \A i \in 1..m + 1 : i \in 1..m \/ i = m + 1  OBVIOUS
  <1>21. ASSUME NEW i \in 1..m + 1
         PROVE  /\ IsList(heap, stack[i].expr, ListOf(i))'
                /\ (ToSet(ListOf(i)) \subseteq alive)'
                /\ Marked(Flags(heap, ListOf(i)))'
                /\ ("CMD_ELSE_IF" \in heap.type[stack[i].expr] => stack[i].sym = "elif_clause")'
    <2>1. CASE i \in 1..m
      <3>1. stack'[i] = stack[i]  BY <1>13, <1>14, <2>1
      <3>2. IsList(heap', stack[i].expr, ListOf(i))  BY <1>18, <2>1
      <3>3. heap'.type[stack[i].expr] = heap.type[stack[i].expr]
        <4>1. stack[i].expr \in ToSet(ListOf(i)) /\ stack[i].expr \in Expr  BY <3>2, ListIs
        <4> QED  BY <1>7, <1>18, <2>1, <4>1 DEF Off
      <3>4. ListOf(i)' = ListOf(i) /\ Flags(heap', ListOf(i)) = Flags(heap, ListOf(i))
        BY <1>18, <2>1
      <3>5. /\ ToSet(ListOf(i)) \subseteq alive /\ Marked(Flags(heap, ListOf(i)))
            /\ "CMD_ELSE_IF" \in heap.type[stack[i].expr] => stack[i].sym = "elif_clause"
        BY <1>16, <2>1
      <3>6. IsList(heap, stack[i].expr, ListOf(i))'  BY <3>1, <3>2, <3>4
      <3>7. (ToSet(ListOf(i)) \subseteq alive)'  BY <1>2, <3>4, <3>5
      <3>8. Marked(Flags(heap, ListOf(i)))'  BY <3>4, <3>5
      <3>9. ("CMD_ELSE_IF" \in heap.type[stack[i].expr] => stack[i].sym = "elif_clause")'
        BY <3>1, <3>3, <3>5
      <3> QED  BY <3>6, <3>7, <3>8, <3>9
    <2>2. CASE i = m + 1
      <3>1. stack'[i].expr = e /\ ListOf(i)' = r  BY <1>13, <1>14, <1>19, <2>2
      <3>2. IsList(heap, stack[i].expr, ListOf(i))'  BY <1>11, <3>1
      <3>3. (ToSet(ListOf(i)) \subseteq alive)'  BY <1>2, <1>10, <3>1
      <3>4. Marked(Flags(heap, ListOf(i)))'  BY <1>12, <3>1
      <3>5. ("CMD_ELSE_IF" \in heap.type[stack[i].expr] => stack[i].sym = "elif_clause")'
        BY <1>12, <3>1
      <3> QED  BY <3>2, <3>3, <3>4, <3>5
    <2> QED  BY <1>20, <2>1, <2>2
  <1>22. ASSUME NEW i \in 1..m + 1, NEW j \in 1..m + 1, i # j
         PROVE  (ToSet(ListOf(i)) \cap ToSet(ListOf(j)) = {})'
    <2>1. CASE i \in 1..m /\ j \in 1..m  BY <1>17, <1>18, <1>22, <2>1
    <2>2. CASE i \in 1..m /\ j = m + 1  BY <1>10, <1>18, <1>19, <2>2
    <2>3. CASE i = m + 1 /\ j \in 1..m  BY <1>10, <1>18, <1>19, <2>3
    <2> QED  BY <1>20, <1>22, <2>1, <2>2, <2>3
  <1>23. ListsInv'  BY <1>13, <1>14, <1>21, <1>22 DEF ListsInv
  <1>24. KeptInv'
    <2> SUFFICES ASSUME ~cut
                 PROVE  born' = UNION {ToSet(ListOf(i)') : i \in 1..m + 1}
      BY <1>3, <1>13, <1>14 DEF KeptInv
    <2>1. born = UNION {ToSet(ListOf(i)) : i \in 1..m}  BY <1>3, <1>15 DEF ExprInv, KeptInv
    <2>2. (\A i \in 1..m : i \in 1..m + 1) /\ m + 1 \in 1..m + 1  OBVIOUS
    <2>3. \A i \in 1..m : ToSet(ListOf(i)') = ToSet(ListOf(i))  BY <1>18
    <2>4. ToSet(ListOf(m + 1)') = {e}  BY <1>10, <1>19
    <2>5. UNION {ToSet(ListOf(i)') : i \in 1..m + 1}
              = (UNION {ToSet(ListOf(i)) : i \in 1..m}) \cup {e}
      BY <1>20, <2>2, <2>3, <2>4
    <2> QED  BY <1>2, <2>1, <2>5
  <1>25. EndInv'  BY <1>3 DEF EndInv
  <1>26. TypeOK'  BY <1>1, <1>2, <1>3, <1>6, <1>13 DEF TypeOK
  <1> QED  BY <1>23, <1>24, <1>25, <1>26 DEF ExprInv
LEMMA ShellCommandKeeps ==
    ASSUME ExprInv, ShellCommand PROVE ExprInv'
  <1>1. TopAre(<<{"shell_command"}>>) /\ Reduce(1, "command", cmd_set_type(heap, Arg(0).expr, {"CMD"}))
    BY DEF ShellCommand
  <1>2. phase = "yyparse" /\ Len(stack) >= 1 /\ Arg(0).sym = "shell_command"  BY <1>1, Top1
  <1>3. /\ Replace(1, "command", cmd_set_type(heap, Arg(0).expr, {"CMD"}))
        /\ cut' = cut /\ compounds' \in 0..MaxCompounds
    BY <1>1, ReduceIs
  <1>4. {"CMD"} \in SUBSET Flag /\ {"CMD"} \cap Special = {} /\ "CMD_ELSE_IF" \notin {"CMD"}
        /\ "command" \in Symbol
    BY Kinds DEF Flag, Special
  <1> QED  BY <1>2, <1>3, <1>4, FlagsKeepInv

LEMMA GroupingKeeps ==
    ASSUME ExprInv, Grouping PROVE ExprInv'
  <1>1. TopAre(<<Compounds>>)  BY DEF Grouping
  <1>2. PICK x \in {"CMD_SUBSHELL", "CMD_GROUP"} :
           ReduceCompound(1, "shell_command", cmd_set_type(heap, Arg(0).expr, {x, "CMD_SHELL"}))
    BY DEF Grouping
  <1> DEFINE F == {x, "CMD_SHELL"}
  <1>3. phase = "yyparse" /\ Len(stack) >= 1 /\ Arg(0).sym # "elif_clause"  BY <1>1, Top1, Kinds
  <1>4. /\ Replace(1, "shell_command", cmd_set_type(heap, Arg(0).expr, F))
        /\ cut' = cut /\ compounds' \in 0..MaxCompounds
    BY <1>2, ReduceIs
  <1>5. F \in SUBSET Flag /\ F \cap Special = {} /\ "CMD_ELSE_IF" \notin F  BY DEF Flag, Special
  <1>6. "shell_command" \in Symbol  BY Kinds
  <1> HIDE DEF F
  <1> QED  BY <1>3, <1>4, <1>5, <1>6, FlagsKeepInv

LEMMA FunctionDefKeeps ==
    ASSUME ExprInv, FunctionDef PROVE ExprInv'
  <1> DEFINE c == ArgList(0)
  <1> DEFINE e == Arg(0).expr
  <1> DEFINE p == cmd_mark_function(heap, e)
  <1> DEFINE g == cmd_set_type(p, e, {"CMD"})
  <1>1. TopAre(<<{"shell_command"}>>) /\ Reduce(1, "command", g)  BY DEF FunctionDef
  <1>2. /\ phase = "yyparse" /\ Len(stack) \in Nat /\ Len(stack) >= 1
        /\ Arg(0).sym = "shell_command"
    BY <1>1, Top1
  <1>3. Replace(1, "command", g) /\ cut' = cut /\ compounds' \in 0..MaxCompounds /\ cut \in BOOLEAN
    BY <1>1, ReduceIs
  <1>4. /\ IsList(heap, e, c) /\ Marked(Flags(heap, c)) /\ heap \in Heap
        /\ "CMD_ELSE_IF" \notin Flags(heap, c)[1]
    BY <1>2, ArgIs
  <1>5. Tops(1) = ToSet(c)  BY <1>2, TopsAre
  <1> HIDE DEF c
  <1>6. Becomes(heap, p, e, c, Function(Flags(heap, c)), ToSet(c))  BY <1>4, MarkFunctionIs
  <1> HIDE DEF p
  <1>7. /\ p \in Heap /\ IsList(p, e, c) /\ Off(heap, p, ToSet(c))
        /\ Flags(p, c) = Function(Flags(heap, c))
    BY <1>6 DEF Becomes
  <1>8. Marked(Flags(p, c)) /\ "CMD_ELSE_IF" \notin Flags(p, c)[1]  BY <1>4, <1>7, FunctionMarks
  <1>9. {"CMD"} \in SUBSET Flag /\ {"CMD"} \cap Special = {}  BY DEF Flag, Special
  <1>10. FlagsSet(p, g, e, c, {"CMD"})  BY <1>7, <1>8, <1>9, FirstTyped
  <1> HIDE DEF g
  <1>11. PICK f : /\ Becomes(p, g, e, c, f, ToSet(c)) /\ Marked(f)
                  /\ f[1] = Flags(p, c)[1] \cup {"CMD"}
    BY <1>10 DEF FlagsSet
  <1>12. Becomes(heap, g, e, c, f, ToSet(c))  BY <1>7, <1>11, ThenBecomes
  <1>13. Reduced(1, "command", g, c, f)
    <2>1. 1 - 1 = 0  OBVIOUS
    <2> QED  BY <1>5, <1>8, <1>11, <1>12, <2>1 DEF Reduced
  <1>14. "command" \in Symbol /\ 1 \in Nat /\ 1 >= 1 /\ 1 <= Len(stack)  BY <1>2, Kinds
  <1> HIDE DEF e
  <1> QED  BY <1>2, <1>3, <1>5, <1>13, <1>14, ReplaceKept

\* if and elif without else, for, while and until
LEMMA BranchKeeps ==
    ASSUME ExprInv, NEW sym \in Symbol, NEW F \in SUBSET Flag, F \cap Special = {},
           "CMD_ELSE_IF" \in F => sym = "elif_clause", phase = "yyparse",
           Len(stack) \in Nat, Len(stack) >= 2, Arg(1).sym # "elif_clause", Arg(0).sym # "elif_clause",
           ReduceCompound(2, sym, Branch(heap, Arg(1).expr, Arg(0).expr, F))
    PROVE  ExprInv'
  <1> DEFINE c == ArgList(1)
  <1> DEFINE d == ArgList(0)
  <1> DEFINE a == Arg(1).expr
  <1> DEFINE b == Arg(0).expr
  <1> DEFINE g == Branch(heap, a, b, F)
  <1>1. /\ IsList(heap, a, c) /\ Marked(Flags(heap, c)) /\ "CMD_ELSE_IF" \notin Flags(heap, c)[1]
        /\ heap \in Heap
    BY ArgIs
  <1>2. IsList(heap, b, d) /\ Marked(Flags(heap, d)) /\ "CMD_ELSE_IF" \notin Flags(heap, d)[1]
    BY ArgIs
  <1>3. ToSet(c) \cap ToSet(d) = {}  BY ArgsApart
  <1>4. Tops(2) = ToSet(c) \cup ToSet(d)  BY TopsAre
  <1>5. Replace(2, sym, g) /\ cut' = cut /\ compounds' \in 0..MaxCompounds /\ cut \in BOOLEAN
    BY ReduceIs
  <1> HIDE DEF c, d, b
  <1>6. Branched(heap, g, a, c, d, F)  BY <1>1, <1>2, <1>3, BranchMakes
  <1> HIDE DEF g
  <1>7. PICK f : /\ Becomes(heap, g, a, c \o d, f, ToSet(c) \cup ToSet(d))
                 /\ Marked(f) /\ f[1] = Flags(heap, c)[1] \cup F
    BY <1>6 DEF Branched
  <1>8. ToSet(c \o d) = Tops(2)
    <2>1. c \in Seq(Expr) /\ c # <<>> /\ d \in Seq(Expr) /\ d # <<>>  BY <1>1, <1>2, ListIs
    <2>2. ToSet(c \o d) = ToSet(c) \cup ToSet(d)  BY <2>1, ToSetJoin
    <2> QED  BY <1>4, <2>2
  <1> DEFINE r == c \o d
  <1> HIDE DEF r
  <1>9. Reduced(2, sym, g, r, f)
    <2>1. 2 - 1 = 1  OBVIOUS
    <2>2. Becomes(heap, g, a, r, f, Tops(2))  BY <1>4, <1>7 DEF r
    <2>3. "CMD_ELSE_IF" \in f[1] => sym = "elif_clause"  BY <1>1, <1>7
    <2> QED  BY <1>7, <1>8, <2>1, <2>2, <2>3 DEF Reduced, r
  <1>10. ToSet(r) = Tops(2)  BY <1>8 DEF r
  <1>11. 2 \in Nat /\ 2 >= 1 /\ 2 <= Len(stack)  OBVIOUS
  <1> QED  BY <1>5, <1>9, <1>10, <1>11, ReplaceKept

LEMMA LoopKeeps ==
    ASSUME ExprInv, Loop PROVE ExprInv'
  <1>1. TopAre(<<{"command"}, Compounds>>)  BY DEF Loop
  <1>2. PICK F \in {{"CMD_FOR", "CMD_SHELL"}, {"CMD_WHILE"}, {"CMD_UNTIL"}} :
           ReduceCompound(2, "shell_command", Branch(heap, Arg(1).expr, Arg(0).expr, F))
    BY DEF Loop, Branch
  <1>3. F \in SUBSET Flag /\ F \cap Special = {} /\ "CMD_ELSE_IF" \notin F  BY DEF Flag, Special
  <1>4. /\ phase = "yyparse" /\ Len(stack) \in Nat /\ Len(stack) >= 2
        /\ Arg(1).sym # "elif_clause" /\ Arg(0).sym # "elif_clause" /\ "shell_command" \in Symbol
    BY <1>1, Top2, Kinds
  <1> QED  BY <1>2, <1>3, <1>4, BranchKeeps

LEMMA ConditionalKeeps ==
    ASSUME ExprInv, NEW sym \in {"shell_command", "elif_clause"}, NEW F \in SUBSET Flag,
           F \cap Special = {}, "CMD_ELSE_IF" \in F => sym = "elif_clause", Conditional(sym, F)
    PROVE  ExprInv'
  <1>0. sym \in Symbol  BY Kinds
  <1> DEFINE A == <<Compounds, Compounds, Compounds>>
  <1> DEFINE B == <<Compounds, Compounds, {"elif_clause"}>>
  <1> DEFINE c == ArgList(2)
  <1> DEFINE d == ArgList(1)
  <1> DEFINE l == ArgList(0)
  <1> DEFINE a == Arg(2).expr
  <1> DEFINE b == Arg(1).expr
  <1> DEFINE x == Arg(0).expr
  <1> DEFINE g1 == Else(Branch(heap, a, b, F), b, x)
  <1> DEFINE g2 == cmd_append(Branch(heap, a, b, F), b, x)
  <1>1. ASSUME TopAre(<<Compounds, Compounds>>),
               ReduceCompound(2, sym, Branch(heap, Arg(1).expr, Arg(0).expr, F))
        PROVE  ExprInv'
    <2>1. /\ phase = "yyparse" /\ Len(stack) \in Nat /\ Len(stack) >= 2
          /\ Arg(1).sym # "elif_clause" /\ Arg(0).sym # "elif_clause"
      BY <1>1, Top2, Kinds
    <2> QED  BY <1>0, <1>1, <2>1, BranchKeeps
  <1>2. ASSUME NEW g, ReduceCompound(3, sym, g), phase = "yyparse",
               Len(stack) \in Nat, Len(stack) >= 3,
               Joined(heap, g, a, c, d, l, F), "CMD_ELSE_IF" \notin Flags(heap, c)[1]
        PROVE  ExprInv'
    <2> DEFINE r == (c \o d) \o l
    <2>0. PICK f : /\ Becomes(heap, g, a, r, f, ToSet(c) \cup ToSet(d) \cup ToSet(l))
                   /\ Marked(f) /\ f[1] = Flags(heap, c)[1] \cup F
                   /\ ToSet(r) = ToSet(c) \cup ToSet(d) \cup ToSet(l)
      BY <1>2 DEF Joined
    <2>1. Tops(3) = ToSet(c) \cup ToSet(d) \cup ToSet(l)  BY <1>2, TopsAre
    <2>2. Replace(3, sym, g) /\ cut' = cut /\ compounds' \in 0..MaxCompounds /\ cut \in BOOLEAN
      BY <1>2, ReduceIs
    <2>3. Becomes(heap, g, a, r, f, Tops(3)) /\ ToSet(r) = Tops(3)  BY <2>0, <2>1
    <2> HIDE DEF r, c, d, l
    <2>4. Reduced(3, sym, g, r, f)
      <3>1. 3 - 1 = 2  OBVIOUS
      <3> QED  BY <1>2, <2>0, <2>3, <3>1 DEF Reduced
    <2>5. 3 \in Nat /\ 3 >= 1 /\ 3 <= Len(stack)  BY <1>2
    <2> QED  BY <1>0, <1>2, <2>2, <2>3, <2>4, <2>5, ReplaceKept
  <1>3. ASSUME Len(stack) \in Nat, Len(stack) >= 3
        PROVE  /\ IsList(heap, a, c) /\ IsList(heap, b, d) /\ IsList(heap, x, l)
               /\ ToSet(c) \cap ToSet(d) = {} /\ ToSet(c) \cap ToSet(l) = {}
               /\ ToSet(d) \cap ToSet(l) = {} /\ heap \in Heap
               /\ Marked(Flags(heap, c)) /\ Marked(Flags(heap, d)) /\ Marked(Flags(heap, l))
               /\ "CMD_ELSE_IF" \in Flags(heap, c)[1] => Arg(2).sym = "elif_clause"
               /\ "CMD_ELSE_IF" \in Flags(heap, d)[1] => Arg(1).sym = "elif_clause"
               /\ "CMD_ELSE_IF" \in Flags(heap, l)[1] => Arg(0).sym = "elif_clause"
    <2>1. 0 \in Nat /\ 1 \in Nat /\ 2 \in Nat /\ 0 < Len(stack) /\ 1 < Len(stack) /\ 2 < Len(stack)
      BY <1>3
    <2>2. /\ IsList(heap, a, c) /\ Marked(Flags(heap, c)) /\ heap \in Heap
          /\ "CMD_ELSE_IF" \in Flags(heap, c)[1] => Arg(2).sym = "elif_clause"
      BY <2>1, ArgIs
    <2>3. /\ IsList(heap, b, d) /\ Marked(Flags(heap, d))
          /\ "CMD_ELSE_IF" \in Flags(heap, d)[1] => Arg(1).sym = "elif_clause"
      BY <2>1, ArgIs
    <2>4. /\ IsList(heap, x, l) /\ Marked(Flags(heap, l))
          /\ "CMD_ELSE_IF" \in Flags(heap, l)[1] => Arg(0).sym = "elif_clause"
      BY <2>1, ArgIs
    <2>5. ToSet(c) \cap ToSet(d) = {}  BY <2>1, ArgsApart
    <2>6. ToSet(c) \cap ToSet(l) = {}  BY <2>1, ArgsApart
    <2>7. ToSet(d) \cap ToSet(l) = {}  BY <2>1, ArgsApart
    <2> QED  BY <2>2, <2>3, <2>4, <2>5, <2>6, <2>7
  <1>4. ASSUME TopAre(A), ReduceCompound(3, sym, g1) PROVE ExprInv'
    <2>1. /\ phase = "yyparse" /\ Len(stack) \in Nat /\ Len(stack) >= 3
          /\ Arg(2).sym # "elif_clause" /\ Arg(1).sym # "elif_clause"
          /\ Arg(0).sym # "elif_clause"
      BY <1>4, Top3, Kinds
    <2> HIDE DEF c, d, l, a, b, x
    <2>2. Joined(heap, g1, a, c, d, l, F)  BY <1>3, <2>1, ElseMakes
    <2> HIDE DEF g1
    <2> QED  BY <1>2, <1>3, <1>4, <2>1, <2>2
  <1>5. ASSUME TopAre(B), ReduceCompound(3, sym, g2) PROVE ExprInv'
    <2>1. /\ phase = "yyparse" /\ Len(stack) \in Nat /\ Len(stack) >= 3
          /\ Arg(2).sym # "elif_clause" /\ Arg(1).sym # "elif_clause"
      BY <1>5, Top3, Kinds
    <2> HIDE DEF c, d, l, a, b, x
    <2>2. Joined(heap, g2, a, c, d, l, F)  BY <1>3, <2>1, ElifMakes
    <2> HIDE DEF g2
    <2> QED  BY <1>2, <1>3, <1>5, <2>1, <2>2
  <1> HIDE DEF c, d, l
  <1> QED  BY <1>1, <1>4, <1>5 DEF Conditional

LEMMA IfKeeps ==
    ASSUME ExprInv, If PROVE ExprInv'
  <1> DEFINE F == {"CMD_IF", "CMD_SHELL"}
  <1>1. F \in SUBSET Flag /\ F \cap Special = {} /\ "CMD_ELSE_IF" \notin F  BY DEF Flag, Special
  <1>2. Conditional("shell_command", F)  BY DEF If
  <1> HIDE DEF F
  <1> QED  BY <1>1, <1>2, ConditionalKeeps

LEMMA ElifKeeps ==
    ASSUME ExprInv, Elif PROVE ExprInv'
  <1> DEFINE F == {"CMD_ELSE_IF"}
  <1>1. F \in SUBSET Flag /\ F \cap Special = {}  BY DEF Flag, Special
  <1>2. Conditional("elif_clause", F)  BY DEF Elif
  <1> HIDE DEF F
  <1> QED  BY <1>1, <1>2, ConditionalKeeps
LEMMA PipeKeeps ==
    ASSUME ExprInv, Pipe PROVE ExprInv'
  <1> DEFINE c == ArgList(1)
  <1> DEFINE d == ArgList(0)
  <1> DEFINE a == Arg(1).expr
  <1> DEFINE b == Arg(0).expr
  <1> DEFINE g == cmd_pipe(heap, a, b)
  <1> DEFINE r == <<a>> \o d
  <1>1. TopAre(<<{"command"}, Pipelines>>)  BY DEF Pipe
  <1>2. /\ phase = "yyparse" /\ Len(stack) \in Nat /\ Len(stack) >= 2
        /\ Arg(0).sym # "elif_clause" /\ "pipeline" \in Symbol
    BY <1>1, Top2, Kinds
  <1>3. /\ Replace(2, "pipeline", g) /\ cut' = (cut \/ heap.next[a] # Null)
        /\ compounds' = compounds
    BY DEF Pipe, ReduceCutting
  <1>4. IsList(heap, a, c) /\ Marked(Flags(heap, c)) /\ heap \in Heap  BY <1>2, ArgIs
  <1>5. IsList(heap, b, d) /\ Marked(Flags(heap, d)) /\ "CMD_ELSE_IF" \notin Flags(heap, d)[1]
    BY <1>2, ArgIs
  <1>6. ToSet(c) \cap ToSet(d) = {}  BY <1>2, ArgsApart
  <1>7. Tops(2) = ToSet(c) \cup ToSet(d)  BY <1>2, TopsAre
  <1>8. cut \in BOOLEAN /\ compounds \in 0..MaxCompounds  BY ReduceIs
  <1>9. /\ a \in Expr /\ a \in ToSet(c) /\ c \in Seq(Expr) /\ a = c[1] /\ Len(c) \in Nat
        /\ Len(c) >= 1 /\ ToSet(c) = {c[i] : i \in 1..Len(c)} /\ \A i \in 1..Len(c) : c[i] \in Expr
    BY <1>4, ListIs
  <1>10. d \in Seq(Expr) /\ d # <<>>  BY <1>5, ListIs
  <1> HIDE DEF c, d, b, a
  <1> DEFINE f == <<Flags(heap, c)[1] \cup {"PIPE_OUTPUT"}>> \o With(Flags(heap, d), 1, {"PIPE_INPUT"})
  <1>11. Becomes(heap, g, a, r, f, ToSet(c) \cup ToSet(d))  BY <1>4, <1>5, <1>6, PipeIs
  <1>12. Marked(f)  BY <1>4, <1>5, PipeMarks
  <1>13. "CMD_ELSE_IF" \in f[1] => "CMD_ELSE_IF" \in Flags(heap, c)[1]
    <2> DEFINE x == Flags(heap, c)[1] \cup {"PIPE_OUTPUT"}
    <2> DEFINE w == With(Flags(heap, d), 1, {"PIPE_INPUT"})
    <2>1. x \in SUBSET Flag
      <3>1. Flags(heap, c)[1] \in SUBSET Flag
        <4>1. Flags(heap, c) \in Seq(SUBSET Flag) /\ Flags(heap, c) # <<>>  BY <1>4 DEF Marked, WellMade
        <4> DEFINE y == Flags(heap, c)
        <4> HIDE DEF y
        <4>2. y \in Seq(SUBSET Flag) /\ y # <<>>  BY <4>1 DEF y
        <4>3. y[1] \in SUBSET Flag  BY <4>2
        <4> QED  BY <4>3 DEF y
      <3> QED  BY <3>1 DEF Flag
    <2>2. w \in Seq(SUBSET Flag) /\ w # <<>>
      <3> DEFINE y == Flags(heap, d)
      <3>1. y \in Seq(SUBSET Flag) /\ y # <<>>  BY <1>5 DEF Marked, WellMade
      <3> HIDE DEF y
      <3>2. {"PIPE_INPUT"} \in SUBSET Flag /\ 1 \in 1..Len(y) /\ Len(y) \in Nat  BY <3>1 DEF Flag
      <3>3. With(y, 1, {"PIPE_INPUT"}) \in Seq(SUBSET Flag) /\ Len(With(y, 1, {"PIPE_INPUT"})) = Len(y)
        BY <3>1, <3>2, WithIs
      <3>4. With(y, 1, {"PIPE_INPUT"}) # <<>>  BY <3>2, <3>3
      <3> QED  BY <3>3, <3>4 DEF y
    <2> HIDE DEF x, w
    <2>3. /\ <<x>> \in Seq(SUBSET Flag) /\ <<x>> # <<>> /\ Len(<<x>>) = 1 /\ <<x>>[1] = x
          /\ 1 \in 1..1
      BY <2>1
    <2>4. (<<x>> \o w)[1] = x  BY <2>2, <2>3, JoinIs
    <2>5. f[1] = x  BY <2>4 DEF x, w
    <2> HIDE DEF f
    <2> QED  BY <2>5 DEF x
  <1>14. ToSet(r) = {a} \cup ToSet(d)
    <2> DEFINE s == <<a>>
    <2>1. s \in Seq(Expr) /\ s # <<>> /\ Len(s) = 1 /\ s[1] = a  BY <1>9
    <2> HIDE DEF s
    <2>2. ToSet(s) = {s[i] : i \in 1..Len(s)} /\ 1 \in 1..Len(s) /\ \A i \in 1..Len(s) : i = 1
      BY <2>1, ToSetIs
    <2>3. ToSet(s) = {a}  BY <2>1, <2>2
    <2>4. ToSet(s \o d) = ToSet(s) \cup ToSet(d)  BY <1>10, <2>1, ToSetJoin
    <2> QED  BY <2>3, <2>4 DEF s
  <1>15. heap.next[a] = Null => ToSet(c) = {a}
    <2> SUFFICES ASSUME heap.next[a] = Null PROVE ToSet(c) = {a}  OBVIOUS
    <2>1. Len(c) = 1
      <3> SUFFICES ASSUME Len(c) # 1 PROVE FALSE  OBVIOUS
      <3> DEFINE k == Len(c)
      <3>a. k \in Nat /\ k >= 1 /\ k # 1  BY <1>9
      <3> HIDE DEF k
      <3>b. 1 \in 1..k - 1 /\ 2 \in 1..k  BY <3>a
      <3>1. 1 \in 1..Len(c) - 1 /\ 2 \in 1..Len(c)  BY <3>b DEF k
      <3>2. heap.next[c[1]] = c[1 + 1]  BY <1>4, <3>1 DEF IsList
      <3>3. 1 + 1 = 2 /\ c[2] \in Expr  BY <1>9, <3>1
      <3> QED  BY <1>9, <3>2, <3>3, ExprAssumption
    <2>2. \A i \in 1..Len(c) : i = 1  BY <2>1
    <2> QED  BY <1>9, <2>2
  <1>16. "CMD_ELSE_IF" \notin Flags(heap, c)[1]
    <2>1. Arg(1).sym # "elif_clause"  BY <1>1, Top2
    <2> QED  BY <1>2, <2>1, ArgIs DEF c
  <1> HIDE DEF f, g, r
  <1>17. Reduced(2, "pipeline", g, r, f)
    <2>1. 2 - 1 = 1  OBVIOUS
    <2>2. ToSet(r) \subseteq Tops(2)  BY <1>7, <1>9, <1>14
    <2> QED  BY <1>7, <1>11, <1>12, <1>13, <1>16, <2>1, <2>2 DEF Reduced, a
  <1>18. ~cut' => ~cut /\ ToSet(r) = Tops(2)  BY <1>3, <1>7, <1>14, <1>15
  <1>19. cut' \in BOOLEAN /\ compounds' \in 0..MaxCompounds  BY <1>3, <1>8
  <1>20. 2 \in Nat /\ 2 >= 1 /\ 2 <= Len(stack)  BY <1>2
  <1> QED  BY <1>2, <1>3, <1>17, <1>18, <1>19, <1>20, ReplaceKept

\* A rule without code: the list is that of its first value.
LEMMA GiveUpKeeps ==
    ASSUME ExprInv, NEW sym \in Symbol, phase = "yyparse", Len(stack) \in Nat, Len(stack) >= 2,
           Arg(1).sym # "elif_clause", ReduceCutting(2, sym, heap, TRUE)
    PROVE  ExprInv'
  <1> DEFINE c == ArgList(1)
  <1> DEFINE a == Arg(1).expr
  <1> DEFINE f == Flags(heap, c)
  <1>1. /\ IsList(heap, a, c) /\ Marked(f) /\ heap \in Heap /\ "CMD_ELSE_IF" \notin f[1]
    BY ArgIs
  <1>2. Replace(2, sym, heap) /\ cut' = TRUE /\ compounds' = compounds  BY DEF ReduceCutting
  <1>3. compounds \in 0..MaxCompounds  BY ReduceIs
  <1>4. Tops(2) = ToSet(c) \cup ToSet(ArgList(0))  BY TopsAre
  <1>5. Becomes(heap, heap, a, c, f, Tops(2))  BY <1>1 DEF Becomes, Off
  <1> HIDE DEF c, f
  <1>6. Reduced(2, sym, heap, c, f)
    <2>1. 2 - 1 = 1  OBVIOUS
    <2> QED  BY <1>1, <1>4, <1>5, <2>1 DEF Reduced
  <1>7. 2 \in Nat /\ 2 >= 1 /\ 2 <= Len(stack)  OBVIOUS
  <1> QED  BY <1>2, <1>3, <1>6, <1>7, ReplaceKept

LEMMA AndOrKeeps ==
    ASSUME ExprInv, AndOr PROVE ExprInv'
  <1>1. TopAre(<<AndOrs, Pipelines>>) /\ ReduceCutting(2, "and_or", heap, TRUE)  BY DEF AndOr
  <1>2. /\ phase = "yyparse" /\ Len(stack) \in Nat /\ Len(stack) >= 2
        /\ Arg(1).sym # "elif_clause" /\ "and_or" \in Symbol
    BY <1>1, Top2, Kinds
  <1> QED  BY <1>1, <1>2, GiveUpKeeps

LEMMA SemicolonKeeps ==
    ASSUME ExprInv, Semicolon PROVE ExprInv'
  <1> DEFINE sym == IF Arg(1).sym = "list1" THEN "list1" ELSE "simple_list1"
  <1>1. TopAre(<<Compounds, AndOrs>>) /\ ReduceCutting(2, sym, heap, TRUE)  BY DEF Semicolon
  <1>2. /\ phase = "yyparse" /\ Len(stack) \in Nat /\ Len(stack) >= 2
        /\ Arg(1).sym # "elif_clause" /\ sym \in Symbol
    BY <1>1, Top2, Kinds
  <1> HIDE DEF sym
  <1> QED  BY <1>1, <1>2, GiveUpKeeps

\* Two lists, neither a block, one behind the other.
LEMMA TwoMarks ==
    ASSUME NEW p, NEW q, NEW k, k = p \o q, Marked(p), Marked(q), "CMD_ELSE_IF" \notin q[1]
    PROVE  Marked(k) /\ k[1] = p[1]
  <1>1. WellMade(p) /\ WellMade(q)  BY DEF Marked
  <1>2. "CMD_ELSE_IF" \in q[1] => "CMD_END_BLOCK" \in p[Len(p)]  OBVIOUS
  <1>3. WellMade(p \o q)  BY ONLY <1>1, <1>2, JoinMarks
  <1>4. k[1] = p[1]
    <2>1. p \in Seq(SUBSET Flag) /\ p # <<>> /\ q \in Seq(SUBSET Flag) /\ q # <<>>
      BY <1>1 DEF WellMade
    <2>2. 1 \in 1..Len(p)  BY <2>1
    <2> QED  BY <2>1, <2>2
  <1> QED  BY <1>3, <1>4 DEF Marked

LEMMA NewlineKeeps ==
    ASSUME ExprInv, Newline PROVE ExprInv'
  <1> DEFINE c == ArgList(1)
  <1> DEFINE d == ArgList(0)
  <1> DEFINE a == Arg(1).expr
  <1> DEFINE b == Arg(0).expr
  <1> DEFINE g == cmd_append(heap, a, b)
  <1>1. TopAre(<<Compounds, AndOrs>>) /\ Reduce(2, "list1", g)  BY DEF Newline
  <1>2. /\ phase = "yyparse" /\ Len(stack) \in Nat /\ Len(stack) >= 2 /\ "list1" \in Symbol
        /\ Arg(1).sym # "elif_clause" /\ Arg(0).sym # "elif_clause"
    BY <1>1, Top2, Kinds
  <1>3. Replace(2, "list1", g) /\ cut' = cut /\ compounds' \in 0..MaxCompounds /\ cut \in BOOLEAN
    BY <1>1, ReduceIs
  <1>4. /\ IsList(heap, a, c) /\ Marked(Flags(heap, c)) /\ heap \in Heap
        /\ "CMD_ELSE_IF" \notin Flags(heap, c)[1]
    BY <1>2, ArgIs
  <1>5. IsList(heap, b, d) /\ Marked(Flags(heap, d)) /\ "CMD_ELSE_IF" \notin Flags(heap, d)[1]
    BY <1>2, ArgIs
  <1>6. ToSet(c) \cap ToSet(d) = {}  BY <1>2, ArgsApart
  <1>7. Tops(2) = ToSet(c) \cup ToSet(d)  BY <1>2, TopsAre
  <1>8. c \in Seq(Expr) /\ c # <<>> /\ d \in Seq(Expr) /\ d # <<>>  BY <1>4, <1>5, ListIs
  <1> HIDE DEF c, d, b
  <1> DEFINE r == c \o d
  <1> DEFINE p == Flags(heap, c)
  <1> DEFINE q == Flags(heap, d)
  <1> DEFINE f == p \o q
  <1>9. Becomes(heap, g, a, r, f, ToSet(c) \cup ToSet(d))  BY <1>4, <1>5, <1>6, AppendIs
  <1>10. Marked(f) /\ f[1] = p[1]
    <2>1. Marked(p)  BY <1>4
    <2>2. Marked(q)  BY <1>5
    <2>3. "CMD_ELSE_IF" \notin q[1]  BY <1>5
    <2>4. f = p \o q  OBVIOUS
    <2> HIDE DEF f, p, q
    <2> QED  BY <2>1, <2>2, <2>3, <2>4, TwoMarks
  <1>11. ToSet(r) = ToSet(c) \cup ToSet(d)  BY <1>8, ToSetJoin
  <1> HIDE DEF r, f, g
  <1>12. Reduced(2, "list1", g, r, f)
    <2>1. 2 - 1 = 1  OBVIOUS
    <2> QED  BY <1>4, <1>7, <1>9, <1>10, <1>11, <2>1 DEF Reduced
  <1>13. 2 \in Nat /\ 2 >= 1 /\ 2 <= Len(stack)  BY <1>2
  <1> HIDE DEF a
  <1> QED  BY <1>2, <1>3, <1>7, <1>11, <1>12, <1>13, ReplaceKept

-----------------------------------------------------------------------------
(***************************************************************************)
(* The end of a line keeps the invariant.                                  *)
(***************************************************************************)

\* Without a semantic value there is no list under construction.
LEMMA NoValue ==
    ASSUME stack' = <<>>, phase' # "yyparse" \/ born' = {}
    PROVE  ListsInv' /\ KeptInv'
  <1>1. DOMAIN stack' = {}  OBVIOUS
  <1> QED  BY <1>1 DEF ListsInv, KeptInv

LEMMA InputUnitKeeps ==
    ASSUME ExprInv, InputUnit PROVE ExprInv'
  <1> DEFINE c == ArgList(0)
  <1> DEFINE e == Arg(0).expr
  <1>1. /\ TopAre(<<Lists>>) /\ Len(stack) = 1 /\ command' = e /\ phase' = "accepted"
        /\ stack' = <<>> /\ heap' = heap /\ alive' = alive /\ born' = born /\ cut' = cut
        /\ compounds' = compounds
    BY DEF InputUnit, line
  <1>2. phase = "yyparse" /\ Len(stack) \in Nat  BY <1>1, Top1
  <1>3. IsList(heap, e, c) /\ Marked(Flags(heap, c)) /\ heap \in Heap /\ e \in Expr
    BY <1>1, ArgIs, ListIs
  <1>4. Chain(heap, e) = c  BY <1>3, ChainIs
  <1>5. ~cut => born = ToSet(c)
    <2>1. Len(stack) - 1 + 1 = 1 /\ 1..1 = {1} /\ DOMAIN stack = 1..1
      <3>1. stack \in Seq(Value)  BY DEF ExprInv, TypeOK
      <3> QED  BY <1>1, <3>1
    <2>2. ~cut => born = UNION {ToSet(ListOf(i)) : i \in 1..1}
      BY <1>2, <2>1 DEF ExprInv, KeptInv
    <2>3. Tops(1) = UNION {ToSet(ListOf(i)) : i \in 1..1}  BY <1>1, <2>1 DEF Tops
    <2>4. Tops(1) = ToSet(c)  BY <1>1, TopsAre
    <2> QED  BY <2>2, <2>3, <2>4
  <1> HIDE DEF c, e
  <1>6. e # Null  BY <1>3, ExprAssumption
  <1>7. Chain(heap', command') = c  BY <1>1, <1>4
  <1>8. EndInv'
    <2>1. (command # Null /\ IsList(heap, command, Chain(heap, command)))'
      BY <1>1, <1>3, <1>6, <1>7
    <2>2. Marked(Flags(heap, Chain(heap, command)))'  BY <1>1, <1>3, <1>7
    <2>3. (~cut => born = ToSet(Chain(heap, command)))'  BY <1>1, <1>5, <1>7
    <2> QED  BY <1>1, <2>1, <2>2, <2>3 DEF EndInv
  <1>9. TypeOK'
    <2>1. <<>> \in Seq(Value)  OBVIOUS
    <2> QED  BY <1>1, <1>3, <2>1 DEF ExprInv, TypeOK
  <1> QED  BY <1>1, <1>8, <1>9, NoValue DEF ExprInv

LEMMA DroppedKeeps ==
    ASSUME ExprInv, EmptyInput \/ Abandon PROVE ExprInv'
  <1>1. /\ phase' = "dropped" /\ stack' = <<>> /\ heap' = heap /\ alive' = alive
        /\ command' = command /\ born' = born /\ cut' = cut /\ compounds' = compounds
    BY DEF EmptyInput, Abandon, line
  <1>2. <<>> \in Seq(Value)  OBVIOUS
  <1>3. TypeOK'  BY <1>1, <1>2 DEF ExprInv, TypeOK
  <1>4. EndInv'  BY <1>1 DEF EndInv
  <1> QED  BY <1>1, <1>3, <1>4, NoValue DEF ExprInv

LEMMA DestroyKeeps ==
    ASSUME ExprInv, Destroy PROVE ExprInv'
  <1>1. stack = <<>> /\ stack' = <<>> /\ command' = command /\ <<>> \in Seq(Value)
    BY DEF Destroy, ExprInv, EndInv
  <1>2. TypeOK  BY DEF ExprInv
  <1>3. ASSUME phase' = "crashed", UNCHANGED <<heap, alive, line>> PROVE ExprInv'
    <2>1. TypeOK'  BY <1>1, <1>2, <1>3 DEF TypeOK, line
    <2>2. EndInv'  BY <1>1, <1>3 DEF EndInv
    <2>3. ListsInv' /\ KeptInv'  BY <1>1, <1>3, NoValue
    <2> QED  BY <2>1, <2>2, <2>3 DEF ExprInv
  <1>4. ASSUME alive' = alive \ Released(heap, command),
               heap' = [type |-> [e \in Expr |-> IF e \in alive' THEN heap.type[e] ELSE {}],
                        next |-> [e \in Expr |-> IF e \in alive' THEN heap.next[e] ELSE Null]],
               phase' = "yyparse", born' = {}, cut' = FALSE, compounds' = 0
        PROVE  ExprInv'
    <2>1. heap' \in Heap
      <3>1. heap.type \in [Expr -> SUBSET Flag] /\ heap.next \in [Expr -> Expr \cup {Null}]
        BY <1>2 DEF TypeOK, Heap
      <3> DEFINE t == [e \in Expr |-> IF e \in alive' THEN heap.type[e] ELSE {}]
      <3> DEFINE x == [e \in Expr |-> IF e \in alive' THEN heap.next[e] ELSE Null]
      <3>2. t \in [Expr -> SUBSET Flag] /\ x \in [Expr -> Expr \cup {Null}]  BY <3>1
      <3>3. heap' = [type |-> t, next |-> x]  BY <1>4
      <3> HIDE DEF t, x
      <3> QED  BY <3>2, <3>3 DEF Heap
    <2>2. 0 \in 0..MaxCompounds  BY CompoundsAssumption
    <2>3. alive' \subseteq Expr  BY <1>2, <1>4 DEF TypeOK
    <2>4. command' \in Expr \cup {Null}  BY <1>1, <1>2 DEF TypeOK
    <2>5. TypeOK'  BY <1>1, <1>4, <2>1, <2>2, <2>3, <2>4 DEF TypeOK
    <2>6. EndInv'  BY <1>4 DEF EndInv
    <2>7. ListsInv' /\ KeptInv'  BY <1>1, <1>4, NoValue
    <2> QED  BY <2>5, <2>6, <2>7 DEF ExprInv
  <1> QED  BY <1>3, <1>4 DEF Destroy

LEMMA StutterKeeps ==
    ASSUME ExprInv, UNCHANGED vars PROVE ExprInv'
  <1>1. /\ heap' = heap /\ alive' = alive /\ stack' = stack /\ command' = command
        /\ phase' = phase /\ born' = born /\ cut' = cut /\ compounds' = compounds
    BY DEF vars, line
  <1>2. \A i : ListOf(i)' = ListOf(i)  BY <1>1 DEF ListOf
  <1>3. ListsInv'  BY <1>1, <1>2 DEF ExprInv, ListsInv
  <1>4. KeptInv'  BY <1>1, <1>2 DEF ExprInv, KeptInv
  <1>5. EndInv'  BY <1>1 DEF ExprInv, EndInv
  <1>6. TypeOK'  BY <1>1 DEF ExprInv, TypeOK
  <1> QED  BY <1>3, <1>4, <1>5, <1>6 DEF ExprInv

\* The invariant is inductive.
THEOREM Inductive == Spec => []ExprInv
  <1>1. Init => ExprInv
    <2> SUFFICES ASSUME Init PROVE ExprInv  OBVIOUS
    <2>1. /\ heap = [type |-> [e \in Expr |-> {}], next |-> [e \in Expr |-> Null]]
          /\ alive = {} /\ stack = <<>> /\ command = Null /\ phase = "yyparse"
          /\ born = {} /\ cut = FALSE /\ compounds = 0
      BY DEF Init
    <2>2. heap \in Heap
      <3> DEFINE t == [e \in Expr |-> {}]
      <3> DEFINE x == [e \in Expr |-> Null]
      <3>1. t \in [Expr -> SUBSET Flag] /\ x \in [Expr -> Expr \cup {Null}]  OBVIOUS
      <3>2. heap = [type |-> t, next |-> x]  BY <2>1
      <3> HIDE DEF t, x
      <3> QED  BY <3>1, <3>2 DEF Heap
    <2>3. <<>> \in Seq(Value) /\ 0 \in 0..MaxCompounds /\ DOMAIN <<>> = {}
      BY CompoundsAssumption
    <2>4. TypeOK  BY <2>1, <2>2, <2>3 DEF TypeOK
    <2>5. DOMAIN stack = {}  BY <2>1, <2>3
    <2>6. ListsInv /\ KeptInv  BY <2>1, <2>5 DEF ListsInv, KeptInv
    <2>7. EndInv  BY <2>1 DEF EndInv
    <2> QED  BY <2>4, <2>6, <2>7 DEF ExprInv
  <1>2. ExprInv /\ [Next]_vars => ExprInv'
    BY SimpleCommandKeeps, ShellCommandKeeps, FunctionDefKeeps, LoopKeeps, GroupingKeeps,
       IfKeeps, ElifKeeps, PipeKeeps, AndOrKeeps, SemicolonKeeps, NewlineKeeps,
       InputUnitKeeps, DroppedKeeps, DestroyKeeps, StutterKeeps
       DEF Next
  <1> QED  BY <1>1, <1>2, PTL DEF Spec

-----------------------------------------------------------------------------
(***************************************************************************)
(* What the invariant says of the lists under construction and of the one  *)
(* that parse() is given.                                                  *)
(***************************************************************************)

LEMMA ListsAre ==
    ASSUME ExprInv, NEW r \in Roots \cup Finished
    PROVE  IsList(heap, r, Chain(heap, r)) /\ Marked(Flags(heap, Chain(heap, r)))
  <1>1. CASE r \in Roots
    <2>1. PICK i \in DOMAIN stack : r = stack[i].expr  BY <1>1 DEF Roots
    <2> QED  BY <2>1 DEF ExprInv, ListsInv, ListOf
  <1>2. CASE r \in Finished
    <2>1. phase = "accepted" /\ r = command  BY <1>2 DEF Finished
    <2> QED  BY <2>1 DEF ExprInv, EndInv
  <1> QED  BY <1>1, <1>2

\* Position by position, the flags of a list are those of its expressions.
LEMMA MarksAre ==
    ASSUME ExprInv, NEW r \in Roots \cup Finished
    PROVE  LET c == Chain(heap, r)
               f == Flags(heap, c)
           IN  /\ Len(c) \in Nat /\ Len(c) >= 1 /\ Len(f) = Len(c)
               /\ \A i \in 1..Len(c) : f[i] = heap.type[c[i]]
               /\ Paired(f) /\ Bracketed(f) /\ Scoped(f)
  <1> DEFINE c == Chain(heap, r)
  <1> DEFINE f == Flags(heap, c)
  <1>1. IsList(heap, r, c) /\ Marked(f)  BY ListsAre
  <1>2. heap \in Heap  BY DEF ExprInv, TypeOK
  <1>3. Paired(f) /\ Bracketed(f) /\ Scoped(f)  BY <1>1 DEF Marked, WellMade
  <1> HIDE DEF c
  <1>4. c \in Seq(Expr) /\ c # <<>> /\ Len(c) \in Nat /\ Len(c) >= 1  BY <1>1, ListIs
  <1>5. Len(f) = Len(c) /\ \A i \in 1..Len(c) : f[i] = heap.type[c[i]]
    BY <1>2, <1>4, FlagsIs
  <1> QED  BY <1>3, <1>4, <1>5 DEF c

\* What the recursion of cmd_print() computes, expression by expression.
Steps(h, e, w) ==
    LET One(i, flags) == IF h.type[Chain(h, e)[i]] \cap flags = {} THEN 0 ELSE 1
    IN  [n \in 0..Len(Chain(h, e)) |->
            IF n = 0 THEN 0
            ELSE w[n - 1] + One(n, {"CMD_START_BLOCK", "CMD_FUNCTION"})
                          - One(n, {"CMD_END_BLOCK", "CMD_END_FUNCTION"})]

LEMMA ScopeSteps ==
    ASSUME NEW h, NEW e, NEW v, v = Steps(h, e, v)
    PROVE  \E w : w = Steps(h, e, w) /\ Scopes(h, e) = w
  <1> DEFINE w == CHOOSE w : w = Steps(h, e, w)
  <1>1. w = Steps(h, e, w)  OBVIOUS
  <1>2. Scopes(h, e) = w  BY DEF Scopes, Steps
  <1> QED  BY <1>1, <1>2

\* The scopes of a list are the heights of its flags.
LEMMA ScopesAre ==
    ASSUME NEW h, NEW e, NEW k \in Nat, NEW f, NEW s,
           Len(Chain(h, e)) = k, Len(f) = k, Height(f, s),
           \A i \in 1..k : f[i] = h.type[Chain(h, e)[i]]
    PROVE  \A n \in 0..k : Scopes(h, e)[n] = s[n]
  <1>1. /\ s \in [0..k -> Nat] /\ s[0] = 0
        /\ \A i \in 1..k : s[i] = s[i - 1] + Opens(f[i]) - Closes(f[i])
    BY DEF Height
  <1>2. ASSUME NEW w, NEW n \in 0..k
        PROVE  Steps(h, e, w)[n] = IF n = 0 THEN 0
                                   ELSE w[n - 1] + Opens(f[n]) - Closes(f[n])
    <2>1. n # 0 => n \in 1..k  OBVIOUS
    <2>2. n # 0 => h.type[Chain(h, e)[n]] = f[n]  BY <2>1
    <2> QED  BY <2>2 DEF Steps, Opens, Closes
  <1>3. s = Steps(h, e, s)
    <2>1. ASSUME NEW n \in 0..k PROVE s[n] = Steps(h, e, s)[n]
      <3>1. CASE n = 0  BY <1>1, <1>2, <3>1
      <3>2. CASE n # 0
        <4>1. n \in 1..k  BY <3>2
        <4> QED  BY <1>1, <1>2, <3>2, <4>1
      <3> QED  BY <3>1, <3>2
    <2>2. DOMAIN s = 0..k  BY <1>1
    <2>3. Steps(h, e, s) = [n \in 0..k |-> Steps(h, e, s)[n]]  BY DEF Steps
    <2>4. s = [n \in 0..k |-> s[n]]  BY <1>1
    <2> QED  BY <2>1, <2>3, <2>4
  <1>4. PICK w : w = Steps(h, e, w) /\ Scopes(h, e) = w  BY <1>3, ScopeSteps
  <1> DEFINE S == {n \in 0..k : w[n] = s[n]}
  <1>5. 0 \in S
    <2>1. 0 \in 0..k  OBVIOUS
    <2>2. w[0] = Steps(h, e, w)[0]  BY <1>4
    <2>3. Steps(h, e, w)[0] = 0  BY <1>2, <2>1
    <2> QED  BY <1>1, <2>1, <2>2, <2>3
  <1>6. ASSUME NEW n \in 1..k, n - 1 \in S PROVE n \in S
    <2>1. n \in 0..k /\ n # 0  OBVIOUS
    <2>2. w[n] = Steps(h, e, w)[n]  BY <1>4
    <2>3. Steps(h, e, w)[n] = w[n - 1] + Opens(f[n]) - Closes(f[n])  BY <1>2, <2>1
    <2>4. w[n - 1] = s[n - 1]  BY <1>6
    <2> QED  BY <1>1, <2>1, <2>2, <2>3, <2>4
  <1>7. S \in SUBSET (0..k)  OBVIOUS
  <1> HIDE DEF S
  <1>8. S = 0..k  BY <1>5, <1>6, <1>7, UpTo
  <1> QED  BY <1>4, <1>8 DEF S

-----------------------------------------------------------------------------
(***************************************************************************)
(* Theorems.                                                               *)
(***************************************************************************)

\* Every variable keeps its type: no operation of cmd.c links an expression
\* to anything but an expression or a null pointer, whatever it is given by
\* the reductions of parser.y.
THEOREM TypesKept == Spec => []TypeOK
  <1>1. ExprInv => TypeOK  BY DEF ExprInv
  <1> QED  BY <1>1, Inductive, PTL

\* The lists under construction are separate, end, and hold no expression
\* that free() got back: the walks of cmd_last(), cmd_append() and
\* cmd_destroy() end, and what a reduction does to one semantic value leaves
\* the others alone.
THEOREM ListsSeparate == Spec => []OneOwner
  <1>1. ASSUME ExprInv PROVE OneOwner
    <2>1. ASSUME NEW i \in DOMAIN stack
          PROVE  /\ Nodes(heap, stack[i].expr) \subseteq alive
                 /\ heap.next[cmd_last(heap, stack[i].expr)] = Null
      <3>1. IsList(heap, stack[i].expr, ListOf(i)) /\ ToSet(ListOf(i)) \subseteq alive
        BY <1>1 DEF ExprInv, ListsInv
      <3>2. Nodes(heap, stack[i].expr) = ToSet(ListOf(i))  BY DEF Nodes, ListOf
      <3>3. cmd_last(heap, stack[i].expr) = ListOf(i)[Len(ListOf(i))]  BY <3>1, LastIs
      <3>4. heap.next[ListOf(i)[Len(ListOf(i))]] = Null  BY <3>1 DEF IsList
      <3> QED  BY <3>1, <3>2, <3>3, <3>4
    <2>2. ASSUME NEW i \in DOMAIN stack, NEW j \in DOMAIN stack, i # j
          PROVE  Nodes(heap, stack[i].expr) \cap Nodes(heap, stack[j].expr) = {}
      BY <1>1, <2>2 DEF ExprInv, ListsInv, Nodes, ListOf
    <2> QED  BY <2>1, <2>2 DEF OneOwner
  <1> QED  BY <1>1, Inductive, PTL

\* In every list, the one that parse() is given included, the two ends of a
\* pipe are marked on neighbours: do_command() in tansh.c never hands the read
\* end of a pipe to a command that does not read it.
THEOREM PipesPairUp == Spec => []PipesPaired
  <1>1. ASSUME ExprInv PROVE PipesPaired
    <2> SUFFICES ASSUME NEW r \in Roots \cup Finished,
                        NEW i \in 1..Len(Chain(heap, r))
                 PROVE  LET c == Chain(heap, r) IN
                        /\ "PIPE_INPUT" \in heap.type[c[i]] =>
                              i > 1 /\ "PIPE_OUTPUT" \in heap.type[c[i - 1]]
                        /\ "PIPE_OUTPUT" \in heap.type[c[i]] =>
                              i < Len(c) /\ "PIPE_INPUT" \in heap.type[c[i + 1]]
      BY DEF PipesPaired
    <2> DEFINE c == Chain(heap, r)
    <2> DEFINE f == Flags(heap, c)
    <2> DEFINE k == Len(c)
    <2>1. /\ k \in Nat /\ Len(f) = k /\ \A j \in 1..k : f[j] = heap.type[c[j]]
          /\ Paired(f)
      BY <1>1, MarksAre
    <2>2. i \in 1..k  OBVIOUS
    <2> HIDE DEF c, f, k
    <2>3. i > 1 => i - 1 \in 1..k  BY <2>1, <2>2
    <2>4. i < k => i + 1 \in 1..k  BY <2>1, <2>2
    <2>5. /\ "PIPE_INPUT" \in f[i] => i > 1 /\ "PIPE_OUTPUT" \in f[i - 1]
          /\ "PIPE_OUTPUT" \in f[i] => i < k /\ "PIPE_INPUT" \in f[i + 1]
      BY <2>1, <2>2 DEF Paired
    <2>6. f[i] = heap.type[c[i]]  BY <2>1, <2>2
    <2>7. "PIPE_INPUT" \in heap.type[c[i]] => i > 1 /\ "PIPE_OUTPUT" \in heap.type[c[i - 1]]
      BY <2>1, <2>3, <2>5, <2>6
    <2>8. "PIPE_OUTPUT" \in heap.type[c[i]] => i < k /\ "PIPE_INPUT" \in heap.type[c[i + 1]]
      BY <2>1, <2>4, <2>5, <2>6
    <2> QED  BY <2>7, <2>8 DEF c, k
  <1> QED  BY <1>1, Inductive, PTL

\* Every block has its brackets and every else its block, however compound
\* commands, functions and pipes are nested in one another.
THEOREM BlocksBracket == Spec => []BlocksBracketed
  <1>1. ASSUME ExprInv PROVE BlocksBracketed
    <2> SUFFICES ASSUME NEW r \in Roots \cup Finished
                 PROVE  LET c == Chain(heap, r)
                            Has(flag) == {i \in 1..Len(c) : flag \in heap.type[c[i]]}
                        IN  /\ \A i \in Has("CMD_START_BLOCK") :
                                  \E j \in Has("CMD_END_BLOCK") : j >= i
                            /\ \A i \in Has("CMD_END_BLOCK") :
                                  \E j \in Has("CMD_START_BLOCK") : j <= i
                            /\ \A i \in Has("CMD_ELSE") \cup (Has("CMD_ELSE_IF") \ {1}) :
                                  i - 1 \in Has("CMD_END_BLOCK")
      BY DEF BlocksBracketed
    <2> DEFINE c == Chain(heap, r)
    <2> DEFINE f == Flags(heap, c)
    <2> DEFINE k == Len(c)
    <2> DEFINE Has(flag) == {i \in 1..k : flag \in heap.type[c[i]]}
    <2>1. /\ k \in Nat /\ Len(f) = k /\ \A j \in 1..k : f[j] = heap.type[c[j]]
          /\ Bracketed(f)
      BY <1>1, MarksAre
    <2> HIDE DEF c, f, k
    <2>2. \A flag : Has(flag) = {i \in 1..k : flag \in f[i]}  BY <2>1
    <2> HIDE DEF Has
    <2>3. \A i \in Has("CMD_START_BLOCK") : \E j \in Has("CMD_END_BLOCK") : j >= i
      BY <2>1, <2>2 DEF Bracketed
    <2>4. \A i \in Has("CMD_END_BLOCK") : \E j \in Has("CMD_START_BLOCK") : j <= i
      BY <2>1, <2>2 DEF Bracketed
    <2>5. ASSUME NEW i \in Has("CMD_ELSE") \cup (Has("CMD_ELSE_IF") \ {1})
          PROVE  i - 1 \in Has("CMD_END_BLOCK")
      <3>1. i \in 1..k /\ ("CMD_ELSE" \in f[i] \/ ("CMD_ELSE_IF" \in f[i] /\ i # 1))
        BY <2>2
      <3>2. i > 1 /\ "CMD_END_BLOCK" \in f[i - 1]  BY <2>1, <3>1 DEF Bracketed
      <3>3. i - 1 \in 1..k  BY <2>1, <3>1, <3>2
      <3> QED  BY <2>2, <3>2, <3>3
    <2> QED  BY <2>3, <2>4, <2>5 DEF Has, c, k
  <1> QED  BY <1>1, Inductive, PTL

\* A line without ; & && || and without a pipe behind a compound command
\* reaches parse() whole.
THEOREM NothingDropped == Spec => []KeepsAll
  <1>1. ExprInv => KeepsAll  BY DEF ExprInv, EndInv, KeepsAll, Nodes
  <1> QED  BY <1>1, Inductive, PTL

\* cmd_print() closes no scope that it did not open, in a list without a
\* function: the size of its array is never negative.
THEOREM ScopesBalance == Spec => []ScopesNest
  <1>1. ASSUME ExprInv PROVE ScopesNest
    <2> SUFFICES ASSUME NEW r \in Roots \cup Finished,
                        \A e \in Nodes(heap, r) : "CMD_FUNCTION" \notin heap.type[e],
                        NEW n \in 0..Len(Chain(heap, r))
                 PROVE  Scopes(heap, r)[n] >= 0
      BY DEF ScopesNest
    <2> DEFINE c == Chain(heap, r)
    <2> DEFINE f == Flags(heap, c)
    <2> DEFINE k == Len(c)
    <2>1. /\ k \in Nat /\ Len(f) = k /\ \A j \in 1..k : f[j] = heap.type[c[j]]
          /\ Scoped(f)
      BY <1>1, MarksAre
    <2>2. Functionless(f)
      <3>1. IsList(heap, r, c)  BY <1>1, ListsAre
      <3>2. Nodes(heap, r) = ToSet(c)  BY DEF Nodes
      <3> HIDE DEF c
      <3>3. ToSet(c) = {c[i] : i \in 1..Len(c)}  BY <3>1, ListIs
      <3>4. \A i \in 1..Len(c) : "CMD_FUNCTION" \notin heap.type[c[i]]  BY <3>2, <3>3
      <3> HIDE DEF f
      <3> QED  BY <2>1, <3>4 DEF Functionless
    <2>3. PICK s \in [0..Len(f) -> Nat] : Height(f, s)  BY <2>1, <2>2 DEF Scoped
    <2>4. \A i \in 0..k : Scopes(heap, r)[i] = s[i]
      <3>1. Len(Chain(heap, r)) = k /\ \A j \in 1..k : f[j] = heap.type[Chain(heap, r)[j]]
        BY <2>1
      <3> HIDE DEF c, f, k
      <3>2. k \in Nat /\ Len(f) = k  BY <2>1
      <3>3. Len(Chain(heap, r)) = k  BY <3>1
      <3>4. \A i \in 1..k : f[i] = heap.type[Chain(heap, r)[i]]  BY <3>1
      <3>5. Height(f, s)  BY <2>3
      <3>6. \A i \in 0..k : Scopes(heap, r)[i] = s[i]  BY <3>2, <3>3, <3>4, <3>5, ScopesAre
      <3> QED  BY <3>6
    <2>5. n \in 0..k /\ s[n] \in Nat  BY <2>1, <2>3
    <2> QED  BY <2>4, <2>5
  <1> QED  BY <1>1, Inductive, PTL
=============================================================================
