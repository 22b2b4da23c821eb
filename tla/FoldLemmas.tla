----------------------------- MODULE FoldLemmas -----------------------------
(***************************************************************************)
(* Induction over a fold from the left: what holds of the value a fold     *)
(* starts from, and is kept by each element, holds of what it returns.     *)
(*                                                                         *)
(* Op is the operator folded, with the parameters c it has besides the     *)
(* value and the element; Inv says what holds of the value t once the      *)
(* first n elements of seq have been folded into s.                        *)
(*                                                                         *)
(* The module is instantiated once for each fold, so it extends as little  *)
(* as it can: Fold is FoldLeft written out, and that the natural numbers   *)
(* are well ordered, which the induction rests on, is a hypothesis that    *)
(* the instantiating module has proved.                                    *)
(***************************************************************************)
EXTENDS Integers, Sequences, TLAPS

CONSTANTS Op(_, _, _), Inv(_, _, _, _, _)

Latest(T) == CHOOSE n \in T : \A k \in T : n >= k

Fold(c, s, seq) ==
    LET iter[T \in SUBSET (DOMAIN seq)] ==
            IF T = {} THEN s ELSE LET n == Latest(T) IN Op(c, iter[T \ {n}], seq[n])
    IN  iter[DOMAIN seq]

-----------------------------------------------------------------------------
LEMMA GreatestIsLatest ==
    ASSUME NEW T, T \subseteq Nat, NEW n \in T, \A k \in T : n >= k
    PROVE  Latest(T) = n
<1>1. \A x \in T : (\A k \in T : x >= k) => x = n
  <2> SUFFICES ASSUME NEW x \in T, \A k \in T : x >= k PROVE x = n
    OBVIOUS
  <2>1. x \in Nat /\ n \in Nat /\ x >= n /\ n >= x
    OBVIOUS
  <2> QED
    BY <2>1
<1> QED
  BY <1>1 DEF Latest

-----------------------------------------------------------------------------
(* FoldLeft is defined by a recursive function on the sets of positions    *)
(* of the sequence.  Here it is as the last of a chain of values.          *)

Chain(c, s, seq, n, f) ==
    f = [T \in SUBSET (1 .. n) |->
            IF T = {} THEN s ELSE Op(c, f[T \ {Latest(T)}], seq[Latest(T)])]

\* The recursive function exists: it is extended by one position at a time.
LEMMA ChainGrows ==
    ASSUME NEW c, NEW s, NEW seq, NEW n \in Nat, NEW f, Chain(c, s, seq, n, f)
    PROVE  \E g : Chain(c, s, seq, n + 1, g)
<1> DEFINE m == n + 1
           S == SUBSET (1 .. n)
           g == [T \in SUBSET (1 .. m) |->
                    IF m \in T THEN Op(c, f[T \ {m}], seq[m]) ELSE f[T]]
<1>0. m \in Nat /\ m \notin 1 .. n
  OBVIOUS
<1> SUFFICES Chain(c, s, seq, m, g)
  OBVIOUS
<1> SUFFICES ASSUME NEW T \in SUBSET (1 .. m)
             PROVE  g[T] = IF T = {} THEN s ELSE Op(c, g[T \ {Latest(T)}], seq[Latest(T)])
  BY DEF Chain
<1>1. CASE m \in T
  <2>1. Latest(T) = m
    <3>1. T \subseteq Nat /\ \A k \in T : m >= k
      OBVIOUS
    <3> HIDE DEF m
    <3> QED
      BY <1>1, <3>1, GreatestIsLatest
  <2>2. T \ {m} \in SUBSET (1 .. m) /\ m \notin T \ {m}
    OBVIOUS
  <2>3. g[T \ {m}] = f[T \ {m}] /\ g[T] = Op(c, f[T \ {m}], seq[m])
    BY <1>1, <2>2
  <2> HIDE DEF m, g
  <2> QED
    BY <1>1, <2>1, <2>3
<1>2. CASE m \notin T
  <2>1. T \in S
    BY <1>2
  <2>2. g[T] = f[T]
    BY <1>2
  <2>3. CASE T = {}
    BY <2>1, <2>2, <2>3 DEF Chain
  <2>4. CASE T # {}
    <3>1. f[T] = Op(c, f[T \ {Latest(T)}], seq[Latest(T)])
      BY <2>1, <2>4 DEF Chain
    <3>2. T \ {Latest(T)} \in SUBSET (1 .. m) /\ m \notin T \ {Latest(T)}
      BY <1>2
    <3>3. g[T \ {Latest(T)}] = f[T \ {Latest(T)}]
      BY <3>2
    <3> HIDE DEF g, m
    <3> QED
      BY <2>2, <2>4, <3>1, <3>3
  <2> QED
    BY <2>3, <2>4
<1> QED
  BY <1>1, <1>2

LEMMA ChainExists ==
    ASSUME NEW c, NEW s, NEW seq, NEW n \in Nat,
           \A T \in SUBSET Nat : T # {} => \E m \in T : \A k \in T : m <= k
    PROVE  \E f : Chain(c, s, seq, n, f)
<1> DEFINE Bad == {k \in Nat : ~ \E f : Chain(c, s, seq, k, f)}
<1> SUFFICES ASSUME Bad # {} PROVE FALSE
  OBVIOUS
<1>1. PICK k \in Bad : \A l \in Bad : k <= l
  <2>1. Bad \subseteq Nat
    OBVIOUS
  <2> HIDE DEF Bad
  <2> QED
    BY <2>1
<1>2. CASE k = 0
  <2> DEFINE f == [T \in SUBSET (1 .. 0) |-> s]
  <2>1. \A T \in SUBSET (1 .. 0) : T = {}
    OBVIOUS
  <2>2. Chain(c, s, seq, 0, f)
    BY <2>1 DEF Chain
  <2> QED
    BY <1>2, <2>2
<1>3. CASE k # 0
  <2>1. k - 1 \in Nat /\ (k - 1) + 1 = k /\ k - 1 \notin Bad
    BY <1>1, <1>3
  <2>2. PICK f : Chain(c, s, seq, k - 1, f)
    BY <2>1
  <2>3. \E g : Chain(c, s, seq, (k - 1) + 1, g)
    BY <2>1, <2>2, ChainGrows
  <2> QED
    BY <2>1, <2>3
<1> QED
  BY <1>2, <1>3

LEMMA FoldIsChain ==
    ASSUME NEW c, NEW s, NEW S, NEW seq \in Seq(S),
           \A T \in SUBSET Nat : T # {} => \E m \in T : \A k \in T : m <= k
    PROVE  \E f : Chain(c, s, seq, Len(seq), f) /\ Fold(c, s, seq) = f[1 .. Len(seq)]
<1> DEFINE D == SUBSET (1 .. Len(seq))
           f == CHOOSE f : Chain(c, s, seq, Len(seq), f)
<1>1. DOMAIN seq = 1 .. Len(seq) /\ Len(seq) \in Nat
  OBVIOUS
<1>2. Chain(c, s, seq, Len(seq), f)
  BY <1>1, ChainExists
<1>3. Fold(c, s, seq) = f[1 .. Len(seq)]
  BY <1>1 DEF Fold, Chain
<1> QED
  BY <1>2, <1>3

-----------------------------------------------------------------------------
(* The induction.                                                          *)
THEOREM FoldInvariant ==
    ASSUME NEW c, NEW s, NEW S, NEW seq \in Seq(S),
           \A T \in SUBSET Nat : T # {} => \E m \in T : \A k \in T : m <= k,
           Inv(c, s, seq, 0, s),
           ASSUME NEW n \in 1 .. Len(seq), NEW t, Inv(c, s, seq, n - 1, t)
           PROVE  Inv(c, s, seq, n, Op(c, t, seq[n]))
    PROVE  Inv(c, s, seq, Len(seq), Fold(c, s, seq))
<1>1. PICK f : Chain(c, s, seq, Len(seq), f) /\ Fold(c, s, seq) = f[1 .. Len(seq)]
  BY FoldIsChain
<1>2. Len(seq) \in Nat
  OBVIOUS
<1>3. f[1 .. 0] = s
  <2>1. 1 .. 0 = {} /\ {} \in SUBSET (1 .. Len(seq))
    OBVIOUS
  <2> QED
    BY <1>1, <2>1 DEF Chain
<1>4. ASSUME NEW n \in 1 .. Len(seq)
      PROVE  f[1 .. n] = Op(c, f[1 .. n - 1], seq[n])
  <2>1. 1 .. n \in SUBSET (1 .. Len(seq)) /\ n \in 1 .. n
    BY <1>2
  <2>2. (1 .. n) \ {n} = 1 .. n - 1
    BY <1>2
  <2>3. Latest(1 .. n) = n
    <3>1. 1 .. n \subseteq Nat /\ \A k \in 1 .. n : n >= k
      BY <1>2
    <3> QED
      BY <2>1, <3>1, GreatestIsLatest
  <2> QED
    BY <1>1, <2>1, <2>2, <2>3 DEF Chain
<1> DEFINE Bad == {n \in 0 .. Len(seq) : ~Inv(c, s, seq, n, f[1 .. n])}
<1> SUFFICES ASSUME Bad # {} PROVE FALSE
  BY <1>1, <1>2
<1>5. PICK n \in Bad : \A k \in Bad : n <= k
  <2>1. Bad \subseteq Nat
    BY <1>2
  <2> HIDE DEF Bad
  <2> QED
    BY <2>1
<1>6. n # 0
  BY <1>3
<1>7. n - 1 \in 0 .. Len(seq) /\ n - 1 \notin Bad /\ n \in 1 .. Len(seq)
  BY <1>2, <1>5, <1>6
<1>8. Inv(c, s, seq, n - 1, f[1 .. n - 1])
  BY <1>7
<1>9. Inv(c, s, seq, n, Op(c, f[1 .. n - 1], seq[n]))
  BY <1>7, <1>8
<1> QED
  BY <1>4, <1>7, <1>9

=============================================================================
