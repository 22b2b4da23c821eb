----------------------------- MODULE LiveProofs -----------------------------
(***************************************************************************)
(* Proofs about LiveMuxer, for any number of streams and packets, any      *)
(* limits, and whatever the wrapped muxer answers.                         *)
(*                                                                         *)
(* A call takes packets through the stages one after another.  In between  *)
(* some are in no stage: a hand holds them.  What is proved of a stage is  *)
(* that it takes the first packet of the hand and leaves the LiveMuxer as  *)
(* it should be with the rest of them in hand; a stage that is a fold then *)
(* works off a hand of any length (FoldLemmas).  Beside who owns a packet  *)
(* a stage is shown to release none that was not written or counted, as    *)
(* long as no error strikes, and the Aligners to hold what they wait for.  *)
(*                                                                         *)
(* The second half is about the order of the packets: a stream's stand in  *)
(* the stages in the order in which they will be written, and none         *)
(* overtakes another between its Enforcer and the wrapped muxer (Ordered). *)
(* Close first writes what is held and, at an error, gives up the rest, so *)
(* of a closed LiveMuxer only the writes are spoken of (Delivers).         *)
(***************************************************************************)
EXTENDS LiveMuxer, FiniteSetTheorems, SequenceTheorems, WellFoundedInduction, TLAPS

\* Every nonempty set of natural numbers has a least element.
LEMMA LeastNatural ==
    ASSUME NEW T, T \subseteq Nat, T # {}
    PROVE  \E n \in T : \A k \in T : n <= k
<1> DEFINE R == OpToRel(<, Nat)
<1>1. IsWellFoundedOn(R, Nat)
  BY NatLessThanWellFounded
<1>2. \A x, y \in Nat : <<y, x>> \in R <=> y < x
  BY DEF OpToRel
<1> HIDE DEF R
<1>3. PICK x \in T : \A y \in T : ~(<<y, x>> \in R)
  BY <1>1, WFMin
<1>4. ASSUME NEW k \in T
      PROVE  x <= k
  <2>1. x \in Nat /\ k \in Nat
    OBVIOUS
  <2>2. ~(k < x)
    BY <1>2, <1>3, <2>1
  <2> QED
    BY <2>1, <2>2
<1> QED
  BY <1>4

LEMMA NaturalsOrdered ==
    \A T \in SUBSET Nat : T # {} => \E m \in T : \A k \in T : m <= k
BY LeastNatural

\* A set of natural numbers with 0 and the successors of its elements, up to n, has n.
LEMMA Induction ==
    ASSUME NEW Q, NEW n \in Nat, 0 \in Q, \A k \in 1 .. n : k - 1 \in Q => k \in Q
    PROVE  n \in Q
<1> DEFINE Bad == {k \in 0 .. n : k \notin Q}
<1> SUFFICES ASSUME Bad # {} PROVE FALSE
  OBVIOUS
<1>1. PICK k \in Bad : \A l \in Bad : k <= l
  <2>1. Bad \subseteq Nat
    OBVIOUS
  <2> HIDE DEF Bad
  <2> QED
    BY <2>1, LeastNatural
<1> QED
  BY <1>1

-----------------------------------------------------------------------------
(* FlattenSeq.                                                             *)
Joined(seqs, n, f) ==
    /\ f = [k \in 1 .. n |-> IF k = 1 THEN seqs[k] ELSE f[k - 1] \o seqs[k]]

LEMMA JoinedExists ==
    ASSUME NEW seqs, NEW n \in Nat
    PROVE  \E f : Joined(seqs, n, f)
<1> DEFINE Q == {k \in 0 .. n : \E f : Joined(seqs, k, f)}
<1>1. 0 \in Q
  <2> DEFINE f == [k \in 1 .. 0 |-> seqs[k]]
  <2>1. Joined(seqs, 0, f)
    BY DEF Joined
  <2> QED
    BY <2>1
<1>2. ASSUME NEW k \in 1 .. n, k - 1 \in Q
      PROVE  k \in Q
  <2>1. PICK f : Joined(seqs, k - 1, f)
    BY <1>2
  <2> DEFINE g == [j \in 1 .. k |-> IF j = k THEN IF k = 1 THEN seqs[k] ELSE f[k - 1] \o seqs[k] ELSE f[j]]
  <2>2. ASSUME NEW j \in 1 .. k
        PROVE  g[j] = IF j = 1 THEN seqs[j] ELSE g[j - 1] \o seqs[j]
    <3>1. CASE j = k
      BY <3>1
    <3>2. CASE j # k
      <4>1. j \in 1 .. k - 1
        BY <3>2
      <4>3. j # 1 => j - 1 \in 1 .. k /\ j - 1 # k
        BY <4>1
      <4> QED
        BY <2>1, <3>2, <4>1, <4>3 DEF Joined
    <3> QED
      BY <3>1, <3>2
  <2>3. Joined(seqs, k, g)
    BY <2>2 DEF Joined
  <2> QED
    BY <2>3
<1> HIDE DEF Q
<1> QED
  BY <1>1, <1>2, Induction DEF Q

LEMMA FlattenIsJoined ==
    ASSUME NEW S, NEW seqs \in Seq(Seq(S)), Len(seqs) # 0
    PROVE  \E f : Joined(seqs, Len(seqs), f) /\ FlattenSeq(seqs) = f[Len(seqs)]
<1> DEFINE f == CHOOSE f : Joined(seqs, Len(seqs), f)
<1>1. Len(seqs) \in Nat
  OBVIOUS
<1> QED
  BY <1>1, JoinedExists DEF FlattenSeq, Joined

\* What is in the joined sequences.
LEMMA FlattenElements ==
    ASSUME NEW S, NEW seqs \in Seq(Seq(S))
    PROVE  /\ FlattenSeq(seqs) \in Seq(S)
           /\ \A x : x \in Range(FlattenSeq(seqs)) <=> \E k \in 1 .. Len(seqs) : x \in Range(seqs[k])
<1> DEFINE n == Len(seqs)
<1>1. n \in Nat /\ DOMAIN seqs = 1 .. n /\ \A k \in 1 .. n : seqs[k] \in Seq(S)
  OBVIOUS
<1>2. CASE n = 0
  BY <1>1, <1>2, EmptySeq DEF FlattenSeq, Range
<1>3. CASE n # 0
  <2>1. PICK f : Joined(seqs, n, f) /\ FlattenSeq(seqs) = f[n]
    BY <1>3, FlattenIsJoined
  <2> DEFINE P(k) == /\ f[k] \in Seq(S)
                     /\ \A x : x \in Range(f[k]) <=> \E j \in 1 .. k : x \in Range(seqs[j])
             Q == {k \in 0 .. n : k = 0 \/ P(k)}
  <2>2. ASSUME NEW k \in 1 .. n, k = 1 \/ P(k - 1)
        PROVE  P(k)
    <3>1. f[k] = IF k = 1 THEN seqs[k] ELSE f[k - 1] \o seqs[k]
      BY <2>1 DEF Joined
    <3>2. CASE k = 1
      BY <1>1, <3>1, <3>2
    <3>3. CASE k # 1
      <4>3. f[k] \in Seq(S) /\ Range(f[k]) = Range(f[k - 1]) \cup Range(seqs[k])
        BY <1>1, <2>2, <3>1, <3>3, RangeConcatenation
      <4>4. \A j : j \in 1 .. k <=> j \in 1 .. k - 1 \/ j = k
        BY <1>1
      <4> QED
        BY <2>2, <3>3, <4>3, <4>4
    <3> QED
      BY <3>2, <3>3
  <2> HIDE DEF P
  <2>3. 0 \in Q /\ \A k \in 1 .. n : k - 1 \in Q => k \in Q
    BY <1>1, <2>2
  <2> HIDE DEF Q
  <2>5. P(n)
    BY <1>1, <1>3, <2>3, Induction DEF Q
  <2> QED
    BY <2>1, <2>5 DEF P
<1> QED
  BY <1>2, <1>3

\* One of the sequences is replaced.
LEMMA FlattenReplaced ==
    ASSUME NEW S, NEW seqs \in Seq(Seq(S)), NEW new \in Seq(Seq(S)), Len(new) = Len(seqs),
           NEW i \in 1 .. Len(seqs), \A k \in 1 .. Len(seqs) : k # i => new[k] = seqs[k]
    PROVE  Len(FlattenSeq(new)) = Len(FlattenSeq(seqs)) - Len(seqs[i]) + Len(new[i])
<1> DEFINE n == Len(seqs)
<1>1. n \in Nat /\ n # 0 /\ Len(new) # 0
  OBVIOUS
<1>2. \A k \in 1 .. n : seqs[k] \in Seq(S) /\ new[k] \in Seq(S)
  OBVIOUS
<1>3. \A k \in 1 .. n : Len(seqs[k]) \in Nat /\ Len(new[k]) \in Nat
  BY <1>2
<1>4. PICK f : Joined(seqs, n, f) /\ FlattenSeq(seqs) = f[n]
  BY <1>1, FlattenIsJoined
<1>5. PICK g : Joined(new, n, g) /\ FlattenSeq(new) = g[n]
  BY <1>1, FlattenIsJoined
<1> DEFINE P(k) == /\ f[k] \in Seq(S) /\ g[k] \in Seq(S)
                   /\ k < i => Len(g[k]) = Len(f[k])
                   /\ k >= i => Len(g[k]) = Len(f[k]) - Len(seqs[i]) + Len(new[i])
           Q == {k \in 0 .. n : k = 0 \/ P(k)}
<1>6. ASSUME NEW k \in 1 .. n, k = 1 \/ P(k - 1)
      PROVE  P(k)
  <2>1. f[k] = IF k = 1 THEN seqs[k] ELSE f[k - 1] \o seqs[k]
    BY <1>4 DEF Joined
  <2>2. g[k] = IF k = 1 THEN new[k] ELSE g[k - 1] \o new[k]
    BY <1>5 DEF Joined
  <2>3. k # i => Len(new[k]) = Len(seqs[k])
    OBVIOUS
  <2>4. CASE k = 1
    <3>1. f[k] = seqs[k] /\ g[k] = new[k] /\ (k >= i => k = i)
      BY <2>1, <2>2, <2>4
    <3>3. k < i => Len(g[k]) = Len(f[k])
      BY <2>3, <3>1
    <3>4. k = i => Len(g[k]) = Len(f[k]) - Len(seqs[i]) + Len(new[i])
      BY <1>3, <3>1
    <3> QED
      BY <1>2, <3>1, <3>3, <3>4
  <2>5. CASE k # 1
    <3>1. f[k - 1] \in Seq(S) /\ g[k - 1] \in Seq(S)
      BY <1>6, <2>5
    <3>2. f[k] \in Seq(S) /\ Len(f[k]) = Len(f[k - 1]) + Len(seqs[k])
      BY <1>2, <2>1, <2>5, <3>1, ConcatProperties
    <3>3. g[k] \in Seq(S) /\ Len(g[k]) = Len(g[k - 1]) + Len(new[k])
      BY <1>2, <2>2, <2>5, <3>1, ConcatProperties
    <3>4. Len(f[k - 1]) \in Nat /\ Len(g[k - 1]) \in Nat
      BY <3>1
    <3>5. /\ k - 1 < i => Len(g[k - 1]) = Len(f[k - 1])
          /\ k - 1 >= i => Len(g[k - 1]) = Len(f[k - 1]) - Len(seqs[i]) + Len(new[i])
      BY <1>6, <2>5
    <3> DEFINE lf == Len(f[k - 1])  lg == Len(g[k - 1])  ls == Len(seqs[k])  ln == Len(new[k])
               di == Len(new[i])    si == Len(seqs[i])
    <3>6. Len(f[k]) = lf + ls /\ Len(g[k]) = lg + ln /\ (k # i => ln = ls) /\ (k = i => ln = di /\ ls = si)
      BY <2>3, <3>2, <3>3
    <3>7. lf \in Nat /\ lg \in Nat /\ ls \in Nat /\ ln \in Nat /\ di \in Nat /\ si \in Nat
      BY <1>3, <3>4
    <3>8. (k - 1 < i => lg = lf) /\ (k - 1 >= i => lg = lf - si + di)
      BY <3>5
    <3> HIDE DEF lf, lg, ls, ln, di, si
    <3>9. k < i => Len(g[k]) = Len(f[k])
      BY <3>6, <3>7, <3>8
    <3>10. k >= i => Len(g[k]) = Len(f[k]) - si + di
      BY <3>6, <3>7, <3>8
    <3> QED
      BY <3>2, <3>3, <3>9, <3>10 DEF si, di
  <2> QED
    BY <2>4, <2>5
<1> HIDE DEF P
<1>7. 0 \in Q /\ \A k \in 1 .. n : k - 1 \in Q => k \in Q
  BY <1>1, <1>6
<1> HIDE DEF Q
<1>8. n \in Q
  BY <1>1, <1>7, Induction
<1>9. P(n) /\ n >= i
  BY <1>1, <1>8 DEF Q
<1> QED
  BY <1>4, <1>5, <1>9 DEF P

\* An empty sequence is appended.
LEMMA FlattenAppended ==
    ASSUME NEW S, NEW seqs \in Seq(Seq(S))
    PROVE  FlattenSeq(Append(seqs, <<>>)) = FlattenSeq(seqs)
<1> DEFINE n == Len(seqs)
           new == Append(seqs, <<>>)
<1>1. /\ n \in Nat
      /\ new \in Seq(Seq(S)) /\ Len(new) = n + 1 /\ new[n + 1] = <<>>
      /\ \A k \in 1 .. n : new[k] = seqs[k]
  OBVIOUS
<1> HIDE DEF new
<1>2. PICK g : Joined(new, Len(new), g) /\ FlattenSeq(new) = g[Len(new)]
  BY <1>1, FlattenIsJoined
<1>3. \A k \in 1 .. n + 1 : g[k] = IF k = 1 THEN new[k] ELSE g[k - 1] \o new[k]
  BY <1>1, <1>2 DEF Joined
<1>4. CASE n = 0
  <2>1. seqs = <<>> /\ FlattenSeq(seqs) = <<>>
    BY <1>4 DEF FlattenSeq
  <2> QED
    BY <1>1, <1>2, <1>3, <1>4, <2>1 DEF new
<1>5. CASE n # 0
  <2>1. PICK f : Joined(seqs, n, f) /\ FlattenSeq(seqs) = f[n]
    BY <1>5, FlattenIsJoined
  <2> DEFINE Q == {k \in 0 .. n : k = 0 \/ f[k] = g[k]}
  <2>2. 0 \in Q
    BY <1>1
  <2>3. ASSUME NEW k \in 1 .. n, k - 1 \in Q
        PROVE  k \in Q
    <3>1. f[k] = IF k = 1 THEN seqs[k] ELSE f[k - 1] \o seqs[k]
      BY <2>1 DEF Joined
    <3>2. g[k] = IF k = 1 THEN new[k] ELSE g[k - 1] \o new[k]
      <4>1. k \in 1 .. n + 1
        BY <1>1
      <4> QED
        BY <1>3, <4>1
    <3> QED
      BY <1>1, <2>3, <3>1, <3>2
  <2> HIDE DEF Q
  <2>5. f[n] = g[n]
    BY <1>1, <1>5, <2>2, <2>3, Induction DEF Q
  <2>6. g[n + 1] = g[n] \o <<>>
    <3>1. n + 1 \in 1 .. n + 1 /\ n + 1 # 1 /\ (n + 1) - 1 = n
      BY <1>1, <1>5
    <3> QED
      BY <1>1, <1>3, <3>1
  <2> QED
    BY <1>1, <1>2, <2>1, <2>5, <2>6, ConcatEmptySeq, FlattenElements DEF new
<1> QED
  BY <1>4, <1>5

-----------------------------------------------------------------------------
(* What the records are.                                                   *)
Packet == [id : Nat, stream : Nat, dts : Int, kind : {"key", "delta", "config"}, dur : Int, disc : BOOLEAN]

EnforcerState == [buf : Seq(Packet), last : Int, emitted : BOOLEAN]

AlignerState == [started : BOOLEAN, sync : Int, expects : BOOLEAN, pending : Seq(Packet), cfg : Seq(Packet)]

StreamState ==
    [kind : {"video", "audio", "other"}, enforcer : EnforcerState, aligner : AlignerState,
     pending : Seq(Packet), lastDuration : Int, inputMode : {"unset", "packet", "adts"}]

Entry == [packet : Packet, duration : Int]

Offer ==
    {o \in [packet : Packet, duration : Int, ok : BOOLEAN, ticks : Int, durationTicks : Int] :
        o.ticks = ToTicks(o.packet.dts)}

Where == {"late", "config", "no keyframe", "overflow", "before sync"}

LiveState ==
    [streams : Seq(StreamState), queue : Seq(Entry), started : BOOLEAN, closed : BOOLEAN,
     err : {"none", "write", "interleave full"}, retained : Int,
     accepted : Seq(Packet), out : Seq(Offer), released : Seq(Nat),
     reported : SUBSET [packet : Packet, where : Where], fuse : Int]

\* completePacket holds back one packet of a stream.
OnePending(s) == \A k \in DOMAIN s.streams : Len(s.streams[k].pending) <= 1

-----------------------------------------------------------------------------
(* What a LiveMuxer owns while the packets of hand are in no stage of it.  *)
Stage(st) == st.enforcer.buf \o st.aligner.pending \o st.aligner.cfg \o st.pending

Stages(s) == [k \in DOMAIN s.streams |-> Stage(s.streams[k])]

Queued(s) == [j \in DOMAIN s.queue |-> s.queue[j].packet]

Packets(s) == FlattenSeq(Stages(s)) \o Queued(s)

Ids(packets) == {packets[j].id : j \in DOMAIN packets}

Owns(s, hand) ==
    /\ s \in LiveState /\ hand \in Seq(Packet) /\ OnePending(s)
    /\ Ids(Packets(s)) \cup Range(s.released) \cup Ids(hand) = 1 .. Len(s.accepted)
    /\ Len(Packets(s)) + Len(s.released) + Len(hand) = Len(s.accepted)
    /\ s.retained + Len(s.released) = Len(s.accepted)

-----------------------------------------------------------------------------
(* The elements of a sequence.                                             *)
LEMMA RangeOne ==
    ASSUME NEW S, NEW x \in S
    PROVE  Range(<<x>>) = {x} /\ <<x>> \in Seq(S) /\ Len(<<x>>) = 1
BY DEF Range

LEMMA RangeEmpty == Range(<<>>) = {} /\ Len(<<>>) = 0
BY DEF Range

LEMMA RangeConcat ==
    ASSUME NEW S, NEW a \in Seq(S), NEW b \in Seq(S)
    PROVE  Range(a \o b) = Range(a) \cup Range(b) /\ a \o b \in Seq(S) /\ Len(a \o b) = Len(a) + Len(b)
BY RangeConcatenation, ConcatProperties

LEMMA RangeAppend ==
    ASSUME NEW S, NEW a \in Seq(S), NEW x \in S
    PROVE  Range(Append(a, x)) = Range(a) \cup {x} /\ Append(a, x) \in Seq(S) /\ Len(Append(a, x)) = Len(a) + 1
<1>2. <<x>> \in Seq(S) /\ Range(<<x>>) = {x}
  BY RangeOne
<1>3. Range(a \o <<x>>) = Range(a) \cup Range(<<x>>)
  BY <1>2, RangeConcatenation
<1> QED
  BY <1>2, <1>3, AppendProperties, AppendIsConcat

LEMMA RangeOfSplit ==
    ASSUME NEW S, NEW a \in Seq(S), NEW n \in 0 .. Len(a)
    PROVE  LET first == SubSeq(a, 1, n)  rest == SubSeq(a, n + 1, Len(a)) IN
           /\ first \o rest = a
           /\ Range(a) = Range(first) \cup Range(rest)
           /\ first \in Seq(S) /\ rest \in Seq(S)
           /\ Len(first) = n /\ Len(rest) = Len(a) - n
<1> DEFINE first == SubSeq(a, 1, n)  rest == SubSeq(a, n + 1, Len(a))
<1>1. first \in Seq(S) /\ Len(first) = n
  BY SubSeqProperties
<1>2. rest \in Seq(S) /\ Len(rest) = Len(a) - n
  BY SubSeqProperties
<1>3. first \o rest = a
  <2>1. 1 \in 1 .. Len(a) + 1 /\ n \in 1 - 1 .. Len(a) /\ Len(a) \in n .. Len(a)
    OBVIOUS
  <2> QED
    BY <2>1, SubSeqFull, ConcatAdjacentSubSeq
<1> HIDE DEF first, rest
<1> QED
  BY <1>1, <1>2, <1>3, RangeConcatenation DEF first, rest

LEMMA RangeOfTail ==
    ASSUME NEW S, NEW a \in Seq(S), a # <<>>
    PROVE  /\ Range(a) = {a[1]} \cup Range(Tail(a)) /\ Head(a) = a[1] /\ a[1] \in S
           /\ Tail(a) \in Seq(S) /\ Len(a) = Len(Tail(a)) + 1 /\ <<a[1]>> \o Tail(a) = a
<1>1. Len(a) \in Nat \ {0} /\ a[1] \in S /\ Head(a) = a[1]
  BY EmptySeq
<1>3. SubSeq(a, 1, 1) = <<a[1]>>
  <2> DEFINE b == SubSeq(a, 1, 1)
  <2>1. b \in Seq(S) /\ Len(b) = 1 /\ b[1] = a[1]
    BY <1>1, SubSeqProperties
  <2> HIDE DEF b
  <2>2. b = <<b[1]>>
    BY <2>1
  <2> QED
    BY <2>1, <2>2 DEF b
<1>4. 1 \in 0 .. Len(a) /\ 1 + 1 = 2
  BY <1>1
<1>5. /\ SubSeq(a, 1, 1) \o SubSeq(a, 1 + 1, Len(a)) = a
      /\ Range(a) = Range(SubSeq(a, 1, 1)) \cup Range(SubSeq(a, 1 + 1, Len(a)))
      /\ SubSeq(a, 1 + 1, Len(a)) \in Seq(S) /\ Len(SubSeq(a, 1 + 1, Len(a))) = Len(a) - 1
  BY <1>4, RangeOfSplit
<1>7. Tail(a) = SubSeq(a, 1 + 1, Len(a))
  BY <1>4, TailIsSubSeq
<1>8. Range(a) = {a[1]} \cup Range(Tail(a)) /\ Tail(a) \in Seq(S) /\ <<a[1]>> \o Tail(a) = a
  BY <1>1, <1>3, <1>5, <1>7, RangeOne
<1> QED
  BY <1>1, <1>5, <1>7, <1>8

LEMMA RangeOfInsert ==
    ASSUME NEW S, NEW a \in Seq(S), NEW x \in S, NEW i \in 1 .. Len(a) + 1
    PROVE  /\ Range(InsertAt(a, i, x)) = Range(a) \cup {x}
           /\ InsertAt(a, i, x) \in Seq(S) /\ Len(InsertAt(a, i, x)) = Len(a) + 1
<1> DEFINE first == SubSeq(a, 1, i - 1)  rest == SubSeq(a, (i - 1) + 1, Len(a))
<1>1. i - 1 \in 0 .. Len(a) /\ (i - 1) + 1 = i
  OBVIOUS
<1>2. /\ Range(a) = Range(first) \cup Range(rest)
      /\ first \in Seq(S) /\ rest \in Seq(S)
      /\ Len(first) = i - 1 /\ Len(rest) = Len(a) - (i - 1)
  BY <1>1, RangeOfSplit
<1>3. InsertAt(a, i, x) = first \o <<x>> \o rest
  BY <1>1 DEF InsertAt
<1> HIDE DEF first, rest
<1>4. <<x>> \in Seq(S) /\ Len(<<x>>) = 1 /\ Range(<<x>>) = {x}
  BY RangeOne
<1>5. first \in Seq(S) /\ rest \in Seq(S)
  BY <1>2
<1>6. <<x>> \in Seq(S)
  BY <1>4
<1> DEFINE front == first \o <<x>>
<1>7. front \in Seq(S) /\ Len(front) = Len(first) + Len(<<x>>) /\ Range(front) = Range(first) \cup Range(<<x>>)
  BY <1>5, <1>6, RangeConcat
<1> HIDE DEF front
<1>8. front \in Seq(S)
  BY <1>7
<1>9. front \o rest \in Seq(S) /\ Len(front \o rest) = Len(front) + Len(rest) /\ Range(front \o rest) = Range(front) \cup Range(rest)
  BY <1>5, <1>8, RangeConcat
<1>10. Len(front \o rest) = Len(a) + 1
  BY <1>2, <1>4, <1>7, <1>9
<1> QED
  BY <1>2, <1>3, <1>4, <1>7, <1>9, <1>10 DEF front

-----------------------------------------------------------------------------
(* The ids in a sequence of packets.                                       *)
LEMMA IdsOfRange ==
    ASSUME NEW a, NEW x
    PROVE  x \in Ids(a) <=> \E p \in Range(a) : p.id = x
BY DEF Ids, Range

LEMMA IdsEmpty == Ids(<<>>) = {}
BY RangeEmpty, IdsOfRange

LEMMA IdsOne ==
    ASSUME NEW p \in Packet
    PROVE  Ids(<<p>>) = {p.id} /\ <<p>> \in Seq(Packet) /\ Len(<<p>>) = 1
BY RangeOne, IdsOfRange

LEMMA IdsConcat ==
    ASSUME NEW a \in Seq(Packet), NEW b \in Seq(Packet)
    PROVE  Ids(a \o b) = Ids(a) \cup Ids(b) /\ a \o b \in Seq(Packet) /\ Len(a \o b) = Len(a) + Len(b)
BY RangeConcatenation, IdsOfRange

LEMMA IdsAppend ==
    ASSUME NEW a \in Seq(Packet), NEW p \in Packet
    PROVE  Ids(Append(a, p)) = Ids(a) \cup {p.id} /\ Append(a, p) \in Seq(Packet) /\ Len(Append(a, p)) = Len(a) + 1
BY RangeAppend, IdsOfRange

LEMMA IdsOfTail ==
    ASSUME NEW a \in Seq(Packet), a # <<>>
    PROVE  /\ Ids(a) = {a[1].id} \cup Ids(Tail(a)) /\ Head(a) = a[1] /\ a[1] \in Packet
           /\ Tail(a) \in Seq(Packet) /\ Len(a) = Len(Tail(a)) + 1
<1>0. Range(a) = {a[1]} \cup Range(Tail(a))
  BY RangeOfTail
<1> QED
  BY <1>0, RangeOfTail, IdsOfRange

LEMMA IdsOfSplit ==
    ASSUME NEW a \in Seq(Packet), NEW n \in 0 .. Len(a)
    PROVE  LET first == SubSeq(a, 1, n)  rest == SubSeq(a, n + 1, Len(a)) IN
           /\ Ids(a) = Ids(first) \cup Ids(rest)
           /\ first \in Seq(Packet) /\ rest \in Seq(Packet)
           /\ Len(first) = n /\ Len(rest) = Len(a) - n
<1> DEFINE first == SubSeq(a, 1, n)  rest == SubSeq(a, n + 1, Len(a))
<1>1. /\ first \o rest = a /\ first \in Seq(Packet) /\ rest \in Seq(Packet)
      /\ Len(first) = n /\ Len(rest) = Len(a) - n
  BY RangeOfSplit
<1> HIDE DEF first, rest
<1> QED
  BY <1>1, IdsConcat DEF first, rest

LEMMA IdsOfInsert ==
    ASSUME NEW a \in Seq(Packet), NEW p \in Packet, NEW i \in 1 .. Len(a) + 1
    PROVE  /\ Ids(InsertAt(a, i, p)) = Ids(a) \cup {p.id}
           /\ InsertAt(a, i, p) \in Seq(Packet) /\ Len(InsertAt(a, i, p)) = Len(a) + 1
BY RangeOfInsert, IdsOfRange

\* The ids in the queue.
QueueIds(queued) == {queued[j].packet.id : j \in DOMAIN queued}

LEMMA QueueIdsOfRange ==
    ASSUME NEW a, NEW x
    PROVE  x \in QueueIds(a) <=> \E q \in Range(a) : q.packet.id = x
BY DEF QueueIds, Range

LEMMA QueueIdsOfTail ==
    ASSUME NEW a \in Seq(Entry), a # <<>>
    PROVE  /\ QueueIds(a) = {a[1].packet.id} \cup QueueIds(Tail(a)) /\ a[1] \in Entry
           /\ Tail(a) \in Seq(Entry) /\ Len(a) = Len(Tail(a)) + 1 /\ Head(a) = a[1]
<1>0. Range(a) = {a[1]} \cup Range(Tail(a))
  BY RangeOfTail
<1> QED
  BY <1>0, RangeOfTail, QueueIdsOfRange

LEMMA QueueIdsOfInsert ==
    ASSUME NEW a \in Seq(Entry), NEW q \in Entry, NEW i \in 1 .. Len(a) + 1
    PROVE  /\ QueueIds(InsertAt(a, i, q)) = QueueIds(a) \cup {q.packet.id}
           /\ InsertAt(a, i, q) \in Seq(Entry) /\ Len(InsertAt(a, i, q)) = Len(a) + 1
BY RangeOfInsert, QueueIdsOfRange

LEMMA QueueIdsEmpty == QueueIds(<<>>) = {}
BY RangeEmpty, QueueIdsOfRange

-----------------------------------------------------------------------------
(* One stream of a LiveMuxer is changed.                                   *)
IsLive(s) ==
    s = [streams |-> s.streams, queue |-> s.queue, started |-> s.started, closed |-> s.closed,
         err |-> s.err, retained |-> s.retained, accepted |-> s.accepted, out |-> s.out,
         released |-> s.released, reported |-> s.reported, fuse |-> s.fuse]

LEMMA StateShape ==
    ASSUME NEW s \in LiveState
    PROVE  IsLive(s)
BY DEF LiveState, IsLive

LEMMA ShapeKept ==
    ASSUME NEW s, IsLive(s), NEW t, DOMAIN t = DOMAIN s, t = [f \in DOMAIN s |-> t[f]]
    PROVE  IsLive(t)
BY DEF IsLive

LEMMA StateOf ==
    ASSUME NEW s, IsLive(s),
           s.streams \in Seq(StreamState), s.queue \in Seq(Entry), s.accepted \in Seq(Packet),
           s.started \in BOOLEAN, s.closed \in BOOLEAN, s.err \in {"none", "write", "interleave full"},
           s.retained \in Int, s.out \in Seq(Offer), s.released \in Seq(Nat),
           s.reported \in SUBSET [packet : Packet, where : Where], s.fuse \in Int
    PROVE  s \in LiveState
BY DEF LiveState, IsLive

LEMMA StateFields ==
    ASSUME NEW s \in LiveState
    PROVE  /\ s.streams \in Seq(StreamState) /\ DOMAIN s.streams = 1 .. Len(s.streams) /\ Len(s.streams) \in Nat
           /\ \A k \in DOMAIN s.streams : s.streams[k] \in StreamState
           /\ s.queue \in Seq(Entry) /\ Len(s.queue) \in Nat
           /\ s.started \in BOOLEAN /\ s.closed \in BOOLEAN
           /\ s.err \in {"none", "write", "interleave full"} /\ s.retained \in Int
           /\ s.accepted \in Seq(Packet) /\ Len(s.accepted) \in Nat /\ s.out \in Seq(Offer)
           /\ s.released \in Seq(Nat) /\ Len(s.released) \in Nat
           /\ s.reported \in SUBSET [packet : Packet, where : Where] /\ s.fuse \in Int
<1>2. /\ s.streams \in Seq(StreamState) /\ s.queue \in Seq(Entry) /\ s.accepted \in Seq(Packet)
      /\ s.out \in Seq(Offer) /\ s.released \in Seq(Nat)
  BY DEF LiveState
<1>4. /\ DOMAIN s.streams = 1 .. Len(s.streams) /\ Len(s.streams) \in Nat
      /\ \A k \in DOMAIN s.streams : s.streams[k] \in StreamState
  BY <1>2
<1>5. Len(s.queue) \in Nat /\ Len(s.accepted) \in Nat /\ Len(s.released) \in Nat
  BY <1>2
<1> QED
  BY <1>2, <1>4, <1>5 DEF LiveState

LEMMA StreamFields ==
    ASSUME NEW st \in StreamState
    PROVE  /\ st = [kind |-> st.kind, enforcer |-> st.enforcer, aligner |-> st.aligner, pending |-> st.pending,
                    lastDuration |-> st.lastDuration, inputMode |-> st.inputMode]
           /\ st.kind \in {"video", "audio", "other"} /\ st.lastDuration \in Int
           /\ st.inputMode \in {"unset", "packet", "adts"}
           /\ st.enforcer \in EnforcerState
           /\ st.enforcer = [buf |-> st.enforcer.buf, last |-> st.enforcer.last, emitted |-> st.enforcer.emitted]
           /\ st.enforcer.buf \in Seq(Packet) /\ st.enforcer.last \in Int /\ st.enforcer.emitted \in BOOLEAN
           /\ st.aligner \in AlignerState
           /\ st.aligner = [started |-> st.aligner.started, sync |-> st.aligner.sync, expects |-> st.aligner.expects,
                            pending |-> st.aligner.pending, cfg |-> st.aligner.cfg]
           /\ st.aligner.started \in BOOLEAN /\ st.aligner.sync \in Int /\ st.aligner.expects \in BOOLEAN
           /\ st.aligner.pending \in Seq(Packet) /\ st.aligner.cfg \in Seq(Packet) /\ st.pending \in Seq(Packet)
           /\ Len(st.enforcer.buf) \in Nat /\ Len(st.aligner.pending) \in Nat
           /\ Len(st.aligner.cfg) \in Nat /\ Len(st.pending) \in Nat
BY DEF StreamState, EnforcerState, AlignerState

LEMMA StreamReplaced ==
    ASSUME NEW s \in LiveState, NEW i \in DOMAIN s.streams, NEW st \in StreamState
    PROVE  LET t == [s EXCEPT !.streams[i] = st] IN
           /\ t \in LiveState
           /\ Len(t.streams) = Len(s.streams) /\ DOMAIN t.streams = DOMAIN s.streams
           /\ t.streams[i] = st /\ \A k \in DOMAIN s.streams : k # i => t.streams[k] = s.streams[k]
           /\ t.queue = s.queue /\ t.started = s.started /\ t.closed = s.closed /\ t.err = s.err
           /\ t.retained = s.retained /\ t.accepted = s.accepted /\ t.out = s.out
           /\ t.released = s.released /\ t.reported = s.reported /\ t.fuse = s.fuse
<1> DEFINE new == [s.streams EXCEPT ![i] = st]
           t == [s EXCEPT !.streams[i] = st]
<1>1. s.streams \in Seq(StreamState) /\ i \in 1 .. Len(s.streams) /\ DOMAIN s.streams = 1 .. Len(s.streams)
  BY StateFields
<1>2. /\ new \in Seq(StreamState) /\ Len(new) = Len(s.streams)
      /\ \A j \in 1 .. Len(s.streams) : new[j] = IF j = i THEN st ELSE s.streams[j]
  BY <1>1, ExceptSeq
<1>3. IsLive(s)
  BY StateShape
<1>4. t.streams = new
  BY <1>3 DEF IsLive
<1>5. /\ t.queue = s.queue /\ t.started = s.started /\ t.closed = s.closed /\ t.err = s.err
      /\ t.retained = s.retained /\ t.accepted = s.accepted /\ t.out = s.out
      /\ t.released = s.released /\ t.reported = s.reported /\ t.fuse = s.fuse
  BY <1>3 DEF IsLive
<1>6. IsLive(t)
  BY <1>3, ShapeKept
<1>7. DOMAIN new = DOMAIN s.streams
  OBVIOUS
<1> HIDE DEF new, t
<1> QED
  BY <1>1, <1>2, <1>4, <1>5, <1>6, <1>7, StateFields, StateOf DEF t

-----------------------------------------------------------------------------
(* What is owned, stage by stage.                                          *)
StageIds(st) == Ids(st.enforcer.buf) \cup Ids(st.aligner.pending) \cup Ids(st.aligner.cfg) \cup Ids(st.pending)

StageSize(st) == Len(st.enforcer.buf) + Len(st.aligner.pending) + Len(st.aligner.cfg) + Len(st.pending)

LEMMA StageIs ==
    ASSUME NEW st \in StreamState
    PROVE  Stage(st) \in Seq(Packet) /\ Ids(Stage(st)) = StageIds(st) /\ Len(Stage(st)) = StageSize(st)
<1> DEFINE a == st.enforcer.buf  b == st.aligner.pending  c == st.aligner.cfg  d == st.pending
<1>1. a \in Seq(Packet) /\ b \in Seq(Packet) /\ c \in Seq(Packet) /\ d \in Seq(Packet)
  BY StreamFields
<1>2. Stage(st) = a \o b \o c \o d
  BY DEF Stage
<1>3. StageIds(st) = Ids(a) \cup Ids(b) \cup Ids(c) \cup Ids(d)
  BY DEF StageIds
<1>4. StageSize(st) = Len(a) + Len(b) + Len(c) + Len(d)
  BY DEF StageSize
<1> HIDE DEF a, b, c, d
<1>5. a \o b \in Seq(Packet) /\ Ids(a \o b) = Ids(a) \cup Ids(b) /\ Len(a \o b) = Len(a) + Len(b)
  BY <1>1, IdsConcat
<1> DEFINE ab == a \o b
<1> HIDE DEF ab
<1>6. ab \o c \in Seq(Packet) /\ Ids(ab \o c) = Ids(ab) \cup Ids(c) /\ Len(ab \o c) = Len(ab) + Len(c)
  BY <1>1, <1>5, IdsConcat DEF ab
<1> DEFINE abc == ab \o c
<1> HIDE DEF abc
<1>7. abc \o d \in Seq(Packet) /\ Ids(abc \o d) = Ids(abc) \cup Ids(d) /\ Len(abc \o d) = Len(abc) + Len(d)
  BY <1>1, <1>6, IdsConcat DEF abc
<1> QED
  BY <1>2, <1>3, <1>4, <1>5, <1>6, <1>7 DEF abc, ab

LEMMA PacketsAre ==
    ASSUME NEW s \in LiveState
    PROVE  /\ Stages(s) \in Seq(Seq(Packet)) /\ Len(Stages(s)) = Len(s.streams)
           /\ \A k \in DOMAIN s.streams : Stages(s)[k] = Stage(s.streams[k])
           /\ Packets(s) \in Seq(Packet)
           /\ Len(Packets(s)) = Len(FlattenSeq(Stages(s))) + Len(s.queue) /\ Len(FlattenSeq(Stages(s))) \in Nat
           /\ \A x : x \in Ids(Packets(s)) <=>
                        (\E k \in DOMAIN s.streams : x \in StageIds(s.streams[k])) \/ x \in QueueIds(s.queue)
<1> DEFINE n == Len(s.streams)
<1>1. n \in Nat /\ DOMAIN s.streams = 1 .. n /\ \A k \in 1 .. n : s.streams[k] \in StreamState
  BY StateFields
<1>2. \A k \in 1 .. n : Stage(s.streams[k]) \in Seq(Packet) /\ Ids(Stage(s.streams[k])) = StageIds(s.streams[k])
  BY <1>1, StageIs
<1>3. Stages(s) = [k \in 1 .. n |-> Stage(s.streams[k])]
  BY <1>1 DEF Stages
<1> HIDE DEF n
<1>5. Stages(s) \in Seq(Seq(Packet)) /\ Len(Stages(s)) = n /\ \A k \in 1 .. n : Stages(s)[k] = Stage(s.streams[k])
  BY <1>1, <1>2, <1>3
<1> DEFINE all == FlattenSeq(Stages(s))
<1>6. all \in Seq(Packet) /\ \A x : x \in Range(all) <=> \E k \in 1 .. n : x \in Range(Stages(s)[k])
  BY <1>5, FlattenElements
<1>7. \A x : x \in Ids(all) <=> \E k \in 1 .. n : x \in StageIds(s.streams[k])
  BY <1>2, <1>5, <1>6, IdsOfRange
<1>8. s.queue \in Seq(Entry) /\ Len(s.queue) \in Nat
  BY StateFields
<1> DEFINE m == Len(s.queue)
<1>9. DOMAIN s.queue = 1 .. m /\ m \in Nat /\ \A j \in 1 .. m : s.queue[j] \in Entry
  BY <1>8
<1>10. Queued(s) = [j \in 1 .. m |-> s.queue[j].packet]
  BY <1>9 DEF Queued
<1> HIDE DEF m
<1>12. Queued(s) \in Seq(Packet) /\ Len(Queued(s)) = m /\ DOMAIN Queued(s) = 1 .. m
  BY <1>9, <1>10 DEF Entry
<1>13. Ids(Queued(s)) = QueueIds(s.queue)
  BY <1>9, <1>10, <1>12 DEF Ids, QueueIds
<1> HIDE DEF all
<1>14. /\ Ids(all \o Queued(s)) = Ids(all) \cup Ids(Queued(s))
       /\ all \o Queued(s) \in Seq(Packet) /\ Len(all \o Queued(s)) = Len(all) + Len(Queued(s))
  BY <1>6, <1>12, IdsConcat
<1>15. Packets(s) = all \o Queued(s)
  BY DEF Packets, all
<1>17. Len(Packets(s)) = Len(all) + Len(s.queue) /\ Len(all) \in Nat /\ Packets(s) \in Seq(Packet)
  BY <1>6, <1>12, <1>14, <1>15 DEF m
<1> QED
  BY <1>1, <1>5, <1>7, <1>13, <1>14, <1>15, <1>17 DEF n, all

\* The packets of stream i, of the queue and of the hand, and those released.
HereIds(s, i, hand) == StageIds(s.streams[i]) \cup QueueIds(s.queue) \cup Range(s.released) \cup Ids(hand)

HereSize(s, i, hand) == StageSize(s.streams[i]) + Len(s.queue) + Len(s.released) + Len(hand)

\* Nothing is gained or lost by a step within one stream, the queue, the hand and the pool.
Moves(s, hand, t, left, i) ==
    /\ t \in LiveState /\ left \in Seq(Packet) /\ Len(t.streams) = Len(s.streams)
    /\ \A k \in DOMAIN s.streams : k # i => /\ StageIds(t.streams[k]) = StageIds(s.streams[k])
                                           /\ Stage(t.streams[k]) = Stage(s.streams[k])
                                           /\ t.streams[k].pending = s.streams[k].pending
    /\ Len(t.streams[i].pending) <= 1
    /\ t.accepted = s.accepted /\ t.retained + Len(t.released) = s.retained + Len(s.released)
    /\ HereIds(t, i, left) = HereIds(s, i, hand) /\ HereSize(t, i, left) = HereSize(s, i, hand)

LEMMA Moved ==
    ASSUME NEW s, NEW t, NEW hand, NEW left, Owns(s, hand), NEW i \in DOMAIN s.streams,
           Moves(s, hand, t, left, i)
    PROVE  Owns(t, left)
<1>0. /\ t \in LiveState /\ left \in Seq(Packet) /\ Len(t.streams) = Len(s.streams)
      /\ \A k \in DOMAIN s.streams : k # i => /\ StageIds(t.streams[k]) = StageIds(s.streams[k])
                                             /\ Stage(t.streams[k]) = Stage(s.streams[k])
                                             /\ t.streams[k].pending = s.streams[k].pending
      /\ Len(t.streams[i].pending) <= 1
      /\ t.accepted = s.accepted /\ t.retained + Len(t.released) = s.retained + Len(s.released)
      /\ HereIds(t, i, left) = HereIds(s, i, hand) /\ HereSize(t, i, left) = HereSize(s, i, hand)
  BY DEF Moves
<1>1. s \in LiveState /\ hand \in Seq(Packet)
  BY DEF Owns
<1>2. DOMAIN t.streams = DOMAIN s.streams /\ DOMAIN s.streams = 1 .. Len(s.streams)
  BY <1>0, <1>1, StateFields
<1>5. Len(Packets(t)) + Len(t.released) + Len(left) = Len(Packets(s)) + Len(s.released) + Len(hand)
  <2>1. /\ Stages(s) \in Seq(Seq(Packet)) /\ Len(Stages(s)) = Len(s.streams)
        /\ \A k \in DOMAIN s.streams : Stages(s)[k] = Stage(s.streams[k])
        /\ Len(Packets(s)) = Len(FlattenSeq(Stages(s))) + Len(s.queue) /\ Len(FlattenSeq(Stages(s))) \in Nat
    BY <1>0, <1>1, PacketsAre
  <2>2. /\ Stages(t) \in Seq(Seq(Packet)) /\ Len(Stages(t)) = Len(s.streams)
        /\ \A k \in DOMAIN s.streams : Stages(t)[k] = Stage(t.streams[k])
        /\ Len(Packets(t)) = Len(FlattenSeq(Stages(t))) + Len(t.queue) /\ Len(FlattenSeq(Stages(t))) \in Nat
    BY <1>0, <1>2, PacketsAre
  <2>3. i \in 1 .. Len(Stages(s)) /\ \A k \in 1 .. Len(Stages(s)) : k # i => Stages(t)[k] = Stages(s)[k]
    BY <1>0, <1>2, <2>1, <2>2
  <2>4. Len(FlattenSeq(Stages(t))) = Len(FlattenSeq(Stages(s))) - Len(Stages(s)[i]) + Len(Stages(t)[i])
    <3>1. Stages(s) \in Seq(Seq(Packet)) /\ Stages(t) \in Seq(Seq(Packet)) /\ Len(Stages(t)) = Len(Stages(s))
      BY <1>0, <2>1, <2>2
    <3> QED
      BY <1>0, <2>3, <3>1, FlattenReplaced
  <2>5. Len(Stages(s)[i]) = StageSize(s.streams[i])
    BY <1>0, <1>1, <2>1, StateFields, StageIs
  <2>6. Len(Stages(t)[i]) = StageSize(t.streams[i])
    BY <1>0, <1>2, <2>2, StateFields, StageIs
  <2>7. StageSize(s.streams[i]) \in Nat /\ StageSize(t.streams[i]) \in Nat
    <3>2. ASSUME NEW st \in StreamState
          PROVE  StageSize(st) \in Nat
      <4> DEFINE a == Len(st.enforcer.buf)  b == Len(st.aligner.pending)  c == Len(st.aligner.cfg)  d == Len(st.pending)
      <4>1. a \in Nat /\ b \in Nat /\ c \in Nat /\ d \in Nat
        BY <1>0, StreamFields
      <4>2. StageSize(st) = a + b + c + d
        BY <1>0 DEF StageSize
      <4> HIDE DEF a, b, c, d
      <4> QED
        BY <1>0, <4>1, <4>2
    <3> QED
      BY <1>0, <1>1, <1>2, <3>2, StateFields
  <2>8. Len(s.queue) \in Nat /\ Len(t.queue) \in Nat /\ Len(s.released) \in Nat /\ Len(t.released) \in Nat
    BY <1>0, <1>1, StateFields
  <2>9. Len(hand) \in Nat /\ Len(left) \in Nat
    BY <1>0, <1>1
  <2> DEFINE fs == Len(FlattenSeq(Stages(s)))  ft == Len(FlattenSeq(Stages(t)))
             zs == StageSize(s.streams[i])     zt == StageSize(t.streams[i])
             rs == Len(s.released)  rt == Len(t.released)  hs == Len(hand)  ht == Len(left)
             qs == Len(s.queue)     qt == Len(t.queue)
  <2>10. ft = fs - zs + zt
    BY <1>0, <2>4, <2>5, <2>6
  <2>11. zt + qt + rt + ht = zs + qs + rs + hs
    BY <1>0 DEF HereSize
  <2>12. Len(Packets(s)) = fs + qs /\ Len(Packets(t)) = ft + qt
    BY <1>0, <2>1, <2>2
  <2>13. /\ fs \in Nat /\ ft \in Nat /\ zs \in Nat /\ zt \in Nat /\ rs \in Nat /\ rt \in Nat
         /\ hs \in Nat /\ ht \in Nat /\ qs \in Nat /\ qt \in Nat
    BY <1>0, <2>1, <2>2, <2>7, <2>8, <2>9
  <2> HIDE DEF fs, ft, zs, zt, rs, rt, hs, ht, qs, qt
  <2>14. (ft + qt) + rt + ht = (fs + qs) + rs + hs
    BY <1>0, <2>10, <2>11, <2>13
  <2> QED
    BY <1>0, <2>12, <2>14 DEF rs, rt, hs, ht
<1> QED
  BY <1>0, <1>1, <1>2, <1>5, PacketsAre DEF Owns, OnePending, HereIds

-----------------------------------------------------------------------------
(* The least of a set, and the place that sort.Search finds.               *)
LEMMA MinIs ==
    ASSUME NEW T, T \subseteq Nat, T # {}
    PROVE  Min(T) \in T /\ \A k \in T : Min(T) <= k
BY LeastNatural DEF Min

LEMMA SearchFinds ==
    ASSUME NEW n \in Nat, NEW stamps, Len(stamps) = n, NEW dts
    PROVE  /\ SearchIndex(stamps, dts) \in 1 .. n + 1
           /\ SearchIndex(stamps, dts) <= n => stamps[SearchIndex(stamps, dts)] > dts
           /\ \A j \in 1 .. n : j < SearchIndex(stamps, dts) => ~(stamps[j] > dts)
<1> DEFINE T == {i \in 1 .. n + 1 : i > n \/ stamps[i] > dts}
<1>2. T \subseteq Nat /\ n + 1 \in T
  OBVIOUS
<1>3. Min(T) \in T /\ \A k \in T : Min(T) <= k
  BY <1>2, MinIs
<1>4. ASSUME NEW j \in 1 .. n, j < Min(T)
      PROVE  ~(stamps[j] > dts)
  BY <1>2, <1>3, <1>4
<1> QED
  BY <1>3, <1>4 DEF SearchIndex

-----------------------------------------------------------------------------
(* What a call leaves alone: it ends with the streams, the accepted        *)
(* packets and the flags it has at its start, and an error sticks.  The    *)
(* packets it releases are among those offered to the muxer or counted as  *)
(* dropped, unless an error struck.                                        *)
Tally(s) == {s.out[j].packet.id : j \in DOMAIN s.out} \cup {r.packet.id : r \in s.reported}

Counted(s, t) ==
    /\ Tally(s) \subseteq Tally(t)
    /\ t.err = "none" => Range(t.released) \subseteq Range(s.released) \cup Tally(t)

Framed(s, t) ==
    /\ t.accepted = s.accepted /\ t.started = s.started /\ t.closed = s.closed
    /\ Len(t.streams) = Len(s.streams) /\ DOMAIN t.streams = DOMAIN s.streams
    /\ \A k \in DOMAIN s.streams : /\ t.streams[k].kind = s.streams[k].kind
                                   /\ t.streams[k].enforcer = s.streams[k].enforcer
    /\ s.err # "none" => t.err = s.err

Kept(s, t) == Framed(s, t) /\ Counted(s, t)

LEMMA FramedTwice ==
    ASSUME NEW s, NEW u, NEW t, Framed(s, u), Framed(u, t)
    PROVE  Framed(s, t)
BY DEF Framed

LEMMA KeptTwice ==
    ASSUME NEW s, NEW u, NEW t, Kept(s, u), Kept(u, t)
    PROVE  Kept(s, t)
BY FramedTwice DEF Kept, Framed, Counted

LEMMA KeptAlways ==
    ASSUME NEW s
    PROVE  Kept(s, s)
BY DEF Kept, Framed, Counted

\* Writing from the queue, releasing or dropping.
OnlyWrites(s, t) == Kept(s, t) /\ t.streams = s.streams

\* completePacket of stream i.
OnlyCompletes(s, t, i) ==
    /\ Kept(s, t)
    /\ \A k \in DOMAIN s.streams : k # i => t.streams[k] = s.streams[k]
    /\ t.streams[i].aligner = s.streams[i].aligner
    /\ s.err # "none" => t.streams = s.streams /\ t.queue = s.queue

\* The Aligner of stream i.
OnlyAligns(s, t, i) ==
    /\ Kept(s, t)
    /\ \A k \in DOMAIN s.streams :
          k # i => /\ t.streams[k].aligner.pending = s.streams[k].aligner.pending
                   /\ t.streams[k].aligner.cfg = s.streams[k].aligner.cfg
                   /\ t.streams[k].pending = s.streams[k].pending

LEMMA HandFirst ==
    ASSUME NEW p \in Packet, NEW rest \in Seq(Packet)
    PROVE  /\ <<p>> \o rest \in Seq(Packet)
           /\ Ids(<<p>> \o rest) = {p.id} \cup Ids(rest) /\ Len(<<p>> \o rest) = 1 + Len(rest)
BY IdsOne, IdsConcat

\* A step that leaves the stages of every stream alone.
LEMMA MovedOutside ==
    ASSUME NEW s, NEW t \in LiveState, NEW hand, NEW left \in Seq(Packet), Owns(s, hand),
           t.streams = s.streams,
           t.accepted = s.accepted, t.retained + Len(t.released) = s.retained + Len(s.released),
           QueueIds(t.queue) \cup Range(t.released) \cup Ids(left)
               = QueueIds(s.queue) \cup Range(s.released) \cup Ids(hand),
           Len(t.queue) + Len(t.released) + Len(left) = Len(s.queue) + Len(s.released) + Len(hand)
    PROVE  Owns(t, left)
<1>1. s \in LiveState /\ hand \in Seq(Packet)
  BY DEF Owns
<1>3. Stages(t) = Stages(s)
  BY DEF Stages
<1>5. Len(Packets(t)) + Len(t.released) + Len(left) = Len(Packets(s)) + Len(s.released) + Len(hand)
  <2> DEFINE fs == Len(FlattenSeq(Stages(s)))
             rs == Len(s.released)  rt == Len(t.released)  hs == Len(hand)  ht == Len(left)
             qs == Len(s.queue)     qt == Len(t.queue)
  <2>1. fs \in Nat /\ Len(Packets(s)) = fs + qs /\ Len(Packets(t)) = fs + qt
    BY <1>1, <1>3, PacketsAre
  <2>2. qs \in Nat /\ qt \in Nat /\ rs \in Nat /\ rt \in Nat
    BY <1>1, StateFields
  <2>3. hs \in Nat /\ ht \in Nat
    BY <1>1
  <2>4. qt + rt + ht = qs + rs + hs
    OBVIOUS
  <2> HIDE DEF fs, rs, rt, hs, ht, qs, qt
  <2>5. (fs + qt) + rt + ht = (fs + qs) + rs + hs
    BY <2>1, <2>2, <2>3, <2>4
  <2> QED
    BY <2>1, <2>5 DEF rs, rt, hs, ht
<1> QED
  BY <1>1, <1>5, PacketsAre DEF Owns, OnePending

LEMMA Released ==
    ASSUME NEW s, NEW p \in Packet, NEW rest \in Seq(Packet), Owns(s, <<p>> \o rest)
    PROVE  LET t == ReleasePacket(s, p) IN
           /\ Owns(t, rest) /\ t.streams = s.streams
           /\ t.started = s.started /\ t.closed = s.closed /\ t.accepted = s.accepted
           /\ t.queue = s.queue /\ t.err = s.err /\ t.reported = s.reported /\ t.out = s.out /\ t.fuse = s.fuse
           /\ Range(t.released) = Range(s.released) \cup {p.id}
           /\ s.err # "none" => OnlyWrites(s, t)
<1> DEFINE t == ReleasePacket(s, p)
<1>1. s \in LiveState /\ IsLive(s)
  BY StateShape DEF Owns
<1>2. /\ t.streams = s.streams /\ t.queue = s.queue /\ t.started = s.started /\ t.closed = s.closed
      /\ t.err = s.err /\ t.accepted = s.accepted /\ t.out = s.out /\ t.reported = s.reported /\ t.fuse = s.fuse
      /\ t.retained = s.retained - 1 /\ t.released = Append(s.released, p.id)
  BY <1>1 DEF ReleasePacket, IsLive
<1>3. IsLive(t)
  BY <1>1, ShapeKept DEF ReleasePacket
<1> HIDE DEF t
<1>4. s.released \in Seq(Nat) /\ Len(s.released) \in Nat /\ p.id \in Nat /\ s.retained \in Int
  BY <1>1, StateFields DEF Packet
<1> DEFINE old == s.released  new == Append(old, p.id)
<1>5. /\ t.released \in Seq(Nat) /\ Len(t.released) = Len(s.released) + 1
      /\ Range(t.released) = Range(s.released) \cup {p.id}
  BY <1>2, <1>4, RangeAppend DEF new
<1> HIDE DEF new, old
<1>6. t.retained \in Int /\ t.retained + Len(t.released) = s.retained + Len(s.released)
  <2> DEFINE a == Len(s.released)  b == Len(t.released)  c == s.retained
  <2>1. a \in Nat /\ b = a + 1 /\ c \in Int /\ t.retained = c - 1
    BY <1>2, <1>4, <1>5
  <2> HIDE DEF a, b, c
  <2> QED
    BY <2>1 DEF a, b, c
<1>7. t \in LiveState
  BY <1>1, <1>2, <1>3, <1>5, <1>6, StateFields, StateOf
<1>8. Len(rest) \in Nat /\ Len(<<p>> \o rest) = 1 + Len(rest) /\ Ids(<<p>> \o rest) = {p.id} \cup Ids(rest)
  BY HandFirst
<1> DEFINE hs == Len(<<p>> \o rest)  ht == Len(rest)  qs == Len(s.queue)  rs == Len(s.released)  rt == Len(t.released)
<1>9. hs = 1 + ht /\ ht \in Nat /\ qs \in Nat /\ rs \in Nat /\ rt = rs + 1 /\ Len(t.queue) = qs
  BY <1>1, <1>2, <1>4, <1>5, <1>8, StateFields
<1> HIDE DEF hs, ht, qs, rs, rt
<1>10. Len(t.queue) + rt + ht = qs + rs + hs
  BY <1>9
<1>12. Owns(t, rest)
  BY <1>2, <1>5, <1>6, <1>7, <1>8, <1>10, MovedOutside DEF hs, ht, qs, rs, rt
<1> QED
  BY <1>2, <1>5, <1>12 DEF t, Counted, Tally, OnlyWrites, Kept, Framed

LEMMA Dropped ==
    ASSUME NEW s, NEW p \in Packet, NEW rest \in Seq(Packet), Owns(s, <<p>> \o rest),
           NEW where \in Where
    PROVE  LET t == Drop(s, p, where) IN
           /\ Owns(t, rest) /\ OnlyWrites(s, t)
           /\ t.queue = s.queue /\ t.err = s.err /\ t.out = s.out /\ t.fuse = s.fuse
           /\ t.reported = s.reported \cup {[packet |-> p, where |-> where]}
<1> DEFINE r == ReleasePacket(s, p)  t == Drop(s, p, where)
<1>1. /\ Owns(r, rest) /\ r.streams = s.streams
      /\ r.started = s.started /\ r.closed = s.closed /\ r.accepted = s.accepted
      /\ r.queue = s.queue /\ r.err = s.err /\ r.reported = s.reported /\ r.out = s.out /\ r.fuse = s.fuse
      /\ Range(r.released) = Range(s.released) \cup {p.id}
  BY Released
<1>2. t = [r EXCEPT !.reported = @ \cup {[packet |-> p, where |-> where]}]
  BY DEF Drop
<1> HIDE DEF r, t
<1>3. r \in LiveState /\ IsLive(r)
  BY <1>1, StateShape DEF Owns
<1>4. /\ t.streams = r.streams /\ t.queue = r.queue /\ t.started = r.started /\ t.closed = r.closed
      /\ t.err = r.err /\ t.accepted = r.accepted /\ t.out = r.out /\ t.fuse = r.fuse
      /\ t.retained = r.retained /\ t.released = r.released
      /\ t.reported = r.reported \cup {[packet |-> p, where |-> where]}
  BY <1>2, <1>3 DEF IsLive
<1>6. t.reported \in SUBSET [packet : Packet, where : Where]
  <2>2. r.reported \in SUBSET [packet : Packet, where : Where]
    BY <1>3, StateFields
  <2> QED
    BY <1>4, <2>2
<1>9. OnlyWrites(s, t)
  <2>1. t.reported = s.reported \cup {[packet |-> p, where |-> where]} /\ t.out = s.out
    BY <1>1, <1>4
  <2>2. p.id \in Tally(t) /\ Tally(s) \subseteq Tally(t)
    BY <2>1 DEF Tally
  <2> QED
    BY <1>1, <1>4, <2>2 DEF OnlyWrites, Kept, Framed, Counted
<1> QED
  BY <1>1, <1>2, <1>3, <1>4, <1>6, <1>9, MovedOutside, StateFields, StateOf, ShapeKept DEF t

-----------------------------------------------------------------------------
(* Packets move between the stages of one stream and the hand.             *)
LEMMA SizesAreNat ==
    ASSUME NEW st \in StreamState
    PROVE  StageSize(st) \in Nat
<1> DEFINE a == Len(st.enforcer.buf)  b == Len(st.aligner.pending)  c == Len(st.aligner.cfg)  d == Len(st.pending)
<1>1. a \in Nat /\ b \in Nat /\ c \in Nat /\ d \in Nat
  BY StreamFields
<1>2. StageSize(st) = a + b + c + d
  BY DEF StageSize
<1> HIDE DEF a, b, c, d
<1> QED
  BY <1>1, <1>2

WithStream(s, i, st) == [s EXCEPT !.streams[i] = st]

InStream(s, t, i) ==
    /\ Len(t.streams) = Len(s.streams) /\ DOMAIN t.streams = DOMAIN s.streams
    /\ \A k \in DOMAIN s.streams : k # i => t.streams[k] = s.streams[k]
    /\ t.queue = s.queue /\ t.started = s.started /\ t.closed = s.closed /\ t.err = s.err
    /\ t.retained = s.retained /\ t.accepted = s.accepted /\ t.out = s.out
    /\ t.released = s.released /\ t.reported = s.reported /\ t.fuse = s.fuse

LEMMA MovedInStream ==
    ASSUME NEW s, NEW hand, NEW left \in Seq(Packet), Owns(s, hand),
           NEW i \in DOMAIN s.streams, NEW st \in StreamState, Len(st.pending) <= 1,
           StageIds(st) \cup Ids(left) = StageIds(s.streams[i]) \cup Ids(hand),
           StageSize(st) + Len(left) = StageSize(s.streams[i]) + Len(hand),
           NEW t, t = WithStream(s, i, st)
    PROVE  Owns(t, left) /\ InStream(s, t, i) /\ t.streams[i] = st
<1>1. s \in LiveState /\ hand \in Seq(Packet)
  BY DEF Owns
<1>2. /\ t \in LiveState
      /\ Len(t.streams) = Len(s.streams) /\ DOMAIN t.streams = DOMAIN s.streams
      /\ t.streams[i] = st /\ \A k \in DOMAIN s.streams : k # i => t.streams[k] = s.streams[k]
      /\ t.queue = s.queue /\ t.started = s.started /\ t.closed = s.closed /\ t.err = s.err
      /\ t.retained = s.retained /\ t.accepted = s.accepted /\ t.out = s.out
      /\ t.released = s.released /\ t.reported = s.reported /\ t.fuse = s.fuse
  BY <1>1, StreamReplaced DEF WithStream
<1>4. HereSize(t, i, left) = HereSize(s, i, hand)
  <2> DEFINE a == StageSize(st)  b == StageSize(s.streams[i])  q == Len(s.queue)  r == Len(s.released)
             h == Len(hand)      l == Len(left)
  <2>1. HereSize(t, i, left) = a + q + r + l /\ HereSize(s, i, hand) = b + q + r + h
    BY <1>2 DEF HereSize
  <2>2. /\ a \in Nat /\ b \in Nat /\ q \in Nat /\ r \in Nat /\ h \in Nat /\ l \in Nat
        /\ a + l = b + h
    <3>3. h \in Nat /\ l \in Nat
      BY <1>1
    <3> QED
      BY <1>1, <3>3, SizesAreNat, StateFields
  <2> HIDE DEF a, b, q, r, h, l
  <2> QED
    BY <2>1, <2>2
<1> QED
  BY <1>2, <1>4, Moved DEF InStream, Moves, HereIds

-----------------------------------------------------------------------------
(* The queue.                                                              *)
LEMMA TicksAreInt ==
    ASSUME NEW ns \in Int
    PROVE  ToTicks(ns) \in Int /\ AtLeastOne(ToTicks(ns)) \in Int
BY LiveAssumption DEF ToTicks, AtLeastOne

Queues(s, t) ==
    /\ t.streams = s.streams /\ t.accepted = s.accepted
    /\ t.started = s.started /\ t.closed = s.closed /\ t.out = s.out /\ t.fuse = s.fuse
    /\ t.released = s.released /\ t.reported = s.reported
    /\ t.err \in {s.err, "interleave full"} /\ (s.closed => t.err = s.err)
    /\ Len(t.queue) = Len(s.queue) + 1

\* insertQueue: the first packet of the hand is queued; the queue may be found full.
LEMMA Enqueued ==
    ASSUME NEW s, NEW p \in Packet, NEW rest \in Seq(Packet), Owns(s, <<p>> \o rest),
           NEW i \in DOMAIN s.streams, NEW duration \in Int, NEW t, t = Enqueue(s, p, duration)
    PROVE  Owns(t, rest) /\ Queues(s, t)
<1> DEFINE stamps == [j \in DOMAIN s.queue |-> s.queue[j].packet.dts]
           at == SearchIndex(stamps, p.dts)
           q == [packet |-> p, duration |-> duration]
           new == InsertAt(s.queue, at, q)
           r == [s EXCEPT !.queue = InsertAt(@, at, q)]
<1>1. s \in LiveState /\ IsLive(s)
  BY StateShape DEF Owns
<1>2. s.queue \in Seq(Entry) /\ Len(s.queue) \in Nat
  BY <1>1, StateFields
<1>4. at \in 1 .. Len(s.queue) + 1
  BY <1>2, SearchFinds
<1>5. q \in Entry
  BY DEF Entry
<1> HIDE DEF stamps, at
<1>6. QueueIds(new) = QueueIds(s.queue) \cup {q.packet.id} /\ new \in Seq(Entry) /\ Len(new) = Len(s.queue) + 1
  BY <1>2, <1>4, <1>5, QueueIdsOfInsert
<1> HIDE DEF new
<1>7. /\ r.streams = s.streams /\ r.queue = new /\ r.started = s.started /\ r.closed = s.closed
      /\ r.err = s.err /\ r.accepted = s.accepted /\ r.out = s.out /\ r.reported = s.reported /\ r.fuse = s.fuse
      /\ r.retained = s.retained /\ r.released = s.released
  BY <1>1 DEF IsLive, new
<1>8. IsLive(r)
  BY <1>1, ShapeKept
<1>9. t = IF ~s.closed /\ Len(r.queue) > MaxInterleavePackets THEN [r EXCEPT !.err = "interleave full"] ELSE r
  BY DEF Enqueue, stamps, at
<1> HIDE DEF r
<1>10. /\ t.streams = s.streams /\ t.queue = new /\ t.started = s.started /\ t.closed = s.closed
       /\ t.accepted = s.accepted /\ t.out = s.out /\ t.reported = s.reported /\ t.fuse = s.fuse
       /\ t.retained = s.retained /\ t.released = s.released
  BY <1>7, <1>8, <1>9 DEF IsLive
<1>11. t.err \in {s.err, "interleave full"} /\ (s.closed => t.err = s.err)
  BY <1>7, <1>8, <1>9 DEF IsLive
<1>15. Ids(<<p>> \o rest) = {p.id} \cup Ids(rest) /\ Len(<<p>> \o rest) = 1 + Len(rest)
  BY HandFirst
<1>17. Len(t.queue) + Len(t.released) + Len(rest) = Len(s.queue) + Len(s.released) + Len(<<p>> \o rest)
  <2> DEFINE a == Len(s.queue)  b == Len(s.released)  c == Len(rest)  d == Len(t.queue)  e == Len(<<p>> \o rest)
  <2>1. a \in Nat /\ b \in Nat /\ c \in Nat /\ d = a + 1 /\ e = 1 + c /\ Len(t.released) = b
    <3>3. e = 1 + c /\ c \in Nat
      BY <1>15
    <3> QED
      BY <1>1, <1>6, <1>10, <3>3, StateFields
  <2> HIDE DEF a, b, c, d, e
  <2>2. d + b + c = a + b + e
    BY <2>1
  <2> QED
    BY <2>1, <2>2 DEF a, b, c, d, e
<1> QED
  BY <1>1, <1>6, <1>8, <1>9, <1>10, <1>11, <1>15, <1>17, MovedOutside, StateFields, StateOf, ShapeKept
     DEF Queues

\* A sequence of packets in hand: the next of them, and those after it.
LEMMA HandNext ==
    ASSUME NEW S, NEW seq \in Seq(S), NEW rest \in Seq(S), NEW n \in 1 .. Len(seq)
    PROVE  /\ seq[n] \in S
           /\ SubSeq(seq, n + 1, Len(seq)) \o rest \in Seq(S)
           /\ SubSeq(seq, (n - 1) + 1, Len(seq)) \o rest
                = <<seq[n]>> \o (SubSeq(seq, n + 1, Len(seq)) \o rest)
<1> DEFINE a == SubSeq(seq, n, n)  b == SubSeq(seq, n + 1, Len(seq))
<1>1. Len(seq) \in Nat /\ (n - 1) + 1 = n /\ seq[n] \in S
  OBVIOUS
<1>2. b \in Seq(S)
  BY <1>1, RangeOfSplit
<1>3. a = <<seq[n]>>
  <2>1. a \in Seq(S) /\ Len(a) = 1 /\ a[1] = seq[n]
    BY <1>1, SubSeqProperties
  <2> HIDE DEF a
  <2> QED
    BY <2>1
<1>4. SubSeq(seq, n, Len(seq)) = a \o b
  BY <1>1, ConcatAdjacentSubSeq
<1> HIDE DEF a, b
<1>5. a \in Seq(S) /\ rest \in Seq(S)
  BY <1>1, <1>3
<1>6. (a \o b) \o rest = a \o (b \o rest)
  BY <1>2, <1>5, SMTT(30)
<1> QED
  BY <1>1, <1>2, <1>3, <1>4, <1>6, ConcatProperties DEF b

LEMMA HandWhole ==
    ASSUME NEW S, NEW seq \in Seq(S), NEW rest \in Seq(S)
    PROVE  /\ SubSeq(seq, 0 + 1, Len(seq)) \o rest = seq \o rest
           /\ SubSeq(seq, Len(seq) + 1, Len(seq)) \o rest = rest
<1>1. SubSeq(seq, 1, Len(seq)) = seq
  BY SubSeqFull
<1>2. SubSeq(seq, Len(seq) + 1, Len(seq)) = <<>>
  BY RangeOfSplit, EmptySeq
<1>3. <<>> \o rest = rest
  BY ConcatEmptySeq
<1> DEFINE e == SubSeq(seq, Len(seq) + 1, Len(seq))
<1>4. e \o rest = rest
  BY <1>2, <1>3 DEF e
<1> HIDE DEF e
<1>5. 0 + 1 = 1
  OBVIOUS
<1> QED
  BY <1>1, <1>4, <1>5 DEF e

-----------------------------------------------------------------------------
(* Writing from the queue.                                                 *)
WriteNext(c, t, q) == IF t.err = "none" THEN WriteQueued([t EXCEPT !.queue = Tail(@)], q) ELSE t

\* The first n of the entries are written, and the queue holds those after them, until an error.
WritesSoFar(c, s, entries, n, t) ==
    /\ OnlyWrites(s, t) /\ t.reported = s.reported
    /\ \A rest \in Seq(Packet) : Owns(s, rest) => Owns(t, rest)
    /\ t.err = "none" => t.queue = SubSeq(s.queue, n + 1, Len(s.queue))

Writing == INSTANCE FoldLemmas WITH Op <- WriteNext, Inv <- WritesSoFar

LEMMA OneWritten ==
    ASSUME NEW s, NEW rest \in Seq(Packet), Owns(s, rest), s.queue # <<>>
    PROVE  LET t == WriteQueued([s EXCEPT !.queue = Tail(@)], s.queue[1]) IN
           /\ Owns(t, rest) /\ t.streams = s.streams /\ t.accepted = s.accepted /\ t.started = s.started
           /\ t.closed = s.closed /\ t.reported = s.reported /\ t.queue = Tail(s.queue)
           /\ t.err \in {s.err, "write"} /\ Counted(s, t)
<1> DEFINE q == s.queue[1]
           p == q.packet
           u == [s EXCEPT !.queue = Tail(@)]
           r == ReleasePacket(u, p)
           o == [packet |-> p, duration |-> q.duration, ok |-> u.fuse # 0,
                 ticks |-> ToTicks(p.dts), durationTicks |-> AtLeastOne(ToTicks(q.duration))]
           t == WriteQueued(u, q)
<1>1. s \in LiveState /\ IsLive(s)
  BY StateShape DEF Owns
<1>2. /\ QueueIds(s.queue) = {p.id} \cup QueueIds(Tail(s.queue)) /\ q \in Entry
      /\ Tail(s.queue) \in Seq(Entry) /\ Len(s.queue) = Len(Tail(s.queue)) + 1
  BY <1>1, StateFields, QueueIdsOfTail
<1>3. p \in Packet /\ q.duration \in Int /\ p.dts \in Int
  BY <1>2 DEF Entry, Packet
<1> DEFINE hand == <<p>> \o rest
<1>4. Ids(hand) = {p.id} \cup Ids(rest) /\ Len(hand) = 1 + Len(rest) /\ hand \in Seq(Packet)
  BY <1>3, HandFirst
<1>5. /\ u.streams = s.streams /\ u.queue = Tail(s.queue) /\ u.started = s.started /\ u.closed = s.closed
      /\ u.err = s.err /\ u.accepted = s.accepted /\ u.out = s.out /\ u.reported = s.reported /\ u.fuse = s.fuse
      /\ u.retained = s.retained /\ u.released = s.released
  BY <1>1 DEF IsLive
<1>6. IsLive(u)
  BY <1>1, ShapeKept
<1>7. t = [r EXCEPT !.err = IF u.fuse = 0 THEN "write" ELSE @, !.fuse = @ - 1, !.out = Append(@, o)]
  BY DEF WriteQueued
<1> HIDE DEF hand, o, p, q, t, u
<1>8. u \in LiveState
  BY <1>1, <1>2, <1>5, <1>6, StateFields, StateOf
<1>9. Owns(u, hand)
  <2>1. u.retained + Len(u.released) = s.retained + Len(s.released) /\ u.accepted = s.accepted /\ u.streams = s.streams
    BY <1>5
  <2>2. QueueIds(u.queue) \cup Range(u.released) \cup Ids(hand) = QueueIds(s.queue) \cup Range(s.released) \cup Ids(rest)
    BY <1>2, <1>4, <1>5
  <2> DEFINE a == Len(u.queue)  b == Len(u.released)  c == Len(rest)  d == Len(s.queue)  e == Len(hand)
  <2>3. d \in Nat /\ b \in Nat /\ a \in Nat
    BY <1>1, <1>8, StateFields
  <2>4. d = a + 1 /\ e = 1 + c /\ c \in Nat /\ Len(s.released) = b
    BY <1>2, <1>4, <1>5
  <2> HIDE DEF a, b, c, d, e
  <2>5. a + b + e = d + b + c
    BY <2>3, <2>4
  <2> QED
    BY <1>4, <1>8, <2>1, <2>2, <2>4, <2>5, MovedOutside DEF a, b, c, d, e
<1>11. /\ Owns(r, rest) /\ r.streams = u.streams
       /\ r.started = u.started /\ r.closed = u.closed /\ r.accepted = u.accepted
       /\ r.queue = u.queue /\ r.err = u.err /\ r.reported = u.reported /\ r.out = u.out /\ r.fuse = u.fuse
       /\ Range(r.released) = Range(u.released) \cup {p.id}
  BY <1>3, <1>9, Released DEF hand
<1> HIDE DEF r
<1>12. r \in LiveState /\ IsLive(r)
  BY <1>11, StateShape DEF Owns
<1>13. /\ t.streams = r.streams /\ t.queue = r.queue /\ t.started = r.started /\ t.closed = r.closed
       /\ t.accepted = r.accepted /\ t.reported = r.reported
       /\ t.retained = r.retained /\ t.released = r.released
       /\ t.err = (IF u.fuse = 0 THEN "write" ELSE r.err) /\ t.fuse = r.fuse - 1 /\ t.out = Append(r.out, o)
  BY <1>7, <1>12 DEF IsLive
<1>15. o \in Offer
  BY <1>3, TicksAreInt DEF Offer, o
<1>16. t.out \in Seq(Offer) /\ t.fuse \in Int
  <2>1. r.out \in Seq(Offer) /\ r.fuse \in Int
    BY <1>12, StateFields
  <2> QED
    BY <1>13, <1>15, <2>1
<1>17. t.err \in {s.err, "write"}
  BY <1>5, <1>11, <1>13
<1>18. t \in LiveState
  BY <1>1, <1>7, <1>12, <1>13, <1>16, <1>17, StateFields, StateOf, ShapeKept
<1>21. t.queue = Tail(s.queue) /\ t.reported = s.reported
  BY <1>5, <1>11, <1>13
<1>22. Counted(s, t)
  <2>1. t.out = Append(s.out, o) /\ s.out \in Seq(Offer)
    BY <1>1, <1>5, <1>11, <1>13, StateFields
  <2>3. \A x : x \in Tally(t) <=> (\E w \in Range(t.out) : w.packet.id = x) \/ \E w \in t.reported : w.packet.id = x
    BY DEF Tally, Range
  <2>4. \A x : x \in Tally(s) <=> (\E w \in Range(s.out) : w.packet.id = x) \/ \E w \in s.reported : w.packet.id = x
    BY DEF Tally, Range
  <2>6. Tally(t) = Tally(s) \cup {p.id}
    BY <1>15, <1>21, <2>1, <2>3, <2>4, RangeAppend DEF o
  <2> QED
    BY <1>5, <1>11, <1>13, <2>6 DEF Counted
<1> QED
  BY <1>5, <1>11, <1>12, <1>13, <1>17, <1>18, <1>21, <1>22, MovedOutside DEF t, u, q

LEMMA QueueWritten ==
    ASSUME NEW s, NEW rest \in Seq(Packet), Owns(s, rest),
           NEW n \in 0 .. Len(s.queue)
    PROVE  LET t == WriteFirst(s, n) IN
           /\ Owns(t, rest) /\ OnlyWrites(s, t) /\ t.reported = s.reported
           /\ t.err = "none" => t.queue = SubSeq(s.queue, n + 1, Len(s.queue))
<1> DEFINE entries == SubSeq(s.queue, 1, n)
           t == WriteFirst(s, n)
<1>1. s \in LiveState /\ s.queue \in Seq(Entry) /\ Len(s.queue) \in Nat
  BY StateFields DEF Owns
<1>2. entries \in Seq(Entry) /\ Len(entries) = n
  BY <1>1, RangeOfSplit
<1>3. t = Writing!Fold(0, s, entries)
  BY DEF WriteFirst, Writing!Fold, WriteNext, FoldLeft, MapThenFoldSet, Max, Writing!Latest
<1>4. WritesSoFar(0, s, entries, 0, s)
  BY <1>1, SubSeqFull, KeptAlways DEF WritesSoFar, OnlyWrites
<1> HIDE DEF entries, t
<1>5. ASSUME NEW m \in 1 .. n, NEW u, WritesSoFar(0, s, entries, m - 1, u)
      PROVE  WritesSoFar(0, s, entries, m, WriteNext(0, u, entries[m]))
  <2> DEFINE v == WriteNext(0, u, entries[m])
  <2>1. OnlyWrites(s, u) /\ u.reported = s.reported /\ \A r \in Seq(Packet) : Owns(s, r) => Owns(u, r)
    BY <1>5 DEF WritesSoFar
  <2>2. CASE u.err # "none"
    BY <2>1, <2>2 DEF WriteNext, WritesSoFar, v
  <2>3. CASE u.err = "none"
    <3>1. u.queue = SubSeq(s.queue, (m - 1) + 1, Len(s.queue))
      BY <1>5, <2>3 DEF WritesSoFar
    <3>2. m \in 1 .. Len(s.queue) /\ (m - 1) + 1 = m /\ n \in Nat
      BY <1>1
    <3>4. u.queue # <<>> /\ u.queue[1] = s.queue[m] /\ Tail(u.queue) = SubSeq(s.queue, m + 1, Len(s.queue))
      <4> DEFINE b == SubSeq(s.queue, m, Len(s.queue))
      <4>1. b \in Seq(Entry) /\ Len(b) = Len(s.queue) - m + 1 /\ b[1] = s.queue[m]
        BY <1>1, <3>2, SubSeqProperties
      <4>3. b # <<>>
        <5> HIDE DEF b
        <5> QED
          BY <1>1, <3>2, <4>1
      <4> QED
        BY <1>1, <3>1, <3>2, <4>1, <4>3
    <3>5. v = WriteQueued([u EXCEPT !.queue = Tail(@)], u.queue[1])
      BY <1>1, <2>3, <3>2, <3>4, SubSeqProperties DEF WriteNext, entries
    <3> HIDE DEF v
    <3>7. ASSUME NEW r \in Seq(Packet), Owns(s, r)
          PROVE  /\ Owns(v, r) /\ v.streams = u.streams /\ v.accepted = u.accepted /\ v.started = u.started
                 /\ v.closed = u.closed /\ v.reported = u.reported /\ v.queue = Tail(u.queue)
                 /\ v.err \in {u.err, "write"} /\ Counted(u, v)
      BY <2>1, <3>4, <3>5, <3>7, OneWritten
    <3> QED
      BY <2>1, <2>3, <3>4, <3>7, KeptTwice DEF WritesSoFar, v, OnlyWrites, Kept, Framed
  <2> QED
    BY <2>2, <2>3
<1>7. WritesSoFar(0, s, entries, n, t)
  BY <1>2, <1>3, <1>4, <1>5, Writing!FoldInvariant, NaturalsOrdered
<1> QED
  BY <1>7 DEF WritesSoFar, t

LEMMA CountUpTo ==
    ASSUME NEW n \in Nat, NEW T, T \subseteq 1 .. n
    PROVE  Cardinality(T) \in 0 .. n
<1>1. Cardinality(1 .. n) = n
  BY FS_Interval
<1>2. IsFiniteSet(1 .. n)
  BY FS_Interval
<1>3. IsFiniteSet(T) /\ Cardinality(T) <= Cardinality(1 .. n)
  BY <1>2, FS_Subset
<1> QED
  BY <1>1, <1>3, FS_CardinalityType

\* flushReady.
LEMMA ReadyFlushed ==
    ASSUME NEW s, NEW rest \in Seq(Packet), Owns(s, rest), NEW i \in DOMAIN s.streams
    PROVE  LET t == FlushReady(s) IN Owns(t, rest) /\ OnlyWrites(s, t) /\ t.reported = s.reported
<1> DEFINE t == FlushReady(s)
           frontier == Min({s.streams[k].pending[1].dts : k \in DOMAIN s.streams})
           below == {j \in DOMAIN s.queue : s.queue[j].packet.dts < frontier}
<1>1. CASE \E k \in DOMAIN s.streams : s.streams[k].pending = <<>>
  BY <1>1, KeptAlways DEF FlushReady, OnlyWrites, t
<1>2. CASE ~ \E k \in DOMAIN s.streams : s.streams[k].pending = <<>>
  <2>1. t = WriteFirst(s, Cardinality(below))
    BY <1>2 DEF FlushReady
  <2>2. s \in LiveState /\ s.queue \in Seq(Entry) /\ Len(s.queue) \in Nat
    BY StateFields DEF Owns
  <2>3. below \subseteq 1 .. Len(s.queue)
    BY <2>2
  <2> HIDE DEF below
  <2>4. Cardinality(below) \in 0 .. Len(s.queue)
    BY <2>2, <2>3, CountUpTo
  <2> HIDE DEF t
  <2> QED
    BY <2>1, <2>4, QueueWritten DEF t
<1> QED
  BY <1>1, <1>2

-----------------------------------------------------------------------------
(* completePacket.                                                         *)
LEMMA FirstPositiveIsInt ==
    ASSUME NEW durations \in Seq(Int)
    PROVE  FirstPositive(durations) \in Int
<1> DEFINE positive == {j \in DOMAIN durations : durations[j] > 0}
<1>1. CASE positive = {}
  BY <1>1 DEF FirstPositive
<1>2. CASE positive # {}
  <2>1. Min(positive) \in positive
    <3>1. positive \subseteq Nat
      OBVIOUS
    <3> HIDE DEF positive
    <3> QED
      BY <1>2, <3>1, MinIs
  <2> QED
    BY <1>2, <2>1 DEF FirstPositive
<1> QED
  BY <1>1, <1>2

PendingGone(st, d) == [st EXCEPT !.pending = <<>>, !.lastDuration = d]

PendingIs(st, p) == [st EXCEPT !.pending = <<p>>]

\* The packet held back by a stream is taken into the hand.
LEMMA PendingTaken ==
    ASSUME NEW s, NEW hand, Owns(s, hand), NEW i \in DOMAIN s.streams, s.streams[i].pending # <<>>,
           NEW d \in Int,
           NEW st, st = PendingGone(s.streams[i], d),
           NEW t, t = WithStream(s, i, st),
           NEW prev, prev = s.streams[i].pending[1]
    PROVE  /\ prev \in Packet /\ s.streams[i].pending = <<prev>>
           /\ st.aligner = s.streams[i].aligner /\ st.enforcer = s.streams[i].enforcer
           /\ st.kind = s.streams[i].kind /\ st.pending = <<>>
           /\ Owns(t, <<prev>> \o hand) /\ InStream(s, t, i) /\ t.streams[i] = st
<1> DEFINE old == s.streams[i]
<1>1. s \in LiveState /\ hand \in Seq(Packet) /\ Len(old.pending) <= 1
  BY DEF Owns, OnePending
<1>2. old \in StreamState
  BY <1>1, StateFields
<1>2a. st = [old EXCEPT !.pending = <<>>, !.lastDuration = d] /\ prev = old.pending[1] /\ old.pending # <<>>
  BY DEF PendingGone
<1> HIDE DEF old
<1>3. old.pending \in Seq(Packet) /\ old.pending # <<>>
  BY <1>2, <1>2a, StreamFields
<1>4. /\ prev \in Packet /\ Ids(old.pending) = {prev.id} \cup Ids(Tail(old.pending))
      /\ Len(old.pending) = Len(Tail(old.pending)) + 1 /\ Tail(old.pending) \in Seq(Packet)
  BY <1>2a, <1>3, IdsOfTail
<1>5. Tail(old.pending) = <<>> /\ Len(old.pending) = 1
  <2> DEFINE l == Len(old.pending)  m == Len(Tail(old.pending))
  <2>1. l = m + 1 /\ m \in Nat /\ l <= 1
    BY <1>1, <1>4
  <2> HIDE DEF l, m
  <2>2. l = 1 /\ m = 0
    BY <2>1
  <2> QED
    BY <1>4, <2>2, EmptySeq DEF l, m
<1>6. Ids(old.pending) = {prev.id}
  BY <1>4, <1>5, IdsEmpty
<1>7. old.pending = <<prev>>
  BY <1>2a, <1>3, <1>5
<1>8. /\ st.pending = <<>> /\ st.enforcer = old.enforcer /\ st.aligner = old.aligner /\ st.kind = old.kind
      /\ st.lastDuration = d /\ st.inputMode = old.inputMode
  BY <1>2, <1>2a, StreamFields
<1>9. st \in StreamState
  <2>1. <<>> \in Seq(Packet)
    OBVIOUS
  <2> QED
    BY <1>2, <1>2a, <2>1 DEF StreamState
<1>10. <<prev>> \o hand \in Seq(Packet) /\ Ids(<<prev>> \o hand) = {prev.id} \cup Ids(hand) /\ Len(<<prev>> \o hand) = 1 + Len(hand)
  BY <1>1, <1>4, HandFirst
<1> DEFINE all == <<prev>> \o hand
<1> HIDE DEF all
<1>11. StageIds(st) \cup Ids(all) = StageIds(old) \cup Ids(hand)
  BY <1>6, <1>8, <1>10, IdsEmpty DEF StageIds, all
<1>12. StageSize(st) + Len(all) = StageSize(old) + Len(hand)
  <2> DEFINE a == Len(old.enforcer.buf)  b == Len(old.aligner.pending)  c == Len(old.aligner.cfg)  h == Len(hand)
  <2>1. a \in Nat /\ b \in Nat /\ c \in Nat
    BY <1>2, StreamFields
  <2>2. h \in Nat /\ Len(all) = 1 + h
    BY <1>1, <1>10 DEF all
  <2>3. StageSize(old) = a + b + c + 1
    BY <1>5 DEF StageSize
  <2>4. StageSize(st) = a + b + c + 0
    BY <1>8, RangeEmpty DEF StageSize
  <2> HIDE DEF a, b, c, h
  <2> QED
    BY <2>1, <2>2, <2>3, <2>4 DEF h
<1>14. all \in Seq(Packet)
  BY <1>10 DEF all
<1>15. Owns(t, all) /\ InStream(s, t, i) /\ t.streams[i] = st
  BY <1>8, <1>9, <1>11, <1>12, <1>14, MovedInStream, RangeEmpty DEF old
<1> QED
  BY <1>4, <1>7, <1>8, <1>15 DEF all, old

CompletesPending(s, t, i) ==
    /\ Len(t.streams) = Len(s.streams) /\ DOMAIN t.streams = DOMAIN s.streams
    /\ \A k \in DOMAIN s.streams : k # i => t.streams[k] = s.streams[k]
    /\ t.streams[i].aligner = s.streams[i].aligner /\ t.streams[i].enforcer = s.streams[i].enforcer
    /\ t.streams[i].kind = s.streams[i].kind /\ t.streams[i].pending = <<>>
    /\ t.started = s.started /\ t.closed = s.closed /\ t.accepted = s.accepted /\ t.out = s.out
    /\ t.released = s.released /\ t.reported = s.reported /\ t.err \in {s.err, "interleave full"}

LEMMA PendingQueued ==
    ASSUME NEW s, NEW hand, Owns(s, hand), NEW i \in DOMAIN s.streams, s.streams[i].pending # <<>>,
           NEW p \in Packet, NEW t, t = CompletePending(s, i, p)
    PROVE  Owns(t, hand) /\ CompletesPending(s, t, i)
<1> DEFINE old == s.streams[i]
           prev == old.pending[1]
           duration == FirstPositive(<<prev.dur, Derived(prev, p), old.lastDuration, DefaultPacket>>)
           d == IF duration > 0 THEN duration ELSE old.lastDuration
           st == PendingGone(old, d)
           u == WithStream(s, i, st)
<1>1. s \in LiveState /\ hand \in Seq(Packet)
  BY DEF Owns
<1>2. old \in StreamState /\ old.lastDuration \in Int
  BY <1>1, StateFields, StreamFields
<1>3. prev \in Packet
  BY <1>2, StreamFields, IdsOfTail
<1>4. duration \in Int
  <2>1. prev.dur \in Int /\ prev.dts \in Int /\ p.dts \in Int /\ DefaultPacket \in Int
    BY <1>3, LiveAssumption DEF Packet
  <2>2. Derived(prev, p) \in Int
    BY <2>1 DEF Derived
  <2> DEFINE a == prev.dur  b == Derived(prev, p)  c == old.lastDuration
  <2>3. a \in Int /\ b \in Int /\ c \in Int
    BY <1>2, <2>1, <2>2
  <2> HIDE DEF a, b, c
  <2>4. <<a, b, c, DefaultPacket>> \in Seq(Int)
    BY <2>1, <2>3
  <2> QED
    BY <2>4, FirstPositiveIsInt DEF a, b, c
<1>5. d \in Int
  BY <1>2, <1>4
<1>5a. st = PendingGone(s.streams[i], d) /\ u = WithStream(s, i, st)
       /\ prev = s.streams[i].pending[1]
  OBVIOUS
<1>6. t = Enqueue(u, prev, duration)
  <2>1. u = [s EXCEPT !.streams[i].pending = <<>>, !.streams[i].lastDuration = IF duration > 0 THEN duration ELSE @]
    BY <1>1, StateShape, ZenonT(30) DEF IsLive, WithStream, PendingGone
  <2> QED
    BY <2>1 DEF CompletePending
<1> HIDE DEF duration, d, u, st, prev
<1>7. /\ st.aligner = s.streams[i].aligner /\ st.enforcer = s.streams[i].enforcer
      /\ st.kind = s.streams[i].kind /\ st.pending = <<>>
      /\ Owns(u, <<prev>> \o hand) /\ InStream(s, u, i) /\ u.streams[i] = st
  BY <1>5, <1>5a, PendingTaken
<1> HIDE DEF old
<1>9. Owns(t, hand) /\ Queues(u, t)
  BY <1>1, <1>3, <1>4, <1>6, <1>7, Enqueued DEF InStream
<1> QED
  BY <1>7, <1>9 DEF InStream, Queues, CompletesPending

\* The first packet of the hand is held back in its stream.
LEMMA HeldBack ==
    ASSUME NEW s, NEW p \in Packet, NEW rest \in Seq(Packet), Owns(s, <<p>> \o rest),
           NEW i \in DOMAIN s.streams, s.streams[i].pending = <<>>,
           NEW st, st = PendingIs(s.streams[i], p),
           NEW t, t = WithStream(s, i, st)
    PROVE  /\ Owns(t, rest) /\ InStream(s, t, i) /\ t.streams[i] = st
           /\ st.aligner = s.streams[i].aligner /\ st.enforcer = s.streams[i].enforcer
           /\ st.kind = s.streams[i].kind /\ st.pending = <<p>>
<1> DEFINE old == s.streams[i]
           all == <<p>> \o rest
<1>2. old \in StreamState
  BY StateFields DEF Owns
<1>2a. st = [old EXCEPT !.pending = <<p>>] /\ old.pending = <<>>
  BY DEF PendingIs
<1> HIDE DEF old
<1>3. <<p>> \in Seq(Packet) /\ Ids(<<p>>) = {p.id} /\ Len(<<p>>) = 1
  BY IdsOne
<1> DEFINE one == <<p>>
<1>4. one \in Seq(Packet) /\ Ids(one) = {p.id} /\ Len(one) = 1
  BY <1>3
<1> HIDE DEF one
<1>5. /\ st.pending = one /\ st.enforcer = old.enforcer /\ st.aligner = old.aligner /\ st.kind = old.kind
      /\ st.lastDuration = old.lastDuration /\ st.inputMode = old.inputMode
  BY <1>2, <1>2a, StreamFields DEF one
<1>6. st \in StreamState
  BY <1>2, <1>2a, <1>3 DEF StreamState
<1>7. all \in Seq(Packet) /\ Ids(all) = {p.id} \cup Ids(rest) /\ Len(all) = 1 + Len(rest)
  BY HandFirst
<1> HIDE DEF all
<1>8. StageIds(st) \cup Ids(rest) = StageIds(old) \cup Ids(all)
  BY <1>4, <1>5, <1>7, <1>2a, IdsEmpty DEF StageIds
<1>9. StageSize(st) + Len(rest) = StageSize(old) + Len(all)
  <2> DEFINE a == Len(old.enforcer.buf)  b == Len(old.aligner.pending)  c == Len(old.aligner.cfg)  h == Len(rest)
  <2>1. a \in Nat /\ b \in Nat /\ c \in Nat
    BY <1>2, StreamFields
  <2>2. h \in Nat /\ Len(all) = 1 + h
    BY <1>7
  <2>3. StageSize(old) = a + b + c + 0
    BY <1>2a, RangeEmpty DEF StageSize
  <2>4. StageSize(st) = a + b + c + 1
    BY <1>4, <1>5 DEF StageSize
  <2> HIDE DEF a, b, c, h
  <2> QED
    BY <2>1, <2>2, <2>3, <2>4 DEF h
<1>10. Len(st.pending) <= 1
  <2>2. Len(st.pending) = 1
    BY <1>4, <1>5
  <2> QED
    BY <2>2
<1>11. Owns(s, all)
  BY DEF all
<1>12. Owns(t, rest) /\ InStream(s, t, i) /\ t.streams[i] = st
  BY <1>6, <1>8, <1>9, <1>10, <1>11, MovedInStream DEF old
<1> QED
  BY <1>5, <1>12 DEF one, old

LEMMA Completed ==
    ASSUME NEW s, NEW p \in Packet, NEW rest \in Seq(Packet), Owns(s, <<p>> \o rest),
           NEW i \in DOMAIN s.streams, NEW t, t = CompletePacket(s, i, p)
    PROVE  Owns(t, rest) /\ OnlyCompletes(s, t, i)
<1>1. CASE s.err # "none"
  BY <1>1, Released DEF CompletePacket, OnlyWrites, OnlyCompletes
<1>2. CASE s.err = "none"
  <2> DEFINE all == <<p>> \o rest
             r == IF s.streams[i].pending = <<>> THEN s ELSE CompletePending(s, i, p)
             st == PendingIs(r.streams[i], p)
             h == WithStream(r, i, st)
  <2>1. t = IF h.err = "none" THEN FlushReady(h) ELSE h
    BY <1>2 DEF CompletePacket, WithStream, PendingIs
  <2>3. /\ Owns(r, all)
        /\ Len(r.streams) = Len(s.streams) /\ DOMAIN r.streams = DOMAIN s.streams
        /\ \A k \in DOMAIN s.streams : k # i => r.streams[k] = s.streams[k]
        /\ r.streams[i].aligner = s.streams[i].aligner /\ r.streams[i].enforcer = s.streams[i].enforcer
        /\ r.streams[i].kind = s.streams[i].kind /\ r.streams[i].pending = <<>>
        /\ r.started = s.started /\ r.closed = s.closed /\ r.accepted = s.accepted /\ r.out = s.out
        /\ r.released = s.released /\ r.reported = s.reported
    <3>1. CASE s.streams[i].pending = <<>>
      BY <3>1
    <3>2. CASE s.streams[i].pending # <<>>
      <4>1. r = CompletePending(s, i, p) /\ Owns(s, all)
        BY <3>2
      <4> HIDE DEF r, all
      <4>2. Owns(r, all) /\ CompletesPending(s, r, i)
        BY <3>2, <4>1, PendingQueued
      <4> QED
        BY <4>2 DEF CompletesPending
    <3> QED
      BY <3>1, <3>2
  <2>4. Owns(r, <<p>> \o rest) /\ i \in DOMAIN r.streams /\ r.streams[i].pending = <<>>
    BY <2>3
  <2>5. st = PendingIs(r.streams[i], p) /\ h = WithStream(r, i, st)
    OBVIOUS
  <2> HIDE DEF r, all, st, h
  <2>6. /\ Owns(h, rest) /\ InStream(r, h, i) /\ h.streams[i] = st
        /\ st.aligner = r.streams[i].aligner /\ st.enforcer = r.streams[i].enforcer
        /\ st.kind = r.streams[i].kind
    BY <2>4, <2>5, HeldBack
  <2>7. Kept(s, h) /\ i \in DOMAIN h.streams
    BY <1>2, <2>3, <2>6 DEF Counted, Tally, InStream, Kept, Framed
  <2>9. Owns(t, rest) /\ OnlyWrites(h, t)
    BY <2>1, <2>6, <2>7, ReadyFlushed, KeptAlways DEF OnlyWrites
  <2> QED
    BY <1>2, <2>3, <2>6, <2>7, <2>9, KeptTwice DEF OnlyCompletes, OnlyWrites, InStream
<1> QED
  BY <1>1, <1>2

LEMMA CompletesTwice ==
    ASSUME NEW s, NEW u, NEW t, NEW i \in DOMAIN s.streams, OnlyCompletes(s, u, i), OnlyCompletes(u, t, i)
    PROVE  OnlyCompletes(s, t, i)
BY KeptTwice DEF OnlyCompletes, Kept, Framed

-----------------------------------------------------------------------------
(* Every packet that the Aligner hands on at once is completed.            *)
CompleteNext(i, t, p) == CompletePacket(t, i, p)

CompletesSoFar(i, s, packets, n, t) ==
    /\ OnlyCompletes(s, t, i)
    /\ \A rest \in Seq(Packet) :
          Owns(s, packets \o rest) => Owns(t, SubSeq(packets, n + 1, Len(packets)) \o rest)

Completing == INSTANCE FoldLemmas WITH Op <- CompleteNext, Inv <- CompletesSoFar

LEMMA AllCompleted ==
    ASSUME NEW s, NEW packets \in Seq(Packet), NEW rest \in Seq(Packet), Owns(s, packets \o rest),
           NEW i \in DOMAIN s.streams, NEW t, t = CompleteAll(s, i, packets)
    PROVE  Owns(t, rest) /\ OnlyCompletes(s, t, i)
<1>2. CompletesSoFar(i, s, packets, 0, s)
  BY HandWhole, KeptAlways DEF OnlyCompletes, CompletesSoFar
<1>3. ASSUME NEW n \in 1 .. Len(packets), NEW u, CompletesSoFar(i, s, packets, n - 1, u)
      PROVE  CompletesSoFar(i, s, packets, n, CompleteNext(i, u, packets[n]))
  <2> DEFINE v == CompleteNext(i, u, packets[n])  p == packets[n]
  <2>1. v = CompletePacket(u, i, p) /\ p \in Packet
    BY DEF CompleteNext
  <2>2. OnlyCompletes(s, u, i) /\ i \in DOMAIN u.streams
    BY <1>3 DEF CompletesSoFar, OnlyCompletes, Kept, Framed
  <2> HIDE DEF v
  <2>3. ASSUME NEW r \in Seq(Packet), Owns(s, packets \o r)
        PROVE  Owns(v, SubSeq(packets, n + 1, Len(packets)) \o r) /\ OnlyCompletes(u, v, i)
    <3> DEFINE left == SubSeq(packets, n + 1, Len(packets)) \o r
    <3>1. Owns(u, SubSeq(packets, (n - 1) + 1, Len(packets)) \o r)
      BY <1>3, <2>3 DEF CompletesSoFar
    <3>2. left \in Seq(Packet) /\ SubSeq(packets, (n - 1) + 1, Len(packets)) \o r = <<p>> \o left
      BY HandNext
    <3> HIDE DEF left, p
    <3> QED
      BY <2>1, <2>2, <3>1, <3>2, Completed DEF left
  <2> QED
    BY <2>2, <2>3, CompletesTwice DEF CompletesSoFar, v
<1>4. CompletesSoFar(i, s, packets, Len(packets), Completing!Fold(i, s, packets))
  BY <1>2, <1>3, Completing!FoldInvariant, NaturalsOrdered
<1> QED
  BY <1>4, HandWhole
     DEF CompletesSoFar, CompleteAll, Completing!Fold, CompleteNext, FoldLeft, MapThenFoldSet, Max,
         Completing!Latest

-----------------------------------------------------------------------------
(* The Aligner of one stream.                                              *)
WithAligner(st, a) == [st EXCEPT !.aligner = a]

LEMMA StreamTwice ==
    ASSUME NEW s \in LiveState, NEW i \in DOMAIN s.streams, NEW x, NEW y
    PROVE  /\ WithStream(WithStream(s, i, x), i, y) = WithStream(s, i, y)
           /\ WithStream(s, i, x).streams[i] = x
<1>1. IsLive(s)
  BY StateShape
<1> QED
  BY <1>1 DEF WithStream, IsLive

LEMMA AlignerTwice ==
    ASSUME NEW st \in StreamState, NEW x, NEW y
    PROVE  /\ WithAligner(WithAligner(st, x), y) = WithAligner(st, y)
           /\ WithAligner(st, x).aligner = x
BY DEF WithAligner, StreamState

Starts(s, i, d, c) ==
    [s EXCEPT !.streams[i].aligner.started = TRUE, !.streams[i].aligner.sync = d,
              !.streams[i].aligner.cfg = c]

StartedAt(a, d, c) == [a EXCEPT !.started = TRUE, !.sync = d, !.cfg = c]

\* A keyframe starts the Aligner of a video stream.
LEMMA AlignerStarts ==
    ASSUME NEW s \in LiveState, NEW i \in DOMAIN s.streams, NEW d, NEW c
    PROVE  Starts(s, i, d, c) = WithStream(s, i, WithAligner(s.streams[i], StartedAt(s.streams[i].aligner, d, c)))
<1> DEFINE old == s.streams[i]
           a1 == [old.aligner EXCEPT !.started = TRUE]
           a2 == [a1 EXCEPT !.sync = d]
           a3 == [a2 EXCEPT !.cfg = c]
           u1 == WithStream(s, i, WithAligner(old, a1))
           u2 == WithStream(u1, i, WithAligner(u1.streams[i], [u1.streams[i].aligner EXCEPT !.sync = d]))
           u3 == WithStream(u2, i, WithAligner(u2.streams[i], [u2.streams[i].aligner EXCEPT !.cfg = c]))
<1>1. Starts(s, i, d, c) = u3
  BY DEF Starts, WithStream, WithAligner
<1>2. old \in StreamState
  BY StateFields
<1> HIDE DEF old, a1
<1>4. u2 = WithStream(s, i, WithAligner(old, a2))
  BY <1>2, AlignerTwice, StreamTwice
<1> HIDE DEF u2, a2
<1>6. u3 = WithStream(s, i, WithAligner(old, a3))
  BY <1>2, <1>4, AlignerTwice, StreamTwice
<1> QED
  BY <1>1, <1>6 DEF old, a1, a2, StartedAt

Realigned(s, t, i) ==
    /\ InStream(s, t, i)
    /\ t.streams[i].kind = s.streams[i].kind /\ t.streams[i].enforcer = s.streams[i].enforcer
    /\ t.streams[i].pending = s.streams[i].pending

\* What an Aligner has more after a step than before it, the hand has less.
Exchanges(before, hand, after, left) ==
    /\ after \in AlignerState /\ left \in Seq(Packet)
    /\ Ids(after.pending) \cup Ids(after.cfg) \cup Ids(left)
          = Ids(before.pending) \cup Ids(before.cfg) \cup Ids(hand)
    /\ Len(after.pending) + Len(after.cfg) + Len(left) = Len(before.pending) + Len(before.cfg) + Len(hand)

LEMMA AlignerPlaced ==
    ASSUME NEW s \in LiveState, NEW i \in DOMAIN s.streams, NEW x
    PROVE  WithStream(s, i, WithAligner(s.streams[i], x)).streams[i].aligner = x
<1>1. s.streams[i] \in StreamState
  BY StateFields
<1> QED
  BY <1>1, AlignerTwice, StreamTwice

LEMMA AlignerMoved ==
    ASSUME NEW s, NEW hand, NEW left, Owns(s, hand), NEW i \in DOMAIN s.streams, NEW a,
           Exchanges(s.streams[i].aligner, hand, a, left),
           NEW t, t = WithStream(s, i, WithAligner(s.streams[i], a))
    PROVE  Owns(t, left) /\ Realigned(s, t, i) /\ t.streams[i].aligner = a
<1> DEFINE old == s.streams[i]  st == WithAligner(old, a)
<1>1. s \in LiveState /\ hand \in Seq(Packet) /\ Len(old.pending) <= 1
  BY DEF Owns, OnePending
<1>2. old \in StreamState
  BY <1>1, StateFields
<1>3. t = WithStream(s, i, st)
  OBVIOUS
<1>3a. a \in AlignerState /\ left \in Seq(Packet)
  BY DEF Exchanges
<1>4. Ids(a.pending) \cup Ids(a.cfg) \cup Ids(left) = Ids(old.aligner.pending) \cup Ids(old.aligner.cfg) \cup Ids(hand)
  BY DEF Exchanges
<1>5. Len(a.pending) + Len(a.cfg) + Len(left) = Len(old.aligner.pending) + Len(old.aligner.cfg) + Len(hand)
  BY DEF Exchanges
<1> HIDE DEF old
<1>6. /\ st.pending = old.pending /\ st.enforcer = old.enforcer /\ st.aligner = a /\ st.kind = old.kind
      /\ st.lastDuration = old.lastDuration /\ st.inputMode = old.inputMode
  BY <1>2, <1>3a DEF StreamState, WithAligner
<1>7. st \in StreamState
  BY <1>2, <1>3a DEF StreamState, WithAligner
<1> HIDE DEF st
<1>9. StageSize(st) + Len(left) = StageSize(old) + Len(hand)
  <2> DEFINE e == Len(old.enforcer.buf)  b == Len(old.aligner.pending)  c == Len(old.aligner.cfg)
             d == Len(old.pending)  h == Len(hand)  l == Len(left)  x == Len(a.pending)  y == Len(a.cfg)
  <2>1. e \in Nat /\ b \in Nat /\ c \in Nat /\ d \in Nat
    BY <1>2, StreamFields
  <2>2. x \in Nat /\ y \in Nat
    BY <1>3a DEF AlignerState
  <2>3. h \in Nat /\ l \in Nat
    BY <1>1, <1>3a
  <2>4. x + y + l = b + c + h
    BY <1>5
  <2>5. StageSize(st) = e + x + y + d /\ StageSize(old) = e + b + c + d
    BY <1>6 DEF StageSize
  <2> HIDE DEF e, b, c, d, h, l, x, y
  <2> QED
    BY <2>1, <2>2, <2>3, <2>4, <2>5 DEF h, l
<1> QED
  BY <1>1, <1>3, <1>4, <1>6, <1>7, <1>9, <1>3a, MovedInStream DEF Realigned, old, StageIds

LEMMA RealignedAligns ==
    ASSUME NEW s, NEW t, NEW i \in DOMAIN s.streams, Realigned(s, t, i)
    PROVE  OnlyAligns(s, t, i)
BY DEF Realigned, InStream, Counted, Tally, Kept, Framed, OnlyAligns

LEMMA CompletesAligns ==
    ASSUME NEW s, NEW t, NEW i \in DOMAIN s.streams, OnlyCompletes(s, t, i) \/ OnlyWrites(s, t)
    PROVE  OnlyAligns(s, t, i) /\ t.streams[i].aligner = s.streams[i].aligner
BY DEF OnlyCompletes, OnlyWrites, OnlyAligns

LEMMA AlignsTwice ==
    ASSUME NEW s, NEW u, NEW t, NEW i \in DOMAIN s.streams, OnlyAligns(s, u, i), OnlyAligns(u, t, i)
    PROVE  OnlyAligns(s, t, i)
BY KeptTwice DEF OnlyAligns, Kept, Framed

-----------------------------------------------------------------------------
(* The packets in front of the Aligner and in it are those accepted for    *)
(* the stream, and what an Aligner holds says what it waits for.           *)

\* x is a packet accepted for stream k, though its DTS may have been raised.
Known(all, k, x) == x.id \in DOMAIN all /\ all[x.id].kind = x.kind /\ all[x.id].stream = k

AllKnown(all, k, packets) == \A x \in Range(packets) : Known(all, k, x)

\* Configuration waits for a keyframe, and audio for the sync point.
Awaits(all, k, kind, a) ==
    /\ \A x \in Range(a.cfg) : Known(all, k, x) /\ x.kind = "config"
    /\ a.cfg # <<>> => kind = "video" /\ ~a.started
    /\ a.pending # <<>> => kind = "audio"

Genuine(s) ==
    \A k \in DOMAIN s.streams :
        /\ AllKnown(s.accepted, k, s.streams[k].enforcer.buf)
        /\ Awaits(s.accepted, k, s.streams[k].kind, s.streams[k].aligner)

\* A packet p for stream i of this kind does not spoil that.
Traces(s, i, kind, p, t) ==
    s.streams[i].kind = kind /\ Genuine(s) /\ Known(s.accepted, i, p) => Genuine(t)

LEMMA CompletesGenuine ==
    ASSUME NEW s, NEW t, NEW i \in DOMAIN s.streams, OnlyCompletes(s, t, i) \/ OnlyWrites(s, t), Genuine(s)
    PROVE  Genuine(t)
BY DEF OnlyCompletes, OnlyWrites, Kept, Framed, Genuine

LEMMA RealignedGenuine ==
    ASSUME NEW s, NEW t, NEW i \in DOMAIN s.streams, Realigned(s, t, i), Genuine(s),
           Awaits(s.accepted, i, s.streams[i].kind, t.streams[i].aligner)
    PROVE  Genuine(t)
BY DEF Realigned, InStream, Genuine

\* If p comes to stream i of this kind, b may be its Aligner.
Suits(s, i, kind, p, b) ==
    s.streams[i].kind = kind /\ Genuine(s) /\ Known(s.accepted, i, p) => Awaits(s.accepted, i, kind, b)

LEMMA AlignerTraces ==
    ASSUME NEW s, NEW u, NEW t, NEW i \in DOMAIN s.streams, NEW b, Realigned(s, u, i), u.streams[i].aligner = b,
           NEW p, NEW kind, Suits(s, i, kind, p, b),
           OnlyCompletes(u, t, i) \/ t = u
    PROVE  Traces(s, i, kind, p, t)
BY RealignedGenuine, CompletesGenuine DEF Traces, Suits, Realigned, InStream

LEMMA CompletesTraces ==
    ASSUME NEW s, NEW t, NEW i \in DOMAIN s.streams, OnlyCompletes(s, t, i) \/ OnlyWrites(s, t), NEW p, NEW kind
    PROVE  Traces(s, i, kind, p, t)
BY CompletesGenuine DEF Traces

LEMMA StartedSuits ==
    ASSUME NEW s, NEW i \in DOMAIN s.streams, NEW kind, NEW p, NEW b, b.cfg = <<>>,
           b.pending # <<>> => kind = "audio" \/ s.streams[i].aligner.pending # <<>>
    PROVE  Suits(s, i, kind, p, b)
BY RangeEmpty DEF Suits, Awaits, Genuine

LEMMA ConfiguredSuits ==
    ASSUME NEW s, NEW i \in DOMAIN s.streams, NEW p, p.kind = "config", NEW b,
           Range(b.cfg) \subseteq Range(s.streams[i].aligner.cfg) \cup {p}, ~b.started,
           b.pending = s.streams[i].aligner.pending
    PROVE  Suits(s, i, "video", p, b)
BY DEF Suits, Awaits, Genuine

LEMMA AudioSuits ==
    ASSUME NEW s, NEW i \in DOMAIN s.streams, NEW p, NEW b, b.cfg = s.streams[i].aligner.cfg
    PROVE  Suits(s, i, "audio", p, b)
BY RangeEmpty DEF Suits, Genuine, Awaits

-----------------------------------------------------------------------------
(* Audio from before the sync point is dropped.                            *)
FilterNext(i, t, p) ==
    IF p.dts < t.streams[i].aligner.sync THEN Drop(t, p, "before sync") ELSE CompletePacket(t, i, p)

Filtering == INSTANCE FoldLemmas WITH Op <- FilterNext, Inv <- CompletesSoFar

LEMMA DroppedCompletes ==
    ASSUME NEW s, NEW p \in Packet, NEW rest \in Seq(Packet), Owns(s, <<p>> \o rest),
           NEW i \in DOMAIN s.streams, NEW where \in Where, NEW t, t = Drop(s, p, where)
    PROVE  Owns(t, rest) /\ OnlyCompletes(s, t, i)
BY Dropped, SMTT(30) DEF OnlyWrites, OnlyCompletes

LEMMA AllFiltered ==
    ASSUME NEW s, NEW packets \in Seq(Packet), NEW rest \in Seq(Packet), Owns(s, packets \o rest),
           NEW i \in DOMAIN s.streams, NEW t, t = Filtered(s, i, packets)
    PROVE  Owns(t, rest) /\ OnlyCompletes(s, t, i)
<1>2. CompletesSoFar(i, s, packets, 0, s)
  BY HandWhole, KeptAlways DEF OnlyCompletes, CompletesSoFar
<1>3. ASSUME NEW n \in 1 .. Len(packets), NEW u, CompletesSoFar(i, s, packets, n - 1, u)
      PROVE  CompletesSoFar(i, s, packets, n, FilterNext(i, u, packets[n]))
  <2> DEFINE v == FilterNext(i, u, packets[n])  p == packets[n]
  <2>1. p \in Packet
    OBVIOUS
  <2>1a. v = Drop(u, p, "before sync") \/ v = CompletePacket(u, i, p)
    BY DEF FilterNext
  <2>2. OnlyCompletes(s, u, i) /\ i \in DOMAIN u.streams
    BY <1>3 DEF CompletesSoFar, OnlyCompletes, Kept, Framed
  <2> HIDE DEF v
  <2>3. ASSUME NEW r \in Seq(Packet), Owns(s, packets \o r)
        PROVE  Owns(v, SubSeq(packets, n + 1, Len(packets)) \o r) /\ OnlyCompletes(u, v, i)
    <3> DEFINE left == SubSeq(packets, n + 1, Len(packets)) \o r
    <3>1. Owns(u, SubSeq(packets, (n - 1) + 1, Len(packets)) \o r)
      BY <1>3, <2>3 DEF CompletesSoFar
    <3>2. left \in Seq(Packet) /\ SubSeq(packets, (n - 1) + 1, Len(packets)) \o r = <<p>> \o left
      BY HandNext
    <3> HIDE DEF left, p
    <3>3. Owns(u, <<p>> \o left)
      BY <3>1, <3>2
    <3>4. CASE v = CompletePacket(u, i, p)
      BY <2>1, <2>2, <3>2, <3>3, <3>4, Completed DEF left
    <3>5. CASE v = Drop(u, p, "before sync")
      BY <2>1, <2>2, <3>2, <3>3, <3>5, DroppedCompletes DEF Where, left
    <3> QED
      BY <2>1a, <3>4, <3>5
  <2> QED
    BY <2>2, <2>3, CompletesTwice DEF CompletesSoFar, v
<1>4. CompletesSoFar(i, s, packets, Len(packets), Filtering!Fold(i, s, packets))
  BY <1>2, <1>3, Filtering!FoldInvariant, NaturalsOrdered
<1> QED
  BY <1>4, HandWhole
     DEF CompletesSoFar, Filtered, Filtering!Fold, FilterNext, FoldLeft, MapThenFoldSet, Max,
         Filtering!Latest

-----------------------------------------------------------------------------
(* What a packet that comes to an Aligner changes of it.                   *)

\* The Aligner of stream i becomes b, and left is what remains in hand.
Turns(s, t, i, b, left) ==
    /\ Owns(t, left) /\ Realigned(s, t, i) /\ b \in AlignerState
    /\ t.streams[i].aligner = b /\ i \in DOMAIN t.streams

\* Of one kind of packet an Aligner holds x, and then y.
Holds(a, b, x, y) ==
    \/ a.pending = x /\ b.pending = y /\ b.cfg = a.cfg
    \/ a.cfg = x /\ b.cfg = y /\ b.pending = a.pending

LEMMA HeldIs ==
    ASSUME NEW x \in Seq(Packet), NEW p \in Packet, NEW held, held = Append(x, p)
    PROVE  /\ held \in Seq(Packet) /\ Len(held) = Len(x) + 1 /\ Len(x) \in Nat
           /\ Ids(held) = Ids(x) \cup {p.id} /\ Range(held) = Range(x) \cup {p} /\ held # <<>>
BY IdsAppend, RangeAppend

LEMMA OldestIs ==
    ASSUME NEW held \in Seq(Packet), held # <<>>
    PROVE  /\ Ids(held) = {Head(held).id} \cup Ids(Tail(held)) /\ Head(held) \in Packet
           /\ Tail(held) \in Seq(Packet) /\ Len(held) = Len(Tail(held)) + 1 /\ Len(Tail(held)) \in Nat
           /\ Range(Tail(held)) \subseteq Range(held)
<1>2. Range(Tail(held)) \subseteq Range(held)
  BY RangeOfTail
<1> QED
  BY <1>2, IdsOfTail

LEMMA AlignerTurns ==
    ASSUME NEW s, NEW hand, Owns(s, hand), NEW i \in DOMAIN s.streams,
           NEW b \in AlignerState, NEW x \in Seq(Packet), NEW y \in Seq(Packet), NEW left \in Seq(Packet),
           Holds(s.streams[i].aligner, b, x, y),
           Ids(y) \cup Ids(left) = Ids(x) \cup Ids(hand), Len(y) + Len(left) = Len(x) + Len(hand),
           NEW u, u = WithStream(s, i, WithAligner(s.streams[i], b))
    PROVE  Turns(s, u, i, b, left)
<1> DEFINE a == s.streams[i].aligner
<1>1. s \in LiveState /\ s.streams[i] \in StreamState /\ hand \in Seq(Packet)
  BY StateFields DEF Owns
<1>2. a.pending \in Seq(Packet) /\ a.cfg \in Seq(Packet) /\ Len(a.pending) \in Nat /\ Len(a.cfg) \in Nat
  BY <1>1, StreamFields
<1>3. Len(y) \in Nat /\ Len(left) \in Nat /\ Len(x) \in Nat /\ Len(hand) \in Nat
  BY <1>1
<1>4. Exchanges(a, hand, b, left)
  <2>1. Holds(a, b, x, y)
    OBVIOUS
  <2> HIDE DEF a
  <2>2. Ids(b.pending) \cup Ids(b.cfg) \cup Ids(left) = Ids(a.pending) \cup Ids(a.cfg) \cup Ids(hand)
    BY <2>1 DEF Holds
  <2> DEFINE m == Len(a.pending)  n == Len(a.cfg)  before == Len(x)  after == Len(y)  h == Len(hand)  l == Len(left)
             bp == Len(b.pending)  bc == Len(b.cfg)
  <2>3. /\ \/ bp = after /\ m = before /\ bc = n
           \/ bp = m /\ bc = after /\ n = before
        /\ after + l = before + h
    BY <2>1 DEF Holds
  <2>3a. m \in Nat /\ n \in Nat /\ before \in Nat /\ after \in Nat /\ h \in Nat /\ l \in Nat
    BY <1>2, <1>3
  <2> HIDE DEF m, n, before, after, h, l, bp, bc
  <2>3b. bp + bc + l = m + n + h
    <3>1. CASE bp = after /\ m = before /\ bc = n
      BY <2>3, <2>3a, <3>1
    <3>2. CASE bp = m /\ bc = after /\ n = before
      BY <2>3, <2>3a, <3>2
    <3> QED
      BY <2>3, <3>1, <3>2
  <2> QED
    BY <2>2, <2>3b DEF Exchanges, m, n, h, l, bp, bc
<1>5. Owns(u, left) /\ Realigned(s, u, i)
  BY <1>4, AlignerMoved
<1> QED
  BY <1>1, <1>5, AlignerPlaced DEF Turns, Realigned, InStream

\* All that was held is handed on with p.
LEMMA AllHanded ==
    ASSUME NEW s, NEW p \in Packet, NEW rest \in Seq(Packet), Owns(s, <<p>> \o rest), NEW i \in DOMAIN s.streams,
           NEW b \in AlignerState, NEW x \in Seq(Packet), NEW y \in Seq(Packet), y = <<>>,
           Holds(s.streams[i].aligner, b, x, y), NEW held, held = Append(x, p),
           NEW u, u = WithStream(s, i, WithAligner(s.streams[i], b))
    PROVE  Turns(s, u, i, b, held \o rest)
<1> DEFINE hand == <<p>> \o rest  left == held \o rest
<1>1. held \in Seq(Packet) /\ Len(held) = Len(x) + 1 /\ Len(x) \in Nat /\ Ids(held) = Ids(x) \cup {p.id}
  BY HeldIs
<1>2. hand \in Seq(Packet) /\ Len(hand) = 1 + Len(rest) /\ Ids(hand) = {p.id} \cup Ids(rest) /\ Owns(s, hand)
  BY HandFirst
<1>3. left \in Seq(Packet) /\ Ids(left) = Ids(held) \cup Ids(rest) /\ Len(left) = Len(held) + Len(rest)
  BY <1>1, IdsConcat
<1>4. Ids(y) = {} /\ Len(y) = 0 /\ Len(rest) \in Nat
  BY IdsEmpty
<1> HIDE DEF hand, left
<1>5. Ids(y) \cup Ids(left) = Ids(x) \cup Ids(hand) /\ Len(y) + Len(left) = Len(x) + Len(hand)
  BY <1>1, <1>2, <1>3, <1>4
<1> QED
  BY <1>2, <1>3, <1>5, AlignerTurns DEF left

\* The oldest of them and p is given up.
LEMMA OldestHanded ==
    ASSUME NEW s, NEW p \in Packet, NEW rest \in Seq(Packet), Owns(s, <<p>> \o rest), NEW i \in DOMAIN s.streams,
           NEW b \in AlignerState, NEW x \in Seq(Packet), NEW held, held = Append(x, p),
           Holds(s.streams[i].aligner, b, x, Tail(held)),
           NEW u, u = WithStream(s, i, WithAligner(s.streams[i], b))
    PROVE  Turns(s, u, i, b, <<Head(held)>> \o rest)
<1> DEFINE hand == <<p>> \o rest  first == Head(held)  left == <<first>> \o rest  y == Tail(held)
<1>0. /\ held \in Seq(Packet) /\ Len(held) = Len(x) + 1 /\ Len(x) \in Nat
      /\ Ids(held) = Ids(x) \cup {p.id} /\ held # <<>>
  BY HeldIs
<1>1. /\ Ids(held) = {first.id} \cup Ids(y) /\ first \in Packet
      /\ y \in Seq(Packet) /\ Len(held) = Len(y) + 1 /\ Len(y) \in Nat
  BY <1>0, OldestIs
<1>2. hand \in Seq(Packet) /\ Len(hand) = 1 + Len(rest) /\ Ids(hand) = {p.id} \cup Ids(rest) /\ Owns(s, hand)
  BY HandFirst
<1>3. left \in Seq(Packet) /\ Ids(left) = {first.id} \cup Ids(rest) /\ Len(left) = 1 + Len(rest) /\ Len(rest) \in Nat
  BY <1>1, HandFirst
<1>4. Holds(s.streams[i].aligner, b, x, y)
  OBVIOUS
<1> HIDE DEF hand, left, first, y
<1>6. Len(y) + Len(left) = Len(x) + Len(hand)
  <2> DEFINE before == Len(x)  after == Len(y)  r == Len(rest)
  <2>1. before + 1 = after + 1 /\ Len(left) = 1 + r /\ Len(hand) = 1 + r
    BY <1>0, <1>1, <1>2, <1>3
  <2>2. before \in Nat /\ after \in Nat /\ r \in Nat
    BY <1>0, <1>1, <1>3
  <2> HIDE DEF before, after, r
  <2>3. after + Len(left) = before + Len(hand)
    BY <2>1, <2>2
  <2> QED
    BY <2>3 DEF before, after
<1> QED
  BY <1>0, <1>1, <1>2, <1>3, <1>4, <1>6, AlignerTurns DEF left, first

\* p is held with them.
LEMMA NoneHanded ==
    ASSUME NEW s, NEW p \in Packet, NEW rest \in Seq(Packet), Owns(s, <<p>> \o rest), NEW i \in DOMAIN s.streams,
           NEW b \in AlignerState, NEW x \in Seq(Packet), NEW held, held = Append(x, p),
           Holds(s.streams[i].aligner, b, x, held),
           NEW u, u = WithStream(s, i, WithAligner(s.streams[i], b))
    PROVE  Turns(s, u, i, b, rest)
<1> DEFINE hand == <<p>> \o rest
<1>1. held \in Seq(Packet) /\ Len(held) = Len(x) + 1 /\ Len(x) \in Nat /\ Ids(held) = Ids(x) \cup {p.id}
  BY HeldIs
<1>2. hand \in Seq(Packet) /\ Len(hand) = 1 + Len(rest) /\ Ids(hand) = {p.id} \cup Ids(rest) /\ Owns(s, hand)
  BY HandFirst
<1>3. Len(rest) \in Nat
  OBVIOUS
<1> HIDE DEF hand
<1>4. Ids(held) \cup Ids(rest) = Ids(x) \cup Ids(hand) /\ Len(held) + Len(rest) = Len(x) + Len(hand)
  BY <1>1, <1>2, <1>3
<1> QED
  BY <1>1, <1>2, <1>4, AlignerTurns

-----------------------------------------------------------------------------
(* The Aligner of a video stream.                                          *)

\* The configuration it holds is c, and nothing else of a is changed.
Configured(a, b, c) ==
    b.cfg = c /\ b.pending = a.pending /\ b.started = a.started /\ b.sync = a.sync /\ b.expects = a.expects

Begins(a, b, dts) == b.started /\ b.sync = dts /\ b.cfg = <<>> /\ b.pending = a.pending /\ b.expects = a.expects

VideoCases(s, t, i, p, held, rest) ==
    LET a == s.streams[i].aligner IN
    \/ a.started /\ t = CompletePacket(s, i, p)
    \/ /\ ~a.started /\ p.kind = "key"
       /\ \E u, b : Turns(s, u, i, b, held \o rest) /\ Begins(a, b, p.dts) /\ t = CompleteAll(u, i, held)
    \/ /\ ~a.started /\ p.kind = "config"
       /\ \E u, b : /\ Turns(s, u, i, b, <<Head(held)>> \o rest) /\ Configured(a, b, Tail(held))
                    /\ t = Drop(u, Head(held), "config")
    \/ ~a.started /\ p.kind = "config" /\ \E b : Turns(s, t, i, b, rest) /\ Configured(a, b, held)
    \/ ~a.started /\ p.kind = "delta" /\ t = Drop(s, p, "no keyframe")

LEMMA VideoSplit ==
    ASSUME NEW s, NEW p \in Packet, NEW rest \in Seq(Packet), Owns(s, <<p>> \o rest),
           NEW i \in DOMAIN s.streams, NEW t, t = ProcessVideo(s, i, p),
           NEW held, held = Append(s.streams[i].aligner.cfg, p)
    PROVE  VideoCases(s, t, i, p, held, rest)
<1> DEFINE a == s.streams[i].aligner
<1>1. s \in LiveState /\ s.streams[i] \in StreamState
  BY StateFields DEF Owns
<1>2. /\ a \in AlignerState /\ a.started \in BOOLEAN /\ a.pending \in Seq(Packet) /\ a.cfg \in Seq(Packet)
      /\ a.expects \in BOOLEAN /\ a.sync \in Int
  BY <1>1, StreamFields
<1>3. p.dts \in Int /\ p.kind \in {"key", "config", "delta"}
  BY DEF Packet
<1>4. held \in Seq(Packet) /\ Tail(held) \in Seq(Packet)
  BY <1>2, HeldIs, OldestIs
<1>6. a = s.streams[i].aligner /\ held = Append(a.cfg, p)
  OBVIOUS
<1> HIDE DEF a
<1>7. CASE a.started
  BY <1>6, <1>7 DEF ProcessVideo, VideoCases
<1>8. CASE ~a.started /\ p.kind = "key"
  <2> DEFINE none == <<>>
             b == StartedAt(a, p.dts, none)
             u == WithStream(s, i, WithAligner(s.streams[i], b))
  <2>1. t = CompleteAll(Starts(s, i, p.dts, none), i, held)
    BY <1>6, <1>8 DEF ProcessVideo, Starts
  <2>2. Starts(s, i, p.dts, none) = u
    BY <1>1, <1>6, AlignerStarts
  <2>3. none \in Seq(Packet) /\ none = <<>>
    OBVIOUS
  <2> HIDE DEF none
  <2>4. b \in AlignerState /\ Begins(a, b, p.dts) /\ Holds(a, b, a.cfg, none)
    BY <1>2, <1>3, <2>3 DEF AlignerState, StartedAt, Begins, Holds
  <2>5. u = WithStream(s, i, WithAligner(s.streams[i], b))
    OBVIOUS
  <2> HIDE DEF b, u
  <2> QED
    BY <1>2, <1>6, <1>8, <2>1, <2>2, <2>3, <2>4, <2>5, AllHanded DEF VideoCases
<1>9. CASE ~a.started /\ p.kind = "config" /\ Len(a.cfg) = maxCfgPending
  <2> DEFINE b == [a EXCEPT !.cfg = Tail(held)]
             u == WithStream(s, i, WithAligner(s.streams[i], b))
  <2>1. t = Drop([s EXCEPT !.streams[i].aligner.cfg = Tail(held)], Head(held), "config")
    BY <1>6, <1>9 DEF ProcessVideo
  <2>2. [s EXCEPT !.streams[i].aligner.cfg = Tail(held)] = u
    BY <1>6, SMTT(30) DEF WithStream, WithAligner
  <2>4. b \in AlignerState /\ Configured(a, b, Tail(held)) /\ Holds(a, b, a.cfg, Tail(held))
    BY <1>2, <1>4 DEF AlignerState, Configured, Holds
  <2>5. u = WithStream(s, i, WithAligner(s.streams[i], b))
    OBVIOUS
  <2> HIDE DEF b, u
  <2> QED
    BY <1>2, <1>6, <1>9, <2>1, <2>2, <2>4, <2>5, OldestHanded DEF VideoCases
<1>10. CASE ~a.started /\ p.kind = "config" /\ Len(a.cfg) # maxCfgPending
  <2> DEFINE b == [a EXCEPT !.cfg = held]
             u == WithStream(s, i, WithAligner(s.streams[i], b))
  <2>2. t = u
    BY <1>6, <1>10 DEF WithStream, WithAligner, ProcessVideo
  <2>4. b \in AlignerState /\ Configured(a, b, held) /\ Holds(a, b, a.cfg, held)
    BY <1>2, <1>4 DEF AlignerState, Configured, Holds
  <2>5. u = WithStream(s, i, WithAligner(s.streams[i], b))
    OBVIOUS
  <2> HIDE DEF b, u
  <2> QED
    BY <1>2, <1>6, <1>10, <2>2, <2>4, <2>5, NoneHanded DEF VideoCases
<1>11. CASE ~a.started /\ p.kind = "delta"
  BY <1>6, <1>11 DEF ProcessVideo, VideoCases
<1> QED
  BY <1>2, <1>3, <1>7, <1>8, <1>9, <1>10, <1>11

LEMMA VideoAligned ==
    ASSUME NEW s, NEW p \in Packet, NEW rest \in Seq(Packet), Owns(s, <<p>> \o rest),
           NEW i \in DOMAIN s.streams, NEW t, t = ProcessVideo(s, i, p)
    PROVE  Owns(t, rest) /\ OnlyAligns(s, t, i) /\ Traces(s, i, "video", p, t)
<1> DEFINE a == s.streams[i].aligner
           held == Append(a.cfg, p)
<1>1. a.cfg \in Seq(Packet)
  BY StateFields, StreamFields DEF Owns
<1>2. /\ held \in Seq(Packet) /\ Range(held) = Range(a.cfg) \cup {p}
      /\ Head(held) \in Packet /\ Range(Tail(held)) \subseteq Range(held)
  <2>1. held \in Seq(Packet) /\ held # <<>> /\ Range(held) = Range(a.cfg) \cup {p}
    BY <1>1, HeldIs
  <2> HIDE DEF held
  <2> QED
    BY <2>1, OldestIs
<1>3. VideoCases(s, t, i, p, held, rest) /\ a = s.streams[i].aligner
  BY VideoSplit
<1> HIDE DEF held, a
<1>4. CASE a.started /\ t = CompletePacket(s, i, p)
  BY <1>4, Completed, CompletesAligns, CompletesTraces
<1>5. CASE \E u, b : Turns(s, u, i, b, held \o rest) /\ Begins(a, b, p.dts) /\ t = CompleteAll(u, i, held)
  BY <1>2, <1>3, <1>5, AllCompleted, StartedSuits, AlignerTraces, RealignedAligns, CompletesAligns,
     AlignsTwice DEF Turns, Begins
<1>6. CASE /\ ~a.started /\ p.kind = "config"
           /\ \E u, b : /\ Turns(s, u, i, b, <<Head(held)>> \o rest) /\ Configured(a, b, Tail(held))
                        /\ t = Drop(u, Head(held), "config")
  BY <1>2, <1>3, <1>6, DroppedCompletes, ConfiguredSuits, AlignerTraces, RealignedAligns, CompletesAligns,
     AlignsTwice DEF Where, Turns, Configured
<1>7. CASE ~a.started /\ p.kind = "config" /\ \E b : Turns(s, t, i, b, rest) /\ Configured(a, b, held)
  BY <1>2, <1>3, <1>7, ConfiguredSuits, AlignerTraces, RealignedAligns DEF Configured, Turns
<1>8. CASE t = Drop(s, p, "no keyframe")
  BY <1>8, DroppedCompletes, CompletesAligns, CompletesTraces DEF Where
<1> QED
  BY <1>3, <1>4, <1>5, <1>6, <1>7, <1>8 DEF VideoCases, a

-----------------------------------------------------------------------------
(* The Aligner of an audio stream.                                         *)

\* The audio it holds is x, and nothing else of a is changed.
Buffered(a, b, x) ==
    b.pending = x /\ b.cfg = a.cfg /\ b.started = a.started /\ b.sync = a.sync /\ b.expects = a.expects

AudioCases(s, t, i, p, held, rest) ==
    LET a == s.streams[i].aligner IN
    \/ /\ a.started
       /\ \E u, b : Turns(s, u, i, b, held \o rest) /\ Buffered(a, b, <<>>) /\ t = Filtered(u, i, held)
    \/ ~a.started /\ ~a.expects /\ t = CompletePacket(s, i, p)
    \/ /\ ~a.started /\ a.expects
       /\ \E u, b : /\ Turns(s, u, i, b, <<Head(held)>> \o rest) /\ Buffered(a, b, Tail(held))
                    /\ t = Drop(u, Head(held), "overflow")
    \/ ~a.started /\ a.expects /\ \E b : Turns(s, t, i, b, rest) /\ Buffered(a, b, held)

LEMMA AudioSplit ==
    ASSUME NEW s, NEW p \in Packet, NEW rest \in Seq(Packet), Owns(s, <<p>> \o rest),
           NEW i \in DOMAIN s.streams, NEW t, t = ProcessAudio(s, i, p),
           NEW held, held = Append(s.streams[i].aligner.pending, p)
    PROVE  AudioCases(s, t, i, p, held, rest)
<1> DEFINE a == s.streams[i].aligner
<1>2. /\ a \in AlignerState /\ a.started \in BOOLEAN /\ a.pending \in Seq(Packet) /\ a.cfg \in Seq(Packet)
      /\ a.expects \in BOOLEAN /\ a.sync \in Int
  BY StreamFields, StateFields DEF Owns
<1>4. held \in Seq(Packet) /\ Tail(held) \in Seq(Packet)
  BY <1>2, HeldIs, OldestIs, SMTT(30)
<1>6. a = s.streams[i].aligner /\ held = Append(a.pending, p)
  OBVIOUS
<1> HIDE DEF a
<1>7. CASE a.started
  <2> DEFINE none == <<>>
             b == [a EXCEPT !.pending = none]
             u == WithStream(s, i, WithAligner(s.streams[i], b))
  <2>1. t = Filtered([s EXCEPT !.streams[i].aligner.pending = none], i, held)
    BY <1>6, <1>7 DEF ProcessAudio
  <2>2. [s EXCEPT !.streams[i].aligner.pending = none] = u
    BY <1>6 DEF WithStream, WithAligner
  <2>3. none \in Seq(Packet) /\ none = <<>>
    OBVIOUS
  <2> HIDE DEF none
  <2>4. b \in AlignerState /\ Buffered(a, b, none) /\ Holds(a, b, a.pending, none)
    BY <1>2, <2>3 DEF AlignerState, Buffered, Holds
  <2>5. u = WithStream(s, i, WithAligner(s.streams[i], b))
    OBVIOUS
  <2> HIDE DEF b, u
  <2> QED
    BY <1>2, <1>6, <1>7, <2>1, <2>2, <2>3, <2>4, <2>5, AllHanded DEF AudioCases
<1>8. CASE ~a.started /\ ~a.expects
  BY <1>6, <1>8 DEF ProcessAudio, AudioCases
<1>9. CASE ~a.started /\ a.expects /\ Len(held) > MaxBufferPackets
  <2> DEFINE b == [a EXCEPT !.pending = Tail(held)]
             u == WithStream(s, i, WithAligner(s.streams[i], b))
  <2>1. t = Drop([s EXCEPT !.streams[i].aligner.pending = Tail(held)], Head(held), "overflow")
    BY <1>6, <1>9 DEF ProcessAudio
  <2>2. [s EXCEPT !.streams[i].aligner.pending = Tail(held)] = u
    BY <1>6, SMTT(30) DEF WithStream, WithAligner
  <2>4. b \in AlignerState /\ Buffered(a, b, Tail(held)) /\ Holds(a, b, a.pending, Tail(held))
    BY <1>2, <1>4 DEF AlignerState, Buffered, Holds
  <2>5. u = WithStream(s, i, WithAligner(s.streams[i], b))
    OBVIOUS
  <2> HIDE DEF b, u
  <2> QED
    BY <1>2, <1>6, <1>9, <2>1, <2>2, <2>4, <2>5, OldestHanded DEF AudioCases
<1>10. CASE ~a.started /\ a.expects /\ ~(Len(held) > MaxBufferPackets)
  <2> DEFINE b == [a EXCEPT !.pending = held]
             u == WithStream(s, i, WithAligner(s.streams[i], b))
  <2>2. t = u
    BY <1>6, <1>10 DEF WithStream, WithAligner, ProcessAudio
  <2>4. b \in AlignerState /\ Buffered(a, b, held) /\ Holds(a, b, a.pending, held)
    BY <1>2, <1>4 DEF AlignerState, Buffered, Holds
  <2>5. u = WithStream(s, i, WithAligner(s.streams[i], b))
    OBVIOUS
  <2> HIDE DEF b, u
  <2> QED
    BY <1>2, <1>6, <1>10, <2>2, <2>4, <2>5, NoneHanded DEF AudioCases
<1> QED
  BY <1>2, <1>7, <1>8, <1>9, <1>10

LEMMA AudioAligned ==
    ASSUME NEW s, NEW p \in Packet, NEW rest \in Seq(Packet), Owns(s, <<p>> \o rest),
           NEW i \in DOMAIN s.streams, NEW t, t = ProcessAudio(s, i, p)
    PROVE  Owns(t, rest) /\ OnlyAligns(s, t, i) /\ Traces(s, i, "audio", p, t)
<1> DEFINE a == s.streams[i].aligner
           held == Append(a.pending, p)
<1>1. a.pending \in Seq(Packet)
  BY StateFields, StreamFields DEF Owns
<1>2. held \in Seq(Packet) /\ Head(held) \in Packet
  BY <1>1, HeldIs, OldestIs
<1>3. AudioCases(s, t, i, p, held, rest) /\ a = s.streams[i].aligner
  BY AudioSplit
<1> HIDE DEF held, a
<1>4. CASE t = CompletePacket(s, i, p)
  BY <1>4, Completed, CompletesAligns, CompletesTraces
<1>5. CASE \E u, b : Turns(s, u, i, b, held \o rest) /\ Buffered(a, b, <<>>) /\ t = Filtered(u, i, held)
  BY <1>2, <1>3, <1>5, AllFiltered, AudioSuits, AlignerTraces, RealignedAligns, CompletesAligns, AlignsTwice
     DEF Turns, Buffered
<1>6. CASE \E u, b : /\ Turns(s, u, i, b, <<Head(held)>> \o rest) /\ Buffered(a, b, Tail(held))
                     /\ t = Drop(u, Head(held), "overflow")
  BY <1>2, <1>3, <1>6, DroppedCompletes, AudioSuits, AlignerTraces, RealignedAligns, CompletesAligns,
     AlignsTwice DEF Where, Turns, Buffered
<1>7. CASE \E b : Turns(s, t, i, b, rest) /\ Buffered(a, b, held)
  BY <1>3, <1>7, AudioSuits, AlignerTraces, RealignedAligns DEF Buffered, Turns
<1> QED
  BY <1>3, <1>4, <1>5, <1>6, <1>7 DEF AudioCases

-----------------------------------------------------------------------------
(* SetVideoSyncStart moves no packet.                                      *)
StreamsOf(s, f) == [s EXCEPT !.streams = f]

\* All streams are changed, and none of what they hold.
LEMMA StreamsChanged ==
    ASSUME NEW s, NEW hand, Owns(s, hand), NEW i \in DOMAIN s.streams,
           NEW f \in Seq(StreamState), Len(f) = Len(s.streams),
           \A k \in DOMAIN s.streams :
              /\ f[k].kind = s.streams[k].kind /\ f[k].enforcer = s.streams[k].enforcer
              /\ f[k].pending = s.streams[k].pending
              /\ f[k].aligner.pending = s.streams[k].aligner.pending
              /\ f[k].aligner.cfg = s.streams[k].aligner.cfg,
           NEW t, t = StreamsOf(s, f)
    PROVE  /\ Owns(t, hand) /\ t.streams = f
           /\ t.queue = s.queue /\ t.started = s.started /\ t.closed = s.closed /\ t.err = s.err
           /\ t.retained = s.retained /\ t.accepted = s.accepted /\ t.out = s.out
           /\ t.released = s.released /\ t.reported = s.reported /\ t.fuse = s.fuse
           /\ OnlyAligns(s, t, i)
<1>1. s \in LiveState /\ IsLive(s) /\ hand \in Seq(Packet)
  BY StateShape DEF Owns
<1>2. /\ t.streams = f
      /\ t.queue = s.queue /\ t.started = s.started /\ t.closed = s.closed /\ t.err = s.err
      /\ t.retained = s.retained /\ t.accepted = s.accepted /\ t.out = s.out
      /\ t.released = s.released /\ t.reported = s.reported /\ t.fuse = s.fuse
  BY <1>1 DEF IsLive, StreamsOf
<1>4. t \in LiveState
  BY <1>1, <1>2, StateFields, StateOf, ShapeKept DEF StreamsOf
<1>6. \A k \in DOMAIN s.streams : /\ StageIds(t.streams[k]) = StageIds(s.streams[k])
                                  /\ StageSize(t.streams[k]) = StageSize(s.streams[k])
                                  /\ Stage(t.streams[k]) = Stage(s.streams[k])
                                  /\ t.streams[k].pending = s.streams[k].pending
  BY <1>2, ZenonT(30) DEF StageIds, StageSize, Stage
<1>8. Len(t.streams[i].pending) <= 1
  BY <1>6 DEF Owns, OnePending
<1>9. Owns(t, hand)
  BY <1>1, <1>2, <1>4, <1>6, <1>8, Moved DEF Moves, HereIds, HereSize
<1> QED
  BY <1>1, <1>2, <1>4, <1>9, StateFields, ZenonT(30) DEF OnlyAligns, Kept, Framed, Counted, Tally

\* An Aligner of audio that has not started does, at the sync point.
SyncsOne(st, after, dts) ==
    IF st.kind = "audio" /\ ~st.aligner.started
    THEN after.aligner.started /\ after.aligner.sync = dts /\ after.aligner.expects = st.aligner.expects
    ELSE after = st

SyncsAudio(s, t, dts) ==
    /\ t.started = s.started /\ t.out = s.out /\ t.queue = s.queue /\ t.reported = s.reported
    /\ \A k \in DOMAIN s.streams :
          t.streams[k].pending = s.streams[k].pending /\ SyncsOne(s.streams[k], t.streams[k], dts)

LEMMA SyncSet ==
    ASSUME NEW s, NEW hand, Owns(s, hand), NEW i \in DOMAIN s.streams, NEW dts \in Int,
           NEW t, t = SetVideoSyncStart(s, dts)
    PROVE  /\ Owns(t, hand) /\ OnlyAligns(s, t, i) /\ t.err = s.err /\ (Genuine(s) => Genuine(t))
           /\ SyncsAudio(s, t, dts)
<1> DEFINE Set(st) == [st EXCEPT !.aligner.started = TRUE, !.aligner.sync = dts]
           f == [k \in DOMAIN s.streams |->
                    IF k \in AudiosOf(s) /\ ~s.streams[k].aligner.started THEN Set(s.streams[k]) ELSE s.streams[k]]
<1>1. s \in LiveState /\ DOMAIN s.streams = 1 .. Len(s.streams) /\ Len(s.streams) \in Nat
  BY StateFields DEF Owns
<1>2. t = StreamsOf(s, f)
  BY DEF SetVideoSyncStart, StreamsOf
<1>3. ASSUME NEW st \in StreamState
      PROVE  /\ Set(st) \in StreamState
             /\ Set(st).kind = st.kind /\ Set(st).enforcer = st.enforcer /\ Set(st).pending = st.pending
             /\ Set(st).aligner.pending = st.aligner.pending /\ Set(st).aligner.cfg = st.aligner.cfg
             /\ Set(st).aligner.started /\ Set(st).aligner.sync = dts
             /\ Set(st).aligner.expects = st.aligner.expects
  BY DEF StreamState, AlignerState
<1> HIDE DEF Set
<1>4. \A k \in DOMAIN s.streams : s.streams[k] \in StreamState
  BY <1>1, StateFields
<1>6. f \in [1 .. Len(s.streams) -> StreamState]
  BY <1>1, <1>3, <1>4
<1>7. \A k \in DOMAIN s.streams :
              /\ f[k].kind = s.streams[k].kind /\ f[k].enforcer = s.streams[k].enforcer
              /\ f[k].pending = s.streams[k].pending
              /\ f[k].aligner.pending = s.streams[k].aligner.pending
              /\ f[k].aligner.cfg = s.streams[k].aligner.cfg
  BY <1>3, <1>4
<1>7a. \A k \in DOMAIN s.streams : s.streams[k].kind # "audio" => f[k] = s.streams[k]
  BY DEF AudiosOf
<1>7b. \A k \in DOMAIN s.streams : SyncsOne(s.streams[k], f[k], dts)
  BY <1>3, <1>4 DEF SyncsOne, AudiosOf
<1> HIDE DEF f
<1>8. f \in Seq(StreamState) /\ Len(f) = Len(s.streams)
  BY <1>1, <1>6
<1>9. /\ Owns(t, hand) /\ t.streams = f /\ t.err = s.err /\ t.accepted = s.accepted /\ OnlyAligns(s, t, i)
      /\ t.started = s.started /\ t.out = s.out /\ t.queue = s.queue /\ t.reported = s.reported
  BY <1>2, <1>7, <1>8, StreamsChanged
<1>10. ASSUME Genuine(s)
       PROVE  Genuine(t)
  BY <1>7, <1>9, <1>10, <1>7a DEF OnlyAligns, Kept, Framed, Genuine, Awaits
<1> QED
  BY <1>7, <1>9, <1>10, <1>7b DEF SyncsAudio

-----------------------------------------------------------------------------
(* A packet that leaves the Enforcer.                                      *)
LEMMA Aligned ==
    ASSUME NEW s, NEW p \in Packet, NEW rest \in Seq(Packet), Owns(s, <<p>> \o rest),
           NEW i \in DOMAIN s.streams, NEW t, t = ProcessAligner(s, i, p)
    PROVE  Owns(t, rest) /\ OnlyAligns(s, t, i) /\ Traces(s, i, s.streams[i].kind, p, t)
<1>1. CASE s.err # "none"
  BY <1>1, Released, CompletesAligns, CompletesTraces DEF ProcessAligner
<1>2. CASE s.err = "none"
  <2> DEFINE r == IF i = SyncVideo(s) /\ p.kind = "key" THEN SetVideoSyncStart(s, p.dts) ELSE s
             hand == <<p>> \o rest
  <2>1. \/ s.streams[i].kind = "video" /\ t = ProcessVideo(r, i, p)
        \/ s.streams[i].kind = "audio" /\ t = ProcessAudio(r, i, p)
        \/ s.streams[i].kind = "other" /\ t = CompletePacket(r, i, p)
    BY <1>2, StateFields, StreamFields DEF Owns, ProcessAligner
  <2>2. Owns(r, hand) /\ OnlyAligns(s, r, i) /\ (Genuine(s) => Genuine(r))
    BY SyncSet, KeptAlways DEF Packet, OnlyAligns
  <2> HIDE DEF r
  <2>3. Owns(r, <<p>> \o rest) /\ i \in DOMAIN r.streams
    BY <2>2 DEF OnlyAligns, Kept, Framed
  <2>4. Owns(t, rest) /\ OnlyAligns(r, t, i) /\ Traces(r, i, s.streams[i].kind, p, t)
    BY <2>1, <2>3, VideoAligned, AudioAligned, Completed, CompletesAligns, CompletesTraces
  <2>6. Traces(s, i, s.streams[i].kind, p, t)
    BY <2>2, <2>4 DEF Traces, OnlyAligns, Kept, Framed
  <2> QED
    BY <2>2, <2>4, <2>6, AlignsTwice
<1> QED
  BY <1>1, <1>2

-----------------------------------------------------------------------------
(* Every packet of a stage is released at once.                            *)
Releases(s, t, ids) ==
    /\ t.streams = s.streams /\ t.queue = s.queue /\ t.started = s.started /\ t.closed = s.closed
    /\ t.err = s.err /\ t.accepted = s.accepted /\ t.out = s.out /\ t.reported = s.reported
    /\ Range(t.released) \subseteq Range(s.released) \cup ids

ReleaseNext(c, t, p) == ReleasePacket(t, p)

ReleasesSoFar(c, s, packets, n, t) ==
    /\ Releases(s, t, Ids(packets))
    /\ \A rest \in Seq(Packet) :
          Owns(s, packets \o rest) => Owns(t, SubSeq(packets, n + 1, Len(packets)) \o rest)

Releasing == INSTANCE FoldLemmas WITH Op <- ReleaseNext, Inv <- ReleasesSoFar

LEMMA AllReleased ==
    ASSUME NEW s, NEW packets \in Seq(Packet), NEW rest \in Seq(Packet), Owns(s, packets \o rest),
           NEW t, t = ReleaseAll(s, packets)
    PROVE  Owns(t, rest) /\ Releases(s, t, Ids(packets))
<1>2. ReleasesSoFar(0, s, packets, 0, s)
  BY HandWhole DEF Releases, ReleasesSoFar
<1>3. ASSUME NEW n \in 1 .. Len(packets), NEW u, ReleasesSoFar(0, s, packets, n - 1, u)
      PROVE  ReleasesSoFar(0, s, packets, n, ReleaseNext(0, u, packets[n]))
  <2> DEFINE v == ReleaseNext(0, u, packets[n])  p == packets[n]
  <2>1. v = ReleasePacket(u, p) /\ p \in Packet /\ p.id \in Ids(packets)
    BY DEF ReleaseNext, Ids
  <2>2. Releases(s, u, Ids(packets)) 
    BY <1>3 DEF ReleasesSoFar, Releases
  <2> HIDE DEF v
  <2>3. ASSUME NEW r \in Seq(Packet), Owns(s, packets \o r)
        PROVE  Owns(v, SubSeq(packets, n + 1, Len(packets)) \o r) /\ Releases(s, v, Ids(packets))
    <3> DEFINE left == SubSeq(packets, n + 1, Len(packets)) \o r
    <3>1. Owns(u, SubSeq(packets, (n - 1) + 1, Len(packets)) \o r)
      BY <1>3, <2>3 DEF ReleasesSoFar
    <3>2. left \in Seq(Packet) /\ SubSeq(packets, (n - 1) + 1, Len(packets)) \o r = <<p>> \o left
      BY HandNext
    <3> HIDE DEF left, p
    <3>4. /\ Owns(v, left) /\ v.streams = u.streams
          /\ v.started = u.started /\ v.closed = u.closed /\ v.accepted = u.accepted
          /\ v.queue = u.queue /\ v.err = u.err /\ v.reported = u.reported /\ v.out = u.out
          /\ Range(v.released) = Range(u.released) \cup {p.id}
      BY <2>1, <2>2, <3>1, <3>2, Released
    <3> QED
      BY <2>1, <2>2, <3>4 DEF left, Releases
  <2> QED
    BY <2>3 DEF ReleasesSoFar, v
<1>4. ReleasesSoFar(0, s, packets, Len(packets), Releasing!Fold(0, s, packets))
  BY <1>2, <1>3, Releasing!FoldInvariant, NaturalsOrdered
<1> QED
  BY <1>4, HandWhole
     DEF ReleasesSoFar, ReleaseAll, Releasing!Fold, ReleaseNext, FoldLeft, MapThenFoldSet, Max,
         Releasing!Latest

-----------------------------------------------------------------------------
(* The Aligner of one stream is flushed: it holds nothing then.            *)
FlushesAligner(s, t, i) ==
    /\ Framed(s, t) /\ Tally(s) \subseteq Tally(t)
    /\ t.err = "none" =>
          Range(t.released) \subseteq Range(s.released) \cup Tally(t) \cup Ids(s.streams[i].aligner.cfg)
    /\ \A k \in DOMAIN s.streams : k # i => t.streams[k] = s.streams[k]
    /\ t.streams[i].aligner.pending = <<>> /\ t.streams[i].aligner.cfg = <<>>
    /\ t.streams[i].aligner.started = s.streams[i].aligner.started \/ s.streams[i].aligner.pending # <<>>

LEMMA StreamIs ==
    ASSUME NEW s \in LiveState, NEW i \in DOMAIN s.streams, NEW x
    PROVE  WithStream(s, i, x).streams[i] = x
BY StreamTwice

LEMMA AlignerIs ==
    ASSUME NEW st \in StreamState, NEW x
    PROVE  WithAligner(st, x).aligner = x
BY AlignerTwice

Emptied(s, i) == [s EXCEPT !.streams[i].aligner.cfg = <<>>, !.streams[i].aligner.pending = <<>>]

Begun(s, i) == [s EXCEPT !.streams[i].aligner.started = TRUE]

\* The Aligner of stream i holds nothing, what it held of configuration is released.
Unloads(s, r, i) ==
    /\ r.queue = s.queue /\ r.started = s.started /\ r.closed = s.closed /\ r.err = s.err
    /\ r.accepted = s.accepted /\ r.out = s.out /\ r.reported = s.reported
    /\ Range(r.released) \subseteq Range(s.released) \cup Ids(s.streams[i].aligner.cfg)
    /\ Len(r.streams) = Len(s.streams) /\ DOMAIN r.streams = DOMAIN s.streams
    /\ \A k \in DOMAIN s.streams : k # i => r.streams[k] = s.streams[k]
    /\ r.streams[i].kind = s.streams[i].kind /\ r.streams[i].enforcer = s.streams[i].enforcer
    /\ r.streams[i].pending = s.streams[i].pending
    /\ r.streams[i].aligner.pending = <<>> /\ r.streams[i].aligner.cfg = <<>>
    /\ r.streams[i].aligner.started = s.streams[i].aligner.started
    /\ r.streams[i].aligner.sync = s.streams[i].aligner.sync

\* It is started, and holds nothing.
SetsOff(r, v, i) ==
    /\ Realigned(r, v, i) /\ v.streams[i].aligner.started
    /\ v.streams[i].aligner.pending = <<>> /\ v.streams[i].aligner.cfg = <<>>

FlushCases(s, t, i, r, rest) ==
    LET held == s.streams[i].aligner.pending IN
    \/ held = <<>> /\ t = r
    \/ held # <<>> /\ s.streams[i].aligner.started /\ t = Filtered(r, i, held)
    \/ /\ held # <<>> /\ ~s.streams[i].aligner.started
       /\ \E v : Owns(v, held \o rest) /\ SetsOff(r, v, i) /\ t = CompleteAll(v, i, held)

LEMMA AlignerUnloaded ==
    ASSUME NEW s, NEW rest \in Seq(Packet), Owns(s, rest), NEW i \in DOMAIN s.streams,
           NEW t, t = FlushAligner(s, i)
    PROVE  \E r : /\ Owns(r, s.streams[i].aligner.pending \o rest) /\ Unloads(s, r, i)
                  /\ FlushCases(s, t, i, r, rest)
<1> DEFINE a == s.streams[i].aligner
           b == [a EXCEPT !.cfg = <<>>, !.pending = <<>>]
           u == WithStream(s, i, WithAligner(s.streams[i], b))
           r == ReleaseAll(u, a.cfg)
           c == [r.streams[i].aligner EXCEPT !.started = TRUE]
           v == WithStream(r, i, WithAligner(r.streams[i], c))
<1>1. s \in LiveState /\ s.streams[i] \in StreamState
  BY StateFields DEF Owns
<1>2. /\ a \in AlignerState /\ a.started \in BOOLEAN /\ a.sync \in Int /\ a.expects \in BOOLEAN
      /\ a.pending \in Seq(Packet) /\ a.cfg \in Seq(Packet) /\ Len(a.pending) \in Nat /\ Len(a.cfg) \in Nat
  BY <1>1, StreamFields
<1>3. Emptied(s, i) = u
  <2>1. IsLive(s)
    BY <1>1, StateShape
  <2> QED
    BY <1>1, <2>1, ZenonT(30) DEF Emptied, WithStream, WithAligner, StreamState, AlignerState, IsLive
<1>4. Begun(r, i) = v
  BY DEF Begun, WithStream, WithAligner
<1>5. \/ a.pending = <<>> /\ t = r
      \/ a.pending # <<>> /\ a.started /\ t = Filtered(r, i, a.pending)
      \/ a.pending # <<>> /\ ~a.started /\ t = CompleteAll(v, i, a.pending)
  <2>1. t = IF a.pending = <<>> THEN r
            ELSE IF a.started THEN Filtered(r, i, a.pending)
            ELSE CompleteAll(Begun(r, i), i, a.pending)
    <3>1. t = LET q == ReleaseAll(Emptied(s, i), a.cfg) IN
              IF a.pending = <<>> THEN q
              ELSE IF a.started THEN Filtered(q, i, a.pending)
              ELSE CompleteAll(Begun(q, i), i, a.pending)
      BY DEF FlushAligner, Emptied, Begun
    <3> QED
      BY <1>3, <3>1
  <2> QED
    BY <1>4, <2>1
<1>6. b \in AlignerState /\ b.pending = <<>> /\ b.cfg = <<>> /\ b.started = a.started /\ b.sync = a.sync
  <2>1. <<>> \in Seq(Packet)
    OBVIOUS
  <2> QED
    BY <1>2, <2>1 DEF AlignerState
<1>7. u = WithStream(s, i, WithAligner(s.streams[i], b)) /\ a = s.streams[i].aligner
  OBVIOUS
<1>8. r = ReleaseAll(u, a.cfg)
  OBVIOUS
<1>9. v = WithStream(r, i, WithAligner(r.streams[i], c))
  OBVIOUS
<1> DEFINE later == a.pending \o rest  hand == a.cfg \o later
<1> HIDE DEF u, b, r, v, c, a
<1>10. later \in Seq(Packet) /\ Ids(later) = Ids(a.pending) \cup Ids(rest) /\ Len(later) = Len(a.pending) + Len(rest)
  BY <1>2, IdsConcat
<1>11. hand \in Seq(Packet) /\ Ids(hand) = Ids(a.cfg) \cup Ids(later) /\ Len(hand) = Len(a.cfg) + Len(later)
  BY <1>2, <1>10, IdsConcat
<1>12. hand = a.cfg \o later
  OBVIOUS
<1> HIDE DEF hand, later
<1>13. Owns(u, hand) /\ Realigned(s, u, i) /\ u.streams[i].aligner = b
  <2>2. Len(b.pending) + Len(b.cfg) + Len(hand)
           = Len(s.streams[i].aligner.pending) + Len(s.streams[i].aligner.cfg) + Len(rest)
    <3> DEFINE x == Len(a.pending)  y == Len(a.cfg)  z == Len(rest)  w == Len(later)
    <3>1. /\ Len(b.pending) = 0 /\ Len(b.cfg) = 0 /\ Len(hand) = y + w /\ w = x + z
          /\ Len(s.streams[i].aligner.pending) = x /\ Len(s.streams[i].aligner.cfg) = y
      BY <1>6, <1>7, <1>10, <1>11, RangeEmpty
    <3>2. x \in Nat /\ y \in Nat /\ z \in Nat /\ w \in Nat
      BY <1>2, <1>10
    <3> HIDE DEF x, y, z, w
    <3> QED
      BY <3>1, <3>2 DEF z
  <2>3. Exchanges(s.streams[i].aligner, rest, b, hand)
    BY <1>6, <1>7, <1>10, <1>11, <2>2, IdsEmpty DEF Exchanges
  <2>5. u.streams[i].aligner = b
    BY <1>1, <1>7, StreamIs, AlignerIs
  <2> QED
    BY <1>7, <2>3, <2>5, AlignerMoved
<1>14. i \in DOMAIN u.streams /\ Owns(u, a.cfg \o later)
  BY <1>12, <1>13 DEF Realigned, InStream
<1>15. Owns(r, later) /\ Releases(u, r, Ids(a.cfg))
  BY <1>2, <1>8, <1>10, <1>14, AllReleased
<1>16. i \in DOMAIN r.streams /\ r.streams[i].aligner = b /\ r.streams[i] \in StreamState
  BY <1>13, <1>14, <1>15, StateFields
     DEF Releases, Owns<1>17. Owns(r, s.streams[i].aligner.pending \o rest) BY <1>7, <1>15 DEF later
<1>19. ASSUME a.pending # <<>>, ~a.started
       PROVE  Owns(v, s.streams[i].aligner.pending \o rest) /\ SetsOff(r, v, i)
  <2>1. c \in AlignerState /\ c.pending = b.pending /\ c.cfg = b.cfg /\ c.started
    BY <1>6, <1>16 DEF AlignerState, c
  <2>3. Owns(v, later) /\ Realigned(r, v, i)
    BY <1>9, <1>10, <1>15, <1>16, <2>1, AlignerMoved DEF Exchanges
  <2>4. v.streams[i].aligner = c
    BY <1>9, <1>15, <1>16, StreamIs, AlignerIs DEF Owns
  <2> QED
    BY <1>6, <1>7, <2>1, <2>3, <2>4 DEF SetsOff, later
<1>20. FlushCases(s, t, i, r, rest)
  BY <1>5, <1>7, <1>19 DEF FlushCases
<1> QED
  BY <1>6, <1>7, <1>13, <1>15, <1>16, <1>17, <1>20 DEF Realigned, InStream, Releases, Unloads

LEMMA UnloadsFlushes ==
    ASSUME NEW s, NEW r, NEW i \in DOMAIN s.streams, Unloads(s, r, i)
    PROVE  FlushesAligner(s, r, i)
BY DEF Unloads, Framed, Tally, FlushesAligner

\* What completing or filtering leaves of this.
LEMMA FlushesCompletes ==
    ASSUME NEW s, NEW w, NEW t, NEW i \in DOMAIN s.streams, FlushesAligner(s, w, i), OnlyCompletes(w, t, i)
    PROVE  FlushesAligner(s, t, i)
BY FramedTwice DEF FlushesAligner, OnlyCompletes, Kept, Framed, Counted

LEMMA AlignerFlushed ==
    ASSUME NEW s, NEW rest \in Seq(Packet), Owns(s, rest), NEW i \in DOMAIN s.streams,
           NEW t, t = FlushAligner(s, i)
    PROVE  Owns(t, rest) /\ FlushesAligner(s, t, i)
<1> DEFINE held == s.streams[i].aligner.pending
<1>1. PICK r : /\ Owns(r, held \o rest) /\ Unloads(s, r, i) /\ FlushCases(s, t, i, r, rest)
  BY AlignerUnloaded
<1>2. held \in Seq(Packet) /\ i \in DOMAIN r.streams
  BY <1>1, StateFields, StreamFields DEF Owns, Unloads
<1>3. FlushesAligner(s, r, i)
  BY <1>1, UnloadsFlushes
<1> HIDE DEF held
<1>4. CASE held = <<>> /\ t = r
  BY <1>1, <1>3, <1>4, ConcatEmptySeq
<1>5. CASE held # <<>> /\ t = Filtered(r, i, held)
  BY <1>1, <1>2, <1>3, <1>5, AllFiltered, FlushesCompletes
<1>6. ASSUME held # <<>>, NEW v, Owns(v, held \o rest), SetsOff(r, v, i), t = CompleteAll(v, i, held)
      PROVE  Owns(t, rest) /\ FlushesAligner(s, t, i)
  <2>4. Framed(s, v) /\ Counted(r, v)
    BY <1>2, <1>3, <1>6, FramedTwice, RealignedAligns DEF FlushesAligner, OnlyAligns, Kept, SetsOff
  <2>8. FlushesAligner(s, v, i)
    BY <1>3, <1>6, <2>4 DEF FlushesAligner, SetsOff, held, Framed, Realigned, InStream, Counted
  <2> QED
    BY <1>2, <1>6, <2>8, FlushesCompletes, AllCompleted DEF SetsOff, Realigned, InStream
<1> QED
  BY <1>1, <1>4, <1>5, <1>6 DEF FlushCases, held

-----------------------------------------------------------------------------
(* The packets that leave the Enforcer of a stream at once: their DTS is   *)
(* raised where it has to be, and nothing else is.                         *)
EmitNext(c, e, p) == EmitOne(e, p)

\* The first n packets of one sequence, and those of another that stand for them.
StandFor(emits, packets, n) ==
    /\ emits \in Seq(Packet) /\ Len(emits) = n
    /\ \A j \in 1 .. n : /\ emits[j].id = packets[j].id /\ emits[j].stream = packets[j].stream
                         /\ emits[j].kind = packets[j].kind /\ emits[j].disc = packets[j].disc

EmitsSoFar(c, e, packets, n, r) ==
    /\ r.last \in Int /\ r.emitted \in BOOLEAN
    /\ r = [last |-> r.last, emitted |-> r.emitted, emits |-> r.emits]
    /\ StandFor(r.emits, packets, n)

Emitting == INSTANCE FoldLemmas WITH Op <- EmitNext, Inv <- EmitsSoFar

LEMMA OneEmitted ==
    ASSUME NEW packets \in Seq(Packet), NEW n \in 1 .. Len(packets), NEW e, NEW c,
           EmitsSoFar(c, c, packets, n - 1, e), NEW r, r = EmitOne(e, packets[n])
    PROVE  EmitsSoFar(c, c, packets, n, r)
<1> DEFINE p == packets[n]
           d == IF e.emitted /\ p.dts <= e.last THEN e.last + StepSize ELSE p.dts
           x == [p EXCEPT !.dts = d]
<1>1. p \in Packet /\ p.dts \in Int /\ StepSize \in Int /\ e.last \in Int
  <2>1. StepSize \in Int
    BY LiveAssumption DEF StepSize
  <2>2. p \in Packet
    OBVIOUS
  <2> QED
    BY <2>1, <2>2 DEF EmitsSoFar, Packet
<1>2. r = [last |-> d, emitted |-> TRUE, emits |-> Append(e.emits, x)]
  BY DEF EmitOne
<1>3. d \in Int
  BY <1>1
<1> HIDE DEF d
<1>4. x \in Packet /\ x.id = p.id /\ x.stream = p.stream /\ x.kind = p.kind /\ x.disc = p.disc
  BY <1>1, <1>3 DEF Packet
<1>5. e.emits \in Seq(Packet) /\ Len(e.emits) = n - 1
  BY DEF EmitsSoFar, StandFor
<1> HIDE DEF x
<1> DEFINE new == Append(e.emits, x)
<1>6. new \in Seq(Packet) /\ Len(new) = n /\ new[n] = x /\ \A j \in 1 .. n - 1 : new[j] = e.emits[j]
  BY <1>4, <1>5
<1>7. r.last = d /\ r.emitted = TRUE /\ r.emits = new /\ r = [last |-> r.last, emitted |-> r.emitted, emits |-> r.emits]
  BY <1>2
<1> HIDE DEF new
<1>8. ASSUME NEW j \in 1 .. n
      PROVE  /\ new[j].id = packets[j].id /\ new[j].stream = packets[j].stream
             /\ new[j].kind = packets[j].kind /\ new[j].disc = packets[j].disc
  BY <1>4, <1>6 DEF EmitsSoFar, StandFor
<1> QED
  BY <1>3, <1>6, <1>7, <1>8, ZenonT(30) DEF EmitsSoFar, StandFor

LEMMA EmittedAll ==
    ASSUME NEW packets \in Seq(Packet), NEW e \in EnforcerState, NEW r, r = Emits(e, packets)
    PROVE  /\ r.last \in Int /\ r.emitted \in BOOLEAN /\ r.emits \in Seq(Packet)
           /\ StandFor(r.emits, packets, Len(packets)) /\ Ids(r.emits) = Ids(packets)
<1> DEFINE e0 == [last |-> e.last, emitted |-> e.emitted, emits |-> <<>>]
<1>1. r = Emitting!Fold(e0, e0, packets)
  BY DEF Emits, Emitting!Fold, EmitNext, FoldLeft, MapThenFoldSet, Max, Emitting!Latest
<1>2. EmitsSoFar(e0, e0, packets, 0, e0)
  BY DEF StandFor, EmitsSoFar, EnforcerState
<1> HIDE DEF e0
<1>3. ASSUME NEW n \in 1 .. Len(packets), NEW u, EmitsSoFar(e0, e0, packets, n - 1, u)
      PROVE  EmitsSoFar(e0, e0, packets, n, EmitNext(e0, u, packets[n]))
  BY <1>3, OneEmitted DEF EmitNext
<1>5. r.last \in Int /\ r.emitted \in BOOLEAN /\ StandFor(r.emits, packets, Len(packets))
  BY <1>1, <1>2, <1>3, Emitting!FoldInvariant, NaturalsOrdered DEF EmitsSoFar
<1> QED
  BY <1>5 DEF StandFor, Ids

-----------------------------------------------------------------------------
(* All that leaves the Enforcer at once goes through the Aligner.          *)
AlignNext(i, t, p) == ProcessAligner(t, i, p)

AlignsSoFar(i, s, packets, n, t) ==
    /\ OnlyAligns(s, t, i)
    /\ Genuine(s) /\ AllKnown(s.accepted, i, packets) => Genuine(t)
    /\ \A rest \in Seq(Packet) :
          Owns(s, packets \o rest) => Owns(t, SubSeq(packets, n + 1, Len(packets)) \o rest)

Aligning == INSTANCE FoldLemmas WITH Op <- AlignNext, Inv <- AlignsSoFar

LEMMA AllAligned ==
    ASSUME NEW s, NEW packets \in Seq(Packet), NEW rest \in Seq(Packet), Owns(s, packets \o rest),
           NEW i \in DOMAIN s.streams, NEW t, t = AlignAll(s, i, packets)
    PROVE  /\ Owns(t, rest) /\ OnlyAligns(s, t, i)
           /\ Genuine(s) /\ AllKnown(s.accepted, i, packets) => Genuine(t)
<1>2. AlignsSoFar(i, s, packets, 0, s)
  BY HandWhole, KeptAlways DEF OnlyAligns, AlignsSoFar
<1>3. ASSUME NEW n \in 1 .. Len(packets), NEW u, AlignsSoFar(i, s, packets, n - 1, u)
      PROVE  AlignsSoFar(i, s, packets, n, AlignNext(i, u, packets[n]))
  <2> DEFINE v == AlignNext(i, u, packets[n])  p == packets[n]
  <2>1. v = ProcessAligner(u, i, p) /\ p \in Packet
    BY DEF AlignNext
  <2>2. OnlyAligns(s, u, i) /\ i \in DOMAIN u.streams
    BY <1>3 DEF AlignsSoFar, OnlyAligns, Kept, Framed
  <2> HIDE DEF v
  <2>3. ASSUME NEW r \in Seq(Packet), Owns(s, packets \o r)
        PROVE  /\ Owns(v, SubSeq(packets, n + 1, Len(packets)) \o r) /\ OnlyAligns(s, v, i)
               /\ Traces(u, i, u.streams[i].kind, p, v)
    <3> DEFINE left == SubSeq(packets, n + 1, Len(packets)) \o r
    <3>1. Owns(u, SubSeq(packets, (n - 1) + 1, Len(packets)) \o r)
      BY <1>3, <2>3 DEF AlignsSoFar
    <3>2. left \in Seq(Packet) /\ SubSeq(packets, (n - 1) + 1, Len(packets)) \o r = <<p>> \o left
      BY HandNext
    <3> HIDE DEF left, p
    <3> QED
      BY <2>1, <2>2, <3>1, <3>2, AlignsTwice, Aligned DEF left
  <2>4. OnlyAligns(s, v, i) /\ Traces(u, i, u.streams[i].kind, p, v)
    BY <2>3
  <2>5. ASSUME Genuine(s), AllKnown(s.accepted, i, packets)
        PROVE  Genuine(v)
    BY <1>3, <2>2, <2>4, <2>5 DEF OnlyAligns, Kept, Framed, Range, AllKnown, AlignsSoFar, Traces
  <2> QED
    BY <2>3, <2>4, <2>5 DEF AlignsSoFar, v
<1>4. AlignsSoFar(i, s, packets, Len(packets), Aligning!Fold(i, s, packets))
  BY <1>2, <1>3, Aligning!FoldInvariant, NaturalsOrdered
<1> QED
  BY <1>4, HandWhole
     DEF AlignsSoFar, AlignAll, Aligning!Fold, AlignNext, FoldLeft, MapThenFoldSet, Max, Aligning!Latest

-----------------------------------------------------------------------------
(* The Enforcer of one stream hands packets on.                            *)
WithEnforcer(st, e) == [st EXCEPT !.enforcer = e]

\* What a call leaves alone of the streams other than i.
OnlyEnforces(s, t, i) ==
    /\ t.accepted = s.accepted /\ t.started = s.started /\ t.closed = s.closed
    /\ Len(t.streams) = Len(s.streams) /\ DOMAIN t.streams = DOMAIN s.streams
    /\ \A k \in DOMAIN s.streams :
          /\ t.streams[k].kind = s.streams[k].kind
          /\ k # i => /\ t.streams[k].enforcer = s.streams[k].enforcer
                      /\ t.streams[k].aligner.pending = s.streams[k].aligner.pending
                      /\ t.streams[k].aligner.cfg = s.streams[k].aligner.cfg
                      /\ t.streams[k].pending = s.streams[k].pending
    /\ s.err # "none" => t.err = s.err
    /\ Counted(s, t)

Buffers(s, i, b) == s.streams[i].enforcer.buf = b

LEMMA EmittedKnown ==
    ASSUME NEW all, NEW k, NEW packets \in Seq(Packet), AllKnown(all, k, packets),
           NEW emits, StandFor(emits, packets, Len(packets))
    PROVE  AllKnown(all, k, emits)
BY DEF StandFor, Range, AllKnown, Known

\* The packets of b come from stream i, and so do those its Enforcer keeps or hands on.
Hands(s, i, b, t) == Genuine(s) /\ AllKnown(s.accepted, i, b) => Genuine(t)

\* The Enforcer of stream i becomes e, and nothing else of the stream is changed.
Refed(s, u, i, e) ==
    /\ InStream(s, u, i)
    /\ u.streams[i].kind = s.streams[i].kind /\ u.streams[i].pending = s.streams[i].pending
    /\ u.streams[i].aligner = s.streams[i].aligner /\ u.streams[i].enforcer = e

\* The Enforcer when the first k packets of b have left it as r says.
EnforcerAfter(b, k, r) ==
    [buf |-> SubSeq(b, k + 1, Len(b)), last |-> r.last, emitted |-> r.emitted]

LEMMA EmitTaken ==
    ASSUME NEW s, NEW hand, Owns(s, hand), NEW i \in DOMAIN s.streams,
           NEW b \in Seq(Packet), NEW k \in 0 .. Len(b), NEW rest \in Seq(Packet),
           Ids(b) \cup Ids(rest) = Ids(s.streams[i].enforcer.buf) \cup Ids(hand),
           Len(b) + Len(rest) = Len(s.streams[i].enforcer.buf) + Len(hand),
           NEW r, r = Emits(s.streams[i].enforcer, SubSeq(b, 1, k)),
           NEW e, e = EnforcerAfter(b, k, r),
           NEW u, u = WithStream(s, i, WithEnforcer(s.streams[i], e))
    PROVE  /\ Owns(u, r.emits \o rest) /\ Refed(s, u, i, e)
           /\ r.emits \in Seq(Packet) /\ StandFor(r.emits, SubSeq(b, 1, k), k)
<1> DEFINE old == s.streams[i]
           first == SubSeq(b, 1, k)
           held == SubSeq(b, k + 1, Len(b))
           st == WithEnforcer(old, e)
           left == r.emits \o rest
<1>1. s \in LiveState /\ old \in StreamState /\ Len(old.pending) <= 1 /\ hand \in Seq(Packet)
  BY StateFields DEF Owns, OnePending
<1>2. /\ old.enforcer \in EnforcerState /\ old.enforcer.buf \in Seq(Packet)
      /\ old.aligner.pending \in Seq(Packet) /\ old.aligner.cfg \in Seq(Packet) /\ old.pending \in Seq(Packet)
  BY <1>1, StreamFields
<1>3. /\ Ids(b) = Ids(first) \cup Ids(held) /\ first \in Seq(Packet) /\ held \in Seq(Packet)
      /\ Len(first) = k /\ Len(held) = Len(b) - k
  BY IdsOfSplit
<1>4. u = WithStream(s, i, st) /\ st = WithEnforcer(old, e)
  OBVIOUS
<1>5. r = Emits(old.enforcer, first)
  OBVIOUS
<1> HIDE DEF first
<1>6. /\ r.last \in Int /\ r.emitted \in BOOLEAN /\ r.emits \in Seq(Packet)
      /\ Len(r.emits) = k /\ Ids(r.emits) = Ids(first) /\ StandFor(r.emits, first, k)
  <2>1. /\ r.last \in Int /\ r.emitted \in BOOLEAN /\ r.emits \in Seq(Packet)
        /\ StandFor(r.emits, first, Len(first)) /\ Ids(r.emits) = Ids(first)
    BY <1>2, <1>3, <1>5, EmittedAll
  <2> QED
    BY <1>3, <2>1 DEF StandFor
<1>7. e \in EnforcerState /\ e.buf = held
  BY <1>3, <1>6 DEF EnforcerState, EnforcerAfter
<1> HIDE DEF held
<1>8. /\ st \in StreamState /\ st.enforcer = e /\ st.kind = old.kind /\ st.pending = old.pending
      /\ st.aligner = old.aligner
  BY <1>1, <1>7 DEF WithEnforcer, StreamState
<1> HIDE DEF st
<1>9. left \in Seq(Packet) /\ Ids(left) = Ids(r.emits) \cup Ids(rest) /\ Len(left) = Len(r.emits) + Len(rest)
  BY <1>6, IdsConcat
<1> HIDE DEF left
<1>10. StageIds(st) \cup Ids(left) = StageIds(s.streams[i]) \cup Ids(hand)
  BY <1>3, <1>6, <1>7, <1>8, <1>9 DEF StageIds
<1>11. StageSize(st) + Len(left) = StageSize(s.streams[i]) + Len(hand)
  <2>0. /\ Len(old.aligner.pending) \in Nat /\ Len(old.aligner.cfg) \in Nat /\ Len(old.pending) \in Nat
        /\ Len(old.enforcer.buf) \in Nat
    <3> HIDE DEF old
    <3> QED
      BY <1>2
  <2>7. Len(hand) \in Nat /\ Len(rest) \in Nat /\ Len(b) \in Nat
    BY <1>1
  <2> DEFINE x == Len(old.aligner.pending)  y == Len(old.aligner.cfg)  z == Len(old.pending)  w == Len(old.enforcer.buf)
             h == Len(hand)  q == Len(rest)  n == Len(b)
  <2>1. /\ x \in Nat /\ y \in Nat /\ z \in Nat /\ w \in Nat /\ h \in Nat /\ q \in Nat /\ n \in Nat
    BY <2>0, <2>7
  <2>2. StageSize(s.streams[i]) = w + x + y + z
    BY DEF StageSize
  <2>3. StageSize(st) = (n - k) + x + y + z
    BY <1>3, <1>7, <1>8 DEF StageSize
  <2>4. Len(left) = k + q /\ n + q = w + h /\ k \in Nat
    BY <1>6, <1>9
  <2> HIDE DEF x, y, z, w, h, q, n
  <2>5. StageSize(st) + Len(left) = StageSize(s.streams[i]) + h
    BY <2>1, <2>2, <2>3, <2>4
  <2> QED
    BY <2>5 DEF h
<1>12. Owns(u, left) /\ InStream(s, u, i) /\ u.streams[i] = st
  <2>1. Len(st.pending) <= 1
    BY <1>1, <1>8
  <2> HIDE DEF old
  <2>2. st \in StreamState /\ left \in Seq(Packet) /\ u = WithStream(s, i, st)
    BY <1>4, <1>8, <1>9
  <2>4. u.streams[i] = st
    BY <1>1, <2>2, StreamIs
  <2> QED
    BY <1>10, <1>11, <2>1, <2>2, <2>4, MovedInStream
<1> QED
  BY <1>6, <1>8, <1>12 DEF left, first, Refed, old

LEMMA Emitted ==
    ASSUME NEW s, NEW hand, Owns(s, hand), NEW i \in DOMAIN s.streams,
           NEW b \in Seq(Packet), NEW k \in 0 .. Len(b), NEW rest \in Seq(Packet),
           Ids(b) \cup Ids(rest) = Ids(s.streams[i].enforcer.buf) \cup Ids(hand),
           Len(b) + Len(rest) = Len(s.streams[i].enforcer.buf) + Len(hand),
           NEW t, t = Emit(s, i, b, k)
    PROVE  /\ Owns(t, rest) /\ OnlyEnforces(s, t, i)
           /\ Buffers(t, i, SubSeq(b, k + 1, Len(b))) /\ Hands(s, i, b, t)
<1> DEFINE first == SubSeq(b, 1, k)
           held == SubSeq(b, k + 1, Len(b))
           r == Emits(s.streams[i].enforcer, first)
           e == EnforcerAfter(b, k, r)
           u == WithStream(s, i, WithEnforcer(s.streams[i], e))
<1>1. t = AlignAll(u, i, r.emits)
  BY DEF Emit, WithStream, WithEnforcer, EnforcerAfter
<1>2. e.buf = held
  BY DEF EnforcerAfter
<1>3. first \in Seq(Packet) /\ Len(first) = k /\ Range(b) = Range(first) \cup Range(held)
  BY RangeOfSplit
<1>4. r = Emits(s.streams[i].enforcer, first) /\ e = EnforcerAfter(b, k, r)
      /\ u = WithStream(s, i, WithEnforcer(s.streams[i], e))
  OBVIOUS
<1> HIDE DEF u, e, r, held
<1>5. /\ Owns(u, r.emits \o rest) /\ Refed(s, u, i, e)
      /\ r.emits \in Seq(Packet) /\ StandFor(r.emits, first, Len(first))
  BY <1>3, <1>4, EmitTaken
<1> HIDE DEF first
<1>6. i \in DOMAIN u.streams /\ InStream(s, u, i)
  BY <1>5 DEF Refed, InStream
<1>7. Owns(t, rest) /\ OnlyAligns(u, t, i) /\ (Genuine(u) /\ AllKnown(u.accepted, i, r.emits) => Genuine(t))
  BY <1>1, <1>5, <1>6, AllAligned
<1>8. Counted(s, t)
  <2>1. Tally(u) = Tally(s) /\ u.err = s.err /\ u.released = s.released
    BY <1>6 DEF InStream, Tally
  <2> QED
    BY <1>7, <2>1 DEF OnlyAligns, Kept, Counted
<1>9. \A j \in DOMAIN s.streams : /\ t.streams[j].kind = u.streams[j].kind
                                   /\ t.streams[j].enforcer = u.streams[j].enforcer
  BY <1>6, <1>7 DEF OnlyAligns, Kept, Framed, InStream
<1>11. OnlyEnforces(s, t, i)
  BY <1>5, <1>6, <1>7, <1>8, <1>9 DEF OnlyEnforces, OnlyAligns, Kept, Framed, InStream, Refed
<1>13. ASSUME Genuine(s), AllKnown(s.accepted, i, b)
       PROVE  Genuine(t)
  BY <1>2, <1>3, <1>5, <1>6, <1>7, <1>13, EmittedKnown DEF AllKnown, Genuine, Refed, InStream
<1> QED
  BY <1>2, <1>5, <1>7, <1>9, <1>11, <1>13 DEF held, Buffers, Refed, Hands

\* How many packets an Enforcer hands on.
LEMMA ReadyIsPart ==
    ASSUME NEW b \in Seq(Packet)
    PROVE  ReadyCount(b) \in 0 .. Len(b)
BY MinIs DEF ReadyCount

\* A packet that arrives.
LEMMA Enforced ==
    ASSUME NEW s, NEW p \in Packet, NEW rest \in Seq(Packet), Owns(s, <<p>> \o rest),
           NEW i \in DOMAIN s.streams, NEW t, t = ProcessEnforcer(s, i, p)
    PROVE  Owns(t, rest) /\ OnlyEnforces(s, t, i) /\ Hands(s, i, <<p>>, t)
<1> DEFINE e == s.streams[i].enforcer
           late == e.emitted /\ p.dts < e.last
           stamps == [j \in DOMAIN e.buf |-> e.buf[j].dts]
           at == SearchIndex(stamps, p.dts)
           new == InsertAt(e.buf, at, p)
           r == Drop(s, p, "late")
           hand == <<p>> \o rest
<1>2. e.buf \in Seq(Packet) /\ Len(e.buf) \in Nat
  BY StreamFields, StateFields DEF Owns
<1>3. hand \in Seq(Packet) /\ Len(hand) = 1 + Len(rest) /\ Ids(hand) = {p.id} \cup Ids(rest) /\ Owns(s, hand)
  BY HandFirst, SMTT(30)
<1>4. CASE s.err # "none"
  BY <1>4, Released, CompletesGenuine DEF ProcessEnforcer, Hands, OnlyWrites, Kept, Framed, OnlyEnforces
<1>5. CASE s.err = "none" /\ late
  <2>1. t = Emit(r, i, e.buf, ReadyCount(e.buf))
    BY <1>5 DEF ProcessEnforcer
  <2> HIDE DEF r, e
  <2>3. Owns(r, rest) /\ OnlyWrites(s, r)
    BY Dropped DEF r, Where
  <2>4. i \in DOMAIN r.streams /\ r.streams[i].enforcer.buf = e.buf
    BY <2>3 DEF OnlyWrites, e
  <2>5. ReadyCount(e.buf) \in 0 .. Len(e.buf)
    BY <1>2, ReadyIsPart
  <2> DEFINE b == e.buf  n == ReadyCount(b)
  <2>6. /\ b \in Seq(Packet) /\ n \in 0 .. Len(b) /\ t = Emit(r, i, b, n)
        /\ Ids(b) \cup Ids(rest) = Ids(r.streams[i].enforcer.buf) \cup Ids(rest)
        /\ Len(b) + Len(rest) = Len(r.streams[i].enforcer.buf) + Len(rest)
    BY <1>2, <2>1, <2>4, <2>5
  <2> HIDE DEF b, n
  <2>7. Owns(t, rest) /\ OnlyEnforces(r, t, i) /\ Hands(r, i, b, t)
    BY <2>3, <2>4, <2>6, Emitted
  <2>8. ASSUME Genuine(s)
        PROVE  Genuine(t)
    BY <2>3, <2>4, <2>7, <2>8, CompletesGenuine DEF Genuine, b, Hands
  <2> QED
    BY <2>3, <2>7, <2>8 DEF OnlyWrites, Kept, Framed, OnlyEnforces, Counted, Hands
<1>6. CASE s.err = "none" /\ ~late
  <2>1. t = Emit(s, i, new, ReadyCount(new))
    BY <1>6 DEF ProcessEnforcer
  <2>2. at \in 1 .. Len(e.buf) + 1
    BY <1>2, SearchFinds
  <2>2a. Range(new) = Range(e.buf) \cup {p}
    <3> HIDE DEF at
    <3> QED
      BY <1>2, <2>2, RangeOfInsert
  <2> HIDE DEF at
  <2>3. new \in Seq(Packet) /\ Len(new) = Len(e.buf) + 1 /\ Ids(new) = Ids(e.buf) \cup {p.id}
    BY <1>2, <2>2, IdsOfInsert
  <2> HIDE DEF new, hand
  <2>4. ReadyCount(new) \in 0 .. Len(new)
    BY <2>3, ReadyIsPart
  <2>5. Ids(new) \cup Ids(rest) = Ids(s.streams[i].enforcer.buf) \cup Ids(hand)
    BY <1>3, <2>3
  <2>6. Len(new) + Len(rest) = Len(s.streams[i].enforcer.buf) + Len(hand)
    <3> DEFINE x == Len(e.buf)  y == Len(rest)
    <3>1. x \in Nat /\ y \in Nat /\ Len(new) = x + 1 /\ Len(hand) = 1 + y /\ Len(s.streams[i].enforcer.buf) = x
      BY <1>2, <1>3, <2>3
    <3> HIDE DEF x, y
    <3> QED
      BY <3>1 DEF y
  <2> DEFINE n == ReadyCount(new)
  <2> HIDE DEF n
  <2>8. Owns(t, rest) /\ OnlyEnforces(s, t, i) /\ Hands(s, i, new, t)
    BY <1>3, <2>1, <2>3, <2>4, <2>5, <2>6, Emitted DEF n
  <2>9. ASSUME Genuine(s), AllKnown(s.accepted, i, <<p>>)
        PROVE  Genuine(t)
    BY <2>8, <2>9, <2>2a, RangeOne DEF Genuine, AllKnown, Hands
  <2> QED
    BY <2>8, <2>9 DEF Hands
<1> QED
  BY <1>4, <1>5, <1>6

\* The Enforcer of one stream is flushed: it holds nothing then.
LEMMA EnforcerFlushed ==
    ASSUME NEW s, NEW rest \in Seq(Packet), Owns(s, rest), NEW i \in DOMAIN s.streams,
           NEW t, t = FlushEnforcer(s, i)
    PROVE  /\ Owns(t, rest) /\ OnlyEnforces(s, t, i) /\ t.streams[i].enforcer.buf = <<>>
           /\ (Genuine(s) => Genuine(t))
<1> DEFINE b == s.streams[i].enforcer.buf  n == Len(b)
<1>1. s \in LiveState /\ s.streams[i] \in StreamState
  BY StateFields DEF Owns
<1>2. b \in Seq(Packet) /\ n \in 0 .. Len(b)
  <2>1. b \in Seq(Packet) /\ Len(b) \in Nat
    BY <1>1, StreamFields
  <2> QED
    BY <2>1
<1>3. /\ t = Emit(s, i, b, n)
      /\ Ids(b) \cup Ids(rest) = Ids(s.streams[i].enforcer.buf) \cup Ids(rest)
      /\ Len(b) + Len(rest) = Len(s.streams[i].enforcer.buf) + Len(rest)
  BY DEF FlushEnforcer
<1>4. SubSeq(b, n + 1, Len(b)) = <<>>
  BY <1>2
<1> HIDE DEF b, n
<1>6. Buffers(t, i, SubSeq(b, n + 1, Len(b)))
  BY <1>2, <1>3, Emitted
<1>7. Hands(s, i, b, t)
  BY <1>2, <1>3, Emitted
<1>8. ASSUME Genuine(s)
      PROVE  Genuine(t)
  BY <1>7, <1>8 DEF Genuine, b, Hands
<1> QED
  BY <1>2, <1>3, <1>4, <1>6, <1>8, Emitted DEF Buffers

-----------------------------------------------------------------------------
(* The calls.                                                              *)

\* What a state owns does not depend on its other fields.
LEMMA SameOwned ==
    ASSUME NEW s, NEW hand, Owns(s, hand), NEW t \in LiveState,
           t.streams = s.streams, t.queue = s.queue, t.accepted = s.accepted,
           t.retained = s.retained, t.released = s.released
    PROVE  Owns(t, hand)
BY DEF Packets, Stages, Queued, Owns, OnePending

\* What of a state is set at once by a call.
SetStarted(s) == [s EXCEPT !.started = TRUE]

SetFuse(s, fuse) == [s EXCEPT !.fuse = fuse]

WithMode(st, mode) == [st EXCEPT !.inputMode = mode]

LEMMA StartedSet ==
    ASSUME NEW s, NEW hand, Owns(s, hand), NEW t, t = SetStarted(s)
    PROVE  Owns(t, hand) /\ t.streams = s.streams
<1>1. s \in LiveState /\ IsLive(s)
  BY StateShape DEF Owns
<1>2. /\ t.streams = s.streams /\ t.queue = s.queue /\ t.started = TRUE /\ t.closed = s.closed
      /\ t.err = s.err /\ t.retained = s.retained /\ t.accepted = s.accepted /\ t.out = s.out
      /\ t.released = s.released /\ t.reported = s.reported /\ t.fuse = s.fuse
  BY <1>1 DEF IsLive, SetStarted
<1>4. t \in LiveState
  BY <1>1, <1>2, StateFields, StateOf, ShapeKept DEF SetStarted
<1> QED
  BY <1>2, <1>4, SameOwned

LEMMA FuseSet ==
    ASSUME NEW s, NEW hand, Owns(s, hand), NEW fuse \in Int, NEW t, t = SetFuse(s, fuse)
    PROVE  /\ Owns(t, hand) /\ t.streams = s.streams /\ t.queue = s.queue /\ t.started = s.started
           /\ t.closed = s.closed /\ t.err = s.err /\ t.retained = s.retained /\ t.accepted = s.accepted
           /\ t.out = s.out /\ t.released = s.released /\ t.reported = s.reported
<1>1. s \in LiveState /\ IsLive(s)
  BY StateShape DEF Owns
<1>2. /\ t.streams = s.streams /\ t.queue = s.queue /\ t.started = s.started /\ t.closed = s.closed
      /\ t.err = s.err /\ t.retained = s.retained /\ t.accepted = s.accepted /\ t.out = s.out
      /\ t.released = s.released /\ t.reported = s.reported /\ t.fuse = fuse
  BY <1>1 DEF IsLive, SetFuse
<1> QED
  BY <1>1, <1>2, SameOwned, StateFields, StateOf, ShapeKept DEF SetFuse

\* A stream is claimed for one of the two ways to write to it.
LEMMA Claimed ==
    ASSUME NEW s, NEW hand, Owns(s, hand), NEW i \in DOMAIN s.streams,
           NEW mode \in {"packet", "adts"}, NEW t, t = Claim(s, i, mode)
    PROVE  /\ Owns(t, hand) /\ InStream(s, t, i)
           /\ t.streams[i].kind = s.streams[i].kind /\ t.streams[i].enforcer = s.streams[i].enforcer
           /\ t.streams[i].aligner = s.streams[i].aligner
<1> DEFINE old == s.streams[i]
           st == WithMode(old, mode)
<1>1. s \in LiveState /\ old \in StreamState /\ Len(old.pending) <= 1 /\ hand \in Seq(Packet)
  BY StateFields DEF Owns, OnePending
<1>2. t = WithStream(s, i, st)
  BY DEF Claim, WithStream, WithMode
<1>3. /\ st \in StreamState /\ st.enforcer = old.enforcer /\ st.aligner = old.aligner
      /\ st.kind = old.kind /\ st.pending = old.pending
  BY <1>1 DEF WithMode, StreamState
<1> HIDE DEF st
<1>4. StageIds(st) = StageIds(old) /\ StageSize(st) = StageSize(old)
  BY <1>3 DEF StageIds, StageSize
<1> QED
  BY <1>1, <1>2, <1>3, <1>4, StreamIs, MovedInStream

-----------------------------------------------------------------------------
(* What was released was written or counted as dropped, unless an error    *)
(* struck.                                                                 *)
Clean(s) == s.err = "none" => Range(s.released) \subseteq Tally(s)

Traced(s) == Genuine(s) /\ Clean(s)

\* What a call with a packet leaves of that before Close.
Passes(s, t) ==
    /\ t.closed = s.closed /\ DOMAIN t.streams = DOMAIN s.streams
    /\ Traced(s) => Traced(t)

LEMMA CountedClean ==
    ASSUME NEW s, NEW t, Clean(s), Counted(s, t), s.err # "none" => t.err = s.err
    PROVE  Clean(t)
BY DEF Clean, Counted

\* Another stage of stream k, or none.
SameStages(s, t, k) ==
    /\ t.streams[k].kind = s.streams[k].kind /\ t.streams[k].enforcer = s.streams[k].enforcer
    /\ t.streams[k].aligner.pending = s.streams[k].aligner.pending
    /\ t.streams[k].aligner.cfg = s.streams[k].aligner.cfg
    /\ t.streams[k].aligner.started = s.streams[k].aligner.started

LEMMA SameTraced ==
    ASSUME NEW s, NEW t, t.accepted = s.accepted, t.closed = s.closed, t.err = s.err, t.out = s.out,
           t.released = s.released, t.reported = s.reported, DOMAIN t.streams = DOMAIN s.streams,
           \A k \in DOMAIN s.streams : SameStages(s, t, k)
    PROVE  Passes(s, t)
BY DEF Genuine, SameStages, Awaits, Tally, Passes, Traced, Clean

\* The first packet of all: every Aligner learns whether it waits for video.
LEMMA Started ==
    ASSUME NEW s, NEW hand, Owns(s, hand), NEW i \in DOMAIN s.streams, NEW t, t = Start(s)
    PROVE  Owns(t, hand) /\ DOMAIN t.streams = DOMAIN s.streams /\ Passes(s, t)
<1>1. CASE s.started
  BY <1>1 DEF Start, Passes
<1>2. CASE ~s.started
  <2> DEFINE Expecting(st, e) == [st EXCEPT !.aligner.expects = e]
             E(k) == k \in AudiosOf(s) /\ SyncVideo(s) # 0
             f == [k \in DOMAIN s.streams |-> Expecting(s.streams[k], E(k))]
             u == SetStarted(s)
  <2>1. s \in LiveState /\ DOMAIN s.streams = 1 .. Len(s.streams) /\ Len(s.streams) \in Nat
    BY StateFields DEF Owns
  <2>2. t = StreamsOf(u, f)
    BY <1>2 DEF Start, SetStarted, StreamsOf
  <2>3. u = SetStarted(s)
    OBVIOUS
  <2> HIDE DEF u
  <2>4. Owns(u, hand) /\ u.streams = s.streams
    BY <2>3, StartedSet
  <2>5. /\ u.closed = s.closed /\ u.err = s.err /\ u.accepted = s.accepted /\ u.out = s.out
        /\ u.released = s.released /\ u.reported = s.reported
    BY <2>1, <2>3, StateShape DEF SetStarted, IsLive
  <2>6. ASSUME NEW st \in StreamState, NEW e \in BOOLEAN
        PROVE  /\ Expecting(st, e) \in StreamState
               /\ Expecting(st, e).kind = st.kind /\ Expecting(st, e).enforcer = st.enforcer
               /\ Expecting(st, e).pending = st.pending
               /\ Expecting(st, e).aligner.pending = st.aligner.pending
               /\ Expecting(st, e).aligner.cfg = st.aligner.cfg
               /\ Expecting(st, e).aligner.started = st.aligner.started
    BY DEF StreamState, AlignerState
  <2>7. \A k \in DOMAIN s.streams : E(k) \in BOOLEAN
    OBVIOUS
  <2> HIDE DEF Expecting, E
  <2>8. \A k \in DOMAIN s.streams : s.streams[k] \in StreamState
    BY <2>1, StateFields
  <2>10. f \in [1 .. Len(s.streams) -> StreamState]
    BY <2>1, <2>6, <2>7, <2>8
  <2>11. \A k \in DOMAIN s.streams :
            /\ f[k].kind = s.streams[k].kind /\ f[k].enforcer = s.streams[k].enforcer
            /\ f[k].pending = s.streams[k].pending
            /\ f[k].aligner.pending = s.streams[k].aligner.pending
            /\ f[k].aligner.cfg = s.streams[k].aligner.cfg
            /\ f[k].aligner.started = s.streams[k].aligner.started
    BY <2>6, <2>7, <2>8
  <2>12. DOMAIN f = DOMAIN s.streams
    OBVIOUS
  <2> HIDE DEF f
  <2>13. f \in Seq(StreamState) /\ Len(f) = Len(s.streams)
    BY <2>1, <2>10
  <2>14. /\ Owns(t, hand) /\ t.streams = f /\ t.closed = u.closed /\ t.err = u.err
         /\ t.accepted = u.accepted /\ t.out = u.out /\ t.released = u.released /\ t.reported = u.reported
    <3>1. i \in DOMAIN u.streams /\ Len(f) = Len(u.streams)
      BY <2>4, <2>13
    <3>2. \A k \in DOMAIN u.streams :
             /\ f[k].kind = u.streams[k].kind /\ f[k].enforcer = u.streams[k].enforcer
             /\ f[k].pending = u.streams[k].pending
             /\ f[k].aligner.pending = u.streams[k].aligner.pending
             /\ f[k].aligner.cfg = u.streams[k].aligner.cfg
      BY <2>4, <2>11
    <3>3. Owns(u, hand)
      BY <2>4
    <3> QED
      BY <2>2, <2>13, <3>1, <3>2, <3>3, StreamsChanged
  <2> QED
    BY <2>5, <2>11, <2>12, <2>14, SameTraced DEF SameStages
<1> QED
  BY <1>1, <1>2

LEMMA PassesTwice ==
    ASSUME NEW s, NEW u, NEW t, Passes(s, u), Passes(u, t)
    PROVE  Passes(s, t)
BY DEF Passes

LEMMA KnownStill ==
    ASSUME NEW all \in Seq(Packet), NEW p \in Packet, NEW k, NEW x, Known(all, k, x)
    PROVE  Known(Append(all, p), k, x)
<1>1. x.id \in DOMAIN Append(all, p) /\ Append(all, p)[x.id] = all[x.id]
  BY DEF Known
<1> QED
  BY <1>1 DEF Known

LEMMA GenuineStill ==
    ASSUME NEW s, NEW p \in Packet, s.accepted \in Seq(Packet), Genuine(s),
           NEW t, t.streams = s.streams, t.accepted = Append(s.accepted, p)
    PROVE  Genuine(t)
<1>1. ASSUME NEW k \in DOMAIN s.streams
      PROVE  /\ AllKnown(t.accepted, k, s.streams[k].enforcer.buf)
             /\ Awaits(t.accepted, k, s.streams[k].kind, s.streams[k].aligner)
  <2>1. AllKnown(s.accepted, k, s.streams[k].enforcer.buf) /\ Awaits(s.accepted, k, s.streams[k].kind, s.streams[k].aligner)
    BY DEF Genuine
  <2>2. \A x : Known(s.accepted, k, x) => Known(t.accepted, k, x)
    BY KnownStill
  <2> QED
    BY <2>1, <2>2 DEF AllKnown, Awaits
<1> QED
  BY <1>1 DEF Genuine

-----------------------------------------------------------------------------
(* A packet is copied in, and goes through the stages.                     *)
Taking(s, p) == [s EXCEPT !.retained = @ + 1, !.accepted = Append(@, p)]

LEMMA Taken ==
    ASSUME NEW s, NEW hand, Owns(s, hand), NEW p \in Packet, p.id = Len(s.accepted) + 1,
           NEW t, t = Taking(s, p)
    PROVE  /\ Owns(t, <<p>> \o hand) /\ t.accepted = Append(s.accepted, p)
           /\ t.streams = s.streams /\ t.queue = s.queue /\ t.started = s.started /\ t.closed = s.closed
           /\ t.err = s.err /\ t.out = s.out /\ t.released = s.released /\ t.reported = s.reported
<1> DEFINE n == Len(s.accepted)
<1>1. s \in LiveState /\ IsLive(s) /\ hand \in Seq(Packet)
  BY StateShape DEF Owns
<1>2. /\ t.streams = s.streams /\ t.queue = s.queue /\ t.started = s.started /\ t.closed = s.closed
      /\ t.err = s.err /\ t.retained = s.retained + 1 /\ t.accepted = Append(s.accepted, p) /\ t.out = s.out
      /\ t.released = s.released /\ t.reported = s.reported /\ t.fuse = s.fuse
  BY <1>1 DEF IsLive, Taking
<1>3. IsLive(t)
  BY <1>1, ShapeKept DEF Taking
<1>4. /\ s.accepted \in Seq(Packet) /\ n \in Nat /\ s.retained \in Int
      /\ Len(s.released) \in Nat
  BY <1>1, StateFields
<1>5. t.accepted \in Seq(Packet) /\ Len(t.accepted) = n + 1
  BY <1>2, <1>4
<1>6. t.retained \in Int
  BY <1>2, <1>4
<1>7. t \in LiveState
  BY <1>1, <1>2, <1>3, <1>5, <1>6, StateFields, StateOf
<1>8. /\ <<p>> \o hand \in Seq(Packet)
      /\ Ids(<<p>> \o hand) = {p.id} \cup Ids(hand) /\ Len(<<p>> \o hand) = 1 + Len(hand)
  BY <1>1, HandFirst
<1>9. Packets(t) = Packets(s)
  BY <1>2 DEF Packets, Stages, Queued
<1>10. Len(Packets(s)) \in Nat /\ Len(hand) \in Nat
  BY <1>1, PacketsAre
<1> DEFINE a == Len(Packets(s))  b == Len(s.released)  c == Len(hand)  r == s.retained
<1>11. a + b + c = n /\ r + b = n
  BY DEF Owns
<1>12. a \in Nat /\ b \in Nat /\ c \in Nat /\ n \in Nat /\ r \in Int
  BY <1>4, <1>10
<1>13. Ids(Packets(t)) \cup Range(t.released) \cup Ids(<<p>> \o hand) = 1 .. Len(t.accepted)
  <2>1. Ids(Packets(s)) \cup Range(s.released) \cup Ids(hand) = 1 .. n
    BY DEF Owns
  <2>2. 1 .. n + 1 = (1 .. n) \cup {n + 1}
    BY <1>12
  <2> HIDE DEF n
  <2>3. p.id = n + 1
    BY DEF n
  <2> QED
    BY <1>2, <1>5, <1>8, <1>9, <2>1, <2>2, <2>3
<1>14. (r + 1) + b = n + 1 /\ a + b + (1 + c) = n + 1
  <2> HIDE DEF a, b, c, n, r
  <2> QED
    BY <1>11, <1>12
<1>15. OnePending(t)
  BY <1>2 DEF Owns, OnePending
<1>16. Len(Packets(t)) + Len(t.released) + Len(<<p>> \o hand) = Len(t.accepted)
  BY <1>2, <1>5, <1>8, <1>9, <1>14
<1>17. t.retained + Len(t.released) = Len(t.accepted)
  BY <1>2, <1>5, <1>14
<1> QED
  BY <1>2, <1>7, <1>8, <1>13, <1>15, <1>16, <1>17 DEF Owns

LEMMA Accepted ==
    ASSUME NEW s, NEW hand, Owns(s, hand), NEW i \in DOMAIN s.streams, NEW dts \in Int,
           NEW kind \in {"key", "delta", "config"}, NEW dur \in Int, NEW disc \in BOOLEAN,
           NEW t, t = Accept(s, i, dts, kind, dur, disc)
    PROVE  Owns(t, hand) /\ Passes(s, t)
<1> DEFINE p == [id |-> Len(s.accepted) + 1, stream |-> i, dts |-> dts, kind |-> kind, dur |-> dur, disc |-> disc]
           u == Taking(s, p)
<1>1. /\ s \in LiveState /\ Len(s.accepted) \in Nat /\ i \in Nat /\ hand \in Seq(Packet)
  <2>1. s \in LiveState /\ hand \in Seq(Packet)
    BY DEF Owns
  <2>2. DOMAIN s.streams = 1 .. Len(s.streams) /\ Len(s.accepted) \in Nat
    BY <2>1, StateFields
  <2> QED
    BY <2>1, <2>2
<1>2. p \in Packet /\ p.id = Len(s.accepted) + 1 /\ p.stream = i
  BY <1>1 DEF Packet
<1>3. t = s \/ t = ProcessEnforcer(u, i, p)
  BY DEF Accept, Taking
<1>4. u = Taking(s, p)
  OBVIOUS
<1> HIDE DEF p, u
<1>5. /\ Owns(u, <<p>> \o hand) /\ u.streams = s.streams /\ u.accepted = Append(s.accepted, p)
      /\ u.closed = s.closed /\ u.err = s.err /\ u.out = s.out /\ u.released = s.released
      /\ u.reported = s.reported
  BY <1>2, <1>4, Taken
<1>5a. s.accepted \in Seq(Packet)
  BY <1>1, StateFields
<1>6. CASE t = ProcessEnforcer(u, i, p)
  <2>1. Owns(t, hand) /\ OnlyEnforces(u, t, i) /\ Hands(u, i, <<p>>, t)
    BY <1>1, <1>2, <1>5, <1>6, Enforced
  <2>2. ASSUME Traced(s)
        PROVE  Traced(t)
    <3>1. Genuine(u)
      BY <1>2, <1>5, <1>5a, <2>2, GenuineStill DEF Traced
    <3>2. Known(u.accepted, i, p)
      <4>1. p.id \in DOMAIN Append(s.accepted, p) /\ Append(s.accepted, p)[p.id] = p
        BY <1>2, <1>5a
      <4> QED
        BY <1>2, <1>5, <4>1 DEF Known
    <3>3. AllKnown(u.accepted, i, <<p>>)
      <4>1. Range(<<p>>) = {p}
        BY <1>2, RangeOne
      <4> QED
        BY <3>2, <4>1 DEF AllKnown
    <3>4. Genuine(t)
      BY <2>1, <3>1, <3>3 DEF Hands
    <3>5. Clean(u)
      BY <1>5, <2>2 DEF Traced, Clean, Tally
    <3>6. Clean(t)
      BY <2>1, <3>5, CountedClean DEF OnlyEnforces
    <3> QED
      BY <3>4, <3>6 DEF Traced
  <2>3. t.closed = s.closed /\ DOMAIN t.streams = DOMAIN s.streams
    BY <1>5, <2>1 DEF OnlyEnforces
  <2> QED
    BY <2>1, <2>2, <2>3 DEF Passes
<1>7. Passes(s, s)
  BY DEF Passes
<1> QED
  BY <1>3, <1>6, <1>7

-----------------------------------------------------------------------------
(* The frames of a chunk are accepted one after another.                   *)
FrameNext(i, t, dts) ==
    IF t.err # "none" THEN t ELSE Accept(t, i, dts, "delta", FrameDuration, FALSE)

FramesSoFar(i, s, stamps, n, t) ==
    /\ Passes(s, t)
    /\ \A hand \in Seq(Packet) : Owns(s, hand) => Owns(t, hand)

Framing == INSTANCE FoldLemmas WITH Op <- FrameNext, Inv <- FramesSoFar

LEMMA FramesAccepted ==
    ASSUME NEW s, NEW hand \in Seq(Packet), Owns(s, hand), NEW i \in DOMAIN s.streams,
           NEW tick \in Int, NEW n \in Nat, NEW t, t = AcceptFrames(s, i, tick, n)
    PROVE  Owns(t, hand) /\ Passes(s, t)
<1> DEFINE stamps == [j \in 1 .. n |-> tick * Tick + (j - 1) * FrameDuration]
<1>1. t = Framing!Fold(i, s, stamps)
  BY DEF AcceptFrames, Framing!Fold, FrameNext, FoldLeft, MapThenFoldSet, Max, Framing!Latest
<1>2. FramesSoFar(i, s, stamps, 0, s)
  BY DEF FramesSoFar, Passes
<1>3. stamps \in Seq(Int)
  <2>1. \A j \in 1 .. n : tick * Tick + (j - 1) * FrameDuration \in Int
    BY LiveAssumption
  <2> QED
    BY <2>1
<1> HIDE DEF stamps
<1>4. ASSUME NEW m \in 1 .. Len(stamps), NEW u, FramesSoFar(i, s, stamps, m - 1, u)
      PROVE  FramesSoFar(i, s, stamps, m, FrameNext(i, u, stamps[m]))
  <2> DEFINE v == FrameNext(i, u, stamps[m])  dts == stamps[m]
  <2>1. dts \in Int /\ FrameDuration \in Int
    BY <1>3, LiveAssumption
  <2>2. v = u \/ v = Accept(u, i, dts, "delta", FrameDuration, FALSE)
    BY DEF FrameNext
  <2>3. Passes(s, u) /\ \A h \in Seq(Packet) : Owns(s, h) => Owns(u, h)
    BY <1>4 DEF FramesSoFar
  <2> HIDE DEF v, dts
  <2>4. ASSUME NEW h \in Seq(Packet), Owns(s, h)
        PROVE  Owns(v, h) /\ Passes(s, v)
    <3>1. Owns(u, h) /\ i \in DOMAIN u.streams
      BY <2>3, <2>4 DEF Passes
    <3>2. CASE v = u
      BY <2>3, <3>1, <3>2
    <3>3. CASE v = Accept(u, i, dts, "delta", FrameDuration, FALSE)
      <4> DEFINE kind == "delta"  disc == FALSE
      <4>1. kind \in {"key", "delta", "config"} /\ disc \in BOOLEAN
        OBVIOUS
      <4>2. v = Accept(u, i, dts, kind, FrameDuration, disc)
        BY <3>3
      <4> HIDE DEF kind, disc
      <4>3. Owns(v, h) /\ Passes(u, v)
        BY <2>1, <3>1, <4>1, <4>2, Accepted
      <4> QED
        BY <2>3, <4>3, PassesTwice
    <3> QED
      BY <2>2, <3>2, <3>3
  <2>5. Passes(s, v)
    BY <2>4
  <2> QED
    BY <2>4, <2>5 DEF FramesSoFar, v
<1>5. FramesSoFar(i, s, stamps, Len(stamps), Framing!Fold(i, s, stamps))
  BY <1>2, <1>3, <1>4, Framing!FoldInvariant, NaturalsOrdered
<1> QED
  BY <1>1, <1>5 DEF FramesSoFar

-----------------------------------------------------------------------------
(* Close works through the streams in turn.                                *)
Numbers(s) == [i \in DOMAIN s.streams |-> i]

LEMMA NumbersAre ==
    ASSUME NEW s \in LiveState
    PROVE  /\ Numbers(s) \in Seq(Nat) /\ Len(Numbers(s)) = Len(s.streams)
           /\ \A k \in 1 .. Len(s.streams) : Numbers(s)[k] = k
<1>1. DOMAIN s.streams = 1 .. Len(s.streams) /\ Len(s.streams) \in Nat
  BY StateFields
<1> DEFINE n == Len(s.streams)
<1>2. Numbers(s) = [i \in 1 .. n |-> i]
  BY <1>1 DEF Numbers
<1> HIDE DEF n
<1>3. n \in Nat
  BY <1>1 DEF n
<1>4. Numbers(s) \in Seq(Nat) /\ Len(Numbers(s)) = n /\ \A k \in 1 .. n : Numbers(s)[k] = k
  BY <1>2, <1>3
<1> QED
  BY <1>4 DEF n

\* What Close leaves alone whatever it flushes.
Closes(s, t) ==
    /\ t.accepted = s.accepted /\ t.started = s.started /\ t.closed = s.closed
    /\ Len(t.streams) = Len(s.streams) /\ DOMAIN t.streams = DOMAIN s.streams
    /\ \A k \in DOMAIN s.streams : t.streams[k].kind = s.streams[k].kind
    /\ s.err # "none" => t.err = s.err

LEMMA ClosesTwice ==
    ASSUME NEW s, NEW u, NEW t, Closes(s, u), Closes(u, t)
    PROVE  Closes(s, t)
BY DEF Closes

EnforcerNext(c, t, i) == FlushEnforcer(t, i)

EnforcersSoFar(c, s, numbers, n, t) ==
    /\ Closes(s, t) /\ Counted(s, t)
    /\ Genuine(s) => Genuine(t)
    /\ \A hand \in Seq(Packet) : Owns(s, hand) => Owns(t, hand)
    /\ \A k \in 1 .. n : t.streams[k].enforcer.buf = <<>>

Enforcing == INSTANCE FoldLemmas WITH Op <- EnforcerNext, Inv <- EnforcersSoFar

\* Once every Enforcer is flushed, none holds a packet.
LEMMA EnforcersFlushed ==
    ASSUME NEW s, NEW hand \in Seq(Packet), Owns(s, hand), NEW t, t = FlushEnforcers(s)
    PROVE  /\ Owns(t, hand) /\ Closes(s, t) /\ Counted(s, t)
           /\ Genuine(s) => Genuine(t)
           /\ \A k \in DOMAIN t.streams : t.streams[k].enforcer.buf = <<>>
<1> DEFINE numbers == Numbers(s)
<1>1. s \in LiveState /\ DOMAIN s.streams = 1 .. Len(s.streams) /\ Len(s.streams) \in Nat
  BY StateFields DEF Owns
<1>2. /\ numbers \in Seq(Nat) /\ Len(numbers) = Len(s.streams)
      /\ \A k \in 1 .. Len(s.streams) : numbers[k] = k
  BY <1>1, NumbersAre
<1>3. t = Enforcing!Fold(0, s, numbers)
  BY DEF FlushEnforcers, ForEachStream, Numbers, Enforcing!Fold, EnforcerNext, FoldLeft, MapThenFoldSet, Max, Enforcing!Latest
<1> HIDE DEF numbers
<1>4. EnforcersSoFar(0, s, numbers, 0, s)
  <2>1. \A k \in 1 .. 0 : FALSE
    OBVIOUS
  <2>2. Closes(s, s) /\ Counted(s, s)
    BY DEF Closes, Counted
  <2> QED
    BY <2>1, <2>2 DEF EnforcersSoFar
<1>5. ASSUME NEW n \in 1 .. Len(numbers), NEW u, EnforcersSoFar(0, s, numbers, n - 1, u)
      PROVE  EnforcersSoFar(0, s, numbers, n, EnforcerNext(0, u, numbers[n]))
  <2> DEFINE v == EnforcerNext(0, u, numbers[n])
  <2>1. numbers[n] = n /\ n \in DOMAIN s.streams
    BY <1>1, <1>2
  <2>2. v = FlushEnforcer(u, n)
    BY <2>1 DEF EnforcerNext
  <2>3. /\ Closes(s, u) /\ Counted(s, u) /\ (Genuine(s) => Genuine(u)) /\ n \in DOMAIN u.streams
        /\ \A h \in Seq(Packet) : Owns(s, h) => Owns(u, h)
        /\ \A k \in 1 .. n - 1 : u.streams[k].enforcer.buf = <<>>
    BY <1>5, <2>1 DEF EnforcersSoFar, Closes
  <2> HIDE DEF v
  <2>4. ASSUME NEW h \in Seq(Packet), Owns(s, h)
        PROVE  /\ Owns(v, h) /\ OnlyEnforces(u, v, n) /\ v.streams[n].enforcer.buf = <<>>
               /\ (Genuine(u) => Genuine(v))
    <3>1. Owns(u, h)
      BY <2>3, <2>4
    <3> QED
      BY <2>2, <2>3, <3>1, EnforcerFlushed
  <2>5. OnlyEnforces(u, v, n) /\ v.streams[n].enforcer.buf = <<>> /\ (Genuine(u) => Genuine(v))
    BY <2>4
  <2>6. Closes(u, v) /\ Counted(u, v) /\ \A k \in DOMAIN u.streams : k # n => v.streams[k].enforcer = u.streams[k].enforcer
    BY <2>5 DEF OnlyEnforces, Closes
  <2>7. Closes(s, v)
    BY <2>3, <2>6, ClosesTwice
  <2>8. Counted(s, v)
    BY <2>3, <2>6 DEF Counted, Closes
  <2>9. ASSUME NEW k \in 1 .. n
        PROVE  v.streams[k].enforcer.buf = <<>>
    <3>1. CASE k = n
      BY <2>5, <3>1
    <3>2. CASE k # n
      <4>1. k \in 1 .. n - 1 /\ k \in DOMAIN u.streams
        BY <1>1, <2>1, <2>3, <3>2 DEF Closes
      <4> QED
        BY <2>3, <2>6, <3>2, <4>1
    <3> QED
      BY <3>1, <3>2
  <2> QED
    BY <2>3, <2>4, <2>5, <2>7, <2>8, <2>9 DEF EnforcersSoFar, v
<1>6. EnforcersSoFar(0, s, numbers, Len(numbers), Enforcing!Fold(0, s, numbers))
  BY <1>2, <1>4, <1>5, Enforcing!FoldInvariant, NaturalsOrdered
<1>7. EnforcersSoFar(0, s, numbers, Len(s.streams), t)
  BY <1>2, <1>3, <1>6
<1> QED
  BY <1>1, <1>7 DEF EnforcersSoFar, Closes

-----------------------------------------------------------------------------
(* Then the Aligners.                                                      *)
AlignerNext(c, t, i) == FlushAligner(t, i)

\* The decoder configurations in the Aligners of the first n streams.
CfgIds(s, n) == UNION {Ids(s.streams[k].aligner.cfg) : k \in 1 .. n}

AlignersSoFar(c, s, numbers, n, t) ==
    /\ Framed(s, t) /\ Tally(s) \subseteq Tally(t)
    /\ t.err = "none" => Range(t.released) \subseteq Range(s.released) \cup Tally(t) \cup CfgIds(s, n)
    /\ \A hand \in Seq(Packet) : Owns(s, hand) => Owns(t, hand)
    /\ \A k \in DOMAIN s.streams : k > n => t.streams[k] = s.streams[k]
    /\ \A k \in 1 .. n :
          /\ t.streams[k].aligner.pending = <<>> /\ t.streams[k].aligner.cfg = <<>>
          /\ t.streams[k].aligner.started = s.streams[k].aligner.started \/ s.streams[k].aligner.pending # <<>>

AligningAll == INSTANCE FoldLemmas WITH Op <- AlignerNext, Inv <- AlignersSoFar

\* Once every Aligner is flushed, none holds a packet.
LEMMA AlignersFlushed ==
    ASSUME NEW s, NEW hand \in Seq(Packet), Owns(s, hand), NEW t, t = FlushAligners(s)
    PROVE  Owns(t, hand) /\ AlignersSoFar(0, s, Numbers(s), Len(s.streams), t)
<1> DEFINE numbers == Numbers(s)
<1>1. s \in LiveState /\ DOMAIN s.streams = 1 .. Len(s.streams) /\ Len(s.streams) \in Nat
  BY StateFields DEF Owns
<1>2. /\ numbers \in Seq(Nat) /\ Len(numbers) = Len(s.streams)
      /\ \A k \in 1 .. Len(s.streams) : numbers[k] = k
  BY <1>1, NumbersAre
<1>3. t = AligningAll!Fold(0, s, numbers)
  BY DEF FlushAligners, ForEachStream, Numbers, AligningAll!Fold, AlignerNext, FoldLeft, MapThenFoldSet, Max, AligningAll!Latest
<1> HIDE DEF numbers
<1>4. AlignersSoFar(0, s, numbers, 0, s)
  BY DEF Framed, AlignersSoFar
<1>5. ASSUME NEW n \in 1 .. Len(numbers), NEW u, AlignersSoFar(0, s, numbers, n - 1, u)
      PROVE  AlignersSoFar(0, s, numbers, n, AlignerNext(0, u, numbers[n]))
  <2> DEFINE v == AlignerNext(0, u, numbers[n])
  <2>1. numbers[n] = n /\ n \in DOMAIN s.streams /\ n \in Nat /\ n > n - 1
    BY <1>1, <1>2
  <2>2. v = FlushAligner(u, n)
    BY <2>1 DEF AlignerNext
  <2>3. /\ Framed(s, u) /\ Tally(s) \subseteq Tally(u) /\ n \in DOMAIN u.streams
        /\ u.err = "none" => Range(u.released) \subseteq Range(s.released) \cup Tally(u) \cup CfgIds(s, n - 1)
        /\ \A h \in Seq(Packet) : Owns(s, h) => Owns(u, h)
        /\ u.streams[n] = s.streams[n]
    BY <1>5, <2>1 DEF AlignersSoFar, Framed
  <2> HIDE DEF v
  <2>4. ASSUME NEW h \in Seq(Packet), Owns(s, h)
        PROVE  Owns(v, h) /\ FlushesAligner(u, v, n)
    BY <2>2, <2>3, <2>4, AlignerFlushed
  <2>6. /\ Framed(u, v) /\ Tally(u) \subseteq Tally(v)
        /\ v.err = "none" =>
              Range(v.released) \subseteq Range(u.released) \cup Tally(v) \cup Ids(s.streams[n].aligner.cfg)
        /\ \A k \in DOMAIN u.streams : k # n => v.streams[k] = u.streams[k]
        /\ v.streams[n].aligner.pending = <<>> /\ v.streams[n].aligner.cfg = <<>>
        /\ v.streams[n].aligner.started = s.streams[n].aligner.started \/ s.streams[n].aligner.pending # <<>>
    BY <2>3, <2>4 DEF FlushesAligner
  <2>9. ASSUME NEW k \in DOMAIN s.streams, k > n
        PROVE  v.streams[k] = s.streams[k]
    BY <1>1, <1>5, <2>1, <2>3, <2>6, <2>9 DEF Framed, AlignersSoFar
  <2>10. ASSUME NEW k \in 1 .. n
         PROVE  /\ v.streams[k].aligner.pending = <<>> /\ v.streams[k].aligner.cfg = <<>>
                /\ v.streams[k].aligner.started = s.streams[k].aligner.started \/ s.streams[k].aligner.pending # <<>>
    <3>1. CASE k = n
      BY <2>6, <3>1
    <3>2. CASE k # n
      <4>1. k \in 1 .. n - 1 /\ k \in DOMAIN u.streams
        BY <1>1, <2>1, <2>3, <3>2 DEF Framed
      <4> QED
        BY <1>5, <2>6, <3>2, <4>1 DEF AlignersSoFar
    <3> QED
      BY <3>1, <3>2
  <2> QED
    BY <2>1, <2>3, <2>4, <2>6, <2>9, <2>10, FramedTwice DEF AlignersSoFar, v, CfgIds, Framed
<1>6. AlignersSoFar(0, s, numbers, Len(numbers), AligningAll!Fold(0, s, numbers))
  BY <1>2, <1>4, <1>5, AligningAll!FoldInvariant, NaturalsOrdered
<1> QED
  BY <1>2, <1>3, <1>6 DEF numbers, AlignersSoFar

-----------------------------------------------------------------------------
(* Then the packets held back for their durations.                         *)
QueuesPending(s, t, i) ==
    /\ t.accepted = s.accepted /\ t.started = s.started /\ t.closed = s.closed
    /\ Len(t.streams) = Len(s.streams) /\ DOMAIN t.streams = DOMAIN s.streams
    /\ t.released = s.released /\ t.reported = s.reported /\ t.out = s.out
    /\ (s.closed => t.err = s.err)
    /\ \A k \in DOMAIN s.streams : k # i => t.streams[k] = s.streams[k]
    /\ t.streams[i].kind = s.streams[i].kind /\ t.streams[i].enforcer = s.streams[i].enforcer
    /\ t.streams[i].aligner = s.streams[i].aligner /\ t.streams[i].pending = <<>>

PendingEmptied(st) == [st EXCEPT !.pending = <<>>]

\* The packet p is taken out of a stream that held it back.
LastTaken(old, st, p) ==
    /\ old.pending = <<p>> /\ st.pending = <<>>
    /\ st.aligner = old.aligner /\ st.enforcer = old.enforcer /\ st.kind = old.kind

TakesLast(s, t, i, hand, u, p, duration) ==
    /\ p \in Packet /\ duration \in Int
    /\ Owns(u, <<p>> \o hand) /\ InStream(s, u, i) /\ LastTaken(s.streams[i], u.streams[i], p)
    /\ t = Enqueue(u, p, duration)

LEMMA LastQueued ==
    ASSUME NEW s, NEW hand \in Seq(Packet), Owns(s, hand), NEW i \in DOMAIN s.streams,
           s.streams[i].pending # <<>>, NEW t, t = QueuePending(s, i)
    PROVE  \E u, p, duration : TakesLast(s, t, i, hand, u, p, duration)
<1> DEFINE old == s.streams[i]
           prev == old.pending[1]
           duration == FirstPositive(<<prev.dur, old.lastDuration, DefaultPacket>>)
           st == PendingGone(old, old.lastDuration)
           u == WithStream(s, i, st)
<1>1. s \in LiveState /\ old \in StreamState
  BY StateFields DEF Owns
<1>4. t = Enqueue(u, prev, duration)
  BY <1>1 DEF QueuePending, WithStream, PendingEmptied, PendingGone, StreamState
<1> DEFINE d == old.lastDuration
<1>5. d \in Int
  BY <1>1, StreamFields
<1>6. /\ u = WithStream(s, i, st) /\ st = PendingGone(s.streams[i], d) /\ prev = s.streams[i].pending[1]
      /\ s.streams[i].pending # <<>> /\ old = s.streams[i]
  OBVIOUS
<1> HIDE DEF u, st, prev, d
<1>7. /\ prev \in Packet /\ s.streams[i].pending = <<prev>>
      /\ st.aligner = s.streams[i].aligner /\ st.enforcer = s.streams[i].enforcer
      /\ st.kind = s.streams[i].kind /\ st.pending = <<>>
      /\ Owns(u, <<prev>> \o hand) /\ InStream(s, u, i) /\ u.streams[i] = st
  BY <1>5, <1>6, PendingTaken
<1>8. duration \in Int
  <2>2. <<prev.dur, old.lastDuration, DefaultPacket>> \in Seq(Int)
    BY <1>5, <1>7, LiveAssumption DEF Packet, d
  <2> QED
    BY <2>2, FirstPositiveIsInt
<1> HIDE DEF duration, old
<1> QED
  BY <1>4, <1>7, <1>8 DEF TakesLast, LastTaken

LEMMA OneQueued ==
    ASSUME NEW s, NEW hand \in Seq(Packet), Owns(s, hand), NEW i \in DOMAIN s.streams,
           NEW t, t = QueuePending(s, i)
    PROVE  Owns(t, hand) /\ QueuesPending(s, t, i)
<1>1. CASE s.streams[i].pending = <<>>
  BY <1>1 DEF QueuePending, QueuesPending
<1>2. CASE s.streams[i].pending # <<>>
  <2>0. PICK u, p, duration : TakesLast(s, t, i, hand, u, p, duration)
    BY <1>2, LastQueued
  <2>1. /\ p \in Packet /\ duration \in Int
        /\ Owns(u, <<p>> \o hand) /\ InStream(s, u, i) /\ LastTaken(s.streams[i], u.streams[i], p)
        /\ t = Enqueue(u, p, duration)
    BY <2>0 DEF TakesLast
  <2>3. Owns(t, hand) /\ Queues(u, t)
    BY <2>1, Enqueued DEF InStream
  <2> QED
    BY <2>1, <2>3 DEF Queues, InStream, LastTaken, QueuesPending
<1> QED
  BY <1>1, <1>2

PendingNext(c, t, i) == QueuePending(t, i)

\* Every packet held back for its duration is queued; nothing else happens.
QueuesAll(s, t) ==
    /\ t.accepted = s.accepted /\ t.started = s.started /\ t.closed = s.closed
    /\ Len(t.streams) = Len(s.streams) /\ DOMAIN t.streams = DOMAIN s.streams
    /\ t.released = s.released /\ t.reported = s.reported /\ t.out = s.out
    /\ (s.closed => t.err = s.err)
    /\ \A k \in DOMAIN s.streams : /\ t.streams[k].kind = s.streams[k].kind
                                   /\ t.streams[k].enforcer = s.streams[k].enforcer
                                   /\ t.streams[k].aligner = s.streams[k].aligner

PendingSoFar(c, s, numbers, n, t) ==
    /\ QueuesAll(s, t)
    /\ \A hand \in Seq(Packet) : Owns(s, hand) => Owns(t, hand)
    /\ \A k \in 1 .. n : t.streams[k].pending = <<>>

Pending == INSTANCE FoldLemmas WITH Op <- PendingNext, Inv <- PendingSoFar

LEMMA AllQueued ==
    ASSUME NEW s, NEW hand \in Seq(Packet), Owns(s, hand), NEW t, t = QueueAllPending(s)
    PROVE  Owns(t, hand) /\ QueuesAll(s, t) /\ \A k \in DOMAIN t.streams : t.streams[k].pending = <<>>
<1> DEFINE numbers == Numbers(s)
<1>1. s \in LiveState /\ DOMAIN s.streams = 1 .. Len(s.streams) /\ Len(s.streams) \in Nat
  BY StateFields DEF Owns
<1>2. /\ numbers \in Seq(Nat) /\ Len(numbers) = Len(s.streams)
      /\ \A k \in 1 .. Len(s.streams) : numbers[k] = k
  BY <1>1, NumbersAre
<1>3. t = Pending!Fold(0, s, numbers)
  BY DEF QueueAllPending, ForEachStream, Numbers, Pending!Fold, PendingNext, FoldLeft, MapThenFoldSet, Max, Pending!Latest
<1> HIDE DEF numbers
<1>4. PendingSoFar(0, s, numbers, 0, s)
  BY DEF QueuesAll, PendingSoFar
<1>5. ASSUME NEW n \in 1 .. Len(numbers), NEW u, PendingSoFar(0, s, numbers, n - 1, u)
      PROVE  PendingSoFar(0, s, numbers, n, PendingNext(0, u, numbers[n]))
  <2> DEFINE v == PendingNext(0, u, numbers[n])
  <2>1. numbers[n] = n /\ n \in DOMAIN s.streams
    BY <1>1, <1>2
  <2>2. v = QueuePending(u, n)
    BY <2>1 DEF PendingNext
  <2>3. /\ QueuesAll(s, u) /\ n \in DOMAIN u.streams
        /\ \A h \in Seq(Packet) : Owns(s, h) => Owns(u, h)
        /\ \A k \in 1 .. n - 1 : u.streams[k].pending = <<>>
    BY <1>5, <2>1 DEF PendingSoFar, QueuesAll
  <2> HIDE DEF v
  <2>4. ASSUME NEW h \in Seq(Packet), Owns(s, h)
        PROVE  Owns(v, h) /\ QueuesPending(u, v, n)
    BY <2>2, <2>3, <2>4, OneQueued
  <2>5. QueuesPending(u, v, n)
    BY <2>4
  <2>8. ASSUME NEW k \in 1 .. n
        PROVE  v.streams[k].pending = <<>>
    <3>1. CASE k = n
      BY <2>5, <3>1 DEF QueuesPending
    <3>2. CASE k # n
      <4>1. k \in 1 .. n - 1 /\ k \in DOMAIN u.streams
        BY <1>1, <2>1, <2>3, <3>2 DEF QueuesAll
      <4>2. v.streams[k] = u.streams[k]
        BY <2>5, <3>2, <4>1 DEF QueuesPending
      <4> QED
        BY <2>3, <4>1, <4>2
    <3> QED
      BY <3>1, <3>2
  <2> QED
    BY <2>3, <2>4, <2>5, <2>8 DEF PendingSoFar, v, QueuesAll, QueuesPending
<1>6. PendingSoFar(0, s, numbers, Len(numbers), Pending!Fold(0, s, numbers))
  BY <1>2, <1>4, <1>5, Pending!FoldInvariant, NaturalsOrdered
<1> QED
  BY <1>1, <1>2, <1>3, <1>6 DEF PendingSoFar, QueuesAll

\* And the queue is written: nothing is left in it unless a write fails.
DrainsStreams(s, t) ==
    \A k \in DOMAIN t.streams :
        /\ t.streams[k].pending = <<>>
        /\ t.streams[k].enforcer = s.streams[k].enforcer /\ t.streams[k].aligner = s.streams[k].aligner

LEMMA Drained ==
    ASSUME NEW s, NEW hand \in Seq(Packet), Owns(s, hand), s.closed, NEW t, t = DrainQueue(s)
    PROVE  /\ Owns(t, hand) /\ Closes(s, t) /\ Counted(s, t)
           /\ t.err = "none" => t.queue = <<>>
           /\ DrainsStreams(s, t)
<1> DEFINE r == QueueAllPending(s)
<1>1. r = QueueAllPending(s) /\ t = WriteFirst(r, Len(r.queue))
  BY DEF DrainQueue
<1> HIDE DEF r
<1>2. Owns(r, hand) /\ QueuesAll(s, r) /\ \A k \in DOMAIN r.streams : r.streams[k].pending = <<>>
  BY <1>1, AllQueued
<1>3. r.queue \in Seq(Entry) /\ Len(r.queue) \in Nat
  BY <1>2, StateFields DEF Owns
<1> DEFINE n == Len(r.queue)
<1>4. n \in 0 .. Len(r.queue) /\ t = WriteFirst(r, n) /\ SubSeq(r.queue, n + 1, Len(r.queue)) = <<>>
  BY <1>1, <1>3
<1> HIDE DEF n
<1>5. /\ Owns(t, hand) /\ OnlyWrites(r, t)
      /\ t.err = "none" => t.queue = SubSeq(r.queue, n + 1, Len(r.queue))
  BY <1>2, <1>4, QueueWritten
<1>6. t.streams = r.streams /\ Counted(r, t) /\ Framed(r, t)
  BY <1>5 DEF OnlyWrites, Kept
<1>8. Counted(s, t)
  <2>1. Tally(r) = Tally(s) /\ r.released = s.released
    BY <1>2 DEF QueuesAll, Tally
  <2> QED
    BY <1>2, <1>6, <2>1 DEF Counted, QueuesAll
<1> QED
  BY <1>2, <1>4, <1>5, <1>6, <1>8 DEF Closes, QueuesAll, Framed, DrainsStreams

-----------------------------------------------------------------------------
(* discardBuffered.                                                        *)

\* Nothing is left in any stage of stream k.
Empty(s, k) ==
    /\ s.streams[k].enforcer.buf = <<>> /\ s.streams[k].aligner.pending = <<>>
    /\ s.streams[k].aligner.cfg = <<>> /\ s.streams[k].pending = <<>>

\* One stream is emptied; what the others hold stays.
Empties(s, t, i) ==
    /\ Closes(s, t) /\ Empty(t, i)
    /\ \A k \in DOMAIN s.streams :
          k # i => /\ t.streams[k].enforcer = s.streams[k].enforcer
                   /\ t.streams[k].aligner.pending = s.streams[k].aligner.pending
                   /\ t.streams[k].aligner.cfg = s.streams[k].aligner.cfg
                   /\ t.streams[k].pending = s.streams[k].pending

LEMMA PendingGivenUp ==
    ASSUME NEW s, NEW hand \in Seq(Packet), Owns(s, hand), NEW i \in DOMAIN s.streams,
           NEW t, t = WithStream(s, i, PendingEmptied(s.streams[i]))
    PROVE  /\ s.streams[i].pending \in Seq(Packet) /\ Owns(t, s.streams[i].pending \o hand) /\ InStream(s, t, i)
           /\ t.streams[i].kind = s.streams[i].kind /\ t.streams[i].enforcer = s.streams[i].enforcer
           /\ t.streams[i].aligner = s.streams[i].aligner /\ t.streams[i].pending = <<>>
<1> DEFINE old == s.streams[i]
           st == PendingEmptied(old)
           left == old.pending \o hand
<1>1. s \in LiveState /\ old \in StreamState
  BY StateFields DEF Owns
<1>2. /\ old.enforcer.buf \in Seq(Packet) /\ old.aligner.pending \in Seq(Packet)
      /\ old.aligner.cfg \in Seq(Packet) /\ old.pending \in Seq(Packet)
  BY <1>1, StreamFields
<1>3. t = WithStream(s, i, st)
  OBVIOUS
<1>4. /\ st \in StreamState /\ st.enforcer = old.enforcer /\ st.aligner = old.aligner
      /\ st.kind = old.kind /\ st.pending = <<>>
  <2>1. <<>> \in Seq(Packet)
    OBVIOUS
  <2> HIDE DEF old
  <2> QED
    BY <1>1, <2>1 DEF PendingEmptied, StreamState
<1> HIDE DEF st
<1>5. left \in Seq(Packet) /\ Ids(left) = Ids(old.pending) \cup Ids(hand) /\ Len(left) = Len(old.pending) + Len(hand)
  BY <1>2, IdsConcat
<1> HIDE DEF left
<1>6. StageIds(st) \cup Ids(left) = StageIds(s.streams[i]) \cup Ids(hand)
  BY <1>4, <1>5, IdsEmpty DEF StageIds
<1>7. StageSize(st) + Len(left) = StageSize(s.streams[i]) + Len(hand)
  <2>1. /\ Len(old.enforcer.buf) \in Nat /\ Len(old.aligner.pending) \in Nat /\ Len(old.aligner.cfg) \in Nat
        /\ Len(old.pending) \in Nat
    <3> HIDE DEF old
    <3> QED
      BY <1>2
  <2>2. Len(hand) \in Nat
    OBVIOUS
  <2> DEFINE x == Len(old.aligner.pending)  y == Len(old.aligner.cfg)  z == Len(old.pending)  w == Len(old.enforcer.buf)
             h == Len(hand)
  <2>3. StageSize(s.streams[i]) = w + x + y + z
    BY DEF StageSize
  <2>4. StageSize(st) = w + x + y + 0
    BY <1>4, RangeEmpty DEF StageSize
  <2>5. Len(left) = z + h /\ x \in Nat /\ y \in Nat /\ z \in Nat /\ w \in Nat /\ h \in Nat
    BY <1>5, <2>1, <2>2
  <2> HIDE DEF x, y, z, w, h
  <2> QED
    BY <2>3, <2>4, <2>5 DEF h
<1>8. Owns(t, left) /\ InStream(s, t, i)
  <2>1. Len(st.pending) <= 1
    BY <1>4, RangeEmpty
  <2>2. st \in StreamState /\ left \in Seq(Packet)
    BY <1>4, <1>5
  <2> HIDE DEF old
  <2> QED
    BY <1>3, <1>6, <1>7, <2>1, <2>2, MovedInStream
<1> QED
  BY <1>1, <1>2, <1>3, <1>4, <1>8, StreamIs DEF left

LEMMA OneDiscarded ==
    ASSUME NEW s, NEW hand \in Seq(Packet), Owns(s, hand), NEW i \in DOMAIN s.streams,
           NEW t, t = DiscardStream(s, i)
    PROVE  Owns(t, hand) /\ Empties(s, t, i)
<1> DEFINE u == FlushEnforcer(s, i)
           r == FlushAligner(u, i)
           v == WithStream(r, i, PendingEmptied(r.streams[i]))
           held == r.streams[i].pending
<1>1. t = ReleaseAll(v, held)
  BY DEF WithStream, PendingEmptied, DiscardStream
<1>2. u = FlushEnforcer(s, i) /\ r = FlushAligner(u, i) /\ v = WithStream(r, i, PendingEmptied(r.streams[i]))
  OBVIOUS
<1> HIDE DEF u, r, v
<1>3. Owns(u, hand) /\ OnlyEnforces(s, u, i) /\ u.streams[i].enforcer.buf = <<>>
  BY <1>2, EnforcerFlushed
<1>4. i \in DOMAIN u.streams
  BY <1>3 DEF OnlyEnforces
<1>5. Owns(r, hand) /\ FlushesAligner(u, r, i)
  BY <1>2, <1>3, <1>4, AlignerFlushed
<1>7. /\ held \in Seq(Packet) /\ Owns(v, held \o hand) /\ InStream(r, v, i)
      /\ v.streams[i].kind = r.streams[i].kind /\ v.streams[i].enforcer = r.streams[i].enforcer
      /\ v.streams[i].aligner = r.streams[i].aligner /\ v.streams[i].pending = <<>>
  BY <1>2, <1>4, <1>5, PendingGivenUp DEF FlushesAligner, Framed
<1> HIDE DEF held
<1>8. Owns(t, hand) /\ Releases(v, t, Ids(held))
  BY <1>1, <1>7, AllReleased
<1>9. Closes(s, u)
  BY <1>3 DEF OnlyEnforces, Closes
<1>10. Closes(u, r)
  BY <1>5 DEF FlushesAligner, Framed, Closes
<1>12. Closes(s, t)
  BY <1>7, <1>8, <1>9, <1>10, ClosesTwice DEF InStream, Releases, Closes
<1>14. ASSUME NEW k \in DOMAIN s.streams, k # i
       PROVE  /\ t.streams[k].enforcer = s.streams[k].enforcer
              /\ t.streams[k].aligner.pending = s.streams[k].aligner.pending
              /\ t.streams[k].aligner.cfg = s.streams[k].aligner.cfg
              /\ t.streams[k].pending = s.streams[k].pending
  BY <1>3, <1>5, <1>7, <1>8, <1>9, <1>10, <1>14 DEF Closes, InStream, Releases, FlushesAligner, OnlyEnforces
<1> QED
  BY <1>3, <1>4, <1>5, <1>7, <1>8, <1>12, <1>14 DEF Empties, FlushesAligner, Framed, Releases, Empty

DiscardNext(c, t, i) == DiscardStream(t, i)

DiscardsSoFar(c, s, numbers, n, t) ==
    /\ Closes(s, t)
    /\ \A hand \in Seq(Packet) : Owns(s, hand) => Owns(t, hand)
    /\ \A k \in 1 .. n : Empty(t, k)

Discarding == INSTANCE FoldLemmas WITH Op <- DiscardNext, Inv <- DiscardsSoFar

LEMMA StreamsDiscarded ==
    ASSUME NEW s, NEW hand \in Seq(Packet), Owns(s, hand), NEW t, t = DiscardStreams(s)
    PROVE  Owns(t, hand) /\ Closes(s, t) /\ \A k \in DOMAIN t.streams : Empty(t, k)
<1> DEFINE numbers == Numbers(s)
<1>1. s \in LiveState /\ DOMAIN s.streams = 1 .. Len(s.streams) /\ Len(s.streams) \in Nat
  BY StateFields DEF Owns
<1>2. /\ numbers \in Seq(Nat) /\ Len(numbers) = Len(s.streams)
      /\ \A k \in 1 .. Len(s.streams) : numbers[k] = k
  BY <1>1, NumbersAre
<1>3. t = Discarding!Fold(0, s, numbers)
  BY DEF DiscardStreams, ForEachStream, Numbers, Discarding!Fold, DiscardNext, FoldLeft, MapThenFoldSet, Max, Discarding!Latest
<1> HIDE DEF numbers
<1>4. DiscardsSoFar(0, s, numbers, 0, s)
  BY DEF Closes, DiscardsSoFar
<1>5. ASSUME NEW n \in 1 .. Len(numbers), NEW u, DiscardsSoFar(0, s, numbers, n - 1, u)
      PROVE  DiscardsSoFar(0, s, numbers, n, DiscardNext(0, u, numbers[n]))
  <2> DEFINE v == DiscardNext(0, u, numbers[n])
  <2>1. numbers[n] = n /\ n \in DOMAIN s.streams
    BY <1>1, <1>2
  <2>2. v = DiscardStream(u, n)
    BY <2>1 DEF DiscardNext
  <2>3. /\ Closes(s, u) /\ n \in DOMAIN u.streams
        /\ \A h \in Seq(Packet) : Owns(s, h) => Owns(u, h)
        /\ \A k \in 1 .. n - 1 : Empty(u, k)
    BY <1>5, <2>1 DEF DiscardsSoFar, Closes
  <2> HIDE DEF v
  <2>4. ASSUME NEW h \in Seq(Packet), Owns(s, h)
        PROVE  Owns(v, h) /\ Empties(u, v, n)
    BY <2>2, <2>3, <2>4, OneDiscarded
  <2>5. Empties(u, v, n)
    BY <2>4
  <2>7. ASSUME NEW k \in 1 .. n
        PROVE  Empty(v, k)
    <3>1. CASE k = n
      BY <2>5, <3>1 DEF Empties
    <3>2. CASE k # n
      <4>1. k \in 1 .. n - 1 /\ k \in DOMAIN u.streams
        BY <1>1, <2>1, <2>3, <3>2 DEF Closes
      <4> QED
        BY <2>3, <2>5, <3>2, <4>1 DEF Empties, Empty
    <3> QED
      BY <3>1, <3>2
  <2> QED
    BY <2>3, <2>4, <2>5, <2>7, ClosesTwice DEF DiscardsSoFar, v, Empties
<1>6. DiscardsSoFar(0, s, numbers, Len(numbers), Discarding!Fold(0, s, numbers))
  BY <1>2, <1>4, <1>5, Discarding!FoldInvariant, NaturalsOrdered
<1> QED
  BY <1>1, <1>2, <1>3, <1>6 DEF DiscardsSoFar, Closes

QueueEmptied(s) == [s EXCEPT !.queue = <<>>]

\* What remains in the queue is released.
GivesUp(r, t) ==
    /\ t.streams = r.streams /\ t.queue = <<>> /\ t.started = r.started /\ t.closed = r.closed
    /\ t.err = r.err /\ t.accepted = r.accepted /\ t.out = r.out /\ t.reported = r.reported

LEMMA QueueGivenUp ==
    ASSUME NEW r, Owns(r, <<>>), NEW t, t = ReleaseAll(QueueEmptied(r), Queued(r))
    PROVE  Owns(t, <<>>) /\ GivesUp(r, t)
<1> DEFINE u == QueueEmptied(r)
           held == Queued(r)
<1>1. t = ReleaseAll(u, held) /\ u = QueueEmptied(r)
  OBVIOUS
<1> HIDE DEF u
<1>4. r \in LiveState /\ IsLive(r)
  BY StateShape DEF Owns
<1>5. /\ u.streams = r.streams /\ u.queue = <<>> /\ u.started = r.started /\ u.closed = r.closed
      /\ u.err = r.err /\ u.retained = r.retained /\ u.accepted = r.accepted /\ u.out = r.out
      /\ u.released = r.released /\ u.reported = r.reported /\ u.fuse = r.fuse
  BY <1>1, <1>4 DEF IsLive, QueueEmptied
<1>6. IsLive(u)
  BY <1>1, <1>4, ShapeKept DEF QueueEmptied
<1>7. u \in LiveState
  <2>1. <<>> \in Seq(Entry)
    OBVIOUS
  <2> QED
    BY <1>4, <1>5, <1>6, <2>1, StateFields, StateOf
<1>8. held \in Seq(Packet) /\ Len(held) = Len(r.queue) /\ Ids(held) = QueueIds(r.queue)
  <2>1. r.queue \in Seq(Entry) /\ Len(r.queue) \in Nat
    BY <1>4, StateFields
  <2> DEFINE m == Len(r.queue)
  <2>2. DOMAIN r.queue = 1 .. m /\ m \in Nat /\ \A j \in 1 .. m : r.queue[j] \in Entry
    BY <2>1
  <2>3. held = [j \in 1 .. m |-> r.queue[j].packet]
    BY <2>2 DEF Queued
  <2> HIDE DEF m, held
  <2> QED
    BY <2>2, <2>3 DEF m, Ids, QueueIds, Entry
<1> HIDE DEF held
<1>9. Owns(u, held)
  <2>1. QueueIds(u.queue) \cup Range(u.released) \cup Ids(held) = QueueIds(r.queue) \cup Range(r.released) \cup Ids(<<>>)
    BY <1>5, <1>8, IdsEmpty, QueueIdsEmpty
  <2>2. Len(u.queue) + Len(u.released) + Len(held) = Len(r.queue) + Len(r.released) + Len(<<>>)
    <3>1. Len(u.queue) = 0 /\ Len(<<>>) = 0 /\ u.released = r.released /\ Len(held) = Len(r.queue)
      BY <1>5, <1>8, RangeEmpty
    <3>2. Len(r.queue) \in Nat /\ Len(r.released) \in Nat
      BY <1>4, StateFields
    <3> DEFINE a == Len(r.queue)  b == Len(r.released)
    <3>3. a \in Nat /\ b \in Nat /\ Len(u.queue) = 0 /\ Len(u.released) = b /\ Len(held) = a
      BY <3>1, <3>2
    <3> HIDE DEF a, b
    <3>4. Len(u.queue) + Len(u.released) + Len(held) = a + b + 0
      BY <3>3
    <3> QED
      BY <3>1, <3>4 DEF a, b
  <2>3. u.retained + Len(u.released) = r.retained + Len(r.released)
    BY <1>5
  <2> DEFINE none == <<>>
  <2>4. /\ QueueIds(u.queue) \cup Range(u.released) \cup Ids(held) = QueueIds(r.queue) \cup Range(r.released) \cup Ids(none)
        /\ Len(u.queue) + Len(u.released) + Len(held) = Len(r.queue) + Len(r.released) + Len(none)
        /\ Owns(r, none)
    BY <2>1, <2>2
  <2> HIDE DEF none
  <2> QED
    BY <1>5, <1>7, <1>8, <2>3, <2>4, MovedOutside
<1>10. Owns(t, <<>>) /\ Releases(u, t, Ids(held))
  <2> DEFINE none == <<>>
  <2>1. held \o none = held /\ none \in Seq(Packet)
    BY <1>8, ConcatEmptySeq
  <2>2. Owns(u, held \o none)
    BY <1>9, <2>1
  <2> HIDE DEF none
  <2> QED
    BY <1>1, <1>8, <2>1, <2>2, AllReleased DEF none
<1> QED
  BY <1>5, <1>10 DEF Releases, GivesUp

\* After discardBuffered nothing is left anywhere.
LEMMA Discarded ==
    ASSUME NEW s, Owns(s, <<>>), NEW t, t = DiscardBuffered(s)
    PROVE  /\ Owns(t, <<>>) /\ Closes(s, t) /\ t.queue = <<>>
           /\ \A k \in DOMAIN t.streams : Empty(t, k)
<1> DEFINE r == DiscardStreams(s)
           hand == <<>>
<1>1. t = ReleaseAll(QueueEmptied(r), Queued(r)) /\ r = DiscardStreams(s)
  BY DEF DiscardBuffered, QueueEmptied, Queued
<1>2. hand \in Seq(Packet) /\ Owns(s, hand)
  OBVIOUS
<1> HIDE DEF r, hand
<1>3. Owns(r, hand) /\ Closes(s, r) /\ \A k \in DOMAIN r.streams : Empty(r, k)
  BY <1>1, <1>2, StreamsDiscarded
<1> QED
  BY <1>1, <1>3, QueueGivenUp DEF Closes, GivesUp, Empty, hand

-----------------------------------------------------------------------------
(* Close.                                                                  *)
SetClosed(s, fuse) == [s EXCEPT !.closed = TRUE, !.fuse = fuse]

LEMMA ClosedSet ==
    ASSUME NEW s, NEW hand, Owns(s, hand), NEW fuse \in Int, NEW t, t = SetClosed(s, fuse)
    PROVE  /\ Owns(t, hand) /\ t.streams = s.streams /\ t.queue = s.queue /\ t.started = s.started
           /\ t.closed = TRUE /\ t.err = s.err /\ t.retained = s.retained /\ t.accepted = s.accepted
           /\ t.out = s.out /\ t.released = s.released /\ t.reported = s.reported
<1>1. s \in LiveState /\ IsLive(s)
  BY StateShape DEF Owns
<1>2. /\ t.streams = s.streams /\ t.queue = s.queue /\ t.started = s.started /\ t.closed = TRUE
      /\ t.err = s.err /\ t.retained = s.retained /\ t.accepted = s.accepted /\ t.out = s.out
      /\ t.released = s.released /\ t.reported = s.reported /\ t.fuse = fuse
  BY <1>1 DEF IsLive, SetClosed
<1>4. t \in LiveState
  BY <1>1, <1>2, StateFields, StateOf, ShapeKept DEF SetClosed
<1> QED
  BY <1>2, <1>4, SameOwned

\* Whatever the wrapped muxer does, Close leaves nothing behind.
LEMMA AllClosed ==
    ASSUME NEW s, Owns(s, <<>>), s.closed,
           NEW s1, s1 = Unless(s, FlushEnforcers(s)),
           NEW s2, s2 = Unless(s1, FlushAligners(s1)),
           NEW s3, s3 = Unless(s2, DrainQueue(s2)),
           NEW t, t = IF s3.err = "none" THEN s3 ELSE DiscardBuffered(s3)
    PROVE  /\ Owns(s3, <<>>) /\ Owns(t, <<>>) /\ Closes(s, t) /\ t.queue = <<>>
           /\ \A k \in DOMAIN t.streams : Empty(t, k)
<1> DEFINE none == <<>>
<1>1. none \in Seq(Packet) /\ Owns(s, none)
  OBVIOUS
<1> HIDE DEF none
<1>2. /\ Owns(s1, none) /\ Closes(s, s1)
      /\ s.err = "none" => \A k \in DOMAIN s1.streams : s1.streams[k].enforcer.buf = <<>>
  <2>1. CASE s.err = "none"
    BY <1>1, <2>1, EnforcersFlushed DEF Unless
  <2>2. CASE s.err # "none"
    BY <1>1, <2>2 DEF Unless, Closes
  <2> QED
    BY <2>1, <2>2
<1>3. /\ Owns(s2, none) /\ Closes(s1, s2)
      /\ s1.err = "none" =>
            \A k \in DOMAIN s2.streams : /\ s2.streams[k].enforcer = s1.streams[k].enforcer
                                         /\ s2.streams[k].aligner.pending = <<>> /\ s2.streams[k].aligner.cfg = <<>>
  <2>1. CASE s1.err = "none"
    <3>2. Owns(s2, none) /\ AlignersSoFar(0, s1, Numbers(s1), Len(s1.streams), s2)
      BY <1>1, <1>2, <2>1, AlignersFlushed DEF Unless
    <3>4. Framed(s1, s2)
      BY <3>2 DEF AlignersSoFar
    <3>7. \A k \in DOMAIN s2.streams : s2.streams[k].aligner.pending = <<>> /\ s2.streams[k].aligner.cfg = <<>>
      BY <1>2, <3>2, <3>4, StateFields DEF AlignersSoFar, Framed, Owns
    <3> QED
      BY <3>2, <3>4, <3>7 DEF Closes, Framed
  <2>2. CASE s1.err # "none"
    BY <1>2, <2>2 DEF Unless, Closes
  <2> QED
    BY <2>1, <2>2
<1>4. s1.closed /\ s2.closed
  BY <1>2, <1>3 DEF Closes
<1>5. /\ Owns(s3, none) /\ Closes(s2, s3)
      /\ s2.err = "none" =>
            /\ s3.err = "none" => s3.queue = <<>>
            /\ \A k \in DOMAIN s3.streams : /\ s3.streams[k].pending = <<>>
                                            /\ s3.streams[k].enforcer = s2.streams[k].enforcer
                                            /\ s3.streams[k].aligner = s2.streams[k].aligner
  <2>1. CASE s2.err = "none"
    <3>1. s3 = DrainQueue(s2)
      BY <2>1 DEF Unless
    <3>2. Owns(s2, none) /\ s2.closed
      BY <1>3, <1>4
    <3> QED
      BY <1>1, <3>1, <3>2, Drained DEF DrainsStreams
  <2>2. CASE s2.err # "none"
    BY <1>3, <2>2 DEF Unless, Closes
  <2> QED
    BY <2>1, <2>2
<1>6. Closes(s, s3)
  BY <1>2, <1>3, <1>5, ClosesTwice
<1>9. Owns(s3, <<>>)
  BY <1>5 DEF none
<1>7. CASE s3.err = "none"
  <2>2. s.err = "none" /\ s1.err = "none" /\ s2.err = "none"
    BY <1>2, <1>3, <1>5, <1>7 DEF Closes
  <2>3. \A k \in DOMAIN s3.streams : Empty(s3, k)
    BY <1>2, <1>3, <1>5, <2>2 DEF Closes, Empty
  <2> QED
    BY <1>5, <1>6, <1>7, <1>9, <2>2, <2>3 DEF none
<1>8. CASE s3.err # "none"
  BY <1>6, <1>8, <1>9, Discarded, ClosesTwice
<1> QED
  BY <1>7, <1>8

\* Configuration of video streams that never had a keyframe.
Unstarted(s) ==
    {n \in DOMAIN s.accepted : /\ s.accepted[n].kind = "config" /\ s.accepted[n].stream \in DOMAIN s.streams
                               /\ ~s.streams[s.accepted[n].stream].aligner.started}

LEMMA FlushedUnstarted ==
    ASSUME NEW s, Genuine(s), DOMAIN s.streams = 1 .. Len(s.streams),
           NEW t, AlignersSoFar(0, s, Numbers(s), Len(s.streams), t)
    PROVE  CfgIds(s, Len(s.streams)) \subseteq Unstarted(t)
<1>1. SUFFICES ASSUME NEW k \in DOMAIN s.streams, NEW n \in Ids(s.streams[k].aligner.cfg)
               PROVE  n \in Unstarted(t)
  BY DEF CfgIds
<1>2. PICK x \in Range(s.streams[k].aligner.cfg) : n = x.id
  BY DEF Ids, Range
<1> QED
  BY <1>2, RangeEmpty DEF Known, Unstarted, Awaits, AlignersSoFar, Framed, Genuine

\* A Close that succeeds has written or counted what it released, but for such configuration.
LEMMA ClosedSettles ==
    ASSUME NEW s, Owns(s, <<>>), s.closed, Traced(s),
           NEW s1, s1 = Unless(s, FlushEnforcers(s)),
           NEW s2, s2 = Unless(s1, FlushAligners(s1)),
           NEW s3, s3 = Unless(s2, DrainQueue(s2)),
           s3.err = "none"
    PROVE  Range(s3.released) \subseteq Tally(s3) \cup Unstarted(s3)
<1> DEFINE none == <<>>
<1>1. none \in Seq(Packet) /\ Owns(s, none)
  OBVIOUS
<1> HIDE DEF none
<1>2. s2.err = "none"
  BY DEF Unless
<1>3. s1.err = "none"
  BY <1>2 DEF Unless
<1>5. s1 = FlushEnforcers(s) /\ s2 = FlushAligners(s1) /\ s3 = DrainQueue(s2)
  BY <1>2, <1>3 DEF Unless
<1>6. Owns(s1, none) /\ Closes(s, s1) /\ Counted(s, s1) /\ (Genuine(s) => Genuine(s1))
  BY <1>1, <1>5, EnforcersFlushed
<1>7. Genuine(s1) /\ Clean(s1)
  BY <1>6, CountedClean DEF Traced, Closes
<1>8. Owns(s2, none) /\ AlignersSoFar(0, s1, Numbers(s1), Len(s1.streams), s2)
  BY <1>1, <1>5, <1>6, AlignersFlushed
<1>9. CfgIds(s1, Len(s1.streams)) \subseteq Unstarted(s2)
  BY <1>6, <1>7, <1>8, StateFields, FlushedUnstarted DEF Owns
<1>11. s2.closed
  BY <1>6, <1>8 DEF AlignersSoFar, Framed, Closes
<1>12. Closes(s2, s3)
  BY <1>1, <1>5, <1>8, <1>11, Drained
<1>14. DrainsStreams(s2, s3)
  BY <1>1, <1>5, <1>8, <1>11, Drained
<1>15. ASSUME NEW n \in Unstarted(s2), n \in Range(s2.released)
       PROVE  n \in Tally(s3) \cup Unstarted(s3)
  BY <1>12, <1>14, <1>15 DEF Closes, DrainsStreams, Unstarted
<1> QED
  BY <1>1, <1>2, <1>3, <1>5, <1>7, <1>8, <1>9, <1>11, <1>15, Drained DEF Counted, AlignersSoFar, Clean

-----------------------------------------------------------------------------
(* AddStream.                                                              *)
WithNew(s, kind) == [s EXCEPT !.streams = Append(@, NewStream(kind))]

LEMMA StreamAdded ==
    ASSUME NEW s, Owns(s, <<>>), NEW kind \in Kinds, NEW t, t = WithNew(s, kind)
    PROVE  Owns(t, <<>>) /\ t.closed = s.closed /\ (Traced(s) => Traced(t))
<1> DEFINE st == NewStream(kind)
<1>1. s \in LiveState /\ IsLive(s)
  BY StateShape DEF Owns
<1>2. /\ s.streams \in Seq(StreamState) /\ Len(s.streams) \in Nat /\ DOMAIN s.streams = 1 .. Len(s.streams)
  BY <1>1, StateFields
<1>3. /\ st \in StreamState /\ Stage(st) = <<>> /\ st.pending = <<>>
      /\ st.enforcer.buf = <<>> /\ st.aligner.cfg = <<>> /\ st.aligner.pending = <<>>
  BY LiveAssumption, ConcatEmptySeq DEF NewStream, StreamState, EnforcerState, AlignerState, Stage
<1> DEFINE new == Append(s.streams, st)  n == Len(s.streams)
<1>4. /\ t.streams = new /\ t.queue = s.queue /\ t.started = s.started /\ t.closed = s.closed
      /\ t.err = s.err /\ t.retained = s.retained /\ t.accepted = s.accepted /\ t.out = s.out
      /\ t.released = s.released /\ t.reported = s.reported /\ t.fuse = s.fuse
  BY <1>1 DEF IsLive, WithNew
<1>5. IsLive(t)
  BY <1>1, ShapeKept DEF WithNew
<1> HIDE DEF st
<1>6. /\ new \in Seq(StreamState) /\ Len(new) = n + 1 /\ new[n + 1] = st
      /\ \A k \in 1 .. n : new[k] = s.streams[k]
  BY <1>2, <1>3
<1> HIDE DEF new
<1>7. t \in LiveState
  BY <1>1, <1>4, <1>5, <1>6, StateFields, StateOf
<1>8. Stages(t) = Append(Stages(s), <<>>)
  <2>1. /\ Stages(s) \in Seq(Seq(Packet)) /\ Len(Stages(s)) = n
        /\ \A k \in 1 .. n : Stages(s)[k] = Stage(s.streams[k])
    BY <1>1, <1>2, PacketsAre
  <2>2. /\ Stages(t) \in Seq(Seq(Packet)) /\ Len(Stages(t)) = n + 1
        /\ \A k \in 1 .. n + 1 : Stages(t)[k] = Stage(new[k])
    BY <1>4, <1>6, <1>7, StateFields, PacketsAre
  <2>3. <<>> \in Seq(Packet) /\ n \in Nat
    BY <1>2
  <2> DEFINE a == Stages(s)  b == Stages(t)
  <2>4. a \in Seq(Seq(Packet)) /\ Len(a) = n /\ b \in Seq(Seq(Packet)) /\ Len(b) = n + 1
    BY <2>1, <2>2
  <2>5. ASSUME NEW k \in 1 .. n
        PROVE  b[k] = a[k]
    <3>1. k \in 1 .. n + 1
      BY <2>3
    <3> QED
      BY <1>6, <2>1, <2>2, <3>1
  <2>6. b[n + 1] = <<>>
    BY <1>3, <1>6, <2>2, <2>3
  <2> HIDE DEF a, b, n
  <2> QED
    BY <2>3, <2>4, <2>5, <2>6 DEF a, b
<1>10. OnePending(t)
  <2>2. Len(st.pending) <= 1
    BY <1>3, RangeEmpty
  <2>3. ASSUME NEW k \in 1 .. n + 1
        PROVE  Len(new[k].pending) <= 1
    <3>1. CASE k = n + 1
      BY <1>6, <2>2, <3>1
    <3>2. CASE k # n + 1
      <4>1. k \in 1 .. n
        BY <1>2, <3>2
      <4> QED
        BY <1>2, <1>6, <4>1 DEF Owns, OnePending
    <3> QED
      BY <3>1, <3>2
  <2> QED
    BY <1>4, <1>6, <1>7, <2>3, StateFields DEF OnePending
<1>11. ASSUME Traced(s)
       PROVE  Traced(t)
  <2>1. ASSUME NEW k \in 1 .. n + 1
        PROVE  /\ AllKnown(s.accepted, k, new[k].enforcer.buf)
               /\ Awaits(s.accepted, k, new[k].kind, new[k].aligner)
    <3>1. CASE k = n + 1
      BY <1>3, <1>6, <3>1, RangeEmpty DEF AllKnown, Awaits
    <3>2. CASE k # n + 1
      BY <1>2, <1>6, <1>11, <3>2 DEF Traced, Genuine
    <3> QED
      BY <3>1, <3>2
  <2>3. Genuine(t)
    BY <1>4, <1>6, <1>7, <2>1, StateFields DEF Genuine
  <2> QED
    BY <1>4, <1>11, <2>3 DEF Traced, Clean, Tally
<1> QED
  BY <1>1, <1>4, <1>7, <1>8, <1>10, <1>11, PacketsAre, FlattenAppended DEF Owns, Queued, Packets

-----------------------------------------------------------------------------
(* The steps.                                                              *)

\* The variables are those of the state that a call computes.
LEMMA Became ==
    ASSUME NEW t, Owns(t, <<>>), NEW u,
           u = [streams |-> t.streams, queue |-> t.queue, started |-> t.started, closed |-> t.closed,
                err |-> t.err, retained |-> t.retained, accepted |-> t.accepted, out |-> t.out,
                released |-> t.released, reported |-> t.reported, fuse |-> 0]
    PROVE  Owns(u, <<>>)
<1>1. t \in LiveState
  BY DEF Owns
<1>2. /\ u.streams = t.streams /\ u.queue = t.queue /\ u.started = t.started /\ u.closed = t.closed
      /\ u.err = t.err /\ u.retained = t.retained /\ u.accepted = t.accepted /\ u.out = t.out
      /\ u.released = t.released /\ u.reported = t.reported /\ u.fuse = 0 /\ IsLive(u)
  BY DEF IsLive
<1>3. u \in LiveState
  <2>2. u.fuse \in Int
    BY <1>2
  <2> QED
    BY <1>1, <1>2, <2>2, StateOf, StateFields
<1> QED
  BY <1>2, <1>3, SameOwned

-----------------------------------------------------------------------------
(* The initial state and the steps.                                        *)

\* What is known between two calls of the packets held and released, before Close and after it.
Settled(s) ==
    /\ ~s.closed => Traced(s)
    /\ s.closed => /\ s.queue = <<>> /\ \A k \in DOMAIN s.streams : Empty(s, k)
                   /\ s.err = "none" => Range(s.released) \subseteq Tally(s) \cup Unstarted(s)

Sound(s) == Owns(s, <<>>) /\ Settled(s)

LEMMA SettledSame ==
    ASSUME NEW t, Settled(t), NEW u, u.streams = t.streams, u.queue = t.queue, u.closed = t.closed,
           u.err = t.err, u.accepted = t.accepted, u.out = t.out, u.released = t.released,
           u.reported = t.reported
    PROVE  Settled(u)
BY DEF Tally, Unstarted, Genuine, Empty, Settled, Traced, Clean

LEMMA BecomeSound ==
    ASSUME NEW t, Owns(t, <<>>), Settled(t), Become(t)
    PROVE  Sound(State)'
BY Became, SettledSame DEF Become, State, Sound

LEMMA OwnsFirst ==
    ASSUME NEW s, IsLive(s), s.streams = <<>>, s.queue = <<>>, s.started \in BOOLEAN, s.closed \in BOOLEAN,
           s.err = "none", s.retained = 0, s.accepted = <<>>, s.out = <<>>, s.released = <<>>,
           s.reported = {}, s.fuse = 0
    PROVE  Owns(s, <<>>) /\ Traced(s)
<1>1. /\ <<>> \in Seq(StreamState) /\ <<>> \in Seq(Entry) /\ <<>> \in Seq(Packet) /\ <<>> \in Seq(Offer)
      /\ <<>> \in Seq(Nat) /\ {} \in SUBSET [packet : Packet, where : Where] /\ 0 \in Int
  OBVIOUS
<1>2. s \in LiveState
  BY <1>1, StateOf
<1>3. DOMAIN s.streams = {} /\ DOMAIN s.queue = {}
  OBVIOUS
<1>5. Packets(s) = <<>>
  <2> DEFINE a == Stages(s)
  <2>2. a = <<>>
    BY <1>2, PacketsAre
  <2> QED
    BY <1>3, <2>2 DEF Packets, FlattenSeq, Queued
<1> QED
  BY <1>1, <1>2, <1>3, <1>5, RangeEmpty, IdsEmpty DEF Owns, OnePending, Traced, Genuine, Clean

\* What is known of every state: it owns its packets, and is not in the middle of a call.
LEMMA StateIsLive == IsLive(State) /\ State.fuse = 0
BY DEF State, IsLive

LEMMA InitSound == Init => Sound(State)
BY StateIsLive, OwnsFirst DEF State, Init, Sound, Settled

LEMMA AddStreamSound == Sound(State) /\ AddStream => Sound(State)'
BY StreamAdded, BecomeSound DEF AddStream, WithNew, State, Sound, Settled

\* The state in which a call's packets find the stages: the stream claimed, the LiveMuxer started.
Ready(s, i, mode, fuse) == SetFuse(Start(Claim(s, i, mode)), fuse)

LEMMA ReadyOwns ==
    ASSUME NEW s, Owns(s, <<>>), NEW i \in DOMAIN s.streams, NEW mode \in {"packet", "adts"},
           NEW fuse \in Int, NEW t, t = Ready(s, i, mode, fuse)
    PROVE  Owns(t, <<>>) /\ i \in DOMAIN t.streams /\ Passes(s, t)
<1> DEFINE u == Claim(s, i, mode)  v == Start(u)
<1>1. u = Claim(s, i, mode) /\ v = Start(u) /\ t = SetFuse(v, fuse)
  BY DEF Ready
<1> HIDE DEF u, v
<1>2. Owns(u, <<>>) /\ InStream(s, u, i)
  BY <1>1, Claimed
<1>3. DOMAIN u.streams = DOMAIN s.streams
  BY <1>2 DEF InStream, Framed
<1>4. Owns(v, <<>>) /\ DOMAIN v.streams = DOMAIN u.streams
  BY <1>1, <1>2, <1>3, Started
<1>5. Owns(t, <<>>) /\ t.streams = v.streams
  BY <1>1, <1>4, FuseSet
<1>6. Passes(s, u)
  <2>2. \A k \in DOMAIN s.streams : SameStages(s, u, k)
    BY <1>1, <1>2, Claimed DEF InStream, SameStages
  <2> QED
    BY <1>2, <1>3, <2>2, SameTraced DEF InStream
<1>8. Passes(v, t)
  BY <1>1, <1>4, <1>5, FuseSet, SameTraced DEF SameStages
<1> QED
  BY <1>1, <1>2, <1>3, <1>4, <1>5, <1>6, <1>8, PassesTwice, Started

LEMMA WritePacketSound ==
    ASSUME Sound(State), NEW i \in DOMAIN streams, NEW tick \in Ticks, NEW fuse \in Fuses,
           NEW a \in Arrivals, WritePacket(i, tick, a.kind, a.dur, a.disc, fuse)
    PROVE  Sound(State)'
<1> DEFINE s == State  mode == "packet"
           u == Ready(s, i, mode, fuse)
           dts == tick * Tick
           t == Accept(u, i, dts, a.kind, a.dur, a.disc)
<1>1. Become(t)
  BY DEF WritePacket, Ready, SetFuse
<1>2. s.streams = streams /\ ~s.closed
  BY DEF State, WritePacket, CanWrite
<1>3. /\ fuse \in Int /\ dts \in Int /\ a.kind \in {"key", "delta", "config"} /\ a.dur \in Int
      /\ a.disc \in BOOLEAN
  BY LiveAssumption
<1>4. Owns(s, <<>>) /\ i \in DOMAIN s.streams /\ Traced(s)
  BY <1>2 DEF Sound, Settled
<1>5. mode \in {"packet", "adts"} /\ u = Ready(s, i, mode, fuse)
  OBVIOUS
<1> HIDE DEF s, mode, u, dts
<1>6. Owns(u, <<>>) /\ i \in DOMAIN u.streams /\ Passes(s, u)
  BY <1>3, <1>4, <1>5, ReadyOwns
<1>7. Owns(t, <<>>) /\ Passes(u, t)
  BY <1>3, <1>6, Accepted
<1> HIDE DEF t
<1> QED
  BY <1>1, <1>2, <1>4, <1>6, <1>7, BecomeSound DEF Passes, Settled

LEMMA WriteADTSSound ==
    ASSUME Sound(State), NEW i \in DOMAIN streams, NEW tick \in Ticks, NEW fuse \in Fuses,
           NEW n \in ChunkFrames, WriteADTS(i, tick, n, fuse)
    PROVE  Sound(State)'
<1> DEFINE s == State  mode == "adts"  none == <<>>
           u == Ready(s, i, mode, fuse)
           t == AcceptFrames(u, i, tick, n)
<1>1. Become(t)
  BY DEF WriteADTS, Ready, SetFuse
<1>2. s.streams = streams /\ ~s.closed
  BY DEF State, WriteADTS, CanWrite
<1>3. fuse \in Int /\ tick \in Int /\ n \in Nat
  BY LiveAssumption
<1>4. Owns(s, <<>>) /\ i \in DOMAIN s.streams /\ Traced(s)
  BY <1>2 DEF Sound, Settled
<1>5. mode \in {"packet", "adts"} /\ u = Ready(s, i, mode, fuse) /\ none \in Seq(Packet)
  OBVIOUS
<1> HIDE DEF s, mode, u
<1>6. Owns(u, none) /\ i \in DOMAIN u.streams /\ Passes(s, u)
  BY <1>3, <1>4, <1>5, ReadyOwns
<1> HIDE DEF none
<1>7. Owns(t, none) /\ Passes(u, t)
  BY <1>3, <1>5, <1>6, FramesAccepted
<1>8. Owns(t, <<>>)
  BY <1>7 DEF none
<1> HIDE DEF t
<1> QED
  BY <1>1, <1>2, <1>4, <1>6, <1>7, <1>8, BecomeSound DEF Passes, Settled

\* What Close does to a LiveMuxer that is not closed.
Closing(s, fuse) ==
    LET s0 == SetClosed(s, fuse)
        s1 == Unless(s0, FlushEnforcers(s0))
        s2 == Unless(s1, FlushAligners(s1))
        s3 == Unless(s2, DrainQueue(s2))
    IN  IF s3.err = "none" THEN s3 ELSE DiscardBuffered(s3)

LEMMA ClosedTraced ==
    ASSUME NEW s, NEW hand, Owns(s, hand), Traced(s), NEW fuse \in Int, NEW t, t = SetClosed(s, fuse)
    PROVE  Owns(t, hand) /\ t.closed /\ Traced(t)
<1>1. IsLive(s)
  BY StateShape DEF Owns
<1>3. t.streams = s.streams /\ t.accepted = s.accepted /\ t.closed = TRUE /\ t.err = s.err
  BY <1>1 DEF SetClosed, IsLive
<1>7. Clean(t)
  BY <1>1, <1>3 DEF Traced, Clean, Tally, SetClosed, IsLive
<1> QED
  BY <1>3, <1>7, ClosedSet DEF Traced, Genuine

LEMMA ClosingSettles ==
    ASSUME NEW s, Owns(s, <<>>), Traced(s), NEW fuse \in Int, NEW t, t = Closing(s, fuse)
    PROVE  Owns(t, <<>>) /\ Settled(t)
<1> DEFINE s0 == SetClosed(s, fuse)
           s1 == Unless(s0, FlushEnforcers(s0))
           s2 == Unless(s1, FlushAligners(s1))
           s3 == Unless(s2, DrainQueue(s2))
<1>1. /\ s0 = SetClosed(s, fuse) /\ s1 = Unless(s0, FlushEnforcers(s0)) /\ s2 = Unless(s1, FlushAligners(s1))
      /\ s3 = Unless(s2, DrainQueue(s2)) /\ t = IF s3.err = "none" THEN s3 ELSE DiscardBuffered(s3)
  BY DEF Closing
<1> HIDE DEF s0, s1, s2, s3
<1> DEFINE none == <<>>
<1>0. Owns(s, none)
  OBVIOUS
<1> HIDE DEF none
<1>2. Owns(s0, none) /\ s0.closed /\ Traced(s0)
  BY <1>0, <1>1, ClosedTraced
<1>3. s0.closed /\ Owns(s0, <<>>)
  BY <1>2 DEF none
<1>4. /\ Owns(s3, <<>>) /\ Owns(t, <<>>) /\ Closes(s0, t) /\ t.queue = <<>>
      /\ \A k \in DOMAIN t.streams : Empty(t, k)
  BY <1>1, <1>3, AllClosed
<1>6. ASSUME t.err = "none"
      PROVE  Range(t.released) \subseteq Tally(t) \cup Unstarted(t)
  BY <1>1, <1>2, <1>3, <1>4, <1>6, ClosedSettles, Discarded DEF Closes
<1> QED
  BY <1>3, <1>4, <1>6 DEF Settled, Closes

LEMMA CloseSound ==
    ASSUME Sound(State), NEW fuse \in Fuses, Close(fuse)
    PROVE  Sound(State)'
<1>1. CASE ~closed /\ Become(Closing(State, fuse))
  BY <1>1, LiveAssumption, ClosingSettles, BecomeSound DEF State, Sound, Settled
<1>2. CASE closed /\ UNCHANGED vars
  BY <1>2 DEF State, vars
<1> QED
  BY <1>1, <1>2 DEF Close, Closing, SetClosed

LEMMA NextSound == Sound(State) /\ [Next]_vars => Sound(State)'
BY AddStreamSound, WritePacketSound, WriteADTSSound, CloseSound DEF Write, State, vars, Next

LEMMA OwnsIsOnce == Owns(State, <<>>) => OwnedExactlyOnce
<1> SUFFICES ASSUME Owns(State, <<>>) PROVE OwnedExactlyOnce
  OBVIOUS
<1> DEFINE live == LivePackets
           ids == [j \in DOMAIN live |-> live[j].id]
<1>1. live = Packets(State)
  BY DEF LivePackets, Packets, Stages, Stage, Queued, State
<1>2. /\ State.accepted = accepted /\ State.released = released /\ State.retained = retained
  BY DEF State
<1>3. live \in Seq(Packet) /\ released \in Seq(Nat) /\ accepted \in Seq(Packet) /\ retained \in Int
  BY <1>1, <1>2, PacketsAre, StateFields DEF Owns
<1>4. Ids(live) \cup Range(released) = 1 .. Len(accepted)
  BY <1>1, <1>2, IdsEmpty DEF Owns
<1>5. Len(live) + Len(released) = Len(accepted) /\ retained + Len(released) = Len(accepted)
  BY <1>1, <1>2, <1>3 DEF Owns
<1> HIDE DEF live
<1>6. ids \in Seq(Nat) /\ Len(ids) = Len(live)
  <2>1. DOMAIN live = 1 .. Len(live) /\ Len(live) \in Nat /\ \A j \in DOMAIN live : live[j] \in Packet
    BY <1>3
  <2>3. ids \in [1 .. Len(live) -> Nat]
    BY <2>1 DEF Packet
  <2> HIDE DEF ids
  <2> QED
    BY <2>1, <2>3
<1>7. Range(ids) = Ids(live)
  BY DEF Range, Ids
<1> HIDE DEF ids
<1> DEFINE all == ids \o released
<1>8. all \in Seq(Nat) /\ Len(all) = Len(live) + Len(released) /\ Range(all) = Ids(live) \cup Range(released)
  <2>1. all \in Seq(Nat) /\ Len(all) = Len(ids) + Len(released) /\ Range(all) = Range(ids) \cup Range(released)
    BY <1>3, <1>6, RangeConcat
  <2> QED
    BY <1>6, <1>7, <2>1
<1>10. retained = Len(live)
  BY <1>3, <1>5
<1> QED
  BY <1>4, <1>5, <1>8, <1>10 DEF OwnedExactlyOnce, all, ids, live, ToSet, Range

\* What a LiveMuxer that is closed has settled.
LEMMA SettledVanishes ==
    ASSUME NEW s, Owns(s, <<>>), Settled(s), s.closed
    PROVE  /\ Packets(s) = <<>>
           /\ s.err = "none" => \A n \in DOMAIN s.accepted : n \in Tally(s) \cup Unstarted(s)
<1>1. /\ s \in LiveState /\ s.queue = <<>> /\ \A k \in DOMAIN s.streams : Empty(s, k)
      /\ Ids(Packets(s)) \cup Range(s.released) \cup Ids(<<>>) = 1 .. Len(s.accepted)
  BY DEF Owns, Settled
<1>2. Ids(Packets(s)) = {}
  BY <1>1, IdsEmpty, PacketsAre DEF QueueIds, Empty, StageIds
<1>3. Packets(s) = <<>>
  <2> DEFINE a == Packets(s)
  <2>1. a \in Seq(Packet) /\ Ids(a) = {}
    BY <1>1, <1>2, PacketsAre
  <2> HIDE DEF a
  <2>2. DOMAIN a = {}
    BY <2>1 DEF Ids
  <2> QED
    BY <2>1, <2>2 DEF a
<1>4. ASSUME s.err = "none", NEW n \in DOMAIN s.accepted
      PROVE  n \in Tally(s) \cup Unstarted(s)
  <2>1. DOMAIN s.accepted = 1 .. Len(s.accepted)
    <3>1. s.accepted \in Seq(Packet)
      BY <1>1, StateFields
    <3> QED
      BY <3>1
  <2> QED
    BY <1>1, <1>2, <1>4, <2>1, IdsEmpty DEF Settled
<1> QED
  BY <1>3, <1>4

LEMMA SoundVanishes == Sound(State) => NothingVanishes
<1> SUFFICES ASSUME Sound(State), closed PROVE NothingVanishes
  BY DEF NothingVanishes
<1> DEFINE s == State
<1>1. /\ s.closed /\ s.err = err /\ s.accepted = accepted /\ s.out = out /\ s.reported = reported
      /\ s.streams = streams
  BY DEF State
<1>2. LivePackets = Packets(s)
  BY DEF LivePackets, Packets, Stages, Stage, Queued, State
<1>3. Sound(s)
  OBVIOUS
<1> HIDE DEF s
<1>4. /\ Packets(s) = <<>>
      /\ s.err = "none" => \A n \in DOMAIN s.accepted : n \in Tally(s) \cup Unstarted(s)
  BY <1>1, <1>3, SettledVanishes DEF Sound
<1>5. ASSUME err = "none", NEW n \in DOMAIN accepted
      PROVE  \/ \E r \in reported : r.packet.id = n
             \/ \E j \in DOMAIN out : out[j].packet.id = n
             \/ accepted[n].kind = "config" /\ ~streams[accepted[n].stream].aligner.started
  BY <1>1, <1>4, <1>5 DEF Tally, Unstarted
<1> QED
  BY <1>2, <1>4, <1>5 DEF NothingVanishes

(* Between two calls the state is well formed and every packet is in a     *)
(* stage or released, what the stages are proved to preserve with any      *)
(* packets in hand; before Close the Aligners hold what they wait for and  *)
(* what is released is accounted for, after it nothing is held (the        *)
(* inductive invariant).                                                   *)
THEOREM StateSound == Spec => []Sound(State)
<1>1. Init => Sound(State)
  BY InitSound
<1>2. Sound(State) /\ [Next]_vars => Sound(State)'
  BY NextSound
<1> QED
  BY <1>1, <1>2, PTL DEF Spec

(* Every accepted packet is in exactly one stage, or was released exactly  *)
(* once, and the byte budget is that of the packets still held, whatever   *)
(* the streams send, the limits cut off and the wrapped muxer refuses      *)
(* (live.go:778-790, pool.go:24-36).                                       *)
THEOREM OwnedExactlyOnceAlways == Spec => []OwnedExactlyOnce
<1>1. Sound(State) => OwnedExactlyOnce
  BY OwnsIsOnce DEF Sound
<1> QED
  BY <1>1, StateSound, PTL

(* A closed LiveMuxer holds nothing, and one that closed without an error  *)
(* has written every accepted packet or counted it as dropped, but for     *)
(* configuration of a video that never had a keyframe (live.go:693-756).   *)
THEOREM NothingVanishesAlways == Spec => []NothingVanishes
<1>1. Sound(State) => NothingVanishes
  BY SoundVanishes
<1> QED
  BY <1>1, StateSound, PTL

-----------------------------------------------------------------------------
(* The order in which packets go to the wrapped muxer.                     *)
(*                                                                         *)
(* What is said of it is a matter of three things: the writes offered, the *)
(* queue, and the packets held back for their durations.  Beyond them come *)
(* the packets that wait in the Aligners.                                  *)

Before(p, q) == p.dts <= q.dts /\ (p.stream = q.stream => p.dts < q.dts)

Rising(packets) == \A i, j \in DOMAIN packets : i < j => packets[i].dts < packets[j].dts

\* Every packet of X comes before every one of Y.
Precede(X, Y) == \A x \in X, y \in Y : x.dts < y.dts

\* What was offered to the muxer, and what will be, line up to be written.
Sent(writes) == {[packet |-> writes[j].packet, duration |-> writes[j].duration] : j \in DOMAIN writes}
Line(writes, waiting) == Sent(writes) \cup Range(waiting)

InOrder(writes, waiting) ==
    /\ \A i, j \in DOMAIN writes : i < j => Before(writes[i].packet, writes[j].packet)
    /\ \A i, j \in DOMAIN waiting : i < j => Before(waiting[i].packet, waiting[j].packet)
    /\ \A x \in Sent(writes), y \in Range(waiting) : Before(x.packet, y.packet)

\* Of stream k: the packets in line, and those behind its Aligner.
Lined(line, k) == {x.packet : x \in {y \in line : y.packet.stream = k}}
Behind(line, held, k) == Lined(line, k) \cup held[k]

\* The packet held back by a stream is its last, and comes after whatever was offered.
HeldLast(sent, line, held) ==
    \A k \in DOMAIN held : \A p \in held[k] :
        /\ p.stream = k
        /\ \A x \in line : x.packet.stream = k => x.packet.dts < p.dts
        /\ \A x \in sent : x.packet.dts < p.dts

\* A duration derived for x ends where y starts, if y is next.
Spans(x, y) ==
    x.packet.dur = 0 /\ ~y.disc /\ x.packet.dts < y.dts /\ y.dts - x.packet.dts <= GapThreshold
        => x.packet.dts + x.duration = y.dts

Between(x, y, packets) == \E z \in packets : x.packet.dts < z.dts /\ z.dts < y.dts

AllSpan(line, held) ==
    \A x \in line :
        /\ x.packet.stream \in DOMAIN held
        /\ \A y \in Behind(line, held, x.packet.stream) :
              Between(x, y, Behind(line, held, x.packet.stream)) \/ Spans(x, y)

\* No write follows one that failed.
AllWritten(writes, error) == \A j \in DOMAIN writes : j < Len(writes) \/ error = "none" => writes[j].ok

Lookahead(s) == [k \in DOMAIN s.streams |-> Range(s.streams[k].pending)]

Tiled(s) ==
    /\ InOrder(s.out, s.queue)
    /\ HeldLast(Sent(s.out), Line(s.out, s.queue), Lookahead(s))
    /\ AllSpan(Line(s.out, s.queue), Lookahead(s))
    /\ AllWritten(s.out, s.err)

\* Nothing is offered before every stream has shown a packet.
Fronted(s) ==
    \A k \in DOMAIN s.streams :
        Lookahead(s)[k] = {} => s.out = <<>> /\ Lined(Line(s.out, s.queue), k) = {}

\* The packets that have passed the Aligner of stream k, those that wait in it, and both.
Passed(s, k) == Behind(Line(s.out, s.queue), Lookahead(s), k)
Waiting(s, k) == Range(s.streams[k].aligner.pending) \cup Range(s.streams[k].aligner.cfg)
Beyond(s, k) == Waiting(s, k) \cup Passed(s, k)

\* What waits in an Aligner comes after what has passed it, and waits for something.
Waits(s, k) ==
    LET a == s.streams[k].aligner IN
    /\ \A x \in Waiting(s, k) : x.stream = k
    /\ Precede(Passed(s, k), Waiting(s, k))
    /\ Rising(a.pending) /\ Rising(a.cfg)
    /\ a.pending # <<>> => s.streams[k].kind = "audio" /\ a.expects
    /\ a.cfg # <<>> => s.streams[k].kind = "video" /\ ~a.started

\* What is in an Enforcer is to come after what has left it.
Fed(s, k) ==
    LET e == s.streams[k].enforcer IN
    /\ \A x \in Range(e.buf) : x.stream = k
    /\ \A x \in Beyond(s, k) : e.emitted /\ x.dts <= e.last
    /\ e.buf # <<>> \/ e.emitted => s.started

\* The pictures behind a video stream's Aligner start with a keyframe.
Keyed(s, k) ==
    s.streams[k].kind = "video" =>
        /\ s.streams[k].aligner.started /\ s.err = "none" => \E y \in Passed(s, k) : y.kind = "key"
        /\ \A x \in Passed(s, k) : x.kind = "delta" => \E y \in Passed(s, k) : y.kind = "key" /\ y.dts < x.dts

\* The sync point is the same for all audio, and nothing from before it passes.
Synced(s) ==
    SyncVideo(s) # 0 =>
        LET va == s.streams[SyncVideo(s)].aligner IN
        /\ \A k \in DOMAIN s.streams : s.streams[k].kind = "audio" =>
              LET a == s.streams[k].aligner IN
              /\ a.started = va.started /\ (a.started => a.sync = va.sync)
              /\ s.started => a.expects
              /\ \A x \in Passed(s, k) : va.started /\ ~(x.dts < va.sync)
        /\ \A r \in s.reported : r.where = "before sync" => va.started /\ r.packet.dts < va.sync

\* Before the first packet.
Fresh(s) == ~s.started => s.reported = {} /\ \A k \in DOMAIN s.streams : ~s.streams[k].aligner.started

Staged(s) ==
    /\ Tiled(s) /\ Fronted(s) /\ Fresh(s)
    /\ \A k \in DOMAIN s.streams : Waits(s, k) /\ Fed(s, k) /\ Keyed(s, k)

Ordered(s) == Staged(s) /\ Synced(s)

\* A packet of X that was moved is a step after those of X before it.
Apart(all, X) ==
    \A y \in X :
        /\ y.id \in DOMAIN all
        /\ y.dts # all[y.id].dts => \A x \in X : x.dts < y.dts => x.dts + StepSize <= y.dts

\* The packets of b were not moved.
Unmoved(all, b) == \A x \in Range(b) : x.id \in DOMAIN all /\ x.dts = all[x.id].dts

Stepped(s) ==
    \A k \in DOMAIN s.streams : Apart(s.accepted, Beyond(s, k)) /\ Unmoved(s.accepted, s.streams[k].enforcer.buf)

-----------------------------------------------------------------------------
(* One more write, and one more in the queue.                              *)

LEMMA SentAre ==
    ASSUME NEW writes \in Seq(Offer)
    PROVE  /\ Sent(writes) \subseteq Entry
           /\ \A j \in DOMAIN writes : [packet |-> writes[j].packet, duration |-> writes[j].duration] \in Sent(writes)
           /\ \A x \in Sent(writes) : \E j \in DOMAIN writes :
                 x.packet = writes[j].packet /\ x.duration = writes[j].duration
           /\ writes = <<>> => Sent(writes) = {}
<1>1. \A j \in DOMAIN writes : writes[j].packet \in Packet /\ writes[j].duration \in Int
  <2>1. \A j \in DOMAIN writes : writes[j] \in Offer
    OBVIOUS
  <2> QED
    BY <2>1 DEF Offer
<1>5. writes = <<>> => Sent(writes) = {}
  BY DEF Sent
<1> QED
  BY <1>1, <1>5 DEF Sent, Entry

LEMMA RangeIs ==
    ASSUME NEW S, NEW a \in Seq(S)
    PROVE  /\ Range(a) \subseteq S
           /\ \A j \in DOMAIN a : a[j] \in Range(a)
           /\ \A x \in Range(a) : \E j \in DOMAIN a : x = a[j]
BY DEF Range

LEMMA LineWritten ==
    ASSUME NEW writes \in Seq(Offer), NEW waiting \in Seq(Entry), waiting # <<>>,
           NEW o \in Offer, o.packet = waiting[1].packet, o.duration = waiting[1].duration
    PROVE  /\ Sent(Append(writes, o)) = Sent(writes) \cup {waiting[1]}
           /\ Line(Append(writes, o), Tail(waiting)) = Line(writes, waiting)
<1> DEFINE after == Append(writes, o)
<1>1. waiting[1] \in Entry /\ waiting[1] = [packet |-> o.packet, duration |-> o.duration]
  <2>1. waiting[1] \in Entry
    OBVIOUS
  <2> QED
    BY <2>1 DEF Entry
<1>3. Range(waiting) = {waiting[1]} \cup Range(Tail(waiting))
  BY RangeOfTail
<1> QED
  BY <1>1, <1>3 DEF Line, Sent

\* The head of the queue is written.
LEMMA WriteInOrder ==
    ASSUME NEW writes \in Seq(Offer), NEW waiting \in Seq(Entry), waiting # <<>>,
           NEW o \in Offer, o.packet = waiting[1].packet, o.duration = waiting[1].duration,
           InOrder(writes, waiting)
    PROVE  InOrder(Append(writes, o), Tail(waiting))
<1> DEFINE after == Append(writes, o)
           rest == Tail(waiting)
<1>1. DOMAIN after = 1 .. Len(writes) + 1 /\ after[Len(writes) + 1] = o
      /\ \A j \in 1 .. Len(writes) : after[j] = writes[j]
  OBVIOUS
<1>2. DOMAIN rest = 1 .. Len(waiting) - 1 /\ \A j \in DOMAIN rest : rest[j] = waiting[j + 1] /\ j + 1 \in DOMAIN waiting
  OBVIOUS
<1>3. Len(writes) \in Nat /\ DOMAIN writes = 1 .. Len(writes) /\ Len(waiting) \in Nat \ {0} /\ DOMAIN waiting = 1 .. Len(waiting)
  OBVIOUS
<1>4. Sent(after) = Sent(writes) \cup {waiting[1]}
  BY LineWritten
<1>6. \A x \in Range(rest) : x \in Range(waiting) /\ Before(waiting[1].packet, x.packet)
  BY <1>2, <1>3 DEF InOrder, Range
<1>7. \A j \in DOMAIN writes : Before(writes[j].packet, waiting[1].packet)
  <2>1. waiting[1] \in Range(waiting)
    BY <1>3 DEF Range
  <2> QED
    BY <2>1, SentAre DEF InOrder
<1> HIDE DEF after, rest
<1>8. ASSUME NEW i \in DOMAIN after, NEW j \in DOMAIN after, i < j
      PROVE  Before(after[i].packet, after[j].packet)
  BY <1>1, <1>3, <1>7, <1>8 DEF InOrder
<1>9. ASSUME NEW i \in DOMAIN rest, NEW j \in DOMAIN rest, i < j
      PROVE  Before(rest[i].packet, rest[j].packet)
  BY <1>2, <1>3, <1>9 DEF InOrder
<1>10. ASSUME NEW x \in Sent(after), NEW y \in Range(rest)
       PROVE  Before(x.packet, y.packet)
  BY <1>4, <1>6 DEF InOrder
<1> QED
  BY <1>8, <1>9, <1>10 DEF after, rest, InOrder

LEMMA InsertElements ==
    ASSUME NEW S, NEW a \in Seq(S), NEW x \in S, NEW i \in 1 .. Len(a) + 1,
           NEW b, b = InsertAt(a, i, x)
    PROVE  /\ DOMAIN b = 1 .. Len(a) + 1 /\ b[i] = x
           /\ \A j \in 1 .. Len(a) + 1 : j < i => b[j] = a[j] /\ j \in 1 .. Len(a)
           /\ \A j \in 1 .. Len(a) + 1 : i < j => b[j] = a[j - 1] /\ j - 1 \in 1 .. Len(a)
<1> DEFINE first == SubSeq(a, 1, i - 1)
           rest == SubSeq(a, i, Len(a))
           front == first \o <<x>>
<1>1. Len(a) \in Nat /\ i \in Int
  OBVIOUS
<1>2. first \in Seq(S) /\ Len(first) = i - 1 /\ \A j \in 1 .. i - 1 : first[j] = a[j]
  OBVIOUS
<1>3. rest \in Seq(S) /\ Len(rest) = Len(a) + 1 - i /\ \A j \in 1 .. Len(a) + 1 - i : rest[j] = a[j + i - 1]
  OBVIOUS
<1>4. b = front \o rest
  BY DEF InsertAt
<1> HIDE DEF first, rest
<1>5. front \in Seq(S) /\ Len(front) = i /\ front[i] = x /\ \A j \in 1 .. i - 1 : front[j] = a[j]
  BY <1>1, <1>2
<1> HIDE DEF front
<1>6. Len(b) = Len(a) + 1 /\ DOMAIN b = 1 .. Len(a) + 1
  <2>2. b \in Seq(S) /\ Len(b) = Len(front) + Len(rest)
    BY <1>3, <1>4, <1>5, ConcatProperties
  <2> QED
    BY <1>1, <1>3, <1>5, <2>2
<1>9. ASSUME NEW j \in 1 .. Len(a) + 1, i < j
      PROVE  b[j] = a[j - 1] /\ j - 1 \in 1 .. Len(a)
  BY <1>1, <1>3, <1>4, <1>5, <1>9
<1> QED
  BY <1>1, <1>3, <1>4, <1>5, <1>6, <1>9

\* An entry is put into the queue, after all with a DTS as low as its own.
LEMMA QueueInOrder ==
    ASSUME NEW writes \in Seq(Offer), NEW waiting \in Seq(Entry), NEW e \in Entry,
           InOrder(writes, waiting),
           \A x \in Range(waiting) : x.packet.stream = e.packet.stream => x.packet.dts < e.packet.dts,
           \A x \in Sent(writes) : x.packet.dts < e.packet.dts,
           NEW at \in 1 .. Len(waiting) + 1,
           at <= Len(waiting) => waiting[at].packet.dts > e.packet.dts,
           \A j \in 1 .. Len(waiting) : j < at => ~(waiting[j].packet.dts > e.packet.dts)
    PROVE  /\ InOrder(writes, InsertAt(waiting, at, e))
           /\ Line(writes, InsertAt(waiting, at, e)) = Line(writes, waiting) \cup {e}
<1> DEFINE n == Len(waiting)
           after == InsertAt(waiting, at, e)
<1>1. n \in Nat /\ DOMAIN waiting = 1 .. n
  OBVIOUS
<1>2. /\ at \in 1 .. n + 1
      /\ at <= n => waiting[at].packet.dts > e.packet.dts
      /\ \A j \in 1 .. n : j < at => ~(waiting[j].packet.dts > e.packet.dts)
  OBVIOUS
<1>3. \A j \in 1 .. n : waiting[j] \in Entry /\ waiting[j] \in Range(waiting)
  BY DEF Range
<1>4. \A j \in 1 .. n : waiting[j].packet.dts \in Int /\ e.packet.dts \in Int
  BY <1>3 DEF Entry, Packet
<1>5. \A j \in 1 .. n : j < at => Before(waiting[j].packet, e.packet)
  BY <1>1, <1>2, <1>3, <1>4 DEF Before
<1>6. \A j \in 1 .. n : at <= j => Before(e.packet, waiting[j].packet)
  <2> SUFFICES ASSUME NEW j \in 1 .. n, at <= j PROVE e.packet.dts < waiting[j].packet.dts
    BY <1>4 DEF Before
  <2>1. at \in 1 .. n /\ waiting[at].packet.dts > e.packet.dts
    BY <1>1, <1>2
  <2>2. CASE j = at
    BY <1>4, <2>1, <2>2
  <2>3. CASE at < j
    <3>1. Before(waiting[at].packet, waiting[j].packet)
      BY <1>1, <2>1, <2>3 DEF InOrder
    <3> QED
      BY <1>4, <2>1, <3>1 DEF Before
  <2> QED
    BY <1>1, <2>1, <2>2, <2>3
<1>0. after = InsertAt(waiting, at, e)
  OBVIOUS
<1> HIDE DEF after
<1>7. /\ DOMAIN after = 1 .. n + 1 /\ after[at] = e
      /\ \A j \in 1 .. n + 1 : j < at => after[j] = waiting[j] /\ j \in 1 .. n
      /\ \A j \in 1 .. n + 1 : at < j => after[j] = waiting[j - 1] /\ j - 1 \in 1 .. n
  BY <1>0, <1>2, InsertElements
<1>8. Range(after) = Range(waiting) \cup {e}
  BY <1>0, <1>2, RangeOfInsert
<1> HIDE DEF n
<1>9. ASSUME NEW i \in DOMAIN after, NEW j \in DOMAIN after, i < j
      PROVE  Before(after[i].packet, after[j].packet)
  <2>0. n \in Nat /\ i \in 1 .. n + 1 /\ j \in 1 .. n + 1 /\ at \in 1 .. n + 1
    BY <1>1, <1>2, <1>7
  <2>1. CASE j < at
    BY <1>1, <1>7, <1>9, <2>0, <2>1 DEF InOrder
  <2>2. CASE j = at
    BY <1>5, <1>7, <1>9, <2>0, <2>2
  <2>3. CASE at < j /\ i < at
    <3>2. i < j - 1
      BY <2>0, <2>3
    <3> QED
      BY <1>1, <1>7, <1>9, <2>0, <2>3, <3>2 DEF InOrder
  <2>4. CASE at < j /\ i = at
    BY <1>6, <1>7, <2>0, <2>4
  <2>5. CASE at < j /\ at < i
    <3>1. i - 1 \in 1 .. n /\ j - 1 \in 1 .. n /\ i - 1 < j - 1
      BY <1>7, <1>9, <2>0, <2>5
    <3> QED
      BY <1>1, <1>7, <2>0, <2>5, <3>1 DEF InOrder
  <2> QED
    BY <2>0, <2>1, <2>2, <2>3, <2>4, <2>5
<1>10. ASSUME NEW x \in Sent(writes), NEW y \in Range(after)
       PROVE  Before(x.packet, y.packet)
  BY <1>8, SentAre DEF Before, Entry, Packet, InOrder
<1> QED
  BY <1>8, <1>9, <1>10 DEF after, InOrder, Line

-----------------------------------------------------------------------------
(* The packets held back.                                                  *)

Backs(held) == held \in [DOMAIN held -> SUBSET Packet]

LEMMA BehindAre ==
    ASSUME NEW line \in SUBSET Entry, NEW held, Backs(held), NEW k \in DOMAIN held
    PROVE  /\ Behind(line, held, k) \subseteq Packet
           /\ \A x \in held[k] : x \in Behind(line, held, k)
           /\ \A x \in line : x.packet.stream = k => x.packet \in Behind(line, held, k)
           /\ \A y \in Behind(line, held, k) : y \in held[k] \/ \E x \in line : x.packet = y /\ x.packet.stream = k
BY DEF Entry, Lined, Backs, Behind

\* What a step of stream i does: p is held back, and line is what is in line then.
Extends(line, held, i, p, longer, after) ==
    /\ Behind(longer, after, i) = Behind(line, held, i) \cup {p}
    /\ \A k \in DOMAIN held : k # i =>
          Behind(longer, after, k) = Behind(line, held, k) /\ Lined(longer, k) = Lined(line, k)

LEMMA LinedMore ==
    ASSUME NEW line \in SUBSET Entry, NEW e \in Entry
    PROVE  /\ Lined(line \cup {e}, e.packet.stream) = Lined(line, e.packet.stream) \cup {e.packet}
           /\ \A k : k # e.packet.stream => Lined(line \cup {e}, k) = Lined(line, k)
BY DEF Lined

\* A packet p is held back in place of the one before it, which is queued.
LEMMA NextHeld ==
    ASSUME NEW line \in SUBSET Entry, NEW sent \in SUBSET line, NEW held, Backs(held),
           NEW i \in DOMAIN held, NEW p \in Packet, p.stream = i,
           \A x \in Behind(line, held, i) : x.dts < p.dts,
           HeldLast(sent, line, held), AllSpan(line, held),
           NEW e \in Entry, held[i] = {e.packet}, Spans(e, p),
           NEW after, after = [held EXCEPT ![i] = {p}]
    PROVE  /\ HeldLast(sent, line \cup {e}, after)
           /\ AllSpan(line \cup {e}, after)
           /\ Extends(line, held, i, p, line \cup {e}, after)
<1> DEFINE longer == line \cup {e}
<1>1. DOMAIN after = DOMAIN held /\ after[i] = {p} /\ \A k \in DOMAIN held : k # i => after[k] = held[k]
  OBVIOUS
<1>2. e.packet.stream = i /\ e.packet \in Packet /\ e.packet \in held[i]
  BY DEF HeldLast, Entry
<1>3. e.packet.dts < p.dts /\ e.packet.dts \in Int /\ p.dts \in Int
  BY <1>2 DEF Behind, Packet
<1>4. /\ \A x \in line : x.packet.stream = i => x.packet.dts < e.packet.dts
      /\ \A x \in sent : x.packet.dts < e.packet.dts
  BY <1>2 DEF HeldLast
<1>5. \A x \in longer : x.packet \in Packet /\ x.packet.dts \in Int
  BY DEF Entry, Packet
<1>6. Lined(longer, i) = Lined(line, i) \cup {e.packet} /\ \A k : k # i => Lined(longer, k) = Lined(line, k)
  BY <1>2, LinedMore
<1>7. /\ Behind(longer, after, i) = Behind(line, held, i) \cup {p}
      /\ \A k \in DOMAIN held : k # i => Behind(longer, after, k) = Behind(line, held, k)
  BY <1>1, <1>6 DEF Behind
<1>8. ASSUME NEW k \in DOMAIN after, NEW q \in after[k]
      PROVE  /\ q.stream = k
             /\ \A x \in longer : x.packet.stream = k => x.packet.dts < q.dts
             /\ \A x \in sent : x.packet.dts < q.dts
  BY <1>1, <1>2, <1>3, <1>4, <1>5, <1>8 DEF HeldLast
<1> HIDE DEF longer
<1>9. ASSUME NEW x \in longer
      PROVE  /\ x.packet.stream \in DOMAIN after
             /\ \A y \in Behind(longer, after, x.packet.stream) :
                   Between(x, y, Behind(longer, after, x.packet.stream)) \/ Spans(x, y)
  <2>0. x \in line \/ x = e
    BY DEF longer
  <2>1. x.packet.stream \in DOMAIN held
    BY <1>2, <2>0 DEF AllSpan
  <2>2. CASE x.packet.stream # i
    BY <1>1, <1>2, <1>7, <2>0, <2>1, <2>2 DEF AllSpan
  <2>3. CASE x.packet.stream = i
    <3> DEFINE old == Behind(line, held, i)
    <3>1. Behind(longer, after, i) = old \cup {p} /\ e.packet \in old
      BY <1>2, <1>7 DEF Behind
    <3> SUFFICES ASSUME NEW y \in old \cup {p}
                 PROVE  Between(x, y, old \cup {p}) \/ Spans(x, y)
      BY <1>1, <2>1, <2>3, <3>1
    <3> HIDE DEF old
    <3>2. CASE x = e
      BY <1>3, <1>4, <1>5, <3>2 DEF old, Behind, Lined, longer, Spans
    <3>3. CASE x # e
      BY <1>3, <1>4, <2>0, <2>3, <3>1, <3>3 DEF Between, AllSpan, old
    <3> QED
      BY <3>2, <3>3
  <2> QED
    BY <2>2, <2>3
<1> QED
  BY <1>6, <1>7, <1>8, <1>9 DEF longer, HeldLast, AllSpan, Extends

\* The first packet of a stream is held back.
LEMMA FirstHeld ==
    ASSUME NEW line \in SUBSET Entry, NEW held, Backs(held),
           NEW i \in DOMAIN held, NEW p \in Packet, p.stream = i,
           held[i] = {}, Lined(line, i) = {},
           HeldLast({}, line, held), AllSpan(line, held),
           NEW after, after = [held EXCEPT ![i] = {p}]
    PROVE  /\ HeldLast({}, line, after)
           /\ AllSpan(line, after)
           /\ Extends(line, held, i, p, line, after)
<1>1. DOMAIN after = DOMAIN held /\ after[i] = {p} /\ \A k \in DOMAIN held : k # i => after[k] = held[k]
  OBVIOUS
<1>2. \A x \in line : x.packet.stream # i
  BY DEF Lined
<1>4. /\ Behind(line, after, i) = Behind(line, held, i) \cup {p}
      /\ \A k \in DOMAIN held : k # i => Behind(line, after, k) = Behind(line, held, k)
  BY <1>1 DEF Behind
<1>5. AllSpan(line, after)
  BY <1>1, <1>2, <1>4 DEF AllSpan
<1>6. Extends(line, held, i, p, line, after)
  BY <1>4 DEF Extends
<1> QED
  BY <1>1, <1>2, <1>5, <1>6 DEF HeldLast

\* What is behind an Aligner does not change.
SameBehind(line, held, longer, after) ==
    \A k \in DOMAIN held : Behind(longer, after, k) = Behind(line, held, k)

\* The packet held back by a stream is queued without a successor.
LEMMA LastHeld ==
    ASSUME NEW line \in SUBSET Entry, NEW sent \in SUBSET line, NEW held, Backs(held), NEW i \in DOMAIN held,
           HeldLast(sent, line, held), AllSpan(line, held),
           NEW e \in Entry, held[i] = {e.packet},
           NEW after, after = [held EXCEPT ![i] = {}]
    PROVE  /\ HeldLast(sent, line \cup {e}, after)
           /\ AllSpan(line \cup {e}, after)
           /\ SameBehind(line, held, line \cup {e}, after)
BY LinedMore DEF HeldLast, Entry, Packet, Behind, AllSpan, Lined, Spans, SameBehind

\* A packet in line is written.
LEMMA HeldWritten ==
    ASSUME NEW sent, NEW line, NEW held, HeldLast(sent, line, held), NEW e,
           \A k \in DOMAIN held : \A p \in held[k] : e.packet.dts < p.dts
    PROVE  HeldLast(sent \cup {e}, line, held)
BY DEF HeldLast

-----------------------------------------------------------------------------
(* Writing keeps the order.                                                *)

LineOf(s) == Line(s.out, s.queue)

LEMMA Views ==
    ASSUME NEW s \in LiveState
    PROVE  /\ s.out \in Seq(Offer) /\ s.queue \in Seq(Entry)
           /\ DOMAIN Lookahead(s) = DOMAIN s.streams /\ Backs(Lookahead(s))
           /\ \A k \in DOMAIN s.streams : Lookahead(s)[k] = Range(s.streams[k].pending)
           /\ LineOf(s) \in SUBSET Entry /\ Sent(s.out) \in SUBSET LineOf(s)
           /\ \A k \in DOMAIN s.streams : Passed(s, k) \subseteq Packet
<1>1. /\ s.out \in Seq(Offer) /\ s.queue \in Seq(Entry)
      /\ \A k \in DOMAIN s.streams : s.streams[k] \in StreamState
  BY StateFields
<1>2. \A k \in DOMAIN s.streams : Range(s.streams[k].pending) \subseteq Packet
  BY <1>1, StreamFields, RangeIs
<1>5. LineOf(s) \in SUBSET Entry /\ Sent(s.out) \in SUBSET LineOf(s)
  BY <1>1, SentAre, RangeIs DEF LineOf, Line
<1> QED
  BY <1>1, <1>2, <1>5, BehindAre DEF Passed, LineOf, Lookahead, Backs

\* A step that neither writes, nor queues, nor holds back a packet.
Shows(s, t) ==
    /\ t.out = s.out /\ t.queue = s.queue /\ DOMAIN t.streams = DOMAIN s.streams
    /\ \A k \in DOMAIN s.streams : t.streams[k].pending = s.streams[k].pending

LEMMA Shown ==
    ASSUME NEW s, NEW t, Shows(s, t), t.err = "none" => s.err = "none"
    PROVE  /\ Tiled(s) => Tiled(t)
           /\ Fronted(s) => Fronted(t)
           /\ \A k : Passed(t, k) = Passed(s, k)
BY DEF Shows, Lookahead, AllWritten, Tiled, Fronted, Passed

\* A write of the first entry of the queue.
Offers(s, t) ==
    /\ t.queue = Tail(s.queue) /\ t.streams = s.streams
    /\ \E o \in Offer : /\ t.out = Append(s.out, o) /\ o.packet = s.queue[1].packet
                        /\ o.duration = s.queue[1].duration /\ (t.err = "none" => o.ok)

LEMMA OneOffered ==
    ASSUME NEW s \in LiveState, s.queue # <<>>,
           NEW t, t = WriteQueued([s EXCEPT !.queue = Tail(@)], s.queue[1])
    PROVE  Offers(s, t)
<1> DEFINE q == s.queue[1]
           p == q.packet
           u == [s EXCEPT !.queue = Tail(@)]
           r == ReleasePacket(u, p)
           o == [packet |-> p, duration |-> q.duration, ok |-> u.fuse # 0,
                 ticks |-> ToTicks(p.dts), durationTicks |-> AtLeastOne(ToTicks(q.duration))]
<1>1. IsLive(s) /\ s.queue \in Seq(Entry)
  BY StateShape, StateFields
<1>2. q \in Entry
  BY <1>1
<1>4. u.streams = s.streams /\ u.queue = Tail(s.queue) /\ u.err = s.err /\ u.out = s.out /\ u.fuse = s.fuse
  BY <1>1 DEF IsLive
<1>5. IsLive(u)
  BY <1>1, ShapeKept
<1>6. t = [r EXCEPT !.err = IF u.fuse = 0 THEN "write" ELSE @, !.fuse = @ - 1, !.out = Append(@, o)]
  BY DEF WriteQueued
<1>7. r = [u EXCEPT !.retained = @ - 1, !.released = Append(@, p.id)]
  BY DEF ReleasePacket
<1>8. o \in Offer /\ o.packet = p /\ o.duration = q.duration /\ o.ok = (u.fuse # 0)
  BY <1>2, TicksAreInt DEF Offer, Entry, Packet
<1> HIDE DEF o, p, q, u, r
<1>9. r.streams = u.streams /\ r.queue = u.queue /\ r.err = u.err /\ r.out = u.out /\ IsLive(r)
  BY <1>5, <1>7, ShapeKept DEF IsLive
<1>10. t.streams = r.streams /\ t.queue = r.queue /\ t.out = Append(r.out, o) /\ (u.fuse = 0 => t.err = "write")
  BY <1>6, <1>9 DEF IsLive
<1> QED
  BY <1>4, <1>8, <1>9, <1>10 DEF Offers, p, q

LEMMA OneTiled ==
    ASSUME NEW s \in LiveState, s.queue # <<>>, s.err = "none", Tiled(s),
           \A k \in DOMAIN s.streams : \A p \in Lookahead(s)[k] : s.queue[1].packet.dts < p.dts,
           NEW t, Offers(s, t)
    PROVE  Tiled(t) /\ t.streams = s.streams /\ LineOf(t) = LineOf(s)
<1>1. s.out \in Seq(Offer) /\ s.queue \in Seq(Entry) /\ DOMAIN Lookahead(s) = DOMAIN s.streams
  BY Views
<1>2. PICK o \in Offer : /\ t.out = Append(s.out, o) /\ o.packet = s.queue[1].packet
                         /\ o.duration = s.queue[1].duration /\ (t.err = "none" => o.ok)
  BY DEF Offers
<1>3. t.queue = Tail(s.queue) /\ t.streams = s.streams
  BY DEF Offers
<1>4. Lookahead(t) = Lookahead(s)
  BY <1>3 DEF Lookahead
<1>5. Sent(t.out) = Sent(s.out) \cup {s.queue[1]} /\ LineOf(t) = LineOf(s)
  BY <1>1, <1>2, <1>3, LineWritten DEF LineOf
<1>7. HeldLast(Sent(t.out), LineOf(t), Lookahead(t))
  <2>1. HeldLast(Sent(s.out), LineOf(s), Lookahead(s))
    BY DEF Tiled, LineOf
  <2>2. \A k \in DOMAIN Lookahead(s) : \A p \in Lookahead(s)[k] : s.queue[1].packet.dts < p.dts
    BY <1>1
  <2> DEFINE q == s.queue[1]
             held == Lookahead(s)
  <2> HIDE DEF q, held
  <2>3. HeldLast(Sent(s.out) \cup {q}, LineOf(s), held)
    BY <2>1, <2>2, HeldWritten DEF q, held
  <2> QED
    BY <1>4, <1>5, <2>3 DEF q, held
<1> QED
  BY <1>1, <1>2, <1>3, <1>4, <1>5, <1>7, WriteInOrder DEF Tiled, LineOf, AllWritten

\* Those of the queue are written that come before all packets held back.
TilesSoFar(rest, s, entries, n, t) ==
    /\ Owns(t, rest) /\ Tiled(t) /\ t.streams = s.streams /\ LineOf(t) = LineOf(s)
    /\ t.err = "none" => t.queue = SubSeq(s.queue, n + 1, Len(s.queue))

Tiling == INSTANCE FoldLemmas WITH Op <- WriteNext, Inv <- TilesSoFar

LEMMA SubSeqNext ==
    ASSUME NEW S, NEW a \in Seq(S), NEW m \in 1 .. Len(a), NEW b, b = SubSeq(a, (m - 1) + 1, Len(a))
    PROVE  b # <<>> /\ b[1] = a[m] /\ Tail(b) = SubSeq(a, m + 1, Len(a))
<1>0. Len(a) \in Nat /\ (m - 1) + 1 = m
  OBVIOUS
<1>1. b = SubSeq(a, m, Len(a))
  BY <1>0
<1>2. b \in Seq(S) /\ Len(b) = Len(a) - m + 1 /\ b[1] = a[m]
  BY <1>0, <1>1, SubSeqProperties
<1>3. Len(b) # 0
  BY <1>0, <1>2
<1>4. Tail(b) = SubSeq(a, m + 1, Len(a))
  BY <1>0, <1>1, HeadTailOfSubSeq
<1> QED
  BY <1>2, <1>3, <1>4

LEMMA QueueTiled ==
    ASSUME NEW s, NEW rest \in Seq(Packet), Owns(s, rest), Tiled(s), s.err = "none",
           NEW n \in 0 .. Len(s.queue),
           \A j \in 1 .. n, k \in DOMAIN s.streams : \A p \in Lookahead(s)[k] : s.queue[j].packet.dts < p.dts,
           NEW t, t = WriteFirst(s, n)
    PROVE  Tiled(t) /\ t.streams = s.streams /\ LineOf(t) = LineOf(s)
<1> DEFINE entries == SubSeq(s.queue, 1, n)
<1>1. s \in LiveState /\ s.queue \in Seq(Entry) /\ Len(s.queue) \in Nat
  BY StateFields DEF Owns
<1>2. entries \in Seq(Entry) /\ Len(entries) = n
  BY <1>1, RangeOfSplit
<1>3. t = Tiling!Fold(rest, s, entries)
  BY DEF WriteFirst, Tiling!Fold, WriteNext, FoldLeft, MapThenFoldSet, Max, Tiling!Latest
<1>4. TilesSoFar(rest, s, entries, 0, s)
  BY <1>1, SubSeqFull DEF TilesSoFar
<1>5. \A m \in 1 .. n : entries[m] = s.queue[m] /\ m \in 1 .. Len(s.queue)
  BY <1>1, SubSeqProperties
<1> HIDE DEF entries
<1>6. ASSUME NEW m \in 1 .. n, NEW u, TilesSoFar(rest, s, entries, m - 1, u)
      PROVE  TilesSoFar(rest, s, entries, m, WriteNext(rest, u, entries[m]))
  <2> DEFINE v == WriteNext(rest, u, entries[m])
  <2>1. Owns(u, rest) /\ Tiled(u) /\ u.streams = s.streams /\ LineOf(u) = LineOf(s)
        /\ (u.err = "none" => u.queue = SubSeq(s.queue, (m - 1) + 1, Len(s.queue)))
    BY <1>6 DEF TilesSoFar
  <2>2. CASE u.err # "none"
    BY <2>1, <2>2 DEF WriteNext, TilesSoFar, v
  <2>3. CASE u.err = "none"
    <3>1. /\ u.queue # <<>> /\ u.queue[1] = s.queue[m]
          /\ Tail(u.queue) = SubSeq(s.queue, m + 1, Len(s.queue))
      BY <1>1, <1>5, <2>1, <2>3, SubSeqNext
    <3>2. v = WriteQueued([u EXCEPT !.queue = Tail(@)], u.queue[1])
      BY <1>5, <2>3, <3>1 DEF WriteNext
    <3> HIDE DEF v
    <3>4. Offers(u, v)
      BY <2>1, <3>1, <3>2, OneOffered DEF Owns
    <3>7. Tiled(v) /\ v.streams = u.streams /\ LineOf(v) = LineOf(u)
      BY <2>1, <2>3, <3>1, <3>4, OneTiled DEF Owns, Lookahead
    <3> QED
      BY <2>1, <3>1, <3>2, <3>7, OneWritten DEF TilesSoFar, v
  <2> QED
    BY <2>2, <2>3
<1>7. TilesSoFar(rest, s, entries, Len(entries), Tiling!Fold(rest, s, entries))
  BY <1>2, <1>4, <1>6, Tiling!FoldInvariant, NaturalsOrdered
<1> QED
  BY <1>3, <1>7 DEF TilesSoFar

-----------------------------------------------------------------------------
(* flushReady writes what comes before all packets held back.              *)

LEMMA LeastOf ==
    ASSUME NEW n \in Nat \ {0}, NEW f, \A i \in 1 .. n : f[i] \in Int
    PROVE  \E i \in 1 .. n : \A k \in 1 .. n : f[i] <= f[k]
<1> DEFINE Q == {m \in Nat : m = 0 \/ \E i \in 1 .. m : \A k \in 1 .. m : f[i] <= f[k]}
<1>1. 0 \in Q
  OBVIOUS
<1>2. ASSUME NEW m \in 1 .. n, m - 1 \in Q
      PROVE  m \in Q
  BY <1>2
<1> HIDE DEF Q
<1> QED
  BY <1>1, <1>2, Induction DEF Q

\* A set of positions with all below each of its own.
LEMMA LowerSet ==
    ASSUME NEW n \in Nat, NEW T, T \subseteq 1 .. n, \A j \in T, k \in 1 .. n : k < j => k \in T
    PROVE  Cardinality(T) \in 0 .. n /\ T = 1 .. Cardinality(T)
<1> DEFINE U == (1 .. n + 1) \ T
<1>1. U \subseteq Nat /\ U # {}
  OBVIOUS
<1>2. PICK m \in U : \A k \in U : m <= k
  BY <1>1, LeastNatural
<1>3. m - 1 \in 0 .. n /\ m \in 1 .. n + 1 /\ m \notin T
  BY <1>2
<1>4. T = 1 .. m - 1
  <2>1. ASSUME NEW k \in 1 .. m - 1 PROVE k \in T
    BY <1>2, <1>3
  <2>2. ASSUME NEW k \in T PROVE k \in 1 .. m - 1
    BY <1>3
  <2> QED
    BY <2>1, <2>2
<1> QED
  BY <1>3, <1>4, FS_Interval

LEMMA FrontierIs ==
    ASSUME NEW s \in LiveState, NEW i \in DOMAIN s.streams,
           \A k \in DOMAIN s.streams : s.streams[k].pending # <<>>
    PROVE  /\ Min({s.streams[k].pending[1].dts : k \in DOMAIN s.streams}) \in Int
           /\ \A k \in DOMAIN s.streams :
                 Min({s.streams[j].pending[1].dts : j \in DOMAIN s.streams}) <= s.streams[k].pending[1].dts
<1> DEFINE n == Len(s.streams)
           f == [k \in 1 .. n |-> s.streams[k].pending[1].dts]
           T == {s.streams[k].pending[1].dts : k \in DOMAIN s.streams}
<1>1. DOMAIN s.streams = 1 .. n /\ n \in Nat \ {0}
  <2>1. DOMAIN s.streams = 1 .. n /\ n \in Nat
    BY StateFields
  <2>2. i \in 1 .. n
    BY <2>1
  <2> HIDE DEF n
  <2> QED
    BY <2>1, <2>2
<1>2. \A k \in 1 .. n : s.streams[k].pending[1].dts \in Int
  <2> SUFFICES ASSUME NEW k \in 1 .. n PROVE s.streams[k].pending[1].dts \in Int
    OBVIOUS
  <2>1. s.streams[k].pending \in Seq(Packet) /\ s.streams[k].pending # <<>>
    BY <1>1, StateFields, StreamFields
  <2>2. s.streams[k].pending[1] \in Packet
    BY <2>1
  <2> QED
    BY <2>2 DEF Packet
<1>3. PICK m \in 1 .. n : \A k \in 1 .. n : f[m] <= f[k]
  BY <1>1, <1>2, LeastOf
<1> QED
  BY <1>1, <1>2, <1>3 DEF Min

LEMMA ReadyTiled ==
    ASSUME NEW s, NEW rest \in Seq(Packet), Owns(s, rest), Tiled(s), s.err = "none",
           NEW i \in DOMAIN s.streams, NEW t, t = FlushReady(s)
    PROVE  /\ Tiled(t) /\ t.streams = s.streams /\ LineOf(t) = LineOf(s)
           /\ t.out = s.out \/ \A k \in DOMAIN s.streams : Lookahead(s)[k] # {}
<1>1. s \in LiveState /\ s.queue \in Seq(Entry) /\ Len(s.queue) \in Nat /\ DOMAIN s.queue = 1 .. Len(s.queue)
  <2>1. s \in LiveState /\ s.queue \in Seq(Entry)
    BY StateFields DEF Owns
  <2> QED
    BY <2>1
<1>2. CASE \E k \in DOMAIN s.streams : s.streams[k].pending = <<>>
  BY <1>2 DEF FlushReady
<1>3. CASE \A k \in DOMAIN s.streams : s.streams[k].pending # <<>>
  <2> DEFINE frontier == Min({s.streams[k].pending[1].dts : k \in DOMAIN s.streams})
             below == {j \in DOMAIN s.queue : s.queue[j].packet.dts < frontier}
             n == Cardinality(below)
  <2>1. frontier \in Int /\ \A k \in DOMAIN s.streams : frontier <= s.streams[k].pending[1].dts
    BY <1>1, <1>3, FrontierIs
  <2>2. t = WriteFirst(s, n)
    BY <1>3 DEF FlushReady
  <2> HIDE DEF frontier
  <2>3. \A j \in 1 .. Len(s.queue) : s.queue[j].packet.dts \in Int
    <3>1. \A j \in 1 .. Len(s.queue) : s.queue[j] \in Entry
      BY <1>1
    <3> QED
      BY <3>1 DEF Entry, Packet
  <2>4. \A j \in below, k \in 1 .. Len(s.queue) : k < j => k \in below
    <3> SUFFICES ASSUME NEW j \in below, NEW k \in 1 .. Len(s.queue), k < j
                 PROVE  s.queue[k].packet.dts < frontier
      BY <1>1
    <3> QED
      BY <1>1, <2>1, <2>3 DEF Tiled, InOrder, Before
  <2>5. n \in 0 .. Len(s.queue) /\ below = 1 .. n
    BY <1>1, <2>4, LowerSet
  <2>6. \A k \in DOMAIN s.streams : /\ Lookahead(s)[k] # {}
                                    /\ \A p \in Lookahead(s)[k] : p = s.streams[k].pending[1] /\ p.dts \in Int
    <3> SUFFICES ASSUME NEW k \in DOMAIN s.streams
                 PROVE  /\ Lookahead(s)[k] # {}
                        /\ \A p \in Lookahead(s)[k] : p = s.streams[k].pending[1] /\ p.dts \in Int
      OBVIOUS
    <3>1. s.streams[k].pending \in Seq(Packet) /\ Len(s.streams[k].pending) <= 1 /\ Lookahead(s)[k] = Range(s.streams[k].pending)
      BY <1>1, StateFields, StreamFields DEF Owns, OnePending, Lookahead
    <3>2. Len(s.streams[k].pending) = 1 /\ DOMAIN s.streams[k].pending = {1} /\ s.streams[k].pending[1] \in Packet
      <4> DEFINE a == s.streams[k].pending
      <4>1. a \in Seq(Packet) /\ a # <<>> /\ Len(a) <= 1
        BY <1>3, <3>1
      <4> HIDE DEF a
      <4>2. Len(a) \in Nat /\ Len(a) # 0 /\ DOMAIN a = 1 .. Len(a)
        BY <4>1
      <4>3. Len(a) = 1
        BY <4>1, <4>2
      <4> QED
        BY <4>1, <4>2, <4>3 DEF a
    <3> QED
      BY <3>1, <3>2 DEF Packet, Range
  <2>7. ASSUME NEW j \in 1 .. n, NEW k \in DOMAIN s.streams, NEW p \in Lookahead(s)[k]
        PROVE  s.queue[j].packet.dts < p.dts
    BY <1>1, <2>1, <2>3, <2>5, <2>6
  <2> HIDE DEF n
  <2> QED
    BY <2>2, <2>5, <2>6, <2>7, QueueTiled
<1> QED
  BY <1>2, <1>3

-----------------------------------------------------------------------------
(* completePacket keeps the order.                                         *)

EntryOf(p, duration) == [packet |-> p, duration |-> duration]

\* The entry e is put in its place in the queue.
Places(s, e, t) ==
    /\ t.out = s.out /\ t.streams = s.streams
    /\ \E at \in 1 .. Len(s.queue) + 1 :
          /\ t.queue = InsertAt(s.queue, at, e)
          /\ at <= Len(s.queue) => s.queue[at].packet.dts > e.packet.dts
          /\ \A j \in 1 .. Len(s.queue) : j < at => ~(s.queue[j].packet.dts > e.packet.dts)

LEMMA EnqueuePlaces ==
    ASSUME NEW s \in LiveState, NEW p \in Packet, NEW duration \in Int, NEW t, t = Enqueue(s, p, duration)
    PROVE  Places(s, EntryOf(p, duration), t)
<1> DEFINE stamps == [j \in DOMAIN s.queue |-> s.queue[j].packet.dts]
           at == SearchIndex(stamps, p.dts)
           e == EntryOf(p, duration)
           r == [s EXCEPT !.queue = InsertAt(@, at, e)]
<1>1. IsLive(s) /\ s.queue \in Seq(Entry) /\ Len(s.queue) \in Nat
  BY StateShape, StateFields
<1>2. Len(stamps) = Len(s.queue) /\ \A j \in 1 .. Len(s.queue) : stamps[j] = s.queue[j].packet.dts
  BY <1>1
<1>3. t = IF ~s.closed /\ Len(r.queue) > MaxInterleavePackets THEN [r EXCEPT !.err = "interleave full"] ELSE r
  BY DEF Enqueue, EntryOf
<1> HIDE DEF stamps
<1>4. /\ at \in 1 .. Len(s.queue) + 1
      /\ at <= Len(s.queue) => stamps[at] > p.dts
      /\ \A j \in 1 .. Len(s.queue) : j < at => ~(stamps[j] > p.dts)
  BY <1>1, <1>2, SearchFinds
<1> HIDE DEF at
<1>5. e.packet = p
  BY DEF EntryOf
<1> HIDE DEF e
<1>6. r.streams = s.streams /\ r.queue = InsertAt(s.queue, at, e) /\ r.out = s.out
  BY <1>1 DEF IsLive
<1>7. IsLive(r)
  BY <1>1, ShapeKept
<1> HIDE DEF r
<1>8. t.streams = r.streams /\ t.queue = r.queue /\ t.out = r.out
  BY <1>3, <1>7 DEF IsLive
<1> QED
  BY <1>2, <1>4, <1>5, <1>6, <1>8 DEF e, Places

LEMMA PlacedInOrder ==
    ASSUME NEW s \in LiveState, NEW e \in Entry, NEW t, Places(s, e, t), InOrder(s.out, s.queue),
           \A x \in LineOf(s) : x.packet.stream = e.packet.stream => x.packet.dts < e.packet.dts,
           \A x \in Sent(s.out) : x.packet.dts < e.packet.dts
    PROVE  InOrder(t.out, t.queue) /\ LineOf(t) = LineOf(s) \cup {e}
<1>1. s.out \in Seq(Offer) /\ s.queue \in Seq(Entry)
  BY StateFields
<1>2. PICK at \in 1 .. Len(s.queue) + 1 :
          /\ t.queue = InsertAt(s.queue, at, e)
          /\ at <= Len(s.queue) => s.queue[at].packet.dts > e.packet.dts
          /\ \A j \in 1 .. Len(s.queue) : j < at => ~(s.queue[j].packet.dts > e.packet.dts)
  BY DEF Places
<1> QED
  BY <1>1, <1>2, QueueInOrder DEF LineOf, Places, Line

\* A duration derived from the next packet ends where that one starts.
LEMMA DurationSpans ==
    ASSUME NEW prev \in Packet, NEW p \in Packet, NEW last \in Int,
           NEW d, d = FirstPositive(<<prev.dur, Derived(prev, p), last, DefaultPacket>>)
    PROVE  Spans(EntryOf(prev, d), p)
<1> SUFFICES ASSUME prev.dur = 0, ~p.disc, prev.dts < p.dts, p.dts - prev.dts <= GapThreshold
             PROVE  prev.dts + d = p.dts
  BY DEF Spans, EntryOf
<1> DEFINE gap == p.dts - prev.dts
           durations == <<prev.dur, Derived(prev, p), last, DefaultPacket>>
           positive == {j \in DOMAIN durations : durations[j] > 0}
<1>1. gap \in Int /\ gap > 0 /\ prev.dts + gap = p.dts /\ GapThreshold \in Int
  BY LiveAssumption DEF Packet
<1>3. DOMAIN durations = 1 .. 4 /\ durations[1] = 0 /\ durations[2] = gap
  BY <1>1 DEF Derived, Packet
<1> HIDE DEF durations, gap
<1>4. positive \subseteq Nat /\ 2 \in positive /\ 1 \notin positive /\ 0 \notin positive
  BY <1>1, <1>3
<1>5. d = durations[Min(positive)]
  BY <1>4 DEF FirstPositive, durations
<1> HIDE DEF positive
<1>6. Min(positive) = 2
  <2>1. Min(positive) \in positive /\ Min(positive) <= 2
    BY <1>4, MinIs
  <2>2. Min(positive) \in Nat /\ Min(positive) # 0 /\ Min(positive) # 1
    BY <1>4, <2>1
  <2> QED
    BY <2>1, <2>2
<1> QED
  BY <1>1, <1>3, <1>5, <1>6

\* The packet held back for stream i is put in the queue with this duration.
Requeues(s, t, i, e) ==
    /\ e \in Entry /\ s.streams[i].pending = <<e.packet>>
    /\ \E u \in LiveState : u.out = s.out /\ u.queue = s.queue /\ Places(u, e, t)

LEMMA PendingPlaced ==
    ASSUME NEW s, NEW hand, Owns(s, hand), NEW i \in DOMAIN s.streams, s.streams[i].pending # <<>>,
           NEW p \in Packet, NEW t, t = CompletePending(s, i, p)
    PROVE  \E e \in Entry : Requeues(s, t, i, e) /\ Spans(e, p)
<1> DEFINE old == s.streams[i]
           prev == old.pending[1]
           duration == FirstPositive(<<prev.dur, Derived(prev, p), old.lastDuration, DefaultPacket>>)
           d == IF duration > 0 THEN duration ELSE old.lastDuration
           st == PendingGone(old, d)
           u == WithStream(s, i, st)
<1>1. s \in LiveState
  BY DEF Owns
<1>2. old \in StreamState /\ old.lastDuration \in Int
  BY <1>1, StateFields, StreamFields
<1>3. prev \in Packet
  BY <1>2, StreamFields, IdsOfTail
<1>4. duration \in Int
  <2>1. prev.dur \in Int /\ prev.dts \in Int /\ p.dts \in Int /\ DefaultPacket \in Int
    BY <1>3, LiveAssumption DEF Packet
  <2>2. Derived(prev, p) \in Int
    BY <2>1 DEF Derived
  <2> DEFINE a == prev.dur  b == Derived(prev, p)  c == old.lastDuration
  <2>3. a \in Int /\ b \in Int /\ c \in Int
    BY <1>2, <2>1, <2>2
  <2> HIDE DEF a, b, c
  <2>4. <<a, b, c, DefaultPacket>> \in Seq(Int)
    BY <2>1, <2>3
  <2> QED
    BY <2>4, FirstPositiveIsInt DEF a, b, c
<1>5. d \in Int
  BY <1>2, <1>4
<1>6. st = PendingGone(s.streams[i], d) /\ u = WithStream(s, i, st)
       /\ prev = s.streams[i].pending[1]
  OBVIOUS
<1>7. t = Enqueue(u, prev, duration)
  <2>1. u = [s EXCEPT !.streams[i].pending = <<>>, !.streams[i].lastDuration = IF duration > 0 THEN duration ELSE @]
    BY <1>1, StateShape, ZenonT(30) DEF IsLive, WithStream, PendingGone
  <2> QED
    BY <2>1 DEF CompletePending
<1>8. Spans(EntryOf(prev, duration), p)
  BY <1>2, <1>3, DurationSpans
<1> HIDE DEF duration, d, u, st, prev
<1>9. Owns(u, <<prev>> \o hand) /\ InStream(s, u, i) /\ s.streams[i].pending = <<prev>>
  BY <1>5, <1>6, PendingTaken
<1> DEFINE e == EntryOf(prev, duration)
<1>10. u \in LiveState /\ u.out = s.out /\ u.queue = s.queue
  BY <1>9 DEF Owns, InStream
<1>11. Places(u, e, t)
  BY <1>3, <1>4, <1>7, <1>10, EnqueuePlaces
<1>12. e \in Entry /\ e.packet = prev
  BY <1>3, <1>4 DEF Entry, EntryOf
<1> HIDE DEF e
<1> QED
  BY <1>8, <1>9, <1>10, <1>11, <1>12 DEF Requeues, e

\* What is in order after the packet held back was queued.
LEMMA RequeuedInOrder ==
    ASSUME NEW s \in LiveState, NEW i \in DOMAIN s.streams, NEW e, NEW t, Requeues(s, t, i, e), Tiled(s)
    PROVE  /\ t.out = s.out /\ InOrder(t.out, t.queue) /\ LineOf(t) = LineOf(s) \cup {e}
           /\ Lookahead(s)[i] = {e.packet} /\ e \in Entry
<1>1. e \in Entry /\ s.streams[i].pending = <<e.packet>>
  BY DEF Requeues
<1>2. PICK u \in LiveState : u.out = s.out /\ u.queue = s.queue /\ Places(u, e, t)
  BY DEF Requeues
<1>3. Lookahead(s)[i] = {e.packet}
  BY <1>1, RangeOne DEF Entry, Lookahead
<1>4. DOMAIN Lookahead(s) = DOMAIN s.streams /\ HeldLast(Sent(s.out), LineOf(s), Lookahead(s)) /\ InOrder(s.out, s.queue)
  BY DEF Lookahead, Tiled, LineOf
<1>6. LineOf(u) = LineOf(s)
  BY <1>2 DEF LineOf
<1> QED
  BY <1>1, <1>2, <1>3, <1>4, <1>6, PlacedInOrder DEF Places, HeldLast

\* A packet for stream i that comes after all that have passed its Aligner.
Comes(s, i, p) == p.stream = i /\ Precede(Passed(s, i), {p})

LEMMA HeldTiled ==
    ASSUME NEW s \in LiveState, NEW i \in DOMAIN s.streams, NEW p \in Packet,
           Tiled(s), Fronted(s), s.err = "none", Comes(s, i, p),
           NEW h \in LiveState, DOMAIN h.streams = DOMAIN s.streams, h.out = s.out,
           h.streams[i].pending = <<p>>,
           \A k \in DOMAIN s.streams : k # i => h.streams[k].pending = s.streams[k].pending,
           \/ s.streams[i].pending = <<>> /\ h.queue = s.queue
           \/ \E r, e : r.queue = h.queue /\ Requeues(s, r, i, e) /\ Spans(e, p)
    PROVE  /\ Tiled(h) /\ Fronted(h)
           /\ Extends(LineOf(s), Lookahead(s), i, p, LineOf(h), Lookahead(h))
<1> DEFINE held == Lookahead(s)
           after == Lookahead(h)
           line == LineOf(s)
           sent == Sent(s.out)
<1>1. /\ s.out \in Seq(Offer) /\ s.queue \in Seq(Entry) /\ DOMAIN held = DOMAIN s.streams /\ Backs(held)
      /\ \A k \in DOMAIN s.streams : held[k] = Range(s.streams[k].pending)
      /\ line \in SUBSET Entry /\ sent \in SUBSET line
  BY Views
<1>2. DOMAIN after = DOMAIN s.streams /\ \A k \in DOMAIN s.streams : after[k] = Range(h.streams[k].pending)
  BY DEF Lookahead
<1>3. after[i] = {p} /\ \A k \in DOMAIN held : k # i => after[k] = held[k]
  BY <1>1, <1>2, RangeOne
<1>4. after = [held EXCEPT ![i] = {p}]
  BY <1>1, <1>2, <1>3 DEF Lookahead
<1>5. p.stream = i /\ \A x \in Behind(line, held, i) : x.dts < p.dts
  BY DEF Comes, Precede, Passed, LineOf
<1>6. HeldLast(sent, line, held) /\ AllSpan(line, held)
  BY DEF Tiled, LineOf
<1>7. AllWritten(h.out, h.err)
  BY DEF Tiled, AllWritten
<1>8. CASE s.streams[i].pending = <<>> /\ h.queue = s.queue
  <2>1. held[i] = {}
    BY <1>1, <1>8, RangeEmpty
  <2>2. s.out = <<>> /\ Lined(line, i) = {}
    BY <2>1 DEF Fronted, LineOf
  <2>3. sent = {}
    BY <1>1, <2>2, SentAre
  <2>4. LineOf(h) = line /\ h.out = s.out
    BY <1>8 DEF LineOf
  <2> HIDE DEF held, after, line, sent
  <2>5. HeldLast({}, line, after) /\ AllSpan(line, after) /\ Extends(line, held, i, p, line, after)
    BY <1>1, <1>4, <1>5, <1>6, <2>1, <2>2, <2>3, FirstHeld
  <2>7. Tiled(h)
    BY <1>7, <1>8, <2>3, <2>4, <2>5 DEF Tiled, LineOf, after, sent
  <2> QED
    BY <1>1, <1>2, <1>3, <1>8, <2>2, <2>4, <2>5, <2>7 DEF held, after, line, Fronted, LineOf
<1>9. CASE \E r, e : r.queue = h.queue /\ Requeues(s, r, i, e) /\ Spans(e, p)
  <2>1. PICK r, e : r.queue = h.queue /\ Requeues(s, r, i, e) /\ Spans(e, p)
    BY <1>9
  <2>2. r.out = s.out /\ InOrder(r.out, r.queue) /\ LineOf(r) = line \cup {e} /\ held[i] = {e.packet} /\ e \in Entry
    BY <2>1, RequeuedInOrder
  <2>3. LineOf(h) = line \cup {e} /\ InOrder(h.out, h.queue)
    BY <2>1, <2>2 DEF LineOf
  <2> HIDE DEF held, after, line, sent
  <2>4. /\ HeldLast(sent, line \cup {e}, after) /\ AllSpan(line \cup {e}, after)
        /\ Extends(line, held, i, p, line \cup {e}, after)
    BY <1>1, <1>4, <1>5, <1>6, <2>1, <2>2, NextHeld
  <2> QED
    BY <1>1, <1>3, <1>7, <2>3, <2>4 DEF held, after, line, Tiled, LineOf, sent, Fronted, Extends
<1> QED
  BY <1>8, <1>9

\* What completePacket does with a packet p of stream i.
Passing(s, t, i, p) ==
    /\ Tiled(t) /\ Fronted(t) /\ t.reported = s.reported
    /\ \A k \in DOMAIN s.streams : k # i => Passed(t, k) = Passed(s, k)
    /\ Passed(s, i) \subseteq Passed(t, i) /\ Passed(t, i) \subseteq Passed(s, i) \cup {p}
    /\ s.err = "none" => p \in Passed(t, i)

LEMMA CompletedTiled ==
    ASSUME NEW s, NEW p \in Packet, NEW rest \in Seq(Packet), Owns(s, <<p>> \o rest),
           NEW i \in DOMAIN s.streams, Tiled(s), Fronted(s), s.err = "none" => Comes(s, i, p),
           NEW t, t = CompletePacket(s, i, p)
    PROVE  Passing(s, t, i, p)
<1>1. CASE s.err # "none"
  BY <1>1, Released, Shown DEF CompletePacket, Shows, Passing
<1>2. CASE s.err = "none"
  <2> DEFINE all == <<p>> \o rest
             r == IF s.streams[i].pending = <<>> THEN s ELSE CompletePending(s, i, p)
             st == PendingIs(r.streams[i], p)
             h == WithStream(r, i, st)
  <2>1. t = IF h.err = "none" THEN FlushReady(h) ELSE h
    BY <1>2 DEF CompletePacket, WithStream, PendingIs
  <2>3. /\ Owns(r, all) /\ Len(r.streams) = Len(s.streams) /\ DOMAIN r.streams = DOMAIN s.streams
        /\ \A k \in DOMAIN s.streams : k # i => r.streams[k] = s.streams[k]
        /\ r.streams[i].pending = <<>> /\ r.out = s.out /\ r.reported = s.reported
        /\ \/ s.streams[i].pending = <<>> /\ r.queue = s.queue
           \/ \E e : Requeues(s, r, i, e) /\ Spans(e, p)
    <3>1. CASE s.streams[i].pending = <<>>
      BY <3>1
    <3>2. CASE s.streams[i].pending # <<>>
      <4>1. r = CompletePending(s, i, p) /\ Owns(s, all)
        BY <3>2
      <4> HIDE DEF r, all
      <4>2. Owns(r, all) /\ CompletesPending(s, r, i)
        BY <3>2, <4>1, PendingQueued
      <4> QED
        BY <3>2, <4>1, <4>2, PendingPlaced DEF CompletesPending
    <3> QED
      BY <3>1, <3>2
  <2>4. Owns(r, <<p>> \o rest) /\ i \in DOMAIN r.streams /\ r.streams[i].pending = <<>>
    BY <2>3
  <2>5. st = PendingIs(r.streams[i], p) /\ h = WithStream(r, i, st)
    OBVIOUS
  <2> HIDE DEF r, all, st, h
  <2>6. Owns(h, rest) /\ InStream(r, h, i) /\ h.streams[i] = st
    BY <2>4, <2>5, HeldBack
  <2>6a. st.pending = <<p>>
    <3>1. r.streams[i] \in StreamState
      BY <2>4, StateFields DEF Owns
    <3> QED
      BY <2>5, <3>1, StreamFields DEF PendingIs
  <2>7. /\ h \in LiveState /\ DOMAIN h.streams = DOMAIN s.streams /\ h.out = s.out /\ h.reported = s.reported
        /\ h.streams[i].pending = <<p>> /\ h.queue = r.queue
        /\ \A k \in DOMAIN s.streams : k # i => h.streams[k].pending = s.streams[k].pending
    BY <2>3, <2>6, <2>6a DEF InStream, Owns
  <2>10. Tiled(h) /\ Fronted(h) /\ Extends(LineOf(s), Lookahead(s), i, p, LineOf(h), Lookahead(h))
    BY <1>2, <2>3, <2>7, HeldTiled DEF Owns
  <2>11. /\ Tiled(t) /\ t.streams = h.streams /\ LineOf(t) = LineOf(h) /\ t.reported = h.reported
         /\ t.out = h.out \/ \A k \in DOMAIN h.streams : Lookahead(h)[k] # {}
    BY <2>1, <2>6, <2>7, <2>10, ReadyFlushed, ReadyTiled
  <2> QED
    BY <2>7, <2>10, <2>11 DEF Passing, Fronted, LineOf, Extends, Passed, Lookahead
<1> QED
  BY <1>1, <1>2

-----------------------------------------------------------------------------
(* What the Aligner hands on at once is completed in order.                *)

\* Packets of X have passed the Aligner of stream i.
PassesAll(s, t, i, X) ==
    /\ Tiled(t) /\ Fronted(t) /\ OnlyCompletes(s, t, i)
    /\ \A k \in DOMAIN s.streams : k # i => Passed(t, k) = Passed(s, k)
    /\ Passed(s, i) \subseteq Passed(t, i) /\ Passed(t, i) \subseteq Passed(s, i) \cup X

LEMMA PassesAllTwice ==
    ASSUME NEW s, NEW u, NEW t, NEW i \in DOMAIN s.streams, NEW X, NEW Y,
           PassesAll(s, u, i, X), PassesAll(u, t, i, Y)
    PROVE  PassesAll(s, t, i, X \cup Y)
BY CompletesTwice DEF PassesAll, OnlyCompletes, Kept, Framed

\* A sequence of packets for stream i, in order and after what has passed its Aligner.
AllCome(s, i, packets) ==
    /\ Rising(packets) /\ Precede(Passed(s, i), Range(packets))
    /\ \A x \in Range(packets) : x.stream = i

FirstOf(packets, n) == {packets[j] : j \in 1 .. n}

LEMMA FirstNext ==
    ASSUME NEW packets \in Seq(Packet), NEW n \in 1 .. Len(packets)
    PROVE  /\ FirstOf(packets, n) = FirstOf(packets, n - 1) \cup {packets[n]}
           /\ packets[n] \in Packet /\ packets[n] \in Range(packets) /\ n \in Nat /\ Len(packets) \in Nat
BY DEF Range, FirstOf

LEMMA FirstIsAll ==
    ASSUME NEW packets \in Seq(Packet)
    PROVE  FirstOf(packets, Len(packets)) = Range(packets) /\ FirstOf(packets, 0) = {}
BY DEF FirstOf, Range

LEMMA NextComes ==
    ASSUME NEW s, NEW t, NEW i \in DOMAIN s.streams, NEW packets \in Seq(Packet), AllCome(s, i, packets),
           NEW n \in 1 .. Len(packets), Passed(t, i) \subseteq Passed(s, i) \cup FirstOf(packets, n - 1)
    PROVE  Comes(t, i, packets[n])
BY FirstNext DEF AllCome, FirstOf, Rising, Comes, Precede

LEMMA CompletedPasses ==
    ASSUME NEW s, NEW p \in Packet, NEW rest \in Seq(Packet), Owns(s, <<p>> \o rest),
           NEW i \in DOMAIN s.streams, Tiled(s), Fronted(s), Comes(s, i, p),
           NEW t, t = CompletePacket(s, i, p)
    PROVE  /\ Owns(t, rest) /\ PassesAll(s, t, i, {p}) /\ t.reported = s.reported
           /\ s.err = "none" => p \in Passed(t, i)
BY Completed, CompletedTiled DEF Passing, PassesAll

PassNext(c, t, p) == CompletePacket(t, c[1], p)

PassesSoFar(c, s, packets, n, t) ==
    /\ Owns(t, SubSeq(packets, n + 1, Len(packets)) \o c[2])
    /\ PassesAll(s, t, c[1], FirstOf(packets, n)) /\ t.reported = s.reported
    /\ t.err = "none" => FirstOf(packets, n) \subseteq Passed(t, c[1])

PassingAll == INSTANCE FoldLemmas WITH Op <- PassNext, Inv <- PassesSoFar

LEMMA NoPasses ==
    ASSUME NEW s, NEW i \in DOMAIN s.streams, Tiled(s), Fronted(s)
    PROVE  PassesAll(s, s, i, {})
BY KeptAlways DEF OnlyCompletes, PassesAll

LEMMA AllPassed ==
    ASSUME NEW s, NEW packets \in Seq(Packet), NEW rest \in Seq(Packet), Owns(s, packets \o rest),
           NEW i \in DOMAIN s.streams, Tiled(s), Fronted(s), AllCome(s, i, packets),
           NEW t, t = CompleteAll(s, i, packets)
    PROVE  /\ PassesAll(s, t, i, Range(packets)) /\ t.reported = s.reported
           /\ t.err = "none" => Range(packets) \subseteq Passed(t, i)
<1> DEFINE c == <<i, rest>>
<1>0. c[1] = i /\ c[2] = rest
  OBVIOUS
<1>1. t = PassingAll!Fold(c, s, packets)
  BY DEF CompleteAll, PassingAll!Fold, PassNext, FoldLeft, MapThenFoldSet, Max, PassingAll!Latest
<1> HIDE DEF c
<1>2. PassesSoFar(c, s, packets, 0, s)
  BY <1>0, HandWhole, NoPasses, FirstIsAll DEF PassesSoFar
<1>3. ASSUME NEW n \in 1 .. Len(packets), NEW u, PassesSoFar(c, s, packets, n - 1, u)
      PROVE  PassesSoFar(c, s, packets, n, PassNext(c, u, packets[n]))
  <2> DEFINE v == PassNext(c, u, packets[n])  p == packets[n]
             left == SubSeq(packets, n + 1, Len(packets)) \o rest
             first == FirstOf(packets, n - 1)
  <2>1. v = CompletePacket(u, i, p) /\ p \in Packet
    BY <1>0 DEF PassNext
  <2>2. /\ Owns(u, SubSeq(packets, (n - 1) + 1, Len(packets)) \o rest) /\ PassesAll(s, u, i, first)
        /\ u.reported = s.reported /\ (u.err = "none" => first \subseteq Passed(u, i))
    BY <1>0, <1>3 DEF PassesSoFar
  <2>3. left \in Seq(Packet) /\ SubSeq(packets, (n - 1) + 1, Len(packets)) \o rest = <<p>> \o left
    BY HandNext
  <2>4. i \in DOMAIN u.streams /\ Tiled(u) /\ Fronted(u)
    BY <2>2 DEF PassesAll, OnlyCompletes, Kept, Framed
  <2>5. Comes(u, i, p)
    BY <2>2, NextComes DEF PassesAll
  <2>6. FirstOf(packets, n) = first \cup {p}
    BY FirstNext
  <2> HIDE DEF v, left, p, first
  <2>8. Owns(v, left) /\ PassesAll(u, v, i, {p}) /\ v.reported = u.reported /\ (u.err = "none" => p \in Passed(v, i))
    BY <2>1, <2>2, <2>3, <2>4, <2>5, CompletedPasses
  <2>11. v.err = "none" => first \cup {p} \subseteq Passed(v, i)
    BY <2>2, <2>8 DEF PassesAll, OnlyCompletes, Kept, Framed
  <2> QED
    BY <1>0, <2>2, <2>6, <2>8, <2>11, PassesAllTwice DEF v, PassesSoFar, left
<1>4. PassesSoFar(c, s, packets, Len(packets), PassingAll!Fold(c, s, packets))
  BY <1>2, <1>3, PassingAll!FoldInvariant, NaturalsOrdered
<1> QED
  BY <1>0, <1>1, <1>4, FirstIsAll DEF PassesSoFar

-----------------------------------------------------------------------------
(* Of audio that waited, what comes before the sync point is dropped.      *)

From(X, sync) == {x \in X : ~(x.dts < sync)}

\* Nothing is counted as dropped but what comes before the sync point.
Cuts(s, t, sync) ==
    \A r \in t.reported : r \in s.reported \/ (r.where = "before sync" /\ r.packet.dts < sync)

LEMMA DroppedPasses ==
    ASSUME NEW s, NEW p \in Packet, NEW rest \in Seq(Packet), Owns(s, <<p>> \o rest),
           NEW i \in DOMAIN s.streams, Tiled(s), Fronted(s), NEW where \in Where,
           NEW t, t = Drop(s, p, where)
    PROVE  /\ Owns(t, rest) /\ PassesAll(s, t, i, {})
           /\ t.reported = s.reported \cup {[packet |-> p, where |-> where]}
BY DroppedCompletes, Dropped, Shown DEF Shows, OnlyWrites, PassesAll

SiftNext(c, t, p) == FilterNext(c[1], t, p)

SiftsSoFar(c, s, packets, n, t) ==
    /\ Owns(t, SubSeq(packets, n + 1, Len(packets)) \o c[2])
    /\ PassesAll(s, t, c[1], From(FirstOf(packets, n), s.streams[c[1]].aligner.sync))
    /\ Cuts(s, t, s.streams[c[1]].aligner.sync)

Sifting == INSTANCE FoldLemmas WITH Op <- SiftNext, Inv <- SiftsSoFar

LEMMA OneSifted ==
    ASSUME NEW s, NEW p \in Packet, NEW rest \in Seq(Packet), Owns(s, <<p>> \o rest),
           NEW i \in DOMAIN s.streams, Tiled(s), Fronted(s), Comes(s, i, p),
           NEW t, t = FilterNext(i, s, p), NEW sync, sync = s.streams[i].aligner.sync
    PROVE  Owns(t, rest) /\ PassesAll(s, t, i, From({p}, sync)) /\ Cuts(s, t, sync)
<1>1. CASE p.dts < sync
  <2> DEFINE where == "before sync"
  <2>1. t = Drop(s, p, where) /\ where \in Where
    BY <1>1 DEF FilterNext, Where
  <2> HIDE DEF where
  <2>2. Owns(t, rest) /\ PassesAll(s, t, i, {}) /\ t.reported = s.reported \cup {[packet |-> p, where |-> where]}
    BY <2>1, DroppedPasses
  <2>3. Cuts(s, t, sync)
    <3> SUFFICES ASSUME NEW r \in t.reported, r \notin s.reported
                 PROVE  r.where = "before sync" /\ r.packet.dts < sync
      BY DEF Cuts
    <3>2. r.packet = p /\ r.where = where
      BY <2>2
    <3> QED
      BY <1>1, <3>2 DEF where
  <2> QED
    BY <1>1, <2>2, <2>3 DEF From
<1>2. CASE ~(p.dts < sync)
  <2>2. Owns(t, rest) /\ PassesAll(s, t, i, {p}) /\ t.reported = s.reported
    BY <1>2, CompletedPasses DEF FilterNext
  <2> QED
    BY <1>2, <2>2 DEF Cuts, From
<1> QED
  BY <1>1, <1>2

LEMMA AllSifted ==
    ASSUME NEW s, NEW packets \in Seq(Packet), NEW rest \in Seq(Packet), Owns(s, packets \o rest),
           NEW i \in DOMAIN s.streams, Tiled(s), Fronted(s), AllCome(s, i, packets),
           NEW t, t = Filtered(s, i, packets), NEW sync, sync = s.streams[i].aligner.sync
    PROVE  Owns(t, rest) /\ PassesAll(s, t, i, From(Range(packets), sync)) /\ Cuts(s, t, sync)
<1> DEFINE c == <<i, rest>>
<1>0. c[1] = i /\ c[2] = rest
  OBVIOUS
<1>1. t = Sifting!Fold(c, s, packets)
  BY DEF Filtered, Sifting!Fold, SiftNext, FilterNext, FoldLeft, MapThenFoldSet, Max, Sifting!Latest
<1> HIDE DEF c
<1>2. SiftsSoFar(c, s, packets, 0, s)
  BY <1>0, HandWhole, FirstIsAll, NoPasses DEF From, Cuts, SiftsSoFar
<1>3. ASSUME NEW n \in 1 .. Len(packets), NEW u, SiftsSoFar(c, s, packets, n - 1, u)
      PROVE  SiftsSoFar(c, s, packets, n, SiftNext(c, u, packets[n]))
  <2> DEFINE v == SiftNext(c, u, packets[n])  p == packets[n]
             left == SubSeq(packets, n + 1, Len(packets)) \o rest
             first == FirstOf(packets, n - 1)
  <2>1. v = FilterNext(i, u, p) /\ p \in Packet
    BY <1>0 DEF SiftNext
  <2>2. /\ Owns(u, SubSeq(packets, (n - 1) + 1, Len(packets)) \o rest)
        /\ PassesAll(s, u, i, From(first, sync)) /\ Cuts(s, u, sync)
    BY <1>0, <1>3 DEF SiftsSoFar
  <2>3. left \in Seq(Packet) /\ SubSeq(packets, (n - 1) + 1, Len(packets)) \o rest = <<p>> \o left
    BY HandNext
  <2>4. i \in DOMAIN u.streams /\ Tiled(u) /\ Fronted(u) /\ sync = u.streams[i].aligner.sync
    BY <2>2 DEF PassesAll, OnlyCompletes, Kept, Framed
  <2>5. Comes(u, i, p)
    BY <2>2, NextComes DEF PassesAll, From
  <2>6. FirstOf(packets, n) = first \cup {p}
    BY FirstNext
  <2> HIDE DEF v, left, p, first
  <2>8. Owns(v, left) /\ PassesAll(u, v, i, From({p}, sync)) /\ Cuts(u, v, sync)
    BY <2>1, <2>2, <2>3, <2>4, <2>5, OneSifted
  <2>9. PassesAll(s, v, i, From(first, sync) \cup From({p}, sync))
    BY <2>2, <2>8, PassesAllTwice
  <2> QED
    BY <1>0, <2>2, <2>6, <2>8, <2>9 DEF v, SiftsSoFar, left, From, Cuts
<1>4. SiftsSoFar(c, s, packets, Len(packets), Sifting!Fold(c, s, packets))
  BY <1>2, <1>3, Sifting!FoldInvariant, NaturalsOrdered
<1> QED
  BY <1>0, <1>1, <1>4, FirstIsAll, HandWhole DEF SiftsSoFar

-----------------------------------------------------------------------------
(* What an Aligner does with a packet.                                     *)

\* A packet for stream i that leaves its Enforcer.
Arrives(s, i, p) ==
    /\ s.started /\ p.stream = i /\ Precede(Beyond(s, i), {p})
    /\ s.streams[i].enforcer.emitted /\ p.dts <= s.streams[i].enforcer.last

\* The other streams are left alone, and stream i is as it should be when p has come to its Aligner.
Walks(s, t, i, p) ==
    /\ Tiled(t) /\ Fronted(t)
    /\ \A k \in DOMAIN s.streams : k # i => t.streams[k] = s.streams[k] /\ Passed(t, k) = Passed(s, k)
    /\ Beyond(t, i) \subseteq Beyond(s, i) \cup {p}
    /\ Waits(t, i) /\ Keyed(t, i)
    /\ t.streams[i].aligner.expects = s.streams[i].aligner.expects

SameMarks(a, b) == b.started = a.started /\ b.sync = a.sync

\* Only a keyframe starts the Aligner of a video.
VideoMarks(a, b, p) ==
    IF ~a.started /\ p.kind = "key" THEN b.started /\ b.sync = p.dts ELSE SameMarks(a, b)

NoneCut(s, t) == \A r \in t.reported : r \in s.reported \/ r.where # "before sync"

\* The packets of an audio stream that passed its Aligner do not come before the sync point, if it waits for one.
InSync(s, t, i) ==
    LET a == s.streams[i].aligner IN
    /\ \A x \in Passed(t, i) : x \in Passed(s, i) \/ ~a.expects \/ (a.started /\ ~(x.dts < a.sync))
    /\ \A r \in t.reported :
          r \in s.reported \/ r.where # "before sync" \/ (a.started /\ r.packet.dts < a.sync)

LEMMA RisingHeld ==
    ASSUME NEW x \in Seq(Packet), Rising(x), NEW p \in Packet, Precede(Range(x), {p}),
           NEW held, held = Append(x, p)
    PROVE  Rising(held) /\ Rising(Tail(held))
<1>1. /\ Len(x) \in Nat /\ DOMAIN x = 1 .. Len(x) /\ held \in Seq(Packet) /\ DOMAIN held = 1 .. Len(x) + 1
      /\ \A j \in 1 .. Len(x) : held[j] = x[j] /\ x[j] \in Range(x)
      /\ held[Len(x) + 1] = p
  BY DEF Range
<1> QED
  BY <1>1 DEF Rising, Precede

\* The Aligner of a stream changes what it holds, and no packet passes it.
LEMMA TurnsShows ==
    ASSUME NEW s, NEW t, NEW i \in DOMAIN s.streams, NEW b, NEW left, Turns(s, t, i, b, left)
    PROVE  /\ Tiled(s) => Tiled(t)
           /\ Fronted(s) => Fronted(t)
           /\ \A k : Passed(t, k) = Passed(s, k)
           /\ t.reported = s.reported /\ t.err = s.err /\ DOMAIN t.streams = DOMAIN s.streams
           /\ t.streams[i].kind = s.streams[i].kind
           /\ \A k \in DOMAIN s.streams : k # i => t.streams[k] = s.streams[k]
BY Shown DEF Turns, Realigned, InStream, Shows

\* What passes at once with nothing waiting in the Aligner.
LEMMA PassesWalks ==
    ASSUME NEW s, NEW i \in DOMAIN s.streams, NEW p, NEW t, PassesAll(s, t, i, {p}),
           s.streams[i].aligner.pending = <<>>, s.streams[i].aligner.cfg = <<>>, Keyed(t, i)
    PROVE  Walks(s, t, i, p) /\ SameMarks(s.streams[i].aligner, t.streams[i].aligner)
BY RangeEmpty DEF PassesAll, OnlyCompletes, Waiting, Rising, Waits, Precede, Beyond, Walks, SameMarks

\* A packet is held or given up.
LEMMA HoldsWalks ==
    ASSUME NEW s, NEW t, NEW i \in DOMAIN s.streams, NEW b, NEW left, Turns(s, t, i, b, left),
           Tiled(s), Fronted(s), Waits(s, i), Keyed(s, i), NEW p,
           p.stream = i, Precede(Beyond(s, i), {p}),
           SameMarks(s.streams[i].aligner, b), b.expects = s.streams[i].aligner.expects,
           Range(b.pending) \cup Range(b.cfg) \subseteq Waiting(s, i) \cup {p},
           Rising(b.pending), Rising(b.cfg),
           b.pending # <<>> => s.streams[i].kind = "audio" /\ b.expects,
           b.cfg # <<>> => s.streams[i].kind = "video" /\ ~b.started
    PROVE  Walks(s, t, i, p)
BY TurnsShows DEF Turns, Waiting, Beyond, Waits, Precede, Keyed, SameMarks, Walks

\* Releasing or dropping afterwards changes nothing of that.
LEMMA ShownWalks ==
    ASSUME NEW s, NEW u, NEW t, NEW i \in DOMAIN s.streams, NEW p, Walks(s, u, i, p),
           t.streams = u.streams, t.out = u.out, t.queue = u.queue, t.err = u.err
    PROVE  Walks(s, t, i, p)
BY Shown DEF Shows, Walks, Waiting, Beyond, Waits, Keyed

LEMMA EmptyWaiting ==
    ASSUME NEW s, NEW i, s.streams[i].aligner.pending = <<>>, s.streams[i].aligner.cfg = <<>>
    PROVE  Waiting(s, i) = {} /\ Beyond(s, i) = Passed(s, i) /\ Rising(s.streams[i].aligner.pending)
           /\ Rising(s.streams[i].aligner.cfg)
BY RangeEmpty DEF Rising, Waiting, Beyond

\* A keyframe of a video, and the configuration before it.
KeyHeld(s, i, p, held) ==
    LET a == s.streams[i].aligner IN
    /\ held = Append(a.cfg, p) /\ a.cfg \in Seq(Packet) /\ a.pending = <<>>
    /\ \A x \in Range(a.cfg) : x.kind = "config"
    /\ p.stream = i /\ Precede(Beyond(s, i), {p}) /\ p.kind = "key"
    /\ s.streams[i].kind = "video"
Handed(held, rest, hand) == rest \in Seq(Packet) /\ hand = held \o rest
LEMMA KeyWalks ==
    ASSUME NEW s, NEW u, NEW i \in DOMAIN s.streams, NEW b, NEW rest, NEW hand, NEW p \in Packet,
           NEW held, KeyHeld(s, i, p, held), Handed(held, rest, hand), Turns(s, u, i, b, hand),
           Tiled(s), Fronted(s), Waits(s, i), Keyed(s, i),
           Begins(s.streams[i].aligner, b, p.dts), NEW t, t = CompleteAll(u, i, held)
    PROVE  /\ Walks(s, t, i, p) /\ NoneCut(s, t)
           /\ t.streams[i].aligner.started /\ t.streams[i].aligner.sync = p.dts
<1> DEFINE cfg == s.streams[i].aligner.cfg
<1>0. /\ held = Append(cfg, p) /\ cfg \in Seq(Packet) /\ cfg = s.streams[i].aligner.cfg
      /\ s.streams[i].aligner.pending = <<>> /\ \A x \in Range(cfg) : x.kind = "config"
      /\ p.stream = i /\ Precede(Beyond(s, i), {p}) /\ p.kind = "key" /\ s.streams[i].kind = "video"
  BY DEF KeyHeld
<1> HIDE DEF cfg
<1>1. held \in Seq(Packet) /\ Range(held) = Range(cfg) \cup {p} /\ Range(cfg) \subseteq Beyond(s, i)
  BY <1>0, HeldIs DEF Beyond, Waiting
<1>2. /\ Tiled(u) /\ Fronted(u) /\ \A k : Passed(u, k) = Passed(s, k)
      /\ u.reported = s.reported /\ u.err = s.err /\ DOMAIN u.streams = DOMAIN s.streams
      /\ u.streams[i].kind = s.streams[i].kind
      /\ \A k \in DOMAIN s.streams : k # i => u.streams[k] = s.streams[k]
  BY TurnsShows
<1>3. Owns(u, held \o rest) /\ u.streams[i].aligner = b /\ i \in DOMAIN u.streams /\ rest \in Seq(Packet)
  BY DEF Turns, Handed
<1>4. AllCome(u, i, held)
  BY <1>0, <1>1, <1>2, RisingHeld DEF Precede, Waits, Beyond, Waiting, AllCome
<1>5. /\ PassesAll(u, t, i, Range(held)) /\ t.reported = u.reported
      /\ t.err = "none" => Range(held) \subseteq Passed(t, i)
  BY <1>1, <1>2, <1>3, <1>4, AllPassed
<1>6. /\ t.streams[i].aligner = b /\ t.streams[i].kind = "video"
      /\ \A k \in DOMAIN s.streams : k # i => t.streams[k] = s.streams[k] /\ Passed(t, k) = Passed(s, k)
      /\ Passed(s, i) \subseteq Passed(t, i) /\ Passed(t, i) \subseteq Passed(s, i) \cup Range(held)
  <2>1. OnlyCompletes(u, t, i) /\ DOMAIN u.streams = DOMAIN s.streams
    BY <1>2, <1>5 DEF PassesAll
  <2>3. ASSUME NEW k \in DOMAIN s.streams, k # i
        PROVE  t.streams[k] = s.streams[k] /\ Passed(t, k) = Passed(s, k)
    BY <1>2, <1>5, <2>1, <2>3 DEF OnlyCompletes, PassesAll
  <2> QED
    BY <1>0, <1>2, <1>3, <1>5, <2>1, <2>3, ZenonT(30) DEF OnlyCompletes, Kept, Framed, PassesAll
<1>7. Waiting(t, i) = {} /\ Beyond(t, i) = Passed(t, i)
      /\ Rising(t.streams[i].aligner.pending) /\ Rising(t.streams[i].aligner.cfg)
  BY <1>0, <1>6, EmptyWaiting, SMTT(30) DEF Begins
<1>8. Waits(t, i)
  BY <1>0, <1>6, <1>7 DEF Waits, Precede, Begins
<1>10. Keyed(t, i)
  BY <1>0, <1>1, <1>5, <1>6, ZenonT(30) DEF Keyed
<1> QED
  BY <1>1, <1>2, <1>5, <1>6, <1>7, <1>8, <1>10 DEF Walks, NoneCut, PassesAll, Begins, Beyond

LEMMA VideoWalks ==
    ASSUME NEW s, NEW p \in Packet, NEW rest \in Seq(Packet), Owns(s, <<p>> \o rest),
           NEW i \in DOMAIN s.streams, NEW t, t = ProcessVideo(s, i, p), s.err = "none",
           Tiled(s), Fronted(s), Waits(s, i), Keyed(s, i), s.streams[i].kind = "video", Genuine(s),
           p.stream = i, Precede(Beyond(s, i), {p})
    PROVE  /\ Walks(s, t, i, p) /\ NoneCut(s, t)
           /\ VideoMarks(s.streams[i].aligner, t.streams[i].aligner, p)
<1> DEFINE a == s.streams[i].aligner
           held == Append(a.cfg, p)
<1>1. a.cfg \in Seq(Packet) /\ a.pending = <<>> /\ \A x \in Range(a.cfg) : x.kind = "config"
  BY StateFields, StreamFields DEF Owns, Waits, Genuine, Awaits
<1>2. /\ held \in Seq(Packet) /\ Range(held) = Range(a.cfg) \cup {p} /\ held # <<>>
      /\ held = Append(a.cfg, p)
  BY <1>1, HeldIs
<1>3. VideoCases(s, t, i, p, held, rest) /\ a = s.streams[i].aligner
  BY VideoSplit
<1> HIDE DEF held, a
<1>4. CASE a.started /\ t = CompletePacket(s, i, p)
  <2>2. Comes(s, i, p)
    BY DEF Comes, Precede, Beyond
  <2>2a. t = CompletePacket(s, i, p)
    BY <1>4
  <2>3. PassesAll(s, t, i, {p}) /\ t.reported = s.reported /\ p \in Passed(t, i)
    BY <2>2, <2>2a, CompletedPasses
  <2> QED
    BY <1>1, <1>3, <1>4, <2>2, <2>3, PassesWalks
       DEF VideoMarks, NoneCut, Waits, Keyed, PassesAll, Comes, Precede
<1>5. CASE /\ ~a.started /\ p.kind = "key"
           /\ \E u, b : Turns(s, u, i, b, held \o rest) /\ Begins(a, b, p.dts) /\ t = CompleteAll(u, i, held)
  <2>1. PICK u, b : Turns(s, u, i, b, held \o rest) /\ Begins(a, b, p.dts) /\ t = CompleteAll(u, i, held)
    BY <1>5
  <2> DEFINE hand == held \o rest
  <2>1a. KeyHeld(s, i, p, held)
    BY <1>1, <1>2, <1>3, <1>5 DEF KeyHeld
  <2>1b. Handed(held, rest, hand) /\ Turns(s, u, i, b, hand)
    BY <2>1 DEF Handed
  <2>1c. Begins(s.streams[i].aligner, b, p.dts)
    BY <1>3, <2>1
  <2> HIDE DEF hand
  <2> QED
    BY <1>3, <1>5, <2>1, <2>1a, <2>1b, <2>1c, KeyWalks DEF VideoMarks
<1>6. CASE /\ ~a.started /\ p.kind = "config"
           /\ \E u, b : /\ Turns(s, u, i, b, <<Head(held)>> \o rest) /\ Configured(a, b, Tail(held))
                        /\ t = Drop(u, Head(held), "config")
  <2> DEFINE where == "config"
  <2>1. PICK u, b : /\ Turns(s, u, i, b, <<Head(held)>> \o rest) /\ Configured(a, b, Tail(held))
                    /\ t = Drop(u, Head(held), where)
    BY <1>6
  <2>1a. where \in Where
    BY DEF Where
  <2>2. Head(held) \in Packet /\ Range(Tail(held)) \subseteq Range(held)
    BY <1>2, OldestIs
  <2>3. Rising(Tail(held)) /\ Rising(a.pending)
    BY <1>1, <1>2, <1>3, RisingHeld DEF Precede, Waits, Beyond, Waiting
  <2>4. /\ SameMarks(s.streams[i].aligner, b) /\ b.expects = s.streams[i].aligner.expects
        /\ Rising(b.pending) /\ Rising(b.cfg) /\ b.pending = <<>> /\ ~b.started
        /\ Range(b.pending) \cup Range(b.cfg) \subseteq Waiting(s, i) \cup {p}
    BY <1>1, <1>2, <1>3, <1>6, <2>1, <2>2, <2>3 DEF Configured, SameMarks, Waiting
  <2>5. Walks(s, u, i, p)
    BY <2>1, <2>4, HoldsWalks
  <2>6. Owns(u, <<Head(held)>> \o rest) /\ i \in DOMAIN u.streams /\ Tiled(u) /\ Fronted(u)
    BY <2>1, <2>5 DEF Turns, Walks
  <2> HIDE DEF where
  <2>7. /\ Owns(t, rest) /\ OnlyWrites(u, t)
        /\ t.queue = u.queue /\ t.err = u.err /\ t.out = u.out
        /\ t.reported = u.reported \cup {[packet |-> Head(held), where |-> where]}
    BY <2>1, <2>1a, <2>2, <2>6, Dropped
  <2>9. u.reported = s.reported /\ u.streams[i].aligner = b
    BY <2>1, TurnsShows DEF Turns
  <2>10. NoneCut(s, t)
    <3> SUFFICES ASSUME NEW r \in t.reported, r \notin s.reported PROVE r.where # "before sync"
      BY DEF NoneCut
    <3>1. r.where = where
      BY <2>7, <2>9
    <3> QED
      BY <3>1 DEF where
  <2> QED
    BY <1>3, <1>6, <2>4, <2>5, <2>7, <2>9, <2>10, ShownWalks DEF VideoMarks, OnlyWrites
<1>7. CASE ~a.started /\ p.kind = "config" /\ \E b : Turns(s, t, i, b, rest) /\ Configured(a, b, held)
  <2>1. PICK b : Turns(s, t, i, b, rest) /\ Configured(a, b, held)
    BY <1>7
  <2>4. /\ SameMarks(s.streams[i].aligner, b) /\ b.expects = s.streams[i].aligner.expects
        /\ Rising(b.pending) /\ Rising(b.cfg) /\ b.pending = <<>> /\ ~b.started
        /\ Range(b.pending) \cup Range(b.cfg) \subseteq Waiting(s, i) \cup {p}
    BY <1>1, <1>2, <1>3, <1>7, <2>1, RisingHeld DEF Configured, SameMarks, Waiting, Precede, Waits, Beyond
  <2> QED
    BY <1>3, <1>7, <2>1, <2>4, HoldsWalks, TurnsShows DEF VideoMarks, NoneCut, Turns
<1>8. CASE ~a.started /\ p.kind = "delta" /\ t = Drop(s, p, "no keyframe")
  <2> DEFINE where == "no keyframe"
  <2>1. where \in Where /\ t = Drop(s, p, where)
    BY <1>8 DEF Where
  <2> HIDE DEF where
  <2>2. /\ Owns(t, rest) /\ OnlyWrites(s, t)
        /\ t.queue = s.queue /\ t.err = s.err /\ t.out = s.out
        /\ t.reported = s.reported \cup {[packet |-> p, where |-> where]}
    BY <2>1, Dropped
  <2>3. Walks(s, s, i, p)
    BY DEF Walks
  <2>5. NoneCut(s, t)
    <3> SUFFICES ASSUME NEW r \in t.reported, r \notin s.reported PROVE r.where # "before sync"
      BY DEF NoneCut
    <3>1. r.where = where
      BY <2>2, SMTT(30)
    <3> QED
      BY <3>1 DEF where
  <2> QED
    BY <1>3, <1>8, <2>2, <2>3, <2>5, ShownWalks DEF VideoMarks, SameMarks, OnlyWrites
<1> QED
  BY <1>3, <1>4, <1>5, <1>6, <1>7, <1>8 DEF VideoCases, a

\* A packet of a stream of this kind that comes to its Aligner.
Reaches(s, i, p, kind) ==
    /\ s.streams[i].kind = kind /\ p.stream = i /\ Precede(Beyond(s, i), {p})
    /\ Tiled(s) /\ Fronted(s) /\ Waits(s, i) /\ Keyed(s, i)

\* Audio when the sync point is set, with what waited for it.
LEMMA SyncedWalks ==
    ASSUME NEW s, NEW u, NEW i \in DOMAIN s.streams, NEW b, NEW rest, NEW hand, NEW p \in Packet,
           NEW held, held = Append(s.streams[i].aligner.pending, p), s.streams[i].aligner.pending \in Seq(Packet),
           Handed(held, rest, hand), Turns(s, u, i, b, hand), Reaches(s, i, p, "audio"),
           s.streams[i].aligner.started,
           Buffered(s.streams[i].aligner, b, <<>>), NEW t, t = Filtered(u, i, held)
    PROVE  Walks(s, t, i, p) /\ SameMarks(s.streams[i].aligner, t.streams[i].aligner) /\ InSync(s, t, i)
<1> DEFINE a == s.streams[i].aligner
           pending == a.pending
           sync == a.sync
<1>0. /\ held = Append(pending, p) /\ pending \in Seq(Packet) /\ a = s.streams[i].aligner /\ pending = a.pending
      /\ sync = a.sync /\ p.stream = i /\ Precede(Beyond(s, i), {p}) /\ s.streams[i].kind = "audio" /\ a.started
      /\ Tiled(s) /\ Fronted(s) /\ Waits(s, i)
  BY DEF Reaches
<1> HIDE DEF pending, sync, a
<1>1. held \in Seq(Packet) /\ Range(held) = Range(pending) \cup {p} /\ Range(pending) \subseteq Beyond(s, i)
  <2>0. held = Append(pending, p) /\ pending \in Seq(Packet)
    BY <1>0
  <2>1. held \in Seq(Packet) /\ Range(held) = Range(pending) \cup {p}
    BY <2>0, HeldIs
  <2> QED
    BY <1>0, <2>1 DEF Beyond, Waiting
<1>2. /\ Tiled(u) /\ Fronted(u) /\ \A k : Passed(u, k) = Passed(s, k)
      /\ u.reported = s.reported /\ u.err = s.err /\ DOMAIN u.streams = DOMAIN s.streams
      /\ u.streams[i].kind = s.streams[i].kind
      /\ \A k \in DOMAIN s.streams : k # i => u.streams[k] = s.streams[k]
  BY <1>0, TurnsShows, ZenonT(30)
<1>3. Owns(u, held \o rest) /\ u.streams[i].aligner = b /\ i \in DOMAIN u.streams /\ rest \in Seq(Packet)
  BY DEF Turns, Handed
<1>4. b.pending = <<>> /\ b.cfg = <<>> /\ b.started = a.started /\ b.sync = sync /\ b.expects = a.expects
  BY <1>0, SMTT(30) DEF Waits, Buffered
<1>5. AllCome(u, i, held)
  <2>1. Rising(held)
    BY <1>0, <1>1, RisingHeld DEF Precede, Waits
  <2>2. Precede(Passed(s, i), Range(held))
    BY <1>0, <1>1 DEF Precede, Waits, Beyond, Waiting
  <2> QED
    BY <1>0, <1>1, <1>2, <2>1, <2>2 DEF AllCome, Waits, Waiting
<1> DEFINE passing == From(Range(held), sync)
<1>6. PassesAll(u, t, i, passing) /\ Cuts(u, t, sync)
  BY <1>1, <1>2, <1>3, <1>4, <1>5, AllSifted
<1>7. passing \subseteq Range(held) /\ \A x \in passing : ~(x.dts < sync)
  BY DEF From
<1> HIDE DEF passing
<1>8. /\ t.streams[i].aligner = b /\ t.streams[i].kind = "audio"
      /\ \A k \in DOMAIN s.streams : k # i => t.streams[k] = s.streams[k] /\ Passed(t, k) = Passed(s, k)
      /\ Passed(s, i) \subseteq Passed(t, i) /\ Passed(t, i) \subseteq Passed(s, i) \cup passing
  BY <1>0, <1>2, <1>3, <1>6, ZenonT(30) DEF PassesAll, OnlyCompletes, Kept, Framed
<1>9. Waiting(t, i) = {} /\ Beyond(t, i) = Passed(t, i)
      /\ Rising(t.streams[i].aligner.pending) /\ Rising(t.streams[i].aligner.cfg)
  BY <1>4, <1>8, EmptyWaiting
<1>13. InSync(s, t, i)
  BY <1>0, <1>2, <1>6, <1>7, <1>8 DEF InSync, Cuts
<1>15. Tiled(t) /\ Fronted(t)
  BY <1>6 DEF PassesAll
<1> QED
  BY <1>0, <1>1, <1>4, <1>7, <1>8, <1>9, <1>13, <1>15 DEF Walks, Waits, Precede, Beyond, Keyed, SameMarks

\* What passes at once leaves no more than it in the output, and a stage where nothing passes nothing.
LEMMA PassesInSync ==
    ASSUME NEW s, NEW t, NEW i \in DOMAIN s.streams, ~s.streams[i].aligner.expects, t.reported = s.reported
    PROVE  InSync(s, t, i)
BY DEF InSync

LEMMA HoldsInSync ==
    ASSUME NEW s, NEW t, NEW i \in DOMAIN s.streams, Passed(t, i) = Passed(s, i), NoneCut(s, t)
    PROVE  InSync(s, t, i)
BY DEF InSync, NoneCut

\* A packet with nothing before it in its Aligner.
LEMMA StraightWalks ==
    ASSUME NEW s, NEW p \in Packet, NEW rest \in Seq(Packet), Owns(s, <<p>> \o rest),
           NEW i \in DOMAIN s.streams, NEW t, t = CompletePacket(s, i, p), NEW kind, Reaches(s, i, p, kind),
           kind # "video", s.streams[i].aligner.pending = <<>>
    PROVE  /\ Walks(s, t, i, p) /\ SameMarks(s.streams[i].aligner, t.streams[i].aligner)
           /\ t.reported = s.reported
<1>1. s.streams[i].aligner.cfg = <<>> /\ Tiled(s) /\ Fronted(s) /\ Comes(s, i, p)
  BY DEF Reaches, Waits, Comes, Precede, Beyond
<1>2. PassesAll(s, t, i, {p}) /\ t.reported = s.reported
  BY <1>1, CompletedPasses
<1> QED
  BY <1>1, <1>2, PassesWalks DEF Keyed, Reaches, PassesAll, OnlyCompletes, Kept, Framed

LEMMA AudioWalks ==
    ASSUME NEW s, NEW p \in Packet, NEW rest \in Seq(Packet), Owns(s, <<p>> \o rest),
           NEW i \in DOMAIN s.streams, NEW t, t = ProcessAudio(s, i, p), Reaches(s, i, p, "audio")
    PROVE  Walks(s, t, i, p) /\ SameMarks(s.streams[i].aligner, t.streams[i].aligner) /\ InSync(s, t, i)
<1> DEFINE a == s.streams[i].aligner
           held == Append(a.pending, p)
<1>1. /\ a.pending \in Seq(Packet) /\ a.cfg = <<>> /\ (a.pending # <<>> => a.expects)
      /\ s.streams[i].kind = "audio" /\ p.stream = i /\ Precede(Beyond(s, i), {p}) /\ Rising(a.pending)
      /\ Tiled(s) /\ Fronted(s) /\ Waits(s, i) /\ Keyed(s, i) /\ Rising(a.cfg)
  BY StateFields, StreamFields DEF Owns, Reaches, Waits
<1>2. /\ held \in Seq(Packet) /\ Range(held) = Range(a.pending) \cup {p} /\ held # <<>>
      /\ held = Append(a.pending, p)
  <2>1. a.pending \in Seq(Packet)
    BY <1>1
  <2> QED
    BY <2>1, HeldIs
<1>3. AudioCases(s, t, i, p, held, rest) /\ a = s.streams[i].aligner
  BY AudioSplit
<1> HIDE DEF held, a
<1>4. Rising(held) /\ Rising(Tail(held))
  BY <1>1, <1>2, <1>3, RisingHeld DEF Precede, Beyond, Waiting
<1>5. CASE /\ a.started
           /\ \E u, b : Turns(s, u, i, b, held \o rest) /\ Buffered(a, b, <<>>) /\ t = Filtered(u, i, held)
  BY <1>1, <1>2, <1>3, <1>5, SyncedWalks DEF Handed
<1>6. CASE ~a.started /\ ~a.expects /\ t = CompletePacket(s, i, p)
  BY <1>1, <1>3, <1>6, StraightWalks, PassesInSync
<1>7. CASE /\ ~a.started /\ a.expects
           /\ \E u, b : /\ Turns(s, u, i, b, <<Head(held)>> \o rest) /\ Buffered(a, b, Tail(held))
                        /\ t = Drop(u, Head(held), "overflow")
  <2> DEFINE where == "overflow"
             q == Head(held)
             hand == <<q>> \o rest
  <2>1. PICK u, b : /\ Turns(s, u, i, b, <<Head(held)>> \o rest) /\ Buffered(a, b, Tail(held))
                    /\ t = Drop(u, Head(held), "overflow")
    BY <1>7
  <2>2. where \in Where /\ t = Drop(u, q, where) /\ Turns(s, u, i, b, hand) /\ where # "before sync"
    BY <2>1 DEF Where
  <2>3. q \in Packet /\ Range(Tail(held)) \subseteq Range(held)
    BY <1>2, OldestIs
  <2>4. Owns(u, <<q>> \o rest) /\ i \in DOMAIN u.streams
    BY <2>2 DEF Turns
  <2> HIDE DEF where, hand, q
  <2>5. /\ SameMarks(s.streams[i].aligner, b) /\ b.expects = s.streams[i].aligner.expects
        /\ b.expects /\ b.cfg = <<>> /\ b.pending = Tail(held)
    BY <1>1, <1>3, <1>7, <2>1 DEF Buffered, SameMarks
  <2>6. Range(b.pending) \cup Range(b.cfg) \subseteq Waiting(s, i) \cup {p} /\ Rising(b.pending) /\ Rising(b.cfg)
    <3>1. Range(b.cfg) = {} /\ Rising(b.cfg)
      BY <2>5, RangeEmpty DEF Rising
    <3> QED
      BY <1>2, <1>3, <1>4, <2>3, <2>5, <3>1 DEF Waiting
  <2>8. /\ Owns(t, rest) /\ OnlyWrites(u, t)
        /\ t.queue = u.queue /\ t.err = u.err /\ t.out = u.out
        /\ t.reported = u.reported \cup {[packet |-> q, where |-> where]}
    <3>1. where \in Where /\ t = Drop(u, q, where) /\ q \in Packet
      BY <2>2, <2>3
    <3> QED
      BY <2>4, <3>1, Dropped
  <2>9. Walks(s, t, i, p) /\ t.streams = u.streams
    BY <1>1, <2>2, <2>5, <2>6, <2>8, ShownWalks, HoldsWalks DEF OnlyWrites
  <2>10. u.reported = s.reported /\ u.streams[i].aligner = b /\ Passed(u, i) = Passed(s, i)
    BY <2>2, TurnsShows DEF Turns
  <2>12. NoneCut(s, t)
    <3> SUFFICES ASSUME NEW r \in t.reported, r \notin s.reported PROVE r.where # "before sync"
      BY DEF NoneCut
    <3>1. r.where = where
      BY <2>8, <2>10
    <3> QED
      BY <2>2, <3>1
  <2> QED
    BY <2>5, <2>8, <2>9, <2>10, <2>12, HoldsInSync DEF Passed, Lookahead
<1>8. CASE ~a.started /\ a.expects /\ \E b : Turns(s, t, i, b, rest) /\ Buffered(a, b, held)
  <2>1. PICK b : Turns(s, t, i, b, rest) /\ Buffered(a, b, held)
    BY <1>8
  <2>2. /\ SameMarks(s.streams[i].aligner, b) /\ b.expects = s.streams[i].aligner.expects
        /\ b.expects /\ b.cfg = <<>> /\ b.pending = held
    BY <1>1, <1>3, <1>8, <2>1 DEF Buffered, SameMarks
  <2>3. Range(b.pending) \cup Range(b.cfg) \subseteq Waiting(s, i) \cup {p} /\ Rising(b.pending) /\ Rising(b.cfg)
    <3>1. Range(b.cfg) = {} /\ Rising(b.cfg)
      BY <2>2, RangeEmpty DEF Rising
    <3> QED
      BY <1>2, <1>3, <1>4, <2>2, <3>1 DEF Waiting
  <2>5. t.reported = s.reported /\ t.streams[i].aligner = b /\ Passed(t, i) = Passed(s, i)
    BY <2>1, TurnsShows DEF Turns
  <2> QED
    BY <1>1, <2>1, <2>2, <2>3, <2>5, HoldsWalks, HoldsInSync DEF NoneCut
<1> QED
  BY <1>3, <1>5, <1>6, <1>7, <1>8 DEF AudioCases

-----------------------------------------------------------------------------
(* An Aligner keeps the LiveMuxer as it should be.                         *)

LEMMA WalksStaged ==
    ASSUME NEW s, NEW t, NEW i \in DOMAIN s.streams, NEW p,
           Staged(s), Arrives(s, i, p), Walks(s, t, i, p), Framed(s, t)
    PROVE  Staged(t)
<1>1. /\ DOMAIN t.streams = DOMAIN s.streams /\ t.started = s.started /\ s.started
      /\ \A k \in DOMAIN s.streams : /\ t.streams[k].kind = s.streams[k].kind
                                     /\ t.streams[k].enforcer = s.streams[k].enforcer
      /\ (t.err = "none" => s.err = "none")
  BY DEF Framed, Arrives
<1>3. \A k \in DOMAIN s.streams : k # i => t.streams[k] = s.streams[k] /\ Passed(t, k) = Passed(s, k)
  BY DEF Walks
<1>4. \A k \in DOMAIN s.streams : Waits(s, k) /\ Fed(s, k) /\ Keyed(s, k)
  BY DEF Staged
<1>5. ASSUME NEW k \in DOMAIN s.streams, k # i
      PROVE  Waits(t, k) /\ Fed(t, k) /\ Keyed(t, k)
  <2>1. t.streams[k] = s.streams[k] /\ Passed(t, k) = Passed(s, k)
    BY <1>3, <1>5
  <2>2. Waiting(t, k) = Waiting(s, k)
    BY <2>1 DEF Waiting
  <2> QED
    BY <1>1, <1>4, <2>1, <2>2 DEF Waits, Fed, Beyond, Keyed
<1> QED
  BY <1>1, <1>4, <1>5 DEF Staged, Arrives, Fed, Walks, Fresh

\* The first video stream, if there is one.
LEMMA SyncVideoIs ==
    ASSUME NEW s, DOMAIN s.streams \subseteq Nat, SyncVideo(s) # 0
    PROVE  SyncVideo(s) \in DOMAIN s.streams /\ s.streams[SyncVideo(s)].kind = "video"
BY MinIs DEF SyncVideo, VideosOf

LEMMA SyncVideoSame ==
    ASSUME NEW s, NEW t, DOMAIN t.streams = DOMAIN s.streams,
           \A k \in DOMAIN s.streams : t.streams[k].kind = s.streams[k].kind
    PROVE  SyncVideo(t) = SyncVideo(s)
BY DEF VideosOf, SyncVideo

\* The sync point is set for the audio that waits for it, at a keyframe of stream i.
Resyncs(s, r, i, dts) ==
    SyncsAudio(s, r, dts) /\ OnlyAligns(s, r, i) /\ r.err = s.err /\ s.streams[i].kind = "video"

Resynced(s, r, i, dts) ==
    /\ DOMAIN r.streams = DOMAIN s.streams /\ r.started = s.started /\ r.reported = s.reported
    /\ \A k \in DOMAIN s.streams :
          /\ r.streams[k].kind = s.streams[k].kind /\ r.streams[k].enforcer = s.streams[k].enforcer
          /\ r.streams[k].aligner.pending = s.streams[k].aligner.pending
          /\ r.streams[k].aligner.cfg = s.streams[k].aligner.cfg
          /\ r.streams[k].aligner.expects = s.streams[k].aligner.expects
          /\ SyncsOne(s.streams[k], r.streams[k], dts)
    /\ r.streams[i] = s.streams[i]
    /\ Tiled(s) => Tiled(r)
    /\ Fronted(s) => Fronted(r)
    /\ \A k : Passed(r, k) = Passed(s, k)

LEMMA ResyncsShows ==
    ASSUME NEW s, NEW r, NEW i \in DOMAIN s.streams, NEW dts, Resyncs(s, r, i, dts)
    PROVE  Resynced(s, r, i, dts)
BY Shown DEF Resyncs, SyncsAudio, OnlyAligns, Kept, Framed, SyncsOne, Shows, Resynced

LEMMA ResyncsStaged ==
    ASSUME NEW s, NEW r, NEW i \in DOMAIN s.streams, NEW dts, Resyncs(s, r, i, dts), Staged(s), s.started
    PROVE  Staged(r) /\ \A k \in DOMAIN s.streams : Beyond(r, k) = Beyond(s, k)
<1>0. Resynced(s, r, i, dts)
  BY ResyncsShows
<1>1. /\ DOMAIN r.streams = DOMAIN s.streams /\ r.started
      /\ Tiled(r) /\ Fronted(r) /\ \A k : Passed(r, k) = Passed(s, k)
  BY <1>0 DEF Resynced, Staged
<1>2. ASSUME NEW k \in DOMAIN s.streams
      PROVE  Waits(r, k) /\ Fed(r, k) /\ Keyed(r, k) /\ Beyond(r, k) = Beyond(s, k)
  <2>2. Waits(s, k) /\ Fed(s, k) /\ Keyed(s, k)
    BY DEF Staged
  <2> QED
    BY <1>0, <1>1, <2>2 DEF Waits, Fed, Beyond, Waiting, Resyncs, Keyed, SyncsOne, Resynced
<1> QED
  BY <1>1, <1>2 DEF Staged, Fresh

-----------------------------------------------------------------------------
(* The sync point.                                                         *)

\* No Aligner starts, and what passes one of audio, or is cut, is told by its sync point.
Keeps(s, t) ==
    /\ DOMAIN t.streams = DOMAIN s.streams /\ t.started = s.started
    /\ \A k \in DOMAIN s.streams : t.streams[k].kind = s.streams[k].kind
    /\ \A k \in DOMAIN s.streams : s.streams[k].kind = "audio" =>
          LET a == s.streams[k].aligner IN
          /\ SameMarks(a, t.streams[k].aligner) /\ t.streams[k].aligner.expects = a.expects
          /\ \A x \in Passed(t, k) : x \in Passed(s, k) \/ ~a.expects \/ (a.started /\ ~(x.dts < a.sync))
    /\ SyncVideo(s) # 0 => SameMarks(s.streams[SyncVideo(s)].aligner, t.streams[SyncVideo(s)].aligner)
    /\ \A r \in t.reported :
          \/ r \in s.reported \/ r.where # "before sync"
          \/ \E k \in DOMAIN s.streams : /\ s.streams[k].kind = "audio" /\ s.streams[k].aligner.started
                                         /\ r.packet.dts < s.streams[k].aligner.sync

LEMMA KeepsSynced ==
    ASSUME NEW s, NEW t, Synced(s), s.started, Keeps(s, t)
    PROVE  Synced(t)
<1> SUFFICES ASSUME SyncVideo(t) # 0 PROVE Synced(t)
  BY DEF Synced
<1> DEFINE v == SyncVideo(s)
           va == s.streams[v].aligner
           vb == t.streams[v].aligner
<1>1. v = SyncVideo(t) /\ v # 0
  BY SyncVideoSame DEF Keeps
<1>2. vb.started = va.started /\ vb.sync = va.sync
  BY <1>1 DEF Keeps, SameMarks
<1>3. ASSUME NEW k \in DOMAIN s.streams, s.streams[k].kind = "audio"
      PROVE  /\ s.streams[k].aligner.started = va.started
             /\ s.streams[k].aligner.started => s.streams[k].aligner.sync = va.sync
             /\ s.streams[k].aligner.expects
             /\ \A x \in Passed(s, k) : va.started /\ ~(x.dts < va.sync)
  BY <1>1, <1>3 DEF Synced
<1>4. \A r \in s.reported : r.where = "before sync" => va.started /\ r.packet.dts < va.sync
  BY <1>1 DEF Synced
<1>5. v = SyncVideo(t) /\ vb = t.streams[v].aligner
  BY <1>1
<1> HIDE DEF v, va, vb
<1>6. ASSUME NEW k \in DOMAIN s.streams, s.streams[k].kind = "audio"
      PROVE  LET a == t.streams[k].aligner IN
             /\ a.started = vb.started /\ (a.started => a.sync = vb.sync)
             /\ t.started => a.expects
             /\ \A x \in Passed(t, k) : vb.started /\ ~(x.dts < vb.sync)
  BY <1>2, <1>3, <1>6 DEF Keeps, SameMarks
<1>7. ASSUME NEW r \in t.reported, r.where = "before sync"
      PROVE  vb.started /\ r.packet.dts < vb.sync
  BY <1>2, <1>3, <1>4, <1>7 DEF Keeps
<1> QED
  BY <1>5, <1>6, <1>7 DEF Synced, Keeps

\* What the Aligner of stream i does when it does not start that of the sync video.
Marks(s, t, i) ==
    /\ s.streams[i].kind = "audio" => SameMarks(s.streams[i].aligner, t.streams[i].aligner) /\ InSync(s, t, i)
    /\ s.streams[i].kind # "audio" => NoneCut(s, t)
    /\ i = SyncVideo(s) => SameMarks(s.streams[i].aligner, t.streams[i].aligner)

LEMMA WalksKeeps ==
    ASSUME NEW s, NEW t, DOMAIN s.streams \subseteq Nat, NEW i \in DOMAIN s.streams, NEW p,
           Walks(s, t, i, p), Framed(s, t), Marks(s, t, i)
    PROVE  Keeps(s, t)
BY SyncVideoIs DEF Framed, Walks, Marks, InSync, SameMarks, NoneCut, Keeps

AtSync(s, i) == i = SyncVideo(s) /\ i # 0 /\ Synced(s)

\* Setting the sync point when all audio has it changes nothing.
LEMMA ResyncsKeeps ==
    ASSUME NEW s, NEW r, DOMAIN s.streams \subseteq Nat, NEW i \in DOMAIN s.streams, NEW dts,
           Resyncs(s, r, i, dts), AtSync(s, i), s.streams[i].aligner.started
    PROVE  Keeps(s, r)
<1>0. Resynced(s, r, i, dts)
  BY ResyncsShows
<1>2. \A k \in DOMAIN s.streams : r.streams[k].kind = s.streams[k].kind /\ SyncsOne(s.streams[k], r.streams[k], dts)
  BY <1>0 DEF Resynced
<1>3. ASSUME NEW k \in DOMAIN s.streams, s.streams[k].kind = "audio"
      PROVE  r.streams[k] = s.streams[k]
  BY <1>2, <1>3 DEF Synced, AtSync, SyncsOne
<1> QED
  BY <1>0, <1>2, <1>3 DEF Keeps, SameMarks, AtSync, Resynced

\* The first keyframe of the sync video.
LEMMA SyncStarts ==
    ASSUME NEW s, NEW r, NEW t, NEW i \in DOMAIN s.streams, NEW p,
           Resyncs(s, r, i, p.dts), AtSync(s, i), s.started,
           ~s.streams[i].aligner.started, Walks(r, t, i, p), Framed(r, t), NoneCut(r, t),
           t.streams[i].aligner.started, t.streams[i].aligner.sync = p.dts
    PROVE  Synced(t)
<1>0. Resynced(s, r, i, p.dts)
  BY ResyncsShows
<1>1. /\ DOMAIN r.streams = DOMAIN s.streams /\ r.started = s.started /\ r.reported = s.reported
      /\ \A k : Passed(r, k) = Passed(s, k)
  BY <1>0 DEF Resynced
<1>2. \A k \in DOMAIN s.streams : /\ r.streams[k].kind = s.streams[k].kind
                                  /\ SyncsOne(s.streams[k], r.streams[k], p.dts)
                                  /\ r.streams[k].aligner.expects = s.streams[k].aligner.expects
  BY <1>0 DEF Resynced
<1>3. /\ DOMAIN t.streams = DOMAIN s.streams /\ t.started = s.started
      /\ \A k \in DOMAIN s.streams : t.streams[k].kind = s.streams[k].kind
  BY <1>1, <1>2 DEF Framed
<1>5. ASSUME NEW k \in DOMAIN s.streams, s.streams[k].kind = "audio"
      PROVE  LET a == t.streams[k].aligner IN
             /\ a.started /\ a.sync = p.dts /\ a.expects /\ Passed(t, k) = {}
  <2>4. t.streams[k] = r.streams[k] /\ Passed(t, k) = Passed(r, k)
    BY <1>1, <1>5 DEF Walks, Resyncs
  <2> QED
    BY <1>1, <1>2, <1>5, <2>4 DEF SyncsOne, Synced, AtSync
<1> QED
  BY <1>1, <1>3, <1>5, SyncVideoSame DEF Synced, AtSync, NoneCut

-----------------------------------------------------------------------------
(* A packet that leaves the Enforcer finds the LiveMuxer in order, and     *)
(* leaves it so.                                                           *)

LEMMA NumbersOfStreams ==
    ASSUME NEW s \in LiveState
    PROVE  DOMAIN s.streams \subseteq Nat \ {0}
<1>1. DOMAIN s.streams = 1 .. Len(s.streams) /\ Len(s.streams) \in Nat
  BY StateFields
<1> QED
  BY <1>1

LEMMA ArrivesReaches ==
    ASSUME NEW s, NEW i \in DOMAIN s.streams, NEW p, Staged(s), Arrives(s, i, p)
    PROVE  Reaches(s, i, p, s.streams[i].kind)
BY DEF Staged, Arrives, Reaches

LEMMA WalksOrdered ==
    ASSUME NEW s, NEW t, DOMAIN s.streams \subseteq Nat, NEW i \in DOMAIN s.streams, NEW p,
           Ordered(s), Arrives(s, i, p), Walks(s, t, i, p), Framed(s, t), Marks(s, t, i)
    PROVE  Ordered(t)
BY WalksStaged, WalksKeeps, KeepsSynced DEF Ordered, Arrives

\* What a video stream's Aligner does with a packet.
VideoSteps(s, t, i, p) ==
    /\ Walks(s, t, i, p) /\ NoneCut(s, t) /\ Framed(s, t)
    /\ VideoMarks(s.streams[i].aligner, t.streams[i].aligner, p)

LEMMA VideoStepsTo ==
    ASSUME NEW s, NEW p \in Packet, NEW rest \in Seq(Packet), Owns(s, <<p>> \o rest),
           NEW i \in DOMAIN s.streams, NEW t, t = ProcessVideo(s, i, p), s.err = "none",
           Staged(s), Arrives(s, i, p), Genuine(s), s.streams[i].kind = "video"
    PROVE  VideoSteps(s, t, i, p)
BY VideoWalks, VideoAligned DEF Staged, Arrives, VideoSteps, OnlyAligns, Kept

\* The step of any stream that sets no sync point.
LEMMA StepsMark ==
    ASSUME NEW s, NEW p \in Packet, NEW rest \in Seq(Packet), Owns(s, <<p>> \o rest),
           NEW i \in DOMAIN s.streams, s.err = "none",
           Staged(s), Arrives(s, i, p), Genuine(s), ~(i = SyncVideo(s) /\ p.kind = "key"),
           NEW t, t = ProcessAligner(s, i, p)
    PROVE  Walks(s, t, i, p) /\ Framed(s, t) /\ Marks(s, t, i)
<1> DEFINE kind == s.streams[i].kind
<1>1. Reaches(s, i, p, kind) /\ kind = s.streams[i].kind
  BY ArrivesReaches
<1>2. \/ kind = "video" /\ t = ProcessVideo(s, i, p)
      \/ kind = "audio" /\ t = ProcessAudio(s, i, p)
      \/ kind = "other" /\ t = CompletePacket(s, i, p)
  BY StateFields, StreamFields DEF Owns, ProcessAligner
<1>3. Framed(s, t)
  BY Aligned DEF OnlyAligns, Kept
<1> HIDE DEF kind
<1>4. CASE kind = "video" /\ t = ProcessVideo(s, i, p)
  BY <1>1, <1>3, <1>4, VideoStepsTo DEF VideoSteps, VideoMarks, Marks
<1>5. CASE kind = "audio" /\ t = ProcessAudio(s, i, p)
  BY <1>1, <1>3, <1>5, AudioWalks DEF Marks
<1>6. CASE kind = "other" /\ t = CompletePacket(s, i, p)
  BY <1>1, <1>3, <1>6, StraightWalks DEF Reaches, Waits, NoneCut, Marks
<1> QED
  BY <1>2, <1>4, <1>5, <1>6

\* Of X something came to stream i, and nothing to another.
Adds(s, t, i, X) ==
    /\ Beyond(t, i) \subseteq Beyond(s, i) \cup X
    /\ \A k \in DOMAIN s.streams : k # i => Beyond(t, k) = Beyond(s, k)

AlignsOne(s, t, i, p) == Ordered(t) /\ Adds(s, t, i, {p})

\* The step at a keyframe of the sync video.
LEMMA StepsAtSync ==
    ASSUME NEW s, NEW p \in Packet, NEW rest \in Seq(Packet), Owns(s, <<p>> \o rest),
           NEW i \in DOMAIN s.streams, s.err = "none",
           Ordered(s), Arrives(s, i, p), Genuine(s), AtSync(s, i), p.kind = "key", s.streams[i].kind = "video",
           NEW r, r = SetVideoSyncStart(s, p.dts), NEW t, t = ProcessVideo(r, i, p)
    PROVE  AlignsOne(s, t, i, p)
<1> DEFINE hand == <<p>> \o rest
           dts == p.dts
<1>0. s \in LiveState /\ Staged(s) /\ Synced(s) /\ s.started
  BY DEF Owns, Ordered, Arrives
<1>1. Owns(r, hand) /\ OnlyAligns(s, r, i) /\ r.err = s.err /\ Genuine(r) /\ SyncsAudio(s, r, dts)
  BY SyncSet DEF Packet
<1>2. Resyncs(s, r, i, dts)
  BY <1>1 DEF Resyncs
<1>3. Resyncs(s, r, i, p.dts) /\ Owns(r, <<p>> \o rest)
  BY <1>1, <1>2
<1> HIDE DEF hand, dts
<1>4. Staged(r) /\ Beyond(r, i) = Beyond(s, i)
  BY <1>0, <1>2, ResyncsStaged
<1>5. Resynced(s, r, i, dts)
  BY <1>2, ResyncsShows
<1>8. \A k \in DOMAIN s.streams : k # i => Beyond(r, k) = Beyond(s, k)
  BY <1>1, <1>5 DEF Resynced, OnlyAligns, Beyond, Waiting
<1>6. /\ r.started /\ r.streams[i] = s.streams[i] /\ DOMAIN r.streams = DOMAIN s.streams /\ i \in DOMAIN r.streams
  BY <1>0, <1>5 DEF Resynced
<1>7. Arrives(r, i, p)
  BY <1>4, <1>6 DEF Arrives
<1>9. Walks(r, t, i, p) /\ NoneCut(r, t) /\ Framed(r, t)
      /\ VideoMarks(s.streams[i].aligner, t.streams[i].aligner, p)
  BY <1>1, <1>3, <1>4, <1>6, <1>7, VideoStepsTo, SMTT(30) DEF VideoSteps
<1>10. Adds(s, t, i, {p})
  BY <1>4, <1>6, <1>8, <1>9 DEF Walks, Adds, Beyond, Waiting
<1>11. CASE s.streams[i].aligner.started
  <2>4. Ordered(t)
    BY <1>0, <1>2, <1>4, <1>6, <1>7, <1>9, <1>11, WalksOrdered, KeepsSynced, ResyncsKeeps, NumbersOfStreams
       DEF Marks, VideoMarks, Ordered
  <2> QED
    BY <1>10, <2>4 DEF AlignsOne
<1>12. CASE ~s.streams[i].aligner.started
  BY <1>0, <1>3, <1>4, <1>6, <1>7, <1>9, <1>10, <1>12, SyncStarts, WalksStaged DEF VideoMarks, Ordered, AlignsOne
<1> QED
  BY <1>11, <1>12

\* A step that moves no packet between what waits, what is held back and what is offered.
Alike(s, t) ==
    /\ t.out = s.out /\ t.queue = s.queue /\ t.err = s.err /\ t.started = s.started
    /\ NoneCut(s, t) /\ (t.reported = s.reported \/ s.started)
    /\ DOMAIN t.streams = DOMAIN s.streams
    /\ \A k \in DOMAIN s.streams : /\ t.streams[k].kind = s.streams[k].kind
                                   /\ t.streams[k].aligner = s.streams[k].aligner
                                   /\ t.streams[k].pending = s.streams[k].pending

LEMMA AlikeShows ==
    ASSUME NEW s, NEW t, Alike(s, t)
    PROVE  /\ Shows(s, t) /\ SyncVideo(t) = SyncVideo(s)
           /\ \A k : Passed(t, k) = Passed(s, k)
           /\ \A k \in DOMAIN s.streams : Waiting(t, k) = Waiting(s, k) /\ Beyond(t, k) = Beyond(s, k)
BY Shown, SyncVideoSame DEF Shows, Alike, Waiting, Beyond

LEMMA AlikeSynced ==
    ASSUME NEW s, NEW t, DOMAIN s.streams \subseteq Nat, Alike(s, t), Synced(s)
    PROVE  Synced(t)
<1> DEFINE v == SyncVideo(s)
           va == s.streams[v].aligner
<1>1. SyncVideo(t) = v /\ (\A k : Passed(t, k) = Passed(s, k)) /\ DOMAIN t.streams = DOMAIN s.streams
  BY AlikeShows DEF Alike
<1>2. CASE v = 0
  BY <1>1, <1>2 DEF Synced
<1>3. CASE v # 0
  <2>1. ASSUME NEW k \in DOMAIN s.streams, t.streams[k].kind = "audio"
        PROVE  /\ t.streams[k].aligner.started = va.started
               /\ t.streams[k].aligner.started => t.streams[k].aligner.sync = va.sync
               /\ t.started => t.streams[k].aligner.expects
               /\ \A x \in Passed(t, k) : va.started /\ ~(x.dts < va.sync)
    <3>1. t.streams[k].aligner = s.streams[k].aligner /\ s.streams[k].kind = "audio" /\ t.started = s.started
      BY <2>1 DEF Alike
    <3>2. Passed(t, k) = Passed(s, k)
      BY <1>1
    <3>3. /\ s.streams[k].aligner.started = va.started
          /\ s.streams[k].aligner.started => s.streams[k].aligner.sync = va.sync
          /\ s.started => s.streams[k].aligner.expects
          /\ \A x \in Passed(s, k) : va.started /\ ~(x.dts < va.sync)
      BY <1>3, <3>1 DEF Synced
    <3> HIDE DEF va
    <3> QED
      BY <3>1, <3>2, <3>3
  <2>2. \A r \in t.reported : r.where = "before sync" => va.started /\ r.packet.dts < va.sync
    BY <1>3 DEF Alike, NoneCut, Synced
  <2>3. t.streams[v].aligner = va
    BY <1>3, SyncVideoIs DEF Alike
  <2> HIDE DEF v, va
  <2> QED
    BY <1>1, <2>1, <2>2, <2>3 DEF Synced
<1> QED
  BY <1>2, <1>3

LEMMA AlikeOrdered ==
    ASSUME NEW s, NEW t, DOMAIN s.streams \subseteq Nat, Alike(s, t), Ordered(s),
           \A k \in DOMAIN s.streams : t.streams[k].enforcer = s.streams[k].enforcer \/ Fed(t, k)
    PROVE  Ordered(t) /\ \A k \in DOMAIN s.streams : Beyond(t, k) = Beyond(s, k)
BY AlikeShows, Shown, AlikeSynced DEF Alike, Ordered, Staged, Waits, Keyed, Fed, Fresh

LEMMA AlignedOrdered ==
    ASSUME NEW s, NEW p \in Packet, NEW rest \in Seq(Packet), Owns(s, <<p>> \o rest),
           NEW i \in DOMAIN s.streams, Ordered(s), Arrives(s, i, p), Genuine(s),
           NEW t, t = ProcessAligner(s, i, p)
    PROVE  AlignsOne(s, t, i, p)
<1>0. s \in LiveState /\ Staged(s) /\ Synced(s) /\ DOMAIN s.streams \subseteq Nat \ {0}
  BY NumbersOfStreams DEF Owns, Ordered
<1>1. CASE s.err # "none"
  <2>2. /\ t.streams = s.streams /\ t.started = s.started
        /\ t.queue = s.queue /\ t.err = s.err /\ t.reported = s.reported /\ t.out = s.out
    BY <1>1, Released DEF ProcessAligner
  <2> QED
    BY <1>0, <2>2, AlikeOrdered DEF AlignsOne, Adds, Alike, NoneCut
<1>2. CASE s.err = "none" /\ ~(i = SyncVideo(s) /\ p.kind = "key")
  <2>1. Walks(s, t, i, p) /\ Ordered(t)
    BY <1>0, <1>2, StepsMark, WalksOrdered
  <2>2. Adds(s, t, i, {p})
    BY <2>1 DEF Walks, Adds, Beyond, Waiting
  <2> QED
    BY <2>1, <2>2 DEF AlignsOne
<1>3. CASE s.err = "none" /\ i = SyncVideo(s) /\ p.kind = "key"
  BY <1>0, <1>3, SyncVideoIs, StepsAtSync DEF ProcessAligner, AtSync
<1> QED
  BY <1>1, <1>2, <1>3

-----------------------------------------------------------------------------
(* What leaves the Enforcer at once goes through the Aligner in order.     *)

\* A sequence of packets for stream i that leave its Enforcer, after all that have left it.
Leaves(s, i, packets) ==
    /\ Rising(packets) /\ Precede(Beyond(s, i), Range(packets))
    /\ AllKnown(s.accepted, i, packets)
    /\ \A x \in Range(packets) :
          /\ x.stream = i /\ s.started
          /\ s.streams[i].enforcer.emitted /\ x.dts <= s.streams[i].enforcer.last

AlignsAll(s, t, i, X) ==
    Ordered(t) /\ Genuine(t) /\ OnlyAligns(s, t, i) /\ Adds(s, t, i, X)

LEMMA NextArrives ==
    ASSUME NEW s, NEW t, NEW i \in DOMAIN s.streams, NEW packets \in Seq(Packet), Leaves(s, i, packets),
           NEW n \in 1 .. Len(packets), AlignsAll(s, t, i, FirstOf(packets, n - 1)),
           NEW p, p = packets[n]
    PROVE  Arrives(t, i, p) /\ Known(t.accepted, i, p)
<1>1. p \in Range(packets) /\ n \in Nat
  BY FirstNext
<1>2. /\ p.stream = i /\ s.started /\ Known(s.accepted, i, p)
      /\ s.streams[i].enforcer.emitted /\ p.dts <= s.streams[i].enforcer.last
  BY <1>1 DEF Leaves, AllKnown
<1>3. /\ t.started = s.started /\ t.streams[i].enforcer = s.streams[i].enforcer
      /\ t.accepted = s.accepted
  BY DEF AlignsAll, OnlyAligns, Kept, Framed
<1>4. Precede(FirstOf(packets, n - 1), {p})
  BY <1>1 DEF Leaves, Rising, FirstOf, Precede
<1>5. Precede(Beyond(t, i), {p})
  BY <1>1, <1>4 DEF AlignsAll, Adds, Leaves, Precede
<1> QED
  BY <1>2, <1>3, <1>5 DEF Arrives

LEMMA AlignsAllTwice ==
    ASSUME NEW s, NEW u, NEW t, NEW i \in DOMAIN s.streams, NEW p, NEW X,
           AlignsAll(s, u, i, X), AlignsOne(u, t, i, p), OnlyAligns(u, t, i), Genuine(t)
    PROVE  AlignsAll(s, t, i, X \cup {p})
<1>1. OnlyAligns(s, t, i) /\ Adds(s, u, i, X) /\ Adds(u, t, i, {p})
  BY AlignsTwice DEF AlignsAll, AlignsOne
<1>5. DOMAIN u.streams = DOMAIN s.streams
  BY DEF AlignsAll, OnlyAligns, Kept, Framed
<1>2. Beyond(t, i) \subseteq Beyond(s, i) \cup (X \cup {p})
  BY <1>1 DEF Adds
<1>3. \A k \in DOMAIN s.streams : k # i => Beyond(t, k) = Beyond(s, k)
  BY <1>1, <1>5 DEF Adds
<1>4. Adds(s, t, i, X \cup {p})
  BY <1>2, <1>3 DEF Adds
<1> QED
  BY <1>1, <1>4 DEF AlignsAll, AlignsOne

AlignInOrder(c, t, p) == ProcessAligner(t, c[1], p)
AlignsOrdered(c, s, packets, n, t) ==
    /\ Owns(t, SubSeq(packets, n + 1, Len(packets)) \o c[2])
    /\ AlignsAll(s, t, c[1], FirstOf(packets, n))

AligningInOrder == INSTANCE FoldLemmas WITH Op <- AlignInOrder, Inv <- AlignsOrdered

LEMMA AllAlignedOrdered ==
    ASSUME NEW s, NEW packets \in Seq(Packet), NEW rest \in Seq(Packet), Owns(s, packets \o rest),
           NEW i \in DOMAIN s.streams, Ordered(s), Genuine(s), Leaves(s, i, packets),
           NEW t, t = AlignAll(s, i, packets)
    PROVE  AlignsAll(s, t, i, Range(packets))
<1> DEFINE c == <<i, rest>>
<1>0. c[1] = i /\ c[2] = rest
  OBVIOUS
<1>1. t = AligningInOrder!Fold(c, s, packets)
  BY DEF AlignAll, AligningInOrder!Fold, AlignInOrder, FoldLeft, MapThenFoldSet, Max, AligningInOrder!Latest
<1> HIDE DEF c
<1>2. AlignsOrdered(c, s, packets, 0, s)
  BY <1>0, HandWhole, KeptAlways DEF OnlyAligns, AlignsAll, Adds, AlignsOrdered
<1>3. ASSUME NEW n \in 1 .. Len(packets), NEW u, AlignsOrdered(c, s, packets, n - 1, u)
      PROVE  AlignsOrdered(c, s, packets, n, AlignInOrder(c, u, packets[n]))
  <2> DEFINE v == AlignInOrder(c, u, packets[n])  p == packets[n]
             left == SubSeq(packets, n + 1, Len(packets)) \o rest
             first == FirstOf(packets, n - 1)
  <2>1. v = ProcessAligner(u, i, p) /\ p \in Packet /\ p = packets[n]
    BY <1>0 DEF AlignInOrder
  <2>2. Owns(u, SubSeq(packets, (n - 1) + 1, Len(packets)) \o rest) /\ AlignsAll(s, u, i, first)
    BY <1>0, <1>3 DEF AlignsOrdered
  <2>3. left \in Seq(Packet) /\ SubSeq(packets, (n - 1) + 1, Len(packets)) \o rest = <<p>> \o left
    BY HandNext
  <2>4. Arrives(u, i, p) /\ Known(u.accepted, i, p)
    BY <2>2, NextArrives
  <2>5. i \in DOMAIN u.streams /\ Ordered(u) /\ Genuine(u)
    BY <2>2 DEF AlignsAll, OnlyAligns, Kept, Framed
  <2>6. FirstOf(packets, n) = first \cup {p}
    BY FirstNext
  <2> HIDE DEF v, left, p, first
  <2>7. Owns(u, <<p>> \o left)
    BY <2>2, <2>3
  <2>9. Owns(v, left) /\ OnlyAligns(u, v, i) /\ Traces(u, i, u.streams[i].kind, p, v)
    BY <2>1, <2>3, <2>5, <2>7, Aligned
  <2>11. AlignsAll(s, v, i, first \cup {p})
    BY <2>1, <2>2, <2>3, <2>4, <2>5, <2>7, <2>9, AlignsAllTwice, AlignedOrdered DEF Traces
  <2> QED
    BY <1>0, <2>6, <2>9, <2>11 DEF v, AlignsOrdered, left
<1>4. AlignsOrdered(c, s, packets, Len(packets), AligningInOrder!Fold(c, s, packets))
  BY <1>2, <1>3, AligningInOrder!FoldInvariant, NaturalsOrdered
<1> QED
  BY <1>0, <1>1, <1>4, FirstIsAll DEF AlignsOrdered

-----------------------------------------------------------------------------
(* What leaves an Enforcer at once rises, and comes after what left it     *)
(* before.                                                                 *)

\* The DTS of an Enforcer's last packet, and those it emits after it.
After(e, r) ==
    /\ Rising(r.emits)
    /\ \A x \in Range(r.emits) : r.emitted /\ x.dts <= r.last /\ (e.emitted => e.last < x.dts)
    /\ e.emitted => r.emitted /\ e.last <= r.last
    /\ r.emitted => e.emitted \/ r.emits # <<>>

\* A packet that is moved comes a step after those before it.
Steps(all, e, r) ==
    /\ Apart(all, Range(r.emits))
    /\ \A x \in Range(r.emits) : e.emitted /\ x.dts # all[x.id].dts => e.last + StepSize <= x.dts

EmitsRising(c, e, packets, n, r) ==
    EmitsSoFar(c, e, packets, n, r) /\ After(e, r) /\ (Unmoved(c, packets) => Steps(c, e, r))

EmittingInOrder == INSTANCE FoldLemmas WITH Op <- EmitNext, Inv <- EmitsRising

\* One packet more is emitted.
LEMMA RisesOne ==
    ASSUME NEW x \in Seq(Packet), Rising(x), NEW p \in Packet, \A q \in Range(x) : q.dts < p.dts
    PROVE  Rising(Append(x, p))
BY RisingHeld DEF Precede

LEMMA OneEmittedAfter ==
    ASSUME NEW c, c.last \in Int, NEW e, e.last \in Int, e.emits \in Seq(Packet), After(c, e),
           NEW p \in Packet, NEW r, r = EmitOne(e, p), NEW all
    PROVE  After(c, r) /\ (Steps(all, c, e) /\ p.id \in DOMAIN all /\ p.dts = all[p.id].dts => Steps(all, c, r))
<1> DEFINE d == IF e.emitted /\ p.dts <= e.last THEN e.last + StepSize ELSE p.dts
           x == [p EXCEPT !.dts = d]
<1>0. \A q \in Range(e.emits) : q.dts \in Int
  <2>1. Range(e.emits) \subseteq Packet
    BY RangeIs
  <2> QED
    BY <2>1 DEF Packet
<1>1. p.dts \in Int /\ StepSize \in Int /\ StepSize >= 1
  BY LiveAssumption DEF StepSize, Packet
<1>2. r.last = d /\ r.emitted = TRUE /\ r.emits = Append(e.emits, x)
  BY DEF EmitOne
<1>3. d \in Int /\ (e.emitted => e.last < d) /\ (d = p.dts \/ (e.emitted /\ d = e.last + StepSize))
  BY <1>1
<1> HIDE DEF d
<1>4. x \in Packet /\ x.dts = d /\ x.id = p.id
  BY <1>1, <1>3 DEF Packet
<1> HIDE DEF x
<1>5. \A q \in Range(e.emits) : q.dts < x.dts
  BY <1>0, <1>3, <1>4 DEF After
<1>9. c.emitted => c.last < d
  BY <1>3 DEF After
<1>10. ASSUME NEW q \in Range(r.emits)
       PROVE  q.dts <= d /\ (c.emitted => c.last < q.dts)
  BY <1>0, <1>2, <1>3, <1>4, <1>5, <1>9, <1>10, RangeAppend DEF After
<1>11. ASSUME Steps(all, c, e), p.id \in DOMAIN all, p.dts = all[p.id].dts
       PROVE  Steps(all, c, r)
  <2>1. Range(r.emits) = Range(e.emits) \cup {x}
    BY <1>2, <1>4, RangeAppend
  <2>2. d # p.dts => (\A q \in Range(e.emits) : q.dts + StepSize <= d) /\ (c.emitted => c.last + StepSize <= d)
    BY <1>0, <1>1, <1>3 DEF After
  <2>3. \A q \in Range(e.emits) : ~(d < q.dts) /\ ~(d < d)
    BY <1>0, <1>3, <1>4, <1>5
  <2> QED
    <3>1. \A y \in Range(r.emits) : y = x \/ y \in Range(e.emits)
      BY <2>1
    <3>2. Apart(all, Range(r.emits))
      BY <1>3, <1>4, <1>11, <2>2, <2>3, <3>1 DEF Steps, Apart
    <3> QED
      BY <1>4, <1>11, <2>2, <3>1, <3>2 DEF Steps
<1> QED
  BY <1>2, <1>3, <1>4, <1>5, <1>9, <1>10, <1>11, RisesOne DEF After

LEMMA EmittedAfter ==
    ASSUME NEW packets \in Seq(Packet), NEW e \in EnforcerState, NEW r, r = Emits(e, packets), NEW all
    PROVE  After(e, r) /\ (Unmoved(all, packets) => Steps(all, e, r))
<1> DEFINE e0 == [last |-> e.last, emitted |-> e.emitted, emits |-> <<>>]
<1>1. r = EmittingInOrder!Fold(all, e0, packets)
  BY DEF Emits, EmittingInOrder!Fold, EmitNext, FoldLeft, MapThenFoldSet, Max, EmittingInOrder!Latest
<1>2. EmitsRising(all, e0, packets, 0, e0)
  BY RangeEmpty DEF StandFor, EmitsSoFar, EnforcerState, Rising, After, EmitsRising, Steps, Apart
<1>2a. e0.last = e.last /\ e0.emitted = e.emitted /\ e0.last \in Int
  BY DEF EnforcerState
<1> HIDE DEF e0
<1>4. ASSUME NEW n \in 1 .. Len(packets), NEW u, EmitsRising(all, e0, packets, n - 1, u)
      PROVE  EmitsRising(all, e0, packets, n, EmitNext(all, u, packets[n]))
  <2> DEFINE v == EmitNext(all, u, packets[n])  p == packets[n]
  <2>1. v = EmitOne(u, packets[n]) /\ p \in Packet /\ v = EmitOne(u, p)
    BY DEF EmitNext
  <2>6. Unmoved(all, packets) => p.id \in DOMAIN all /\ p.dts = all[p.id].dts
    BY RangeIs DEF Unmoved
  <2> HIDE DEF v, p
  <2>2. EmitsSoFar(e0, e0, packets, n - 1, u) /\ After(e0, u) /\ (Unmoved(all, packets) => Steps(all, e0, u))
    BY <1>4 DEF EmitsRising, EmitsSoFar
  <2>5. After(e0, v) /\ (Unmoved(all, packets) => Steps(all, e0, v))
    BY <1>2a, <2>1, <2>2, <2>6, OneEmittedAfter DEF EmitsSoFar, StandFor
  <2>7. EmitsSoFar(all, e0, packets, n, v)
    BY <2>1, <2>2, OneEmitted DEF EmitsSoFar
  <2> QED
    BY <2>5, <2>7 DEF v, EmitsRising
<1>5. EmitsRising(all, e0, packets, Len(packets), EmittingInOrder!Fold(all, e0, packets))
  BY <1>2, <1>4, EmittingInOrder!FoldInvariant, NaturalsOrdered
<1> QED
  BY <1>1, <1>5, <1>2a DEF After, Steps, EmitsRising

-----------------------------------------------------------------------------
(* An Enforcer keeps the LiveMuxer as it should be.                        *)

\* The packets of b may be in the Enforcer of stream i.
Holdable(s, i, b) ==
    /\ AllKnown(s.accepted, i, b) /\ Unmoved(s.accepted, b)
    /\ \A x \in Range(b) : x.stream = i
    /\ b # <<>> => s.started

\* What stands for packets of a stream is known too, and of that stream.
LEMMA StandsHoldable ==
    ASSUME NEW s, NEW i, NEW b \in Seq(Packet), NEW k \in 0 .. Len(b), Holdable(s, i, b),
           NEW emits, StandFor(emits, SubSeq(b, 1, k), k)
    PROVE  /\ AllKnown(s.accepted, i, emits) /\ \A x \in Range(emits) : x.stream = i
           /\ Holdable(s, i, SubSeq(b, k + 1, Len(b))) /\ Unmoved(s.accepted, SubSeq(b, 1, k))
           /\ emits # <<>> => s.started
<1> DEFINE first == SubSeq(b, 1, k)
           held == SubSeq(b, k + 1, Len(b))
<1>1. /\ Range(b) = Range(first) \cup Range(held) /\ first \in Seq(Packet) /\ held \in Seq(Packet)
      /\ Len(first) = k /\ Len(held) = Len(b) - k
  BY RangeOfSplit
<1>2. b = <<>> => held = <<>> /\ k = 0
  BY <1>1
<1>3. StandFor(emits, first, Len(first)) /\ \A x \in Range(b) : x.stream = i
  BY <1>1 DEF Holdable
<1> HIDE DEF first, held
<1>7. ASSUME NEW x \in Range(emits)
      PROVE  x.stream = i
  <2>2. PICK j \in 1 .. k : x = emits[j]
    BY <1>1, <1>3, RangeIs DEF StandFor
  <2>4. first[j] \in Range(first)
    BY <1>1, <2>2, RangeIs
  <2> QED
    BY <1>1, <1>3, <2>2, <2>4 DEF StandFor
<1>8. emits # <<>> => s.started
  BY <1>1, <1>2, <1>3 DEF StandFor, Holdable
<1> QED
  BY <1>1, <1>2, <1>3, <1>7, <1>8, EmittedKnown DEF first, held, Holdable, AllKnown, Unmoved

LEMMA BeyondIsPacket ==
    ASSUME NEW s \in LiveState, NEW i \in DOMAIN s.streams
    PROVE  Beyond(s, i) \subseteq Packet
<1>3. s.streams[i].aligner.pending \in Seq(Packet) /\ s.streams[i].aligner.cfg \in Seq(Packet)
  BY StreamFields, StateFields
<1> QED
  BY <1>3, Views, RangeIs DEF Waiting, Beyond

LEMMA RefedAlike ==
    ASSUME NEW s, NEW u, NEW i \in DOMAIN s.streams, NEW e, Refed(s, u, i, e)
    PROVE  Alike(s, u)
BY DEF Refed, InStream, Alike, NoneCut

LEMMA AlikeStepped ==
    ASSUME NEW s, NEW t, Alike(s, t), Stepped(s),
           \A k \in DOMAIN s.streams : t.streams[k].enforcer = s.streams[k].enforcer,
           \A n \in DOMAIN s.accepted : n \in DOMAIN t.accepted /\ t.accepted[n] = s.accepted[n]
    PROVE  Stepped(t)
BY AlikeShows DEF Alike, Stepped, Apart, Unmoved

LEMMA EmittedStepped ==
    ASSUME NEW s \in LiveState, Ordered(s), Stepped(s), NEW u, NEW i \in DOMAIN s.streams, NEW e, Refed(s, u, i, e),
           NEW r, After(s.streams[i].enforcer, r), Steps(s.accepted, s.streams[i].enforcer, r), r.emits \in Seq(Packet),
           Unmoved(s.accepted, e.buf), NEW t, OnlyAligns(u, t, i), Adds(u, t, i, Range(r.emits))
    PROVE  Stepped(t)
<1> DEFINE old == s.streams[i].enforcer  X == Beyond(s, i)  Y == Range(r.emits)  all == s.accepted
<1>1. /\ t.accepted = all /\ DOMAIN u.streams = DOMAIN s.streams /\ DOMAIN t.streams = DOMAIN s.streams
      /\ \A k \in DOMAIN s.streams : k # i => t.streams[k].enforcer = s.streams[k].enforcer
      /\ t.streams[i].enforcer = e
  BY DEF Refed, InStream, OnlyAligns, Kept, Framed
<1>2. Beyond(t, i) \subseteq X \cup Y /\ \A k \in DOMAIN s.streams : k # i => Beyond(t, k) = Beyond(s, k)
  <2>1. \A k \in DOMAIN s.streams : Beyond(u, k) = Beyond(s, k)
    BY RefedAlike, AlikeShows
  <2> QED
    BY <1>1, <2>1 DEF Adds
<1>3. StepSize \in Nat /\ old.last \in Int /\ \A x \in X \cup Y : x.dts \in Int
  <2>1. X \subseteq Packet /\ Y \subseteq Packet /\ old.last \in Int
    BY RangeIs, BeyondIsPacket, StateFields, StreamFields
  <2> QED
    BY <2>1, LiveAssumption DEF Packet, StepSize
<1>4. /\ \A x \in X : old.emitted /\ x.dts <= old.last
      /\ \A y \in Y : old.emitted => old.last < y.dts
  BY DEF Ordered, Staged, Fed, After
<1>5. Apart(all, X) /\ Apart(all, Y) /\ \A y \in Y : old.emitted /\ y.dts # all[y.id].dts => old.last + StepSize <= y.dts
  BY DEF Stepped, Steps
<1> HIDE DEF old, X, Y, all
<1>6. Apart(all, X \cup Y)
  BY <1>3, <1>4, <1>5 DEF Apart
<1>7. Apart(all, Beyond(t, i))
  BY <1>2, <1>6 DEF Apart
<1> QED
  BY <1>1, <1>2, <1>7 DEF Stepped, all

\* The Enforcer of a stream after it emitted.
LEMMA RefedFed ==
    ASSUME NEW s, NEW u, NEW i \in DOMAIN s.streams, NEW e, Refed(s, u, i, e),
           Ordered(s), s \in LiveState, NEW r, r.last \in Int, After(s.streams[i].enforcer, r),
           e.last = r.last, e.emitted = r.emitted, Holdable(s, i, e.buf),
           r.emits # <<>> => s.started
    PROVE  Ordered(u) /\ Beyond(u, i) = Beyond(s, i)
<1> DEFINE old == s.streams[i].enforcer
<1>0. DOMAIN s.streams \subseteq Nat /\ old.last \in Int
  BY StateFields, NumbersOfStreams, StreamFields
<1>1. Alike(s, u)
  BY RefedAlike
<1>2. Beyond(u, i) = Beyond(s, i) /\ u.started = s.started
  BY <1>1, AlikeShows DEF Alike
<1>3. Fed(s, i)
  BY DEF Ordered, Staged
<1>5. ASSUME NEW x \in Beyond(u, i)
      PROVE  e.emitted /\ x.dts <= e.last
  BY <1>0, <1>2, <1>3, BeyondIsPacket DEF Fed, After, Packet
<1> QED
  BY <1>0, <1>1, <1>2, <1>3, <1>5, AlikeOrdered DEF Fed, Holdable, After, Refed, InStream

\* What the Enforcer emits leaves it for the Aligner.
LEMMA EmitsLeave ==
    ASSUME NEW s, NEW u, NEW i \in DOMAIN s.streams, NEW e, Refed(s, u, i, e),
           Ordered(s), s \in LiveState, NEW r, r.last \in Int, After(s.streams[i].enforcer, r),
           e.last = r.last, e.emitted = r.emitted, Beyond(u, i) = Beyond(s, i),
           r.emits # <<>> => s.started, AllKnown(s.accepted, i, r.emits),
           \A x \in Range(r.emits) : x.stream = i, r.emits \in Seq(Packet)
    PROVE  Leaves(u, i, r.emits)
<1> DEFINE old == s.streams[i].enforcer
<1>0. old.last \in Int
  BY StateFields, StreamFields
<1>1. u.streams[i].enforcer = e /\ u.accepted = s.accepted /\ u.started = s.started
  BY DEF Refed, InStream
<1>3. ASSUME NEW x \in Beyond(u, i), NEW y \in Range(r.emits)
      PROVE  x.dts < y.dts
  <2>4. y \in Packet
    BY <1>3, RangeIs
  <2> QED
    BY <1>0, <1>3, <2>4, BeyondIsPacket DEF After, Ordered, Staged, Fed, Packet
<1>4. ASSUME NEW x \in Range(r.emits)
      PROVE  x.stream = i /\ u.started /\ e.emitted /\ x.dts <= e.last
  BY <1>1, <1>4, RangeEmpty DEF After
<1> QED
  BY <1>1, <1>3, <1>4 DEF Leaves, Precede, After

\* What an Enforcer does keeps the LiveMuxer in order.
LEMMA EmittedOrdered ==
    ASSUME NEW s, NEW hand, Owns(s, hand), NEW i \in DOMAIN s.streams,
           NEW b \in Seq(Packet), NEW k \in 0 .. Len(b), NEW rest \in Seq(Packet),
           Ids(b) \cup Ids(rest) = Ids(s.streams[i].enforcer.buf) \cup Ids(hand),
           Len(b) + Len(rest) = Len(s.streams[i].enforcer.buf) + Len(hand),
           Ordered(s), Stepped(s), Genuine(s), Holdable(s, i, b),
           NEW t, t = Emit(s, i, b, k)
    PROVE  Ordered(t) /\ Stepped(t) /\ Genuine(t)
<1> DEFINE first == SubSeq(b, 1, k)
           held == SubSeq(b, k + 1, Len(b))
           old == s.streams[i].enforcer
           r == Emits(old, first)
           e == EnforcerAfter(b, k, r)
           u == WithStream(s, i, WithEnforcer(s.streams[i], e))
<1>1. t = AlignAll(u, i, r.emits)
  BY DEF Emit, WithStream, WithEnforcer, EnforcerAfter
<1>2. e.buf = held /\ e.last = r.last /\ e.emitted = r.emitted
  BY DEF EnforcerAfter
<1>3. first \in Seq(Packet)
  BY RangeOfSplit
<1>4. r = Emits(old, first) /\ e = EnforcerAfter(b, k, r)
      /\ u = WithStream(s, i, WithEnforcer(s.streams[i], e))
  OBVIOUS
<1> HIDE DEF u, e, r
<1>5. /\ Owns(u, r.emits \o rest) /\ Refed(s, u, i, e)
      /\ r.emits \in Seq(Packet) /\ StandFor(r.emits, first, k)
  BY <1>4, EmitTaken
<1>6. /\ AllKnown(s.accepted, i, r.emits) /\ \A x \in Range(r.emits) : x.stream = i
      /\ Holdable(s, i, held) /\ (r.emits # <<>> => s.started) /\ Unmoved(s.accepted, first)
  BY <1>5, StandsHoldable
<1>7. s \in LiveState /\ old \in EnforcerState
  BY StateFields, StreamFields DEF Owns
<1>8. After(old, r) /\ Steps(s.accepted, old, r) /\ r.last \in Int
  BY <1>3, <1>4, <1>6, <1>7, EmittedAfter, EmittedAll
<1> HIDE DEF first, held, old
<1>9. After(s.streams[i].enforcer, r) /\ Holdable(s, i, e.buf) /\ Steps(s.accepted, s.streams[i].enforcer, r)
  BY <1>2, <1>6, <1>8 DEF old
<1>10. Ordered(u) /\ Beyond(u, i) = Beyond(s, i)
  BY <1>2, <1>5, <1>6, <1>7, <1>8, <1>9, RefedFed
<1>14. AlignsAll(u, t, i, Range(r.emits))
  BY <1>1, <1>2, <1>5, <1>6, <1>7, <1>8, <1>9, <1>10, AllAlignedOrdered, EmitsLeave
     DEF Refed, InStream, Genuine, Holdable
<1>15. Stepped(t)
  BY <1>5, <1>7, <1>9, <1>14, EmittedStepped DEF AlignsAll, Holdable
<1> QED
  BY <1>14, <1>15 DEF AlignsAll

\* The packets in the Enforcer of a stream.
LEMMA BufferHoldable ==
    ASSUME NEW s, NEW i \in DOMAIN s.streams, Ordered(s), Stepped(s), Genuine(s),
           NEW b, b = s.streams[i].enforcer.buf
    PROVE  Holdable(s, i, b)
BY DEF Ordered, Stepped, Staged, Genuine, Fed, Holdable

\* A packet p comes to stream i.
Enters(s, i, p) == s.started /\ p.stream = i /\ Known(s.accepted, i, p) /\ p.dts = s.accepted[p.id].dts

LEMMA EntersHoldable ==
    ASSUME NEW s, NEW i, NEW p, Enters(s, i, p), NEW b, Holdable(s, i, b),
           NEW new, Range(new) = Range(b) \cup {p}
    PROVE  Holdable(s, i, new)
BY DEF Enters, Holdable, AllKnown, Unmoved, Known

\* A packet is dropped that comes too late.
CutOff(s, where) == s.started /\ where # "before sync"

LEMMA LateAlike ==
    ASSUME NEW s, NEW p \in Packet, NEW rest \in Seq(Packet), Owns(s, <<p>> \o rest),
           NEW where \in Where, CutOff(s, where), NEW t, t = Drop(s, p, where)
    PROVE  Owns(t, rest) /\ OnlyWrites(s, t) /\ Alike(s, t)
<1>1. /\ Owns(t, rest) /\ OnlyWrites(s, t)
      /\ t.queue = s.queue /\ t.err = s.err /\ t.out = s.out
      /\ t.reported = s.reported \cup {[packet |-> p, where |-> where]}
  BY Dropped
<1>2. NoneCut(s, t)
  <2> SUFFICES ASSUME NEW r \in t.reported, r \notin s.reported PROVE r.where # "before sync"
    BY DEF NoneCut
  <2>1. r.where = where
    BY <1>1
  <2> QED
    BY <2>1 DEF CutOff
<1> QED
  BY <1>1, <1>2 DEF OnlyWrites, Kept, Framed, Alike, CutOff

LEMMA EnforcedOrdered ==
    ASSUME NEW s, NEW p \in Packet, NEW rest \in Seq(Packet), Owns(s, <<p>> \o rest),
           NEW i \in DOMAIN s.streams, Ordered(s), Stepped(s), Genuine(s), Enters(s, i, p),
           NEW t, t = ProcessEnforcer(s, i, p)
    PROVE  Ordered(t) /\ Stepped(t) /\ Genuine(t)
<1> DEFINE e == s.streams[i].enforcer
           late == e.emitted /\ p.dts < e.last
           stamps == [j \in DOMAIN e.buf |-> e.buf[j].dts]
           at == SearchIndex(stamps, p.dts)
           new == InsertAt(e.buf, at, p)
           r == Drop(s, p, "late")
           hand == <<p>> \o rest
<1>1. s \in LiveState /\ s.streams[i] \in StreamState
  BY StateFields DEF Owns
<1>2. e.buf \in Seq(Packet) /\ Len(e.buf) \in Nat
  BY <1>1, StreamFields
<1>3. hand \in Seq(Packet) /\ Len(hand) = 1 + Len(rest) /\ Ids(hand) = {p.id} \cup Ids(rest) /\ Owns(s, hand)
  BY HandFirst
<1>4. DOMAIN s.streams \subseteq Nat
  BY <1>1, NumbersOfStreams
<1>5. CASE s.err # "none"
  BY <1>4, <1>5, Released, CompletesGenuine, AlikeOrdered, AlikeStepped, ZenonT(60)
     DEF ProcessEnforcer, OnlyWrites, Kept, Framed, Alike, NoneCut
<1>6. CASE s.err = "none" /\ late
  <2>1. t = Emit(r, i, e.buf, ReadyCount(e.buf))
    BY <1>6 DEF ProcessEnforcer
  <2> HIDE DEF r, e
  <2> DEFINE where == "late"
  <2>2. r = Drop(s, p, where) /\ where \in Where /\ CutOff(s, where)
    BY DEF r, Where, CutOff, Enters
  <2> HIDE DEF where
  <2>3. Owns(r, rest) /\ OnlyWrites(s, r) /\ Alike(s, r)
    BY <2>2, LateAlike
  <2>6. Ordered(r) /\ Stepped(r) /\ Genuine(r)
    BY <1>4, <2>3, AlikeOrdered, AlikeStepped, CompletesGenuine DEF OnlyWrites, Kept, Framed
  <2>7. i \in DOMAIN r.streams /\ r.streams[i].enforcer.buf = e.buf
    BY <2>3 DEF OnlyWrites, e
  <2> DEFINE b == e.buf  n == ReadyCount(b)
  <2>8. /\ b \in Seq(Packet) /\ n \in 0 .. Len(b) /\ t = Emit(r, i, b, n)
        /\ Ids(b) \cup Ids(rest) = Ids(r.streams[i].enforcer.buf) \cup Ids(rest)
        /\ Len(b) + Len(rest) = Len(r.streams[i].enforcer.buf) + Len(rest)
        /\ b = r.streams[i].enforcer.buf
    BY <1>2, <2>1, <2>7, ReadyIsPart
  <2> HIDE DEF b, n
  <2> QED
    BY <2>3, <2>6, <2>7, <2>8, EmittedOrdered, BufferHoldable
<1>7. CASE s.err = "none" /\ ~late
  <2>1. t = Emit(s, i, new, ReadyCount(new))
    BY <1>7 DEF ProcessEnforcer
  <2>2. at \in 1 .. Len(e.buf) + 1
    <3>1. Len(stamps) = Len(e.buf)
      BY <1>2
    <3> HIDE DEF stamps
    <3> QED
      BY <1>2, <3>1, SearchFinds
  <2> HIDE DEF at
  <2>3. /\ new \in Seq(Packet) /\ Len(new) = Len(e.buf) + 1 /\ Ids(new) = Ids(e.buf) \cup {p.id}
        /\ Range(new) = Range(e.buf) \cup {p}
    BY <1>2, <2>2, IdsOfInsert, RangeOfInsert, SMTT(30)
  <2> HIDE DEF new, hand
  <2>4. ReadyCount(new) \in 0 .. Len(new)
    BY <2>3, ReadyIsPart
  <2>5. Ids(new) \cup Ids(rest) = Ids(s.streams[i].enforcer.buf) \cup Ids(hand)
    BY <1>3, <2>3
  <2>6. Len(new) + Len(rest) = Len(s.streams[i].enforcer.buf) + Len(hand)
    <3> DEFINE x == Len(e.buf)  y == Len(rest)
    <3>1. x \in Nat /\ y \in Nat /\ Len(new) = x + 1 /\ Len(hand) = 1 + y /\ Len(s.streams[i].enforcer.buf) = x
      BY <1>2, <1>3, <2>3
    <3> HIDE DEF x, y
    <3> QED
      BY <3>1 DEF y
  <2> DEFINE n == ReadyCount(new)
  <2> HIDE DEF n
  <2> QED
    BY <1>3, <2>1, <2>3, <2>4, <2>5, <2>6, EmittedOrdered, BufferHoldable, EntersHoldable DEF n
<1> QED
  BY <1>5, <1>6, <1>7

LEMMA EnforcerFlushedOrdered ==
    ASSUME NEW s, NEW rest \in Seq(Packet), Owns(s, rest), NEW i \in DOMAIN s.streams,
           Ordered(s), Stepped(s), Genuine(s), NEW t, t = FlushEnforcer(s, i)
    PROVE  Ordered(t) /\ Stepped(t) /\ Genuine(t)
<1> DEFINE b == s.streams[i].enforcer.buf  n == Len(b)
<1>1. s \in LiveState /\ s.streams[i] \in StreamState
  BY StateFields DEF Owns
<1>2. b \in Seq(Packet) /\ n \in 0 .. Len(b)
  <2>1. b \in Seq(Packet) /\ Len(b) \in Nat
    BY <1>1, StreamFields
  <2> QED
    BY <2>1
<1>3. /\ t = Emit(s, i, b, n) /\ b = s.streams[i].enforcer.buf
      /\ Ids(b) \cup Ids(rest) = Ids(s.streams[i].enforcer.buf) \cup Ids(rest)
      /\ Len(b) + Len(rest) = Len(s.streams[i].enforcer.buf) + Len(rest)
  BY DEF FlushEnforcer
<1> HIDE DEF b, n
<1> QED
  BY <1>2, <1>3, EmittedOrdered, BufferHoldable

\* The LiveMuxer between two packets of a call.
Runs(s) == s.started /\ Ordered(s) /\ Stepped(s) /\ Traced(s)

LEMMA AcceptedOrdered ==
    ASSUME NEW s, NEW hand, Owns(s, hand), NEW i \in DOMAIN s.streams, NEW dts \in Int,
           NEW kind \in {"key", "delta", "config"}, NEW dur \in Int, NEW disc \in BOOLEAN, Runs(s),
           NEW t, t = Accept(s, i, dts, kind, dur, disc)
    PROVE  Owns(t, hand) /\ Runs(t) /\ DOMAIN t.streams = DOMAIN s.streams
<1> DEFINE p == [id |-> Len(s.accepted) + 1, stream |-> i, dts |-> dts, kind |-> kind, dur |-> dur, disc |-> disc]
           u == Taking(s, p)
<1>1. s \in LiveState /\ Len(s.accepted) \in Nat /\ i \in Nat /\ hand \in Seq(Packet) /\ s.accepted \in Seq(Packet)
  <2>1. s \in LiveState /\ hand \in Seq(Packet)
    BY DEF Owns
  <2>2. DOMAIN s.streams = 1 .. Len(s.streams) /\ Len(s.accepted) \in Nat /\ s.accepted \in Seq(Packet)
    BY <2>1, StateFields
  <2> QED
    BY <2>1, <2>2
<1>2. p \in Packet /\ p.id = Len(s.accepted) + 1 /\ p.stream = i
  BY <1>1 DEF Packet
<1>3. t = s \/ t = ProcessEnforcer(u, i, p)
  BY DEF Accept, Taking
<1>4. u = Taking(s, p)
  OBVIOUS
<1>5. Owns(t, hand) /\ Passes(s, t)
  BY Accepted
<1> HIDE DEF p, u
<1>6. /\ Owns(u, <<p>> \o hand) /\ u.streams = s.streams /\ u.accepted = Append(s.accepted, p)
      /\ u.queue = s.queue /\ u.started = s.started
      /\ u.closed = s.closed /\ u.err = s.err /\ u.out = s.out /\ u.released = s.released
      /\ u.reported = s.reported
  BY <1>2, <1>4, Taken
<1>7. CASE t = ProcessEnforcer(u, i, p)
  <2>1. Alike(s, u) /\ Ordered(s) /\ Stepped(s)
    BY <1>6 DEF Runs, Alike, NoneCut
  <2>2. \A n \in DOMAIN s.accepted : n \in DOMAIN u.accepted /\ u.accepted[n] = s.accepted[n]
    BY <1>1, <1>2, <1>6
  <2>3. Ordered(u) /\ Stepped(u)
    BY <1>1, <1>6, <2>1, <2>2, AlikeOrdered, AlikeStepped, NumbersOfStreams
  <2>5. Enters(u, i, p)
    BY <1>1, <1>2, <1>6 DEF Known, Enters, Runs
  <2>8. t.started = u.started
    BY <1>1, <1>2, <1>6, <1>7, Enforced DEF OnlyEnforces
  <2> QED
    BY <1>1, <1>2, <1>5, <1>6, <1>7, <2>3, <2>5, <2>8, EnforcedOrdered, GenuineStill
       DEF Runs, Passes, Traced
<1>8. CASE t = s
  BY <1>8
<1> QED
  BY <1>3, <1>7, <1>8

\* The frames of a chunk, and the LiveMuxer while they come.
FramesInOrder(c, t, dts) == FrameNext(c[1], t, dts)

FramesOrdered(c, s, stamps, n, t) == Owns(t, c[2]) /\ Runs(t) /\ DOMAIN t.streams = DOMAIN s.streams

FramingInOrder == INSTANCE FoldLemmas WITH Op <- FramesInOrder, Inv <- FramesOrdered

LEMMA FramesAcceptedOrdered ==
    ASSUME NEW s, NEW hand \in Seq(Packet), Owns(s, hand), NEW i \in DOMAIN s.streams,
           NEW tick \in Int, NEW n \in Nat, Runs(s), NEW t, t = AcceptFrames(s, i, tick, n)
    PROVE  Runs(t)
<1> DEFINE stamps == [j \in 1 .. n |-> tick * Tick + (j - 1) * FrameDuration]
           c == <<i, hand>>
<1>0. c[1] = i /\ c[2] = hand
  OBVIOUS
<1>1. t = FramingInOrder!Fold(c, s, stamps)
  BY DEF AcceptFrames, FramingInOrder!Fold, FramesInOrder, FrameNext, FoldLeft, MapThenFoldSet, Max,
         FramingInOrder!Latest
<1>2. stamps \in Seq(Int)
  BY LiveAssumption
<1> HIDE DEF stamps, c
<1>3. FramesOrdered(c, s, stamps, 0, s)
  BY <1>0 DEF FramesOrdered
<1>4. ASSUME NEW m \in 1 .. Len(stamps), NEW u, FramesOrdered(c, s, stamps, m - 1, u)
      PROVE  FramesOrdered(c, s, stamps, m, FramesInOrder(c, u, stamps[m]))
  <2> DEFINE v == FramesInOrder(c, u, stamps[m])  dts == stamps[m]  kind == "delta"  disc == FALSE
  <2>1. dts \in Int /\ FrameDuration \in Int /\ kind \in {"key", "delta", "config"} /\ disc \in BOOLEAN
    BY <1>2, LiveAssumption
  <2>2. v = u \/ v = Accept(u, i, dts, kind, FrameDuration, disc)
    BY <1>0 DEF FramesInOrder, FrameNext
  <2>3. Owns(u, hand) /\ Runs(u) /\ DOMAIN u.streams = DOMAIN s.streams /\ i \in DOMAIN u.streams
    BY <1>0, <1>4 DEF FramesOrdered
  <2> HIDE DEF v, dts, kind, disc
  <2> QED
    BY <1>0, <2>1, <2>2, <2>3, AcceptedOrdered DEF v, FramesOrdered
<1>5. FramesOrdered(c, s, stamps, Len(stamps), FramingInOrder!Fold(c, s, stamps))
  BY <1>2, <1>3, <1>4, FramingInOrder!FoldInvariant, NaturalsOrdered
<1> QED
  BY <1>1, <1>5 DEF FramesOrdered

-----------------------------------------------------------------------------
(* Before the first packet nothing is held, and nothing is known of the    *)
(* sync point.                                                             *)
Idle(st) ==
    /\ st.enforcer.buf = <<>> /\ ~st.enforcer.emitted /\ st.pending = <<>>
    /\ st.aligner.pending = <<>> /\ st.aligner.cfg = <<>> /\ ~st.aligner.started

Untouched(s) ==
    s.out = <<>> /\ s.queue = <<>> /\ s.reported = {} /\ \A k \in DOMAIN s.streams : Idle(s.streams[k])

AudioExpects(s) ==
    s.started /\ SyncVideo(s) # 0 =>
        \A k \in DOMAIN s.streams : s.streams[k].kind = "audio" => s.streams[k].aligner.expects

LEMMA EmptyRange ==
    ASSUME NEW S, NEW a \in Seq(S), Range(a) = {}
    PROVE  a = <<>>
BY RangeIs, EmptySeq

LEMMA UntouchedOrdered ==
    ASSUME NEW s \in LiveState, Untouched(s), AudioExpects(s)
    PROVE  Ordered(s) /\ Stepped(s)
<1>1. Range(<<>>) = {} /\ DOMAIN <<>> = {} /\ s.out = <<>> /\ s.queue = <<>>
  BY RangeEmpty DEF Untouched
<1>2. Sent(s.out) = {} /\ Line(s.out, s.queue) = {} /\ Sent(<<>>) = {}
  BY <1>1 DEF Sent, Line
<1>3. \A k : Lined({}, k) = {}
  BY DEF Lined
<1>4. \A k \in DOMAIN s.streams : Idle(s.streams[k])
  BY DEF Untouched
<1>5. \A k \in DOMAIN s.streams : Lookahead(s)[k] = {}
  BY <1>1, <1>4 DEF Lookahead, Idle
<1>7. \A k \in DOMAIN s.streams : Passed(s, k) = {} /\ Waiting(s, k) = {} /\ Beyond(s, k) = {}
  BY <1>1, <1>2, <1>3, <1>4, <1>5 DEF Passed, Behind, Waiting, Beyond, Idle
<1>10. Fresh(s)
  BY <1>4 DEF Fresh, Untouched, Idle
<1>11. ASSUME NEW k \in DOMAIN s.streams
       PROVE  Waits(s, k) /\ Fed(s, k) /\ Keyed(s, k)
  BY <1>1, <1>4, <1>7 DEF Rising, Waits, Precede, Idle, Fed, Keyed
<1>12. Staged(s)
  BY <1>1, <1>2, <1>3, <1>5, <1>10, <1>11
     DEF Staged, Fronted, InOrder, AllWritten, HeldLast, AllSpan, Tiled, Lookahead
<1>14. \A k \in DOMAIN s.streams : s.streams[k].aligner.started = FALSE
  BY <1>4, StateFields, StreamFields DEF Idle
<1> QED
  BY <1>1, <1>4, <1>7, <1>12, <1>14, NumbersOfStreams, SyncVideoIs
     DEF Ordered, Stepped, Apart, Unmoved, Synced, Idle, AudioExpects, Untouched

\* A LiveMuxer that was not started is untouched.
LEMMA FreshUntouched ==
    ASSUME NEW s \in LiveState, Ordered(s), ~s.started
    PROVE  Untouched(s)
<1>1. Staged(s)
  BY DEF Ordered
<1>2. ASSUME NEW k \in DOMAIN s.streams
      PROVE  Beyond(s, k) = {} /\ s.streams[k].enforcer.buf = <<>> /\ ~s.streams[k].enforcer.emitted
  BY <1>1 DEF Staged, Fed
<1>3. ASSUME NEW k \in DOMAIN s.streams
      PROVE  Idle(s.streams[k])
  <2>4. /\ Range(s.streams[k].pending) = {} /\ Range(s.streams[k].aligner.pending) = {}
        /\ Range(s.streams[k].aligner.cfg) = {}
    BY <1>2 DEF Beyond, Waiting, Passed, Behind, Lookahead
  <2> QED
    BY <1>1, <1>2, <2>4, EmptyRange, StreamFields, StateFields DEF Idle, Staged, Fresh
<1>4. LineOf(s) = {}
  <2> SUFFICES ASSUME NEW x \in LineOf(s) PROVE FALSE
    OBVIOUS
  <2>3. x.packet \in Passed(s, x.packet.stream)
    BY DEF Passed, Behind, Lined, LineOf
  <2> QED
    BY <1>1, <1>2, <2>3 DEF Beyond, AllSpan, Staged, Tiled, LineOf, Lookahead
<1>5. s.out \in Seq(Offer) /\ s.queue \in Seq(Entry)
  BY StateFields
<1>7. s.out = <<>>
  <2>2. 1 \notin DOMAIN s.out
    BY <1>4, <1>5, SentAre DEF LineOf, Line
  <2> QED
    BY <1>5, <2>2, EmptySeq
<1> QED
  BY <1>1, <1>3, <1>4, <1>5, <1>7, EmptyRange DEF Untouched, LineOf, Line, Staged, Fresh

\* The first packet: audio learns that it waits for the sync point.
LEMMA StartedUntouched ==
    ASSUME NEW s \in LiveState, Untouched(s), ~s.started, NEW t, t = Start(s)
    PROVE  t.started /\ Untouched(t) /\ AudioExpects(t)
<1> DEFINE Expecting(st, e) == [st EXCEPT !.aligner.expects = e]
           E(k) == k \in AudiosOf(s) /\ SyncVideo(s) # 0
<1>3. /\ t.started /\ t.out = s.out /\ t.queue = s.queue /\ t.reported = s.reported
      /\ t.streams = [k \in DOMAIN s.streams |-> Expecting(s.streams[k], E(k))]
  BY StateShape DEF IsLive, Start
<1>4. ASSUME NEW st \in StreamState, NEW e \in BOOLEAN, Idle(st)
      PROVE  Expecting(st, e).kind = st.kind /\ Expecting(st, e).aligner.expects = e /\ Idle(Expecting(st, e))
  BY <1>4 DEF StreamState, AlignerState, Idle
<1>5. \A k \in DOMAIN s.streams : E(k) \in BOOLEAN /\ s.streams[k] \in StreamState
  BY StateFields
<1> HIDE DEF Expecting
<1>6. ASSUME NEW k \in DOMAIN s.streams
      PROVE  t.streams[k].kind = s.streams[k].kind /\ t.streams[k].aligner.expects = E(k) /\ Idle(t.streams[k])
  <2>1. s.streams[k] \in StreamState /\ E(k) \in BOOLEAN /\ Idle(s.streams[k])
    BY <1>5 DEF Untouched
  <2>2. t.streams[k] = Expecting(s.streams[k], E(k))
    BY <1>3
  <2> DEFINE st == s.streams[k]  e == E(k)
  <2> HIDE DEF st, E, e
  <2> QED
    BY <1>4, <2>1, <2>2 DEF st, e
<1>7. DOMAIN t.streams = DOMAIN s.streams
  BY <1>3
<1>9. AudioExpects(t)
  BY <1>6, <1>7, SyncVideoSame DEF AudioExpects, AudiosOf
<1> QED
  BY <1>3, <1>6, <1>7, <1>9 DEF Untouched

LEMMA ClaimedAlike ==
    ASSUME NEW s, NEW hand, Owns(s, hand), NEW i \in DOMAIN s.streams,
           NEW mode \in {"packet", "adts"}, NEW t, t = Claim(s, i, mode)
    PROVE  Alike(s, t) /\ \A k \in DOMAIN s.streams : t.streams[k].enforcer = s.streams[k].enforcer
<1>1. InStream(s, t, i) /\ t.streams[i].kind = s.streams[i].kind
      /\ t.streams[i].enforcer = s.streams[i].enforcer /\ t.streams[i].aligner = s.streams[i].aligner
  BY Claimed
<1>2. s \in LiveState /\ IsLive(s) /\ s.streams[i] \in StreamState
  BY StateShape, StateFields DEF Owns
<1> QED
  BY <1>1, <1>2 DEF InStream, Alike, NoneCut, WithMode, StreamState, IsLive, Claim

LEMMA ReadyRuns ==
    ASSUME NEW s, Owns(s, <<>>), NEW i \in DOMAIN s.streams, NEW mode \in {"packet", "adts"},
           NEW fuse \in Int, Traced(s), Ordered(s), Stepped(s), NEW t, t = Ready(s, i, mode, fuse)
    PROVE  Runs(t)
<1> DEFINE u == Claim(s, i, mode)  v == Start(u)  none == <<>>
<1>1. u = Claim(s, i, mode) /\ v = Start(u) /\ t = SetFuse(v, fuse)
  BY DEF Ready
<1>2. Traced(t)
  BY ReadyOwns DEF Passes
<1>3. Owns(s, none)
  OBVIOUS
<1> HIDE DEF u, v, none
<1>4. /\ Owns(u, none) /\ Alike(s, u) /\ \A k \in DOMAIN s.streams : u.streams[k].enforcer = s.streams[k].enforcer
      /\ u.accepted = s.accepted
  BY <1>1, <1>3, Claimed, ClaimedAlike DEF InStream
<1>5. i \in DOMAIN u.streams /\ DOMAIN s.streams \subseteq Nat /\ u \in LiveState
  BY <1>3, <1>4, NumbersOfStreams DEF Owns, Alike
<1>6. Ordered(u) /\ Stepped(u)
  BY <1>4, <1>5, AlikeOrdered, AlikeStepped
<1>7. Owns(v, none)
  BY <1>1, <1>4, <1>5, Started
<1>8. v.started /\ Ordered(v) /\ Stepped(v)
  BY <1>1, <1>5, <1>6, <1>7, FreshUntouched, StartedUntouched, UntouchedOrdered DEF Start, Owns
<1>9. /\ t.streams = v.streams /\ t.queue = v.queue /\ t.started = v.started
      /\ t.err = v.err /\ t.out = v.out /\ t.reported = v.reported /\ t.accepted = v.accepted
  BY <1>1, <1>7, FuseSet
<1> QED
  BY <1>2, <1>7, <1>8, <1>9, AlikeOrdered, AlikeStepped, NumbersOfStreams DEF Runs, Alike, NoneCut, Owns

\* Streams are added before the first packet.
LEMMA AddedOrdered ==
    ASSUME NEW s, Owns(s, <<>>), NEW kind \in Kinds, Ordered(s), ~s.started, NEW t, t = WithNew(s, kind)
    PROVE  Ordered(t) /\ Stepped(t)
<1> DEFINE st == NewStream(kind)  n == Len(s.streams)
<1>1. s \in LiveState /\ IsLive(s)
  BY StateShape DEF Owns
<1>2. Untouched(s)
  BY <1>1, FreshUntouched
<1>4. t \in LiveState
  BY StreamAdded DEF Owns
<1>5. Idle(st) /\ st \in StreamState
  BY LiveAssumption DEF NewStream, Idle, StreamState, EnforcerState, AlignerState
<1> HIDE DEF st
<1>6. /\ t.streams = Append(s.streams, st) /\ t.queue = s.queue /\ t.started = s.started
      /\ t.out = s.out /\ t.reported = s.reported
  BY <1>1 DEF IsLive, WithNew, st
<1>7. /\ s.streams \in Seq(StreamState) /\ n \in Nat /\ DOMAIN s.streams = 1 .. n
  BY <1>1, StateFields
<1>8. ASSUME NEW k \in DOMAIN t.streams
      PROVE  Idle(t.streams[k])
  BY <1>2, <1>5, <1>6, <1>7 DEF Untouched
<1> QED
  BY <1>2, <1>4, <1>6, <1>8, UntouchedOrdered DEF Untouched, AudioExpects

-----------------------------------------------------------------------------
(* Close flushes the Enforcers, and all is in order after that.            *)
InOrderNext(c, t, i) == FlushEnforcer(t, i)

EnforcersOrdered(c, s, numbers, n, t) ==
    Owns(t, c) /\ Ordered(t) /\ Stepped(t) /\ Genuine(t) /\ DOMAIN t.streams = DOMAIN s.streams

EnforcingInOrder == INSTANCE FoldLemmas WITH Op <- InOrderNext, Inv <- EnforcersOrdered

LEMMA EnforcersFlushedOrdered ==
    ASSUME NEW s, NEW hand \in Seq(Packet), Owns(s, hand), Ordered(s), Stepped(s), Genuine(s),
           NEW t, t = FlushEnforcers(s)
    PROVE  Ordered(t) /\ Stepped(t)
<1> DEFINE numbers == Numbers(s)
<1>1. s \in LiveState /\ DOMAIN s.streams = 1 .. Len(s.streams) /\ Len(s.streams) \in Nat
  BY StateFields DEF Owns
<1>2. /\ numbers \in Seq(Nat) /\ Len(numbers) = Len(s.streams)
      /\ \A k \in 1 .. Len(s.streams) : numbers[k] = k
  BY <1>1, NumbersAre
<1>3. t = EnforcingInOrder!Fold(hand, s, numbers)
  BY DEF FlushEnforcers, ForEachStream, Numbers, EnforcingInOrder!Fold, InOrderNext, FoldLeft, MapThenFoldSet, Max,
         EnforcingInOrder!Latest
<1> HIDE DEF numbers
<1>4. EnforcersOrdered(hand, s, numbers, 0, s)
  BY DEF EnforcersOrdered
<1>5. ASSUME NEW n \in 1 .. Len(numbers), NEW u, EnforcersOrdered(hand, s, numbers, n - 1, u)
      PROVE  EnforcersOrdered(hand, s, numbers, n, InOrderNext(hand, u, numbers[n]))
  BY <1>1, <1>2, <1>5, EnforcerFlushed, EnforcerFlushedOrdered
     DEF InOrderNext, EnforcersOrdered, OnlyEnforces
<1>6. EnforcersOrdered(hand, s, numbers, Len(numbers), EnforcingInOrder!Fold(hand, s, numbers))
  BY <1>2, <1>4, <1>5, EnforcingInOrder!FoldInvariant, NaturalsOrdered
<1> QED
  BY <1>3, <1>6 DEF EnforcersOrdered

-----------------------------------------------------------------------------
(* What passes the Aligners while Close flushes them.                      *)

\* A picture of stream k that has passed its Aligner comes after a keyframe.
KeyFirst(s, k) ==
    s.streams[k].kind = "video" =>
        \A x \in Passed(s, k) : x.kind = "delta" => \E y \in Passed(s, k) : y.kind = "key" /\ y.dts < x.dts

\* The Aligner that tells where audio may start.
Marker(s) == s.streams[SyncVideo(s)].aligner

\* The packets of X do not come before the sync point.
FromMark(a, X) == a.started => \A x \in X : ~(x.dts < a.sync)

CutBefore(a, drops) == \A r \in drops : r.where = "before sync" => a.started /\ r.packet.dts < a.sync

Cut(s) ==
    SyncVideo(s) # 0 =>
        /\ \A k \in DOMAIN s.streams : s.streams[k].kind = "audio" => FromMark(Marker(s), Passed(s, k))
        /\ CutBefore(Marker(s), s.reported)

Sorted(s) ==
    Tiled(s) /\ Cut(s) /\ \A k \in DOMAIN s.streams : KeyFirst(s, k) /\ Apart(s.accepted, Passed(s, k))

SameStart(m, a) == a.started = m.started /\ (a.started => a.sync = m.sync)

\* Stream k has not been flushed.
Flushable(s, k) ==
    /\ Fronted(s) /\ Waits(s, k) /\ Apart(s.accepted, Beyond(s, k))
    /\ SyncVideo(s) # 0 /\ s.streams[k].kind = "audio" => SameStart(Marker(s), s.streams[k].aligner)

\* X is what passed a before it was flushed, Y what has then.
Sifts(a, X, Y) == \A x \in Y : x \in X \/ (a.started => ~(x.dts < a.sync))

CutsBefore(a, X, Y) == \A r \in Y : r \in X \/ (a.started /\ r.packet.dts < a.sync)

\* The Aligner of stream i is flushed.
FlushPasses(s, t, i) ==
    LET a == s.streams[i].aligner IN
    /\ Tiled(t) /\ Fronted(t) /\ t.accepted = s.accepted /\ Passed(t, i) \subseteq Beyond(s, i)
    /\ DOMAIN t.streams = DOMAIN s.streams /\ t.streams[i].kind = s.streams[i].kind
    /\ \A k \in DOMAIN s.streams : k # i => t.streams[k] = s.streams[k] /\ Passed(t, k) = Passed(s, k)
    /\ a.pending = <<>> =>
          Passed(t, i) = Passed(s, i) /\ SameMarks(a, t.streams[i].aligner) /\ t.reported = s.reported
    /\ Sifts(a, Passed(s, i), Passed(t, i)) /\ CutsBefore(a, s.reported, t.reported)

\* What an Aligner holds may pass it.
LEMMA HeldCome ==
    ASSUME NEW s, NEW t, NEW i, Waits(s, i), Passed(t, i) = Passed(s, i)
    PROVE  AllCome(t, i, s.streams[i].aligner.pending)
BY DEF Waiting, Waits, AllCome, Precede

LEMMA FlushingPasses ==
    ASSUME NEW s, NEW rest \in Seq(Packet), Owns(s, rest), NEW i \in DOMAIN s.streams,
           Tiled(s), Fronted(s), Waits(s, i), NEW t, t = FlushAligner(s, i)
    PROVE  FlushPasses(s, t, i)
<1> DEFINE a == s.streams[i].aligner  held == a.pending  none == <<>>
<1>1. PICK r : Owns(r, held \o rest) /\ Unloads(s, r, i) /\ FlushCases(s, t, i, r, rest)
  BY AlignerUnloaded
<1>2. held \in Seq(Packet)
  BY StateFields, StreamFields DEF Owns
<1>4. Tiled(r) /\ Fronted(r) /\ \A k : Passed(r, k) = Passed(s, k)
  BY <1>1, Shown DEF Unloads, Shows
<1>5. AllCome(r, i, held)
  BY <1>4, HeldCome
<1>3. Passed(s, i) \cup Range(held) \subseteq Beyond(s, i)
  BY DEF Beyond, Waiting
<1>6. /\ i \in DOMAIN r.streams /\ DOMAIN r.streams = DOMAIN s.streams /\ r.reported = s.reported
      /\ r.accepted = s.accepted
      /\ r.streams[i].kind = s.streams[i].kind /\ r.streams[i].aligner.sync = a.sync
      /\ SameMarks(a, r.streams[i].aligner)
      /\ \A k \in DOMAIN s.streams : k # i => r.streams[k] = s.streams[k]
  BY <1>1 DEF Unloads, SameMarks
<1>7. CASE held = none /\ t = r
  BY <1>3, <1>4, <1>6, <1>7, SMTT(30) DEF Sifts, CutsBefore, FlushPasses
<1>8. CASE held # none /\ a.started /\ t = Filtered(r, i, held)
  <2> DEFINE sync == r.streams[i].aligner.sync
  <2>1. sync = a.sync
    BY <1>6
  <2> HIDE DEF held, sync
  <2>2. PassesAll(r, t, i, From(Range(held), sync)) /\ Cuts(r, t, sync)
    BY <1>1, <1>2, <1>4, <1>5, <1>6, <1>8, AllSifted DEF sync
  <2>4. CutsBefore(a, s.reported, t.reported)
    BY <1>6, <1>8, <2>1, <2>2, ZenonT(30) DEF CutsBefore, Cuts
  <2> QED
    BY <1>3, <1>4, <1>6, <1>8, <2>1, <2>2, <2>4
       DEF FlushPasses, held, Sifts, PassesAll, From, OnlyCompletes, Kept, Framed
<1>9. CASE held # none /\ ~a.started /\ \E v : Owns(v, held \o rest) /\ SetsOff(r, v, i) /\ t = CompleteAll(v, i, held)
  <2>1. PICK v : Owns(v, held \o rest) /\ SetsOff(r, v, i) /\ t = CompleteAll(v, i, held)
    BY <1>9
  <2>2. InStream(r, v, i) /\ v.streams[i].pending = r.streams[i].pending /\ v.streams[i].kind = r.streams[i].kind
    BY <2>1 DEF SetsOff, Realigned
  <2>3. Shows(r, v) /\ v.err = r.err /\ v.reported = r.reported
    BY <2>2 DEF Shows, InStream
  <2>4. Tiled(v) /\ Fronted(v) /\ \A k : Passed(v, k) = Passed(r, k)
    BY <1>4, <2>3, Shown
  <2>5. AllCome(v, i, held)
    BY <1>4, <2>4, HeldCome
  <2>6. i \in DOMAIN v.streams /\ DOMAIN v.streams = DOMAIN r.streams
    BY <1>6, <2>2 DEF InStream
  <2> HIDE DEF held
  <2>7. PassesAll(v, t, i, Range(held)) /\ t.reported = v.reported
    BY <1>2, <2>1, <2>4, <2>5, <2>6, AllPassed
  <2>9. /\ DOMAIN t.streams = DOMAIN v.streams /\ t.streams[i].kind = v.streams[i].kind
        /\ Tiled(t) /\ Fronted(t) /\ t.accepted = v.accepted
        /\ \A k \in DOMAIN v.streams : k # i => t.streams[k] = v.streams[k] /\ Passed(t, k) = Passed(v, k)
    BY <2>6, <2>7 DEF PassesAll, OnlyCompletes, Kept, Framed
  <2>10. Passed(t, i) \subseteq Beyond(s, i) /\ t.accepted = s.accepted
    BY <1>3, <1>4, <1>6, <2>2, <2>4, <2>7, <2>9 DEF PassesAll, InStream
  <2> QED
    BY <1>4, <1>6, <1>9, <2>2, <2>3, <2>4, <2>6, <2>7, <2>9, <2>10
       DEF FlushPasses, held, Sifts, CutsBefore, InStream
<1> QED
  BY <1>1, <1>7, <1>8, <1>9 DEF FlushCases

\* A stream that has been flushed leaves the others as they were.
Stays(s, t, i) ==
    /\ DOMAIN t.streams = DOMAIN s.streams /\ t.accepted = s.accepted
    /\ SyncVideo(t) = SyncVideo(s)
    /\ SyncVideo(s) # 0 => SameMarks(Marker(s), Marker(t))
    /\ \A k \in DOMAIN s.streams : k # i => t.streams[k] = s.streams[k] /\ Passed(t, k) = Passed(s, k)

LEMMA StaysFlushable ==
    ASSUME NEW s, NEW t, NEW i, Stays(s, t, i), Fronted(t), NEW k \in DOMAIN s.streams, k # i, Flushable(s, k)
    PROVE  Flushable(t, k)
BY DEF Stays, Flushable, Waits, Waiting, Beyond, SameMarks, SameStart

LEMMA FlushPassesSorted ==
    ASSUME NEW s, DOMAIN s.streams \subseteq Nat, NEW i \in DOMAIN s.streams, NEW t, FlushPasses(s, t, i),
           Sorted(s), Flushable(s, i)
    PROVE  Sorted(t) /\ Fronted(t) /\ Stays(s, t, i)
<1> DEFINE a == s.streams[i].aligner  m == SyncVideo(s)
<1>1. /\ Tiled(t) /\ Fronted(t) /\ DOMAIN t.streams = DOMAIN s.streams
      /\ t.accepted = s.accepted /\ Passed(t, i) \subseteq Beyond(s, i)
      /\ t.streams[i].kind = s.streams[i].kind
      /\ \A k \in DOMAIN s.streams : k # i => t.streams[k] = s.streams[k] /\ Passed(t, k) = Passed(s, k)
      /\ a.pending = <<>> =>
            Passed(t, i) = Passed(s, i) /\ SameMarks(a, t.streams[i].aligner) /\ t.reported = s.reported
      /\ Sifts(a, Passed(s, i), Passed(t, i)) /\ CutsBefore(a, s.reported, t.reported)
  BY DEF FlushPasses
<1>2. s.streams[i].kind # "audio" => a.pending = <<>>
  BY DEF Flushable, Waits
<1>3. \A k \in DOMAIN s.streams : t.streams[k].kind = s.streams[k].kind
  BY <1>1
<1>4. SyncVideo(t) = m
  BY <1>1, <1>3, SyncVideoSame
<1>6. m # 0 => SameMarks(Marker(s), Marker(t))
  BY <1>1, <1>2, <1>4, SyncVideoIs DEF Marker, SameMarks
<1>8. ASSUME NEW k \in DOMAIN t.streams
      PROVE  KeyFirst(t, k) /\ Apart(t.accepted, Passed(t, k))
  <2>1. KeyFirst(t, k)
    BY <1>1, <1>2, <1>3, <1>8 DEF Sorted, KeyFirst
  <2>2. Apart(t.accepted, Passed(t, k))
    BY <1>1, <1>8 DEF Sorted, Flushable, Apart
  <2> QED
    BY <2>1, <2>2
<1>9. ASSUME m # 0
      PROVE  /\ \A k \in DOMAIN t.streams : t.streams[k].kind = "audio" => FromMark(Marker(t), Passed(t, k))
             /\ CutBefore(Marker(t), t.reported)
  BY <1>1, <1>2, <1>3, <1>6, <1>9
     DEF Sorted, Cut, Flushable, SameMarks, SameStart, FromMark, Sifts, CutBefore, CutsBefore
<1> QED
  BY <1>1, <1>4, <1>6, <1>8, <1>9 DEF Sorted, Stays, Cut

SortedNext(c, t, i) == FlushAligner(t, i)

\* The Aligners of the first n streams are flushed.
AlignersSorted(c, s, numbers, n, t) ==
    /\ Owns(t, c) /\ Sorted(t) /\ Fronted(t) /\ DOMAIN t.streams = DOMAIN s.streams
    /\ \A k \in DOMAIN s.streams : k > n => Flushable(t, k)

AligningSorted == INSTANCE FoldLemmas WITH Op <- SortedNext, Inv <- AlignersSorted

LEMMA OrderedSorted ==
    ASSUME NEW s, NEW hand, Owns(s, hand), Ordered(s), Stepped(s)
    PROVE  Sorted(s) /\ Fronted(s) /\ \A k \in DOMAIN s.streams : Flushable(s, k)
<1>1. \A k \in DOMAIN s.streams : Apart(s.accepted, Passed(s, k)) /\ Apart(s.accepted, Beyond(s, k))
  BY DEF Stepped, Apart, Beyond
<1> QED
  BY <1>1 DEF Ordered, Staged, Keyed, KeyFirst, Synced, Marker, FromMark, SameStart, CutBefore, Cut, Sorted,
              Flushable

LEMMA AlignersFlushedSorted ==
    ASSUME NEW s, NEW hand \in Seq(Packet), Owns(s, hand), Ordered(s), Stepped(s),
           NEW t, t = FlushAligners(s)
    PROVE  Owns(t, hand) /\ Sorted(t)
<1> DEFINE numbers == Numbers(s)
<1>1. s \in LiveState /\ DOMAIN s.streams = 1 .. Len(s.streams) /\ Len(s.streams) \in Nat
  BY StateFields DEF Owns
<1>2. /\ numbers \in Seq(Nat) /\ Len(numbers) = Len(s.streams)
      /\ \A k \in 1 .. Len(s.streams) : numbers[k] = k
  BY <1>1, NumbersAre
<1>3. t = AligningSorted!Fold(hand, s, numbers)
  BY DEF FlushAligners, ForEachStream, Numbers, AligningSorted!Fold, SortedNext, FoldLeft, MapThenFoldSet, Max,
         AligningSorted!Latest
<1> HIDE DEF numbers
<1>5. ASSUME NEW n \in 1 .. Len(numbers), NEW u, AlignersSorted(hand, s, numbers, n - 1, u)
      PROVE  AlignersSorted(hand, s, numbers, n, SortedNext(hand, u, numbers[n]))
  <2> DEFINE v == SortedNext(hand, u, numbers[n])
  <2>1. numbers[n] = n /\ n \in DOMAIN s.streams /\ n > n - 1
    BY <1>1, <1>2
  <2>2. v = FlushAligner(u, n)
    BY <2>1 DEF SortedNext
  <2>3. /\ Owns(u, hand) /\ Sorted(u) /\ Fronted(u) /\ n \in DOMAIN u.streams /\ DOMAIN u.streams = DOMAIN s.streams
        /\ \A k \in DOMAIN s.streams : k > n - 1 => Flushable(u, k)
    BY <1>5, <2>1 DEF AlignersSorted
  <2> HIDE DEF v
  <2>8. Sorted(v) /\ Fronted(v) /\ Stays(u, v, n)
    BY <2>1, <2>2, <2>3, FlushPassesSorted, FlushingPasses, NumbersOfStreams DEF Sorted, Flushable, Owns
  <2>9. ASSUME NEW k \in DOMAIN s.streams, k > n
        PROVE  Flushable(v, k)
    BY <1>1, <2>1, <2>3, <2>8, <2>9, StaysFlushable
  <2> QED
    BY <2>2, <2>3, <2>8, <2>9, AlignerFlushed DEF AlignersSorted, v, Stays
<1>6. AlignersSorted(hand, s, numbers, Len(numbers), AligningSorted!Fold(hand, s, numbers))
  BY <1>2, <1>5, AligningSorted!FoldInvariant, NaturalsOrdered, OrderedSorted DEF AlignersSorted
<1> QED
  BY <1>3, <1>6 DEF AlignersSorted

-----------------------------------------------------------------------------
(* Then the packets held back are queued, and the queue is written.        *)

\* What passed the Aligners is moved on, and nothing is dropped.
Lasts(s, t) ==
    /\ Tiled(t) /\ t.reported = s.reported /\ t.accepted = s.accepted /\ DOMAIN t.streams = DOMAIN s.streams
    /\ \A k \in DOMAIN s.streams :
          /\ t.streams[k].kind = s.streams[k].kind /\ t.streams[k].aligner = s.streams[k].aligner
          /\ Passed(t, k) = Passed(s, k)

LEMMA LastsSorted ==
    ASSUME NEW s, DOMAIN s.streams \subseteq Nat, NEW t, Lasts(s, t), Sorted(s)
    PROVE  Sorted(t)
BY SyncVideoSame, SyncVideoIs DEF Lasts, Marker, Sorted, KeyFirst, Cut

LEMMA OneLasts ==
    ASSUME NEW s, NEW hand \in Seq(Packet), Owns(s, hand), s.closed, NEW i \in DOMAIN s.streams, Tiled(s),
           NEW t, t = QueuePending(s, i)
    PROVE  Lasts(s, t)
<1> DEFINE held == Lookahead(s)
           after == Lookahead(t)
           line == LineOf(s)
           sent == Sent(s.out)
<1>1. s \in LiveState
  BY DEF Owns
<1>2. CASE s.streams[i].pending = <<>>
  BY <1>2 DEF QueuePending, Lasts
<1>3. CASE s.streams[i].pending # <<>>
  <2>1. PICK u, p, duration : TakesLast(s, t, i, hand, u, p, duration)
    BY <1>3, LastQueued
  <2>2. /\ p \in Packet /\ duration \in Int /\ u \in LiveState /\ InStream(s, u, i)
        /\ s.streams[i].pending = <<p>> /\ t = Enqueue(u, p, duration)
    BY <2>1 DEF TakesLast, LastTaken, Owns
  <2> DEFINE e == EntryOf(p, duration)
  <2>3. e \in Entry /\ e.packet = p
    BY <2>2 DEF Entry, EntryOf
  <2>4. Places(u, e, t)
    BY <2>2, EnqueuePlaces
  <2> HIDE DEF e
  <2>6. Requeues(s, t, i, e)
    BY <2>2, <2>3, <2>4 DEF Requeues, InStream
  <2>7. t.out = s.out /\ InOrder(t.out, t.queue) /\ LineOf(t) = line \cup {e} /\ held[i] = {e.packet} /\ e \in Entry
    BY <1>1, <2>6, RequeuedInOrder
  <2>8. QueuesPending(s, t, i)
    BY OneQueued
  <2>9. /\ DOMAIN held = DOMAIN s.streams /\ Backs(held) /\ line \in SUBSET Entry /\ sent \in SUBSET line
        /\ \A k \in DOMAIN s.streams : held[k] = Range(s.streams[k].pending)
    BY <1>1, Views
  <2>10. after = [held EXCEPT ![i] = {}]
    BY <2>8, RangeEmpty DEF QueuesPending, Lookahead
  <2>11. HeldLast(sent, line, held) /\ AllSpan(line, held) /\ AllWritten(t.out, t.err)
    BY <2>7, <2>8 DEF Tiled, LineOf, QueuesPending
  <2> HIDE DEF held, after, line, sent
  <2>12. /\ HeldLast(sent, line \cup {e}, after) /\ AllSpan(line \cup {e}, after)
         /\ SameBehind(line, held, line \cup {e}, after)
    BY <2>7, <2>9, <2>10, <2>11, LastHeld
  <2>15. /\ t.reported = s.reported /\ t.accepted = s.accepted /\ DOMAIN t.streams = DOMAIN s.streams
         /\ \A k \in DOMAIN s.streams : t.streams[k].kind = s.streams[k].kind /\ t.streams[k].aligner = s.streams[k].aligner
    BY <2>8 DEF QueuesPending
  <2> QED
    BY <2>7, <2>9, <2>11, <2>12, <2>15 DEF Lasts, Tiled, LineOf, after, sent, SameBehind, Passed, line, held
<1> QED
  BY <1>2, <1>3

LastNext(c, t, i) == QueuePending(t, i)

LastsSoFar(c, s, numbers, n, t) == Owns(t, c) /\ t.closed /\ Lasts(s, t)

Lasting == INSTANCE FoldLemmas WITH Op <- LastNext, Inv <- LastsSoFar

LEMMA AllLast ==
    ASSUME NEW s, NEW hand \in Seq(Packet), Owns(s, hand), s.closed, Tiled(s), NEW t, t = QueueAllPending(s)
    PROVE  Lasts(s, t)
<1> DEFINE numbers == Numbers(s)
<1>1. s \in LiveState /\ DOMAIN s.streams = 1 .. Len(s.streams) /\ Len(s.streams) \in Nat
  BY StateFields DEF Owns
<1>2. /\ numbers \in Seq(Nat) /\ Len(numbers) = Len(s.streams)
      /\ \A k \in 1 .. Len(s.streams) : numbers[k] = k
  BY <1>1, NumbersAre
<1>3. t = Lasting!Fold(hand, s, numbers)
  BY DEF QueueAllPending, ForEachStream, Numbers, Lasting!Fold, LastNext, FoldLeft, MapThenFoldSet, Max, Lasting!Latest
<1> HIDE DEF numbers
<1>4. LastsSoFar(hand, s, numbers, 0, s)
  BY DEF LastsSoFar, Lasts
<1>5. ASSUME NEW n \in 1 .. Len(numbers), NEW u, LastsSoFar(hand, s, numbers, n - 1, u)
      PROVE  LastsSoFar(hand, s, numbers, n, LastNext(hand, u, numbers[n]))
  <2> DEFINE v == LastNext(hand, u, numbers[n])
  <2>1. numbers[n] = n /\ n \in DOMAIN s.streams
    BY <1>1, <1>2
  <2>2. v = QueuePending(u, n)
    BY <2>1 DEF LastNext
  <2>3. Owns(u, hand) /\ u.closed /\ Lasts(s, u) /\ Tiled(u) /\ n \in DOMAIN u.streams
    BY <1>5, <2>1 DEF LastsSoFar, Lasts
  <2> HIDE DEF v
  <2> QED
    BY <2>2, <2>3, OneQueued, OneLasts DEF LastsSoFar, v, QueuesPending, Lasts
<1>6. LastsSoFar(hand, s, numbers, Len(numbers), Lasting!Fold(hand, s, numbers))
  BY <1>2, <1>4, <1>5, Lasting!FoldInvariant, NaturalsOrdered
<1> QED
  BY <1>3, <1>6 DEF LastsSoFar

LEMMA DrainedSorted ==
    ASSUME NEW s, NEW hand \in Seq(Packet), Owns(s, hand), s.closed, s.err = "none", Sorted(s),
           NEW t, t = DrainQueue(s)
    PROVE  Sorted(t)
<1> DEFINE r == QueueAllPending(s)
<1>1. r = QueueAllPending(s) /\ t = WriteFirst(r, Len(r.queue))
  BY DEF DrainQueue
<1> HIDE DEF r
<1>2. Owns(r, hand) /\ QueuesAll(s, r) /\ \A k \in DOMAIN r.streams : r.streams[k].pending = <<>>
  BY <1>1, AllQueued
<1>3. Lasts(s, r)
  BY <1>1, AllLast DEF Sorted
<1>4. r.err = "none" /\ r.queue \in Seq(Entry) /\ Len(r.queue) \in Nat
  BY <1>2, StateFields DEF Owns, QueuesAll
<1> DEFINE n == Len(r.queue)
<1>5. n \in 0 .. Len(r.queue) /\ t = WriteFirst(r, n)
  BY <1>1, <1>4
<1> HIDE DEF n
<1>7. Tiled(t) /\ t.streams = r.streams /\ LineOf(t) = LineOf(r)
  BY <1>2, <1>3, <1>4, <1>5, QueueTiled, RangeEmpty DEF Lasts, Lookahead
<1>8. t.reported = r.reported /\ t.accepted = r.accepted
  BY <1>2, <1>5, QueueWritten DEF OnlyWrites, Kept, Framed
<1>10. Lasts(s, t)
  BY <1>3, <1>7, <1>8 DEF Lasts, Passed, LineOf, Lookahead
<1> QED
  BY <1>10, LastsSorted, NumbersOfStreams DEF Owns

-----------------------------------------------------------------------------
(* What was offered to the muxer is as promised.                           *)
OutInOrder(s) ==
    \A i, j \in DOMAIN s.out : i < j => Before(s.out[i].packet, s.out[j].packet) /\ s.out[i].ok

OutKnown(s) == \A j \in DOMAIN s.out : s.out[j].packet.stream \in DOMAIN s.streams

OutKeyed(s) ==
    \A j \in DOMAIN s.out :
        LET p == s.out[j].packet IN
        s.streams[p.stream].kind = "video" /\ p.kind = "delta" =>
            \E i \in 1 .. j - 1 : s.out[i].packet.stream = p.stream /\ s.out[i].packet.kind = "key"

OutCut(s) ==
    SyncVideo(s) # 0 =>
        /\ \A j \in DOMAIN s.out :
              Marker(s).started /\ s.streams[s.out[j].packet.stream].kind = "audio" =>
                  s.out[j].packet.dts >= Marker(s).sync
        /\ CutBefore(Marker(s), s.reported)

\* The write j is the next of its stream after i, and not far from it.
Adjoins(writes, i, j) ==
    LET p == writes[i].packet  q == writes[j].packet IN
    /\ i < j /\ p.stream = q.stream /\ p.dur = 0 /\ ~q.disc
    /\ \A n \in i + 1 .. j - 1 : writes[n].packet.stream # p.stream
    /\ q.dts - p.dts <= GapThreshold

OutTiles(s) ==
    \A i, j \in DOMAIN s.out :
        Adjoins(s.out, i, j) => s.out[i].packet.dts + s.out[i].duration = s.out[j].packet.dts

OutStepped(s) ==
    \A i, j \in DOMAIN s.out :
        LET p == s.out[i].packet  q == s.out[j].packet IN
        p.stream = q.stream /\ p.dts < q.dts /\ q.dts # s.accepted[q.id].dts => p.dts + StepSize <= q.dts

Delivers(s) == OutInOrder(s) /\ OutKnown(s) /\ OutKeyed(s) /\ OutCut(s) /\ OutTiles(s) /\ OutStepped(s)

\* A write, among the packets that have passed the Aligner of its stream.
LEMMA WriteIs ==
    ASSUME NEW s \in LiveState, Tiled(s), NEW j \in DOMAIN s.out, NEW p, p = s.out[j].packet,
           NEW x, x = EntryOf(p, s.out[j].duration)
    PROVE  /\ p \in Packet /\ p.stream \in DOMAIN s.streams /\ p \in Passed(s, p.stream)
           /\ x \in LineOf(s) /\ x \in Sent(s.out) /\ x.packet = p /\ x.duration = s.out[j].duration
<1>1. /\ s.out \in Seq(Offer) /\ DOMAIN Lookahead(s) = DOMAIN s.streams
      /\ LineOf(s) \in SUBSET Entry /\ Sent(s.out) \in SUBSET LineOf(s)
  BY Views
<1>2. s.out[j] \in Offer
  BY <1>1
<1>4. x \in Sent(s.out) /\ x.packet = p /\ x.duration = s.out[j].duration
  BY <1>1, SentAre DEF EntryOf
<1> QED
  BY <1>1, <1>2, <1>4 DEF Tiled, AllSpan, LineOf, Offer, Passed, Behind, Lined

\* What passed an Aligner and comes before a write was written before it.
LEMMA WrittenEarlier ==
    ASSUME NEW s \in LiveState, Tiled(s), NEW j \in DOMAIN s.out, NEW k \in DOMAIN s.streams,
           NEW y \in Passed(s, k), y.dts < s.out[j].packet.dts
    PROVE  \E n \in 1 .. j - 1 : s.out[n].packet = y /\ y.stream = k
<1> DEFINE p == s.out[j].packet  x == EntryOf(p, s.out[j].duration)
<1>1. p \in Packet /\ x \in Sent(s.out) /\ x.packet = p
  BY WriteIs
<1> HIDE DEF x
<1>2. /\ s.out \in Seq(Offer) /\ DOMAIN Lookahead(s) = DOMAIN s.streams /\ s.queue \in Seq(Entry)
      /\ Backs(Lookahead(s)) /\ LineOf(s) \in SUBSET Entry /\ Passed(s, k) \subseteq Packet
  BY Views
<1>3. y \in Packet /\ ~(p.dts <= y.dts) /\ ~(p.dts < y.dts)
  BY <1>1, <1>2 DEF Packet
<1>6. PICK z \in LineOf(s) : z.packet = y /\ z.packet.stream = k
  BY <1>1, <1>2, <1>3 DEF Passed, Behind, Lined, LineOf, Tiled, HeldLast
<1>8. PICK n \in DOMAIN s.out : s.out[n].packet = y
  BY <1>1, <1>2, <1>3, <1>6, SentAre DEF Tiled, InOrder, LineOf, Line, Before
<1> QED
  BY <1>2, <1>3, <1>6, <1>8 DEF Tiled, InOrder, Before

LEMMA TiledOutTiles ==
    ASSUME NEW s \in LiveState, Tiled(s), OutInOrder(s)
    PROVE  OutTiles(s)
<1> SUFFICES ASSUME NEW i \in DOMAIN s.out, NEW j \in DOMAIN s.out, Adjoins(s.out, i, j)
             PROVE  s.out[i].packet.dts + s.out[i].duration = s.out[j].packet.dts
  BY DEF OutTiles
<1> DEFINE p == s.out[i].packet  q == s.out[j].packet  x == EntryOf(p, s.out[i].duration)
           k == p.stream
<1>1. /\ p \in Packet /\ k \in DOMAIN s.streams /\ x \in LineOf(s) /\ x.packet = p /\ x.duration = s.out[i].duration
  BY WriteIs
<1>2. q \in Packet /\ q \in Passed(s, q.stream)
  BY WriteIs
<1>3. /\ i < j /\ k = q.stream /\ p.dur = 0 /\ ~q.disc
      /\ \A n \in i + 1 .. j - 1 : s.out[n].packet.stream # k
      /\ q.dts - p.dts <= GapThreshold
  BY DEF Adjoins
<1>4. p.dts < q.dts
  BY <1>3 DEF OutInOrder, Before
<1> HIDE DEF x
<1>6. ~Between(x, q, Passed(s, k))
  <2> SUFFICES ASSUME NEW z \in Passed(s, k), p.dts < z.dts, z.dts < q.dts
               PROVE  FALSE
    BY <1>1 DEF Between
  <2>1. PICK n \in 1 .. j - 1 : s.out[n].packet = z /\ z.stream = k
    BY <1>1, WrittenEarlier
  <2>2. s.out \in Seq(Offer) /\ Passed(s, k) \subseteq Packet
    BY <1>1, Views
  <2>4. z \in Packet /\ ~(z.dts <= p.dts)
    BY <1>1, <2>2 DEF Packet
  <2>6. n # i
    BY <1>1, <2>1, <2>4 DEF Packet
  <2> QED
    BY <1>3, <2>1, <2>2, <2>4, <2>6 DEF OutInOrder, Before
<1> QED
  BY <1>1, <1>2, <1>3, <1>4, <1>6 DEF Spans, Tiled, AllSpan, LineOf, Passed

LEMMA SortedDelivers ==
    ASSUME NEW s \in LiveState, Sorted(s)
    PROVE  Delivers(s)
<1>1. Tiled(s) /\ Cut(s) /\ s.out \in Seq(Offer) /\ \A k \in DOMAIN s.streams : Passed(s, k) \subseteq Packet
  BY Views DEF Sorted
<1>2. ASSUME NEW j \in DOMAIN s.out
      PROVE  LET p == s.out[j].packet IN p \in Packet /\ p.stream \in DOMAIN s.streams /\ p \in Passed(s, p.stream)
  BY <1>1, WriteIs
<1>3. OutInOrder(s)
  BY <1>1 DEF OutInOrder, Tiled, InOrder, AllWritten
<1>6. OutCut(s)
  <2> SUFFICES ASSUME SyncVideo(s) # 0
               PROVE  /\ \A j \in DOMAIN s.out :
                            Marker(s).started /\ s.streams[s.out[j].packet.stream].kind = "audio" =>
                                s.out[j].packet.dts >= Marker(s).sync
                      /\ CutBefore(Marker(s), s.reported)
    BY DEF OutCut
  <2> DEFINE m == SyncVideo(s)
  <2>1. Marker(s).sync \in Int
    BY NumbersOfStreams, SyncVideoIs, StateFields, StreamFields DEF Marker
  <2>2. /\ \A k \in DOMAIN s.streams : s.streams[k].kind = "audio" => FromMark(Marker(s), Passed(s, k))
        /\ CutBefore(Marker(s), s.reported)
    BY <1>1 DEF Cut
  <2>3. ASSUME NEW j \in DOMAIN s.out, Marker(s).started, s.streams[s.out[j].packet.stream].kind = "audio"
        PROVE  s.out[j].packet.dts >= Marker(s).sync
    BY <1>2, <2>1, <2>2, <2>3 DEF FromMark, Packet
  <2> QED
    BY <2>2, <2>3
<1>7. OutTiles(s)
  BY <1>1, <1>3, TiledOutTiles
<1>8. OutStepped(s)
  BY <1>2 DEF Sorted, Apart, OutStepped
<1> QED
  BY <1>1, <1>2, <1>3, <1>6, <1>7, <1>8, WrittenEarlier, SMTT(90) DEF Delivers, OutKnown, OutKeyed, Sorted, KeyFirst

LEMMA OrderedDelivers ==
    ASSUME NEW s, NEW hand, Owns(s, hand), Ordered(s), Stepped(s)
    PROVE  Delivers(s)
BY OrderedSorted, SortedDelivers DEF Owns

-----------------------------------------------------------------------------
(* discardBuffered after an error: the stages release what they are handed *)
(* and nothing is written, so what was delivered stays as it was.          *)
Rests(s, t) ==
    IsLive(t) /\ t.streams = s.streams /\ t.out = s.out /\ t.err = s.err /\ t.accepted = s.accepted

Still(s, t) == Rests(s, t) /\ t.reported = s.reported

LEMMA ReleasedStill ==
    ASSUME NEW s, IsLive(s), NEW p, NEW t, t = ReleasePacket(s, p)
    PROVE  Still(s, t)
BY ShapeKept DEF ReleasePacket, IsLive, Still, Rests

Note(p, where) == [packet |-> p, where |-> where]

LEMMA DroppedRests ==
    ASSUME NEW s, IsLive(s), NEW p, NEW where, NEW t, t = Drop(s, p, where)
    PROVE  Rests(s, t) /\ t.reported = s.reported \cup {Note(p, where)}
<1> DEFINE u == ReleasePacket(s, p)
<1>1. Still(s, u)
  BY ReleasedStill
<1>2. t = [u EXCEPT !.reported = @ \cup {Note(p, where)}]
  BY DEF Drop, Note
<1> HIDE DEF u
<1> QED
  BY <1>1, <1>2, ShapeKept DEF Still, Rests, IsLive

LEMMA OneRests ==
    ASSUME NEW s, IsLive(s), s.err # "none", NEW i, NEW p
    PROVE  /\ Still(s, CompleteNext(i, s, p)) /\ Still(s, AlignNext(i, s, p))
           /\ Rests(s, FilterNext(i, s, p)) /\ Cuts(s, FilterNext(i, s, p), s.streams[i].aligner.sync)
<1>1. Still(s, ReleasePacket(s, p))
  BY ReleasedStill
<1>2. CompletePacket(s, i, p) = ReleasePacket(s, p) /\ ProcessAligner(s, i, p) = ReleasePacket(s, p)
  BY DEF CompletePacket, ProcessAligner
<1> DEFINE t == FilterNext(i, s, p)
<1>3. Rests(s, t) /\ Cuts(s, t, s.streams[i].aligner.sync)
  <2>1. CASE p.dts < s.streams[i].aligner.sync
    <3> DEFINE where == "before sync"
    <3>1. t = Drop(s, p, where)
      BY <2>1 DEF FilterNext
    <3> HIDE DEF t, where
    <3>2. Rests(s, t) /\ t.reported = s.reported \cup {Note(p, where)}
      BY <3>1, DroppedRests
    <3>3. Note(p, where).where = "before sync" /\ Note(p, where).packet = p
      BY DEF Note, where
    <3> QED
      BY <2>1, <3>2, <3>3 DEF Cuts
  <2>2. CASE ~(p.dts < s.streams[i].aligner.sync)
    BY <1>1, <1>2, <2>2 DEF FilterNext, Still, Cuts
  <2> QED
    BY <2>1, <2>2
<1> QED
  BY <1>1, <1>2, <1>3 DEF CompleteNext, AlignNext

StillSoFar(i, s, packets, n, t) == Still(s, t)

RestsSoFar(i, s, packets, n, t) == Rests(s, t) /\ Cuts(s, t, s.streams[i].aligner.sync)

CompletingStill == INSTANCE FoldLemmas WITH Op <- CompleteNext, Inv <- StillSoFar
AligningStill == INSTANCE FoldLemmas WITH Op <- AlignNext, Inv <- StillSoFar
FilteringStill == INSTANCE FoldLemmas WITH Op <- FilterNext, Inv <- RestsSoFar

LEMMA AllRest ==
    ASSUME NEW s, IsLive(s), s.err # "none", NEW i, NEW packets \in Seq(Packet)
    PROVE  /\ Still(s, CompleteAll(s, i, packets)) /\ Still(s, AlignAll(s, i, packets))
           /\ Rests(s, Filtered(s, i, packets))
           /\ Cuts(s, Filtered(s, i, packets), s.streams[i].aligner.sync)
<1>2. AlignAll(s, i, packets) = AligningStill!Fold(i, s, packets)
  BY DEF AlignAll, AligningStill!Fold, AlignNext, FoldLeft, MapThenFoldSet, Max, AligningStill!Latest
<1>3. Filtered(s, i, packets) = FilteringStill!Fold(i, s, packets)
  BY DEF Filtered, FilteringStill!Fold, FilterNext, FoldLeft, MapThenFoldSet, Max, FilteringStill!Latest
<1>4. Still(s, s) /\ Rests(s, s) /\ Cuts(s, s, s.streams[i].aligner.sync)
  BY DEF Still, Rests, Cuts
<1>5. ASSUME NEW u, Still(s, u), NEW p
      PROVE  Still(s, CompleteNext(i, u, p)) /\ Still(s, AlignNext(i, u, p))
  BY <1>5, OneRests DEF Still, Rests
<1>6. ASSUME NEW u, Rests(s, u), Cuts(s, u, s.streams[i].aligner.sync), NEW p
      PROVE  Rests(s, FilterNext(i, u, p)) /\ Cuts(s, FilterNext(i, u, p), s.streams[i].aligner.sync)
  <2> DEFINE v == FilterNext(i, u, p)
  <2>2. Rests(u, v) /\ Cuts(u, v, s.streams[i].aligner.sync)
    BY <1>6, OneRests DEF Rests
  <2> HIDE DEF v
  <2> QED
    BY <1>6, <2>2 DEF v, Rests, Cuts
<1>7. StillSoFar(i, s, packets, Len(packets), CompletingStill!Fold(i, s, packets))
  BY <1>4, <1>5, CompletingStill!FoldInvariant, NaturalsOrdered DEF StillSoFar
<1>8. StillSoFar(i, s, packets, Len(packets), AligningStill!Fold(i, s, packets))
  BY <1>4, <1>5, AligningStill!FoldInvariant, NaturalsOrdered DEF StillSoFar
<1>9. RestsSoFar(i, s, packets, Len(packets), FilteringStill!Fold(i, s, packets))
  BY <1>4, <1>6, FilteringStill!FoldInvariant, NaturalsOrdered DEF RestsSoFar
<1> QED
  BY <1>2, <1>3, <1>7, <1>8, <1>9
     DEF StillSoFar, RestsSoFar, CompleteAll, CompletingStill!Fold, CompleteNext, FoldLeft, MapThenFoldSet,
         Max, CompletingStill!Latest

\* An Enforcer that is flushed then.
Clears(s, t, i) ==
    /\ t.out = s.out /\ t.err = s.err /\ t.reported = s.reported /\ DOMAIN t.streams = DOMAIN s.streams
    /\ t.accepted = s.accepted
    /\ \A k \in DOMAIN s.streams : k # i => t.streams[k] = s.streams[k]
    /\ t.streams[i].kind = s.streams[i].kind /\ t.streams[i].aligner = s.streams[i].aligner

LEMMA EnforcerClears ==
    ASSUME NEW s, NEW rest \in Seq(Packet), Owns(s, rest), NEW i \in DOMAIN s.streams, s.err # "none",
           NEW t, t = FlushEnforcer(s, i)
    PROVE  Clears(s, t, i)
<1> DEFINE b == s.streams[i].enforcer.buf  n == Len(b)
           r == Emits(s.streams[i].enforcer, SubSeq(b, 1, n))
           e == EnforcerAfter(b, n, r)
           u == WithStream(s, i, WithEnforcer(s.streams[i], e))
<1>1. s \in LiveState /\ s.streams[i] \in StreamState
  BY StateFields DEF Owns
<1>2. b \in Seq(Packet) /\ n \in 0 .. Len(b)
  <2>1. b \in Seq(Packet) /\ Len(b) \in Nat
    BY <1>1, StreamFields
  <2> QED
    BY <2>1
<1>3. t = AlignAll(u, i, r.emits)
  BY DEF FlushEnforcer, Emit, WithStream, WithEnforcer, EnforcerAfter
<1>4. /\ r = Emits(s.streams[i].enforcer, SubSeq(b, 1, n)) /\ e = EnforcerAfter(b, n, r)
      /\ u = WithStream(s, i, WithEnforcer(s.streams[i], e))
      /\ Ids(b) \cup Ids(rest) = Ids(s.streams[i].enforcer.buf) \cup Ids(rest)
      /\ Len(b) + Len(rest) = Len(s.streams[i].enforcer.buf) + Len(rest)
  OBVIOUS
<1> HIDE DEF b, n, r, e, u
<1>5. Owns(u, r.emits \o rest) /\ Refed(s, u, i, e) /\ r.emits \in Seq(Packet)
  BY <1>2, <1>4, EmitTaken
<1> QED
  BY <1>3, <1>5, AllRest, StateShape DEF Still, Rests, Refed, InStream, Clears, Owns

\* What flushing the Aligner of stream i then leaves, and what it counts as dropped.
Spares(s, t, i) ==
    LET a == s.streams[i].aligner IN
    /\ t.out = s.out /\ t.err = s.err /\ t.accepted = s.accepted /\ DOMAIN t.streams = DOMAIN s.streams
    /\ \A k \in DOMAIN s.streams : k # i => t.streams[k] = s.streams[k]
    /\ t.streams[i].kind = s.streams[i].kind /\ t.streams[i].aligner.pending = <<>>
    /\ a.pending = <<>> => SameMarks(a, t.streams[i].aligner) /\ t.reported = s.reported
    /\ CutsBefore(a, s.reported, t.reported)

LEMMA AlignerSpares ==
    ASSUME NEW s, NEW rest \in Seq(Packet), Owns(s, rest), NEW i \in DOMAIN s.streams, s.err # "none",
           NEW t, t = FlushAligner(s, i)
    PROVE  Spares(s, t, i)
<1> DEFINE a == s.streams[i].aligner  held == a.pending  none == <<>>
<1>1. PICK r : Owns(r, held \o rest) /\ Unloads(s, r, i) /\ FlushCases(s, t, i, r, rest)
  BY AlignerUnloaded
<1>2. held \in Seq(Packet)
  BY StateFields, StreamFields DEF Owns
<1>3. /\ r.out = s.out /\ r.err = s.err /\ r.reported = s.reported /\ r.accepted = s.accepted /\ DOMAIN r.streams = DOMAIN s.streams
      /\ \A k \in DOMAIN s.streams : k # i => r.streams[k] = s.streams[k]
      /\ r.streams[i].kind = s.streams[i].kind /\ r.streams[i].aligner.pending = none
      /\ SameMarks(a, r.streams[i].aligner) /\ r.streams[i].aligner.sync = a.sync
  BY <1>1 DEF Unloads, SameMarks
<1>4. IsLive(r) /\ r.err # "none"
  BY <1>1, <1>3, StateShape DEF Owns
<1>5. CASE held = none /\ t = r
  BY <1>3, <1>5 DEF Spares, CutsBefore
<1>6. CASE held # none /\ a.started /\ t = Filtered(r, i, held)
  <2>1. Rests(r, t) /\ Cuts(r, t, a.sync)
    BY <1>2, <1>3, <1>4, <1>6, AllRest
  <2> QED
    BY <1>3, <1>6, <2>1 DEF Spares, Rests, CutsBefore, Cuts
<1>7. CASE held # none /\ ~a.started /\ \E v : Owns(v, held \o rest) /\ SetsOff(r, v, i) /\ t = CompleteAll(v, i, held)
  <2>1. PICK v : Owns(v, held \o rest) /\ SetsOff(r, v, i) /\ t = CompleteAll(v, i, held)
    BY <1>7
  <2>2. InStream(r, v, i) /\ v.streams[i].kind = r.streams[i].kind /\ v.streams[i].aligner.pending = none
    BY <2>1 DEF SetsOff, Realigned
  <2>4. Still(v, t)
    BY <1>2, <1>4, <2>1, <2>2, AllRest, StateShape DEF Owns, InStream
  <2> QED
    BY <1>3, <1>7, <2>2, <2>4 DEF Spares, Still, Rests, InStream, CutsBefore
<1> QED
  BY <1>1, <1>5, <1>6, <1>7 DEF FlushCases

LEMMA StreamSpares ==
    ASSUME NEW s, NEW hand \in Seq(Packet), Owns(s, hand), NEW i \in DOMAIN s.streams, s.err # "none",
           NEW t, t = DiscardStream(s, i)
    PROVE  Spares(s, t, i)
<1> DEFINE u == FlushEnforcer(s, i)
           r == FlushAligner(u, i)
           v == WithStream(r, i, PendingEmptied(r.streams[i]))
           held == r.streams[i].pending
<1>1. t = ReleaseAll(v, held)
  BY DEF WithStream, PendingEmptied, DiscardStream
<1>2. u = FlushEnforcer(s, i) /\ r = FlushAligner(u, i) /\ v = WithStream(r, i, PendingEmptied(r.streams[i]))
  OBVIOUS
<1> HIDE DEF u, r, v
<1>3. Owns(u, hand) /\ Clears(s, u, i)
  BY <1>2, EnforcerFlushed, EnforcerClears
<1>4. i \in DOMAIN u.streams /\ u.err # "none"
  BY <1>3 DEF Clears
<1>5. Owns(r, hand) /\ Spares(u, r, i)
  BY <1>2, <1>3, <1>4, AlignerFlushed, AlignerSpares
<1>6. i \in DOMAIN r.streams
  BY <1>4, <1>5 DEF Spares
<1>7. /\ held \in Seq(Packet) /\ Owns(v, held \o hand) /\ InStream(r, v, i)
      /\ v.streams[i].kind = r.streams[i].kind /\ v.streams[i].aligner = r.streams[i].aligner
  BY <1>2, <1>5, <1>6, PendingGivenUp
<1> HIDE DEF held
<1> QED
  BY <1>1, <1>3, <1>5, <1>6, <1>7, AllReleased DEF Spares, Clears, InStream, Releases

\* The Aligner a waits for the sync point that m knows.
BoundBy(m, a) == a.started => m.started /\ a.sync = m.sync

\* Only audio waits for the sync point.
Marked(s) ==
    SyncVideo(s) # 0 =>
        \A k \in DOMAIN s.streams : s.streams[k].aligner.pending # <<>> =>
            s.streams[k].kind = "audio" /\ BoundBy(Marker(s), s.streams[k].aligner)

LEMMA OrderedMarked ==
    ASSUME NEW s, Ordered(s)
    PROVE  Marked(s)
BY DEF Marked, Ordered, Staged, Waits, Synced, Marker, BoundBy

\* What Delivers says of the streams.
LEMMA DeliversStill ==
    ASSUME NEW s, NEW t, Delivers(s), t.out = s.out, t.accepted = s.accepted, DOMAIN t.streams = DOMAIN s.streams,
           \A k \in DOMAIN s.streams : t.streams[k].kind = s.streams[k].kind,
           SyncVideo(s) # 0 =>
               SameMarks(Marker(s), t.streams[SyncVideo(s)].aligner) /\ CutBefore(Marker(s), t.reported)
    PROVE  Delivers(t)
<1>2. OutKnown(s) /\ OutKnown(t)
  BY DEF Delivers, OutKnown
<1>4. OutCut(t)
  BY <1>2, SyncVideoSame DEF OutCut, Marker, Delivers, SameMarks, CutBefore, OutKnown
<1> QED
  BY <1>2, <1>4 DEF Delivers, OutInOrder, OutTiles, OutStepped, OutKnown, OutKeyed

LEMMA SparesDelivers ==
    ASSUME NEW s, DOMAIN s.streams \subseteq Nat, NEW i \in DOMAIN s.streams, NEW t, Spares(s, t, i),
           Marked(s), Delivers(s)
    PROVE  Marked(t) /\ Delivers(t)
<1> DEFINE m == SyncVideo(s)  a == s.streams[i].aligner  b == t.streams[i].aligner
<1>1. /\ t.out = s.out /\ t.accepted = s.accepted /\ DOMAIN t.streams = DOMAIN s.streams /\ t.streams[i].kind = s.streams[i].kind
      /\ \A k \in DOMAIN s.streams : k # i => t.streams[k] = s.streams[k]
      /\ b.pending = <<>>
      /\ a.pending = <<>> => SameMarks(a, b) /\ t.reported = s.reported
      /\ CutsBefore(a, s.reported, t.reported)
  BY DEF Spares
<1>4. ASSUME m # 0
      PROVE  SameMarks(Marker(s), t.streams[m].aligner) /\ CutBefore(Marker(s), t.reported)
  BY <1>1, <1>4, SyncVideoIs DEF Marked, Delivers, OutCut, Marker, SameMarks, BoundBy, CutsBefore, CutBefore
<1> QED
  BY <1>1, <1>4, DeliversStill, SyncVideoSame DEF Marked, Marker, SameMarks, BoundBy

SparedNext(c, t, i) == DiscardStream(t, i)

SparedSoFar(c, s, numbers, n, t) ==
    Owns(t, c) /\ DOMAIN t.streams = DOMAIN s.streams /\ t.err # "none" /\ Marked(t) /\ Delivers(t)

Sparing == INSTANCE FoldLemmas WITH Op <- SparedNext, Inv <- SparedSoFar

LEMMA StreamsSpared ==
    ASSUME NEW s, NEW hand \in Seq(Packet), Owns(s, hand), s.err # "none", Marked(s), Delivers(s),
           NEW t, t = DiscardStreams(s)
    PROVE  Delivers(t)
<1> DEFINE numbers == Numbers(s)
<1>1. s \in LiveState /\ DOMAIN s.streams = 1 .. Len(s.streams) /\ Len(s.streams) \in Nat
  BY StateFields DEF Owns
<1>2. /\ numbers \in Seq(Nat) /\ Len(numbers) = Len(s.streams)
      /\ \A k \in 1 .. Len(s.streams) : numbers[k] = k
  BY <1>1, NumbersAre
<1>3. t = Sparing!Fold(hand, s, numbers)
  BY DEF DiscardStreams, ForEachStream, Numbers, Sparing!Fold, SparedNext, FoldLeft, MapThenFoldSet, Max, Sparing!Latest
<1> HIDE DEF numbers
<1>5. ASSUME NEW n \in 1 .. Len(numbers), NEW u, SparedSoFar(hand, s, numbers, n - 1, u)
      PROVE  SparedSoFar(hand, s, numbers, n, SparedNext(hand, u, numbers[n]))
  <2> DEFINE v == SparedNext(hand, u, numbers[n])
  <2>1. numbers[n] = n /\ n \in DOMAIN s.streams
    BY <1>1, <1>2
  <2>2. v = DiscardStream(u, n)
    BY <2>1 DEF SparedNext
  <2>3. /\ Owns(u, hand) /\ DOMAIN u.streams = DOMAIN s.streams /\ u.err # "none" /\ Marked(u) /\ Delivers(u)
        /\ n \in DOMAIN u.streams
    BY <1>5, <2>1 DEF SparedSoFar
  <2> HIDE DEF v
  <2>5. Spares(u, v, n)
    BY <2>2, <2>3, StreamSpares
  <2>7. Marked(v) /\ Delivers(v)
    BY <2>3, <2>5, SparesDelivers, NumbersOfStreams DEF Owns
  <2> QED
    BY <2>2, <2>3, <2>5, <2>7, OneDiscarded DEF SparedSoFar, v, Spares
<1>6. SparedSoFar(hand, s, numbers, Len(numbers), Sparing!Fold(hand, s, numbers))
  BY <1>2, <1>5, Sparing!FoldInvariant, NaturalsOrdered DEF SparedSoFar
<1> QED
  BY <1>3, <1>6 DEF SparedSoFar

LEMMA SameOutDelivers ==
    ASSUME NEW s, NEW t, Delivers(s), t.streams = s.streams, t.out = s.out, t.reported = s.reported,
           t.accepted = s.accepted
    PROVE  Delivers(t)
BY DeliversStill DEF Delivers, OutCut, SameMarks, Marker

LEMMA DiscardedDelivers ==
    ASSUME NEW s, Owns(s, <<>>), s.err # "none", Marked(s), Delivers(s), NEW t, t = DiscardBuffered(s)
    PROVE  Delivers(t)
<1> DEFINE r == DiscardStreams(s)
           hand == <<>>
<1>1. t = ReleaseAll(QueueEmptied(r), Queued(r)) /\ r = DiscardStreams(s)
  BY DEF DiscardBuffered, QueueEmptied, Queued
<1>2. hand \in Seq(Packet) /\ Owns(s, hand)
  OBVIOUS
<1> HIDE DEF r, hand
<1>5. GivesUp(r, t)
  BY <1>1, <1>2, QueueGivenUp, StreamsDiscarded DEF hand
<1> QED
  BY <1>1, <1>2, <1>5, SameOutDelivers, StreamsSpared DEF GivesUp

-----------------------------------------------------------------------------
(* Close delivers what the stages hold, until an error.                    *)
LEMMA ClosedSetOrdered ==
    ASSUME NEW s, NEW hand, Owns(s, hand), Ordered(s), Stepped(s), NEW fuse \in Int,
           NEW t, t = SetClosed(s, fuse)
    PROVE  Ordered(t) /\ Stepped(t)
BY StateShape, NumbersOfStreams, AlikeOrdered, AlikeStepped DEF Owns, SetClosed, IsLive, NoneCut, Alike

LEMMA FlushedMarked ==
    ASSUME NEW s, NEW hand \in Seq(Packet), Owns(s, hand), NEW t, t = FlushAligners(s)
    PROVE  Marked(t)
<1>1. AlignersSoFar(0, s, Numbers(s), Len(s.streams), t)
  BY AlignersFlushed
<1> QED
  BY <1>1, StateFields DEF Marked, AlignersSoFar, Framed, Owns

LEMMA DrainedMarked ==
    ASSUME NEW s, NEW hand \in Seq(Packet), Owns(s, hand), s.closed, Marked(s), NEW t, t = DrainQueue(s)
    PROVE  Marked(t)
<1>1. Closes(s, t) /\ DrainsStreams(s, t)
  BY Drained
<1> QED
  BY <1>1, SyncVideoIs, NumbersOfStreams, SyncVideoSame, SMTT(30) DEF Marked, Marker, Owns, Closes, DrainsStreams

LEMMA ClosingDelivers ==
    ASSUME NEW s, Owns(s, <<>>), Traced(s), Ordered(s), Stepped(s), NEW fuse \in Int,
           NEW t, t = Closing(s, fuse)
    PROVE  Delivers(t)
<1> DEFINE s0 == SetClosed(s, fuse)
           s1 == Unless(s0, FlushEnforcers(s0))
           s2 == Unless(s1, FlushAligners(s1))
           s3 == Unless(s2, DrainQueue(s2))
<1>1. /\ s0 = SetClosed(s, fuse) /\ s1 = Unless(s0, FlushEnforcers(s0)) /\ s2 = Unless(s1, FlushAligners(s1))
      /\ s3 = Unless(s2, DrainQueue(s2)) /\ t = IF s3.err = "none" THEN s3 ELSE DiscardBuffered(s3)
  BY DEF Closing
<1> HIDE DEF s0, s1, s2, s3
<1> DEFINE none == <<>>
<1>0. none \in Seq(Packet) /\ Owns(s, none)
  OBVIOUS
<1> HIDE DEF none
<1>2. Owns(s0, none) /\ s0.closed /\ Genuine(s0)
  BY <1>0, <1>1, ClosedTraced DEF Traced
<1>3. Ordered(s0) /\ Stepped(s0)
  BY <1>0, <1>1, ClosedSetOrdered
<1>4. Owns(s1, none) /\ Closes(s0, s1) /\ Ordered(s1) /\ Stepped(s1)
  <2>1. CASE s0.err = "none"
    BY <1>0, <1>1, <1>2, <1>3, <2>1, EnforcersFlushed, EnforcersFlushedOrdered DEF Unless
  <2>2. CASE s0.err # "none"
    BY <1>1, <1>2, <1>3, <2>2 DEF Unless, Closes
  <2> QED
    BY <2>1, <2>2
<1>5. Owns(s2, none) /\ s2.closed /\ Sorted(s2) /\ Marked(s2)
  BY <1>0, <1>1, <1>2, <1>4, AlignersFlushed, AlignersFlushedSorted, FlushedMarked, OrderedSorted,
     OrderedMarked DEF Closes, Unless, AlignersSoFar, Framed
<1>6. Owns(s3, none) /\ Sorted(s3) /\ Marked(s3)
  BY <1>0, <1>1, <1>5, Drained, DrainedSorted, DrainedMarked DEF Unless
<1>7. Delivers(s3)
  BY <1>6, SortedDelivers DEF Owns
<1>8. CASE s3.err = "none"
  BY <1>1, <1>7, <1>8
<1>9. CASE s3.err # "none"
  BY <1>1, <1>6, <1>7, <1>9, DiscardedDelivers DEF none
<1> QED
  BY <1>8, <1>9

\* And what it leaves is closed.
LEMMA ClosingCloses ==
    ASSUME NEW s, Owns(s, <<>>), NEW fuse \in Int, NEW t, t = Closing(s, fuse)
    PROVE  t.closed
<1> DEFINE s0 == SetClosed(s, fuse)
           s1 == Unless(s0, FlushEnforcers(s0))
           s2 == Unless(s1, FlushAligners(s1))
           s3 == Unless(s2, DrainQueue(s2))
<1>1. /\ s0 = SetClosed(s, fuse) /\ s1 = Unless(s0, FlushEnforcers(s0)) /\ s2 = Unless(s1, FlushAligners(s1))
      /\ s3 = Unless(s2, DrainQueue(s2)) /\ t = IF s3.err = "none" THEN s3 ELSE DiscardBuffered(s3)
  BY DEF Closing
<1> HIDE DEF s0, s1, s2, s3
<1>3. s0.closed
  BY <1>1, StateShape DEF SetClosed, IsLive, Owns
<1>4. Owns(s0, <<>>)
  BY <1>1, ClosedSet
<1> QED
  BY <1>1, <1>3, <1>4, AllClosed DEF Closes

-----------------------------------------------------------------------------
(* The steps: until Close the packets are in order, and what the wrapped   *)
(* muxer is offered is as promised.                                        *)
Flows(s) == (~s.closed => Ordered(s) /\ Stepped(s)) /\ Delivers(s)

LEMMA OrderedFlows ==
    ASSUME NEW s, NEW hand, Owns(s, hand), Ordered(s), Stepped(s)
    PROVE  Flows(s)
BY OrderedDelivers DEF Flows

LEMMA SameFlows ==
    ASSUME NEW t, DOMAIN t.streams \subseteq Nat, Flows(t), NEW u, u.streams = t.streams,
           u.queue = t.queue, u.started = t.started, u.closed = t.closed, u.err = t.err,
           u.out = t.out, u.reported = t.reported, u.accepted = t.accepted
    PROVE  Flows(u)
BY SameOutDelivers, AlikeOrdered, AlikeStepped DEF Flows, Alike, NoneCut

LEMMA BecomeFlows ==
    ASSUME NEW t, Owns(t, <<>>), Flows(t), Become(t)
    PROVE  Flows(State)'
BY NumbersOfStreams, SameFlows DEF Become, State, Owns

LEMMA InitFlows == Init => Flows(State)
<1> SUFFICES ASSUME Init PROVE Flows(State)
  OBVIOUS
<1> DEFINE s == State  none == <<>>
<1>1. s.streams = <<>> /\ s.queue = <<>> /\ s.out = <<>> /\ s.reported = {} /\ ~s.started /\ ~s.closed
  BY DEF State, Init
<1>2. Sound(s) /\ none = <<>>
  BY InitSound
<1> HIDE DEF s, none
<1>3. Owns(s, none) /\ s \in LiveState
  BY <1>1, <1>2 DEF Sound, Settled, Owns
<1> QED
  BY <1>1, <1>3, OrderedFlows, UntouchedOrdered DEF s, Untouched, AudioExpects

LEMMA AddStreamFlows == Sound(State) /\ Flows(State) /\ AddStream => Flows(State)'
BY StreamAdded, AddedOrdered, OrderedFlows, BecomeFlows DEF AddStream, WithNew, State, Sound, Settled, Flows

LEMMA WritePacketFlows ==
    ASSUME Sound(State), Flows(State), NEW i \in DOMAIN streams, NEW tick \in Ticks,
           NEW fuse \in Fuses, NEW a \in Arrivals, WritePacket(i, tick, a.kind, a.dur, a.disc, fuse)
    PROVE  Flows(State)'
<1> DEFINE s == State  mode == "packet"  none == <<>>
           u == Ready(s, i, mode, fuse)
           dts == tick * Tick
           t == Accept(u, i, dts, a.kind, a.dur, a.disc)
<1>1. Become(t)
  BY DEF WritePacket, Ready, SetFuse
<1>3. /\ fuse \in Int /\ dts \in Int /\ a.kind \in {"key", "delta", "config"} /\ a.dur \in Int
      /\ a.disc \in BOOLEAN
  BY LiveAssumption
<1>4. Owns(s, <<>>) /\ i \in DOMAIN s.streams /\ Traced(s) /\ Ordered(s) /\ Stepped(s)
  BY DEF Sound, Settled, Flows, State, WritePacket, CanWrite
<1>5. mode \in {"packet", "adts"} /\ u = Ready(s, i, mode, fuse)
  OBVIOUS
<1> HIDE DEF s, mode, u, dts
<1>6. Runs(u)
  BY <1>3, <1>4, <1>5, ReadyRuns
<1>7. Owns(u, none) /\ i \in DOMAIN u.streams
  BY <1>3, <1>4, <1>5, ReadyOwns
<1> HIDE DEF none
<1>8. Owns(t, none) /\ Runs(t)
  BY <1>3, <1>6, <1>7, AcceptedOrdered
<1>9. Owns(t, <<>>)
  BY <1>8 DEF none
<1> HIDE DEF t
<1> QED
  BY <1>1, <1>8, <1>9, BecomeFlows, OrderedFlows DEF Runs

LEMMA WriteADTSFlows ==
    ASSUME Sound(State), Flows(State), NEW i \in DOMAIN streams, NEW tick \in Ticks,
           NEW fuse \in Fuses, NEW n \in ChunkFrames, WriteADTS(i, tick, n, fuse)
    PROVE  Flows(State)'
<1> DEFINE s == State  mode == "adts"  none == <<>>
           u == Ready(s, i, mode, fuse)
           t == AcceptFrames(u, i, tick, n)
<1>1. Become(t)
  BY DEF WriteADTS, Ready, SetFuse
<1>3. fuse \in Int /\ tick \in Int /\ n \in Nat
  BY LiveAssumption
<1>4. Owns(s, <<>>) /\ i \in DOMAIN s.streams /\ Traced(s) /\ Ordered(s) /\ Stepped(s)
  BY DEF Sound, Settled, Flows, State, WriteADTS, CanWrite
<1>5. mode \in {"packet", "adts"} /\ u = Ready(s, i, mode, fuse) /\ none \in Seq(Packet)
  OBVIOUS
<1> HIDE DEF s, mode, u
<1>6. Runs(u)
  BY <1>3, <1>4, <1>5, ReadyRuns
<1>7. Owns(u, none) /\ i \in DOMAIN u.streams
  BY <1>3, <1>4, <1>5, ReadyOwns
<1> HIDE DEF none
<1>8. Owns(t, none)
  BY <1>3, <1>5, <1>7, FramesAccepted
<1>9. Runs(t)
  BY <1>3, <1>5, <1>6, <1>7, FramesAcceptedOrdered
<1>10. Owns(t, <<>>)
  BY <1>8 DEF none
<1> HIDE DEF t
<1> QED
  BY <1>1, <1>8, <1>9, <1>10, BecomeFlows, OrderedFlows DEF Runs

LEMMA CloseFlows ==
    ASSUME Sound(State), Flows(State), NEW fuse \in Fuses, Close(fuse)
    PROVE  Flows(State)'
<1>1. CASE ~closed /\ Become(Closing(State, fuse))
  <2> DEFINE s == State  t == Closing(s, fuse)
  <2>1. fuse \in Int
    BY LiveAssumption
  <2>2. Sound(s) /\ Flows(s) /\ ~s.closed /\ Become(t)
    BY <1>1 DEF State
  <2> HIDE DEF s
  <2>3. Owns(s, <<>>) /\ Traced(s) /\ Ordered(s) /\ Stepped(s)
    BY <2>2 DEF Sound, Settled, Flows
  <2>4. Owns(t, <<>>)
    BY <2>1, <2>3, ClosingSettles
  <2>5. Delivers(t)
    BY <2>1, <2>3, ClosingDelivers
  <2>6. t.closed
    BY <2>1, <2>3, ClosingCloses
  <2> HIDE DEF t
  <2> QED
    BY <2>2, <2>4, <2>5, <2>6, BecomeFlows DEF Flows
<1>2. CASE closed /\ UNCHANGED vars
  BY <1>2 DEF State, vars
<1> QED
  BY <1>1, <1>2 DEF Close, Closing, SetClosed

LEMMA NextFlows == Sound(State) /\ Flows(State) /\ [Next]_vars => Flows(State)'
BY AddStreamFlows, WritePacketFlows, WriteADTSFlows, CloseFlows DEF Write, State, vars, Next

-----------------------------------------------------------------------------
(* What durationToLiveTicks makes of the order.                            *)

\* t is the tick nearest to x.
TicksAre(x, t) == t \in Nat /\ 2 * (t * Tick) < 2 * x + Tick /\ 2 * x <= 2 * (t * Tick) + Tick

LEMMA TicksOf ==
    ASSUME NEW x \in Nat
    PROVE  TicksAre(x, ToTicks(x)) /\ ToTicks(-x) = -ToTicks(x)
<1> DEFINE t == x \div Tick
<1>1. x \in Int /\ Tick \in Nat /\ Tick > 0 /\ x >= 0
  BY LiveAssumption
<1>2. t \in Nat /\ t * Tick <= x /\ x < t * Tick + Tick
  BY <1>1
<1>3. (t + 1) * Tick = t * Tick + Tick
  BY <1>1, <1>2
<1>4. ToTicks(x) = IF x - t * Tick > (t + 1) * Tick - x THEN t + 1 ELSE t
  BY <1>1 DEF ToTicks
<1>5. ToTicks(-x) = -ToTicks(x)
  BY <1>1 DEF ToTicks
<1> DEFINE m == t * Tick  n == (t + 1) * Tick  r == ToTicks(x)
<1>6. m \in Nat /\ n = m + Tick /\ m <= x /\ x < n
  BY <1>1, <1>2, <1>3
<1>7. r = IF x - m > n - x THEN t + 1 ELSE t
  BY <1>4
<1> HIDE DEF r, t
<1>8. t \in Nat /\ (x - m > n - x => r = t + 1) /\ (~(x - m > n - x) => r = t)
  BY <1>2, <1>7
<1>9. r \in Nat /\ (r * Tick = n \/ r * Tick = m)
  BY <1>8
<1>10. 2 * (r * Tick) < 2 * x + Tick /\ 2 * x <= 2 * (r * Tick) + Tick
  <2>1. CASE x - m > n - x
    <3>1. r * Tick = n
      BY <1>8, <2>1
    <3> HIDE DEF n, m
    <3> QED
      BY <1>1, <1>6, <2>1, <3>1
  <2>2. CASE ~(x - m > n - x)
    <3>1. r * Tick = m
      BY <1>8, <2>2
    <3> HIDE DEF n, m
    <3> QED
      BY <1>1, <1>6, <2>2, <3>1
  <2> QED
    BY <2>1, <2>2
<1> QED
  BY <1>5, <1>9, <1>10 DEF TicksAre, r

LEMMA MoreTicks ==
    ASSUME NEW a \in Int, NEW b \in Int, a < b
    PROVE  a * Tick + Tick <= b * Tick
<1>1. Tick \in Nat /\ Tick > 0
  BY LiveAssumption
<1>2. (b - a - 1) * Tick >= 0
  BY <1>1
<1> QED
  BY <1>1, <1>2

LEMMA NaturalTicks ==
    ASSUME NEW x \in Nat, NEW y \in Nat, x < y
    PROVE  /\ ToTicks(x) <= ToTicks(y)
           /\ x + Tick <= y => ToTicks(x) < ToTicks(y)
<1> DEFINE a == ToTicks(x)  b == ToTicks(y)
<1>1. TicksAre(x, a) /\ TicksAre(y, b) /\ Tick \in Nat /\ Tick > 0
  BY TicksOf, LiveAssumption
<1>2. a \in Nat /\ b \in Nat
  BY <1>1 DEF TicksAre
<1> HIDE DEF a, b
<1>3. b < a => b * Tick + Tick <= a * Tick
  BY <1>2, MoreTicks
<1> DEFINE m == a * Tick  n == b * Tick
<1>4. m \in Nat /\ n \in Nat
  BY <1>1, <1>2
<1>5. 2 * m < 2 * x + Tick /\ 2 * y <= 2 * n + Tick /\ (b < a => n + Tick <= m) /\ (a = b => m = n)
  BY <1>1, <1>3 DEF TicksAre
<1> HIDE DEF m, n
<1>6. a <= b
  BY <1>1, <1>2, <1>4, <1>5
<1>7. x + Tick <= y => a # b
  BY <1>1, <1>2, <1>4, <1>5
<1> QED
  BY <1>2, <1>6, <1>7 DEF a, b

\* A later stamp has no smaller tick, and a larger one if a tick lies between them on one side of zero.
LEMMA TicksRise ==
    ASSUME NEW x \in Int, NEW y \in Int, x < y
    PROVE  /\ ToTicks(x) <= ToTicks(y)
           /\ x + Tick <= y /\ (0 <= x \/ y <= 0) => ToTicks(x) < ToTicks(y)
<1>0. Tick \in Nat
  BY LiveAssumption
<1>1. CASE 0 <= x
  BY <1>1, NaturalTicks
<1>2. CASE y <= 0
  <2> DEFINE u == -x  v == -y
  <2>1. u \in Nat /\ v \in Nat /\ v < u /\ x = -u /\ y = -v /\ (x + Tick <= y => v + Tick <= u)
    BY <1>0, <1>2
  <2> HIDE DEF u, v
  <2>2. /\ ToTicks(x) = -ToTicks(u) /\ ToTicks(y) = -ToTicks(v) /\ ToTicks(u) \in Nat /\ ToTicks(v) \in Nat
        /\ ToTicks(v) <= ToTicks(u) /\ (v + Tick <= u => ToTicks(v) < ToTicks(u))
    BY <2>1, TicksOf, NaturalTicks DEF TicksAre
  <2> QED
    BY <2>1, <2>2
<1>3. CASE x < 0 /\ 0 < y
  <2> DEFINE u == -x
  <2>1. u \in Nat /\ x = -u /\ y \in Nat
    BY <1>3
  <2> HIDE DEF u
  <2>2. ToTicks(x) = -ToTicks(u) /\ ToTicks(u) \in Nat /\ ToTicks(y) \in Nat
    BY <2>1, TicksOf DEF TicksAre
  <2> QED
    BY <1>3, <2>2
<1> QED
  BY <1>1, <1>2, <1>3

\* A stamp that is a whole number of ticks.
LEMMA WholeTicks ==
    ASSUME NEW x \in Int, x % Tick = 0
    PROVE  x = ToTicks(x) * Tick
<1>1. Tick \in Nat /\ Tick > 0
  BY LiveAssumption
<1>2. x = (x \div Tick) * Tick /\ x \div Tick \in Int
  BY <1>1
<1>3. ASSUME NEW n \in Nat
      PROVE  ToTicks(n * Tick) = n
  <2> DEFINE m == n * Tick  t == ToTicks(m)
  <2>1. m \in Nat
    BY <1>1
  <2>2. TicksAre(m, t)
    BY <2>1, TicksOf
  <2> HIDE DEF t
  <2>3. t \in Nat /\ (t < n => t * Tick + Tick <= m) /\ (n < t => m + Tick <= t * Tick)
    BY <2>2, MoreTicks DEF TicksAre
  <2> DEFINE k == t * Tick
  <2>4. k \in Nat /\ 2 * k < 2 * m + Tick /\ 2 * m <= 2 * k + Tick /\ (t < n => k + Tick <= m) /\ (n < t => m + Tick <= k)
    BY <1>1, <2>2, <2>3 DEF TicksAre
  <2> HIDE DEF k, m
  <2>5. ~(t < n) /\ ~(n < t)
    BY <1>1, <2>1, <2>4
  <2> QED
    BY <2>3, <2>5 DEF t, m
<1> DEFINE d == x \div Tick
<1>4. d \in Int /\ x = d * Tick
  BY <1>2
<1> HIDE DEF d
<1>5. CASE 0 <= d
  BY <1>3, <1>4, <1>5
<1>6. CASE d < 0
  <2> DEFINE n == -d
  <2>1. n \in Nat /\ d = -n
    BY <1>4, <1>6
  <2> HIDE DEF n
  <2>2. n * Tick \in Nat /\ x = -(n * Tick)
    BY <1>1, <1>4, <2>1
  <2>3. ToTicks(x) = -n
    BY <1>3, <2>1, <2>2, TicksOf
  <2> QED
    BY <1>4, <2>1, <2>3
<1> QED
  BY <1>4, <1>5, <1>6

LEMMA PairTicks ==
    ASSUME NEW p \in Packet, NEW q \in Packet, p.dts < q.dts
    PROVE  /\ ToTicks(p.dts) <= ToTicks(q.dts)
           /\ ToTicks(p.dts) = ToTicks(q.dts) =>
                 ~(OnTick(p) /\ OnTick(q)) /\ (p.dts + StepSize <= q.dts => p.dts < 0 /\ 0 < q.dts)
<1>1. p.dts \in Int /\ q.dts \in Int /\ StepSize \in Int /\ Tick \in Int /\ Tick <= StepSize
  BY LiveAssumption DEF Packet, StepSize
<1>2. /\ ToTicks(p.dts) <= ToTicks(q.dts)
      /\ p.dts + Tick <= q.dts /\ (0 <= p.dts \/ q.dts <= 0) => ToTicks(p.dts) < ToTicks(q.dts)
  BY <1>1, TicksRise
<1>3. OnTick(p) /\ OnTick(q) => ToTicks(p.dts) # ToTicks(q.dts)
  BY <1>1, WholeTicks DEF OnTick
<1>4. ToTicks(p.dts) \in Int /\ ToTicks(q.dts) \in Int
  BY <1>1, TicksAreInt
<1> QED
  BY <1>1, <1>2, <1>3, <1>4

\* The order, the starts and the durations of the writes are as promised.
LEMMA DeliversAll ==
    Sound(State) /\ Delivers(State) => Interleaved /\ StartsAligned /\ DurationsTile
<1> SUFFICES ASSUME Sound(State), Delivers(State) PROVE Interleaved /\ StartsAligned /\ DurationsTile
  OBVIOUS
<1> DEFINE s == State
<1>1. s.out = out /\ s.streams = streams /\ s.reported = reported /\ s.accepted = accepted
  BY DEF State
<1>2. OutInOrder(s) /\ OutKeyed(s) /\ OutCut(s) /\ OutTiles(s) /\ OutStepped(s)
  BY DEF Delivers
<1>3. Marker(s) = streams[SyncVideo(State)].aligner
  BY <1>1 DEF Marker
<1>4. SyncVideo(s) = SyncVideo(State)
  OBVIOUS
<1>5. s.out \in Seq(Offer)
  BY StateFields DEF Sound, Owns
<1> HIDE DEF s
<1>7. Interleaved
  <2> SUFFICES ASSUME NEW i \in DOMAIN out, NEW j \in DOMAIN out, i < j
               PROVE  LET p == out[i].packet  q == out[j].packet IN
                      /\ p.dts <= q.dts
                      /\ p.stream = q.stream =>
                            /\ p.dts < q.dts /\ out[i].ticks <= out[j].ticks
                            /\ out[i].ticks = out[j].ticks =>
                                  ~(OnTick(p) /\ OnTick(q)) /\ (Repaired(q) => p.dts < 0 /\ 0 < q.dts)
                      /\ out[i].ok
    BY DEF Interleaved
  <2> DEFINE p == out[i].packet  q == out[j].packet
  <2>1. out[i] \in Offer /\ out[j] \in Offer
    BY <1>1, <1>5
  <2>2. p \in Packet /\ q \in Packet /\ out[i].ticks = ToTicks(p.dts) /\ out[j].ticks = ToTicks(q.dts)
    BY <2>1 DEF Offer
  <2>3. p.dts <= q.dts /\ (p.stream = q.stream => p.dts < q.dts) /\ out[i].ok
    BY <1>1, <1>2 DEF OutInOrder, Before
  <2>4. p.stream = q.stream /\ Repaired(q) => p.dts + StepSize <= q.dts
    BY <1>1, <1>2, <2>3 DEF OutStepped, Repaired
  <2> HIDE DEF p, q
  <2>5. p.stream = q.stream =>
          /\ ToTicks(p.dts) <= ToTicks(q.dts)
          /\ ToTicks(p.dts) = ToTicks(q.dts) =>
                ~(OnTick(p) /\ OnTick(q)) /\ (Repaired(q) => p.dts < 0 /\ 0 < q.dts)
    BY <2>2, <2>3, <2>4, PairTicks
  <2> QED
    BY <2>2, <2>3, <2>5 DEF p, q
<1>8. DurationsTile
  BY <1>1, <1>2 DEF DurationsTile, OutTiles, Adjoins
<1> QED
  BY <1>1, <1>2, <1>3, <1>4, <1>7, <1>8
     DEF StartsAligned, KeyframeFirst, OutKeyed, AudioCutAtSync, OutCut, CutBefore

(* Until Close the packets behind the Aligners are in order, stream by     *)
(* stream, and what is offered to the wrapped muxer is; after Close the    *)
(* latter remains (the inductive invariant, with StateSound's).            *)
THEOREM StateFlows == Spec => [](Sound(State) /\ Flows(State))
<1>1. Init => Sound(State) /\ Flows(State)
  BY InitSound, InitFlows
<1>2. Sound(State) /\ Flows(State) /\ [Next]_vars => Sound(State)' /\ Flows(State)'
  BY NextSound, NextFlows
<1> QED
  BY <1>1, <1>2, PTL DEF Spec

(* All streams are merged in the order of their nanosecond stamps, which   *)
(* increase strictly within a stream, and no write follows the first that  *)
(* failed.  The ticks the wrapped muxer is given never go back within a    *)
(* stream.  They are equal only where a stamp is off the clock and the     *)
(* later packet has its own stamp, not a repaired one, or where both       *)
(* round to zero; a repaired stamp is a whole step after all before it     *)
(* (live.go:547-564, 582, 600, 742; enforcer.go:136-161).                  *)
THEOREM InterleavedAlways == Spec => []Interleaved
<1>1. Sound(State) /\ Flows(State) => Interleaved
  BY DeliversAll DEF Flows
<1> QED
  BY <1>1, StateFlows, PTL

(* No picture is written before a keyframe of its stream, and audio is cut *)
(* exactly at the first keyframe of the sync video                         *)
(* (aligner.go:112-149, 151-232; live.go:466-472).                         *)
THEOREM StartsAlignedAlways == Spec => []StartsAligned
<1>1. Sound(State) /\ Flows(State) => StartsAligned
  BY DeliversAll DEF Flows
<1> QED
  BY <1>1, StateFlows, PTL

(* A duration the source left out ends where the next packet of its stream *)
(* starts, unless that is a discontinuity or too far away                  *)
(* (live.go:489-505).                                                      *)
THEOREM DurationsTileAlways == Spec => []DurationsTile
<1>1. Sound(State) /\ Flows(State) => DurationsTile
  BY DeliversAll DEF Flows
<1> QED
  BY <1>1, StateFlows, PTL

=============================================================================
