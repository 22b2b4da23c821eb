--------------------------- MODULE EnforcerProofs ---------------------------
(***************************************************************************)
(* Proofs about Enforcer, for every value of its constants.                *)
(*                                                                         *)
(* The inductive invariant IInv relates what was emitted to what is still  *)
(* held: the watermark is the last stamp emitted, no stamp lies before the *)
(* one its packet arrived with, and every packet held comes after every    *)
(* packet emitted.  One lemma treats each half of Process: inserting keeps *)
(* the buffer in order, emitting a prefix keeps the whole stream in order. *)
(***************************************************************************)
EXTENDS Enforcer, SequenceTheorems, FiniteSetTheorems, WellFoundedInduction, TLAPS

(***************************************************************************)
(* Finite sequences of integers.  A chain whose neighbours increase is     *)
(* increasing: the step from neighbours to all pairs is an induction, made *)
(* here once, with the well-foundedness of < on the natural numbers.       *)
(***************************************************************************)

\* Every nonempty set of natural numbers has a least element.
LEMMA LeastNatural ==
    ASSUME NEW T, T \subseteq Nat, T # {}
    PROVE  \E n \in T : \A k \in T : n <= k
<1> DEFINE R == OpToRel(<, Nat)
<1>1. IsWellFoundedOn(R, Nat)
  BY NatLessThanWellFounded
<1>2. \A x, y \in Nat : <<y, x>> \in R <=> y < x
  BY DEF OpToRel
<1> HIDE DEF R
<1>3. PICK x \in T : \A y \in T : ~(<<y, x>> \in R)
  BY <1>1, WFMin
<1>4. ASSUME NEW k \in T
      PROVE  x <= k
  <2>1. x \in Nat /\ k \in Nat
    OBVIOUS
  <2>2. ~(k < x)
    BY <1>2, <1>3, <2>1
  <2> QED
    BY <2>1, <2>2
<1> QED
  BY <1>4

\* A function whose neighbouring values increase is increasing.
LEMMA ChainIncreasing ==
    ASSUME NEW m \in Nat, NEW d \in [1 .. m -> Int],
           \A j \in 1 .. m : j > 1 => d[j - 1] < d[j]
    PROVE  \A i, j \in 1 .. m : i < j => d[i] < d[j]
<1> SUFFICES ASSUME NEW i \in 1 .. m
             PROVE  \A j \in 1 .. m : i < j => d[i] < d[j]
  OBVIOUS
<1> DEFINE Bad == {j \in 1 .. m : i < j /\ ~(d[i] < d[j])}
<1> SUFFICES ASSUME Bad # {} PROVE FALSE
  OBVIOUS
<1>1. PICK n \in Bad : \A k \in Bad : n <= k
  <2>1. Bad \subseteq Nat
    OBVIOUS
  <2> QED
    BY <2>1, LeastNatural
<1>2. n \in 1 .. m /\ i < n /\ ~(d[i] < d[n])
  OBVIOUS
<1>3. d[n - 1] < d[n]
  BY <1>2
<1>4. n - 1 \in 1 .. m /\ (i = n - 1 \/ i < n - 1)
  BY <1>2
<1>5. CASE i = n - 1
  BY <1>2, <1>3, <1>5
<1>6. CASE i < n - 1
  <2>1. n - 1 \notin Bad
    BY <1>1, <1>2
  <2>2. d[i] < d[n - 1]
    BY <2>1, <1>4, <1>6
  <2> QED
    BY <2>2, <1>2, <1>3, <1>4
<1> QED
  BY <1>4, <1>5, <1>6

-----------------------------------------------------------------------------

(* What is known of the emissions.                                         *)
OutputInv ==
    /\ out \in Seq(Emission)
    /\ lastDTS \in Int /\ emitted \in BOOLEAN
    /\ dropped \in Nat /\ gaps \in Nat
    /\ emitted <=> Len(out) > 0
    /\ emitted => lastDTS = out[Len(out)].dts
    /\ StrictlyIncreasing
    /\ PresentationDelayKept
    /\ \A i, j \in 1 .. Len(out) : i < j => Before(out[i].in, out[j].in)

(* What is known of a buffer b from which packets may be emitted.          *)
InOrder(b) ==
    /\ \A i, j \in 1 .. Len(b) : i < j => Before(b[i], b[j])
    /\ \A i \in 1 .. Len(out), j \in 1 .. Len(b) : Before(out[i].in, b[j])

ArrivalInv ==
    /\ arrived \in Nat /\ newest \in Time
    /\ \A i \in 1 .. Len(buf) : buf[i].id <= arrived /\ buf[i].dts <= newest
    /\ \A i \in 1 .. Len(out) : out[i].in.id <= arrived

WatermarkInv ==
    /\ forced \in BOOLEAN /\ lost \in BOOLEAN
    /\ emitted /\ ~forced => lastDTS + Window <= newest
    /\ JitterTolerated

IInv ==
    /\ buf \in Seq(Packet)
    /\ OutputInv
    /\ InOrder(buf)
    /\ ArrivalInv
    /\ EveryPacketAccounted
    /\ LatencyBounded
    /\ WatermarkInv

-----------------------------------------------------------------------------
(* Stamps.                                                                 *)

\* A stamp given below the ceiling advances, and is not before the arrival stamp.
LEMMA StampAdvances ==
    ASSUME NEW prev \in Int, NEW dts \in Time, prev < MaxTime
    PROVE  Stamp(prev, dts) > prev /\ Stamp(prev, dts) >= dts
BY TimeAssumption, ConfigAssumption DEF Stamp, StepSize, Time

\* Shifting PTS by the nudge keeps the delay, or saturates.
LEMMA ShiftKeepsDelay ==
    ASSUME NEW p \in Packet, NEW dts \in Time, dts >= p.dts
    PROVE  LET e == Stamped(p, dts) IN
           /\ e \in Emission /\ e.in = p /\ e.dts = dts
           /\ e.pts - e.dts <= p.pts - p.dts
           /\ e.pts < MaxTime => e.pts - e.dts = p.pts - p.dts
BY TimeAssumption DEF Stamped, Shifted, Packet, Emission, Time

-----------------------------------------------------------------------------
(* Emitting a prefix of an ordered buffer.                                 *)

LEMMA EmitFirstKeepsOrder ==
    ASSUME OutputInv, NEW b \in Seq(Packet), InOrder(b),
           NEW k \in 0 .. Len(b), NEW late \in Nat, EmitFirst(b, k, late)
    PROVE  /\ OutputInv'
           /\ buf' \in Seq(Packet) /\ InOrder(buf)'
           /\ Len(buf') = Len(b) - k
           /\ \A i \in 1 .. Len(buf') : buf'[i] = b[i + k]
           /\ Len(buf') + Len(out') + dropped' = Len(b) + Len(out) + dropped + late
           /\ \A i \in 1 .. Len(out') : \/ i <= Len(out) /\ out'[i] = out[i]
                                        \/ \E j \in 1 .. k : out'[i].in = b[j]
           /\ ~Nudges(b, k) => \/ UNCHANGED <<lastDTS, emitted>>
                               \/ \E j \in 1 .. k : lastDTS' = b[j].dts
<1>0. PICK m \in 0 .. k : \E d \in [1 .. m -> Time] :
        /\ IsStamping(b, k, m, d)
        /\ out' = out \o [j \in 1 .. m |-> Stamped(b[j], d[j])]
        /\ lastDTS' = IF m = 0 THEN lastDTS ELSE d[m]
        /\ emitted' = (emitted \/ m > 0)
        /\ gaps' = gaps + Cardinality({j \in 1 .. m :
                              HasPrev(j) /\ CountsAsGap(Prev(d, j), b[j].dts)})
        /\ dropped' = dropped + late + (k - m)
        /\ buf' = SubSeq(b, k + 1, Len(b))
  BY DEF EmitFirst
<1>1. PICK d \in [1 .. m -> Time] :
        /\ IsStamping(b, k, m, d)
        /\ out' = out \o [j \in 1 .. m |-> Stamped(b[j], d[j])]
        /\ lastDTS' = IF m = 0 THEN lastDTS ELSE d[m]
        /\ emitted' = (emitted \/ m > 0)
        /\ gaps' = gaps + Cardinality({j \in 1 .. m :
                              HasPrev(j) /\ CountsAsGap(Prev(d, j), b[j].dts)})
        /\ dropped' = dropped + late + (k - m)
        /\ buf' = SubSeq(b, k + 1, Len(b))
  BY <1>0
<1> DEFINE e == [j \in 1 .. m |-> Stamped(b[j], d[j])]
<1>2. /\ Len(b) \in Nat /\ Len(out) \in Nat /\ m \in Nat /\ k \in Nat
      /\ \A j \in 1 .. Len(b) : b[j] \in Packet
      /\ \A j \in 1 .. Len(out) : out[j] \in Emission
  BY DEF OutputInv
<1>3. \A j \in 1 .. m : b[j] \in Packet /\ b[j].dts \in Time /\ d[j] \in Time
  BY <1>2 DEF Packet
<1>4. emitted => lastDTS \in Time /\ \A i \in 1 .. Len(out) : out[i].dts <= lastDTS
  <2> SUFFICES ASSUME emitted
               PROVE  lastDTS \in Time /\ \A i \in 1 .. Len(out) : out[i].dts <= lastDTS
    OBVIOUS
  <2>1. Len(out) \in 1 .. Len(out) /\ lastDTS = out[Len(out)].dts
    BY <1>2 DEF OutputInv
  <2>2. \A i \in 1 .. Len(out) : out[i].dts \in Time
    BY <1>2 DEF Emission
  <2>3. \A i \in 1 .. Len(out) : i < Len(out) => out[i].dts < lastDTS
    BY <2>1 DEF OutputInv, StrictlyIncreasing
  <2>4. lastDTS \in Time
    BY <2>1, <2>2
  <2>5. ASSUME NEW i \in 1 .. Len(out)
        PROVE  out[i].dts <= lastDTS
    <3>1. out[i].dts \in Int /\ lastDTS \in Int
      BY <2>2, <2>4, TimeAssumption DEF Time
    <3>2. CASE i = Len(out)
      BY <2>1, <3>1, <3>2
    <3>3. CASE i < Len(out)
      BY <2>3, <3>1, <3>3
    <3> QED
      BY <1>2, <3>2, <3>3
  <2> QED
    BY <2>4, <2>5
<1>5. \A j \in 1 .. m : /\ HasPrev(j) => Prev(d, j) < d[j]
                        /\ d[j] >= b[j].dts
  <2> TAKE j \in 1 .. m
  <2>1. CASE HasPrev(j)
    <3>1. Prev(d, j) \in Time
      BY <1>2, <1>3, <1>4, <2>1 DEF HasPrev, Prev
    <3>2. Prev(d, j) < MaxTime
      BY <1>1, <2>1, <3>1, TimeAssumption DEF IsStamping, AtCeiling, Time
    <3>3. d[j] = Stamp(Prev(d, j), b[j].dts)
      BY <1>1, <2>1 DEF IsStamping
    <3> QED
      BY <1>3, <3>1, <3>2, <3>3, StampAdvances, TimeAssumption DEF Time
  <2>2. CASE ~HasPrev(j)
    <3>1. d[j] = b[j].dts
      BY <1>1, <2>2 DEF IsStamping
    <3> QED
      BY <1>3, <2>2, <3>1, TimeAssumption DEF Time
  <2> QED
    BY <2>1, <2>2
<1>6. \A i, j \in 1 .. m : i < j => d[i] < d[j]
  <2>1. d \in [1 .. m -> Int]
    BY TimeAssumption DEF Time
  <2>2. \A j \in 1 .. m : j > 1 => d[j - 1] < d[j]
    BY <1>5 DEF HasPrev, Prev
  <2> QED
    BY <1>2, <2>1, <2>2, ChainIncreasing
<1>7. \A i \in 1 .. Len(out), j \in 1 .. m : out[i].dts < d[j]
  <2> TAKE i \in 1 .. Len(out), j \in 1 .. m
  <2>1. emitted
    BY <1>2 DEF OutputInv
  <2>2. lastDTS < d[1]
    BY <1>2, <1>5, <2>1 DEF HasPrev, Prev
  <2>3. d[1] <= d[j]
    BY <1>2, <1>3, <1>6, TimeAssumption DEF Time
  <2>4. out[i].dts \in Int /\ lastDTS \in Int /\ d[1] \in Int /\ d[j] \in Int
    BY <1>2, <1>3, TimeAssumption, SMTT(30) DEF OutputInv, Emission, Time
  <2> QED
    BY <1>4, <2>1, <2>2, <2>3, <2>4
<1>8. /\ e \in Seq(Emission) /\ Len(e) = m
      /\ \A j \in 1 .. m : e[j] = Stamped(b[j], d[j])
      /\ \A j \in 1 .. m :
            /\ e[j].in = b[j] /\ e[j].dts = d[j]
            /\ e[j].pts - e[j].dts <= b[j].pts - b[j].dts
            /\ e[j].pts < MaxTime => e[j].pts - e[j].dts = b[j].pts - b[j].dts
  <2>1. \A j \in 1 .. m : Stamped(b[j], d[j]) \in Emission
    BY <1>3, <1>5, ShiftKeepsDelay
  <2>2. e \in Seq(Emission) /\ Len(e) = m
    BY <1>2, <2>1
  <2> QED
    BY <1>3, <1>5, <2>2, ShiftKeepsDelay
<1> HIDE DEF e
<1>9. /\ out' \in Seq(Emission) /\ Len(out') = Len(out) + m
      /\ \A i \in 1 .. Len(out) + m :
            out'[i] = IF i <= Len(out) THEN out[i] ELSE e[i - Len(out)]
  <2>1. out' = out \o e
    BY <1>1 DEF e
  <2> QED
    BY <1>8, <2>1, ConcatProperties, ZenonT(30) DEF OutputInv
<1>10. /\ buf' \in Seq(Packet) /\ Len(buf') = Len(b) - k
       /\ \A i \in 1 .. Len(buf') : buf'[i] = b[i + k]
  BY <1>1, <1>2, SubSeqProperties
<1>11. StrictlyIncreasing'
  <2> SUFFICES ASSUME NEW i \in 1 .. Len(out'), NEW j \in 1 .. Len(out'), i < j
               PROVE  out'[i].dts < out'[j].dts
    BY DEF StrictlyIncreasing
  <2>1. CASE j <= Len(out)
    BY <1>2, <1>9, <2>1, SMTT(30) DEF OutputInv, StrictlyIncreasing
  <2>2. CASE i <= Len(out) /\ j > Len(out)
    BY <1>2, <1>7, <1>8, <1>9, <2>2, SMTT(30)
  <2>3. CASE i > Len(out)
    <3>1. /\ i - Len(out) \in 1 .. m /\ j - Len(out) \in 1 .. m
          /\ i - Len(out) < j - Len(out)
          /\ out'[i] = e[i - Len(out)] /\ out'[j] = e[j - Len(out)]
      BY <1>2, <1>9, <2>3
    <3>2. d[i - Len(out)] < d[j - Len(out)]
      BY <1>6, <3>1
    <3> QED
      BY <1>8, <3>1, <3>2
  <2> QED
    BY <1>2, <1>9, <2>1, <2>2, <2>3
<1>12. PresentationDelayKept'
  <2> SUFFICES ASSUME NEW i \in 1 .. Len(out')
               PROVE  /\ out'[i].dts >= out'[i].in.dts
                      /\ out'[i].pts - out'[i].dts <= out'[i].in.pts - out'[i].in.dts
                      /\ out'[i].pts < MaxTime =>
                           out'[i].pts - out'[i].dts = out'[i].in.pts - out'[i].in.dts
    BY DEF PresentationDelayKept
  <2>1. CASE i <= Len(out)
    BY <1>2, <1>9, <2>1 DEF OutputInv, PresentationDelayKept
  <2>2. CASE i > Len(out)
    BY <1>2, <1>5, <1>8, <1>9, <2>2, SMTT(30)
  <2> QED
    BY <1>2, <1>9, <2>1, <2>2
<1>13. \A i \in 1 .. Len(out') : \/ i <= Len(out) /\ out'[i] = out[i]
                                 \/ /\ i > Len(out) /\ i - Len(out) \in 1 .. m
                                    /\ out'[i].in = b[i - Len(out)]
  BY <1>2, <1>8, <1>9
<1>14. \A i, j \in 1 .. Len(out') : i < j => Before(out'[i].in, out'[j].in)
  <2> SUFFICES ASSUME NEW i \in 1 .. Len(out'), NEW j \in 1 .. Len(out'), i < j
               PROVE  Before(out'[i].in, out'[j].in)
    OBVIOUS
  <2>1. CASE j <= Len(out)
    BY <1>2, <1>9, <2>1, SMTT(30) DEF OutputInv
  <2>2. CASE i <= Len(out) /\ j > Len(out)
    BY <1>2, <1>9, <1>13, <2>2 DEF InOrder
  <2>3. CASE i > Len(out)
    BY <1>2, <1>9, <1>13, <2>3 DEF InOrder
  <2> QED
    BY <1>2, <1>9, <2>1, <2>2, <2>3
<1>15. InOrder(buf)'
  <2> DEFINE Rest == 1 .. Len(b) - k
  <2>0. \A j \in Rest : j + k \in 1 .. Len(b) /\ j + k > k /\ buf'[j] = b[j + k]
    BY <1>2, <1>10
  <2>1. ASSUME NEW i \in 1 .. Len(buf'), NEW j \in 1 .. Len(buf'), i < j
        PROVE  Before(buf'[i], buf'[j])
    <3>1. i \in Rest /\ j \in Rest /\ i + k < j + k
      BY <1>2, <1>10, <2>1
    <3> QED
      BY <2>0, <3>1 DEF InOrder
  <2>2. ASSUME NEW i \in 1 .. Len(out'), NEW j \in 1 .. Len(buf')
        PROVE  Before(out'[i].in, buf'[j])
    <3>1. buf'[j] = b[j + k] /\ j + k \in 1 .. Len(b) /\ j + k > k
      BY <1>10, <2>0
    <3>2. CASE i <= Len(out)
      <4>1. i \in 1 .. Len(out) /\ out'[i] = out[i]
        BY <1>2, <1>9, <3>2
      <4> QED
        BY <3>1, <4>1 DEF InOrder
    <3>3. CASE i > Len(out)
      <4>1. /\ i - Len(out) \in 1 .. Len(b) /\ i - Len(out) < j + k
            /\ out'[i].in = b[i - Len(out)]
        BY <1>2, <1>13, <3>1, <3>3
      <4> QED
        BY <3>1, <4>1 DEF InOrder
    <3> QED
      BY <1>2, <1>9, <3>2, <3>3
  <2> QED
    BY <2>1, <2>2 DEF InOrder, Before
<1>16. lastDTS' \in Int /\ emitted' \in BOOLEAN /\ dropped' \in Nat /\ gaps' \in Nat
  <2>1. lastDTS' \in Int
    BY <1>1, <1>2, <1>3, TimeAssumption DEF OutputInv, Time
  <2>2. dropped' \in Nat
    <3>1. dropped' = dropped + late + (k - m) /\ dropped \in Nat /\ k - m \in Nat
      BY <1>1, <1>2 DEF OutputInv
    <3> QED
      BY <3>1
  <2>3. emitted' \in BOOLEAN
    BY <1>1 DEF OutputInv
  <2>4. ASSUME NEW S \in SUBSET (1 .. m)
        PROVE  Cardinality(S) \in Nat
    <3>1. IsFiniteSet(1 .. m)
      BY <1>2, FS_Interval
    <3>2. IsFiniteSet(S)
      BY <3>1, FS_Subset
    <3> QED
      BY <3>2, FS_CardinalityType
  <2>5. gaps' \in Nat
    <3> DEFINE G == {j \in 1 .. m : HasPrev(j) /\ CountsAsGap(Prev(d, j), b[j].dts)}
    <3>1. Cardinality(G) \in Nat
      BY <2>4
    <3>2. gaps' = gaps + Cardinality(G)
      BY <1>1
    <3> HIDE DEF G
    <3> QED
      BY <3>1, <3>2 DEF OutputInv
  <2> QED
    BY <2>1, <2>2, <2>3, <2>5
<1>17. emitted' <=> Len(out') > 0
  <2>1. CASE m = 0
    <3>1. emitted' = emitted /\ Len(out') = Len(out)
      BY <1>1, <1>2, <1>9, <2>1 DEF OutputInv
    <3> QED
      BY <3>1 DEF OutputInv
  <2>2. CASE m > 0
    <3>1. emitted'
      BY <1>1, <2>2, Zenon
    <3>2. Len(out') > 0
      BY <1>2, <1>9, <2>2
    <3> QED
      BY <3>1, <3>2
  <2> QED
    BY <1>2, <2>1, <2>2
<1>18. emitted' => lastDTS' = out'[Len(out')].dts
  <2>1. CASE m = 0
    <3>1. lastDTS' = lastDTS /\ emitted' = emitted /\ Len(out') = Len(out)
      BY <1>1, <1>2, <1>9, <2>1 DEF OutputInv
    <3>2. emitted => Len(out) \in 1 .. Len(out) /\ lastDTS = out[Len(out)].dts
      BY <1>2 DEF OutputInv
    <3>3. emitted => out'[Len(out)] = out[Len(out)]
      BY <1>2, <1>9, <2>1, <3>2
    <3> QED
      BY <3>1, <3>2, <3>3, Zenon
  <2>2. CASE m > 0
    <3>1. lastDTS' = d[m] /\ Len(out') = Len(out) + m /\ m \in 1 .. m
      BY <1>1, <1>2, <1>9, <2>2
    <3>2. out'[Len(out) + m] = e[m]
      BY <1>2, <1>9, <2>2
    <3>3. e[m].dts = d[m]
      BY <1>8, <3>1
    <3> QED
      BY <3>1, <3>2, <3>3
  <2> QED
    BY <1>2, <2>1, <2>2
<1>19. ~Nudges(b, k) => \/ UNCHANGED <<lastDTS, emitted>>
                        \/ \E j \in 1 .. k : lastDTS' = b[j].dts
  <2>1. CASE m = 0
    BY <1>1, <2>1 DEF OutputInv
  <2>2. CASE m > 0
    <3>1. lastDTS' = d[m] /\ m \in 1 .. m /\ m \in 1 .. k
      BY <1>1, <1>2, <2>2
    <3>2. Len(out') - Len(out) = m /\ out'[Len(out) + m] = e[m]
      BY <1>2, <1>9, <2>2
    <3>3. e[m].dts = d[m]
      BY <1>8, <3>1
    <3> QED
      BY <1>2, <3>1, <3>2, <3>3 DEF Nudges
  <2> QED
    BY <1>2, <2>1, <2>2
<1> QED
  <2>1. OutputInv'
    <3>1. out' \in Seq(Emission)
      BY <1>9
    <3>2. \A i, j \in 1 .. Len(out') : i < j => Before(out[i].in, out[j].in)'
      BY <1>14 DEF Before
    <3> QED
      BY <1>11, <1>12, <1>16, <1>17, <1>18, <3>1, <3>2 DEF OutputInv
  <2>2. Len(buf') + Len(out') + dropped' = Len(b) + Len(out) + dropped + late
    <3>1. dropped' = dropped + late + (k - m)
      BY <1>1
    <3> QED
      BY <1>2, <1>9, <1>10, <3>1 DEF OutputInv
  <2>3. \A i \in 1 .. Len(out') : \/ i <= Len(out) /\ out'[i] = out[i]
                                  \/ \E j \in 1 .. k : out'[i].in = b[j]
    BY <1>2, <1>13
  <2> QED
    BY <1>10, <1>15, <1>19, <2>1, <2>2, <2>3

-----------------------------------------------------------------------------
(* Inserting a packet that is not too late.                                *)

LEMMA InsertKeepsOrder ==
    ASSUME IInv, NEW dts \in Time, NEW pts \in Int, ~TooLate(dts),
           NEW i \in 1 .. Len(buf) + 1, IsSearchResult(buf, dts, i)
    PROVE  LET p == [id |-> arrived + 1, dts |-> dts, pts |-> pts]
               b == InsertBefore(buf, i, p)
           IN  /\ b \in Seq(Packet) /\ Len(b) = Len(buf) + 1
               /\ InOrder(b)
               /\ \A j \in 1 .. Len(b) : \/ b[j] = p
                                         \/ \E n \in 1 .. Len(buf) : b[j] = buf[n]
<1> DEFINE p == [id |-> arrived + 1, dts |-> dts, pts |-> pts]
           b == InsertBefore(buf, i, p)
<1>1. /\ buf \in Seq(Packet) /\ Len(buf) \in Nat /\ arrived \in Nat
      /\ \A j \in 1 .. Len(buf) : buf[j] \in Packet
  BY DEF IInv, ArrivalInv
<1>2. p \in Packet /\ p.dts = dts /\ p.id = arrived + 1
  BY <1>1 DEF Packet
<1>3. /\ b \in Seq(Packet) /\ Len(b) = Len(buf) + 1
      /\ \A j \in 1 .. Len(b) : b[j] = IF j < i THEN buf[j]
                                       ELSE IF j = i THEN p ELSE buf[j - 1]
  <2> DEFINE s1 == SubSeq(buf, 1, i - 1)
             s3 == SubSeq(buf, i, Len(buf))
  <2> HIDE DEF p
  <2>1. /\ s1 \in Seq(Packet) /\ Len(s1) = i - 1
        /\ \A j \in 1 .. i - 1 : s1[j] = buf[j]
    BY <1>1, SubSeqProperties
  <2>2. /\ s3 \in Seq(Packet) /\ Len(s3) = Len(buf) - i + 1
        /\ \A j \in 1 .. Len(buf) - i + 1 : s3[j] = buf[i + j - 1]
    BY <1>1, SubSeqProperties
  <2>3. <<p>> \in Seq(Packet) /\ Len(<<p>>) = 1 /\ <<p>>[1] = p
    BY <1>2
  <2>4. b = (s1 \o <<p>>) \o s3
    BY DEF InsertBefore
  <2> HIDE DEF s1, s3, b
  <2>5. /\ s1 \o <<p>> \in Seq(Packet) /\ Len(s1 \o <<p>>) = i
        /\ \A j \in 1 .. i : (s1 \o <<p>>)[j] = IF j <= i - 1 THEN s1[j] ELSE <<p>>[j - (i - 1)]
    BY <1>1, <2>1, <2>3, ConcatProperties
  <2>6. /\ b \in Seq(Packet) /\ Len(b) = Len(buf) + 1
        /\ \A j \in 1 .. Len(buf) + 1 :
              b[j] = IF j <= i THEN (s1 \o <<p>>)[j] ELSE s3[j - i]
    <3> DEFINE s12 == s1 \o <<p>>
    <3>1. s12 \in Seq(Packet) /\ Len(s12) = i /\ b = s12 \o s3
      BY <2>4, <2>5
    <3> HIDE DEF s12
    <3>2. /\ b \in Seq(Packet) /\ Len(b) = Len(s12) + Len(s3)
          /\ \A j \in 1 .. Len(s12) + Len(s3) :
                b[j] = IF j <= Len(s12) THEN s12[j] ELSE s3[j - Len(s12)]
      BY <2>2, <3>1, ConcatProperties
    <3>3. Len(s12) + Len(s3) = Len(buf) + 1
      BY <1>1, <2>2, <3>1
    <3> QED
      BY <3>1, <3>2, <3>3 DEF s12
  <2>7. ASSUME NEW j \in 1 .. Len(b)
        PROVE  b[j] = IF j < i THEN buf[j] ELSE IF j = i THEN p ELSE buf[j - 1]
    <3>1. CASE j < i
      BY <1>1, <2>1, <2>5, <2>6, <3>1
    <3>2. CASE j = i
      BY <1>1, <2>3, <2>5, <2>6, <3>2
    <3>3. CASE j > i
      BY <1>1, <2>2, <2>6, <3>3
    <3> QED
      BY <1>1, <2>6, <3>1, <3>2, <3>3
  <2> QED
    BY <2>6, <2>7
<1> HIDE DEF p, b
<1>4. \A j \in 1 .. Len(buf) : j < i => Before(buf[j], p)
  BY <1>1, <1>2, SMTT(30) DEF IsSearchResult, Before, IInv, ArrivalInv, Packet, Time
<1>5. \A j \in 1 .. Len(buf) : j >= i => Before(p, buf[j])
  <2> SUFFICES ASSUME NEW j \in 1 .. Len(buf), j >= i PROVE Before(p, buf[j])
    OBVIOUS
  <2>1. i \in 1 .. Len(buf) /\ buf[i].dts > dts
    BY <1>1 DEF IsSearchResult
  <2>2. buf[i].dts <= buf[j].dts
    <3>1. buf[i].dts \in Int /\ buf[j].dts \in Int
      BY <1>1, <2>1, TimeAssumption, SMTT(30) DEF Packet, Time
    <3>2. CASE i = j
      BY <3>1, <3>2
    <3>3. CASE i < j
      BY <2>1, <3>1, <3>3 DEF IInv, InOrder, Before
    <3> QED
      BY <1>1, <3>2, <3>3
  <2>3. buf[i].dts \in Int /\ buf[j].dts \in Int /\ dts \in Int
    BY <1>1, <2>1, TimeAssumption, SMTT(30) DEF Packet, Time
  <2> QED
    BY <1>2, <2>1, <2>2, <2>3 DEF Before
<1>6. \A n \in 1 .. Len(out) : Before(out[n].in, p)
  <2> TAKE n \in 1 .. Len(out)
  <2>1. /\ out \in Seq(Emission) /\ Len(out) \in Nat /\ emitted
        /\ lastDTS = out[Len(out)].dts
    BY DEF IInv, OutputInv
  <2>2. out[n] \in Emission /\ out[Len(out)] \in Emission
    BY <2>1
  <2>3. /\ out[n].dts \in Int /\ out[n].in.dts \in Int /\ out[n].in.id \in Nat
        /\ lastDTS \in Int /\ dts \in Int
    <3>1. out[n].dts \in Int /\ lastDTS \in Int /\ dts \in Int
      BY <2>1, <2>2, TimeAssumption DEF Emission, Time
    <3>2. out[n].in \in Packet
      BY <2>2 DEF Emission
    <3> QED
      BY <3>1, <3>2, TimeAssumption DEF Packet, Time
  <2>4. out[n].dts <= lastDTS
    <3>1. CASE n = Len(out)
      BY <2>1, <2>3, <3>1
    <3>2. CASE n < Len(out)
      BY <2>1, <2>3, <3>2 DEF IInv, OutputInv, StrictlyIncreasing
    <3> QED
      BY <2>1, <3>1, <3>2
  <2>5. out[n].in.dts <= out[n].dts
    BY <2>1 DEF IInv, OutputInv, PresentationDelayKept
  <2>6. out[n].in.dts <= dts
    BY <2>1, <2>3, <2>4, <2>5 DEF TooLate
  <2>7. out[n].in.id < arrived + 1
    BY <1>1, <2>3 DEF IInv, ArrivalInv
  <2> QED
    BY <1>2, <2>3, <2>6, <2>7 DEF Before
<1>7. \A j, n \in 1 .. Len(b) : j < n => Before(b[j], b[n])
  <2> SUFFICES ASSUME NEW j \in 1 .. Len(b), NEW n \in 1 .. Len(b), j < n
               PROVE  Before(b[j], b[n])
    OBVIOUS
  <2>1. \A x, y \in 1 .. Len(buf) : x < y => Before(buf[x], buf[y])
    BY DEF IInv, InOrder
  <2>2. CASE n < i
    BY <1>1, <1>3, <2>1, <2>2
  <2>3. CASE n = i
    <3>1. b[n] = p /\ b[j] = buf[j] /\ j \in 1 .. Len(buf) /\ j < i
      BY <1>1, <1>3, <2>3
    <3> QED
      BY <1>4, <3>1
  <2>4. CASE n > i /\ j < i
    <3>1. b[j] = buf[j] /\ b[n] = buf[n - 1] /\ j < n - 1
          /\ j \in 1 .. Len(buf) /\ n - 1 \in 1 .. Len(buf)
      BY <1>1, <1>3, <2>4
    <3> QED
      BY <2>1, <3>1
  <2>5. CASE n > i /\ j = i
    <3>1. b[j] = p /\ b[n] = buf[n - 1] /\ n - 1 >= i /\ n - 1 \in 1 .. Len(buf)
      BY <1>1, <1>3, <2>5
    <3> QED
      BY <1>5, <3>1
  <2>6. CASE n > i /\ j > i
    <3>1. b[j] = buf[j - 1] /\ b[n] = buf[n - 1] /\ j - 1 < n - 1
          /\ j - 1 \in 1 .. Len(buf) /\ n - 1 \in 1 .. Len(buf)
      BY <1>1, <1>3, <2>6
    <3> QED
      BY <2>1, <3>1
  <2> QED
    BY <1>1, <1>3, <2>2, <2>3, <2>4, <2>5, <2>6
<1>8. \A j \in 1 .. Len(b) : \/ b[j] = p
                             \/ \E n \in 1 .. Len(buf) : b[j] = buf[n]
  <2> TAKE j \in 1 .. Len(b)
  <2>1. CASE j < i
    BY <1>1, <1>3, <2>1
  <2>2. CASE j = i
    BY <1>1, <1>3, <2>2
  <2>3. CASE j > i
    <3>1. b[j] = buf[j - 1] /\ j - 1 \in 1 .. Len(buf)
      BY <1>1, <1>3, <2>3
    <3> QED
      BY <3>1
  <2> QED
    BY <1>1, <1>3, <2>1, <2>2, <2>3
<1>9. \A n \in 1 .. Len(out), j \in 1 .. Len(b) : Before(out[n].in, b[j])
  BY <1>6, <1>8 DEF IInv, InOrder
<1>10. InOrder(b)
  BY <1>7, <1>9 DEF InOrder
<1> QED
  BY <1>3, <1>8, <1>10 DEF p, b

-----------------------------------------------------------------------------
(* The steps.                                                              *)

\* The part of ArrivalInv that holds of a prefix's remainder and its emissions.
LEMMA ArrivalKept ==
    ASSUME IInv, NEW b \in Seq(Packet), InOrder(b), NEW k \in 0 .. Len(b),
           NEW late \in Nat, EmitFirst(b, k, late),
           arrived' \in Nat, newest' \in Time, arrived <= arrived', newest <= newest',
           \A j \in 1 .. Len(b) : b[j].id <= arrived' /\ b[j].dts <= newest'
    PROVE  ArrivalInv'
<1>1. /\ Len(buf') = Len(b) - k
      /\ \A i \in 1 .. Len(buf') : buf'[i] = b[i + k]
      /\ \A i \in 1 .. Len(out') : \/ i <= Len(out) /\ out'[i] = out[i]
                                   \/ \E j \in 1 .. k : out'[i].in = b[j]
  BY EmitFirstKeepsOrder DEF IInv
<1>2. Len(b) \in Nat /\ k \in Nat /\ Len(out) \in Nat /\ arrived \in Nat
  BY DEF IInv, OutputInv, ArrivalInv
<1>3. ASSUME NEW i \in 1 .. Len(buf')
      PROVE  buf'[i].id <= arrived' /\ buf'[i].dts <= newest'
  <2>1. i + k \in 1 .. Len(b)
    BY <1>1, <1>2
  <2> QED
    BY <1>1, <2>1
<1>4. ASSUME NEW i \in 1 .. Len(out')
      PROVE  out'[i].in.id <= arrived'
  <2>1. CASE i <= Len(out) /\ out'[i] = out[i]
    <3>1. i \in 1 .. Len(out)
      BY <1>2, <2>1
    <3>2. out[i] \in Emission /\ out[i].in.id <= arrived
      BY <3>1 DEF IInv, OutputInv, ArrivalInv
    <3>3. out[i].in \in Packet
      BY <3>2 DEF Emission
    <3>4. out[i].in.id \in Nat
      BY <3>3 DEF Packet
    <3> QED
      BY <1>2, <2>1, <3>2, <3>4
  <2>2. CASE \E j \in 1 .. k : out'[i].in = b[j]
    BY <1>2, <2>2
  <2> QED
    BY <1>1, <2>1, <2>2
<1> QED
  BY <1>3, <1>4 DEF ArrivalInv

\* flushReady applied to an ordered buffer re-establishes all but the history of losses.
LEMMA FlushReadyKeeps ==
    ASSUME IInv, NEW b \in Seq(Packet), InOrder(b), NEW late \in Nat, FlushReady(b, late),
           arrived' \in Nat, newest' \in Time, arrived <= arrived', newest <= newest',
           \A j \in 1 .. Len(b) : b[j].id <= arrived' /\ b[j].dts <= newest',
           arrived' = Len(b) + Len(out) + dropped + late
    PROVE  /\ buf' \in Seq(Packet) /\ OutputInv' /\ InOrder(buf)' /\ ArrivalInv'
           /\ EveryPacketAccounted' /\ LatencyBounded'
           /\ forced' \in BOOLEAN /\ (forced => forced')
           /\ emitted' /\ ~forced' => lastDTS' + Window <= newest'
<1>1. PICK k \in 0 .. Len(b) :
        /\ IsReadyCount(b, k)
        /\ EmitFirst(b, k, late)
        /\ forced' = (forced \/ Nudges(b, k) \/ \E i \in 1 .. k : Full(b, i))
  BY DEF FlushReady
<1>2. /\ OutputInv' /\ buf' \in Seq(Packet) /\ InOrder(buf)'
      /\ Len(buf') = Len(b) - k
      /\ \A i \in 1 .. Len(buf') : buf'[i] = b[i + k]
      /\ Len(buf') + Len(out') + dropped' = Len(b) + Len(out) + dropped + late
      /\ ~Nudges(b, k) => \/ UNCHANGED <<lastDTS, emitted>>
                          \/ \E j \in 1 .. k : lastDTS' = b[j].dts
  BY <1>1, EmitFirstKeepsOrder DEF IInv
<1>3. ArrivalInv'
  BY <1>1, ArrivalKept
<1>4. EveryPacketAccounted'
  BY <1>2 DEF EveryPacketAccounted
<1>5. /\ Len(b) \in Nat /\ k \in Nat /\ Limit \in Nat /\ Window \in Nat
      /\ \A j \in 1 .. Len(b) : b[j] \in Packet /\ b[j].dts \in Int /\ b[j].dts <= MaxTime
  <2>1. Len(b) \in Nat /\ k \in Nat /\ Limit \in Nat /\ Window \in Nat
    BY ConfigAssumption DEF Limit
  <2>2. ASSUME NEW j \in 1 .. Len(b)
        PROVE  b[j] \in Packet /\ b[j].dts \in Int /\ b[j].dts <= MaxTime
    <3>1. b[j] \in Packet
      BY <2>1
    <3>2. b[j].dts \in Time
      BY <3>1 DEF Packet
    <3> QED
      BY <3>1, <3>2, TimeAssumption DEF Time
  <2> QED
    BY <2>1, <2>2
<1>6. LatencyBounded'
  <2>1. CASE k = Len(b)
    <3>1. Len(buf') = 0
      BY <1>2, <1>5, <2>1
    <3>2. Limit >= 1
      BY ConfigAssumption DEF Limit
    <3> QED
      BY <1>5, <3>1, <3>2 DEF LatencyBounded, Limit
  <2>2. CASE k < Len(b)
    <3>1. Held(b, k + 1)
      BY <1>1, <2>2 DEF IsReadyCount
    <3>2. Len(buf') <= Limit
      BY <1>2, <1>5, <2>2, <3>1 DEF Held, Full
    <3>3. ASSUME Window > 0, NEW i \in 1 .. Len(buf') - 1
          PROVE  buf'[i].dts + Window > buf'[Len(buf')].dts
      <4>1. /\ i + k \in 1 .. Len(b) /\ Len(b) \in 1 .. Len(b) /\ k + 1 \in 1 .. Len(b)
            /\ buf'[i] = b[i + k] /\ buf'[Len(buf')] = b[Len(b)]
        BY <1>2, <1>5, <2>2, SMTT(30)
      <4>2. b[k + 1].dts <= b[i + k].dts
        <5>1. CASE i = 1
          BY <1>5, <4>1, <5>1
        <5>2. CASE i > 1
          <6>1. Before(b[k + 1], b[i + k])
            BY <1>5, <4>1, <5>2 DEF InOrder
          <6> QED
            BY <1>5, <4>1, <6>1 DEF Before
        <5> QED
          BY <5>1, <5>2
      <4>3. k + 1 # Len(b)
        BY <1>2, <1>5, <2>2
      <4>4. b[k + 1].dts + Window > b[Len(b)].dts
        <5>1. /\ b[k + 1].dts \in Int /\ b[Len(b)].dts \in Int
              /\ b[Len(b)].dts <= MaxTime /\ Window \in Nat
          BY <1>5, <4>1
        <5>2. \/ b[k + 1].dts > MaxTime - Window
              \/ b[k + 1].dts + Window > b[Len(b)].dts
          BY <1>5, <3>1, <3>3, <4>3 DEF Held
        <5> QED
          BY <5>1, <5>2, TimeAssumption, SMTT(30)
      <4>5. b[k + 1].dts \in Int /\ b[Len(b)].dts \in Int /\ b[i + k].dts \in Int
            /\ Window \in Int
        BY <1>5, <4>1, SMTT(30)
      <4>6. b[i + k].dts + Window > b[Len(b)].dts
        <5>1. \A x, y, z, w \in Int : x <= y /\ x + w > z => y + w > z
          OBVIOUS
        <5> QED
          BY <4>2, <4>4, <4>5, <5>1, Zenon
      <4> QED
        BY <4>1, <4>6
    <3> QED
      BY <3>2, <3>3 DEF LatencyBounded, Limit
  <2> QED
    BY <1>5, <2>1, <2>2
<1>7. forced' \in BOOLEAN /\ (forced => forced')
  BY <1>1 DEF IInv, WatermarkInv
<1>8. ASSUME emitted', ~forced'
      PROVE  lastDTS' + Window <= newest'
  <2>1. /\ ~forced /\ ~Nudges(b, k)
        /\ \A i \in 1 .. k : ~Full(b, i)
    BY <1>1, <1>8
  <2>2. newest \in Int /\ newest' \in Int /\ lastDTS \in Int
    BY TimeAssumption DEF IInv, ArrivalInv, OutputInv, Time
  <2>3. CASE UNCHANGED <<lastDTS, emitted>>
    <3>1. lastDTS + Window <= newest
      BY <1>8, <2>1, <2>3 DEF IInv, WatermarkInv
    <3> QED
      BY <1>5, <2>2, <2>3, <3>1
  <2>4. CASE \E j \in 1 .. k : lastDTS' = b[j].dts
    <3>1. PICK j \in 1 .. k : lastDTS' = b[j].dts
      BY <2>4
    <3>2. j \in 1 .. Len(b) /\ Len(b) \in 1 .. Len(b)
      BY <1>5
    <3>3. ~Held(b, j) /\ ~Full(b, j)
      BY <1>1, <2>1 DEF IsReadyCount
    <3>4. b[j].dts + Window <= b[Len(b)].dts
      BY <1>5, <3>2, <3>3 DEF Held
    <3>5. b[Len(b)].dts <= newest'
      BY <3>2
    <3> QED
      BY <1>5, <2>2, <3>1, <3>2, <3>4, <3>5
  <2> QED
    BY <1>2, <2>1, <2>3, <2>4
<1> QED
  BY <1>2, <1>3, <1>4, <1>6, <1>7, <1>8

LEMMA ArriveFacts ==
    ASSUME IInv, NEW dts \in Time, Arrive(dts)
    PROVE  /\ arrived' \in Nat /\ arrived' = arrived + 1 /\ arrived <= arrived'
           /\ newest' \in Time /\ newest <= newest' /\ dts <= newest'
           /\ \A j \in 1 .. Len(buf) : buf[j].id <= arrived' /\ buf[j].dts <= newest'
<1>1. arrived \in Nat /\ newest \in Time /\ arrived' = arrived + 1
      /\ newest' = IF dts > newest THEN dts ELSE newest
  BY DEF IInv, ArrivalInv, Arrive
<1>2. newest' \in Time /\ newest <= newest' /\ dts <= newest'
  BY <1>1, TimeAssumption DEF Time
<1>3. ASSUME NEW j \in 1 .. Len(buf)
      PROVE  buf[j].id <= arrived' /\ buf[j].dts <= newest'
  <2>1. buf[j] \in Packet /\ buf[j].id <= arrived /\ buf[j].dts <= newest
    BY DEF IInv, ArrivalInv
  <2>2. buf[j].id \in Nat /\ buf[j].dts \in Time
    BY <2>1 DEF Packet
  <2> QED
    BY <1>1, <1>2, <2>1, <2>2, TimeAssumption DEF Time
<1> QED
  BY <1>1, <1>2, <1>3

LEMMA ProcessLateKeeps ==
    ASSUME IInv, NEW dts \in Time, ProcessLate(dts)
    PROVE  IInv'
<1>1. /\ TooLate(dts) /\ Arrive(dts) /\ FlushReady(buf, 1)
      /\ lost' = (lost \/ dts + Window > newest)
  BY DEF ProcessLate
<1>2. /\ arrived' \in Nat /\ arrived' = arrived + 1 /\ arrived <= arrived'
      /\ newest' \in Time /\ newest <= newest'
      /\ \A j \in 1 .. Len(buf) : buf[j].id <= arrived' /\ buf[j].dts <= newest'
  BY <1>1, ArriveFacts
<1>3. arrived' = Len(buf) + Len(out) + dropped + 1
  BY <1>2 DEF IInv, EveryPacketAccounted, OutputInv
<1>4. /\ buf' \in Seq(Packet) /\ OutputInv' /\ InOrder(buf)' /\ ArrivalInv'
      /\ EveryPacketAccounted' /\ LatencyBounded'
      /\ forced' \in BOOLEAN /\ (forced => forced')
      /\ emitted' /\ ~forced' => lastDTS' + Window <= newest'
  BY <1>1, <1>2, <1>3, FlushReadyKeeps DEF IInv
<1>5. lost' \in BOOLEAN
  BY <1>1 DEF IInv, WatermarkInv
<1>6. JitterTolerated'
  <2> SUFFICES ASSUME ~forced' PROVE ~lost'
    BY DEF JitterTolerated
  <2>1. ~forced /\ ~lost /\ emitted
    BY <1>1, <1>4 DEF IInv, WatermarkInv, JitterTolerated, TooLate
  <2>2. lastDTS + Window <= newest /\ dts < lastDTS
    BY <1>1, <2>1 DEF IInv, WatermarkInv, TooLate
  <2>3. lastDTS \in Int /\ newest \in Int /\ dts \in Int /\ Window \in Int
    BY TimeAssumption, ConfigAssumption DEF IInv, OutputInv, ArrivalInv, Time
  <2>4. ~(dts + Window > newest)
    BY <2>2, <2>3
  <2> QED
    BY <1>1, <2>1, <2>4
<1> QED
  BY <1>4, <1>5, <1>6 DEF IInv, WatermarkInv

LEMMA ProcessInOrderKeeps ==
    ASSUME IInv, NEW dts \in Time, NEW pts \in Int, ProcessInOrder(dts, pts)
    PROVE  IInv'
<1> DEFINE p == [id |-> arrived + 1, dts |-> dts, pts |-> pts]
<1>1. PICK i \in 1 .. Len(buf) + 1 :
        IsSearchResult(buf, dts, i) /\ FlushReady(InsertBefore(buf, i, p), 0)
  BY DEF ProcessInOrder
<1>2. ~TooLate(dts) /\ Arrive(dts) /\ lost' = lost
  BY DEF ProcessInOrder
<1> DEFINE b == InsertBefore(buf, i, p)
<1>3. /\ b \in Seq(Packet) /\ Len(b) = Len(buf) + 1 /\ InOrder(b)
      /\ \A j \in 1 .. Len(b) : b[j] = p \/ \E n \in 1 .. Len(buf) : b[j] = buf[n]
  BY <1>1, <1>2, InsertKeepsOrder
<1>4. FlushReady(b, 0)
  BY <1>1
<1>5. p.id = arrived + 1 /\ p.dts = dts
  OBVIOUS
<1> HIDE DEF p, b
<1>6. /\ arrived' \in Nat /\ arrived' = arrived + 1 /\ arrived <= arrived'
      /\ newest' \in Time /\ newest <= newest' /\ dts <= newest'
      /\ \A j \in 1 .. Len(buf) : buf[j].id <= arrived' /\ buf[j].dts <= newest'
  BY <1>2, ArriveFacts
<1>7. \A j \in 1 .. Len(b) : b[j].id <= arrived' /\ b[j].dts <= newest'
  BY <1>3, <1>5, <1>6
<1>8. arrived' = Len(b) + Len(out) + dropped + 0
  BY <1>3, <1>6 DEF IInv, EveryPacketAccounted, OutputInv
<1>9. /\ buf' \in Seq(Packet) /\ OutputInv' /\ InOrder(buf)' /\ ArrivalInv'
      /\ EveryPacketAccounted' /\ LatencyBounded'
      /\ forced' \in BOOLEAN /\ (forced => forced')
      /\ emitted' /\ ~forced' => lastDTS' + Window <= newest'
  BY <1>3, <1>4, <1>6, <1>7, <1>8, FlushReadyKeeps
<1>10. lost' \in BOOLEAN /\ JitterTolerated'
  BY <1>2, <1>9 DEF IInv, WatermarkInv, JitterTolerated
<1> QED
  BY <1>9, <1>10 DEF IInv, WatermarkInv

LEMMA FlushKeeps ==
    ASSUME IInv, Flush
    PROVE  IInv'
<1>1. /\ EmitFirst(buf, Len(buf), 0)
      /\ forced' = (forced \/ buf # <<>>)
      /\ arrived' = arrived /\ newest' = newest /\ lost' = lost
  BY DEF Flush
<1>2. /\ buf \in Seq(Packet) /\ Len(buf) \in Nat /\ Len(buf) \in 0 .. Len(buf)
      /\ arrived \in Nat /\ newest \in Time /\ newest \in Int /\ lastDTS \in Int
  BY TimeAssumption DEF IInv, ArrivalInv, OutputInv, Time
<1>3. /\ OutputInv' /\ buf' \in Seq(Packet) /\ InOrder(buf)'
      /\ Len(buf') = Len(buf) - Len(buf)
      /\ Len(buf') + Len(out') + dropped' = Len(buf) + Len(out) + dropped + 0
      /\ ~Nudges(buf, Len(buf)) => \/ UNCHANGED <<lastDTS, emitted>>
                                   \/ \E j \in 1 .. Len(buf) : lastDTS' = buf[j].dts
  BY <1>1, <1>2, EmitFirstKeepsOrder DEF IInv
<1>4. ArrivalInv'
  <2>1. \A j \in 1 .. Len(buf) : buf[j].id <= arrived' /\ buf[j].dts <= newest'
    BY <1>1 DEF IInv, ArrivalInv
  <2>2. arrived' \in Nat /\ newest' \in Time /\ arrived <= arrived' /\ newest <= newest'
    BY <1>1, <1>2
  <2> QED
    BY <1>1, <1>2, <2>1, <2>2, ArrivalKept DEF IInv
<1>5. EveryPacketAccounted'
  BY <1>1, <1>2, <1>3 DEF IInv, EveryPacketAccounted, OutputInv
<1>6. LatencyBounded'
  <2>1. Len(buf') = 0 /\ Limit >= 1
    BY <1>2, <1>3, ConfigAssumption DEF Limit
  <2> QED
    BY <2>1, ConfigAssumption DEF LatencyBounded, Limit
<1>7. /\ forced' \in BOOLEAN /\ lost' \in BOOLEAN /\ JitterTolerated'
  BY <1>1 DEF IInv, WatermarkInv, JitterTolerated
<1>8. ASSUME emitted', ~forced'
      PROVE  lastDTS' + Window <= newest'
  <2>1. ~forced /\ buf = <<>>
    BY <1>1, <1>8
  <2>2. EmitFirst(<<>>, 0, 0)
    BY <1>1, <2>1
  <2>3. PICK m \in 0 .. 0 : \E d \in [1 .. m -> Time] :
           /\ lastDTS' = IF m = 0 THEN lastDTS ELSE d[m]
           /\ emitted' = (emitted \/ m > 0)
    BY <2>2 DEF EmitFirst
  <2>4. m = 0
    OBVIOUS
  <2>5. lastDTS' = lastDTS /\ emitted' = (emitted \/ m > 0)
    BY <2>3, <2>4
  <2>6. ~(m > 0)
    BY <2>4
  <2>7. emitted
    BY <1>8, <2>5, <2>6, Zenon
  <2> QED
    BY <1>1, <2>1, <2>5, <2>7 DEF IInv, WatermarkInv
<1> QED
  BY <1>3, <1>4, <1>5, <1>6, <1>7, <1>8 DEF IInv, WatermarkInv

LEMMA FreshState ==
    ASSUME buf = <<>>, out = <<>>, lastDTS = 0, emitted = FALSE,
           dropped = 0, gaps = 0, arrived = 0, newest = MinTime,
           forced = FALSE, lost = FALSE
    PROVE  IInv
<1>1. OutputInv
  <2>1. out \in Seq(Emission) /\ Len(out) = 0 /\ ~emitted
    <3>1. out = <<>> /\ ~emitted
      OBVIOUS
    <3> QED
      BY <3>1
  <2>2. lastDTS \in Int /\ emitted \in BOOLEAN /\ dropped \in Nat /\ gaps \in Nat
    <3>1. emitted \in BOOLEAN
      BY Zenon
    <3>2. lastDTS \in Int /\ dropped \in Nat /\ gaps \in Nat
      OBVIOUS
    <3> QED
      BY <3>1, <3>2
  <2>3. StrictlyIncreasing /\ PresentationDelayKept
    BY <2>1 DEF StrictlyIncreasing, PresentationDelayKept
  <2>4. ~(Len(out) > 0)
    BY <2>1
  <2>5. \A i, j \in 1 .. Len(out) : i < j => Before(out[i].in, out[j].in)
    BY <2>1
  <2> QED
    BY <2>1, <2>2, <2>3, <2>4, <2>5 DEF OutputInv
<1>2. InOrder(buf) /\ ArrivalInv
  BY TimeAssumption DEF InOrder, ArrivalInv, Time
<1>3. EveryPacketAccounted /\ LatencyBounded /\ WatermarkInv
  <2>1. EveryPacketAccounted
    BY DEF EveryPacketAccounted
  <2>2. LatencyBounded
    <3>1. Len(buf) = 0 /\ Limit >= 1
      BY ConfigAssumption DEF Limit
    <3> QED
      BY <3>1, ConfigAssumption DEF LatencyBounded, Limit
  <2>3. WatermarkInv
    BY DEF WatermarkInv, JitterTolerated
  <2> QED
    BY <2>1, <2>2, <2>3
<1> QED
  BY <1>1, <1>2, <1>3 DEF IInv

\* The same, of the state after a Reset.
LEMMA ResetKeeps ==
    ASSUME Reset
    PROVE  IInv'
<1>1. /\ buf' = <<>> /\ out' = <<>> /\ lastDTS' = 0 /\ emitted' = FALSE
      /\ dropped' = 0 /\ gaps' = 0 /\ arrived' = 0 /\ newest' = MinTime
      /\ forced' = FALSE /\ lost' = FALSE
  BY DEF Reset
<1>2. OutputInv'
  <2>1. out' \in Seq(Emission) /\ Len(out') = 0 /\ ~emitted'
    <3>1. out' = <<>> /\ ~emitted'
      BY <1>1
    <3> QED
      BY <3>1
  <2>2. lastDTS' \in Int /\ emitted' \in BOOLEAN /\ dropped' \in Nat /\ gaps' \in Nat
    <3>1. emitted' \in BOOLEAN
      BY <1>1, Zenon
    <3>2. lastDTS' \in Int /\ dropped' \in Nat /\ gaps' \in Nat
      BY <1>1
    <3> QED
      BY <3>1, <3>2
  <2>3. StrictlyIncreasing' /\ PresentationDelayKept'
    BY <2>1 DEF StrictlyIncreasing, PresentationDelayKept
  <2>4. ~(Len(out') > 0)
    BY <2>1
  <2>5. \A i, j \in 1 .. Len(out') : i < j => Before(out[i].in, out[j].in)'
    BY <2>1
  <2> QED
    BY <2>1, <2>2, <2>3, <2>4, <2>5 DEF OutputInv
<1>3. InOrder(buf)' /\ ArrivalInv'
  BY <1>1, TimeAssumption DEF InOrder, ArrivalInv, Time
<1>4. EveryPacketAccounted' /\ LatencyBounded' /\ WatermarkInv'
  <2>1. EveryPacketAccounted'
    BY <1>1 DEF EveryPacketAccounted
  <2>2. LatencyBounded'
    <3>1. Len(buf') = 0 /\ Limit >= 1
      BY <1>1, ConfigAssumption DEF Limit
    <3> QED
      BY <3>1, ConfigAssumption DEF LatencyBounded, Limit
  <2>3. WatermarkInv'
    BY <1>1 DEF WatermarkInv, JitterTolerated
  <2> QED
    BY <2>1, <2>2, <2>3
<1> QED
  BY <1>1, <1>2, <1>3, <1>4 DEF IInv

-----------------------------------------------------------------------------
(* The theorems.                                                           *)

\* IInv holds in every reachable state of the Enforcer.
THEOREM Invariance == Spec => []IInv
<1>1. Init => IInv
  BY FreshState DEF Init
<1>2. IInv /\ [Next]_vars => IInv'
  <2> SUFFICES ASSUME IInv, [Next]_vars PROVE IInv'
    OBVIOUS
  <2>1. CASE Process
    <3>1. PICK dts \in Time, offset \in Offsets :
             ProcessLate(dts) \/ ProcessInOrder(dts, dts + offset)
      BY <2>1 DEF Process
    <3>2. dts + offset \in Int
      BY TimeAssumption, ArrivalsAssumption DEF Time
    <3> QED
      BY <3>1, <3>2, ProcessLateKeeps, ProcessInOrderKeeps
  <2>2. CASE Flush
    BY <2>2, FlushKeeps
  <2>3. CASE Reset
    BY <2>3, ResetKeeps
  <2>4. CASE UNCHANGED vars
    BY <2>4 DEF vars, IInv, OutputInv, InOrder, ArrivalInv, WatermarkInv, Before,
                StrictlyIncreasing, PresentationDelayKept, EveryPacketAccounted,
                LatencyBounded, JitterTolerated
  <2> QED
    BY <2>1, <2>2, <2>3, <2>4 DEF Next
<1> QED
  BY <1>1, <1>2, PTL DEF Spec

\* The state stays within its types (the fields of enforcer.go:15-21).
THEOREM TypeCorrect == Spec => []TypeOK
<1>1. IInv => TypeOK
  BY DEF IInv, OutputInv, ArrivalInv, WatermarkInv, TypeOK
<1> QED
  BY <1>1, Invariance, PTL

\* What the Enforcer emits is strictly increasing in DTS, for every window, step,
\* buffer limit and clock, and whatever arrives (enforcer.go:11, 141-166).
THEOREM Monotone == Spec => []StrictlyIncreasing
<1>1. IInv => StrictlyIncreasing
  BY DEF IInv, OutputInv
<1> QED
  BY <1>1, Invariance, PTL

\* Emissions keep the order of arrival stamps, ties in the order of arrival
\* (insertOrdered, enforcer.go:55-75).
THEOREM OrderStable == Spec => []StableOrder
<1>1. IInv => StableOrder
  BY DEF IInv, OutputInv, InOrder, StableOrder
<1> QED
  BY <1>1, Invariance, PTL

\* No packet is leaked, emitted twice or released uncounted (enforcer.go:42-121).
THEOREM Accounted == Spec => []EveryPacketAccounted
<1>1. IInv => EveryPacketAccounted
  BY DEF IInv
<1> QED
  BY <1>1, Invariance, PTL

\* A nudge keeps the presentation delay (enforcer.go:159-165).
THEOREM DelayKept == Spec => []PresentationDelayKept
<1>1. IInv => PresentationDelayKept
  BY DEF IInv, OutputInv
<1> QED
  BY <1>1, Invariance, PTL

\* The buffer respects its packet limit and its window (flushReady, enforcer.go:82-111).
THEOREM Bounded == Spec => []LatencyBounded
<1>1. IInv => LatencyBounded
  BY DEF IInv
<1> QED
  BY <1>1, Invariance, PTL

\* Jitter within the window loses nothing unless the watermark was pushed
\* (insertOrdered's late drop, enforcer.go:63, against flushReady's hold, 98).
THEOREM JitterRepaired == Spec => []JitterTolerated
<1>1. IInv => JitterTolerated
  BY DEF IInv, WatermarkInv
<1> QED
  BY <1>1, Invariance, PTL

=============================================================================
