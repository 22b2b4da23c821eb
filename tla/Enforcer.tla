------------------------------ MODULE Enforcer ------------------------------
(***************************************************************************)
(* The per-stream jitter buffer of internal/preprocessor/enforcer.go.      *)
(*                                                                         *)
(* Packets arrive in any DTS order.  The Enforcer keeps them sorted,       *)
(* releases the ones that can no longer be overtaken, and nudges a stamp   *)
(* that does not advance, so that what it emits is strictly increasing.    *)
(*                                                                         *)
(* One action per exported method, each of them the whole method: Process  *)
(* inserts and then always runs flushReady, Flush empties the buffer,      *)
(* Reset forgets everything.  The loop of flushReady and the stamps of     *)
(* emitOne are stated by what they compute (how many packets leave, and a  *)
(* chain of stamps) rather than step by step.                              *)
(*                                                                         *)
(* MaxTime stands for math.MaxInt64: stamps saturate there, as the code's  *)
(* overflow guards make them.                                              *)
(***************************************************************************)
EXTENDS Integers, Sequences, FiniteSets

CONSTANTS
    MinTime, MaxTime,      \* the range of a time.Duration
    MaxBufferSize,         \* Config.MaxBufferSize, before NewEnforcer's clamp
    Window,                \* Config.MaxBufferDuration
    MinMonotonicStep,      \* Config.MinMonotonicStep
    MinGap,                \* one millisecond, the least gap that is counted
    GapThreshold,          \* Config.InterpolationGapThreshold
    Offsets,               \* PTS - DTS of the packets that may arrive
    MaxPackets             \* bound: packets processed since the last Reset

Time == MinTime .. MaxTime

ASSUME TimeAssumption     == MinTime \in Int /\ MaxTime \in Int /\ MinTime < MaxTime
ASSUME ConfigAssumption   == /\ MaxBufferSize \in Nat
                             /\ Window \in Nat
                             /\ MinMonotonicStep \in Nat
                             /\ MinGap \in Nat /\ GapThreshold \in Nat
ASSUME ArrivalsAssumption == Offsets \subseteq Int /\ MaxPackets \in Nat

\* A packet is its arrival number and the two stamps it arrived with.
Packet == [id : Nat, dts : Time, pts : Int]

\* What the Enforcer hands to emit: the packet that arrived, and its stamps now.
Emission == [in : Packet, dts : Time, pts : Int]

VARIABLES
    buf,        \* e.buf: packets held, oldest first
    lastDTS,    \* e.lastDTS
    emitted,    \* e.emitted
    dropped,    \* e.metrics.DroppedOutOfOrder: packets released, not emitted
    gaps,       \* e.metrics.DetectedGaps
    arrived,    \* history: packets processed
    out,        \* history: every call of emit, in order
    newest,     \* history: the largest DTS that arrived
    forced,     \* history: a full buffer, a Flush or a nudge moved the watermark
    lost        \* history: a packet less than Window behind newest was released

vars == <<buf, lastDTS, emitted, dropped, gaps, arrived, out, newest, forced, lost>>

-----------------------------------------------------------------------------
(* Configuration as NewEnforcer and emitOne use it.                        *)

Limit == IF MaxBufferSize < 1 THEN 1 ELSE MaxBufferSize
StepSize == IF MinMonotonicStep = 0 THEN 1 ELSE MinMonotonicStep

(* Operators named <definition>_<bug> are mutants: each is the definition  *)
(* that follows it with a plausible bug, and breaks a property of a run.   *)

IsSearchResult_BeforeEqual(b, dts, i) ==
    /\ \A j \in 1 .. i - 1 : b[j].dts < dts
    /\ i <= Len(b) => b[i].dts >= dts

(* insertOrdered: sort.Search finds the first packet stamped after dts, so *)
(* that a packet goes behind every packet with an equal stamp.             *)
IsSearchResult(b, dts, i) ==
    /\ \A j \in 1 .. i - 1 : b[j].dts <= dts
    /\ i <= Len(b) => b[i].dts > dts

InsertBefore(b, i, p) == SubSeq(b, 1, i - 1) \o <<p>> \o SubSeq(b, i, Len(b))

(* flushReady: is the buffer over its limit when packet i is the oldest    *)
(* left, and does the loop stop there?                                     *)
Full(b, i) == Len(b) - i + 1 > Limit
Held_IgnoresWindow(b, i) == ~Full(b, i) /\ i = Len(b)
Held(b, i) ==
    /\ ~Full(b, i)
    /\ \/ i = Len(b)
       \/ Window = 0
       \/ b[i].dts > MaxTime - Window
       \/ b[i].dts + Window > b[Len(b)].dts

(* flushReady emits the first k packets of b.                              *)
IsReadyCount(b, k) ==
    /\ \A i \in 1 .. k : ~Held(b, i)
    /\ k < Len(b) => Held(b, k + 1)

Stamp_AllowsEqual(prev, dts) == IF dts >= prev THEN dts ELSE prev + 1
(* emitOne: the stamp of a packet after an emission stamped prev < MaxTime.*)
Stamp(prev, dts) ==
    IF dts > prev THEN dts
    ELSE IF prev <= MaxTime - StepSize THEN prev + StepSize ELSE MaxTime

Shifted(pts, shift) ==
    IF shift > 0 /\ pts > MaxTime - shift THEN MaxTime ELSE pts + shift

CountsAsGap(prev, dts) ==
    GapThreshold > 0 /\ dts > prev /\ dts - prev \in MinGap .. GapThreshold

-----------------------------------------------------------------------------
(* emitOne applied to the first k packets of b.  The first m of them are   *)
(* emitted with the stamps d; once a stamp is MaxTime the packets behind   *)
(* it are released, for no later stamp exists.                             *)

HasPrev(j) == j > 1 \/ emitted
Prev(d, j) == IF j = 1 THEN lastDTS ELSE d[j - 1]
AtCeiling(d, j) == HasPrev(j) /\ Prev(d, j) = MaxTime

IsStamping(b, k, m, d) ==
    /\ \A j \in 1 .. m :
          /\ ~AtCeiling(d, j)
          /\ d[j] = IF HasPrev(j) THEN Stamp(Prev(d, j), b[j].dts) ELSE b[j].dts
    /\ m < k => AtCeiling(d, m + 1)

Stamped(p, dts) == [in |-> p, dts |-> dts, pts |-> Shifted(p.pts, dts - p.dts)]

\* Emit the first k packets of b, late packets having been released before.
EmitFirst(b, k, late) ==
    \E m \in 0 .. k : \E d \in [1 .. m -> Time] :
        /\ IsStamping(b, k, m, d)
        /\ out' = out \o [j \in 1 .. m |-> Stamped(b[j], d[j])]
        /\ lastDTS' = IF m = 0 THEN lastDTS ELSE d[m]
        /\ emitted' = (emitted \/ m > 0)
        /\ gaps' = gaps + Cardinality({j \in 1 .. m :
                              HasPrev(j) /\ CountsAsGap(Prev(d, j), b[j].dts)})
        /\ dropped' = dropped + late + (k - m)
        /\ buf' = SubSeq(b, k + 1, Len(b))

Nudges(b, k) == \E j \in 1 .. Len(out') - Len(out) : out'[Len(out) + j].dts # b[j].dts

-----------------------------------------------------------------------------
Init ==
    /\ buf = <<>> /\ out = <<>>
    /\ lastDTS = 0 /\ emitted = FALSE
    /\ dropped = 0 /\ gaps = 0 /\ arrived = 0
    /\ newest = MinTime
    /\ forced = FALSE /\ lost = FALSE

Arrive(dts) ==
    /\ arrived < MaxPackets
    /\ arrived' = arrived + 1
    /\ newest' = IF dts > newest THEN dts ELSE newest

FlushReady(b, late) ==
    \E k \in 0 .. Len(b) :
        /\ IsReadyCount(b, k)
        /\ EmitFirst(b, k, late)
        /\ forced' = (forced \/ Nudges(b, k) \/ \E i \in 1 .. k : Full(b, i))

TooLate(dts) == emitted /\ dts < lastDTS

ProcessLate_Uncounted(dts) ==
    /\ TooLate(dts)
    /\ Arrive(dts)
    /\ FlushReady(buf, 0)
    /\ lost' = (lost \/ dts + Window > newest)
\* A packet behind the last one emitted is released; flushReady runs all the same.
ProcessLate(dts) ==
    /\ TooLate(dts)
    /\ Arrive(dts)
    /\ FlushReady(buf, 1)
    /\ lost' = (lost \/ dts + Window > newest)

ProcessInOrder(dts, pts) ==
    /\ ~TooLate(dts)
    /\ Arrive(dts)
    /\ \E i \in 1 .. Len(buf) + 1 :
          /\ IsSearchResult(buf, dts, i)
          /\ FlushReady(InsertBefore(buf, i, [id |-> arrived + 1, dts |-> dts, pts |-> pts]), 0)
    /\ UNCHANGED lost

Process ==
    \E dts \in Time, offset \in Offsets :
        ProcessLate(dts) \/ ProcessInOrder(dts, dts + offset)

Flush ==
    /\ EmitFirst(buf, Len(buf), 0)
    /\ forced' = (forced \/ buf # <<>>)
    /\ UNCHANGED <<arrived, newest, lost>>

Reset ==
    /\ buf' = <<>> /\ lastDTS' = 0 /\ emitted' = FALSE /\ dropped' = 0 /\ gaps' = 0
    /\ out' = <<>> /\ arrived' = 0 /\ newest' = MinTime
    /\ forced' = FALSE /\ lost' = FALSE

Next == Process \/ Flush \/ Reset

Spec == Init /\ [][Next]_vars

-----------------------------------------------------------------------------
(* Properties.                                                             *)

TypeOK ==
    /\ buf \in Seq(Packet)
    /\ out \in Seq(Emission)
    /\ lastDTS \in Int
    /\ emitted \in BOOLEAN
    /\ dropped \in Nat /\ gaps \in Nat /\ arrived \in Nat
    /\ newest \in Time
    /\ forced \in BOOLEAN /\ lost \in BOOLEAN

(* What emit is handed is strictly increasing in DTS, whatever the order,  *)
(* the duplicates and the saturation of what arrived (enforcer.go:11).     *)
StrictlyIncreasing ==
    \A i, j \in 1 .. Len(out) : i < j => out[i].dts < out[j].dts

\* p comes before q in the order the Enforcer promises to keep.
Before(p, q) == p.dts < q.dts \/ (p.dts = q.dts /\ p.id < q.id)

(* Packets leave in the order of the stamps they arrived with, and equal   *)
(* stamps in the order of arrival, across separate calls and the nudges    *)
(* they made: the reversed burst of enforcer.go:55-60 cannot come back.    *)
StableOrder ==
    /\ \A i, j \in 1 .. Len(out) : i < j => Before(out[i].in, out[j].in)
    /\ \A i, j \in 1 .. Len(buf) : i < j => Before(buf[i], buf[j])
    /\ \A i \in 1 .. Len(out), j \in 1 .. Len(buf) : Before(out[i].in, buf[j])

(* Every packet processed is held, was emitted, or is counted as dropped,  *)
(* exactly once: nothing is leaked, emitted twice or released unseen.      *)
EveryPacketAccounted == arrived = Len(buf) + Len(out) + dropped

(* A nudge moves PTS with DTS: the presentation delay of an emitted packet *)
(* is the one it arrived with unless PTS saturated, and never grows        *)
(* (enforcer.go:140-141).                                                  *)
PresentationDelayKept ==
    \A i \in 1 .. Len(out) :
        LET e == out[i] IN
        /\ e.dts >= e.in.dts
        /\ e.pts - e.dts <= e.in.pts - e.in.dts
        /\ e.pts < MaxTime => e.pts - e.dts = e.in.pts - e.in.dts

(* Between calls the buffer is within its packet limit, and with a window  *)
(* configured nothing but the newest packet is held for longer than it.    *)
LatencyBounded ==
    /\ Len(buf) <= Limit
    /\ Window > 0 => \A i \in 1 .. Len(buf) - 1 : buf[i].dts + Window > buf[Len(buf)].dts

(* Jitter inside the window is repaired, not dropped: a packet less than   *)
(* Window behind the newest one is released only after a full buffer, a    *)
(* Flush or a nudge has pushed the watermark forward.                      *)
JitterTolerated == lost => forced

=============================================================================
