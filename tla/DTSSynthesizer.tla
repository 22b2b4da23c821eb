---------------------------- MODULE DTSSynthesizer ----------------------------
(***************************************************************************)
(* Decode times for pictures that come in decode order with presentation   *)
(* times: internal/preprocessor/dtssynth.go.  The decode times are the     *)
(* presentation times in ascending order, delayed by as many pictures as   *)
(* the stream reorders.                                                    *)
(*                                                                         *)
(* A packet is [id, dts, pts, size], of which dts is set here.             *)
(***************************************************************************)
EXTENDS Integers, SequencesExt, FiniteSetsExt

CONSTANTS
    MinStep,         \* Config.MinMonotonicStep
    HoldWindow,      \* dtsProbeWindow
    MinDistinct,     \* dtsProbeMinDistinct
    MaxExtend,       \* dtsProbeMaxExtend
    MaxDepth,        \* dtsMaxReorderDepth
    DecayWindow      \* dtsDepthDecayWindow

NewDTS ==
    [probing |-> TRUE, held |-> <<>>, depth |-> 0, distinct |-> 0, dupMax |-> 0, delay |-> 0,
     pending |-> <<>>, recent |-> <<>>, decayMax |-> 0, decayCount |-> 0, lastDTS |-> 0, emitted |-> <<>>]

CountTimes(times, Test(_)) == Cardinality({n \in DOMAIN times : Test(times[n])})
Ascending(times) == SortSeq(times, LAMBDA x, y : x < y)
PtsOf(packets) == [n \in DOMAIN packets |-> packets[n].pts]

-----------------------------------------------------------------------------
(***************************************************************************)
(* ptsMinHeap: a binary heap in an array, the smallest time in front.      *)
(***************************************************************************)
Swap(h, i, j) == [h EXCEPT ![i] = h[j], ![j] = h[i]]

PushHeap(heap, v) ==
    LET RECURSIVE Up(_, _)
        Up(h, i) == IF i = 1 \/ h[i \div 2] <= h[i] THEN h ELSE Up(Swap(h, i \div 2, i), i \div 2)
    IN  Up(Append(heap, v), Len(heap) + 1)

\* What is left without the smallest.
PopHeap(heap) ==
    LET last == Len(heap) - 1
        RECURSIVE Down(_, _)
        Down(h, i) ==
            LET children == {c \in {2 * i, 2 * i + 1} : c <= last}
                smallest == {c \in children : h[c] < h[i] /\ \A d \in children : h[c] < h[d] \/ (h[c] = h[d] /\ c <= d)}
            IN  IF smallest = {} THEN h ELSE LET c == CHOOSE c \in smallest : TRUE IN Down(Swap(h, i, c), c)
    IN  IF last = 0 THEN <<>> ELSE Down(<<heap[last + 1]>> \o SubSeq(heap, 2, last), 1)

-----------------------------------------------------------------------------
\* The median of the gaps between presentation times.
TypicalFrameDelta(sorted) ==
    LET gaps == SelectSeq([n \in 1 .. Len(sorted) - 1 |-> sorted[n + 1] - sorted[n]], LAMBDA d : d > 0)
    IN  IF gaps = <<>> THEN 0 ELSE Ascending(gaps)[Len(gaps) \div 2 + 1]

\* With reordering decode times never stand still; without it they are what the source said.
EmitWithDTS(s, p, candidate) ==
    LET dts == IF s.delay > 0 /\ s.emitted # <<>> /\ candidate <= s.lastDTS THEN s.lastDTS + MinStep ELSE candidate
    IN  [s EXCEPT !.emitted = Append(@, [p EXCEPT !.dts = dts]), !.lastDTS = dts]

\* pushRecent, the ring of the last presentation times.
PushRecent(s, pts) ==
    LET recent == Append(s.recent, pts) IN [s EXCEPT !.recent = IF Len(recent) > MaxDepth THEN Tail(recent) ELSE recent]

FinishHold_OneAhead(s, delay) ==
    LET sorted == Ascending(PtsOf(s.held))
        delta == TypicalFrameDelta(sorted)
        Candidate(k) == IF k < delay THEN Max({sorted[1] - (delay - k) * delta, 0}) ELSE sorted[Min({k - delay + 1, Len(sorted)})]
        RECURSIVE Go(_, _)
        Go(x, k) == IF k > Len(s.held) THEN x
                    ELSE Go(EmitWithDTS(PushRecent(x, s.held[k].pts), s.held[k], Candidate(k)), k + 1)
        y == Go([s EXCEPT !.probing = FALSE, !.delay = delay], 1)
    IN  [y EXCEPT !.pending = SubSeq(sorted, Len(sorted) - delay + 1, Len(sorted)), !.held = <<>>]

\* The held packets leave, the first of them with times before the earliest presentation.
FinishHold(s, delay) ==
    LET sorted == Ascending(PtsOf(s.held))
        delta == TypicalFrameDelta(sorted)
        Candidate(k) == IF k <= delay THEN Max({sorted[1] - (delay - k + 1) * delta, 0}) ELSE sorted[k - delay]
        RECURSIVE Go(_, _)
        Go(x, k) == IF k > Len(s.held) THEN x
                    ELSE Go(EmitWithDTS(PushRecent(x, s.held[k].pts), s.held[k], Candidate(k)), k + 1)
        y == Go([s EXCEPT !.probing = FALSE, !.delay = delay], 1)
    IN  [y EXCEPT !.pending = SubSeq(sorted, Len(sorted) - delay + 1, Len(sorted)), !.held = <<>>]

\* probe: how far the packets held are reordered, and when that is known.
Hold(s, p) ==
    LET times == PtsOf(s.held)
        larger == CountTimes(times, LAMBDA t : t > p.pts)
        equal == CountTimes(times, LAMBDA t : t = p.pts)
        x == [s EXCEPT !.depth = Max({@, larger}), !.distinct = IF equal = 0 THEN @ + 1 ELSE @,
                       !.dupMax = Max({@, equal + 1}), !.held = Append(@, p)]
    IN  IF Len(x.held) < HoldWindow THEN x
        ELSE IF x.depth > 0 THEN FinishHold(x, Min({Max({x.depth + 1, x.dupMax}), MaxDepth}))
        ELSE IF x.distinct >= MinDistinct \/ Len(x.held) >= MaxExtend THEN FinishHold(x, 0)
        ELSE x

\* updateDepthDecay: a delay that nothing needed for a while shrinks.
DepthDecay(s, n) ==
    LET deepest == Max({s.decayMax, n})
    IN  IF s.decayCount + 1 < DecayWindow THEN [s EXCEPT !.decayMax = deepest, !.decayCount = @ + 1]
        ELSE [s EXCEPT !.decayMax = 0, !.decayCount = 0, !.delay = IF @ > deepest + 1 THEN @ - 1 ELSE @]

Steady(s, p) ==
    LET n == CountTimes(s.recent, LAMBDA t : t > p.pts)
        grown == IF n > s.delay THEN [s EXCEPT !.delay = Min({n, MaxDepth})] ELSE s
        x == PushRecent(DepthDecay(grown, n), p.pts)
        pending == PushHeap(x.pending, p.pts)
        RECURSIVE Consumed(_, _)
        Consumed(heap, top) == IF Len(heap) > x.delay THEN Consumed(PopHeap(heap), heap[1]) ELSE [heap |-> heap, top |-> top]
        left == Consumed(pending, x.lastDTS + MinStep)
    IN  EmitWithDTS([x EXCEPT !.pending = left.heap], p, left.top)

ProcessTimes(s, p) == IF s.probing THEN Hold(s, p) ELSE Steady(s, p)

\* Flush: all is known now, and no margin is needed.
FlushTimes(s) ==
    IF ~s.probing THEN s
    ELSE IF s.held = <<>> THEN [s EXCEPT !.probing = FALSE]
    ELSE FinishHold(s, Min({IF s.depth > 0 THEN Max({s.depth, s.dupMax}) ELSE 0, MaxDepth}))
=============================================================================
