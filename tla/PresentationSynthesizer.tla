----------------------- MODULE PresentationSynthesizer -----------------------
(***************************************************************************)
(* Presentation times for pictures that come in decode order with a decode *)
(* clock: internal/preprocessor/ptssynth.go, the stage of WriteVideo in    *)
(* front of the jitter buffer.  The picture with display rank d is given   *)
(* the time at which picture d + D was decoded, D being how far the stream *)
(* reorders.                                                               *)
(*                                                                         *)
(* The display order is told from the headers of H.264 and HEVC access     *)
(* units: internal/core/poc.go, codec_h264_poc.go and codec_hevc_poc.go.   *)
(* A picture carries only the low bits of its picture order count; the     *)
(* rest follows from the pictures before it.                               *)
(*                                                                         *)
(* An access unit is the sequence of its NAL units:                        *)
(*   [type |-> "sps", id, order, maxLsb]      order: the type of POC        *)
(*   [type |-> "pps", id, sps, bottom]                                     *)
(*   [type |-> "slice", kind, pps, ref, lsb, bottom, cut]                  *)
(*   [type |-> "other"]                                                    *)
(* Which bits hold a field is left out; cut says how far the header of a   *)
(* slice can be read.                                                      *)
(*                                                                         *)
(* A packet is [id, dts, pts, size]; a unit of the window has the picture  *)
(* order of its packet next to it.                                         *)
(***************************************************************************)
EXTENDS Integers, SequencesExt, FiniteSetsExt

CONSTANTS
    ProbeWindow,     \* ptsProbeWindow: pictures held at the start
    ProbeMaxHold,    \* ptsProbeMaxHold: units held at most
    MaxReorder,      \* ptsMaxReorder
    RecentEmitted,   \* ptsRecentEmitted
    DeltaWindow,     \* ptsDeltaWindow
    RingLength,      \* len(tRing)
    MaxHeldBytes     \* 64 << 20

-----------------------------------------------------------------------------
(* The picture order count.                                               *)

Before(a, b) == a.epoch < b.epoch \/ (a.epoch = b.epoch /\ a.order < b.order)

NewParser ==
    [sps |-> <<>>, pps |-> <<>>, prevMsb |-> 0, prevLsb |-> 0, epoch |-> 0, decCnt |-> 0, sawFirst |-> FALSE]

Parsed(x, order) == [parser |-> x, poc |-> [epoch |-> x.epoch, order |-> order], ok |-> TRUE]
NoPicture(x) == [parser |-> x, poc |-> [epoch |-> 0, order |-> 0], ok |-> FALSE]

Msb_NoBorrow(x, lsb, maxLsb) ==
    IF lsb < x.prevLsb /\ x.prevLsb - lsb >= maxLsb \div 2 THEN x.prevMsb + maxLsb ELSE x.prevMsb

\* The high bits: those that bring the picture closest to the previous reference.
Msb(x, lsb, maxLsb) ==
    IF lsb < x.prevLsb /\ x.prevLsb - lsb >= maxLsb \div 2 THEN x.prevMsb + maxLsb
    ELSE IF lsb > x.prevLsb /\ lsb - x.prevLsb > maxLsb \div 2 THEN x.prevMsb - maxLsb
    ELSE x.prevMsb

\* The parameter sets that a slice names are known.
Known(x, slice) == slice.pps \in DOMAIN x.pps /\ x.pps[slice.pps].sps \in DOMAIN x.sps
SpsOf(x, slice) == x.sps[x.pps[slice.pps].sps]

-----------------------------------------------------------------------------
H264Slice(x, slice) ==
    LET y == IF slice.kind = "IDR" THEN [x EXCEPT !.prevMsb = 0, !.prevLsb = 0, !.epoch = @ + 1] ELSE x
        sps == SpsOf(x, slice)
        msb == Msb(y, slice.lsb, sps.maxLsb)
        bottom == x.pps[slice.pps].bottom
        order == msb + slice.lsb + (IF bottom /\ slice.bottom < 0 THEN slice.bottom ELSE 0)
    IN  IF slice.cut = "before the order" \/ ~Known(x, slice) THEN NoPicture(x)
        ELSE IF sps.order = 2 THEN Parsed(y, y.decCnt)
        ELSE IF sps.order = 1 \/ slice.cut = "before the lsb" \/ (bottom /\ slice.cut = "before the bottom") THEN NoPicture(y)
        ELSE Parsed(IF slice.ref THEN [y EXCEPT !.prevMsb = msb, !.prevLsb = slice.lsb] ELSE y, order)

Bla == {"BLA"}
Irap == {"IDR", "CRA"} \cup Bla
Leading == {"RADL", "RASL"}

HevcSlice(x, slice) ==
    LET first == ~x.sawFirst
        reset == slice.kind \in Bla \/ (slice.kind \in Irap /\ first)
        seen == [x EXCEPT !.sawFirst = TRUE]
        y == IF reset THEN [seen EXCEPT !.epoch = @ + 1] ELSE seen
        msb == IF reset THEN 0 ELSE Msb(x, slice.lsb, SpsOf(x, slice).maxLsb)
        kept == slice.ref /\ slice.kind \notin Leading
    IN  IF slice.cut = "before the order" \/ ~Known(x, slice) THEN NoPicture(x)
        ELSE IF slice.kind = "IDR" THEN Parsed([seen EXCEPT !.prevMsb = 0, !.prevLsb = 0, !.epoch = @ + 1], 0)
        ELSE IF slice.cut = "before the lsb" THEN NoPicture(seen)
        ELSE Parsed(IF kept THEN [y EXCEPT !.prevMsb = msb, !.prevLsb = slice.lsb] ELSE y, msb + slice.lsb)

\* ParseAU: parameter sets up to the first slice, which is the picture's.
ParseAU(codec, parser, au) ==
    LET RECURSIVE Go(_, _)
        Go(x, n) ==
            IF n > Len(au) THEN NoPicture(x)
            ELSE CASE au[n].type = "sps" -> Go([x EXCEPT !.sps = (au[n].id :> au[n]) @@ @], n + 1)
                   [] au[n].type = "pps" -> Go([x EXCEPT !.pps = (au[n].id :> au[n]) @@ @], n + 1)
                   [] au[n].type = "slice" -> IF codec = "H264" THEN H264Slice(x, au[n]) ELSE HevcSlice(x, au[n])
                   [] OTHER -> Go(x, n + 1)
        got == Go(parser, 1)
    IN  IF codec = "H264" /\ got.ok THEN [got EXCEPT !.parser.decCnt = @ + 1] ELSE got

-----------------------------------------------------------------------------
(* The stage.                                                              *)

\* out has the packets emitted so far.
NewSynthesizer ==
    [probing |-> TRUE, reorder |-> FALSE, win |-> <<>>, prev |-> <<>>, sawInvert |-> FALSE,
     lookahead |-> 3, picIdx |-> 0, arrived |-> 0, times |-> <<>>, lastT |-> 0, deltas |-> <<>>,
     delay |-> 0, emitted |-> <<>>, out |-> <<>>]

Newest(seq, n) == IF Len(seq) > n THEN SubSeq(seq, Len(seq) - n + 1, Len(seq)) ELSE seq
CountIn(seq, Test(_)) == Cardinality({n \in DOMAIN seq : Test(seq[n])})

HeldPics(win) == SelectSeq(win, LAMBDA e : e.pic)

RECURSIVE HeldBytes(_)
HeldBytes(win) == IF win = <<>> THEN 0 ELSE Head(win).pkt.size + HeldBytes(Tail(win))

\* The stage holds all it may.
Full(win) == Len(win) >= ProbeMaxHold \/ HeldBytes(win) >= MaxHeldBytes

\* How many of what was emitted the picture displays before, and how many behind it before it.
DisplayLater(emitted, poc) == CountIn(emitted, LAMBDA e : Before(poc, e))
DisplayEarlier(pics, poc) == CountIn(pics, LAMBDA e : Before(e.poc, poc))

\* A picture takes its slot of the decode clock.
Arrive(s, t) ==
    LET delta == t - s.lastT
    IN  [s EXCEPT !.times = Newest(Append(@, t), RingLength), !.lastT = t, !.arrived = @ + 1,
                  !.deltas = IF s.arrived > 0 /\ delta > 0 THEN Newest(Append(@, delta), DeltaWindow) ELSE @]

\* The window was too short for a picture that displays before one already emitted.
GrowIfLate(s, poc) ==
    LET late == DisplayLater(s.emitted, poc)
    IN  IF late = 0 THEN s ELSE [s EXCEPT !.lookahead = Min({@ + late, MaxReorder})]

\* Pictures out of display order put an end to passing through.
Inversion(s, poc) ==
    LET inverted == s.prev # <<>> /\ Before(poc, s.prev[1])
        engaged == [s EXCEPT !.sawInvert = TRUE, !.reorder = @ \/ ~s.probing]
        seen == IF ~inverted THEN s ELSE IF s.probing THEN engaged ELSE GrowIfLate(engaged, poc)
    IN  [seen EXCEPT !.prev = <<poc>>]

\* finishProbe: how far the pictures held are reordered.
FinishProbe(s) ==
    LET pics == HeldPics(s.win)
        a(n) == DisplayLater([m \in 1 .. n - 1 |-> pics[m].poc], pics[n].poc)
        b(n) == DisplayEarlier(SubSeq(pics, n + 1, Len(pics)), pics[n].poc)
    IN  IF ~s.sawInvert THEN [s EXCEPT !.probing = FALSE, !.reorder = FALSE]
        ELSE [s EXCEPT !.probing = FALSE, !.reorder = TRUE,
                       !.lookahead = Min({Max({b(n) : n \in DOMAIN pics}) + 2, MaxReorder}),
                       !.delay = Min({Max({0} \cup {a(n) - b(n) : n \in DOMAIN pics}), MaxReorder})]

\* The median of what the decode clock advances by.
TypicalDelta(s) ==
    IF s.deltas = <<>> THEN 0 ELSE SortSeq(s.deltas, LAMBDA x, y : x < y)[Len(s.deltas) \div 2 + 1]

SlotTime_Known(s, slot) ==
    LET first == s.arrived - Len(s.times)
    IN  IF slot < s.arrived /\ slot >= first THEN s.times[slot - first + 1] ELSE s.lastT

\* When the picture of a slot was decoded, or will be.
SlotTime(s, slot) ==
    LET first == s.arrived - Len(s.times)
    IN  IF slot >= s.arrived THEN s.lastT + (slot - (s.arrived - 1)) * TypicalDelta(s)
        ELSE IF slot >= first THEN s.times[slot - first + 1]
        ELSE s.lastT

PushEmitted(s, poc) == [s EXCEPT !.emitted = Newest(Append(@, poc), RecentEmitted), !.picIdx = @ + 1]

EmitPicture(s, unit) ==
    LET a == DisplayLater(s.emitted, unit.poc)
        b == DisplayEarlier(HeldPics(Tail(s.win)), unit.poc)
        delay == IF a - b > s.delay THEN Min({a - b, MaxReorder}) ELSE s.delay
        slot == s.picIdx - a + b + delay
    IN  PushEmitted([s EXCEPT !.delay = delay,
                              !.out = Append(@, [unit.pkt EXCEPT !.pts = Max({SlotTime(s, slot), unit.pkt.dts})])],
                    unit.poc)

\* drain.
Drain(synthesizer, flush) ==
    LET Waits(s) == ~flush /\ Len(HeldPics(s.win)) - 1 < s.lookahead /\ ~Full(s.win)
        RECURSIVE Go(_)
        Go(s) ==
            IF s.win = <<>> THEN s
            ELSE LET unit == Head(s.win)
                     passed == [s EXCEPT !.out = Append(@, unit.pkt)]
                 IN  IF unit.pic /\ s.reorder /\ Waits(s) THEN s
                     ELSE Go([(IF ~unit.pic THEN passed
                               ELSE IF s.reorder THEN EmitPicture(s, unit)
                               ELSE PushEmitted(passed, unit.poc)) EXCEPT !.win = Tail(@)])
    IN  Go(synthesizer)

ProcessUnit(synthesizer, pkt, poc, isPicture) ==
    LET arrived == IF isPicture THEN Inversion(Arrive(synthesizer, pkt.dts), poc) ELSE synthesizer
        s == [arrived EXCEPT !.win = Append(@, [pkt |-> pkt, poc |-> poc, pic |-> isPicture])]
    IN  IF ~s.probing THEN Drain(s, FALSE)
        ELSE IF Len(HeldPics(s.win)) >= ProbeWindow \/ Full(s.win) THEN Drain(FinishProbe(s), FALSE)
        ELSE s

FlushUnits(s) == Drain(IF s.probing THEN FinishProbe(s) ELSE s, TRUE)
=============================================================================
