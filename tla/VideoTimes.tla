------------------------------ MODULE VideoTimes ------------------------------
(***************************************************************************)
(* An encoder sends pictures in decode order, and each gets the time the   *)
(* encoder left out: presentation times from the order in the bitstream    *)
(* and a decode clock, as in LiveMuxer.WriteVideo (pkg/media/live.go), or  *)
(* decode times from the presentation times.  The encoder is not part of   *)
(* the repository: it is any that codes pictures in the groups of its      *)
(* stream and counts them as the format says.  It sends no H.264 memory    *)
(* management operation 5 and no HEVC end of sequence, which also restart  *)
(* the count, and the header of a random access picture is always          *)
(* readable.                                                               *)
(***************************************************************************)
EXTENDS PresentationSynthesizer, DTSSynthesizer

CONSTANTS
    Streams,      \* [codec, order, maxLsb, step, bottom, patterns, resets, pictures], the last a bound
    Joins,        \* display positions at which the first picture that arrives may be

    FrameTime, Jitters,   \* what the decode clock advances by, regularly and else
    MaxResets, MaxOddities   \* bounds, the last on units that are not whole pictures in time

VARIABLES
    stream,
    gop,         \* pictures of a group that are not sent yet: [kind, ref, display]
    base,        \* display position of the last picture before the group
    origin,      \* display position at which the order counts from zero
    units,       \* what was sent: [display, poc, ok, dts], display -1 without a picture
    parser, synth, dtsSynth,
    grown,       \* the pictures at which the delay of the decode times has grown
    closed,
    resets, oddities

vars == <<stream, gop, base, origin, units, parser, synth, dtsSynth, grown, closed, resets, oddities>>

Init ==
    /\ stream \in Streams
    /\ \E join \in Joins :
            /\ gop = <<[kind |-> IF join = 0 THEN "IDR" ELSE "P", ref |-> TRUE, display |-> join]>>
            /\ base = join
    /\ origin = 0
    /\ units = <<>>
    /\ parser = NewParser /\ synth = NewSynthesizer /\ dtsSynth = NewDTS
    /\ grown = {} /\ closed = FALSE
    /\ resets = 0 /\ oddities = 0

Pictures == {n \in DOMAIN units : units[n].display >= 0}

\* A group of pictures: the places of a pattern, the first in decode order being the last displayed.
Code(pattern, kind) ==
    /\ ~closed /\ gop = <<>> /\ Cardinality(Pictures) + Len(pattern) <= stream.pictures
    /\ stream.codec = "H264" /\ kind = "IDR" => Len(pattern) = 1
    /\ gop' = [n \in DOMAIN pattern |->
                [kind |-> IF n = 1 THEN kind ELSE IF kind = "P" THEN "B" ELSE IF kind = "CRA" THEN "RASL" ELSE "RADL",
                 ref |-> pattern[n].ref, display |-> base + pattern[n].at]]
    /\ base' = base + Len(pattern)
    /\ resets' = IF kind = "P" THEN resets ELSE resets + 1
    /\ UNCHANGED <<stream, origin, units, parser, synth, dtsSynth, grown, closed, oddities>>

ParameterSets ==
    <<[type |-> "sps", id |-> 0, order |-> stream.order, maxLsb |-> stream.maxLsb],
      [type |-> "pps", id |-> 0, sps |-> 0, bottom |-> stream.bottom]>>

\* The order of a picture counts from the last IDR.
Slice(pic, zero, cut) ==
    [type |-> "slice", kind |-> pic.kind, pps |-> 0, ref |-> pic.ref, cut |-> cut,
     lsb |-> (stream.step * (pic.display - zero)) % stream.maxLsb, bottom |-> IF pic.display % 2 = 0 THEN -1 ELSE 1]

Clock(step) == IF units = <<>> THEN 100 ELSE units[Len(units)].dts + step

\* WriteVideo, and the decode times of the same pictures from when they are to be shown.
Write(au, display, step) ==
    LET id == Len(units) + 1
        parsed == ParseAU(stream.codec, parser, au)
        pkt == [id |-> id, dts |-> Clock(step), pts |-> Clock(step), size |-> Len(au)]
    IN  /\ parser' = parsed.parser
        /\ synth' = ProcessUnit(synth, pkt, parsed.poc, parsed.ok)
        /\ units' = Append(units, [display |-> display, poc |-> parsed.poc, ok |-> parsed.ok, dts |-> pkt.dts])

WritePicture(cut, step) ==
    LET pic == Head(gop)
        zero == IF pic.kind = "IDR" THEN pic.display ELSE origin
        sets == IF units = <<>> \/ pic.kind \in Irap THEN ParameterSets ELSE <<>>
        shown == [id |-> Len(units) + 1, pts |-> FrameTime * pic.display, dts |-> 0, size |-> 1]
    IN  /\ ~closed /\ gop # <<>>
        /\ cut # "" => pic.kind \notin Irap
        /\ oddities' = oddities + (IF cut = "" /\ step = FrameTime THEN 0 ELSE 1) /\ oddities' <= MaxOddities
        /\ Write(Append(sets, Slice(pic, zero, cut)), pic.display, step)
        /\ dtsSynth' = ProcessTimes(dtsSynth, shown)
        /\ grown' = IF ~dtsSynth.probing /\ dtsSynth'.delay > dtsSynth.delay
                    THEN grown \cup {Len(dtsSynth'.emitted)} ELSE grown
        /\ gop' = Tail(gop)
        /\ origin' = zero
        /\ UNCHANGED <<stream, base, closed, resets>>

\* A unit with no picture, between two groups.
WriteOther ==
    /\ ~closed /\ oddities < MaxOddities /\ gop = <<>>
    /\ Write(<<[type |-> "other"]>>, -1, 0)
    /\ oddities' = oddities + 1
    /\ UNCHANGED <<stream, gop, base, origin, dtsSynth, grown, closed, resets>>

Close ==
    /\ ~closed
    /\ closed' = TRUE
    /\ synth' = FlushUnits(synth)
    /\ dtsSynth' = FlushTimes(dtsSynth)
    /\ UNCHANGED <<stream, gop, base, origin, units, parser, grown, resets, oddities>>

Next ==
    \/ \E pattern \in stream.patterns : Code(pattern, "P")
    \/ resets < MaxResets /\ \E pattern \in stream.patterns, kind \in stream.resets : Code(pattern, kind)
    \/ \E cut \in {"", "before the order", "before the lsb"}, step \in {FrameTime} \cup Jitters : WritePicture(cut, step)
    \/ WriteOther
    \/ Close

Spec == Init /\ [][Next]_vars

-----------------------------------------------------------------------------
(***************************************************************************)
(* Display order: of any two pictures whose headers could be read, the     *)
(* parser puts that first which the encoder displays first, however far    *)
(* apart they are, although a picture has only the low bits of its count   *)
(* (they wrap), the count starts again at an IDR, CRA or BLA, the pictures *)
(* that lead a random access point come after it and display before it,    *)
(* and the first picture that arrives need not be one.                     *)
(***************************************************************************)
DisplayOrder ==
    LET parsed == {n \in DOMAIN units : units[n].ok}
    IN  \A m, n \in parsed : Before(units[m].poc, units[n].poc) <=> units[m].display < units[n].display

(***************************************************************************)
(* Presentation times keep the decode order: the packets leave as they     *)
(* came, none lost and none twice, a unit without a picture in its place;  *)
(* none is shown before it is decoded; and Close leaves nothing behind.    *)
(***************************************************************************)
LeavesAsItCame ==
    /\ [n \in DOMAIN synth.out |-> synth.out[n].id] \o [n \in DOMAIN synth.win |-> synth.win[n].pkt.id]
         = [n \in DOMAIN units |-> n]
    /\ \A n \in DOMAIN synth.out : synth.out[n].pts >= synth.out[n].dts
    /\ closed => synth.win = <<>> /\ dtsSynth.held = <<>>

\* How many pictures display before a picture; how many of some come before it and display later,
\* and come behind it and display before it.
Rank(n) == Cardinality({m \in Pictures : units[m].display < units[n].display})
After(n, among) == Cardinality({m \in among : m < n /\ units[m].display > units[n].display})
Behind(n, among) == Cardinality({m \in among : m > n /\ units[m].display < units[n].display})

\* How many pictures to wait for, and how many later than decoded a picture is to be shown.
Wait(among) == Max({Behind(n, among) : n \in among} \cup {0})
Depth(among) == Max({After(n, among) - Behind(n, among) : n \in among} \cup {0})

\* What the stage knows of the reordering when picture n leaves: what the probe held, and all up to it.
Probed == {n \in Pictures : Cardinality({m \in Pictures : m <= n}) <= ProbeWindow}
UpTo(n) == Probed \cup {m \in Pictures : m <= n}

\* Whole pictures at the regular rate.
Regular == \A n \in Pictures : units[n].ok /\ (n > 1 => units[n].dts = units[n - 1].dts + FrameTime)

\* The stage waits for as many pictures as it has to: for two more than the probe has shown, or,
\* when reordering starts behind the probe, for one more than the three it starts with.
Foreseen == Wait(Pictures) <= IF Wait(Probed) > 0 THEN Wait(Probed) + 2 ELSE 4

\* The most that a picture has been delayed until picture n.
DelayAt(n) ==
    Max({Depth(Probed)} \cup {After(m, Pictures) - Behind(m, Pictures) : m \in {m \in Pictures : m <= n}})

(***************************************************************************)
(* Presentation times are those of a clock: a picture with display rank d  *)
(* is shown exactly d + D frames after the first was decoded, D being how  *)
(* far the stream has reordered so far, whether the times were known when  *)
(* it left or extrapolated, and whether the pictures after it had arrived  *)
(* or the stream was closed over them.  Before any picture was out of      *)
(* order it is shown when it is decoded, and reordering that starts after  *)
(* that widens the wait for the pictures behind.  All this as long as the  *)
(* reordering has been foreseen; packets keep the decode order as above in *)
(* any stream.                                                             *)
(***************************************************************************)
PresentsOnSchedule ==
    /\ LeavesAsItCame
    /\ Regular /\ Foreseen =>
        \A n \in Pictures \cap DOMAIN synth.out :
            synth.out[n].pts = IF Wait(UpTo(n)) = 0 THEN synth.out[n].dts
                               ELSE 100 + FrameTime * (Rank(n) + DelayAt(n))

(***************************************************************************)
(* Decode times: no picture is decoded after it is to be shown, unless the *)
(* delay has grown in mid-stream, and then not later than the latest time  *)
(* at which a picture decoded before the growth is shown, and one step per *)
(* picture from there.  With a delay no two are decoded at the same time   *)
(* or in the other order.                                                  *)
(***************************************************************************)
DecodesInTime ==
    LET emitted == dtsSynth.emitted
        Latest(k) == Max({emitted[m].pts : m \in 1 .. k - 1})
        Slipped(n) == \E k \in grown : k <= n /\ emitted[n].dts <= Latest(k) + MinStep * (n - k + 1)
    IN  /\ \A n \in DOMAIN emitted : emitted[n].dts > emitted[n].pts => Slipped(n)
        /\ dtsSynth.delay > 0 => \A n \in 1 .. Len(emitted) - 1 : emitted[n].dts < emitted[n + 1].dts
=============================================================================
