---------------------------- MODULE MpegTsReader ----------------------------
(***************************************************************************)
(* The transport stream reader: internal/format/mpegts/reader.go behind    *)
(* pkg/media/open_mpegts.go.  A parser is a record, and what the code does *)
(* with one transport packet is a function of it: the streaming reader     *)
(* runs it as far as the next packet, the indexed reader to the end.       *)
(***************************************************************************)
EXTENDS MpegTsPacket

CONSTANTS
    MaxPending,      \* packets kept while the audio configuration is unknown: 4096
    MaxStreamingPES, \* pieces of the longest PES packet kept: 64 MiB
    Times,           \* targets of seeks, in ticks of the track sought in
    CancelSpan,      \* bound on how far a read gets before it is cancelled, in halves
    MaxCancels, MaxSeeks  \* bounds on cancelled calls and on seeks

VARIABLES
    half,       \* the file ends with the first half of one more transport packet
    mode,       \* "none", "refused", "indexed" or "lazy"
    at,         \* position in the source, in halves of a transport packet
    parser,     \* StreamingInputReader
    index,      \* InputReader: its packets, and the next of them
    next,
    delivered,  \* packets returned since Open or the last Seek
    sought,     \* <<>>, or what the last seek asked for and settled on
    result, cancels, seeks

readVars == <<mode, at, parser, index, next, delivered, sought, result, cancels, seeks>>

Halves == 2 * Len(file) + IF half THEN 1 ELSE 0
NoLimit == -1

NoEpoch == [last |-> 0, epoch |-> 0, seen |-> FALSE]
NoClock == [pts |-> NoEpoch, dts |-> NoEpoch]

NewParser ==
    [part |-> <<>>, pat |-> FALSE, pmt |-> FALSE, err |-> "", eof |-> FALSE,
     cc |-> [pid \in PIDs |-> -1], previous |-> [pid \in PIDs |-> <<>>], duplicated |-> [pid \in PIDs |-> FALSE],
     psi |-> [pid \in {PAT, PMT} |-> <<>>],
     active |-> [pid \in TrackPIDs |-> <<>>], offset |-> [pid \in TrackPIDs |-> 0],
     clock |-> [pid \in TrackPIDs |-> NoClock],
     config |-> [pid \in TrackPIDs |-> ""], pending |-> <<>>, ready |-> FALSE]

ReadInit ==
    /\ mode = "none" /\ at = 0 /\ parser = <<>> /\ index = <<>> /\ next = 0
    /\ delivered = <<>> /\ sought = <<>> /\ result = "none"
    /\ cancels = 0 /\ seeks = 0

Fail(s, why) == [s EXCEPT !.err = why]

-----------------------------------------------------------------------------
\* timestampEpoch.unwrap: a jump of more than half the range is a wrap.
Unwrap(e, raw) ==
    LET jump == raw - e.last
        epoch == IF ~e.seen THEN e.epoch
                 ELSE IF -jump > TimestampMod \div 2 THEN e.epoch + TimestampMod
                 ELSE IF jump > TimestampMod \div 2 THEN e.epoch - TimestampMod
                 ELSE e.epoch
    IN  [last |-> raw, epoch |-> epoch, seen |-> TRUE]

Value(e) == e.last + e.epoch

\* The composition offset of two stamps of one header, the shorter way round.
Shorter_AsStored(delta) == delta

Shorter(delta) ==
    IF delta > TimestampMod \div 2 THEN delta - TimestampMod
    ELSE IF delta < -(TimestampMod \div 2) THEN delta + TimestampMod
    ELSE delta

\* A header with one stamp moves the PTS clock, one with two the DTS clock.
Advance(clock, header) ==
    IF header.pts = header.dts
    THEN LET e == Unwrap(clock.pts, header.pts) IN [pts |-> e, dts |-> e]
    ELSE LET dts == Unwrap(clock.dts, header.dts)
             pts == Value(dts) + Shorter(header.pts - header.dts)
         IN  [dts |-> dts, pts |-> [last |-> header.pts, epoch |-> pts - header.pts, seen |-> TRUE]]

Scale90kToSamples(stamp) ==
    (stamp \div PtsHz) * SampleHz + ((stamp % PtsHz) * SampleHz) \div PtsHz

-----------------------------------------------------------------------------
Packet(pid, data, pts, dts, key, offset) ==
    [track |-> pid, data |-> data, pts |-> pts, dts |-> dts, key |-> key, offset |-> offset]

Frames(s, pid, payload, pts) ==
    [n \in DOMAIN payload |->
        LET stamp == Scale90kToSamples(pts) + (n - 1) * FrameSamples
        IN  Packet(pid, <<payload[n]>>, stamp, stamp, TRUE, s.offset[pid])]

AudioReady(s) == \A pid \in TrackPIDs : IsVideo(pid) \/ s.config[pid] # ""

Queued(s, pid, packets) ==
    IF Len(s.pending) + Len(packets) > MaxPending THEN Fail(s, "pending packet limit")
    ELSE [s EXCEPT !.pending = @ \o packets]

FinishAudio(s, pid, payload) ==
    LET configs == {s.config[pid]} \cup {payload[n].tag : n \in DOMAIN payload}
        pts == Value(s.clock[pid].pts)
    IN  IF payload = <<>> THEN s
        ELSE IF Cardinality(configs \ {""}) > 1 THEN Fail(s, "configuration changed")
        ELSE IF pts < 0 THEN Fail(s, "timestamp overflow")
        ELSE Queued([s EXCEPT !.config[pid] = payload[1].tag], pid, Frames(s, pid, payload, pts))

FinishVideo(s, pid, payload) ==
    IF payload = <<>> THEN Fail(s, "empty payload")
    ELSE Queued(s, pid, <<Packet(pid, payload, Value(s.clock[pid].pts), Value(s.clock[pid].dts),
                                 payload[1].tag = "key", s.offset[pid])>>)

\* What is after the stored length is not part of the packet.
FinishPES(s, pid) ==
    LET data == s.active[pid]
        header == data[1]
        end == IF header.len = 0 THEN Len(data) ELSE header.len
        timed == [s EXCEPT !.clock[pid] = Advance(@, header)]
        payload == SubSeq(data, 2, end)
    IN  IF header.k # 0 THEN Fail(s, "invalid PES header")
        ELSE IF end > Len(data) THEN Fail(s, "unexpected EOF")
        ELSE IF IsVideo(pid) THEN FinishVideo(timed, pid, payload)
        ELSE FinishAudio(timed, pid, payload)

Freed(s, pid) == IF s.err # "" THEN s ELSE [s EXCEPT !.active[pid] = <<>>]

\* The PES packet still open when the next one starts was one of unbounded length.
StartPES(s, pid, offset) ==
    [Freed(IF s.active[pid] = <<>> THEN s ELSE FinishPES(s, pid), pid) EXCEPT !.offset[pid] = offset]

FinishIfWhole(s, pid) ==
    IF s.active[pid][1].len = 0 \/ Len(s.active[pid]) < s.active[pid][1].len THEN s
    ELSE Freed(FinishPES(s, pid), pid)

ContinuePES(s, pid, body) ==
    IF s.err # "" THEN s
    ELSE IF Len(s.active[pid]) + Len(body) > MaxStreamingPES THEN Fail(s, "PES size limit")
    ELSE FinishIfWhole([s EXCEPT !.active[pid] = @ \o body], pid)

ConsumePES(s, p, offset) ==
    IF ~s.pmt \/ (~p.start /\ s.active[p.pid] = <<>>) THEN s
    ELSE ContinuePES(IF p.start THEN StartPES(s, p.pid, offset) ELSE s, p.pid, p.body)

-----------------------------------------------------------------------------
\* A section being assembled: its pieces so far, how many were completed, and whether one was bad.
Feed(buf, data, allowNew) ==
    FoldLeft(LAMBDA a, x :
                IF a.bad \/ (a.buf = <<>> /\ ~allowNew) THEN a
                ELSE LET longer == Append(a.buf, x)
                     IN  IF x.k # Len(longer) THEN [a EXCEPT !.bad = TRUE]
                         ELSE IF Len(longer) = longer[1].len THEN [a EXCEPT !.buf = <<>>, !.done = @ + 1]
                         ELSE [a EXCEPT !.buf = longer],
             [buf |-> buf, done |-> 0, bad |-> FALSE], data)

\* The bytes before the pointer of a packet end the section before, and must end it.
AssemblePSI(s, p) ==
    LET carried == s.psi[p.pid]
        ended == Feed(IF p.start THEN carried ELSE <<>>, SubSeq(p.body, 1, p.ptr), FALSE)
        fed == IF p.start THEN Feed(<<>>, SubSeq(p.body, p.ptr + 1, Len(p.body)), TRUE)
               ELSE Feed(carried, p.body, FALSE)
        got == [s EXCEPT !.psi[p.pid] = fed.buf]
    IN  IF ended.bad \/ fed.bad THEN Fail(s, "PSI CRC mismatch")
        ELSE IF ended.buf # <<>> THEN Fail(s, "unexpected EOF")
        ELSE IF ended.done + fed.done = 0 THEN got
        ELSE IF p.pid = PAT THEN [got EXCEPT !.pat = TRUE]
        ELSE [got EXCEPT !.pmt = TRUE]

Forget_KeepsActive(s, pid) ==
    LET fresh == [s EXCEPT !.cc[pid] = -1]
    IN  IF pid \in {PAT, PMT} THEN [fresh EXCEPT !.psi[pid] = <<>>]
        ELSE [fresh EXCEPT !.clock[pid] = NoClock]

Forget(s, pid) ==
    LET fresh == [s EXCEPT !.cc[pid] = -1]
    IN  IF pid \in {PAT, PMT} THEN [fresh EXCEPT !.psi[pid] = <<>>]
        ELSE [fresh EXCEPT !.active[pid] = <<>>, !.clock[pid] = NoClock]

Normalized_WithClock(p) == p

\* The clock reference may differ in the duplicate of a packet.
Normalized(p) == [p EXCEPT !.pcr = IF @ = NoPCR THEN NoPCR ELSE 0]

IsDuplicate(s, p) ==
    p.cc = s.cc[p.pid] /\ s.previous[p.pid] = <<Normalized(p)>> /\ ~s.duplicated[p.pid]

ConsumePacket(s, p, offset) ==
    LET pid == p.pid
        known == IF p.disc THEN Forget(s, pid) ELSE s
        noted == [known EXCEPT !.cc[pid] = p.cc, !.previous[pid] = <<Normalized(p)>>, !.duplicated[pid] = FALSE]
    IN  IF known.cc[pid] # -1 /\ IsDuplicate(known, p) THEN [known EXCEPT !.duplicated[pid] = TRUE]
        ELSE IF known.cc[pid] # -1 /\ p.cc # NextCounter(known.cc[pid]) THEN Fail(known, "continuity gap")
        ELSE IF pid = PAT \/ (pid = PMT /\ s.pat) THEN AssemblePSI(noted, p)
        ELSE IF pid = PMT THEN noted
        ELSE ConsumePES(noted, p, offset)

FlushActive(s) ==
    LET open == {pid \in TrackPIDs : s.active[pid] # <<>>}
        inOrder == SetToSortSeq(open, LAMBDA a, b : s.offset[a] < s.offset[b])
    IN  IF s.pmt
        THEN FoldLeft(LAMBDA x, pid : IF x.err # "" THEN x ELSE Freed(FinishPES(x, pid), pid), s, inOrder)
        ELSE Fail(s, "no supported packets")

AtEOF(s) ==
    IF \E pid \in {PAT, PMT} : s.psi[pid] # <<>> THEN Fail(s, "unexpected EOF")
    ELSE FlushActive([s EXCEPT !.eof = TRUE])

-----------------------------------------------------------------------------
\* What is read of a packet goes on with what an earlier, cancelled read got of it.
Filled(s, pos, n) == [s EXCEPT !.part = @ \o [i \in 1 .. n |-> pos + i]]

\* At the end, with a part of a packet from an earlier call, io.ReadFull reads nothing and says so.
ConsumeFilled(s, pos, n, limit) ==
    LET read == [s EXCEPT !.part = <<>>]
        packet == (s.part[1] + 1) \div 2
    IN  IF Len(s.part) = 2
        THEN IF s.part[1] % 2 = 1 /\ s.part[2] = s.part[1] + 1
             THEN ConsumePacket(read, file[packet], packet)
             ELSE Fail(read, "invalid sync")
        ELSE IF pos = limit THEN Fail(s, "cancelled")
        ELSE IF s.part = <<>> THEN AtEOF(s)
        ELSE Fail(s, IF n = 0 THEN "eof" ELSE "unexpected EOF")

Readied(s) == [s EXCEPT !.ready = s.pmt /\ AudioReady(s)]

\* io.ReadFull from position x.at up to where the source ends or, at limit, fails.
Pump(x, limit) ==
    LET end == IF limit = NoLimit THEN Halves ELSE Least(limit, Halves)
        n == Least(2 - Len(x.s.part), end - x.at)
    IN  [x EXCEPT !.at = @ + n, !.s = Readied(ConsumeFilled(Filled(@, x.at, n), x.at + n, n, limit))]

\* Pump until there is an error or Done holds.
PumpUntil(x, limit, Done(_)) ==
    LET RECURSIVE Go(_)
        Go(y) == IF y.s.err # "" \/ Done(y.s) THEN y ELSE Go(Pump(y, limit))
    IN  Go(x)

Primed(x) == IF x.s.err = "" /\ ~x.s.ready THEN [x EXCEPT !.s = Fail(@, "tracks never ready")] ELSE x

\* NewStreamingInputReader.
Prime(limit) ==
    Primed(PumpUntil([at |-> 0, s |-> NewParser, out |-> <<>>], limit, LAMBDA s : s.ready \/ s.eof))

\* NewInputReader: a packet is taken from the parser as soon as there is one.
Collect(x) == [x EXCEPT !.out = @ \o x.s.pending, !.s.pending = <<>>]

Scan(limit) ==
    LET RECURSIVE Go(_)
        Go(y) == IF y.s.err # "" \/ y.s.eof THEN y ELSE Go(Collect(Pump(y, limit)))
    IN  Go(Collect(Prime(limit)))

-----------------------------------------------------------------------------
\* A call may be cancelled wherever it asks the source for more.
MayCancel(limit) == limit # NoLimit => cancels < MaxCancels /\ limit <= Halves
Cancelled(why) == cancels' = IF why = "cancelled" THEN cancels + 1 ELSE cancels

\* openMPEGTSLazy: an index at once, or when it is first sought in. A source that
\* cannot be sought in is one that is not.
Open(m) ==
    /\ mode = "none"
    /\ \E x \in {IF m = "indexed" THEN Scan(NoLimit) ELSE Prime(NoLimit)} :
          LET ok == x.s.err = ""
          IN  /\ mode' = IF ok THEN m ELSE "refused"
              /\ parser' = IF ok /\ m # "indexed" THEN x.s ELSE <<>>
              /\ at' = IF ok /\ m # "indexed" THEN x.at ELSE 0
              /\ index' = IF ok /\ m = "indexed" THEN x.out ELSE <<>>
              /\ result' = IF ok THEN "opened" ELSE x.s.err
    /\ UNCHANGED <<next, delivered, sought, cancels, seeks>>

Running == mode \in {"indexed", "lazy"} /\ result \in {"opened", "packet", "cancelled", "sought"}

NextOfIndex ==
    /\ Running /\ mode = "indexed"
    /\ IF next >= Len(index)
       THEN result' = "eof" /\ UNCHANGED <<next, delivered>>
       ELSE /\ result' = "packet" /\ next' = next + 1
            /\ delivered' = Append(delivered, index[next + 1])
    /\ UNCHANGED <<mode, at, parser, index, sought, cancels, seeks>>

\* The caller gives up at the first error that is not its own cancellation.
NextOfStream(limit) ==
    /\ Running /\ mode = "lazy"
    /\ MayCancel(limit)
    /\ \E x \in {PumpUntil([at |-> at, s |-> parser], limit, LAMBDA s : s.pending # <<>> \/ s.eof)} :
          LET taken == x.s.err = "" /\ x.s.pending # <<>>
          IN  /\ at' = x.at
              /\ parser' = [x.s EXCEPT !.pending = IF taken THEN Tail(@) ELSE @, !.err = ""]
              /\ delivered' = IF taken THEN Append(delivered, Head(x.s.pending)) ELSE delivered
              /\ result' = IF x.s.err # "" THEN x.s.err ELSE IF taken THEN "packet" ELSE "eof"
              /\ Cancelled(x.s.err)
    /\ UNCHANGED <<mode, index, next, sought, seeks>>

Eligible(p, pid, any) == p.track = pid /\ (any \/ p.key)

Chosen_Nearest(packets, pid, target, backward, any) ==
    LET eligible == {i \in DOMAIN packets : Eligible(packets[i], pid, any)}
        fits == {i \in eligible : IF backward THEN packets[i].pts <= target ELSE packets[i].pts >= target}
        from == IF fits = {} THEN eligible ELSE fits
    IN  IF from = {} THEN 0 ELSE IF backward THEN Min(from) ELSE Max(from)

\* SeekWithFlags: in the order of the file, the last before or the first after.
Chosen(packets, pid, target, backward, any) ==
    LET eligible == {i \in DOMAIN packets : Eligible(packets[i], pid, any)}
        fits == {i \in eligible : IF backward THEN packets[i].pts <= target ELSE packets[i].pts >= target}
        from == IF fits = {} THEN eligible ELSE fits
    IN  IF from = {} THEN 0
        ELSE IF backward = (fits # {}) THEN Max(from) ELSE Min(from)

\* indexLazy scans from the start and puts the source back where it was, whether or not it succeeds.
Seek(pid, target, backward, any, limit) ==
    /\ Running /\ seeks < MaxSeeks
    /\ MayCancel(limit) /\ (mode = "indexed" => limit = NoLimit)
    /\ seeks' = seeks + 1
    /\ UNCHANGED <<at, parser>>
    /\ \E scan \in {IF mode = "indexed" THEN [out |-> index, s |-> [err |-> ""]] ELSE Scan(limit)} :
          LET chosen == Chosen(scan.out, pid, target, backward, any)
          IN  IF scan.s.err = "" /\ chosen # 0
              THEN /\ mode' = "indexed" /\ index' = scan.out /\ next' = chosen - 1
                   /\ delivered' = <<>> /\ result' = "sought"
                   /\ sought' = <<[pid |-> pid, target |-> target, backward |-> backward, any |-> any,
                                   packet |-> scan.out[chosen]]>>
                   /\ UNCHANGED cancels
              ELSE /\ Cancelled(scan.s.err)
                   /\ UNCHANGED <<mode, index, next, delivered, result, sought>>

ReadNext ==
    \/ \E m \in {"indexed", "lazy"} : Open(m)
    \/ NextOfIndex
    \/ \E limit \in {NoLimit} \cup at .. at + CancelSpan : NextOfStream(limit)
    \/ \E pid \in TrackPIDs, target \in Times, backward, any \in BOOLEAN,
          limit \in {NoLimit} \cup (IF mode = "lazy" THEN {Halves - 1} ELSE {}) :
            Seek(pid, target, backward, any, limit)
=============================================================================
