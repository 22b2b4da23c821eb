------------------------------ MODULE Mp4Muxer ------------------------------
(***************************************************************************)
(* pkg/media/mux_mp4.go over the two writers of internal/format/mp4.       *)
(*                                                                         *)
(* The progressive writer needs a seekable destination: it writes sample   *)
(* data as it comes, keeps the tables in memory, and on Close patches the  *)
(* size of mdat and appends moov.  The fragmented writer starts with moov, *)
(* holds samples back and writes them as moof and mdat pairs.              *)
(*                                                                         *)
(* One caller makes one call at a time, so a call is one step.  Any Write  *)
(* or Seek inside it may fail, after some or all of the bytes; the failure *)
(* sticks (output_failure.go).  Bounds: MaxSamples samples in a file.      *)
(* Operators named <definition>_<bug> are mutants of the one that follows. *)
(***************************************************************************)
EXTENDS Mp4File

CONSTANTS
    Layouts,               \* MP4Mode values a program may ask for
    FragmentDuration,      \* in ticks of MovieScale
    MaxFragmentBytes,
    MaxFragmentPackets,
    MaxSamples,
    Packets                \* what WritePacket may be given, [track, dts, pts, dur, key, size]

VARIABLES
    layout,      \* which writer newMP4Muxer made
    streams,     \* how many are registered
    locked,      \* mp4Muxer.started: a packet reached the writer
    started,     \* of the writer: the start of the file is written
    closed,
    closeErr,    \* what Close returned: "none" before, "nil" or "error"
    failure,     \* outputFailure.err is set
    samples,     \* of each track, the samples taken; progressive: with their offset
    pending,     \* fragmented: the samples held back, in the order of their calls
    fragments    \* history: the contents of each fragment written as a whole

muxVars == <<layout, streams, locked, started, closed, closeErr, failure, samples, pending, fragments>>

MuxInit ==
    /\ file = <<>>
    /\ layout \in Layouts
    /\ streams = 0 /\ locked = FALSE /\ started = FALSE
    /\ closed = FALSE /\ closeErr = "none" /\ failure = FALSE
    /\ samples = [t \in Tracks |-> <<>>]
    /\ pending = <<>> /\ fragments = <<>>

Registered == 1 .. streams

AddStream ==
    /\ ~closed /\ ~locked /\ streams < NTracks
    /\ streams' = streams + 1
    /\ UNCHANGED <<file, layout, locked, started, closed, closeErr, failure, samples, pending, fragments>>

(***************************************************************************)
(* Writing.  CutShort: the pieces done are written, then one of ps fails:  *)
(* nothing of it, a part of it or all of it reaches the file.              *)
(***************************************************************************)
WriteFull(ps) == file' = file \o ps /\ UNCHANGED failure

CutShort_Retried(done, ps) ==
    /\ ps # <<>>
    /\ \E n \in 0 .. Len(ps) : file' = file \o done \o SubSeq(ps, 1, n)
    /\ UNCHANGED failure

CutShort(done, ps) ==
    /\ ps # <<>>
    /\ \E n \in 0 .. Len(ps) :
           \/ file' = file \o done \o SubSeq(ps, 1, n)
           \/ /\ n < Len(ps) /\ ps[n + 1].size > 1
              /\ file' = file \o done \o SubSeq(ps, 1, n) \o <<Torn>>
    /\ failure' = TRUE

End(s) == s.dts + s.dur

Contiguous(s) == samples[s.track] # <<>> => s.dts = End(Last(samples[s.track]))

Accepted(s) ==
    /\ s.track \in Registered /\ s.dur > 0 /\ Contiguous(s)
    /\ layout = "fragmented" => s.dts >= 0 /\ s.size \in 1 .. MaxFragmentBytes

(***************************************************************************)
(* The progressive writer.                                                 *)
(***************************************************************************)
ProgressiveStart == IF started THEN <<>> ELSE <<Ftyp, Mdat(16, 16)>>

WriteProgressive(s) ==
    LET at == Bytes(file) + Bytes(ProgressiveStart)
    IN  \/ /\ WriteFull(Append(ProgressiveStart, Payload(s)))
           /\ started' = TRUE
           /\ samples' = [samples EXCEPT ![s.track] = Append(@, [offset |-> at] @@ s)]
        \/ CutShort(<<>>, ProgressiveStart) /\ UNCHANGED <<started, samples>>
        \/ CutShort(ProgressiveStart, <<Payload(s)>>) /\ started' = TRUE /\ UNCHANGED samples

First(t) == Head(samples[t]).dts

Begun == {t \in Registered : samples[t] # <<>>}

\* The first of the tracks that start earliest.
GlobalStart ==
    CHOOSE t \in Begun : \A u \in Begun :
        /\ ~TimestampLess(First(u), Scale[u], First(t), Scale[t])
        /\ u < t => TimestampLess(First(t), Scale[t], First(u), Scale[u])

OnMovieClock(t) == RescaleSigned(First(t), Scale[t], MovieScale)

Delay(t) == IF t \in Begun THEN OnMovieClock(t) - OnMovieClock(GlobalStart) ELSE 0

Column(t, Value(_)) == [n \in DOMAIN samples[t] |-> Value(samples[t][n])]

MakeCTTS(t) ==
    LET offsets == Column(t, LAMBDA s : s.pts - s.dts)
    IN  IF \A n \in DOMAIN offsets : offsets[n] = 0 THEN <<>> ELSE Runs(offsets)

\* No table where every sample is a sync sample.
MakeSTSS(t) ==
    LET sync == {n \in DOMAIN samples[t] : samples[t][n].key}
    IN  [table |-> t \in Video /\ sync # DOMAIN samples[t], sync |-> sync]

MakeProgressiveTrak(t) ==
    [delay |-> Delay(t),
     stts |-> Runs(Column(t, LAMBDA s : s.dur)),
     ctts |-> MakeCTTS(t),
     stss |-> MakeSTSS(t),
     stsz |-> Column(t, LAMBDA s : s.size),
     stco |-> Column(t, LAMBDA s : s.offset)]

MdatPayload == Total([t \in Tracks |-> Total(Column(t, LAMBDA s : s.size))])

Patched(f) == [i \in DOMAIN f |-> IF f[i].box = "mdat" THEN Mdat(16, MdatPayload + 16) ELSE f[i]]

CloseProgressive ==
    LET whole == file \o ProgressiveStart
        moov == Moov([t \in Registered |-> MakeProgressiveTrak(t)])
    IN  \/ file' = Append(Patched(whole), moov) /\ started' = TRUE /\ UNCHANGED failure
        \/ CutShort(<<>>, ProgressiveStart) /\ UNCHANGED started
        \/ /\ file' \in {whole, Patched(whole), Append(Patched(whole), Torn), Append(Patched(whole), moov)}
           /\ started' = TRUE /\ failure' = TRUE

(***************************************************************************)
(* The fragmented writer.                                                  *)
(***************************************************************************)
EmptyTrak == [delay |-> 0, stts |-> <<>>, ctts |-> <<>>, stss |-> [table |-> FALSE, sync |-> {}],
              stsz |-> <<>>, stco |-> <<>>]

FragmentedStart == IF started THEN <<>> ELSE <<Ftyp, Moov([t \in Registered |-> EmptyTrak])>>

ByTrack(held) == FlattenSeq([t \in Registered |-> OfTrack(held, t)])

\* Where the data of track t begins in the payload of the fragment.
TrackOffset_Unsorted(held, t) ==
    Bytes(SubSeq(held, 1, SelectInSeq(held, LAMBDA s : s.track = t) - 1))

TrackOffset(held, t) == Total([u \in 1 .. t - 1 |-> Bytes(OfTrack(held, u))])

\* The size of moof as computed before it is made ...
MoofSize(held) ==
    24 + Total([t \in Registered |-> LET n == Len(OfTrack(held, t)) IN IF n > 0 THEN 64 + 16 * n ELSE 0])

\* ... and the bytes of the boxes in it: tfhd, tfdt and trun in traf.
TrafBytes(traf) == 8 + 16 + 20 + (20 + 16 * Len(traf.trun))

MakeTRAF(t, run, dataOffset) ==
    [track |-> t, tfdt |-> Head(run).dts, dataOffset |-> dataOffset,
     trun |-> [n \in DOMAIN run |->
                  [dur |-> run[n].dur, size |-> run[n].size, cto |-> run[n].pts - run[n].dts,
                   nonSync |-> t \in Video /\ ~run[n].key]]]

MakeMOOF(sequence, held) ==
    LET present == SelectSeq([t \in Registered |-> t], LAMBDA t : OfTrack(held, t) # <<>>)
        trafs == [i \in DOMAIN present |->
                     MakeTRAF(present[i], OfTrack(held, present[i]),
                              MoofSize(held) + 8 + TrackOffset(held, present[i]))]
    IN  [box |-> "moof", size |-> 24 + Total([i \in DOMAIN trafs |-> TrafBytes(trafs[i])]),
         sequence |-> sequence, trafs |-> trafs]

FragmentOf(sequence, held) ==
    IF held = <<>> THEN <<>>
    ELSE LET data == ByTrack(held)
         IN  <<MakeMOOF(sequence, held), Mdat(8, 8 + Bytes(data))>> \o [n \in DOMAIN data |-> Payload(data[n])]

Flushed(held) == IF held = <<>> THEN fragments ELSE Append(fragments, held)

\* A keyframe ends the fragment that holds samples of its track.
ShouldFlushBefore_Any(s) == s.key /\ s.track \in Video /\ pending # <<>> /\ Head(pending).track = s.track

ShouldFlushBefore(s) == s.key /\ s.track \in Video /\ OfTrack(pending, s.track) # <<>>

Full(s) ==
    \/ Len(pending) >= MaxFragmentPackets
    \/ pending # <<>> /\ Bytes(pending) > MaxFragmentBytes - s.size

\* From the earliest start held to the end of the sample that ends last.
PendingDuration(held) ==
    LET Starts(s) == \A r \in Range(held) : ~TimestampLess(r.dts, Scale[r.track], s.dts, Scale[s.track])
        Ends(s) == \A r \in Range(held) : ~TimestampLess(End(s), Scale[s.track], End(r), Scale[r.track])
        first == CHOOSE s \in Range(held) : Starts(s)
        last == CHOOSE s \in Range(held) : Ends(s)
    IN  RescaleSigned(End(last), Scale[last.track], MovieScale)
            - RescaleSigned(first.dts, Scale[first.track], MovieScale)

WriteFragmented(s) ==
    LET before == IF ShouldFlushBefore(s) \/ Full(s) THEN pending ELSE <<>>
        left == IF before = <<>> THEN pending ELSE <<>>
        held == Append(left, s)
        due == Video \cap Registered = {} /\ PendingDuration(held) >= FragmentDuration
        after == IF due THEN held ELSE <<>>
        taken == [samples EXCEPT ![s.track] = Append(@, s)]
        number == Len(fragments) + 1
        cut == FragmentOf(number, before)
        rest == FragmentOf(IF cut = <<>> THEN number ELSE number + 1, after)
    IN  \/ /\ WriteFull(cut \o FragmentedStart \o rest)
           /\ started' = TRUE /\ samples' = taken
           /\ pending' = IF due THEN <<>> ELSE held
           /\ fragments' = IF due THEN Append(Flushed(before), held) ELSE Flushed(before)
        \/ CutShort(<<>>, cut) /\ UNCHANGED <<started, samples, pending, fragments>>
        \/ /\ CutShort(cut, FragmentedStart)
           /\ pending' = left /\ fragments' = Flushed(before)
           /\ UNCHANGED <<started, samples>>
        \/ /\ CutShort(cut \o FragmentedStart, rest)
           /\ started' = TRUE /\ samples' = taken
           /\ pending' = held /\ fragments' = Flushed(before)

CloseFragmented ==
    LET last == FragmentOf(Len(fragments) + 1, pending)
    IN  \/ /\ WriteFull(FragmentedStart \o last)
           /\ started' = TRUE /\ fragments' = Flushed(pending)
        \/ CutShort(<<>>, FragmentedStart) /\ UNCHANGED <<started, fragments>>
        \/ CutShort(FragmentedStart, last) /\ started' = TRUE /\ UNCHANGED fragments

(***************************************************************************)
(* mp4Muxer.                                                               *)
(***************************************************************************)
WritePacket(s) ==
    /\ ~failure /\ ~closed
    /\ s.track \in Registered
    /\ Total([t \in Tracks |-> Len(samples[t])]) < MaxSamples
    /\ locked' = TRUE
    /\ \/ ~Accepted(s) /\ UNCHANGED <<file, started, failure, samples, pending, fragments>>
       \/ Accepted(s) /\ layout = "progressive" /\ WriteProgressive(s) /\ UNCHANGED <<pending, fragments>>
       \/ Accepted(s) /\ layout = "fragmented" /\ WriteFragmented(s)
    /\ UNCHANGED <<layout, streams, closed, closeErr>>

\* A writer without tracks, or whose output failed before, writes nothing.
Close ==
    /\ ~closed
    /\ closed' = TRUE
    /\ \/ (streams = 0 \/ failure) /\ UNCHANGED <<file, started, failure, fragments>>
       \/ streams > 0 /\ ~failure /\ layout = "progressive" /\ CloseProgressive /\ UNCHANGED fragments
       \/ streams > 0 /\ ~failure /\ layout = "fragmented" /\ CloseFragmented
    /\ closeErr' = IF streams = 0 \/ failure' THEN "error" ELSE "nil"
    /\ pending' = <<>>
    /\ UNCHANGED <<layout, streams, locked, samples>>

MuxNext == AddStream \/ Close \/ \E s \in Packets : WritePacket(s)
=============================================================================
