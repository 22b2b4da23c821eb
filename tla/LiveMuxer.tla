----------------------------- MODULE LiveMuxer -----------------------------
(***************************************************************************)
(* pkg/media/live.go: the normalization layer in front of a Muxer.  Every  *)
(* packet goes through four stages, all of them within the call that       *)
(* brings it or a later one:                                               *)
(*                                                                         *)
(*    Enforcer (jitter, per stream) -> Aligner (keyframe and A/V start)    *)
(*      -> pending (one packet of lookahead for its duration)              *)
(*      -> queue (interleaving across streams) -> the wrapped muxer        *)
(*                                                                         *)
(* A call is one action.  The stages are operators on a record s of the    *)
(* LiveMuxer's fields, composed as the code composes its callbacks: the    *)
(* packets a stage emits are folded through the next one, and an error     *)
(* raised by a late stage is seen by the packets still to come.            *)
(*                                                                         *)
(* The wrapped muxer is external.  Of its WritePacket only the outcome     *)
(* matters: each call names the number of writes (fuse) before the one at  *)
(* which the muxer fails or the caller's context is found cancelled.       *)
(*                                                                         *)
(* Payloads are one byte each, PTS follows DTS and is left out, and int64  *)
(* saturation is the Enforcer module's subject.  Times are nanoseconds; a  *)
(* stream's clock has a whole number Tick of them.                         *)
(*                                                                         *)
(* Operators named <definition>_<bug> are mutants: each is the definition  *)
(* that follows it with a plausible bug, and breaks a property of a run.   *)
(***************************************************************************)
EXTENDS Integers, Sequences, FiniteSets, SequencesExt, FiniteSetsExt

CONSTANTS
    Kinds,             \* subset of {"video", "audio", "other"}: kinds of stream added
    MaxStreams,        \* bound: streams added
    Ticks,             \* DTS values of arriving packets, in ticks of the stream clock
    Arrivals,          \* what else an arriving packet says: [kind, dur, disc], kind being "key", "delta" or
                       \* "config", dur its duration in ns, 0 if unknown, disc its PacketDiscontinuity flag
    Tick,              \* nanoseconds per tick
    MinMonotonicStep, JitterWindow, GapThreshold, DefaultPacket,
    MaxBufferPackets, MaxInterleavePackets, MaxBufferBytes,
    maxCfgPending,     \* aligner.go's constant
    ChunkFrames,       \* complete frames of an ADTS chunk; {} when WriteADTS is unused
    FrameDuration,     \* duration of one ADTS frame
    Fuses,             \* writes of one call before a failing one; MaxPackets is "none fails"
    MaxPackets         \* bound: calls are made while fewer packets were accepted

ASSUME LiveAssumption ==
    /\ Tick \in Nat \ {0} /\ MinMonotonicStep \in Nat \ {0}
    /\ MaxBufferPackets \in Nat \ {0} /\ MaxInterleavePackets \in Nat \ {0}
    /\ JitterWindow \in Nat \ {0} /\ GapThreshold \in Nat \ {0}   \* a zero option takes its default
    /\ MaxPackets \in Nat /\ Fuses \subseteq Nat /\ MaxBufferBytes \in Nat /\ maxCfgPending \in Nat \ {0}
    /\ Kinds \subseteq {"video", "audio", "other"} /\ Ticks \subseteq Int
    /\ Arrivals \subseteq [kind : {"key", "delta", "config"}, dur : Int, disc : BOOLEAN]
    /\ ChunkFrames \subseteq Nat /\ FrameDuration \in Nat /\ DefaultPacket \in Nat

VARIABLES
    streams,      \* l.streams: one record per stream added
    queue,        \* l.queue
    started, closed,
    err,          \* l.processErr: "none" until an error sticks
    retained,     \* l.retainedBytes
    accepted,     \* history: the packets copied in, in order
    out,          \* history: the writes offered to the wrapped muxer, in order
    released,     \* history: ids of the packets released
    reported      \* history: the packets counted in the metrics as dropped, and where

vars == <<streams, queue, started, closed, err, retained,
          accepted, out, released, reported>>

-----------------------------------------------------------------------------
(* The LiveMuxer as one value, threaded through the stages of a call.      *)

State == [streams |-> streams, queue |-> queue, started |-> started, closed |-> closed,
          err |-> err, retained |-> retained,
          accepted |-> accepted, out |-> out, released |-> released,
          reported |-> reported, fuse |-> 0]

Become(s) ==
    /\ streams' = s.streams /\ queue' = s.queue
    /\ started' = s.started /\ closed' = s.closed
    /\ err' = s.err /\ retained' = s.retained
    /\ accepted' = s.accepted /\ out' = s.out
    /\ released' = s.released /\ reported' = s.reported

NewStream(kind) ==
    [kind |-> kind,
     enforcer |-> [buf |-> <<>>, last |-> 0, emitted |-> FALSE],
     aligner |-> [started |-> FALSE, sync |-> 0, expects |-> FALSE,
                  pending |-> <<>>, cfg |-> <<>>],
     pending |-> <<>>,      \* at most one packet
     lastDuration |-> 0,
     inputMode |-> "unset"]

VideosOf(s) == {i \in DOMAIN s.streams : s.streams[i].kind = "video"}
AudiosOf(s) == {i \in DOMAIN s.streams : s.streams[i].kind = "audio"}

\* l.syncVideo: the first video stream added, or 0.
SyncVideo(s) == IF VideosOf(s) = {} THEN 0 ELSE Min(VideosOf(s))

ReleasePacket(s, p) ==
    [s EXCEPT !.retained = @ - 1, !.released = Append(@, p.id)]

ReleaseAll(s, ps) == FoldLeft(ReleasePacket, s, ps)

\* Release a packet and count it in a metric.
Drop(s, p, where) ==
    [ReleasePacket(s, p) EXCEPT !.reported = @ \cup {[packet |-> p, where |-> where]}]

\* The index before which sort.Search inserts a packet stamped dts.
SearchIndex(stamps, dts) ==
    Min({i \in 1 .. Len(stamps) + 1 : i > Len(stamps) \/ stamps[i] > dts})

-----------------------------------------------------------------------------
(* The wrapped muxer, and the interleaving queue.                          *)

\* durationToLiveTicks: the nearest tick, on a tie the one closer to zero.
ToTicks(ns) ==
    LET size == IF ns < 0 THEN -ns ELSE ns
        t == size \div Tick
        nearest == IF size - t * Tick > (t + 1) * Tick - size THEN t + 1 ELSE t
    IN  IF ns < 0 THEN -nearest ELSE nearest

AtLeastOne(t) == IF t <= 0 THEN 1 ELSE t

WriteQueued(s, q) ==
    [ReleasePacket(s, q.packet) EXCEPT
        !.err = IF s.fuse = 0 THEN "write" ELSE @,
        !.fuse = @ - 1,
        !.out = Append(@, [packet |-> q.packet, duration |-> q.duration, ok |-> s.fuse # 0,
                           ticks |-> ToTicks(q.packet.dts),
                           durationTicks |-> AtLeastOne(ToTicks(q.duration))])]

\* Pop and write the first n entries of the queue, until an error.
WriteFirst(s, n) ==
    FoldLeft(LAMBDA t, q : IF t.err = "none"
                           THEN WriteQueued([t EXCEPT !.queue = Tail(@)], q) ELSE t,
             s, SubSeq(s.queue, 1, n))

FlushReady_SkipsIdle(s) ==
    LET ready == {i \in DOMAIN s.streams : s.streams[i].pending # <<>>}
        frontier == Min({s.streams[i].pending[1].dts : i \in ready})
    IN  WriteFirst(s, Cardinality({j \in DOMAIN s.queue : s.queue[j].packet.dts < frontier}))

FlushReady(s) ==
    IF \E i \in DOMAIN s.streams : s.streams[i].pending = <<>> THEN s
    ELSE LET frontier == Min({s.streams[i].pending[1].dts : i \in DOMAIN s.streams})
             below == {j \in DOMAIN s.queue : s.queue[j].packet.dts < frontier}
         IN  WriteFirst(s, Cardinality(below))

Enqueue(s, p, duration) ==
    LET at == SearchIndex([j \in DOMAIN s.queue |-> s.queue[j].packet.dts], p.dts)
        r == [s EXCEPT !.queue = InsertAt(@, at, [packet |-> p, duration |-> duration])]
    IN  IF ~s.closed /\ Len(r.queue) > MaxInterleavePackets
        THEN [r EXCEPT !.err = "interleave full"] ELSE r

-----------------------------------------------------------------------------
(* completePacket: the packet held back for its duration is queued, and p  *)
(* is held back in its place.                                              *)

Derived_GapOffByOne(prev, p) ==
    IF p.dts <= prev.dts \/ p.dts - prev.dts >= GapThreshold THEN 0 ELSE p.dts - prev.dts

Derived(prev, p) ==
    IF p.disc \/ p.dts <= prev.dts \/ (GapThreshold > 0 /\ p.dts - prev.dts > GapThreshold)
    THEN 0 ELSE p.dts - prev.dts

FirstPositive(durations) ==
    LET positive == {j \in DOMAIN durations : durations[j] > 0} IN
    IF positive = {} THEN 0 ELSE durations[Min(positive)]

CompletePending(s, i, p) ==
    LET st == s.streams[i]
        prev == st.pending[1]
        duration == FirstPositive(<<prev.dur, Derived(prev, p), st.lastDuration, DefaultPacket>>)
    IN  Enqueue([s EXCEPT !.streams[i].pending = <<>>,
                          !.streams[i].lastDuration = IF duration > 0 THEN duration ELSE @],
                prev, duration)

CompletePacket_Forgets(s, i, p) ==
    IF s.err # "none" THEN s
    ELSE LET r == IF s.streams[i].pending = <<>> THEN s ELSE CompletePending(s, i, p)
             h == [r EXCEPT !.streams[i].pending = <<p>>]
         IN  IF h.err = "none" THEN FlushReady(h) ELSE h

CompletePacket(s, i, p) ==
    IF s.err # "none" THEN ReleasePacket(s, p)
    ELSE LET r == IF s.streams[i].pending = <<>> THEN s ELSE CompletePending(s, i, p)
             h == [r EXCEPT !.streams[i].pending = <<p>>]
         IN  IF h.err = "none" THEN FlushReady(h) ELSE h

CompleteAll(s, i, ps) == FoldLeft(LAMBDA t, p : CompletePacket(t, i, p), s, ps)

-----------------------------------------------------------------------------
(* The Aligner.                                                            *)

ProcessVideo(s, i, p) ==
    LET a == s.streams[i].aligner
        full == Len(a.cfg) = maxCfgPending
    IN  CASE a.started -> CompletePacket(s, i, p)
          [] ~a.started /\ p.kind = "key" ->
               CompleteAll([s EXCEPT !.streams[i].aligner.started = TRUE,
                                     !.streams[i].aligner.sync = p.dts,
                                     !.streams[i].aligner.cfg = <<>>],
                           i, Append(a.cfg, p))
          [] ~a.started /\ p.kind = "config" ->
               LET held == Append(a.cfg, p) IN
               IF full THEN Drop([s EXCEPT !.streams[i].aligner.cfg = Tail(held)], Head(held), "config")
                       ELSE [s EXCEPT !.streams[i].aligner.cfg = held]
          [] ~a.started /\ p.kind = "delta" -> Drop(s, p, "no keyframe")

(* drainPending: audio before the video sync point is dropped.             *)
Filtered(s, i, ps) ==
    FoldLeft(LAMBDA t, p : IF p.dts < t.streams[i].aligner.sync THEN Drop(t, p, "before sync")
                           ELSE CompletePacket(t, i, p), s, ps)

ProcessAudio(s, i, p) ==
    LET a == s.streams[i].aligner
        held == Append(a.pending, p)
    IN  IF a.started THEN Filtered([s EXCEPT !.streams[i].aligner.pending = <<>>], i, held)
        ELSE IF ~a.expects THEN CompletePacket(s, i, p)
        ELSE IF Len(held) > MaxBufferPackets
        THEN Drop([s EXCEPT !.streams[i].aligner.pending = Tail(held)],
                  Head(held), "overflow")
        ELSE [s EXCEPT !.streams[i].aligner.pending = held]

SetVideoSyncStart_Relatches(s, dts) ==
    [s EXCEPT !.streams = [i \in DOMAIN s.streams |->
        IF i \in AudiosOf(s)
        THEN [s.streams[i] EXCEPT !.aligner.started = TRUE, !.aligner.sync = dts]
        ELSE s.streams[i]]]

(* SetVideoSyncStart on every audio aligner that has not started.          *)
SetVideoSyncStart(s, dts) ==
    [s EXCEPT !.streams = [i \in DOMAIN s.streams |->
        IF i \in AudiosOf(s) /\ ~s.streams[i].aligner.started
        THEN [s.streams[i] EXCEPT !.aligner.started = TRUE, !.aligner.sync = dts]
        ELSE s.streams[i]]]

ProcessAligner(s, i, p) ==
    IF s.err # "none" THEN ReleasePacket(s, p)
    ELSE LET r == IF i = SyncVideo(s) /\ p.kind = "key" THEN SetVideoSyncStart(s, p.dts) ELSE s
         IN  CASE s.streams[i].kind = "video" -> ProcessVideo(r, i, p)
               [] s.streams[i].kind = "audio" -> ProcessAudio(r, i, p)
               [] s.streams[i].kind = "other" -> CompletePacket(r, i, p)

FlushAligner_NeedsSync(s, i) ==
    LET a == s.streams[i].aligner
        r == ReleaseAll([s EXCEPT !.streams[i].aligner.cfg = <<>>,
                                  !.streams[i].aligner.pending = <<>>],
                        a.cfg \o (IF a.started THEN <<>> ELSE a.pending))
    IN  IF a.started THEN Filtered(r, i, a.pending) ELSE r

FlushAligner(s, i) ==
    LET a == s.streams[i].aligner
        r == ReleaseAll([s EXCEPT !.streams[i].aligner.cfg = <<>>,
                                  !.streams[i].aligner.pending = <<>>], a.cfg)
    IN  IF a.pending = <<>> THEN r
        ELSE IF a.started THEN Filtered(r, i, a.pending)
        ELSE CompleteAll([r EXCEPT !.streams[i].aligner.started = TRUE], i, a.pending)

-----------------------------------------------------------------------------
(* The Enforcer of one stream (module Enforcer has it in full).            *)

StepSize == IF Tick > MinMonotonicStep THEN Tick ELSE MinMonotonicStep

Held(b, j) ==
    /\ Len(b) - j < MaxBufferPackets
    /\ \/ j = Len(b)
       \/ b[j].dts + JitterWindow > b[Len(b)].dts

ReadyCount(b) == Min({k \in 0 .. Len(b) : k = Len(b) \/ Held(b, k + 1)})

EmitOne(e, p) ==
    LET dts == IF e.emitted /\ p.dts <= e.last THEN e.last + StepSize ELSE p.dts
    IN  [last |-> dts, emitted |-> TRUE, emits |-> Append(e.emits, [p EXCEPT !.dts = dts])]

Emits(e, ps) ==
    FoldLeft(EmitOne, [last |-> e.last, emitted |-> e.emitted, emits |-> <<>>], ps)

AlignAll(s, i, ps) == FoldLeft(LAMBDA t, p : ProcessAligner(t, i, p), s, ps)

\* Emit the first k packets of b into the aligner of stream i.
Emit(s, i, b, k) ==
    LET r == Emits(s.streams[i].enforcer, SubSeq(b, 1, k))
    IN  AlignAll([s EXCEPT !.streams[i].enforcer =
                     [buf |-> SubSeq(b, k + 1, Len(b)), last |-> r.last, emitted |-> r.emitted]],
                 i, r.emits)

ProcessEnforcer(s, i, p) ==
    LET e == s.streams[i].enforcer
        late == e.emitted /\ p.dts < e.last
        b == IF late THEN e.buf
             ELSE InsertAt(e.buf, SearchIndex([j \in DOMAIN e.buf |-> e.buf[j].dts], p.dts), p)
    IN  IF s.err # "none" THEN ReleasePacket(s, p)
        ELSE Emit(IF late THEN Drop(s, p, "late") ELSE s, i, b, ReadyCount(b))

FlushEnforcer(s, i) ==
    LET b == s.streams[i].enforcer.buf IN Emit(s, i, b, Len(b))

-----------------------------------------------------------------------------
(* The calls.                                                              *)

Init ==
    /\ streams = <<>> /\ queue = <<>>
    /\ started = FALSE /\ closed = FALSE
    /\ err = "none" /\ retained = 0
    /\ accepted = <<>> /\ out = <<>> /\ released = <<>> /\ reported = {}

AddStream ==
    /\ ~closed /\ ~started
    /\ Len(streams) < MaxStreams
    /\ \E kind \in Kinds : Become([State EXCEPT !.streams = Append(@, NewStream(kind))])

\* start: audio waits for the video sync point if there is a video stream.
Start(s) ==
    IF s.started THEN s
    ELSE [s EXCEPT !.started = TRUE,
                   !.streams = [i \in DOMAIN s.streams |->
                       [s.streams[i] EXCEPT !.aligner.expects =
                           i \in AudiosOf(s) /\ SyncVideo(s) # 0]]]

CanClaim(i, mode) == streams[i].inputMode \in {"unset", mode}
Claim(s, i, mode) == [s EXCEPT !.streams[i].inputMode = mode]

CanWrite == ~closed /\ err = "none"

\* copyPacket, then the stages; without room ErrLiveBufferFull, which does not stick.
Accept(s, i, dts, kind, dur, disc) ==
    IF s.retained >= MaxBufferBytes THEN s
    ELSE LET p == [id |-> Len(s.accepted) + 1, stream |-> i, dts |-> dts, kind |-> kind,
                   dur |-> dur, disc |-> disc]
         IN  ProcessEnforcer([s EXCEPT !.retained = @ + 1, !.accepted = Append(@, p)], i, p)

WritePacket(i, tick, kind, dur, disc, fuse) ==
    /\ CanWrite /\ CanClaim(i, "packet")
    /\ streams[i].kind # "video" => kind = "delta"
    /\ Len(accepted) < MaxPackets
    /\ Become(Accept([Start(Claim(State, i, "packet")) EXCEPT !.fuse = fuse],
                     i, tick * Tick, kind, dur, disc))

AcceptFrames(s, i, tick, n) ==
    FoldLeft(LAMBDA t, dts : IF t.err # "none" THEN t
                             ELSE Accept(t, i, dts, "delta", FrameDuration, FALSE),
             s, [j \in 1 .. n |-> tick * Tick + (j - 1) * FrameDuration])

(* WriteADTS: n is the number of frames reached before the context is      *)
(* cancelled.  A frame that finds no room stops the chunk, and so does an  *)
(* error that sticks; the frames before it stay accepted.                  *)
WriteADTS(i, tick, n, fuse) ==
    /\ CanWrite /\ CanClaim(i, "adts") /\ streams[i].kind = "audio"
    /\ Len(accepted) < MaxPackets
    /\ Become(AcceptFrames([Start(Claim(State, i, "adts")) EXCEPT !.fuse = fuse], i, tick, n))

Write ==
    \E i \in DOMAIN streams, tick \in Ticks, fuse \in Fuses :
        \/ \E a \in Arrivals : WritePacket(i, tick, a.kind, a.dur, a.disc, fuse)
        \/ \E n \in ChunkFrames : WriteADTS(i, tick, n, fuse)

ForEachStream(s, Op(_, _)) == FoldLeft(Op, s, [i \in DOMAIN s.streams |-> i])
Unless(s, r) == IF s.err = "none" THEN r ELSE s

\* The packet held for its duration is queued without a successor.
QueuePending(s, i) ==
    LET st == s.streams[i] IN
    IF st.pending = <<>> THEN s
    ELSE Enqueue([s EXCEPT !.streams[i].pending = <<>>], st.pending[1],
                 FirstPositive(<<st.pending[1].dur, st.lastDuration, DefaultPacket>>))

QueueAllPending(s) == ForEachStream(s, QueuePending)

DrainQueue(s) == LET r == QueueAllPending(s) IN WriteFirst(r, Len(r.queue))

FlushEnforcers(s) == ForEachStream(s, FlushEnforcer)
FlushAligners(s) == ForEachStream(s, FlushAligner)

(* discardBuffered.  With an error set the stages release what they are    *)
(* handed, so flushing them discards.                                      *)
DiscardStream(s, i) ==
    LET r == FlushAligner(FlushEnforcer(s, i), i)
    IN  ReleaseAll([r EXCEPT !.streams[i].pending = <<>>], r.streams[i].pending)

DiscardStreams(s) == ForEachStream(s, DiscardStream)

DiscardBuffered(s) ==
    LET r == DiscardStreams(s)
    IN  ReleaseAll([r EXCEPT !.queue = <<>>], [j \in DOMAIN r.queue |-> r.queue[j].packet])

Close(fuse) ==
    \/ /\ ~closed
       /\ LET s0 == [State EXCEPT !.closed = TRUE, !.fuse = fuse]
              s1 == Unless(s0, FlushEnforcers(s0))
              s2 == Unless(s1, FlushAligners(s1))
              s3 == Unless(s2, DrainQueue(s2))
          IN  Become(IF s3.err = "none" THEN s3 ELSE DiscardBuffered(s3))
    \/ closed /\ UNCHANGED vars     \* a second Close returns what the first one did

Next == AddStream \/ Write \/ \E fuse \in Fuses : Close(fuse)

Spec == Init /\ [][Next]_vars

-----------------------------------------------------------------------------
(* Properties.                                                             *)

\* Every packet the LiveMuxer still owns, stage by stage.
LivePackets ==
    FlattenSeq([i \in DOMAIN streams |->
        streams[i].enforcer.buf \o streams[i].aligner.pending \o streams[i].aligner.cfg
            \o streams[i].pending])
    \o [j \in DOMAIN queue |-> queue[j].packet]

(* Every accepted packet is in exactly one stage or has been released      *)
(* exactly once: a packet released twice would be handed out twice by the  *)
(* pool, one lost would hold its share of the byte budget for ever.  The   *)
(* budget is the bytes of those still held, across every path that         *)
(* releases one: drops, failed writes, Close (live.go:778-790,             *)
(* pool.go:24-36).                                                         *)
OwnedExactlyOnce ==
    LET ids == [j \in DOMAIN LivePackets |-> LivePackets[j].id] \o released IN
    /\ Len(ids) = Len(accepted)
    /\ ToSet(ids) = 1 .. Len(accepted)
    /\ retained = Len(LivePackets)

\* The Enforcer has moved the stamp; the stamp is a whole number of ticks.
Repaired(p) == p.dts # accepted[p.id].dts
OnTick(p) == p.dts % Tick = 0

(* All streams are merged in the order of their stamps, in nanoseconds,    *)
(* which increase strictly within a stream (flushReady's frontier,         *)
(* live.go:547-564), and nothing is written after the first write that     *)
(* failed (live.go:560, 742).  In the ticks that the wrapped muxer is      *)
(* given a stream never goes back (live.go:582, 600); two packets share a  *)
(* tick only if one of them is off the clock and the later has the stamp   *)
(* it came with: repairs alone never collapse onto one tick, unless they   *)
(* are rounded to zero from either side (live.go:616-617).                 *)
Interleaved ==
    \A i, j \in DOMAIN out : i < j =>
        LET p == out[i].packet  q == out[j].packet IN
        /\ p.dts <= q.dts
        /\ p.stream = q.stream =>
              /\ p.dts < q.dts /\ out[i].ticks <= out[j].ticks
              /\ out[i].ticks = out[j].ticks =>
                    /\ ~(OnTick(p) /\ OnTick(q))
                    /\ Repaired(q) => p.dts < 0 /\ 0 < q.dts
        /\ out[i].ok

(* No picture is written before a keyframe of its stream: a decoder can    *)
(* start at the first write (aligner.go:112-149).                          *)
KeyframeFirst ==
    \A j \in DOMAIN out :
        LET p == out[j].packet IN
        streams[p.stream].kind = "video" /\ p.kind = "delta" =>
            \E i \in 1 .. j - 1 : out[i].packet.stream = p.stream /\ out[i].packet.kind = "key"

(* In a session with video, the sync point is the first keyframe of the    *)
(* sync video: audio before it is never written, and audio at or after it  *)
(* is never cut away for it, however many keyframes follow                 *)
(* (live.go:466-472, aligner.go:151-232).                                  *)
AudioCutAtSync ==
    SyncVideo(State) # 0 =>
        LET video == streams[SyncVideo(State)].aligner IN
        /\ video.started =>
              \A j \in DOMAIN out :
                  streams[out[j].packet.stream].kind = "audio" => out[j].packet.dts >= video.sync
        /\ \A r \in reported :
              r.where = "before sync" => video.started /\ r.packet.dts < video.sync

(* The output starts where it can be decoded, and in sync: both of the     *)
(* above.                                                                  *)
StartsAligned == KeyframeFirst /\ AudioCutAtSync

(* Once closed nothing is held, whether or not an error struck; and a      *)
(* Close that succeeds has written every accepted packet or counted it as  *)
(* dropped, but for the decoder configuration of a video stream that never *)
(* had a keyframe (live.go:693-756, aligner.go:238-245).                   *)
NothingVanishes ==
    /\ closed => LivePackets = <<>>
    /\ closed /\ err = "none" =>
        \A n \in DOMAIN accepted :
            \/ \E r \in reported : r.packet.id = n
            \/ \E j \in DOMAIN out : out[j].packet.id = n
            \/ /\ accepted[n].kind = "config"
               /\ ~streams[accepted[n].stream].aligner.started

(* A duration the source left out closes the gap to the next packet of the *)
(* stream, unless that one is a discontinuity or too far away              *)
(* (live.go:489-505): neither overlap nor hole.                            *)
DurationsTile ==
    \A i, j \in DOMAIN out :
        LET p == out[i].packet  q == out[j].packet IN
        /\ i < j /\ p.stream = q.stream /\ p.dur = 0 /\ ~q.disc
        /\ \A n \in i + 1 .. j - 1 : out[n].packet.stream # p.stream
        /\ q.dts - p.dts <= GapThreshold
        => p.dts + out[i].duration = q.dts

=============================================================================
