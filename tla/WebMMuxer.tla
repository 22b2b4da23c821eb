----------------------------- MODULE WebMMuxer -----------------------------
(***************************************************************************)
(* The WebM and Matroska muxer: pkg/media/mux_ebml.go over the writers of  *)
(* internal/format/webm.  Packets go into clusters, and to a destination   *)
(* that can seek also sizes, an index of the clusters and the duration     *)
(* once they are known.  To any other the sizes stay unknown.              *)
(***************************************************************************)
EXTENDS Ebml

CONSTANTS
    Layouts,       \* sequences of tracks a program may register: [video, perFrame]
    Packets,       \* packets it may write: [track, dts, pts, dur, key, pad, size]
    TickHz,        \* ticks per second of the streams
    TimecodeHz,    \* timecodes per second: 1000
    ClusterSpan,   \* longest distance from the start of a cluster: 30000
    MinRelative,   \* the least a block can be before it: -32768
    ClusterWidth,  \* of the size of a cluster: 4
    SegmentWidth,  \* of the size of the segment: 8
    MaxPackets,    \* bound on what is written
    FailAfter      \* numbers of packets after which a destination may fail

VARIABLES
    seekable,    \* what the destination can do
    tracks,
    cluster,     \* <<>>, or the offset of the open cluster
    clusterTime, maxEndTime,
    cues, started, closed,
    writeAt,          \* where the next write goes, in halves of a cell
    failed,      \* the destination refused a write, or the program stopped
    refused,     \* a call returned an error that was not about the destination
    expected,    \* what a reader must return for the packets written
    lastDTS      \* of these

muxVars == <<seekable, tracks, file, cluster, clusterTime, maxEndTime, cues, started, closed, writeAt, failed, refused, expected, lastDTS>>

MuxInit ==
    /\ seekable \in BOOLEAN
    /\ tracks = <<>> /\ file = <<>> /\ cluster = <<>> /\ cues = <<>> /\ expected = <<>>
    /\ clusterTime = 0 /\ maxEndTime = 0 /\ writeAt = 0 /\ lastDTS = -1
    /\ started = FALSE /\ closed = FALSE /\ failed = FALSE /\ refused = FALSE

Working == ~closed /\ ~failed

AddStream(track) ==
    /\ Working /\ ~started
    /\ \E layout \in Layouts : IsPrefix(Append(tracks, track), layout)
    /\ tracks' = Append(tracks, track)
    /\ UNCHANGED <<seekable, file, cluster, clusterTime, maxEndTime, cues, started, closed, writeAt, failed, refused, expected, lastDTS>>

\* Toward zero.
Timecode(ticks) ==
    IF ticks < 0 THEN -((-ticks * TimecodeHz) \div TickHz) ELSE (ticks * TimecodeHz) \div TickHz

SegmentStart == 2   \* the EBML header and the header of the segment
InfoStart == SegmentStart
DurationAt == InfoStart + 2
TracksStart == IF seekable THEN InfoStart + 3 ELSE InfoStart + 2

SegmentHeader == IF seekable THEN Reserved("Segment", SegmentWidth) ELSE Unbounded("Segment", SegmentWidth)

\* The duration is reserved where it can be written later.
InfoElement == Master("Info", Leaf("TimestampScale", 1) \o IF seekable THEN Leaf("Duration", 0) ELSE <<>>)

TrackEntry(n) == Leaf("TrackEntry", [number |-> n, video |-> tracks[n].video, perFrame |-> 0])

TracksElement == Master("Tracks", FlattenSeq([n \in DOMAIN tracks |-> TrackEntry(n)]))

Header == Leaf("EBML", 0) \o SegmentHeader \o InfoElement \o TracksElement

\* A header of an element that was written over from behind its id.
Mangled == Cell("mangled", <<>>, 0)

\* The file after a write at some position, and where that write ends.
Put(f, position, cells) ==
    LET n == position \div 2
        first == IF position % 2 = 1 THEN Mangled ELSE Head(cells)
    IN  IF cells = <<>> THEN f
        ELSE SubSeq(f, 1, n) \o <<first>> \o Tail(cells) \o SubSeq(f, n + Len(cells) + 1, Len(f))
Behind(position, cells) == IF cells = <<>> THEN position ELSE 2 * (position \div 2 + Len(cells))

\* patchSizeAt, where the size fits.
WithSize(f, offset, width, size) == [f EXCEPT ![offset + 1].size = EncodeVINTWidth(size, width)]

ClusterSize == writeAt \div 2 - cluster[1] - 1

SizeFits == (cluster # <<>> /\ seekable) => EncodeVINTWidth(ClusterSize, ClusterWidth) # <<>>

ClosedCluster(f) ==
    IF cluster = <<>> \/ ~seekable THEN f ELSE WithSize(f, cluster[1], ClusterWidth, ClusterSize)

BeginCluster(time) ==
    (IF seekable THEN Reserved("Cluster", ClusterWidth) ELSE Unbounded("Cluster", ClusterWidth))
    \o Leaf("Timestamp", time)

PacketData(p) == [k \in 1 .. p.size |-> 10 * Len(expected) + k]

BlockGroup(p, relative) ==
    Master("BlockGroup",
        Leaf("Block", [track |-> p.track, relative |-> relative, key |-> FALSE, lacing |-> "none", body |-> PacketData(p)])
        \o Leaf("BlockDuration", Timecode(p.dur))
        \o (IF p.key THEN <<>> ELSE Leaf("ReferenceBlock", 0))
        \o (IF p.pad = 0 THEN <<>> ELSE Leaf("DiscardPadding", p.pad)))

NeedsCluster(time) ==
    cluster # <<>> => (time - clusterTime > ClusterSpan \/ time - clusterTime < MinRelative)

Opened(p, offset) ==
    [track |-> p.track, time |-> Timecode(p.pts), position |-> offset - SegmentStart]

\* What a packet adds to the file after the open cluster was closed, if it is.
Writes(p) ==
    LET time == Timecode(p.pts)
    IN  (IF started THEN <<>> ELSE Header)
        \o IF NeedsCluster(time) THEN BeginCluster(time) \o BlockGroup(p, 0) ELSE BlockGroup(p, time - clusterTime)

\* Packets come in decode order, which is the caller's part.
Accepted(p) ==
    /\ Working
    /\ lastDTS < p.dts
    /\ p.track \in DOMAIN tracks
    /\ Timecode(p.pts) >= 0 /\ Timecode(p.dur) > 0

Delivery(track, time, dur, pad, key, data) ==
    [track |-> track, time |-> time, dur |-> dur, pad |-> pad, key |-> key, data |-> data]

WritePacket(p) ==
    /\ Accepted(p)
    /\ LET time == Timecode(p.pts)
           anew == NeedsCluster(time)
           f == IF anew THEN ClosedCluster(file) ELSE file
           offset == writeAt \div 2 + IF started THEN 0 ELSE Len(Header)
       IN  /\ anew => SizeFits
           /\ file' = Put(f, writeAt, Writes(p))
           /\ writeAt' = Behind(writeAt, Writes(p))
           /\ cluster' = IF anew THEN <<offset>> ELSE cluster
           /\ clusterTime' = IF anew THEN time ELSE clusterTime
           /\ cues' = IF anew /\ seekable THEN Append(cues, Opened(p, offset)) ELSE cues
           /\ maxEndTime' = Max({maxEndTime, time + Timecode(p.dur)})
           /\ expected' = Append(expected, Delivery(p.track, time, Timecode(p.dur), p.pad,
                                                    p.key \/ ~tracks[p.track].video, PacketData(p)))
    /\ started' = TRUE /\ lastDTS' = p.dts
    /\ UNCHANGED <<seekable, tracks, closed, failed, refused>>

(* A cluster has outgrown its size when the next one is due.  It counts as *)
(* closed all the same, and the position stays at the size that could not  *)
(* be written: what the caller writes next goes over the cluster.          *)
Outgrown ==
    /\ ~SizeFits
    /\ refused' = TRUE /\ cluster' = <<>> /\ writeAt' = 2 * cluster[1] + 1

WriteRefused(p) ==
    /\ Accepted(p) /\ NeedsCluster(Timecode(p.pts)) /\ Outgrown
    /\ UNCHANGED <<seekable, tracks, file, clusterTime, maxEndTime, cues, started, closed, failed, expected, lastDTS>>

-----------------------------------------------------------------------------
CuePointElement(cue) ==
    Master("CuePoint",
        Leaf("CueTime", cue.time) \o Leaf("CueTrackPositions", [track |-> cue.track, position |-> cue.position]))

CuesElement ==
    IF cues = <<>> THEN <<>> ELSE Master("Cues", FlattenSeq([n \in DOMAIN cues |-> CuePointElement(cues[n])]))

SeekHead(cuesAt) ==
    Master("SeekHead", Leaf("Seek", [of |-> "Info", position |-> InfoStart - SegmentStart])
        \o Leaf("Seek", [of |-> "Tracks", position |-> TracksStart - SegmentStart])
        \o IF cuesAt < 0 THEN <<>> ELSE Leaf("Seek", [of |-> "Cues", position |-> cuesAt]))

\* The file after each thing Close does to it.
Closing ==
    LET f == ClosedCluster(file)
        timed == [f EXCEPT ![DurationAt + 1].val = maxEndTime]
        indexed == Put(timed, writeAt, CuesElement)
        head == SeekHead(IF cues = <<>> THEN -1 ELSE writeAt \div 2 - SegmentStart)
        headAt == Behind(writeAt, CuesElement)
        headed == Put(indexed, headAt, head)
        sized == WithSize(headed, SegmentStart - 1, SegmentWidth, Behind(headAt, head) \div 2 - SegmentStart)
    IN  IF ~started THEN <<file>>
        ELSE IF ~seekable THEN <<file, f>>
        ELSE <<file, f, timed, indexed, headed, sized>>

Close ==
    /\ Working
    /\ SizeFits
    /\ file' = Last(Closing)
    /\ cluster' = <<>>
    /\ closed' = TRUE
    /\ UNCHANGED <<seekable, tracks, clusterTime, maxEndTime, cues, started, writeAt, failed, refused, expected, lastDTS>>

CloseRefused ==
    /\ Working /\ Outgrown
    /\ closed' = TRUE
    /\ UNCHANGED <<seekable, tracks, file, clusterTime, maxEndTime, cues, started, failed, expected, lastDTS>>

\* The destination fails, or the program stops, anywhere in a write or in Close.
Fails ==
    /\ Working
    /\ \/ file' = file
       \/ \E p \in Packets :
            /\ Accepted(p) /\ (NeedsCluster(Timecode(p.pts)) => SizeFits)
            /\ \E k \in 0 .. Len(Writes(p)) - 1, torn \in BOOLEAN :
                  file' = Put(IF NeedsCluster(Timecode(p.pts)) THEN ClosedCluster(file) ELSE file, writeAt,
                              SubSeq(Writes(p), 1, k) \o IF torn THEN <<Torn>> ELSE <<>>)
       \/ SizeFits /\ \E n \in 1 .. Len(Closing) - 1 : file' = Closing[n]
    /\ failed' = TRUE
    /\ UNCHANGED <<seekable, tracks, cluster, clusterTime, maxEndTime, cues, started, closed, writeAt, refused, expected, lastDTS>>

MuxNext ==
    \/ \E layout \in Layouts : \E n \in DOMAIN layout : AddStream(layout[n])
    \/ Len(expected) < MaxPackets /\ \E p \in Packets : WritePacket(p)
    \/ Len(expected) < MaxPackets /\ \E p \in Packets : WriteRefused(p)
    \/ Close
    \/ CloseRefused
    \/ Len(expected) \in FailAfter /\ Fails
=============================================================================
