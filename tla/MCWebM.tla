------------------------------- MODULE MCWebM -------------------------------
(* Video on track 1, shown in another order than decoded, and audio on track 2. *)
EXTENDS WebM

MCMinRelative == -4

MCLayouts == {<<[video |-> TRUE, perFrame |-> 0], [video |-> FALSE, perFrame |-> 0]>>}

Packet(track, dts, pts, dur, key, pad) ==
    [track |-> track, dts |-> dts, pts |-> pts, dur |-> dur, key |-> key, pad |-> pad, size |-> 1]

\* In timecodes at 0, 10, 6, 13 and 18; the third is the only one that may belong before its
\* cluster.  The second to the fourth are more than fits into one.
MCPackets ==
    {Packet(1, 0, 0, 3, TRUE, 0), Packet(2, 3, 16, 4, TRUE, 1), Packet(1, 6, 10, 2, FALSE, 1),
     Packet(1, 8, 20, 2, FALSE, 1), Packet(1, 9, 27, 2, TRUE, 0)}

\* Reference encoders of the three ways to put several frames into a block.
XiphSize(n) == [k \in 1 .. n \div 7 |-> 7] \o <<n % 7>>
XiphLace(frames) ==
    <<Len(frames) - 1>> \o FlattenSeq([n \in 1 .. Len(frames) - 1 |-> XiphSize(Len(frames[n]))]) \o FlattenSeq(frames)
FixedLace(frames) == <<Len(frames) - 1>> \o FlattenSeq(frames)
EbmlLace(frames) ==
    LET Delta(n) == Len(frames[n]) - Len(frames[n - 1])
        width(d) == IF d \in -1 .. 2 THEN 1 ELSE 2
        Bias(w) == 2 ^ (DataBits(w) - 1) - 1
    IN  <<Len(frames) - 1>> \o EncodeVINT(Len(frames[1]))
            \o FlattenSeq([n \in 1 .. Len(frames) - 2 |->
                    VintBytes(Delta(n + 1) + Bias(width(Delta(n + 1))), width(Delta(n + 1)))])
            \o FlattenSeq(frames)

Frame(first, length) == [k \in 1 .. length |-> 100 + 10 * first + (k % 10)]
Laced == <<Frame(1, 9), Frame(2, 2), Frame(3, 1)>>
Even == <<Frame(4, 2), Frame(5, 2)>>

Block(track, relative, key, lacing, body) ==
    [track |-> track, relative |-> relative, key |-> key, lacing |-> lacing, body |-> body]

Entries == Master("Tracks",
              Leaf("TrackEntry", [number |-> 1, video |-> TRUE, perFrame |-> 0])
              \o Leaf("TrackEntry", [number |-> 2, video |-> FALSE, perFrame |-> 2]))
Info == Master("Info", Leaf("TimestampScale", 2))
FirstCluster == Master("Cluster",
    Leaf("Timestamp", 0)
    \o Leaf("SimpleBlock", Block(2, 1, TRUE, "xiph", XiphLace(Laced)))
    \o Master("BlockGroup", Leaf("Block", Block(2, 4, FALSE, "ebml", EbmlLace(Laced)))
                            \o Leaf("BlockDuration", 4) \o Leaf("DiscardPadding", 1)))
SecondCluster == Unbounded("Cluster", 2)
    \o Leaf("Void", 0) \o Leaf("Timestamp", 10)
    \o Leaf("SimpleBlock", Block(1, -1, TRUE, "none", Frame(6, 1)))
    \o Leaf("SimpleBlock", Block(2, 0, TRUE, "fixed", FixedLace(Even)))
Cue(time, track, position) ==
    Master("CuePoint", Leaf("CueTime", time) \o Leaf("CueTrackPositions", [track |-> track, position |-> position]))

\* Tracks before the first cluster, the information after it; cues and tags at the end.
Late ==
    LET index == Len(Entries) + Len(FirstCluster) + Len(Info)
    IN  Entries \o FirstCluster \o Info \o SecondCluster
        \o Master("Cues", Cue(0, 2, Len(Entries)) \o Cue(10, 1, index)) \o Master("Tags", Leaf("Tag", 0))

\* In the usual order, with the cues first.
Early ==
    LET index(at) == Master("Cues", Cue(10, 1, at))
        prefix == Info \o Entries
    IN  prefix \o index(Len(prefix) + Len(index(0)) + Len(FirstCluster)) \o FirstCluster \o SecondCluster

Video(time, data) == Delivery(1, time, 0, 0, TRUE, data)
Audio(time, dur, pad, data) == Delivery(2, time, dur, pad, TRUE, data)

\* Times in units of half a timecode: the frames of a lace follow one another.
Frames ==
    <<Audio(2, 2, 0, Laced[1]), Audio(4, 2, 0, Laced[2]), Audio(6, 2, 0, Laced[3]),
      Audio(8, 2, 0, Laced[1]), Audio(10, 2, 0, Laced[2]), Audio(12, 4, 1, Laced[3]),
      Video(18, Frame(6, 1)), Audio(20, 2, 0, Even[1]), Audio(22, 2, 0, Even[2])>>

MCForeign ==
    {[file |-> Leaf("EBML", 0) \o Unbounded("Segment", 3) \o Late, expected |-> Frames],
     [file |-> Leaf("EBML", 0) \o Master("Segment", Early), expected |-> Frames]}
=============================================================================
