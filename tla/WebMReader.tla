----------------------------- MODULE WebMReader -----------------------------
(***************************************************************************)
(* The WebM and Matroska reader: internal/format/webm/demux_reader.go,     *)
(* demux_index.go and block_lacing.go behind the demuxer of                *)
(* pkg/media/open.go.  It reads a file that may still be arriving, keeps   *)
(* an index of the clusters it comes across, and completes it only as far  *)
(* as a seek needs.                                                        *)
(*                                                                         *)
(* The reader is a record.  Each operator takes one and returns it as the  *)
(* code leaves it, "err" set if a read failed; "e" is the element whose    *)
(* header was read last.                                                   *)
(***************************************************************************)
EXTENDS Ebml

CONSTANTS
    Targets,     \* targets of seeks, in timecodes
    CancelSpan,  \* bound on how far a call gets before it is cancelled, in halves of a cell
    MaxCancels, MaxSeeks   \* bounds on cancelled calls and on seeks

VARIABLES
    sized,      \* the source knows its length
    mode,       \* "none", "refused" or "open"
    rd,         \* the DemuxReader
    delivered,  \* packets returned since Open or the last Seek
    sought,     \* <<>>, or what the last seek asked for and where it went
    result,     \* what the last call returned
    cause,      \* what the source failed with during the last call, "" if it did not
    cancels, seeks

readVars == <<sized, mode, rd, delivered, sought, result, cause, cancels, seeks>>

NoLimit == -1
Endless == 1000   \* stands for math.MaxInt64
Size == IF sized THEN Len(file) ELSE Endless

NewReader ==
    [pos |-> 0, err |-> "", cause |-> "", retry |-> 0, done |-> FALSE,
     e |-> [id |-> "", start |-> 0, end |-> 0, unknown |-> FALSE, val |-> 0],
     segmentStart |-> 0, segmentEnd |-> 0, firstCluster |-> -1, haveInfo |-> FALSE,
     tracks |-> <<>>, scale |-> 1, duration |-> -1, ticks |-> 0,
     indexComplete |-> FALSE, indexNext |-> 0, scanMax |-> 0,
     cues |-> <<>>, parsedCues |-> {}, clusters |-> <<>>,
     inCluster |-> FALSE, clusterPosition |-> 0, clusterEnd |-> 0, clusterUnknown |-> FALSE, clusterTicks |-> 0,
     pending |-> <<>>]

ReadInit ==
    /\ sized \in BOOLEAN
    /\ mode = "none" /\ rd = NewReader /\ delivered = <<>> /\ sought = <<>> /\ result = "none" /\ cause = ""
    /\ cancels = 0 /\ seeks = 0

Fail(x, why) == [x EXCEPT !.err = why]

\* x after as many steps as it takes until a read fails or Done holds.
Until(x, Step(_), Done(_)) ==
    LET RECURSIVE Go(_)
        Go(y) == IF y.err # "" \/ Done(y) THEN y ELSE Go(Step(y))
    IN  Go(x)

\* y with one more step, unless a read failed on the way to it.
Then(y, Step(_)) == IF y.err # "" THEN y ELSE Step(y)

-----------------------------------------------------------------------------
\* Into an element of some size, width 0 if its end is unknown.
Entered(x, cell, size) ==
    IF size.width # 0 /\ x.pos + 1 + size.val > Size THEN Fail(x, "unexpected EOF")
    ELSE [x EXCEPT !.pos = @ + 1,
                   !.e = [id |-> cell.id, start |-> x.pos, val |-> cell.val, unknown |-> size.width = 0,
                          end |-> IF size.width = 0 THEN -1 ELSE x.pos + 1 + size.val]]

\* ReadHeader: past its first byte, whatever the source fails with becomes ErrShortInput.
ReadElement(x, limit) ==
    IF limit # NoLimit /\ limit <= 2 * x.pos THEN [x EXCEPT !.err = "cancelled", !.cause = "cancelled"]
    ELSE IF x.pos >= Len(file) THEN Fail(x, "eof")
    ELSE IF limit = 2 * x.pos + 1 THEN [x EXCEPT !.err = "short input", !.cause = "cancelled"]
    ELSE IF file[x.pos + 1].id = "torn" THEN Fail(x, "short input")
    ELSE LET cell == file[x.pos + 1]
         IN  Entered(x, cell, IF IsUnknownSize(cell.size) THEN [val |-> 0, width |-> 0] ELSE DecodeVINT(cell.size))

SkipElement(x) == IF x.e.unknown THEN Fail(x, "unknown size") ELSE [x EXCEPT !.pos = x.e.end]

\* The children of the element just read, one after another.
Children(x, limit, Child(_)) ==
    LET end == x.e.end
    IN  Until(x, LAMBDA y : Then(ReadElement(y, limit), Child), LAMBDA y : y.pos >= end)

LevelOne == {"SeekHead", "Info", "Cluster", "Tracks", "Cues", "Tags", "Attachments", "Chapters"}

-----------------------------------------------------------------------------
\* parseBlockPayload: the sizes of all frames but the last.
LaceSizes(lacing, count, body) ==
    LET Xiph[n \in 0 .. Len(body)] ==
            \* after n bytes: sizes complete, the one being added up, bytes used
            IF n = 0 THEN [sizes |-> <<>>, sum |-> 0, used |-> 0]
            ELSE LET s == Xiph[n - 1]
                     sum == s.sum + body[n]
                 IN  IF Len(s.sizes) = count - 1 THEN s
                     ELSE IF body[n] = 2 ^ ByteBits - 1 THEN [s EXCEPT !.sum = sum, !.used = n]
                     ELSE [sizes |-> Append(s.sizes, sum), sum |-> 0, used |-> n]
        Delta(vint) == vint.val - (2 ^ (DataBits(vint.width) - 1) - 1)
        Ebml[n \in 0 .. count - 1] ==
            IF n = 0 THEN [sizes |-> <<>>, sum |-> 0, used |-> 0]
            ELSE LET s == Ebml[n - 1]
                     vint == DecodeVINT(SubSeq(body, s.used + 1, Len(body)))
                     size == IF n = 1 THEN vint.val ELSE Last(s.sizes) + Delta(vint)
                 IN  IF s.sum < 0 \/ vint.width = 0 \/ size < 0 THEN [s EXCEPT !.sum = -1]
                     ELSE [s EXCEPT !.sizes = Append(@, size), !.used = @ + vint.width]
    IN  CASE lacing = "xiph" -> Xiph[Len(body)]
          [] lacing = "fixed" -> [sizes |-> [n \in 1 .. count - 1 |-> Len(body) \div count], sum |-> 0, used |-> 0]
          [] lacing = "ebml" -> Ebml[count - 1]

\* A lace cut by its sizes, the last frame what is left.
Unlaced(sizes, count, data) ==
    LET Sum[n \in 0 .. count - 1] == IF n = 0 THEN 0 ELSE Sum[n - 1] + sizes[n]
    IN  IF Len(sizes) < count - 1 \/ Sum[count - 1] > Len(data) THEN <<>>
        ELSE [n \in 1 .. count |->
                 SubSeq(data, Sum[n - 1] + 1, IF n = count THEN Len(data) ELSE Sum[n])]

\* The frames of a block, none if its lacing is damaged.
BlockFrames(block) ==
    LET count == block.body[1] + 1
        body == Tail(block.body)
        Cut(lace) == Unlaced(lace.sizes, count, SubSeq(body, lace.used + 1, Len(body)))
    IN  IF block.lacing = "none" THEN <<block.body>>
        ELSE IF block.body = <<>> \/ count < 2 THEN <<>>
        ELSE IF block.lacing = "fixed" /\ Len(body) % count # 0 THEN <<>>
        ELSE Cut(LaceSizes(block.lacing, count, body))

\* The frames of a laced block share its duration, the last gets what is left over.
Durations(count, total, perFrame) ==
    [n \in 1 .. count |->
        IF total > 0 THEN (total \div count) + IF n = count THEN total % count ELSE 0
        ELSE perFrame]

TrackOf(x, number) == {t \in Range(x.tracks) : t.number = number}

QueueFrames(x, frames, block, key, total, padding) ==
    LET track == CHOOSE t \in TrackOf(x, block.track) : TRUE
        base == (x.clusterTicks + block.relative) * x.scale
        durations == Durations(Len(frames), total * x.scale, track.perFrame)
        Start[n \in 1 .. Len(frames)] == IF n = 1 THEN base ELSE Start[n - 1] + durations[n - 1]
    IN  IF frames = <<>> THEN Fail(x, "invalid lacing")
        ELSE IF TrackOf(x, block.track) = {} THEN Fail(x, "unknown track")
        ELSE [x EXCEPT !.pending = @ \o [n \in DOMAIN frames |->
                 [track |-> block.track, time |-> Start[n], dur |-> durations[n],
                  pad |-> IF n = Len(frames) THEN padding ELSE 0, key |-> ~track.video \/ key, data |-> frames[n]]]]

\* queueBlock.
QueueBlock(x, block, key, total, padding) == QueueFrames(x, BlockFrames(block), block, key, total, padding)

\* parseBlockGroupPacket gathers what it finds in the group, then queues the block.
BlockGroupPacket(x, limit) ==
    LET start == x.pos
        Found(id) == {n \in start + 1 .. x.e.end : file[n].id = id}
        Value(id) == IF Found(id) = {} THEN 0 ELSE file[Max(Found(id))].val
    IN  IF x.e.unknown THEN Fail(x, "unknown-size BlockGroup")
        ELSE Then(Children(x, limit, SkipElement), LAMBDA y :
                IF Found("Block") = {} THEN y
                ELSE QueueBlock(y, file[Max(Found("Block"))].val, Found("ReferenceBlock") = {},
                                Value("BlockDuration"), Value("DiscardPadding")))

-----------------------------------------------------------------------------
CuePoint(x, limit) ==
    LET cells == {n \in x.pos + 1 .. x.e.end : file[n].id = "CueTrackPositions"}
        times == {n \in x.pos + 1 .. x.e.end : file[n].id = "CueTime"}
        time == IF times = {} THEN 0 ELSE file[Max(times)].val
        points == [n \in 1 .. Cardinality(cells) |->
                      [time |-> time] @@ file[SetToSortSeq(cells, LAMBDA a, b : a < b)[n]].val]
    IN  Then(Children(x, limit, SkipElement), LAMBDA y : [y EXCEPT !.cues = @ \o points])

\* A Cues element counts once and as a whole: what a failed attempt added is taken back.
ParseCues(x, limit) ==
    LET Child(y) == IF y.e.id = "CuePoint" THEN CuePoint(y, limit) ELSE SkipElement(y)
        Kept(y) == IF y.err # "" THEN [y EXCEPT !.cues = x.cues] ELSE [y EXCEPT !.parsedCues = @ \cup {x.e.start}]
    IN  IF x.e.start \in x.parsedCues THEN SkipElement(x) ELSE Kept(Children(x, limit, Child))

\* consumeIndexElement.  What tags say is left out.
ConsumeIndexElement(x, limit) ==
    CASE x.e.id = "Cues" -> ParseCues(x, limit)
      [] x.e.id = "Tags" -> Children(x, limit, SkipElement)
      [] OTHER -> SkipElement(x)

RecordCluster(x, position, ticks) ==
    IF \E n \in DOMAIN x.clusters : x.clusters[n].position = position THEN x
    ELSE [x EXCEPT !.clusters = Append(@, [position |-> position, time |-> ticks])]

(***************************************************************************)
(* scanClusterContext: the Timestamp of the cluster just entered, and to   *)
(* its end.  One of unknown size ends where an element of the segment      *)
(* starts.                                                                 *)
(***************************************************************************)
ScanCluster(x, limit) ==
    LET cluster == x.e
        begun == [x EXCEPT !.done = FALSE, !.ticks = 0]
        Sized(y) == Then(ReadElement(y, limit), LAMBDA z :
                        IF z.e.id = "Timestamp" THEN [z EXCEPT !.ticks = z.e.val, !.done = TRUE] ELSE SkipElement(z))
        Child(y, z) == IF z.err = "eof" THEN [y EXCEPT !.done = TRUE]
                       ELSE IF z.err # "" THEN z
                       ELSE IF z.e.id \in LevelOne THEN [z EXCEPT !.pos = z.e.start, !.done = TRUE]
                       ELSE IF z.e.id = "Timestamp" THEN [z EXCEPT !.ticks = z.e.val]
                       ELSE SkipElement(z)
        Open(y) == Child(y, ReadElement(y, limit))
        scanned == IF cluster.unknown THEN Until(begun, Open, LAMBDA y : y.done \/ y.pos >= x.segmentEnd)
                   ELSE Then(Until(begun, Sized, LAMBDA y : y.done \/ y.pos >= cluster.end),
                             LAMBDA y : [y EXCEPT !.pos = cluster.end])
    IN  [scanned EXCEPT !.e = cluster, !.done = FALSE]

\* A cluster found by a scan.
Indexed(x, limit) == Then(ScanCluster(x, limit), LAMBDA y : RecordCluster(y, y.e.start, y.ticks))

-----------------------------------------------------------------------------
ParseInfo(x) ==
    Children([x EXCEPT !.haveInfo = TRUE], NoLimit, LAMBDA y :
        IF y.e.id = "TimestampScale" THEN IF y.e.val = 0 THEN Fail(y, "invalid TimestampScale") ELSE [y EXCEPT !.scale = y.e.val]
        ELSE IF y.e.id = "Duration" THEN [y EXCEPT !.duration = y.e.val]
        ELSE SkipElement(y))

\* parseDemuxTrack: of what an entry says, its number, its type and the duration of its frames.
DemuxTrack(x) == x.e.val

ParseTracks(x) ==
    Children(x, NoLimit, LAMBDA y :
        IF y.e.id # "TrackEntry" THEN SkipElement(y)
        ELSE IF DemuxTrack(y).number <= 0 \/ TrackOf(y, DemuxTrack(y).number) # {} THEN Fail(y, "track number")
        ELSE [y EXCEPT !.tracks = Append(@, DemuxTrack(y))])

\* One element of the segment, up to the first cluster after Info and Tracks: x, and y with its header read.
ScanHeader(x, y) ==
    LET first == [y EXCEPT !.firstCluster = IF @ < 0 THEN y.e.start ELSE @]
    IN  IF x.pos >= x.segmentEnd \/ y.err = "eof" THEN [x EXCEPT !.indexComplete = TRUE, !.done = TRUE]
        ELSE IF y.err # "" THEN y
        ELSE IF y.e.id = "Info" THEN ParseInfo(y)
        ELSE IF y.e.id = "Tracks" THEN ParseTracks(y)
        ELSE IF y.e.id # "Cluster" THEN ConsumeIndexElement(y, NoLimit)
        ELSE IF y.haveInfo /\ y.tracks # <<>> THEN [first EXCEPT !.done = TRUE]
        ELSE Indexed(first, NoLimit)

\* NewDemuxReaderWithSize.
Scanned ==
    LET ebml == ReadElement(NewReader, NoLimit)
        segment == Then(ebml, LAMBDA x : IF x.e.id # "EBML" \/ x.e.unknown THEN Fail(x, "missing EBML header")
                                         ELSE ReadElement(x, NoLimit))
        started == Then(segment, LAMBDA x :
                      IF x.e.id # "Segment" THEN Fail(x, "missing Segment")
                      ELSE [x EXCEPT !.segmentStart = x.pos, !.segmentEnd = IF x.e.unknown THEN Size ELSE x.e.end])
    IN  Then(Until(started, LAMBDA x : ScanHeader(x, ReadElement(x, NoLimit)), LAMBDA x : x.done), LAMBDA x :
            IF x.tracks = <<>> THEN Fail(x, "no tracks")
            ELSE [x EXCEPT !.done = FALSE, !.pos = IF x.firstCluster >= 0 THEN x.firstCluster ELSE @])

-----------------------------------------------------------------------------
InCluster(x, limit) ==
    IF ~x.clusterUnknown /\ x.pos >= x.clusterEnd THEN [x EXCEPT !.inCluster = FALSE]
    ELSE Then(ReadElement(x, limit), LAMBDA y :
        IF y.clusterUnknown /\ y.e.id \in LevelOne THEN [y EXCEPT !.pos = y.e.start, !.inCluster = FALSE]
        ELSE IF y.e.id = "Timestamp" THEN RecordCluster([y EXCEPT !.clusterTicks = y.e.val], y.clusterPosition, y.e.val)
        ELSE IF y.e.id = "SimpleBlock" THEN QueueBlock(y, y.e.val, y.e.val.key, 0, 0)
        ELSE IF y.e.id = "BlockGroup" THEN BlockGroupPacket(y, limit)
        ELSE SkipElement(y))

InSegment(x, limit) ==
    IF x.pos >= x.segmentEnd THEN [x EXCEPT !.indexComplete = TRUE, !.err = "eof"]
    ELSE Then(ReadElement(x, limit), LAMBDA y :
        IF y.e.id # "Cluster" THEN ConsumeIndexElement(y, limit)
        ELSE [y EXCEPT !.inCluster = TRUE, !.clusterPosition = y.e.start, !.clusterUnknown = y.e.unknown,
                       !.clusterEnd = y.e.end, !.clusterTicks = 0])

Step_FromCallStart(x, limit) == IF x.inCluster THEN InCluster(x, limit) ELSE InSegment(x, limit)

\* What fails is tried again from the element it failed in.
Step(x, limit) ==
    LET y == [x EXCEPT !.retry = x.pos]
    IN  IF y.inCluster THEN InCluster(y, limit) ELSE InSegment(y, limit)

\* NextPacket.
Read(x, limit) ==
    LET Retried(y) == IF y.err # "" THEN [y EXCEPT !.pos = y.retry] ELSE y
    IN  Retried(Until([x EXCEPT !.retry = x.pos], LAMBDA y : Step(y, limit), LAMBDA y : y.pending # <<>>))

-----------------------------------------------------------------------------
IndexCovers_AnyCluster(x, target) == \E n \in DOMAIN x.clusters : x.clusters[n].time >= target

\* Clusters that playback came across do not count: there may be others before them.
IndexCovers(x, target) == x.indexNext # 0 /\ x.scanMax >= target

\* One element of the segment: x, and y with its header read.
IndexStep(x, y, limit) ==
    LET Cluster == Then(Indexed(y, limit), LAMBDA z :
                      [z EXCEPT !.scanMax = Max({@, z.ticks}), !.indexNext = z.pos])
        Other == Then(ConsumeIndexElement(y, limit), LAMBDA z : [z EXCEPT !.indexNext = z.pos])
    IN  IF x.pos >= x.segmentEnd \/ y.err = "eof" THEN [x EXCEPT !.indexComplete = TRUE, !.done = TRUE]
        ELSE IF y.err # "" THEN y
        ELSE IF y.e.id = "Cluster" THEN Cluster ELSE Other

\* completeIndex: from where the last scan stopped, and back to where playback was.
CompleteIndex(x, target, limit) ==
    IF x.firstCluster < 0 THEN [x EXCEPT !.indexComplete = TRUE]
    ELSE [Until([x EXCEPT !.pos = IF x.indexNext # 0 THEN x.indexNext ELSE x.firstCluster],
                LAMBDA y : IndexStep(y, ReadElement(y, limit), limit),
                LAMBDA y : y.done \/ IndexCovers(y, target))
            EXCEPT !.done = FALSE, !.pos = x.pos]

-----------------------------------------------------------------------------
\* Points to seek to, in the order in which they became known.
CuePoints(x, track) ==
    SelectSeq([n \in DOMAIN x.cues |-> [x.cues[n] EXCEPT !.position = x.segmentStart + @]],
              LAMBDA p : track < 0 \/ p.track = track)

Suitable(x, points, target, backward) ==
    SelectSeq(points, LAMBDA p : /\ x.segmentStart <= p.position /\ p.position < x.segmentEnd
                                 /\ IF backward THEN p.time <= target ELSE p.time >= target)

\* The latest or the earliest of some points, the first to be known of those at the same time.
Extreme(points, latest) ==
    FoldLeft(LAMBDA p, q : IF IF latest THEN q.time > p.time ELSE q.time < p.time THEN q ELSE p, Head(points), Tail(points))

\* Where SeekTicksWithFlags goes, given the index it has.
SeekPoint(x, target, track, backward, any) ==
    LET cues == IF any THEN <<>> ELSE Suitable(x, CuePoints(x, track), target, backward)
        eligible == IF cues # <<>> THEN cues ELSE Suitable(x, x.clusters, target, backward)
        point == IF eligible # <<>> THEN Extreme(eligible, backward)
                 ELSE IF x.clusters # <<>> THEN Extreme(x.clusters, ~backward)
                 ELSE [position |-> x.firstCluster, time |-> 0]
    IN  [position |-> point.position, time |-> point.time]

\* Cues that are known answer at once; otherwise the index must reach the target first.
NeedsIndex(x, target, track, backward, any) ==
    /\ any \/ Suitable(x, CuePoints(x, track), target, backward) = <<>>
    /\ ~x.indexComplete

SeekTo(x, p) ==
    [x EXCEPT !.pos = p.position, !.pending = <<>>, !.inCluster = FALSE, !.clusterUnknown = FALSE,
              !.clusterEnd = 0, !.clusterTicks = 0]

-----------------------------------------------------------------------------
\* A call may be cancelled wherever the source still has something to give.
MayCancel(limit) == limit # NoLimit => cancels < MaxCancels /\ limit < 2 * Len(file)

\* The record between calls, without what only a call needs.
Settled(x) == [x EXCEPT !.err = "", !.cause = "", !.retry = 0, !.ticks = 0, !.e = NewReader.e]

Ended(x) ==
    /\ rd' = Settled(x)
    /\ cause' = x.cause
    /\ cancels' = IF x.cause = "" THEN cancels ELSE cancels + 1

Open ==
    /\ mode = "none"
    /\ \E x \in {Scanned} :
          /\ mode' = IF x.err = "" THEN "open" ELSE "refused"
          /\ result' = IF x.err = "" THEN "opened" ELSE x.err
          /\ Ended(x)
    /\ UNCHANGED <<sized, delivered, sought, seeks>>

\* A caller goes on after an error of the source, and gives up at any other.
Running == mode = "open" /\ (result \in {"opened", "packet", "sought"} \/ cause # "")

ReadPacket(limit) ==
    /\ Running /\ MayCancel(limit)
    /\ \E x \in {Read(rd, limit)} :
          IF x.err # "" THEN Ended(x) /\ result' = x.err /\ UNCHANGED delivered
          ELSE /\ Ended([x EXCEPT !.pending = Tail(@)])
               /\ result' = "packet" /\ delivered' = Append(delivered, Head(x.pending))
    /\ UNCHANGED <<sized, mode, sought, seeks>>

Seek(asked, track, backward, any, limit) ==
    /\ Running /\ MayCancel(limit) /\ seeks < MaxSeeks
    /\ any => track < 0   \* which then looks at no cues
    /\ \E target \in {Max({asked, 0}) \div rd.scale} :
       \E x \in {IF NeedsIndex(rd, target, track, backward, any) THEN CompleteIndex(rd, target, limit) ELSE rd} :
       \E p \in {SeekPoint(x, target, track, backward, any)} :
           IF x.err # "" \/ p.position < 0
           THEN /\ rd' = Settled(x)
                /\ cancels' = IF x.cause = "" THEN cancels ELSE cancels + 1
                /\ UNCHANGED <<delivered, sought, result, cause, seeks>>
           ELSE /\ Ended(SeekTo(x, p)) /\ result' = "sought" /\ delivered' = <<>> /\ seeks' = seeks + 1
                /\ sought' = <<[target |-> target, track |-> track, backward |-> backward, any |-> any, point |-> p]>>
    /\ UNCHANGED <<sized, mode>>

\* A scan is cancelled where it would keep something, in the middle of a header.
ScanCancels ==
    IF cancels >= MaxCancels \/ rd.indexComplete THEN {}
    ELSE {2 * n - 1 : n \in {n \in Max({rd.firstCluster, rd.indexNext, 0}) + 1 .. Len(file) :
                                file[n].id \in {"Cluster", "Timestamp", "CueTime", "SeekHead"}}}

ReadNext ==
    \/ Open
    \/ \E limit \in {NoLimit} \cup 2 * rd.pos .. 2 * rd.pos + CancelSpan : ReadPacket(limit)
    \/ \E target \in Targets, track \in {-1} \cup DOMAIN rd.tracks, backward, any \in BOOLEAN,
          limit \in {NoLimit} \cup ScanCancels :
            Seek(target, track, backward, any, limit)
=============================================================================
