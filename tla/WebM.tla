-------------------------------- MODULE WebM --------------------------------
(***************************************************************************)
(* A muxer writes a WebM file and a reader reads it: whole, as far as it   *)
(* was written when the muxer or its destination stopped, or still         *)
(* arriving.  Or another muxer wrote it, in ways this one does not.        *)
(***************************************************************************)
EXTENDS WebMMuxer, WebMReader

CONSTANT Foreign   \* files of other muxers: [file, expected]

vars == <<muxVars, readVars>>

Given(f) ==
    /\ file = f.file /\ expected = f.expected
    /\ started = TRUE /\ closed = TRUE
    /\ seekable = FALSE /\ tracks = <<>> /\ cluster = <<>> /\ cues = <<>>
    /\ clusterTime = 0 /\ maxEndTime = 0 /\ writeAt = 0 /\ lastDTS = -1
    /\ failed = FALSE /\ refused = FALSE

Init == (MuxInit \/ \E f \in Foreign : Given(f)) /\ ReadInit

Writing == MuxNext /\ UNCHANGED readVars

\* A cluster has outgrown its size, and something was written over it: nothing is said of such a file.
Overwritten == \E n \in DOMAIN file : file[n].id = "mangled"

Reading == (closed \/ failed) /\ ~Overwritten /\ ReadNext /\ UNCHANGED muxVars

Next == Writing \/ Reading

Spec == Init /\ [][Next]_vars

-----------------------------------------------------------------------------
\* Clusters of the file: where each starts and its time.
ClusterStarts == {n \in DOMAIN file : file[n].id = "Cluster"}
ClusterTime(n) ==
    LET stamps == {m \in DOMAIN file : m > n /\ file[m].id = "Timestamp"}
    IN  IF stamps = {} THEN 0 ELSE file[Min(stamps)].val

\* Frames of the blocks before a cell.
FramesBefore(n) ==
    LET count[m \in 0 .. n - 1] ==
            IF m = 0 THEN 0
            ELSE count[m - 1] + IF file[m].id \in {"Block", "SimpleBlock"} THEN Len(BlockFrames(file[m].val)) ELSE 0
    IN  count[n - 1]

\* What a reader that starts at the last point sought should return.
Due ==
    IF sought = <<>> THEN expected
    ELSE SubSeq(expected, FramesBefore(sought[1].point.position + 1) + 1, Len(expected))

\* A file without an index and with a size of nothing, as it is before Close.
Unfinished == (failed \/ refused) /\ seekable

(***************************************************************************)
(* Whatever reads are cancelled and retried, whatever seeks fail on the    *)
(* way, and wherever the writing stopped, a reader returns the packets     *)
(* that were written, each once and in order, times rounded to timecodes,  *)
(* from the start or from the cluster the last seek went to.               *)
(***************************************************************************)
ReadsBack == IsPrefix(delivered, Due)

(***************************************************************************)
(* It returns all of them before it reports the end.  A stream to a        *)
(* destination that cannot seek keeps what was written when the muxer      *)
(* stopped; a file that can be sought in and was not closed is refused.    *)
(* Both as long as nothing was written over a cluster that outgrew its     *)
(* size, which a caller that goes on after that error does.                *)
(***************************************************************************)
NothingLost ==
    /\ (mode = "open" /\ cause = "" /\ result \notin {"opened", "packet", "sought"}) => delivered = Due
    /\ mode = "open" => ~Unfinished
    /\ (mode = "refused" /\ expected # <<>>) => Unfinished

(***************************************************************************)
(* A seek goes to a cluster and reports its time, and between it and the   *)
(* target, rounded down to a timecode (open.go:358), there is no point     *)
(* that was eligible: no cluster if SeekAny is set, no cue of the track    *)
(* otherwise.  A cue is no promise of a sync point, as every cluster gets  *)
(* one (mux_ebml.go:310-327).  If there is none in the direction asked for *)
(* it stays at that end of the file.  This holds however much of the index *)
(* playback, earlier seeks and failed ones have collected, as long as the  *)
(* times of the clusters do not decrease.                                  *)
(***************************************************************************)
SeekNearest ==
    sought # <<>> =>
        LET s == sought[1]
            at == s.point.position + 1
            Eligible == IF s.any THEN ClusterStarts
                        ELSE {n \in ClusterStarts : \E m \in DOMAIN file :
                                /\ file[m].id = "CueTrackPositions"
                                /\ file[m].val.position + SegmentStart + 1 = n
                                /\ s.track < 0 \/ file[m].val.track = s.track}
            Fits(t) == IF s.backward THEN t <= s.target ELSE t >= s.target
            Nearer(t, u) == IF s.backward THEN t > u ELSE t < u
        IN  /\ at \in ClusterStarts /\ s.point.time = ClusterTime(at)
            /\ (\A m, n \in ClusterStarts : m < n => ClusterTime(m) <= ClusterTime(n)) =>
                  IF Fits(s.point.time)
                  THEN \A n \in Eligible : Fits(ClusterTime(n)) => ~Nearer(ClusterTime(n), s.point.time)
                  ELSE /\ \A n \in Eligible : ~Fits(ClusterTime(n))
                       /\ \A n \in ClusterStarts : IF s.backward THEN ClusterTime(n) >= s.point.time
                                                                 ELSE ClusterTime(n) <= s.point.time
=============================================================================
