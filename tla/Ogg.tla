--------------------------------- MODULE Ogg ---------------------------------
(***************************************************************************)
(* An encoder writes an Ogg Opus stream and the reader reads it, whole or  *)
(* damaged on the way.  The encoder is not part of the repository: it is   *)
(* any that follows the format.  It puts the segments of packets on pages  *)
(* as it likes, among the pages of another stream.                         *)
(***************************************************************************)
EXTENDS OggReader

CONSTANTS
    Streams,      \* what it may encode: packets [dur, size], in samples and segments, from a granule position on
    TagSizes,     \* segments of the comment header
    Trims,        \* samples at the end that are not to be played
    PageRoom,     \* segments of a page: 255
    SharesTags,   \* the first audio may be on the page on which the comments end
    Damages       \* what may happen to the file: "lost", "corrupt", "cut", "cut after its header"

VARIABLES
    todo,      \* packets that are not yet encoded
    open,      \* segments of packets that are not yet on a page
    clock,     \* granule position at the end of what was encoded
    encoded,   \* what the reader must return for the packets
    finished,
    damaged    \* 0, or the first page that is not as it was written

encoderVars == <<todo, open, clock, encoded, finished, damaged>>
vars == <<file, encoderVars, readVars>>

\* Packet 0 is the head, packet 1 the comments.
Piece(of, k, dur) == [of |-> of, k |-> k, dur |-> dur]
Segments(of, size, dur, end) ==
    [k \in 1 .. size |-> [full |-> k < size, data |-> Piece(of, k, dur), end |-> end]]

Page(segs, cont, bos, eos, seq, granule) ==
    [serial |-> 1, bos |-> bos, cont |-> cont, eos |-> eos, seq |-> seq, granule |-> granule,
     segs |-> [k \in DOMAIN segs |-> [full |-> segs[k].full, data |-> segs[k].data]], state |-> "whole"]

Init ==
    /\ file = <<Page(Segments(0, 1, 0, 0), FALSE, TRUE, FALSE, 0, 0)>>
    /\ \E size \in TagSizes : open = Segments(1, size, 0, 0)
    /\ \E stream \in Streams : clock = stream.first /\ todo = stream.packets
    /\ encoded = <<>> /\ finished = FALSE /\ damaged = 0
    /\ ReadInit

Encode ==
    /\ ~finished /\ todo # <<>> /\ Len(open) < PageRoom
    /\ LET id == Len(encoded) + 2
           p == Head(todo)
       IN  /\ open' = open \o Segments(id, p.size, p.dur, clock + p.dur)
           /\ encoded' = Append(encoded, [data |-> [k \in 1 .. p.size |-> Piece(id, k, p.dur)],
                                          pts |-> clock - PreSkip, dur |-> p.dur, discard |-> 0, eos |-> FALSE])
           /\ clock' = clock + p.dur
    /\ todo' = Tail(todo)
    /\ UNCHANGED <<file, finished, damaged, readVars>>

Own == {n \in DOMAIN file : file[n].serial = 1}

\* The packet a page ends with goes on, on the next.
Continued == Len(file[Max(Own)].segs) > 0 /\ Last(file[Max(Own)].segs).full

GranuleOf(segs) ==
    LET ends == {k \in DOMAIN segs : ~segs[k].full} IN IF ends = {} THEN NoGranule ELSE segs[Max(ends)].end

\* A page of the first n segments.
Flush(n) ==
    /\ ~finished
    /\ n <= Len(open)
    /\ ~SharesTags => (open[1].data.of = 1 <=> open[n].data.of = 1)
    /\ file' = Append(file, Page(SubSeq(open, 1, n), Continued, FALSE, FALSE, Cardinality(Own), GranuleOf(SubSeq(open, 1, n))))
    /\ open' = SubSeq(open, n + 1, Len(open))
    /\ UNCHANGED <<todo, clock, encoded, finished, damaged, readVars>>

\* What a trim leaves of the packets from one on to the last.
Trimmed(trim) ==
    [n \in DOMAIN encoded |->
        LET after == clock - PreSkip - encoded[n].pts - encoded[n].dur
        IN  [encoded[n] EXCEPT !.discard = Max({0, Min({encoded[n].dur, trim - after})}), !.eos = n = Len(encoded)]]

\* The last page says where to stop, within the packets that end on it.
Finish(trim) ==
    /\ ~finished
    /\ Len(open) \in 1 .. PageRoom
    /\ open[1].data.of > 1 \/ (SharesTags /\ Last(open).data.of > 1)
    /\ LET ids == {seg.data.of : seg \in Range(open)} \ {1}
           first == encoded[Min(ids) - 1].pts + PreSkip
       IN  /\ trim < clock - first
           /\ clock - trim >= PreSkip
           /\ first # encoded[1].pts + PreSkip \/ first = 0 \/ trim = 0   \* or nobody could tell where it started
    /\ file' = Append(file, Page(open, Continued, FALSE, TRUE, Cardinality(Own), clock - trim))
    /\ encoded' = Trimmed(trim)
    /\ open' = <<>>
    /\ finished' = TRUE
    /\ UNCHANGED <<todo, clock, damaged, readVars>>

\* A stream may also just stop.
Stop ==
    /\ ~finished
    /\ finished' = TRUE
    /\ UNCHANGED <<file, todo, open, clock, encoded, damaged, readVars>>

Complete == finished /\ mode = "none" /\ damaged = 0 /\ Own = DOMAIN file

\* Another stream has a page among those of this one.
Foreign(n) ==
    /\ Complete
    /\ file' = InsertAt(file, n, [Page(<<>>, FALSE, FALSE, FALSE, 0, clock + 7) EXCEPT !.serial = 2])
    /\ UNCHANGED <<encoderVars, readVars>>

Damage(how, n) ==
    /\ Complete
    /\ how = "cut" \/ how = "cut after its header" => n = Len(file)
    /\ file' = IF how = "lost" THEN SubSeq(file, 1, n - 1) \o SubSeq(file, n + 1, Len(file))
               ELSE [file EXCEPT ![n].state = how]
    /\ damaged' = n
    /\ UNCHANGED <<todo, open, clock, encoded, finished, readVars>>

Encoding ==
    \/ Encode
    \/ \E n \in 1 .. PageRoom : Flush(n)
    \/ \E trim \in Trims : Finish(trim)
    \/ Stop
    \/ \E n \in 2 .. Len(file) + 1 : Foreign(n)
    \/ \E how \in Damages : \E n \in DOMAIN file : Damage(how, n)

Reading == finished /\ ReadNext /\ UNCHANGED encoderVars

Next == Encoding \/ Reading

Spec == Init /\ [][Next]_vars

-----------------------------------------------------------------------------
OwnBefore(n) == {m \in Own : m < n /\ file[m].state = "whole"}

\* Pages that can be read, and the packets that end on them.
Intact == OwnBefore(IF damaged = 0 THEN Len(file) + 1 ELSE damaged)
Ended == UNION {{seg.data.of : seg \in {seg \in Range(file[m].segs) : ~seg.full}} : m \in Intact}

\* The first packet that starts on a page or on a later one.
FirstFrom(n) ==
    Min({Len(encoded) + 2} \cup
        UNION {{seg.data.of : seg \in {seg \in Range(file[m].segs) : seg.data.k = 1 /\ seg.data.of > 1}} : m \in {m \in Own : m >= n}})

\* What a reader that starts at the page last sought should return.
Due ==
    SubSeq(encoded, IF sought = <<>> THEN 1 ELSE FirstFrom(sought[1].at \div 2 + 1) - 1, Max(Ended \cup {1}) - 1)

(***************************************************************************)
(* Whatever reads are cancelled and retried, whatever seeks fail on the    *)
(* way and wherever the others went, the reader returns packets as they    *)
(* were encoded, each once and in order, at its time and with its share of *)
(* the trim at the end, however they lie on the pages.  It returns all     *)
(* that ends before the file does or is damaged, and only then gives up;   *)
(* and if it reports the end, nothing is missing.  The one exception is a  *)
(* file that was cut off right behind the fixed header of a page, which    *)
(* ends like a whole one (reader.go:587-590).                              *)
(***************************************************************************)
ReadsBack ==
    LET unended == Last(file[Max(Intact)].segs).full
        \* a page that cannot be read, or one after a lost one
        broken == damaged > 0 /\ \E n \in damaged .. Len(file) :
                    file[n].state \in {"corrupt", "cut"} \/ (n \in Own /\ file[n].state = "whole")
    IN  /\ IsPrefix(delivered, Due)
        /\ (mode = "open" /\ ~Running) => /\ delivered = Due
                                          /\ result = "eof" <=> ~unended /\ ~broken
        /\ mode = "refused" => 1 \notin Ended

\* Where a page starts: where the first packet that starts on it does.
StartOf(n) ==
    IF \A m \in OwnBefore(n) : file[m].granule <= PreSkip THEN 0 ELSE Max({0, encoded[FirstFrom(n) - 1].pts})

(***************************************************************************)
(* A seek goes to where a packet starts, and reports the time of the one   *)
(* that is read next, 0 if that is before the start.  No page that starts  *)
(* with a packet is nearer to the target in the direction asked for.  It   *)
(* goes past the target only at an end of the stream, or back to where a   *)
(* packet starts that goes on over the end of its page.                    *)
(***************************************************************************)
SeekLands ==
    sought # <<>> =>
        LET s == sought[1]
            at == s.at \div 2 + 1
            Fresh == {n \in Own : ~file[n].cont /\ file[n].segs[1].data.of > 1}
            Past == IF s.backward THEN s.time > s.target ELSE s.time < s.target
        IN  /\ ~file[at].cont
            /\ FirstFrom(at) - 1 \in DOMAIN encoded => s.time = StartOf(at)
            /\ \A n \in Fresh : ~(IF s.backward THEN s.time < StartOf(n) /\ StartOf(n) <= s.target
                                               ELSE s.target <= StartOf(n) /\ StartOf(n) < s.time)
            /\ Past => \/ \A n \in Fresh : IF s.backward THEN StartOf(n) >= s.time ELSE StartOf(n) <= s.time
                       \/ Last(file[at].segs).full

(***************************************************************************)
(* However it became known, from the tail, from an index or at the end,    *)
(* the duration is what the last page of the stream says, of those that    *)
(* arrived whole.  Who has read to the end of a stream knows it.           *)
(***************************************************************************)
DurationAgrees ==
    LET timed == {n \in OwnBefore(Len(file) + 1) : file[n].granule # NoGranule}
    IN  /\ rd.duration # NoDuration => rd.duration = file[Max(timed)].granule - PreSkip
        /\ (delivered # <<>> /\ Last(delivered).eos) => rd.duration # NoDuration
=============================================================================
