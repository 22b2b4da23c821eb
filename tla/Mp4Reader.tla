------------------------------ MODULE Mp4Reader ------------------------------
(***************************************************************************)
(* internal/format/mp4: the reader of a file, progressive or fragmented,   *)
(* under the MP4 demuxer of pkg/media/open_mp4.go.                         *)
(*                                                                         *)
(* An index reader parses the whole file when it opens it.  A playback     *)
(* reader stops behind the first moof and parses the next one when it has  *)
(* delivered the samples of the last; Seek makes it an index reader.       *)
(* Calls are serialised by the demuxer's opMu, so a call is one step.      *)
(* Operators named <definition>_<bug> are mutants of the one that follows. *)
(***************************************************************************)
EXTENDS Mp4File

CONSTANTS
    CheckpointEvery,   \* samples between audio seek points: 1024 in the code
    Targets            \* what Seek may be asked for, in ticks

VARIABLES
    reader,      \* "none", "open" or "refused"
    rd,          \* Reader, as far as it changes
    result,      \* of the last call
    delivered,   \* history: samples returned since Open or since the last Seek
    sought       \* history: the sample that Seek settled on

readVars == <<reader, rd, result, delivered, sought>>

Fresh == [playback |-> FALSE, fragments |-> <<>>, fragmentCursor |-> 0, nextBox |-> 0,
          indexComplete |-> TRUE, discardedFragments |-> FALSE, consumed |-> [t \in Tracks |-> 0]]

ReadInit == reader = "none" /\ rd = Fresh /\ result = "none" /\ delivered = <<>> /\ sought = <<>>

(***************************************************************************)
(* Boxes.  No sample's bytes look like a box.                              *)
(***************************************************************************)
Size == Bytes(file)

\* Where each piece begins.
Starts ==
    LET start[i \in DOMAIN file] == IF i = 1 THEN 0 ELSE start[i - 1] + file[i - 1].size
    IN  [i \in DOMAIN file |-> start[i]]

\* The boxes from offset from on: the fragments among them, whether moov is,
\* and whether they end where the file ends.
Parse(from) ==
    LET starts == Starts
        size == Size
        walk[off \in Nat] ==
            LET here == {i \in DOMAIN file : starts[i] = off /\ file[i].box \notin {"data", "torn"}}
                b == file[CHOOSE i \in here : TRUE]
                end == off + (IF b.box = "mdat" THEN b.length ELSE b.size)
                rest == walk[end]
            IN  IF off = size \/ here = {} THEN [whole |-> off = size, moov |-> FALSE, moofs |-> <<>>]
                ELSE IF end > size THEN [whole |-> FALSE, moov |-> FALSE, moofs |-> <<>>]
                ELSE CASE b.box = "moov" -> [rest EXCEPT !.moov = TRUE]
                       [] b.box = "moof" -> [rest EXCEPT !.moofs = <<[start |-> off, end |-> end, trafs |-> b.trafs]>> \o @]
                       [] OTHER -> rest
    IN  walk[from]

(***************************************************************************)
(* Samples: where they are and when, from the boxes alone.                 *)
(***************************************************************************)
ParseTrun(traf, moofStart) ==
    [n \in DOMAIN traf.trun |->
        LET s == traf.trun[n]
            earlier == SubSeq(traf.trun, 1, n - 1)
            dts == traf.tfdt + Total([i \in DOMAIN earlier |-> earlier[i].dur])
        IN  [track |-> traf.track, dts |-> dts, pts |-> dts + s.cto, dur |-> s.dur, key |-> ~s.nonSync,
             off |-> moofStart + traf.dataOffset + Bytes(earlier), size |-> s.size]]

ParseMoof(moof) ==
    FlattenSeq([i \in DOMAIN moof.trafs |-> ParseTrun(moof.trafs[i], moof.start)])

Earlier(a, b) == TimestampLess(a.dts, Scale[a.track], b.dts, Scale[b.track])

\* Stably, by exact decode time.
SortFragments(entries) ==
    FoldLeft(LAMBDA sorted, e :
                 InsertAt(sorted, 1 + Cardinality({i \in DOMAIN sorted : ~Earlier(e, sorted[i])}), e),
             <<>>, entries)

Traks == file[SelectInSeq(file, LAMBDA p : p.box = "moov")].traks

\* The edit list's leading pause, in ticks of the track.
PresentationShift(t) == RescaleUnsigned(Traks[t].delay, MovieScale, Scale[t])

PeekNext(t, n) ==
    LET trak == Traks[t]
        dts == PresentationShift(t) + Total([i \in 1 .. n - 1 |-> RunValue(trak.stts, i)])
    IN  [track |-> t, dts |-> dts,
         pts |-> dts + (IF trak.ctts = <<>> THEN 0 ELSE RunValue(trak.ctts, n)),
         dur |-> RunValue(trak.stts, n),
         key |-> t \in Video /\ trak.stss.table => n \in trak.stss.sync,
         off |-> trak.stco[n], size |-> trak.stsz[n]]

TotalSamples(t) == Len(Traks[t].stsz)

TooShort(entry) == entry.off + entry.size > Size

\* Bytes that are no sample's.
Garbage == [track |-> 0, dts |-> 0, pts |-> 0, dur |-> 0, key |-> FALSE, size |-> 0]

ReadFull(entry) ==
    LET starts == Starts
        there == {i \in DOMAIN file :
                     file[i].box = "data" /\ starts[i] = entry.off /\ file[i].size = entry.size}
    IN  IF there = {} THEN Garbage ELSE file[CHOOSE i \in there : TRUE].sample

(***************************************************************************)
(* Open and NextSample.                                                    *)
(***************************************************************************)
Whole(w) == [Fresh EXCEPT !.fragments =
                 SortFragments(FlattenSeq([i \in DOMAIN w.moofs |-> ParseMoof(w.moofs[i])]))]

Readable(w) == w.whole /\ w.moov

Open(playback) ==
    LET w == Parse(0)
        first == w.moofs[1]
    IN  /\ reader = "none"
        /\ \/ /\ playback /\ w.moofs # <<>>
              /\ rd' = [Fresh EXCEPT !.playback = TRUE, !.fragments = SortFragments(ParseMoof(first)),
                                     !.nextBox = first.end, !.indexComplete = FALSE]
              /\ reader' = "open"
           \/ /\ playback => w.moofs = <<>>
              /\ Readable(w)
              /\ rd' = [Whole(w) EXCEPT !.playback = playback]
              /\ reader' = "open"
           \/ /\ playback => w.moofs = <<>>
              /\ ~Readable(w)
              /\ reader' = "refused" /\ UNCHANGED rd
        /\ UNCHANGED <<file, result, delivered, sought>>

\* Every fragment parsed so far is delivered: the next one replaces them.
Exhausted == rd.playback /\ ~rd.indexComplete /\ rd.fragmentCursor >= Len(rd.fragments)

Discarded == [rd EXCEPT !.fragments = <<>>, !.fragmentCursor = 0, !.discardedFragments = TRUE]

Refilled ==
    LET w == Parse(rd.nextBox)
    IN  IF w.moofs = <<>> THEN [Discarded EXCEPT !.indexComplete = TRUE]
        ELSE [Discarded EXCEPT !.fragments = SortFragments(ParseMoof(w.moofs[1])),
                               !.nextBox = w.moofs[1].end]

\* The cursor moves once the bytes are read.  A file cut before the first of them ends like a whole one.
Return(entry, next) ==
    IF TooShort(entry) THEN result' = (IF entry.off >= Size THEN "eof" ELSE "error") /\ UNCHANGED <<rd, delivered>>
    ELSE /\ result' = "sample" /\ rd' = next
         /\ delivered' = Append(delivered, [data |-> ReadFull(entry)] @@ entry)

ReturnFragment(r) ==
    LET entry == r.fragments[r.fragmentCursor + 1]
    IN  Return(entry, [r EXCEPT !.fragmentCursor = @ + 1])

Eof == result' = "eof" /\ UNCHANGED <<rd, delivered>>

RefillFails ==
    /\ Exhausted
    /\ LET w == Parse(rd.nextBox) IN w.moofs = <<>> /\ ~w.whole
    /\ rd' = Discarded /\ result' = "error" /\ UNCHANGED delivered

Refill ==
    /\ Exhausted
    /\ LET w == Parse(rd.nextBox) IN w.moofs = <<>> => w.whole
    /\ IF Refilled.fragments = <<>>
       THEN rd' = Refilled /\ result' = "eof" /\ UNCHANGED delivered
       ELSE ReturnFragment(Refilled)

NextFragment ==
    /\ ~Exhausted
    /\ IF rd.fragmentCursor < Len(rd.fragments) THEN ReturnFragment(rd) ELSE Eof

Unread == {t \in DOMAIN Traks : rd.consumed[t] < TotalSamples(t)}

Peek(t) == PeekNext(t, rd.consumed[t] + 1)

\* The first of the tracks whose next sample is earliest.
Pick(t) ==
    \A u \in Unread : /\ ~Earlier(Peek(u), Peek(t))
                      /\ u < t => Earlier(Peek(t), Peek(u))

NextOfTables ==
    IF Unread = {} THEN Eof
    ELSE \E t \in Unread : Pick(t) /\ Return(Peek(t), [rd EXCEPT !.consumed[t] = @ + 1])

InFragments == rd.fragments # <<>> \/ rd.discardedFragments

NextSample ==
    /\ reader = "open"
    /\ \/ RefillFails
       \/ Refill
       \/ InFragments /\ NextFragment
       \/ ~Exhausted /\ ~InFragments /\ NextOfTables
    /\ UNCHANGED <<file, reader, sought>>

(***************************************************************************)
(* Seek.                                                                   *)
(***************************************************************************)
Key(any, e) == any \/ e.track \notin Video \/ e.key

Before(e, target, scale) == TimestampLess(e.pts, Scale[e.track], target, scale)
After(e, target, scale) == TimestampLess(target, scale, e.pts, Scale[e.track])

\* Of the candidates, the first one with the greatest, or least, pts.
Extreme(entries, candidates, greatest) ==
    LET Beats(i, j) == IF greatest THEN entries[i].pts > entries[j].pts ELSE entries[i].pts < entries[j].pts
    IN  CHOOSE i \in candidates : \A j \in candidates :
            ~Beats(j, i) /\ (j < i => Beats(i, j))

\* Nearest on the side asked for; where nothing is there, nearest on the other.
Nearest(entries, candidates, target, scale, backward) ==
    LET side == {i \in candidates : IF backward THEN ~After(entries[i], target, scale)
                                                ELSE ~Before(entries[i], target, scale)}
    IN  IF side # {} THEN Extreme(entries, side, backward) ELSE Extreme(entries, candidates, ~backward)

Eligible(entries, t, any) == {i \in DOMAIN entries : entries[i].track = t /\ Key(any, entries[i])}

\* What was decoded at the same time as the one chosen is returned as well.
SeekFragments(r, t, target, scale, backward, any) ==
    LET entries == r.fragments
        chosen == Nearest(entries, Eligible(entries, t, any), target, scale, backward)
        start == CHOOSE i \in 1 .. chosen :
                     /\ \A j \in i .. chosen : ~Earlier(entries[j], entries[chosen])
                     /\ i > 1 => Earlier(entries[i - 1], entries[chosen])
    IN  [rd |-> [r EXCEPT !.fragmentCursor = start - 1], sought |-> entries[chosen]]

Entries(t) == [n \in 1 .. TotalSamples(t) |-> PeekNext(t, n)]

\* Audio whose pts only grow: from the last checkpoint before the target on.
FindAudioSeek(entries, target, scale, backward) ==
    LET earlier == {n \in DOMAIN entries :
                       (n - 1) % CheckpointEvery = 0 /\ Before(entries[n], target, scale)}
        from == Max({1} \cup earlier)
        reached == {n \in from .. Len(entries) : ~Before(entries[n], target, scale)}
        passed == {n \in from .. Len(entries) : After(entries[n], target, scale)}
    IN  IF backward THEN Max({from, Min(passed \cup {Len(entries) + 1}) - 1})
                    ELSE Min(reached \cup {Len(entries)})

FindSeekIndex(t, target, scale, backward, any) ==
    IF t \notin Video /\ Traks[t].ctts = <<>>
    THEN FindAudioSeek(Entries(t), target, scale, backward)
    ELSE Nearest(Entries(t), Eligible(Entries(t), t, any), target, scale, backward)

OthersAt_Forward(u, actual, any) == FindSeekIndex(u, actual.pts, Scale[actual.track], FALSE, any)

\* Every other track goes back to a point it can be decoded from.
OthersAt(u, actual, any) == FindSeekIndex(u, actual.pts, Scale[actual.track], TRUE, any)

SeekTables(t, target, scale, backward, any) ==
    LET index == FindSeekIndex(t, target, scale, backward, any)
        actual == PeekNext(t, index)
        IndexOf(u) == IF u = t THEN index ELSE OthersAt(u, actual, any)
    IN  [rd |-> [rd EXCEPT !.consumed = [u \in Tracks |-> IF u \in DOMAIN Traks THEN IndexOf(u) - 1 ELSE 0]],
         sought |-> actual]

Found(to) == rd' = to.rd /\ sought' = <<to.sought>> /\ result' = "sought" /\ delivered' = <<>>
NotFound == result' = "seek failed" /\ UNCHANGED <<rd, delivered, sought>>

\* A playback reader that does not hold the whole index makes one first.
SeekScaled(t, ticks, scale, backward, any) ==
    LET w == Parse(0)
        reindex == rd.playback /\ (~rd.indexComplete \/ rd.discardedFragments)
        r == IF reindex THEN Whole(w) ELSE rd
        target == Max({0, ticks})
    IN  IF reindex /\ ~Readable(w) THEN NotFound
        ELSE IF r.fragments # <<>>
        THEN IF Eligible(r.fragments, t, any) = {} THEN NotFound
             ELSE Found(SeekFragments(r, t, target, scale, backward, any))
        ELSE IF \E u \in DOMAIN Traks : Eligible(Entries(u), u, any) = {} THEN NotFound
             ELSE Found(SeekTables(t, target, scale, backward, any))

\* The stream a seek without one goes by: the first audio stream.
DefaultStream == LET audio == DOMAIN Traks \ Video IN IF audio = {} THEN 1 ELSE Min(audio)

\* Bound: one successful seek; where a second one ends does not depend on the first.
Seek ==
    /\ reader = "open" /\ sought = <<>> /\ DOMAIN Traks # {}
    /\ \E ticks \in Targets, backward, any \in BOOLEAN :
           \/ \E t \in DOMAIN Traks : SeekScaled(t, ticks, Scale[t], backward, any)
           \/ SeekScaled(DefaultStream, ticks, MovieScale, backward, any)
    /\ UNCHANGED <<file, reader>>

ReadNext == (\E playback \in BOOLEAN : Open(playback)) \/ NextSample \/ Seek
=============================================================================
