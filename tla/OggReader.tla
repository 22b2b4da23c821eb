------------------------------ MODULE OggReader ------------------------------
(***************************************************************************)
(* The Ogg Opus reader: internal/format/ogg/reader.go behind the demuxer   *)
(* of pkg/media/open_ogg.go.  Pages carry segments of packets; a packet    *)
(* goes on over the end of a page, and only pages have times: the granule  *)
(* position says where the last packet that ends on the page ends.         *)
(*                                                                         *)
(* A file is a sequence of pages, those of other streams among them.       *)
(* Positions count halves of a page, as a read may fail within one.        *)
(***************************************************************************)
EXTENDS Integers, SequencesExt

CONSTANTS
    PreSkip,      \* samples of the head of the stream that are not played
    TailWindow,   \* pages in what the duration is looked for at the end
    Targets,      \* targets of seeks, in samples
    MaxCancels, MaxSeeks   \* bounds on cancelled calls and on seeks

VARIABLES
    file,       \* pages: [serial, bos, cont, eos, seq, granule, segs, state]
    mode,       \* "none", "refused" or "open"
    rd,         \* the Reader
    delivered,  \* packets returned since Open or the last Seek
    sought,     \* <<>>, or what the last seek asked for and where it went
    result,     \* what the last call returned
    cancels, seeks

readVars == <<mode, rd, delivered, sought, result, cancels, seeks>>

NoLimit == -1
NoGranule == -1   \* no packet ends on the page
NoDuration == -1

\* at, headers: where the next page is, and how many header packets were passed.
NewReader ==
    [at |-> 0, err |-> "", serial |-> 0, headers |-> 0, partial |-> <<>>, pending |-> <<>>,
     indexComplete |-> FALSE, duration |-> NoDuration, expected |-> -1, audioEnd |-> 0, haveAudio |-> FALSE]

ReadInit ==
    /\ mode = "none" /\ rd = NewReader /\ delivered = <<>> /\ sought = <<>> /\ result = "none"
    /\ cancels = 0 /\ seeks = 0

Fail(x, why) == [x EXCEPT !.err = why]

-----------------------------------------------------------------------------
\* readPage: the page at a position, or why it could not be read.
PageError(at, limit) ==
    CASE limit # NoLimit /\ limit <= at + 1 -> "cancelled"
      [] at >= 2 * Len(file) -> "eof"
      [] at % 2 = 1 -> "invalid capture pattern"
      [] file[at \div 2 + 1].state = "cut" -> "unexpected EOF"
      [] file[at \div 2 + 1].state = "cut after its header" -> "eof"
      [] file[at \div 2 + 1].state = "corrupt" -> "CRC mismatch"
      [] OTHER -> ""

\* The packets that end on a page, and what it has of one that does not.
SplitPackets(page, partial) ==
    LET F[k \in 0 .. Len(page.segs)] ==
            IF k = 0 THEN [complete |-> <<>>, current |-> partial]
            ELSE LET packet == Append(F[k - 1].current, page.segs[k].data)
                 IN  IF page.segs[k].full THEN [F[k - 1] EXCEPT !.current = packet]
                     ELSE [complete |-> Append(F[k - 1].complete, packet), current |-> <<>>]
    IN  F[Len(page.segs)]

Continues(page, partial) == page.cont = (partial # <<>>)

\* OpusPacketSamples reads it off the first byte.
Samples(packet) == packet[1].dur

RECURSIVE TotalSamples(_)
TotalSamples(packets) == IF packets = <<>> THEN 0 ELSE Samples(Head(packets)) + TotalSamples(Tail(packets))

\* Where the packets that end on a page start. What the last page says is where to stop
\* playing them, so there it is where those before them ended.
Start(x, page, total) ==
    LET end == IF page.granule # NoGranule THEN page.granule ELSE PreSkip + total
    IN  IF ~page.eos THEN end - total ELSE IF x.haveAudio THEN x.audioEnd ELSE Max({0, end - total})

Timed(x, page, audio) ==
    LET total == TotalSamples(audio)
        end == IF page.granule # NoGranule THEN page.granule ELSE PreSkip + total
        start == Start(x, page, total)
        At(n) == start + TotalSamples(SubSeq(audio, 1, n - 1))
        Discard(n) == Min({Samples(audio[n]), Max({0, At(n) + Samples(audio[n]) - end})})
        packets == [n \in DOMAIN audio |-> [data |-> audio[n], pts |-> At(n) - PreSkip, dur |-> Samples(audio[n]),
                                            discard |-> Discard(n), eos |-> page.eos /\ n = Len(audio)]]
        timed == [x EXCEPT !.pending = @ \o packets, !.audioEnd = start + total, !.haveAudio = TRUE]
    IN  IF page.eos /\ (end < start \/ end - start > total \/ (~x.haveAudio /\ end < PreSkip)) THEN Fail(x, "invalid EOS granule")
        ELSE IF start < 0 THEN Fail(x, "invalid initial granule")
        ELSE IF page.eos THEN [timed EXCEPT !.duration = Max({0, end - PreSkip})]
        ELSE timed

\* consumePage, and the times of the audio packets in it.
ConsumePage(x, page) ==
    LET split == SplitPackets(page, x.partial)
        skipped == Min({2 - x.headers, Len(split.complete)})
        audio == SubSeq(split.complete, skipped + 1, Len(split.complete))
        y == [x EXCEPT !.partial = split.current, !.headers = @ + skipped]
    IN  IF ~Continues(page, x.partial) THEN Fail(x, "inconsistent continued-packet flag")
        ELSE IF audio = <<>> THEN y
        ELSE Timed(y, page, audio)

Failed_InPlace(x, limit, why) == Fail([x EXCEPT !.at = IF limit = x.at + 1 THEN x.at + 1 ELSE @], why)

\* What cannot be read is read again from its start.
Failed(x, limit, why) == Fail(x, IF why = "eof" /\ x.partial # <<>> THEN "unexpected EOF" ELSE why)

PlayPage(x, limit) ==
    LET why == PageError(x.at, limit)
        page == file[x.at \div 2 + 1]
        passed == [x EXCEPT !.at = @ + 2]
    IN  IF why # "" THEN Failed(x, limit, why)
        ELSE IF page.serial # x.serial THEN passed
        ELSE IF ~x.indexComplete /\ x.expected >= 0 /\ page.seq # x.expected THEN Fail(passed, "sequence discontinuity")
        ELSE ConsumePage(IF x.indexComplete THEN passed ELSE [passed EXCEPT !.expected = page.seq + 1], page)

\* NextPacket.
Read(x, limit) ==
    LET RECURSIVE Go(_)
        Go(y) == IF y.err # "" \/ y.pending # <<>> THEN y ELSE Go(PlayPage(y, limit))
    IN  Go(x)

-----------------------------------------------------------------------------
(***************************************************************************)
(* scan: its pages and headers up to where it stops.  It is done with the  *)
(* headers alone, or at the end of the file.                               *)
(***************************************************************************)
Scan(limit, headersOnly) ==
    LET RECURSIVE Go(_)
        Go(s) ==
            LET why == PageError(s.at, limit)
                page == file[s.at \div 2 + 1]
                split == SplitPackets(page, s.partial)
                headers == Min({2, s.headers + Len(split.complete)})
                entry == [at |-> s.at, granule |-> page.granule, cont |-> page.cont, headersBefore |-> s.headers]
            IN  IF s.err # "" \/ (headersOnly /\ s.headers = 2) \/ (~headersOnly /\ s.at >= 2 * Len(file)) THEN s
                ELSE IF why # "" THEN Fail(s, why)
                ELSE IF s.pages = <<>> /\ ~page.bos THEN Fail(s, "first page is not BOS")
                ELSE IF s.pages # <<>> /\ page.serial # s.serial THEN Go([s EXCEPT !.at = @ + 2])
                ELSE IF s.pages # <<>> /\ page.seq # s.seq THEN Fail(s, "sequence discontinuity")
                ELSE IF ~Continues(page, s.partial) THEN Fail(s, "inconsistent continued-packet flag")
                ELSE Go([s EXCEPT !.at = @ + 2, !.serial = page.serial, !.seq = page.seq + 1,
                                  !.pages = Append(@, entry), !.partial = split.current, !.headers = headers,
                                  !.firstAudio = IF s.headers < 2 /\ headers = 2 THEN s.at ELSE @,
                                  !.granule = IF page.granule # NoGranule THEN page.granule ELSE @])
        s == Go([at |-> 0, err |-> "", serial |-> 0, seq |-> 0, pages |-> <<>>, partial |-> <<>>,
                 headers |-> 0, firstAudio |-> 0, granule |-> NoGranule])
    IN  IF s.err # "" THEN s
        ELSE IF ~headersOnly /\ s.partial # <<>> THEN Fail(s, "unexpected EOF")
        ELSE IF s.headers < 2 THEN Fail(s, "missing Opus headers")
        ELSE s

\* What a granule position says about the duration.
DurationTo(granule) == IF granule # NoGranule /\ granule >= PreSkip THEN granule - PreSkip ELSE NoDuration

TailDuration_AnyPage(serial) ==
    LET tail == {n \in Max({1, Len(file) - TailWindow + 1}) .. Len(file) : file[n].state = "whole"}
    IN  IF tail = {} THEN NoDuration ELSE DurationTo(file[Max(tail)].granule)

\* probeTailDuration: of the last page of the stream that is whole and has a granule position.
TailDuration(serial) ==
    LET tail == {n \in Max({1, Len(file) - TailWindow + 1}) .. Len(file) :
                    file[n].state = "whole" /\ file[n].serial = serial /\ file[n].granule # NoGranule}
    IN  IF tail = {} THEN NoDuration ELSE DurationTo(file[Max(tail)].granule)

-----------------------------------------------------------------------------
\* The time at which a page of the index starts, from the pages before it.
PageStart(pages, n) ==
    LET timed == {m \in 1 .. n - 1 : pages[m].granule # NoGranule /\ pages[m].granule > PreSkip}
    IN  IF timed = {} THEN 0 ELSE pages[Max(timed)].granule - PreSkip

\* The audio page that starts nearest to the target, in the direction asked for.
Nearest(s, target, backward) ==
    LET pages == s.pages
        audio == {n \in DOMAIN pages : pages[n].at >= s.firstAudio}
        fits == {n \in audio : IF backward THEN PageStart(pages, n) <= target ELSE PageStart(pages, n) >= target}
    IN  IF backward THEN (IF fits = {} THEN Min(audio) ELSE Max(fits))
        ELSE (IF fits = {} THEN Max(audio) ELSE Min(fits))

Choice_OneBack(s, target, backward) ==
    LET n == Nearest(s, target, backward) IN IF n > 1 /\ s.pages[n].cont THEN n - 1 ELSE n

\* Where SeekSamplesWithDirection goes: from there back to where the first packet starts.
Choice(s, target, backward) ==
    LET n == Nearest(s, target, backward) IN Max({m \in 1 .. n : m = 1 \/ ~s.pages[m].cont})

\* The end of the audio before a page, as granule position; none if it is not known.
AudioBefore(pages, n) ==
    LET timed == {m \in 1 .. n - 1 : pages[m].headersBefore >= 2 /\ pages[m].granule # NoGranule}
    IN  IF timed = {} THEN NoGranule ELSE pages[Max(timed)].granule

SeekTo(x, s, n) ==
    LET before == AudioBefore(s.pages, n)
    IN  [x EXCEPT !.at = s.pages[n].at, !.partial = <<>>, !.pending = <<>>, !.headers = s.pages[n].headersBefore,
                  !.audioEnd = Max({0, before}), !.haveAudio = before # NoGranule]

-----------------------------------------------------------------------------
\* A call may be cancelled wherever the source still has something to give.
MayCancel(limit) == limit # NoLimit => cancels < MaxCancels /\ limit < 2 * Len(file)
Cancelled(why) == cancels' = IF why = "cancelled" THEN cancels + 1 ELSE cancels

\* NewPlaybackReaderWithTail; a source that is still growing is not probed.
Open(probe) ==
    /\ mode = "none"
    /\ \E s \in {Scan(NoLimit, TRUE)} :
          IF s.err # "" THEN mode' = "refused" /\ result' = s.err /\ UNCHANGED rd
          ELSE /\ mode' = "open" /\ result' = "opened"
               /\ rd' = [NewReader EXCEPT !.serial = s.serial, !.duration = IF probe THEN TailDuration(s.serial) ELSE @]
    /\ UNCHANGED <<file, delivered, sought, cancels, seeks>>

\* A caller goes on after its own cancellation, and gives up at any other error.
Running == mode = "open" /\ result \in {"opened", "packet", "sought", "cancelled"}

ReadPacket(limit) ==
    /\ Running /\ MayCancel(limit)
    /\ \E x \in {Read(rd, limit)} :
          /\ IF x.err # "" THEN rd' = [x EXCEPT !.err = ""] /\ result' = x.err /\ UNCHANGED delivered
             ELSE /\ rd' = [x EXCEPT !.pending = Tail(@)] /\ result' = "packet"
                  /\ delivered' = Append(delivered, Head(x.pending))
          /\ Cancelled(x.err)
    /\ UNCHANGED <<file, mode, sought, seeks>>

\* The first seek scans the file, with a reader of its own. If it fails playback goes on.
Seek(asked, backward, limit) ==
    /\ Running /\ MayCancel(limit) /\ seeks < MaxSeeks
    /\ limit # NoLimit => ~rd.indexComplete
    /\ \E s \in {Scan(limit, FALSE)}, target \in {Max({0, asked})} :
          IF s.err # "" THEN Cancelled(s.err) /\ UNCHANGED <<rd, delivered, sought, result, seeks>>
          ELSE /\ \E n \in {Choice(s, target, backward)} :
                     /\ rd' = SeekTo(IF rd.indexComplete THEN rd
                                     ELSE [rd EXCEPT !.indexComplete = TRUE, !.duration = DurationTo(s.granule)], s, n)
                     /\ sought' = <<[target |-> target, backward |-> backward,
                                     at |-> s.pages[n].at, time |-> PageStart(s.pages, n)]>>
               /\ result' = "sought" /\ delivered' = <<>> /\ seeks' = seeks + 1
               /\ UNCHANGED cancels
    /\ UNCHANGED <<file, mode>>

ReadNext ==
    \/ \E probe \in BOOLEAN : Open(probe)
    \/ \E limit \in {NoLimit, rd.at + 1, rd.at + 3} : ReadPacket(limit)
    \/ \E asked \in Targets, backward \in BOOLEAN, limit \in {NoLimit} \cup {2 * n + 1 : n \in 0 .. Len(file) - 1} :
            Seek(asked, backward, limit)
=============================================================================
