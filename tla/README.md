# Verification of puremux

puremux is a Go library that reads and writes containers of compressed audio
and video without decoding them: demuxers over files, HTTP, HLS and DASH, muxers
for MP4, WebM and MPEG-TS, exact remuxing between them, and a normalization
layer for live sources. This directory holds TLA+ modules translated from its
source, the TLC configurations that check them and the TLAPS proofs about them.

Line numbers below are those of the repository. `PROJECT.json` maps every
definition to the lines it stands for.

## The system

| Component | State it keeps | Operations | Talks to | What is hard |
|---|---|---|---|---|
| Enforcer (`internal/preprocessor/enforcer.go`) | sorted buffer, watermark, counters | Process, Flush, Reset | calls back with each packet emitted | reordering within a window, ties, nudged stamps, saturation |
| Aligner (`internal/preprocessor/aligner.go`) | held audio, held configuration, sync point | ProcessVideo/Audio, SetVideoSyncStart, Flush | same | latching once, packets held for a keyframe that may not come |
| LiveMuxer (`pkg/media/live.go`) | streams with their Enforcer, Aligner and one pending packet; interleave queue; byte budget; sticky error | AddStream, WritePacket, WriteVideo, WriteADTS, Close | wraps a Muxer | an error in the last stage of a call with packets in all others; ownership |
| Packet pool (`internal/core/pool.go`, `packet.go`) | free packets, byte budget | Acquire, Release | everybody | release exactly once |
| Presentation and DTS synthesizers (`internal/preprocessor/ptssynth.go`, `dtssynth.go`, `internal/core/*poc.go`) | lookahead of pictures, recent stamps, decode-time delay, picture order state | Process, Flush, ParseAU | in front of LiveMuxer.WriteVideo | counts that wrap and restart, lookahead that turns out too short |
| contextMutex (`pkg/media/context_mutex.go`) | a channel with one slot | lock(ctx), Unlock | HLS, DASH, HTTP source | cancellation while queued or while being admitted |
| HLS demuxer (`pkg/media/hls.go`) | playlist part not yet read, current segment, time base, closed mark | ReadPacket, Seek, Close | HTTP server, a demuxer per segment | reloads of a sliding playlist, rollback, Close against running fetches |
| DASH demuxer (`pkg/media/dash.go`, `internal/manifest/dash.go`) | segments of one representation, initialization segment, current segment, shift of its stamps | ReadPacket, Seek, Close | HTTP server, a demuxer per segment | as HLS, on absolute times, with a reload that can change representation |
| HTTP source (`pkg/media/source_http.go`) | position, read-ahead, validators, retry budget | Read, ReadAt, Seek, Close | HTTP server | resource changing between ranges, answers that break off, closing during a request |
| Remux (`pkg/media/remux.go`) | one packet read ahead per input, ownership of inputs and muxer | Remux | demuxers, a muxer | exact order on different clocks, release on every way out |
| RemuxFiles (same file) | temporary file, backup file | RemuxFiles | file system | installation when rename cannot replace; crashes |
| MP4 muxer and reader (`pkg/media/mux_mp4.go`, `internal/format/mp4`) | pending fragment, sample tables, file offsets, sticky destination error | AddStream, WritePacket, Close; ReadPacket, Seek | destination, source | fragment boundaries, offsets, edit lists, half-written fragments |
| WebM muxer and reader (`pkg/media/mux_ebml.go`, `internal/format/webm`) | open cluster, cues; parser position, packets of a block, lazy index | AddStream, WritePacket, Close; ReadPacket, Seek | destination, source | 16-bit block times, unknown sizes, lacing, restart of a cancelled element |
| MPEG-TS muxer and reader (`pkg/media/mux_mpegts.go`, `internal/format/mpegts`) | continuity counters; PES units being assembled, table sections, clock reference, index | AddStream, WritePacket, Close; ReadPacket, Seek | destination, source | lost and repeated packets, clock wrap, scans between two reads |
| Ogg reader (`internal/format/ogg`) | page and packet position, part of a continued packet, index | ReadPacket, Seek | source | granule positions counted backwards, damaged and foreign pages |
| Raw readers, probing, manifest text, codec configuration, CLI | none between calls, or one lazily found duration | parse | | text and bit formats |

A packet of a live session goes caller -> LiveMuxer (for video the presentation
synthesizer, then Enforcer -> Aligner -> pending -> queue) -> Muxer, all by
callbacks inside the call that brings it or a later one. A remuxed packet goes
Source -> Demuxer -> Remux -> Muxer, one at a time. The HLS and DASH demuxers and
the HTTP source are the places where several callers meet: their operations
queue on a contextMutex and Close reaches into them by cancelling a root context.

## Modules

| Module | Models | How |
|---|---|---|
| `Enforcer` | enforcer.go | one action per method; the flush loop is stated by the number of packets that leave (`IsReadyCount`) and the chain of stamps they get (`IsStamping`) |
| `LiveMuxer` | live.go, aligner.go, the release side of pool.go | one action per call; the stages are operators on the record of the LiveMuxer's fields, folded over the packets the stage before emits. It has a short Enforcer of its own, without saturation and counters |
| `PresentationSynthesizer`, `DTSSynthesizer` | poc.go, codec_h264_poc.go, codec_hevc_poc.go; ptssynth.go; dtssynth.go | pure functions of the object's fields and a slice header, packet or stamp |
| `VideoTimes` | WriteVideo's use of them (live.go:281-313) | an encoder that counts pictures as the format says sends them in decode order; the synthesizers are fed as WriteVideo does, until Close |
| `ContextMutex` | context_mutex.go | the channel as its token and its queue of blocked senders; `Enter`, `Abandon`, `Admit`, `Refuse`, `Unlock` are the outcomes of the select |
| `HLSDemuxer` | hls.go | one action per stretch between two points where another goroutine or the server can act; extends `SegmentDemuxers` and instantiates `ContextMutex` for opMu |
| `SegmentDemuxers` | openSegment's demuxers, their Close and their progress, in hls.go and dash.go | a history of all that were made, shared by the two demuxers |
| `DASHTimeline` | buildTemplateSegments and its siblings in internal/manifest/dash.go | segments from a timeline, a template, a list or a single file, in ticks and rounded nanoseconds |
| `DASHDemuxer` | dash.go | extends `ContextMutex`, `SegmentDemuxers` and `DASHTimeline`; the server lists the same presentation in any of the ways an MPD can |
| `HTTPSource` | source_http.go | instantiates `ContextMutex` for posMu; one action per stretch between two points where a request or the lock is waited for |
| `StableMerge` | remux.go:21-24, as a promise | takes the earliest head of all inputs, the first input on a tie |
| `Remux` | remux.go:25-228 | program counter over the phases of Remux and its deferred calls; every call may fail; implements `StableMerge` |
| `RemuxFiles` | remux.go:255-386 | extends `Remux`; one action per system call, each of which may fail |
| `Mp4File`, `Mp4Muxer`, `Mp4Reader`, `Mp4` | mux_mp4.go, output_failure.go, writer_*.go; reader.go, fragment.go, stream.go, seek_audio.go, open_mp4.go | a file is the sequence of the pieces written, with their lengths. The muxer until it is closed, with one outcome per place where a Write fails, then a reader that finds samples by the offsets in the file |
| `Ebml`, `WebMMuxer`, `WebMReader`, `WebM` | mux_ebml.go, cluster.go, simpleblock.go, closer.go; demux_reader.go, demux_index.go, block_lacing.go, vint.go | a file is a sequence of elements, headers included; the muxer writes it, or another muxer has, and a reader takes it element by element |
| `MpegTsPacket`, `MpegTsMuxer`, `MpegTsReader`, `MpegTs` | mux_mpegts.go, writer.go; reader.go, open_mpegts.go, open_mpegts_lazy.go | a stream is a sequence of packets that carry pieces of units; between muxer and reader a channel loses, repeats, splices or cuts |
| `OggReader`, `Ogg` | reader.go, open_ogg.go | an encoder that follows the format puts packets on pages; pages are damaged; the reader reads, seeks and finds the duration |
| `SharedProofs`, `FoldLemmas`, `EnforcerProofs`, `LiveProofs`, `HLSProofs`, `DASHProofs`, `HTTPProofs`, `RemuxProofs` | | proofs |
| `MC*` | | constants of the runs, where a .cfg cannot say them |

Operators named `<definition>_<bug>` are mutants, never used by a specification:
each is the definition after it with a plausible bug, and one property of one
run is violated when it takes that definition's place.

What the variables stand for is said where they are declared. Variables marked
`history` are not in the code: they record what was accepted, returned or
released, so that the properties can speak of it.

## Runs

| Run | Question | Bounds, and why they are enough |
|---|---|---|
| `enforcer` | Is the output of the jitter buffer strictly increasing, stably ordered and complete, and is jitter within the window tolerated? | Times -1 to 4 where 4 is the largest Duration, window 2, limit 2, step 2, up to 5 packets: enough for a full buffer, a late packet, a nudge past a packet still held, and saturation, in one history |
| `live` | Is every packet owned by exactly one place until it is released once; do packets leave in decode order, from a keyframe on, with audio from the sync point; does any vanish; do durations tile? | Two streams, four packets, every buffer of size two or one: each buffer overflows, each stage can hold a packet when an error strikes. A fuse of 0, 1 or 5 fails the first, the second or no write of a call. Stamps and durations lie on both sides of the gap threshold. A tick of 3 ns does not divide the repair step of 5, so repaired stamps are off the clock and rounded, negative ones included |
| `video_times` | Are picture order counts the encoder's display order, and the presentation and decode times made of them those of a clock? | Nine pictures in every sequence of four reorder patterns up to a pyramid of depth two, an order count of 16 or 32 that wraps within them, joined at a random access point or in mid-stream, one reset and one oddity (unreadable slice, irregular step, unit without a picture); and thirteen pictures that reorder more than the windows at the start have shown, twice over. Those windows are 3 and 5 pictures where the code has 8, the rings and the decay window 3 to 8 where it has 9 to 64: streams outgrow each. The limits on units held (10) and on a probe of equal times (8) are not reached |
| `hls` | Use after close, leaks, one timeline across reloads, retries and seeks, blocking of Close and of cancelled calls | Two callers, five calls, three segments of two packets; fetches fail or hang. Two callers are enough for Close or cancellation against any running step of an operation |
| `hls_ended` | A claim of demuxer.go that the code does not keep | see below |
| `dash` | The same for DASH, with rounded segment times; does the lock's token always have an owner? | One caller with five calls and one that closes; five presentations of up to three segments, where either representation, both or none have an initialization segment, with segments of different lengths, media times that go on or restart, a presentation time offset, and seconds of 3 ticks and 10 nanoseconds so that every scaling rounds. Every way to spell the manifest is a choice of each reload |
| `http` | Do the bytes returned tile the resource, all of one version; do Close and cancellation get every call out, and is nobody left at the lock? | Two callers, three calls, a resource of three bytes, read-ahead of two, buffers of one and two: reads from the read-ahead, past its end, around it and at the end of the resource. One retry, one replacement of the resource |
| `remux` | Order, ownership and the file at the output path | All pairs of inputs of up to two packets with stamps -1, 1, 2 on clocks of 1/2 and 1/3 second; each call fails or not |
| `mp4` | Does a file read back as what was written, in both layouts, from both readers, after a seek and after a failure; are fragments cut where they may be? | One audio and one video track on clocks of 1/2 and 1/3 second, up to four samples, fragments of at most three samples and four bytes: fragments are cut for a keyframe, for each limit and for their duration, four of them fit in a file, and audio of three samples has two checkpoints, where the code has one per 1024. The movie clock is 1/10 s, so delays are rounded on the way in and out. Packets that do not continue their track's timeline are refused. One seek per reader |
| `webm` | Does a file read back as it was written, and to its end; does a seek go to the nearest point? | Up to four of five packets in timecodes 0 to 18, clusters of six and relative times from -4, so that reordered frames fall before their cluster and clusters roll over, and a cluster whose size does not fit its field; a destination that fails after its first or second write. Two files of other muxers with all lacings, clusters of known and unknown size, cues before or behind. One cancelled read, two seeks |
| `mpegts` | Is any unit torn, missed or stamped wrongly, whatever the channel does; does a seek settle on a sync point? | Three units of one to three pieces on two tracks, counters modulo 4, a clock modulo 32 that wraps within them, pending limits of one unit more than fit; one damage, one cancelled read, one seek per history |
| `ogg` | Do packets, times and trim read back; where does a seek land; do all ways to find the duration agree? | Streams of two and three packets, which share pages or span them, from time 0 and from the middle of a stream, a trim shorter and longer than a packet; one damaged or foreign page. One cancelled call, two seeks |

The costliest runs are `live`, `mp4`, `hls`, `dash` and `video_times`, at about two
minutes each. In all modules but `Enforcer` and `LiveMuxer` deadlock is not checked: calls
are bounded, a request may hang for ever, a program that has returned stops, and
so does one whose file cannot be opened.

### What the refuted claim shows

`hls_ended`: once a live playlist has ended, Seek takes the first segment still
listed for time 0 (hls.go:231), although refresh has dropped the ones before. A
seek to a packet already returned lands in a later segment and stamps it with
the earlier time. `OneTimeline` of the run `hls` states the part that holds: as
long as the list still starts where the timeline does.

### Other behaviours worth knowing

The properties state what holds, with these edges written into them or into the
model, where the code does what a reader may not expect:

* The packets of a live stream increase strictly in nanoseconds, but the wrapped
  muxer is given ticks (live.go:582, 600), where two can be the same. AddStream
  raises the step of repairs to a tick, not to a whole number of ticks
  (live.go:199-201), so a repaired stamp is off the clock, and the next packet's own
  stamp can be the tick it is rounded to: with a tick of 3 and a step of 5, packets
  at 3, 3 and 9 leave at 3, 8 and 9, which are the ticks 1, 3 and 3; with the 1 ms
  that live.go:34-35 recommends the sixth repair in a row on a 44.1 kHz clock does
  it. Where live.go:36-37 and docs/ARCHITECTURE.md:116-118 say that a repaired
  stamp cannot collapse at the muxer's boundary, what holds is that a stream's
  ticks never go back and that repairs do not collapse onto what precedes them
  (live.go:616-617), unless half a tick below zero and half a tick above both
  become 0. `Interleaved` says so, on ticks. The model's tick is a whole
  number of nanoseconds.
* The start delay of an MP4 track is stored in nanoseconds, rounded down, and
  rounded down again to ticks when it is read (writer_progressive.go:302-307,
  reader.go:606): a delay can come back a tick short. `ReadsBack` allows less
  than a tick and a nanosecond.
* If only the removal of the backup fails, RemuxFiles reports failure although
  the output has been replaced (remux.go:385).
* A WebM seek rounds its target down to a timecode before it compares
  (open.go:358).
* Not every WebM cue is a sync point: the muxer writes one for each cluster,
  whatever its first frame is (mux_ebml.go:310-327), and the reader picks by track
  and time (demux_reader.go:400-445). Where demuxer.go:9-12 has sync points only
  unless SeekAny is set, a seek may land on a video frame that is none;
  `SeekNearest` speaks of cues.
* A WebM cluster of more than its size field can say (256 MB in 30 seconds) is
  an error once, when it is closed. It counts as closed all the same
  (mux_ebml.go:369) and the destination stays at the size field
  (cluster.go:147-152), so a caller that goes on writes over the cluster, and Close
  succeeds. The model does as the code; `NothingLost` leaves such files out.
* When the reordering of a stream grows in mid-stream, decode times may be later
  than presentation times, where dtssynth.go:85-86 speaks of roughly one frame
  interval. They stay behind the latest presentation time from before the growth,
  and a step per picture (`DecodesInTime`): after an in-order start, pyramids of
  depth two have pictures that are late by up to four frame intervals and a step,
  the last of them in a later pyramid.
* ptssynth.go:218-220 says that after a picture that came too late for the
  lookahead future ones are covered. A picture is only looked at if it displays
  before the one that arrived just before it (ptssynth.go:124-136). When a stream
  starts with one B picture between two others and goes on with four in
  ascending order, the lookahead stays at three: in each such group the picture
  shown last and the last B picture get the same presentation time, for good.
  `PresentsOnSchedule` speaks of reordering that was foreseen (`Foreseen`).
* A transport stream that ends in the middle of a packet, with a read cancelled
  just there, ends like a whole one, and its last unit of open length is lost
  (reader.go:130-143); an Ogg file cut right behind the fixed header of a page
  ends like a whole one (reader.go:587-590), and so does an MP4 file
  that is cut just before the bytes of a sample, for the reader that plays it and
  after a seek, which settles on samples that are not there (reader.go:358).
* A seek without flags whose target is after the last packet of its segment and
  before the next segment stays at that last packet, in HLS and in DASH, although
  demuxer.go:8-10 would have the next segment's first.
* DASH stamps are a tick early where the manifest's time is rounded. When a
  presentation changes to a representation without initialization segment the
  old one stays in use, and its segments are opened with it (dash.go:269-279,
  444): `OwnInit` speaks of the representations that name one. A substitute whose
  segments are numbered higher is read from its first segment again
  (dash.go:257); the model leaves that out by its assumption about the server.
* A seek by audio in a fragmented MP4 file resumes in the middle of a video GOP,
  and frames decoded before the point but presented after it are skipped
  (reader.go:154-162); a stream that was added and never written makes every seek
  in a progressive file fail (reader.go:191-197). No property speaks of them,
  because nothing in the repository says what should happen.

## Fairness

Safety properties are checked without fairness. Liveness is stated for the
modules with several callers, `HLSDemuxer`, `DASHDemuxer` and `HTTPSource`, as
`Unblocks`:

* an operation that is in the lock's own code runs on, because a goroutine that
  is ready is scheduled; so does every step that waits for no server (`Running`).
  First-come order of the channel's queue is the Go runtime's, and is part of
  the model;
* the root context, once cancelled, reaches an operation's context (`RootCancel`,
  a context.AfterFunc goroutine);
* a fetch or request has no fairness unless its context is cancelled, in which
  case net/http returns. Close, and cancelled calls, return although every fetch
  may hang. In `HTTPSource` `Unblocks` says besides that nobody is left queued at
  the lock, or holding it unadmitted, unless one that is inside waits for a request.

## Proofs

TLAPS proves, for every value of the constants under the modules' named
assumptions (ranges of the options, disjointness of `None`, positive clocks):

* `EnforcerProofs`: every property of the run `enforcer`. The inductive
  invariant `IInv` adds to them that the watermark is the last stamp emitted,
  that every packet held comes after every packet emitted in arrival order, and
  that an unforced watermark is at least a window behind the newest arrival. The
  argument: inserting keeps the buffer ordered (`InsertKeepsOrder`), emitting a
  prefix keeps the whole stream ordered and the chain of stamps increasing
  (`EmitFirstKeepsOrder`), and both are combined per action.
* `LiveProofs`: every property of the run `live`, for any number of streams and
  packets, any limits and whatever the wrapped muxer answers. A call
  takes packets out of one stage and into the next, and in between they are in
  none: they are in the hand of the call. `Owns(s, hand)` is the property with
  that hand, and is what every stage keeps: it takes the first packet of the
  hand, puts it into a buffer, lets go of it or passes it on, and whatever it
  takes out of a buffer joins the hand (`Moves`, `MovedOutside`). That no packet
  is in two places is counted rather than compared: the places have as many
  packets in all as were accepted, and every accepted one is among them. A stage
  that is a fold over a hand of any length is handled by `FoldLemmas`, one
  induction over the length of the sequence, of which there is an instance per
  fold (`LeastNatural` discharges its hypothesis that Nat is well ordered).
  Beside ownership each stage says what it leaves alone (`Framed`), because a
  later stage of the same call reads it. Close repeats this one level up, folded
  over the streams. `NothingVanishes` needs more than ownership: that
  a packet is released only when it was written or counted (`Clean`, until an
  error strikes), for which an Aligner must not hold what nobody will ask for.
  `Genuine` says what waits there: packets accepted for that stream,
  configuration in front of a video that has not started, or audio that waits
  for it (`Awaits`). Close then empties the Enforcers, the Aligners and the
  queue in that order, each leaving nothing in its own stage (`AllClosed`), so
  what it lets go of uncounted can only be such configuration (`Unstarted`). The
  invariant of `Spec` is `Sound`: `Owns` with an empty hand, and `Settled`,
  which is `Clean` and `Genuine` before Close and the result of Close after it.
* `LiveProofs` goes through the stages a second time for the order of what they
  hold: `Interleaved`, `StartsAligned` and `DurationsTile`. They speak of the
  writes, and what makes the next write right is in the buffers. `Ordered` says
  that the writes and the queue are one line in order (`InOrder`), that the packet
  a stream holds back comes after all of the line that is its own and after
  everything written (`HeldLast`, for which every stream must have shown a packet
  first, `Fronted`), that what waits in an Aligner comes after what has passed it
  (`Waits`), and what waits in an Enforcer after what has left it (`Fed`). `Stepped` says that a
  repaired packet is a step after all of its stream that left the Enforcer before
  it, while an Enforcer still holds stamps as they came. A step being a tick or
  more, order and distance translate into ticks by lemmas on rounding (`TicksRise`,
  `WholeTicks`, `PairTicks`). For the
  durations it says that two neighbours of a stream, the one held back included,
  touch if they may (`AllSpan`); for the start that the pictures behind an Aligner
  begin with a keyframe (`Keyed`), and that every audio Aligner has the sync point
  of the sync video's, with nothing from before it beyond (`Synced`). Calls keep
  both also when a write fails. Close does not: an Aligner that has been
  flushed holds nothing, so its claims about the others go, and what is left for
  the queue to be drained is `Sorted`, on what has passed the Aligners. If an error
  has struck, Close gives up the rest without a write, and `Marked` says enough of
  the Aligners for the audio then counted as cut (`DiscardedDelivers`). Of either
  ending only the writes and the drops remain to speak of (`Delivers`). The
  invariant of `Spec` is `Sound` with `Flows`: `Ordered` and `Stepped` before Close, `Delivers`
  always.
* `SharedProofs`: what several proofs use. Of `ContextMutex`: type correctness,
  `TokenHasOwner` and `MutualExclusion`; `IInv` adds that the queue holds exactly
  the queued callers, each once (`QueueOfWaiters`), and the lemma `WithoutOne` says
  what leaving the queue keeps. Of `SegmentDemuxers`: what creating, moving,
  closing and swapping back does to the open demuxers (`Owned`).
* `HLSProofs` and `DASHProofs`: `NoneLeaks` of either demuxer, and `TokenHasOwner`
  of the lock as DASH uses it, for any number of callers and calls and whatever
  the server does. `NoneLeaks` is not inductive: a step closes the right segment
  demuxer because of where its operation stands. `HlsInv` and `DashInv` say how
  far each operation can be with its state at the lock and whether the current
  segment is open there (`Phases`), that only one Close can be under way
  (`OneCloser`), and that exactly the current segment demuxer and the one a seek
  would go back to are open, or none after Close has returned (`Ownership`). The
  lock's own invariant is reused: each step of a demuxer is a step of the lock or
  leaves it alone.
* `HLSProofs` also has `OneTimeline`: between two seeks packets come in the order
  of the playlist, none missing while its segment was listed, on one unbroken
  time base, and a seek lands where it was asked to. The property speaks of the
  packets returned, the code of the place in the playlist that comes next, so
  `TimeInv` says of that place that it follows the last packet returned
  (`Follows`). During a seek the place is the one saved at its start, which a
  failure puts back (`Anchor`), and the one under construction is where the target
  is in the list (`Candidate`); when the seek succeeds the history starts anew and
  the candidate becomes the place.
* `HTTPProofs`: `OneResource` and `ReadsTile`. For the first `HttpInv` adds that
  nobody moves the position of a read that waits for the server (`Positioned`),
  that the bytes read ahead are of one version, the opened one if a validator
  can tell, and not older than the last seek (`Fresh`), and that nothing logged
  is newer than what the server has. Without a validator it is the seek that
  keeps old bytes out, because it drops the read-ahead. For the second `TileInv`
  adds that the position is where the calls logged so far leave it, that the
  read-ahead lies from `aheadAt` on, and that the range a request asks for is
  the one its call needs (`Planned`). The position left by a log is a recursive
  function over it; `Moved` states its equations and `Positions` that they have
  a solution, by induction over the log.
* `RemuxProofs`: type correctness, `InstalledWhole`, `Recoverable`, `Settled`,
  and that `RemuxFiles` implements `StableMerge`. `FilesInv` ties the packets
  read ahead to the positions read (a packet held is the last one read), a
  finished merge to all inputs being exhausted, and the step of the installation
  to what is on disk. `ExactOrder` proves that comparing signs and then
  magnitudes, as the code does, is the order of the rational times; `StepMerges`
  that every write is `Take` of the first earliest input and everything else a
  stutter. `Settled` is proved from ownership facts of its own (`ReleaseOne`,
  `StepOwnership`, `StepSources`).

Left to TLC:

* liveness (`Unblocks`): TLAPS proves nothing under fairness or about ENABLED;
* `OneTimeline` of DASH, which rounds its times, allows for it by a tolerance, and
  whose list of segments is parsed anew at each reload (`DASHTimeline`);
* the properties of the presentation and container modules. What they compare are
  files and tables that are sums and `RECURSIVE` operators over the whole history,
  which TLAPS cannot reason about. `RECURSIVE` operators are used in those modules
  and nowhere else.

## Not modelled, and why

Bounds of int64 are modelled in `Enforcer` only. `LiveMuxer` leaves PTS out (it
follows DTS through the stages it models) and gives every payload one byte;
WriteVideo's front is `VideoTimes`. `HLSDemuxer` leaves out encryption keys, byte
ranges and variants: their fetches fail like a segment's. In `DASHDemuxer` all
representations number their segments alike. In `RemuxFiles` the check that the output is none of the
inputs is an argument check. `HTTPSource` starts behind the probing request, and
the forward-only HTTPStreamSource is left out.

`Mp4` models files this library writes. Not modelled: what other writers may put
in a file (chunks of several samples, defaults in trex, media times in edit
lists, wide box types), separate initialization segments, box contents no reader
takes timing or data from, and int64 limits. A length of mdat that is patched in
part counts as not patched: without moov behind it the file is refused either
way.

`WebM` leaves out tags, codec private data and the contents of EBML headers;
`MpegTs` checksums, changes of the program map, MP3 and streams that cannot
seek; `Ogg` what is in the header packets but for the pre-skip. Picture order
starts from parsed slice headers; the bit reading before it is not modelled, and
H.264's order type 1 is reported as unsupported by the code. The encoder sends no
memory management operation 5 and no HEVC end of sequence, which restart the count
besides IDR, CRA and BLA and which the parsers do not look for; and the header of a
random access picture is always readable, while that of another may not be.

The raw elementary stream readers are sequential byte scanners of one caller with
one lazily found duration. Codec headers, manifest text, URL templates, probing
and the command line tool keep no state between calls: what could be wrong in
them is a parse, which tests and fuzzing reach better than a model checker. The
older webm/reader.go is not used by pkg/media.
