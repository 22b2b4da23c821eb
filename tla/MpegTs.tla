------------------------------- MODULE MpegTs -------------------------------
(***************************************************************************)
(* A muxer writes a transport stream, the channel damages it, a reader     *)
(* reads what arrives.  A stream is written to be cut into, so unlike a    *)
(* file it may lose packets, repeat them or start in the middle.           *)
(***************************************************************************)
EXTENDS MpegTsMuxer, MpegTsReader

CONSTANTS
    Damages,   \* kinds of damage the channel may do, at most one to a stream
    MaxBurst   \* bound on the packets lost from the middle of a stream

VARIABLES
    damage,   \* "" until it was done, then its kind
    cut       \* <<i, j>>: packets i+1 .. j of what was written were lost

vars == <<muxVars, readVars, half, damage, cut>>

Init == MuxInit /\ ReadInit /\ half = FALSE /\ damage = "" /\ cut = <<0, 0>>

Muxing == ~closed /\ MuxNext /\ UNCHANGED <<readVars, half, damage, cut>>

Damaging == closed /\ damage = "" /\ UNCHANGED <<registered, units, counter, pesSinceSI, started, closed, readVars>>

Arrives == Damaging /\ damage' = "none" /\ UNCHANGED <<file, half, cut>>

\* A whole turn of a counter would go unnoticed.
Noticeable(i, j) ==
    /\ i = 0 \/ j = Len(file) \/ j - i <= MaxBurst
    /\ \A pid \in PIDs : Cardinality({n \in i + 1 .. j : file[n].pid = pid}) < CounterMod

Without(i, j) == SubSeq(file, 1, i) \o SubSeq(file, j + 1, Len(file))

Lost(i, j) ==
    /\ Damaging /\ "lost" \in Damages /\ i < j /\ Noticeable(i, j)
    /\ damage' = "lost" /\ cut' = <<i, j>> /\ file' = Without(i, j)
    /\ UNCHANGED half

\* Whoever cut the stream marked the first packet of each PID after the cut.
Spliced(i, j) ==
    /\ Damaging /\ "spliced" \in Damages /\ 0 < i /\ i < j /\ j < Len(file) /\ j - i <= MaxBurst
    /\ damage' = "spliced" /\ cut' = <<i, j>>
    /\ file' = [n \in DOMAIN Without(i, j) |->
          LET p == Without(i, j)[n]
          IN  [p EXCEPT !.disc = n > i /\ \A m \in i + 1 .. n - 1 : Without(i, j)[m].pid # p.pid]]
    /\ UNCHANGED half

\* Once is allowed, with another clock reference; more often is not.
Repeated(i, times) ==
    /\ Damaging /\ "repeated" \in Damages
    /\ damage' = IF times = 1 THEN "repeated" ELSE "flooded"
    /\ file' = SubSeq(file, 1, i)
                 \o [n \in 1 .. times |-> [file[i] EXCEPT !.pcr = IF @ = NoPCR THEN NoPCR ELSE @ + n]]
                 \o SubSeq(file, i + 1, Len(file))
    /\ UNCHANGED <<half, cut>>

\* The process that wrote the stream, or its output, stopped in the middle of a packet.
Truncated(i) ==
    /\ Damaging /\ "truncated" \in Damages
    /\ damage' = "truncated" /\ cut' = <<i, Len(file)>>
    /\ file' = SubSeq(file, 1, i) /\ half' = TRUE

\* Another muxer cut its tables over two packets, the last piece of one before the first of the next.
Resected ==
    /\ Damaging /\ "resected" \in Damages
    /\ damage' = "resected"
    /\ file' = FlattenSeq([n \in DOMAIN file |->
          LET p == file[n]
              Half(k) == [Piece(0, k, 2, 0, 0, "table") EXCEPT !.tag = "table"]
          IN  IF p.pid \in TrackPIDs THEN <<p>>
              ELSE <<[p EXCEPT !.cc = (2 * @) % CounterMod, !.body = <<Half(1)>>],
                     [p EXCEPT !.cc = (2 * @ + 1) % CounterMod, !.body = <<Half(2), Half(1), Half(2)>>,
                               !.ptr = 1]>>])
    /\ UNCHANGED <<half, cut>>

Channel ==
    \/ Arrives
    \/ \E i, j \in 0 .. Len(file) : Lost(i, j)
    \/ \E i, j \in 0 .. Len(file) : Spliced(i, j)
    \/ \E i \in DOMAIN file, times \in 1 .. 2 : Repeated(i, times)
    \/ \E i \in 0 .. Len(file) - 1 : Truncated(i)
    \/ Resected

Reading == damage # "" /\ ReadNext /\ UNCHANGED <<muxVars, half, damage, cut>>

Next == Muxing \/ Channel \/ Reading

Spec == Init /\ [][Next]_vars

Of(pid) == SelectSeq(delivered, LAMBDA p : p.track = pid)

UnitOf(p) == p.data[1].of

\* The last PES packet of a track has no end of its own if its length did not fit.
OpenEnded(p) ==
    /\ 1 + units[UnitOf(p)].size > MaxPes
    /\ \A n \in DOMAIN file : file[n].pid = p.track /\ n > p.offset => ~file[n].start

Payload(i) == [k \in 1 .. units[i].size |-> Piece(i, k, 0, 0, 0, units[i].tag)]

(***************************************************************************)
(* Whatever is lost, repeated or cut off, what the reader returns is an    *)
(* access unit as it was written, or one frame of it, each once and in     *)
(* order.  Nothing marks the end of the last PES packet of a track if its  *)
(* length did not fit: that one may be returned without its tail.          *)
(***************************************************************************)
NothingTorn ==
    \A pid \in TrackPIDs :
        /\ \A n \in DOMAIN Of(pid) :
              LET p == Of(pid)[n]
                  whole == Payload(UnitOf(p))
              IN  IF IsVideo(pid)
                  THEN /\ p.data = whole \/ (OpenEnded(p) /\ IsPrefix(p.data, whole))
                       /\ p.key = (units[UnitOf(p)].tag = "key")
                  ELSE p.data[1] = whole[p.data[1].k]
        /\ \A n \in 1 .. Len(Of(pid)) - 1 :
              LET a == Of(pid)[n].data[1]
                  b == Of(pid)[n + 1].data[1]
              IN  a.of < b.of \/ (~IsVideo(pid) /\ a.of = b.of /\ a.k + 1 = b.k)

\* Position in the file from which the reader knows the tracks, or its length.
Tuned ==
    LET Complete(pid, from) == {n \in DOMAIN file : n >= from /\ file[n].pid = pid /\ (damage = "resected" => file[n].ptr = 1)}
        pats == Complete(PAT, 1)
        pmts == IF pats = {} THEN {} ELSE Complete(PMT, Min(pats))
    IN  IF pmts = {} THEN Len(file) ELSE Min(pmts)

Arrived(i) ==
    LET mine == {n \in DOMAIN file : file[n].pid \in TrackPIDs /\ file[n].body[1].of = i}
        pieces == UNION {{file[n].body[k].k : k \in DOMAIN file[n].body} : n \in mine}
        after == {n \in DOMAIN file : file[n].pid = units[i].track /\ \A m \in mine : m < n}
    IN  /\ pieces = 0 .. units[i].size /\ \A n \in mine : n > Tuned
        /\ 1 + units[i].size > MaxPes => after = {} \/ ~file[Min(after)].disc

\* The end was found by a read that had only a part of a packet left from a cancelled one: the
\* reader takes it for the end of a whole stream.
EndsTorn == mode = "lazy" /\ parser.part # <<>>

\* Damage that a reader must take without an error.
Harmless ==
    /\ damage \in {"none", "repeated", "resected"} /\ units # <<>>
    /\ \A i, j \in DOMAIN units : units[i].track = units[j].track /\ ~units[i].video => units[i].tag = units[j].tag
    /\ \A pid \in TrackPIDs : \E i \in DOMAIN units : units[i].track = pid

(***************************************************************************)
(* A reader that joins the stream anywhere and reaches its end without an  *)
(* error has returned every unit that arrived whole after the first tables *)
(* (if its length did not fit, with no splice where it would end), even if *)
(* some of its reads were cancelled in the middle of a packet or a seek    *)
(* failed half way through its scan.  A packet that came twice with        *)
(* another clock reference, or a table cut over two packets, is no error.  *)
(* The one exception is a stream that ends in the middle of a packet with  *)
(* a read cancelled just there, whose last unit is lost without an error   *)
(* (reader.go:130-143).                                                    *)
(***************************************************************************)
NothingMissed ==
    /\ (result = "eof" /\ ~EndsTorn /\ sought = <<>>) =>
          \A i \in DOMAIN units :
              Arrived(i) => \A k \in 1 .. units[i].size :
                  \E n \in DOMAIN delivered :
                      \E m \in DOMAIN delivered[n].data : delivered[n].data[m] = Payload(i)[k]
    /\ Harmless => result \in {"none", "opened", "packet", "cancelled", "sought", "eof", "pending packet limit"}

\* Unwrapped ticks of a time, from the first packet of the stream.
TrueTicks(time) ==
    IF time >= units[1].dts THEN DeltaTicks(time - units[1].dts) ELSE -DeltaTicks(units[1].dts - time)

(***************************************************************************)
(* Stamps count through the wrap of the 33-bit clock, also while reordered *)
(* frames cross it in both directions: within a track, distances are those *)
(* written, to the tick for video, and for audio to one sample of the      *)
(* rounding to ticks and back.                                             *)
(***************************************************************************)
ClockUnwrapped ==
    damage # "spliced" =>
        \A pid \in TrackPIDs : \A n \in DOMAIN Of(pid) :
            LET p == Of(pid)[n]
                q == Of(pid)[1]
                u == units[UnitOf(p)]
                v == units[UnitOf(q)]
            IN  IF IsVideo(pid)
                THEN /\ p.dts - q.dts = TrueTicks(u.dts) - TrueTicks(v.dts)
                     /\ p.pts - p.dts = TrueTicks(u.pts) - TrueTicks(u.dts)
                ELSE LET samples == p.pts - q.pts - (p.data[1].k - q.data[1].k) * FrameSamples
                         exact == (TrueTicks(u.pts) - TrueTicks(v.pts)) * SampleHz
                     IN  /\ samples * PtsHz < exact + PtsHz
                         /\ samples * PtsHz > exact - PtsHz

(***************************************************************************)
(* Seeking to sync points settles on the latest one at or before the       *)
(* target, or the earliest at or after it, and the packet it settled on is  *)
(* the next one read.                                                      *)
(***************************************************************************)
SeekSettles ==
    sought # <<>> =>
        LET s == sought[1]
            points == {i \in DOMAIN index : index[i].track = s.pid /\ index[i].key}
            fits == {i \in points : IF s.backward THEN index[i].pts <= s.target ELSE index[i].pts >= s.target}
        IN  /\ (~s.any /\ fits # {}) =>
                  /\ s.packet.pts \in {index[i].pts : i \in fits}
                  /\ \A i \in fits : IF s.backward THEN index[i].pts <= s.packet.pts
                                                   ELSE index[i].pts >= s.packet.pts
            /\ delivered # <<>> => delivered[1] = s.packet
=============================================================================
