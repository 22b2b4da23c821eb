------------------------------ MODULE Mp4File ------------------------------
(***************************************************************************)
(* What the MP4 writers and the MP4 reader of internal/format/mp4 share:   *)
(* a file, the clocks of its tracks and the arithmetic between clocks.     *)
(*                                                                         *)
(* A file is the sequence of the pieces written to it, each the bytes of   *)
(* one box, of one box header or of one sample.  A piece keeps its length  *)
(* in bytes, so that every offset the writers store is a number the reader *)
(* must find a sample at.  What is inside ftyp, and in moov besides the    *)
(* sample tables and edit lists, is left out.                              *)
(***************************************************************************)
EXTENDS Integers, SequencesExt

CONSTANTS
    NTracks,     \* streams the program may register, numbered in file order
    Video,       \* those of them that are video
    Scale,       \* of each, clock ticks per second
    MovieScale   \* movieTimeScale, the clock of edit lists and durations: 10^9 in the code

Tracks == 1 .. NTracks

ASSUME ClocksAssumption ==
    /\ NTracks \in Nat \ {0}
    /\ Video \subseteq Tracks
    /\ Scale \in [Tracks -> Nat \ {0}]
    /\ MovieScale \in Nat \ {0}

VARIABLE file

\* Tick a of a clock of scale s comes before tick b of one of scale r.
TimestampLess(a, s, b, r) == a * r < b * s

RescaleUnsigned(n, from, to) == (n \div from) * to + ((n % from) * to) \div from

\* Toward zero, as integer division is in the code.
RescaleSigned(n, from, to) ==
    IF n < 0 THEN -RescaleUnsigned(-n, from, to) ELSE RescaleUnsigned(n, from, to)

Total(numbers) ==
    LET sum[n \in 0 .. Len(numbers)] == IF n = 0 THEN 0 ELSE sum[n - 1] + numbers[n]
    IN  sum[Len(numbers)]

Bytes(pieces) == Total([i \in DOMAIN pieces |-> pieces[i].size])

OfTrack(samples, t) == SelectSeq(samples, LAMBDA s : s.track = t)

Ftyp == [box |-> "ftyp", size |-> 28]
Moov(traks) == [box |-> "moov", size |-> 100, traks |-> traks]
Mdat(header, length) == [box |-> "mdat", size |-> header, length |-> length]
Payload(s) == [box |-> "data", size |-> s.size, sample |-> s]
Torn == [box |-> "torn", size |-> 1]    \* a piece that was written in part

\* A table of runs <<count, value>> and the value it holds for entry n.
Runs(values) ==
    FoldLeft(LAMBDA runs, v :
                 IF runs # <<>> /\ Last(runs)[2] = v
                 THEN Append(Front(runs), <<Last(runs)[1] + 1, v>>)
                 ELSE Append(runs, <<1, v>>),
             <<>>, values)

RunValue(runs, n) ==
    LET Covers(k) == n <= Total([i \in 1 .. k |-> runs[i][1]])
    IN  runs[CHOOSE k \in DOMAIN runs : Covers(k) /\ \A j \in 1 .. k - 1 : ~Covers(j)][2]
=============================================================================
