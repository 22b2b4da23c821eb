---------------------------- MODULE DASHTimeline ----------------------------
(***************************************************************************)
(* internal/manifest/dash.go: the segments of a representation, from what  *)
(* an MPD says of them.  An MPD counts in ticks of 1/Timescale second, the *)
(* segments have times in nanoseconds, rounded down; a second has as many  *)
(* of them as NsPerSecond says.                                            *)
(*                                                                         *)
(* What the MPD holds is a record: its kind, startNumber (0 if left out),  *)
(* presentationTimeOffset, @duration, the S elements of a timeline or the  *)
(* number of URLs of a list, and the duration of the period (0 if it has   *)
(* none).  URLs, which the templates expand to, stand for the number or    *)
(* the time that is in them; bounds on the number of segments, int64       *)
(* overflow, inheritance from the adaptation set and the syntax of the     *)
(* document are left out.                                                  *)
(***************************************************************************)
EXTENDS Integers, SequencesExt

CONSTANTS Timescale, NsPerSecond

ASSUME TimelineAssumption == Timescale \in Nat \ {0} /\ NsPerSecond \in Nat \ {0}

NoTime == -1   \* an S element without t
Open == -1     \* r="-1": up to the next element, or the end of the period

Quo(a, b) == IF a < 0 THEN -((-a) \div b) ELSE a \div b
CeilDiv(a, b) == (a + b - 1) \div b

ScaleDASH(ticks) == Quo(ticks * NsPerSecond, Timescale)
DurationToTicks(ns) == Quo(ns * Timescale, NsPerSecond)

\* Where an element that is repeated without a count ends.
Bound(mpd, i) ==
    IF i < Len(mpd.entries) /\ mpd.entries[i + 1].t # NoTime THEN mpd.entries[i + 1].t
    ELSE DurationToTicks(mpd.period) + mpd.offset

Repeat(mpd, i, from) ==
    LET e == mpd.entries[i]
    IN  IF e.r # Open THEN e.r ELSE CeilDiv(Bound(mpd, i) - from, e.d) - 1

\* The first i elements of a timeline: where they end, and the <<time, duration>> of each segment.
Elements(mpd) ==
    LET Upto[i \in 0 .. Len(mpd.entries)] ==
            IF i = 0 THEN [current |-> 0, times |-> <<>>]
            ELSE LET before == Upto[i - 1]
                     e == mpd.entries[i]
                     from == IF e.t = NoTime THEN before.current ELSE e.t
                     n == Repeat(mpd, i, from) + 1
                 IN  [current |-> from + n * e.d,
                      times |-> before.times \o [k \in 1 .. n |-> <<from + (k - 1) * e.d, e.d>>]]
    IN  Upto[Len(mpd.entries)].times

Regular(n, duration) == [k \in 1 .. n |-> <<(k - 1) * duration, duration>>]

Times(mpd) ==
    CASE mpd.kind = "timeline" -> Elements(mpd)
      [] mpd.kind = "template" -> Regular(CeilDiv(DurationToTicks(mpd.period), mpd.duration), mpd.duration)
      [] mpd.kind = "list" -> Regular(mpd.urls, mpd.duration)

\* ParseDASH, for the one representation that is read.
ParseDASH(mpd) ==
    IF mpd.kind = "single"
    THEN <<[number |-> 1, time |-> 0, start |-> 0, duration |-> mpd.period]>>
    ELSE LET times == Times(mpd)
             first == IF mpd.startNumber = 0 THEN 1 ELSE mpd.startNumber
         IN  [k \in DOMAIN times |->
                 [number |-> first + k - 1, time |-> times[k][1],
                  start |-> ScaleDASH(times[k][1] - mpd.offset), duration |-> ScaleDASH(times[k][2])]]

=============================================================================
