---------------------------- MODULE MpegTsMuxer ----------------------------
(***************************************************************************)
(* The transport stream muxer: internal/format/mpegts/writer.go behind     *)
(* pkg/media/mux_mpegts.go.  It writes a PAT and a PMT every now and then  *)
(* and each access unit as one PES packet cut over transport packets.      *)
(***************************************************************************)
EXTENDS MpegTsPacket

CONSTANTS
    Layouts,         \* sequences of stream kinds a program may register
    Units,           \* units it may write: [track, dts, pts, size, tag]
    PtsOffset,       \* stamp of the first packet
    TickNum, TickDen,  \* ticks per unit of time
    TablesInterval,  \* PES packets between two emissions of the tables
    MaxPMTTracks,
    MaxUnits         \* bound on what is written

VARIABLES
    units,    \* every unit given to WritePacket, in order
    counter,  \* [pid -> continuity counter of its next packet]
    pesSinceSI,
    started, closed

muxVars == <<registered, file, units, counter, pesSinceSI, started, closed>>

MuxInit ==
    /\ registered = <<>> /\ file = <<>> /\ units = <<>>
    /\ counter = [pid \in {PAT, PMT} |-> 0]
    /\ pesSinceSI = 0
    /\ started = FALSE /\ closed = FALSE

AddStream(kind) ==
    /\ ~closed /\ ~started
    /\ Len(registered) < MaxPMTTracks
    /\ \E layout \in Layouts : IsPrefix(Append(registered, kind), layout)
    /\ registered' = Append(registered, kind)
    /\ counter' = [pid \in PIDs' |-> 0]
    /\ UNCHANGED <<file, units, pesSinceSI, started, closed>>

\* The clock reference rides on the first video track, or on the first track.
PcrPID ==
    LET videos == {pid \in TrackPIDs : IsVideo(pid)}
    IN  IF videos = {} THEN FirstPID ELSE CHOOSE pid \in videos : \A other \in videos : pid <= other

\* durationDeltaTicks: rounded to the nearest tick, halves up.
DeltaTicks(magnitude) ==
    (magnitude \div TickDen) * TickNum
        + ((magnitude % TickDen) * TickNum + TickDen \div 2) \div TickDen

ToTicks(time, base) ==
    IF time >= base THEN (PtsOffset + DeltaTicks(time - base)) % TimestampMod
    ELSE IF DeltaTicks(base - time) >= PtsOffset THEN 0
    ELSE (PtsOffset - DeltaTicks(base - time)) % TimestampMod

Section == <<Piece(0, 1, 1, 0, 0, "table")>>

TablesDue == pesSinceSI = 0 \/ pesSinceSI >= TablesInterval

Tables ==
    IF TablesDue
    THEN [n \in 1 .. 2 |-> TransportPacket(n - 1, TRUE, counter[n - 1], NoPCR, Section)]
    ELSE <<>>

\* An access unit behind its header, the length stored if it fits its field.
PesPacket(i, u, base) ==
    LET pts == ToTicks(u.pts, base)
        dts == ToTicks(u.dts, base)
    IN  <<Piece(i, 0, IF 1 + u.size <= MaxPes THEN 1 + u.size ELSE 0, pts, dts, u.tag)>>
            \o [k \in 1 .. u.size |-> Piece(i, k, 0, 0, 0, u.tag)]

\* The first transport packet has less room if it carries the clock reference.
WritePES(pid, pes) ==
    LET pcr == IF pid = PcrPID THEN pes[1].dts ELSE NoPCR
        first == Least(Len(pes), IF pcr = NoPCR THEN Room ELSE Room - 1)
        rest == Len(pes) - first
        Body(n) == IF n = 1 THEN SubSeq(pes, 1, first)
                   ELSE SubSeq(pes, first + (n - 2) * Room + 1, Least(Len(pes), first + (n - 1) * Room))
    IN  [n \in 1 .. 1 + (rest + Room - 1) \div Room |->
            TransportPacket(pid, n = 1, (counter[pid] + n - 1) % CounterMod,
                            IF n = 1 THEN pcr ELSE NoPCR, Body(n))]

Base(u) == IF units = <<>> THEN u.dts ELSE units[1].dts

\* Packets come in decode order, which the preprocessor sees to.
WritePacket(u) ==
    /\ ~closed
    /\ Len(registered) > 0 /\ u.track \in TrackPIDs /\ IsVideo(u.track) = u.video
    /\ units # <<>> => units[Len(units)].dts <= u.dts
    /\ started' = TRUE
    /\ units' = Append(units, u)
    /\ LET pes == WritePES(u.track, PesPacket(Len(units) + 1, u, Base(u)))
       IN  /\ file' = file \o Tables \o pes
           /\ counter' = [pid \in PIDs |->
                 IF pid = u.track THEN (counter[pid] + Len(pes)) % CounterMod
                 ELSE IF pid \in {PAT, PMT} /\ TablesDue THEN NextCounter(counter[pid])
                 ELSE counter[pid]]
    /\ pesSinceSI' = IF TablesDue THEN 1 ELSE pesSinceSI + 1
    /\ UNCHANGED <<registered, closed>>

CloseMuxer ==
    /\ ~closed /\ closed' = TRUE
    /\ UNCHANGED <<registered, file, units, counter, pesSinceSI, started>>

MuxNext ==
    \/ \E kind \in {"video", "audio"} : AddStream(kind)
    \/ Len(units) < MaxUnits /\ \E u \in Units : WritePacket(u)
    \/ CloseMuxer
=============================================================================
