--------------------------- MODULE MpegTsPacket ---------------------------
(***************************************************************************)
(* What the transport stream muxer and reader of internal/format/mpegts    *)
(* share: the packets of a stream, and its wrapping counters and clock.    *)
(*                                                                         *)
(* A transport packet carries a few pieces of one section or of one PES    *)
(* packet; a piece stands for the bytes that a property can tell apart.    *)
(* Piece 0 of a PES packet is its header, with its length (0: unbounded)   *)
(* and stamps, the others are its payload; an audio frame is one piece.    *)
(***************************************************************************)
EXTENDS Integers, SequencesExt, FiniteSetsExt

CONSTANTS
    CounterMod,     \* continuity counters are modulo this: 16 in the code
    TimestampMod,   \* PES stamps are modulo this: 2^33 in the code
    Room,           \* pieces a transport packet holds: 184 bytes in the code
    MaxPes,         \* pieces of the longest PES packet whose length is stored
    PtsHz,          \* clock ticks of a PES stamp per second
    SampleHz,       \* samples per second of the audio, each frame FrameSamples of them
    FrameSamples

ASSUME StreamAssumption ==
    /\ CounterMod \in Nat \ {0, 1} /\ TimestampMod \in Nat \ {0, 1}
    /\ Room \in Nat \ {0, 1} /\ MaxPes \in Nat
    /\ PtsHz \in Nat \ {0} /\ SampleHz \in Nat \ {0} /\ FrameSamples \in Nat \ {0}

PAT == 0
PMT == 1
FirstPID == 2

VARIABLES
    registered,   \* kinds of the tracks of the PMT, by PID from FirstPID
    file          \* the transport packets, in file order

PIDs == {PAT, PMT} \cup {FirstPID + i - 1 : i \in DOMAIN registered}
TrackPIDs == PIDs \ {PAT, PMT}
IsVideo(pid) == registered[pid - FirstPID + 1] = "video"

Least(a, b) == IF a <= b THEN a ELSE b

\* The tag is whether a keyframe starts in video, and the configuration of audio.
Piece(of, k, len, pts, dts, tag) ==
    [of |-> of, k |-> k, len |-> len, pts |-> pts, dts |-> dts, tag |-> tag]

NoPCR == -1

TransportPacket(pid, start, cc, pcr, body) ==
    [pid |-> pid, start |-> start, cc |-> cc, pcr |-> pcr, disc |-> FALSE, ptr |-> 0, body |-> body]

NextCounter(cc) == (cc + 1) % CounterMod
=============================================================================
