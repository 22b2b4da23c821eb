------------------------------- MODULE MCMp4 -------------------------------
(* One audio track on a clock of 1/2 s, then one video track on one of 1/3 s. *)
EXTENDS Mp4

MCScale == <<2, 3>>

MCPacket(t, dts, cto, dur, key, size) ==
    [track |-> t, dts |-> dts, pts |-> dts + cto, dur |-> dur, key |-> key, size |-> size]

MCPackets ==
    {MCPacket(1, dts, 0, 1, TRUE, 2) : dts \in -1 .. 1}
        \cup {MCPacket(1, 0, 0, 2, TRUE, 2)}
        \cup {MCPacket(2, dts, 0, 1, FALSE, 1) : dts \in 0 .. 2}
        \cup {MCPacket(2, dts, 0, 1, TRUE, 1) : dts \in {0, 2}}
        \cup {MCPacket(2, dts, 1, 1, TRUE, 1) : dts \in {0, 1}}
=============================================================================
