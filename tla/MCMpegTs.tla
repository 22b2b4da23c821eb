------------------------------ MODULE MCMpegTs ------------------------------
(* Video on PID 2, shown in another order than decoded, and audio on PID 3. *)
EXTENDS MpegTs

MCLayouts == {<<"video", "audio">>}

Video(dts, shift, size, tag) ==
    [track |-> 2, video |-> TRUE, dts |-> dts, pts |-> dts + shift, size |-> size, tag |-> tag]
Audio(dts, size, tag) ==
    [track |-> 3, video |-> FALSE, dts |-> dts, pts |-> dts, size |-> size, tag |-> tag]

\* Keyframes, frames shown later, and frames shown when decoded; the clock wraps after 8 units of time.
MCUnits ==
    {Video(0, 6, 1, "key"), Video(3, 7, 3, "delta"), Video(6, 0, 3, "key"),
     Audio(3, 2, "low"), Audio(8, 1, "low"), Audio(8, 1, "main")}
=============================================================================
