---------------------------- MODULE MCDASHDemuxer ----------------------------
(* Values of DASHDemuxer's constants for model checking.                   *)
EXTENDS DASHDemuxer

CONSTANTS a, b
TwoCallers == {a, b}

\* One plays and seeks, another closes at any time.
ReaderAndCloser == (a :> {"read", "seek", "seek back"}) @@ (b :> {"close"})
FiveAndOne == (a :> 5) @@ (b :> 1)

Show == [live |-> TRUE, single |-> FALSE, inits |-> {"a", "b"}, addressing |-> "time", origin |-> "segment", offset |-> 2,
         durations |-> <<2, 2, 4>>]

\* A live stream addressed by time, numbered from 1 in every manifest; two addressed by number,
\* where only the representation before or after a withdrawal has an initialization segment;
\* a complete one, whose last segment is shorter; and one in a single file.
Shows ==
    {Show,
     [Show EXCEPT !.inits = {"b"}, !.addressing = "number", !.origin = "absolute", !.durations = <<4, 2>>],
     [Show EXCEPT !.inits = {"a"}, !.addressing = "number", !.durations = <<2, 2>>],
     [Show EXCEPT !.live = FALSE, !.offset = 0, !.durations = <<4, 4, 2>>],
     [Show EXCEPT !.live = FALSE, !.offset = 0, !.single = TRUE, !.inits = {}, !.addressing = "number", !.origin = "absolute", !.durations = <<6>>]}
=============================================================================
