---------------------------- MODULE MCHLSDemuxer ----------------------------
(* Values of HLSDemuxer's constants for model checking.                    *)
EXTENDS HLSDemuxer

CONSTANTS a, b
OneCaller == {a}
TwoCallers == {a, b}
ZeroToOne == <<0, 1>>
ZeroToTwo == <<0, 2>>
=============================================================================
