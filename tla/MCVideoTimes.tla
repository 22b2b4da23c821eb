----------------------------- MODULE MCVideoTimes -----------------------------
EXTENDS VideoTimes

At(n, ref) == [at |-> n, ref |-> ref]

P == <<At(1, TRUE)>>
PB == <<At(2, TRUE), At(1, FALSE)>>
PBBBB == <<At(5, TRUE), At(1, FALSE), At(2, FALSE), At(3, FALSE), At(4, FALSE)>>
PBB == <<At(3, TRUE), At(1, TRUE), At(2, FALSE)>>
Pyramid == <<At(4, TRUE), At(2, TRUE), At(1, FALSE), At(3, FALSE)>>

H264 == [codec |-> "H264", order |-> 0, maxLsb |-> 32, step |-> 2, bottom |-> TRUE, patterns |-> {P, PB, PBB, Pyramid}, resets |-> {"IDR"}, pictures |-> 9]
H264InOrder == [H264 EXCEPT !.order = 2, !.bottom = FALSE, !.patterns = {P}]
HEVC == [H264 EXCEPT !.codec = "HEVC", !.step = 1, !.maxLsb = 16, !.resets = {"IDR", "CRA", "BLA"}]

\* Two groups behind one another after the windows, each of which reorders more than they have shown.
Deepening == [H264 EXCEPT !.maxLsb = 64, !.patterns = {P, PBBBB, Pyramid}, !.resets = {}, !.pictures = 13]

MCStreams == {H264, H264InOrder, HEVC, Deepening}
=============================================================================
