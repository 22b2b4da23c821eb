---------------------------- MODULE MCRemuxFiles ----------------------------
(* Two inputs of up to two packets on streams of incommensurable clocks. *)
EXTENDS RemuxFiles

MCTimeBase == <<[num |-> 1, den |-> 2], [num |-> 1, den |-> 3]>>
MCPackets == [stream : {1, 2}, dts : {-1, 1, 2}]
MCFiles == {<<>>} \cup {<<p>> : p \in MCPackets} \cup {<<p, q>> : p \in MCPackets, q \in MCPackets}
=============================================================================
