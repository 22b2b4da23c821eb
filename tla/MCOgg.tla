-------------------------------- MODULE MCOgg --------------------------------
(* A packet that fits on a page with others and one that needs more than a page. *)
EXTENDS Ogg

Small == [dur |-> 2, size |-> 1]
Large == [dur |-> 4, size |-> 3]

MCStreams == {[first |-> 0, packets |-> <<Small, Large, Small>>], [first |-> 5, packets |-> <<Small, Large>>]}
=============================================================================
