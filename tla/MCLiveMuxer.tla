---------------------------- MODULE MCLiveMuxer ----------------------------
(* Values of LiveMuxer's constants for model checking.                     *)
EXTENDS LiveMuxer

Plain(kind) == [kind |-> kind, dur |-> 0, disc |-> FALSE]

MCTicks == {-1, 1}

MCArrivals ==
    {Plain("key"), Plain("delta"), Plain("config"), [kind |-> "delta", dur |-> 3, disc |-> TRUE]}
=============================================================================
