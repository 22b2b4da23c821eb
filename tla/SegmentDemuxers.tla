--------------------------- MODULE SegmentDemuxers ---------------------------
(***************************************************************************)
(* The demuxers of single segments that an HLS or DASH demuxer makes one   *)
(* after another: for a segment, with the place of the packet that is read *)
(* next, and how often it was closed.  What a closed one was for is        *)
(* forgotten.                                                              *)
(***************************************************************************)
EXTENDS Naturals

NewDemuxer(segment) == [seg |-> segment, at |-> 0, closes |-> 0]
ClosedDemuxer == [seg |-> 0, at |-> 0, closes |-> 1]

CloseDemuxer(i, all) == [all EXCEPT ![i] = [seg |-> 0, at |-> 0, closes |-> @.closes + 1]]
MoveDemuxer(i, at, all) == [all EXCEPT ![i] = [seg |-> @.seg, at |-> at, closes |-> @.closes]]
=============================================================================
