-------------------------------- MODULE Mp4 --------------------------------
(***************************************************************************)
(* A muxer that writes an MP4 file until it is closed or the process       *)
(* stops, then a reader that opens what is there.                          *)
(***************************************************************************)
EXTENDS Mp4Muxer, Mp4Reader

vars == <<file, muxVars, readVars>>

Init == MuxInit /\ ReadInit

Writing == reader = "none" /\ MuxNext /\ UNCHANGED readVars

\* A process that stops while it writes leaves what a failing output leaves.
Reading == closed /\ ReadNext /\ UNCHANGED muxVars

Next == Writing \/ Reading

Spec == Init /\ [][Next]_vars

\* What was delivered of track t since the file was opened or last sought in.
Got(t) == OfTrack(delivered, t)

Unsought == reader = "open" /\ sought = <<>>

\* The stored sample without the offset the progressive writer keeps with it.
Plain(s) == [track |-> s.track, dts |-> s.dts, pts |-> s.pts, dur |-> s.dur, key |-> s.key, size |-> s.size]

SameSample(got, s) ==
    /\ Plain(got.data) = Plain(s)
    /\ got.dur = s.dur /\ got.size = s.size /\ got.key = (s.key \/ s.track \notin Video)
    /\ got.pts - got.dts = s.pts - s.dts

\* Ticks by which track t starts after the first sample of the file, times the clock of that one.
StartsAfter(t) == First(t) * Scale[GlobalStart] - First(GlobalStart) * Scale[t]

(***************************************************************************)
(* A file whose Close returned no error holds every sample the muxer took: *)
(* read to its end, with either reader, each track has the same samples in *)
(* the same order, with their duration, composition offset, sync flag and  *)
(* bytes.  A fragmented file keeps the stamps; a progressive one moves all *)
(* of a track by one amount, the first sample of the file to 0, and the    *)
(* others to within a tick and a nanosecond.  An index reader returns them *)
(* by exact decode time, and where times are equal, in a progressive file  *)
(* the first track first, in a fragmented one as they are in the file.     *)
(***************************************************************************)
ReadsBack ==
    (Unsought /\ closeErr = "nil" /\ result \in {"eof", "error"}) =>
        /\ result = "eof"
        /\ \A t \in Registered :
              /\ Len(Got(t)) = Len(samples[t])
              /\ \A n \in DOMAIN Got(t) :
                    /\ SameSample(Got(t)[n], samples[t][n])
                    /\ layout = "fragmented" => Got(t)[n].dts = samples[t][n].dts
                    /\ layout = "progressive" =>
                          /\ Got(t)[n].dts - Got(t)[1].dts = samples[t][n].dts - First(t)
                          /\ LET off == (Got(t)[1].dts * Scale[GlobalStart] - StartsAfter(t)) * MovieScale
                                 bound == Scale[GlobalStart] * (MovieScale + Scale[t])
                             IN  off < bound /\ off > -bound
        /\ ~rd.playback =>
              \A i \in 1 .. Len(delivered) - 1 :
                  /\ ~Earlier(delivered[i + 1], delivered[i])
                  /\ Earlier(delivered[i], delivered[i + 1])
                        \/ IF layout = "progressive" THEN delivered[i].track < delivered[i + 1].track
                                                     ELSE delivered[i].off < delivered[i + 1].off

(***************************************************************************)
(* Whatever was last written when the process stopped or the output        *)
(* failed, a playback reader returns every sample of the fragments written *)
(* as a whole before it gives up, and no reader ever returns anything but  *)
(* a prefix of what a track was given.                                     *)
(***************************************************************************)
FragmentsSurvive ==
    Unsought =>
        \A t \in Registered :
            /\ Len(Got(t)) <= Len(samples[t])
            /\ \A n \in DOMAIN Got(t) : SameSample(Got(t)[n], samples[t][n])
            /\ (rd.playback /\ result \in {"eof", "error"}) =>
                  Len(Got(t)) >= Len(OfTrack(FlattenSeq(fragments), t))

\* The samples of the file as a reader that is not sought in stamps them.
Stamped(t) == IF layout = "progressive" THEN Entries(t)
              ELSE LET w == Parse(0) IN OfTrack(Whole(w).fragments, t)

\* No sample lacks the bytes the index says it has.
Uncut == \A t \in DOMAIN Traks : \A n \in DOMAIN Stamped(t) : ~TooShort(Stamped(t)[n])

(***************************************************************************)
(* After a seek in a file that is not cut short of a sample in its index,  *)
(* the sample it settled on is returned, and each track goes on without a  *)
(* gap to its end. In a progressive file, what is skipped of a track is    *)
(* presented no later than that sample, or is before the first the track   *)
(* can be decoded from, and the track goes on from a sample presented no   *)
(* later, if it can be decoded from one. In a fragmented file what is      *)
(* skipped is decoded earlier. Searching audio from a checkpoint ends on   *)
(* the sample that a scan of the whole track would choose.                 *)
(***************************************************************************)
SeekResumes ==
    /\ (reader = "open" /\ sought # <<>> /\ result = "eof" /\ Uncut) =>
          /\ \E n \in DOMAIN delivered : delivered[n].track = sought[1].track /\ delivered[n].pts = sought[1].pts
          /\ \A t \in DOMAIN Traks :
                LET all == Stamped(t)
                    skipped == Len(all) - Len(Got(t))
                    Late(e) == After(e, sought[1].pts, Scale[sought[1].track])
                IN  /\ \A n \in DOMAIN Got(t) : Got(t)[n].off = all[skipped + n].off
                    /\ layout = "fragmented" => \A n \in 1 .. skipped : Earlier(all[n], sought[1])
                    /\ layout = "progressive" =>
                          /\ \A n \in 1 .. skipped : Late(all[n]) => \A i \in 1 .. n : ~all[i].key
                          /\ (\E n \in DOMAIN all : all[n].key /\ ~Late(all[n])) => ~Late(Got(t)[1])
    /\ (reader = "open" /\ result = "none" /\ layout = "progressive") =>
          \A t \in DOMAIN Traks \ Video, target \in Targets, backward \in BOOLEAN :
              LET all == Stamped(t)
              IN  (all # <<>> /\ Traks[t].ctts = <<>>) =>
                      FindAudioSeek(all, target, MovieScale, backward)
                          = Nearest(all, DOMAIN all, target, MovieScale, backward)

\* A fragment cut by something other than a keyframe was at one of its limits.
AtLimit(f, next) ==
    Len(f) = MaxFragmentPackets \/ Bytes(f) + next.size > MaxFragmentBytes

(***************************************************************************)
(* With one video track, a fragment holds a keyframe of it only as its     *)
(* first video sample, holds no more than the limits, and where its first  *)
(* video sample is no keyframe, the fragment before was cut at a limit.    *)
(***************************************************************************)
CutsAtKeyframes ==
    Cardinality(Video \cap Registered) = 1 =>
        \A k \in DOMAIN fragments :
            LET run == SelectSeq(fragments[k], LAMBDA s : s.track \in Video)
            IN  /\ Len(fragments[k]) <= MaxFragmentPackets /\ Bytes(fragments[k]) <= MaxFragmentBytes
                /\ \A n \in 2 .. Len(run) : ~run[n].key
                /\ (run # <<>> /\ ~run[1].key /\ k > 1) => AtLimit(fragments[k - 1], fragments[k][1])
=============================================================================
