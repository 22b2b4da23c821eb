----------------------------- MODULE HLSDemuxer -----------------------------
(***************************************************************************)
(* pkg/media/hls.go: a demuxer over the segments of an HLS playlist.       *)
(*                                                                         *)
(* Callers read, seek and close it concurrently.  A ContextMutex (opMu)    *)
(* admits one operation at a time; Close first marks the demuxer closed    *)
(* and cancels the root context, which reaches each running operation's    *)
(* context a moment later (context.AfterFunc), and only then waits for the *)
(* lock.  Between two steps of an operation the playlist on the server may *)
(* gain a segment, lose its oldest one or end, and any fetch may fail.     *)
(*                                                                         *)
(* A segment is its media sequence number.  Each holds PacketsPerSegment   *)
(* packets one time unit apart, and lasts as long.  The segment's shift    *)
(* puts its first packet at baseNS, so that a packet is stamped baseNS     *)
(* plus its place in the segment.  Operators named <definition>_<bug> are  *)
(* mutants of the definition that follows.  Key and init fetches fail like *)
(* the segment's own; codec details, byte ranges and int64 bounds are left *)
(* out.                                                                    *)
(***************************************************************************)
EXTENDS Integers, Sequences, FiniteSets, SequencesExt, FiniteSetsExt, SegmentDemuxers

CONSTANTS
    Ops, None,             \* the callers; no caller
    Kinds,                 \* subset of {"read", "seek", "close"}: what callers do
    PacketsPerSegment,
    Targets,               \* seek targets
    FirstWindow,           \* media sequence numbers <<first, last>> of the first playlist
    EndsAtOnce,            \* whether the first playlist may be complete already (EXT-X-ENDLIST), and whether it may not
    MaxSequence,           \* bound: the last segment ever published
    MaxCalls               \* bound: calls to the demuxer

ASSUME HLSAssumption ==
    /\ None \notin Ops /\ EndsAtOnce \subseteq BOOLEAN
    /\ Kinds \subseteq {"read", "seek", "close"}
    /\ PacketsPerSegment \in Nat \ {0} /\ Targets \subseteq Nat
    /\ FirstWindow \in Nat \X Nat /\ MaxSequence \in Nat
    /\ FirstWindow[1] <= FirstWindow[2] /\ FirstWindow[2] <= MaxSequence

VARIABLES
    gate, waiting, pc, cancelled,   \* d.opMu, see ContextMutex
    call,        \* what each caller is doing: [kind, target, at] with at its next step
    closed,      \* d.closed; the root context is cancelled with it
    d,           \* the fields of the demuxer that opMu guards
    entry,       \* the value of d when the running operation was admitted
    server,      \* the playlist on the server: [lo, hi, ended]
    opened,      \* history: every segment demuxer created
    delivered,   \* history: packets returned since the last successful seek
    sought,      \* history: the target of that seek, 0 before any
    timeline,    \* history: every packet ever returned
    calls        \* number of calls made

mutexVars == <<gate, waiting, pc, cancelled>>
vars == <<gate, waiting, pc, cancelled, call, closed, d, entry, server, opened,
          delivered, sought, timeline, calls>>

moved == <<delivered, sought, timeline>>

Mutex == INSTANCE ContextMutex WITH Cancellable <- Ops

-----------------------------------------------------------------------------
Window(lo, hi) == [j \in 1 .. hi - lo + 1 |-> lo + j - 1]

Idle == [kind |-> "none", target |-> 0, at |-> "nowhere"]

(* OpenHLS has fetched the playlist and opened its first segment.          *)
Init ==
    /\ Mutex!Init
    /\ call = [t \in Ops |-> Idle]
    /\ closed = FALSE
    /\ \E ended \in EndsAtOnce : server = [lo |-> FirstWindow[1], hi |-> FirstWindow[2], ended |-> ended]
    /\ d = [current |-> 1, next |-> 1, segments |-> Window(FirstWindow[1], FirstWindow[2]),
            endList |-> server.ended, seg |-> FirstWindow[1], base |-> 0]
    /\ entry = d
    /\ opened = <<NewDemuxer(FirstWindow[1])>>
    /\ delivered = <<>> /\ sought = 0 /\ timeline = {}
    /\ calls = 0

-----------------------------------------------------------------------------
(* The server, the callers' contexts and the entry to an operation.        *)

Publish == ~server.ended /\ server.hi < MaxSequence /\ server' = [server EXCEPT !.hi = @ + 1]
Expire == ~server.ended /\ server.lo < server.hi /\ server' = [server EXCEPT !.lo = @ + 1]
End == ~server.ended /\ server' = [server EXCEPT !.ended = TRUE]

Server ==
    /\ Publish \/ Expire \/ End
    /\ UNCHANGED <<mutexVars, call, closed, d, entry, opened, moved, calls>>

Call(t, kind, target) ==
    /\ call[t].kind = "none" /\ calls < MaxCalls
    /\ calls' = calls + 1
    /\ UNCHANGED <<d, entry, server, opened, moved>>
    /\ \/ /\ kind # "close" \/ ~closed
          /\ Mutex!Enter(t)
          /\ call' = [call EXCEPT ![t] = [kind |-> kind, target |-> target, at |-> "start"]]
          /\ closed' = (closed \/ kind = "close")
       \/ kind = "close" /\ closed /\ UNCHANGED <<mutexVars, call, closed>>

(* The caller's context is cancelled at any time, or the root context      *)
(* cancels it; Close takes the lock with Background.                       *)
Cancel(t) ==
    /\ call[t].kind \in {"read", "seek"} /\ t \notin cancelled
    /\ Mutex!Cancel(t)
    /\ UNCHANGED <<call, closed, d, entry, server, opened, moved, calls>>

RootCancel(t) == closed /\ Cancel(t)

Lock_Uninterruptible(t) ==
    /\ Mutex!Admit(t) \/ Mutex!Refuse(t)
    /\ call' = [call EXCEPT ![t] = IF pc'[t] = "out" THEN Idle ELSE @]
    /\ entry' = IF pc'[t] = "in" THEN d ELSE entry
    /\ UNCHANGED <<closed, d, server, opened, moved, calls>>

(* The steps inside opMu.lock; a caller that is refused has returned.      *)
Lock(t) ==
    /\ Mutex!Abandon(t) \/ Mutex!Admit(t) \/ Mutex!Refuse(t)
    /\ call' = [call EXCEPT ![t] = IF pc'[t] = "out" THEN Idle ELSE @]
    /\ entry' = IF pc'[t] = "in" THEN d ELSE entry
    /\ UNCHANGED <<closed, d, server, opened, moved, calls>>

At(t, where) == pc[t] = "in" /\ call[t].at = where
Goto(t, where) ==
    /\ call' = [call EXCEPT ![t] = [kind |-> @.kind, target |-> @.target, at |-> where]]
    /\ UNCHANGED <<mutexVars, closed, entry, server, calls>>
Return(t) == Mutex!Unlock(t) /\ call' = [call EXCEPT ![t] = Idle] /\ UNCHANGED <<closed, entry, server, calls>>

Check_Skipped(t) ==
    /\ At(t, "start") /\ call[t].kind # "close"
    /\ UNCHANGED <<d, opened, moved>>
    /\ Goto(t, call[t].kind)

(* d.closed is read under stateMu after the lock is taken.                 *)
Check(t) ==
    /\ At(t, "start") /\ call[t].kind # "close"
    /\ UNCHANGED <<d, opened, moved>>
    /\ IF closed THEN Return(t) ELSE Goto(t, call[t].kind)

-----------------------------------------------------------------------------
(* ReadPacket, once past the check.  A fetch or a segment demuxer returns  *)
(* an error when its context is cancelled, and a fetch may fail anyway.    *)

Exhausted == d.current = 0 /\ d.next > Len(d.segments)

EndOfPlaylist(t) ==
    /\ At(t, "read") /\ Exhausted /\ d.endList
    /\ Return(t) /\ UNCHANGED <<d, opened, moved>>

\* Those of the playlist with a later number than the last one opened.
NewerSegments == Window(Max({server.lo, d.seg + 1}), server.hi)

(* refresh: the playlist is retrieved again and replaced by its newer part;*)
(* without one the caller is told to wait, or that the stream is over.     *)
Refresh(t) ==
    /\ At(t, "read") /\ Exhausted /\ ~d.endList /\ t \notin cancelled
    /\ UNCHANGED <<opened, moved>>
    /\ IF NewerSegments = <<>>
       THEN d' = [d EXCEPT !.endList = server.ended] /\ Return(t)
       ELSE /\ d' = [d EXCEPT !.endList = server.ended, !.segments = NewerSegments, !.next = 1]
            /\ Goto(t, "read")

(* openSegment: fetch the segment and make it the current one, or find its *)
(* streams incompatible and close it again.                                *)
Opened(index) ==
    [d EXCEPT !.current = Len(opened) + 1, !.seg = d.segments[index], !.next = index]

OpenSegment(t, where) ==
    /\ t \notin cancelled
    /\ opened' = Append(opened, NewDemuxer(d.segments[d.next]))
    /\ d' = Opened(d.next)
    /\ UNCHANGED moved
    /\ Goto(t, where)

RejectStreams == opened' = Append(opened, ClosedDemuxer)

Open(t) == At(t, "read") /\ d.current = 0 /\ ~Exhausted /\ OpenSegment(t, "read")

Incompatible(t) ==
    /\ At(t, "read") /\ d.current = 0 /\ ~Exhausted /\ t \notin cancelled
    /\ RejectStreams
    /\ Return(t) /\ UNCHANGED <<d, moved>>

(* A fetch fails, or the context is found cancelled by the fetch or by the *)
(* segment demuxer: the call returns the error and can be repeated.        *)
Fail(t) ==
    /\ At(t, "read")
    /\ t \in cancelled \/ (d.current = 0 /\ ~(Exhausted /\ d.endList))
    /\ Return(t) /\ UNCHANGED <<d, opened, moved>>

Deliver(t) ==
    /\ At(t, "read") /\ d.current # 0 /\ t \notin cancelled
    /\ LET m == opened[d.current] IN
       /\ m.at < PacketsPerSegment
       /\ opened' = MoveDemuxer(d.current, m.at + 1, opened)
       /\ LET packet == [seq |-> m.seg, at |-> m.at, stamp |-> d.base + m.at] IN
          delivered' = Append(delivered, packet) /\ timeline' = timeline \cup {packet}
    /\ Return(t) /\ UNCHANGED <<d, sought>>

SegmentDone(t) ==
    /\ At(t, "read") /\ d.current # 0 /\ t \notin cancelled
    /\ opened[d.current].at = PacketsPerSegment
    /\ opened' = CloseDemuxer(d.current, opened)
    /\ d' = [d EXCEPT !.current = 0, !.base = @ + PacketsPerSegment, !.next = @ + 1]
    /\ Goto(t, "read") /\ UNCHANGED moved

ReadStep(t) ==
    \/ EndOfPlaylist(t) \/ Refresh(t) \/ Open(t) \/ Incompatible(t)
    \/ Fail(t) \/ Deliver(t) \/ SegmentDone(t)

-----------------------------------------------------------------------------
(* Seek: the new segment is opened, one packet of it is read to anchor its *)
(* shift, and it is sought; the old demuxer is closed only then, and every *)
(* failure before restores the old position.                               *)

\* The segment whose time, counted from the first one listed, holds target.
SegmentAt(target) ==
    LET n == Len(d.segments)
        index == target \div PacketsPerSegment + 1
    IN  IF index > n THEN n ELSE index

NotSeekable(t) ==
    /\ At(t, "seek") /\ ~d.endList
    /\ Return(t) /\ UNCHANGED <<d, opened, moved>>

SeekStart(t) ==
    /\ At(t, "seek") /\ d.endList
    /\ LET index == SegmentAt(call[t].target) IN
       d' = [d EXCEPT !.current = 0, !.next = index, !.base = (index - 1) * PacketsPerSegment]
    /\ Goto(t, "seek open") /\ UNCHANGED <<opened, moved>>

SeekOpen(t) == At(t, "seek open") /\ OpenSegment(t, "seek prime")

SeekPrime(t) ==
    /\ At(t, "seek prime") /\ t \notin cancelled
    /\ opened' = MoveDemuxer(d.current, opened[d.current].at + 1, opened)
    /\ Goto(t, "seek local") /\ UNCHANGED <<d, moved>>

\* Without flags, the segment is sought to its first packet at or after the target, or its last.
SeekLocal(t) ==
    /\ At(t, "seek local") /\ t \notin cancelled
    /\ LET local == Min({Max({0, call[t].target - d.base}), PacketsPerSegment - 1})
           placed == MoveDemuxer(d.current, local, opened)
       IN  opened' = IF entry.current = 0 THEN placed ELSE CloseDemuxer(entry.current, placed)
    /\ delivered' = <<>> /\ sought' = call[t].target /\ UNCHANGED timeline
    /\ Return(t) /\ UNCHANGED d

Seeking(t) == \E where \in {"seek open", "seek prime", "seek local"} : At(t, where)

SeekFail_KeepsBase(t) ==
    /\ Seeking(t)
    /\ t \in cancelled \/ At(t, "seek open")
    /\ opened' = IF d.current # 0 THEN CloseDemuxer(d.current, opened) ELSE opened
    /\ d' = [entry EXCEPT !.base = d.base]
    /\ Return(t) /\ UNCHANGED moved

SeekFail(t) ==
    /\ Seeking(t)
    /\ t \in cancelled \/ At(t, "seek open")
    /\ opened' = IF d.current # 0 THEN CloseDemuxer(d.current, opened) ELSE opened
    /\ d' = entry
    /\ Return(t) /\ UNCHANGED moved

SeekIncompatible(t) ==
    /\ At(t, "seek open") /\ t \notin cancelled
    /\ RejectStreams
    /\ d' = entry
    /\ Return(t) /\ UNCHANGED moved

SeekStep(t) ==
    \/ NotSeekable(t) \/ SeekStart(t) \/ SeekOpen(t) \/ SeekPrime(t)
    \/ SeekLocal(t) \/ SeekFail(t) \/ SeekIncompatible(t)

(* Close, when it has the lock, closes the current segment and leaves.     *)
CloseCurrent(t) ==
    /\ At(t, "start") /\ call[t].kind = "close"
    /\ opened' = IF d.current # 0 THEN CloseDemuxer(d.current, opened) ELSE opened
    /\ Return(t) /\ UNCHANGED <<d, moved>>

Next ==
    \/ Server
    \/ \E t \in Ops :
          \/ \E kind \in Kinds, target \in Targets : Call(t, kind, target)
          \/ Cancel(t) \/ Lock(t) \/ Check(t) \/ ReadStep(t) \/ SeekStep(t) \/ CloseCurrent(t)

Spec == Init /\ [][Next]_vars

(* A caller runs on, but a fetch may hang for as long as nobody cancels it:*)
(* only the steps that wait for no server are fair, a cancelled operation's*)
(* error among them.                                                       *)
Running(t) ==
    \/ Lock(t) \/ Check(t) \/ CloseCurrent(t)
    \/ EndOfPlaylist(t) \/ Deliver(t) \/ SegmentDone(t)
    \/ NotSeekable(t) \/ SeekStart(t) \/ SeekPrime(t) \/ SeekLocal(t)
    \/ (t \in cancelled /\ (Fail(t) \/ SeekFail(t)))

Fairness == \A t \in Ops : WF_vars(Running(t)) /\ WF_vars(RootCancel(t))

FairSpec == Spec /\ Fairness

-----------------------------------------------------------------------------
(* Properties.                                                             *)

Busy(t) == pc[t] = "in" /\ call[t].at \notin {"start", "nowhere"}

(* An operation past its check of d.closed works with a demuxer nobody has *)
(* closed: Close waits for it, and no later operation gets that far        *)
(* (hls.go:134-146, 201-213, 321-337).                                     *)
NoUseAfterClose ==
    \A t \in Ops : Busy(t) =>
        /\ d.current # 0 => opened[d.current].closes = 0
        /\ entry.current # 0 /\ call[t].kind = "seek" => opened[entry.current].closes = 0

(* Once Close is done every segment demuxer has been closed exactly once,  *)
(* whichever operation it interrupted (hls.go:245-255, 321-337).           *)
NoneLeftOpen ==
    closed /\ (\A t \in Ops : pc[t] = "out") => \A i \in DOMAIN opened : opened[i].closes = 1

(* While no operation is inside, the only open demuxer is the current one: *)
(* a candidate that was turned down does not linger (hls.go:247-249, 447). *)
OnlyCurrentOpen ==
    ~closed /\ gate = None =>
        \A i \in DOMAIN opened : opened[i].closes = 0 <=> i = d.current

(* No segment demuxer is used after it was closed, leaks, or is closed     *)
(* twice: all of the above (hls.go:134-146, 245-255, 321-337, 447).        *)
NoneLeaks == NoUseAfterClose /\ NoneLeftOpen /\ OnlyCurrentOpen

(* Between successful seeks the packets come in playlist order, each once, *)
(* across reloads, retries and failed seeks; a segment is passed over only *)
(* when the server had dropped it (hls.go:454-481).                        *)
InOrder ==
    \A i \in 1 .. Len(delivered) - 1 :
        LET p == delivered[i]  q == delivered[i + 1] IN
        \/ q.seq = p.seq /\ q.at = p.at + 1
        \/ /\ q.at = 0 /\ p.at = PacketsPerSegment - 1
           /\ q.seq > p.seq
           /\ q.seq > p.seq + 1 => server.lo >= q.seq

(* And their timeline has no hole or overlap at a segment boundary, nor    *)
(* after a seek that failed half way (hls.go:190-197, 243-255).            *)
StampsContiguous ==
    \A i \in 1 .. Len(delivered) - 1 : delivered[i + 1].stamp = delivered[i].stamp + 1

(* A seek to Target goes on at the first packet at or after it, of those   *)
(* the caller has seen: demuxer.go:8-10.  Once the demuxer has dropped the *)
(* first segments of a live playlist this is refuted: the first segment    *)
(* still listed is taken to be at time 0.                                  *)
SeekEarliest ==
    delivered # <<>> =>
        LET p == delivered[1] IN
        \A q \in timeline :
            q.stamp >= sought => p.seq < q.seq \/ (p.seq = q.seq /\ p.at <= q.at)

(* It holds as long as the list starts where the timeline does.            *)
SeekEarliestInList == d.segments[1] = FirstWindow[1] => SeekEarliest

(* The packets a caller is given are one timeline: all of the above.       *)
OneTimeline == InOrder /\ StampsContiguous /\ SeekEarliestInList

(* Close and every operation running or queued when it is called return,   *)
(* even if a fetch would hang for ever (demuxer.go:52-53); and so does an  *)
(* operation whose context is cancelled, unless one that nobody cancels    *)
(* holds the lock, and then it leaves the queue.                           *)
Unblocks == \A t \in Ops : (closed \/ t \in cancelled) /\ pc[t] # "out" ~> pc[t] = "out"

=============================================================================
