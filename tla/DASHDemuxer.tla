----------------------------- MODULE DASHDemuxer -----------------------------
(***************************************************************************)
(* pkg/media/dash.go: a demuxer over the segments of one representation of *)
(* a DASH presentation.  It is guarded like the HLS demuxer: ContextMutex  *)
(* admits one operation at a time, Close marks the demuxer closed, cancels *)
(* the root context and then waits for the lock.  Unlike HLS, segments     *)
(* have times of their own, and the manifest that a refresh finds may not  *)
(* offer the representation any more.                                      *)
(*                                                                         *)
(* The presentation on the server is given by its segments' durations in   *)
(* ticks, each holding a packet every PacketTicks.  A segment is known to  *)
(* the server by its place in the presentation and to the demuxer by what  *)
(* the manifest says.  Single packets may be anchored anywhere: "origin"   *)
(* says if media times go on from segment to segment or start again.       *)
(*                                                                         *)
(* All representations offered have the same segments and numbers; each    *)
(* may have an initialization segment of its own or none.                  *)
(***************************************************************************)
EXTENDS ContextMutex, SegmentDemuxers, DASHTimeline, FiniteSets, FiniteSetsExt

CONSTANTS
    Presentations,      \* [live, single, inits, addressing, origin, offset, durations]
    KindsOf,            \* what each caller does: subsets of {"read", "seek", "seek back", "close"}
    PacketTicks,
    Targets,            \* of seeks, in ticks
    MaxCalls            \* bound: calls to the demuxer that each caller makes

ASSUME DASHAssumption ==
    /\ PacketTicks \in Nat \ {0} /\ Targets \subseteq Nat /\ MaxCalls \in [Ops -> Nat]
    /\ KindsOf \in [Ops -> SUBSET {"read", "seek", "seek back", "close"}]

VARIABLES
    call,        \* what each caller is doing: [kind, target, at, updated]
    closed,      \* d.closed; the root context is cancelled with it
    d,           \* the fields of the demuxer that opMu guards
    old,         \* what a running seek found: oldCurrent, oldNext, oldShift, oldSet
    show,        \* the presentation
    server,      \* what the manifest on the server lists: [lo, hi, ended, reps]
    opened,      \* history: every segment demuxer created
    delivered,   \* history: packets returned since the last successful seek
    sought,      \* history: that seek, <<>> before any
    calls        \* number of calls each has made

mutexVars == <<gate, waiting, pc, cancelled>>
moved == <<delivered, sought>>
dashVars == <<mutexVars, call, closed, d, old, show, server, opened, moved, calls>>

-----------------------------------------------------------------------------
(* The server, which is not part of the repository.  A manifest may say    *)
(* what it lists in several ways.                                          *)

StartOf(n) == LET Ends[k \in 0 .. n - 1] == IF k = 0 THEN 0 ELSE Ends[k - 1] + show.durations[k] IN Ends[n - 1]
Total == StartOf(Len(show.durations) + 1)
Packets(n) == CeilDiv(show.durations[n], PacketTicks)

\* The ends of the runs of segments of one duration.
RunEnds == {n \in server.lo .. server.hi : n = server.hi \/ show.durations[n + 1] # show.durations[n]}
RunStart(n) == Max({server.lo} \cup {k + 1 : k \in {e \in RunEnds : e < n}})
Element(first, r, timed) ==
    [t |-> IF timed THEN StartOf(first) + show.offset ELSE NoTime, d |-> show.durations[first], r |-> r]

Runs == LET ends == SetToSortSeq(RunEnds, <) IN [i \in DOMAIN ends |-> <<RunStart(ends[i]), ends[i]>>]

\* An element for each segment; one for each run, counted; or repeated without a count where that is clear.
Timelines ==
    LET explicit == [i \in 1 .. server.hi - server.lo + 1 |-> Element(server.lo + i - 1, 0, TRUE)]
        repeated == [i \in DOMAIN Runs |-> Element(Runs[i][1], Runs[i][2] - Runs[i][1], i = 1)]
        open == [i \in DOMAIN Runs |->
                    Element(Runs[i][1], IF i < Len(Runs) \/ server.ended THEN Open ELSE Runs[i][2] - Runs[i][1], TRUE)]
    IN  {explicit, repeated, open}

\* A period's duration is written with limited precision, either way.
Periods == IF server.ended THEN {ScaleDASH(Total), ScaleDASH(Total) + 1} ELSE {0}

Blank == [kind |-> "single", startNumber |-> 0, offset |-> show.offset, duration |-> 0,
          entries |-> <<>>, urls |-> 0, period |-> 0]

\* All segments but the last, which may be shorter, are as long as the first one.
IsRegular == server.lo = 1 /\ show.offset = 0 /\ server.ended /\ RunEnds \subseteq {server.hi - 1, server.hi}

Manifests ==
    LET number == IF show.addressing = "number" THEN server.lo ELSE 0
        timed == {[Blank EXCEPT !.kind = "timeline", !.startNumber = number, !.entries = e, !.period = p] :
                      e \in Timelines, p \in Periods}
        regular == {[Blank EXCEPT !.kind = kind, !.duration = show.durations[1], !.urls = server.hi, !.period = p] :
                       kind \in {"template", "list"}, p \in Periods}
    IN  IF show.single THEN {[Blank EXCEPT !.period = p] : p \in Periods}
        ELSE timed \cup (IF IsRegular THEN regular ELSE {})

\* The segment that is found at the URL of one that the manifest lists.
Resource(segment) ==
    IF show.addressing = "number" THEN segment.number
    ELSE CHOOSE n \in DOMAIN show.durations : StartOf(n) + show.offset = segment.time

MediaTime(n, at) == (IF show.origin = "absolute" THEN StartOf(n) + show.offset ELSE 0) + at * PacketTicks

Publish == ~server.ended /\ server.hi < Len(show.durations) /\ server' = [server EXCEPT !.hi = @ + 1]
Expire == ~server.ended /\ server.lo < server.hi /\ server' = [server EXCEPT !.lo = @ + 1]
End == ~server.ended /\ server.hi = Len(show.durations) /\ server' = [server EXCEPT !.ended = TRUE]
Withdraw == "b" \in server.reps /\ server' = [server EXCEPT !.reps = {"a"}]

Server ==
    /\ Publish \/ Expire \/ End \/ Withdraw
    /\ UNCHANGED <<mutexVars, call, closed, d, old, show, opened, moved, calls>>

-----------------------------------------------------------------------------
NoShift == -1000
NoRep == ""
NoSeek == [current |-> 0, next |-> 0, shift |-> NoShift]

NoUpdate == [rep |-> NoRep, segments |-> <<>>, dynamic |-> FALSE]
Idle == [kind |-> "none", target |-> 0, at |-> "nowhere", updated |-> NoUpdate]

\* selectDASHRepresentation: the one with the highest bandwidth, "b" before "a".
Selected(reps) == IF "b" \in reps THEN "b" ELSE "a"

\* The initialization segment a representation read by segments names, if any.
InitOf(rep) == IF rep \in show.inits THEN rep ELSE NoRep

(* OpenDASH has fetched the manifest and the initialization segment, and   *)
(* opened the first segment.                                               *)
DashInit ==
    /\ Init
    /\ call = [t \in Ops |-> Idle]
    /\ closed = FALSE
    /\ show \in Presentations
    /\ server = [lo |-> 1, hi |-> IF show.live THEN 1 ELSE Len(show.durations), ended |-> ~show.live, reps |-> {"a", "b"}]
    /\ \E m \in Manifests :
          d = [current |-> 1, next |-> 1, segments |-> ParseDASH(m), dynamic |-> ~server.ended,
               rep |-> Selected(server.reps), init |-> InitOf(Selected(server.reps)), shift |-> NoShift]
    /\ old = NoSeek
    /\ opened = <<NewDemuxer(1)>>
    /\ delivered = <<>> /\ sought = <<>>
    /\ calls = [t \in Ops |-> 0]

-----------------------------------------------------------------------------
(* The callers' contexts and the way into an operation.                    *)

Call(t, kind, target) ==
    /\ call[t].kind = "none" /\ calls[t] < MaxCalls[t]
    /\ calls' = [calls EXCEPT ![t] = @ + 1]
    /\ UNCHANGED <<d, old, show, server, opened, moved>>
    /\ \/ /\ kind # "close" \/ ~closed
          /\ Enter(t)
          /\ call' = [call EXCEPT ![t] = [Idle EXCEPT !.kind = kind, !.target = target, !.at = "start"]]
          /\ closed' = (closed \/ kind = "close")
       \/ kind = "close" /\ closed /\ UNCHANGED <<mutexVars, call, closed>>

(* The caller's context is cancelled at any time, or the root context      *)
(* cancels it; Close takes the lock with Background.                       *)
CancelCall(t) ==
    /\ call[t].kind # "close" /\ t \notin cancelled
    /\ Cancel(t)
    /\ UNCHANGED <<call, closed, d, old, show, server, opened, moved, calls>>

RootCancel_Never(t) == FALSE /\ UNCHANGED dashVars

RootCancel(t) == closed /\ CancelCall(t)

(* The steps inside opMu.lock; a caller that is refused has returned.      *)
Lock(t) ==
    /\ Abandon(t) \/ Admit(t) \/ Refuse(t)
    /\ call' = [call EXCEPT ![t] = IF pc'[t] = "out" THEN Idle ELSE @]
    /\ UNCHANGED <<closed, d, old, show, server, opened, moved, calls>>

At(t, where) == pc[t] = "in" /\ call[t].at = where
Inside == UNCHANGED <<closed, show, server, calls>>
Move(t, where, updated) ==
    /\ call' = [call EXCEPT ![t] = [kind |-> @.kind, target |-> @.target, at |-> where, updated |-> updated]]
    /\ UNCHANGED mutexVars /\ Inside
Stay(t, where) == Move(t, where, call[t].updated)
Goto(t, where) == Stay(t, where) /\ UNCHANGED old
Return(t) == Unlock(t) /\ call' = [call EXCEPT ![t] = Idle] /\ old' = NoSeek /\ Inside

Seeks == {"seek", "seek back"}

(* d.closed is read under stateMu after the lock is taken.                 *)
Check(t) ==
    /\ At(t, "start") /\ call[t].kind # "close"
    /\ UNCHANGED <<d, opened, moved>>
    /\ IF closed THEN Return(t) ELSE Goto(t, IF call[t].kind \in Seeks THEN "seek" ELSE "read")

-----------------------------------------------------------------------------
(* ReadPacket, once past the check.                                        *)

Exhausted == d.current = 0 /\ d.next > Len(d.segments)

EndOfPresentation(t) ==
    /\ At(t, "read") /\ Exhausted /\ ~d.dynamic
    /\ Return(t) /\ UNCHANGED <<d, opened, moved>>

\* What a manifest lists beyond the last segment known.
Newer_NotStrictly(segments) == SelectSeq(segments, LAMBDA s : s.number > Last(d.segments).number \/ s.start >= Last(d.segments).start)

Newer(segments) == SelectSeq(segments, LAMBDA s : s.number > Last(d.segments).number \/ s.start > Last(d.segments).start)

Install(updated, init) ==
    d' = [d EXCEPT !.rep = updated.rep, !.segments = updated.segments, !.dynamic = updated.dynamic,
                   !.init = init, !.next = 1]

(* The initialization segment of another representation is fetched before  *)
(* anything is replaced; one that names none is read with what there is.   *)
Replace_InstallsFirst(t, updated) ==
    /\ Install(updated, d.init)
    /\ IF InitOf(updated.rep) \in {NoRep, InitOf(d.rep)} THEN Goto(t, "read") ELSE Move(t, "init", updated) /\ UNCHANGED old

Replace(t, updated) ==
    IF InitOf(updated.rep) \in {NoRep, InitOf(d.rep)} THEN Install(updated, d.init) /\ Goto(t, "read")
    ELSE Move(t, "init", updated) /\ UNCHANGED <<d, old>>

(* refresh: the manifest is retrieved again, for the same representation   *)
(* if it is still offered.  Without a newer segment the caller is told to  *)
(* wait, or that the presentation is over.                                 *)
Refresh(t) ==
    /\ At(t, "read") /\ Exhausted /\ d.dynamic /\ t \notin cancelled
    /\ \E m \in Manifests :
       \E updated \in {[rep |-> IF d.rep \in server.reps THEN d.rep ELSE Selected(server.reps),
                        segments |-> Newer(ParseDASH(m)), dynamic |-> ~server.ended]} :
              IF updated.segments = <<>> THEN d' = [d EXCEPT !.dynamic = updated.dynamic] /\ Return(t)
              ELSE Replace(t, updated)
    /\ UNCHANGED <<opened, moved>>

FetchInit(t) ==
    /\ At(t, "init") /\ t \notin cancelled
    /\ Install(call[t].updated, InitOf(call[t].updated.rep))
    /\ Move(t, "read", NoUpdate) /\ UNCHANGED <<old, opened, moved>>

(* openSegment: fetch the segment and make it the current one, or find its *)
(* streams incompatible and close it again.                                *)
OpenSegment(t, where) ==
    /\ t \notin cancelled
    /\ opened' = Append(opened, NewDemuxer(Resource(d.segments[d.next])))
    /\ d' = [d EXCEPT !.current = Len(opened) + 1, !.shift = NoShift]
    /\ UNCHANGED moved
    /\ Goto(t, where)

RejectStreams == opened' = Append(opened, ClosedDemuxer)

OpenNext(t) == At(t, "read") /\ d.current = 0 /\ ~Exhausted /\ OpenSegment(t, "read")

Incompatible(t) ==
    /\ At(t, "read") /\ d.current = 0 /\ ~Exhausted /\ t \notin cancelled
    /\ RejectStreams
    /\ Return(t) /\ UNCHANGED <<d, moved>>

(* A fetch fails, or the context is found cancelled by the fetch or by the *)
(* segment demuxer: the call returns the error and can be repeated.        *)
Fail(t) ==
    /\ \/ At(t, "read") /\ (t \in cancelled \/ (d.current = 0 /\ (Exhausted => d.dynamic)))
       \/ At(t, "init")
    /\ Return(t) /\ UNCHANGED <<d, opened, moved>>

\* segmentTimestampShift: from the segment's first packet to the time the manifest gives the segment.
Shift(n, at, start) == Quo(start * Timescale - MediaTime(n, at) * NsPerSecond, NsPerSecond)

Deliver(t) ==
    /\ At(t, "read") /\ d.current # 0 /\ t \notin cancelled
    /\ \E m \in {opened[d.current]} :
       \E shift \in {IF d.shift # NoShift THEN d.shift ELSE Shift(m.seg, m.at, d.segments[d.next].start)} :
           /\ m.at < Packets(m.seg)
           /\ opened' = MoveDemuxer(d.current, m.at + 1, opened)
           /\ d' = [d EXCEPT !.shift = shift]
           /\ delivered' = Append(delivered, [seg |-> m.seg, at |-> m.at, stamp |-> MediaTime(m.seg, m.at) + shift])
    /\ Return(t) /\ UNCHANGED sought

SegmentDone(t) ==
    /\ At(t, "read") /\ d.current # 0 /\ t \notin cancelled
    /\ opened[d.current].at = Packets(opened[d.current].seg)
    /\ opened' = CloseDemuxer(d.current, opened)
    /\ d' = [d EXCEPT !.current = 0, !.next = @ + 1]
    /\ Goto(t, "read") /\ UNCHANGED moved

ReadStep(t) ==
    \/ EndOfPresentation(t) \/ Refresh(t) \/ FetchInit(t) \/ OpenNext(t) \/ Incompatible(t)
    \/ Fail(t) \/ Deliver(t) \/ SegmentDone(t)

-----------------------------------------------------------------------------
(* Seek, as in HLS, but for the segment, which is found by its own time.   *)

SegmentAt(target) ==
    LET ns == ScaleDASH(target)
        after == {i \in DOMAIN d.segments : ns < d.segments[i].start + d.segments[i].duration}
    IN  IF after = {} THEN Len(d.segments) ELSE Min(after)

NotSeekable(t) ==
    /\ At(t, "seek") /\ d.dynamic
    /\ Return(t) /\ UNCHANGED <<d, opened, moved>>

SeekStart(t) ==
    /\ At(t, "seek") /\ ~d.dynamic
    /\ d' = [d EXCEPT !.current = 0, !.next = SegmentAt(call[t].target)]
    /\ old' = [current |-> d.current, next |-> d.next, shift |-> d.shift]
    /\ Stay(t, "seek open") /\ UNCHANGED <<opened, moved>>

SeekOpen(t) == At(t, "seek open") /\ OpenSegment(t, "seek prime")

SeekPrime(t) ==
    /\ At(t, "seek prime") /\ t \notin cancelled
    /\ \E m \in {opened[d.current]} :
          /\ opened' = MoveDemuxer(d.current, m.at + 1, opened)
          /\ d' = [d EXCEPT !.shift = Shift(m.seg, m.at, d.segments[d.next].start)]
    /\ Goto(t, "seek local") /\ UNCHANGED moved

(* The segment's demuxer goes to its first packet at or after the target,  *)
(* or its last at or before it; without one, to the one next to it.        *)
Place(n, local, back) ==
    LET all == 0 .. Packets(n) - 1
        fits == {at \in all : IF back THEN MediaTime(n, at) <= local ELSE MediaTime(n, at) >= local}
    IN  IF fits = {} THEN (IF back THEN 0 ELSE Max(all)) ELSE IF back THEN Max(fits) ELSE Min(fits)

SeekLocal(t) ==
    /\ At(t, "seek local") /\ t \notin cancelled
    /\ LET back == call[t].kind = "seek back"
           place == Place(opened[d.current].seg, call[t].target - d.shift, back)
           placed == MoveDemuxer(d.current, place, opened)
       IN  /\ opened' = IF old.current = 0 THEN placed ELSE CloseDemuxer(old.current, placed)
           /\ delivered' = <<>> /\ sought' = <<call[t].target, back>>
    /\ Return(t) /\ UNCHANGED d

SeekFail(t) ==
    /\ \/ At(t, "seek open")
       \/ (At(t, "seek prime") \/ At(t, "seek local")) /\ t \in cancelled
    /\ opened' = IF d.current # 0 THEN CloseDemuxer(d.current, opened) ELSE opened
    /\ d' = [d EXCEPT !.current = old.current, !.next = old.next, !.shift = old.shift]
    /\ Return(t) /\ UNCHANGED moved

SeekIncompatible(t) ==
    /\ At(t, "seek open") /\ t \notin cancelled
    /\ RejectStreams
    /\ d' = [d EXCEPT !.current = old.current, !.next = old.next, !.shift = old.shift]
    /\ Return(t) /\ UNCHANGED moved

SeekStep(t) ==
    \/ NotSeekable(t) \/ SeekStart(t) \/ SeekOpen(t) \/ SeekPrime(t)
    \/ SeekLocal(t) \/ SeekFail(t) \/ SeekIncompatible(t)

(* Close, when it has the lock, closes the current segment and leaves.     *)
CloseCurrent(t) ==
    /\ At(t, "start") /\ call[t].kind = "close"
    /\ opened' = IF d.current # 0 THEN CloseDemuxer(d.current, opened) ELSE opened
    /\ Return(t) /\ UNCHANGED <<d, moved>>

DashNext ==
    \/ Server
    \/ \E t \in Ops :
          \/ \E kind \in KindsOf[t] \cap Seeks, target \in Targets : Call(t, kind, target)
          \/ \E kind \in KindsOf[t] \ Seeks : Call(t, kind, 0)
          \/ CancelCall(t) \/ Lock(t) \/ Check(t) \/ ReadStep(t) \/ SeekStep(t) \/ CloseCurrent(t)

DashSpec == DashInit /\ [][DashNext]_dashVars

(* A caller runs on, but a fetch may hang for as long as nobody cancels it:*)
(* only the steps that wait for no server are fair, a cancelled operation's*)
(* error among them.                                                       *)
Running(t) ==
    \/ Lock(t) \/ Check(t) \/ CloseCurrent(t)
    \/ EndOfPresentation(t) \/ Deliver(t) \/ SegmentDone(t)
    \/ NotSeekable(t) \/ SeekStart(t) \/ SeekPrime(t) \/ SeekLocal(t)
    \/ (t \in cancelled /\ (Fail(t) \/ SeekFail(t)))

Fairness == \A t \in Ops : WF_dashVars(Running(t)) /\ WF_dashVars(RootCancel(t))

FairSpec == DashSpec /\ Fairness

-----------------------------------------------------------------------------
(* Properties.                                                             *)

Busy(t) == pc[t] = "in" /\ call[t].at \notin {"start", "nowhere"}

(* An operation past its check of d.closed works with segments that nobody *)
(* has closed (dash.go:193, 216-221, 326-347).                             *)
NoUseAfterClose ==
    \A t \in Ops : Busy(t) =>
        /\ d.current # 0 => opened[d.current].closes = 0
        /\ old.current # 0 => opened[old.current].closes = 0

(* The segments of a representation that names an initialization segment   *)
(* are read with that one, also after a refresh that could not fetch it or *)
(* found it fetched; of one that names none, with whatever was read before *)
(* (dash.go:269-281, 444).                                                 *)
OwnInit == InitOf(d.rep) # NoRep => d.init = InitOf(d.rep)

(* Once Close is done every segment demuxer has been closed exactly once,  *)
(* and while no operation is inside only the current one is open           *)
(* (dash.go:342-351, 390-406, 446-449).                                    *)
NoneLeaks ==
    /\ NoUseAfterClose /\ OwnInit
    /\ closed /\ (\A t \in Ops : pc[t] = "out") => \A i \in DOMAIN opened : opened[i].closes = 1
    /\ ~closed /\ gate = None => \A i \in DOMAIN opened : opened[i].closes = 0 <=> i = d.current

(* A packet gets the time it has in the presentation, or a tick less where *)
(* the manifest's time is rounded (dash.go:217-224, internal/manifest/     *)
(* dash.go:620-629).                                                       *)
TrueTime(p) == StartOf(p.seg) + p.at * PacketTicks
OnTime(p) == p.stamp \in {TrueTime(p) - 1, TrueTime(p)}

(* From one packet to the next nothing is repeated, and nothing skipped    *)
(* but segments that the server has dropped (dash.go:266-285).             *)
Follows(p, q) ==
    \/ q.seg = p.seg /\ q.at = p.at + 1
    \/ q.seg > p.seg /\ q.at = 0 /\ p.at = Packets(p.seg) - 1 /\ (q.seg > p.seg + 1 => server.lo >= q.seg)

(* All packets that the manifest in use lists.                             *)
Listed == UNION {{[seg |-> Resource(s), at |-> at, stamp |-> MediaTime(Resource(s), at) + Shift(Resource(s), 0, s.start)] :
                     at \in 0 .. Packets(Resource(s)) - 1} : s \in ToSet(d.segments)}

(* A seek goes to the earliest packet at or after its target, or the last  *)
(* of the segment that the target is in; backwards to the latest at or     *)
(* before it, give or take a tick (demuxer.go:8-10, dash.go:325-341).      *)
Lands(p, target, back) ==
    IF back THEN /\ p.stamp <= target \/ \A q \in Listed : q.stamp >= p.stamp
                 /\ \A q \in Listed : q.stamp > p.stamp => q.stamp >= target
    ELSE /\ p.stamp >= target \/ p.at = Packets(p.seg) - 1
         /\ \A q \in Listed : q.stamp < p.stamp => q.stamp < target

OneTimeline ==
    /\ \A i \in DOMAIN delivered : OnTime(delivered[i])
    /\ \A i \in 1 .. Len(delivered) - 1 : Follows(delivered[i], delivered[i + 1])
    /\ sought # <<>> /\ delivered # <<>> => Lands(delivered[1], sought[1], sought[2])

(* Close and every operation running or queued when it is called return,   *)
(* even if a fetch would hang for ever (demuxer.go:52-53); and so does an  *)
(* operation whose context is cancelled.                                   *)
Unblocks == \A t \in Ops : (closed \/ t \in cancelled) /\ pc[t] # "out" ~> pc[t] = "out"

=============================================================================
