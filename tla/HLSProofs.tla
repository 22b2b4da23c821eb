------------------------------ MODULE HLSProofs ------------------------------
(***************************************************************************)
(* Proofs about HLSDemuxer, for any number of callers, calls and segments  *)
(* and whatever the server does: no segment demuxer is used after it was   *)
(* closed, and each is closed exactly once.  A seek goes back to the       *)
(* segment of "entry" if it fails, so that one is open for as long as a    *)
(* seek is on its way.  And the packets that callers get between two seeks *)
(* are one timeline.                                                       *)
(***************************************************************************)
EXTENDS HLSDemuxer, SequenceTheorems, TLAPS

LockProofs == INSTANCE SharedProofs WITH Cancellable <- Ops

-----------------------------------------------------------------------------
(* The segment demuxers that are open, as SharedProofs has them.           *)
IsOpened(all) == LockProofs!IsOpened(all)
Owned(all, current, previous) == LockProofs!Owned(all, current, previous)

LEMMA SameDemuxers ==
    /\ \A all : \A i, at : MoveDemuxer(i, at, all) = LockProofs!MoveDemuxer(i, at, all)
    /\ \A all : \A i : CloseDemuxer(i, all) = LockProofs!CloseDemuxer(i, all)
    /\ \A seg : NewDemuxer(seg) = LockProofs!NewDemuxer(seg)
    /\ ClosedDemuxer = LockProofs!ClosedDemuxer
BY DEF MoveDemuxer, LockProofs!MoveDemuxer, CloseDemuxer, LockProofs!CloseDemuxer,
       NewDemuxer, LockProofs!NewDemuxer, ClosedDemuxer, LockProofs!ClosedDemuxer

LEMMA OwnedCreated ==
    ASSUME NEW all, NEW previous, Owned(all, 0, previous), NEW seg
    PROVE  Owned(Append(all, NewDemuxer(seg)), Len(all) + 1, previous) /\ Len(all) + 1 # 0
BY HLSAssumption, SameDemuxers, LockProofs!OwnedCreated DEF Owned

LEMMA OwnedRejected ==
    ASSUME NEW all, NEW current, NEW previous, Owned(all, current, previous)
    PROVE  Owned(Append(all, ClosedDemuxer), current, previous)
BY HLSAssumption, SameDemuxers, LockProofs!OwnedRejected DEF Owned

LEMMA OwnedMoved ==
    ASSUME NEW all, NEW current, NEW previous, Owned(all, current, previous), current # 0, NEW at
    PROVE  Owned(MoveDemuxer(current, at, all), current, previous)
BY HLSAssumption, SameDemuxers, LockProofs!OwnedMoved DEF Owned

LEMMA OwnedClosed ==
    ASSUME NEW all, NEW current, NEW previous, Owned(all, current, previous), current # 0
    PROVE  Owned(CloseDemuxer(current, all), 0, previous)
BY HLSAssumption, SameDemuxers, LockProofs!OwnedClosed DEF Owned

LEMMA OwnedSwapped ==
    ASSUME NEW all, NEW current, NEW previous, Owned(all, current, previous)
    PROVE  Owned(all, previous, current)
BY HLSAssumption, LockProofs!OwnedSwapped DEF Owned

LEMMA Advanced ==
    ASSUME NEW all, IsOpened(all), NEW i \in DOMAIN all, NEW at
    PROVE  LET new == MoveDemuxer(i, at, all) IN
           /\ IsOpened(new) /\ Len(new) = Len(all) /\ DOMAIN new = DOMAIN all
           /\ \A j \in DOMAIN all : new[j].closes = all[j].closes
BY HLSAssumption, SameDemuxers, LockProofs!Advanced DEF IsOpened

-----------------------------------------------------------------------------
(* The invariant.                                                          *)

SeekPlaces == {"seek open", "seek prime", "seek local"}
Places == {"seek", "read"} \cup SeekPlaces

\* Close has returned.
Finished == closed /\ \A t \in Ops : call[t].kind # "close"

\* The one that a seek goes back to.
Previous == IF \E t \in Ops : call[t].at \in SeekPlaces THEN entry.current ELSE 0

\* Fields of the records.
IsDemuxer(x) == x = [current |-> x.current, next |-> x.next, segments |-> x.segments,
                     endList |-> x.endList, seg |-> x.seg, base |-> x.base]

Shapes ==
    /\ call = [t \in Ops |-> call[t]]
    /\ \A t \in Ops : call[t] = [kind |-> call[t].kind, target |-> call[t].target, at |-> call[t].at]
    /\ \A t \in Ops : call[t].kind \in {"none", "read", "seek", "close"}
    /\ IsDemuxer(d) /\ IsDemuxer(entry)
    /\ closed \in BOOLEAN

OneCloser == \A t, u \in Ops : call[t].kind = "close" /\ call[u].kind = "close" => t = u

\* How far an operation has come, and what that says of the lock and the demuxer.
Phases ==
    /\ \A t \in Ops :
          /\ pc[t] = "out" <=> call[t].kind = "none"
          /\ call[t].at \notin {"start", "nowhere"} => pc[t] = "in"
          /\ call[t].at \in {"seek", "read"} => call[t].kind = call[t].at
          /\ call[t].kind = "close" => call[t].at = "start" /\ t \notin cancelled /\ closed
          /\ call[t].at = "seek open" => d.current = 0
          /\ call[t].at \in {"seek prime", "seek local"} => d.current # 0
          /\ pc[t] = "in" /\ call[t].kind = "seek" /\ call[t].at \notin SeekPlaces => entry.current = d.current
    /\ OneCloser

Ownership ==
    /\ ~Finished => Owned(opened, d.current, Previous)
    /\ Finished => (\A i \in DOMAIN opened : opened[i].closes = 1) /\ (\A t \in Ops : ~Busy(t))

HlsInv == LockProofs!IInv /\ Shapes /\ Phases /\ Ownership

-----------------------------------------------------------------------------
(* The lock.  Giving it up leaves everybody else where they were, but for  *)
(* the one it is handed to.                                                *)
LEMMA Alone ==
    ASSUME LockProofs!IInv, NEW t \in Ops, pc[t] = "in", NEW u \in Ops, u # t
    PROVE  pc[u] # "in"
BY DEF LockProofs!IInv, LockProofs!TokenHasOwner

LEMMA Released ==
    ASSUME LockProofs!IInv, NEW t \in Ops, pc[t] \in {"holding", "in"}, Mutex!Release(t)
    PROVE  /\ pc'[t] = "out"
           /\ \A u \in Ops : u # t => (pc'[u] = "out" <=> pc[u] = "out") /\ pc'[u] # "in"
<1> USE DEF LockProofs!IInv, LockProofs!TypeOK
<1>1. \A u \in Ops : u # t => pc[u] \notin {"holding", "in"}
  BY DEF LockProofs!TokenHasOwner
<1>2. CASE waiting = <<>>
  BY <1>1, <1>2 DEF Mutex!Release
<1>3. CASE waiting # <<>>
  <2>1. 1 \in DOMAIN waiting /\ Head(waiting) = waiting[1] /\ Head(waiting) \in Ops
    BY <1>3
  <2>2. pc[Head(waiting)] = "queued"
    BY <2>1 DEF LockProofs!QueueOfWaiters
  <2> QED
    BY <1>1, <1>3, <2>1, <2>2 DEF Mutex!Release
<1> QED
  BY <1>2, <1>3

LEMMA LockSteps ==
    ASSUME LockProofs!IInv, NEW t \in Ops,
           \/ Mutex!Enter(t) \/ Mutex!Cancel(t) \/ Mutex!Abandon(t) \/ Mutex!Admit(t) \/ Mutex!Refuse(t)
           \/ Mutex!Unlock(t) \/ UNCHANGED mutexVars
    PROVE  LockProofs!IInv'
<1>1. LockProofs!Next \/ UNCHANGED LockProofs!vars
  BY DEF LockProofs!Next, LockProofs!vars, mutexVars,
         Mutex!Enter, Mutex!Cancel, Mutex!Abandon, Mutex!Admit, Mutex!Refuse, Mutex!Unlock,
         Mutex!Release, Mutex!Without,
         LockProofs!Enter, LockProofs!Cancel, LockProofs!Abandon, LockProofs!Admit, LockProofs!Refuse,
         LockProofs!Unlock, LockProofs!Release, LockProofs!Without
<1> QED
  BY <1>1, LockProofs!StepInvariant, HLSAssumption

-----------------------------------------------------------------------------
LEMMA OneIsBusy ==
    ASSUME HlsInv, NEW t \in Ops, pc[t] = "in"
    PROVE  \A u \in Ops : u # t => call[u].at \in {"start", "nowhere"} /\ pc[u] # "in"
BY Alone DEF HlsInv, Phases

LEMMA PreviousIs ==
    ASSUME HlsInv, NEW t \in Ops, pc[t] = "in"
    PROVE  Previous = IF call[t].at \in SeekPlaces THEN entry.current ELSE 0
<1>1. \A u \in Ops : u # t => call[u].at \notin SeekPlaces
  BY OneIsBusy DEF SeekPlaces
<1> QED
  BY <1>1 DEF Previous

LEMMA BusyFacts ==
    ASSUME HlsInv, NEW t \in Ops, pc[t] = "in", call[t].at \in Places
    PROVE  /\ ~Finished /\ call[t].kind # "close"
           /\ Owned(opened, d.current, IF call[t].at \in SeekPlaces THEN entry.current ELSE 0)
           /\ call[t].at = "seek open" => d.current = 0
           /\ call[t].at \in {"seek prime", "seek local"} => d.current # 0
<1>1. Busy(t)
  BY DEF Busy, Places, SeekPlaces
<1>2. ~Finished /\ Owned(opened, d.current, Previous)
  BY <1>1 DEF HlsInv, Ownership
<1>3. call[t].kind # "close"
  BY DEF HlsInv, Phases, Places, SeekPlaces
<1> QED
  BY <1>2, <1>3, PreviousIs DEF HlsInv, Phases

\* Whether Close has returned does not change with a step of an operation.
LEMMA FinishedKept ==
    ASSUME NEW t \in Ops, call[t].kind # "close", call'[t].kind # "close",
           \A u \in Ops : u # t => call'[u] = call[u], closed' = closed
    PROVE  Finished' <=> Finished
BY DEF Finished

(* A step with which the operation inside returns.                         *)
LEMMA ReturnPreserves ==
    ASSUME HlsInv, NEW t \in Ops, pc[t] = "in", call[t].kind # "close", Return(t), IsDemuxer(d'),
           Finished => opened' = opened,
           ~Finished => Owned(opened', d'.current, 0)
    PROVE  HlsInv'
<1>1. LockProofs!IInv'
  BY LockSteps DEF Return, HlsInv
<1>2. /\ pc'[t] = "out" /\ cancelled' = cancelled
      /\ \A u \in Ops : u # t => (pc'[u] = "out" <=> pc[u] = "out") /\ pc'[u] # "in"
  BY Released DEF Return, Mutex!Unlock, HlsInv
<1>3. closed' = closed /\ entry' = entry /\ call' = [call EXCEPT ![t] = Idle]
  BY DEF Return
<1>4. Shapes'
  BY <1>3 DEF HlsInv, Shapes, Idle, IsDemuxer
<1>5. /\ \A u \in Ops : call'[u] = IF u = t THEN Idle ELSE call[u]
      /\ Idle.kind = "none" /\ Idle.at = "nowhere"
  BY <1>3 DEF HlsInv, Shapes, Idle
<1>6. \A u \in Ops : call'[u].at \in {"start", "nowhere"} /\ pc'[u] # "in"
  BY <1>2, <1>5, OneIsBusy
<1>7. Phases'
  <2>1. \A u \in Ops : /\ pc'[u] = "out" <=> call'[u].kind = "none"
                       /\ call'[u].kind = "close" => call'[u].at = "start" /\ u \notin cancelled'
    BY <1>2, <1>5 DEF HlsInv, Phases
  <2>2. \A u \in Ops : call'[u].kind = "close" => closed'
    <3>1. \A u \in Ops : call[u].kind = "close" => closed
      BY DEF HlsInv, Phases
    <3> QED
      BY <1>3, <1>5, <3>1
  <2>3. OneCloser'
    BY <1>5 DEF HlsInv, Phases, OneCloser
  <2> QED
    BY <1>6, <2>1, <2>2, <2>3 DEF Phases
<1>8. Finished' <=> Finished
  BY <1>3, <1>5, FinishedKept
<1>9. Previous' = 0
  BY <1>6 DEF Previous, SeekPlaces
<1>10. Ownership'
  BY <1>6, <1>8, <1>9 DEF HlsInv, Ownership, Busy
<1> QED
  BY <1>1, <1>4, <1>7, <1>10 DEF HlsInv

(* A step with which it goes on, inside.                                   *)
LEMMA GotoPreserves ==
    ASSUME HlsInv, NEW t \in Ops, pc[t] = "in", call[t].kind # "close", NEW where \in Places,
           Goto(t, where), IsDemuxer(d'), ~Finished,
           Owned(opened', d'.current, IF where \in SeekPlaces THEN entry.current ELSE 0),
           where \in {"seek", "read"} => call[t].kind = where,
           where = "seek open" => d'.current = 0,
           where \in {"seek prime", "seek local"} => d'.current # 0,
           where = "seek" => entry.current = d'.current
    PROVE  HlsInv'
<1> DEFINE new == [kind |-> call[t].kind, target |-> call[t].target, at |-> where]
<1>1. LockProofs!IInv'
  BY LockSteps DEF Goto, HlsInv
<1>2. /\ closed' = closed /\ entry' = entry /\ pc' = pc /\ cancelled' = cancelled
      /\ call' = [call EXCEPT ![t] = new]
  BY DEF Goto, mutexVars
<1>3. /\ \A u \in Ops : call'[u] = IF u = t THEN new ELSE call[u]
      /\ new.kind = call[t].kind /\ new.at = where
  BY <1>2 DEF HlsInv, Shapes
<1>4. Shapes'
  BY <1>2 DEF HlsInv, Shapes, IsDemuxer
<1> HIDE DEF new
<1>5. \A u \in Ops : u # t => call'[u].at \in {"start", "nowhere"} /\ pc'[u] # "in"
  BY <1>2, <1>3, OneIsBusy
<1>6. \A u \in Ops : call'[u].kind = call[u].kind
  BY <1>3
<1>7. Phases'
  <2>1. \A u \in Ops : /\ pc'[u] = "out" <=> call'[u].kind = "none"
                       /\ call'[u].at \notin {"start", "nowhere"} => pc'[u] = "in"
    BY <1>2, <1>3, <1>5, <1>6 DEF HlsInv, Phases
  <2>2. \A u \in Ops : call'[u].kind = "close" => call'[u].at = "start" /\ u \notin cancelled'
    BY <1>2, <1>3, <1>6 DEF HlsInv, Phases
  <2>3. \A u \in Ops : call'[u].kind = "close" => closed'
    BY <1>2, <1>6 DEF HlsInv, Phases
  <2>4. \A u \in Ops : /\ call'[u].at = "seek open" => d'.current = 0
                       /\ call'[u].at \in {"seek prime", "seek local"} => d'.current # 0
    BY <1>3, <1>5
  <2>5. \A u \in Ops : pc'[u] = "in" /\ call'[u].kind = "seek" /\ call'[u].at \notin SeekPlaces
                       => entry'.current = d'.current
    BY <1>2, <1>3, <1>5 DEF Places
  <2>6. OneCloser
    BY DEF HlsInv, Phases
  <2>7. OneCloser'
    BY <1>6, <2>6 DEF OneCloser
  <2>8. \A u \in Ops : call'[u].at \in {"seek", "read"} => call'[u].kind = call'[u].at
    BY <1>3, <1>5, <1>6
  <2> QED
    BY <2>1, <2>2, <2>3, <2>4, <2>5, <2>7, <2>8 DEF Phases
<1>8. Finished' <=> Finished
  BY <1>2, <1>3, FinishedKept
<1>9. Previous' = IF where \in SeekPlaces THEN entry.current ELSE 0
  <2>1. \A u \in Ops : u # t => call'[u].at \notin SeekPlaces
    BY <1>5 DEF SeekPlaces
  <2> QED
    BY <1>2, <1>3, <2>1 DEF Previous
<1>10. Ownership'
  BY <1>8, <1>9 DEF Ownership
<1> QED
  BY <1>1, <1>4, <1>7, <1>10 DEF HlsInv

\* Steps that leave the demuxers alone.
LEMMA OnlyReturns ==
    ASSUME HlsInv, NEW t \in Ops, pc[t] = "in", call[t].kind # "close", call[t].at \notin SeekPlaces,
           Return(t), UNCHANGED <<d, opened>>
    PROVE  HlsInv'
<1>1. IsDemuxer(d')
  BY DEF HlsInv, Shapes
<1>2. ~Finished => Owned(opened', d'.current, 0)
  BY PreviousIs DEF HlsInv, Ownership
<1> QED
  BY <1>1, <1>2, ReturnPreserves

LEMMA OnlyGoes ==
    ASSUME HlsInv, NEW t \in Ops, pc[t] = "in", call[t].kind # "close", call[t].at \notin SeekPlaces,
           NEW where \in {"seek", "read"}, Goto(t, where), UNCHANGED <<d, opened>>, ~Finished,
           call[t].kind = where
    PROVE  HlsInv'
<1>1. IsDemuxer(d')
  BY DEF HlsInv, Shapes
<1>2. Owned(opened', d'.current, 0)
  BY PreviousIs DEF HlsInv, Ownership
<1>3. where \in Places /\ where \notin SeekPlaces /\ where \notin {"seek open", "seek prime", "seek local"}
  BY DEF Places, SeekPlaces
<1>4. where = "seek" => entry.current = d'.current
  BY DEF HlsInv, Phases
<1> QED
  BY <1>1, <1>2, <1>3, <1>4, GotoPreserves

\* An operation opens the next segment's demuxer where there is none.
LEMMA OpenPreserves ==
    ASSUME HlsInv, NEW t \in Ops, pc[t] = "in", d.current = 0,
           NEW where \in {"read", "seek prime"}, OpenSegment(t, where),
           call[t].at = IF where = "read" THEN "read" ELSE "seek open"
    PROVE  HlsInv'
<1>1. call[t].at \in Places /\ (call[t].at \in SeekPlaces <=> where \in SeekPlaces)
  BY DEF Places, SeekPlaces
<1>2. /\ ~Finished /\ call[t].kind # "close"
      /\ Owned(opened, 0, IF where \in SeekPlaces THEN entry.current ELSE 0)
  BY <1>1, BusyFacts
<1>3. IsDemuxer(d') /\ d'.current = Len(opened) + 1
  BY DEF OpenSegment, Opened, HlsInv, Shapes, IsDemuxer
<1>4. Owned(opened', d'.current, IF where \in SeekPlaces THEN entry.current ELSE 0) /\ d'.current # 0
  BY <1>2, <1>3, OwnedCreated DEF OpenSegment
<1>5. where \in Places /\ where \notin {"seek open", "seek"} /\ (where = "read" => call[t].kind = where)
  BY DEF Places, SeekPlaces, HlsInv, Phases
<1>6. Goto(t, where)
  BY DEF OpenSegment
<1> QED
  BY <1>2, <1>3, <1>4, <1>5, <1>6, GotoPreserves

-----------------------------------------------------------------------------
(* The steps of ReadPacket.                                                *)
LEMMA ReadPreserves ==
    ASSUME HlsInv, NEW t \in Ops, ReadStep(t)
    PROVE  HlsInv'
<1>1. pc[t] = "in" /\ call[t].at = "read" /\ call[t].at \in Places /\ call[t].at \notin SeekPlaces
  BY DEF ReadStep, EndOfPlaylist, Refresh, Open, Incompatible, Fail, Deliver, SegmentDone, At, Places, SeekPlaces
<1>2. ~Finished /\ call[t].kind # "close" /\ Owned(opened, d.current, 0) /\ call[t].kind = "read"
  BY <1>1, BusyFacts DEF HlsInv, Phases
<1>3. IsDemuxer(d)
  BY DEF HlsInv, Shapes
<1>4. "read" \in Places /\ "read" \notin SeekPlaces /\ "read" \notin {"seek", "seek open", "seek prime", "seek local"}
  BY DEF Places, SeekPlaces
<1>5. ASSUME EndOfPlaylist(t) \/ Fail(t) PROVE HlsInv'
  BY <1>1, <1>2, <1>5, OnlyReturns DEF EndOfPlaylist, Fail
<1>6. CASE Refresh(t)
  <2>1. CASE d' = [d EXCEPT !.endList = server.ended] /\ Return(t)
    <3>1. IsDemuxer(d') /\ d'.current = d.current
      BY <1>3, <2>1 DEF IsDemuxer
    <3> QED
      BY <1>1, <1>2, <1>6, <2>1, <3>1, ReturnPreserves DEF Refresh
  <2>2. CASE /\ d' = [d EXCEPT !.endList = server.ended, !.segments = NewerSegments, !.next = 1]
             /\ Goto(t, "read")
    <3>1. IsDemuxer(d') /\ d'.current = d.current
      BY <1>3, <2>2 DEF IsDemuxer
    <3> QED
      BY <1>1, <1>2, <1>4, <1>6, <2>2, <3>1, GotoPreserves DEF Refresh
  <2> QED
    BY <1>6, <2>1, <2>2 DEF Refresh
<1>7. CASE Open(t)
  BY <1>1, <1>7, OpenPreserves DEF Open
<1>8. CASE Incompatible(t)
  <2>1. Owned(opened', d.current, 0)
    BY <1>2, <1>8, OwnedRejected DEF Incompatible, RejectStreams
  <2> QED
    BY <1>1, <1>2, <1>3, <1>8, <2>1, ReturnPreserves DEF Incompatible
<1>9. CASE Deliver(t)
  <2>1. PICK at : opened' = MoveDemuxer(d.current, at, opened)
    BY <1>9 DEF Deliver
  <2>2. Owned(opened', d.current, 0)
    BY <1>2, <1>9, <2>1, OwnedMoved DEF Deliver
  <2> QED
    BY <1>1, <1>2, <1>3, <1>9, <2>2, ReturnPreserves DEF Deliver
<1>10. CASE SegmentDone(t)
  <2>1. /\ d.current # 0 /\ opened' = CloseDemuxer(d.current, opened)
        /\ d' = [d EXCEPT !.current = 0, !.base = @ + PacketsPerSegment, !.next = @ + 1]
        /\ Goto(t, "read")
    BY <1>10 DEF SegmentDone
  <2>2. IsDemuxer(d') /\ d'.current = 0
    BY <1>3, <2>1 DEF IsDemuxer
  <2>3. Owned(opened', d'.current, 0)
    BY <1>2, <2>1, <2>2, OwnedClosed
  <2> QED
    BY <1>1, <1>2, <1>4, <2>1, <2>2, <2>3, GotoPreserves
<1> QED
  BY <1>5, <1>6, <1>7, <1>8, <1>9, <1>10 DEF ReadStep

-----------------------------------------------------------------------------
(* The steps of Seek.                                                      *)

\* A seek that fails goes back to the segment it found.
LEMMA SeekGoesBack ==
    ASSUME HlsInv, NEW t \in Ops, pc[t] = "in", call[t].at \in SeekPlaces, Return(t), d' = entry,
           Owned(opened', entry.current, 0)
    PROVE  HlsInv'
<1>1. call[t].kind # "close" /\ ~Finished
  BY BusyFacts DEF Places
<1>2. IsDemuxer(d')
  BY DEF HlsInv, Shapes, IsDemuxer
<1> QED
  BY <1>1, <1>2, ReturnPreserves

LEMMA SeekPreserves ==
    ASSUME HlsInv, NEW t \in Ops, SeekStep(t)
    PROVE  HlsInv'
<1>1. pc[t] = "in" /\ call[t].at \in Places /\ call[t].at \in {"seek"} \cup SeekPlaces
  BY DEF SeekStep, NotSeekable, SeekStart, SeekOpen, SeekPrime, SeekLocal, SeekFail, Seeking, SeekIncompatible,
         At, Places, SeekPlaces
<1>2. /\ ~Finished /\ call[t].kind # "close"
      /\ Owned(opened, d.current, IF call[t].at \in SeekPlaces THEN entry.current ELSE 0)
  BY <1>1, BusyFacts
<1>3. IsDemuxer(d)
  BY DEF HlsInv, Shapes
<1>4. CASE NotSeekable(t)
  <2>1. call[t].at \notin SeekPlaces
    BY <1>4 DEF NotSeekable, At, SeekPlaces
  <2> QED
    BY <1>1, <1>2, <1>4, <2>1, OnlyReturns DEF NotSeekable
<1>5. CASE SeekStart(t)
  <2>1. call[t].at = "seek" /\ call[t].at \notin SeekPlaces
    BY <1>5 DEF SeekStart, At, SeekPlaces
  <2>2. entry.current = d.current
    BY <1>1, <2>1 DEF HlsInv, Phases
  <2>3. PICK next, base : d' = [d EXCEPT !.current = 0, !.next = next, !.base = base]
    BY <1>5 DEF SeekStart
  <2>4. IsDemuxer(d') /\ d'.current = 0
    BY <1>3, <2>3 DEF IsDemuxer
  <2>5. Owned(opened', d'.current, entry.current)
    BY <1>2, <1>5, <2>1, <2>2, <2>4, OwnedSwapped DEF SeekStart
  <2>6. "seek open" \in Places /\ "seek open" \in SeekPlaces
    BY DEF Places, SeekPlaces
  <2> QED
    BY <1>1, <1>2, <1>5, <2>4, <2>5, <2>6, GotoPreserves DEF SeekStart
<1>6. CASE SeekOpen(t)
  <2>1. d.current = 0
    BY <1>1, <1>6, BusyFacts DEF SeekOpen, At
  <2> QED
    BY <1>1, <1>6, <2>1, OpenPreserves DEF SeekOpen, At
<1>7. CASE SeekPrime(t)
  <2>1. d.current # 0 /\ call[t].at \in SeekPlaces
    BY <1>1, <1>7, BusyFacts DEF SeekPrime, At, SeekPlaces
  <2>2. PICK at : opened' = MoveDemuxer(d.current, at, opened)
    BY <1>7 DEF SeekPrime
  <2>3. Owned(opened', d.current, entry.current)
    BY <1>2, <2>1, <2>2, OwnedMoved
  <2>4. "seek local" \in Places /\ "seek local" \in SeekPlaces
    BY DEF Places, SeekPlaces
  <2> QED
    BY <1>1, <1>2, <1>3, <1>7, <2>1, <2>3, <2>4, GotoPreserves DEF SeekPrime
<1>8. CASE SeekLocal(t)
  <2>1. d.current # 0 /\ call[t].at \in SeekPlaces
    BY <1>1, <1>8, BusyFacts DEF SeekLocal, At, SeekPlaces
  <2>2. PICK at : opened' = IF entry.current = 0 THEN MoveDemuxer(d.current, at, opened)
                            ELSE CloseDemuxer(entry.current, MoveDemuxer(d.current, at, opened))
    BY <1>8 DEF SeekLocal
  <2>3. Owned(MoveDemuxer(d.current, at, opened), d.current, entry.current)
    BY <1>2, <2>1, OwnedMoved
  <2>4. Owned(opened', d.current, 0)
    <3>1. CASE entry.current = 0
      BY <2>2, <2>3, <3>1
    <3>2. CASE entry.current # 0
      BY <2>2, <2>3, <3>2, OwnedSwapped, OwnedClosed
    <3> QED
      BY <3>1, <3>2
  <2> QED
    BY <1>1, <1>2, <1>3, <1>8, <2>4, ReturnPreserves DEF SeekLocal
<1>9. CASE SeekFail(t)
  <2>1. call[t].at \in SeekPlaces
    BY <1>9 DEF SeekFail, Seeking, At, SeekPlaces
  <2>2. Owned(opened', 0, entry.current)
    BY <1>2, <1>9, <2>1, OwnedClosed DEF SeekFail
  <2>3. Owned(opened', entry.current, 0)
    BY <2>2, OwnedSwapped
  <2> QED
    BY <1>1, <1>9, <2>1, <2>3, SeekGoesBack DEF SeekFail
<1>10. CASE SeekIncompatible(t)
  <2>1. d.current = 0 /\ call[t].at \in SeekPlaces
    BY <1>1, <1>10, BusyFacts DEF SeekIncompatible, At, SeekPlaces
  <2>2. Owned(opened', entry.current, 0)
    BY <1>2, <1>10, <2>1, OwnedRejected, OwnedSwapped DEF SeekIncompatible, RejectStreams
  <2> QED
    BY <1>1, <1>10, <2>1, <2>2, SeekGoesBack DEF SeekIncompatible
<1> QED
  BY <1>4, <1>5, <1>6, <1>7, <1>8, <1>9, <1>10 DEF SeekStep

-----------------------------------------------------------------------------
(* The way into an operation, and Close.                                   *)
LEMMA CheckPreserves ==
    ASSUME HlsInv, NEW t \in Ops, Check(t)
    PROVE  HlsInv'
<1>1. pc[t] = "in" /\ call[t].at = "start" /\ call[t].kind # "close" /\ UNCHANGED <<d, opened>>
  BY DEF Check, At
<1>2. call[t].at \notin SeekPlaces
  BY <1>1 DEF SeekPlaces
<1>3. CASE closed
  BY <1>1, <1>2, <1>3, OnlyReturns DEF Check
<1>4. CASE ~closed
  <2>1. call[t].kind \in {"seek", "read"}
    BY <1>1 DEF HlsInv, Shapes, Phases
  <2> QED
    BY <1>1, <1>2, <1>4, <2>1, OnlyGoes DEF Check, Finished
<1> QED
  BY <1>3, <1>4

LEMMA ClosePreserves ==
    ASSUME HlsInv, NEW t \in Ops, CloseCurrent(t)
    PROVE  HlsInv'
<1>1. /\ pc[t] = "in" /\ call[t].at = "start" /\ call[t].kind = "close" /\ Return(t) /\ d' = d
      /\ opened' = IF d.current # 0 THEN CloseDemuxer(d.current, opened) ELSE opened
  BY DEF CloseCurrent, At
<1>2. LockProofs!IInv'
  BY <1>1, LockSteps DEF Return, HlsInv
<1>3. /\ pc'[t] = "out" /\ cancelled' = cancelled
      /\ \A u \in Ops : u # t => (pc'[u] = "out" <=> pc[u] = "out") /\ pc'[u] # "in"
  BY <1>1, Released DEF Return, Mutex!Unlock, HlsInv
<1>4. closed' = closed /\ entry' = entry /\ call' = [call EXCEPT ![t] = Idle]
  BY <1>1 DEF Return
<1>5. Shapes'
  BY <1>1, <1>4 DEF HlsInv, Shapes, Idle, IsDemuxer
<1>6. /\ \A u \in Ops : call'[u] = IF u = t THEN Idle ELSE call[u]
      /\ Idle.kind = "none" /\ Idle.at = "nowhere"
  BY <1>4 DEF HlsInv, Shapes, Idle
<1>7. \A u \in Ops : call[u].at \in {"start", "nowhere"}
  BY <1>1, OneIsBusy
<1>8. OneCloser
  BY DEF HlsInv, Phases
<1>9. \A u \in Ops : call'[u].at \in {"start", "nowhere"} /\ call'[u].kind # "close" /\ pc'[u] # "in"
  BY <1>1, <1>3, <1>6, <1>7, <1>8 DEF OneCloser
<1>10. Phases'
  <2>1. \A u \in Ops : pc'[u] = "out" <=> call'[u].kind = "none"
    BY <1>3, <1>6 DEF HlsInv, Phases
  <2>2. OneCloser'
    BY <1>9 DEF OneCloser
  <2> QED
    BY <1>9, <2>1, <2>2 DEF Phases
<1>11. closed
  BY <1>1 DEF HlsInv, Phases
<1>12. Owned(opened', 0, 0)
  <2>1. Previous = 0
    BY <1>7 DEF Previous, SeekPlaces
  <2>2. ~Finished
    BY <1>1 DEF Finished
  <2>3. Owned(opened, d.current, 0)
    BY <2>1, <2>2 DEF HlsInv, Ownership
  <2> QED
    BY <1>1, <2>3, OwnedClosed
<1>13. Finished'
  BY <1>4, <1>9, <1>11 DEF Finished
<1>14. Ownership'
  <2>1. \A i \in DOMAIN opened' : opened'[i].closes = 1
    BY <1>12 DEF Owned, IsOpened, LockProofs!Owned, LockProofs!IsOpened
  <2>2. \A u \in Ops : ~Busy(u)'
    BY <1>9 DEF Busy
  <2> QED
    BY <1>13, <2>1, <2>2 DEF Ownership
<1> QED
  BY <1>2, <1>5, <1>10, <1>14 DEF HlsInv

\* Steps outside of the lock leave the demuxers alone.
LEMMA OutsidePreserves ==
    ASSUME HlsInv, LockProofs!IInv', Shapes', Phases', Finished' <=> Finished, Previous' = Previous,
           \A t \in Ops : Busy(t)' => Busy(t), UNCHANGED <<d, opened>>
    PROVE  HlsInv'
<1>1. Ownership'
  BY DEF HlsInv, Ownership
<1> QED
  BY <1>1 DEF HlsInv

LEMMA NothingMoves ==
    ASSUME HlsInv, UNCHANGED <<mutexVars, call, closed, d, entry, opened>>
    PROVE  HlsInv'
<1>1. UNCHANGED <<gate, waiting, pc, cancelled>>
  BY DEF mutexVars
<1>2. LockProofs!IInv'
  BY <1>1 DEF HlsInv, LockProofs!IInv, LockProofs!TypeOK, LockProofs!TokenHasOwner, LockProofs!QueueOfWaiters
<1>3. /\ Shapes' /\ Phases' /\ (Finished' <=> Finished) /\ Previous' = Previous
      /\ \A u \in Ops : Busy(u)' <=> Busy(u)
  BY <1>1 DEF HlsInv, Shapes, IsDemuxer, Phases, OneCloser, Finished, Previous, Busy
<1> QED
  BY <1>2, <1>3, OutsidePreserves

LEMMA CallPreserves ==
    ASSUME HlsInv, NEW t \in Ops, NEW kind \in {"read", "seek", "close"}, NEW target, Call(t, kind, target)
    PROVE  HlsInv'
<1>1. CASE UNCHANGED <<mutexVars, call, closed>>
  BY <1>1, NothingMoves DEF Call
<1>2. CASE /\ kind # "close" \/ ~closed
           /\ Mutex!Enter(t)
           /\ call' = [call EXCEPT ![t] = [kind |-> kind, target |-> target, at |-> "start"]]
           /\ closed' = (closed \/ kind = "close")
  <2> DEFINE new == [kind |-> kind, target |-> target, at |-> "start"]
  <2>1. LockProofs!IInv'
    BY <1>2, LockSteps DEF HlsInv
  <2>2. /\ cancelled' = cancelled \ {t} /\ pc[t] = "out" /\ pc'[t] \in {"holding", "queued"}
        /\ \A u \in Ops : u # t => pc'[u] = pc[u]
    BY <1>2 DEF Mutex!Enter, HlsInv, LockProofs!IInv, LockProofs!TypeOK
  <2>3. call[t].kind = "none" /\ call' = [call EXCEPT ![t] = new]
    BY <1>2 DEF Call
  <2>4. \A u \in Ops : call'[u] = IF u = t THEN new ELSE call[u]
    BY <2>3 DEF HlsInv, Shapes
  <2>5. d' = d /\ entry' = entry /\ opened' = opened
    BY DEF Call
  <2>6. Shapes'
    <3>1. closed' \in BOOLEAN
      BY <1>2
    <3> QED
      BY <2>3, <2>5, <3>1 DEF HlsInv, Shapes, IsDemuxer
  <2>7. new.kind = kind /\ new.at = "start"
    OBVIOUS
  <2> HIDE DEF new
  <2>8. closed => closed'
    BY <1>2
  <2>9. kind = "close" => closed' /\ \A u \in Ops : call[u].kind # "close"
    BY <1>2 DEF HlsInv, Phases
  <2>10. Phases'
    <3>1. \A u \in Ops :
             /\ pc'[u] = "out" <=> call'[u].kind = "none"
             /\ call'[u].at \notin {"start", "nowhere"} => pc'[u] = "in"
             /\ call'[u].at \in {"seek", "read"} => call'[u].kind = call'[u].at
      BY <2>2, <2>4, <2>7 DEF HlsInv, Phases
    <3>2. \A u \in Ops : call'[u].kind = "close" => call'[u].at = "start" /\ u \notin cancelled'
      BY <2>2, <2>4, <2>7 DEF HlsInv, Phases
    <3>3. \A u \in Ops : call'[u].kind = "close" => closed'
      BY <2>4, <2>7, <2>8, <2>9 DEF HlsInv, Phases
    <3>4. \A u \in Ops : /\ call'[u].at = "seek open" => d'.current = 0
                         /\ call'[u].at \in {"seek prime", "seek local"} => d'.current # 0
      BY <2>4, <2>5, <2>7 DEF HlsInv, Phases
    <3>5. \A u \in Ops : pc'[u] = "in" /\ call'[u].kind = "seek" /\ call'[u].at \notin SeekPlaces
                         => entry'.current = d'.current
      BY <2>2, <2>4, <2>5 DEF HlsInv, Phases
    <3>6. OneCloser'
      <4>1. OneCloser
        BY DEF HlsInv, Phases
      <4> QED
        BY <2>4, <2>7, <2>9, <4>1 DEF OneCloser
    <3> QED
      BY <3>1, <3>2, <3>3, <3>4, <3>5, <3>6 DEF Phases
  <2>11. Finished' <=> Finished
    BY <1>2, <2>3, <2>4, <2>7, <2>9 DEF Finished
  <2>12. \A u \in Ops : Busy(u)' => Busy(u)
    BY <2>2, <2>4, <2>7 DEF Busy
  <2>13. Previous' = Previous
    <3>1. call[t].at \notin SeekPlaces
      BY <2>2 DEF HlsInv, Phases, SeekPlaces
    <3>2. \A u \in Ops : call'[u].at \in SeekPlaces <=> call[u].at \in SeekPlaces
      BY <2>4, <2>7, <3>1 DEF SeekPlaces
    <3> QED
      BY <2>5, <3>2 DEF Previous
  <2> QED
    BY <2>1, <2>5, <2>6, <2>10, <2>11, <2>12, <2>13, OutsidePreserves
<1> QED
  BY <1>1, <1>2 DEF Call

LEMMA CancelPreserves ==
    ASSUME HlsInv, NEW t \in Ops, Cancel(t)
    PROVE  HlsInv'
<1>1. LockProofs!IInv'
  BY LockSteps DEF Cancel, HlsInv
<1>2. /\ cancelled' = cancelled \cup {t} /\ pc' = pc /\ call[t].kind # "close"
      /\ UNCHANGED <<call, closed, d, entry, opened>>
  BY DEF Cancel, Mutex!Cancel
<1>3. /\ Shapes' /\ (Finished' <=> Finished) /\ Previous' = Previous
      /\ \A u \in Ops : Busy(u)' <=> Busy(u)
  BY <1>2 DEF HlsInv, Shapes, IsDemuxer, Finished, Previous, Busy
<1>4. Phases'
  BY <1>2 DEF HlsInv, Phases, OneCloser
<1> QED
  BY <1>1, <1>2, <1>3, <1>4, OutsidePreserves

\* Inside opMu.lock an operation is let in, or gives up and is Idle.
LEMMA LockPreserves ==
    ASSUME HlsInv, NEW t \in Ops, Lock(t)
    PROVE  HlsInv'
<1>1. LockProofs!IInv'
  BY LockSteps DEF Lock, HlsInv
<1>2. /\ cancelled' = cancelled /\ pc[t] \in {"queued", "holding"}
      /\ UNCHANGED <<closed, d, opened>>
  BY DEF Lock, Mutex!Abandon, Mutex!Admit, Mutex!Refuse
<1>3. \A u \in Ops : u # t => (pc'[u] = "out" <=> pc[u] = "out") /\ (pc'[u] = "in" <=> pc[u] = "in")
  <2>1. CASE Mutex!Refuse(t)
    <3>1. pc[t] = "holding" /\ \A u \in Ops : u # t => pc[u] # "in"
      BY <2>1 DEF Mutex!Refuse, HlsInv, LockProofs!IInv, LockProofs!TokenHasOwner
    <3> QED
      BY <2>1, <3>1, Released DEF Mutex!Refuse, HlsInv
  <2> QED
    BY <2>1 DEF Lock, Mutex!Abandon, Mutex!Admit, HlsInv, LockProofs!IInv, LockProofs!TypeOK
<1>4. /\ pc'[t] \in {"out", "in"}
      /\ pc'[t] = "out" => t \in cancelled
      /\ pc'[t] = "in" => pc[t] = "holding"
  <2>1. CASE Mutex!Refuse(t)
    BY <2>1, Released DEF Mutex!Refuse, HlsInv
  <2> QED
    BY <2>1 DEF Lock, Mutex!Abandon, Mutex!Admit, HlsInv, LockProofs!IInv, LockProofs!TypeOK
<1>5. call[t].at \in {"start", "nowhere"}
  BY <1>2 DEF HlsInv, Phases
<1>6. CASE pc'[t] = "out"
  <2>1. call' = [call EXCEPT ![t] = Idle] /\ entry' = entry
    BY <1>6 DEF Lock
  <2>2. call[t].kind # "close"
    BY <1>4, <1>6 DEF HlsInv, Phases
  <2>3. /\ \A u \in Ops : call'[u] = IF u = t THEN Idle ELSE call[u]
        /\ Idle.kind = "none" /\ Idle.at = "nowhere"
    BY <2>1 DEF HlsInv, Shapes, Idle
  <2>4. Shapes'
    BY <1>2, <2>1 DEF HlsInv, Shapes, IsDemuxer, Idle
  <2>5. Phases'
    <3>1. \A u \in Ops :
             /\ pc'[u] = "out" <=> call'[u].kind = "none"
             /\ call'[u].at \notin {"start", "nowhere"} => pc'[u] = "in"
             /\ call'[u].at \in {"seek", "read"} => call'[u].kind = call'[u].at
      BY <1>2, <1>3, <1>6, <2>3 DEF HlsInv, Phases
    <3>2. \A u \in Ops : call'[u].kind = "close" => call'[u].at = "start" /\ u \notin cancelled'
      BY <1>2, <2>3 DEF HlsInv, Phases
    <3>3. \A u \in Ops : call'[u].kind = "close" => closed'
      BY <1>2, <2>3 DEF HlsInv, Phases
    <3>4. \A u \in Ops : /\ call'[u].at = "seek open" => d'.current = 0
                         /\ call'[u].at \in {"seek prime", "seek local"} => d'.current # 0
      BY <1>2, <2>3 DEF HlsInv, Phases
    <3>5. \A u \in Ops : pc'[u] = "in" /\ call'[u].kind = "seek" /\ call'[u].at \notin SeekPlaces
                         => entry'.current = d'.current
      <4>1. \A u \in Ops : pc[u] = "in" /\ call[u].kind = "seek" /\ call[u].at \notin SeekPlaces
                           => entry.current = d.current
        BY DEF HlsInv, Phases
      <4>2. d' = d /\ entry' = entry
        BY <1>2, <2>1
      <4> QED
        BY <1>3, <1>6, <2>3, <4>1, <4>2
    <3>6. OneCloser'
      <4>1. OneCloser
        BY DEF HlsInv, Phases
      <4> QED
        BY <2>3, <4>1 DEF OneCloser
    <3> QED
      BY <3>1, <3>2, <3>3, <3>4, <3>5, <3>6 DEF Phases
  <2>6. Finished' <=> Finished
    BY <1>2, <2>1, <2>2, <2>3, FinishedKept DEF HlsInv
  <2>7. \A u \in Ops : Busy(u)' => Busy(u)
    BY <1>3, <2>3 DEF Busy
  <2>8. Previous' = Previous
    <3>1. \A u \in Ops : call'[u].at \in SeekPlaces <=> call[u].at \in SeekPlaces
      BY <1>5, <2>3 DEF SeekPlaces
    <3> QED
      BY <2>1, <3>1 DEF Previous
  <2> QED
    BY <1>1, <1>2, <2>4, <2>5, <2>6, <2>7, <2>8, OutsidePreserves
<1>7. CASE pc'[t] = "in"
  <2>1. call' = call /\ entry' = d /\ pc[t] = "holding"
    BY <1>4, <1>7 DEF Lock, HlsInv, Shapes
  <2>2. \A u \in Ops : pc[u] # "in"
    BY <2>1 DEF HlsInv, LockProofs!IInv, LockProofs!TokenHasOwner
  <2>3. \A u \in Ops : call[u].at \in {"start", "nowhere"}
    BY <2>2 DEF HlsInv, Phases
  <2>4. Shapes' /\ (Finished' <=> Finished)
    BY <1>2, <2>1 DEF HlsInv, Shapes, IsDemuxer, Finished
  <2>5. Phases'
    <3>1. \A u \in Ops : /\ pc'[u] = "out" <=> call'[u].kind = "none"
                         /\ call'[u].kind = "close" => call'[u].at = "start" /\ u \notin cancelled'
      BY <1>2, <1>3, <1>7, <2>1 DEF HlsInv, Phases
    <3>2. \A u \in Ops : call'[u].kind = "close" => closed'
      BY <1>2, <2>1 DEF HlsInv, Phases
    <3>3. OneCloser'
      BY <2>1 DEF HlsInv, Phases, OneCloser
    <3>4. entry'.current = d'.current
      BY <1>2, <2>1
    <3> QED
      BY <2>1, <2>3, <3>1, <3>2, <3>3, <3>4 DEF Phases
  <2>6. \A u \in Ops : Busy(u)' => Busy(u)
    BY <2>1, <2>3 DEF Busy
  <2>7. Previous' = Previous
    BY <2>1, <2>3 DEF Previous, SeekPlaces
  <2> QED
    BY <1>1, <1>2, <2>4, <2>5, <2>6, <2>7, OutsidePreserves
<1> QED
  BY <1>4, <1>6, <1>7

-----------------------------------------------------------------------------
LEMMA HlsInitInvariant == Init => HlsInv
<1> SUFFICES ASSUME Init PROVE HlsInv
  OBVIOUS
<1>1. LockProofs!IInv
  <2>1. LockProofs!Init
    BY DEF Init, Mutex!Init, LockProofs!Init
  <2> QED
    BY <2>1, LockProofs!InitInvariant, HLSAssumption
<1>2. d.current = 1 /\ entry = d /\ closed = FALSE /\ IsDemuxer(d)
  BY DEF Init, IsDemuxer
<1>3. Shapes
  BY <1>2 DEF Init, Shapes, Idle
<1>4. pc = [t \in Ops |-> "out"] /\ call = [t \in Ops |-> Idle] /\ Idle.kind = "none" /\ Idle.at = "nowhere"
  BY DEF Init, Mutex!Init, Idle
<1>5. Phases
  BY <1>2, <1>4 DEF Phases, OneCloser
<1>6. Owned(opened, 1, 0)
  <2>1. Owned(<<>>, 0, 0)
    BY EmptySeq DEF Owned, IsOpened, LockProofs!Owned, LockProofs!IsOpened
  <2>2. opened = Append(<<>>, NewDemuxer(FirstWindow[1])) /\ Len(<<>>) + 1 = 1
    BY DEF Init
  <2> QED
    BY <2>1, <2>2, OwnedCreated
<1>7. Previous = 0 /\ ~Finished
  BY <1>2, <1>4 DEF Previous, SeekPlaces, Finished
<1> QED
  BY <1>1, <1>2, <1>3, <1>5, <1>6, <1>7 DEF HlsInv, Ownership

LEMMA HlsStepInvariant == HlsInv /\ [Next]_vars => HlsInv'
<1> SUFFICES ASSUME HlsInv, [Next]_vars PROVE HlsInv'
  OBVIOUS
<1>1. CASE UNCHANGED vars
  BY <1>1, NothingMoves DEF vars, mutexVars
<1>2. CASE Server
  BY <1>2, NothingMoves DEF Server
<1>3. ASSUME NEW t \in Ops, NEW kind \in Kinds, NEW target, Call(t, kind, target) PROVE HlsInv'
  <2>1. kind \in {"read", "seek", "close"}
    BY HLSAssumption
  <2> QED
    BY <1>3, <2>1, CallPreserves
<1>4. ASSUME NEW t \in Ops,
             Cancel(t) \/ Lock(t) \/ Check(t) \/ ReadStep(t) \/ SeekStep(t) \/ CloseCurrent(t)
      PROVE  HlsInv'
  BY <1>4, CancelPreserves, LockPreserves, CheckPreserves, ReadPreserves, SeekPreserves, ClosePreserves
<1> QED
  BY <1>1, <1>2, <1>3, <1>4 DEF Next

(* The invariant of every run of the demuxer.                              *)
THEOREM HlsInvariance == Spec => []HlsInv
<1>1. Init => HlsInv
  BY HlsInitInvariant
<1>2. HlsInv /\ [Next]_vars => HlsInv'
  BY HlsStepInvariant
<1> QED
  BY <1>1, <1>2, PTL DEF Spec

(* No operation past its check of d.closed works with a segment demuxer    *)
(* that was closed; once Close is done each was closed exactly once; and   *)
(* while nobody is inside only the current one is open.                    *)
THEOREM NothingLeaks == Spec => []NoneLeaks
<1>1. HlsInv => NoneLeaks
  <2> SUFFICES ASSUME HlsInv PROVE NoneLeaks
    OBVIOUS
  <2>1. ASSUME ~Finished
        PROVE  /\ d.current # 0 => opened[d.current].closes = 0
               /\ Previous # 0 => opened[Previous].closes = 0
    <3>1. Owned(opened, d.current, Previous)
      BY <2>1 DEF HlsInv, Ownership
    <3>2. DOMAIN opened = 1 .. Len(opened) /\ Len(opened) \in Nat
      BY <3>1, LenProperties DEF Owned, IsOpened, LockProofs!Owned, LockProofs!IsOpened
    <3> QED
      BY <3>1, <3>2 DEF Owned, LockProofs!Owned
  <2>2. ASSUME NEW t \in Ops, Busy(t)
        PROVE  /\ d.current # 0 => opened[d.current].closes = 0
               /\ entry.current # 0 /\ call[t].kind = "seek" => opened[entry.current].closes = 0
    <3>1. ~Finished /\ pc[t] = "in"
      BY <2>2 DEF HlsInv, Ownership, Busy
    <3>2. call[t].kind = "seek" /\ call[t].at \notin SeekPlaces => entry.current = d.current
      BY <3>1 DEF HlsInv, Phases
    <3>3. call[t].at \in SeekPlaces => entry.current = Previous
      BY DEF Previous
    <3> QED
      BY <2>1, <3>1, <3>2, <3>3
  <2>3. NoUseAfterClose
    BY <2>2 DEF NoUseAfterClose
  <2>4. ASSUME closed, \A t \in Ops : pc[t] = "out"
        PROVE  \A i \in DOMAIN opened : opened[i].closes = 1
    <3>1. Finished
      BY <2>4 DEF Finished, HlsInv, Phases
    <3> QED
      BY <3>1 DEF HlsInv, Ownership
  <2>5. ASSUME ~closed, gate = None
        PROVE  \A i \in DOMAIN opened : opened[i].closes = 0 <=> i = d.current
    <3>1. \A t \in Ops : pc[t] # "in"
      BY <2>5, HLSAssumption DEF HlsInv, LockProofs!IInv, LockProofs!TokenHasOwner
    <3>2. Previous = 0
      BY <3>1 DEF HlsInv, Phases, Previous, SeekPlaces
    <3>3. Owned(opened, d.current, 0)
      BY <2>5, <3>2 DEF HlsInv, Ownership, Finished
    <3>4. DOMAIN opened = 1 .. Len(opened) /\ Len(opened) \in Nat
      BY <3>3, LenProperties DEF Owned, IsOpened, LockProofs!Owned, LockProofs!IsOpened
    <3> QED
      BY <3>3, <3>4 DEF Owned, LockProofs!Owned
  <2> QED
    BY <2>3, <2>4, <2>5 DEF NoneLeaks, NoneLeftOpen, OnlyCurrentOpen
<1> QED
  BY <1>1, HlsInvariance, PTL

-----------------------------------------------------------------------------
(* The timeline.  What OneTimeline says of the packets delivered is kept   *)
(* because of where the demuxer has come to in its list: the packet it     *)
(* reads next is the one after the last that was delivered.  While a seek  *)
(* is on its way that place is the one in "entry".                         *)
Packets == [seq : Int, at : 0 .. PacketsPerSegment - 1, stamp : Int]

\* The list of segments and the place in it that a demuxer x has come to.
Listed(x) ==
    /\ x.segments \in Seq(Int) /\ Len(x.segments) >= 1
    /\ \A i \in 1 .. Len(x.segments) : x.segments[i] = x.segments[1] + i - 1
    /\ FirstWindow[1] <= x.segments[1]
    /\ x.next \in 1 .. Len(x.segments) + 1 /\ x.base \in Int
    /\ x.seg \in Int /\ FirstWindow[1] <= x.seg
    /\ x.current # 0 => x.next <= Len(x.segments) /\ x.seg = x.segments[x.next]

\* Its segment demuxer, among all that were created.
Loaded(x, all) ==
    x.current # 0 =>
        /\ x.current \in DOMAIN all
        /\ all[x.current].seg = x.seg /\ all[x.current].at \in 0 .. PacketsPerSegment

\* How many of the segment's packets were read.
Offset(x, all) == IF x.current = 0 THEN 0 ELSE all[x.current].at

\* Segment r may come after segment s when the server lists those from lo on.
Comes(s, r, lo) == r > s /\ (r > s + 1 => lo >= r)

Ordered(packets, lo) ==
    \A i \in 1 .. Len(packets) - 1 :
        LET p == packets[i]  q == packets[i + 1] IN
        /\ q.stamp = p.stamp + 1
        /\ \/ q.seq = p.seq /\ q.at = p.at + 1
           \/ q.at = 0 /\ p.at = PacketsPerSegment - 1 /\ Comes(p.seq, q.seq, lo)

\* The packet that x reads next is the one after the last that was delivered.
Follows(x, k, lo, packets) ==
    /\ x.current = 0 /\ x.next <= Len(x.segments) => Comes(x.seg, x.segments[x.next], lo)
    /\ packets = <<>> => x.current # 0 /\ k < PacketsPerSegment
    /\ packets # <<>> =>
          LET p == packets[Len(packets)] IN
          /\ p.stamp + 1 = x.base + k
          /\ IF x.current # 0 /\ k > 0
             THEN p.seq = x.seg /\ p.at = k - 1
             ELSE /\ p.at = PacketsPerSegment - 1
                  /\ IF x.current = 0 THEN p.seq = x.seg ELSE Comes(p.seq, x.seg, lo)

\* The time that a seek to target finds among n segments.
Found(target, n) == IF target < n * PacketsPerSegment THEN target ELSE n * PacketsPerSegment - 1

Stamp(q) == (q.seq - FirstWindow[1]) * PacketsPerSegment + q.at

\* Nothing was dropped from the list yet: its times are those of the stream.
Whole(x, k, packets, target, all) ==
    x.segments[1] = FirstWindow[1] =>
        /\ x.base = (x.next - 1) * PacketsPerSegment
        /\ \A q \in all : q.stamp = Stamp(q) /\ q.seq \in FirstWindow[1] .. FirstWindow[1] + Len(x.segments) - 1
        /\ Found(target, Len(x.segments)) = IF packets = <<>> THEN x.base + k ELSE packets[1].stamp

History(lo, packets, target, all) ==
    /\ packets \in Seq(Packets) /\ all \subseteq Packets /\ target \in Nat
    /\ packets # <<>> => packets[1] \in all
    /\ Ordered(packets, lo)

Placed(x, k, lo, packets, target, all) ==
    /\ Listed(x)
    /\ History(lo, packets, target, all)
    /\ Follows(x, k, lo, packets)
    /\ Whole(x, k, packets, target, all)

\* A seek on its way: x is the demuxer that it makes from y.
Candidate(x, y, target, all) ==
    /\ x.segments = y.segments
    /\ x.next = LET i == target \div PacketsPerSegment + 1 IN IF i > Len(y.segments) THEN Len(y.segments) ELSE i
    /\ x.base = (x.next - 1) * PacketsPerSegment
    /\ x.current # 0 =>
          /\ x.seg = x.segments[x.next]
          /\ x.current \in DOMAIN all /\ all[x.current].seg = x.seg

SeekUnderWay == \E t \in Ops : call[t].at \in SeekPlaces
Anchor == IF SeekUnderWay THEN entry ELSE d

TimeInv ==
    /\ server.lo \in Int /\ server.hi \in Int /\ server = [lo |-> server.lo, hi |-> server.hi, ended |-> server.ended]
    /\ \A t \in Ops :
          /\ call[t].target \in Nat
          /\ pc[t] = "in" /\ call[t].kind = "seek" /\ call[t].at \notin SeekPlaces => entry = d
          /\ call[t].at \in SeekPlaces => Candidate(d, entry, call[t].target, opened)
    /\ ~Finished =>
          /\ Loaded(Anchor, opened)
          /\ Placed(Anchor, Offset(Anchor, opened), server.lo, delivered, sought, timeline)
    /\ Finished => \E k : Placed(d, k, server.lo, delivered, sought, timeline)

-----------------------------------------------------------------------------
(* What is in the list of segment demuxers.                                *)
LEMMA CreatedAt ==
    ASSUME NEW all, IsOpened(all), NEW x
    PROVE  LET new == Append(all, x) IN
           /\ DOMAIN all = 1 .. Len(all) /\ Len(all) \in Nat
           /\ DOMAIN all \subseteq DOMAIN new /\ Len(all) + 1 \in DOMAIN new
           /\ \A i \in DOMAIN all : new[i] = all[i]
           /\ new[Len(all) + 1] = x
<1> DEFINE S == Range(all) \cup {x}
           new == Append(all, x)
<1>1. all \in Seq(S) /\ x \in S
  BY SeqMonotonic DEF IsOpened, LockProofs!IsOpened, Range, LockProofs!Range
<1>2. /\ new \in Seq(S) /\ Len(new) = Len(all) + 1
      /\ \A i \in 1 .. Len(all) : new[i] = all[i]
      /\ new[Len(all) + 1] = x
  BY <1>1, AppendProperties
<1>3. DOMAIN all = 1 .. Len(all) /\ Len(all) \in Nat /\ DOMAIN new = 1 .. Len(all) + 1
  BY <1>1, <1>2
<1> QED
  BY <1>2, <1>3

LEMMA AdvancedAt ==
    ASSUME NEW all, IsOpened(all), NEW i \in DOMAIN all, NEW at
    PROVE  LET new == MoveDemuxer(i, at, all) IN
           /\ DOMAIN new = DOMAIN all
           /\ new[i].seg = all[i].seg /\ new[i].at = at
           /\ \A j \in DOMAIN all : j # i => new[j] = all[j]
BY DEF MoveDemuxer, IsOpened, LockProofs!IsOpened

LEMMA ClosedAt ==
    ASSUME NEW all, IsOpened(all), NEW i \in DOMAIN all
    PROVE  LET new == CloseDemuxer(i, all) IN
           /\ DOMAIN new = DOMAIN all
           /\ \A j \in DOMAIN all : j # i => new[j] = all[j]
BY DEF CloseDemuxer, IsOpened, LockProofs!IsOpened

LEMMA WindowListed ==
    ASSUME NEW lo \in Int, NEW hi \in Int
    PROVE  /\ Window(lo, hi) \in Seq(Int)
           /\ lo > hi => Window(lo, hi) = <<>>
           /\ lo <= hi => Len(Window(lo, hi)) = hi - lo + 1
           /\ \A i \in 1 .. Len(Window(lo, hi)) : Window(lo, hi)[i] = lo + i - 1
<1> DEFINE w == Window(lo, hi)
<1>1. CASE lo <= hi
  <2>1. hi - lo + 1 \in Nat
    BY <1>1
  <2>2. w \in [1 .. hi - lo + 1 -> Int]
    BY <2>1 DEF Window
  <2>3. w \in Seq(Int) /\ Len(w) = hi - lo + 1
    BY <2>1, <2>2, IsASeq, LenProperties
  <2> QED
    BY <1>1, <2>1, <2>2, <2>3 DEF Window
<1>2. CASE lo > hi
  <2>1. 1 .. hi - lo + 1 = {}
    BY <1>2
  <2>2. w = <<>>
    BY <2>1 DEF Window
  <2> QED
    BY <1>2, <2>2
<1> QED
  BY <1>1, <1>2

-----------------------------------------------------------------------------
(* What a step of the demuxer does to its place in the timeline.           *)
LEMMA PacketType ==
    ASSUME NEW p \in Packets
    PROVE  p.seq \in Int /\ p.at \in Int /\ 0 <= p.at /\ p.at <= PacketsPerSegment - 1 /\ p.stamp \in Int
BY HLSAssumption DEF Packets

LEMMA ListedType ==
    ASSUME NEW x, Listed(x)
    PROVE  /\ Len(x.segments) \in Nat /\ 1 <= Len(x.segments) /\ x.segments \in Seq(Int)
           /\ x.segments[1] \in Int /\ FirstWindow[1] <= x.segments[1]
           /\ x.next \in Int /\ 1 <= x.next /\ x.next <= Len(x.segments) + 1
           /\ x.base \in Int /\ x.seg \in Int /\ FirstWindow[1] <= x.seg
           /\ \A i \in 1 .. Len(x.segments) : x.segments[i] = x.segments[1] + i - 1 /\ x.segments[i] \in Int
           /\ x.next <= Len(x.segments) => x.segments[x.next] = x.segments[1] + x.next - 1
<1>1. x.segments \in Seq(Int) /\ Len(x.segments) \in Nat /\ 1 <= Len(x.segments)
  BY DEF Listed
<1>2. x.segments[1] \in Int /\ x.next \in 1 .. Len(x.segments) + 1
  BY <1>1 DEF Listed
<1>3. x.next \in Int /\ 1 <= x.next /\ x.next <= Len(x.segments) + 1
  BY <1>1, <1>2
<1>4. \A i \in 1 .. Len(x.segments) : x.segments[i] = x.segments[1] + i - 1 /\ x.segments[i] \in Int
  BY <1>1 DEF Listed
<1>5. x.next <= Len(x.segments) => x.next \in 1 .. Len(x.segments)
  BY <1>1, <1>3
<1> QED
  BY <1>1, <1>2, <1>3, <1>4, <1>5 DEF Listed

LEMMA ComesLater ==
    ASSUME NEW s \in Int, NEW r \in Int, NEW lo \in Int, NEW hi \in Int, lo <= hi, Comes(s, r, lo)
    PROVE  Comes(s, r, hi)
BY DEF Comes

LEMMA PacketsAre ==
    ASSUME NEW packets \in Seq(Packets)
    PROVE  /\ Len(packets) \in Nat /\ (packets = <<>> <=> Len(packets) = 0)
           /\ \A i \in 1 .. Len(packets) : packets[i] \in Packets
           /\ packets # <<>> => packets[Len(packets)] \in Packets /\ packets[1] \in Packets
<1>1. Len(packets) \in Nat /\ (packets = <<>> <=> Len(packets) = 0) /\ \A i \in 1 .. Len(packets) : packets[i] \in Packets
  BY EmptySeq
<1> QED
  BY <1>1

LEMMA LaterWindow ==
    ASSUME NEW x, NEW k, NEW lo \in Int, NEW hi \in Int, lo <= hi, NEW packets, NEW target, NEW all,
           Placed(x, k, lo, packets, target, all)
    PROVE  Placed(x, k, hi, packets, target, all)
<1>1. packets \in Seq(Packets) /\ Listed(x)
  BY DEF Placed, History
<1>2. History(hi, packets, target, all)
  <2>1. ASSUME NEW i \in 1 .. Len(packets) - 1
        PROVE  Comes(packets[i].seq, packets[i + 1].seq, lo) => Comes(packets[i].seq, packets[i + 1].seq, hi)
    <3>1. packets[i] \in Packets /\ packets[i + 1] \in Packets
      BY <1>1, PacketsAre
    <3> QED
      BY <3>1, PacketType, ComesLater
  <2>2. Ordered(packets, lo)
    BY DEF Placed, History
  <2>3. Ordered(packets, hi)
    BY <2>1, <2>2 DEF Ordered
  <2> QED
    BY <2>3 DEF Placed, History
<1>3. x.next <= Len(x.segments) => x.segments[x.next] \in Int
  BY <1>1, ListedType
<1>4. Follows(x, k, hi, packets)
  <2>1. x.next <= Len(x.segments) /\ Comes(x.seg, x.segments[x.next], lo) => Comes(x.seg, x.segments[x.next], hi)
    BY <1>1, <1>3, ListedType, ComesLater
  <2>2. packets # <<>> /\ Comes(packets[Len(packets)].seq, x.seg, lo) => Comes(packets[Len(packets)].seq, x.seg, hi)
    BY <1>1, PacketsAre, PacketType, ListedType, ComesLater
  <2> QED
    BY <2>1, <2>2 DEF Placed, Follows
<1> QED
  BY <1>2, <1>4 DEF Placed

LEMMA PacketRead ==
    ASSUME NEW x, NEW k \in 0 .. PacketsPerSegment, NEW lo \in Int, NEW packets, NEW target, NEW all,
           Placed(x, k, lo, packets, target, all), x.current # 0, k < PacketsPerSegment
    PROVE  LET p == [seq |-> x.seg, at |-> k, stamp |-> x.base + k] IN
           Placed(x, k + 1, lo, Append(packets, p), target, all \cup {p})
<1> DEFINE p == [seq |-> x.seg, at |-> k, stamp |-> x.base + k]
           more == Append(packets, p)
<1>0. PacketsPerSegment \in Nat /\ FirstWindow[1] \in Int
  BY HLSAssumption
<1>1. p \in Packets /\ p.seq = x.seg /\ p.at = k /\ p.stamp = x.base + k
  BY <1>0 DEF Placed, Listed, Packets
<1> HIDE DEF p
<1>2. packets \in Seq(Packets) /\ all \subseteq Packets /\ target \in Nat
  BY DEF Placed, History
<1>3. /\ more \in Seq(Packets) /\ Len(more) = Len(packets) + 1 /\ more # <<>> /\ Len(packets) \in Nat
      /\ \A i \in 1 .. Len(packets) : more[i] = packets[i] /\ packets[i] \in Packets
      /\ more[Len(packets) + 1] = p
  BY <1>1, <1>2, AppendProperties
<1>4. packets # <<>> => Len(packets) \in 1 .. Len(packets)
  BY <1>2, EmptySeq
<1>5. packets = <<>> => Len(packets) = 0
  BY EmptySeq
<1> HIDE DEF more
<1>6. packets # <<>> =>
         LET q == packets[Len(packets)] IN
         /\ p.stamp = q.stamp + 1
         /\ \/ p.seq = q.seq /\ p.at = q.at + 1
            \/ p.at = 0 /\ q.at = PacketsPerSegment - 1 /\ Comes(q.seq, p.seq, lo)
  <2> SUFFICES ASSUME packets # <<>>
               PROVE  LET q == packets[Len(packets)] IN
                      /\ p.stamp = q.stamp + 1
                      /\ \/ p.seq = q.seq /\ p.at = q.at + 1
                         \/ p.at = 0 /\ q.at = PacketsPerSegment - 1 /\ Comes(q.seq, p.seq, lo)
    OBVIOUS
  <2> DEFINE q == packets[Len(packets)]
  <2>1. q.seq \in Int /\ q.at \in Int /\ q.stamp \in Int
    BY <1>2, PacketsAre, PacketType
  <2>2. /\ q.stamp + 1 = x.base + k
        /\ IF k > 0 THEN q.seq = x.seg /\ q.at = k - 1
                    ELSE q.at = PacketsPerSegment - 1 /\ Comes(q.seq, x.seg, lo)
    BY DEF Placed, Follows
  <2>3. k \in Int /\ (k > 0 \/ k = 0)
    BY <1>0
  <2> HIDE DEF q
  <2>4. x.base \in Int
    BY ListedType DEF Placed
  <2>5. p.stamp = q.stamp + 1
    BY <1>1, <2>1, <2>2, <2>3, <2>4
  <2>6. \/ p.seq = q.seq /\ p.at = q.at + 1
        \/ p.at = 0 /\ q.at = PacketsPerSegment - 1 /\ Comes(q.seq, p.seq, lo)
    BY <1>1, <2>1, <2>2, <2>3
  <2> QED
    BY <2>5, <2>6 DEF q
<1>7. Ordered(more, lo)
  <2> SUFFICES ASSUME NEW i \in 1 .. Len(more) - 1
               PROVE  LET r == more[i]  q == more[i + 1] IN
                      /\ q.stamp = r.stamp + 1
                      /\ \/ q.seq = r.seq /\ q.at = r.at + 1
                         \/ q.at = 0 /\ r.at = PacketsPerSegment - 1 /\ Comes(r.seq, q.seq, lo)
    BY DEF Ordered
  <2>1. CASE i = Len(packets)
    BY <1>3, <1>5, <1>6, <2>1
  <2>2. CASE i < Len(packets)
    <3>1. i \in 1 .. Len(packets) - 1 /\ more[i] = packets[i] /\ more[i + 1] = packets[i + 1]
      BY <1>3, <2>2
    <3> QED
      BY <3>1 DEF Placed, History, Ordered
  <2> QED
    BY <1>3, <2>1, <2>2
<1>8. /\ packets # <<>> => more[1] = packets[1]
      /\ packets = <<>> => more[1] = p
  BY <1>3, <1>4, <1>5
<1>9. History(lo, more, target, all \cup {p})
  BY <1>1, <1>2, <1>3, <1>7, <1>8 DEF Placed, History
<1>10. Follows(x, k + 1, lo, more)
  <2>1. more[Len(more)] = p /\ more # <<>>
    BY <1>3
  <2>2. k \in Int /\ k + 1 > 0 /\ p.at = k + 1 - 1 /\ x.base \in Int /\ p.stamp + 1 = x.base + (k + 1)
    BY <1>0, <1>1, ListedType DEF Placed
  <2> QED
    BY <1>1, <2>1, <2>2 DEF Follows
<1>11. ASSUME x.segments[1] = FirstWindow[1]
       PROVE  /\ p.stamp = Stamp(p) /\ p.seq \in FirstWindow[1] .. FirstWindow[1] + Len(x.segments) - 1
  <2>1. /\ x.seg = x.segments[1] + x.next - 1 /\ x.next \in 1 .. Len(x.segments) /\ Len(x.segments) \in Nat
    BY DEF Placed, Listed
  <2>2. x.base = (x.next - 1) * PacketsPerSegment
    BY <1>11 DEF Placed, Whole
  <2>3. x.seg - FirstWindow[1] = x.next - 1
    BY <1>0, <1>11, <2>1
  <2> QED
    BY <1>0, <1>1, <1>11, <2>1, <2>2, <2>3 DEF Stamp
<1>12. Whole(x, k + 1, more, target, all \cup {p})
  <2> SUFFICES ASSUME x.segments[1] = FirstWindow[1]
               PROVE  /\ x.base = (x.next - 1) * PacketsPerSegment
                      /\ \A q \in all \cup {p} : q.stamp = Stamp(q) /\ q.seq \in FirstWindow[1] .. FirstWindow[1] + Len(x.segments) - 1
                      /\ Found(target, Len(x.segments)) = more[1].stamp
    BY <1>3 DEF Whole
  <2> QED
    BY <1>1, <1>8, <1>11 DEF Placed, Whole
<1> QED
  BY <1>9, <1>10, <1>12 DEF Placed, more, p

LEMMA SegmentLeft ==
    ASSUME NEW x, NEW lo \in Int, NEW packets, NEW target, NEW all, x.current # 0,
           Placed(x, PacketsPerSegment, lo, packets, target, all),
           NEW y, y.segments = x.segments, y.current = 0, y.seg = x.seg,
           y.base = x.base + PacketsPerSegment, y.next = x.next + 1
    PROVE  Placed(y, 0, lo, packets, target, all)
<1>0. PacketsPerSegment \in Nat \ {0} /\ FirstWindow[1] \in Int
  BY HLSAssumption
<1>1. Listed(y)
  <2>1. Listed(x)
    BY DEF Placed
  <2>2. x.next \in 1 .. Len(x.segments) /\ Len(x.segments) \in Nat
    BY <2>1, ListedType DEF Listed
  <2>3. x.next + 1 \in 1 .. Len(x.segments) + 1 /\ x.base + PacketsPerSegment \in Int
    BY <1>0, <2>1, <2>2, ListedType
  <2> QED
    BY <2>1, <2>3 DEF Listed
<1>2. packets # <<>>
  BY <1>0 DEF Placed, Follows
<1>3. packets[Len(packets)] \in Packets
  BY <1>2, EmptySeq DEF Placed, History
<1>4. Follows(y, 0, lo, packets)
  <2>1. y.next <= Len(y.segments) => y.segments[y.next] = x.seg + 1
    <3>1. x.next + 1 <= Len(x.segments) => x.next + 1 \in 1 .. Len(x.segments)
      BY ListedType DEF Placed
    <3>2. x.seg = x.segments[x.next] /\ x.next <= Len(x.segments)
      BY DEF Placed, Listed
    <3>3. /\ x.next \in Int /\ x.segments[1] \in Int
          /\ \A i \in 1 .. Len(x.segments) : x.segments[i] = x.segments[1] + i - 1
      BY ListedType DEF Placed
    <3>4. x.next <= Len(x.segments) => x.segments[x.next] = x.segments[1] + x.next - 1
      BY ListedType DEF Placed
    <3>5. x.seg = x.segments[1] + x.next - 1
      BY <3>2, <3>4
    <3>6. x.next + 1 <= Len(x.segments) => x.segments[x.next + 1] = x.seg + 1
      BY <3>1, <3>3, <3>5
    <3> QED
      BY <3>6
  <2> DEFINE p == packets[Len(packets)]
  <2>2. /\ p.stamp + 1 = x.base + PacketsPerSegment
        /\ p.seq = x.seg /\ p.at = PacketsPerSegment - 1
    BY <1>0, <1>2 DEF Placed, Follows
  <2>3. x.base \in Int /\ x.seg \in Int /\ Comes(x.seg, x.seg + 1, lo)
    BY ListedType DEF Placed, Comes
  <2>4. p.stamp + 1 = y.base + 0 /\ p.seq = y.seg
    BY <1>0, <2>2, <2>3
  <2> QED
    BY <1>2, <2>1, <2>2, <2>3, <2>4 DEF Follows
<1>5. Whole(y, 0, packets, target, all)
  <2> SUFFICES ASSUME x.segments[1] = FirstWindow[1]
               PROVE  y.base = (y.next - 1) * PacketsPerSegment
    BY <1>2 DEF Placed, Whole
  <2>1. x.base = (x.next - 1) * PacketsPerSegment /\ x.next \in Nat
    BY DEF Placed, Whole, Listed
  <2> QED
    BY <1>0, <2>1
<1> QED
  BY <1>1, <1>4, <1>5 DEF Placed

LEMMA SegmentEntered ==
    ASSUME NEW x, NEW lo \in Int, NEW packets, NEW target, NEW all, x.current = 0, x.next <= Len(x.segments),
           Placed(x, 0, lo, packets, target, all),
           NEW y, y.segments = x.segments, y.current # 0, y.seg = x.segments[x.next],
           y.base = x.base, y.next = x.next
    PROVE  Placed(y, 0, lo, packets, target, all)
<1>0. PacketsPerSegment \in Nat \ {0} /\ FirstWindow[1] \in Int
  BY HLSAssumption
<1>1. x.segments[x.next] = x.segments[1] + x.next - 1 /\ x.segments[1] \in Int
  BY DEF Placed, Listed
<1>2. Listed(y)
  <2>1. Listed(x)
    BY DEF Placed
  <2>2. FirstWindow[1] <= x.segments[x.next] /\ x.segments[x.next] \in Int
    <3>1. x.segments[1] \in Int /\ x.next \in Int /\ 1 <= x.next /\ FirstWindow[1] <= x.segments[1]
      BY <2>1, ListedType
    <3> QED
      BY <1>0, <1>1, <3>1
  <2> QED
    BY <2>1, <2>2 DEF Listed
<1>3. packets # <<>>
  BY DEF Placed, Follows
<1>4. Follows(y, 0, lo, packets)
  BY <1>0, <1>3 DEF Placed, Follows
<1>5. Whole(y, 0, packets, target, all)
  BY DEF Placed, Whole
<1> QED
  BY <1>2, <1>4, <1>5 DEF Placed

LEMMA ListReplaced ==
    ASSUME NEW x, NEW lo \in Int, NEW hi \in Int, NEW packets, NEW target, NEW all, x.current = 0,
           x.next > Len(x.segments), Placed(x, 0, lo, packets, target, all),
           NEW y, y.segments = Window(Max({lo, x.seg + 1}), hi), y.segments # <<>>,
           y.current = 0, y.seg = x.seg, y.base = x.base, y.next = 1
    PROVE  Placed(y, 0, lo, packets, target, all)
<1>0. PacketsPerSegment \in Nat \ {0} /\ FirstWindow[1] \in Int
  BY HLSAssumption
<1>1. x.seg \in Int /\ FirstWindow[1] <= x.seg
  BY DEF Placed, Listed
<1> DEFINE first == Max({lo, x.seg + 1})
<1>2. first = (IF lo > x.seg + 1 THEN lo ELSE x.seg + 1)
  BY <1>1 DEF Max
<1>3. first \in Int /\ first >= x.seg + 1 /\ (first > x.seg + 1 => first = lo)
  BY <1>1, <1>2
<1> HIDE DEF first
<1>4. /\ y.segments \in Seq(Int) /\ Len(y.segments) >= 1
      /\ \A i \in 1 .. Len(y.segments) : y.segments[i] = first + i - 1
  <2>1. y.segments = Window(first, hi) /\ first <= hi
    BY <1>3, WindowListed DEF first
  <2>2. /\ Window(first, hi) \in Seq(Int) /\ Len(Window(first, hi)) = hi - first + 1
        /\ \A i \in 1 .. Len(Window(first, hi)) : Window(first, hi)[i] = first + i - 1
    BY <1>3, <2>1, WindowListed
  <2>3. hi - first + 1 >= 1
    BY <1>3, <2>1
  <2> QED
    BY <2>1, <2>2, <2>3
<1>5. y.segments[1] = first /\ Len(y.segments) \in Nat
  <2>1. Len(y.segments) \in Nat /\ 1 \in 1 .. Len(y.segments)
    BY <1>4
  <2>2. y.segments[1] = first + 1 - 1
    BY <1>4, <2>1
  <2> QED
    BY <1>3, <2>1, <2>2
<1>6. Listed(y)
  <2>1. y.base \in Int
    BY ListedType DEF Placed
  <2>2. FirstWindow[1] <= first /\ 1 \in 1 .. Len(y.segments) + 1
    BY <1>0, <1>1, <1>3, <1>5
  <2> QED
    BY <1>1, <1>4, <1>5, <2>1, <2>2 DEF Listed
<1>7. Follows(y, 0, lo, packets)
  BY <1>1, <1>3, <1>5 DEF Placed, Follows, Comes
<1>8. Whole(y, 0, packets, target, all)
  BY <1>0, <1>1, <1>3, <1>5 DEF Whole
<1> QED
  BY <1>6, <1>7, <1>8 DEF Placed

LEMMA Multiples ==
    ASSUME NEW a \in Int, NEW b \in Int, NEW m \in Nat, a <= b
    PROVE  a * m <= b * m /\ a * m \in Int /\ (a - 1) * m = a * m - m
<1>1. (b - a) * m >= 0
  BY Z3
<1>2. (b - a) * m = b * m - a * m
  BY Z3
<1> QED
  BY <1>1, <1>2, Z3

LEMMA PlaceFound ==
    ASSUME NEW x, NEW k, NEW lo \in Int, NEW packets, NEW before, NEW all,
           Placed(x, k, lo, packets, before, all),
           NEW y, NEW target \in Nat, NEW opens, Candidate(y, x, target, opens), y.current # 0,
           NEW local, local = Min({Max({0, target - y.base}), PacketsPerSegment - 1})
    PROVE  local \in 0 .. PacketsPerSegment - 1 /\ Placed(y, local, lo, <<>>, target, all)
<1> DEFINE n == Len(x.segments)
           index == target \div PacketsPerSegment + 1
<1>0. PacketsPerSegment \in Nat \ {0} /\ FirstWindow[1] \in Int
  BY HLSAssumption
<1>1. n \in Nat /\ n >= 1 /\ x.segments \in Seq(Int)
  BY DEF Placed, Listed
<1>2. index \in Nat /\ index >= 1 /\ (index - 1) * PacketsPerSegment <= target /\ target < index * PacketsPerSegment
  BY <1>0
<1> HIDE DEF index
<1>3. y.next = (IF index > n THEN n ELSE index) /\ y.base = (y.next - 1) * PacketsPerSegment /\ y.segments = x.segments
  BY DEF Candidate, index
<1> HIDE DEF n
<1>4. y.next \in 1 .. n /\ y.base \in Int
  BY <1>0, <1>1, <1>2, <1>3
<1> DEFINE end == n * PacketsPerSegment
           next == index * PacketsPerSegment
<1>5. /\ y.base \in Int /\ y.base <= target /\ end \in Int
      /\ target < end => target - y.base < PacketsPerSegment
      /\ target >= end => target - y.base >= PacketsPerSegment /\ y.base + PacketsPerSegment = end
  <2>1. end \in Int /\ next \in Int
    BY <1>0, <1>1, <1>2
  <2>2. CASE index > n
    <3>1. n \in Int /\ index - 1 \in Int /\ n <= index - 1 /\ PacketsPerSegment \in Nat
      BY <1>0, <1>1, <1>2, <2>2
    <3>2. end <= (index - 1) * PacketsPerSegment
      BY <3>1, Multiples
    <3>3. y.base = end - PacketsPerSegment
      BY <1>3, <2>2, <3>1, Multiples
    <3>4. end <= target
      <4>1. (index - 1) * PacketsPerSegment \in Int
        BY <3>1
      <4> HIDE DEF end
      <4> QED
        BY <1>2, <2>1, <3>2, <4>1
    <3> HIDE DEF end
    <3> QED
      BY <1>0, <2>1, <3>3, <3>4
  <2>3. CASE ~(index > n)
    <3>1. n \in Int /\ index \in Int /\ index <= n /\ PacketsPerSegment \in Nat
      BY <1>0, <1>1, <1>2, <2>3
    <3>2. next <= end
      BY <3>1, Multiples
    <3>3. y.base = next - PacketsPerSegment /\ y.base <= target
      BY <1>2, <1>3, <2>3, <3>1, Multiples
    <3>4. target < next
      BY <1>2
    <3> HIDE DEF end, next
    <3> QED
      BY <1>0, <2>1, <3>2, <3>3, <3>4
  <2> QED
    BY <2>2, <2>3
<1> HIDE DEF end
<1>6. local = (IF target - y.base < PacketsPerSegment THEN target - y.base ELSE PacketsPerSegment - 1)
  <2>1. Max({0, target - y.base}) = target - y.base
    BY <1>5 DEF Max
  <2> QED
    BY <1>0, <1>5, <2>1 DEF Min
<1>7. local \in 0 .. PacketsPerSegment - 1
  <2>1. target - y.base \in Int /\ 0 <= target - y.base
    BY <1>5
  <2> QED
    BY <1>0, <1>6, <2>1
<1>8. y.base + local = Found(target, n)
  <2>1. Found(target, n) = IF target < end THEN target ELSE end - 1
    BY DEF Found, end
  <2>2. CASE target < end
    <3>1. local = target - y.base
      BY <1>5, <1>6, <2>2
    <3> QED
      BY <1>5, <2>1, <2>2, <3>1
  <2>3. CASE target >= end
    <3>1. local = PacketsPerSegment - 1 /\ y.base + PacketsPerSegment = end
      BY <1>0, <1>5, <1>6, <2>3
    <3> QED
      BY <1>0, <1>5, <2>1, <2>3, <3>1
  <2> QED
    BY <1>5, <2>2, <2>3
<1>9. Listed(y)
  <2>1. Listed(x) /\ y.seg = y.segments[y.next]
    BY DEF Placed, Candidate
  <2>2. y.next <= n /\ y.next \in 1 .. n + 1
    BY <1>1, <1>4
  <2>3. y.seg \in Int /\ FirstWindow[1] <= y.seg
    <3>1. x.segments[y.next] = x.segments[1] + y.next - 1
      BY <1>4, <2>1, ListedType DEF n
    <3>2. x.segments[1] \in Int /\ FirstWindow[1] <= x.segments[1] /\ y.next \in Int /\ 1 <= y.next
      BY <1>1, <1>4, <2>1, ListedType
    <3> QED
      BY <1>0, <1>3, <2>1, <3>1, <3>2
  <2> QED
    BY <1>3, <1>5, <2>1, <2>2, <2>3 DEF Listed, n
<1>10. History(lo, <<>>, target, all)
  BY EmptySeq DEF Placed, History, Ordered
<1>11. Follows(y, local, lo, <<>>)
  BY <1>0, <1>7 DEF Follows
<1>12. Whole(y, local, <<>>, target, all)
  BY <1>3, <1>8 DEF Placed, Whole, Candidate, n
<1> QED
  BY <1>7, <1>9, <1>10, <1>11, <1>12 DEF Placed
-----------------------------------------------------------------------------
(* The invariant.  Whoever is inside, everybody else waits or is away.     *)
LEMMA AnchorIs ==
    ASSUME HlsInv, NEW t \in Ops, pc[t] = "in"
    PROVE  Anchor = IF call[t].at \in SeekPlaces THEN entry ELSE d
<1>1. \A u \in Ops : u # t => call[u].at \notin SeekPlaces
  BY OneIsBusy DEF SeekPlaces
<1> QED
  BY <1>1 DEF Anchor, SeekUnderWay

LEMMA BusyTime ==
    ASSUME HlsInv, TimeInv, NEW t \in Ops, pc[t] = "in", call[t].at \in Places
    PROVE  LET x == IF call[t].at \in SeekPlaces THEN entry ELSE d IN
           /\ Loaded(x, opened)
           /\ Placed(x, Offset(x, opened), server.lo, delivered, sought, timeline)
BY BusyFacts, AnchorIs DEF TimeInv

\* A step with which the operation inside returns.
LEMMA ReturnTime ==
    ASSUME HlsInv, TimeInv, NEW t \in Ops, pc[t] = "in", call[t].kind # "close", Return(t),
           ~Finished => /\ Loaded(d', opened')
                        /\ Placed(d', Offset(d', opened'), server.lo, delivered', sought', timeline'),
           Finished => UNCHANGED <<d, moved>>
    PROVE  TimeInv'
<1>1. /\ call' = [call EXCEPT ![t] = Idle] /\ UNCHANGED <<closed, entry, server>>
  BY DEF Return
<1>2. /\ pc'[t] = "out"
      /\ \A u \in Ops : u # t => pc'[u] # "in"
  BY Released DEF Return, Mutex!Unlock, HlsInv
<1>3. /\ \A u \in Ops : call'[u] = IF u = t THEN Idle ELSE call[u]
      /\ Idle.kind = "none" /\ Idle.at = "nowhere" /\ Idle.target = 0
  BY <1>1 DEF HlsInv, Shapes, Idle
<1>4. \A u \in Ops : call'[u].at \notin SeekPlaces /\ pc'[u] # "in"
  BY <1>2, <1>3, OneIsBusy DEF SeekPlaces
<1>5. Anchor' = d'
  BY <1>4 DEF Anchor, SeekUnderWay
<1>6. Finished' <=> Finished
  BY <1>1, <1>3, FinishedKept
<1>7. \A u \in Ops : call'[u].target \in Nat
  BY <1>3 DEF TimeInv
<1>8. ~Finished' => Loaded(Anchor, opened)' /\ Placed(Anchor, Offset(Anchor, opened), server.lo, delivered, sought, timeline)'
  BY <1>1, <1>5, <1>6
<1>9. Finished' => (\E k : Placed(d, k, server.lo, delivered, sought, timeline))'
  BY <1>1, <1>6 DEF TimeInv, moved
<1> QED
  BY <1>1, <1>4, <1>7, <1>8, <1>9 DEF TimeInv

\* A step with which it goes on, inside.
LEMMA GotoTime ==
    ASSUME HlsInv, TimeInv, NEW t \in Ops, pc[t] = "in", call[t].kind # "close", NEW where \in Places,
           Goto(t, where), ~Finished,
           where = "read" => call[t].kind = "read",
           where = "seek" => entry = d',
           where \in SeekPlaces => Candidate(d', entry, call[t].target, opened'),
           LET x == IF where \in SeekPlaces THEN entry ELSE d' IN
           /\ Loaded(x, opened')
           /\ Placed(x, Offset(x, opened'), server.lo, delivered', sought', timeline')
    PROVE  TimeInv'
<1> DEFINE new == [kind |-> call[t].kind, target |-> call[t].target, at |-> where]
<1>1. /\ UNCHANGED <<closed, entry, server, pc>> /\ call' = [call EXCEPT ![t] = new]
  BY DEF Goto, mutexVars
<1>2. /\ \A u \in Ops : call'[u] = IF u = t THEN new ELSE call[u]
      /\ new.kind = call[t].kind /\ new.at = where /\ new.target = call[t].target
  BY <1>1 DEF HlsInv, Shapes
<1> HIDE DEF new
<1>3. \A u \in Ops : u # t => call'[u].at \notin SeekPlaces /\ pc'[u] # "in"
  BY <1>1, <1>2, OneIsBusy DEF SeekPlaces
<1>4. Anchor' = IF where \in SeekPlaces THEN entry ELSE d'
  BY <1>1, <1>2, <1>3 DEF Anchor, SeekUnderWay
<1>5. Finished' <=> Finished
  BY <1>1, <1>2, FinishedKept
<1>6. \A u \in Ops : call'[u].target \in Nat
  BY <1>2 DEF TimeInv
<1>7. \A u \in Ops : pc'[u] = "in" /\ call'[u].kind = "seek" /\ call'[u].at \notin SeekPlaces => entry' = d'
  BY <1>1, <1>2, <1>3 DEF Places
<1>8. \A u \in Ops : call'[u].at \in SeekPlaces => Candidate(d', entry', call'[u].target, opened')
  BY <1>1, <1>2, <1>3
<1>9. Loaded(Anchor', opened') /\ Placed(Anchor', Offset(Anchor', opened'), server'.lo, delivered', sought', timeline')
  BY <1>1, <1>4
<1> QED
  BY <1>1, <1>5, <1>6, <1>7, <1>8, <1>9 DEF TimeInv

\* Where the demuxer is stays the same when its segment demuxer does.
LEMMA SameTime ==
    ASSUME NEW x, NEW y, NEW all, NEW new, NEW lo, NEW packets, NEW target, NEW seen,
           y.current = x.current, y.next = x.next, y.segments = x.segments, y.seg = x.seg, y.base = x.base,
           Loaded(x, all), Placed(x, Offset(x, all), lo, packets, target, seen),
           x.current # 0 => x.current \in DOMAIN new /\ new[x.current] = all[x.current]
    PROVE  Loaded(y, new) /\ Placed(y, Offset(y, new), lo, packets, target, seen)
<1>1. Loaded(y, new) /\ Offset(y, new) = Offset(x, all)
  BY DEF Loaded, Offset
<1>2. Listed(y) /\ \A k : (Follows(x, k, lo, packets) <=> Follows(y, k, lo, packets))
                          /\ (Whole(x, k, packets, target, seen) <=> Whole(y, k, packets, target, seen))
  BY DEF Placed, Listed, Follows, Whole
<1> QED
  BY <1>1, <1>2 DEF Placed

LEMMA OpenedIs ==
    ASSUME HlsInv, NEW t \in Ops, pc[t] = "in", call[t].at \in Places
    PROVE  /\ IsOpened(opened)
           /\ d.current # 0 => d.current \in DOMAIN opened
           /\ call[t].at \in SeekPlaces /\ entry.current # 0 =>
                 entry.current \in DOMAIN opened /\ entry.current # d.current
<1> DEFINE previous == IF call[t].at \in SeekPlaces THEN entry.current ELSE 0
<1>1. Owned(opened, d.current, previous)
  BY BusyFacts
<1>2. IsOpened(opened) /\ DOMAIN opened = 1 .. Len(opened) /\ Len(opened) \in Nat
  BY <1>1, CreatedAt DEF Owned, LockProofs!Owned, IsOpened
<1> QED
  BY <1>1, <1>2 DEF Owned, LockProofs!Owned

-----------------------------------------------------------------------------
LEMMA ReadTime ==
    ASSUME HlsInv, TimeInv, NEW t \in Ops, ReadStep(t)
    PROVE  TimeInv'
<1>1. pc[t] = "in" /\ call[t].at = "read" /\ call[t].at \in Places /\ call[t].at \notin SeekPlaces
  BY DEF ReadStep, EndOfPlaylist, Refresh, Open, Incompatible, Fail, Deliver, SegmentDone, At, Places, SeekPlaces
<1>2. ~Finished /\ call[t].kind # "close" /\ call[t].kind = "read"
  BY <1>1, BusyFacts DEF HlsInv, Phases
<1>3. IsDemuxer(d) /\ IsOpened(opened) /\ (d.current # 0 => d.current \in DOMAIN opened)
  BY <1>1, OpenedIs DEF HlsInv, Shapes
<1>4. Loaded(d, opened) /\ Placed(d, Offset(d, opened), server.lo, delivered, sought, timeline)
  BY <1>1, BusyTime
<1>5. "read" \in Places /\ "read" \notin SeekPlaces /\ "read" # "seek"
  BY DEF Places, SeekPlaces
<1>6. server.lo \in Int /\ server.hi \in Int
  BY DEF TimeInv
<1>7. d.current = 0 => Offset(d, opened) = 0
  BY DEF Offset
<1>8. ASSUME EndOfPlaylist(t) \/ Fail(t) PROVE TimeInv'
  <2>1. Return(t) /\ UNCHANGED <<d, opened, delivered, sought, timeline>>
    BY <1>8 DEF EndOfPlaylist, Fail, moved
  <2> QED
    BY <1>1, <1>2, <1>4, <2>1, ReturnTime
<1>9. CASE Refresh(t)
  <2>0. UNCHANGED <<opened, delivered, sought, timeline>> /\ d.current = 0 /\ d.next > Len(d.segments)
    <3>1. ~(d.next <= Len(d.segments)) /\ d.next \in Int /\ Len(d.segments) \in Int => d.next > Len(d.segments)
      OBVIOUS
    <3> QED
      BY <1>9 DEF Refresh, Exhausted, moved
  <2>1. CASE d' = [d EXCEPT !.endList = server.ended] /\ Return(t)
    <3>1. d'.current = d.current /\ d'.next = d.next /\ d'.segments = d.segments /\ d'.seg = d.seg /\ d'.base = d.base
      BY <1>3, <2>1 DEF IsDemuxer
    <3>2. Loaded(d', opened) /\ Placed(d', Offset(d', opened), server.lo, delivered, sought, timeline)
      BY <1>3, <1>4, <3>1, SameTime
    <3> QED
      BY <1>1, <1>2, <2>0, <2>1, <3>2, ReturnTime
  <2>2. CASE /\ NewerSegments # <<>>
             /\ d' = [d EXCEPT !.endList = server.ended, !.segments = NewerSegments, !.next = 1]
             /\ Goto(t, "read")
    <3>1. d'.current = 0 /\ d'.next = 1 /\ d'.segments = NewerSegments /\ d'.seg = d.seg /\ d'.base = d.base
      BY <1>3, <2>0, <2>2 DEF IsDemuxer
    <3>2. Placed(d', 0, server.lo, delivered, sought, timeline)
      <4>1. d'.segments = Window(Max({server.lo, d.seg + 1}), server.hi) /\ d'.segments # <<>>
        BY <2>2, <3>1 DEF NewerSegments
      <4>2. Placed(d, 0, server.lo, delivered, sought, timeline)
        BY <1>4, <1>7, <2>0
      <4> QED
        BY <1>6, <2>0, <3>1, <4>1, <4>2, ListReplaced
    <3>3. Loaded(d', opened) /\ Offset(d', opened) = 0
      BY <3>1 DEF Loaded, Offset
    <3> QED
      BY <1>1, <1>2, <1>5, <2>0, <2>2, <3>2, <3>3, GotoTime
  <2> QED
    BY <1>9, <2>1, <2>2 DEF Refresh
<1>10. CASE Open(t)
  <2>1. /\ d.current = 0 /\ UNCHANGED <<delivered, sought, timeline>> /\ Goto(t, "read")
        /\ opened' = Append(opened, NewDemuxer(d.segments[d.next])) /\ d' = Opened(d.next)
    BY <1>10 DEF Open, OpenSegment, moved
  <2>2. d.next <= Len(d.segments)
    <3>1. d.next \in Int /\ Len(d.segments) \in Int
      BY <1>4, ListedType DEF Placed
    <3> QED
      BY <1>10, <2>1, <3>1 DEF Open, Exhausted
  <2>3. /\ d'.current = Len(opened) + 1 /\ d'.next = d.next /\ d'.segments = d.segments
        /\ d'.seg = d.segments[d.next] /\ d'.base = d.base
    BY <1>3, <2>1 DEF IsDemuxer, Opened
  <2>4. /\ d'.current \in DOMAIN opened' /\ d'.current # 0
        /\ opened'[d'.current] = NewDemuxer(d.segments[d.next])
    BY <1>3, <2>1, <2>3, CreatedAt
  <2>5. Loaded(d', opened') /\ Offset(d', opened') = 0
    BY <2>3, <2>4, HLSAssumption DEF Loaded, Offset, NewDemuxer
  <2>6. Placed(d', 0, server.lo, delivered, sought, timeline)
    BY <1>4, <1>6, <1>7, <2>1, <2>2, <2>3, <2>4, SegmentEntered
  <2> QED
    BY <1>1, <1>2, <1>5, <2>1, <2>5, <2>6, GotoTime
<1>11. CASE Incompatible(t)
  <2>1. /\ Return(t) /\ UNCHANGED <<d, delivered, sought, timeline>> /\ d.current = 0
        /\ opened' = Append(opened, ClosedDemuxer)
    BY <1>11 DEF Incompatible, RejectStreams, moved
  <2>2. Loaded(d, opened') /\ Placed(d, Offset(d, opened'), server.lo, delivered, sought, timeline)
    BY <1>4, <2>1 DEF Loaded, Offset
  <2> QED
    BY <1>1, <1>2, <2>1, <2>2, ReturnTime
<1>12. CASE Deliver(t)
  <2> DEFINE m == opened[d.current]
             p == [seq |-> m.seg, at |-> m.at, stamp |-> d.base + m.at]
  <2>1. /\ d.current # 0 /\ m.at < PacketsPerSegment /\ opened' = MoveDemuxer(d.current, m.at + 1, opened)
        /\ delivered' = Append(delivered, p) /\ timeline' = timeline \cup {p}
        /\ Return(t) /\ UNCHANGED <<d, sought>>
    BY <1>12 DEF Deliver
  <2>2. m.seg = d.seg /\ m.at \in 0 .. PacketsPerSegment /\ d.current \in DOMAIN opened /\ Offset(d, opened) = m.at
    BY <1>4, <2>1 DEF Loaded, Offset
  <2>3. Placed(d, m.at + 1, server.lo, Append(delivered, p), sought, timeline \cup {p})
    BY <1>4, <1>6, <2>1, <2>2, PacketRead
  <2>4. d.current \in DOMAIN opened' /\ opened'[d.current].seg = d.seg /\ opened'[d.current].at = m.at + 1
    BY <1>3, <2>1, <2>2, AdvancedAt
  <2>5. m.at + 1 \in 0 .. PacketsPerSegment
    BY <2>1, <2>2, HLSAssumption
  <2>6. Loaded(d', opened') /\ Offset(d', opened') = m.at + 1
    BY <2>1, <2>4, <2>5 DEF Loaded, Offset
  <2> QED
    BY <1>1, <1>2, <2>1, <2>3, <2>6, ReturnTime
<1>13. CASE SegmentDone(t)
  <2>1. /\ d.current # 0 /\ opened[d.current].at = PacketsPerSegment
        /\ d' = [d EXCEPT !.current = 0, !.base = @ + PacketsPerSegment, !.next = @ + 1]
        /\ Goto(t, "read") /\ UNCHANGED <<delivered, sought, timeline>>
    BY <1>13 DEF SegmentDone, moved
  <2>2. /\ d'.current = 0 /\ d'.segments = d.segments /\ d'.seg = d.seg
        /\ d'.base = d.base + PacketsPerSegment /\ d'.next = d.next + 1
    BY <1>3, <2>1 DEF IsDemuxer
  <2>3. Placed(d, PacketsPerSegment, server.lo, delivered, sought, timeline)
    BY <1>4, <2>1 DEF Offset
  <2>4. Placed(d', 0, server.lo, delivered, sought, timeline)
    BY <1>6, <2>1, <2>2, <2>3, SegmentLeft
  <2>5. Loaded(d', opened') /\ Offset(d', opened') = 0
    BY <2>2 DEF Loaded, Offset
  <2> QED
    BY <1>1, <1>2, <1>5, <2>1, <2>4, <2>5, GotoTime
<1> QED
  BY <1>8, <1>9, <1>10, <1>11, <1>12, <1>13 DEF ReadStep
-----------------------------------------------------------------------------
LEMMA SeekFailsTime ==
    ASSUME HlsInv, TimeInv, NEW t \in Ops, pc[t] = "in", call[t].at \in SeekPlaces, call[t].at \in Places,
           Return(t), d' = entry, UNCHANGED moved,
           entry.current \in DOMAIN opened => entry.current \in DOMAIN opened' /\ opened'[entry.current] = opened[entry.current]
    PROVE  TimeInv'
<1>1. Loaded(entry, opened) /\ Placed(entry, Offset(entry, opened), server.lo, delivered, sought, timeline)
  BY BusyTime
<1>2. Loaded(entry, opened') /\ Placed(entry, Offset(entry, opened'), server.lo, delivered, sought, timeline)
  BY <1>1 DEF Loaded, Offset
<1>3. ~Finished /\ call[t].kind # "close"
  BY BusyFacts
<1> QED
  BY <1>2, <1>3, ReturnTime DEF moved

LEMMA SeekTime ==
    ASSUME HlsInv, TimeInv, NEW t \in Ops, SeekStep(t)
    PROVE  TimeInv'
<1>1. pc[t] = "in" /\ call[t].at \in Places /\ call[t].at \in {"seek"} \cup SeekPlaces
  BY DEF SeekStep, NotSeekable, SeekStart, SeekOpen, SeekPrime, SeekLocal, SeekFail, Seeking, SeekIncompatible,
         At, Places, SeekPlaces
<1>2. /\ ~Finished /\ call[t].kind # "close" /\ call[t].target \in Nat
      /\ call[t].at = "seek" => call[t].kind = "seek"
  BY <1>1, BusyFacts DEF HlsInv, Phases, TimeInv
<1>3. /\ IsDemuxer(d) /\ IsOpened(opened) /\ (d.current # 0 => d.current \in DOMAIN opened)
      /\ call[t].at \in SeekPlaces /\ entry.current # 0 => entry.current \in DOMAIN opened /\ entry.current # d.current
  BY <1>1, OpenedIs DEF HlsInv, Shapes
<1>4. call[t].at \notin SeekPlaces => entry = d
  BY <1>1, <1>2 DEF TimeInv
<1>5. Loaded(entry, opened) /\ Placed(entry, Offset(entry, opened), server.lo, delivered, sought, timeline)
  BY <1>1, <1>4, BusyTime
<1>6. call[t].at \in SeekPlaces => Candidate(d, entry, call[t].target, opened)
  BY DEF TimeInv
<1>7. "seek open" \in SeekPlaces /\ "seek prime" \in SeekPlaces /\ "seek local" \in SeekPlaces /\ "seek" \notin SeekPlaces
      /\ SeekPlaces \subseteq Places /\ "read" \notin SeekPlaces
  BY DEF Places, SeekPlaces
<1>8. server.lo \in Int
  BY DEF TimeInv
<1>9. CASE NotSeekable(t)
  <2>1. call[t].at = "seek" /\ Return(t) /\ UNCHANGED <<d, opened, delivered, sought, timeline>>
    BY <1>9 DEF NotSeekable, At, moved
  <2> QED
    BY <1>1, <1>2, <1>4, <1>5, <1>7, <2>1, ReturnTime
<1>10. CASE SeekStart(t)
  <2> DEFINE index == SegmentAt(call[t].target)
  <2>1. /\ call[t].at = "seek" /\ UNCHANGED <<opened, delivered, sought, timeline>> /\ Goto(t, "seek open")
        /\ d' = [d EXCEPT !.current = 0, !.next = index, !.base = (index - 1) * PacketsPerSegment]
    BY <1>10 DEF SeekStart, At, moved
  <2>2. d'.current = 0 /\ d'.next = index /\ d'.base = (index - 1) * PacketsPerSegment /\ d'.segments = d.segments
    <3> HIDE DEF index
    <3> QED
      BY <1>3, <2>1 DEF IsDemuxer
  <2>3. entry = d
    BY <1>4, <1>7, <2>1
  <2>4. Candidate(d', entry, call[t].target, opened')
    BY <2>2, <2>3 DEF Candidate, SegmentAt
  <2> QED
    BY <1>1, <1>2, <1>5, <1>7, <2>1, <2>4, GotoTime
<1>11. CASE SeekOpen(t)
  <2>1. /\ call[t].at = "seek open" /\ UNCHANGED <<delivered, sought, timeline>> /\ Goto(t, "seek prime")
        /\ opened' = Append(opened, NewDemuxer(d.segments[d.next])) /\ d' = Opened(d.next)
    BY <1>11 DEF SeekOpen, OpenSegment, At, moved
  <2>2. /\ d'.current = Len(opened) + 1 /\ d'.next = d.next /\ d'.segments = d.segments
        /\ d'.seg = d.segments[d.next] /\ d'.base = d.base
    BY <1>3, <2>1 DEF IsDemuxer, Opened
  <2>3. /\ d'.current \in DOMAIN opened' /\ opened'[d'.current].seg = d.segments[d.next]
        /\ \A i \in DOMAIN opened : i \in DOMAIN opened' /\ opened'[i] = opened[i]
    <3> DEFINE new == NewDemuxer(d.segments[d.next])
    <3>1. new.seg = d.segments[d.next] /\ opened' = Append(opened, new)
      BY <2>1 DEF NewDemuxer
    <3> HIDE DEF new
    <3>2. /\ DOMAIN opened \subseteq DOMAIN opened' /\ Len(opened) + 1 \in DOMAIN opened'
          /\ \A i \in DOMAIN opened : opened'[i] = opened[i]
          /\ opened'[Len(opened) + 1] = new
      BY <1>3, <3>1, CreatedAt
    <3> QED
      BY <2>2, <3>1, <3>2
  <2>4. Candidate(d', entry, call[t].target, opened')
    BY <1>6, <1>7, <2>1, <2>2, <2>3 DEF Candidate
  <2>5. Loaded(entry, opened') /\ Offset(entry, opened') = Offset(entry, opened)
    BY <1>5, <2>3 DEF Loaded, Offset
  <2> QED
    BY <1>1, <1>2, <1>5, <1>7, <2>1, <2>4, <2>5, GotoTime
<1>12. CASE SeekPrime(t)
  <2> DEFINE at == opened[d.current].at + 1
  <2>1. /\ call[t].at = "seek prime" /\ UNCHANGED <<d, delivered, sought, timeline>> /\ Goto(t, "seek local")
        /\ opened' = MoveDemuxer(d.current, at, opened)
    BY <1>12 DEF SeekPrime, At, moved
  <2>2. d.current # 0 /\ d.current \in DOMAIN opened
    BY <1>1, <1>3, <2>1, BusyFacts
  <2> HIDE DEF at
  <2>3. /\ DOMAIN opened' = DOMAIN opened /\ opened'[d.current].seg = opened[d.current].seg
        /\ \A i \in DOMAIN opened : i # d.current => opened'[i] = opened[i]
    <3>1. opened' = MoveDemuxer(d.current, at, opened)
      BY <2>1
    <3> QED
      BY <1>3, <2>2, <3>1, AdvancedAt
  <2>4. Candidate(d', entry, call[t].target, opened')
    BY <1>6, <1>7, <2>1, <2>3 DEF Candidate
  <2>5. Loaded(entry, opened') /\ Offset(entry, opened') = Offset(entry, opened)
    BY <1>3, <1>5, <1>7, <2>1, <2>3 DEF Loaded, Offset
  <2> QED
    BY <1>1, <1>2, <1>5, <1>7, <2>1, <2>4, <2>5, GotoTime
<1>13. CASE SeekLocal(t)
  <2> DEFINE local == Min({Max({0, call[t].target - d.base}), PacketsPerSegment - 1})
             placed == MoveDemuxer(d.current, local, opened)
  <2>1. /\ call[t].at = "seek local" /\ d' = d /\ Return(t)
        /\ delivered' = <<>> /\ sought' = call[t].target /\ timeline' = timeline
        /\ opened' = IF entry.current = 0 THEN placed ELSE CloseDemuxer(entry.current, placed)
    BY <1>13 DEF SeekLocal, At
  <2>2. d.current # 0 /\ d.current \in DOMAIN opened
    BY <1>1, <1>3, <2>1, BusyFacts
  <2>3. Candidate(d, entry, call[t].target, opened)
    BY <1>6, <1>7, <2>1
  <2>4. local \in 0 .. PacketsPerSegment - 1 /\ Placed(d, local, server.lo, <<>>, call[t].target, timeline)
    BY <1>2, <1>5, <1>8, <2>2, <2>3, PlaceFound
  <2> HIDE DEF local
  <2>5. DOMAIN placed = DOMAIN opened /\ placed[d.current].seg = opened[d.current].seg /\ placed[d.current].at = local
    BY <1>3, <2>2, AdvancedAt
  <2>6. IsOpened(placed)
    BY <1>3, <2>2, Advanced
  <2> HIDE DEF placed
  <2>7. DOMAIN opened' = DOMAIN opened /\ opened'[d.current] = placed[d.current]
    <3>1. CASE entry.current = 0
      BY <2>1, <2>5, <3>1
    <3>2. CASE entry.current # 0
      <4>1. entry.current \in DOMAIN placed /\ entry.current # d.current
        BY <1>3, <1>7, <2>1, <2>5, <3>2
      <4> QED
        BY <2>1, <2>2, <2>5, <2>6, <3>2, <4>1, ClosedAt
    <3> QED
      BY <3>1, <3>2
  <2>8. d.seg = opened[d.current].seg /\ local \in 0 .. PacketsPerSegment
    BY <2>2, <2>3, <2>4, HLSAssumption DEF Candidate
  <2>9. Loaded(d', opened') /\ Offset(d', opened') = local
    BY <2>1, <2>2, <2>5, <2>7, <2>8 DEF Loaded, Offset
  <2> QED
    BY <1>1, <1>2, <2>1, <2>4, <2>9, ReturnTime
<1>14. CASE SeekFail(t)
  <2>1. /\ call[t].at \in SeekPlaces /\ Return(t) /\ d' = entry /\ UNCHANGED moved
        /\ opened' = IF d.current # 0 THEN CloseDemuxer(d.current, opened) ELSE opened
    BY <1>14 DEF SeekFail, Seeking, At, SeekPlaces
  <2>2. entry.current \in DOMAIN opened => entry.current # d.current
    <3>1. 0 \notin DOMAIN opened
      BY <1>3, CreatedAt
    <3> QED
      BY <1>3, <2>1, <3>1
  <2>3. entry.current \in DOMAIN opened => entry.current \in DOMAIN opened' /\ opened'[entry.current] = opened[entry.current]
    BY <1>3, <2>1, <2>2, ClosedAt
  <2> QED
    BY <1>1, <2>1, <2>3, SeekFailsTime
<1>15. CASE SeekIncompatible(t)
  <2>1. /\ call[t].at \in SeekPlaces /\ Return(t) /\ d' = entry /\ UNCHANGED moved
        /\ opened' = Append(opened, ClosedDemuxer)
    BY <1>7, <1>15 DEF SeekIncompatible, RejectStreams, At
  <2>2. \A i \in DOMAIN opened : i \in DOMAIN opened' /\ opened'[i] = opened[i]
    BY <1>3, <2>1, CreatedAt
  <2> QED
    BY <1>1, <2>1, <2>2, SeekFailsTime
<1> QED
  BY <1>9, <1>10, <1>11, <1>12, <1>13, <1>14, <1>15 DEF SeekStep

-----------------------------------------------------------------------------
(* The way into an operation, Close and the server.                        *)
LEMMA CheckTime ==
    ASSUME HlsInv, TimeInv, NEW t \in Ops, Check(t)
    PROVE  TimeInv'
<1>1. pc[t] = "in" /\ call[t].at = "start" /\ call[t].kind # "close" /\ UNCHANGED <<d, opened, delivered, sought, timeline>>
  BY DEF Check, At, moved
<1>2. call[t].at \notin SeekPlaces /\ {"seek", "read"} \subseteq Places /\ "seek" \notin SeekPlaces /\ "read" \notin SeekPlaces
  BY <1>1 DEF SeekPlaces, Places
<1>3. ~Finished => Loaded(d, opened) /\ Placed(d, Offset(d, opened), server.lo, delivered, sought, timeline)
  BY <1>1, <1>2, AnchorIs DEF TimeInv
<1>4. CASE closed
  BY <1>1, <1>3, <1>4, ReturnTime DEF Check, moved
<1>5. CASE ~closed
  <2>1. call[t].kind \in {"seek", "read"}
    BY <1>1 DEF HlsInv, Shapes, Phases
  <2>2. ~Finished /\ Goto(t, call[t].kind)
    BY <1>5 DEF Check, Finished
  <2>3. call[t].kind = "seek" => entry = d
    BY <1>1, <1>2 DEF TimeInv
  <2> QED
    BY <1>1, <1>2, <1>3, <2>1, <2>2, <2>3, GotoTime
<1> QED
  BY <1>4, <1>5

\* Close puts the current demuxer away: nobody gets at its packets any more.
LEMMA CloseTime ==
    ASSUME HlsInv, TimeInv, NEW t \in Ops, CloseCurrent(t)
    PROVE  TimeInv'
<1>1. /\ pc[t] = "in" /\ call[t].at = "start" /\ call[t].kind = "close" /\ Return(t)
      /\ UNCHANGED <<d, delivered, sought, timeline>>
  BY DEF CloseCurrent, At, moved
<1>2. call' = [call EXCEPT ![t] = Idle] /\ UNCHANGED <<closed, entry, server>>
  BY <1>1 DEF Return
<1>3. /\ \A u \in Ops : call'[u] = IF u = t THEN Idle ELSE call[u]
      /\ Idle.kind = "none" /\ Idle.at = "nowhere" /\ Idle.target = 0
  BY <1>2 DEF HlsInv, Shapes, Idle
<1>4. \A u \in Ops : call'[u].at \notin SeekPlaces /\ call'[u].kind # "close" /\ call'[u].target \in Nat
  <2>1. \A u \in Ops : u # t => call[u].at \notin SeekPlaces /\ call[u].kind # "close"
    BY <1>1, OneIsBusy DEF HlsInv, Phases, OneCloser, SeekPlaces
  <2>2. \A u \in Ops : call'[u].target \in Nat
    BY <1>3 DEF TimeInv
  <2>3. \A u \in Ops : call'[u].at \notin SeekPlaces
    BY <1>3, <2>1 DEF SeekPlaces
  <2>4. \A u \in Ops : call'[u].kind # "close"
    BY <1>3, <2>1
  <2> QED
    BY <2>2, <2>3, <2>4
<1>5. \A u \in Ops : pc'[u] # "in"
  <2>1. pc'[t] = "out" /\ \A u \in Ops : u # t => pc'[u] # "in"
    BY <1>1, Released DEF Return, Mutex!Unlock, HlsInv
  <2> QED
    BY <2>1
<1>6. Finished'
  <2>1. closed
    BY <1>1 DEF HlsInv, Phases
  <2> QED
    BY <1>2, <1>4, <2>1 DEF Finished
<1>7. Placed(d, Offset(d, opened), server.lo, delivered, sought, timeline)
  <2>1. ~Finished
    BY <1>1 DEF Finished
  <2>2. call[t].at \notin SeekPlaces
    BY <1>1 DEF SeekPlaces
  <2> QED
    BY <1>1, <2>1, <2>2, AnchorIs DEF TimeInv
<1>8. (\E k : Placed(d, k, server.lo, delivered, sought, timeline))'
  BY <1>1, <1>2, <1>7
<1> QED
  BY <1>2, <1>4, <1>5, <1>6, <1>8 DEF TimeInv

\* Steps of nobody inside.
LEMMA OutsideTime ==
    ASSUME TimeInv, UNCHANGED <<d, opened, delivered, sought, timeline>>,
           Finished' <=> Finished, Anchor' = Anchor,
           server'.lo \in Int, server'.hi \in Int, server.lo <= server'.lo,
           server' = [lo |-> server'.lo, hi |-> server'.hi, ended |-> server'.ended],
           \A t \in Ops :
              /\ call'[t].target \in Nat
              /\ pc'[t] = "in" /\ call'[t].kind = "seek" /\ call'[t].at \notin SeekPlaces => entry' = d
              /\ call'[t].at \in SeekPlaces => Candidate(d, entry', call'[t].target, opened)
    PROVE  TimeInv'
<1>1. server.lo \in Int
  BY DEF TimeInv
<1>2. ~Finished' => Loaded(Anchor', opened') /\ Placed(Anchor', Offset(Anchor', opened'), server'.lo, delivered', sought', timeline')
  BY <1>1, LaterWindow DEF TimeInv
<1>3. Finished' => \E k : Placed(d', k, server'.lo, delivered', sought', timeline')
  BY <1>1, LaterWindow DEF TimeInv
<1> QED
  BY <1>2, <1>3 DEF TimeInv

LEMMA ServerTime ==
    ASSUME HlsInv, TimeInv, Server
    PROVE  TimeInv'
<1>1. UNCHANGED <<gate, waiting, pc, cancelled, call, closed, d, entry, opened, delivered, sought, timeline>>
  BY DEF Server, mutexVars, moved
<1>2. Finished' = Finished /\ Anchor' = Anchor
  BY <1>1 DEF Finished, Anchor, SeekUnderWay
<1>3. /\ server'.lo \in Int /\ server'.hi \in Int /\ server.lo <= server'.lo
      /\ server' = [lo |-> server'.lo, hi |-> server'.hi, ended |-> server'.ended]
  BY DEF Server, Publish, Expire, End, TimeInv
<1>4. \A t \in Ops :
         /\ call'[t].target \in Nat
         /\ pc'[t] = "in" /\ call'[t].kind = "seek" /\ call'[t].at \notin SeekPlaces => entry' = d
         /\ call'[t].at \in SeekPlaces => Candidate(d, entry', call'[t].target, opened)
  BY <1>1 DEF TimeInv
<1> QED
  BY <1>1, <1>2, <1>3, <1>4, OutsideTime

LEMMA CallTime ==
    ASSUME HlsInv, TimeInv, NEW t \in Ops, NEW kind \in Kinds, NEW target \in Targets, Call(t, kind, target)
    PROVE  TimeInv'
<1>0. /\ UNCHANGED <<d, entry, server, opened, delivered, sought, timeline>> /\ target \in Nat
      /\ server.lo \in Int /\ server.hi \in Int /\ server = [lo |-> server.lo, hi |-> server.hi, ended |-> server.ended]
      /\ server.lo <= server.lo
  BY HLSAssumption DEF Call, moved, TimeInv
<1>1. CASE UNCHANGED <<mutexVars, call, closed>>
  <2>1. Finished' = Finished /\ Anchor' = Anchor /\ UNCHANGED <<call, pc>>
    BY <1>0, <1>1 DEF Finished, Anchor, SeekUnderWay, mutexVars
  <2>2. \A u \in Ops :
           /\ call'[u].target \in Nat
           /\ pc'[u] = "in" /\ call'[u].kind = "seek" /\ call'[u].at \notin SeekPlaces => entry' = d
           /\ call'[u].at \in SeekPlaces => Candidate(d, entry', call'[u].target, opened)
    BY <1>0, <2>1 DEF TimeInv
  <2> QED
    BY <1>0, <2>1, <2>2, OutsideTime
<1>2. CASE /\ kind # "close" \/ ~closed
           /\ Mutex!Enter(t)
           /\ call' = [call EXCEPT ![t] = [kind |-> kind, target |-> target, at |-> "start"]]
           /\ closed' = (closed \/ kind = "close")
  <2> DEFINE new == [kind |-> kind, target |-> target, at |-> "start"]
  <2>1. /\ pc[t] = "out" /\ pc'[t] \in {"holding", "queued"} /\ \A u \in Ops : u # t => pc'[u] = pc[u]
    BY <1>2 DEF Mutex!Enter, HlsInv, LockProofs!IInv, LockProofs!TypeOK
  <2>2. /\ \A u \in Ops : call'[u] = IF u = t THEN new ELSE call[u]
        /\ new.kind = kind /\ new.at = "start" /\ new.target = target
    BY <1>2 DEF HlsInv, Shapes
  <2> HIDE DEF new
  <2>3. call[t].at \notin SeekPlaces /\ call'[t].at \notin SeekPlaces /\ call[t].kind = "none"
    BY <2>1, <2>2 DEF HlsInv, Phases, SeekPlaces
  <2>4. Anchor' = Anchor
    <3>1. SeekUnderWay' <=> SeekUnderWay
      BY <2>2, <2>3 DEF SeekUnderWay
    <3> QED
      BY <1>0, <3>1 DEF Anchor
  <2>5. Finished' <=> Finished
    BY <1>2, <2>2, <2>3 DEF Finished
  <2>6. \A u \in Ops :
           /\ call'[u].target \in Nat
           /\ pc'[u] = "in" /\ call'[u].kind = "seek" /\ call'[u].at \notin SeekPlaces => entry' = d
           /\ call'[u].at \in SeekPlaces => Candidate(d, entry', call'[u].target, opened)
    <3> TAKE u \in Ops
    <3>1. CASE u = t
      BY <1>0, <2>1, <2>2, <2>3, <3>1
    <3>2. CASE u # t
      BY <1>0, <2>1, <2>2, <3>2 DEF TimeInv
    <3> QED
      BY <3>1, <3>2
  <2> QED
    BY <1>0, <2>4, <2>5, <2>6, OutsideTime
<1> QED
  BY <1>1, <1>2 DEF Call

LEMMA CancelTime ==
    ASSUME HlsInv, TimeInv, NEW t \in Ops, Cancel(t)
    PROVE  TimeInv'
<1>1. /\ UNCHANGED <<pc, call, closed, d, entry, server, opened, delivered, sought, timeline>>
      /\ server.lo \in Int /\ server.hi \in Int /\ server = [lo |-> server.lo, hi |-> server.hi, ended |-> server.ended]
      /\ server.lo <= server.lo
  BY DEF Cancel, Mutex!Cancel, moved, TimeInv
<1>2. Finished' = Finished /\ Anchor' = Anchor
  BY <1>1 DEF Finished, Anchor, SeekUnderWay
<1>3. \A u \in Ops :
         /\ call'[u].target \in Nat
         /\ pc'[u] = "in" /\ call'[u].kind = "seek" /\ call'[u].at \notin SeekPlaces => entry' = d
         /\ call'[u].at \in SeekPlaces => Candidate(d, entry', call'[u].target, opened)
  BY <1>1 DEF TimeInv
<1> QED
  BY <1>1, <1>2, <1>3, OutsideTime

LEMMA LockTime ==
    ASSUME HlsInv, TimeInv, NEW t \in Ops, Lock(t)
    PROVE  TimeInv'
<1>1. /\ UNCHANGED <<closed, d, server, opened, delivered, sought, timeline>>
      /\ server.lo \in Int /\ server.hi \in Int /\ server = [lo |-> server.lo, hi |-> server.hi, ended |-> server.ended]
      /\ server.lo <= server.lo /\ pc[t] \in {"queued", "holding"}
      /\ call' = [call EXCEPT ![t] = IF pc'[t] = "out" THEN Idle ELSE call[t]]
      /\ entry' = IF pc'[t] = "in" THEN d ELSE entry
  BY DEF Lock, Mutex!Abandon, Mutex!Admit, Mutex!Refuse, moved, TimeInv
<1>2. \A u \in Ops : u # t => (pc'[u] = "in" <=> pc[u] = "in")
  <2>1. CASE Mutex!Refuse(t)
    <3>1. pc[t] = "holding" /\ \A u \in Ops : u # t => pc[u] # "in"
      BY <2>1 DEF Mutex!Refuse, HlsInv, LockProofs!IInv, LockProofs!TokenHasOwner
    <3> QED
      BY <2>1, <3>1, Released DEF Mutex!Refuse, HlsInv
  <2> QED
    BY <2>1 DEF Lock, Mutex!Abandon, Mutex!Admit, HlsInv, LockProofs!IInv, LockProofs!TypeOK
<1>3. /\ pc'[t] = "out" => t \in cancelled
      /\ pc'[t] = "in" => pc[t] = "holding"
  <2>1. CASE Mutex!Refuse(t)
    BY <2>1, Released DEF Mutex!Refuse, HlsInv
  <2> QED
    BY <2>1 DEF Lock, Mutex!Abandon, Mutex!Admit, HlsInv, LockProofs!IInv, LockProofs!TypeOK
<1>4. /\ \A u \in Ops : call'[u] = IF u = t /\ pc'[t] = "out" THEN Idle ELSE call[u]
      /\ Idle.kind = "none" /\ Idle.at = "nowhere" /\ Idle.target = 0
  BY <1>1 DEF HlsInv, Shapes, Idle
<1>5. call[t].at \notin SeekPlaces /\ call'[t].at \notin SeekPlaces
  <2>1. call[t].at \in {"start", "nowhere"}
    BY <1>1 DEF HlsInv, Phases
  <2> QED
    BY <1>4, <2>1 DEF SeekPlaces
<1>6. SeekUnderWay' <=> SeekUnderWay
  BY <1>4, <1>5 DEF SeekUnderWay
<1>7. pc'[t] = "in" => \A u \in Ops : pc[u] # "in" /\ call[u].at \notin SeekPlaces
  <2>1. pc'[t] = "in" => \A u \in Ops : pc[u] # "in"
    BY <1>3 DEF HlsInv, LockProofs!IInv, LockProofs!TokenHasOwner
  <2> QED
    BY <2>1 DEF HlsInv, Phases, SeekPlaces
<1>8. Anchor' = Anchor
  BY <1>1, <1>6, <1>7 DEF Anchor, SeekUnderWay
<1>9. Finished' <=> Finished
  <2>1. pc'[t] = "out" => call[t].kind # "close"
    BY <1>3 DEF HlsInv, Phases
  <2> QED
    BY <1>1, <1>4, <2>1 DEF Finished
<1>10. \A u \in Ops :
         /\ call'[u].target \in Nat
         /\ pc'[u] = "in" /\ call'[u].kind = "seek" /\ call'[u].at \notin SeekPlaces => entry' = d
         /\ call'[u].at \in SeekPlaces => Candidate(d, entry', call'[u].target, opened)
  <2> TAKE u \in Ops
  <2>1. call'[u].target \in Nat
    BY <1>4 DEF TimeInv
  <2>2. pc'[u] = "in" /\ call'[u].kind = "seek" /\ call'[u].at \notin SeekPlaces => entry' = d
    <3>1. CASE pc'[t] = "in"
      BY <1>1, <3>1
    <3>2. CASE pc'[t] # "in"
      BY <1>1, <1>2, <1>4, <3>2 DEF TimeInv
    <3> QED
      BY <3>1, <3>2
  <2>3. call'[u].at \in SeekPlaces => Candidate(d, entry', call'[u].target, opened)
    BY <1>1, <1>4, <1>5, <1>7 DEF TimeInv
  <2> QED
    BY <2>1, <2>2, <2>3
<1> QED
  BY <1>1, <1>8, <1>9, <1>10, OutsideTime

LEMMA TimeInitInvariant == Init => TimeInv
<1> SUFFICES ASSUME Init PROVE TimeInv
  OBVIOUS
<1> DEFINE first == FirstWindow[1]
           last == FirstWindow[2]
<1>1. first \in Nat /\ last \in Nat /\ first <= last /\ PacketsPerSegment \in Nat \ {0}
  BY HLSAssumption
<1>2. PICK ended \in EndsAtOnce : server = [lo |-> first, hi |-> last, ended |-> ended]
  BY DEF Init
<1>3. /\ d.current = 1 /\ d.next = 1 /\ d.segments = Window(first, last) /\ d.seg = first /\ d.base = 0
      /\ opened = <<NewDemuxer(first)>> /\ delivered = <<>> /\ sought = 0 /\ timeline = {}
  BY DEF Init
<1>4. call = [t \in Ops |-> Idle] /\ Idle.at = "nowhere" /\ Idle.target = 0 /\ pc = [t \in Ops |-> "out"] /\ closed = FALSE
  BY DEF Init, Idle, Mutex!Init
<1> HIDE DEF first, last
<1>5. 1 \in DOMAIN opened /\ opened[1].seg = first /\ opened[1].at = 0
  BY <1>3 DEF NewDemuxer
<1>6. Loaded(d, opened) /\ Offset(d, opened) = 0
  BY <1>1, <1>3, <1>5 DEF Loaded, Offset
<1>7. /\ d.segments \in Seq(Int) /\ Len(d.segments) = last - first + 1
      /\ \A i \in 1 .. Len(d.segments) : d.segments[i] = first + i - 1
  BY <1>1, <1>3, WindowListed
<1>8. d.segments[1] = first /\ Len(d.segments) >= 1 /\ Len(d.segments) \in Nat /\ 1 \in 1 .. Len(d.segments) + 1
  <2>1. Len(d.segments) >= 1 /\ Len(d.segments) \in Nat /\ 1 \in 1 .. Len(d.segments)
    BY <1>1, <1>7
  <2>2. d.segments[1] = first + 1 - 1
    BY <1>7, <2>1
  <2> QED
    BY <1>1, <2>1, <2>2
<1>9. Listed(d)
  BY <1>1, <1>3, <1>7, <1>8 DEF Listed, first
<1>10. History(server.lo, <<>>, 0, {})
  BY EmptySeq DEF History, Ordered
<1>11. Follows(d, 0, server.lo, <<>>)
  BY <1>1, <1>3 DEF Follows
<1>12. Whole(d, 0, <<>>, 0, {})
  <2>1. Found(0, Len(d.segments)) = 0
    <3>1. 1 * PacketsPerSegment <= Len(d.segments) * PacketsPerSegment /\ Len(d.segments) * PacketsPerSegment \in Int
      BY <1>1, <1>8, Multiples
    <3> QED
      BY <1>1, <3>1 DEF Found
  <2> QED
    BY <1>1, <1>3, <2>1 DEF Whole
<1>13. Placed(d, 0, server.lo, delivered, sought, timeline)
  BY <1>3, <1>9, <1>10, <1>11, <1>12 DEF Placed
<1>14. ~Finished /\ ~SeekUnderWay
  BY <1>4 DEF Finished, SeekUnderWay, SeekPlaces
<1>15. \A t \in Ops : call[t].target \in Nat /\ pc[t] # "in" /\ call[t].at \notin SeekPlaces
  <2>1. \A t \in Ops : call[t] = Idle /\ pc[t] = "out"
    BY <1>4
  <2>2. Idle.target \in Nat /\ Idle.at \notin SeekPlaces
    BY DEF Idle, SeekPlaces
  <2> QED
    BY <2>1, <2>2
<1>16. server.lo \in Int /\ server.hi \in Int /\ server = [lo |-> server.lo, hi |-> server.hi, ended |-> server.ended]
  BY <1>1, <1>2
<1> QED
  BY <1>6, <1>13, <1>14, <1>15, <1>16 DEF TimeInv, Anchor

LEMMA TimeStepInvariant == HlsInv /\ TimeInv /\ [Next]_vars => TimeInv'
<1> SUFFICES ASSUME HlsInv, TimeInv, [Next]_vars PROVE TimeInv'
  OBVIOUS
<1>1. CASE UNCHANGED vars
  <2>1. /\ UNCHANGED <<pc, call, closed, d, entry, server, opened, delivered, sought, timeline>>
        /\ server.lo \in Int /\ server.hi \in Int /\ server = [lo |-> server.lo, hi |-> server.hi, ended |-> server.ended]
        /\ server.lo <= server.lo
    BY <1>1 DEF vars, TimeInv
  <2>2. Finished' = Finished /\ Anchor' = Anchor
    BY <2>1 DEF Finished, Anchor, SeekUnderWay
  <2>3. \A u \in Ops :
           /\ call'[u].target \in Nat
           /\ pc'[u] = "in" /\ call'[u].kind = "seek" /\ call'[u].at \notin SeekPlaces => entry' = d
           /\ call'[u].at \in SeekPlaces => Candidate(d, entry', call'[u].target, opened)
    BY <2>1 DEF TimeInv
  <2> QED
    BY <2>1, <2>2, <2>3, OutsideTime
<1>2. ASSUME NEW t \in Ops,
             \/ \E kind \in Kinds, target \in Targets : Call(t, kind, target)
             \/ Cancel(t) \/ Lock(t) \/ Check(t) \/ ReadStep(t) \/ SeekStep(t) \/ CloseCurrent(t)
      PROVE  TimeInv'
  BY <1>2, CallTime, CancelTime, LockTime, CheckTime, ReadTime, SeekTime, CloseTime
<1> QED
  BY <1>1, <1>2, ServerTime DEF Next

-----------------------------------------------------------------------------
\* Stamps order the packets of a whole timeline as their places do.
LEMMA StampOrder ==
    ASSUME NEW p \in Packets, NEW q \in Packets, p.stamp = Stamp(p), q.stamp = Stamp(q), p.stamp <= q.stamp
    PROVE  p.seq < q.seq \/ (p.seq = q.seq /\ p.at <= q.at)
<1> DEFINE a == p.seq - FirstWindow[1]
           b == q.seq - FirstWindow[1]
<1>1. /\ a \in Int /\ b \in Int /\ PacketsPerSegment \in Nat \ {0}
      /\ p.at \in Int /\ 0 <= p.at /\ p.at <= PacketsPerSegment - 1
      /\ q.at \in Int /\ 0 <= q.at /\ q.at <= PacketsPerSegment - 1
      /\ p.seq \in Int /\ q.seq \in Int /\ FirstWindow[1] \in Int
  BY PacketType, HLSAssumption
<1>2. p.stamp = a * PacketsPerSegment + p.at /\ q.stamp = b * PacketsPerSegment + q.at
  BY DEF Stamp
<1>3. ASSUME b < a PROVE FALSE
  <2>1. b * PacketsPerSegment <= (a - 1) * PacketsPerSegment /\ (a - 1) * PacketsPerSegment = a * PacketsPerSegment - PacketsPerSegment
    BY <1>1, <1>3, Multiples
  <2>2. a * PacketsPerSegment \in Int /\ b * PacketsPerSegment \in Int
    BY <1>1
  <2> DEFINE m == a * PacketsPerSegment
             n == b * PacketsPerSegment
  <2>3. n <= m - PacketsPerSegment /\ m \in Int /\ n \in Int /\ m + p.at <= n + q.at
    BY <1>2, <2>1, <2>2
  <2> HIDE DEF m, n
  <2> QED
    BY <1>1, <2>3
<1>4. a <= b
  BY <1>1, <1>3
<1>5. ASSUME a = b PROVE p.at <= q.at
  <2>1. a * PacketsPerSegment \in Int /\ a * PacketsPerSegment + p.at <= a * PacketsPerSegment + q.at
    BY <1>1, <1>2, <1>5
  <2> DEFINE m == a * PacketsPerSegment
  <2>2. m \in Int /\ m + p.at <= m + q.at
    BY <2>1
  <2> HIDE DEF m
  <2> QED
    BY <1>1, <2>2
<1> QED
  BY <1>1, <1>4, <1>5

LEMMA PlacedIsOneTimeline ==
    ASSUME NEW x, NEW k, Placed(x, k, server.lo, delivered, sought, timeline), x.segments = d.segments
    PROVE  OneTimeline
<1>1. InOrder /\ StampsContiguous
  BY DEF Placed, History, Ordered, Comes, InOrder, StampsContiguous
<1>2. ASSUME d.segments[1] = FirstWindow[1], delivered # <<>>, NEW q \in timeline, q.stamp >= sought
      PROVE  LET p == delivered[1] IN p.seq < q.seq \/ (p.seq = q.seq /\ p.at <= q.at)
  <2> DEFINE p == delivered[1]
             n == Len(x.segments)
  <2>1. p \in timeline /\ timeline \subseteq Packets /\ sought \in Nat
    BY <1>2 DEF Placed, History
  <2>2. p \in Packets /\ q \in Packets
    BY <2>1
  <2>3. /\ p.stamp = Stamp(p) /\ q.stamp = Stamp(q) /\ q.seq \in FirstWindow[1] .. FirstWindow[1] + n - 1
        /\ p.stamp = Found(sought, n)
    BY <1>2, <2>1 DEF Placed, Whole
  <2>4. n \in Nat
    BY ListedType DEF Placed
  <2>5. sought < n * PacketsPerSegment
    <3>1. /\ q.seq - FirstWindow[1] \in Int /\ q.seq - FirstWindow[1] <= n - 1
          /\ PacketsPerSegment \in Nat /\ q.at \in Int /\ q.at <= PacketsPerSegment - 1
      BY <2>2, <2>3, <2>4, PacketType, HLSAssumption
    <3> HIDE DEF n
    <3> DEFINE end == n * PacketsPerSegment
               start == (q.seq - FirstWindow[1]) * PacketsPerSegment
    <3>2. start <= (n - 1) * PacketsPerSegment /\ (n - 1) * PacketsPerSegment = end - PacketsPerSegment
      BY <2>4, <3>1, Multiples
    <3>3. start \in Int /\ end \in Int /\ start <= end - PacketsPerSegment /\ q.stamp = start + q.at
      BY <2>3, <2>4, <3>1, <3>2 DEF Stamp
    <3> HIDE DEF start, end
    <3>4. q.stamp < end
      BY <3>1, <3>3
    <3>5. sought < end
      BY <1>2, <2>1, <2>2, <3>3, <3>4, PacketType
    <3> QED
      BY <3>5 DEF end
  <2>6. p.stamp = sought
    BY <2>3, <2>5 DEF Found
  <2> HIDE DEF p
  <2>7. p.stamp <= q.stamp
    BY <1>2, <2>6
  <2>8. p.seq < q.seq \/ (p.seq = q.seq /\ p.at <= q.at)
    BY <2>2, <2>3, <2>7, StampOrder
  <2> QED
    BY <2>8 DEF p
<1>3. SeekEarliestInList
  BY <1>2 DEF SeekEarliestInList, SeekEarliest
<1> QED
  BY <1>1, <1>3 DEF OneTimeline

(* Between two seeks a caller gets the packets of the playlist in order,   *)
(* each once and with stamps that follow on one another, across reloads,   *)
(* retries and seeks that failed half way; and as long as nothing was      *)
(* dropped from the list, a seek goes on at the earliest packet at or after*)
(* its target.                                                             *)
THEOREM OneTimelineAlways == Spec => []OneTimeline
<1>1. HlsInv /\ TimeInv => OneTimeline
  <2> SUFFICES ASSUME HlsInv, TimeInv PROVE OneTimeline
    OBVIOUS
  <2>1. Anchor.segments = d.segments
    BY DEF TimeInv, Anchor, SeekUnderWay, Candidate
  <2> QED
    BY <2>1, PlacedIsOneTimeline DEF TimeInv
<1>2. Init => HlsInv /\ TimeInv
  BY HlsInitInvariant, TimeInitInvariant
<1>3. HlsInv /\ TimeInv /\ [Next]_vars => HlsInv' /\ TimeInv'
  BY HlsStepInvariant, TimeStepInvariant
<1> QED
  BY <1>1, <1>2, <1>3, PTL DEF Spec

=============================================================================
