----------------------------- MODULE DASHProofs -----------------------------
(***************************************************************************)
(* Proofs about DASHDemuxer, for any number of callers, calls and segments *)
(* and whatever the server does: its operations use the lock as the lock   *)
(* is meant to be used, no segment demuxer is used after it was closed,    *)
(* and each is closed exactly once.                                        *)
(***************************************************************************)
EXTENDS DASHDemuxer, SharedProofs

SeekPlaces == {"seek open", "seek prime", "seek local"}

\* Close has returned.
Finished == closed /\ \A t \in Ops : call[t].kind # "close"

Places == {"seek", "read", "init"} \cup SeekPlaces

\* Fields of the records.
IsDemuxer(x) == x = [current |-> x.current, next |-> x.next, segments |-> x.segments, dynamic |-> x.dynamic,
                     rep |-> x.rep, init |-> x.init, shift |-> x.shift]

Shapes ==
    /\ call = [t \in Ops |-> call[t]]
    /\ \A t \in Ops : call[t] = [kind |-> call[t].kind, target |-> call[t].target,
                                 at |-> call[t].at, updated |-> call[t].updated]
    /\ IsDemuxer(d)
    /\ closed \in BOOLEAN

\* What OwnInit says of a state of the demuxer.
HasInit(x) == InitOf(x.rep) # NoRep => x.init = InitOf(x.rep)

OneCloser == \A t, u \in Ops : call[t].kind = "close" /\ call[u].kind = "close" => t = u

\* How far an operation has come, and what that says of the lock and the demuxer.
Phases ==
    /\ \A t \in Ops :
          /\ pc[t] = "out" <=> call[t].kind = "none"
          /\ call[t].at \notin {"start", "nowhere"} => pc[t] = "in"
          /\ call[t].kind = "close" => call[t].at = "start" /\ t \notin cancelled /\ closed
          /\ call[t].at = "seek open" => d.current = 0
          /\ call[t].at \in {"seek prime", "seek local"} => d.current # 0
    /\ (\A t \in Ops : call[t].at \notin SeekPlaces) => old.current = 0
    /\ OneCloser

Ownership ==
    /\ ~Finished => Owned(opened, d.current, old.current)
    /\ Finished => (\A i \in DOMAIN opened : opened[i].closes = 1) /\ (\A t \in Ops : ~Busy(t))

DashInv == IInv /\ Shapes /\ Phases /\ Ownership /\ OwnInit

-----------------------------------------------------------------------------
(* The lock.  Giving it up leaves everybody else where they were, but for  *)
(* the one it is handed to.                                                *)
LEMMA Alone ==
    ASSUME IInv, NEW t \in Ops, pc[t] = "in", NEW u \in Ops, u # t
    PROVE  pc[u] # "in"
BY DEF IInv, TokenHasOwner

LEMMA Released ==
    ASSUME IInv, NEW t \in Ops, pc[t] \in {"holding", "in"}, Release(t)
    PROVE  /\ pc'[t] = "out"
           /\ \A u \in Ops : u # t => (pc'[u] = "out" <=> pc[u] = "out") /\ pc'[u] # "in"
<1> USE DEF IInv, TypeOK
<1>1. \A u \in Ops : u # t => pc[u] \notin {"holding", "in"}
  BY DEF TokenHasOwner
<1>2. CASE waiting = <<>>
  BY <1>1, <1>2 DEF Release
<1>3. CASE waiting # <<>>
  <2>1. 1 \in DOMAIN waiting /\ Head(waiting) = waiting[1] /\ Head(waiting) \in Ops
    BY <1>3
  <2>2. pc[Head(waiting)] = "queued"
    BY <2>1 DEF QueueOfWaiters
  <2> QED
    BY <1>1, <1>3, <2>1, <2>2 DEF Release
<1> QED
  BY <1>2, <1>3

LEMMA OneIsBusy ==
    ASSUME DashInv, NEW t \in Ops, pc[t] = "in", call[t].kind # "close"
    PROVE  /\ \A u \in Ops : u # t => call[u].at \in {"start", "nowhere"}
           /\ call[t].at \notin SeekPlaces => old.current = 0
<1>1. \A u \in Ops : u # t => call[u].at \in {"start", "nowhere"}
  BY Alone DEF DashInv, Phases
<1>2. call[t].at \notin SeekPlaces => \A u \in Ops : call[u].at \notin SeekPlaces
  BY <1>1 DEF SeekPlaces
<1> QED
  BY <1>1, <1>2 DEF DashInv, Phases

LEMMA BusyFacts ==
    ASSUME DashInv, NEW t \in Ops, pc[t] = "in", call[t].at \in Places
    PROVE  /\ ~Finished /\ call[t].kind # "close"
           /\ Owned(opened, d.current, old.current)
           /\ call[t].at \notin SeekPlaces => old.current = 0
           /\ call[t].at = "seek open" => d.current = 0
           /\ call[t].at \in {"seek prime", "seek local"} => d.current # 0
<1>1. Busy(t)
  BY DEF Busy, Places, SeekPlaces
<1>2. ~Finished /\ Owned(opened, d.current, old.current)
  BY <1>1 DEF DashInv, Ownership
<1>3. call[t].kind # "close"
  BY DEF DashInv, Phases, Places, SeekPlaces
<1> QED
  BY <1>2, <1>3, OneIsBusy DEF DashInv, Phases

\* Whether Close has returned does not change with a step of an operation.
LEMMA FinishedKept ==
    ASSUME Shapes, NEW t \in Ops, call[t].kind # "close", NEW new, new.kind # "close",
           call' = [call EXCEPT ![t] = new], closed' = closed
    PROVE  Finished' <=> Finished
BY DEF Shapes, Finished

(* A step with which the operation inside returns.                         *)
LEMMA ReturnPreserves ==
    ASSUME DashInv, NEW t \in Ops, pc[t] = "in", call[t].kind # "close", Return(t),
           IsDemuxer(d'), HasInit(d'),
           Finished => opened' = opened,
           ~Finished => Owned(opened', d'.current, 0)
    PROVE  DashInv'
<1>1. IInv'
  <2>1. [Next]_vars
    BY DEF Return, Next
  <2> QED
    BY <2>1, StepInvariant DEF DashInv
<1>2. /\ pc'[t] = "out" /\ cancelled' = cancelled
      /\ \A u \in Ops : u # t => (pc'[u] = "out" <=> pc[u] = "out") /\ pc'[u] # "in"
  BY Released DEF Return, Unlock, DashInv
<1>3. /\ closed' = closed /\ show' = show /\ old' = NoSeek
      /\ call' = [call EXCEPT ![t] = Idle]
  BY DEF Return, Inside
<1>4. Shapes'
  BY <1>3 DEF DashInv, Shapes, Idle
<1>5. /\ \A u \in Ops : call'[u] = IF u = t THEN Idle ELSE call[u]
      /\ Idle.kind = "none" /\ Idle.at = "nowhere"
  BY <1>3 DEF DashInv, Shapes, Idle
<1>6. \A u \in Ops : call'[u].at \in {"start", "nowhere"}
  BY <1>5, OneIsBusy
<1>7. Phases'
  <2>1. \A u \in Ops : /\ pc'[u] = "out" <=> call'[u].kind = "none"
                       /\ call'[u].kind = "close" => call'[u].at = "start" /\ u \notin cancelled'
    BY <1>2, <1>5 DEF DashInv, Phases
  <2>4. \A u \in Ops : call'[u].kind = "close" => closed'
    BY <1>3, <1>5 DEF DashInv, Phases
  <2>2. OneCloser'
    BY <1>5 DEF DashInv, Phases, OneCloser
  <2>3. old'.current = 0
    BY <1>3 DEF NoSeek
  <2> QED
    BY <1>6, <2>1, <2>2, <2>3, <2>4 DEF Phases
<1>8. Finished' <=> Finished
  BY <1>3, <1>5, FinishedKept DEF DashInv
<1>9. Ownership'
  BY <1>2, <1>3, <1>8 DEF DashInv, Ownership, NoSeek, Busy
<1>10. OwnInit'
  BY <1>3 DEF OwnInit, HasInit, InitOf
<1> QED
  BY <1>1, <1>4, <1>7, <1>9, <1>10 DEF DashInv

(* A step with which it goes on, inside.                                   *)
LEMMA GotoPreserves ==
    ASSUME DashInv, NEW t \in Ops, pc[t] = "in", call[t].kind # "close", NEW where \in Places, NEW updated,
           Move(t, where, updated),
           IsDemuxer(d'), HasInit(d'),
           ~Finished, Owned(opened', d'.current, old'.current),
           where \notin SeekPlaces => old'.current = 0,
           where = "seek open" => d'.current = 0,
           where \in {"seek prime", "seek local"} => d'.current # 0
    PROVE  DashInv'
<1> DEFINE new == [kind |-> call[t].kind, target |-> call[t].target, at |-> where, updated |-> updated]
<1>1. IInv'
  <2>1. [Next]_vars
    BY DEF Move, mutexVars, vars
  <2> QED
    BY <2>1, StepInvariant DEF DashInv
<1>2. /\ closed' = closed /\ show' = show /\ pc' = pc /\ cancelled' = cancelled
      /\ call' = [call EXCEPT ![t] = new]
  BY DEF Move, Inside, mutexVars
<1>3. /\ \A u \in Ops : call'[u] = IF u = t THEN new ELSE call[u]
      /\ new.kind = call[t].kind /\ new.at = where
  BY <1>2 DEF DashInv, Shapes
<1>4. Shapes'
  BY <1>2 DEF DashInv, Shapes
<1> HIDE DEF new
<1>5. Phases'
  <2>1. \A u \in Ops :
           /\ pc'[u] = "out" <=> call'[u].kind = "none"
           /\ call'[u].at \notin {"start", "nowhere"} => pc'[u] = "in"
           /\ call'[u].kind = "close" => call'[u].at = "start" /\ u \notin cancelled' /\ closed'
    <3>1. t \in Ops /\ call[t].kind # "none" /\ where \notin {"start", "nowhere"}
      BY DEF DashInv, Phases, Places, SeekPlaces
    <3>2. call'[t].kind = call[t].kind /\ call'[t].at = where
      BY <1>3, <3>1
    <3>3. ASSUME NEW u \in Ops, u # t
          PROVE  call'[u] = call[u]
      BY <1>3, <3>3
    <3>4. ASSUME NEW u \in Ops
          PROVE  /\ pc'[u] = "out" <=> call'[u].kind = "none"
                 /\ call'[u].at \notin {"start", "nowhere"} => pc'[u] = "in"
                 /\ call'[u].kind = "close" => call'[u].at = "start" /\ u \notin cancelled' /\ closed'
      <4>1. CASE u = t
        BY <1>2, <3>1, <3>2, <4>1
      <4>2. CASE u # t
        BY <1>2, <3>3, <4>2 DEF DashInv, Phases
      <4> QED
        BY <4>1, <4>2
    <3> QED
      BY <3>4
  <2>2. \A u \in Ops : u # t => call'[u].at \in {"start", "nowhere"}
    BY <1>3, OneIsBusy
  <2>3. \A u \in Ops : /\ call'[u].at = "seek open" => d'.current = 0
                       /\ call'[u].at \in {"seek prime", "seek local"} => d'.current # 0
    BY <1>3, <2>2
  <2>4. (\A u \in Ops : call'[u].at \notin SeekPlaces) => old'.current = 0
    BY <1>3
  <2>5. \A u \in Ops : call'[u].kind = call[u].kind
    BY <1>3
  <2>6. OneCloser
    BY DEF DashInv, Phases
  <2>7. OneCloser'
    BY <2>5, <2>6 DEF OneCloser
  <2> QED
    BY <2>1, <2>3, <2>4, <2>7 DEF Phases
<1>6. Finished' <=> Finished
  BY <1>2, <1>3, FinishedKept DEF DashInv
<1>7. Ownership'
  BY <1>6 DEF Ownership
<1>8. OwnInit'
  BY <1>2 DEF OwnInit, HasInit, InitOf
<1> QED
  BY <1>1, <1>4, <1>5, <1>7, <1>8 DEF DashInv

\* The two lemmas for the steps that leave the demuxer alone.
LEMMA OnlyReturns ==
    ASSUME DashInv, NEW t \in Ops, pc[t] = "in", call[t].kind # "close", call[t].at \notin SeekPlaces,
           Return(t), UNCHANGED <<d, opened>>
    PROVE  DashInv'
<1>1. IsDemuxer(d') /\ HasInit(d')
  BY DEF DashInv, Shapes, OwnInit, HasInit
<1>2. ~Finished => Owned(opened', d'.current, 0)
  BY OneIsBusy DEF DashInv, Ownership
<1> QED
  BY <1>1, <1>2, ReturnPreserves

LEMMA OnlyGoes ==
    ASSUME DashInv, NEW t \in Ops, pc[t] = "in", call[t].kind # "close", call[t].at \notin SeekPlaces,
           ~Finished, NEW where \in Places \ SeekPlaces, Goto(t, where), UNCHANGED <<d, opened>>
    PROVE  DashInv'
<1>1. IsDemuxer(d') /\ HasInit(d')
  BY DEF DashInv, Shapes, OwnInit, HasInit
<1>2. Move(t, where, call[t].updated) /\ old' = old
  BY DEF Goto, Stay
<1>3. Owned(opened', d'.current, old'.current) /\ old'.current = 0
  BY <1>2, OneIsBusy DEF DashInv, Ownership
<1>4. where # "seek open" /\ where \notin {"seek prime", "seek local"}
  BY DEF SeekPlaces
<1> QED
  BY <1>1, <1>2, <1>3, <1>4, GotoPreserves

\* An operation opens the next segment's demuxer where there is none.
LEMMA OpenPreserves ==
    ASSUME DashInv, NEW t \in Ops, pc[t] = "in", call[t].at \in Places, d.current = 0,
           NEW where \in {"read", "seek prime"}, OpenSegment(t, where),
           call[t].at \in SeekPlaces => where \in SeekPlaces
    PROVE  DashInv'
<1>1. /\ ~Finished /\ call[t].kind # "close" /\ Owned(opened, 0, old.current)
      /\ call[t].at \notin SeekPlaces => old.current = 0
  BY BusyFacts
<1>2. Move(t, where, call[t].updated) /\ old' = old
  BY DEF OpenSegment, Goto, Stay
<1>3. IsDemuxer(d') /\ d'.current = Len(opened) + 1 /\ d'.rep = d.rep /\ d'.init = d.init
  BY DEF OpenSegment, DashInv, Shapes, IsDemuxer
<1>4. Owned(opened', d'.current, old'.current)
  BY <1>1, <1>2, <1>3, OwnedCreated DEF OpenSegment
<1>5. d'.current # 0
  BY <1>1, <1>3, OwnedCreated
<1>6. HasInit(d')
  BY <1>3 DEF DashInv, OwnInit, HasInit
<1>7. where \in Places /\ where # "seek open" /\ (where \notin SeekPlaces => old'.current = 0)
  BY <1>1, <1>2 DEF Places, SeekPlaces
<1> QED
  BY <1>1, <1>2, <1>3, <1>4, <1>5, <1>6, <1>7, GotoPreserves

-----------------------------------------------------------------------------
(* The steps of ReadPacket.                                                *)
LEMMA ReadPreserves ==
    ASSUME DashInv, NEW t \in Ops, ReadStep(t)
    PROVE  DashInv'
<1>1. pc[t] = "in" /\ call[t].at \in {"read", "init"} /\ call[t].at \in Places /\ call[t].at \notin SeekPlaces
  BY DEF ReadStep, EndOfPresentation, Refresh, FetchInit, OpenNext, Incompatible, Fail, Deliver, SegmentDone,
         At, Places, SeekPlaces
<1>2. ~Finished /\ call[t].kind # "close" /\ Owned(opened, d.current, 0) /\ old.current = 0
  BY <1>1, BusyFacts
<1>3. IsDemuxer(d) /\ HasInit(d)
  BY DEF DashInv, Shapes, OwnInit, HasInit
<1>4. ASSUME EndOfPresentation(t) \/ Fail(t) PROVE DashInv'
  BY <1>1, <1>2, <1>4, OnlyReturns DEF EndOfPresentation, Fail
<1>5. ASSUME NEW updated, NEW init, Install(updated, init), InitOf(updated.rep) # NoRep => init = InitOf(updated.rep)
      PROVE  IsDemuxer(d') /\ HasInit(d') /\ d'.current = d.current
  BY <1>3, <1>5 DEF Install, IsDemuxer, HasInit, InitOf
<1>6. CASE Refresh(t)
  <2>1. PICK updated :
          \/ /\ updated.segments = <<>>
             /\ d' = [d EXCEPT !.dynamic = updated.dynamic] /\ Return(t)
          \/ /\ InitOf(updated.rep) \in {NoRep, InitOf(d.rep)}
             /\ Install(updated, d.init) /\ Goto(t, "read")
          \/ Move(t, "init", updated) /\ UNCHANGED <<d, old>>
    BY <1>6 DEF Refresh, Replace
  <2>2. opened' = opened
    BY <1>6 DEF Refresh
  <2>3. CASE d' = [d EXCEPT !.dynamic = updated.dynamic] /\ Return(t)
    <3>1. IsDemuxer(d') /\ HasInit(d') /\ d'.current = d.current
      BY <1>3, <2>3 DEF IsDemuxer, HasInit
    <3> QED
      BY <1>1, <1>2, <2>2, <2>3, <3>1, ReturnPreserves
  <2>4. CASE /\ InitOf(updated.rep) \in {NoRep, InitOf(d.rep)}
             /\ Install(updated, d.init) /\ Goto(t, "read")
    <3>1. Move(t, "read", call[t].updated) /\ old' = old
      BY <2>4 DEF Goto, Stay
    <3>2. "read" \in Places /\ "read" \notin {"seek open", "seek prime", "seek local"}
      BY DEF Places
    <3>3. IsDemuxer(d') /\ HasInit(d') /\ d'.current = d.current
      BY <1>3, <1>5, <2>4 DEF HasInit
    <3> QED
      BY <1>1, <1>2, <2>2, <3>1, <3>2, <3>3, GotoPreserves
  <2>5. CASE Move(t, "init", updated) /\ UNCHANGED <<d, old>>
    <3>1. "init" \in Places /\ "init" \notin {"seek open", "seek prime", "seek local"}
      BY DEF Places
    <3> QED
      BY <1>1, <1>2, <1>3, <2>2, <2>5, <3>1, GotoPreserves
  <2> QED
    BY <2>1, <2>3, <2>4, <2>5
<1>7. CASE FetchInit(t)
  <2>1. "read" \in Places /\ "read" \notin {"seek open", "seek prime", "seek local"}
    BY DEF Places
  <2>2. Install(call[t].updated, InitOf(call[t].updated.rep)) /\ Move(t, "read", NoUpdate) /\ opened' = opened /\ old' = old
    BY <1>7 DEF FetchInit
  <2>3. IsDemuxer(d') /\ HasInit(d') /\ d'.current = d.current
    BY <1>5, <2>2
  <2> QED
    BY <1>1, <1>2, <2>1, <2>2, <2>3, GotoPreserves
<1>8. CASE OpenNext(t)
  BY <1>1, <1>8, OpenPreserves DEF OpenNext
<1>9. CASE Incompatible(t)
  <2>1. Owned(opened', d.current, 0)
    BY <1>2, <1>9, OwnedRejected DEF Incompatible, RejectStreams
  <2> QED
    BY <1>1, <1>2, <1>3, <1>9, <2>1, ReturnPreserves DEF Incompatible
<1>10. CASE Deliver(t)
  <2>1. PICK at, shift : opened' = MoveDemuxer(d.current, at, opened) /\ d' = [d EXCEPT !.shift = shift]
    BY <1>10 DEF Deliver
  <2>2. IsDemuxer(d') /\ HasInit(d') /\ d'.current = d.current
    BY <1>3, <2>1 DEF IsDemuxer, HasInit
  <2>3. Owned(opened', d'.current, 0)
    BY <1>2, <1>10, <2>1, <2>2, OwnedMoved DEF Deliver
  <2> QED
    BY <1>1, <1>2, <1>10, <2>2, <2>3, ReturnPreserves DEF Deliver
<1>11. CASE SegmentDone(t)
  <2>1. /\ d.current # 0 /\ opened' = CloseDemuxer(d.current, opened)
        /\ d' = [d EXCEPT !.current = 0, !.next = @ + 1]
    BY <1>11 DEF SegmentDone
  <2>2. IsDemuxer(d') /\ HasInit(d') /\ d'.current = 0
    BY <1>3, <2>1 DEF IsDemuxer, HasInit
  <2>3. Owned(opened', d'.current, 0)
    BY <1>2, <2>1, <2>2, OwnedClosed
  <2>4. Move(t, "read", call[t].updated) /\ old' = old
    BY <1>11 DEF SegmentDone, Goto, Stay
  <2>5. "read" \in Places /\ "read" \notin {"seek open", "seek prime", "seek local"}
    BY DEF Places
  <2> QED
    BY <1>1, <1>2, <2>2, <2>3, <2>4, <2>5, GotoPreserves
<1> QED
  BY <1>4, <1>6, <1>7, <1>8, <1>9, <1>10, <1>11 DEF ReadStep

-----------------------------------------------------------------------------
(* The steps of Seek.                                                      *)

\* A seek that fails goes back to the segment it found.
LEMMA SeekGoesBack ==
    ASSUME DashInv, NEW t \in Ops, pc[t] = "in", call[t].at \in SeekPlaces, Return(t),
           d' = [d EXCEPT !.current = old.current, !.next = old.next, !.shift = old.shift],
           Owned(opened', old.current, 0)
    PROVE  DashInv'
<1>1. call[t].kind # "close" /\ ~Finished
  BY BusyFacts DEF Places
<1>2. IsDemuxer(d') /\ d'.current = old.current /\ d'.rep = d.rep /\ d'.init = d.init
  BY DEF DashInv, Shapes, IsDemuxer
<1>3. HasInit(d')
  BY <1>2 DEF DashInv, OwnInit, HasInit
<1> QED
  BY <1>1, <1>2, <1>3, ReturnPreserves

LEMMA SeekPreserves ==
    ASSUME DashInv, NEW t \in Ops, SeekStep(t)
    PROVE  DashInv'
<1>1. pc[t] = "in" /\ call[t].at \in Places /\ call[t].at \in {"seek"} \cup SeekPlaces
  BY DEF SeekStep, NotSeekable, SeekStart, SeekOpen, SeekPrime, SeekLocal, SeekFail, SeekIncompatible,
         At, Places, SeekPlaces
<1>2. ~Finished /\ call[t].kind # "close" /\ Owned(opened, d.current, old.current)
  BY <1>1, BusyFacts
<1>3. IsDemuxer(d) /\ HasInit(d)
  BY DEF DashInv, Shapes, OwnInit, HasInit
<1>4. CASE NotSeekable(t)
  <2>1. call[t].at \notin SeekPlaces
    BY <1>4 DEF NotSeekable, At, SeekPlaces
  <2> QED
    BY <1>1, <1>2, <1>4, <2>1, OnlyReturns DEF NotSeekable
<1>5. CASE SeekStart(t)
  <2>1. old.current = 0
    BY <1>1, <1>5, BusyFacts DEF SeekStart, At, SeekPlaces
  <2>2. PICK next : d' = [d EXCEPT !.current = 0, !.next = next]
    BY <1>5 DEF SeekStart
  <2>3. IsDemuxer(d') /\ d'.current = 0 /\ HasInit(d')
    BY <1>3, <2>2 DEF IsDemuxer, HasInit
  <2>4. old'.current = d.current /\ opened' = opened
    BY <1>5 DEF SeekStart
  <2>5. Owned(opened', d'.current, old'.current)
    BY <1>2, <2>1, <2>3, <2>4, OwnedSwapped
  <2>6. Move(t, "seek open", call[t].updated)
    BY <1>5 DEF SeekStart, Stay
  <2>7. "seek open" \in Places \cap SeekPlaces
    BY DEF Places, SeekPlaces
  <2> QED
    BY <1>1, <1>2, <1>3, <2>3, <2>5, <2>6, <2>7, GotoPreserves
<1>6. CASE SeekOpen(t)
  <2>1. d.current = 0 /\ "seek prime" \in SeekPlaces
    BY <1>1, <1>6, BusyFacts DEF SeekOpen, At, SeekPlaces
  <2> QED
    BY <1>1, <1>6, <2>1, OpenPreserves DEF SeekOpen
<1>7. CASE SeekPrime(t)
  <2>1. d.current # 0
    BY <1>1, <1>7, BusyFacts DEF SeekPrime, At
  <2>2. PICK at, shift : opened' = MoveDemuxer(d.current, at, opened) /\ d' = [d EXCEPT !.shift = shift]
    BY <1>7 DEF SeekPrime
  <2>3. IsDemuxer(d') /\ d'.current = d.current /\ HasInit(d')
    BY <1>3, <2>2 DEF IsDemuxer, HasInit
  <2>4. Move(t, "seek local", call[t].updated) /\ old' = old
    BY <1>7 DEF SeekPrime, Goto, Stay
  <2>5. Owned(opened', d'.current, old'.current)
    BY <1>2, <2>1, <2>2, <2>3, <2>4, OwnedMoved
  <2>6. "seek local" \in Places \cap SeekPlaces
    BY DEF Places, SeekPlaces
  <2> QED
    BY <1>1, <1>2, <1>3, <2>1, <2>3, <2>4, <2>5, <2>6, GotoPreserves
<1>8. CASE SeekLocal(t)
  <2>1. d.current # 0
    BY <1>1, <1>8, BusyFacts DEF SeekLocal, At
  <2>2. PICK at : opened' = IF old.current = 0 THEN MoveDemuxer(d.current, at, opened)
                            ELSE CloseDemuxer(old.current, MoveDemuxer(d.current, at, opened))
    BY <1>8 DEF SeekLocal
  <2>3. d' = d /\ Return(t)
    BY <1>8 DEF SeekLocal
  <2>4. Owned(MoveDemuxer(d.current, at, opened), d.current, old.current)
    BY <1>2, <2>1, OwnedMoved
  <2>5. Owned(opened', d.current, 0)
    <3>1. CASE old.current = 0
      BY <2>2, <2>4, <3>1
    <3>2. CASE old.current # 0
      BY <2>2, <2>4, <3>2, OwnedSwapped, OwnedClosed
    <3> QED
      BY <3>1, <3>2
  <2> QED
    BY <1>1, <1>2, <1>3, <2>3, <2>5, ReturnPreserves
<1>9. CASE SeekFail(t)
  <2>1. /\ opened' = IF d.current # 0 THEN CloseDemuxer(d.current, opened) ELSE opened
        /\ call[t].at \in SeekPlaces
    BY <1>9 DEF SeekFail, At, SeekPlaces
  <2>2. Owned(opened', 0, old.current)
    BY <1>2, <2>1, OwnedClosed
  <2>3. Owned(opened', old.current, 0)
    BY <2>2, OwnedSwapped
  <2> QED
    BY <1>1, <1>9, <2>1, <2>3, SeekGoesBack DEF SeekFail
<1>10. CASE SeekIncompatible(t)
  <2>1. d.current = 0 /\ call[t].at \in SeekPlaces
    BY <1>1, <1>10, BusyFacts DEF SeekIncompatible, At, SeekPlaces
  <2>2. Owned(opened', old.current, 0)
    BY <1>2, <1>10, <2>1, OwnedRejected, OwnedSwapped DEF SeekIncompatible, RejectStreams
  <2> QED
    BY <1>1, <1>10, <2>1, <2>2, SeekGoesBack DEF SeekIncompatible
<1> QED
  BY <1>4, <1>5, <1>6, <1>7, <1>8, <1>9, <1>10 DEF SeekStep

-----------------------------------------------------------------------------
(* The way into an operation, and Close.                                   *)
LEMMA CheckPreserves ==
    ASSUME DashInv, NEW t \in Ops, Check(t)
    PROVE  DashInv'
<1>1. pc[t] = "in" /\ call[t].at = "start" /\ call[t].kind # "close" /\ UNCHANGED <<d, opened>>
  BY DEF Check, At
<1>2. call[t].at \notin SeekPlaces
  BY <1>1 DEF SeekPlaces
<1>3. CASE closed
  BY <1>1, <1>2, <1>3, OnlyReturns DEF Check
<1>4. CASE ~closed
  <2>1. PICK where \in {"seek", "read"} : Goto(t, where)
    BY <1>1, <1>4 DEF Check
  <2>2. where \in Places \ SeekPlaces
    BY DEF Places, SeekPlaces
  <2> QED
    BY <1>1, <1>2, <1>4, <2>1, <2>2, OnlyGoes DEF Finished
<1> QED
  BY <1>3, <1>4

LEMMA ClosePreserves ==
    ASSUME DashInv, NEW t \in Ops, CloseCurrent(t)
    PROVE  DashInv'
<1>1. /\ pc[t] = "in" /\ call[t].at = "start" /\ call[t].kind = "close" /\ Return(t) /\ d' = d
      /\ opened' = IF d.current # 0 THEN CloseDemuxer(d.current, opened) ELSE opened
  BY DEF CloseCurrent, At
<1>2. IInv'
  <2>1. [Next]_vars
    BY <1>1 DEF Return, Next
  <2> QED
    BY <2>1, StepInvariant DEF DashInv
<1>3. /\ pc'[t] = "out" /\ cancelled' = cancelled
      /\ \A u \in Ops : u # t => (pc'[u] = "out" <=> pc[u] = "out") /\ pc'[u] # "in"
  BY <1>1, Released DEF Return, Unlock, DashInv
<1>4. /\ closed' = closed /\ show' = show /\ old' = NoSeek
      /\ call' = [call EXCEPT ![t] = Idle]
  BY <1>1 DEF Return, Inside
<1>5. Shapes'
  BY <1>1, <1>4 DEF DashInv, Shapes, Idle
<1>6. /\ \A u \in Ops : call'[u] = IF u = t THEN Idle ELSE call[u]
      /\ Idle.kind = "none" /\ Idle.at = "nowhere"
  BY <1>4 DEF DashInv, Shapes, Idle
<1>7. \A u \in Ops : call[u].at \in {"start", "nowhere"}
  BY <1>1, Alone DEF DashInv, Phases
<1>8. OneCloser
  BY DEF DashInv, Phases
<1>9. \A u \in Ops : call'[u].at \in {"start", "nowhere"} /\ call'[u].kind # "close"
  BY <1>1, <1>6, <1>7, <1>8 DEF OneCloser
<1>10. Phases'
  <2>1. \A u \in Ops : pc'[u] = "out" <=> call'[u].kind = "none"
    BY <1>3, <1>6 DEF DashInv, Phases
  <2>2. OneCloser' /\ old'.current = 0
    BY <1>4, <1>9 DEF OneCloser, NoSeek
  <2> QED
    BY <1>9, <2>1, <2>2 DEF Phases
<1>11. ~Finished /\ closed
  BY <1>1 DEF DashInv, Phases, Finished
<1>12. old.current = 0
  <2>1. \A u \in Ops : call[u].at \notin SeekPlaces
    BY <1>7 DEF SeekPlaces
  <2> QED
    BY <2>1 DEF DashInv, Phases
<1>13. Owned(opened', 0, 0)
  <2>1. Owned(opened, d.current, 0)
    BY <1>11, <1>12 DEF DashInv, Ownership
  <2> QED
    BY <1>1, <2>1, OwnedClosed
<1>14. Finished'
  BY <1>4, <1>9, <1>11 DEF Finished
<1>15. Ownership'
  <2>1. \A i \in DOMAIN opened' : opened'[i].closes = 1
    BY <1>13 DEF Owned, IsOpened
  <2>2. \A u \in Ops : ~Busy(u)'
    BY <1>9 DEF Busy
  <2> QED
    BY <1>14, <2>1, <2>2 DEF Ownership
<1>16. OwnInit'
  BY <1>1, <1>4 DEF DashInv, OwnInit, InitOf
<1> QED
  BY <1>2, <1>5, <1>10, <1>15, <1>16 DEF DashInv

\* Steps outside of the lock leave the demuxer alone.
LEMMA OutsidePreserves ==
    ASSUME DashInv, IInv', Shapes', Phases', Finished' <=> Finished,
           \A t \in Ops : Busy(t)' => Busy(t), UNCHANGED <<d, old, show, opened>>
    PROVE  DashInv'
<1>1. Ownership'
  BY DEF DashInv, Ownership
<1>2. OwnInit'
  BY DEF DashInv, OwnInit, InitOf
<1> QED
  BY <1>1, <1>2 DEF DashInv

LEMMA CallPreserves ==
    ASSUME DashInv, NEW t \in Ops, NEW kind \in {"read", "seek", "seek back", "close"}, NEW target,
           Call(t, kind, target)
    PROVE  DashInv'
<1>1. CASE UNCHANGED <<mutexVars, call, closed>>
  <2>1. IInv'
    BY <1>1, StepInvariant DEF DashInv, mutexVars, vars
  <2>2. Shapes' /\ Phases' /\ (Finished' <=> Finished) /\ \A u \in Ops : Busy(u)' <=> Busy(u)
    BY <1>1 DEF Call, DashInv, Shapes, Phases, OneCloser, Finished, Busy, mutexVars
  <2> QED
    BY <2>1, <2>2, OutsidePreserves DEF Call
<1>2. CASE /\ kind # "close" \/ ~closed
           /\ Enter(t)
           /\ call' = [call EXCEPT ![t] = [Idle EXCEPT !.kind = kind, !.target = target, !.at = "start"]]
           /\ closed' = (closed \/ kind = "close")
  <2> DEFINE new == [kind |-> kind, target |-> target, at |-> "start", updated |-> NoUpdate]
  <2>1. IInv'
    BY <1>2, StepInvariant DEF DashInv, Next
  <2>2. /\ cancelled' = cancelled \ {t} /\ pc[t] = "out" /\ pc'[t] \in {"holding", "queued"}
        /\ \A u \in Ops : u # t => pc'[u] = pc[u]
    BY <1>2 DEF Enter, DashInv, IInv, TypeOK
  <2>3. call[t].kind = "none" /\ call' = [call EXCEPT ![t] = new]
    BY <1>2, <2>2 DEF Call, Idle
  <2>4. \A u \in Ops : call'[u] = IF u = t THEN new ELSE call[u]
    BY <2>3 DEF DashInv, Shapes
  <2>5. Shapes'
    <3>1. closed' \in BOOLEAN /\ d' = d
      BY <1>2 DEF Call
    <3> QED
      BY <2>3, <3>1 DEF DashInv, Shapes, IsDemuxer
  <2>6. new.kind = kind /\ new.at = "start"
    OBVIOUS
  <2> HIDE DEF new
  <2>7. closed => closed'
    BY <1>2
  <2>8. kind = "close" => closed' /\ \A u \in Ops : call[u].kind # "close"
    BY <1>2 DEF DashInv, Phases
  <2>9. Phases'
    <3>1. \A u \in Ops :
             /\ pc'[u] = "out" <=> call'[u].kind = "none"
             /\ call'[u].at \notin {"start", "nowhere"} => pc'[u] = "in"
      BY <2>2, <2>4, <2>6 DEF DashInv, Phases
    <3>2. \A u \in Ops : call'[u].kind = "close" => call'[u].at = "start" /\ u \notin cancelled'
      BY <2>2, <2>4, <2>6 DEF DashInv, Phases
    <3>3. \A u \in Ops : call'[u].kind = "close" => closed'
      BY <2>4, <2>6, <2>7, <2>8 DEF DashInv, Phases
    <3>4. d' = d /\ old' = old
      BY DEF Call
    <3>5. \A u \in Ops : /\ call'[u].at = "seek open" => d'.current = 0
                         /\ call'[u].at \in {"seek prime", "seek local"} => d'.current # 0
      BY <2>4, <2>6, <3>4 DEF DashInv, Phases
    <3>6. (\A u \in Ops : call'[u].at \notin SeekPlaces) => old'.current = 0
      <4>1. call[t].at \notin SeekPlaces
        BY <2>2 DEF DashInv, Phases, SeekPlaces
      <4> QED
        BY <2>4, <3>4, <4>1 DEF DashInv, Phases
    <3>7. OneCloser'
      <4>1. OneCloser
        BY DEF DashInv, Phases
      <4> QED
        BY <2>4, <2>6, <2>8, <4>1 DEF OneCloser
    <3> QED
      BY <3>1, <3>2, <3>3, <3>5, <3>6, <3>7 DEF Phases
  <2>10. Finished' <=> Finished
    BY <1>2, <2>3, <2>4, <2>6, <2>8 DEF Finished
  <2>11. \A u \in Ops : Busy(u)' => Busy(u)
    BY <2>2, <2>4, <2>6 DEF Busy
  <2> QED
    BY <2>1, <2>5, <2>9, <2>10, <2>11, OutsidePreserves DEF Call
<1> QED
  BY <1>1, <1>2 DEF Call

LEMMA CancelPreserves ==
    ASSUME DashInv, NEW t \in Ops, CancelCall(t)
    PROVE  DashInv'
<1>1. IInv'
  BY StepInvariant DEF CancelCall, DashInv, Next
<1>2. cancelled' = cancelled \cup {t} /\ pc' = pc /\ call[t].kind # "close" /\ UNCHANGED <<call, closed, d, old>>
  BY DEF CancelCall, Cancel
<1>3. Shapes' /\ Phases' /\ (Finished' <=> Finished) /\ \A u \in Ops : Busy(u)' <=> Busy(u)
  BY <1>2 DEF DashInv, Shapes, Phases, OneCloser, Finished, Busy
<1> QED
  BY <1>1, <1>3, OutsidePreserves DEF CancelCall

\* Inside opMu.lock an operation is let in, or gives up and is Idle.
LEMMA LockPreserves ==
    ASSUME DashInv, NEW t \in Ops, Lock(t)
    PROVE  DashInv'
<1>1. IInv'
  BY StepInvariant DEF Lock, DashInv, Next
<1>2. /\ cancelled' = cancelled /\ pc[t] \in {"queued", "holding"}
      /\ UNCHANGED <<closed, d, old, show, opened>>
  BY DEF Lock, Abandon, Admit, Refuse
<1>3. \A u \in Ops : u # t => (pc'[u] = "out" <=> pc[u] = "out") /\ (pc'[u] = "in" <=> pc[u] = "in")
  <2>1. CASE Refuse(t)
    <3>1. pc[t] = "holding" /\ \A u \in Ops : u # t => pc[u] # "in"
      BY <2>1 DEF Refuse, DashInv, IInv, TokenHasOwner
    <3> QED
      BY <2>1, <3>1, Released DEF Refuse, DashInv
  <2> QED
    BY <2>1 DEF Lock, Abandon, Admit, DashInv, IInv, TypeOK
<1>4. pc'[t] \in {"out", "in"} /\ (pc'[t] = "out" => t \in cancelled)
  <2>1. CASE Refuse(t)
    BY <2>1, Released DEF Refuse, DashInv
  <2> QED
    BY <2>1 DEF Lock, Abandon, Admit, DashInv, IInv, TypeOK
<1>5. call[t].at \in {"start", "nowhere"}
  BY <1>2 DEF DashInv, Phases
<1>6. CASE pc'[t] = "out"
  <2>1. call' = [call EXCEPT ![t] = Idle]
    BY <1>6 DEF Lock
  <2>2. call[t].kind # "close"
    BY <1>4, <1>6 DEF DashInv, Phases
  <2>3. /\ \A u \in Ops : call'[u] = IF u = t THEN Idle ELSE call[u]
        /\ Idle.kind = "none" /\ Idle.at = "nowhere"
    BY <2>1 DEF DashInv, Shapes, Idle
  <2>4. Shapes'
    BY <1>2, <2>1 DEF DashInv, Shapes, IsDemuxer, Idle
  <2>5. Phases'
    <3>1. \A u \in Ops :
             /\ pc'[u] = "out" <=> call'[u].kind = "none"
             /\ call'[u].at \notin {"start", "nowhere"} => pc'[u] = "in"
             /\ call'[u].at = "seek open" => d'.current = 0
             /\ call'[u].at \in {"seek prime", "seek local"} => d'.current # 0
      BY <1>2, <1>3, <1>6, <2>3 DEF DashInv, Phases
    <3>2. \A u \in Ops : call'[u].kind = "close" => call'[u].at = "start" /\ u \notin cancelled'
      BY <1>2, <2>3 DEF DashInv, Phases
    <3>3. \A u \in Ops : call'[u].kind = "close" => closed'
      BY <1>2, <2>3 DEF DashInv, Phases
    <3>4. (\A u \in Ops : call'[u].at \notin SeekPlaces) => old'.current = 0
      <4>1. call[t].at \notin SeekPlaces
        BY <1>5 DEF SeekPlaces
      <4> QED
        BY <1>2, <2>3, <4>1 DEF DashInv, Phases
    <3>5. OneCloser'
      <4>1. OneCloser
        BY DEF DashInv, Phases
      <4> QED
        BY <2>3, <4>1 DEF OneCloser
    <3> QED
      BY <3>1, <3>2, <3>3, <3>4, <3>5 DEF Phases
  <2>6. Finished' <=> Finished
    BY <1>2, <2>1, <2>2, <2>3, FinishedKept DEF DashInv
  <2>7. \A u \in Ops : Busy(u)' => Busy(u)
    BY <1>3, <2>3 DEF Busy
  <2> QED
    BY <1>1, <1>2, <2>4, <2>5, <2>6, <2>7, OutsidePreserves
<1>7. CASE pc'[t] # "out"
  <2>1. call' = call /\ pc[t] # "out"
    BY <1>2, <1>7 DEF Lock, DashInv, Shapes
  <2>2. Shapes' /\ (Finished' <=> Finished)
    BY <1>2, <2>1 DEF DashInv, Shapes, IsDemuxer, Finished
  <2>3. Phases'
    BY <1>2, <1>3, <1>5, <1>7, <2>1 DEF DashInv, Phases, OneCloser
  <2>4. \A u \in Ops : Busy(u)' => Busy(u)
    BY <1>3, <1>5, <2>1 DEF Busy
  <2> QED
    BY <1>1, <1>2, <2>2, <2>3, <2>4, OutsidePreserves
<1> QED
  BY <1>6, <1>7

-----------------------------------------------------------------------------
LEMMA DashInitInvariant == DashInit => DashInv
<1> SUFFICES ASSUME DashInit PROVE DashInv
  OBVIOUS
<1>1. IInv
  BY InitInvariant DEF DashInit
<1>2. Shapes
  BY DEF DashInit, Shapes, IsDemuxer, Idle
<1>3. pc = [t \in Ops |-> "out"] /\ call = [t \in Ops |-> Idle] /\ Idle.kind = "none" /\ Idle.at = "nowhere"
  BY DEF DashInit, Init, Idle
<1>4. d.current = 1 /\ old.current = 0 /\ closed = FALSE /\ HasInit(d)
  BY DEF DashInit, NoSeek, HasInit
<1>5. Phases
  BY <1>3, <1>4 DEF Phases, OneCloser
<1>6. Owned(opened, 1, 0)
  <2>1. Owned(<<>>, 0, 0)
    BY EmptySeq DEF Owned, IsOpened
  <2>2. opened = Append(<<>>, NewDemuxer(1)) /\ Len(<<>>) + 1 = 1
    BY DEF DashInit
  <2> QED
    BY <2>1, <2>2, OwnedCreated
<1> QED
  BY <1>1, <1>2, <1>4, <1>5, <1>6 DEF DashInv, Ownership, Finished, OwnInit, HasInit

LEMMA DashStepInvariant == DashInv /\ [DashNext]_dashVars => DashInv'
<1> SUFFICES ASSUME DashInv, [DashNext]_dashVars PROVE DashInv'
  OBVIOUS
<1>1. ASSUME UNCHANGED <<mutexVars, call, closed, d, old, show, opened>> PROVE DashInv'
  <2>1. IInv'
    BY <1>1, StepInvariant DEF DashInv, mutexVars, vars
  <2>2. Shapes' /\ Phases' /\ (Finished' <=> Finished) /\ \A u \in Ops : Busy(u)' <=> Busy(u)
    BY <1>1 DEF DashInv, Shapes, Phases, OneCloser, Finished, Busy, mutexVars
  <2> QED
    BY <1>1, <2>1, <2>2, OutsidePreserves
<1>2. CASE UNCHANGED dashVars
  BY <1>1, <1>2 DEF dashVars
<1>3. CASE Server
  BY <1>1, <1>3 DEF Server
<1>4. ASSUME NEW t \in Ops, NEW kind \in KindsOf[t], NEW target, Call(t, kind, target) PROVE DashInv'
  <2>1. kind \in {"read", "seek", "seek back", "close"}
    BY DASHAssumption
  <2> QED
    BY <1>4, <2>1, CallPreserves
<1>5. ASSUME NEW t \in Ops,
             CancelCall(t) \/ Lock(t) \/ Check(t) \/ ReadStep(t) \/ SeekStep(t) \/ CloseCurrent(t)
      PROVE  DashInv'
  BY <1>5, CancelPreserves, LockPreserves, CheckPreserves, ReadPreserves, SeekPreserves, ClosePreserves
<1> QED
  BY <1>2, <1>3, <1>4, <1>5 DEF DashNext

(* The invariant of every run of the demuxer.                              *)
THEOREM DashInvariance == DashSpec => []DashInv
<1>1. DashInit => DashInv
  BY DashInitInvariant
<1>2. DashInv /\ [DashNext]_dashVars => DashInv'
  BY DashStepInvariant
<1> QED
  BY <1>1, <1>2, PTL DEF DashSpec

(* The lock's token always has an owner, however operations end: with a    *)
(* result, with an error, or without having been let in.                   *)
THEOREM DashTokenOwned == DashSpec => []TokenHasOwner
<1>1. DashInv => TokenHasOwner
  BY DEF DashInv, IInv
<1> QED
  BY <1>1, DashInvariance, PTL

(* No operation past its check of d.closed works with a segment demuxer    *)
(* that was closed; once Close is done each was closed exactly once; while *)
(* nobody is inside only the current one is open; and a representation     *)
(* that names an initialization segment never takes the place of another   *)
(* without it, whichever representations have one and whatever fails.      *)
THEOREM NothingLeaks == DashSpec => []NoneLeaks
<1>1. DashInv => NoneLeaks
  <2> SUFFICES ASSUME DashInv PROVE NoneLeaks
    OBVIOUS
  <2>1. \A t \in Ops : Busy(t) => ~Finished
    BY DEF DashInv, Ownership
  <2>2. ASSUME ~Finished
        PROVE  /\ d.current # 0 => opened[d.current].closes = 0
               /\ old.current # 0 => opened[old.current].closes = 0
    <3>1. Owned(opened, d.current, old.current)
      BY <2>2 DEF DashInv, Ownership
    <3>2. DOMAIN opened = 1 .. Len(opened) /\ Len(opened) \in Nat
      BY <3>1, LenProperties DEF Owned, IsOpened
    <3> QED
      BY <3>1, <3>2 DEF Owned
  <2>3. NoUseAfterClose
    BY <2>1, <2>2 DEF NoUseAfterClose
  <2>4. ASSUME closed, \A t \in Ops : pc[t] = "out"
        PROVE  \A i \in DOMAIN opened : opened[i].closes = 1
    <3>1. Finished
      BY <2>4 DEF Finished, DashInv, Phases
    <3> QED
      BY <3>1 DEF DashInv, Ownership
  <2>5. ASSUME ~closed, gate = None
        PROVE  \A i \in DOMAIN opened : opened[i].closes = 0 <=> i = d.current
    <3>1. \A t \in Ops : pc[t] # "in"
      BY <2>5, MutexAssumption DEF DashInv, IInv, TokenHasOwner
    <3>2. \A t \in Ops : call[t].at \notin SeekPlaces
      BY <3>1 DEF DashInv, Phases, SeekPlaces
    <3>3. old.current = 0
      BY <3>2 DEF DashInv, Phases
    <3>4. Owned(opened, d.current, 0)
      BY <2>5, <3>3 DEF DashInv, Ownership, Finished
    <3>5. DOMAIN opened = 1 .. Len(opened) /\ Len(opened) \in Nat
      BY <3>4, LenProperties DEF Owned, IsOpened
    <3> QED
      BY <3>4, <3>5 DEF Owned
  <2> QED
    BY <2>3, <2>4, <2>5 DEF NoneLeaks, DashInv
<1> QED
  BY <1>1, DashInvariance, PTL

=============================================================================
