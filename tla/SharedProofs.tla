---------------------------- MODULE SharedProofs ----------------------------
(***************************************************************************)
(* Proofs about what the HLS demuxer, the DASH demuxer and the HTTP source *)
(* share.                                                                  *)
(*                                                                         *)
(* ContextMutex, for any number of callers, any of which may be            *)
(* cancellable: at most one operation is past the lock, and the token in   *)
(* the channel always has an owner that will take it out again.            *)
(*                                                                         *)
(* SegmentDemuxers: which segment demuxers are open, and what making,      *)
(* moving and closing one does to that.                                    *)
(*                                                                         *)
(* The natural numbers: the least of a set, and induction over a set.      *)
(***************************************************************************)
EXTENDS ContextMutex, SegmentDemuxers, SequenceTheorems, WellFoundedInduction, TLAPS

\* Every nonempty set of natural numbers has a least element.
LEMMA LeastNatural ==
    ASSUME NEW T, T \subseteq Nat, T # {}
    PROVE  \E n \in T : \A k \in T : n <= k
<1> DEFINE R == OpToRel(<, Nat)
<1>1. IsWellFoundedOn(R, Nat)
  BY NatLessThanWellFounded
<1>2. \A x, y \in Nat : <<y, x>> \in R <=> y < x
  BY DEF OpToRel
<1> HIDE DEF R
<1>3. PICK x \in T : \A y \in T : ~(<<y, x>> \in R)
  BY <1>1, WFMin
<1>4. ASSUME NEW k \in T
      PROVE  x <= k
  <2>1. x \in Nat /\ k \in Nat
    OBVIOUS
  <2>2. ~(k < x)
    BY <1>2, <1>3, <2>1
  <2> QED
    BY <2>1, <2>2
<1> QED
  BY <1>4

\* A set of natural numbers with 0 and the successors of its elements, up to n, has n.
LEMMA Induction ==
    ASSUME NEW Q, NEW n \in Nat, 0 \in Q, \A k \in 1 .. n : k - 1 \in Q => k \in Q
    PROVE  n \in Q
<1> DEFINE Bad == {k \in 0 .. n : k \notin Q}
<1> SUFFICES ASSUME Bad # {} PROVE FALSE
  OBVIOUS
<1>1. PICK k \in Bad : \A l \in Bad : k <= l
  <2>1. Bad \subseteq Nat
    OBVIOUS
  <2> HIDE DEF Bad
  <2> QED
    BY <2>1, LeastNatural
<1>2. k \in 1 .. n /\ k - 1 \in 0 .. n /\ k - 1 \notin Bad
  BY <1>1
<1> QED
  BY <1>2

-----------------------------------------------------------------------------
\* The queue holds blocked senders, each once.
QueueOfWaiters ==
    /\ \A i \in DOMAIN waiting : pc[waiting[i]] = "queued"
    /\ \A i, j \in DOMAIN waiting : waiting[i] = waiting[j] => i = j
    /\ \A o \in Ops : pc[o] = "queued" => \E i \in DOMAIN waiting : waiting[i] = o

IInv == TypeOK /\ TokenHasOwner /\ QueueOfWaiters

-----------------------------------------------------------------------------
(* What is left of a sequence without distinct elements repeated when one  *)
(* of them is taken out: the others, in order.                             *)
LEMMA WithoutOne ==
    ASSUME NEW S, NEW s \in Seq(S), NEW o \in S,
           \A i, j \in DOMAIN s : s[i] = s[j] => i = j,
           \E i \in DOMAIN s : s[i] = o
    PROVE  LET r == Without(s, o) IN
           /\ r \in Seq(S)
           /\ \A k \in DOMAIN r : r[k] # o /\ \E i \in DOMAIN s : r[k] = s[i]
           /\ \A k, l \in DOMAIN r : r[k] = r[l] => k = l
           /\ \A i \in DOMAIN s : s[i] # o => \E k \in DOMAIN r : r[k] = s[i]
<1> DEFINE at == CHOOSE j \in DOMAIN s : s[j] = o
           front == SubSeq(s, 1, at - 1)
           back == SubSeq(s, at + 1, Len(s))
           r == front \o back
<1>1. at \in DOMAIN s /\ s[at] = o
  OBVIOUS
<1>2. at \in 1 .. Len(s) /\ Len(s) \in Nat /\ DOMAIN s = 1 .. Len(s)
  BY <1>1
<1>3. /\ front \in Seq(S) /\ Len(front) = at - 1
      /\ \A k \in 1 .. at - 1 : front[k] = s[k]
  BY <1>2, SubSeqProperties
<1>4. /\ back \in Seq(S) /\ Len(back) = Len(s) - at
      /\ \A k \in 1 .. Len(s) - at : back[k] = s[at + k]
  BY <1>2, SubSeqProperties
<1> HIDE DEF at, front, back
<1>5. /\ r \in Seq(S) /\ Len(r) = Len(s) - 1
      /\ \A k \in 1 .. Len(s) - 1 : r[k] = IF k < at THEN s[k] ELSE s[k + 1]
  <2>1. r \in Seq(S) /\ Len(r) = Len(front) + Len(back)
    BY <1>3, <1>4, ConcatProperties
  <2>2. \A k \in 1 .. Len(front) + Len(back) :
            r[k] = IF k <= Len(front) THEN front[k] ELSE back[k - Len(front)]
    BY <1>3, <1>4, ConcatProperties
  <2>3. ASSUME NEW k \in 1 .. Len(s) - 1
        PROVE  r[k] = IF k < at THEN s[k] ELSE s[k + 1]
    <3>1. CASE k < at
      BY <3>1, <2>2, <1>2, <1>3, <1>4
    <3>2. CASE ~(k < at)
      <4>1. k - (at - 1) \in 1 .. Len(s) - at
        BY <3>2, <1>2
      <4>2. r[k] = back[k - (at - 1)]
        BY <3>2, <2>2, <1>2, <1>3, <1>4
      <4>3. back[k - (at - 1)] = s[at + (k - (at - 1))]
        BY <4>1, <1>4
      <4>4. at + (k - (at - 1)) = k + 1
        BY <1>2
      <4> QED
        BY <3>2, <4>2, <4>3, <4>4
    <3> QED
      BY <3>1, <3>2
  <2> QED
    BY <2>1, <2>3, <1>2, <1>3, <1>4
<1> HIDE DEF r
<1>6. ASSUME NEW k \in 1 .. Len(s) - 1
      PROVE  \E i \in DOMAIN s : i # at /\ r[k] = s[i] /\ i = IF k < at THEN k ELSE k + 1
  BY <1>2, <1>5
<1>7. DOMAIN r = 1 .. Len(s) - 1
  BY <1>2, <1>5
<1>8. \A k \in DOMAIN r : r[k] # o /\ \E i \in DOMAIN s : r[k] = s[i]
  BY <1>1, <1>6, <1>7
<1>9. ASSUME NEW k \in DOMAIN r, NEW l \in DOMAIN r, r[k] = r[l]
      PROVE  k = l
  <2>1. PICK i \in DOMAIN s : r[k] = s[i] /\ i = IF k < at THEN k ELSE k + 1
    BY <1>6, <1>7
  <2>2. PICK j \in DOMAIN s : r[l] = s[j] /\ j = IF l < at THEN l ELSE l + 1
    BY <1>6, <1>7
  <2>3. i = j
    BY <1>9, <2>1, <2>2
  <2> QED
    BY <2>1, <2>2, <2>3, <1>2, <1>7
<1>10. ASSUME NEW i \in DOMAIN s, s[i] # o
       PROVE  \E k \in DOMAIN r : r[k] = s[i]
  <2>1. i # at /\ i \in 1 .. Len(s)
    BY <1>1, <1>2, <1>10
  <2>2. CASE i < at
    <3>1. i \in 1 .. Len(s) - 1 /\ r[i] = s[i]
      BY <2>1, <2>2, <1>2, <1>5
    <3> QED
      BY <3>1, <1>7
  <2>3. CASE i > at
    <3>1. i - 1 \in 1 .. Len(s) - 1 /\ ~(i - 1 < at) /\ (i - 1) + 1 = i
      BY <2>1, <2>3, <1>2
    <3>2. r[i - 1] = s[i]
      BY <3>1, <1>5
    <3> QED
      BY <3>1, <3>2, <1>7
  <2> QED
    BY <2>1, <2>2, <2>3, <1>2
<1>11. Without(s, o) = r
  BY DEF Without, r, front, back, at
<1> QED
  BY <1>5, <1>8, <1>9, <1>10, <1>11

-----------------------------------------------------------------------------
LEMMA InitInvariant == Init => IInv
BY MutexAssumption, EmptySeq DEF Init, IInv, TypeOK, TokenHasOwner, QueueOfWaiters

(* Taking the token out hands it to the head of the queue.                 *)
LEMMA ReleaseInvariant ==
    ASSUME IInv, NEW o \in Ops, pc[o] \in {"holding", "in"}, Release(o), UNCHANGED cancelled
    PROVE  IInv'
<1> USE MutexAssumption DEF IInv, TypeOK
<1>1. gate = o /\ \A p \in Ops : p # o => pc[p] \in {"out", "queued"}
  BY DEF TokenHasOwner
<1>2. CASE waiting = <<>>
  <2>1. gate' = None /\ waiting' = <<>> /\ pc' = [pc EXCEPT ![o] = "out"]
    BY <1>2 DEF Release
  <2>2. TypeOK'
    BY <2>1
  <2>3. TokenHasOwner'
    BY <2>1, <1>1 DEF TokenHasOwner
  <2>4. QueueOfWaiters'
    BY <2>1, <1>2 DEF QueueOfWaiters
  <2> QED
    BY <2>2, <2>3, <2>4
<1>3. CASE waiting # <<>>
  <2> DEFINE h == Head(waiting)
  <2>1. /\ h \in Ops /\ Tail(waiting) \in Seq(Ops)
        /\ 1 \in DOMAIN waiting /\ h = waiting[1]
        /\ Len(Tail(waiting)) = Len(waiting) - 1
        /\ \A i \in 1 .. Len(waiting) - 1 : Tail(waiting)[i] = waiting[i + 1]
    BY <1>3, HeadTailProperties
  <2>2. pc[h] = "queued" /\ h # o
    BY <2>1 DEF QueueOfWaiters
  <2>3. gate' = h /\ waiting' = Tail(waiting)
        /\ pc' = [pc EXCEPT ![o] = "out", ![h] = "holding"]
    BY <1>3 DEF Release
  <2> HIDE DEF h
  <2>4. TypeOK'
    BY <2>1, <2>3
  <2>5. TokenHasOwner'
    BY <2>1, <2>2, <2>3, <1>1 DEF TokenHasOwner
  <2>6. DOMAIN waiting' = 1 .. Len(waiting) - 1 /\ DOMAIN waiting = 1 .. Len(waiting)
    BY <2>1, <2>3
  <2>7. ASSUME NEW i \in DOMAIN waiting'
        PROVE  i + 1 \in DOMAIN waiting /\ waiting'[i] = waiting[i + 1] /\ waiting'[i] # h
    BY <2>1, <2>3, <2>6 DEF QueueOfWaiters
  <2>8. \A i \in DOMAIN waiting' : pc'[waiting'[i]] = "queued"
    <3> SUFFICES ASSUME NEW i \in DOMAIN waiting' PROVE pc'[waiting'[i]] = "queued"
      OBVIOUS
    <3>1. pc[waiting'[i]] = "queued" /\ waiting'[i] \in Ops
      BY <2>7 DEF QueueOfWaiters
    <3> QED
      BY <3>1, <2>3, <2>7
  <2>9. \A i, j \in DOMAIN waiting' : waiting'[i] = waiting'[j] => i = j
    <3> SUFFICES ASSUME NEW i \in DOMAIN waiting', NEW j \in DOMAIN waiting',
                        waiting'[i] = waiting'[j]
                 PROVE  i = j
      OBVIOUS
    <3>1. i + 1 = j + 1
      BY <2>7 DEF QueueOfWaiters
    <3> QED
      BY <3>1, <2>6
  <2>10. \A p \in Ops : pc'[p] = "queued" => \E i \in DOMAIN waiting' : waiting'[i] = p
    <3> SUFFICES ASSUME NEW p \in Ops, pc'[p] = "queued"
                 PROVE  \E i \in DOMAIN waiting' : waiting'[i] = p
      OBVIOUS
    <3>1. pc[p] = "queued" /\ p # h
      BY <2>1, <2>2, <2>3
    <3>2. PICK i \in DOMAIN waiting : waiting[i] = p
      BY <3>1 DEF QueueOfWaiters
    <3>3. i - 1 \in DOMAIN waiting' /\ waiting'[i - 1] = p
      BY <3>1, <3>2, <2>1, <2>3, <2>6
    <3> QED
      BY <3>3
  <2> QED
    BY <2>4, <2>5, <2>8, <2>9, <2>10 DEF QueueOfWaiters
<1> QED
  BY <1>2, <1>3

LEMMA StepInvariant == IInv /\ [Next]_vars => IInv'
<1> SUFFICES ASSUME IInv, [Next]_vars PROVE IInv'
  OBVIOUS
<1> USE MutexAssumption DEF IInv, TypeOK
<1>1. ASSUME NEW o \in Ops, Enter(o) PROVE IInv'
  <2>1. CASE gate = None
    <3>1. waiting = <<>> /\ gate' = o /\ pc' = [pc EXCEPT ![o] = "holding"]
          /\ waiting' = waiting /\ cancelled' = cancelled \ {o}
      BY <1>1, <2>1 DEF Enter, TokenHasOwner
    <3>2. TokenHasOwner'
      BY <3>1, <2>1 DEF TokenHasOwner
    <3>3. QueueOfWaiters'
      BY <3>1 DEF QueueOfWaiters
    <3> QED
      BY <3>1, <3>2, <3>3
  <2>2. CASE gate # None
    <3>1. /\ pc[o] = "out" /\ gate' = gate /\ pc' = [pc EXCEPT ![o] = "queued"]
          /\ waiting' = Append(waiting, o) /\ cancelled' = cancelled \ {o}
      BY <1>1, <2>2 DEF Enter
    <3>2. /\ waiting' \in Seq(Ops) /\ Len(waiting') = Len(waiting) + 1
          /\ waiting'[Len(waiting) + 1] = o
          /\ \A i \in 1 .. Len(waiting) : waiting'[i] = waiting[i]
      BY <3>1, AppendProperties
    <3>3. DOMAIN waiting' = 1 .. Len(waiting) + 1 /\ DOMAIN waiting = 1 .. Len(waiting)
          /\ Len(waiting) \in Nat
      BY <3>2
    <3>4. \A i \in DOMAIN waiting : waiting[i] # o /\ waiting[i] \in Ops
      BY <3>1 DEF QueueOfWaiters
    <3>5. TokenHasOwner'
      BY <3>1, <2>2 DEF TokenHasOwner
    <3>6. \A i \in DOMAIN waiting' : pc'[waiting'[i]] = "queued"
      BY <3>1, <3>2, <3>3, <3>4 DEF QueueOfWaiters
    <3>7. \A i, j \in DOMAIN waiting' : waiting'[i] = waiting'[j] => i = j
      BY <3>2, <3>3, <3>4 DEF QueueOfWaiters
    <3>8. \A p \in Ops : pc'[p] = "queued" => \E i \in DOMAIN waiting' : waiting'[i] = p
      BY <3>1, <3>2, <3>3 DEF QueueOfWaiters
    <3> QED
      BY <3>1, <3>2, <3>5, <3>6, <3>7, <3>8 DEF QueueOfWaiters
  <2> QED
    BY <2>1, <2>2
<1>2. ASSUME NEW o \in Ops, Cancel(o) PROVE IInv'
  BY <1>2 DEF Cancel, TokenHasOwner, QueueOfWaiters
<1>3. ASSUME NEW o \in Ops, Abandon(o) PROVE IInv'
  <2>1. /\ pc[o] = "queued" /\ pc' = [pc EXCEPT ![o] = "out"]
        /\ waiting' = Without(waiting, o) /\ gate' = gate /\ cancelled' = cancelled
    BY <1>3 DEF Abandon
  <2>2. /\ waiting' \in Seq(Ops)
        /\ \A k \in DOMAIN waiting' :
              waiting'[k] # o /\ \E i \in DOMAIN waiting : waiting'[k] = waiting[i]
        /\ \A k, l \in DOMAIN waiting' : waiting'[k] = waiting'[l] => k = l
        /\ \A i \in DOMAIN waiting :
              waiting[i] # o => \E k \in DOMAIN waiting' : waiting'[k] = waiting[i]
    <3>1. \E i \in DOMAIN waiting : waiting[i] = o
      BY <2>1 DEF QueueOfWaiters
    <3>2. \A i, j \in DOMAIN waiting : waiting[i] = waiting[j] => i = j
      BY DEF QueueOfWaiters
    <3> QED
      BY <2>1, <3>1, <3>2, WithoutOne
  <2>3. gate # None /\ gate # o
    BY <2>1 DEF TokenHasOwner, QueueOfWaiters
  <2>4. TokenHasOwner'
    BY <2>1, <2>3 DEF TokenHasOwner
  <2>5. \A k \in DOMAIN waiting' : pc'[waiting'[k]] = "queued"
    BY <2>1, <2>2 DEF QueueOfWaiters
  <2>6. \A p \in Ops : pc'[p] = "queued" => \E k \in DOMAIN waiting' : waiting'[k] = p
    BY <2>1, <2>2 DEF QueueOfWaiters
  <2> QED
    BY <2>1, <2>2, <2>4, <2>5, <2>6 DEF QueueOfWaiters
<1>4. ASSUME NEW o \in Ops, Admit(o) PROVE IInv'
  BY <1>4 DEF Admit, TokenHasOwner, QueueOfWaiters
<1>5. ASSUME NEW o \in Ops, Refuse(o) PROVE IInv'
  BY <1>5, ReleaseInvariant DEF Refuse
<1>6. ASSUME NEW o \in Ops, Unlock(o) PROVE IInv'
  BY <1>6, ReleaseInvariant DEF Unlock
<1>7. CASE UNCHANGED vars
  BY <1>7 DEF vars, TokenHasOwner, QueueOfWaiters
<1> QED
  BY <1>1, <1>2, <1>3, <1>4, <1>5, <1>6, <1>7 DEF Next

(* The inductive invariant holds throughout.                               *)
THEOREM Invariance == Spec => []IInv
<1>1. Init => IInv
  BY InitInvariant
<1>2. IInv /\ [Next]_vars => IInv'
  BY StepInvariant
<1> QED
  BY <1>1, <1>2, PTL DEF Spec

(* The state of the lock is well typed.                                    *)
THEOREM TypeCorrect == Spec => []TypeOK
<1>1. IInv => TypeOK
  BY DEF IInv
<1> QED
  BY <1>1, Invariance, PTL

(* The token in the channel belongs to exactly the operation that holds    *)
(* the lock or is about to: no refusal or withdrawal leaks it.             *)
THEOREM TokenOwned == Spec => []TokenHasOwner
<1>1. IInv => TokenHasOwner
  BY DEF IInv
<1> QED
  BY <1>1, Invariance, PTL

(* contextMutex is a lock: two operations are never past it together.      *)
THEOREM Exclusion == Spec => []MutualExclusion
<1>1. IInv => MutualExclusion
  BY DEF IInv, TokenHasOwner, MutualExclusion
<1> QED
  BY <1>1, Invariance, PTL

-----------------------------------------------------------------------------
(* The segment demuxers that are open.                                    *)

IsOpened(all) ==
    /\ all \in Seq(Range(all))
    /\ \A i \in DOMAIN all :
          /\ all[i] = [seg |-> all[i].seg, at |-> all[i].at, closes |-> all[i].closes]
          /\ all[i].closes \in {0, 1}

\* The segment demuxers that are open: the current one, and the one a seek goes back to if it fails.
Owned(all, current, previous) ==
    /\ IsOpened(all)
    /\ current \in 0 .. Len(all) /\ previous \in 0 .. Len(all)
    /\ previous # 0 => previous # current
    /\ \A i \in DOMAIN all : all[i].closes = IF i \in {current, previous} THEN 0 ELSE 1

-----------------------------------------------------------------------------
(* What happens to the list of segment demuxers.                           *)
LEMMA Created ==
    ASSUME NEW all, IsOpened(all), NEW seg, NEW closes \in {0, 1}
    PROVE  LET new == Append(all, [seg |-> seg, at |-> 0, closes |-> closes]) IN
           /\ IsOpened(new) /\ Len(all) \in Nat /\ Len(new) = Len(all) + 1
           /\ DOMAIN all = 1 .. Len(all) /\ DOMAIN new = 1 .. Len(all) + 1
           /\ \A i \in 1 .. Len(all) : new[i].closes = all[i].closes
           /\ new[Len(all) + 1].closes = closes
<1> DEFINE x == [seg |-> seg, at |-> 0, closes |-> closes]
           S == Range(all) \cup {x}
           new == Append(all, x)
<1>1. all \in Seq(S) /\ x \in S
  BY SeqMonotonic DEF IsOpened
<1>2. /\ new \in Seq(S) /\ Len(new) = Len(all) + 1
      /\ \A i \in 1 .. Len(all) : new[i] = all[i]
      /\ new[Len(all) + 1] = x
  BY <1>1, AppendProperties
<1>3. DOMAIN all = 1 .. Len(all) /\ Len(all) \in Nat /\ DOMAIN new = 1 .. Len(all) + 1
  BY <1>1, <1>2
<1> HIDE DEF new
<1>4. new \in Seq(Range(new))
  BY <1>2, <1>3 DEF Range
<1>5. ASSUME NEW i \in DOMAIN new
      PROVE  new[i] = [seg |-> new[i].seg, at |-> new[i].at, closes |-> new[i].closes] /\ new[i].closes \in {0, 1}
  BY <1>2, <1>3 DEF IsOpened
<1> QED
  BY <1>2, <1>3, <1>4, <1>5 DEF IsOpened, new

LEMMA Advanced ==
    ASSUME NEW all, IsOpened(all), NEW i \in DOMAIN all, NEW at
    PROVE  LET new == MoveDemuxer(i, at, all) IN
           /\ IsOpened(new) /\ Len(new) = Len(all) /\ DOMAIN new = DOMAIN all
           /\ \A j \in DOMAIN all : new[j].closes = all[j].closes
<1> DEFINE x == [seg |-> all[i].seg, at |-> at, closes |-> all[i].closes]
           S == Range(all) \cup {x}
           new == [all EXCEPT ![i] = x]
<1>1. all \in Seq(S) /\ x \in S
  BY SeqMonotonic DEF IsOpened
<1>2. DOMAIN all = 1 .. Len(all) /\ Len(all) \in Nat
  BY <1>1
<1>3. new \in Seq(S) /\ Len(new) = Len(all) /\ \A j \in DOMAIN all : new[j] = IF j = i THEN x ELSE all[j]
  BY <1>1, <1>2, ExceptSeq
<1>4. MoveDemuxer(i, at, all) = new
  BY DEF MoveDemuxer
<1> HIDE DEF new
<1>5. DOMAIN new = DOMAIN all
  BY <1>2, <1>3
<1>6. new \in Seq(Range(new))
  BY <1>3, <1>5 DEF Range
<1>7. \A j \in DOMAIN all :
         /\ new[j].closes = all[j].closes
         /\ new[j] = [seg |-> new[j].seg, at |-> new[j].at, closes |-> new[j].closes]
  BY <1>3 DEF IsOpened
<1> QED
  BY <1>3, <1>4, <1>5, <1>6, <1>7 DEF IsOpened

LEMMA ClosedOne ==
    ASSUME NEW all, IsOpened(all), NEW i \in DOMAIN all, all[i].closes = 0
    PROVE  LET new == CloseDemuxer(i, all) IN
           /\ IsOpened(new) /\ Len(new) = Len(all) /\ DOMAIN new = DOMAIN all
           /\ \A j \in DOMAIN all : new[j].closes = IF j = i THEN 1 ELSE all[j].closes
<1> DEFINE x == [seg |-> 0, at |-> 0, closes |-> 1]
           S == Range(all) \cup {x}
           new == [all EXCEPT ![i] = x]
<1>1. all \in Seq(S) /\ x \in S
  BY SeqMonotonic DEF IsOpened
<1>2. DOMAIN all = 1 .. Len(all) /\ Len(all) \in Nat
  BY <1>1
<1>3. new \in Seq(S) /\ Len(new) = Len(all) /\ \A j \in DOMAIN all : new[j] = IF j = i THEN x ELSE all[j]
  BY <1>1, <1>2, ExceptSeq
<1>4. CloseDemuxer(i, all) = new
  BY DEF CloseDemuxer, IsOpened
<1> HIDE DEF new
<1>5. DOMAIN new = DOMAIN all
  BY <1>2, <1>3
<1>6. new \in Seq(Range(new))
  BY <1>3, <1>5 DEF Range
<1>7. \A j \in DOMAIN all :
         /\ new[j].closes = IF j = i THEN 1 ELSE all[j].closes
         /\ new[j] = [seg |-> new[j].seg, at |-> new[j].at, closes |-> new[j].closes]
  BY <1>3 DEF IsOpened
<1> QED
  BY <1>3, <1>4, <1>5, <1>6, <1>7 DEF IsOpened

(* The same for the segment demuxers that are open.                        *)
LEMMA OwnedCreated ==
    ASSUME NEW all, NEW previous, Owned(all, 0, previous), NEW seg
    PROVE  Owned(Append(all, NewDemuxer(seg)), Len(all) + 1, previous) /\ Len(all) + 1 # 0
<1> DEFINE new == Append(all, [seg |-> seg, at |-> 0, closes |-> 0])
<1>1. /\ IsOpened(new) /\ Len(all) \in Nat /\ Len(new) = Len(all) + 1
      /\ DOMAIN all = 1 .. Len(all) /\ DOMAIN new = 1 .. Len(all) + 1
      /\ \A i \in 1 .. Len(all) : new[i].closes = all[i].closes
      /\ new[Len(all) + 1].closes = 0
  BY Created DEF Owned
<1> HIDE DEF new
<1>2. Owned(new, Len(all) + 1, previous) /\ Len(all) + 1 # 0
  BY <1>1 DEF Owned
<1> QED
  BY <1>2 DEF new, NewDemuxer

LEMMA OwnedRejected ==
    ASSUME NEW all, NEW current, NEW previous, Owned(all, current, previous)
    PROVE  Owned(Append(all, ClosedDemuxer), current, previous)
<1> DEFINE new == Append(all, [seg |-> 0, at |-> 0, closes |-> 1])
<1>1. /\ IsOpened(new) /\ Len(all) \in Nat /\ Len(new) = Len(all) + 1
      /\ DOMAIN all = 1 .. Len(all) /\ DOMAIN new = 1 .. Len(all) + 1
      /\ \A i \in 1 .. Len(all) : new[i].closes = all[i].closes
      /\ new[Len(all) + 1].closes = 1
  BY Created DEF Owned
<1> HIDE DEF new
<1>2. Owned(new, current, previous)
  BY <1>1 DEF Owned
<1> QED
  BY <1>2 DEF new, ClosedDemuxer

LEMMA OwnedMoved ==
    ASSUME NEW all, NEW current, NEW previous, Owned(all, current, previous), current # 0, NEW at
    PROVE  Owned(MoveDemuxer(current, at, all), current, previous)
<1>1. current \in DOMAIN all
  BY DEF Owned, IsOpened
<1> QED
  BY <1>1, Advanced DEF Owned

LEMMA OwnedClosed ==
    ASSUME NEW all, NEW current, NEW previous, Owned(all, current, previous), current # 0
    PROVE  Owned(CloseDemuxer(current, all), 0, previous)
<1>1. DOMAIN all = 1 .. Len(all) /\ Len(all) \in Nat /\ current \in DOMAIN all
  BY DEF Owned, IsOpened
<1> QED
  BY <1>1, ClosedOne DEF Owned

LEMMA OwnedSwapped ==
    ASSUME NEW all, NEW current, NEW previous, Owned(all, current, previous)
    PROVE  Owned(all, previous, current)
BY DEF Owned

=============================================================================
