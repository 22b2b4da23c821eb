------------------------------ MODULE HTTPProofs ------------------------------
(***************************************************************************)
(* Proofs about HTTPSource, for a resource of any size, any read-ahead and *)
(* budget of attempts, any buffers and any number of calls: a byte is from *)
(* the resource that was opened if a validator can tell, and otherwise     *)
(* from one version of it per call, never older than the last seek; and    *)
(* consecutive Reads tile the resource, from 0 or from the last Seek.      *)
(***************************************************************************)
EXTENDS HTTPSource, SequenceTheorems, TLAPS

LockProofs == INSTANCE SharedProofs WITH Cancellable <- Ops

Byte == [at : Nat, version : {1, 2}]

CallRecord ==
    [kind : {"none", "read", "readAt", "seek"}, len : Nat, off : Nat,
     at : {"nowhere", "start", "range", "request"}, from : Nat, want : Nat, attempt : Nat]

Entry ==
    [kind : {"none", "read", "readAt", "seek"}, len : Nat, off : Nat, bytes : Seq(Byte),
     result : {"ok", "eof", "error"}, version : {1, 2}]

TypeOK ==
    /\ call \in [Ops -> CallRecord]
    /\ source \in [pos : Nat, ahead : Seq(Byte), aheadAt : Nat]
    /\ validated \in BOOLEAN /\ version \in {1, 2}
    /\ log \in Seq(Entry)

(* A read behind the lock is about the position it found: nobody else      *)
(* moves it while the server answers.                                      *)
Positioned ==
    \A t \in Ops : call[t].at \in {"range", "request"} =>
        /\ call[t].kind \in {"read", "readAt"}
        /\ call[t].kind = "read" => pc[t] = "in" /\ (call[t].at = "request" => call[t].from = source.pos)

(* These bytes may be given to a caller now.                               *)
Fresh(bytes) ==
    \A i \in DOMAIN bytes :
        /\ validated => bytes[i].version = 1
        /\ \A j \in DOMAIN bytes : bytes[j].version = bytes[i].version
        /\ \A m \in DOMAIN log : log[m].kind = "seek" => bytes[i].version >= log[m].version

HttpInv ==
    /\ LockProofs!IInv
    /\ TypeOK
    /\ Positioned
    /\ Fresh(source.ahead)
    /\ \A m \in DOMAIN log : log[m].version <= version
    /\ OneResource

-----------------------------------------------------------------------------
(* Sequences of bytes.                                                     *)
LEMMA BytesFresh ==
    ASSUME TypeOK, \A m \in DOMAIN log : log[m].version <= version, Fits, NEW from \in Nat, NEW n \in Nat
    PROVE  /\ Bytes(version, from, n) \in Seq(Byte) /\ Len(Bytes(version, from, n)) = n
           /\ Fresh(Bytes(version, from, n))
<1> DEFINE bytes == Bytes(version, from, n)
<1>1. bytes \in [1 .. n -> Byte] /\ \A i \in 1 .. n : bytes[i].version = version
  BY DEF Bytes, Byte, TypeOK
<1>2. bytes \in Seq(Byte) /\ Len(bytes) = n /\ DOMAIN bytes = 1 .. n
  BY <1>1, SeqDef
<1> HIDE DEF bytes
<1>3. Fresh(bytes)
  BY <1>1, <1>2 DEF Fresh, Fits, TypeOK, Entry
<1> QED
  BY <1>2, <1>3 DEF bytes

LEMMA PartFresh ==
    ASSUME NEW bytes \in Seq(Byte), Fresh(bytes), NEW first \in Nat, NEW n \in Nat, first + n <= Len(bytes)
    PROVE  /\ SubSeq(bytes, first + 1, first + n) \in Seq(Byte)
           /\ Fresh(SubSeq(bytes, first + 1, first + n))
<1> DEFINE part == SubSeq(bytes, first + 1, first + n)
<1>1. /\ part \in Seq(Byte) /\ Len(part) = n
      /\ \A i \in 1 .. n : part[i] = bytes[first + i]
  BY SubSeqProperties
<1>2. DOMAIN part = 1 .. n /\ DOMAIN bytes = 1 .. Len(bytes) /\ Len(bytes) \in Nat
  BY <1>1
<1> HIDE DEF part
<1>3. \A i \in DOMAIN part : first + i \in DOMAIN bytes
  BY <1>2
<1>4. Fresh(part)
  BY <1>1, <1>2, <1>3 DEF Fresh
<1> QED
  BY <1>1, <1>4 DEF part

-----------------------------------------------------------------------------
LEMMA Alone ==
    ASSUME LockProofs!IInv, NEW t \in Ops, pc[t] = "in", NEW u \in Ops, u # t
    PROVE  pc[u] # "in"
BY DEF LockProofs!IInv, LockProofs!TokenHasOwner

\* Reads at an offset leave the lock as it is, but not their contexts.
LEMMA LockKept ==
    ASSUME LockProofs!IInv, UNCHANGED <<gate, waiting, pc>>, cancelled' \subseteq Ops
    PROVE  LockProofs!IInv'
BY DEF LockProofs!IInv, LockProofs!TypeOK, LockProofs!TokenHasOwner, LockProofs!QueueOfWaiters

LEMMA LockSteps ==
    ASSUME LockProofs!IInv, NEW t \in Ops,
           Mutex!Enter(t) \/ Mutex!Abandon(t) \/ Mutex!Admit(t) \/ Mutex!Refuse(t) \/ Mutex!Unlock(t)
    PROVE  LockProofs!IInv'
<1>1. LockProofs!Next
  BY DEF LockProofs!Next, Mutex!Enter, Mutex!Abandon, Mutex!Admit, Mutex!Refuse, Mutex!Unlock,
         Mutex!Release, Mutex!Without,
         LockProofs!Enter, LockProofs!Abandon, LockProofs!Admit, LockProofs!Refuse, LockProofs!Unlock,
         LockProofs!Release, LockProofs!Without
<1> QED
  BY <1>1, LockProofs!StepInvariant, HTTPAssumption

-----------------------------------------------------------------------------
(* A call that returns, with bytes that it may give to its caller.         *)
LEMMA ReturnPreserves ==
    ASSUME HttpInv, NEW t \in Ops, call[t].kind # "readAt" => pc[t] = "in",
           NEW bytes \in Seq(Byte), NEW result \in {"ok", "eof", "error"}, Return(t, bytes, result),
           Fresh(bytes),
           source' \in [pos : Nat, ahead : Seq(Byte), aheadAt : Nat], Fresh(source'.ahead),
           call[t].kind = "readAt" => source' = source,
           call[t].kind = "seek" => source'.ahead = <<>> \/ (bytes = <<>> /\ result = "error")
    PROVE  HttpInv'
<1>1. LockProofs!IInv'
  <2>1. CASE call[t].kind = "readAt"
    <3>1. UNCHANGED <<gate, waiting, pc, cancelled>>
      BY <2>1 DEF Return, mutexVars
    <3> QED
      BY <3>1, LockKept DEF HttpInv, LockProofs!IInv, LockProofs!TypeOK
  <2>2. CASE call[t].kind # "readAt"
    BY <2>2, LockSteps DEF Return, HttpInv
  <2> QED
    BY <2>1, <2>2
<1>2. /\ call' = [call EXCEPT ![t] = Idle] /\ version' = version /\ validated' = validated
      /\ TypeOK
  BY DEF Return, HttpInv
<1>3. \A u \in Ops : call'[u] = IF u = t THEN Idle ELSE call[u]
  BY <1>2 DEF TypeOK
<1>4. call' \in [Ops -> CallRecord]
  BY <1>2 DEF TypeOK, CallRecord, Idle
<1>5. Positioned'
  <2>1. \A u \in Ops : call'[u].at \in {"range", "request"} => u # t
    BY <1>3 DEF Idle
  <2>2. CASE call[t].kind = "readAt"
    <3>1. UNCHANGED <<pc, source>>
      BY <2>2 DEF Return, mutexVars
    <3> QED
      BY <1>3, <2>1, <3>1 DEF Positioned, HttpInv
  <2>3. CASE call[t].kind # "readAt"
    <3>1. \A u \in Ops : u # t => pc[u] # "in"
      BY <2>3, Alone DEF HttpInv
    <3>2. \A u \in Ops : u # t /\ call[u].at \in {"range", "request"} => call[u].kind = "readAt"
      BY <3>1 DEF HttpInv, Positioned
    <3> QED
      BY <1>3, <2>1, <3>2 DEF Positioned
  <2> QED
    BY <2>2, <2>3
<1>6. CASE bytes = <<>> /\ result = "error"
  <2>1. log' = log
    BY <1>6 DEF Return
  <2>2. TypeOK'
    BY <1>2, <1>4, <2>1 DEF TypeOK
  <2>3. Fresh(source.ahead)' /\ OneResource' /\ \A m \in DOMAIN log' : log'[m].version <= version'
    BY <1>2, <2>1 DEF HttpInv, Fresh, OneResource
  <2> QED
    BY <1>1, <1>5, <2>2, <2>3 DEF HttpInv
<1>7. CASE ~(bytes = <<>> /\ result = "error")
  <2> DEFINE e == [kind |-> call[t].kind, len |-> call[t].len, off |-> call[t].off,
                   bytes |-> bytes, result |-> result, version |-> version]
  <2>1. log' = Append(log, e)
    BY <1>7 DEF Return
  <2>2. e \in Entry /\ log \in Seq(Entry)
    BY <1>2 DEF TypeOK, CallRecord, Entry
  <2>3. e.kind = call[t].kind /\ e.bytes = bytes /\ e.version = version
    OBVIOUS
  <2> HIDE DEF e
  <2>4. /\ log' \in Seq(Entry) /\ Len(log) \in Nat /\ Len(log') = Len(log) + 1
        /\ \A m \in 1 .. Len(log) : log'[m] = log[m]
        /\ log'[Len(log) + 1] = e
    BY <2>1, <2>2, AppendProperties
  <2>5. DOMAIN log = 1 .. Len(log) /\ DOMAIN log' = 1 .. Len(log) + 1
    BY <2>2, <2>4
  <2>6. TypeOK'
    BY <1>2, <1>4, <2>4 DEF TypeOK
  <2>7. \A m \in DOMAIN log' : log'[m].version <= version'
    <3>1. \A m \in 1 .. Len(log) : log'[m].version <= version'
      BY <1>2, <2>4, <2>5 DEF HttpInv
    <3>2. log'[Len(log) + 1].version = version'
      BY <1>2, <2>3, <2>4
    <3>3. version' \in {1, 2}
      BY <1>2 DEF TypeOK
    <3> QED
      BY <2>4, <2>5, <3>1, <3>2, <3>3
  <2>8. Fresh(source.ahead)'
    <3>1. CASE source'.ahead = <<>>
      BY <3>1 DEF Fresh
    <3>2. CASE call[t].kind # "seek"
      <4>1. \A m \in DOMAIN log' : log'[m].kind = "seek" => m \in DOMAIN log /\ log'[m] = log[m]
        BY <2>3, <2>4, <2>5, <3>2
      <4> QED
        BY <1>2, <4>1 DEF Fresh
    <3> QED
      BY <1>7, <3>1, <3>2
  <2>9. OneResource'
    <3> SUFFICES ASSUME NEW n \in DOMAIN log', NEW i \in DOMAIN log'[n].bytes
                 PROVE  /\ validated => log'[n].bytes[i].version = 1
                        /\ \A j \in DOMAIN log'[n].bytes : log'[n].bytes[j].version = log'[n].bytes[i].version
                        /\ \A m \in 1 .. n : log'[m].kind = "seek" /\ log'[n].kind = "read"
                                             => log'[n].bytes[i].version >= log'[m].version
      BY <1>2 DEF OneResource
    <3>1. CASE n \in 1 .. Len(log)
      <4>1. log'[n] = log[n] /\ \A m \in 1 .. n : log'[m] = log[m]
        BY <2>4, <3>1
      <4> QED
        BY <2>5, <3>1, <4>1 DEF HttpInv, OneResource
    <3>2. CASE n = Len(log) + 1
      <4>1. log'[n].bytes = bytes /\ log'[n].kind = call[t].kind
        BY <2>3, <2>4, <3>2
      <4>2. \A m \in 1 .. n : m \in DOMAIN log \/ m = n
        BY <2>4, <2>5, <3>2
      <4> QED
        BY <2>4, <2>5, <4>1, <4>2 DEF Fresh
    <3> QED
      BY <2>4, <2>5, <3>1, <3>2
  <2> QED
    BY <1>1, <1>5, <2>6, <2>7, <2>8, <2>9 DEF HttpInv
<1> QED
  BY <1>6, <1>7

(* A call that goes on.                                                    *)
LEMMA GotoPreserves ==
    ASSUME HttpInv, NEW t \in Ops, NEW new \in CallRecord, call' = [call EXCEPT ![t] = new],
           UNCHANGED <<mutexVars, source, validated, version, log>>,
           new.at \in {"range", "request"} => new.kind \in {"read", "readAt"},
           new.at \in {"range", "request"} /\ new.kind = "read" =>
               pc[t] = "in" /\ (new.at = "request" => new.from = source.pos)
    PROVE  HttpInv'
<1>1. LockProofs!IInv'
  BY LockKept DEF HttpInv, LockProofs!IInv, LockProofs!TypeOK, mutexVars
<1>2. \A u \in Ops : call'[u] = IF u = t THEN new ELSE call[u]
  BY DEF HttpInv, TypeOK
<1>3. TypeOK'
  BY DEF HttpInv, TypeOK
<1>4. Positioned'
  BY <1>2 DEF HttpInv, Positioned, mutexVars
<1>5. Fresh(source.ahead)' /\ OneResource' /\ \A m \in DOMAIN log' : log'[m].version <= version'
  BY DEF HttpInv, Fresh, OneResource
<1> QED
  BY <1>1, <1>3, <1>4, <1>5 DEF HttpInv

-----------------------------------------------------------------------------
(* What an operation does with what it has read ahead, or has fetched.     *)
LEMMA AheadPreserves ==
    ASSUME HttpInv, NEW t \in Ops, pc[t] = "in", call[t].kind = "read",
           NEW s \in [pos : Nat, ahead : Seq(Byte), aheadAt : Nat],
           s.aheadAt <= s.pos, s.pos <= s.aheadAt + Len(s.ahead), Fresh(s.ahead), FromAhead(t, s)
    PROVE  HttpInv'
<1> DEFINE first == s.pos - s.aheadAt
           n == Least(call[t].len, Len(s.ahead) - first)
<1>1. s.pos \in Nat /\ s.aheadAt \in Nat /\ s.ahead \in Seq(Byte) /\ Len(s.ahead) \in Nat /\ call[t].len \in Nat
  BY LenProperties DEF HttpInv, TypeOK, CallRecord
<1>2. first \in Nat /\ n \in Nat /\ first + n <= Len(s.ahead)
  BY <1>1 DEF Least
<1>3. PICK result \in {"ok", "eof"} : Return(t, SubSeq(s.ahead, first + 1, first + n), result)
  BY DEF FromAhead
<1>4. source' = [s EXCEPT !.pos = @ + n]
  BY DEF FromAhead
<1> HIDE DEF first, n
<1>5. source' \in [pos : Nat, ahead : Seq(Byte), aheadAt : Nat] /\ source'.ahead = s.ahead
  BY <1>1, <1>2, <1>4
<1>6. SubSeq(s.ahead, first + 1, first + n) \in Seq(Byte) /\ Fresh(SubSeq(s.ahead, first + 1, first + n))
  BY <1>1, <1>2, PartFresh
<1> QED
  BY <1>3, <1>5, <1>6, ReturnPreserves

LEMMA NoBytes == <<>> \in Seq(Byte) /\ Fresh(<<>>)
BY DEF Fresh

LEMMA FetchedPreserves ==
    ASSUME HttpInv, NEW t \in Ops, At(t, "request"), NEW bytes \in Seq(Byte), NEW ok \in BOOLEAN,
           Fresh(bytes), Fetched(t, bytes, ok)
    PROVE  HttpInv'
<1>1. /\ call[t] \in CallRecord /\ call[t].from \in Nat /\ call[t].kind \in {"read", "readAt"}
      /\ call[t].kind = "read" => pc[t] = "in" /\ call[t].from = source.pos
      /\ source \in [pos : Nat, ahead : Seq(Byte), aheadAt : Nat] /\ Fresh(source.ahead)
  BY DEF HttpInv, TypeOK, Positioned, At, CallRecord
<1>2. call[t].kind # "readAt" => pc[t] = "in"
  BY DEF At
<1>3. Len(bytes) \in Nat
  BY LenProperties
<1>4. CASE call[t].kind = "readAt"
  <2>1. PICK result \in {"ok", "eof", "error"} : Return(t, bytes, result) /\ source' = source
    BY <1>4 DEF Fetched
  <2> QED
    BY <1>1, <1>2, <1>4, <2>1, ReturnPreserves
<1>5. CASE call[t].kind # "readAt" /\ Direct(t)
  <2>1. PICK result \in {"ok", "eof", "error"} :
          Return(t, bytes, result) /\ source' = [source EXCEPT !.pos = @ + Len(bytes)]
    BY <1>5 DEF Fetched
  <2>2. source' \in [pos : Nat, ahead : Seq(Byte), aheadAt : Nat] /\ source'.ahead = source.ahead
    BY <1>1, <1>3, <2>1
  <2> QED
    BY <1>1, <1>2, <1>5, <2>1, <2>2, ReturnPreserves
<1>6. CASE call[t].kind # "readAt" /\ ~Direct(t) /\ ok
  <2> DEFINE s == [source EXCEPT !.ahead = bytes, !.aheadAt = call[t].from]
  <2>1. FromAhead(t, s)
    BY <1>6 DEF Fetched
  <2>2. /\ s \in [pos : Nat, ahead : Seq(Byte), aheadAt : Nat]
        /\ s.pos = source.pos /\ s.ahead = bytes /\ s.aheadAt = call[t].from
    BY <1>1
  <2> HIDE DEF s
  <2>3. call[t].kind = "read"
    BY <1>1, <1>6
  <2>4. s.aheadAt <= s.pos /\ s.pos <= s.aheadAt + Len(s.ahead)
    BY <1>1, <1>3, <2>2, <2>3
  <2> QED
    BY <1>1, <2>1, <2>2, <2>3, <2>4, AheadPreserves
<1>7. CASE call[t].kind # "readAt" /\ ~Direct(t) /\ ~ok
  <2>1. Return(t, <<>>, "error") /\ source' = [source EXCEPT !.ahead = <<>>]
    BY <1>7 DEF Fetched
  <2>2. source' \in [pos : Nat, ahead : Seq(Byte), aheadAt : Nat] /\ source'.ahead = <<>>
    BY <1>1, <2>1, NoBytes
  <2> QED
    BY <1>1, <1>2, <1>7, <2>1, <2>2, NoBytes, ReturnPreserves
<1> QED
  BY <1>4, <1>5, <1>6, <1>7

-----------------------------------------------------------------------------
(* The handlers.                                                           *)
LEMMA ReadPreserves ==
    ASSUME HttpInv, NEW t \in Ops, Seek(t) \/ Read(t) \/ PlanRange(t)
    PROVE  HttpInv'
<1>1. /\ call[t] \in CallRecord /\ call[t].len \in Nat /\ call[t].off \in Nat
      /\ source \in [pos : Nat, ahead : Seq(Byte), aheadAt : Nat] /\ Fresh(source.ahead)
      /\ Size \in Nat /\ (ReadAheadBytes >= 0 => ReadAheadBytes \in Nat)
  BY HTTPAssumption DEF HttpInv, TypeOK, CallRecord
<1>2. CASE Seek(t)
  <2>1. call[t].kind = "seek" /\ pc[t] = "in"
    BY <1>2 DEF Seek, At
  <2>2. CASE Return(t, <<>>, "error") /\ source' = source
    BY <1>1, <2>1, <2>2, NoBytes, ReturnPreserves
  <2>3. CASE source' = [source EXCEPT !.pos = call[t].off, !.ahead = <<>>] /\ Return(t, <<>>, "ok")
    <3>1. source' \in [pos : Nat, ahead : Seq(Byte), aheadAt : Nat] /\ source'.ahead = <<>>
      BY <1>1, <2>3, NoBytes
    <3> QED
      BY <2>1, <2>3, <3>1, NoBytes, ReturnPreserves
  <2> QED
    BY <1>2, <2>2, <2>3 DEF Seek
<1>3. CASE Read(t)
  <2>1. call[t].kind = "read" /\ pc[t] = "in"
    BY <1>3 DEF Read, At
  <2>2. CASE Return(t, <<>>, "error") /\ source' = source
    BY <1>1, <2>1, <2>2, NoBytes, ReturnPreserves
  <2>3. CASE Ahead /\ FromAhead(t, source)
    <3>1. source.aheadAt <= source.pos /\ source.pos <= source.aheadAt + Len(source.ahead)
      BY <1>1, <2>3, LenProperties DEF Ahead
    <3> QED
      BY <1>1, <2>1, <2>3, <3>1, AheadPreserves
  <2>4. CASE Goto(t, "range")
    <3> DEFINE new == [call[t] EXCEPT !.at = "range"]
    <3>1. new \in CallRecord /\ new.at = "range" /\ new.kind = "read"
      BY <1>1, <2>1 DEF CallRecord
    <3>2. call' = [call EXCEPT ![t] = new] /\ UNCHANGED <<mutexVars, source, validated, version, log>>
      BY <2>4 DEF Goto
    <3> HIDE DEF new
    <3> QED
      BY <2>1, <3>1, <3>2, GotoPreserves
  <2> QED
    BY <1>3, <2>2, <2>3, <2>4 DEF Read
<1>4. CASE PlanRange(t)
  <2>1. /\ call[t].kind # "readAt" => pc[t] = "in"
        /\ call[t].kind # "readAt" => call[t].kind = "read"
    BY <1>1, <1>4 DEF PlanRange, At, HttpInv, Positioned
  <2>2. CASE Return(t, <<>>, "error") /\ source' = source
    BY <1>1, <2>1, <2>2, NoBytes, ReturnPreserves
  <2>3. CASE call[t].kind # "readAt" /\ Return(t, <<>>, "error") /\ source' = [source EXCEPT !.ahead = <<>>]
    <3>1. source' \in [pos : Nat, ahead : Seq(Byte), aheadAt : Nat] /\ source'.ahead = <<>>
      BY <1>1, <2>3, NoBytes
    <3> QED
      BY <2>1, <2>3, <3>1, NoBytes, ReturnPreserves
  <2>4. CASE Return(t, <<>>, "eof") /\ source' = source
    BY <1>1, <2>1, <2>4, NoBytes, ReturnPreserves
  <2> DEFINE from == IF call[t].kind = "readAt" THEN call[t].off ELSE source.pos
             want == IF call[t].kind = "readAt" \/ Direct(t) THEN call[t].len ELSE ReadAheadBytes
  <2>5. CASE /\ ~(from >= Size)
             /\ call' = [call EXCEPT ![t].at = "request", ![t].from = from, ![t].want = Least(want, Size - from)]
             /\ UNCHANGED <<mutexVars, closed, source, validated, version, log, calls>>
    <3>1. from \in Nat /\ want \in Nat
      BY <1>1, HTTPAssumption DEF Direct
    <3>2. Least(want, Size - from) \in Nat
      BY <1>1, <2>5, <3>1 DEF Least
    <3>3. from = source.pos \/ call[t].kind = "readAt"
      OBVIOUS
    <3> HIDE DEF from, want
    <3> DEFINE new == [call[t] EXCEPT !.at = "request", !.from = from, !.want = Least(want, Size - from)]
    <3>4. new \in CallRecord /\ new.at = "request" /\ new.kind = call[t].kind /\ new.from = from
      BY <1>1, <3>1, <3>2 DEF CallRecord
    <3>5. call' = [call EXCEPT ![t] = new]
      BY <1>1, <2>5 DEF HttpInv, TypeOK, CallRecord
    <3> HIDE DEF new
    <3> QED
      BY <2>1, <2>5, <3>3, <3>4, <3>5, GotoPreserves
  <2> QED
    BY <1>4, <2>2, <2>3, <2>4, <2>5 DEF PlanRange
<1> QED
  BY <1>2, <1>3, <1>4

LEMMA BrokenPreserves ==
    ASSUME HttpInv, NEW t \in Ops, At(t, "request"), NEW bytes \in Seq(Byte), Fresh(bytes), Broken(t, bytes)
    PROVE  HttpInv'
<1>1. CASE Fetched(t, bytes, FALSE)
  BY <1>1, FetchedPreserves
<1>2. CASE call' = [call EXCEPT ![t].attempt = @ + 1] /\ UNCHANGED <<mutexVars, closed, source, validated, version, log, calls>>
  <2> DEFINE new == [call[t] EXCEPT !.attempt = @ + 1]
  <2>1. call[t] \in CallRecord
    BY DEF HttpInv, TypeOK
  <2>2. new \in CallRecord /\ new.at = call[t].at /\ new.kind = call[t].kind /\ new.from = call[t].from
    BY <2>1 DEF CallRecord
  <2>3. call' = [call EXCEPT ![t] = new]
    BY <1>2
  <2>4. /\ call[t].at = "request" /\ call[t].kind \in {"read", "readAt"}
        /\ call[t].kind = "read" => pc[t] = "in" /\ call[t].from = source.pos
    BY DEF At, HttpInv, Positioned
  <2> HIDE DEF new
  <2> QED
    BY <1>2, <2>2, <2>3, <2>4, GotoPreserves
<1> QED
  BY <1>1, <1>2 DEF Broken

LEMMA ServerPreserves ==
    ASSUME HttpInv, NEW t \in Ops, RequestFails(t) \/ Unfit(t) \/ Answer(t) \/ Truncated(t)
    PROVE  HttpInv'
<1>1. At(t, "request")
  BY DEF RequestFails, Unfit, Answer, Truncated
<1>2. call[t].from \in Nat /\ call[t].want \in Nat
  BY DEF HttpInv, TypeOK, CallRecord
<1>3. CASE RequestFails(t)
  BY <1>1, <1>3, NoBytes, BrokenPreserves DEF RequestFails
<1>4. CASE Unfit(t)
  BY <1>1, <1>4, NoBytes, FetchedPreserves DEF Unfit
<1>5. ASSUME Fits, NEW n \in Nat
      PROVE  Bytes(version, call[t].from, n) \in Seq(Byte) /\ Fresh(Bytes(version, call[t].from, n))
  BY <1>2, <1>5, BytesFresh DEF HttpInv
<1>6. CASE Answer(t)
  BY <1>1, <1>2, <1>5, <1>6, FetchedPreserves DEF Answer
<1>7. CASE Truncated(t)
  <2>1. PICK n \in 0 .. call[t].want : Broken(t, Bytes(version, call[t].from, n))
    BY <1>7 DEF Truncated
  <2>2. n \in Nat /\ Fits
    BY <1>2, <1>7 DEF Truncated
  <2> QED
    BY <1>1, <1>5, <2>1, <2>2, BrokenPreserves
<1> QED
  BY <1>3, <1>4, <1>6, <1>7

-----------------------------------------------------------------------------
(* Steps outside of the lock.                                              *)
LEMMA CallPreserves ==
    ASSUME HttpInv, NEW t \in Ops, NEW kind \in {"read", "readAt", "seek", "close"},
           NEW len \in Nat, NEW off \in Nat, Call(t, kind, len, off)
    PROVE  HttpInv'
<1> DEFINE made == [Idle EXCEPT !.kind = kind, !.len = len, !.off = off, !.at = "start"]
<1>1. UNCHANGED <<source, validated, version, log>> /\ call[t].kind = "none"
  BY DEF Call
<1>2. CASE UNCHANGED <<mutexVars, call>>
  <2>1. LockProofs!IInv'
    BY <1>2, LockKept DEF HttpInv, LockProofs!IInv, LockProofs!TypeOK, mutexVars
  <2>2. TypeOK' /\ Positioned'
    BY <1>1, <1>2 DEF HttpInv, TypeOK, Positioned, mutexVars
  <2>3. Fresh(source.ahead)' /\ OneResource' /\ \A m \in DOMAIN log' : log'[m].version <= version'
    BY <1>1 DEF HttpInv, Fresh, OneResource
  <2> QED
    BY <2>1, <2>2, <2>3 DEF HttpInv
<1>3. CASE /\ kind # "close" /\ call' = [call EXCEPT ![t] = made]
           /\ \/ cancelled' = cancelled \ {t} /\ UNCHANGED <<gate, waiting, pc>>
              \/ Mutex!Enter(t)
  <2>1. made \in CallRecord /\ made.at = "start"
    BY <1>3 DEF CallRecord, Idle
  <2> HIDE DEF made
  <2>2. LockProofs!IInv'
    <3>1. CASE cancelled' = cancelled \ {t} /\ UNCHANGED <<gate, waiting, pc>>
      BY <3>1, LockKept DEF HttpInv, LockProofs!IInv, LockProofs!TypeOK
    <3>2. CASE Mutex!Enter(t)
      BY <3>2, LockSteps DEF HttpInv
    <3> QED
      BY <1>3, <3>1, <3>2
  <2>3. \A u \in Ops : u # t => pc'[u] = pc[u] /\ call'[u] = call[u]
    BY <1>3 DEF Mutex!Enter, HttpInv, TypeOK, LockProofs!IInv, LockProofs!TypeOK
  <2>4. call'[t].at = "start" /\ TypeOK'
    BY <1>1, <1>3, <2>1 DEF HttpInv, TypeOK
  <2>5. Positioned'
    BY <1>1, <2>3, <2>4 DEF HttpInv, Positioned
  <2>6. Fresh(source.ahead)' /\ OneResource' /\ \A m \in DOMAIN log' : log'[m].version <= version'
    BY <1>1 DEF HttpInv, Fresh, OneResource
  <2> QED
    BY <2>2, <2>4, <2>5, <2>6 DEF HttpInv
<1> QED
  BY <1>2, <1>3 DEF Call

LEMMA LockPreserves ==
    ASSUME HttpInv, NEW t \in Ops, Lock(t)
    PROVE  HttpInv'
<1>1. UNCHANGED <<source, validated, version, log>> /\ pc[t] \in {"queued", "holding"}
  BY DEF Lock, Mutex!Abandon, Mutex!Admit, Mutex!Refuse
<1>2. LockProofs!IInv'
  BY LockSteps DEF Lock, HttpInv
<1>3. call' = [call EXCEPT ![t] = Idle] \/ call' = call
  BY DEF Lock, HttpInv, TypeOK
<1>4. Idle \in CallRecord /\ Idle.at = "nowhere"
  BY DEF Idle, CallRecord
<1>5. TypeOK'
  BY <1>1, <1>3, <1>4 DEF HttpInv, TypeOK
<1>6. \A u \in Ops : u # t /\ pc[u] = "in" => pc'[u] = "in"
  <2>1. CASE Mutex!Refuse(t)
    BY <2>1 DEF Mutex!Refuse, HttpInv, LockProofs!IInv, LockProofs!TokenHasOwner
  <2> QED
    BY <2>1 DEF Lock, Mutex!Abandon, Mutex!Admit, HttpInv, LockProofs!IInv, LockProofs!TypeOK
<1>7. \A u \in Ops : call'[u].at \in {"range", "request"} => call'[u] = call[u]
  BY <1>3, <1>4 DEF HttpInv, TypeOK
<1>8. call'[t].at \in {"range", "request"} => call'[t].kind = "readAt"
  BY <1>1, <1>7 DEF HttpInv, Positioned
<1>9. Positioned'
  BY <1>1, <1>6, <1>7, <1>8 DEF HttpInv, Positioned
<1>10. Fresh(source.ahead)' /\ OneResource' /\ \A m \in DOMAIN log' : log'[m].version <= version'
  BY <1>1 DEF HttpInv, Fresh, OneResource
<1> QED
  BY <1>2, <1>5, <1>9, <1>10 DEF HttpInv

LEMMA CancelPreserves ==
    ASSUME HttpInv, NEW t \in Ops, Cancel(t)
    PROVE  HttpInv'
<1>1. UNCHANGED <<gate, waiting, pc, call, source, validated, version, log>> /\ cancelled' \subseteq Ops
  BY DEF Cancel, HttpInv, LockProofs!IInv, LockProofs!TypeOK
<1>2. LockProofs!IInv'
  BY <1>1, LockKept DEF HttpInv
<1>3. TypeOK' /\ Positioned'
  BY <1>1 DEF HttpInv, TypeOK, Positioned
<1>4. Fresh(source.ahead)' /\ OneResource' /\ \A m \in DOMAIN log' : log'[m].version <= version'
  BY <1>1 DEF HttpInv, Fresh, OneResource
<1> QED
  BY <1>2, <1>3, <1>4 DEF HttpInv

LEMMA ReplacePreserves == ASSUME HttpInv, Replace PROVE HttpInv'
<1>1. UNCHANGED <<gate, waiting, pc, cancelled, call, source, validated, log>> /\ version = 1 /\ version' = 2
  BY DEF Replace, mutexVars
<1>2. LockProofs!IInv'
  BY <1>1, LockKept DEF HttpInv, LockProofs!IInv, LockProofs!TypeOK
<1>3. TypeOK' /\ Positioned'
  BY <1>1 DEF HttpInv, TypeOK, Positioned
<1>4. Fresh(source.ahead)' /\ OneResource'
  BY <1>1 DEF HttpInv, Fresh, OneResource
<1>5. \A m \in DOMAIN log' : log'[m].version <= version'
  <2>1. \A m \in DOMAIN log : log[m] \in Entry
    BY DEF HttpInv, TypeOK
  <2>2. \A m \in DOMAIN log : log[m].version \in {1, 2}
    BY <2>1 DEF Entry
  <2>3. \A m \in DOMAIN log : log[m].version <= 2
    BY <2>2
  <2> QED
    BY <1>1, <2>3
<1> QED
  BY <1>2, <1>3, <1>4, <1>5 DEF HttpInv

-----------------------------------------------------------------------------
LEMMA HttpInitInvariant == Init => HttpInv
<1> SUFFICES ASSUME Init PROVE HttpInv
  OBVIOUS
<1>1. LockProofs!IInv
  BY LockProofs!InitInvariant, HTTPAssumption DEF Init, Mutex!Init, LockProofs!Init
<1>2. TypeOK
  BY HTTPAssumption, EmptySeq DEF Init, TypeOK, CallRecord, Idle
<1>3. Positioned
  BY DEF Init, Positioned, Idle
<1>4. source.ahead = <<>> /\ log = <<>>
  BY DEF Init
<1> QED
  BY <1>1, <1>2, <1>3, <1>4 DEF HttpInv, Fresh, OneResource

LEMMA HttpStepInvariant == HttpInv /\ [Next]_vars => HttpInv'
<1> SUFFICES ASSUME HttpInv, [Next]_vars PROVE HttpInv'
  OBVIOUS
<1>1. CASE UNCHANGED vars
  <2>1. LockProofs!IInv'
    BY <1>1, LockKept DEF HttpInv, LockProofs!IInv, LockProofs!TypeOK, vars
  <2>2. TypeOK' /\ Positioned'
    BY <1>1 DEF HttpInv, TypeOK, Positioned, vars
  <2>3. Fresh(source.ahead)' /\ OneResource' /\ \A m \in DOMAIN log' : log'[m].version <= version'
    BY <1>1 DEF HttpInv, Fresh, OneResource, vars
  <2> QED
    BY <2>1, <2>2, <2>3 DEF HttpInv
<1>2. ASSUME NEW t \in Ops, NEW kind, NEW len, NEW off, Call(t, kind, len, off),
             kind \in {"read", "readAt", "seek", "close"}, len \in Nat, off \in Nat
      PROVE  HttpInv'
  BY <1>2, CallPreserves
<1>3. ASSUME NEW t \in Ops,
             \/ \E len \in Lengths : Call(t, "read", len, 0) \/ \E off \in Offsets : Call(t, "readAt", len, off)
             \/ \E off \in Offsets : Call(t, "seek", 0, off)
             \/ Call(t, "close", 0, 0)
      PROVE  HttpInv'
  BY <1>2, <1>3, HTTPAssumption
<1>4. ASSUME NEW t \in Ops,
             Cancel(t) \/ Lock(t) \/ Seek(t) \/ Read(t) \/ PlanRange(t)
             \/ RequestFails(t) \/ Unfit(t) \/ Answer(t) \/ Truncated(t)
      PROVE  HttpInv'
  BY <1>4, CancelPreserves, LockPreserves, ReadPreserves, ServerPreserves
<1> QED
  BY <1>1, <1>3, <1>4, ReplacePreserves DEF Next

(* What the versions of the bytes in hand, logged and read ahead have to do *)
(* with the call that took them (the inductive invariant).                 *)
THEOREM HttpInvariance == Spec => []HttpInv
<1>1. Init => HttpInv
  BY HttpInitInvariant
<1>2. HttpInv /\ [Next]_vars => HttpInv'
  BY HttpStepInvariant
<1> QED
  BY <1>1, <1>2, PTL DEF Spec

(* With a validator every byte is from the resource that was opened;       *)
(* without one those of a call are from one version, also if the resource  *)
(* was replaced between two attempts, and not from one that was gone when  *)
(* the position was last sought.                                           *)
THEOREM BytesOfOneResource == Spec => []OneResource
<1>1. HttpInv => OneResource
  BY DEF HttpInv
<1> QED
  BY <1>1, HttpInvariance, PTL

-----------------------------------------------------------------------------
(* Where the calls of a log have taken the position: Position, as a value  *)
(* that depends on the log only.                                           *)
Moved(l, f) ==
    f = [n \in 0 .. Len(l) |->
            IF n = 0 THEN 0
            ELSE CASE l[n].kind = "seek" -> l[n].off
                   [] l[n].kind = "read" -> f[n - 1] + Len(l[n].bytes)
                   [] OTHER -> f[n - 1]]

Moves(e, from) ==
    CASE e.kind = "seek" -> e.off
      [] e.kind = "read" -> from + Len(e.bytes)
      [] OTHER -> from

LEMMA MovedSteps ==
    ASSUME NEW l \in Seq(Entry), NEW f, Moved(l, f)
    PROVE  f[0] = 0 /\ \A n \in 1 .. Len(l) : f[n] = Moves(l[n], f[n - 1])
<1>1. Len(l) \in Nat
  OBVIOUS
<1>2. ASSUME NEW n \in 0 .. Len(l)
      PROVE  f[n] = IF n = 0 THEN 0 ELSE Moves(l[n], f[n - 1])
  BY DEF Moved, Moves
<1>3. f[0] = 0
  BY <1>1, <1>2
<1>4. ASSUME NEW n \in 1 .. Len(l)
      PROVE  f[n] = Moves(l[n], f[n - 1])
  <2>1. n \in 0 .. Len(l) /\ n # 0
    BY <1>1
  <2> QED
    BY <1>2, <2>1
<1> QED
  BY <1>3, <1>4

\* The positions of a log, and those of the same log with one call more.
LEMMA MovedGrows ==
    ASSUME NEW l \in Seq(Entry), NEW f, Moved(l, f), NEW e
    PROVE  Moved(Append(l, e), [n \in 0 .. Len(l) + 1 |-> IF n = Len(l) + 1 THEN Moves(e, f[Len(l)]) ELSE f[n]])
<1> DEFINE m == Append(l, e)
           k == Len(l) + 1
           g == [n \in 0 .. k |-> IF n = k THEN Moves(e, f[Len(l)]) ELSE f[n]]
<1>1. Len(l) \in Nat /\ Len(m) = k /\ m[k] = e /\ \A n \in 1 .. Len(l) : m[n] = l[n]
  OBVIOUS
<1>2. f[0] = 0 /\ \A n \in 1 .. Len(l) : f[n] = Moves(l[n], f[n - 1])
  BY MovedSteps
<1>3. ASSUME NEW n \in 0 .. k
      PROVE  g[n] = IF n = 0 THEN 0 ELSE Moves(m[n], g[n - 1])
  <2>1. CASE n = 0
    <3>1. 0 # k
      BY <1>1
    <3> QED
      BY <1>2, <2>1, <3>1
  <2>2. CASE n = k
    <3>1. n # 0 /\ n - 1 = Len(l) /\ n - 1 \in 0 .. k /\ n - 1 # k
      BY <1>1, <2>2
    <3>2. g[n - 1] = f[Len(l)] /\ g[n] = Moves(e, f[Len(l)])
      BY <2>2, <3>1
    <3> HIDE DEF g, m, k
    <3> QED
      BY <1>1, <2>2, <3>1, <3>2
  <2>3. CASE n # 0 /\ n # k
    <3>1. n \in 1 .. Len(l) /\ n - 1 \in 0 .. k /\ n - 1 # k
      BY <1>1, <2>3
    <3>2. g[n - 1] = f[n - 1] /\ g[n] = f[n]
      BY <2>3, <3>1
    <3> HIDE DEF g, m, k
    <3> QED
      BY <1>1, <1>2, <2>3, <3>1, <3>2
  <2> QED
    BY <2>1, <2>2, <2>3
<1>4. Moved(m, g)
  BY <1>1, <1>3 DEF Moved, Moves
<1> QED
  BY <1>4

LEMMA MovedUnique ==
    ASSUME NEW l \in Seq(Entry), NEW f, NEW g, Moved(l, f), Moved(l, g)
    PROVE  f = g
<1> DEFINE Q == {n \in 0 .. Len(l) : f[n] = g[n]}
<1>1. f[0] = 0 /\ \A n \in 1 .. Len(l) : f[n] = Moves(l[n], f[n - 1])
  BY MovedSteps
<1>2. g[0] = 0 /\ \A n \in 1 .. Len(l) : g[n] = Moves(l[n], g[n - 1])
  BY MovedSteps
<1>3. ASSUME NEW n \in 0 .. Len(l)
      PROVE  f[n] = g[n]
  <2>1. n \in Nat /\ Len(l) \in Nat /\ 0 \in Q
    BY <1>1, <1>2
  <2>2. ASSUME NEW k \in 1 .. n, k - 1 \in Q
        PROVE  k \in Q
    <3>1. k \in 1 .. Len(l) /\ k \in 0 .. Len(l)
      BY <2>1
    <3> QED
      BY <1>1, <1>2, <2>2, <3>1
  <2> HIDE DEF Q
  <2>3. n \in Q
    BY <2>1, <2>2, LockProofs!Induction, HTTPAssumption
  <2> QED
    BY <2>3 DEF Q
<1>4. DOMAIN f = 0 .. Len(l) /\ DOMAIN g = 0 .. Len(l)
  BY DEF Moved
<1>5. f = [n \in 0 .. Len(l) |-> f[n]] /\ g = [n \in 0 .. Len(l) |-> g[n]]
  BY DEF Moved
<1> QED
  BY <1>3, <1>4, <1>5

\* Every log has its positions.
LEMMA MovedExists ==
    ASSUME NEW l \in Seq(Entry)
    PROVE  \E f : Moved(l, f)
<1> DEFINE Q == {n \in 0 .. Len(l) : \E f : Moved(SubSeq(l, 1, n), f)}
<1>1. Len(l) \in Nat
  OBVIOUS
<1>2. 0 \in Q
  <2>1. SubSeq(l, 1, 0) \in Seq(Entry) /\ Len(SubSeq(l, 1, 0)) = 0
    BY <1>1, SubSeqProperties
  <2> DEFINE f == [n \in {0} |-> 0]
  <2>2. f = [n \in 0 .. 0 |-> IF n = 0 THEN 0 ELSE Moves(SubSeq(l, 1, 0)[n], f[n - 1])]
    OBVIOUS
  <2>3. Moved(SubSeq(l, 1, 0), f)
    BY <2>1, <2>2 DEF Moved, Moves
  <2> QED
    BY <1>1, <2>3
<1>3. ASSUME NEW k \in 1 .. Len(l), k - 1 \in Q
      PROVE  k \in Q
  <2>1. PICK f : Moved(SubSeq(l, 1, k - 1), f)
    BY <1>3
  <2>2. SubSeq(l, 1, k - 1) \in Seq(Entry) /\ SubSeq(l, 1, k) = Append(SubSeq(l, 1, k - 1), l[k])
    BY <1>1, SubSeqProperties
  <2>3. \E g : Moved(SubSeq(l, 1, k), g)
    BY <2>1, <2>2, MovedGrows
  <2> QED
    BY <1>1, <2>3
<1> HIDE DEF Q
<1>4. Len(l) \in Q
  BY <1>1, <1>2, <1>3, LockProofs!Induction, HTTPAssumption
<1>5. SubSeq(l, 1, Len(l)) = l
  OBVIOUS
<1> QED
  BY <1>4, <1>5 DEF Q

\* The position before the first call of a log, and after each.
Positions(l) == CHOOSE f : Moved(l, f)

LEMMA PositionsMove ==
    ASSUME NEW l \in Seq(Entry)
    PROVE  /\ Positions(l)[0] = 0
           /\ \A e \in Entry :
                 /\ \A n \in 0 .. Len(l) : Positions(Append(l, e))[n] = Positions(l)[n]
                 /\ Positions(Append(l, e))[Len(l) + 1] = Moves(e, Positions(l)[Len(l)])
<1>1. Moved(l, Positions(l))
  BY MovedExists DEF Positions
<1>2. Positions(l)[0] = 0
  BY <1>1, MovedSteps
<1>3. ASSUME NEW e \in Entry
      PROVE  /\ \A n \in 0 .. Len(l) : Positions(Append(l, e))[n] = Positions(l)[n]
             /\ Positions(Append(l, e))[Len(l) + 1] = Moves(e, Positions(l)[Len(l)])
  <2> DEFINE g == [n \in 0 .. Len(l) + 1 |-> IF n = Len(l) + 1 THEN Moves(e, Positions(l)[Len(l)]) ELSE Positions(l)[n]]
  <2>1. Append(l, e) \in Seq(Entry) /\ Len(l) \in Nat
    OBVIOUS
  <2>2. Moved(Append(l, e), Positions(Append(l, e)))
    BY <2>1, MovedExists DEF Positions
  <2>3. Moved(Append(l, e), g)
    BY <1>1, MovedGrows
  <2> HIDE DEF g
  <2>4. Positions(Append(l, e)) = g
    BY <2>1, <2>2, <2>3, MovedUnique
  <2> QED
    BY <2>1, <2>4 DEF g
<1> QED
  BY <1>2, <1>3

LEMMA PositionOfLog == Position = Positions(log) /\ Position' = Positions(log')
BY DEF Position, Positions, Moved

-----------------------------------------------------------------------------
(* What a caller gets, of a call that started at this position.            *)
Tiles(c, at) ==
    c.kind # "seek" =>
      /\ \A i \in DOMAIN c.bytes : c.bytes[i].at = at + i - 1
      /\ c.result = "eof" => at + Len(c.bytes) >= Size
      /\ c.result = "ok" => Len(c.bytes) > 0 /\ (c.kind = "readAt" => Len(c.bytes) = c.len)

(* These are the bytes of the resource from this offset on.                *)
LaidFrom(bytes, at) == \A i \in DOMAIN bytes : bytes[i].at = at + i - 1

(* The range that a call asks for is the one it needs, as long as there is *)
(* that much of the resource.                                              *)
Planned(c) ==
    /\ c.kind \in {"read", "readAt"} => c.len > 0
    /\ c.at = "request" =>
          /\ c.from < Size
          /\ c.kind = "readAt" => c.from = c.off
          /\ c.want = Least(IF c.kind = "read" /\ c.len < ReadAheadBytes THEN ReadAheadBytes ELSE c.len, Size - c.from)

TileInv ==
    /\ \A t \in Ops : Planned(call[t])
    /\ LaidFrom(source.ahead, source.aheadAt)
    /\ source.pos = Positions(log)[Len(log)]
    /\ ReadsTile

LEMMA TilesOfLog ==
    /\ ReadsTile <=> \A n \in DOMAIN log : Tiles(log[n], IF log[n].kind = "readAt" THEN log[n].off ELSE Positions(log)[n - 1])
    /\ ReadsTile' <=> \A n \in DOMAIN log' : Tiles(log'[n], IF log'[n].kind = "readAt" THEN log'[n].off ELSE Positions(log')[n - 1])
BY PositionOfLog DEF ReadsTile, Tiles

LEMMA BytesLaid ==
    ASSUME NEW v, NEW from \in Nat, NEW n \in Nat
    PROVE  LaidFrom(Bytes(v, from, n), from)
BY DEF Bytes, LaidFrom

LEMMA PartLaid ==
    ASSUME NEW bytes \in Seq(Byte), NEW at \in Nat, LaidFrom(bytes, at),
           NEW first \in Nat, NEW n \in Nat, first + n <= Len(bytes)
    PROVE  /\ SubSeq(bytes, first + 1, first + n) \in Seq(Byte)
           /\ Len(SubSeq(bytes, first + 1, first + n)) = n
           /\ LaidFrom(SubSeq(bytes, first + 1, first + n), at + first)
<1> DEFINE part == SubSeq(bytes, first + 1, first + n)
<1>1. /\ part \in Seq(Byte) /\ Len(part) = n
      /\ \A i \in 1 .. n : part[i] = bytes[first + i]
  BY SubSeqProperties
<1>2. DOMAIN part = 1 .. n /\ DOMAIN bytes = 1 .. Len(bytes) /\ Len(bytes) \in Nat
  BY <1>1
<1> HIDE DEF part
<1>3. ASSUME NEW i \in DOMAIN part
      PROVE  part[i].at = at + first + i - 1
  <2>1. first + i \in DOMAIN bytes /\ i \in 1 .. n
    BY <1>2
  <2>2. bytes[first + i].at = at + (first + i) - 1
    BY <2>1 DEF LaidFrom
  <2> QED
    BY <1>1, <2>1, <2>2
<1> QED
  BY <1>1, <1>3 DEF part, LaidFrom

\* A step that logs nothing.
LEMMA Unlogged ==
    ASSUME TileInv, UNCHANGED log, source'.pos = source.pos,
           LaidFrom(source'.ahead, source'.aheadAt), \A t \in Ops : Planned(call'[t])
    PROVE  TileInv'
<1>1. ReadsTile'
  BY TilesOfLog DEF TileInv
<1> QED
  BY <1>1 DEF TileInv, LaidFrom, Planned

LEMMA IdlePlanned == Planned(Idle) /\ LaidFrom(<<>>, source'.aheadAt)
BY DEF Planned, Idle, LaidFrom

(* A call that returns these bytes with this result.                       *)
LEMMA ReturnTiles ==
    ASSUME HttpInv, TileInv, NEW t \in Ops, call[t].kind \in {"read", "readAt", "seek"},
           NEW bytes \in Seq(Byte), NEW result \in {"ok", "eof", "error"}, Return(t, bytes, result),
           NEW at, at = (IF call[t].kind = "readAt" THEN call[t].off ELSE source.pos),
           LaidFrom(bytes, at),
           result = "eof" => at + Len(bytes) >= Size,
           result = "ok" /\ call[t].kind # "seek" => Len(bytes) > 0 /\ (call[t].kind = "readAt" => Len(bytes) = call[t].len),
           LaidFrom(source'.ahead, source'.aheadAt),
           bytes = <<>> /\ result = "error" => source'.pos = source.pos,
           ~(bytes = <<>> /\ result = "error") =>
               source'.pos = IF call[t].kind = "seek" THEN call[t].off
                             ELSE IF call[t].kind = "read" THEN source.pos + Len(bytes) ELSE source.pos
    PROVE  TileInv'
<1>1. \A u \in Ops : Planned(call'[u])
  BY IdlePlanned DEF Return, TileInv, HttpInv, TypeOK
<1>2. CASE bytes = <<>> /\ result = "error"
  BY <1>1, <1>2, Unlogged DEF Return
<1>3. CASE ~(bytes = <<>> /\ result = "error")
  <2> DEFINE e == [kind |-> call[t].kind, len |-> call[t].len, off |-> call[t].off,
                   bytes |-> bytes, result |-> result, version |-> version]
  <2>1. log' = Append(log, e)
    BY <1>3 DEF Return
  <2>2. e \in Entry /\ log \in Seq(Entry)
    BY DEF HttpInv, TypeOK, CallRecord, Entry
  <2>3. e.kind = call[t].kind /\ e.bytes = bytes /\ e.result = result /\ e.len = call[t].len /\ e.off = call[t].off
    OBVIOUS
  <2> HIDE DEF e
  <2>4. /\ Len(log) \in Nat /\ Len(log') = Len(log) + 1 /\ DOMAIN log = 1 .. Len(log) /\ DOMAIN log' = 1 .. Len(log) + 1
        /\ \A m \in 1 .. Len(log) : log'[m] = log[m]
        /\ log'[Len(log) + 1] = e
    BY <2>1, <2>2, AppendProperties
  <2>5. /\ \A n \in 0 .. Len(log) : Positions(log')[n] = Positions(log)[n]
        /\ Positions(log')[Len(log) + 1] = Moves(e, source.pos)
    BY <2>1, <2>2, PositionsMove DEF TileInv
  <2>6. source'.pos = Positions(log')[Len(log')]
    BY <1>3, <2>3, <2>4, <2>5 DEF Moves
  <2>7. Tiles(e, at)
    BY <2>3 DEF Tiles, LaidFrom
  <2>8. ASSUME NEW n \in DOMAIN log'
        PROVE  Tiles(log'[n], IF log'[n].kind = "readAt" THEN log'[n].off ELSE Positions(log')[n - 1])
    <3>1. n - 1 \in 0 .. Len(log) /\ (n \in DOMAIN log \/ n = Len(log) + 1)
      BY <2>4
    <3>2. CASE n \in DOMAIN log
      <4>1. log'[n] = log[n] /\ Positions(log')[n - 1] = Positions(log)[n - 1]
        BY <2>4, <2>5, <3>1, <3>2
      <4>2. Tiles(log[n], IF log[n].kind = "readAt" THEN log[n].off ELSE Positions(log)[n - 1])
        BY <3>2, TilesOfLog DEF TileInv
      <4> QED
        BY <4>1, <4>2
    <3>3. CASE n = Len(log) + 1
      <4>1. log'[n] = e /\ Positions(log')[n - 1] = source.pos
        <5>1. n - 1 = Len(log)
          BY <2>4, <3>3
        <5> QED
          BY <2>4, <2>5, <3>1, <3>3, <5>1 DEF TileInv
      <4>2. at = IF log'[n].kind = "readAt" THEN log'[n].off ELSE Positions(log')[n - 1]
        BY <2>3, <4>1
      <4> QED
        BY <2>7, <4>1, <4>2
    <3> QED
      BY <3>1, <3>2, <3>3
  <2>9. ReadsTile'
    BY <2>8, TilesOfLog
  <2> QED
    BY <1>1, <2>6, <2>9 DEF TileInv, LaidFrom, Planned
<1> QED
  BY <1>2, <1>3

\* A call that goes on as planned.
LEMMA GoesOnTiles ==
    ASSUME HttpInv, TileInv, NEW t \in Ops, NEW new, Planned(new), call' = [call EXCEPT ![t] = new],
           UNCHANGED <<source, log>>
    PROVE  TileInv'
<1>1. \A u \in Ops : Planned(call'[u])
  BY DEF TileInv, HttpInv, TypeOK
<1> QED
  BY <1>1, Unlogged DEF TileInv

-----------------------------------------------------------------------------
(* From the read-ahead, from the position on.                              *)
LEMMA AheadTiles ==
    ASSUME HttpInv, TileInv, NEW t \in Ops, call[t].kind = "read",
           NEW s \in [pos : Nat, ahead : Seq(Byte), aheadAt : Nat],
           s.pos = source.pos, s.aheadAt <= s.pos, s.pos < s.aheadAt + Len(s.ahead),
           LaidFrom(s.ahead, s.aheadAt), FromAhead(t, s)
    PROVE  TileInv'
<1> DEFINE first == s.pos - s.aheadAt
           n == Least(call[t].len, Len(s.ahead) - first)
           part == SubSeq(s.ahead, first + 1, first + n)
           result == IF n < call[t].len /\ s.pos + n = Size THEN "eof" ELSE "ok"
<1>1. s.pos \in Nat /\ s.aheadAt \in Nat /\ s.ahead \in Seq(Byte) /\ Len(s.ahead) \in Nat /\ call[t].len \in Nat
  BY LenProperties DEF HttpInv, TypeOK, CallRecord
<1>2. call[t].len > 0
  BY DEF TileInv, Planned
<1>3. first \in Nat /\ n \in Nat /\ n > 0 /\ first + n <= Len(s.ahead) /\ s.aheadAt + first = s.pos
  <2> DEFINE k == Len(s.ahead)
             len == call[t].len
  <2>1. k \in Nat /\ len \in Nat /\ len > 0 /\ s.pos < s.aheadAt + k /\ n = Least(len, k - first)
    BY <1>1, <1>2
  <2> HIDE DEF n, k, len
  <2>2. first \in Nat /\ first < k /\ s.aheadAt + first = s.pos
    BY <1>1, <2>1
  <2> HIDE DEF first
  <2>3. n \in Nat /\ n > 0 /\ first + n <= k
    BY <2>1, <2>2 DEF Least
  <2> QED
    BY <2>2, <2>3 DEF k
<1>4. Return(t, part, result) /\ source' = [s EXCEPT !.pos = @ + n]
  BY DEF FromAhead
<1>5. result \in {"ok", "eof", "error"} /\ (result = "eof" => s.pos + n = Size)
  OBVIOUS
<1> HIDE DEF result, n, first
<1>6. part \in Seq(Byte) /\ Len(part) = n /\ LaidFrom(part, s.aheadAt + first)
  <2> DEFINE bytes == s.ahead
             from == s.aheadAt
  <2>1. bytes \in Seq(Byte) /\ from \in Nat /\ LaidFrom(bytes, from) /\ first + n <= Len(bytes)
    BY <1>1, <1>3
  <2>2. part = SubSeq(bytes, first + 1, first + n)
    OBVIOUS
  <2> HIDE DEF bytes, from, part
  <2>3. first \in Nat /\ n \in Nat
    BY <1>3
  <2> HIDE DEF first, n
  <2>4. /\ SubSeq(bytes, first + 1, first + n) \in Seq(Byte)
        /\ Len(SubSeq(bytes, first + 1, first + n)) = n
        /\ LaidFrom(SubSeq(bytes, first + 1, first + n), from + first)
    BY <2>1, <2>3, PartLaid
  <2> QED
    BY <2>2, <2>4 DEF from
<1> HIDE DEF part
<1>7. source'.pos = s.pos + n /\ source'.ahead = s.ahead /\ source'.aheadAt = s.aheadAt
  BY <1>1, <1>3, <1>4
<1>8. part # <<>>
  BY <1>3, <1>6, EmptySeq
<1>9. result = "eof" => source.pos + Len(part) >= Size
  BY <1>1, <1>3, <1>5, <1>6, HTTPAssumption
<1> QED
  BY <1>3, <1>4, <1>5, <1>6, <1>7, <1>8, <1>9, ReturnTiles

\* What is fetched: all that the call wants, or some of it and a failure.
LEMMA FetchedTiles ==
    ASSUME HttpInv, TileInv, NEW t \in Ops, At(t, "request"), NEW bytes \in Seq(Byte), NEW ok \in BOOLEAN,
           LaidFrom(bytes, call[t].from), ok => Len(bytes) = call[t].want, Fetched(t, bytes, ok)
    PROVE  TileInv'
<1> DEFINE c == call[t]
           result == IF ~ok THEN "error" ELSE IF c.want < c.len THEN "eof" ELSE "ok"
<1>1. /\ c \in CallRecord /\ c.from \in Nat /\ c.want \in Nat /\ c.len \in Nat /\ c.off \in Nat
      /\ c.at = "request" /\ c.kind \in {"read", "readAt"}
      /\ c.kind = "read" => c.from = source.pos
      /\ source \in [pos : Nat, ahead : Seq(Byte), aheadAt : Nat] /\ LaidFrom(source.ahead, source.aheadAt)
  BY DEF HttpInv, TypeOK, Positioned, At, CallRecord, TileInv
<1>2. /\ c.len > 0 /\ c.from < Size
      /\ c.kind = "readAt" => c.from = c.off
      /\ c.want = Least(IF c.kind = "read" /\ c.len < ReadAheadBytes THEN ReadAheadBytes ELSE c.len, Size - c.from)
  BY <1>1 DEF TileInv, Planned
<1>3. Len(bytes) \in Nat /\ Size \in Nat /\ ReadAheadBytes \in Nat \cup {-1}
  BY LenProperties, HTTPAssumption
<1>4. result \in {"ok", "eof", "error"} /\ (result # "error" => ok) /\ (result = "error" => ~ok)
      /\ (result = "eof" => c.want < c.len) /\ (result = "ok" => c.want >= c.len)
  BY <1>1
<1>5. c.want > 0
  BY <1>1, <1>2, <1>3 DEF Least
<1>6. CASE c.kind = "readAt"
  <2>1. Return(t, bytes, result) /\ source' = source
    BY <1>6 DEF Fetched
  <2>2. c.want = Least(c.len, Size - c.from) /\ c.from = c.off
    BY <1>2, <1>6
  <2>3. /\ result = "eof" => c.off + Len(bytes) >= Size
        /\ result = "ok" => Len(bytes) > 0 /\ Len(bytes) = c.len
    BY <1>1, <1>2, <1>3, <1>4, <2>2 DEF Least
  <2> HIDE DEF result
  <2> QED
    BY <1>1, <1>4, <1>6, <2>1, <2>2, <2>3, ReturnTiles
<1>7. CASE c.kind = "read" /\ Direct(t)
  <2>1. Return(t, bytes, result) /\ source' = [source EXCEPT !.pos = @ + Len(bytes)]
    BY <1>7 DEF Fetched
  <2>2. source'.pos = source.pos + Len(bytes) /\ source'.ahead = source.ahead /\ source'.aheadAt = source.aheadAt
    BY <1>1, <2>1
  <2>3. c.want = Least(c.len, Size - c.from) /\ c.from = source.pos
    BY <1>1, <1>2, <1>3, <1>7 DEF Direct
  <2>4. /\ result = "eof" => source.pos + Len(bytes) >= Size
        /\ result = "ok" => Len(bytes) > 0
    BY <1>1, <1>2, <1>3, <1>4, <1>5, <2>3 DEF Least
  <2>5. bytes = <<>> => source'.pos = source.pos
    BY <1>1, <2>2
  <2> HIDE DEF result
  <2> QED
    BY <1>1, <1>4, <1>7, <2>1, <2>2, <2>3, <2>4, <2>5, ReturnTiles
<1>8. CASE c.kind = "read" /\ ~Direct(t) /\ ok
  <2> DEFINE s == [source EXCEPT !.ahead = bytes, !.aheadAt = c.from]
  <2>1. FromAhead(t, s)
    BY <1>8 DEF Fetched
  <2>2. /\ s \in [pos : Nat, ahead : Seq(Byte), aheadAt : Nat]
        /\ s.pos = source.pos /\ s.ahead = bytes /\ s.aheadAt = c.from
    BY <1>1
  <2> HIDE DEF s
  <2>3. s.aheadAt <= s.pos /\ s.pos < s.aheadAt + Len(s.ahead)
    BY <1>1, <1>3, <1>5, <1>8, <2>2
  <2> QED
    BY <1>8, <2>1, <2>2, <2>3, AheadTiles
<1>9. CASE c.kind = "read" /\ ~Direct(t) /\ ~ok
  <2>1. Return(t, <<>>, "error") /\ source' = [source EXCEPT !.ahead = <<>>]
    BY <1>9 DEF Fetched
  <2>2. source'.ahead = <<>> /\ source'.pos = source.pos /\ <<>> \in Seq(Byte) /\ LaidFrom(<<>>, source.pos)
    BY <1>1, <2>1, NoBytes DEF LaidFrom
  <2> QED
    BY <1>9, <2>1, <2>2, IdlePlanned, ReturnTiles
<1> QED
  BY <1>1, <1>6, <1>7, <1>8, <1>9

-----------------------------------------------------------------------------
\* Nothing read, nothing or the end reported.
LEMMA EmptyTiles ==
    ASSUME HttpInv, TileInv, NEW t \in Ops, call[t].kind \in {"read", "readAt"},
           NEW result \in {"eof", "error"}, Return(t, <<>>, result), source'.pos = source.pos,
           source'.ahead = <<>> \/ source' = source,
           result = "eof" => (IF call[t].kind = "readAt" THEN call[t].off ELSE source.pos) >= Size
    PROVE  TileInv'
<1> DEFINE at == IF call[t].kind = "readAt" THEN call[t].off ELSE source.pos
<1>1. at \in Nat /\ source.pos \in Nat /\ <<>> \in Seq(Byte) /\ Len(<<>>) = 0 /\ Size \in Nat
  BY NoBytes, HTTPAssumption DEF HttpInv, TypeOK, CallRecord
<1>2. LaidFrom(<<>>, at) /\ LaidFrom(source'.ahead, source'.aheadAt)
  BY IdlePlanned DEF TileInv, LaidFrom
<1>3. result = "eof" => at + Len(<<>>) >= Size
  BY <1>1
<1>4. at = IF call[t].kind = "readAt" THEN call[t].off ELSE source.pos
  OBVIOUS
<1>5. source'.pos = IF call[t].kind = "read" THEN source.pos + Len(<<>>) ELSE source.pos
  BY <1>1
<1> HIDE DEF at
<1> QED
  BY <1>1, <1>2, <1>3, <1>4, <1>5, ReturnTiles

LEMMA SeekTiles ==
    ASSUME HttpInv, TileInv, NEW t \in Ops, Seek(t)
    PROVE  TileInv'
<1>1. call[t].kind = "seek" /\ <<>> \in Seq(Byte) /\ LaidFrom(<<>>, source.pos)
  BY NoBytes DEF Seek, LaidFrom
<1>2. source \in [pos : Nat, ahead : Seq(Byte), aheadAt : Nat] /\ LaidFrom(source.ahead, source.aheadAt)
  BY DEF HttpInv, TypeOK, TileInv
<1>3. CASE Return(t, <<>>, "error") /\ source' = source
  BY <1>1, <1>2, <1>3, ReturnTiles
<1>4. CASE source' = [source EXCEPT !.pos = call[t].off, !.ahead = <<>>] /\ Return(t, <<>>, "ok")
  <2>1. source'.pos = call[t].off /\ source'.ahead = <<>>
    BY <1>2, <1>4
  <2> QED
    BY <1>1, <1>4, <2>1, IdlePlanned, ReturnTiles
<1> QED
  BY <1>3, <1>4 DEF Seek

LEMMA ReadTiles ==
    ASSUME HttpInv, TileInv, NEW t \in Ops, Read(t)
    PROVE  TileInv'
<1>1. /\ call[t].kind = "read" /\ call[t] \in CallRecord
      /\ source \in [pos : Nat, ahead : Seq(Byte), aheadAt : Nat] /\ LaidFrom(source.ahead, source.aheadAt)
  BY DEF Read, HttpInv, TypeOK, TileInv
<1>2. CASE Return(t, <<>>, "error") /\ source' = source
  BY <1>1, <1>2, EmptyTiles
<1>3. CASE Ahead /\ FromAhead(t, source)
  BY <1>1, <1>3, AheadTiles DEF Ahead
<1>4. CASE Goto(t, "range")
  <2> DEFINE new == [call[t] EXCEPT !.at = "range"]
  <2>1. new.kind = call[t].kind /\ new.len = call[t].len /\ new.at = "range"
    BY <1>1 DEF CallRecord
  <2>2. call' = [call EXCEPT ![t] = new] /\ UNCHANGED <<source, log>>
    BY <1>4 DEF Goto
  <2> HIDE DEF new
  <2>3. Planned(new)
    BY <2>1 DEF TileInv, Planned
  <2> QED
    BY <2>2, <2>3, GoesOnTiles
<1> QED
  BY <1>2, <1>3, <1>4 DEF Read

LEMMA PlanTiles ==
    ASSUME HttpInv, TileInv, NEW t \in Ops, PlanRange(t)
    PROVE  TileInv'
<1> DEFINE from == IF call[t].kind = "readAt" THEN call[t].off ELSE source.pos
           want == IF call[t].kind = "readAt" \/ Direct(t) THEN call[t].len ELSE ReadAheadBytes
<1>1. /\ call[t].kind \in {"read", "readAt"} /\ call[t] \in CallRecord
      /\ source \in [pos : Nat, ahead : Seq(Byte), aheadAt : Nat]
      /\ Size \in Nat /\ ReadAheadBytes \in Nat \cup {-1}
  BY HTTPAssumption DEF PlanRange, At, HttpInv, TypeOK, Positioned
<1>2. CASE Return(t, <<>>, "error") /\ source' = source
  BY <1>1, <1>2, EmptyTiles
<1>3. CASE Return(t, <<>>, "error") /\ source' = [source EXCEPT !.ahead = <<>>]
  <2>1. source'.pos = source.pos /\ source'.ahead = <<>>
    BY <1>1, <1>3
  <2> QED
    BY <1>1, <1>3, <2>1, EmptyTiles
<1>4. CASE from >= Size /\ Return(t, <<>>, "eof") /\ source' = source
  BY <1>1, <1>4, EmptyTiles
<1>5. CASE /\ ~(from >= Size)
           /\ call' = [call EXCEPT ![t].at = "request", ![t].from = from, ![t].want = Least(want, Size - from)]
           /\ UNCHANGED <<source, log>>
  <2>1. from \in Nat /\ from < Size
    BY <1>1, <1>5 DEF CallRecord
  <2>2. want = IF call[t].kind = "read" /\ call[t].len < ReadAheadBytes THEN ReadAheadBytes ELSE call[t].len
    BY <1>1, <2>1 DEF Direct, CallRecord
  <2>3. call[t].kind = "readAt" => from = call[t].off
    OBVIOUS
  <2> HIDE DEF from, want
  <2> DEFINE new == [call[t] EXCEPT !.at = "request", !.from = from, !.want = Least(want, Size - from)]
  <2>4. /\ new.kind = call[t].kind /\ new.len = call[t].len /\ new.off = call[t].off
        /\ new.from = from /\ new.want = Least(want, Size - from)
    BY <1>1 DEF CallRecord
  <2>5. call' = [call EXCEPT ![t] = new]
    BY <1>1, <1>5 DEF HttpInv, TypeOK, CallRecord
  <2> HIDE DEF new
  <2>6. Planned(new)
    BY <2>1, <2>2, <2>3, <2>4 DEF TileInv, Planned
  <2> QED
    BY <1>5, <2>5, <2>6, GoesOnTiles
<1> QED
  BY <1>2, <1>3, <1>4, <1>5 DEF PlanRange

LEMMA BrokenTiles ==
    ASSUME HttpInv, TileInv, NEW t \in Ops, At(t, "request"), NEW bytes \in Seq(Byte),
           LaidFrom(bytes, call[t].from), Broken(t, bytes)
    PROVE  TileInv'
<1>1. CASE Fetched(t, bytes, FALSE)
  BY <1>1, FetchedTiles
<1>2. CASE call' = [call EXCEPT ![t].attempt = @ + 1] /\ UNCHANGED <<mutexVars, closed, source, validated, version, log, calls>>
  <2> DEFINE new == [call[t] EXCEPT !.attempt = @ + 1]
  <2>1. call[t] \in CallRecord
    BY DEF HttpInv, TypeOK
  <2>2. /\ new.at = call[t].at /\ new.kind = call[t].kind /\ new.from = call[t].from
        /\ new.len = call[t].len /\ new.off = call[t].off /\ new.want = call[t].want
    BY <2>1 DEF CallRecord
  <2>3. call' = [call EXCEPT ![t] = new]
    BY <1>2
  <2> HIDE DEF new
  <2>4. Planned(new)
    BY <2>2 DEF TileInv, Planned
  <2> QED
    BY <1>2, <2>3, <2>4, GoesOnTiles
<1> QED
  BY <1>1, <1>2 DEF Broken

LEMMA ServerTiles ==
    ASSUME HttpInv, TileInv, NEW t \in Ops, RequestFails(t) \/ Unfit(t) \/ Answer(t) \/ Truncated(t)
    PROVE  TileInv'
<1>1. At(t, "request")
  BY DEF RequestFails, Unfit, Answer, Truncated
<1>2. call[t].from \in Nat /\ call[t].want \in Nat /\ version \in {1, 2}
  BY DEF HttpInv, TypeOK, CallRecord
<1>3. LaidFrom(<<>>, call[t].from)
  BY DEF LaidFrom
<1>4. CASE RequestFails(t)
  BY <1>1, <1>3, <1>4, NoBytes, BrokenTiles DEF RequestFails
<1>5. CASE Unfit(t)
  BY <1>1, <1>3, <1>5, NoBytes, FetchedTiles DEF Unfit
<1>6. ASSUME Fits, NEW n \in Nat
      PROVE  /\ Bytes(version, call[t].from, n) \in Seq(Byte) /\ Len(Bytes(version, call[t].from, n)) = n
             /\ LaidFrom(Bytes(version, call[t].from, n), call[t].from)
  BY <1>2, <1>6, BytesFresh, BytesLaid DEF HttpInv
<1>7. CASE Answer(t)
  <2>1. Fits /\ \E ok \in BOOLEAN : Fetched(t, Bytes(version, call[t].from, call[t].want), ok)
    BY <1>7 DEF Answer
  <2> QED
    BY <1>1, <1>2, <1>6, <2>1, FetchedTiles
<1>8. CASE Truncated(t)
  <2>1. PICK n \in 0 .. call[t].want : Broken(t, Bytes(version, call[t].from, n))
    BY <1>8 DEF Truncated
  <2>2. n \in Nat /\ Fits
    BY <1>2, <1>8 DEF Truncated
  <2> QED
    BY <1>1, <1>6, <2>1, <2>2, BrokenTiles
<1> QED
  BY <1>4, <1>5, <1>7, <1>8

LEMMA OutsideTiles ==
    ASSUME HttpInv, TileInv, NEW t \in Ops,
           \/ Lock(t) \/ Cancel(t)
           \/ \E kind \in {"read", "readAt", "seek", "close"}, len \in Nat, off \in Nat :
                 Call(t, kind, len, off) /\ (kind \in {"read", "readAt"} => len > 0)
    PROVE  TileInv'
<1>1. UNCHANGED <<source, log>>
  BY DEF Lock, Cancel, Call
<1>2. CASE Lock(t) \/ Cancel(t)
  <2>1. \A u \in Ops : call'[u] \in {Idle, call[u]}
    BY <1>2 DEF Lock, Cancel, HttpInv, TypeOK
  <2> QED
    BY <1>1, <2>1, IdlePlanned, Unlogged DEF TileInv
<1>3. ASSUME NEW kind \in {"read", "readAt", "seek", "close"}, NEW len \in Nat, NEW off \in Nat,
             Call(t, kind, len, off), kind \in {"read", "readAt"} => len > 0
      PROVE  TileInv'
  <2> DEFINE made == [Idle EXCEPT !.kind = kind, !.len = len, !.off = off, !.at = "start"]
  <2>1. call' = call \/ call' = [call EXCEPT ![t] = made]
    BY <1>3 DEF Call
  <2>2. made.kind = kind /\ made.len = len /\ made.at = "start"
    BY DEF Idle
  <2> HIDE DEF made
  <2>3. Planned(made)
    BY <1>3, <2>2 DEF Planned
  <2> QED
    BY <1>1, <2>1, <2>3, GoesOnTiles, Unlogged DEF TileInv
<1> QED
  BY <1>2, <1>3

LEMMA TileInitInvariant == Init => TileInv
<1> SUFFICES ASSUME Init PROVE TileInv
  OBVIOUS
<1>1. log = <<>> /\ log \in Seq(Entry) /\ Len(log) = 0 /\ DOMAIN log = {}
  BY EmptySeq DEF Init
<1>2. Positions(log)[0] = 0
  BY <1>1, PositionsMove
<1>3. ReadsTile
  BY <1>1 DEF ReadsTile
<1>4. \A t \in Ops : Planned(call[t])
  BY IdlePlanned DEF Init
<1> QED
  BY <1>1, <1>2, <1>3, <1>4 DEF Init, TileInv, LaidFrom

LEMMA TileStepInvariant == HttpInv /\ TileInv /\ [Next]_vars => TileInv'
<1> SUFFICES ASSUME HttpInv, TileInv, [Next]_vars PROVE TileInv'
  OBVIOUS
<1>1. CASE UNCHANGED vars \/ Replace
  BY <1>1, Unlogged DEF vars, Replace, TileInv
<1>2. ASSUME NEW t \in Ops,
             \/ \E len \in Lengths : Call(t, "read", len, 0) \/ \E off \in Offsets : Call(t, "readAt", len, off)
             \/ \E off \in Offsets : Call(t, "seek", 0, off)
             \/ Call(t, "close", 0, 0)
      PROVE  TileInv'
  <2>1. \A len \in Lengths : len \in Nat /\ len > 0
    BY HTTPAssumption
  <2>2. \A off \in Offsets : off \in Nat
    BY HTTPAssumption
  <2>3. \E kind \in {"read", "readAt", "seek", "close"}, len \in Nat, off \in Nat :
           Call(t, kind, len, off) /\ (kind \in {"read", "readAt"} => len > 0)
    BY <1>2, <2>1, <2>2
  <2> QED
    BY <2>3, OutsideTiles
<1>3. ASSUME NEW t \in Ops,
             Cancel(t) \/ Lock(t) \/ Seek(t) \/ Read(t) \/ PlanRange(t)
             \/ RequestFails(t) \/ Unfit(t) \/ Answer(t) \/ Truncated(t)
      PROVE  TileInv'
  BY <1>3, OutsideTiles, SeekTiles, ReadTiles, PlanTiles, ServerTiles
<1> QED
  BY <1>1, <1>2, <1>3 DEF Next

(* The bytes that reads return, in the order in which they were admitted,  *)
(* are those of the resource from where the last seek went on, none        *)
(* missing and none repeated, whatever failed and was tried again in       *)
(* between; the end is reported there only.                                *)
THEOREM ReadsTileAlways == Spec => []ReadsTile
<1>1. Init => TileInv
  BY TileInitInvariant
<1>2. HttpInv /\ TileInv /\ [Next]_vars => TileInv'
  BY TileStepInvariant
<1>3. TileInv => ReadsTile
  BY DEF TileInv
<1> QED
  BY <1>1, <1>2, <1>3, HttpInvariance, PTL DEF Spec

===============================================================================
