----------------------------- MODULE RemuxProofs -----------------------------
(***************************************************************************)
(* Proofs about Remux and RemuxFiles, for any number of inputs, any packets*)
(* and any time bases: the packets written are a stable merge by exact     *)
(* time, only a finished container that holds them all takes the output's  *)
(* place, and the old file is never gone before the new one is there.      *)
(***************************************************************************)
EXTENDS RemuxFiles, SequenceTheorems, TLAPS

\* Input i has not been read.
Fresh(i) == pos[i] = 0 /\ written[i] = 0 /\ next[i] = None /\ ~done[i]

\* Input i is at its end, or its next packet is held and all before it written.
Ready(i) ==
    \/ done[i] /\ next[i] = None /\ pos[i] = Len(files[i]) /\ written[i] = pos[i]
    \/ ~done[i] /\ pos[i] \in 1 .. Len(files[i]) /\ next[i] = files[i][pos[i]] /\ written[i] = pos[i] - 1

Succeeded == pc \in {"closeInputs", "returned"} /\ err = FALSE

\* Where the loop is, and what it knows of each input there.
Progress ==
    /\ pc \in {"open", "mux", "add"} => cur = 1 /\ \A i \in Inputs : Fresh(i)
    /\ pc = "prime" => \A i \in Inputs : IF i < cur THEN Ready(i) ELSE Fresh(i)
    /\ pc = "pick" => \A i \in Inputs : Ready(i)
    /\ pc = "refill" =>
           /\ cur \in Inputs /\ next[cur] = None /\ ~done[cur] /\ written[cur] = pos[cur]
           /\ \A i \in Inputs : i # cur => Ready(i)
    /\ pc \in {"finalize", "late"} \/ Succeeded => \A i \in Inputs : Ready(i) /\ done[i]
    /\ pc = "late" \/ Succeeded => dst = "complete"
    /\ pc \in {"release", "closeMuxer"} => err = TRUE
    /\ pc \notin {"release", "closeMuxer", "closeInputs", "returned"} => err = FALSE

RemuxInv == TypeOK /\ Progress

-----------------------------------------------------------------------------
(* Comparing signs and then products of magnitudes, as compareRemuxDTS     *)
(* does, is comparing the exact times.                                     *)
LEMMA SignedProduct ==
    ASSUME NEW a \in Int, NEW p \in Nat \ {0}, NEW r \in Nat \ {0}
    PROVE  /\ Magnitude(a) * p * r \in Nat /\ a * (p * r) \in Int
           /\ a < 0 => a * (p * r) < 0 /\ Magnitude(a) * p * r = -(a * (p * r))
           /\ a >= 0 => a * (p * r) >= 0 /\ Magnitude(a) * p * r = a * (p * r)
<1>1. p * r \in Nat \ {0}
  OBVIOUS
<1>2. Magnitude(a) \in Nat
  BY DEF Magnitude
<1>3. Magnitude(a) * p * r = Magnitude(a) * (p * r)
  BY <1>2
<1>4. CASE a < 0
  BY <1>1, <1>2, <1>3, <1>4 DEF Magnitude
<1>5. CASE a >= 0
  BY <1>1, <1>2, <1>3, <1>5 DEF Magnitude
<1> QED
  BY <1>4, <1>5

LEMMA ExactOrder ==
    ASSUME NEW p \in Packets, NEW q \in Packets
    PROVE  Before(p, q) <=> Merged!Sooner(p, q)
<1> DEFINE a == p.dts
           b == q.dts
           left == MagnitudeOver(p, q)
           right == MagnitudeOver(q, p)
           l == Merged!TimeOver(p, q)
           r == Merged!TimeOver(q, p)
<1>1. /\ a \in Int /\ b \in Int
      /\ TimeBase[p.stream].num \in Nat \ {0} /\ TimeBase[p.stream].den \in Nat \ {0}
      /\ TimeBase[q.stream].num \in Nat \ {0} /\ TimeBase[q.stream].den \in Nat \ {0}
  BY RemuxAssumption DEF Packets
<1>2. /\ left \in Nat /\ l \in Int
      /\ a < 0 => l < 0 /\ left = -l
      /\ a >= 0 => l >= 0 /\ left = l
  BY <1>1, SignedProduct DEF MagnitudeOver, Merged!TimeOver
<1>3. /\ right \in Nat /\ r \in Int
      /\ b < 0 => r < 0 /\ right = -r
      /\ b >= 0 => r >= 0 /\ right = r
  BY <1>1, SignedProduct DEF MagnitudeOver, Merged!TimeOver
<1>4. Before(p, q) <=> \/ a < 0 /\ b >= 0
                       \/ a >= 0 /\ b >= 0 /\ left < right
                       \/ a < 0 /\ b < 0 /\ left > right
  BY DEF Before
<1> HIDE DEF left, right, l, r, a, b
<1>5. Before(p, q) <=> l < r
  BY <1>1, <1>2, <1>3, <1>4
<1> QED
  BY <1>5 DEF Merged!Sooner, l, r

-----------------------------------------------------------------------------
LEMMA FileTypes ==
    ASSUME TypeOK, NEW i \in Inputs
    PROVE  /\ files[i] \in Seq(Packets) /\ Len(files[i]) \in Nat
           /\ DOMAIN files[i] = 1 .. Len(files[i])
           /\ \A n \in 1 .. Len(files[i]) : files[i][n] \in Packets /\ files[i][n] # None
BY RemuxAssumption DEF TypeOK

LEMMA InitRemux == Init => RemuxInv
<1> SUFFICES ASSUME Init PROVE RemuxInv
  OBVIOUS
<1>1. TypeOK
  <2>1. NInputs \in Nat /\ 1 \in 1 .. NInputs + 1 /\ 0 \in 0 .. NInputs
    BY RemuxAssumption
  <2>2. \A i \in Inputs : files[i] \in Seq(Packets) /\ pos[i] <= Len(files[i])
    BY RemuxAssumption DEF Init
  <2>3. released \in Seq(Inputs \X Nat) /\ output \in Seq([from : Inputs, packet : Packets])
    BY DEF Init
  <2> QED
    BY <2>1, <2>2, <2>3 DEF TypeOK, Init
<1>2. Progress
  BY DEF Init, Progress, Fresh, Succeeded
<1> QED
  BY <1>1, <1>2 DEF RemuxInv

(* A read that succeeds takes a packet or finds the end.                   *)
LEMMA ReadStep ==
    ASSUME TypeOK, NEW i \in Inputs, Read(i), next[i] = None, ~done[i], written[i] = pos[i],
           UNCHANGED <<files, written>>
    PROVE  /\ pos' \in [Inputs -> Nat] /\ next' \in [Inputs -> Packets \cup {None}]
           /\ done' \in [Inputs -> BOOLEAN]
           /\ \A j \in Inputs : pos'[j] <= Len(files[j])
           /\ Ready(i)'
           /\ \A j \in Inputs : j # i => (Ready(j) => Ready(j)') /\ (Fresh(j) => Fresh(j)')
<1> USE DEF Ready, Fresh, Read
<1>0. /\ pos \in [Inputs -> Nat] /\ next \in [Inputs -> Packets \cup {None}] /\ done \in [Inputs -> BOOLEAN]
      /\ \A j \in Inputs : pos[j] <= Len(files[j])
  BY DEF TypeOK
<1>1. /\ pos[i] \in Nat /\ pos[i] <= Len(files[i]) /\ Len(files[i]) \in Nat
      /\ \A n \in 1 .. Len(files[i]) : files[i][n] \in Packets
  BY <1>0, FileTypes
<1>2. CASE pos[i] = Len(files[i])
  BY <1>0, <1>1, <1>2
<1>3. CASE pos[i] # Len(files[i])
  <2>1. pos[i] + 1 \in 1 .. Len(files[i])
    BY <1>1, <1>3
  <2>2. /\ pos' = [pos EXCEPT ![i] = @ + 1] /\ done' = done
        /\ next' = [next EXCEPT ![i] = files[i][pos[i] + 1]]
    BY <1>3
  <2>3. /\ pos' \in [Inputs -> Nat] /\ next' \in [Inputs -> Packets \cup {None}]
        /\ done' \in [Inputs -> BOOLEAN]
    BY <1>0, <1>1, <2>1, <2>2
  <2>4. pos'[i] = pos[i] + 1 /\ next'[i] = files[i][pos[i] + 1] /\ ~done'[i]
    BY <1>0, <2>2
  <2>5. \A j \in Inputs : j # i => pos'[j] = pos[j] /\ next'[j] = next[j] /\ done'[j] = done[j]
    BY <1>0, <2>2
  <2>6. \A j \in Inputs : pos'[j] <= Len(files[j])
    BY <1>0, <1>1, <2>1, <2>4, <2>5
  <2>7. Ready(i)'
    BY <1>1, <2>1, <2>4
  <2>8. \A j \in Inputs : j # i => (Ready(j) => Ready(j)') /\ (Fresh(j) => Fresh(j)')
    BY <2>5
  <2> QED
    BY <2>3, <2>6, <2>7, <2>8
<1> QED
  BY <1>2, <1>3

LEMMA ReadFailsStep ==
    ASSUME TypeOK, NEW i \in Inputs, ReadFails(i)
    PROVE  /\ pos' \in [Inputs -> Nat] /\ \A j \in Inputs : pos'[j] <= Len(files[j])
           /\ released' \in Seq(Inputs \X Nat)
<1> USE DEF ReadFails
<1>0. /\ pos \in [Inputs -> Nat] /\ released \in Seq(Inputs \X Nat)
      /\ \A j \in Inputs : pos[j] <= Len(files[j])
  BY DEF TypeOK
<1>1. pos[i] \in Nat /\ <<i, pos[i] + 1>> \in Inputs \X Nat /\ Len(files[i]) \in Nat
  BY <1>0, FileTypes
<1>2. CASE UNCHANGED <<pos, released>>
  BY <1>0, <1>2
<1>3. CASE /\ pos[i] < Len(files[i]) /\ pos' = [pos EXCEPT ![i] = @ + 1]
           /\ released' = Append(released, <<i, pos[i] + 1>>)
  <2>1. released' \in Seq(Inputs \X Nat)
    BY <1>0, <1>1, <1>3, AppendProperties
  <2>2. pos' \in [Inputs -> Nat] /\ \A j \in Inputs : pos'[j] <= Len(files[j])
    BY <1>0, <1>1, <1>3
  <2> QED
    BY <2>1, <2>2
<1> QED
  BY <1>2, <1>3

-----------------------------------------------------------------------------
LEMMA StepRemux == RemuxInv /\ [Next]_remuxVars => RemuxInv'
<1> SUFFICES ASSUME RemuxInv, [Next]_remuxVars
             PROVE  TypeOK' /\ Progress'
  BY DEF RemuxInv
<1> USE DEF RemuxInv, remuxVars, readVars, muxVars, ownVars, Goto, FailTo
<1>0. NInputs \in Nat \ {0} /\ Inputs = 1 .. NInputs
  BY RemuxAssumption DEF Inputs
<1>1. CASE UNCHANGED remuxVars
  BY <1>1 DEF TypeOK, Progress, Succeeded, Ready, Fresh
<1>2. CASE OpenInput
  <2>1. opened \in 0 .. NInputs /\ opened' \in 0 .. NInputs
    BY <1>0, <1>2, SMTT(30) DEF OpenInput, TypeOK
  <2>2. TypeOK'
    BY <1>2, <2>1 DEF OpenInput, TypeOK
  <2>3. Progress'
    BY <1>0, <1>2 DEF OpenInput, Progress, Succeeded, Fresh
  <2> QED
    BY <2>2, <2>3
<1>3. CASE CreateMuxer
  <2>1. TypeOK'
    BY <1>0, <1>3 DEF CreateMuxer, TypeOK
  <2>2. Progress'
    BY <1>0, <1>3 DEF CreateMuxer, Progress, Succeeded, Fresh
  <2> QED
    BY <2>1, <2>2
<1>4. CASE AddStreams
  <2>1. TypeOK'
    BY <1>0, <1>4 DEF AddStreams, TypeOK
  <2>2. Progress'
    BY <1>0, <1>4 DEF AddStreams, Progress, Succeeded, Fresh
  <2> QED
    BY <2>1, <2>2
<1>5. CASE Prime
  <2>1. CASE cur <= NInputs /\ Read(cur) /\ cur' = cur + 1 /\ UNCHANGED <<pc, err, released>>
    <3>1. pc = "prime" /\ cur \in Inputs /\ cur' \in 1 .. NInputs + 1 /\ UNCHANGED <<files, muxVars, opened, closes>>
      BY <1>0, <1>5, <2>1 DEF Prime, TypeOK
    <3>2. \A i \in Inputs : IF i < cur THEN Ready(i) ELSE Fresh(i)
      BY <3>1 DEF Progress
    <3>3. PICK c \in Inputs : c = cur
      BY <3>1
    <3>4. next[c] = None /\ ~done[c] /\ written[c] = pos[c] /\ UNCHANGED <<files, written>> /\ Read(c)
      BY <1>0, <2>1, <3>1, <3>2, <3>3 DEF Fresh
    <3>5. /\ pos' \in [Inputs -> Nat] /\ next' \in [Inputs -> Packets \cup {None}]
          /\ done' \in [Inputs -> BOOLEAN] /\ \A j \in Inputs : pos'[j] <= Len(files[j])
          /\ Ready(c)'
          /\ \A j \in Inputs : j # c => (Ready(j) => Ready(j)') /\ (Fresh(j) => Fresh(j)')
      BY <3>4, ReadStep, SMTT(60) DEF Ready, Fresh, Read
    <3>6. TypeOK'
      BY <2>1, <3>1, <3>5 DEF TypeOK
    <3>7. \A i \in Inputs : IF i < cur' THEN Ready(i)' ELSE Fresh(i)'
      BY <1>0, <2>1, <3>1, <3>2, <3>3, <3>5
    <3>8. Progress'
      BY <2>1, <3>1, <3>7 DEF Progress, Succeeded
    <3> QED
      BY <3>6, <3>8
  <2>2. CASE cur <= NInputs /\ ReadFails(cur)
    <3>1. /\ cur \in Inputs /\ UNCHANGED <<files, muxVars, opened, closes, next, done, cur>>
          /\ pc' = "release" /\ err' = TRUE
      BY <1>0, <1>5, <2>2 DEF Prime, TypeOK, ReadFails
    <3>2. /\ pos' \in [Inputs -> Nat] /\ \A j \in Inputs : pos'[j] <= Len(files[j])
          /\ released' \in Seq(Inputs \X Nat)
      BY <2>2, <3>1, ReadFailsStep
    <3> QED
      BY <3>1, <3>2 DEF TypeOK, Progress, Succeeded
  <2>3. CASE cur > NInputs /\ Goto("pick") /\ UNCHANGED <<pos, next, done, cur, released>>
    <3>1. pc = "prime" /\ UNCHANGED <<files, muxVars, opened, closes>>
      BY <1>5 DEF Prime
    <3>2. \A i \in Inputs : Ready(i)'
      BY <1>0, <2>3, <3>1 DEF Progress, TypeOK, Ready
    <3> QED
      BY <2>3, <3>1, <3>2 DEF TypeOK, Progress, Succeeded
  <2> QED
    BY <1>5, <2>1, <2>2, <2>3 DEF Prime
<1>6. CASE Merge
  <2>1. pc = "pick" /\ UNCHANGED <<files, pos, done, muxerCloses, dst, opened, closes>> /\ \A i \in Inputs : Ready(i)
    BY <1>6 DEF Merge, Progress
  <2>2. CASE (\A i \in Inputs : done[i]) /\ Goto("finalize") /\ UNCHANGED <<output, written, released, next, cur>>
    BY <2>1, <2>2 DEF TypeOK, Progress, Succeeded, Ready
  <2>3. CASE FailTo("release") /\ UNCHANGED <<output, written, released, next, cur>>
    BY <2>1, <2>3 DEF TypeOK, Progress, Succeeded
  <2>4. ASSUME NEW i \in Inputs, Picked(i), Write(i), cur' = i
        PROVE  TypeOK' /\ Progress'
    <3>1. ~done[i] /\ pos[i] \in 1 .. Len(files[i]) /\ next[i] = files[i][pos[i]] /\ written[i] = pos[i] - 1
      BY <2>1, <2>4 DEF Picked, Ready
    <3>2. next[i] \in Packets /\ <<i, pos[i]>> \in Inputs \X Nat
      BY <3>1, FileTypes DEF TypeOK
    <3>3. /\ released' = Append(released, <<i, pos[i]>>) /\ released' \in Seq(Inputs \X Nat)
          /\ next' = [next EXCEPT ![i] = None] /\ next' \in [Inputs -> Packets \cup {None}]
      BY <2>4, <3>2, AppendProperties DEF Write, TypeOK
    <3>0. cur' \in 1 .. NInputs + 1
      BY <1>0, <2>4
    <3>4. CASE UNCHANGED <<output, written>> /\ FailTo("release")
      <4>1. TypeOK'
        BY <2>1, <3>0, <3>3, <3>4 DEF TypeOK
      <4>2. Progress'
        BY <3>4 DEF Progress, Succeeded
      <4> QED
        BY <4>1, <4>2
    <3>5. CASE /\ output' = Append(output, [from |-> i, packet |-> next[i]])
               /\ written' = [written EXCEPT ![i] = @ + 1]
               /\ Goto("refill")
      <4>1. output' \in Seq([from : Inputs, packet : Packets])
        BY <3>2, <3>5, AppendProperties DEF TypeOK
      <4>2. /\ written' \in [Inputs -> Nat] /\ written'[i] = pos'[i] /\ next'[i] = None
            /\ \A j \in Inputs : j # i => written'[j] = written[j] /\ next'[j] = next[j]
        BY <2>1, <3>1, <3>3, <3>5 DEF TypeOK
      <4>3. \A j \in Inputs : j # i => Ready(j)'
        BY <2>1, <4>2 DEF Ready
      <4>4. TypeOK'
        BY <2>1, <3>0, <3>3, <3>5, <4>1, <4>2 DEF TypeOK
      <4>5. Progress'
        BY <2>1, <2>4, <3>1, <3>5, <4>2, <4>3 DEF Progress, Succeeded
      <4> QED
        BY <4>4, <4>5
    <3> QED
      BY <2>4, <3>4, <3>5 DEF Write
  <2> QED
    BY <1>6, <2>2, <2>3, <2>4 DEF Merge
<1>7. CASE Refill
  <2>1. /\ pc = "refill" /\ UNCHANGED <<files, muxVars, opened, closes>>
        /\ cur \in Inputs /\ next[cur] = None /\ ~done[cur] /\ written[cur] = pos[cur]
        /\ \A i \in Inputs : i # cur => Ready(i)
    BY <1>7 DEF Refill, Progress
  <2>2. CASE Read(cur) /\ Goto("pick") /\ UNCHANGED <<cur, released>>
    <3>1. PICK c \in Inputs : c = cur
      BY <2>1
    <3>2. next[c] = None /\ ~done[c] /\ written[c] = pos[c] /\ UNCHANGED <<files, written>> /\ Read(c)
      BY <2>1, <2>2, <3>1
    <3>3. /\ pos' \in [Inputs -> Nat] /\ next' \in [Inputs -> Packets \cup {None}]
          /\ done' \in [Inputs -> BOOLEAN] /\ \A j \in Inputs : pos'[j] <= Len(files[j])
          /\ Ready(c)'
          /\ \A j \in Inputs : j # c => (Ready(j) => Ready(j)')
      BY <3>2, ReadStep DEF Ready, Fresh, Read
    <3>4. \A i \in Inputs : Ready(i)'
      BY <2>1, <3>1, <3>3
    <3> QED
      BY <2>1, <2>2, <3>3, <3>4 DEF TypeOK, Progress, Succeeded
  <2>3. CASE ReadFails(cur)
    <3>1. UNCHANGED <<next, done, cur>> /\ pc' = "release" /\ err' = TRUE
      BY <2>3 DEF ReadFails
    <3>2. /\ pos' \in [Inputs -> Nat] /\ \A j \in Inputs : pos'[j] <= Len(files[j])
          /\ released' \in Seq(Inputs \X Nat)
      BY <2>1, <2>3, ReadFailsStep
    <3> QED
      BY <2>1, <3>1, <3>2 DEF TypeOK, Progress, Succeeded
  <2> QED
    BY <1>7, <2>2, <2>3 DEF Refill
<1>8. CASE Finalize
  <2>1. TypeOK'
    <3>0. muxerCloses \in Nat /\ dst \in {"none", "partial", "complete"} /\ err \in BOOLEAN
      BY DEF TypeOK
    <3>1. UNCHANGED <<readVars, output, written, ownVars>> /\ muxerCloses' = muxerCloses + 1
      BY <1>8 DEF Finalize
    <3>2. CASE dst' = "complete" /\ Goto("late")
      BY <3>0, <3>1, <3>2 DEF TypeOK
    <3>3. CASE UNCHANGED dst /\ FailTo("closeInputs")
      BY <3>0, <3>1, <3>3 DEF TypeOK
    <3> QED
      BY <1>8, <3>2, <3>3 DEF Finalize, FailedFinalizeTo
  <2>2. Progress'
    BY <1>8 DEF Finalize, FailedFinalizeTo, Progress, Succeeded, Ready
  <2> QED
    BY <2>1, <2>2
<1>9. CASE ValidateLate
  BY <1>9 DEF ValidateLate, TypeOK, Progress, Succeeded, Ready
<1>10. CASE ReleaseHeld
  <2>1. /\ pc = "release" /\ UNCHANGED <<files, pos, done, cur, muxVars, opened, closes>>
        /\ err' = TRUE /\ pc' \in {"release", "closeMuxer"}
    BY <1>10 DEF ReleaseHeld, TypeOK, Progress
  <2>2. next' \in [Inputs -> Packets \cup {None}] /\ released' \in Seq(Inputs \X Nat)
    <3>1. ASSUME NEW i \in Inputs, released' = Append(released, <<i, pos[i]>>), next' = [next EXCEPT ![i] = None]
          PROVE  next' \in [Inputs -> Packets \cup {None}] /\ released' \in Seq(Inputs \X Nat)
      <4>1. <<i, pos[i]>> \in Inputs \X Nat
        BY DEF TypeOK
      <4> QED
        BY <3>1, <4>1, AppendProperties DEF TypeOK
    <3> QED
      BY <1>10, <3>1 DEF ReleaseHeld, TypeOK
  <2> QED
    BY <2>1, <2>2 DEF TypeOK, Progress, Succeeded
<1>11. CASE CloseMuxer
  BY <1>11 DEF CloseMuxer, TypeOK, Progress, Succeeded
<1>12. CASE CloseInputs
  BY <1>12 DEF CloseInputs, Closed, TypeOK, Progress, Succeeded, Ready
<1> QED
  BY <1>1, <1>2, <1>3, <1>4, <1>5, <1>6, <1>7, <1>8, <1>9, <1>10, <1>11, <1>12 DEF Next

-----------------------------------------------------------------------------
(* What a cursor holds is the head of what is left of its input.           *)
LEMMA RestOfReady ==
    ASSUME TypeOK, NEW j \in Inputs, Ready(j)
    PROVE  /\ done[j] => Rest[j] = <<>>
           /\ ~done[j] => /\ Rest[j] # <<>> /\ Head(Rest[j]) = next[j] /\ next[j] \in Packets
                          /\ Tail(Rest[j]) = SubSeq(files[j], written[j] + 2, Len(files[j]))
<1> DEFINE s == files[j]
           w == written[j]
<1>1. s \in Seq(Packets) /\ Len(s) \in Nat /\ \A n \in 1 .. Len(s) : s[n] \in Packets
  BY FileTypes
<1>2. Rest[j] = SubSeq(s, w + 1, Len(s)) /\ w \in Nat
  BY DEF Rest, TypeOK
<1>3. CASE done[j]
  <2>1. w = Len(s)
    BY <1>3 DEF Ready
  <2> QED
    BY <1>1, <1>2, <1>3, <2>1, SubSeqEmpty
<1>4. CASE ~done[j]
  <2>1. w + 1 \in 1 .. Len(s) /\ next[j] = s[w + 1] /\ Len(s) \in (w + 1) .. Len(s)
    BY <1>1, <1>2, <1>4 DEF Ready
  <2> HIDE DEF s, w
  <2>2. Head(SubSeq(s, w + 1, Len(s))) = s[w + 1] /\ Tail(SubSeq(s, w + 1, Len(s))) = SubSeq(s, (w + 1) + 1, Len(s))
    BY <1>1, <2>1, HeadTailOfSubSeq
  <2>3. SubSeq(s, w + 1, Len(s)) # <<>>
    <3>1. w + 1 \in Int /\ Len(s) - (w + 1) + 1 # 0
      BY <1>1, <1>2, <2>1
    <3>2. Len(SubSeq(s, w + 1, Len(s))) # 0
      BY <1>1, <1>2, <2>1, <3>1, SubSeqProperties
    <3>3. ASSUME SubSeq(s, w + 1, Len(s)) = <<>>
          PROVE  FALSE
      <4>1. Len(SubSeq(s, w + 1, Len(s))) = Len(<<>>)
        BY <3>3, Zenon
      <4> QED
        BY <3>2, <4>1
    <3> QED
      BY <3>3
  <2>4. (w + 1) + 1 = w + 2
    BY <1>2
  <2> QED
    BY <1>1, <1>2, <1>4, <2>1, <2>2, <2>3, <2>4 DEF s, w
<1> QED
  BY <1>3, <1>4

(* Writing the packet picked takes the next packet of the stable merge.    *)
LEMMA WriteTakes ==
    ASSUME TypeOK, \A j \in Inputs : Ready(j), UNCHANGED files,
           NEW i \in Inputs, Picked(i),
           output' = Append(output, [from |-> i, packet |-> next[i]]),
           written' = [written EXCEPT ![i] = @ + 1]
    PROVE  Merged!Take(i)
<1>1. ~done[i]
  BY DEF Picked
<1>2. \A j \in Inputs : Rest[j] # <<>> <=> ~done[j]
  BY RestOfReady
<1>3. \A j \in Inputs : ~done[j] => Head(Rest[j]) = next[j] /\ next[j] \in Packets
  BY RestOfReady
<1>4. ASSUME NEW j \in Inputs, Rest[j] # <<>>
      PROVE  IF j < i THEN Merged!Sooner(Head(Rest[i]), Head(Rest[j]))
                      ELSE ~Merged!Sooner(Head(Rest[j]), Head(Rest[i]))
  <2>1. ~done[j] /\ Head(Rest[j]) = next[j] /\ Head(Rest[i]) = next[i] /\ next[i] \in Packets /\ next[j] \in Packets
    BY <1>1, <1>2, <1>3, <1>4
  <2>2. /\ Before(next[i], next[j]) <=> Merged!Sooner(next[i], next[j])
        /\ Before(next[j], next[i]) <=> Merged!Sooner(next[j], next[i])
    BY <2>1, ExactOrder
  <2>3. IF j < i THEN Before(next[i], next[j]) ELSE ~Before(next[j], next[i])
    BY <2>1 DEF Picked
  <2> QED
    BY <2>1, <2>2, <2>3
<1>5. Rest' = [Rest EXCEPT ![i] = Tail(Rest[i])]
  <2>1. Tail(Rest[i]) = SubSeq(files[i], written[i] + 2, Len(files[i]))
    BY <1>1, RestOfReady
  <2>2. written \in [Inputs -> Nat] /\ (written[i] + 1) + 1 = written[i] + 2
    BY DEF TypeOK
  <2> QED
    BY <2>1, <2>2 DEF Rest
<1>6. Merged!IsNext(i)
  BY <1>1, <1>2, <1>4 DEF Merged!IsNext
<1> QED
  BY <1>1, <1>3, <1>5, <1>6 DEF Merged!Take

LEMMA StepMerges ==
    RemuxInv /\ [Next]_remuxVars => [Merged!MergeNext]_(Merged!mergeVars)
<1> SUFFICES ASSUME RemuxInv, [Next]_remuxVars
             PROVE  Merged!MergeNext \/ UNCHANGED <<files, Rest, output>>
  BY DEF Merged!mergeVars
<1> USE DEF remuxVars, readVars, muxVars, ownVars
<1>1. UNCHANGED <<files, written, output>> => UNCHANGED <<files, Rest, output>>
  BY DEF Rest
<1>2. CASE Merge
  <2>1. /\ TypeOK /\ \A j \in Inputs : Ready(j)
        /\ UNCHANGED files
    BY <1>2 DEF Merge, RemuxInv, Progress
  <2>2. ASSUME NEW i \in Inputs, Picked(i), Write(i)
        PROVE  Merged!MergeNext \/ UNCHANGED <<files, written, output>>
    <3>1. CASE UNCHANGED <<output, written>>
      BY <2>1, <3>1
    <3>2. CASE /\ output' = Append(output, [from |-> i, packet |-> next[i]])
               /\ written' = [written EXCEPT ![i] = @ + 1]
      <4>1. Merged!Take(i)
        BY <2>1, <2>2, <3>2, WriteTakes
      <4> QED
        BY <4>1 DEF Merged!MergeNext
    <3> QED
      BY <2>2, <3>1, <3>2 DEF Write
  <2> QED
    BY <1>1, <1>2, <2>1, <2>2 DEF Merge
<1>3. CASE Next /\ ~Merge
  <2>1. UNCHANGED <<files, written, output>>
    BY <1>3 DEF Next, OpenInput, CreateMuxer, AddStreams, Prime, Refill, Read, ReadFails,
                Finalize, ValidateLate, ReleaseHeld, CloseMuxer, CloseInputs
  <2> QED
    BY <1>1, <2>1
<1> QED
  BY <1>1, <1>2, <1>3

-----------------------------------------------------------------------------
BeforeMove == {"open", "temp", "chmod", "remux", "close", "lstat", "rename", "stat",
               "reserve", "unlink", "setAside"}
Installing == {"close", "lstat", "rename", "stat", "reserve", "unlink", "setAside",
               "replace", "restore", "discard"}

\* Where the old file and the new one are at each step.
Placed ==
    /\ disk \in [Paths -> {"nothing", "old", "new", "directory", "placeholder"}]
    /\ existed \in {"nothing", "old", "directory"}
    /\ step \in BeforeMove \cup Installing \cup {"cleanup", "returned"}
    /\ step \in BeforeMove => disk["out"] = existed
    /\ step \in {"replace", "restore"} => disk["backup"] = existed /\ disk["out"] = "nothing"
    /\ step = "discard" => disk["out"] = "new"
    /\ step \in {"cleanup", "returned"} => disk["out"] \in {existed, "new"} \/ disk["backup"] = existed
    /\ step \in {"chmod", "remux", "close", "lstat", "rename", "stat", "reserve", "unlink",
                 "setAside", "replace"} => disk["temp"] = "new"

\* Nothing is installed before Remux has returned without an error.
Committed ==
    /\ step \in Installing \/ disk["out"] = "new" => pc = "returned" /\ err = FALSE
    /\ step \in {"open", "temp", "chmod"} => pc = "open"
    /\ failed \in BOOLEAN /\ reported \in BOOLEAN

FilesInv == RemuxInv /\ Placed /\ Committed

LEMMA InitFiles == FilesInit => FilesInv
<1> SUFFICES ASSUME FilesInit PROVE FilesInv
  OBVIOUS
<1>1. RemuxInv
  BY InitRemux DEF FilesInit
<1>2. Placed
  BY DEF FilesInit, Placed, Paths, BeforeMove, Installing
<1>3. Committed
  BY DEF FilesInit, Init, Committed, Paths, Installing
<1> QED
  BY <1>1, <1>2, <1>3 DEF FilesInv

(* Outside Remux only the count of closed sources changes.                 *)
LEMMA StepOutside ==
    ASSUME FilesInv, [FilesNext]_filesVars
    PROVE  \/ [Next]_remuxVars
           \/ /\ closes' \in [Inputs -> Nat]
              /\ UNCHANGED <<readVars, muxVars, opened, released, pc, err>>
<1> USE DEF FilesNext, filesVars
<1>1. CASE OpenFiles
  BY <1>1 DEF OpenFiles
<1>2. CASE CreateTemp
  BY <1>2 DEF CreateTemp, CloseSources
<1>3. CASE Chmod
  BY <1>3 DEF Chmod, CloseSources
<1>4. CASE RemuxStep
  BY <1>4 DEF RemuxStep
<1>5. CASE UNCHANGED remuxVars
  BY <1>5
<1> QED
  BY <1>1, <1>2, <1>3, <1>4, <1>5 DEF Remuxed, CloseTemp, Lstat, RenameOver, Stat, Reserve,
     Unlink, SetAside, Replace, Restore, Discard, Cleanup

LEMMA ClosingKeeps ==
    ASSUME RemuxInv, closes' \in [Inputs -> Nat],
           UNCHANGED <<readVars, muxVars, opened, released, pc, err>>
    PROVE  RemuxInv'
BY DEF RemuxInv, TypeOK, Progress, Succeeded, Ready, Fresh, readVars, muxVars

LEMMA StepFiles == FilesInv /\ [FilesNext]_filesVars => FilesInv'
<1> SUFFICES ASSUME FilesInv, [FilesNext]_filesVars
             PROVE  RemuxInv' /\ Placed' /\ Committed'
  BY DEF FilesInv
<1>1. RemuxInv'
  BY StepOutside, StepRemux, ClosingKeeps DEF FilesInv
<1> USE DEF FilesInv, Placed, Committed, BeforeMove, Installing, Paths, remuxVars, fileVars,
            To, Fail, OnDisk, NothingMoved, Rename
<1>2. CASE UNCHANGED filesVars
  BY <1>1, <1>2 DEF filesVars
<1>3. CASE OpenFiles
  BY <1>1, <1>3 DEF OpenFiles
<1>4. CASE CreateTemp
  BY <1>1, <1>4 DEF CreateTemp, CloseSources
<1>5. CASE Chmod
  BY <1>1, <1>5 DEF Chmod, CloseSources
<1>6. CASE RemuxStep
  BY <1>1, <1>6 DEF RemuxStep
<1>7. CASE Remuxed
  <2>1. err = TRUE \/ err = FALSE
    BY DEF RemuxInv, TypeOK
  <2>2. CASE err = TRUE
    BY <1>1, <1>7, <2>2 DEF Remuxed
  <2>3. CASE err = FALSE
    BY <1>1, <1>7, <2>3 DEF Remuxed
  <2> QED
    BY <2>1, <2>2, <2>3
<1>8. CASE CloseTemp
  BY <1>1, <1>8 DEF CloseTemp
<1>9. CASE Lstat
  BY <1>1, <1>9 DEF Lstat
<1>10. CASE RenameOver
  BY <1>1, <1>10 DEF RenameOver
<1>11. CASE Stat
  BY <1>1, <1>11 DEF Stat
<1>12. CASE Reserve
  BY <1>1, <1>12 DEF Reserve
<1>13. CASE Unlink
  BY <1>1, <1>13 DEF Unlink
<1>14. CASE SetAside
  BY <1>1, <1>14 DEF SetAside
<1>15. CASE Replace
  BY <1>1, <1>15 DEF Replace
<1>16. CASE Restore
  BY <1>1, <1>16 DEF Restore
<1>17. CASE Discard
  BY <1>1, <1>17 DEF Discard
<1>18. CASE Cleanup
  BY <1>1, <1>18 DEF Cleanup
<1> QED
  BY <1>2, <1>3, <1>4, <1>5, <1>6, <1>7, <1>8, <1>9, <1>10, <1>11, <1>12, <1>13, <1>14,
     <1>15, <1>16, <1>17, <1>18 DEF FilesNext

(* What the packets read ahead, the outputs and the files have to do with  *)
(* each other at every step of a file remux (the inductive invariant).     *)
THEOREM FilesInvariance == FilesSpec => []FilesInv
<1>1. FilesInit => FilesInv
  BY InitFiles
<1>2. FilesInv /\ [FilesNext]_filesVars => FilesInv'
  BY StepFiles
<1> QED
  BY <1>1, <1>2, PTL DEF FilesSpec

(* Only a finished container of all that the inputs hold is ever found at  *)
(* the output path (remux.go:252-254).                                     *)
THEOREM OnlyWholeInstalled == FilesSpec => []InstalledWhole
<1>1. FilesInv => InstalledWhole
  <2> SUFFICES ASSUME FilesInv, disk["out"] = "new"
               PROVE  dst = "complete" /\ ~err /\ \A i \in Inputs : written[i] = Len(files[i])
    BY DEF InstalledWhole
  <2>1. Succeeded
    BY DEF FilesInv, Committed, Succeeded
  <2>2. dst = "complete" /\ \A i \in Inputs : Ready(i) /\ done[i]
    BY <2>1 DEF FilesInv, RemuxInv, Progress
  <2> QED
    BY <2>1, <2>2 DEF Succeeded, Ready
<1> QED
  BY <1>1, FilesInvariance, PTL

(* The old file is never gone before the new one has taken its place.      *)
THEOREM OldFileKept == FilesSpec => []Recoverable
<1>1. FilesInv => Recoverable
  <2> SUFFICES ASSUME FilesInv, disk["out"] # "new"
               PROVE  \E p \in Paths : disk[p] = existed
    BY DEF Recoverable
  <2>1. disk["out"] = existed \/ disk["backup"] = existed
    BY DEF FilesInv, Placed, BeforeMove, Installing
  <2> QED
    BY <2>1 DEF Paths
<1> QED
  BY <1>1, FilesInvariance, PTL

(* RemuxFiles writes a stable merge of its inputs by exact time.           *)
THEOREM WritesStableMerge == FilesSpec => MergesStably
<1>1. FilesInit => Merged!MergeInit
  <2> SUFFICES ASSUME FilesInit PROVE Rest = files /\ output = <<>>
    BY DEF Merged!MergeInit
  <2>1. TypeOK /\ files \in [Inputs -> Files] /\ output = <<>> /\ \A i \in Inputs : written[i] = 0
    BY InitRemux DEF FilesInit, Init, RemuxInv
  <2>2. \A i \in Inputs : SubSeq(files[i], 0 + 1, Len(files[i])) = files[i]
    BY <2>1, FileTypes, SubSeqFull
  <2> QED
    BY <2>1, <2>2 DEF Rest
<1>2. FilesInv /\ [FilesNext]_filesVars => [Merged!MergeNext]_(Merged!mergeVars)
  <2> SUFFICES ASSUME FilesInv, [FilesNext]_filesVars
               PROVE  [Merged!MergeNext]_(Merged!mergeVars)
    OBVIOUS
  <2>1. CASE [Next]_remuxVars
    BY <2>1, StepMerges DEF FilesInv
  <2>2. CASE UNCHANGED <<readVars, muxVars, opened, released, pc, err>>
    BY <2>2 DEF Merged!mergeVars, Rest, readVars, muxVars
  <2> QED
    BY <2>1, <2>2, StepOutside
<1> QED
  BY <1>1, <1>2, FilesInvariance, PTL DEF FilesSpec, MergesStably, Merged!Merging

(* RemuxFiles' state is well typed.                                        *)
THEOREM FilesTyped == FilesSpec => []FilesTypeOK
<1>1. FilesInv => FilesTypeOK
  BY DEF FilesInv, RemuxInv, Placed, Committed, FilesTypeOK, BeforeMove, Installing
<1> QED
  BY <1>1, FilesInvariance, PTL

-----------------------------------------------------------------------------
\* How many packets of each input should have been released: those read but
\* the one held.
Freed == [i \in Inputs |-> IF next[i] = None THEN pos[i] ELSE pos[i] - 1]

ReleasedOnce ==
    /\ \A k, l \in DOMAIN released : released[k] = released[l] => k = l
    /\ \A k \in DOMAIN released : \E i \in Inputs : \E n \in 1 .. Freed[i] : released[k] = <<i, n>>
    /\ \A i \in Inputs : \A n \in 1 .. Freed[i] : \E k \in DOMAIN released : released[k] = <<i, n>>

\* Nothing is held, and the muxer and the sources have been closed, where
\* the deferred calls that do so have run.
ClosedOnce ==
    /\ \A i \in Inputs : next[i] # None => pos[i] >= 1
    /\ pc \in {"open", "mux", "add", "finalize", "late", "closeMuxer", "closeInputs", "returned"}
           => \A i \in Inputs : next[i] = None
    /\ pc \in {"open", "mux"} => dst = "none"
    /\ pc \notin {"open", "mux", "closeInputs", "returned"} => dst # "none"
    /\ muxerCloses = IF pc = "late" \/ (pc \in {"closeInputs", "returned"} /\ dst # "none") THEN 1 ELSE 0

LEMMA ReleaseOne ==
    ASSUME TypeOK, ReleasedOnce, NEW i \in Inputs,
           Freed \in [Inputs -> Nat], Freed' \in [Inputs -> Nat],
           Freed'[i] = Freed[i] + 1, \A j \in Inputs : j # i => Freed'[j] = Freed[j],
           released' = Append(released, <<i, Freed[i] + 1>>)
    PROVE  ReleasedOnce'
<1> DEFINE m == Len(released)
           last == <<i, Freed[i] + 1>>
<1>1. /\ m \in Nat /\ DOMAIN released = 1 .. m /\ DOMAIN released' = 1 .. m + 1
      /\ \A k \in 1 .. m : released'[k] = released[k]
      /\ released'[m + 1] = last
  <2>1. released \in Seq(Inputs \X Nat) /\ last \in Inputs \X Nat
    BY DEF TypeOK
  <2>2. released' = Append(released, last) /\ Len(released') = m + 1 /\ m \in Nat
        /\ released' \in Seq(Inputs \X Nat)
        /\ \A k \in 1 .. m : released'[k] = released[k]
        /\ released'[m + 1] = last
    BY <2>1, AppendProperties, SMTT(30)
  <2> QED
    BY <2>1, <2>2
<1> HIDE DEF m, last
<1>2. \A k \in 1 .. m : released[k] # last
  <2> SUFFICES ASSUME NEW k \in 1 .. m, released[k] = last PROVE FALSE
    OBVIOUS
  <2>1. PICK j \in Inputs : \E n \in 1 .. Freed[j] : released[k] = <<j, n>>
    BY <1>1 DEF ReleasedOnce
  <2>2. PICK n \in 1 .. Freed[j] : released[k] = <<j, n>>
    BY <2>1
  <2>3. j = i /\ n = Freed[i] + 1
    BY <2>2 DEF last
  <2> QED
    BY <2>2, <2>3
<1>3. \A k, l \in 1 .. m + 1 : released'[k] = released'[l] => k = l
  <2> SUFFICES ASSUME NEW k \in 1 .. m + 1, NEW l \in 1 .. m + 1, released'[k] = released'[l]
               PROVE  k = l
    OBVIOUS
  <2>1. (k \in 1 .. m \/ k = m + 1) /\ (l \in 1 .. m \/ l = m + 1)
    BY <1>1
  <2> QED
    BY <1>1, <1>2, <2>1 DEF ReleasedOnce
<1>4. ASSUME NEW k \in 1 .. m + 1
      PROVE  \E j \in Inputs : \E n \in 1 .. Freed'[j] : released'[k] = <<j, n>>
  <2>1. CASE k = m + 1
    <3>1. Freed[i] + 1 \in 1 .. Freed'[i] /\ released'[k] = <<i, Freed[i] + 1>>
      BY <1>1, <2>1 DEF last
    <3> QED
      BY <3>1
  <2>2. CASE k \in 1 .. m
    <3>1. PICK j \in Inputs : \E n \in 1 .. Freed[j] : released[k] = <<j, n>>
      BY <1>1, <2>2 DEF ReleasedOnce
    <3>2. PICK n \in 1 .. Freed[j] : released[k] = <<j, n>>
      BY <3>1
    <3>3. n \in 1 .. Freed'[j] /\ released'[k] = <<j, n>>
      BY <1>1, <2>2, <3>2
    <3> QED
      BY <3>3
  <2> QED
    BY <1>1, <2>1, <2>2
<1>5. ASSUME NEW j \in Inputs, NEW n \in 1 .. Freed'[j]
      PROVE  \E k \in 1 .. m + 1 : released'[k] = <<j, n>>
  <2>1. CASE n \in 1 .. Freed[j]
    <3>1. PICK k \in 1 .. m : released[k] = <<j, n>>
      BY <1>1, <2>1 DEF ReleasedOnce
    <3>2. k \in 1 .. m + 1 /\ released'[k] = <<j, n>>
      BY <1>1, <3>1
    <3> QED
      BY <3>2
  <2>2. CASE j = i /\ n = Freed[i] + 1
    <3>1. m + 1 \in 1 .. m + 1 /\ released'[m + 1] = <<j, n>>
      BY <1>1, <2>2 DEF last
    <3> QED
      BY <3>1
  <2>3. Freed[j] \in Nat /\ Freed'[j] \in Nat /\ Freed[i] \in Nat
    OBVIOUS
  <2>4. n \in 1 .. Freed[j] \/ (j = i /\ n = Freed[i] + 1)
    BY <2>3
  <2> QED
    BY <2>1, <2>2, <2>4
<1> QED
  BY <1>1, <1>3, <1>4, <1>5, ZenonT(30) DEF ReleasedOnce

LEMMA FreedNat ==
    ASSUME TypeOK, \A i \in Inputs : next[i] # None => pos[i] >= 1
    PROVE  Freed \in [Inputs -> Nat]
BY DEF TypeOK, Freed

LEMMA NoneReleased ==
    ASSUME ReleasedOnce, UNCHANGED released, Freed' = Freed
    PROVE  ReleasedOnce'
BY DEF ReleasedOnce

(* A read that succeeds holds what it reads.                               *)
LEMMA ReadHolds ==
    ASSUME TypeOK, ClosedOnce, NEW i \in Inputs, Read(i), next[i] = None
    PROVE  Freed' = Freed /\ \A j \in Inputs : next'[j] # None => pos'[j] >= 1
<1>0. /\ pos \in [Inputs -> Nat] /\ next \in [Inputs -> Packets \cup {None}]
      /\ pos[i] <= Len(files[i]) /\ Len(files[i]) \in Nat
      /\ \A n \in 1 .. Len(files[i]) : files[i][n] # None
      /\ \A j \in Inputs : next[j] # None => pos[j] >= 1
  BY FileTypes DEF TypeOK, ClosedOnce
<1>1. CASE pos[i] = Len(files[i])
  BY <1>0, <1>1 DEF Read, Freed
<1>2. CASE pos[i] # Len(files[i])
  <2>1. pos' = [pos EXCEPT ![i] = @ + 1] /\ next' = [next EXCEPT ![i] = files[i][pos[i] + 1]]
    BY <1>2 DEF Read
  <2>2. files[i][pos[i] + 1] # None
    BY <1>0, <1>2
  <2>3. /\ pos'[i] = pos[i] + 1 /\ next'[i] # None
        /\ \A j \in Inputs : j # i => pos'[j] = pos[j] /\ next'[j] = next[j]
    BY <1>0, <2>1, <2>2
  <2> QED
    BY <1>0, <2>3 DEF Freed
<1> QED
  BY <1>1, <1>2

(* Letting go of the packet input i holds.                                 *)
LEMMA LetGo ==
    ASSUME TypeOK, ReleasedOnce, ClosedOnce, NEW i \in Inputs, next[i] # None, UNCHANGED pos,
           next' = [next EXCEPT ![i] = None], released' = Append(released, <<i, pos[i]>>)
    PROVE  ReleasedOnce' /\ \A j \in Inputs : next'[j] # None => pos'[j] >= 1
<1>1. \A j \in Inputs : next[j] # None => pos[j] >= 1
  BY DEF ClosedOnce
<1>2. /\ next'[i] = None /\ \A j \in Inputs : j # i => next'[j] = next[j]
      /\ pos \in [Inputs -> Nat]
  BY DEF TypeOK
<1>3. /\ Freed'[i] = Freed[i] + 1 /\ Freed[i] + 1 = pos[i]
      /\ \A j \in Inputs : j # i => Freed'[j] = Freed[j]
  BY <1>1, <1>2 DEF Freed
<1>4. Freed \in [Inputs -> Nat] /\ Freed' \in [Inputs -> Nat]
  BY <1>1, <1>2 DEF Freed
<1> QED
  BY <1>1, <1>2, <1>3, <1>4, ReleaseOne

(* A read that fails releases the packet it refuses, if there is one.      *)
LEMMA ReadFailsReleases ==
    ASSUME TypeOK, ReleasedOnce, ClosedOnce, NEW i \in Inputs, next[i] = None, ReadFails(i)
    PROVE  ReleasedOnce' /\ \A j \in Inputs : next'[j] # None => pos'[j] >= 1
<1>1. /\ \A j \in Inputs : next[j] # None => pos[j] >= 1
      /\ pos \in [Inputs -> Nat] /\ UNCHANGED next
  BY DEF ClosedOnce, TypeOK, ReadFails
<1>2. CASE UNCHANGED <<pos, released>>
  BY <1>1, <1>2, NoneReleased DEF Freed
<1>3. CASE pos' = [pos EXCEPT ![i] = @ + 1] /\ released' = Append(released, <<i, pos[i] + 1>>)
  <2>1. /\ pos'[i] = pos[i] + 1 /\ \A j \in Inputs : j # i => pos'[j] = pos[j]
        /\ pos' \in [Inputs -> Nat]
    BY <1>1, <1>3
  <2>2. /\ Freed'[i] = Freed[i] + 1 /\ Freed[i] + 1 = pos[i] + 1
        /\ \A j \in Inputs : j # i => Freed'[j] = Freed[j]
    BY <1>1, <2>1 DEF Freed
  <2>3. Freed \in [Inputs -> Nat] /\ Freed' \in [Inputs -> Nat]
    BY <1>1, <2>1 DEF Freed
  <2>4. ReleasedOnce'
    BY <1>3, <2>2, <2>3, ReleaseOne
  <2> QED
    BY <1>1, <2>1, <2>4
<1> QED
  BY <1>2, <1>3 DEF ReadFails

LEMMA StepOwnership ==
    RemuxInv /\ ReleasedOnce /\ ClosedOnce /\ [Next]_remuxVars => ReleasedOnce' /\ ClosedOnce'
<1> SUFFICES ASSUME TypeOK, Progress, ReleasedOnce, ClosedOnce, [Next]_remuxVars
             PROVE  ReleasedOnce' /\ ClosedOnce'
  BY DEF RemuxInv
<1> USE DEF remuxVars, readVars, muxVars, ownVars, Goto, FailTo
<1>0. NInputs \in Nat \ {0} /\ Inputs = 1 .. NInputs
  BY RemuxAssumption DEF Inputs
<1>1. CASE UNCHANGED <<pos, next, released>>
  <2>1. ReleasedOnce'
    BY <1>1, NoneReleased DEF Freed
  <2>2. CASE UNCHANGED remuxVars
    BY <2>1, <2>2 DEF ClosedOnce
  <2>3. CASE OpenInput \/ CreateMuxer \/ AddStreams
    BY <2>1, <2>3 DEF OpenInput, CreateMuxer, AddStreams, ClosedOnce
  <2>4. CASE Prime
    <3>1. pc = "prime" /\ pc' \in {"prime", "pick", "release"} /\ UNCHANGED <<muxerCloses, dst>>
      BY <2>4 DEF Prime, ReadFails
    <3> QED
      BY <1>1, <2>1, <3>1 DEF ClosedOnce
  <2>5. CASE Merge
    <3>1. pc = "pick" /\ UNCHANGED <<muxerCloses, dst>> /\ \A i \in Inputs : Ready(i)
      BY <2>5 DEF Merge, Progress
    <3>2. pc' = "finalize" => \A i \in Inputs : done[i]
      BY <2>5 DEF Merge, Write
    <3>3. (\A i \in Inputs : done[i]) => \A i \in Inputs : next[i] = None
      BY <3>1 DEF Ready
    <3>4. pc' \in {"finalize", "release", "refill"}
      BY <2>5 DEF Merge, Write
    <3> QED
      BY <1>1, <2>1, <3>1, <3>2, <3>3, <3>4 DEF ClosedOnce
  <2>6. CASE Refill
    <3>1. pc = "refill" /\ pc' \in {"pick", "release"} /\ UNCHANGED <<muxerCloses, dst>>
      BY <2>6 DEF Refill, ReadFails
    <3> QED
      BY <1>1, <2>1, <3>1 DEF ClosedOnce
  <2>7. CASE Finalize
    <3>1. pc = "finalize" /\ muxerCloses = 0 /\ dst # "none" /\ \A i \in Inputs : next[i] = None
      BY <2>7 DEF Finalize, ClosedOnce
    <3>2. muxerCloses' = 1 /\ dst' # "none" /\ pc' \in {"late", "closeInputs"}
      BY <2>7, <3>1 DEF Finalize, FailedFinalizeTo
    <3> QED
      BY <1>1, <2>1, <3>1, <3>2 DEF ClosedOnce
  <2>8. CASE ValidateLate
    BY <2>8, <2>1 DEF ValidateLate, ClosedOnce
  <2>9. CASE ReleaseHeld
    BY <1>1, <2>1, <2>9 DEF ReleaseHeld, ClosedOnce
  <2>10. CASE CloseMuxer
    BY <2>1, <2>10 DEF CloseMuxer, ClosedOnce
  <2>11. CASE CloseInputs
    BY <2>1, <2>11 DEF CloseInputs, ClosedOnce
  <2> QED
    BY <2>1, <2>2, <2>3, <2>4, <2>5, <2>6, <2>7, <2>8, <2>9, <2>10, <2>11 DEF Next
<1>2. CASE Prime
  <2>1. pc = "prime" /\ UNCHANGED <<muxerCloses, dst>>
    BY <1>2 DEF Prime
  <2>2. ASSUME NEW i \in Inputs, i = cur, Read(i), UNCHANGED <<pc, released>>
        PROVE  ReleasedOnce' /\ ClosedOnce'
    <3>1. next[i] = None
      BY <1>0, <2>1, <2>2 DEF Progress, Fresh
    <3>2. Freed' = Freed /\ \A j \in Inputs : next'[j] # None => pos'[j] >= 1
      BY <2>2, <3>1, ReadHolds
    <3> QED
      BY <2>1, <2>2, <3>2, NoneReleased DEF ClosedOnce
  <2>3. ASSUME NEW i \in Inputs, i = cur, ReadFails(i)
        PROVE  ReleasedOnce' /\ ClosedOnce'
    <3>1. next[i] = None /\ pc' = "release"
      BY <1>0, <2>1, <2>3 DEF Progress, Fresh, ReadFails
    <3>2. ReleasedOnce' /\ \A j \in Inputs : next'[j] # None => pos'[j] >= 1
      BY <2>3, <3>1, ReadFailsReleases
    <3> QED
      BY <2>1, <3>1, <3>2 DEF ClosedOnce
  <2>4. cur <= NInputs => cur \in Inputs
    BY <1>0 DEF TypeOK
  <2> QED
    BY <1>1, <1>2, <2>2, <2>3, <2>4 DEF Prime
<1>3. CASE Merge
  <2>1. pc = "pick" /\ UNCHANGED <<pos, muxerCloses, dst>> /\ \A i \in Inputs : Ready(i)
    BY <1>3 DEF Merge, Progress
  <2>2. ASSUME NEW i \in Inputs, Picked(i), Write(i)
        PROVE  ReleasedOnce' /\ ClosedOnce'
    <3>1. next[i] # None
      BY <2>1, <2>2, FileTypes DEF Picked, Ready
    <3>2. next' = [next EXCEPT ![i] = None] /\ released' = Append(released, <<i, pos[i]>>)
          /\ pc' \in {"refill", "release"}
      BY <2>2 DEF Write
    <3>3. ReleasedOnce' /\ \A j \in Inputs : next'[j] # None => pos'[j] >= 1
      BY <2>1, <3>1, <3>2, LetGo
    <3> QED
      BY <2>1, <3>2, <3>3 DEF ClosedOnce
  <2> QED
    BY <1>1, <1>3, <2>1, <2>2 DEF Merge
<1>4. CASE Refill
  <2>1. pc = "refill" /\ UNCHANGED <<muxerCloses, dst>> /\ cur \in Inputs /\ next[cur] = None
    BY <1>4 DEF Refill, Progress
  <2>2. ASSUME NEW i \in Inputs, i = cur, Read(i), Goto("pick"), UNCHANGED released
        PROVE  ReleasedOnce' /\ ClosedOnce'
    <3>1. Freed' = Freed /\ \A j \in Inputs : next'[j] # None => pos'[j] >= 1
      BY <2>1, <2>2, ReadHolds
    <3> QED
      BY <2>1, <2>2, <3>1, NoneReleased DEF ClosedOnce
  <2>3. ASSUME NEW i \in Inputs, i = cur, ReadFails(i)
        PROVE  ReleasedOnce' /\ ClosedOnce'
    <3>1. pc' = "release"
      BY <2>3 DEF ReadFails
    <3>2. ReleasedOnce' /\ \A j \in Inputs : next'[j] # None => pos'[j] >= 1
      BY <2>1, <2>3, ReadFailsReleases
    <3> QED
      BY <2>1, <3>1, <3>2 DEF ClosedOnce
  <2> QED
    BY <1>4, <2>1, <2>2, <2>3 DEF Refill
<1>5. CASE ReleaseHeld
  <2>1. pc = "release" /\ pc' \in {"release", "closeMuxer"} /\ UNCHANGED <<pos, muxerCloses, dst>>
    BY <1>5 DEF ReleaseHeld
  <2>2. ASSUME NEW i \in Inputs, next[i] # None, released' = Append(released, <<i, pos[i]>>),
               next' = [next EXCEPT ![i] = None], UNCHANGED pc
        PROVE  ReleasedOnce' /\ ClosedOnce'
    <3>1. ReleasedOnce' /\ \A j \in Inputs : next'[j] # None => pos'[j] >= 1
      BY <2>1, <2>2, LetGo
    <3> QED
      BY <2>1, <2>2, <3>1 DEF ClosedOnce
  <2> QED
    BY <1>1, <1>5, <2>1, <2>2 DEF ReleaseHeld
<1>6. CASE OpenInput \/ CreateMuxer \/ AddStreams \/ Finalize \/ ValidateLate \/ CloseMuxer \/ CloseInputs
  BY <1>1, <1>6 DEF OpenInput, CreateMuxer, AddStreams, Finalize, ValidateLate, CloseMuxer, CloseInputs
<1> QED
  BY <1>1, <1>2, <1>3, <1>4, <1>5, <1>6 DEF Next

\* The sources are closed when Remux returns, or before it is called.
SourcesClosed ==
    /\ step \in {"open", "temp", "chmod", "remux"} /\ pc # "returned" => \A i \in Inputs : closes[i] = 0
    /\ pc = "returned" => \A i \in Inputs : closes[i] = 1

LEMMA StepSources ==
    FilesInv /\ SourcesClosed /\ [FilesNext]_filesVars => SourcesClosed'
<1> SUFFICES ASSUME FilesInv, SourcesClosed, [FilesNext]_filesVars PROVE SourcesClosed'
  OBVIOUS
<1> USE DEF SourcesClosed, To, Fail, remuxVars, ownVars
<1>1. closes \in [Inputs -> Nat]
  BY DEF FilesInv, RemuxInv, TypeOK
<1>2. CASE RemuxStep
  <2>1. step = "remux" /\ UNCHANGED step /\ Next
    BY <1>2 DEF RemuxStep, fileVars
  <2>2. CASE CloseInputs
    BY <1>1, <2>1, <2>2 DEF CloseInputs, Closed, Goto
  <2>3. CASE ~CloseInputs
    <3>1. UNCHANGED closes /\ pc # "returned" /\ pc' # "returned"
      BY <2>1, <2>3 DEF Next, OpenInput, CreateMuxer, AddStreams, Prime, Merge, Refill, Write, ReadFails,
         Finalize, FailedFinalizeTo, ValidateLate, ReleaseHeld, CloseMuxer, Goto, FailTo
    <3> QED
      BY <2>1, <3>1
  <2> QED
    BY <2>2, <2>3
<1>3. CASE OpenFiles
  BY <1>3 DEF OpenFiles, FilesInv, Committed
<1>4. CASE CreateTemp
  BY <1>4 DEF CreateTemp, CloseSources, FilesInv, Committed
<1>5. CASE Chmod
  BY <1>5 DEF Chmod, CloseSources, FilesInv, Committed
<1>6. CASE UNCHANGED <<remuxVars, step>> \/ (UNCHANGED remuxVars /\ step' \notin {"open", "temp", "chmod", "remux"})
  BY <1>6
<1> QED
  BY <1>2, <1>3, <1>4, <1>5, <1>6 DEF FilesNext, filesVars, fileVars, Remuxed, CloseTemp, Lstat, RenameOver,
     Stat, Reserve, Unlink, SetAside, Replace, Restore, Discard, Cleanup

(* Every packet read is released once, the muxer closed once and every     *)
(* source closed once when Remux returns (remux.go:13-15); and it returns  *)
(* no error only if each input was read and written to its end and the     *)
(* container finalized.                                                    *)
THEOREM EverythingSettled == FilesSpec => []Settled
<1> DEFINE Inv == FilesInv /\ ReleasedOnce /\ ClosedOnce /\ SourcesClosed
<1>1. FilesInit => Inv
  <2> SUFFICES ASSUME FilesInit PROVE ReleasedOnce /\ ClosedOnce /\ SourcesClosed
    BY InitFiles
  <2>1. ReleasedOnce
    BY DEF FilesInit, Init, ReleasedOnce, Freed
  <2>2. ClosedOnce /\ SourcesClosed
    BY DEF FilesInit, Init, ClosedOnce, SourcesClosed
  <2> QED
    BY <2>1, <2>2
<1>2. Inv /\ [FilesNext]_filesVars => Inv'
  <2> SUFFICES ASSUME Inv, [FilesNext]_filesVars PROVE ReleasedOnce' /\ ClosedOnce'
    BY StepFiles, StepSources
  <2>1. CASE [Next]_remuxVars
    BY <2>1, StepOwnership DEF FilesInv
  <2>2. CASE UNCHANGED <<readVars, muxVars, opened, released, pc, err>>
    BY <2>2 DEF ReleasedOnce, ClosedOnce, Freed, readVars, muxVars
  <2> QED
    BY <2>1, <2>2, StepOutside
<1>3. Inv => Settled
  <2> SUFFICES ASSUME Inv, pc = "returned"
               PROVE  /\ \A k, l \in DOMAIN released : released[k] = released[l] => k = l
                      /\ \A i \in Inputs : \A n \in 1 .. pos[i] : \E k \in DOMAIN released : released[k] = <<i, n>>
                      /\ muxerCloses = IF dst = "none" THEN 0 ELSE 1
                      /\ \A i \in Inputs : closes[i] = 1
                      /\ ~err => dst = "complete" /\ \A i \in Inputs : done[i] /\ written[i] = Len(files[i])
    BY DEF Settled
  <2>1. \A i \in Inputs : Freed[i] = pos[i]
    BY DEF ClosedOnce, Freed
  <2>2. muxerCloses = IF dst = "none" THEN 0 ELSE 1
    BY DEF ClosedOnce
  <2>3. ~err => dst = "complete" /\ \A i \in Inputs : done[i] /\ written[i] = Len(files[i])
    BY DEF FilesInv, RemuxInv, TypeOK, Progress, Succeeded, Ready
  <2> QED
    BY <2>1, <2>2, <2>3 DEF ReleasedOnce, SourcesClosed
<1> QED
  BY <1>1, <1>2, <1>3, PTL DEF FilesSpec
=============================================================================
