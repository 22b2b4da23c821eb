-------------------------------- MODULE Remux --------------------------------
(***************************************************************************)
(* Remux and remuxDemuxers of pkg/media/remux.go: every input is opened,   *)
(* one packet of each is read ahead, the earliest is written and replaced  *)
(* by the next of the same input, and on every way out the packets held,   *)
(* the muxer, the demuxers and the sources are let go.                     *)
(*                                                                         *)
(* Any call may fail; a call that is given a cancelled context fails too.  *)
(* What an input delivers is chosen in Init.  A packet is named by its     *)
(* input and its number there, <<i, n>>.                                   *)
(* Operators named <definition>_<bug> are mutants of the one that follows. *)
(***************************************************************************)
EXTENDS Integers, Sequences

CONSTANTS
    NInputs,       \* inputs given to Remux
    Streams,       \* stream indices
    TimeBase,      \* of each stream, [num, den]
    Files,         \* what an input may hold, sequences of [stream, dts]
    None           \* no packet

Inputs == 1 .. NInputs
Packets == [stream : Streams, dts : Int]

ASSUME RemuxAssumption ==
    /\ NInputs \in Nat \ {0}
    /\ TimeBase \in [Streams -> [num : Nat \ {0}, den : Nat \ {0}]]
    /\ Files \subseteq Seq(Packets)
    /\ None \notin Packets

VARIABLES
    files,        \* what each input's demuxer will deliver
    pos,          \* packets read of each input
    next,         \* cursors[i].next
    done,         \* cursors[i].done
    cur,          \* the input to read next
    opened,       \* len(demuxers)
    closes,       \* of each source, how often it was closed
    released,     \* the packets released, in order
    muxerCloses,  \* calls of the muxer's Close
    output,       \* the packets the muxer accepted, in order
    written,      \* history: of each input, how many of them
    dst,          \* the container: "none", "partial", "complete"
    pc,
    err

readVars == <<files, pos, next, done, cur>>
muxVars == <<muxerCloses, output, written, dst>>
ownVars == <<opened, closes, released>>
remuxVars == <<readVars, muxVars, ownVars, pc, err>>

TypeOK ==
    /\ files \in [Inputs -> Files]
    /\ pos \in [Inputs -> Nat] /\ \A i \in Inputs : pos[i] <= Len(files[i])
    /\ next \in [Inputs -> Packets \cup {None}]
    /\ done \in [Inputs -> BOOLEAN]
    /\ cur \in 1 .. NInputs + 1
    /\ opened \in 0 .. NInputs
    /\ closes \in [Inputs -> Nat]
    /\ released \in Seq(Inputs \X Nat)
    /\ muxerCloses \in Nat
    /\ written \in [Inputs -> Nat]
    /\ output \in Seq([from : Inputs, packet : Packets])
    /\ dst \in {"none", "partial", "complete"}
    /\ pc \in {"open", "mux", "add", "prime", "pick", "refill", "finalize", "late",
               "release", "closeMuxer", "closeInputs", "returned"}
    /\ err \in BOOLEAN

Init ==
    /\ files \in [Inputs -> Files]
    /\ pos = [i \in Inputs |-> 0] /\ next = [i \in Inputs |-> None]
    /\ done = [i \in Inputs |-> FALSE] /\ cur = 1
    /\ opened = 0 /\ closes = [i \in Inputs |-> 0] /\ released = <<>>
    /\ muxerCloses = 0 /\ output = <<>> /\ dst = "none"
    /\ written = [i \in Inputs |-> 0]
    /\ pc = "open" /\ err = FALSE

-----------------------------------------------------------------------------
Goto(label) == pc' = label /\ UNCHANGED err
FailTo(label) == pc' = label /\ err' = TRUE

(* Open hands the source to the demuxer; a source it refuses stays ours.   *)
OpenInput ==
    /\ pc = "open"
    /\ \/ opened < NInputs /\ opened' = opened + 1 /\ UNCHANGED <<pc, err>>
       \/ opened < NInputs /\ FailTo("closeInputs") /\ UNCHANGED opened
       \/ opened = NInputs /\ Goto("mux") /\ UNCHANGED opened
    /\ UNCHANGED <<readVars, muxVars, closes, released>>

(* validateRemuxMetadata and NewMuxer *)
CreateMuxer ==
    /\ pc = "mux"
    /\ \/ Goto("add") /\ dst' = "partial"
       \/ FailTo("closeInputs") /\ UNCHANGED dst
    /\ UNCHANGED <<readVars, muxerCloses, output, written, ownVars>>

AddStreams ==
    /\ pc = "add"
    /\ Goto("prime") \/ FailTo("release")
    /\ UNCHANGED <<readVars, muxVars, ownVars>>

\* p sorts before q: signs first, then 192-bit products of the magnitudes.
Magnitude(n) == IF n < 0 THEN -n ELSE n
MagnitudeOver(p, q) == Magnitude(p.dts) * TimeBase[p.stream].num * TimeBase[q.stream].den

Before_IgnoresSign(p, q) ==
    \/ p.dts < 0 /\ q.dts >= 0
    \/ (p.dts < 0 <=> q.dts < 0) /\ MagnitudeOver(p, q) < MagnitudeOver(q, p)

Before(p, q) ==
    \/ p.dts < 0 /\ q.dts >= 0
    \/ p.dts >= 0 /\ q.dts >= 0 /\ MagnitudeOver(p, q) < MagnitudeOver(q, p)
    \/ p.dts < 0 /\ q.dts < 0 /\ MagnitudeOver(p, q) > MagnitudeOver(q, p)

Read_TakesErrorAsEnd(i) ==
    \/ done' = [done EXCEPT ![i] = TRUE] /\ UNCHANGED <<pos, next>>
    \/ /\ pos[i] < Len(files[i])
       /\ pos' = [pos EXCEPT ![i] = @ + 1]
       /\ next' = [next EXCEPT ![i] = files[i][pos[i] + 1]]
       /\ UNCHANGED done

(* readRemuxPacket that succeeds: the next packet, or the end of the input. *)
Read(i) ==
    IF pos[i] = Len(files[i])
    THEN done' = [done EXCEPT ![i] = TRUE] /\ UNCHANGED <<pos, next>>
    ELSE /\ pos' = [pos EXCEPT ![i] = @ + 1]
         /\ next' = [next EXCEPT ![i] = files[i][pos[i] + 1]]
         /\ UNCHANGED done

(* readRemuxPacket that fails: there is no packet, or it has no usable     *)
(* stream or timing and is released.                                       *)
ReadFails(i) ==
    /\ FailTo("release")
    /\ \/ UNCHANGED <<pos, released>>
       \/ /\ pos[i] < Len(files[i])
          /\ pos' = [pos EXCEPT ![i] = @ + 1]
          /\ released' = Append(released, <<i, pos[i] + 1>>)
    /\ UNCHANGED <<next, done, cur>>

Prime ==
    /\ pc = "prime"
    /\ \/ /\ cur <= NInputs /\ Read(cur) /\ cur' = cur + 1
          /\ UNCHANGED <<pc, err, released>>
       \/ cur <= NInputs /\ ReadFails(cur)
       \/ cur > NInputs /\ Goto("pick") /\ UNCHANGED <<pos, next, done, cur, released>>
    /\ UNCHANGED <<files, muxVars, opened, closes>>

\* The loop keeps the first cursor no later one is before.
Picked(i) ==
    /\ ~done[i]
    /\ \A j \in Inputs : ~done[j] =>
           IF j < i THEN Before(next[i], next[j]) ELSE ~Before(next[j], next[i])

(* muxer.WritePacket copies what it keeps, so the packet is released       *)
(* whether or not it was accepted.                                         *)
Write(i) ==
    /\ \/ /\ output' = Append(output, [from |-> i, packet |-> next[i]])
          /\ written' = [written EXCEPT ![i] = @ + 1]
          /\ Goto("refill")
       \/ UNCHANGED <<output, written>> /\ FailTo("release")
    /\ released' = Append(released, <<i, pos[i]>>)
    /\ next' = [next EXCEPT ![i] = None]

(* One round of the loop; a cancelled context ends it. *)
Merge ==
    /\ pc = "pick"
    /\ \/ /\ \A i \in Inputs : done[i]
          /\ Goto("finalize") /\ UNCHANGED <<output, written, released, next, cur>>
       \/ FailTo("release") /\ UNCHANGED <<output, written, released, next, cur>>
       \/ \E i \in Inputs : Picked(i) /\ Write(i) /\ cur' = i
    /\ UNCHANGED <<files, pos, done, muxerCloses, dst, opened, closes>>

Refill ==
    /\ pc = "refill"
    /\ \/ Read(cur) /\ Goto("pick") /\ UNCHANGED <<cur, released>>
       \/ ReadFails(cur)
    /\ UNCHANGED <<files, muxVars, opened, closes>>

FailedFinalizeTo_ClosesAgain == "release"

\* closed is set before the call: the deferred Close does not run again.
FailedFinalizeTo == "closeInputs"

Finalize ==
    /\ pc = "finalize"
    /\ muxerCloses' = muxerCloses + 1
    /\ \/ dst' = "complete" /\ Goto("late")
       \/ UNCHANGED dst /\ FailTo(FailedFinalizeTo)
    /\ UNCHANGED <<readVars, output, written, ownVars>>

(* Metadata a lazy reader found after the last packet. *)
ValidateLate ==
    /\ pc = "late"
    /\ Goto("closeInputs") \/ FailTo("closeInputs")
    /\ UNCHANGED <<readVars, muxVars, ownVars>>

-----------------------------------------------------------------------------
(* The deferred calls of remuxDemuxers and of Remux, last deferred first.  *)
ReleaseHeld ==
    /\ pc = "release"
    /\ IF \A i \in Inputs : next[i] = None
       THEN Goto("closeMuxer") /\ UNCHANGED <<next, released>>
       ELSE \E i \in Inputs :
              /\ next[i] # None /\ \A j \in 1 .. i - 1 : next[j] = None
              /\ released' = Append(released, <<i, pos[i]>>)
              /\ next' = [next EXCEPT ![i] = None]
              /\ UNCHANGED <<pc, err>>
    /\ UNCHANGED <<files, pos, done, cur, muxVars, opened, closes>>

CloseMuxer ==
    /\ pc = "closeMuxer"
    /\ muxerCloses' = muxerCloses + 1
    /\ Goto("closeInputs")
    /\ UNCHANGED <<readVars, output, written, dst, ownVars>>

\* Each demuxer closes its source; the sources without a demuxer follow.
Closed == [i \in Inputs |-> closes[i] + 1]

CloseInputs ==
    /\ pc = "closeInputs"
    /\ closes' = Closed
    /\ Goto("returned")
    /\ UNCHANGED <<readVars, muxVars, opened, released>>

Next ==
    \/ OpenInput \/ CreateMuxer \/ AddStreams \/ Prime \/ Merge \/ Refill
    \/ Finalize \/ ValidateLate \/ ReleaseHeld \/ CloseMuxer \/ CloseInputs

Spec == Init /\ [][Next]_remuxVars

-----------------------------------------------------------------------------
\* The packets of each input that were not written.
Rest == [i \in Inputs |-> SubSeq(files[i], written[i] + 1, Len(files[i]))]

Merged == INSTANCE StableMerge WITH rest <- Rest

(* The packets the muxer accepts are the stable merge of what the inputs   *)
(* hold, by exact time, cut short where a step fails (remux.go:21-24,      *)
(* docs/ARCHITECTURE.md:260-263).                                          *)
MergesStably == Merged!Merging

(* When Remux returns, every packet it read was released once, the muxer   *)
(* closed once if there was one, and every source it was given closed      *)
(* once, opened or not (remux.go:13-15, docs/ARCHITECTURE.md:265-266).     *)
(* It returns no error only if each input was read and written to its end  *)
(* and the container finalized (remux.go:138-187).                         *)
Settled ==
    pc = "returned" =>
        /\ \A k, l \in DOMAIN released : released[k] = released[l] => k = l
        /\ \A i \in Inputs : \A n \in 1 .. pos[i] : \E k \in DOMAIN released : released[k] = <<i, n>>
        /\ muxerCloses = IF dst = "none" THEN 0 ELSE 1
        /\ \A i \in Inputs : closes[i] = 1
        /\ ~err => dst = "complete" /\ \A i \in Inputs : done[i] /\ written[i] = Len(files[i])
=============================================================================
