----------------------------- MODULE StableMerge -----------------------------
(***************************************************************************)
(* What Remux promises of the order of packets (pkg/media/remux.go:21-24): *)
(* inputs are merged by exact decoding time, equal times keep input order. *)
(* A packet's time is dts ticks of its stream's time base, a fraction of a *)
(* second; fractions are compared exactly, never rounded to nanoseconds.   *)
(***************************************************************************)
EXTENDS Integers, Sequences

CONSTANTS
    Inputs,      \* 1 .. number of inputs
    TimeBase     \* of each stream, [num, den]

VARIABLES
    files,       \* of each input, the packets it holds
    rest,        \* of each input, the packets still to come
    output       \* the packets merged, each with the input it came from

mergeVars == <<files, rest, output>>

\* The exact times of packets p and q, times the same positive number.
TimeOver(p, q) == p.dts * (TimeBase[p.stream].num * TimeBase[q.stream].den)
Sooner(p, q) == TimeOver(p, q) < TimeOver(q, p)

MergeInit == rest = files /\ output = <<>>

\* i is the first of the inputs with the earliest packet.
IsNext(i) ==
    /\ rest[i] # <<>>
    /\ \A j \in Inputs : rest[j] # <<>> =>
           IF j < i THEN Sooner(Head(rest[i]), Head(rest[j]))
                    ELSE ~Sooner(Head(rest[j]), Head(rest[i]))

Take(i) ==
    /\ IsNext(i)
    /\ output' = Append(output, [from |-> i, packet |-> Head(rest[i])])
    /\ rest' = [rest EXCEPT ![i] = Tail(rest[i])]
    /\ UNCHANGED files

MergeNext == \E i \in Inputs : Take(i)

Merging == MergeInit /\ [][MergeNext]_mergeVars
=============================================================================
