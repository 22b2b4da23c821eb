---------------------------- MODULE ContextMutex ----------------------------
(***************************************************************************)
(* pkg/media/context_mutex.go: the lock that admits one operation of a     *)
(* demuxer or source at a time and lets an operation give up while it is   *)
(* queued, when its context is cancelled.                                  *)
(*                                                                         *)
(* The gate is a channel with room for one token.  A sender blocked on a   *)
(* full channel waits in the channel's queue, and the token taken out by   *)
(* an unlock is replaced in the same step by that of the sender at its     *)
(* head; a sender waiting in a select also leaves when the other case      *)
(* fires.  An operation is identified with the caller that performs it.    *)
(* Operators named <definition>_<bug> are mutants of the one that follows. *)
(***************************************************************************)
EXTENDS Naturals, Sequences

CONSTANTS
    Ops,           \* the callers
    Cancellable,   \* those whose context can be cancelled (Lock() uses Background)
    None           \* no operation

ASSUME MutexAssumption == Cancellable \subseteq Ops /\ None \notin Ops

VARIABLES
    gate,         \* the operation whose token is in the channel, or None
    waiting,      \* the senders blocked on the channel, in order
    pc,           \* "out", "queued", "holding" (token in, context not rechecked), "in"
    cancelled     \* the operations whose context is done

vars == <<gate, waiting, pc, cancelled>>

TypeOK ==
    /\ gate \in Ops \cup {None}
    /\ waiting \in Seq(Ops)
    /\ pc \in [Ops -> {"out", "queued", "holding", "in"}]
    /\ cancelled \subseteq Cancellable

Init ==
    /\ gate = None /\ waiting = <<>>
    /\ pc = [o \in Ops |-> "out"]
    /\ cancelled = {}

(* lock: the select sends at once if the channel has room.  A call whose   *)
(* context is done already returns without a trace and is no step here.    *)
Enter(o) ==
    /\ pc[o] = "out"
    /\ IF gate = None
       THEN gate' = o /\ pc' = [pc EXCEPT ![o] = "holding"] /\ UNCHANGED waiting
       ELSE waiting' = Append(waiting, o) /\ pc' = [pc EXCEPT ![o] = "queued"] /\ UNCHANGED gate
    /\ cancelled' = cancelled \ {o}

Cancel(o) ==
    /\ o \in Cancellable /\ pc[o] # "out"
    /\ cancelled' = cancelled \cup {o}
    /\ UNCHANGED <<gate, waiting, pc>>

(* <-m.gate by operation o, which is then out. *)
Release(o) ==
    IF waiting = <<>>
    THEN /\ gate' = None
         /\ pc' = [pc EXCEPT ![o] = "out"]
         /\ UNCHANGED waiting
    ELSE /\ gate' = Head(waiting)
         /\ waiting' = Tail(waiting)
         /\ pc' = [pc EXCEPT ![o] = "out", ![Head(waiting)] = "holding"]

\* A sequence in which o occurs once, without it.
Without(s, o) ==
    LET i == CHOOSE j \in DOMAIN s : s[j] = o
    IN  SubSeq(s, 1, i - 1) \o SubSeq(s, i + 1, Len(s))

(* The select's ctx.Done case. *)
Abandon(o) ==
    /\ pc[o] = "queued" /\ o \in cancelled
    /\ pc' = [pc EXCEPT ![o] = "out"]
    /\ waiting' = Without(waiting, o)
    /\ UNCHANGED <<gate, cancelled>>

Admit(o) ==
    /\ pc[o] = "holding" /\ o \notin cancelled
    /\ pc' = [pc EXCEPT ![o] = "in"]
    /\ UNCHANGED <<gate, waiting, cancelled>>

Refuse_KeepsToken(o) ==
    /\ pc[o] = "holding" /\ o \in cancelled
    /\ pc' = [pc EXCEPT ![o] = "out"]
    /\ UNCHANGED <<gate, waiting, cancelled>>

Refuse(o) ==
    /\ pc[o] = "holding" /\ o \in cancelled
    /\ Release(o)
    /\ UNCHANGED cancelled

Unlock(o) ==
    /\ pc[o] = "in"
    /\ Release(o)
    /\ UNCHANGED cancelled

Next == \E o \in Ops : Enter(o) \/ Cancel(o) \/ Abandon(o) \/ Admit(o) \/ Refuse(o) \/ Unlock(o)

Spec == Init /\ [][Next]_vars

-----------------------------------------------------------------------------
(* At most one operation is past the lock (context_mutex.go:8, 20-26).     *)
MutualExclusion == \A o, p \in Ops : pc[o] = "in" /\ pc[p] = "in" => o = p

(* The token is in the channel exactly while an operation holds the lock   *)
(* or is about to be admitted or refused: a refused operation puts it back *)
(* (context_mutex.go:22-25), so the lock cannot be left taken for ever.    *)
TokenHasOwner ==
    /\ \A o \in Ops : gate = o <=> pc[o] \in {"holding", "in"}
    /\ gate = None => waiting = <<>>

=============================================================================
