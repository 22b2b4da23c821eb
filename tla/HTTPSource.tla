------------------------------ MODULE HTTPSource ------------------------------
(***************************************************************************)
(* pkg/media/source_http.go: the bytes of an HTTP resource, fetched range  *)
(* by range.  Callers read, read at an offset, seek and close it           *)
(* concurrently; a ContextMutex (posMu) guards the position and the read-  *)
(* ahead, and reads at an offset go past it.  Any request may fail, hang,  *)
(* break off in the body or find that the resource has been replaced, and  *)
(* a failed one is repeated while the call's budget lasts.  Close cancels  *)
(* the root context, which reaches the context of each call a moment later *)
(* (context.AfterFunc).                                                    *)
(*                                                                         *)
(* A byte is [at, version]: its offset, and the resource it is from.  The  *)
(* replacement has the size of the original; one of another size is an     *)
(* answer that does not fit.                                               *)
(***************************************************************************)
EXTENDS Integers, Sequences, FiniteSets

CONSTANTS
    Ops, None,          \* the callers; no caller
    Size,               \* bytes of the resource
    ReadAheadBytes,     \* HTTPSourceOptions, -1 for none
    MaxRetries,
    Validated,          \* whether the server may send an ETag or a Last-Modified, and whether it may not
    Lengths,            \* of the buffers that callers read into
    Offsets,            \* that callers seek to and read at
    MaxCalls            \* bound: calls to the source

ASSUME HTTPAssumption ==
    /\ None \notin Ops
    /\ Size \in Nat /\ MaxRetries \in Nat /\ ReadAheadBytes \in Nat \cup {-1}
    /\ Validated \subseteq BOOLEAN /\ Lengths \subseteq Nat \ {0} /\ Offsets \subseteq Nat

VARIABLES
    gate, waiting, pc, cancelled,   \* s.posMu, see ContextMutex; a read at an offset stays "out"
    call,        \* what each caller is doing: [kind, len, off, at, from, want, attempt]
    closed,      \* s.closed; the root context is cancelled with it
    source,      \* s.pos, s.readAhead and s.readAheadOffset: [pos, ahead, aheadAt]
    validated,   \* is s.etag or s.modified set?
    version,     \* of the resource on the server; 1 is the one that was opened
    log,         \* history: what the calls that moved or read returned, in order, and the version then
    calls        \* number of calls made

mutexVars == <<gate, waiting, pc, cancelled>>
vars == <<gate, waiting, pc, cancelled, call, closed, source, validated, version, log, calls>>

Mutex == INSTANCE ContextMutex WITH Cancellable <- Ops

Idle == [kind |-> "none", len |-> 0, off |-> 0, at |-> "nowhere", from |-> 0, want |-> 0, attempt |-> 0]

Least(a, b) == IF a < b THEN a ELSE b
Bytes(v, from, n) == [i \in 1 .. n |-> [at |-> from + i - 1, version |-> v]]

\* OpenHTTP has learned the size and the validators from a probe.
Init ==
    /\ Mutex!Init
    /\ call = [t \in Ops |-> Idle]
    /\ closed = FALSE
    /\ source = [pos |-> 0, ahead |-> <<>>, aheadAt |-> 0]
    /\ validated \in Validated /\ version = 1
    /\ log = <<>> /\ calls = 0

-----------------------------------------------------------------------------
\* The resource is replaced; callers' contexts; the entry to an operation.
Replace ==
    /\ version = 1 /\ version' = 2
    /\ UNCHANGED <<mutexVars, call, closed, source, validated, log, calls>>

Cancel(t) ==
    /\ call[t].kind \in {"read", "readAt"} /\ t \notin cancelled
    /\ cancelled' = cancelled \cup {t}
    /\ UNCHANGED <<gate, waiting, pc, call, closed, source, validated, version, log, calls>>

RootCancel_Never(t) == FALSE /\ Cancel(t)

RootCancel(t) == closed /\ Cancel(t)

\* A call on a closed source fails at once, and so does one with nothing to read.
Call(t, kind, len, off) ==
    /\ call[t].kind = "none" /\ calls < MaxCalls
    /\ calls' = calls + 1
    /\ closed' = (closed \/ kind = "close")
    /\ UNCHANGED <<source, validated, version, log>>
    /\ LET made == [Idle EXCEPT !.kind = kind, !.len = len, !.off = off, !.at = "start"] IN
       IF kind = "close" \/ (closed /\ kind # "seek") THEN UNCHANGED <<mutexVars, call>>
       ELSE IF kind = "readAt"
       THEN /\ call' = [call EXCEPT ![t] = made]
            /\ cancelled' = cancelled \ {t} /\ UNCHANGED <<gate, waiting, pc>>
       ELSE call' = [call EXCEPT ![t] = made] /\ Mutex!Enter(t)

\* The steps inside posMu.lock; a caller that is refused has returned.
Lock(t) ==
    /\ Mutex!Abandon(t) \/ Mutex!Admit(t) \/ Mutex!Refuse(t)
    /\ call' = [call EXCEPT ![t] = IF pc'[t] = "out" THEN Idle ELSE @]
    /\ UNCHANGED <<closed, source, validated, version, log, calls>>

At(t, where) == call[t].at = where /\ (call[t].kind # "readAt" => pc[t] = "in")
Goto(t, where) ==
    /\ call' = [call EXCEPT ![t].at = where]
    /\ UNCHANGED <<mutexVars, closed, source, validated, version, log, calls>>

\* The call returns what it read and says.
Return(t, bytes, result) ==
    /\ call' = [call EXCEPT ![t] = Idle]
    /\ log' = IF bytes = <<>> /\ result = "error" THEN log
              ELSE Append(log, [kind |-> call[t].kind, len |-> call[t].len, off |-> call[t].off,
                                bytes |-> bytes, result |-> result, version |-> version])
    /\ IF call[t].kind = "readAt" THEN UNCHANGED mutexVars ELSE Mutex!Unlock(t)
    /\ UNCHANGED <<closed, validated, version, calls>>

-----------------------------------------------------------------------------
Seek_KeepsAhead(t) ==
    /\ call[t].kind = "seek" /\ At(t, "start")
    /\ IF closed THEN Return(t, <<>>, "error") /\ UNCHANGED source
       ELSE source' = [source EXCEPT !.pos = call[t].off] /\ Return(t, <<>>, "ok")

\* Seek, but for the query of the position.
Seek(t) ==
    /\ call[t].kind = "seek" /\ At(t, "start")
    /\ IF closed THEN Return(t, <<>>, "error") /\ UNCHANGED source
       ELSE source' = [source EXCEPT !.pos = call[t].off, !.ahead = <<>>] /\ Return(t, <<>>, "ok")

\* The position is in what was read ahead.
Ahead == source.pos >= source.aheadAt /\ source.pos < source.aheadAt + Len(source.ahead)

Direct(t) == ReadAheadBytes < 0 \/ call[t].len >= ReadAheadBytes \/ source.pos >= Size

\* What is left of it for the caller.
FromAhead(t, s) ==
    LET first == s.pos - s.aheadAt
        n == Least(call[t].len, Len(s.ahead) - first)
    IN  /\ source' = [s EXCEPT !.pos = @ + n]
        /\ Return(t, SubSeq(s.ahead, first + 1, first + n), IF n < call[t].len /\ s.pos + n = Size THEN "eof" ELSE "ok")

\* ReadContext, behind the lock: from the read-ahead, or from the server.
Read(t) ==
    /\ call[t].kind = "read" /\ At(t, "start")
    /\ IF closed \/ t \in cancelled THEN Return(t, <<>>, "error") /\ UNCHANGED source
       ELSE IF ~Direct(t) /\ Ahead THEN FromAhead(t, source)
       ELSE Goto(t, "range")

\* ReadAtContext: the range of a call, and whether there is one.
PlanRange(t) ==
    LET from == IF call[t].kind = "readAt" THEN call[t].off ELSE source.pos
        want == IF call[t].kind = "readAt" \/ Direct(t) THEN call[t].len ELSE ReadAheadBytes
    IN  /\ At(t, IF call[t].kind = "readAt" THEN "start" ELSE "range")
        /\ IF closed \/ t \in cancelled
           THEN /\ Return(t, <<>>, "error")
                /\ source' = IF call[t].kind = "readAt" \/ Direct(t) THEN source ELSE [source EXCEPT !.ahead = <<>>]
           ELSE IF from >= Size THEN Return(t, <<>>, "eof") /\ UNCHANGED source
           ELSE /\ call' = [call EXCEPT ![t].at = "request", ![t].from = from, ![t].want = Least(want, Size - from)]
                /\ UNCHANGED <<mutexVars, closed, source, validated, version, log, calls>>

-----------------------------------------------------------------------------
Fetched_DropsPartial(t, bytes, ok) ==
    LET c == call[t]
        n == Len(bytes)
        result == IF ~ok THEN "error" ELSE IF c.want < c.len THEN "eof" ELSE "ok"
    IN  IF c.kind = "readAt" THEN Return(t, bytes, result) /\ UNCHANGED source
        ELSE IF Direct(t) THEN source' = [source EXCEPT !.pos = IF ok THEN @ + n ELSE @] /\ Return(t, bytes, result)
        ELSE IF ok THEN FromAhead(t, [source EXCEPT !.ahead = bytes, !.aheadAt = c.from])
        ELSE source' = [source EXCEPT !.ahead = <<>>] /\ Return(t, <<>>, "error")

\* The range has been fetched, or failed after these bytes.
Fetched(t, bytes, ok) ==
    LET c == call[t]
        n == Len(bytes)
        result == IF ~ok THEN "error" ELSE IF c.want < c.len THEN "eof" ELSE "ok"
    IN  IF c.kind = "readAt" THEN Return(t, bytes, result) /\ UNCHANGED source
        ELSE IF Direct(t) THEN source' = [source EXCEPT !.pos = @ + n] /\ Return(t, bytes, result)
        ELSE IF ok THEN FromAhead(t, [source EXCEPT !.ahead = bytes, !.aheadAt = c.from])
        ELSE source' = [source EXCEPT !.ahead = <<>>] /\ Return(t, <<>>, "error")

\* The request, or the body of its answer after some bytes, failed: again, or that was it.
Broken(t, bytes) ==
    \/ Fetched(t, bytes, FALSE)
    \/ /\ t \notin cancelled /\ call[t].attempt < MaxRetries
       /\ call' = [call EXCEPT ![t].attempt = @ + 1]
       /\ UNCHANGED <<mutexVars, closed, source, validated, version, log, calls>>

\* The context is done, the server cannot be reached or is busy.
RequestFails(t) == At(t, "request") /\ Broken(t, <<>>)

\* An answer that says it is from another resource, or that is not the range.
Unfit(t) == At(t, "request") /\ t \notin cancelled /\ Fetched(t, <<>>, FALSE)

\* An answer whose header passes: it is from the resource that was opened as far as validators tell.
Fits == validated => version = 1

Answer(t) ==
    /\ At(t, "request") /\ t \notin cancelled /\ Fits
    /\ \/ Fetched(t, Bytes(version, call[t].from, call[t].want), TRUE)
       \/ Fetched(t, Bytes(version, call[t].from, call[t].want), FALSE)     \* there was more of it

\* The body breaks off.
Truncated(t) ==
    /\ At(t, "request") /\ Fits
    /\ \E n \in 0 .. call[t].want : Broken(t, Bytes(version, call[t].from, n))

Next ==
    \/ Replace
    \/ \E t \in Ops :
          \/ \E len \in Lengths : Call(t, "read", len, 0) \/ \E off \in Offsets : Call(t, "readAt", len, off)
          \/ \E off \in Offsets : Call(t, "seek", 0, off)
          \/ Call(t, "close", 0, 0)
          \/ Cancel(t) \/ Lock(t) \/ Seek(t) \/ Read(t) \/ PlanRange(t)
          \/ RequestFails(t) \/ Unfit(t) \/ Answer(t) \/ Truncated(t)

Spec == Init /\ [][Next]_vars

(* A caller runs on, but a request may hang for as long as nobody cancels  *)
(* it; when its context is done the client returns.                        *)
Running(t) == Lock(t) \/ Seek(t) \/ Read(t) \/ PlanRange(t) \/ (t \in cancelled /\ RequestFails(t))

Fairness == \A t \in Ops : WF_vars(Running(t)) /\ WF_vars(RootCancel(t))

FairSpec == Spec /\ Fairness

-----------------------------------------------------------------------------
\* Where Read goes on after the first n calls of the log.
Position[n \in 0 .. Len(log)] ==
    IF n = 0 THEN 0
    ELSE CASE log[n].kind = "seek" -> log[n].off
           [] log[n].kind = "read" -> Position[n - 1] + Len(log[n].bytes)
           [] OTHER -> Position[n - 1]

(***************************************************************************)
(* The bytes that reads return, in the order in which they were admitted,  *)
(* are those of the resource from where the last seek went, none missing   *)
(* and none repeated, across retries, failed reads with some bytes and     *)
(* reads at an offset in between, from the read-ahead or not.  The end is  *)
(* reported there only, and a read at an offset that does not report it    *)
(* fills the buffer (source_http.go:113-162, 168-206).                     *)
(***************************************************************************)
ReadsTile ==
    \A n \in DOMAIN log :
        LET c == log[n]
            at == IF c.kind = "readAt" THEN c.off ELSE Position[n - 1]
        IN  c.kind # "seek" =>
              /\ \A i \in DOMAIN c.bytes : c.bytes[i].at = at + i - 1
              /\ c.result = "eof" => at + Len(c.bytes) >= Size
              /\ c.result = "ok" => Len(c.bytes) > 0 /\ (c.kind = "readAt" => Len(c.bytes) = c.len)

(***************************************************************************)
(* With a validator no byte is from another resource than the one that was *)
(* opened.  Without one, the bytes of one call are from one version, also  *)
(* if the resource is replaced between two attempts, and after a seek none *)
(* is from a version the server no longer had then                         *)
(* (source_http.go:238-241, 295-322).                                      *)
(***************************************************************************)
OneResource ==
    \A n \in DOMAIN log : \A i \in DOMAIN log[n].bytes :
        LET v == log[n].bytes[i].version IN
        /\ validated => v = 1
        /\ \A j \in DOMAIN log[n].bytes : log[n].bytes[j].version = v
        /\ \A m \in 1 .. n : log[m].kind = "seek" /\ log[n].kind = "read" => v >= log[m].version

(***************************************************************************)
(* Once the source is closed every call running or queued returns, even if *)
(* a request would hang for ever, and so does a call whose context is      *)
(* cancelled; and nobody is left at the lock unless one that has it waits  *)
(* for the server (source_http.go:97-107, 244-261, context_mutex.go:15-32).*)
(***************************************************************************)
Unblocks ==
    /\ \A t \in Ops : (closed \/ t \in cancelled) /\ call[t].kind # "none" ~> call[t].kind = "none"
    /\ \A t \in Ops : pc[t] \in {"queued", "holding"} ~>
          pc[t] \in {"out", "in"} \/ \E u \in Ops : pc[u] = "in" /\ call[u].at = "request"
=============================================================================
