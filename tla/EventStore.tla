----------------------------- MODULE EventStore -----------------------------
(***************************************************************************)
(* What eventstore.Store promises its callers, and what MemoryStore does    *)
(* under its mutex: a stream is a sequence that only grows, Load returns    *)
(* the whole of it, and AppendAtomic writes to several streams at once if   *)
(* none of them has moved since the caller read it, else to none.  An event *)
(* is represented by the AppendAtomic call that wrote it.                   *)
(***************************************************************************)
EXTENDS Integers, Sequences

CONSTANTS
    Streams,   \* (aggregate type, aggregate id) pairs
    Appends,   \* AppendAtomic calls, each used once
    Batches    \* the lists of stream writes callers pass, as stream and event count

VARIABLES
    streams,   \* per stream, its events
    seen,      \* per call and stream, the length the caller read
    batch,     \* per call, its writes
    result     \* per call, "none" before it, "running" while it waits, then its outcome

vars == <<streams, seen, batch, result>>

Init ==
    /\ streams = [s \in Streams |-> << >>]
    /\ seen = [a \in Appends |-> [s \in Streams |-> 0]]
    /\ batch = [a \in Appends |-> << >>]
    /\ result = [a \in Appends |-> "none"]

\* The caller reads a stream it means to append to; a stream it never read is
\* taken for a brand new one.
Load(a, s) ==
    /\ result[a] = "none"
    /\ seen' = [seen EXCEPT ![a][s] = Len(streams[s])]
    /\ UNCHANGED <<streams, batch, result>>

\* validateWrites: no stream twice.
Valid(b) == \A i, j \in DOMAIN b : b[i].stream = b[j].stream => i = j

\* liveWrites has dropped the writes without events; a batch with nothing left
\* is done and a malformed one refused before anything is looked at.
AppendAtomic(a, b) ==
    /\ result[a] = "none"
    /\ batch' = [batch EXCEPT ![a] = b]
    /\ result' = [result EXCEPT ![a] = IF ~Valid(b) THEN "invalid"
                                       ELSE IF b = << >> THEN "ok" ELSE "running"]
    /\ UNCHANGED <<streams, seen>>

\* No stream of the batch has moved since the caller read it.
Current(a) ==
    \A i \in DOMAIN batch[a] : LET s == batch[a][i].stream IN Len(streams[s]) = seen[a][s]

\* The events the batch adds to stream s.
Added(a, s) ==
    IF \E i \in DOMAIN batch[a] : batch[a][i].stream = s
      THEN LET w == CHOOSE i \in DOMAIN batch[a] : batch[a][i].stream = s
           IN  [k \in 1..batch[a][w].n |-> a]
      ELSE << >>

Write(a) == Current(a) /\ streams' = [s \in Streams |-> streams[s] \o Added(a, s)]

Answer(a, outcome) ==
    /\ result[a] = "running"
    /\ result' = [result EXCEPT ![a] = outcome]
    /\ UNCHANGED <<seen, batch>>

Succeed(a) == Write(a) /\ Answer(a, "ok")

Conflict(a) == ~Current(a) /\ Answer(a, "conflict") /\ UNCHANGED streams

\* Any other error leaves the caller in doubt: all of the batch was written, or
\* nothing.
Fail(a) == (Write(a) \/ UNCHANGED streams) /\ Answer(a, "error")

Next ==
    \E a \in Appends :
        \/ \E s \in Streams : Load(a, s)
        \/ \E b \in Batches : AppendAtomic(a, b)
        \/ Succeed(a) \/ Conflict(a) \/ Fail(a)

Spec == Init /\ [][Next]_vars
=============================================================================
