--------------------------- MODULE PostgresStore ---------------------------
(***************************************************************************)
(* eventstore.PostgresStore over the events table, with every statement of  *)
(* a transaction a step of its own.  There is no lock and no check of the   *)
(* stream's length: an AppendAtomic computes its rows' sequence numbers from *)
(* what its caller read and inserts them one by one, and all that keeps two *)
(* writers apart is UNIQUE (aggregate_type, aggregate_id, sequence).  An    *)
(* INSERT of a key that an open transaction holds waits for that            *)
(* transaction; Postgres breaks a cycle of such waits by an error.          *)
(***************************************************************************)
EXTENDS Integers, Sequences, FiniteSets

CONSTANTS
    Streams,          \* (aggregate type, aggregate id) pairs
    Appends,          \* AppendAtomic calls, each used once
    Batches,          \* the lists of stream writes callers pass
    ConnectionsFail   \* statements may fail for reasons of their own

ASSUME ConstantsAssumption ==
    /\ Batches \subseteq Seq([stream : Streams, n : Nat \ {0}])
    /\ ConnectionsFail \in BOOLEAN

VARIABLES
    rows,        \* the table: (stream, sequence) to the row's writer and global_seq
    globalSeq,   \* the last global_seq drawn
    tx,          \* per call, the state of its transaction
    next,        \* per call, the write and the event in it to insert next
    seen,        \* per call and stream, the number of events its caller loaded
    batch,       \* per call, its writes
    result       \* per call, "none" before it, "running" while it waits, then its outcome

vars == <<rows, globalSeq, tx, next, seen, batch, result>>

\* What Load sees of a stream: the rows of committed transactions ...
Visible == {k \in DOMAIN rows : tx[rows[k].by] = "committed"}
SequencesOf(s) == {k[2] : k \in {k \in Visible : k[1] = s}}
Length(s) == Cardinality(SequencesOf(s))

\* ... ORDER BY sequence.
Nth(S, i) == CHOOSE q \in S : Cardinality({p \in S : p <= q}) = i

Loaded(s) == [i \in 1..Length(s) |-> rows[<<s, Nth(SequencesOf(s), i)>>].by]

Init ==
    /\ rows = << >>
    /\ globalSeq = 0
    /\ tx = [a \in Appends |-> "none"]
    /\ next = [a \in Appends |-> <<1, 1>>]
    /\ seen = [a \in Appends |-> [s \in Streams |-> 0]]
    /\ batch = [a \in Appends |-> << >>]
    /\ result = [a \in Appends |-> "none"]

Load(a, s) ==
    /\ result[a] = "none"
    /\ seen' = [seen EXCEPT ![a][s] = Length(s)]
    /\ UNCHANGED <<rows, globalSeq, tx, next, batch, result>>

\* validateWrites: no stream twice.
Valid(b) == \A i, j \in DOMAIN b : b[i].stream = b[j].stream => i = j

\* liveWrites has dropped the writes without events.
AppendAtomic(a, b) ==
    /\ result[a] = "none"
    /\ batch' = [batch EXCEPT ![a] = b]
    /\ result' = [result EXCEPT ![a] = IF ~Valid(b) THEN "invalid"
                                       ELSE IF b = << >> THEN "ok" ELSE "running"]
    /\ tx' = [tx EXCEPT ![a] = IF Valid(b) /\ b # << >> THEN "open" ELSE "none"]
    /\ UNCHANGED <<rows, globalSeq, next, seen>>

-----------------------------------------------------------------------------
(* The transaction.                                                          *)

Inserting(a) == tx[a] = "open" /\ next[a][1] <= Len(batch[a])

\* Mutant: sequences start one too late.
Key_OffByOne(a) ==
    LET s == batch[a][next[a][1]].stream IN <<s, seen[a][s] + next[a][2] + 1>>

\* Mutant: sequences start at 0.
Key_FromZero(a) ==
    LET s == batch[a][next[a][1]].stream IN <<s, seen[a][s] + next[a][2] - 1>>

\* Mutant: inserts the events of a write from the last to the first.
Key_LastFirst(a) ==
    LET w == batch[a][next[a][1]] IN <<w.stream, seen[a][w.stream] + w.n + 1 - next[a][2]>>

\* The key of the row to insert next.
Key(a) ==
    LET s == batch[a][next[a][1]].stream IN <<s, seen[a][s] + next[a][2]>>

After(a) ==
    IF next[a][2] < batch[a][next[a][1]].n THEN <<next[a][1], next[a][2] + 1>>
                                           ELSE <<next[a][1] + 1, 1>>

\* The identity column draws global_seq when the row is inserted, not when it
\* becomes visible.
Insert(a) ==
    /\ Inserting(a)
    /\ Key(a) \notin DOMAIN rows
    /\ rows' = [k \in DOMAIN rows \union {Key(a)} |->
                  IF k = Key(a) THEN [by |-> a, global |-> globalSeq + 1] ELSE rows[k]]
    /\ globalSeq' = globalSeq + 1
    /\ next' = [next EXCEPT ![a] = After(a)]
    /\ UNCHANGED <<tx, seen, batch, result>>

\* The transaction whose uncommitted row the INSERT waits for.
WaitsFor(a, b) ==
    Inserting(a) /\ Key(a) \in DOMAIN rows /\ rows[Key(a)].by = b /\ tx[b] = "open"

\* Mutant: an error return without the deferred Rollback leaves the rows locked.
Rollback_Forgotten(a, outcome) ==
    /\ result' = [result EXCEPT ![a] = outcome]
    /\ next' = [next EXCEPT ![a] = <<Len(batch[a]) + 1, 2>>]
    /\ UNCHANGED <<rows, tx, seen, batch>>

\* Mutant: no transaction, so what was inserted before the error stays.
Rollback_Autocommit(a, outcome) ==
    /\ tx' = [tx EXCEPT ![a] = "committed"]
    /\ result' = [result EXCEPT ![a] = outcome]
    /\ UNCHANGED <<rows, next, seen, batch>>

\* The deferred Rollback: the transaction's rows are gone.
Rollback(a, outcome) ==
    /\ rows' = [k \in {k \in DOMAIN rows : rows[k].by # a} |-> rows[k]]
    /\ tx' = [tx EXCEPT ![a] = "aborted"]
    /\ result' = [result EXCEPT ![a] = outcome]
    /\ UNCHANGED <<next, seen, batch>>

\* A committed row has the key: ErrConcurrencyConflict.
UniqueViolation(a) ==
    /\ Inserting(a)
    /\ Key(a) \in Visible
    /\ globalSeq' = globalSeq + 1
    /\ Rollback(a, "conflict")

\* The INSERT is part of a cycle of waits; Postgres fails it (40P01), which is
\* not the error AppendAtomic looks for.
DeadlockDetected(a) ==
    /\ \E D \in SUBSET Appends :
         /\ a \in D
         /\ \A b \in D : \E c \in D : WaitsFor(b, c)
         /\ \A c \in D : \E b \in D : WaitsFor(b, c)
    /\ Rollback(a, "error")
    /\ UNCHANGED globalSeq

\* A cancelled context, a lost connection, a server shutting down.
Fail(a) ==
    /\ ConnectionsFail
    /\ tx[a] = "open"
    /\ Rollback(a, "error")
    /\ UNCHANGED globalSeq

\* The COMMIT takes effect; its reply may be lost on the way back.
Commit(a) ==
    /\ tx[a] = "open" /\ next[a] = <<Len(batch[a]) + 1, 1>>
    /\ tx' = [tx EXCEPT ![a] = "committed"]
    /\ \/ result' = [result EXCEPT ![a] = "ok"]
       \/ ConnectionsFail /\ result' = [result EXCEPT ![a] = "error"]
    /\ UNCHANGED <<rows, globalSeq, next, seen, batch>>

TxStep(a) == Insert(a) \/ UniqueViolation(a) \/ DeadlockDetected(a) \/ Commit(a)

Next ==
    \E a \in Appends :
        \/ \E s \in Streams : Load(a, s)
        \/ \E b \in Batches : AppendAtomic(a, b)
        \/ TxStep(a) \/ Fail(a)

Spec == Init /\ [][Next]_vars

\* The server executes what it was sent.
FairSpec == Spec /\ \A a \in Appends : WF_vars(TxStep(a))

-----------------------------------------------------------------------------
(* Properties.                                                               *)

Keys == Streams \X (Nat \ {0})
Rows == [by : Appends, global : Nat]

\* The table, the transactions and the calls stay within their types, and only a
\* transaction that is open or committed owns rows.
TypeOK ==
    /\ DOMAIN rows \subseteq Keys
    /\ \A k \in DOMAIN rows : rows[k] \in Rows /\ tx[rows[k].by] \in {"open", "committed"}
    /\ globalSeq \in Nat
    /\ tx \in [Appends -> {"none", "open", "committed", "aborted"}]
    /\ next \in [Appends -> Nat \X Nat]
    /\ seen \in [Appends -> [Streams -> Nat]]
    /\ batch \in [Appends -> Batches \union {<< >>}]
    /\ result \in [Appends -> {"none", "running", "ok", "conflict", "error", "invalid"}]

\* The committed sequences of a stream are 1, 2, ... without a gap, although no
\* append ever checks the stream's length: callers take len(events) for the
\* stream's last sequence.
Gapless == \A s \in Streams : SequencesOf(s) = 1..Length(s)

\* The unique constraint and the transaction add up to what Store promises:
\* PostgresStore implements the atomic compare-and-append of EventStore.
Store == INSTANCE EventStore WITH streams <- [s \in Streams |-> Loaded(s)]

Refinement == Store!Spec

\* An AppendAtomic that was sent returns, also when racing batches wait for each
\* other's rows in opposite orders.
AppendReturns == \A a \in Appends : result[a] = "running" ~> result[a] # "running"

\* Although global_seq is drawn before a row is visible, a reader that goes by
\* it meets the events of each single stream in the stream's own order.
GlobalFollowsSequence ==
    \A j, k \in Visible : j[1] = k[1] /\ j[2] < k[2] => rows[j].global < rows[k].global
=============================================================================
