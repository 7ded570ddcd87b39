------------------------ MODULE PostgresStoreProofs ------------------------
(***************************************************************************)
(* PostgresStore implements EventStore, for any streams, any batches and    *)
(* any number of concurrent appends.  The inductive invariant says what an  *)
(* open transaction holds: exactly the rows it has inserted so far, counted  *)
(* from a length that was the stream's at some time before.                 *)
(***************************************************************************)
EXTENDS PostgresStore, FiniteSetTheorems, TLAPS

\* Event i of write j of the batch has been inserted.
Inserted(a, j, i) == j < next[a][1] \/ (j = next[a][1] /\ i < next[a][2])

\* The key of event i of write j.
KeyOf(a, j, i) ==
    <<batch[a][j].stream, seen[a][batch[a][j].stream] + i>>

Contiguous == \A s \in Streams : \E n \in Nat : SequencesOf(s) = 1..n

\* What its caller read of a stream is at most what is there.
SeenIsPast == \A a \in Appends, s \in Streams : seen[a][s] <= Length(s)

\* Where an open transaction is in its batch.
InBatch ==
    \A a \in Appends :
        /\ result[a] = "none" => tx[a] = "none"
        /\ tx[a] = "none" => next[a] = <<1, 1>>
        /\ tx[a] = "open" <=> result[a] = "running"
        /\ tx[a] = "open" =>
             /\ Valid(batch[a])
             /\ next[a][1] \in 1..(Len(batch[a]) + 1)
             /\ next[a][1] <= Len(batch[a]) => next[a][2] \in 1..batch[a][next[a][1]].n
             /\ next[a][1] = Len(batch[a]) + 1 => next[a][2] = 1

\* An open transaction owns the rows it has inserted ...
HoldsInserted ==
    \A a \in Appends : tx[a] = "open" =>
        \A j \in DOMAIN batch[a] : \A i \in 1..batch[a][j].n : Inserted(a, j, i) =>
            KeyOf(a, j, i) \in DOMAIN rows /\ rows[KeyOf(a, j, i)].by = a

\* ... and no others.
HoldsOnly ==
    \A k \in DOMAIN rows : LET a == rows[k].by IN tx[a] = "open" =>
        \E j \in DOMAIN batch[a] : \E i \in 1..batch[a][j].n :
            Inserted(a, j, i) /\ k = KeyOf(a, j, i)

Inv == TypeOK /\ Contiguous /\ SeenIsPast /\ InBatch /\ HoldsInserted /\ HoldsOnly

-----------------------------------------------------------------------------
(* Contiguous sequences.                                                     *)

\* The n numbers of 1..n, and the i-th of them.
LEMMA NthOfInterval ==
    ASSUME NEW n \in Nat
    PROVE  Cardinality(1..n) = n /\ \A i \in 1..n : Nth(1..n, i) = i
<1>1. \A m \in Nat : Cardinality(1..m) = m
  <2> TAKE m \in Nat
  <2> QED BY FS_Interval, 1 \in Int, m \in Int
<1>2. \A q \in 1..n : Cardinality({p \in 1..n : p <= q}) = q
  <2> TAKE q \in 1..n
  <2>1. {p \in 1..n : p <= q} = 1..q /\ q \in Nat
    OBVIOUS
  <2> QED BY <1>1, <2>1
<1>3. ASSUME NEW i \in 1..n PROVE Nth(1..n, i) = i
  BY <1>2, <1>3 DEF Nth
<1> QED BY <1>1, <1>3

\* Contiguous is Gapless.
LEMMA ContiguousIsGapless ==
    ASSUME Contiguous
    PROVE  Gapless /\ \A s \in Streams : Length(s) \in Nat
<1> SUFFICES ASSUME NEW s \in Streams
             PROVE  SequencesOf(s) = 1..Length(s) /\ Length(s) \in Nat
  BY DEF Gapless
<1>1. PICK n \in Nat : SequencesOf(s) = 1..n
  BY DEF Contiguous
<1>2. Length(s) = n
  BY <1>1, NthOfInterval DEF Length
<1> QED BY <1>1, <1>2

\* What Load returns of a stream whose sequences are contiguous.
LEMMA LoadedIs ==
    ASSUME NEW s, NEW n \in Nat, SequencesOf(s) = 1..n
    PROVE  Loaded(s) = [i \in 1..n |-> rows[<<s, i>>].by] /\ Length(s) = n
<1>1. Length(s) = n
  BY NthOfInterval DEF Length
<1>2. \A i \in 1..n : Nth(SequencesOf(s), i) = i
  BY NthOfInterval
<1> QED BY <1>1, <1>2 DEF Loaded

-----------------------------------------------------------------------------
(* The invariant.                                                            *)

\* What a step leaves of the visible rows it leaves of every stream.
LEMMA SameVisible ==
    ASSUME Visible' = Visible
    PROVE  \A s : SequencesOf(s)' = SequencesOf(s) /\ Length(s)' = Length(s)
BY DEF SequencesOf, Length

\* The empty table satisfies the invariant.
LEMMA InvInit == ASSUME Init PROVE Inv
<1>1. DOMAIN rows = {}
  BY DEF Init
<1>2. TypeOK
  BY <1>1 DEF Init, TypeOK
<1>3. \A s \in Streams : SequencesOf(s) = 1..0
  BY <1>1 DEF SequencesOf, Visible
<1>4. Contiguous /\ \A s \in Streams : Length(s) = 0
  BY <1>3, NthOfInterval DEF Contiguous, Length
<1>5. SeenIsPast
  BY <1>4 DEF Init, SeenIsPast
<1>6. InBatch /\ HoldsInserted /\ HoldsOnly
  BY <1>1 DEF Init, InBatch, HoldsInserted, HoldsOnly
<1> QED BY <1>2, <1>4, <1>5, <1>6 DEF Inv

\* A batch with a write in it has a first write.
LEMMA NonEmptyBatch ==
    ASSUME NEW b \in Seq([stream : Streams, n : Nat \ {0}]), b # << >>
    PROVE  Len(b) \in Nat \ {0} /\ b[1].n \in Nat \ {0}
<1> DEFINE W == [stream : Streams, n : Nat \ {0}]
<1>1. Len(b) \in Nat \ {0} /\ b[1] \in W
  <2> HIDE DEF W
  <2>1. b \in Seq(W)
    BY DEF W
  <2> QED BY <2>1
<1> QED BY <1>1

\* A Load records a length that is, and stays, a past length of its stream.
LEMMA LoadPreserves == ASSUME Inv, NEW a \in Appends, NEW s \in Streams, Load(a, s) PROVE Inv'
<1> USE DEF Inv, Load
<1>1. Visible' = Visible
  BY DEF Visible
<1>2. \A t \in Streams : Length(t) \in Nat
  BY ContiguousIsGapless
<1>3. /\ seen' \in [Appends -> [Streams -> Nat]]
      /\ \A b \in Appends : b # a => seen'[b] = seen[b]
      /\ seen'[a][s] = Length(s) /\ \A t \in Streams : t # s => seen'[a][t] = seen[a][t]
  BY <1>2 DEF TypeOK
<1>4. TypeOK'
  BY <1>3 DEF TypeOK
<1>5. Contiguous'
  BY <1>1, SameVisible DEF Contiguous
<1>6. SeenIsPast'
  BY <1>1, <1>2, <1>3, SameVisible DEF SeenIsPast
<1>7. InBatch'
  BY DEF InBatch, Valid
<1>8. tx[a] # "open"
  BY DEF InBatch
<1>9. HoldsInserted'
  BY <1>3, <1>8 DEF HoldsInserted, Inserted, KeyOf
<1>10. HoldsOnly'
  BY <1>3, <1>8 DEF HoldsOnly, Inserted, KeyOf, TypeOK, Rows
<1> QED BY <1>4, <1>5, <1>6, <1>7, <1>9, <1>10

\* Opening the transaction puts the call at the first row of its batch.
LEMMA AppendAtomicPreserves ==
    ASSUME Inv, NEW a \in Appends, NEW b \in Batches, AppendAtomic(a, b) PROVE Inv'
<1> USE DEF Inv, AppendAtomic
<1>0. b \in Seq([stream : Streams, n : Nat \ {0}])
  BY ConstantsAssumption
<1>1. tx[a] = "none" /\ next[a] = <<1, 1>>
  BY DEF InBatch
<1>2. \A k \in DOMAIN rows : rows[k].by # a /\ rows[k].by \in Appends
  BY <1>1 DEF TypeOK, Rows
<1>3. \A c \in Appends : c # a => tx'[c] = tx[c] /\ batch'[c] = batch[c] /\ result'[c] = result[c]
  BY DEF TypeOK
<1>4. /\ batch'[a] = b /\ tx'[a] \in {"none", "open"}
      /\ tx'[a] = "open" <=> Valid(b) /\ b # << >>
      /\ result'[a] = IF ~Valid(b) THEN "invalid" ELSE IF b = << >> THEN "ok" ELSE "running"
  BY DEF TypeOK
<1>5. Visible' = Visible
  BY <1>2, <1>3 DEF Visible
<1>6. TypeOK'
  BY <1>2, <1>3, <1>4 DEF TypeOK
<1>7. Contiguous' /\ SeenIsPast'
  BY <1>5, SameVisible DEF Contiguous, SeenIsPast
<1>8. InBatch'
  <2> SUFFICES ASSUME NEW c \in Appends PROVE
        /\ result'[c] = "none" => tx'[c] = "none"
        /\ tx'[c] = "none" => next'[c] = <<1, 1>>
        /\ tx'[c] = "open" <=> result'[c] = "running"
        /\ tx'[c] = "open" =>
             /\ Valid(batch'[c])
             /\ next'[c][1] \in 1..(Len(batch'[c]) + 1)
             /\ next'[c][1] <= Len(batch'[c]) => next'[c][2] \in 1..batch'[c][next'[c][1]].n
             /\ next'[c][1] = Len(batch'[c]) + 1 => next'[c][2] = 1
    BY DEF InBatch, Valid
  <2>1. CASE c # a
    BY <2>1, <1>3 DEF InBatch
  <2>2. CASE c = a
    <3>1. b # << >> => Len(b) \in Nat \ {0} /\ b[1].n \in Nat \ {0}
      BY <1>0, NonEmptyBatch
    <3>2. next'[a][1] = 1 /\ next'[a][2] = 1
      BY <1>1
    <3>3. result'[a] # "none" /\ (tx'[a] = "open" <=> result'[a] = "running")
      BY <1>4
    <3> QED BY <2>2, <1>1, <1>4, <3>1, <3>2, <3>3
  <2> QED BY <2>1, <2>2
<1>9. HoldsInserted'
  <2> SUFFICES ASSUME NEW c \in Appends, tx'[c] = "open",
                      NEW j \in DOMAIN batch'[c], NEW i \in 1..batch'[c][j].n, Inserted(c, j, i)'
               PROVE  KeyOf(c, j, i)' \in DOMAIN rows' /\ rows'[KeyOf(c, j, i)'].by = c
    BY DEF HoldsInserted
  <2>1. CASE c # a
    BY <2>1, <1>3 DEF HoldsInserted, Inserted, KeyOf
  <2>2. CASE c = a
    <3>1. j \in Nat \ {0} /\ i >= 1 /\ i \in Int
      BY <2>2, <1>0, <1>4
    <3>2. j < 1 \/ (j = 1 /\ i < 1)
      BY <2>2, <1>1 DEF Inserted
    <3> QED BY <3>1, <3>2
  <2> QED BY <2>1, <2>2
<1>10. HoldsOnly'
  BY <1>2, <1>3 DEF HoldsOnly, Inserted, KeyOf
<1> QED BY <1>6, <1>7, <1>8, <1>9, <1>10

\* An open transaction's batch is one of Batches, and its position is in it.
LEMMA OpenBatch ==
    ASSUME TypeOK, InBatch, NEW a \in Appends, tx[a] = "open"
    PROVE  /\ batch[a] \in Seq([stream : Streams, n : Nat \ {0}])
           /\ \A j \in DOMAIN batch[a] : /\ j \in 1..Len(batch[a])
                                         /\ batch[a][j].stream \in Streams
                                         /\ batch[a][j].n \in Nat \ {0}
           /\ Len(batch[a]) \in Nat /\ DOMAIN batch[a] = 1..Len(batch[a])
<1> DEFINE W == [stream : Streams, n : Nat \ {0}]
<1>1. batch[a] \in Seq(W)
  <2>1. Batches \subseteq Seq(W)
    BY ConstantsAssumption
  <2>2. batch[a] \in Batches \/ batch[a] = << >>
    BY DEF TypeOK
  <2> HIDE DEF W
  <2>3. << >> \in Seq(W)
    OBVIOUS
  <2> QED BY <2>1, <2>2, <2>3
<1>2. /\ Len(batch[a]) \in Nat /\ DOMAIN batch[a] = 1..Len(batch[a])
      /\ \A j \in DOMAIN batch[a] : batch[a][j] \in W
  <2> HIDE DEF W
  <2> QED BY <1>1
<1> QED BY <1>1, <1>2

\* An INSERT adds an uncommitted row, which no Load can see, and moves on by one.
LEMMA InsertPreserves == ASSUME Inv, NEW a \in Appends, Insert(a) PROVE Inv'
<1>0. PICK j0, i0 : j0 = next[a][1] /\ i0 = next[a][2]
  OBVIOUS
<1> USE <1>0 DEF Inv
<1>1. /\ tx[a] = "open" /\ Key(a) \notin DOMAIN rows
      /\ UNCHANGED <<tx, seen, batch, result>> /\ globalSeq' = globalSeq + 1
      /\ next' = [next EXCEPT ![a] = After(a)]
      /\ rows' = [k \in DOMAIN rows \union {Key(a)} |->
                    IF k = Key(a) THEN [by |-> a, global |-> globalSeq + 1] ELSE rows[k]]
  BY DEF Insert, Inserting
<1>2. /\ j0 \in DOMAIN batch[a] /\ j0 \in 1..Len(batch[a]) /\ i0 \in 1..batch[a][j0].n
      /\ batch[a][j0].stream \in Streams /\ batch[a][j0].n \in Nat /\ Len(batch[a]) \in Nat
  <2>1. j0 <= Len(batch[a]) /\ j0 \in 1..(Len(batch[a]) + 1) /\ Len(batch[a]) \in Nat
    BY <1>1, OpenBatch DEF Insert, Inserting, InBatch
  <2>2. j0 \in DOMAIN batch[a]
    BY <2>1, <1>1, OpenBatch
  <2> QED BY <2>1, <2>2, <1>1, OpenBatch DEF InBatch
<1>3. Key(a) = KeyOf(a, j0, i0) /\ Key(a) \in Keys
  BY <1>2 DEF Key, KeyOf, Keys, TypeOK
<1>4. /\ DOMAIN rows' = DOMAIN rows \union {Key(a)}
      /\ rows'[Key(a)] = [by |-> a, global |-> globalSeq + 1]
      /\ \A k \in DOMAIN rows : rows'[k] = rows[k]
  BY <1>1
<1>5. After(a) \in Nat \X Nat
  BY <1>2 DEF After, TypeOK
<1>6. next' \in [Appends -> Nat \X Nat] /\ next'[a] = After(a) /\ \A c \in Appends : c # a => next'[c] = next[c]
  BY <1>1, <1>5 DEF TypeOK
<1>7. TypeOK'
  BY <1>1, <1>3, <1>4, <1>6 DEF TypeOK, Rows
<1>8. Visible' = Visible
  BY <1>1, <1>4 DEF Visible
<1>9. Contiguous' /\ SeenIsPast'
  BY <1>1, <1>8, SameVisible DEF Contiguous, SeenIsPast
<1>10. /\ next'[a][1] \in 1..(Len(batch[a]) + 1)
       /\ next'[a][1] <= Len(batch[a]) => next'[a][2] \in 1..batch[a][next'[a][1]].n
       /\ next'[a][1] = Len(batch[a]) + 1 => next'[a][2] = 1
  <2>1. CASE i0 < batch[a][j0].n
    <3>1. next'[a][1] = j0 /\ next'[a][2] = i0 + 1
      BY <2>1, <1>6 DEF After
    <3> QED BY <3>1, <2>1, <1>2
  <2>2. CASE ~(i0 < batch[a][j0].n)
    <3>1. next'[a][1] = j0 + 1 /\ next'[a][2] = 1
      BY <2>2, <1>6 DEF After
    <3>2. j0 + 1 <= Len(batch[a]) => 1 \in 1..batch[a][j0 + 1].n
      <4>1. DOMAIN batch[a] = 1..Len(batch[a]) /\ \A j \in DOMAIN batch[a] : batch[a][j].n \in Nat \ {0}
        BY <1>1, OpenBatch
      <4>2. j0 + 1 <= Len(batch[a]) => j0 + 1 \in 1..Len(batch[a])
        BY <1>2
      <4>3. j0 + 1 <= Len(batch[a]) => batch[a][j0 + 1].n \in Nat \ {0}
        BY <4>1, <4>2
      <4> QED BY <4>3
    <3> QED BY <3>1, <3>2, <1>2
  <2> QED BY <2>1, <2>2
<1>11. InBatch'
  BY <1>1, <1>6, <1>10 DEF InBatch, Valid
<1>12. ASSUME NEW j \in DOMAIN batch[a], NEW i \in 1..batch[a][j].n
       PROVE  Inserted(a, j, i)' <=> Inserted(a, j, i) \/ (j = j0 /\ i = i0)
  <2>1. j \in Nat /\ batch[a][j].n \in Nat /\ i \in Nat /\ i >= 1 /\ i <= batch[a][j].n
    BY <1>1, OpenBatch
  <2>2. CASE i0 < batch[a][j0].n
    <3>1. next'[a][1] = j0 /\ next'[a][2] = i0 + 1
      BY <2>2, <1>6 DEF After
    <3> QED BY <3>1, <2>1, <1>2 DEF Inserted
  <2>3. CASE ~(i0 < batch[a][j0].n)
    <3>1. next'[a][1] = j0 + 1 /\ next'[a][2] = 1 /\ i0 = batch[a][j0].n
      BY <2>3, <1>2, <1>6 DEF After
    <3> QED BY <3>1, <2>1, <1>2 DEF Inserted
  <2> QED BY <2>2, <2>3
<1>13. HoldsInserted'
  <2> SUFFICES ASSUME NEW c \in Appends, tx'[c] = "open", NEW j \in DOMAIN batch'[c],
                      NEW i \in 1..batch'[c][j].n, Inserted(c, j, i)'
               PROVE  KeyOf(c, j, i)' \in DOMAIN rows' /\ rows'[KeyOf(c, j, i)'].by = c
    BY DEF HoldsInserted
  <2>0. /\ tx[c] = "open" /\ j \in DOMAIN batch[c] /\ i \in 1..batch[c][j].n
        /\ KeyOf(c, j, i)' = KeyOf(c, j, i)
    BY <1>1 DEF KeyOf
  <2> USE <2>0
  <2>1. CASE c # a
    <3>1. Inserted(c, j, i)
      BY <2>1, <1>6 DEF Inserted
    <3> QED BY <3>1, <1>4 DEF HoldsInserted
  <2>2. CASE c = a /\ Inserted(a, j, i)
    BY <2>2, <1>4 DEF HoldsInserted
  <2>3. CASE c = a /\ j = j0 /\ i = i0
    BY <2>3, <1>3, <1>4
  <2> QED BY <2>1, <2>2, <2>3, <1>12
<1>14. HoldsOnly'
  <2> SUFFICES ASSUME NEW k \in DOMAIN rows', NEW c, c = rows'[k].by, tx'[c] = "open"
               PROVE  \E j \in DOMAIN batch'[c] : \E i \in 1..batch'[c][j].n :
                        Inserted(c, j, i)' /\ k = KeyOf(c, j, i)'
    BY DEF HoldsOnly
  <2>0. tx[c] = "open" /\ batch'[c] = batch[c] /\ \A j, i : KeyOf(c, j, i)' = KeyOf(c, j, i)
    BY <1>1 DEF KeyOf
  <2> USE <2>0
  <2>1. CASE k = Key(a)
    <3>1. c = a
      BY <2>1, <1>4
    <3>2. Inserted(a, j0, i0)' /\ k = KeyOf(a, j0, i0)
      BY <2>1, <1>2, <1>3, <1>12
    <3> QED BY <3>1, <3>2, <1>2
  <2>2. CASE k # Key(a)
    <3>1. k \in DOMAIN rows /\ c = rows[k].by /\ c \in Appends
      BY <2>2, <1>4 DEF TypeOK, Rows
    <3>a. PICK j \in DOMAIN batch[c] :
            \E i \in 1..batch[c][j].n : Inserted(c, j, i) /\ k = KeyOf(c, j, i)
      BY <3>1 DEF HoldsOnly
    <3>2. PICK i \in 1..batch[c][j].n : Inserted(c, j, i) /\ k = KeyOf(c, j, i)
      BY <3>a
    <3>3. Inserted(c, j, i)'
      <4>1. CASE c # a
        BY <4>1, <3>1, <3>2, <1>6 DEF Inserted
      <4>2. CASE c = a
        BY <4>2, <3>2, <1>12
      <4> QED BY <4>1, <4>2
    <3> QED BY <3>2, <3>3
  <2> QED BY <2>1, <2>2
<1> QED BY <1>7, <1>9, <1>11, <1>13, <1>14

\* A rollback takes away only rows that were never visible.
LEMMA RollbackPreserves ==
    ASSUME Inv, NEW a \in Appends, tx[a] = "open", NEW outcome \in {"conflict", "error"},
           Rollback(a, outcome), globalSeq' \in Nat
    PROVE  Inv' /\ Visible' = Visible /\ \A k \in Visible : rows'[k] = rows[k]
<1> USE DEF Inv
<1>1. /\ rows' = [k \in {k \in DOMAIN rows : rows[k].by # a} |-> rows[k]]
      /\ tx' = [tx EXCEPT ![a] = "aborted"] /\ result' = [result EXCEPT ![a] = outcome]
      /\ UNCHANGED <<next, seen, batch>>
  BY DEF Rollback
<1>2. /\ DOMAIN rows' = {k \in DOMAIN rows : rows[k].by # a}
      /\ \A k \in DOMAIN rows' : rows'[k] = rows[k]
  BY <1>1
<1>3. /\ tx'[a] = "aborted" /\ result'[a] = outcome
      /\ \A c \in Appends : c # a => tx'[c] = tx[c] /\ result'[c] = result[c]
  BY <1>1 DEF TypeOK
<1>4. TypeOK'
  BY <1>1, <1>2, <1>3 DEF TypeOK, Rows
<1>5. Visible' = Visible
  BY <1>2, <1>3 DEF Visible, TypeOK, Rows
<1>6. \A k \in Visible : rows'[k] = rows[k]
  BY <1>2, <1>5 DEF Visible
<1>7. Contiguous' /\ SeenIsPast'
  BY <1>1, <1>5, SameVisible DEF Contiguous, SeenIsPast
<1>8. InBatch'
  BY <1>1, <1>3 DEF InBatch, Valid
<1>9. HoldsInserted'
  BY <1>1, <1>2, <1>3 DEF HoldsInserted, Inserted, KeyOf
<1>10. HoldsOnly'
  <2> SUFFICES ASSUME NEW k \in DOMAIN rows', NEW c, c = rows'[k].by, tx'[c] = "open"
               PROVE  \E j \in DOMAIN batch'[c] : \E i \in 1..batch'[c][j].n :
                        Inserted(c, j, i)' /\ k = KeyOf(c, j, i)'
    BY DEF HoldsOnly
  <2>1. k \in DOMAIN rows /\ c = rows[k].by /\ c \in Appends /\ tx[c] = "open"
    BY <1>2, <1>3 DEF TypeOK, Rows
  <2>2. \A j, i : (Inserted(c, j, i)' <=> Inserted(c, j, i)) /\ KeyOf(c, j, i)' = KeyOf(c, j, i)
    BY <1>1 DEF Inserted, KeyOf
  <2> QED BY <1>1, <2>1, <2>2 DEF HoldsOnly
<1> QED BY <1>4, <1>5, <1>6, <1>7, <1>8, <1>9, <1>10

\* Every way an open transaction can end without a commit is a rollback.
LEMMA AbortIsRollback ==
    ASSUME Inv, NEW a \in Appends, UniqueViolation(a) \/ DeadlockDetected(a) \/ Fail(a)
    PROVE  /\ tx[a] = "open" /\ globalSeq' \in Nat
           /\ \E outcome \in {"conflict", "error"} : Rollback(a, outcome)
<1>1. globalSeq \in Nat
  BY DEF Inv, TypeOK
<1>2. CASE UniqueViolation(a)
  BY <1>1, <1>2 DEF UniqueViolation, Inserting
<1>3. CASE DeadlockDetected(a)
  BY <1>1, <1>3 DEF DeadlockDetected, WaitsFor, Inserting
<1>4. CASE Fail(a)
  BY <1>1, <1>4 DEF Fail
<1> QED BY <1>2, <1>3, <1>4

\* A sequence is visible if its row is.
LEMMA InSequences ==
    ASSUME DOMAIN rows \subseteq Keys, NEW s, NEW q
    PROVE  q \in SequencesOf(s) <=> <<s, q>> \in Visible
<1>1. \A k \in Visible : k \in Streams \X (Nat \ {0})
  BY DEF Visible, Keys
<1>2. ASSUME NEW k \in Visible, k[1] = s, k[2] = q PROVE k = <<s, q>>
  BY <1>1, <1>2
<1> QED BY <1>2 DEF SequencesOf

\* The same after a step.
LEMMA InSequencesAfter ==
    ASSUME DOMAIN rows' \subseteq Keys, NEW s, NEW q
    PROVE  q \in SequencesOf(s)' <=> <<s, q>> \in Visible'
<1>1. \A k \in Visible' : k \in Streams \X (Nat \ {0})
  BY DEF Visible, Keys
<1>2. ASSUME NEW k \in Visible', k[1] = s, k[2] = q PROVE k = <<s, q>>
  BY <1>1, <1>2
<1> QED BY <1>2 DEF SequencesOf

\* A commit makes the transaction's rows visible and no others.
LEMMA CommitShows ==
    ASSUME Inv, NEW a \in Appends, Commit(a)
    PROVE  /\ Visible' = Visible \union {k \in DOMAIN rows : rows[k].by = a}
           /\ \A k \in Visible : rows[k].by # a
           /\ tx[a] = "open" /\ UNCHANGED <<rows, next, seen, batch>>
           /\ TypeOK'
<1>1. /\ tx[a] = "open" /\ UNCHANGED <<rows, globalSeq, next, seen, batch>>
      /\ tx' = [tx EXCEPT ![a] = "committed"]
      /\ result' \in [Appends -> {"none", "running", "ok", "conflict", "error", "invalid"}]
  BY DEF Commit, Inv, TypeOK
<1>2. tx'[a] = "committed" /\ \A c \in Appends : c # a => tx'[c] = tx[c]
  BY <1>1 DEF Inv, TypeOK
<1>3. \A k \in DOMAIN rows : rows[k].by \in Appends
  BY DEF Inv, TypeOK, Rows
<1>4. TypeOK'
  BY <1>1, <1>2, <1>3 DEF Inv, TypeOK
<1> QED BY <1>1, <1>2, <1>3, <1>4 DEF Visible

\* A committing transaction holds every row of its batch and no others.
LEMMA CommitHolds ==
    ASSUME Inv, NEW a \in Appends, Commit(a), NEW s, NEW q
    PROVE  <<s, q>> \in DOMAIN rows /\ rows[<<s, q>>].by = a
             <=> \E j \in DOMAIN batch[a] : \E i \in 1..batch[a][j].n : <<s, q>> = KeyOf(a, j, i)
<1>1. tx[a] = "open" /\ next[a] = <<Len(batch[a]) + 1, 1>>
  BY DEF Commit
<1>2. \A j \in DOMAIN batch[a] : \A i : Inserted(a, j, i)
  <2> TAKE j \in DOMAIN batch[a]
  <2> TAKE i
  <2>1. j \in 1..Len(batch[a]) /\ Len(batch[a]) \in Nat
    BY <1>1, OpenBatch DEF Inv
  <2>2. next[a][1] = Len(batch[a]) + 1
    BY <1>1
  <2> QED BY <2>1, <2>2 DEF Inserted
<1>3. ASSUME NEW j \in DOMAIN batch[a], NEW i \in 1..batch[a][j].n
      PROVE  KeyOf(a, j, i) \in DOMAIN rows /\ rows[KeyOf(a, j, i)].by = a
  BY <1>1, <1>2 DEF Inv, HoldsInserted
<1>4. ASSUME <<s, q>> \in DOMAIN rows, rows[<<s, q>>].by = a
      PROVE  \E j \in DOMAIN batch[a] : \E i \in 1..batch[a][j].n : <<s, q>> = KeyOf(a, j, i)
  BY <1>1, <1>4 DEF Inv, HoldsOnly
<1> QED BY <1>3, <1>4

\* The unique constraint at work: a committing transaction read the stream at its
\* present length, and its rows are the next ones.
LEMMA CommitExtends ==
    ASSUME Inv, NEW a \in Appends, Commit(a), NEW j \in DOMAIN batch[a],
           NEW s, s = batch[a][j].stream, NEW n \in Nat, SequencesOf(s) = 1..n
    PROVE  /\ seen[a][s] = n
           /\ SequencesOf(s)' = 1..(n + batch[a][j].n)
           /\ \A q \in (n + 1)..(n + batch[a][j].n) : rows[<<s, q>>].by = a
<1>1. /\ tx[a] = "open" /\ DOMAIN rows \subseteq Keys /\ DOMAIN rows' \subseteq Keys
      /\ Visible' = Visible \union {k \in DOMAIN rows : rows[k].by = a}
      /\ \A k \in Visible : rows[k].by # a
  BY CommitShows DEF Inv, TypeOK
<1>2. /\ s \in Streams /\ batch[a][j].n \in Nat \ {0} /\ j \in 1..Len(batch[a])
      /\ seen[a][s] \in Nat /\ seen[a][s] <= n
  <2>1. s \in Streams /\ batch[a][j].n \in Nat \ {0} /\ j \in 1..Len(batch[a])
    BY <1>1, OpenBatch DEF Inv
  <2>2. Length(s) = n
    BY NthOfInterval DEF Length
  <2> QED BY <2>1, <2>2 DEF Inv, TypeOK, SeenIsPast
<1>3. \A i \in 1..batch[a][j].n : <<s, seen[a][s] + i>> \in DOMAIN rows /\ rows[<<s, seen[a][s] + i>>].by = a
  BY CommitHolds DEF KeyOf
<1>4. seen[a][s] = n
  <2>1. <<s, seen[a][s] + 1>> \notin Visible
    BY <1>1, <1>2, <1>3
  <2>2. seen[a][s] + 1 \notin 1..n
    BY <1>1, <2>1, InSequences
  <2> QED BY <1>2, <2>2
<1>5. ASSUME NEW q, <<s, q>> \in DOMAIN rows, rows[<<s, q>>].by = a
      PROVE  q \in (n + 1)..(n + batch[a][j].n)
  <2>1. PICK m \in DOMAIN batch[a] : \E i \in 1..batch[a][m].n : <<s, q>> = KeyOf(a, m, i)
    BY <1>5, CommitHolds
  <2>2. PICK i \in 1..batch[a][m].n : <<s, q>> = KeyOf(a, m, i)
    BY <2>1
  <2>3. batch[a][m].stream = s /\ q = seen[a][s] + i
    BY <2>2 DEF KeyOf
  <2>4. m = j
    BY <1>1, <2>3 DEF Inv, InBatch, Valid
  <2> QED BY <1>2, <1>4, <2>3, <2>4
<1>6. ASSUME NEW q \in (n + 1)..(n + batch[a][j].n)
      PROVE  <<s, q>> \in DOMAIN rows /\ rows[<<s, q>>].by = a
  <2>1. q - n \in 1..batch[a][j].n /\ n + (q - n) = q
    BY <1>2
  <2> QED BY <1>3, <1>4, <2>1
<1>7. ASSUME NEW q PROVE q \in SequencesOf(s)' <=> q \in 1..n \/ q \in (n + 1)..(n + batch[a][j].n)
  <2>1. q \in SequencesOf(s)' <=> <<s, q>> \in Visible \/ (<<s, q>> \in DOMAIN rows /\ rows[<<s, q>>].by = a)
    BY <1>1, InSequencesAfter
  <2>2. <<s, q>> \in Visible <=> q \in 1..n
    BY <1>1, InSequences
  <2> QED BY <2>1, <2>2, <1>5, <1>6
<1>8. \A q : q \in 1..n \/ q \in (n + 1)..(n + batch[a][j].n) <=> q \in 1..(n + batch[a][j].n)
  BY <1>2
<1>9. SequencesOf(s)' = 1..(n + batch[a][j].n)
  BY <1>7, <1>8
<1> QED BY <1>4, <1>6, <1>9

\* Other streams stay as they are.
LEMMA CommitSpares ==
    ASSUME Inv, NEW a \in Appends, Commit(a), NEW s, \A j \in DOMAIN batch[a] : batch[a][j].stream # s
    PROVE  SequencesOf(s)' = SequencesOf(s)
<1>1. /\ DOMAIN rows \subseteq Keys /\ DOMAIN rows' \subseteq Keys
      /\ Visible' = Visible \union {k \in DOMAIN rows : rows[k].by = a}
  BY CommitShows DEF Inv, TypeOK
<1>2. \A q : ~(<<s, q>> \in DOMAIN rows /\ rows[<<s, q>>].by = a)
  BY CommitHolds DEF KeyOf
<1>3. \A q : q \in SequencesOf(s)' <=> q \in SequencesOf(s)
  BY <1>1, <1>2, InSequences, InSequencesAfter
<1> QED BY <1>3

\* A COMMIT shows rows that continue the streams without a gap.
LEMMA CommitPreserves == ASSUME Inv, NEW a \in Appends, Commit(a) PROVE Inv'
<1>1. /\ tx[a] = "open" /\ UNCHANGED <<rows, next, seen, batch>> /\ TypeOK'
  BY CommitShows
<1>2. ASSUME NEW s \in Streams
      PROVE  \E n \in Nat : \E m \in Nat : SequencesOf(s) = 1..n /\ SequencesOf(s)' = 1..(n + m)
  <2>1. PICK n \in Nat : SequencesOf(s) = 1..n
    BY DEF Inv, Contiguous
  <2>2. CASE \A j \in DOMAIN batch[a] : batch[a][j].stream # s
    <3>1. SequencesOf(s)' = 1..(n + 0)
      BY <2>1, <2>2, CommitSpares
    <3> QED BY <2>1, <3>1, 0 \in Nat
  <2>3. CASE \E j \in DOMAIN batch[a] : batch[a][j].stream = s
    <3>1. PICK j \in DOMAIN batch[a] : batch[a][j].stream = s
      BY <2>3
    <3>2. batch[a][j].n \in Nat
      BY <1>1, OpenBatch DEF Inv
    <3>3. SequencesOf(s)' = 1..(n + batch[a][j].n)
      BY <2>1, <3>1, CommitExtends
    <3> QED BY <2>1, <3>2, <3>3
  <2> QED BY <2>2, <2>3
<1>3. Contiguous'
  <2> SUFFICES ASSUME NEW s \in Streams PROVE \E n \in Nat : SequencesOf(s)' = 1..n
    BY DEF Contiguous
  <2>1. PICK n \in Nat, m \in Nat : SequencesOf(s)' = 1..(n + m)
    BY <1>2
  <2>2. n + m \in Nat
    OBVIOUS
  <2> QED BY <2>1, <2>2
<1>4. SeenIsPast'
  <2> SUFFICES ASSUME NEW c \in Appends, NEW s \in Streams PROVE seen'[c][s] <= Length(s)'
    BY DEF SeenIsPast
  <2>1. PICK n \in Nat, m \in Nat : SequencesOf(s) = 1..n /\ SequencesOf(s)' = 1..(n + m)
    BY <1>2
  <2>2. n + m \in Nat
    OBVIOUS
  <2>3. Length(s) = n /\ Length(s)' = n + m
    BY <2>1, <2>2, NthOfInterval DEF Length
  <2>4. seen[c][s] <= n /\ seen[c][s] \in Nat
    BY <2>3 DEF Inv, SeenIsPast, TypeOK
  <2> QED BY <1>1, <2>3, <2>4
<1>5. tx'[a] = "committed" /\ \A c \in Appends : c # a => tx'[c] = tx[c] /\ result'[c] = result[c]
  BY DEF Commit, Inv, TypeOK
<1>6. result'[a] \in {"ok", "error"}
  BY DEF Commit, Inv, TypeOK
<1>7. InBatch'
  BY <1>1, <1>5, <1>6 DEF Inv, InBatch, Valid
<1>8. HoldsInserted'
  BY <1>1, <1>5 DEF Inv, HoldsInserted, Inserted, KeyOf
<1>9. HoldsOnly'
  <2> SUFFICES ASSUME NEW k \in DOMAIN rows', NEW c, c = rows'[k].by, tx'[c] = "open"
               PROVE  \E j \in DOMAIN batch'[c] : \E i \in 1..batch'[c][j].n :
                        Inserted(c, j, i)' /\ k = KeyOf(c, j, i)'
    BY DEF HoldsOnly
  <2>1. k \in DOMAIN rows /\ c = rows[k].by /\ c \in Appends /\ tx[c] = "open"
    BY <1>1, <1>5 DEF Inv, TypeOK, Rows
  <2>2. \A j, i : (Inserted(c, j, i)' <=> Inserted(c, j, i)) /\ KeyOf(c, j, i)' = KeyOf(c, j, i)
    BY <1>1 DEF Inserted, KeyOf
  <2> QED BY <1>1, <2>1, <2>2 DEF Inv, HoldsOnly
<1> QED BY <1>1, <1>3, <1>4, <1>7, <1>8, <1>9 DEF Inv

\* Every step of every AppendAtomic call preserves the invariant.
LEMMA NextPreserves == ASSUME Inv, [Next]_vars PROVE Inv'
<1>1. ASSUME UNCHANGED vars PROVE Inv'
  <2>1. Visible' = Visible
    BY <1>1 DEF vars, Visible
  <2>2. TypeOK' /\ InBatch'
    BY <1>1 DEF vars, Inv, TypeOK, InBatch, Valid
  <2>3. Contiguous' /\ SeenIsPast'
    BY <1>1, <2>1, SameVisible DEF vars, Inv, Contiguous, SeenIsPast
  <2>4. HoldsInserted' /\ HoldsOnly'
    BY <1>1 DEF vars, Inv, HoldsInserted, HoldsOnly, Inserted, KeyOf
  <2> QED BY <2>2, <2>3, <2>4 DEF Inv
<1>2. ASSUME NEW a \in Appends, NEW s \in Streams, Load(a, s) PROVE Inv'
  BY <1>2, LoadPreserves
<1>3. ASSUME NEW a \in Appends, NEW b \in Batches, AppendAtomic(a, b) PROVE Inv'
  BY <1>3, AppendAtomicPreserves
<1>4. ASSUME NEW a \in Appends, Insert(a) PROVE Inv'
  BY <1>4, InsertPreserves
<1>5. ASSUME NEW a \in Appends, UniqueViolation(a) \/ DeadlockDetected(a) \/ Fail(a) PROVE Inv'
  BY <1>5, AbortIsRollback, RollbackPreserves
<1>6. ASSUME NEW a \in Appends, Commit(a) PROVE Inv'
  BY <1>6, CommitPreserves
<1> QED BY <1>1, <1>2, <1>3, <1>4, <1>5, <1>6 DEF Next, TxStep

\* The inductive invariant holds throughout.
LEMMA Invariant == Spec => []Inv
<1>1. Init => Inv
  BY InvInit
<1>2. Inv /\ [Next]_vars => Inv'
  BY NextPreserves
<1> QED BY <1>1, <1>2, PTL DEF Spec

\* The table and the transactions stay within their types, for any number of
\* concurrent AppendAtomic calls.
THEOREM TypeCorrect == Spec => []TypeOK
<1>1. Inv => TypeOK
  BY DEF Inv
<1> QED BY <1>1, Invariant, PTL

\* PostgresStore never leaves a gap in a stream, so the len(events) that callers
\* pass as ExpectedSeq is the stream's last sequence.
THEOREM AlwaysGapless == Spec => []Gapless
<1>1. Inv => Gapless
  BY ContiguousIsGapless DEF Inv
<1> QED BY <1>1, Invariant, PTL

-----------------------------------------------------------------------------
(* The refinement.                                                           *)

\* LoadedIs after a step.
LEMMA LoadedIsAfter ==
    ASSUME NEW s, NEW n \in Nat, SequencesOf(s)' = 1..n
    PROVE  Loaded(s)' = [i \in 1..n |-> rows'[<<s, i>>].by]
<1>1. Length(s)' = n
  BY NthOfInterval DEF Length
<1>2. \A i \in 1..n : Nth(1..n, i) = i
  BY NthOfInterval
<1>3. Loaded(s)' = [i \in 1..n |-> rows'[<<s, Nth(1..n, i)>>].by]
  BY <1>1 DEF Loaded, Nth
<1> QED BY <1>2, <1>3

\* A step that leaves the visible rows alone is invisible to Load.
LEMMA SameLoaded ==
    ASSUME Inv, Visible' = Visible, \A k \in Visible : rows'[k] = rows[k], NEW s \in Streams
    PROVE  Loaded(s)' = Loaded(s)
<1>1. PICK n \in Nat : SequencesOf(s) = 1..n
  BY DEF Inv, Contiguous
<1>2. SequencesOf(s)' = 1..n
  BY <1>1, SameVisible
<1>3. \A i \in 1..n : rows'[<<s, i>>] = rows[<<s, i>>]
  BY <1>1, InSequences DEF Inv, TypeOK
<1>4. Loaded(s) = [i \in 1..n |-> rows[<<s, i>>].by]
  BY <1>1, LoadedIs
<1>5. Loaded(s)' = [i \in 1..n |-> rows'[<<s, i>>].by]
  BY <1>2, LoadedIsAfter
<1> QED BY <1>3, <1>4, <1>5

\* A function on 1..n is a sequence.
LEMMA FunctionIsSeq ==
    ASSUME NEW n \in Nat, NEW S, NEW f \in [1..n -> S]
    PROVE  f \in Seq(S) /\ Len(f) = n /\ f \o << >> = f
<1>1. f \in Seq(S) /\ Len(f) = n
  OBVIOUS
<1> QED BY <1>1

\* m copies of a.
Copies(m, a) == [k \in 1..m |-> a]

\* The sequence g is f followed by m copies of a, element by element ...
Extended(g, f, n, m, a) ==
    /\ n \in Nat /\ m \in Nat /\ a \in Appends
    /\ f \in [1..n -> Appends] /\ g \in [1..(n + m) -> Appends]
    /\ \A i \in 1..n : g[i] = f[i]
    /\ \A i \in (n + 1)..(n + m) : g[i] = a

\* ... and as a concatenation.
LEMMA AppendCopies ==
    ASSUME NEW g, NEW f, NEW n, NEW m, NEW a, Extended(g, f, n, m, a)
    PROVE  g = f \o Copies(m, a)
<1> USE DEF Extended, Copies
<1> DEFINE h == [k \in 1..m |-> a]
<1>1. f \in Seq(Appends) /\ Len(f) = n /\ h \in Seq(Appends) /\ Len(h) = m
  OBVIOUS
<1>2. f \o h \in Seq(Appends) /\ Len(f \o h) = n + m
  BY <1>1
<1>3. ASSUME NEW i \in 1..(n + m) PROVE (f \o h)[i] = g[i]
  <2>1. CASE i <= n
    <3>1. (f \o h)[i] = f[i]
      BY <1>1, <2>1
    <3>2. i \in 1..n
      BY <2>1
    <3> QED BY <3>1, <3>2
  <2>2. CASE i > n
    <3>1. (f \o h)[i] = h[i - n] /\ i - n \in 1..m
      BY <1>1, <2>2
    <3>2. i \in (n + 1)..(n + m)
      BY <2>2
    <3> QED BY <3>1, <3>2
  <2> QED BY <2>1, <2>2
<1>4. f \o h = [i \in 1..(n + m) |-> (f \o h)[i]]
  BY <1>2
<1> QED BY <1>3, <1>4

\* A commit is EventStore's Write: every stream of the batch is still the one the
\* caller read, and grows by exactly the batch's events.
LEMMA CommitWrites == ASSUME Inv, NEW a \in Appends, Commit(a) PROVE Store!Write(a)
<1>1. tx[a] = "open" /\ UNCHANGED <<rows, next, seen, batch>> /\ TypeOK /\ Contiguous /\ InBatch
  BY CommitShows DEF Inv
<1>2. ASSUME NEW s \in Streams, NEW n \in Nat, SequencesOf(s) = 1..n
      PROVE  /\ Loaded(s) = [i \in 1..n |-> rows[<<s, i>>].by]
             /\ Loaded(s) \in [1..n -> Appends]
  <2>1. \A i \in 1..n : <<s, i>> \in DOMAIN rows
    BY <1>1, <1>2, InSequences DEF TypeOK, Visible
  <2>2. \A i \in 1..n : rows[<<s, i>>].by \in Appends
    BY <1>1, <2>1 DEF TypeOK, Rows
  <2>3. Loaded(s) = [i \in 1..n |-> rows[<<s, i>>].by]
    BY <1>2, LoadedIs
  <2> QED BY <2>2, <2>3
<1>3. Store!Current(a)
  <2> SUFFICES ASSUME NEW j \in DOMAIN batch[a], NEW s, s = batch[a][j].stream
               PROVE  Len([t \in Streams |-> Loaded(t)][s]) = seen[a][s]
    BY DEF Store!Current
  <2>1. s \in Streams
    BY <1>1, OpenBatch
  <2>2. PICK n \in Nat : SequencesOf(s) = 1..n
    BY <1>1, <2>1 DEF Contiguous
  <2>3. seen[a][s] = n
    BY <2>2, CommitExtends
  <2>4. Loaded(s) \in [1..n -> Appends]
    BY <1>2, <2>1, <2>2
  <2>5. Len(Loaded(s)) = n
    BY <2>4
  <2> QED BY <2>1, <2>3, <2>5
<1>4. ASSUME NEW s \in Streams PROVE Loaded(s)' = Loaded(s) \o Store!Added(a, s)
  <2>1. PICK n \in Nat : SequencesOf(s) = 1..n
    BY <1>1 DEF Contiguous
  <2>2. Loaded(s) = [i \in 1..n |-> rows[<<s, i>>].by] /\ Loaded(s) \in [1..n -> Appends]
    BY <1>2, <2>1
  <2>3. CASE \A j \in DOMAIN batch[a] : batch[a][j].stream # s
    <3>1. Loaded(s)' = [i \in 1..n |-> rows'[<<s, i>>].by]
      BY <2>1, <2>3, CommitSpares, LoadedIsAfter
    <3>2. Loaded(s)' = Loaded(s)
      BY <1>1, <2>2, <3>1
    <3>3. Store!Added(a, s) = << >>
      BY <2>3 DEF Store!Added
    <3>4. Loaded(s) \o << >> = Loaded(s)
      BY <2>2, FunctionIsSeq
    <3> QED BY <3>2, <3>3, <3>4
  <2>4. CASE \E j \in DOMAIN batch[a] : batch[a][j].stream = s
    <3>1. PICK j \in DOMAIN batch[a] : batch[a][j].stream = s
      BY <2>4
    <3>2. batch[a][j].n \in Nat /\ n + batch[a][j].n \in Nat
      BY <1>1, OpenBatch
    <3>3. /\ SequencesOf(s)' = 1..(n + batch[a][j].n)
          /\ \A q \in (n + 1)..(n + batch[a][j].n) : rows[<<s, q>>].by = a
      BY <2>1, <3>1, CommitExtends
    <3>4. Loaded(s)' = [i \in 1..(n + batch[a][j].n) |-> rows[<<s, i>>].by]
      BY <1>1, <3>2, <3>3, LoadedIsAfter
    <3>5. Store!Added(a, s) = [k \in 1..batch[a][j].n |-> a]
      <4>1. \A i \in DOMAIN batch[a] : batch[a][i].stream = s => i = j
        BY <1>1, <3>1 DEF InBatch, Valid
      <4>2. (CHOOSE i \in DOMAIN batch[a] : batch[a][i].stream = s) = j
        BY <3>1, <4>1
      <4> QED BY <2>4, <4>2 DEF Store!Added
    <3>6. \A i \in 1..n : Loaded(s)'[i] = Loaded(s)[i]
      BY <2>2, <3>2, <3>4
    <3>7. \A i \in (n + 1)..(n + batch[a][j].n) : Loaded(s)'[i] = a
      BY <3>2, <3>3, <3>4
    <3>8. PICK g, f, m : g = Loaded(s)' /\ f = Loaded(s) /\ m = batch[a][j].n
      OBVIOUS
    <3>9. g \in [1..(n + m) -> Appends]
      <4>1. g = [i \in 1..(n + m) |-> rows[<<s, i>>].by]
        BY <3>4, <3>8
      <4>2. ASSUME NEW i \in 1..(n + m) PROVE rows[<<s, i>>].by \in Appends
        <5>1. CASE i \in 1..n
          BY <5>1, <2>2
        <5>2. CASE i \in (n + 1)..(n + m)
          BY <5>2, <3>3, <3>8
        <5> QED BY <5>1, <5>2, <3>2, <3>8
      <4> QED BY <4>1, <4>2
    <3>10. m \in Nat /\ f \in [1..n -> Appends]
      BY <2>2, <3>2, <3>8
    <3>11. (\A i \in 1..n : g[i] = f[i]) /\ \A i \in (n + 1)..(n + m) : g[i] = a
      BY <3>6, <3>7, <3>8
    <3>12. Extended(g, f, n, m, a)
      BY <3>9, <3>10, <3>11 DEF Extended
    <3>13. g = f \o Copies(m, a)
      BY <3>12, AppendCopies
    <3> QED BY <3>5, <3>8, <3>13 DEF Copies
  <2> QED BY <2>3, <2>4
<1> QED BY <1>3, <1>4 DEF Store!Write

\* A unique violation is EventStore's Conflict: a visible row has the key, so the
\* stream is longer than what the caller read.
LEMMA ViolationIsConflict ==
    ASSUME Inv, NEW a \in Appends, UniqueViolation(a) PROVE ~Store!Current(a)
<1>1. tx[a] = "open" /\ next[a][1] <= Len(batch[a]) /\ Key(a) \in Visible
  BY DEF UniqueViolation, Inserting
<1>2. PICK j, i, s : j = next[a][1] /\ i = next[a][2] /\ s = batch[a][j].stream
  OBVIOUS
<1>3. j \in 1..(Len(batch[a]) + 1) /\ i \in 1..batch[a][j].n
  BY <1>1, <1>2 DEF Inv, InBatch
<1>4. j \in DOMAIN batch[a] /\ s \in Streams /\ batch[a][j].n \in Nat
  BY <1>1, <1>2, <1>3, OpenBatch DEF Inv
<1>5. PICK n \in Nat : SequencesOf(s) = 1..n
  BY <1>4 DEF Inv, Contiguous
<1>6. Key(a) = <<s, seen[a][s] + i>>
  BY <1>2 DEF Key
<1>7. seen[a][s] + i \in 1..n
  BY <1>1, <1>5, <1>6, InSequences DEF Inv, TypeOK
<1>8. seen[a][s] \in Nat
  BY <1>4 DEF Inv, TypeOK
<1>9. seen[a][s] # n
  BY <1>3, <1>4, <1>7, <1>8
<1>10. Loaded(s) = [q \in 1..n |-> rows[<<s, q>>].by]
  BY <1>5, LoadedIs
<1>11. Len(Loaded(s)) = n
  BY <1>10
<1> QED BY <1>2, <1>4, <1>9, <1>11 DEF Store!Current

\* Every step of PostgresStore is a step of EventStore or changes nothing there.
LEMMA StepRefines == ASSUME Inv, [Next]_vars PROVE [Store!Next]_(Store!vars)
<1> DEFINE S == [s \in Streams |-> Loaded(s)]
<1>0. ASSUME Visible' = Visible, \A k \in Visible : rows'[k] = rows[k] PROVE S' = S
  BY <1>0, SameLoaded
<1>1. ASSUME UNCHANGED vars PROVE UNCHANGED Store!vars
  BY <1>0, <1>1 DEF vars, Visible, Store!vars
<1>2. ASSUME NEW a \in Appends, NEW s \in Streams, Load(a, s) PROVE Store!Load(a, s)
  <2>1. S' = S
    BY <1>0, <1>2 DEF Load, Visible
  <2>2. PICK n \in Nat : SequencesOf(s) = 1..n
    BY DEF Inv, Contiguous
  <2>3. Loaded(s) = [q \in 1..n |-> rows[<<s, q>>].by] /\ Length(s) = n
    BY <2>2, LoadedIs
  <2>4. Len(S[s]) = Length(s)
    BY <2>3
  <2> QED BY <1>2, <2>1, <2>4 DEF Load, Store!Load
<1>3. ASSUME NEW a \in Appends, NEW b \in Batches, AppendAtomic(a, b) PROVE Store!AppendAtomic(a, b)
  <2>1. tx[a] = "none" /\ \A k \in DOMAIN rows : rows[k].by # a /\ rows[k].by \in Appends
    BY <1>3 DEF Inv, InBatch, TypeOK, Rows, AppendAtomic
  <2>2. Visible' = Visible
    BY <1>3, <2>1 DEF Inv, TypeOK, AppendAtomic, Visible
  <2>3. S' = S
    BY <1>0, <1>3, <2>2 DEF AppendAtomic
  <2> QED BY <1>3, <2>3 DEF AppendAtomic, Valid, Store!AppendAtomic, Store!Valid
<1>4. ASSUME NEW a \in Appends, Insert(a) PROVE UNCHANGED Store!vars
  <2>1. /\ UNCHANGED <<tx, seen, batch, result>> /\ tx[a] = "open" /\ Key(a) \notin DOMAIN rows
        /\ rows' = [k \in DOMAIN rows \union {Key(a)} |->
                      IF k = Key(a) THEN [by |-> a, global |-> globalSeq + 1] ELSE rows[k]]
    BY <1>4 DEF Insert, Inserting
  <2>2. Visible' = Visible /\ \A k \in Visible : rows'[k] = rows[k]
    BY <2>1 DEF Visible
  <2> QED BY <1>0, <2>1, <2>2 DEF Store!vars
<1>5. ASSUME NEW a \in Appends, UniqueViolation(a) PROVE Store!Conflict(a)
  <2>1. Rollback(a, "conflict") /\ tx[a] = "open" /\ globalSeq' \in Nat
    BY <1>5, AbortIsRollback DEF UniqueViolation
  <2>2. S' = S
    BY <1>0, <2>1, RollbackPreserves
  <2>3. result[a] = "running"
    BY <2>1 DEF Inv, InBatch
  <2> QED BY <1>5, <2>1, <2>2, <2>3, ViolationIsConflict DEF Rollback, Store!Conflict, Store!Answer
<1>6. ASSUME NEW a \in Appends, DeadlockDetected(a) \/ Fail(a) PROVE Store!Fail(a)
  <2>1. Rollback(a, "error") /\ tx[a] = "open" /\ globalSeq' \in Nat
    BY <1>6, AbortIsRollback DEF DeadlockDetected, Fail
  <2>2. S' = S
    BY <1>0, <2>1, RollbackPreserves
  <2>3. result[a] = "running"
    BY <2>1 DEF Inv, InBatch
  <2> QED BY <2>1, <2>2, <2>3 DEF Rollback, Store!Fail, Store!Answer
<1>7. ASSUME NEW a \in Appends, Commit(a) PROVE Store!Succeed(a) \/ Store!Fail(a)
  <2>1. result[a] = "running" /\ UNCHANGED <<seen, batch>>
    BY <1>7 DEF Commit, Inv, InBatch
  <2>2. Store!Write(a)
    BY <1>7, CommitWrites
  <2> QED BY <1>7, <2>1, <2>2 DEF Commit, Store!Succeed, Store!Fail, Store!Answer
<1> QED BY <1>1, <1>2, <1>3, <1>4, <1>5, <1>6, <1>7 DEF Next, TxStep, Store!Next

\* PostgresStore implements the atomic compare-and-append of EventStore: what
\* racing transactions, rollbacks and lost commits leave of the events table is
\* always what whole batches, appended one after the other to the streams their
\* callers had read, would have left.
THEOREM PostgresImplementsStore == Spec => Refinement
<1>1. Init => Store!Init
  <2> SUFFICES ASSUME Init PROVE Store!Init
    OBVIOUS
  <2>1. \A s \in Streams : SequencesOf(s) = 1..0
    BY DEF Init, SequencesOf, Visible
  <2>2. ASSUME NEW s \in Streams PROVE Loaded(s) = << >>
    <3>1. Loaded(s) = [i \in 1..0 |-> rows[<<s, i>>].by]
      BY <2>1, LoadedIs
    <3> QED BY <3>1
  <2> QED BY <2>2 DEF Init, Store!Init
<1>2. Inv /\ [Next]_vars => [Store!Next]_(Store!vars)
  BY StepRefines
<1> QED BY <1>1, <1>2, Invariant, PTL DEF Spec, Refinement, Store!Spec

-----------------------------------------------------------------------------
(* global_seq.                                                               *)

\* The rows of one transaction are inserted in the order of their sequences, and
\* after everything its caller had read of the stream was.
GlobalInv ==
    /\ \A k \in DOMAIN rows : rows[k].global <= globalSeq
    /\ GlobalFollowsSequence
    /\ \A j, k \in DOMAIN rows :
         j[1] = k[1] /\ j[2] < k[2] /\ rows[j].by = rows[k].by => rows[j].global < rows[k].global
    /\ \A j \in Visible, k \in DOMAIN rows :
         j[1] = k[1] /\ tx[rows[k].by] = "open" /\ j[2] <= seen[rows[k].by][k[1]]
           => rows[j].global < rows[k].global

\* A Load or the start of a transaction touches no row and no transaction that
\* owns one.
LEMMA QuietKeepsGlobal ==
    ASSUME Inv, GlobalInv, UNCHANGED <<rows, globalSeq>>,
           \A k \in DOMAIN rows : tx'[rows[k].by] = tx[rows[k].by] /\ seen'[rows[k].by] = seen[rows[k].by]
    PROVE  GlobalInv'
<1>1. Visible' = Visible
  BY DEF Visible
<1> QED BY <1>1 DEF GlobalInv, GlobalFollowsSequence

\* The row an INSERT adds has the largest global_seq, and follows the rows that
\* its transaction inserted into the stream before.
LEMMA InsertKeepsGlobal == ASSUME Inv, GlobalInv, NEW a \in Appends, Insert(a) PROVE GlobalInv'
<1>0. /\ tx[a] = "open" /\ Key(a) \notin DOMAIN rows /\ UNCHANGED <<tx, seen>>
      /\ globalSeq' = globalSeq + 1 /\ globalSeq \in Nat
      /\ \A k \in DOMAIN rows : rows[k] \in Rows
  BY DEF Insert, Inserting, Inv, TypeOK
<1>1. /\ DOMAIN rows' = DOMAIN rows \union {Key(a)}
      /\ rows'[Key(a)].by = a /\ rows'[Key(a)].global = globalSeq + 1
      /\ \A k \in DOMAIN rows : rows'[k] = rows[k]
  BY <1>0 DEF Insert
<1>2. Visible' = Visible
  BY <1>0, <1>1 DEF Visible
<1>3. \A k \in DOMAIN rows : rows[k].global < globalSeq + 1
  BY <1>0 DEF GlobalInv, Rows
<1>4. ASSUME NEW k \in DOMAIN rows, rows[k].by = a, k[1] = Key(a)[1] PROVE k[2] < Key(a)[2]
  <2>1. PICK j \in DOMAIN batch[a] :
          \E i \in 1..batch[a][j].n : Inserted(a, j, i) /\ k = KeyOf(a, j, i)
    BY <1>0, <1>4 DEF Inv, HoldsOnly
  <2>2. PICK i \in 1..batch[a][j].n : Inserted(a, j, i) /\ k = KeyOf(a, j, i)
    BY <2>1
  <2>3. /\ next[a][1] \in DOMAIN batch[a] /\ batch[a][j].n \in Nat /\ j \in Nat
        /\ batch[a][j].stream \in Streams
    <3>1. next[a][1] \in 1..Len(batch[a])
      BY <1>0, OpenBatch DEF Inv, InBatch, Insert, Inserting
    <3> QED BY <1>0, <3>1, OpenBatch DEF Inv
  <2>4. batch[a][j].stream = batch[a][next[a][1]].stream
    BY <1>4, <2>2 DEF KeyOf, Key
  <2>5. j = next[a][1]
    BY <1>0, <2>3, <2>4 DEF Inv, InBatch, Valid
  <2>6. i \in Nat /\ i < next[a][2] /\ next[a][2] \in Nat
    BY <1>0, <2>2, <2>3, <2>5 DEF Inserted, Inv, TypeOK
  <2>7. seen[a][batch[a][j].stream] \in Nat
    BY <2>3 DEF Inv, TypeOK
  <2>8. /\ k[2] = seen[a][batch[a][j].stream] + i
        /\ Key(a)[2] = seen[a][batch[a][j].stream] + next[a][2]
    BY <2>2, <2>5 DEF KeyOf, Key
  <2> QED BY <2>6, <2>7, <2>8
<1>5. \A k \in DOMAIN rows' : rows'[k].global <= globalSeq'
  BY <1>0, <1>1 DEF GlobalInv, Rows
<1>6. GlobalFollowsSequence'
  BY <1>1, <1>2 DEF GlobalInv, GlobalFollowsSequence, Visible
<1>7. ASSUME NEW j \in DOMAIN rows', NEW k \in DOMAIN rows',
             j[1] = k[1], j[2] < k[2], rows'[j].by = rows'[k].by
      PROVE  rows'[j].global < rows'[k].global
  <2>1. CASE j \in DOMAIN rows /\ k \in DOMAIN rows
    BY <1>1, <1>7, <2>1 DEF GlobalInv
  <2>2. CASE j \in DOMAIN rows /\ k = Key(a)
    BY <1>1, <1>3, <2>2
  <2>3. CASE j = Key(a)
    <3>1. Key(a) \in Keys /\ DOMAIN rows \subseteq Keys
      BY InsertPreserves, <1>1 DEF Inv, TypeOK
    <3>2. k[2] \in Nat /\ Key(a)[2] \in Nat
      BY <1>1, <3>1 DEF Keys
    <3> QED BY <1>1, <1>4, <1>7, <2>3, <3>2
  <2> QED BY <1>1, <2>1, <2>2, <2>3
<1>8. ASSUME NEW j \in Visible', NEW k \in DOMAIN rows',
             j[1] = k[1], tx'[rows'[k].by] = "open", j[2] <= seen'[rows'[k].by][k[1]]
      PROVE  rows'[j].global < rows'[k].global
  <2>1. j \in Visible /\ j \in DOMAIN rows
    BY <1>2 DEF Visible
  <2>2. CASE k \in DOMAIN rows
    BY <1>0, <1>1, <1>8, <2>1, <2>2 DEF GlobalInv
  <2>3. CASE k = Key(a)
    BY <1>1, <1>3, <2>1, <2>3
  <2> QED BY <1>1, <2>2, <2>3
<1> QED BY <1>5, <1>6, <1>7, <1>8 DEF GlobalInv

\* A rollback takes rows away.
LEMMA RollbackKeepsGlobal ==
    ASSUME Inv, GlobalInv, NEW a \in Appends, tx[a] = "open", NEW outcome \in {"conflict", "error"},
           Rollback(a, outcome), globalSeq' \in Nat, globalSeq' >= globalSeq
    PROVE  GlobalInv'
<1>1. Visible' = Visible /\ \A k \in Visible : rows'[k] = rows[k]
  BY RollbackPreserves
<1>2. /\ DOMAIN rows' = {k \in DOMAIN rows : rows[k].by # a}
      /\ \A k \in DOMAIN rows' : rows'[k] = rows[k]
      /\ seen' = seen
  BY DEF Rollback
<1>3. /\ \A c \in Appends : c # a => tx'[c] = tx[c]
      /\ globalSeq \in Nat /\ \A k \in DOMAIN rows : rows[k].by \in Appends /\ rows[k].global \in Nat
  BY DEF Rollback, Inv, TypeOK, Rows
<1>4. \A k \in DOMAIN rows' : rows'[k].global <= globalSeq'
  BY <1>2, <1>3 DEF GlobalInv
<1>5. GlobalFollowsSequence'
  BY <1>1 DEF GlobalInv, GlobalFollowsSequence
<1>6. \A k \in DOMAIN rows' : tx'[rows'[k].by] = tx[rows[k].by]
  BY <1>2, <1>3
<1> QED BY <1>1, <1>2, <1>4, <1>5, <1>6 DEF GlobalInv

\* What a commit shows of a stream continues what was visible, and was inserted
\* after it.
LEMMA CommitKeepsGlobal == ASSUME Inv, GlobalInv, NEW a \in Appends, Commit(a) PROVE GlobalInv'
<1>1. /\ Visible' = Visible \union {k \in DOMAIN rows : rows[k].by = a}
      /\ tx[a] = "open" /\ UNCHANGED <<rows, seen, globalSeq>>
  BY CommitShows DEF Commit
<1>2. tx'[a] = "committed" /\ \A c \in Appends : c # a => tx'[c] = tx[c]
  BY DEF Commit, Inv, TypeOK
<1>3. /\ DOMAIN rows \subseteq Keys /\ Visible \subseteq DOMAIN rows
      /\ \A k \in DOMAIN rows : rows[k].by \in Appends
  BY DEF Inv, TypeOK, Rows, Visible
<1>4. ASSUME NEW k \in DOMAIN rows, rows[k].by = a
      PROVE  k[2] > seen[a][k[1]] /\ seen[a][k[1]] = Length(k[1])
  <2>1. k = <<k[1], k[2]>> /\ k[1] \in Streams
    BY <1>3 DEF Keys
  <2>2. PICK j \in DOMAIN batch[a] : \E i \in 1..batch[a][j].n : k = KeyOf(a, j, i)
    BY <1>4, <2>1, CommitHolds
  <2>3. PICK i \in 1..batch[a][j].n : k = KeyOf(a, j, i)
    BY <2>2
  <2>4. batch[a][j].stream = k[1] /\ k[2] = seen[a][k[1]] + i
    BY <2>3 DEF KeyOf
  <2>5. PICK n \in Nat : SequencesOf(k[1]) = 1..n
    BY <2>1 DEF Inv, Contiguous
  <2>6. seen[a][k[1]] = n
    BY <2>4, <2>5, CommitExtends
  <2>7. Length(k[1]) = n
    BY <2>5, NthOfInterval DEF Length
  <2>8. batch[a][j].n \in Nat
    BY <1>1, OpenBatch DEF Inv
  <2> QED BY <2>4, <2>6, <2>7, <2>8
<1>5. ASSUME NEW k \in Visible PROVE k[2] <= Length(k[1])
  <2>1. k = <<k[1], k[2]>> /\ k[1] \in Streams
    BY <1>3 DEF Keys
  <2>2. k[2] \in SequencesOf(k[1])
    BY <2>1, <1>3, InSequences
  <2> QED BY <2>1, <2>2, ContiguousIsGapless DEF Inv, Gapless
<1>6. \A k \in DOMAIN rows : k[1] \in Streams /\ k[2] \in Nat
  BY <1>3 DEF Keys
<1>7. \A s \in Streams : Length(s) \in Nat /\ \A c \in Appends : seen[c][s] \in Nat /\ seen[c][s] <= Length(s)
  BY ContiguousIsGapless DEF Inv, TypeOK, SeenIsPast
<1>8. ASSUME NEW j \in Visible', NEW k \in Visible', j[1] = k[1], j[2] < k[2]
      PROVE  rows[j].global < rows[k].global
  <2>1. CASE j \in Visible /\ k \in Visible
    BY <1>8, <2>1 DEF GlobalInv, GlobalFollowsSequence
  <2>2. CASE rows[j].by = a /\ rows[k].by = a
    BY <1>1, <1>3, <1>8, <2>2 DEF GlobalInv
  <2>3. CASE j \in Visible /\ rows[k].by = a
    BY <1>1, <1>3, <1>4, <1>5, <1>8, <2>3 DEF GlobalInv
  <2>4. CASE rows[j].by = a /\ k \in Visible
    BY <1>1, <1>3, <1>4, <1>5, <1>6, <1>7, <1>8, <2>4
  <2> QED BY <1>1, <2>1, <2>2, <2>3, <2>4
<1>9. ASSUME NEW j \in Visible', NEW k \in DOMAIN rows,
             j[1] = k[1], tx'[rows[k].by] = "open", j[2] <= seen[rows[k].by][k[1]]
      PROVE  rows[j].global < rows[k].global
  <2>1. rows[k].by # a /\ tx[rows[k].by] = "open"
    BY <1>2, <1>3, <1>9
  <2>2. CASE j \in Visible
    BY <1>9, <2>1, <2>2 DEF GlobalInv
  <2>3. CASE j \in DOMAIN rows /\ rows[j].by = a
    BY <1>3, <1>4, <1>6, <1>7, <1>9, <2>3
  <2> QED BY <1>1, <2>2, <2>3
<1> QED BY <1>1, <1>8, <1>9 DEF GlobalInv, GlobalFollowsSequence

\* Every step keeps the order.
LEMMA NextKeepsGlobal == ASSUME Inv, GlobalInv, [Next]_vars PROVE GlobalInv'
<1>1. \A k \in DOMAIN rows : rows[k].by \in Appends /\ tx[rows[k].by] \in {"open", "committed"}
  BY DEF Inv, TypeOK, Rows
<1>2. ASSUME UNCHANGED vars PROVE GlobalInv'
  BY <1>2, QuietKeepsGlobal DEF vars
<1>3. ASSUME NEW a \in Appends, NEW s \in Streams, Load(a, s) PROVE GlobalInv'
  <2>1. \A k \in DOMAIN rows : rows[k].by # a
    BY <1>1, <1>3 DEF Load, Inv, InBatch
  <2>2. \A c \in Appends : c # a => seen'[c] = seen[c]
    BY <1>3 DEF Load, Inv, TypeOK
  <2> QED BY <1>1, <1>3, <2>1, <2>2, QuietKeepsGlobal DEF Load
<1>4. ASSUME NEW a \in Appends, NEW b \in Batches, AppendAtomic(a, b) PROVE GlobalInv'
  <2>1. \A k \in DOMAIN rows : rows[k].by # a
    BY <1>1, <1>4 DEF AppendAtomic, Inv, InBatch
  <2>2. \A c \in Appends : c # a => tx'[c] = tx[c]
    BY <1>4 DEF AppendAtomic, Inv, TypeOK
  <2> QED BY <1>1, <1>4, <2>1, <2>2, QuietKeepsGlobal DEF AppendAtomic
<1>5. ASSUME NEW a \in Appends, UniqueViolation(a) \/ DeadlockDetected(a) \/ Fail(a) PROVE GlobalInv'
  <2>1. globalSeq' >= globalSeq
    BY <1>5 DEF Inv, TypeOK, UniqueViolation, DeadlockDetected, Fail
  <2> QED BY <1>5, <2>1, AbortIsRollback, RollbackKeepsGlobal
<1> QED BY <1>2, <1>3, <1>4, <1>5, InsertKeepsGlobal, CommitKeepsGlobal DEF Next, TxStep

\* A consumer of the events table that goes by global_seq, which each INSERT of
\* AppendAtomic draws before its row is visible, meets every stream in order.
THEOREM AlwaysGlobalFollowsSequence == Spec => []GlobalFollowsSequence
<1>1. Init => GlobalInv
  BY DEF Init, GlobalInv, GlobalFollowsSequence, Visible
<1>2. Inv /\ GlobalInv /\ [Next]_vars => GlobalInv'
  BY NextKeepsGlobal
<1>3. GlobalInv => GlobalFollowsSequence
  BY DEF GlobalInv
<1> QED BY <1>1, <1>2, <1>3, Invariant, PTL DEF Spec
=============================================================================
