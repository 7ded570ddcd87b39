---------------------------- MODULE LedgerProofs ----------------------------
(***************************************************************************)
(* What a batch does to a ledger, for every batch and every ledger: the     *)
(* facts about CreateAccounts, CreateTransfers and ExpirePending that the   *)
(* proofs about Money rest on.                                              *)
(***************************************************************************)
EXTENDS Ledger, Induction, TLAPS

Flags == [creditsMustNotExceedDebits : BOOLEAN, debitsMustNotExceedCredits : BOOLEAN]

Account ==
    [flags : Flags, debitsPosted : Int, creditsPosted : Int, debitsPending : Int, creditsPending : Int]

Kinds == {"Regular", "Pending", "PostPending", "VoidPending"}

\* A transfer with the fields the services give it.
IsEntry(t) ==
    /\ t = [id |-> t.id, debit |-> t.debit, credit |-> t.credit, amount |-> t.amount,
            kind |-> t.kind, pendingID |-> t.pendingID]
    /\ t.amount \in Nat
    /\ t.kind \in Kinds

\* Every transfer is between accounts that exist, and every reservation is a
\* pending transfer.
IsLedger(L) ==
    /\ DOMAIN L = {"rule", "accounts", "transfers", "pending"} /\ L = [d \in DOMAIN L |-> L[d]]
    /\ L.rule \in Rules
    /\ \A k \in DOMAIN L.accounts : L.accounts[k] \in Account
    /\ \A id \in DOMAIN L.transfers :
          /\ IsEntry(L.transfers[id]) /\ L.transfers[id].id = id
          /\ {L.transfers[id].debit, L.transfers[id].credit} \subseteq DOMAIN L.accounts
          /\ id \in DOMAIN L.pending <=> L.transfers[id].kind = "Pending"
    /\ DOMAIN L.pending \subseteq DOMAIN L.transfers

\* No limit of an account is exceeded.  FakeClient does not keep this: it lets
\* an account spend a pending credit, which may be voided.
WithinLimits(L) ==
    L.rule = "tigerbeetle" =>
        \A k \in DOMAIN L.accounts :
            ~ExceedsCredits(L.rule, L.accounts[k]) /\ ~ExceedsDebits(L.rule, L.accounts[k])

\* Entries with ids of their own.
IsBatch(batch) ==
    /\ DOMAIN batch = 1..Len(batch) /\ Len(batch) \in Nat
    /\ \A i \in DOMAIN batch : IsEntry(batch[i])
    /\ \A i, j \in DOMAIN batch : batch[i].id = batch[j].id => i = j

-----------------------------------------------------------------------------
(* One entry.                                                                *)

\* The conditions under which a new entry is applied, and what it leaves.
Applies(L, t) ==
    /\ ~Duplicate(L, t)
    /\ {t.debit, t.credit} \subseteq DOMAIN L.accounts
    /\ t.kind \in {"PostPending", "VoidPending"} => PendingMatches(L, t)
    /\ ~ExceedsCredits(L.rule, Debit(L.accounts[t.debit], t))
    /\ ~ExceedsDebits(L.rule, Credit(L.accounts[t.credit], t))

Applied(L, t) ==
    [L EXCEPT !.accounts = Update(Update(@, t.debit, Debit(L.accounts[t.debit], t)),
                                  t.credit, Credit(L.accounts[t.credit], t)),
              !.transfers = Update(@, t.id, t),
              !.pending = PendingAfter(L, t)]

\* Where a run stands: what it answers so far, and its ledger.
IsRun(run) == DOMAIN run = {"ok", "ledger"} /\ run = [d \in DOMAIN run |-> run[d]]

\* An entry is found to exist, is refused, or is applied (ApplyTransfer).
LEMMA ApplyCases ==
    ASSUME NEW run, IsRun(run), NEW t
    PROVE  LET L == run.ledger
               next == ApplyTransfer(run, t)
           IN  /\ IsRun(next)
               /\ \/ Duplicate(L, t) /\ L.transfers[t.id] = t /\ next = run
                  \/ /\ ~Applies(L, t) /\ ~(Duplicate(L, t) /\ L.transfers[t.id] = t)
                     /\ next.ok = FALSE /\ next.ledger = L
                  \/ Applies(L, t) /\ next.ok = run.ok /\ next.ledger = Applied(L, t)
<1> DEFINE L == run.ledger
           refused == [run EXCEPT !.ok = FALSE]
           applied == [run EXCEPT !.ledger = Applied(L, t)]
           refusals == \/ {t.debit, t.credit} \ DOMAIN L.accounts # {}
                       \/ t.kind \in {"PostPending", "VoidPending"} /\ ~PendingMatches(L, t)
           limits == \/ ExceedsCredits(L.rule, Debit(L.accounts[t.debit], t))
                     \/ ExceedsDebits(L.rule, Credit(L.accounts[t.credit], t))
<1>1. /\ IsRun(refused) /\ refused.ok = FALSE /\ refused.ledger = L
      /\ IsRun(applied) /\ applied.ok = run.ok /\ applied.ledger = Applied(L, t)
  BY DEF IsRun
<1>2. ApplyTransfer(run, t) =
        IF Duplicate(L, t) THEN IF L.transfers[t.id] = t THEN run ELSE refused
        ELSE IF refusals THEN refused
        ELSE IF limits THEN refused
        ELSE applied
  BY Zenon DEF ApplyTransfer, Applied
<1>3. Applies(L, t) <=> ~Duplicate(L, t) /\ ~refusals /\ ~limits
  BY DEF Applies
<1> HIDE DEF refused, applied, refusals, limits
<1>4. CASE Duplicate(L, t)
  BY <1>1, <1>2, <1>3, <1>4
<1>5. CASE ~Duplicate(L, t)
  BY <1>1, <1>2, <1>3, <1>5
<1> QED BY <1>4, <1>5

\* What Update leaves of a function.
LEMMA UpdateIs ==
    ASSUME NEW f, NEW k, NEW v
    PROVE  /\ DOMAIN Update(f, k, v) = DOMAIN f \union {k}
           /\ Update(f, k, v)[k] = v
           /\ \A x \in DOMAIN f : x # k => Update(f, k, v)[x] = f[x]
BY DEF Update

\* The totals of the two sides of an entry.
LEMMA SidesAreAccounts ==
    ASSUME NEW a \in Account, NEW t, IsEntry(t)
    PROVE  /\ Debit(a, t) \in Account /\ Credit(a, t) \in Account
           /\ Debit(a, t).flags = a.flags /\ Credit(a, t).flags = a.flags
           /\ Debit(a, t).debitsPosted = a.debitsPosted + PostedDelta(t)
           /\ Debit(a, t).debitsPending = a.debitsPending + PendingDelta(t)
           /\ Debit(a, t).creditsPosted = a.creditsPosted
           /\ Debit(a, t).creditsPending = a.creditsPending
           /\ Credit(a, t).creditsPosted = a.creditsPosted + PostedDelta(t)
           /\ Credit(a, t).creditsPending = a.creditsPending + PendingDelta(t)
           /\ Credit(a, t).debitsPosted = a.debitsPosted
           /\ Credit(a, t).debitsPending = a.debitsPending
           /\ PostedDelta(t) \in Nat /\ PendingDelta(t) \in Int
<1>1. PostedDelta(t) \in Nat /\ PendingDelta(t) \in Int
  BY DEF IsEntry, Kinds, PostedDelta, PendingDelta
<1>2. PICK p \in Nat, q \in Int : p = PostedDelta(t) /\ q = PendingDelta(t)
  BY <1>1
<1> DEFINE x == a.debitsPosted + p
           y == a.debitsPending + q
           u == a.creditsPosted + p
           v == a.creditsPending + q
           d == [a EXCEPT !.debitsPosted = x, !.debitsPending = y]
           c == [a EXCEPT !.creditsPosted = u, !.creditsPending = v]
<1>0. x \in Int /\ y \in Int /\ u \in Int /\ v \in Int
  BY DEF Account
<1> HIDE DEF x, y, u, v
<1>3. /\ d \in Account /\ d.flags = a.flags /\ d.debitsPosted = x
      /\ d.debitsPending = y /\ d.creditsPosted = a.creditsPosted
      /\ d.creditsPending = a.creditsPending
  BY <1>0 DEF Account
<1>4. /\ c \in Account /\ c.flags = a.flags /\ c.creditsPosted = u
      /\ c.creditsPending = v /\ c.debitsPosted = a.debitsPosted
      /\ c.debitsPending = a.debitsPending
  BY <1>0 DEF Account
<1>5. Debit(a, t) = d /\ Credit(a, t) = c
  BY <1>2 DEF Debit, Credit, x, y, u, v
<1> HIDE DEF d, c
<1> QED BY <1>1, <1>2, <1>3, <1>4, <1>5 DEF x, y, u, v

\* M is L with one entry applied: it keeps flags and touches the entry's own
\* two accounts, its own id and its own reservation only.
OneMore(M, L, t) ==
    /\ IsLedger(M) /\ M.rule = L.rule
    /\ DOMAIN M.accounts = DOMAIN L.accounts
    /\ \A k \in DOMAIN L.accounts :
          /\ M.accounts[k].flags = L.accounts[k].flags
          /\ k \notin {t.debit, t.credit} => M.accounts[k] = L.accounts[k]
    /\ DOMAIN M.transfers = DOMAIN L.transfers \union {t.id} /\ M.transfers[t.id] = t
    /\ \A id \in DOMAIN L.transfers : M.transfers[id] = L.transfers[id]
    /\ DOMAIN M.pending = DOMAIN L.pending \union (IF t.kind = "Pending" THEN {t.id} ELSE {})
    /\ \A id \in DOMAIN M.pending :
         M.pending[id] = IF t.kind = "Pending" /\ id = t.id THEN "open"
                         ELSE IF t.kind = "PostPending" /\ id = t.pendingID THEN "posted"
                         ELSE IF t.kind = "VoidPending" /\ id = t.pendingID THEN "voided"
                         ELSE L.pending[id]

\* b is account a = k after the two sides of t moved by these amounts.
TotalsMove(b, a, k, t, posted, pending) ==
    /\ b.debitsPosted = a.debitsPosted + (IF k = t.debit THEN posted ELSE 0)
    /\ b.debitsPending = a.debitsPending + (IF k = t.debit THEN pending ELSE 0)
    /\ b.creditsPosted = a.creditsPosted + (IF k = t.credit THEN posted ELSE 0)
    /\ b.creditsPending = a.creditsPending + (IF k = t.credit THEN pending ELSE 0)

\* What CreateTransfers leaves when it applies one entry.
LEMMA AppliedIsLedger ==
    ASSUME NEW L, IsLedger(L), NEW t, IsEntry(t), Applies(L, t)
    PROVE  OneMore(Applied(L, t), L, t)
<1> DEFINE M == Applied(L, t)
           a == L.accounts[t.debit]
           b == L.accounts[t.credit]
           A == Update(Update(L.accounts, t.debit, Debit(a, t)), t.credit, Credit(b, t))
<1>1. /\ M.rule = L.rule /\ M.accounts = A /\ M.transfers = Update(L.transfers, t.id, t)
      /\ M.pending = PendingAfter(L, t)
      /\ DOMAIN M = {"rule", "accounts", "transfers", "pending"} /\ M = [d \in DOMAIN M |-> M[d]]
  BY DEF Applied, IsLedger
<1>2. /\ t.debit \in DOMAIN L.accounts /\ t.credit \in DOMAIN L.accounts
      /\ a \in Account /\ b \in Account /\ t.id \notin DOMAIN L.transfers
      /\ t.id \notin DOMAIN L.pending
      /\ t.kind \in Kinds
      /\ t.kind \in {"PostPending", "VoidPending"} => t.pendingID \in DOMAIN L.pending
  BY DEF Applies, IsLedger, Duplicate, IsEntry, PendingMatches
<1>3. /\ Debit(a, t) \in Account /\ Credit(b, t) \in Account
      /\ Debit(a, t).flags = a.flags /\ Credit(b, t).flags = b.flags
  BY <1>2, SidesAreAccounts
<1>4. /\ DOMAIN A = DOMAIN L.accounts /\ A[t.credit] = Credit(b, t)
      /\ (t.debit # t.credit => A[t.debit] = Debit(a, t))
      /\ \A k \in DOMAIN L.accounts : k \notin {t.debit, t.credit} => A[k] = L.accounts[k]
  BY <1>2 DEF Update
<1>5. /\ \A k \in DOMAIN L.accounts :
            /\ A[k] \in Account /\ A[k].flags = L.accounts[k].flags
  BY <1>2, <1>3, <1>4 DEF IsLedger
<1>6. /\ DOMAIN M.transfers = DOMAIN L.transfers \union {t.id} /\ M.transfers[t.id] = t
      /\ \A id \in DOMAIN L.transfers : M.transfers[id] = L.transfers[id]
  BY <1>1, <1>2 DEF Update
<1>7. /\ DOMAIN M.pending = DOMAIN L.pending \union (IF t.kind = "Pending" THEN {t.id} ELSE {})
      /\ \A id \in DOMAIN M.pending :
            M.pending[id] = IF t.kind = "Pending" /\ id = t.id THEN "open"
                            ELSE IF t.kind = "PostPending" /\ id = t.pendingID THEN "posted"
                            ELSE IF t.kind = "VoidPending" /\ id = t.pendingID THEN "voided"
                            ELSE L.pending[id]
  <2>1. CASE t.kind = "Pending"
    BY <1>1, <1>2, <2>1 DEF PendingAfter, Update
  <2>2. CASE t.kind = "PostPending"
    BY <1>1, <1>2, <2>2 DEF PendingAfter, Update
  <2>3. CASE t.kind = "VoidPending"
    BY <1>1, <1>2, <2>3 DEF PendingAfter, Update
  <2>4. CASE t.kind = "Regular"
    BY <1>1, <1>2, <2>4 DEF PendingAfter, Update
  <2> QED BY <1>2, <2>1, <2>2, <2>3, <2>4 DEF Kinds
<1> HIDE DEF M, A
<1>8. IsLedger(M)
  <2>1. \A k \in DOMAIN M.accounts : M.accounts[k] \in Account
    BY <1>1, <1>4, <1>5
  <2>2. ASSUME NEW id \in DOMAIN M.transfers
        PROVE  /\ IsEntry(M.transfers[id]) /\ M.transfers[id].id = id
               /\ {M.transfers[id].debit, M.transfers[id].credit} \subseteq DOMAIN M.accounts
               /\ id \in DOMAIN M.pending <=> M.transfers[id].kind = "Pending"
    <3>1. CASE id = t.id
      BY <1>1, <1>2, <1>4, <1>6, <1>7, <3>1
    <3>2. CASE id # t.id
      <4>1. id \in DOMAIN L.transfers /\ M.transfers[id] = L.transfers[id]
        BY <1>6, <3>2
      <4>2. id \in DOMAIN M.pending <=> id \in DOMAIN L.pending
        BY <1>7, <3>2
      <4> QED BY <1>1, <1>4, <4>1, <4>2 DEF IsLedger
    <3> QED BY <3>1, <3>2
  <2>3. DOMAIN M.pending \subseteq DOMAIN M.transfers
    BY <1>6, <1>7 DEF IsLedger
  <2> QED BY <1>1, <2>1, <2>2, <2>3 DEF IsLedger
<1> QED BY <1>1, <1>4, <1>5, <1>6, <1>7, <1>8 DEF M, OneMore

\* No limit is exceeded by an entry that is applied, and none by a reservation
\* that is given back: what left an account and what is reserved to leave it
\* only grows by an entry that was checked (CreateTransfers).
LEMMA AppliedKeepsLimits ==
    ASSUME NEW L, IsLedger(L), WithinLimits(L), NEW t, IsEntry(t), Applies(L, t)
    PROVE  WithinLimits(Applied(L, t))
<1> DEFINE M == Applied(L, t)
           a == L.accounts[t.debit]
           b == L.accounts[t.credit]
           A == Update(Update(L.accounts, t.debit, Debit(a, t)), t.credit, Credit(b, t))
<1> SUFFICES ASSUME L.rule = "tigerbeetle", NEW k \in DOMAIN L.accounts
             PROVE  ~ExceedsCredits(L.rule, A[k]) /\ ~ExceedsDebits(L.rule, A[k])
  <2>1. M.accounts = A
    BY DEF Applied, IsLedger
  <2> HIDE DEF M, A
  <2>2. OneMore(M, L, t)
    BY AppliedIsLedger DEF M
  <2>3. DOMAIN M.accounts = DOMAIN L.accounts /\ M.rule = L.rule
    BY <2>2 DEF OneMore
  <2> QED BY <2>1, <2>3 DEF WithinLimits, M
<1>1. /\ t.debit \in DOMAIN L.accounts /\ t.credit \in DOMAIN L.accounts
      /\ a \in Account /\ b \in Account /\ t.amount \in Nat
      /\ ~ExceedsCredits(L.rule, Debit(a, t)) /\ ~ExceedsDebits(L.rule, Credit(b, t))
  BY DEF Applies, IsLedger, IsEntry
<1>2. /\ A[t.credit] = Credit(b, t) /\ (t.debit # t.credit => A[t.debit] = Debit(a, t))
      /\ k \notin {t.debit, t.credit} => A[k] = L.accounts[k]
  BY <1>1 DEF Update
<1>3. CASE k = t.credit
  <2>1. ~ExceedsCredits(L.rule, b)
    BY <1>1 DEF WithinLimits
  <2>2. ~ExceedsCredits(L.rule, Credit(b, t))
    BY <1>1, <2>1, SidesAreAccounts DEF ExceedsCredits, Account
  <2> QED BY <1>1, <1>2, <1>3, <2>2
<1>4. CASE k = t.debit /\ k # t.credit
  <2>1. ~ExceedsDebits(L.rule, a)
    BY <1>1 DEF WithinLimits
  <2>2. ~ExceedsDebits(L.rule, Debit(a, t))
    BY <1>1, <2>1, SidesAreAccounts DEF ExceedsDebits, Account
  <2> QED BY <1>1, <1>2, <1>4, <2>2
<1>5. CASE k \notin {t.debit, t.credit}
  BY <1>2, <1>5 DEF WithinLimits
<1> QED BY <1>3, <1>4, <1>5

\* An entry moves the totals of its two accounts and of no other.
LEMMA AppliedMovesTotals ==
    ASSUME NEW L, IsLedger(L), NEW t, IsEntry(t), Applies(L, t), t.debit # t.credit, NEW k \in DOMAIN L.accounts
    PROVE  TotalsMove(Applied(L, t).accounts[k], L.accounts[k], k, t, PostedDelta(t), PendingDelta(t))
<1> DEFINE a == L.accounts[t.debit]
           b == L.accounts[t.credit]
           A == Update(Update(L.accounts, t.debit, Debit(a, t)), t.credit, Credit(b, t))
<1>1. Applied(L, t).accounts = A
  BY DEF Applied, IsLedger
<1>2. t.debit \in DOMAIN L.accounts /\ t.credit \in DOMAIN L.accounts
  BY DEF Applies
<1>3. a \in Account /\ b \in Account /\ L.accounts[k] \in Account
  BY <1>2 DEF IsLedger
<1>4. /\ A[t.credit] = Credit(b, t) /\ A[t.debit] = Debit(a, t)
      /\ k \notin {t.debit, t.credit} => A[k] = L.accounts[k]
  BY <1>2 DEF Update
<1> HIDE DEF A
<1>5. PostedDelta(t) \in Int /\ PendingDelta(t) \in Int
  BY <1>3, SidesAreAccounts
<1>6. CASE k = t.debit
  <2>1. PICK c : c = Debit(a, t)
    OBVIOUS
  <2>2. /\ c.debitsPosted = a.debitsPosted + PostedDelta(t) /\ c.debitsPending = a.debitsPending + PendingDelta(t)
        /\ c.creditsPosted = a.creditsPosted /\ c.creditsPending = a.creditsPending
    BY <1>3, <2>1, SidesAreAccounts
  <2> QED BY <1>1, <1>3, <1>4, <1>6, <2>1, <2>2 DEF TotalsMove, Account
<1>7. CASE k = t.credit
  <2>1. PICK c : c = Credit(b, t)
    OBVIOUS
  <2>2. /\ c.creditsPosted = b.creditsPosted + PostedDelta(t) /\ c.creditsPending = b.creditsPending + PendingDelta(t)
        /\ c.debitsPosted = b.debitsPosted /\ c.debitsPending = b.debitsPending
    BY <1>3, <2>1, SidesAreAccounts
  <2> QED BY <1>1, <1>3, <1>4, <1>7, <2>1, <2>2 DEF TotalsMove, Account
<1>8. CASE k \notin {t.debit, t.credit}
  BY <1>1, <1>3, <1>4, <1>8 DEF TotalsMove, Account
<1> QED BY <1>6, <1>7, <1>8

-----------------------------------------------------------------------------
(* A batch.                                                                  *)

\* f is a run over the first N entries of a batch.
IsRunOf(f, L, batch, N) ==
    f = [n \in 0..N |-> IF n = 0 THEN [ok |-> TRUE, ledger |-> L] ELSE ApplyTransfer(f[n - 1], batch[n])]

\* The recursion of CreateTransfers defines a function.
LEMMA RunsExist ==
    ASSUME NEW L, NEW batch
    PROVE  \A N \in Nat : \E f : IsRunOf(f, L, batch, N)
<1> DEFINE S == {N \in Nat : \E f : IsRunOf(f, L, batch, N)}
           start == [ok |-> TRUE, ledger |-> L]
<1>1. 0 \in S
  <2> DEFINE f == [n \in 0..0 |-> start]
  <2>0. 0..0 = {0}
    OBVIOUS
  <2>1. f = [n \in 0..0 |-> IF n = 0 THEN start ELSE ApplyTransfer(f[n - 1], batch[n])]
    <3> HIDE DEF start
    <3> QED BY <2>0
  <2>2. IsRunOf(f, L, batch, 0)
    BY <2>1 DEF IsRunOf
  <2> QED BY <2>2
<1>2. ASSUME NEW N \in Nat, N \in S PROVE N + 1 \in S
  <2>1. PICK f : IsRunOf(f, L, batch, N)
    BY <1>2
  <2> DEFINE g == [n \in 0..(N + 1) |-> IF n = 0 THEN start ELSE ApplyTransfer(f[n - 1], batch[n])]
  <2>2. ASSUME NEW n \in 0..N PROVE g[n] = f[n]
    <3>1. f[n] = IF n = 0 THEN start ELSE ApplyTransfer(f[n - 1], batch[n])
      BY <2>1, Zenon DEF IsRunOf
    <3>2. n \in 0..(N + 1)
      OBVIOUS
    <3> HIDE DEF start
    <3> QED BY <3>1, <3>2
  <2>3. \A n \in 0..(N + 1) : n # 0 => n - 1 \in 0..N
    OBVIOUS
  <2>4. g = [n \in 0..(N + 1) |-> IF n = 0 THEN start ELSE ApplyTransfer(g[n - 1], batch[n])]
    <3> HIDE DEF start
    <3> QED BY <2>2, <2>3
  <2>5. IsRunOf(g, L, batch, N + 1)
    BY <2>4 DEF IsRunOf
  <2> QED BY <2>5
<1> HIDE DEF S
<1>3. Nat \subseteq S
  BY <1>1, <1>2, SetInduction
<1> QED BY <1>3 DEF S

\* A batch starts from the ledger it is given, and its entries are applied one
\* after the other.
LEMMA RunsStart ==
    ASSUME NEW L, NEW batch, Len(batch) \in Nat
    PROVE  Runs(L, batch)[0] = [ok |-> TRUE, ledger |-> L]
<1> DEFINE F == CHOOSE f : IsRunOf(f, L, batch, Len(batch))
<1>1. IsRunOf(F, L, batch, Len(batch))
  BY RunsExist, Zenon
<1>2. Runs(L, batch) = F
  BY Zenon DEF Runs, IsRunOf
<1> HIDE DEF F
<1>3. 0 \in 0..Len(batch)
  OBVIOUS
<1>4. F[0] = [ok |-> TRUE, ledger |-> L]
  BY <1>1, <1>3, Zenon DEF IsRunOf
<1> QED BY <1>2, <1>4

\* Every further place is the entry applied to the place before it.
LEMMA RunsStep ==
    ASSUME NEW L, NEW batch, Len(batch) \in Nat, NEW n \in 1..Len(batch)
    PROVE  Runs(L, batch)[n] = ApplyTransfer(Runs(L, batch)[n - 1], batch[n])
<1> DEFINE F == CHOOSE f : IsRunOf(f, L, batch, Len(batch))
           start == [ok |-> TRUE, ledger |-> L]
<1>1. IsRunOf(F, L, batch, Len(batch))
  BY RunsExist, Zenon
<1>2. Runs(L, batch) = F
  BY Zenon DEF Runs, IsRunOf
<1> HIDE DEF F
<1>3. n \in 0..Len(batch) /\ n # 0
  OBVIOUS
<1>4. F[n] = IF n = 0 THEN start ELSE ApplyTransfer(F[n - 1], batch[n])
  BY <1>1, <1>3, Zenon DEF IsRunOf
<1> HIDE DEF start
<1> QED BY <1>2, <1>3, <1>4

Settles(kind) == kind \in {"PostPending", "VoidPending"}

\* What becomes of a reservation that an entry of this kind settles.
SettledAs(kind) == IF kind = "PostPending" THEN "posted" ELSE "voided"

\* The reservations that the entries applied between L and M settled.
Settled(L, M, batch, id) ==
    \E i \in DOMAIN batch : /\ batch[i].pendingID = id
                            /\ batch[i].id \in DOMAIN M.transfers \ DOMAIN L.transfers

\* M is L with entries of the batch applied, all of one kind.
Extends(M, L, batch, kind) ==
    /\ IsLedger(M) /\ M.rule = L.rule
    /\ WithinLimits(L) => WithinLimits(M)
    /\ DOMAIN M.accounts = DOMAIN L.accounts
    /\ \A k \in DOMAIN L.accounts :
          /\ M.accounts[k].flags = L.accounts[k].flags
          /\ \/ M.accounts[k] = L.accounts[k]
             \/ \E i \in DOMAIN batch : k \in {batch[i].debit, batch[i].credit}
    /\ DOMAIN L.transfers \subseteq DOMAIN M.transfers
    /\ \A id \in DOMAIN L.transfers : M.transfers[id] = L.transfers[id]
    /\ \A id \in DOMAIN M.transfers \ DOMAIN L.transfers :
          \E i \in DOMAIN batch : id = batch[i].id /\ M.transfers[id] = batch[i]
    /\ Settles(kind) => \A i \in DOMAIN batch :
          batch[i].id \in DOMAIN M.transfers \ DOMAIN L.transfers => batch[i].pendingID \in DOMAIN L.pending
    /\ DOMAIN L.pending \subseteq DOMAIN M.pending
    /\ \A id \in DOMAIN M.pending \ DOMAIN L.pending : kind = "Pending" /\ M.pending[id] = "open"
    /\ \A id \in DOMAIN L.pending :
          IF Settles(kind) /\ Settled(L, M, batch, id)
            THEN L.pending[id] = "open" /\ M.pending[id] = SettledAs(kind)
            ELSE M.pending[id] = L.pending[id]

\* A ledger extends itself.
LEMMA ExtendsItself ==
    ASSUME NEW L, IsLedger(L), NEW batch, NEW kind
    PROVE  Extends(L, L, batch, kind)
<1>1. \A id : ~Settled(L, L, batch, id)
  BY DEF Settled
<1> QED BY <1>1 DEF Extends

\* One more entry.
LEMMA ExtendsByEntry ==
    ASSUME NEW L, IsLedger(L), NEW batch, IsBatch(batch), NEW kind,
           NEW M, Extends(M, L, batch, kind), NEW n \in DOMAIN batch, batch[n].kind = kind,
           Applies(M, batch[n])
    PROVE  Extends(Applied(M, batch[n]), L, batch, kind)
<1> DEFINE t == batch[n]
           K == Applied(M, t)
<1>1. IsEntry(t) /\ IsLedger(M)
  BY DEF IsBatch, Extends
<1>2. /\ IsLedger(K) /\ K.rule = M.rule
      /\ DOMAIN K.accounts = DOMAIN M.accounts
      /\ \A k \in DOMAIN M.accounts :
            /\ K.accounts[k].flags = M.accounts[k].flags
            /\ k \notin {t.debit, t.credit} => K.accounts[k] = M.accounts[k]
      /\ DOMAIN K.transfers = DOMAIN M.transfers \union {t.id} /\ K.transfers[t.id] = t
      /\ \A id \in DOMAIN M.transfers : K.transfers[id] = M.transfers[id]
      /\ DOMAIN K.pending = DOMAIN M.pending \union (IF t.kind = "Pending" THEN {t.id} ELSE {})
      /\ \A id \in DOMAIN K.pending :
           K.pending[id] = IF t.kind = "Pending" /\ id = t.id THEN "open"
                           ELSE IF t.kind = "PostPending" /\ id = t.pendingID THEN "posted"
                           ELSE IF t.kind = "VoidPending" /\ id = t.pendingID THEN "voided"
                           ELSE M.pending[id]
  <2>1. OneMore(K, M, t)
    BY <1>1, AppliedIsLedger
  <2> HIDE DEF K
  <2> QED BY <2>1 DEF OneMore
<1>3. WithinLimits(L) => WithinLimits(K)
  BY <1>1, AppliedKeepsLimits DEF Extends
<1>4. /\ t.id \notin DOMAIN M.transfers /\ t.id \notin DOMAIN L.transfers
      /\ kind \in {"PostPending", "VoidPending"} => M.pending[t.pendingID] = "open" /\ t.pendingID \in DOMAIN M.pending
  BY DEF Applies, Duplicate, Extends, PendingMatches
<1> HIDE DEF K
<1>5. \A k \in DOMAIN L.accounts :
          /\ K.accounts[k].flags = L.accounts[k].flags
          /\ \/ K.accounts[k] = L.accounts[k]
             \/ \E i \in DOMAIN batch : k \in {batch[i].debit, batch[i].credit}
  BY <1>2 DEF Extends
<1>6. \A id \in DOMAIN K.transfers \ DOMAIN L.transfers :
          \E i \in DOMAIN batch : id = batch[i].id /\ K.transfers[id] = batch[i]
  BY <1>2 DEF Extends
<1>7. \A id : Settled(L, K, batch, id) <=> Settled(L, M, batch, id) \/ id = t.pendingID
  BY <1>2, <1>4 DEF Settled, IsBatch
<1>8. DOMAIN L.pending \subseteq DOMAIN K.pending
  BY <1>2 DEF Extends
<1>9. \A id \in DOMAIN K.pending \ DOMAIN L.pending : kind = "Pending" /\ K.pending[id] = "open"
  BY <1>2 DEF Extends
<1>10. ASSUME NEW id \in DOMAIN L.pending
       PROVE  IF Settles(kind) /\ Settled(L, K, batch, id)
                THEN L.pending[id] = "open" /\ K.pending[id] = SettledAs(kind)
                ELSE K.pending[id] = L.pending[id]
  <2>1. id \in DOMAIN K.pending /\ id \in DOMAIN M.pending /\ id # t.id
    BY <1>4, <1>8 DEF Extends, IsLedger
  <2>2. CASE Settles(kind) /\ id = t.pendingID
    <3>1. M.pending[id] = "open" /\ K.pending[id] = SettledAs(kind)
      BY <1>2, <1>4, <2>1, <2>2 DEF SettledAs, Settles
    <3>2. L.pending[id] = "open"
      BY <3>1, <2>1 DEF Extends, SettledAs
    <3> QED BY <1>7, <2>2, <3>1, <3>2
  <2>3. CASE ~(Settles(kind) /\ id = t.pendingID)
    <3>1. K.pending[id] = M.pending[id]
      BY <1>2, <2>1, <2>3 DEF Settles
    <3> QED BY <1>7, <2>3, <3>1 DEF Extends
  <2> QED BY <2>2, <2>3
<1>11. /\ DOMAIN K.accounts = DOMAIN L.accounts /\ DOMAIN L.transfers \subseteq DOMAIN K.transfers
       /\ K.rule = L.rule /\ \A id \in DOMAIN L.transfers : K.transfers[id] = L.transfers[id]
  BY <1>2 DEF Extends
<1>12. ASSUME Settles(kind), NEW i \in DOMAIN batch, batch[i].id \in DOMAIN K.transfers \ DOMAIN L.transfers
       PROVE  batch[i].pendingID \in DOMAIN L.pending
  <2>1. CASE i = n
    <3>1. t.pendingID \in DOMAIN M.pending
      BY <1>4, <1>12 DEF Settles
    <3> QED BY <1>12, <2>1, <3>1 DEF Extends, Settles
  <2>2. CASE i # n
    <3>1. batch[i].id \in DOMAIN M.transfers
      BY <1>2, <1>12, <2>2 DEF IsBatch
    <3> QED BY <1>12, <3>1 DEF Extends
  <2> QED BY <2>1, <2>2
<1>13. Extends(K, L, batch, kind)
  BY <1>2, <1>3, <1>5, <1>6, <1>8, <1>9, <1>10, <1>11, <1>12 DEF Extends
<1> QED BY <1>13 DEF K

\* The first n entries of a run: as long as it answers "ok", all of them are in.
RunSoFar(L, batch, kind, n) ==
    LET run == Runs(L, batch)[n]
    IN  /\ IsRun(run) /\ run.ok \in BOOLEAN
        /\ Extends(run.ledger, L, batch, kind)
        /\ run.ok => \A i \in 1..n : /\ batch[i].id \in DOMAIN run.ledger.transfers
                                     /\ run.ledger.transfers[batch[i].id] = batch[i]

\* Every prefix of a run is sound: nothing but its entries is applied.
LEMMA RunsAreSound ==
    ASSUME NEW L, IsLedger(L), NEW batch, IsBatch(batch), NEW kind,
           \A i \in DOMAIN batch : batch[i].kind = kind
    PROVE  \A n \in 0..Len(batch) : RunSoFar(L, batch, kind, n)
<1> DEFINE S == {n \in Nat : n <= Len(batch) => RunSoFar(L, batch, kind, n)}
<1>0. Len(batch) \in Nat /\ DOMAIN batch = 1..Len(batch)
  BY DEF IsBatch
<1>1. 0 \in S
  <2>1. Runs(L, batch)[0] = [ok |-> TRUE, ledger |-> L]
    BY <1>0, RunsStart, Zenon
  <2>2. PICK run : run = [ok |-> TRUE, ledger |-> L]
    OBVIOUS
  <2>3. run.ok = TRUE /\ run.ledger = L /\ IsRun(run) /\ Runs(L, batch)[0] = run
    BY <2>1, <2>2 DEF IsRun
  <2>4. \A i \in 1..0 : FALSE
    OBVIOUS
  <2>5. RunSoFar(L, batch, kind, 0)
    BY <2>3, <2>4, ExtendsItself DEF RunSoFar
  <2> QED BY <2>5
<1>2. ASSUME NEW m \in Nat, m \in S PROVE m + 1 \in S
  <2> SUFFICES ASSUME m + 1 <= Len(batch) PROVE RunSoFar(L, batch, kind, m + 1)
    OBVIOUS
  <2> DEFINE n == m + 1
             run == Runs(L, batch)[m]
             next == Runs(L, batch)[n]
             t == batch[n]
             M == run.ledger
             K == next.ledger
  <2>1. n \in 1..Len(batch) /\ n - 1 = m /\ n \in DOMAIN batch /\ RunSoFar(L, batch, kind, m)
    BY <1>0, <1>2
  <2>2. next = ApplyTransfer(run, t)
    <3>1. \A j \in 1..Len(batch) : Runs(L, batch)[j] = ApplyTransfer(Runs(L, batch)[j - 1], batch[j])
      BY <1>0, RunsStep
    <3> QED BY <2>1, <3>1
  <2>3. /\ IsRun(run) /\ run.ok \in BOOLEAN /\ Extends(M, L, batch, kind) /\ IsEntry(t) /\ t.kind = kind
        /\ run.ok => \A i \in 1..m : batch[i].id \in DOMAIN M.transfers /\ M.transfers[batch[i].id] = batch[i]
    BY <2>1 DEF RunSoFar, IsBatch
  <2>4. IsLedger(M)
    BY <2>3 DEF Extends
  <2> HIDE DEF run, next
  <2>5. CASE Duplicate(M, t) /\ M.transfers[t.id] = t /\ next = run
    <3>1. \A i \in 1..n : i \in 1..m \/ i = n
      OBVIOUS
    <3>2. next.ok => \A i \in 1..n : batch[i].id \in DOMAIN K.transfers /\ K.transfers[batch[i].id] = batch[i]
      BY <2>3, <2>5, <3>1 DEF Duplicate
    <3> QED BY <2>3, <2>5, <3>2 DEF RunSoFar, next
  <2>6. CASE next.ok = FALSE /\ next.ledger = M /\ IsRun(next)
    BY <2>3, <2>6 DEF RunSoFar, next
  <2>7. CASE Applies(M, t) /\ next.ok = run.ok /\ next.ledger = Applied(M, t) /\ IsRun(next)
    <3>1. Extends(K, L, batch, kind)
      BY <2>1, <2>3, <2>7, ExtendsByEntry
    <3>2. /\ DOMAIN K.transfers = DOMAIN M.transfers \union {t.id} /\ K.transfers[t.id] = t
          /\ \A id \in DOMAIN M.transfers : K.transfers[id] = M.transfers[id]
      <4>1. OneMore(K, M, t)
        BY <2>3, <2>4, <2>7, AppliedIsLedger
      <4> QED BY <4>1 DEF OneMore
    <3>3. \A i \in 1..n : i \in 1..m \/ i = n
      OBVIOUS
    <3>4. next.ok => \A i \in 1..n : batch[i].id \in DOMAIN K.transfers /\ K.transfers[batch[i].id] = batch[i]
      BY <2>3, <2>7, <3>2, <3>3
    <3> QED BY <2>3, <2>7, <3>1, <3>4 DEF RunSoFar, next
  <2> QED BY <2>2, <2>3, <2>5, <2>6, <2>7, ApplyCases
<1> HIDE DEF S
<1>3. Nat \subseteq S
  BY <1>1, <1>2, SetInduction
<1> QED BY <1>0, <1>3 DEF S

\* A batch that is refused leaves no trace; one that is not is in the ledger
\* entry by entry (CreateTransfers).
LEMMA BatchIsAtomic ==
    ASSUME NEW L, IsLedger(L), NEW batch, IsBatch(batch), NEW kind,
           \A i \in DOMAIN batch : batch[i].kind = kind
    PROVE  LET result == CreateTransfers(L, batch)
               M == result.ledger
           IN  /\ result.ok \in BOOLEAN
               /\ Extends(M, L, batch, kind)
               /\ ~result.ok => M = L
               /\ result.ok => \A i \in DOMAIN batch : batch[i].id \in DOMAIN M.transfers /\ M.transfers[batch[i].id] = batch[i]
<1> DEFINE run == Runs(L, batch)[Len(batch)]
           refused == [ok |-> FALSE, ledger |-> L]
<1>1. RunSoFar(L, batch, kind, Len(batch)) /\ DOMAIN batch = 1..Len(batch)
  BY RunsAreSound DEF IsBatch
<1>2. CreateTransfers(L, batch) = IF run.ok /\ ~ChainBroken(L, batch) THEN run ELSE refused
  BY DEF CreateTransfers
<1>3. refused.ok = FALSE /\ refused.ledger = L
  OBVIOUS
<1> HIDE DEF run, refused
<1>4. CASE run.ok /\ ~ChainBroken(L, batch)
  BY <1>1, <1>2, <1>4 DEF RunSoFar, run
<1>5. CASE ~(run.ok /\ ~ChainBroken(L, batch))
  BY <1>1, <1>2, <1>3, <1>5, ExtendsItself
<1> QED BY <1>4, <1>5

\* A batch that is submitted again finds itself, unless that breaks its chain.
LEMMA RepeatedBatchExists ==
    ASSUME NEW L, NEW batch, IsBatch(batch), ~ChainBroken(L, batch),
           \A i \in DOMAIN batch : batch[i].id \in DOMAIN L.transfers /\ L.transfers[batch[i].id] = batch[i]
    PROVE  CreateTransfers(L, batch).ok = TRUE /\ CreateTransfers(L, batch).ledger = L
<1> DEFINE start == [ok |-> TRUE, ledger |-> L]
           S == {n \in Nat : n <= Len(batch) => Runs(L, batch)[n] = start}
<1>0. Len(batch) \in Nat /\ DOMAIN batch = 1..Len(batch)
  BY DEF IsBatch
<1>1. 0 \in S
  BY <1>0, RunsStart
<1>2. ASSUME NEW m \in Nat, m \in S PROVE m + 1 \in S
  <2> SUFFICES ASSUME m + 1 <= Len(batch) PROVE Runs(L, batch)[m + 1] = start
    OBVIOUS
  <2>1. m + 1 \in 1..Len(batch) /\ (m + 1) - 1 = m /\ m <= Len(batch)
    BY <1>0
  <2>2. Runs(L, batch)[m + 1] = ApplyTransfer(start, batch[m + 1])
    BY <1>0, <1>2, <2>1, RunsStep
  <2>3. IsRun(start) /\ start.ledger = L
    BY DEF IsRun
  <2>4. Duplicate(L, batch[m + 1]) /\ L.transfers[batch[m + 1].id] = batch[m + 1]
    BY <1>0, <2>1 DEF Duplicate
  <2> HIDE DEF start
  <2>5. ApplyTransfer(start, batch[m + 1]) = start
    BY <2>3, <2>4, ApplyCases DEF Applies
  <2> QED BY <2>2, <2>5
<1> HIDE DEF S
<1>3. Nat \subseteq S
  BY <1>1, <1>2, SetInduction
<1>4. Runs(L, batch)[Len(batch)] = start
  <2>1. Len(batch) \in S /\ Len(batch) <= Len(batch)
    BY <1>0, <1>3
  <2> HIDE DEF start
  <2> QED BY <2>1 DEF S
<1> QED BY <1>4 DEF CreateTransfers

\* A post turns what was reserved into what is posted and a void gives it back:
\* no limit can refuse them under the rule of TigerBeetle (CreateTransfers).
LEMMA SettlementFits ==
    ASSUME NEW L, IsLedger(L), WithinLimits(L), L.rule = "tigerbeetle", NEW t, IsEntry(t),
           Settles(t.kind), t.id \notin DOMAIN L.transfers, PendingMatches(L, t)
    PROVE  Applies(L, t)
<1> DEFINE a == L.accounts[t.debit]
           b == L.accounts[t.credit]
<1>1. t.debit \in DOMAIN L.accounts /\ t.credit \in DOMAIN L.accounts
  BY DEF PendingMatches, IsLedger
<1>2. /\ a \in Account /\ b \in Account /\ t.amount \in Nat
      /\ ~ExceedsCredits("tigerbeetle", a) /\ ~ExceedsDebits("tigerbeetle", b)
  BY <1>1 DEF IsLedger, WithinLimits, IsEntry
<1>3. PICK d : d = PostedDelta(t) /\ d \in {0, t.amount} /\ PendingDelta(t) = -t.amount
  BY DEF PostedDelta, PendingDelta, Settles
<1>4. ~ExceedsCredits("tigerbeetle", Debit(a, t))
  BY <1>2, <1>3, SidesAreAccounts DEF ExceedsCredits, Account
<1>5. ~ExceedsDebits("tigerbeetle", Credit(b, t))
  <2>1. PICK c : c = Credit(b, t)
    OBVIOUS
  <2>2. /\ c.flags = b.flags /\ c.creditsPosted = b.creditsPosted + d
        /\ c.creditsPending = b.creditsPending - t.amount /\ c.debitsPosted = b.debitsPosted
    BY <1>2, <1>3, <2>1, SidesAreAccounts DEF Account
  <2>3. d \in Int /\ d <= t.amount
    BY <1>2, <1>3
  <2> QED BY <1>2, <2>1, <2>2, <2>3 DEF ExceedsDebits, Account
<1> QED BY <1>1, <1>4, <1>5 DEF Applies, Duplicate

\* An entry that applies leaves a run that stands, with one entry more.
LEMMA SettlementIsApplied ==
    ASSUME NEW run, IsRun(run), run.ok = TRUE, IsLedger(run.ledger), WithinLimits(run.ledger),
           NEW t, IsEntry(t), Applies(run.ledger, t)
    PROVE  /\ IsRun(ApplyTransfer(run, t)) /\ ApplyTransfer(run, t).ok = TRUE
           /\ OneMore(ApplyTransfer(run, t).ledger, run.ledger, t)
           /\ WithinLimits(ApplyTransfer(run, t).ledger)
<1>0. PICK M : M = run.ledger
  OBVIOUS
<1>1. ~Duplicate(M, t) /\ IsLedger(M) /\ WithinLimits(M) /\ Applies(M, t)
  BY <1>0 DEF Applies
<1>2. IsRun(ApplyTransfer(run, t)) /\ ApplyTransfer(run, t).ok = TRUE /\ ApplyTransfer(run, t).ledger = Applied(M, t)
  BY <1>0, <1>1, ApplyCases
<1>3. OneMore(Applied(M, t), M, t) /\ WithinLimits(Applied(M, t))
  BY <1>1, AppliedIsLedger, AppliedKeepsLimits
<1> QED BY <1>0, <1>2, <1>3

\* Nor can a batch of them be refused while every reservation is open: what is
\* staged cannot be lost to another Transfer (commit from Pending, cancelStaged).
LEMMA SettlementsAreAccepted ==
    ASSUME NEW L, IsLedger(L), WithinLimits(L), L.rule = "tigerbeetle", NEW batch, IsBatch(batch),
           \A i \in DOMAIN batch : /\ Settles(batch[i].kind)
                                    /\ batch[i].id \notin DOMAIN L.transfers /\ PendingMatches(L, batch[i]),
           \A i, j \in DOMAIN batch : batch[i].pendingID = batch[j].pendingID => i = j
    PROVE  CreateTransfers(L, batch).ok = TRUE
<1> DEFINE N == Len(batch)
           R == Runs(L, batch)
           Good(n) == /\ IsRun(R[n]) /\ R[n].ok = TRUE /\ IsLedger(R[n].ledger)
                      /\ WithinLimits(R[n].ledger) /\ R[n].ledger.rule = "tigerbeetle"
                      /\ \A i \in DOMAIN batch : i > n => /\ batch[i].id \notin DOMAIN R[n].ledger.transfers
                                                          /\ PendingMatches(R[n].ledger, batch[i])
           S == {n \in Nat : n <= N => Good(n)}
<1>0. N \in Nat /\ DOMAIN batch = 1..N
  BY DEF IsBatch
<1>1. 0 \in S
  <2>1. PICK run : run = [ok |-> TRUE, ledger |-> L]
    OBVIOUS
  <2>2. run.ok = TRUE /\ run.ledger = L /\ IsRun(run) /\ R[0] = run
    BY <1>0, <2>1, RunsStart DEF IsRun
  <2> HIDE DEF R
  <2> QED BY <2>2
<1>2. ASSUME NEW m \in Nat, m \in S PROVE m + 1 \in S
  <2> SUFFICES ASSUME m + 1 <= N PROVE Good(m + 1)
    <3> HIDE DEF Good
    <3> QED OBVIOUS
  <2>1. m + 1 \in 1..N /\ (m + 1) - 1 = m /\ m <= N /\ m + 1 > m
    BY <1>0
  <2>2. Good(m)
    BY <1>2, <2>1
  <2>3. R[m + 1] = ApplyTransfer(R[m], batch[m + 1])
    BY <1>0, <2>1, RunsStep
  <2>4. PICK run, M, next, t : run = R[m] /\ M = run.ledger /\ next = R[m + 1] /\ t = batch[m + 1]
    OBVIOUS
  <2> HIDE DEF R
  <2>5. /\ IsRun(run) /\ run.ok = TRUE /\ IsLedger(M) /\ WithinLimits(M) /\ M.rule = "tigerbeetle"
        /\ \A i \in DOMAIN batch : i > m => batch[i].id \notin DOMAIN M.transfers /\ PendingMatches(M, batch[i])
    BY <2>2, <2>4
  <2>6. IsEntry(t) /\ Settles(t.kind) /\ m + 1 \in DOMAIN batch
    BY <1>0, <2>1, <2>4 DEF IsBatch
  <2>7. Applies(M, t) /\ ~Duplicate(M, t)
    BY <2>1, <2>4, <2>5, <2>6, SettlementFits DEF Applies
  <2>8. next = ApplyTransfer(run, t) /\ Applies(run.ledger, t) /\ IsLedger(run.ledger) /\ WithinLimits(run.ledger)
    BY <2>3, <2>4, <2>5, <2>7
  <2>9. PICK K : K = next.ledger
    OBVIOUS
  <2>10. /\ IsRun(next) /\ next.ok = TRUE
         /\ IsLedger(K) /\ K.rule = M.rule /\ WithinLimits(K)
         /\ DOMAIN K.transfers = DOMAIN M.transfers \union {t.id}
         /\ \A id \in DOMAIN M.transfers : K.transfers[id] = M.transfers[id]
         /\ DOMAIN K.pending = DOMAIN M.pending
         /\ \A id \in DOMAIN M.pending : id # t.pendingID => K.pending[id] = M.pending[id]
    <3>1. IsRun(next) /\ next.ok = TRUE /\ OneMore(K, M, t) /\ WithinLimits(K)
      <4>1. IsRun(run) /\ run.ok = TRUE
        BY <2>5
      <4>2. /\ IsRun(ApplyTransfer(run, t)) /\ ApplyTransfer(run, t).ok = TRUE
            /\ OneMore(ApplyTransfer(run, t).ledger, run.ledger, t) /\ WithinLimits(ApplyTransfer(run, t).ledger)
        BY <4>1, <2>6, <2>8, SettlementIsApplied
      <4> QED BY <2>4, <2>8, <2>9, <4>2
    <3> QED BY <2>6, <3>1 DEF OneMore, Settles
  <2>11. ASSUME NEW i \in DOMAIN batch, i > m + 1
         PROVE  batch[i].id \notin DOMAIN K.transfers /\ PendingMatches(K, batch[i])
    <3>1. i > m /\ i # m + 1
      BY <1>0, <2>11
    <3>2. batch[i].id # t.id /\ batch[i].pendingID # t.pendingID
      BY <2>4, <2>6, <3>1 DEF IsBatch
    <3>3. batch[i].id \notin DOMAIN M.transfers /\ PendingMatches(M, batch[i])
      BY <2>5, <3>1
    <3>4. batch[i].pendingID \in DOMAIN M.pending /\ batch[i].pendingID \in DOMAIN M.transfers
      BY <2>5, <3>3 DEF PendingMatches, IsLedger
    <3> QED BY <2>10, <3>2, <3>3, <3>4 DEF PendingMatches
  <2> QED BY <2>4, <2>5, <2>9, <2>10, <2>11
<1> HIDE DEF S
<1>3. N \in S
  BY <1>0, <1>1, <1>2, SetInduction
<1>4. R[N].ok = TRUE
  BY <1>0, <1>3 DEF S
<1> HIDE DEF R
<1>5. CreateTransfers(L, batch) = R[N]
  BY <1>4 DEF CreateTransfers, R, ChainBroken, Duplicate
<1> QED BY <1>4, <1>5

-----------------------------------------------------------------------------
(* New accounts and timeouts.                                                *)

\* Flags from a policy.
LEMMA FlagsFromPolicy == ASSUME NEW p PROVE AllowsToAccountFlags(p) \in Flags
BY DEF AllowsToAccountFlags, Flags

\* CreateAccounts adds an account without money or finds the one that is there.
LEMMA AccountIsCreated ==
    ASSUME NEW L, IsLedger(L), NEW id, NEW flags \in Flags
    PROVE  LET result == CreateAccounts(L, id, flags)
               M == result.ledger
           IN  /\ IsLedger(M) /\ (WithinLimits(L) => WithinLimits(M))
               /\ M.rule = L.rule /\ M.transfers = L.transfers /\ M.pending = L.pending
               /\ DOMAIN M.accounts = DOMAIN L.accounts \union {id}
               /\ \A k \in DOMAIN L.accounts : M.accounts[k] = L.accounts[k]
               /\ id \notin DOMAIN L.accounts => M.accounts[id] = NewAccount(flags)
               /\ result.ok \in BOOLEAN
               /\ result.ok <=> M.accounts[id].flags = flags
<1> DEFINE A == Update(L.accounts, id, NewAccount(flags))
           N == [L EXCEPT !.accounts = A]
           yes == [ok |-> TRUE, ledger |-> N]
           maybe == [ok |-> L.accounts[id].flags = flags, ledger |-> L]
<1>1. CreateAccounts(L, id, flags) = IF id \in DOMAIN L.accounts THEN maybe ELSE yes
  BY DEF CreateAccounts
<1>2. CASE id \in DOMAIN L.accounts
  <2>1. maybe.ledger = L /\ (maybe.ok <=> L.accounts[id].flags = flags) /\ maybe.ok \in BOOLEAN
    OBVIOUS
  <2> HIDE DEF maybe
  <2>2. DOMAIN L.accounts \union {id} = DOMAIN L.accounts
    BY <1>2
  <2> QED BY <1>1, <1>2, <2>1, <2>2
<1>3. CASE id \notin DOMAIN L.accounts
  <2>1. yes.ledger = N /\ yes.ok = TRUE
    OBVIOUS
  <2>2. /\ DOMAIN A = DOMAIN L.accounts \union {id} /\ A[id] = NewAccount(flags)
        /\ \A k \in DOMAIN L.accounts : A[k] = L.accounts[k]
    BY <1>3 DEF Update
  <2>3. NewAccount(flags) \in Account /\ NewAccount(flags).flags = flags
    BY DEF NewAccount, Account
  <2>4. ~ExceedsCredits(L.rule, NewAccount(flags)) /\ ~ExceedsDebits(L.rule, NewAccount(flags))
    BY DEF NewAccount, ExceedsCredits, ExceedsDebits
  <2> HIDE DEF A, yes, maybe
  <2>5. /\ N.rule = L.rule /\ N.transfers = L.transfers /\ N.pending = L.pending /\ N.accounts = A
        /\ DOMAIN N = {"rule", "accounts", "transfers", "pending"} /\ N = [d \in DOMAIN N |-> N[d]]
    BY DEF IsLedger
  <2> HIDE DEF N
  <2>6. IsLedger(N)
    BY <2>2, <2>3, <2>5 DEF IsLedger
  <2>7. WithinLimits(L) => WithinLimits(N)
    BY <2>2, <2>4, <2>5 DEF WithinLimits
  <2> QED BY <1>1, <1>3, <2>1, <2>2, <2>3, <2>5, <2>6, <2>7
<1> QED BY <1>2, <1>3

\* A reservation that times out only gives back.
LEMMA ReservationExpires ==
    ASSUME NEW L, IsLedger(L), NEW id \in DOMAIN L.pending
    PROVE  LET M == ExpirePending(L, id)
               p == L.transfers[id]
           IN  /\ IsLedger(M) /\ (WithinLimits(L) => WithinLimits(M))
               /\ M.rule = L.rule /\ M.transfers = L.transfers
               /\ DOMAIN M.accounts = DOMAIN L.accounts
               /\ \A k \in DOMAIN L.accounts :
                     /\ M.accounts[k].flags = L.accounts[k].flags
                     /\ k \notin {p.debit, p.credit} => M.accounts[k] = L.accounts[k]
               /\ DOMAIN M.pending = DOMAIN L.pending /\ M.pending[id] = "expired"
               /\ \A x \in DOMAIN L.pending : x # id => M.pending[x] = L.pending[x]
               /\ p.debit # p.credit =>
                     \A k \in DOMAIN L.accounts : TotalsMove(M.accounts[k], L.accounts[k], k, p, 0, -p.amount)
<1> DEFINE p == L.transfers[id]
           void == [p EXCEPT !.kind = "VoidPending"]
           a == L.accounts[p.debit]
           b == L.accounts[p.credit]
           A == Update(Update(L.accounts, p.debit, Debit(a, void)), p.credit, Credit(b, void))
           P == [L.pending EXCEPT ![id] = "expired"]
           M == [L EXCEPT !.accounts = A, !.pending = P]
<1>1. IsEntry(p) /\ p.debit \in DOMAIN L.accounts /\ p.credit \in DOMAIN L.accounts /\ a \in Account /\ b \in Account
  BY DEF IsLedger
<1>2. void.kind = "VoidPending" /\ void.amount = p.amount
  <2>1. "kind" \in DOMAIN p /\ "amount" \in DOMAIN p
    <3>1. PICK q : q = [id |-> p.id, debit |-> p.debit, credit |-> p.credit, amount |-> p.amount,
                        kind |-> p.kind, pendingID |-> p.pendingID]
      OBVIOUS
    <3>2. p = q
      BY <1>1, <3>1 DEF IsEntry
    <3>3. "kind" \in DOMAIN q /\ "amount" \in DOMAIN q
      BY <3>1
    <3> QED BY <3>2, <3>3
  <2> HIDE DEF p
  <2> QED BY <2>1
<1>3. /\ PostedDelta(void) = 0 /\ PendingDelta(void) = -p.amount /\ p.amount \in Nat
  BY <1>1, <1>2 DEF PostedDelta, PendingDelta, IsEntry
<1> DEFINE d == [a EXCEPT !.debitsPosted = a.debitsPosted + 0, !.debitsPending = a.debitsPending + (-p.amount)]
           c == [b EXCEPT !.creditsPosted = b.creditsPosted + 0, !.creditsPending = b.creditsPending + (-p.amount)]
<1>4. Debit(a, void) = d /\ Credit(b, void) = c
  BY <1>3 DEF Debit, Credit
<1>5. /\ d \in Account /\ d.flags = a.flags /\ d.debitsPosted = a.debitsPosted
      /\ d.debitsPending = a.debitsPending - p.amount /\ d.creditsPosted = a.creditsPosted
      /\ d.creditsPending = a.creditsPending
  <2> DEFINE x == a.debitsPosted + 0
             y == a.debitsPending + (-p.amount)
  <2>1. x \in Int /\ y \in Int /\ x = a.debitsPosted /\ y = a.debitsPending - p.amount
    BY <1>1, <1>3 DEF Account
  <2> HIDE DEF x, y, a
  <2>2. /\ [a EXCEPT !.debitsPosted = x, !.debitsPending = y] \in Account
        /\ LET z == [a EXCEPT !.debitsPosted = x, !.debitsPending = y]
           IN  /\ z.flags = a.flags /\ z.debitsPosted = x /\ z.debitsPending = y
               /\ z.creditsPosted = a.creditsPosted /\ z.creditsPending = a.creditsPending
    BY <1>1, <2>1 DEF Account
  <2> QED BY <2>1, <2>2 DEF x, y
<1>6. /\ c \in Account /\ c.flags = b.flags /\ c.creditsPosted = b.creditsPosted
      /\ c.creditsPending = b.creditsPending - p.amount /\ c.debitsPosted = b.debitsPosted
      /\ c.debitsPending = b.debitsPending
  <2> DEFINE x == b.creditsPosted + 0
             y == b.creditsPending + (-p.amount)
  <2>1. x \in Int /\ y \in Int /\ x = b.creditsPosted /\ y = b.creditsPending - p.amount
    BY <1>1, <1>3 DEF Account
  <2> HIDE DEF x, y, b
  <2>2. /\ [b EXCEPT !.creditsPosted = x, !.creditsPending = y] \in Account
        /\ LET z == [b EXCEPT !.creditsPosted = x, !.creditsPending = y]
           IN  /\ z.flags = b.flags /\ z.creditsPosted = x /\ z.creditsPending = y
               /\ z.debitsPosted = b.debitsPosted /\ z.debitsPending = b.debitsPending
    BY <1>1, <2>1 DEF Account
  <2> QED BY <2>1, <2>2 DEF x, y
<1> HIDE DEF d, c
<1>7. ExpirePending(L, id) = M
  BY DEF ExpirePending
<1>8. /\ DOMAIN A = DOMAIN L.accounts /\ A[p.credit] = c
      /\ (p.debit # p.credit => A[p.debit] = d)
      /\ \A k \in DOMAIN L.accounts : k \notin {p.debit, p.credit} => A[k] = L.accounts[k]
  BY <1>1, <1>4 DEF Update
<1>9. DOMAIN P = DOMAIN L.pending /\ P[id] = "expired" /\ \A x \in DOMAIN L.pending : x # id => P[x] = L.pending[x]
  OBVIOUS
<1> HIDE DEF A, P
<1>10. /\ M.rule = L.rule /\ M.transfers = L.transfers /\ M.pending = P /\ M.accounts = A
       /\ DOMAIN M = {"rule", "accounts", "transfers", "pending"} /\ M = [f \in DOMAIN M |-> M[f]]
  BY DEF IsLedger
<1> HIDE DEF M
<1>11. \A k \in DOMAIN L.accounts : A[k] \in Account /\ A[k].flags = L.accounts[k].flags
  BY <1>1, <1>5, <1>6, <1>8 DEF IsLedger
<1>12. IsLedger(M)
  BY <1>8, <1>9, <1>10, <1>11 DEF IsLedger
<1>13. ASSUME WithinLimits(L), L.rule = "tigerbeetle", NEW k \in DOMAIN L.accounts
       PROVE  ~ExceedsCredits(L.rule, A[k]) /\ ~ExceedsDebits(L.rule, A[k])
  <2>1. ~ExceedsCredits(L.rule, L.accounts[k]) /\ ~ExceedsDebits(L.rule, L.accounts[k])
    BY <1>13 DEF WithinLimits
  <2>2. CASE k = p.credit
    BY <1>1, <1>3, <1>6, <1>8, <1>13, <2>1, <2>2 DEF ExceedsCredits, ExceedsDebits, Account
  <2>3. CASE k = p.debit /\ k # p.credit
    BY <1>1, <1>3, <1>5, <1>8, <1>13, <2>1, <2>3 DEF ExceedsCredits, ExceedsDebits, Account
  <2>4. CASE k \notin {p.debit, p.credit}
    BY <1>8, <2>1, <2>4
  <2> QED BY <2>2, <2>3, <2>4
<1>14. WithinLimits(L) => WithinLimits(M)
  BY <1>8, <1>10, <1>13 DEF WithinLimits
<1>15. ASSUME p.debit # p.credit, NEW k \in DOMAIN L.accounts PROVE TotalsMove(A[k], L.accounts[k], k, p, 0, -p.amount)
  <2>1. L.accounts[k] \in Account /\ p.amount \in Int
    BY <1>3 DEF IsLedger
  <2>2. CASE k = p.credit
    BY <1>1, <1>3, <1>6, <1>8, <1>15, <2>1, <2>2 DEF TotalsMove, Account
  <2>3. CASE k = p.debit /\ k # p.credit
    BY <1>1, <1>3, <1>5, <1>8, <1>15, <2>1, <2>3 DEF TotalsMove, Account
  <2>4. CASE k \notin {p.debit, p.credit}
    BY <1>8, <2>1, <2>4 DEF TotalsMove, Account
  <2> QED BY <2>2, <2>3, <2>4
<1> QED BY <1>7, <1>8, <1>9, <1>10, <1>11, <1>12, <1>14, <1>15

-----------------------------------------------------------------------------
(* The books: every total of an account is the sum of what the entries moved *)
(* or hold on it.                                                            *)

\* The entries that moved their money, and the reservations that are open.
InEffect(L) ==
    {id \in DOMAIN L.transfers : \/ L.transfers[id].kind = "Regular"
                                 \/ id \in DOMAIN L.pending /\ L.pending[id] = "posted"}
Held(L) == {id \in DOMAIN L.pending : L.pending[id] = "open"}

\* What each entry takes from account k, and what it brings.
DebitOn(L, k) == [id \in DOMAIN L.transfers |-> IF k = L.transfers[id].debit THEN L.transfers[id].amount ELSE 0]
CreditOn(L, k) == [id \in DOMAIN L.transfers |-> IF k = L.transfers[id].credit THEN L.transfers[id].amount ELSE 0]

BookedOn(L, k) ==
    /\ L.accounts[k].debitsPosted = SumOver(DebitOn(L, k), InEffect(L))
    /\ L.accounts[k].debitsPending = SumOver(DebitOn(L, k), Held(L))
    /\ L.accounts[k].creditsPosted = SumOver(CreditOn(L, k), InEffect(L))
    /\ L.accounts[k].creditsPending = SumOver(CreditOn(L, k), Held(L))

Booked(L) ==
    /\ IsFiniteSet(DOMAIN L.transfers)
    /\ \A id \in DOMAIN L.transfers : L.transfers[id].debit # L.transfers[id].credit
    /\ \A k \in DOMAIN L.accounts : BookedOn(L, k)

\* What an entry contributes is a natural number.
LEMMA SidesAreNat ==
    ASSUME NEW L, IsLedger(L), NEW k, NEW id \in DOMAIN L.transfers
    PROVE  DebitOn(L, k)[id] \in Nat /\ CreditOn(L, k)[id] \in Nat
BY DEF IsLedger, IsEntry, DebitOn, CreditOn

\* The entries in effect and the open reservations are finitely many.
LEMMA BooksAreFinite ==
    ASSUME NEW L, IsLedger(L), IsFiniteSet(DOMAIN L.transfers)
    PROVE  /\ IsFiniteSet(InEffect(L)) /\ IsFiniteSet(Held(L))
           /\ InEffect(L) \subseteq DOMAIN L.transfers /\ Held(L) \subseteq DOMAIN L.transfers
<1>1. InEffect(L) \in SUBSET (DOMAIN L.transfers) /\ Held(L) \in SUBSET (DOMAIN L.transfers)
  BY DEF InEffect, Held, IsLedger
<1> QED BY <1>1, FS_Subset

\* One side of the books, g before the step and h after it, when x is added.
LEMMA SumGains ==
    ASSUME NEW S, IsFiniteSet(S), NEW g, NEW h, \A y \in S : g[y] \in Nat /\ h[y] = g[y],
           NEW x, x \notin S, h[x] \in Nat
    PROVE  SumOver(h, S \union {x}) = SumOver(g, S) + h[x]
<1>1. \A y \in S : h[y] \in Int
  OBVIOUS
<1>2. SumOver(h, S \union {x}) = SumOver(h, S) + h[x]
  BY <1>1, SumWith
<1>3. SumOver(h, S) = SumOver(g, S)
  BY EqualSums
<1> QED BY <1>2, <1>3

\* The same when x is taken out.
LEMMA SumLoses ==
    ASSUME NEW S, IsFiniteSet(S), NEW g, NEW h, \A y \in S : g[y] \in Nat /\ h[y] = g[y], NEW x \in S,
           NEW v \in Nat, g[x] = v
    PROVE  SumOver(g, S) = SumOver(h, S \ {x}) + v /\ SumOver(h, S \ {x}) \in Int
<1>1. \A y \in S : g[y] \in Int
  OBVIOUS
<1>2. SumOver(g, S) = g[x] + SumOver(g, S \ {x})
  BY <1>1, SumWithout
<1>3. IsFiniteSet(S \ {x}) /\ \A y \in S \ {x} : h[y] = g[y] /\ g[y] \in Int
  BY FS_RemoveElement
<1>4. SumOver(h, S \ {x}) = SumOver(g, S \ {x})
  BY <1>3, EqualSums
<1>5. SumOver(g, S \ {x}) \in Int
  BY <1>3, SumType
<1> QED BY <1>1, <1>2, <1>4, <1>5

\* How one entry changes what is in effect and what is held: a post moves its
\* reservation from one to the other, a void only takes it out.
LEMMA EntryIsBooked ==
    ASSUME NEW L, IsLedger(L), IsFiniteSet(DOMAIN L.transfers), NEW t, IsEntry(t), Applies(L, t),
           NEW M, OneMore(M, L, t)
    PROVE  /\ t.id \notin DOMAIN L.transfers
           /\ t.kind = "Regular" => InEffect(M) = InEffect(L) \union {t.id} /\ Held(M) = Held(L)
           /\ t.kind = "Pending" => InEffect(M) = InEffect(L) /\ Held(M) = Held(L) \union {t.id}
           /\ t.kind = "PostPending" => /\ InEffect(M) = InEffect(L) \union {t.pendingID}
                                        /\ Held(M) = Held(L) \ {t.pendingID}
           /\ t.kind = "VoidPending" => InEffect(M) = InEffect(L) /\ Held(M) = Held(L) \ {t.pendingID}
           /\ Settles(t.kind) => /\ t.pendingID \in Held(L) /\ t.pendingID \in DOMAIN L.transfers
                                 /\ t.pendingID \notin InEffect(L)
<1>1. t.id \notin DOMAIN L.transfers /\ t.id \notin DOMAIN L.pending
  BY DEF Applies, Duplicate, IsLedger
<1>2. Settles(t.kind) => /\ t.pendingID \in DOMAIN L.pending /\ L.pending[t.pendingID] = "open"
                         /\ t.pendingID \in DOMAIN L.transfers /\ L.transfers[t.pendingID].kind = "Pending"
  BY DEF Applies, Settles, PendingMatches, IsLedger
<1>3. /\ DOMAIN M.transfers = DOMAIN L.transfers \union {t.id} /\ M.transfers[t.id] = t
      /\ \A id \in DOMAIN L.transfers : M.transfers[id] = L.transfers[id]
      /\ DOMAIN M.pending = DOMAIN L.pending \union (IF t.kind = "Pending" THEN {t.id} ELSE {})
      /\ \A id \in DOMAIN M.pending :
           M.pending[id] = IF t.kind = "Pending" /\ id = t.id THEN "open"
                           ELSE IF t.kind = "PostPending" /\ id = t.pendingID THEN "posted"
                           ELSE IF t.kind = "VoidPending" /\ id = t.pendingID THEN "voided"
                           ELSE L.pending[id]
  BY DEF OneMore
<1>4. DOMAIN L.pending \subseteq DOMAIN L.transfers
  BY DEF IsLedger
<1>5. CASE t.kind = "Regular"
  BY <1>1, <1>3, <1>4, <1>5 DEF InEffect, Held, Settles
<1>6. CASE t.kind = "Pending"
  BY <1>1, <1>3, <1>4, <1>6 DEF InEffect, Held, Settles
<1>7. CASE t.kind = "PostPending"
  BY <1>1, <1>2, <1>3, <1>4, <1>7 DEF InEffect, Held, Settles
<1>8. CASE t.kind = "VoidPending"
  BY <1>1, <1>2, <1>3, <1>4, <1>8 DEF InEffect, Held, Settles
<1> QED BY <1>5, <1>6, <1>7, <1>8 DEF IsEntry, Kinds

\* One side of the books after an entry that contributes v to it.
LEMMA SideIsBooked ==
    ASSUME NEW L, IsLedger(L), IsFiniteSet(DOMAIN L.transfers), NEW t, IsEntry(t), Applies(L, t),
           NEW M, OneMore(M, L, t), NEW g, NEW h,
           \A id \in DOMAIN L.transfers : g[id] \in Nat /\ h[id] = g[id],
           NEW v \in Nat, h[t.id] = v, Settles(t.kind) => g[t.pendingID] = v
    PROVE  /\ t.kind = "Regular" => /\ SumOver(h, InEffect(M)) = SumOver(g, InEffect(L)) + v
                                    /\ SumOver(h, Held(M)) = SumOver(g, Held(L))
           /\ t.kind = "Pending" => /\ SumOver(h, InEffect(M)) = SumOver(g, InEffect(L))
                                    /\ SumOver(h, Held(M)) = SumOver(g, Held(L)) + v
           /\ t.kind = "PostPending" => /\ SumOver(h, InEffect(M)) = SumOver(g, InEffect(L)) + v
                                        /\ SumOver(h, Held(M)) = SumOver(g, Held(L)) + (-v)
           /\ t.kind = "VoidPending" => /\ SumOver(h, InEffect(M)) = SumOver(g, InEffect(L))
                                        /\ SumOver(h, Held(M)) = SumOver(g, Held(L)) + (-v)
<1>1. PICK E, H, x, p : E = InEffect(L) /\ H = Held(L) /\ x = t.id /\ p = t.pendingID
  OBVIOUS
<1>2. /\ IsFiniteSet(E) /\ IsFiniteSet(H) /\ E \subseteq DOMAIN L.transfers /\ H \subseteq DOMAIN L.transfers
  BY <1>1, BooksAreFinite
<1>3. /\ x \notin DOMAIN L.transfers
      /\ t.kind = "Regular" => InEffect(M) = E \union {x} /\ Held(M) = H
      /\ t.kind = "Pending" => InEffect(M) = E /\ Held(M) = H \union {x}
      /\ t.kind = "PostPending" => InEffect(M) = E \union {p} /\ Held(M) = H \ {p}
      /\ t.kind = "VoidPending" => InEffect(M) = E /\ Held(M) = H \ {p}
      /\ Settles(t.kind) => p \in H /\ p \in DOMAIN L.transfers /\ p \notin E
  BY <1>1, EntryIsBooked
<1>4. \A y \in E : g[y] \in Nat /\ h[y] = g[y]
  BY <1>2
<1>5. \A y \in H : g[y] \in Nat /\ h[y] = g[y]
  BY <1>2
<1>6. SumOver(h, E) = SumOver(g, E)
  BY <1>2, <1>4, EqualSums
<1>7. SumOver(h, H) = SumOver(g, H)
  BY <1>2, <1>5, EqualSums
<1>8. h[x] = v /\ h[x] \in Nat /\ x \notin E /\ x \notin H
  BY <1>1, <1>2, <1>3
<1>9. SumOver(h, E \union {x}) = SumOver(g, E) + h[x]
  BY <1>2, <1>4, <1>8, SumGains
<1>10. SumOver(h, H \union {x}) = SumOver(g, H) + h[x]
  BY <1>2, <1>5, <1>8, SumGains
<1>11. ASSUME Settles(t.kind)
       PROVE  SumOver(h, E \union {p}) = SumOver(g, E) + v /\ SumOver(h, H \ {p}) = SumOver(g, H) + (-v)
  <2>1. p \in H /\ p \notin E /\ h[p] = v /\ g[p] = v /\ h[p] \in Nat
    BY <1>1, <1>3, <1>11
  <2>2. SumOver(h, E \union {p}) = SumOver(g, E) + h[p]
    BY <1>2, <1>4, <2>1, SumGains
  <2>3. SumOver(g, H) = SumOver(h, H \ {p}) + v /\ SumOver(h, H \ {p}) \in Int
    BY <1>2, <1>5, <2>1, SumLoses
  <2> QED BY <2>1, <2>2, <2>3
<1>12. CASE t.kind = "Regular"
  BY <1>1, <1>3, <1>7, <1>8, <1>9, <1>12
<1>13. CASE t.kind = "Pending"
  BY <1>1, <1>3, <1>6, <1>8, <1>10, <1>13
<1>14. CASE t.kind = "PostPending"
  BY <1>1, <1>3, <1>11, <1>14 DEF Settles
<1>15. CASE t.kind = "VoidPending"
  BY <1>1, <1>3, <1>6, <1>11, <1>15 DEF Settles
<1> QED BY <1>12, <1>13, <1>14, <1>15 DEF IsEntry, Kinds

\* One entry keeps the books (CreateTransfers).
LEMMA AppliedKeepsBooks ==
    ASSUME NEW L, IsLedger(L), Booked(L), NEW t, IsEntry(t), Applies(L, t), t.debit # t.credit
    PROVE  Booked(Applied(L, t))
<1>0. PICK M : M = Applied(L, t)
  OBVIOUS
<1>1. OneMore(M, L, t) /\ IsLedger(M)
  BY <1>0, AppliedIsLedger DEF OneMore
<1>2. /\ DOMAIN M.accounts = DOMAIN L.accounts
      /\ DOMAIN M.transfers = DOMAIN L.transfers \union {t.id} /\ M.transfers[t.id] = t
      /\ \A id \in DOMAIN L.transfers : M.transfers[id] = L.transfers[id]
  BY <1>1 DEF OneMore
<1>3. IsFiniteSet(DOMAIN L.transfers) /\ IsFiniteSet(DOMAIN M.transfers)
  BY <1>2, FS_AddElement DEF Booked
<1>4. \A id \in DOMAIN M.transfers : M.transfers[id].debit # M.transfers[id].credit
  BY <1>2 DEF Booked
<1>5. Settles(t.kind) => /\ t.pendingID \in DOMAIN L.transfers
                         /\ L.transfers[t.pendingID].debit = t.debit /\ L.transfers[t.pendingID].credit = t.credit
                         /\ L.transfers[t.pendingID].amount = t.amount
  BY DEF Applies, Settles, PendingMatches, IsLedger
<1>6. t.amount \in Nat /\ t.kind \in Kinds
  BY DEF IsEntry
<1>7. ASSUME NEW k \in DOMAIN M.accounts PROVE BookedOn(M, k)
  <2>1. PICK g, h, c, d : g = DebitOn(L, k) /\ h = DebitOn(M, k) /\ c = CreditOn(L, k) /\ d = CreditOn(M, k)
    OBVIOUS
  <2> DEFINE v == IF k = t.debit THEN t.amount ELSE 0
             w == IF k = t.credit THEN t.amount ELSE 0
  <2>2. \A id \in DOMAIN L.transfers : g[id] \in Nat /\ h[id] = g[id] /\ c[id] \in Nat /\ d[id] = c[id]
    <3>1. \A id \in DOMAIN L.transfers : g[id] \in Nat /\ c[id] \in Nat
      BY <2>1, SidesAreNat
    <3>2. \A id \in DOMAIN L.transfers : h[id] = g[id] /\ d[id] = c[id]
      BY <1>2, <2>1 DEF DebitOn, CreditOn
    <3> QED BY <3>1, <3>2
  <2>3. v \in Nat /\ w \in Nat
    BY <1>6
  <2>4. h[t.id] = v /\ d[t.id] = w
    BY <1>2, <2>1 DEF DebitOn, CreditOn
  <2>5. Settles(t.kind) => g[t.pendingID] = v /\ c[t.pendingID] = w
    BY <1>5, <2>1 DEF DebitOn, CreditOn
  <2>6. TotalsMove(M.accounts[k], L.accounts[k], k, t, PostedDelta(t), PendingDelta(t))
    BY <1>0, <1>2, AppliedMovesTotals
  <2>7. BookedOn(L, k) /\ L.accounts[k] \in Account
    BY <1>2 DEF Booked, IsLedger
  <2>8. PICK a, b : a = L.accounts[k] /\ b = M.accounts[k]
    OBVIOUS
  <2>9. /\ a.debitsPosted = SumOver(g, InEffect(L)) /\ a.debitsPending = SumOver(g, Held(L))
        /\ a.creditsPosted = SumOver(c, InEffect(L)) /\ a.creditsPending = SumOver(c, Held(L))
        /\ a \in Account
    BY <2>1, <2>7, <2>8 DEF BookedOn
  <2> HIDE DEF v, w
  <2>10. /\ t.kind = "Regular" => /\ SumOver(h, InEffect(M)) = SumOver(g, InEffect(L)) + v
                                  /\ SumOver(h, Held(M)) = SumOver(g, Held(L))
         /\ t.kind = "Pending" => /\ SumOver(h, InEffect(M)) = SumOver(g, InEffect(L))
                                  /\ SumOver(h, Held(M)) = SumOver(g, Held(L)) + v
         /\ t.kind = "PostPending" => /\ SumOver(h, InEffect(M)) = SumOver(g, InEffect(L)) + v
                                      /\ SumOver(h, Held(M)) = SumOver(g, Held(L)) + (-v)
         /\ t.kind = "VoidPending" => /\ SumOver(h, InEffect(M)) = SumOver(g, InEffect(L))
                                      /\ SumOver(h, Held(M)) = SumOver(g, Held(L)) + (-v)
    BY <1>1, <1>3, <2>2, <2>3, <2>4, <2>5, SideIsBooked
  <2>11. /\ t.kind = "Regular" => /\ SumOver(d, InEffect(M)) = SumOver(c, InEffect(L)) + w
                                  /\ SumOver(d, Held(M)) = SumOver(c, Held(L))
         /\ t.kind = "Pending" => /\ SumOver(d, InEffect(M)) = SumOver(c, InEffect(L))
                                  /\ SumOver(d, Held(M)) = SumOver(c, Held(L)) + w
         /\ t.kind = "PostPending" => /\ SumOver(d, InEffect(M)) = SumOver(c, InEffect(L)) + w
                                      /\ SumOver(d, Held(M)) = SumOver(c, Held(L)) + (-w)
         /\ t.kind = "VoidPending" => /\ SumOver(d, InEffect(M)) = SumOver(c, InEffect(L))
                                      /\ SumOver(d, Held(M)) = SumOver(c, Held(L)) + (-w)
    BY <1>1, <1>3, <2>2, <2>3, <2>4, <2>5, SideIsBooked
  <2>12. /\ b.debitsPosted = a.debitsPosted + (IF t.kind \in {"Regular", "PostPending"} THEN v ELSE 0)
         /\ b.creditsPosted = a.creditsPosted + (IF t.kind \in {"Regular", "PostPending"} THEN w ELSE 0)
         /\ b.debitsPending = a.debitsPending + (IF t.kind = "Pending" THEN v ELSE IF Settles(t.kind) THEN -v ELSE 0)
         /\ b.creditsPending = a.creditsPending + (IF t.kind = "Pending" THEN w ELSE IF Settles(t.kind) THEN -w ELSE 0)
    BY <1>6, <2>6, <2>8 DEF TotalsMove, PostedDelta, PendingDelta, v, w, Settles, Kinds
  <2>13. /\ b.debitsPosted = SumOver(h, InEffect(M)) /\ b.debitsPending = SumOver(h, Held(M))
         /\ b.creditsPosted = SumOver(d, InEffect(M)) /\ b.creditsPending = SumOver(d, Held(M))
    BY ONLY <1>6, <2>3, <2>9, <2>10, <2>11, <2>12 DEF Kinds, Settles, Account
  <2> QED BY <2>1, <2>8, <2>13 DEF BookedOn
<1> QED BY <1>0, <1>3, <1>4, <1>7 DEF Booked

\* A batch keeps the books.
LEMMA BatchKeepsBooks ==
    ASSUME NEW L, IsLedger(L), Booked(L), NEW batch, IsBatch(batch),
           \A i \in DOMAIN batch : batch[i].debit # batch[i].credit
    PROVE  Booked(CreateTransfers(L, batch).ledger)
<1> DEFINE N == Len(batch)
           R == Runs(L, batch)
           Good(n) == IsRun(R[n]) /\ IsLedger(R[n].ledger) /\ Booked(R[n].ledger)
           S == {n \in Nat : n <= N => Good(n)}
<1>0. N \in Nat /\ DOMAIN batch = 1..N
  BY DEF IsBatch
<1>1. 0 \in S
  <2>1. PICK run : run = [ok |-> TRUE, ledger |-> L]
    OBVIOUS
  <2>2. run.ledger = L /\ IsRun(run) /\ R[0] = run
    BY <1>0, <2>1, RunsStart DEF IsRun
  <2> HIDE DEF R
  <2> QED BY <2>2
<1>2. ASSUME NEW m \in Nat, m \in S PROVE m + 1 \in S
  <2> SUFFICES ASSUME m + 1 <= N PROVE Good(m + 1)
    <3> HIDE DEF Good
    <3> QED OBVIOUS
  <2>1. m + 1 \in 1..N /\ (m + 1) - 1 = m /\ m <= N /\ m + 1 \in DOMAIN batch
    BY <1>0
  <2>2. Good(m)
    BY <1>2, <2>1
  <2>3. R[m + 1] = ApplyTransfer(R[m], batch[m + 1])
    BY <1>0, <2>1, RunsStep
  <2>4. PICK run, K, next, t : run = R[m] /\ K = run.ledger /\ next = R[m + 1] /\ t = batch[m + 1]
    OBVIOUS
  <2> HIDE DEF R
  <2>5. IsRun(run) /\ IsLedger(K) /\ Booked(K) /\ IsEntry(t) /\ t.debit # t.credit
    BY <2>1, <2>2, <2>4 DEF IsBatch
  <2>6. IsRun(next) /\ (next.ledger = K \/ (Applies(K, t) /\ next.ledger = Applied(K, t)))
    BY <2>3, <2>4, <2>5, ApplyCases
  <2>7. Applies(K, t) => IsLedger(Applied(K, t)) /\ Booked(Applied(K, t))
    BY <2>5, AppliedIsLedger, AppliedKeepsBooks DEF OneMore
  <2> QED BY <2>4, <2>5, <2>6, <2>7
<1> HIDE DEF S
<1>3. N \in S
  BY <1>0, <1>1, <1>2, SetInduction
<1>4. Booked(R[N].ledger)
  BY <1>0, <1>3 DEF S
<1> HIDE DEF R
<1>5. CreateTransfers(L, batch) = R[N] \/ CreateTransfers(L, batch) = [ok |-> FALSE, ledger |-> L]
  BY DEF CreateTransfers, R
<1>6. [ok |-> FALSE, ledger |-> L].ledger = L
  OBVIOUS
<1> QED BY <1>4, <1>5, <1>6

\* Totals that are booked are natural numbers.
LEMMA BookedIsNat ==
    ASSUME NEW L, IsLedger(L), Booked(L), NEW k \in DOMAIN L.accounts
    PROVE  LET a == L.accounts[k]
           IN  {a.debitsPosted, a.creditsPosted, a.debitsPending, a.creditsPending} \subseteq Nat
<1>1. PICK g, c, E, H : g = DebitOn(L, k) /\ c = CreditOn(L, k) /\ E = InEffect(L) /\ H = Held(L)
  OBVIOUS
<1>2. /\ IsFiniteSet(E) /\ IsFiniteSet(H) /\ E \subseteq DOMAIN L.transfers /\ H \subseteq DOMAIN L.transfers
  BY <1>1, BooksAreFinite DEF Booked
<1>3. (\A id \in E : g[id] \in Nat /\ c[id] \in Nat) /\ \A id \in H : g[id] \in Nat /\ c[id] \in Nat
  BY <1>1, <1>2, SidesAreNat
<1>4. SumOver(g, E) \in Nat /\ SumOver(c, E) \in Nat
  BY <1>2, <1>3, SumType
<1>5. SumOver(g, H) \in Nat /\ SumOver(c, H) \in Nat
  BY <1>2, <1>3, SumType
<1> QED BY <1>1, <1>4, <1>5 DEF Booked, BookedOn

\* No entry, no money: accounts that are all new.
LEMMA NothingIsBooked ==
    ASSUME NEW L, DOMAIN L.transfers = {}, DOMAIN L.pending = {},
           \A k \in DOMAIN L.accounts : \E flags : L.accounts[k] = NewAccount(flags)
    PROVE  Booked(L)
<1>1. InEffect(L) = {} /\ Held(L) = {}
  BY DEF InEffect, Held
<1>2. \A flags : LET a == NewAccount(flags)
                 IN  a.debitsPosted = 0 /\ a.debitsPending = 0 /\ a.creditsPosted = 0 /\ a.creditsPending = 0
  BY DEF NewAccount
<1>3. \A k \in DOMAIN L.accounts : BookedOn(L, k)
  BY <1>1, <1>2, EmptySum DEF BookedOn
<1>4. IsFiniteSet(DOMAIN L.transfers)
  BY FS_EmptySet
<1> QED BY <1>3, <1>4 DEF Booked

\* A new account has no entries (CreateAccounts).
LEMMA AccountIsBooked ==
    ASSUME NEW L, IsLedger(L), Booked(L), NEW id, NEW flags \in Flags
    PROVE  Booked(CreateAccounts(L, id, flags).ledger)
<1>1. PICK M : M = CreateAccounts(L, id, flags).ledger
  OBVIOUS
<1>2. /\ M.transfers = L.transfers /\ M.pending = L.pending
      /\ DOMAIN M.accounts = DOMAIN L.accounts \union {id}
      /\ \A k \in DOMAIN L.accounts : M.accounts[k] = L.accounts[k]
      /\ id \notin DOMAIN L.accounts => M.accounts[id] = NewAccount(flags)
  BY <1>1, AccountIsCreated
<1>3. InEffect(M) = InEffect(L) /\ Held(M) = Held(L) /\ \A k : DebitOn(M, k) = DebitOn(L, k) /\ CreditOn(M, k) = CreditOn(L, k)
  BY <1>2 DEF InEffect, Held, DebitOn, CreditOn
<1>4. ASSUME NEW k \in DOMAIN M.accounts PROVE BookedOn(M, k)
  <2>1. CASE k \in DOMAIN L.accounts
    BY <1>2, <1>3, <2>1 DEF Booked, BookedOn
  <2>2. CASE k \notin DOMAIN L.accounts
    <3>1. PICK g, c, E, H : g = DebitOn(L, k) /\ c = CreditOn(L, k) /\ E = InEffect(L) /\ H = Held(L)
      OBVIOUS
    <3>2. /\ IsFiniteSet(E) /\ IsFiniteSet(H) /\ E \subseteq DOMAIN L.transfers /\ H \subseteq DOMAIN L.transfers
      BY <3>1, BooksAreFinite DEF Booked
    <3>3. \A x \in DOMAIN L.transfers : g[x] = 0 /\ c[x] = 0
      BY <2>2, <3>1 DEF DebitOn, CreditOn, IsLedger
    <3>4. SumOver(g, E) = 0 /\ SumOver(c, E) = 0
      BY <3>2, <3>3, SumOfZeros
    <3>5. SumOver(g, H) = 0 /\ SumOver(c, H) = 0
      BY <3>2, <3>3, SumOfZeros
    <3>6. LET a == NewAccount(flags)
          IN  a.debitsPosted = 0 /\ a.debitsPending = 0 /\ a.creditsPosted = 0 /\ a.creditsPending = 0
      BY DEF NewAccount
    <3>7. k = id /\ M.accounts[k] = NewAccount(flags)
      BY <1>2, <2>2
    <3> QED BY <1>3, <3>1, <3>4, <3>5, <3>6, <3>7 DEF BookedOn
  <2> QED BY <2>1, <2>2
<1> QED BY <1>1, <1>2, <1>4 DEF Booked

\* A reservation that times out is held no longer.
LEMMA ExpiryKeepsBooks ==
    ASSUME NEW L, IsLedger(L), Booked(L), NEW id \in DOMAIN L.pending, L.pending[id] = "open"
    PROVE  Booked(ExpirePending(L, id))
<1>1. PICK M, p : M = ExpirePending(L, id) /\ p = L.transfers[id]
  OBVIOUS
<1>2. p.debit # p.credit /\ p.amount \in Nat /\ id \in DOMAIN L.transfers /\ p.kind = "Pending"
  BY <1>1 DEF Booked, IsLedger, IsEntry
<1>3. /\ M.transfers = L.transfers /\ DOMAIN M.accounts = DOMAIN L.accounts
      /\ DOMAIN M.pending = DOMAIN L.pending /\ M.pending[id] = "expired"
      /\ \A x \in DOMAIN L.pending : x # id => M.pending[x] = L.pending[x]
      /\ \A k \in DOMAIN L.accounts : TotalsMove(M.accounts[k], L.accounts[k], k, p, 0, -p.amount)
  BY <1>1, <1>2, ReservationExpires
<1>4. InEffect(M) = InEffect(L) /\ Held(M) = Held(L) \ {id} /\ id \in Held(L)
  BY <1>1, <1>2, <1>3 DEF InEffect, Held
<1>5. \A k : DebitOn(M, k) = DebitOn(L, k) /\ CreditOn(M, k) = CreditOn(L, k)
  BY <1>3 DEF DebitOn, CreditOn
<1>6. ASSUME NEW k \in DOMAIN L.accounts PROVE BookedOn(M, k)
  <2>1. PICK g, c, H, a, b : /\ g = DebitOn(L, k) /\ c = CreditOn(L, k) /\ H = Held(L)
                             /\ a = L.accounts[k] /\ b = M.accounts[k]
    OBVIOUS
  <2>2. IsFiniteSet(H) /\ H \subseteq DOMAIN L.transfers
    BY <2>1, BooksAreFinite DEF Booked
  <2>3. \A x \in H : g[x] \in Nat /\ c[x] \in Nat
    BY <2>1, <2>2, SidesAreNat
  <2> DEFINE v == IF k = p.debit THEN p.amount ELSE 0
             w == IF k = p.credit THEN p.amount ELSE 0
  <2>4. v \in Nat /\ w \in Nat /\ g[id] = v /\ c[id] = w /\ id \in H
    BY <1>1, <1>2, <1>4, <2>1 DEF DebitOn, CreditOn
  <2>5. b.debitsPosted = a.debitsPosted + 0 /\ b.creditsPosted = a.creditsPosted + 0
        /\ b.debitsPending = a.debitsPending + (-v) /\ b.creditsPending = a.creditsPending + (-w)
    BY <1>2, <1>3, <2>1 DEF TotalsMove
  <2> HIDE DEF v, w
  <2>6. SumOver(g, H) = SumOver(g, H \ {id}) + v /\ SumOver(g, H \ {id}) \in Int
    BY <2>2, <2>3, <2>4, SumLoses
  <2>7. SumOver(c, H) = SumOver(c, H \ {id}) + w /\ SumOver(c, H \ {id}) \in Int
    BY <2>2, <2>3, <2>4, SumLoses
  <2>8. a \in Account /\ BookedOn(L, k)
    BY <2>1 DEF Booked, IsLedger
  <2>9. /\ a.debitsPending = SumOver(g, H) /\ a.creditsPending = SumOver(c, H)
        /\ a.debitsPosted = SumOver(g, InEffect(L)) /\ a.creditsPosted = SumOver(c, InEffect(L))
    BY <2>1, <2>8 DEF BookedOn
  <2>10. b.debitsPending = SumOver(g, H \ {id}) /\ b.creditsPending = SumOver(c, H \ {id})
    BY <2>4, <2>5, <2>6, <2>7, <2>9
  <2>11. b.debitsPosted = SumOver(g, InEffect(L)) /\ b.creditsPosted = SumOver(c, InEffect(L))
    BY <2>5, <2>8, <2>9 DEF Account
  <2> QED BY <1>4, <1>5, <2>1, <2>10, <2>11 DEF BookedOn
<1> QED BY <1>1, <1>3, <1>6 DEF Booked
=============================================================================
