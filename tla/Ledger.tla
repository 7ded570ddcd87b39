------------------------------- MODULE Ledger -------------------------------
(***************************************************************************)
(* The ledger of go/internal/ledger as its Client interface shows it:       *)
(* accounts with two optional limits, two-phase transfers, idempotent ids   *)
(* and linked batches that apply as a whole or not at all.  The operators   *)
(* are pure: they take a ledger and return the outcome and the next ledger. *)
(*                                                                          *)
(* FakeClient is the repository's executable definition.  It and            *)
(* TigerBeetle (which RealClient calls) part in two rules, the "rule" of a  *)
(* ledger: whether a credit that is only pending can already be spent, and  *)
(* whether an entry that exists breaks the linked batch it is in.           *)
(*                                                                          *)
(* Every batch the services submit is one linked run, so a batch here is a  *)
(* run.  Currency is left out: there is one ledger, USD.                    *)
(***************************************************************************)
EXTENDS Integers, Sequences

Rules == {"fake", "tigerbeetle"}

-----------------------------------------------------------------------------
(* Accounts.                                                                *)

\* The account flags of a Token from its Wallet's Allows policy.
AllowsToAccountFlags(allows) ==
    [creditsMustNotExceedDebits |-> allows = "ONRAMP",
     debitsMustNotExceedCredits |-> allows \in {"OFFRAMP", "NONE"}]

NewAccount(flags) ==
    [flags |-> flags, debitsPosted |-> 0, creditsPosted |-> 0,
     debitsPending |-> 0, creditsPending |-> 0]

EmptyLedger(rule) ==
    [rule |-> rule, accounts |-> << >>, transfers |-> << >>, pending |-> << >>]

Update(f, k, v) == [x \in DOMAIN f \union {k} |-> IF x = k THEN v ELSE f[x]]

\* One account at a time is all MintWrites ever asks for: an id that exists is
\* a success when its flags agree and a conflict when they differ.
CreateAccounts(L, id, flags) ==
    IF id \in DOMAIN L.accounts
      THEN [ok |-> L.accounts[id].flags = flags, ledger |-> L]
      ELSE [ok |-> TRUE,
            ledger |-> [L EXCEPT !.accounts = Update(@, id, NewAccount(flags))]]

\* Posted credits minus posted debits; a reservation does not count.
AccountBalance(L, id) == L.accounts[id].creditsPosted - L.accounts[id].debitsPosted

-----------------------------------------------------------------------------
(* Transfers.  A transfer is [id, debit, credit, amount, kind, pendingID].  *)

\* How the totals of both sides change.
PostedDelta(t) == IF t.kind \in {"Regular", "PostPending"} THEN t.amount ELSE 0

PendingDelta(t) ==
    CASE t.kind = "Pending" -> t.amount
      [] t.kind \in {"PostPending", "VoidPending"} -> -t.amount
      [] OTHER -> 0

Debit(a, t) == [a EXCEPT !.debitsPosted = @ + PostedDelta(t),
                         !.debitsPending = @ + PendingDelta(t)]
Credit(a, t) == [a EXCEPT !.creditsPosted = @ + PostedDelta(t),
                          !.creditsPending = @ + PendingDelta(t)]

\* Mutant: reservations are not counted against the limit.
ExceedsCredits_ReservationsIgnored(rule, a) ==
    /\ a.flags.debitsMustNotExceedCredits
    /\ a.debitsPosted > a.creditsPosted

\* Mutant: what was already posted is not counted against the limit.
ExceedsCredits_PostedIgnored(rule, a) ==
    /\ a.flags.debitsMustNotExceedCredits
    /\ a.debitsPending > a.creditsPosted

\* The two limits.  FakeClient adds what is pending on the other side,
\* TigerBeetle does not.
ExceedsCredits(rule, a) ==
    /\ a.flags.debitsMustNotExceedCredits
    /\ a.debitsPosted + a.debitsPending
         > a.creditsPosted + (IF rule = "fake" THEN a.creditsPending ELSE 0)
ExceedsDebits(rule, a) ==
    /\ a.flags.creditsMustNotExceedDebits
    /\ a.creditsPosted + a.creditsPending
         > a.debitsPosted + (IF rule = "fake" THEN a.debitsPending ELSE 0)

\* A post or a void must name a reservation that is open and agrees with it.
PendingMatches(L, t) ==
    /\ t.pendingID \in DOMAIN L.pending
    /\ L.pending[t.pendingID] = "open"
    /\ LET p == L.transfers[t.pendingID]
       IN  <<p.debit, p.credit, p.amount>> = <<t.debit, t.credit, t.amount>>

PendingAfter(L, t) ==
    CASE t.kind = "Pending"     -> Update(L.pending, t.id, "open")
      [] t.kind = "PostPending" -> Update(L.pending, t.pendingID, "posted")
      [] t.kind = "VoidPending" -> Update(L.pending, t.pendingID, "voided")
      [] OTHER                  -> L.pending

\* Mutant: an id may be used again.
Duplicate_Never(L, t) == FALSE

\* A transfer id is applied once; submitting it again finds it.
Duplicate(L, t) == t.id \in DOMAIN L.transfers

\* One entry of a run on the totals the entries before it left.
ApplyTransfer(run, t) ==
    LET L == run.ledger
        debit == Debit(L.accounts[t.debit], t)
        credit == Credit(L.accounts[t.credit], t)
        refused == [run EXCEPT !.ok = FALSE]
    IN  IF Duplicate(L, t)
          THEN IF L.transfers[t.id] = t THEN run ELSE refused
        ELSE IF \/ {t.debit, t.credit} \ DOMAIN L.accounts # {}
                \/ t.kind \in {"PostPending", "VoidPending"} /\ ~PendingMatches(L, t)
          THEN refused
        ELSE IF ExceedsCredits(L.rule, debit) \/ ExceedsDebits(L.rule, credit)
          THEN refused
        ELSE [run EXCEPT !.ledger =
                [L EXCEPT !.accounts = Update(Update(@, t.debit, debit), t.credit, credit),
                          !.transfers = Update(@, t.id, t),
                          !.pending = PendingAfter(L, t)]]

\* A run after each of its entries.
Runs(L, batch) ==
    LET run[n \in 0..Len(batch)] ==
          IF n = 0 THEN [ok |-> TRUE, ledger |-> L] ELSE ApplyTransfer(run[n - 1], batch[n])
    IN  run

\* Mutant: the entries of a batch are not linked.
CreateTransfers_Unlinked(L, batch) == Runs(L, batch)[Len(batch)]

\* FakeClient goes on after an entry that exists.  TigerBeetle breaks the chain
\* on every result but OK and answers linked_event_failed for its other entries.
ChainBroken(L, batch) ==
    /\ L.rule = "tigerbeetle"
    /\ Len(batch) > 1
    /\ \E i \in DOMAIN batch : Duplicate(L, batch[i])

\* A linked batch: "ok" when every result is OK or Exists, which is all that
\* submitBatch asks; otherwise nothing of it is applied.
CreateTransfers(L, batch) ==
    LET run == Runs(L, batch)[Len(batch)]
    IN  IF run.ok /\ ~ChainBroken(L, batch) THEN run ELSE [ok |-> FALSE, ledger |-> L]

\* A reservation that was neither posted nor voided times out: TigerBeetle
\* gives the amounts back (external; FakeClient keeps no timeouts).
ExpirePending(L, id) ==
    LET p == L.transfers[id]
        void == [p EXCEPT !.kind = "VoidPending"]
    IN  [L EXCEPT !.accounts = Update(Update(@, p.debit, Debit(@[p.debit], void)),
                                      p.credit, Credit(@[p.credit], void)),
                  !.pending[id] = "expired"]
=============================================================================
