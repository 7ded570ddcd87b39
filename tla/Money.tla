-------------------------------- MODULE Money --------------------------------
(***************************************************************************)
(* Money moving through the backend: Tokens minted into Wallets             *)
(* (go/internal/token), source Tokens selected by balance                   *)
(* (transfer/manifest.go over wallet/tokens.go), and several Transfers and  *)
(* Reversals with amounts competing for the same Tokens on one Ledger.      *)
(*                                                                          *)
(* TransferSaga examines the calls that race over ONE Transfer; here every  *)
(* Transfer has one driver at a time and the drivers of different Transfers *)
(* (and Mint calls) interleave at every store and ledger round trip.  The   *)
(* Operation streams are left to TransferSaga, but for one thing they decide: *)
(* a prepared Transfer whose cancellation died half-way has cancelled       *)
(* Operations and can only be cancelled ("withdrawing").                    *)
(***************************************************************************)
EXTENDS Ledger, FiniteSetsExt

CONSTANTS
    Wallets,         \* ids of Wallets, opened or not
    Transactions,    \* Transactions that exist
    NoTransaction,   \* the empty transaction_id
    Funded,          \* Transfers that are committed when the model starts
    Transfers,       \* ids of the Transfers requested from then on
    Mints,           \* calls of TokenService.Mint
    Scenarios,       \* what is requested: see MCMoney
    MaxTokens,       \* bound on Token ids the saga draws
    MaxMintAttempts, \* maxAttempts of token.Mint
    MaxCrashes       \* bound on calls that die half-way

AllTransfers == Funded \union Transfers

\* What is asked of the services: the handlers have found ids and amounts valid.
Request(r) ==
    \/ r.kind = "none"
    \/ r.kind = "reversal" /\ r.of \in AllTransfers /\ r.stage \in BOOLEAN
    \/ /\ r.kind = "forward"
       /\ {r.from, r.to} \subseteq Wallets
       /\ r.amount \in Nat \ {0}
       /\ {r.stage, r.mintSource} \subseteq BOOLEAN

\* The streams when the model starts: a Wallet that is open lists its Tokens.
Streams(s) ==
    /\ \A k \in DOMAIN s.minted : s.minted[k].wallet \in Wallets
    /\ DOMAIN s.listing = Wallets
    /\ \A w \in Wallets :
          /\ s.listing[w] \in Seq([token : {k \in DOMAIN s.minted : s.minted[k].wallet = w},
                                   tag : Transactions \union {NoTransaction}])
          /\ \A k \in DOMAIN s.minted : s.minted[k].wallet = w =>
                \E i \in DOMAIN s.listing[w] : s.listing[w][i].token = k
          /\ \A i, j \in DOMAIN s.listing[w] : s.listing[w][i].token = s.listing[w][j].token => i = j
          /\ s.allows[w] = "UNOPENED" => s.listing[w] = << >>

\* The committed Transfers move money between existing Tokens, each into Tokens
\* of its own: planDestinations had drawn a new one.
Funding(s) ==
    /\ s.funding \in Seq([id : Funded,
                          legs : Seq([source : DOMAIN s.minted, dest : DOMAIN s.minted, amount : Nat])])
    /\ \A t \in Funded : \E n \in DOMAIN s.funding : s.funding[n].id = t
    /\ \A m, n \in DOMAIN s.funding : s.funding[m].id = s.funding[n].id => m = n
    /\ \A n \in DOMAIN s.funding : \A i \in DOMAIN s.funding[n].legs :
          LET l == s.funding[n].legs[i]
          IN  /\ l.amount > 0 /\ l.source # l.dest
              /\ \A m \in DOMAIN s.funding : \A j \in DOMAIN s.funding[m].legs :
                    s.funding[m].legs[j].dest = l.dest => m = n

ASSUME MoneyAssumption ==
    /\ Funded \intersect Transfers = {}
    /\ NoTransaction \notin Transactions
    /\ MaxTokens \in Nat
    /\ MaxMintAttempts \in Nat \ {0}
    /\ MaxCrashes \in Nat
    /\ \A s \in Scenarios :
          /\ s.rule \in Rules
          /\ DOMAIN s.allows = Wallets
          /\ Streams(s) /\ Funding(s)
          /\ \A t \in Transfers : Request(s.requests[t])
          /\ \A k \in Mints : s.mints[k].wallet \in Wallets

VARIABLES
    scenario,  \* the requests of this behaviour: constant
    ledger,    \* a Ledger
    listing,   \* per Wallet, its TokenMintedForWallet events: [token, tag]
    minted,    \* Token streams: per minted Token, [wallet, capacity]
    open,      \* Transactions that have not reached a terminal state
    state,     \* per Transfer, currentState of its stream; its three ways to be
               \* cancelled are "abandoned" (AcceptedTransferCancelled),
               \* "withdrawn" (PreparedTransferCancelled) and "cancelled"
    legs,      \* per Transfer, the manifest its TransferPrepared recorded
    call,      \* per Transfer, its driver's program counter and locals
    mint,      \* per Mint call, its program counter and locals
    crashes

vars == <<scenario, ledger, listing, minted, open, state, legs, call, mint, crashes>>

\* The policy its WalletOpened recorded, or "UNOPENED" without one.
allows == scenario.allows
Opened(w) == allows[w] # "UNOPENED"
req(t) == scenario.requests[t]

-----------------------------------------------------------------------------
(* Reading the streams.                                                     *)

\* Mutant: the tag is ignored.
Visible_TagIgnored(entry, tx) == TRUE

\* A Token tagged with another, still open Transaction is hidden.
Visible(entry, tx) ==
    \/ entry.tag \in {NoTransaction, tx}
    \/ entry.tag \notin open

\* The visible Tokens of a Wallet, by their place in mint order.
TokensOfVisibleTo(w, tx) == {n \in DOMAIN listing[w] : Visible(listing[w][n], tx)}

\* mint_source needs a Transaction that exists and a Wallet that lets money in.
ValidMintSource(r) ==
    /\ r.tx \in Transactions
    /\ allows[r.from] \in {"ONRAMP", "ONRAMP_AND_OFFRAMP"}

\* The legs of the original the other way round, provided it is committed.
Reversible(t) == state[t] = "committed"
reversalManifest(t) ==
    [i \in DOMAIN legs[t] |->
        [source |-> legs[t][i].dest, dest |-> legs[t][i].source, amount |-> legs[t][i].amount]]

Total(ls) ==
    LET sum[n \in 0..Len(ls)] == IF n = 0 THEN 0 ELSE sum[n - 1] + ls[n].amount
    IN  sum[Len(ls)]

-----------------------------------------------------------------------------
(* Batches: one entry per leg, linked.  An Operation's id is the id of its   *)
(* ledger transfer; post and void derive theirs from it.                     *)

OpID(t, i) == <<t, i, "op">>

Batch(t, kind) ==
    [i \in DOMAIN legs[t] |->
        [id        |-> CASE kind = "PostPending" -> <<t, i, "post">>
                         [] kind = "VoidPending" -> <<t, i, "void">>
                         [] OTHER                -> OpID(t, i),
         debit     |-> legs[t][i].source,
         credit    |-> legs[t][i].dest,
         amount    |-> legs[t][i].amount,
         kind      |-> kind,
         pendingID |-> IF kind \in {"PostPending", "VoidPending"} THEN OpID(t, i)
                                                                  ELSE << >>]]

-----------------------------------------------------------------------------
(* Drivers.                                                                  *)

Idle == [pc |-> "idle"]
Saga == [pc |-> "runSaga"]

Goto(t, record) == call' = [call EXCEPT ![t] = record]

\* selectSourceTokens: read the Wallet's stream once, then balance by balance.
StartSelect(t, pc) ==
    Goto(t, [pc |-> pc, todo |-> TokensOfVisibleTo(req(t).from, req(t).tx),
             left |-> req(t).amount, legs |-> << >>])

Selecting == {"accept", "prepare"}

SelectionDone(c) == c.left = 0 \/ c.todo = {}

\* Mutant: a leg takes the whole Token.
SelectToken_TakesAll(t) ==
    /\ call[t].pc \in Selecting
    /\ ~SelectionDone(call[t])
    /\ LET c == call[t]
           n == Min(c.todo)
           token == listing[req(t).from][n].token
           balance == AccountBalance(ledger, token)
       IN  Goto(t, [c EXCEPT !.todo = @ \ {n},
                             !.left = IF balance <= 0 THEN @ ELSE Max({0, @ - balance}),
                             !.legs = IF balance <= 0 THEN @
                                      ELSE Append(@, [source |-> token, amount |-> balance])])
    /\ UNCHANGED <<scenario, ledger, listing, minted, open, state, legs, mint, crashes>>

\* Read one balance and take what is there, at most what is still missing.
SelectToken(t) ==
    /\ call[t].pc \in Selecting
    /\ ~SelectionDone(call[t])
    /\ LET c == call[t]
           n == Min(c.todo)
           token == listing[req(t).from][n].token
           balance == AccountBalance(ledger, token)
           take == Min({balance, c.left})
       IN  Goto(t, [c EXCEPT !.todo = @ \ {n},
                             !.left = IF balance <= 0 THEN @ ELSE @ - take,
                             !.legs = IF balance <= 0 THEN @
                                      ELSE Append(@, [source |-> token, amount |-> take])])
    /\ UNCHANGED <<scenario, ledger, listing, minted, open, state, legs, mint, crashes>>

\* RequestTransfer of an id without a stream: select, or check the mint.
RequestTransfer(t) ==
    /\ call[t] = Idle
    /\ state[t] = "none"
    /\ req(t).kind = "forward"
    /\ IF req(t).mintSource
         THEN /\ state' = [state EXCEPT ![t] = IF ValidMintSource(req(t)) THEN "accepted" ELSE "rejected"]
              /\ Goto(t, IF ValidMintSource(req(t)) THEN Saga ELSE Idle)
         ELSE StartSelect(t, "accept") /\ UNCHANGED state
    /\ UNCHANGED <<scenario, ledger, listing, minted, open, legs, mint, crashes>>

\* The first event of the stream: accepted if the Tokens read cover the amount.
DecideTransfer(t) ==
    /\ call[t].pc = "accept"
    /\ SelectionDone(call[t])
    /\ state' = [state EXCEPT ![t] = IF call[t].left = 0 THEN "accepted" ELSE "rejected"]
    /\ Goto(t, IF call[t].left = 0 THEN Saga ELSE Idle)
    /\ UNCHANGED <<scenario, ledger, listing, minted, open, legs, mint, crashes>>

RequestReversal(t) ==
    /\ call[t] = Idle
    /\ state[t] = "none"
    /\ req(t).kind = "reversal"
    /\ state' = [state EXCEPT ![t] = IF Reversible(req(t).of) THEN "accepted" ELSE "rejected"]
    /\ Goto(t, IF Reversible(req(t).of) THEN Saga ELSE Idle)
    /\ UNCHANGED <<scenario, ledger, listing, minted, open, legs, mint, crashes>>

\* The request is repeated after its driver died or gave up.
ResumeSaga(t) ==
    /\ call[t] = Idle
    /\ state[t] \in {"accepted", "prepared", "withdrawing"}
    /\ Goto(t, Saga)
    /\ UNCHANGED <<scenario, ledger, listing, minted, open, state, legs, mint, crashes>>

-----------------------------------------------------------------------------
(* prepare: reselect, mint, and create every stream in one AppendAtomic.     *)

\* Ids the saga draws itself are new: nothing knows them yet.
Fresh == CHOOSE n \in 1..MaxTokens : n \notin DOMAIN ledger.accounts
CanDraw == \E n \in 1..MaxTokens : n \notin DOMAIN ledger.accounts

FlagsOf(w) == AllowsToAccountFlags(allows[w])

\* The account of a new Token, and the two streams its mint will write: the
\* Wallet's is expected to be as long as it is now.  Loading the Wallet and
\* creating an account nobody else knows commute, so they are one step.
MintWrite(token, w, capacity) ==
    [token |-> token, wallet |-> w, capacity |-> capacity, seq |-> Len(listing[w])]

StartPrepare(t) ==
    /\ call[t] = Saga
    /\ state[t] = "accepted"
    /\ \/ /\ req(t).kind = "reversal"
          /\ Goto(t, [pc |-> "append", legs |-> reversalManifest(req(t).of), writes |-> {}])
          /\ UNCHANGED ledger
       \/ /\ req(t).kind = "forward" /\ req(t).mintSource
          /\ CanDraw
          /\ ledger' = CreateAccounts(ledger, Fresh, FlagsOf(req(t).from)).ledger
          /\ Goto(t, [pc |-> "plan",
                      legs |-> <<[source |-> Fresh, amount |-> req(t).amount]>>,
                      writes |-> {MintWrite(Fresh, req(t).from, req(t).amount)}])
       \/ /\ req(t).kind = "forward" /\ ~req(t).mintSource
          /\ StartSelect(t, "prepare")
          /\ UNCHANGED ledger
    /\ UNCHANGED <<scenario, listing, minted, open, state, legs, mint, crashes>>

\* The second selection may fail where the first succeeded: runSaga returns
\* the error and the Transfer stays accepted.
FinishSelect(t) ==
    /\ call[t].pc = "prepare"
    /\ SelectionDone(call[t])
    /\ Goto(t, IF call[t].left > 0 THEN Idle
               ELSE [pc |-> "plan", legs |-> call[t].legs, writes |-> {}])
    /\ UNCHANGED <<scenario, ledger, listing, minted, open, state, legs, mint, crashes>>

\* planDestinations: one new Token of the full amount for all the legs.
PlanDestination(t) ==
    /\ call[t].pc = "plan"
    /\ CanDraw
    /\ Opened(req(t).to)
    /\ ledger' = CreateAccounts(ledger, Fresh, FlagsOf(req(t).to)).ledger
    /\ LET ls == call[t].legs
       IN  Goto(t, [pc |-> "append",
                    legs |-> [i \in DOMAIN ls |-> [source |-> ls[i].source, dest |-> Fresh,
                                                   amount |-> ls[i].amount]],
                    writes |-> call[t].writes \union {MintWrite(Fresh, req(t).to, req(t).amount)}])
    /\ UNCHANGED <<scenario, listing, minted, open, state, legs, mint, crashes>>

\* Nobody checked the destination before: its mint is refused, prepare returns
\* an error and the Transfer stays accepted.
DestinationUnopened(t) ==
    /\ call[t].pc = "plan"
    /\ ~Opened(req(t).to)
    /\ Goto(t, Idle)
    /\ UNCHANGED <<scenario, ledger, listing, minted, open, state, legs, mint, crashes>>

\* Both streams of every new Token, or a conflict; two mints into one Wallet
\* conflict with each other.
Current(writes) ==
    \A x \in writes :
        /\ x.token \notin DOMAIN minted
        /\ x.seq = Len(listing[x.wallet])
        /\ \A y \in writes : y.wallet = x.wallet => y = x

Record(writes, tag) ==
    LET into(w) == CHOOSE x \in writes : x.wallet = w
        of(k) == CHOOSE x \in writes : x.token = k
    IN  /\ listing' = [w \in Wallets |->
              IF \E x \in writes : x.wallet = w
                THEN Append(listing[w], [token |-> into(w).token, tag |-> tag])
                ELSE listing[w]]
        /\ minted' = [k \in DOMAIN minted \union {x.token : x \in writes} |->
              IF k \in DOMAIN minted THEN minted[k]
              ELSE [wallet |-> of(k).wallet, capacity |-> of(k).capacity]]

\* A conflict is about a Wallet: this Transfer's own stream has no other
\* writer here.  prepare does not converge and runSaga returns its error.
AppendPrepared(t) ==
    /\ call[t].pc = "append"
    /\ IF Current(call[t].writes)
         THEN /\ Record(call[t].writes, IF req(t).kind = "forward" THEN req(t).tx ELSE NoTransaction)
              /\ state' = [state EXCEPT ![t] = "prepared"]
              /\ legs' = [legs EXCEPT ![t] = call[t].legs]
              /\ Goto(t, Saga)
         ELSE /\ Goto(t, Idle)
              /\ UNCHANGED <<listing, minted, state, legs>>
    /\ UNCHANGED <<scenario, ledger, open, mint, crashes>>

-----------------------------------------------------------------------------
(* Submissions.  The batch is applied first; its outcome is recorded later.  *)

\* stage or commit, whichever the Accepted event asked for.  Neither asks the
\* Operations before it submits; cancelled ones then refuse every outcome.
SubmitPrepared(t) ==
    /\ call[t] = Saga
    /\ state[t] \in {"prepared", "withdrawing"}
    /\ LET result == CreateTransfers(ledger, Batch(t, IF req(t).stage THEN "Pending" ELSE "Regular"))
       IN  /\ ledger' = result.ledger
           /\ Goto(t, IF state[t] = "withdrawing" THEN Idle ELSE
                      [pc |-> "record",
                       outcome |-> CASE ~result.ok -> "failed"
                                     [] result.ok /\ req(t).stage -> "staged"
                                     [] OTHER -> "committed"])
    /\ UNCHANGED <<scenario, listing, minted, open, state, legs, mint, crashes>>

\* appendSagaStep at the end of stage, commit, cancelStaged and compensate.
RecordOutcome(t) ==
    /\ call[t].pc = "record"
    /\ state' = [state EXCEPT ![t] = call[t].outcome]
    /\ Goto(t, Idle)
    /\ UNCHANGED <<scenario, ledger, listing, minted, open, legs, mint, crashes>>

\* CancelAcceptedTransfer: cancelPrepared appends its event, after cancelling
\* every Operation of a prepared Transfer; it may die before the last one.
CancelAcceptedTransfer(t) ==
    /\ call[t] = Idle
    /\ \/ /\ state[t] \in {"accepted", "prepared", "withdrawing"}
          /\ state' = [state EXCEPT ![t] = IF @ = "accepted" THEN "abandoned" ELSE "withdrawn"]
          /\ UNCHANGED crashes
       \/ /\ state[t] = "prepared"
          /\ crashes < MaxCrashes
          /\ crashes' = crashes + 1
          /\ state' = [state EXCEPT ![t] = "withdrawing"]
    /\ UNCHANGED <<scenario, ledger, listing, minted, open, legs, call, mint>>

ConfirmStagedTransfer(t) ==
    /\ call[t] = Idle
    /\ state[t] = "staged"
    /\ state' = [state EXCEPT ![t] = "pending"]
    /\ UNCHANGED <<scenario, ledger, listing, minted, open, legs, call, mint, crashes>>

\* commit from Pending: post every reservation, or fail the Transfer.
PostPendingTransfer(t) ==
    /\ call[t] = Idle
    /\ state[t] = "pending"
    /\ LET result == CreateTransfers(ledger, Batch(t, "PostPending"))
       IN  /\ ledger' = result.ledger
           /\ Goto(t, [pc |-> "record", outcome |-> IF result.ok THEN "committed" ELSE "failed"])
    /\ UNCHANGED <<scenario, listing, minted, open, state, legs, mint, crashes>>

\* A void that is rejected is an internal error and records nothing.
CancelStagedTransfer(t) ==
    /\ call[t] = Idle
    /\ state[t] \in {"staged", "pending"}
    /\ LET result == CreateTransfers(ledger, Batch(t, "VoidPending"))
       IN  /\ ledger' = result.ledger
           /\ Goto(t, IF result.ok THEN [pc |-> "record", outcome |-> "cancelled"] ELSE Idle)
    /\ UNCHANGED <<scenario, listing, minted, open, state, legs, mint, crashes>>

\* The handler's process dies, or its next store or ledger call fails.
Crash(t) ==
    /\ crashes < MaxCrashes
    /\ call[t] # Idle
    /\ crashes' = crashes + 1
    /\ Goto(t, Idle)
    /\ UNCHANGED <<scenario, ledger, listing, minted, open, state, legs, mint>>

-----------------------------------------------------------------------------
(* TokenService.Mint.                                                        *)

MintIdle == [pc |-> "idle"]
MintGoto(k, record) == mint' = [mint EXCEPT ![k] = record]
mintOf(k) == scenario.mints[k]

\* A Token that exists is returned as it is, whatever was asked for.
Mint(k) ==
    /\ mint[k] = MintIdle
    /\ mintOf(k).token # NoTransaction
    /\ MintGoto(k, IF mintOf(k).token \in DOMAIN minted THEN [pc |-> "minted"]
                   ELSE [pc |-> "load", attempt |-> 1])
    /\ UNCHANGED <<scenario, ledger, listing, minted, open, state, legs, call, crashes>>

\* Mutant: the account is left for later.
MintAccount_EventsFirst(k) ==
    /\ mint[k].pc = "load"
    /\ Opened(mintOf(k).wallet)
    /\ LET m == mintOf(k)
       IN  MintGoto(k, [pc |-> "append", attempt |-> mint[k].attempt,
                        write |-> MintWrite(m.token, m.wallet, m.capacity)])
    /\ UNCHANGED <<scenario, ledger, listing, minted, open, state, legs, call, crashes>>

MintUnopened(k) ==
    /\ mint[k].pc = "load"
    /\ ~Opened(mintOf(k).wallet)
    /\ MintGoto(k, [pc |-> "rejected"])
    /\ UNCHANGED <<scenario, ledger, listing, minted, open, state, legs, call, crashes>>

\* MintWrites: the account comes before the events that claim it exists.
MintAccount(k) ==
    /\ mint[k].pc = "load"
    /\ Opened(mintOf(k).wallet)
    /\ LET m == mintOf(k)
           result == CreateAccounts(ledger, m.token, FlagsOf(m.wallet))
       IN  /\ ledger' = result.ledger
           /\ MintGoto(k, IF result.ok
                            THEN [pc |-> "append", attempt |-> mint[k].attempt,
                                  write |-> MintWrite(m.token, m.wallet, m.capacity)]
                            ELSE [pc |-> "rejected"])
    /\ UNCHANGED <<scenario, listing, minted, open, state, legs, call, crashes>>

AppendMint(k) ==
    /\ mint[k].pc = "append"
    /\ IF Current({mint[k].write})
         THEN /\ Record({mint[k].write}, NoTransaction)
              /\ MintGoto(k, [pc |-> "minted"])
         ELSE /\ MintGoto(k, [pc |-> "reload", attempt |-> mint[k].attempt])
              /\ UNCHANGED <<listing, minted>>
    /\ UNCHANGED <<scenario, ledger, open, state, legs, call, crashes>>

\* After a conflict: someone minted this Token, or the Wallet's stream grew.
MintConverge(k) ==
    /\ mint[k].pc = "reload"
    /\ MintGoto(k, CASE mintOf(k).token \in DOMAIN minted -> [pc |-> "minted"]
                     [] mintOf(k).token \notin DOMAIN minted /\ mint[k].attempt < MaxMintAttempts ->
                          [pc |-> "load", attempt |-> mint[k].attempt + 1]
                     [] OTHER -> [pc |-> "gaveUp"])
    /\ UNCHANGED <<scenario, ledger, listing, minted, open, state, legs, call, crashes>>

MintCrash(k) ==
    /\ crashes < MaxCrashes
    /\ mint[k].pc \in {"load", "append", "reload"}
    /\ crashes' = crashes + 1
    /\ MintGoto(k, MintIdle)
    /\ UNCHANGED <<scenario, ledger, listing, minted, open, state, legs, call>>

-----------------------------------------------------------------------------
(* The surroundings.                                                         *)

\* A Transaction completes or has rolled back: Transaction decides when.
CloseTransaction(x) ==
    /\ x \in open
    /\ open' = open \ {x}
    /\ UNCHANGED <<scenario, ledger, listing, minted, state, legs, call, mint, crashes>>

Expire(id) ==
    /\ id \in DOMAIN ledger.pending
    /\ ledger.pending[id] = "open"
    /\ ledger' = ExpirePending(ledger, id)
    /\ UNCHANGED <<scenario, listing, minted, open, state, legs, call, mint, crashes>>

\* Init: some Transfers have been committed.  A scenario has the streams of the
\* Tokens they minted and their legs; the same operators build the ledger.
FundingBatch(f) ==
    [i \in DOMAIN f.legs |->
        [id |-> OpID(f.id, i), debit |-> f.legs[i].source, credit |-> f.legs[i].dest,
         amount |-> f.legs[i].amount, kind |-> "Regular", pendingID |-> << >>]]

FundedLedger(s) ==
    LET accounts == [k \in DOMAIN s.minted |-> NewAccount(AllowsToAccountFlags(s.allows[s.minted[k].wallet]))]
        funded[n \in 0..Len(s.funding)] ==
          IF n = 0 THEN [EmptyLedger(s.rule) EXCEPT !.accounts = accounts]
          ELSE CreateTransfers(funded[n - 1], FundingBatch(s.funding[n])).ledger
    IN  funded[Len(s.funding)]

Init ==
    /\ scenario \in Scenarios
    /\ ledger = FundedLedger(scenario)
    /\ listing = scenario.listing
    /\ minted = scenario.minted
    /\ open = Transactions
    /\ state = [t \in AllTransfers |-> IF t \in Funded THEN "committed" ELSE "none"]
    /\ legs = [t \in AllTransfers |->
          IF t \in Funded
            THEN scenario.funding[CHOOSE i \in DOMAIN scenario.funding : scenario.funding[i].id = t].legs
            ELSE << >>]
    /\ call = [t \in Transfers |-> Idle]
    /\ mint = [k \in Mints |-> MintIdle]
    /\ crashes = 0

DriverStep(t) ==
    \/ RequestTransfer(t) \/ SelectToken(t) \/ DecideTransfer(t)
    \/ RequestReversal(t) \/ ResumeSaga(t)
    \/ StartPrepare(t) \/ FinishSelect(t)
    \/ PlanDestination(t) \/ DestinationUnopened(t) \/ AppendPrepared(t)
    \/ SubmitPrepared(t) \/ RecordOutcome(t)
    \/ CancelAcceptedTransfer(t) \/ ConfirmStagedTransfer(t)
    \/ PostPendingTransfer(t) \/ CancelStagedTransfer(t)
    \/ Crash(t)

MintStep(k) ==
    Mint(k) \/ MintUnopened(k) \/ MintAccount(k) \/ AppendMint(k) \/ MintConverge(k) \/ MintCrash(k)

Next ==
    \/ \E t \in Transfers : DriverStep(t)
    \/ \E k \in Mints : MintStep(k)
    \/ \E x \in Transactions : CloseTransaction(x)
    \/ \E id \in DOMAIN ledger.pending : Expire(id)

Spec == Init /\ [][Next]_vars

-----------------------------------------------------------------------------
(* Properties.                                                               *)

Flagged(w, flag) == AllowsToAccountFlags(allows[w])[flag]

\* A Token whose Wallet forbids it never spends what it has not received: what
\* left it and what is reserved to leave stay within what has been credited
\* for good, through selections made from stale balances, reservations that
\* are voided or time out, and reversals.  This is what the flags of
\* token/allows.go set, OFFRAMP included, whatever its comment says of going
\* negative (allows.go:21-24); it needs the rule of TigerBeetle.
NeverOverspent ==
    ledger.rule = "tigerbeetle" =>
        \A k \in DOMAIN minted :
            LET a == ledger.accounts[k]
            IN  /\ Flagged(minted[k].wallet, "debitsMustNotExceedCredits") =>
                      a.debitsPosted + a.debitsPending <= a.creditsPosted
                /\ Flagged(minted[k].wallet, "creditsMustNotExceedDebits") =>
                      a.creditsPosted + a.creditsPending <= a.debitsPosted

\* What the ledger holds for a leg of Transfer t.
LegPosted(t, i) ==
    LET id == OpID(t, i)
    IN  /\ id \in DOMAIN ledger.transfers
        /\ ledger.transfers[id].kind = "Regular" \/ ledger.pending[id] = "posted"
LegReserved(t, i) == OpID(t, i) \in DOMAIN ledger.pending /\ ledger.pending[OpID(t, i)] = "open"

\* The ledger finds a replayed batch of t to exist, leg by leg.
Recognised(t) == ledger.rule = "fake" \/ Len(legs[t]) <= 1

\* The event log tells the truth about the money: a Transfer on record as
\* committed has moved all of its legs, one whose reservations were cancelled
\* (TransferCancelled) or that was rejected none, and it holds no reservation;
\* one on record as failed none where the ledger recognises a replayed batch;
\* and no leg is ever posted without its siblings (submitBatch, compensate,
\* cancelStaged).  Two records may lie: TransferFailed of several legs on
\* TigerBeetle (TransferSaga!FailedMovedNothing) and a cancellation from
\* Prepared (TransferSaga!PreparedCancelMovedNothing).
LogMatchesLedger ==
    \A t \in Transfers :
        /\ state[t] = "committed" => \A i \in DOMAIN legs[t] : LegPosted(t, i)
        /\ \/ state[t] \in {"cancelled", "rejected"}
           \/ state[t] = "failed" /\ Recognised(t)
           => \A i \in DOMAIN legs[t] : ~LegPosted(t, i)
        /\ state[t] = "cancelled" => \A i \in DOMAIN legs[t] : ~LegReserved(t, i)
        /\ \A i, j \in DOMAIN legs[t] : LegPosted(t, i) => LegPosted(t, j)

\* Token balances are explained by the Transfers: what a Wallet holds is what
\* its posted legs brought in less what they took out, so that no unit appears
\* or disappears by retries, timeouts or competing Transfers; and no total (an
\* unsigned number in the code) is brought below zero by a second post or void.
PostedLegs == UNION {{<<t, i>> : i \in {j \in DOMAIN legs[t] : LegPosted(t, j)}} : t \in AllTransfers}
BalancesExplained ==
    \A k \in DOMAIN ledger.accounts :
        LET a == ledger.accounts[k]
        IN  /\ {a.debitsPosted, a.creditsPosted, a.debitsPending, a.creditsPending} \subseteq Nat
            /\ AccountBalance(ledger, k) =
                  MapThenSumSet(LAMBDA x : LET l == legs[x[1]][x[2]]
                                           IN  (IF l.dest = k THEN l.amount ELSE 0)
                                               - (IF l.source = k THEN l.amount ELSE 0),
                                PostedLegs)

\* The manifest of a forward Transfer covers the requested amount exactly, out
\* of different Tokens of the source Wallet taken in mint order, into one new
\* Token of the destination Wallet with that capacity, however the balances
\* moved while selectSourceTokens was reading them.
ManifestCoversRequest ==
    \A t \in Transfers :
        LET ls == legs[t]
            from == listing[req(t).from]
            Position(k) == CHOOSE n \in DOMAIN from : from[n].token = k
        IN  (legs[t] # << >> /\ req(t).kind = "forward") =>
                /\ Total(ls) = req(t).amount
                /\ \A i \in DOMAIN ls :
                      /\ ls[i].amount > 0
                      /\ minted[ls[i].source].wallet = req(t).from
                      /\ ls[i].dest = ls[1].dest
                      /\ i > 1 => Position(ls[i - 1].source) < Position(ls[i].source)
                /\ minted[ls[1].dest] = [wallet |-> req(t).to, capacity |-> req(t).amount]

\* What an open Transaction brought in is left alone: no forward Transfer of
\* another Transaction, or of none, spends a Token tagged with it, so that its
\* rollback finds the money (wallet.TokensOfVisibleTo).
OpenTokensLeftAlone ==
    \A t \in Transfers : req(t).kind = "forward" =>
        \A i \in DOMAIN legs[t] :
            \A n \in DOMAIN listing[req(t).from] :
                LET e == listing[req(t).from][n]
                IN  (e.token = legs[t][i].source /\ e.tag \in open) => e.tag = req(t).tx

\* What is staged is safe: as long as the reservations of a Transfer are open,
\* the ledger accepts the batch that posts them and the batch that voids them,
\* whatever competing Transfers, reversals, timeouts and deaths of drivers did
\* to the same Tokens (commit from Pending, cancelStaged).
StagedFundsStayReserved ==
    \A t \in Transfers :
        (ledger.rule = "tigerbeetle" /\ \A i \in DOMAIN legs[t] : LegReserved(t, i)) =>
            \A kind \in {"PostPending", "VoidPending"} : CreateTransfers(ledger, Batch(t, kind)).ok

CommittedReversals(t) ==
    {r \in Transfers : req(r).kind = "reversal" /\ req(r).of = t /\ state[r] = "committed"}

\* Token k has received money that a reversal brought back.
CameBack(k) ==
    \E r \in Transfers : /\ req(r).kind = "reversal"
                         /\ \E i \in DOMAIN legs[r] : legs[r][i].dest = k /\ LegPosted(r, i)

\* Nothing stops a second Reversal of a Transfer in reversalManifest; the
\* ledger does, as long as a Token that received the money may not go negative
\* and has nothing but what that Transfer brought: one reversal commits.
ReversedOnce ==
    \A t \in AllTransfers :
        (/\ ledger.rule = "tigerbeetle"
         /\ state[t] = "committed"
         /\ \E i \in DOMAIN legs[t] :
               LET k == legs[t][i].dest
               IN  Flagged(minted[k].wallet, "debitsMustNotExceedCredits") /\ ~CameBack(k)) =>
            Cardinality(CommittedReversals(t)) <= 1

\* Mint and prepare create accounts before they append: a TokenMinted is never
\* recorded without an account that has its Wallet's flags, and the Wallet's
\* listing names exactly the Tokens minted into it, once each, whichever calls
\* conflicted, died or asked for the same id with another Wallet.  Only opened
\* Wallets hold Tokens, and an account whose mint was never recorded (its call
\* conflicted or died) never sees any money.
MintedIsBackedAndListed ==
    /\ \A k \in DOMAIN minted :
          /\ k \in DOMAIN ledger.accounts
          /\ ledger.accounts[k].flags = FlagsOf(minted[k].wallet)
    /\ \A k \in DOMAIN ledger.accounts \ DOMAIN minted :
          ledger.accounts[k] = NewAccount(ledger.accounts[k].flags)
    /\ \A w \in Wallets :
          /\ ~Opened(w) => listing[w] = << >>
          /\ {listing[w][i].token : i \in DOMAIN listing[w]} =
                {k \in DOMAIN minted : minted[k].wallet = w}
          /\ \A i, j \in DOMAIN listing[w] : listing[w][i].token = listing[w][j].token => i = j

=============================================================================
