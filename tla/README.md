# MoneyFlow in TLA+

A verification development for the Go backend of MoneyFlow (`src/go`): TLA+
modules for its event store, its Transfer and Transaction sagas, the money those
move between Tokens on the ledger, its provisioning of Holders and Wallets, and
the servers, migrations and callers around them; TLC configurations that check
them on small instances; and TLAPS proofs of the results that matter most for
every size of the system.
`PROJECT.json` maps every definition to the source lines it translates and
lists runs, mutants, findings, hazards and theorems.

## 1. The system

MoneyFlow records money movement twice. PostgreSQL holds an append-only log of
events, one stream per aggregate; TigerBeetle holds accounts and transfers. No
transaction spans the two and no lock spans two RPCs. What keeps them together
is

* optimistic concurrency: a caller reads a stream, decides, and appends at the
  length it read; a stream that has grown makes the append a conflict;
* determinism: ids of Operations and ledger transfers are fixed by the
  Transfer's own id, so a repeated submission never moves money a second time
  (whether it is *recognised* as a repetition is another matter, see `Ledger`);
* resumption: a saga's state is folded from the stream, so any later call
  continues where a dead one stopped.

All the hard behaviour follows from these three: several drivers of one saga at
once, decisions made on streams that have moved on, and deaths between a ledger
submission and the event that tells of it.

### Inventory

| Component | State | Operations | Interacts by | What makes it correct |
|---|---|---|---|---|
| Event store (`eventstore`) | `events` table: rows by (stream, sequence) | `Load`, `Append`, `AppendAtomic` | called by every service; Postgres transactions and the unique constraint | appends are atomic compare-and-append; streams have no gaps; a lost race is a conflict; calls return |
| Transfer (`transfer`) | the Transfer's stream | `RequestTransfer`, `RequestReversal`, `CancelAcceptedTransfer`, `ConfirmStagedTransfer`, `CancelStagedTransfer`, `PostPendingTransfer`; saga steps `prepare`, `stage`, `commit`, `compensate`, ... | store, Operations, ledger, Tokens, Wallets | stream, Operations and ledger tell one story; terminal states are final; retries finish what was begun |
| Operation (`operation`) | one stream per debit or credit of a manifest | `Initiate`, `Stage`, `Perform`, `Cancel`, `Fail` | walked by the saga | a terminal fact is final; one manifest ends one way |
| Ledger (`ledger`) | accounts, transfers, reservations | `CreateAccounts`, `CreateTransfers`, `AccountBalance` | called by the saga and by minting | linked batches are all-or-nothing; a repeated id moves nothing twice |
| Holder (`holder`) | the Holder's stream | `Establish`, `AddWallet`, `Provision` | store; writes Wallet streams | a listed Wallet is open and its own; a repeated call converges |
| Wallet (`wallet`) | the Wallet's stream | `Open`; `TokensOf`, `TokensOfVisibleTo` | store | one owner for ever |
| Token (`token`) | the Token's stream and its ledger account | `Mint` | store, ledger | no Token without its account; `allows` respected |
| Manifest (`transfer/manifest.go`) | none (pure) | selection, destinations, reversal | balances, Wallets | enough and only spendable Tokens |
| Transaction (`transaction`) | the Transaction's stream | `StartInitializingTransaction`, `StartProcessingTransfer`, `ResumeTransaction`, `StartTransactionRollback` | drives child Transfers | dependencies respected; rollback undoes every child that ran |
| Server process (`cmd/server`, generated Twirp servers) | connections, requests in flight | boot, route, decode, reply, drain | HTTP; calls every handler | success means done; malformed means nothing; a signalled server ends unless a connection is never returned |
| Migrations (`cmd/migrate`) | `schema_migrations`, the schema | up, down | run by every boot and by operators | record and schema agree while migrations go one way |
| Ruby backend (`onboard_entity.rb`) | entities, accounts | `OnboardEntity` | Twirp to `HolderService` | no entity without its Holder and Wallets |
| Vue client | none | GraphQL queries | Ruby | shows what it is given |

The behaviours that are hard to test are listed at their lines under `hazards`
in `PROJECT.json`; every property below answers one of them.

## 2. Modules

| Module | Models | Used by |
|---|---|---|
| `TransferSaga` | one Transfer, its Operations, its legs in TigerBeetle, concurrent RPC calls | `MCTransferSaga`, `TransferSagaProofs` |
| `Transaction` | one Transaction: its DAG of child Transfers, dispatch and rollback, concurrent RPC calls | `MCTransaction`, `TransactionProofs` |
| `Provisioning` | Holders and Wallets under concurrent RPC calls | `MCProvisioning`, `ProvisioningProofs` |
| `EventStore` | the `Store` contract; `MemoryStore` | instantiated by `PostgresStore` |
| `PostgresStore` | `PostgresStore` statement by statement over the table | `MCPostgresStore`, `PostgresStoreProofs` |
| `Ledger` | accounts, limits, two-phase transfers and linked batches as pure operators | `Money`, `LedgerProofs` |
| `Money` | several Transfers, Reversals and Mints with amounts over one `Ledger`; Token selection, listings, tags | `MCMoney`, `MoneyProofs` |
| `Migrate` | the migration command | `Service` |
| `Service` | one command from its caller through HTTP, Twirp and a handler in a server that boots, drains and dies | `MCService`, `ServiceProofs` |
| `MC*` | constants and symmetry for TLC | the runs |
| `*Proofs` | inductive invariants, lemmas, theorems | TLAPS |
| `Induction` | induction over the natural numbers and over finite sets, as facts about sets; sums over finite sets | `TransactionProofs`, `LedgerProofs`, `ServiceProofs`, `MoneyProofs` |

Definitions named `X_Something` before a definition `X` are mutants: plausible
bugs that the properties must catch. Nothing else uses them.

### TransferSaga

`stream` is the Transfer's stream as a sequence of event types, `ops[o]` the
last fact of each Operation's stream, `leg[l]` what TigerBeetle holds under the
ids of leg `l`, `call[c]` the program counter and locals of the RPC running in
slot `c`. An action is one round trip of the code to the store or the ledger
with the decision made on its answer: `LoadRequest`, `LoadCancelAccepted`,
`LoadConfirmStaged`, `LoadCancelStaged`, `LoadPostPending` are the handlers of
`server.go` up to their decision, `TryAppend` is `tryAppend` with its three
attempts, and `RunSaga`, `Prepare`, `PrepareAppend`, `PrepareConverge`,
`Commit`, `SubmitOK`, `SubmitRejected`, `AdvanceOperation`, `AppendSagaStep`,
`PostReload`, `CancelPrepared` are the steps of `saga.go`. Between any two of
them other calls run, and the call itself may die (`Crash`); a store or ledger
call that fails ends the handler at the same points, so it is the same action.

What is abstracted, and why nothing is lost for the properties:

* `operation.advance` and `appendSagaStep` read a stream, decide, append at the
  length they read and start over on a conflict, without an attempt limit. Since
  an append lands only on the stream that was read (`EventStore`, proved for
  Postgres below), the last round is one atomic step and the earlier ones have
  no effect: each is one action. `prepare` does *not* retry and decides before
  its read: it is three actions.
* A manifest is `NumLegs` legs and `NumOps` Operations (a DEBIT per leg, then
  the distinct CREDITs), all walked in the order of `forEachOperation`. Whether
  other aggregates let the request be accepted, or prepared, is left open (both
  decisions in `LoadRequest`, `PrepareMayFail`).
* A batch is one linked chain, so it applies to all legs or to none. Fresh debits
  may be refused at any time (other Transfers spend); a live reservation can
  always be posted or voided. TigerBeetle lets a reservation lapse per leg
  (`Expire`, external). Two constants are facts about the ledger. Whether an id
  that was refused once may be applied later is `BurnRejectedIds`: the concurrent
  run allows it and the proofs hold for both; the runs about resumption assume
  what TigerBeetle documents, that it stays refused. Whether an `exists` breaks
  the linked chain it is in is `ChainsBreakOnExists`: TigerBeetle does, `FakeClient`
  does not. All runs use TigerBeetle's answer and the proofs hold for both, except
  where `Recognised` is named: the ledger recognises a replayed batch, which
  means a single leg, or `FakeClient`.
* `RequestReversal` is the same handler on the same kind of stream and shares
  the action of `RequestTransfer`.
* A second `TransferPrepared` initiates Operations under the same saga that
  nothing reads (`preparedLegs` takes the first), so `ops` stays with the first.

### Transaction

The stream is kept as the code's own folds of it: `top` (`topLevelState`),
`child` (`foldChildStates`), the `recorded` (type, child) pairs that
`appendSagaStep` looks for, and `deps`, the dependency map of
`TransactionInitialized`. Nothing else of the stream is ever read. `out[c]` and
`rev[c]` are `transfer.Outcome` of a child and of its reversal, whose id is
deterministic. A turn of `runSaga` reads the stream once (`RunSaga`) and works on
that snapshot (`seen`): `Reconcile` and `Reconciled` are the Started branch up to
its decision, `Dispatch`, `RequestChild` and `RecordChild` are `dispatchReady` and
`requestChildTransfer`, with the child's RPC and the record of it as separate
steps, `RollbackChild`, `RequestReversal`, `ReversalOutcome`, `CancelStagedChild`
and `CancelAcceptedChild` are `rollbackChild`, `SweepDone` ends a sweep and
`AppendTopLevel` appends the top-level event that was decided on. Sweeps go over
Go maps, so the order of children is open.

* `Staged` and `Pending` children are one outcome: nothing here tells them apart.
* The RPCs of a child are atomic and its terminal outcomes final. This is what
  `TransferSaga` shows when calls on one Transfer do not overlap; with
  overlapping calls a cancelled child may come back (the revival described in
  section 3), which would break the properties below for the same reason once more.
* A reading of an outcome and the record of it are one action where the outcome
  can no longer change or a change makes no difference to what is recorded.
* With a committed child `RequestReversal` is never refused (`reversalManifest`
  asks for nothing else), so the branch that records the refusal is not there.
* Refused RPCs change nothing and are left out; errors of a store or Transfer
  call are `Crash`, except those that a state of the child or its specification
  makes permanent: a child in `Invalid` is refused with InvalidArgument by every
  `RequestTransfer` (`RequestChild`), which ends the call and records nothing.
* A child that was requested and is in flight may be moved on by its own clients
  (`Settle`), and may not: `reconcileInFlight` only reads its outcome.
* A specification is `[ids, deps]`: the id inside each entry of `transfers` and
  `transfer_dependency`. `References` are the checks on ids and keys of
  `validateDAG`, `Acyclic` its Kahn rounds.
* The transfers of the DAG, the ids of a request and its flags are data:
  `Requests`, `AutoProcess` and `Staged`.

### Provisioning

`holder[h]` is a Holder's stream (`Established` and the Wallets added),
`owner[w]` the Holder a Wallet's first event names. `LoadHolder`,
`InspectWallet` (one turn of `walletWrites`) and `AppendConverging` are the
steps of `AddWallet` and `Provision`; `LoadOpen`, `AppendOpen`, `ReplayOpen`
those of `Open`; `LoadEstablish` and `AppendEstablish` those of `Establish`,
whose re-read after a conflict can only find the established Holder.
`AppendConverging` takes a conflict for success without a second look, as
`holder/server.go:273-276` does; that such a reply may stand for nothing is
described in section 3.

### EventStore and PostgresStore

`EventStore` is the contract in the comments of `store.go` and what
`MemoryStore` does under its mutex: `AppendAtomic` either appends to every
stream, each still of the length its caller read, or conflicts, or fails with
the caller in doubt. In `PostgresStore` a transaction inserts row by row; the
unique index makes an INSERT wait for an open transaction that holds its key,
fail on a committed one, and the deadlock detector (external) fails a member of
a cycle of waits. Nothing compares lengths. A connection may fail before, or
after, the COMMIT took effect. `Refinement` maps a stream to what `Load` returns
and shows that this is `EventStore`. Callers pass only lengths they have read,
which is how every caller in `src/go` uses it.

### Ledger and Money

`Ledger` is `FakeClient`, the repository's executable definition of its ledger, as
operators from a ledger and a batch to the outcome and the next ledger. Two rules
differ between `FakeClient` and TigerBeetle, which `RealClient` calls: whether a
credit that is only pending can already be spent (`ExceedsCredits`), and whether an
entry that exists breaks the linked batch it is submitted in (`ChainBroken`:
TigerBeetle answers `linked_event_failed` for the other entries, `FakeClient` goes
on). They are the ledger's `rule`, and runs use both values. That TigerBeetle refuses for
ever an id it refused once is the subject of `BurnRejectedIds` in `TransferSaga` and
not repeated here.

`TransferSaga` follows the calls that race over one Transfer. `Money` follows many
Transfers that race over the same Tokens, each with one driver at a time: `state[t]`
is `currentState` of its stream, `legs[t]` the manifest that `TransferPrepared`
recorded, `call[t]` the driver. `selectSourceTokens` reads the Wallet once and then
one balance per step (`StartSelect`, `SelectToken`, `FinishSelect`), first to accept
and again in `prepare`; `PlanDestination` and `MintAccount` create the ledger account
and remember how long the Wallet's stream was, `AppendPrepared` and `AppendMint`
append to all streams or conflict. `SubmitPrepared`, `PostPendingTransfer` and
`CancelStagedTransfer` submit a batch; `RecordOutcome` tells of it later, or the
driver dies in between (`Crash`) and `ResumeSaga` submits it again. `listing[w]` is
the Wallet's `TokenMintedForWallet` events with their tags; `open` the Transactions
`IsOpen` still calls open, closed at any moment (`CloseTransaction`).

* Operation streams follow their Transfer's outcome and are left to `TransferSaga`,
  as are calls that overlap on one Transfer. `CancelAcceptedTransfer` is one step
  here and ends a Transfer as `abandoned` (from Accepted) or `withdrawn` (from
  Prepared), which is kept apart from `cancelled`, the end of a staged one: a
  withdrawn Transfer may have moved its money (`v_cancel_after_post`). The step may
  die among the Operations and leave `withdrawing`: still Prepared on its stream,
  submitted again by every resumption, and refused by its Operations.
* An account under an id that `prepare` just drew is known to nobody, so loading the
  Wallet and creating the account commute and are one step.
* Reservations time out as a whole per leg (`Expire`).
* A scenario may start with committed Transfers (`funding`). `Funding` asks of them
  what the code would have left behind: an id and a positive amount each, two different
  Tokens per leg, and destinations no other of them uses, since `planDestinations`
  draws a new Token for every Transfer.

Two things `Money` shows and no property calls wrong. A Transfer to a Wallet that
was never opened is accepted, since nobody looks at the destination before
`prepare`; it then stays accepted for ever (`DestinationUnopened`). And two
Reversals of one Transfer are both accepted; `ReversedOnce` holds because the Token
that received the money may not go negative, so where it may (`ONRAMP_AND_OFFRAMP`)
the money really comes back twice. Nor does the Token know where its money came
from: once a reversal has brought money back into it (of a reversal, or of a
Transfer out of it), a second Reversal can take that, so `ReversedOnce` speaks of
Tokens to which none came back. (`allows.go:21-24` describes OFFRAMP as the
policy whose account may go negative; the flag it sets forbids it.)

### Service and Migrate

One command is followed. `req[r]` is its r-th attempt at the server, `client` the
caller (`provision!` and `persist` of `OnboardEntity` when the command is
`Provision`), `proc` the process, `effects` the durable steps of the handler. The
six `...ServeHTTP` actions and the `serve...JSON` and `serve...Protobuf` actions are
the generated functions, one each; `handleRequestBodyError` and
`ensurePanicResponses` are theirs too. A handler is the sequence of its round trips
(`HolderHandlers` ...), each of which succeeds, fails, or is cut off in doubt; the
steps a saga takes behind the decision are `driven`: their errors are logged and
the reply is a success all the same. Effects are idempotent, which is what the
other modules are about. A caller that hangs up leaves its handler running with a
context that the store notices and the ledger ignores. `Boot`, `ListenAndServe`,
`Sigterm`, `ShutdownReturns`, `ClosePool` and `Exit` are `entrypoint.sh` and `main`.
No Twirp hooks or interceptors are installed, so none are modelled.

`req[r].conn` says that an attempt holds a connection of the pool (`Acquire`, until
its store call returns), which is what `pool.Close` waits for (`ClosePool`). The
conflict that `appendConverging` takes for success is a step of that name: any other
command on its Holder can bring it upon an `AddWallet`, but only its own earlier attempts
upon a `Provision`, since an onboarding draws new ids.

`Migrate` reads the record once and then applies a version per transaction. Nothing
in the code keeps two migrators apart, and nothing does in the model. Two that go up
at once are harmless; a `down` that overlaps an `up` is not (`down` of version 1 after
`up` of version 2 leaves version 2 on record without a table). Hence `SchemaMatches`
says: if migrations never go both ways at once (`OneDirection`), record and table agree.

## 3. Runs

Passing runs:

| Run | Instance | Shows |
|---|---|---|
| `saga_concurrent` | 2 calls, all RPCs, immediate and two-phase, timeouts, 2 legs, 3 Operations | post, void, timeout, cancel and compensate never contradict each other or the ledger |
| `saga_sequential` | 1 call at a time, all RPCs, refused preparation, 1 leg, 2 Operations, 2 deaths, under fairness | resumption repeats nothing, fails nothing that moved and leaves no terminal state; accepted Transfers get somewhere unless a cancellation was begun, and staged ones end |
| `money` | scenarios of 2 or 3 Transfers, Reversals and Mints over 3 Wallets, 4 funded Tokens, both rules, cancellations, 1 death, timeouts | no Token overspent; log, balances and manifests agree as far as `LogMatchesLedger` says; an open Transaction's Tokens left alone; reversed once; no Token without its account |
| `service` | all 17 methods, both encodings, good and malformed; 3 attempts; up to 2 boots, 2 faults; a second migrator in either direction | success replies are kept except `AddWallet`'s, malformed requests are inert, onboarding follows provisioning, the schema matches its record, a signalled server ends or waits for a connection |
| `provisioning` | 2 calls, all RPCs, 2 Holders, 2 Wallets, 1 death, under fairness | ownership and lists agree; a repeated Provision converges |
| `event_store` | 3 appends, 2 streams, five batch shapes, failing connections, under fairness | types, no gaps, each stream in order under `global_seq`, refinement of `EventStore`; nothing hangs |
| `txn_concurrent` | 2 calls, all RPCs, 2 children (one gated and staged), independent or chained, 1 death | children are requested after their parents committed; records and completion are true |
| `txn_sequential` | 1 call at a time, all RPCs, every map over 2 transfers with a dangling id, entries under a wrong id or key, 3 shapes over 3, an invalid child beside and after a valid one, 2 deaths, under fairness | exactly the DAGs are accepted; rollback goes against the dependencies; closed is settled and final; every Transaction gets there or is stalled by a child in flight or an invalid one |

Violation runs, each a disagreement between the code and what the repository
says of it; `findings` in `PROJECT.json` quotes the lines:

| Run | What happens |
|---|---|
| `v_cancel_after_post` | a Prepared Transfer whose commit died after its submission is cancelled although its money has moved |
| `v_replayed_batch` | a two-leg commit that died after its submission is submitted again; TigerBeetle breaks the chain at the leg that exists, and the Transfer is recorded as failed although its money has moved |
| `v_txn_leak` | a child whose requester died before recording it is forgotten by a rollback that reports success |
| `v_txn_stuck` | a gated child requested while it is being abandoned keeps the Transaction in RollbackStarted, and `runSaga` looping, for ever |

Seven more disagreements are visible in the models and have no run of their own.
A `prepare` looks only at the first event of the stream it loads and appends at the
length it read (`saga.go:337-344, 476-483`): one whose `runSaga` had read Accepted
appends `TransferPrepared` after `AcceptedTransferCancelled` and goes on to commit
the abandoned Transfer, so `TerminalIsFinal` fails for two overlapping calls.
A `cancelPrepared` that died half-way leaves Cancelled Operations, and every later
`RequestTransfer` submits the batch, moves the money and then fails on them, for as
long as nobody repeats the cancellation. A staged Transfer
whose reservation has timed out cannot be cancelled; `PostPendingTransfer` alone
ends it, as Failed. `DeadlockDetected` is reported as a plain error, where
`postgres.go:23-26` speaks of `ErrConcurrencyConflict`. And `global_seq` is drawn
at INSERT, so events of different streams become visible behind a bookmark on it
(`00001_create_events.up.sql:12-14`); within one stream they do not, which is
`GlobalFollowsSequence`. Two calls that add different Wallets to one Holder conflict on
its stream; the loser has neither opened nor added its Wallet and answers
`HolderAddedWallet`, where `holder/server.go:270-272` says that "the result they
wrote is the one both callers wanted"; `ReplyIsKept` excepts `AddWallet` for this, and
for `Provision` a repetition puts it right (`ProvisionConverges`). And a Transaction
whose child is in flight or invalid does not self-heal, whatever
`transaction/saga.go:323-324` says: resuming it drives no child, so it stays Started
(`Stalled`) until somebody repeats the child's own RPC or rolls back by hand.

Because of the first, `TerminalIsFinal` is claimed, and proved, only of behaviours in
which calls on the Transfer do not overlap; deaths, resumptions and any sequence of
RPCs remain. So is `RecordedOnce`: `appendSagaStep` compares an event with the tail of
the stream only, so the slower of two drivers of one staging appends `TransferStaged`
again after another call recorded `TransferPending`. Nothing in the server keeps calls
apart. What holds whatever overlaps are the properties of `saga_concurrent` and
`OutcomesExclusive`. Because of the second, `SelfHeals` excepts Transfers one of whose
Operations was cancelled.

A replayed batch of several legs on TigerBeetle can do more than `v_replayed_batch`
shows. If the first Operations were already Performed when the driver died,
compensation is refused by them and the Transfer stays Prepared or Pending for ever; a
void that is replayed is refused likewise, and the staged Transfer cannot be ended by
cancelling it. `SelfHeals` and `StagedResolves` are therefore checked with one leg, and `LogMatchesLedger`
speaks of failed Transfers only where the ledger recognises the replay.

After a rejection `stage` and `commit` go on to their own walk, which `advance`
refuses: the model keeps this (`Interrupted`), the saga then returns an error to
`logSagaError`, and `PerformedMeansMoved` shows that it does no harm.

What `Transaction` promises under concurrency is less than one would like.
`TransactionTerminalIsFinal`, `ClosedIsSettled` and `DependentsFirst` are claimed,
and proved, of behaviours in which calls do not overlap: `appendSagaStep` does not look at the top-level state, so
a `TransactionCompleted` decided before a manual rollback may land after
`TransactionRollbackStarted` and stop the rollback half-way. `DependentsFirst` and
`ClosedIsSettled` speak of children whose request was recorded; without that
clause they are what `v_txn_leak` refutes. The reversal of a staged child is staged
too and is not seen committed, so its rollback ends in RollbackFailed; its
ancestors then stay in place, as `DependentsFirst` says.

### Bounds

* Calls: two concurrent calls give every pair of stale decisions; for any number
  of them the same invariants are proved.
* Legs and Operations: two legs are the least for which a replayed chain breaks and a
  timeout tells legs apart, and what overlapping calls may not break is checked with
  them; resumption is checked with one, where TigerBeetle recognises a replay, and
  refuted with two (`v_replayed_batch`). Two Operations are the least for which a
  manifest can end differently; a walk of three has an inner position to be overtaken
  at. The theorems hold for every number.
* `MaxEvents`: a stream of four events is a complete life (accepted, prepared,
  staged, pending), of three one that waits for a posting; beyond the bound only requests start, and in `FairSpec` every
  RPC that is legal, so that refusals do not extend the stream for ever. Running
  calls are never cut off by it.
* `MaxCrashes`: two deaths allow one in an attempt and one in its retry, or in the
  compensation or cancellation that follows; one for Mints and Transfers that
  compete.
* Amounts: one, two and three units against Tokens of two and one are the least for
  which a selection takes a Token in part, needs two Tokens, or comes too late.
  `MaxTokens` is never reached.
* `MaxMintAttempts`: two, where the code has five; the second attempt is the one
  that meets a stream grown once more.
* Scenarios of `Service` bound boots (`maxBoots`) and faults (`maxFaults`: panics,
  deaths, outages, timeouts) so that each pair of faults meets `Provision`, and each
  single fault every method.
* Children: two give a parent and a dependent, or two racing roots; three give a
  chain with an inner child, a join and a fork for the rollback order; `bad` is a child
  that is never accepted, without parents and with one. One child is
  gated and staged, the others are neither, so each branch of dispatch and of
  `rollbackChild` meets the other.
* Deaths of Transaction calls: two, so that a resumed call dies again; one in the
  concurrent run.
* Holders and Wallets: two of each is the least for which Wallets are contested
  and lists differ.
* Streams: two, the least for opposite orders; three appends, so that a waiting
  transaction can be overtaken.

Deadlock is checked except where the environment really may stop: a rejected
Transaction answers nothing but its rejection, each `AppendAtomic` of the store and
each command of `Service` is used once, and a `Money` scenario ends when its
Transfers have.

### Fairness

* `WF(CallStep(c))`: a goroutine that serves an RPC is scheduled and its round
  trips return; a death is an explicit `Crash`, of which there are finitely many.
* `SF(Retry(r))`, `SF(Retry(h, ws))`: clients repeat an RPC while it has something
  to do. The code
  requires exactly this: there is no background worker, and `logSagaError` names
  "the next call that touches this id" as what resumes a saga. Strong fairness,
  because a slot is busy between attempts. `CancelAcceptedTransfer` is not among
  them: clients may cancel an accepted Transfer, and nobody is assumed to.
* `SF(PrepareSelects(c))`, `SF(PrepareLands(c))`: other Transfers do not make `prepare`
  fail for ever, in its selection or in its append. `Money` shows that they can make it fail,
  and the code has nothing but the retry.
* `WF(ShutdownStep)`: `main` goes on when `Shutdown` returns, which the deadline of
  its context brings about, and runs its deferred calls; `pool.Close` only while no
  connection is in use. Nothing is assumed of handlers, callers, Postgres or
  TigerBeetle, so `ShutdownEnds` allows a process that waits in `pool.Close` for ever.
* `SF(ResumeTransaction)`, `SF(StartProcessingTransfer)`, `WF(SettleStaged(c))`: operators
  resume a Transaction and release its gated children, and a staged child is
  settled in the end by its own clients, as `transaction.proto:244-251` asks of them.
  `server.go:271-277` names ResumeTransaction as the only way a Transaction learns of
  it. Nothing is assumed to drive a child that is in flight.
* `WF(TxStep(a))`: Postgres executes a statement it was sent once it can, and its
  deadlock detector runs.

No fairness is assumed of refusals, timeouts or connection failures.

## 4. Proofs

### TransferSaga

For every number of calls, legs and Operations, every set of RPCs and any number
of crashes, from `ConstantsAssumption` alone: `TypeOK`, `OperationsAgree`,
`OutcomeCoversManifest`, `PerformedMeansMoved`, `StagedCancelReleased`,
`PostReplyMeansMoved`, and `OutcomesExclusive`.

None is inductive by itself. The invariant `Inv` adds `ManifestRecorded`
(Operations exist only after `TransferPrepared`) and, for every call, what it
knows from the steps it has taken (`CallKnows`): a walk at Operation `o` towards
an outcome has left that outcome's fact on all before `o`; a walk towards
`TransferCommitted` started from moved legs, *or* follows a compensation, and
then the first Operation is already `Failed`, so that the walk cannot take its
first step; a walk towards `TransferCancelled` started from voided legs. This
knowledge survives the other calls because terminal facts are never overwritten
and neither moved nor voided legs change (`KnowledgeIsStable`). The argument for
`OperationsAgree` is that all walks go in one order and refuse to contradict: a
walk can put a terminal fact on Operation `o` only if that fact is on all before,
so the first Operation decides for all drivers.

Three more hold in every behaviour whose calls do not overlap: `RecordedOnce`,
`FailedMovedNothing` and the action property `TerminalIsFinal`. The theorems say so:
`Spec /\ []NoOverlap => ...`, for any number of call slots, where `NoOverlap` says that at
most one call is under way. It is a condition on the clients of one Transfer, nothing in the
server enforces it, and section 3 has what overlapping calls do; the one-slot runs are
instances of it. `FailedMovedNothing` also assumes `Recognised`. Their invariant `SoleInv`
orders the facts of a Transfer by
`Rank` (accepted, prepared, staged, pending, outcome): what the only call is about
to append ranks above the state of the stream it will land on, so nothing is
appended twice and nothing after an outcome; and what the call knows of the legs
(`LegsFollow`, `SoleCallKnows`) says that a compensation starts only from legs that
did not move, as long as replays are recognised. The proof covers both answers to
`BurnRejectedIds` and, but for that last part, to `ChainsBreakOnExists`.

### PostgresStore

For every set of streams, appends and batches: `TypeOK`, `Gapless`,
`GlobalFollowsSequence`, and `Refinement`, the last as `Spec => Store!Spec`. `Inv`
adds that visible
sequences are contiguous, that what a caller read is a prefix of what is there
(`SeenIsPast`), that a transaction's position lies in its batch, and that it
holds exactly the rows before that position. At COMMIT the transaction holds the
keys `seen + 1 ..` of each of its streams; keys are unique and visible ones are
contiguous, so the stream still has the length that was read (`CommitExtends`):
that is where a constraint on single rows becomes a compare-and-append. A unique
violation meets a visible row beyond what was read, which is `EventStore`'s
conflict; every other end of a transaction is invisible. For `GlobalFollowsSequence`
a second invariant (`GlobalInv`) says that a transaction numbers its own rows in
order and above every row its caller had read; what becomes visible lies behind
exactly those, since the stream still has the length that was read.

### Transaction

For every set of children, every dependency map and any number of calls:
`ParentsFirst`, `ChildFactsHold`, `CompletedIsEarned`, `AcceptedIsAcyclic`,
`TypeOK`, and `ValidateDAGIsExact`: `validateDAG` accepts exactly the finite
specifications whose references are in order (`References`) and whose dependencies
are non-empty and well founded. Kahn's rounds are a recursive
function; what they compute is proved with `SetInduction`: in a well-founded map
every round adds a child until all are there, so as many rounds as children are
enough, and in any other map the children of a set without a first one never enter. The one
assumption is that the dependency map of a request is finite.

`Inv` adds what a call knows from its snapshot: that a child it dispatches had all
its parents committed, that what it is about to record of a child is that child's
outcome, that a `TransactionCompleted` it has decided on is earned. All of this is
stable, because committed stays committed, and so survives other calls, however
stale the snapshot.

In behaviours without overlapping calls (`[]NoOverlap`, again a condition that nothing
enforces), `DependentsFirst`, `ClosedIsSettled` and
`TransactionTerminalIsFinal` follow from `OnlyInv`: the folds of the stream are exact
(what is recorded of a child is all that happened to it, but for the one child in the
call's hands), reversals went against the dependencies, and the call's snapshot is
the stream. The step that needs thought is the end of a rollback: when no child is
ready to be rolled back, none is left standing, since among the children left standing
one would have no dependent left standing (`SomeChildIsLast`, again from the rounds of
`validateDAG`).

### Provisioning

For any number of Holders, Wallets and calls: `TypeOK`, `AddedMeansOpened`,
`RecordedOnce` and `OpenedForCaller`. `Inv` says of a call that the Wallets it has
planned to add are different, not yet in the list it read, and open for its Holder or
about to be opened by the same append (`Planned`); an owner once recorded stays, and
an append that lands finds the list it was planned on.

### Service and Migrate

`SchemaMatches` for any number of boots and migrations: as long as no migrator goes
against another, one that goes down takes back the last version on record and those
that go up add the next (`SchemaInv`). `ReplyIsKept` and
`OnboardedIsProvisioned` from `ReplyInv`: a handler at position n of its round trips
has every decisive effect before n behind it, whatever died in between, effects are
never undone, and a success is only sent past the last decisive one, or by an
`AddWallet`; a conflict that `Provision` takes for success comes from an attempt that
wrote the same
(`steps` are the tables of the module, so the lemmas about them go through the
methods one by one).

### Ledger and Money

`LedgerProofs` has what the operators of `Ledger` do for every ledger and every batch:
a batch is applied as a whole or not at all, a ledger stays well formed and within its
limits, a duplicate changes nothing, entries are never overwritten, an expiry gives back
what was reserved. A batch is a recursive function of its length; what holds after
every entry holds of the batch, by `SetInduction`. It also has the books (`Booked`): each
of the four totals of an account is the sum, over the entries in effect or over the
reservations still held, of what they take from it or bring to it. Every entry keeps
the books: a transfer adds a summand, a post moves one from the held to those in effect
(at the amount the reservation was made for), a void or an expiry drops one; hence so do
a batch, a new account and an expiry. The sums are `SumOver` of `Induction`, where
finite-set induction shows that a sum does not depend on the order of its elements, can
be split, and can be taken over renamed elements.

`MoneyProofs` is about any number of Wallets, Tokens, Transfers, Reversals, Mints and
crashes, both rules, every request and every way the model may start: from
`MoneyAssumption`, which says what the handlers validated and that the streams at the
start are those of open Wallets with existing Tokens. Five invariants, one above the
other:

* `MoneyInv` gives `NeverOverspent`, `MintedIsBackedAndListed` and
  `OpenTokensLeftAlone`. Streams list exactly the minted Tokens, accounts precede them,
  money moves between minted Tokens only, every account is within its limits, and a
  driver holds Tokens that were visible to it or that it is about to mint. It survives
  other drivers because streams and accounts only grow and Transactions only close
  (`Grows`).
* `LogInv` gives `LogMatchesLedger` and `StagedFundsStayReserved`. What the ledger
  holds under the ids of a Transfer are entries of its own manifest (`EntriesOf`), all of
  them or none (`Whole`), and stand for the state on record or for the outcome its
  driver is about to record (`StandsFor`), except where a record may lie: a withdrawn
  Transfer, and a failed one whose replay the ledger does not recognise. The step that
  needs thought is a submission that is refused: a fresh batch that is refused has left
  nothing, and a replayed one is refused only where it is not recognised. That open reservations can
  be posted and voided follows from the limits: under TigerBeetle's rule neither brings
  an account above what the reservation already took.
* `CoverInv` gives `ManifestCoversRequest`. During a selection the legs taken and the
  amount left add up to the request, and the Tokens taken are listed before every Token
  still to be read; planning a destination changes no amount, and the append that records
  the manifest mints the Tokens it names.
* `PathInv` says where money goes: every leg moves something from one Token to another
  (`ApartInv`), a reversal has the legs of a committed Transfer turned round
  (`ReversalInv`), and every other Transfer moves money into Tokens that no other one
  moves money into (`OwnInv`).
* `BooksInv` is `Booked` for the ledger together with `EntryInv`: no entry is there
  without a Transfer it belongs to.

`BalancesExplained` follows from `BooksInv` and `LogInv`: the entries in effect are, one
for one, the legs that are posted, as themselves or through the post of a reservation, so
the sum over entries is a sum over legs under new names, and `MapThenSumSet` computes it.
It holds of any number of Transfers with any number of legs; only what the ledger
holds is finite.

`ReversedOnce` follows from all of them: as long as no reversal brings money back to a
Token, it has received at most what the one Transfer it was minted for brought
(`OwnInv`). Every committed reversal of that Transfer has taken this amount out again
(`ReversalInv`), so two of them would have taken more than the Token received, which
its limit forbids (`NeverOverspent`).

### Only model-checked

* Liveness (`SelfHeals`, `StagedResolves`, `ProvisionConverges`, `AppendReturns`,
  `Settles`, `ShutdownEnds`): fairness is outside the prover.

Every invariant and every action property that a passing run checks has a theorem.

## 5. Not modelled

Left out for good, and why:

* `*.pb.go`: message types and descriptors, which hold data and no control, and
  the generated Go clients, which only the tests use.
* The syntax of UUIDs, the hashing in `detid` and the currency of an amount. Ids are
  model values and deterministic ids are equal exactly when their inputs are, which is
  what the code relies on.
* Amounts at or above 2^63: `AccountBalance` converts unsigned totals, and no
  instance TLC can enumerate comes near that.
* `healthz`, configuration, logging, Docker.
* GraphQL resolvers and the Vue client, which pass requests on.
* `OperationService` called from outside: its RPCs go through `Service` as round
  trips, and the `advance` behind them is `TransferSaga`'s; a client that cancels
  one Operation of a running Transfer by itself is outside the protocol the sagas
  are written for.
