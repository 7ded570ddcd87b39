------------------------------- MODULE Service -------------------------------
(***************************************************************************)
(* The way of a command through the backend: from the caller (the Ruby      *)
(* service OnboardEntity) over HTTP and the generated Twirp servers to a    *)
(* handler and back, in a server process that boots, migrates, drains and   *)
(* dies (go/cmd/server, docker/go/entrypoint.sh).                           *)
(*                                                                          *)
(* One command is followed; its caller may send it several times, and a     *)
(* handler whose caller has given up runs on.  What handlers do with the    *)
(* streams and the ledger is the subject of the other modules: here a       *)
(* handler is the sequence of its round trips, each of which may fail, and  *)
(* every effect is idempotent, as those modules show.  No service is given  *)
(* Twirp hooks or interceptors.                                             *)
(***************************************************************************)
EXTENDS Migrate

CONSTANTS
    Scenarios,    \* commands and circumstances: see MCService
    MAX_ATTEMPTS  \* how often the caller sends a command

ASSUME ServiceAssumption ==
    /\ {"entrypoint", "operator"} \subseteq Migrators
    /\ MAX_ATTEMPTS \in Nat \ {0}
    /\ \A s \in Scenarios : s.maxBoots \in Nat /\ s.maxFaults \in Nat

VARIABLES
    scenario,  \* the command of this behaviour: constant
    proc,      \* the server process
    grace,     \* whether shutdownGrace is over
    db,        \* whether Postgres answers
    req,       \* per attempt, the request at the server
    client,    \* the caller
    onboarded, \* the caller has committed its own rows
    effects,   \* the steps of the handler whose effect is durable
    boots, faults

vars == <<table, recorded, migrator, scenario, proc, grace, db, req, client,
          onboarded, effects, boots, faults>>
processVars == <<proc, grace, boots>>
callerVars == <<client, onboarded>>

command == scenario.command
MaxBoots == scenario.maxBoots    \* bound on boots of the server
MaxFaults == scenario.maxFaults  \* bound on crashes, outages, panics and timeouts
Attempts == 1..MAX_ATTEMPTS

-----------------------------------------------------------------------------
(* Handlers as sequences of round trips.  A handler returns the error of a   *)
(* step, except for the steps of a saga it drives after the decision: these  *)
(* are logged (logSagaError) and the handler goes on behind them.            *)

Load == [op |-> "load", driven |-> FALSE]
Append1 == [op |-> "append", driven |-> FALSE]
Submit == [op |-> "ledger", driven |-> FALSE]
Driven(ops) == [i \in DOMAIN ops |-> [op |-> ops[i], driven |-> TRUE]]

HolderHandlers ==
    [Establish |-> <<Load, Append1>>, AddWallet |-> <<Load, Append1>>,
     Provision |-> <<Load, Append1>>]

WalletHandlers == [Open |-> <<Load, Append1>>]

TokenHandlers == [Mint |-> <<Load, Submit, Append1>>]

OperationHandlers == [Initiate |-> <<Load, Append1>>, Cancel |-> <<Load, Append1>>]

TransferHandlers ==
    [RequestTransfer        |-> <<Load, Append1>> \o Driven(<<"ledger", "append", "ledger", "append">>),
     RequestReversal        |-> <<Load, Append1>> \o Driven(<<"append", "ledger", "append">>),
     CancelAcceptedTransfer |-> <<Load, Append1>>,
     ConfirmStagedTransfer  |-> <<Load, Append1>>,
     CancelStagedTransfer   |-> <<Load, Submit, Append1>>,
     PostPendingTransfer    |-> <<Load, Submit, Append1, Load>>]

TransactionHandlers ==
    [StartInitializingTransaction |-> <<Load, Append1>> \o Driven(<<"append", "ledger", "append">>),
     StartProcessingTransfer      |-> <<Load, Append1>> \o Driven(<<"ledger", "append">>) \o <<Load>>,
     ResumeTransaction            |-> <<Load>> \o Driven(<<"ledger", "append">>) \o <<Load>>,
     StartTransactionRollback     |-> <<Load, Append1>> \o Driven(<<"ledger", "append">>) \o <<Load>>]

Handlers == [holder |-> HolderHandlers, wallet |-> WalletHandlers, token |-> TokenHandlers,
             operation |-> OperationHandlers, transfer |-> TransferHandlers,
             transaction |-> TransactionHandlers]

Methods == [service \in DOMAIN Handlers |-> DOMAIN Handlers[service]]

steps == Handlers[command.service][command.method]

\* The effects a caller is promised by a reply without an error.
Decisive(handler) == {i \in DOMAIN handler : handler[i].op # "load" /\ ~handler[i].driven}

-----------------------------------------------------------------------------
(* Requests.                                                                 *)

InFlight(r) == req[r].pc \in {"sent", "routed", "handling", "replying"}
NoneInFlight == \A r \in Attempts : ~InFlight(r)

\* A request is only worked on while its process lives.
Alive == proc \in {"serving", "draining", "closing", "closed"}

Goto(r, pc) == req' = [req EXCEPT ![r].pc = pc]
Handle(r) == req' = [req EXCEPT ![r].pc = "handling", ![r].pos = 0]

\* The reply is made up; Write sends it.
Reply(r, code) ==
    req' = [req EXCEPT ![r].pc = "replying", ![r].code = code, ![r].conn = FALSE]

Unmoved == UNCHANGED <<migrateVars, processVars, callerVars, scenario, db, effects, faults>>

\* The mux knows the path prefixes of the six services and /healthz.
NotMounted(r) ==
    /\ req[r].pc = "sent" /\ Alive
    /\ command.path = "unmounted"
    /\ Reply(r, "not_found")
    /\ Unmoved

\* POST <prefix>/<package>.<Service>/<Method>, with a method of this service.
Routable(service) ==
    /\ command.verb = "POST"
    /\ command.path = "good"
    /\ command.method \in Methods[service]

ServeHTTP(r, service) ==
    /\ req[r].pc = "sent" /\ Alive
    /\ command.path # "unmounted"
    /\ command.service = service
    /\ IF Routable(service) THEN Goto(r, "routed") ELSE Reply(r, "bad_route")
    /\ Unmoved

holderServeHTTP(r) == ServeHTTP(r, "holder")
walletServeHTTP(r) == ServeHTTP(r, "wallet")
tokenServeHTTP(r) == ServeHTTP(r, "token")
operationServeHTTP(r) == ServeHTTP(r, "operation")
transactionServeHTTP(r) == ServeHTTP(r, "transaction")
transferServeHTTP(r) == ServeHTTP(r, "transfer")

UnexpectedContentType(r) ==
    /\ req[r].pc = "routed" /\ Alive
    /\ command.contentType \notin {"json", "protobuf"}
    /\ Reply(r, "bad_route")
    /\ Unmoved

Routed(r, method, contentType) ==
    /\ req[r].pc = "routed" /\ Alive
    /\ command.method = method
    /\ command.contentType = contentType

\* The body cannot be read to its end once the caller has hung up; whether the
\* context is cancelled already decides what that is called.
handleRequestBodyError(r) ==
    /\ req[r].pc = "routed" /\ Alive
    /\ command.contentType \in {"json", "protobuf"}
    /\ req[r].gone # "no"
    /\ \/ Reply(r, "canceled")
       \/ Reply(r, "malformed")
    /\ Unmoved

\* No JSON at all is not a JSON value ...
ServeJSON(r, method) ==
    /\ Routed(r, method, "json")
    /\ IF command.body \in {"garbled", "empty"} THEN Reply(r, "malformed") ELSE Handle(r)
    /\ Unmoved

\* ... but it is a protobuf message, the one without fields.
ServeProtobuf(r, method) ==
    /\ Routed(r, method, "protobuf")
    /\ IF command.body = "garbled" THEN Reply(r, "malformed") ELSE Handle(r)
    /\ Unmoved

serveEstablishJSON(r) == ServeJSON(r, "Establish")
serveEstablishProtobuf(r) == ServeProtobuf(r, "Establish")
serveAddWalletJSON(r) == ServeJSON(r, "AddWallet")
serveAddWalletProtobuf(r) == ServeProtobuf(r, "AddWallet")
serveProvisionJSON(r) == ServeJSON(r, "Provision")
serveProvisionProtobuf(r) == ServeProtobuf(r, "Provision")
serveOpenJSON(r) == ServeJSON(r, "Open")
serveOpenProtobuf(r) == ServeProtobuf(r, "Open")
serveMintJSON(r) == ServeJSON(r, "Mint")
serveMintProtobuf(r) == ServeProtobuf(r, "Mint")
serveInitiateJSON(r) == ServeJSON(r, "Initiate")
serveInitiateProtobuf(r) == ServeProtobuf(r, "Initiate")
serveCancelJSON(r) == ServeJSON(r, "Cancel")
serveCancelProtobuf(r) == ServeProtobuf(r, "Cancel")
serveRequestTransferJSON(r) == ServeJSON(r, "RequestTransfer")
serveRequestTransferProtobuf(r) == ServeProtobuf(r, "RequestTransfer")
serveCancelAcceptedTransferJSON(r) == ServeJSON(r, "CancelAcceptedTransfer")
serveCancelAcceptedTransferProtobuf(r) == ServeProtobuf(r, "CancelAcceptedTransfer")
serveRequestReversalJSON(r) == ServeJSON(r, "RequestReversal")
serveRequestReversalProtobuf(r) == ServeProtobuf(r, "RequestReversal")
serveConfirmStagedTransferJSON(r) == ServeJSON(r, "ConfirmStagedTransfer")
serveConfirmStagedTransferProtobuf(r) == ServeProtobuf(r, "ConfirmStagedTransfer")
serveCancelStagedTransferJSON(r) == ServeJSON(r, "CancelStagedTransfer")
serveCancelStagedTransferProtobuf(r) == ServeProtobuf(r, "CancelStagedTransfer")
servePostPendingTransferJSON(r) == ServeJSON(r, "PostPendingTransfer")
servePostPendingTransferProtobuf(r) == ServeProtobuf(r, "PostPendingTransfer")
serveStartInitializingTransactionJSON(r) == ServeJSON(r, "StartInitializingTransaction")
serveStartInitializingTransactionProtobuf(r) == ServeProtobuf(r, "StartInitializingTransaction")
serveStartProcessingTransferJSON(r) == ServeJSON(r, "StartProcessingTransfer")
serveStartProcessingTransferProtobuf(r) == ServeProtobuf(r, "StartProcessingTransfer")
serveResumeTransactionJSON(r) == ServeJSON(r, "ResumeTransaction")
serveResumeTransactionProtobuf(r) == ServeProtobuf(r, "ResumeTransaction")
serveStartTransactionRollbackJSON(r) == ServeJSON(r, "StartTransactionRollback")
serveStartTransactionRollbackProtobuf(r) == ServeProtobuf(r, "StartTransactionRollback")

Serve(r) ==
    \/ NotMounted(r) \/ UnexpectedContentType(r) \/ handleRequestBodyError(r)
    \/ holderServeHTTP(r) \/ walletServeHTTP(r) \/ tokenServeHTTP(r)
    \/ operationServeHTTP(r) \/ transactionServeHTTP(r) \/ transferServeHTTP(r)
    \/ serveEstablishJSON(r) \/ serveEstablishProtobuf(r)
    \/ serveAddWalletJSON(r) \/ serveAddWalletProtobuf(r)
    \/ serveProvisionJSON(r) \/ serveProvisionProtobuf(r)
    \/ serveOpenJSON(r) \/ serveOpenProtobuf(r)
    \/ serveMintJSON(r) \/ serveMintProtobuf(r)
    \/ serveInitiateJSON(r) \/ serveInitiateProtobuf(r)
    \/ serveCancelJSON(r) \/ serveCancelProtobuf(r)
    \/ serveRequestTransferJSON(r) \/ serveRequestTransferProtobuf(r)
    \/ serveCancelAcceptedTransferJSON(r) \/ serveCancelAcceptedTransferProtobuf(r)
    \/ serveRequestReversalJSON(r) \/ serveRequestReversalProtobuf(r)
    \/ serveConfirmStagedTransferJSON(r) \/ serveConfirmStagedTransferProtobuf(r)
    \/ serveCancelStagedTransferJSON(r) \/ serveCancelStagedTransferProtobuf(r)
    \/ servePostPendingTransferJSON(r) \/ servePostPendingTransferProtobuf(r)
    \/ serveStartInitializingTransactionJSON(r) \/ serveStartInitializingTransactionProtobuf(r)
    \/ serveStartProcessingTransferJSON(r) \/ serveStartProcessingTransferProtobuf(r)
    \/ serveResumeTransactionJSON(r) \/ serveResumeTransactionProtobuf(r)
    \/ serveStartTransactionRollbackJSON(r) \/ serveStartTransactionRollbackProtobuf(r)

-----------------------------------------------------------------------------
(* Handlers.                                                                 *)

\* Every handler looks at the ids and amounts first.
Validate(r) ==
    /\ req[r].pc = "handling" /\ req[r].pos = 0 /\ Alive
    /\ IF command.body = "good" THEN req' = [req EXCEPT ![r].pos = 1]
                                ELSE Reply(r, "invalid_argument")
    /\ Unmoved

Current(r) == steps[req[r].pos]
InHandler(r) == req[r].pc = "handling" /\ req[r].pos \in DOMAIN steps /\ Alive

InLedger(r) == Current(r).op = "ledger"

\* A store call takes a connection from the pool until pool.Close is called.
Acquire(r) ==
    /\ InHandler(r) /\ ~InLedger(r)
    /\ ~req[r].conn
    /\ proc \in {"serving", "draining"} /\ req[r].gone # "noticed"
    /\ req' = [req EXCEPT ![r].conn = TRUE]
    /\ Unmoved

\* A store call needs a connection, the database, its table and a live context;
\* a ledger call only an open client: RealClient ignores the context.
Works(r) ==
    IF InLedger(r)
      THEN proc \in {"serving", "draining"}
      ELSE req[r].conn /\ db = "up" /\ table # "none" /\ req[r].gone # "noticed"

\* The command is refused on its merits once the streams are read.
Refuse(r) ==
    /\ InHandler(r) /\ req[r].pos = 2
    /\ command.refused
    /\ Reply(r, "ok")
    /\ Unmoved

Step(r) ==
    /\ InHandler(r)
    /\ command.refused => req[r].pos = 1
    /\ Works(r)
    /\ effects' = IF Current(r).op = "load" THEN effects ELSE effects \union {req[r].pos}
    /\ req' = [req EXCEPT ![r].pos = @ + 1, ![r].conn = FALSE]
    /\ UNCHANGED <<migrateVars, processVars, callerVars, scenario, db, faults>>

\* appendConverging takes a version conflict for the wanted result, without a
\* second look.  Any command on its Holder costs an AddWallet its append; the
\* ids of an onboarding are new, so only its own retries can cost a Provision.
appendConverging(r) ==
    /\ InHandler(r) /\ Works(r)
    /\ Current(r).op = "append" /\ ~command.refused
    /\ \/ command.method = "AddWallet"
       \/ command.method = "Provision" /\ req[r].pos \in effects
    /\ req' = [req EXCEPT ![r].pos = @ + 1, ![r].conn = FALSE]
    /\ Unmoved

\* Behind the driven steps that start here.
Behind(i) == CHOOSE j \in i..Len(steps) + 1 :
                /\ \A k \in i..j - 1 : steps[k].driven
                /\ j \in DOMAIN steps => ~steps[j].driven

\* Mutant: every error is only logged.
Failed_Logged(r) == [req EXCEPT ![r].pos = @ + 1, ![r].conn = FALSE]

\* The step's error: logged behind the decision, returned before it.
Failed(r) ==
    IF Current(r).driven
      THEN [req EXCEPT ![r].pos = Behind(@), ![r].conn = FALSE]
      ELSE [req EXCEPT ![r].pc = "replying", ![r].code = "internal", ![r].conn = FALSE]

Noticed(r, f) == [f EXCEPT ![r].gone = IF @ = "closed" THEN "noticed" ELSE @]

\* A closed ledger client or pool, a database that is gone or has no table, or
\* a context that ends.
Fails(r) ==
    IF InLedger(r)
      THEN ~Works(r)
      ELSE \/ db = "down"
           \/ req[r].gone # "no"
           \/ IF req[r].conn THEN table = "none" ELSE proc \in {"closing", "closed"}

\* A call that is cut off may have taken effect all the same.
Landed(r) ==
    IF InLedger(r)
      THEN proc = "closing"
      ELSE Current(r).op = "append" /\ req[r].conn /\ table # "none" /\ req[r].gone # "noticed"

StepFails(r) ==
    /\ InHandler(r)
    /\ Fails(r)
    /\ req' = Noticed(r, Failed(r))
    /\ \/ UNCHANGED effects
       \/ Landed(r) /\ effects' = effects \union {req[r].pos}
    /\ UNCHANGED <<migrateVars, processVars, callerVars, scenario, db, faults>>

Finish(r) ==
    /\ req[r].pc = "handling" /\ req[r].pos = Len(steps) + 1 /\ Alive
    /\ Reply(r, "ok")
    /\ Unmoved

\* The caller is told before the panic goes on and ends the connection.
ensurePanicResponses(r) ==
    /\ InHandler(r)
    /\ faults < MaxFaults
    /\ faults' = faults + 1
    /\ Reply(r, "internal")
    /\ UNCHANGED <<migrateVars, processVars, callerVars, scenario, db, effects>>

\* A reply to a connection that is gone is lost without a trace.
Write(r) ==
    /\ req[r].pc = "replying" /\ Alive
    /\ Goto(r, "answered")
    /\ Unmoved

HandlerStep(r) ==
    Validate(r) \/ Acquire(r) \/ Refuse(r) \/ Step(r) \/ appendConverging(r)
    \/ StepFails(r) \/ Finish(r) \/ ensurePanicResponses(r) \/ Write(r)

-----------------------------------------------------------------------------
(* The caller: provision! of OnboardEntity.                                  *)

ClientGoto(pc, result) == client' = [client EXCEPT !.pc = pc, !.result = result]
CallerOnly == UNCHANGED <<migrateVars, processVars, scenario, db, effects>>

Call ==
    /\ client.pc = "call"
    /\ IF proc = "serving"
         THEN /\ Goto(client.attempt, "sent")
              /\ ClientGoto("waiting", "none")
         ELSE /\ ClientGoto("decide", "transport")
              /\ UNCHANGED req
    /\ UNCHANGED <<onboarded, faults>> /\ CallerOnly

Receive ==
    /\ client.pc = "waiting"
    /\ req[client.attempt].pc = "answered"
    /\ ClientGoto("decide", req[client.attempt].code)
    /\ UNCHANGED <<req, onboarded, faults>> /\ CallerOnly

ConnectionReset ==
    /\ client.pc = "waiting"
    /\ req[client.attempt].pc = "dead"
    /\ ClientGoto("decide", "transport")
    /\ UNCHANGED <<req, onboarded, faults>> /\ CallerOnly

\* The HTTP client's timeout: it hangs up, and the handler runs on.
ClientTimeout ==
    /\ client.pc = "waiting"
    /\ InFlight(client.attempt)
    /\ faults < MaxFaults
    /\ faults' = faults + 1
    /\ req' = [req EXCEPT ![client.attempt].gone = "closed"]
    /\ ClientGoto("decide", "transport")
    /\ UNCHANGED onboarded /\ CallerOnly

\* Of RETRYABLE_CODES the servers send "internal"; Faraday errors count too.
retryable(code) ==
    client.attempt < MAX_ATTEMPTS /\ code \in {"transport", "internal"}

\* Mutant: a reply without an error is a provisioned Holder.
Accepted_Trusted == client.result = "ok"

\* check_accepted!: a refusal arrives as a successful reply.
Accepted == client.result = "ok" /\ ~command.refused

\* The same ids go out again, or the outcome is final.  Only Provision has a
\* caller of its own with rows to write.
Decide ==
    /\ client.pc = "decide"
    /\ client' = CASE retryable(client.result) ->
                       [client EXCEPT !.pc = "call", !.attempt = @ + 1]
                  [] ~retryable(client.result) /\ Accepted ->
                       [client EXCEPT !.pc = IF command.method = "Provision" THEN "persist" ELSE "done"]
                  [] OTHER -> [client EXCEPT !.pc = "failed"]
    /\ UNCHANGED <<req, onboarded, faults>> /\ CallerOnly

\* The entity and its accounts in one transaction, or nothing of them.
persist ==
    /\ client.pc = "persist"
    /\ \/ /\ db = "up"
          /\ onboarded' = TRUE
          /\ ClientGoto("done", client.result)
       \/ /\ db = "down"
          /\ ClientGoto("failed", client.result)
          /\ UNCHANGED onboarded
    /\ UNCHANGED <<req, faults>> /\ CallerOnly

CallerStep == Call \/ Receive \/ ConnectionReset \/ ClientTimeout \/ Decide \/ persist

-----------------------------------------------------------------------------
(* The process.                                                              *)

Killed ==
    [r \in Attempts |-> IF InFlight(r) THEN [req[r] EXCEPT !.pc = "dead", !.conn = FALSE]
                                      ELSE req[r]]
Environment == UNCHANGED <<callerVars, scenario, effects>>

\* entrypoint.sh: wait for Postgres, then migrate up.
Boot ==
    /\ proc = "down"
    /\ boots < MaxBoots
    /\ db = "up"
    /\ runUp("entrypoint")
    /\ proc' = "booting"
    /\ boots' = boots + 1
    /\ UNCHANGED <<grace, db, req, faults>> /\ Environment

\* A migration that fails ends the container (set -e), and so does a failed Ping.
BootFails ==
    /\ proc = "booting"
    /\ migrator["entrypoint"].pc = "fatal" \/ db = "down"
    /\ proc' = "down"
    /\ migrator' = [migrator EXCEPT !["entrypoint"] = Off]
    /\ UNCHANGED <<table, recorded, grace, db, req, boots, faults>> /\ Environment

ListenAndServe ==
    /\ proc = "booting"
    /\ migrator["entrypoint"].pc = "done"
    /\ db = "up"
    /\ proc' = "serving"
    /\ grace' = "running"
    /\ migrator' = [migrator EXCEPT !["entrypoint"] = Off]
    /\ UNCHANGED <<table, recorded, db, req, boots, faults>> /\ Environment

\* SIGTERM: no more connections are accepted, requests go on.
Sigterm ==
    /\ proc = "serving"
    /\ proc' = "draining"
    /\ UNCHANGED <<migrateVars, grace, db, req, boots, faults>> /\ Environment

GraceExpires ==
    /\ proc = "draining" /\ grace = "running"
    /\ grace' = "expired"
    /\ UNCHANGED <<migrateVars, proc, db, req, boots, faults>> /\ Environment

\* Mutant: there is no deadline.
Drained_NoDeadline == NoneInFlight

Drained == NoneInFlight \/ grace = "expired"

\* Shutdown returns and main's deferred calls run, the ledger's Close first.
ShutdownReturns ==
    /\ proc = "draining"
    /\ Drained
    /\ proc' = "closing"
    /\ UNCHANGED <<migrateVars, grace, db, req, boots, faults>> /\ Environment

\* pool.Close waits, without a deadline, until every connection is given back.
Busy == \E r \in Attempts : req[r].conn

ClosePool ==
    /\ proc = "closing"
    /\ ~Busy
    /\ proc' = "closed"
    /\ UNCHANGED <<migrateVars, grace, db, req, boots, faults>> /\ Environment

Exit ==
    /\ proc = "closed"
    /\ proc' = "down"
    /\ req' = Killed
    /\ UNCHANGED <<migrateVars, grace, db, boots, faults>> /\ Environment

Crash ==
    /\ proc # "down"
    /\ faults < MaxFaults
    /\ faults' = faults + 1
    /\ proc' = "down"
    /\ req' = Killed
    /\ migrator' = [migrator EXCEPT !["entrypoint"] = Off]
    /\ UNCHANGED <<table, recorded, grace, db, boots>> /\ Environment

Outage ==
    /\ \/ db = "up" /\ faults < MaxFaults /\ db' = "down" /\ faults' = faults + 1
       \/ db = "down" /\ db' = "up" /\ UNCHANGED faults
    /\ UNCHANGED <<migrateVars, processVars, req>> /\ Environment

\* bin/db_migrate.sh, by hand.
Operate ==
    /\ \/ scenario.operator = "up" /\ runUp("operator")
       \/ scenario.operator = "down" /\ runDown("operator")
    /\ db = "up"
    /\ UNCHANGED <<processVars, db, req, faults>> /\ Environment

MigrateStep(m) ==
    /\ applyStep(m) \/ migrated(m)
    /\ db = "up"
    /\ UNCHANGED <<processVars, db, req, faults>> /\ Environment

ShutdownStep == GraceExpires \/ ShutdownReturns \/ ClosePool \/ Exit

Init ==
    /\ MigrateInit
    /\ scenario \in Scenarios
    /\ proc = "down"
    /\ grace = "running"
    /\ db = "up"
    /\ req = [r \in Attempts |-> [pc |-> "unsent", pos |-> 0, gone |-> "no", code |-> "none", conn |-> FALSE]]
    /\ client = [pc |-> "call", attempt |-> 1, result |-> "none"]
    /\ onboarded = FALSE
    /\ effects = {}
    /\ boots = 0
    /\ faults = 0

Next ==
    \/ \E r \in Attempts : Serve(r) \/ HandlerStep(r)
    \/ CallerStep
    \/ Boot \/ BootFails \/ ListenAndServe \/ Sigterm \/ ShutdownStep
    \/ Crash \/ Outage \/ Operate
    \/ \E m \in Migrators : MigrateStep(m)

\* main leaves Shutdown when its deadline passes and runs its deferred calls, the
\* pool's Close as far as it can; nothing is assumed of handlers, callers, the
\* database or the ledger.
Spec == Init /\ [][Next]_vars /\ WF_vars(ShutdownStep)

-----------------------------------------------------------------------------
(* Properties.                                                               *)

WellFormed ==
    /\ command.verb = "POST"
    /\ command.path = "good"
    /\ command.method \in Methods[command.service]
    /\ command.contentType \in {"json", "protobuf"}
    /\ command.body = "good"

\* A reply without an error is kept: whatever the handler promises by it is on
\* record, also when a saga step behind the decision failed, the context was
\* cancelled, the ledger was being closed, or another attempt did the work.  Not
\* so AddWallet's, which a version conflict makes a success without effect.
\* What is not a well-formed POST of a valid message to a method of a mounted
\* service is never answered with success and changes nothing, in either
\* encoding (ServeHTTP, the generated serve functions, id and money.Validate).
ReplyIsKept ==
    /\ \A r \in Attempts : req[r].code = "ok" =>
          /\ WellFormed
          /\ command.refused \/ command.method = "AddWallet" \/ Decisive(steps) \subseteq effects
    /\ effects # {} => WellFormed

\* An entity is on record in the business backend only if its Holder and
\* Wallets are in the event log, through timeouts, retries, restarts and
\* refusals (provision! and persist of OnboardEntity).
OnboardedIsProvisioned ==
    onboarded => /\ ~command.refused
                 /\ Decisive(HolderHandlers.Provision) \subseteq effects

\* A signalled server ends, even if a handler hangs in the ledger forever; only a
\* statement that never returns its connection keeps it in pool.Close.
ShutdownEnds == (proc = "draining") ~> (proc = "down" \/ [](proc = "closing" /\ Busy))
=============================================================================
