---------------------------- MODULE ServiceProofs ----------------------------
(***************************************************************************)
(* What a reply is worth and what the schema record is worth, for every     *)
(* command, any number of attempts and any number of faults.                *)
(***************************************************************************)
EXTENDS Service, Induction, TLAPS

-----------------------------------------------------------------------------
(* Migrations.                                                               *)

\* Whoever migrates up takes the versions from the first or from the second on;
\* whoever migrates down takes back the last one on record.
SchemaInv ==
    /\ RecordMatches
    /\ migrator \in [Migrators -> [pc : {"off", "up", "down", "fatal", "done"}, todo : SUBSET {1, 2}]]
    /\ \A m \in Migrators :
         /\ m \notin {"entrypoint", "operator"} => migrator[m] = Off
         /\ migrator[m].pc = "up" => migrator[m].todo \in {{}, {2}, {1, 2}}
         /\ migrator[m].pc = "down" => /\ m = "operator"
                                       /\ \/ migrator[m].todo = {}
                                          \/ migrator[m].todo = {1} /\ recorded = {1}
                                          \/ migrator[m].todo = {2} /\ recorded = {1, 2}

\* Max and Min of the sets of versions.
LEMMA Extremes ==
    /\ Max({1}) = 1 /\ Max({1, 2}) = 2
    /\ Min({1}) = 1 /\ Min({2}) = 2 /\ Min({1, 2}) = 1
BY DEF Max, Min

\* Where a migrator's step takes it.
LEMMA MigrateMoves ==
    ASSUME SchemaInv, NEW m \in Migrators, NEW pc \in {"off", "up", "down", "fatal", "done"},
           NEW todo \in SUBSET {1, 2}, MigrateGoto(m, pc, todo)
    PROVE  /\ migrator' \in [Migrators -> [pc : {"off", "up", "down", "fatal", "done"}, todo : SUBSET {1, 2}]]
           /\ migrator'[m].pc = pc /\ migrator'[m].todo = todo
           /\ \A n \in Migrators : n # m => migrator'[n] = migrator[n]
BY DEF SchemaInv, MigrateGoto

\* One migrator's step keeps the record true.
LEMMA MigrationKeepsSchema ==
    ASSUME SchemaInv, OneDirection, NEW m \in Migrators, applyStep(m) \/ migrated(m)
    PROVE  SchemaInv'
<1>0. /\ m \in {"entrypoint", "operator"} /\ migrator[m].todo \in SUBSET {1, 2}
      /\ migrator[m].pc \in {"up", "down"} /\ {} \in SUBSET {1, 2}
      /\ "entrypoint" \in Migrators /\ "operator" \in Migrators
  BY ServiceAssumption DEF applyStep, migrated, Running, SchemaInv, Off
<1>1. ASSUME NEW pc \in {"fatal", "done"}, MigrateGoto(m, pc, {}), UNCHANGED <<table, recorded>> PROVE SchemaInv'
  BY <1>0, <1>1, MigrateMoves DEF SchemaInv, RecordMatches, Running
<1>2. CASE migrated(m)
  BY <1>1, <1>2 DEF migrated
<1>3. CASE applyStep(m)
  <2> DEFINE v == Min(migrator[m].todo)
             rest == migrator[m].todo \ {v}
             up == migrator[m].pc = "up"
  <2>1. CASE ~(Fits(v, migrator[m].pc) /\ ~(up /\ v \in recorded))
    BY <1>1, <1>3, <2>1 DEF applyStep
  <2>2. CASE Fits(v, migrator[m].pc) /\ ~(up /\ v \in recorded)
    <3>1. /\ table' = Result(v, migrator[m].pc) /\ migrator[m].todo # {}
          /\ recorded' = IF up THEN recorded \union {v} ELSE recorded \ {v}
          /\ MigrateGoto(m, migrator[m].pc, rest)
      BY <1>3, <2>2 DEF applyStep
    <3>2. migrator[m].todo = {1} => v = 1 /\ rest = {}
      BY Extremes
    <3>3. migrator[m].todo = {2} => v = 2 /\ rest = {}
      BY Extremes
    <3>4. migrator[m].todo = {1, 2} => v = 1 /\ rest = {2}
      BY Extremes
    <3>5. rest \in SUBSET {1, 2}
      BY <1>0
    <3> HIDE DEF v, rest
    <3>6. /\ migrator' \in [Migrators -> [pc : {"off", "up", "down", "fatal", "done"}, todo : SUBSET {1, 2}]]
          /\ migrator'[m].pc = migrator[m].pc /\ migrator'[m].todo = rest
          /\ \A n \in Migrators : n # m => migrator'[n] = migrator[n]
      BY <1>0, <3>1, <3>5, MigrateMoves
    <3>7. CASE migrator[m].pc = "up"
      <4>1. rest \in {{}, {2}} /\ v \in {1, 2} /\ v \notin recorded
        BY <2>2, <3>1, <3>2, <3>3, <3>4, <3>7 DEF SchemaInv
      <4>2. RecordMatches'
        <5>1. CASE v = 1
          <6>1. table = "none" /\ recorded' = recorded \union {1}
            BY <2>2, <3>1, <3>7, <5>1 DEF Fits
          <6>2. recorded = {}
            BY <6>1 DEF SchemaInv, RecordMatches
          <6>3. table' = "text"
            BY <3>1, <3>7, <5>1 DEF Result
          <6> QED BY <6>1, <6>2, <6>3 DEF RecordMatches
        <5>2. CASE v = 2
          <6>1. recorded = {1} /\ table' = "uuid" /\ recorded' = recorded \union {2}
            BY <2>2, <3>1, <3>7, <4>1, <5>2 DEF SchemaInv, RecordMatches, Fits, Result
          <6> QED BY <6>1 DEF RecordMatches
        <5> QED BY <4>1, <5>1, <5>2
      <4>3. \A n \in Migrators : migrator[n].pc # "down"
        BY <3>7 DEF OneDirection
      <4> QED BY <1>0, <3>6, <3>7, <4>1, <4>2, <4>3 DEF SchemaInv
    <3>8. CASE migrator[m].pc = "down"
      <4>1. /\ m = "operator" /\ rest = {}
            /\ (v = 1 /\ recorded = {1}) \/ (v = 2 /\ recorded = {1, 2})
        BY <3>1, <3>2, <3>3, <3>8 DEF SchemaInv
      <4>2. RecordMatches'
        <5>1. CASE v = 1 /\ recorded = {1}
          <6>1. table' = "none" /\ recorded' = recorded \ {1}
            BY <3>1, <3>8, <5>1 DEF Result
          <6> QED BY <5>1, <6>1 DEF RecordMatches
        <5>2. CASE v = 2 /\ recorded = {1, 2}
          <6>1. table' = "text" /\ recorded' = recorded \ {2}
            BY <3>1, <3>8, <5>2 DEF Result
          <6> QED BY <5>2, <6>1 DEF RecordMatches
        <5> QED BY <4>1, <5>1, <5>2
      <4>3. \A n \in Migrators : migrator[n].pc = "down" => n = m
        BY <4>1 DEF SchemaInv
      <4> QED BY <1>0, <3>6, <3>8, <4>1, <4>2, <4>3 DEF SchemaInv
    <3> QED BY <1>0, <3>7, <3>8
  <2> QED BY <2>1, <2>2
<1> QED BY <1>2, <1>3

\* A migrator starts.
LEMMA StartKeepsSchema ==
    ASSUME SchemaInv,
           runUp("entrypoint") \/ runUp("operator") \/ runDown("operator")
    PROVE  SchemaInv'
<1>0. "entrypoint" \in Migrators /\ "operator" \in Migrators
  BY ServiceAssumption
<1>1. migrationVersions \ recorded \in {{}, {2}, {1, 2}} /\ UNCHANGED <<table, recorded>>
  BY DEF SchemaInv, RecordMatches, migrationVersions, runUp, runDown
<1>2. RecordMatches'
  BY <1>1 DEF SchemaInv, RecordMatches
<1>3. ASSUME NEW m \in {"entrypoint", "operator"}, runUp(m) PROVE SchemaInv'
  <2> DEFINE todo == migrationVersions \ recorded
  <2>1. todo \in {{}, {2}, {1, 2}} /\ todo \in SUBSET {1, 2} /\ MigrateGoto(m, "up", todo)
    BY <1>1, <1>3 DEF runUp
  <2> HIDE DEF todo
  <2>2. /\ migrator' \in [Migrators -> [pc : {"off", "up", "down", "fatal", "done"}, todo : SUBSET {1, 2}]]
        /\ migrator'[m].pc = "up" /\ migrator'[m].todo = todo
        /\ \A n \in Migrators : n # m => migrator'[n] = migrator[n]
    BY <1>0, <1>3, <2>1, MigrateMoves
  <2> QED BY <1>1, <1>2, <1>3, <2>1, <2>2 DEF SchemaInv
<1>4. ASSUME runDown("operator") PROVE SchemaInv'
  <2> DEFINE todo == IF recorded = {} THEN {} ELSE {Max(recorded)}
  <2>1. /\ todo = {} \/ (todo = {1} /\ recorded = {1}) \/ (todo = {2} /\ recorded = {1, 2})
        /\ MigrateGoto("operator", "down", todo)
    BY <1>4, Extremes DEF SchemaInv, RecordMatches, runDown
  <2> HIDE DEF todo
  <2>2. /\ migrator' \in [Migrators -> [pc : {"off", "up", "down", "fatal", "done"}, todo : SUBSET {1, 2}]]
        /\ migrator'["operator"].pc = "down" /\ migrator'["operator"].todo = todo
        /\ \A n \in Migrators : n # "operator" => migrator'[n] = migrator[n]
    <3>1. todo \in SUBSET {1, 2}
      BY <2>1
    <3> QED BY <1>0, <2>1, <3>1, MigrateMoves
  <2>3. \A n \in Migrators : n # "operator" => migrator[n].pc # "down"
    BY DEF SchemaInv
  <2> QED BY <1>1, <1>2, <2>1, <2>2, <2>3 DEF SchemaInv
<1> QED BY <1>3, <1>4

\* The container ends with its migration, or the migration with its container.
LEMMA EndKeepsSchema ==
    ASSUME SchemaInv, UNCHANGED <<table, recorded>>, migrator' = [migrator EXCEPT !["entrypoint"] = Off]
    PROVE  SchemaInv'
<1>1. "entrypoint" \in Migrators /\ "operator" \in Migrators
  BY ServiceAssumption
<1>2. /\ migrator' \in [Migrators -> [pc : {"off", "up", "down", "fatal", "done"}, todo : SUBSET {1, 2}]]
      /\ migrator'["entrypoint"] = Off
      /\ \A n \in Migrators : n # "entrypoint" => migrator'[n] = migrator[n]
  BY <1>1 DEF SchemaInv, Off
<1> QED BY <1>1, <1>2 DEF SchemaInv, RecordMatches, Running, Off

\* Requests, callers and the rest of the process leave the schema alone.
LEMMA QuietKeepsSchema == ASSUME SchemaInv, UNCHANGED migrateVars PROVE SchemaInv'
BY DEF SchemaInv, RecordMatches, migrateVars, Running, Off

\* What the Serve steps do, whichever service and method they belong to.
LEMMA ServeIs ==
    ASSUME NEW r, Serve(r)
    PROVE  \/ NotMounted(r) \/ UnexpectedContentType(r) \/ handleRequestBodyError(r)
           \/ \E s \in {"holder", "wallet", "token", "operation", "transaction", "transfer"} : ServeHTTP(r, s)
           \/ \E m : ServeJSON(r, m) \/ ServeProtobuf(r, m)
BY DEF Serve, holderServeHTTP, walletServeHTTP, tokenServeHTTP, operationServeHTTP,
       transactionServeHTTP, transferServeHTTP, serveEstablishJSON, serveEstablishProtobuf,
       serveAddWalletJSON, serveAddWalletProtobuf, serveProvisionJSON, serveProvisionProtobuf,
       serveOpenJSON, serveOpenProtobuf, serveMintJSON, serveMintProtobuf, serveInitiateJSON,
       serveInitiateProtobuf, serveCancelJSON, serveCancelProtobuf, serveRequestTransferJSON,
       serveRequestTransferProtobuf, serveCancelAcceptedTransferJSON,
       serveCancelAcceptedTransferProtobuf, serveRequestReversalJSON,
       serveRequestReversalProtobuf, serveConfirmStagedTransferJSON,
       serveConfirmStagedTransferProtobuf, serveCancelStagedTransferJSON,
       serveCancelStagedTransferProtobuf, servePostPendingTransferJSON,
       servePostPendingTransferProtobuf, serveStartInitializingTransactionJSON,
       serveStartInitializingTransactionProtobuf, serveStartProcessingTransferJSON,
       serveStartProcessingTransferProtobuf, serveResumeTransactionJSON,
       serveResumeTransactionProtobuf, serveStartTransactionRollbackJSON,
       serveStartTransactionRollbackProtobuf

\* Every step keeps the record true while there is one direction at a time.
LEMMA NextKeepsSchema == ASSUME SchemaInv, OneDirection, [Next]_vars PROVE SchemaInv'
<1>1. ASSUME NEW r, Serve(r) PROVE UNCHANGED migrateVars
  BY <1>1, ServeIs DEF NotMounted, UnexpectedContentType, handleRequestBodyError, ServeHTTP,
     ServeJSON, ServeProtobuf, Unmoved
<1>2. ASSUME NEW r, HandlerStep(r) PROVE UNCHANGED migrateVars
  BY <1>2 DEF HandlerStep, Validate, Acquire, Refuse, Step, appendConverging, StepFails, Finish,
     ensurePanicResponses, Write, Unmoved
<1>3. ASSUME CallerStep PROVE UNCHANGED migrateVars
  BY <1>3 DEF CallerStep, Call, Receive, ConnectionReset, ClientTimeout, Decide, persist, CallerOnly
<1>4. ASSUME Sigterm \/ ShutdownStep \/ Outage \/ UNCHANGED vars PROVE UNCHANGED migrateVars
  BY <1>4 DEF Sigterm, ShutdownStep, GraceExpires, ShutdownReturns, ClosePool, Exit, Outage, vars, migrateVars
<1>5. ASSUME BootFails \/ ListenAndServe \/ Crash PROVE SchemaInv'
  BY <1>5, EndKeepsSchema DEF BootFails, ListenAndServe, Crash
<1>6. ASSUME Boot \/ Operate PROVE SchemaInv'
  BY <1>6, StartKeepsSchema DEF Boot, Operate
<1>7. ASSUME NEW m \in Migrators, MigrateStep(m) PROVE SchemaInv'
  BY <1>7, MigrationKeepsSchema DEF MigrateStep
<1> QED BY <1>1, <1>2, <1>3, <1>4, <1>5, <1>6, <1>7, QuietKeepsSchema DEF Next

\* As long as nobody migrates up while somebody migrates down, schema_migrations
\* tells which migrations the table went through, whenever applyStep is
\* interrupted, repeated or run by two at a time.
THEOREM AlwaysSchemaMatches == Spec => SchemaMatches
<1>1. Init => SchemaInv
  BY DEF Init, MigrateInit, SchemaInv, RecordMatches, Off
<1>2. SchemaInv /\ OneDirection /\ [Next]_vars => SchemaInv'
  BY NextKeepsSchema
<1>3. SchemaInv => RecordMatches
  BY DEF SchemaInv
<1> QED BY <1>1, <1>2, <1>3, PTL DEF Spec, SchemaMatches

-----------------------------------------------------------------------------
(* Handlers.                                                                 *)

Services == {"holder", "wallet", "token", "operation", "transaction", "transfer"}
Steps == [op : {"load", "append", "ledger"}, driven : BOOLEAN]

\* A handler is a sequence of steps.
LEMMA HandlersAreSequences ==
    ASSUME NEW s \in Services, NEW m \in Methods[s]
    PROVE  Handlers[s][m] \in Seq(Steps)
<1>1. Load \in Steps /\ Append1 \in Steps /\ Submit \in Steps
  BY DEF Load, Append1, Submit, Steps
<1>2. \A ops \in Seq({"load", "append", "ledger"}) : Driven(ops) \in Seq(Steps)
  <2> TAKE ops \in Seq({"load", "append", "ledger"})
  <2>1. Len(ops) \in Nat /\ DOMAIN ops = 1..Len(ops) /\ \A i \in DOMAIN ops : ops[i] \in {"load", "append", "ledger"}
    OBVIOUS
  <2>2. \A i \in DOMAIN ops : [op |-> ops[i], driven |-> TRUE] \in Steps
    BY <2>1 DEF Steps
  <2> QED BY <2>1, <2>2 DEF Driven
<1>3. /\ <<Load>> \in Seq(Steps) /\ <<Load, Append1>> \in Seq(Steps)
      /\ <<Load, Submit, Append1>> \in Seq(Steps) /\ <<Load, Submit, Append1, Load>> \in Seq(Steps)
  BY <1>1
<1>4. /\ Driven(<<"ledger", "append">>) \in Seq(Steps)
      /\ Driven(<<"append", "ledger", "append">>) \in Seq(Steps)
      /\ Driven(<<"ledger", "append", "ledger", "append">>) \in Seq(Steps)
  <2>1. <<"ledger", "append">> \in Seq({"load", "append", "ledger"})
    OBVIOUS
  <2>2. <<"append", "ledger", "append">> \in Seq({"load", "append", "ledger"})
    OBVIOUS
  <2>3. <<"ledger", "append", "ledger", "append">> \in Seq({"load", "append", "ledger"})
    OBVIOUS
  <2> QED BY <1>2, <2>1, <2>2, <2>3, Zenon
<1>5. \A x, y \in Seq(Steps) : x \o y \in Seq(Steps)
  OBVIOUS
<1> DEFINE S == Seq(Steps)
           Good(h) == \A n \in DOMAIN h : h[n] \in S
<1> HIDE DEF S
<1>6. Good(HolderHandlers) /\ Good(WalletHandlers) /\ Good(TokenHandlers) /\ Good(OperationHandlers)
  <2>1. PICK x \in S, y \in S : x = <<Load, Append1>> /\ y = <<Load, Submit, Append1>>
    BY <1>3 DEF S
  <2>2. /\ HolderHandlers = [Establish |-> x, AddWallet |-> x, Provision |-> x]
        /\ WalletHandlers = [Open |-> x] /\ TokenHandlers = [Mint |-> y]
        /\ OperationHandlers = [Initiate |-> x, Cancel |-> x]
    BY <2>1, Zenon DEF HolderHandlers, WalletHandlers, TokenHandlers, OperationHandlers
  <2> QED BY <2>2
<1>7. Good(TransferHandlers)
  <2>1. PICK a \in S, b \in S, x \in S, y \in S, z \in S :
          /\ a = <<Load, Append1>> \o Driven(<<"ledger", "append", "ledger", "append">>)
          /\ b = <<Load, Append1>> \o Driven(<<"append", "ledger", "append">>)
          /\ x = <<Load, Append1>> /\ y = <<Load, Submit, Append1>> /\ z = <<Load, Submit, Append1, Load>>
    BY <1>3, <1>4, <1>5, Zenon DEF S
  <2>2. TransferHandlers =
          [RequestTransfer |-> a, RequestReversal |-> b, CancelAcceptedTransfer |-> x,
           ConfirmStagedTransfer |-> x, CancelStagedTransfer |-> y, PostPendingTransfer |-> z]
    BY <2>1, Zenon DEF TransferHandlers
  <2> QED BY <2>2
<1>8. Good(TransactionHandlers)
  <2>1. PICK a \in S, b \in S, c \in S :
          /\ a = <<Load, Append1>> \o Driven(<<"append", "ledger", "append">>)
          /\ b = <<Load, Append1>> \o Driven(<<"ledger", "append">>) \o <<Load>>
          /\ c = <<Load>> \o Driven(<<"ledger", "append">>) \o <<Load>>
    BY <1>3, <1>4, <1>5, Zenon DEF S
  <2>2. TransactionHandlers =
          [StartInitializingTransaction |-> a, StartProcessingTransfer |-> b,
           ResumeTransaction |-> c, StartTransactionRollback |-> b]
    BY <2>1, Zenon DEF TransactionHandlers
  <2> QED BY <2>2
<1>9. Good(Handlers[s])
  BY <1>6, <1>7, <1>8 DEF Handlers, Services
<1>10. Methods[s] = DOMAIN Handlers[s]
  BY DEF Methods, Handlers, Services
<1> QED BY <1>9, <1>10 DEF S

\* Provision is a method of the Holder service alone.
LEMMA ProvisionIsHolders ==
    ASSUME command.service \in Services, command.method \in Methods[command.service],
           command.method = "Provision"
    PROVE  steps = HolderHandlers.Provision
<1>1. command.service = "holder"
  <2>1. /\ "Provision" \notin DOMAIN WalletHandlers /\ "Provision" \notin DOMAIN TokenHandlers
        /\ "Provision" \notin DOMAIN OperationHandlers
    BY DEF WalletHandlers, TokenHandlers, OperationHandlers
  <2>2. "Provision" \notin DOMAIN TransferHandlers
    BY Zenon DEF TransferHandlers
  <2>3. "Provision" \notin DOMAIN TransactionHandlers
    BY Zenon DEF TransactionHandlers
  <2>4. \A s \in Services : s # "holder" => "Provision" \notin DOMAIN Handlers[s]
    BY <2>1, <2>2, <2>3 DEF Services, Handlers
  <2>5. \A s \in Services : Methods[s] = DOMAIN Handlers[s]
    BY DEF Methods, Handlers, Services
  <2> QED BY <2>4, <2>5
<1>2. Handlers["holder"] = HolderHandlers /\ HolderHandlers["Provision"] = HolderHandlers.Provision
  BY DEF Handlers, HolderHandlers
<1> QED BY <1>1, <1>2 DEF steps

\* Where a handler goes on behind a driven step that failed: only driven steps
\* are left out.
LEMMA BehindSkipsDriven ==
    ASSUME steps \in Seq(Steps), NEW i \in DOMAIN steps
    PROVE  Behind(i) \in Nat /\ i <= Behind(i) /\ \A k \in i..Behind(i) - 1 : steps[k].driven
<1> DEFINE n == Len(steps) + 1
           J == {j \in i..n : j \in DOMAIN steps => ~steps[j].driven}
<1>1. DOMAIN steps = 1..Len(steps) /\ Len(steps) \in Nat
  OBVIOUS
<1>2. J \subseteq Nat /\ n \in J
  BY <1>1
<1>3. PICK j \in J : \A m \in J : j <= m
  BY <1>2, LeastElement
<1>4. ASSUME NEW k \in i..j - 1 PROVE steps[k].driven
  <2>1. k \in i..n /\ k \in DOMAIN steps /\ ~(j <= k)
    BY <1>1, <1>3
  <2> QED BY <1>3, <2>1
<1>5. \E m \in i..Len(steps) + 1 : /\ \A k \in i..m - 1 : steps[k].driven
                                   /\ m \in DOMAIN steps => ~steps[m].driven
  BY <1>3, <1>4
<1>6. Behind(i) \in i..Len(steps) + 1 /\ \A k \in i..Behind(i) - 1 : steps[k].driven
  BY <1>5, Zenon DEF Behind
<1> QED BY <1>1, <1>6

-----------------------------------------------------------------------------
(* Replies.                                                                  *)

Codes == {"none", "ok", "not_found", "bad_route", "canceled", "malformed",
          "invalid_argument", "internal", "transport"}

Requests ==
    [pc   : {"unsent", "sent", "routed", "handling", "replying", "answered", "dead"},
     pos  : Nat,
     gone : {"no", "closed", "noticed"},
     code : Codes,
     conn : BOOLEAN]

Clients ==
    [pc : {"call", "waiting", "decide", "persist", "done", "failed"}, attempt : Attempts, result : Codes]

\* The mux and the generated server have let the command through.
Mounted ==
    /\ command.service \in Services
    /\ command.verb = "POST"
    /\ command.path = "good"
    /\ command.method \in Methods[command.service]

\* What a reply without an error says.
Promised ==
    /\ Mounted /\ WellFormed
    /\ command.refused \/ command.method = "AddWallet" \/ Decisive(steps) \subseteq effects

\* What has been established of the command by the time request r is where it is.
RequestKnows(r) ==
    /\ req[r].pc \in {"routed", "handling"} => Mounted
    /\ req[r].pc = "handling" => command.contentType \in {"json", "protobuf"}
    /\ req[r].pc = "handling" /\ req[r].pos # 0 =>
         /\ command.body = "good"
         /\ \/ command.method = "AddWallet"
            \/ \A i \in Decisive(steps) : i < req[r].pos => i \in effects
    /\ req[r].code = "ok" => Promised

ReplyInv ==
    /\ req \in [Attempts -> Requests]
    /\ client \in Clients
    /\ \A r \in Attempts : RequestKnows(r)
    /\ effects # {} => WellFormed
    /\ client.result = "ok" => Promised
    /\ client.pc = "persist" => client.result = "ok" /\ ~command.refused /\ command.method = "Provision"
    /\ OnboardedIsProvisioned

\* The command is the same and what is on record stays there.
Kept == scenario' = scenario /\ effects \subseteq effects'

\* What a reply says stays true.
LEMMA PromiseIsKept ==
    ASSUME Kept
    PROVE  /\ command' = command /\ steps' = steps /\ (Mounted' <=> Mounted) /\ (WellFormed' <=> WellFormed)
           /\ Promised => Promised'
           /\ OnboardedIsProvisioned /\ onboarded' = onboarded => OnboardedIsProvisioned'
<1>1. command' = command /\ steps' = steps
  BY DEF Kept, command, steps
<1>2. (Mounted' <=> Mounted) /\ (WellFormed' <=> WellFormed)
  BY <1>1 DEF Mounted, WellFormed
<1> QED BY <1>1, <1>2 DEF Kept, Promised, OnboardedIsProvisioned

\* A request that did not move knows what it knew.
LEMMA RequestIsStable ==
    ASSUME Kept, NEW r, RequestKnows(r), req'[r] = req[r]
    PROVE  RequestKnows(r)'
<1>1. \A i \in Decisive(steps)' : i \in Decisive(steps)
  BY PromiseIsKept
<1> QED BY <1>1, PromiseIsKept DEF RequestKnows, Kept

\* A step that moves request r.
LEMMA RequestMoves ==
    ASSUME ReplyInv, Kept, NEW r \in Attempts, NEW q \in Requests, req' = [req EXCEPT ![r] = q],
           RequestKnows(r)', effects' # {} => WellFormed, UNCHANGED callerVars
    PROVE  ReplyInv'
<1>1. req' \in [Attempts -> Requests] /\ \A p \in Attempts : p # r => req'[p] = req[p]
  BY DEF ReplyInv
<1>2. \A p \in Attempts : RequestKnows(p)'
  BY <1>1, RequestIsStable DEF ReplyInv
<1> QED BY <1>1, <1>2, PromiseIsKept DEF ReplyInv, callerVars

\* A reply that makes no promise.
LEMMA ReplyMoves ==
    ASSUME ReplyInv, NEW r \in Attempts, NEW code \in Codes, Reply(r, code), code = "ok" => Promised,
           UNCHANGED <<scenario, effects, client, onboarded>>
    PROVE  ReplyInv'
<1> DEFINE q == [req[r] EXCEPT !.pc = "replying", !.code = code, !.conn = FALSE]
<1>1. q \in Requests /\ req' = [req EXCEPT ![r] = q] /\ q.pc = "replying" /\ q.code = code
  BY DEF ReplyInv, Requests, Reply
<1>2. Kept
  BY DEF Kept
<1>3. req'[r].pc = "replying" /\ req'[r].code = code
  BY <1>1 DEF ReplyInv
<1>4. RequestKnows(r)'
  BY <1>2, <1>3, PromiseIsKept DEF RequestKnows
<1> QED BY <1>1, <1>2, <1>4, RequestMoves DEF ReplyInv, callerVars

\* The mux and the generated servers.
LEMMA ServeKeepsReplies == ASSUME ReplyInv, NEW r \in Attempts, Serve(r) PROVE ReplyInv'
<1>0. \A c \in {"not_found", "bad_route", "canceled", "malformed"} : c \in Codes /\ c # "ok"
  BY DEF Codes
<1>1. UNCHANGED <<scenario, effects, client, onboarded>>
  BY ServeIs DEF NotMounted, UnexpectedContentType, handleRequestBodyError, ServeHTTP,
     ServeJSON, ServeProtobuf, Unmoved, callerVars
<1>2. ASSUME NEW c \in {"not_found", "bad_route", "canceled", "malformed"}, Reply(r, c) PROVE ReplyInv'
  BY <1>0, <1>1, <1>2, ReplyMoves
<1>3. ASSUME Goto(r, "routed"), Mounted PROVE ReplyInv'
  <2> DEFINE q == [req[r] EXCEPT !.pc = "routed"]
  <2>1. q \in Requests /\ req' = [req EXCEPT ![r] = q] /\ q.pc = "routed" /\ q.code = req[r].code
    BY <1>3 DEF ReplyInv, Requests, Goto
  <2>2. req'[r].pc = "routed" /\ req'[r].code = req[r].code
    BY <2>1 DEF ReplyInv
  <2>3. Kept
    BY <1>1 DEF Kept
  <2>4. RequestKnows(r)'
    BY <1>3, <2>2, <2>3, PromiseIsKept DEF RequestKnows, ReplyInv
  <2> QED BY <1>1, <2>1, <2>3, <2>4, RequestMoves DEF ReplyInv, callerVars
<1>4. ASSUME Handle(r), req[r].pc = "routed", command.contentType \in {"json", "protobuf"} PROVE ReplyInv'
  <2> DEFINE q == [req[r] EXCEPT !.pc = "handling", !.pos = 0]
  <2>1. q \in Requests /\ req' = [req EXCEPT ![r] = q] /\ q.pc = "handling" /\ q.pos = 0 /\ q.code = req[r].code
    BY <1>4 DEF ReplyInv, Requests, Handle
  <2>2. req'[r].pc = "handling" /\ req'[r].pos = 0 /\ req'[r].code = req[r].code
    BY <2>1 DEF ReplyInv
  <2>3. Kept
    BY <1>1 DEF Kept
  <2>4. RequestKnows(r)'
    BY <1>4, <2>2, <2>3, PromiseIsKept DEF RequestKnows, ReplyInv
  <2> QED BY <1>1, <2>1, <2>3, <2>4, RequestMoves DEF ReplyInv, callerVars
<1>5. CASE NotMounted(r) \/ UnexpectedContentType(r) \/ handleRequestBodyError(r)
  BY <1>2, <1>5 DEF NotMounted, UnexpectedContentType, handleRequestBodyError
<1>6. ASSUME NEW s \in Services, ServeHTTP(r, s) PROVE ReplyInv'
  <2>1. CASE Routable(s)
    <3>1. Goto(r, "routed") /\ Mounted
      BY <1>6, <2>1 DEF ServeHTTP, Routable, Mounted
    <3> QED BY <1>3, <3>1
  <2>2. CASE ~Routable(s)
    BY <1>2, <1>6, <2>2 DEF ServeHTTP
  <2> QED BY <2>1, <2>2
<1>7. ASSUME NEW m, ServeJSON(r, m) \/ ServeProtobuf(r, m) PROVE ReplyInv'
  BY <1>2, <1>4, <1>7 DEF ServeJSON, ServeProtobuf, Routed
<1> QED BY <1>5, <1>6, <1>7, ServeIs DEF Services

\* A request that goes on at position n without a connection.
LEMMA GoesOn ==
    ASSUME NEW q \in Requests, NEW n \in Nat
    PROVE  /\ [q EXCEPT !.pos = n, !.conn = FALSE] \in Requests
           /\ [q EXCEPT !.pos = n, !.conn = FALSE].pc = q.pc
           /\ [q EXCEPT !.pos = n, !.conn = FALSE].pos = n
           /\ [q EXCEPT !.pos = n, !.conn = FALSE].code = q.code
BY DEF Requests

\* The handlers.
LEMMA HandlerKeepsReplies == ASSUME ReplyInv, NEW r \in Attempts, HandlerStep(r) PROVE ReplyInv'
<1>0. req[r] \in Requests /\ RequestKnows(r) /\ \A c \in {"ok", "internal", "invalid_argument"} : c \in Codes
  BY DEF ReplyInv, Codes
<1>1. ASSUME req[r].pc = "handling"
      PROVE  /\ Mounted /\ steps \in Seq(Steps) /\ Len(steps) \in Nat /\ DOMAIN steps = 1..Len(steps)
             /\ Decisive(steps) \subseteq DOMAIN steps
  <2>1. Mounted
    BY <1>0, <1>1 DEF RequestKnows
  <2>2. steps \in Seq(Steps)
    BY <2>1, HandlersAreSequences DEF Mounted, steps
  <2> QED BY <2>1, <2>2 DEF Decisive
<1>2. ASSUME req[r].pc = "handling", req[r].pos # 0 PROVE WellFormed
  BY <1>0, <1>1, <1>2 DEF RequestKnows, Mounted, WellFormed
<1>3. CASE Validate(r)
  <2>1. UNCHANGED <<scenario, effects, client, onboarded>> /\ req[r].pc = "handling"
    BY <1>3 DEF Validate, Unmoved, callerVars
  <2>2. CASE command.body # "good"
    BY <1>0, <1>3, <2>1, <2>2, ReplyMoves DEF Validate
  <2>3. CASE command.body = "good"
    <3> DEFINE q == [req[r] EXCEPT !.pos = 1]
    <3>1. q \in Requests /\ req' = [req EXCEPT ![r] = q] /\ q.pc = "handling" /\ q.pos = 1 /\ q.code = req[r].code
      BY <1>0, <1>3, <2>1, <2>3 DEF ReplyInv, Requests, Validate
    <3>2. req'[r].pc = "handling" /\ req'[r].pos = 1 /\ req'[r].code = req[r].code
      BY <3>1 DEF ReplyInv
    <3>3. Kept
      BY <2>1 DEF Kept
    <3>4. \A i \in Decisive(steps) : ~(i < 1)
      BY <1>1, <2>1
    <3>5. \A i \in Decisive(steps)' : ~(i < 1)
      BY <3>3, <3>4, PromiseIsKept
    <3>6. RequestKnows(r)'
      BY <1>0, <2>1, <2>3, <3>2, <3>3, <3>5, PromiseIsKept DEF RequestKnows
    <3> QED BY <2>1, <3>1, <3>3, <3>6, RequestMoves DEF ReplyInv, callerVars
  <2> QED BY <2>2, <2>3
<1>4. CASE Refuse(r)
  <2>1. /\ UNCHANGED <<scenario, effects, client, onboarded>> /\ req[r].pc = "handling" /\ req[r].pos # 0
        /\ command.refused /\ Reply(r, "ok")
    BY <1>4 DEF Refuse, Unmoved, callerVars, InHandler
  <2>2. Promised
    BY <1>1, <1>2, <2>1 DEF Promised
  <2> QED BY <1>0, <2>1, <2>2, ReplyMoves
<1>5. CASE Step(r)
  <2> DEFINE n == req[r].pos + 1
             q == [req[r] EXCEPT !.pos = n, !.conn = FALSE]
  <2>0. req[r].pos \in Nat /\ req[r].pos \in DOMAIN steps /\ req[r].pos # 0 /\ n \in Nat
    BY <1>0, <1>1, <1>5 DEF Step, InHandler, Requests
  <2>10. req' = [req EXCEPT ![r] = q]
    BY <1>5 DEF Step, ReplyInv
  <2>1. /\ UNCHANGED <<scenario, client, onboarded>> /\ req[r].pc = "handling" /\ req[r].pos \in DOMAIN steps
        /\ effects' = IF Current(r).op = "load" THEN effects ELSE effects \union {req[r].pos}
        /\ req' = [req EXCEPT ![r] = q] /\ req[r].pos \in Nat /\ req[r].pos # 0
    <3> HIDE DEF q, n
    <3> QED BY <1>5, <2>0, <2>10 DEF Step, InHandler, callerVars
  <2>2. q \in Requests /\ q.pc = "handling" /\ q.pos = req[r].pos + 1 /\ q.code = req[r].code
    <3> HIDE DEF n
    <3>1. q \in Requests /\ q.pc = req[r].pc /\ q.pos = n /\ q.code = req[r].code
      BY <1>0, <2>0, GoesOn
    <3> HIDE DEF q
    <3> QED BY <2>1, <3>1 DEF n
  <2>3. req'[r].pc = "handling" /\ req'[r].pos = req[r].pos + 1 /\ req'[r].code = req[r].code
    BY <2>1, <2>2 DEF ReplyInv
  <2>4. Kept
    BY <2>1 DEF Kept
  <2>5. ASSUME NEW i \in Decisive(steps), i < req[r].pos + 1, command.method # "AddWallet" PROVE i \in effects'
    <3>1. CASE i < req[r].pos
      BY <1>0, <2>1, <2>4, <2>5, <3>1 DEF RequestKnows, Kept
    <3>2. CASE i = req[r].pos
      BY <2>1, <3>2 DEF Decisive, Current
    <3>3. i \in Nat
      BY <1>1, <2>1
    <3> QED BY <2>1, <2>5, <3>1, <3>2, <3>3
  <2>6. RequestKnows(r)'
    BY <1>0, <2>1, <2>3, <2>4, <2>5, PromiseIsKept DEF RequestKnows
  <2> HIDE DEF q
  <2> QED BY <1>2, <2>1, <2>2, <2>4, <2>6, RequestMoves DEF callerVars
<1>6. CASE StepFails(r)
  <2>1. /\ UNCHANGED <<scenario, client, onboarded>> /\ req[r].pc = "handling" /\ req[r].pos \in DOMAIN steps
        /\ effects \subseteq effects' /\ req[r].pos \in Nat /\ req[r].pos # 0
        /\ req' = Noticed(r, Failed(r))
    BY <1>0, <1>1, <1>6 DEF StepFails, InHandler, callerVars, Requests
  <2>2. Kept
    BY <2>1 DEF Kept
  <2> DEFINE gone == IF req[r].gone = "closed" THEN "noticed" ELSE req[r].gone
  <2>3. gone \in {"no", "closed", "noticed"}
    BY <1>0 DEF Requests
  <2> HIDE DEF gone
  <2>4. CASE Current(r).driven
    <3> DEFINE q == [req[r] EXCEPT !.pos = Behind(req[r].pos), !.conn = FALSE, !.gone = gone]
    <3>1. req' = [req EXCEPT ![r] = q]
      BY <1>0, <2>1, <2>4 DEF Noticed, Failed, gone, ReplyInv, Requests
    <3>2. /\ Behind(req[r].pos) \in Nat /\ req[r].pos <= Behind(req[r].pos)
          /\ \A k \in req[r].pos..Behind(req[r].pos) - 1 : steps[k].driven
      BY <1>1, <2>1, BehindSkipsDriven
    <3>3. q \in Requests /\ q.pc = "handling" /\ q.pos = Behind(req[r].pos) /\ q.code = req[r].code
      BY <1>0, <2>1, <2>3, <3>2 DEF Requests
    <3>4. req'[r].pc = "handling" /\ req'[r].pos = Behind(req[r].pos) /\ req'[r].code = req[r].code
      BY <3>1, <3>3 DEF ReplyInv
    <3>5. ASSUME NEW i \in Decisive(steps), i < Behind(req[r].pos), command.method # "AddWallet"
          PROVE  i \in effects
      <4>1. i \in Nat /\ ~steps[i].driven
        BY <1>1, <2>1 DEF Decisive
      <4>2. i < req[r].pos
        BY <2>1, <3>2, <3>5, <4>1
      <4> QED BY <1>0, <2>1, <3>5, <4>2 DEF RequestKnows
    <3>6. RequestKnows(r)'
      BY <1>0, <2>1, <2>2, <3>4, <3>5, PromiseIsKept DEF RequestKnows, Kept
    <3> HIDE DEF q
    <3> QED BY <1>2, <2>1, <2>2, <3>1, <3>3, <3>6, RequestMoves DEF callerVars
  <2>5. CASE ~Current(r).driven
    <3> DEFINE q == [req[r] EXCEPT !.pc = "replying", !.code = "internal", !.conn = FALSE, !.gone = gone]
    <3>1. req' = [req EXCEPT ![r] = q]
      BY <1>0, <2>1, <2>5 DEF Noticed, Failed, gone, ReplyInv, Requests
    <3>2. q \in Requests /\ q.pc = "replying" /\ q.code = "internal"
      BY <1>0, <2>3 DEF Requests
    <3>3. req'[r].pc = "replying" /\ req'[r].code = "internal"
      BY <3>1, <3>2 DEF ReplyInv
    <3>4. RequestKnows(r)'
      BY <3>3 DEF RequestKnows
    <3> HIDE DEF q
    <3> QED BY <1>2, <2>1, <2>2, <3>1, <3>2, <3>4, RequestMoves DEF callerVars
  <2> QED BY <2>4, <2>5
<1>7. CASE Finish(r)
  <2>1. /\ UNCHANGED <<scenario, effects, client, onboarded>> /\ req[r].pc = "handling"
        /\ req[r].pos = Len(steps) + 1 /\ Reply(r, "ok")
    BY <1>7 DEF Finish, Unmoved, callerVars
  <2>2. req[r].pos # 0 /\ \A i \in Decisive(steps) : i < req[r].pos
    BY <1>1, <2>1
  <2>3. Promised
    BY <1>0, <1>1, <1>2, <2>1, <2>2 DEF Promised, RequestKnows
  <2> QED BY <1>0, <2>1, <2>3, ReplyMoves
<1>8. CASE ensurePanicResponses(r)
  <2>1. UNCHANGED <<scenario, effects, client, onboarded>> /\ Reply(r, "internal")
    BY <1>8 DEF ensurePanicResponses, callerVars
  <2> QED BY <1>0, <2>1, ReplyMoves
<1>9. CASE Write(r)
  <2> DEFINE q == [req[r] EXCEPT !.pc = "answered"]
  <2>1. /\ UNCHANGED <<scenario, effects, client, onboarded>>
        /\ q \in Requests /\ req' = [req EXCEPT ![r] = q] /\ q.pc = "answered" /\ q.code = req[r].code
    BY <1>0, <1>9 DEF ReplyInv, Requests, Write, Goto, Unmoved, callerVars
  <2>2. req'[r].pc = "answered" /\ req'[r].code = req[r].code
    BY <2>1 DEF ReplyInv
  <2>3. Kept
    BY <2>1 DEF Kept
  <2>4. RequestKnows(r)'
    BY <1>0, <2>2, <2>3, PromiseIsKept DEF RequestKnows
  <2> QED BY <2>1, <2>3, <2>4, RequestMoves DEF ReplyInv, callerVars
<1>10. CASE Acquire(r)
  <2> DEFINE q == [req[r] EXCEPT !.conn = TRUE]
  <2>1. /\ UNCHANGED <<scenario, effects, client, onboarded>>
        /\ q \in Requests /\ req' = [req EXCEPT ![r] = q]
        /\ q.pc = req[r].pc /\ q.pos = req[r].pos /\ q.code = req[r].code
    BY <1>0, <1>10 DEF ReplyInv, Requests, Acquire, Unmoved, callerVars
  <2>2. req'[r].pc = req[r].pc /\ req'[r].pos = req[r].pos /\ req'[r].code = req[r].code
    BY <2>1 DEF ReplyInv
  <2>3. Kept
    BY <2>1 DEF Kept
  <2>4. \A i \in Decisive(steps)' : i \in Decisive(steps)
    BY <2>3, PromiseIsKept
  <2>5. RequestKnows(r)'
    BY <1>0, <2>1, <2>2, <2>3, <2>4, PromiseIsKept DEF RequestKnows
  <2> QED BY <2>1, <2>3, <2>5, RequestMoves DEF ReplyInv, callerVars
<1>11. CASE appendConverging(r)
  <2> DEFINE n == req[r].pos + 1
             q == [req[r] EXCEPT !.pos = n, !.conn = FALSE]
  <2>0. req' = [req EXCEPT ![r] = q]
    BY <1>11 DEF appendConverging, ReplyInv
  <2>1. /\ UNCHANGED <<scenario, effects, client, onboarded>> /\ req[r].pc = "handling"
        /\ req[r].pos \in DOMAIN steps /\ req' = [req EXCEPT ![r] = q]
        /\ command.method = "AddWallet" \/ req[r].pos \in effects
    <3> HIDE DEF q, n
    <3> QED BY <1>11, <2>0 DEF appendConverging, InHandler, Unmoved, callerVars
  <2>2. req[r].pos \in Nat /\ req[r].pos # 0 /\ n \in Nat
    BY <1>0, <1>1, <2>1 DEF Requests
  <2>3. q \in Requests /\ q.pc = "handling" /\ q.pos = req[r].pos + 1 /\ q.code = req[r].code
    <3> HIDE DEF n
    <3>1. q \in Requests /\ q.pc = req[r].pc /\ q.pos = n /\ q.code = req[r].code
      BY <1>0, <2>2, GoesOn
    <3> HIDE DEF q
    <3> QED BY <2>1, <3>1 DEF n
  <2>4. req'[r].pc = "handling" /\ req'[r].pos = req[r].pos + 1 /\ req'[r].code = req[r].code
    BY <2>1, <2>3 DEF ReplyInv
  <2>5. Kept
    BY <2>1 DEF Kept
  <2>6. ASSUME NEW i \in Decisive(steps), i < req[r].pos + 1, command.method # "AddWallet" PROVE i \in effects
    <3>1. i \in Nat
      BY <1>1, <2>1
    <3>2. CASE i < req[r].pos
      BY <1>0, <2>1, <2>2, <2>6, <3>2 DEF RequestKnows
    <3>3. CASE i = req[r].pos
      BY <2>1, <2>6, <3>3
    <3> QED BY <2>2, <2>6, <3>1, <3>2, <3>3
  <2>7. RequestKnows(r)'
    BY <1>0, <2>1, <2>2, <2>4, <2>5, <2>6, PromiseIsKept DEF RequestKnows
  <2> HIDE DEF q
  <2> QED BY <2>1, <2>3, <2>5, <2>7, RequestMoves DEF ReplyInv, callerVars
<1> QED BY <1>3, <1>4, <1>5, <1>6, <1>7, <1>8, <1>9, <1>10, <1>11 DEF HandlerStep

\* The caller.  It goes on record only with what a reply promised it.
LEMMA CallerKeepsReplies == ASSUME ReplyInv, CallerStep PROVE ReplyInv'
<1>0. /\ client \in Clients /\ client.attempt \in Attempts /\ req[client.attempt] \in Requests
      /\ RequestKnows(client.attempt)
  BY DEF ReplyInv, Clients
<1>1. Kept /\ effects' = effects
  BY DEF CallerStep, Call, Receive, ConnectionReset, ClientTimeout, Decide, persist, CallerOnly, Kept
<1>2. ASSUME NEW pc \in {"call", "waiting", "decide", "persist", "done", "failed"}, NEW result \in Codes,
             ClientGoto(pc, result), pc # "persist", result = "ok" => Promised,
             req' \in [Attempts -> Requests], \A r \in Attempts : RequestKnows(r)',
             OnboardedIsProvisioned'
      PROVE  ReplyInv'
  <2> DEFINE c == [client EXCEPT !.pc = pc, !.result = result]
  <2>1. c \in Clients /\ client' = c /\ c.pc = pc /\ c.result = result
    BY <1>0, <1>2 DEF Clients, ClientGoto
  <2> HIDE DEF c
  <2> QED BY <1>1, <1>2, <2>1, PromiseIsKept DEF ReplyInv
<1>3. ASSUME req' = req PROVE req' \in [Attempts -> Requests] /\ \A r \in Attempts : RequestKnows(r)'
  BY <1>1, <1>3, RequestIsStable DEF ReplyInv
<1>4. ASSUME onboarded' = onboarded PROVE OnboardedIsProvisioned'
  BY <1>1, <1>4, PromiseIsKept DEF ReplyInv
<1>5. "transport" \in Codes /\ "none" \in Codes
  BY DEF Codes
<1>6. ASSUME NEW q \in Requests, req' = [req EXCEPT ![client.attempt] = q],
             q.code = req[client.attempt].code,
             q.pc = "sent" \/ (q.pc = req[client.attempt].pc /\ q.pos = req[client.attempt].pos)
      PROVE  req' \in [Attempts -> Requests] /\ \A r \in Attempts : RequestKnows(r)'
  <2>1. /\ req' \in [Attempts -> Requests] /\ req'[client.attempt] = q
        /\ \A r \in Attempts : r # client.attempt => req'[r] = req[r]
    BY <1>0, <1>6 DEF ReplyInv
  <2>2. \A i \in Decisive(steps)' : i \in Decisive(steps)
    BY <1>1, PromiseIsKept
  <2>3. ASSUME NEW r \in Attempts, r = client.attempt PROVE RequestKnows(r)'
    BY <1>0, <1>1, <1>6, <2>1, <2>2, <2>3, PromiseIsKept DEF RequestKnows
  <2>4. ASSUME NEW r \in Attempts, r # client.attempt PROVE RequestKnows(r)'
    BY <1>1, <2>1, <2>4, RequestIsStable DEF ReplyInv
  <2> QED BY <2>1, <2>3, <2>4
<1>7. CASE Call
  <2>1. onboarded' = onboarded
    BY <1>7 DEF Call
  <2>2. CASE proc = "serving"
    <3> DEFINE q == [req[client.attempt] EXCEPT !.pc = "sent"]
    <3>1. q \in Requests /\ req' = [req EXCEPT ![client.attempt] = q] /\ q.pc = "sent"
          /\ q.code = req[client.attempt].code /\ ClientGoto("waiting", "none")
      BY <1>0, <1>7, <2>2 DEF Call, Goto, Requests, ReplyInv
    <3> HIDE DEF q
    <3>2. q.pc = "sent" \/ (q.pc = req[client.attempt].pc /\ q.pos = req[client.attempt].pos)
      BY <3>1
    <3>3. req' \in [Attempts -> Requests] /\ \A r \in Attempts : RequestKnows(r)'
      BY <1>6, <3>1, <3>2, Zenon
    <3> QED BY <1>2, <1>4, <1>5, <2>1, <3>1, <3>3
  <2>3. CASE proc # "serving"
    <3>1. req' = req /\ ClientGoto("decide", "transport")
      BY <1>7, <2>3 DEF Call
    <3> QED BY <1>2, <1>3, <1>4, <1>5, <2>1, <3>1
  <2> QED BY <2>2, <2>3
<1>8. CASE Receive
  <2>1. /\ onboarded' = onboarded /\ req' = req /\ ClientGoto("decide", req[client.attempt].code)
    BY <1>8 DEF Receive
  <2>2. req[client.attempt].code \in Codes /\ (req[client.attempt].code = "ok" => Promised)
    BY <1>0 DEF Requests, RequestKnows
  <2> QED BY <1>2, <1>3, <1>4, <2>1, <2>2
<1>9. CASE ConnectionReset
  <2>1. onboarded' = onboarded /\ req' = req /\ ClientGoto("decide", "transport")
    BY <1>9 DEF ConnectionReset
  <2> QED BY <1>2, <1>3, <1>4, <1>5, <2>1
<1>10. CASE ClientTimeout
  <2> DEFINE q == [req[client.attempt] EXCEPT !.gone = "closed"]
  <2>1. /\ onboarded' = onboarded /\ ClientGoto("decide", "transport")
        /\ q \in Requests /\ req' = [req EXCEPT ![client.attempt] = q] /\ q.pc = req[client.attempt].pc
        /\ q.pos = req[client.attempt].pos /\ q.code = req[client.attempt].code
    BY <1>0, <1>10 DEF ClientTimeout, Requests, ReplyInv
  <2> HIDE DEF q
  <2>2. req' \in [Attempts -> Requests] /\ \A r \in Attempts : RequestKnows(r)'
    BY <1>6, <2>1
  <2> QED BY <1>2, <1>4, <1>5, <2>1, <2>2
<1>11. CASE Decide
  <2>1. onboarded' = onboarded /\ req' = req
    BY <1>11 DEF Decide
  <2>2. CASE retryable(client.result)
    <3> DEFINE c == [client EXCEPT !.pc = "call", !.attempt = @ + 1]
    <3>1. client' = c
      BY <1>11, <2>2 DEF Decide
    <3>2. client.attempt + 1 \in Attempts
      BY <1>0, <2>2, ServiceAssumption DEF retryable, Attempts
    <3>3. c \in Clients /\ c.pc = "call" /\ c.result = client.result
      BY <1>0, <3>2 DEF Clients
    <3> HIDE DEF c
    <3> QED BY <1>1, <1>3, <1>4, <2>1, <3>1, <3>3, PromiseIsKept DEF ReplyInv
  <2>3. CASE ~retryable(client.result) /\ Accepted
    <3> DEFINE pc == IF command.method = "Provision" THEN "persist" ELSE "done"
               c == [client EXCEPT !.pc = pc]
    <3>1. client' = c
      BY <1>11, <2>3 DEF Decide
    <3>2. pc \in {"call", "waiting", "decide", "persist", "done", "failed"}
          /\ (pc = "persist" => command.method = "Provision")
      OBVIOUS
    <3> HIDE DEF pc
    <3>3. c \in Clients /\ c.pc = pc /\ c.result = client.result
      BY <1>0, <3>2 DEF Clients
    <3> HIDE DEF c
    <3> QED BY <1>1, <1>3, <1>4, <2>1, <2>3, <3>1, <3>2, <3>3, PromiseIsKept DEF ReplyInv, Accepted
  <2>4. CASE ~retryable(client.result) /\ ~Accepted
    <3> DEFINE c == [client EXCEPT !.pc = "failed"]
    <3>1. client' = c
      BY <1>11, <2>4 DEF Decide
    <3>2. c \in Clients /\ c.pc = "failed" /\ c.result = client.result
      BY <1>0 DEF Clients
    <3> HIDE DEF c
    <3> QED BY <1>1, <1>3, <1>4, <2>1, <3>1, <3>2, PromiseIsKept DEF ReplyInv
  <2> QED BY <2>2, <2>3, <2>4
<1>12. CASE persist
  <2>1. /\ req' = req /\ client.result \in Codes /\ Promised /\ ~command.refused
        /\ command.method = "Provision"
    BY <1>0, <1>12 DEF persist, ReplyInv, Clients
  <2>2. steps = HolderHandlers.Provision
    BY <2>1, ProvisionIsHolders DEF Promised, Mounted
  <2>3. ~command.refused /\ Decisive(HolderHandlers.Provision) \subseteq effects
    BY <2>1, <2>2 DEF Promised
  <2>4. OnboardedIsProvisioned'
    BY <1>1, <2>3, PromiseIsKept DEF OnboardedIsProvisioned
  <2>5. ClientGoto("done", client.result) \/ ClientGoto("failed", client.result)
    BY <1>12 DEF persist
  <2> QED BY <1>2, <1>3, <2>1, <2>4, <2>5
<1> QED BY <1>7, <1>8, <1>9, <1>10, <1>11, <1>12 DEF CallerStep

\* The process, the database and the migrations: a request is left alone or dies.
LEMMA EnvironmentKeepsReplies ==
    ASSUME ReplyInv, Environment, req' = req \/ req' = Killed
    PROVE  ReplyInv'
<1>1. Kept /\ UNCHANGED <<effects, client, onboarded>>
  BY DEF Environment, callerVars, Kept
<1>2. req' \in [Attempts -> Requests] /\ \A r \in Attempts : RequestKnows(r)'
  <2>1. CASE req' = req
    BY <1>1, <2>1, RequestIsStable DEF ReplyInv
  <2>2. CASE req' = Killed
    <3>1. ASSUME NEW r \in Attempts PROVE req'[r] \in Requests /\ RequestKnows(r)'
      <4>1. req[r] \in Requests /\ RequestKnows(r)
        BY DEF ReplyInv
      <4>2. CASE ~InFlight(r)
        <5>1. req'[r] = req[r]
          BY <2>2, <4>2 DEF Killed
        <5> QED BY <1>1, <4>1, <5>1, RequestIsStable
      <4>3. CASE InFlight(r)
        <5> DEFINE q == [req[r] EXCEPT !.pc = "dead", !.conn = FALSE]
        <5>1. req'[r] = q
          BY <2>2, <4>3 DEF Killed
        <5>2. q \in Requests /\ q.pc = "dead" /\ q.code = req[r].code
          BY <4>1 DEF Requests
        <5> HIDE DEF q
        <5> QED BY <1>1, <4>1, <5>1, <5>2, PromiseIsKept DEF RequestKnows
      <4> QED BY <4>2, <4>3
    <3>2. DOMAIN req' = Attempts /\ req' = [r \in Attempts |-> req'[r]]
      BY <2>2 DEF Killed
    <3> QED BY <3>1, <3>2
  <2> QED BY <2>1, <2>2
<1> QED BY <1>1, <1>2, PromiseIsKept DEF ReplyInv

\* At the start nothing has been promised.
LEMMA ReplyInvInit == Init => ReplyInv
<1> SUFFICES ASSUME Init PROVE ReplyInv
  OBVIOUS
<1>1. \A r \in Attempts : req[r] = [pc |-> "unsent", pos |-> 0, gone |-> "no", code |-> "none", conn |-> FALSE]
  BY DEF Init
<1>2. [pc |-> "unsent", pos |-> 0, gone |-> "no", code |-> "none", conn |-> FALSE] \in Requests
  BY DEF Requests, Codes
<1>3. req \in [Attempts -> Requests]
  BY <1>2 DEF Init
<1>4. 1 \in Attempts
  BY ServiceAssumption DEF Attempts
<1>5. client \in Clients /\ client.pc = "call" /\ client.result = "none"
  BY <1>4 DEF Init, Clients, Codes
<1>6. \A r \in Attempts : RequestKnows(r)
  BY <1>1 DEF RequestKnows
<1>7. effects = {} /\ onboarded = FALSE
  BY DEF Init
<1> QED BY <1>3, <1>5, <1>6, <1>7 DEF ReplyInv, OnboardedIsProvisioned

\* Every step of the server, its clients and the operator keeps the replies.
LEMMA ReplyInvNext == ReplyInv /\ [Next]_vars => ReplyInv'
<1> SUFFICES ASSUME ReplyInv, [Next]_vars PROVE ReplyInv'
  OBVIOUS
<1>1. CASE UNCHANGED vars
  BY <1>1, EnvironmentKeepsReplies DEF vars, Environment, callerVars
<1>2. CASE \E r \in Attempts : Serve(r) \/ HandlerStep(r)
  BY <1>2, ServeKeepsReplies, HandlerKeepsReplies
<1>3. CASE CallerStep
  BY <1>3, CallerKeepsReplies
<1>4. CASE Boot \/ BootFails \/ ListenAndServe \/ Sigterm \/ ShutdownStep \/ Crash \/ Outage \/ Operate
  <2>1. Environment
    BY <1>4 DEF Boot, BootFails, ListenAndServe, Sigterm, ShutdownStep, GraceExpires, ShutdownReturns,
       ClosePool, Exit, Crash, Outage, Operate
  <2>2. req' = req \/ req' = Killed
    BY <1>4 DEF Boot, BootFails, ListenAndServe, Sigterm, ShutdownStep, GraceExpires, ShutdownReturns,
       ClosePool, Exit, Crash, Outage, Operate
  <2> QED BY <2>1, <2>2, EnvironmentKeepsReplies
<1>5. CASE \E m \in Migrators : MigrateStep(m)
  BY <1>5, EnvironmentKeepsReplies DEF MigrateStep
<1> QED BY <1>1, <1>2, <1>3, <1>4, <1>5 DEF Next

\* The invariant of the replies holds of every behaviour.
LEMMA AlwaysReplyInv == Spec => []ReplyInv
<1>1. ReplyInv /\ [Next]_vars => ReplyInv'
  BY ReplyInvNext
<1> QED BY <1>1, ReplyInvInit, PTL DEF Spec

\* Every success the server sends stands for effects that are on record,
\* whatever fails behind the decision, and a malformed command changes nothing
\* (the generated servers, the handlers).
THEOREM AlwaysReplyIsKept == Spec => []ReplyIsKept
<1>1. ReplyInv => ReplyIsKept
  BY DEF ReplyInv, ReplyIsKept, RequestKnows, Promised
<1> QED BY <1>1, AlwaysReplyInv, PTL

\* The business backend records an entity only when Holder and Wallets are in
\* the event log (provision! and persist of OnboardEntity).
THEOREM AlwaysOnboardedIsProvisioned == Spec => []OnboardedIsProvisioned
<1>1. ReplyInv => OnboardedIsProvisioned
  BY DEF ReplyInv
<1> QED BY <1>1, AlwaysReplyInv, PTL
=============================================================================
