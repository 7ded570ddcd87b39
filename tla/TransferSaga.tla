---------------------------- MODULE TransferSaga ----------------------------
(***************************************************************************)
(* One Transfer (or Reversal: the same aggregate and the same saga) of the  *)
(* backend, go/internal/transfer, with the Operation streams its manifest   *)
(* creates and the legs it submits to TigerBeetle, driven by any number of  *)
(* RPC calls that run concurrently.                                         *)
(*                                                                          *)
(* A call takes one step per store or ledger round trip and keeps what it   *)
(* read in its own record between the steps; the streams and the ledger are *)
(* all that calls share.  An optimistic read-then-append loop that retries  *)
(* on a conflict until it succeeds (operation.advance, appendSagaStep) is   *)
(* one step: its append lands only if the stream is still the one it read.  *)
(* A call may die after any of its steps (Crash), which is also what a      *)
(* failing store or ledger call amounts to.                                 *)
(***************************************************************************)
EXTENDS Integers, Sequences

CONSTANTS
    Calls,            \* slots for concurrently running RPC calls
    RPCs,             \* the RPCs the environment uses, a subset of AllRPCs
    StageFlags,       \* the values of the request's stage flag in use
    NumLegs,          \* legs of the manifest, one DEBIT Operation each
    NumOps,           \* its Operations: every DEBIT, then the distinct CREDITs
    PrepareMayFail,   \* other aggregates may make prepare fail
    BurnRejectedIds,  \* a rejected TigerBeetle id can never be applied later
    ChainsBreakOnExists, \* an Exists breaks the linked chain it is in
    MaxEvents,        \* bound: only RequestTransfer starts on a longer stream
    MaxCrashes        \* bound on calls that die half-way

AllRPCs == {"RequestTransfer", "CancelAcceptedTransfer", "ConfirmStagedTransfer",
            "CancelStagedTransfer", "PostPendingTransfer"}

ASSUME ConstantsAssumption ==
    /\ RPCs \subseteq AllRPCs
    /\ StageFlags \subseteq BOOLEAN
    /\ NumLegs \in Nat \ {0}
    /\ NumOps \in Nat
    /\ NumOps > NumLegs
    /\ PrepareMayFail \in BOOLEAN
    /\ BurnRejectedIds \in BOOLEAN
    /\ ChainsBreakOnExists \in BOOLEAN
    /\ MaxEvents \in Nat
    /\ MaxCrashes \in Nat

VARIABLES
    stream,   \* the Transfer's own event stream, as event types
    stage,    \* the stage flag the Accepted event recorded
    ops,      \* per Operation, the last fact of its stream
    leg,      \* per leg, what TigerBeetle holds under its ids
    call,     \* per slot, the running call's program counter and locals
    crashes   \* calls that died so far

store == <<stream, stage, ops>>
vars == <<stream, stage, ops, leg, call, crashes>>

Legs == 1..NumLegs
Ops == 1..NumOps

-----------------------------------------------------------------------------
(* The vocabulary of the streams.                                           *)

\* The saga-outcome events currentState folds, and the state each one means.
StateAfter ==
    [TransferRequestAccepted   |-> "accepted",
     TransferPrepared          |-> "prepared",
     TransferStaged            |-> "staged",
     TransferPending           |-> "pending",
     TransferCommitted         |-> "committed",
     TransferFailed            |-> "failed",
     TransferCancelled         |-> "cancelled",
     AcceptedTransferCancelled |-> "cancelled",
     PreparedTransferCancelled |-> "cancelled"]

\* Facts that are recorded on the stream but move the saga nowhere.
Refusals == {"TransferRequestRejected", "ConfirmStagedTransferRejected",
             "CancelStagedTransferRejected", "PostPendingTransferRejected"}

TransferEvents ==
    {"TransferRequestAccepted", "TransferPrepared", "TransferStaged",
     "TransferPending", "TransferCommitted", "TransferFailed", "TransferCancelled",
     "AcceptedTransferCancelled", "PreparedTransferCancelled"} \union Refusals

TerminalStates == {"committed", "failed", "cancelled"}

\* The last saga-outcome event of a stream decides.
IsLastFact(events, i) ==
    /\ events[i] \in DOMAIN StateAfter
    /\ \A j \in DOMAIN events : j > i => events[j] \notin DOMAIN StateAfter

currentState(events) ==
    IF \E i \in DOMAIN events : IsLastFact(events, i)
      THEN StateAfter[events[CHOOSE i \in DOMAIN events : IsLastFact(events, i)]]
      ELSE "unknown"

Recorded(e) == \E i \in DOMAIN stream : stream[i] = e

\* What an Operation's stream can end in; the first is "not initiated yet".
OpFacts == {"none", "Initiated", "Staged", "Performed", "Cancelled", "Failed"}
OpTerminal == {"Performed", "Cancelled", "Failed"}

\* The fact forEachOperation records on every Operation before event e lands.
OpFact(e) ==
    CASE e = "TransferStaged"    -> "Staged"
      [] e = "TransferCommitted" -> "Performed"
      [] e = "TransferFailed"    -> "Failed"
      [] OTHER                   -> "Cancelled"

\* Events that follow a walk over the Operations, and those of them that end
\* the Transfer.
WalkEvents == {"TransferStaged", "TransferCommitted", "TransferFailed",
               "TransferCancelled", "PreparedTransferCancelled"}
OutcomeEvents == WalkEvents \ {"TransferStaged"}

-----------------------------------------------------------------------------
(* The ledger, seen from this Transfer.  Its batches are one linked chain,   *)
(* so a batch applies to every leg or to none; only the timeout of a pending *)
(* transfer acts on a leg of its own.                                        *)

LegStates == {"none", "burned", "posted", "pending", "settled", "voided", "expired"}

\* A pending transfer was created under the leg's id.
Reserved == {"pending", "settled", "voided", "expired"}

\* The leg's amount has reached the posted balances.
Moved == {"posted", "settled"}

Kinds == {"Regular", "Pending", "PostPending", "VoidPending"}

\* What leg state makes a resubmission of this kind an Exists.
ExistsAs(kind) ==
    CASE kind = "Regular"     -> {"posted"}
      [] kind = "Pending"     -> Reserved
      [] kind = "PostPending" -> {"settled"}
      [] kind = "VoidPending" -> {"voided"}

\* The leg state in which this kind can be applied, and the one it leads to.
AppliesTo(kind) == IF kind \in {"Regular", "Pending"} THEN "none" ELSE "pending"

AppliedAs(kind) ==
    CASE kind = "Regular"     -> "posted"
      [] kind = "Pending"     -> "pending"
      [] kind = "PostPending" -> "settled"
      [] kind = "VoidPending" -> "voided"

Exists(kind) == \A l \in Legs : leg[l] \in ExistsAs(kind)
Applicable(kind) == \A l \in Legs : leg[l] = AppliesTo(kind)

\* submitBatch takes an Exists for success, leg by leg.  FakeClient answers it
\* for every leg of a replayed batch; TigerBeetle breaks the chain at the first
\* one and answers linked_event_failed for the others, so that only a batch of
\* one leg is recognised.
Recognised == NumLegs = 1 \/ ~ChainsBreakOnExists

\* Mutant: an Exists for the resubmitted batch counts as a rejection.
Refusable_ExistsIsRejected(kind) ==
    Exists(kind) \/ (Applicable(kind) => kind \in {"Regular", "Pending"})

\* Fresh debits may be refused for funds that other transfers moved meanwhile;
\* a live reservation can always be posted or voided.
Refusable(kind) ==
    /\ Exists(kind) => ~Recognised
    /\ Applicable(kind) => kind \in {"Regular", "Pending"}

-----------------------------------------------------------------------------
(* Calls.                                                                    *)

PCs == {"idle", "load", "append", "runSaga", "prepare", "prepareAppend",
        "prepareConverge", "commit", "submit", "operations", "sagaStep",
        "postReload", "cancelPrepared"}

Replies == {"none", "ok", "rejected", "error", "aborted", "crashed"}

maxConcurrencyAttempts == 3

CallRecords ==
    [pc      : PCs,
     rpc     : AllRPCs \union {"none"},
     seq     : Nat,                              \* stream length it read
     event   : TransferEvents \union {"none"},   \* what it is about to append
     kind    : Kinds \union {"none"},            \* what it is about to submit
     op      : 1..(NumOps + 1),                  \* next Operation of its walk
     attempt : 1..maxConcurrencyAttempts,
     reply   : Replies]

Idle(rpc, reply) ==
    [pc |-> "idle", rpc |-> rpc, seq |-> 0, event |-> "none", kind |-> "none",
     op |-> 1, attempt |-> 1, reply |-> reply]

Goto(c, pc) == call' = [call EXCEPT ![c].pc = pc]

\* End the call; for a saga driver "error" is what runSaga returned to it.
Return(c, reply) == call' = [call EXCEPT ![c] = Idle(call[c].rpc, reply)]

\* Walk the Operations, then append e.
Walk(c, e) ==
    call' = [call EXCEPT ![c].pc = "operations", ![c].event = e, ![c].op = 1,
                         ![c].kind = "none"]

Submit(c, kind) == call' = [call EXCEPT ![c].pc = "submit", ![c].kind = kind]

\* Append e at the length this call just read.
Decide(c, e) ==
    call' = [call EXCEPT ![c].pc = "append", ![c].event = e, ![c].seq = Len(stream)]

Step(c, e) == call' = [call EXCEPT ![c].pc = "sagaStep", ![c].event = e]

Init ==
    /\ stream = << >>
    /\ stage = FALSE
    /\ ops = [o \in Ops |-> "none"]
    /\ leg = [l \in Legs |-> "none"]
    /\ call = [c \in Calls |-> Idle("none", "none")]
    /\ crashes = 0

\* An RPC reaches the server.
Send(c, r) ==
    /\ call[c].pc = "idle"
    /\ call' = [call EXCEPT ![c] = [Idle(r, "none") EXCEPT !.pc = "load"]]
    /\ UNCHANGED <<store, leg, crashes>>

\* A client sends an RPC, legal or not (MaxEvents bounds the refusals).
Start(c, r) == (Len(stream) <= MaxEvents \/ r = "RequestTransfer") /\ Send(c, r)

-----------------------------------------------------------------------------
(* The RPC handlers up to their decision: load, fold, decide.                *)

\* RequestTransfer and RequestReversal: an id that was decided before is only
\* resumed.  Otherwise the manifest (source tokens, or the original Transfer's
\* legs) is found acceptable or not, which depends on other aggregates.
LoadRequest(c) ==
    /\ call[c].pc = "load" /\ call[c].rpc = "RequestTransfer"
    /\ \/ /\ stream # << >> /\ stream[1] = "TransferRequestAccepted"
          /\ Goto(c, "runSaga")
       \/ /\ stream # << >> /\ stream[1] = "TransferRequestRejected"
          /\ Return(c, "rejected")
       \/ /\ stream = << >>
          /\ \E e \in {"TransferRequestAccepted", "TransferRequestRejected"} : Decide(c, e)
    /\ UNCHANGED <<store, leg, crashes>>

LoadCancelAccepted(c) ==
    /\ call[c].pc = "load" /\ call[c].rpc = "CancelAcceptedTransfer"
    /\ IF stream # << >> /\ currentState(stream) \in {"accepted", "prepared", "cancelled"}
         THEN Goto(c, "cancelPrepared")
         ELSE Return(c, "rejected")
    /\ UNCHANGED <<store, leg, crashes>>

\* Mutant: confirms whatever state the Transfer is in.
LoadConfirmStaged_AnyState(c) ==
    /\ call[c].pc = "load" /\ call[c].rpc = "ConfirmStagedTransfer"
    /\ IF stream = << >> THEN Return(c, "rejected") ELSE Step(c, "TransferPending")
    /\ UNCHANGED <<store, leg, crashes>>

LoadConfirmStaged(c) ==
    /\ call[c].pc = "load" /\ call[c].rpc = "ConfirmStagedTransfer"
    /\ LET state == currentState(stream) IN
         CASE stream = << >>    -> Return(c, "rejected")
           [] state = "staged"  -> Step(c, "TransferPending")
           [] state = "pending" -> Return(c, "ok")
           [] OTHER             -> Decide(c, "ConfirmStagedTransferRejected")
    /\ UNCHANGED <<store, leg, crashes>>

LoadCancelStaged(c) ==
    /\ call[c].pc = "load" /\ call[c].rpc = "CancelStagedTransfer"
    /\ LET state == currentState(stream) IN
         CASE stream = << >>                -> Return(c, "rejected")
           [] state \in {"staged", "pending"} -> Submit(c, "VoidPending")
           [] state = "cancelled"           -> Return(c, "ok")
           [] OTHER                         -> Decide(c, "CancelStagedTransferRejected")
    /\ UNCHANGED <<store, leg, crashes>>

\* Mutant: takes every terminal state for "already posted".
LoadPostPending_AnyTerminal(c) ==
    /\ call[c].pc = "load" /\ call[c].rpc = "PostPendingTransfer"
    /\ LET state == currentState(stream) IN
         CASE stream = << >>             -> Return(c, "rejected")
           [] state = "pending"          -> Goto(c, "commit")
           [] state \in TerminalStates   -> Return(c, "ok")
           [] OTHER                      -> Decide(c, "PostPendingTransferRejected")
    /\ UNCHANGED <<store, leg, crashes>>

LoadPostPending(c) ==
    /\ call[c].pc = "load" /\ call[c].rpc = "PostPendingTransfer"
    /\ LET state == currentState(stream) IN
         CASE stream = << >>      -> Return(c, "rejected")
           [] state = "pending"   -> Goto(c, "commit")
           [] state = "committed" -> Return(c, "ok")
           [] OTHER               -> Decide(c, "PostPendingTransferRejected")
    /\ UNCHANGED <<store, leg, crashes>>

\* tryAppend: the decision lands only on the stream it was made from; a
\* conflict sends the handler back to its load, at most maxConcurrencyAttempts
\* times in all.
TryAppend(c) ==
    /\ call[c].pc = "append"
    /\ IF Len(stream) = call[c].seq
         THEN /\ stream' = Append(stream, call[c].event)
              /\ IF call[c].event = "TransferRequestAccepted"
                   THEN (\E s \in StageFlags : stage' = s) /\ Goto(c, "runSaga")
                   ELSE UNCHANGED stage /\ Return(c, "rejected")
         ELSE /\ IF call[c].attempt < maxConcurrencyAttempts
                   THEN call' = [call EXCEPT ![c].pc = "load",
                                             ![c].attempt = call[c].attempt + 1]
                   ELSE Return(c, "aborted")
              /\ UNCHANGED <<stream, stage>>
    /\ UNCHANGED <<ops, leg, crashes>>

-----------------------------------------------------------------------------
(* The saga.                                                                 *)

\* Mutant: does not stop at Staged.
RunSaga_Restages(c) ==
    /\ call[c].pc = "runSaga"
    /\ LET state == currentState(stream) IN
         CASE state = "accepted"                       -> Goto(c, "prepare")
           [] state \in {"prepared", "staged"} /\ stage -> Submit(c, "Pending")
           [] state = "prepared" /\ ~stage             -> Goto(c, "commit")
           [] OTHER                                    -> Return(c, "ok")
    /\ UNCHANGED <<store, leg, crashes>>

\* One turn of runSaga's loop.
RunSaga(c) ==
    /\ call[c].pc = "runSaga"
    /\ LET state == currentState(stream) IN
         CASE state = "accepted"           -> Goto(c, "prepare")
           [] state = "prepared" /\ stage  -> Submit(c, "Pending")
           [] state = "prepared" /\ ~stage -> Goto(c, "commit")
           [] OTHER                        -> Return(c, "ok")
    /\ UNCHANGED <<store, leg, crashes>>

\* prepare reads the stream again, but only its first event; re-selection and
\* minting may be refused.
Prepare(c) ==
    /\ call[c].pc = "prepare"
    /\ \/ call' = [call EXCEPT ![c].pc = "prepareAppend", ![c].seq = Len(stream)]
       \/ PrepareMayFail /\ Return(c, "error")
    /\ UNCHANGED <<store, leg, crashes>>

\* One AppendAtomic: TransferPrepared and every Operation's Initiated.  The
\* manifest in force is the first one recorded (preparedLegs), so a second
\* TransferPrepared initiates Operations nothing ever reads.  A write to the
\* wallet's stream by another Transfer conflicts too.
PrepareAppend(c) ==
    /\ call[c].pc = "prepareAppend"
    /\ \/ /\ Len(stream) = call[c].seq
          /\ stream' = Append(stream, "TransferPrepared")
          /\ ops' = IF Recorded("TransferPrepared") THEN ops ELSE [o \in Ops |-> "Initiated"]
          /\ Goto(c, "runSaga")
       \/ /\ Len(stream) # call[c].seq \/ PrepareMayFail
          /\ Goto(c, "prepareConverge")
          /\ UNCHANGED <<stream, ops>>
    /\ UNCHANGED <<stage, leg, crashes>>

PrepareConverge(c) ==
    /\ call[c].pc = "prepareConverge"
    /\ IF Recorded("TransferPrepared") THEN Goto(c, "runSaga") ELSE Return(c, "error")
    /\ UNCHANGED <<store, leg, crashes>>

\* Mutant: performs the Operations without having submitted the batch.
Commit_NoSubmit(c) ==
    /\ call[c].pc = "commit"
    /\ Walk(c, "TransferCommitted")
    /\ UNCHANGED <<store, leg, crashes>>

\* commit folds the stream again to choose between posting and a fresh batch.
Commit(c) ==
    /\ call[c].pc = "commit"
    /\ Submit(c, IF currentState(stream) = "pending" THEN "PostPending" ELSE "Regular")
    /\ UNCHANGED <<store, leg, crashes>>

\* The event stage, commit or cancelStaged record once their batch is in.
EventAfter(kind) ==
    CASE kind = "Pending"     -> "TransferStaged"
      [] kind = "VoidPending" -> "TransferCancelled"
      [] OTHER                -> "TransferCommitted"

\* submitBatch: every leg OK or Exists.
SubmitOK(c) ==
    /\ call[c].pc = "submit"
    /\ LET kind == call[c].kind IN
         /\ \/ Exists(kind) /\ Recognised /\ UNCHANGED leg
            \/ Applicable(kind) /\ leg' = [l \in Legs |-> AppliedAs(kind)]
         /\ Walk(c, EventAfter(kind))
    /\ UNCHANGED <<store, crashes>>

\* Mutant: goes on as if a refused void had released the reservation.
SubmitRejected_VoidIgnored(c) ==
    /\ call[c].pc = "submit"
    /\ LET kind == call[c].kind IN
         /\ Refusable(kind)
         /\ leg' = IF Applicable(kind) /\ BurnRejectedIds
                     THEN [l \in Legs |-> "burned"] ELSE leg
         /\ Walk(c, IF kind = "VoidPending" THEN "TransferCancelled" ELSE "TransferFailed")
    /\ UNCHANGED <<store, crashes>>

\* submitBatch: some leg neither OK nor Exists, nothing applied by this
\* submission.  stage and commit compensate; a refused void is an error of its
\* own.
SubmitRejected(c) ==
    /\ call[c].pc = "submit"
    /\ LET kind == call[c].kind IN
         /\ Refusable(kind)
         /\ leg' = IF Applicable(kind) /\ BurnRejectedIds
                     THEN [l \in Legs |-> "burned"] ELSE leg
         /\ IF kind = "VoidPending" THEN Return(c, "error") ELSE Walk(c, "TransferFailed")
    /\ UNCHANGED <<store, crashes>>

\* The walk moves on to the next Operation, or to its event.
NextOperation(c, o) ==
    call' = [call EXCEPT ![c].op = o + 1,
                         ![c].pc = IF o = NumOps THEN "sagaStep" ELSE "operations"]

\* Mutant: overwrites a terminal fact.
AdvanceOperation_Overwrites(c) ==
    /\ call[c].pc = "operations"
    /\ ops' = [ops EXCEPT ![call[c].op] = OpFact(call[c].event)]
    /\ NextOperation(c, call[c].op)
    /\ UNCHANGED <<stream, stage, leg, crashes>>

\* Mutant: a contradicted walk ends early and still records its event.
AdvanceOperation_Swallows(c) ==
    /\ call[c].pc = "operations"
    /\ LET o == call[c].op
           fact == OpFact(call[c].event)
       IN  IF ops[o] \in OpTerminal /\ ops[o] # fact
             THEN Goto(c, "sagaStep") /\ UNCHANGED ops
             ELSE ops' = [ops EXCEPT ![o] = fact] /\ NextOperation(c, o)
    /\ UNCHANGED <<stream, stage, leg, crashes>>

\* Mutant: a terminal Operation is refused even when it already is this fact.
AdvanceOperation_NoConverge(c) ==
    /\ call[c].pc = "operations"
    /\ LET o == call[c].op IN
         IF ops[o] \in OpTerminal
           THEN Return(c, "error") /\ UNCHANGED ops
           ELSE ops' = [ops EXCEPT ![o] = OpFact(call[c].event)] /\ NextOperation(c, o)
    /\ UNCHANGED <<stream, stage, leg, crashes>>

\* Mutant: walks one past the last Operation.
AdvanceOperation_OffByOne(c) ==
    /\ call[c].pc = "operations"
    /\ LET o == call[c].op IN
         IF ops[o] \in OpTerminal /\ ops[o] # OpFact(call[c].event)
           THEN Return(c, "error") /\ UNCHANGED ops
           ELSE /\ ops' = [ops EXCEPT ![o] = OpFact(call[c].event)]
                /\ call' = [call EXCEPT ![c].op = o + 1,
                                        ![c].pc = IF o > NumOps THEN "sagaStep" ELSE "operations"]
    /\ UNCHANGED <<stream, stage, leg, crashes>>

\* operation.advance on the walk's next Operation: converge, refuse to
\* contradict a terminal fact, or append.
AdvanceOperation(c) ==
    /\ call[c].pc = "operations"
    /\ LET o == call[c].op
           fact == OpFact(call[c].event)
       IN  IF (ops[o] \in OpTerminal /\ ops[o] # fact) \/ ops[o] = "none"
             THEN Return(c, "error") /\ UNCHANGED ops
             ELSE ops' = [ops EXCEPT ![o] = fact] /\ NextOperation(c, o)
    /\ UNCHANGED <<stream, stage, leg, crashes>>

\* What the step a batch was rejected in still means to record after
\* compensate has returned nil to it.
Interrupted(c) ==
    IF call[c].rpc = "RequestTransfer" /\ stage THEN "TransferStaged" ELSE "TransferCommitted"

\* appendSagaStep: append unless the stream already ends in this very event;
\* nothing else about the stream is looked at.
AppendSagaStep(c) ==
    /\ call[c].pc = "sagaStep"
    /\ LET e == call[c].event IN
         /\ stream' = IF stream # << >> /\ stream[Len(stream)] = e THEN stream ELSE Append(stream, e)
         /\ CASE e = "TransferFailed"                  -> Walk(c, Interrupted(c))
              [] e # "TransferFailed" /\ call[c].rpc = "RequestTransfer" -> Goto(c, "runSaga")
              [] e # "TransferFailed" /\ call[c].rpc = "PostPendingTransfer" -> Goto(c, "postReload")
              [] OTHER                                 -> Return(c, "ok")
    /\ UNCHANGED <<stage, ops, leg, crashes>>

\* PostPendingTransfer reports what commit really ended in.
PostReload(c) ==
    /\ call[c].pc = "postReload"
    /\ Return(c, IF currentState(stream) # "failed" /\ Recorded("TransferCommitted")
                   THEN "ok" ELSE "error")
    /\ UNCHANGED <<store, leg, crashes>>

\* cancelPrepared folds the stream once more.
CancelPrepared(c) ==
    /\ call[c].pc = "cancelPrepared"
    /\ LET state == currentState(stream) IN
         CASE state = "accepted"          -> Step(c, "AcceptedTransferCancelled")
           [] state = "prepared"          -> Walk(c, "PreparedTransferCancelled")
           [] state \in TerminalStates    -> Return(c, "ok")
           [] OTHER                       -> Return(c, "error")
    /\ UNCHANGED <<store, leg, crashes>>

-----------------------------------------------------------------------------
(* The environment.                                                          *)

\* TigerBeetle drops a reservation that outlived stagingTimeoutSeconds.
Expire(l) ==
    /\ leg[l] = "pending"
    /\ leg' = [leg EXCEPT ![l] = "expired"]
    /\ UNCHANGED <<store, call, crashes>>

\* The process dies, or a store or ledger call of this handler fails.
Crash(c) ==
    /\ call[c].pc # "idle"
    /\ crashes < MaxCrashes
    /\ crashes' = crashes + 1
    /\ Return(c, "crashed")
    /\ UNCHANGED <<store, leg>>

\* One step of a running call.
CallStep(c) ==
    \/ LoadRequest(c) \/ LoadCancelAccepted(c) \/ LoadConfirmStaged(c)
    \/ LoadCancelStaged(c) \/ LoadPostPending(c) \/ TryAppend(c)
    \/ RunSaga(c) \/ Prepare(c) \/ PrepareAppend(c) \/ PrepareConverge(c)
    \/ Commit(c) \/ SubmitOK(c) \/ SubmitRejected(c)
    \/ AdvanceOperation(c) \/ AppendSagaStep(c) \/ PostReload(c) \/ CancelPrepared(c)

Next ==
    \/ \E c \in Calls : CallStep(c) \/ Crash(c) \/ \E r \in RPCs : Start(c, r)
    \/ \E l \in Legs : Expire(l)

Spec == Init /\ [][Next]_vars

-----------------------------------------------------------------------------
(* Properties.                                                               *)

\* The streams, the legs and every call's locals stay within their types, and a
\* call that is walking the manifest (forEachOperation) is at an Operation of it.
TypeOK ==
    /\ stream \in Seq(TransferEvents)
    /\ stage \in BOOLEAN
    /\ ops \in [Ops -> OpFacts]
    /\ leg \in [Legs -> LegStates]
    /\ call \in [Calls -> CallRecords]
    /\ \A c \in Calls : call[c].pc = "operations" => call[c].op \in Ops
    /\ crashes \in 0..MaxCrashes

\* However many commits, cancellations and compensations walk the same manifest
\* at once, its Operations never end differently: every driver walks them in the
\* order of forEachOperation and advance refuses to contradict a terminal fact,
\* so the first DEBIT decides for all of them.
OperationsAgree ==
    \A i, j \in Ops : i < j /\ ops[j] \in OpTerminal => ops[i] = ops[j]

\* An outcome on the Transfer's stream is backed by every Operation of its
\* manifest.  Since an Operation's terminal fact is final, TransferCommitted,
\* TransferFailed and a cancellation from Prepared, Staged or Pending can never
\* be recorded for the same Transfer.
OutcomeCoversManifest ==
    \A e \in OutcomeEvents : Recorded(e) => \A o \in Ops : ops[o] = OpFact(e)

\* No Operation is Performed before its money has moved, although commit asks
\* the ledger long before it writes, crashes in between, and goes on to its
\* Perform walk even after compensate.
PerformedMeansMoved ==
    \A o \in Ops : ops[o] = "Performed" => \A l \in Legs : leg[l] \in Moved

\* TransferCancelled (cancelStaged) is only ever recorded for reservations that
\* were really voided, never for ones a racing PostPendingTransfer settled.
StagedCancelReleased ==
    Recorded("TransferCancelled") => \A l \in Legs : leg[l] = "voided"

\* A successful reply of PostPendingTransfer means that the money has moved,
\* also when it was another call that posted it or when it lost a race.
PostReplyMeansMoved ==
    \A c \in Calls : call[c].rpc = "PostPendingTransfer" /\ call[c].reply = "ok"
                      => \A l \in Legs : leg[l] \in Moved

\* Committed, Failed and Cancelled are true terminals (runSaga): no later event
\* moves the Transfer out of them.
TerminalIsFinal ==
    [][currentState(stream) \in TerminalStates => currentState(stream') = currentState(stream)]_vars

\* A saga step that was already recorded is not recorded again by a resumed
\* saga (appendSagaStep, prepare); only refusals may repeat.
RecordedOnce ==
    \A i, j \in DOMAIN stream : stream[i] = stream[j] /\ stream[i] \notin Refusals => i = j

\* A Transfer compensate failed has moved no money, wherever earlier drivers
\* died and whatever they had submitted ("safe, and expected, to call this
\* idempotently any number of times", runSaga).  It rests on the ledger
\* recognising a replayed batch, as TigerBeetle does only for a single leg.
FailedMovedNothing ==
    Recorded("TransferFailed") => \A l \in Legs : leg[l] \notin Moved

\* cancelPrepared cancels "before anything has been submitted to TigerBeetle":
\* a Transfer it cancelled has moved no money.
PreparedCancelMovedNothing ==
    Recorded("PreparedTransferCancelled") => \A l \in Legs : leg[l] \notin Moved

-----------------------------------------------------------------------------
(* Fairness: a call that runs takes its next step, calls die finitely often  *)
(* (MaxCrashes), other Transfers do not make prepare fail for ever, and       *)
(* clients repeat a request, a confirmation, a posting and the cancellation   *)
(* of a staged Transfer until it gets through, whatever else they send.       *)
(* Nobody is assumed to cancel an accepted Transfer, nor to finish such a     *)
(* cancellation that was begun.                                               *)

\* The states in which an RPC is not refused.
LegalIn(r) ==
    CASE r = "RequestTransfer"        -> {"unknown", "accepted", "prepared"}
      [] r = "CancelAcceptedTransfer" -> {"accepted", "prepared"}
      [] r = "ConfirmStagedTransfer"  -> {"staged"}
      [] r = "CancelStagedTransfer"   -> {"staged", "pending"}
      [] r = "PostPendingTransfer"    -> {"pending"}

\* An RPC repeated where it can do something: no refusal, so no bound.
Retry(r) == currentState(stream) \in LegalIn(r) /\ \E c \in Calls : Send(c, r)

\* prepare gets to its append, and the append lands.
PrepareSelects(c) == Prepare(c) /\ call'[c].pc = "prepareAppend"
PrepareLands(c) == PrepareAppend(c) /\ stream' # stream

FairSpec ==
    /\ Init /\ [][Next \/ \E r \in RPCs : Retry(r)]_vars
    /\ \A c \in Calls : /\ WF_vars(CallStep(c))
                       /\ SF_vars(PrepareSelects(c))
                       /\ SF_vars(PrepareLands(c))
    /\ \A r \in RPCs \ {"CancelAcceptedTransfer"} : SF_vars(Retry(r))

\* logSagaError: "the Transfer itself self-heals".  An accepted Transfer, left
\* anywhere by crashes, is brought to a waiting or a terminal state by retries
\* of the request alone, unless cancelPrepared began to cancel its Operations:
\* when that call died, commit's walk contradicts the cancelled ones for ever
\* and only repeating the cancellation ends the Transfer.
SelfHeals ==
    Recorded("TransferRequestAccepted")
        ~> \/ currentState(stream) \in TerminalStates \union {"staged", "pending"}
           \/ \E o \in Ops : ops[o] = "Cancelled"

\* A staged Transfer is eventually committed, failed or cancelled when its
\* confirmation, posting and cancellation are retried, whichever of them died
\* half-way and whether or not the reservation timed out.
StagedResolves ==
    currentState(stream) = "staged" ~> currentState(stream) \in TerminalStates
=============================================================================
