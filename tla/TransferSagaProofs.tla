------------------------- MODULE TransferSagaProofs -------------------------
(***************************************************************************)
(* What TransferSaga promises for every number of legs, Operations and      *)
(* concurrent calls, every mix of RPCs and every schedule of crashes.       *)
(***************************************************************************)
EXTENDS TransferSaga, TLAPS

AllMoved == \A l \in Legs : leg[l] \in Moved
AllVoided == \A l \in Legs : leg[l] = "voided"

\* Operations exist only once TransferPrepared has been recorded.
ManifestRecorded ==
    (\E o \in Ops : ops[o] # "none") => Recorded("TransferPrepared")

\* What a call in the middle of its work knows about the shared state.
CallKnows(c) ==
    /\ call[c].pc = "append" =>
         /\ call[c].event \in Refusals \union {"TransferRequestAccepted"}
         /\ call[c].event = "TransferRequestAccepted" => call[c].rpc = "RequestTransfer"
    /\ call[c].pc \in {"runSaga", "prepare", "prepareAppend", "prepareConverge"}
         => call[c].rpc = "RequestTransfer"
    /\ call[c].pc = "cancelPrepared" => call[c].rpc = "CancelAcceptedTransfer"
    /\ call[c].pc = "submit" => call[c].kind \in Kinds
    /\ call[c].pc = "operations" =>
         /\ call[c].event \in WalkEvents
         /\ \A o \in Ops : o < call[c].op /\ call[c].event \in OutcomeEvents
                             => ops[o] = OpFact(call[c].event)
         /\ call[c].event = "TransferCommitted" => AllMoved \/ ops[1] = "Failed"
         /\ call[c].event = "TransferCancelled" => AllVoided
    /\ call[c].pc = "sagaStep" =>
         /\ call[c].event \in TransferEvents
         /\ \A o \in Ops : call[c].event \in OutcomeEvents => ops[o] = OpFact(call[c].event)
         /\ call[c].event = "TransferCancelled" => AllVoided

\* The inductive invariant.
Inv ==
    /\ TypeOK
    /\ OperationsAgree
    /\ OutcomeCoversManifest
    /\ PerformedMeansMoved
    /\ StagedCancelReleased
    /\ PostReplyMeansMoved
    /\ ManifestRecorded
    /\ \A c \in Calls : CallKnows(c)

-----------------------------------------------------------------------------
(* Facts about the operators the model is built from.                        *)

\* Appending an event adds that event to what a stream records, and nothing else.
LEMMA RecordedAfterAppend ==
    ASSUME stream \in Seq(TransferEvents), NEW e \in TransferEvents,
           stream' = Append(stream, e)
    PROVE  /\ stream' \in Seq(TransferEvents)
           /\ \A f : Recorded(f)' <=> Recorded(f) \/ f = e
<1>1. /\ Len(stream') = Len(stream) + 1
      /\ \A i \in 1..Len(stream) : stream'[i] = stream[i]
      /\ stream'[Len(stream) + 1] = e
      /\ Len(stream) \in Nat
  OBVIOUS
<1>2. stream' \in Seq(TransferEvents)
  OBVIOUS
<1>3. DOMAIN stream = 1..Len(stream) /\ DOMAIN stream' = 1..(Len(stream) + 1)
  BY <1>1, <1>2
<1>4. ASSUME NEW f
      PROVE  Recorded(f)' <=> Recorded(f) \/ f = e
  BY <1>1, <1>3 DEF Recorded
<1> QED BY <1>2, <1>4

\* currentState can only be "committed" if TransferCommitted was recorded.
LEMMA CommittedIsRecorded ==
    ASSUME currentState(stream) = "committed"
    PROVE  Recorded("TransferCommitted")
<1>1. PICK i \in DOMAIN stream : IsLastFact(stream, i) /\ StateAfter[stream[i]] = "committed"
  BY DEF currentState
<1>2. stream[i] \in DOMAIN StateAfter
  BY <1>1 DEF IsLastFact
<1>3. stream[i] = "TransferCommitted"
  BY <1>1, <1>2 DEF StateAfter
<1> QED BY <1>3 DEF Recorded

-----------------------------------------------------------------------------
(* What the helpers that move a call do to its record.  Others' records stay *)
(* as they are.                                                              *)

USE DEF maxConcurrencyAttempts

OthersKeep(c) == \A d \in Calls : d # c => call'[d] = call[d]

\* An ended call is a well-formed call record.
LEMMA IdleIsRecord ==
    ASSUME NEW rpc \in AllRPCs \union {"none"}, NEW reply \in Replies
    PROVE  Idle(rpc, reply) \in CallRecords
BY ConstantsAssumption DEF Idle, CallRecords, PCs

\* What moving on to another step of the handler changes: the program counter.
LEMMA GotoEffect ==
    ASSUME call \in [Calls -> CallRecords], NEW c \in Calls, NEW pc \in PCs, Goto(c, pc)
    PROVE  /\ call' \in [Calls -> CallRecords]
           /\ call'[c].pc = pc
           /\ call'[c].rpc = call[c].rpc /\ call'[c].reply = call[c].reply
           /\ OthersKeep(c)
BY DEF Goto, CallRecords, OthersKeep

\* What the return of a handler changes: its slot is idle and keeps RPC and reply.
LEMMA ReturnEffect ==
    ASSUME call \in [Calls -> CallRecords], NEW c \in Calls, NEW reply \in Replies,
           Return(c, reply)
    PROVE  /\ call' \in [Calls -> CallRecords]
           /\ call'[c].pc = "idle"
           /\ call'[c].rpc = call[c].rpc /\ call'[c].reply = reply
           /\ OthersKeep(c)
<1>1. call[c].rpc \in AllRPCs \union {"none"}
  BY DEF CallRecords
<1>2. Idle(call[c].rpc, reply) \in CallRecords
  BY <1>1, IdleIsRecord
<1>3. call'[c] = Idle(call[c].rpc, reply)
  BY DEF Return
<1> QED BY <1>2, <1>3 DEF Return, Idle, OthersKeep

\* What the start of forEachOperation changes: the call is at the first Operation.
LEMMA WalkEffect ==
    ASSUME call \in [Calls -> CallRecords], NEW c \in Calls, NEW e \in TransferEvents,
           Walk(c, e)
    PROVE  /\ call' \in [Calls -> CallRecords]
           /\ call'[c].pc = "operations" /\ call'[c].event = e /\ call'[c].op = 1
           /\ call'[c].rpc = call[c].rpc /\ call'[c].reply = call[c].reply
           /\ OthersKeep(c)
<1>1. 1 \in 1..(NumOps + 1)
  BY ConstantsAssumption
<1> DEFINE r == [call[c] EXCEPT !.pc = "operations", !.event = e, !.op = 1, !.kind = "none"]
<1>2. call[c] \in CallRecords
  OBVIOUS
<1>3. r \in CallRecords /\ r.pc = "operations" /\ r.event = e /\ r.op = 1
         /\ r.rpc = call[c].rpc /\ r.reply = call[c].reply
  BY <1>1, <1>2 DEF CallRecords, PCs
<1>4. call' = [call EXCEPT ![c] = r]
  BY DEF Walk
<1> HIDE DEF r
<1> QED BY <1>3, <1>4 DEF OthersKeep

\* What handing a batch to submitBatch changes.
LEMMA SubmitEffect ==
    ASSUME call \in [Calls -> CallRecords], NEW c \in Calls, NEW kind \in Kinds,
           Submit(c, kind)
    PROVE  /\ call' \in [Calls -> CallRecords]
           /\ call'[c].pc = "submit" /\ call'[c].kind = kind
           /\ call'[c].rpc = call[c].rpc /\ call'[c].reply = call[c].reply
           /\ OthersKeep(c)
BY DEF Submit, CallRecords, PCs, OthersKeep

\* What a handler's decision changes: the event and the length it was made from.
LEMMA DecideEffect ==
    ASSUME call \in [Calls -> CallRecords], NEW c \in Calls, NEW e \in TransferEvents,
           stream \in Seq(TransferEvents), Decide(c, e)
    PROVE  /\ call' \in [Calls -> CallRecords]
           /\ call'[c].pc = "append" /\ call'[c].event = e
           /\ call'[c].rpc = call[c].rpc /\ call'[c].reply = call[c].reply
           /\ OthersKeep(c)
<1>1. Len(stream) \in Nat
  OBVIOUS
<1> DEFINE r == [call[c] EXCEPT !.pc = "append", !.event = e, !.seq = Len(stream)]
<1>2. call[c] \in CallRecords
  OBVIOUS
<1>3. r \in CallRecords /\ r.pc = "append" /\ r.event = e
         /\ r.rpc = call[c].rpc /\ r.reply = call[c].reply
  BY <1>1, <1>2 DEF CallRecords, PCs
<1>4. call' = [call EXCEPT ![c] = r]
  BY DEF Decide
<1> HIDE DEF r
<1> QED BY <1>3, <1>4 DEF OthersKeep

\* What going straight to appendSagaStep changes.
LEMMA StepEffect ==
    ASSUME call \in [Calls -> CallRecords], NEW c \in Calls, NEW e \in TransferEvents,
           Step(c, e)
    PROVE  /\ call' \in [Calls -> CallRecords]
           /\ call'[c].pc = "sagaStep" /\ call'[c].event = e
           /\ call'[c].rpc = call[c].rpc /\ call'[c].reply = call[c].reply
           /\ OthersKeep(c)
BY DEF Step, CallRecords, PCs, OthersKeep

\* What a turn of forEachOperation changes: it is at the next Operation, or done.
LEMMA NextOperationEffect ==
    ASSUME call \in [Calls -> CallRecords], NEW c \in Calls, NEW o \in Ops,
           NextOperation(c, o)
    PROVE  /\ call' \in [Calls -> CallRecords]
           /\ call'[c].pc = IF o = NumOps THEN "sagaStep" ELSE "operations"
           /\ call'[c].op = o + 1
           /\ call'[c].event = call[c].event
           /\ call'[c].rpc = call[c].rpc /\ call'[c].reply = call[c].reply
           /\ OthersKeep(c)
<1> DEFINE pc == IF o = NumOps THEN "sagaStep" ELSE "operations"
           r == [call[c] EXCEPT !.op = o + 1, !.pc = pc]
<1>1. o + 1 \in 1..(NumOps + 1) /\ pc \in PCs
  BY ConstantsAssumption DEF Ops, PCs
<1>2. call[c] \in CallRecords
  OBVIOUS
<1>3. call' = [call EXCEPT ![c] = r]
  BY DEF NextOperation
<1> HIDE DEF pc
<1>4. r \in CallRecords /\ r.pc = pc /\ r.op = o + 1 /\ r.event = call[c].event
         /\ r.rpc = call[c].rpc /\ r.reply = call[c].reply
  BY <1>1, <1>2 DEF CallRecords
<1> HIDE DEF r
<1>5. pc = IF o = NumOps THEN "sagaStep" ELSE "operations"
  BY DEF pc
<1> QED BY <1>3, <1>4, <1>5 DEF OthersKeep

-----------------------------------------------------------------------------
(* The initial state.                                                        *)

\* Before any call the invariant holds.
LEMMA InitEstablishes == Init => Inv
<1> SUFFICES ASSUME Init PROVE Inv
  OBVIOUS
<1>1. Idle("none", "none") \in CallRecords
  BY IdleIsRecord DEF Replies
<1>2. TypeOK
  <2>1. stream \in Seq(TransferEvents)
    BY DEF Init
  <2>2. call \in [Calls -> CallRecords] /\ \A c \in Calls : call[c].pc = "idle"
    BY <1>1 DEF Init, Idle
  <2>3. crashes \in 0..MaxCrashes
    BY ConstantsAssumption DEF Init
  <2> QED BY <2>1, <2>2, <2>3 DEF Init, TypeOK, OpFacts, LegStates
<1>3. \A e : ~Recorded(e)
  BY DEF Init, Recorded
<1>4. \A c \in Calls : call[c].pc = "idle" /\ call[c].reply = "none"
  BY DEF Init, Idle
<1>5. OperationsAgree /\ PerformedMeansMoved /\ ManifestRecorded
  BY DEF Init, OperationsAgree, PerformedMeansMoved, ManifestRecorded, OpTerminal
<1>6. OutcomeCoversManifest /\ StagedCancelReleased
  BY <1>3 DEF OutcomeCoversManifest, StagedCancelReleased
<1>7. PostReplyMeansMoved /\ \A c \in Calls : CallKnows(c)
  BY <1>4 DEF PostReplyMeansMoved, CallKnows
<1> QED BY <1>2, <1>5, <1>6, <1>7 DEF Inv

-----------------------------------------------------------------------------
(* Frames.  Terminal Operations, moved legs and voided legs stay what they   *)
(* are, so what a call knows survives every step of the others.              *)

TerminalOpsKept == \A o \in Ops : ops[o] \in OpTerminal => ops'[o] = ops[o]
LegsKept == (AllMoved => AllMoved') /\ (AllVoided => AllVoided')

\* The fact behind an outcome event is one advance refuses to contradict.
LEMMA OutcomeFactsAreTerminal ==
    \A e \in OutcomeEvents : OpFact(e) \in OpTerminal
BY DEF OutcomeEvents, WalkEvents, OpFact, OpTerminal

\* What a call knows from its own steps stays true while other calls run: terminal
\* facts, and moved or voided legs, are kept.
LEMMA KnowledgeIsStable ==
    ASSUME TerminalOpsKept, LegsKept, NEW d \in Calls, CallKnows(d), call'[d] = call[d]
    PROVE  CallKnows(d)'
<1>1. 1 \in Ops
  BY ConstantsAssumption DEF Ops
<1>2. ops[1] = "Failed" => ops'[1] = "Failed"
  BY <1>1 DEF TerminalOpsKept, OpTerminal
<1>3. \A o \in Ops, e \in OutcomeEvents : ops[o] = OpFact(e) => ops'[o] = OpFact(e)
  BY OutcomeFactsAreTerminal DEF TerminalOpsKept
<1> QED BY <1>2, <1>3 DEF CallKnows, LegsKept

\* A step of call c leaves the rest of the invariant to what it changed.
LEMMA StepPreserves ==
    ASSUME Inv, NEW c \in Calls, OthersKeep(c), TerminalOpsKept, LegsKept,
           TypeOK', OperationsAgree', OutcomeCoversManifest', PerformedMeansMoved',
           StagedCancelReleased', ManifestRecorded', CallKnows(c)',
           call'[c].rpc = "PostPendingTransfer" /\ call'[c].reply = "ok" => AllMoved'
    PROVE  Inv'
<1>1. ASSUME NEW d \in Calls PROVE CallKnows(d)'
  <2>1. CASE d = c
    BY <2>1
  <2>2. CASE d # c
    BY <2>2, KnowledgeIsStable DEF Inv, OthersKeep
  <2> QED BY <2>1, <2>2
<1>2. PostReplyMeansMoved'
  BY DEF Inv, PostReplyMeansMoved, OthersKeep, LegsKept, AllMoved
<1> QED BY <1>1, <1>2 DEF Inv

\* A step that only moves call c.
LEMMA LocalStep ==
    ASSUME Inv, NEW c \in Calls, UNCHANGED <<store, leg>>, crashes' \in 0..MaxCrashes,
           OthersKeep(c), call' \in [Calls -> CallRecords],
           call'[c].pc = "operations" => call'[c].op \in Ops,
           CallKnows(c)',
           call'[c].rpc = "PostPendingTransfer" /\ call'[c].reply = "ok" => AllMoved
    PROVE  Inv'
<1>1. stream' = stream /\ stage' = stage /\ ops' = ops /\ leg' = leg
  BY DEF store
<1>2. TerminalOpsKept /\ LegsKept /\ (AllMoved => AllMoved')
  BY <1>1 DEF TerminalOpsKept, LegsKept, AllMoved, AllVoided
<1>3. TypeOK'
  BY <1>1 DEF Inv, TypeOK, OthersKeep
<1>4. OperationsAgree' /\ OutcomeCoversManifest' /\ PerformedMeansMoved'
  BY <1>1 DEF Inv, OperationsAgree, OutcomeCoversManifest, PerformedMeansMoved, Recorded
<1>5. StagedCancelReleased' /\ ManifestRecorded'
  BY <1>1 DEF Inv, StagedCancelReleased, ManifestRecorded, Recorded
<1> QED BY <1>2, <1>3, <1>4, <1>5, StepPreserves

-----------------------------------------------------------------------------
(* Steps that only move a call.                                              *)

\* Each way a handler moves on to its next step, with the knowledge it needs.

\* A handler that moves on to a step that needs no knowledge.
LEMMA GotoStep ==
    ASSUME Inv, NEW c \in Calls, UNCHANGED <<store, leg, crashes>>,
           NEW pc \in {"runSaga", "prepare", "prepareConverge", "commit", "cancelPrepared",
                       "postReload"},
           Goto(c, pc),
           pc \in {"runSaga", "prepare", "prepareConverge"} => call[c].rpc = "RequestTransfer",
           pc = "cancelPrepared" => call[c].rpc = "CancelAcceptedTransfer"
    PROVE  Inv'
<1>1. pc \in PCs /\ call \in [Calls -> CallRecords] /\ crashes \in 0..MaxCrashes
  BY DEF PCs, Inv, TypeOK
<1>2. /\ call' \in [Calls -> CallRecords] /\ call'[c].pc = pc
      /\ call'[c].rpc = call[c].rpc /\ call'[c].reply = call[c].reply /\ OthersKeep(c)
  BY <1>1, GotoEffect
<1>3. CallKnows(c)'
  BY <1>2 DEF CallKnows
<1>4. call'[c].rpc = "PostPendingTransfer" /\ call'[c].reply = "ok" => AllMoved
  BY <1>2 DEF Inv, PostReplyMeansMoved, AllMoved
<1> QED BY <1>1, <1>2, <1>3, <1>4, LocalStep

\* A handler that returns; a successful PostPendingTransfer needs moved legs.
LEMMA ReturnStep ==
    ASSUME Inv, NEW c \in Calls, UNCHANGED <<store, leg>>, crashes' \in 0..MaxCrashes,
           NEW reply \in Replies, Return(c, reply),
           call[c].rpc = "PostPendingTransfer" /\ reply = "ok" => AllMoved
    PROVE  Inv'
<1>1. call \in [Calls -> CallRecords]
  BY DEF Inv, TypeOK
<1>2. /\ call' \in [Calls -> CallRecords] /\ call'[c].pc = "idle"
      /\ call'[c].rpc = call[c].rpc /\ call'[c].reply = reply /\ OthersKeep(c)
  BY <1>1, ReturnEffect
<1>3. CallKnows(c)'
  BY <1>2 DEF CallKnows
<1> QED BY <1>2, <1>3, LocalStep

\* A handler that is about to submit a batch.
LEMMA SubmitStep ==
    ASSUME Inv, NEW c \in Calls, UNCHANGED <<store, leg, crashes>>,
           NEW kind \in Kinds, Submit(c, kind)
    PROVE  Inv'
<1>1. call \in [Calls -> CallRecords] /\ crashes \in 0..MaxCrashes
  BY DEF Inv, TypeOK
<1>2. /\ call' \in [Calls -> CallRecords] /\ call'[c].pc = "submit" /\ call'[c].kind = kind
      /\ call'[c].rpc = call[c].rpc /\ call'[c].reply = call[c].reply /\ OthersKeep(c)
  BY <1>1, SubmitEffect
<1>3. CallKnows(c)'
  BY <1>2 DEF CallKnows
<1>4. call'[c].rpc = "PostPendingTransfer" /\ call'[c].reply = "ok" => AllMoved
  BY <1>2 DEF Inv, PostReplyMeansMoved, AllMoved
<1> QED BY <1>1, <1>2, <1>3, <1>4, LocalStep

\* A handler that has decided on a fact which is no outcome.
LEMMA DecideStep ==
    ASSUME Inv, NEW c \in Calls, UNCHANGED <<store, leg, crashes>>,
           NEW e \in Refusals \union {"TransferRequestAccepted"}, Decide(c, e),
           e = "TransferRequestAccepted" => call[c].rpc = "RequestTransfer"
    PROVE  Inv'
<1>1. /\ call \in [Calls -> CallRecords] /\ crashes \in 0..MaxCrashes
      /\ stream \in Seq(TransferEvents) /\ e \in TransferEvents
  BY DEF Inv, TypeOK, TransferEvents
<1>2. /\ call' \in [Calls -> CallRecords] /\ call'[c].pc = "append" /\ call'[c].event = e
      /\ call'[c].rpc = call[c].rpc /\ call'[c].reply = call[c].reply /\ OthersKeep(c)
  BY <1>1, DecideEffect
<1>3. CallKnows(c)'
  BY <1>2 DEF CallKnows
<1>4. call'[c].rpc = "PostPendingTransfer" /\ call'[c].reply = "ok" => AllMoved
  BY <1>2 DEF Inv, PostReplyMeansMoved, AllMoved
<1> QED BY <1>1, <1>2, <1>3, <1>4, LocalStep

\* A handler that appends a step without walking the Operations.
LEMMA StepStep ==
    ASSUME Inv, NEW c \in Calls, UNCHANGED <<store, leg, crashes>>,
           NEW e \in TransferEvents \ OutcomeEvents, Step(c, e)
    PROVE  Inv'
<1>1. call \in [Calls -> CallRecords] /\ crashes \in 0..MaxCrashes
  BY DEF Inv, TypeOK
<1>2. /\ call' \in [Calls -> CallRecords] /\ call'[c].pc = "sagaStep" /\ call'[c].event = e
      /\ call'[c].rpc = call[c].rpc /\ call'[c].reply = call[c].reply /\ OthersKeep(c)
  BY <1>1, StepEffect
<1>3. CallKnows(c)'
  BY <1>2 DEF CallKnows, OutcomeEvents, WalkEvents
<1>4. call'[c].rpc = "PostPendingTransfer" /\ call'[c].reply = "ok" => AllMoved
  BY <1>2 DEF Inv, PostReplyMeansMoved, AllMoved
<1> QED BY <1>1, <1>2, <1>3, <1>4, LocalStep

\* A walk that has not begun yet knows nothing of the Operations.
LEMMA WalkKnows ==
    ASSUME call \in [Calls -> CallRecords], NEW c \in Calls, NEW e \in WalkEvents, Walk(c, e),
           e = "TransferCommitted" => AllMoved' \/ ops'[1] = "Failed",
           e = "TransferCancelled" => AllVoided'
    PROVE  /\ call' \in [Calls -> CallRecords]
           /\ OthersKeep(c)
           /\ CallKnows(c)'
           /\ call'[c].op \in Ops
           /\ call'[c].rpc = call[c].rpc /\ call'[c].reply = call[c].reply
<1>1. e \in TransferEvents /\ 1 \in Ops
  BY ConstantsAssumption DEF WalkEvents, TransferEvents, Ops
<1>2. /\ call' \in [Calls -> CallRecords] /\ OthersKeep(c)
      /\ call'[c].pc = "operations" /\ call'[c].event = e /\ call'[c].op = 1
      /\ call'[c].rpc = call[c].rpc /\ call'[c].reply = call[c].reply
  BY <1>1, WalkEffect
<1>3. \A o \in Ops : ~(o < 1)
  BY DEF Ops
<1>4. CallKnows(c)'
  BY <1>2, <1>3 DEF CallKnows
<1> QED BY <1>1, <1>2, <1>4

-----------------------------------------------------------------------------
(* One lemma per action.                                                     *)

\* A new call knows nothing yet.
LEMMA StartPreserves ==
    ASSUME Inv, NEW c \in Calls, NEW r \in RPCs, Start(c, r)
    PROVE  Inv'
<1> DEFINE rec == [Idle(r, "none") EXCEPT !.pc = "load"]
<1>1. r \in AllRPCs
  BY ConstantsAssumption
<1>2. Idle(r, "none") \in CallRecords
  BY <1>1, IdleIsRecord DEF Replies
<1>3. rec \in CallRecords /\ rec.pc = "load" /\ rec.reply = "none"
  BY <1>2 DEF CallRecords, PCs, Idle
<1>4. call \in [Calls -> CallRecords] /\ crashes \in 0..MaxCrashes
  BY DEF Inv, TypeOK
<1>5. call' = [call EXCEPT ![c] = rec] /\ UNCHANGED <<store, leg, crashes>>
  BY DEF Start, Send
<1> HIDE DEF rec
<1>6. call' \in [Calls -> CallRecords] /\ OthersKeep(c) /\ call'[c] = rec
  BY <1>3, <1>4, <1>5 DEF OthersKeep
<1>7. CallKnows(c)'
  BY <1>3, <1>6 DEF CallKnows
<1> QED BY <1>3, <1>4, <1>5, <1>6, <1>7, LocalStep

\* RequestTransfer's load and decision.
LEMMA LoadRequestPreserves ==
    ASSUME Inv, NEW c \in Calls, LoadRequest(c)
    PROVE  Inv'
<1>1. /\ UNCHANGED <<store, leg, crashes>> /\ crashes \in 0..MaxCrashes
      /\ call[c].rpc = "RequestTransfer"
  BY DEF LoadRequest, Inv, TypeOK
<1>2. CASE Goto(c, "runSaga")
  BY <1>1, <1>2, GotoStep
<1>3. CASE Return(c, "rejected")
  BY <1>1, <1>3, ReturnStep DEF Replies
<1>4. CASE \E e \in {"TransferRequestAccepted", "TransferRequestRejected"} : Decide(c, e)
  BY <1>1, <1>4, DecideStep DEF Refusals
<1> QED BY <1>2, <1>3, <1>4 DEF LoadRequest

\* CancelAcceptedTransfer's load and decision.
LEMMA LoadCancelAcceptedPreserves ==
    ASSUME Inv, NEW c \in Calls, LoadCancelAccepted(c)
    PROVE  Inv'
<1>1. /\ UNCHANGED <<store, leg, crashes>> /\ crashes \in 0..MaxCrashes
      /\ call[c].rpc = "CancelAcceptedTransfer"
  BY DEF LoadCancelAccepted, Inv, TypeOK
<1>2. CASE Goto(c, "cancelPrepared")
  BY <1>1, <1>2, GotoStep
<1>3. CASE Return(c, "rejected")
  BY <1>1, <1>3, ReturnStep DEF Replies
<1> QED BY <1>2, <1>3 DEF LoadCancelAccepted

\* ConfirmStagedTransfer's load and decision.
LEMMA LoadConfirmStagedPreserves ==
    ASSUME Inv, NEW c \in Calls, LoadConfirmStaged(c)
    PROVE  Inv'
<1>1. /\ UNCHANGED <<store, leg, crashes>> /\ crashes \in 0..MaxCrashes
      /\ call[c].rpc = "ConfirmStagedTransfer"
  BY DEF LoadConfirmStaged, Inv, TypeOK
<1>2. CASE Return(c, "rejected") \/ Return(c, "ok")
  BY <1>1, <1>2, ReturnStep DEF Replies
<1>3. CASE Step(c, "TransferPending")
  BY <1>1, <1>3, StepStep DEF TransferEvents, OutcomeEvents, WalkEvents
<1>4. CASE Decide(c, "ConfirmStagedTransferRejected")
  BY <1>1, <1>4, DecideStep DEF Refusals
<1> QED BY <1>2, <1>3, <1>4 DEF LoadConfirmStaged

\* CancelStagedTransfer's load and decision.
LEMMA LoadCancelStagedPreserves ==
    ASSUME Inv, NEW c \in Calls, LoadCancelStaged(c)
    PROVE  Inv'
<1>1. /\ UNCHANGED <<store, leg, crashes>> /\ crashes \in 0..MaxCrashes
      /\ call[c].rpc = "CancelStagedTransfer"
  BY DEF LoadCancelStaged, Inv, TypeOK
<1>2. CASE Return(c, "rejected") \/ Return(c, "ok")
  BY <1>1, <1>2, ReturnStep DEF Replies
<1>3. CASE Submit(c, "VoidPending")
  BY <1>1, <1>3, SubmitStep DEF Kinds
<1>4. CASE Decide(c, "CancelStagedTransferRejected")
  BY <1>1, <1>4, DecideStep DEF Refusals
<1> QED BY <1>2, <1>3, <1>4 DEF LoadCancelStaged

\* TransferCommitted on the stream means the money has moved.
LEMMA CommittedMoved ==
    ASSUME Inv, Recorded("TransferCommitted")
    PROVE  AllMoved
<1>1. 1 \in Ops
  BY ConstantsAssumption DEF Ops
<1>2. ops[1] = "Performed"
  BY <1>1 DEF Inv, OutcomeCoversManifest, OutcomeEvents, WalkEvents, OpFact
<1> QED BY <1>1, <1>2 DEF Inv, PerformedMeansMoved, AllMoved

\* PostPendingTransfer's load: "already committed" is answered only if money moved.
LEMMA LoadPostPendingPreserves ==
    ASSUME Inv, NEW c \in Calls, LoadPostPending(c)
    PROVE  Inv'
<1>1. /\ UNCHANGED <<store, leg, crashes>> /\ crashes \in 0..MaxCrashes
      /\ call[c].rpc = "PostPendingTransfer"
  BY DEF LoadPostPending, Inv, TypeOK
<1>2. CASE Return(c, "rejected")
  BY <1>1, <1>2, ReturnStep DEF Replies
<1>3. CASE Goto(c, "commit")
  BY <1>1, <1>3, GotoStep
<1>4. CASE currentState(stream) = "committed" /\ Return(c, "ok")
  BY <1>1, <1>4, ReturnStep, CommittedIsRecorded, CommittedMoved DEF Replies
<1>5. CASE Decide(c, "PostPendingTransferRejected")
  BY <1>1, <1>5, DecideStep DEF Refusals
<1> QED BY <1>2, <1>3, <1>4, <1>5 DEF LoadPostPending

\* A turn of runSaga's loop.
LEMMA RunSagaPreserves ==
    ASSUME Inv, NEW c \in Calls, RunSaga(c)
    PROVE  Inv'
<1>1. /\ UNCHANGED <<store, leg, crashes>> /\ crashes \in 0..MaxCrashes
      /\ call[c].rpc = "RequestTransfer"
  BY DEF RunSaga, Inv, TypeOK, CallKnows
<1>2. CASE Goto(c, "prepare") \/ Goto(c, "commit")
  BY <1>1, <1>2, GotoStep
<1>3. CASE Submit(c, "Pending")
  BY <1>1, <1>3, SubmitStep DEF Kinds
<1>4. CASE Return(c, "ok")
  BY <1>1, <1>4, ReturnStep DEF Replies
<1> QED BY <1>2, <1>3, <1>4 DEF RunSaga

\* prepare up to its AppendAtomic.
LEMMA PreparePreserves ==
    ASSUME Inv, NEW c \in Calls, Prepare(c)
    PROVE  Inv'
<1>1. /\ UNCHANGED <<store, leg, crashes>> /\ crashes \in 0..MaxCrashes
      /\ call[c].rpc = "RequestTransfer" /\ call \in [Calls -> CallRecords]
      /\ Len(stream) \in Nat
  BY DEF Prepare, Inv, TypeOK, CallKnows
<1>2. CASE call' = [call EXCEPT ![c].pc = "prepareAppend", ![c].seq = Len(stream)]
  <2> DEFINE r == [call[c] EXCEPT !.pc = "prepareAppend", !.seq = Len(stream)]
  <2>1. r \in CallRecords /\ r.pc = "prepareAppend" /\ r.rpc = "RequestTransfer"
    BY <1>1 DEF CallRecords, PCs
  <2>2. call' = [call EXCEPT ![c] = r]
    BY <1>2
  <2> HIDE DEF r
  <2>3. call' \in [Calls -> CallRecords] /\ OthersKeep(c) /\ call'[c] = r
    BY <1>1, <2>1, <2>2 DEF OthersKeep
  <2>4. CallKnows(c)'
    BY <2>1, <2>3 DEF CallKnows
  <2> QED BY <1>1, <2>1, <2>3, <2>4, LocalStep
<1>3. CASE Return(c, "error")
  BY <1>1, <1>3, ReturnStep DEF Replies
<1> QED BY <1>2, <1>3 DEF Prepare

\* prepare after a conflict.
LEMMA PrepareConvergePreserves ==
    ASSUME Inv, NEW c \in Calls, PrepareConverge(c)
    PROVE  Inv'
<1>1. /\ UNCHANGED <<store, leg, crashes>> /\ crashes \in 0..MaxCrashes
      /\ call[c].rpc = "RequestTransfer"
  BY DEF PrepareConverge, Inv, TypeOK, CallKnows
<1>2. CASE Goto(c, "runSaga")
  BY <1>1, <1>2, GotoStep
<1>3. CASE Return(c, "error")
  BY <1>1, <1>3, ReturnStep DEF Replies
<1> QED BY <1>2, <1>3 DEF PrepareConverge

\* commit's choice of what to submit.
LEMMA CommitPreserves ==
    ASSUME Inv, NEW c \in Calls, Commit(c)
    PROVE  Inv'
BY SubmitStep DEF Commit, Kinds

\* PostPendingTransfer's final reload: it replies from TransferCommitted.
LEMMA PostReloadPreserves ==
    ASSUME Inv, NEW c \in Calls, PostReload(c)
    PROVE  Inv'
<1>1. UNCHANGED <<store, leg, crashes>> /\ crashes \in 0..MaxCrashes
  BY DEF PostReload, Inv, TypeOK
<1>2. CASE Recorded("TransferCommitted") /\ Return(c, "ok")
  BY <1>1, <1>2, ReturnStep, CommittedMoved DEF Replies
<1>3. CASE Return(c, "error")
  BY <1>1, <1>3, ReturnStep DEF Replies
<1> QED BY <1>2, <1>3 DEF PostReload

\* cancelPrepared's fold.
LEMMA CancelPreparedPreserves ==
    ASSUME Inv, NEW c \in Calls, CancelPrepared(c)
    PROVE  Inv'
<1>1. /\ UNCHANGED <<store, leg, crashes>> /\ crashes \in 0..MaxCrashes
      /\ call[c].rpc = "CancelAcceptedTransfer" /\ call \in [Calls -> CallRecords]
  BY DEF CancelPrepared, Inv, TypeOK, CallKnows
<1>2. CASE Step(c, "AcceptedTransferCancelled")
  BY <1>1, <1>2, StepStep DEF TransferEvents, OutcomeEvents, WalkEvents
<1>3. CASE Walk(c, "PreparedTransferCancelled")
  BY <1>1, <1>3, WalkKnows, LocalStep DEF WalkEvents
<1>4. CASE Return(c, "ok") \/ Return(c, "error")
  BY <1>1, <1>4, ReturnStep DEF Replies
<1> QED BY <1>2, <1>3, <1>4 DEF CancelPrepared

\* A call that dies leaves the shared state as it is.
LEMMA CrashPreserves ==
    ASSUME Inv, NEW c \in Calls, Crash(c)
    PROVE  Inv'
<1>1. crashes' \in 0..MaxCrashes
  BY ConstantsAssumption DEF Crash, Inv, TypeOK
<1> QED BY <1>1, ReturnStep DEF Crash, Replies

\* Appending a fact that is no outcome, with nothing else shared changing.
LEMMA PlainAppend ==
    ASSUME Inv, NEW e \in TransferEvents \ OutcomeEvents, stream' = Append(stream, e),
           ops' = ops, leg' = leg
    PROVE  /\ stream' \in Seq(TransferEvents)
           /\ TerminalOpsKept /\ LegsKept
           /\ OperationsAgree' /\ OutcomeCoversManifest' /\ PerformedMeansMoved'
           /\ StagedCancelReleased' /\ ManifestRecorded'
<1>1. stream \in Seq(TransferEvents)
  BY DEF Inv, TypeOK
<1>2. stream' \in Seq(TransferEvents) /\ \A f : Recorded(f)' <=> Recorded(f) \/ f = e
  BY <1>1, RecordedAfterAppend
<1>3. TerminalOpsKept /\ LegsKept
  BY DEF TerminalOpsKept, LegsKept, AllMoved, AllVoided
<1>4. OperationsAgree' /\ PerformedMeansMoved'
  BY DEF Inv, OperationsAgree, PerformedMeansMoved
<1>5. OutcomeCoversManifest'
  BY <1>2 DEF Inv, OutcomeCoversManifest
<1>6. StagedCancelReleased' /\ ManifestRecorded'
  BY <1>2 DEF Inv, StagedCancelReleased, ManifestRecorded, OutcomeEvents, WalkEvents
<1> QED BY <1>2, <1>3, <1>4, <1>5, <1>6

\* tryAppend records decisions, which are never outcomes.
LEMMA TryAppendPreserves ==
    ASSUME Inv, NEW c \in Calls, TryAppend(c)
    PROVE  Inv'
<1> DEFINE e == call[c].event
<1>1. /\ call \in [Calls -> CallRecords] /\ crashes \in 0..MaxCrashes
      /\ ops' = ops /\ leg' = leg /\ crashes' = crashes
      /\ e \in Refusals \union {"TransferRequestAccepted"}
      /\ e = "TransferRequestAccepted" => call[c].rpc = "RequestTransfer"
  BY DEF TryAppend, Inv, TypeOK, CallKnows
<1>2. e \in TransferEvents \ OutcomeEvents
  BY <1>1 DEF TransferEvents, Refusals, OutcomeEvents, WalkEvents
<1>3. CASE Len(stream) = call[c].seq
  <2>1. stream' = Append(stream, e)
    BY <1>3 DEF TryAppend
  <2>2. /\ stream' \in Seq(TransferEvents) /\ TerminalOpsKept /\ LegsKept
        /\ OperationsAgree' /\ OutcomeCoversManifest' /\ PerformedMeansMoved'
        /\ StagedCancelReleased' /\ ManifestRecorded'
    BY <1>1, <1>2, <2>1, PlainAppend
  <2>3. CASE e = "TransferRequestAccepted"
    <3>1. stage' \in BOOLEAN /\ Goto(c, "runSaga")
      BY <1>3, <2>3, ConstantsAssumption DEF TryAppend
    <3>2. /\ call' \in [Calls -> CallRecords] /\ call'[c].pc = "runSaga"
          /\ call'[c].rpc = call[c].rpc /\ call'[c].reply = call[c].reply /\ OthersKeep(c)
      BY <1>1, <3>1, GotoEffect DEF PCs
    <3>3. CallKnows(c)' /\ call'[c].rpc = "RequestTransfer"
      BY <1>1, <2>3, <3>2 DEF CallKnows
    <3>4. TypeOK'
      BY <1>1, <2>2, <3>1, <3>2 DEF Inv, TypeOK, OthersKeep
    <3> QED BY <2>2, <3>2, <3>3, <3>4, StepPreserves
  <2>4. CASE e # "TransferRequestAccepted"
    <3>1. stage' = stage /\ Return(c, "rejected")
      BY <1>3, <2>4 DEF TryAppend
    <3>2. /\ call' \in [Calls -> CallRecords] /\ call'[c].pc = "idle"
          /\ call'[c].reply = "rejected" /\ OthersKeep(c)
      BY <1>1, <3>1, ReturnEffect DEF Replies
    <3>3. CallKnows(c)'
      BY <3>2 DEF CallKnows
    <3>4. TypeOK'
      BY <1>1, <2>2, <3>1, <3>2 DEF Inv, TypeOK, OthersKeep
    <3> QED BY <2>2, <3>2, <3>3, <3>4, StepPreserves
  <2> QED BY <2>3, <2>4
<1>4. CASE Len(stream) # call[c].seq /\ call[c].attempt < maxConcurrencyAttempts
  <2> DEFINE n == call[c].attempt + 1
             r == [call[c] EXCEPT !.pc = "load", !.attempt = n]
  <2>1. call[c] \in CallRecords /\ call[c].attempt \in 1..maxConcurrencyAttempts
    BY <1>1 DEF CallRecords
  <2>2. r \in CallRecords /\ r.pc = "load" /\ r.rpc = call[c].rpc /\ r.reply = call[c].reply
    <3>1. n \in 1..maxConcurrencyAttempts
      BY <1>4, <2>1
    <3> HIDE DEF n
    <3> QED BY <2>1, <3>1 DEF CallRecords, PCs
  <2>3. call' = [call EXCEPT ![c] = r] /\ UNCHANGED <<store, leg>>
    BY <1>4 DEF TryAppend, store
  <2> HIDE DEF r
  <2>4. call' \in [Calls -> CallRecords] /\ OthersKeep(c) /\ call'[c] = r
    BY <1>1, <2>2, <2>3 DEF OthersKeep
  <2>5. CallKnows(c)'
    BY <2>2, <2>4 DEF CallKnows
  <2>6. call'[c].rpc = "PostPendingTransfer" /\ call'[c].reply = "ok" => AllMoved
    BY <2>2, <2>4 DEF Inv, PostReplyMeansMoved, AllMoved
  <2> QED BY <1>1, <2>2, <2>3, <2>4, <2>5, <2>6, LocalStep
<1>5. CASE Len(stream) # call[c].seq /\ ~(call[c].attempt < maxConcurrencyAttempts)
  <2>1. Return(c, "aborted") /\ UNCHANGED <<store, leg>>
    BY <1>5 DEF TryAppend, store
  <2> QED BY <1>1, <2>1, ReturnStep DEF Replies
<1> QED BY <1>3, <1>4, <1>5

\* prepare's AppendAtomic: it initiates Operations only when none was yet.
LEMMA PrepareAppendPreserves ==
    ASSUME Inv, NEW c \in Calls, PrepareAppend(c)
    PROVE  Inv'
<1>1. /\ call \in [Calls -> CallRecords] /\ crashes \in 0..MaxCrashes
      /\ stream \in Seq(TransferEvents)
      /\ stage' = stage /\ leg' = leg /\ crashes' = crashes
      /\ call[c].rpc = "RequestTransfer" /\ 1 \in Ops
  BY ConstantsAssumption DEF PrepareAppend, Inv, TypeOK, CallKnows, Ops
<1>2. CASE Goto(c, "prepareConverge") /\ UNCHANGED <<stream, ops>>
  BY <1>1, <1>2, GotoStep DEF store
<1>3. CASE /\ stream' = Append(stream, "TransferPrepared")
           /\ ops' = IF Recorded("TransferPrepared") THEN ops ELSE [o \in Ops |-> "Initiated"]
           /\ Goto(c, "runSaga")
  <2>1. "TransferPrepared" \in TransferEvents \ OutcomeEvents
    BY DEF TransferEvents, OutcomeEvents, WalkEvents
  <2>2. /\ call' \in [Calls -> CallRecords] /\ call'[c].pc = "runSaga"
        /\ call'[c].rpc = "RequestTransfer" /\ OthersKeep(c)
    BY <1>1, <1>3, GotoEffect DEF PCs
  <2>3. CallKnows(c)'
    BY <2>2 DEF CallKnows
  <2>4. CASE Recorded("TransferPrepared")
    <3>1. ops' = ops
      BY <1>3, <2>4
    <3>2. /\ stream' \in Seq(TransferEvents) /\ TerminalOpsKept /\ LegsKept
          /\ OperationsAgree' /\ OutcomeCoversManifest' /\ PerformedMeansMoved'
          /\ StagedCancelReleased' /\ ManifestRecorded'
      BY <1>1, <1>3, <2>1, <3>1, PlainAppend
    <3>3. TypeOK'
      BY <1>1, <2>2, <3>1, <3>2 DEF Inv, TypeOK, OthersKeep
    <3> QED BY <2>2, <2>3, <3>2, <3>3, StepPreserves
  <2>5. CASE ~Recorded("TransferPrepared")
    <3>1. /\ \A o \in Ops : ops[o] = "none"
          /\ ops' = [o \in Ops |-> "Initiated"]
      BY <1>3, <2>5 DEF Inv, ManifestRecorded
    <3>2. \A e \in OutcomeEvents : ~Recorded(e)
      BY <1>1, <3>1 DEF Inv, OutcomeCoversManifest, OpFact
    <3>3. /\ stream' \in Seq(TransferEvents)
          /\ \A f : Recorded(f)' <=> Recorded(f) \/ f = "TransferPrepared"
      BY <1>1, <1>3, <2>1, RecordedAfterAppend
    <3>4. TerminalOpsKept /\ LegsKept
      BY <1>1, <3>1 DEF TerminalOpsKept, LegsKept, AllMoved, AllVoided, OpTerminal
    <3>5. OperationsAgree' /\ PerformedMeansMoved' /\ ManifestRecorded'
      BY <3>1, <3>3 DEF OperationsAgree, PerformedMeansMoved, ManifestRecorded, OpTerminal
    <3>6. OutcomeCoversManifest' /\ StagedCancelReleased'
      BY <2>1, <3>2, <3>3 DEF OutcomeCoversManifest, StagedCancelReleased, OutcomeEvents, WalkEvents
    <3>7. TypeOK'
      BY <1>1, <2>2, <3>1, <3>3 DEF Inv, TypeOK, OthersKeep, OpFacts
    <3> QED BY <2>2, <2>3, <3>4, <3>5, <3>6, <3>7, StepPreserves
  <2> QED BY <2>4, <2>5
<1> QED BY <1>2, <1>3 DEF PrepareAppend

\* A submission changes what the ledger holds, never what it has moved or voided.
LEMMA SubmitKeepsLegs ==
    ASSUME Inv, leg' = leg \/ (\A l \in Legs : leg[l] \in {"none", "pending"})
    PROVE  LegsKept /\ ((\E o \in Ops : ops[o] = "Performed") \/ Recorded("TransferCancelled")
                          => leg' = leg)
<1>1. 1 \in Legs
  BY ConstantsAssumption DEF Legs
<1>2. CASE leg' = leg
  BY <1>2 DEF LegsKept, AllMoved, AllVoided
<1>3. CASE \A l \in Legs : leg[l] \in {"none", "pending"}
  <2>1. ~AllMoved /\ ~AllVoided
    BY <1>1, <1>3 DEF AllMoved, AllVoided, Moved
  <2>2. ~(\E o \in Ops : ops[o] = "Performed") /\ ~Recorded("TransferCancelled")
    BY <2>1 DEF Inv, PerformedMeansMoved, StagedCancelReleased, AllMoved, AllVoided
  <2> QED BY <2>1, <2>2 DEF LegsKept
<1> QED BY <1>2, <1>3

\* What is left to show of a step that changes nothing shared but legs.
LEMMA LegStep ==
    ASSUME Inv, UNCHANGED <<store, crashes>>, leg' \in [Legs -> LegStates], LegsKept,
           (\E o \in Ops : ops[o] = "Performed") => AllMoved',
           Recorded("TransferCancelled") => AllVoided',
           call' \in [Calls -> CallRecords],
           \A d \in Calls : call'[d].pc = "operations" => call'[d].op \in Ops
    PROVE  /\ TypeOK' /\ TerminalOpsKept /\ OperationsAgree' /\ OutcomeCoversManifest'
           /\ PerformedMeansMoved' /\ StagedCancelReleased' /\ ManifestRecorded'
<1>1. stream' = stream /\ stage' = stage /\ ops' = ops /\ crashes' = crashes
  BY DEF store
<1>2. TypeOK' /\ TerminalOpsKept
  BY <1>1 DEF Inv, TypeOK, TerminalOpsKept
<1>3. OperationsAgree' /\ OutcomeCoversManifest' /\ ManifestRecorded'
  BY <1>1 DEF Inv, OperationsAgree, OutcomeCoversManifest, ManifestRecorded, Recorded
<1>4. PerformedMeansMoved' /\ StagedCancelReleased'
  BY <1>1 DEF Inv, PerformedMeansMoved, StagedCancelReleased, Recorded, AllMoved, AllVoided
<1> QED BY <1>2, <1>3, <1>4

\* An applied batch gives the call the knowledge its walk needs.
LEMMA SubmitOKPreserves ==
    ASSUME Inv, NEW c \in Calls, SubmitOK(c)
    PROVE  Inv'
<1> DEFINE kind == call[c].kind
<1>1. /\ kind \in Kinds /\ call \in [Calls -> CallRecords] /\ leg \in [Legs -> LegStates]
      /\ UNCHANGED <<store, crashes>> /\ Walk(c, EventAfter(kind))
  BY DEF SubmitOK, Inv, TypeOK, CallKnows
<1>2. leg' = leg \/ (\A l \in Legs : leg[l] \in {"none", "pending"})
  BY <1>1 DEF SubmitOK, Applicable, AppliesTo
<1>3. LegsKept /\ ((\E o \in Ops : ops[o] = "Performed") \/ Recorded("TransferCancelled")
                     => leg' = leg)
  BY <1>2, SubmitKeepsLegs
<1>4. /\ leg' \in [Legs -> LegStates]
      /\ kind \in {"Regular", "PostPending"} => AllMoved'
      /\ kind = "VoidPending" => AllVoided'
  <2>1. CASE Exists(kind) /\ leg' = leg
    BY <1>1, <2>1 DEF Exists, ExistsAs, AllMoved, AllVoided, Moved, Kinds
  <2>2. CASE leg' = [l \in Legs |-> AppliedAs(kind)]
    BY <1>1, <2>2 DEF AppliedAs, AllMoved, AllVoided, Moved, Kinds, LegStates
  <2> QED BY <2>1, <2>2 DEF SubmitOK
<1>5. /\ EventAfter(kind) \in WalkEvents
      /\ EventAfter(kind) = "TransferCommitted" => AllMoved'
      /\ EventAfter(kind) = "TransferCancelled" => AllVoided'
  BY <1>1, <1>4 DEF EventAfter, WalkEvents, Kinds
<1>6. /\ call' \in [Calls -> CallRecords] /\ OthersKeep(c) /\ CallKnows(c)'
      /\ call'[c].op \in Ops
      /\ call'[c].rpc = call[c].rpc /\ call'[c].reply = call[c].reply
  BY <1>1, <1>5, WalkKnows
<1>7. \A d \in Calls : call'[d].pc = "operations" => call'[d].op \in Ops
  BY <1>6 DEF Inv, TypeOK, OthersKeep
<1>8. /\ (\E o \in Ops : ops[o] = "Performed") => AllMoved'
      /\ Recorded("TransferCancelled") => AllVoided'
  BY <1>3 DEF Inv, PerformedMeansMoved, StagedCancelReleased, AllMoved, AllVoided
<1>9. call'[c].rpc = "PostPendingTransfer" /\ call'[c].reply = "ok" => AllMoved'
  BY <1>3, <1>6 DEF Inv, PostReplyMeansMoved, AllMoved, LegsKept
<1> QED BY <1>1, <1>3, <1>4, <1>6, <1>7, <1>8, <1>9, LegStep, StepPreserves

\* A refused batch sends stage and commit into compensate.
LEMMA SubmitRejectedPreserves ==
    ASSUME Inv, NEW c \in Calls, SubmitRejected(c)
    PROVE  Inv'
<1> DEFINE kind == call[c].kind
<1>1. /\ call \in [Calls -> CallRecords] /\ leg \in [Legs -> LegStates]
      /\ UNCHANGED <<store, crashes>>
      /\ Return(c, "error") \/ Walk(c, "TransferFailed")
  BY DEF SubmitRejected, Inv, TypeOK
<1>2. leg' = leg \/ (\A l \in Legs : leg[l] \in {"none", "pending"})
  BY DEF SubmitRejected, Applicable, AppliesTo
<1>3. LegsKept /\ ((\E o \in Ops : ops[o] = "Performed") \/ Recorded("TransferCancelled")
                     => leg' = leg)
  BY <1>2, SubmitKeepsLegs
<1>4. leg' \in [Legs -> LegStates]
  BY <1>1 DEF SubmitRejected, LegStates
<1>5. /\ call' \in [Calls -> CallRecords] /\ OthersKeep(c) /\ CallKnows(c)'
      /\ call'[c].pc = "operations" => call'[c].op \in Ops
      /\ call'[c].rpc = call[c].rpc /\ call'[c].reply \in {call[c].reply, "error"}
  <2>1. CASE Return(c, "error")
    <3>1. /\ call' \in [Calls -> CallRecords] /\ OthersKeep(c) /\ call'[c].pc = "idle"
          /\ call'[c].rpc = call[c].rpc /\ call'[c].reply = "error"
      BY <1>1, <2>1, ReturnEffect DEF Replies
    <3> QED BY <3>1 DEF CallKnows
  <2>2. CASE Walk(c, "TransferFailed")
    BY <1>1, <2>2, WalkKnows DEF WalkEvents
  <2> QED BY <1>1, <2>1, <2>2
<1>6. \A d \in Calls : call'[d].pc = "operations" => call'[d].op \in Ops
  BY <1>5 DEF Inv, TypeOK, OthersKeep
<1>7. /\ (\E o \in Ops : ops[o] = "Performed") => AllMoved'
      /\ Recorded("TransferCancelled") => AllVoided'
  BY <1>3 DEF Inv, PerformedMeansMoved, StagedCancelReleased, AllMoved, AllVoided
<1>8. call'[c].rpc = "PostPendingTransfer" /\ call'[c].reply = "ok" => AllMoved'
  BY <1>3, <1>5 DEF Inv, PostReplyMeansMoved, AllMoved, LegsKept
<1> QED BY <1>1, <1>3, <1>4, <1>5, <1>6, <1>7, <1>8, LegStep, StepPreserves

\* A timeout undoes neither a post nor a void.
LEMMA ExpirePreserves ==
    ASSUME Inv, NEW l \in Legs, Expire(l)
    PROVE  Inv'
<1>1. /\ UNCHANGED <<store, crashes>> /\ call' = call /\ leg \in [Legs -> LegStates]
      /\ leg[l] = "pending" /\ leg' = [leg EXCEPT ![l] = "expired"]
  BY DEF Expire, Inv, TypeOK
<1>2. ~AllMoved /\ ~AllVoided /\ leg' \in [Legs -> LegStates]
  BY <1>1 DEF AllMoved, AllVoided, Moved, LegStates
<1>3. ~(\E o \in Ops : ops[o] = "Performed") /\ ~Recorded("TransferCancelled")
  BY <1>2 DEF Inv, PerformedMeansMoved, StagedCancelReleased, AllMoved, AllVoided
<1>4. LegsKept
  BY <1>2 DEF LegsKept
<1>5. /\ TypeOK' /\ TerminalOpsKept /\ OperationsAgree' /\ OutcomeCoversManifest'
      /\ PerformedMeansMoved' /\ StagedCancelReleased' /\ ManifestRecorded'
  BY <1>1, <1>2, <1>3, <1>4, LegStep DEF Inv, TypeOK
<1>6. \A d \in Calls : CallKnows(d)'
  BY <1>1, <1>4, <1>5, KnowledgeIsStable DEF Inv
<1>7. PostReplyMeansMoved'
  BY <1>1, <1>2 DEF Inv, PostReplyMeansMoved, AllMoved
<1> QED BY <1>5, <1>6, <1>7 DEF Inv

\* operation.advance: the first Operation that is terminal decides for all that
\* follow in every other driver's walk.
LEMMA AdvanceOperationPreserves ==
    ASSUME Inv, NEW c \in Calls, AdvanceOperation(c)
    PROVE  Inv'
<1> DEFINE o == call[c].op
           e == call[c].event
           fact == OpFact(e)
<1>1. /\ call \in [Calls -> CallRecords] /\ ops \in [Ops -> OpFacts]
      /\ o \in Ops /\ e \in WalkEvents
      /\ \A i \in Ops : i < o /\ e \in OutcomeEvents => ops[i] = fact
      /\ e = "TransferCommitted" => AllMoved \/ ops[1] = "Failed"
      /\ e = "TransferCancelled" => AllVoided
      /\ stream' = stream /\ stage' = stage /\ leg' = leg /\ crashes' = crashes
      /\ crashes \in 0..MaxCrashes
  BY DEF AdvanceOperation, Inv, TypeOK, CallKnows
<1>2. CASE Return(c, "error") /\ ops' = ops
  BY <1>1, <1>2, ReturnStep DEF Replies, store
<1>3. CASE /\ ops[o] \in OpTerminal => ops[o] = fact
           /\ ops[o] # "none"
           /\ ops' = [ops EXCEPT ![o] = fact]
           /\ NextOperation(c, o)
  <2>1. /\ call' \in [Calls -> CallRecords] /\ OthersKeep(c)
        /\ call'[c].pc = IF o = NumOps THEN "sagaStep" ELSE "operations"
        /\ call'[c].op = o + 1 /\ call'[c].event = e
        /\ call'[c].rpc = call[c].rpc /\ call'[c].reply = call[c].reply
    BY <1>1, <1>3, NextOperationEffect
  <2>2. fact \in OpFacts /\ (fact \in OpTerminal <=> e \in OutcomeEvents)
    BY <1>1 DEF OpFact, OpFacts, OpTerminal, OutcomeEvents, WalkEvents
  <2> HIDE DEF fact
  <2>3. /\ ops' \in [Ops -> OpFacts] /\ ops'[o] = fact
        /\ \A i \in Ops : i # o => ops'[i] = ops[i]
    BY <1>1, <1>3, <2>2
  <2>4. TerminalOpsKept /\ LegsKept
    BY <1>1, <1>3, <2>3 DEF TerminalOpsKept, LegsKept, AllMoved, AllVoided
  <2>5. TypeOK'
    <3>1. o # NumOps => o + 1 \in Ops
      BY <1>1, ConstantsAssumption DEF Ops
    <3>2. \A d \in Calls : call'[d].pc = "operations" => call'[d].op \in Ops
      BY <2>1, <3>1 DEF Inv, TypeOK, OthersKeep
    <3> QED BY <1>1, <2>1, <2>3, <3>2 DEF Inv, TypeOK
  <2>6. OperationsAgree'
    <3> SUFFICES ASSUME NEW i \in Ops, NEW j \in Ops, i < j, ops'[j] \in OpTerminal
                 PROVE  ops'[i] = ops'[j]
      BY DEF OperationsAgree
    <3>1. CASE j = o
      BY <1>1, <2>2, <2>3, <3>1 DEF Ops
    <3>2. CASE j # o
      <4>1. ops[j] \in OpTerminal /\ ops[i] = ops[j] /\ ops[i] \in OpTerminal
        BY <2>3, <3>2 DEF Inv, OperationsAgree
      <4> QED BY <2>3, <2>4, <3>2, <4>1 DEF TerminalOpsKept
    <3> QED BY <3>1, <3>2
  <2>7. OutcomeCoversManifest'
    <3>1. \A f : Recorded(f)' <=> Recorded(f)
      BY <1>1 DEF Recorded
    <3> QED BY <2>4, <3>1, OutcomeFactsAreTerminal DEF Inv, OutcomeCoversManifest, TerminalOpsKept
  <2>8. PerformedMeansMoved'
    <3> SUFFICES ASSUME NEW i \in Ops, ops'[i] = "Performed" PROVE AllMoved'
      BY DEF PerformedMeansMoved, AllMoved
    <3>1. CASE ops[i] = "Performed"
      BY <1>1, <3>1 DEF Inv, PerformedMeansMoved, AllMoved
    <3>2. CASE ops[i] # "Performed"
      <4>1. i = o /\ fact = "Performed"
        BY <2>3, <3>2
      <4>2. e = "TransferCommitted" /\ 1 \in Ops
        BY <1>1, <4>1, ConstantsAssumption DEF fact, OpFact, WalkEvents, Ops
      <4>3. ops[1] # "Failed"
        <5>1. CASE o = 1
          BY <1>3, <4>1, <5>1 DEF OpTerminal
        <5>2. CASE o # 1
          BY <1>1, <4>1, <4>2, <5>2 DEF Ops, OutcomeEvents, WalkEvents
        <5> QED BY <5>1, <5>2
      <4> QED BY <1>1, <4>2, <4>3 DEF AllMoved
    <3> QED BY <3>1, <3>2
  <2>9. StagedCancelReleased' /\ ManifestRecorded'
    BY <1>1, <1>3, <2>3 DEF Inv, StagedCancelReleased, ManifestRecorded, Recorded
  <2>10. CallKnows(c)'
    <3>1. \A i \in Ops : i < o + 1 /\ e \in OutcomeEvents => ops'[i] = fact
      BY <1>1, <2>3 DEF Ops
    <3>2. o = NumOps => \A i \in Ops : i < o + 1
      BY <1>1, ConstantsAssumption DEF Ops
    <3>3. e = "TransferCommitted" => AllMoved' \/ ops'[1] = "Failed"
      <4>1. 1 \in Ops
        BY ConstantsAssumption DEF Ops
      <4> QED BY <1>1, <2>4, <4>1 DEF TerminalOpsKept, OpTerminal, AllMoved
    <3>4. e = "TransferCancelled" => AllVoided'
      BY <1>1 DEF AllVoided
    <3>5. e \in TransferEvents
      BY <1>1 DEF WalkEvents, TransferEvents
    <3> QED BY <1>1, <2>1, <3>1, <3>2, <3>3, <3>4, <3>5 DEF CallKnows, fact
  <2>11. call'[c].rpc = "PostPendingTransfer" /\ call'[c].reply = "ok" => AllMoved'
    BY <1>1, <2>1 DEF Inv, PostReplyMeansMoved, AllMoved
  <2> QED BY <2>1, <2>4, <2>5, <2>6, <2>7, <2>8, <2>9, <2>10, <2>11, StepPreserves
<1> QED BY <1>2, <1>3 DEF AdvanceOperation

\* appendSagaStep: an outcome is recorded only after a complete walk.
LEMMA AppendSagaStepPreserves ==
    ASSUME Inv, NEW c \in Calls, AppendSagaStep(c)
    PROVE  Inv'
<1> DEFINE e == call[c].event
<1>1. /\ call \in [Calls -> CallRecords] /\ stream \in Seq(TransferEvents)
      /\ e \in TransferEvents
      /\ \A o \in Ops : e \in OutcomeEvents => ops[o] = OpFact(e)
      /\ e = "TransferCancelled" => AllVoided
      /\ stage' = stage /\ ops' = ops /\ leg' = leg /\ crashes' = crashes
      /\ 1 \in Ops
  BY ConstantsAssumption DEF AppendSagaStep, Inv, TypeOK, CallKnows, Ops
<1>2. stream' \in Seq(TransferEvents) /\ \A f : Recorded(f)' => Recorded(f) \/ f = e
  <2>1. CASE stream' = stream
    BY <1>1, <2>1 DEF Recorded
  <2>2. CASE stream' = Append(stream, e)
    BY <1>1, <2>2, RecordedAfterAppend
  <2> QED BY <2>1, <2>2 DEF AppendSagaStep
<1>3. Recorded("TransferPrepared") => Recorded("TransferPrepared")'
  <2>1. CASE stream' = stream
    BY <2>1 DEF Recorded
  <2>2. CASE stream' = Append(stream, e)
    BY <1>1, <2>2, RecordedAfterAppend
  <2> QED BY <2>1, <2>2 DEF AppendSagaStep
<1>4. TerminalOpsKept /\ LegsKept
  BY <1>1 DEF TerminalOpsKept, LegsKept, AllMoved, AllVoided
<1>5. OperationsAgree' /\ PerformedMeansMoved' /\ ManifestRecorded'
  BY <1>1, <1>3 DEF Inv, OperationsAgree, PerformedMeansMoved, ManifestRecorded
<1>6. OutcomeCoversManifest'
  BY <1>1, <1>2 DEF Inv, OutcomeCoversManifest
<1>7. StagedCancelReleased'
  BY <1>1, <1>2 DEF Inv, StagedCancelReleased, AllVoided
<1>8. /\ call' \in [Calls -> CallRecords] /\ OthersKeep(c) /\ CallKnows(c)'
      /\ call'[c].pc = "operations" => call'[c].op \in Ops
      /\ call'[c].rpc = "PostPendingTransfer" /\ call'[c].reply = "ok" => AllMoved'
  <2>0. call[c].rpc = "PostPendingTransfer" /\ call[c].reply = "ok" => AllMoved'
    BY <1>1 DEF Inv, PostReplyMeansMoved, AllMoved
  <2>1. CASE e = "TransferFailed" /\ Walk(c, Interrupted(c))
    <3>1. ops'[1] = "Failed"
      BY <1>1, <2>1 DEF OutcomeEvents, WalkEvents, OpFact
    <3>2. Interrupted(c) \in {"TransferStaged", "TransferCommitted"}
      BY DEF Interrupted
    <3>3. Interrupted(c) \in WalkEvents /\ Interrupted(c) # "TransferCancelled"
      BY <3>2 DEF WalkEvents
    <3> QED BY <1>1, <2>0, <2>1, <3>1, <3>3, WalkKnows
  <2>2. CASE call[c].rpc = "RequestTransfer" /\ Goto(c, "runSaga")
    <3>1. /\ call' \in [Calls -> CallRecords] /\ OthersKeep(c) /\ call'[c].pc = "runSaga"
          /\ call'[c].rpc = "RequestTransfer"
      BY <1>1, <2>2, GotoEffect DEF PCs
    <3> QED BY <3>1 DEF CallKnows
  <2>3. CASE Goto(c, "postReload")
    <3>1. /\ call' \in [Calls -> CallRecords] /\ OthersKeep(c) /\ call'[c].pc = "postReload"
          /\ call'[c].rpc = call[c].rpc /\ call'[c].reply = call[c].reply
      BY <1>1, <2>3, GotoEffect DEF PCs
    <3> QED BY <2>0, <3>1 DEF CallKnows
  <2>4. CASE call[c].rpc # "PostPendingTransfer" /\ Return(c, "ok")
    <3>1. /\ call' \in [Calls -> CallRecords] /\ OthersKeep(c) /\ call'[c].pc = "idle"
          /\ call'[c].rpc = call[c].rpc
      BY <1>1, <2>4, ReturnEffect DEF Replies
    <3> QED BY <2>4, <3>1 DEF CallKnows
  <2> QED BY <2>1, <2>2, <2>3, <2>4 DEF AppendSagaStep
<1>9. TypeOK'
  BY <1>1, <1>2, <1>8 DEF Inv, TypeOK, OthersKeep
<1> QED BY <1>4, <1>5, <1>6, <1>7, <1>8, <1>9, StepPreserves

-----------------------------------------------------------------------------
(* The theorems.                                                             *)

\* Every step of the system preserves the invariant.
LEMMA NextPreserves == Inv /\ [Next]_vars => Inv'
<1> SUFFICES ASSUME Inv, [Next]_vars PROVE Inv'
  OBVIOUS
<1>1. CASE UNCHANGED vars
  <2>1. /\ stream' = stream /\ stage' = stage /\ ops' = ops /\ leg' = leg
        /\ call' = call /\ crashes' = crashes
    BY <1>1 DEF vars
  <2>2. TypeOK' /\ TerminalOpsKept /\ LegsKept
    BY <2>1 DEF Inv, TypeOK, TerminalOpsKept, LegsKept, AllMoved, AllVoided
  <2>3. OperationsAgree' /\ OutcomeCoversManifest' /\ PerformedMeansMoved'
    BY <2>1 DEF Inv, OperationsAgree, OutcomeCoversManifest, PerformedMeansMoved, Recorded
  <2>4. StagedCancelReleased' /\ PostReplyMeansMoved' /\ ManifestRecorded'
    BY <2>1 DEF Inv, StagedCancelReleased, PostReplyMeansMoved, ManifestRecorded, Recorded
  <2>5. \A c \in Calls : CallKnows(c)'
    BY <2>1, <2>2, KnowledgeIsStable DEF Inv
  <2> QED BY <2>2, <2>3, <2>4, <2>5 DEF Inv
<1>2. ASSUME NEW c \in Calls, CallStep(c) PROVE Inv'
  BY <1>2, LoadRequestPreserves, LoadCancelAcceptedPreserves, LoadConfirmStagedPreserves,
     LoadCancelStagedPreserves, LoadPostPendingPreserves, TryAppendPreserves,
     RunSagaPreserves, PreparePreserves, PrepareAppendPreserves, PrepareConvergePreserves,
     CommitPreserves, SubmitOKPreserves, SubmitRejectedPreserves,
     AdvanceOperationPreserves, AppendSagaStepPreserves, PostReloadPreserves,
     CancelPreparedPreserves DEF CallStep
<1>3. ASSUME NEW c \in Calls, Crash(c) PROVE Inv'
  BY <1>3, CrashPreserves
<1>4. ASSUME NEW c \in Calls, NEW r \in RPCs, Start(c, r) PROVE Inv'
  BY <1>4, StartPreserves
<1>5. ASSUME NEW l \in Legs, Expire(l) PROVE Inv'
  BY <1>5, ExpirePreserves
<1> QED BY <1>1, <1>2, <1>3, <1>4, <1>5 DEF Next

\* The inductive invariant holds throughout.
LEMMA InvHolds == Spec => []Inv
<1>1. Init => Inv
  BY InitEstablishes
<1>2. Inv /\ [Next]_vars => Inv'
  BY NextPreserves
<1> QED BY <1>1, <1>2, PTL DEF Spec

\* The streams, the ledger view and the locals of every call keep their types.
THEOREM TypeCorrect == Spec => []TypeOK
<1>1. Inv => TypeOK
  BY DEF Inv
<1> QED BY <1>1, InvHolds, PTL

\* The Operations of one manifest never end differently (operation.advance and
\* forEachOperation under any number of concurrent drivers).
THEOREM OperationsAlwaysAgree == Spec => []OperationsAgree
<1>1. Inv => OperationsAgree
  BY DEF Inv
<1> QED BY <1>1, InvHolds, PTL

\* Every outcome on the Transfer's stream is backed by all of its Operations
\* (commit, compensate, cancelStaged, cancelPrepared).
THEOREM OutcomesCoverManifest == Spec => []OutcomeCoversManifest
<1>1. Inv => OutcomeCoversManifest
  BY DEF Inv
<1> QED BY <1>1, InvHolds, PTL

\* No Operation is Performed, and no Transfer Committed, before the ledger has
\* moved every leg (commit, submitBatch).
THEOREM PerformedAlwaysMoved == Spec => []PerformedMeansMoved
<1>1. Inv => PerformedMeansMoved
  BY DEF Inv
<1> QED BY <1>1, InvHolds, PTL

\* TransferCancelled is recorded only for reservations that were voided
\* (cancelStaged against PostPendingTransfer and the timeout).
THEOREM StagedCancelAlwaysReleased == Spec => []StagedCancelReleased
<1>1. Inv => StagedCancelReleased
  BY DEF Inv
<1> QED BY <1>1, InvHolds, PTL

\* A successful PostPendingTransfer has moved the money.
THEOREM PostReplyAlwaysMoved == Spec => []PostReplyMeansMoved
<1>1. Inv => PostReplyMeansMoved
  BY DEF Inv
<1> QED BY <1>1, InvHolds, PTL

\* TransferCommitted excludes TransferFailed and both cancellations that walk
\* the Operations, and each of those excludes the others, for ever.
THEOREM OutcomesExclusive ==
    Spec => [](\A e, f \in OutcomeEvents :
                  Recorded(e) /\ Recorded(f) => OpFact(e) = OpFact(f))
<1>1. Inv => \A e, f \in OutcomeEvents : Recorded(e) /\ Recorded(f) => OpFact(e) = OpFact(f)
  <2>1. 1 \in Ops
    BY ConstantsAssumption DEF Ops
  <2> QED BY <2>1 DEF Inv, OutcomeCoversManifest
<1> QED BY <1>1, InvHolds, PTL
-----------------------------------------------------------------------------
(* Behaviours without overlapping calls.  Nothing in the server enforces     *)
(* them: each theorem below assumes []NoOverlap of the behaviour, whatever   *)
(* the number of calls, and overlapping calls do break its conclusion.       *)

\* At most one call is running on the Transfer; it may still die half-way.
NoOverlap == \A c, d \in Calls : call[c].pc # "idle" /\ call[d].pc # "idle" => c = d

\* How far the saga is in each state.
Rank == [unknown |-> 0, accepted |-> 1, prepared |-> 2, staged |-> 3, pending |-> 4,
         committed |-> 5, failed |-> 5, cancelled |-> 5]

\* Event e takes the Transfer further than it is.
Ahead(e) == Rank[currentState(stream)] < Rank[StateAfter[e]]

NoneMoved == \A l \in Legs : leg[l] \notin Moved

\* Where the ledger recognises a replayed batch, a refusal means nothing moved.
MayFail == Recognised => NoneMoved
FailedKept == Recognised => FailedMovedNothing

\* No recorded fact is ahead of the state the stream folds to.
FactsRanked ==
    \A e \in DOMAIN StateAfter : Recorded(e) => ~Ahead(e)

\* How far the legs can be: all moved or none, by the way the request asked for.
LegsFollow ==
    /\ NoneMoved \/ AllMoved
    /\ IF stage THEN \A l \in Legs : leg[l] # "posted"
                ELSE \A l \in Legs : leg[l] \in {"none", "burned", "posted"}
    /\ currentState(stream) = "unknown" => \A l \in Legs : leg[l] = "none"
    /\ (\E l \in Legs : leg[l] = "settled") => Rank[currentState(stream)] >= 4
    /\ currentState(stream) \in {"staged", "pending"} => stage

\* What the only running call knows: nobody else appends or submits meanwhile.
SoleCallKnows(c) ==
    /\ call[c].pc = "append" /\ call[c].event = "TransferRequestAccepted" =>
         currentState(stream) = "unknown"
    /\ call[c].pc \in {"prepare", "prepareAppend"} => currentState(stream) = "accepted"
    /\ call[c].pc = "commit" =>
         \/ currentState(stream) = "pending"
         \/ currentState(stream) = "prepared" /\ ~stage
    /\ call[c].pc = "submit" =>
         /\ call[c].kind = "Regular" => currentState(stream) = "prepared" /\ ~stage
         /\ call[c].kind = "Pending" => currentState(stream) = "prepared" /\ stage
         /\ call[c].kind = "PostPending" => currentState(stream) = "pending"
         /\ call[c].kind = "VoidPending" => currentState(stream) \in {"staged", "pending"}
    /\ call[c].pc \in {"operations", "sagaStep"} =>
         \/ /\ call[c].event \in DOMAIN StateAfter /\ Ahead(call[c].event)
            /\ currentState(stream) # "unknown"
            /\ call[c].event \in {"TransferStaged", "TransferPending"} => stage
            /\ call[c].event = "TransferFailed" => MayFail
         \/ /\ call[c].pc = "operations" /\ call[c].op = 1 /\ ops[1] = "Failed"
            /\ call[c].event \in {"TransferStaged", "TransferCommitted"}

SoleShared == FactsRanked /\ RecordedOnce /\ LegsFollow /\ FailedKept

SoleInv == SoleShared /\ \A c \in Calls : SoleCallKnows(c)

-----------------------------------------------------------------------------
(* currentState.                                                             *)

States == {"unknown", "accepted", "prepared", "staged", "pending"} \union TerminalStates

\* There is one last fact, and it decides.
LEMMA LastFactDecides ==
    ASSUME NEW s \in Seq(TransferEvents), NEW i \in DOMAIN s, IsLastFact(s, i)
    PROVE  currentState(s) = StateAfter[s[i]]
<1>1. DOMAIN s = 1..Len(s) /\ Len(s) \in Nat
  OBVIOUS
<1>2. \A j \in DOMAIN s : IsLastFact(s, j) => j = i
  BY <1>1 DEF IsLastFact
<1> DEFINE j == CHOOSE j \in DOMAIN s : IsLastFact(s, j)
<1>3. j \in DOMAIN s /\ IsLastFact(s, j)
  OBVIOUS
<1>4. currentState(s) = StateAfter[s[j]]
  BY DEF currentState
<1> HIDE DEF j
<1> QED BY <1>2, <1>3, <1>4

\* A stream without a fact has not begun.
LEMMA NoFactIsUnknown ==
    ASSUME NEW s, \A i \in DOMAIN s : ~IsLastFact(s, i)
    PROVE  currentState(s) = "unknown"
BY DEF currentState

\* The state is one of currentState's, whatever the stream.
LEMMA StateType == ASSUME NEW s PROVE currentState(s) \in States
<1>1. \A e \in DOMAIN StateAfter : StateAfter[e] \in States
  BY DEF StateAfter, States, TerminalStates
<1>2. CASE \E i \in DOMAIN s : IsLastFact(s, i)
  <2> DEFINE j == CHOOSE j \in DOMAIN s : IsLastFact(s, j)
  <2>1. IsLastFact(s, j) /\ currentState(s) = StateAfter[s[j]]
    BY <1>2 DEF currentState
  <2> HIDE DEF j
  <2> QED BY <1>1, <2>1 DEF IsLastFact
<1>3. CASE ~\E i \in DOMAIN s : IsLastFact(s, i)
  BY <1>3, NoFactIsUnknown DEF States
<1> QED BY <1>2, <1>3

\* An appended fact decides; any other event leaves the state alone.
LEMMA StateAfterAppend ==
    ASSUME NEW s \in Seq(TransferEvents), NEW e \in TransferEvents
    PROVE  /\ e \in DOMAIN StateAfter => currentState(Append(s, e)) = StateAfter[e]
           /\ e \notin DOMAIN StateAfter => currentState(Append(s, e)) = currentState(s)
<1>0. Append(s, e) \in Seq(TransferEvents)
  OBVIOUS
<1>1. PICK t \in Seq(TransferEvents) : t = Append(s, e)
  BY <1>0, Zenon
<1>2. /\ DOMAIN s = 1..Len(s) /\ DOMAIN t = 1..(Len(s) + 1) /\ Len(s) \in Nat
      /\ \A i \in DOMAIN s : t[i] = s[i]
      /\ t[Len(s) + 1] = e
  BY <1>1
<1>3. CASE e \in DOMAIN StateAfter
  <2>1. IsLastFact(t, Len(s) + 1)
    BY <1>2, <1>3 DEF IsLastFact
  <2>2. Len(s) + 1 \in DOMAIN t
    BY <1>2
  <2> QED BY <1>1, <1>2, <1>3, <2>1, <2>2, LastFactDecides
<1>4. CASE e \notin DOMAIN StateAfter
  <2>1. \A i \in DOMAIN s : IsLastFact(t, i) <=> IsLastFact(s, i)
    BY <1>2, <1>4 DEF IsLastFact
  <2>2. ~IsLastFact(t, Len(s) + 1)
    BY <1>2, <1>4 DEF IsLastFact
  <2>3. CASE \E i \in DOMAIN s : IsLastFact(s, i)
    <3>1. PICK i \in DOMAIN s : IsLastFact(s, i)
      BY <2>3
    <3>2. i \in DOMAIN t /\ IsLastFact(t, i) /\ t[i] = s[i]
      BY <1>2, <2>1, <3>1
    <3>3. currentState(s) = StateAfter[s[i]]
      BY <3>1, LastFactDecides
    <3>4. currentState(t) = StateAfter[t[i]]
      BY <3>2, LastFactDecides
    <3> QED BY <1>1, <1>4, <3>2, <3>3, <3>4
  <2>4. CASE ~\E i \in DOMAIN s : IsLastFact(s, i)
    <3>1. \A i \in DOMAIN t : ~IsLastFact(t, i)
      BY <1>2, <2>1, <2>2, <2>4
    <3>2. currentState(s) = "unknown" /\ currentState(t) = "unknown"
      BY <2>4, <3>1, NoFactIsUnknown
    <3> QED BY <1>1, <1>4, <3>2
  <2> QED BY <2>3, <2>4
<1> QED BY <1>3, <1>4

\* The empty stream.
LEMMA EmptyIsUnknown == currentState(<< >>) = "unknown"
BY NoFactIsUnknown

\* The order of the states.
LEMMA RankFacts ==
    /\ \A s \in States : Rank[s] \in Nat /\ (Rank[s] < 5 <=> s \notin TerminalStates)
    /\ \A e \in DOMAIN StateAfter : StateAfter[e] \in States /\ Rank[StateAfter[e]] \in 1..5
BY DEF States, TerminalStates, Rank, StateAfter

\* Events that end the Transfer are ahead of every state that is not terminal.
LEMMA EndIsAhead ==
    ASSUME NEW e \in DOMAIN StateAfter, StateAfter[e] \in TerminalStates
    PROVE  Ahead(e) <=> currentState(stream) \notin TerminalStates
<1>1. Rank[StateAfter[e]] = 5
  BY DEF TerminalStates, Rank
<1> QED BY <1>1, StateType, RankFacts DEF Ahead

-----------------------------------------------------------------------------
(* What the calls share.                                                     *)

\* An event that moves the Transfer ahead is recorded for the first time.
LEMMA FactIsAhead ==
    ASSUME Inv, SoleShared, NEW e \in DOMAIN StateAfter, Ahead(e), stream' = Append(stream, e),
           UNCHANGED leg, stage' \in BOOLEAN, stage' = stage \/ currentState(stream) = "unknown",
           currentState(stream) = "unknown" => e = "TransferRequestAccepted",
           e \in {"TransferStaged", "TransferPending"} => stage,
           e = "TransferFailed" => MayFail
    PROVE  SoleShared' /\ currentState(stream') = StateAfter[e]
<1>1. stream \in Seq(TransferEvents) /\ e \in TransferEvents /\ leg \in [Legs -> LegStates]
  BY DEF Inv, TypeOK, TransferEvents, StateAfter
<1>2. PICK s \in States, t \in States :
         s = currentState(stream) /\ t = currentState(stream') /\ t = StateAfter[e]
  BY <1>1, StateType, StateAfterAppend
<1>3. Rank[s] < Rank[t] /\ Rank[s] \in Nat /\ Rank[t] \in Nat
  BY <1>2, RankFacts DEF Ahead
<1>4. /\ stream' \in Seq(TransferEvents)
      /\ \A f : Recorded(f)' <=> Recorded(f) \/ f = e
  BY <1>1, RecordedAfterAppend
<1>5. FactsRanked'
  <2> SUFFICES ASSUME NEW f \in DOMAIN StateAfter, Recorded(f)' PROVE ~Ahead(f)'
    BY DEF FactsRanked
  <2>1. Rank[StateAfter[f]] \in Nat
    BY RankFacts
  <2>2. CASE f = e
    BY <1>2, <1>3, <2>2 DEF Ahead
  <2>3. CASE Recorded(f)
    <3>1. ~(Rank[s] < Rank[StateAfter[f]])
      BY <1>2, <2>3 DEF SoleShared, FactsRanked, Ahead
    <3>2. ~(Rank[t] < Rank[StateAfter[f]])
      BY <1>3, <2>1, <3>1
    <3> QED BY <1>2, <3>2 DEF Ahead
  <2> QED BY <1>4, <2>2, <2>3
<1>6. RecordedOnce'
  <2>1. ~Recorded(e)
    BY DEF SoleShared, FactsRanked
  <2>2. /\ DOMAIN stream = 1..Len(stream) /\ DOMAIN stream' = 1..(Len(stream) + 1)
        /\ Len(stream) \in Nat /\ stream'[Len(stream) + 1] = e
        /\ \A i \in DOMAIN stream : stream'[i] = stream[i] /\ stream[i] # e
    BY <1>1, <2>1 DEF Recorded
  <2> QED BY <2>2 DEF SoleShared, RecordedOnce
<1>7. LegsFollow'
  <2>1. LegsFollow
    BY DEF SoleShared
  <2>2. t # "unknown"
    BY <1>2 DEF StateAfter
  <2>3. (NoneMoved \/ AllMoved)'
    BY <2>1 DEF LegsFollow, NoneMoved, AllMoved
  <2>4. s = "unknown" => \A l \in Legs : leg[l] = "none"
    BY <1>2, <2>1 DEF LegsFollow
  <2>5. (IF stage THEN \A l \in Legs : leg[l] # "posted"
                  ELSE \A l \in Legs : leg[l] \in {"none", "burned", "posted"})'
    BY <1>2, <2>1, <2>4 DEF LegsFollow
  <2>6. (\E l \in Legs : leg'[l] = "settled") => Rank[t] >= 4
    BY <1>2, <1>3, <2>1 DEF LegsFollow
  <2>7. t \in {"staged", "pending"} => stage'
    <3>1. t \in {"staged", "pending"} => e \in {"TransferStaged", "TransferPending"}
      BY <1>2 DEF StateAfter
    <3>2. CASE s = "unknown"
      BY <1>2, <3>2 DEF StateAfter
    <3> QED BY <1>2, <3>1, <3>2
  <2> QED BY <1>2, <2>2, <2>3, <2>5, <2>6, <2>7 DEF LegsFollow
<1>8. FailedKept'
  BY <1>4 DEF SoleShared, FailedKept, FailedMovedNothing, MayFail, NoneMoved
<1> QED BY <1>2, <1>5, <1>6, <1>7, <1>8 DEF SoleShared

\* A refusal changes nothing but the stream's length.
LEMMA RefusalIsQuiet ==
    ASSUME Inv, SoleShared, NEW e \in Refusals, stream' = Append(stream, e), UNCHANGED <<leg, stage>>
    PROVE  SoleShared' /\ currentState(stream') = currentState(stream)
<1>1. stream \in Seq(TransferEvents) /\ e \in TransferEvents /\ e \notin DOMAIN StateAfter
  BY DEF Inv, TypeOK, TransferEvents, StateAfter, Refusals
<1>2. currentState(stream') = currentState(stream)
  BY <1>1, StateAfterAppend
<1>3. \A f : Recorded(f)' <=> Recorded(f) \/ f = e
  BY <1>1, RecordedAfterAppend
<1>4. FactsRanked'
  BY <1>1, <1>2, <1>3 DEF SoleShared, FactsRanked, Ahead
<1>5. RecordedOnce'
  <2>1. /\ DOMAIN stream = 1..Len(stream) /\ DOMAIN stream' = 1..(Len(stream) + 1)
        /\ Len(stream) \in Nat /\ stream'[Len(stream) + 1] = e
        /\ \A i \in DOMAIN stream : stream'[i] = stream[i]
    BY <1>1
  <2> QED BY <2>1 DEF SoleShared, RecordedOnce
<1>6. LegsFollow'
  BY <1>2 DEF SoleShared, LegsFollow, NoneMoved, AllMoved
<1>7. FailedKept'
  BY <1>3 DEF SoleShared, FailedKept, FailedMovedNothing, Refusals
<1> QED BY <1>2, <1>4, <1>5, <1>6, <1>7 DEF SoleShared

\* Nothing changes that the properties speak of.
LEMMA QuietSole ==
    ASSUME SoleShared, UNCHANGED <<stream, stage, leg>>
    PROVE  SoleShared'
BY DEF SoleShared, FactsRanked, RecordedOnce, LegsFollow, FailedKept, FailedMovedNothing, Ahead, Recorded,
       NoneMoved, AllMoved

\* A batch acts on all legs alike, and only before the Transfer has ended.
LEMMA BatchSole ==
    ASSUME SoleShared, UNCHANGED <<stream, stage>>, NEW x, leg' = [l \in Legs |-> x],
           currentState(stream) \notin TerminalStates \union {"unknown"},
           IF stage THEN x # "posted" ELSE x \in {"none", "burned", "posted"},
           x = "settled" => currentState(stream) = "pending"
    PROVE  SoleShared'
<1>1. ~Recorded("TransferFailed")
  BY EndIsAhead DEF SoleShared, FactsRanked, StateAfter, TerminalStates
<1>2. FactsRanked' /\ RecordedOnce' /\ FailedKept'
  BY <1>1 DEF SoleShared, FactsRanked, RecordedOnce, FailedKept, FailedMovedNothing, Recorded, Ahead
<1>3. LegsFollow'
  <2>1. (NoneMoved \/ AllMoved)'
    BY DEF NoneMoved, AllMoved
  <2>2. currentState(stream) = "pending" => Rank[currentState(stream)] >= 4
    BY DEF Rank
  <2> QED BY <2>1, <2>2 DEF SoleShared, LegsFollow
<1> QED BY <1>2, <1>3 DEF SoleShared

-----------------------------------------------------------------------------
(* The actions of the only call.                                             *)

SoleStep(c) == SoleShared' /\ SoleCallKnows(c)'

\* What is known before a step.
LEMMA SoleFacts ==
    ASSUME Inv, SoleInv, NEW c \in Calls
    PROVE  /\ SoleShared /\ SoleCallKnows(c) /\ CallKnows(c)
           /\ call \in [Calls -> CallRecords] /\ call[c] \in CallRecords
           /\ stream \in Seq(TransferEvents) /\ stage \in BOOLEAN /\ ops \in [Ops -> OpFacts]
           /\ leg \in [Legs -> LegStates] /\ 1 \in Ops
BY ConstantsAssumption DEF Inv, TypeOK, SoleInv, Ops

\* Between its decisions a call knows nothing.
LEMMA FreeCallSole ==
    ASSUME NEW c, call'[c].pc \in {"idle", "load", "runSaga", "prepareConverge", "postReload", "cancelPrepared"}
    PROVE  SoleCallKnows(c)'
BY DEF SoleCallKnows

\* A handler that ends, or goes on to a step that reads the stream for itself.
LEMMA ReleaseSole ==
    ASSUME Inv, SoleInv, NEW c \in Calls, SoleShared',
           \/ \E reply \in Replies : Return(c, reply)
           \/ \E pc \in {"runSaga", "prepareConverge", "postReload", "cancelPrepared"} : Goto(c, pc)
    PROVE  SoleStep(c)
<1>0. call \in [Calls -> CallRecords]
  BY SoleFacts
<1>1. ASSUME NEW reply \in Replies, Return(c, reply) PROVE SoleStep(c)
  BY <1>0, <1>1, ReturnEffect, FreeCallSole DEF SoleStep
<1>2. ASSUME NEW pc \in {"runSaga", "prepareConverge", "postReload", "cancelPrepared"}, Goto(c, pc)
      PROVE  SoleStep(c)
  <2>1. call'[c].pc = pc
    BY <1>0, <1>2, GotoEffect DEF PCs
  <2> QED BY <2>1, FreeCallSole DEF SoleStep
<1> QED BY <1>1, <1>2

\* A walk, or a step, towards an event that is ahead of the stream.
LEMMA TowardsSole ==
    ASSUME Inv, SoleInv, NEW c \in Calls, SoleShared', NEW e \in TransferEvents,
           Walk(c, e) \/ Step(c, e), e \in DOMAIN StateAfter, UNCHANGED <<stream, stage>>, Ahead(e),
           currentState(stream) # "unknown",
           e \in {"TransferStaged", "TransferPending"} => stage,
           e = "TransferFailed" => MayFail'
    PROVE  SoleStep(c)
<1>0. call \in [Calls -> CallRecords]
  BY SoleFacts
<1>1. call'[c].pc \in {"operations", "sagaStep"} /\ call'[c].event = e
  BY <1>0, WalkEffect, StepEffect
<1>2. Ahead(e)'
  BY DEF Ahead
<1>3. SoleCallKnows(c)'
  BY <1>1, <1>2 DEF SoleCallKnows
<1> QED BY <1>3 DEF SoleStep

\* Towards the submission of a batch that the state of the Transfer calls for.
LEMMA SubmitSole ==
    ASSUME Inv, SoleInv, NEW c \in Calls, NEW kind \in Kinds, Submit(c, kind),
           UNCHANGED <<store, leg>>,
           kind = "Regular" => currentState(stream) = "prepared" /\ ~stage,
           kind = "Pending" => currentState(stream) = "prepared" /\ stage,
           kind = "PostPending" => currentState(stream) = "pending",
           kind = "VoidPending" => currentState(stream) \in {"staged", "pending"}
    PROVE  SoleStep(c)
<1>0. call \in [Calls -> CallRecords] /\ SoleShared' /\ UNCHANGED <<stream, stage>>
  BY SoleFacts, QuietSole DEF store
<1>1. call'[c].pc = "submit" /\ call'[c].kind = kind
  BY <1>0, SubmitEffect
<1>2. SoleCallKnows(c)'
  BY <1>0, <1>1 DEF SoleCallKnows
<1> QED BY <1>0, <1>2 DEF SoleStep

\* An RPC reaches the server.
LEMMA StartSole == ASSUME Inv, SoleInv, NEW c \in Calls, NEW r, Start(c, r) PROVE SoleStep(c)
<1>0. call \in [Calls -> CallRecords] /\ SoleShared'
  BY SoleFacts, QuietSole DEF Start, Send, store
<1>1. call'[c].pc = "load"
  BY <1>0 DEF Start, Send, Idle
<1> QED BY <1>0, <1>1, FreeCallSole DEF SoleStep

\* A decision that tryAppend is to append.
LEMMA DecideSole ==
    ASSUME Inv, SoleInv, NEW c \in Calls, NEW e \in TransferEvents, Decide(c, e), UNCHANGED <<store, leg>>,
           e = "TransferRequestAccepted" => currentState(stream) = "unknown"
    PROVE  SoleStep(c)
<1>0. call \in [Calls -> CallRecords] /\ stream \in Seq(TransferEvents) /\ SoleShared'
      /\ UNCHANGED <<stream, stage>>
  BY SoleFacts, QuietSole DEF store
<1>1. call'[c].pc = "append" /\ call'[c].event = e
  BY <1>0, DecideEffect
<1>2. SoleCallKnows(c)'
  BY <1>0, <1>1 DEF SoleCallKnows
<1> QED BY <1>0, <1>2 DEF SoleStep

\* RequestTransfer and RequestReversal up to their decision.
LEMMA LoadRequestSole == ASSUME Inv, SoleInv, NEW c \in Calls, LoadRequest(c) PROVE SoleStep(c)
<1>0. SoleShared' /\ UNCHANGED <<store, leg>>
  BY SoleFacts, QuietSole DEF LoadRequest, store
<1>1. CASE Goto(c, "runSaga")
  BY <1>0, <1>1, ReleaseSole
<1>2. CASE Return(c, "rejected")
  BY <1>0, <1>2, ReleaseSole DEF Replies
<1>3. ASSUME stream = << >>, NEW e \in {"TransferRequestAccepted", "TransferRequestRejected"}, Decide(c, e)
      PROVE  SoleStep(c)
  BY <1>0, <1>3, EmptyIsUnknown, DecideSole DEF TransferEvents, Refusals
<1> QED BY <1>1, <1>2, <1>3 DEF LoadRequest

\* The other four handlers up to their decision.
LEMMA LoadSole ==
    ASSUME Inv, SoleInv, NEW c \in Calls,
           LoadCancelAccepted(c) \/ LoadConfirmStaged(c) \/ LoadCancelStaged(c) \/ LoadPostPending(c)
    PROVE  SoleStep(c)
<1>0. /\ SoleShared' /\ SoleShared /\ UNCHANGED <<store, leg>> /\ UNCHANGED <<stream, stage>>
      /\ call \in [Calls -> CallRecords]
  BY SoleFacts, QuietSole
  DEF LoadCancelAccepted, LoadConfirmStaged, LoadCancelStaged, LoadPostPending, store
<1>1. CASE \E reply \in {"ok", "rejected"} : Return(c, reply)
  BY <1>0, <1>1, ReleaseSole DEF Replies
<1>2. CASE Goto(c, "cancelPrepared")
  BY <1>0, <1>2, ReleaseSole
<1>3. ASSUME NEW e \in Refusals, Decide(c, e) PROVE SoleStep(c)
  BY <1>0, <1>3, DecideSole DEF TransferEvents, Refusals
<1>4. CASE currentState(stream) = "staged" /\ Step(c, "TransferPending")
  <2>1. Ahead("TransferPending") /\ stage
    BY <1>0, <1>4 DEF Ahead, Rank, StateAfter, SoleShared, LegsFollow
  <2> QED BY <1>0, <1>4, <2>1, TowardsSole DEF TransferEvents, StateAfter
<1>5. CASE currentState(stream) \in {"staged", "pending"} /\ Submit(c, "VoidPending")
  BY <1>0, <1>5, SubmitSole DEF Kinds
<1>6. CASE currentState(stream) = "pending" /\ Goto(c, "commit")
  <2>1. call'[c].pc = "commit"
    BY <1>0, <1>6, GotoEffect DEF PCs
  <2>2. SoleCallKnows(c)'
    BY <1>0, <1>6, <2>1 DEF SoleCallKnows
  <2> QED BY <1>0, <2>2 DEF SoleStep
<1>7. LoadCancelAccepted(c) => SoleStep(c)
  BY <1>1, <1>2 DEF LoadCancelAccepted
<1>8. LoadConfirmStaged(c) => SoleStep(c)
  BY <1>1, <1>3, <1>4 DEF LoadConfirmStaged, Refusals
<1>9. LoadCancelStaged(c) => SoleStep(c)
  BY <1>1, <1>3, <1>5 DEF LoadCancelStaged, Refusals
<1>10. LoadPostPending(c) => SoleStep(c)
  BY <1>1, <1>3, <1>6 DEF LoadPostPending, Refusals
<1> QED BY <1>7, <1>8, <1>9, <1>10

\* tryAppend: an acceptance lands on an empty history, a refusal anywhere.
LEMMA TryAppendSole == ASSUME Inv, SoleInv, NEW c \in Calls, TryAppend(c) PROVE SoleStep(c)
<1>0. /\ SoleShared /\ SoleCallKnows(c) /\ CallKnows(c) /\ call \in [Calls -> CallRecords]
      /\ stage \in BOOLEAN /\ call[c].pc = "append" /\ leg' = leg
      /\ call[c].event \in Refusals \union {"TransferRequestAccepted"}
  BY SoleFacts DEF TryAppend, CallKnows
<1>1. CASE Len(stream) = call[c].seq /\ call[c].event = "TransferRequestAccepted"
  <2>1. /\ stream' = Append(stream, "TransferRequestAccepted") /\ Goto(c, "runSaga")
        /\ stage' \in BOOLEAN
    BY <1>1, ConstantsAssumption DEF TryAppend
  <2>2. currentState(stream) = "unknown"
    BY <1>0, <1>1 DEF SoleCallKnows
  <2>3. Ahead("TransferRequestAccepted") /\ "TransferRequestAccepted" \in DOMAIN StateAfter
    BY <2>2 DEF Ahead, Rank, StateAfter
  <2>4. SoleShared'
    BY <1>0, <2>1, <2>2, <2>3, FactIsAhead
  <2> QED BY <2>1, <2>4, ReleaseSole
<1>2. CASE Len(stream) = call[c].seq /\ call[c].event # "TransferRequestAccepted"
  <2>1. PICK e \in Refusals : e = call[c].event
    BY <1>0, <1>2
  <2>2. stream' = Append(stream, e) /\ stage' = stage /\ Return(c, "rejected")
    BY <1>2, <2>1 DEF TryAppend
  <2>3. SoleShared'
    BY <1>0, <2>2, RefusalIsQuiet
  <2> QED BY <2>2, <2>3, ReleaseSole DEF Replies
<1>3. CASE Len(stream) # call[c].seq
  <2>1. SoleShared'
    BY <1>0, <1>3, QuietSole DEF TryAppend
  <2>2. CASE Return(c, "aborted")
    BY <2>1, <2>2, ReleaseSole DEF Replies
  <2>3. CASE call' = [call EXCEPT ![c].pc = "load", ![c].attempt = call[c].attempt + 1]
    <3>1. call'[c].pc = "load"
      BY <1>0, <2>3 DEF CallRecords
    <3> QED BY <2>1, <3>1, FreeCallSole DEF SoleStep
  <2> QED BY <1>3, <2>2, <2>3 DEF TryAppend
<1> QED BY <1>1, <1>2, <1>3

\* One turn of runSaga's loop.
LEMMA RunSagaSole == ASSUME Inv, SoleInv, NEW c \in Calls, RunSaga(c) PROVE SoleStep(c)
<1>0. /\ SoleShared' /\ UNCHANGED <<store, leg>> /\ UNCHANGED <<stream, stage>>
      /\ call \in [Calls -> CallRecords]
  BY SoleFacts, QuietSole DEF RunSaga, store
<1>1. CASE Return(c, "ok")
  BY <1>0, <1>1, ReleaseSole DEF Replies
<1>2. CASE currentState(stream) = "accepted" /\ Goto(c, "prepare")
  <2>1. call'[c].pc = "prepare"
    BY <1>0, <1>2, GotoEffect DEF PCs
  <2>2. SoleCallKnows(c)'
    BY <1>0, <1>2, <2>1 DEF SoleCallKnows
  <2> QED BY <1>0, <2>2 DEF SoleStep
<1>3. CASE currentState(stream) = "prepared" /\ stage /\ Submit(c, "Pending")
  BY <1>0, <1>3, SubmitSole DEF Kinds
<1>4. CASE currentState(stream) = "prepared" /\ ~stage /\ Goto(c, "commit")
  <2>1. call'[c].pc = "commit"
    BY <1>0, <1>4, GotoEffect DEF PCs
  <2>2. SoleCallKnows(c)'
    BY <1>0, <1>4, <2>1 DEF SoleCallKnows
  <2> QED BY <1>0, <2>2 DEF SoleStep
<1> QED BY <1>1, <1>2, <1>3, <1>4 DEF RunSaga

\* prepare up to its append.
LEMMA PrepareSole == ASSUME Inv, SoleInv, NEW c \in Calls, Prepare(c) PROVE SoleStep(c)
<1>0. /\ SoleShared' /\ UNCHANGED <<stream, stage>> /\ call \in [Calls -> CallRecords]
      /\ SoleCallKnows(c) /\ call[c].pc = "prepare"
  BY SoleFacts, QuietSole DEF Prepare, store
<1>1. CASE Return(c, "error")
  BY <1>0, <1>1, ReleaseSole DEF Replies
<1>2. CASE call' = [call EXCEPT ![c].pc = "prepareAppend", ![c].seq = Len(stream)]
  <2>1. call'[c].pc = "prepareAppend"
    BY <1>0, <1>2 DEF CallRecords
  <2>2. SoleCallKnows(c)'
    BY <1>0, <2>1 DEF SoleCallKnows
  <2> QED BY <1>0, <2>2 DEF SoleStep
<1> QED BY <1>1, <1>2 DEF Prepare

\* TransferPrepared lands on an accepted Transfer, or not at all.
LEMMA PrepareAppendSole == ASSUME Inv, SoleInv, NEW c \in Calls, PrepareAppend(c) PROVE SoleStep(c)
<1>0. /\ SoleShared /\ UNCHANGED <<stage, leg>> /\ stage \in BOOLEAN
      /\ currentState(stream) = "accepted"
  BY SoleFacts DEF PrepareAppend, SoleCallKnows
<1>1. CASE stream' = Append(stream, "TransferPrepared") /\ Goto(c, "runSaga")
  <2>1. Ahead("TransferPrepared") /\ "TransferPrepared" \in DOMAIN StateAfter
    BY <1>0 DEF Ahead, Rank, StateAfter
  <2>2. SoleShared'
    BY <1>0, <1>1, <2>1, FactIsAhead
  <2> QED BY <1>1, <2>2, ReleaseSole
<1>2. CASE stream' = stream /\ Goto(c, "prepareConverge")
  BY <1>0, <1>2, QuietSole, ReleaseSole
<1> QED BY <1>1, <1>2 DEF PrepareAppend

\* commit chooses the batch that its state calls for.
LEMMA CommitSole == ASSUME Inv, SoleInv, NEW c \in Calls, Commit(c) PROVE SoleStep(c)
<1>0. /\ UNCHANGED <<store, leg>>
      /\ currentState(stream) = "pending" \/ (currentState(stream) = "prepared" /\ ~stage)
  BY SoleFacts DEF Commit, SoleCallKnows
<1>1. CASE currentState(stream) = "pending"
  <2>1. Submit(c, "PostPending")
    BY <1>1 DEF Commit
  <2> QED BY <1>0, <1>1, <2>1, SubmitSole DEF Kinds
<1>2. CASE currentState(stream) = "prepared" /\ ~stage
  <2>1. Submit(c, "Regular")
    BY <1>2 DEF Commit
  <2> QED BY <1>0, <1>2, <2>1, SubmitSole DEF Kinds
<1> QED BY <1>0, <1>1, <1>2

\* What is known at a submission.
LEMMA SubmitFacts ==
    ASSUME Inv, SoleInv, NEW c \in Calls, call[c].pc = "submit"
    PROVE  /\ SoleShared /\ call[c].kind \in Kinds
           /\ currentState(stream) \in {"prepared", "staged", "pending"}
           /\ call[c].kind = "Regular" => currentState(stream) = "prepared" /\ ~stage
           /\ call[c].kind # "Regular" => stage
           /\ call[c].kind = "Pending" => currentState(stream) = "prepared"
           /\ call[c].kind = "PostPending" => currentState(stream) = "pending"
<1>1. SoleShared /\ SoleCallKnows(c) /\ call[c].kind \in Kinds
  BY SoleFacts DEF CallKnows
<1> QED BY <1>1 DEF SoleCallKnows, Kinds, SoleShared, LegsFollow

\* An accepted batch, or one that was accepted before.
LEMMA SubmitOKSole == ASSUME Inv, SoleInv, NEW c \in Calls, SubmitOK(c) PROVE SoleStep(c)
<1>1. PICK kind \in Kinds : kind = call[c].kind
  BY SubmitFacts DEF SubmitOK
<1>2. /\ SoleShared /\ UNCHANGED <<stream, stage>>
      /\ currentState(stream) \in {"prepared", "staged", "pending"}
      /\ kind = "Regular" => currentState(stream) = "prepared" /\ ~stage
      /\ kind # "Regular" => stage
      /\ kind = "Pending" => currentState(stream) = "prepared"
      /\ kind = "PostPending" => currentState(stream) = "pending"
  BY <1>1, SubmitFacts DEF SubmitOK, store
<1>3. SoleShared'
  <2>1. CASE UNCHANGED leg
    BY <1>2, <2>1, QuietSole
  <2>2. CASE leg' = [l \in Legs |-> AppliedAs(kind)]
    <3>1. PICK x : x = AppliedAs(kind)
      OBVIOUS
    <3>2. /\ IF stage THEN x # "posted" ELSE x \in {"none", "burned", "posted"}
          /\ x = "settled" => currentState(stream) = "pending"
      BY <1>2, <3>1 DEF AppliedAs, Kinds
    <3>3. currentState(stream) \notin TerminalStates \union {"unknown"}
      BY <1>2 DEF TerminalStates
    <3> QED BY <1>2, <2>2, <3>1, <3>2, <3>3, BatchSole
  <2> QED BY <1>1, <2>1, <2>2 DEF SubmitOK
<1>4. PICK e \in {"TransferStaged", "TransferCancelled", "TransferCommitted"} :
         e = EventAfter(kind) /\ (e = "TransferStaged" => kind = "Pending")
  BY DEF EventAfter, Kinds
<1>5. Walk(c, e)
  BY <1>1, <1>4 DEF SubmitOK
<1>6. e \in DOMAIN StateAfter /\ e \in TransferEvents /\ Ahead(e)
  BY <1>2, <1>4 DEF Ahead, Rank, StateAfter, TransferEvents
<1> QED BY <1>2, <1>3, <1>4, <1>5, <1>6, TowardsSole

\* Where a replayed batch is recognised a refused one left nothing moved, so
\* that compensate may fail the Transfer.
LEMMA SubmitRejectedSole == ASSUME Inv, SoleInv, NEW c \in Calls, SubmitRejected(c) PROVE SoleStep(c)
<1>1. PICK kind \in Kinds : kind = call[c].kind
  BY SubmitFacts DEF SubmitRejected
<1>2. /\ SoleShared /\ UNCHANGED <<stream, stage>> /\ Refusable(kind)
      /\ currentState(stream) \in {"prepared", "staged", "pending"}
      /\ kind = "Regular" => currentState(stream) = "prepared" /\ ~stage
      /\ kind # "Regular" => stage
      /\ kind = "Pending" => currentState(stream) = "prepared"
      /\ kind = "PostPending" => currentState(stream) = "pending"
  BY <1>1, SubmitFacts DEF SubmitRejected, store
<1>3. leg' = leg \/ leg' = [l \in Legs |-> "burned"]
  BY <1>1 DEF SubmitRejected
<1>4. SoleShared'
  <2>1. CASE leg' = leg
    BY <1>2, <2>1, QuietSole
  <2>2. CASE leg' = [l \in Legs |-> "burned"]
    BY <1>2, <2>2, BatchSole DEF TerminalStates
  <2> QED BY <1>3, <2>1, <2>2
<1>5. CASE kind = "VoidPending" /\ Return(c, "error")
  BY <1>4, <1>5, ReleaseSole DEF Replies
<1>6. CASE kind # "VoidPending" /\ Walk(c, "TransferFailed")
  <2>1. LegsFollow /\ (Recognised => ~Exists(kind))
    BY <1>2 DEF SoleShared, Refusable
  <2>2. ASSUME kind = "Regular", Recognised PROVE NoneMoved
    BY <1>2, <2>1, <2>2 DEF LegsFollow, Exists, ExistsAs, NoneMoved, AllMoved, Moved
  <2>3. ASSUME kind = "Pending" PROVE NoneMoved
    BY <1>2, <2>1, <2>3 DEF LegsFollow, NoneMoved, Moved, Rank
  <2>4. ASSUME kind = "PostPending", Recognised PROVE NoneMoved
    BY <1>2, <2>1, <2>4 DEF LegsFollow, Exists, ExistsAs, NoneMoved, AllMoved, Moved
  <2>5. Recognised => NoneMoved
    BY <1>6, <2>2, <2>3, <2>4 DEF Kinds
  <2>6. MayFail'
    BY <1>3, <2>5 DEF MayFail, NoneMoved, Moved
  <2>7. "TransferFailed" \in DOMAIN StateAfter /\ "TransferFailed" \in TransferEvents /\ Ahead("TransferFailed")
    BY <1>2 DEF Ahead, Rank, StateAfter, TransferEvents
  <2> QED BY <1>2, <1>4, <1>6, <2>6, <2>7, TowardsSole
<1> QED BY <1>1, <1>5, <1>6 DEF SubmitRejected

\* A turn of forEachOperation; the walk that follows a compensation stops at once.
LEMMA AdvanceOperationSole == ASSUME Inv, SoleInv, NEW c \in Calls, AdvanceOperation(c) PROVE SoleStep(c)
<1>0. /\ SoleShared' /\ SoleCallKnows(c) /\ CallKnows(c) /\ call \in [Calls -> CallRecords]
      /\ call[c].pc = "operations" /\ UNCHANGED <<stream, stage, leg>>
  BY SoleFacts, QuietSole DEF AdvanceOperation
<1>1. PICK o \in Ops : o = call[c].op
  BY <1>0 DEF Inv, TypeOK
<1>2. CASE Return(c, "error")
  BY <1>0, <1>2, ReleaseSole DEF Replies
<1>3. CASE /\ ~((ops[o] \in OpTerminal /\ ops[o] # OpFact(call[c].event)) \/ ops[o] = "none")
           /\ NextOperation(c, o)
  <2>1. ~(/\ call[c].op = 1 /\ ops[1] = "Failed"
          /\ call[c].event \in {"TransferStaged", "TransferCommitted"})
    BY <1>1, <1>3 DEF OpTerminal, OpFact
  <2>2. /\ call[c].event \in DOMAIN StateAfter /\ Ahead(call[c].event)
        /\ currentState(stream) # "unknown"
        /\ call[c].event \in {"TransferStaged", "TransferPending"} => stage
        /\ call[c].event = "TransferFailed" => MayFail
    BY <1>0, <2>1 DEF SoleCallKnows
  <2>3. call'[c].event = call[c].event /\ call'[c].pc \in {"sagaStep", "operations"}
    BY <1>0, <1>1, <1>3, NextOperationEffect
  <2>4. Ahead(call[c].event) => Rank[currentState(stream')] < Rank[StateAfter[call'[c].event]]
    BY <1>0, <2>3 DEF Ahead
  <2>5. MayFail => MayFail'
    BY <1>0 DEF MayFail, NoneMoved
  <2>6. SoleCallKnows(c)'
    BY <1>0, <2>2, <2>3, <2>4, <2>5 DEF SoleCallKnows, Ahead
  <2> QED BY <1>0, <2>6 DEF SoleStep
<1> QED BY <1>1, <1>2, <1>3 DEF AdvanceOperation

\* appendSagaStep: the event it appends is new.
LEMMA AppendSagaStepSole == ASSUME Inv, SoleInv, NEW c \in Calls, AppendSagaStep(c) PROVE SoleStep(c)
<1>0. /\ SoleShared /\ SoleCallKnows(c) /\ CallKnows(c) /\ call \in [Calls -> CallRecords]
      /\ call[c].pc = "sagaStep" /\ UNCHANGED <<stage, leg, ops>> /\ stage \in BOOLEAN
      /\ stream \in Seq(TransferEvents) /\ 1 \in Ops
  BY SoleFacts DEF AppendSagaStep
<1>1. PICK e \in DOMAIN StateAfter : e = call[c].event
  BY <1>0 DEF SoleCallKnows
<1>2. /\ Ahead(e) /\ currentState(stream) # "unknown"
      /\ e \in {"TransferStaged", "TransferPending"} => stage
      /\ e = "TransferFailed" => MayFail
  BY <1>0, <1>1 DEF SoleCallKnows
<1>3. stream' = Append(stream, e)
  <2>1. ~Recorded(e)
    BY <1>0, <1>2 DEF SoleShared, FactsRanked
  <2>2. ~(stream # << >> /\ stream[Len(stream)] = e)
    BY <1>0, <2>1 DEF Recorded
  <2> QED BY <1>1, <2>2 DEF AppendSagaStep
<1>4. SoleShared'
  BY <1>0, <1>2, <1>3, FactIsAhead
<1>5. CASE e = "TransferFailed" /\ Walk(c, Interrupted(c))
  <2>1. PICK f \in {"TransferStaged", "TransferCommitted"} : f = Interrupted(c)
    BY DEF Interrupted
  <2>2. call'[c].pc = "operations" /\ call'[c].op = 1 /\ call'[c].event = f
    BY <1>0, <1>5, <2>1, WalkEffect DEF TransferEvents
  <2>3. ops'[1] = "Failed"
    BY <1>0, <1>1, <1>5 DEF CallKnows, OutcomeEvents, WalkEvents, OpFact
  <2>4. SoleCallKnows(c)'
    BY <2>2, <2>3 DEF SoleCallKnows
  <2> QED BY <1>4, <2>4 DEF SoleStep
<1>6. CASE Goto(c, "runSaga") \/ Goto(c, "postReload") \/ Return(c, "ok")
  BY <1>4, <1>6, ReleaseSole DEF Replies
<1> QED BY <1>1, <1>5, <1>6 DEF AppendSagaStep

\* cancelPrepared folds the stream and decides on what it finds.
LEMMA CancelPreparedSole == ASSUME Inv, SoleInv, NEW c \in Calls, CancelPrepared(c) PROVE SoleStep(c)
<1>0. SoleShared' /\ UNCHANGED <<stream, stage>>
  BY SoleFacts, QuietSole DEF CancelPrepared, store
<1>1. CASE Return(c, "ok") \/ Return(c, "error")
  BY <1>0, <1>1, ReleaseSole DEF Replies
<1>2. CASE currentState(stream) = "accepted" /\ Step(c, "AcceptedTransferCancelled")
  <2>1. Ahead("AcceptedTransferCancelled")
    BY <1>2 DEF Ahead, Rank, StateAfter
  <2> QED BY <1>0, <1>2, <2>1, TowardsSole DEF StateAfter, TransferEvents
<1>3. CASE currentState(stream) = "prepared" /\ Walk(c, "PreparedTransferCancelled")
  <2>1. Ahead("PreparedTransferCancelled")
    BY <1>3 DEF Ahead, Rank, StateAfter
  <2> QED BY <1>0, <1>3, <2>1, TowardsSole DEF StateAfter, TransferEvents
<1> QED BY <1>1, <1>2, <1>3 DEF CancelPrepared

\* Steps that only read, and the death of the call.
LEMMA ReadingSole ==
    ASSUME Inv, SoleInv, NEW c \in Calls, PrepareConverge(c) \/ PostReload(c) \/ Crash(c)
    PROVE  SoleStep(c)
<1>0. SoleShared'
  BY SoleFacts, QuietSole DEF PrepareConverge, PostReload, Crash, store
<1>1. PrepareConverge(c) => SoleStep(c)
  BY <1>0, ReleaseSole DEF PrepareConverge, Replies
<1>2. PostReload(c) => SoleStep(c)
  BY <1>0, ReleaseSole DEF PostReload, Replies
<1>3. Crash(c) => SoleStep(c)
  BY <1>0, ReleaseSole DEF Crash, Replies
<1> QED BY <1>1, <1>2, <1>3

\* A reservation times out: it was not moved, so no leg was.
LEMMA ExpireSole == ASSUME Inv, SoleInv, NEW l \in Legs, Expire(l) PROVE SoleInv'
<1>1. /\ SoleShared /\ leg \in [Legs -> LegStates] /\ leg[l] = "pending"
      /\ leg' = [leg EXCEPT ![l] = "expired"] /\ UNCHANGED <<stream, stage, ops, call>>
  BY DEF SoleInv, Inv, TypeOK, Expire, store
<1>2. NoneMoved
  BY <1>1 DEF SoleShared, LegsFollow, AllMoved, Moved
<1>3. NoneMoved'
  BY <1>1, <1>2 DEF NoneMoved, Moved
<1>4. LegsFollow'
  BY <1>1, <1>3 DEF SoleShared, LegsFollow
<1>5. FactsRanked' /\ RecordedOnce' /\ FailedKept'
  BY <1>1, <1>3 DEF SoleShared, FactsRanked, RecordedOnce, FailedKept, FailedMovedNothing, Recorded, Ahead, NoneMoved
<1>6. ASSUME NEW c \in Calls PROVE SoleCallKnows(c)'
  BY <1>1, <1>3 DEF SoleInv, SoleCallKnows, Ahead, MayFail
<1> QED BY <1>4, <1>5, <1>6 DEF SoleInv, SoleShared

\* A step of a running call touches no other call.
LEMMA CallStepIsLocal ==
    ASSUME Inv, NEW c \in Calls, CallStep(c)
    PROVE  OthersKeep(c) /\ call[c].pc # "idle"
<1>0. call \in [Calls -> CallRecords]
  BY DEF Inv, TypeOK
<1> USE DEF Goto, Return, Walk, Submit, Decide, Step, NextOperation
<1>1. CASE LoadRequest(c) \/ LoadCancelAccepted(c)
  BY <1>0, <1>1 DEF LoadRequest, LoadCancelAccepted, OthersKeep
<1>2. CASE LoadConfirmStaged(c)
  BY <1>0, <1>2 DEF LoadConfirmStaged, OthersKeep
<1>3. CASE LoadCancelStaged(c)
  BY <1>0, <1>3 DEF LoadCancelStaged, OthersKeep
<1>4. CASE LoadPostPending(c)
  BY <1>0, <1>4 DEF LoadPostPending, OthersKeep
<1>5. CASE TryAppend(c)
  BY <1>0, <1>5 DEF TryAppend, OthersKeep
<1>6. CASE RunSaga(c)
  BY <1>0, <1>6 DEF RunSaga, OthersKeep
<1>7. CASE Prepare(c) \/ PrepareAppend(c) \/ PrepareConverge(c)
  BY <1>0, <1>7 DEF Prepare, PrepareAppend, PrepareConverge, OthersKeep
<1>8. CASE Commit(c) \/ SubmitOK(c) \/ SubmitRejected(c)
  BY <1>0, <1>8 DEF Commit, SubmitOK, SubmitRejected, OthersKeep
<1>9. CASE AdvanceOperation(c) \/ PostReload(c)
  BY <1>0, <1>9 DEF AdvanceOperation, PostReload, OthersKeep
<1>10. CASE AppendSagaStep(c)
  BY <1>0, <1>10 DEF AppendSagaStep, OthersKeep
<1>11. CASE CancelPrepared(c)
  BY <1>0, <1>11 DEF CancelPrepared, OthersKeep
<1> QED BY <1>1, <1>2, <1>3, <1>4, <1>5, <1>6, <1>7, <1>8, <1>9, <1>10, <1>11 DEF CallStep

\* Every step of a Transfer whose calls do not overlap.
LEMMA NextSole == ASSUME NoOverlap, NoOverlap', Inv, SoleInv, [Next]_vars PROVE SoleInv'
<1>0. call \in [Calls -> CallRecords]
  BY DEF Inv, TypeOK
<1>1. ASSUME NEW c \in Calls, SoleStep(c), OthersKeep(c), call[c].pc # "idle" \/ call'[c].pc # "idle"
      PROVE  SoleInv'
  <2>1. ASSUME NEW d \in Calls, d # c PROVE SoleCallKnows(d)'
    <3>1. call'[d].pc = "idle"
      BY <1>1, <2>1 DEF NoOverlap, OthersKeep
    <3> QED BY <3>1, FreeCallSole
  <2> QED BY <1>1, <2>1 DEF SoleStep, SoleInv
<1>2. ASSUME NEW c \in Calls, CallStep(c) PROVE SoleInv'
  <2>1. SoleStep(c)
    BY <1>2, LoadRequestSole, LoadSole, TryAppendSole, RunSagaSole, PrepareSole, PrepareAppendSole,
       CommitSole, SubmitOKSole, SubmitRejectedSole, AdvanceOperationSole, AppendSagaStepSole,
       CancelPreparedSole, ReadingSole
    DEF CallStep
  <2>2. OthersKeep(c) /\ call[c].pc # "idle"
    BY <1>2, CallStepIsLocal
  <2> QED BY <1>1, <2>1, <2>2
<1>4. ASSUME NEW c \in Calls, Crash(c) PROVE SoleInv'
  <2>1. SoleStep(c) /\ OthersKeep(c) /\ call[c].pc # "idle"
    BY <1>0, <1>4, ReadingSole, ReturnEffect DEF Crash, Replies
  <2> QED BY <1>1, <2>1
<1>5. ASSUME NEW c \in Calls, NEW r \in RPCs, Start(c, r) PROVE SoleInv'
  <2>1. SoleStep(c) /\ OthersKeep(c) /\ call'[c].pc # "idle"
    BY <1>0, <1>5, StartSole DEF Start, Send, Idle, OthersKeep
  <2> QED BY <1>1, <2>1
<1>3. ASSUME UNCHANGED vars PROVE SoleInv'
  <2>1. SoleShared' /\ UNCHANGED <<stream, stage, ops, leg, call>>
    BY <1>3, QuietSole DEF SoleInv, vars
  <2>2. ASSUME NEW c \in Calls PROVE SoleCallKnows(c)'
    BY <2>1 DEF SoleInv, SoleCallKnows, Ahead, MayFail, NoneMoved
  <2> QED BY <2>1, <2>2 DEF SoleInv
<1> QED BY <1>2, <1>3, <1>4, <1>5, ExpireSole DEF Next

\* Nothing is recorded, submitted or running.
LEMMA SoleInit == ASSUME Init PROVE SoleInv
<1>1. currentState(stream) = "unknown" /\ DOMAIN stream = {}
  BY EmptyIsUnknown DEF Init
<1>2. FactsRanked /\ RecordedOnce /\ FailedKept
  BY <1>1 DEF FactsRanked, RecordedOnce, FailedKept, FailedMovedNothing, Recorded
<1>3. LegsFollow
  BY <1>1 DEF Init, LegsFollow, NoneMoved, Moved
<1>4. ASSUME NEW c \in Calls PROVE SoleCallKnows(c)
  BY DEF Init, Idle, SoleCallKnows
<1> QED BY <1>2, <1>3, <1>4 DEF SoleInv, SoleShared

\* Both invariants of a Transfer whose calls do not overlap.
LEMMA SoleInvHolds == Spec /\ []NoOverlap => [](Inv /\ SoleInv)
<1>1. Init => Inv /\ SoleInv
  BY InitEstablishes, SoleInit
<1>2. Inv /\ SoleInv /\ NoOverlap /\ NoOverlap' /\ [Next]_vars => (Inv /\ SoleInv)'
  BY NextPreserves, NextSole
<1> QED BY <1>1, <1>2, PTL DEF Spec

\* In a behaviour whose calls never overlap, a resumed saga never records a step
\* again, wherever earlier calls died (prepare, appendSagaStep).
THEOREM AlwaysRecordedOnce == Spec /\ []NoOverlap => []RecordedOnce
<1>1. Inv /\ SoleInv => RecordedOnce
  BY DEF SoleInv, SoleShared
<1> QED BY <1>1, SoleInvHolds, PTL

\* In a behaviour whose calls never overlap, and where the ledger recognises a
\* replayed batch (one leg, or FakeClient), compensate fails only Transfers whose
\* money has not moved, and it stays that way.
THEOREM FailedNeverMoved == ASSUME Recognised PROVE Spec /\ []NoOverlap => []FailedMovedNothing
<1>1. Inv /\ SoleInv => FailedMovedNothing
  BY DEF SoleInv, SoleShared, FailedKept
<1> QED BY <1>1, SoleInvHolds, PTL

\* In a behaviour whose calls never overlap, nothing takes a Transfer out of the
\* terminal states of runSaga.
THEOREM TerminalStaysFinal == Spec /\ []NoOverlap => TerminalIsFinal
<1>1. ASSUME Inv, SoleInv, [Next]_vars, currentState(stream) \in TerminalStates
      PROVE  currentState(stream') = currentState(stream)
  <2>0. ASSUME stream' = stream PROVE currentState(stream') = currentState(stream)
    BY <2>0
  <2>1. \A e \in DOMAIN StateAfter : ~Ahead(e)
    <3>1. Rank[currentState(stream)] = 5
      BY <1>1 DEF Rank, TerminalStates
    <3> QED BY <3>1, RankFacts DEF Ahead
  <2>2. ASSUME NEW c \in Calls, CallStep(c) PROVE currentState(stream') = currentState(stream)
    <3>0. SoleCallKnows(c) /\ CallKnows(c) /\ stream \in Seq(TransferEvents)
      BY <1>1, SoleFacts
    <3>1. CASE TryAppend(c)
      <4>1. CASE stream' = Append(stream, call[c].event)
        <5>1. PICK e \in Refusals : e = call[c].event
          BY <1>1, <3>0, <3>1 DEF CallKnows, SoleCallKnows, TryAppend, TerminalStates
        <5>2. e \in TransferEvents /\ e \notin DOMAIN StateAfter
          BY DEF Refusals, TransferEvents, StateAfter
        <5> QED BY <3>0, <4>1, <5>1, <5>2, StateAfterAppend
      <4> QED BY <2>0, <3>1, <4>1 DEF TryAppend
    <3>2. CASE PrepareAppend(c)
      BY <1>1, <3>0, <3>2 DEF SoleCallKnows, PrepareAppend, TerminalStates
    <3>3. CASE AppendSagaStep(c)
      BY <2>1, <3>0, <3>3 DEF SoleCallKnows, AppendSagaStep
    <3>4. CASE \/ LoadRequest(c) \/ LoadCancelAccepted(c) \/ LoadConfirmStaged(c) \/ LoadCancelStaged(c)
               \/ LoadPostPending(c) \/ RunSaga(c) \/ Prepare(c) \/ PrepareConverge(c) \/ Commit(c)
               \/ SubmitOK(c) \/ SubmitRejected(c) \/ AdvanceOperation(c) \/ PostReload(c)
               \/ CancelPrepared(c)
      BY <2>0, <3>4 DEF LoadRequest, LoadCancelAccepted, LoadConfirmStaged, LoadCancelStaged,
         LoadPostPending, RunSaga, Prepare, PrepareConverge, Commit, SubmitOK, SubmitRejected,
         AdvanceOperation, PostReload, CancelPrepared, store
    <3> QED BY <2>2, <3>1, <3>2, <3>3, <3>4 DEF CallStep
  <2>3. ASSUME NEW c \in Calls, Crash(c) \/ \E r \in RPCs : Start(c, r)
        PROVE  currentState(stream') = currentState(stream)
    BY <2>0, <2>3 DEF Crash, Start, Send, store
  <2>4. ASSUME NEW l \in Legs, Expire(l) PROVE currentState(stream') = currentState(stream)
    BY <2>0, <2>4 DEF Expire, store
  <2> QED BY <1>1, <2>0, <2>2, <2>3, <2>4 DEF Next, vars
<1>2. Inv /\ SoleInv /\ [Next]_vars =>
        [currentState(stream) \in TerminalStates => currentState(stream') = currentState(stream)]_vars
  BY <1>1
<1> QED BY <1>2, SoleInvHolds, PTL DEF Spec, TerminalIsFinal
=============================================================================
