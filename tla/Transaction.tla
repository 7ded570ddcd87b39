----------------------------- MODULE Transaction -----------------------------
(***************************************************************************)
(* One Transaction of the backend, go/internal/transaction: a DAG of child   *)
(* Transfers that is dispatched in dependency order and, when a child fails  *)
(* or an operator asks, undone in the reverse order.                         *)
(*                                                                           *)
(* The stream is kept as what the code folds it to: the last top-level       *)
(* event, the last event of every child, and the (type, child) pairs that    *)
(* appendSagaStep looks for.  A call takes one step per store round trip or   *)
(* Transfer RPC and decides from what it read at the top of runSaga's loop.   *)
(* Children and their reversals are seen through transfer.Outcome.  Their     *)
(* RPCs are atomic here and their terminal outcomes final: TransferSaga has   *)
(* what happens when calls on one Transfer overlap.                           *)
(***************************************************************************)
EXTENDS FiniteSets, Naturals

CONSTANTS
    Calls,         \* slots for concurrently running RPC calls
    Children,      \* the Transfer ids a request may use
    NoChild,       \* what childEventTransferID answers for a top-level event
    Requests,      \* the specifications clients send: [ids, deps], the id inside
                   \* each entry of transfers, and transfer_dependency
    Invalid,       \* children whose specification RequestTransfer refuses with
                   \* InvalidArgument, and so on every attempt
    AutoProcess,   \* children whose auto_process flag is set
    Staged,        \* children whose stage flag is set
    RPCs,          \* the RPCs in use besides the initialization
    MaxCrashes     \* bound on calls that die half-way

ASSUME TransactionAssumption ==
    /\ NoChild \notin Children
    /\ \A r \in Requests : DOMAIN r.ids \subseteq Children /\ IsFiniteSet(DOMAIN r.ids)
    /\ Invalid \subseteq Children
    /\ AutoProcess \subseteq Children
    /\ Staged \subseteq Children
    /\ RPCs \subseteq {"StartProcessingTransfer", "ResumeTransaction", "StartTransactionRollback"}
    /\ MaxCrashes \in Nat

VARIABLES
    top,        \* topLevelState: the last top-level event
    child,      \* foldChildStates: per child, its last event
    recorded,   \* the (type, child) pairs on the stream
    deps,       \* per transfer of the TransactionInitialized event, its parents
    out,        \* transfer.Outcome of every child
    rev,        \* transfer.Outcome of every child's reversal
    call,       \* per slot, the running call's program counter and locals
    crashes     \* calls that died so far

stream == <<top, child, recorded, deps>>
vars == <<stream, out, rev, call, crashes>>

TopStates == {"Unknown", "Rejected", "Initialized", "Started", "RollbackStarted",
              "Completed", "RolledBack", "RollbackFailed"}
Closed == {"Completed", "RolledBack", "Rejected"}
Terminal == {"Completed", "RolledBack", "RollbackFailed", "Rejected"}

ChildStates == {"Untouched", "Gated", "Requested", "Completed", "Failed",
                "RolledBack", "RollbackFailed"}

\* "staged" is Staged or Pending: no code here tells them apart.
Outcomes == {"none", "rejected", "inflight", "staged", "committed", "failed", "cancelled"}

-----------------------------------------------------------------------------
(* The DAG.                                                                  *)

\* The parents of every transfer; one without an entry has none.
parentsOf(r) == [c \in DOMAIN r.ids |-> IF c \in DOMAIN r.deps THEN r.deps[c] ELSE {}]

\* Every transfer under its own id, and no reference to an unknown one.
References(r) ==
    /\ \A c \in DOMAIN r.ids : r.ids[c] = c
    /\ DOMAIN r.deps \subseteq DOMAIN r.ids
    /\ \A c \in DOMAIN r.deps : r.deps[c] \subseteq DOMAIN r.ids

\* Mutant: a root is taken for proof that there is no cycle.
Acyclic_RootExists(d) == \E c \in DOMAIN d : d[c] = {}

\* Kahn's algorithm: what n rounds of processing zero-in-degree nodes reach.
Acyclic(d) ==
    LET transfers == DOMAIN d
        processed[n \in 0..Cardinality(transfers)] ==
            IF n = 0 THEN {} ELSE {c \in transfers : d[c] \subseteq processed[n - 1]}
    IN  processed[Cardinality(transfers)] = transfers

validateDAG(r) == DOMAIN r.ids # {} /\ References(r) /\ Acyclic(parentsOf(r))

\* Mutant: parents need not have completed.
readyToRun_IgnoresParents(states) ==
    {c \in DOMAIN deps : states[c] = "Untouched"}

readyToRun(states) ==
    {c \in DOMAIN deps : /\ states[c] = "Untouched"
                         /\ \A p \in deps[c] : states[p] = "Completed"}

\* Touched and not rolled back yet.
Active(states, c) == states[c] \notin {"Untouched", "RolledBack"}

\* Mutant: rolls back every touched child at once.
readyToRollback_AnyOrder(states) == {c \in DOMAIN deps : Active(states, c)}

readyToRollback(states) ==
    {c \in DOMAIN deps : /\ Active(states, c)
                         /\ \A d \in DOMAIN deps : Active(states, d) => c \notin deps[d]}

\* Mutant: children that are still in flight count as done.
allTerminal_InFlightIsDone(states) ==
    \A c \in DOMAIN deps : states[c] \in {"Requested", "Completed"}

allTerminal(states) == \A c \in DOMAIN deps : states[c] = "Completed"

\* What another Transfer that wants to spend a Token this Transaction tagged
\* is told: its Tokens are protected until it is closed.
IsOpen == top \notin Closed

-----------------------------------------------------------------------------
(* Calls.                                                                    *)

PCs == {"idle", "runSaga", "append", "reconcile", "dispatch", "request", "record",
        "rollback", "reverse", "reverseOutcome", "cancelStaged", "cancelAccepted"}

Untouched == [c \in Children |-> "Untouched"]

Idle ==
    [pc |-> "idle", seen |-> Untouched, todo |-> {}, progressed |-> FALSE,
     cur |-> NoChild, event |-> "none", back |-> "idle"]

CallRecords ==
    [pc         : PCs,
     seen       : [Children -> ChildStates],     \* children at the top of the loop
     todo       : SUBSET Children,               \* rest of the current sweep
     progressed : BOOLEAN,
     cur        : Children \union {NoChild},     \* child in hand
     event      : TopStates \union ChildStates \union {"none"},
     back       : PCs]                           \* where to go after recording

Return(k) == call' = [call EXCEPT ![k] = Idle]
Loop(k) == call' = [call EXCEPT ![k] = [Idle EXCEPT !.pc = "runSaga"]]

\* About to append a top-level event.
AppendTop(k, e) == call' = [call EXCEPT ![k] = [Idle EXCEPT !.pc = "append", !.event = e]]

\* About to record what became of the child in hand.
Record(k, e) == call' = [call EXCEPT ![k].pc = "record", ![k].event = e]

\* Done with child c of this sweep.
NextChild(k, c) ==
    call' = [call EXCEPT ![k].pc = call[k].back, ![k].todo = @ \ {c}, ![k].cur = NoChild,
                         ![k].event = "none", ![k].progressed = TRUE]

\* Take child c in hand and go on at pc.
TakeChild(k, c, pc) ==
    call' = [call EXCEPT ![k].pc = pc, ![k].cur = c]

\* Start a sweep over a set of children.
Sweep(k, pc, states, todo) ==
    call' = [call EXCEPT ![k] = [Idle EXCEPT !.pc = pc, !.back = pc, !.seen = states, !.todo = todo]]

\* appendSagaStep: recorded once per (type, child), whatever the stream says by
\* now; the last event recorded decides the fold.
AppendSagaStep(e, c) ==
    /\ recorded' = recorded \union {<<e, c>>}
    /\ top' = IF c = NoChild /\ <<e, c>> \notin recorded THEN e ELSE top
    /\ child' = IF c # NoChild /\ <<e, c>> \notin recorded
                  THEN [child EXCEPT ![c] = e] ELSE child
    /\ UNCHANGED deps

Init ==
    /\ top = "Unknown"
    /\ child = Untouched
    /\ recorded = {}
    /\ deps = << >>
    /\ out = [c \in Children |-> "none"]
    /\ rev = [c \in Children |-> "none"]
    /\ call = [k \in Calls |-> Idle]
    /\ crashes = 0

-----------------------------------------------------------------------------
(* The RPCs.  A call that is refused changes nothing and is left out.         *)

\* StartInitializingTransaction decides a new id; its append expects an empty
\* stream and a lost race finds the id decided.
StartInitializingTransaction(k, r) ==
    /\ call[k].pc = "idle" /\ top = "Unknown"
    /\ IF validateDAG(r)
         THEN top' = "Initialized" /\ deps' = parentsOf(r) /\ Loop(k)
         ELSE top' = "Rejected" /\ UNCHANGED <<deps, call>>
    /\ recorded' = {<<top', NoChild>>}
    /\ UNCHANGED <<child, out, rev, crashes>>

\* ResumeTransaction, and StartInitializingTransaction of a decided id, re-run
\* the saga.
ResumeTransaction(k) ==
    /\ call[k].pc = "idle" /\ top \notin {"Unknown", "Rejected"}
    /\ Loop(k)
    /\ UNCHANGED <<stream, out, rev, crashes>>

\* StartProcessingTransfer looks at the child alone, not at the Transaction.
StartProcessingTransfer(k, c) ==
    /\ call[k].pc = "idle" /\ c \in DOMAIN deps /\ child[c] = "Gated"
    /\ call' = [call EXCEPT ![k].pc = "request", ![k].cur = c, ![k].back = "runSaga"]
    /\ UNCHANGED <<stream, out, rev, crashes>>

\* Mutant: rolls back whatever state the Transaction is in.
StartTransactionRollback_AnyState(k) ==
    /\ call[k].pc = "idle" /\ top \notin {"Unknown", "Rejected"}
    /\ AppendTop(k, "RollbackStarted")
    /\ UNCHANGED <<stream, out, rev, crashes>>

StartTransactionRollback(k) ==
    /\ call[k].pc = "idle" /\ top = "Started"
    /\ AppendTop(k, "RollbackStarted")
    /\ UNCHANGED <<stream, out, rev, crashes>>

Start(k, r) ==
    \/ r = "ResumeTransaction" /\ ResumeTransaction(k)
    \/ r = "StartTransactionRollback" /\ StartTransactionRollback(k)
    \/ r = "StartProcessingTransfer" /\ \E c \in Children : StartProcessingTransfer(k, c)

-----------------------------------------------------------------------------
(* The saga.                                                                 *)

\* The top of runSaga's loop: one read of the stream, which every decision of
\* this turn is made from.
RunSaga(k) ==
    /\ call[k].pc = "runSaga"
    /\ CASE top = "Initialized"     -> AppendTop(k, "Started")
         [] top = "Started"         -> Sweep(k, "reconcile", child,
                                             {c \in Children : child[c] = "Requested"})
         [] top = "RollbackStarted" -> Sweep(k, "rollback", child,
                                             {c \in readyToRollback(child) : child[c] # "RollbackFailed"})
         [] OTHER                   -> Return(k)
    /\ UNCHANGED <<stream, out, rev, crashes>>

AppendTopLevel(k) ==
    /\ call[k].pc = "append"
    /\ AppendSagaStep(call[k].event, NoChild)
    /\ Loop(k)
    /\ UNCHANGED <<out, rev, crashes>>

\* Mutant: a staged child counts as settled.
Reconcile_StagedIsDone(k) ==
    /\ call[k].pc = "reconcile"
    /\ \E c \in call[k].todo :
         \/ /\ out[c] \in {"staged", "committed"}
            /\ AppendSagaStep("Completed", c) /\ NextChild(k, c)
         \/ /\ out[c] \in {"failed", "cancelled"}
            /\ AppendSagaStep("Failed", c) /\ NextChild(k, c)
         \/ /\ out[c] = "inflight"
            /\ call' = [call EXCEPT ![k].todo = @ \ {c}]
            /\ UNCHANGED stream
    /\ UNCHANGED <<out, rev, crashes>>

\* Mutant: waits for a child that was cancelled.
Reconcile_CancelledWaits(k) ==
    /\ call[k].pc = "reconcile"
    /\ \E c \in call[k].todo :
         \/ out[c] = "committed" /\ AppendSagaStep("Completed", c) /\ NextChild(k, c)
         \/ out[c] = "failed" /\ AppendSagaStep("Failed", c) /\ NextChild(k, c)
         \/ /\ out[c] \in {"inflight", "staged", "cancelled"}
            /\ call' = [call EXCEPT ![k].todo = @ \ {c}]
            /\ UNCHANGED stream
    /\ UNCHANGED <<out, rev, crashes>>

\* reconcileInFlight: record how a requested child settled, if it has.
Reconcile(k) ==
    /\ call[k].pc = "reconcile"
    /\ \E c \in call[k].todo :
         \/ /\ out[c] = "committed"
            /\ AppendSagaStep("Completed", c) /\ NextChild(k, c)
         \/ /\ out[c] \in {"failed", "cancelled"}
            /\ AppendSagaStep("Failed", c) /\ NextChild(k, c)
         \/ /\ out[c] \in {"inflight", "staged"}
            /\ call' = [call EXCEPT ![k].todo = @ \ {c}]
            /\ UNCHANGED stream
    /\ UNCHANGED <<out, rev, crashes>>

\* Everything reconciled: loop again, or decide from the children as read.
Reconciled(k) ==
    /\ call[k].pc = "reconcile" /\ call[k].todo = {}
    /\ LET seen == call[k].seen IN
         CASE call[k].progressed -> Loop(k)
           [] ~call[k].progressed /\ (\E c \in Children : seen[c] = "Failed")
                -> AppendTop(k, "RollbackStarted")
           [] ~call[k].progressed /\ allTerminal(seen)
                -> AppendTop(k, "Completed")
           [] OTHER
                -> IF readyToRun(seen) = {} THEN Return(k)
                     ELSE Sweep(k, "dispatch", seen, readyToRun(seen))
    /\ UNCHANGED <<stream, out, rev, crashes>>

\* dispatchReady: the ready children one by one, in the map's order.
Dispatch(k) ==
    /\ call[k].pc = "dispatch"
    /\ \E c \in call[k].todo :
         \/ c \in AutoProcess /\ TakeChild(k, c, "request") /\ UNCHANGED stream
         \/ c \notin AutoProcess /\ AppendSagaStep("Gated", c) /\ NextChild(k, c)
    /\ UNCHANGED <<out, rev, crashes>>

\* What driving the saga of child c, or of its reversal, can end in; it stops
\* at "inflight" when that saga returns an error.
Driven(c) == {"inflight", "committed", "failed"} \union (IF c \in Staged THEN {"staged"} ELSE {})

\* requestChildTransfer, the RPC: decide the child or resume it.  An error of
\* its own ends the whole run, and the stream keeps no trace of it.
RequestChild(k) ==
    /\ call[k].pc = "request"
    /\ LET c == call[k].cur IN
         \/ /\ c \in Invalid
            /\ UNCHANGED out
            /\ Return(k)
         \/ /\ c \notin Invalid /\ out[c] \in {"none", "rejected"}
            /\ out' = [out EXCEPT ![c] = "rejected"]
            /\ Record(k, "Failed")
         \/ /\ c \notin Invalid /\ out[c] \in {"none", "inflight"}
            /\ \E o \in Driven(c) : out' = [out EXCEPT ![c] = o]
            /\ Record(k, "Requested")
         \/ /\ out[c] \in {"staged", "committed", "failed", "cancelled"}
            /\ UNCHANGED out
            /\ Record(k, "Requested")
    /\ UNCHANGED <<stream, rev, crashes>>

\* requestChildTransfer and rollbackChild, the record.
RecordChild(k) ==
    /\ call[k].pc = "record"
    /\ AppendSagaStep(call[k].event, call[k].cur)
    /\ NextChild(k, call[k].cur)
    /\ UNCHANGED <<out, rev, crashes>>

\* The sweep is over: it made progress, or had nothing to do.
SweepDone(k) ==
    /\ call[k].pc \in {"dispatch", "rollback"} /\ call[k].todo = {}
    /\ IF call[k].progressed THEN Loop(k)
         ELSE AppendTop(k, IF \E c \in Children : call[k].seen[c] = "RollbackFailed"
                             THEN "RollbackFailed" ELSE "RolledBack")
    /\ UNCHANGED <<stream, out, rev, crashes>>

-----------------------------------------------------------------------------
(* Rollback.                                                                 *)

\* Where rollbackChild goes for a child of this live outcome.
UndoOf(o) ==
    CASE o = "committed" -> "reverse"
      [] o = "staged"    -> "cancelStaged"
      [] o = "inflight"  -> "cancelAccepted"

\* Mutant: a child whose outcome was not recorded yet is abandoned.
RollbackChild_AbandonsRequested(k) ==
    /\ call[k].pc = "rollback"
    /\ \E c \in call[k].todo :
         \/ /\ call[k].seen[c] # "Completed"
            /\ AppendSagaStep("RolledBack", c) /\ NextChild(k, c)
         \/ /\ call[k].seen[c] = "Completed"
            /\ TakeChild(k, c, UndoOf(out[c]))
            /\ UNCHANGED stream
    /\ UNCHANGED <<out, rev, crashes>>

\* rollbackChild: nothing to undo, or undo it by its live outcome.
RollbackChild(k) ==
    /\ call[k].pc = "rollback"
    /\ \E c \in call[k].todo :
         \/ /\ \/ call[k].seen[c] \notin {"Requested", "Completed"}
               \/ out[c] \in {"failed", "cancelled"}
            /\ AppendSagaStep("RolledBack", c) /\ NextChild(k, c)
         \/ /\ call[k].seen[c] \in {"Requested", "Completed"}
            /\ out[c] \in {"committed", "staged", "inflight"}
            /\ TakeChild(k, c, UndoOf(out[c]))
            /\ UNCHANGED stream
    /\ UNCHANGED <<out, rev, crashes>>

\* RequestReversal under its deterministic id: accepted, since the child is
\* committed, and driven; or resumed.
RequestReversal(k) ==
    /\ call[k].pc = "reverse"
    /\ LET c == call[k].cur IN
         \/ /\ rev[c] \in {"none", "inflight"}
            /\ \E o \in Driven(c) : rev' = [rev EXCEPT ![c] = o]
         \/ rev[c] \notin {"none", "inflight"} /\ UNCHANGED rev
    /\ call' = [call EXCEPT ![k].pc = "reverseOutcome"]
    /\ UNCHANGED <<stream, out, crashes>>

\* The reversal counts only if it is seen committed.
ReversalOutcome(k) ==
    /\ call[k].pc = "reverseOutcome"
    /\ LET c == call[k].cur IN
         /\ AppendSagaStep(IF rev[c] = "committed" THEN "RolledBack" ELSE "RollbackFailed", c)
         /\ NextChild(k, c)
    /\ UNCHANGED <<out, rev, crashes>>

\* CancelStagedTransfer: cancelled; refused, when the child was settled
\* meanwhile; or an error, when its reservation had timed out.
CancelStagedChild(k) ==
    /\ call[k].pc = "cancelStaged"
    /\ LET c == call[k].cur IN
         \/ /\ out[c] \in {"staged", "cancelled"}
            /\ out' = [out EXCEPT ![c] = "cancelled"]
            /\ Record(k, "RolledBack")
         \/ /\ out[c] \in {"committed", "failed"}
            /\ UNCHANGED out
            /\ Record(k, "RollbackFailed")
         \/ /\ out[c] = "staged"
            /\ UNCHANGED out
            /\ Return(k)
    /\ UNCHANGED <<stream, rev, crashes>>

\* CancelAcceptedTransfer: cancelled, or an error when the child has moved on.
CancelAcceptedChild(k) ==
    /\ call[k].pc = "cancelAccepted"
    /\ LET c == call[k].cur IN
         \/ /\ out[c] \in {"inflight", "cancelled"}
            /\ out' = [out EXCEPT ![c] = "cancelled"]
            /\ Record(k, "RolledBack")
         \/ /\ out[c] \in {"staged", "committed", "failed"}
            /\ UNCHANGED out
            /\ Return(k)
    /\ UNCHANGED <<stream, rev, crashes>>

-----------------------------------------------------------------------------
(* The environment.                                                          *)

\* Where a Transfer's own clients can take it from outcome o: on with its saga,
\* to its confirmation and posting, or to its cancellation.
SettledFrom(o, c) ==
    IF o = "inflight" THEN (Driven(c) \ {"inflight"}) \union {"cancelled"}
                      ELSE {"committed", "failed", "cancelled"}

Settle(c) ==
    /\ out[c] \in {"inflight", "staged"}
    /\ \E o \in SettledFrom(out[c], c) : out' = [out EXCEPT ![c] = o]
    /\ UNCHANGED <<stream, rev, call, crashes>>

\* The "staged-settlement RPC" that a client owes a staged child.
SettleStaged(c) == out[c] = "staged" /\ Settle(c)

SettleReversal(c) ==
    /\ rev[c] \in {"inflight", "staged"}
    /\ \E o \in SettledFrom(rev[c], c) : rev' = [rev EXCEPT ![c] = o]
    /\ UNCHANGED <<stream, out, call, crashes>>

\* The process dies, or a store or Transfer call of this handler fails.
Crash(k) ==
    /\ call[k].pc # "idle"
    /\ crashes < MaxCrashes
    /\ crashes' = crashes + 1
    /\ Return(k)
    /\ UNCHANGED <<stream, out, rev>>

\* One step of a running call.
CallStep(k) ==
    \/ RunSaga(k) \/ AppendTopLevel(k) \/ Reconcile(k) \/ Reconciled(k)
    \/ Dispatch(k) \/ RequestChild(k) \/ RecordChild(k) \/ SweepDone(k)
    \/ RollbackChild(k) \/ RequestReversal(k) \/ ReversalOutcome(k)
    \/ CancelStagedChild(k) \/ CancelAcceptedChild(k)

Next ==
    \/ \E k \in Calls : \/ CallStep(k) \/ Crash(k)
                        \/ \E r \in Requests : StartInitializingTransaction(k, r)
                        \/ \E r \in RPCs : Start(k, r)
    \/ \E c \in Children : Settle(c) \/ SettleReversal(c)

Spec == Init /\ [][Next]_vars

\* Calls run on, operators resume the Transaction and release its gated
\* children, and clients settle every staged child.  Nothing in the code drives
\* a requested child that is in flight, and nothing is assumed to: its clients
\* may move it on or not.
FairSpec ==
    /\ Spec
    /\ \A k \in Calls : WF_vars(CallStep(k))
    /\ SF_vars(\E k \in Calls : ResumeTransaction(k))
    /\ SF_vars(\E k \in Calls, c \in Children : StartProcessingTransfer(k, c))
    /\ \A c \in Children : WF_vars(SettleStaged(c))

-----------------------------------------------------------------------------
(* Properties.                                                               *)

\* The folds, the outcomes and the calls' locals stay within their types, and
\* a call about to request a reversal does so for a committed child.
TypeOK ==
    /\ top \in TopStates
    /\ child \in [Children -> ChildStates]
    /\ recorded \subseteq (TopStates \union ChildStates) \X (Children \union {NoChild})
    /\ DOMAIN deps \subseteq Children
    /\ out \in [Children -> Outcomes]
    /\ rev \in [Children -> Outcomes]
    /\ call \in [Calls -> CallRecords]
    /\ \A k \in Calls : call[k].pc \in {"reverse", "reverseOutcome"} => out[call[k].cur] = "committed"
    /\ crashes \in 0..MaxCrashes

Recorded(e, c) == <<e, c>> \in recorded

\* The child's money is moving, reserved or moved, and was not given back.
Standing(c) == out[c] \in {"inflight", "staged", "committed"} /\ rev[c] # "committed"

\* No child Transfer is ever requested before all its parents have committed,
\* however many calls dispatch from stale folds and wherever they die.
ParentsFirst ==
    \A c \in DOMAIN deps : out[c] # "none" => \A p \in deps[c] : out[p] = "committed"

\* What the stream says of a child is what became of the Transfer: Completed
\* and Failed are never both recorded for one child.
ChildFactsHold ==
    \A c \in Children :
        /\ Recorded("Completed", c) => out[c] = "committed"
        /\ Recorded("Failed", c) => out[c] \in {"rejected", "failed", "cancelled"}

\* TransactionCompleted means that every Transfer of the DAG committed.
CompletedIsEarned ==
    Recorded("Completed", NoChild) => \A c \in DOMAIN deps : out[c] = "committed"

\* Every non-empty set of transfers has one that waits for none of the set.
WellFounded(d) ==
    /\ DOMAIN d # {}
    /\ \A c \in DOMAIN d : d[c] \subseteq DOMAIN d
    /\ \A S \in SUBSET DOMAIN d : S # {} => \E c \in S : d[c] \intersect S = {}

\* validateDAG lets in exactly the specifications without a dangling reference
\* whose dependencies are well founded: what is being run can be run to its end,
\* and nothing that could be is turned away.
AcceptedIsAcyclic ==
    /\ top \notin {"Unknown", "Rejected"} => WellFounded(deps)
    /\ \A r \in Requests : References(r) /\ WellFounded(parentsOf(r)) => validateDAG(r)

\* A child is reversed only after every dependent whose request was recorded
\* has been undone (readyToRollback): a dependent that could not be keeps all
\* its ancestors in place.
DependentsFirst ==
    \A c \in Children : rev[c] # "none" =>
        \A d \in DOMAIN deps : c \in deps[d] /\ Recorded("Requested", d) => ~Standing(d)

\* Every child committed and none was, or is being, reversed.
AllDone == \A c \in DOMAIN deps : out[c] = "committed" /\ rev[c] = "none"

\* A Transaction that is no longer open (IsOpen), so that its Tokens are free
\* for others, has carried out all of its children or has given back every one
\* whose request it recorded.
ClosedIsSettled ==
    ~IsOpen => AllDone \/ \A c \in Children : Recorded("Requested", c) => ~Standing(c)

\* The "true terminals" of runSaga are final, whichever RPCs follow and
\* wherever earlier ones died.
TransactionTerminalIsFinal ==
    [][(top \in Terminal) => UNCHANGED top]_vars

\* It waits for a child that only somebody else can move on: one it has
\* requested is in flight, or one it is about to request is invalid.
Stalled ==
    /\ top = "Started"
    /\ \E c \in DOMAIN deps :
          \/ child[c] = "Requested" /\ out[c] = "inflight"
          \/ /\ c \in Invalid /\ child[c] \in {"Untouched", "Gated"}
             /\ \A p \in deps[c] : out[p] = "committed"

\* logSagaError: "The Transaction self-heals".  Resumed often enough, it
\* completes or is rolled back, or stops at a child that cannot be rolled back;
\* what can keep it from there for good is a child in flight or an invalid one.
Settles == top = "Initialized" ~> (top \in Terminal \/ []Stalled)

\* "All-or-nothing", and a closed Transaction has nothing left to reverse: all
\* of its children were carried out or none of them stands.
AllOrNothing == ~IsOpen => AllDone \/ \A c \in Children : ~Standing(c)
=============================================================================
