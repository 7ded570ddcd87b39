-------------------------- MODULE TransactionProofs --------------------------
(***************************************************************************)
(* What Transaction promises for every DAG, every number of children and of *)
(* concurrent calls, and every schedule of crashes.                         *)
(***************************************************************************)
EXTENDS Transaction, Induction, FiniteSetTheorems, TLAPS

\* No saga runs on a Transaction in one of these states.
Undecided == {"Unknown", "Rejected"}

\* Outcomes that no later call or client changes.
Final == {"rejected", "committed", "failed", "cancelled"}

AllCommitted == \A c \in DOMAIN deps : out[c] = "committed"

\* A child of the DAG whose parents have all committed.
Ready(c) == c \in DOMAIN deps /\ \A p \in deps[c] : out[p] = "committed"

\* Program counters of a call that has a child in hand.
Holding == {"request", "record", "reverse", "reverseOutcome", "cancelStaged", "cancelAccepted"}
Sweeping == {"reconcile", "dispatch", "rollback"}

\* The types of what the calls share.
SharedTypes ==
    /\ top \in TopStates
    /\ child \in [Children -> ChildStates]
    /\ recorded \subseteq (TopStates \union ChildStates) \X (Children \union {NoChild})
    /\ DOMAIN deps \subseteq Children
    /\ out \in [Children -> Outcomes]
    /\ rev \in [Children -> Outcomes]
    /\ crashes \in 0..MaxCrashes

\* What the stream and the child Transfers have to do with each other.
Shared ==
    /\ SharedTypes
    /\ \A c \in DOMAIN deps : deps[c] \subseteq DOMAIN deps
    /\ top = "Unknown" => recorded = {}
    /\ top \in Undecided => DOMAIN deps = {} /\ \A c \in Children : out[c] = "none"
    /\ top \notin Undecided => \E r \in Requests : validateDAG(r) /\ deps = parentsOf(r)
    /\ \A c \in Children : child[c] # "Untouched" => Recorded(child[c], c)
    /\ \A c \in Children : Recorded("Gated", c) => Ready(c)
    /\ ParentsFirst
    /\ ChildFactsHold
    /\ CompletedIsEarned

\* What call k knows from the steps it has taken.
CallKnows(k) ==
    /\ call[k].pc = "idle" => call[k] = Idle
    /\ call[k].pc # "idle" => top \notin Undecided
    /\ \A c \in Children : call[k].seen[c] # "Untouched" => Recorded(call[k].seen[c], c)
    /\ call[k].pc \in Holding =>
         call[k].cur \in Children /\ call[k].back \in {"dispatch", "rollback", "runSaga"}
    /\ call[k].pc \in Sweeping => call[k].back = call[k].pc
    /\ call[k].back = "dispatch" => \A c \in call[k].todo : Ready(c)
    /\ call[k].pc = "request" => Ready(call[k].cur)
    /\ call[k].pc = "record" =>
         /\ call[k].event \in {"Requested", "Failed", "RolledBack", "RollbackFailed"}
         /\ call[k].event = "Failed" => out[call[k].cur] = "rejected"
    /\ call[k].pc = "append" =>
         /\ call[k].event \in TopStates \ Undecided
         /\ call[k].event = "Completed" => AllCommitted
    /\ call[k].pc \in {"reverse", "reverseOutcome"} => out[call[k].cur] = "committed"

Inv ==
    /\ Shared
    /\ call \in [Calls -> CallRecords]
    /\ \A k \in Calls : CallKnows(k)

USE DEF Undecided

-----------------------------------------------------------------------------
(* validateDAG.                                                              *)

\* f is what N rounds of processing zero-in-degree nodes reach.
Rounds(f, T, d, N) ==
    f = [n \in 0..N |-> IF n = 0 THEN {} ELSE {c \in T : d[c] \subseteq f[n - 1]}]

\* The nodes whose parents are all in F.
Round(T, d, F) == {c \in T : d[c] \subseteq F}

\* Each round is computed from the one before it.
LEMMA RoundsStep ==
    ASSUME NEW T, NEW d, NEW N \in Nat, NEW f, Rounds(f, T, d, N)
    PROVE  /\ f[0] = {}
           /\ \A n \in 0..N : n + 1 \in 0..N => f[n + 1] = Round(T, d, f[n])
<1>1. \A n \in 0..N : f[n] = IF n = 0 THEN {} ELSE {c \in T : d[c] \subseteq f[n - 1]}
  BY Zenon DEF Rounds
<1>2. 0 \in 0..N
  OBVIOUS
<1>3. ASSUME NEW n \in 0..N, n + 1 \in 0..N PROVE f[n + 1] = Round(T, d, f[n])
  <2>1. n + 1 # 0 /\ (n + 1) - 1 = n
    OBVIOUS
  <2> QED BY <1>1, <1>3, <2>1 DEF Round
<1> QED BY <1>1, <1>2, <1>3

\* The recursion of Acyclic defines a function.
LEMMA RoundsExist ==
    ASSUME NEW T, NEW d
    PROVE  \A N \in Nat : \E f : Rounds(f, T, d, N)
<1> DEFINE S == {N \in Nat : \E f : Rounds(f, T, d, N)}
<1>1. 0 \in S
  <2> DEFINE f == [n \in 0..0 |-> {}]
  <2>1. Rounds(f, T, d, 0)
    BY DEF Rounds
  <2> QED BY <2>1
<1>2. ASSUME NEW N \in Nat, N \in S PROVE N + 1 \in S
  <2>1. PICK f : Rounds(f, T, d, N)
    BY <1>2
  <2> DEFINE g == [n \in 0..(N + 1) |-> IF n = 0 THEN {} ELSE {c \in T : d[c] \subseteq f[n - 1]}]
  <2>2. ASSUME NEW n \in 0..N PROVE g[n] = f[n]
    <3>1. f[n] = IF n = 0 THEN {} ELSE {c \in T : d[c] \subseteq f[n - 1]}
      BY <2>1, Zenon DEF Rounds
    <3>2. n \in 0..(N + 1)
      OBVIOUS
    <3> QED BY <3>1, <3>2
  <2>3. \A n \in 0..(N + 1) : n # 0 => n - 1 \in 0..N
    OBVIOUS
  <2>4. g = [n \in 0..(N + 1) |-> IF n = 0 THEN {} ELSE {c \in T : d[c] \subseteq g[n - 1]}]
    BY <2>2, <2>3
  <2>5. Rounds(g, T, d, N + 1)
    BY <2>4 DEF Rounds
  <2> QED BY <2>5
<1> HIDE DEF S
<1>3. Nat \subseteq S
  BY <1>1, <1>2, SetInduction
<1> QED BY <1>3 DEF S

\* Acyclic accepts what the rounds reach completely.
LEMMA AcyclicByRounds ==
    ASSUME NEW d, Cardinality(DOMAIN d) \in Nat
    PROVE  \E f : /\ Rounds(f, DOMAIN d, d, Cardinality(DOMAIN d))
                  /\ Acyclic(d) <=> f[Cardinality(DOMAIN d)] = DOMAIN d
<1> DEFINE F == CHOOSE f : Rounds(f, DOMAIN d, d, Cardinality(DOMAIN d))
<1>1. Rounds(F, DOMAIN d, d, Cardinality(DOMAIN d))
  BY RoundsExist, Zenon
<1>2. Acyclic(d) <=> F[Cardinality(DOMAIN d)] = DOMAIN d
  BY Zenon DEF Acyclic, Rounds
<1> HIDE DEF F
<1> QED BY <1>1, <1>2

\* What is processed stays processed, and without a cycle every round processes
\* a new node as long as there is one.
LEMMA RoundsGrow ==
    ASSUME NEW d, WellFounded(d), IsFiniteSet(DOMAIN d),
           NEW N \in Nat, NEW f, Rounds(f, DOMAIN d, d, N)
    PROVE  \A n \in 0..N : /\ f[n] \subseteq DOMAIN d
                           /\ f[n] = DOMAIN d \/ Cardinality(f[n]) >= n
<1> DEFINE T == DOMAIN d
           P(n) == /\ f[n] \subseteq T
                   /\ n + 1 \in 0..N => f[n] \subseteq f[n + 1]
                   /\ f[n] = T \/ Cardinality(f[n]) >= n
           S == {n \in Nat : n \in 0..N => P(n)}
<1>1. /\ f[0] = {}
      /\ \A n \in 0..N : n + 1 \in 0..N => f[n + 1] = Round(T, d, f[n])
  BY RoundsStep
<1>2. 0 \in S
  <2>1. Cardinality({}) >= 0
    BY FS_EmptySet
  <2>2. P(0)
    BY <1>1, <2>1
  <2> QED BY <2>2
<1>3. ASSUME NEW n \in Nat, n \in S, n + 1 \in 0..N PROVE P(n + 1)
  <2>1. n \in 0..N /\ P(n) /\ n + 1 \in Nat
    BY <1>3
  <2>2. f[n + 1] = {c \in T : d[c] \subseteq f[n]}
    BY <1>1, <1>3, <2>1 DEF Round
  <2>3. f[n + 1] \subseteq T /\ f[n] \subseteq f[n + 1]
    BY <2>1, <2>2, <1>3
  <2>4. ASSUME (n + 1) + 1 \in 0..N PROVE f[n + 1] \subseteq f[(n + 1) + 1]
    <3>1. f[(n + 1) + 1] = {c \in T : d[c] \subseteq f[n + 1]}
      BY <1>1, <1>3, <2>4 DEF Round
    <3> QED BY <2>2, <2>3, <3>1
  <2>5. ASSUME f[n + 1] # T PROVE Cardinality(f[n + 1]) >= n + 1
    <3>1. f[n] # T /\ Cardinality(f[n]) >= n
      BY <2>1, <2>3, <2>5
    <3>2. PICK c \in T \ f[n] : d[c] \intersect (T \ f[n]) = {}
      BY <2>1, <3>1 DEF WellFounded
    <3>3. c \in f[n + 1]
      BY <2>2, <3>2 DEF WellFounded
    <3>4. IsFiniteSet(f[n]) /\ IsFiniteSet(f[n + 1])
      BY <2>1, <2>3, FS_Subset
    <3>5. Cardinality(f[n] \union {c}) = Cardinality(f[n]) + 1
      BY <3>2, <3>4, FS_AddElement
    <3>6. Cardinality(f[n] \union {c}) <= Cardinality(f[n + 1])
      BY <2>3, <3>3, <3>4, FS_Subset
    <3>7. Cardinality(f[n]) \in Nat /\ Cardinality(f[n + 1]) \in Nat
      BY <3>4, FS_CardinalityType
    <3> QED BY <3>1, <3>5, <3>6, <3>7
  <2> QED BY <2>3, <2>4, <2>5
<1>4. \A n \in Nat : n \in S => n + 1 \in S
  BY <1>3
<1>5. Nat \subseteq S
  <2> HIDE DEF S
  <2> QED BY <1>2, <1>4, SetInduction
<1> QED BY <1>5

\* Kahn's algorithm accepts exactly the well-founded dependency maps.
LEMMA AcyclicIsExact ==
    ASSUME NEW d, IsFiniteSet(DOMAIN d), DOMAIN d # {},
           \A c \in DOMAIN d : d[c] \subseteq DOMAIN d
    PROVE  Acyclic(d) <=> WellFounded(d)
<1> DEFINE T == DOMAIN d
           N == Cardinality(T)
<1>0. N \in Nat /\ N \in 0..N
  BY FS_CardinalityType
<1>1. PICK f : /\ Rounds(f, T, d, N)
               /\ Acyclic(d) <=> f[N] = T
  BY <1>0, AcyclicByRounds
<1>2. ASSUME WellFounded(d) PROVE Acyclic(d)
  <2>1. f[N] \subseteq T /\ (f[N] = T \/ Cardinality(f[N]) >= N)
    BY <1>0, <1>1, <1>2, RoundsGrow
  <2>2. f[N] = T
    <3>1. ASSUME f[N] # T PROVE FALSE
      <4>1. Cardinality(f[N]) < N /\ Cardinality(f[N]) \in Nat
        BY <2>1, <3>1, FS_Subset, FS_CardinalityType
      <4> QED BY <1>0, <2>1, <3>1, <4>1
    <3> QED BY <3>1
  <2> QED BY <1>1, <2>2
<1>3. ASSUME Acyclic(d) PROVE WellFounded(d)
  <2>1. T # {} /\ (\A c \in T : d[c] \subseteq T) /\ f[N] = T
    BY <1>1, <1>3
  <2>2. ASSUME NEW S \in SUBSET T, S # {} PROVE \E c \in S : d[c] \intersect S = {}
    <3> DEFINE M == {n \in 0..N : f[n] \intersect S # {}}
    <3>1. M \subseteq Nat /\ M # {}
      BY <1>0, <2>1, <2>2
    <3>2. PICK n \in M : \A m \in M : n <= m
      BY <3>1, LeastElement
    <3>3. /\ f[0] = {}
          /\ \A m \in 0..N : m + 1 \in 0..N => f[m + 1] = Round(T, d, f[m])
      <4> HIDE DEF N, T
      <4> QED BY <1>0, <1>1, RoundsStep
    <3>4. PICK m \in Nat : n = m + 1
      <4>1. n \in Nat /\ n # 0
        BY <1>0, <3>2, <3>3
      <4>2. n - 1 \in Nat /\ n = (n - 1) + 1
        BY <4>1
      <4> QED BY <4>2
    <3>5. m \in 0..N /\ n \in 0..N /\ ~(n <= m)
      BY <1>0, <3>2, <3>4
    <3>6. f[n] = {c \in T : d[c] \subseteq f[m]} /\ f[m] \intersect S = {}
      BY <3>2, <3>3, <3>4, <3>5 DEF Round
    <3>7. PICK c \in f[n] \intersect S : TRUE
      BY <3>2
    <3> QED BY <3>6, <3>7
  <2> QED BY <2>1, <2>2 DEF WellFounded
<1> QED BY <1>2, <1>3

\* The parents of a specification without dangling references.
LEMMA ParentsKnown ==
    ASSUME NEW r, References(r)
    PROVE  /\ DOMAIN parentsOf(r) = DOMAIN r.ids
           /\ \A c \in DOMAIN r.ids : parentsOf(r)[c] \subseteq DOMAIN r.ids
BY DEF parentsOf, References

\* validateDAG accepts exactly the specifications without a dangling reference
\* and without a cycle.
THEOREM ValidateDAGIsExact ==
    ASSUME NEW r, IsFiniteSet(DOMAIN r.ids)
    PROVE  validateDAG(r) <=> References(r) /\ WellFounded(parentsOf(r))
<1> DEFINE d == parentsOf(r)
<1>1. DOMAIN d = DOMAIN r.ids
  BY DEF parentsOf
<1>2. CASE ~References(r)
  BY <1>2 DEF validateDAG
<1>3. CASE References(r) /\ DOMAIN r.ids = {}
  BY <1>1, <1>3 DEF validateDAG, WellFounded
<1>4. CASE References(r) /\ DOMAIN r.ids # {}
  <2>1. \A c \in DOMAIN d : d[c] \subseteq DOMAIN d
    BY <1>1, <1>4, ParentsKnown
  <2> HIDE DEF d
  <2>2. Acyclic(d) <=> WellFounded(d)
    BY <1>1, <1>4, <2>1, AcyclicIsExact
  <2> QED BY <1>4, <2>2 DEF validateDAG, d
<1> QED BY <1>2, <1>3, <1>4

-----------------------------------------------------------------------------
(* What a call knows stays true.                                             *)

\* The Transaction is decided, and what is recorded or final stays so.
Stable ==
    /\ deps' = deps
    /\ recorded \subseteq recorded'
    /\ top \notin Undecided => top' \notin Undecided
    /\ \A c \in Children : out[c] \in Final => out'[c] = out[c]

\* A step that keeps final facts keeps what is known about committed parents.
LEMMA ReadyIsStable ==
    ASSUME Shared, Stable, NEW c, Ready(c)
    PROVE  Ready(c)'
<1>1. c \in DOMAIN deps /\ deps[c] \subseteq Children
  BY DEF Ready, Shared, SharedTypes
<1>2. \A p \in deps[c] : out'[p] = "committed"
  BY <1>1 DEF Ready, Stable, Final
<1> QED BY <1>1, <1>2 DEF Ready, Stable

\* A step that keeps final facts keeps a finished DAG finished.
LEMMA AllCommittedIsStable ==
    ASSUME Shared, Stable, AllCommitted
    PROVE  AllCommitted'
BY DEF AllCommitted, Shared, SharedTypes, Stable, Final

\* What a call knows survives the steps of the others.
LEMMA KnowledgeIsStable ==
    ASSUME Inv, Stable, NEW k \in Calls, call'[k] = call[k]
    PROVE  CallKnows(k)'
<1> DEFINE r == call[k]
<1>0. CallKnows(k) /\ Shared /\ r \in CallRecords
  BY DEF Inv
<1>1. call'[k] = r
  OBVIOUS
<1>2. \A c : Recorded(r.seen[c], c) => Recorded(r.seen[c], c)'
  BY DEF Stable, Recorded
<1>3. \A c : Ready(c) => Ready(c)'
  BY <1>0, ReadyIsStable
<1>4. AllCommitted => AllCommitted'
  BY <1>0, AllCommittedIsStable
<1>5. r.pc \in Holding /\ out[r.cur] \in Final => out'[r.cur] = out[r.cur]
  BY <1>0 DEF CallKnows, Stable
<1>6. top \notin Undecided => top' \notin Undecided
  BY DEF Stable
<1> HIDE DEF r
<1> QED BY <1>0, <1>1, <1>2, <1>3, <1>4, <1>5, <1>6 DEF CallKnows, Holding, Final, r

\* A step of call k that keeps final facts and leaves k well informed.
LEMMA StepPreserves ==
    ASSUME Inv, NEW k \in Calls, Stable, Shared', call' \in [Calls -> CallRecords],
           \A j \in Calls : j # k => call'[j] = call[j],
           CallKnows(k)'
    PROVE  Inv'
<1>1. ASSUME NEW j \in Calls PROVE CallKnows(j)'
  BY KnowledgeIsStable
<1> QED BY <1>1 DEF Inv

\* Nothing changes that the calls share.
LEMMA QuietStep ==
    ASSUME Shared, UNCHANGED <<stream, out, rev>>, crashes' \in 0..MaxCrashes
    PROVE  Stable /\ Shared'
BY DEF Shared, SharedTypes, Stable, stream, Recorded, Ready, ParentsFirst, ChildFactsHold,
       CompletedIsEarned

\* appendSagaStep of an event that is true.
LEMMA AppendSagaStepIsTrue ==
    ASSUME Shared, top \notin Undecided, NEW e, NEW c, AppendSagaStep(e, c), UNCHANGED <<out, rev, crashes>>,
           \/ /\ c = NoChild /\ e \in TopStates \ Undecided
              /\ e = "Completed" => AllCommitted
           \/ /\ c \in Children /\ e \in ChildStates
              /\ e = "Completed" => out[c] = "committed"
              /\ e = "Failed" => out[c] \in {"rejected", "failed", "cancelled"}
              /\ e = "Gated" => Ready(c)
    PROVE  Stable /\ Shared' /\ top' \notin Undecided
<1>0. NoChild \notin Children
  BY TransactionAssumption
<1>1. /\ recorded' = recorded \union {<<e, c>>} /\ deps' = deps /\ out' = out /\ rev' = rev
      /\ crashes' = crashes
  BY DEF AppendSagaStep
<1>2. top' \in TopStates \ Undecided
  BY <1>0 DEF AppendSagaStep, Shared, SharedTypes
<1>3. /\ child' \in [Children -> ChildStates]
      /\ \A b \in Children : child'[b] # child[b] => b = c /\ child'[b] = e
  BY <1>0 DEF AppendSagaStep, Shared, SharedTypes
<1>4. recorded' \subseteq (TopStates \union ChildStates) \X (Children \union {NoChild})
  BY <1>1 DEF Shared, SharedTypes
<1>5. \A f, b : Recorded(f, b)' <=> Recorded(f, b) \/ (f = e /\ b = c)
  BY <1>1 DEF Recorded
<1>6. SharedTypes'
  BY <1>1, <1>2, <1>3, <1>4 DEF Shared, SharedTypes
<1>7. \A b : Ready(b)' <=> Ready(b)
  BY <1>1 DEF Ready
<1>8. (\A b \in Children : child[b] # "Untouched" => Recorded(child[b], b))'
  BY <1>1, <1>3 DEF Shared, Recorded
<1>9. \A b \in Children : Recorded("Gated", b)' => Ready(b)'
  BY <1>0, <1>5, <1>7 DEF Shared
<1>10. ParentsFirst'
  BY <1>1 DEF Shared, ParentsFirst
<1>11. ChildFactsHold'
  BY <1>0, <1>1, <1>5 DEF Shared, ChildFactsHold
<1>12. CompletedIsEarned'
  BY <1>0, <1>1, <1>5 DEF Shared, CompletedIsEarned, AllCommitted
<1>13. Stable
  BY <1>1, <1>2 DEF Stable
<1>14. \A b \in DOMAIN deps' : deps'[b] \subseteq DOMAIN deps'
  BY <1>1 DEF Shared
<1>15. (\A b \in Children : Recorded("Gated", b) => Ready(b))'
  BY <1>9
<1> QED BY <1>1, <1>2, <1>6, <1>8, <1>15, <1>10, <1>11, <1>12, <1>13, <1>14 DEF Shared

-----------------------------------------------------------------------------
(* What the helpers that move a call make it know.                           *)

OthersKeep(k) == \A j \in Calls : j # k => call'[j] = call[j]

\* The effect of a helper on the calls, and what its call knows afterwards.
Moved(k) == call' \in [Calls -> CallRecords] /\ OthersKeep(k) /\ CallKnows(k)'

\* The record of an idle slot.
LEMMA IdleIsRecord == Idle \in CallRecords
BY DEF Idle, CallRecords, Untouched, PCs, ChildStates

\* A call that returned knows nothing.
LEMMA ReturnMoves ==
    ASSUME call \in [Calls -> CallRecords], NEW k \in Calls, Return(k)
    PROVE  Moved(k)
<1>1. call'[k] = Idle /\ OthersKeep(k) /\ call' \in [Calls -> CallRecords]
  BY IdleIsRecord DEF Return, OthersKeep
<1> QED BY <1>1 DEF Moved, CallKnows, Idle, Untouched, Holding, Sweeping

\* The top of the loop knows that the Transaction is decided.
LEMMA LoopMoves ==
    ASSUME call \in [Calls -> CallRecords], NEW k \in Calls, Loop(k), top' \notin Undecided
    PROVE  Moved(k)
<1> DEFINE r == [Idle EXCEPT !.pc = "runSaga"]
<1>1. r \in CallRecords
  BY IdleIsRecord DEF CallRecords, PCs
<1>2. call'[k] = r /\ OthersKeep(k) /\ call' \in [Calls -> CallRecords]
  BY <1>1 DEF Loop, OthersKeep
<1> QED BY <1>2 DEF Moved, CallKnows, Idle, Untouched, Holding, Sweeping

\* A decided top-level event: Completed only over a DAG that is done.
LEMMA AppendTopMoves ==
    ASSUME call \in [Calls -> CallRecords], NEW k \in Calls, NEW e \in TopStates \ Undecided,
           AppendTop(k, e), top' \notin Undecided, e = "Completed" => AllCommitted'
    PROVE  Moved(k)
<1> DEFINE r == [Idle EXCEPT !.pc = "append", !.event = e]
<1>1. r \in CallRecords
  BY IdleIsRecord DEF CallRecords, PCs
<1>2. call'[k] = r /\ OthersKeep(k) /\ call' \in [Calls -> CallRecords]
  BY <1>1 DEF AppendTop, OthersKeep
<1> QED BY <1>2 DEF Moved, CallKnows, Idle, Untouched, Holding, Sweeping

\* A sweep over children in states that are on record.
LEMMA SweepMoves ==
    ASSUME call \in [Calls -> CallRecords], NEW k \in Calls, NEW pc \in Sweeping,
           NEW states \in [Children -> ChildStates], NEW todo \in SUBSET Children,
           Sweep(k, pc, states, todo), top' \notin Undecided,
           \A c \in Children : states[c] # "Untouched" => Recorded(states[c], c)',
           pc = "dispatch" => \A c \in todo : Ready(c)'
    PROVE  Moved(k)
<1> DEFINE r == [Idle EXCEPT !.pc = pc, !.back = pc, !.seen = states, !.todo = todo]
<1>1. r \in CallRecords
  BY IdleIsRecord DEF CallRecords, PCs, Sweeping
<1>2. call'[k] = r /\ OthersKeep(k) /\ call' \in [Calls -> CallRecords]
  BY <1>1 DEF Sweep, OthersKeep
<1>3. r.pc = pc /\ r.back = pc /\ r.seen = states /\ r.todo = todo
  BY DEF Idle
<1> HIDE DEF r
<1> QED BY <1>2, <1>3 DEF Moved, CallKnows, Holding, Sweeping

\* A call that moves on within its turn keeps the fold it read, its sweep and
\* where to go back to, and need not remember its child any longer.
LEMMA TurnMoves ==
    ASSUME Inv, Stable, NEW k \in Calls, NEW r \in CallRecords, call' = [call EXCEPT ![k] = r],
           call[k].pc # "idle", r.pc # "idle",
           r.seen = call[k].seen, r.back = call[k].back, r.todo \subseteq call[k].todo,
           r.pc \in Holding => r.cur \in Children /\ r.back \in {"dispatch", "rollback", "runSaga"},
           r.pc \in Sweeping => r.back = r.pc,
           r.pc = "request" => Ready(r.cur)',
           r.pc = "record" =>
             /\ r.event \in {"Requested", "Failed", "RolledBack", "RollbackFailed"}
             /\ r.event = "Failed" => out'[r.cur] = "rejected",
           r.pc # "append",
           r.pc \in {"reverse", "reverseOutcome"} => out'[r.cur] = "committed"
    PROVE  Moved(k)
<1>1. call'[k] = r /\ OthersKeep(k) /\ call' \in [Calls -> CallRecords]
  BY DEF Inv, OthersKeep
<1>2. CallKnows(k) /\ Shared
  BY DEF Inv
<1>3. \A c \in Children : r.seen[c] # "Untouched" => Recorded(r.seen[c], c)'
  BY <1>2 DEF CallKnows, Stable, Recorded
<1>4. r.back = "dispatch" => \A c \in r.todo : Ready(c)'
  BY <1>2, ReadyIsStable DEF CallKnows
<1>5. top' \notin Undecided
  BY <1>2 DEF CallKnows, Stable
<1> QED BY <1>1, <1>3, <1>4, <1>5 DEF Moved, CallKnows

-----------------------------------------------------------------------------
(* The actions.                                                              *)

\* A call that moved on while final facts were kept.
LEMMA MovedPreserves ==
    ASSUME Inv, NEW k \in Calls, Stable, Shared', Moved(k)
    PROVE  Inv'
BY StepPreserves DEF Moved, OthersKeep

\* Nothing on record before a request, and nothing moved.
LEMMA InvInit == ASSUME Init PROVE Inv
<1>1. Shared
  BY TransactionAssumption
  DEF Init, Shared, SharedTypes, TopStates, ChildStates, Outcomes, Untouched, Recorded,
      ParentsFirst, ChildFactsHold, CompletedIsEarned
<1>2. ASSUME NEW k \in Calls PROVE CallKnows(k)
  BY DEF Init, CallKnows, Idle, Untouched, Holding, Sweeping
<1> QED BY <1>1, <1>2, IdleIsRecord DEF Init, Inv

\* StartInitializingTransaction: the first event of the stream.
LEMMA StartInitializingPreserves ==
    ASSUME Inv, NEW k \in Calls, NEW r \in Requests, StartInitializingTransaction(k, r)
    PROVE  Inv'
<1>0. Shared /\ top = "Unknown" /\ recorded = {} /\ \A c \in Children : out[c] = "none"
  BY DEF Inv, Shared, StartInitializingTransaction
<1>1. \A j \in Calls : call[j] = Idle
  BY <1>0 DEF Inv, CallKnows
<1>2. /\ top' \in {"Initialized", "Rejected"} /\ recorded' = {<<top', NoChild>>}
      /\ UNCHANGED <<child, out, rev, crashes>>
  BY DEF StartInitializingTransaction
<1>3. /\ DOMAIN deps' \subseteq Children
      /\ \A c \in DOMAIN deps' : deps'[c] \subseteq DOMAIN deps'
  <2>1. CASE validateDAG(r)
    <3>1. deps' = parentsOf(r) /\ References(r) /\ DOMAIN r.ids \subseteq Children
      BY <2>1, TransactionAssumption DEF StartInitializingTransaction, validateDAG
    <3> QED BY <3>1, ParentsKnown
  <2>2. CASE ~validateDAG(r)
    BY <2>2, <1>0 DEF StartInitializingTransaction, Shared, SharedTypes
  <2> QED BY <2>1, <2>2
<1>4. SharedTypes'
  BY <1>0, <1>2, <1>3 DEF Shared, SharedTypes, TopStates
<1>5. \A c \in Children : \A e : ~Recorded(e, c)'
  BY <1>2, TransactionAssumption DEF Recorded
<1>6. \A c \in Children : child[c] = "Untouched"
  BY <1>0 DEF Shared, Recorded
<1>7. ~Recorded("Completed", NoChild)'
  BY <1>2 DEF Recorded
<1>8. Shared'
  <2>1. (\A c \in Children : child[c] # "Untouched" => Recorded(child[c], c))'
    BY <1>2, <1>6
  <2>2. (\A c \in Children : Recorded("Gated", c) => Ready(c))' /\ ChildFactsHold'
    BY <1>5 DEF ChildFactsHold
  <2>3. ParentsFirst'
    BY <1>0, <1>2, <1>3 DEF ParentsFirst
  <2>4. CompletedIsEarned'
    BY <1>7 DEF CompletedIsEarned
  <2>5. /\ (top \in Undecided => DOMAIN deps = {})'
        /\ (top \notin Undecided => \E q \in Requests : validateDAG(q) /\ deps = parentsOf(q))'
    BY <1>0 DEF StartInitializingTransaction, Shared
  <2> QED BY <1>0, <1>2, <1>3, <1>4, <2>1, <2>2, <2>3, <2>4, <2>5 DEF Shared
<1>9. Moved(k)
  <2>1. CASE validateDAG(r)
    BY <2>1, <1>2, LoopMoves DEF StartInitializingTransaction, Inv
  <2>2. CASE ~validateDAG(r)
    <3>1. call' = call
      BY <2>2 DEF StartInitializingTransaction
    <3>2. call'[k] = Idle
      BY <1>1, <3>1
    <3> QED BY <3>1, <3>2 DEF Moved, OthersKeep, Inv, CallKnows, Idle, Untouched, Holding, Sweeping
  <2> QED BY <2>1, <2>2
<1>10. ASSUME NEW j \in Calls, j # k PROVE CallKnows(j)'
  <2>1. call'[j] = Idle
    BY <1>1, <1>9, <1>10 DEF Moved, OthersKeep
  <2> QED BY <2>1 DEF CallKnows, Idle, Untouched, Holding, Sweeping
<1> QED BY <1>8, <1>9, <1>10 DEF Inv, Moved

\* ResumeTransaction, StartProcessingTransfer and StartTransactionRollback.
LEMMA StartPreserves ==
    ASSUME Inv, NEW k \in Calls, NEW r, Start(k, r)
    PROVE  Inv'
<1>0. UNCHANGED <<stream, out, rev, crashes>>
  BY DEF Start, ResumeTransaction, StartProcessingTransfer, StartTransactionRollback
<1>1. Stable /\ Shared' /\ Shared /\ top' = top /\ call \in [Calls -> CallRecords]
  BY <1>0, QuietStep DEF Inv, Shared, SharedTypes, stream
<1>2. CASE ResumeTransaction(k)
  BY <1>1, <1>2, LoopMoves, MovedPreserves DEF ResumeTransaction
<1>3. CASE StartTransactionRollback(k)
  BY <1>1, <1>3, AppendTopMoves, MovedPreserves DEF StartTransactionRollback, TopStates
<1>4. ASSUME NEW c \in Children, StartProcessingTransfer(k, c) PROVE Inv'
  <2>1. Ready(c)
    BY <1>1, <1>4 DEF StartProcessingTransfer, Shared
  <2>2. call[k] = Idle
    BY <1>4 DEF StartProcessingTransfer, Inv, CallKnows
  <2> DEFINE q == [Idle EXCEPT !.pc = "request", !.cur = c, !.back = "runSaga"]
  <2>3. q \in CallRecords
    BY IdleIsRecord DEF CallRecords, PCs
  <2>4. call'[k] = q /\ OthersKeep(k) /\ call' \in [Calls -> CallRecords]
    BY <1>1, <1>4, <2>2, <2>3 DEF StartProcessingTransfer, OthersKeep
  <2>5. Ready(c)' /\ top' \notin Undecided
    <3>1. c \in DOMAIN deps /\ child[c] = "Gated"
      BY <1>4 DEF StartProcessingTransfer
    <3> QED BY <1>1, <2>1, <3>1, ReadyIsStable DEF Shared, Recorded
  <2>6. CallKnows(k)'
    BY <2>4, <2>5 DEF CallKnows, Idle, Untouched, Holding, Sweeping
  <2> QED BY <1>1, <2>4, <2>6, MovedPreserves DEF Moved
<1> QED BY <1>2, <1>3, <1>4 DEF Start

\* The top of runSaga's loop.
LEMMA RunSagaPreserves == ASSUME Inv, NEW k \in Calls, RunSaga(k) PROVE Inv'
<1>0. UNCHANGED <<stream, out, rev, crashes>> /\ call[k].pc = "runSaga"
  BY DEF RunSaga
<1>1. /\ Stable /\ Shared' /\ Shared /\ top' = top /\ child' = child /\ recorded' = recorded
      /\ call \in [Calls -> CallRecords] /\ top \notin Undecided
  BY <1>0, QuietStep DEF Inv, Shared, SharedTypes, stream, CallKnows
<1>2. \A c \in Children : child[c] # "Untouched" => Recorded(child[c], c)'
  BY <1>1 DEF Shared, Recorded
<1>3. CASE AppendTop(k, "Started")
  BY <1>1, <1>3, AppendTopMoves, MovedPreserves DEF TopStates
<1>4. ASSUME NEW todo \in SUBSET Children,
             Sweep(k, "reconcile", child, todo) \/ Sweep(k, "rollback", child, todo)
      PROVE  Inv'
  BY <1>1, <1>2, <1>4, SweepMoves, MovedPreserves DEF Sweeping, Shared, SharedTypes
<1>5. CASE Return(k)
  BY <1>1, <1>5, ReturnMoves, MovedPreserves
<1>6. readyToRollback(child) \subseteq Children
  BY <1>1 DEF readyToRollback, Shared, SharedTypes
<1> QED BY <1>3, <1>4, <1>5, <1>6 DEF RunSaga

\* appendSagaStep of a top-level event.
LEMMA AppendTopLevelPreserves == ASSUME Inv, NEW k \in Calls, AppendTopLevel(k) PROVE Inv'
<1>1. PICK e : e = call[k].event
  OBVIOUS
<1>2. /\ Shared /\ call \in [Calls -> CallRecords] /\ top \notin Undecided
      /\ e \in TopStates \ Undecided /\ (e = "Completed" => AllCommitted)
      /\ AppendSagaStep(e, NoChild) /\ Loop(k) /\ UNCHANGED <<out, rev, crashes>>
  BY <1>1 DEF AppendTopLevel, Inv, CallKnows
<1>3. Stable /\ Shared' /\ top' \notin Undecided
  BY <1>2, AppendSagaStepIsTrue
<1> QED BY <1>2, <1>3, LoopMoves, MovedPreserves

\* A call that is done with a child goes back to its sweep, or to the loop.
LEMMA NextChildMoves ==
    ASSUME Inv, Stable, NEW k \in Calls, NEW c, NextChild(k, c), call[k].pc \in Holding \union Sweeping
    PROVE  Moved(k)
<1> DEFINE r == [call[k] EXCEPT !.pc = call[k].back, !.todo = @ \ {c}, !.cur = NoChild,
                                !.event = "none", !.progressed = TRUE]
<1>1. call[k] \in CallRecords /\ call[k].back \in {"dispatch", "rollback", "runSaga", "reconcile"}
  BY DEF Inv, CallKnows, Holding, Sweeping
<1>2. r \in CallRecords
  BY <1>1 DEF CallRecords
<1>3. /\ r.pc = call[k].back /\ r.seen = call[k].seen /\ r.back = call[k].back
      /\ r.todo \subseteq call[k].todo
  BY <1>1 DEF CallRecords
<1>4. call' = [call EXCEPT ![k] = r]
  BY DEF NextChild
<1>5. call[k].pc # "idle"
  BY DEF Holding, Sweeping
<1>6. r.pc \notin Holding \union {"idle", "append"}
  BY <1>1, <1>3 DEF Holding
<1> HIDE DEF r
<1> QED BY <1>2, <1>3, <1>4, <1>5, <1>6, TurnMoves DEF Holding

\* A sweep that passes over a child.
LEMMA SkipMoves ==
    ASSUME Inv, Stable, NEW k \in Calls, NEW c, call' = [call EXCEPT ![k].todo = @ \ {c}],
           call[k].pc \in Sweeping
    PROVE  Moved(k)
<1> DEFINE r == [call[k] EXCEPT !.todo = @ \ {c}]
<1>1. call[k] \in CallRecords /\ call[k].back = call[k].pc
  BY DEF Inv, CallKnows
<1>2. /\ r \in CallRecords /\ r.pc = call[k].pc /\ r.seen = call[k].seen /\ r.back = call[k].back
      /\ r.todo \subseteq call[k].todo
  BY <1>1 DEF CallRecords
<1>3. call' = [call EXCEPT ![k] = r]
  OBVIOUS
<1>4. r.pc \notin Holding \union {"idle", "append"} /\ call[k].pc # "idle"
  BY <1>2 DEF Holding, Sweeping
<1> HIDE DEF r
<1> QED BY <1>1, <1>2, <1>3, <1>4, TurnMoves DEF Holding

\* A call that takes a child in hand, or goes on with it.
LEMMA HoldMoves ==
    ASSUME Inv, Stable, NEW k \in Calls, NEW pc \in Holding \ {"record"}, NEW c \in Children,
           \/ TakeChild(k, c, pc)
           \/ call[k].cur = c /\ call' = [call EXCEPT ![k].pc = pc],
           call[k].pc \in Holding \union {"dispatch", "rollback"},
           pc = "request" => Ready(c)',
           pc \in {"reverse", "reverseOutcome"} => out'[c] = "committed"
    PROVE  Moved(k)
<1> DEFINE r == [call[k] EXCEPT !.pc = pc, !.cur = c]
<1>1. call[k] \in CallRecords /\ call[k].back \in {"dispatch", "rollback", "runSaga"}
  BY DEF Inv, CallKnows, Sweeping
<1>2. /\ r \in CallRecords /\ r.pc = pc /\ r.cur = c /\ r.seen = call[k].seen /\ r.back = call[k].back
      /\ r.todo = call[k].todo
  BY <1>1 DEF CallRecords, PCs, Holding
<1>3. call' = [call EXCEPT ![k] = r]
  <2>1. CASE TakeChild(k, c, pc)
    BY <2>1 DEF TakeChild
  <2>2. CASE call[k].cur = c /\ call' = [call EXCEPT ![k].pc = pc]
    <3>1. [call[k] EXCEPT !.pc = pc] = r
      BY <1>1, <2>2 DEF CallRecords
    <3> QED BY <2>2, <3>1
  <2> QED BY <2>1, <2>2
<1>4. pc \notin Sweeping \union {"idle", "append", "record"} /\ call[k].pc # "idle"
  BY DEF Holding, Sweeping
<1> HIDE DEF r
<1> QED BY <1>1, <1>2, <1>3, <1>4, TurnMoves

\* A call that is about to record what became of its child.
LEMMA RecordMoves ==
    ASSUME Inv, Stable, NEW k \in Calls, NEW e \in {"Requested", "Failed", "RolledBack", "RollbackFailed"},
           Record(k, e), call[k].pc \in Holding,
           e = "Failed" => out'[call[k].cur] = "rejected"
    PROVE  Moved(k)
<1> DEFINE r == [call[k] EXCEPT !.pc = "record", !.event = e]
<1>1. /\ call[k] \in CallRecords /\ call[k].back \in {"dispatch", "rollback", "runSaga"}
      /\ call[k].cur \in Children
  BY DEF Inv, CallKnows
<1>2. /\ r \in CallRecords /\ r.pc = "record" /\ r.event = e /\ r.cur = call[k].cur
      /\ r.seen = call[k].seen /\ r.back = call[k].back /\ r.todo = call[k].todo
  BY <1>1 DEF CallRecords, PCs, ChildStates
<1>3. call' = [call EXCEPT ![k] = r]
  BY DEF Record
<1>4. call[k].pc # "idle"
  BY DEF Holding
<1> HIDE DEF r
<1> QED BY <1>1, <1>2, <1>3, <1>4, TurnMoves DEF Sweeping

\* reconcileInFlight.
LEMMA ReconcilePreserves == ASSUME Inv, NEW k \in Calls, Reconcile(k) PROVE Inv'
<1>0. /\ Shared /\ call \in [Calls -> CallRecords] /\ top \notin Undecided /\ call[k].pc = "reconcile"
      /\ UNCHANGED <<out, rev, crashes>>
  BY DEF Inv, Reconcile, CallKnows
<1>1. PICK c \in call[k].todo :
         \/ out[c] = "committed" /\ AppendSagaStep("Completed", c) /\ NextChild(k, c)
         \/ out[c] \in {"failed", "cancelled"} /\ AppendSagaStep("Failed", c) /\ NextChild(k, c)
         \/ call' = [call EXCEPT ![k].todo = @ \ {c}] /\ UNCHANGED stream
  BY DEF Reconcile
<1>2. c \in Children
  BY <1>0 DEF CallRecords
<1>3. CASE out[c] = "committed" /\ AppendSagaStep("Completed", c) /\ NextChild(k, c)
  <2>1. Stable /\ Shared'
    BY <1>0, <1>2, <1>3, AppendSagaStepIsTrue DEF ChildStates
  <2> QED BY <1>0, <1>3, <2>1, NextChildMoves, MovedPreserves DEF Sweeping
<1>4. CASE out[c] \in {"failed", "cancelled"} /\ AppendSagaStep("Failed", c) /\ NextChild(k, c)
  <2>1. Stable /\ Shared'
    BY <1>0, <1>2, <1>4, AppendSagaStepIsTrue DEF ChildStates
  <2> QED BY <1>0, <1>4, <2>1, NextChildMoves, MovedPreserves DEF Sweeping
<1>5. CASE call' = [call EXCEPT ![k].todo = @ \ {c}] /\ UNCHANGED stream
  <2>1. Stable /\ Shared'
    BY <1>0, <1>5, QuietStep DEF Shared, SharedTypes
  <2> QED BY <1>0, <1>5, <2>1, SkipMoves, MovedPreserves DEF Sweeping
<1> QED BY <1>1, <1>3, <1>4, <1>5

\* The decision of the Started branch, from the children as they were read.
LEMMA ReconciledPreserves == ASSUME Inv, NEW k \in Calls, Reconciled(k) PROVE Inv'
<1>0. /\ Shared /\ call \in [Calls -> CallRecords] /\ top \notin Undecided
      /\ UNCHANGED <<stream, out, rev, crashes>>
  BY DEF Inv, Reconciled, CallKnows
<1>1. Stable /\ Shared' /\ top' = top /\ recorded' = recorded /\ deps' = deps
  BY <1>0, QuietStep DEF Shared, SharedTypes, stream
<1>2. PICK seen \in [Children -> ChildStates] : seen = call[k].seen
  BY <1>0 DEF CallRecords
<1>3. \A c \in Children : seen[c] # "Untouched" => Recorded(seen[c], c)
  BY <1>2 DEF Inv, CallKnows
<1>4. \A c \in Children : seen[c] = "Completed" => out[c] = "committed"
  BY <1>0, <1>3 DEF Shared, ChildFactsHold
<1>5. allTerminal(seen) => AllCommitted'
  BY <1>0, <1>1, <1>4 DEF allTerminal, AllCommitted, Shared, SharedTypes
<1>6. readyToRun(seen) \subseteq Children /\ \A c \in readyToRun(seen) : Ready(c)'
  <2>1. \A c \in readyToRun(seen) : c \in Children /\ Ready(c)
    BY <1>0, <1>4 DEF readyToRun, Ready, Shared, SharedTypes
  <2> QED BY <1>0, <1>1, <2>1, ReadyIsStable
<1>7. CASE Loop(k) \/ Return(k)
  BY <1>0, <1>1, <1>7, LoopMoves, ReturnMoves, MovedPreserves
<1>8. CASE AppendTop(k, "RollbackStarted")
  BY <1>0, <1>1, <1>8, AppendTopMoves, MovedPreserves DEF TopStates
<1>9. CASE allTerminal(seen) /\ AppendTop(k, "Completed")
  BY <1>0, <1>1, <1>5, <1>9, AppendTopMoves, MovedPreserves DEF TopStates
<1>10. CASE Sweep(k, "dispatch", seen, readyToRun(seen))
  <2>1. \A c \in Children : seen[c] # "Untouched" => Recorded(seen[c], c)'
    BY <1>1, <1>3 DEF Recorded
  <2>2. Moved(k)
    BY <1>0, <1>1, <1>6, <1>10, <2>1, SweepMoves DEF Sweeping
  <2> QED BY <1>1, <2>2, MovedPreserves
<1> QED BY <1>2, <1>7, <1>8, <1>9, <1>10 DEF Reconciled

\* A child Transfer that was requested, or may be, goes on to another outcome.
LEMMA OutcomeStep ==
    ASSUME Shared, top \notin Undecided, NEW c \in Children, NEW o \in Outcomes \ {"none"},
           out' = [out EXCEPT ![c] = o], out[c] \in Final => o = out[c],
           Ready(c) \/ out[c] # "none", UNCHANGED <<stream, rev, crashes>>
    PROVE  Stable /\ Shared'
<1>1. /\ UNCHANGED <<top, child, recorded, deps, rev, crashes>> /\ out \in [Children -> Outcomes]
      /\ DOMAIN deps \subseteq Children /\ \A b \in DOMAIN deps : deps[b] \subseteq Children
  BY DEF stream, Shared, SharedTypes
<1>2. \A b \in Children : out[b] \in Final => out'[b] = out[b]
  BY <1>1
<1>3. Stable
  BY <1>1, <1>2 DEF Stable
<1>4. \A b \in Children : out'[b] # "none" => out[b] # "none" \/ b = c
  BY <1>1
<1>5. ParentsFirst'
  <2> SUFFICES ASSUME NEW b \in DOMAIN deps, out'[b] # "none", NEW p \in deps[b]
               PROVE  out'[p] = "committed"
    BY <1>1 DEF ParentsFirst
  <2>1. out[p] = "committed"
    BY <1>1, <1>4 DEF Shared, ParentsFirst, Ready
  <2> QED BY <1>1, <1>2, <2>1 DEF Final
<1>6. ChildFactsHold'
  BY <1>1, <1>2 DEF Shared, ChildFactsHold, Recorded, Final
<1>7. CompletedIsEarned'
  BY <1>1, <1>2 DEF Shared, CompletedIsEarned, Recorded, Final
<1>8. \A b : Ready(b) => Ready(b)'
  BY <1>3, ReadyIsStable
<1>9. (\A b \in Children : Recorded("Gated", b) => Ready(b))'
  BY <1>1, <1>8 DEF Shared, Recorded
<1>10. SharedTypes'
  BY <1>1 DEF Shared, SharedTypes
<1> QED BY <1>1, <1>3, <1>5, <1>6, <1>7, <1>9, <1>10 DEF Shared, Recorded

\* dispatchReady.
LEMMA DispatchPreserves == ASSUME Inv, NEW k \in Calls, Dispatch(k) PROVE Inv'
<1>0. /\ Shared /\ call \in [Calls -> CallRecords] /\ top \notin Undecided /\ call[k].pc = "dispatch"
      /\ UNCHANGED <<out, rev, crashes>> /\ call[k].back = "dispatch"
  BY DEF Inv, Dispatch, CallKnows, Sweeping
<1>1. PICK c \in call[k].todo :
         \/ TakeChild(k, c, "request") /\ UNCHANGED stream
         \/ AppendSagaStep("Gated", c) /\ NextChild(k, c)
  BY DEF Dispatch
<1>2. c \in Children /\ Ready(c)
  BY <1>0 DEF CallRecords, Inv, CallKnows
<1>3. CASE TakeChild(k, c, "request") /\ UNCHANGED stream
  <2>1. Stable /\ Shared'
    BY <1>0, <1>3, QuietStep DEF Shared, SharedTypes
  <2>2. Ready(c)'
    BY <1>0, <1>2, <2>1, ReadyIsStable
  <2>3. Moved(k)
    BY <1>0, <1>2, <1>3, <2>1, <2>2, HoldMoves DEF Holding
  <2> QED BY <2>1, <2>3, MovedPreserves
<1>4. CASE AppendSagaStep("Gated", c) /\ NextChild(k, c)
  <2>1. Stable /\ Shared'
    BY <1>0, <1>2, <1>4, AppendSagaStepIsTrue DEF ChildStates
  <2> QED BY <1>0, <1>4, <2>1, NextChildMoves, MovedPreserves DEF Sweeping
<1> QED BY <1>1, <1>3, <1>4

\* The RPC of requestChildTransfer.
LEMMA RequestChildPreserves == ASSUME Inv, NEW k \in Calls, RequestChild(k) PROVE Inv'
<1>1. PICK c \in Children : c = call[k].cur
  BY DEF Inv, RequestChild, CallKnows, Holding
<1>2. /\ Shared /\ top \notin Undecided /\ call[k].pc = "request" /\ Ready(c)
      /\ UNCHANGED <<stream, rev, crashes>> /\ out[c] \in Outcomes
  BY <1>1 DEF Inv, RequestChild, CallKnows, Shared, SharedTypes
<1>3. ASSUME NEW o \in Outcomes \ {"none"}, out' = [out EXCEPT ![c] = o],
             out[c] \in Final => o = out[c],
             Record(k, "Requested") \/ (o = "rejected" /\ Record(k, "Failed"))
      PROVE  Inv'
  <2>1. Stable /\ Shared'
    BY <1>2, <1>3, OutcomeStep
  <2>2. out'[c] = o
    BY <1>2, <1>3 DEF Shared, SharedTypes
  <2>3. Moved(k)
    BY <1>1, <1>2, <1>3, <2>1, <2>2, RecordMoves DEF Holding
  <2> QED BY <2>1, <2>3, MovedPreserves
<1>4. CASE /\ out[c] \in {"none", "rejected"} /\ out' = [out EXCEPT ![c] = "rejected"]
           /\ Record(k, "Failed")
  BY <1>3, <1>4 DEF Outcomes, Final
<1>5. CASE /\ out[c] \in {"none", "inflight"} /\ \E o \in Driven(c) : out' = [out EXCEPT ![c] = o]
           /\ Record(k, "Requested")
  BY <1>3, <1>5 DEF Outcomes, Final, Driven
<1>6. CASE /\ out[c] \in {"staged", "committed", "failed", "cancelled"} /\ out' = out
           /\ Record(k, "Requested")
  <2>1. out' = [out EXCEPT ![c] = out[c]]
    BY <1>2, <1>6 DEF Shared, SharedTypes
  <2> QED BY <1>2, <1>3, <1>6, <2>1
<1>7. CASE out' = out /\ Return(k)
  <2>1. Stable /\ Shared'
    BY <1>2, <1>7, QuietStep DEF Shared, SharedTypes
  <2> QED BY <1>7, <2>1, ReturnMoves, MovedPreserves DEF Inv
<1> QED BY <1>1, <1>4, <1>5, <1>6, <1>7 DEF RequestChild

\* The record of requestChildTransfer and rollbackChild.
LEMMA RecordChildPreserves == ASSUME Inv, NEW k \in Calls, RecordChild(k) PROVE Inv'
<1>1. PICK c, e : c \in Children /\ c = call[k].cur /\ e = call[k].event
  BY DEF Inv, RecordChild, CallKnows, Holding
<1>2. /\ Shared /\ top \notin Undecided /\ call[k].pc = "record" /\ UNCHANGED <<out, rev, crashes>>
      /\ e \in {"Requested", "Failed", "RolledBack", "RollbackFailed"}
      /\ e = "Failed" => out[c] = "rejected"
      /\ AppendSagaStep(e, c) /\ NextChild(k, c)
  BY <1>1 DEF Inv, RecordChild, CallKnows
<1>3. Stable /\ Shared'
  BY <1>1, <1>2, AppendSagaStepIsTrue DEF ChildStates
<1> QED BY <1>1, <1>2, <1>3, NextChildMoves, MovedPreserves DEF Holding

\* The end of a sweep.
LEMMA SweepDonePreserves == ASSUME Inv, NEW k \in Calls, SweepDone(k) PROVE Inv'
<1>0. /\ Shared /\ call \in [Calls -> CallRecords] /\ top \notin Undecided
      /\ UNCHANGED <<stream, out, rev, crashes>>
  BY DEF Inv, SweepDone, CallKnows
<1>1. Stable /\ Shared' /\ top' = top
  BY <1>0, QuietStep DEF Shared, SharedTypes, stream
<1>2. CASE Loop(k)
  BY <1>0, <1>1, <1>2, LoopMoves, MovedPreserves
<1>3. ASSUME NEW e \in {"RollbackFailed", "RolledBack"}, AppendTop(k, e) PROVE Inv'
  BY <1>0, <1>1, <1>3, AppendTopMoves, MovedPreserves DEF TopStates
<1> QED BY <1>2, <1>3 DEF SweepDone

\* rollbackChild up to its decision.
LEMMA RollbackChildPreserves == ASSUME Inv, NEW k \in Calls, RollbackChild(k) PROVE Inv'
<1>0. /\ Shared /\ call \in [Calls -> CallRecords] /\ top \notin Undecided /\ call[k].pc = "rollback"
      /\ UNCHANGED <<out, rev, crashes>>
  BY DEF Inv, RollbackChild, CallKnows
<1>1. PICK c \in call[k].todo :
         \/ AppendSagaStep("RolledBack", c) /\ NextChild(k, c)
         \/ /\ out[c] \in {"committed", "staged", "inflight"}
            /\ TakeChild(k, c, UndoOf(out[c])) /\ UNCHANGED stream
  BY DEF RollbackChild
<1>2. c \in Children
  BY <1>0 DEF CallRecords
<1>3. CASE AppendSagaStep("RolledBack", c) /\ NextChild(k, c)
  <2>1. Stable /\ Shared'
    BY <1>0, <1>2, <1>3, AppendSagaStepIsTrue DEF ChildStates
  <2> QED BY <1>0, <1>3, <2>1, NextChildMoves, MovedPreserves DEF Sweeping
<1>4. CASE /\ out[c] \in {"committed", "staged", "inflight"}
           /\ TakeChild(k, c, UndoOf(out[c])) /\ UNCHANGED stream
  <2>1. Stable /\ Shared'
    BY <1>0, <1>4, QuietStep DEF Shared, SharedTypes
  <2>2. PICK pc : /\ pc = UndoOf(out[c]) /\ pc \in {"reverse", "cancelStaged", "cancelAccepted"}
                  /\ pc = "reverse" => out'[c] = "committed"
    BY <1>0, <1>4 DEF UndoOf
  <2>3. Moved(k)
    BY <1>0, <1>2, <1>4, <2>1, <2>2, HoldMoves DEF Holding
  <2> QED BY <2>1, <2>3, MovedPreserves
<1> QED BY <1>1, <1>3, <1>4

\* A reversal goes on to another outcome.
LEMMA ReversalStep ==
    ASSUME Shared, rev' \in [Children -> Outcomes], UNCHANGED <<stream, out, crashes>>
    PROVE  Stable /\ Shared'
BY DEF Shared, SharedTypes, Stable, stream, Recorded, Ready, ParentsFirst, ChildFactsHold,
       CompletedIsEarned

\* The RPC of a reversal.
LEMMA RequestReversalPreserves == ASSUME Inv, NEW k \in Calls, RequestReversal(k) PROVE Inv'
<1>1. PICK c \in Children : c = call[k].cur
  BY DEF Inv, RequestReversal, CallKnows, Holding
<1>2. /\ Shared /\ call[k].pc = "reverse" /\ UNCHANGED <<stream, out, crashes>>
      /\ out'[c] = "committed" /\ call' = [call EXCEPT ![k].pc = "reverseOutcome"]
  BY <1>1 DEF Inv, RequestReversal, CallKnows
<1>3. rev' \in [Children -> Outcomes]
  BY <1>1, <1>2 DEF RequestReversal, Shared, SharedTypes, Driven, Outcomes
<1>4. Stable /\ Shared'
  BY <1>2, <1>3, ReversalStep
<1>5. Moved(k)
  <2>1. PICK pc \in Holding \ {"record"} : pc = "reverseOutcome"
    BY DEF Holding
  <2>2. call[k].cur = c /\ call' = [call EXCEPT ![k].pc = pc] /\ call[k].pc \in Holding
    BY <1>1, <1>2, <2>1 DEF Holding
  <2> QED BY <1>2, <1>4, <2>1, <2>2, HoldMoves
<1> QED BY <1>4, <1>5, MovedPreserves

\* What is made of the reversal's outcome.
LEMMA ReversalOutcomePreserves == ASSUME Inv, NEW k \in Calls, ReversalOutcome(k) PROVE Inv'
<1>1. PICK c \in Children : c = call[k].cur
  BY DEF Inv, ReversalOutcome, CallKnows, Holding
<1>2. PICK e \in {"RolledBack", "RollbackFailed"} : AppendSagaStep(e, c)
  <2> DEFINE f == IF rev[c] = "committed" THEN "RolledBack" ELSE "RollbackFailed"
  <2>1. AppendSagaStep(f, c)
    BY <1>1 DEF ReversalOutcome
  <2>2. f \in {"RolledBack", "RollbackFailed"}
    OBVIOUS
  <2> HIDE DEF f
  <2> QED BY <2>1, <2>2
<1>3. /\ Shared /\ top \notin Undecided /\ call[k].pc = "reverseOutcome" /\ UNCHANGED <<out, rev, crashes>>
      /\ NextChild(k, c)
  BY <1>1 DEF Inv, ReversalOutcome, CallKnows
<1>4. Stable /\ Shared'
  BY <1>2, <1>3, AppendSagaStepIsTrue DEF ChildStates
<1> QED BY <1>3, <1>4, NextChildMoves, MovedPreserves DEF Holding

\* The cancellation of a child that is staged, or was.
LEMMA CancelStagedChildPreserves == ASSUME Inv, NEW k \in Calls, CancelStagedChild(k) PROVE Inv'
<1>1. PICK c \in Children : c = call[k].cur
  BY DEF Inv, CancelStagedChild, CallKnows, Holding
<1>2. /\ Shared /\ call \in [Calls -> CallRecords] /\ top \notin Undecided /\ call[k].pc = "cancelStaged"
      /\ UNCHANGED <<stream, rev, crashes>>
  BY DEF Inv, CancelStagedChild, CallKnows
<1>3. CASE /\ out[c] \in {"staged", "cancelled"} /\ out' = [out EXCEPT ![c] = "cancelled"]
           /\ Record(k, "RolledBack")
  <2>1. Stable /\ Shared'
    BY <1>2, <1>3, OutcomeStep DEF Outcomes, Final
  <2> QED BY <1>2, <1>3, <2>1, RecordMoves, MovedPreserves DEF Holding
<1>4. CASE out' = out /\ (Record(k, "RollbackFailed") \/ Return(k))
  <2>1. Stable /\ Shared'
    BY <1>2, <1>4, QuietStep DEF Shared, SharedTypes
  <2> QED BY <1>2, <1>4, <2>1, RecordMoves, ReturnMoves, MovedPreserves DEF Holding
<1> QED BY <1>1, <1>3, <1>4 DEF CancelStagedChild

\* The cancellation of a child that is on its way.
LEMMA CancelAcceptedChildPreserves == ASSUME Inv, NEW k \in Calls, CancelAcceptedChild(k) PROVE Inv'
<1>1. PICK c \in Children : c = call[k].cur
  BY DEF Inv, CancelAcceptedChild, CallKnows, Holding
<1>2. /\ Shared /\ call \in [Calls -> CallRecords] /\ top \notin Undecided /\ call[k].pc = "cancelAccepted"
      /\ UNCHANGED <<stream, rev, crashes>>
  BY DEF Inv, CancelAcceptedChild, CallKnows
<1>3. CASE /\ out[c] \in {"inflight", "cancelled"} /\ out' = [out EXCEPT ![c] = "cancelled"]
           /\ Record(k, "RolledBack")
  <2>1. Stable /\ Shared'
    BY <1>2, <1>3, OutcomeStep DEF Outcomes, Final
  <2> QED BY <1>2, <1>3, <2>1, RecordMoves, MovedPreserves DEF Holding
<1>4. CASE out' = out /\ Return(k)
  <2>1. Stable /\ Shared'
    BY <1>2, <1>4, QuietStep DEF Shared, SharedTypes
  <2> QED BY <1>2, <1>4, <2>1, ReturnMoves, MovedPreserves
<1> QED BY <1>1, <1>3, <1>4 DEF CancelAcceptedChild

\* Steps that leave all calls alone.
LEMMA EnvironmentPreserves ==
    ASSUME Inv, Stable, Shared', UNCHANGED call
    PROVE  Inv'
BY KnowledgeIsStable DEF Inv

\* A Transfer's own clients settle it or its reversal.
LEMMA SettlePreserves ==
    ASSUME Inv, NEW c \in Children, Settle(c) \/ SettleReversal(c)
    PROVE  Inv'
<1>1. CASE Settle(c)
  <2>1. top \notin Undecided
    BY <1>1 DEF Inv, Shared, Settle
  <2>2. PICK o \in Outcomes \ {"none"} : out' = [out EXCEPT ![c] = o]
    BY <1>1 DEF Settle, SettledFrom, Driven, Outcomes
  <2>3. Stable /\ Shared'
    BY <1>1, <2>1, <2>2, OutcomeStep DEF Inv, Settle, Final
  <2> QED BY <1>1, <2>3, EnvironmentPreserves DEF Settle
<1>2. CASE SettleReversal(c)
  <2>1. rev' \in [Children -> Outcomes]
    BY <1>2 DEF SettleReversal, SettledFrom, Driven, Outcomes, Inv, Shared, SharedTypes
  <2>2. Stable /\ Shared'
    BY <1>2, <2>1, ReversalStep DEF Inv, SettleReversal
  <2> QED BY <1>2, <2>2, EnvironmentPreserves DEF SettleReversal
<1> QED BY <1>1, <1>2

\* A call that dies leaves the stream and the children as they are.
LEMMA CrashPreserves == ASSUME Inv, NEW k \in Calls, Crash(k) PROVE Inv'
<1>1. crashes' \in 0..MaxCrashes
  BY TransactionAssumption DEF Crash, Inv, Shared, SharedTypes
<1>2. Stable /\ Shared'
  BY <1>1, QuietStep DEF Inv, Crash
<1> QED BY <1>2, ReturnMoves, MovedPreserves DEF Inv, Crash

\* Every step preserves the invariant.
LEMMA NextPreserves == ASSUME Inv, [Next]_vars PROVE Inv'
<1>1. ASSUME NEW k \in Calls, CallStep(k) PROVE Inv'
  BY <1>1, RunSagaPreserves, AppendTopLevelPreserves, ReconcilePreserves, ReconciledPreserves,
     DispatchPreserves, RequestChildPreserves, RecordChildPreserves, SweepDonePreserves,
     RollbackChildPreserves, RequestReversalPreserves, ReversalOutcomePreserves,
     CancelStagedChildPreserves, CancelAcceptedChildPreserves
  DEF CallStep
<1>2. ASSUME UNCHANGED vars PROVE Inv'
  <2>1. Stable /\ Shared'
    BY <1>2, QuietStep DEF Inv, vars, Shared, SharedTypes
  <2> QED BY <1>2, <2>1, EnvironmentPreserves DEF vars
<1> QED BY <1>1, <1>2, CrashPreserves, StartInitializingPreserves, StartPreserves, SettlePreserves DEF Next

\* The invariant holds throughout.
LEMMA InvHolds == Spec => []Inv
<1>1. Init => Inv
  BY InvInit
<1>2. Inv /\ [Next]_vars => Inv'
  BY NextPreserves
<1> QED BY <1>1, <1>2, PTL DEF Spec

\* The folds, the outcomes and the calls' locals stay within their types, and a
\* reversal is requested of committed children only (rollbackChild).
THEOREM TypeCorrect == Spec => []TypeOK
<1>1. Inv => TypeOK
  BY DEF Inv, Shared, SharedTypes, CallKnows, TypeOK
<1> QED BY <1>1, InvHolds, PTL

\* dispatchReady and StartProcessingTransfer never request a child before all
\* its parents have committed, from however stale a fold.
THEOREM AlwaysParentsFirst == Spec => []ParentsFirst
<1>1. Inv => ParentsFirst
  BY DEF Inv, Shared
<1> QED BY <1>1, InvHolds, PTL

\* What reconcileInFlight and requestChildTransfer record of a child is true,
\* and stays true.
THEOREM AlwaysChildFactsHold == Spec => []ChildFactsHold
<1>1. Inv => ChildFactsHold
  BY DEF Inv, Shared
<1> QED BY <1>1, InvHolds, PTL

\* TransactionCompleted is recorded only over a DAG whose children all committed,
\* whatever else the other calls record meanwhile.
THEOREM AlwaysCompletedIsEarned == Spec => []CompletedIsEarned
<1>1. Inv => CompletedIsEarned
  BY DEF Inv, Shared
<1> QED BY <1>1, InvHolds, PTL

\* StartInitializingTransaction runs only DAGs that can be run to their end, and
\* validateDAG turns none away that have no dangling reference and no cycle.
THEOREM AlwaysAcceptedIsAcyclic == Spec => []AcceptedIsAcyclic
<1>1. \A r \in Requests : validateDAG(r) <=> References(r) /\ WellFounded(parentsOf(r))
  BY TransactionAssumption, ValidateDAGIsExact
<1>2. Inv => AcceptedIsAcyclic
  BY <1>1 DEF Inv, Shared, AcceptedIsAcyclic
<1> QED BY <1>2, InvHolds, PTL
-----------------------------------------------------------------------------
(* Behaviours without overlapping calls.  Nothing in the server enforces     *)
(* them: each theorem below assumes []NoOverlap of the behaviour, whatever   *)
(* the number of calls, and overlapping calls do break its conclusion.       *)

\* At most one call is running on the Transaction; it may still die half-way.
NoOverlap == \A j, k \in Calls : call[j].pc # "idle" /\ call[k].pc # "idle" => j = k

\* Not, or no longer, there to be rolled back.
Undone == {"Untouched", "RolledBack"}

RollingBack == {"RollbackStarted", "RolledBack", "RollbackFailed"}

\* Nothing that depends on child c is there to be rolled back.
DependentsUndone(c) == \A d \in DOMAIN deps : c \in deps[d] => child[d] \in Undone

\* What the fold says of a child when no two calls append behind each other.
FoldIsExact ==
    \A c \in Children :
        /\ child[c] = "Untouched" => \A e \in ChildStates : ~Recorded(e, c)
        /\ child[c] = "Gated" => ~Recorded("Requested", c)
        /\ child[c] = "RolledBack" /\ Recorded("Requested", c) => ~Standing(c)
        /\ child[c] # "Untouched" => c \in DOMAIN deps
        /\ Recorded("Requested", c) => out[c] # "none"

\* A reversal exists only during a rollback that has undone all dependents.
ReversalsInOrder ==
    \A c \in Children : rev[c] # "none" => top \in RollingBack /\ DependentsUndone(c)

\* The fold of the top-level events: a finished rollback left nothing behind.
TopIsExact ==
    /\ top # "Unknown" => Recorded(top, NoChild)
    /\ top = "RolledBack" => \A c \in Children : child[c] \in Undone

StreamIsExact == FoldIsExact /\ ReversalsInOrder /\ TopIsExact

\* What the only running call k knows of a sweep: nobody else appends meanwhile.
SweepKnows(k) ==
    /\ call[k].back \in {"reconcile", "dispatch"} => top = "Started"
    /\ call[k].back = "rollback" => top = "RollbackStarted"
    /\ call[k].back = "reconcile" => \A c \in call[k].todo : child[c] = "Requested"
    /\ call[k].back = "dispatch" =>
         /\ \A c \in call[k].todo : child[c] = "Untouched"
         /\ call[k].todo # {} \/ call[k].progressed
    /\ call[k].back = "rollback" =>
         \A c \in call[k].todo :
             /\ child[c] = call[k].seen[c]
             /\ child[c] \notin Undone \union {"RollbackFailed"}
             /\ DependentsUndone(c)
    /\ call[k].back \in {"reconcile", "rollback"} /\ ~call[k].progressed => child = call[k].seen
    /\ call[k].back = "rollback" /\ ~call[k].progressed =>
         call[k].todo = {c \in readyToRollback(child) : child[c] # "RollbackFailed"}

\* What it knows of the child in hand.
HandKnows(k) ==
    /\ call[k].pc \in Holding =>
         /\ call[k].back # "runSaga" => call[k].cur \in call[k].todo
         /\ call[k].back = "runSaga" => child[call[k].cur] = "Gated"
    /\ call[k].pc \in Holding \ {"request", "record"} => call[k].back = "rollback"
    /\ call[k].pc = "request" => call[k].back # "rollback"
    /\ call[k].pc = "record" =>
         /\ call[k].back = "rollback" <=> call[k].event \in {"RolledBack", "RollbackFailed"}
         /\ call[k].event = "Requested" => out[call[k].cur] # "none"
         /\ call[k].event = "RolledBack" => out[call[k].cur] = "cancelled"

\* What it knows when it is about to append a top-level event.
AppendKnows(k) ==
    call[k].pc = "append" =>
        /\ call[k].event \in {"Started", "RollbackStarted", "Completed", "RollbackFailed", "RolledBack"}
        /\ call[k].event = "Started" => top = "Initialized"
        /\ call[k].event \in {"RollbackStarted", "Completed"} => top = "Started"
        /\ call[k].event \in {"RollbackFailed", "RolledBack"} => top = "RollbackStarted"
        /\ call[k].event = "RolledBack" => \A c \in Children : child[c] \in Undone

OnlyCallKnows(k) == SweepKnows(k) /\ HandKnows(k) /\ AppendKnows(k)

OnlyInv == StreamIsExact /\ \A k \in Calls : OnlyCallKnows(k)

\* What the stream is exact about does not change with the calls.
LEMMA QuietIsExact ==
    ASSUME StreamIsExact, UNCHANGED <<stream, out, rev>>
    PROVE  StreamIsExact'
BY DEF StreamIsExact, FoldIsExact, ReversalsInOrder, TopIsExact, stream, Recorded, Standing,
       DependentsUndone

\* An event of a child that is being requested, settled or rolled back.
LEMMA ChildEventIsExact ==
    ASSUME Shared, StreamIsExact, NEW c \in Children, NEW e \in ChildStates \ {"Untouched"},
           AppendSagaStep(e, c), UNCHANGED <<out, rev>>,
           c \in DOMAIN deps,
           e = "Gated" => child[c] = "Untouched",
           e = "Requested" => child[c] \in {"Untouched", "Gated"} /\ out[c] # "none",
           e = "RolledBack" /\ Recorded("Requested", c) => ~Standing(c),
           top = "Started" \/ child[c] \notin Undone
    PROVE  StreamIsExact'
<1>0. NoChild \notin Children /\ child \in [Children -> ChildStates]
  BY TransactionAssumption DEF Shared, SharedTypes
<1>1. /\ recorded' = recorded \union {<<e, c>>} /\ top' = top /\ deps' = deps
      /\ child' = child \/ (<<e, c>> \notin recorded /\ child' = [child EXCEPT ![c] = e])
  BY <1>0 DEF AppendSagaStep
<1>2. \A f, b : Recorded(f, b)' <=> Recorded(f, b) \/ (f = e /\ b = c)
  BY <1>1 DEF Recorded
<1>3. \A b \in Children : b # c => child'[b] = child[b]
  BY <1>0, <1>1
<1>4. child'[c] = e \/ (child'[c] = child[c] /\ Recorded(e, c))
  BY <1>0, <1>1 DEF AppendSagaStep, Recorded
<1>5. \A b : Standing(b)' <=> Standing(b)
  BY DEF Standing
<1>6. FoldIsExact'
  <2> SUFFICES ASSUME NEW b \in Children
               PROVE  (/\ child[b] = "Untouched" => \A f \in ChildStates : ~Recorded(f, b)
                       /\ child[b] = "Gated" => ~Recorded("Requested", b)
                       /\ child[b] = "RolledBack" /\ Recorded("Requested", b) => ~Standing(b)
                       /\ child[b] # "Untouched" => b \in DOMAIN deps
                       /\ Recorded("Requested", b) => out[b] # "none")'
    BY DEF FoldIsExact
  <2>1. CASE b # c
    BY <1>1, <1>2, <1>3, <1>5, <2>1 DEF StreamIsExact, FoldIsExact
  <2>2. CASE b = c
    <3>1. CASE child'[c] = e
      BY <1>1, <1>2, <1>5, <2>2, <3>1 DEF StreamIsExact, FoldIsExact, ChildStates
    <3>2. CASE child'[c] = child[c] /\ Recorded(e, c)
      <4>1. \A f : Recorded(f, c)' <=> Recorded(f, c)
        BY <1>2, <3>2
      <4> QED BY <1>1, <1>5, <2>2, <3>2, <4>1 DEF StreamIsExact, FoldIsExact
    <3> QED BY <1>4, <3>1, <3>2
  <2> QED BY <2>1, <2>2
<1>7. \A b \in Children : rev[b] # "none" => top \in RollingBack /\ DependentsUndone(b)
  BY DEF StreamIsExact, ReversalsInOrder
<1>8. ReversalsInOrder'
  <2> SUFFICES ASSUME NEW b \in Children, rev'[b] # "none"
               PROVE  top' \in RollingBack /\ DependentsUndone(b)'
    BY DEF ReversalsInOrder
  <2>1. top \in RollingBack /\ DependentsUndone(b) /\ child[c] \notin Undone
    BY <1>7 DEF RollingBack
  <2>2. DOMAIN deps \subseteq Children
    BY DEF Shared, SharedTypes
  <2>3. DependentsUndone(b)'
    BY <1>1, <1>3, <2>1, <2>2 DEF DependentsUndone
  <2> QED BY <1>1, <2>1, <2>3
<1>9. TopIsExact'
  BY <1>1, <1>2 DEF StreamIsExact, TopIsExact
<1> QED BY <1>6, <1>8, <1>9 DEF StreamIsExact

\* A child Transfer goes on to another outcome.
LEMMA OutcomeIsExact ==
    ASSUME Shared, StreamIsExact, NEW c \in Children, NEW o \in Outcomes \ {"none"},
           out' = [out EXCEPT ![c] = o], out[c] \in Final => o = out[c],
           UNCHANGED <<stream, rev>>
    PROVE  StreamIsExact'
<1>1. /\ UNCHANGED <<top, child, recorded, deps, rev>> /\ out \in [Children -> Outcomes]
  BY DEF stream, Shared, SharedTypes
<1>2. \A f, b : Recorded(f, b)' <=> Recorded(f, b)
  BY <1>1 DEF Recorded
<1>3. \A b \in Children : out[b] # "none" => out'[b] # "none" /\ (~Standing(b) => ~Standing(b)')
  BY <1>1 DEF Standing, Final, Outcomes
<1>4. FoldIsExact'
  BY <1>1, <1>2, <1>3 DEF StreamIsExact, FoldIsExact
<1>5. ReversalsInOrder' /\ TopIsExact'
  BY <1>1, <1>2 DEF StreamIsExact, ReversalsInOrder, TopIsExact, DependentsUndone
<1> QED BY <1>4, <1>5 DEF StreamIsExact

\* The reversal of a child goes on, or is requested in its turn.
LEMMA ReversalIsExact ==
    ASSUME Shared, StreamIsExact, NEW c \in Children, NEW o \in Outcomes \ {"none"},
           rev' = [rev EXCEPT ![c] = o], rev[c] = "committed" => o = "committed",
           rev[c] # "none" \/ (top = "RollbackStarted" /\ DependentsUndone(c)),
           UNCHANGED <<stream, out>>
    PROVE  StreamIsExact'
<1>1. /\ UNCHANGED <<top, child, recorded, deps, out>> /\ rev \in [Children -> Outcomes]
  BY DEF stream, Shared, SharedTypes
<1>2. \A f, b : Recorded(f, b)' <=> Recorded(f, b)
  BY <1>1 DEF Recorded
<1>3. \A b \in Children : ~Standing(b) => ~Standing(b)'
  BY <1>1 DEF Standing
<1>4. FoldIsExact'
  BY <1>1, <1>2, <1>3 DEF StreamIsExact, FoldIsExact
<1>5. \A b : DependentsUndone(b)' <=> DependentsUndone(b)
  BY <1>1 DEF DependentsUndone
<1>6. ReversalsInOrder'
  BY <1>1, <1>5 DEF StreamIsExact, ReversalsInOrder, RollingBack
<1>7. TopIsExact'
  BY <1>1, <1>2 DEF StreamIsExact, TopIsExact
<1> QED BY <1>4, <1>6, <1>7 DEF StreamIsExact

\* In a DAG every non-empty set of children has one that no other depends on:
\* as long as something is left to roll back, something can be.
LEMMA SomeChildIsLast ==
    ASSUME NEW d, IsFiniteSet(DOMAIN d), Acyclic(d), NEW A, A \subseteq DOMAIN d, A # {}
    PROVE  \E c \in A : \A x \in A : c \notin d[x]
<1> DEFINE N == Cardinality(DOMAIN d)
<1>0. N \in Nat /\ N \in 0..N
  BY FS_CardinalityType
<1>1. PICK f : Rounds(f, DOMAIN d, d, N) /\ f[N] = DOMAIN d
  BY <1>0, AcyclicByRounds
<1>2. /\ f[0] = {}
      /\ \A m \in 0..N : m + 1 \in 0..N => f[m + 1] = Round(DOMAIN d, d, f[m])
  <2>1. N \in Nat /\ Rounds(f, DOMAIN d, d, N)
    BY <1>0, <1>1
  <2> HIDE DEF N
  <2> QED BY ONLY <2>1, RoundsStep
<1> DEFINE M == {n \in 0..N : A \subseteq f[n]}
<1>3. PICK n \in M : \A m \in M : n <= m
  <2>1. M \subseteq Nat /\ M # {}
    BY <1>0, <1>1
  <2> QED BY <2>1, LeastElement
<1>4. PICK m \in Nat : n = m + 1
  <2>1. n \in Nat /\ n # 0
    BY <1>0, <1>2, <1>3
  <2>2. n - 1 \in Nat /\ n = (n - 1) + 1
    BY <2>1
  <2> QED BY <2>2
<1>5. m \in 0..N /\ n \in 0..N /\ ~(n <= m)
  BY <1>0, <1>3, <1>4
<1>6. f[n] = {c \in DOMAIN d : d[c] \subseteq f[m]} /\ A \subseteq f[n]
  BY <1>2, <1>3, <1>4, <1>5 DEF Round
<1>7. PICK c \in A : c \notin f[m]
  BY <1>3, <1>5
<1> QED BY <1>6, <1>7

\* A rollback that finds nothing ready to be rolled back has nothing left.
LEMMA NothingReadyMeansUndone ==
    ASSUME Shared, StreamIsExact, top \notin Undecided, readyToRollback(child) = {}
    PROVE  \A c \in Children : child[c] \in Undone
<1> DEFINE A == {c \in DOMAIN deps : Active(child, c)}
<1>1. Acyclic(deps) /\ IsFiniteSet(DOMAIN deps)
  <2>1. PICK r \in Requests : validateDAG(r) /\ deps = parentsOf(r)
    BY DEF Shared
  <2>2. DOMAIN deps = DOMAIN r.ids
    BY <2>1 DEF parentsOf
  <2> QED BY <2>1, <2>2, TransactionAssumption DEF validateDAG
<1>2. ASSUME A # {} PROVE FALSE
  <2>1. A \subseteq DOMAIN deps
    OBVIOUS
  <2>2. PICK c \in A : \A x \in A : c \notin deps[x]
    <3> HIDE DEF A
    <3> QED BY <1>1, <1>2, <2>1, SomeChildIsLast
  <2>3. c \in readyToRollback(child)
    BY <2>2 DEF readyToRollback
  <2> QED BY <2>3
<1>3. ASSUME NEW c \in Children, child[c] \notin Undone PROVE FALSE
  <2>1. c \in A
    BY <1>3 DEF Active, Undone, StreamIsExact, FoldIsExact
  <2> QED BY <1>2, <2>1
<1> QED BY <1>3

-----------------------------------------------------------------------------
(* What the helpers that move the only call make it know.                    *)

\* Outside of sweeps, without a child in hand and a decision, nothing is known.
LEMMA FreeCallKnows ==
    ASSUME NEW k, call'[k].back \notin Sweeping, call'[k].pc \notin Holding \union {"append"}
    PROVE  OnlyCallKnows(k)'
BY DEF OnlyCallKnows, SweepKnows, HandKnows, AppendKnows, Sweeping, Holding

\* A call that returned, or is back at the top of the loop, knows nothing.
LEMMA RestartedCallKnows ==
    ASSUME call \in [Calls -> CallRecords], NEW k \in Calls, Return(k) \/ Loop(k)
    PROVE  OnlyCallKnows(k)'
<1>1. call'[k].back = "idle" /\ call'[k].pc \in {"idle", "runSaga"}
  BY DEF Return, Loop, Idle
<1> QED BY <1>1, FreeCallKnows DEF Sweeping, Holding

\* A decision about the top-level state is made in the state it ends.
LEMMA DecidedCallKnows ==
    ASSUME call \in [Calls -> CallRecords], NEW k \in Calls, NEW e, AppendTop(k, e),
           e \in {"Started", "RollbackStarted", "Completed", "RollbackFailed", "RolledBack"},
           e = "Started" => top' = "Initialized",
           e \in {"RollbackStarted", "Completed"} => top' = "Started",
           e \in {"RollbackFailed", "RolledBack"} => top' = "RollbackStarted",
           e = "RolledBack" => \A c \in Children : child'[c] \in Undone
    PROVE  OnlyCallKnows(k)'
<1>1. call'[k].back = "idle" /\ call'[k].pc = "append" /\ call'[k].event = e
  BY DEF AppendTop, Idle
<1>2. SweepKnows(k)' /\ HandKnows(k)'
  BY <1>1 DEF SweepKnows, HandKnows, Holding
<1>3. AppendKnows(k)'
  BY <1>1 DEF AppendKnows
<1> QED BY <1>2, <1>3 DEF OnlyCallKnows

\* The record of a sweep that has just begun.
LEMMA SweepFields ==
    ASSUME call \in [Calls -> CallRecords], NEW k \in Calls, NEW pc, NEW states, NEW todo,
           Sweep(k, pc, states, todo)
    PROVE  /\ call'[k].pc = pc /\ call'[k].back = pc /\ call'[k].seen = states
           /\ call'[k].todo = todo /\ call'[k].progressed = FALSE
BY DEF Sweep, Idle

\* The record of a call that is done with a child.
LEMMA NextChildFields ==
    ASSUME call \in [Calls -> CallRecords], NEW k \in Calls, NEW c, NextChild(k, c)
    PROVE  /\ call'[k].pc = call[k].back /\ call'[k].back = call[k].back
           /\ call'[k].seen = call[k].seen /\ call'[k].todo = call[k].todo \ {c}
           /\ call'[k].progressed = TRUE
BY DEF NextChild, CallRecords

\* The record of a call that took a child in hand.
LEMMA TakeChildFields ==
    ASSUME call \in [Calls -> CallRecords], NEW k \in Calls, NEW c, NEW pc, TakeChild(k, c, pc)
    PROVE  /\ call'[k].pc = pc /\ call'[k].cur = c /\ call'[k].back = call[k].back
           /\ call'[k].seen = call[k].seen /\ call'[k].todo = call[k].todo
           /\ call'[k].progressed = call[k].progressed
BY DEF TakeChild, CallRecords

\* The record of a call that is about to record what became of its child.
LEMMA RecordFields ==
    ASSUME call \in [Calls -> CallRecords], NEW k \in Calls, NEW e, Record(k, e)
    PROVE  /\ call'[k].pc = "record" /\ call'[k].event = e /\ call'[k].cur = call[k].cur
           /\ call'[k].back = call[k].back /\ call'[k].seen = call[k].seen
           /\ call'[k].todo = call[k].todo /\ call'[k].progressed = call[k].progressed
BY DEF Record, CallRecords

\* A sweep goes on as long as the stream stays as it is.
LEMMA SweepIsStable ==
    ASSUME NEW k, SweepKnows(k), UNCHANGED stream,
           call'[k].back = call[k].back, call'[k].seen = call[k].seen,
           call'[k].todo = call[k].todo, call'[k].progressed = call[k].progressed
    PROVE  SweepKnows(k)'
<1>1. UNCHANGED <<top, child, deps>>
  BY DEF stream
<1>2. \A c : DependentsUndone(c)' <=> DependentsUndone(c)
  BY <1>1 DEF DependentsUndone
<1>3. readyToRollback(child)' = readyToRollback(child)
  BY <1>1 DEF readyToRollback, Active
<1> QED BY <1>1, <1>2, <1>3 DEF SweepKnows

\* A call that is done with child c knows of the others what it knew before.
LEMMA NextChildKnows ==
    ASSUME call \in [Calls -> CallRecords], NEW k \in Calls, SweepKnows(k), Shared,
           NEW c \in Children, NEW e, AppendSagaStep(e, c), NextChild(k, c),
           call[k].back \in {"reconcile", "dispatch", "rollback", "runSaga"},
           call[k].back = "rollback" => c \in call[k].todo
    PROVE  OnlyCallKnows(k)'
<1>0. NoChild \notin Children /\ child \in [Children -> ChildStates] /\ DOMAIN deps \subseteq Children
  BY TransactionAssumption DEF Shared, SharedTypes
<1>1. top' = top /\ deps' = deps /\ \A b \in Children : b # c => child'[b] = child[b]
  BY <1>0 DEF AppendSagaStep
<1>2. /\ call'[k].pc = call[k].back /\ call'[k].back = call[k].back
      /\ call'[k].seen = call[k].seen /\ call'[k].todo = call[k].todo \ {c}
      /\ call'[k].progressed = TRUE
  BY NextChildFields
<1>3. call[k].todo \subseteq Children
  BY DEF CallRecords
<1>4. ASSUME call[k].back = "rollback", NEW b \in call[k].todo, DependentsUndone(b)
      PROVE  DependentsUndone(b)'
  <2>1. child[c] \notin Undone
    BY <1>4 DEF SweepKnows
  <2> QED BY <1>0, <1>1, <1>4, <2>1 DEF DependentsUndone
<1>5. SweepKnows(k)'
  <2>1. \A b \in call'[k].todo : b \in call[k].todo /\ child'[b] = child[b]
    BY <1>1, <1>2, <1>3
  <2>2. call'[k].back = "rollback" =>
          \A b \in call'[k].todo :
             /\ child'[b] = call'[k].seen[b]
             /\ child'[b] \notin Undone \union {"RollbackFailed"}
             /\ DependentsUndone(b)'
    BY <1>2, <1>4, <2>1 DEF SweepKnows
  <2> QED BY <1>1, <1>2, <2>1, <2>2 DEF SweepKnows
<1>6. HandKnows(k)' /\ AppendKnows(k)'
  BY <1>2 DEF HandKnows, AppendKnows, Holding
<1> QED BY <1>5, <1>6 DEF OnlyCallKnows

-----------------------------------------------------------------------------
(* The actions of the only call.                                             *)

OnlyStep(k) == StreamIsExact' /\ OnlyCallKnows(k)'

\* What is known before a step.
LEMMA OnlyFacts ==
    ASSUME Inv, OnlyInv, NEW k \in Calls
    PROVE  /\ Shared /\ StreamIsExact /\ CallKnows(k) /\ call \in [Calls -> CallRecords]
           /\ SweepKnows(k) /\ HandKnows(k) /\ AppendKnows(k)
BY DEF Inv, OnlyInv, OnlyCallKnows

\* The child in hand is of the DAG, and in a state that lets it be recorded.
LEMMA InHandFacts ==
    ASSUME Inv, OnlyInv, NEW k \in Calls, call[k].pc \in Holding
    PROVE  /\ call[k].cur \in Children /\ call[k].cur \in DOMAIN deps
           /\ call[k].back \in {"dispatch", "rollback", "runSaga"}
           /\ call[k].back = "dispatch" => top = "Started" /\ child[call[k].cur] = "Untouched"
           /\ call[k].back = "rollback" =>
                /\ top = "RollbackStarted" /\ call[k].cur \in call[k].todo
                /\ child[call[k].cur] \notin Undone /\ DependentsUndone(call[k].cur)
           /\ call[k].back = "runSaga" => child[call[k].cur] = "Gated"
<1>1. /\ Shared /\ StreamIsExact /\ CallKnows(k) /\ SweepKnows(k) /\ HandKnows(k)
  BY OnlyFacts
<1>2. call[k].cur \in Children /\ call[k].back \in {"dispatch", "rollback", "runSaga"}
  BY <1>1 DEF CallKnows
<1>3. call[k].back # "runSaga" => call[k].cur \in call[k].todo
  BY <1>1 DEF HandKnows
<1>4. /\ call[k].back = "dispatch" => top = "Started" /\ child[call[k].cur] = "Untouched"
      /\ call[k].back = "rollback" =>
                /\ top = "RollbackStarted" /\ call[k].cur \in call[k].todo
                /\ child[call[k].cur] \notin Undone /\ DependentsUndone(call[k].cur)
      /\ call[k].back = "runSaga" => child[call[k].cur] = "Gated"
  BY <1>1, <1>2, <1>3 DEF SweepKnows, HandKnows
<1>5. call[k].cur \in DOMAIN deps
  <2>1. CASE call[k].back = "dispatch"
    BY <1>1, <1>3, <2>1 DEF CallKnows, Ready
  <2>2. CASE call[k].back # "dispatch"
    BY <1>1, <1>2, <1>4, <2>2 DEF StreamIsExact, FoldIsExact, Undone
  <2> QED BY <2>1, <2>2
<1> QED BY <1>2, <1>4, <1>5

\* StartInitializingTransaction, for either decision.
LEMMA StartInitializingOnly ==
    ASSUME Inv, OnlyInv, NEW k \in Calls, NEW r, StartInitializingTransaction(k, r)
    PROVE  OnlyStep(k)
<1>1. /\ Shared /\ StreamIsExact /\ call \in [Calls -> CallRecords] /\ call[k] = Idle
      /\ top = "Unknown" /\ recorded = {}
  BY OnlyFacts DEF StartInitializingTransaction, CallKnows, Shared
<1>2. \A c \in Children : child[c] = "Untouched" /\ rev[c] = "none"
  BY <1>1 DEF Shared, StreamIsExact, ReversalsInOrder, RollingBack, Recorded
<1>3. /\ top' \in {"Initialized", "Rejected"} /\ recorded' = {<<top', NoChild>>}
      /\ UNCHANGED <<child, out, rev>>
  BY DEF StartInitializingTransaction
<1>4. \A c \in Children : \A e : ~Recorded(e, c)'
  BY <1>3, TransactionAssumption DEF Recorded
<1>5. FoldIsExact' /\ ReversalsInOrder'
  BY <1>2, <1>3, <1>4 DEF FoldIsExact, ReversalsInOrder
<1>6. TopIsExact'
  BY <1>3 DEF TopIsExact, Recorded
<1>7. OnlyCallKnows(k)'
  <2>1. CASE validateDAG(r)
    BY <1>1, <2>1, RestartedCallKnows DEF StartInitializingTransaction
  <2>2. CASE ~validateDAG(r)
    <3>1. call'[k].back = "idle" /\ call'[k].pc = "idle"
      BY <1>1, <2>2 DEF StartInitializingTransaction, Idle
    <3> QED BY <3>1, FreeCallKnows DEF Sweeping, Holding
  <2> QED BY <2>1, <2>2
<1> QED BY <1>5, <1>6, <1>7 DEF OnlyStep, StreamIsExact

\* ResumeTransaction, StartProcessingTransfer and StartTransactionRollback.
LEMMA StartOnly ==
    ASSUME Inv, OnlyInv, NEW k \in Calls, NEW r, Start(k, r)
    PROVE  OnlyStep(k)
<1>0. UNCHANGED <<stream, out, rev>>
  BY DEF Start, ResumeTransaction, StartProcessingTransfer, StartTransactionRollback
<1>1. /\ StreamIsExact' /\ call \in [Calls -> CallRecords] /\ CallKnows(k)
      /\ UNCHANGED <<top, child>>
  BY <1>0, OnlyFacts, QuietIsExact DEF stream
<1>2. CASE ResumeTransaction(k)
  BY <1>1, <1>2, RestartedCallKnows DEF ResumeTransaction, OnlyStep
<1>3. CASE StartTransactionRollback(k)
  BY <1>1, <1>3, DecidedCallKnows DEF StartTransactionRollback, OnlyStep
<1>4. ASSUME NEW c \in Children, StartProcessingTransfer(k, c) PROVE OnlyStep(k)
  <2>1. /\ call'[k].pc = "request" /\ call'[k].cur = c /\ call'[k].back = "runSaga"
        /\ child'[c] = "Gated"
    BY <1>1, <1>4 DEF StartProcessingTransfer, CallRecords
  <2>2. SweepKnows(k)' /\ HandKnows(k)' /\ AppendKnows(k)'
    BY <2>1 DEF SweepKnows, HandKnows, AppendKnows
  <2> QED BY <1>1, <2>2 DEF OnlyStep, OnlyCallKnows
<1> QED BY <1>2, <1>3, <1>4 DEF Start

\* The top of the loop: the sweeps start from the fold as it is.
LEMMA RunSagaOnly == ASSUME Inv, OnlyInv, NEW k \in Calls, RunSaga(k) PROVE OnlyStep(k)
<1>0. UNCHANGED <<stream, out, rev>>
  BY DEF RunSaga
<1>1. /\ StreamIsExact' /\ call \in [Calls -> CallRecords] /\ UNCHANGED <<top, child, deps>>
  BY <1>0, OnlyFacts, QuietIsExact DEF stream
<1>2. CASE top = "Initialized" /\ AppendTop(k, "Started")
  BY <1>1, <1>2, DecidedCallKnows DEF OnlyStep
<1>3. CASE top = "Started" /\ Sweep(k, "reconcile", child, {c \in Children : child[c] = "Requested"})
  <2>1. /\ call'[k].pc = "reconcile" /\ call'[k].back = "reconcile" /\ call'[k].seen = child
        /\ call'[k].todo = {c \in Children : child[c] = "Requested"}
    BY <1>1, <1>3, SweepFields
  <2>2. SweepKnows(k)' /\ HandKnows(k)' /\ AppendKnows(k)'
    BY <1>1, <1>3, <2>1 DEF SweepKnows, HandKnows, AppendKnows, Holding
  <2> QED BY <1>1, <2>2 DEF OnlyStep, OnlyCallKnows
<1>4. CASE /\ top = "RollbackStarted"
           /\ Sweep(k, "rollback", child, {c \in readyToRollback(child) : child[c] # "RollbackFailed"})
  <2>1. /\ call'[k].pc = "rollback" /\ call'[k].back = "rollback" /\ call'[k].seen = child
        /\ call'[k].todo = {c \in readyToRollback(child) : child[c] # "RollbackFailed"}
    BY <1>1, <1>4, SweepFields
  <2>2. readyToRollback(child)' = readyToRollback(child)
    BY <1>1 DEF readyToRollback, Active
  <2>3. \A c \in readyToRollback(child) : child[c] \notin Undone /\ DependentsUndone(c)'
    BY <1>1 DEF readyToRollback, Active, Undone, DependentsUndone
  <2>4. SweepKnows(k)'
    BY <1>1, <1>4, <2>1, <2>2, <2>3 DEF SweepKnows
  <2>5. HandKnows(k)' /\ AppendKnows(k)'
    BY <2>1 DEF HandKnows, AppendKnows, Holding
  <2> QED BY <1>1, <2>4, <2>5 DEF OnlyStep, OnlyCallKnows
<1>5. CASE Return(k)
  BY <1>1, <1>5, RestartedCallKnows DEF OnlyStep
<1> QED BY <1>2, <1>3, <1>4, <1>5 DEF RunSaga

\* A top-level event lands on the state it was decided in.
LEMMA AppendTopLevelOnly == ASSUME Inv, OnlyInv, NEW k \in Calls, AppendTopLevel(k) PROVE OnlyStep(k)
<1>1. /\ Shared /\ StreamIsExact /\ AppendKnows(k) /\ call \in [Calls -> CallRecords]
      /\ call[k].pc = "append" /\ UNCHANGED <<out, rev>>
  BY OnlyFacts DEF AppendTopLevel
<1>2. PICK e : e = call[k].event
  OBVIOUS
<1>3. /\ recorded' = recorded \union {<<e, NoChild>>} /\ deps' = deps /\ child' = child
      /\ (top' = e /\ <<e, NoChild>> \notin recorded) \/ (top' = top /\ <<e, NoChild>> \in recorded)
  BY <1>2 DEF AppendTopLevel, AppendSagaStep
<1>4. \A b \in Children : \A f : Recorded(f, b)' <=> Recorded(f, b)
  BY <1>3, TransactionAssumption DEF Recorded
<1>5. FoldIsExact'
  BY <1>1, <1>3, <1>4 DEF StreamIsExact, FoldIsExact, Standing
<1>6. ReversalsInOrder'
  <2>1. top \in RollingBack => top' \in RollingBack
    BY <1>1, <1>2, <1>3 DEF AppendKnows, RollingBack
  <2>2. \A c : DependentsUndone(c)' <=> DependentsUndone(c)
    BY <1>3 DEF DependentsUndone
  <2> QED BY <1>1, <2>1, <2>2 DEF StreamIsExact, ReversalsInOrder
<1>7. TopIsExact'
  BY <1>1, <1>2, <1>3 DEF StreamIsExact, TopIsExact, AppendKnows, Recorded
<1>8. OnlyCallKnows(k)'
  BY <1>1, RestartedCallKnows DEF AppendTopLevel
<1> QED BY <1>5, <1>6, <1>7, <1>8 DEF OnlyStep, StreamIsExact

\* A record of the only call about the child c in hand or in its sweep.
LEMMA ChildEventOnly ==
    ASSUME Inv, OnlyInv, NEW k \in Calls, NEW c \in Children, NEW e \in ChildStates \ {"Untouched"},
           AppendSagaStep(e, c), NextChild(k, c), UNCHANGED <<out, rev>>,
           call[k].back \in {"reconcile", "dispatch", "rollback", "runSaga"},
           call[k].back = "rollback" => c \in call[k].todo,
           c \in DOMAIN deps,
           e = "Gated" => child[c] = "Untouched",
           e = "Requested" => child[c] \in {"Untouched", "Gated"} /\ out[c] # "none",
           e = "RolledBack" /\ Recorded("Requested", c) => ~Standing(c),
           top = "Started" \/ child[c] \notin Undone
    PROVE  OnlyStep(k)
<1>1. /\ Shared /\ StreamIsExact /\ SweepKnows(k) /\ call \in [Calls -> CallRecords]
  BY OnlyFacts
<1>2. StreamIsExact'
  BY <1>1, ChildEventIsExact
<1>3. OnlyCallKnows(k)'
  BY <1>1, NextChildKnows
<1> QED BY <1>2, <1>3 DEF OnlyStep

\* reconcileInFlight.
LEMMA ReconcileOnly == ASSUME Inv, OnlyInv, NEW k \in Calls, Reconcile(k) PROVE OnlyStep(k)
<1>0. /\ Shared /\ StreamIsExact /\ SweepKnows(k) /\ call \in [Calls -> CallRecords]
      /\ call[k].pc = "reconcile" /\ call[k].back = "reconcile" /\ UNCHANGED <<out, rev>>
  BY OnlyFacts DEF Reconcile, CallKnows, Sweeping
<1>1. PICK c \in call[k].todo :
         \/ \E e \in {"Completed", "Failed"} : AppendSagaStep(e, c) /\ NextChild(k, c)
         \/ call' = [call EXCEPT ![k].todo = @ \ {c}] /\ UNCHANGED stream
  BY DEF Reconcile
<1>2. c \in Children /\ child[c] = "Requested" /\ top = "Started"
  BY <1>0 DEF CallRecords, SweepKnows
<1>3. c \in DOMAIN deps
  BY <1>0, <1>2 DEF StreamIsExact, FoldIsExact
<1>4. ASSUME NEW e \in {"Completed", "Failed"}, AppendSagaStep(e, c), NextChild(k, c)
      PROVE  OnlyStep(k)
  BY <1>0, <1>2, <1>3, <1>4, ChildEventOnly DEF ChildStates
<1>5. CASE call' = [call EXCEPT ![k].todo = @ \ {c}] /\ UNCHANGED stream
  <2>1. /\ call'[k].pc = "reconcile" /\ call'[k].back = "reconcile" /\ call'[k].seen = call[k].seen
        /\ call'[k].todo = call[k].todo \ {c} /\ call'[k].progressed = call[k].progressed
    BY <1>0, <1>5 DEF CallRecords
  <2>2. UNCHANGED <<top, child>> /\ StreamIsExact'
    BY <1>0, <1>5, QuietIsExact DEF stream
  <2>3. SweepKnows(k)' /\ HandKnows(k)' /\ AppendKnows(k)'
    BY <1>0, <2>1, <2>2 DEF SweepKnows, HandKnows, AppendKnows, Holding
  <2> QED BY <2>2, <2>3 DEF OnlyStep, OnlyCallKnows
<1> QED BY <1>1, <1>4, <1>5

\* The decision after reconcileInFlight, from a fold that is still the stream's.
LEMMA ReconciledOnly == ASSUME Inv, OnlyInv, NEW k \in Calls, Reconciled(k) PROVE OnlyStep(k)
<1>0. /\ Shared /\ StreamIsExact /\ SweepKnows(k) /\ call \in [Calls -> CallRecords]
      /\ call[k].pc = "reconcile" /\ call[k].back = "reconcile" /\ UNCHANGED <<stream, out, rev>>
  BY OnlyFacts DEF Reconciled, CallKnows, Sweeping
<1>1. StreamIsExact' /\ UNCHANGED <<top, child>> /\ top = "Started"
  BY <1>0, QuietIsExact DEF stream, SweepKnows
<1>2. CASE Loop(k) \/ Return(k)
  BY <1>0, <1>1, <1>2, RestartedCallKnows DEF OnlyStep
<1>3. CASE AppendTop(k, "RollbackStarted") \/ AppendTop(k, "Completed")
  BY <1>0, <1>1, <1>3, DecidedCallKnows DEF OnlyStep
<1>4. CASE /\ ~call[k].progressed /\ readyToRun(call[k].seen) # {}
           /\ Sweep(k, "dispatch", call[k].seen, readyToRun(call[k].seen))
  <2>1. PICK todo : todo = readyToRun(call[k].seen)
    OBVIOUS
  <2>2. call'[k].pc = "dispatch" /\ call'[k].back = "dispatch" /\ call'[k].todo = todo
    BY <1>0, <1>4, <2>1, SweepFields
  <2>3. child = call[k].seen
    BY <1>0, <1>4 DEF SweepKnows
  <2>4. todo # {} /\ \A c \in todo : child[c] = "Untouched"
    BY <1>4, <2>1, <2>3 DEF readyToRun
  <2>5. SweepKnows(k)' /\ HandKnows(k)' /\ AppendKnows(k)'
    BY <1>1, <2>2, <2>4 DEF SweepKnows, HandKnows, AppendKnows, Holding
  <2> QED BY <1>1, <2>5 DEF OnlyStep, OnlyCallKnows
<1> QED BY <1>0, <1>2, <1>3, <1>4 DEF Reconciled, CallRecords

\* The call takes a child of its sweep in hand.
LEMMA TakeChildOnly ==
    ASSUME Inv, OnlyInv, NEW k \in Calls, NEW c \in call[k].todo, NEW pc \in Holding \ {"record"},
           TakeChild(k, c, pc), UNCHANGED <<stream, out, rev>>,
           call[k].back \in {"dispatch", "rollback"},
           pc = "request" <=> call[k].back = "dispatch"
    PROVE  OnlyStep(k)
<1>1. /\ StreamIsExact' /\ SweepKnows(k) /\ call \in [Calls -> CallRecords]
  BY OnlyFacts, QuietIsExact
<1>2. /\ call'[k].pc = pc /\ call'[k].cur = c /\ call'[k].back = call[k].back
      /\ call'[k].seen = call[k].seen /\ call'[k].todo = call[k].todo
      /\ call'[k].progressed = call[k].progressed
  BY <1>1, TakeChildFields
<1>3. SweepKnows(k)'
  BY <1>1, <1>2, SweepIsStable
<1>4. HandKnows(k)' /\ AppendKnows(k)'
  BY <1>2 DEF HandKnows, AppendKnows, Holding
<1> QED BY <1>1, <1>3, <1>4 DEF OnlyStep, OnlyCallKnows

\* dispatchReady.
LEMMA DispatchOnly == ASSUME Inv, OnlyInv, NEW k \in Calls, Dispatch(k) PROVE OnlyStep(k)
<1>0. /\ SweepKnows(k) /\ CallKnows(k) /\ call \in [Calls -> CallRecords]
      /\ call[k].pc = "dispatch" /\ call[k].back = "dispatch" /\ UNCHANGED <<out, rev>>
  BY OnlyFacts DEF Dispatch, CallKnows, Sweeping
<1>1. PICK c \in call[k].todo :
         \/ TakeChild(k, c, "request") /\ UNCHANGED stream
         \/ AppendSagaStep("Gated", c) /\ NextChild(k, c)
  BY DEF Dispatch
<1>2. c \in Children /\ c \in DOMAIN deps /\ child[c] = "Untouched" /\ top = "Started"
  BY <1>0 DEF CallRecords, SweepKnows, CallKnows, Ready
<1>3. CASE TakeChild(k, c, "request") /\ UNCHANGED stream
  BY <1>0, <1>3, TakeChildOnly DEF Holding
<1>4. CASE AppendSagaStep("Gated", c) /\ NextChild(k, c)
  BY <1>0, <1>2, <1>4, ChildEventOnly DEF ChildStates
<1> QED BY <1>1, <1>3, <1>4

\* The call is about to record what became of the child in hand.
LEMMA RecordOnly ==
    ASSUME Inv, OnlyInv, NEW k \in Calls, call[k].pc \in Holding, StreamIsExact', NEW e, Record(k, e),
           UNCHANGED stream,
           call[k].back = "rollback" <=> e \in {"RolledBack", "RollbackFailed"},
           e = "Requested" => out'[call[k].cur] # "none",
           e = "RolledBack" => out'[call[k].cur] = "cancelled"
    PROVE  OnlyStep(k)
<1>1. SweepKnows(k) /\ HandKnows(k) /\ call \in [Calls -> CallRecords]
  BY OnlyFacts
<1>2. /\ call'[k].pc = "record" /\ call'[k].event = e /\ call'[k].cur = call[k].cur
      /\ call'[k].back = call[k].back /\ call'[k].seen = call[k].seen
      /\ call'[k].todo = call[k].todo /\ call'[k].progressed = call[k].progressed
  BY <1>1, RecordFields
<1>3. SweepKnows(k)'
  BY <1>1, <1>2, SweepIsStable
<1>4. HandKnows(k)' /\ AppendKnows(k)'
  BY <1>1, <1>2 DEF HandKnows, AppendKnows, Holding, stream
<1> QED BY <1>3, <1>4 DEF OnlyStep, OnlyCallKnows

\* The RPC of requestChildTransfer.
LEMMA RequestChildOnly == ASSUME Inv, OnlyInv, NEW k \in Calls, RequestChild(k) PROVE OnlyStep(k)
<1>1. PICK c \in Children : c = call[k].cur
  BY DEF Inv, RequestChild, CallKnows, Holding
<1>2. /\ Shared /\ StreamIsExact /\ HandKnows(k) /\ call[k].pc = "request" /\ call[k].pc \in Holding
      /\ UNCHANGED <<stream, rev>> /\ out \in [Children -> Outcomes] /\ call[k].back # "rollback"
  BY OnlyFacts DEF RequestChild, Shared, SharedTypes, HandKnows, Holding
<1>3. ASSUME NEW o \in Outcomes \ {"none"}, out' = [out EXCEPT ![c] = o],
             out[c] \in Final => o = out[c], NEW e \in {"Requested", "Failed"}, Record(k, e)
      PROVE  OnlyStep(k)
  <2>1. StreamIsExact' /\ out'[c] # "none"
    BY <1>2, <1>3, OutcomeIsExact
  <2> QED BY <1>1, <1>2, <1>3, <2>1, RecordOnly
<1>4. CASE /\ out[c] \in {"none", "rejected"} /\ out' = [out EXCEPT ![c] = "rejected"]
           /\ Record(k, "Failed")
  BY <1>3, <1>4 DEF Outcomes, Final
<1>5. CASE /\ out[c] \in {"none", "inflight"} /\ \E o \in Driven(c) : out' = [out EXCEPT ![c] = o]
           /\ Record(k, "Requested")
  BY <1>3, <1>5 DEF Outcomes, Final, Driven
<1>6. CASE /\ out[c] \in {"staged", "committed", "failed", "cancelled"} /\ out' = out
           /\ Record(k, "Requested")
  <2>1. out' = [out EXCEPT ![c] = out[c]]
    BY <1>2, <1>6
  <2> QED BY <1>2, <1>3, <1>6, <2>1
<1>7. CASE out' = out /\ Return(k)
  BY <1>2, <1>7, OnlyFacts, QuietIsExact, RestartedCallKnows DEF OnlyStep
<1> QED BY <1>1, <1>4, <1>5, <1>6, <1>7 DEF RequestChild

\* The record of requestChildTransfer and rollbackChild.
LEMMA RecordChildOnly == ASSUME Inv, OnlyInv, NEW k \in Calls, RecordChild(k) PROVE OnlyStep(k)
<1>1. PICK c, e : c \in Children /\ c = call[k].cur /\ e = call[k].event
  BY DEF Inv, RecordChild, CallKnows, Holding
<1>2. /\ CallKnows(k) /\ HandKnows(k) /\ call[k].pc = "record" /\ call[k].pc \in Holding
      /\ UNCHANGED <<out, rev>> /\ AppendSagaStep(e, c) /\ NextChild(k, c)
  BY <1>1, OnlyFacts DEF RecordChild, Holding
<1>3. /\ e \in {"Requested", "Failed", "RolledBack", "RollbackFailed"}
      /\ call[k].back = "rollback" <=> e \in {"RolledBack", "RollbackFailed"}
      /\ e = "Requested" => out[c] # "none"
      /\ e = "RolledBack" => out[c] = "cancelled"
  BY <1>1, <1>2 DEF CallKnows, HandKnows
<1>4. /\ c \in DOMAIN deps /\ call[k].back \in {"dispatch", "rollback", "runSaga"}
      /\ call[k].back = "dispatch" => top = "Started" /\ child[c] = "Untouched"
      /\ call[k].back = "rollback" => c \in call[k].todo /\ child[c] \notin Undone
      /\ call[k].back = "runSaga" => child[c] = "Gated"
  BY <1>1, <1>2, InHandFacts
<1>5. e = "RolledBack" => ~Standing(c)
  BY <1>3 DEF Standing
<1>6. top = "Started" \/ child[c] \notin Undone
  BY <1>4 DEF Undone
<1>7. e \in ChildStates \ {"Untouched"} /\ e # "Gated"
  BY <1>3 DEF ChildStates
<1>8. e = "Requested" => child[c] \in {"Untouched", "Gated"} /\ out[c] # "none"
  BY <1>3, <1>4
<1> QED BY <1>1, <1>2, <1>4, <1>5, <1>6, <1>7, <1>8, ChildEventOnly

\* The end of a sweep: a rollback that had nothing to do is over.
LEMMA SweepDoneOnly == ASSUME Inv, OnlyInv, NEW k \in Calls, SweepDone(k) PROVE OnlyStep(k)
<1>0. /\ Shared /\ StreamIsExact /\ SweepKnows(k) /\ CallKnows(k) /\ call \in [Calls -> CallRecords]
      /\ call[k].pc \in {"dispatch", "rollback"} /\ call[k].todo = {} /\ call[k].back = call[k].pc
      /\ UNCHANGED <<stream, out, rev>>
  BY OnlyFacts DEF SweepDone, CallKnows, Sweeping
<1>1. StreamIsExact' /\ UNCHANGED <<top, child>>
  BY <1>0, QuietIsExact DEF stream
<1>2. CASE Loop(k)
  BY <1>0, <1>1, <1>2, RestartedCallKnows DEF OnlyStep
<1>3. CASE ~call[k].progressed
  <2>1. /\ call[k].back = "rollback" /\ top = "RollbackStarted" /\ child = call[k].seen
        /\ {c \in readyToRollback(child) : child[c] # "RollbackFailed"} = {}
    BY <1>0, <1>3 DEF SweepKnows
  <2>2. CASE \E c \in Children : call[k].seen[c] = "RollbackFailed"
    <3>1. AppendTop(k, "RollbackFailed")
      BY <1>3, <2>2 DEF SweepDone
    <3> QED BY <1>0, <1>1, <2>1, <3>1, DecidedCallKnows DEF OnlyStep
  <2>3. CASE ~\E c \in Children : call[k].seen[c] = "RollbackFailed"
    <3>1. AppendTop(k, "RolledBack")
      BY <1>3, <2>3 DEF SweepDone
    <3>2. readyToRollback(child) \subseteq Children
      BY <1>0 DEF readyToRollback, Shared, SharedTypes
    <3>3. readyToRollback(child) = {}
      BY <2>1, <2>3, <3>2
    <3>4. \A c \in Children : child'[c] \in Undone
      BY <1>0, <1>1, <2>1, <3>3, NothingReadyMeansUndone
    <3> QED BY <1>0, <1>1, <2>1, <3>1, <3>4, DecidedCallKnows DEF OnlyStep
  <2> QED BY <2>2, <2>3
<1> QED BY <1>2, <1>3 DEF SweepDone

\* rollbackChild up to its decision: a child without money to give back is done.
LEMMA RollbackChildOnly == ASSUME Inv, OnlyInv, NEW k \in Calls, RollbackChild(k) PROVE OnlyStep(k)
<1>0. /\ Shared /\ StreamIsExact /\ SweepKnows(k) /\ call \in [Calls -> CallRecords]
      /\ call[k].pc = "rollback" /\ call[k].back = "rollback" /\ UNCHANGED <<out, rev>>
  BY OnlyFacts DEF RollbackChild, CallKnows, Sweeping
<1>1. PICK c \in call[k].todo :
         \/ /\ call[k].seen[c] \notin {"Requested", "Completed"} \/ out[c] \in {"failed", "cancelled"}
            /\ AppendSagaStep("RolledBack", c) /\ NextChild(k, c)
         \/ /\ out[c] \in {"committed", "staged", "inflight"}
            /\ TakeChild(k, c, UndoOf(out[c])) /\ UNCHANGED stream
  BY DEF RollbackChild
<1>2. /\ c \in Children /\ child[c] = call[k].seen[c]
      /\ child[c] \notin Undone \union {"RollbackFailed"}
  BY <1>0 DEF CallRecords, SweepKnows
<1>3. CASE /\ call[k].seen[c] \notin {"Requested", "Completed"} \/ out[c] \in {"failed", "cancelled"}
           /\ AppendSagaStep("RolledBack", c) /\ NextChild(k, c)
  <2>1. child[c] \in {"Gated", "Failed"} \/ out[c] \in {"failed", "cancelled"}
    BY <1>0, <1>2, <1>3 DEF Shared, SharedTypes, ChildStates, Undone
  <2>2. child[c] = "Failed" => out[c] \in {"rejected", "failed", "cancelled"}
    BY <1>0, <1>2 DEF Shared, ChildFactsHold
  <2>3. Recorded("Requested", c) => ~Standing(c)
    BY <1>0, <1>2, <2>1, <2>2 DEF StreamIsExact, FoldIsExact, Standing
  <2>4. c \in DOMAIN deps
    BY <1>0, <1>2 DEF StreamIsExact, FoldIsExact, Undone
  <2> QED BY <1>0, <1>2, <1>3, <2>3, <2>4, ChildEventOnly DEF ChildStates
<1>4. CASE /\ out[c] \in {"committed", "staged", "inflight"}
           /\ TakeChild(k, c, UndoOf(out[c])) /\ UNCHANGED stream
  <2>1. PICK pc \in Holding \ {"record"} : pc = UndoOf(out[c]) /\ pc # "request"
    BY <1>4 DEF UndoOf, Holding
  <2> QED BY <1>0, <1>4, <2>1, TakeChildOnly
<1> QED BY <1>1, <1>3, <1>4

\* The RPC of a reversal, after everything that depends on the child is undone.
LEMMA RequestReversalOnly == ASSUME Inv, OnlyInv, NEW k \in Calls, RequestReversal(k) PROVE OnlyStep(k)
<1>0. /\ Shared /\ StreamIsExact /\ SweepKnows(k) /\ HandKnows(k) /\ call \in [Calls -> CallRecords]
      /\ call[k].pc = "reverse" /\ call[k].pc \in Holding /\ UNCHANGED <<stream, out>>
      /\ rev \in [Children -> Outcomes]
  BY OnlyFacts DEF RequestReversal, Holding, Shared, SharedTypes
<1>1. PICK c \in Children : c = call[k].cur
  BY <1>0, InHandFacts
<1>2. /\ call[k].back = "rollback" /\ top = "RollbackStarted" /\ DependentsUndone(c)
  BY <1>0, <1>1, InHandFacts DEF HandKnows, Holding
<1>3. StreamIsExact'
  <2>1. CASE rev[c] \in {"none", "inflight"} /\ \E o \in Driven(c) : rev' = [rev EXCEPT ![c] = o]
    <3>1. PICK o \in Outcomes \ {"none"} : rev' = [rev EXCEPT ![c] = o]
      BY <2>1 DEF Driven, Outcomes
    <3> QED BY <1>0, <1>2, <2>1, <3>1, ReversalIsExact
  <2>2. CASE UNCHANGED rev
    BY <1>0, <2>2, QuietIsExact
  <2> QED BY <1>1, <2>1, <2>2 DEF RequestReversal
<1>4. /\ call'[k].pc = "reverseOutcome" /\ call'[k].cur = call[k].cur /\ call'[k].back = call[k].back
      /\ call'[k].seen = call[k].seen /\ call'[k].todo = call[k].todo
      /\ call'[k].progressed = call[k].progressed
  BY <1>0 DEF RequestReversal, CallRecords
<1>5. SweepKnows(k)'
  BY <1>0, <1>4, SweepIsStable
<1>6. HandKnows(k)' /\ AppendKnows(k)'
  BY <1>0, <1>2, <1>4 DEF HandKnows, AppendKnows, Holding
<1> QED BY <1>3, <1>5, <1>6 DEF OnlyStep, OnlyCallKnows

\* What is made of the reversal's outcome.
LEMMA ReversalOutcomeOnly == ASSUME Inv, OnlyInv, NEW k \in Calls, ReversalOutcome(k) PROVE OnlyStep(k)
<1>0. /\ HandKnows(k) /\ call[k].pc = "reverseOutcome" /\ call[k].pc \in Holding
      /\ UNCHANGED <<out, rev>>
  BY OnlyFacts DEF ReversalOutcome, Holding
<1>1. PICK c \in Children : c = call[k].cur
  BY <1>0, InHandFacts
<1>2. /\ call[k].back = "rollback" /\ c \in call[k].todo /\ c \in DOMAIN deps /\ child[c] \notin Undone
  BY <1>0, <1>1, InHandFacts DEF HandKnows, Holding
<1>3. PICK e \in {"RolledBack", "RollbackFailed"} :
         AppendSagaStep(e, c) /\ NextChild(k, c) /\ (e = "RolledBack" => rev[c] = "committed")
  <2> DEFINE f == IF rev[c] = "committed" THEN "RolledBack" ELSE "RollbackFailed"
  <2>1. AppendSagaStep(f, c) /\ NextChild(k, c)
    BY <1>1 DEF ReversalOutcome
  <2>2. f \in {"RolledBack", "RollbackFailed"} /\ (f = "RolledBack" => rev[c] = "committed")
    OBVIOUS
  <2> HIDE DEF f
  <2> QED BY <2>1, <2>2
<1>4. e = "RolledBack" => ~Standing(c)
  BY <1>3 DEF Standing
<1> QED BY <1>0, <1>2, <1>3, <1>4, ChildEventOnly DEF ChildStates

\* The cancellation of a child that is staged or on its way.
LEMMA CancelChildOnly ==
    ASSUME Inv, OnlyInv, NEW k \in Calls, CancelStagedChild(k) \/ CancelAcceptedChild(k)
    PROVE  OnlyStep(k)
<1>0. /\ Shared /\ StreamIsExact /\ HandKnows(k) /\ call \in [Calls -> CallRecords]
      /\ call[k].pc \in {"cancelStaged", "cancelAccepted"} /\ call[k].pc \in Holding
      /\ UNCHANGED <<stream, rev>> /\ out \in [Children -> Outcomes]
  BY OnlyFacts DEF CancelStagedChild, CancelAcceptedChild, Holding, Shared, SharedTypes
<1>1. PICK c \in Children : c = call[k].cur
  BY <1>0, InHandFacts
<1>2. call[k].back = "rollback"
  BY <1>0 DEF HandKnows, Holding
<1>3. CASE /\ out[c] \in {"staged", "inflight", "cancelled"} /\ out' = [out EXCEPT ![c] = "cancelled"]
           /\ Record(k, "RolledBack")
  <2>1. StreamIsExact' /\ out'[c] = "cancelled"
    BY <1>0, <1>3, OutcomeIsExact DEF Outcomes, Final
  <2> QED BY <1>0, <1>1, <1>2, <1>3, <2>1, RecordOnly
<1>4. CASE out' = out /\ Record(k, "RollbackFailed")
  <2>1. StreamIsExact'
    BY <1>0, <1>4, QuietIsExact
  <2> QED BY <1>0, <1>2, <1>4, <2>1, RecordOnly
<1>5. CASE out' = out /\ Return(k)
  BY <1>0, <1>5, QuietIsExact, RestartedCallKnows DEF OnlyStep
<1> QED BY <1>1, <1>3, <1>4, <1>5 DEF CancelStagedChild, CancelAcceptedChild

\* A step of the environment, which leaves the stream and the call alone.
LEMMA EnvironmentOnly ==
    ASSUME Inv, OnlyInv, Stable, StreamIsExact', UNCHANGED <<stream, call>>,
           \A c \in Children : out[c] # "none" => out'[c] # "none"
    PROVE  OnlyInv'
<1> SUFFICES ASSUME NEW k \in Calls PROVE OnlyCallKnows(k)'
  BY DEF OnlyInv
<1>1. SweepKnows(k) /\ HandKnows(k) /\ AppendKnows(k) /\ CallKnows(k)
  BY OnlyFacts
<1>2. call'[k] = call[k] /\ UNCHANGED <<top, child>>
  BY DEF stream
<1>3. SweepKnows(k)'
  BY <1>1, <1>2, SweepIsStable
<1>4. HandKnows(k)' /\ AppendKnows(k)'
  BY <1>1, <1>2 DEF HandKnows, AppendKnows, CallKnows, Holding, Stable, Final
<1> QED BY <1>3, <1>4 DEF OnlyCallKnows

\* A Transfer's own clients settle it or its reversal.
LEMMA SettleOnly ==
    ASSUME Inv, OnlyInv, NEW c \in Children, Settle(c) \/ SettleReversal(c)
    PROVE  OnlyInv'
<1>0. Shared /\ StreamIsExact /\ out \in [Children -> Outcomes] /\ rev \in [Children -> Outcomes]
  BY DEF Inv, OnlyInv, Shared, SharedTypes
<1>1. CASE Settle(c)
  <2>1. PICK o \in Outcomes \ {"none"} : out' = [out EXCEPT ![c] = o]
    BY <1>1 DEF Settle, SettledFrom, Driven, Outcomes
  <2>2. StreamIsExact'
    BY <1>0, <1>1, <2>1, OutcomeIsExact DEF Settle, Final
  <2>3. Stable
    BY <1>0, <1>1, <2>1 DEF Stable, Settle, Final, stream
  <2>4. \A b \in Children : out[b] # "none" => out'[b] # "none"
    BY <1>0, <2>1
  <2> QED BY <1>1, <2>2, <2>3, <2>4, EnvironmentOnly DEF Settle
<1>2. CASE SettleReversal(c)
  <2>1. PICK o \in Outcomes \ {"none"} : rev' = [rev EXCEPT ![c] = o]
    BY <1>2 DEF SettleReversal, SettledFrom, Driven, Outcomes
  <2>2. StreamIsExact'
    BY <1>0, <1>2, <2>1, ReversalIsExact DEF SettleReversal
  <2>3. Stable
    BY <1>2 DEF Stable, SettleReversal, stream
  <2> QED BY <1>2, <2>2, <2>3, EnvironmentOnly DEF SettleReversal
<1> QED BY <1>1, <1>2

\* A step of a running call touches no other call.
LEMMA CallStepIsLocal ==
    ASSUME Inv, NEW k \in Calls, CallStep(k)
    PROVE  OthersKeep(k) /\ call[k].pc # "idle"
<1>0. call \in [Calls -> CallRecords]
  BY DEF Inv
<1> USE DEF Return, Loop, AppendTop, Record, NextChild, TakeChild, Sweep
<1>1. CASE RunSaga(k)
  BY <1>0, <1>1 DEF RunSaga, OthersKeep
<1>2. CASE AppendTopLevel(k)
  BY <1>0, <1>2 DEF AppendTopLevel, OthersKeep
<1>3. CASE Reconcile(k) \/ Reconciled(k)
  BY <1>0, <1>3 DEF Reconcile, Reconciled, OthersKeep
<1>4. CASE Dispatch(k) \/ RequestChild(k) \/ RecordChild(k)
  BY <1>0, <1>4 DEF Dispatch, RequestChild, RecordChild, OthersKeep
<1>5. CASE SweepDone(k) \/ RollbackChild(k)
  BY <1>0, <1>5 DEF SweepDone, RollbackChild, OthersKeep
<1>6. CASE RequestReversal(k) \/ ReversalOutcome(k)
  BY <1>0, <1>6 DEF RequestReversal, ReversalOutcome, OthersKeep
<1>7. CASE CancelStagedChild(k) \/ CancelAcceptedChild(k)
  BY <1>0, <1>7 DEF CancelStagedChild, CancelAcceptedChild, OthersKeep
<1> QED BY <1>1, <1>2, <1>3, <1>4, <1>5, <1>6, <1>7 DEF CallStep

\* Every step of a Transaction whose calls do not overlap.
LEMMA NextOnly == ASSUME NoOverlap, NoOverlap', Inv, Inv', OnlyInv, [Next]_vars PROVE OnlyInv'
<1>0. call \in [Calls -> CallRecords]
  BY DEF Inv
<1>1. ASSUME NEW k \in Calls, OnlyStep(k), \A j \in Calls : j # k => call'[j].pc = "idle"
      PROVE  OnlyInv'
  <2>1. ASSUME NEW j \in Calls, j # k PROVE OnlyCallKnows(j)'
    <3>1. call'[j] = Idle
      BY <1>1, <2>1 DEF Inv, CallKnows
    <3> QED BY <3>1, FreeCallKnows DEF Idle, Sweeping, Holding
  <2> QED BY <1>1, <2>1 DEF OnlyStep, OnlyInv
<1>2. ASSUME NEW k \in Calls, OnlyStep(k), OthersKeep(k), call[k].pc # "idle" \/ call'[k].pc # "idle"
      PROVE  OnlyInv'
  <2>1. \A j \in Calls : j # k => call'[j].pc = "idle"
    BY <1>2 DEF NoOverlap, OthersKeep
  <2> QED BY <1>1, <1>2, <2>1
<1>3. ASSUME NEW k \in Calls, CallStep(k) PROVE OnlyInv'
  <2>1. OnlyStep(k)
    BY <1>3, RunSagaOnly, AppendTopLevelOnly, ReconcileOnly, ReconciledOnly, DispatchOnly,
       RequestChildOnly, RecordChildOnly, SweepDoneOnly, RollbackChildOnly, RequestReversalOnly,
       ReversalOutcomeOnly, CancelChildOnly
    DEF CallStep
  <2> QED BY <1>2, <1>3, <2>1, CallStepIsLocal
<1>4. ASSUME NEW k \in Calls, Crash(k) PROVE OnlyInv'
  <2>1. StreamIsExact' /\ OnlyCallKnows(k)'
    BY <1>4, OnlyFacts, QuietIsExact, RestartedCallKnows DEF Crash
  <2>2. OthersKeep(k) /\ call[k].pc # "idle"
    BY <1>0, <1>4 DEF Crash, Return, OthersKeep
  <2> QED BY <1>2, <2>1, <2>2 DEF OnlyStep
<1>5. ASSUME NEW k \in Calls, NEW r \in RPCs, Start(k, r) PROVE OnlyInv'
  <2>1. OthersKeep(k) /\ call'[k].pc # "idle"
    BY <1>0, <1>5 DEF Start, ResumeTransaction, StartProcessingTransfer, StartTransactionRollback,
                      Loop, AppendTop, Idle, CallRecords, OthersKeep
  <2> QED BY <1>2, <1>5, <2>1, StartOnly
<1>6. ASSUME NEW k \in Calls, NEW r \in Requests, StartInitializingTransaction(k, r) PROVE OnlyInv'
  <2>1. \A j \in Calls : call[j].pc = "idle"
    BY <1>6 DEF StartInitializingTransaction, Inv, CallKnows
  <2>2. \A j \in Calls : j # k => call'[j].pc = "idle"
    BY <1>0, <1>6, <2>1 DEF StartInitializingTransaction, Loop
  <2> QED BY <1>1, <1>6, <2>2, StartInitializingOnly
<1>7. ASSUME UNCHANGED vars PROVE OnlyInv'
  <2>1. StreamIsExact' /\ Stable
    BY <1>7, QuietIsExact DEF OnlyInv, vars, stream, Stable
  <2> QED BY <1>7, <2>1, EnvironmentOnly DEF vars
<1> QED BY <1>3, <1>4, <1>5, <1>6, <1>7, SettleOnly DEF Next

\* Nothing is recorded and nothing runs.
LEMMA OnlyInit == ASSUME Init PROVE OnlyInv
<1>1. StreamIsExact
  BY DEF Init, StreamIsExact, FoldIsExact, ReversalsInOrder, TopIsExact, Untouched, Recorded
<1>2. ASSUME NEW k \in Calls PROVE OnlyCallKnows(k)
  BY DEF Init, Idle, OnlyCallKnows, SweepKnows, HandKnows, AppendKnows, Holding
<1> QED BY <1>1, <1>2 DEF OnlyInv

\* Both invariants of a Transaction whose calls do not overlap.
LEMMA OnlyInvHolds == Spec /\ []NoOverlap => [](Inv /\ OnlyInv)
<1>1. Init => Inv /\ OnlyInv
  BY InvInit, OnlyInit
<1>2. Inv /\ OnlyInv /\ NoOverlap /\ NoOverlap' /\ [Next]_vars => (Inv /\ OnlyInv)'
  BY NextPreserves, NextOnly
<1> QED BY <1>1, <1>2, PTL DEF Spec

\* In a behaviour whose calls never overlap, rollbackChild reverses a child only
\* after every dependent whose request was recorded has been undone, wherever
\* earlier calls died.
THEOREM AlwaysDependentsFirst == Spec /\ []NoOverlap => []DependentsFirst
<1>1. ASSUME Inv, OnlyInv PROVE DependentsFirst
  <2> SUFFICES ASSUME NEW c \in Children, rev[c] # "none", NEW d \in DOMAIN deps,
                      c \in deps[d], Recorded("Requested", d)
               PROVE  ~Standing(d)
    BY DEF DependentsFirst
  <2>1. d \in Children /\ child[d] \in Undone
    BY <1>1 DEF Inv, Shared, SharedTypes, OnlyInv, StreamIsExact, ReversalsInOrder, DependentsUndone
  <2> QED BY <1>1, <2>1 DEF OnlyInv, StreamIsExact, FoldIsExact, Undone, ChildStates
<1> QED BY <1>1, OnlyInvHolds, PTL

\* In a behaviour whose calls never overlap, a Transaction that IsOpen calls
\* closed has carried out all of its children or given back every one whose
\* request it recorded.
THEOREM AlwaysClosedIsSettled == Spec /\ []NoOverlap => []ClosedIsSettled
<1>1. ASSUME Inv, OnlyInv, ~IsOpen PROVE AllDone \/ \A c \in Children : Recorded("Requested", c) => ~Standing(c)
  <2>0. Shared /\ StreamIsExact
    BY <1>1 DEF Inv, OnlyInv
  <2>1. CASE top = "Completed"
    BY <2>0, <2>1 DEF Shared, SharedTypes, StreamIsExact, TopIsExact, ReversalsInOrder, RollingBack,
                      CompletedIsEarned, AllDone
  <2>2. CASE top = "RolledBack"
    BY <2>0, <2>2 DEF StreamIsExact, TopIsExact, FoldIsExact, Undone, ChildStates
  <2>3. CASE top = "Rejected"
    BY <2>0, <2>3 DEF Shared, Standing
  <2> QED BY <1>1, <2>1, <2>2, <2>3 DEF IsOpen, Closed
<1>2. Inv /\ OnlyInv => ClosedIsSettled
  BY <1>1 DEF ClosedIsSettled
<1> QED BY <1>2, OnlyInvHolds, PTL

\* In a behaviour whose calls never overlap, no RPC and no resumption takes a
\* Transaction out of a terminal state of runSaga.
THEOREM AlwaysTerminalIsFinal == Spec /\ []NoOverlap => TransactionTerminalIsFinal
<1>1. ASSUME Inv, OnlyInv, [Next]_vars, top \in Terminal PROVE top' = top
  <2>0. ASSUME UNCHANGED stream PROVE top' = top
    BY <2>0 DEF stream
  <2>1. ASSUME NEW e, NEW c \in Children, AppendSagaStep(e, c) PROVE top' = top
    BY <2>1, TransactionAssumption DEF AppendSagaStep
  <2>2. ASSUME NEW k \in Calls, CallStep(k) PROVE top' = top
    <3>0. CallKnows(k) /\ AppendKnows(k) /\ call[k].todo \subseteq Children
      BY <1>1, OnlyFacts DEF CallRecords
    <3>1. CASE AppendTopLevel(k)
      BY <1>1, <3>0, <3>1 DEF AppendTopLevel, AppendKnows, Terminal
    <3>2. CASE Reconcile(k) \/ Dispatch(k) \/ RollbackChild(k)
      BY <2>0, <2>1, <3>0, <3>2 DEF Reconcile, Dispatch, RollbackChild
    <3>3. CASE RecordChild(k) \/ ReversalOutcome(k)
      BY <2>1, <3>0, <3>3 DEF RecordChild, ReversalOutcome, CallKnows, Holding
    <3>4. CASE \/ RunSaga(k) \/ Reconciled(k) \/ RequestChild(k) \/ SweepDone(k)
               \/ RequestReversal(k) \/ CancelStagedChild(k) \/ CancelAcceptedChild(k)
      BY <2>0, <3>4 DEF RunSaga, Reconciled, RequestChild, SweepDone, RequestReversal,
                        CancelStagedChild, CancelAcceptedChild
    <3> QED BY <2>2, <3>1, <3>2, <3>3, <3>4 DEF CallStep
  <2>3. ASSUME NEW k \in Calls, NEW d \in Requests, StartInitializingTransaction(k, d) PROVE top' = top
    BY <1>1, <2>3 DEF StartInitializingTransaction, Terminal
  <2>4. ASSUME NEW k \in Calls, NEW r \in RPCs, Start(k, r) PROVE top' = top
    BY <2>0, <2>4 DEF Start, ResumeTransaction, StartProcessingTransfer, StartTransactionRollback
  <2>5. ASSUME NEW c \in Children, Settle(c) \/ SettleReversal(c) PROVE top' = top
    BY <2>0, <2>5 DEF Settle, SettleReversal
  <2> QED BY <1>1, <2>0, <2>2, <2>3, <2>4, <2>5 DEF Next, Crash, vars
<1>2. Inv /\ OnlyInv /\ [Next]_vars => [(top \in Terminal) => UNCHANGED top]_vars
  BY <1>1
<1> QED BY <1>2, OnlyInvHolds, PTL DEF Spec, TransactionTerminalIsFinal
=============================================================================
