------------------------- MODULE ProvisioningProofs -------------------------
(***************************************************************************)
(* Holders and Wallets agree, for any number of Holders, Wallets and        *)
(* concurrent calls.  The inductive invariant says what the plan of a call  *)
(* that is inspecting Wallets is worth by the time it is written: a Wallet  *)
(* it found open stays open under the same Holder, one it found unopened    *)
(* may be taken, and then the append conflicts.                             *)
(***************************************************************************)
EXTENDS Provisioning, TLAPS

\* No event occurs in both.
Apart(s, t) == \A e : ~(Recorded(s, e) /\ Recorded(t, e))

\* What walletWrites has planned for call c so far.
Planned(c) ==
    /\ call[c].rpc \in {"AddWallet", "Provision"}
    /\ Distinct(call[c].seen) /\ Distinct(call[c].adds) /\ Apart(call[c].seen, call[c].adds)
    /\ call[c].seen # << >> => call[c].seen[1] = Established
    /\ call[c].seen = << >> => call[c].adds # << >> /\ call[c].adds[1] = Established
    /\ \A w \in Wallets : Recorded(call[c].adds, w) =>
         /\ w \in call[c].opens \/ owner[w] = call[c].h
         /\ \E i \in 1..call[c].next : call[c].ws[i] = w

\* What call c may rely on.
CallKnows(c) ==
    /\ call[c].next <= Len(call[c].ws)
    /\ call[c].rpc # "none" => call[c].h \in Holders /\ call[c].ws \in Requests
    /\ call[c].pc # "idle" => call[c].rpc # "none" /\ call[c].reply = "none"
    /\ call[c].pc = "load" => /\ call[c].seen = << >> /\ call[c].next = 0
                              /\ call[c].opens = {} /\ call[c].adds = << >>
    /\ call[c].pc = "append" => call[c].rpc \in {"Establish", "Open"}
    /\ call[c].pc = "append" /\ call[c].rpc = "Establish" => call[c].adds = <<Established>>
    /\ call[c].pc = "replay" => call[c].rpc = "Open"
    /\ call[c].pc = "inspect" => Planned(c)
    /\ call[c].rpc = "Open" /\ call[c].reply = "ok" => owner[call[c].ws[1]] = call[c].h

\* The streams.
Shared ==
    /\ holder \in [Holders -> Seq(HolderEvents)]
    /\ owner \in [Wallets -> Holders \union {NoHolder}]
    /\ crashes \in 0..MaxCrashes
    /\ AddedMeansOpened
    /\ RecordedOnce

Inv ==
    /\ Shared
    /\ call \in [Calls -> CallRecords]
    /\ \A c \in Calls : CallKnows(c)

-----------------------------------------------------------------------------
(* Sequences of events.                                                      *)

\* A concatenation records what its parts record, and each event once if they do
\* and have nothing in common.
LEMMA ConcatRecords ==
    ASSUME NEW E, NEW s \in Seq(E), NEW t \in Seq(E)
    PROVE  /\ s \o t \in Seq(E)
           /\ \A e : Recorded(s \o t, e) <=> Recorded(s, e) \/ Recorded(t, e)
           /\ Distinct(s) /\ Distinct(t) /\ Apart(s, t) => Distinct(s \o t)
           /\ s # << >> => (s \o t)[1] = s[1]
           /\ s = << >> => s \o t = t
<1> DEFINE u == s \o t
<1>1. /\ u \in Seq(E) /\ Len(s) \in Nat /\ Len(t) \in Nat
      /\ DOMAIN u = 1..(Len(s) + Len(t)) /\ DOMAIN s = 1..Len(s) /\ DOMAIN t = 1..Len(t)
      /\ \A i \in 1..(Len(s) + Len(t)) : u[i] = IF i <= Len(s) THEN s[i] ELSE t[i - Len(s)]
  OBVIOUS
<1>2. ASSUME NEW e PROVE Recorded(u, e) <=> Recorded(s, e) \/ Recorded(t, e)
  <2>1. ASSUME NEW i \in DOMAIN u, u[i] = e PROVE Recorded(s, e) \/ Recorded(t, e)
    <3>1. CASE i <= Len(s)
      BY <1>1, <2>1, <3>1 DEF Recorded
    <3>2. CASE ~(i <= Len(s))
      <4>1. i - Len(s) \in DOMAIN t /\ t[i - Len(s)] = e
        BY <1>1, <2>1, <3>2
      <4> QED BY <4>1 DEF Recorded
    <3> QED BY <3>1, <3>2
  <2>2. ASSUME NEW i \in DOMAIN s, s[i] = e PROVE Recorded(u, e)
    <3>1. i \in DOMAIN u /\ u[i] = e
      BY <1>1, <2>2
    <3> QED BY <3>1 DEF Recorded
  <2>3. ASSUME NEW i \in DOMAIN t, t[i] = e PROVE Recorded(u, e)
    <3>1. i + Len(s) \in DOMAIN u /\ u[i + Len(s)] = e
      BY <1>1, <2>3
    <3> QED BY <3>1 DEF Recorded
  <2> HIDE DEF u
  <2> QED BY <2>1, <2>2, <2>3 DEF Recorded
<1>3. ASSUME Distinct(s), Distinct(t), Apart(s, t) PROVE Distinct(u)
  <2> SUFFICES ASSUME NEW i \in DOMAIN u, NEW j \in DOMAIN u, u[i] = u[j] PROVE i = j
    BY DEF Distinct
  <2>1. CASE i <= Len(s) /\ j <= Len(s)
    BY <1>1, <1>3, <2>1 DEF Distinct
  <2>2. CASE ~(i <= Len(s)) /\ ~(j <= Len(s))
    <3>1. i - Len(s) \in DOMAIN t /\ j - Len(s) \in DOMAIN t /\ t[i - Len(s)] = t[j - Len(s)]
      BY <1>1, <2>2
    <3>2. i - Len(s) = j - Len(s)
      BY <1>3, <3>1 DEF Distinct
    <3> QED BY <1>1, <3>2
  <2>3. ASSUME NEW m \in DOMAIN u, NEW n \in DOMAIN u, u[m] = u[n], m <= Len(s), ~(n <= Len(s)) PROVE FALSE
    <3>1. m \in DOMAIN s /\ n - Len(s) \in DOMAIN t /\ s[m] = t[n - Len(s)]
      BY <1>1, <2>3
    <3> QED BY <1>3, <3>1 DEF Apart, Recorded
  <2> QED BY <2>1, <2>2, <2>3
<1>4. s # << >> => u[1] = s[1]
  BY <1>1
<1>5. s = << >> => u = t
  OBVIOUS
<1> QED BY <1>1, <1>2, <1>3, <1>4, <1>5

\* The same of an Append.
LEMMA AppendRecords ==
    ASSUME NEW E, NEW s \in Seq(E), NEW e \in E
    PROVE  /\ Append(s, e) \in Seq(E)
           /\ \A f : Recorded(Append(s, e), f) <=> Recorded(s, f) \/ f = e
           /\ Distinct(s) /\ ~Recorded(s, e) => Distinct(Append(s, e))
           /\ Append(s, e) # << >> /\ (s # << >> => Append(s, e)[1] = s[1])
<1> DEFINE u == Append(s, e)
<1>1. /\ u \in Seq(E) /\ Len(s) \in Nat /\ DOMAIN u = 1..(Len(s) + 1) /\ DOMAIN s = 1..Len(s)
      /\ u[Len(s) + 1] = e /\ (\A i \in 1..Len(s) : u[i] = s[i]) /\ u # << >>
  OBVIOUS
<1>2. ASSUME NEW f PROVE Recorded(u, f) <=> Recorded(s, f) \/ f = e
  <2>1. \A i \in DOMAIN u : i \in DOMAIN s \/ i = Len(s) + 1
    BY <1>1
  <2>2. DOMAIN s \subseteq DOMAIN u /\ Len(s) + 1 \in DOMAIN u
    BY <1>1
  <2> HIDE DEF u
  <2> QED BY <1>1, <2>1, <2>2 DEF Recorded
<1>3. Distinct(s) /\ ~Recorded(s, e) => Distinct(u)
  <2> HIDE DEF u
  <2> QED BY <1>1 DEF Distinct, Recorded
<1>4. s # << >> => u[1] = s[1]
  BY <1>1
<1> QED BY <1>1, <1>2, <1>3, <1>4

-----------------------------------------------------------------------------
(* What a call knows stays true.                                             *)

\* A Wallet that is open stays open under its Holder.
Stable == \A w \in Wallets : owner[w] # NoHolder => owner'[w] = owner[w]

\* A request names at least one Wallet.
LEMMA RequestsName ==
    ASSUME NEW ws \in Requests
    PROVE  ws \in Seq(Wallets) /\ Len(ws) \in Nat \ {0} /\ Distinct(ws) /\ \A i \in 1..Len(ws) : ws[i] \in Wallets
<1>1. ws \in Seq(Wallets) /\ ws # << >> /\ Distinct(ws)
  BY ConstantsAssumption
<1> QED BY <1>1

\* The steps of the others leave call c what it knows.
LEMMA KnowledgeIsStable ==
    ASSUME Inv, Stable, NEW c \in Calls, call'[c] = call[c]
    PROVE  CallKnows(c)'
<1>1. CallKnows(c)
  BY DEF Inv
<1>2. ASSUME call[c].pc = "inspect" PROVE Planned(c)'
  <2>1. Planned(c) /\ call[c].h \in Holders
    BY <1>1, <1>2 DEF CallKnows
  <2>2. \A w \in Wallets : owner[w] = call[c].h => owner'[w] = call[c].h
    BY <2>1, ConstantsAssumption DEF Stable
  <2> QED BY <2>1, <2>2 DEF Planned
<1>3. ASSUME call[c].rpc = "Open", call[c].reply = "ok" PROVE owner'[call[c].ws[1]] = call[c].h
  <2>1. call[c].ws[1] \in Wallets /\ call[c].h \in Holders
    BY <1>1, <1>3, RequestsName DEF CallKnows
  <2> QED BY <1>1, <1>3, <2>1, ConstantsAssumption DEF CallKnows, Stable
<1> QED BY <1>1, <1>2, <1>3 DEF CallKnows

\* One call moved and the others did not.
LEMMA StepPreserves ==
    ASSUME Inv, Stable, Shared', NEW c \in Calls, call'[c] \in CallRecords, CallKnows(c)',
           call' = [call EXCEPT ![c] = call'[c]]
    PROVE  Inv'
<1>1. call' \in [Calls -> CallRecords] /\ \A d \in Calls : d # c => call'[d] = call[d]
  BY DEF Inv
<1>2. \A d \in Calls : CallKnows(d)'
  BY <1>1, KnowledgeIsStable
<1> QED BY <1>1, <1>2 DEF Inv

\* The streams stay as they are.
LEMMA QuietStep ==
    ASSUME Inv, UNCHANGED <<holder, owner>>, crashes' \in 0..MaxCrashes
    PROVE  Stable /\ Shared'
BY DEF Inv, Shared, Stable, AddedMeansOpened, RecordedOnce

\* Return, from any of the RPCs.
LEMMA ReturnPreserves ==
    ASSUME Inv, Stable, Shared', NEW c \in Calls, NEW reply \in {"ok", "rejected", "error", "crashed"},
           call[c].pc # "idle", Return(c, reply),
           call[c].rpc = "Open" /\ reply = "ok" => owner'[call[c].ws[1]] = call[c].h
    PROVE  Inv'
<1>1. CallKnows(c) /\ call[c] \in CallRecords /\ call \in [Calls -> CallRecords]
  BY DEF Inv
<1>2. /\ call'[c] = [Idle EXCEPT !.rpc = call[c].rpc, !.h = call[c].h, !.ws = call[c].ws, !.reply = reply]
      /\ call' = [call EXCEPT ![c] = call'[c]]
  BY <1>1 DEF Return
<1>3. /\ call'[c].pc = "idle" /\ call'[c].rpc = call[c].rpc /\ call'[c].h = call[c].h
      /\ call'[c].ws = call[c].ws /\ call'[c].next = 0 /\ call'[c].reply = reply
  BY <1>2 DEF Idle
<1>4. call'[c] \in CallRecords
  <2>0. << >> \in Seq(HolderEvents)
    OBVIOUS
  <2>1. call'[c] = [pc |-> "idle", rpc |-> call[c].rpc, h |-> call[c].h,
          ws |-> call[c].ws, seen |-> << >>, next |-> 0, opens |-> {}, adds |-> << >>, reply |-> reply]
    BY <1>2 DEF Idle
  <2> QED BY <1>1, <2>0, <2>1 DEF CallRecords
<1>5. Len(call[c].ws) \in Nat
  BY <1>1 DEF CallRecords
<1>6. CallKnows(c)'
  BY <1>1, <1>3, <1>5 DEF CallKnows
<1> QED BY <1>2, <1>4, <1>6, StepPreserves

-----------------------------------------------------------------------------
(* The actions.                                                              *)

\* Nothing is recorded or owned before the first call.
LEMMA InvInit == ASSUME Init PROVE Inv
<1>1. Shared
  <2>1. \A h \in Holders : holder[h] = << >>
    BY DEF Init
  <2>2. \A h \in Holders : Distinct(holder[h]) /\ \A w : ~Recorded(holder[h], w)
    <3>1. DOMAIN << >> = {}
      OBVIOUS
    <3> QED BY <2>1, <3>1 DEF Distinct, Recorded
  <2>3. holder \in [Holders -> Seq(HolderEvents)]
    BY DEF Init
  <2>4. crashes \in 0..MaxCrashes /\ owner \in [Wallets -> Holders \union {NoHolder}]
    BY ConstantsAssumption DEF Init
  <2> QED BY <2>1, <2>2, <2>3, <2>4 DEF Shared, AddedMeansOpened, RecordedOnce
<1>2. Idle \in CallRecords
  <2>1. << >> \in Seq(Wallets) /\ << >> \in Seq(HolderEvents)
    OBVIOUS
  <2> QED BY <2>1 DEF Idle, CallRecords
<1>3. ASSUME NEW c \in Calls PROVE CallKnows(c)
  <2>1. call[c] = Idle
    BY DEF Init
  <2> QED BY <2>1 DEF CallKnows, Idle
<1> QED BY <1>1, <1>2, <1>3 DEF Inv, Init

\* A new request knows nothing yet.
LEMMA StartPreserves ==
    ASSUME Inv, NEW c \in Calls, NEW r \in RPCs, NEW h \in Holders, NEW ws \in Requests, Start(c, r, h, ws)
    PROVE  Inv'
<1>1. Stable /\ Shared'
  BY QuietStep DEF Start, Inv, Shared
<1>2. /\ call'[c] = [Idle EXCEPT !.pc = "load", !.rpc = r, !.h = h, !.ws = ws]
      /\ call' = [call EXCEPT ![c] = call'[c]]
  BY DEF Start, Inv
<1>3. r \in AllRPCs /\ ws \in Seq(Wallets) /\ Len(ws) \in Nat
  BY RequestsName, ConstantsAssumption
<1>4. /\ call'[c].pc = "load" /\ call'[c].rpc = r /\ call'[c].h = h /\ call'[c].ws = ws
      /\ call'[c].seen = << >> /\ call'[c].next = 0 /\ call'[c].opens = {}
      /\ call'[c].adds = << >> /\ call'[c].reply = "none"
  BY <1>2 DEF Idle
<1>5. call'[c] \in CallRecords
  <2>0. << >> \in Seq(HolderEvents)
    OBVIOUS
  <2>1. call'[c] = [pc |-> "load", rpc |-> r, h |-> h, ws |-> ws,
          seen |-> << >>, next |-> 0, opens |-> {}, adds |-> << >>, reply |-> "none"]
    BY <1>2 DEF Idle
  <2> QED BY <1>3, <2>0, <2>1 DEF CallRecords
<1>6. CallKnows(c)'
  BY <1>3, <1>4 DEF CallKnows, AllRPCs
<1> QED BY <1>1, <1>2, <1>5, <1>6, StepPreserves

\* A call that dies leaves the streams alone.
LEMMA CrashPreserves == ASSUME Inv, NEW c \in Calls, Crash(c) PROVE Inv'
<1>1. Stable /\ Shared'
  BY QuietStep, ConstantsAssumption DEF Crash, Inv, Shared
<1> QED BY <1>1, ReturnPreserves DEF Crash

\* Establish reads the stream.
LEMMA LoadEstablishPreserves == ASSUME Inv, NEW c \in Calls, LoadEstablish(c) PROVE Inv'
<1>1. Stable /\ Shared'
  BY QuietStep DEF LoadEstablish, Inv, Shared
<1>2. CASE holder[call[c].h] # << >>
  BY <1>1, <1>2, ReturnPreserves DEF LoadEstablish
<1>3. CASE holder[call[c].h] = << >>
  <2>1. CallKnows(c) /\ call[c] \in CallRecords
    BY DEF Inv
  <2>2. call'[c] = [call[c] EXCEPT !.pc = "append", !.adds = <<Established>>]
        /\ call' = [call EXCEPT ![c] = call'[c]]
    BY <1>3 DEF LoadEstablish, Inv
  <2>3. <<Established>> \in Seq(HolderEvents)
    BY DEF HolderEvents
  <2>4. call'[c] \in CallRecords
    BY <2>1, <2>2, <2>3 DEF CallRecords
  <2>5. CallKnows(c)'
    BY <2>1, <2>2 DEF CallKnows, CallRecords, LoadEstablish
  <2> QED BY <1>1, <2>2, <2>4, <2>5, StepPreserves
<1> QED BY <1>2, <1>3

\* Establish writes it, if it is still empty.
LEMMA AppendEstablishPreserves == ASSUME Inv, NEW c \in Calls, AppendEstablish(c) PROVE Inv'
<1>1. /\ call[c].h \in Holders /\ call[c].adds = <<Established>> /\ Shared
      /\ UNCHANGED <<owner, crashes>>
  BY DEF AppendEstablish, Inv, CallKnows
<1>2. /\ Distinct(<<Established>>) /\ <<Established>>[1] = Established
      /\ \A w \in Wallets : ~Recorded(<<Established>>, w)
      /\ <<Established>> \in Seq(HolderEvents)
  BY ConstantsAssumption DEF Distinct, Recorded, HolderEvents
<1>3. /\ holder' \in [Holders -> Seq(HolderEvents)]
      /\ \A h \in Holders : holder'[h] = holder[h] \/ holder'[h] = <<Established>>
  BY <1>1, <1>2 DEF AppendEstablish, Shared
<1>4. Shared'
  BY <1>1, <1>2, <1>3 DEF Shared, AddedMeansOpened, RecordedOnce
<1>5. Stable
  BY <1>1 DEF Stable
<1> QED BY <1>4, <1>5, ReturnPreserves DEF AppendEstablish

\* AddWallet and Provision read the stream.
LEMMA LoadHolderPreserves == ASSUME Inv, NEW c \in Calls, LoadHolder(c) PROVE Inv'
<1>1. Stable /\ Shared'
  BY QuietStep DEF LoadHolder, Inv, Shared
<1>2. CASE holder[call[c].h] = << >> /\ call[c].rpc = "AddWallet"
  BY <1>1, <1>2, ReturnPreserves DEF LoadHolder
<1>3. CASE ~(holder[call[c].h] = << >> /\ call[c].rpc = "AddWallet")
  <2> DEFINE s == holder[call[c].h]
             a == IF s = << >> THEN <<Established>> ELSE << >>
  <2>1. /\ CallKnows(c) /\ call[c] \in CallRecords /\ Shared /\ call[c].h \in Holders
        /\ call[c].pc = "load" /\ call[c].rpc \in {"AddWallet", "Provision"}
    BY DEF Inv, LoadHolder, CallKnows
  <2>2. /\ call'[c] = [call[c] EXCEPT !.pc = "inspect", !.seen = s, !.adds = a]
        /\ call' = [call EXCEPT ![c] = call'[c]]
        /\ owner' = owner
    BY <1>3 DEF LoadHolder, Inv
  <2>3. <<Established>> \in Seq(HolderEvents) /\ << >> \in Seq(HolderEvents) /\ s \in Seq(HolderEvents)
    BY <2>1 DEF HolderEvents, Shared
  <2>4. a \in Seq(HolderEvents) /\ Distinct(a) /\ Apart(s, a) /\ \A w \in Wallets : ~Recorded(a, w)
    BY <2>3, ConstantsAssumption DEF Distinct, Recorded, Apart
  <2>5. Distinct(s) /\ (s # << >> => s[1] = Established)
    BY <2>1 DEF Shared, RecordedOnce
  <2>6. s = << >> => a # << >> /\ a[1] = Established
    OBVIOUS
  <2> HIDE DEF s, a
  <2>7. call'[c] \in CallRecords
    BY <2>1, <2>2, <2>3, <2>4 DEF CallRecords
  <2>8. /\ call'[c].pc = "inspect" /\ call'[c].seen = s /\ call'[c].adds = a
        /\ call'[c].rpc = call[c].rpc /\ call'[c].h = call[c].h /\ call'[c].ws = call[c].ws
        /\ call'[c].next = call[c].next /\ call'[c].reply = call[c].reply
    BY <2>1, <2>2 DEF CallRecords
  <2>9. Planned(c)'
    BY <2>1, <2>4, <2>5, <2>6, <2>8 DEF Planned
  <2>10. CallKnows(c)'
    BY <2>1, <2>8, <2>9 DEF CallKnows
  <2> QED BY <1>1, <2>2, <2>7, <2>10, StepPreserves
<1> QED BY <1>2, <1>3

\* walletWrites plans one Wallet more.
LEMMA InspectWalletPreserves == ASSUME Inv, NEW c \in Calls, InspectWallet(c) PROVE Inv'
<1> DEFINE n == call[c].next + 1
           w == call[c].ws[n]
           o == IF owner[w] = NoHolder THEN call[c].opens \union {w} ELSE call[c].opens
           a == IF Recorded(call[c].seen, w) THEN call[c].adds ELSE Append(call[c].adds, w)
<1>1. Stable /\ Shared'
  BY QuietStep DEF InspectWallet, Inv, Shared
<1>2. /\ CallKnows(c) /\ Planned(c) /\ call[c] \in CallRecords /\ call[c].pc = "inspect"
      /\ call[c].h \in Holders /\ call[c].ws \in Requests /\ n <= Len(call[c].ws)
  BY DEF Inv, InspectWallet, CallKnows, Planned
<1>3. n \in 1..Len(call[c].ws) /\ w \in Wallets /\ call[c].next \in Nat
  BY <1>2, RequestsName DEF CallRecords
<1>4. CASE owner[w] \notin {NoHolder, call[c].h}
  BY <1>1, <1>2, <1>4, ReturnPreserves DEF InspectWallet, Planned
<1>5. CASE owner[w] \in {NoHolder, call[c].h}
  <2>1. /\ call'[c] = [call[c] EXCEPT !.next = n, !.opens = o, !.adds = a]
        /\ call' = [call EXCEPT ![c] = call'[c]]
        /\ owner' = owner
    BY <1>5 DEF InspectWallet, Inv
  <2>2. call[c].adds \in Seq(HolderEvents) /\ w \in HolderEvents
    BY <1>2, <1>3 DEF CallRecords, HolderEvents
  <2>3. ~Recorded(call[c].adds, w)
    <3>1. ASSUME NEW i \in 1..call[c].next, call[c].ws[i] = w PROVE FALSE
      <4>1. i \in DOMAIN call[c].ws /\ n \in DOMAIN call[c].ws /\ i # n
        BY <1>2, <1>3, <3>1, RequestsName
      <4> QED BY <1>2, <3>1, <4>1, RequestsName DEF Distinct
    <3> QED BY <1>2, <1>3, <3>1 DEF Planned
  <2>4. /\ a \in Seq(HolderEvents) /\ Distinct(a)
        /\ \A e : Recorded(a, e) => Recorded(call[c].adds, e) \/ (e = w /\ ~Recorded(call[c].seen, w))
        /\ call[c].adds # << >> => a # << >> /\ a[1] = call[c].adds[1]
    BY <1>2, <2>2, <2>3, AppendRecords DEF Planned
  <2>5. /\ o \subseteq Wallets /\ call[c].opens \subseteq o
        /\ w \in o \/ owner[w] = call[c].h
    BY <1>2, <1>3, <1>5 DEF CallRecords
  <2>6. 1..call[c].next \subseteq 1..n /\ n \in 1..n /\ n \in Nat
    BY <1>3
  <2> HIDE DEF o, a
  <2>7. call'[c] \in CallRecords
    BY <1>2, <2>1, <2>4, <2>5, <2>6 DEF CallRecords
  <2>8. /\ call'[c].pc = "inspect" /\ call'[c].seen = call[c].seen /\ call'[c].adds = a
        /\ call'[c].rpc = call[c].rpc /\ call'[c].h = call[c].h /\ call'[c].ws = call[c].ws
        /\ call'[c].next = n /\ call'[c].opens = o /\ call'[c].reply = call[c].reply
    BY <1>2, <2>1 DEF CallRecords
  <2>9. Apart(call[c].seen, a)
    BY <1>2, <2>4 DEF Planned, Apart
  <2>10. ASSUME NEW x \in Wallets, Recorded(a, x)
         PROVE  (x \in o \/ owner[x] = call[c].h) /\ \E i \in 1..n : call[c].ws[i] = x
    <3>1. CASE Recorded(call[c].adds, x)
      BY <1>2, <2>5, <2>6, <3>1 DEF Planned
    <3>2. CASE x = w
      BY <2>5, <2>6, <3>2
    <3> QED BY <2>4, <2>10, <3>1, <3>2
  <2>11. Planned(c)'
    BY <1>2, <2>1, <2>4, <2>8, <2>9, <2>10 DEF Planned
  <2>12. CallKnows(c)'
    BY <1>2, <2>8, <2>11 DEF CallKnows, Planned
  <2> QED BY <1>1, <2>1, <2>7, <2>12, StepPreserves
<1> QED BY <1>4, <1>5

\* appendConverging writes the plan, if the streams are still the ones it was
\* made for.
LEMMA AppendConvergingPreserves == ASSUME Inv, NEW c \in Calls, AppendConverging(c) PROVE Inv'
<1> DEFINE h == call[c].h
<1>1. /\ CallKnows(c) /\ Planned(c) /\ call[c] \in CallRecords /\ call[c].pc = "inspect" /\ Shared
      /\ h \in Holders /\ crashes' = crashes /\ call[c].rpc # "Open" /\ Return(c, "ok")
  BY DEF Inv, AppendConverging, CallKnows, Planned
<1>2. CASE Conflicts(c)
  <2>1. Stable /\ Shared'
    BY <1>1, <1>2, QuietStep DEF AppendConverging, Shared
  <2> QED BY <1>1, <2>1, ReturnPreserves
<1>3. CASE ~Conflicts(c)
  <2>1. /\ holder' = [holder EXCEPT ![h] = @ \o call[c].adds]
        /\ owner' = [w \in Wallets |-> IF w \in call[c].opens THEN h ELSE owner[w]]
        /\ call[c].adds # << >> => holder[h] = call[c].seen
        /\ \A w \in call[c].opens : owner[w] = NoHolder
    BY <1>3 DEF AppendConverging, Conflicts
  <2>2. /\ call[c].adds \in Seq(HolderEvents) /\ holder[h] \in Seq(HolderEvents)
        /\ call[c].opens \subseteq Wallets
    BY <1>1 DEF CallRecords, Shared
  <2>3. Stable
    BY <1>1, <2>1 DEF Stable
  <2> DEFINE s == holder[h] \o call[c].adds
  <2>4. /\ s \in Seq(HolderEvents) /\ Distinct(s) /\ (s # << >> => s[1] = Established)
        /\ \A e : Recorded(s, e) => Recorded(holder[h], e) \/ Recorded(call[c].adds, e)
    <3>1. CASE call[c].adds = << >>
      <4>1. s = holder[h]
        BY <2>2, <3>1
      <4> QED BY <1>1, <2>2, <4>1 DEF Shared, RecordedOnce
    <3>2. CASE call[c].adds # << >>
      <4>1. holder[h] = call[c].seen
        BY <2>1, <3>2
      <4>2. Distinct(holder[h]) /\ Distinct(call[c].adds) /\ Apart(holder[h], call[c].adds)
        BY <1>1, <4>1 DEF Planned
      <4>3. s \in Seq(HolderEvents) /\ Distinct(s) /\ \A e : Recorded(s, e) => Recorded(holder[h], e) \/ Recorded(call[c].adds, e)
        BY <2>2, <4>2, ConcatRecords
      <4>4. (holder[h] # << >> => s[1] = holder[h][1]) /\ (holder[h] = << >> => s = call[c].adds)
        <5> HIDE DEF s
        <5>1. ASSUME NEW x \in Seq(HolderEvents), NEW y \in Seq(HolderEvents)
              PROVE  (x # << >> => (x \o y)[1] = x[1]) /\ (x = << >> => x \o y = y)
          BY <5>1, ConcatRecords
        <5> QED BY <2>2, <5>1 DEF s
      <4> QED BY <1>1, <4>1, <4>3, <4>4 DEF Planned
    <3> QED BY <3>1, <3>2
  <2> HIDE DEF s
  <2>5. /\ holder' \in [Holders -> Seq(HolderEvents)] /\ holder'[h] = s
        /\ \A g \in Holders : g # h => holder'[g] = holder[g]
    <3>1. holder' = [holder EXCEPT ![h] = s]
      BY <2>1 DEF s
    <3> QED BY <1>1, <2>4, <3>1 DEF Shared
  <2>6. owner' \in [Wallets -> Holders \union {NoHolder}]
    BY <1>1, <2>1 DEF Shared
  <2>7. RecordedOnce'
    BY <1>1, <2>4, <2>5 DEF Shared, RecordedOnce
  <2>8. ASSUME NEW g \in Holders, NEW w \in Wallets, Recorded(holder'[g], w) PROVE owner'[w] = g
    <3>1. CASE Recorded(holder[g], w)
      <4>1. owner[w] = g
        BY <1>1, <3>1 DEF Shared, AddedMeansOpened
      <4> QED BY <2>3, <4>1, ConstantsAssumption DEF Stable
    <3>2. CASE g = h /\ Recorded(call[c].adds, w)
      BY <1>1, <2>1, <3>2 DEF Planned
    <3> QED BY <2>4, <2>5, <2>8, <3>1, <3>2
  <2>9. Shared'
    BY <1>1, <2>5, <2>6, <2>7, <2>8 DEF Shared, AddedMeansOpened
  <2> QED BY <1>1, <2>3, <2>9, ReturnPreserves
<1> QED BY <1>2, <1>3

\* Open: the reads and the write of one Wallet.
LEMMA OpenPreserves ==
    ASSUME Inv, NEW c \in Calls, LoadOpen(c) \/ AppendOpen(c) \/ ReplayOpen(c)
    PROVE  Inv'
<1>1. /\ CallKnows(c) /\ call[c] \in CallRecords /\ Shared /\ call[c].rpc = "Open" /\ call[c].pc # "idle"
      /\ call[c].h \in Holders /\ UNCHANGED <<holder, crashes>>
  BY DEF Inv, LoadOpen, AppendOpen, ReplayOpen, CallKnows
<1>2. call[c].ws[1] \in Wallets
  BY <1>1, RequestsName DEF CallKnows
<1>3. ASSUME UNCHANGED owner, Return(c, Replayed(c)) PROVE Inv'
  <2>1. Stable /\ Shared'
    BY <1>1, <1>3, QuietStep DEF Shared
  <2>2. /\ Replayed(c) \in {"ok", "rejected", "error", "crashed"}
        /\ Replayed(c) = "ok" => owner'[call[c].ws[1]] = call[c].h
    BY <1>3 DEF Replayed
  <2> DEFINE y == Replayed(c)
  <2> HIDE DEF y
  <2>3. y \in {"ok", "rejected", "error", "crashed"} /\ (y = "ok" => owner'[call[c].ws[1]] = call[c].h)
        /\ Return(c, y)
    BY <1>3, <2>2 DEF y
  <2> QED BY <1>1, <2>1, <2>3, ReturnPreserves
<1>4. ASSUME UNCHANGED owner, NEW q \in {"append", "replay"}, call[c].pc \in {"load", "append"},
             call' = [call EXCEPT ![c].pc = q]
      PROVE  Inv'
  <2>1. Stable /\ Shared'
    BY <1>1, <1>4, QuietStep DEF Shared
  <2>2. call'[c] = [call[c] EXCEPT !.pc = q] /\ call' = [call EXCEPT ![c] = call'[c]]
    BY <1>4 DEF Inv
  <2>3. call'[c] \in CallRecords
    BY <1>1, <2>2 DEF CallRecords
  <2>4. CallKnows(c)'
    BY <1>1, <1>4, <2>2 DEF CallKnows, CallRecords
  <2> QED BY <2>1, <2>2, <2>3, <2>4, StepPreserves
<1>5. ASSUME owner[call[c].ws[1]] = NoHolder, owner' = [owner EXCEPT ![call[c].ws[1]] = call[c].h],
             Return(c, "ok")
      PROVE  Inv'
  <2>1. /\ owner' \in [Wallets -> Holders \union {NoHolder}] /\ owner'[call[c].ws[1]] = call[c].h
        /\ \A w \in Wallets : w # call[c].ws[1] => owner'[w] = owner[w]
    BY <1>1, <1>2, <1>5 DEF Shared
  <2>2. Stable
    BY <1>5, <2>1 DEF Stable
  <2>3. AddedMeansOpened'
    BY <1>1, <1>5, <2>1, ConstantsAssumption DEF Shared, AddedMeansOpened
  <2>4. Shared'
    BY <1>1, <2>1, <2>3 DEF Shared, RecordedOnce
  <2> QED BY <1>1, <1>5, <2>1, <2>2, <2>4, ReturnPreserves
<1>6. CASE LoadOpen(c)
  BY <1>3, <1>4, <1>6 DEF LoadOpen
<1>7. CASE AppendOpen(c)
  BY <1>4, <1>5, <1>7 DEF AppendOpen
<1>8. CASE ReplayOpen(c)
  BY <1>3, <1>8 DEF ReplayOpen
<1> QED BY <1>6, <1>7, <1>8

\* Every step preserves the invariant.
LEMMA NextPreserves == ASSUME Inv, [Next]_vars PROVE Inv'
<1>1. ASSUME UNCHANGED vars PROVE Inv'
  <2>1. Stable /\ Shared'
    BY <1>1, QuietStep DEF vars, Inv, Shared
  <2>2. \A c \in Calls : CallKnows(c)'
    BY <1>1, <2>1, KnowledgeIsStable DEF vars
  <2> QED BY <1>1, <2>1, <2>2 DEF Inv, vars
<1>2. ASSUME NEW c \in Calls, CallStep(c) PROVE Inv'
  BY <1>2, LoadEstablishPreserves, AppendEstablishPreserves, LoadHolderPreserves,
     InspectWalletPreserves, AppendConvergingPreserves, OpenPreserves DEF CallStep
<1>3. ASSUME NEW c \in Calls, Request(c) PROVE Inv'
  BY <1>3, StartPreserves DEF Request
<1> QED BY <1>1, <1>2, <1>3, CrashPreserves DEF Next

\* The inductive invariant holds throughout.
LEMMA InvHolds == Spec => []Inv
<1>1. Init => Inv
  BY InvInit
<1>2. Inv /\ [Next]_vars => Inv'
  BY NextPreserves
<1> QED BY <1>1, <1>2, PTL DEF Spec

\* The streams and the calls' locals stay within their types, and walletWrites
\* never looks past the request's last Wallet.
THEOREM TypeCorrect == Spec => []TypeOK
<1>1. Inv => TypeOK
  BY DEF Inv, Shared, CallKnows, TypeOK
<1> QED BY <1>1, InvHolds, PTL

\* A Holder's stream names only Wallets that were opened under it, however
\* AddWallet, Provision and Open calls interleave and wherever they die.
THEOREM AlwaysAddedMeansOpened == Spec => []AddedMeansOpened
<1>1. Inv => AddedMeansOpened
  BY DEF Inv, Shared
<1> QED BY <1>1, InvHolds, PTL

\* Retries and racing calls record HolderEstablished first, and it and each
\* Wallet at most once (Establish, appendConverging).
THEOREM AlwaysRecordedOnce == Spec => []RecordedOnce
<1>1. Inv => RecordedOnce
  BY DEF Inv, Shared
<1> QED BY <1>1, InvHolds, PTL

\* An Open that answered its caller with a Wallet answered with the caller's own,
\* also when it lost the race for it (replayResponse).
THEOREM AlwaysOpenedForCaller == Spec => []OpenedForCaller
<1>1. Inv => OpenedForCaller
  BY DEF Inv, CallKnows, OpenedForCaller
<1> QED BY <1>1, InvHolds, PTL
=============================================================================
