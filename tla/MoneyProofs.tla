----------------------------- MODULE MoneyProofs -----------------------------
(***************************************************************************)
(* What holds of the money for any number of Wallets, Tokens, Transfers,    *)
(* Mint calls and crashes, and for every request.                           *)
(***************************************************************************)
EXTENDS Money, LedgerProofs

-----------------------------------------------------------------------------
(* The inductive invariant.                                                  *)

Tags == Transactions \union {NoTransaction} \union {req(t).tx : t \in Transfers}

StreamsInv ==
    /\ scenario \in Scenarios
    /\ open \subseteq Transactions
    /\ DOMAIN listing = Wallets
    /\ \A w \in Wallets : listing[w] \in Seq([token : DOMAIN minted, tag : Tags])
    /\ \A k \in DOMAIN minted : minted[k].wallet \in Wallets
    /\ MintedIsBackedAndListed

\* Money only ever moves between Tokens whose mint is on record.
LedgerInv ==
    /\ IsLedger(ledger) /\ WithinLimits(ledger)
    /\ \A id \in DOMAIN ledger.transfers :
          {ledger.transfers[id].debit, ledger.transfers[id].credit} \subseteq DOMAIN minted

Takes(T) == Seq([source : T, amount : Nat])
Manifests(T) == Seq([source : T, dest : T, amount : Nat])

\* No other open Transaction brought in Token k.
Seen(t, k) ==
    \A n \in DOMAIN listing[req(t).from] :
        LET e == listing[req(t).from][n]
        IN  e.token = k /\ e.tag \in open => e.tag = req(t).tx

\* A mint that is about to be recorded has its account.
WriteKnows(x) ==
    /\ x.wallet \in Wallets /\ Opened(x.wallet)
    /\ x.token \in DOMAIN ledger.accounts
    /\ ledger.accounts[x.token].flags = FlagsOf(x.wallet)
TokensIn(writes) == {x.token : x \in writes}
WritesKnow(writes) ==
    /\ \A x \in writes : WriteKnows(x)
    /\ \A x, y \in writes : x.token = y.token => x = y

\* What a driver holds between its steps.
SelectKnows(t, c) ==
    /\ req(t).kind = "forward" /\ ~req(t).mintSource
    /\ c \in [pc : Selecting, todo : SUBSET (DOMAIN listing[req(t).from]), left : Nat,
              legs : Takes(DOMAIN minted)]
    /\ \A n \in c.todo : Seen(t, listing[req(t).from][n].token)
    /\ \A i \in DOMAIN c.legs : Seen(t, c.legs[i].source)

SourceKnown(t, k, writes) == k \in TokensIn(writes) \/ (k \in DOMAIN minted /\ Seen(t, k))

PlanKnows(t, c) ==
    /\ req(t).kind = "forward"
    /\ WritesKnow(c.writes)
    /\ c.legs \in Takes(DOMAIN minted \union TokensIn(c.writes))
    /\ \A i \in DOMAIN c.legs : SourceKnown(t, c.legs[i].source, c.writes)

AppendKnows(t, c) ==
    /\ WritesKnow(c.writes)
    /\ c.legs \in Manifests(DOMAIN minted \union TokensIn(c.writes))
    /\ req(t).kind = "forward" => \A i \in DOMAIN c.legs : SourceKnown(t, c.legs[i].source, c.writes)

\* What a driver may be about to record.
Outcomes == {"staged", "committed", "failed", "cancelled"}

CallKnows(t) ==
    /\ call[t].pc \in Selecting => SelectKnows(t, call[t])
    /\ call[t].pc = "plan" => PlanKnows(t, call[t])
    /\ call[t].pc = "append" => AppendKnows(t, call[t])
    /\ call[t].pc = "record" => call[t].outcome \in Outcomes
    /\ state[t] = "accepted" /\ req(t).kind = "forward" /\ req(t).mintSource => ValidMintSource(req(t))

LegsKnow(t) ==
    /\ legs[t] \in Manifests(DOMAIN minted)
    /\ t \in Transfers /\ req(t).kind = "forward" => \A i \in DOMAIN legs[t] : Seen(t, legs[t][i].source)

MintKnows(k) == mint[k].pc = "append" => WriteKnows(mint[k].write)

MoneyInv ==
    /\ StreamsInv /\ LedgerInv
    /\ DOMAIN call = Transfers /\ DOMAIN mint = Mints /\ DOMAIN legs = AllTransfers /\ DOMAIN state = AllTransfers
    /\ \A t \in Transfers : CallKnows(t)
    /\ \A t \in AllTransfers : LegsKnow(t)
    /\ \A k \in Mints : MintKnows(k)

-----------------------------------------------------------------------------
(* What no step takes back.                                                  *)

\* Streams and accounts only grow, and a Token is listed once.
Grows ==
    /\ scenario' = scenario
    /\ open' \subseteq open
    /\ DOMAIN minted \subseteq DOMAIN minted' /\ \A k \in DOMAIN minted : minted'[k] = minted[k]
    /\ DOMAIN listing' = Wallets
    /\ \A w \in Wallets :
          /\ DOMAIN listing[w] \subseteq DOMAIN listing'[w]
          /\ \A n \in DOMAIN listing'[w] :
                IF n \in DOMAIN listing[w] THEN listing'[w][n] = listing[w][n]
                                           ELSE listing'[w][n].token \notin DOMAIN minted
    /\ DOMAIN ledger.accounts \subseteq DOMAIN ledger'.accounts
    /\ \A k \in DOMAIN ledger.accounts : ledger'.accounts[k].flags = ledger.accounts[k].flags

\* The requests stay the same.
LEMMA RequestsStay ==
    ASSUME scenario' = scenario
    PROVE  /\ allows' = allows /\ Tags' = Tags
           /\ \A t : req(t)' = req(t) /\ \A k : mintOf(k)' = mintOf(k)
           /\ \A w : (Opened(w)' <=> Opened(w)) /\ FlagsOf(w)' = FlagsOf(w)
           /\ \A r : ValidMintSource(r)' <=> ValidMintSource(r)
<1>1. allows' = allows /\ \A t : req(t)' = req(t) /\ \A k : mintOf(k)' = mintOf(k)
  BY DEF allows, req, mintOf
<1>2. Tags' = Tags
  BY <1>1 DEF Tags
<1> QED BY <1>1, <1>2 DEF Opened, FlagsOf, ValidMintSource

\* What was requested.
LEMMA Requested ==
    ASSUME StreamsInv
    PROVE  /\ scenario.rule \in Rules
           /\ \A t \in Transfers : Request(req(t))
           /\ \A k \in Mints : mintOf(k).wallet \in Wallets
           /\ DOMAIN allows = Wallets
BY MoneyAssumption DEF StreamsInv, req, mintOf, allows

\* A Token that was seen stays seen.
LEMMA SeenStays ==
    ASSUME Grows, NEW t, req(t).from \in Wallets, NEW k \in DOMAIN minted, Seen(t, k)
    PROVE  Seen(t, k)'
<1> DEFINE w == req(t).from
<1>1. req(t)' = req(t)
  BY RequestsStay DEF Grows
<1>2. ASSUME NEW n \in DOMAIN listing'[w], listing'[w][n].token = k, listing'[w][n].tag \in open'
      PROVE  listing'[w][n].tag = req(t).tx
  <2>1. n \in DOMAIN listing[w] /\ listing'[w][n] = listing[w][n] /\ listing[w][n].tag \in open
    BY <1>2 DEF Grows
  <2> QED BY <1>2, <2>1 DEF Seen
<1> QED BY <1>1, <1>2 DEF Seen

\* So does what is known of a mint ...
LEMMA WritesStay ==
    ASSUME Grows
    PROVE  /\ \A x : WriteKnows(x) => WriteKnows(x)'
           /\ \A writes : WritesKnow(writes) => WritesKnow(writes)'
<1>1. \A x : WriteKnows(x) => WriteKnows(x)'
  BY RequestsStay DEF Grows, WriteKnows
<1> QED BY <1>1 DEF WritesKnow

\* What a sequence of records has at its places.
LEMMA ManifestsAre ==
    ASSUME NEW T
    PROVE  /\ \A ls \in Takes(T) :
                /\ Len(ls) \in Nat /\ DOMAIN ls = 1..Len(ls)
                /\ \A i \in DOMAIN ls : ls[i].source \in T /\ ls[i].amount \in Nat
           /\ \A ls \in Manifests(T) :
                /\ Len(ls) \in Nat /\ DOMAIN ls = 1..Len(ls)
                /\ \A i \in DOMAIN ls : ls[i].source \in T /\ ls[i].dest \in T /\ ls[i].amount \in Nat
<1> DEFINE R == [source : T, amount : Nat]
           Q == [source : T, dest : T, amount : Nat]
<1>1. \A r \in R : r.source \in T /\ r.amount \in Nat
  OBVIOUS
<1>2. \A r \in Q : r.source \in T /\ r.dest \in T /\ r.amount \in Nat
  OBVIOUS
<1> HIDE DEF R, Q
<1>3. \A ls \in Seq(R) : Len(ls) \in Nat /\ DOMAIN ls = 1..Len(ls) /\ \A i \in DOMAIN ls : ls[i] \in R
  OBVIOUS
<1>4. \A ls \in Seq(Q) : Len(ls) \in Nat /\ DOMAIN ls = 1..Len(ls) /\ \A i \in DOMAIN ls : ls[i] \in Q
  OBVIOUS
<1> QED BY <1>1, <1>2, <1>3, <1>4 DEF Takes, Manifests, R, Q

\* What a Wallet's stream has at its places.
LEMMA ListingIs ==
    ASSUME StreamsInv, NEW w \in Wallets
    PROVE  /\ Len(listing[w]) \in Nat /\ DOMAIN listing[w] = 1..Len(listing[w])
           /\ \A n \in DOMAIN listing[w] : listing[w][n].token \in DOMAIN minted /\ listing[w][n].tag \in Tags
<1> DEFINE R == [token : DOMAIN minted, tag : Tags]
<1>1. \A r \in R : r.token \in DOMAIN minted /\ r.tag \in Tags
  OBVIOUS
<1>2. listing[w] \in Seq(R)
  BY DEF StreamsInv
<1> HIDE DEF R
<1>3. Len(listing[w]) \in Nat /\ DOMAIN listing[w] = 1..Len(listing[w]) /\ \A i \in DOMAIN listing[w] : listing[w][i] \in R
  BY <1>2
<1> QED BY <1>1, <1>3

\* Sequences over a larger set.
LEMMA SequencesGrow == ASSUME NEW S, NEW R, S \subseteq R, NEW s \in Seq(S) PROVE s \in Seq(R)
OBVIOUS

\* Manifests over more Tokens.
LEMMA ManifestsGrow ==
    ASSUME NEW T, NEW U, T \subseteq U
    PROVE  /\ \A ls \in Takes(T) : ls \in Takes(U)
           /\ \A ls \in Manifests(T) : ls \in Manifests(U)
<1>1. [source : T, amount : Nat] \subseteq [source : U, amount : Nat]
  OBVIOUS
<1>2. [source : T, dest : T, amount : Nat] \subseteq [source : U, dest : U, amount : Nat]
  OBVIOUS
<1> QED BY <1>1, <1>2, SequencesGrow DEF Takes, Manifests

\* What is known of a source Token stays known,
LEMMA SourceStays ==
    ASSUME Grows, NEW t, req(t).from \in Wallets, NEW k, NEW writes, SourceKnown(t, k, writes)
    PROVE  SourceKnown(t, k, writes)'
<1>1. TokensIn(writes)' = TokensIn(writes)
  BY DEF TokensIn
<1> QED BY <1>1, SeenStays DEF SourceKnown, Grows

\* ... of the legs and the writes that prepare has planned so far,
LEMMA PlanStays ==
    ASSUME StreamsInv, Grows, NEW t \in Transfers, NEW c, PlanKnows(t, c)
    PROVE  PlanKnows(t, c)'
<1>1. req(t)' = req(t) /\ req(t).kind = "forward" /\ req(t).from \in Wallets
  BY RequestsStay, Requested DEF Grows, PlanKnows, Request
<1>2. \A i \in DOMAIN c.legs : (SourceKnown(t, c.legs[i].source, c.writes))'
  BY <1>1, SourceStays DEF PlanKnows
<1>3. PICK T, U : T = DOMAIN minted \union TokensIn(c.writes) /\ U = DOMAIN minted' \union TokensIn(c.writes)
  OBVIOUS
<1>4. T \subseteq U /\ c.legs \in Takes(T)
  BY <1>3 DEF Grows, PlanKnows
<1>5. c.legs \in Takes(U) /\ WritesKnow(c.writes)'
  BY <1>4, ManifestsGrow, WritesStay DEF PlanKnows
<1> QED BY <1>1, <1>2, <1>3, <1>5 DEF PlanKnows, TokensIn

\* ... of the manifest that is about to be appended,
LEMMA AppendStays ==
    ASSUME StreamsInv, Grows, NEW t \in Transfers, NEW c, AppendKnows(t, c)
    PROVE  AppendKnows(t, c)'
<1>1. req(t)' = req(t) /\ (req(t).kind = "forward" => req(t).from \in Wallets)
  BY RequestsStay, Requested DEF Grows, Request
<1>2. req(t).kind = "forward" => \A i \in DOMAIN c.legs : (SourceKnown(t, c.legs[i].source, c.writes))'
  BY <1>1, SourceStays DEF AppendKnows
<1>3. PICK T, U : T = DOMAIN minted \union TokensIn(c.writes) /\ U = DOMAIN minted' \union TokensIn(c.writes)
  OBVIOUS
<1>4. T \subseteq U /\ c.legs \in Manifests(T)
  BY <1>3 DEF Grows, AppendKnows
<1>5. c.legs \in Manifests(U) /\ WritesKnow(c.writes)'
  BY <1>4, ManifestsGrow, WritesStay DEF AppendKnows
<1> QED BY <1>1, <1>2, <1>3, <1>5 DEF AppendKnows, TokensIn

\* ... of all that a driver holds,
LEMMA CallStays ==
    ASSUME MoneyInv, Grows, NEW t \in Transfers, call'[t] = call[t],
           state'[t] = "accepted" => state[t] = "accepted"
    PROVE  CallKnows(t)'
<1> DEFINE c == call[t]
<1>1. CallKnows(t) /\ req(t)' = req(t) /\ (ValidMintSource(req(t))' <=> ValidMintSource(req(t))) /\ StreamsInv
  BY RequestsStay DEF MoneyInv, Grows
<1>2. req(t).kind = "forward" => req(t).from \in Wallets
  BY <1>1, Requested DEF Request
<1>3. CASE c.pc \in Selecting
  <2>1. SelectKnows(t, c) /\ req(t).from \in Wallets
    BY <1>1, <1>2, <1>3 DEF CallKnows, SelectKnows
  <2> DEFINE w == req(t).from
  <2>2. DOMAIN listing[w] \subseteq DOMAIN listing'[w] /\ \A n \in DOMAIN listing[w] : listing'[w][n] = listing[w][n]
    BY <2>1 DEF Grows
  <2>3. c.legs \in Takes(DOMAIN minted) /\ c.todo \in SUBSET DOMAIN listing[w] /\ c.left \in Nat
    BY <2>1 DEF SelectKnows
  <2>4. \A n \in c.todo : Seen(t, listing[w][n].token) /\ listing[w][n].token \in DOMAIN minted
    BY <1>1, <2>1, <2>3, ListingIs DEF SelectKnows
  <2>5. \A i \in DOMAIN c.legs : Seen(t, c.legs[i].source) /\ c.legs[i].source \in DOMAIN minted
    BY <2>1, <2>3, ManifestsAre DEF SelectKnows
  <2>6. \A n \in c.todo : (Seen(t, listing[w][n].token))'
    BY <2>1, <2>2, <2>3, <2>4, <1>1, SeenStays
  <2>7. \A i \in DOMAIN c.legs : (Seen(t, c.legs[i].source))'
    BY <2>1, <2>5, SeenStays
  <2>8. c.legs \in Takes(DOMAIN minted') /\ c.todo \in SUBSET DOMAIN listing'[w]
    BY <2>2, <2>3, ManifestsGrow DEF Grows
  <2>9. c \in [pc : Selecting, todo : SUBSET (DOMAIN listing'[w]), left : Nat, legs : Takes(DOMAIN minted')]
    BY <2>1, <2>8 DEF SelectKnows
  <2>10. SelectKnows(t, call[t])'
    BY <1>1, <2>1, <2>6, <2>7, <2>9 DEF SelectKnows
  <2> QED BY <1>1, <1>3, <2>10 DEF CallKnows, Selecting
<1>4. CASE c.pc = "plan"
  <2>1. PICK d : d = c
    OBVIOUS
  <2>2. PlanKnows(t, d) /\ PlanKnows(t, d)'
    BY <1>1, <1>4, <2>1, PlanStays DEF CallKnows
  <2>3. PlanKnows(t, call[t])'
    BY <2>1, <2>2
  <2> QED BY <1>1, <1>4, <2>3 DEF CallKnows, Selecting
<1>5. CASE c.pc = "append"
  <2>1. PICK d : d = c
    OBVIOUS
  <2>2. AppendKnows(t, d) /\ AppendKnows(t, d)'
    BY <1>1, <1>5, <2>1, AppendStays DEF CallKnows
  <2>3. AppendKnows(t, call[t])'
    BY <2>1, <2>2
  <2> QED BY <1>1, <1>5, <2>3 DEF CallKnows, Selecting
<1>6. CASE c.pc \notin Selecting \union {"plan", "append"}
  BY <1>1, <1>6 DEF CallKnows
<1> QED BY <1>3, <1>4, <1>5, <1>6

\* ... of a recorded manifest,
LEMMA LegsStay ==
    ASSUME MoneyInv, Grows, NEW t \in AllTransfers, legs'[t] = legs[t]
    PROVE  LegsKnow(t)'
<1>1. LegsKnow(t) /\ req(t)' = req(t) /\ StreamsInv
  BY RequestsStay DEF MoneyInv, Grows
<1>2. legs[t] \in Manifests(DOMAIN minted')
  BY <1>1, ManifestsGrow DEF LegsKnow, Grows
<1>3. ASSUME t \in Transfers, req(t).kind = "forward", NEW i \in DOMAIN legs[t] PROVE Seen(t, legs[t][i].source)'
  <2>1. legs[t][i].source \in DOMAIN minted /\ Seen(t, legs[t][i].source) /\ req(t).from \in Wallets
    BY <1>1, <1>3, Requested, ManifestsAre DEF LegsKnow, Request
  <2> QED BY <2>1, SeenStays
<1> QED BY <1>1, <1>2, <1>3 DEF LegsKnow

\* ... and of a mint that is about to be appended.
LEMMA MintStays == ASSUME MoneyInv, Grows, NEW k \in Mints, mint'[k] = mint[k] PROVE MintKnows(k)'
BY WritesStay DEF MoneyInv, MintKnows

-----------------------------------------------------------------------------
(* What the steps do to streams and ledger.                                  *)

\* Nothing: the steps that read, decide or give up.
LEMMA StoresStay ==
    ASSUME MoneyInv, UNCHANGED <<scenario, ledger, listing, minted>>, open' \subseteq open
    PROVE  Grows /\ StreamsInv' /\ LedgerInv'
<1>1. StreamsInv /\ LedgerInv /\ MintedIsBackedAndListed
  BY DEF MoneyInv, StreamsInv
<1>2. \A w : (Opened(w)' <=> Opened(w)) /\ FlagsOf(w)' = FlagsOf(w)
  BY RequestsStay
<1>3. Tags' = Tags
  BY RequestsStay
<1>4. Grows
  BY <1>1 DEF Grows, StreamsInv
<1>5. MintedIsBackedAndListed'
  BY <1>1, <1>2 DEF MintedIsBackedAndListed
<1>6. StreamsInv'
  BY <1>1, <1>3, <1>5 DEF StreamsInv
<1>7. LedgerInv'
  BY <1>1 DEF LedgerInv
<1> QED BY <1>4, <1>6, <1>7

\* Money moves between minted Tokens.
LEMMA MoneyMoves ==
    ASSUME MoneyInv, UNCHANGED <<scenario, open, listing, minted>>,
           IsLedger(ledger'), WithinLimits(ledger'),
           DOMAIN ledger'.accounts = DOMAIN ledger.accounts,
           \A k \in DOMAIN ledger.accounts :
              /\ ledger'.accounts[k].flags = ledger.accounts[k].flags
              /\ k \in DOMAIN minted \/ ledger'.accounts[k] = ledger.accounts[k],
           \A id \in DOMAIN ledger'.transfers :
              {ledger'.transfers[id].debit, ledger'.transfers[id].credit} \subseteq DOMAIN minted
    PROVE  Grows /\ StreamsInv' /\ LedgerInv'
<1>1. StreamsInv /\ LedgerInv /\ MintedIsBackedAndListed
  BY DEF MoneyInv, StreamsInv
<1>2. \A w : (Opened(w)' <=> Opened(w)) /\ FlagsOf(w)' = FlagsOf(w)
  BY RequestsStay
<1>3. Tags' = Tags
  BY RequestsStay
<1>4. Grows
  BY <1>1 DEF Grows, StreamsInv
<1>5. MintedIsBackedAndListed'
  BY <1>1, <1>2 DEF MintedIsBackedAndListed
<1>6. StreamsInv'
  BY <1>1, <1>3, <1>5 DEF StreamsInv
<1>7. LedgerInv'
  BY DEF LedgerInv
<1> QED BY <1>4, <1>6, <1>7

\* An account is created, or found.
LEMMA AccountComes ==
    ASSUME MoneyInv, UNCHANGED <<scenario, open, listing, minted>>, NEW id, NEW w,
           ledger' = CreateAccounts(ledger, id, FlagsOf(w)).ledger
    PROVE  /\ Grows /\ StreamsInv' /\ LedgerInv'
           /\ DOMAIN ledger'.accounts = DOMAIN ledger.accounts \union {id}
           /\ (CreateAccounts(ledger, id, FlagsOf(w)).ok \/ id \notin DOMAIN ledger.accounts) =>
                 ledger'.accounts[id].flags = FlagsOf(w)
<1>1. StreamsInv /\ LedgerInv /\ MintedIsBackedAndListed /\ FlagsOf(w) \in Flags /\ IsLedger(ledger) /\ WithinLimits(ledger)
  BY FlagsFromPolicy DEF MoneyInv, StreamsInv, FlagsOf, LedgerInv
<1>2. PICK flags \in Flags : flags = FlagsOf(w)
  BY <1>1
<1>3. /\ IsLedger(ledger') /\ WithinLimits(ledger') /\ ledger'.transfers = ledger.transfers
      /\ DOMAIN ledger'.accounts = DOMAIN ledger.accounts \union {id}
      /\ \A k \in DOMAIN ledger.accounts : ledger'.accounts[k] = ledger.accounts[k]
      /\ id \notin DOMAIN ledger.accounts => ledger'.accounts[id] = NewAccount(flags)
      /\ CreateAccounts(ledger, id, flags).ok => ledger'.accounts[id].flags = flags
  BY <1>1, <1>2, AccountIsCreated
<1>4. NewAccount(flags).flags = flags
  BY DEF NewAccount
<1>5. \A x : (Opened(x)' <=> Opened(x)) /\ FlagsOf(x)' = FlagsOf(x)
  BY RequestsStay
<1>6. Tags' = Tags
  BY RequestsStay
<1>7. Grows
  BY <1>1, <1>3 DEF Grows, StreamsInv
<1>8. MintedIsBackedAndListed'
  <2>1. \A k \in DOMAIN minted : k \in DOMAIN ledger'.accounts /\ ledger'.accounts[k].flags = FlagsOf(minted[k].wallet)
    BY <1>1, <1>3 DEF MintedIsBackedAndListed
  <2>2. \A k \in DOMAIN ledger'.accounts \ DOMAIN minted :
          ledger'.accounts[k] = NewAccount(ledger'.accounts[k].flags)
    BY <1>1, <1>3, <1>4 DEF MintedIsBackedAndListed
  <2> QED BY <1>1, <1>5, <2>1, <2>2 DEF MintedIsBackedAndListed
<1>9. StreamsInv'
  BY <1>1, <1>6, <1>8 DEF StreamsInv
<1>10. LedgerInv'
  BY <1>1, <1>3 DEF LedgerInv
<1> QED BY <1>2, <1>3, <1>4, <1>7, <1>9, <1>10

\* Mints are recorded.
LEMMA MintsAreRecorded ==
    ASSUME MoneyInv, UNCHANGED <<scenario, open, ledger>>, NEW writes, NEW tag \in Tags,
           WritesKnow(writes), Current(writes), Record(writes, tag)
    PROVE  /\ Grows /\ StreamsInv' /\ LedgerInv'
           /\ DOMAIN minted' = DOMAIN minted \union TokensIn(writes)
           /\ \A w \in Wallets : \A n \in DOMAIN listing'[w] :
                 n \notin DOMAIN listing[w] => listing'[w][n].tag = tag
<1> DEFINE into(w) == CHOOSE x \in writes : x.wallet = w
           of(k) == CHOOSE x \in writes : x.token = k
           entry(w) == [token |-> into(w).token, tag |-> tag]
           New(w) == \E x \in writes : x.wallet = w
<1>1. StreamsInv /\ LedgerInv /\ MintedIsBackedAndListed
  BY DEF MoneyInv, StreamsInv
<1>2. /\ listing' = [w \in Wallets |-> IF New(w) THEN Append(listing[w], entry(w)) ELSE listing[w]]
      /\ minted' = [k \in DOMAIN minted \union TokensIn(writes) |->
             IF k \in DOMAIN minted THEN minted[k]
             ELSE [wallet |-> of(k).wallet, capacity |-> of(k).capacity]]
  BY DEF Record, TokensIn
<1>3. \A w : New(w) => into(w) \in writes /\ into(w).wallet = w
  OBVIOUS
<1>4. \A k \in TokensIn(writes) : of(k) \in writes /\ of(k).token = k
  BY DEF TokensIn
<1>5. \A w : entry(w).token = into(w).token /\ entry(w).tag = tag
  OBVIOUS
<1>6. \A x \in writes : /\ x.token \notin DOMAIN minted /\ x.token \in TokensIn(writes)
                         /\ of(x.token) = x /\ WriteKnows(x) /\ x.wallet \in Wallets
                         /\ into(x.wallet) = x /\ New(x.wallet)
  <2> TAKE x \in writes
  <2>1. x.token \notin DOMAIN minted /\ x.token \in TokensIn(writes) /\ WriteKnows(x) /\ x.wallet \in Wallets
    BY DEF Current, TokensIn, WritesKnow, WriteKnows
  <2>2. of(x.token) \in writes /\ of(x.token).token = x.token
    BY <1>4, <2>1
  <2>3. of(x.token) = x
    BY <2>2 DEF WritesKnow
  <2>4. New(x.wallet)
    OBVIOUS
  <2>5. into(x.wallet) \in writes /\ into(x.wallet).wallet = x.wallet
    BY <1>3, <2>4
  <2>6. into(x.wallet) = x
    BY <2>5 DEF Current
  <2> QED BY <2>1, <2>3, <2>4, <2>6
<1> HIDE DEF into, of, entry, New
<1>7. /\ DOMAIN minted' = DOMAIN minted \union TokensIn(writes)
      /\ \A k \in DOMAIN minted : minted'[k] = minted[k]
      /\ \A x \in writes : minted'[x.token].wallet = x.wallet
  <2>1. \A x \in writes : minted'[x.token] = [wallet |-> x.wallet, capacity |-> x.capacity]
    BY <1>2, <1>6
  <2>2. \A x \in writes : minted'[x.token].wallet = x.wallet
    <3> TAKE x \in writes
    <3>1. PICK r : r = [wallet |-> x.wallet, capacity |-> x.capacity]
      OBVIOUS
    <3>2. r.wallet = x.wallet /\ minted'[x.token] = r
      BY <2>1, <3>1
    <3> QED BY <3>2
  <2>3. DOMAIN minted' = DOMAIN minted \union TokensIn(writes) /\ \A k \in DOMAIN minted : minted'[k] = minted[k]
    BY <1>2
  <2> QED BY <2>2, <2>3
<1>8. ASSUME NEW w \in Wallets, New(w)
      PROVE  /\ listing'[w] = Append(listing[w], entry(w)) /\ entry(w).tag = tag
             /\ into(w) \in writes /\ into(w).wallet = w /\ entry(w).token = into(w).token
             /\ entry(w).token \notin DOMAIN minted
             /\ Len(listing[w]) \in Nat /\ DOMAIN listing[w] = 1..Len(listing[w])
             /\ DOMAIN listing'[w] = 1..(Len(listing[w]) + 1)
             /\ \A n \in DOMAIN listing[w] : listing'[w][n] = listing[w][n]
             /\ listing'[w][Len(listing[w]) + 1] = entry(w)
  <2>1. listing'[w] = Append(listing[w], entry(w))
    BY <1>2, <1>8
  <2>2. /\ into(w) \in writes /\ into(w).wallet = w /\ entry(w).tag = tag /\ entry(w).token = into(w).token
        /\ entry(w).token \notin DOMAIN minted
    BY <1>3, <1>5, <1>6, <1>8
  <2>3. listing[w] \in Seq([token : DOMAIN minted, tag : Tags])
    BY <1>1 DEF StreamsInv
  <2>4. PICK S : listing[w] \in Seq(S)
    BY <2>3
  <2> QED BY <2>1, <2>2, <2>4
<1>9. \A w \in Wallets : ~New(w) => listing'[w] = listing[w]
  BY <1>2
<1>10. DOMAIN listing' = Wallets
  BY <1>2
<1>11. Grows
  <2>1. ASSUME NEW w \in Wallets
        PROVE  /\ DOMAIN listing[w] \subseteq DOMAIN listing'[w]
               /\ \A n \in DOMAIN listing'[w] :
                    IF n \in DOMAIN listing[w] THEN listing'[w][n] = listing[w][n]
                                               ELSE listing'[w][n].token \notin DOMAIN minted
    <3>1. CASE New(w)
      BY <1>8, <3>1
    <3>2. CASE ~New(w)
      BY <1>9, <3>2
    <3> QED BY <3>1, <3>2
  <2> QED BY <1>7, <1>10, <2>1 DEF Grows
<1>12. \A w \in Wallets : \A n \in DOMAIN listing'[w] : n \notin DOMAIN listing[w] => listing'[w][n].tag = tag
  <2> TAKE w \in Wallets
  <2>1. CASE New(w)
    BY <1>8, <2>1
  <2>2. CASE ~New(w)
    BY <1>9, <2>2
  <2> QED BY <2>1, <2>2
<1>13. \A w : (Opened(w)' <=> Opened(w)) /\ FlagsOf(w)' = FlagsOf(w)
  BY RequestsStay
<1>14. \A k \in DOMAIN minted' : k \in DOMAIN minted \/ \E x \in writes : x.token = k
  BY <1>7 DEF TokensIn
<1>15. MintedIsBackedAndListed'
  <2>1. ASSUME NEW k \in DOMAIN minted' PROVE k \in DOMAIN ledger.accounts /\ ledger.accounts[k].flags = FlagsOf(minted'[k].wallet)
    <3>1. CASE k \in DOMAIN minted
      BY <1>1, <1>7, <3>1 DEF MintedIsBackedAndListed
    <3>2. CASE \E x \in writes : x.token = k
      BY <1>6, <1>7, <3>2 DEF WriteKnows
    <3> QED BY <1>14, <3>1, <3>2
  <2>2. \A k \in DOMAIN ledger.accounts \ DOMAIN minted' : ledger.accounts[k] = NewAccount(ledger.accounts[k].flags)
    BY <1>1, <1>7 DEF MintedIsBackedAndListed
  <2>3. ASSUME NEW w \in Wallets
        PROVE  /\ ~Opened(w) => listing'[w] = << >>
               /\ {listing'[w][i].token : i \in DOMAIN listing'[w]} = {k \in DOMAIN minted' : minted'[k].wallet = w}
               /\ \A i, j \in DOMAIN listing'[w] : listing'[w][i].token = listing'[w][j].token => i = j
    <3>1. /\ ~Opened(w) => listing[w] = << >>
          /\ {listing[w][i].token : i \in DOMAIN listing[w]} = {k \in DOMAIN minted : minted[k].wallet = w}
          /\ \A i, j \in DOMAIN listing[w] : listing[w][i].token = listing[w][j].token => i = j
      BY <1>1 DEF MintedIsBackedAndListed
    <3>2. \A i \in DOMAIN listing[w] : listing[w][i].token \in DOMAIN minted /\ minted[listing[w][i].token].wallet = w
      BY <3>1
    <3>3. \A k \in DOMAIN minted : minted[k].wallet = w => \E i \in DOMAIN listing[w] : listing[w][i].token = k
      BY <3>1
    <3>4. CASE New(w)
      <4> DEFINE x == into(w)
                 m == Len(listing[w]) + 1
      <4>1. /\ x \in writes /\ x.wallet = w /\ entry(w).token = x.token /\ x.token \notin DOMAIN minted
            /\ DOMAIN listing'[w] = 1..m /\ DOMAIN listing[w] = 1..(m - 1) /\ m \in Nat
            /\ \A n \in DOMAIN listing[w] : listing'[w][n] = listing[w][n]
            /\ listing'[w][m].token = x.token /\ m \in DOMAIN listing'[w]
            /\ Opened(w) /\ minted'[x.token].wallet = w /\ x.token \in DOMAIN minted'
        BY <1>6, <1>7, <1>8, <3>4 DEF WriteKnows
      <4> HIDE DEF x, m
      <4>2. \A n \in DOMAIN listing'[w] : n \in DOMAIN listing[w] \/ n = m
        BY <4>1
      <4>3. ASSUME NEW n \in DOMAIN listing'[w] PROVE listing'[w][n].token \in DOMAIN minted' /\ minted'[listing'[w][n].token].wallet = w
        <5>1. CASE n = m
          BY <4>1, <5>1
        <5>2. CASE n \in DOMAIN listing[w]
          BY <1>7, <3>2, <4>1, <5>2
        <5> QED BY <4>2, <5>1, <5>2
      <4>4. ASSUME NEW k \in DOMAIN minted', minted'[k].wallet = w PROVE \E n \in DOMAIN listing'[w] : listing'[w][n].token = k
        <5>1. CASE k \in DOMAIN minted
          <6>1. PICK i \in DOMAIN listing[w] : listing[w][i].token = k
            BY <1>7, <3>3, <4>4, <5>1
          <6>2. i \in DOMAIN listing'[w] /\ listing'[w][i].token = k
            BY <4>1, <6>1
          <6> QED BY <6>2
        <5>2. CASE k \notin DOMAIN minted
          <6>1. PICK y \in writes : y.token = k
            BY <1>14, <5>2
          <6>2. y.wallet = w /\ into(w) = y
            BY <1>6, <1>7, <4>4, <6>1
          <6> QED BY <4>1, <6>1, <6>2 DEF x
        <5> QED BY <5>1, <5>2
      <4>5. {listing'[w][i].token : i \in DOMAIN listing'[w]} = {k \in DOMAIN minted' : minted'[k].wallet = w}
        BY <4>3, <4>4
      <4>6. \A i, j \in DOMAIN listing'[w] : listing'[w][i].token = listing'[w][j].token => i = j
        <5> TAKE i \in DOMAIN listing'[w], j \in DOMAIN listing'[w]
        <5>1. CASE i \in DOMAIN listing[w] /\ j \in DOMAIN listing[w]
          BY <3>1, <4>1, <5>1
        <5>2. CASE i \in DOMAIN listing[w] /\ j = m
          BY <3>2, <4>1, <5>2
        <5>3. CASE i = m /\ j \in DOMAIN listing[w]
          BY <3>2, <4>1, <5>3
        <5> QED BY <4>2, <5>1, <5>2, <5>3
      <4> QED BY <4>1, <4>5, <4>6
    <3>5. CASE ~New(w)
      <4>1. listing'[w] = listing[w]
        BY <1>9, <3>5
      <4>2. \A x \in writes : x.wallet # w
        BY <1>6, <3>5
      <4>3. \A k \in DOMAIN minted' : minted'[k].wallet = w => k \in DOMAIN minted
        BY <1>7, <1>14, <4>2
      <4>4. {k \in DOMAIN minted' : minted'[k].wallet = w} = {k \in DOMAIN minted : minted[k].wallet = w}
        BY <1>7, <4>3
      <4> QED BY <3>1, <4>1, <4>4
    <3> QED BY <3>4, <3>5
  <2> QED BY <1>13, <2>1, <2>2, <2>3 DEF MintedIsBackedAndListed
<1>16. ASSUME NEW w \in Wallets PROVE listing'[w] \in Seq([token : DOMAIN minted', tag : Tags])
  <2>0. [token : DOMAIN minted, tag : Tags] \subseteq [token : DOMAIN minted', tag : Tags]
    BY <1>7
  <2>1. listing[w] \in Seq([token : DOMAIN minted', tag : Tags])
    BY <1>1, <2>0, SequencesGrow DEF StreamsInv
  <2>2. CASE New(w)
    <3>1. entry(w) \in [token : DOMAIN minted', tag : Tags]
      <4>1. into(w).token \in DOMAIN minted'
        BY <1>6, <1>7, <1>8, <2>2
      <4> QED BY <4>1 DEF entry
    <3>2. PICK S : S = [token : DOMAIN minted', tag : Tags]
      OBVIOUS
    <3>3. Append(listing[w], entry(w)) \in Seq(S)
      BY <2>1, <3>1, <3>2
    <3> QED BY <1>8, <2>2, <3>2, <3>3
  <2>3. CASE ~New(w)
    BY <1>9, <2>1, <2>3
  <2> QED BY <2>2, <2>3
<1>17. \A k \in DOMAIN minted' : minted'[k].wallet \in Wallets
  BY <1>1, <1>6, <1>7, <1>14 DEF StreamsInv
<1>18. Tags' = Tags
  BY RequestsStay
<1>19. StreamsInv'
  BY <1>1, <1>10, <1>15, <1>16, <1>17, <1>18 DEF StreamsInv
<1>20. LedgerInv'
  BY <1>1, <1>7 DEF LedgerInv
<1> QED BY <1>7, <1>11, <1>12, <1>19, <1>20
-----------------------------------------------------------------------------
(* Steps of a driver.                                                        *)

\* A driver changes what it holds, and at most its own Transfer's stream.
LEMMA DriverMoves ==
    ASSUME MoneyInv, Grows, StreamsInv', LedgerInv', NEW t \in Transfers, NEW c,
           Goto(t, c), mint' = mint, DOMAIN state' = AllTransfers, DOMAIN legs' = AllTransfers,
           \A u \in AllTransfers \ {t} : state'[u] = state[u] /\ legs'[u] = legs[u],
           call'[t] = c => CallKnows(t)', LegsKnow(t)'
    PROVE  MoneyInv'
<1>1. /\ DOMAIN call' = Transfers /\ DOMAIN mint' = Mints /\ call'[t] = c
      /\ \A u \in Transfers \ {t} : call'[u] = call[u]
  BY DEF MoneyInv, Goto
<1>2. \A u \in Transfers : CallKnows(u)'
  <2> TAKE u \in Transfers
  <2>1. CASE u = t
    BY <1>1, <2>1
  <2>2. CASE u # t
    BY <1>1, <2>2, CallStays DEF AllTransfers
  <2> QED BY <2>1, <2>2
<1>3. \A u \in AllTransfers : LegsKnow(u)'
  BY LegsStay
<1>4. \A k \in Mints : MintKnows(k)'
  BY MintStays
<1> QED BY <1>1, <1>2, <1>3, <1>4 DEF MoneyInv

\* A driver that holds nothing of interest.
LEMMA DriverRests ==
    ASSUME MoneyInv, Grows, NEW t \in Transfers, call'[t].pc \in {"idle", "runSaga", "record"},
           call'[t].pc = "record" => call'[t].outcome \in Outcomes,
           \/ state'[t] # "accepted" \/ state[t] = "accepted"
           \/ (req(t).kind = "forward" /\ req(t).mintSource => ValidMintSource(req(t)))
    PROVE  CallKnows(t)'
<1>1. CallKnows(t) /\ req(t)' = req(t) /\ (ValidMintSource(req(t))' <=> ValidMintSource(req(t)))
  BY RequestsStay DEF MoneyInv, Grows
<1> QED BY <1>1 DEF CallKnows, Selecting

\* The Tokens that selectSourceTokens is about to read (TokensOfVisibleTo).
LEMMA SelectionStarts ==
    ASSUME MoneyInv, UNCHANGED <<scenario, ledger, listing, minted, open>>, NEW t \in Transfers,
           req(t).kind = "forward", ~req(t).mintSource, state'[t] \in {"none", state[t]},
           NEW pc \in Selecting, DOMAIN call = Transfers, StartSelect(t, pc)
    PROVE  CallKnows(t)'
<1> DEFINE w == req(t).from
           todo == TokensOfVisibleTo(w, req(t).tx)
           c == [pc |-> pc, todo |-> todo, left |-> req(t).amount, legs |-> << >>]
<1>1. /\ StreamsInv /\ CallKnows(t) /\ req(t)' = req(t)
      /\ (ValidMintSource(req(t))' <=> ValidMintSource(req(t)))
  BY RequestsStay DEF MoneyInv
<1>2. w \in Wallets /\ req(t).amount \in Nat
  BY <1>1, Requested DEF Request
<1>3. call'[t] = c
  BY DEF StartSelect, Goto
<1>4. todo \subseteq DOMAIN listing[w]
  BY DEF TokensOfVisibleTo
<1>5. ASSUME NEW n \in todo PROVE Seen(t, listing[w][n].token)
  <2>1. n \in DOMAIN listing[w] /\ Visible(listing[w][n], req(t).tx)
    BY DEF TokensOfVisibleTo
  <2>2. \A m \in DOMAIN listing[w] : listing[w][m].token = listing[w][n].token => m = n
    BY <1>1, <1>2, <2>1 DEF StreamsInv, MintedIsBackedAndListed
  <2>3. NoTransaction \notin open
    BY <1>1, MoneyAssumption DEF StreamsInv
  <2> QED BY <2>1, <2>2, <2>3 DEF Seen, Visible
<1>6. << >> \in Takes(DOMAIN minted) /\ DOMAIN << >> = {}
  BY DEF Takes
<1>7. PICK none : none = << >> /\ none \in Takes(DOMAIN minted) /\ DOMAIN none = {}
  BY <1>6
<1> HIDE DEF todo
<1>8. /\ c \in [pc : Selecting, todo : SUBSET (DOMAIN listing[w]), left : Nat, legs : Takes(DOMAIN minted)]
      /\ c.todo = todo /\ DOMAIN c.legs = {} /\ c.pc = pc
  BY <1>2, <1>4, <1>7
<1> HIDE DEF c
<1>9. SelectKnows(t, c)
  BY <1>5, <1>8 DEF SelectKnows
<1>10. SelectKnows(t, call[t])'
  BY <1>1, <1>3, <1>9 DEF SelectKnows, Seen
<1> QED BY <1>1, <1>3, <1>8, <1>10 DEF CallKnows, Selecting

\* The handlers that only decide, resume or give up.
LEMMA DecisionsKeep ==
    ASSUME MoneyInv, NEW t \in Transfers,
           \/ RequestTransfer(t) \/ DecideTransfer(t) \/ RequestReversal(t) \/ ResumeSaga(t)
           \/ DestinationUnopened(t) \/ RecordOutcome(t) \/ Crash(t)
    PROVE  MoneyInv'
<1>0. /\ UNCHANGED <<scenario, ledger, listing, minted, open, legs, mint>>
      /\ DOMAIN state' = AllTransfers /\ \A u \in AllTransfers \ {t} : state'[u] = state[u]
  BY DEF MoneyInv, RequestTransfer, DecideTransfer, RequestReversal, ResumeSaga, DestinationUnopened, RecordOutcome, Crash
<1>1. Grows /\ StreamsInv' /\ LedgerInv' /\ DOMAIN legs' = AllTransfers /\ StreamsInv
  BY <1>0, StoresStay DEF MoneyInv
<1>2. LegsKnow(t)' /\ DOMAIN call = Transfers
  BY <1>0, <1>1, LegsStay DEF AllTransfers, MoneyInv
<1>3. Idle.pc = "idle" /\ Saga.pc = "runSaga"
  BY DEF Idle, Saga
<1>4. ASSUME NEW c, Goto(t, c), CallKnows(t)' PROVE MoneyInv'
  BY <1>0, <1>1, <1>2, <1>4, DriverMoves
<1>5. ASSUME NEW c, Goto(t, c), c \in {Idle, Saga},
             \/ state'[t] # "accepted" \/ state[t] = "accepted"
             \/ (req(t).kind = "forward" /\ req(t).mintSource => ValidMintSource(req(t)))
      PROVE  MoneyInv'
  <2>1. call'[t].pc \in {"idle", "runSaga"}
    BY <1>2, <1>3, <1>5 DEF Goto
  <2>2. CallKnows(t)'
    BY <1>1, <1>5, <2>1, DriverRests
  <2> QED BY <1>4, <1>5, <2>2
<1>6. CASE RequestTransfer(t)
  <2>1. CASE req(t).mintSource
    <3>1. PICK c \in {Idle, Saga} : Goto(t, c)
      BY <1>6, <2>1 DEF RequestTransfer
    <3>2. state'[t] = "accepted" => ValidMintSource(req(t))
      BY <1>6, <2>1 DEF RequestTransfer, MoneyInv, AllTransfers
    <3> QED BY <1>5, <3>1, <3>2
  <2>2. CASE ~req(t).mintSource
    <3>1. /\ req(t).kind = "forward" /\ StartSelect(t, "accept") /\ state'[t] = state[t]
      BY <1>6, <2>2 DEF RequestTransfer
    <3>2. CallKnows(t)'
      BY <1>0, <1>2, <2>2, <3>1, SelectionStarts DEF Selecting
    <3> QED BY <1>4, <3>1, <3>2 DEF StartSelect
  <2> QED BY <2>1, <2>2
<1>7. CASE DecideTransfer(t)
  <2>1. PICK c \in {Idle, Saga} : Goto(t, c)
    BY <1>7 DEF DecideTransfer
  <2>2. ~req(t).mintSource
    BY <1>7 DEF DecideTransfer, MoneyInv, CallKnows, SelectKnows, Selecting
  <2> QED BY <1>5, <2>1, <2>2
<1>8. CASE RequestReversal(t)
  <2>1. PICK c \in {Idle, Saga} : Goto(t, c)
    BY <1>8 DEF RequestReversal
  <2> QED BY <1>5, <1>8, <2>1 DEF RequestReversal
<1>9. CASE RecordOutcome(t)
  <2>1. Goto(t, Idle) /\ state'[t] = call[t].outcome /\ call[t].pc = "record"
    BY <1>9 DEF RecordOutcome, MoneyInv, AllTransfers
  <2>2. state'[t] # "accepted"
    BY <2>1 DEF MoneyInv, CallKnows, Outcomes
  <2> QED BY <1>5, <2>1, <2>2
<1>10. CASE ResumeSaga(t) \/ DestinationUnopened(t) \/ Crash(t)
  <2>1. state' = state /\ \E c \in {Idle, Saga} : Goto(t, c)
    BY <1>10 DEF ResumeSaga, DestinationUnopened, Crash
  <2> QED BY <1>5, <2>1
<1> QED BY <1>6, <1>7, <1>8, <1>9, <1>10
\* The least of a set of numbers, as selectSourceTokens goes through a Wallet.
LEMMA MinIs ==
    ASSUME NEW S, S \subseteq Nat, S # {}
    PROVE  Min(S) \in S /\ \A y \in S : Min(S) <= y
<1>1. \E x \in S : \A y \in S : x <= y
  BY LeastElement
<1> QED BY <1>1 DEF Min

\* A leg takes what the Token has, at most what is missing.
LEMMA TakeIs ==
    ASSUME NEW balance \in Int, NEW left \in Nat, balance > 0
    PROVE  /\ Min({balance, left}) \in Nat /\ Min({balance, left}) <= left
           /\ left > 0 => Min({balance, left}) > 0
<1>1. {balance, left} \subseteq Nat /\ {balance, left} # {}
  OBVIOUS
<1>2. Min({balance, left}) \in {balance, left} /\ \A y \in {balance, left} : Min({balance, left}) <= y
  BY <1>1, MinIs
<1> QED BY <1>2

\* One more Token is read (selectSourceTokens).
LEMMA SelectTokenKeeps ==
    ASSUME MoneyInv, NEW t \in Transfers, SelectToken(t)
    PROVE  MoneyInv'
<1> DEFINE c == call[t]
           w == req(t).from
           n == Min(c.todo)
           token == listing[w][n].token
           balance == AccountBalance(ledger, token)
           take == Min({balance, c.left})
           todo == c.todo \ {n}
           left == IF balance <= 0 THEN c.left ELSE c.left - take
           leg == [source |-> token, amount |-> take]
           ls == IF balance <= 0 THEN c.legs ELSE Append(c.legs, leg)
           d == [c EXCEPT !.todo = todo, !.left = left, !.legs = ls]
<1>0. UNCHANGED <<scenario, ledger, listing, minted, open, state, legs, mint>> /\ Goto(t, d)
  BY DEF SelectToken
<1>1. Grows /\ StreamsInv' /\ LedgerInv'
  BY <1>0, StoresStay
<1>2. /\ StreamsInv /\ DOMAIN call = Transfers /\ DOMAIN state' = AllTransfers /\ DOMAIN legs' = AllTransfers
      /\ CallKnows(t) /\ c.pc \in Selecting /\ ~SelectionDone(c)
  BY <1>0 DEF MoneyInv, SelectToken
<1>3. SelectKnows(t, c) /\ w \in Wallets
  BY <1>2, Requested DEF CallKnows, SelectKnows, Request
<1>4. /\ c.todo \subseteq DOMAIN listing[w] /\ c.left \in Nat /\ c.legs \in Takes(DOMAIN minted) /\ c.todo # {}
      /\ c \in [pc : Selecting, todo : SUBSET (DOMAIN listing[w]), left : Nat, legs : Takes(DOMAIN minted)]
      /\ \A m \in c.todo : Seen(t, listing[w][m].token)
      /\ \A i \in DOMAIN c.legs : Seen(t, c.legs[i].source)
  BY <1>2, <1>3 DEF SelectKnows, SelectionDone
<1>5. DOMAIN listing[w] \subseteq Nat /\ \A m \in DOMAIN listing[w] : listing[w][m].token \in DOMAIN minted
  BY <1>2, <1>3, ListingIs
<1>6. n \in c.todo
  BY <1>4, <1>5, MinIs
<1>7. token \in DOMAIN minted /\ Seen(t, token)
  BY <1>4, <1>5, <1>6
<1>8. balance \in Int
  <2>1. ledger.accounts[token] \in Account
    BY <1>2, <1>7 DEF MoneyInv, LedgerInv, IsLedger, StreamsInv, MintedIsBackedAndListed
  <2> QED BY <2>1 DEF AccountBalance, Account
<1> HIDE DEF n, token, balance
<1>9. balance > 0 => take \in Nat /\ take <= c.left
  BY <1>4, <1>8, TakeIs
<1> HIDE DEF take
<1>10. left \in Nat /\ todo \subseteq c.todo
  BY <1>4, <1>8, <1>9
<1>11. ls \in Takes(DOMAIN minted) /\ \A i \in DOMAIN ls : Seen(t, ls[i].source)
  <2>1. CASE balance <= 0
    BY <1>4, <2>1
  <2>2. CASE ~(balance <= 0)
    <3>1. leg \in [source : DOMAIN minted, amount : Nat] /\ leg.source = token
      BY <1>7, <1>8, <1>9, <2>2
    <3>2. PICK R : R = [source : DOMAIN minted, amount : Nat]
      OBVIOUS
    <3>3. c.legs \in Seq(R) /\ leg \in R
      BY <1>4, <3>1, <3>2 DEF Takes
    <3> HIDE DEF leg
    <3>4. /\ Append(c.legs, leg) \in Seq(R) /\ DOMAIN Append(c.legs, leg) = 1..(Len(c.legs) + 1)
          /\ Append(c.legs, leg)[Len(c.legs) + 1] = leg /\ DOMAIN c.legs = 1..Len(c.legs) /\ Len(c.legs) \in Nat
          /\ \A i \in DOMAIN c.legs : Append(c.legs, leg)[i] = c.legs[i]
      BY <3>3
    <3>5. ls = Append(c.legs, leg)
      BY <2>2
    <3>6. \A i \in DOMAIN ls : i \in DOMAIN c.legs \/ i = Len(c.legs) + 1
      BY <3>4, <3>5
    <3>7. \A i \in DOMAIN ls : Seen(t, ls[i].source)
      BY <1>4, <1>7, <3>1, <3>4, <3>5, <3>6
    <3> QED BY <3>2, <3>4, <3>5, <3>7 DEF Takes
  <2> QED BY <2>1, <2>2
<1> HIDE DEF todo, left, ls
<1>12. /\ d \in [pc : Selecting, todo : SUBSET (DOMAIN listing[w]), left : Nat, legs : Takes(DOMAIN minted)]
       /\ d.todo = todo /\ d.legs = ls /\ d.pc = c.pc
  BY <1>4, <1>10, <1>11
<1> HIDE DEF d
<1>13. SelectKnows(t, d)
  BY <1>3, <1>4, <1>10, <1>11, <1>12 DEF SelectKnows
<1>14. call'[t] = d
  BY <1>0, <1>2 DEF Goto
<1>15. req(t)' = req(t) /\ (ValidMintSource(req(t))' <=> ValidMintSource(req(t)))
  BY <1>0, RequestsStay
<1>16. SelectKnows(t, call[t])'
  BY <1>0, <1>13, <1>14, <1>15 DEF SelectKnows, Seen
<1>17. CallKnows(t)'
  BY <1>0, <1>2, <1>12, <1>14, <1>15, <1>16 DEF CallKnows, Selecting
<1>18. LegsKnow(t)'
  BY <1>0, <1>1, LegsStay DEF AllTransfers
<1> QED BY <1>0, <1>1, <1>2, <1>17, <1>18, DriverMoves

\* The second selection is over (prepare).
LEMMA FinishSelectKeeps ==
    ASSUME MoneyInv, NEW t \in Transfers, FinishSelect(t)
    PROVE  MoneyInv'
<1> DEFINE c == call[t]
           plan == [pc |-> "plan", legs |-> c.legs, writes |-> {}]
           d == IF c.left > 0 THEN Idle ELSE plan
<1>0. UNCHANGED <<scenario, ledger, listing, minted, open, state, legs, mint>> /\ Goto(t, d)
  BY DEF FinishSelect
<1>1. Grows /\ StreamsInv' /\ LedgerInv'
  BY <1>0, StoresStay
<1>2. /\ StreamsInv /\ DOMAIN call = Transfers /\ DOMAIN state' = AllTransfers /\ DOMAIN legs' = AllTransfers
      /\ CallKnows(t) /\ SelectKnows(t, c)
  BY <1>0 DEF MoneyInv, FinishSelect, CallKnows, Selecting
<1>3. LegsKnow(t)' /\ req(t)' = req(t) /\ (ValidMintSource(req(t))' <=> ValidMintSource(req(t)))
  BY <1>0, <1>1, LegsStay, RequestsStay DEF AllTransfers
<1>4. plan.pc = "plan" /\ plan.legs = c.legs /\ plan.writes = {} /\ Idle.pc = "idle"
  BY DEF Idle
<1> HIDE DEF plan
<1>5. call'[t] = d /\ d \in {Idle, plan}
  BY <1>0, <1>2 DEF Goto
<1>6. PlanKnows(t, plan)
  <2>1. TokensIn({}) = {} /\ DOMAIN minted \union {} = DOMAIN minted /\ WritesKnow({})
    BY DEF TokensIn, WritesKnow
  <2>2. c.legs \in Takes(DOMAIN minted) /\ \A i \in DOMAIN c.legs : Seen(t, c.legs[i].source)
    BY <1>2 DEF SelectKnows
  <2>3. \A i \in DOMAIN c.legs : c.legs[i].source \in DOMAIN minted
    BY <2>2, ManifestsAre
  <2> QED BY <1>2, <1>4, <2>1, <2>2, <2>3 DEF PlanKnows, SelectKnows, SourceKnown
<1>7. CASE d = Idle
  <2>1. call'[t].pc = "idle"
    BY <1>4, <1>5, <1>7
  <2>2. CallKnows(t)'
    BY <1>0, <1>1, <2>1, DriverRests
  <2> QED BY <1>0, <1>1, <1>2, <1>3, <2>2, DriverMoves
<1>8. CASE d = plan
  <2>0. PICK r : r = plan
    OBVIOUS
  <2>1. PlanKnows(t, r)' /\ call'[t] = r /\ r.pc = "plan"
    BY <1>1, <1>2, <1>4, <1>5, <1>6, <1>8, <2>0, PlanStays
  <2>2. CallKnows(t)'
    BY <1>0, <1>2, <1>3, <2>1 DEF CallKnows, Selecting
  <2> QED BY <1>0, <1>1, <1>2, <1>3, <2>2, DriverMoves
<1> QED BY <1>5, <1>7, <1>8
\* An account for a Token whose id nothing knew: its mint may be recorded
\* later, beside the ones already planned (MintWrites).
LEMMA MintIsPlanned ==
    ASSUME MoneyInv, UNCHANGED <<scenario, open, listing, minted>>, NEW w \in Wallets, Opened(w),
           NEW x, x.wallet = w, x.token \notin DOMAIN ledger.accounts,
           ledger' = CreateAccounts(ledger, x.token, FlagsOf(w)).ledger,
           NEW writes, WritesKnow(writes), NEW all, all = writes \union {x}
    PROVE  /\ Grows /\ StreamsInv' /\ LedgerInv'
           /\ WritesKnow(all)'
           /\ TokensIn(all) = TokensIn(writes) \union {x.token}
<1>0. PICK id : id = x.token
  OBVIOUS
<1>1. id \notin DOMAIN ledger.accounts
  BY <1>0
<1>2. /\ Grows /\ StreamsInv' /\ LedgerInv' /\ id \in DOMAIN ledger'.accounts
      /\ ledger'.accounts[id].flags = FlagsOf(w)
  BY <1>0, <1>1, AccountComes
<1>3. x.token = id /\ x.wallet = w
  BY <1>0
<1>4. (Opened(w)' <=> Opened(w)) /\ FlagsOf(w)' = FlagsOf(w)
  BY RequestsStay
<1>5. WriteKnows(x)'
  BY <1>2, <1>3, <1>4 DEF WriteKnows
<1>6. \A y \in writes : WriteKnows(y)' /\ y.token \in DOMAIN ledger.accounts
  BY <1>2, WritesStay DEF WritesKnow, WriteKnows
<1>7. \A y, z \in all : y.token = z.token => y = z
  BY <1>1, <1>3, <1>6 DEF WritesKnow
<1>8. WritesKnow(all)'
  BY <1>5, <1>6, <1>7 DEF WritesKnow
<1>9. TokensIn(all) = TokensIn(writes) \union {id}
  BY <1>3 DEF TokensIn
<1> QED BY <1>0, <1>2, <1>8, <1>9

\* The legs of a reversal are those of the original (reversalManifest).
LEMMA ReversalIsManifest ==
    ASSUME MoneyInv, NEW u \in AllTransfers
    PROVE  reversalManifest(u) \in Manifests(DOMAIN minted)
<1> DEFINE R == [source : DOMAIN minted, dest : DOMAIN minted, amount : Nat]
           leg(i) == [source |-> legs[u][i].dest, dest |-> legs[u][i].source, amount |-> legs[u][i].amount]
<1>1. legs[u] \in Manifests(DOMAIN minted)
  BY DEF MoneyInv, LegsKnow
<1>2. /\ Len(legs[u]) \in Nat /\ DOMAIN legs[u] = 1..Len(legs[u])
      /\ \A i \in DOMAIN legs[u] : legs[u][i].source \in DOMAIN minted /\ legs[u][i].dest \in DOMAIN minted
                                    /\ legs[u][i].amount \in Nat
  BY <1>1, ManifestsAre
<1>3. \A i \in DOMAIN legs[u] : leg(i) \in R
  BY <1>2
<1>4. reversalManifest(u) = [i \in 1..Len(legs[u]) |-> leg(i)]
  BY <1>2 DEF reversalManifest
<1> HIDE DEF R, leg
<1>5. [i \in 1..Len(legs[u]) |-> leg(i)] \in Seq(R)
  BY <1>2, <1>3
<1> QED BY <1>4, <1>5 DEF Manifests, R

\* prepare starts: reverse, mint the source, or select again.
LEMMA StartPrepareKeeps ==
    ASSUME MoneyInv, NEW t \in Transfers, StartPrepare(t)
    PROVE  MoneyInv'
<1>0. UNCHANGED <<scenario, listing, minted, open, state, legs, mint>>
  BY DEF StartPrepare
<1>1. /\ StreamsInv /\ DOMAIN call = Transfers /\ DOMAIN state' = AllTransfers /\ DOMAIN legs' = AllTransfers
      /\ CallKnows(t) /\ state[t] = "accepted"
  BY <1>0 DEF MoneyInv, StartPrepare
<1>2. req(t)' = req(t) /\ (ValidMintSource(req(t))' <=> ValidMintSource(req(t)))
  BY <1>0, RequestsStay
<1>3. ASSUME NEW c, Goto(t, c), Grows, StreamsInv', LedgerInv', CallKnows(t)' PROVE MoneyInv'
  <2>1. LegsKnow(t)'
    BY <1>0, <1>3, LegsStay DEF AllTransfers
  <2> QED BY <1>0, <1>1, <1>3, <2>1, DriverMoves
<1>4. CASE /\ req(t).kind = "reversal" /\ ledger' = ledger
           /\ Goto(t, [pc |-> "append", legs |-> reversalManifest(req(t).of), writes |-> {}])
  <2>1. PICK ls : ls = reversalManifest(req(t).of)
    OBVIOUS
  <2>2. PICK c : c = [pc |-> "append", legs |-> ls, writes |-> {}]
    OBVIOUS
  <2>3. Goto(t, c) /\ call'[t] = c /\ c.pc = "append" /\ c.legs = ls /\ c.writes = {}
    BY <1>1, <1>4, <2>1, <2>2 DEF Goto
  <2>4. req(t).of \in AllTransfers /\ req(t).kind # "forward"
    BY <1>1, <1>4, Requested DEF Request
  <2>5. ls \in Manifests(DOMAIN minted)
    BY <2>1, <2>4, ReversalIsManifest
  <2>6. TokensIn({}) = {} /\ DOMAIN minted \union {} = DOMAIN minted /\ WritesKnow({})
    BY DEF TokensIn, WritesKnow
  <2>7. AppendKnows(t, c)
    BY <2>3, <2>4, <2>5, <2>6 DEF AppendKnows
  <2>8. Grows /\ StreamsInv' /\ LedgerInv'
    BY <1>0, <1>4, StoresStay
  <2>9. AppendKnows(t, c)'
    BY <1>1, <2>7, <2>8, AppendStays
  <2>10. CallKnows(t)'
    BY <1>2, <2>3, <2>4, <2>9 DEF CallKnows, Selecting
  <2> QED BY <1>3, <2>3, <2>8, <2>10
<1>5. CASE /\ req(t).kind = "forward" /\ req(t).mintSource /\ CanDraw
           /\ ledger' = CreateAccounts(ledger, Fresh, FlagsOf(req(t).from)).ledger
           /\ Goto(t, [pc |-> "plan", legs |-> <<[source |-> Fresh, amount |-> req(t).amount]>>,
                       writes |-> {MintWrite(Fresh, req(t).from, req(t).amount)}])
  <2>1. PICK id, x : id = Fresh /\ x = MintWrite(id, req(t).from, req(t).amount)
    OBVIOUS
  <2>2. PICK leg : leg = [source |-> id, amount |-> req(t).amount]
    OBVIOUS
  <2>3. PICK c : c = [pc |-> "plan", legs |-> <<leg>>, writes |-> {x}]
    OBVIOUS
  <2>4. Goto(t, c)
    BY <1>5, <2>1, <2>2, <2>3
  <2>5. call'[t] = c /\ c.pc = "plan" /\ c.legs = <<leg>> /\ c.writes = {x}
    BY <1>1, <2>3, <2>4 DEF Goto
  <2>6. req(t).from \in Wallets /\ req(t).amount \in Nat /\ ValidMintSource(req(t))
    BY <1>1, <1>5, Requested DEF Request, CallKnows
  <2>7. Opened(req(t).from)
    BY <2>6 DEF Opened, ValidMintSource
  <2>8. WritesKnow({}) /\ TokensIn({}) = {} /\ {} \union {x} = {x}
    BY DEF WritesKnow, TokensIn
  <2>9. Grows /\ StreamsInv' /\ LedgerInv' /\ WritesKnow({x})' /\ TokensIn({x}) = {id}
    <3>1. PICK w, none, all : w = req(t).from /\ none = {} /\ all = {x}
      OBVIOUS
    <3>2. /\ w \in Wallets /\ Opened(w) /\ ledger' = CreateAccounts(ledger, x.token, FlagsOf(w)).ledger
          /\ x.token = id /\ x.wallet = w /\ x.token \notin DOMAIN ledger.accounts
          /\ WritesKnow(none) /\ TokensIn(none) = {} /\ all = none \union {x}
      BY <1>5, <2>1, <2>6, <2>7, <2>8, <3>1 DEF MintWrite, CanDraw, Fresh
    <3>3. Grows /\ StreamsInv' /\ LedgerInv' /\ WritesKnow(all)' /\ TokensIn(all) = TokensIn(none) \union {x.token}
      BY <1>0, <3>2, MintIsPlanned
    <3> QED BY <3>1, <3>2, <3>3
  <2>10. WritesKnow({x})' /\ TokensIn({x}) = {id}
    BY <2>9
  <2>11. <<leg>> \in Takes(DOMAIN minted' \union {id}) /\ DOMAIN <<leg>> = {1} /\ <<leg>>[1] = leg /\ leg.source = id
    <3>1. PICK R : R = [source : DOMAIN minted' \union {id}, amount : Nat]
      OBVIOUS
    <3>2. leg \in R /\ leg.source = id
      BY <2>2, <2>6, <3>1
    <3>3. <<leg>> \in Seq(R) /\ DOMAIN <<leg>> = {1} /\ <<leg>>[1] = leg
      BY <3>2
    <3> QED BY <3>1, <3>2, <3>3 DEF Takes
  <2>12. PlanKnows(t, c)'
    <3>1. TokensIn(c.writes)' = {id}
      BY <2>5, <2>10 DEF TokensIn
    <3>2. \A i \in DOMAIN c.legs : (SourceKnown(t, c.legs[i].source, c.writes))'
      BY <2>5, <2>11, <3>1 DEF SourceKnown
    <3> QED BY <1>2, <1>5, <2>5, <2>10, <2>11, <3>1, <3>2 DEF PlanKnows
  <2>13. CallKnows(t)'
    BY <1>2, <2>5, <2>6, <2>12 DEF CallKnows, Selecting
  <2> QED BY <1>3, <2>4, <2>9, <2>13
<1>6. CASE req(t).kind = "forward" /\ ~req(t).mintSource /\ StartSelect(t, "prepare") /\ ledger' = ledger
  <2>1. Grows /\ StreamsInv' /\ LedgerInv'
    BY <1>0, <1>6, StoresStay
  <2>2. CallKnows(t)'
    BY <1>0, <1>1, <1>6, SelectionStarts DEF Selecting
  <2> QED BY <1>3, <1>6, <2>1, <2>2 DEF StartSelect
<1> QED BY <1>4, <1>5, <1>6 DEF StartPrepare

\* planDestinations adds one Token to the plan.
LEMMA PlanDestinationKeeps ==
    ASSUME MoneyInv, NEW t \in Transfers, PlanDestination(t)
    PROVE  MoneyInv'
<1> DEFINE leg(ls, id, i) == [source |-> ls[i].source, dest |-> id, amount |-> ls[i].amount]
<1>0. UNCHANGED <<scenario, listing, minted, open, state, legs, mint>>
  BY DEF PlanDestination
<1>1. /\ StreamsInv /\ DOMAIN call = Transfers /\ DOMAIN state' = AllTransfers /\ DOMAIN legs' = AllTransfers
      /\ CallKnows(t) /\ PlanKnows(t, call[t])
  BY <1>0 DEF MoneyInv, PlanDestination, CallKnows
<1>2. req(t)' = req(t) /\ (ValidMintSource(req(t))' <=> ValidMintSource(req(t)))
  BY <1>0, RequestsStay
<1>3. PICK c : c = call[t]
  OBVIOUS
<1>4. PICK id, x : id = Fresh /\ x = MintWrite(id, req(t).to, req(t).amount)
  OBVIOUS
<1>5. PICK ls : ls = [i \in DOMAIN c.legs |-> leg(c.legs, id, i)]
  OBVIOUS
<1>6. PICK d : d = [pc |-> "append", legs |-> ls, writes |-> c.writes \union {x}]
  OBVIOUS
<1>7. Goto(t, d)
  BY <1>3, <1>4, <1>5, <1>6 DEF PlanDestination
<1>8. call'[t] = d /\ d.pc = "append" /\ d.legs = ls /\ d.writes = c.writes \union {x}
  BY <1>1, <1>6, <1>7 DEF Goto
<1>9. /\ req(t).kind = "forward" /\ req(t).to \in Wallets /\ Opened(req(t).to) /\ CanDraw
      /\ ledger' = CreateAccounts(ledger, id, FlagsOf(req(t).to)).ledger
  BY <1>1, <1>4, Requested DEF PlanDestination, PlanKnows, Request
<1>10. PlanKnows(t, c) /\ WritesKnow(c.writes)
  BY <1>1, <1>3 DEF PlanKnows
<1>11. /\ Grows /\ StreamsInv' /\ LedgerInv' /\ WritesKnow(c.writes \union {x})'
       /\ TokensIn(c.writes \union {x}) = TokensIn(c.writes) \union {id}
  <2>1. PICK w, writes, all : w = req(t).to /\ writes = c.writes /\ all = writes \union {x}
    OBVIOUS
  <2>2. /\ w \in Wallets /\ Opened(w) /\ ledger' = CreateAccounts(ledger, x.token, FlagsOf(w)).ledger
        /\ x.token = id /\ x.wallet = w /\ x.token \notin DOMAIN ledger.accounts /\ WritesKnow(writes)
    BY <1>4, <1>9, <1>10, <2>1 DEF MintWrite, CanDraw, Fresh
  <2>3. Grows /\ StreamsInv' /\ LedgerInv' /\ WritesKnow(all)' /\ TokensIn(all) = TokensIn(writes) \union {x.token}
    BY <1>0, <2>1, <2>2, MintIsPlanned
  <2> QED BY <2>1, <2>2, <2>3
<1>12. PlanKnows(t, c)'
  BY <1>1, <1>10, <1>11, PlanStays
<1>13. PICK T, U : T = DOMAIN minted' \union TokensIn(c.writes) /\ U = DOMAIN minted' \union TokensIn(c.writes \union {x})
  OBVIOUS
<1>14. T \subseteq U /\ id \in U /\ c.legs \in Takes(T)
  BY <1>11, <1>12, <1>13 DEF PlanKnows, TokensIn
<1>15. /\ Len(c.legs) \in Nat /\ DOMAIN c.legs = 1..Len(c.legs)
       /\ \A i \in DOMAIN c.legs : c.legs[i].source \in U /\ c.legs[i].amount \in Nat
  BY <1>14, ManifestsAre
<1>16. ls \in Manifests(U)
  <2> DEFINE Q == [source : U, dest : U, amount : Nat]
  <2>1. \A i \in 1..Len(c.legs) : leg(c.legs, id, i) \in Q
    BY <1>14, <1>15
  <2> HIDE DEF Q, leg
  <2>2. ls \in Seq(Q)
    BY <1>5, <1>15, <2>1
  <2> QED BY <2>2 DEF Manifests, Q
<1>17. DOMAIN ls = DOMAIN c.legs /\ \A i \in DOMAIN ls : ls[i].source = c.legs[i].source
  BY <1>5
<1>18. \A i \in DOMAIN ls : (SourceKnown(t, ls[i].source, c.writes \union {x}))'
  BY <1>11, <1>12, <1>17 DEF PlanKnows, SourceKnown, TokensIn
<1>19. AppendKnows(t, d)'
  BY <1>8, <1>11, <1>13, <1>16, <1>18 DEF AppendKnows, TokensIn
<1>20. CallKnows(t)'
  BY <1>0, <1>1, <1>2, <1>8, <1>19 DEF CallKnows, Selecting
<1>21. LegsKnow(t)'
  BY <1>0, <1>11, LegsStay DEF AllTransfers
<1> QED BY <1>0, <1>1, <1>7, <1>11, <1>20, <1>21, DriverMoves
\* TransferPrepared and the Tokens it mints are recorded together, or the
\* driver gives up.
LEMMA AppendPreparedKeeps ==
    ASSUME MoneyInv, NEW t \in Transfers, AppendPrepared(t)
    PROVE  MoneyInv'
<1>0. UNCHANGED <<scenario, ledger, open, mint>>
  BY DEF AppendPrepared
<1>1. /\ StreamsInv /\ DOMAIN call = Transfers /\ DOMAIN state = AllTransfers /\ DOMAIN legs = AllTransfers
      /\ CallKnows(t) /\ AppendKnows(t, call[t]) /\ t \in AllTransfers
  BY DEF MoneyInv, AppendPrepared, CallKnows, AllTransfers
<1>2. req(t)' = req(t) /\ Idle.pc = "idle" /\ Saga.pc = "runSaga"
  BY <1>0, RequestsStay DEF Idle, Saga
<1>3. CASE ~Current(call[t].writes)
  <2>1. Goto(t, Idle) /\ UNCHANGED <<listing, minted, state, legs>>
    BY <1>3 DEF AppendPrepared
  <2>2. Grows /\ StreamsInv' /\ LedgerInv'
    BY <1>0, <2>1, StoresStay
  <2>3. CallKnows(t)' /\ LegsKnow(t)'
    <3>1. call'[t].pc = "idle"
      BY <1>1, <1>2, <2>1 DEF Goto
    <3> QED BY <1>1, <2>1, <2>2, <3>1, DriverRests, LegsStay
  <2> QED BY <1>0, <1>1, <2>1, <2>2, <2>3, DriverMoves
<1>4. CASE Current(call[t].writes)
  <2>1. PICK c, tag, writes : /\ c = call[t] /\ writes = c.writes
                              /\ tag = IF req(t).kind = "forward" THEN req(t).tx ELSE NoTransaction
    OBVIOUS
  <2>2. /\ Current(writes) /\ Record(writes, tag) /\ Goto(t, Saga)
        /\ state' = [state EXCEPT ![t] = "prepared"] /\ legs' = [legs EXCEPT ![t] = c.legs]
    BY <1>4, <2>1 DEF AppendPrepared
  <2>3. tag \in Tags /\ WritesKnow(writes) /\ c.legs \in Manifests(DOMAIN minted \union TokensIn(writes))
    BY <1>1, <2>1 DEF Tags, AppendKnows
  <2>4. /\ Grows /\ StreamsInv' /\ LedgerInv' /\ DOMAIN minted' = DOMAIN minted \union TokensIn(writes)
        /\ \A w \in Wallets : \A n \in DOMAIN listing'[w] : n \notin DOMAIN listing[w] => listing'[w][n].tag = tag
    BY <1>0, <2>2, <2>3, MintsAreRecorded
  <2>5. CallKnows(t)'
    <3>1. call'[t].pc = "runSaga" /\ state'[t] = "prepared"
      BY <1>1, <1>2, <2>2 DEF Goto
    <3> QED BY <2>4, <3>1, DriverRests
  <2>6. legs'[t] = c.legs
    BY <1>1, <2>2
  <2>7. ASSUME req(t).kind = "forward", NEW i \in DOMAIN c.legs PROVE Seen(t, c.legs[i].source)'
    <3>1. PICK k : k = c.legs[i].source
      OBVIOUS
    <3>2. SourceKnown(t, k, writes) /\ req(t).from \in Wallets /\ tag = req(t).tx
      BY <1>1, <2>1, <2>7, <3>1, Requested DEF AppendKnows, Request
    <3>3. CASE k \in DOMAIN minted /\ Seen(t, k)
      BY <2>4, <3>1, <3>2, <3>3, SeenStays
    <3>4. CASE k \in TokensIn(writes)
      <4> DEFINE w == req(t).from
      <4>1. k \notin DOMAIN minted
        BY <2>2, <3>4 DEF TokensIn, Current
      <4>2. ASSUME NEW n \in DOMAIN listing'[w], listing'[w][n].token = k PROVE listing'[w][n].tag = req(t).tx
        <5>1. n \notin DOMAIN listing[w]
          BY <1>1, <2>4, <3>2, <4>1, <4>2, ListingIs DEF Grows
        <5> QED BY <2>4, <3>2, <5>1
      <4> QED BY <1>2, <3>1, <4>2 DEF Seen
    <3> QED BY <3>2, <3>3, <3>4 DEF SourceKnown
  <2>8. LegsKnow(t)'
    BY <1>2, <2>3, <2>4, <2>6, <2>7 DEF LegsKnow
  <2>9. DOMAIN state' = AllTransfers /\ DOMAIN legs' = AllTransfers
        /\ \A u \in AllTransfers \ {t} : state'[u] = state[u] /\ legs'[u] = legs[u]
    BY <1>1, <2>2
  <2> QED BY <1>0, <2>2, <2>4, <2>5, <2>8, <2>9, DriverMoves
<1> QED BY <1>3, <1>4

-----------------------------------------------------------------------------
(* Submissions.                                                              *)

\* A batch has one entry per leg, with an id of its own.
LEMMA BatchIs ==
    ASSUME NEW T, NEW t, legs[t] \in Manifests(T), NEW kind \in Kinds
    PROVE  LET batch == Batch(t, kind)
           IN  /\ IsBatch(batch) /\ DOMAIN batch = DOMAIN legs[t]
               /\ \A i \in DOMAIN legs[t] :
                    /\ batch[i].kind = kind /\ batch[i].debit \in T /\ batch[i].credit \in T
                    /\ batch[i].debit = legs[t][i].source /\ batch[i].credit = legs[t][i].dest
                    /\ batch[i].amount = legs[t][i].amount
                    /\ kind = "PostPending" => batch[i].id = <<t, i, "post">>
                    /\ kind = "VoidPending" => batch[i].id = <<t, i, "void">>
                    /\ ~Settles(kind) => batch[i].id = OpID(t, i)
                    /\ Settles(kind) => batch[i].pendingID = OpID(t, i)
<1> DEFINE id(i) == CASE kind = "PostPending" -> <<t, i, "post">>
                      [] kind = "VoidPending" -> <<t, i, "void">>
                      [] OTHER                -> OpID(t, i)
           of(i) == IF kind \in {"PostPending", "VoidPending"} THEN OpID(t, i) ELSE << >>
           entry(i) == [id |-> id(i), debit |-> legs[t][i].source, credit |-> legs[t][i].dest,
                        amount |-> legs[t][i].amount, kind |-> kind, pendingID |-> of(i)]
           batch == Batch(t, kind)
<1>1. /\ Len(legs[t]) \in Nat /\ DOMAIN legs[t] = 1..Len(legs[t])
      /\ \A i \in DOMAIN legs[t] : legs[t][i].source \in T /\ legs[t][i].dest \in T /\ legs[t][i].amount \in Nat
  BY ManifestsAre
<1>2. batch = [i \in 1..Len(legs[t]) |-> entry(i)]
  BY <1>1 DEF Batch
<1>3. \A i : /\ kind = "PostPending" => id(i) = <<t, i, "post">>
             /\ kind = "VoidPending" => id(i) = <<t, i, "void">>
             /\ ~Settles(kind) => id(i) = OpID(t, i)
             /\ Settles(kind) => of(i) = OpID(t, i)
  BY DEF Kinds, Settles
<1>4. \A i, j : id(i) = id(j) => i = j
  <2>1. \A i, j : (<<t, i, "post">> = <<t, j, "post">> \/ <<t, i, "void">> = <<t, j, "void">> \/ <<t, i, "op">> = <<t, j, "op">>) => i = j
    OBVIOUS
  <2> QED BY <1>3, <2>1 DEF Kinds, Settles, OpID
<1> HIDE DEF id, of
<1>5. \A i : /\ entry(i).id = id(i) /\ entry(i).debit = legs[t][i].source /\ entry(i).credit = legs[t][i].dest
             /\ entry(i).amount = legs[t][i].amount /\ entry(i).kind = kind /\ entry(i).pendingID = of(i)
  OBVIOUS
<1>6. \A i \in DOMAIN legs[t] : IsEntry(entry(i))
  BY <1>1, <1>5 DEF IsEntry
<1> HIDE DEF entry, batch
<1>7. Len(batch) = Len(legs[t]) /\ DOMAIN batch = DOMAIN legs[t] /\ \A i \in DOMAIN legs[t] : batch[i] = entry(i)
  BY <1>1, <1>2
<1>8. IsBatch(batch)
  BY <1>1, <1>4, <1>5, <1>6, <1>7 DEF IsBatch
<1> QED BY <1>1, <1>3, <1>5, <1>7, <1>8 DEF batch

\* What a submission does to the ledger: all of it or nothing (submitBatch).
LEMMA SubmissionExtends ==
    ASSUME MoneyInv, NEW t \in AllTransfers, NEW kind \in Kinds
    PROVE  LET batch == Batch(t, kind)
               result == CreateTransfers(ledger, batch)
           IN  /\ result.ok \in BOOLEAN /\ Extends(result.ledger, ledger, batch, kind)
               /\ ~result.ok => result.ledger = ledger
               /\ result.ok => \A i \in DOMAIN batch : /\ batch[i].id \in DOMAIN result.ledger.transfers
                                                       /\ result.ledger.transfers[batch[i].id] = batch[i]
<1>1. PICK L, batch : L = ledger /\ batch = Batch(t, kind)
  OBVIOUS
<1>2. IsLedger(L) /\ IsBatch(batch) /\ \A i \in DOMAIN batch : batch[i].kind = kind
  BY <1>1, BatchIs DEF MoneyInv, LedgerInv, LegsKnow
<1> QED BY <1>1, <1>2, BatchIsAtomic

\* A submission moves money between minted Tokens.
LEMMA SubmissionKeeps ==
    ASSUME MoneyInv, NEW t \in AllTransfers, NEW kind \in Kinds,
           ledger' = CreateTransfers(ledger, Batch(t, kind)).ledger,
           UNCHANGED <<scenario, open, listing, minted>>
    PROVE  Grows /\ StreamsInv' /\ LedgerInv'
<1> DEFINE batch == Batch(t, kind)
<1>1. Extends(ledger', ledger, batch, kind)
  BY SubmissionExtends
<1>2. /\ DOMAIN batch = DOMAIN legs[t]
      /\ \A i \in DOMAIN batch : batch[i].debit \in DOMAIN minted /\ batch[i].credit \in DOMAIN minted
  BY BatchIs DEF MoneyInv, LegsKnow
<1> HIDE DEF batch
<1>3. LedgerInv
  BY DEF MoneyInv
<1>4. /\ IsLedger(ledger') /\ WithinLimits(ledger') /\ DOMAIN ledger'.accounts = DOMAIN ledger.accounts
      /\ \A k \in DOMAIN ledger.accounts :
            /\ ledger'.accounts[k].flags = ledger.accounts[k].flags
            /\ k \in DOMAIN minted \/ ledger'.accounts[k] = ledger.accounts[k]
  BY <1>1, <1>2, <1>3 DEF Extends, LedgerInv
<1>5. \A id \in DOMAIN ledger'.transfers :
         {ledger'.transfers[id].debit, ledger'.transfers[id].credit} \subseteq DOMAIN minted
  BY <1>1, <1>2, <1>3 DEF Extends, LedgerInv
<1> QED BY <1>4, <1>5, MoneyMoves

\* The steps that submit a batch: stage or commit, post, void.
LEMMA SubmitKeeps ==
    ASSUME MoneyInv, NEW t \in Transfers,
           SubmitPrepared(t) \/ PostPendingTransfer(t) \/ CancelStagedTransfer(t)
    PROVE  MoneyInv'
<1>0. UNCHANGED <<scenario, listing, minted, open, state, legs, mint>> /\ t \in AllTransfers
  BY DEF SubmitPrepared, PostPendingTransfer, CancelStagedTransfer, AllTransfers
<1>1. DOMAIN call = Transfers /\ DOMAIN state' = AllTransfers /\ DOMAIN legs' = AllTransfers
  BY <1>0 DEF MoneyInv
<1>2. /\ \E kind \in Kinds : ledger' = CreateTransfers(ledger, Batch(t, kind)).ledger
      /\ \E d : Goto(t, d) /\ (d = Idle \/ \E outcome \in Outcomes : d = [pc |-> "record", outcome |-> outcome])
  <2>1. CASE SubmitPrepared(t)
    <3> DEFINE kind == IF req(t).stage THEN "Pending" ELSE "Regular"
               result == CreateTransfers(ledger, Batch(t, kind))
               outcome == CASE ~result.ok -> "failed"
                            [] result.ok /\ req(t).stage -> "staged"
                            [] OTHER -> "committed"
    <3>1. ledger' = result.ledger /\ (Goto(t, Idle) \/ Goto(t, [pc |-> "record", outcome |-> outcome]))
      BY <2>1 DEF SubmitPrepared
    <3>2. kind \in Kinds
      BY DEF Kinds
    <3> HIDE DEF result, kind
    <3>3. outcome \in Outcomes
      BY DEF Outcomes
    <3> HIDE DEF outcome
    <3> QED BY <3>1, <3>2, <3>3 DEF result
  <2>2. CASE PostPendingTransfer(t)
    <3> DEFINE result == CreateTransfers(ledger, Batch(t, "PostPending"))
               outcome == IF result.ok THEN "committed" ELSE "failed"
    <3>1. ledger' = result.ledger /\ Goto(t, [pc |-> "record", outcome |-> outcome])
      BY <2>2 DEF PostPendingTransfer
    <3>2. outcome \in Outcomes /\ "PostPending" \in Kinds
      BY DEF Outcomes, Kinds
    <3> HIDE DEF outcome
    <3> QED BY <3>1, <3>2
  <2>3. CASE CancelStagedTransfer(t)
    <3> DEFINE result == CreateTransfers(ledger, Batch(t, "VoidPending"))
               d == IF result.ok THEN [pc |-> "record", outcome |-> "cancelled"] ELSE Idle
    <3>1. ledger' = result.ledger /\ Goto(t, d)
      BY <2>3 DEF CancelStagedTransfer
    <3>2. "cancelled" \in Outcomes /\ "VoidPending" \in Kinds
      BY DEF Outcomes, Kinds
    <3>3. d = Idle \/ \E outcome \in Outcomes : d = [pc |-> "record", outcome |-> outcome]
      BY <3>2
    <3> HIDE DEF d
    <3> QED BY <3>1, <3>2, <3>3
  <2> QED BY <2>1, <2>2, <2>3
<1>3. Grows /\ StreamsInv' /\ LedgerInv'
  BY <1>0, <1>2, SubmissionKeeps
<1>4. PICK d : Goto(t, d) /\ (d = Idle \/ \E outcome \in Outcomes : d = [pc |-> "record", outcome |-> outcome])
  BY <1>2
<1>5. d.pc \in {"idle", "record"} /\ (d.pc = "record" => d.outcome \in Outcomes) /\ call'[t] = d
  BY <1>1, <1>4 DEF Idle, Goto
<1>6. CallKnows(t)'
  BY <1>0, <1>3, <1>5, DriverRests
<1>7. LegsKnow(t)'
  BY <1>0, <1>3, LegsStay
<1> QED BY <1>0, <1>1, <1>3, <1>4, <1>6, <1>7, DriverMoves
-----------------------------------------------------------------------------
(* Steps of Mint, and the surroundings.                                      *)

\* A call of Mint changes what it holds.
LEMMA MintMoves ==
    ASSUME MoneyInv, Grows, StreamsInv', LedgerInv', UNCHANGED <<state, legs, call>>,
           NEW k \in Mints, NEW c, MintGoto(k, c), MintKnows(k)'
    PROVE  MoneyInv'
<1>1. DOMAIN mint' = Mints /\ \A j \in Mints \ {k} : mint'[j] = mint[j]
  BY DEF MoneyInv, MintGoto
<1>2. \A j \in Mints : MintKnows(j)'
  BY <1>1, MintStays
<1>3. \A u \in Transfers : CallKnows(u)'
  BY CallStays
<1>4. \A u \in AllTransfers : LegsKnow(u)'
  BY LegsStay
<1> QED BY <1>1, <1>2, <1>3, <1>4 DEF MoneyInv

\* Every step of Mint: the account comes before the events.
LEMMA MintKeeps ==
    ASSUME MoneyInv, NEW k \in Mints, MintStep(k)
    PROVE  MoneyInv'
<1>0. UNCHANGED <<scenario, open, state, legs, call>>
  BY DEF MintStep, Mint, MintUnopened, MintAccount, AppendMint, MintConverge, MintCrash
<1>1. /\ DOMAIN mint = Mints /\ StreamsInv /\ MintKnows(k) /\ mintOf(k).wallet \in Wallets
  BY Requested DEF MoneyInv
<1>2. ASSUME UNCHANGED <<ledger, listing, minted>>, NEW c, MintGoto(k, c), c.pc # "append" PROVE MoneyInv'
  <2>1. Grows /\ StreamsInv' /\ LedgerInv'
    BY <1>0, <1>2, StoresStay
  <2>2. MintKnows(k)'
    BY <1>1, <1>2 DEF MintGoto, MintKnows
  <2> QED BY <1>0, <1>2, <2>1, <2>2, MintMoves
<1>3. CASE Mint(k)
  <2>1. \E c \in {[pc |-> "minted"], [pc |-> "load", attempt |-> 1]} : MintGoto(k, c)
    BY <1>3 DEF Mint
  <2>2. PICK c : MintGoto(k, c) /\ c.pc # "append"
    BY <2>1
  <2> QED BY <1>2, <1>3, <2>2 DEF Mint
<1>4. CASE MintUnopened(k)
  <2>1. MintGoto(k, [pc |-> "rejected"])
    BY <1>4 DEF MintUnopened
  <2>2. PICK c : MintGoto(k, c) /\ c.pc # "append"
    BY <2>1
  <2> QED BY <1>2, <1>4, <2>2 DEF MintUnopened
<1>5. CASE MintConverge(k)
  <2>1. \E c \in {[pc |-> "minted"], [pc |-> "load", attempt |-> mint[k].attempt + 1], [pc |-> "gaveUp"]} : MintGoto(k, c)
    BY <1>5 DEF MintConverge
  <2>2. PICK c : MintGoto(k, c) /\ c.pc # "append"
    BY <2>1
  <2> QED BY <1>2, <1>5, <2>2 DEF MintConverge
<1>6. CASE MintCrash(k)
  <2>1. MintGoto(k, MintIdle) /\ MintIdle.pc # "append"
    BY <1>6 DEF MintCrash, MintIdle
  <2> QED BY <1>2, <1>6, <2>1 DEF MintCrash
<1>7. CASE MintAccount(k)
  <2>1. PICK id, w, x : id = mintOf(k).token /\ w = mintOf(k).wallet /\ x = MintWrite(id, w, mintOf(k).capacity)
    OBVIOUS
  <2> DEFINE result == CreateAccounts(ledger, id, FlagsOf(w))
             go == [pc |-> "append", attempt |-> mint[k].attempt, write |-> x]
             c == IF result.ok THEN go ELSE [pc |-> "rejected"]
  <2>2. UNCHANGED <<scenario, open, listing, minted>> /\ ledger' = result.ledger /\ MintGoto(k, c) /\ Opened(w) /\ w \in Wallets
    BY <1>1, <1>7, <2>1 DEF MintAccount
  <2>3. /\ Grows /\ StreamsInv' /\ LedgerInv' /\ id \in DOMAIN ledger'.accounts
        /\ result.ok => ledger'.accounts[id].flags = FlagsOf(w)
    BY <2>2, AccountComes
  <2>4. x.token = id /\ x.wallet = w
    BY <2>1 DEF MintWrite
  <2>5. (Opened(w)' <=> Opened(w)) /\ FlagsOf(w)' = FlagsOf(w)
    BY <1>0, RequestsStay
  <2>6. result.ok => WriteKnows(x)'
    BY <2>2, <2>3, <2>4, <2>5 DEF WriteKnows
  <2> HIDE DEF result
  <2>7. call' = call /\ mint'[k] = c /\ (c.pc = "append" => result.ok /\ c.write = x)
    BY <1>0, <1>1, <2>2 DEF MintGoto
  <2>8. MintKnows(k)'
    BY <2>6, <2>7 DEF MintKnows
  <2> QED BY <1>0, <2>2, <2>3, <2>8, MintMoves
<1>8. CASE AppendMint(k)
  <2>1. CASE ~Current({mint[k].write})
    <3>1. MintGoto(k, [pc |-> "reload", attempt |-> mint[k].attempt]) /\ UNCHANGED <<ledger, listing, minted>>
      BY <1>8, <2>1 DEF AppendMint
    <3>2. PICK c : MintGoto(k, c) /\ c.pc # "append"
      BY <3>1
    <3> QED BY <1>2, <3>1, <3>2
  <2>2. CASE Current({mint[k].write})
    <3>1. PICK x, writes, c : x = mint[k].write /\ writes = {x} /\ c = [pc |-> "minted"]
      OBVIOUS
    <3>2. Record(writes, NoTransaction) /\ Current(writes) /\ MintGoto(k, c) /\ ledger' = ledger /\ c.pc = "minted"
      BY <1>8, <2>2, <3>1 DEF AppendMint
    <3>3. WritesKnow(writes) /\ NoTransaction \in Tags
      BY <1>1, <1>8, <3>1 DEF AppendMint, MintKnows, WritesKnow, Tags
    <3>4. Grows /\ StreamsInv' /\ LedgerInv'
      BY <1>0, <3>2, <3>3, MintsAreRecorded
    <3>5. MintKnows(k)'
      BY <1>1, <3>2 DEF MintGoto, MintKnows
    <3> QED BY <1>0, <3>2, <3>4, <3>5, MintMoves
  <2> QED BY <2>1, <2>2
<1> QED BY <1>3, <1>4, <1>5, <1>6, <1>7, <1>8 DEF MintStep

\* A Transaction closes, a reservation times out, a Transfer is cancelled
\* before it moved or confirmed once it is staged, or nothing happens.
LEMMA SurroundingsKeep ==
    ASSUME MoneyInv,
           \/ \E x \in Transactions : CloseTransaction(x)
           \/ \E id \in DOMAIN ledger.pending : Expire(id)
           \/ \E t \in Transfers : CancelAcceptedTransfer(t) \/ ConfirmStagedTransfer(t)
           \/ UNCHANGED vars
    PROVE  MoneyInv'
<1>0. UNCHANGED <<scenario, listing, minted, legs, call, mint>> /\ open' \subseteq open
  BY DEF CloseTransaction, Expire, CancelAcceptedTransfer, ConfirmStagedTransfer, vars
<1>1. DOMAIN state' = AllTransfers /\ \A u \in AllTransfers : state'[u] = "accepted" => state[u] = "accepted"
  BY DEF MoneyInv, CloseTransaction, Expire, CancelAcceptedTransfer, ConfirmStagedTransfer, vars
<1>2. Grows /\ StreamsInv' /\ LedgerInv'
  <2>1. CASE ledger' = ledger
    BY <1>0, <2>1, StoresStay
  <2>2. CASE \E id \in DOMAIN ledger.pending : Expire(id)
    <3>1. PICK id \in DOMAIN ledger.pending : Expire(id)
      BY <2>2
    <3>2. open' = open /\ ledger' = ExpirePending(ledger, id) /\ LedgerInv
      BY <3>1 DEF Expire, MoneyInv
    <3>3. PICK L : L = ledger
      OBVIOUS
    <3>4. LET M == ExpirePending(L, id)
              p == L.transfers[id]
          IN  /\ IsLedger(M) /\ WithinLimits(M) /\ M.transfers = L.transfers
              /\ DOMAIN M.accounts = DOMAIN L.accounts
              /\ \A k \in DOMAIN L.accounts :
                    /\ M.accounts[k].flags = L.accounts[k].flags
                    /\ k \notin {p.debit, p.credit} => M.accounts[k] = L.accounts[k]
      BY <3>1, <3>2, <3>3, ReservationExpires DEF LedgerInv
    <3>5. {L.transfers[id].debit, L.transfers[id].credit} \subseteq DOMAIN minted
      BY <3>1, <3>2, <3>3 DEF LedgerInv, IsLedger
    <3>6. /\ IsLedger(ledger') /\ WithinLimits(ledger') /\ ledger'.transfers = ledger.transfers
          /\ DOMAIN ledger'.accounts = DOMAIN ledger.accounts
          /\ \A k \in DOMAIN ledger.accounts :
              /\ ledger'.accounts[k].flags = ledger.accounts[k].flags
              /\ k \in DOMAIN minted \/ ledger'.accounts[k] = ledger.accounts[k]
      BY <3>2, <3>3, <3>4, <3>5
    <3> QED BY <1>0, <3>2, <3>6, MoneyMoves DEF LedgerInv
  <2> QED BY <2>1, <2>2 DEF CloseTransaction, CancelAcceptedTransfer, ConfirmStagedTransfer, vars
<1>3. \A u \in Transfers : CallKnows(u)'
  BY <1>0, <1>1, <1>2, CallStays DEF AllTransfers
<1>4. \A u \in AllTransfers : LegsKnow(u)'
  BY <1>0, <1>2, LegsStay
<1>5. \A k \in Mints : MintKnows(k)'
  BY <1>0, <1>2, MintStays
<1> QED BY <1>0, <1>1, <1>2, <1>3, <1>4, <1>5 DEF MoneyInv

\* Every step keeps the invariant.
LEMMA MoneyInvNext == ASSUME MoneyInv, [Next]_vars PROVE MoneyInv'
<1>1. ASSUME NEW t \in Transfers, DriverStep(t) PROVE MoneyInv'
  BY <1>1, DecisionsKeep, SelectTokenKeeps, StartPrepareKeeps, FinishSelectKeeps, PlanDestinationKeeps,
     AppendPreparedKeeps, SubmitKeeps, SurroundingsKeep DEF DriverStep
<1> QED BY <1>1, MintKeeps, SurroundingsKeep DEF Next
-----------------------------------------------------------------------------
(* The initial state: Transfers have been committed before the model starts. *)

\* A scenario's ledger before any Transfer, and after its first N.
Accounts0(s) == [k \in DOMAIN s.minted |-> NewAccount(AllowsToAccountFlags(s.allows[s.minted[k].wallet]))]
Ledger0(s) == [EmptyLedger(s.rule) EXCEPT !.accounts = Accounts0(s)]
IsFundingOf(f, s, N) ==
    f = [n \in 0..N |-> IF n = 0 THEN Ledger0(s) ELSE CreateTransfers(f[n - 1], FundingBatch(s.funding[n])).ledger]

\* The recursion of FundedLedger defines a function.
LEMMA FundingExists ==
    ASSUME NEW s
    PROVE  \A N \in Nat : \E f : IsFundingOf(f, s, N)
<1> DEFINE S == {N \in Nat : \E f : IsFundingOf(f, s, N)}
           start == Ledger0(s)
           next(L, n) == CreateTransfers(L, FundingBatch(s.funding[n])).ledger
<1>1. 0 \in S
  <2> DEFINE f == [n \in 0..0 |-> start]
  <2>0. 0..0 = {0}
    OBVIOUS
  <2>1. f = [n \in 0..0 |-> IF n = 0 THEN start ELSE next(f[n - 1], n)]
    <3> HIDE DEF start, next
    <3> QED BY <2>0
  <2>2. IsFundingOf(f, s, 0)
    BY <2>1 DEF IsFundingOf
  <2> QED BY <2>2
<1>2. ASSUME NEW N \in Nat, N \in S PROVE N + 1 \in S
  <2>1. PICK f : IsFundingOf(f, s, N)
    BY <1>2
  <2> DEFINE g == [n \in 0..(N + 1) |-> IF n = 0 THEN start ELSE next(f[n - 1], n)]
  <2>2. ASSUME NEW n \in 0..N PROVE g[n] = f[n]
    <3>1. f[n] = IF n = 0 THEN start ELSE next(f[n - 1], n)
      BY <2>1, Zenon DEF IsFundingOf
    <3>2. n \in 0..(N + 1)
      OBVIOUS
    <3> HIDE DEF start, next
    <3> QED BY <3>1, <3>2
  <2>3. \A n \in 0..(N + 1) : n # 0 => n - 1 \in 0..N
    OBVIOUS
  <2>4. g = [n \in 0..(N + 1) |-> IF n = 0 THEN start ELSE next(g[n - 1], n)]
    <3> HIDE DEF start, next
    <3> QED BY <2>2, <2>3
  <2>5. IsFundingOf(g, s, N + 1)
    BY <2>4 DEF IsFundingOf
  <2> QED BY <2>5
<1> HIDE DEF S
<1>3. Nat \subseteq S
  BY <1>1, <1>2, SetInduction
<1> QED BY <1>3 DEF S

\* The legs of the committed Transfers.
LEMMA FundingIs ==
    ASSUME NEW s \in Scenarios
    PROVE  /\ \A m, n \in DOMAIN s.funding : s.funding[m].id = s.funding[n].id => m = n
           /\ \A n \in DOMAIN s.funding : \A i \in DOMAIN s.funding[n].legs :
                 s.funding[n].legs[i].amount > 0 /\ s.funding[n].legs[i].source # s.funding[n].legs[i].dest
           /\ \A m, n \in DOMAIN s.funding : \A i \in DOMAIN s.funding[n].legs, j \in DOMAIN s.funding[m].legs :
                 s.funding[m].legs[j].dest = s.funding[n].legs[i].dest => m = n
<1>1. Funding(s)
  BY MoneyAssumption
<1> QED BY <1>1, Zenon DEF Funding

\* An entry of a committed Transfer moves the money of one of its legs.
FundingEntry(s, id, e) ==
    \E n \in DOMAIN s.funding : \E i \in DOMAIN s.funding[n].legs :
        LET l == s.funding[n].legs[i]
        IN  id = OpID(s.funding[n].id, i) /\ e.debit = l.source /\ e.credit = l.dest /\ e.amount = l.amount

\* A ledger on which committed Transfers have moved money between s's Tokens.
IsFunded(L, s) ==
    /\ IsLedger(L) /\ WithinLimits(L) /\ L.rule = s.rule
    /\ DOMAIN L.accounts = DOMAIN s.minted
    /\ \A k \in DOMAIN s.minted : L.accounts[k].flags = AllowsToAccountFlags(s.allows[s.minted[k].wallet])
    /\ \A id \in DOMAIN L.transfers :
          /\ {L.transfers[id].debit, L.transfers[id].credit} \subseteq DOMAIN s.minted
          /\ L.transfers[id].kind = "Regular"
          /\ \E t \in Funded : \E i \in Nat : id = OpID(t, i)
          /\ FundingEntry(s, id, L.transfers[id])
    /\ DOMAIN L.pending = {}
    /\ Booked(L)

\* Before the first Transfer there is no money.
LEMMA FundingStarts ==
    ASSUME NEW s, s.rule \in Rules
    PROVE  IsFunded(Ledger0(s), s)
<1>1. PICK A : A = Accounts0(s)
  OBVIOUS
<1>2. PICK none : none = << >> /\ DOMAIN none = {}
  OBVIOUS
<1>3. PICK L : L = [rule |-> s.rule, accounts |-> A, transfers |-> none, pending |-> none]
  OBVIOUS
<1>4. Ledger0(s) = L
  BY <1>1, <1>2, <1>3 DEF Ledger0, EmptyLedger
<1>5. /\ L.rule = s.rule /\ L.accounts = A /\ L.transfers = none /\ L.pending = none
      /\ DOMAIN L = {"rule", "accounts", "transfers", "pending"} /\ L = [d \in DOMAIN L |-> L[d]]
  BY <1>3
<1>6. \A flags \in Flags : /\ NewAccount(flags) \in Account /\ NewAccount(flags).flags = flags
                           /\ ~ExceedsCredits(s.rule, NewAccount(flags)) /\ ~ExceedsDebits(s.rule, NewAccount(flags))
  BY DEF NewAccount, Account, ExceedsCredits, ExceedsDebits
<1>7. /\ DOMAIN A = DOMAIN s.minted
      /\ \A k \in DOMAIN A : /\ A[k] \in Account /\ A[k].flags = AllowsToAccountFlags(s.allows[s.minted[k].wallet])
                             /\ ~ExceedsCredits(s.rule, A[k]) /\ ~ExceedsDebits(s.rule, A[k])
  BY <1>1, <1>6, FlagsFromPolicy DEF Accounts0
<1>8. IsLedger(L)
  BY <1>2, <1>5, <1>7 DEF IsLedger
<1>9. WithinLimits(L)
  BY <1>5, <1>7 DEF WithinLimits
<1>10. \A k \in DOMAIN A : \E flags : A[k] = NewAccount(flags)
  BY <1>1 DEF Accounts0
<1>11. Booked(L)
  BY <1>2, <1>5, <1>10, NothingIsBooked
<1> QED BY <1>2, <1>4, <1>5, <1>7, <1>8, <1>9, <1>11 DEF IsFunded

\* Another Transfer is committed.
LEMMA FundingGoesOn ==
    ASSUME NEW s, NEW L, IsFunded(L, s), NEW n \in DOMAIN s.funding, NEW f, f = s.funding[n],
           f.id \in Funded, f.legs \in Manifests(DOMAIN s.minted),
           \A i \in DOMAIN f.legs : f.legs[i].source # f.legs[i].dest
    PROVE  IsFunded(CreateTransfers(L, FundingBatch(f)).ledger, s)
<1> DEFINE batch == FundingBatch(f)
           entry(i) == [id |-> OpID(f.id, i), debit |-> f.legs[i].source, credit |-> f.legs[i].dest,
                        amount |-> f.legs[i].amount, kind |-> "Regular", pendingID |-> << >>]
           M == CreateTransfers(L, batch).ledger
<1>1. /\ Len(f.legs) \in Nat /\ DOMAIN f.legs = 1..Len(f.legs)
      /\ \A i \in DOMAIN f.legs : /\ f.legs[i].source \in DOMAIN s.minted /\ f.legs[i].dest \in DOMAIN s.minted
                                  /\ f.legs[i].amount \in Nat
  BY ManifestsAre
<1>2. batch = [i \in 1..Len(f.legs) |-> entry(i)]
  BY <1>1 DEF FundingBatch
<1>3. \A i : /\ entry(i).id = OpID(f.id, i) /\ entry(i).debit = f.legs[i].source /\ entry(i).credit = f.legs[i].dest
             /\ entry(i).amount = f.legs[i].amount /\ entry(i).kind = "Regular"
  OBVIOUS
<1>4. \A i \in DOMAIN f.legs : IsEntry(entry(i))
  BY <1>1 DEF IsEntry, Kinds
<1>5. \A i, j : OpID(f.id, i) = OpID(f.id, j) => i = j
  BY DEF OpID
<1> HIDE DEF entry, batch
<1>6. Len(batch) = Len(f.legs) /\ DOMAIN batch = DOMAIN f.legs /\ \A i \in DOMAIN f.legs : batch[i] = entry(i)
  BY <1>1, <1>2
<1>7. IsBatch(batch) /\ \A i \in DOMAIN batch : batch[i].kind = "Regular"
  BY <1>1, <1>3, <1>4, <1>5, <1>6 DEF IsBatch
<1>8. Extends(M, L, batch, "Regular")
  BY <1>7, BatchIsAtomic DEF IsFunded
<1> HIDE DEF M
<1>9. /\ IsLedger(M) /\ WithinLimits(M) /\ M.rule = s.rule /\ DOMAIN M.accounts = DOMAIN s.minted
      /\ \A k \in DOMAIN s.minted : M.accounts[k].flags = AllowsToAccountFlags(s.allows[s.minted[k].wallet])
      /\ DOMAIN M.pending = {}
  BY <1>8 DEF Extends, IsFunded
<1>10. ASSUME NEW id \in DOMAIN M.transfers
       PROVE  /\ {M.transfers[id].debit, M.transfers[id].credit} \subseteq DOMAIN s.minted
              /\ M.transfers[id].kind = "Regular"
              /\ \E t \in Funded : \E i \in Nat : id = OpID(t, i)
              /\ FundingEntry(s, id, M.transfers[id])
  <2>1. CASE id \in DOMAIN L.transfers
    BY <1>8, <2>1 DEF Extends, IsFunded
  <2>2. CASE id \notin DOMAIN L.transfers
    <3>1. PICK i \in DOMAIN batch : id = batch[i].id /\ M.transfers[id] = batch[i]
      BY <1>8, <2>2 DEF Extends
    <3>2. i \in DOMAIN f.legs /\ i \in Nat /\ batch[i] = entry(i)
      BY <1>1, <1>6
    <3>3. /\ {M.transfers[id].debit, M.transfers[id].credit} \subseteq DOMAIN s.minted
          /\ M.transfers[id].kind = "Regular" /\ id = OpID(f.id, i)
      BY <1>1, <1>3, <3>1, <3>2
    <3>4. FundingEntry(s, id, M.transfers[id])
      BY <1>3, <3>1, <3>2, <3>3 DEF FundingEntry
    <3> QED BY <3>2, <3>3, <3>4
  <2> QED BY <2>1, <2>2
<1>11. Booked(M)
  <2>1. \A i \in DOMAIN batch : batch[i].debit # batch[i].credit
    BY <1>3, <1>6
  <2> QED BY <1>7, <2>1, BatchKeepsBooks DEF IsFunded, M
<1> QED BY <1>9, <1>10, <1>11 DEF IsFunded, M, batch

\* The ledger the model starts with.
LEMMA FundedLedgerIs ==
    ASSUME NEW s \in Scenarios
    PROVE  IsFunded(FundedLedger(s), s)
<1> DEFINE N == Len(s.funding)
           F == CHOOSE f : IsFundingOf(f, s, N)
           S == {n \in Nat : n <= N => IsFunded(F[n], s)}
<1>1. /\ s.rule \in Rules /\ N \in Nat
      /\ \A n \in 1..N : /\ n \in DOMAIN s.funding /\ s.funding[n].id \in Funded
                         /\ s.funding[n].legs \in Manifests(DOMAIN s.minted)
                         /\ \A i \in DOMAIN s.funding[n].legs : s.funding[n].legs[i].source # s.funding[n].legs[i].dest
  <2> DEFINE R == [id : Funded, legs : Manifests(DOMAIN s.minted)]
  <2>1. s.rule \in Rules /\ s.funding \in Seq(R)
    BY MoneyAssumption DEF Funding, Manifests
  <2>2. \A r \in R : r.id \in Funded /\ r.legs \in Manifests(DOMAIN s.minted)
    OBVIOUS
  <2> HIDE DEF R
  <2>3. N \in Nat /\ \A n \in 1..N : n \in DOMAIN s.funding /\ s.funding[n] \in R
    BY <2>1
  <2>4. \A n \in DOMAIN s.funding : \A i \in DOMAIN s.funding[n].legs :
           s.funding[n].legs[i].source # s.funding[n].legs[i].dest
    BY FundingIs
  <2> QED BY <2>1, <2>2, <2>3, <2>4
<1>2. IsFundingOf(F, s, N)
  BY <1>1, FundingExists, Zenon
<1>3. FundedLedger(s) = F[N]
  BY Zenon DEF FundedLedger, IsFundingOf, Ledger0, Accounts0
<1> HIDE DEF F, N
<1>4. F[0] = Ledger0(s)
  <2>1. 0 \in 0..N
    BY <1>1
  <2> QED BY <1>2, <2>1, Zenon DEF IsFundingOf
<1>5. ASSUME NEW n \in 1..N PROVE F[n] = CreateTransfers(F[n - 1], FundingBatch(s.funding[n])).ledger
  <2>1. n \in 0..N /\ n # 0
    BY <1>1
  <2> QED BY <1>2, <2>1, Zenon DEF IsFundingOf
<1>6. 0 \in S
  BY <1>1, <1>4, FundingStarts
<1>7. ASSUME NEW m \in Nat, m \in S PROVE m + 1 \in S
  <2> SUFFICES ASSUME m + 1 <= N PROVE IsFunded(F[m + 1], s)
    OBVIOUS
  <2>1. m + 1 \in 1..N /\ (m + 1) - 1 = m /\ m <= N
    BY <1>1
  <2>2. IsFunded(F[m], s) /\ F[m + 1] = CreateTransfers(F[m], FundingBatch(s.funding[m + 1])).ledger
    BY <1>5, <1>7, <2>1
  <2>3. PICK L, f, n : L = F[m] /\ n = m + 1 /\ f = s.funding[n]
    OBVIOUS
  <2>4. /\ IsFunded(L, s) /\ n \in DOMAIN s.funding /\ f.id \in Funded /\ f.legs \in Manifests(DOMAIN s.minted)
        /\ \A i \in DOMAIN f.legs : f.legs[i].source # f.legs[i].dest
    BY <1>1, <2>1, <2>2, <2>3
  <2>5. IsFunded(CreateTransfers(L, FundingBatch(f)).ledger, s)
    BY <2>3, <2>4, FundingGoesOn
  <2> QED BY <2>2, <2>3, <2>5
<1> HIDE DEF S
<1>8. N \in S
  BY <1>1, <1>6, <1>7, SetInduction
<1> QED BY <1>1, <1>3, <1>8 DEF S
\* The invariant holds when the model starts.
LEMMA MoneyInvInit == ASSUME Init PROVE MoneyInv
<1>1. PICK s \in Scenarios : s = scenario
  BY DEF Init
<1>2. /\ listing = s.listing /\ minted = s.minted /\ open = Transactions /\ ledger = FundedLedger(s)
      /\ \A w : (Opened(w) <=> s.allows[w] # "UNOPENED") /\ FlagsOf(w) = AllowsToAccountFlags(s.allows[w])
  BY <1>1 DEF Init, Opened, FlagsOf, allows
<1>3. IsFunded(ledger, s) /\ Streams(s) /\ Funding(s) /\ Funded \intersect Transfers = {}
  BY <1>2, FundedLedgerIs, MoneyAssumption
<1>4. ASSUME NEW w \in Wallets
      PROVE  /\ listing[w] \in Seq([token : DOMAIN minted, tag : Tags])
             /\ \A i \in DOMAIN listing[w] : listing[w][i].token \in DOMAIN minted /\ minted[listing[w][i].token].wallet = w
  <2> DEFINE mine == {k \in DOMAIN minted : minted[k].wallet = w}
             R == [token : mine, tag : Transactions \union {NoTransaction}]
             Q == [token : DOMAIN minted, tag : Tags]
  <2>1. listing[w] \in Seq(R)
    BY <1>2, <1>3 DEF Streams
  <2>2. R \subseteq Q
    BY DEF Tags
  <2>3. \A r \in R : r.token \in DOMAIN minted /\ minted[r.token].wallet = w
    OBVIOUS
  <2> HIDE DEF R, Q
  <2>4. listing[w] \in Seq(Q) /\ \A i \in DOMAIN listing[w] : listing[w][i] \in R
    BY <2>1, <2>2, SequencesGrow
  <2> QED BY <2>3, <2>4 DEF Q
<1>5. MintedIsBackedAndListed
  <2>1. \A k \in DOMAIN minted : k \in DOMAIN ledger.accounts /\ ledger.accounts[k].flags = FlagsOf(minted[k].wallet)
    BY <1>2, <1>3 DEF IsFunded
  <2>2. DOMAIN ledger.accounts \ DOMAIN minted = {}
    BY <1>2, <1>3 DEF IsFunded
  <2>3. ASSUME NEW w \in Wallets
        PROVE  /\ ~Opened(w) => listing[w] = << >>
               /\ {listing[w][i].token : i \in DOMAIN listing[w]} = {k \in DOMAIN minted : minted[k].wallet = w}
               /\ \A i, j \in DOMAIN listing[w] : listing[w][i].token = listing[w][j].token => i = j
    <3>1. /\ ~Opened(w) => listing[w] = << >>
          /\ \A k \in DOMAIN minted : minted[k].wallet = w => \E i \in DOMAIN listing[w] : listing[w][i].token = k
          /\ \A i, j \in DOMAIN listing[w] : listing[w][i].token = listing[w][j].token => i = j
      <4>1. /\ s.allows[w] = "UNOPENED" => s.listing[w] = << >>
            /\ \A k \in DOMAIN s.minted : s.minted[k].wallet = w =>
                  \E i \in DOMAIN s.listing[w] : s.listing[w][i].token = k
            /\ \A i, j \in DOMAIN s.listing[w] : s.listing[w][i].token = s.listing[w][j].token => i = j
        BY <1>3, Zenon DEF Streams
      <4> QED BY <1>2, <4>1
    <3>2. {listing[w][i].token : i \in DOMAIN listing[w]} = {k \in DOMAIN minted : minted[k].wallet = w}
      BY <1>4, <3>1
    <3> QED BY <3>1, <3>2
  <2> QED BY <2>1, <2>2, <2>3 DEF MintedIsBackedAndListed
<1>6. StreamsInv
  BY <1>1, <1>2, <1>3, <1>4, <1>5 DEF StreamsInv, Streams
<1>7. LedgerInv
  BY <1>2, <1>3 DEF LedgerInv, IsFunded
<1>8. /\ DOMAIN call = Transfers /\ DOMAIN mint = Mints /\ DOMAIN legs = AllTransfers /\ DOMAIN state = AllTransfers
      /\ \A t \in Transfers : call[t] = Idle /\ state[t] = "none" /\ legs[t] = << >>
      /\ \A k \in Mints : mint[k] = MintIdle
  BY <1>3 DEF Init, AllTransfers
<1>9. Idle.pc = "idle" /\ MintIdle.pc = "idle"
  BY DEF Idle, MintIdle
<1>10. \A t \in Transfers : CallKnows(t)
  BY <1>8, <1>9 DEF CallKnows, Selecting
<1>11. \A k \in Mints : MintKnows(k)
  BY <1>8, <1>9 DEF MintKnows
<1>12. ASSUME NEW t \in AllTransfers PROVE LegsKnow(t)
  <2>1. CASE t \in Transfers
    <3>1. << >> \in Manifests(DOMAIN minted) /\ DOMAIN << >> = {}
      BY DEF Manifests
    <3> QED BY <1>8, <2>1, <3>1 DEF LegsKnow
  <2>2. CASE t \in Funded
    <3> DEFINE i == CHOOSE n \in DOMAIN s.funding : s.funding[n].id = t
               R == [id : Funded, legs : Manifests(DOMAIN minted)]
    <3>1. i \in DOMAIN s.funding
      BY <1>3, <2>2 DEF Funding
    <3>2. legs[t] = s.funding[i].legs
      BY <1>1, <2>2 DEF Init
    <3>3. s.funding \in Seq(R)
      BY <1>2, <1>3 DEF Funding, Manifests
    <3>4. \A r \in R : r.legs \in Manifests(DOMAIN minted)
      OBVIOUS
    <3> HIDE DEF R, i
    <3>5. s.funding[i] \in R
      BY <3>1, <3>3
    <3>6. t \notin Transfers
      BY <1>3, <2>2
    <3> QED BY <3>2, <3>4, <3>5, <3>6 DEF LegsKnow
  <2> QED BY <2>1, <2>2 DEF AllTransfers
<1> QED BY <1>6, <1>7, <1>8, <1>10, <1>11, <1>12 DEF MoneyInv

-----------------------------------------------------------------------------
(* Theorems.                                                                 *)

\* The inductive invariant holds of every behaviour.
THEOREM AlwaysMoneyInv == Spec => []MoneyInv
<1>1. Init => MoneyInv
  BY MoneyInvInit
<1>2. MoneyInv /\ [Next]_vars => MoneyInv'
  BY MoneyInvNext
<1> QED BY <1>1, <1>2, PTL DEF Spec

\* Under TigerBeetle's rule a Token whose Wallet forbids it never spends what
\* it has not received, whatever the drivers read, reserve, post, void or lose
\* and however many of them compete (token/allows.go, CreateTransfers).
THEOREM AlwaysNeverOverspent == Spec => []NeverOverspent
<1>1. MoneyInv => NeverOverspent
  <2> SUFFICES ASSUME MoneyInv, ledger.rule = "tigerbeetle", NEW k \in DOMAIN minted
               PROVE  LET a == ledger.accounts[k]
                      IN  /\ Flagged(minted[k].wallet, "debitsMustNotExceedCredits") =>
                                a.debitsPosted + a.debitsPending <= a.creditsPosted
                          /\ Flagged(minted[k].wallet, "creditsMustNotExceedDebits") =>
                                a.creditsPosted + a.creditsPending <= a.debitsPosted
    BY DEF NeverOverspent
  <2> DEFINE a == ledger.accounts[k]
  <2>1. /\ k \in DOMAIN ledger.accounts /\ a.flags = FlagsOf(minted[k].wallet)
        /\ IsLedger(ledger) /\ WithinLimits(ledger)
    BY DEF MoneyInv, StreamsInv, LedgerInv, MintedIsBackedAndListed
  <2>2. a \in Account /\ ~ExceedsCredits("tigerbeetle", a) /\ ~ExceedsDebits("tigerbeetle", a)
    BY <2>1 DEF IsLedger, WithinLimits
  <2>3. /\ Flagged(minted[k].wallet, "debitsMustNotExceedCredits") <=> a.flags.debitsMustNotExceedCredits
        /\ Flagged(minted[k].wallet, "creditsMustNotExceedDebits") <=> a.flags.creditsMustNotExceedDebits
    BY <2>1 DEF Flagged, FlagsOf
  <2> HIDE DEF a
  <2> QED BY <2>2, <2>3 DEF ExceedsCredits, ExceedsDebits, Account, a
<1> QED BY <1>1, AlwaysMoneyInv, PTL

\* A TokenMinted always has an account with its Wallet's flags, a Wallet lists
\* exactly the Tokens minted into it, once each, and money only reaches
\* accounts whose mint is on record (token.Mint, prepare).
THEOREM AlwaysMintedIsBackedAndListed == Spec => []MintedIsBackedAndListed
<1>1. MoneyInv => MintedIsBackedAndListed
  BY DEF MoneyInv, StreamsInv
<1> QED BY <1>1, AlwaysMoneyInv, PTL

\* No forward Transfer spends a Token that another, still open Transaction
\* brought in, however the selection and the mints interleave
\* (wallet.TokensOfVisibleTo).
THEOREM AlwaysOpenTokensLeftAlone == Spec => []OpenTokensLeftAlone
<1>1. MoneyInv => OpenTokensLeftAlone
  <2> SUFFICES ASSUME MoneyInv, NEW t \in Transfers, req(t).kind = "forward", NEW i \in DOMAIN legs[t],
                      NEW n \in DOMAIN listing[req(t).from],
                      listing[req(t).from][n].token = legs[t][i].source,
                      listing[req(t).from][n].tag \in open
               PROVE  listing[req(t).from][n].tag = req(t).tx
    BY DEF OpenTokensLeftAlone
  <2>1. Seen(t, legs[t][i].source)
    BY DEF MoneyInv, LegsKnow, AllTransfers
  <2> QED BY <2>1 DEF Seen
<1> QED BY <1>1, AlwaysMoneyInv, PTL
-----------------------------------------------------------------------------
(* The event log and the ledger.                                             *)

PostID(t, i) == <<t, i, "post">>
VoidID(t, i) == <<t, i, "void">>
OpKind(t) == IF req(t).stage THEN "Pending" ELSE "Regular"

\* What the ledger holds of Transfer t: entries of its batches; a reservation
\* is settled exactly when its post or its void is there.
EntriesOf(t) ==
    \A i :
        /\ OpID(t, i) \in DOMAIN ledger.transfers =>
              i \in DOMAIN legs[t] /\ ledger.transfers[OpID(t, i)] = Batch(t, OpKind(t))[i]
        /\ PostID(t, i) \in DOMAIN ledger.transfers =>
              /\ i \in DOMAIN legs[t] /\ ledger.transfers[PostID(t, i)] = Batch(t, "PostPending")[i]
              /\ OpID(t, i) \in DOMAIN ledger.pending /\ ledger.pending[OpID(t, i)] = "posted"
        /\ VoidID(t, i) \in DOMAIN ledger.transfers =>
              /\ i \in DOMAIN legs[t] /\ ledger.transfers[VoidID(t, i)] = Batch(t, "VoidPending")[i]
              /\ OpID(t, i) \in DOMAIN ledger.pending /\ ledger.pending[OpID(t, i)] = "voided"
        /\ OpID(t, i) \in DOMAIN ledger.pending =>
              /\ ledger.pending[OpID(t, i)] \in {"open", "posted", "voided", "expired"}
              /\ ledger.pending[OpID(t, i)] = "posted" => PostID(t, i) \in DOMAIN ledger.transfers

\* A batch is in as a whole or not at all.
Whole(t) ==
    \A i, j \in DOMAIN legs[t] :
        /\ OpID(t, i) \in DOMAIN ledger.transfers => OpID(t, j) \in DOMAIN ledger.transfers
        /\ PostID(t, i) \in DOMAIN ledger.transfers => PostID(t, j) \in DOMAIN ledger.transfers
        /\ VoidID(t, i) \in DOMAIN ledger.transfers => VoidID(t, j) \in DOMAIN ledger.transfers

\* A leg has moved its money.
Moved(t, i) ==
    OpID(t, i) \in DOMAIN ledger.transfers /\ (req(t).stage => PostID(t, i) \in DOMAIN ledger.transfers)

\* What an outcome says of the legs of t, once it is known.
OutcomeTrue(t, outcome) ==
    /\ outcome \in {"staged", "pending"} => req(t).stage
    /\ outcome = "committed" => \A i \in DOMAIN legs[t] : Moved(t, i)
    /\ outcome = "failed" => (Recognised(t) => \A i \in DOMAIN legs[t] : ~Moved(t, i))
    /\ outcome = "cancelled" => \A i \in DOMAIN legs[t] : VoidID(t, i) \in DOMAIN ledger.transfers

\* Where the stream and the driver of t stand.
Unsettled(t) == \A i : PostID(t, i) \notin DOMAIN ledger.transfers /\ VoidID(t, i) \notin DOMAIN ledger.transfers
StandsFor(t) ==
    /\ state[t] \in {"none", "accepted", "rejected", "abandoned"} => legs[t] = << >>
    /\ state[t] \in {"none", "accepted", "rejected", "abandoned", "prepared", "withdrawing"} => Unsettled(t)
    /\ call[t].pc = "accept" => state[t] = "none"
    /\ call[t].pc \in {"prepare", "plan", "append"} => state[t] = "accepted"
    /\ OutcomeTrue(t, state[t])
    /\ call[t].pc = "record" => OutcomeTrue(t, call[t].outcome)

LogInv == \A t \in Transfers : EntriesOf(t) /\ Whole(t) /\ StandsFor(t)

\* The ids of different entries differ: an Operation's id is unique, and post
\* and void derive theirs from it (detid.New in submitBatch and cancelStaged).
LEMMA IdsDiffer ==
    ASSUME NEW t, NEW u, NEW i, NEW j
    PROVE  /\ OpID(t, i) = OpID(u, j) => t = u /\ i = j
           /\ PostID(t, i) = PostID(u, j) => t = u /\ i = j
           /\ VoidID(t, i) = VoidID(u, j) => t = u /\ i = j
           /\ OpID(t, i) # PostID(u, j) /\ OpID(t, i) # VoidID(u, j) /\ PostID(t, i) # VoidID(u, j)
<1>1. "op" # "post" /\ "op" # "void" /\ "post" # "void"
  OBVIOUS
<1> QED BY <1>1 DEF OpID, PostID, VoidID

\* A step that leaves the entries of u alone; an open reservation may expire.
SameFor(u) ==
    /\ ledger'.rule = ledger.rule
    /\ \A i :
        /\ OpID(u, i) \in DOMAIN ledger'.transfers <=> OpID(u, i) \in DOMAIN ledger.transfers
        /\ PostID(u, i) \in DOMAIN ledger'.transfers <=> PostID(u, i) \in DOMAIN ledger.transfers
        /\ VoidID(u, i) \in DOMAIN ledger'.transfers <=> VoidID(u, i) \in DOMAIN ledger.transfers
        /\ \A id \in {OpID(u, i), PostID(u, i), VoidID(u, i)} \intersect DOMAIN ledger.transfers :
              ledger'.transfers[id] = ledger.transfers[id]
        /\ OpID(u, i) \in DOMAIN ledger'.pending <=> OpID(u, i) \in DOMAIN ledger.pending
        /\ OpID(u, i) \in DOMAIN ledger.pending =>
              \/ ledger'.pending[OpID(u, i)] = ledger.pending[OpID(u, i)]
              \/ ledger.pending[OpID(u, i)] = "open" /\ ledger'.pending[OpID(u, i)] = "expired"

\* What is known of u then stays.
LEMMA EntriesStay ==
    ASSUME scenario' = scenario, NEW u, legs'[u] = legs[u], SameFor(u), EntriesOf(u), Whole(u)
    PROVE  /\ EntriesOf(u)' /\ Whole(u)' /\ (Unsettled(u) => Unsettled(u)')
           /\ \A outcome : OutcomeTrue(u, outcome) => OutcomeTrue(u, outcome)'
<1>1. req(u)' = req(u) /\ OpKind(u)' = OpKind(u) /\ \A kind : Batch(u, kind)' = Batch(u, kind)
  BY RequestsStay DEF OpKind, Batch, OpID
<1>2. EntriesOf(u)'
  BY <1>1 DEF EntriesOf, SameFor
<1>3. Whole(u)' /\ (Unsettled(u) => Unsettled(u)')
  BY DEF Whole, SameFor, Unsettled
<1>4. \A i : Moved(u, i)' <=> Moved(u, i)
  BY <1>1 DEF Moved, SameFor
<1>5. Recognised(u)' <=> Recognised(u)
  BY DEF Recognised, SameFor
<1>6. \A outcome : OutcomeTrue(u, outcome) => OutcomeTrue(u, outcome)'
  BY <1>1, <1>4, <1>5 DEF OutcomeTrue, SameFor
<1> QED BY <1>2, <1>3, <1>6

\* A step of t's driver.
LEMMA LogMoves ==
    ASSUME LogInv, scenario' = scenario, NEW t,
           \A u \in Transfers \ {t} : SameFor(u) /\ state'[u] = state[u] /\ legs'[u] = legs[u] /\ call'[u] = call[u],
           t \in Transfers => EntriesOf(t)' /\ Whole(t)' /\ StandsFor(t)'
    PROVE  LogInv'
<1>1. ASSUME NEW u \in Transfers, u # t PROVE EntriesOf(u)' /\ Whole(u)' /\ StandsFor(u)'
  <2>1. EntriesOf(u) /\ Whole(u) /\ StandsFor(u)
    BY DEF LogInv
  <2>2. PICK s, c : s = state[u] /\ c = call[u].outcome
    OBVIOUS
  <2>3. EntriesOf(u)' /\ Whole(u)' /\ (Unsettled(u) => Unsettled(u)')
    BY <1>1, <2>1, EntriesStay
  <2>4. (OutcomeTrue(u, s) => OutcomeTrue(u, s)') /\ (OutcomeTrue(u, c) => OutcomeTrue(u, c)')
    BY <1>1, <2>1, EntriesStay
  <2>5. StandsFor(u)'
    BY <1>1, <2>1, <2>2, <2>3, <2>4 DEF StandsFor
  <2> QED BY <2>3, <2>5
<1> QED BY <1>1 DEF LogInv

\* Steps that submit nothing leave every entry alone.
LEMMA NothingSubmitted ==
    ASSUME ledger'.rule = ledger.rule, ledger'.transfers = ledger.transfers, ledger'.pending = ledger.pending
    PROVE  \A u : SameFor(u)
BY DEF SameFor
\* The driver's steps that leave its legs and the ledger's entries alone.
LEMMA DriverStands ==
    ASSUME MoneyInv, LogInv, scenario' = scenario, NEW t \in Transfers, NEW c, Goto(t, c),
           ledger'.rule = ledger.rule, ledger'.transfers = ledger.transfers, ledger'.pending = ledger.pending,
           legs' = legs, \A u \in Transfers \ {t} : state'[u] = state[u],
           state'[t] \in {"none", "accepted", "rejected", "abandoned"} => state[t] \in {"none", "accepted", "rejected", "abandoned"},
           state'[t] \in {"prepared", "withdrawing"} => state[t] = state'[t],
           c.pc = "accept" => state'[t] = "none",
           c.pc \in {"prepare", "plan", "append"} => state'[t] = "accepted",
           c.pc # "record",
           state'[t] \in {"none", "accepted", "rejected", "abandoned"} \/ OutcomeTrue(t, state'[t])
    PROVE  LogInv'
<1>1. EntriesOf(t) /\ Whole(t) /\ StandsFor(t) /\ DOMAIN call = Transfers
  BY DEF LogInv, MoneyInv
<1>2. call'[t] = c /\ \A u \in Transfers \ {t} : call'[u] = call[u]
  BY <1>1 DEF Goto
<1>3. \A u : SameFor(u)
  BY NothingSubmitted
<1>4. EntriesOf(t)' /\ Whole(t)' /\ (Unsettled(t) => Unsettled(t)')
  BY <1>1, <1>3, EntriesStay
<1>5. OutcomeTrue(t, state[t])'
  <2>1. PICK s : s = state'[t]
    OBVIOUS
  <2>2. OutcomeTrue(t, s)
    <3>1. CASE s \in {"none", "accepted", "rejected", "abandoned"}
      BY <3>1 DEF OutcomeTrue
    <3>2. CASE s \notin {"none", "accepted", "rejected", "abandoned"}
      BY <2>1, <3>2
    <3> QED BY <3>1, <3>2
  <2>3. OutcomeTrue(t, s)'
    BY <1>1, <1>3, <2>2, EntriesStay
  <2> QED BY <2>1, <2>3
<1>6. StandsFor(t)'
  BY <1>1, <1>2, <1>4, <1>5 DEF StandsFor
<1> QED BY <1>2, <1>3, <1>4, <1>6, LogMoves

\* What the driver of t is about to do.
LEMMA Stands ==
    ASSUME MoneyInv, LogInv, NEW t \in Transfers
    PROVE  /\ EntriesOf(t) /\ Whole(t) /\ StandsFor(t) /\ OutcomeTrue(t, state[t])
           /\ DOMAIN call = Transfers /\ DOMAIN state = AllTransfers /\ DOMAIN legs = AllTransfers
           /\ t \in AllTransfers /\ CallKnows(t)
BY DEF LogInv, MoneyInv, StandsFor, AllTransfers

\* The handlers that only decide, resume or give up.
LEMMA DecisionsStand ==
    ASSUME MoneyInv, LogInv, NEW t \in Transfers,
           \/ RequestTransfer(t) \/ DecideTransfer(t) \/ RequestReversal(t) \/ ResumeSaga(t)
           \/ DestinationUnopened(t) \/ RecordOutcome(t) \/ Crash(t) \/ FinishSelect(t)
    PROVE  LogInv'
<1>0. /\ UNCHANGED <<scenario, ledger, legs>> /\ \A u \in AllTransfers \ {t} : state'[u] = state[u]
      /\ Transfers \subseteq AllTransfers
  BY DEF MoneyInv, RequestTransfer, DecideTransfer, RequestReversal, ResumeSaga, DestinationUnopened, RecordOutcome,
         Crash, FinishSelect, AllTransfers
<1>1. /\ StandsFor(t) /\ OutcomeTrue(t, state[t]) /\ DOMAIN state = AllTransfers /\ t \in AllTransfers /\ CallKnows(t)
  BY Stands
<1>2. Idle.pc = "idle" /\ Saga.pc = "runSaga"
  BY DEF Idle, Saga
<1>3. ASSUME NEW c \in {Idle, Saga}, Goto(t, c),
             \/ state'[t] = state[t]
             \/ state[t] = "none" /\ state'[t] \in {"accepted", "rejected"}
             \/ state'[t] \in Outcomes /\ OutcomeTrue(t, state'[t])
      PROVE  LogInv'
  BY <1>0, <1>1, <1>2, <1>3, DriverStands DEF Outcomes
<1>4. CASE RequestTransfer(t)
  <2>1. CASE req(t).mintSource
    <3>1. PICK c \in {Idle, Saga} : Goto(t, c)
      BY <1>4, <2>1 DEF RequestTransfer
    <3>2. state[t] = "none" /\ state'[t] \in {"accepted", "rejected"}
      BY <1>1, <1>4, <2>1 DEF RequestTransfer
    <3> QED BY <1>3, <3>1, <3>2
  <2>2. CASE ~req(t).mintSource
    <3>1. PICK c : Goto(t, c) /\ c.pc = "accept"
      BY <1>4, <2>2 DEF RequestTransfer, StartSelect
    <3>2. state' = state /\ state[t] = "none"
      BY <1>4, <2>2 DEF RequestTransfer
    <3> QED BY <1>0, <1>1, <3>1, <3>2, DriverStands
  <2> QED BY <2>1, <2>2
<1>5. CASE DecideTransfer(t)
  <2>1. PICK c \in {Idle, Saga} : Goto(t, c)
    BY <1>5 DEF DecideTransfer
  <2>2. state[t] = "none" /\ state'[t] \in {"accepted", "rejected"}
    BY <1>1, <1>5 DEF DecideTransfer, StandsFor
  <2> QED BY <1>3, <2>1, <2>2
<1>6. CASE RequestReversal(t)
  <2>1. PICK c \in {Idle, Saga} : Goto(t, c)
    BY <1>6 DEF RequestReversal
  <2>2. state[t] = "none" /\ state'[t] \in {"accepted", "rejected"}
    BY <1>1, <1>6 DEF RequestReversal
  <2> QED BY <1>3, <2>1, <2>2
<1>7. CASE RecordOutcome(t)
  <2>1. Goto(t, Idle) /\ state'[t] = call[t].outcome /\ call[t].pc = "record"
    BY <1>1, <1>7 DEF RecordOutcome
  <2>2. state'[t] \in Outcomes /\ OutcomeTrue(t, state'[t])
    BY <1>1, <2>1 DEF StandsFor, CallKnows
  <2> QED BY <1>3, <2>1, <2>2
<1>8. CASE ResumeSaga(t) \/ DestinationUnopened(t) \/ Crash(t)
  <2>1. state' = state /\ \E c \in {Idle, Saga} : Goto(t, c)
    BY <1>8 DEF ResumeSaga, DestinationUnopened, Crash
  <2> QED BY <1>3, <2>1
<1>9. CASE FinishSelect(t)
  <2> DEFINE plan == [pc |-> "plan", legs |-> call[t].legs, writes |-> {}]
  <2>1. state' = state /\ state[t] = "accepted" /\ (Goto(t, Idle) \/ Goto(t, plan))
    BY <1>1, <1>9 DEF FinishSelect, StandsFor
  <2>2. plan.pc = "plan"
    OBVIOUS
  <2> HIDE DEF plan
  <2>3. CASE Goto(t, plan)
    BY <1>0, <1>1, <2>1, <2>2, <2>3, DriverStands
  <2> QED BY <1>3, <2>1, <2>3
<1> QED BY <1>4, <1>5, <1>6, <1>7, <1>8, <1>9

\* Reading balances and creating accounts move nothing.
LEMMA PreparationsStand ==
    ASSUME MoneyInv, LogInv, NEW t \in Transfers, SelectToken(t) \/ StartPrepare(t) \/ PlanDestination(t)
    PROVE  LogInv'
<1>0. UNCHANGED <<scenario, legs, state>>
  BY DEF SelectToken, StartPrepare, PlanDestination
<1>1. StandsFor(t) /\ OutcomeTrue(t, state[t]) /\ CallKnows(t)
  BY Stands
<1>2. ASSUME NEW id, NEW w, ledger' = CreateAccounts(ledger, id, FlagsOf(w)).ledger
      PROVE  ledger'.rule = ledger.rule /\ ledger'.transfers = ledger.transfers /\ ledger'.pending = ledger.pending
  <2>1. PICK L, flags : L = ledger /\ flags = FlagsOf(w)
    OBVIOUS
  <2>2. IsLedger(L) /\ flags \in Flags
    BY <2>1, FlagsFromPolicy DEF MoneyInv, LedgerInv, FlagsOf
  <2> QED BY <1>2, <2>1, <2>2, AccountIsCreated
<1>3. /\ ledger'.rule = ledger.rule /\ ledger'.transfers = ledger.transfers /\ ledger'.pending = ledger.pending
  <2>1. CASE ledger' = ledger
    BY <2>1
  <2>2. CASE PlanDestination(t)
    <3>1. PICK id, w : ledger' = CreateAccounts(ledger, id, FlagsOf(w)).ledger
      BY <2>2 DEF PlanDestination
    <3> QED BY <1>2, <3>1
  <2>3. CASE StartPrepare(t) /\ ledger' # ledger
    <3>1. PICK id, w : ledger' = CreateAccounts(ledger, id, FlagsOf(w)).ledger
      BY <2>3 DEF StartPrepare, StartSelect
    <3> QED BY <1>2, <3>1
  <2> QED BY <2>1, <2>2, <2>3 DEF SelectToken
<1>4. \E c : /\ Goto(t, c) /\ c.pc # "record"
             /\ c.pc = call[t].pc \/ (c.pc \in {"prepare", "plan", "append"} /\ state[t] = "accepted")
  <2>1. CASE SelectToken(t)
    <3>1. SelectKnows(t, call[t]) /\ call[t].pc \in Selecting
      BY <1>1, <2>1 DEF SelectToken, CallKnows
    <3>2. PICK a, b, d : Goto(t, [call[t] EXCEPT !.todo = a, !.left = b, !.legs = d])
      BY <2>1 DEF SelectToken
    <3>3. PICK c : c = [call[t] EXCEPT !.todo = a, !.left = b, !.legs = d]
      OBVIOUS
    <3>4. c.pc = call[t].pc
      BY <3>1, <3>3 DEF SelectKnows
    <3>5. Goto(t, c) /\ c.pc = call[t].pc /\ c.pc # "record"
      BY <3>1, <3>2, <3>3, <3>4 DEF Selecting
    <3> QED BY <3>5
  <2>2. CASE PlanDestination(t)
    <3>1. PICK a, b : Goto(t, [pc |-> "append", legs |-> a, writes |-> b])
      BY <2>2 DEF PlanDestination
    <3>2. state[t] = "accepted"
      BY <1>1, <2>2 DEF PlanDestination, StandsFor
    <3> QED BY <3>1, <3>2
  <2>3. CASE StartPrepare(t)
    <3>1. \/ \E a, b : Goto(t, [pc |-> "append", legs |-> a, writes |-> b])
          \/ \E a, b : Goto(t, [pc |-> "plan", legs |-> a, writes |-> b])
          \/ \E a, b, d : Goto(t, [pc |-> "prepare", todo |-> a, left |-> b, legs |-> d])
      BY <2>3 DEF StartPrepare, StartSelect
    <3>2. \E c : Goto(t, c) /\ c.pc \in {"prepare", "plan", "append"}
      <4>1. ASSUME NEW a, NEW b, NEW pc \in {"plan", "append"}, Goto(t, [pc |-> pc, legs |-> a, writes |-> b])
            PROVE  \E c : Goto(t, c) /\ c.pc \in {"prepare", "plan", "append"}
        <5>1. PICK c : c = [pc |-> pc, legs |-> a, writes |-> b]
          OBVIOUS
        <5>2. c.pc = pc /\ Goto(t, c)
          BY <4>1, <5>1
        <5> QED BY <5>2
      <4>2. ASSUME NEW a, NEW b, NEW d, Goto(t, [pc |-> "prepare", todo |-> a, left |-> b, legs |-> d])
            PROVE  \E c : Goto(t, c) /\ c.pc \in {"prepare", "plan", "append"}
        <5>1. PICK c : c = [pc |-> "prepare", todo |-> a, left |-> b, legs |-> d]
          OBVIOUS
        <5>2. c.pc = "prepare" /\ Goto(t, c)
          BY <4>2, <5>1
        <5> QED BY <5>2
      <4>3. CASE \E a, b : Goto(t, [pc |-> "append", legs |-> a, writes |-> b])
        BY <4>1, <4>3
      <4>4. CASE \E a, b : Goto(t, [pc |-> "plan", legs |-> a, writes |-> b])
        BY <4>1, <4>4
      <4>5. CASE \E a, b, d : Goto(t, [pc |-> "prepare", todo |-> a, left |-> b, legs |-> d])
        BY <4>2, <4>5
      <4> QED BY <3>1, <4>3, <4>4, <4>5
    <3>3. state[t] = "accepted"
      BY <2>3 DEF StartPrepare
    <3> QED BY <3>2, <3>3
  <2> QED BY <2>1, <2>2, <2>3
<1> QED BY <1>0, <1>1, <1>3, <1>4, DriverStands DEF StandsFor

\* A manifest is recorded before anything of it is submitted.
LEMMA AppendPreparedStands ==
    ASSUME MoneyInv, LogInv, NEW t \in Transfers, AppendPrepared(t)
    PROVE  LogInv'
<1>0. /\ UNCHANGED <<scenario, ledger>> /\ EntriesOf(t) /\ Whole(t) /\ StandsFor(t) /\ OutcomeTrue(t, state[t])
      /\ DOMAIN call = Transfers /\ DOMAIN state = AllTransfers /\ DOMAIN legs = AllTransfers /\ t \in AllTransfers
      /\ Idle.pc = "idle" /\ Saga.pc = "runSaga" /\ IsLedger(ledger)
  BY Stands DEF AppendPrepared, Idle, Saga, MoneyInv, LedgerInv
<1>1. legs[t] = << >> /\ Unsettled(t) /\ state[t] = "accepted"
  BY <1>0 DEF AppendPrepared, StandsFor
<1>2. CASE UNCHANGED <<state, legs>> /\ Goto(t, Idle)
  BY <1>0, <1>1, <1>2, DriverStands
<1>3. CASE /\ state' = [state EXCEPT ![t] = "prepared"] /\ legs' = [legs EXCEPT ![t] = call[t].legs]
           /\ Goto(t, Saga)
  <2>1. /\ call'[t] = Saga /\ state'[t] = "prepared"
        /\ \A u \in Transfers \ {t} : call'[u] = call[u] /\ state'[u] = state[u] /\ legs'[u] = legs[u]
    BY <1>0, <1>3 DEF Goto, AllTransfers
  <2>2. \A i : /\ OpID(t, i) \notin DOMAIN ledger.transfers /\ OpID(t, i) \notin DOMAIN ledger.pending
               /\ PostID(t, i) \notin DOMAIN ledger.transfers /\ VoidID(t, i) \notin DOMAIN ledger.transfers
    <3>1. DOMAIN legs[t] = {}
      BY <1>1
    <3> QED BY <1>0, <1>1, <3>1 DEF EntriesOf, Unsettled, IsLedger
  <2>3. EntriesOf(t)' /\ Whole(t)' /\ Unsettled(t)'
    BY <1>0, <2>2 DEF EntriesOf, Whole, Unsettled
  <2>4. StandsFor(t)'
    BY <1>0, <2>1, <2>3 DEF StandsFor, OutcomeTrue
  <2>5. \A u : SameFor(u)
    BY <1>0, NothingSubmitted
  <2> QED BY <1>0, <2>1, <2>3, <2>4, <2>5, LogMoves
<1> QED BY <1>2, <1>3 DEF AppendPrepared
-----------------------------------------------------------------------------
(* A submission and the entries it leaves.                                   *)

\* The entries that the batch of t under a kind may add.
IdOf(t, kind, i) ==
    IF kind = "PostPending" THEN PostID(t, i) ELSE IF kind = "VoidPending" THEN VoidID(t, i) ELSE OpID(t, i)

\* What one submission of a batch of t changes, entry by entry.
Submitted(t, kind) ==
    /\ ledger'.rule = ledger.rule
    /\ DOMAIN ledger.transfers \subseteq DOMAIN ledger'.transfers
    /\ \A id \in DOMAIN ledger.transfers : ledger'.transfers[id] = ledger.transfers[id]
    /\ \A id \in DOMAIN ledger'.transfers \ DOMAIN ledger.transfers :
          \E i \in DOMAIN legs[t] : /\ id = IdOf(t, kind, i) /\ ledger'.transfers[id] = Batch(t, kind)[i]
                                    /\ Settles(kind) => OpID(t, i) \in DOMAIN ledger.pending
    /\ DOMAIN ledger.pending \subseteq DOMAIN ledger'.pending
    /\ \A id \in DOMAIN ledger'.pending \ DOMAIN ledger.pending :
          ledger'.pending[id] = "open" /\ \E i \in DOMAIN legs[t] : id = OpID(t, i)
    /\ \A id \in DOMAIN ledger.pending :
          \/ /\ ledger'.pending[id] = ledger.pending[id]
             /\ Settles(kind) => \A i \in DOMAIN legs[t] : id = OpID(t, i) =>
                  (IdOf(t, kind, i) \in DOMAIN ledger'.transfers => IdOf(t, kind, i) \in DOMAIN ledger.transfers)
          \/ /\ Settles(kind) /\ ledger.pending[id] = "open" /\ ledger'.pending[id] = SettledAs(kind)
             /\ \E i \in DOMAIN legs[t] : id = OpID(t, i) /\ IdOf(t, kind, i) \in DOMAIN ledger'.transfers

\* submitBatch changes no more than that.
LEMMA SubmissionChanges ==
    ASSUME MoneyInv, NEW t \in AllTransfers, NEW kind \in Kinds,
           ledger' = CreateTransfers(ledger, Batch(t, kind)).ledger
    PROVE  Submitted(t, kind)
<1>1. PICK batch : batch = Batch(t, kind)
  OBVIOUS
<1>2. Extends(ledger', ledger, batch, kind) /\ IsLedger(ledger)
  BY <1>1, SubmissionExtends DEF MoneyInv, LedgerInv
<1>3. /\ DOMAIN batch = DOMAIN legs[t]
      /\ \A i \in DOMAIN legs[t] : /\ batch[i].kind = kind /\ batch[i].id = IdOf(t, kind, i)
                                   /\ Settles(kind) => batch[i].pendingID = OpID(t, i)
  BY <1>1, BatchIs DEF MoneyInv, LegsKnow, IdOf, PostID, VoidID, Settles
<1>4. ledger'.rule = ledger.rule /\ DOMAIN ledger.transfers \subseteq DOMAIN ledger'.transfers
      /\ (\A id \in DOMAIN ledger.transfers : ledger'.transfers[id] = ledger.transfers[id])
      /\ DOMAIN ledger.pending \subseteq DOMAIN ledger'.pending
  BY <1>2 DEF Extends
<1>5. ASSUME NEW id \in DOMAIN ledger'.transfers \ DOMAIN ledger.transfers
      PROVE  \E i \in DOMAIN legs[t] : /\ id = IdOf(t, kind, i) /\ ledger'.transfers[id] = batch[i]
                                       /\ Settles(kind) => OpID(t, i) \in DOMAIN ledger.pending
  BY <1>2, <1>3 DEF Extends
<1>6. ASSUME NEW id \in DOMAIN ledger'.pending \ DOMAIN ledger.pending
      PROVE  ledger'.pending[id] = "open" /\ \E i \in DOMAIN legs[t] : id = OpID(t, i)
  <2>1. kind = "Pending" /\ ledger'.pending[id] = "open" /\ IsLedger(ledger')
    BY <1>2 DEF Extends
  <2>2. id \in DOMAIN ledger'.transfers \ DOMAIN ledger.transfers
    <3>1. id \in DOMAIN ledger'.transfers /\ ledger'.transfers[id].kind = "Pending"
      BY <2>1 DEF IsLedger
    <3> QED BY <1>2, <1>4, <3>1 DEF IsLedger
  <2> QED BY <1>5, <2>1, <2>2 DEF IdOf
<1>7. ASSUME NEW id \in DOMAIN ledger.pending
      PROVE  \/ /\ ledger'.pending[id] = ledger.pending[id]
                /\ Settles(kind) => \A i \in DOMAIN legs[t] : id = OpID(t, i) =>
                     (IdOf(t, kind, i) \in DOMAIN ledger'.transfers => IdOf(t, kind, i) \in DOMAIN ledger.transfers)
             \/ /\ Settles(kind) /\ ledger.pending[id] = "open" /\ ledger'.pending[id] = SettledAs(kind)
                /\ \E i \in DOMAIN legs[t] : id = OpID(t, i) /\ IdOf(t, kind, i) \in DOMAIN ledger'.transfers
  BY <1>2, <1>3 DEF Extends, Settled
<1> QED BY <1>1, <1>4, <1>5, <1>6, <1>7 DEF Submitted

\* It leaves the entries of other Transfers alone, and t's as they should be.
LEMMA SubmissionStands ==
    ASSUME MoneyInv, LogInv, UNCHANGED <<scenario, legs>>, NEW t \in Transfers,
           NEW kind \in {"Regular", "Pending", "PostPending", "VoidPending"},
           ~Settles(kind) => kind = OpKind(t),
           ledger' = CreateTransfers(ledger, Batch(t, kind)).ledger
    PROVE  EntriesOf(t)' /\ \A u : u # t => SameFor(u)
<1>0. EntriesOf(t) /\ t \in AllTransfers /\ kind \in Kinds
  BY Stands DEF Kinds
<1>1. Submitted(t, kind)
  BY <1>0, SubmissionChanges
<1>2. req(t)' = req(t) /\ OpKind(t)' = OpKind(t) /\ \A k : Batch(t, k)' = Batch(t, k)
  BY RequestsStay DEF OpKind, Batch, OpID
<1>3. \A i, j, u : /\ OpID(t, i) = OpID(u, j) => t = u /\ i = j
                   /\ PostID(t, i) = PostID(u, j) => t = u /\ i = j
                   /\ VoidID(t, i) = VoidID(u, j) => t = u /\ i = j
                   /\ OpID(t, i) # PostID(u, j) /\ OpID(t, i) # VoidID(u, j) /\ PostID(t, i) # VoidID(u, j)
                   /\ OpID(u, i) # PostID(t, j) /\ OpID(u, i) # VoidID(t, j) /\ PostID(u, i) # VoidID(t, j)
  BY IdsDiffer
<1>4. ASSUME NEW u, u # t PROVE SameFor(u)
  <2>1. \A i, j : /\ OpID(u, j) # OpID(t, i) /\ OpID(u, j) # IdOf(t, kind, i)
                  /\ PostID(u, j) # IdOf(t, kind, i) /\ VoidID(u, j) # IdOf(t, kind, i)
    BY <1>3, <1>4 DEF IdOf
  <2>2. ASSUME NEW j, NEW id \in {OpID(u, j), PostID(u, j), VoidID(u, j)}
        PROVE  /\ id \in DOMAIN ledger'.transfers <=> id \in DOMAIN ledger.transfers
               /\ id \in DOMAIN ledger.transfers => ledger'.transfers[id] = ledger.transfers[id]
    BY <1>1, <2>1 DEF Submitted
  <2>3. ASSUME NEW j
        PROVE  /\ OpID(u, j) \in DOMAIN ledger'.pending <=> OpID(u, j) \in DOMAIN ledger.pending
               /\ OpID(u, j) \in DOMAIN ledger.pending => ledger'.pending[OpID(u, j)] = ledger.pending[OpID(u, j)]
    BY <1>1, <2>1 DEF Submitted
  <2>4. ledger'.rule = ledger.rule
    BY <1>1 DEF Submitted
  <2> QED BY <2>2, <2>3, <2>4 DEF SameFor
<1>5. ASSUME NEW i PROVE OpID(t, i) \in DOMAIN ledger'.transfers =>
                           i \in DOMAIN legs[t] /\ ledger'.transfers[OpID(t, i)] = Batch(t, OpKind(t))[i]
  BY <1>0, <1>1, <1>3 DEF Submitted, IdOf, Settles, EntriesOf
<1>6. ASSUME NEW i, PostID(t, i) \in DOMAIN ledger'.transfers
      PROVE  /\ i \in DOMAIN legs[t] /\ ledger'.transfers[PostID(t, i)] = Batch(t, "PostPending")[i]
             /\ OpID(t, i) \in DOMAIN ledger'.pending /\ ledger'.pending[OpID(t, i)] = "posted"
  BY <1>0, <1>1, <1>3, <1>6 DEF Submitted, IdOf, Settles, SettledAs, EntriesOf
<1>7. ASSUME NEW i, VoidID(t, i) \in DOMAIN ledger'.transfers
      PROVE  /\ i \in DOMAIN legs[t] /\ ledger'.transfers[VoidID(t, i)] = Batch(t, "VoidPending")[i]
             /\ OpID(t, i) \in DOMAIN ledger'.pending /\ ledger'.pending[OpID(t, i)] = "voided"
  BY <1>0, <1>1, <1>3, <1>7 DEF Submitted, IdOf, Settles, SettledAs, EntriesOf
<1>8. ASSUME NEW i, OpID(t, i) \in DOMAIN ledger'.pending
      PROVE  /\ ledger'.pending[OpID(t, i)] \in {"open", "posted", "voided", "expired"}
             /\ ledger'.pending[OpID(t, i)] = "posted" => PostID(t, i) \in DOMAIN ledger'.transfers
  BY <1>0, <1>1, <1>3, <1>8 DEF Submitted, IdOf, Settles, SettledAs, EntriesOf
<1>9. EntriesOf(t)'
  BY <1>2, <1>5, <1>6, <1>7, <1>8 DEF EntriesOf
<1> QED BY <1>4, <1>9

\* A batch that is refused has left nothing on the ledger before, where the
\* ledger would have found it to exist.
LEMMA RefusedIsAbsent ==
    ASSUME MoneyInv, LogInv, NEW t \in Transfers, NEW kind \in Kinds,
           ~Settles(kind) => kind = OpKind(t), Recognised(t),
           ~CreateTransfers(ledger, Batch(t, kind)).ok
    PROVE  \A i \in DOMAIN legs[t] : IdOf(t, kind, i) \notin DOMAIN ledger.transfers
<1> SUFFICES ASSUME NEW i \in DOMAIN legs[t], IdOf(t, kind, i) \in DOMAIN ledger.transfers
             PROVE  FALSE
  OBVIOUS
<1>0. EntriesOf(t) /\ Whole(t) /\ t \in AllTransfers
  BY Stands
<1>1. PICK batch, L : batch = Batch(t, kind) /\ L = ledger
  OBVIOUS
<1>2. /\ IsBatch(batch) /\ DOMAIN batch = DOMAIN legs[t]
      /\ \A j \in DOMAIN legs[t] : batch[j].id = IdOf(t, kind, j)
  BY <1>0, <1>1, BatchIs DEF MoneyInv, LegsKnow, IdOf, PostID, VoidID, Settles
<1>3. \A j \in DOMAIN legs[t] : IdOf(t, kind, j) \in DOMAIN ledger.transfers
  BY <1>0 DEF Whole, IdOf
<1>4. \A j \in DOMAIN legs[t] : ledger.transfers[IdOf(t, kind, j)] = batch[j]
  BY <1>0, <1>1, <1>3 DEF EntriesOf, IdOf, Settles, Kinds
<1>5. \A j \in DOMAIN batch : batch[j].id \in DOMAIN L.transfers /\ L.transfers[batch[j].id] = batch[j]
  BY <1>1, <1>2, <1>3, <1>4
<1>6. ~ChainBroken(L, batch)
  <2>1. Len(batch) = Len(legs[t])
    BY <1>1 DEF Batch
  <2> QED BY <1>1, <2>1 DEF ChainBroken, Recognised
<1>7. CreateTransfers(L, batch).ok = TRUE
  BY <1>2, <1>5, <1>6, RepeatedBatchExists
<1> QED BY <1>1, <1>7

\* A batch is in as a whole or not at all (linked entries).
LEMMA SubmissionIsWhole ==
    ASSUME MoneyInv, LogInv, UNCHANGED <<scenario, legs>>, NEW t \in Transfers, NEW kind \in Kinds,
           ledger' = CreateTransfers(ledger, Batch(t, kind)).ledger
    PROVE  /\ Whole(t)'
           /\ CreateTransfers(ledger, Batch(t, kind)).ok =>
                 \A i \in DOMAIN legs[t] : IdOf(t, kind, i) \in DOMAIN ledger'.transfers
           /\ ~CreateTransfers(ledger, Batch(t, kind)).ok => ledger' = ledger
           /\ CreateTransfers(ledger, Batch(t, kind)).ok \in BOOLEAN
<1>0. Whole(t) /\ t \in AllTransfers
  BY Stands
<1>1. PICK batch, result : batch = Batch(t, kind) /\ result = CreateTransfers(ledger, batch)
  OBVIOUS
<1>2. /\ result.ok \in BOOLEAN /\ (~result.ok => ledger' = ledger)
      /\ result.ok => \A i \in DOMAIN batch : batch[i].id \in DOMAIN ledger'.transfers
  BY <1>0, <1>1, SubmissionExtends
<1>3. /\ DOMAIN batch = DOMAIN legs[t]
      /\ \A j \in DOMAIN legs[t] : batch[j].id = IdOf(t, kind, j)
  BY <1>0, <1>1, BatchIs DEF MoneyInv, LegsKnow, IdOf, PostID, VoidID, Settles
<1>4. result.ok => \A i \in DOMAIN legs[t] : IdOf(t, kind, i) \in DOMAIN ledger'.transfers
  BY <1>2, <1>3
<1>5. Submitted(t, kind)
  BY <1>0, SubmissionChanges
<1>6. Whole(t)'
  <2>1. CASE ~result.ok
    BY <1>0, <1>2, <2>1 DEF Whole
  <2>2. CASE result.ok
    <3>1. \A i, j : /\ OpID(t, i) # PostID(t, j) /\ OpID(t, i) # VoidID(t, j) /\ PostID(t, i) # VoidID(t, j)
                    /\ (OpID(t, i) = OpID(t, j) \/ PostID(t, i) = PostID(t, j) \/ VoidID(t, i) = VoidID(t, j)) => i = j
      BY IdsDiffer
    <3>2. CASE kind = "PostPending"
      <4>1. \A i \in DOMAIN legs[t] : /\ PostID(t, i) \in DOMAIN ledger'.transfers
                                      /\ OpID(t, i) \in DOMAIN ledger'.transfers <=> OpID(t, i) \in DOMAIN ledger.transfers
                                      /\ VoidID(t, i) \in DOMAIN ledger'.transfers <=> VoidID(t, i) \in DOMAIN ledger.transfers
        BY <1>4, <1>5, <2>2, <3>1, <3>2 DEF Submitted, IdOf
      <4> QED BY <1>0, <4>1 DEF Whole
    <3>3. CASE kind = "VoidPending"
      <4>1. \A i \in DOMAIN legs[t] : /\ VoidID(t, i) \in DOMAIN ledger'.transfers
                                      /\ OpID(t, i) \in DOMAIN ledger'.transfers <=> OpID(t, i) \in DOMAIN ledger.transfers
                                      /\ PostID(t, i) \in DOMAIN ledger'.transfers <=> PostID(t, i) \in DOMAIN ledger.transfers
        BY <1>4, <1>5, <2>2, <3>1, <3>3 DEF Submitted, IdOf
      <4> QED BY <1>0, <4>1 DEF Whole
    <3>4. CASE kind \notin {"PostPending", "VoidPending"}
      <4>1. \A i \in DOMAIN legs[t] : /\ OpID(t, i) \in DOMAIN ledger'.transfers
                                      /\ VoidID(t, i) \in DOMAIN ledger'.transfers <=> VoidID(t, i) \in DOMAIN ledger.transfers
                                      /\ PostID(t, i) \in DOMAIN ledger'.transfers <=> PostID(t, i) \in DOMAIN ledger.transfers
        BY <1>4, <1>5, <2>2, <3>1, <3>4 DEF Submitted, IdOf
      <4> QED BY <1>0, <4>1 DEF Whole
    <3> QED BY <3>2, <3>3, <3>4
  <2> QED BY <1>2, <2>1, <2>2
<1> QED BY <1>1, <1>2, <1>4, <1>6

\* A step that submits a batch of t, given what its driver then stands for.
LEMMA SubmitterStands ==
    ASSUME MoneyInv, LogInv, UNCHANGED <<scenario, legs, state>>, NEW t \in Transfers, NEW kind \in Kinds, NEW c,
           ~Settles(kind) => kind = OpKind(t),
           ledger' = CreateTransfers(ledger, Batch(t, kind)).ledger, Goto(t, c),
           EntriesOf(t)' /\ Whole(t)' => StandsFor(t)'
    PROVE  LogInv'
<1>1. EntriesOf(t)' /\ \A u : u # t => SameFor(u)
  BY SubmissionStands DEF Kinds
<1>2. Whole(t)'
  BY SubmissionIsWhole
<1>3. \A u \in Transfers \ {t} : call'[u] = call[u]
  BY Stands DEF Goto
<1> QED BY <1>1, <1>2, <1>3, LogMoves
\* stage or commit: what it answers is what the batch did.
LEMMA SubmitPreparedStands ==
    ASSUME MoneyInv, LogInv, NEW t \in Transfers, SubmitPrepared(t)
    PROVE  LogInv'
<1> DEFINE kind == OpKind(t)
           result == CreateTransfers(ledger, Batch(t, kind))
           outcome == CASE ~result.ok -> "failed"
                        [] result.ok /\ req(t).stage -> "staged"
                        [] OTHER -> "committed"
           recorded == [pc |-> "record", outcome |-> outcome]
<1>0. UNCHANGED <<scenario, legs, state>> /\ EntriesOf(t) /\ StandsFor(t) /\ DOMAIN call = Transfers /\ t \in AllTransfers
  BY Stands DEF SubmitPrepared
<1>1. ledger' = result.ledger /\ (Goto(t, Idle) \/ Goto(t, recorded)) /\ state[t] \in {"prepared", "withdrawing"}
  BY DEF SubmitPrepared, OpKind
<1>2. kind \in Kinds /\ ~Settles(kind) /\ \A i : IdOf(t, kind, i) = OpID(t, i)
  BY DEF Kinds, OpKind, Settles, IdOf
<1>3. /\ result.ok \in BOOLEAN /\ (~result.ok => ledger' = ledger)
      /\ result.ok => \A i \in DOMAIN legs[t] : OpID(t, i) \in DOMAIN ledger'.transfers
  BY <1>0, <1>1, <1>2, SubmissionIsWhole
<1>4. ~result.ok /\ Recognised(t) => \A i \in DOMAIN legs[t] : OpID(t, i) \notin DOMAIN ledger.transfers
  BY <1>2, RefusedIsAbsent
<1>5. Submitted(t, kind)
  BY <1>0, <1>1, <1>2, SubmissionChanges
<1> HIDE DEF result, kind
<1>6. (~result.ok => outcome = "failed") /\ (result.ok /\ req(t).stage => outcome = "staged")
      /\ (result.ok /\ ~req(t).stage => outcome = "committed")
  BY <1>3
<1> HIDE DEF outcome
<1>7. PICK o : o = outcome /\ recorded.pc = "record" /\ recorded.outcome = o /\ Idle.pc = "idle"
  BY DEF Idle
<1> HIDE DEF recorded
<1>8. PICK c : Goto(t, c) /\ call'[t] = c /\ (c.pc = "idle" \/ (c.pc = "record" /\ c.outcome = o))
  BY <1>0, <1>1, <1>7 DEF Goto
<1>9. req(t)' = req(t)
  BY <1>0, RequestsStay
<1>10. Unsettled(t)'
  <2>1. Unsettled(t)
    BY <1>0, <1>1 DEF StandsFor
  <2>2. \A i, j : OpID(t, i) # PostID(t, j) /\ OpID(t, i) # VoidID(t, j)
    BY IdsDiffer
  <2> QED BY <1>2, <1>5, <2>1, <2>2 DEF Submitted, Unsettled
<1>11. OutcomeTrue(t, o)'
  <2>1. CASE ~result.ok
    <3>1. (Recognised(t)' => Recognised(t)) /\ (Recognised(t) => \A i \in DOMAIN legs'[t] : ~Moved(t, i)')
      BY <1>0, <1>3, <1>4, <2>1 DEF Recognised, Moved
    <3> QED BY <1>6, <1>7, <2>1, <3>1 DEF OutcomeTrue
  <2>2. CASE result.ok
    BY <1>0, <1>3, <1>6, <1>7, <1>9, <2>2 DEF OutcomeTrue, Moved
  <2> QED BY <1>3, <2>1, <2>2
<1>12. StandsFor(t)'
  <2>1. OutcomeTrue(t, "prepared")' /\ OutcomeTrue(t, "withdrawing")'
    BY DEF OutcomeTrue
  <2> QED BY <1>0, <1>1, <1>8, <1>10, <1>11, <2>1 DEF StandsFor
<1> QED BY <1>0, <1>1, <1>2, <1>8, <1>12, SubmitterStands DEF result, kind

\* commit from Pending.
LEMMA PostStands ==
    ASSUME MoneyInv, LogInv, NEW t \in Transfers, PostPendingTransfer(t)
    PROVE  LogInv'
<1> DEFINE kind == "PostPending"
           result == CreateTransfers(ledger, Batch(t, kind))
           outcome == IF result.ok THEN "committed" ELSE "failed"
<1>0. UNCHANGED <<scenario, legs, state>> /\ EntriesOf(t) /\ Whole(t) /\ StandsFor(t) /\ DOMAIN call = Transfers
      /\ t \in AllTransfers /\ LedgerInv /\ MoneyInv'
  BY Stands, SubmitKeeps DEF PostPendingTransfer, MoneyInv
<1>1. ledger' = result.ledger /\ Goto(t, [pc |-> "record", outcome |-> outcome]) /\ state[t] = "pending"
  BY DEF PostPendingTransfer
<1>2. kind \in Kinds /\ Settles(kind) /\ \A i : IdOf(t, kind, i) = PostID(t, i)
  BY DEF Kinds, Settles, IdOf
<1>3. /\ result.ok \in BOOLEAN /\ (~result.ok => ledger' = ledger)
      /\ result.ok => \A i \in DOMAIN legs[t] : PostID(t, i) \in DOMAIN ledger'.transfers
  BY <1>0, <1>1, <1>2, SubmissionIsWhole
<1>4. ~result.ok /\ Recognised(t) => \A i \in DOMAIN legs[t] : PostID(t, i) \notin DOMAIN ledger.transfers
  BY <1>2, RefusedIsAbsent
<1>5. req(t).stage /\ req(t)' = req(t)
  BY <1>0, <1>1, RequestsStay DEF StandsFor, OutcomeTrue
<1>6. EntriesOf(t)'
  BY <1>0, <1>1, <1>2, SubmissionStands DEF Kinds
<1> HIDE DEF result, kind
<1>8. outcome \in {"committed", "failed"} /\ (outcome = "committed" <=> result.ok)
  BY <1>3
<1> HIDE DEF outcome
<1>9. PICK c : c = [pc |-> "record", outcome |-> outcome]
  OBVIOUS
<1>10. c.pc = "record" /\ c.outcome = outcome /\ Goto(t, c) /\ call'[t] = c
  BY <1>0, <1>1, <1>9 DEF Goto
<1>11. OutcomeTrue(t, c.outcome)'
  <2>1. CASE ~result.ok
    <3>1. (Recognised(t)' => Recognised(t)) /\ (Recognised(t) => \A i \in DOMAIN legs'[t] : ~Moved(t, i)')
      BY <1>0, <1>3, <1>4, <1>5, <2>1 DEF Recognised, Moved
    <3> QED BY <1>8, <1>10, <2>1, <3>1 DEF OutcomeTrue
  <2>2. CASE result.ok
    <3>1. \A i \in DOMAIN legs'[t] : Moved(t, i)'
      BY <1>0, <1>3, <1>6, <2>2 DEF EntriesOf, Moved, MoneyInv, LedgerInv, IsLedger
    <3> QED BY <1>8, <1>10, <2>2, <3>1 DEF OutcomeTrue
  <2> QED BY <1>3, <2>1, <2>2
<1>12. StandsFor(t)'
  <2>1. OutcomeTrue(t, "pending")'
    BY <1>5 DEF OutcomeTrue
  <2> QED BY <1>0, <1>1, <1>10, <1>11, <2>1 DEF StandsFor
<1> QED BY <1>0, <1>1, <1>2, <1>10, <1>12, SubmitterStands DEF result, kind

\* CancelStagedTransfer: a void that is refused records nothing.
LEMMA CancelStands ==
    ASSUME MoneyInv, LogInv, NEW t \in Transfers, CancelStagedTransfer(t)
    PROVE  LogInv'
<1> DEFINE kind == "VoidPending"
           result == CreateTransfers(ledger, Batch(t, kind))
           recorded == [pc |-> "record", outcome |-> "cancelled"]
           c == IF result.ok THEN recorded ELSE Idle
<1>0. UNCHANGED <<scenario, legs, state>> /\ StandsFor(t) /\ DOMAIN call = Transfers /\ t \in AllTransfers
  BY Stands DEF CancelStagedTransfer
<1>1. ledger' = result.ledger /\ Goto(t, c) /\ state[t] \in {"staged", "pending"}
  BY DEF CancelStagedTransfer
<1>2. kind \in Kinds /\ Settles(kind) /\ \A i : IdOf(t, kind, i) = VoidID(t, i)
  BY DEF Kinds, Settles, IdOf
<1>3. /\ result.ok \in BOOLEAN
      /\ result.ok => \A i \in DOMAIN legs[t] : VoidID(t, i) \in DOMAIN ledger'.transfers
  BY <1>0, <1>1, <1>2, SubmissionIsWhole
<1>4. recorded.pc = "record" /\ recorded.outcome = "cancelled" /\ Idle.pc = "idle"
  BY DEF Idle
<1> HIDE DEF result, kind, recorded
<1>5. c.pc \in {"record", "idle"} /\ (c.pc = "record" => result.ok /\ c.outcome = "cancelled")
  BY <1>3, <1>4
<1> HIDE DEF c
<1>6. call'[t] = c /\ req(t)' = req(t) /\ req(t).stage
  BY <1>0, <1>1, RequestsStay DEF Goto, StandsFor, OutcomeTrue
<1>7. OutcomeTrue(t, "cancelled")' \/ ~result.ok
  BY <1>0, <1>3 DEF OutcomeTrue
<1>8. StandsFor(t)'
  <2>1. OutcomeTrue(t, state[t])'
    BY <1>0, <1>1, <1>6 DEF OutcomeTrue
  <2> QED BY <1>0, <1>1, <1>5, <1>6, <1>7, <2>1 DEF StandsFor
<1> QED BY <1>0, <1>1, <1>2, <1>8, SubmitterStands DEF result, kind

\* Confirming, and cancelling before anything is reserved, change the record
\* only; a Transaction that closes, a Mint call
\* and the staging timeout leave the entries of every Transfer alone.
LEMMA SurroundingsStand ==
    ASSUME MoneyInv, LogInv,
           \/ \E t \in Transfers : CancelAcceptedTransfer(t) \/ ConfirmStagedTransfer(t)
           \/ \E k \in Mints : MintStep(k)
           \/ \E x \in Transactions : CloseTransaction(x)
           \/ \E id \in DOMAIN ledger.pending : Expire(id)
           \/ UNCHANGED vars
    PROVE  LogInv'
<1>0. UNCHANGED <<scenario, legs, call>> /\ IsLedger(ledger)
  BY DEF CancelAcceptedTransfer, ConfirmStagedTransfer, MintStep, Mint, MintUnopened, MintAccount, AppendMint, MintConverge, MintCrash,
         CloseTransaction, Expire, vars, MoneyInv, LedgerInv
<1>1. \A u : SameFor(u)
  <2>1. CASE ledger' = ledger
    BY <2>1, NothingSubmitted
  <2>2. CASE \E k \in Mints : MintAccount(k)
    <3>1. PICK id, w : ledger' = CreateAccounts(ledger, id, FlagsOf(w)).ledger
      BY <2>2 DEF MintAccount
    <3>2. PICK L, flags : L = ledger /\ flags = FlagsOf(w)
      OBVIOUS
    <3>3. flags \in Flags
      BY <3>2, FlagsFromPolicy DEF FlagsOf
    <3>4. ledger'.rule = ledger.rule /\ ledger'.transfers = ledger.transfers /\ ledger'.pending = ledger.pending
      BY <1>0, <3>1, <3>2, <3>3, AccountIsCreated
    <3> QED BY <3>4, NothingSubmitted
  <2>3. CASE \E id \in DOMAIN ledger.pending : Expire(id)
    <3>1. PICK id \in DOMAIN ledger.pending : Expire(id)
      BY <2>3
    <3>2. PICK L : L = ledger
      OBVIOUS
    <3>3. ledger' = ExpirePending(L, id) /\ L.pending[id] = "open"
      BY <3>1, <3>2 DEF Expire
    <3>4. /\ ledger'.rule = ledger.rule /\ ledger'.transfers = ledger.transfers
          /\ DOMAIN ledger'.pending = DOMAIN ledger.pending /\ ledger'.pending[id] = "expired"
          /\ \A x \in DOMAIN ledger.pending : x # id => ledger'.pending[x] = ledger.pending[x]
      BY <1>0, <3>1, <3>2, <3>3, ReservationExpires
    <3> QED BY <3>2, <3>3, <3>4 DEF SameFor
  <2> QED BY <2>1, <2>2, <2>3 DEF CancelAcceptedTransfer, ConfirmStagedTransfer, MintStep, Mint, MintUnopened, MintAccount,
         AppendMint, MintConverge, MintCrash, CloseTransaction, Expire, vars
<1>2. CASE state' = state
  <2>1. PICK t : t \notin Transfers
    BY NoSetContainsEverything
  <2> QED BY <1>0, <1>1, <1>2, <2>1, LogMoves
<1>3. CASE \E t \in Transfers : ConfirmStagedTransfer(t)
  <2>1. PICK t \in Transfers : ConfirmStagedTransfer(t)
    BY <1>3
  <2>2. EntriesOf(t) /\ Whole(t) /\ StandsFor(t) /\ OutcomeTrue(t, state[t]) /\ DOMAIN state = AllTransfers
        /\ t \in AllTransfers /\ Transfers \subseteq AllTransfers
    BY Stands DEF AllTransfers
  <2>3. /\ state[t] = "staged" /\ state'[t] = "pending" /\ call[t].pc = "idle"
        /\ \A u \in Transfers \ {t} : state'[u] = state[u]
    BY <2>1, <2>2 DEF ConfirmStagedTransfer, Idle
  <2>4. EntriesOf(t)' /\ Whole(t)' /\ req(t)' = req(t)
    BY <1>0, <1>1, <2>2, EntriesStay, RequestsStay
  <2>5. StandsFor(t)'
    BY <1>0, <2>2, <2>3, <2>4 DEF StandsFor, OutcomeTrue
  <2> QED BY <1>0, <1>1, <2>3, <2>4, <2>5, LogMoves
<1>4. CASE \E t \in Transfers : CancelAcceptedTransfer(t)
  <2>1. PICK t \in Transfers : CancelAcceptedTransfer(t)
    BY <1>4
  <2>2. EntriesOf(t) /\ Whole(t) /\ StandsFor(t) /\ DOMAIN state = AllTransfers
        /\ t \in AllTransfers /\ Transfers \subseteq AllTransfers
    BY Stands DEF AllTransfers
  <2>3. /\ \/ state[t] = "accepted" /\ state'[t] = "abandoned"
           \/ state[t] \in {"prepared", "withdrawing"} /\ state'[t] \in {"withdrawing", "withdrawn"}
        /\ call[t].pc = "idle" /\ \A u \in Transfers \ {t} : state'[u] = state[u]
    BY <2>1, <2>2 DEF CancelAcceptedTransfer, Idle
  <2>4. EntriesOf(t)' /\ Whole(t)' /\ (Unsettled(t) => Unsettled(t)')
    BY <1>0, <1>1, <2>2, EntriesStay
  <2>5. StandsFor(t)'
    BY <1>0, <2>2, <2>3, <2>4 DEF StandsFor, OutcomeTrue
  <2> QED BY <1>0, <1>1, <2>3, <2>4, <2>5, LogMoves
<1> QED BY <1>2, <1>3, <1>4 DEF MintStep, Mint, MintUnopened, MintAccount, AppendMint, MintConverge, MintCrash,
         CloseTransaction, Expire, vars

\* Every step keeps it.
LEMMA LogInvNext == ASSUME MoneyInv, LogInv, [Next]_vars PROVE LogInv'
<1>1. ASSUME NEW t \in Transfers, DriverStep(t) PROVE LogInv'
  BY <1>1, DecisionsStand, PreparationsStand, AppendPreparedStands, SubmitPreparedStands, PostStands, CancelStands,
     SurroundingsStand DEF DriverStep
<1> QED BY <1>1, SurroundingsStand DEF Next

\* Nothing of a Transfer that was not requested yet is on the ledger.
LEMMA LogInvInit == ASSUME Init PROVE LogInv
<1>1. PICK s \in Scenarios : s = scenario
  BY DEF Init
<1>2. IsFunded(ledger, s)
  BY <1>1, FundedLedgerIs DEF Init
<1> SUFFICES ASSUME NEW t \in Transfers PROVE EntriesOf(t) /\ Whole(t) /\ StandsFor(t)
  BY DEF LogInv
<1>3. t \in AllTransfers /\ t \notin Funded
  BY MoneyAssumption DEF AllTransfers
<1>4. state[t] = "none" /\ legs[t] = << >> /\ call[t].pc = "idle"
  BY <1>3 DEF Init, Idle
<1>5. \A i : /\ OpID(t, i) \notin DOMAIN ledger.transfers /\ OpID(t, i) \notin DOMAIN ledger.pending
             /\ PostID(t, i) \notin DOMAIN ledger.transfers /\ VoidID(t, i) \notin DOMAIN ledger.transfers
  <2>1. ASSUME NEW i, NEW u \in Funded, NEW j
        PROVE  OpID(t, i) # OpID(u, j) /\ PostID(t, i) # OpID(u, j) /\ VoidID(t, i) # OpID(u, j)
    BY <1>3, IdsDiffer
  <2> QED BY <1>2, <2>1 DEF IsFunded
<1>6. DOMAIN legs[t] = {}
  BY <1>4
<1> QED BY <1>4, <1>5, <1>6 DEF EntriesOf, Whole, StandsFor, Unsettled, OutcomeTrue

\* The invariant of the event log holds of every behaviour.
THEOREM AlwaysLogInv == Spec => []LogInv
<1>1. Init => LogInv
  BY LogInvInit
<1>2. MoneyInv /\ LogInv /\ [Next]_vars => LogInv'
  BY LogInvNext
<1> QED BY <1>1, <1>2, AlwaysMoneyInv, PTL DEF Spec

\* A leg is posted exactly when its entries say so.
LEMMA PostedIsMoved ==
    ASSUME MoneyInv, LogInv, NEW t \in Transfers, NEW i \in DOMAIN legs[t]
    PROVE  LegPosted(t, i) <=> Moved(t, i)
<1>0. EntriesOf(t) /\ t \in AllTransfers /\ IsLedger(ledger)
  BY Stands DEF MoneyInv, LedgerInv
<1>1. CASE OpID(t, i) \notin DOMAIN ledger.transfers
  BY <1>1 DEF LegPosted, Moved
<1>2. CASE OpID(t, i) \in DOMAIN ledger.transfers
  <2>1. OpKind(t) \in Kinds
    BY DEF OpKind, Kinds
  <2>2. ledger.transfers[OpID(t, i)].kind = OpKind(t)
    BY <1>0, <1>2, <2>1, BatchIs DEF EntriesOf, MoneyInv, LegsKnow
  <2>3. CASE req(t).stage
    BY <1>0, <1>2, <2>2, <2>3 DEF LegPosted, Moved, OpKind, EntriesOf, IsLedger
  <2>4. CASE ~req(t).stage
    BY <1>2, <2>2, <2>4 DEF LegPosted, Moved, OpKind
  <2> QED BY <2>3, <2>4
<1> QED BY <1>1, <1>2

\* A Transfer on record as committed has moved all of its legs, one that was
\* rejected or whose reservations were cancelled none, and it holds none of
\* them; one on record as failed none, where the ledger recognises a replayed
\* batch; and legs are posted together, whatever happens between a submission
\* and its record: crashes, repeated calls, timeouts, cancellations
\* (submitBatch, compensate, cancelStaged, appendSagaStep).
THEOREM AlwaysLogMatchesLedger == Spec => []LogMatchesLedger
<1>1. MoneyInv /\ LogInv => LogMatchesLedger
  <2> SUFFICES ASSUME MoneyInv, LogInv, NEW t \in Transfers
               PROVE  /\ state[t] = "committed" => \A i \in DOMAIN legs[t] : LegPosted(t, i)
                      /\ \/ state[t] \in {"cancelled", "rejected"}
                         \/ state[t] = "failed" /\ Recognised(t)
                         => \A i \in DOMAIN legs[t] : ~LegPosted(t, i)
                      /\ state[t] = "cancelled" => \A i \in DOMAIN legs[t] : ~LegReserved(t, i)
                      /\ \A i, j \in DOMAIN legs[t] : LegPosted(t, i) => LegPosted(t, j)
    BY DEF LogMatchesLedger
  <2>1. EntriesOf(t) /\ Whole(t) /\ StandsFor(t) /\ OutcomeTrue(t, state[t]) /\ IsLedger(ledger)
    BY Stands DEF MoneyInv, LedgerInv
  <2>2. \A i \in DOMAIN legs[t] : LegPosted(t, i) <=> Moved(t, i)
    BY PostedIsMoved
  <2>3. \A i, j \in DOMAIN legs[t] : Moved(t, i) => Moved(t, j)
    BY <2>1 DEF Whole, Moved
  <2>4. state[t] = "committed" => \A i \in DOMAIN legs[t] : Moved(t, i)
    BY <2>1 DEF OutcomeTrue
  <2>5. state[t] = "failed" /\ Recognised(t) => \A i \in DOMAIN legs[t] : ~Moved(t, i)
    BY <2>1 DEF OutcomeTrue
  <2>6. state[t] = "rejected" => \A i \in DOMAIN legs[t] : ~Moved(t, i)
    BY <2>1 DEF StandsFor
  <2>7. ASSUME state[t] = "cancelled", NEW i \in DOMAIN legs[t]
        PROVE  ~Moved(t, i) /\ ~LegReserved(t, i)
    <3>1. OpID(t, i) \in DOMAIN ledger.pending /\ ledger.pending[OpID(t, i)] = "voided"
      BY <2>1, <2>7 DEF OutcomeTrue, EntriesOf
    <3>2. ledger.transfers[OpID(t, i)].kind = "Pending"
      BY <2>1, <3>1 DEF IsLedger
    <3>3. ~LegPosted(t, i)
      BY <3>1, <3>2 DEF LegPosted
    <3> QED BY <2>2, <3>1, <3>3 DEF LegReserved
  <2> QED BY <2>2, <2>3, <2>4, <2>5, <2>6, <2>7
<1> QED BY <1>1, AlwaysMoneyInv, AlwaysLogInv, PTL

\* Under TigerBeetle's rule, open reservations can be posted and can be voided,
\* however many Transfers compete for the Tokens: neither batch is ever refused
\* (commit from Pending, cancelStaged).  The limits hold in every reachable
\* ledger, and a settlement only moves what they already counted.
THEOREM AlwaysStagedFundsStayReserved == Spec => []StagedFundsStayReserved
<1>1. MoneyInv /\ LogInv => StagedFundsStayReserved
  <2> SUFFICES ASSUME MoneyInv, LogInv, NEW t \in Transfers, ledger.rule = "tigerbeetle",
                      \A i \in DOMAIN legs[t] : LegReserved(t, i), NEW kind \in {"PostPending", "VoidPending"}
               PROVE  CreateTransfers(ledger, Batch(t, kind)).ok
    BY DEF StagedFundsStayReserved
  <2>0. EntriesOf(t) /\ t \in AllTransfers /\ LedgerInv /\ kind \in Kinds /\ Settles(kind)
    BY Stands DEF MoneyInv, Kinds, Settles
  <2>1. PICK batch, L : batch = Batch(t, kind) /\ L = ledger
    OBVIOUS
  <2>2. /\ IsBatch(batch) /\ DOMAIN batch = DOMAIN legs[t]
        /\ \A i \in DOMAIN legs[t] :
              /\ batch[i].kind = kind /\ batch[i].id = IdOf(t, kind, i) /\ batch[i].pendingID = OpID(t, i)
              /\ batch[i].debit = legs[t][i].source /\ batch[i].credit = legs[t][i].dest
              /\ batch[i].amount = legs[t][i].amount
    BY <2>0, <2>1, BatchIs DEF MoneyInv, LegsKnow, IdOf, PostID, VoidID
  <2>3. PICK op \in Kinds : op = OpKind(t)
    BY DEF Kinds, OpKind
  <2>4. PICK stage : stage = Batch(t, op)
    OBVIOUS
  <2>5. \A i \in DOMAIN legs[t] :
              /\ stage[i].debit = legs[t][i].source /\ stage[i].credit = legs[t][i].dest
              /\ stage[i].amount = legs[t][i].amount
    BY <2>0, <2>3, <2>4, BatchIs DEF MoneyInv, LegsKnow
  <2>6. \A i \in DOMAIN legs[t] :
           /\ OpID(t, i) \in DOMAIN ledger.pending /\ ledger.pending[OpID(t, i)] = "open"
           /\ ledger.transfers[OpID(t, i)] = stage[i]
    BY <2>0, <2>3, <2>4 DEF LegReserved, EntriesOf, LedgerInv, IsLedger
  <2>7. \A i \in DOMAIN legs[t] : IdOf(t, kind, i) \notin DOMAIN ledger.transfers
    BY <2>0, <2>6 DEF EntriesOf, IdOf
  <2>8. \A i \in DOMAIN batch : /\ Settles(batch[i].kind)
                                /\ batch[i].id \notin DOMAIN L.transfers /\ PendingMatches(L, batch[i])
    BY <2>0, <2>1, <2>2, <2>5, <2>6, <2>7 DEF PendingMatches
  <2>9. \A i, j \in DOMAIN batch : batch[i].pendingID = batch[j].pendingID => i = j
    BY <2>2, IdsDiffer
  <2>10. IsLedger(L) /\ WithinLimits(L) /\ L.rule = "tigerbeetle"
    BY <2>0, <2>1 DEF LedgerInv
  <2>11. CreateTransfers(L, batch).ok = TRUE
    BY <2>2, <2>8, <2>9, <2>10, SettlementsAreAccepted
  <2> QED BY <2>1, <2>11
<1> QED BY <1>1, AlwaysMoneyInv, AlwaysLogInv, PTL
-----------------------------------------------------------------------------
(* The manifest and the request.                                             *)

\* Entry n of the source Wallet's stream mints Token k.
Lists(t, k, n) == n \in DOMAIN listing[req(t).from] /\ listing[req(t).from][n].token = k

\* The legs take existing Tokens of the source Wallet in mint order, those
\* before every place of todo.
InMintOrder(t, ls, todo) ==
    \E p \in [DOMAIN ls -> DOMAIN listing[req(t).from]] :
        /\ \A i \in DOMAIN ls : Lists(t, ls[i].source, p[i])
        /\ \A i \in DOMAIN ls : i > 1 => p[i - 1] < p[i]
        /\ \A i \in DOMAIN ls : \A m \in todo : p[i] < m

\* The legs bring what the request asks for, but for what is left.
BringsAllBut(t, ls, left) ==
    /\ Total(ls) \in Nat /\ Total(ls) + left = req(t).amount
    /\ \A i \in DOMAIN ls : ls[i].amount > 0

\* The one leg of mint_source takes a Token that is about to be minted.
FromMint(t, ls, writes) ==
    /\ Len(ls) = 1
    /\ \E x \in writes : x.token = ls[1].source /\ x.wallet = req(t).from

\* One planned Token of the full amount receives all the legs.
IntoMint(t, ls, writes) ==
    \E x \in writes :
        /\ x.wallet = req(t).to /\ x.capacity = req(t).amount
        /\ \A i \in DOMAIN ls : ls[i].dest = x.token

\* ... and once it is minted:
IntoToken(t, ls) ==
    \E d \in DOMAIN minted :
        /\ minted[d] = [wallet |-> req(t).to, capacity |-> req(t).amount]
        /\ \A i \in DOMAIN ls : ls[i].dest = d

Sourced(t, c) == FromMint(t, c.legs, c.writes) \/ InMintOrder(t, c.legs, {})

CallCovers(t) ==
    LET c == call[t] IN
    /\ c.pc \in Selecting => BringsAllBut(t, c.legs, c.left) /\ InMintOrder(t, c.legs, c.todo)
    /\ c.pc = "plan" => BringsAllBut(t, c.legs, 0) /\ Sourced(t, c)
    /\ c.pc = "append" /\ req(t).kind = "forward" =>
          BringsAllBut(t, c.legs, 0) /\ Sourced(t, c) /\ IntoMint(t, c.legs, c.writes)

LegsCover(t) ==
    legs[t] # << >> /\ req(t).kind = "forward" =>
        BringsAllBut(t, legs[t], 0) /\ InMintOrder(t, legs[t], {}) /\ IntoToken(t, legs[t])

CoverInv == \A t \in Transfers : CallCovers(t) /\ LegsCover(t)

\* The sum of the first N amounts.
IsSumOf(f, ls, N) == f = [n \in 0..N |-> IF n = 0 THEN 0 ELSE f[n - 1] + ls[n].amount]

\* The recursion of Total defines a function.
LEMMA SumExists ==
    ASSUME NEW ls
    PROVE  \A N \in Nat : \E f : IsSumOf(f, ls, N)
<1> DEFINE S == {N \in Nat : \E f : IsSumOf(f, ls, N)}
           next(x, n) == x + ls[n].amount
<1>1. 0 \in S
  <2> DEFINE f == [n \in 0..0 |-> 0]
  <2>0. 0..0 = {0}
    OBVIOUS
  <2>1. f = [n \in 0..0 |-> IF n = 0 THEN 0 ELSE next(f[n - 1], n)]
    <3> HIDE DEF next
    <3> QED BY <2>0
  <2>2. IsSumOf(f, ls, 0)
    BY <2>1 DEF IsSumOf
  <2> QED BY <2>2
<1>2. ASSUME NEW N \in Nat, N \in S PROVE N + 1 \in S
  <2>1. PICK f : IsSumOf(f, ls, N)
    BY <1>2
  <2> DEFINE g == [n \in 0..(N + 1) |-> IF n = 0 THEN 0 ELSE next(f[n - 1], n)]
  <2>2. ASSUME NEW n \in 0..N PROVE g[n] = f[n]
    <3>1. f[n] = IF n = 0 THEN 0 ELSE next(f[n - 1], n)
      BY <2>1, Zenon DEF IsSumOf
    <3>2. n \in 0..(N + 1)
      OBVIOUS
    <3> HIDE DEF next
    <3> QED BY <3>1, <3>2
  <2>3. \A n \in 0..(N + 1) : n # 0 => n - 1 \in 0..N
    OBVIOUS
  <2>4. g = [n \in 0..(N + 1) |-> IF n = 0 THEN 0 ELSE next(g[n - 1], n)]
    <3> HIDE DEF next
    <3> QED BY <2>2, <2>3
  <2>5. IsSumOf(g, ls, N + 1)
    BY <2>4 DEF IsSumOf
  <2> QED BY <2>5
<1> HIDE DEF S
<1>3. Nat \subseteq S
  BY <1>1, <1>2, SetInduction
<1> QED BY <1>3 DEF S

\* A sum starts at 0 and adds one amount after the other.
LEMMA SumIs ==
    ASSUME NEW ls, NEW N \in Nat, NEW f, IsSumOf(f, ls, N)
    PROVE  f[0] = 0 /\ \A n \in Nat : n + 1 <= N => f[n + 1] = f[n] + ls[n + 1].amount
<1>1. \A n \in 0..N : f[n] = IF n = 0 THEN 0 ELSE f[n - 1] + ls[n].amount
  BY Zenon DEF IsSumOf
<1>2. 0 \in 0..N
  OBVIOUS
<1>3. ASSUME NEW n \in Nat, n + 1 <= N PROVE f[n + 1] = f[n] + ls[n + 1].amount
  <2>1. n + 1 \in 0..N /\ n + 1 # 0 /\ (n + 1) - 1 = n
    BY <1>3
  <2>2. f[n + 1] = f[(n + 1) - 1] + ls[n + 1].amount
    BY <1>1, <2>1, Zenon
  <2> QED BY <2>1, <2>2
<1> QED BY <1>1, <1>2, <1>3

\* Equal amounts have equal sums.
LEMMA SumsAgree ==
    ASSUME NEW a, NEW b, NEW M \in Nat, NEW N \in Nat, NEW f, NEW g, IsSumOf(f, a, M), IsSumOf(g, b, N),
           NEW K \in Nat, K <= M, K <= N, \A i \in 1..K : a[i].amount = b[i].amount
    PROVE  f[K] = g[K]
<1> DEFINE S == {n \in Nat : n <= K => f[n] = g[n]}
<1>1. 0 \in S
  BY SumIs
<1>2. ASSUME NEW n \in Nat, n \in S PROVE n + 1 \in S
  <2> SUFFICES ASSUME n + 1 <= K PROVE f[n + 1] = g[n + 1]
    OBVIOUS
  <2>1. n + 1 \in 1..K /\ n + 1 <= M /\ n + 1 <= N /\ f[n] = g[n]
    BY <1>2
  <2>2. f[n + 1] = f[n] + a[n + 1].amount /\ g[n + 1] = g[n] + b[n + 1].amount
    BY <2>1, SumIs
  <2> QED BY <2>1, <2>2
<1> HIDE DEF S
<1>3. Nat \subseteq S
  BY <1>1, <1>2, SetInduction
<1> QED BY <1>3 DEF S

\* What Total computes.
LEMMA TotalIs ==
    ASSUME NEW ls, Len(ls) \in Nat
    PROVE  \E f : IsSumOf(f, ls, Len(ls)) /\ Total(ls) = f[Len(ls)]
<1> DEFINE N == Len(ls)
           F == CHOOSE f : IsSumOf(f, ls, N)
<1>1. IsSumOf(F, ls, N)
  BY SumExists, Zenon
<1>2. Total(ls) = F[N]
  BY Zenon DEF Total, IsSumOf
<1> QED BY <1>1, <1>2

\* Total depends on the amounts only ...
LEMMA TotalsAgree ==
    ASSUME NEW a, NEW b, Len(a) \in Nat, Len(b) = Len(a), \A i \in 1..Len(a) : a[i].amount = b[i].amount
    PROVE  Total(a) = Total(b)
<1>1. PICK N \in Nat : N = Len(a)
  OBVIOUS
<1>2. PICK f : IsSumOf(f, a, N) /\ Total(a) = f[N]
  BY <1>1, TotalIs
<1>3. PICK g : IsSumOf(g, b, N) /\ Total(b) = g[N]
  BY <1>1, TotalIs
<1>4. \A i \in 1..N : a[i].amount = b[i].amount
  BY <1>1
<1>5. N <= N /\ IsSumOf(f, a, N) /\ IsSumOf(g, b, N)
  BY <1>2, <1>3
<1>6. \A K \in Nat : K <= N => f[K] = g[K]
  <2> SUFFICES ASSUME NEW K \in Nat, K <= N PROVE f[K] = g[K]
    OBVIOUS
  <2>1. \A i \in 1..K : a[i].amount = b[i].amount
    BY <1>4
  <2> QED BY ONLY N \in Nat, K \in Nat, K <= N, <1>5, <2>1, SumsAgree
<1> QED BY <1>2, <1>3, <1>5, <1>6

\* ... is 0 of no legs, and grows by the amount of every leg that is appended.
LEMMA TotalGrows ==
    ASSUME NEW R, NEW ls \in Seq(R), NEW leg \in R
    PROVE  Total(<< >>) = 0 /\ Total(Append(ls, leg)) = Total(ls) + leg.amount
<1>1. Total(<< >>) = 0
  <2>1. PICK none : none = << >> /\ Len(none) = 0
    OBVIOUS
  <2>2. PICK f : IsSumOf(f, none, 0) /\ Total(none) = f[0]
    BY <2>1, TotalIs
  <2>3. f[0] = 0
    BY <2>2, SumIs, 0 \in Nat
  <2> QED BY <2>1, <2>2, <2>3
<1>2. PICK new : new = Append(ls, leg)
  OBVIOUS
<1>3. PICK N \in Nat : N = Len(ls) /\ Len(new) = N + 1 /\ new[N + 1] = leg /\ \A i \in 1..N : new[i] = ls[i]
  BY <1>2
<1>4. PICK f : IsSumOf(f, ls, N) /\ Total(ls) = f[N]
  BY <1>3, TotalIs
<1>5. PICK g : IsSumOf(g, new, N + 1) /\ Total(new) = g[N + 1]
  BY <1>3, TotalIs
<1>6. g[N + 1] = g[N] + new[N + 1].amount
  BY <1>3, <1>5, SumIs
<1>7. f[N] = g[N]
  <2>1. N + 1 \in Nat /\ N <= N /\ N <= N + 1 /\ \A i \in 1..N : ls[i].amount = new[i].amount
    BY <1>3
  <2> QED BY <1>4, <1>5, <2>1, SumsAgree
<1> QED BY <1>1, <1>2, <1>3, <1>4, <1>5, <1>6, <1>7

\* Every step leaves a Wallet's stream and a minted Token as they are, or
\* extends the stream.
StreamsGrow ==
    /\ scenario' = scenario
    /\ \A k \in DOMAIN minted : k \in DOMAIN minted' /\ minted'[k] = minted[k]
    /\ \A w \in Wallets : \A n \in DOMAIN listing[w] : n \in DOMAIN listing'[w] /\ listing'[w][n] = listing[w][n]

\* What a driver found in the streams stays there.
LEMMA FoundStays ==
    ASSUME StreamsInv, StreamsGrow, NEW t \in Transfers, req(t).kind = "forward"
    PROVE  /\ req(t)' = req(t)
           /\ \A ls, left : BringsAllBut(t, ls, left) => BringsAllBut(t, ls, left)'
           /\ \A ls, todo : InMintOrder(t, ls, todo) => InMintOrder(t, ls, todo)'
           /\ \A ls, writes : FromMint(t, ls, writes) => FromMint(t, ls, writes)'
           /\ \A ls, writes : IntoMint(t, ls, writes) => IntoMint(t, ls, writes)'
           /\ \A ls : IntoToken(t, ls) => IntoToken(t, ls)'
<1>1. req(t)' = req(t) /\ req(t).from \in Wallets
  BY RequestsStay, Requested DEF StreamsGrow, Request
<1>2. ASSUME NEW ls, NEW todo, InMintOrder(t, ls, todo) PROVE InMintOrder(t, ls, todo)'
  <2> DEFINE w == req(t).from
  <2>1. PICK p \in [DOMAIN ls -> DOMAIN listing[w]] :
           /\ \A i \in DOMAIN ls : Lists(t, ls[i].source, p[i])
           /\ \A i \in DOMAIN ls : i > 1 => p[i - 1] < p[i]
           /\ \A i \in DOMAIN ls : \A m \in todo : p[i] < m
    BY <1>2 DEF InMintOrder
  <2>2. p \in [DOMAIN ls -> DOMAIN listing'[w]]
    BY <1>1, <2>1 DEF StreamsGrow
  <2>3. \A i \in DOMAIN ls : (Lists(t, ls[i].source, p[i]))'
    BY <1>1, <2>1 DEF StreamsGrow, Lists
  <2> QED BY <1>1, <2>1, <2>2, <2>3 DEF InMintOrder
<1>3. \A ls, left : BringsAllBut(t, ls, left) => BringsAllBut(t, ls, left)'
  BY <1>1 DEF BringsAllBut, Total
<1>4. \A ls, writes : FromMint(t, ls, writes) => FromMint(t, ls, writes)'
  BY <1>1 DEF FromMint
<1>5. \A ls, writes : IntoMint(t, ls, writes) => IntoMint(t, ls, writes)'
  BY <1>1 DEF IntoMint
<1>6. \A ls : IntoToken(t, ls) => IntoToken(t, ls)'
  BY <1>1 DEF IntoToken, StreamsGrow
<1> QED BY <1>1, <1>2, <1>3, <1>4, <1>5, <1>6

\* A recorded manifest goes on to cover its request,
LEMMA LegsStayCovered ==
    ASSUME StreamsInv, StreamsGrow, NEW t \in Transfers, legs'[t] = legs[t], LegsCover(t)
    PROVE  LegsCover(t)'
<1>1. req(t)' = req(t)
  BY RequestsStay DEF StreamsGrow
<1>2. PICK ls : ls = legs[t]
  OBVIOUS
<1>3. CASE ls # << >> /\ req(t).kind = "forward"
  <2>1. BringsAllBut(t, ls, 0)' /\ InMintOrder(t, ls, {})' /\ IntoToken(t, ls)'
    BY <1>2, <1>3, FoundStays DEF LegsCover
  <2>2. legs'[t] = ls
    BY <1>2
  <2> QED BY <2>1, <2>2 DEF LegsCover
<1> QED BY <1>1, <1>2, <1>3 DEF LegsCover

\* ... and what a driver has planned so far goes on to do so.
LEMMA CallStaysCovered ==
    ASSUME MoneyInv, StreamsGrow, NEW t \in Transfers, call'[t] = call[t], CallCovers(t)
    PROVE  CallCovers(t)'
<1>1. req(t)' = req(t) /\ StreamsInv /\ CallKnows(t)
  BY RequestsStay DEF StreamsGrow, MoneyInv
<1>2. PICK c : c = call[t]
  OBVIOUS
<1>3. c.pc \in Selecting \union {"plan"} => req(t).kind = "forward"
  BY <1>1, <1>2 DEF CallKnows, SelectKnows, PlanKnows
<1>4. CASE c.pc \in Selecting
  <2>1. BringsAllBut(t, c.legs, c.left)' /\ InMintOrder(t, c.legs, c.todo)'
    BY <1>1, <1>2, <1>3, <1>4, FoundStays DEF CallCovers
  <2>2. call'[t] = c
    BY <1>2
  <2> QED BY <1>4, <2>1, <2>2 DEF CallCovers, Selecting
<1>5. CASE c.pc \in {"plan", "append"} /\ req(t).kind = "forward"
  <2>1. BringsAllBut(t, c.legs, 0) /\ Sourced(t, c) /\ (c.pc = "append" => IntoMint(t, c.legs, c.writes))
    BY <1>2, <1>5 DEF CallCovers
  <2>2. /\ BringsAllBut(t, c.legs, 0)' /\ Sourced(t, c)'
        /\ (c.pc = "append" => IntoMint(t, c.legs, c.writes)')
    BY <1>1, <1>5, <2>1, FoundStays DEF Sourced
  <2>3. call'[t] = c
    BY <1>2
  <2> QED BY <1>5, <2>2, <2>3 DEF CallCovers, Selecting
<1>6. CASE c.pc \notin Selecting \union {"plan", "append"} \/ (c.pc = "append" /\ req(t).kind # "forward")
  <2>1. call'[t] = c
    BY <1>2
  <2> QED BY <1>1, <1>6, <2>1 DEF CallCovers, Selecting
<1> QED BY <1>3, <1>4, <1>5, <1>6

\* A step of one driver.
LEMMA CoverMoves ==
    ASSUME MoneyInv, CoverInv, StreamsGrow, NEW t \in Transfers, CallCovers(t)', LegsCover(t)',
           \A u \in Transfers \ {t} : call'[u] = call[u] /\ legs'[u] = legs[u]
    PROVE  CoverInv'
<1>1. \A u \in Transfers \ {t} : CallCovers(u)' /\ LegsCover(u)'
  BY CallStaysCovered, LegsStayCovered DEF CoverInv, MoneyInv
<1> QED BY <1>1 DEF CoverInv

\* A driver that rests, or only records an outcome, plans nothing.
LEMMA RestCovers ==
    ASSUME MoneyInv, CoverInv, UNCHANGED <<scenario, listing, minted, legs>>, NEW t \in Transfers, NEW c, Goto(t, c),
           c.pc \in {"idle", "runSaga", "record"}
    PROVE  CoverInv'
<1>1. StreamsGrow /\ LegsCover(t)'
  BY LegsStayCovered DEF StreamsGrow, CoverInv, MoneyInv
<1>2. DOMAIN call = Transfers
  BY DEF MoneyInv
<1>3. CallCovers(t)'
  BY <1>2 DEF CallCovers, Goto, Selecting
<1> QED BY <1>1, <1>2, <1>3, CoverMoves DEF Goto

\* selectSourceTokens starts with no legs and the whole amount to find.
LEMMA SelectionStartsCovered ==
    ASSUME MoneyInv, CoverInv, UNCHANGED <<scenario, listing, minted, legs>>, NEW t \in Transfers,
           req(t).kind = "forward", NEW pc \in Selecting, StartSelect(t, pc)
    PROVE  CoverInv'
<1>1. /\ StreamsGrow /\ LegsCover(t)' /\ DOMAIN call = Transfers /\ req(t)' = req(t)
      /\ req(t).amount \in Nat /\ StreamsInv
  BY LegsStayCovered, Requested, RequestsStay DEF StreamsGrow, CoverInv, MoneyInv, Request
<1>2. PICK todo, none : todo = TokensOfVisibleTo(req(t).from, req(t).tx) /\ none = << >>
  OBVIOUS
<1>3. PICK c : c = [pc |-> pc, todo |-> todo, left |-> req(t).amount, legs |-> none]
  OBVIOUS
<1>4. Goto(t, c)
  BY <1>2, <1>3 DEF StartSelect
<1>5. call'[t] = c /\ c.pc = pc /\ c.legs = none /\ c.left = req(t).amount /\ DOMAIN none = {}
  BY <1>1, <1>2, <1>3, <1>4 DEF Goto
<1>6. Total(none) = 0
  <2>1. << >> \in Seq({0}) /\ 0 \in {0}
    OBVIOUS
  <2> QED BY <1>2, <2>1, TotalGrows
<1>7. BringsAllBut(t, none, c.left)
  BY <1>1, <1>5, <1>6 DEF BringsAllBut
<1>8. InMintOrder(t, none, c.todo)
  <2> DEFINE p == [i \in {} |-> 0]
  <2>1. p \in [DOMAIN none -> DOMAIN listing[req(t).from]]
    BY <1>5
  <2> QED BY <1>5, <2>1 DEF InMintOrder
<1>9. BringsAllBut(t, none, c.left)' /\ InMintOrder(t, none, c.todo)'
  BY <1>1, <1>7, <1>8, FoundStays
<1>10. CallCovers(t)'
  BY <1>5, <1>9 DEF CallCovers, Selecting
<1> QED BY <1>1, <1>4, <1>10, CoverMoves DEF Goto

\* One more Token is read: what it brings is no longer left, and it comes after
\* the Tokens taken so far (selectSourceTokens).
LEMMA SelectTokenCovers ==
    ASSUME MoneyInv, CoverInv, NEW t \in Transfers, SelectToken(t)
    PROVE  CoverInv'
<1> DEFINE w == req(t).from
           n == Min(call[t].todo)
           token == listing[w][n].token
           balance == AccountBalance(ledger, token)
           take == Min({balance, call[t].left})
           todo == call[t].todo \ {n}
           left == IF balance <= 0 THEN call[t].left ELSE call[t].left - take
           leg == [source |-> token, amount |-> take]
           ls == IF balance <= 0 THEN call[t].legs ELSE Append(call[t].legs, leg)
           d == [call[t] EXCEPT !.todo = todo, !.left = left, !.legs = ls]
<1>0. UNCHANGED <<scenario, listing, minted, legs>> /\ Goto(t, d)
  BY DEF SelectToken
<1>1. PICK c : c = call[t]
  OBVIOUS
<1>2. /\ StreamsInv /\ CallKnows(t) /\ CallCovers(t) /\ LegsCover(t) /\ DOMAIN call = Transfers
      /\ c.pc \in Selecting /\ ~SelectionDone(c)
  BY <1>1 DEF MoneyInv, CoverInv, SelectToken
<1>3. SelectKnows(t, c) /\ w \in Wallets /\ req(t).kind = "forward" /\ req(t).amount \in Nat
  BY <1>1, <1>2, Requested DEF CallKnows, SelectKnows, Request
<1>4. /\ c.todo \subseteq DOMAIN listing[w] /\ c.todo # {} /\ c.left \in Nat /\ c.left # 0
      /\ c.legs \in Takes(DOMAIN minted)
      /\ c \in [pc : Selecting, todo : SUBSET (DOMAIN listing[w]), left : Nat, legs : Takes(DOMAIN minted)]
  BY <1>2, <1>3 DEF SelectKnows, SelectionDone
<1>5. BringsAllBut(t, c.legs, c.left) /\ InMintOrder(t, c.legs, c.todo)
  BY <1>1, <1>2 DEF CallCovers
<1>6. DOMAIN listing[w] \subseteq Nat /\ \A m \in DOMAIN listing[w] : listing[w][m].token \in DOMAIN minted
  BY <1>2, <1>3, ListingIs
<1>7. n \in c.todo /\ n \in Nat /\ \A m \in c.todo : n <= m
  BY <1>1, <1>4, <1>6, MinIs
<1>8. token \in DOMAIN minted /\ Lists(t, token, n)
  BY <1>4, <1>6, <1>7 DEF Lists
<1>9. balance \in Int
  <2>1. ledger.accounts[token] \in Account
    BY <1>2, <1>8 DEF MoneyInv, LedgerInv, IsLedger, StreamsInv, MintedIsBackedAndListed
  <2> QED BY <2>1 DEF AccountBalance, Account
<1>10. /\ DOMAIN d = DOMAIN c /\ d.todo = c.todo \ {n} /\ d.pc = c.pc
       /\ d.left = (IF balance <= 0 THEN c.left ELSE c.left - take)
       /\ d.legs = (IF balance <= 0 THEN c.legs ELSE Append(c.legs, leg))
  BY <1>1, <1>4
<1>11. call'[t] = d
  BY <1>0, <1>2 DEF Goto
<1>12. PICK e : e = d
  OBVIOUS
<1>13. PICK R : R = [source : DOMAIN minted, amount : Nat]
  OBVIOUS
<1>14. c.legs \in Seq(R) /\ Len(c.legs) \in Nat /\ DOMAIN c.legs = 1..Len(c.legs)
  BY <1>4, <1>13 DEF Takes
<1>15. PICK p \in [DOMAIN c.legs -> DOMAIN listing[w]] :
           /\ \A i \in DOMAIN c.legs : Lists(t, c.legs[i].source, p[i])
           /\ \A i \in DOMAIN c.legs : i > 1 => p[i - 1] < p[i]
           /\ \A i \in DOMAIN c.legs : \A m \in c.todo : p[i] < m
  BY <1>5 DEF InMintOrder
<1> HIDE DEF d, ls, left, todo, token, balance, n
<1>16. balance > 0 => take \in Nat /\ take <= c.left /\ take > 0
  BY <1>1, <1>4, <1>9, TakeIs
<1> HIDE DEF take
<1>17. BringsAllBut(t, e.legs, e.left) /\ InMintOrder(t, e.legs, e.todo)
  <2>1. CASE balance <= 0
    <3>1. e.legs = c.legs /\ e.left = c.left /\ e.todo \subseteq c.todo
      BY <1>10, <1>12, <2>1
    <3>2. InMintOrder(t, c.legs, e.todo)
      BY <1>15, <3>1 DEF InMintOrder
    <3> QED BY <1>5, <3>1, <3>2
  <2>2. CASE ~(balance <= 0)
    <3>1. PICK N \in Nat : N = Len(c.legs)
      BY <1>14
    <3>2. leg \in R /\ leg.source = token /\ leg.amount = take
      BY <1>8, <1>9, <1>13, <1>16, <2>2
    <3> HIDE DEF leg
    <3>3. PICK new : new = Append(c.legs, leg)
      OBVIOUS
    <3>4. /\ DOMAIN new = 1..(N + 1) /\ new[N + 1] = leg
          /\ \A i \in 1..N : new[i] = c.legs[i]
      BY <1>14, <3>1, <3>2, <3>3
    <3>5. Total(new) = Total(c.legs) + take
      BY <1>14, <3>2, <3>3, TotalGrows
    <3>6. e.legs = new /\ e.left = c.left - take /\ e.todo = c.todo \ {n}
      BY <1>10, <1>12, <2>2, <3>3
    <3>7. Total(c.legs) \in Nat /\ Total(c.legs) + c.left = req(t).amount /\ \A i \in DOMAIN c.legs : c.legs[i].amount > 0
      BY <1>5 DEF BringsAllBut
    <3>8. take \in Nat /\ take > 0 /\ take <= c.left
      BY <1>9, <1>16, <2>2
    <3>9. Total(new) \in Nat /\ Total(new) + e.left = req(t).amount
      BY <1>3, <1>4, <3>5, <3>6, <3>7, <3>8
    <3>10. \A i \in DOMAIN new : new[i].amount > 0
      <4> TAKE i \in DOMAIN new
      <4>1. CASE i = N + 1
        BY <3>2, <3>4, <3>8, <4>1
      <4>2. CASE i \in 1..N
        BY <1>14, <3>1, <3>4, <3>7, <4>2
      <4> QED BY <3>4, <4>1, <4>2
    <3>11. BringsAllBut(t, new, e.left)
      BY <3>9, <3>10 DEF BringsAllBut
    <3> DEFINE q == [i \in 1..(N + 1) |-> IF i = N + 1 THEN n ELSE p[i]]
    <3>12. n \in DOMAIN listing[w] /\ \A i \in 1..N : p[i] \in DOMAIN listing[w] /\ p[i] \in Nat
      BY <1>4, <1>6, <1>7, <1>14, <1>15, <3>1
    <3>13. q \in [DOMAIN new -> DOMAIN listing[w]]
      BY <3>4, <3>12
    <3>14. q[N + 1] = n /\ \A i \in 1..N : q[i] = p[i]
      OBVIOUS
    <3> HIDE DEF q
    <3>15. ASSUME NEW i \in DOMAIN new
           PROVE  /\ Lists(t, new[i].source, q[i]) /\ (i > 1 => q[i - 1] < q[i])
                  /\ \A m \in e.todo : q[i] < m
      <4>1. CASE i = N + 1
        <5>1. \A m \in e.todo : q[i] < m
          BY <1>4, <1>6, <1>7, <3>6, <3>14, <4>1
        <5>2. i > 1 => q[i - 1] < q[i]
          <6> HAVE i > 1
          <6>1. i - 1 \in 1..N
            BY <4>1
          <6> QED BY <1>7, <1>14, <1>15, <3>1, <3>14, <4>1, <6>1
        <5> QED BY <1>8, <3>2, <3>4, <3>14, <4>1, <5>1, <5>2
      <4>2. CASE i \in 1..N
        <5>1. i > 1 => i - 1 \in 1..N
          BY <4>2
        <5> QED BY <1>14, <1>15, <3>1, <3>4, <3>6, <3>14, <4>2, <5>1
      <4> QED BY <3>4, <4>1, <4>2
    <3>16. InMintOrder(t, new, e.todo)
      BY <3>13, <3>15 DEF InMintOrder
    <3> QED BY <3>6, <3>11, <3>16
  <2> QED BY <2>1, <2>2
<1>18. StreamsGrow /\ LegsCover(t)'
  BY <1>0, <1>2, LegsStayCovered DEF StreamsGrow
<1>19. BringsAllBut(t, e.legs, e.left)' /\ InMintOrder(t, e.legs, e.todo)'
  BY <1>2, <1>3, <1>17, <1>18, FoundStays
<1>20. call'[t] = e /\ e.pc \in Selecting
  BY <1>2, <1>10, <1>11, <1>12
<1>21. CallCovers(t)'
  BY <1>19, <1>20 DEF CallCovers, Selecting
<1> QED BY <1>0, <1>2, <1>18, <1>21, CoverMoves DEF Goto

\* The second selection is over: nothing is left, or the driver gives up.
LEMMA FinishSelectCovers ==
    ASSUME MoneyInv, CoverInv, NEW t \in Transfers, FinishSelect(t)
    PROVE  CoverInv'
<1>0. UNCHANGED <<scenario, listing, minted, legs>>
  BY DEF FinishSelect
<1>1. PICK c : c = call[t]
  OBVIOUS
<1>2. /\ StreamsInv /\ CallKnows(t) /\ CallCovers(t) /\ LegsCover(t) /\ DOMAIN call = Transfers
      /\ c.pc \in Selecting
  BY <1>1 DEF MoneyInv, CoverInv, FinishSelect, Selecting
<1>3. c.left \in Nat /\ req(t).kind = "forward"
  BY <1>1, <1>2 DEF CallKnows, SelectKnows
<1>4. CASE c.left > 0
  <2>1. Goto(t, Idle) /\ Idle.pc = "idle"
    BY <1>1, <1>4 DEF FinishSelect, Idle
  <2> QED BY <1>0, <2>1, RestCovers
<1>5. CASE c.left = 0
  <2>1. PICK d : d = [pc |-> "plan", legs |-> c.legs, writes |-> {}]
    OBVIOUS
  <2>2. Goto(t, d)
    BY <1>1, <1>5, <2>1 DEF FinishSelect
  <2>3. call'[t] = d /\ d.pc = "plan" /\ d.legs = c.legs
    BY <1>2, <2>1, <2>2 DEF Goto
  <2>4. BringsAllBut(t, c.legs, 0) /\ InMintOrder(t, c.legs, c.todo)
    BY <1>1, <1>2, <1>5 DEF CallCovers
  <2>5. InMintOrder(t, c.legs, {})
    BY <2>4 DEF InMintOrder
  <2>6. StreamsGrow /\ LegsCover(t)'
    BY <1>0, <1>2, LegsStayCovered DEF StreamsGrow
  <2>7. BringsAllBut(t, c.legs, 0)' /\ InMintOrder(t, c.legs, {})'
    BY <1>2, <1>3, <2>4, <2>5, <2>6, FoundStays
  <2>8. CallCovers(t)'
    BY <2>3, <2>7 DEF CallCovers, Selecting, Sourced
  <2> QED BY <1>2, <2>2, <2>6, <2>8, CoverMoves DEF Goto, FinishSelect
<1> QED BY <1>3, <1>4, <1>5

\* prepare starts: a source minted for the full amount covers it (MintWrites).
LEMMA StartPrepareCovers ==
    ASSUME MoneyInv, CoverInv, NEW t \in Transfers, StartPrepare(t)
    PROVE  CoverInv'
<1>0. UNCHANGED <<scenario, listing, minted, legs>>
  BY DEF StartPrepare
<1>1. /\ StreamsInv /\ LegsCover(t) /\ DOMAIN call = Transfers
      /\ req(t).kind = "forward" => req(t).amount \in Nat \ {0}
  BY Requested DEF MoneyInv, CoverInv, Request
<1>2. StreamsGrow /\ LegsCover(t)' /\ req(t)' = req(t)
  BY <1>0, <1>1, LegsStayCovered, RequestsStay DEF StreamsGrow
<1>3. CASE /\ req(t).kind = "reversal"
           /\ Goto(t, [pc |-> "append", legs |-> reversalManifest(req(t).of), writes |-> {}])
  <2>1. PICK c : c = [pc |-> "append", legs |-> reversalManifest(req(t).of), writes |-> {}]
    OBVIOUS
  <2>2. Goto(t, c) /\ call'[t] = c /\ c.pc = "append"
    BY <1>1, <1>3, <2>1 DEF Goto
  <2>3. CallCovers(t)'
    BY <1>2, <1>3, <2>2 DEF CallCovers, Selecting
  <2> QED BY <1>0, <1>2, <2>2, <2>3, CoverMoves DEF Goto
<1>4. CASE /\ req(t).kind = "forward"
           /\ Goto(t, [pc |-> "plan", legs |-> <<[source |-> Fresh, amount |-> req(t).amount]>>,
                       writes |-> {MintWrite(Fresh, req(t).from, req(t).amount)}])
  <2>1. PICK id, x : id = Fresh /\ x = MintWrite(id, req(t).from, req(t).amount)
    OBVIOUS
  <2>2. PICK leg : leg = [source |-> id, amount |-> req(t).amount]
    OBVIOUS
  <2>3. PICK c : c = [pc |-> "plan", legs |-> <<leg>>, writes |-> {x}]
    OBVIOUS
  <2>4. Goto(t, c)
    BY <1>4, <2>1, <2>2, <2>3
  <2>5. call'[t] = c /\ c.pc = "plan" /\ c.legs = <<leg>> /\ c.writes = {x}
    BY <1>1, <2>3, <2>4 DEF Goto
  <2>6. x.token = id /\ x.wallet = req(t).from /\ leg.source = id /\ leg.amount = req(t).amount
    BY <2>1, <2>2 DEF MintWrite
  <2>7. Total(<<leg>>) = req(t).amount
    <3>1. << >> \in Seq({leg}) /\ leg \in {leg} /\ Append(<< >>, leg) = <<leg>>
      OBVIOUS
    <3>2. Total(<< >>) = 0 /\ Total(Append(<< >>, leg)) = Total(<< >>) + leg.amount
      BY <3>1, TotalGrows
    <3> QED BY <1>1, <1>4, <2>6, <3>1, <3>2
  <2>8. Len(<<leg>>) = 1 /\ DOMAIN <<leg>> = {1} /\ <<leg>>[1] = leg
    OBVIOUS
  <2>9. PICK ls : ls = <<leg>>
    OBVIOUS
  <2>10. BringsAllBut(t, ls, 0) /\ FromMint(t, ls, {x})
    BY <1>1, <1>4, <2>6, <2>7, <2>8, <2>9 DEF BringsAllBut, FromMint
  <2>11. BringsAllBut(t, ls, 0)' /\ FromMint(t, ls, {x})'
    BY <1>1, <1>2, <1>4, <2>10, FoundStays
  <2>12. CallCovers(t)'
    BY <2>5, <2>9, <2>11 DEF CallCovers, Selecting, Sourced
  <2> QED BY <1>0, <1>2, <2>4, <2>12, CoverMoves DEF Goto
<1>5. CASE req(t).kind = "forward" /\ StartSelect(t, "prepare")
  BY <1>0, <1>5, SelectionStartsCovered DEF Selecting
<1> QED BY <1>3, <1>4, <1>5 DEF StartPrepare

\* planDestinations: one Token of the full amount for all the legs.
LEMMA PlanDestinationCovers ==
    ASSUME MoneyInv, CoverInv, NEW t \in Transfers, PlanDestination(t)
    PROVE  CoverInv'
<1> DEFINE leg(ls, id, i) == [source |-> ls[i].source, dest |-> id, amount |-> ls[i].amount]
<1>0. UNCHANGED <<scenario, listing, minted, legs>>
  BY DEF PlanDestination
<1>1. PICK c : c = call[t]
  OBVIOUS
<1>2. /\ StreamsInv /\ LegsCover(t) /\ DOMAIN call = Transfers /\ PlanKnows(t, c)
      /\ BringsAllBut(t, c.legs, 0) /\ Sourced(t, c)
  BY <1>1 DEF MoneyInv, CoverInv, PlanDestination, CallKnows, CallCovers
<1>3. StreamsGrow /\ LegsCover(t)' /\ req(t)' = req(t) /\ req(t).kind = "forward"
  BY <1>0, <1>2, LegsStayCovered, RequestsStay DEF StreamsGrow, PlanKnows
<1>4. PICK id, x : id = Fresh /\ x = MintWrite(id, req(t).to, req(t).amount)
  OBVIOUS
<1>5. PICK ls : ls = [i \in DOMAIN c.legs |-> leg(c.legs, id, i)]
  OBVIOUS
<1>6. PICK d : d = [pc |-> "append", legs |-> ls, writes |-> c.writes \union {x}]
  OBVIOUS
<1>7. Goto(t, d)
  BY <1>1, <1>4, <1>5, <1>6 DEF PlanDestination
<1>8. call'[t] = d /\ d.pc = "append" /\ d.legs = ls /\ d.writes = c.writes \union {x}
  BY <1>2, <1>6, <1>7 DEF Goto
<1>9. x.token = id /\ x.wallet = req(t).to /\ x.capacity = req(t).amount
  BY <1>4 DEF MintWrite
<1>10. PICK N \in Nat : N = Len(c.legs) /\ DOMAIN c.legs = 1..N
  BY <1>2, ManifestsAre DEF PlanKnows
<1>11. /\ DOMAIN ls = 1..N /\ Len(ls) = N
       /\ \A i \in 1..N : ls[i].source = c.legs[i].source /\ ls[i].dest = id /\ ls[i].amount = c.legs[i].amount
  BY <1>5, <1>10
<1>12. Total(ls) = Total(c.legs)
  BY <1>10, <1>11, TotalsAgree
<1>13. BringsAllBut(t, ls, 0)
  BY <1>2, <1>10, <1>11, <1>12 DEF BringsAllBut
<1>14. IntoMint(t, ls, d.writes)
  BY <1>8, <1>9, <1>11 DEF IntoMint
<1>15. Sourced(t, d)
  <2>1. CASE FromMint(t, c.legs, c.writes)
    <3>1. N = 1 /\ 1 \in 1..N
      BY <1>10, <2>1 DEF FromMint
    <3>2. FromMint(t, ls, d.writes)
      BY <1>8, <1>10, <1>11, <2>1, <3>1 DEF FromMint
    <3> QED BY <1>8, <3>2 DEF Sourced
  <2>2. CASE InMintOrder(t, c.legs, {})
    <3>1. InMintOrder(t, ls, {})
      BY <1>10, <1>11, <2>2 DEF InMintOrder
    <3> QED BY <1>8, <3>1 DEF Sourced
  <2> QED BY <1>2, <2>1, <2>2 DEF Sourced
<1>16. BringsAllBut(t, ls, 0)' /\ IntoMint(t, ls, d.writes)' /\ Sourced(t, d)'
  BY <1>2, <1>3, <1>13, <1>14, <1>15, FoundStays DEF Sourced
<1>17. CallCovers(t)'
  BY <1>8, <1>16 DEF CallCovers, Selecting
<1> QED BY <1>0, <1>2, <1>3, <1>7, <1>17, CoverMoves DEF Goto

\* What is recorded of a planned mint.
LEMMA WritesAreMinted ==
    ASSUME NEW writes, NEW tag, WritesKnow(writes), Current(writes), Record(writes, tag), NEW x \in writes
    PROVE  x.token \in DOMAIN minted' /\ minted'[x.token] = [wallet |-> x.wallet, capacity |-> x.capacity]
<1> DEFINE of(k) == CHOOSE y \in writes : y.token = k
<1>1. /\ x.token \notin DOMAIN minted
      /\ x.token \in DOMAIN minted \union {y.token : y \in writes}
  BY DEF Current
<1>2. minted' = [k \in DOMAIN minted \union {y.token : y \in writes} |->
                   IF k \in DOMAIN minted THEN minted[k]
                   ELSE [wallet |-> of(k).wallet, capacity |-> of(k).capacity]]
  BY DEF Record
<1>3. of(x.token) \in writes /\ of(x.token).token = x.token
  OBVIOUS
<1>4. of(x.token) = x
  BY <1>3 DEF WritesKnow
<1> HIDE DEF of
<1> QED BY <1>1, <1>2, <1>4

\* The manifest is recorded with the Tokens it speaks of (prepare).
LEMMA AppendPreparedCovers ==
    ASSUME MoneyInv, CoverInv, NEW t \in Transfers, AppendPrepared(t)
    PROVE  CoverInv'
<1>0. scenario' = scenario /\ UNCHANGED <<scenario, open, ledger>> /\ t \in AllTransfers
  BY DEF AppendPrepared, AllTransfers
<1>1. PICK c, writes : c = call[t] /\ writes = c.writes
  OBVIOUS
<1>2. /\ StreamsInv /\ DOMAIN call = Transfers /\ DOMAIN legs = AllTransfers /\ AppendKnows(t, c) /\ CallCovers(t)
      /\ c.pc = "append" /\ Idle.pc = "idle" /\ Saga.pc = "runSaga"
  BY <1>1 DEF MoneyInv, CoverInv, CallKnows, AppendPrepared, Idle, Saga
<1>3. CASE ~Current(writes)
  <2>1. Goto(t, Idle) /\ UNCHANGED <<scenario, listing, minted, legs>>
    BY <1>1, <1>3 DEF AppendPrepared
  <2> QED BY <1>2, <2>1, RestCovers
<1>4. CASE Current(writes)
  <2>1. PICK tag : tag = IF req(t).kind = "forward" THEN req(t).tx ELSE NoTransaction
    OBVIOUS
  <2>2. Record(writes, tag) /\ Goto(t, Saga) /\ legs' = [legs EXCEPT ![t] = c.legs]
    BY <1>1, <1>4, <2>1 DEF AppendPrepared
  <2>3. tag \in Tags /\ WritesKnow(writes)
    BY <1>0, <1>1, <1>2, <2>1 DEF Tags, AppendKnows
  <2>4. Grows /\ StreamsInv'
    BY <1>0, <1>4, <2>2, <2>3, MintsAreRecorded
  <2>5. StreamsGrow
    <3>1. ASSUME NEW w \in Wallets, NEW n \in DOMAIN listing[w]
          PROVE  n \in DOMAIN listing'[w] /\ listing'[w][n] = listing[w][n]
      BY <2>4 DEF Grows
    <3> QED BY <2>4, <3>1 DEF Grows, StreamsGrow
  <2>6. CallCovers(t)' /\ legs'[t] = c.legs
    BY <1>0, <1>2, <2>2 DEF CallCovers, Goto, Selecting
  <2>7. LegsCover(t)'
    <3> SUFFICES ASSUME req(t)'.kind = "forward", c.legs # << >>
                 PROVE  BringsAllBut(t, c.legs, 0)' /\ InMintOrder(t, c.legs, {})' /\ IntoToken(t, c.legs)'
      BY <2>6 DEF LegsCover
    <3>1. req(t)' = req(t) /\ req(t).kind = "forward" /\ req(t).from \in Wallets
      BY <1>2, <2>5, RequestsStay, Requested DEF StreamsGrow, Request
    <3>2. BringsAllBut(t, c.legs, 0) /\ Sourced(t, c) /\ IntoMint(t, c.legs, writes)
      BY <1>1, <1>2, <3>1 DEF CallCovers
    <3>3. BringsAllBut(t, c.legs, 0)'
      BY <1>2, <2>5, <3>1, <3>2, FoundStays
    <3>4. IntoToken(t, c.legs)'
      <4>1. PICK x \in writes : /\ x.wallet = req(t).to /\ x.capacity = req(t).amount
                                /\ \A i \in DOMAIN c.legs : c.legs[i].dest = x.token
        BY <3>2 DEF IntoMint
      <4>2. x.token \in DOMAIN minted' /\ minted'[x.token] = [wallet |-> x.wallet, capacity |-> x.capacity]
        BY <1>4, <2>2, <2>3, WritesAreMinted
      <4> QED BY <3>1, <4>1, <4>2 DEF IntoToken
    <3>5. InMintOrder(t, c.legs, {})'
      <4>1. CASE InMintOrder(t, c.legs, {})
        BY <1>2, <2>5, <3>1, <4>1, FoundStays
      <4>2. CASE FromMint(t, c.legs, writes)
        <5> DEFINE w == req(t).from
        <5>1. PICK x \in writes : x.token = c.legs[1].source /\ x.wallet = w
          BY <4>2 DEF FromMint
        <5>2. x.token \in DOMAIN minted' /\ minted'[x.token] = [wallet |-> x.wallet, capacity |-> x.capacity]
          BY <1>4, <2>2, <2>3, WritesAreMinted
        <5>3. minted'[x.token].wallet = w
          <6>1. PICK r : r = [wallet |-> x.wallet, capacity |-> x.capacity]
            OBVIOUS
          <6>2. r.wallet = w
            BY <5>1, <6>1
          <6> QED BY <5>2, <6>1, <6>2
        <5>4. PICK n \in DOMAIN listing'[w] : listing'[w][n].token = x.token
          BY <2>4, <3>1, <5>2, <5>3 DEF StreamsInv, MintedIsBackedAndListed
        <5>5. DOMAIN c.legs = 1..Len(c.legs) /\ Len(c.legs) = 1
          BY <1>2, <4>2, ManifestsAre DEF AppendKnows, FromMint
        <5>6. DOMAIN c.legs = {1}
          BY <5>5
        <5> DEFINE p == [i \in {1} |-> n]
        <5>7. p \in [DOMAIN c.legs -> DOMAIN listing'[w]] /\ p[1] = n
          BY <5>4, <5>6
        <5> HIDE DEF p
        <5>8. \A i \in DOMAIN c.legs : (Lists(t, c.legs[i].source, p[i]))'
          BY <3>1, <5>1, <5>4, <5>6, <5>7 DEF Lists
        <5>9. \A i \in DOMAIN c.legs : ~(i > 1)
          BY <5>6
        <5> QED BY <3>1, <5>7, <5>8, <5>9 DEF InMintOrder
      <4> QED BY <1>1, <3>2, <4>1, <4>2 DEF Sourced
    <3> QED BY <3>3, <3>4, <3>5
  <2> QED BY <1>0, <1>2, <2>2, <2>5, <2>6, <2>7, CoverMoves DEF Goto, AllTransfers
<1> QED BY <1>3, <1>4

\* The other steps of a driver.
LEMMA OthersCover ==
    ASSUME MoneyInv, CoverInv, NEW t \in Transfers,
           \/ RequestTransfer(t) \/ DecideTransfer(t) \/ RequestReversal(t) \/ ResumeSaga(t)
           \/ DestinationUnopened(t) \/ RecordOutcome(t) \/ Crash(t)
           \/ SubmitPrepared(t) \/ PostPendingTransfer(t) \/ CancelStagedTransfer(t)
    PROVE  CoverInv'
<1>0. UNCHANGED <<scenario, listing, minted, legs>>
  BY DEF RequestTransfer, DecideTransfer, RequestReversal, ResumeSaga, DestinationUnopened, RecordOutcome, Crash,
         SubmitPrepared, PostPendingTransfer, CancelStagedTransfer
<1>1. Idle.pc = "idle" /\ Saga.pc = "runSaga"
  BY DEF Idle, Saga
<1>2. ASSUME NEW o, Goto(t, [pc |-> "record", outcome |-> o]) PROVE CoverInv'
  <2>1. PICK c : c = [pc |-> "record", outcome |-> o]
    OBVIOUS
  <2>2. Goto(t, c) /\ c.pc = "record"
    BY <1>2, <2>1
  <2> QED BY <1>0, <2>2, RestCovers
<1>3. ASSUME NEW c \in {Idle, Saga}, Goto(t, c) PROVE CoverInv'
  BY <1>0, <1>1, <1>3, RestCovers
<1>4. CASE RequestTransfer(t)
  <2>1. CASE req(t).mintSource
    <3>1. PICK c \in {Idle, Saga} : Goto(t, c)
      BY <1>4, <2>1 DEF RequestTransfer
    <3> QED BY <1>3, <3>1
  <2>2. CASE ~req(t).mintSource
    BY <1>0, <1>4, <2>2, SelectionStartsCovered DEF RequestTransfer, Selecting
  <2> QED BY <2>1, <2>2
<1>5. CASE \/ DecideTransfer(t) \/ RequestReversal(t) \/ ResumeSaga(t)
           \/ DestinationUnopened(t) \/ RecordOutcome(t) \/ Crash(t)
  <2>1. PICK c \in {Idle, Saga} : Goto(t, c)
    BY <1>5 DEF DecideTransfer, RequestReversal, ResumeSaga, DestinationUnopened, RecordOutcome, Crash
  <2> QED BY <1>3, <2>1
<1>6. CASE SubmitPrepared(t)
  <2>1. PICK o : Goto(t, Idle) \/ Goto(t, [pc |-> "record", outcome |-> o])
    BY <1>6 DEF SubmitPrepared
  <2> QED BY <1>2, <1>3, <2>1
<1>7. CASE PostPendingTransfer(t)
  <2>1. PICK o : Goto(t, [pc |-> "record", outcome |-> o])
    BY <1>7 DEF PostPendingTransfer
  <2> QED BY <1>2, <2>1
<1>8. CASE CancelStagedTransfer(t)
  <2>1. Goto(t, Idle) \/ Goto(t, [pc |-> "record", outcome |-> "cancelled"])
    BY <1>8 DEF CancelStagedTransfer
  <2> QED BY <1>2, <1>3, <2>1
<1> QED BY <1>4, <1>5, <1>6, <1>7, <1>8

\* Mint, and the surroundings.
LEMMA SurroundingsCover ==
    ASSUME MoneyInv, CoverInv,
           \/ \E k \in Mints : MintStep(k)
           \/ \E x \in Transactions : CloseTransaction(x)
           \/ \E id \in DOMAIN ledger.pending : Expire(id)
           \/ \E t \in Transfers : CancelAcceptedTransfer(t) \/ ConfirmStagedTransfer(t)
           \/ UNCHANGED vars
    PROVE  CoverInv'
<1>0. UNCHANGED <<scenario, legs, call>>
  BY DEF MintStep, Mint, MintUnopened, MintAccount, AppendMint, MintConverge, MintCrash, CloseTransaction, Expire,
         CancelAcceptedTransfer, ConfirmStagedTransfer, vars
<1>1. ASSUME StreamsGrow PROVE CoverInv'
  BY <1>0, <1>1, CallStaysCovered, LegsStayCovered DEF CoverInv, MoneyInv
<1>2. CASE UNCHANGED <<listing, minted>>
  BY <1>0, <1>1, <1>2 DEF StreamsGrow
<1>3. ASSUME NEW k \in Mints, AppendMint(k), ~UNCHANGED <<listing, minted>> PROVE CoverInv'
  <2>1. PICK x, writes : x = mint[k].write /\ writes = {x}
    OBVIOUS
  <2>2. UNCHANGED <<scenario, open, ledger>> /\ Current(writes) /\ Record(writes, NoTransaction) /\ mint[k].pc = "append"
    BY <1>3, <2>1 DEF AppendMint
  <2>3. WritesKnow(writes) /\ NoTransaction \in Tags
    BY <2>1, <2>2 DEF MoneyInv, MintKnows, WritesKnow, Tags
  <2>4. Grows
    BY <2>2, <2>3, MintsAreRecorded
  <2>5. ASSUME NEW w \in Wallets, NEW n \in DOMAIN listing[w]
        PROVE  n \in DOMAIN listing'[w] /\ listing'[w][n] = listing[w][n]
    BY <2>4 DEF Grows
  <2> QED BY <1>1, <2>4, <2>5 DEF Grows, StreamsGrow
<1> QED BY <1>2, <1>3 DEF MintStep, Mint, MintUnopened, MintAccount, MintConverge, MintCrash, CloseTransaction, Expire,
         CancelAcceptedTransfer, ConfirmStagedTransfer, vars

\* Every step keeps it.
LEMMA CoverInvNext == ASSUME MoneyInv, CoverInv, [Next]_vars PROVE CoverInv'
<1>1. ASSUME NEW t \in Transfers, DriverStep(t) PROVE CoverInv'
  BY <1>1, OthersCover, SelectTokenCovers, StartPrepareCovers, FinishSelectCovers, PlanDestinationCovers,
     AppendPreparedCovers, SurroundingsCover DEF DriverStep
<1> QED BY <1>1, SurroundingsCover DEF Next

\* No manifest is there at first.
LEMMA CoverInvInit == ASSUME Init PROVE CoverInv
<1> SUFFICES ASSUME NEW t \in Transfers PROVE CallCovers(t) /\ LegsCover(t)
  BY DEF CoverInv
<1>1. t \in AllTransfers /\ t \notin Funded
  BY MoneyAssumption DEF AllTransfers
<1>2. legs[t] = << >> /\ call[t].pc = "idle"
  BY <1>1 DEF Init, Idle
<1> QED BY <1>2 DEF CallCovers, LegsCover, Selecting

\* What drivers plan and record covers the requests in every behaviour
\* (selectSourceTokens, planDestinations).
THEOREM AlwaysCoverInv == Spec => []CoverInv
<1>1. Init => CoverInv
  BY CoverInvInit
<1>2. MoneyInv /\ CoverInv /\ [Next]_vars => CoverInv'
  BY CoverInvNext
<1> QED BY <1>1, <1>2, AlwaysMoneyInv, PTL DEF Spec

\* The manifest of a forward Transfer covers the requested amount exactly, out
\* of different Tokens of the source Wallet in mint order, into one new Token of
\* the destination Wallet with that capacity, for any number of Transfers and
\* Mints that move the balances selectSourceTokens reads.
THEOREM AlwaysManifestCoversRequest == Spec => []ManifestCoversRequest
<1>1. MoneyInv /\ CoverInv => ManifestCoversRequest
  <2> SUFFICES ASSUME MoneyInv, CoverInv, NEW t \in Transfers, legs[t] # << >>, req(t).kind = "forward"
               PROVE  LET ls == legs[t]
                          from == listing[req(t).from]
                          Position(k) == CHOOSE n \in DOMAIN from : from[n].token = k
                      IN  /\ Total(ls) = req(t).amount
                          /\ \A i \in DOMAIN ls :
                                /\ ls[i].amount > 0
                                /\ minted[ls[i].source].wallet = req(t).from
                                /\ ls[i].dest = ls[1].dest
                                /\ i > 1 => Position(ls[i - 1].source) < Position(ls[i].source)
                          /\ minted[ls[1].dest] = [wallet |-> req(t).to, capacity |-> req(t).amount]
    BY DEF ManifestCoversRequest
  <2> DEFINE ls == legs[t]
             w == req(t).from
             from == listing[w]
             Position(k) == CHOOSE n \in DOMAIN from : from[n].token = k
  <2>1. /\ StreamsInv /\ LegsKnow(t) /\ BringsAllBut(t, ls, 0) /\ InMintOrder(t, ls, {}) /\ IntoToken(t, ls)
        /\ t \in AllTransfers
    BY DEF MoneyInv, CoverInv, LegsCover, AllTransfers
  <2>2. w \in Wallets /\ req(t).amount \in Nat
    BY <2>1, Requested DEF Request
  <2>3. Len(ls) \in Nat /\ DOMAIN ls = 1..Len(ls) /\ ls \in Seq([source : DOMAIN minted, dest : DOMAIN minted, amount : Nat])
    BY <2>1, ManifestsAre DEF LegsKnow, Manifests
  <2>4. 1 \in DOMAIN ls
    BY <2>3
  <2>5. Total(ls) = req(t).amount /\ \A i \in DOMAIN ls : ls[i].amount > 0
    BY <2>1, <2>2 DEF BringsAllBut
  <2>6. PICK p \in [DOMAIN ls -> DOMAIN from] :
           /\ \A i \in DOMAIN ls : Lists(t, ls[i].source, p[i])
           /\ \A i \in DOMAIN ls : i > 1 => p[i - 1] < p[i]
    BY <2>1 DEF InMintOrder
  <2>7. \A i, j \in DOMAIN from : from[i].token = from[j].token => i = j
    BY <2>1, <2>2 DEF StreamsInv, MintedIsBackedAndListed
  <2>8. \A n \in DOMAIN from : minted[from[n].token].wallet = w
    BY <2>1, <2>2 DEF StreamsInv, MintedIsBackedAndListed
  <2>9. ASSUME NEW i \in DOMAIN ls
        PROVE  Position(ls[i].source) = p[i] /\ minted[ls[i].source].wallet = w
    <3>1. p[i] \in DOMAIN from /\ from[p[i]].token = ls[i].source
      BY <2>6 DEF Lists
    <3>2. Position(ls[i].source) \in DOMAIN from /\ from[Position(ls[i].source)].token = ls[i].source
      BY <3>1
    <3> HIDE DEF Position
    <3> QED BY <2>7, <2>8, <3>1, <3>2
  <2>10. PICK d \in DOMAIN minted : /\ minted[d] = [wallet |-> req(t).to, capacity |-> req(t).amount]
                                    /\ \A i \in DOMAIN ls : ls[i].dest = d
    BY <2>1 DEF IntoToken
  <2>11. \A i \in DOMAIN ls : i > 1 => i - 1 \in DOMAIN ls
    BY <2>3
  <2> HIDE DEF Position
  <2>12. \A i \in DOMAIN ls : i > 1 => Position(ls[i - 1].source) < Position(ls[i].source)
    BY <2>6, <2>9, <2>11
  <2> HIDE DEF ls, from
  <2>13. /\ \A i \in DOMAIN ls : ls[i].dest = ls[1].dest
         /\ minted[ls[1].dest] = [wallet |-> req(t).to, capacity |-> req(t).amount]
    BY <2>4, <2>10
  <2> QED BY <2>5, <2>9, <2>12, <2>13 DEF ls, from, Position
<1> QED BY <1>1, AlwaysMoneyInv, AlwaysCoverInv, PTL
-----------------------------------------------------------------------------
(* Legs that money can follow: who moves what into which Token.              *)

\* Every leg moves something from one Token to another.
Apart(ls) == \A i \in DOMAIN ls : ls[i].source # ls[i].dest /\ ls[i].amount > 0
IsReversal(t) == t \in Transfers /\ req(t).kind = "reversal"

\* This holds of a manifest from the plan on,
ApartInv ==
    /\ \A t \in AllTransfers : Apart(legs[t])
    /\ \A t \in Transfers : call[t].pc = "append" => Apart(call[t].legs)

\* ... a reversal undoes a committed Transfer leg by leg,
ReversalInv ==
    \A t \in Transfers :
        /\ call[t].pc = "record" => state[t] \in {"prepared", "staged", "pending"}
        /\ call[t].pc = "append" => req(t).kind \in {"forward", "reversal"}
        /\ req(t).kind = "reversal" =>
              /\ state[t] \notin {"none", "rejected"} => state[req(t).of] = "committed"
              /\ call[t].pc = "append" => call[t].legs = reversalManifest(req(t).of)
              /\ state[t] \notin {"none", "accepted", "rejected", "abandoned"} => legs[t] = reversalManifest(req(t).of)

\* ... and any other Transfer moves money into Tokens of its own.
OwnInv ==
    \A t, u \in AllTransfers : ~IsReversal(t) /\ ~IsReversal(u) /\ t # u =>
        \A i \in DOMAIN legs[t], j \in DOMAIN legs[u] : legs[t][i].dest # legs[u][j].dest

PathInv == ApartInv /\ ReversalInv /\ OwnInv

\* The manifest of t is recorded.
Prepares(t) ==
    /\ call[t].pc = "append" /\ Current(call[t].writes)
    /\ legs' = [legs EXCEPT ![t] = call[t].legs] /\ state' = [state EXCEPT ![t] = "prepared"]
    /\ call'[t] = Saga

\* What a step of t's driver does to t.
LEMMA DriverMovesOwn ==
    ASSUME MoneyInv, NEW t \in Transfers, DriverStep(t)
    PROVE  /\ scenario' = scenario
           /\ \A u \in AllTransfers \ {t} : state'[u] = state[u] /\ legs'[u] = legs[u]
           /\ \A u \in Transfers \ {t} : call'[u] = call[u]
           /\ Prepares(t) \/ legs' = legs
<1>1. DOMAIN call = Transfers /\ DOMAIN state = AllTransfers /\ DOMAIN legs = AllTransfers
  BY DEF MoneyInv
<1>2. CASE RequestTransfer(t) \/ DecideTransfer(t) \/ RequestReversal(t) \/ ResumeSaga(t)
  BY <1>1, <1>2 DEF RequestTransfer, StartSelect, DecideTransfer, RequestReversal, ResumeSaga, Goto
<1>3. CASE SelectToken(t) \/ FinishSelect(t) \/ PlanDestination(t) \/ DestinationUnopened(t)
  BY <1>1, <1>3 DEF SelectToken, FinishSelect, PlanDestination, DestinationUnopened, Goto
<1>4. CASE StartPrepare(t)
  BY <1>1, <1>4 DEF StartPrepare, StartSelect, Goto
<1>5. CASE AppendPrepared(t)
  BY <1>1, <1>5 DEF AppendPrepared, Prepares, Goto
<1>6. CASE SubmitPrepared(t) \/ RecordOutcome(t) \/ PostPendingTransfer(t) \/ CancelStagedTransfer(t) \/ Crash(t)
  BY <1>1, <1>6 DEF SubmitPrepared, RecordOutcome, PostPendingTransfer, CancelStagedTransfer, Crash, Goto
<1>7. CASE CancelAcceptedTransfer(t) \/ ConfirmStagedTransfer(t)
  BY <1>1, <1>7 DEF CancelAcceptedTransfer, ConfirmStagedTransfer
<1> QED BY <1>2, <1>3, <1>4, <1>5, <1>6, <1>7 DEF DriverStep

\* Every other step leaves the Transfers alone.
LEMMA OthersLeave ==
    ASSUME MoneyInv, [Next]_vars, ~\E t \in Transfers : DriverStep(t)
    PROVE  UNCHANGED <<scenario, state, legs, call>>
BY DEF Next, vars, MintStep, Mint, MintUnopened, MintAccount, AppendMint, MintConverge, MintCrash, CloseTransaction, Expire

\* So a Transfer is moved by its own driver only, and the committed Transfers
\* the model starts with by none.
LEMMA MovedByOwn ==
    ASSUME MoneyInv, [Next]_vars
    PROVE  /\ scenario' = scenario
           /\ \A t \in AllTransfers : (t \in Transfers /\ DriverStep(t)) \/ (state'[t] = state[t] /\ legs'[t] = legs[t])
           /\ \A t \in Transfers : DriverStep(t) \/ call'[t] = call[t]
           /\ legs' = legs \/ \E t \in Transfers : DriverStep(t) /\ Prepares(t)
<1>1. CASE ~\E t \in Transfers : DriverStep(t)
  BY <1>1, OthersLeave
<1>2. CASE \E t \in Transfers : DriverStep(t)
  BY <1>2, DriverMovesOwn
<1> QED BY <1>1, <1>2

\* The states a driver goes through.
StateMoves(t) ==
    \/ state'[t] = state[t]
    \/ /\ state[t] = "none" /\ state'[t] \in {"accepted", "rejected"}
       /\ IsReversal(t) /\ state'[t] = "accepted" => state[req(t).of] = "committed"
    \/ state[t] = "accepted" /\ state'[t] = "prepared" /\ Prepares(t)
    \/ call[t].pc = "record" /\ state'[t] \in Outcomes
    \/ state[t] = "staged" /\ state'[t] = "pending"
    \/ state[t] = "accepted" /\ state'[t] = "abandoned" /\ call[t].pc = "idle"
    \/ state[t] \in {"prepared", "withdrawing"} /\ state'[t] \in {"withdrawing", "withdrawn"}

\* Where a manifest to append comes from, and when an outcome is to be recorded.
CallMoves(t) ==
    /\ call'[t].pc = "append" =>
          \/ call'[t] = call[t]
          \/ PlanDestination(t) /\ req(t).kind = "forward"
          \/ req(t).kind = "reversal" /\ call'[t].legs = reversalManifest(req(t).of) /\ state[t] = "accepted"
    /\ call'[t].pc = "record" =>
          state'[t] = state[t] /\ state[t] \in {"prepared", "staged", "pending"}

\* The handlers that decide, resume, record or give up.
LEMMA DecisionsMove ==
    ASSUME MoneyInv, LogInv, NEW t \in Transfers,
           \/ RequestTransfer(t) \/ DecideTransfer(t) \/ RequestReversal(t) \/ ResumeSaga(t)
           \/ DestinationUnopened(t) \/ Crash(t) \/ RecordOutcome(t)
    PROVE  StateMoves(t) /\ CallMoves(t)
<1>1. DOMAIN call = Transfers /\ DOMAIN state = AllTransfers /\ t \in AllTransfers /\ StandsFor(t) /\ CallKnows(t)
  BY Stands
<1>2. Idle.pc = "idle" /\ Saga.pc = "runSaga"
  BY DEF Idle, Saga
<1>3. CASE RequestTransfer(t)
  <2>1. call'[t].pc \in {"idle", "runSaga", "accept"}
    BY <1>1, <1>2, <1>3 DEF RequestTransfer, StartSelect, Goto
  <2>2. StateMoves(t)
    BY <1>1, <1>3 DEF RequestTransfer, StateMoves, IsReversal
  <2> QED BY <2>1, <2>2 DEF CallMoves
<1>4. CASE DecideTransfer(t)
  <2>1. call'[t].pc \in {"idle", "runSaga"}
    BY <1>1, <1>2, <1>4 DEF DecideTransfer, Goto
  <2>2. state[t] = "none" /\ ~IsReversal(t)
    BY <1>1, <1>4 DEF DecideTransfer, StandsFor, CallKnows, SelectKnows, Selecting, IsReversal
  <2>3. StateMoves(t)
    BY <1>1, <1>4, <2>2 DEF DecideTransfer, StateMoves
  <2> QED BY <2>1, <2>3 DEF CallMoves
<1>5. CASE RequestReversal(t)
  <2>1. call'[t].pc \in {"idle", "runSaga"}
    BY <1>1, <1>2, <1>5 DEF RequestReversal, Goto
  <2>2. StateMoves(t)
    BY <1>1, <1>5 DEF RequestReversal, StateMoves, Reversible
  <2> QED BY <2>1, <2>2 DEF CallMoves
<1>6. CASE ResumeSaga(t) \/ DestinationUnopened(t) \/ Crash(t)
  <2>1. call'[t].pc \in {"idle", "runSaga"} /\ state' = state
    BY <1>1, <1>2, <1>6 DEF ResumeSaga, DestinationUnopened, Crash, Goto
  <2> QED BY <2>1 DEF CallMoves, StateMoves
<1>7. CASE RecordOutcome(t)
  <2>1. call'[t].pc = "idle" /\ call[t].pc = "record" /\ state'[t] \in Outcomes
    BY <1>1, <1>2, <1>7 DEF RecordOutcome, Goto, CallKnows
  <2> QED BY <2>1 DEF CallMoves, StateMoves
<1> QED BY <1>3, <1>4, <1>5, <1>6, <1>7

\* The steps of prepare: a manifest to append is a reversal of the original, or
\* planDestinations has completed it.
LEMMA PreparationsMove ==
    ASSUME MoneyInv, LogInv, NEW t \in Transfers,
           SelectToken(t) \/ FinishSelect(t) \/ PlanDestination(t) \/ StartPrepare(t) \/ AppendPrepared(t)
    PROVE  StateMoves(t) /\ CallMoves(t)
<1>1. /\ DOMAIN call = Transfers /\ DOMAIN state = AllTransfers /\ DOMAIN legs = AllTransfers /\ t \in AllTransfers
      /\ StandsFor(t) /\ CallKnows(t)
  BY Stands
<1>2. Idle.pc = "idle" /\ Saga.pc = "runSaga"
  BY DEF Idle, Saga
<1>3. CASE SelectToken(t)
  <2>1. SelectKnows(t, call[t]) /\ call[t].pc \in Selecting /\ state' = state
    BY <1>1, <1>3 DEF SelectToken, CallKnows
  <2>2. PICK a, b, d : Goto(t, [call[t] EXCEPT !.todo = a, !.left = b, !.legs = d])
    BY <1>3 DEF SelectToken
  <2>3. PICK c : c = [call[t] EXCEPT !.todo = a, !.left = b, !.legs = d]
    OBVIOUS
  <2>4. c.pc = call[t].pc
    BY <2>1, <2>3 DEF SelectKnows
  <2>5. call'[t].pc \in {"accept", "prepare"}
    BY <1>1, <2>1, <2>2, <2>3, <2>4 DEF Goto, Selecting
  <2> QED BY <2>1, <2>5 DEF CallMoves, StateMoves
<1>4. CASE FinishSelect(t)
  <2>1. call'[t].pc \in {"idle", "plan"} /\ state' = state
    BY <1>1, <1>2, <1>4 DEF FinishSelect, Goto
  <2> QED BY <2>1 DEF CallMoves, StateMoves
<1>5. CASE PlanDestination(t)
  <2>1. call'[t].pc = "append" /\ state' = state
    BY <1>1, <1>5 DEF PlanDestination, Goto
  <2>2. req(t).kind = "forward"
    BY <1>1, <1>5 DEF PlanDestination, CallKnows, PlanKnows
  <2> QED BY <1>5, <2>1, <2>2 DEF CallMoves, StateMoves
<1>6. CASE StartPrepare(t)
  <2>1. state' = state /\ state[t] = "accepted"
    BY <1>6 DEF StartPrepare
  <2>2. \/ call'[t].pc = "append" /\ req(t).kind = "reversal" /\ call'[t].legs = reversalManifest(req(t).of)
        \/ call'[t].pc \in {"plan", "prepare"}
    BY <1>1, <1>6 DEF StartPrepare, StartSelect, Goto
  <2> QED BY <2>1, <2>2 DEF CallMoves, StateMoves
<1>7. CASE AppendPrepared(t)
  <2>1. call'[t].pc \in {"idle", "runSaga"} /\ state[t] = "accepted"
    BY <1>1, <1>2, <1>7 DEF AppendPrepared, Goto, StandsFor
  <2>2. state' = state \/ (Prepares(t) /\ state'[t] = "prepared")
    BY <1>1, <1>7 DEF AppendPrepared, Prepares, Goto
  <2> QED BY <2>1, <2>2 DEF CallMoves, StateMoves
<1> QED BY <1>3, <1>4, <1>5, <1>6, <1>7

\* A submission leaves an outcome to record and the state as it is.
LEMMA SubmissionsMove ==
    ASSUME MoneyInv, NEW t \in Transfers,
           \/ SubmitPrepared(t) \/ PostPendingTransfer(t) \/ CancelStagedTransfer(t)
           \/ CancelAcceptedTransfer(t) \/ ConfirmStagedTransfer(t)
    PROVE  StateMoves(t) /\ CallMoves(t)
<1>1. DOMAIN call = Transfers /\ DOMAIN state = AllTransfers /\ t \in AllTransfers /\ Idle.pc = "idle"
  BY DEF MoneyInv, AllTransfers, Idle
<1>2. CASE ConfirmStagedTransfer(t)
  <2>1. state[t] = "staged" /\ state'[t] = "pending" /\ call'[t].pc = "idle"
    BY <1>1, <1>2 DEF ConfirmStagedTransfer
  <2> QED BY <2>1 DEF StateMoves, CallMoves
<1>3. CASE SubmitPrepared(t)
  <2>1. state' = state /\ (call'[t].pc = "idle" \/ (state[t] = "prepared" /\ call'[t].pc = "record"))
    BY <1>1, <1>3 DEF SubmitPrepared, Goto
  <2> QED BY <2>1 DEF StateMoves, CallMoves
<1>4. CASE PostPendingTransfer(t)
  <2>1. state' = state /\ state[t] = "pending" /\ call'[t].pc = "record"
    BY <1>1, <1>4 DEF PostPendingTransfer, Goto
  <2> QED BY <2>1 DEF StateMoves, CallMoves
<1>5. CASE CancelStagedTransfer(t)
  <2>1. state' = state /\ state[t] \in {"staged", "pending"} /\ call'[t].pc \in {"record", "idle"}
    BY <1>1, <1>5 DEF CancelStagedTransfer, Goto
  <2> QED BY <2>1 DEF StateMoves, CallMoves
<1>6. CASE CancelAcceptedTransfer(t)
  <2>1. /\ \/ state[t] = "accepted" /\ state'[t] = "abandoned"
           \/ state[t] \in {"prepared", "withdrawing"} /\ state'[t] \in {"withdrawing", "withdrawn"}
        /\ call'[t].pc = "idle" /\ call[t].pc = "idle"
    BY <1>1, <1>6 DEF CancelAcceptedTransfer
  <2> QED BY <2>1 DEF StateMoves, CallMoves
<1> QED BY <1>2, <1>3, <1>4, <1>5, <1>6

\* Every step of a driver is one of these.
LEMMA DriverIs ==
    ASSUME MoneyInv, LogInv, NEW t \in Transfers, DriverStep(t)
    PROVE  StateMoves(t) /\ CallMoves(t)
BY DecisionsMove, PreparationsMove, SubmissionsMove DEF DriverStep
\* A committed Transfer stays committed, with the legs it has.
LEMMA CommittedStays ==
    ASSUME MoneyInv, LogInv, ReversalInv, [Next]_vars, NEW t \in AllTransfers, state[t] = "committed"
    PROVE  state'[t] = "committed" /\ legs'[t] = legs[t]
<1>1. CASE t \in Transfers /\ DriverStep(t)
  <2>1. StateMoves(t) /\ (Prepares(t) \/ legs' = legs) /\ StandsFor(t)
    BY <1>1, DriverIs, DriverMovesOwn DEF LogInv
  <2>2. call[t].pc \notin {"record", "append"}
    BY <1>1, <2>1 DEF ReversalInv, StandsFor
  <2> QED BY <2>1, <2>2 DEF StateMoves, Prepares
<1> QED BY <1>1, MovedByOwn

\* ... and so does the manifest of its reversals.
LEMMA ReversalStays ==
    ASSUME NEW t, legs'[t] = legs[t]
    PROVE  reversalManifest(t)' = reversalManifest(t)
BY DEF reversalManifest

\* A reversal goes on to be that of a committed Transfer (reversalManifest).
LEMMA ReversalInvNext ==
    ASSUME MoneyInv, LogInv, ReversalInv, [Next]_vars
    PROVE  ReversalInv'
<1> SUFFICES ASSUME NEW t \in Transfers
             PROVE  /\ call'[t].pc = "record" => state'[t] \in {"prepared", "staged", "pending"}
                    /\ call'[t].pc = "append" => req(t).kind \in {"forward", "reversal"}
                    /\ req(t).kind = "reversal" =>
                          /\ state'[t] \notin {"none", "rejected"} => state'[req(t).of] = "committed"
                          /\ call'[t].pc = "append" => call'[t].legs = reversalManifest(req(t).of)'
                          /\ state'[t] \notin {"none", "accepted", "rejected", "abandoned"} => legs'[t] = reversalManifest(req(t).of)'
  <2>1. scenario' = scenario
    BY MovedByOwn
  <2>2. \A t : req(t)' = req(t)
    BY <2>1, RequestsStay
  <2> QED BY <2>2 DEF ReversalInv, reversalManifest
<1>1. StandsFor(t) /\ t \in AllTransfers
  BY DEF LogInv, AllTransfers
<1>2. /\ (StateMoves(t) /\ CallMoves(t)) \/ (state'[t] = state[t] /\ call'[t] = call[t])
      /\ Prepares(t) \/ legs'[t] = legs[t]
      /\ Prepares(t) => legs'[t] = call[t].legs /\ call[t].pc = "append"
  <2>1. DOMAIN legs = AllTransfers
    BY DEF MoneyInv
  <2>2. Prepares(t) => legs'[t] = call[t].legs /\ call[t].pc = "append"
    BY <1>1, <2>1 DEF Prepares
  <2>3. CASE DriverStep(t)
    BY <2>2, <2>3, DriverIs, DriverMovesOwn
  <2>4. CASE ~DriverStep(t)
    BY <1>1, <2>2, <2>4, MovedByOwn
  <2> QED BY <2>3, <2>4
<1>3. /\ call'[t].pc = "record" => state'[t] \in {"prepared", "staged", "pending"}
      /\ call'[t].pc = "append" => req(t).kind \in {"forward", "reversal"}
  BY <1>2 DEF ReversalInv, CallMoves
<1>4. ASSUME req(t).kind = "reversal"
      PROVE  /\ state'[t] \notin {"none", "rejected"} => state'[req(t).of] = "committed"
             /\ call'[t].pc = "append" => call'[t].legs = reversalManifest(req(t).of)'
             /\ state'[t] \notin {"none", "accepted", "rejected", "abandoned"} => legs'[t] = reversalManifest(req(t).of)'
  <2>1. PICK u \in AllTransfers : u = req(t).of
    BY <1>4, Requested DEF MoneyInv, Request
  <2>2. state[u] = "committed" => /\ state'[u] = "committed"
                                  /\ reversalManifest(u)' = reversalManifest(u)
    BY CommittedStays, ReversalStays
  <2>3. /\ state[t] \notin {"none", "rejected"} => state[u] = "committed"
        /\ call[t].pc = "append" => call[t].legs = reversalManifest(u)
        /\ state[t] \notin {"none", "accepted", "rejected", "abandoned"} => legs[t] = reversalManifest(u)
        /\ call[t].pc = "record" => state[t] \in {"prepared", "staged", "pending"}
    BY <1>4, <2>1 DEF ReversalInv
  <2>4. call[t].pc = "append" => state[t] = "accepted"
    BY <1>1 DEF StandsFor
  <2>5. state'[t] \notin {"none", "rejected"} => state[u] = "committed" /\ state'[u] = "committed"
    BY <1>2, <1>4, <2>1, <2>2, <2>3 DEF StateMoves, IsReversal, Outcomes
  <2>6. call'[t].pc = "append" => call'[t].legs = reversalManifest(u) /\ state[t] = "accepted"
    BY <1>2, <1>4, <2>1, <2>3, <2>4 DEF CallMoves
  <2>7. state'[t] \notin {"none", "accepted", "rejected", "abandoned"} => legs'[t] = reversalManifest(u)
    BY <1>2, <2>3 DEF StateMoves, Outcomes
  <2>8. /\ call'[t].pc = "append" => call'[t].legs = reversalManifest(u)'
        /\ state'[t] \notin {"none", "accepted", "rejected", "abandoned"} => legs'[t] = reversalManifest(u)'
    BY <2>2, <2>3, <2>5, <2>6, <2>7
  <2>9. reversalManifest(u)' = reversalManifest(req(t).of)'
    <3>1. scenario' = scenario
      BY MovedByOwn
    <3>2. req(t)' = req(t)
      BY <3>1, RequestsStay
    <3> QED BY <2>1, <3>2
  <2> QED BY <2>1, <2>5, <2>8, <2>9
<1> QED BY <1>3, <1>4

\* planDestinations draws a Token that no leg takes from.
LEMMA PlanIsApart ==
    ASSUME MoneyInv, CoverInv, NEW t \in Transfers, PlanDestination(t)
    PROVE  Apart(call'[t].legs)
<1> DEFINE ls == call[t].legs
           new == [i \in DOMAIN ls |-> [source |-> ls[i].source, dest |-> Fresh, amount |-> ls[i].amount]]
<1>1. DOMAIN call = Transfers /\ PlanKnows(t, call[t])
  BY DEF MoneyInv, CallKnows, PlanDestination
<1>2. Fresh \notin DOMAIN ledger.accounts
  BY DEF PlanDestination, CanDraw, Fresh
<1>3. \A i \in DOMAIN ls : ls[i].source \in DOMAIN ledger.accounts
  BY <1>1 DEF PlanKnows, SourceKnown, TokensIn, WritesKnow, WriteKnows, MoneyInv, StreamsInv, MintedIsBackedAndListed
<1>4. call'[t].legs = new
  BY <1>1 DEF PlanDestination, Goto
<1>5. /\ DOMAIN new = DOMAIN ls
      /\ \A i \in DOMAIN ls : new[i].source = ls[i].source /\ new[i].dest = Fresh /\ new[i].amount = ls[i].amount
  OBVIOUS
<1>6. \A i \in DOMAIN ls : ls[i].amount > 0
  BY DEF CoverInv, CallCovers, BringsAllBut, PlanDestination
<1> QED BY <1>2, <1>3, <1>4, <1>5, <1>6 DEF Apart

\* A reversal's legs are those of the original.
LEMMA ReversalIsApart ==
    ASSUME NEW t, Apart(legs[t])
    PROVE  Apart(reversalManifest(t))
<1>1. /\ DOMAIN reversalManifest(t) = DOMAIN legs[t]
      /\ \A i \in DOMAIN legs[t] : /\ reversalManifest(t)[i].source = legs[t][i].dest
                                   /\ reversalManifest(t)[i].dest = legs[t][i].source
                                   /\ reversalManifest(t)[i].amount = legs[t][i].amount
  BY DEF reversalManifest
<1> QED BY <1>1 DEF Apart

\* Every step keeps the two sides of a leg apart.
LEMMA ApartInvNext ==
    ASSUME MoneyInv, LogInv, CoverInv, ApartInv, [Next]_vars
    PROVE  ApartInv'
<1>1. ASSUME NEW t \in AllTransfers PROVE Apart(legs'[t])
  <2>1. CASE legs'[t] = legs[t]
    BY <2>1 DEF ApartInv
  <2>2. CASE legs'[t] # legs[t]
    <3>1. t \in Transfers /\ Prepares(t) /\ DOMAIN legs = AllTransfers
      BY <2>2, MovedByOwn, DriverMovesOwn DEF MoneyInv
    <3>2. legs'[t] = call[t].legs /\ call[t].pc = "append"
      BY <3>1 DEF Prepares
    <3> QED BY <3>1, <3>2 DEF ApartInv
  <2> QED BY <2>1, <2>2
<1>2. ASSUME NEW t \in Transfers, call'[t].pc = "append" PROVE Apart(call'[t].legs)
  <2>1. CASE call'[t] = call[t]
    BY <1>2, <2>1 DEF ApartInv
  <2>2. CASE PlanDestination(t)
    BY <2>2, PlanIsApart
  <2>3. CASE req(t).kind = "reversal" /\ call'[t].legs = reversalManifest(req(t).of)
    <3>1. req(t).of \in AllTransfers
      BY <2>3, Requested DEF MoneyInv, Request
    <3> QED BY <2>3, <3>1, ReversalIsApart DEF ApartInv
  <2> QED BY <1>2, <2>1, <2>2, <2>3, MovedByOwn, DriverIs DEF CallMoves
<1> QED BY <1>1, <1>2 DEF ApartInv, Apart

\* A new destination is no destination of another Transfer.
LEMMA OwnInvNext ==
    ASSUME MoneyInv, LogInv, CoverInv, ReversalInv, OwnInv, [Next]_vars
    PROVE  OwnInv'
<1>1. scenario' = scenario /\ \A t : IsReversal(t)' <=> IsReversal(t)
  <2>1. scenario' = scenario
    BY MovedByOwn
  <2> QED BY <2>1, RequestsStay DEF IsReversal
<1>2. CASE legs' = legs
  BY <1>1, <1>2 DEF OwnInv
<1>3. ASSUME NEW t \in Transfers, DriverStep(t), Prepares(t) PROVE OwnInv'
  <2>1. /\ t \in AllTransfers /\ DOMAIN legs = AllTransfers /\ call[t].pc = "append" /\ Current(call[t].writes)
        /\ legs'[t] = call[t].legs /\ \A u \in AllTransfers : u # t => legs'[u] = legs[u]
    BY <1>3 DEF MoneyInv, AllTransfers, Prepares
  <2>2. ASSUME ~IsReversal(t), NEW i \in DOMAIN legs'[t] PROVE legs'[t][i].dest \notin DOMAIN minted
    <3>1. req(t).kind = "forward"
      BY <2>1, <2>2 DEF ReversalInv, IsReversal
    <3>2. IntoMint(t, call[t].legs, call[t].writes)
      BY <2>1, <3>1 DEF CoverInv, CallCovers
    <3> QED BY <2>1, <2>2, <3>2 DEF IntoMint, Current
  <2>3. \A u \in AllTransfers : \A j \in DOMAIN legs[u] : legs[u][j].dest \in DOMAIN minted
    BY ManifestsAre DEF MoneyInv, LegsKnow
  <2> QED BY <1>1, <2>1, <2>2, <2>3 DEF OwnInv
<1> QED BY <1>2, <1>3, MovedByOwn

\* Every step keeps the invariant of the legs.
LEMMA PathInvNext ==
    ASSUME MoneyInv, LogInv, CoverInv, PathInv, [Next]_vars
    PROVE  PathInv'
BY ReversalInvNext, ApartInvNext, OwnInvNext DEF PathInv

\* The legs of a committed Transfer are those of its place in the scenario.
LEMMA FundedLegs ==
    ASSUME Init, NEW t \in Funded
    PROVE  \E n \in DOMAIN scenario.funding :
              /\ scenario.funding[n].id = t /\ legs[t] = scenario.funding[n].legs
              /\ \A m \in DOMAIN scenario.funding : scenario.funding[m].id = t => m = n
<1>1. PICK s \in Scenarios : s = scenario
  BY DEF Init
<1> DEFINE n == CHOOSE i \in DOMAIN s.funding : s.funding[i].id = t
<1>2. n \in DOMAIN s.funding /\ s.funding[n].id = t
  BY MoneyAssumption DEF Funding
<1>3. legs[t] = s.funding[n].legs
  BY <1>1 DEF Init, AllTransfers
<1> HIDE DEF n
<1>4. \A m \in DOMAIN s.funding : s.funding[m].id = t => m = n
  BY <1>2, FundingIs
<1> QED BY <1>1, <1>2, <1>3, <1>4

\* It holds of the Transfers the model starts with.
LEMMA PathInvInit == ASSUME Init PROVE PathInv
<1>1. PICK s \in Scenarios : s = scenario
  BY DEF Init
<1>2. /\ \A t \in Transfers : call[t] = Idle /\ state[t] = "none" /\ legs[t] = << >>
      /\ Idle.pc = "idle" /\ DOMAIN << >> = {}
  BY MoneyAssumption DEF Init, AllTransfers, Idle
<1>3. ReversalInv
  BY <1>2 DEF ReversalInv
<1>4. ApartInv
  <2>1. ASSUME NEW t \in Funded PROVE Apart(legs[t])
    <3>1. PICK n \in DOMAIN s.funding : legs[t] = s.funding[n].legs
      BY <1>1, <2>1, FundedLegs
    <3> QED BY <3>1, FundingIs DEF Apart
  <2> QED BY <1>2, <2>1 DEF ApartInv, Apart, AllTransfers
<1>5. ASSUME NEW t \in AllTransfers, NEW u \in AllTransfers, t # u, NEW i \in DOMAIN legs[t], NEW j \in DOMAIN legs[u]
      PROVE  legs[t][i].dest # legs[u][j].dest
  <2>1. t \in Funded /\ u \in Funded
    BY <1>2, <1>5 DEF AllTransfers
  <2>2. PICK n \in DOMAIN s.funding : s.funding[n].id = t /\ legs[t] = s.funding[n].legs
    BY <1>1, <2>1, FundedLegs
  <2>3. PICK m \in DOMAIN s.funding : s.funding[m].id = u /\ legs[u] = s.funding[m].legs
    BY <1>1, <2>1, FundedLegs
  <2>4. m # n
    BY <1>5, <2>2, <2>3
  <2> QED BY <1>5, <2>2, <2>3, <2>4, FundingIs
<1> QED BY <1>3, <1>4, <1>5 DEF PathInv, OwnInv
-----------------------------------------------------------------------------
(* The books and the entries in them.                                        *)

\* Every entry belongs to a Transfer, and the entries of the Transfers the model
\* starts with are their legs; those of the others are described by EntriesOf.
EntryInv ==
    /\ \A id \in DOMAIN ledger.transfers :
          \E t \in AllTransfers : \E i : id \in {OpID(t, i), PostID(t, i), VoidID(t, i)}
    /\ \A t \in Funded : \A i :
          /\ {PostID(t, i), VoidID(t, i)} \intersect DOMAIN ledger.transfers = {}
          /\ OpID(t, i) \in DOMAIN ledger.transfers =>
                /\ i \in DOMAIN legs[t]
                /\ LET e == ledger.transfers[OpID(t, i)]
                   IN  /\ e.kind = "Regular" /\ e.amount = legs[t][i].amount
                       /\ e.debit = legs[t][i].source /\ e.credit = legs[t][i].dest

BooksInv == Booked(ledger) /\ EntryInv

\* What a step may do to the ledger.
LEMMA LedgerMoves ==
    ASSUME MoneyInv, [Next]_vars
    PROVE  \/ ledger' = ledger
           \/ \E id, w : ledger' = CreateAccounts(ledger, id, FlagsOf(w)).ledger
           \/ \E t \in Transfers : \E kind \in Kinds : ledger' = CreateTransfers(ledger, Batch(t, kind)).ledger
           \/ \E id \in DOMAIN ledger.pending : ledger.pending[id] = "open" /\ ledger' = ExpirePending(ledger, id)
<1>1. ASSUME NEW t \in Transfers, DriverStep(t)
      PROVE  \/ ledger' = ledger
             \/ \E id, w : ledger' = CreateAccounts(ledger, id, FlagsOf(w)).ledger
             \/ \E kind \in Kinds : ledger' = CreateTransfers(ledger, Batch(t, kind)).ledger
  <2>1. CASE SubmitPrepared(t)
    <3>1. PICK kind : /\ kind = (IF req(t).stage THEN "Pending" ELSE "Regular")
                      /\ ledger' = CreateTransfers(ledger, Batch(t, kind)).ledger
      BY <2>1 DEF SubmitPrepared
    <3>2. kind \in Kinds
      BY <3>1 DEF Kinds
    <3> QED BY <3>1, <3>2
  <2>2. CASE PostPendingTransfer(t)
    <3>1. ledger' = CreateTransfers(ledger, Batch(t, "PostPending")).ledger
      BY <2>2 DEF PostPendingTransfer
    <3> QED BY <3>1 DEF Kinds
  <2>3. CASE CancelStagedTransfer(t)
    <3>1. ledger' = CreateTransfers(ledger, Batch(t, "VoidPending")).ledger
      BY <2>3 DEF CancelStagedTransfer
    <3> QED BY <3>1 DEF Kinds
  <2>4. CASE PlanDestination(t)
    <3>1. \E id, w : ledger' = CreateAccounts(ledger, id, FlagsOf(w)).ledger
      BY <2>4 DEF PlanDestination
    <3> QED BY <3>1
  <2>5. CASE StartPrepare(t)
    <3>1. ledger' = ledger \/ \E id, w : ledger' = CreateAccounts(ledger, id, FlagsOf(w)).ledger
      BY <2>5 DEF StartPrepare
    <3> QED BY <3>1
  <2>6. CASE RequestTransfer(t) \/ SelectToken(t) \/ DecideTransfer(t) \/ RequestReversal(t) \/ ResumeSaga(t)
    BY <2>6 DEF RequestTransfer, SelectToken, DecideTransfer, RequestReversal, ResumeSaga
  <2>7. CASE \/ FinishSelect(t) \/ DestinationUnopened(t) \/ AppendPrepared(t) \/ RecordOutcome(t)
             \/ CancelAcceptedTransfer(t) \/ ConfirmStagedTransfer(t) \/ Crash(t)
    BY <2>7 DEF FinishSelect, DestinationUnopened, AppendPrepared, RecordOutcome, CancelAcceptedTransfer,
                ConfirmStagedTransfer, Crash
  <2> QED BY <1>1, <2>1, <2>2, <2>3, <2>4, <2>5, <2>6, <2>7 DEF DriverStep
<1>2. ASSUME NEW k \in Mints, MintStep(k)
      PROVE  ledger' = ledger \/ \E id, w : ledger' = CreateAccounts(ledger, id, FlagsOf(w)).ledger
  <2>1. CASE MintAccount(k)
    BY <2>1 DEF MintAccount
  <2>2. CASE ~MintAccount(k)
    BY <1>2, <2>2 DEF MintStep, Mint, MintUnopened, AppendMint, MintConverge, MintCrash
  <2> QED BY <2>1, <2>2
<1>3. ASSUME NEW x \in Transactions, CloseTransaction(x) PROVE ledger' = ledger
  BY <1>3 DEF CloseTransaction
<1>4. ASSUME NEW id \in DOMAIN ledger.pending, Expire(id)
      PROVE  ledger.pending[id] = "open" /\ ledger' = ExpirePending(ledger, id)
  BY <1>4 DEF Expire
<1>5. UNCHANGED vars => ledger' = ledger
  BY DEF vars
<1> QED BY <1>1, <1>2, <1>3, <1>4, <1>5 DEF Next

\* The legs of the committed Transfers and the ledger's entries for them stay.
LEMMA EntryInvNext ==
    ASSUME MoneyInv, EntryInv, [Next]_vars
    PROVE  EntryInv'
<1>1. \A t \in Funded : legs'[t] = legs[t] /\ t \notin Transfers /\ t \in AllTransfers
  <2>1. \A t \in Funded : t \notin Transfers /\ t \in AllTransfers
    BY MoneyAssumption DEF AllTransfers
  <2> QED BY <2>1, MovedByOwn
<1>2. IsLedger(ledger)
  BY DEF MoneyInv, LedgerInv
<1>3. CASE ledger'.transfers = ledger.transfers
  BY <1>1, <1>3 DEF EntryInv, OpID, PostID, VoidID
<1>4. ASSUME NEW t \in Transfers, NEW kind \in Kinds, ledger' = CreateTransfers(ledger, Batch(t, kind)).ledger
      PROVE  EntryInv'
  <2>1. Submitted(t, kind) /\ t \in AllTransfers
    BY <1>4, SubmissionChanges DEF AllTransfers
  <2>2. ASSUME NEW id \in DOMAIN ledger'.transfers, id \notin DOMAIN ledger.transfers
        PROVE  \E i : id \in {OpID(t, i), PostID(t, i), VoidID(t, i)}
    BY <2>1, <2>2 DEF Submitted, IdOf
  <2>3. ASSUME NEW id \in DOMAIN ledger'.transfers
        PROVE  \E u \in AllTransfers : \E i : id \in {OpID(u, i), PostID(u, i), VoidID(u, i)}
    <3>1. CASE id \in DOMAIN ledger.transfers
      BY <3>1 DEF EntryInv
    <3>2. CASE id \notin DOMAIN ledger.transfers
      BY <2>1, <2>2, <3>2
    <3> QED BY <3>1, <3>2
  <2>4. ASSUME NEW u \in Funded, NEW i, NEW id \in {OpID(u, i), PostID(u, i), VoidID(u, i)}, id \in DOMAIN ledger'.transfers
        PROVE  id \in DOMAIN ledger.transfers /\ ledger'.transfers[id] = ledger.transfers[id]
    <3>1. u # t
      BY <1>1
    <3>2. \A j : id \notin {OpID(t, j), PostID(t, j), VoidID(t, j)}
      BY <3>1, IdsDiffer
    <3>3. id \in DOMAIN ledger.transfers
      BY <2>2, <2>4, <3>2
    <3> QED BY <2>1, <3>3 DEF Submitted
  <2>5. ASSUME NEW u \in Funded, NEW i
        PROVE  /\ {PostID(u, i), VoidID(u, i)} \intersect DOMAIN ledger'.transfers = {}
               /\ OpID(u, i) \in DOMAIN ledger'.transfers =>
                     /\ i \in DOMAIN legs'[u]
                     /\ LET e == ledger'.transfers[OpID(u, i)]
                        IN  /\ e.kind = "Regular" /\ e.amount = legs'[u][i].amount
                            /\ e.debit = legs'[u][i].source /\ e.credit = legs'[u][i].dest
    <3>1. /\ {PostID(u, i), VoidID(u, i)} \intersect DOMAIN ledger.transfers = {}
          /\ OpID(u, i) \in DOMAIN ledger.transfers =>
                /\ i \in DOMAIN legs[u]
                /\ LET e == ledger.transfers[OpID(u, i)]
                   IN  /\ e.kind = "Regular" /\ e.amount = legs[u][i].amount
                       /\ e.debit = legs[u][i].source /\ e.credit = legs[u][i].dest
      BY DEF EntryInv
    <3>2. legs'[u] = legs[u]
      BY <1>1
    <3> QED BY <2>4, <3>1, <3>2
  <2> QED BY <2>3, <2>5 DEF EntryInv, OpID, PostID, VoidID
<1>5. ASSUME NEW id, NEW w, ledger' = CreateAccounts(ledger, id, FlagsOf(w)).ledger
      PROVE  ledger'.transfers = ledger.transfers
  <2>1. PICK L, flags : L = ledger /\ flags = FlagsOf(w)
    OBVIOUS
  <2>2. IsLedger(L) /\ flags \in Flags
    BY <1>2, <2>1, FlagsFromPolicy DEF FlagsOf
  <2> QED BY <1>5, <2>1, <2>2, AccountIsCreated
<1>6. ASSUME NEW id \in DOMAIN ledger.pending, ledger' = ExpirePending(ledger, id)
      PROVE  ledger'.transfers = ledger.transfers
  <2>1. PICK L : L = ledger
    OBVIOUS
  <2> QED BY <1>2, <1>6, <2>1, ReservationExpires
<1> QED BY <1>3, <1>4, <1>5, <1>6, LedgerMoves

\* Every step keeps the books.
LEMMA BooksInvNext ==
    ASSUME MoneyInv, ApartInv, BooksInv, [Next]_vars
    PROVE  BooksInv'
<1>1. PICK L : L = ledger
  OBVIOUS
<1>2. IsLedger(L) /\ Booked(L)
  BY <1>1 DEF MoneyInv, LedgerInv, BooksInv
<1>3. Booked(ledger')
  <2>1. CASE ledger' = ledger
    BY <1>1, <1>2, <2>1
  <2>2. ASSUME NEW id, NEW w, ledger' = CreateAccounts(ledger, id, FlagsOf(w)).ledger PROVE Booked(ledger')
    <3>1. PICK flags \in Flags : flags = FlagsOf(w)
      BY FlagsFromPolicy DEF FlagsOf
    <3> QED BY <1>1, <1>2, <2>2, <3>1, AccountIsBooked
  <2>3. ASSUME NEW t \in Transfers, NEW kind \in Kinds, ledger' = CreateTransfers(ledger, Batch(t, kind)).ledger
        PROVE  Booked(ledger')
    <3>1. PICK batch : batch = Batch(t, kind)
      OBVIOUS
    <3>2. t \in AllTransfers /\ Apart(legs[t])
      BY DEF ApartInv, AllTransfers
    <3>3. IsBatch(batch) /\ \A i \in DOMAIN batch : batch[i].debit # batch[i].credit
      BY <3>1, <3>2, BatchIs DEF MoneyInv, LegsKnow, Apart
    <3> QED BY <1>1, <1>2, <2>3, <3>1, <3>3, BatchKeepsBooks
  <2>4. ASSUME NEW id \in DOMAIN ledger.pending, ledger.pending[id] = "open", ledger' = ExpirePending(ledger, id)
        PROVE  Booked(ledger')
    BY <1>1, <1>2, <2>4, ExpiryKeepsBooks
  <2> QED BY <2>1, <2>2, <2>3, <2>4, LedgerMoves
<1>4. Booked(ledger)'
  BY <1>3 DEF Booked, BookedOn, InEffect, Held, DebitOn, CreditOn
<1> QED BY <1>4, EntryInvNext DEF BooksInv

\* The ledger the model starts with is booked, and its entries are legs.
LEMMA BooksInvInit == ASSUME Init PROVE BooksInv
<1>1. PICK s \in Scenarios : s = scenario
  BY DEF Init
<1>2. IsFunded(ledger, s)
  BY <1>1, FundedLedgerIs DEF Init
<1>3. ASSUME NEW id \in DOMAIN ledger.transfers
      PROVE  \E t \in AllTransfers : \E i : id \in {OpID(t, i), PostID(t, i), VoidID(t, i)}
  BY <1>2 DEF IsFunded, AllTransfers
<1>4. ASSUME NEW t \in Funded, NEW i
      PROVE  {PostID(t, i), VoidID(t, i)} \intersect DOMAIN ledger.transfers = {}
  BY <1>2, IdsDiffer DEF IsFunded
<1>5. ASSUME NEW t \in Funded, NEW i, OpID(t, i) \in DOMAIN ledger.transfers
      PROVE  /\ i \in DOMAIN legs[t]
             /\ LET e == ledger.transfers[OpID(t, i)]
                IN  /\ e.kind = "Regular" /\ e.amount = legs[t][i].amount
                    /\ e.debit = legs[t][i].source /\ e.credit = legs[t][i].dest
  <2>1. PICK e : e = ledger.transfers[OpID(t, i)]
    OBVIOUS
  <2>2. FundingEntry(s, OpID(t, i), e) /\ e.kind = "Regular"
    BY <1>2, <1>5, <2>1 DEF IsFunded
  <2>3. PICK n \in DOMAIN s.funding : \E j \in DOMAIN s.funding[n].legs :
           LET l == s.funding[n].legs[j]
           IN  OpID(t, i) = OpID(s.funding[n].id, j) /\ e.debit = l.source /\ e.credit = l.dest /\ e.amount = l.amount
    BY <2>2 DEF FundingEntry
  <2>4. s.funding[n].id = t
    BY <2>3, IdsDiffer
  <2>5. legs[t] = s.funding[n].legs
    BY <1>1, <2>4, FundedLegs
  <2> QED BY <2>1, <2>2, <2>3, <2>5, IdsDiffer
<1> QED BY <1>2, <1>3, <1>4, <1>5 DEF BooksInv, EntryInv, IsFunded

\* The books are in order in every behaviour: every total of an account is the
\* sum of what the entries of Transfers moved or hold on it, and each leg takes
\* from one Token to bring to another (CreateTransfers, planDestinations,
\* reversalManifest).
THEOREM AlwaysBooked == Spec => [](PathInv /\ BooksInv)
<1>1. Init => PathInv /\ BooksInv
  BY PathInvInit, BooksInvInit
<1>2. MoneyInv /\ LogInv /\ CoverInv /\ PathInv /\ BooksInv /\ [Next]_vars => PathInv' /\ BooksInv'
  BY PathInvNext, BooksInvNext DEF PathInv
<1> QED BY <1>1, <1>2, AlwaysMoneyInv, AlwaysLogInv, AlwaysCoverInv, PTL DEF Spec
-----------------------------------------------------------------------------
(* Balances.                                                                 *)

\* What a leg brings to Token k, or takes from it.
LegOn(k, x) ==
    LET l == legs[x[1]][x[2]]
    IN  (IF l.dest = k THEN l.amount ELSE 0) - (IF l.source = k THEN l.amount ELSE 0)

\* MapThenSumSet adds that up.
LEMMA PostedSum ==
    ASSUME NEW k, IsFiniteSet(PostedLegs)
    PROVE  MapThenSumSet(LAMBDA x : LET l == legs[x[1]][x[2]]
                                    IN  (IF l.dest = k THEN l.amount ELSE 0)
                                        - (IF l.source = k THEN l.amount ELSE 0),
                         PostedLegs)
              = SumOver([x \in PostedLegs |-> LegOn(k, x)], PostedLegs)
<1> DEFINE S == PostedLegs
           g == [x \in S |-> LegOn(k, x)]
           Adds(f) == f = [s \in SUBSET S |-> IF s = {} THEN 0 ELSE LegOn(k, AnyOf(s)) + f[s \ {AnyOf(s)}]]
           F == CHOOSE f : Adds(f)
<1>1. MapThenSumSet(LAMBDA x : LET l == legs[x[1]][x[2]]
                               IN  (IF l.dest = k THEN l.amount ELSE 0)
                                   - (IF l.source = k THEN l.amount ELSE 0),
                    PostedLegs)
         = F[S]
  BY Zenon DEF MapThenSumSet, MapThenFoldSet, LegOn, AnyOf
<1>2. ASSUME NEW f PROVE IsSum(f, g, S) <=> Adds(f)
  <2>1. \A s \in SUBSET S : s # {} => g[AnyOf(s)] = LegOn(k, AnyOf(s))
    BY AnyOfIs
  <2> HIDE DEF g
  <2> QED BY <2>1 DEF IsSum
<1>3. PICK f : IsSum(f, g, S)
  BY SumsExist
<1>4. Adds(F)
  BY <1>2, <1>3, Zenon
<1>5. IsSum(F, g, S)
  BY <1>2, <1>4
<1> HIDE DEF F, g
<1>6. F[S] = SumOver(g, S)
  BY <1>5, SumIsSumOver
<1> QED BY <1>1, <1>6 DEF g

\* Entry id of the ledger is the leg x = <<t, i>>.
IsLegOf(id, x) ==
    LET e == ledger.transfers[id]
        l == legs[x[1]][x[2]]
    IN  id = OpID(x[1], x[2]) /\ e.debit = l.source /\ e.credit = l.dest /\ e.amount = l.amount

\* Every leg on the ledger is one of the manifest, and it moves its money
\* straight away or is reserved first.
LEMMA OpIsLeg ==
    ASSUME MoneyInv, LogInv, BooksInv, NEW t \in AllTransfers, NEW i, OpID(t, i) \in DOMAIN ledger.transfers
    PROVE  /\ i \in DOMAIN legs[t] /\ IsLegOf(OpID(t, i), <<t, i>>)
           /\ ledger.transfers[OpID(t, i)].kind \in {"Regular", "Pending"}
<1>0. <<t, i>>[1] = t /\ <<t, i>>[2] = i
  OBVIOUS
<1>1. CASE t \in Funded
  BY <1>0, <1>1 DEF BooksInv, EntryInv, IsLegOf
<1>2. CASE t \in Transfers
  <2>1. PICK kind \in {"Regular", "Pending"} : kind = OpKind(t)
    BY DEF OpKind
  <2>2. i \in DOMAIN legs[t] /\ ledger.transfers[OpID(t, i)] = Batch(t, kind)[i]
    BY <1>2, <2>1 DEF LogInv, EntriesOf
  <2>3. legs[t] \in Manifests(DOMAIN minted) /\ kind \in Kinds
    BY DEF MoneyInv, LegsKnow, Kinds
  <2> QED BY <1>0, <2>2, <2>3, BatchIs DEF IsLegOf
<1> QED BY <1>1, <1>2 DEF AllTransfers

\* The entries in effect are the legs that are posted.
LEMMA InEffectIsPosted ==
    ASSUME MoneyInv, LogInv, BooksInv
    PROVE  /\ \A id \in InEffect(ledger) : \E x \in PostedLegs : IsLegOf(id, x)
           /\ \A x \in PostedLegs : OpID(x[1], x[2]) \in InEffect(ledger)
           /\ \A t \in AllTransfers : \A i \in DOMAIN legs[t] : LegPosted(t, i) <=> <<t, i>> \in PostedLegs
<1>0. IsLedger(ledger)
  BY DEF MoneyInv, LedgerInv
<1>1. \A t \in AllTransfers : \A i \in DOMAIN legs[t] : LegPosted(t, i) => <<t, i>> \in PostedLegs
  BY DEF PostedLegs
<1>2. ASSUME NEW x \in PostedLegs
      PROVE  \E t \in AllTransfers : \E i \in DOMAIN legs[t] : LegPosted(t, i) /\ x = <<t, i>> /\ x[1] = t /\ x[2] = i
  BY DEF PostedLegs
<1>3. ASSUME NEW id \in InEffect(ledger) PROVE \E x \in PostedLegs : IsLegOf(id, x)
  <2>1. PICK t \in AllTransfers : \E i : id \in {OpID(t, i), PostID(t, i), VoidID(t, i)}
    BY <1>3 DEF InEffect, BooksInv, EntryInv
  <2>2. PICK i : id \in {OpID(t, i), PostID(t, i), VoidID(t, i)}
    BY <2>1
  <2>3. id \in DOMAIN ledger.transfers /\ ledger.transfers[id].kind \in {"Regular", "Pending"}
    BY <1>0, <1>3 DEF InEffect, IsLedger
  <2>4. id = OpID(t, i)
    <3>1. CASE t \in Funded
      BY <2>2, <2>3, <3>1 DEF BooksInv, EntryInv
    <3>2. CASE t \in Transfers
      <4>1. legs[t] \in Manifests(DOMAIN minted) /\ {"PostPending", "VoidPending"} \subseteq Kinds
        BY DEF MoneyInv, LegsKnow, Kinds
      <4>2. \A j \in DOMAIN legs[t] : Batch(t, "PostPending")[j].kind = "PostPending"
        BY <4>1, BatchIs
      <4>3. \A j \in DOMAIN legs[t] : Batch(t, "VoidPending")[j].kind = "VoidPending"
        BY <4>1, BatchIs
      <4> QED BY <2>2, <2>3, <3>2, <4>2, <4>3 DEF LogInv, EntriesOf
    <3> QED BY <3>1, <3>2 DEF AllTransfers
  <2>5. i \in DOMAIN legs[t] /\ IsLegOf(id, <<t, i>>)
    BY <2>3, <2>4, OpIsLeg
  <2>6. LegPosted(t, i)
    BY <1>3, <2>4 DEF LegPosted, InEffect
  <2> QED BY <1>1, <2>5, <2>6
<1>4. ASSUME NEW x \in PostedLegs PROVE OpID(x[1], x[2]) \in InEffect(ledger)
  <2>1. PICK t \in AllTransfers : \E i \in DOMAIN legs[t] : LegPosted(t, i) /\ x = <<t, i>> /\ x[1] = t /\ x[2] = i
    BY <1>2
  <2>2. PICK i \in DOMAIN legs[t] : LegPosted(t, i) /\ x = <<t, i>> /\ x[1] = t /\ x[2] = i
    BY <2>1
  <2>3. OpID(t, i) \in DOMAIN ledger.transfers /\ ledger.transfers[OpID(t, i)].kind \in {"Regular", "Pending"}
    BY <2>2, OpIsLeg DEF LegPosted
  <2>4. OpID(t, i) \in InEffect(ledger)
    BY <1>0, <2>2, <2>3 DEF LegPosted, InEffect, IsLedger
  <2> QED BY <2>2, <2>4
<1>5. ASSUME NEW t \in AllTransfers, NEW i \in DOMAIN legs[t], <<t, i>> \in PostedLegs PROVE LegPosted(t, i)
  <2>1. \E u \in AllTransfers : \E j \in DOMAIN legs[u] : LegPosted(u, j) /\ <<t, i>> = <<u, j>>
    BY <1>2, <1>5
  <2> QED BY <2>1
<1> QED BY <1>1, <1>3, <1>4, <1>5

\* The ledger's balance of Token k is what the posted legs brought and took.
LEMMA BalanceIsExplained ==
    ASSUME MoneyInv, LogInv, BooksInv, NEW k \in DOMAIN ledger.accounts
    PROVE  /\ IsFiniteSet(PostedLegs)
           /\ AccountBalance(ledger, k) = SumOver([x \in PostedLegs |-> LegOn(k, x)], PostedLegs)
<1> DEFINE S == InEffect(ledger)
           r == [id \in S |-> <<id[1], id[2]>>]
           g == [x \in PostedLegs |-> LegOn(k, x)]
           c == CreditOn(ledger, k)
           b == DebitOn(ledger, k)
           d == [id \in S |-> c[id] - b[id]]
<1>1. IsLedger(ledger) /\ Booked(ledger)
  BY DEF MoneyInv, LedgerInv, BooksInv
<1>2. PICK L : L = ledger
  OBVIOUS
<1>3. IsFiniteSet(S) /\ S \subseteq DOMAIN ledger.transfers
  BY <1>1, <1>2, BooksAreFinite DEF Booked
<1>4. \A id \in S : c[id] \in Nat /\ b[id] \in Nat
  BY <1>1, <1>2, <1>3, SidesAreNat
<1>5. \A id \in S : r[id] \in PostedLegs /\ IsLegOf(id, r[id])
  <2>1. ASSUME NEW id \in S PROVE r[id] \in PostedLegs /\ IsLegOf(id, r[id])
    <3>1. PICK x \in PostedLegs : IsLegOf(id, x)
      BY InEffectIsPosted
    <3>2. PICK t, i : x = <<t, i>>
      BY DEF PostedLegs
    <3>3. id = <<t, i, "op">>
      BY <3>1, <3>2 DEF IsLegOf, OpID
    <3>4. r[id] = x
      BY <3>2, <3>3
    <3> QED BY <3>1, <3>4
  <2> QED BY <2>1
<1>6. \A x \in PostedLegs : \E id \in S : r[id] = x
  <2>1. ASSUME NEW x \in PostedLegs PROVE \E id \in S : r[id] = x
    <3>1. PICK t, i : x = <<t, i>>
      BY DEF PostedLegs
    <3>2. <<t, i, "op">> \in S
      BY <3>1, InEffectIsPosted DEF OpID
    <3> QED BY <3>1, <3>2
  <2> QED BY <2>1
<1>7. \A id \in S : /\ d[id] \in Int /\ d[id] = c[id] - b[id] /\ c[id] \in Int /\ b[id] \in Int
  BY <1>4
<1>8. \A id \in S : d[id] = g[r[id]]
  <2>1. ASSUME NEW id \in S PROVE d[id] = g[r[id]]
    <3>1. PICK x : x = r[id]
      OBVIOUS
    <3>2. x \in PostedLegs /\ IsLegOf(id, x)
      BY <1>5, <3>1
    <3> DEFINE e == ledger.transfers[id]
               l == legs[x[1]][x[2]]
    <3>3. e.debit = l.source /\ e.credit = l.dest /\ e.amount = l.amount
      BY <3>2 DEF IsLegOf
    <3>4. id \in DOMAIN ledger.transfers
      BY <1>3
    <3>5. c[id] = (IF k = e.credit THEN e.amount ELSE 0) /\ b[id] = (IF k = e.debit THEN e.amount ELSE 0)
      BY <3>4 DEF CreditOn, DebitOn
    <3>6. g[x] = (IF l.dest = k THEN l.amount ELSE 0) - (IF l.source = k THEN l.amount ELSE 0)
      BY <3>2 DEF LegOn
    <3>7. d[id] = c[id] - b[id]
      BY <1>7
    <3> HIDE DEF c, b, d, g, r, e, l
    <3>8. c[id] = (IF l.dest = k THEN l.amount ELSE 0) /\ b[id] = (IF l.source = k THEN l.amount ELSE 0)
      BY <3>3, <3>5
    <3> QED BY <3>1, <3>6, <3>7, <3>8
  <2> QED BY <2>1
<1>9. \A x, y \in S : r[x] = r[y] => x = y
  BY <1>5 DEF IsLegOf
<1>10. \A id \in S : r[id] \in PostedLegs
  BY <1>5
<1>11. /\ ledger.accounts[k].creditsPosted = SumOver(c, S) /\ ledger.accounts[k].debitsPosted = SumOver(b, S)
  BY <1>1 DEF Booked, BookedOn
<1> HIDE DEF S, r, g, c, b, d
<1>12. PICK P : P = PostedLegs
  OBVIOUS
<1>13. IsFiniteSet(P) /\ SumOver(g, P) = SumOver(d, S)
  <2>1. \A x \in S : d[x] = g[r[x]] /\ d[x] \in Int
    BY <1>7, <1>8
  <2>2. (\A x \in S : r[x] \in P) /\ \A y \in P : \E x \in S : r[x] = y
    BY <1>6, <1>10, <1>12
  <2> QED BY ONLY <1>3, <1>9, <2>1, <2>2, SumRenamed
<1>14. SumOver(d, S) = SumOver(c, S) - SumOver(b, S)
  BY <1>3, <1>7, SumOfDifferences
<1>15. AccountBalance(ledger, k) = SumOver(g, PostedLegs)
  BY <1>11, <1>12, <1>13, <1>14 DEF AccountBalance
<1> QED BY <1>12, <1>13, <1>15 DEF g

\* What a Token holds is what the posted legs brought it less what they took,
\* and no total goes below zero: no unit appears or disappears by retries,
\* timeouts, second posts or voids, crashes or competing Transfers, however many
\* there are (CreateTransfers, submitBatch, cancelStaged).
THEOREM AlwaysBalancesExplained == Spec => []BalancesExplained
<1>1. MoneyInv /\ LogInv /\ BooksInv => BalancesExplained
  <2> SUFFICES ASSUME MoneyInv, LogInv, BooksInv, NEW k \in DOMAIN ledger.accounts
               PROVE  LET a == ledger.accounts[k]
                      IN  /\ {a.debitsPosted, a.creditsPosted, a.debitsPending, a.creditsPending} \subseteq Nat
                          /\ AccountBalance(ledger, k) =
                                MapThenSumSet(LAMBDA x : LET l == legs[x[1]][x[2]]
                                                         IN  (IF l.dest = k THEN l.amount ELSE 0)
                                                             - (IF l.source = k THEN l.amount ELSE 0),
                                              PostedLegs)
    BY Zenon DEF BalancesExplained
  <2>1. PICK L : L = ledger
    OBVIOUS
  <2>2. IsLedger(L) /\ Booked(L) /\ k \in DOMAIN L.accounts
    BY <2>1 DEF MoneyInv, LedgerInv, BooksInv
  <2>3. LET a == L.accounts[k]
        IN  {a.debitsPosted, a.creditsPosted, a.debitsPending, a.creditsPending} \subseteq Nat
    BY <2>2, BookedIsNat
  <2>4. AccountBalance(ledger, k) =
           MapThenSumSet(LAMBDA x : LET l == legs[x[1]][x[2]]
                                    IN  (IF l.dest = k THEN l.amount ELSE 0)
                                        - (IF l.source = k THEN l.amount ELSE 0),
                         PostedLegs)
    BY PostedSum, BalanceIsExplained, Zenon
  <2> QED BY <2>1, <2>3, <2>4, Zenon
<1> QED BY <1>1, AlwaysMoneyInv, AlwaysLogInv, AlwaysBooked, PTL
-----------------------------------------------------------------------------
(* One reversal.                                                             *)

\* The legs of t into Token k, and what they bring.
Into(t, k) == {i \in DOMAIN legs[t] : legs[t][i].dest = k}
Brings(t, k) == [i \in Into(t, k) |-> legs[t][i].amount]

\* They are finitely many, and bring something.
LEMMA BringsSomething ==
    ASSUME MoneyInv, PathInv, NEW t \in AllTransfers, NEW k, Into(t, k) # {}
    PROVE  /\ IsFiniteSet(Into(t, k)) /\ \A i \in Into(t, k) : Brings(t, k)[i] \in Nat
           /\ SumOver(Brings(t, k), Into(t, k)) \in Nat \ {0}
<1> DEFINE D == Into(t, k)
           a == Brings(t, k)
<1>1. /\ Len(legs[t]) \in Nat /\ DOMAIN legs[t] = 1..Len(legs[t])
      /\ \A i \in DOMAIN legs[t] : legs[t][i].amount \in Nat
  BY ManifestsAre DEF MoneyInv, LegsKnow
<1>2. D \subseteq 1..Len(legs[t])
  BY <1>1 DEF Into
<1>3. IsFiniteSet(D)
  <2>1. PICK n \in Nat : n = Len(legs[t])
    BY <1>1
  <2>2. IsFiniteSet(1..n)
    BY FS_Interval
  <2> QED BY <1>2, <2>1, <2>2, FS_Subset
<1>4. \A i \in D : a[i] \in Nat /\ a[i] > 0
  BY <1>1 DEF Into, Brings, PathInv, ApartInv, Apart
<1>5. PICK i : i \in D
  OBVIOUS
<1> HIDE DEF D, a
<1>6. \A x \in D : a[x] \in Int
  BY <1>4
<1>7. SumOver(a, D) = a[i] + SumOver(a, D \ {i})
  BY <1>3, <1>5, <1>6, SumWithout
<1>8. IsFiniteSet(D \ {i}) /\ \A x \in D \ {i} : a[x] \in Nat
  BY <1>3, <1>4, FS_Subset
<1>9. SumOver(a, D \ {i}) \in Nat
  BY <1>8, SumType
<1> QED BY <1>3, <1>4, <1>5, <1>7, <1>9 DEF D, a

\* Unless money came back to it, k has received no more than that.
LEMMA ReceivedFrom ==
    ASSUME MoneyInv, LogInv, PathInv, BooksInv, NEW t \in AllTransfers, ~IsReversal(t), NEW k \in DOMAIN ledger.accounts,
           Into(t, k) # {}, ~CameBack(k)
    PROVE  ledger.accounts[k].creditsPosted <= SumOver(Brings(t, k), Into(t, k))
<1> DEFINE S == InEffect(ledger)
           c == CreditOn(ledger, k)
           P == {id \in S : ledger.transfers[id].credit = k}
           D == Into(t, k)
           a == Brings(t, k)
           r == [id \in P |-> id[2]]
           R == {r[id] : id \in P}
<1>1. PICK L : L = ledger
  OBVIOUS
<1>2. IsLedger(L) /\ Booked(L) /\ ledger.accounts[k].creditsPosted = SumOver(c, S)
  BY <1>1 DEF MoneyInv, LedgerInv, BooksInv, Booked, BookedOn
<1>3. IsFiniteSet(S) /\ S \subseteq DOMAIN ledger.transfers
  BY <1>1, <1>2, BooksAreFinite DEF Booked
<1>4. \A id \in S : c[id] \in Nat /\ (id \notin P => c[id] = 0)
  <2>1. \A id \in S : c[id] \in Nat
    BY <1>1, <1>2, <1>3, SidesAreNat
  <2> QED BY <1>3, <2>1 DEF CreditOn
<1>5. ASSUME NEW id \in P PROVE id = OpID(t, id[2]) /\ id[2] \in D /\ c[id] = a[id[2]]
  <2>1. PICK x \in PostedLegs : IsLegOf(id, x)
    BY InEffectIsPosted
  <2>2. PICK u \in AllTransfers : \E i \in DOMAIN legs[u] : x = <<u, i>>
    BY DEF PostedLegs
  <2>3. PICK i \in DOMAIN legs[u] : x = <<u, i>>
    BY <2>2
  <2>4. id = OpID(u, i) /\ id[2] = i /\ ledger.transfers[id].credit = legs[u][i].dest /\ ledger.transfers[id].amount = legs[u][i].amount
    BY <2>1, <2>3 DEF IsLegOf, OpID
  <2>5. legs[u][i].dest = k /\ LegPosted(u, i)
    BY <2>3, <2>4, InEffectIsPosted
  <2>6. ~IsReversal(u)
    BY <2>3, <2>5 DEF CameBack, IsReversal
  <2>7. u = t
    BY <2>5, <2>6 DEF PathInv, OwnInv, Into
  <2>8. i \in D /\ a[i] = legs[t][i].amount
    BY <2>3, <2>5, <2>7 DEF Into, Brings
  <2>9. c[id] = ledger.transfers[id].amount
    BY <1>3 DEF CreditOn
  <2> QED BY <2>4, <2>7, <2>8, <2>9
<1>6. /\ IsFiniteSet(D) /\ (\A i \in D : a[i] \in Nat) /\ SumOver(a, D) \in Nat
  BY BringsSomething
<1>7. IsFiniteSet(P) /\ P \subseteq S /\ IsFiniteSet(S \ P)
  BY <1>3, FS_Subset
<1>8. (\A x, y \in P : r[x] = r[y] => x = y) /\ (\A x \in P : c[x] = a[r[x]] /\ c[x] \in Int)
  BY <1>4, <1>5
<1>9. (\A x \in P : r[x] \in R) /\ (\A y \in R : \E x \in P : r[x] = y) /\ R \subseteq D
  BY <1>5
<1>10. \A id \in S : c[id] \in Int
  BY <1>4
<1>11. \A id \in S \ P : c[id] = 0
  BY <1>4
<1> HIDE DEF S, c, P, D, a, r, R
<1>12. SumOver(a, R) = SumOver(c, P)
  BY ONLY <1>7, <1>8, <1>9, SumRenamed
<1>13. SumOver(a, R) <= SumOver(a, D)
  BY <1>6, <1>9, PartOfSum
<1>14. SumOver(c, S) = SumOver(c, P) + SumOver(c, S \ P)
  BY <1>3, <1>7, <1>10, SumSplits
<1>15. SumOver(c, S \ P) = 0
  BY <1>7, <1>11, SumOfZeros
<1>16. SumOver(c, P) \in Int
  <2>1. \A id \in P : c[id] \in Int
    BY <1>7, <1>10
  <2> QED BY <1>7, <2>1, SumType
<1> QED BY <1>2, <1>12, <1>13, <1>14, <1>15, <1>16 DEF a, D

\* The entries of a committed reversal take the same from k again.
Taken(r, t, k) == {OpID(r, i) : i \in Into(t, k)}

\* They are in effect, and take as much as the original brought.
LEMMA ReversalTakes ==
    ASSUME MoneyInv, LogInv, PathInv, BooksInv, NEW t \in AllTransfers, NEW k \in DOMAIN ledger.accounts,
           Into(t, k) # {}, NEW r \in CommittedReversals(t)
    PROVE  /\ Taken(r, t, k) \subseteq InEffect(ledger) /\ IsFiniteSet(Taken(r, t, k))
           /\ SumOver(DebitOn(ledger, k), Taken(r, t, k)) = SumOver(Brings(t, k), Into(t, k))
<1> DEFINE D == Into(t, k)
           a == Brings(t, k)
           b == DebitOn(ledger, k)
           f == [i \in D |-> OpID(r, i)]
           R == Taken(r, t, k)
<1>1. r \in Transfers /\ req(r).kind = "reversal" /\ req(r).of = t /\ state[r] = "committed" /\ r \in AllTransfers
  BY DEF CommittedReversals, AllTransfers
<1>2. legs[r] = reversalManifest(t)
  BY <1>1 DEF PathInv, ReversalInv
<1>3. DOMAIN legs[r] = DOMAIN legs[t] /\ \A i \in DOMAIN legs[t] : legs[r][i].source = legs[t][i].dest /\ legs[r][i].amount = legs[t][i].amount
  BY <1>2 DEF reversalManifest
<1>4. ASSUME NEW i \in D
      PROVE  OpID(r, i) \in InEffect(ledger) /\ b[OpID(r, i)] = a[i]
  <2>1. i \in DOMAIN legs[r] /\ legs[r][i].source = k /\ legs[r][i].amount = a[i]
    BY <1>3 DEF Into, Brings
  <2>2. OutcomeTrue(r, "committed")
    BY <1>1 DEF LogInv, StandsFor
  <2>3. LegPosted(r, i)
    BY <1>1, <2>1, <2>2, PostedIsMoved DEF OutcomeTrue
  <2>4. <<r, i>> \in PostedLegs
    BY <1>1, <2>1, <2>3, InEffectIsPosted
  <2>5. <<r, i>>[1] = r /\ <<r, i>>[2] = i
    OBVIOUS
  <2>6. OpID(r, i) \in InEffect(ledger)
    BY <2>4, <2>5, InEffectIsPosted
  <2>7. OpID(r, i) \in DOMAIN ledger.transfers
    BY <2>6 DEF InEffect
  <2>8. IsLegOf(OpID(r, i), <<r, i>>)
    BY <1>1, <2>7, OpIsLeg
  <2>9. ledger.transfers[OpID(r, i)].debit = k /\ ledger.transfers[OpID(r, i)].amount = a[i]
    BY <2>1, <2>5, <2>8 DEF IsLegOf
  <2> QED BY <2>6, <2>7, <2>9 DEF DebitOn
<1>5. IsFiniteSet(D) /\ \A i \in D : a[i] \in Nat
  BY BringsSomething
<1>6. \A x, y \in D : f[x] = f[y] => x = y
  BY IdsDiffer
<1>7. \A x \in D : a[x] = b[f[x]] /\ a[x] \in Int
  BY <1>4, <1>5
<1>8. (\A x \in D : f[x] \in R) /\ \A y \in R : \E x \in D : f[x] = y
  BY DEF Taken
<1>9. R \subseteq InEffect(ledger)
  BY <1>4 DEF Taken
<1> HIDE DEF D, a, b, f, R
<1>10. IsFiniteSet(R) /\ SumOver(b, R) = SumOver(a, D)
  BY ONLY <1>5, <1>6, <1>7, <1>8, SumRenamed
<1> QED BY <1>9, <1>10 DEF D, a, b, R

\* Two of them would take twice what k received.
LEMMA ReversalsAgree ==
    ASSUME MoneyInv, LogInv, PathInv, BooksInv, NeverOverspent, ledger.rule = "tigerbeetle",
           NEW t \in AllTransfers, state[t] = "committed", NEW k, Into(t, k) # {},
           Flagged(minted[k].wallet, "debitsMustNotExceedCredits"), ~CameBack(k),
           NEW r \in CommittedReversals(t), NEW q \in CommittedReversals(t)
    PROVE  r = q
<1> SUFFICES ASSUME r # q PROVE FALSE
  OBVIOUS
<1> DEFINE S == InEffect(ledger)
           b == DebitOn(ledger, k)
           A == SumOver(Brings(t, k), Into(t, k))
           V == Taken(r, t, k)
           W == Taken(q, t, k)
           U == V \union W
<1>1. k \in DOMAIN minted
  BY ManifestsAre DEF MoneyInv, LegsKnow, Into
<1>2. k \in DOMAIN ledger.accounts
  BY <1>1 DEF MoneyInv, StreamsInv, MintedIsBackedAndListed
<1>3. ~IsReversal(t)
  <2> SUFFICES ASSUME IsReversal(t) PROVE FALSE
    OBVIOUS
  <2>1. PICK i \in DOMAIN legs[t] : legs[t][i].dest = k
    BY DEF Into
  <2>2. t \in Transfers /\ OutcomeTrue(t, "committed")
    BY DEF IsReversal, LogInv, StandsFor
  <2>3. LegPosted(t, i)
    BY <2>1, <2>2, PostedIsMoved DEF OutcomeTrue
  <2> QED BY <2>1, <2>2, <2>3 DEF CameBack, IsReversal
<1>4. A \in Nat \ {0}
  BY BringsSomething
<1>5. ledger.accounts[k].creditsPosted <= A
  BY <1>2, <1>3, ReceivedFrom
<1>6. V \subseteq S /\ IsFiniteSet(V) /\ SumOver(b, V) = A
  BY <1>2, ReversalTakes
<1>7. W \subseteq S /\ IsFiniteSet(W) /\ SumOver(b, W) = A
  BY <1>2, ReversalTakes
<1>8. U \ V = W /\ V \subseteq U
  BY IdsDiffer DEF Taken
<1>9. PICK L : L = ledger
  OBVIOUS
<1>10. IsLedger(L) /\ Booked(L) /\ ledger.accounts[k].debitsPosted = SumOver(b, S)
  BY <1>2, <1>9 DEF MoneyInv, LedgerInv, BooksInv, Booked, BookedOn
<1>11. IsFiniteSet(S) /\ S \subseteq DOMAIN ledger.transfers
  BY <1>9, <1>10, BooksAreFinite DEF Booked
<1>12. \A id \in S : b[id] \in Nat
  BY <1>9, <1>10, <1>11, SidesAreNat
<1>13. /\ ledger.accounts[k].debitsPending \in Nat /\ ledger.accounts[k].debitsPosted \in Nat
       /\ ledger.accounts[k].creditsPosted \in Nat
  BY <1>2, <1>9, <1>10, BookedIsNat
<1>14. ledger.accounts[k].debitsPosted + ledger.accounts[k].debitsPending <= ledger.accounts[k].creditsPosted
  BY <1>1 DEF NeverOverspent
<1>15. U \subseteq S /\ IsFiniteSet(U)
  BY <1>6, <1>7, <1>11, FS_Subset
<1>16. \A id \in U : b[id] \in Int
  BY <1>12, <1>15
<1> HIDE DEF S, b, A, V, W, U
<1>17. SumOver(b, U) = SumOver(b, V) + SumOver(b, U \ V)
  BY <1>8, <1>15, <1>16, SumSplits
<1>18. SumOver(b, U) <= SumOver(b, S)
  BY <1>11, <1>12, <1>15, PartOfSum
<1>19. SumOver(b, U) = A + A
  BY <1>6, <1>7, <1>8, <1>17
<1> QED BY <1>4, <1>5, <1>10, <1>13, <1>14, <1>18, <1>19

\* A Transfer into a Token that may not go negative, and to which nothing came
\* back, is reversed at most once, however many reversals are requested and
\* interleave: nothing in reversalManifest stops a second one, the ledger's
\* limit does.
THEOREM AlwaysReversedOnce == Spec => []ReversedOnce
<1>1. MoneyInv /\ LogInv /\ PathInv /\ BooksInv /\ NeverOverspent => ReversedOnce
  <2> SUFFICES ASSUME MoneyInv, LogInv, PathInv, BooksInv, NeverOverspent, ledger.rule = "tigerbeetle",
                      NEW t \in AllTransfers, state[t] = "committed", NEW i \in DOMAIN legs[t],
                      Flagged(minted[legs[t][i].dest].wallet, "debitsMustNotExceedCredits"), ~CameBack(legs[t][i].dest)
               PROVE  Cardinality(CommittedReversals(t)) <= 1
    BY DEF ReversedOnce
  <2>1. PICK k : k = legs[t][i].dest
    OBVIOUS
  <2>2. Into(t, k) # {}
    BY <2>1 DEF Into
  <2>3. PICK C : C = CommittedReversals(t)
    OBVIOUS
  <2>4. \A r, q \in C : r = q
    BY <2>1, <2>2, <2>3, ReversalsAgree
  <2>5. C = {} \/ \E r : C = {r}
    BY <2>4
  <2>6. Cardinality(C) <= 1
    <3>1. CASE C = {}
      <4>1. Cardinality(C) = 0
        BY <3>1, FS_EmptySet
      <4> QED BY <4>1
    <3>2. ASSUME NEW r, C = {r} PROVE Cardinality(C) <= 1
      <4>1. Cardinality(C) = 1
        BY <3>2, FS_Singleton
      <4> QED BY <4>1
    <3> QED BY <2>5, <3>1, <3>2
  <2> QED BY <2>3, <2>6
<1> QED BY <1>1, AlwaysMoneyInv, AlwaysLogInv, AlwaysNeverOverspent, AlwaysBooked, PTL
=============================================================================
