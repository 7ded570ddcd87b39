------------------------------ MODULE MCMoney ------------------------------
(***************************************************************************)
(* Money for TLC: three Wallets, a funding instrument (ONRAMP), an account   *)
(* that may not go negative (NONE) and one at the far end, whose policy      *)
(* varies; two units and one unit funded into the second, the single unit by *)
(* a Transaction that is still open.                                        *)
(***************************************************************************)
EXTENDS Money, TLC

CONSTANTS card, main, bank, f1, f2, t1, t2, t3, k1, k2, m1, m2, x1

\* Two Tokens outside any Transaction, two tagged with an open one.
Listing == [w \in Wallets |->
    LET of(k) == <<[token |-> k, tag |-> NoTransaction], [token |-> k + 2, tag |-> x1]>>
    IN  CASE w = card -> of(1) [] w = main -> of(2) [] OTHER -> << >>]

Minted == [k \in 1..4 |-> [wallet |-> IF k \in {1, 3} THEN card ELSE main,
                           capacity |-> IF k \in {1, 2} THEN 2 ELSE 1]]

Fundings == <<[id |-> f1, legs |-> <<[source |-> 1, dest |-> 2, amount |-> 2]>>],
              [id |-> f2, legs |-> <<[source |-> 3, dest |-> 4, amount |-> 1]>>]>>

Forward(amount, stage, tx) ==
    [kind |-> "forward", from |-> main, to |-> bank, amount |-> amount, stage |-> stage,
     tx |-> tx, mintSource |-> FALSE]
MintForward(from, tx) ==
    [kind |-> "forward", from |-> from, to |-> main, amount |-> 1, stage |-> FALSE,
     tx |-> tx, mintSource |-> TRUE]
Reversal(of, stage) == [kind |-> "reversal", of |-> of, stage |-> stage]
NoRequest == [kind |-> "none"]

NoMint == [token |-> NoTransaction, wallet |-> bank, capacity |-> 1]
MintInto(token, w) == [token |-> token, wallet |-> w, capacity |-> 1]

Scenario(rule, far, a, b, c, p, q) ==
    [rule |-> rule,
     allows |-> [w \in Wallets |-> CASE w = card -> "ONRAMP" [] w = main -> "NONE" [] OTHER -> far],
     listing |-> Listing, minted |-> Minted, funding |-> Fundings,
     requests |-> [t \in Transfers |-> CASE t = t1 -> a [] t = t2 -> b [] OTHER -> c],
     mints |-> [k \in Mints |-> IF k = k1 THEN p ELSE q]]

\* Two Transfers out of the same Wallet, one of which may be a reversal of
\* what funded it, staged or not.
Competing ==
    {Scenario(rule, "OFFRAMP", a, b, NoRequest, NoMint, NoMint) :
        rule \in Rules,
        a \in {Forward(2, s, NoTransaction) : s \in BOOLEAN} \union {Forward(3, s, x1) : s \in BOOLEAN},
        b \in {Forward(1, s, NoTransaction) : s \in BOOLEAN} \union {Reversal(f1, s) : s \in BOOLEAN}
                \union {Forward(2, FALSE, x1)}}

\* A Transfer and two reversals of it, and a reversal of a reversal.
Reversing ==
    {Scenario("tigerbeetle", far, a, Reversal(t1, s), c, NoMint, NoMint) :
        far \in {"OFFRAMP", "ONRAMP_AND_OFFRAMP"},
        a \in {Forward(2, FALSE, NoTransaction), Forward(3, FALSE, x1)},
        s \in BOOLEAN,
        c \in {Reversal(t1, FALSE), Reversal(t2, FALSE)}}

\* Mint calls for one id or one Wallet, next to Transfers into that Wallet.
Minting ==
    {Scenario("tigerbeetle", far, a, b, NoRequest, p, q) :
        far \in {"OFFRAMP", "ONRAMP_AND_OFFRAMP", "UNOPENED"},
        a \in {Forward(2, FALSE, NoTransaction), MintForward(card, x1), MintForward(main, x1)},
        b \in {NoRequest},
        p \in {MintInto(m1, bank), MintInto(m1, main)},
        q \in {MintInto(m1, bank), MintInto(m2, bank), MintInto(m2, main)}}

AllScenarios == Competing \union Reversing \union Minting
=============================================================================
