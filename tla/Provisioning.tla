---------------------------- MODULE Provisioning ----------------------------
(***************************************************************************)
(* Holders and the Wallets opened under them: go/internal/holder and the    *)
(* Open RPC of go/internal/wallet, called concurrently.                     *)
(*                                                                          *)
(* A call reads the Holder's stream, then each Wallet's stream in turn, and *)
(* only then writes: what it read may be stale by then, and the optimistic  *)
(* sequence check of the store is all that stands between it and the other  *)
(* writers.  A Wallet's stream is reduced to the Holder its first event,    *)
(* WalletOpened, names.                                                     *)
(***************************************************************************)
EXTENDS Integers, Sequences

CONSTANTS
    Holders, Wallets,
    Calls,        \* slots for concurrently running RPC calls
    RPCs,         \* the RPCs in use, a subset of AllRPCs
    Requests,     \* the wallet lists requests name, without repetitions
    NoHolder,     \* the owner of a Wallet that was never opened
    Established,  \* the HolderEstablished event; HolderAddedWallet is its Wallet
    MaxCrashes    \* bound on calls that die half-way

AllRPCs == {"Establish", "AddWallet", "Provision", "Open"}

Distinct(ws) == \A i, j \in DOMAIN ws : ws[i] = ws[j] => i = j

ASSUME ConstantsAssumption ==
    /\ RPCs \subseteq AllRPCs
    /\ Requests \subseteq Seq(Wallets)
    /\ \A ws \in Requests : ws # << >> /\ Distinct(ws)
    /\ NoHolder \notin Holders
    /\ Established \notin Wallets
    /\ MaxCrashes \in Nat

VARIABLES
    holder,   \* per Holder, its stream
    owner,    \* per Wallet, the Holder its WalletOpened names, or NoHolder
    call,     \* per slot, the running call
    crashes

vars == <<holder, owner, call, crashes>>

HolderEvents == {Established} \union Wallets

Recorded(events, e) == \E i \in DOMAIN events : events[i] = e

CallRecords ==
    [pc    : {"idle", "load", "inspect", "append", "replay"},
     rpc   : AllRPCs \union {"none"},
     h     : Holders \union {NoHolder},
     ws    : Seq(Wallets),           \* the Wallets the request names
     seen  : Seq(HolderEvents),      \* the Holder's stream as it was read
     next  : Nat,                    \* how many Wallets were inspected
     opens : SUBSET Wallets,         \* Wallets found unopened
     adds  : Seq(HolderEvents),      \* what to append to the Holder's stream
     reply : {"none", "ok", "rejected", "error", "crashed"}]

Idle ==
    [pc |-> "idle", rpc |-> "none", h |-> NoHolder, ws |-> << >>, seen |-> << >>,
     next |-> 0, opens |-> {}, adds |-> << >>, reply |-> "none"]

\* End the call, remembering what was asked and what was answered.
Return(c, reply) ==
    call' = [call EXCEPT ![c] = [Idle EXCEPT !.rpc = call[c].rpc, !.h = call[c].h,
                                             !.ws = call[c].ws, !.reply = reply]]

Init ==
    /\ holder = [h \in Holders |-> << >>]
    /\ owner = [w \in Wallets |-> NoHolder]
    /\ call = [c \in Calls |-> Idle]
    /\ crashes = 0

Start(c, r, h, ws) ==
    /\ call[c].pc = "idle"
    /\ r \in {"AddWallet", "Open"} => Len(ws) = 1
    /\ call' = [call EXCEPT ![c] = [Idle EXCEPT !.pc = "load", !.rpc = r, !.h = h,
                                                !.ws = ws]]
    /\ UNCHANGED <<holder, owner, crashes>>

-----------------------------------------------------------------------------
(* Establish.                                                                *)

LoadEstablish(c) ==
    LET h == call[c].h IN
    /\ call[c].pc = "load" /\ call[c].rpc = "Establish"
    /\ IF holder[h] # << >>
         THEN Return(c, "ok")
         ELSE call' = [call EXCEPT ![c].pc = "append", ![c].adds = <<Established>>]
    /\ UNCHANGED <<holder, owner, crashes>>

\* A conflict means that someone else established the Holder.
AppendEstablish(c) ==
    LET h == call[c].h IN
    /\ call[c].pc = "append" /\ call[c].rpc = "Establish"
    /\ holder' = IF holder[h] = << >> THEN [holder EXCEPT ![h] = call[c].adds] ELSE holder
    /\ Return(c, "ok")
    /\ UNCHANGED <<owner, crashes>>

-----------------------------------------------------------------------------
(* AddWallet and Provision.                                                  *)

\* AddWallet insists on an established Holder, Provision establishes it along
\* the way.
LoadHolder(c) ==
    LET h == call[c].h IN
    /\ call[c].pc = "load" /\ call[c].rpc \in {"AddWallet", "Provision"}
    /\ IF holder[h] = << >> /\ call[c].rpc = "AddWallet"
         THEN Return(c, "error")
         ELSE call' = [call EXCEPT ![c].pc = "inspect", ![c].seen = holder[h],
                                   ![c].adds = IF holder[h] = << >> THEN <<Established>>
                                                                    ELSE << >>]
    /\ UNCHANGED <<holder, owner, crashes>>

\* Mutant: records the Wallet again on every retry.
InspectWallet_AlwaysAdds(c) ==
    LET n == call[c].next + 1
        w == call[c].ws[n]
    IN
    /\ call[c].pc = "inspect" /\ n <= Len(call[c].ws)
    /\ IF owner[w] \notin {NoHolder, call[c].h}
         THEN Return(c, "rejected")
         ELSE call' = [call EXCEPT
                  ![c].next = n,
                  ![c].opens = IF owner[w] = NoHolder THEN @ \union {w} ELSE @,
                  ![c].adds = Append(@, w)]
    /\ UNCHANGED <<holder, owner, crashes>>

\* Mutant: opens a Wallet that is already open once more.
InspectWallet_Reopens(c) ==
    LET n == call[c].next + 1
        w == call[c].ws[n]
    IN
    /\ call[c].pc = "inspect" /\ n <= Len(call[c].ws)
    /\ IF owner[w] \notin {NoHolder, call[c].h}
         THEN Return(c, "rejected")
         ELSE call' = [call EXCEPT
                  ![c].next = n,
                  ![c].opens = @ \union {w},
                  ![c].adds = IF Recorded(call[c].seen, w) THEN @ ELSE Append(@, w)]
    /\ UNCHANGED <<holder, owner, crashes>>

\* One turn of walletWrites: look the Wallet up, plan what is missing.
InspectWallet(c) ==
    LET n == call[c].next + 1
        w == call[c].ws[n]
    IN
    /\ call[c].pc = "inspect" /\ n <= Len(call[c].ws)
    /\ IF owner[w] \notin {NoHolder, call[c].h}
         THEN Return(c, "rejected")
         ELSE call' = [call EXCEPT
                  ![c].next = n,
                  ![c].opens = IF owner[w] = NoHolder THEN @ \union {w} ELSE @,
                  ![c].adds = IF Recorded(call[c].seen, w) THEN @ ELSE Append(@, w)]
    /\ UNCHANGED <<holder, owner, crashes>>

\* Some stream the batch appends to is no longer the one that was read.
Conflicts(c) ==
    \/ call[c].adds # << >> /\ holder[call[c].h] # call[c].seen
    \/ \E w \in call[c].opens : owner[w] # NoHolder

\* Mutant: writes each stream for itself, so a lost race leaves the others' events.
AppendConverging_NotAtomic(c) ==
    LET h == call[c].h IN
    /\ call[c].pc = "inspect" /\ call[c].next = Len(call[c].ws)
    /\ holder' = IF holder[h] # call[c].seen THEN holder
                 ELSE [holder EXCEPT ![h] = @ \o call[c].adds]
    /\ owner' = [w \in Wallets |-> IF w \in call[c].opens /\ owner[w] = NoHolder
                                     THEN h ELSE owner[w]]
    /\ Return(c, "ok")
    /\ UNCHANGED crashes

\* appendConverging: one atomic append of everything that is missing.  A
\* conflict is taken for convergence.
AppendConverging(c) ==
    LET h == call[c].h IN
    /\ call[c].pc = "inspect" /\ call[c].next = Len(call[c].ws)
    /\ IF Conflicts(c)
         THEN UNCHANGED <<holder, owner>>
         ELSE /\ holder' = [holder EXCEPT ![h] = @ \o call[c].adds]
              /\ owner' = [w \in Wallets |-> IF w \in call[c].opens THEN h ELSE owner[w]]
    /\ Return(c, "ok")
    /\ UNCHANGED crashes

-----------------------------------------------------------------------------
(* wallet.Open.                                                              *)

\* replayResponse: an open Wallet is returned to its own Holder only.
Replayed(c) == IF owner[call[c].ws[1]] = call[c].h THEN "ok" ELSE "rejected"

LoadOpen(c) ==
    /\ call[c].pc = "load" /\ call[c].rpc = "Open"
    /\ IF owner[call[c].ws[1]] # NoHolder
         THEN Return(c, Replayed(c))
         ELSE call' = [call EXCEPT ![c].pc = "append"]
    /\ UNCHANGED <<holder, owner, crashes>>

\* Mutant: a lost race is reported as success without looking at the winner.
AppendOpen_AssumesSame(c) ==
    LET w == call[c].ws[1] IN
    /\ call[c].pc = "append" /\ call[c].rpc = "Open"
    /\ owner' = IF owner[w] = NoHolder THEN [owner EXCEPT ![w] = call[c].h] ELSE owner
    /\ Return(c, "ok")
    /\ UNCHANGED <<holder, crashes>>

AppendOpen(c) ==
    LET w == call[c].ws[1] IN
    /\ call[c].pc = "append" /\ call[c].rpc = "Open"
    /\ IF owner[w] = NoHolder
         THEN /\ owner' = [owner EXCEPT ![w] = call[c].h]
              /\ Return(c, "ok")
         ELSE /\ call' = [call EXCEPT ![c].pc = "replay"]
              /\ UNCHANGED owner
    /\ UNCHANGED <<holder, crashes>>

ReplayOpen(c) ==
    /\ call[c].pc = "replay"
    /\ Return(c, Replayed(c))
    /\ UNCHANGED <<holder, owner, crashes>>

-----------------------------------------------------------------------------
Crash(c) ==
    /\ call[c].pc # "idle"
    /\ crashes < MaxCrashes
    /\ crashes' = crashes + 1
    /\ Return(c, "crashed")
    /\ UNCHANGED <<holder, owner>>

CallStep(c) ==
    \/ LoadEstablish(c) \/ AppendEstablish(c)
    \/ LoadHolder(c) \/ InspectWallet(c) \/ AppendConverging(c)
    \/ LoadOpen(c) \/ AppendOpen(c) \/ ReplayOpen(c)

Request(c) ==
    \E r \in RPCs, h \in Holders, ws \in Requests : Start(c, r, h, ws)

Next == \E c \in Calls : CallStep(c) \/ Crash(c) \/ Request(c)

Spec == Init /\ [][Next]_vars

-----------------------------------------------------------------------------
(* Properties.                                                               *)

\* Streams, ownership and every call's locals stay within their types, and a
\* call never inspects more Wallets than its request named (walletWrites).
TypeOK ==
    /\ holder \in [Holders -> Seq(HolderEvents)]
    /\ owner \in [Wallets -> Holders \union {NoHolder}]
    /\ call \in [Calls -> CallRecords]
    /\ \A c \in Calls : call[c].next <= Len(call[c].ws)
    /\ crashes \in 0..MaxCrashes

\* AddWallet: "a Holder can never reference a Wallet whose own stream was never
\* written", nor one that was opened under somebody else, however its reads and
\* its write interleave with other calls.
AddedMeansOpened ==
    \A h \in Holders, w \in Wallets : Recorded(holder[h], w) => owner[w] = h

\* A Holder's stream opens with HolderEstablished and records it, and each of
\* its Wallets, once: every retry and every racing call appends only what the
\* stream it read lacked (Establish, Provision).
RecordedOnce ==
    \A h \in Holders : Distinct(holder[h]) /\ (holder[h] # << >> => holder[h][1] = Established)

\* Open never hands a caller a Wallet that belongs to another Holder, although
\* it looks before it writes (replayResponse).
OpenedForCaller ==
    \A c \in Calls : call[c].rpc = "Open" /\ call[c].reply = "ok"
                      => owner[call[c].ws[1]] = call[c].h

\* Clients repeat a Provision until it has taken effect.
Unprovisioned(h, ws) == \E i \in DOMAIN ws : ~Recorded(holder[h], ws[i])

Retry(h, ws) ==
    Unprovisioned(h, ws) /\ \E c \in Calls : Start(c, "Provision", h, ws)

RetrySpec ==
    /\ Spec
    /\ \A c \in Calls : WF_vars(CallStep(c))
    /\ \A h \in Holders, ws \in Requests : SF_vars(Retry(h, ws))

\* Provision: "a retry after an ambiguous failure converges".  Whatever races
\* and crashes its attempts ran into, a repeated Provision ends with all of its
\* Wallets on the Holder, or with one of them belonging to somebody else.
ProvisionConverges ==
    \A h \in Holders, ws \in Requests :
        <>[](~Unprovisioned(h, ws) \/ \E i \in DOMAIN ws : owner[ws[i]] \notin {h, NoHolder})
=============================================================================
