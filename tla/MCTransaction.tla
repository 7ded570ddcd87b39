---------------------------- MODULE MCTransaction ----------------------------
(***************************************************************************)
(* Transaction for TLC: the specifications clients send.  Calls are          *)
(* interchangeable slots.                                                   *)
(***************************************************************************)
EXTENDS Transaction, TLC

CONSTANTS t1, t2, t3, bad, ghost

\* Each transfer under its own id, and the parents d gives it.
Specification(d) == [ids |-> [c \in DOMAIN d |-> c], deps |-> d]

\* At most two transfers with any dependencies, dangling and circular ones
\* included; an entry under another's id; an entry that is no transfer's.
Pairs ==
    {Specification(d) : d \in UNION {[T -> SUBSET {t1, t2, ghost}] : T \in SUBSET {t1, t2}}}
    \union {[ids |-> [c \in {t1, t2} |-> t1], deps |-> << >>],
            [ids |-> [c \in {t1} |-> c], deps |-> [c \in {t2} |-> {t1}]],
            [ids |-> [c \in {t1, t2} |-> c], deps |-> << >>]}

\* Three transfers in a row, two feeding one, and one feeding two.
Triples ==
    {Specification([x \in {t1, t2, t3} |-> CASE x = t1 -> {} [] x = t2 -> {t1} [] x = t3 -> {t2}]),
     Specification([x \in {t1, t2, t3} |-> IF x = t3 THEN {t1, t2} ELSE {}]),
     Specification([x \in {t1, t2, t3} |-> IF x = t1 THEN {} ELSE {t1}])}

\* A transfer that is never accepted, beside another and after it.
Flawed == {Specification([x \in {t1, bad} |-> {}]), Specification([x \in {t1, bad} |-> IF x = bad THEN {t1} ELSE {}])}

AnySpecification == Pairs \union Triples \union Flawed

\* Two independent transfers, and one that spends what the other brought in.
AcyclicPairs == {Specification([x \in {t1, t2} |-> {}]), Specification([x \in {t1, t2} |-> IF x = t2 THEN {t1} ELSE {}])}

CallSymmetry == Permutations(Calls)
=============================================================================
