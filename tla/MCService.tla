------------------------------ MODULE MCService ------------------------------
(***************************************************************************)
(* Service for TLC: every method in both encodings with a good message, with *)
(* messages that are garbled, empty or invalid, and one wrong request of     *)
(* each kind for every service; operators and refusals meet Provision.       *)
(***************************************************************************)
EXTENDS Service

Command(service, method) ==
    [verb |-> "POST", path |-> "good", service |-> service, method |-> method,
     contentType |-> "protobuf", body |-> "good", refused |-> FALSE]

Every == UNION {{Command(s, n) : n \in Methods[s]} : s \in DOMAIN Methods}
First(s) == Command(s, CHOOSE n \in Methods[s] : TRUE)

Good == {[c EXCEPT !.contentType = t] : c \in Every, t \in {"json", "protobuf"}}
BadBody == {[c EXCEPT !.body = b] : c \in Good, b \in {"garbled", "empty", "invalid"}}
BadRoute ==
    UNION {{[First(s) EXCEPT !.verb = "GET"], [First(s) EXCEPT !.path = "unmounted"],
            [First(s) EXCEPT !.path = "nested"], [First(s) EXCEPT !.contentType = "text"],
            [First(s) EXCEPT !.service = IF s = "token" THEN "wallet" ELSE "token"]} : s \in DOMAIN Methods}
Provision == Command("holder", "Provision")

In(commands, operator, boots_, faults_) ==
    {[command |-> c, operator |-> operator, maxBoots |-> boots_, maxFaults |-> faults_] : c \in commands}

Protobuf == {c \in Good : c.contentType = "protobuf"}
Unmounted == {[Provision EXCEPT !.path = "unmounted"]}

AllScenarios ==
    In(BadBody \union BadRoute \union (Good \ Protobuf), "none", 1, 0)
    \union In(Protobuf \union {[Provision EXCEPT !.refused = TRUE]}, "none", 1, 1)
    \union In({Provision}, "none", 1, 2)
    \union In({Provision, Command("transfer", "PostPendingTransfer")}, "none", 2, 1)
    \union In(Unmounted, "up", 2, 1) \union In(Unmounted, "down", 2, 1)
    \union In({Provision}, "down", 1, 0)
=============================================================================
