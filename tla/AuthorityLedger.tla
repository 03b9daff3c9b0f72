--------------------------- MODULE AuthorityLedger ---------------------------
(***************************************************************************)
(* What the external-execution authority promises about money: each grant   *)
(* has a finite ceiling per dimension, a reservation spends from exactly    *)
(* one account grant and one operation grant and is never refunded, and a   *)
(* request can only be sent out of provider attempts already spent.         *)
(***************************************************************************)
EXTENDS Integers

CONSTANTS Account, Operation, Dimension, Budget

Grant == Account \cup Operation

VARIABLES
    spent, \* spent[g][d]: units of dimension d reserved under grant g
    sent   \* sent[g]: requests sent to a provider under grant g

vars == <<spent, sent>>

Init ==
    /\ spent = [g \in Grant |-> [d \in Dimension |-> 0]]
    /\ sent = [g \in Grant |-> 0]

(* The same amounts leave both grants, and only if both have them.          *)
Spend(a, g) ==
    LET Amount(h, d) == spent'[h][d] - spent[h][d]
    IN  /\ \A d \in Dimension :
              /\ Amount(a, d) >= 0 /\ Amount(a, d) = Amount(g, d)
              /\ \A h \in {a, g} : spent'[h][d] <= Budget[h][d]
        /\ \A h \in Grant \ {a, g} : spent'[h] = spent[h]
        /\ UNCHANGED sent

Send(a, g) ==
    /\ \A h \in {a, g} : sent[h] < spent[h]["providerAttempts"]
    /\ sent' = [h \in Grant |-> IF h \in {a, g} THEN sent[h] + 1 ELSE sent[h]]
    /\ UNCHANGED spent

Next ==
    \/ spent' # spent /\ \E a \in Account, g \in Operation : Spend(a, g)
    \/ sent' # sent /\ \E a \in Account, g \in Operation : Send(a, g)

Spec == Init /\ [][Next]_vars
=============================================================================
