---------------------------- MODULE PaidRequest ----------------------------
(***************************************************************************)
(* What the two Gemini workers promise about money: the calls one AI job   *)
(* sends to the provider are all sent by a single attempt, one at a time   *)
(* and none twice, and each was put on record while the job was still      *)
(* undecided.  The decision may overtake the one call that is on record;   *)
(* after that nothing is left to send.                                     *)
(***************************************************************************)
CONSTANTS Attempt, Turn
VARIABLES ready,   \* the call on record that may yet be sent
          sent,    \* the calls sent, by attempt and turn
          closed

vars == <<ready, sent, closed>>

Init == ready = {} /\ sent = {} /\ closed = FALSE

\* Only the attempt that sent the earlier calls has another one.
Record(a, n) ==
    /\ ~closed
    /\ ready = {} /\ \A call \in sent : call[1] = a
    /\ <<a, n>> \notin sent
    /\ ready' = {<<a, n>>}
    /\ UNCHANGED <<sent, closed>>

Send ==
    /\ ready # {} /\ ready' = {}
    /\ sent' = sent \cup ready
    /\ UNCHANGED closed

\* A crash, an abort, a lost lease or a refusal.
Withdraw == ready # {} /\ ready' = {} /\ UNCHANGED <<sent, closed>>

Close == ~closed /\ closed' = TRUE /\ UNCHANGED <<ready, sent>>

Next ==
    \/ Send \/ Withdraw \/ Close
    \/ \E a \in Attempt, n \in Turn : Record(a, n)

Spec == Init /\ [][Next]_vars
============================================================================
