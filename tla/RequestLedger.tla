---------------------------- MODULE RequestLedger ----------------------------
(***************************************************************************)
(* What the batcher promises its callers, as the comments of Submit, Stop  *)
(* and Request.ResultCh in internal/batcher/batcher.go state it:           *)
(*   - a submission is either taken into the ledger or refused, once;      *)
(*   - a request taken into the ledger gets one answer, a refused one none;*)
(*   - nothing enters a ledger that has been closed;                       *)
(*   - all of it ends if the process dies, which may happen at any moment. *)
(* How requests travel in between is not said.                             *)
(***************************************************************************)
EXTENDS Integers

CONSTANT Requests

VARIABLES
    entry,    \* "open", "accepted" or "refused" for each request
    answers,  \* how many answers it has had
    closed,   \* has the ledger been closed?
    dead      \* has the process died?

ledger == <<entry, answers, closed, dead>>

Init ==
    /\ entry = [r \in Requests |-> "open"]
    /\ answers = [r \in Requests |-> 0]
    /\ closed = FALSE /\ dead = FALSE

Accept(r) ==
    /\ entry[r] = "open" /\ ~closed /\ ~dead
    /\ entry' = [entry EXCEPT ![r] = "accepted"]
    /\ UNCHANGED <<answers, closed, dead>>

Refuse(r) ==
    /\ entry[r] = "open" /\ ~dead
    /\ entry' = [entry EXCEPT ![r] = "refused"]
    /\ UNCHANGED <<answers, closed, dead>>

Answer(r) ==
    /\ entry[r] = "accepted" /\ answers[r] = 0 /\ ~dead
    /\ answers' = [answers EXCEPT ![r] = 1]
    /\ UNCHANGED <<entry, closed, dead>>

Close ==
    /\ ~dead /\ closed' = TRUE
    /\ UNCHANGED <<entry, answers, dead>>

Die ==
    /\ ~dead /\ dead' = TRUE
    /\ UNCHANGED <<entry, answers, closed>>

Next == Close \/ Die \/ \E r \in Requests : Accept(r) \/ Refuse(r) \/ Answer(r)

Spec == Init /\ [][Next]_ledger

\* Every accepted request is answered in the end, unless the process dies first.
LiveSpec == Spec /\ \A r \in Requests : WF_ledger(Answer(r))
=============================================================================
