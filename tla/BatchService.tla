---------------------------- MODULE BatchService ----------------------------
(***************************************************************************)
(* What the batcher relies on when it posts a batch to POST /infer, as the *)
(* docstrings of call_ollama and infer in python_backend/main.py state it: *)
(*   - a call that is answered gets one result per prompt, in the order of *)
(*     the payload, each an output or an error of that prompt alone;       *)
(*   - otherwise the call fails as a whole, and nothing arrives later.     *)
(* This is the response that Batcher.tla assumes under PythonBackend.      *)
(***************************************************************************)
EXTENDS Integers, Sequences

CONSTANTS
    Batches,  \* calls that may be in flight at once; each is used repeatedly
    Size      \* the number of prompts in the payload of each

VARIABLES
    call,  \* "idle", "open", "answered" or "failed"
    body   \* the results of the last answer

service == <<call, body>>

Item(b) == [of : 1..Size[b], ok : BOOLEAN]

Init ==
    /\ call = [b \in Batches |-> "idle"]
    /\ body = [b \in Batches |-> <<>>]

Post(b) ==
    /\ call[b] # "open"
    /\ call' = [call EXCEPT ![b] = "open"]
    /\ body' = [body EXCEPT ![b] = <<>>]

Answer(b) ==
    /\ call[b] = "open"
    /\ call' = [call EXCEPT ![b] = "answered"]
    /\ \E items \in [1..Size[b] -> Item(b)] :
           /\ \A i \in 1..Size[b] : items[i].of = i
           /\ body' = [body EXCEPT ![b] = items]

Fail(b) ==
    /\ call[b] = "open"
    /\ call' = [call EXCEPT ![b] = "failed"]
    /\ UNCHANGED body

Next == \E b \in Batches : Post(b) \/ Answer(b) \/ Fail(b)

Spec == Init /\ [][Next]_service

\* No call stays open.
LiveSpec == Spec /\ \A b \in Batches : WF_service(Answer(b) \/ Fail(b))
=============================================================================
