-------------------------- MODULE BackendProperties --------------------------
(* What the backend of Backend.tla must guarantee. *)
EXTENDS Backend

TypeOK ==
    /\ call \in [Batches -> {"idle", "open", "answered", "late", "cut"}]
    /\ body \in [Batches -> Seq([of : Nat, ok : BOOLEAN])]
    /\ handler \in [Batches -> {"none", "gather", "returned"}]
    /\ finished \in [Batches -> Seq([of : Nat, ok : BOOLEAN])]
    /\ permits \in 0..Concurrency
    /\ waiters \in Seq(Tasks)
    /\ DOMAIN running \subseteq Tasks
    /\ \A t \in DOMAIN running : running[t] \in 0..OllamaTimeout
    /\ age \in [Batches -> Nat] /\ due \in [Batches -> Nat]

----------------------------------------------------------------------------
(* Safety *)

\* Ollama never sees more calls than the semaphore allows and no permit is lost
\* or made up, on any way out of call_ollama: the permits left and the running
\* calls add up, and a task waits only while there is none (main.py:29-32, 82).
PermitsAccounted ==
    /\ permits + Cardinality(DOMAIN running) = Concurrency
    /\ waiters # <<>> => permits = 0

FinishedOf(b) == {finished[b][k].of : k \in DOMAIN finished[b]}

\* Every prompt of a batch in the hands of infer is in one place: its task waits,
\* or runs, or has left one result.  A handler that has returned leaves nothing
\* behind (main.py:136-142).
TasksAccounted ==
    /\ IsInjective(waiters) /\ Range(waiters) \cap DOMAIN running = {}
    /\ \A b \in Batches :
        LET inFlight == {i \in 1..Size[b] :
                            <<b, i>> \in Range(waiters) \cup DOMAIN running}
        IN  /\ Len(finished[b]) = Cardinality(FinishedOf(b))
            /\ inFlight = IF handler[b] = "gather"
                          THEN (1..Size[b]) \ FinishedOf(b) ELSE {}

\* The price of the shared semaphore: a handler is through when the tasks ahead
\* of it, those of batches that were given up included, and its own have been
\* served in rounds of one Ollama timeout.  Nobody who comes later delays it
\* (main.py:24-32, 82, 140-141).
BoundedService ==
    \A b \in Batches : handler[b] = "gather" => age[b] <= due[b]

\* How long BACKEND_TIMEOUT_MS has to be: a batch whose rounds end before it is
\* given up for lateness by nobody, whatever its prompts and those of the other
\* batches run into (main.py:24-28, 72-76, batcher.go:131-133).
FitsIsAnswered ==
    \A b \in Batches : call[b] = "late" /\ handler[b] # "none" =>
                           due[b] >= BatchTimeout

----------------------------------------------------------------------------
(* Refinement and liveness *)

Outcome == [b \in Batches |->
               IF call[b] \in {"late", "cut"} THEN "failed" ELSE call[b]]

Service == INSTANCE BatchService WITH call <- Outcome

\* One result per prompt in the order of the payload, or one failure, and every
\* call ends (main.py:123-134).
ImplementsService == Service!LiveSpec

\* Every handler returns, also that of a batch which nobody waits for any more,
\* so that its tasks do not hold the semaphore for ever.
HandlersReturn ==
    \A b \in Batches : handler[b] = "gather" ~> handler[b] = "returned"
=============================================================================
