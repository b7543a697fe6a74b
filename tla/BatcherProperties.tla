-------------------------- MODULE BatcherProperties --------------------------
(* What the batcher of Batcher.tla must guarantee. *)
EXTENDS Batcher

Active == {l \in Requests : flush[l] \notin {"none", "done"}}
Held(l) == Range(todo[l]) \cup Range(waiting[l])

StopStates == {"idle", "lock", "close", "wait", "released", "returned", "panicked"}

TypeOK ==
    /\ circuitOpen \in BOOLEAN
    /\ ctx \in [Requests -> CtxErrs \cup {"live"}]
    /\ submit \in [Requests ->
           {"new", "admitted", "sending", "accepted"} \cup Refused]
    /\ queue \in Seq(Requests) /\ Len(queue) <= QueueCap
    /\ loop \in {"init", "peek", "collect", "collected", "drain", "exited"}
    /\ batch \in Seq(Requests) /\ Len(batch) <= MaxBatchSize
    /\ flush \in [Requests -> {"none", "filter", "http", "fail", "match", "done"}]
    /\ todo \in [Requests -> Seq(Requests)]
    /\ waiting \in [Requests -> Seq(Requests)]
    /\ body \in [Requests -> Seq(Requests)]
    /\ cause \in [Requests -> {"none", "unavailable", "invalid"}]
    /\ results \in [Requests -> Seq(Result)]
    /\ stopped \in BOOLEAN /\ stopClosed \in BOOLEAN
    /\ stop \in [Stoppers -> StopStates]
    /\ tracker \in {"none", "running", "done"}
    /\ wg \in Int
    /\ metrics \in [Metric -> Int]

----------------------------------------------------------------------------
(* Safety *)

\* ResultCh receives exactly one Result, and only for a request that Submit
\* accepted (Request.ResultCh, batcher.go:64-68).  A second send would block
\* the flush for ever, its channel has one slot.
AtMostOneResult ==
    \A r \in Requests :
        /\ Len(results[r]) <= 1
        /\ results[r] # <<>> => submit[r] = "accepted"

Pending(r) == submit[r] = "accepted" /\ results[r] = <<>>

\* An accepted request that has no Result is in the hands of a goroutine that
\* will give it one: in the queue of a loop that has not exited, in the batch
\* the loop has collected, or in a running flush (batcher.go:152-154, 406).
NoRequestStranded ==
    \A r \in Requests : Pending(r) =>
        \/ r \in Range(queue) /\ loop # "exited"
        \/ r \in Range(batch) /\ loop \in {"collect", "collected"}
        \/ \E l \in Active : r \in Held(l)

\* The Python backend answers in the order of the payload and reqMap is popped
\* in the order of the batch, so a caller gets the output for its own prompt
\* even when two requests of a batch share an id (batcher.go:292-298, 381-390).
OwnAnswer ==
    PythonBackend => \A r \in Requests : \A i \in DOMAIN results[r] :
                         results[r][i].of = r

\* Whatever the backend sends, no caller gets an item of another id.
CorrelatedAnswer ==
    \A r \in Requests : \A i \in DOMAIN results[r] :
        IdOf[results[r][i].of] = IdOf[r]

ResultsOf(K) == {r \in Requests : \E i \in DOMAIN results[r] :
                                      results[r][i].kind \in K}

\* The counters agree with what callers were told: every Result is counted
\* once, as a success or an error, and every refusal for pressure or for a full
\* queue once.  Nothing is counted as sent to the backend that is not answered
\* with a backend outcome or still waiting for it (metrics.go, batcher.go:351).
OutcomesCounted ==
    LET InPost  == {r \in Requests : \E l \in Active :
                        flush[l] \in {"match", "fail"} /\ r \in Range(waiting[l])}
        Outcome == ResultsOf({"ok", "itemError", "missing", "unavailable"})
    IN  /\ metrics["inferSuccess"] = Cardinality(ResultsOf({"ok"}))
        /\ metrics["inferErrors"]
             = Cardinality(ResultsOf(ResultKinds \ {"ok"}))
        /\ metrics["circuitBreakerTrips"]
             = Cardinality({r \in Requests : submit[r] = "circuitOpen"})
        /\ metrics["queueRejects"]
             = Cardinality({r \in Requests : submit[r] = "queueFull"})
        /\ metrics["batchSizeSum"] >= Cardinality(Outcome)
        /\ metrics["batchSizeSum"]
             <= Cardinality(Outcome \cup InPost \cup ResultsOf({"invalid"}))

\* The WaitGroup counts the tracker and the running flushes, so it never goes
\* negative, which would panic (batcher.go:180-184, 210-214).
WaitGroupCounts ==
    wg = Cardinality(Active) + (IF tracker = "running" THEN 1 ELSE 0)

\* Once Stop has marked the batcher no request enters the queue, although the
\* check and the send of Submit are separate steps (batcher.go:96-99, 152-164).
NoEnqueueAfterStop ==
    [][stopped => \A i \in DOMAIN queue' : queue'[i] \in Range(queue)]_vars

----------------------------------------------------------------------------
(* The inductive invariant: who holds a request, and when *)

\* The queue, the collected batch and the flushes hold disjoint sets of
\* requests, each request once.
HeldOnce ==
    /\ IsInjective(queue) /\ IsInjective(batch)
    /\ Range(queue) \cap Range(batch) = {}
    /\ \A l \in Requests :
        /\ IsInjective(todo[l]) /\ IsInjective(waiting[l])
        /\ Range(todo[l]) \cap Range(waiting[l]) = {}
        /\ Range(queue) \cap Held(l) = {} /\ Range(batch) \cap Held(l) = {}
        /\ \A m \in Requests \ {l} : Held(l) \cap Held(m) = {}

\* Whatever is held has been accepted and not been answered.
HeldIsPending ==
    /\ \A r \in Range(queue) \cup Range(batch) : Pending(r)
    /\ \A l \in Requests : \A r \in Held(l) : Pending(r)

\* A flush holds requests only while it runs, and its name is used once: the
\* request it is named by is in the flush or has been answered.
FlushShape ==
    \A l \in Requests :
        /\ flush[l] \in {"none", "done"} => Held(l) = {}
        /\ flush[l] # "none" => l \in Held(l) \/ results[l] # <<>>
        /\ flush[l] = "fail" => cause[l] # "none"

\* The loop holds a batch only while it collects, and drains after Stop.
LoopShape ==
    /\ loop \notin {"collect", "collected"} => batch = <<>>
    /\ loop = "collect" => Len(batch) < MaxBatchSize
    /\ loop \in {"drain", "exited"} => stopClosed

\* The RWMutex keeps Stop out while a Submit is between check and send.
LockShape ==
    /\ stopped => Readers = {}
    /\ stopClosed => stopped
    /\ \A s \in Stoppers : stop[s] \notin {"idle", "lock"} => stopped

\* While the items of the Python backend are matched, what is left of them and
\* the requests that wait for them are in step.
InStep ==
    PythonBackend => \A l \in Requests : flush[l] = "match" => body[l] = waiting[l]

IndInv == /\ TypeOK /\ AtMostOneResult /\ NoRequestStranded
          /\ HeldOnce /\ HeldIsPending /\ FlushShape /\ LoopShape /\ LockShape

----------------------------------------------------------------------------
(* Refinement: the batcher keeps the ledger of RequestLedger.tla *)

Entry == [r \in Requests |->
              IF submit[r] = "accepted" THEN "accepted"
              ELSE IF submit[r] \in Refused THEN "refused" ELSE "open"]

Answers == [r \in Requests |-> Len(results[r])]

Ledger == INSTANCE RequestLedger
              WITH entry   <- Entry,
                   answers <- Answers,
                   closed  <- stopped,
                   dead    <- Panicked

\* Submit decides once, an accepted request is answered at most once, a
\* refused one never, and nothing is accepted after Stop has begun.
KeepsLedger == Ledger!Spec

\* In addition every accepted request is answered in the end, whether its batch
\* succeeds, fails, or is drained during shutdown, unless a Stop panics
\* (batcher.go:64-66, 210, 234).
AnswersLedger == Ledger!LiveSpec

----------------------------------------------------------------------------
(* Liveness *)

\* Every call of Stop that has begun returns, or the WaitGroup finds itself reused
\* and the process panics: none waits for ever (batcher.go:210, 234).  Each
\* caller calls it once, so it is enough that in the end none is still in it.
Stopping == {s \in Stoppers : stop[s] \notin {"idle", "returned"}}
StopReturns == Stopping # {} ~> Stopping = {} \/ Panicked

----------------------------------------------------------------------------
(* Statements of the repository that the code does not keep *)

\* batcher.go:218-222: Stop "waits for in-flight batch flushes to finish"; a
\* batch already collected "is flushed so its callers can still receive its
\* backend outcome".  Asked only of a batcher whose Start is already running.
StopWaitsForFlushes ==
    (\E s \in Stoppers : stop[s] = "returned") /\ loop # "init"
        => Active = {} /\ batch = <<>>

\* batcher.go:218-222: "a batch already collected by the main loop is flushed so its
\* callers can still receive its backend outcome."  It is, unless the Add of its
\* flush meets the Wait of Stop (batcher.go:210, 234): then the process panics.
CollectedAreFlushed ==
    \A r \in Requests : (stopClosed /\ r \in Range(batch)) ~> results[r] # <<>>

\* docs/configuration.md:61-63: "Input Total = Accepted + Rejected" with
\* Accepted = batch_size_sum.  Asked only when every call of Submit has
\* returned and every accepted request has its Result.
DashboardTotal ==
    (\A r \in Requests : \/ submit[r] \in Refused
                         \/ submit[r] = "accepted" /\ results[r] # <<>>)
        => metrics["batchSizeSum"] + metrics["circuitBreakerTrips"]
             + metrics["queueRejects"] = Cardinality(Requests)
=============================================================================
