------------------------------- MODULE Batcher -------------------------------
(***************************************************************************)
(* The micro-batcher of internal/batcher/batcher.go and the goroutines     *)
(* around it: the gRPC handlers that call Submit, the main loop of Start,  *)
(* the QPS tracker, one flush goroutine per batch, and the callers of      *)
(* Stop.  Steps interleave at the points where the code touches state that *)
(* another goroutine sees: locks, channels, atomics, the WaitGroup.        *)
(*                                                                         *)
(* A prompt, a response text and a request id are opaque.  Time is         *)
(* abstract: a collection window may close at any moment, so reqCount and  *)
(* currentQPS, which only choose its length, are not part of the state.    *)
(***************************************************************************)
EXTENDS Integers, Sequences, FiniteSets, Functions

CONSTANTS
    Requests,       \* the calls of Submit, one *Request each
    Ids,            \* request ids; clients choose them and may reuse one
    IdOf,           \* the ID field of each request
    QueueCap,       \* capacity of the queue channel (1000 in New)
    MaxBatchSize,   \* cfg.MaxBatchSize
    Stoppers,       \* the calls of Stop
    HasCtx,         \* the requests whose Ctx is not nil
    CtxErrs,        \* what Ctx.Err() can return: cancelled, deadline exceeded
    PythonBackend,  \* TRUE: responses as python_backend/main.py builds them
    MaxBody         \* bound on the items of a response of another backend

ASSUME RequestsAssumption ==
    IsFiniteSet(Requests) /\ IdOf \in [Requests -> Ids] /\ HasCtx \subseteq Requests
ASSUME SizesAssumption    == QueueCap \in Nat \ {0} /\ MaxBatchSize \in Nat \ {0}
ASSUME BackendAssumption  == PythonBackend \in BOOLEAN /\ MaxBody \in Nat
\* A context error is not one of the batcher's own.
ASSUME CtxAssumption ==
    CtxErrs \cap {"live", "ok", "itemError", "missing", "unavailable",
                  "invalid", "stopped"} = {}

VARIABLES
    circuitOpen,  \* vg.IsOpen(), kept by the VRAM guard
    ctx,          \* each request's context: "live" or its error
    submit,       \* where each call of Submit is, or what it returned
    queue,        \* b.queue
    loop,         \* where the main loop is
    batch,        \* the slice collectBatch is filling or has returned
    flush,        \* where the flush goroutine of each batch is; a flush is
                  \* named by the first request of its batch
    todo,         \* its batch as far as the cancellation filter has not gone
    waiting,      \* its requests that passed the filter and have no Result
    body,         \* the response items it has not yet matched
    cause,        \* the error it hands to failBatch
    results,      \* every Result ever sent on each request's ResultCh
    stopped,      \* b.stopped
    stopClosed,   \* is b.stopCh closed?
    stop,         \* where each call of Stop is; "panicked": it, or the loop on
                  \* its account, has panicked and with it the process
    tracker,      \* the trackQPS goroutine
    wg,           \* the counter of b.wg
    metrics       \* the Prometheus counters the batcher writes

envVars    == <<circuitOpen, ctx>>
loopVars   == <<loop, batch>>
flushVars  == <<flush, todo, waiting, body, cause>>
stopVars   == <<stopped, stopClosed, stop>>
vars == <<circuitOpen, ctx, submit, queue, loop, batch, flush, todo, waiting,
          body, cause, results, stopped, stopClosed, stop, tracker, wg, metrics>>

----------------------------------------------------------------------------
(* Data *)

ResultKinds == {"ok", "itemError", "missing", "unavailable", "invalid",
                "stopped"} \cup CtxErrs

\* A Result: "ok" carries the output computed for the prompt of request "of";
\* every other kind is an error.
Result == [kind : ResultKinds, of : Requests]

Metric == {"circuitBreakerTrips", "queueRejects", "inferSuccess",
           "inferErrors", "batchSizeSum"}

Refused == {"circuitOpen", "stopped", "queueFull"}

Init ==
    /\ circuitOpen = FALSE
    /\ ctx = [r \in Requests |-> "live"]
    /\ submit = [r \in Requests |-> "new"]
    /\ queue = <<>>
    /\ loop = "init" /\ batch = <<>>
    /\ flush = [r \in Requests |-> "none"]
    /\ todo = [r \in Requests |-> <<>>]
    /\ waiting = [r \in Requests |-> <<>>]
    /\ body = [r \in Requests |-> <<>>]
    /\ cause = [r \in Requests |-> "none"]
    /\ results = [r \in Requests |-> <<>>]
    /\ stopped = FALSE /\ stopClosed = FALSE
    /\ stop = [s \in Stoppers |-> "idle"]
    /\ tracker = "none"
    /\ wg = 0
    /\ metrics = [m \in Metric |-> 0]

\* wg.Done().  At zero it releases every Wait that is blocked; a call of Stop may
\* also not have come to its Wait yet.  A Wait that is released looks at the
\* counter once more before it returns.
Done ==
    /\ wg' = wg - 1
    /\ \E woken \in SUBSET {s \in Stoppers : wg = 1 /\ stop[s] = "wait"} :
           stop' = [s \in Stoppers |-> IF s \in woken THEN "released" ELSE stop[s]]
    /\ UNCHANGED <<stopped, stopClosed>>

Count(m, n) == metrics' = [metrics EXCEPT ![m] = @ + n]

\* req.ResultCh <- Result{...}.  The channel has one slot, so the send cannot
\* block as long as no request is answered twice; AtMostOneResult says so.
Send(r, kind, of) ==
    results' = [results EXCEPT ![r] = Append(@, [kind |-> kind, of |-> of])]

\* Mutant of failRequest: the error is delivered and not counted.
failUncounted(r, err) == Send(r, err, r) /\ UNCHANGED metrics

failRequest(r, err) == Send(r, err, r) /\ Count("inferErrors", 1)

----------------------------------------------------------------------------
(* The environment *)

\* The guard opens or closes the breaker; VramGuard.tla says when.
GuardFlip ==
    /\ circuitOpen' = ~circuitOpen
    /\ UNCHANGED <<ctx, submit, queue, loopVars, flushVars, results, stopVars,
                   tracker, wg, metrics>>

\* A caller gives up, or its deadline passes.
CancelCtx(r) ==
    /\ r \in HasCtx /\ ctx[r] = "live"
    /\ \E e \in CtxErrs : ctx' = [ctx EXCEPT ![r] = e]
    /\ UNCHANGED <<circuitOpen, submit, queue, loopVars, flushVars, results,
                   stopVars, tracker, wg, metrics>>

----------------------------------------------------------------------------
(* Submit *)

\* Mutant of Readers: Stop takes its lock although a Submit is between its
\* check and its send.
NoReaders == {}

\* stopMu: a Submit that holds the read lock across its check of stopped and
\* its send, a Stop whose Lock is pending.
Readers == {r \in Requests : submit[r] = "sending"}
WriterPending == \E s \in Stoppers : stop[s] = "lock"

SubmitOnly == UNCHANGED <<envVars, loopVars, flushVars, results, stopVars,
                          tracker, wg>>

SubmitRejectOpen(r) ==
    /\ submit[r] = "new" /\ circuitOpen
    /\ submit' = [submit EXCEPT ![r] = "circuitOpen"]
    /\ Count("circuitBreakerTrips", 1)
    /\ SubmitOnly /\ UNCHANGED queue

SubmitPassCircuit(r) ==
    /\ submit[r] = "new" /\ ~circuitOpen
    /\ submit' = [submit EXCEPT ![r] = "admitted"]
    /\ SubmitOnly /\ UNCHANGED <<queue, metrics>>

\* A pending writer blocks new readers of a sync.RWMutex.
SubmitRejectStopped(r) ==
    /\ submit[r] = "admitted" /\ ~WriterPending /\ stopped
    /\ submit' = [submit EXCEPT ![r] = "stopped"]
    /\ SubmitOnly /\ UNCHANGED <<queue, metrics>>

\* Mutant of SubmitRLock: stopped is not checked.
SubmitUnchecked(r) ==
    /\ submit[r] = "admitted" /\ ~WriterPending
    /\ submit' = [submit EXCEPT ![r] = "sending"]
    /\ SubmitOnly /\ UNCHANGED <<queue, metrics>>

SubmitRLock(r) ==
    /\ submit[r] = "admitted" /\ ~WriterPending /\ ~stopped
    /\ submit' = [submit EXCEPT ![r] = "sending"]
    /\ SubmitOnly /\ UNCHANGED <<queue, metrics>>

\* Mutant of SubmitEnqueue: the bound of the queue is off by one.
SubmitOverfull(r) ==
    /\ submit[r] = "sending" /\ Len(queue) <= QueueCap
    /\ submit' = [submit EXCEPT ![r] = "accepted"]
    /\ queue' = Append(queue, r)
    /\ SubmitOnly /\ UNCHANGED metrics

SubmitEnqueue(r) ==
    /\ submit[r] = "sending" /\ Len(queue) < QueueCap
    /\ submit' = [submit EXCEPT ![r] = "accepted"]
    /\ queue' = Append(queue, r)
    /\ SubmitOnly /\ UNCHANGED metrics

SubmitRejectFull(r) ==
    /\ submit[r] = "sending" /\ Len(queue) >= QueueCap
    /\ submit' = [submit EXCEPT ![r] = "queueFull"]
    /\ Count("queueRejects", 1)
    /\ SubmitOnly /\ UNCHANGED queue

Submit(r) ==
    \/ SubmitRejectOpen(r) \/ SubmitPassCircuit(r) \/ SubmitRejectStopped(r)
    \/ SubmitRLock(r)      \/ SubmitEnqueue(r)     \/ SubmitRejectFull(r)

----------------------------------------------------------------------------
(* Start: the main loop, collectBatch and drainQueueWithError *)

LoopOnly == UNCHANGED <<envVars, submit, stopVars>>

LoopStart ==
    /\ loop = "init"
    /\ loop' = "peek" /\ tracker' = "running" /\ wg' = wg + 1
    /\ LoopOnly /\ UNCHANGED <<queue, batch, flushVars, results, metrics>>

LoopPeek ==
    /\ loop = "peek"
    /\ loop' = IF stopClosed THEN "drain" ELSE "collect"
    /\ LoopOnly
    /\ UNCHANGED <<queue, batch, flushVars, results, tracker, wg, metrics>>

CollectTake ==
    /\ loop = "collect" /\ queue # <<>>
    /\ queue' = Tail(queue)
    /\ batch' = Append(batch, Head(queue))
    /\ loop' = IF Len(batch') >= MaxBatchSize THEN "collected" ELSE "collect"
    /\ LoopOnly /\ UNCHANGED <<flushVars, results, tracker, wg, metrics>>

\* The deadline fires, or stopCh is closed: whatever was collected is returned.
\* With several cases of the select ready Go takes any of them.
CollectReturn ==
    /\ loop = "collect"
    /\ loop' = "collected"
    /\ LoopOnly
    /\ UNCHANGED <<queue, batch, flushVars, results, tracker, wg, metrics>>

\* Mutant of LoopFlush: the slice given to the flush is used again.
LoopFlushAliased ==
    /\ loop = "collected" /\ batch # <<>>
    /\ flush' = [flush EXCEPT ![Head(batch)] = "filter"]
    /\ todo' = [todo EXCEPT ![Head(batch)] = batch]
    /\ wg' = wg + 1
    /\ loop' = "peek"
    /\ LoopOnly
    /\ UNCHANGED <<queue, batch, waiting, body, cause, results, tracker, metrics>>

LoopFlush ==
    /\ loop = "collected" /\ batch # <<>>
    /\ flush' = [flush EXCEPT ![Head(batch)] = "filter"]
    /\ todo' = [todo EXCEPT ![Head(batch)] = batch]
    /\ wg' = wg + 1
    /\ batch' = <<>> /\ loop' = "peek"
    /\ LoopOnly
    /\ UNCHANGED <<queue, waiting, body, cause, results, tracker, metrics>>

LoopIdle ==
    /\ loop = "collected" /\ batch = <<>>
    /\ loop' = IF stopClosed THEN "drain" ELSE "peek"
    /\ LoopOnly
    /\ UNCHANGED <<queue, batch, flushVars, results, tracker, wg, metrics>>

\* Mutant of DrainOne: shutdown throws the queue away.
DrainSilently ==
    /\ loop = "drain" /\ queue # <<>>
    /\ queue' = Tail(queue)
    /\ LoopOnly
    /\ UNCHANGED <<loopVars, flushVars, results, tracker, wg, metrics>>

DrainOne ==
    /\ loop = "drain" /\ queue # <<>>
    /\ queue' = Tail(queue)
    /\ failRequest(Head(queue), "stopped")
    /\ LoopOnly /\ UNCHANGED <<loopVars, flushVars, tracker, wg>>

DrainDone ==
    /\ loop = "drain" /\ queue = <<>>
    /\ loop' = "exited"
    /\ LoopOnly
    /\ UNCHANGED <<queue, batch, flushVars, results, tracker, wg, metrics>>

LoopStep == \/ LoopStart \/ LoopPeek \/ CollectTake \/ CollectReturn
            \/ LoopFlush \/ LoopIdle \/ DrainOne \/ DrainDone

\* trackQPS sees stopCh closed and its goroutine is done.
TrackerExit ==
    /\ tracker = "running" /\ stopClosed
    /\ tracker' = "done" /\ Done
    /\ UNCHANGED <<envVars, submit, queue, loopVars, flushVars, results, metrics>>

----------------------------------------------------------------------------
(* flushBatch *)

FlushFrame == UNCHANGED <<envVars, submit, queue, loopVars, tracker>>
FlushOnly == FlushFrame /\ UNCHANGED stopVars

FlushDropCancelled(l) ==
    /\ flush[l] = "filter" /\ todo[l] # <<>>
    /\ ctx[Head(todo[l])] # "live"
    /\ failRequest(Head(todo[l]), ctx[Head(todo[l])])
    /\ todo' = [todo EXCEPT ![l] = Tail(@)]
    /\ FlushOnly /\ UNCHANGED <<flush, waiting, body, cause, wg>>

FlushKeep(l) ==
    /\ flush[l] = "filter" /\ todo[l] # <<>>
    /\ ctx[Head(todo[l])] = "live"
    /\ waiting' = [waiting EXCEPT ![l] = Append(@, Head(todo[l]))]
    /\ todo' = [todo EXCEPT ![l] = Tail(@)]
    /\ FlushOnly /\ UNCHANGED <<flush, body, cause, results, wg, metrics>>

\* The payload cannot be encoded or the request cannot be built: nothing is
\* observed in the histograms.
FlushBuildFails(l) ==
    /\ flush[l] = "filter" /\ todo[l] = <<>> /\ waiting[l] # <<>>
    /\ flush' = [flush EXCEPT ![l] = "fail"]
    /\ cause' = [cause EXCEPT ![l] = "invalid"]
    /\ FlushOnly /\ UNCHANGED <<todo, waiting, body, results, wg, metrics>>

FlushPost(l) ==
    /\ flush[l] = "filter" /\ todo[l] = <<>> /\ waiting[l] # <<>>
    /\ flush' = [flush EXCEPT ![l] = "http"]
    /\ FlushOnly /\ UNCHANGED <<todo, waiting, body, cause, results, wg, metrics>>

\* Do returns: a transport error, the client timeout or a non-2xx status
\* ("unavailable"), or a body that is not the envelope ("invalid").
FlushNoResponse(l) ==
    /\ flush[l] = "http"
    /\ \E e \in {"unavailable", "invalid"} : cause' = [cause EXCEPT ![l] = e]
    /\ flush' = [flush EXCEPT ![l] = "fail"]
    /\ Count("batchSizeSum", Len(waiting[l]))
    /\ FlushOnly /\ UNCHANGED <<todo, waiting, body, results, wg>>

\* The items of a decoded response, each named by the request whose prompt it
\* was computed for and carrying that request's id.  The Python backend answers
\* every prompt of the payload in its order; another one may omit, repeat or
\* reorder items and name ids that were not in the batch.
Responses(payload) ==
    IF PythonBackend THEN {payload}
                     ELSE UNION {[1..n -> Requests] : n \in 0..MaxBody}

FlushDecoded(l) ==
    /\ flush[l] = "http"
    /\ \E items \in Responses(waiting[l]) : body' = [body EXCEPT ![l] = items]
    /\ flush' = [flush EXCEPT ![l] = "match"]
    /\ Count("batchSizeSum", Len(waiting[l]))
    /\ FlushOnly /\ UNCHANGED <<todo, waiting, cause, results, wg>>

\* Mutant of Front: the last request of an id is answered first.
Back(s, i) == \A j \in DOMAIN s : IdOf[s[j]] = IdOf[s[i]] => j <= i

\* Mutant of Without: the slice of the id is not advanced.
Unpopped(s, i) == s

\* reqMap, the requests without a Result grouped by id, in the order of the
\* batch: Front(s, i) says that the i-th is the first one of its id.
HasId(s, id) == \E i \in DOMAIN s : IdOf[s[i]] = id
Front(s, i) == \A j \in DOMAIN s : IdOf[s[j]] = IdOf[s[i]] => i <= j
Without(s, i) == [j \in 1..(Len(s) - 1) |-> IF j < i THEN s[j] ELSE s[j + 1]]

\* Mutant of FlushMatch: results are matched by position, not by id.
FlushMatchByPosition(l) ==
    /\ flush[l] = "match" /\ body[l] # <<>> /\ waiting[l] # <<>>
    /\ Send(Head(waiting[l]), "ok", Head(body[l])) /\ Count("inferSuccess", 1)
    /\ waiting' = [waiting EXCEPT ![l] = Tail(@)]
    /\ body' = [body EXCEPT ![l] = Tail(@)]
    /\ FlushOnly /\ UNCHANGED <<flush, todo, cause, wg>>

FlushMatch(l) ==
    /\ flush[l] = "match" /\ body[l] # <<>>
    /\ \E i \in DOMAIN waiting[l] :
           /\ IdOf[waiting[l][i]] = IdOf[Head(body[l])] /\ Front(waiting[l], i)
           /\ \/ /\ Send(waiting[l][i], "itemError", Head(body[l]))
                 /\ Count("inferErrors", 1)
              \/ /\ Send(waiting[l][i], "ok", Head(body[l]))
                 /\ Count("inferSuccess", 1)
           /\ waiting' = [waiting EXCEPT ![l] = Without(@, i)]
    /\ body' = [body EXCEPT ![l] = Tail(@)]
    /\ FlushOnly /\ UNCHANGED <<flush, todo, cause, wg>>

FlushUnknown(l) ==
    /\ flush[l] = "match" /\ body[l] # <<>>
    /\ ~HasId(waiting[l], IdOf[Head(body[l])])
    /\ body' = [body EXCEPT ![l] = Tail(@)]
    /\ FlushOnly /\ UNCHANGED <<flush, todo, waiting, cause, results, wg, metrics>>

\* The backend omitted some items.  Go walks a map in any order, the requests
\* of one id in theirs.
FlushMissing(l) ==
    /\ flush[l] = "match" /\ body[l] = <<>>
    /\ \E i \in DOMAIN waiting[l] :
           /\ Front(waiting[l], i)
           /\ failRequest(waiting[l][i], "missing")
           /\ waiting' = [waiting EXCEPT ![l] = Without(@, i)]
    /\ FlushOnly /\ UNCHANGED <<flush, todo, body, cause, wg>>

\* failBatch, one request at a time.
FlushFail(l) ==
    /\ flush[l] = "fail" /\ waiting[l] # <<>>
    /\ failRequest(Head(waiting[l]), cause[l])
    /\ waiting' = [waiting EXCEPT ![l] = Tail(@)]
    /\ FlushOnly /\ UNCHANGED <<flush, todo, body, cause, wg>>

\* Mutants of FlushReturn: the requests the backend omitted are forgotten; the
\* WaitGroup is not told.
FlushForgets(l) ==
    /\ flush[l] \in {"fail", "match"} /\ todo[l] = <<>> /\ body[l] = <<>>
    /\ flush' = [flush EXCEPT ![l] = "done"]
    /\ Done
    /\ FlushFrame /\ UNCHANGED <<todo, waiting, body, cause, results, metrics>>
FlushLeaks(l) ==
    /\ flush[l] \in {"filter", "fail", "match"}
    /\ todo[l] = <<>> /\ waiting[l] = <<>> /\ body[l] = <<>>
    /\ flush' = [flush EXCEPT ![l] = "done"]
    /\ FlushOnly /\ UNCHANGED <<todo, waiting, body, cause, results, wg, metrics>>

\* flushBatch returns: everyone was cancelled, or everyone has a Result.
FlushReturn(l) ==
    /\ flush[l] \in {"filter", "fail", "match"}
    /\ todo[l] = <<>> /\ waiting[l] = <<>> /\ body[l] = <<>>
    /\ flush' = [flush EXCEPT ![l] = "done"]
    /\ cause' = [cause EXCEPT ![l] = "none"]
    /\ Done
    /\ FlushFrame /\ UNCHANGED <<todo, waiting, body, results, metrics>>

FlushStep(l) ==
    \/ FlushDropCancelled(l) \/ FlushKeep(l)       \/ FlushBuildFails(l)
    \/ FlushPost(l)          \/ FlushNoResponse(l) \/ FlushDecoded(l)
    \/ FlushMatch(l)         \/ FlushUnknown(l)    \/ FlushMissing(l)
    \/ FlushFail(l)          \/ FlushReturn(l)

----------------------------------------------------------------------------
(* Stop *)

StopOnly == UNCHANGED <<envVars, submit, queue, loopVars, flushVars, results,
                        tracker, wg, metrics>>

\* The first caller runs the body of stopOnce and asks for stopMu.
StopEnter(s) ==
    /\ \A t \in Stoppers : stop[t] = "idle"
    /\ stop' = [stop EXCEPT ![s] = "lock"]
    /\ StopOnly /\ UNCHANGED <<stopped, stopClosed>>

\* Later callers wait until the body of stopOnce has run.
StopSkip(s) ==
    /\ stop[s] = "idle" /\ stopClosed
    /\ stop' = [stop EXCEPT ![s] = "wait"]
    /\ StopOnly /\ UNCHANGED <<stopped, stopClosed>>

\* Lock is granted when the last reader has left.
StopMark(s) ==
    /\ stop[s] = "lock" /\ Readers = {}
    /\ stopped' = TRUE
    /\ stop' = [stop EXCEPT ![s] = "close"]
    /\ StopOnly /\ UNCHANGED stopClosed

StopClose(s) ==
    /\ stop[s] = "close"
    /\ stopClosed' = TRUE
    /\ stop' = [stop EXCEPT ![s] = "wait"]
    /\ StopOnly /\ UNCHANGED stopped

\* b.wg.Wait()
StopReturn(s) ==
    /\ stop[s] \in {"wait", "released"} /\ wg = 0
    /\ stop' = [stop EXCEPT ![s] = "returned"]
    /\ StopOnly /\ UNCHANGED <<stopped, stopClosed>>

\* The tracker and the flushes are done, but the loop still holds a batch and
\* raises the counter again.  "WaitGroup misuse: Add called concurrently with
\* Wait", panics the Add that comes upon a Wait being released; "WaitGroup is
\* reused before previous Wait has returned", a Wait that wakes to a counter
\* above zero.  Nobody recovers.
StopPanics(s) ==
    /\ stop[s] = "released"
    /\ wg # 0 \/ (loop = "collected" /\ batch # <<>>)
    /\ stop' = [stop EXCEPT ![s] = "panicked"]
    /\ StopOnly /\ UNCHANGED <<stopped, stopClosed>>

StopStep(s) == StopEnter(s) \/ StopSkip(s) \/ StopMark(s) \/ StopClose(s)
                            \/ StopReturn(s) \/ StopPanics(s)

Panicked == \E s \in Stoppers : stop[s] = "panicked"

----------------------------------------------------------------------------
(* The specification *)

\* A goroutine runs while the process lives.
Run(A) == ~Panicked /\ A

Next ==
    \/ Run(GuardFlip)
    \/ Run(LoopStep)
    \/ Run(TrackerExit)
    \/ \E r \in Requests : Run(CancelCtx(r) \/ Submit(r) \/ FlushStep(r))
    \/ \E s \in Stoppers : Run(StopStep(s))
    \/ Panicked /\ UNCHANGED vars

Spec == Init /\ [][Next]_vars

\* The Go scheduler runs every goroutine that can run.  A flush always gets
\* past the HTTP call, which the client timeout bounds.  Taking from a queue
\* that stays non-empty is strongly fair: the window is at least 1 ms, and a
\* select with several ready cases chooses at random.  Nobody is obliged to
\* call Submit or Stop, to cancel, or to flip the breaker.
Fairness ==
    /\ WF_vars(Run(LoopStep)) /\ SF_vars(Run(CollectTake))
    /\ WF_vars(Run(TrackerExit))
    /\ \A r \in Requests :
         /\ WF_vars(Run(FlushStep(r)))
         /\ WF_vars(Run(submit[r] # "new" /\ Submit(r)))
    /\ \A s \in Stoppers : WF_vars(Run(stop[s] # "idle" /\ StopStep(s)))

FairSpec == Spec /\ Fairness
=============================================================================
