# Distri-Inference-Sidecar in TLA+

The sidecar is a Go process between gRPC clients and an LLM backend. It admits a prompt by
counting its tokens, groups prompts into micro-batches, posts each batch to a Python backend
over HTTP, and refuses work while a GPU is short of memory. This directory holds its
specification: modules that model its concurrent parts, TLC configurations that check them on
small instances, and proofs checked by TLAPS for every value of the constants.

Paths such as `batcher.go` stand for the file of that name under `src/`.

## The system

| Component | State it keeps | Operations | Talks to |
|---|---|---|---|
| Micro-batcher, `internal/batcher` | `queue` channel, `stopped` under `stopMu`, `stopCh`, `stopOnce`, `wg`, one batch per flush, one `ResultCh` per request | `Submit`, `Start` (peek, `collectBatch`, launch, drain), `flushBatch`, `failRequest`, `failBatch`, `trackQPS`, `Stop` | guard (`IsOpen`), backend (HTTP), handlers (`ResultCh`), counters |
| VRAM guard, `internal/vramguard` | the reader, atomics `UsedMB`, `TotalMB`, `circuitOpen`, `stopCh` | `Start`, `pollOnce`, two implementations of `ReadUsageMB`, `GetUsage`, `IsOpen`, `Stop` | NVML or `nvidia-smi`; read by `Submit` and `HealthCheck` |
| gRPC server, `internal/grpcserver` | one handler per call, the listener | `Infer` with three status mappings, `HealthCheck`, `Serve`, `GracefulStop` | tokenizer, batcher, guard |
| Process, `cmd/sidecar` | where `main` is, the result channel of `Serve`, the updater of the gauge | configuration, start, signal, `GracefulStop`, then `Batcher.Stop`, then `Guard.Stop`, then the waits with their timers | all of the above |
| Tokenizer bridge, `internal/tokenizer` | the limit, a trained tokenizer behind the FFI | `Init`, `CountTokens`, `Validate` | Rust BPE |
| Rust BPE, `rust_ops` | a `OnceLock` with vocabulary and merges | train, encode | none |
| Python backend, `python_backend/main.py` | a process-wide semaphore | `/infer`: gather of `call_ollama` | Ollama |
| Metrics, `internal/metrics` | Prometheus counters | increments, `/metrics` | read by the dashboards |

What is hard here is that nearly everything interesting happens between two goroutines:

- `Submit` checks `stopped` and sends on the queue as two steps, and `Stop` must fall on one
  side of both of them.
- A request changes hands five times (handler, queue, batch, flush, `ResultCh`) and each of a
  dozen error paths must answer it once. A second send would block a flush on the one slot of
  the channel, and no send would leave a caller waiting.
- Ids come from clients and need not be unique, yet results are matched by id.
- A context may end at any step, also after the filter has let its request pass.
- `Stop` waits on a WaitGroup that the main loop adds to without being part of it: the Add may
  come after the Wait has returned, or while it is being released, and then Go panics.
- The breaker must keep its state over failed polls, with two readers that treat a failure
  differently, while handlers load its atomics one at a time.
- The breaker compares float64 values: a GPU that is exactly at a line may be rounded off it.
- `GracefulStop` waits without a deadline: the shutdown ends because the handlers end. The metrics
  server has no timeouts either, and there only the deadline ends the wait for a client.
- The backend's semaphore is shared by all batches, also by those that the batcher has given up:
  it is not told, and their prompts keep their places and their permits.
- Several trainings may race to publish a tokenizer, and each breaks ties between pairs in the
  order of a hash map, another one in every process.

The list of hazards, each at its line and with the properties that would catch it, is in
`PROJECT.json`.

## The modules

| Module | What it is |
|---|---|
| `RequestLedger` | Abstract: `Submit` decides once, an accepted request is answered once, nothing is accepted after the close; all of it may end with the process |
| `Batcher`, `BatcherProperties` | The batcher and every goroutine around it; its invariants, the inductive invariant, the refinement of `RequestLedger`, liveness |
| `BatcherProofs`, `CountingProofs` | Theorems about `Batcher`: who holds a request and who gets which answer; what the WaitGroup and the counters count |
| `BatchService` | Abstract: a call of `POST /infer` ends with one result per prompt in the order of the payload, or fails as a whole |
| `Backend`, `BackendProperties`, `BackendProofs` | The Python backend under batches that are in flight side by side, and that it implements `BatchService` |
| `VramGuard`, `VramGuardProperties`, `VramGuardProofs` | The breaker, the GPUs and `HealthCheck` |
| `Bpe`, `BpeProofs` | Training and encoding of the Rust tokenizer as operators of `Tokenizer`; lemmas about them for any text and any choice of merges |
| `Tokenizer`, `TokenizerProperties`, `TokenizerProofs` | Calls of `Init` that race for the `OnceLock`, and callers of `Validate` |
| `Sidecar`, `SidecarProperties`, `SidecarProofs` | `Batcher` composed with the `Infer` handlers and `main`'s shutdown |
| `Process`, `ProcessProperties`, `ProcessProofs` | `VramGuard` composed with the whole life of `main`, the listener, the gauge and RPCs |
| `MCBatcher`, `MCBackend`, `MCVramGuard`, `MCTokenizer`, `MCSidecar`, `MCProcess` | Small instances for TLC |

By construction, and by the lemmas `ProcessUsesBatcher` and `ProcessUsesGuard`, every step of
`Sidecar` is one of `Batcher` or leaves it alone, and so for `Process` and `VramGuard`: what is shown
of the parts holds in the whole. The batcher's constant `PythonBackend` assumes of a response what
`BatchService` promises, and `ImplementsService` shows that the backend keeps the promise.

### Batcher

One action is one step that another goroutine can observe: a lock, a channel operation, an
atomic, a WaitGroup operation. A step of one goroutine that reads state under a lock and that
nobody can change in between (`RLock` with the check of `stopped`) is one action, guarded by
"no writer holds or waits for the lock".

- `submit[r]` follows a call of `Submit`: `new`, `admitted` (past the breaker), `sending` (holds
  the read lock, has seen `stopped` false), then its outcome.
- `loop` and `batch` follow `Start` and `collectBatch`. `flush[l]`, `todo[l]`, `waiting[l]` and
  `body[l]` follow the flush goroutine of the batch whose first request is `l`: the
  cancellation filter request by request, the POST, the response item by item, the requests
  that the backend left out, `failBatch` request by request.
- `reqMap`, a map from an id to a slice, is the sequence `waiting[l]` with the operator `Front`
  ("the first waiting request of its id"). Requests that the backend omitted are failed in any
  order of their ids, as Go ranges over a map.
- `results[r]` is every Result ever sent, so that two are visible as two.
- `stop[s]`, `stopped`, `stopClosed`, `wg` and `tracker` follow `Stop`, whose body `stopOnce`
  runs once while later callers wait for it.
- A `Done` that brings `wg` to zero releases the Waits that block (`Done`; `stop[s]` becomes
  `released`). A released Wait returns if the counter is still zero (`StopReturn`); if the loop,
  which is not counted, has raised it for the flush of its batch or is about to, the WaitGroup may
  panic (`StopPanics`), in the Add ("misuse") or in the Wait ("reused"). Nobody recovers, so from
  then on no goroutine takes a step (`Panicked`, `Run`).

Abstracted: prompts, outputs and ids are opaque; a Result says for which request's prompt it
was computed. Time is abstract, so a collection window may close at any moment and a deadline
may pass at any moment; `reqCount`, `currentQPS` and `dynamicWaitMs`, which only choose the
length of a window, are left out. That the payload cannot be encoded or the HTTP request not be
built is a free choice. The environment is the guard (`GuardFlip`), the contexts (`CancelCtx`)
and the backend: with `PythonBackend` it answers each prompt of the payload in its order, as
`asyncio.gather` does, otherwise it may omit, repeat, reorder and invent up to `MaxBody` items.

### Backend

`call[b]` is a batch as the flush that posted it sees it: open, answered, given up at the client
timeout (`late`), or cut off. `handler[b]` is the coroutine `infer` for it. `Infer` starts the
tasks of a batch in one turn of the event loop, so the first take the free permits and the rest
queue up in the semaphore, which is first come first served. `Finish` is the end of a
`call_ollama`, with a response or with an error, at any time up to the Ollama timeout, and
includes the hand-over of the permit (`Release`). `Respond` is `gather` returning, in the order
of the payload. `GiveUp` and `Cut` do not reach the handler, as there is no code in `infer` that
would notice a client that has gone.

Time is counted in units that are long against a step of the event loop: `Tick` ages the open
batches and the running calls, and does not pass a deadline that is due. `httpx` bounds each
phase of a call and not the whole; `OllamaTimeout` is the bound of all phases together. `due` is
a history variable: the age by which the rounds ahead of a batch and its own are over.

### VramGuard

`Start`, `PollBegin`, `ScanTake`, `ScanSkip`, `ScanError`, `StoreUsed`, `StoreTotal`, `Decide`
and `PollStop` are `Start` and `pollOnce` with `ReadUsageMB` device by device, since a GPU's
memory can change and a read can begin to fail during a poll. `Init` chooses the reader as
`newVRAMReader` does: NVML with the devices whose handles it found, or `nvidia-smi` with all.
NVML skips a device it cannot read; `nvidia-smi` fails the whole sample on one bad line. The
text of its output is abstracted to readable or not. `HealthCheck` is three loads.

The code compares float64 values, `u/t > used/total` and `(used/total)*100.0 >= threshold`, and
both operations round. The constants `Quotient` and `Percent` are these two rounded operations, on
whole numbers of a unit of which `Point` make one percent, and `RoundingAssumption` says of them
what IEEE 754 guarantees: a larger argument never gives a smaller result. Exactness is not assumed,
and a GPU exactly at the open line need not be `High`, as 58/100 is not at a threshold of 58. The
instances round to a significand of 7 or 8 bits (`MCRound`), on which a few sizes are enough to see
what 53 bits show for larger ones.
`sample` and `fresh` are history variables: what each GPU reported when it was last read.

### Tokenizer and Bpe

`Bpe` has `train` one merge at a time. A word is a sequence of letters, a token too, and the
vocabulary a function from tokens to ids, which `CharVocab` starts with the letters of the
corpus in the order of their first place. `Apply` is the pass of `apply_merge` over a word, one
token at a time (`Extend`). `MostFrequent` is the set of pairs that `max_by_key`
over a hash map may return. The rule that a pair merges to its concatenation makes the map of
merges redundant. `Tokenizer` is `Init` in Go with `bpe_train` behind it: a blank corpus is
refused, each turn of the loop is `TrainMerge`, `Publish` is `TOKENIZER.set`, where the first
wins, and `Probe` is the self-check, which may see a tokenizer that another `Init` has published.
`Validate` is `Call` and `Count`, with the fallback to words as long as nothing is published. A
panic on either side of the interface is `TrainPanics` or `CountPanics`, after which nothing is
published and the count is -1. A corpus that is not UTF-8 is read as empty, as
`to_str().unwrap_or("")` does.

### Sidecar

`Sidecar` extends `Batcher` with a handler per request, the client of each call, and `main`
from the signal on. `Admit`, `RejectTooLong` and `TokenizerFails` are the three outcomes of
`tokenizer.Validate`. The select of `Infer` is `TakeResult` and `LeaveOnCtx`, either one when
both are ready. `Signal` is the moment at which `GracefulStop` closes the listener: no call
arrives afterwards. `GracefulStopReturns` waits for the handlers. Background goroutines take
steps until `main` has returned or its `Stop` has panicked (`Alive`).

### Process

`main` is a label for each statement of the function that another goroutine can tell apart, from
the configuration to the two waits at its end. `serve` and `grpcDone` follow the goroutine of
`srv.Serve` and the channel of one slot that it reports to, `updater` and `VRAMUsedMB` the gauge.
`Signal` may come at any moment after `NotifyContext`, during the start too. The batcher is only
the call of `Stop`, which returns or panics (`StopReturns`), and the tokenizer only the outcome of
`Init` (`InitReturns`), while the guard is there in full. `scrape` says whether a connection of the
metrics server is in a request: `StopMetrics` waits for it, or for the deadline of `shutdownCtx`.
`Expire` and `GaugeTimeout` are the two timers of the shutdown. `Arrive` and `Handle` are `HealthCheck` calls as far as the listener matters.

## The runs

Deadlock is checked in every run but `sidecar` and `process`, where the process really stops:
after the exit nothing is left to do. In the others the environment never rests, and a batcher
that has panicked stays so.

| Run | Instance | Shows |
|---|---|---|
| `batcher_python` | 3 requests, two of one id and interchangeable, the third cancellable, queue 1, batch 2, one Stop, Python backend | nobody is stranded (`NoRequestStranded`) or answered twice (`AtMostOneResult`), each gets its own output (`OwnAnswer`), counters agree with outcomes (`OutcomesCounted`), `KeepsLedger` |
| `batcher_foreign` | 3 requests, a backend with up to 2 arbitrary items, no Stop | `CorrelatedAnswer`, and the inductive invariant `IndInv`, which contains the safety of the run above |
| `batcher_live` | 2 requests of one id, two concurrent Stops, a foreign backend, fairness | each accepted request is answered (`AnswersLedger`) and both Stops return (`StopReturns`) unless the WaitGroup panics, `WaitGroupCounts`, `NoEnqueueAfterStop` |
| `backend` | 2 batches of 2 prompts, 2 permits, an Ollama timeout of 1 and a batch timeout of 2, fairness | no permit is lost (`PermitsAccounted`), each prompt is in one place (`TasksAccounted`), nobody waits for those behind (`BoundedService`), a batch that fits the timeout is answered (`FitsIsAnswered`), `ImplementsService`, `HandlersReturn` |
| `tokenizer` | 2 calls of `Init` with corpora that tie, are not UTF-8 or blank, one caller, two prompts, 5 tokens | counts do not move (`CountsAgree`), each merge makes a new token (`TokensDistinct`), encoding replays the training (`ReplaysTraining`), `InitReturns` |
| `sidecar` | 2 calls of one id, both may leave, a signal at any time, fairness | `OnlyBackendErrorsInBody`, `LostOnlyCancelled`, `CallsCounted`, every call returns and a signal ends the process (`CallsAndShutdownEnd`) |
| `process` | one GPU, one RPC, a port that may be taken, scrapes, a signal at any time, the default thresholds 90 and 85, fairness | no RPC reads a stopped guard (`CallsSeeLiveGuard`), a signal ends the process and only a scrape can make it wait for the deadline (`ShutdownEnds`), the gauge catches up (`GaugeFollows`) |
| `guard` | 3 GPUs of 4, 20 and no units, a significand of 7 bits, an open line of 55 and the default close line of 50, both readers, fairness | `BreakerAgrees`, `WorstGpuPublished`, `NoBlindCloseSmi`, the inductive invariant `GuardInv`, `PressureOpens`, `ReliefCloses`, `StopEndsPolling` |
| `batcher_stop_early`, `batcher_stop_panics`, `dashboard_total`, `guard_partial` | as above; 8 bits, lines of 75 and 60 in `guard_partial` | four statements of the repository that the code does not keep |

Bounds and why they are enough. Two requests are the smallest batch and the smallest duplicate
id; a third puts one request in the queue, or in a second flush, while the first batch is in
flight. A queue of one makes "full" happen. A batch of two exercises both ways a window closes.
Two items of a foreign response can be a duplicate, an omission or an unknown id together with
a match. Two Stops are enough for `stopOnce`. In `batcher_live` no context ends, which keeps two
Stops within reach; liveness with contexts that end, and with one Stop, is in `sidecar`. In `guard`
one GPU can be above the open line and the other exactly at the close line (10/20) or at the open
line (11/20), where it is rounded below; `Point` is finer than every rounding that occurs. In
`process` the two readings need no rounding. In `backend` a batch takes both permits, so a second one waits for all of it; with a
batch timeout of two rounds, a batch behind one other just reaches it, and one behind a batch that
was given up, posted again or not, does too. `Horizon`, the age at which counting ends, is never
reached by a batch within its due time. In `tokenizer` the corpora tie in their first merges, one
of them has overlapping places of one pair, and a vocabulary of 5 ends one training by its size
while another runs out of pairs. The theorems below remove these bounds for all the safety
invariants and step properties of the runs that pass.

### Disagreements with the documentation

- `StopWaitsForFlushes`: `Stop` promises to wait for in-flight flushes and for a batch already
  collected, but the loop calls `wg.Add` for it after `Wait` may have returned
  (`batcher.go:210`, `234`). In the process this takes nothing from a client that is still
  there, because the handlers have returned by then: that is `LostOnlyCancelled`.
- `CollectedAreFlushed`: the same Add can come while the Wait is being released, because the
  tracker or the last flush has brought the counter to zero. `sync.WaitGroup` then panics, and the
  batch that `batcher.go:219-222` says is flushed is not, nor does the rest of the shutdown run.
  In the process too only clients that have left are concerned (`LostOnlyCancelled`), but a
  shutdown with an abandoned batch may end in a panic instead of an exit.
- `DashboardTotal`: a request cancelled before the POST is in none of the counters whose sum
  `docs/configuration.md:61-63` calls the input total.
- `NoBlindClose`: with NVML, the breaker can close because the GPU under pressure can no longer
  be read. With `nvidia-smi` it cannot (`NoBlindCloseSmi`).

## Fairness

- The Go scheduler runs every goroutine that can run: weak fairness of the loop, of each flush,
  of the tracker, of a `Submit` or `Stop` that has begun, of a handler, and of `main` once it
  has the signal. `Sidecar` asks less of the goroutines that come to an end, all but the loop:
  one of them runs as long as one can (`Finite`). Nobody is obliged to call, to cancel, to stop, or to flip the breaker.
- A flush always gets past its HTTP call, because the client has a timeout.
- Taking from a queue that stays non-empty is strongly fair, and so is a poller that has seen
  its `stopCh` closed: a select with several ready cases chooses at random.
- The ticker of the guard keeps firing, and `nvidia-smi` runs under a timeout, so a poll ends.
- In `Backend` time passes (strongly fair, since steps of the event loop suspend it), a timeout that
  is due strikes, and a handler whose tasks are done returns. That an Ollama call answers is not
  assumed.
- In `Tokenizer` a training goes on as long as it can. No panic is owed.
- In `Process` `main` and its goroutines run, and the updater's select, which has its ticker and
  the end of the context to choose from, takes each of them some time. No signal, no timer and no
  end of a scrape is owed, so `ShutdownEnds` says that a shutdown needs its deadline for nothing but
  a scrape. Once the deadline has passed a scrape holds it no longer.

## What is proved

For any set of requests, ids and callers of Stop, any capacity and batch size, any backend:

| Theorem | Statement |
|---|---|
| `Inductive`, `TypeCorrect` | `Spec => []IndInv`, `[]TypeOK` |
| `OneTerminalResult` | `Spec => []AtMostOneResult` |
| `NothingStranded` | `Spec => []NoRequestStranded` |
| `ClosedToNewRequests` | `Spec => NoEnqueueAfterStop` |
| `ImplementsLedger` | `Spec => KeepsLedger`, the safety part of the refinement |
| `WaitGroupIsExact`, `OutcomesAreCounted` | `Spec => []WaitGroupCounts`, `[]OutcomesCounted` |
| `AnswersCarryTheId`, `EveryoneItsOwnAnswer` | `Spec => []CorrelatedAnswer`, `[]OwnAnswer` |
| `SidecarInductive`, `SidecarTypeCorrect` | `SidecarSpec => []SidecarInv`, `[]SidecarTypeOK` |
| `ErrorsAreTheBackends`, `NobodyLostAtExit`, `EveryCallCounted` | `SidecarSpec => []OnlyBackendErrorsInBody`, `[]LostOnlyCancelled`, `[]CallsCounted` |
| `BackendInductive`, `BackendTypeCorrect` | `Spec => []BackendInv`, `[]TypeOK`, for any batches, sizes, concurrency and timeouts |
| `SemaphoreIsExact`, `EveryTaskAccounted` | `Spec => []PermitsAccounted`, `[]TasksAccounted` |
| `TimedInductive` | `Spec => []TimedInv`: the rounds that the tasks ahead of each batch still need |
| `ServiceIsBounded`, `FittingBatchesAreAnswered` | `Spec => []BoundedService`, `[]FitsIsAnswered`, for any load |
| `BackendServes` | `Spec => Service!Spec`, the safety part of `ImplementsService` |
| `TrustHolds`, `LimitsDoNotMove`, `WriteOnce` | `Spec => []Trust`, `[]CountsAgree`, and that a published tokenizer is never replaced, for any texts and any trainings |
| `TrainingInductive` | `Spec => []LearningInv`: what every step of a training keeps of its words, vocabulary and merges |
| `TokensAreDistinct`, `TrainingIsReplayed` | `Spec => []TokensDistinct`, `[]ReplaysTraining`, for any corpora, any vocabulary size and any choice among tied pairs |
| `GuardOutlivesItsReaders` | `ProcessSpec => []CallsSeeLiveGuard` |
| `GuardInductive`, `GuardTypeCorrect`, `BreakerFollowsReading`, `WorstIsPublished`, `SmiClosesInSight` | the guard, for any GPUs, levels and thresholds and any monotone rounding |

`AtMostOneResult` and `NoRequestStranded` are not inductive. A flush may send because it holds a
request, so the invariant must say who holds what. `IndInv` adds that the queue, the batch and
the flushes hold disjoint sets, each request once (`HeldOnce`); that whatever is held has been
accepted and not answered (`HeldIsPending`); that a flush holds something only while it runs and
is named by a request it holds or has answered, so that no two flushes share a name
(`FlushShape`); that only a collecting loop holds a batch and only a stopped one drains
(`LoopShape`); and that no `Submit` is between check and send once `stopped` is set
(`LockShape`). From these, a send always meets an empty `ResultCh`, which is also the step of
the refinement: `AnswerInLedger`.

`OwnAnswer` needs `InStep`: while the items of the Python backend are matched, the items left
are the requests left, so the first request of the head's id is the head. `WaitGroupCounts`
needs that a collected batch names a flush that has not run. `OnlyBackendErrorsInBody` needs the
order of the shutdown (`ShutdownShape`): the drain error exists only once Stop has marked the
batcher, and then no handler is left. `GuardInv` says what a poll knows: `best` is the worst of
the devices read so far (`ScanShape`), `nvidia-smi` leaves out only GPUs without memory
(`SampleShape`), and the atomics hold the reading that the decision is about (`StoreShape`).

`OutcomesCounted` bounds the batch sizes by the requests that wait for a backend outcome, and a
flush in `fail` may or may not have posted. `CountInv` therefore bounds the counter from both
sides, by the requests that have certainly been counted (`Certain`) and by those that may have
been (`Possible`); a POST adds the size of a batch whose requests are in neither, because they
are held and unanswered. `CallsCounted` adds the counter of prompts that were too long and the
fact that no handler meets a batcher that is stopping (`CallsInv`). The five counters then count
five disjoint sets whose union is the calls that have returned.

`BackendInv` adds to the two invariants of the semaphore that each result of a gathering handler
names one of its prompts (`ResultsShape`). Together with `TasksAccounted`, a handler whose tasks
are done has exactly one result for every place, so `gather` finds what it puts there. `Trust`
says that every count which could rely on an `Init` was made with the tokenizer that is
published, and `CountsAgree` follows. `ProcessInv` orders the labels of `main`: behind
`GracefulStop` no handler is left, and only behind that is the guard stopped.

`BoundedService` compares the age of a batch with the work that was ahead of it when it arrived,
which a later state no longer shows. `TimedInv` makes the comparison inductive. Of a gathering
batch it says that each of its running calls reaches the Ollama timeout within the time left until
`due`, and that this time is enough for some `q` rounds and a remainder `e` shorter than a round,
such that every place the batch holds in the queue is at most `Concurrency` times `q - 1`, plus the
running calls that must end within `e` (`Served`). The end of a call takes at most one from those
calls and moves the queue up by one. A `Tick` takes one from `e`; when `e` is used up no call is
due, all permits are held by calls that end within the next round, and one of the `q` rounds
becomes the new remainder. `LateCalls` adds that a batch which was given up was due after the
batch timeout, from which `FitsIsAnswered` follows.

`TokensDistinct` and `ReplaysTraining` rest on what a pass of `apply_merge` does to any word.
It parses the word from the left and merges wherever the pair stands (`Parse`), so the tokens
that it makes of a run depend on the tokens of that run alone, whatever stands before or behind
it (`SameParse`). Hence the words of a training keep two facts. Equal text is cut into equal
tokens wherever it stands in the corpus (`OneSpelling`); and text that is spelt like a token of
the vocabulary is that one token (`Whole`), for were it the new pair again and still in two
tokens, the pass would have merged it. A pair that stands in the words is two tokens, so its
concatenation is not in the vocabulary yet (`NewToken`): `max_by_key` never chooses a pair that
`train` has already merged in another spelling, and ids are not overwritten. That an encoder which
replays the merges gets the words of the training is `ReplayOneMore`: one more merge is one
more pass over what the earlier merges left. The recursive functions of `Bpe` are unfolded with
sets of naturals and the well-foundedness of `<` (`LeastElement`, `Induct`).

The assumptions are named where the constants are declared: finitely many requests, positive
sizes, context errors distinct from the batcher's own; for the process, every request has its
RPC's context and one `Stop` is called; for the guard, a device uses at most what it has, the
close threshold is below the open one, and the quotient and the percentage are monotone; for the
backend, finitely many batches that are not empty
and a positive concurrency, and a horizon beyond the batch timeout; for the tokenizer, that a
text is words of letters, that a blank text has none, and that the vocabulary size is a natural
number.

Checked by TLC only is everything about fairness and liveness, which is beyond the prover:
`AnswersLedger`, `StopReturns`, `CallsAndShutdownEnd`, `PressureOpens`, `ReliefCloses`, `StopEndsPolling`, the live part of `ImplementsService`, `HandlersReturn`,
`InitReturns`, `ShutdownEnds`, `GaugeFollows`. `BoundedService` is a bound in time and therefore
safety: if time passes and handlers whose tasks are done return, it gives the live property.

## Not modelled, and the plan

Next would be, in this order:

1. The adaptive window: `reqCount`, `trackQPS` and `dynamicWaitMs`, with the rounding of the wait
   and the multiplication of milliseconds into a 64-bit duration, which `batcher.go:131` does
   for the timeout as well.
2. `loadAndValidateConfig` over bounded inputs with NaN: every comparison with NaN is false, so
   the checks of the two thresholds (`main.go:236-246`) let it through, and such a breaker never
   opens. In `Process` the configuration is accepted or `main` aborts.
3. The interceptor that turns a panic of a handler into `Internal`: in `Sidecar` no handler
   panics.

Left out for good: the generated gRPC stubs and the schema, which keep no state; the Prometheus
registry and its HTTP endpoint, which are the library's I/O; `free_string` and the batch exports
of the Rust library, which keep no state and which only a benchmark calls; the `/health` probe of
the backend; dashboards, benchmarks and deployment files, apart from the accounting rule in
`dashboard_total`.

Worth knowing, though no document of the repository says otherwise:

- A corpus that is not UTF-8 trains a tokenizer with an empty vocabulary, and `Init` succeeds with
  it: every prompt then encodes letter by letter.
- `Guard.Stop` does not wait for the poller, so the process may exit before the poller has
  returned and NVML is shut down.
- `shutdownTimeout` bounds the end of the metrics server and the wait for `Serve`. `GracefulStop`
  comes before both and is not under it.
- `GetUsage` loads two atomics that a poll stores one after the other, so `HealthCheck` can pair the
  used memory of one sample with the total of another.
- A GPU exactly at a threshold can be rounded off it: 58/100 does not open the breaker at 58, and
  45056/81920 does not close it at 55.
