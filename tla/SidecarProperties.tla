-------------------------- MODULE SidecarProperties --------------------------
(* What the sidecar of Sidecar.tla must guarantee as a whole. *)
EXTENDS Sidecar, BatcherProperties

SidecarTypeOK ==
    /\ TypeOK
    /\ rpc \in [Requests -> {"none", "admit", "submit", "done"}]
    /\ reply \in [Requests -> Codes \cup {"none", "output", "error"}]
    /\ rejected \in Nat
    /\ main \in {"ready", "graceful", "stopBatcher", "exited"}

\* InferResponse.error carries backend execution errors only, although the error
\* of a drained queue is opaque to statusFromResultErr: main stops the batcher
\* after the last handler has returned (docs/configuration.md:43, main.go:125-128,
\* server.go:168-185).
OnlyBackendErrorsInBody ==
    \A r \in Requests : reply[r] = "error" =>
        Head(results[r]).kind \in {"itemError", "missing"}

\* Stop may return, or find its WaitGroup reused and panic, while a collected batch
\* waits for its flush, yet the process takes nobody's request with it: whatever
\* is unanswered when it ends either way belongs to a client that had left
\* (main.go:125-128, batcher.go:210, 234).
LostOnlyCancelled ==
    main = "exited" \/ Panicked =>
        \A r \in Requests : Pending(r) => ctx[r] # "live"

\* Once every call has returned and every accepted request has its Result, each
\* call is in exactly one of the counters, unless the tokenizer failed: nobody is
\* turned away uncounted by a batcher that is stopping (metrics.go:20-39).
CallsCounted ==
    LET Arrived == {r \in Requests : rpc[r] # "none"}
        Faulty  == {r \in Requests : submit[r] = "new" /\ reply[r] = "Internal"}
    IN  (\A r \in Arrived : rpc[r] = "done" /\ ~Pending(r)) =>
            Cardinality(Arrived \ Faulty)
              = rejected + metrics["circuitBreakerTrips"] + metrics["queueRejects"]
                  + metrics["inferSuccess"] + metrics["inferErrors"]

----------------------------------------------------------------------------
(* The inductive invariant *)

\* A handler and its call of Submit move together, and only a caller whose
\* context has ended leaves a request behind.
HandlerShape ==
    \A r \in Requests :
        /\ rpc[r] \in {"none", "admit"} => submit[r] = "new"
        /\ rpc[r] = "done" /\ Pending(r) => ctx[r] # "live"

\* The batcher is stopped after the last handler, and only drained then.
ShutdownShape ==
    /\ main \in {"stopBatcher", "exited"} => Handlers = {}
    /\ stopped => main \in {"stopBatcher", "exited"}
    /\ \A r \in Requests :
          results[r] # <<>> /\ Head(results[r]).kind = "stopped" => stopped

\* What a response reports as an error has been received.
ErrorsReceived ==
    \A r \in Requests : reply[r] = "error" => results[r] # <<>>

SidecarInv == /\ SidecarTypeOK /\ HandlerShape /\ ShutdownShape
              /\ OnlyBackendErrorsInBody /\ ErrorsReceived

----------------------------------------------------------------------------
(* Liveness *)

\* Every call returns, and a signal ends the process, if only the backend timeout
\* ends every flush: the last handler returns (server.go:89-93), which lets main into
\* its Stop, and main gets past that or it panics over a batch whose clients have all
\* left, and the guard, the metrics server and the rest are never stopped
\* (main.go:119-150, batcher.go:210, 234).
Busy  == Handlers # {} \/ main # "ready"
Quiet == (Handlers = {} /\ main \in {"ready", "exited"}) \/ Panicked

CallsAndShutdownEnd == Busy ~> Quiet
=============================================================================
