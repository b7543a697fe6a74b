------------------------------- MODULE Process -------------------------------
(***************************************************************************)
(* The life of the sidecar, main of cmd/sidecar/main.go, around the guard  *)
(* of VramGuard.tla: the start of the subsystems, a listener that may fail *)
(* to open, a signal at any moment, the shutdown in its order, the updater *)
(* of the VRAM gauge, and the RPCs that read the guard.  Of the batcher    *)
(* only the call of Stop is here, which returns or panics (Batcher.tla),   *)
(* and of the metrics server the requests that Shutdown waits for.         *)
(***************************************************************************)
EXTENDS VramGuard

VARIABLES
    main,        \* where main is
    signalled,   \* is ctx done?
    deadline,    \* shutdownCtx: "none", "running" or "expired"
    serve,       \* the goroutine that calls srv.Serve
    grpcDone,    \* has it sent its result to the channel?
    rpc,         \* the HealthCheck RPCs as the server sees them
    updater,     \* the goroutine of the gauge
    VRAMUsedMB,  \* the gauge
    scrape       \* the connections of the metrics server: is any in a request?

procVars == <<main, signalled, deadline, serve, grpcDone, rpc, updater, VRAMUsedMB, scrape>>
allVars  == <<vars, procVars>>

\* main, in its order.
Startup  == {"config", "tokenizer", "guard", "gauge", "serve"}
Shutdown == {"gracefulStop", "stopBatcher", "stopGuard", "stopMetrics",
             "awaitServe", "awaitGauge"}
Ended    == {"aborted", "exited", "panicked"}

Handlers == {c \in Checkers : rpc[c] = "open"}

ProcessInit ==
    /\ Init
    /\ main = "config" /\ signalled = FALSE /\ deadline = "none"
    /\ serve = "none" /\ grpcDone = FALSE
    /\ rpc = [c \in Checkers |-> "none"]
    /\ updater = "none" /\ VRAMUsedMB = 0
    /\ scrape = "none"

Goto(l) == main' = l

----------------------------------------------------------------------------
(* main *)

\* loadAndValidateConfig; from here on a signal is caught.
LoadConfig ==
    /\ main = "config"
    /\ Goto("tokenizer") \/ Goto("aborted")
    /\ UNCHANGED <<vars, signalled, deadline, serve, grpcDone, rpc, updater, VRAMUsedMB, scrape>>

\* loadTokenizerCorpus and tokenizer.Init, see Tokenizer.tla; then the metrics
\* server starts, or finds its port taken and nobody scrapes it.
InitTokenizer ==
    /\ main = "tokenizer"
    /\ Goto("guard") \/ Goto("aborted")
    /\ UNCHANGED <<vars, signalled, deadline, serve, grpcDone, rpc, updater, VRAMUsedMB, scrape>>

\* go vg.Start()
GuardStarted == main \notin {"config", "tokenizer", "guard", "aborted"}
GoGuard ==
    /\ main = "guard" /\ Goto("gauge")
    /\ UNCHANGED <<vars, signalled, deadline, serve, grpcDone, rpc, updater, VRAMUsedMB, scrape>>

GoGauge ==
    /\ main = "gauge" /\ Goto("serve")
    /\ updater' = "running"
    /\ UNCHANGED <<vars, signalled, deadline, serve, grpcDone, rpc, VRAMUsedMB, scrape>>

GoServe ==
    /\ main = "serve" /\ Goto("ready")
    /\ serve' = "starting"
    /\ UNCHANGED <<vars, signalled, deadline, grpcDone, rpc, updater, VRAMUsedMB, scrape>>

\* <-ctx.Done(): nothing else wakes main, a Serve that failed neither.
BeginShutdown ==
    /\ main = "ready" /\ signalled /\ Goto("gracefulStop")
    /\ deadline' = "running"
    /\ UNCHANGED <<vars, signalled, serve, grpcDone, rpc, updater, VRAMUsedMB, scrape>>

\* Mutant of GracefulStopReturns: Stop instead of GracefulStop.
GracefulStopReturnsEarly ==
    /\ main = "gracefulStop" /\ Goto("stopBatcher")
    /\ UNCHANGED <<vars, signalled, deadline, serve, grpcDone, rpc, updater, VRAMUsedMB, scrape>>

GracefulStopReturns ==
    /\ main = "gracefulStop" /\ Handlers = {} /\ Goto("stopBatcher")
    /\ UNCHANGED <<vars, signalled, deadline, serve, grpcDone, rpc, updater, VRAMUsedMB, scrape>>

StopBatcher ==
    /\ main = "stopBatcher" /\ Goto("stopGuard")
    /\ UNCHANGED <<vars, signalled, deadline, serve, grpcDone, rpc, updater, VRAMUsedMB, scrape>>

\* The Wait of b.Stop finds its WaitGroup in use again: see StopPanics of
\* Batcher.tla, and Sidecar.tla, where it happens.
StopBatcherPanics ==
    /\ main = "stopBatcher" /\ Goto("panicked")
    /\ UNCHANGED <<vars, signalled, deadline, serve, grpcDone, rpc, updater, VRAMUsedMB, scrape>>

\* vg.Stop does not wait for the poller.
StopGuard ==
    /\ main = "stopGuard" /\ Goto("stopMetrics")
    /\ Stop
    /\ UNCHANGED <<signalled, deadline, serve, grpcDone, rpc, updater, VRAMUsedMB, scrape>>

\* Mutant of StopMetrics: Shutdown has no deadline.
StopMetricsForever ==
    /\ main = "stopMetrics" /\ Goto("awaitServe")
    /\ scrape = "none"
    /\ UNCHANGED <<vars, signalled, deadline, serve, grpcDone, rpc, updater, VRAMUsedMB, scrape>>

\* http.Server.Shutdown closes the listener and the idle connections, and waits
\* for the others until shutdownCtx is done; the server has no timeouts.
StopMetrics ==
    /\ main = "stopMetrics" /\ Goto("awaitServe")
    /\ scrape = "none" \/ deadline = "expired"
    /\ UNCHANGED <<vars, signalled, deadline, serve, grpcDone, rpc, updater, VRAMUsedMB, scrape>>

\* With both ready the select takes either.
AwaitServe ==
    /\ main = "awaitServe" /\ Goto("awaitGauge")
    /\ \/ grpcDone /\ grpcDone' = FALSE
       \/ deadline = "expired" /\ UNCHANGED grpcDone
    /\ UNCHANGED <<vars, signalled, deadline, serve, rpc, updater, VRAMUsedMB, scrape>>

AwaitGauge ==
    /\ main = "awaitGauge" /\ updater = "done" /\ Goto("exited")
    /\ UNCHANGED <<vars, signalled, deadline, serve, grpcDone, rpc, updater, VRAMUsedMB, scrape>>

Main == \/ LoadConfig \/ InitTokenizer \/ GoGuard \/ GoGauge \/ GoServe
        \/ BeginShutdown \/ GracefulStopReturns
        \/ StopBatcher \/ StopBatcherPanics \/ StopGuard \/ StopMetrics \/ AwaitServe \/ AwaitGauge

\* SIGINT or SIGTERM, once NotifyContext has been called.
Signal ==
    /\ main \notin Ended \cup {"config"} /\ ~signalled
    /\ signalled' = TRUE
    /\ UNCHANGED <<vars, main, deadline, serve, grpcDone, rpc, updater, VRAMUsedMB, scrape>>

\* The two timers of the shutdown: shutdownCtx, and the last time.After.
Expire ==
    /\ deadline = "running" /\ main \notin Ended
    /\ deadline' = "expired"
    /\ UNCHANGED <<vars, main, signalled, serve, grpcDone, rpc, updater, VRAMUsedMB, scrape>>

GaugeTimeout ==
    /\ main = "awaitGauge" /\ Goto("exited")
    /\ UNCHANGED <<vars, signalled, deadline, serve, grpcDone, rpc, updater, VRAMUsedMB, scrape>>

----------------------------------------------------------------------------
(* The goroutines *)

Alive == main \notin Ended

\* Has GracefulStop been called?
Quitting == main \in Shutdown

\* Mutant of ListenFails: the goroutine returns without a result.
ListenFailsSilently ==
    /\ Alive /\ serve = "starting"
    /\ serve' = "returned"
    /\ UNCHANGED <<vars, main, signalled, deadline, grpcDone, rpc, updater, VRAMUsedMB, scrape>>

\* net.Listen fails: the error waits in the buffered channel.
ListenFails ==
    /\ Alive /\ serve = "starting"
    /\ serve' = "returned" /\ grpcDone' = TRUE
    /\ UNCHANGED <<vars, main, signalled, deadline, rpc, updater, VRAMUsedMB, scrape>>

Listen ==
    /\ Alive /\ serve = "starting" /\ ~Quitting
    /\ serve' = "serving"
    /\ UNCHANGED <<vars, main, signalled, deadline, grpcDone, rpc, updater, VRAMUsedMB, scrape>>

\* grpc.Server.Serve returns once it is stopped, also when that was before it
\* was called, and does so after GracefulStop.
ServeReturns ==
    /\ Alive /\ Quitting /\ Handlers = {}
    /\ serve \in {"starting", "serving"}
    /\ serve' = "returned" /\ grpcDone' = TRUE
    /\ UNCHANGED <<vars, main, signalled, deadline, rpc, updater, VRAMUsedMB, scrape>>

\* Mutant of GaugeTick: the other result of GetUsage is taken.
GaugeTickTotal ==
    /\ Alive /\ updater = "running"
    /\ VRAMUsedMB' = TotalMB
    /\ UNCHANGED <<vars, main, signalled, deadline, serve, grpcDone, rpc, updater, scrape>>

\* The select of the updater takes the ticker also when ctx is done.
GaugeTick ==
    /\ Alive /\ updater = "running"
    /\ VRAMUsedMB' = UsedMB
    /\ UNCHANGED <<vars, main, signalled, deadline, serve, grpcDone, rpc, updater, scrape>>

GaugeDone ==
    /\ Alive /\ updater = "running" /\ signalled
    /\ updater' = "done"
    /\ UNCHANGED <<vars, main, signalled, deadline, serve, grpcDone, rpc, VRAMUsedMB, scrape>>

----------------------------------------------------------------------------
(* Scrapes of the metrics server *)

MetricsStarted == main \notin {"config", "tokenizer", "aborted"}
MetricsStopped == main \in {"stopMetrics", "awaitServe", "awaitGauge"}

ScrapeBegins ==
    /\ Alive /\ MetricsStarted /\ ~MetricsStopped /\ scrape = "none"
    /\ scrape' = "active"
    /\ UNCHANGED <<vars, main, signalled, deadline, serve, grpcDone, rpc, updater, VRAMUsedMB>>

\* The client has sent its request and read the answer, or hung up.
ScrapeEnds ==
    /\ Alive /\ scrape = "active"
    /\ scrape' = "none"
    /\ UNCHANGED <<vars, main, signalled, deadline, serve, grpcDone, rpc, updater, VRAMUsedMB>>

----------------------------------------------------------------------------
(* HealthCheck RPCs *)

Arrive(c) ==
    /\ Alive /\ serve = "serving" /\ ~Quitting /\ rpc[c] = "none"
    /\ rpc' = [rpc EXCEPT ![c] = "open"]
    /\ UNCHANGED <<vars, main, signalled, deadline, serve, grpcDone, updater, VRAMUsedMB, scrape>>

Handle(c) ==
    /\ Alive /\ rpc[c] = "open"
    /\ HealthCheck(c)
    /\ rpc' = [rpc EXCEPT ![c] = IF check'[c] = "replied" THEN "done" ELSE @]
    /\ UNCHANGED <<main, signalled, deadline, serve, grpcDone, updater, VRAMUsedMB, scrape>>

----------------------------------------------------------------------------

Guard(A) == Alive /\ GuardStarted /\ A /\ UNCHANGED procVars

ProcessNext ==
    \/ Main
    \/ Signal \/ Expire \/ GaugeTimeout
    \/ ListenFails \/ Listen \/ ServeReturns
    \/ GaugeTick \/ GaugeDone
    \/ ScrapeBegins \/ ScrapeEnds
    \/ \E c \in Checkers : Arrive(c) \/ Handle(c)
    \/ Guard(PollStep)
    \/ \E d \in Gpus : (GpuUse(d) \/ GpuFault(d)) /\ Alive /\ UNCHANGED procVars

ProcessSpec == ProcessInit /\ [][ProcessNext]_allVars

\* Every goroutine runs.  A signal, a timer and the end of a scrape, which takes
\* as long as its client likes, are not owed here: the properties that need a
\* timer say so.  The select of the updater chooses at random, hence the strong
\* fairness.
ProcessFairness ==
    /\ WF_allVars(Main)
    /\ WF_allVars(ListenFails \/ Listen \/ ServeReturns)
    /\ SF_allVars(GaugeTick) /\ SF_allVars(GaugeDone)
    /\ \A c \in Checkers : WF_allVars(Handle(c))
    /\ WF_allVars(Guard(PollStep))

FairProcessSpec == ProcessSpec /\ ProcessFairness
=============================================================================
