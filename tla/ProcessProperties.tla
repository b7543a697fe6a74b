-------------------------- MODULE ProcessProperties --------------------------
(* What the process of Process.tla must guarantee. *)
EXTENDS Process, VramGuardProperties

\* The order of the shutdown: no RPC reads a guard that has been stopped, and
\* none comes in after that (main.go:125-129).
CallsSeeLiveGuard == stopClosed => Handlers = {}

\* Shutdown of the metrics server waits for a client, and its deadline has not
\* come yet.
AwaitsScrape == main = "stopMetrics" /\ scrape = "active" /\ deadline = "running"

\* A signal is never lost and ends the process, whether it comes during the
\* start, before the server listens, after it failed to, or with RPCs in flight.
\* Without a timer only a scrape that does not end can hold it, and that no
\* longer than shutdownCtx lasts: nothing else main waits for needs one
\* (main.go:60-61, 65, 119-151).
ShutdownEnds == signalled ~> ~Alive \/ AwaitsScrape

\* The gauge, which only the updater writes, shows the reading that the guard
\* publishes once that stays the same (main.go:86-99, metrics.go:22-24).
GaugeFollows ==
    \A u \in UNION {Levels[d] : d \in Gpus} :
        <>[](UsedMB = u /\ updater = "running" /\ Alive) => <>[](VRAMUsedMB = u)
=============================================================================
