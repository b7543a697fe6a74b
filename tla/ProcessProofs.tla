---------------------------- MODULE ProcessProofs ----------------------------
(***************************************************************************)
(* Proofs about Process.tla for any number of GPUs and of RPCs: the order  *)
(* of the start and of the shutdown, and that main and the handlers use    *)
(* the guard as VramGuard.tla has it.                                      *)
(***************************************************************************)
EXTENDS ProcessProperties, TLAPS

\* Where main may be.
Places == Startup \cup Shutdown \cup Ended \cup {"ready"}

\* Where main is once GracefulStop has returned.
Drained == {"stopBatcher", "stopGuard", "stopMetrics", "awaitServe",
            "awaitGauge", "exited", "panicked"}

\* The guard is stopped after the last RPC has been answered, and no RPC is let
\* in behind GracefulStop.
ProcessInv ==
    /\ main \in Places
    /\ rpc \in [Checkers -> {"none", "open", "done"}]
    /\ stopClosed \in BOOLEAN
    /\ main \in Drained => Handlers = {}
    /\ stopClosed => main \in Drained \ {"stopBatcher", "stopGuard"}

LEMMA InitProcessInv == ProcessInit => ProcessInv
  BY DEF ProcessInit, Init, ProcessInv, Places, Startup, Drained, Handlers

\* Only vg.Stop closes stopCh.
LEMMA PollsAndLoads ==
    /\ PollStep => UNCHANGED stopClosed
    /\ \A d \in Gpus : GpuUse(d) \/ GpuFault(d) => UNCHANGED stopClosed
    /\ \A c \in Checkers : HealthCheck(c) => UNCHANGED stopClosed
  <1>1. PollStep => UNCHANGED stopClosed
    BY DEF PollStep, Start, PollBegin, ScanTake, ScanSkip, ScanError, StoreUsed,
       StoreTotal, Decide, PollStop, PollOnly
  <1>2. \A d \in Gpus : GpuUse(d) \/ GpuFault(d) => UNCHANGED stopClosed
    BY DEF GpuUse, GpuFault
  <1>3. \A c \in Checkers : HealthCheck(c) => UNCHANGED stopClosed
    BY DEF HealthCheck, LoadUsed, LoadTotal, LoadOpen, CheckOnly
  <1>4. QED BY <1>1, <1>2, <1>3

\* A step of main goes one step on; those behind GracefulStop need all handlers
\* gone, and only StopGuard touches the guard.
LEMMA MainKeepsInv == ASSUME ProcessInv, Main PROVE ProcessInv'
  <1> USE DEF ProcessInv, Places, Startup, Shutdown, Ended, Drained, Goto, Handlers
  <1>1. CASE LoadConfig \/ InitTokenizer \/ GoGuard \/ GoGauge \/ GoServe \/ BeginShutdown
    <2>1. UNCHANGED <<rpc, stopClosed>>
      BY <1>1 DEF LoadConfig, InitTokenizer, GoGuard, GoGauge, GoServe, BeginShutdown, vars
    <2>2. /\ main \notin Drained
          /\ main' \in {"tokenizer", "guard", "gauge", "serve", "ready",
                        "gracefulStop", "aborted"}
      BY <1>1 DEF LoadConfig, InitTokenizer, GoGuard, GoGauge, GoServe, BeginShutdown
    <2>3. QED BY <2>1, <2>2
  <1>2. CASE GracefulStopReturns
    BY <1>2 DEF GracefulStopReturns, vars
  <1>3. CASE StopBatcher \/ StopBatcherPanics \/ StopMetrics \/ AwaitServe \/ AwaitGauge
    <2>1. UNCHANGED <<rpc, stopClosed>>
      BY <1>3 DEF StopBatcher, StopBatcherPanics, StopMetrics, AwaitServe, AwaitGauge, vars
    <2>2. QED BY <1>3, <2>1 DEF StopBatcher, StopBatcherPanics, StopMetrics, AwaitServe,
                                AwaitGauge
  <1>4. CASE StopGuard
    BY <1>4 DEF StopGuard, Stop
  <1>5. QED BY <1>1, <1>2, <1>3, <1>4 DEF Main

LEMMA ProcessStepKeepsInv == ProcessInv /\ [ProcessNext]_allVars => ProcessInv'
  <1> SUFFICES ASSUME ProcessInv, [ProcessNext]_allVars PROVE ProcessInv'
    OBVIOUS
  <1>1. CASE Main
    BY <1>1, MainKeepsInv
  <1>2. CASE GaugeTimeout
    BY <1>2 DEF GaugeTimeout, Goto, ProcessInv, Places, Ended, Drained, Handlers, vars
  <1>3. ASSUME UNCHANGED <<main, rpc, stopClosed>> PROVE ProcessInv'
    BY <1>3 DEF ProcessInv, Handlers
  <1>4. CASE \/ Signal \/ Expire \/ ListenFails \/ Listen \/ ServeReturns
             \/ GaugeTick \/ GaugeDone \/ ScrapeBegins \/ ScrapeEnds
    BY <1>3, <1>4 DEF Signal, Expire, ListenFails, Listen, ServeReturns, GaugeTick,
       GaugeDone, ScrapeBegins, ScrapeEnds, vars
  <1>5. ASSUME NEW c \in Checkers, Arrive(c) PROVE ProcessInv'
    <2>1. /\ main \notin Drained
          /\ rpc' = [rpc EXCEPT ![c] = "open"]
          /\ UNCHANGED <<main, stopClosed>>
      BY <1>5 DEF Arrive, Alive, Quitting, Shutdown, Ended, Drained, vars
    <2>2. QED BY <2>1 DEF ProcessInv
  <1>6. ASSUME NEW c \in Checkers, Handle(c) PROVE ProcessInv'
    <2>1. /\ UNCHANGED <<main, stopClosed>>
          /\ rpc' = rpc \/ rpc' = [rpc EXCEPT ![c] = "done"]
          /\ rpc \in [Checkers -> {"none", "open", "done"}]
      BY <1>6, PollsAndLoads DEF Handle, ProcessInv
    <2>2. Handlers' \subseteq Handlers /\ rpc' \in [Checkers -> {"none", "open", "done"}]
      BY <2>1 DEF Handlers
    <2>3. QED BY <2>1, <2>2 DEF ProcessInv
  <1>7. CASE Guard(PollStep)
    BY <1>3, <1>7, PollsAndLoads DEF Guard, procVars
  <1>8. ASSUME NEW d \in Gpus, GpuUse(d) \/ GpuFault(d), UNCHANGED procVars
        PROVE  ProcessInv'
    BY <1>3, <1>8, PollsAndLoads DEF procVars
  <1>9. CASE UNCHANGED allVars
    BY <1>3, <1>9 DEF allVars, procVars, vars
  <1>10. QED BY <1>1, <1>2, <1>4, <1>5, <1>6, <1>7, <1>8, <1>9 DEF ProcessNext

\* The shutdown stops the guard when nobody reads it any more (main.go:125-129),
\* for any number of RPCs in flight at the signal.
THEOREM GuardOutlivesItsReaders == ProcessSpec => []CallsSeeLiveGuard
  <1>1. ProcessInv => CallsSeeLiveGuard
    BY DEF ProcessInv, CallsSeeLiveGuard
  <1>2. QED BY <1>1, InitProcessInv, ProcessStepKeepsInv, PTL DEF ProcessSpec

\* main calls vg.Stop once and lets the poller and the handlers do the rest
\* (main.go:80, 129): the theorems of VramGuardProofs hold in the process.
LEMMA ProcessUsesGuard == ProcessSpec => Spec
  <1>1. ProcessInit => Init
    BY DEF ProcessInit
  <1>2. ProcessInv /\ [ProcessNext]_allVars => [Next]_vars
    <2> SUFFICES ASSUME ProcessInv, [ProcessNext]_allVars PROVE [Next]_vars
      OBVIOUS
    <2>1. CASE Main
      <3>1. CASE StopGuard
        BY <3>1 DEF StopGuard, Next
      <3>2. CASE ~StopGuard
        BY <2>1, <3>2 DEF Main, LoadConfig, InitTokenizer, GoGuard, GoGauge, GoServe,
           BeginShutdown, GracefulStopReturns, StopBatcher, StopBatcherPanics,
           StopMetrics, AwaitServe, AwaitGauge
      <3>3. QED BY <3>1, <3>2
    <2>2. CASE Signal \/ Expire \/ GaugeTimeout \/ ListenFails \/ Listen \/ ServeReturns
                 \/ GaugeDone \/ ScrapeBegins \/ ScrapeEnds
      BY <2>2 DEF Signal, Expire, GaugeTimeout, ListenFails, Listen, ServeReturns, GaugeDone,
         ScrapeBegins, ScrapeEnds
    <2>3. CASE GaugeTick
      BY <2>3 DEF GaugeTick
    <2>4. ASSUME NEW c \in Checkers, Arrive(c) PROVE UNCHANGED vars
      BY <2>4 DEF Arrive
    <2>5. ASSUME NEW c \in Checkers, Handle(c) PROVE Next
      BY <2>5 DEF Handle, Next
    <2>6. CASE Guard(PollStep)
      BY <2>6 DEF Guard, Next
    <2>7. ASSUME NEW d \in Gpus, GpuUse(d) \/ GpuFault(d) PROVE Next
      BY <2>7 DEF Next
    <2>8. CASE UNCHANGED allVars
      BY <2>8 DEF allVars
    <2>9. QED BY <2>1, <2>2, <2>3, <2>4, <2>5, <2>6, <2>7, <2>8 DEF ProcessNext
  <1>3. QED BY <1>1, <1>2, InitProcessInv, ProcessStepKeepsInv, PTL
        DEF ProcessSpec, Spec
=============================================================================
