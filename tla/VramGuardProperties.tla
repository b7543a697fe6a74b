------------------------- MODULE VramGuardProperties -------------------------
(* What the breaker of VramGuard.tla must guarantee. *)
EXTENDS VramGuard

TypeOK ==
    /\ used \in [Gpus -> Nat] /\ \A d \in Gpus : used[d] \in Levels[d]
    /\ readable \in [Gpus -> BOOLEAN]
    /\ poller \in {"init", "idle", "scan", "storeTotal", "decide", "stopped"}
    /\ reader \in {"nvml", "nvidia-smi"} /\ devices \in SUBSET Gpus
    /\ next \in 1..(NumGpus + 1)
    /\ best \in Reading
    /\ poller \in {"storeTotal", "decide"} => best.total > 0
    /\ UsedMB \in Nat /\ TotalMB \in Nat
    /\ circuitOpen \in BOOLEAN /\ stopClosed \in BOOLEAN
    /\ check \in [Checkers -> {"new", "used", "total", "replied"}]
    /\ reply \in [Checkers -> [used : Nat, total : Nat, open : BOOLEAN]]
    /\ sample \in [Gpus -> Reading]
    /\ fresh \in SUBSET Gpus

\* Except while a poll is storing its result, the breaker and the published
\* reading agree: a reading whose percentage, as rounded, is at the open line
\* comes with an open breaker, one at the close line with a closed one, however
\* many polls failed since (vramguard.go:148-153, 173-200).
BreakerAgrees ==
    poller \in {"idle", "scan", "stopped"} /\ TotalMB > 0 =>
        /\ High(UsedMB, TotalMB) => circuitOpen
        /\ Low(UsedMB, TotalMB) => ~circuitOpen

\* The reading that a poll publishes is of the most utilised of the devices it
\* could read, as far as the rounded quotients tell (vramguard.go:274-275, 290,
\* 345-347, 362).
BestOf(D) == /\ \E d \in D : best = sample[d]
             /\ \A d \in D : ~MoreUtilised(sample[d], best)

WorstGpuPublished == poller \in {"storeTotal", "decide"} => BestOf(fresh)

NoneHigh == \A d \in Gpus : ~(sample[d].total > 0
                              /\ High(sample[d].used, sample[d].total))

\* With nvidia-smi the breaker closes only when no GPU was at the open line when
\* it was last read: a read that fails is never taken for relief, since one bad
\* line fails the whole sample (vramguard.go:148-153, 355-358).
NoBlindCloseSmi ==
    [][reader = "nvidia-smi" /\ circuitOpen /\ ~circuitOpen' => NoneHigh]_vars

----------------------------------------------------------------------------
(* The inductive invariant: what a poll knows at each of its steps *)

Polling == poller \in {"scan", "storeTotal", "decide"}

\* best is the worst of the devices read so far, and of none after a failure.
ScanShape ==
    /\ Polling => /\ fresh \subseteq 1..(next - 1)
                  /\ \A d \in fresh : sample[d].total > 0
                  /\ IF fresh = {} THEN best = NoReading
                                   ELSE best.total > 0 /\ BestOf(fresh)
    /\ poller \in {"storeTotal", "decide"} => next = NumGpus + 1

\* nvidia-smi leaves out none but the GPUs without VRAM.
SampleShape ==
    /\ \A d \in Gpus : sample[d].total > 0 => Total[d] > 0
    /\ reader = "nvidia-smi" =>
        /\ devices = Gpus
        /\ Polling => \A d \in 1..(next - 1) : d \in fresh \/ Total[d] = 0

\* The two atomics hold the reading that the decision is about.
StoreShape ==
    /\ poller \in {"storeTotal", "decide"} => UsedMB = best.used
    /\ poller = "decide" => TotalMB = best.total
    /\ poller = "init" => TotalMB = 0

GuardInv == TypeOK /\ BreakerAgrees /\ ScanShape /\ SampleShape /\ StoreShape

----------------------------------------------------------------------------
(* Liveness *)

Readable(d) == IF reader = "nvml" THEN d \in devices /\ readable[d]
                                  ELSE \A e \in Gpus : readable[e]
Hot(d)  == Total[d] > 0 /\ High(used[d], Total[d]) /\ Readable(d) /\ ~stopClosed
AllCool == /\ \A d \in devices : (Total[d] > 0 => Low(used[d], Total[d])) /\ Readable(d)
           /\ ~stopClosed

\* Pressure that stays opens the breaker for good: one GPU that stays at the open
\* line, as rounded, and can be read is enough, unless the guard is stopped
\* (vramguard.go:3-6).
PressureOpens == \A d \in Gpus : <>[]Hot(d) => <>[]circuitOpen

\* Relief that stays, on every GPU the reader knows, closes it for good.
ReliefCloses == <>[]AllCool => <>[]~circuitOpen

\* Stop ends a poller that has started, which closes its reader
\* (vramguard.go:118, 141-146).
StopEndsPolling == stopClosed /\ poller # "init" ~> poller = "stopped"

----------------------------------------------------------------------------
(* Statements of the repository that the code does not keep *)

\* vramguard.go:6-7: "The circuit closes only after utilisation drops to or below
\* CloseThresholdPct", and 148-152: a failed sample leaves the state unchanged.
\* With either reader, so also when NVML cannot read the GPU under pressure.
NoBlindClose == [][circuitOpen /\ ~circuitOpen' => NoneHigh]_vars
=============================================================================
