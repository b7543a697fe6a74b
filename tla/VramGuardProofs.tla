--------------------------- MODULE VramGuardProofs ---------------------------
(***************************************************************************)
(* Proofs about VramGuard.tla for any number of GPUs, any sizes and levels,*)
(* any thresholds with the close line below the open one, both readers,    *)
(* and any monotone rounding of the quotient and of the percentage, the    *)
(* one of float64 included.                                                *)
(***************************************************************************)
EXTENDS VramGuardProperties, TLAPS

----------------------------------------------------------------------------
(* Comparing rounded utilisations *)

\* Of three readings, if b is no less utilised than s and r is more utilised
\* than b, then r is no less utilised than s.
LEMMA WorstIsTransitive ==
    ASSUME NEW s \in Measured, NEW b \in Measured, NEW r \in Measured,
           ~MoreUtilised(s, b), MoreUtilised(r, b)
    PROVE  ~MoreUtilised(s, r)
  BY RoundingAssumption DEF MoreUtilised

\* The close line is below the open line.
LEMMA Band == CloseLine \in Int /\ CloseLine < OomPct /\ OomPct \in Int
  BY ConfigAssumption DEF CloseLine

\* A reading b at the close line rules out that a reading s that is no more
\* utilised is at the open line.
LEMMA LowIsNotHigh ==
    ASSUME NEW s \in Measured, NEW b \in Measured,
           ~MoreUtilised(s, b), Low(b.used, b.total)
    PROVE  ~High(s.used, s.total)
  <1>1. /\ Pct(s.used, s.total) \in Int /\ Pct(b.used, b.total) \in Int
        /\ Pct(s.used, s.total) <= Pct(b.used, b.total)
    BY RoundingAssumption
  <1>2. Pct(b.used, b.total) <= CloseLine
    BY DEF Low
  <1>3. ~(Pct(s.used, s.total) >= OomPct)
    BY <1>1, <1>2, Band
  <1>4. QED BY <1>3 DEF High

\* In particular no reading is at both lines.
LEMMA LowOrHigh ==
    ASSUME NEW b \in Measured, Low(b.used, b.total)
    PROVE  ~High(b.used, b.total)
  <1>1. ~MoreUtilised(b, b)
    BY RoundingAssumption DEF MoreUtilised
  <1>2. QED BY <1>1, LowIsNotHigh

\* A device that reports VRAM is read as one of the measured readings, and a
\* reading of which the total is positive is one of those.
LEMMA DeviceIsMeasured ==
    ASSUME NEW d \in Gpus, Total[d] > 0, NEW u \in Levels[d]
    PROVE  [used |-> u, total |-> Total[d]] \in Measured
  BY DEF Measured

LEMMA ReadingParts ==
    ASSUME NEW r \in Reading
    PROVE  /\ r.used \in Nat /\ r.total \in Nat
           /\ r.total > 0 => r \in Measured
           /\ r # NoReading => r \in Measured /\ r.total > 0
  <1>1. CASE r \in Measured
    <2>1. PICK d \in Gpus : Total[d] > 0 /\ \E u \in Levels[d] :
                                 r = [used |-> u, total |-> Total[d]]
      BY <1>1 DEF Measured
    <2>2. PICK u \in Levels[d] : r = [used |-> u, total |-> Total[d]]
      BY <2>1
    <2>3. u \in Nat /\ Total[d] \in Nat
      BY <2>1, GpusAssumption
    <2>4. QED BY <1>1, <2>1, <2>2, <2>3
  <1>2. CASE r = NoReading
    BY <1>2 DEF NoReading
  <1>3. QED BY <1>1, <1>2 DEF Reading

----------------------------------------------------------------------------
(* The inductive invariant *)

USE DEF Gpus

LEMMA EmptyReading == NoReading \in Reading /\ NoReading.total = 0
  BY DEF NoReading, Reading

LEMMA FirstGpu == 1 \in 1..(NumGpus + 1)
  BY GpusAssumption

LEMMA InitGuard == Init => GuardInv
  <1> SUFFICES ASSUME Init PROVE GuardInv
    OBVIOUS
  <1> USE DEF Init
  <1>1. TypeOK
    <2>1. /\ reader \in {"nvml", "nvidia-smi"} /\ devices \in SUBSET Gpus
      BY DEF NewReader
    <2>2. \A d \in Gpus : used[d] \in Levels[d]
      BY GpusAssumption
    <2>3. QED BY <2>1, <2>2, EmptyReading, FirstGpu DEF TypeOK
  <1>2. BreakerAgrees
    BY DEF BreakerAgrees
  <1>3. ScanShape
    BY DEF ScanShape, Polling
  <1>4. SampleShape
    BY DEF SampleShape, NewReader, Polling, NoReading
  <1>5. StoreShape
    BY DEF StoreShape
  <1>6. QED BY <1>1, <1>2, <1>3, <1>4, <1>5 DEF GuardInv

\* Every action keeps the types.
LEMMA TypeKept == TypeOK /\ ScanShape /\ [Next]_vars => TypeOK'
  <1> SUFFICES ASSUME TypeOK, ScanShape, [Next]_vars PROVE TypeOK'
    OBVIOUS
  <1> USE DEF TypeOK, envVars, scanVars, checkVars, ghosts
  <1>1. ASSUME NEW d \in Gpus, GpuUse(d) PROVE TypeOK'
    BY <1>1, GpusAssumption DEF GpuUse
  <1>2. ASSUME NEW d \in Gpus, GpuFault(d) PROVE TypeOK'
    BY <1>2 DEF GpuFault
  <1>3. CASE Start
    BY <1>3 DEF Start, PollOnly
  <1>4. CASE PollBegin
    BY <1>4, EmptyReading, FirstGpu DEF PollBegin, PollOnly
  <1>5. CASE ScanTake
    <2> DEFINE r == [used |-> used[next], total |-> Total[next]]
    <2>1. /\ next \in 1..NumGpus /\ next' = next + 1
          /\ r \in Reading
          /\ best' \in {r, best} /\ sample' = [sample EXCEPT ![next] = r]
          /\ fresh' = fresh \cup {next} /\ poller = "scan" /\ poller' = poller
      BY <1>5, DeviceIsMeasured DEF ScanTake, PollOnly, Reading
    <2>2. UNCHANGED <<envVars, stopClosed, checkVars, UsedMB, TotalMB, circuitOpen>>
      BY <1>5 DEF ScanTake, PollOnly
    <2> HIDE DEF r
    <2>3. next' \in 1..(NumGpus + 1)
      BY <2>1, GpusAssumption
    <2>4. best' \in Reading /\ sample' \in [Gpus -> Reading]
          /\ fresh' \in SUBSET Gpus
      BY <2>1
    <2>5. QED BY <2>1, <2>2, <2>3, <2>4
  <1>6. CASE ScanSkip
    BY <1>6, GpusAssumption DEF ScanSkip, PollOnly
  <1>7. CASE ScanError
    BY <1>7 DEF ScanError, PollOnly
  <1>8. CASE StoreUsed
    <2>1. best.total > 0 /\ best.used \in Nat
      BY <1>8, ReadingParts DEF StoreUsed
    <2>2. QED BY <1>8, <2>1 DEF StoreUsed, PollOnly
  <1>9. CASE StoreTotal
    BY <1>9, ReadingParts DEF StoreTotal, PollOnly
  <1>10. CASE Decide
    BY <1>10 DEF Decide, PollOnly
  <1>11. CASE PollStop
    BY <1>11 DEF PollStop, PollOnly
  <1>12. CASE Stop
    BY <1>12 DEF Stop
  <1>13. ASSUME NEW c \in Checkers, HealthCheck(c) PROVE TypeOK'
    <2>1. CASE LoadUsed(c)
      BY <2>1 DEF LoadUsed, CheckOnly
    <2>2. CASE LoadTotal(c)
      BY <2>2 DEF LoadTotal, CheckOnly
    <2>3. CASE LoadOpen(c)
      BY <2>3 DEF LoadOpen, CheckOnly
    <2>4. QED BY <1>13, <2>1, <2>2, <2>3 DEF HealthCheck
  <1>14. CASE UNCHANGED vars
    BY <1>14 DEF vars
  <1>15. QED
    BY <1>1, <1>2, <1>3, <1>4, <1>5, <1>6, <1>7, <1>8, <1>9, <1>10, <1>11,
       <1>12, <1>13, <1>14 DEF Next, PollStep

\* The steps of the GPUs, of Stop and of HealthCheck leave the poller's part of
\* the state alone.
pollVars == <<reader, devices, poller, next, best, UsedMB, TotalMB, circuitOpen,
              sample, fresh>>

LEMMA Bystanders ==
    ASSUME [Next]_vars, ~PollStep PROVE UNCHANGED pollVars
  <1> USE DEF pollVars, scanVars, ghosts, envVars, checkVars
  <1>1. ASSUME NEW d \in Gpus, GpuUse(d) PROVE UNCHANGED pollVars
    BY <1>1 DEF GpuUse
  <1>2. ASSUME NEW d \in Gpus, GpuFault(d) PROVE UNCHANGED pollVars
    BY <1>2 DEF GpuFault
  <1>3. CASE Stop
    BY <1>3 DEF Stop
  <1>4. ASSUME NEW c \in Checkers, HealthCheck(c) PROVE UNCHANGED pollVars
    BY <1>4 DEF HealthCheck, LoadUsed, LoadTotal, LoadOpen, CheckOnly
  <1>5. CASE UNCHANGED vars
    BY <1>5 DEF vars
  <1>6. QED BY <1>1, <1>2, <1>3, <1>4, <1>5 DEF Next

\* Reading one more device keeps best the worst of those read.
LEMMA TakeKeepsWorst ==
    ASSUME TypeOK, ScanShape, ScanTake
    PROVE  /\ best'.total > 0 /\ BestOf(fresh)'
           /\ fresh' \subseteq 1..(next' - 1)
           /\ \A d \in fresh' : sample'[d].total > 0
  <1> DEFINE r == [used |-> used[next], total |-> Total[next]]
  <1>1. /\ next \in 1..NumGpus /\ next' = next + 1 /\ poller = "scan"
        /\ r \in Measured /\ r.total > 0
        /\ best' = IF best = NoReading \/ MoreUtilised(r, best) THEN r ELSE best
        /\ sample' = [sample EXCEPT ![next] = r]
        /\ fresh' = fresh \cup {next}
    BY DeviceIsMeasured DEF ScanTake, TypeOK
  <1> HIDE DEF r
  <1>2. /\ best \in Reading /\ sample \in [Gpus -> Reading]
        /\ fresh \subseteq 1..(next - 1) /\ fresh \subseteq Gpus
        /\ \A d \in fresh : sample[d].total > 0
        /\ IF fresh = {} THEN best = NoReading
                         ELSE best.total > 0 /\ BestOf(fresh)
    BY <1>1 DEF TypeOK, ScanShape, Polling
  <1>3. /\ \A d \in fresh : sample'[d] = sample[d]
        /\ sample'[next] = r
    BY <1>1, <1>2
  <1>4. ~MoreUtilised(r, r)
    BY <1>1, RoundingAssumption DEF MoreUtilised
  <1>5. \A d \in fresh' : ~MoreUtilised(sample'[d], best')
    <2>1. CASE fresh = {}
      BY <2>1, <1>1, <1>2, <1>3, <1>4
    <2>2. CASE fresh # {}
      <3>1. best # NoReading /\ \A d \in fresh : ~MoreUtilised(sample[d], best)
        <4>1. best.total > 0 /\ BestOf(fresh)
          BY <2>2, <1>2
        <4>2. best # NoReading
          BY <4>1, EmptyReading
        <4>3. QED BY <4>1, <4>2 DEF BestOf
      <3>2. CASE MoreUtilised(r, best)
        <4>1. best \in Measured
          BY <3>1, <1>2 DEF Reading
        <4>2. \A d \in fresh : sample[d] \in Measured
          BY <1>2, ReadingParts
        <4>3. \A d \in fresh : ~MoreUtilised(sample[d], r)
          BY <3>1, <3>2, <4>1, <4>2, <1>1, WorstIsTransitive
        <4>4. QED BY <4>3, <3>2, <1>1, <1>3, <1>4
      <3>3. CASE ~MoreUtilised(r, best)
        BY <3>1, <3>3, <1>1, <1>3
      <3>4. QED BY <3>2, <3>3
    <2>3. QED BY <2>1, <2>2
  <1>6. \E d \in fresh' : best' = sample'[d]
    <2>1. CASE best' = r
      BY <2>1, <1>1, <1>3
    <2>2. CASE best' # r
      <3>1. best' = best /\ best # NoReading
        BY <2>2, <1>1
      <3>2. PICK d \in fresh : best = sample[d]
        BY <3>1, <1>2 DEF BestOf
      <3>3. QED BY <3>1, <3>2, <1>1, <1>3
    <2>3. QED BY <2>1, <2>2
  <1>7. best'.total > 0
    BY <1>1, <1>2 DEF NoReading
  <1>8. fresh' \subseteq 1..(next' - 1)
    BY <1>1, <1>2
  <1>9. \A d \in fresh' : sample'[d].total > 0
    BY <1>1, <1>2, <1>3
  <1>10. QED BY <1>5, <1>6, <1>7, <1>8, <1>9 DEF BestOf

\* Every action keeps what a poll knows of the devices it has read.
LEMMA ScanKept == TypeOK /\ ScanShape /\ [Next]_vars => ScanShape'
  <1> SUFFICES ASSUME TypeOK, ScanShape, [Next]_vars PROVE ScanShape'
    OBVIOUS
  <1> USE DEF ScanShape, Polling
  <1>1. CASE ~PollStep
    BY <1>1, Bystanders DEF pollVars, BestOf
  <1>2. CASE Start
    BY <1>2 DEF Start
  <1>3. CASE PollBegin
    BY <1>3 DEF PollBegin
  <1>4. CASE ScanTake
    <2>1. poller' = "scan" /\ fresh' # {}
      BY <1>4 DEF ScanTake
    <2>2. /\ best'.total > 0 /\ BestOf(fresh)'
          /\ fresh' \subseteq 1..(next' - 1)
          /\ \A d \in fresh' : sample'[d].total > 0
      BY <1>4, TakeKeepsWorst
    <2>3. QED BY <2>1, <2>2
  <1>5. CASE ScanSkip
    <2>1. /\ next \in Nat /\ next' = next + 1 /\ poller = "scan" /\ poller' = poller
          /\ UNCHANGED <<best, fresh, sample>>
      BY <1>5 DEF ScanSkip, ghosts, TypeOK
    <2>2. BestOf(fresh)' <=> BestOf(fresh)
      BY <2>1 DEF BestOf
    <2>3. 1..(next - 1) \subseteq 1..(next' - 1)
      BY <2>1
    <2>4. QED BY <2>1, <2>2, <2>3
  <1>6. CASE ScanError
    BY <1>6 DEF ScanError
  <1>7. CASE StoreUsed
    <2>1. next = NumGpus + 1
      BY <1>7, GpusAssumption DEF StoreUsed, TypeOK
    <2>2. /\ poller = "scan" /\ poller' = "storeTotal"
          /\ UNCHANGED <<best, next, fresh, sample>>
      BY <1>7 DEF StoreUsed, scanVars, ghosts
    <2>3. QED BY <2>1, <2>2 DEF BestOf
  <1>8. CASE StoreTotal
    BY <1>8 DEF StoreTotal, scanVars, ghosts, BestOf
  <1>9. CASE Decide
    BY <1>9 DEF Decide
  <1>10. CASE PollStop
    BY <1>10 DEF PollStop
  <1>11. QED
    BY <1>1, <1>2, <1>3, <1>4, <1>5, <1>6, <1>7, <1>8, <1>9, <1>10 DEF PollStep

\* A sample is of a GPU that has VRAM, and nvidia-smi leaves out no such GPU.
LEMMA SampleKept == TypeOK /\ SampleShape /\ [Next]_vars => SampleShape'
  <1> SUFFICES ASSUME TypeOK, SampleShape, [Next]_vars PROVE SampleShape'
    OBVIOUS
  <1> USE DEF SampleShape, Polling, PollOnly, envVars, ghosts, scanVars
  <1>1. CASE ~PollStep
    BY <1>1, Bystanders DEF pollVars
  <1>2. CASE Start
    BY <1>2 DEF Start
  <1>3. CASE PollBegin
    BY <1>3 DEF PollBegin
  <1>4. CASE ScanTake
    <2>1. /\ next \in 1..NumGpus /\ next' = next + 1 /\ poller = "scan"
          /\ Total[next] > 0 /\ fresh' = fresh \cup {next}
          /\ sample' = [sample EXCEPT ![next] =
                            [used |-> used[next], total |-> Total[next]]]
          /\ UNCHANGED <<reader, devices>>
      BY <1>4 DEF ScanTake, TypeOK
    <2>2. \A d \in Gpus : sample'[d].total > 0 => Total[d] > 0
      BY <2>1 DEF TypeOK
    <2>3. \A d \in 1..(next' - 1) : d \in 1..(next - 1) \/ d = next
      BY <2>1
    <2>4. QED BY <2>1, <2>2, <2>3
  <1>5. CASE ScanSkip
    <2>1. /\ next \in 1..NumGpus /\ next' = next + 1 /\ poller = "scan"
          /\ UNCHANGED <<reader, devices, fresh, sample>>
          /\ reader = "nvidia-smi" => Total[next] = 0
      BY <1>5 DEF ScanSkip, Unread
    <2>2. \A d \in 1..(next' - 1) : d \in 1..(next - 1) \/ d = next
      BY <2>1
    <2>3. QED BY <2>1, <2>2
  <1>6. CASE ScanError
    BY <1>6 DEF ScanError
  <1>7. CASE StoreUsed
    BY <1>7 DEF StoreUsed
  <1>8. CASE StoreTotal
    BY <1>8 DEF StoreTotal
  <1>9. CASE Decide
    BY <1>9 DEF Decide
  <1>10. CASE PollStop
    BY <1>10 DEF PollStop
  <1>11. QED
    BY <1>1, <1>2, <1>3, <1>4, <1>5, <1>6, <1>7, <1>8, <1>9, <1>10 DEF PollStep

\* The atomics are stored from best, in order.
LEMMA StoreKept == TypeOK /\ StoreShape /\ [Next]_vars => StoreShape'
  <1> SUFFICES ASSUME TypeOK, StoreShape, [Next]_vars PROVE StoreShape'
    OBVIOUS
  <1> USE DEF StoreShape, scanVars
  <1>1. CASE ~PollStep
    BY <1>1, Bystanders DEF pollVars
  <1>2. CASE PollStep
    BY <1>2 DEF PollStep, Start, PollBegin, ScanTake, ScanSkip, ScanError,
                StoreUsed, StoreTotal, Decide, PollStop
  <1>3. QED BY <1>1, <1>2

\* The decision makes the breaker agree with what has been stored.
LEMMA BreakerKept ==
    TypeOK /\ BreakerAgrees /\ StoreShape /\ [Next]_vars => BreakerAgrees'
  <1> SUFFICES ASSUME TypeOK, BreakerAgrees, StoreShape, [Next]_vars
               PROVE  BreakerAgrees'
    OBVIOUS
  <1>1. CASE ~PollStep
    BY <1>1, Bystanders DEF pollVars, BreakerAgrees, High, Low
  <1>2. CASE UNCHANGED <<UsedMB, TotalMB, circuitOpen>> /\ poller \in {"idle", "scan"}
    BY <1>2 DEF BreakerAgrees, High, Low
  <1>3. CASE Start
    <2>1. TotalMB' = 0
      BY <1>3 DEF Start, StoreShape
    <2>2. QED BY <2>1 DEF BreakerAgrees
  <1>4. CASE StoreUsed \/ StoreTotal
    BY <1>4 DEF StoreUsed, StoreTotal, BreakerAgrees
  <1>5. CASE Decide
    <2>1. /\ UsedMB' = best.used /\ TotalMB' = best.total
          /\ best \in Measured
          /\ circuitOpen' <=> \/ High(best.used, best.total)
                              \/ circuitOpen /\ ~Low(best.used, best.total)
      BY <1>5, ReadingParts DEF Decide, StoreShape, TypeOK
    <2>2. Low(best.used, best.total) => ~High(best.used, best.total)
      BY <2>1, LowOrHigh
    <2>3. /\ High(UsedMB, TotalMB)' <=> High(best.used, best.total)
          /\ Low(UsedMB, TotalMB)' <=> Low(best.used, best.total)
      BY <2>1 DEF High, Low
    <2>4. QED BY <2>1, <2>2, <2>3 DEF BreakerAgrees
  <1>6. CASE PollBegin \/ ScanTake \/ ScanSkip \/ ScanError \/ PollStop
    BY <1>2, <1>6 DEF PollBegin, ScanTake, ScanSkip, ScanError, PollStop
  <1>7. QED BY <1>1, <1>3, <1>4, <1>5, <1>6 DEF PollStep

\* The whole invariant holds in every reachable state.
THEOREM GuardInductive == Spec => []GuardInv
  <1>1. GuardInv /\ [Next]_vars => GuardInv'
    BY TypeKept, ScanKept, SampleKept, StoreKept, BreakerKept DEF GuardInv
  <1>2. QED BY InitGuard, <1>1, PTL DEF Spec

----------------------------------------------------------------------------
(* The theorems *)

\* Each variable of the guard keeps its type, and no poll stores a sample
\* without a reading (vramguard.go:295-297, 367-369).
THEOREM GuardTypeCorrect == Spec => []TypeOK
  <1>1. GuardInv => TypeOK
    BY DEF GuardInv
  <1>2. QED BY <1>1, GuardInductive, PTL

\* Breaker and published reading agree except while a poll is storing, through
\* any sequence of failed polls (vramguard.go:148-153, 183-200).
THEOREM BreakerFollowsReading == Spec => []BreakerAgrees
  <1>1. GuardInv => BreakerAgrees
    BY DEF GuardInv
  <1>2. QED BY <1>1, GuardInductive, PTL

\* A poll publishes the most utilised of the GPUs that it could read, whatever
\* their sizes and order (vramguard.go:274-275, 345-347).
THEOREM WorstIsPublished == Spec => []WorstGpuPublished
  <1>1. GuardInv => WorstGpuPublished
    BY DEF GuardInv, TypeOK, ScanShape, Polling, WorstGpuPublished, NoReading
  <1>2. QED BY <1>1, GuardInductive, PTL

\* With nvidia-smi the breaker never closes over a GPU that was at the open line
\* when it was last read (vramguard.go:148-153, 355-358).
THEOREM SmiClosesInSight == Spec => NoBlindCloseSmi
  <1>1. ASSUME GuardInv, [Next]_vars, reader = "nvidia-smi",
               circuitOpen, ~circuitOpen'
        PROVE  NoneHigh
    <2>1. Decide
      <3>1. PollStep
        BY <1>1, Bystanders DEF pollVars
      <3>2. QED BY <1>1, <3>1 DEF PollStep, Start, PollBegin, ScanTake, ScanSkip,
                       ScanError, StoreUsed, StoreTotal, PollStop
    <2>2. /\ poller = "decide" /\ Low(best.used, best.total)
      BY <1>1, <2>1 DEF Decide, GuardInv, TypeOK
    <2>3. /\ best \in Measured /\ sample \in [Gpus -> Reading]
          /\ next = NumGpus + 1
          /\ fresh = {} => best = NoReading
          /\ fresh # {} => BestOf(fresh)
          /\ \A d \in 1..(next - 1) : d \in fresh \/ Total[d] = 0
          /\ \A d \in Gpus : sample[d].total > 0 => Total[d] > 0
      BY <1>1, <2>2, ReadingParts DEF GuardInv, TypeOK, ScanShape, SampleShape, Polling
    <2>4. ASSUME NEW d \in Gpus, sample[d].total > 0
          PROVE  ~High(sample[d].used, sample[d].total)
      <3>1. Total[d] > 0 /\ d \in 1..(next - 1)
        BY <2>3, <2>4, GpusAssumption
      <3>2. d \in fresh /\ BestOf(fresh)
        BY <2>3, <3>1
      <3>3. ~MoreUtilised(sample[d], best) /\ sample[d] \in Measured
        BY <2>3, <2>4, <3>2, ReadingParts DEF BestOf
      <3>4. QED BY <2>2, <2>3, <2>4, <3>3, LowIsNotHigh
    <2>5. QED BY <2>4 DEF NoneHigh
  <1>2. QED BY <1>1, GuardInductive, PTL DEF Spec, NoBlindCloseSmi
=============================================================================
