------------------------------ MODULE VramGuard ------------------------------
(***************************************************************************)
(* The VRAM circuit breaker of internal/vramguard/vramguard.go: the poller *)
(* that samples every GPU through a Reader and moves the breaker, the GPUs *)
(* it samples, and the HealthCheck handlers of internal/grpcserver that    *)
(* read the guard's atomics one at a time.                                 *)
(*                                                                         *)
(* A utilisation is a float64, and the division and the multiplication     *)
(* that make it are rounded: a GPU exactly at a line can come out below or *)
(* above it.  Shares, percentages and thresholds are whole numbers here,   *)
(* of a unit of which Point make one percent.                              *)
(***************************************************************************)
EXTENDS Integers, FiniteSets

CONSTANTS
    NumGpus,   \* the GPUs of the host, in order
    Total,     \* VRAM of each device; 0 is reported by a broken one
    Levels,    \* the values the used VRAM of a device takes
    Quotient(_, _),  \* used / total, rounded
    Percent(_),      \* a share * 100.0, rounded
    Point,     \* one percent
    OomPct,    \* cfg.OOMThresholdPct
    ClosePct,  \* cfg.CloseThresholdPct
    Checkers   \* the calls of HealthCheck

Gpus == 1..NumGpus

ASSUME GpusAssumption ==
    /\ NumGpus \in Nat \ {0}
    /\ Total \in [Gpus -> Nat]
    /\ Levels \in [Gpus -> SUBSET Nat]
    /\ \A d \in Gpus : 0 \in Levels[d] /\ \A u \in Levels[d] : u <= Total[d]
\* Wider than cmd/sidecar/main.go, which asks that ClosePct be positive: a Guard
\* can also be built with the zero Config and then takes its default.
ASSUME ConfigAssumption ==
    /\ Point \in Nat \ {0}
    /\ OomPct \in 1..(100 * Point) /\ ClosePct \in Int /\ ClosePct < OomPct

VARIABLES
    used,         \* VRAM in use on each device
    readable,     \* does a read of the device succeed?
    reader,       \* g.reader: "nvml" or "nvidia-smi"
    devices,      \* the GPUs it samples
    poller,       \* where the goroutine of Start is
    next,         \* the device ReadUsageMB looks at next
    best,         \* its reading of the most utilised device so far
    UsedMB,       \* g.UsedMB
    TotalMB,      \* g.TotalMB
    circuitOpen,  \* g.circuitOpen
    stopClosed,   \* is g.stopCh closed?
    check,        \* where each HealthCheck is
    reply,        \* what it has loaded so far
    sample,       \* history: the last reading of each device
    fresh         \* history: the devices read by the current poll

envVars   == <<used, readable, reader, devices>>
scanVars  == <<next, best>>
checkVars == <<check, reply>>
ghosts    == <<sample, fresh>>
vars == <<used, readable, reader, devices, poller, next, best, UsedMB, TotalMB,
          circuitOpen, stopClosed, check, reply, sample, fresh>>

----------------------------------------------------------------------------
(* Utilisation *)

\* What a device that reports VRAM can be read as.
Measured == UNION {{[used |-> u, total |-> Total[d]] : u \in Levels[d]} :
                   d \in {e \in Gpus : Total[e] > 0}}
NoReading == [used |-> 0, total |-> 0]
Reading == Measured \cup {NoReading}

\* r is a reading of more utilisation than b, as far as the quotients tell.
MoreUtilised(r, b) == Quotient(r.used, r.total) > Quotient(b.used, b.total)

\* pct of pollOnce
Pct(u, t) == Percent(Quotient(u, t))

\* Rounding is monotone, whatever it rounds to.
ASSUME RoundingAssumption ==
    \A r, s \in Measured :
        /\ Quotient(r.used, r.total) \in Int /\ Pct(r.used, r.total) \in Int
        /\ r.used * s.total <= s.used * r.total =>
               Quotient(r.used, r.total) <= Quotient(s.used, s.total)
        /\ ~MoreUtilised(r, s) => Pct(r.used, r.total) <= Pct(s.used, s.total)

High(u, t) == Pct(u, t) >= OomPct

\* closeThreshold, with the default of pollOnce for a configuration without it.
\* The subtraction is exact in float64.
CloseLine == IF ClosePct > 0 THEN ClosePct
             ELSE IF OomPct > 5 * Point THEN OomPct - 5 * Point ELSE 0

Low(u, t) == Pct(u, t) <= CloseLine

----------------------------------------------------------------------------

\* newVRAMReader: NVML keeps the GPUs whose handle it finds, as long as it finds
\* one; otherwise, or when the mode asks for it, nvidia-smi reports them all.
NewReader ==
    \/ reader = "nvml" /\ devices \in SUBSET Gpus \ {{}}
    \/ reader = "nvidia-smi" /\ devices = Gpus

Init ==
    /\ NewReader
    /\ used = [d \in Gpus |-> 0]
    /\ readable = [d \in Gpus |-> TRUE]
    /\ poller = "init" /\ next = 1 /\ best = NoReading
    /\ UsedMB = 0 /\ TotalMB = 0
    /\ circuitOpen = FALSE
    /\ stopClosed = FALSE
    /\ check = [c \in Checkers |-> "new"]
    /\ reply = [c \in Checkers |-> [used |-> 0, total |-> 0, open |-> FALSE]]
    /\ sample = [d \in Gpus |-> NoReading]
    /\ fresh = {}

(* The GPUs *)

GpuUse(d) ==
    /\ \E u \in Levels[d] \ {used[d]} : used' = [used EXCEPT ![d] = u]
    /\ UNCHANGED <<readable, reader, devices, poller, scanVars, UsedMB, TotalMB, circuitOpen,
                   stopClosed, checkVars, ghosts>>

\* Reads of a device begin to fail, or work again.
GpuFault(d) ==
    /\ readable' = [readable EXCEPT ![d] = ~@]
    /\ UNCHANGED <<used, reader, devices, poller, scanVars, UsedMB, TotalMB, circuitOpen,
                   stopClosed, checkVars, ghosts>>

----------------------------------------------------------------------------
(* Start and pollOnce *)

PollOnly == UNCHANGED <<envVars, stopClosed, checkVars>>

Start ==
    /\ poller = "init"
    /\ poller' = "idle"
    /\ PollOnly /\ UNCHANGED <<scanVars, UsedMB, TotalMB, circuitOpen, ghosts>>

\* Mutant of PollBegin: the best reading of the last poll is kept.
PollBeginStale ==
    /\ poller = "idle"
    /\ poller' = "scan" /\ next' = 1 /\ fresh' = {}
    /\ PollOnly /\ UNCHANGED <<best, UsedMB, TotalMB, circuitOpen, sample>>

\* The ticker fires and ReadUsageMB begins.
PollBegin ==
    /\ poller = "idle"
    /\ poller' = "scan" /\ next' = 1 /\ best' = NoReading /\ fresh' = {}
    /\ PollOnly /\ UNCHANGED <<UsedMB, TotalMB, circuitOpen, sample>>

\* Mutant of ScanTake: the last device wins.
ScanTakeLast ==
    /\ poller = "scan" /\ next \in devices
    /\ readable[next] /\ Total[next] > 0
    /\ best' = [used |-> used[next], total |-> Total[next]]
    /\ sample' = [sample EXCEPT ![next] = best']
    /\ fresh' = fresh \cup {next}
    /\ next' = next + 1
    /\ PollOnly /\ UNCHANGED <<poller, UsedMB, TotalMB, circuitOpen>>

ScanTake ==
    /\ poller = "scan" /\ next \in devices
    /\ readable[next] /\ Total[next] > 0
    /\ LET r == [used |-> used[next], total |-> Total[next]]
       IN  /\ best' = IF best = NoReading \/ MoreUtilised(r, best) THEN r ELSE best
           /\ sample' = [sample EXCEPT ![next] = r]
    /\ fresh' = fresh \cup {next}
    /\ next' = next + 1
    /\ PollOnly /\ UNCHANGED <<poller, UsedMB, TotalMB, circuitOpen>>

Unread(d) == d \in devices /\ ~readable[d]

\* Mutant of ScanSkip: a line of nvidia-smi that does not parse is skipped too.
ScanSkipAll ==
    /\ poller = "scan" /\ next \in Gpus
    /\ Unread(next) \/ next \notin devices \/ Total[next] = 0
    /\ next' = next + 1
    /\ PollOnly /\ UNCHANGED <<poller, best, UsedMB, TotalMB, circuitOpen, ghosts>>

\* NVML goes on past a device whose read fails; both readers pass over one that
\* reports no VRAM.
ScanSkip ==
    /\ poller = "scan" /\ next \in Gpus
    /\ \/ Unread(next) /\ reader = "nvml"
       \/ next \notin devices
       \/ ~Unread(next) /\ Total[next] = 0
    /\ next' = next + 1
    /\ PollOnly /\ UNCHANGED <<poller, best, UsedMB, TotalMB, circuitOpen, ghosts>>

\* One bad line, or a failing nvidia-smi, is an error of the whole sample; so is
\* a sample without any reading.  The guard keeps what it had.
ScanError ==
    /\ poller = "scan"
    /\ \/ next \in Gpus /\ Unread(next) /\ reader = "nvidia-smi"
       \/ next \notin Gpus /\ best = NoReading
    /\ poller' = "idle"
    /\ PollOnly /\ UNCHANGED <<scanVars, UsedMB, TotalMB, circuitOpen, ghosts>>

\* Mutant of StoreUsed: a sample without any reading is stored all the same.
StoreUsedAlways ==
    /\ poller = "scan" /\ next \notin Gpus
    /\ UsedMB' = best.used
    /\ poller' = "storeTotal"
    /\ PollOnly /\ UNCHANGED <<scanVars, TotalMB, circuitOpen, ghosts>>

StoreUsed ==
    /\ poller = "scan" /\ next \notin Gpus /\ best # NoReading
    /\ UsedMB' = best.used
    /\ poller' = "storeTotal"
    /\ PollOnly /\ UNCHANGED <<scanVars, TotalMB, circuitOpen, ghosts>>

StoreTotal ==
    /\ poller = "storeTotal"
    /\ TotalMB' = best.total
    /\ poller' = "decide"
    /\ PollOnly /\ UNCHANGED <<scanVars, UsedMB, circuitOpen, ghosts>>

\* Mutant of Decide: the comparison with the close line is strict.
DecideStrict ==
    /\ poller = "decide"
    /\ circuitOpen' =
           \/ High(best.used, best.total)
           \/ circuitOpen /\ Pct(best.used, best.total) >= CloseLine
    /\ poller' = "idle"
    /\ PollOnly /\ UNCHANGED <<scanVars, UsedMB, TotalMB, ghosts>>

\* Open at the open line, close only at the close line, keep in between.
Decide ==
    /\ poller = "decide"
    /\ circuitOpen' = \/ High(best.used, best.total)
                      \/ circuitOpen /\ ~Low(best.used, best.total)
    /\ poller' = "idle"
    /\ PollOnly /\ UNCHANGED <<scanVars, UsedMB, TotalMB, ghosts>>

\* Mutant of PollStop: stopCh is looked at before the loop only.
PollStopEarly ==
    /\ poller = "init" /\ stopClosed
    /\ poller' = "stopped"
    /\ PollOnly /\ UNCHANGED <<scanVars, UsedMB, TotalMB, circuitOpen, ghosts>>

\* Start sees stopCh closed, returns and closes the reader.
PollStop ==
    /\ poller = "idle" /\ stopClosed
    /\ poller' = "stopped"
    /\ PollOnly /\ UNCHANGED <<scanVars, UsedMB, TotalMB, circuitOpen, ghosts>>

PollStep == \/ Start \/ PollBegin \/ ScanTake \/ ScanSkip \/ ScanError
            \/ StoreUsed \/ StoreTotal \/ Decide \/ PollStop

Stop ==
    /\ ~stopClosed
    /\ stopClosed' = TRUE
    /\ UNCHANGED <<envVars, poller, scanVars, UsedMB, TotalMB, circuitOpen,
                   checkVars, ghosts>>

----------------------------------------------------------------------------
(* HealthCheck: GetUsage loads two atomics, IsOpen a third *)

CheckOnly == UNCHANGED <<envVars, poller, scanVars, UsedMB, TotalMB,
                         circuitOpen, stopClosed, ghosts>>

LoadUsed(c) ==
    /\ check[c] = "new"
    /\ check' = [check EXCEPT ![c] = "used"]
    /\ reply' = [reply EXCEPT ![c].used = UsedMB]
    /\ CheckOnly

LoadTotal(c) ==
    /\ check[c] = "used"
    /\ check' = [check EXCEPT ![c] = "total"]
    /\ reply' = [reply EXCEPT ![c].total = TotalMB]
    /\ CheckOnly

LoadOpen(c) ==
    /\ check[c] = "total"
    /\ check' = [check EXCEPT ![c] = "replied"]
    /\ reply' = [reply EXCEPT ![c].open = circuitOpen]
    /\ CheckOnly

HealthCheck(c) == LoadUsed(c) \/ LoadTotal(c) \/ LoadOpen(c)

----------------------------------------------------------------------------

Next ==
    \/ \E d \in Gpus : GpuUse(d) \/ GpuFault(d)
    \/ PollStep
    \/ Stop
    \/ \E c \in Checkers : HealthCheck(c)

Spec == Init /\ [][Next]_vars

\* The ticker keeps firing and a poll, which nvidia-smi may hold for at most its
\* timeout, comes to an end.  Once stopCh is closed the select chooses between it
\* and the ticker at random, hence the strong fairness.
FairSpec == Spec /\ WF_vars(PollStep) /\ SF_vars(PollStop)
=============================================================================
