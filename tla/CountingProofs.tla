--------------------------- MODULE CountingProofs ----------------------------
(***************************************************************************)
(* What Batcher.tla counts, for any number of requests and of flushes in   *)
(* flight.  The WaitGroup counts what is running, so it never goes         *)
(* negative, which would panic, and it comes back to zero.  The Prometheus *)
(* counters agree with the Results that were sent and with what Submit     *)
(* returned.                                                               *)
(***************************************************************************)
EXTENDS BatcherProofs, FiniteSetTheorems

----------------------------------------------------------------------------
(* The WaitGroup *)

\* The tracker is started by Start, once.
TrackerShape == loop = "init" => tracker = "none"

\* The flush of a collected batch has not been used before: it is named by a
\* request that is in the batch.
LEMMA NewFlush ==
    ASSUME IndInv, LoopFlush
    PROVE  Head(batch) \in Requests /\ flush[Head(batch)] = "none"
  <1>1. PICK h : h = Head(batch)
    OBVIOUS
  <1>2. h \in Requests /\ h \in Range(batch)
    BY <1>1, RangeOfTail DEF LoopFlush, IndInv, TypeOK
  <1>3. results[h] = <<>> /\ h \notin Held(h)
    BY <1>2 DEF IndInv, HeldIsPending, HeldOnce, Pending
  <1>4. flush[h] = "none"
    BY <1>2, <1>3 DEF IndInv, FlushShape
  <1>5. QED BY <1>1, <1>2, <1>4

LEMMA CountStep ==
    ASSUME IndInv, TrackerShape, WaitGroupCounts, [Next]_vars
    PROVE  WaitGroupCounts' /\ TrackerShape'
  <1> USE DEF TrackerShape
  <1>0. /\ flush \in [Requests -> {"none", "filter", "http", "fail", "match", "done"}]
        /\ wg \in Int /\ IsFiniteSet(Requests) /\ Active \subseteq Requests
        /\ loop \in {"init", "peek", "collect", "collected", "drain", "exited"}
    BY RequestsAssumption DEF IndInv, TypeOK, Active
  <1>1. IsFiniteSet(Active) /\ Cardinality(Active) \in Nat
    BY <1>0, FS_Subset, FS_CardinalityType
  <1>2. ASSUME UNCHANGED <<wg, tracker>>, Active' = Active, loop' = loop \/ loop' # "init"
        PROVE  WaitGroupCounts' /\ TrackerShape'
    BY <1>2 DEF WaitGroupCounts
  <1>3. CASE LoopStep
    <2>1. CASE LoopStart
      <3>1. Active' = Active
        BY <2>1 DEF LoopStart, flushVars, Active
      <3>2. QED BY <2>1, <3>1, <1>0, <1>1 DEF LoopStart, WaitGroupCounts
    <2>2. CASE LoopFlush
      <3>1. PICK h : h = Head(batch)
        OBVIOUS
      <3>2. h \in Requests /\ flush[h] = "none"
        BY <2>2, <3>1, NewFlush
      <3>3. /\ flush' = [flush EXCEPT ![h] = "filter"] /\ wg' = wg + 1
            /\ UNCHANGED tracker /\ loop' = "peek"
        BY <2>2, <3>1 DEF LoopFlush
      <3>4. Active' = Active \cup {h} /\ h \notin Active
        BY <1>0, <3>2, <3>3 DEF Active
      <3>5. Cardinality(Active') = Cardinality(Active) + 1
        BY <1>1, <3>4, FS_AddElement
      <3>6. QED BY <3>3, <3>5, <1>0, <1>1 DEF WaitGroupCounts
    <2>3. CASE LoopPeek \/ CollectTake \/ CollectReturn \/ LoopIdle \/ DrainOne \/ DrainDone
      <3>1. UNCHANGED <<wg, tracker, flush>> /\ (loop' = loop \/ loop' # "init")
        BY <2>3 DEF LoopPeek, CollectTake, CollectReturn, LoopIdle, DrainOne,
           DrainDone, flushVars, loopVars
      <3>2. QED BY <3>1, <1>2 DEF Active
    <2>4. QED BY <1>3, <2>1, <2>2, <2>3 DEF LoopStep
  <1>4. CASE TrackerExit
    <2>1. /\ tracker = "running" /\ tracker' = "done" /\ wg' = wg - 1
          /\ UNCHANGED <<flush, loop>>
      BY <1>4 DEF TrackerExit, Done, flushVars, loopVars
    <2>2. Active' = Active
      BY <2>1 DEF Active
    <2>3. QED BY <2>1, <2>2, <1>0, <1>1 DEF WaitGroupCounts
  <1>5. ASSUME NEW l \in Requests, FlushStep(l)
        PROVE  WaitGroupCounts' /\ TrackerShape'
    <2>0. UNCHANGED <<tracker, loop>>
      BY <1>5, Frames DEF FlushStep, FlushDropCancelled, FlushKeep,
         FlushBuildFails, FlushPost, FlushNoResponse, FlushDecoded, FlushMatch,
         FlushUnknown, FlushMissing, FlushFail, FlushReturn
    <2>1. CASE FlushReturn(l)
      <3>1. /\ flush[l] \in {"filter", "fail", "match"} /\ wg' = wg - 1
            /\ flush' = [flush EXCEPT ![l] = "done"]
        BY <2>1 DEF FlushReturn, Done
      <3>2. l \in Active /\ Active' = Active \ {l}
        BY <1>0, <3>1 DEF Active
      <3>3. Cardinality(Active') = Cardinality(Active) - 1
        BY <1>1, <3>2, FS_RemoveElement
      <3>4. QED BY <2>0, <3>1, <3>3, <1>0, <1>1 DEF WaitGroupCounts
    <2>2. CASE ~FlushReturn(l)
      <3>1. UNCHANGED wg
        BY <1>5, <2>2 DEF FlushStep, FlushDropCancelled, FlushKeep,
           FlushBuildFails, FlushPost, FlushNoResponse, FlushDecoded,
           FlushMatch, FlushUnknown, FlushMissing, FlushFail
      <3>2. \/ UNCHANGED flush
            \/ /\ flush[l] \in {"filter", "http"}
               /\ flush' = [flush EXCEPT ![l] = "http"]
            \/ /\ flush[l] \in {"filter", "http"}
               /\ flush' = [flush EXCEPT ![l] = "fail"]
            \/ /\ flush[l] \in {"filter", "http"}
               /\ flush' = [flush EXCEPT ![l] = "match"]
        BY <1>5, <2>2 DEF FlushStep, FlushDropCancelled, FlushKeep,
           FlushBuildFails, FlushPost, FlushNoResponse, FlushDecoded,
           FlushMatch, FlushUnknown, FlushMissing, FlushFail
      <3>3. Active' = Active
        BY <1>0, <3>2 DEF Active
      <3>4. QED BY <2>0, <3>1, <3>3, <1>2
    <2>3. QED BY <2>1, <2>2
  <1>6. CASE GuardFlip \/ UNCHANGED vars
    BY <1>2, <1>6 DEF GuardFlip, flushVars, loopVars, vars, Active
  <1>7. ASSUME NEW r \in Requests, CancelCtx(r) \/ Submit(r)
        PROVE  WaitGroupCounts' /\ TrackerShape'
    <2>1. UNCHANGED <<flush, wg, tracker, loop>>
      BY <1>7, Frames DEF CancelCtx, flushVars, loopVars, Submit,
         SubmitRejectOpen, SubmitPassCircuit, SubmitRejectStopped, SubmitRLock,
         SubmitEnqueue, SubmitRejectFull
    <2>2. QED BY <2>1, <1>2 DEF Active
  <1>8. ASSUME NEW s \in Stoppers, StopStep(s)
        PROVE  WaitGroupCounts' /\ TrackerShape'
    <2>1. UNCHANGED <<flush, wg, tracker, loop>>
      BY <1>8, Frames DEF StopStep, StopEnter, StopSkip, StopMark, StopClose,
         StopReturn, StopPanics
    <2>2. QED BY <2>1, <1>2 DEF Active
  <1>9. QED BY <1>3, <1>4, <1>5, <1>6, <1>7, <1>8 DEF Next, Run

\* The WaitGroup counts the tracker and the flushes that run, so no Done makes it
\* negative, and a Stop that waits for zero waits for all of them.
THEOREM WaitGroupIsExact == Spec => []WaitGroupCounts
  <1>1. Init => WaitGroupCounts /\ TrackerShape
    <2> SUFFICES ASSUME Init PROVE WaitGroupCounts /\ TrackerShape
      OBVIOUS
    <2>1. Active = {}
      BY DEF Init, Active
    <2>2. Cardinality(Active) = 0
      BY <2>1, FS_EmptySet
    <2>3. QED BY <2>2 DEF Init, WaitGroupCounts, TrackerShape
  <1>2. IndInv /\ TrackerShape /\ WaitGroupCounts /\ [Next]_vars
            => WaitGroupCounts' /\ TrackerShape'
    BY CountStep
  <1>3. QED BY <1>1, <1>2, Inductive, PTL DEF Spec

----------------------------------------------------------------------------
(* The counters *)

Outcomes == {"ok", "itemError", "missing", "unavailable"}

\* The requests of a flush that have been counted in a batch size and have no
\* Result, and those that may have been: the error "invalid" stands for a payload
\* that was never posted, or for a response that could not be decoded.
CountedIn(l) == IF flush[l] = "match" \/ (flush[l] = "fail" /\ cause[l] = "unavailable")
                THEN Range(waiting[l]) ELSE {}
PostedIn(l)  == IF flush[l] \in {"match", "fail"} THEN Range(waiting[l]) ELSE {}

Certain  == ResultsOf(Outcomes)
               \cup {r \in Requests : \E l \in Requests : r \in CountedIn(l)}
Possible == ResultsOf(Outcomes \cup {"invalid"})
               \cup {r \in Requests : \E l \in Requests : r \in PostedIn(l)}

CountInv ==
    /\ metrics["inferSuccess"] = Cardinality(ResultsOf({"ok"}))
    /\ metrics["inferErrors"] = Cardinality(ResultsOf(ResultKinds \ {"ok"}))
    /\ metrics["circuitBreakerTrips"]
         = Cardinality({r \in Requests : submit[r] = "circuitOpen"})
    /\ metrics["queueRejects"]
         = Cardinality({r \in Requests : submit[r] = "queueFull"})
    /\ Cardinality(Certain) <= metrics["batchSizeSum"]
    /\ metrics["batchSizeSum"] <= Cardinality(Possible)

LEMMA SetsOfRequests ==
    \A S \in SUBSET Requests :
        /\ IsFiniteSet(S) /\ Cardinality(S) \in Nat
        /\ \A T \in SUBSET S : Cardinality(T) <= Cardinality(S)
        /\ \A r \in Requests \ S : Cardinality(S \cup {r}) = Cardinality(S) + 1
  <1> SUFFICES ASSUME NEW S \in SUBSET Requests
               PROVE  /\ IsFiniteSet(S) /\ Cardinality(S) \in Nat
                      /\ \A T \in SUBSET S : Cardinality(T) <= Cardinality(S)
                      /\ \A r \in Requests \ S :
                            Cardinality(S \cup {r}) = Cardinality(S) + 1
    OBVIOUS
  <1>1. IsFiniteSet(S)
    BY RequestsAssumption, FS_Subset
  <1>2. Cardinality(S) \in Nat
    BY <1>1, FS_CardinalityType
  <1>3. \A T \in SUBSET S : Cardinality(T) <= Cardinality(S)
    BY <1>1, FS_Subset
  <1>4. \A r \in Requests \ S : Cardinality(S \cup {r}) = Cardinality(S) + 1
    BY <1>1, FS_AddElement
  <1>5. QED BY <1>1, <1>2, <1>3, <1>4

LEMMA CountedAreRequests ==
    /\ Certain \in SUBSET Requests /\ Possible \in SUBSET Requests
    /\ \A K : ResultsOf(K) \in SUBSET Requests
  BY DEF Certain, Possible, ResultsOf

\* A Result that is sent joins the requests with a Result of its kind.
LEMMA ResultJoins ==
    ASSUME IndInv, NEW r \in Requests, Pending(r),
           NEW k \in ResultKinds, NEW o \in Requests, Send(r, k, o), NEW K
    PROVE  /\ r \notin ResultsOf(K)
           /\ ResultsOf(K)' = IF k \in K THEN ResultsOf(K) \cup {r} ELSE ResultsOf(K)
  <1> DEFINE res == [kind |-> k, of |-> o]
  <1>1. results \in [Requests -> Seq(Result)] /\ results[r] = <<>>
    BY DEF IndInv, TypeOK, Pending
  <1>2. results' = [results EXCEPT ![r] = <<res>>]
    BY <1>1 DEF Send
  <1>3. /\ results'[r] = <<res>> /\ DOMAIN results'[r] = {1} /\ results'[r][1].kind = k
        /\ \A x \in Requests \ {r} : results'[x] = results[x]
    BY <1>1, <1>2
  <1>4. r \notin ResultsOf(K)
    BY <1>1 DEF ResultsOf
  <1>5. r \in ResultsOf(K)' <=> k \in K
    BY <1>3 DEF ResultsOf
  <1>6. \A x \in Requests \ {r} : x \in ResultsOf(K)' <=> x \in ResultsOf(K)
    BY <1>3 DEF ResultsOf
  <1>7. ResultsOf(K) \subseteq Requests /\ ResultsOf(K)' \subseteq Requests
    BY DEF ResultsOf
  <1>8. QED BY <1>4, <1>5, <1>6, <1>7

\* The requests that wait move with the flushes and their queues alone.
LEMMA WaitingFrame ==
    ASSUME UNCHANGED <<flush, waiting, cause>>
    PROVE  \A l \in Requests : CountedIn(l)' = CountedIn(l) /\ PostedIn(l)' = PostedIn(l)
  BY DEF CountedIn, PostedIn

LEMMA SetsFrame ==
    ASSUME UNCHANGED results,
           \A l \in Requests : CountedIn(l)' \subseteq CountedIn(l)
                               /\ PostedIn(l) \subseteq PostedIn(l)'
    PROVE  Certain' \subseteq Certain /\ Possible \subseteq Possible'
  BY DEF Certain, Possible, ResultsOf

\* The counters of sets that are read, written and compared.
LEMMA CountTypes ==
    ASSUME IndInv
    PROVE  /\ metrics \in [Metric -> Int]
           /\ Metric = {"circuitBreakerTrips", "queueRejects", "inferSuccess",
                        "inferErrors", "batchSizeSum"}
  BY DEF IndInv, TypeOK, Metric

\* A step that counts nothing and sends nothing.
LEMMA NothingCounted ==
    ASSUME CountInv, UNCHANGED <<results, metrics>>,
           \A r \in Requests : /\ submit'[r] = "circuitOpen" <=> submit[r] = "circuitOpen"
                               /\ submit'[r] = "queueFull" <=> submit[r] = "queueFull",
           IndInv, Certain' \subseteq Certain, Possible \subseteq Possible'
    PROVE  CountInv'
  <1>1. /\ ResultsOf({"ok"})' = ResultsOf({"ok"})
        /\ ResultsOf(ResultKinds \ {"ok"})' = ResultsOf(ResultKinds \ {"ok"})
    BY DEF ResultsOf
  <1>2. /\ {r \in Requests : submit'[r] = "circuitOpen"}
             = {r \in Requests : submit[r] = "circuitOpen"}
        /\ {r \in Requests : submit'[r] = "queueFull"}
             = {r \in Requests : submit[r] = "queueFull"}
    OBVIOUS
  <1>3. /\ Cardinality(Certain') <= Cardinality(Certain)
        /\ Cardinality(Possible) <= Cardinality(Possible')
        /\ Cardinality(Certain') \in Nat /\ Cardinality(Certain) \in Nat
        /\ Cardinality(Possible) \in Nat /\ Cardinality(Possible') \in Nat
    <2>1. Possible' \in SUBSET Requests /\ Certain' \in SUBSET Requests
      BY DEF Possible, Certain, ResultsOf
    <2>2. QED BY <2>1, SetsOfRequests, CountedAreRequests
  <1>4. metrics["batchSizeSum"] \in Int
    BY CountTypes
  <1>5. QED BY <1>1, <1>2, <1>3, <1>4 DEF CountInv

\* A Result that is sent is counted once, as a success or as an error.
LEMMA AnswerCounted ==
    ASSUME IndInv, CountInv, NEW r \in Requests, Pending(r),
           NEW k \in ResultKinds, NEW o \in Requests, Send(r, k, o),
           Count(IF k = "ok" THEN "inferSuccess" ELSE "inferErrors", 1),
           UNCHANGED submit, Certain' \subseteq Certain, Possible \subseteq Possible'
    PROVE  CountInv'
  <1>1. /\ r \notin ResultsOf({"ok"}) /\ r \notin ResultsOf(ResultKinds \ {"ok"})
        /\ ResultsOf({"ok"})'
             = IF k = "ok" THEN ResultsOf({"ok"}) \cup {r} ELSE ResultsOf({"ok"})
        /\ ResultsOf(ResultKinds \ {"ok"})'
             = IF k # "ok" THEN ResultsOf(ResultKinds \ {"ok"}) \cup {r}
                           ELSE ResultsOf(ResultKinds \ {"ok"})
    <2>1. k \in {"ok"} <=> k = "ok"
      OBVIOUS
    <2>2. k \in ResultKinds \ {"ok"} <=> k # "ok"
      OBVIOUS
    <2>3. QED BY <2>1, <2>2, ResultJoins
  <1>2. /\ Cardinality(ResultsOf({"ok"}) \cup {r}) = Cardinality(ResultsOf({"ok"})) + 1
        /\ Cardinality(ResultsOf(ResultKinds \ {"ok"}) \cup {r})
             = Cardinality(ResultsOf(ResultKinds \ {"ok"})) + 1
    BY <1>1, SetsOfRequests, CountedAreRequests
  <1>3. /\ metrics'["inferSuccess"]
             = IF k = "ok" THEN metrics["inferSuccess"] + 1 ELSE metrics["inferSuccess"]
        /\ metrics'["inferErrors"]
             = IF k # "ok" THEN metrics["inferErrors"] + 1 ELSE metrics["inferErrors"]
        /\ metrics'["circuitBreakerTrips"] = metrics["circuitBreakerTrips"]
        /\ metrics'["queueRejects"] = metrics["queueRejects"]
        /\ metrics'["batchSizeSum"] = metrics["batchSizeSum"]
        /\ metrics["batchSizeSum"] \in Int
    BY CountTypes DEF Count
  <1>4. /\ Cardinality(Certain') <= Cardinality(Certain)
        /\ Cardinality(Possible) <= Cardinality(Possible')
        /\ Cardinality(Certain') \in Nat /\ Cardinality(Certain) \in Nat
        /\ Cardinality(Possible) \in Nat /\ Cardinality(Possible') \in Nat
    <2>1. Possible' \in SUBSET Requests /\ Certain' \in SUBSET Requests
      BY DEF Possible, Certain, ResultsOf
    <2>2. QED BY <2>1, SetsOfRequests, CountedAreRequests
  <1>5. /\ metrics'["inferSuccess"] = Cardinality(ResultsOf({"ok"})')
        /\ metrics'["inferErrors"] = Cardinality(ResultsOf(ResultKinds \ {"ok"})')
    BY <1>1, <1>2, <1>3 DEF CountInv
  <1>6. QED BY <1>3, <1>4, <1>5 DEF CountInv

\* A Result of the backend goes to a request that was counted as posted; one
\* that is not the backend's goes to a request that was not posted.
LEMMA AnswerSets ==
    ASSUME IndInv, NEW r \in Requests, Pending(r),
           NEW k \in ResultKinds, NEW o \in Requests, Send(r, k, o),
           \A l \in Requests : CountedIn(l)' \subseteq CountedIn(l)
                               /\ PostedIn(l) \ {r} \subseteq PostedIn(l)',
           k \in Outcomes => \E l \in Requests : r \in CountedIn(l),
           \/ k \in Outcomes \cup {"invalid"}
           \/ \A l \in Requests : PostedIn(l) \subseteq PostedIn(l)'
    PROVE  Certain' \subseteq Certain /\ Possible \subseteq Possible'
  <1>1. /\ ResultsOf(Outcomes)'
             = IF k \in Outcomes THEN ResultsOf(Outcomes) \cup {r} ELSE ResultsOf(Outcomes)
        /\ ResultsOf(Outcomes \cup {"invalid"})'
             = IF k \in Outcomes \cup {"invalid"}
               THEN ResultsOf(Outcomes \cup {"invalid"}) \cup {r}
               ELSE ResultsOf(Outcomes \cup {"invalid"})
    BY ResultJoins
  <1>2. Certain' \subseteq Certain
    BY <1>1 DEF Certain
  <1>3. ASSUME NEW x \in Possible PROVE x \in Possible'
    <2>1. CASE x \in ResultsOf(Outcomes \cup {"invalid"})
      BY <2>1, <1>1 DEF Possible
    <2>2. CASE x \in Requests /\ \E l \in Requests : x \in PostedIn(l)
      <3>1. PICK l \in Requests : x \in PostedIn(l)
        BY <2>2
      <3>2. CASE x = r /\ k \in Outcomes \cup {"invalid"}
        BY <3>2, <1>1 DEF Possible
      <3>3. CASE x # r \/ k \notin Outcomes \cup {"invalid"}
        <4>1. x \in PostedIn(l)'
          BY <3>1, <3>3
        <4>2. QED BY <4>1, <2>2 DEF Possible
      <3>4. QED BY <3>2, <3>3
    <2>3. QED BY <2>1, <2>2 DEF Possible
  <1>4. QED BY <1>2, <1>3

\* A batch that was posted is counted with its size, and its requests have no
\* Result yet.
LEMMA PostCounted ==
    ASSUME IndInv, CountInv, NEW l \in Requests, flush[l] = "http",
           UNCHANGED <<submit, results, waiting>>,
           Count("batchSizeSum", Len(waiting[l])),
           NEW f \in {"match", "fail"}, flush' = [flush EXCEPT ![l] = f],
           \A m \in Requests \ {l} : cause'[m] = cause[m]
    PROVE  CountInv'
  <1> DEFINE R == Range(waiting[l])
  <1>1. /\ waiting[l] \in Seq(Requests) /\ IsInjective(waiting[l]) /\ R \in SUBSET Requests
        /\ flush \in [Requests -> {"none", "filter", "http", "fail", "match", "done"}]
    BY DEF IndInv, TypeOK, HeldOnce, Range
  <1>2. IsFiniteSet(R) /\ Cardinality(R) = Len(waiting[l])
    <2>1. /\ waiting[l] \in [1..Len(waiting[l]) -> R] /\ Len(waiting[l]) \in Nat
          /\ \A r \in R : \E i \in 1..Len(waiting[l]) : waiting[l][i] = r
      BY <1>1 DEF Range
    <2>2. waiting[l] \in Bijection(1..Len(waiting[l]), R)
      BY <2>1, <1>1 DEF Bijection, Injection, Surjection
    <2>3. IsFiniteSet(1..Len(waiting[l])) /\ Cardinality(1..Len(waiting[l])) = Len(waiting[l])
      BY <2>1, FS_Interval
    <2>4. QED BY <2>2, <2>3, FS_Bijection DEF ExistsBijection
  <1>3. \A m \in Requests \ {l} : flush'[m] = flush[m]
    BY <1>1
  <1>4. flush'[l] = f
    BY <1>1
  <1>5. /\ \A m \in Requests \ {l} : CountedIn(m)' = CountedIn(m) /\ PostedIn(m)' = PostedIn(m)
        /\ CountedIn(l)' \subseteq R /\ PostedIn(l)' = R
        /\ PostedIn(l) = {}
    BY <1>3, <1>4 DEF CountedIn, PostedIn
  <1>6. /\ ResultsOf(Outcomes)' = ResultsOf(Outcomes)
        /\ ResultsOf(Outcomes \cup {"invalid"})' = ResultsOf(Outcomes \cup {"invalid"})
        /\ ResultsOf({"ok"})' = ResultsOf({"ok"})
        /\ ResultsOf(ResultKinds \ {"ok"})' = ResultsOf(ResultKinds \ {"ok"})
    BY DEF ResultsOf
  <1>7. Certain' \subseteq Certain \cup R
    BY <1>5, <1>6 DEF Certain
  <1>8. Possible \cup R \subseteq Possible'
    BY <1>1, <1>5, <1>6 DEF Possible
  <1>9. Possible \cap R = {}
    <2> SUFFICES ASSUME NEW r \in R, r \in Possible PROVE FALSE
      OBVIOUS
    <2>1. r \in Held(l) /\ Pending(r)
      BY DEF Held, IndInv, HeldIsPending
    <2>2. r \notin ResultsOf(Outcomes \cup {"invalid"})
      BY <2>1 DEF ResultsOf, Pending
    <2>3. PICK m \in Requests : r \in PostedIn(m)
      BY <2>2 DEF Possible
    <2>4. m # l /\ r \in Held(m)
      BY <2>3, <1>5 DEF PostedIn, Held
    <2>5. QED BY <2>1, <2>4 DEF IndInv, HeldOnce
  <1> HIDE DEF R
  <1>10. Cardinality(Certain') <= Cardinality(Certain) + Cardinality(R)
    <2>1. /\ IsFiniteSet(Certain) /\ Cardinality(Certain) \in Nat
          /\ Certain \cup R \in SUBSET Requests
      BY <1>1, SetsOfRequests, CountedAreRequests
    <2>2. Cardinality(Certain') <= Cardinality(Certain \cup R)
      BY <2>1, <1>7, SetsOfRequests
    <2>3. /\ Cardinality(Certain \cup R)
               = Cardinality(Certain) + Cardinality(R) - Cardinality(Certain \cap R)
          /\ Certain \cap R \in SUBSET Requests
      BY <2>1, <1>1, <1>2, FS_Union
    <2>4. /\ Cardinality(Certain \cap R) \in Nat /\ Cardinality(R) \in Nat
          /\ Cardinality(Certain') \in Nat
      <3>1. Certain' \in SUBSET Requests
        BY <2>1, <1>7
      <3>2. QED BY <3>1, <2>3, <1>1, SetsOfRequests
    <2>5. QED BY <2>1, <2>2, <2>3, <2>4
  <1>11. Cardinality(Possible) + Cardinality(R) <= Cardinality(Possible')
    <2>1. Possible' \in SUBSET Requests
      BY DEF Possible, ResultsOf
    <2>2. Cardinality(Possible \cup R) <= Cardinality(Possible')
      BY <2>1, <1>8, SetsOfRequests
    <2>3. Cardinality(Possible \cup R)
            = Cardinality(Possible) + Cardinality(R) - Cardinality(Possible \cap R)
      <3>1. IsFiniteSet(Possible)
        BY SetsOfRequests, CountedAreRequests
      <3>2. QED BY <3>1, <1>2, FS_Union
    <2>4. Cardinality(Possible \cap R) = 0
      BY <1>9, FS_EmptySet
    <2>5. Cardinality(Possible) \in Nat /\ Cardinality(R) \in Nat
      BY <1>1, SetsOfRequests, CountedAreRequests
    <2>6. QED BY <2>2, <2>3, <2>4, <2>5
  <1>12. /\ metrics'["batchSizeSum"] = metrics["batchSizeSum"] + Cardinality(R)
         /\ metrics["batchSizeSum"] \in Int
         /\ \A m \in Metric \ {"batchSizeSum"} : metrics'[m] = metrics[m]
         /\ Metric = {"circuitBreakerTrips", "queueRejects", "inferSuccess",
                      "inferErrors", "batchSizeSum"}
    BY <1>2, CountTypes DEF Count
  <1>13. /\ Cardinality(Certain') \in Nat /\ Cardinality(Certain) \in Nat
         /\ Cardinality(Possible) \in Nat /\ Cardinality(Possible') \in Nat
         /\ Cardinality(R) \in Nat
    <2>1. Possible' \in SUBSET Requests /\ Certain' \in SUBSET Requests
      BY DEF Possible, Certain, ResultsOf
    <2>2. QED BY <2>1, <1>1, SetsOfRequests, CountedAreRequests
  <1>14. QED BY <1>6, <1>10, <1>11, <1>12, <1>13 DEF CountInv

----------------------------------------------------------------------------
(* The steps *)

LEMMA SubmitCounts ==
    ASSUME IndInv, CountInv, NEW r \in Requests, Submit(r) PROVE CountInv'
  <1>0. /\ UNCHANGED <<flush, waiting, cause, results>>
        /\ submit \in [Requests -> {"new", "admitted", "sending", "accepted"} \cup Refused]
    BY Frames DEF Submit, SubmitRejectOpen, SubmitPassCircuit, SubmitRejectStopped,
       SubmitRLock, SubmitEnqueue, SubmitRejectFull, IndInv, TypeOK
  <1>1. Certain' \subseteq Certain /\ Possible \subseteq Possible'
    BY <1>0, SetsFrame, WaitingFrame
  <1>2. CASE SubmitPassCircuit(r) \/ SubmitRejectStopped(r) \/ SubmitRLock(r)
             \/ SubmitEnqueue(r)
    <2>1. /\ UNCHANGED metrics
          /\ submit[r] \in {"new", "admitted", "sending"}
          /\ \E u \in {"admitted", "stopped", "sending", "accepted"} :
                submit' = [submit EXCEPT ![r] = u]
      BY <1>2 DEF SubmitPassCircuit, SubmitRejectStopped, SubmitRLock, SubmitEnqueue
    <2>2. \A x \in Requests : /\ submit'[x] = "circuitOpen" <=> submit[x] = "circuitOpen"
                              /\ submit'[x] = "queueFull" <=> submit[x] = "queueFull"
      BY <2>1, <1>0
    <2>3. QED BY <2>1, <2>2, <1>0, <1>1, NothingCounted
  <1>3. ASSUME NEW u \in {"circuitOpen", "queueFull"},
               submit[r] \in {"new", "sending"}, submit' = [submit EXCEPT ![r] = u],
               Count(IF u = "circuitOpen" THEN "circuitBreakerTrips" ELSE "queueRejects", 1)
        PROVE  CountInv'
    <2> DEFINE At(v) == {x \in Requests : submit[x] = v}
               Now(v) == {x \in Requests : submit'[x] = v}
    <2>1. /\ r \notin At("circuitOpen") /\ r \notin At("queueFull")
          /\ Now("circuitOpen") = IF u = "circuitOpen" THEN At("circuitOpen") \cup {r}
                                                       ELSE At("circuitOpen")
          /\ Now("queueFull") = IF u = "queueFull" THEN At("queueFull") \cup {r}
                                                   ELSE At("queueFull")
      BY <1>0, <1>3
    <2>2. /\ At("circuitOpen") \in SUBSET Requests /\ At("queueFull") \in SUBSET Requests
      OBVIOUS
    <2> HIDE DEF At, Now
    <2>3. /\ Cardinality(At("circuitOpen") \cup {r}) = Cardinality(At("circuitOpen")) + 1
          /\ Cardinality(At("queueFull") \cup {r}) = Cardinality(At("queueFull")) + 1
      BY <2>1, <2>2, SetsOfRequests
    <2>4. /\ metrics["circuitBreakerTrips"] = Cardinality(At("circuitOpen"))
          /\ metrics["queueRejects"] = Cardinality(At("queueFull"))
      BY DEF CountInv, At
    <2>5. /\ metrics'["circuitBreakerTrips"]
               = IF u = "circuitOpen" THEN metrics["circuitBreakerTrips"] + 1
                                      ELSE metrics["circuitBreakerTrips"]
          /\ metrics'["queueRejects"]
               = IF u = "queueFull" THEN metrics["queueRejects"] + 1
                                    ELSE metrics["queueRejects"]
          /\ metrics'["inferSuccess"] = metrics["inferSuccess"]
          /\ metrics'["inferErrors"] = metrics["inferErrors"]
          /\ metrics'["batchSizeSum"] = metrics["batchSizeSum"]
          /\ metrics["batchSizeSum"] \in Int
      BY <1>3, CountTypes DEF Count
    <2>6. /\ metrics'["circuitBreakerTrips"] = Cardinality(Now("circuitOpen"))
          /\ metrics'["queueRejects"] = Cardinality(Now("queueFull"))
      BY <2>1, <2>3, <2>4, <2>5
    <2>7. /\ ResultsOf({"ok"})' = ResultsOf({"ok"})
          /\ ResultsOf(ResultKinds \ {"ok"})' = ResultsOf(ResultKinds \ {"ok"})
      BY <1>0 DEF ResultsOf
    <2>8. /\ Cardinality(Certain') <= Cardinality(Certain)
          /\ Cardinality(Possible) <= Cardinality(Possible')
          /\ Cardinality(Certain') \in Nat /\ Cardinality(Certain) \in Nat
          /\ Cardinality(Possible) \in Nat /\ Cardinality(Possible') \in Nat
      <3>1. Possible' \in SUBSET Requests /\ Certain' \in SUBSET Requests
        BY DEF Possible, Certain, ResultsOf
      <3>2. QED BY <3>1, <1>1, SetsOfRequests, CountedAreRequests
    <2>9. QED BY <2>5, <2>6, <2>7, <2>8 DEF CountInv, Now
  <1>4. CASE SubmitRejectOpen(r)
    BY <1>3, <1>4 DEF SubmitRejectOpen
  <1>5. CASE SubmitRejectFull(r)
    BY <1>3, <1>5 DEF SubmitRejectFull
  <1>6. QED BY <1>2, <1>4, <1>5 DEF Submit

LEMMA LoopCounts ==
    ASSUME IndInv, CountInv, LoopStep PROVE CountInv'
  <1>1. UNCHANGED submit
    BY Frames DEF LoopStep, LoopStart, LoopPeek, CollectTake, CollectReturn,
       LoopFlush, LoopIdle, DrainOne, DrainDone
  <1>2. CASE DrainOne
    <2>1. PICK h : h = Head(queue)
      OBVIOUS
    <2>2. failRequest(h, "stopped") /\ h \in Requests /\ Pending(h)
      BY <1>2, <2>1, RangeOfTail DEF DrainOne, IndInv, TypeOK, HeldIsPending
    <2>3. /\ Send(h, "stopped", h) /\ Count("inferErrors", 1)
          /\ "stopped" \in ResultKinds /\ "stopped" \notin Outcomes \cup {"invalid"}
      BY <2>2 DEF failRequest, ResultKinds, Outcomes
    <2>4. UNCHANGED <<flush, waiting, cause>>
      BY <1>2 DEF DrainOne, flushVars
    <2>5. Certain' \subseteq Certain /\ Possible \subseteq Possible'
      BY <2>2, <2>3, <2>4, WaitingFrame, AnswerSets
    <2>6. QED BY <2>2, <2>3, <2>5, <1>1, AnswerCounted
  <1>3. CASE LoopFlush
    <2>1. PICK h : h = Head(batch)
      OBVIOUS
    <2>2. /\ h \in Requests /\ flush[h] = "none"
          /\ flush' = [flush EXCEPT ![h] = "filter"]
          /\ UNCHANGED <<waiting, cause, results, metrics>>
      BY <1>3, <2>1, NewFlush DEF LoopFlush
    <2>3. \A l \in Requests : CountedIn(l)' = CountedIn(l) /\ PostedIn(l)' = PostedIn(l)
      BY <2>2 DEF CountedIn, PostedIn, IndInv, TypeOK
    <2>4. QED BY <2>2, <2>3, <1>1, SetsFrame, NothingCounted
  <1>4. CASE LoopStart \/ LoopPeek \/ CollectTake \/ CollectReturn \/ LoopIdle \/ DrainDone
    <2>1. UNCHANGED <<flush, waiting, cause, results, metrics>>
      BY <1>4 DEF LoopStart, LoopPeek, CollectTake, CollectReturn, LoopIdle,
         DrainDone, flushVars
    <2>2. QED BY <2>1, <1>1, WaitingFrame, SetsFrame, NothingCounted
  <1>5. QED BY <1>2, <1>3, <1>4 DEF LoopStep

LEMMA FlushCounts ==
    ASSUME IndInv, CountInv, NEW l \in Requests, FlushStep(l) PROVE CountInv'
  <1>0. /\ UNCHANGED submit
        /\ flush \in [Requests -> {"none", "filter", "http", "fail", "match", "done"}]
        /\ waiting \in [Requests -> Seq(Requests)]
        /\ cause \in [Requests -> {"none", "unavailable", "invalid"}]
        /\ Range(<<>>) = {}
    BY Frames, RangeOfEmpty DEF FlushStep, FlushDropCancelled, FlushKeep, FlushBuildFails,
       FlushPost, FlushNoResponse, FlushDecoded, FlushMatch, FlushUnknown, FlushMissing,
       FlushFail, FlushReturn, IndInv, TypeOK
  <1>1. CtxErrs \subseteq ResultKinds /\ Outcomes \cup {"invalid"} \subseteq ResultKinds
        /\ \A k \in CtxErrs : k # "ok" /\ k \notin Outcomes \cup {"invalid"}
    BY CtxAssumption DEF ResultKinds, Outcomes
  <1>2. CASE FlushDropCancelled(l)
    <2>1. PICK h : h = Head(todo[l])
      OBVIOUS
    <2>2. /\ h \in Requests /\ Pending(h) /\ ctx[h] \in CtxErrs
          /\ failRequest(h, ctx[h]) /\ UNCHANGED <<flush, waiting, cause>>
      BY <1>2, <2>1, HeldTodo DEF FlushDropCancelled, IndInv, TypeOK
    <2>3. Send(h, ctx[h], h) /\ Count("inferErrors", 1)
      BY <2>2 DEF failRequest
    <2>4. Certain' \subseteq Certain /\ Possible \subseteq Possible'
      BY <2>2, <2>3, <1>1, WaitingFrame, AnswerSets
    <2>5. QED BY <2>2, <2>3, <2>4, <1>0, <1>1, AnswerCounted
  <1>3. CASE FlushKeep(l) \/ FlushBuildFails(l) \/ FlushPost(l) \/ FlushUnknown(l)
             \/ FlushReturn(l)
    <2>1. UNCHANGED <<results, metrics>>
      BY <1>3 DEF FlushKeep, FlushBuildFails, FlushPost, FlushUnknown, FlushReturn
    <2>2. \A m \in Requests : CountedIn(m)' \subseteq CountedIn(m)
                              /\ PostedIn(m) \subseteq PostedIn(m)'
      <3>1. CASE FlushKeep(l)
        BY <3>1, <1>0 DEF FlushKeep, CountedIn, PostedIn
      <3>2. CASE FlushBuildFails(l)
        BY <3>2, <1>0 DEF FlushBuildFails, CountedIn, PostedIn
      <3>3. CASE FlushPost(l)
        BY <3>3, <1>0 DEF FlushPost, CountedIn, PostedIn
      <3>4. CASE FlushUnknown(l)
        BY <3>4 DEF FlushUnknown, CountedIn, PostedIn
      <3>5. CASE FlushReturn(l)
        BY <3>5, <1>0 DEF FlushReturn, CountedIn, PostedIn
      <3>6. QED BY <1>3, <3>1, <3>2, <3>3, <3>4, <3>5
    <2>3. QED BY <2>1, <2>2, <1>0, SetsFrame, NothingCounted
  <1>4. CASE FlushNoResponse(l) \/ FlushDecoded(l)
    <2>1. /\ flush[l] = "http" /\ UNCHANGED <<results, waiting>>
          /\ Count("batchSizeSum", Len(waiting[l]))
          /\ \E f \in {"match", "fail"} : flush' = [flush EXCEPT ![l] = f]
          /\ \A m \in Requests \ {l} : cause'[m] = cause[m]
      BY <1>4, <1>0 DEF FlushNoResponse, FlushDecoded
    <2>2. QED BY <2>1, <1>0, PostCounted
  <1>5. ASSUME NEW r \in Range(waiting[l]), NEW k \in Outcomes \cup {"invalid"},
               NEW o \in Requests, Send(r, k, o),
               Count(IF k = "ok" THEN "inferSuccess" ELSE "inferErrors", 1),
               k \in Outcomes => r \in CountedIn(l),
               UNCHANGED <<flush, cause>>,
               NEW w, waiting' = [waiting EXCEPT ![l] = w],
               Range(w) = Range(waiting[l]) \ {r}
        PROVE  CountInv'
    <2>1. r \in Requests /\ Pending(r)
      BY <1>0 DEF IndInv, HeldIsPending, Held, Range
    <2>2. \A m \in Requests : CountedIn(m)' \subseteq CountedIn(m)
                              /\ PostedIn(m) \ {r} \subseteq PostedIn(m)'
      BY <1>0, <1>5 DEF CountedIn, PostedIn
    <2>3. Certain' \subseteq Certain /\ Possible \subseteq Possible'
      BY <2>1, <2>2, <1>1, <1>5, AnswerSets
    <2>4. QED BY <2>1, <2>3, <1>0, <1>1, <1>5, AnswerCounted
  <1>6. CASE FlushMatch(l)
    <2>1. PICK i \in DOMAIN waiting[l] :
             /\ \/ /\ Send(waiting[l][i], "itemError", Head(body[l]))
                   /\ Count("inferErrors", 1)
                \/ /\ Send(waiting[l][i], "ok", Head(body[l]))
                   /\ Count("inferSuccess", 1)
             /\ waiting' = [waiting EXCEPT ![l] = Without(waiting[l], i)]
      BY <1>6 DEF FlushMatch
    <2>2. /\ waiting[l][i] \in Range(waiting[l])
          /\ Range(Without(waiting[l], i)) = Range(waiting[l]) \ {waiting[l][i]}
      BY HeldWaitingAt
    <2>3. Head(body[l]) \in Requests
      BY <1>6, RangeOfTail DEF FlushMatch, IndInv, TypeOK
    <2>4. flush[l] = "match" /\ UNCHANGED <<flush, cause>>
      BY <1>6 DEF FlushMatch
    <2>5. waiting[l][i] \in CountedIn(l)
      BY <2>2, <2>4 DEF CountedIn
    <2>6. PICK k \in {"ok", "itemError"} :
             /\ Send(waiting[l][i], k, Head(body[l]))
             /\ Count(IF k = "ok" THEN "inferSuccess" ELSE "inferErrors", 1)
      BY <2>1
    <2>7. k \in Outcomes \cup {"invalid"}
      BY DEF Outcomes
    <2>8. QED BY <2>1, <2>2, <2>3, <2>4, <2>5, <2>6, <2>7, <1>5
  <1>7. CASE FlushMissing(l)
    <2>1. PICK i \in DOMAIN waiting[l] :
             /\ failRequest(waiting[l][i], "missing")
             /\ waiting' = [waiting EXCEPT ![l] = Without(waiting[l], i)]
      BY <1>7 DEF FlushMissing
    <2>2. /\ waiting[l][i] \in Requests /\ waiting[l][i] \in Range(waiting[l])
          /\ Range(Without(waiting[l], i)) = Range(waiting[l]) \ {waiting[l][i]}
      BY HeldWaitingAt
    <2>3. flush[l] = "match" /\ UNCHANGED <<flush, cause>>
      BY <1>7 DEF FlushMissing
    <2>4. /\ waiting[l][i] \in CountedIn(l)
          /\ Send(waiting[l][i], "missing", waiting[l][i]) /\ Count("inferErrors", 1)
          /\ "missing" \in Outcomes
      BY <2>1, <2>2, <2>3 DEF CountedIn, failRequest, Outcomes
    <2>5. QED BY <2>1, <2>2, <2>3, <2>4, <1>5
  <1>8. CASE FlushFail(l)
    <2>1. PICK h : h = Head(waiting[l])
      OBVIOUS
    <2>2. /\ flush[l] = "fail" /\ UNCHANGED <<flush, cause>>
          /\ waiting' = [waiting EXCEPT ![l] = Tail(waiting[l])]
          /\ failRequest(h, cause[l])
          /\ h \in Requests /\ h \in Range(waiting[l])
          /\ Range(Tail(waiting[l])) = Range(waiting[l]) \ {h}
      BY <1>8, <2>1, HeldWaiting DEF FlushFail
    <2>3. cause[l] \in {"unavailable", "invalid"}
      BY <2>2, <1>0 DEF IndInv, FlushShape
    <2>4. /\ Send(h, cause[l], h) /\ Count("inferErrors", 1)
          /\ cause[l] \in Outcomes \cup {"invalid"}
          /\ cause[l] \in Outcomes => h \in CountedIn(l)
      BY <2>2, <2>3 DEF failRequest, CountedIn, Outcomes
    <2>5. QED BY <2>2, <2>3, <2>4, <1>5
  <1>9. QED BY <1>2, <1>3, <1>4, <1>6, <1>7, <1>8 DEF FlushStep

LEMMA CountInvStep == IndInv /\ CountInv /\ [Next]_vars => CountInv'
  <1> SUFFICES ASSUME IndInv, CountInv, [Next]_vars PROVE CountInv'
    OBVIOUS
  <1>1. CASE GuardFlip \/ TrackerExit \/ UNCHANGED vars
    <2>1. UNCHANGED <<submit, flush, waiting, cause, results, metrics>>
      BY <1>1 DEF GuardFlip, TrackerExit, vars, flushVars
    <2>2. QED BY <2>1, WaitingFrame, SetsFrame, NothingCounted
  <1>2. ASSUME NEW r \in Requests, CancelCtx(r) PROVE CountInv'
    <2>1. UNCHANGED <<submit, flush, waiting, cause, results, metrics>>
      BY <1>2 DEF CancelCtx, flushVars
    <2>2. QED BY <2>1, WaitingFrame, SetsFrame, NothingCounted
  <1>3. ASSUME NEW s \in Stoppers, StopStep(s) PROVE CountInv'
    <2>1. UNCHANGED <<submit, flush, waiting, cause, results, metrics>>
      BY <1>3, Frames DEF StopStep, StopEnter, StopSkip, StopMark, StopClose,
         StopReturn, StopPanics
    <2>2. QED BY <2>1, WaitingFrame, SetsFrame, NothingCounted
  <1>4. QED BY <1>1, <1>2, <1>3, SubmitCounts, LoopCounts, FlushCounts DEF Next, Run

LEMMA InitCount == Init => CountInv
  <1> SUFFICES ASSUME Init PROVE CountInv
    OBVIOUS
  <1>1. \A K : ResultsOf(K) = {}
    BY DEF Init, ResultsOf
  <1>2. \A l \in Requests : CountedIn(l) = {} /\ PostedIn(l) = {}
    BY DEF Init, CountedIn, PostedIn
  <1>3. Certain = {} /\ Possible = {}
    BY <1>1, <1>2 DEF Certain, Possible
  <1>4. /\ {r \in Requests : submit[r] = "circuitOpen"} = {}
        /\ {r \in Requests : submit[r] = "queueFull"} = {}
    BY DEF Init
  <1>5. \A m \in Metric : metrics[m] = 0
    BY DEF Init
  <1>6. Cardinality({}) = 0
    BY FS_EmptySet
  <1>7. QED BY <1>1, <1>3, <1>4, <1>5, <1>6 DEF CountInv, Metric

\* The counters agree with the Results and with what is being posted.
LEMMA CountInductive == Spec => []CountInv
  BY Inductive, InitCount, CountInvStep, PTL DEF Spec

\* Every Result is counted once, as a success or an error, and every refusal
\* once; the batch sizes count what was posted (metrics.go, batcher.go:351).
THEOREM OutcomesAreCounted == Spec => []OutcomesCounted
  <1>1. IndInv /\ CountInv => OutcomesCounted
    <2> SUFFICES ASSUME IndInv, CountInv PROVE OutcomesCounted
      OBVIOUS
    <2> DEFINE InPost  == {r \in Requests : \E l \in Active :
                              flush[l] \in {"match", "fail"} /\ r \in Range(waiting[l])}
               Outcome == ResultsOf({"ok", "itemError", "missing", "unavailable"})
    <2>1. Cardinality(Outcome) <= metrics["batchSizeSum"]
      <3>1. Outcome \in SUBSET Certain
        BY DEF Certain, Outcomes
      <3>2. Cardinality(Outcome) <= Cardinality(Certain)
        BY <3>1, SetsOfRequests, CountedAreRequests
      <3>3. /\ Cardinality(Outcome) \in Nat /\ Cardinality(Certain) \in Nat
            /\ metrics["batchSizeSum"] \in Int
        BY SetsOfRequests, CountedAreRequests, CountTypes
      <3>4. QED BY <3>2, <3>3 DEF CountInv
    <2>2. Possible = Outcome \cup InPost \cup ResultsOf({"invalid"})
      <3>1. InPost = {r \in Requests : \E l \in Requests : r \in PostedIn(l)}
        BY DEF Active, PostedIn
      <3>2. ResultsOf(Outcomes \cup {"invalid"}) = Outcome \cup ResultsOf({"invalid"})
        BY DEF ResultsOf, Outcomes
      <3>3. QED BY <3>1, <3>2 DEF Possible
    <2>3. metrics["batchSizeSum"] \in Int /\ Cardinality(Outcome) \in Nat
      BY CountTypes, SetsOfRequests, CountedAreRequests
    <2>4. QED BY <2>1, <2>2, <2>3 DEF CountInv, OutcomesCounted
  <1>2. QED BY <1>1, Inductive, CountInductive, PTL
=============================================================================
