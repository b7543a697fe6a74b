---------------------------- MODULE BatcherProofs ----------------------------
(***************************************************************************)
(* Proofs about Batcher.tla for any number of requests, callers of Stop,   *)
(* queue capacity and batch size, and any backend.                         *)
(***************************************************************************)
EXTENDS BatcherProperties, SequenceTheorems, TLAPS

----------------------------------------------------------------------------
(* The sequence operations of the model, as operations on sets *)

\* Appending to the queue or to a batch adds the new element.
LEMMA RangeOfAppend ==
    ASSUME NEW S, NEW s \in Seq(S), NEW e \in S
    PROVE  /\ Append(s, e) \in Seq(S)
           /\ Range(Append(s, e)) = Range(s) \cup {e}
           /\ Len(Append(s, e)) = Len(s) + 1
           /\ IsInjective(s) /\ e \notin Range(s) => IsInjective(Append(s, e))
  <1> DEFINE t == Append(s, e)
  <1>1. /\ Len(s) \in Nat /\ DOMAIN s = 1..Len(s)
        /\ \A i \in 1..Len(s) : s[i] \in S
    OBVIOUS
  <1>2. /\ t \in Seq(S) /\ Len(t) = Len(s) + 1 /\ DOMAIN t = 1..(Len(s) + 1)
        /\ \A i \in 1..Len(s) : t[i] = s[i]
        /\ t[Len(s) + 1] = e
    BY <1>1
  <1> HIDE DEF t
  <1>3. \A i \in 1..(Len(s) + 1) : i \in 1..Len(s) \/ i = Len(s) + 1
    BY <1>1
  <1>4. Range(t) = Range(s) \cup {e}
    <2>1. ASSUME NEW x \in Range(t) PROVE x \in Range(s) \cup {e}
      BY <2>1, <1>1, <1>2, <1>3 DEF Range
    <2>2. ASSUME NEW x \in Range(s) PROVE x \in Range(t)
      BY <2>2, <1>1, <1>2 DEF Range
    <2>3. e \in Range(t)
      BY <1>1, <1>2 DEF Range
    <2>4. QED BY <2>1, <2>2, <2>3
  <1>5. ASSUME IsInjective(s), e \notin Range(s) PROVE IsInjective(t)
    BY <1>1, <1>2, <1>3, <1>5 DEF IsInjective, Range
  <1>6. QED BY <1>2, <1>4, <1>5 DEF t

\* Taking the head leaves the rest.
LEMMA RangeOfTail ==
    ASSUME NEW S, NEW s \in Seq(S), s # <<>>
    PROVE  /\ Head(s) \in S /\ Head(s) \in Range(s)
           /\ Tail(s) \in Seq(S)
           /\ Range(s) = {Head(s)} \cup Range(Tail(s))
           /\ Len(Tail(s)) <= Len(s)
           /\ IsInjective(s) => /\ IsInjective(Tail(s))
                                /\ Head(s) \notin Range(Tail(s))
  <1>1. /\ Len(s) \in Nat \ {0} /\ DOMAIN s = 1..Len(s)
        /\ \A i \in 1..Len(s) : s[i] \in S
    OBVIOUS
  <1>2. /\ Head(s) = s[1] /\ Tail(s) \in Seq(S) /\ Len(Tail(s)) = Len(s) - 1
        /\ DOMAIN Tail(s) = 1..(Len(s) - 1)
        /\ \A i \in 1..(Len(s) - 1) : Tail(s)[i] = s[i + 1]
    BY <1>1
  <1>3. Range(s) = {Head(s)} \cup Range(Tail(s))
    <2>1. ASSUME NEW i \in 1..Len(s) PROVE s[i] \in {Head(s)} \cup Range(Tail(s))
      <3>1. CASE i = 1
        BY <3>1, <1>2
      <3>2. CASE i # 1
        <4>1. i - 1 \in 1..(Len(s) - 1) /\ s[i] = Tail(s)[i - 1]
          BY <3>2, <1>1, <1>2
        <4>2. QED BY <4>1, <1>2 DEF Range
      <3>3. QED BY <3>1, <3>2
    <2>2. ASSUME NEW i \in 1..(Len(s) - 1) PROVE Tail(s)[i] \in Range(s)
      <3>1. i + 1 \in 1..Len(s) /\ Tail(s)[i] = s[i + 1]
        BY <1>1, <1>2
      <3>2. QED BY <3>1, <1>1 DEF Range
    <2>3. Head(s) \in Range(s)
      BY <1>1, <1>2 DEF Range
    <2>4. QED BY <2>1, <2>2, <2>3, <1>1, <1>2 DEF Range
  <1>4. ASSUME IsInjective(s)
        PROVE  IsInjective(Tail(s)) /\ Head(s) \notin Range(Tail(s))
    BY <1>1, <1>2, <1>4 DEF IsInjective, Range
  <1>5. QED BY <1>1, <1>2, <1>3, <1>4 DEF Range

\* Dropping the i-th element of a sequence without repetitions removes it.
LEMMA RangeOfWithout ==
    ASSUME NEW S, NEW s \in Seq(S), NEW i \in DOMAIN s, IsInjective(s)
    PROVE  /\ s[i] \in S /\ s[i] \in Range(s)
           /\ Without(s, i) \in Seq(S)
           /\ Range(Without(s, i)) = Range(s) \ {s[i]}
           /\ IsInjective(Without(s, i))
  <1> DEFINE w == Without(s, i)
  <1>1. /\ Len(s) \in Nat \ {0} /\ DOMAIN s = 1..Len(s) /\ i \in 1..Len(s)
        /\ \A j \in 1..Len(s) : s[j] \in S
    OBVIOUS
  <1>2. /\ w \in Seq(S) /\ Len(w) = Len(s) - 1 /\ DOMAIN w = 1..(Len(s) - 1)
        /\ \A j \in 1..(Len(s) - 1) : w[j] = IF j < i THEN s[j] ELSE s[j + 1]
    BY <1>1 DEF Without
  <1>3. \A j, k \in 1..Len(s) : s[j] = s[k] => j = k
    BY <1>1 DEF IsInjective
  <1> HIDE DEF w
  <1>4. ASSUME NEW j \in 1..(Len(s) - 1) PROVE w[j] \in Range(s) \ {s[i]}
    <2>1. CASE j < i
      BY <2>1, <1>1, <1>2, <1>3 DEF Range
    <2>2. CASE ~(j < i)
      <3>1. j + 1 \in 1..Len(s) /\ j + 1 # i /\ w[j] = s[j + 1]
        BY <2>2, <1>1, <1>2
      <3>2. QED BY <3>1, <1>1, <1>3 DEF Range
    <2>3. QED BY <2>1, <2>2
  <1>5. ASSUME NEW j \in 1..Len(s), j # i PROVE s[j] \in Range(w)
    <2>1. CASE j < i
      <3>1. j \in 1..(Len(s) - 1) /\ w[j] = s[j]
        BY <2>1, <1>1, <1>2
      <3>2. QED BY <3>1, <1>2 DEF Range
    <2>2. CASE j > i
      <3>1. j - 1 \in 1..(Len(s) - 1) /\ w[j - 1] = s[j]
        BY <2>2, <1>1, <1>2
      <3>2. QED BY <3>1, <1>2 DEF Range
    <2>3. QED BY <2>1, <2>2, <1>5, <1>1
  <1>6. Range(w) = Range(s) \ {s[i]}
    BY <1>1, <1>2, <1>4, <1>5 DEF Range
  <1>7. IsInjective(w)
    <2>1. SUFFICES ASSUME NEW j \in 1..(Len(s) - 1), NEW k \in 1..(Len(s) - 1),
                          w[j] = w[k]
                   PROVE  j = k
      BY <1>2 DEF IsInjective
    <2>2. j + 1 \in 1..Len(s) /\ k + 1 \in 1..Len(s) /\ j \in 1..Len(s) /\ k \in 1..Len(s)
      BY <1>1
    <2>3. QED BY <2>1, <2>2, <1>1, <1>2, <1>3
  <1>8. QED BY <1>1, <1>2, <1>6, <1>7 DEF w, Range

----------------------------------------------------------------------------
(* Single Results and counters *)

\* Sending a Result to a request that has none gives it exactly one and
\* changes nothing for the others.
LEMMA SendAnswers ==
    ASSUME results \in [Requests -> Seq(Result)],
           NEW r \in Requests, results[r] = <<>>,
           NEW k \in ResultKinds, NEW o \in Requests, Send(r, k, o)
    PROVE  /\ results' \in [Requests -> Seq(Result)]
           /\ Len(results'[r]) = 1 /\ results'[r] # <<>>
           /\ \A x \in Requests \ {r} : results'[x] = results[x]
  <1> DEFINE res == [kind |-> k, of |-> o]
  <1>1. res \in Result
    BY DEF Result
  <1> HIDE DEF res
  <1>2. results' = [results EXCEPT ![r] = Append(@, res)]
    BY DEF Send, res
  <1>3. /\ Append(results[r], res) \in Seq(Result)
        /\ Len(Append(results[r], res)) = 1
        /\ Append(results[r], res) # <<>>
    BY <1>1
  <1>4. QED BY <1>2, <1>3

\* A counter stays a counter.
LEMMA CountType ==
    ASSUME metrics \in [Metric -> Int], NEW m \in Metric, NEW n \in Int,
           Count(m, n)
    PROVE  metrics' \in [Metric -> Int]
  BY DEF Count

\* failRequest of a request that is held delivers its one Result.
LEMMA FailAnswers ==
    ASSUME TypeOK, NEW r \in Requests, results[r] = <<>>,
           NEW k \in ResultKinds, failRequest(r, k)
    PROVE  /\ results' \in [Requests -> Seq(Result)]
           /\ Len(results'[r]) = 1 /\ results'[r] # <<>>
           /\ \A x \in Requests \ {r} : results'[x] = results[x]
           /\ metrics' \in [Metric -> Int]
  <1>1. results \in [Requests -> Seq(Result)] /\ metrics \in [Metric -> Int]
    BY DEF TypeOK
  <1>2. Send(r, k, r) /\ Count("inferErrors", 1)
    BY DEF failRequest
  <1>3. "inferErrors" \in Metric
    BY DEF Metric
  <1>4. QED BY <1>1, <1>2, <1>3, SendAnswers, CountType

----------------------------------------------------------------------------
(* Types, the loop and the lock *)

\* The frame of each kind of step.
LEMMA Frames ==
    /\ SubmitOnly => UNCHANGED <<circuitOpen, ctx, loop, batch, flush, todo,
           waiting, body, cause, results, stopped, stopClosed, stop, tracker, wg>>
    /\ LoopOnly => UNCHANGED <<circuitOpen, ctx, submit, stopped, stopClosed, stop>>
    /\ FlushFrame => UNCHANGED <<circuitOpen, ctx, submit, queue, loop, batch,
           tracker>>
    /\ FlushOnly => UNCHANGED <<circuitOpen, ctx, submit, queue, loop, batch,
           stopped, stopClosed, stop, tracker>>
    /\ Done => UNCHANGED <<stopped, stopClosed>>
    /\ StopOnly => UNCHANGED <<circuitOpen, ctx, submit, queue, loop, batch,
           flush, todo, waiting, body, cause, results, tracker, wg, metrics>>
  BY DEF SubmitOnly, LoopOnly, FlushFrame, FlushOnly, StopOnly, Done, envVars,
         loopVars, flushVars, stopVars

\* Done moves calls of Stop from their Wait to the look at the counter after it.
LEMMA DoneReleases ==
    ASSUME Done
    PROVE  /\ stop' = [s \in Stoppers |-> stop'[s]]
           /\ \A s \in Stoppers :
                 stop'[s] = stop[s] \/ (stop[s] = "wait" /\ stop'[s] = "released")
  <1>1. PICK woken \in SUBSET {s \in Stoppers : wg = 1 /\ stop[s] = "wait"} :
           stop' = [s \in Stoppers |-> IF s \in woken THEN "released" ELSE stop[s]]
    BY DEF Done
  <1>2. \A s \in Stoppers :
           stop'[s] = stop[s] \/ (stop[s] = "wait" /\ stop'[s] = "released")
    BY <1>1
  <1>3. stop' = [s \in Stoppers |-> stop'[s]]
    BY <1>1
  <1>4. QED BY <1>2, <1>3

LEMMA DoneStops ==
    ASSUME stop \in [Stoppers -> StopStates], Done
    PROVE  stop' \in [Stoppers -> StopStates]
  <1>1. \A s \in Stoppers : stop'[s] \in StopStates
    BY DoneReleases DEF StopStates
  <1>2. QED BY <1>1, DoneReleases

\* RWMutex: stopped is set when no Submit is sending, and none starts after.
LEMMA LockStep == IndInv /\ [Next]_vars => LockShape'
  <1> SUFFICES ASSUME IndInv, [Next]_vars PROVE LockShape'
    OBVIOUS
  <1> USE DEF IndInv, LockShape, Readers
  <1>1. CASE GuardFlip
    BY <1>1 DEF GuardFlip, stopVars
  <1>2. CASE LoopStep
    BY <1>2, Frames DEF LoopStep, LoopStart, LoopPeek, CollectTake,
       CollectReturn, LoopFlush, LoopIdle, DrainOne, DrainDone
  <1>3. CASE TrackerExit
    BY <1>3, Frames, DoneReleases DEF TrackerExit
  <1>4. ASSUME NEW r \in Requests, CancelCtx(r) PROVE LockShape'
    BY <1>4 DEF CancelCtx, stopVars
  <1>5. ASSUME NEW r \in Requests, Submit(r) PROVE LockShape'
    <2>1. UNCHANGED <<stopped, stopClosed, stop>>
      BY <1>5, Frames DEF Submit, SubmitRejectOpen, SubmitPassCircuit,
         SubmitRejectStopped, SubmitRLock, SubmitEnqueue, SubmitRejectFull
    <2>2. submit \in [Requests -> {"new", "admitted", "sending", "accepted"} \cup Refused]
      BY DEF TypeOK
    <2>3. stopped => Readers' \subseteq Readers
      BY <1>5, <2>2 DEF Submit, SubmitRejectOpen, SubmitPassCircuit, Refused,
         SubmitRejectStopped, SubmitRLock, SubmitEnqueue, SubmitRejectFull
    <2>4. QED BY <2>1, <2>3
  <1>6. ASSUME NEW l \in Requests, FlushStep(l) PROVE LockShape'
    <2>1. CASE FlushReturn(l)
      BY <2>1, Frames, DoneReleases DEF FlushReturn
    <2>2. CASE ~FlushReturn(l)
      BY <1>6, <2>2, Frames DEF FlushStep, FlushDropCancelled, FlushKeep,
         FlushBuildFails, FlushPost, FlushNoResponse, FlushDecoded, FlushMatch,
         FlushUnknown, FlushMissing, FlushFail
    <2>3. QED BY <2>1, <2>2
  <1>7. ASSUME NEW s \in Stoppers, StopStep(s) PROVE LockShape'
    <2>1. UNCHANGED submit
      BY <1>7, Frames DEF StopStep, StopEnter, StopSkip, StopMark, StopClose,
         StopReturn, StopPanics
    <2>2. stop \in [Stoppers -> StopStates]
      BY DEF TypeOK
    <2>3. QED
      BY <1>7, <2>1, <2>2 DEF StopStep, StopEnter, StopSkip, StopMark,
         StopClose, StopReturn, StopPanics
  <1>8. CASE UNCHANGED vars
    BY <1>8 DEF vars
  <1>9. QED
    BY <1>1, <1>2, <1>3, <1>4, <1>5, <1>6, <1>7, <1>8 DEF Next, Run

\* Only collectBatch fills a batch, and it stops at MaxBatchSize; the loop
\* leaves for the drain only when stopCh is closed.
LEMMA LoopStepShape == IndInv /\ [Next]_vars => LoopShape'
  <1> SUFFICES ASSUME IndInv, [Next]_vars PROVE LoopShape'
    OBVIOUS
  <1> USE DEF IndInv, LoopShape
  <1>0. MaxBatchSize \in Nat \ {0} /\ batch \in Seq(Requests) /\ queue \in Seq(Requests)
    BY SizesAssumption DEF TypeOK
  <1>1. CASE GuardFlip
    BY <1>1 DEF GuardFlip, loopVars, stopVars
  <1>2. CASE LoopStep
    <2>1. UNCHANGED stopClosed
      BY <1>2, Frames DEF LoopStep, LoopStart, LoopPeek, CollectTake,
         CollectReturn, LoopFlush, LoopIdle, DrainOne, DrainDone
    <2>2. CASE CollectTake
      BY <2>1, <2>2, <1>0 DEF CollectTake
    <2>3. CASE LoopPeek
      BY <2>1, <2>3, <1>0 DEF LoopPeek
    <2>4. CASE LoopStart \/ CollectReturn \/ LoopFlush \/ LoopIdle
                         \/ DrainOne \/ DrainDone
      BY <2>1, <2>4, <1>0 DEF LoopStart, CollectReturn, LoopFlush, LoopIdle,
         DrainOne, DrainDone, loopVars
    <2>5. QED BY <1>2, <2>2, <2>3, <2>4 DEF LoopStep
  <1>3. CASE TrackerExit
    BY <1>3, Frames DEF TrackerExit, loopVars
  <1>4. ASSUME NEW r \in Requests, CancelCtx(r) PROVE LoopShape'
    BY <1>4 DEF CancelCtx, loopVars, stopVars
  <1>5. ASSUME NEW r \in Requests, Submit(r) PROVE LoopShape'
    BY <1>5, Frames DEF Submit, SubmitRejectOpen, SubmitPassCircuit,
       SubmitRejectStopped, SubmitRLock, SubmitEnqueue, SubmitRejectFull
  <1>6. ASSUME NEW l \in Requests, FlushStep(l) PROVE LoopShape'
    BY <1>6, Frames DEF FlushStep, FlushDropCancelled, FlushKeep,
       FlushBuildFails, FlushPost, FlushNoResponse, FlushDecoded, FlushMatch,
       FlushUnknown, FlushMissing, FlushFail, FlushReturn
  <1>7. ASSUME NEW s \in Stoppers, StopStep(s) PROVE LoopShape'
    BY <1>7, Frames DEF StopStep, StopEnter, StopSkip, StopMark, StopClose,
       StopReturn, StopPanics
  <1>8. CASE UNCHANGED vars
    BY <1>8 DEF vars
  <1>9. QED
    BY <1>1, <1>2, <1>3, <1>4, <1>5, <1>6, <1>7, <1>8 DEF Next, Run

\* The types, action by action.
LEMMA SubmitType ==
    ASSUME IndInv, NEW r \in Requests, Submit(r) PROVE TypeOK'
  <1> USE DEF IndInv, TypeOK, Refused, Metric
  <1>1. CASE SubmitRejectOpen(r)
    <2>1. UNCHANGED <<circuitOpen, ctx, queue, loop, batch, flush, todo, waiting,
                      body, cause, results, stopped, stopClosed, stop, tracker, wg>>
      BY <1>1, Frames DEF SubmitRejectOpen
    <2>2. metrics' \in [Metric -> Int]
      BY <1>1, CountType DEF SubmitRejectOpen
    <2>3. submit' \in [Requests ->
               {"new", "admitted", "sending", "accepted"} \cup Refused]
      BY <1>1 DEF SubmitRejectOpen
    <2>4. QED BY <2>1, <2>2, <2>3
  <1>2. CASE SubmitPassCircuit(r) \/ SubmitRejectStopped(r) \/ SubmitRLock(r)
    <2>1. UNCHANGED <<circuitOpen, ctx, queue, loop, batch, flush, todo, waiting,
                      body, cause, results, stopped, stopClosed, stop, tracker, wg,
                      metrics>>
      BY <1>2, Frames DEF SubmitPassCircuit, SubmitRejectStopped, SubmitRLock
    <2>2. submit \in [Requests ->
               {"new", "admitted", "sending", "accepted"} \cup Refused]
      OBVIOUS
    <2>3. PICK s \in {"admitted", "stopped", "sending"} : submit' = [submit EXCEPT ![r] = s]
      BY <1>2 DEF SubmitPassCircuit, SubmitRejectStopped, SubmitRLock
    <2>4. submit' \in [Requests ->
               {"new", "admitted", "sending", "accepted"} \cup Refused]
      <3> HIDE DEF IndInv, TypeOK
      <3>1. QED BY <2>2, <2>3
    <2>5. QED BY <2>1, <2>4
  <1>3. CASE SubmitEnqueue(r)
    <2>1. QueueCap \in Nat
      BY SizesAssumption
    <2>2. queue' \in Seq(Requests) /\ Len(queue') <= QueueCap
      BY <1>3, <2>1, RangeOfAppend DEF SubmitEnqueue
    <2>3. QED BY <1>3, <2>2, Frames DEF SubmitEnqueue
  <1>4. CASE SubmitRejectFull(r)
    BY <1>4, Frames, CountType DEF SubmitRejectFull
  <1>5. QED BY <1>1, <1>2, <1>3, <1>4 DEF Submit

LEMMA LoopType ==
    ASSUME IndInv, LoopStep PROVE TypeOK'
  <1> USE DEF IndInv, TypeOK
  <1>0. QueueCap \in Nat \ {0} /\ MaxBatchSize \in Nat \ {0}
    BY SizesAssumption
  <1>1. CASE LoopStart \/ LoopPeek \/ CollectReturn \/ LoopIdle \/ DrainDone
    <2>1. UNCHANGED <<circuitOpen, ctx, submit, queue, batch, flush, todo, waiting,
                      body, cause, results, stopped, stopClosed, stop, metrics>>
      BY <1>1, Frames DEF LoopStart, LoopPeek, CollectReturn, LoopIdle, DrainDone,
         loopVars, flushVars
    <2>2. /\ loop' \in {"init", "peek", "collect", "collected", "drain", "exited"}
          /\ tracker' \in {"none", "running", "done"} /\ wg' \in Int
      <3>1. CASE LoopStart
        BY <3>1 DEF LoopStart
      <3>2. CASE ~LoopStart
        BY <1>1, <3>2 DEF LoopPeek, CollectReturn, LoopIdle, DrainDone
      <3>3. QED BY <3>1, <3>2
    <2>3. QED BY <2>1, <2>2
  <1>2. CASE CollectTake
    <2>1. Head(queue) \in Requests /\ Tail(queue) \in Seq(Requests)
      BY <1>2, RangeOfTail DEF CollectTake
    <2>4. Len(Tail(queue)) <= QueueCap
      BY <1>2, <1>0 DEF CollectTake
    <2>2. /\ Append(batch, Head(queue)) \in Seq(Requests)
          /\ Len(Append(batch, Head(queue))) <= MaxBatchSize
      BY <1>2, <1>0, <2>1, RangeOfAppend DEF CollectTake, LoopShape
    <2>3. QED
      <3>1. /\ queue' \in Seq(Requests) /\ Len(queue') <= QueueCap
            /\ batch' \in Seq(Requests) /\ Len(batch') <= MaxBatchSize
            /\ loop' \in {"collect", "collected"}
        BY <1>2, <2>1, <2>2, <2>4 DEF CollectTake
      <3>2. UNCHANGED <<circuitOpen, ctx, submit, flush, todo, waiting, body,
                cause, results, stopped, stopClosed, stop, tracker, wg, metrics>>
        BY <1>2, Frames DEF CollectTake, flushVars
      <3>3. QED BY <3>1, <3>2
  <1>3. CASE LoopFlush
    <2>1. Head(batch) \in Requests
      BY <1>3, RangeOfTail DEF LoopFlush
    <2>2. <<>> \in Seq(Requests) /\ Len(<<>>) <= MaxBatchSize
      BY <1>0
    <2>3. QED BY <1>3, <2>1, <2>2, Frames DEF LoopFlush
  <1>4. CASE DrainOne
    <2>1. /\ Head(queue) \in Requests
          /\ Tail(queue) \in Seq(Requests)
          /\ results[Head(queue)] = <<>>
      BY <1>4, RangeOfTail DEF DrainOne, HeldIsPending, Pending
    <2>2. "stopped" \in ResultKinds
      BY DEF ResultKinds
    <2>3. failRequest(Head(queue), "stopped")
      BY <1>4 DEF DrainOne
    <2>4. results' \in [Requests -> Seq(Result)] /\ metrics' \in [Metric -> Int]
      BY <2>1, <2>2, <2>3, FailAnswers
    <2>5. Len(Tail(queue)) <= QueueCap
      BY <1>4, <1>0 DEF DrainOne
    <2>6. /\ queue' = Tail(queue)
          /\ UNCHANGED <<circuitOpen, ctx, submit, loop, batch, flush, todo,
                waiting, body, cause, stopped, stopClosed, stop, tracker, wg>>
      BY <1>4, Frames DEF DrainOne, loopVars, flushVars
    <2>7. QED
      BY <2>1, <2>4, <2>5, <2>6
  <1>5. QED BY <1>1, <1>2, <1>3, <1>4 DEF LoopStep

\* A request that a flush holds is a request without a Result.
LEMMA HeldTodo ==
    ASSUME IndInv, NEW l \in Requests, todo[l] # <<>>
    PROVE  /\ Head(todo[l]) \in Requests
           /\ Pending(Head(todo[l]))
           /\ Tail(todo[l]) \in Seq(Requests)
           /\ Head(todo[l]) \in Range(todo[l])
           /\ Range(Tail(todo[l])) = Range(todo[l]) \ {Head(todo[l])}
           /\ IsInjective(Tail(todo[l]))
  <1>1. todo[l] \in Seq(Requests) /\ IsInjective(todo[l])
    BY DEF IndInv, TypeOK, HeldOnce
  <1>2. \A r \in Range(todo[l]) : Pending(r)
    BY DEF IndInv, HeldIsPending, Held
  <1>3. QED BY <1>1, <1>2, RangeOfTail

LEMMA HeldWaiting ==
    ASSUME IndInv, NEW l \in Requests, waiting[l] # <<>>
    PROVE  /\ Head(waiting[l]) \in Requests
           /\ Pending(Head(waiting[l]))
           /\ Tail(waiting[l]) \in Seq(Requests)
           /\ Head(waiting[l]) \in Range(waiting[l])
           /\ Range(Tail(waiting[l])) = Range(waiting[l]) \ {Head(waiting[l])}
           /\ IsInjective(Tail(waiting[l]))
  <1>1. waiting[l] \in Seq(Requests) /\ IsInjective(waiting[l])
    BY DEF IndInv, TypeOK, HeldOnce
  <1>2. \A r \in Range(waiting[l]) : Pending(r)
    BY DEF IndInv, HeldIsPending, Held
  <1>3. QED BY <1>1, <1>2, RangeOfTail

LEMMA HeldWaitingAt ==
    ASSUME IndInv, NEW l \in Requests, NEW i \in DOMAIN waiting[l]
    PROVE  /\ waiting[l][i] \in Requests
           /\ Pending(waiting[l][i])
           /\ Without(waiting[l], i) \in Seq(Requests)
           /\ waiting[l][i] \in Range(waiting[l])
           /\ Range(Without(waiting[l], i)) = Range(waiting[l]) \ {waiting[l][i]}
           /\ IsInjective(Without(waiting[l], i))
  <1>1. waiting[l] \in Seq(Requests) /\ IsInjective(waiting[l])
    BY DEF IndInv, TypeOK, HeldOnce
  <1>2. \A r \in Range(waiting[l]) : Pending(r)
    BY DEF IndInv, HeldIsPending, Held
  <1>3. QED BY <1>1, <1>2, RangeOfWithout

LEMMA FlushType ==
    ASSUME IndInv, NEW l \in Requests, FlushStep(l) PROVE TypeOK'
  <1> USE DEF IndInv
  <1>0. /\ \A r \in Requests : todo[r] \in Seq(Requests)
        /\ \A r \in Requests : waiting[r] \in Seq(Requests)
        /\ \A r \in Requests : body[r] \in Seq(Requests)
        /\ metrics \in [Metric -> Int]
        /\ results \in [Requests -> Seq(Result)]
        /\ cause[l] \in {"none", "unavailable", "invalid"}
    BY DEF TypeOK
  <1>k. /\ "batchSizeSum" \in Metric /\ "inferErrors" \in Metric
        /\ "inferSuccess" \in Metric
        /\ {"ok", "itemError", "missing", "unavailable", "invalid"} \subseteq ResultKinds
        /\ CtxErrs \subseteq ResultKinds
    BY DEF Metric, ResultKinds
  <1>f. /\ UNCHANGED <<circuitOpen, ctx, submit, queue, loop, batch, stopped,
                       stopClosed, tracker>>
        /\ ~FlushReturn(l) => UNCHANGED stop
    BY Frames DEF FlushStep, FlushDropCancelled, FlushKeep, FlushBuildFails,
       FlushPost, FlushNoResponse, FlushDecoded, FlushMatch, FlushUnknown,
       FlushMissing, FlushFail, FlushReturn
  <1>s. stop' \in [Stoppers -> StopStates]
    <2>1. stop \in [Stoppers -> StopStates]
      BY DEF TypeOK
    <2>2. CASE FlushReturn(l)
      BY <2>1, <2>2, DoneStops DEF FlushReturn
    <2>3. QED BY <1>f, <2>1, <2>2
  <1>1. CASE FlushDropCancelled(l)
    <2>1. Head(todo[l]) \in Requests /\ results[Head(todo[l])] = <<>>
          /\ Tail(todo[l]) \in Seq(Requests)
      BY <1>1, HeldTodo DEF FlushDropCancelled, Pending
    <2>2. ctx[Head(todo[l])] \in ResultKinds
      BY <1>1, <1>k, <2>1 DEF FlushDropCancelled, TypeOK
    <2>3. failRequest(Head(todo[l]), ctx[Head(todo[l])])
      BY <1>1 DEF FlushDropCancelled
    <2>4. results' \in [Requests -> Seq(Result)] /\ metrics' \in [Metric -> Int]
      BY <2>1, <2>2, <2>3, FailAnswers
    <2>5. QED BY <1>1, <1>f, <1>s, <2>1, <2>4 DEF FlushDropCancelled, TypeOK
  <1>2. CASE FlushKeep(l)
    <2>1. Head(todo[l]) \in Requests /\ Tail(todo[l]) \in Seq(Requests)
      BY <1>2, HeldTodo DEF FlushKeep
    <2>2. Append(waiting[l], Head(todo[l])) \in Seq(Requests)
      BY <1>0, <2>1
    <2>3. QED BY <1>2, <1>f, <1>s, <2>1, <2>2 DEF FlushKeep, TypeOK
  <1>3. CASE FlushBuildFails(l) \/ FlushPost(l)
    BY <1>3, <1>f, <1>s DEF FlushBuildFails, FlushPost, TypeOK
  <1>4. CASE FlushNoResponse(l)
    <2>1. metrics' \in [Metric -> Int]
      BY <1>4, <1>0, <1>k, CountType DEF FlushNoResponse
    <2>2. PICK e \in {"unavailable", "invalid"} : cause' = [cause EXCEPT ![l] = e]
      BY <1>4 DEF FlushNoResponse
    <2>3. cause' \in [Requests -> {"none", "unavailable", "invalid"}]
      BY <2>2 DEF TypeOK
    <2>4. QED BY <1>4, <1>f, <1>s, <2>1, <2>3 DEF FlushNoResponse, TypeOK
  <1>5. CASE FlushDecoded(l)
    <2>1. metrics' \in [Metric -> Int]
      BY <1>5, <1>0, <1>k, CountType DEF FlushDecoded
    <2>2. ASSUME NEW items \in Responses(waiting[l]) PROVE items \in Seq(Requests)
      BY <1>0, BackendAssumption DEF Responses
    <2>3. PICK items \in Responses(waiting[l]) : body' = [body EXCEPT ![l] = items]
      BY <1>5 DEF FlushDecoded
    <2>4. body' \in [Requests -> Seq(Requests)]
      BY <2>2, <2>3 DEF TypeOK
    <2>5. QED BY <1>5, <1>f, <1>s, <2>1, <2>4 DEF FlushDecoded, TypeOK
  <1>6. CASE FlushMatch(l)
    <2>1. Head(body[l]) \in Requests /\ Tail(body[l]) \in Seq(Requests)
      BY <1>6, <1>0, RangeOfTail DEF FlushMatch
    <2>2. PICK i \in DOMAIN waiting[l] :
             /\ \/ Send(waiting[l][i], "itemError", Head(body[l]))
                   /\ Count("inferErrors", 1)
                \/ Send(waiting[l][i], "ok", Head(body[l]))
                   /\ Count("inferSuccess", 1)
             /\ waiting' = [waiting EXCEPT ![l] = Without(waiting[l], i)]
      BY <1>6 DEF FlushMatch
    <2>3. /\ waiting[l][i] \in Requests /\ results[waiting[l][i]] = <<>>
          /\ Without(waiting[l], i) \in Seq(Requests)
      BY HeldWaitingAt DEF Pending
    <2>4. results' \in [Requests -> Seq(Result)]
      BY <1>0, <1>k, <2>1, <2>2, <2>3, SendAnswers
    <2>5. metrics' \in [Metric -> Int]
      BY <1>0, <1>k, <2>2, CountType
    <2>6. QED BY <1>6, <1>f, <1>s, <2>1, <2>2, <2>3, <2>4, <2>5 DEF FlushMatch, TypeOK
  <1>7. CASE FlushUnknown(l)
    <2>1. Tail(body[l]) \in Seq(Requests)
      BY <1>7, <1>0, RangeOfTail DEF FlushUnknown
    <2>2. QED BY <1>7, <1>f, <1>s, <2>1 DEF FlushUnknown, TypeOK
  <1>8. CASE FlushMissing(l)
    <2>1. PICK i \in DOMAIN waiting[l] :
             /\ failRequest(waiting[l][i], "missing")
             /\ waiting' = [waiting EXCEPT ![l] = Without(waiting[l], i)]
      BY <1>8 DEF FlushMissing
    <2>2. /\ waiting[l][i] \in Requests /\ results[waiting[l][i]] = <<>>
          /\ Without(waiting[l], i) \in Seq(Requests)
      BY HeldWaitingAt DEF Pending
    <2>3. results' \in [Requests -> Seq(Result)] /\ metrics' \in [Metric -> Int]
      BY <1>k, <2>1, <2>2, FailAnswers
    <2>4. QED BY <1>8, <1>f, <1>s, <2>1, <2>2, <2>3 DEF FlushMissing, TypeOK
  <1>9. CASE FlushFail(l)
    <2>1. Head(waiting[l]) \in Requests /\ results[Head(waiting[l])] = <<>>
          /\ Tail(waiting[l]) \in Seq(Requests)
      BY <1>9, HeldWaiting DEF FlushFail, Pending
    <2>2. cause[l] \in ResultKinds
      BY <1>9, <1>0, <1>k DEF FlushFail, FlushShape
    <2>3. failRequest(Head(waiting[l]), cause[l])
      BY <1>9 DEF FlushFail
    <2>4. results' \in [Requests -> Seq(Result)] /\ metrics' \in [Metric -> Int]
      BY <2>1, <2>2, <2>3, FailAnswers
    <2>5. QED BY <1>9, <1>f, <1>s, <2>1, <2>4 DEF FlushFail, TypeOK
  <1>10. CASE FlushReturn(l)
    BY <1>10, <1>f, <1>s, <1>0 DEF FlushReturn, Done, TypeOK
  <1>11. QED
    BY <1>1, <1>2, <1>3, <1>4, <1>5, <1>6, <1>7, <1>8, <1>9, <1>10 DEF FlushStep

LEMMA TypeStep == IndInv /\ [Next]_vars => TypeOK'
  <1> SUFFICES ASSUME IndInv, [Next]_vars PROVE TypeOK'
    OBVIOUS
  <1>0. TypeOK
    BY DEF IndInv
  <1>1. CASE GuardFlip
    BY <1>0, <1>1 DEF GuardFlip, TypeOK, loopVars, flushVars, stopVars
  <1>2. CASE TrackerExit
    <2>1. stop' \in [Stoppers -> StopStates]
      BY <1>0, <1>2, DoneStops DEF TrackerExit, TypeOK
    <2>2. QED
      BY <1>0, <1>2, <2>1, Frames DEF TrackerExit, Done, TypeOK, envVars,
         loopVars, flushVars
  <1>3. ASSUME NEW r \in Requests, CancelCtx(r) PROVE TypeOK'
    BY <1>0, <1>3 DEF CancelCtx, TypeOK, loopVars, flushVars, stopVars
  <1>4. ASSUME NEW s \in Stoppers, StopStep(s) PROVE TypeOK'
    <2>1. UNCHANGED <<circuitOpen, ctx, submit, queue, loop, batch, flush, todo,
                      waiting, body, cause, results, tracker, wg, metrics>>
      BY <1>4, Frames DEF StopStep, StopEnter, StopSkip, StopMark, StopClose,
         StopReturn, StopPanics
    <2>2. stop' \in [Stoppers -> StopStates]
      BY <1>0, <1>4 DEF StopStep, StopEnter, StopSkip, StopMark, StopClose,
         StopReturn, StopPanics, TypeOK, StopStates
    <2>3. stopped' \in BOOLEAN /\ stopClosed' \in BOOLEAN
      BY <1>0, <1>4 DEF StopStep, StopEnter, StopSkip, StopMark, StopClose,
         StopReturn, StopPanics, TypeOK
    <2>4. QED BY <1>0, <2>1, <2>2, <2>3 DEF TypeOK
  <1>5. CASE UNCHANGED vars
    BY <1>0, <1>5 DEF vars, TypeOK
  <1>6. QED
    BY <1>1, <1>2, <1>3, <1>4, <1>5, SubmitType, LoopType, FlushType DEF Next, Run

----------------------------------------------------------------------------
(* Who holds a request *)

\* The part of the invariant that speaks of the holders of requests.
Holders == /\ AtMostOneResult /\ NoRequestStranded
           /\ HeldOnce /\ HeldIsPending /\ FlushShape

LEMMA RangeOfEmpty == Range(<<>>) = {} /\ IsInjective(<<>>)
  BY DEF Range, IsInjective

\* Only requests are held.
LEMMA HeldAreRequests ==
    ASSUME IndInv
    PROVE  /\ \A r \in Range(queue) \cup Range(batch) : r \in Requests
           /\ \A l \in Requests : \A r \in Held(l) : r \in Requests
  <1>1. \A r \in Range(queue) \cup Range(batch) : r \in Requests
    BY DEF IndInv, TypeOK, Range
  <1>2. \A l \in Requests : \A r \in Held(l) : r \in Requests
    BY DEF IndInv, TypeOK, Held, Range
  <1>3. QED BY <1>1, <1>2

\* A step that moves nothing keeps the holders, provided the loop does not
\* leave with something in its hands.
LEMMA HoldersFrame ==
    ASSUME IndInv,
           UNCHANGED <<queue, batch, flush, todo, waiting, cause, results>>,
           \A r \in Requests : submit'[r] = "accepted" <=> submit[r] = "accepted",
           loop' = "exited" => loop = "exited" \/ queue = <<>>,
           loop' \notin {"collect", "collected"} => batch = <<>>
    PROVE  Holders'
  <1>1. Range(<<>>) = {}
    BY RangeOfEmpty
  <1>2. \A r \in Requests : Pending(r)' <=> Pending(r)
    BY DEF Pending
  <1>3. \A l \in Requests : Held(l)' = Held(l)
    BY DEF Held
  <1>4. \A r \in Range(queue) \cup Range(batch) : r \in Requests
    BY HeldAreRequests
  <1>5. \A l \in Requests : \A r \in Held(l) : r \in Requests
    BY HeldAreRequests
  <1>6. AtMostOneResult' /\ HeldOnce' /\ FlushShape'
    BY <1>2, <1>3 DEF IndInv, AtMostOneResult, HeldOnce, FlushShape
  <1>7. HeldIsPending'
    BY <1>2, <1>3, <1>4, <1>5 DEF IndInv, HeldIsPending
  <1>8. NoRequestStranded'
    <2>1. Active' = Active
      BY DEF Active
    <2>2. SUFFICES ASSUME NEW r \in Requests, Pending(r)
                   PROVE  \/ r \in Range(queue) /\ loop' # "exited"
                          \/ r \in Range(batch) /\ loop' \in {"collect", "collected"}
                          \/ \E l \in Active : r \in Held(l)
      BY <1>2, <1>3, <2>1 DEF NoRequestStranded, Active
    <2>3. \/ r \in Range(queue) /\ loop # "exited"
          \/ r \in Range(batch) /\ loop \in {"collect", "collected"}
          \/ \E l \in Active : r \in Held(l)
      BY <2>2 DEF IndInv, NoRequestStranded
    <2>4. QED BY <2>3, <1>1
  <1>9. QED BY <1>6, <1>7, <1>8 DEF Holders

\* A step of the flush l that answers the requests in A, which it held, and
\* holds the others still.
LEMMA FlushHolders ==
    ASSUME IndInv, NEW l \in Requests, flush[l] # "none",
           NEW A \in SUBSET Held(l),
           UNCHANGED <<submit, queue, loop, batch>>,
           Held(l)' = Held(l) \ A,
           Range(todo'[l]) \cap Range(waiting'[l]) = {},
           IsInjective(todo'[l]), IsInjective(waiting'[l]),
           \A m \in Requests \ {l} :
               /\ todo'[m] = todo[m] /\ waiting'[m] = waiting[m]
               /\ flush'[m] = flush[m] /\ cause'[m] = cause[m],
           flush'[l] # "none", flush'[l] = "done" => Held(l)' = {},
           flush'[l] = "fail" => cause'[l] # "none",
           \A r \in A : Len(results'[r]) = 1 /\ results'[r] # <<>>,
           \A r \in Requests \ A : results'[r] = results[r]
    PROVE  Holders'
  <1>1. \A m \in Requests : Held(m) \subseteq Requests
    BY HeldAreRequests
  <1>2. \A m \in Requests \ {l} : Held(m)' = Held(m)
    BY DEF Held
  <1>3. \A r \in A : r \in Requests /\ Pending(r)
    BY <1>1 DEF IndInv, HeldIsPending
  <1>4. \A r \in Requests : Pending(r)' <=> Pending(r) /\ r \notin A
    BY <1>3 DEF Pending
  <1>5. AtMostOneResult'
    <2>1. AtMostOneResult
      BY DEF IndInv
    <2>2. SUFFICES ASSUME NEW r \in Requests
                   PROVE  /\ Len(results'[r]) <= 1
                          /\ results'[r] # <<>> => submit[r] = "accepted"
      BY DEF AtMostOneResult
    <2>3. CASE r \in A
      <3>1. submit[r] = "accepted"
        BY <2>3, <1>3 DEF Pending
      <3>2. Len(results'[r]) = 1
        BY <2>3
      <3>3. QED BY <3>1, <3>2
    <2>4. CASE r \notin A
      BY <2>1, <2>4 DEF AtMostOneResult
    <2>5. QED BY <2>3, <2>4
  <1>6. HeldOnce'
    <2>1. HeldOnce
      BY DEF IndInv
    <2>2. \A m \in Requests : Held(m)' \subseteq Held(m)
      BY <1>2
    <2>3. \A m \in Requests :
            /\ IsInjective(todo'[m]) /\ IsInjective(waiting'[m])
            /\ Range(todo'[m]) \cap Range(waiting'[m]) = {}
      BY <2>1 DEF HeldOnce
    <2>4. \A m \in Requests : /\ Range(queue) \cap Held(m)' = {}
                              /\ Range(batch) \cap Held(m)' = {}
      BY <2>1, <2>2 DEF HeldOnce
    <2>5. \A m, n \in Requests : m # n => Held(m)' \cap Held(n)' = {}
      BY <2>1, <2>2 DEF HeldOnce
    <2>6. QED BY <2>1, <2>3, <2>4, <2>5 DEF HeldOnce
  <1>7. HeldIsPending'
    <2>1. /\ Range(queue) \cap A = {} /\ Range(batch) \cap A = {}
          /\ \A m \in Requests \ {l} : Held(m) \cap A = {}
      BY DEF IndInv, HeldOnce
    <2>2. \A r \in Range(queue) \cup Range(batch) : r \in Requests
      BY HeldAreRequests
    <2>3. \A r \in Range(queue) \cup Range(batch) : Pending(r)'
      BY <2>1, <2>2, <1>4 DEF IndInv, HeldIsPending
    <2>4. ASSUME NEW m \in Requests, NEW r \in Held(m)' PROVE Pending(r)'
      <3>1. r \in Held(m) /\ r \notin A /\ r \in Requests
        BY <2>1, <2>4, <1>1, <1>2
      <3>2. QED BY <3>1, <1>4 DEF IndInv, HeldIsPending
    <2>5. QED BY <2>3, <2>4 DEF HeldIsPending
  <1>8. FlushShape'
    <2>1. FlushShape
      BY DEF IndInv
    <2>2. ASSUME NEW m \in Requests \ {l}
          PROVE  m \in Held(m) \/ results[m] # <<>>
                     => m \in Held(m)' \/ results'[m] # <<>>
      BY <1>2, <1>3
    <2>3. flush[l] # "none" => l \in Held(l)' \/ results'[l] # <<>>
      BY <2>1, <1>3 DEF FlushShape
    <2>4. QED BY <2>1, <2>2, <2>3, <1>2 DEF FlushShape
  <1>9. NoRequestStranded'
    <2>1. SUFFICES ASSUME NEW r \in Requests, Pending(r), r \notin A
                   PROVE  \/ r \in Range(queue) /\ loop # "exited"
                          \/ r \in Range(batch) /\ loop \in {"collect", "collected"}
                          \/ \E m \in Active' : r \in Held(m)'
      BY <1>4 DEF NoRequestStranded
    <2>2. ASSUME NEW m \in Active, r \in Held(m)
          PROVE  m \in Active' /\ r \in Held(m)'
      BY <2>1, <2>2, <1>2 DEF Active
    <2>3. QED BY <2>1, <2>2 DEF IndInv, NoRequestStranded
  <1>10. QED BY <1>5, <1>6, <1>7, <1>8, <1>9 DEF Holders

\* Submit puts a request that nobody holds into the queue, and only while the
\* loop has not exited: it holds the read lock, so stopped is not set.
LEMMA SubmitHolders ==
    ASSUME IndInv, NEW r \in Requests, Submit(r) PROVE Holders'
  <1>1. CASE SubmitEnqueue(r)
    <2>1. /\ submit[r] = "sending" /\ queue' = Append(queue, r)
          /\ submit' = [submit EXCEPT ![r] = "accepted"]
          /\ UNCHANGED <<loop, batch, flush, todo, waiting, cause, results>>
      BY <1>1, Frames DEF SubmitEnqueue
    <2>2. /\ submit'[r] = "accepted"
          /\ \A x \in Requests \ {r} : submit'[x] = submit[x]
      BY <2>1 DEF IndInv, TypeOK
    <2>3. results[r] = <<>> /\ ~Pending(r)
      BY <2>1 DEF IndInv, AtMostOneResult, Pending
    <2>4. /\ r \notin Range(queue) /\ r \notin Range(batch)
          /\ \A l \in Requests : r \notin Held(l)
      BY <2>3 DEF IndInv, HeldIsPending
    <2>5. Range(queue') = Range(queue) \cup {r} /\ IsInjective(queue')
      BY <2>1, <2>4, RangeOfAppend DEF IndInv, TypeOK, HeldOnce
    <2>6. \A x \in Requests : Pending(x)' <=> Pending(x) \/ x = r
      BY <2>1, <2>2, <2>3 DEF Pending
    <2>7. \A l \in Requests : Held(l)' = Held(l)
      BY <2>1 DEF Held
    <2>8. loop # "exited"
      BY <2>1 DEF IndInv, LoopShape, LockShape, Readers
    <2>9. AtMostOneResult'
      BY <2>1, <2>2 DEF IndInv, AtMostOneResult
    <2>10. HeldOnce'
      BY <2>1, <2>4, <2>5, <2>7 DEF IndInv, HeldOnce
    <2>11. HeldIsPending'
      BY <2>1, <2>5, <2>6, <2>7, HeldAreRequests DEF IndInv, HeldIsPending
    <2>12. FlushShape'
      BY <2>1, <2>7 DEF IndInv, FlushShape
    <2>13. NoRequestStranded'
      BY <2>1, <2>5, <2>6, <2>7, <2>8 DEF IndInv, NoRequestStranded, Active
    <2>14. QED BY <2>9, <2>10, <2>11, <2>12, <2>13 DEF Holders
  <1>2. CASE ~SubmitEnqueue(r)
    <2>1. UNCHANGED <<queue, loop, batch, flush, todo, waiting, cause, results>>
      BY <1>2, Frames DEF Submit, SubmitRejectOpen, SubmitPassCircuit,
         SubmitRejectStopped, SubmitRLock, SubmitRejectFull
    <2>2. \A x \in Requests : submit'[x] = "accepted" <=> submit[x] = "accepted"
      BY <1>2 DEF Submit, SubmitRejectOpen, SubmitPassCircuit,
         SubmitRejectStopped, SubmitRLock, SubmitRejectFull, IndInv, TypeOK
    <2>3. QED BY <2>1, <2>2, HoldersFrame DEF IndInv, LoopShape
  <1>3. QED BY <1>1, <1>2

\* collectBatch moves the head of the queue to the batch.
LEMMA CollectHolders ==
    ASSUME IndInv, CollectTake PROVE Holders'
  <1> DEFINE r == Head(queue)
  <1>1. /\ queue # <<>> /\ queue' = Tail(queue) /\ batch' = Append(batch, r)
        /\ loop = "collect" /\ loop' \in {"collect", "collected"}
        /\ UNCHANGED <<submit, flush, todo, waiting, cause, results>>
    BY Frames DEF CollectTake, flushVars
  <1>2. /\ r \in Requests /\ r \in Range(queue) /\ r \notin Range(queue')
        /\ Range(queue) = {r} \cup Range(queue') /\ IsInjective(queue')
    BY <1>1, RangeOfTail DEF IndInv, TypeOK, HeldOnce
  <1> HIDE DEF r
  <1>3. Range(batch') = Range(batch) \cup {r} /\ IsInjective(batch')
    BY <1>1, <1>2, RangeOfAppend DEF IndInv, TypeOK, HeldOnce
  <1>4. \A x \in Requests : Pending(x)' <=> Pending(x)
    BY <1>1 DEF Pending
  <1>5. \A l \in Requests : Held(l)' = Held(l)
    BY <1>1 DEF Held
  <1>6. AtMostOneResult' /\ FlushShape'
    BY <1>1, <1>5 DEF IndInv, AtMostOneResult, FlushShape
  <1>7. HeldOnce'
    <2>1. HeldOnce
      BY DEF IndInv
    <2>2. /\ IsInjective(queue') /\ IsInjective(batch')
          /\ Range(queue') \cap Range(batch') = {}
      BY <2>1, <1>2, <1>3 DEF HeldOnce
    <2>3. \A l \in Requests : /\ Range(queue') \cap Held(l) = {}
                              /\ Range(batch') \cap Held(l) = {}
      BY <2>1, <1>2, <1>3 DEF HeldOnce
    <2>4. QED BY <2>1, <2>2, <2>3, <1>1, <1>5 DEF HeldOnce
  <1>8. HeldIsPending'
    BY <1>2, <1>3, <1>4, <1>5, HeldAreRequests DEF IndInv, HeldIsPending
  <1>9. NoRequestStranded'
    BY <1>1, <1>2, <1>3, <1>4, <1>5 DEF IndInv, NoRequestStranded, Active
  <1>10. QED BY <1>6, <1>7, <1>8, <1>9 DEF Holders

\* The loop hands the batch to a new flush, whose name has not been used.
LEMMA LaunchHolders ==
    ASSUME IndInv, LoopFlush PROVE Holders'
  <1>0. PICK h : h = Head(batch)
    OBVIOUS
  <1>1. /\ batch # <<>> /\ batch' = <<>> /\ loop' = "peek"
        /\ flush' = [flush EXCEPT ![h] = "filter"]
        /\ todo' = [todo EXCEPT ![h] = batch]
        /\ loop = "collected"
        /\ UNCHANGED <<submit, queue, waiting, cause, results>>
    BY <1>0, Frames DEF LoopFlush
  <1>2. h \in Requests /\ h \in Range(batch)
    BY <1>0, <1>1, RangeOfTail DEF IndInv, TypeOK
  <1>3. Pending(h) /\ results[h] = <<>>
    BY <1>2 DEF IndInv, HeldIsPending, Pending
  <1>4. flush[h] = "none" /\ Held(h) = {}
    BY <1>2, <1>3 DEF IndInv, FlushShape, HeldOnce
  <1>5. todo'[h] = batch /\ flush'[h] = "filter"
        /\ \A m \in Requests \ {h} : todo'[m] = todo[m] /\ flush'[m] = flush[m]
    BY <1>1, <1>2 DEF IndInv, TypeOK
  <1>6. Held(h)' = Range(batch) /\ Range(waiting[h]) = {}
        /\ \A m \in Requests \ {h} : Held(m)' = Held(m)
    <2>1. Range(waiting[h]) = {}
      BY <1>4 DEF Held
    <2>2. Held(h)' = Range(todo'[h]) \cup Range(waiting'[h])
      BY DEF Held
    <2>3. Held(h)' = Range(batch)
      BY <2>1, <2>2, <1>1, <1>5
    <2>4. ASSUME NEW m \in Requests \ {h} PROVE Held(m)' = Held(m)
      BY <1>1, <1>5 DEF Held
    <2>5. QED BY <2>1, <2>3, <2>4
  <1>7. Range(batch') = {} /\ IsInjective(batch')
    BY <1>1, RangeOfEmpty
  <1>8. \A x \in Requests : Pending(x)' <=> Pending(x)
    BY <1>1 DEF Pending
  <1>9. AtMostOneResult'
    BY <1>1 DEF IndInv, AtMostOneResult
  <1>10. FlushShape'
    <2>1. FlushShape
      BY DEF IndInv
    <2>2. h \in Held(h)'
      BY <1>2, <1>6
    <2>3. QED BY <2>1, <2>2, <1>1, <1>5, <1>6 DEF FlushShape
  <1>11. HeldOnce'
    <2>1. HeldOnce
      BY DEF IndInv
    <2>2. \A m \in Requests :
            /\ IsInjective(todo'[m]) /\ IsInjective(waiting'[m])
            /\ Range(todo'[m]) \cap Range(waiting'[m]) = {}
      BY <2>1, <1>1, <1>5, <1>6 DEF HeldOnce
    <2>0. \A m \in Requests : m # h => Held(m)' = Held(m)
      BY <1>6
    <2>3. ASSUME NEW m \in Requests PROVE Range(queue) \cap Held(m)' = {}
      <3>1. CASE m = h
        BY <3>1, <2>1, <1>6 DEF HeldOnce
      <3>2. CASE m # h
        BY <3>2, <2>0, <2>1 DEF HeldOnce
      <3>3. QED BY <3>1, <3>2
    <2>4. ASSUME NEW m \in Requests, NEW n \in Requests, m # n
          PROVE  Held(m)' \cap Held(n)' = {}
      <3>1. CASE m = h
        BY <3>1, <2>4, <2>0, <2>1, <1>6 DEF HeldOnce
      <3>2. CASE n = h
        BY <3>2, <2>4, <2>0, <2>1, <1>6 DEF HeldOnce
      <3>3. CASE m # h /\ n # h
        BY <3>3, <2>4, <2>0, <2>1 DEF HeldOnce
      <3>4. QED BY <3>1, <3>2, <3>3
    <2>5. QED BY <2>1, <2>2, <2>3, <2>4, <1>1, <1>7 DEF HeldOnce
  <1>12. HeldIsPending'
    <2>1. HeldIsPending
      BY DEF IndInv
    <2>2. \A r \in Range(queue) \cup Range(batch) : Pending(r)'
      BY <2>1, <1>8, HeldAreRequests DEF HeldIsPending
    <2>3. ASSUME NEW m \in Requests, NEW r \in Held(m)' PROVE Pending(r)'
      <3>1. CASE m = h
        BY <3>1, <2>2, <2>3, <1>6
      <3>2. CASE m # h
        <4>1. r \in Held(m) /\ r \in Requests
          BY <3>2, <2>3, <1>6, HeldAreRequests
        <4>2. QED BY <4>1, <2>1, <1>8 DEF HeldIsPending
      <3>3. QED BY <3>1, <3>2
    <2>4. QED BY <2>2, <2>3, <1>1, <1>7 DEF HeldIsPending
  <1>13. NoRequestStranded'
    <2>1. h \in Active' /\ Active \subseteq Active'
      BY <1>2, <1>5 DEF Active
    <2>2. h \notin Active
      BY <1>4 DEF Active
    <2>3. SUFFICES ASSUME NEW r \in Requests, Pending(r)
                   PROVE  \/ r \in Range(queue) /\ loop' # "exited"
                          \/ \E l \in Active' : r \in Held(l)'
      BY <1>1, <1>8 DEF NoRequestStranded
    <2>4. \/ r \in Range(queue)
          \/ r \in Range(batch)
          \/ \E l \in Active : r \in Held(l)
      BY <2>3 DEF IndInv, NoRequestStranded
    <2>5. CASE r \in Range(batch)
      BY <2>5, <2>1, <1>6
    <2>6. ASSUME NEW l \in Active, r \in Held(l)
          PROVE  l \in Active' /\ r \in Held(l)'
      BY <2>6, <2>1, <2>2, <1>6 DEF Active
    <2>7. QED BY <2>4, <2>5, <2>6, <1>1
  <1>14. QED BY <1>9, <1>10, <1>11, <1>12, <1>13 DEF Holders

\* The drain answers the head of the queue.
LEMMA DrainHolders ==
    ASSUME IndInv, DrainOne PROVE Holders'
  <1> DEFINE r == Head(queue)
  <1>1. /\ queue # <<>> /\ queue' = Tail(queue) /\ failRequest(r, "stopped")
        /\ UNCHANGED <<submit, loop, batch, flush, todo, waiting, cause>>
    BY Frames DEF DrainOne, loopVars, flushVars
  <1>2. /\ r \in Requests /\ r \in Range(queue) /\ r \notin Range(queue')
        /\ Range(queue) = {r} \cup Range(queue') /\ IsInjective(queue')
    BY <1>1, RangeOfTail DEF IndInv, TypeOK, HeldOnce
  <1> HIDE DEF r
  <1>3. Pending(r) /\ results[r] = <<>> /\ submit[r] = "accepted"
    BY <1>2 DEF IndInv, HeldIsPending, Pending
  <1>4. /\ Len(results'[r]) = 1 /\ results'[r] # <<>>
        /\ \A x \in Requests \ {r} : results'[x] = results[x]
    <2>1. "stopped" \in ResultKinds
      BY DEF ResultKinds
    <2>2. QED BY <2>1, <1>1, <1>2, <1>3, FailAnswers DEF IndInv
  <1>5. \A x \in Requests : Pending(x)' <=> Pending(x) /\ x # r
    BY <1>1, <1>4 DEF Pending
  <1>6. \A l \in Requests : Held(l)' = Held(l) /\ r \notin Held(l)
    BY <1>1, <1>2 DEF Held, IndInv, HeldOnce
  <1>7. AtMostOneResult'
    <2>1. SUFFICES ASSUME NEW x \in Requests
                   PROVE  /\ Len(results'[x]) <= 1
                          /\ results'[x] # <<>> => submit[x] = "accepted"
      BY <1>1 DEF AtMostOneResult
    <2>2. CASE x = r
      BY <2>2, <1>3, <1>4
    <2>3. CASE x # r
      BY <2>3, <1>4 DEF IndInv, AtMostOneResult
    <2>4. QED BY <2>2, <2>3
  <1>8. FlushShape'
    BY <1>1, <1>4, <1>6 DEF IndInv, FlushShape
  <1>9. HeldOnce'
    <2>1. HeldOnce
      BY DEF IndInv
    <2>2. /\ IsInjective(queue') /\ Range(queue') \cap Range(batch) = {}
          /\ \A l \in Requests : Range(queue') \cap Held(l) = {}
      BY <2>1, <1>2 DEF HeldOnce
    <2>3. QED BY <2>1, <2>2, <1>1, <1>6 DEF HeldOnce
  <1>10. HeldIsPending'
    <2>1. r \notin Range(batch)
      BY <1>2 DEF IndInv, HeldOnce
    <2>2. QED
      BY <2>1, <1>1, <1>2, <1>5, <1>6, HeldAreRequests DEF IndInv, HeldIsPending
  <1>11. NoRequestStranded'
    BY <1>1, <1>2, <1>5, <1>6 DEF IndInv, NoRequestStranded, Active
  <1>12. QED BY <1>7, <1>8, <1>9, <1>10, <1>11 DEF Holders

\* Every step of a flush moves requests as FlushHolders allows.
LEMMA FlushStepHolders ==
    ASSUME IndInv, NEW l \in Requests, FlushStep(l) PROVE Holders'
  <1>1. /\ todo[l] \in Seq(Requests) /\ waiting[l] \in Seq(Requests)
        /\ IsInjective(todo[l]) /\ IsInjective(waiting[l])
        /\ Range(todo[l]) \cap Range(waiting[l]) = {}
        /\ flush \in [Requests -> {"none", "filter", "http", "fail", "match", "done"}]
        /\ todo \in [Requests -> Seq(Requests)]
        /\ waiting \in [Requests -> Seq(Requests)]
        /\ cause \in [Requests -> {"none", "unavailable", "invalid"}]
    BY DEF IndInv, TypeOK, HeldOnce
  <1>2. UNCHANGED <<submit, queue, loop, batch>>
    BY Frames DEF FlushStep, FlushDropCancelled, FlushKeep, FlushBuildFails,
       FlushPost, FlushNoResponse, FlushDecoded, FlushMatch, FlushUnknown,
       FlushMissing, FlushFail, FlushReturn
  <1>3. /\ flush[l] = "fail" => cause[l] # "none"
        /\ {"ok", "itemError", "missing", "unavailable", "invalid"} \subseteq ResultKinds
        /\ CtxErrs \subseteq ResultKinds
    BY DEF IndInv, FlushShape, ResultKinds
  <1>4. CASE FlushDropCancelled(l)
    <2> DEFINE r == Head(todo[l])
    <2>1. /\ flush[l] = "filter" /\ failRequest(r, ctx[r]) /\ ctx[r] # "live"
          /\ todo[l] # <<>> /\ todo' = [todo EXCEPT ![l] = Tail(todo[l])]
          /\ UNCHANGED <<flush, waiting, cause>>
      BY <1>4 DEF FlushDropCancelled
    <2>2. /\ r \in Requests /\ results[r] = <<>> /\ r \in Range(todo[l])
          /\ Range(Tail(todo[l])) = Range(todo[l]) \ {r}
          /\ IsInjective(Tail(todo[l])) /\ ctx[r] \in ResultKinds
      BY <2>1, <1>3, HeldTodo DEF Pending, IndInv, TypeOK
    <2> HIDE DEF r
    <2>3. /\ Len(results'[r]) = 1 /\ results'[r] # <<>>
          /\ \A x \in Requests \ {r} : results'[x] = results[x]
      BY <2>1, <2>2, FailAnswers DEF IndInv
    <2>4. todo'[l] = Tail(todo[l])
          /\ \A m \in Requests \ {l} : todo'[m] = todo[m]
      BY <2>1, <1>1
    <2>5. {r} \in SUBSET Held(l) /\ Held(l)' = Held(l) \ {r}
      BY <2>1, <2>2, <2>4, <1>1 DEF Held
    <2>6. Range(todo'[l]) \cap Range(waiting'[l]) = {}
      BY <2>1, <2>2, <2>4, <1>1
    <2>7. QED
      BY <2>1, <2>2, <2>3, <2>4, <2>5, <2>6, <1>1, <1>2, <1>3, FlushHolders
  <1>5. CASE FlushKeep(l)
    <2> DEFINE r == Head(todo[l])
    <2>1. /\ flush[l] = "filter"
          /\ todo[l] # <<>> /\ todo' = [todo EXCEPT ![l] = Tail(todo[l])]
          /\ waiting' = [waiting EXCEPT ![l] = Append(waiting[l], r)]
          /\ UNCHANGED <<flush, cause, results>>
      BY <1>5 DEF FlushKeep
    <2>2. /\ r \in Requests /\ r \in Range(todo[l])
          /\ Range(Tail(todo[l])) = Range(todo[l]) \ {r}
          /\ IsInjective(Tail(todo[l]))
      BY <2>1, HeldTodo
    <2> HIDE DEF r
    <2>3. /\ todo'[l] = Tail(todo[l]) /\ waiting'[l] = Append(waiting[l], r)
          /\ \A m \in Requests \ {l} : todo'[m] = todo[m] /\ waiting'[m] = waiting[m]
      BY <2>1, <1>1
    <2>4. Range(waiting'[l]) = Range(waiting[l]) \cup {r} /\ IsInjective(waiting'[l])
      BY <2>2, <2>3, <1>1, RangeOfAppend
    <2>5. {} \in SUBSET Held(l) /\ Held(l)' = Held(l) \ {}
      BY <2>2, <2>3, <2>4 DEF Held
    <2>6. Range(todo'[l]) \cap Range(waiting'[l]) = {}
      BY <2>2, <2>3, <2>4, <1>1
    <2>7. QED
      BY <2>1, <2>2, <2>3, <2>4, <2>5, <2>6, <1>1, <1>2, <1>3, FlushHolders
  <1>6. CASE FlushBuildFails(l) \/ FlushPost(l) \/ FlushNoResponse(l)
             \/ FlushDecoded(l) \/ FlushUnknown(l) \/ FlushReturn(l)
    <2>1. /\ flush[l] # "none" /\ UNCHANGED <<todo, waiting, results>>
          /\ flush'[l] # "none"
          /\ flush'[l] = "done" => todo[l] = <<>> /\ waiting[l] = <<>>
      BY <1>6, <1>1 DEF FlushBuildFails, FlushPost, FlushNoResponse, FlushDecoded,
         FlushUnknown, FlushReturn
    <2>2. \A m \in Requests \ {l} : flush'[m] = flush[m] /\ cause'[m] = cause[m]
      BY <1>6, <1>1 DEF FlushBuildFails, FlushPost, FlushNoResponse, FlushDecoded,
         FlushUnknown, FlushReturn
    <2>3. flush'[l] = "fail" => cause'[l] # "none"
      BY <1>6, <1>1 DEF FlushBuildFails, FlushPost, FlushNoResponse, FlushDecoded,
         FlushUnknown, FlushReturn
    <2>4. {} \in SUBSET Held(l) /\ Held(l)' = Held(l) \ {}
      BY <2>1 DEF Held
    <2>5. flush'[l] = "done" => Held(l)' = {}
      BY <2>1, RangeOfEmpty DEF Held
    <2>6. QED BY <2>1, <2>2, <2>3, <2>4, <2>5, <1>1, <1>2, FlushHolders
  <1>7. CASE FlushMatch(l) \/ FlushMissing(l)
    <2>1. PICK i \in DOMAIN waiting[l] :
             /\ waiting' = [waiting EXCEPT ![l] = Without(waiting[l], i)]
             /\ \/ failRequest(waiting[l][i], "missing")
                \/ /\ body[l] # <<>>
                   /\ \/ Send(waiting[l][i], "itemError", Head(body[l]))
                      \/ Send(waiting[l][i], "ok", Head(body[l]))
      BY <1>7 DEF FlushMatch, FlushMissing
    <2>2. PICK r : r = waiting[l][i]
      OBVIOUS
    <2>3. /\ flush[l] = "match" /\ UNCHANGED <<flush, todo, cause>>
      BY <1>7 DEF FlushMatch, FlushMissing
    <2>4. /\ r \in Requests /\ results[r] = <<>> /\ r \in Range(waiting[l])
          /\ Range(Without(waiting[l], i)) = Range(waiting[l]) \ {r}
          /\ IsInjective(Without(waiting[l], i))
      BY <2>2, HeldWaitingAt DEF Pending
    <2>5. /\ Len(results'[r]) = 1 /\ results'[r] # <<>>
          /\ \A x \in Requests \ {r} : results'[x] = results[x]
      <3>1. CASE failRequest(waiting[l][i], "missing")
        BY <3>1, <2>2, <2>4, <1>3, FailAnswers DEF IndInv
      <3>2. CASE /\ body[l] # <<>>
                 /\ \/ Send(waiting[l][i], "itemError", Head(body[l]))
                    \/ Send(waiting[l][i], "ok", Head(body[l]))
        <4>1. Head(body[l]) \in Requests /\ results \in [Requests -> Seq(Result)]
          BY <3>2, RangeOfTail DEF IndInv, TypeOK
        <4>2. QED BY <3>2, <4>1, <2>2, <2>4, <1>3, SendAnswers
      <3>3. QED BY <3>1, <3>2, <2>1
    <2>6. waiting'[l] = Without(waiting[l], i)
          /\ \A m \in Requests \ {l} : waiting'[m] = waiting[m]
      BY <2>1, <1>1
    <2>7. {r} \in SUBSET Held(l) /\ Held(l)' = Held(l) \ {r}
      BY <2>3, <2>4, <2>6, <1>1 DEF Held
    <2>8. Range(todo'[l]) \cap Range(waiting'[l]) = {}
      BY <2>3, <2>4, <2>6, <1>1
    <2>9. QED
      BY <2>3, <2>4, <2>5, <2>6, <2>7, <2>8, <1>1, <1>2, <1>3, FlushHolders
  <1>8. CASE FlushFail(l)
    <2>1. PICK r : r = Head(waiting[l])
      OBVIOUS
    <2>2. /\ flush[l] = "fail" /\ failRequest(r, cause[l]) /\ waiting[l] # <<>>
          /\ waiting' = [waiting EXCEPT ![l] = Tail(waiting[l])]
          /\ UNCHANGED <<flush, todo, cause>>
      BY <2>1, <1>8 DEF FlushFail
    <2>3. /\ r \in Requests /\ results[r] = <<>> /\ r \in Range(waiting[l])
          /\ Range(Tail(waiting[l])) = Range(waiting[l]) \ {r}
          /\ IsInjective(Tail(waiting[l]))
      BY <2>1, <2>2, HeldWaiting DEF Pending
    <2>4. cause[l] \in ResultKinds
      BY <2>2, <1>1, <1>3
    <2>5. /\ Len(results'[r]) = 1 /\ results'[r] # <<>>
          /\ \A x \in Requests \ {r} : results'[x] = results[x]
      BY <2>2, <2>3, <2>4, FailAnswers DEF IndInv
    <2>6. waiting'[l] = Tail(waiting[l])
          /\ \A m \in Requests \ {l} : waiting'[m] = waiting[m]
      BY <2>2, <1>1
    <2>7. {r} \in SUBSET Held(l) /\ Held(l)' = Held(l) \ {r}
      BY <2>2, <2>3, <2>6, <1>1 DEF Held
    <2>8. Range(todo'[l]) \cap Range(waiting'[l]) = {}
      BY <2>2, <2>3, <2>6, <1>1
    <2>9. /\ flush'[l] # "none" /\ flush'[l] # "done" /\ cause'[l] # "none"
          /\ \A m \in Requests \ {l} : flush'[m] = flush[m] /\ cause'[m] = cause[m]
          /\ \A m \in Requests \ {l} : todo'[m] = todo[m]
          /\ IsInjective(todo'[l]) /\ IsInjective(waiting'[l])
      BY <2>2, <2>3, <2>6, <1>1, <1>3
    <2>10. QED
      BY <2>2, <2>5, <2>6, <2>7, <2>8, <2>9, <1>2, FlushHolders
  <1>9. QED BY <1>4, <1>5, <1>6, <1>7, <1>8 DEF FlushStep

LEMMA HoldersStep == IndInv /\ [Next]_vars => Holders'
  <1> SUFFICES ASSUME IndInv, [Next]_vars PROVE Holders'
    OBVIOUS
  <1>0. loop \notin {"collect", "collected"} => batch = <<>>
    BY DEF IndInv, LoopShape
  <1>1. CASE GuardFlip
    BY <1>0, <1>1, HoldersFrame DEF GuardFlip, loopVars, flushVars
  <1>2. CASE TrackerExit
    BY <1>0, <1>2, HoldersFrame DEF TrackerExit, loopVars, flushVars
  <1>3. ASSUME NEW r \in Requests, CancelCtx(r) PROVE Holders'
    BY <1>0, <1>3, HoldersFrame DEF CancelCtx, loopVars, flushVars
  <1>4. ASSUME NEW s \in Stoppers, StopStep(s) PROVE Holders'
    BY <1>0, <1>4, Frames, HoldersFrame DEF StopStep, StopEnter, StopSkip,
       StopMark, StopClose, StopReturn, StopPanics
  <1>5. CASE LoopStep
    <2>1. CASE LoopStart \/ LoopPeek \/ CollectReturn \/ LoopIdle \/ DrainDone
      <3>1. /\ UNCHANGED <<queue, batch, flush, todo, waiting, cause, results, submit>>
            /\ loop' = "exited" => queue = <<>>
            /\ loop' \notin {"collect", "collected"} => batch = <<>>
        BY <2>1, <1>0, Frames DEF LoopStart, LoopPeek, CollectReturn, LoopIdle,
           DrainDone, flushVars
      <3>2. QED BY <3>1, HoldersFrame
    <2>2. QED
      BY <1>5, <2>1, CollectHolders, LaunchHolders, DrainHolders DEF LoopStep
  <1>6. CASE UNCHANGED vars
    BY <1>0, <1>6, HoldersFrame DEF vars
  <1>7. QED
    BY <1>1, <1>2, <1>3, <1>4, <1>5, <1>6, SubmitHolders, FlushStepHolders DEF Next, Run

----------------------------------------------------------------------------
(* Theorems *)

LEMMA InitInv == Init => IndInv
  <1> SUFFICES ASSUME Init PROVE IndInv
    OBVIOUS
  <1>1. /\ Range(<<>>) = {} /\ IsInjective(<<>>)
        /\ QueueCap \in Nat /\ MaxBatchSize \in Nat
    BY RangeOfEmpty, SizesAssumption
  <1>2. TypeOK
    <2>1. /\ <<>> \in Seq(Requests) /\ <<>> \in Seq(Result)
          /\ Len(<<>>) <= QueueCap /\ Len(<<>>) <= MaxBatchSize
      BY <1>1
    <2>1a. circuitOpen \in BOOLEAN /\ stopped \in BOOLEAN /\ stopClosed \in BOOLEAN
      BY DEF Init
    <2>1b. wg \in Int
      BY DEF Init
    <2>1c. metrics \in [Metric -> Int]
      BY DEF Init
    <2>2. /\ ctx \in [Requests -> CtxErrs \cup {"live"}]
          /\ stop \in [Stoppers -> StopStates]
          /\ tracker \in {"none", "running", "done"}
          /\ loop \in {"init", "peek", "collect", "collected", "drain", "exited"}
      BY DEF Init, StopStates
    <2>3. /\ submit \in [Requests ->
                {"new", "admitted", "sending", "accepted"} \cup Refused]
          /\ flush \in [Requests -> {"none", "filter", "http", "fail", "match", "done"}]
          /\ cause \in [Requests -> {"none", "unavailable", "invalid"}]
      BY DEF Init
    <2>4. /\ todo \in [Requests -> Seq(Requests)]
          /\ waiting \in [Requests -> Seq(Requests)]
          /\ body \in [Requests -> Seq(Requests)]
          /\ results \in [Requests -> Seq(Result)]
      BY <2>1 DEF Init
    <2>5. /\ queue \in Seq(Requests) /\ Len(queue) <= QueueCap
          /\ batch \in Seq(Requests) /\ Len(batch) <= MaxBatchSize
      BY <2>1 DEF Init
    <2>6. QED BY <2>1a, <2>1b, <2>1c, <2>2, <2>3, <2>4, <2>5 DEF TypeOK
  <1>3. \A l \in Requests : Held(l) = {}
    BY <1>1 DEF Init, Held
  <1>4. AtMostOneResult /\ NoRequestStranded
    BY DEF Init, AtMostOneResult, NoRequestStranded, Pending
  <1>5. HeldOnce /\ HeldIsPending
    BY <1>1, <1>3 DEF Init, HeldOnce, HeldIsPending
  <1>6. FlushShape /\ LoopShape /\ LockShape
    BY <1>3 DEF Init, FlushShape, LoopShape, LockShape
  <1>7. QED BY <1>2, <1>4, <1>5, <1>6 DEF IndInv

\* The invariant is inductive: it holds at the start and no step breaks it.
THEOREM Inductive == Spec => []IndInv
  <1>1. IndInv /\ [Next]_vars => IndInv'
    BY TypeStep, LockStep, LoopStepShape, HoldersStep DEF IndInv, Holders
  <1>2. QED BY <1>1, InitInv, PTL DEF Spec

\* Every variable keeps its type; the queue and the batch keep their bounds.
THEOREM TypeCorrect == Spec => []TypeOK
  <1>1. IndInv => TypeOK
    BY DEF IndInv
  <1>2. QED BY <1>1, Inductive, PTL

\* No ResultCh ever receives a second Result, nor one for a refused request, so
\* the send of a flush or of the drain never blocks on the one-slot channel.
THEOREM OneTerminalResult == Spec => []AtMostOneResult
  <1>1. IndInv => AtMostOneResult
    BY DEF IndInv
  <1>2. QED BY <1>1, Inductive, PTL

\* At no point is an accepted request lost: until it is answered, a goroutine
\* that will answer it holds it, whatever the interleaving of Submit and Stop.
THEOREM NothingStranded == Spec => []NoRequestStranded
  <1>1. IndInv => NoRequestStranded
    BY DEF IndInv
  <1>2. QED BY <1>1, Inductive, PTL

\* After Stop has marked the batcher the queue only shrinks.
THEOREM ClosedToNewRequests == Spec => NoEnqueueAfterStop
  <1> DEFINE Shrinks == stopped => \A i \in DOMAIN queue' : queue'[i] \in Range(queue)
  <1>1. IndInv /\ [Next]_vars => [Shrinks]_vars
    <2> SUFFICES ASSUME IndInv, [Next]_vars, stopped PROVE Shrinks
      OBVIOUS
    <2>1. queue \in Seq(Requests)
      BY DEF IndInv, TypeOK
    <2>2. CASE queue' = queue
      BY <2>2 DEF Range
    <2>3. CASE CollectTake \/ DrainOne
      <3>1. queue # <<>> /\ queue' = Tail(queue)
        BY <2>3 DEF CollectTake, DrainOne
      <3>2. Range(queue') \subseteq Range(queue)
        BY <2>1, <3>1, RangeOfTail
      <3>3. QED BY <3>2 DEF Range
    <2>4. ASSUME NEW r \in Requests, SubmitEnqueue(r) PROVE FALSE
      BY <2>4 DEF SubmitEnqueue, IndInv, LockShape, Readers
    <2>5. ASSUME NEW r \in Requests, Submit(r) PROVE queue' = queue
      BY <2>4, <2>5 DEF Submit, SubmitRejectOpen, SubmitPassCircuit,
         SubmitRejectStopped, SubmitRLock, SubmitRejectFull
    <2>6. CASE LoopStep
      <3>1. CollectTake \/ DrainOne \/ queue' = queue
        BY <2>6 DEF LoopStep, LoopStart, LoopPeek, CollectReturn, LoopFlush,
           LoopIdle, DrainDone
      <3>2. QED BY <3>1, <2>2, <2>3
    <2>7. ASSUME NEW l \in Requests, FlushStep(l) PROVE queue' = queue
      BY <2>7, Frames DEF FlushStep, FlushDropCancelled, FlushKeep,
         FlushBuildFails, FlushPost, FlushNoResponse, FlushDecoded, FlushMatch,
         FlushUnknown, FlushMissing, FlushFail, FlushReturn
    <2>8. ASSUME NEW s \in Stoppers, StopStep(s) PROVE queue' = queue
      BY <2>8, Frames DEF StopStep, StopEnter, StopSkip, StopMark, StopClose,
         StopReturn, StopPanics
    <2>9. CASE GuardFlip \/ TrackerExit \/ UNCHANGED vars
      BY <2>9, <2>2 DEF GuardFlip, TrackerExit, vars
    <2>10. ASSUME NEW r \in Requests, CancelCtx(r) PROVE queue' = queue
      BY <2>10 DEF CancelCtx
    <2>11. QED
      BY <2>2, <2>5, <2>6, <2>7, <2>8, <2>9, <2>10 DEF Next, Run
  <1>2. QED BY <1>1, Inductive, PTL DEF Spec, NoEnqueueAfterStop

----------------------------------------------------------------------------
(* The batcher implements the ledger *)

\* Neither the process before the step nor the one after it has panicked.
Survives == ~Panicked /\ ~Panicked'

\* Only a Stop panics.
LEMMA OnlyStopPanics ==
    ASSUME IndInv, [Next]_vars, ~Panicked, \A s \in Stoppers : ~StopPanics(s)
    PROVE  Survives
  <1>1. stop \in [Stoppers -> StopStates]
    BY DEF IndInv, TypeOK
  <1>2. CASE UNCHANGED stop
    BY <1>2 DEF Survives, Panicked
  <1>3. CASE Done
    BY <1>3, DoneReleases DEF Survives, Panicked
  <1>4. ASSUME NEW s \in Stoppers, StopStep(s) PROVE Survives
    BY <1>1, <1>4 DEF StopStep, StopEnter, StopSkip, StopMark, StopClose, StopReturn,
       Survives, Panicked
  <1>5. CASE LoopStep
    BY <1>2, <1>5, Frames DEF LoopStep, LoopStart, LoopPeek, CollectTake,
       CollectReturn, LoopFlush, LoopIdle, DrainOne, DrainDone
  <1>6. ASSUME NEW r \in Requests, CancelCtx(r) \/ Submit(r) PROVE Survives
    BY <1>2, <1>6, Frames DEF CancelCtx, stopVars, Submit, SubmitRejectOpen,
       SubmitPassCircuit, SubmitRejectStopped, SubmitRLock, SubmitEnqueue,
       SubmitRejectFull
  <1>7. ASSUME NEW l \in Requests, FlushStep(l) PROVE Survives
    BY <1>2, <1>3, <1>7, Frames DEF FlushStep, FlushDropCancelled, FlushKeep,
       FlushBuildFails, FlushPost, FlushNoResponse, FlushDecoded, FlushMatch,
       FlushUnknown, FlushMissing, FlushFail, FlushReturn
  <1>8. CASE GuardFlip \/ TrackerExit \/ UNCHANGED vars
    BY <1>2, <1>3, <1>8 DEF GuardFlip, TrackerExit, vars, stopVars
  <1>9. QED BY <1>4, <1>5, <1>6, <1>7, <1>8 DEF Next, Run

\* A step that neither decides a submission, nor sends a Result, nor marks the
\* batcher as stopped, nor panics is invisible in the ledger.
LEMMA Invisible ==
    ASSUME UNCHANGED <<submit, results, stopped>>, Survives
    PROVE  UNCHANGED Ledger!ledger
  <1>1. UNCHANGED <<Entry, Answers, stopped>>
    BY DEF Entry, Answers
  <1>2. Panicked' = Panicked
    BY DEF Survives, Panicked
  <1>3. QED BY <1>1, <1>2 DEF Ledger!ledger

\* Sending the only Result of an accepted request is the ledger's Answer.
LEMMA AnswerInLedger ==
    ASSUME IndInv, NEW r \in Requests, Pending(r), Survives,
           UNCHANGED <<submit, stopped>>,
           Len(results'[r]) = 1,
           \A x \in Requests \ {r} : results'[x] = results[x]
    PROVE  Ledger!Answer(r)
  <1>1. /\ Entry[r] = "accepted" /\ Answers[r] = 0
        /\ Entry' = Entry /\ stopped' = stopped
    BY DEF Pending, Entry, Answers
  <1>2. Answers' = [Answers EXCEPT ![r] = 1]
    BY DEF Answers
  <1>3. ~Panicked /\ Panicked' = Panicked
    BY DEF Survives, Panicked
  <1>4. QED BY <1>1, <1>2, <1>3 DEF Ledger!Answer

LEMMA SubmitInLedger ==
    ASSUME IndInv, NEW r \in Requests, Submit(r), Survives
    PROVE  [Ledger!Next]_(Ledger!ledger)
  <1>0. ~Panicked /\ Panicked' = Panicked
    BY DEF Survives, Panicked
  <1>1. UNCHANGED <<results, stopped>>
    BY Frames DEF Submit, SubmitRejectOpen, SubmitPassCircuit,
       SubmitRejectStopped, SubmitRLock, SubmitEnqueue, SubmitRejectFull
  <1>2. Answers' = Answers
    BY <1>1 DEF Answers
  <1>3. submit \in [Requests -> {"new", "admitted", "sending", "accepted"} \cup Refused]
    BY DEF IndInv, TypeOK
  <1>4. CASE SubmitEnqueue(r)
    <2>1. ~stopped
      BY <1>4 DEF SubmitEnqueue, IndInv, LockShape, Readers
    <2>2. Entry[r] = "open" /\ Entry' = [Entry EXCEPT ![r] = "accepted"]
      BY <1>3, <1>4 DEF SubmitEnqueue, Entry, Refused
    <2>3. Ledger!Accept(r)
      BY <2>1, <2>2, <1>0, <1>1, <1>2 DEF Ledger!Accept
    <2>4. QED BY <2>3 DEF Ledger!Next
  <1>5. CASE SubmitRejectOpen(r) \/ SubmitRejectStopped(r) \/ SubmitRejectFull(r)
    <2>1. Entry[r] = "open" /\ Entry' = [Entry EXCEPT ![r] = "refused"]
      BY <1>3, <1>5 DEF SubmitRejectOpen, SubmitRejectStopped, SubmitRejectFull,
         Entry, Refused
    <2>2. Ledger!Refuse(r)
      BY <2>1, <1>0, <1>1, <1>2 DEF Ledger!Refuse
    <2>3. QED BY <2>2 DEF Ledger!Next
  <1>6. CASE SubmitPassCircuit(r) \/ SubmitRLock(r)
    <2>1. Entry' = Entry
      BY <1>3, <1>6 DEF SubmitPassCircuit, SubmitRLock, Entry, Refused
    <2>2. QED BY <2>1, <1>0, <1>1, <1>2 DEF Ledger!ledger
  <1>7. QED BY <1>4, <1>5, <1>6 DEF Submit

LEMMA LoopInLedger ==
    ASSUME IndInv, LoopStep, Survives
    PROVE  [Ledger!Next]_(Ledger!ledger)
  <1>1. UNCHANGED <<submit, stopped>>
    BY Frames DEF LoopStep, LoopStart, LoopPeek, CollectTake, CollectReturn,
       LoopFlush, LoopIdle, DrainOne, DrainDone
  <1>2. CASE DrainOne
    <2>1. PICK r : r = Head(queue)
      OBVIOUS
    <2>2. failRequest(r, "stopped") /\ r \in Requests /\ Pending(r)
      BY <1>2, <2>1, RangeOfTail DEF DrainOne, IndInv, TypeOK, HeldIsPending
    <2>3. "stopped" \in ResultKinds /\ results[r] = <<>>
      BY <2>2 DEF ResultKinds, Pending
    <2>4. Len(results'[r]) = 1 /\ \A x \in Requests \ {r} : results'[x] = results[x]
      BY <2>2, <2>3, FailAnswers DEF IndInv
    <2>5. QED BY <2>2, <2>4, <1>1, AnswerInLedger DEF Ledger!Next
  <1>3. CASE ~DrainOne
    <2>1. UNCHANGED results
      BY <1>3 DEF LoopStep, LoopStart, LoopPeek, CollectTake, CollectReturn,
         LoopFlush, LoopIdle, DrainDone
    <2>2. QED BY <2>1, <1>1, Invisible
  <1>4. QED BY <1>2, <1>3

LEMMA FlushInLedger ==
    ASSUME IndInv, NEW l \in Requests, FlushStep(l), Survives
    PROVE  [Ledger!Next]_(Ledger!ledger)
  <1>1. UNCHANGED <<submit, stopped>>
    BY Frames DEF FlushStep, FlushDropCancelled, FlushKeep, FlushBuildFails,
       FlushPost, FlushNoResponse, FlushDecoded, FlushMatch, FlushUnknown,
       FlushMissing, FlushFail, FlushReturn
  <1>2. /\ {"ok", "itemError", "missing", "unavailable", "invalid"} \subseteq ResultKinds
        /\ CtxErrs \subseteq ResultKinds
    BY DEF ResultKinds
  <1>3. ASSUME NEW r \in Requests, Pending(r), NEW k \in ResultKinds,
               NEW o \in Requests, failRequest(r, k) \/ Send(r, k, o)
        PROVE  [Ledger!Next]_(Ledger!ledger)
    <2>1. results \in [Requests -> Seq(Result)] /\ results[r] = <<>>
      BY <1>3 DEF IndInv, TypeOK, Pending
    <2>2. Len(results'[r]) = 1 /\ \A x \in Requests \ {r} : results'[x] = results[x]
      BY <1>3, <2>1, FailAnswers, SendAnswers DEF IndInv
    <2>3. Ledger!Answer(r)
      BY <1>1, <1>3, <2>2, AnswerInLedger
    <2>4. QED BY <2>3 DEF Ledger!Next
  <1>4. CASE FlushDropCancelled(l)
    <2>1. /\ failRequest(Head(todo[l]), ctx[Head(todo[l])])
          /\ Head(todo[l]) \in Requests /\ Pending(Head(todo[l]))
          /\ ctx[Head(todo[l])] \in ResultKinds
      BY <1>4, <1>2, HeldTodo DEF FlushDropCancelled, IndInv, TypeOK
    <2>2. QED BY <2>1, <1>3
  <1>5. CASE FlushMatch(l)
    <2>1. PICK i \in DOMAIN waiting[l] :
             \/ Send(waiting[l][i], "itemError", Head(body[l]))
             \/ Send(waiting[l][i], "ok", Head(body[l]))
      BY <1>5 DEF FlushMatch
    <2>2. waiting[l][i] \in Requests /\ Pending(waiting[l][i])
      BY HeldWaitingAt
    <2>3. Head(body[l]) \in Requests
      BY <1>5, RangeOfTail DEF FlushMatch, IndInv, TypeOK
    <2>4. QED BY <2>1, <2>2, <2>3, <1>2, <1>3
  <1>6. CASE FlushMissing(l)
    <2>1. PICK i \in DOMAIN waiting[l] : failRequest(waiting[l][i], "missing")
      BY <1>6 DEF FlushMissing
    <2>2. waiting[l][i] \in Requests /\ Pending(waiting[l][i])
      BY HeldWaitingAt
    <2>3. QED BY <2>1, <2>2, <1>2, <1>3
  <1>7. CASE FlushFail(l)
    <2>1. /\ failRequest(Head(waiting[l]), cause[l])
          /\ Head(waiting[l]) \in Requests /\ Pending(Head(waiting[l]))
      BY <1>7, HeldWaiting DEF FlushFail
    <2>2. cause[l] \in ResultKinds
      BY <1>7, <1>2 DEF FlushFail, IndInv, TypeOK, FlushShape
    <2>3. QED BY <2>1, <2>2, <1>3
  <1>8. CASE FlushKeep(l) \/ FlushBuildFails(l) \/ FlushPost(l)
             \/ FlushNoResponse(l) \/ FlushDecoded(l) \/ FlushUnknown(l)
             \/ FlushReturn(l)
    <2>1. UNCHANGED results
      BY <1>8 DEF FlushKeep, FlushBuildFails, FlushPost, FlushNoResponse,
         FlushDecoded, FlushUnknown, FlushReturn
    <2>2. QED BY <2>1, <1>1, Invisible
  <1>9. QED BY <1>4, <1>5, <1>6, <1>7, <1>8 DEF FlushStep

LEMMA StopInLedger ==
    ASSUME IndInv, NEW s \in Stoppers, StopStep(s), ~Panicked
    PROVE  [Ledger!Next]_(Ledger!ledger)
  <1>1. UNCHANGED <<submit, results, Entry, Answers>>
    BY Frames DEF StopStep, StopEnter, StopSkip, StopMark, StopClose, StopReturn,
       StopPanics, Entry, Answers
  <1>2. stop \in [Stoppers -> StopStates]
    BY DEF IndInv, TypeOK
  <1>3. CASE StopPanics(s)
    <2>1. UNCHANGED stopped /\ stop'[s] = "panicked"
      BY <1>2, <1>3 DEF StopPanics
    <2>2. Panicked' = TRUE
      BY <2>1 DEF Panicked
    <2>3. Ledger!Die
      BY <1>1, <2>1, <2>2 DEF Ledger!Die
    <2>4. QED BY <2>3 DEF Ledger!Next
  <1>4. CASE ~StopPanics(s)
    <2>1. Survives
      BY <1>2, <1>4 DEF StopStep, StopEnter, StopSkip, StopMark, StopClose,
         StopReturn, Survives, Panicked
    <2>2. CASE StopMark(s)
      <3>1. stopped' = TRUE /\ ~Panicked /\ Panicked' = Panicked
        BY <2>1, <2>2 DEF StopMark, Survives, Panicked
      <3>2. Ledger!Close
        BY <1>1, <3>1 DEF Ledger!Close
      <3>3. QED BY <3>2 DEF Ledger!Next
    <2>3. CASE ~StopMark(s)
      <3>1. UNCHANGED stopped
        BY <1>4, <2>3 DEF StopStep, StopEnter, StopSkip, StopClose, StopReturn
      <3>2. QED BY <1>1, <2>1, <3>1, Invisible
    <2>4. QED BY <2>2, <2>3
  <1>5. QED BY <1>3, <1>4

\* The batcher keeps the ledger: a submission is decided once, an accepted
\* request is answered at most once and a refused one never, and nothing is
\* accepted once Stop has marked the batcher.
THEOREM ImplementsLedger == Spec => KeepsLedger
  <1>1. Init => Ledger!Init
    <2> SUFFICES ASSUME Init PROVE Ledger!Init
      OBVIOUS
    <2>1. Entry = [r \in Requests |-> "open"]
      BY DEF Init, Entry, Refused
    <2>2. Answers = [r \in Requests |-> 0]
      BY DEF Init, Answers
    <2>3. Panicked = FALSE
      BY DEF Init, Panicked
    <2>4. QED BY <2>1, <2>2, <2>3 DEF Init, Ledger!Init
  <1>2. IndInv /\ [Next]_vars => [Ledger!Next]_(Ledger!ledger)
    <2> SUFFICES ASSUME IndInv, [Next]_vars PROVE [Ledger!Next]_(Ledger!ledger)
      OBVIOUS
    <2>1. CASE UNCHANGED vars
      <3>1. UNCHANGED <<submit, results, stopped, stop>>
        BY <2>1 DEF vars
      <3>2. UNCHANGED <<Entry, Answers, stopped>> /\ Panicked' = Panicked
        BY <3>1 DEF Entry, Answers, Panicked
      <3>3. QED BY <3>2 DEF Ledger!ledger
    <2>2. ASSUME NEW s \in Stoppers, StopStep(s), ~Panicked
          PROVE  [Ledger!Next]_(Ledger!ledger)
      BY <2>2, StopInLedger
    <2>3. CASE Survives
      <3>1. CASE GuardFlip \/ TrackerExit
        BY <2>3, <3>1, Frames, Invisible DEF GuardFlip, TrackerExit, stopVars
      <3>2. ASSUME NEW r \in Requests, CancelCtx(r)
            PROVE  [Ledger!Next]_(Ledger!ledger)
        BY <2>3, <3>2, Invisible DEF CancelCtx, stopVars
      <3>3. ASSUME NEW s \in Stoppers, StopStep(s)
            PROVE  [Ledger!Next]_(Ledger!ledger)
        BY <2>2, <2>3, <3>3 DEF Survives
      <3>4. QED
        BY <2>1, <2>3, <3>1, <3>2, <3>3, SubmitInLedger, LoopInLedger,
           FlushInLedger DEF Next, Run
    <2>4. CASE ~Panicked /\ ~Survives
      <3>1. PICK s \in Stoppers : StopPanics(s)
        BY <2>4, OnlyStopPanics
      <3>2. QED BY <2>2, <2>4, <3>1 DEF StopStep
    <2>5. CASE Panicked
      BY <2>1, <2>5 DEF Next, Run
    <2>6. QED BY <2>3, <2>4, <2>5
  <1>3. QED BY <1>1, <1>2, Inductive, PTL DEF Spec, KeepsLedger, Ledger!Spec

----------------------------------------------------------------------------
(* Whose output a caller gets: for any assignment of ids, so also when all *)
(* the requests of a batch share one                                       *)

\* What a step adds to the Results: nothing, or one for the request h, with what
\* was computed for the prompt of o.
Answered(h, o) ==
    /\ results[h] = <<>>
    /\ \A i \in DOMAIN results'[h] : results'[h][i].of = o
    /\ \A x \in Requests \ {h} : results'[x] = results[x]

LEMMA SentOf ==
    ASSUME IndInv, NEW h \in Requests, Pending(h), NEW k, NEW o \in Requests,
           Send(h, k, o)
    PROVE  Answered(h, o)
  <1>1. results \in [Requests -> Seq(Result)] /\ results[h] = <<>>
    BY DEF IndInv, TypeOK, Pending
  <1>2. results' = [results EXCEPT ![h] = Append(@, [kind |-> k, of |-> o])]
    BY DEF Send
  <1>3. results'[h] = <<[kind |-> k, of |-> o]>>
    BY <1>1, <1>2
  <1>4. QED BY <1>1, <1>2, <1>3 DEF Answered

LEMMA FailedOf ==
    ASSUME IndInv, NEW h \in Requests, Pending(h), NEW k, failRequest(h, k)
    PROVE  Answered(h, h)
  BY SentOf DEF failRequest

\* A property of the two requests of each Result that every request has with
\* itself is kept by a step that answers one request suitably.
LEMMA StepsAnswer ==
    ASSUME IndInv, [Next]_vars
    PROVE  \/ UNCHANGED results
           \/ \E h \in Requests : Answered(h, h)
           \/ \E l \in Requests : FlushMatch(l)
  <1>1. CASE LoopStep
    <2>1. CASE DrainOne
      <3>1. failRequest(Head(queue), "stopped") /\ Head(queue) \in Requests
            /\ Pending(Head(queue))
        BY <2>1, RangeOfTail DEF DrainOne, IndInv, TypeOK, HeldIsPending
      <3>2. QED BY <3>1, FailedOf
    <2>2. CASE ~DrainOne
      BY <1>1, <2>2 DEF LoopStep, LoopStart, LoopPeek, CollectTake,
         CollectReturn, LoopFlush, LoopIdle, DrainDone
    <2>3. QED BY <2>1, <2>2
  <1>2. ASSUME NEW l \in Requests, FlushStep(l)
        PROVE  \/ UNCHANGED results
               \/ \E h \in Requests : Answered(h, h)
               \/ FlushMatch(l)
    <2>1. CASE FlushDropCancelled(l)
      <3>1. failRequest(Head(todo[l]), ctx[Head(todo[l])])
            /\ Head(todo[l]) \in Requests /\ Pending(Head(todo[l]))
        BY <2>1, HeldTodo DEF FlushDropCancelled
      <3>2. QED BY <3>1, FailedOf
    <2>2. CASE FlushMissing(l)
      <3>1. PICK i \in DOMAIN waiting[l] : failRequest(waiting[l][i], "missing")
        BY <2>2 DEF FlushMissing
      <3>2. waiting[l][i] \in Requests /\ Pending(waiting[l][i])
        BY HeldWaitingAt
      <3>3. QED BY <3>1, <3>2, FailedOf
    <2>3. CASE FlushFail(l)
      <3>1. failRequest(Head(waiting[l]), cause[l])
            /\ Head(waiting[l]) \in Requests /\ Pending(Head(waiting[l]))
        BY <2>3, HeldWaiting DEF FlushFail
      <3>2. QED BY <3>1, FailedOf
    <2>4. CASE FlushKeep(l) \/ FlushBuildFails(l) \/ FlushPost(l)
               \/ FlushNoResponse(l) \/ FlushDecoded(l) \/ FlushUnknown(l)
               \/ FlushReturn(l)
      BY <2>4 DEF FlushKeep, FlushBuildFails, FlushPost, FlushNoResponse,
         FlushDecoded, FlushUnknown, FlushReturn
    <2>5. QED BY <1>2, <2>1, <2>2, <2>3, <2>4 DEF FlushStep
  <1>3. CASE GuardFlip \/ TrackerExit \/ UNCHANGED vars
    BY <1>3 DEF GuardFlip, TrackerExit, vars
  <1>4. ASSUME NEW r \in Requests, CancelCtx(r) \/ Submit(r) PROVE UNCHANGED results
    BY <1>4, Frames DEF CancelCtx, Submit, SubmitRejectOpen, SubmitPassCircuit,
       SubmitRejectStopped, SubmitRLock, SubmitEnqueue, SubmitRejectFull
  <1>5. ASSUME NEW s \in Stoppers, StopStep(s) PROVE UNCHANGED results
    BY <1>5, Frames DEF StopStep, StopEnter, StopSkip, StopMark, StopClose,
       StopReturn, StopPanics
  <1>6. QED BY <1>1, <1>2, <1>3, <1>4, <1>5 DEF Next, Run

----------------------------------------------------------------------------
(* Any backend *)

LEMMA CorrelatedStep ==
    ASSUME IndInv, CorrelatedAnswer, [Next]_vars PROVE CorrelatedAnswer'
  <1>1. ASSUME NEW h \in Requests, NEW o \in Requests, Answered(h, o),
               IdOf[o] = IdOf[h]
        PROVE  CorrelatedAnswer'
    BY <1>1 DEF Answered, CorrelatedAnswer
  <1>2. CASE UNCHANGED results
    BY <1>2 DEF CorrelatedAnswer
  <1>3. ASSUME NEW l \in Requests, FlushMatch(l) PROVE CorrelatedAnswer'
    <2>1. PICK i \in DOMAIN waiting[l] :
             /\ IdOf[waiting[l][i]] = IdOf[Head(body[l])]
             /\ \/ Send(waiting[l][i], "itemError", Head(body[l]))
                \/ Send(waiting[l][i], "ok", Head(body[l]))
      BY <1>3 DEF FlushMatch
    <2>2. /\ waiting[l][i] \in Requests /\ Pending(waiting[l][i])
          /\ Head(body[l]) \in Requests
      BY <1>3, HeldWaitingAt, RangeOfTail DEF FlushMatch, IndInv, TypeOK
    <2>3. Answered(waiting[l][i], Head(body[l]))
      BY <2>1, <2>2, SentOf
    <2>4. QED BY <2>1, <2>2, <2>3, <1>1
  <1>4. QED BY <1>1, <1>2, <1>3, StepsAnswer

\* Whatever items the backend sends, in whatever order and however often, no
\* caller gets one that does not carry its id.
THEOREM AnswersCarryTheId == Spec => []CorrelatedAnswer
  <1>1. Init => CorrelatedAnswer
    BY DEF Init, CorrelatedAnswer
  <1>2. QED BY <1>1, CorrelatedStep, Inductive, PTL DEF Spec

----------------------------------------------------------------------------
(* The Python backend *)

\* The first request with the id of the first one is the first one.
LEMMA FrontOfHead ==
    ASSUME NEW s \in Seq(Requests), s # <<>>, NEW i \in DOMAIN s,
           IdOf[s[i]] = IdOf[Head(s)], Front(s, i)
    PROVE  i = 1 /\ s[i] = Head(s) /\ Without(s, i) = Tail(s)
  <1>1. Len(s) \in Nat \ {0} /\ DOMAIN s = 1..Len(s) /\ Head(s) = s[1]
    OBVIOUS
  <1>2. i = 1
    BY <1>1 DEF Front
  <1>3. /\ Tail(s) \in Seq(Requests) /\ Len(Tail(s)) = Len(s) - 1
        /\ \A j \in 1..(Len(s) - 1) : Tail(s)[j] = s[j + 1]
    BY <1>1
  <1>4. /\ Without(s, 1) \in Seq(Requests) /\ Len(Without(s, 1)) = Len(s) - 1
        /\ \A j \in 1..(Len(s) - 1) : Without(s, 1)[j] = s[j + 1]
    BY <1>1 DEF Without
  <1>5. Without(s, 1) = Tail(s)
    <2> DEFINE t == Tail(s)
               w == Without(s, 1)
    <2> HIDE DEF t, w
    <2>1. /\ t \in Seq(Requests) /\ w \in Seq(Requests) /\ Len(t) = Len(w)
          /\ \A j \in 1..Len(t) : t[j] = w[j]
      BY <1>1, <1>3, <1>4 DEF t, w
    <2>2. t = w
      BY <2>1, SeqEqual
    <2>3. QED BY <2>2 DEF t, w
  <1>6. QED BY <1>1, <1>2, <1>5

\* What FlushMatch does to a flush whose items are in step with its requests.
LEMMA MatchInStep ==
    ASSUME IndInv, NEW l \in Requests, FlushMatch(l), body[l] = waiting[l]
    PROVE  /\ body'[l] = waiting'[l]
           /\ \E h \in Requests : Answered(h, h)
  <1>1. /\ waiting[l] \in Seq(Requests) /\ waiting[l] # <<>>
        /\ waiting \in [Requests -> Seq(Requests)]
        /\ body \in [Requests -> Seq(Requests)]
    BY DEF FlushMatch, IndInv, TypeOK
  <1>2. PICK i \in DOMAIN waiting[l] :
           /\ IdOf[waiting[l][i]] = IdOf[Head(body[l])] /\ Front(waiting[l], i)
           /\ \/ Send(waiting[l][i], "itemError", Head(body[l]))
              \/ Send(waiting[l][i], "ok", Head(body[l]))
           /\ waiting' = [waiting EXCEPT ![l] = Without(@, i)]
    BY DEF FlushMatch
  <1>3. /\ waiting[l][i] = Head(waiting[l])
        /\ Without(waiting[l], i) = Tail(waiting[l])
    BY <1>1, <1>2, FrontOfHead
  <1>4. body'[l] = waiting'[l]
    BY <1>1, <1>2, <1>3 DEF FlushMatch
  <1>5. waiting[l][i] \in Requests /\ Pending(waiting[l][i])
    BY HeldWaitingAt
  <1>6. Answered(waiting[l][i], waiting[l][i])
    BY <1>2, <1>3, <1>5, SentOf
  <1>7. QED BY <1>4, <1>5, <1>6

LEMMA InStepStep ==
    ASSUME IndInv, InStep, [Next]_vars PROVE InStep'
  <1> SUFFICES ASSUME PythonBackend, NEW m \in Requests, flush'[m] = "match"
               PROVE  body'[m] = waiting'[m]
    BY DEF InStep
  <1>1. flush[m] = "match" => body[m] = waiting[m]
    BY DEF InStep
  <1>2. CASE UNCHANGED <<flush, waiting, body>>
    BY <1>1, <1>2
  <1>3. /\ flush \in [Requests -> {"none", "filter", "http", "fail", "match", "done"}]
        /\ waiting \in [Requests -> Seq(Requests)]
        /\ body \in [Requests -> Seq(Requests)]
    BY DEF IndInv, TypeOK
  <1>4. CASE LoopStep
    <2>1. CASE LoopFlush
      BY <2>1, <1>1, <1>3 DEF LoopFlush
    <2>2. CASE ~LoopFlush
      BY <1>2, <1>4, <2>2 DEF LoopStep, LoopStart, LoopPeek, CollectTake,
         CollectReturn, LoopIdle, DrainOne, DrainDone, flushVars
    <2>3. QED BY <2>1, <2>2
  <1>5. ASSUME NEW l \in Requests, FlushStep(l) PROVE body'[m] = waiting'[m]
    <2>1. CASE m # l
      <3>1. flush'[m] = flush[m] /\ waiting'[m] = waiting[m] /\ body'[m] = body[m]
        BY <1>3, <1>5, <2>1 DEF FlushStep, FlushDropCancelled, FlushKeep,
           FlushBuildFails, FlushPost, FlushNoResponse, FlushDecoded, FlushMatch,
           FlushUnknown, FlushMissing, FlushFail, FlushReturn
      <3>2. QED BY <3>1, <1>1
    <2>2. CASE m = l
      <3>1. CASE FlushDropCancelled(l) \/ FlushKeep(l) \/ FlushBuildFails(l)
                 \/ FlushPost(l) \/ FlushNoResponse(l) \/ FlushFail(l)
                 \/ FlushReturn(l)
        <4>1. flush'[l] # "match"
          BY <1>3, <3>1 DEF FlushDropCancelled, FlushKeep, FlushBuildFails,
             FlushPost, FlushNoResponse, FlushFail, FlushReturn
        <4>2. QED BY <4>1, <2>2
      <3>2. CASE FlushDecoded(l)
        BY <1>3, <2>2, <3>2 DEF FlushDecoded, Responses
      <3>3. CASE FlushMatch(l)
        <4>1. body[l] = waiting[l]
          BY <1>1, <2>2, <3>3 DEF FlushMatch
        <4>2. QED BY <4>1, <2>2, <3>3, MatchInStep
      <3>4. CASE FlushUnknown(l) \/ FlushMissing(l)
        <4>1. body[l] = waiting[l]
          BY <1>1, <2>2, <3>4 DEF FlushUnknown, FlushMissing
        <4>2. CASE FlushUnknown(l)
          <5>1. waiting[l] \in Seq(Requests) /\ waiting[l] # <<>>
            BY <1>3, <4>1, <4>2 DEF FlushUnknown
          <5>2. 1 \in DOMAIN waiting[l] /\ Head(waiting[l]) = waiting[l][1]
            BY <5>1
          <5>3. HasId(waiting[l], IdOf[Head(body[l])])
            BY <4>1, <5>2 DEF HasId
          <5>4. QED BY <4>2, <5>3 DEF FlushUnknown
        <4>3. CASE FlushMissing(l)
          BY <4>1, <4>3 DEF FlushMissing
        <4>4. QED BY <3>4, <4>2, <4>3
      <3>5. QED BY <1>5, <3>1, <3>2, <3>3, <3>4 DEF FlushStep
    <2>3. QED BY <2>1, <2>2
  <1>6. CASE GuardFlip \/ TrackerExit \/ UNCHANGED vars
    BY <1>2, <1>6 DEF GuardFlip, TrackerExit, flushVars, vars
  <1>7. ASSUME NEW r \in Requests, CancelCtx(r) \/ Submit(r)
        PROVE  UNCHANGED <<flush, waiting, body>>
    BY <1>7, Frames DEF CancelCtx, flushVars, Submit, SubmitRejectOpen,
       SubmitPassCircuit, SubmitRejectStopped, SubmitRLock, SubmitEnqueue,
       SubmitRejectFull
  <1>8. ASSUME NEW s \in Stoppers, StopStep(s) PROVE UNCHANGED <<flush, waiting, body>>
    BY <1>8, Frames DEF StopStep, StopEnter, StopSkip, StopMark, StopClose,
       StopReturn, StopPanics
  <1>9. QED BY <1>2, <1>4, <1>5, <1>6, <1>7, <1>8 DEF Next, Run

\* With the Python backend every caller gets what was computed for its own
\* prompt, however the clients chose their ids.
THEOREM EveryoneItsOwnAnswer == Spec => []OwnAnswer
  <1>1. Init => InStep /\ OwnAnswer
    BY DEF Init, InStep, OwnAnswer
  <1>2. IndInv /\ InStep /\ OwnAnswer /\ [Next]_vars => OwnAnswer'
    <2> SUFFICES ASSUME IndInv, InStep, OwnAnswer, [Next]_vars, PythonBackend
                 PROVE  OwnAnswer'
      BY DEF OwnAnswer
    <2>1. ASSUME NEW h \in Requests, Answered(h, h) PROVE OwnAnswer'
      BY <2>1 DEF Answered, OwnAnswer
    <2>2. CASE UNCHANGED results
      BY <2>2 DEF OwnAnswer
    <2>3. ASSUME NEW l \in Requests, FlushMatch(l) PROVE OwnAnswer'
      BY <2>1, <2>3, MatchInStep DEF InStep, FlushMatch
    <2>4. QED BY <2>1, <2>2, <2>3, StepsAnswer
  <1>3. IndInv /\ InStep /\ [Next]_vars => InStep'
    BY InStepStep
  <1>4. QED BY <1>1, <1>2, <1>3, Inductive, PTL DEF Spec
=============================================================================
