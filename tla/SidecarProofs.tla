---------------------------- MODULE SidecarProofs ----------------------------
(***************************************************************************)
(* Proofs about Sidecar.tla: the process only uses its batcher as          *)
(* Batcher.tla allows, so the theorems of BatcherProofs hold in it, and    *)
(* its shutdown order keeps its promises to the callers.                   *)
(***************************************************************************)
EXTENDS SidecarProperties, CountingProofs

----------------------------------------------------------------------------
(* The process and its batcher *)

\* Every step of the process is a step of the batcher or leaves it alone.
LEMMA ProcessUsesBatcher == SidecarSpec => Spec
  <1>1. SidecarInit => Init
    BY DEF SidecarInit
  <1>2. [SidecarNext]_allVars => [Next]_vars
    <2> SUFFICES ASSUME [SidecarNext]_allVars PROVE [Next]_vars
      OBVIOUS
    <2>1. CASE Alive /\ Main
      BY <2>1 DEF Alive, Main, Signal, GracefulStopReturns, StopBatcher, Exit, Next, Run
    <2>2. CASE Background(GuardFlip) \/ Background(LoopStep) \/ Background(TrackerExit)
      BY <2>2 DEF Alive, Background, Next, Run
    <2>3. ASSUME NEW r \in Requests, Alive, Arrive(r) \/ Infer(r) \/ ClientLeaves(r)
          PROVE  [Next]_vars
      BY <2>3 DEF Arrive, Infer, ClientLeaves, TokenizerFails, RejectTooLong,
         Admit, CallSubmit, SubmitErr, TakeResult, LeaveOnCtx, Alive, Next, Run
    <2>4. ASSUME NEW r \in Requests, Background(FlushStep(r)) PROVE [Next]_vars
      BY <2>4 DEF Alive, Background, Next, Run
    <2>5. CASE UNCHANGED allVars
      BY <2>5 DEF allVars
    <2>6. QED BY <2>1, <2>2, <2>3, <2>4, <2>5 DEF SidecarNext
  <1>3. QED BY <1>1, <1>2, PTL DEF SidecarSpec, Spec

\* The batcher's invariant holds in the process.
LEMMA BatcherInProcess == SidecarSpec => []IndInv
  BY ProcessUsesBatcher, Inductive, PTL

----------------------------------------------------------------------------
(* What a step of the batcher does to the Results *)

\* The kind of a Result is the one that was sent.
LEMMA SentKind ==
    ASSUME IndInv, NEW r \in Requests, Pending(r), NEW k \in ResultKinds,
           NEW o \in Requests, failRequest(r, k) \/ Send(r, k, o)
    PROVE  /\ Head(results'[r]).kind = k
           /\ \A x \in Requests \ {r} : results'[x] = results[x]
  <1>1. results \in [Requests -> Seq(Result)] /\ results[r] = <<>>
    BY DEF IndInv, TypeOK, Pending
  <1>2. PICK p \in Requests : results' = [results EXCEPT ![r] = Append(@, [kind |-> k, of |-> p])]
    BY DEF Send, failRequest
  <1>3. results'[r] = <<[kind |-> k, of |-> p]>>
    BY <1>1, <1>2
  <1>4. QED BY <1>1, <1>2, <1>3

\* What a step may do to the Result of a request: leave it, or deliver one to a
\* request that waits for it; "stopped" is only delivered once Stop has marked
\* the batcher.
Delivered(r) ==
    \/ results'[r] = results[r]
    \/ Pending(r) /\ (Head(results'[r]).kind = "stopped" => stopped)

LEMMA LoopDelivers ==
    ASSUME IndInv, LoopStep PROVE \A r \in Requests : Delivered(r)
  <1>1. CASE DrainOne
    <2>1. PICK h : h = Head(queue)
      OBVIOUS
    <2>2. failRequest(h, "stopped") /\ h \in Requests /\ Pending(h)
      BY <1>1, <2>1, RangeOfTail DEF DrainOne, IndInv, TypeOK, HeldIsPending
    <2>3. stopped
      BY <1>1 DEF DrainOne, IndInv, LoopShape, LockShape
    <2>4. "stopped" \in ResultKinds
      BY DEF ResultKinds
    <2>5. \A x \in Requests \ {h} : results'[x] = results[x]
      BY <2>2, <2>4, SentKind
    <2>6. QED BY <2>2, <2>3, <2>5 DEF Delivered
  <1>2. CASE ~DrainOne
    <2>1. UNCHANGED results
      BY <1>2 DEF LoopStep, LoopStart, LoopPeek, CollectTake, CollectReturn,
         LoopFlush, LoopIdle, DrainDone
    <2>2. QED BY <2>1 DEF Delivered
  <1>3. QED BY <1>1, <1>2

LEMMA FlushDelivers ==
    ASSUME IndInv, NEW l \in Requests, FlushStep(l)
    PROVE  \A r \in Requests : Delivered(r)
  <1>1. /\ {"ok", "itemError", "missing", "unavailable", "invalid"} \subseteq ResultKinds
        /\ CtxErrs \subseteq ResultKinds /\ "stopped" \notin CtxErrs
    BY CtxAssumption DEF ResultKinds
  <1>2. ASSUME NEW h \in Requests, Pending(h), NEW k \in ResultKinds, k # "stopped",
               NEW o \in Requests, failRequest(h, k) \/ Send(h, k, o)
        PROVE  \A r \in Requests : Delivered(r)
    <2>1. /\ Head(results'[h]).kind = k
          /\ \A x \in Requests \ {h} : results'[x] = results[x]
      BY <1>2, SentKind
    <2>2. QED BY <1>2, <2>1 DEF Delivered
  <1>4. CASE FlushDropCancelled(l)
    <2>1. /\ failRequest(Head(todo[l]), ctx[Head(todo[l])])
          /\ Head(todo[l]) \in Requests /\ Pending(Head(todo[l]))
          /\ ctx[Head(todo[l])] \in CtxErrs
      BY <1>4, <1>1, HeldTodo DEF FlushDropCancelled, IndInv, TypeOK
    <2>2. QED BY <2>1, <1>1, <1>2
  <1>5. CASE FlushMatch(l)
    <2>1. PICK i \in DOMAIN waiting[l] :
             \/ Send(waiting[l][i], "itemError", Head(body[l]))
             \/ Send(waiting[l][i], "ok", Head(body[l]))
      BY <1>5 DEF FlushMatch
    <2>2. waiting[l][i] \in Requests /\ Pending(waiting[l][i])
      BY HeldWaitingAt
    <2>3. Head(body[l]) \in Requests
      BY <1>5, RangeOfTail DEF FlushMatch, IndInv, TypeOK
    <2>4. QED BY <2>1, <2>2, <2>3, <1>1, <1>2
  <1>6. CASE FlushMissing(l)
    <2>1. PICK i \in DOMAIN waiting[l] : failRequest(waiting[l][i], "missing")
      BY <1>6 DEF FlushMissing
    <2>2. waiting[l][i] \in Requests /\ Pending(waiting[l][i])
      BY HeldWaitingAt
    <2>3. QED BY <2>1, <2>2, <1>1, <1>2
  <1>7. CASE FlushFail(l)
    <2>1. /\ failRequest(Head(waiting[l]), cause[l])
          /\ Head(waiting[l]) \in Requests /\ Pending(Head(waiting[l]))
      BY <1>7, HeldWaiting DEF FlushFail
    <2>2. cause[l] \in {"unavailable", "invalid"}
      BY <1>7 DEF FlushFail, IndInv, TypeOK, FlushShape
    <2>3. QED BY <2>1, <2>2, <1>1, <1>2
  <1>8. CASE FlushKeep(l) \/ FlushBuildFails(l) \/ FlushPost(l)
             \/ FlushNoResponse(l) \/ FlushDecoded(l) \/ FlushUnknown(l)
             \/ FlushReturn(l)
    <2>1. UNCHANGED results
      BY <1>8 DEF FlushKeep, FlushBuildFails, FlushPost, FlushNoResponse,
         FlushDecoded, FlushUnknown, FlushReturn
    <2>2. QED BY <2>1 DEF Delivered
  <1>9. QED BY <1>4, <1>5, <1>6, <1>7, <1>8 DEF FlushStep

----------------------------------------------------------------------------
(* The invariant of the process *)

\* A background step: the loop, a flush, the tracker or the guard.
LEMMA BackgroundKeeps ==
    ASSUME SidecarInv, IndInv, IndInv',
           UNCHANGED <<ctx, submit, stopped, rpc, reply, rejected, main>>,
           \A r \in Requests : Delivered(r)
    PROVE  SidecarInv'
  <1>1. SidecarTypeOK'
    BY DEF SidecarInv, SidecarTypeOK, IndInv
  <1>2. ASSUME NEW r \in Requests, results[r] # <<>>
        PROVE  results'[r] = results[r]
    BY <1>2 DEF Delivered, Pending
  <1>3. HandlerShape'
    <2>1. ASSUME NEW r \in Requests, Pending(r)' PROVE Pending(r)
      BY <2>1, <1>2 DEF Pending
    <2>2. QED BY <2>1 DEF SidecarInv, HandlerShape
  <1>4. ShutdownShape'
    <2>1. ASSUME NEW r \in Requests, results'[r] # <<>>,
                 Head(results'[r]).kind = "stopped"
          PROVE  stopped'
      BY <2>1 DEF Delivered, SidecarInv, ShutdownShape
    <2>2. Handlers' = Handlers
      BY DEF Handlers
    <2>3. QED BY <2>1, <2>2 DEF SidecarInv, ShutdownShape
  <1>5. OnlyBackendErrorsInBody' /\ ErrorsReceived'
    BY <1>2 DEF SidecarInv, OnlyBackendErrorsInBody, ErrorsReceived
  <1>6. QED BY <1>1, <1>3, <1>4, <1>5 DEF SidecarInv

\* A step of a handler or of its client.
LEMMA HandlerKeeps ==
    ASSUME SidecarInv, IndInv, IndInv', NEW r \in Requests,
           Arrive(r) \/ Infer(r) \/ ClientLeaves(r)
    PROVE  SidecarInv'
  <1> USE DEF SidecarInv
  <1>0. /\ rpc \in [Requests -> {"none", "admit", "submit", "done"}]
        /\ reply \in [Requests -> Codes \cup {"none", "output", "error"}]
        /\ rejected \in Nat
        /\ main \in {"ready", "graceful", "stopBatcher", "exited"}
        /\ submit \in [Requests -> {"new", "admitted", "sending", "accepted"} \cup Refused]
        /\ ctx \in [Requests -> CtxErrs \cup {"live"}]
        /\ TypeOK'
    BY DEF SidecarTypeOK, IndInv, TypeOK
  <1>1. UNCHANGED <<results, stopped, main>>
    <2>1. CASE CallSubmit(r)
      BY <2>1, Frames DEF CallSubmit, Submit, SubmitRejectOpen, SubmitPassCircuit,
         SubmitRejectStopped, SubmitRLock, SubmitEnqueue, SubmitRejectFull,
         sidecarVars
    <2>2. CASE ClientLeaves(r)
      BY <2>2 DEF ClientLeaves, CancelCtx, sidecarVars, stopVars
    <2>3. CASE Arrive(r) \/ TokenizerFails(r) \/ RejectTooLong(r) \/ Admit(r)
               \/ SubmitErr(r) \/ TakeResult(r) \/ LeaveOnCtx(r)
      BY <2>3 DEF Arrive, TokenizerFails, RejectTooLong, Admit, SubmitErr,
         TakeResult, LeaveOnCtx, vars
    <2>4. QED BY <2>1, <2>2, <2>3 DEF Infer
  <1>2. ~(main \in {"stopBatcher", "exited"}) /\ ~stopped
    <2>1. rpc[r] \in {"admit", "submit"} \/ main = "ready"
      BY DEF Arrive, Infer, ClientLeaves, TokenizerFails, RejectTooLong, Admit,
         CallSubmit, SubmitErr, TakeResult, LeaveOnCtx
    <2>2. QED BY <2>1 DEF ShutdownShape, Handlers
  <1>3. ShutdownShape'
    BY <1>1, <1>2 DEF ShutdownShape
  <1>4. CASE Arrive(r) \/ Admit(r)
    <2>1. /\ UNCHANGED <<submit, ctx, reply, rejected>>
          /\ rpc' = [rpc EXCEPT ![r] = IF rpc[r] = "none" THEN "admit" ELSE "submit"]
          /\ rpc[r] \in {"none", "admit"}
      BY <1>4 DEF Arrive, Admit, vars
    <2>2. SidecarTypeOK'
      BY <2>1, <1>0, <1>1 DEF SidecarTypeOK
    <2>3. HandlerShape'
      BY <2>1, <1>0, <1>1 DEF HandlerShape, Pending
    <2>4. OnlyBackendErrorsInBody' /\ ErrorsReceived'
      BY <2>1, <1>1 DEF OnlyBackendErrorsInBody, ErrorsReceived
    <2>5. QED BY <2>2, <2>3, <2>4, <1>3
  <1>5. ASSUME NEW answer \in Codes \cup {"output", "error"}, Return(r, answer),
               UNCHANGED <<submit, ctx>>, rejected' \in Nat,
               Pending(r) => ctx[r] # "live",
               rpc[r] # "none",
               answer = "error" =>
                   /\ results[r] # <<>>
                   /\ Head(results[r]).kind \in {"itemError", "missing"}
        PROVE  SidecarInv'
    <2>1. /\ rpc' = [rpc EXCEPT ![r] = "done"]
          /\ reply' = [reply EXCEPT ![r] = answer]
      BY <1>5 DEF Return
    <2>2. SidecarTypeOK'
      BY <2>1, <1>0, <1>1, <1>5 DEF SidecarTypeOK
    <2>3. HandlerShape'
      BY <2>1, <1>0, <1>1, <1>5 DEF HandlerShape, Pending
    <2>4. OnlyBackendErrorsInBody' /\ ErrorsReceived'
      BY <2>1, <1>0, <1>1, <1>5 DEF OnlyBackendErrorsInBody, ErrorsReceived
    <2>5. QED BY <2>2, <2>3, <2>4, <1>3
  <1>6. CASE TokenizerFails(r) \/ RejectTooLong(r)
    <2>1. /\ Return(r, "Internal") \/ Return(r, "InvalidArgument")
          /\ UNCHANGED <<submit, ctx>> /\ rejected' \in Nat /\ rpc[r] = "admit"
      BY <1>6, <1>0 DEF TokenizerFails, RejectTooLong, vars
    <2>2. ~Pending(r)
      BY <2>1 DEF HandlerShape, Pending
    <2>3. {"Internal", "InvalidArgument"} \subseteq Codes
      BY DEF Codes
    <2>4. QED BY <2>1, <2>2, <2>3, <1>5
  <1>7. CASE SubmitErr(r)
    <2>1. /\ Return(r, StatusFromSubmitErr(submit[r]))
          /\ UNCHANGED <<submit, ctx>> /\ rejected' \in Nat /\ rpc[r] = "submit"
          /\ ~Pending(r)
      BY <1>7, <1>0 DEF SubmitErr, vars, Refused, Pending
    <2>2. StatusFromSubmitErr(submit[r]) \in {"ResourceExhausted", "Unavailable"}
      BY DEF StatusFromSubmitErr
    <2>3. {"ResourceExhausted", "Unavailable"} \subseteq Codes
      BY DEF Codes
    <2>4. QED BY <2>1, <2>2, <2>3, <1>5
  <1>8. CASE LeaveOnCtx(r)
    <2>1. /\ Return(r, ctx[r]) /\ UNCHANGED <<submit, ctx>> /\ rejected' \in Nat
          /\ rpc[r] = "submit" /\ ctx[r] # "live"
      BY <1>8, <1>0 DEF LeaveOnCtx, vars
    <2>2. ctx[r] \in Codes
      BY <2>1, <1>0, SidecarAssumption DEF Codes
    <2>3. ctx[r] # "error"
      BY <2>2 DEF Codes
    <2>4. QED BY <2>1, <2>2, <2>3, <1>5
  <1>9. CASE TakeResult(r)
    <2>0. PICK k : k = Head(results[r]).kind
      OBVIOUS
    <2>1. /\ Return(r, AnswerFor(k)) /\ UNCHANGED <<submit, ctx>>
          /\ rejected' \in Nat /\ rpc[r] = "submit" /\ results[r] # <<>>
      BY <1>9, <1>0, <2>0 DEF TakeResult, vars
    <2>2. k \in ResultKinds
      <3>1. results[r] \in Seq(Result)
        BY DEF IndInv, TypeOK
      <3>2. Head(results[r]) \in Result
        BY <2>1, <3>1
      <3>3. QED BY <3>2, <2>0 DEF Result
    <2>3. k # "stopped"
      BY <2>0, <2>1, <1>2 DEF ShutdownShape
    <2>4. /\ AnswerFor(k) \in Codes \cup {"output", "error"}
          /\ AnswerFor(k) = "error" => k \in {"itemError", "missing"}
      BY <2>2, <2>3, SidecarAssumption DEF AnswerFor, Codes, ResultKinds
    <2>5. ~Pending(r)
      BY <2>1 DEF Pending
    <2>6. QED BY <2>0, <2>1, <2>4, <2>5, <1>5
  <1>10. CASE CallSubmit(r) \/ ClientLeaves(r)
    <2>1. /\ UNCHANGED <<rpc, reply, rejected>>
          /\ \A x \in Requests \ {r} : submit'[x] = submit[x]
          /\ rpc[r] \in {"none", "admit", "done"} => submit'[r] = submit[r]
          /\ \A x \in Requests : ctx[x] # "live" => ctx'[x] = ctx[x]
      <3>1. CASE CallSubmit(r)
        BY <3>1, <1>0, Frames DEF CallSubmit, Submit, SubmitRejectOpen,
           SubmitPassCircuit, SubmitRejectStopped, SubmitRLock, SubmitEnqueue,
           SubmitRejectFull, sidecarVars
      <3>2. CASE ClientLeaves(r)
        BY <3>2, <1>0 DEF ClientLeaves, CancelCtx, sidecarVars
      <3>3. QED BY <1>10, <3>1, <3>2
    <2>2. SidecarTypeOK'
      BY <2>1, <1>0, <1>1 DEF SidecarTypeOK
    <2>3. HandlerShape'
      BY <2>1, <1>0, <1>1 DEF HandlerShape, Pending
    <2>4. OnlyBackendErrorsInBody' /\ ErrorsReceived'
      BY <2>1, <1>1 DEF OnlyBackendErrorsInBody, ErrorsReceived
    <2>5. QED BY <2>2, <2>3, <2>4, <1>3
  <1>11. QED BY <1>4, <1>6, <1>7, <1>8, <1>9, <1>10 DEF Infer

\* A step of main.
LEMMA MainKeeps ==
    ASSUME SidecarInv, IndInv, IndInv', Main PROVE SidecarInv'
  <1> USE DEF SidecarInv
  <1>1. UNCHANGED <<ctx, submit, results, rpc, reply, rejected>>
    BY Frames DEF Main, Signal, GracefulStopReturns, StopBatcher, Exit, vars,
       StopStep, StopEnter, StopSkip, StopMark, StopClose, StopReturn,
       StopPanics, sidecarVars
  <1>2. main' \in {"ready", "graceful", "stopBatcher", "exited"}
    BY DEF Main, Signal, GracefulStopReturns, StopBatcher, Exit, sidecarVars,
       SidecarTypeOK
  <1>3. SidecarTypeOK'
    BY <1>1, <1>2 DEF SidecarTypeOK, IndInv
  <1>4. HandlerShape' /\ OnlyBackendErrorsInBody' /\ ErrorsReceived'
    BY <1>1 DEF HandlerShape, OnlyBackendErrorsInBody, ErrorsReceived, Pending
  <1>5. /\ main' \in {"stopBatcher", "exited"} => Handlers = {}
        /\ stopped' => main' \in {"stopBatcher", "exited"}
        /\ stopped => stopped'
    <2>1. CASE Signal \/ GracefulStopReturns \/ Exit
      BY <2>1 DEF Signal, GracefulStopReturns, Exit, vars, ShutdownShape
    <2>2. CASE StopBatcher
      BY <2>2 DEF StopBatcher, StopStep, StopEnter, StopSkip, StopMark,
         StopClose, StopReturn, StopPanics, sidecarVars, ShutdownShape
    <2>3. QED BY <2>1, <2>2 DEF Main
  <1>6. ShutdownShape'
    BY <1>1, <1>5 DEF ShutdownShape, Handlers
  <1>7. QED BY <1>3, <1>4, <1>6

LEMMA SidecarInvInit == SidecarInit => SidecarInv
  <1> SUFFICES ASSUME SidecarInit PROVE SidecarInv
    OBVIOUS
  <1>1. TypeOK
    BY InitInv DEF SidecarInit, IndInv
  <1>2. SidecarTypeOK
    BY <1>1 DEF SidecarInit, SidecarTypeOK
  <1>3. HandlerShape /\ OnlyBackendErrorsInBody /\ ErrorsReceived
    BY DEF SidecarInit, Init, HandlerShape, OnlyBackendErrorsInBody,
       ErrorsReceived, Pending
  <1>4. ShutdownShape
    BY DEF SidecarInit, Init, ShutdownShape
  <1>5. QED BY <1>2, <1>3, <1>4 DEF SidecarInv

\* The invariant of the process is inductive, given the one of its batcher.
THEOREM SidecarInductive == SidecarSpec => []SidecarInv
  <1>1. SidecarInv /\ IndInv /\ IndInv' /\ [SidecarNext]_allVars => SidecarInv'
    <2> SUFFICES ASSUME SidecarInv, IndInv, IndInv', [SidecarNext]_allVars
                 PROVE  SidecarInv'
      OBVIOUS
    <2>1. CASE Main
      BY <2>1, MainKeeps
    <2>2. ASSUME NEW r \in Requests, Arrive(r) \/ Infer(r) \/ ClientLeaves(r)
          PROVE  SidecarInv'
      BY <2>2, HandlerKeeps
    <2>3. CASE Background(GuardFlip) \/ Background(TrackerExit)
      <3>1. UNCHANGED <<ctx, submit, stopped, results, rpc, reply, rejected, main>>
        BY <2>3, Frames DEF Background, GuardFlip, TrackerExit, envVars, stopVars,
           sidecarVars
      <3>2. QED BY <3>1, BackgroundKeeps DEF Delivered
    <2>4. CASE Background(LoopStep)
      <3>1. UNCHANGED <<ctx, submit, stopped, rpc, reply, rejected, main>>
        BY <2>4, Frames DEF Background, LoopStep, LoopStart, LoopPeek, CollectTake,
           CollectReturn, LoopFlush, LoopIdle, DrainOne, DrainDone, sidecarVars
      <3>2. LoopStep
        BY <2>4 DEF Background
      <3>3. QED BY <3>1, <3>2, LoopDelivers, BackgroundKeeps
    <2>5. ASSUME NEW l \in Requests, Background(FlushStep(l)) PROVE SidecarInv'
      <3>1. FlushStep(l)
        BY <2>5 DEF Background
      <3>2. UNCHANGED <<ctx, submit, stopped>>
        BY <3>1, Frames DEF FlushStep, FlushDropCancelled, FlushKeep,
           FlushBuildFails, FlushPost, FlushNoResponse, FlushDecoded, FlushMatch,
           FlushUnknown, FlushMissing, FlushFail, FlushReturn
      <3>3. UNCHANGED <<rpc, reply, rejected, main>>
        BY <2>5 DEF Background, sidecarVars
      <3>4. QED BY <3>1, <3>2, <3>3, FlushDelivers, BackgroundKeeps
    <2>6. CASE UNCHANGED allVars
      <3>1. UNCHANGED <<ctx, submit, stopped, results, rpc, reply, rejected, main>>
        BY <2>6 DEF allVars, vars, sidecarVars
      <3>2. QED BY <3>1, BackgroundKeeps DEF Delivered
    <2>7. QED BY <2>1, <2>2, <2>3, <2>4, <2>5, <2>6 DEF SidecarNext
  <1>2. QED BY <1>1, SidecarInvInit, BatcherInProcess, PTL DEF SidecarSpec

\* Every variable of the process keeps its type, those of the batcher too
\* (main.go:119-151, server.go:66-116).
THEOREM SidecarTypeCorrect == SidecarSpec => []SidecarTypeOK
  <1>1. SidecarInv => SidecarTypeOK
    BY DEF SidecarInv
  <1>2. QED BY <1>1, SidecarInductive, PTL

\* A response never reports as a backend error that the batcher was stopping.
THEOREM ErrorsAreTheBackends == SidecarSpec => []OnlyBackendErrorsInBody
  <1>1. SidecarInv => OnlyBackendErrorsInBody
    BY DEF SidecarInv
  <1>2. QED BY <1>1, SidecarInductive, PTL

\* The process ends with nobody waiting, also when its Stop panics: an accepted
\* request that has no Result belongs to a client that had left.
THEOREM NobodyLostAtExit == SidecarSpec => []LostOnlyCancelled
  <1>1. SidecarInv /\ IndInv => LostOnlyCancelled
    <2> SUFFICES ASSUME SidecarInv, IndInv, main = "exited" \/ Panicked,
                        NEW r \in Requests, Pending(r)
                 PROVE  ctx[r] # "live"
      BY DEF LostOnlyCancelled
    <2>1. Panicked => stopped
      BY DEF Panicked, IndInv, LockShape
    <2>2. rpc[r] \in {"none", "done"}
      BY <2>1 DEF SidecarInv, SidecarTypeOK, ShutdownShape, Handlers
    <2>3. QED BY <2>2 DEF SidecarInv, HandlerShape, Pending
  <1>2. QED BY <1>1, SidecarInductive, BatcherInProcess, PTL

----------------------------------------------------------------------------
(* Every call is counted *)

\* The calls that were turned away for their length, and what is known of every
\* call: one that has been answered was turned away before Submit, or Submit
\* decided about it; no handler meets a batcher that is stopped.
TurnedAway == {r \in Requests : /\ rpc[r] = "done" /\ submit[r] = "new"
                                /\ reply[r] = "InvalidArgument"}

CallsInv ==
    /\ rejected = Cardinality(TurnedAway)
    /\ \A r \in Requests :
          /\ submit[r] # "stopped"
          /\ rpc[r] = "done" =>
                \/ submit[r] = "new" /\ reply[r] \in {"Internal", "InvalidArgument"}
                \/ submit[r] \in Refused \cup {"accepted"}

\* A step of a call that is not turned away for its length.
LEMMA OtherStepsKeepCalls ==
    ASSUME CallsInv, UNCHANGED rejected,
           \A r \in Requests :
              /\ r \in TurnedAway' <=> r \in TurnedAway
              /\ submit'[r] # "stopped"
              /\ \/ rpc'[r] # "done"
                 \/ UNCHANGED <<rpc[r], submit[r], reply[r]>>
                 \/ submit'[r] = "new" /\ reply'[r] \in {"Internal", "InvalidArgument"}
                 \/ submit'[r] \in Refused \cup {"accepted"}
    PROVE  CallsInv'
  <1>1. TurnedAway' = TurnedAway
    BY DEF TurnedAway
  <1>2. rejected' = Cardinality(TurnedAway)'
    BY <1>1 DEF CallsInv
  <1>3. QED BY <1>2 DEF CallsInv

LEMMA HandlerKeepsCalls ==
    ASSUME SidecarInv, IndInv, CallsInv, NEW r \in Requests,
           Arrive(r) \/ Infer(r) \/ ClientLeaves(r)
    PROVE  CallsInv'
  <1>0. /\ rpc \in [Requests -> {"none", "admit", "submit", "done"}]
        /\ reply \in [Requests -> Codes \cup {"none", "output", "error"}]
        /\ submit \in [Requests -> {"new", "admitted", "sending", "accepted"} \cup Refused]
        /\ \A x \in Requests : submit[x] # "stopped"
    BY DEF SidecarInv, SidecarTypeOK, IndInv, TypeOK, CallsInv
  <1>1. CASE Arrive(r) \/ Admit(r) \/ ClientLeaves(r)
    <2>1. /\ UNCHANGED <<submit, reply, rejected>>
          /\ \A x \in Requests : rpc'[x] = rpc[x] \/ (rpc[x] # "done" /\ rpc'[x] # "done")
      BY <1>1, <1>0 DEF Arrive, Admit, ClientLeaves, CancelCtx, sidecarVars, vars
    <2>2. QED BY <2>1, <1>0, OtherStepsKeepCalls DEF TurnedAway
  <1>2. CASE CallSubmit(r)
    <2>1. ~stopped /\ rpc[r] = "submit"
      BY <1>2 DEF CallSubmit, SidecarInv, ShutdownShape, Handlers
    <2>2. /\ UNCHANGED <<rpc, reply, rejected>> /\ submit'[r] # "stopped"
          /\ \A x \in Requests \ {r} : submit'[x] = submit[x]
      BY <1>2, <2>1, <1>0, Frames DEF CallSubmit, Submit, SubmitRejectOpen,
         SubmitPassCircuit, SubmitRejectStopped, SubmitRLock, SubmitEnqueue,
         SubmitRejectFull, sidecarVars
    <2>3. QED BY <2>1, <2>2, <1>0, OtherStepsKeepCalls DEF TurnedAway
  <1>3. CASE TokenizerFails(r)
    <2>1. /\ rpc' = [rpc EXCEPT ![r] = "done"] /\ reply' = [reply EXCEPT ![r] = "Internal"]
          /\ rpc[r] = "admit" /\ UNCHANGED <<submit, rejected>>
      BY <1>3 DEF TokenizerFails, Return, vars
    <2>2. submit[r] = "new"
      BY <2>1 DEF SidecarInv, HandlerShape
    <2>3. QED BY <2>1, <2>2, <1>0, OtherStepsKeepCalls DEF TurnedAway
  <1>4. CASE SubmitErr(r) \/ TakeResult(r) \/ LeaveOnCtx(r)
    <2>1. /\ rpc[r] = "submit" /\ submit[r] \in Refused \cup {"accepted"}
          /\ \E answer : Return(r, answer)
          /\ UNCHANGED <<submit, rejected>>
      BY <1>4 DEF SubmitErr, TakeResult, LeaveOnCtx, vars
    <2>2. PICK answer : /\ rpc' = [rpc EXCEPT ![r] = "done"]
                        /\ reply' = [reply EXCEPT ![r] = answer]
      BY <2>1 DEF Return
    <2>3. QED BY <2>1, <2>2, <1>0, OtherStepsKeepCalls DEF TurnedAway, Refused
  <1>5. CASE RejectTooLong(r)
    <2>1. /\ rpc' = [rpc EXCEPT ![r] = "done"]
          /\ reply' = [reply EXCEPT ![r] = "InvalidArgument"]
          /\ rpc[r] = "admit" /\ UNCHANGED submit /\ rejected' = rejected + 1
      BY <1>5 DEF RejectTooLong, Return, vars
    <2>2. submit[r] = "new"
      BY <2>1 DEF SidecarInv, HandlerShape
    <2>3. TurnedAway' = TurnedAway \cup {r} /\ r \notin TurnedAway
      BY <2>1, <2>2, <1>0 DEF TurnedAway
    <2>4. TurnedAway \in SUBSET Requests
      BY DEF TurnedAway
    <2>5. Cardinality(TurnedAway') = Cardinality(TurnedAway) + 1
      BY <2>3, <2>4, SetsOfRequests
    <2>6. rejected' = Cardinality(TurnedAway)'
      BY <2>1, <2>5 DEF CallsInv
    <2>7. QED BY <2>1, <2>2, <2>6, <1>0 DEF CallsInv
  <1>6. QED BY <1>1, <1>2, <1>3, <1>4, <1>5 DEF Infer

LEMMA CallsInvStep ==
    ASSUME SidecarInv, IndInv, CallsInv, [SidecarNext]_allVars PROVE CallsInv'
  <1>1. CASE UNCHANGED <<submit, rpc, reply, rejected>>
    BY <1>1 DEF CallsInv, TurnedAway
  <1>2. CASE Main \/ UNCHANGED allVars
    <2>1. UNCHANGED <<submit, rpc, reply, rejected>>
      BY <1>2, Frames DEF Main, Signal, GracefulStopReturns, StopBatcher, Exit, vars,
         StopStep, StopEnter, StopSkip, StopMark, StopClose, StopReturn,
       StopPanics, sidecarVars,
         allVars
    <2>2. QED BY <2>1, <1>1
  <1>3. CASE Background(GuardFlip) \/ Background(TrackerExit) \/ Background(LoopStep)
    <2>1. UNCHANGED <<submit, rpc, reply, rejected>>
      BY <1>3, Frames DEF Background, GuardFlip, TrackerExit, LoopStep, LoopStart,
         LoopPeek, CollectTake, CollectReturn, LoopFlush, LoopIdle, DrainOne,
         DrainDone, sidecarVars
    <2>2. QED BY <2>1, <1>1
  <1>4. ASSUME NEW l \in Requests, Background(FlushStep(l)) PROVE CallsInv'
    <2>1. UNCHANGED <<submit, rpc, reply, rejected>>
      BY <1>4, Frames DEF Background, FlushStep, FlushDropCancelled, FlushKeep,
         FlushBuildFails, FlushPost, FlushNoResponse, FlushDecoded, FlushMatch,
         FlushUnknown, FlushMissing, FlushFail, FlushReturn, sidecarVars
    <2>2. QED BY <2>1, <1>1
  <1>5. ASSUME NEW r \in Requests, Arrive(r) \/ Infer(r) \/ ClientLeaves(r)
        PROVE  CallsInv'
    BY <1>5, HandlerKeepsCalls
  <1>6. QED BY <1>2, <1>3, <1>4, <1>5 DEF SidecarNext

\* The calls that have returned are the disjoint union of the sets that the five
\* counters count.
LEMMA CallsAreCounted ==
    ASSUME SidecarInv, IndInv, CallsInv, CountInv PROVE CallsCounted
  <1> DEFINE Arrived == {r \in Requests : rpc[r] # "none"}
             Faulty  == {r \in Requests : submit[r] = "new" /\ reply[r] = "Internal"}
             Trips == {r \in Requests : submit[r] = "circuitOpen"}
             Full  == {r \in Requests : submit[r] = "queueFull"}
             Won   == ResultsOf({"ok"})
             Lost  == ResultsOf(ResultKinds \ {"ok"})
  <1> SUFFICES ASSUME \A r \in Arrived : rpc[r] = "done" /\ ~Pending(r)
               PROVE  Cardinality(Arrived \ Faulty)
                        = rejected + metrics["circuitBreakerTrips"] + metrics["queueRejects"]
                            + metrics["inferSuccess"] + metrics["inferErrors"]
    BY DEF CallsCounted
  <1>0. /\ rpc \in [Requests -> {"none", "admit", "submit", "done"}]
        /\ submit \in [Requests -> {"new", "admitted", "sending", "accepted"} \cup Refused]
        /\ results \in [Requests -> Seq(Result)]
        /\ \A r \in Requests : rpc[r] = "none" => submit[r] = "new"
    BY DEF SidecarInv, SidecarTypeOK, HandlerShape, IndInv, TypeOK
  <1>1. ASSUME NEW r \in Requests
        PROVE  /\ r \in Won => submit[r] = "accepted" /\ r \notin Lost
               /\ r \in Lost => submit[r] = "accepted"
               /\ submit[r] = "accepted" /\ results[r] # <<>> => r \in Won \cup Lost
    <2>1. Len(results[r]) <= 1 /\ (results[r] # <<>> => submit[r] = "accepted")
      BY DEF IndInv, AtMostOneResult
    <2>2. results[r] = <<>> \/ DOMAIN results[r] = {1}
      BY <1>0, <2>1
    <2>3. CASE results[r] = <<>>
      BY <2>3 DEF ResultsOf
    <2>4. CASE results[r] # <<>>
      <3>1. DOMAIN results[r] = {1} /\ results[r][1] \in Result
        BY <2>2, <2>4, <1>0
      <3>2. results[r][1].kind \in ResultKinds
        BY <3>1 DEF Result
      <3>3. r \in Won <=> results[r][1].kind = "ok"
        BY <3>1 DEF ResultsOf
      <3>4. r \in Lost <=> results[r][1].kind # "ok"
        BY <3>1, <3>2 DEF ResultsOf
      <3>5. QED BY <2>1, <2>4, <3>3, <3>4
    <2>5. QED BY <2>3, <2>4
  <1>2. ASSUME NEW r \in Requests
        PROVE  r \in Arrived \ Faulty
                 <=> r \in TurnedAway \cup Trips \cup Full \cup Won \cup Lost
    <2>1. CASE r \in Arrived \ Faulty
      <3>1. \/ submit[r] = "new" /\ reply[r] = "InvalidArgument"
            \/ submit[r] \in {"circuitOpen", "queueFull", "accepted"}
        BY <2>1 DEF CallsInv, Refused
      <3>2. submit[r] = "accepted" => results[r] # <<>>
        BY <2>1 DEF Pending
      <3>3. QED BY <2>1, <3>1, <3>2, <1>1 DEF TurnedAway
    <2>2. CASE r \in TurnedAway
      BY <2>2 DEF TurnedAway
    <2>3. CASE r \in Trips \cup Full \cup Won \cup Lost
      <3>1. submit[r] # "new"
        BY <2>3, <1>1
      <3>2. QED BY <2>3, <3>1, <1>0
    <2>4. QED BY <2>1, <2>2, <2>3
  <1>3. Arrived \ Faulty = TurnedAway \cup Trips \cup Full \cup Won \cup Lost
    <2>1. Won \subseteq Requests /\ Lost \subseteq Requests /\ TurnedAway \subseteq Requests
      BY DEF ResultsOf, TurnedAway
    <2>2. QED BY <1>2, <2>1
  <1>4. /\ TurnedAway \cap Trips = {} /\ (TurnedAway \cup Trips) \cap Full = {}
        /\ (TurnedAway \cup Trips \cup Full) \cap Won = {}
        /\ (TurnedAway \cup Trips \cup Full \cup Won) \cap Lost = {}
    <2>1. \A r \in TurnedAway : r \in Requests /\ submit[r] = "new"
      BY DEF TurnedAway
    <2>2. \A r \in Won \cup Lost : r \in Requests
      BY DEF ResultsOf
    <2>3. QED BY <2>1, <2>2, <1>1
  <1>5. ASSUME NEW S \in SUBSET Requests, NEW T \in SUBSET Requests, S \cap T = {}
        PROVE  /\ Cardinality(S \cup T) = Cardinality(S) + Cardinality(T)
               /\ S \cup T \in SUBSET Requests
    <2>1. /\ IsFiniteSet(S) /\ IsFiniteSet(T)
          /\ Cardinality(S) \in Nat /\ Cardinality(T) \in Nat
      BY SetsOfRequests
    <2>2. Cardinality(S \cup T) = Cardinality(S) + Cardinality(T) - Cardinality(S \cap T)
      BY <2>1, FS_Union
    <2>3. Cardinality(S \cap T) = 0
      BY <1>5, FS_EmptySet
    <2>4. QED BY <2>1, <2>2, <2>3
  <1>6. /\ TurnedAway \in SUBSET Requests /\ Trips \in SUBSET Requests
        /\ Full \in SUBSET Requests /\ Won \in SUBSET Requests /\ Lost \in SUBSET Requests
    BY DEF TurnedAway, ResultsOf
  <1>7. /\ Cardinality(Trips) = metrics["circuitBreakerTrips"]
        /\ Cardinality(Full) = metrics["queueRejects"]
        /\ Cardinality(Won) = metrics["inferSuccess"]
        /\ Cardinality(Lost) = metrics["inferErrors"]
        /\ Cardinality(TurnedAway) = rejected
    BY DEF CountInv, CallsInv
  <1> HIDE DEF Arrived, Faulty, Trips, Full, Won, Lost
  <1>8. /\ Cardinality(TurnedAway \cup Trips) = Cardinality(TurnedAway) + Cardinality(Trips)
        /\ TurnedAway \cup Trips \in SUBSET Requests
    BY <1>4, <1>5, <1>6
  <1>9. /\ Cardinality(TurnedAway \cup Trips \cup Full)
             = Cardinality(TurnedAway \cup Trips) + Cardinality(Full)
        /\ TurnedAway \cup Trips \cup Full \in SUBSET Requests
    BY <1>4, <1>5, <1>6, <1>8
  <1>10. /\ Cardinality(TurnedAway \cup Trips \cup Full \cup Won)
              = Cardinality(TurnedAway \cup Trips \cup Full) + Cardinality(Won)
         /\ TurnedAway \cup Trips \cup Full \cup Won \in SUBSET Requests
    BY <1>4, <1>5, <1>6, <1>9
  <1>11. Cardinality(TurnedAway \cup Trips \cup Full \cup Won \cup Lost)
           = Cardinality(TurnedAway \cup Trips \cup Full \cup Won) + Cardinality(Lost)
    BY <1>4, <1>5, <1>6, <1>10
  <1>12. QED BY <1>3, <1>7, <1>8, <1>9, <1>10, <1>11

\* Once every call has returned with its Result delivered, each is in exactly one
\* of the five counters (metrics.go:20-39, server.go:66-116).
THEOREM EveryCallCounted == SidecarSpec => []CallsCounted
  <1>1. SidecarInit => CallsInv
    <2> SUFFICES ASSUME SidecarInit PROVE CallsInv
      OBVIOUS
    <2>1. TurnedAway = {}
      BY DEF SidecarInit, TurnedAway
    <2>2. Cardinality(TurnedAway) = 0
      BY <2>1, FS_EmptySet
    <2>3. QED BY <2>2 DEF SidecarInit, Init, CallsInv
  <1>2. SidecarInv /\ IndInv /\ CallsInv /\ [SidecarNext]_allVars => CallsInv'
    BY CallsInvStep
  <1>3. SidecarSpec => []CountInv
    BY ProcessUsesBatcher, CountInductive, PTL
  <1>4. SidecarInv /\ IndInv /\ CallsInv /\ CountInv => CallsCounted
    BY CallsAreCounted
  <1>5. QED BY <1>1, <1>2, <1>3, <1>4, SidecarInductive, BatcherInProcess, PTL
        DEF SidecarSpec

=============================================================================
