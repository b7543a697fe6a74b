------------------------------- MODULE Sidecar -------------------------------
(***************************************************************************)
(* The sidecar process around the batcher of Batcher.tla: the handlers of  *)
(* Infer in internal/grpcserver/server.go, each with one *Request, and the *)
(* shutdown of cmd/sidecar/main.go.  The client of a call decides when its *)
(* context ends; a prompt may be too long, or make the tokenizer fail.     *)
(***************************************************************************)
EXTENDS Batcher

\* main calls Stop once, and every request carries the context of its RPC.
ASSUME SidecarAssumption ==
    /\ HasCtx = Requests
    /\ CtxErrs \subseteq {"Canceled", "DeadlineExceeded"}
    /\ Stoppers # {} /\ \A s, t \in Stoppers : s = t

VARIABLES
    rpc,       \* where the handler of each request is
    reply,     \* what it returned: a status code, or a response with an
               \* "output" or an "error"
    rejected,  \* m.RejectedRequests
    main       \* where main is

sidecarVars == <<rpc, reply, rejected, main>>
allVars == <<vars, sidecarVars>>

Codes == {"InvalidArgument", "Internal", "ResourceExhausted", "Unavailable",
          "Canceled", "DeadlineExceeded"}

SidecarInit ==
    /\ Init
    /\ rpc = [r \in Requests |-> "none"]
    /\ reply = [r \in Requests |-> "none"]
    /\ rejected = 0
    /\ main = "ready"

----------------------------------------------------------------------------
(* Infer *)

Return(r, answer) ==
    /\ rpc' = [rpc EXCEPT ![r] = "done"]
    /\ reply' = [reply EXCEPT ![r] = answer]

\* GracefulStop closes the listener before it waits.
Arrive(r) ==
    /\ rpc[r] = "none" /\ main = "ready"
    /\ rpc' = [rpc EXCEPT ![r] = "admit"]
    /\ UNCHANGED <<vars, reply, rejected, main>>

TokenizerFails(r) ==
    /\ rpc[r] = "admit"
    /\ Return(r, "Internal")
    /\ UNCHANGED <<vars, rejected, main>>

RejectTooLong(r) ==
    /\ rpc[r] = "admit"
    /\ Return(r, "InvalidArgument")
    /\ rejected' = rejected + 1
    /\ UNCHANGED <<vars, main>>

Admit(r) ==
    /\ rpc[r] = "admit"
    /\ rpc' = [rpc EXCEPT ![r] = "submit"]
    /\ UNCHANGED <<vars, reply, rejected, main>>

\* b.Submit, step by step.
CallSubmit(r) ==
    /\ rpc[r] = "submit" /\ Submit(r)
    /\ UNCHANGED sidecarVars

\* statusFromSubmitErr
StatusFromSubmitErr(err) ==
    IF err \in {"circuitOpen", "queueFull"} THEN "ResourceExhausted" ELSE "Unavailable"

SubmitErr(r) ==
    /\ rpc[r] = "submit" /\ submit[r] \in Refused
    /\ Return(r, StatusFromSubmitErr(submit[r]))
    /\ UNCHANGED <<vars, rejected, main>>

\* statusFromResultErr: other errors are opaque and go into the response.
AnswerFor(kind) ==
    CASE kind = "ok"          -> "output"
      [] kind = "unavailable" -> "Unavailable"
      [] kind = "invalid"     -> "Internal"
      [] kind \in CtxErrs     -> kind
      [] OTHER                -> "error"

\* The select of Infer.  With the result and ctx.Done ready it takes either.
TakeResult(r) ==
    /\ rpc[r] = "submit" /\ submit[r] = "accepted" /\ results[r] # <<>>
    /\ Return(r, AnswerFor(Head(results[r]).kind))
    /\ UNCHANGED <<vars, rejected, main>>

\* Mutant of LeaveOnCtx: the handler gives up without its context ending.
LeaveEarly(r) ==
    /\ rpc[r] = "submit" /\ submit[r] = "accepted"
    /\ Return(r, "Canceled")
    /\ UNCHANGED <<vars, rejected, main>>

LeaveOnCtx(r) ==
    /\ rpc[r] = "submit" /\ submit[r] = "accepted" /\ ctx[r] # "live"
    /\ Return(r, ctx[r])
    /\ UNCHANGED <<vars, rejected, main>>

\* The context of an RPC ends while its handler runs, by the client or by its
\* deadline.
ClientLeaves(r) ==
    /\ rpc[r] \in {"admit", "submit"} /\ CancelCtx(r)
    /\ UNCHANGED sidecarVars

Infer(r) == \/ TokenizerFails(r) \/ RejectTooLong(r) \/ Admit(r)
            \/ CallSubmit(r) \/ SubmitErr(r) \/ TakeResult(r) \/ LeaveOnCtx(r)

----------------------------------------------------------------------------
(* main, from the signal on *)

Signal ==
    /\ main = "ready"
    /\ main' = "graceful"
    /\ UNCHANGED <<vars, rpc, reply, rejected>>

Handlers == {r \in Requests : rpc[r] \in {"admit", "submit"}}

\* Mutant of GracefulStopReturns: the handlers are not waited for.
GracefulStopReturnsEarly ==
    /\ main = "graceful"
    /\ main' = "stopBatcher"
    /\ UNCHANGED <<vars, rpc, reply, rejected>>

GracefulStopReturns ==
    /\ main = "graceful" /\ Handlers = {}
    /\ main' = "stopBatcher"
    /\ UNCHANGED <<vars, rpc, reply, rejected>>

StopBatcher ==
    /\ main = "stopBatcher" /\ \E s \in Stoppers : StopStep(s)
    /\ UNCHANGED sidecarVars

\* vg.Stop and the rest of main wait for nothing of the batcher.
Exit ==
    /\ main = "stopBatcher" /\ \A s \in Stoppers : stop[s] = "returned"
    /\ main' = "exited"
    /\ UNCHANGED <<vars, rpc, reply, rejected>>

Main == Signal \/ GracefulStopReturns \/ StopBatcher \/ Exit

----------------------------------------------------------------------------
(* The process: its goroutines end when main does, or when a Stop panics *)

Alive == main # "exited" /\ ~Panicked
Background(A) == Alive /\ A /\ UNCHANGED sidecarVars

SidecarNext ==
    \/ Alive /\ Main
    \/ Background(GuardFlip)
    \/ Background(LoopStep)
    \/ Background(TrackerExit)
    \/ \E r \in Requests :
          \/ Alive /\ (Arrive(r) \/ Infer(r) \/ ClientLeaves(r))
          \/ Background(FlushStep(r))

SidecarSpec == SidecarInit /\ [][SidecarNext]_allVars

\* The steps of the goroutines that come to an end: handlers, flushes, the tracker,
\* and main once it has the signal.
Finite == \/ Background(TrackerExit)
          \/ Alive /\ main # "ready" /\ Main
          \/ \E r \in Requests : Background(FlushStep(r)) \/ (Alive /\ Infer(r))

\* The loop is scheduled as in Batcher.tla.  Of the others the scheduler runs one as
\* long as there is one that can run; each takes finitely many steps.
SidecarFairness ==
    /\ WF_allVars(Background(LoopStep))
    /\ SF_allVars(Background(CollectTake))
    /\ WF_allVars(Finite)

FairSidecarSpec == SidecarSpec /\ SidecarFairness
=============================================================================
