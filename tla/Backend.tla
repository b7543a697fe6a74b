------------------------------- MODULE Backend -------------------------------
(***************************************************************************)
(* The Python backend, python_backend/main.py, as the batcher's flushes    *)
(* meet it: batches posted to /infer side by side, one call_ollama task    *)
(* per prompt, the process-wide semaphore that bounds the calls of Ollama, *)
(* and the two timeouts, of one Ollama call and of the batcher's whole     *)
(* HTTP exchange.  The handler is not told when the batcher gives a batch  *)
(* up: its tasks keep their places and their permits.                      *)
(*                                                                         *)
(* Time is counted in units that are long against a step of the event      *)
(* loop, so the clock does not advance over work that is ready.            *)
(***************************************************************************)
EXTENDS Integers, Sequences, FiniteSets, Functions

CONSTANTS
    Batches,        \* batches that may be in flight at once
    Size,           \* the number of prompts in each
    Concurrency,    \* OLLAMA_MAX_CONCURRENCY
    OllamaTimeout,  \* the longest that OLLAMA_TIMEOUT_S lets an Ollama call last,
                    \* through every phase of it that httpx bounds
    BatchTimeout,   \* the Timeout of the batcher's http.Client
    Horizon         \* bound: ages are not counted any further

ASSUME BatchesAssumption ==
    IsFiniteSet(Batches) /\ Size \in [Batches -> Nat \ {0}]
ASSUME ConcurrencyAssumption == Concurrency \in Nat \ {0}
ASSUME TimesAssumption ==
    /\ OllamaTimeout \in Nat \ {0} /\ BatchTimeout \in Nat \ {0}
    /\ Horizon \in Nat /\ Horizon > BatchTimeout

VARIABLES
    call,      \* each batch as the batcher sees it
    body,      \* the results it got
    handler,   \* the infer handler of each batch
    finished,  \* the results of its tasks, in the order in which they came
    permits,   \* the value of the semaphore
    waiters,   \* the tasks that wait for a permit, first come first served
    running,   \* the tasks that hold one, with the age of their Ollama call
    age,       \* time since the batch was posted
    due        \* history: the age by which it should be served

clientVars == <<call, body>>
taskVars   == <<finished, permits, waiters, running>>
vars == <<call, body, handler, finished, permits, waiters, running, age, due>>

\* The task of the i-th prompt of batch b.
Tasks == UNION {{<<b, i>> : i \in 1..Size[b]} : b \in Batches}

NoCalls == [t \in {} |-> 0]

Init ==
    /\ call = [b \in Batches |-> "idle"]
    /\ body = [b \in Batches |-> <<>>]
    /\ handler = [b \in Batches |-> "none"]
    /\ finished = [b \in Batches |-> <<>>]
    /\ permits = Concurrency
    /\ waiters = <<>> /\ running = NoCalls
    /\ age = [b \in Batches |-> 0] /\ due = [b \in Batches |-> 0]

----------------------------------------------------------------------------
(* The batcher *)

\* flushBatch posts a payload.
Post(b) ==
    /\ call[b] # "open" /\ handler[b] # "gather"
    /\ call' = [call EXCEPT ![b] = "open"]
    /\ body' = [body EXCEPT ![b] = <<>>]
    /\ handler' = [handler EXCEPT ![b] = "none"]
    /\ age' = [age EXCEPT ![b] = 0] /\ due' = [due EXCEPT ![b] = 0]
    /\ UNCHANGED taskVars

\* The timeout of the http.Client passes.
GiveUp(b) ==
    /\ call[b] = "open" /\ age[b] = BatchTimeout
    /\ call' = [call EXCEPT ![b] = "late"]
    /\ UNCHANGED <<body, handler, taskVars, age, due>>

\* The connection breaks.
Cut(b) ==
    /\ call[b] = "open"
    /\ call' = [call EXCEPT ![b] = "cut"]
    /\ UNCHANGED <<body, handler, taskVars, age, due>>

----------------------------------------------------------------------------
(* infer and call_ollama *)

\* The rounds of Ollama calls that n tasks need behind those ahead of them.
Rounds(ahead, n) == (ahead + n + Concurrency - 1) \div Concurrency

Unfinished == Len(waiters) + Cardinality(DOMAIN running)

Least(m, n) == IF m < n THEN m ELSE n

\* gather starts every task of the batch in one turn of the event loop: the
\* first ones take the permits that are left and the others queue up in order.
\* The payload may be read after the batcher has given up.
Infer(b) ==
    /\ call[b] # "idle" /\ handler[b] = "none"
    /\ handler' = [handler EXCEPT ![b] = "gather"]
    /\ LET got == Least(permits, Size[b])
       IN  /\ permits' = permits - got
           /\ running' = [t \in DOMAIN running \cup {<<b, i>> : i \in 1..got} |->
                             IF t \in DOMAIN running THEN running[t] ELSE 0]
           /\ waiters' = waiters \o [i \in 1..(Size[b] - got) |-> <<b, got + i>>]
    /\ due' = [due EXCEPT ![b] = age[b] + OllamaTimeout * Rounds(Unfinished, Size[b])]
    /\ UNCHANGED <<clientVars, finished, age>>

\* Mutants of Release: an error path keeps the permit; the permit is both handed
\* over and given back.
ReleaseLost(t, ok) ==
    IF waiters = <<>> \/ ~ok
    THEN /\ permits' = IF ok THEN permits + 1 ELSE permits
         /\ running' = Restrict(running, DOMAIN running \ {t})
         /\ UNCHANGED waiters
    ELSE /\ running' = [s \in (DOMAIN running \ {t}) \cup {Head(waiters)} |->
                           IF s \in DOMAIN running THEN running[s] ELSE 0]
         /\ waiters' = Tail(waiters)
         /\ UNCHANGED permits
ReleaseTwice(t, ok) ==
    /\ permits' = permits + 1
    /\ LET next == IF waiters = <<>> THEN {} ELSE {Head(waiters)}
       IN  /\ running' = [s \in (DOMAIN running \ {t}) \cup next |->
                             IF s \in DOMAIN running THEN running[s] ELSE 0]
           /\ waiters' = IF next = {} THEN <<>> ELSE Tail(waiters)

\* The end of "async with semaphore", on the way out with a response or with an
\* exception: the permit goes to the first waiter, or back.
Release(t, ok) ==
    IF waiters = <<>>
    THEN /\ permits' = permits + 1
         /\ running' = Restrict(running, DOMAIN running \ {t})
         /\ UNCHANGED waiters
    ELSE /\ running' = [s \in (DOMAIN running \ {t}) \cup {Head(waiters)} |->
                           IF s \in DOMAIN running THEN running[s] ELSE 0]
         /\ waiters' = Tail(waiters)
         /\ UNCHANGED permits

\* The Ollama call of a task ends: with a usable response, or with an error, at
\* any time up to its timeout, that becomes the result of this prompt.
Finish(t, ok) ==
    /\ t \in DOMAIN running
    /\ Release(t, ok)
    /\ finished' = [finished EXCEPT ![t[1]] = Append(@, [of |-> t[2], ok |-> ok])]
    /\ UNCHANGED <<clientVars, handler, age, due>>

TaskStep == \E t \in DOMAIN running, ok \in BOOLEAN : Finish(t, ok)

Gathered(b) == handler[b] = "gather" /\ Len(finished[b]) = Size[b]

\* Mutant of InOrder: the results are returned as they come.
AsCompleted(b) == finished[b]

\* gather returns the results in the order of its tasks.
InOrder(b) == [i \in 1..Size[b] |->
                  CHOOSE r \in Range(finished[b]) : r.of = i]

\* Mutant of Respond: the first error of a task is raised by gather, and the
\* batch fails with status 500 while its other tasks go on.
RespondRaises(b) ==
    LET failed == handler[b] = "gather" /\ \E r \in Range(finished[b]) : ~r.ok IN
    /\ failed \/ Gathered(b)
    /\ handler' = [handler EXCEPT ![b] = "returned"]
    /\ call' = [call EXCEPT ![b] = IF @ # "open" THEN @
                                   ELSE IF failed THEN "late" ELSE "answered"]
    /\ body' = [body EXCEPT ![b] = IF failed THEN @ ELSE InOrder(b)]
    /\ finished' = [finished EXCEPT ![b] = <<>>]
    /\ age' = [age EXCEPT ![b] = 0]
    /\ UNCHANGED <<permits, waiters, running, due>>

\* The handler returns; nobody reads the response of a batch given up.
Respond(b) ==
    /\ Gathered(b)
    /\ handler' = [handler EXCEPT ![b] = "returned"]
    /\ IF call[b] = "open"
       THEN /\ call' = [call EXCEPT ![b] = "answered"]
            /\ body' = [body EXCEPT ![b] = InOrder(b)]
       ELSE UNCHANGED <<call, body>>
    /\ finished' = [finished EXCEPT ![b] = <<>>]
    /\ age' = [age EXCEPT ![b] = 0]
    /\ UNCHANGED <<permits, waiters, running, due>>

----------------------------------------------------------------------------
(* The clock *)

Aging(b) == call[b] = "open" \/ handler[b] = "gather"

\* No deadline is passed over: a call of Ollama that is as old as it may get
\* ends, a batch as old as the batcher waits for is given up.
Tick ==
    /\ \E b \in Batches : Aging(b)
    /\ \A b \in Batches : /\ ~Gathered(b)
                          /\ call[b] = "open" => age[b] < BatchTimeout
    /\ \A t \in DOMAIN running : running[t] < OllamaTimeout
    /\ running' = [t \in DOMAIN running |-> running[t] + 1]
    /\ age' = [b \in Batches |->
                  IF Aging(b) THEN Least(age[b] + 1, Horizon) ELSE age[b]]
    /\ UNCHANGED <<clientVars, handler, finished, permits, waiters, due>>

----------------------------------------------------------------------------

Next ==
    \/ Tick
    \/ TaskStep
    \/ \E b \in Batches : Post(b) \/ GiveUp(b) \/ Cut(b) \/ Infer(b) \/ Respond(b)

Spec == Init /\ [][Next]_vars

\* Time passes, whatever else happens; a deadline that is due is kept; the event
\* loop runs what is ready, and a payload that was sent arrives unless its
\* connection ends first.  Nobody is obliged to post.
TimesOut == \E t \in DOMAIN running :
                running[t] = OllamaTimeout /\ Finish(t, FALSE)

Fairness ==
    /\ SF_vars(Tick) /\ WF_vars(TimesOut)
    /\ \A b \in Batches : /\ WF_vars(GiveUp(b)) /\ WF_vars(Respond(b))
                          /\ WF_vars(call[b] = "open" /\ Infer(b))

FairSpec == Spec /\ Fairness
=============================================================================
