---------------------------- MODULE BackendProofs ----------------------------
(***************************************************************************)
(* Proofs about Backend.tla for any batches and any numbers of prompts and *)
(* permits: no permit and no task is lost or duplicated, and so an answer  *)
(* holds one result per prompt, in order; and for any timeouts a batch is  *)
(* through when the rounds of Ollama calls that it found have passed.      *)
(***************************************************************************)
EXTENDS BackendProperties, FiniteSetTheorems, SequenceTheorems, TLAPS

----------------------------------------------------------------------------
(* Sequences and sets of tasks *)

\* The elements of a sequence have its type.
LEMMA RangeTyped ==
    ASSUME NEW S, NEW s \in Seq(S)
    PROVE  Range(s) \subseteq S
  BY DEF Range

\* Appending to the results of a batch adds the new one.
LEMMA RangeAppend ==
    ASSUME NEW S, NEW s \in Seq(S), NEW e \in S
    PROVE  /\ Append(s, e) \in Seq(S)
           /\ Len(Append(s, e)) = Len(s) + 1
           /\ Range(Append(s, e)) = Range(s) \cup {e}
  <1>1. Append(s, e) \in Seq(S) /\ Len(Append(s, e)) = Len(s) + 1
    BY AppendProperties
  <1>2. /\ Len(s) \in Nat /\ DOMAIN s = 1..Len(s)
        /\ DOMAIN Append(s, e) = 1..(Len(s) + 1)
        /\ \A k \in 1..Len(s) : Append(s, e)[k] = s[k]
        /\ Append(s, e)[Len(s) + 1] = e
    BY AppendProperties
  <1>3. \A k \in 1..(Len(s) + 1) : k \in 1..Len(s) \/ k = Len(s) + 1
    BY <1>2
  <1>4. Range(Append(s, e)) \subseteq Range(s) \cup {e}
    BY <1>2, <1>3 DEF Range
  <1>5. Range(s) \cup {e} \subseteq Range(Append(s, e))
    BY <1>2 DEF Range
  <1>6. QED BY <1>1, <1>4, <1>5

\* The first waiter is taken out of the queue.
LEMMA HeadLeaves ==
    ASSUME NEW S, NEW s \in Seq(S), s # <<>>, IsInjective(s)
    PROVE  /\ Head(s) \in S /\ Tail(s) \in Seq(S)
           /\ Head(s) \in Range(s)
           /\ Range(Tail(s)) = Range(s) \ {Head(s)}
           /\ IsInjective(Tail(s))
  <1>1. /\ Len(s) \in Nat \ {0} /\ DOMAIN s = 1..Len(s)
        /\ Head(s) = s[1] /\ Tail(s) \in Seq(S) /\ Len(Tail(s)) = Len(s) - 1
        /\ DOMAIN Tail(s) = 1..(Len(s) - 1)
        /\ \A k \in 1..(Len(s) - 1) : Tail(s)[k] = s[k + 1]
    OBVIOUS
  <1>2. \A j, k \in 1..Len(s) : s[j] = s[k] => j = k
    BY <1>1 DEF IsInjective
  <1>3. ASSUME NEW k \in 1..(Len(s) - 1) PROVE Tail(s)[k] \in Range(s) \ {Head(s)}
    <2>1. k + 1 \in 1..Len(s) /\ 1 \in 1..Len(s) /\ k + 1 # 1
      BY <1>1
    <2>2. Tail(s)[k] = s[k + 1] /\ s[k + 1] # s[1]
      BY <1>1, <1>2, <2>1
    <2>3. QED BY <2>1, <2>2, <1>1 DEF Range
  <1>4. ASSUME NEW k \in 1..Len(s), s[k] # Head(s) PROVE s[k] \in Range(Tail(s))
    <2>1. k - 1 \in 1..(Len(s) - 1) /\ Tail(s)[k - 1] = s[k]
      BY <1>1, <1>4
    <2>2. QED BY <2>1, <1>1 DEF Range
  <1>5. Range(Tail(s)) = Range(s) \ {Head(s)}
    BY <1>1, <1>3, <1>4 DEF Range
  <1>6. ASSUME NEW j \in 1..(Len(s) - 1), NEW k \in 1..(Len(s) - 1), Tail(s)[j] = Tail(s)[k]
        PROVE  j = k
    BY <1>1, <1>2, <1>6
  <1>7. IsInjective(Tail(s))
    BY <1>1, <1>6 DEF IsInjective
  <1>8. Head(s) \in S /\ Head(s) \in Range(s)
    BY <1>1 DEF Range
  <1>9. QED BY <1>1, <1>5, <1>7, <1>8

\* New tasks queue up behind others.
LEMMA JoinQueue ==
    ASSUME NEW S, NEW s \in Seq(S), NEW u \in Seq(S),
           IsInjective(s), IsInjective(u), Range(s) \cap Range(u) = {}
    PROVE  /\ s \o u \in Seq(S) /\ IsInjective(s \o u)
           /\ Range(s \o u) = Range(s) \cup Range(u)
  <1>1. s \o u \in Seq(S) /\ Range(s \o u) = Range(s) \cup Range(u)
    BY ConcatProperties, RangeConcatenation
  <1>2. /\ Len(s) \in Nat /\ Len(u) \in Nat
        /\ DOMAIN s = 1..Len(s) /\ DOMAIN u = 1..Len(u)
        /\ DOMAIN (s \o u) = 1..(Len(s) + Len(u))
        /\ \A k \in 1..(Len(s) + Len(u)) :
              (s \o u)[k] = IF k <= Len(s) THEN s[k] ELSE u[k - Len(s)]
    BY ConcatProperties
  <1>3. /\ \A j, k \in 1..Len(s) : s[j] = s[k] => j = k
        /\ \A j, k \in 1..Len(u) : u[j] = u[k] => j = k
        /\ \A j \in 1..Len(s), k \in 1..Len(u) : s[j] # u[k]
    BY <1>2 DEF IsInjective, Range
  <1> DEFINE w == s \o u
  <1>4. \A k \in 1..(Len(s) + Len(u)) :
            w[k] = IF k <= Len(s) THEN s[k] ELSE u[k - Len(s)]
    BY <1>2
  <1> HIDE DEF w
  <1>5. ASSUME NEW j \in 1..(Len(s) + Len(u)), NEW k \in 1..(Len(s) + Len(u)), w[j] = w[k]
        PROVE  j = k
    <2>1. CASE j <= Len(s) /\ k <= Len(s)
      BY <2>1, <1>2, <1>3, <1>4, <1>5
    <2>2. CASE ~(j <= Len(s)) /\ ~(k <= Len(s))
      <3>1. j - Len(s) \in 1..Len(u) /\ k - Len(s) \in 1..Len(u)
        BY <2>2, <1>2
      <3>2. u[j - Len(s)] = u[k - Len(s)]
        BY <2>2, <1>4, <1>5
      <3>3. j - Len(s) = k - Len(s)
        BY <3>1, <3>2, <1>3
      <3>4. QED BY <3>3, <1>2
    <2>3. CASE j <= Len(s) /\ ~(k <= Len(s))
      <3>1. j \in 1..Len(s) /\ k - Len(s) \in 1..Len(u)
        BY <2>3, <1>2
      <3>2. s[j] = u[k - Len(s)]
        BY <2>3, <1>4, <1>5
      <3>3. QED BY <3>1, <3>2, <1>3
    <2>4. CASE ~(j <= Len(s)) /\ k <= Len(s)
      <3>1. k \in 1..Len(s) /\ j - Len(s) \in 1..Len(u)
        BY <2>4, <1>2
      <3>2. s[k] = u[j - Len(s)]
        BY <2>4, <1>4, <1>5
      <3>3. QED BY <3>1, <3>2, <1>3
    <2>5. QED BY <2>1, <2>2, <2>3, <2>4
  <1>6. IsInjective(s \o u)
    BY <1>2, <1>5 DEF IsInjective, w
  <1>7. QED BY <1>1, <1>6

\* The first n tasks of a batch are n tasks.
LEMMA CountTasks ==
    ASSUME NEW b \in Batches, NEW n \in Nat
    PROVE  LET T == {<<b, i>> : i \in 1..n}
           IN  IsFiniteSet(T) /\ Cardinality(T) = n
  <1> DEFINE T == {<<b, i>> : i \in 1..n}
             f == [i \in 1..n |-> <<b, i>>]
  <1>1. IsFiniteSet(1..n) /\ Cardinality(1..n) = n
    BY FS_Interval
  <1>2. f \in [1..n -> T]
    OBVIOUS
  <1>3. \A i, j \in 1..n : f[i] = f[j] => i = j
    OBVIOUS
  <1>4. \A t \in T : \E i \in 1..n : f[i] = t
    OBVIOUS
  <1> HIDE DEF T, f
  <1>5. f \in Bijection(1..n, T)
    <2>1. DOMAIN f = 1..n
      BY <1>2
    <2>2. IsInjective(f)
      BY <2>1, <1>3 DEF IsInjective
    <2>3. f \in Injection(1..n, T)
      BY <2>2, <1>2 DEF Injection
    <2>4. f \in Surjection(1..n, T)
      BY <1>2, <1>4 DEF Surjection
    <2>5. QED BY <2>3, <2>4 DEF Bijection
  <1>6. IsFiniteSet(T) /\ Cardinality(T) = n
    BY <1>1, <1>5, FS_Bijection DEF ExistsBijection
  <1>7. QED BY <1>6 DEF T

----------------------------------------------------------------------------
(* The inductive invariant *)

\* A batch has results only while its handler gathers them, and of its own
\* prompts only.
ResultsShape ==
    \A b \in Batches :
        /\ FinishedOf(b) \subseteq 1..Size[b]
        /\ handler[b] # "gather" => finished[b] = <<>>

BackendInv == /\ TypeOK /\ IsFiniteSet(DOMAIN running)
              /\ PermitsAccounted /\ TasksAccounted /\ ResultsShape

InFlight == Range(waiters) \cup DOMAIN running

\* TasksAccounted, task by task.
Accounted ==
    \A b \in Batches : \A i \in 1..Size[b] :
        <<b, i>> \in InFlight <=> handler[b] = "gather" /\ i \notin FinishedOf(b)

\* What BackendInv says of the queue and of the results.
LEMMA TasksByName ==
    TasksAccounted <=>
        /\ IsInjective(waiters) /\ Range(waiters) \cap DOMAIN running = {}
        /\ \A b \in Batches : Len(finished[b]) = Cardinality(FinishedOf(b))
        /\ Accounted
  <1>1. ASSUME NEW b \in Batches
        PROVE  ({i \in 1..Size[b] : <<b, i>> \in Range(waiters) \cup DOMAIN running}
                  = IF handler[b] = "gather" THEN (1..Size[b]) \ FinishedOf(b) ELSE {})
               <=> \A i \in 1..Size[b] :
                     <<b, i>> \in InFlight <=> handler[b] = "gather" /\ i \notin FinishedOf(b)
    <2>1. CASE handler[b] = "gather"
      BY <2>1 DEF InFlight
    <2>2. CASE handler[b] # "gather"
      BY <2>2 DEF InFlight
    <2>3. QED BY <2>1, <2>2
  <1>2. QED BY <1>1 DEF TasksAccounted, Accounted

LEMMA TasksByNameNext ==
    ASSUME IsInjective(waiters)', (Range(waiters) \cap DOMAIN running = {})',
           \A b \in Batches : Len(finished'[b]) = Cardinality(FinishedOf(b)'),
           Accounted'
    PROVE  TasksAccounted'
  <1>1. ASSUME NEW b \in Batches
        PROVE  {i \in 1..Size[b] : <<b, i>> \in Range(waiters') \cup DOMAIN running'}
                  = IF handler'[b] = "gather" THEN (1..Size[b]) \ FinishedOf(b)' ELSE {}
    <2>1. \A i \in 1..Size[b] : <<b, i>> \in Range(waiters') \cup DOMAIN running'
                                <=> handler'[b] = "gather" /\ i \notin FinishedOf(b)'
      BY DEF Accounted, InFlight
    <2>2. CASE handler'[b] = "gather"
      BY <2>1, <2>2
    <2>3. CASE handler'[b] # "gather"
      BY <2>1, <2>3
    <2>4. QED BY <2>2, <2>3
  <1>2. QED BY <1>1 DEF TasksAccounted

\* The results of a batch are finitely many, one per prompt that has finished.
LEMMA FinishedFacts ==
    ASSUME BackendInv, NEW b \in Batches
    PROVE  /\ finished[b] \in Seq([of : Nat, ok : BOOLEAN])
           /\ FinishedOf(b) = {r.of : r \in Range(finished[b])}
           /\ IsFiniteSet(FinishedOf(b)) /\ Len(finished[b]) = Cardinality(FinishedOf(b))
           /\ Size[b] \in Nat \ {0}
           /\ Len(finished[b]) = Size[b] => FinishedOf(b) = 1..Size[b]
  <1>1. /\ finished[b] \in Seq([of : Nat, ok : BOOLEAN])
        /\ FinishedOf(b) \subseteq 1..Size[b]
        /\ Len(finished[b]) = Cardinality(FinishedOf(b))
    BY DEF BackendInv, TypeOK, ResultsShape, TasksAccounted
  <1>2. Size[b] \in Nat \ {0}
    BY BatchesAssumption
  <1>3. FinishedOf(b) = {r.of : r \in Range(finished[b])}
    BY DEF FinishedOf, Range
  <1>4. IsFiniteSet(1..Size[b]) /\ Cardinality(1..Size[b]) = Size[b]
    BY <1>2, FS_Interval
  <1>5. /\ IsFiniteSet(FinishedOf(b))
        /\ Cardinality(1..Size[b]) = Cardinality(FinishedOf(b)) => 1..Size[b] = FinishedOf(b)
    BY <1>1, <1>4, FS_Subset
  <1>6. QED BY <1>1, <1>2, <1>3, <1>4, <1>5

\* An answer has one result per prompt, each at its prompt's place.
LEMMA AnswerInOrder ==
    ASSUME BackendInv, NEW b \in Batches, Gathered(b)
    PROVE  /\ InOrder(b) \in [1..Size[b] -> [of : Nat, ok : BOOLEAN]]
           /\ \A i \in 1..Size[b] : InOrder(b)[i].of = i
  <1>1. /\ FinishedOf(b) = {r.of : r \in Range(finished[b])}
        /\ FinishedOf(b) = 1..Size[b]
        /\ finished[b] \in Seq([of : Nat, ok : BOOLEAN])
    BY FinishedFacts DEF Gathered
  <1>2. Range(finished[b]) \subseteq [of : Nat, ok : BOOLEAN]
    BY <1>1, RangeTyped
  <1>3. ASSUME NEW i \in 1..Size[b]
        PROVE  /\ InOrder(b)[i] \in [of : Nat, ok : BOOLEAN]
               /\ InOrder(b)[i].of = i
    <2>1. \E r \in Range(finished[b]) : r.of = i
      BY <1>1
    <2>2. PICK r : r = CHOOSE q \in Range(finished[b]) : q.of = i
      OBVIOUS
    <2>3. r \in Range(finished[b]) /\ r.of = i
      BY <2>1, <2>2
    <2>4. InOrder(b)[i] = r
      BY <2>2 DEF InOrder
    <2>5. QED BY <2>3, <2>4, <1>2
  <1>4. InOrder(b) = [i \in 1..Size[b] |-> InOrder(b)[i]]
    BY DEF InOrder
  <1>5. QED BY <1>3, <1>4

----------------------------------------------------------------------------
(* The initial states *)

LEMMA InitBackendInv == Init => BackendInv
  <1> SUFFICES ASSUME Init PROVE BackendInv
    OBVIOUS
  <1>1. DOMAIN running = {} /\ waiters = <<>> /\ permits = Concurrency
    BY DEF Init, NoCalls
  <1>2. IsFiniteSet(DOMAIN running) /\ Cardinality(DOMAIN running) = 0
    BY <1>1, FS_EmptySet
  <1>3. Range(waiters) = {} /\ IsInjective(waiters)
    BY <1>1 DEF Range, IsInjective
  <1>4. \A b \in Batches : FinishedOf(b) = {} /\ finished[b] = <<>> /\ Len(finished[b]) = 0
    BY DEF Init, FinishedOf
  <1>5. TypeOK
    BY <1>1, ConcurrencyAssumption DEF Init, TypeOK
  <1>6. PermitsAccounted
    BY <1>1, <1>2, ConcurrencyAssumption DEF PermitsAccounted
  <1>7. Accounted
    BY <1>1, <1>3 DEF Accounted, InFlight, Init
  <1>8. TasksAccounted
    BY <1>1, <1>3, <1>4, <1>7, FS_EmptySet, TasksByName
  <1>9. QED BY <1>2, <1>4, <1>5, <1>6, <1>8 DEF BackendInv, ResultsShape

----------------------------------------------------------------------------
(* infer starts the tasks of a batch *)

LEMMA InferInv ==
    ASSUME BackendInv, NEW b \in Batches, Infer(b)
    PROVE  BackendInv'
  <1> DEFINE got == Least(permits, Size[b])
             started == {<<b, i>> : i \in 1..got}
             late == [i \in 1..(Size[b] - got) |-> <<b, got + i>>]
  <1>1. /\ handler[b] = "none" /\ handler' = [handler EXCEPT ![b] = "gather"]
        /\ permits' = permits - got
        /\ running' = [t \in DOMAIN running \cup started |->
                          IF t \in DOMAIN running THEN running[t] ELSE 0]
        /\ waiters' = waiters \o late
        /\ due' = [due EXCEPT ![b] = age[b] + OllamaTimeout * Rounds(Unfinished, Size[b])]
        /\ UNCHANGED <<call, body, finished, age>>
    BY DEF Infer, clientVars
  <1>2. /\ TypeOK /\ IsFiniteSet(DOMAIN running)
        /\ permits \in Nat /\ Size[b] \in Nat \ {0} /\ Concurrency \in Nat \ {0}
    BY BatchesAssumption, ConcurrencyAssumption DEF BackendInv, TypeOK
  <1>3. got \in Nat /\ got <= permits /\ got <= Size[b] /\ (got = permits \/ got = Size[b])
    BY <1>2 DEF Least
  <1>4. /\ IsInjective(waiters) /\ Range(waiters) \cap DOMAIN running = {}
        /\ \A c \in Batches : Len(finished[c]) = Cardinality(FinishedOf(c))
        /\ Accounted
    BY TasksByName DEF BackendInv
  <1>5. finished[b] = <<>> /\ FinishedOf(b) = {}
    BY <1>1 DEF BackendInv, ResultsShape, FinishedOf
  <1>6. \A i \in 1..Size[b] : <<b, i>> \in Tasks /\ <<b, i>> \notin InFlight
    BY <1>1, <1>4 DEF Accounted, Tasks
  <1>7. /\ started \subseteq Tasks /\ started \cap InFlight = {}
        /\ IsFiniteSet(started) /\ Cardinality(started) = got
    <2>1. 1..got \subseteq 1..Size[b]
      BY <1>2, <1>3
    <2>2. started \subseteq Tasks /\ started \cap InFlight = {}
      BY <2>1, <1>6
    <2>3. QED BY <2>2, <1>3, CountTasks
  <1>8. /\ late \in Seq(Tasks) /\ IsInjective(late)
        /\ Range(late) = {<<b, i>> : i \in (1..Size[b]) \ (1..got)}
    <2>1. \A i \in 1..(Size[b] - got) : got + i \in (1..Size[b]) \ (1..got)
      BY <1>2, <1>3
    <2>2. \A i \in 1..(Size[b] - got) : late[i] \in Tasks
      BY <2>1, <1>6
    <2>3. late \in Seq(Tasks) /\ DOMAIN late = 1..(Size[b] - got)
      BY <2>2, <1>2, <1>3
    <2>4. IsInjective(late)
      BY <1>2, <1>3 DEF IsInjective
    <2>5. \A i \in (1..Size[b]) \ (1..got) :
              i - got \in 1..(Size[b] - got) /\ late[i - got] = <<b, i>>
      BY <1>2, <1>3
    <2>6. Range(late) \subseteq {<<b, i>> : i \in (1..Size[b]) \ (1..got)}
      BY <2>1, <2>3 DEF Range
    <2>7. {<<b, i>> : i \in (1..Size[b]) \ (1..got)} \subseteq Range(late)
      BY <2>3, <2>5 DEF Range
    <2>8. QED BY <2>3, <2>4, <2>6, <2>7
  <1>9. waiters \in Seq(Tasks) /\ DOMAIN running \subseteq Tasks
    BY <1>2 DEF TypeOK
  <1> HIDE DEF got, started, late
  <1>10. /\ waiters' \in Seq(Tasks) /\ IsInjective(waiters')
         /\ Range(waiters') = Range(waiters) \cup Range(late)
    <2>1. Range(waiters) \cap Range(late) = {}
      BY <1>6, <1>8 DEF InFlight
    <2>2. QED BY <2>1, <1>1, <1>4, <1>8, <1>9, JoinQueue
  <1>11. DOMAIN running' = DOMAIN running \cup started
    BY <1>1
  <1>12. /\ IsFiniteSet(DOMAIN running')
         /\ Cardinality(DOMAIN running') = Cardinality(DOMAIN running) + got
    <2>1. DOMAIN running \cap started = {}
      BY <1>7 DEF InFlight
    <2>2. Cardinality(DOMAIN running \cap started) = 0
      BY <2>1, FS_EmptySet
    <2>3. Cardinality(DOMAIN running) \in Nat
      BY <1>2, FS_CardinalityType
    <2>4. QED BY <2>2, <2>3, <1>2, <1>3, <1>7, <1>11, FS_Union
  <1>13. PermitsAccounted'
    <2>1. Cardinality(DOMAIN running) \in Nat /\ permits + Cardinality(DOMAIN running) = Concurrency
      BY <1>2, FS_CardinalityType DEF BackendInv, PermitsAccounted
    <2>2. permits' + Cardinality(DOMAIN running') = Concurrency
      BY <2>1, <1>1, <1>2, <1>3, <1>12
    <2>3. ASSUME waiters' # <<>> PROVE permits' = 0
      <3>1. CASE got = permits
        BY <3>1, <1>1, <1>2
      <3>2. CASE got = Size[b] /\ waiters # <<>>
        BY <3>2, <1>1, <1>2, <1>3 DEF BackendInv, PermitsAccounted
      <3>3. CASE got = Size[b] /\ waiters = <<>>
        <4>1. late = <<>>
          BY <3>3, <1>2 DEF late
        <4>2. waiters' = <<>>
          BY <3>3, <4>1, <1>1
        <4>3. QED BY <4>2, <2>3
      <3>4. QED BY <3>1, <3>2, <3>3, <1>3
    <2>4. QED BY <2>2, <2>3 DEF PermitsAccounted
  <1>14. /\ InFlight' = InFlight \cup {<<b, i>> : i \in 1..Size[b]}
         /\ Range(waiters') \cap DOMAIN running' = {}
    <2>1. started \cup Range(late) = {<<b, i>> : i \in 1..Size[b]}
      <3>1. 1..Size[b] = (1..got) \cup ((1..Size[b]) \ (1..got))
        BY <1>2, <1>3
      <3>2. QED BY <3>1, <1>8 DEF started
    <2>2. InFlight' = InFlight \cup started \cup Range(late)
      BY <1>10, <1>11 DEF InFlight
    <2>3. started \cap Range(late) = {}
      BY <1>8 DEF started
    <2>4. Range(late) \cap InFlight = {}
      BY <1>6, <1>8
    <2>5. Range(waiters') \cap DOMAIN running' = {}
      BY <2>3, <2>4, <1>4, <1>7, <1>10, <1>11 DEF InFlight
    <2>6. QED BY <2>1, <2>2, <2>5
  <1>15. handler \in [Batches -> {"none", "gather", "returned"}]
    BY <1>2 DEF TypeOK
  <1>16. \A c \in Batches : FinishedOf(c)' = FinishedOf(c) /\ finished'[c] = finished[c]
    BY <1>1 DEF FinishedOf
  <1>17. Accounted'
    <2> SUFFICES ASSUME NEW c \in Batches, NEW i \in 1..Size[c]
                 PROVE  <<c, i>> \in InFlight' <=>
                            handler'[c] = "gather" /\ i \notin FinishedOf(c)'
      BY DEF Accounted
    <2>1. CASE c = b
      BY <2>1, <1>1, <1>5, <1>14, <1>15, <1>16
    <2>2. CASE c # b
      <3>1. handler'[c] = handler[c]
        BY <2>2, <1>1, <1>15
      <3>2. <<c, i>> \in InFlight' <=> <<c, i>> \in InFlight
        BY <2>2, <1>14
      <3>3. QED BY <3>1, <3>2, <1>4, <1>16 DEF Accounted
    <2>3. QED BY <2>1, <2>2
  <1>18. TasksAccounted'
    BY <1>4, <1>10, <1>14, <1>16, <1>17, TasksByNameNext
  <1>19. ResultsShape'
    BY <1>1, <1>5, <1>15, <1>16 DEF ResultsShape, BackendInv
  <1>20. TypeOK'
    <2>1. due' \in [Batches -> Nat]
      <3>1. Unfinished \in Nat
        <4>1. Len(waiters) \in Nat /\ Cardinality(DOMAIN running) \in Nat
          BY <1>2, <1>9, FS_CardinalityType
        <4>2. QED BY <4>1 DEF Unfinished
      <3>2. Rounds(Unfinished, Size[b]) \in Nat
        <4>1. Unfinished + Size[b] + Concurrency - 1 \in Nat
          BY <3>1, <1>2
        <4>2. QED BY <4>1, <1>2 DEF Rounds
      <3>3. OllamaTimeout * Rounds(Unfinished, Size[b]) \in Nat
        BY <3>2, TimesAssumption
      <3>4. age[b] \in Nat /\ due \in [Batches -> Nat]
        BY <1>2 DEF TypeOK
      <3>5. QED BY <3>3, <3>4, <1>1
    <2>2. permits' \in 0..Concurrency
      BY <1>1, <1>2, <1>3 DEF TypeOK
    <2>3. DOMAIN running' \subseteq Tasks
      BY <1>7, <1>9, <1>11
    <2>4. \A t \in DOMAIN running' : running'[t] \in 0..OllamaTimeout
      BY <1>1, <1>2, <1>11, TimesAssumption DEF TypeOK
    <2>5. handler' \in [Batches -> {"none", "gather", "returned"}]
      BY <1>1, <1>15
    <2>6. QED BY <2>1, <2>2, <2>3, <2>4, <2>5, <1>1, <1>2, <1>10 DEF TypeOK
  <1>21. QED BY <1>12, <1>13, <1>18, <1>19, <1>20 DEF BackendInv

----------------------------------------------------------------------------
(* A task ends *)

\* The permit of a task that ends goes to the first waiter, or back.
LEMMA ReleaseFacts ==
    ASSUME BackendInv, NEW t \in DOMAIN running, NEW ok \in BOOLEAN, Release(t, ok)
    PROVE  /\ IsFiniteSet(DOMAIN running') /\ DOMAIN running' \subseteq Tasks
           /\ \A u \in DOMAIN running' : running'[u] \in 0..OllamaTimeout
           /\ permits' \in 0..Concurrency /\ PermitsAccounted'
           /\ waiters' \in Seq(Tasks) /\ IsInjective(waiters')
           /\ Range(waiters') \cap DOMAIN running' = {}
           /\ Range(waiters') \cup DOMAIN running'
                = (Range(waiters) \cup DOMAIN running) \ {t}
  <1> DEFINE D == DOMAIN running
  <1>1. /\ IsFiniteSet(D) /\ D \subseteq Tasks /\ t \in D
        /\ \A u \in D : running[u] \in 0..OllamaTimeout
        /\ permits \in Nat /\ permits + Cardinality(D) = Concurrency
        /\ waiters # <<>> => permits = 0
        /\ waiters \in Seq(Tasks) /\ IsInjective(waiters) /\ Range(waiters) \cap D = {}
    BY DEF BackendInv, TypeOK, PermitsAccounted, TasksAccounted
  <1>2. 0 \in 0..OllamaTimeout /\ Concurrency \in Nat
    BY TimesAssumption, ConcurrencyAssumption
  <1>3. /\ IsFiniteSet(D \ {t}) /\ Cardinality(D \ {t}) = Cardinality(D) - 1
        /\ Cardinality(D) \in Nat /\ Cardinality(D \ {t}) \in Nat
    BY <1>1, FS_RemoveElement, FS_CardinalityType
  <1>4. CASE waiters = <<>>
    <2>1. permits' = permits + 1 /\ running' = Restrict(running, D \ {t}) /\ waiters' = <<>>
      BY <1>4 DEF Release
    <2>2. /\ DOMAIN running' = D \ {t}
          /\ \A u \in D \ {t} : running'[u] = running[u]
      BY <2>1 DEF Restrict
    <2>3. Range(waiters) = {} /\ Range(waiters') = {} /\ IsInjective(waiters')
      BY <1>4, <2>1 DEF Range, IsInjective
    <2>4. waiters' \in Seq(Tasks)
      BY <2>1
    <2>5. permits' \in 0..Concurrency /\ permits' + Cardinality(DOMAIN running') = Concurrency
      BY <2>1, <2>2, <1>1, <1>2, <1>3
    <2>6. QED BY <2>1, <2>2, <2>3, <2>4, <2>5, <1>1, <1>3 DEF PermitsAccounted
  <1>5. CASE waiters # <<>>
    <2> DEFINE h == Head(waiters)
    <2>1. /\ h \in Tasks /\ Tail(waiters) \in Seq(Tasks) /\ h \in Range(waiters)
          /\ Range(Tail(waiters)) = Range(waiters) \ {h} /\ IsInjective(Tail(waiters))
      BY <1>1, <1>5, HeadLeaves
    <2>2. /\ running' = [s \in (D \ {t}) \cup {h} |-> IF s \in D THEN running[s] ELSE 0]
          /\ waiters' = Tail(waiters) /\ permits' = permits
      BY <1>5 DEF Release
    <2> HIDE DEF h
    <2>3. h \notin D
      BY <2>1, <1>1
    <2>4. /\ DOMAIN running' = (D \ {t}) \cup {h}
          /\ \A u \in (D \ {t}) \cup {h} : running'[u] \in 0..OllamaTimeout
      BY <2>2, <1>1, <1>2
    <2>5. /\ IsFiniteSet(DOMAIN running')
          /\ Cardinality(DOMAIN running') = Cardinality(D)
      <3>1. /\ IsFiniteSet((D \ {t}) \cup {h})
            /\ Cardinality((D \ {t}) \cup {h}) = Cardinality(D \ {t}) + 1
        BY <2>3, <1>3, FS_AddElement
      <3>2. QED BY <3>1, <2>4, <1>3
    <2>6. permits' \in 0..Concurrency /\ PermitsAccounted'
      BY <2>2, <2>5, <1>1, <1>2, <1>3, <1>5 DEF PermitsAccounted
    <2>7. /\ Range(waiters') \cap DOMAIN running' = {}
          /\ Range(waiters') \cup DOMAIN running' = (Range(waiters) \cup D) \ {t}
      BY <2>1, <2>2, <2>3, <2>4, <1>1
    <2>8. QED BY <2>1, <2>2, <2>4, <2>5, <2>6, <2>7, <1>1
  <1>6. QED BY <1>4, <1>5

LEMMA FinishInv ==
    ASSUME BackendInv, NEW t \in DOMAIN running, NEW ok \in BOOLEAN, Finish(t, ok)
    PROVE  BackendInv'
  <1>1. TypeOK /\ Accounted
        /\ \A c \in Batches : Len(finished[c]) = Cardinality(FinishedOf(c))
    BY TasksByName DEF BackendInv
  <1>2. PICK b \in Batches : \E i \in 1..Size[b] : t = <<b, i>>
    BY <1>1 DEF TypeOK, Tasks
  <1>3. PICK i \in 1..Size[b] : t = <<b, i>>
    BY <1>2
  <1> DEFINE item == [of |-> i, ok |-> ok]
  <1>4. /\ Release(t, ok)
        /\ finished' = [finished EXCEPT ![b] = Append(finished[b], item)]
        /\ UNCHANGED <<call, body, handler, age, due>>
    BY <1>3 DEF Finish, clientVars
  <1>5. /\ IsFiniteSet(DOMAIN running') /\ DOMAIN running' \subseteq Tasks
        /\ \A u \in DOMAIN running' : running'[u] \in 0..OllamaTimeout
        /\ permits' \in 0..Concurrency /\ PermitsAccounted'
        /\ waiters' \in Seq(Tasks) /\ IsInjective(waiters')
        /\ Range(waiters') \cap DOMAIN running' = {}
        /\ InFlight' = InFlight \ {t}
    BY <1>4, ReleaseFacts DEF InFlight
  <1>6. handler[b] = "gather" /\ i \notin FinishedOf(b)
    BY <1>1, <1>3 DEF Accounted, InFlight
  <1>7. /\ FinishedOf(b) = {r.of : r \in Range(finished[b])}
        /\ IsFiniteSet(FinishedOf(b)) /\ Size[b] \in Nat
        /\ finished[b] \in Seq([of : Nat, ok : BOOLEAN])
        /\ finished \in [Batches -> Seq([of : Nat, ok : BOOLEAN])]
    BY <1>1, FinishedFacts DEF TypeOK
  <1>8. item \in [of : Nat, ok : BOOLEAN] /\ item.of = i
    BY <1>7
  <1> HIDE DEF item
  <1>9. /\ finished'[b] \in Seq([of : Nat, ok : BOOLEAN])
        /\ Len(finished'[b]) = Len(finished[b]) + 1
        /\ Range(finished'[b]) = Range(finished[b]) \cup {item}
    <2> DEFINE S == [of : Nat, ok : BOOLEAN]
    <2>1. finished'[b] = Append(finished[b], item)
      BY <1>4, <1>7
    <2>2. finished[b] \in Seq(S) /\ item \in S
      BY <1>7, <1>8
    <2> HIDE DEF S
    <2>3. /\ Append(finished[b], item) \in Seq(S)
          /\ Len(Append(finished[b], item)) = Len(finished[b]) + 1
          /\ Range(Append(finished[b], item)) = Range(finished[b]) \cup {item}
      BY <2>2, RangeAppend
    <2>4. QED BY <2>1, <2>3 DEF S
  <1>10. FinishedOf(b)' = FinishedOf(b) \cup {i}
    <2>1. FinishedOf(b)' = {r.of : r \in Range(finished'[b])}
      BY DEF FinishedOf, Range
    <2>2. QED BY <2>1, <1>7, <1>8, <1>9
  <1>11. Len(finished'[b]) = Cardinality(FinishedOf(b)')
    <2>1. Cardinality(FinishedOf(b) \cup {i}) = Cardinality(FinishedOf(b)) + 1
      BY <1>6, <1>7, FS_AddElement
    <2>2. QED BY <2>1, <1>1, <1>9, <1>10
  <1>12. \A c \in Batches \ {b} : finished'[c] = finished[c] /\ FinishedOf(c)' = FinishedOf(c)
    BY <1>4, <1>7 DEF FinishedOf
  <1>13. Accounted'
    <2> SUFFICES ASSUME NEW c \in Batches, NEW j \in 1..Size[c]
                 PROVE  <<c, j>> \in InFlight' <=>
                            handler'[c] = "gather" /\ j \notin FinishedOf(c)'
      BY DEF Accounted
    <2>1. <<c, j>> \in InFlight <=> handler[c] = "gather" /\ j \notin FinishedOf(c)
      BY <1>1 DEF Accounted
    <2>2. CASE c = b
      BY <2>1, <2>2, <1>3, <1>4, <1>5, <1>10
    <2>3. CASE c # b
      BY <2>1, <2>3, <1>3, <1>4, <1>5, <1>12
    <2>4. QED BY <2>2, <2>3
  <1>14. TasksAccounted'
    <2>1. \A c \in Batches : Len(finished'[c]) = Cardinality(FinishedOf(c)')
      BY <1>1, <1>11, <1>12
    <2>2. QED BY <2>1, <1>5, <1>13, TasksByNameNext
  <1>15. ResultsShape'
    BY <1>4, <1>6, <1>10, <1>12 DEF BackendInv, ResultsShape
  <1>16. TypeOK'
    <2>1. finished' \in [Batches -> Seq([of : Nat, ok : BOOLEAN])]
      BY <1>4, <1>7, <1>9
    <2>2. QED BY <2>1, <1>1, <1>4, <1>5 DEF TypeOK
  <1>17. QED BY <1>5, <1>14, <1>15, <1>16 DEF BackendInv

----------------------------------------------------------------------------
(* The other steps *)

\* A step that leaves the tasks alone, and the handlers or only those that
\* gather nothing before or after.
LEMMA TasksUntouched ==
    ASSUME BackendInv, TypeOK',
           UNCHANGED <<permits, waiters>>, DOMAIN running' = DOMAIN running,
           UNCHANGED finished,
           \A b \in Batches : handler'[b] = "gather" <=> handler[b] = "gather"
    PROVE  BackendInv'
  <1>1. /\ IsInjective(waiters) /\ Range(waiters) \cap DOMAIN running = {}
        /\ \A b \in Batches : Len(finished[b]) = Cardinality(FinishedOf(b))
        /\ Accounted
    BY TasksByName DEF BackendInv
  <1>2. \A b \in Batches : FinishedOf(b)' = FinishedOf(b)
    BY DEF FinishedOf
  <1>3. Accounted'
    BY <1>1, <1>2 DEF Accounted, InFlight
  <1>4. TasksAccounted'
    BY <1>1, <1>2, <1>3, TasksByNameNext
  <1>5. QED BY <1>2, <1>4 DEF BackendInv, PermitsAccounted, ResultsShape

\* A handler returns when all its tasks have left their results.
LEMMA RespondInv ==
    ASSUME BackendInv, NEW b \in Batches, Respond(b)
    PROVE  BackendInv'
  <1>1. /\ Gathered(b) /\ handler' = [handler EXCEPT ![b] = "returned"]
        /\ finished' = [finished EXCEPT ![b] = <<>>]
        /\ age' = [age EXCEPT ![b] = 0]
        /\ UNCHANGED <<permits, waiters, running, due>>
        /\ \/ /\ call' = [call EXCEPT ![b] = "answered"]
              /\ body' = [body EXCEPT ![b] = InOrder(b)]
           \/ UNCHANGED <<call, body>>
    BY DEF Respond
  <1>2. TypeOK /\ Accounted
        /\ IsInjective(waiters) /\ Range(waiters) \cap DOMAIN running = {}
        /\ \A c \in Batches : Len(finished[c]) = Cardinality(FinishedOf(c))
    BY TasksByName DEF BackendInv
  <1>3. FinishedOf(b) = 1..Size[b] /\ Size[b] \in Nat
    BY <1>1, FinishedFacts DEF Gathered
  <1>4. TypeOK'
    <2>1. InOrder(b) \in Seq([of : Nat, ok : BOOLEAN])
      <3>1. InOrder(b) \in [1..Size[b] -> [of : Nat, ok : BOOLEAN]]
        BY <1>1, AnswerInOrder
      <3>2. QED BY <3>1, <1>3, SeqDef
    <2>2. body' \in [Batches -> Seq([of : Nat, ok : BOOLEAN])]
      BY <2>1, <1>1, <1>2 DEF TypeOK
    <2>3. finished' \in [Batches -> Seq([of : Nat, ok : BOOLEAN])]
      <3>1. <<>> \in Seq([of : Nat, ok : BOOLEAN])
        BY EmptySeq
      <3>2. QED BY <3>1, <1>1, <1>2 DEF TypeOK
    <2>4. /\ call' \in [Batches -> {"idle", "open", "answered", "late", "cut"}]
          /\ handler' \in [Batches -> {"none", "gather", "returned"}]
          /\ age' \in [Batches -> Nat]
      BY <1>1, <1>2 DEF TypeOK
    <2>5. QED BY <2>2, <2>3, <2>4, <1>1, <1>2 DEF TypeOK
  <1>5. /\ finished'[b] = <<>> /\ handler'[b] = "returned"
        /\ \A c \in Batches \ {b} : finished'[c] = finished[c] /\ handler'[c] = handler[c]
    BY <1>1, <1>2 DEF TypeOK
  <1>6. /\ FinishedOf(b)' = {}
        /\ \A c \in Batches \ {b} : FinishedOf(c)' = FinishedOf(c)
    BY <1>5 DEF FinishedOf
  <1>7. Accounted'
    <2> SUFFICES ASSUME NEW c \in Batches, NEW j \in 1..Size[c]
                 PROVE  <<c, j>> \in InFlight' <=>
                            handler'[c] = "gather" /\ j \notin FinishedOf(c)'
      BY DEF Accounted
    <2>1. <<c, j>> \in InFlight <=> handler[c] = "gather" /\ j \notin FinishedOf(c)
      BY <1>2 DEF Accounted
    <2>2. InFlight' = InFlight
      BY <1>1 DEF InFlight
    <2>3. CASE c = b
      BY <2>1, <2>2, <2>3, <1>3, <1>5
    <2>4. CASE c # b
      BY <2>1, <2>2, <2>4, <1>5, <1>6
    <2>5. QED BY <2>3, <2>4
  <1>8. TasksAccounted'
    <2>1. Len(finished'[b]) = 0 /\ Cardinality(FinishedOf(b)') = 0
      BY <1>5, <1>6, FS_EmptySet
    <2>2. \A c \in Batches : Len(finished'[c]) = Cardinality(FinishedOf(c)')
      BY <2>1, <1>2, <1>5, <1>6
    <2>3. QED BY <2>2, <1>1, <1>2, <1>7, TasksByNameNext
  <1>9. ResultsShape'
    BY <1>3, <1>5, <1>6 DEF BackendInv, ResultsShape
  <1>10. QED BY <1>1, <1>4, <1>8, <1>9 DEF BackendInv, PermitsAccounted

LEMMA TickInv == ASSUME BackendInv, Tick PROVE BackendInv'
  <1>1. /\ running' = [t \in DOMAIN running |-> running[t] + 1]
        /\ age' = [b \in Batches |->
                      IF Aging(b) THEN Least(age[b] + 1, Horizon) ELSE age[b]]
        /\ \A t \in DOMAIN running : running[t] < OllamaTimeout
        /\ UNCHANGED <<call, body, handler, finished, permits, waiters, due>>
    BY DEF Tick, clientVars
  <1>2. TypeOK
    BY DEF BackendInv
  <1>3. TypeOK'
    <2>1. age' \in [Batches -> Nat]
      BY <1>1, <1>2, TimesAssumption DEF TypeOK, Least
    <2>2. \A t \in DOMAIN running' : running'[t] \in 0..OllamaTimeout
      BY <1>1, <1>2, TimesAssumption DEF TypeOK
    <2>3. QED BY <2>1, <2>2, <1>1, <1>2 DEF TypeOK
  <1>4. QED BY <1>1, <1>3, TasksUntouched

\* The batcher's own steps do not reach the tasks.
LEMMA ClientInv ==
    ASSUME BackendInv, NEW b \in Batches, Post(b) \/ GiveUp(b) \/ Cut(b)
    PROVE  BackendInv'
  <1>1. TypeOK
    BY DEF BackendInv
  <1>2. /\ UNCHANGED <<finished, permits, waiters, running>>
        /\ TypeOK'
        /\ \A c \in Batches : handler'[c] = "gather" <=> handler[c] = "gather"
    <2>1. CASE Post(b)
      BY <2>1, <1>1 DEF Post, TypeOK, taskVars
    <2>2. CASE GiveUp(b) \/ Cut(b)
      BY <2>2, <1>1 DEF GiveUp, Cut, TypeOK, taskVars
    <2>3. QED BY <2>1, <2>2
  <1>3. QED BY <1>2, TasksUntouched

LEMMA NextKeepsBackendInv == BackendInv /\ [Next]_vars => BackendInv'
  <1> SUFFICES ASSUME BackendInv, [Next]_vars PROVE BackendInv'
    OBVIOUS
  <1>1. CASE Tick
    BY <1>1, TickInv
  <1>2. ASSUME NEW t \in DOMAIN running, NEW ok \in BOOLEAN, Finish(t, ok)
        PROVE  BackendInv'
    BY <1>2, FinishInv
  <1>3. ASSUME NEW b \in Batches, Post(b) \/ GiveUp(b) \/ Cut(b)
        PROVE  BackendInv'
    BY <1>3, ClientInv
  <1>4. ASSUME NEW b \in Batches, Infer(b) PROVE BackendInv'
    BY <1>4, InferInv
  <1>5. ASSUME NEW b \in Batches, Respond(b) PROVE BackendInv'
    BY <1>5, RespondInv
  <1>6. CASE UNCHANGED vars
    <2>1. UNCHANGED <<call, body, handler, finished, permits, waiters, running, age, due>>
      BY <1>6 DEF vars
    <2>2. TypeOK'
      BY <2>1 DEF BackendInv, TypeOK
    <2>3. QED BY <2>1, <2>2, TasksUntouched
  <1>7. QED BY <1>1, <1>2, <1>3, <1>4, <1>5, <1>6 DEF Next, TaskStep

----------------------------------------------------------------------------
(* The rounds *)

\* What a division leaves is less than the divisor.
LEMMA Quotient ==
    ASSUME NEW m \in Nat, NEW c \in Nat \ {0}
    PROVE  m \div c \in Nat /\ m < c * (m \div c) + c
  OBVIOUS

\* Enough rounds for everyone, and at least one.
LEMMA RoundsSuffice ==
    ASSUME NEW u \in Nat, NEW n \in Nat \ {0}
    PROVE  /\ Rounds(u, n) \in Nat \ {0}
           /\ Concurrency * Rounds(u, n) >= u + n
  <1> DEFINE c == Concurrency
             m == u + n + c - 1
             r == m \div c
  <1>1. c \in Nat \ {0} /\ m \in Nat /\ m = u + n + c - 1
    BY ConcurrencyAssumption
  <1>2. Rounds(u, n) = r
    BY DEF Rounds
  <1> HIDE DEF c, m
  <1>3. r \in Nat /\ m < c * r + c
    BY <1>1, Quotient
  <1> HIDE DEF r
  <1>4. c * r \in Nat /\ c * r >= u + n
    BY <1>1, <1>3
  <1>5. r # 0
    BY <1>1, <1>4
  <1>6. QED BY <1>2, <1>3, <1>4, <1>5 DEF c

\* The running calls that have at most e left.
EndsWithin(e) == {t \in DOMAIN running : running[t] + e >= OllamaTimeout}

\* With q rounds to come, and the calls that end within e, the waiters of b are
\* served.
Served(b, q, e) ==
    \A k \in DOMAIN waiters : waiters[k][1] = b =>
        k <= Concurrency * q - Concurrency + Cardinality(EndsWithin(e))

\* A batch has the time that its tasks need at most: those that run to run into
\* their timeout, the others to wait for their round, and one round more.
InTime(b) ==
    /\ age[b] <= due[b]
    /\ \A t \in DOMAIN running : t[1] = b => age[b] + OllamaTimeout <= due[b] + running[t]
    /\ \E q \in Nat, e \in 0..(OllamaTimeout - 1) :
           age[b] + q * OllamaTimeout + e <= due[b] /\ Served(b, q, e)

RoundsInv == \A b \in Batches : handler[b] = "gather" => InTime(b)

\* More running calls, or older ones, end within e.
LEMMA EndsWithinGrows ==
    ASSUME IsFiniteSet(DOMAIN running'), NEW e, NEW f, EndsWithin(e) \subseteq EndsWithin(f)'
    PROVE  Cardinality(EndsWithin(e)) <= Cardinality(EndsWithin(f)') 
           /\ Cardinality(EndsWithin(e)) \in Nat /\ Cardinality(EndsWithin(f)') \in Nat
  <1>1. IsFiniteSet(EndsWithin(f)')
    BY FS_Subset DEF EndsWithin
  <1>2. QED BY <1>1, FS_Subset, FS_CardinalityType

\* A batch that has not gathered its results has a task that waits or runs.
LEMMA TaskLeft ==
    ASSUME BackendInv, NEW b \in Batches, handler[b] = "gather", ~Gathered(b)
    PROVE  \/ \E k \in DOMAIN waiters : waiters[k][1] = b
           \/ \E t \in DOMAIN running : t[1] = b
  <1>1. /\ FinishedOf(b) \subseteq 1..Size[b] /\ Size[b] \in Nat
        /\ Len(finished[b]) = Cardinality(FinishedOf(b)) /\ Len(finished[b]) # Size[b]
    BY FinishedFacts DEF BackendInv, ResultsShape, Gathered
  <1>2. PICK i \in 1..Size[b] : i \notin FinishedOf(b)
    <2>1. Cardinality(1..Size[b]) = Size[b]
      BY <1>1, FS_Interval
    <2>2. FinishedOf(b) # 1..Size[b]
      BY <2>1, <1>1
    <2>3. QED BY <2>2, <1>1
  <1>3. <<b, i>> \in InFlight
    BY <1>2, TasksByName DEF BackendInv, Accounted
  <1>4. CASE <<b, i>> \in DOMAIN running
    <2>1. <<b, i>>[1] = b
      OBVIOUS
    <2>2. QED BY <2>1, <1>4
  <1>5. CASE <<b, i>> \in Range(waiters)
    <2>1. PICK k \in DOMAIN waiters : waiters[k] = <<b, i>>
      BY <1>5 DEF Range
    <2>2. waiters[k][1] = b
      BY <2>1
    <2>3. QED BY <2>2
  <1>6. QED BY <1>3, <1>4, <1>5 DEF InFlight

\* Nobody waits while a permit is left.
LEMMA AllRun ==
    ASSUME BackendInv
    PROVE  /\ Cardinality(DOMAIN running) \in 0..Concurrency
           /\ waiters # <<>> => Cardinality(DOMAIN running) = Concurrency
  <1>1. /\ Cardinality(DOMAIN running) \in Nat /\ permits \in Nat
        /\ permits + Cardinality(DOMAIN running) = Concurrency
        /\ waiters # <<>> => permits = 0
        /\ Concurrency \in Nat
    BY FS_CardinalityType, ConcurrencyAssumption DEF BackendInv, TypeOK, PermitsAccounted
  <1>2. QED BY <1>1

\* A tick takes one unit from what the running calls have left; when none of them
\* ends within it a round is used up.
LEMMA TickRounds == ASSUME BackendInv, RoundsInv, Tick PROVE RoundsInv'
  <1>1. /\ running' = [t \in DOMAIN running |-> running[t] + 1]
        /\ age' = [b \in Batches |->
                      IF Aging(b) THEN Least(age[b] + 1, Horizon) ELSE age[b]]
        /\ \A t \in DOMAIN running : running[t] < OllamaTimeout
        /\ \A b \in Batches : ~Gathered(b)
        /\ UNCHANGED <<handler, waiters, due>>
    BY DEF Tick, clientVars
  <1>2. /\ \A t \in DOMAIN running : running[t] \in 0..OllamaTimeout
        /\ age \in [Batches -> Nat] /\ due \in [Batches -> Nat]
        /\ waiters \in Seq(Tasks) /\ IsFiniteSet(DOMAIN running)
        /\ OllamaTimeout \in Nat \ {0} /\ Horizon \in Nat /\ Concurrency \in Nat \ {0}
    BY TimesAssumption, ConcurrencyAssumption DEF BackendInv, TypeOK
  <1> SUFFICES ASSUME NEW b \in Batches, handler'[b] = "gather" PROVE InTime(b)'
    BY DEF RoundsInv
  <1>3. handler[b] = "gather" /\ InTime(b) /\ due'[b] = due[b]
    BY <1>1 DEF RoundsInv
  <1>4. age[b] \in Nat /\ due[b] \in Nat /\ age'[b] \in Nat /\ age'[b] <= age[b] + 1
    BY <1>1, <1>2 DEF Least
  <1>5. DOMAIN running' = DOMAIN running
        /\ \A t \in DOMAIN running : running'[t] = running[t] + 1
    BY <1>1
  <1>6. PICK q \in Nat, e \in 0..(OllamaTimeout - 1) :
            age[b] + q * OllamaTimeout + e <= due[b] /\ Served(b, q, e)
    BY <1>3 DEF InTime
  <1>7. \A t \in DOMAIN running : t[1] = b =>
            age[b] + OllamaTimeout <= due[b] + running[t] /\ age[b] + 1 <= due[b]
    <2> SUFFICES ASSUME NEW t \in DOMAIN running, t[1] = b
                 PROVE  age[b] + OllamaTimeout <= due[b] + running[t] /\ age[b] + 1 <= due[b]
      OBVIOUS
    <2>1. age[b] + OllamaTimeout <= due[b] + running[t]
      BY <1>3 DEF InTime
    <2>2. running[t] \in Nat /\ running[t] + 1 <= OllamaTimeout
      BY <1>1, <1>2
    <2>3. QED BY <2>1, <2>2, <1>2, <1>4
  <1>8. \A t \in DOMAIN running' : t[1] = b => age'[b] + OllamaTimeout <= due'[b] + running'[t]
    <2> SUFFICES ASSUME NEW t \in DOMAIN running, t[1] = b
                 PROVE  age'[b] + OllamaTimeout <= due'[b] + running'[t]
      BY <1>5
    <2>1. running[t] \in Nat /\ running'[t] = running[t] + 1
      BY <1>2, <1>5
    <2>2. age[b] + OllamaTimeout <= due[b] + running[t]
      BY <1>7
    <2>3. QED BY <2>1, <2>2, <1>2, <1>3, <1>4
  <1>9. CASE e # 0
    <2>1. EndsWithin(e - 1)' = EndsWithin(e)
      <3>1. \A t \in DOMAIN running : running'[t] + (e - 1) = running[t] + e
        BY <1>2, <1>5
      <3>2. QED BY <3>1, <1>5 DEF EndsWithin
    <2>2. Served(b, q, e - 1)'
      BY <2>1, <1>1, <1>6 DEF Served
    <2>3. e - 1 \in 0..(OllamaTimeout - 1) /\ q * OllamaTimeout \in Nat
      BY <1>2, <1>9
    <2>4. age'[b] + q * OllamaTimeout + (e - 1) <= due'[b] /\ age'[b] <= due'[b]
      BY <2>3, <1>3, <1>4, <1>6, <1>9
    <2>5. QED BY <2>2, <2>3, <2>4, <1>8 DEF InTime
  <1>10. CASE e = 0
    <2>1. EndsWithin(e) = {} /\ Cardinality(EndsWithin(e)) = 0
      <3>1. \A t \in DOMAIN running : ~(running[t] + 0 >= OllamaTimeout)
        BY <1>1, <1>2
      <3>2. EndsWithin(e) = {}
        BY <3>1, <1>10 DEF EndsWithin
      <3>3. QED BY <3>2, FS_EmptySet
    <2>2. EndsWithin(OllamaTimeout - 1)' = DOMAIN running
      <3>1. \A t \in DOMAIN running : running'[t] + (OllamaTimeout - 1) >= OllamaTimeout
        BY <1>2, <1>5
      <3>2. QED BY <3>1, <1>5 DEF EndsWithin
    <2>3. CASE \E k \in DOMAIN waiters : waiters[k][1] = b
      <3>1. PICK k \in DOMAIN waiters : waiters[k][1] = b
        BY <2>3
      <3>2. waiters # <<>> /\ k \in Nat \ {0}
        BY <3>1, <1>2
      <3>3. Cardinality(DOMAIN running) = Concurrency
        BY <3>2, AllRun
      <3>4. k <= Concurrency * q - Concurrency
        BY <3>1, <2>1, <1>2, <1>6 DEF Served
      <3>5. q # 0 /\ q # 1
        BY <3>2, <3>4, <1>2
      <3>6. /\ q - 1 \in Nat /\ OllamaTimeout - 1 \in 0..(OllamaTimeout - 1)
            /\ (q - 1) * OllamaTimeout + (OllamaTimeout - 1) = q * OllamaTimeout - 1
            /\ (q - 1) * OllamaTimeout \in Nat /\ q * OllamaTimeout \in Nat
            /\ Concurrency * (q - 1) - Concurrency + Concurrency = Concurrency * q - Concurrency
        BY <3>5, <1>2
      <3>7. Served(b, q - 1, OllamaTimeout - 1)'
        <4>1. Served(b, q, e)
          BY <1>6
        <4>2. \A j \in DOMAIN waiters : waiters[j][1] = b => j <= Concurrency * q - Concurrency
          BY <4>1, <2>1, <1>2 DEF Served
        <4>3. QED BY <4>2, <3>3, <3>6, <2>2, <1>1 DEF Served
      <3>8. age'[b] + (q - 1) * OllamaTimeout + (OllamaTimeout - 1) <= due'[b] 
            /\ age'[b] <= due'[b]
        <4> DEFINE m == q * OllamaTimeout
                   n == (q - 1) * OllamaTimeout
        <4>1. m \in Nat /\ n \in Nat /\ n + (OllamaTimeout - 1) = m - 1
          BY <3>6
        <4>2. age[b] + m <= due[b]
          BY <4>1, <1>4, <1>6, <1>10
        <4> HIDE DEF m, n
        <4>3. age'[b] + n + (OllamaTimeout - 1) <= due'[b] /\ age'[b] <= due'[b]
          BY <4>1, <4>2, <1>2, <1>3, <1>4
        <4>4. QED BY <4>3 DEF n
      <3>9. QED BY <3>6, <3>7, <3>8, <1>8 DEF InTime
    <2>4. CASE ~ \E k \in DOMAIN waiters : waiters[k][1] = b
      <3>1. age[b] + 1 <= due[b]
        BY <2>4, <1>1, <1>3, <1>7, TaskLeft
      <3>2. Served(b, 0, 0)'
        BY <2>4, <1>1 DEF Served
      <3>3. /\ 0 \in Nat /\ 0 \in 0..(OllamaTimeout - 1)
            /\ age'[b] + 0 * OllamaTimeout + 0 <= due'[b] /\ age'[b] <= due'[b]
        BY <3>1, <1>2, <1>3, <1>4
      <3>4. QED BY <3>2, <3>3, <1>8 DEF InTime
    <2>5. QED BY <2>3, <2>4
  <1>11. QED BY <1>9, <1>10
\* A task that ends moves the queue up by one place; the waiter that gets the
\* permit has at least a round left.
LEMMA FinishRounds ==
    ASSUME BackendInv, BackendInv', RoundsInv,
           NEW t \in DOMAIN running, NEW ok \in BOOLEAN, Finish(t, ok)
    PROVE  RoundsInv'
  <1>1. Release(t, ok) /\ UNCHANGED <<handler, age, due>>
    BY DEF Finish
  <1>2. /\ age \in [Batches -> Nat] /\ due \in [Batches -> Nat]
        /\ waiters \in Seq(Tasks) /\ OllamaTimeout \in Nat \ {0}
        /\ Concurrency \in Nat \ {0}
        /\ IsFiniteSet(DOMAIN running) /\ IsFiniteSet(DOMAIN running')
        /\ \A u \in DOMAIN running : running[u] \in 0..OllamaTimeout
        /\ Range(waiters) \cap DOMAIN running = {}
    BY TimesAssumption, ConcurrencyAssumption DEF BackendInv, TypeOK, TasksAccounted
  <1> SUFFICES ASSUME NEW b \in Batches, handler'[b] = "gather" PROVE InTime(b)'
    BY DEF RoundsInv
  <1>3. InTime(b)
    BY <1>1 DEF RoundsInv
  <1>4. age'[b] = age[b] /\ due'[b] = due[b] /\ age[b] \in Nat /\ due[b] \in Nat
        /\ age[b] <= due[b]
    BY <1>1, <1>2, <1>3 DEF InTime
  <1>5. PICK q \in Nat, e \in 0..(OllamaTimeout - 1) :
            age[b] + q * OllamaTimeout + e <= due[b] /\ Served(b, q, e)
    BY <1>3 DEF InTime
  <1>6. CASE waiters = <<>>
    <2>1. waiters' = <<>> /\ running' = Restrict(running, DOMAIN running \ {t})
      BY <1>1, <1>6 DEF Release
    <2>2. \A u \in DOMAIN running' : u \in DOMAIN running /\ running'[u] = running[u]
      BY <2>1 DEF Restrict
    <2>3. \A u \in DOMAIN running' : u[1] = b => age'[b] + OllamaTimeout <= due'[b] + running'[u]
      BY <2>2, <1>3, <1>4 DEF InTime
    <2>4. Served(b, q, e)'
      BY <2>1 DEF Served
    <2>5. QED BY <2>3, <2>4, <1>4, <1>5 DEF InTime
  <1>7. CASE waiters # <<>>
    <2> DEFINE h == Head(waiters)
               D == DOMAIN running
    <2>1. /\ running' = [s \in (D \ {t}) \cup {h} |-> IF s \in D THEN running[s] ELSE 0]
          /\ waiters' = Tail(waiters)
      BY <1>1, <1>7 DEF Release
    <2>2. /\ h = waiters[1] /\ 1 \in DOMAIN waiters /\ DOMAIN waiters = 1..Len(waiters)
          /\ DOMAIN waiters' = 1..(Len(waiters) - 1) /\ Len(waiters) \in Nat
          /\ \A k \in DOMAIN waiters' : /\ k + 1 \in DOMAIN waiters
                                        /\ waiters'[k] = waiters[k + 1]
      BY <2>1, <1>2, <1>7
    <2>3. h \notin D
      BY <2>2, <1>2 DEF Range
    <2> HIDE DEF h, D
    <2>4. /\ DOMAIN running' = (D \ {t}) \cup {h}
          /\ \A u \in D \ {t} : running'[u] = running[u]
          /\ running'[h] = 0
      BY <2>1, <2>3
    <2> DEFINE E == EndsWithin(e)
               F == EndsWithin(e)'
    <2>5. /\ Cardinality(E) \in Nat /\ Cardinality(F) \in Nat
          /\ Cardinality(E) <= Cardinality(F) + 1
          /\ Cardinality(E) <= Concurrency
      <3>1. E \ {t} \subseteq F
        BY <2>4 DEF EndsWithin, D
      <3>2. E \subseteq DOMAIN running /\ F \subseteq DOMAIN running'
        BY DEF EndsWithin
      <3>3. IsFiniteSet(E) /\ IsFiniteSet(F)
        BY <3>2, <1>2, FS_Subset
      <3>4. /\ Cardinality(E) \in Nat /\ Cardinality(F) \in Nat
            /\ Cardinality(E) <= Cardinality(DOMAIN running)
        BY <3>2, <3>3, <1>2, FS_Subset, FS_CardinalityType
      <3>5. IsFiniteSet(E \ {t}) /\ Cardinality(E \ {t}) <= Cardinality(F)
        BY <3>1, <3>3, FS_Subset
      <3>6. Cardinality(E \ {t}) = IF t \in E THEN Cardinality(E) - 1 ELSE Cardinality(E)
        BY <3>3, FS_RemoveElement
      <3>7. Cardinality(DOMAIN running) \in 0..Concurrency
        BY AllRun
      <3>8. QED BY <3>4, <3>5, <3>6, <3>7, <1>2
    <2>6. \A k \in DOMAIN waiters : waiters[k][1] = b =>
              k <= Concurrency * q - Concurrency + Cardinality(E)
      BY <1>5 DEF Served
    <2> HIDE DEF E, F
    <2>7. Concurrency * q \in Nat /\ q * OllamaTimeout \in Nat
      BY <1>2
    <2>8. Served(b, q, e)'
      <3> SUFFICES ASSUME NEW k \in DOMAIN waiters', waiters'[k][1] = b
                   PROVE  k <= Concurrency * q - Concurrency + Cardinality(F)
        BY DEF Served, F
      <3> DEFINE p == Concurrency * q
      <3>1. k + 1 <= p - Concurrency + Cardinality(E) /\ k \in Nat /\ p \in Nat
        BY <2>2, <2>6, <2>7
      <3> HIDE DEF p
      <3>2. k <= p - Concurrency + Cardinality(F)
        BY <3>1, <2>5, <1>2
      <3>3. QED BY <3>2 DEF p
    <2>9. \A u \in DOMAIN running' : u[1] = b => age'[b] + OllamaTimeout <= due'[b] + running'[u]
      <3> SUFFICES ASSUME NEW u \in DOMAIN running', u[1] = b
                   PROVE  age[b] + OllamaTimeout <= due[b] + running'[u]
        BY <1>4
      <3>1. CASE u \in D \ {t}
        BY <3>1, <2>4, <1>3 DEF InTime, D
      <3>2. CASE u = h
        <4>1. 1 <= Concurrency * q - Concurrency + Cardinality(E)
          BY <3>2, <2>2, <2>6
        <4>2. q # 0
          BY <4>1, <2>5, <1>2
        <4>3. q * OllamaTimeout >= OllamaTimeout
          BY <4>2, <1>2
        <4> DEFINE m == q * OllamaTimeout
        <4>4. age[b] + m + e <= due[b] /\ m \in Nat /\ m >= OllamaTimeout
          BY <4>3, <2>7, <1>5
        <4> HIDE DEF m
        <4>5. age[b] + OllamaTimeout <= due[b]
          BY <4>4, <1>2, <1>4
        <4>6. QED BY <4>5, <3>2, <2>4, <1>4
      <3>3. QED BY <3>1, <3>2, <2>4
    <2>10. QED BY <2>8, <2>9, <1>4, <1>5 DEF InTime
  <1>8. QED BY <1>6, <1>7
\* The rounds of a new batch are those that its place in the queue needs; the
\* places of the others stay.
LEMMA InferRounds ==
    ASSUME BackendInv, BackendInv', RoundsInv, NEW b \in Batches, Infer(b)
    PROVE  RoundsInv'
  <1> DEFINE got == Least(permits, Size[b])
             late == [i \in 1..(Size[b] - got) |-> <<b, got + i>>]
             R == Rounds(Unfinished, Size[b])
  <1>1. /\ handler[b] = "none" /\ handler' = [handler EXCEPT ![b] = "gather"]
        /\ running' = [t \in DOMAIN running \cup {<<b, i>> : i \in 1..got} |->
                          IF t \in DOMAIN running THEN running[t] ELSE 0]
        /\ waiters' = waiters \o late
        /\ permits' = permits - got
        /\ due' = [due EXCEPT ![b] = age[b] + OllamaTimeout * R]
        /\ age' = age
    BY DEF Infer
  <1>2. /\ age \in [Batches -> Nat] /\ due \in [Batches -> Nat]
        /\ handler \in [Batches -> {"none", "gather", "returned"}]
        /\ waiters \in Seq(Tasks) /\ waiters' \in Seq(Tasks)
        /\ OllamaTimeout \in Nat \ {0} /\ Concurrency \in Nat \ {0}
        /\ permits \in Nat /\ Size[b] \in Nat \ {0}
        /\ DOMAIN running \subseteq Tasks
        /\ IsFiniteSet(DOMAIN running) /\ IsFiniteSet(DOMAIN running')
    BY BatchesAssumption, TimesAssumption, ConcurrencyAssumption DEF BackendInv, TypeOK
  <1>3. got \in Nat /\ got <= Size[b]
    BY <1>2 DEF Least
  <1>4. /\ late \in Seq(Tasks) /\ Len(late) = Size[b] - got
        /\ \A k \in 1..Len(late) : late[k][1] = b
    <2>1. \A i \in 1..(Size[b] - got) : got + i \in 1..Size[b]
      BY <1>2, <1>3
    <2>2. \A i \in 1..(Size[b] - got) : late[i] \in Tasks /\ late[i][1] = b
      BY <2>1 DEF Tasks
    <2>3. Size[b] - got \in Nat
      BY <1>2, <1>3
    <2>4. QED BY <2>2, <2>3
  <1> HIDE DEF got, late
  <1>5. /\ Len(waiters) \in Nat /\ DOMAIN waiters = 1..Len(waiters)
        /\ Len(waiters') = Len(waiters) + Len(late) /\ Len(waiters') \in Nat
        /\ DOMAIN waiters' = 1..Len(waiters')
        /\ \A k \in 1..Len(waiters) : waiters'[k] = waiters[k]
        /\ \A k \in (Len(waiters) + 1)..Len(waiters') :
               k - Len(waiters) \in 1..Len(late) /\ waiters'[k] = late[k - Len(waiters)]
    <2>1. /\ waiters \o late \in Seq(Tasks)
          /\ Len(waiters \o late) = Len(waiters) + Len(late)
          /\ \A k \in 1..(Len(waiters) + Len(late)) :
                (waiters \o late)[k] = IF k <= Len(waiters) THEN waiters[k]
                                       ELSE late[k - Len(waiters)]
      BY <1>2, <1>4, ConcatProperties
    <2>2. /\ Len(waiters) \in Nat /\ DOMAIN waiters = 1..Len(waiters)
          /\ Len(late) \in Nat /\ DOMAIN waiters' = 1..Len(waiters')
      BY <1>2, <1>4
    <2>3. QED BY <2>1, <2>2, <1>1
  <1>6. \A t \in DOMAIN running : t \in DOMAIN running' /\ running'[t] = running[t]
    BY <1>1
  <1>7. \A t \in DOMAIN running : t[1] # b
    <2> SUFFICES ASSUME NEW t \in DOMAIN running, t[1] = b PROVE FALSE
      OBVIOUS
    <2>1. PICK i \in 1..Size[b] : t = <<b, i>>
      BY <1>2 DEF Tasks
    <2>2. <<b, i>> \notin InFlight
      BY <1>1, TasksByName DEF BackendInv, Accounted
    <2>3. QED BY <2>1, <2>2 DEF InFlight
  <1> SUFFICES ASSUME NEW c \in Batches, handler'[c] = "gather" PROVE InTime(c)'
    BY DEF RoundsInv
  <1>8. CASE c # b
    <2>1. handler[c] = "gather" /\ due'[c] = due[c] /\ age'[c] = age[c]
      BY <1>1, <1>2, <1>8
    <2>2. InTime(c)
      BY <2>1 DEF RoundsInv
    <2>3. PICK q \in Nat, e \in 0..(OllamaTimeout - 1) :
              age[c] + q * OllamaTimeout + e <= due[c] /\ Served(c, q, e)
      BY <2>2 DEF InTime
    <2>4. EndsWithin(e) \subseteq EndsWithin(e)'
      BY <1>6 DEF EndsWithin
    <2>5. /\ Cardinality(EndsWithin(e)) <= Cardinality(EndsWithin(e)')
          /\ Cardinality(EndsWithin(e)) \in Nat /\ Cardinality(EndsWithin(e)') \in Nat
      BY <2>4, <1>2, EndsWithinGrows
    <2>6. ASSUME NEW k \in DOMAIN waiters', waiters'[k][1] = c
          PROVE  k <= Concurrency * q - Concurrency + Cardinality(EndsWithin(e)')
      <3>1. k \in 1..Len(waiters)
        <4>1. CASE k <= Len(waiters)
          BY <4>1, <1>5
        <4>2. CASE ~(k <= Len(waiters))
          <5>1. k \in (Len(waiters) + 1)..Len(waiters')
            BY <4>2, <1>5
          <5>2. waiters'[k][1] = b
            BY <5>1, <1>4, <1>5
          <5>3. QED BY <5>2, <2>6, <1>8
        <4>3. QED BY <4>1, <4>2
      <3>2. k \in DOMAIN waiters /\ waiters[k][1] = c
        BY <3>1, <2>6, <1>5
      <3> DEFINE p == Concurrency * q
      <3>3. k <= p - Concurrency + Cardinality(EndsWithin(e)) /\ p \in Nat
        BY <3>2, <2>3, <1>2 DEF Served
      <3> HIDE DEF p
      <3>4. k <= p - Concurrency + Cardinality(EndsWithin(e)')
        BY <3>1, <3>3, <2>5, <1>2, <1>5
      <3>5. QED BY <3>4 DEF p
    <2>7. Served(c, q, e)'
      BY <2>6 DEF Served
    <2>8. ASSUME NEW t \in DOMAIN running', t[1] = c
          PROVE  age'[c] + OllamaTimeout <= due'[c] + running'[t]
      <3>1. t \in DOMAIN running
        BY <2>8, <1>1, <1>8
      <3>2. QED BY <3>1, <2>1, <2>2, <2>8, <1>6 DEF InTime
    <2>9. QED BY <2>1, <2>2, <2>3, <2>7, <2>8 DEF InTime
  <1>9. CASE c = b
    <2>1. Unfinished = Len(waiters) + Cardinality(DOMAIN running) /\ Unfinished \in Nat
      BY <1>2, <1>5, FS_CardinalityType DEF Unfinished
    <2>2. R \in Nat \ {0} /\ Concurrency * R >= Unfinished + Size[b]
      BY <2>1, <1>2, RoundsSuffice
    <2>0. PICK r \in Nat \ {0} : r = R
      BY <2>2
    <2> HIDE DEF R
    <2>3. due'[b] = age[b] + OllamaTimeout * r /\ age'[b] = age[b] /\ age[b] \in Nat
      BY <2>0, <1>1, <1>2
    <2>4. OllamaTimeout * r >= OllamaTimeout /\ OllamaTimeout * r = r * OllamaTimeout
          /\ r * OllamaTimeout \in Nat /\ Concurrency * r \in Nat
      BY <1>2
    <2>5. ASSUME NEW t \in DOMAIN running', t[1] = b
          PROVE  age'[b] + OllamaTimeout <= due'[b] + running'[t]
      <3>1. running'[t] = 0
        BY <2>5, <1>1, <1>7
      <3> DEFINE d == OllamaTimeout * r
      <3>2. age'[b] = age[b] /\ due'[b] = age[b] + d /\ d \in Nat /\ d >= OllamaTimeout
        BY <2>3, <2>4
      <3> HIDE DEF d
      <3>3. QED BY <3>1, <3>2, <2>3, <1>2
    <2>6. ASSUME NEW k \in DOMAIN waiters'
          PROVE  k <= Concurrency * r - Concurrency + Cardinality(EndsWithin(0)')
      <3>1. waiters' # <<>> /\ k <= Len(waiters') /\ k \in Nat
        BY <1>5
      <3>2. permits' = 0 /\ Cardinality(DOMAIN running) \in Nat
            /\ permits + Cardinality(DOMAIN running) = Concurrency
        BY <3>1, <1>2, FS_CardinalityType DEF BackendInv, PermitsAccounted
      <3>3. Len(waiters') + Concurrency = Unfinished + Size[b]
        <4>1. Len(waiters') = Len(waiters) + (Size[b] - got)
          BY <1>4, <1>5
        <4>2. permits = got
          BY <3>2, <1>1, <1>2, <1>3
        <4>3. /\ Len(waiters) \in Nat /\ got \in Nat /\ Size[b] \in Nat
              /\ got + Cardinality(DOMAIN running) = Concurrency
          BY <4>2, <3>2, <1>2, <1>3, <1>5
        <4>4. QED BY <4>1, <4>3, <3>2, <2>1
      <3>4. Cardinality(EndsWithin(0)') \in Nat
        <4>1. IsFiniteSet(EndsWithin(0)')
          BY <1>2, FS_Subset DEF EndsWithin
        <4>2. QED BY <4>1, FS_CardinalityType
      <3> DEFINE p == Concurrency * r
      <3>5. p >= Unfinished + Size[b] /\ p \in Nat
        BY <2>0, <2>2, <2>4
      <3> HIDE DEF p
      <3>6. k <= p - Concurrency + Cardinality(EndsWithin(0)')
        BY <3>1, <3>3, <3>4, <3>5, <2>1, <1>2, <1>5
      <3>7. QED BY <3>6 DEF p
    <2>7. Served(b, r, 0)'
      BY <2>6 DEF Served
    <2>8. /\ r \in Nat /\ 0 \in 0..(OllamaTimeout - 1)
          /\ age'[b] + r * OllamaTimeout + 0 <= due'[b] /\ age'[b] <= due'[b]
      BY <2>3, <2>4, <1>2
    <2>9. QED BY <2>5, <2>7, <2>8, <1>9 DEF InTime
  <1>10. QED BY <1>8, <1>9

\* A step that leaves the tasks and the times of the gathering handlers alone.
LEMMA RoundsUntouched ==
    ASSUME RoundsInv, UNCHANGED <<waiters, running>>,
           \A b \in Batches : handler'[b] = "gather" =>
               handler[b] = "gather" /\ age'[b] = age[b] /\ due'[b] = due[b]
    PROVE  RoundsInv'
  <1>1. \A e : EndsWithin(e)' = EndsWithin(e)
    BY DEF EndsWithin
  <1>2. \A b, q, e : Served(b, q, e)' = Served(b, q, e)
    BY <1>1 DEF Served
  <1>3. QED BY <1>2 DEF RoundsInv, InTime

\* The steps of the batcher, and a handler that returns.
LEMMA OthersRounds ==
    ASSUME BackendInv, RoundsInv,
           NEW b \in Batches, Post(b) \/ GiveUp(b) \/ Cut(b) \/ Respond(b)
    PROVE  RoundsInv'
  <1>1. /\ handler \in [Batches -> {"none", "gather", "returned"}]
        /\ age \in [Batches -> Nat] /\ due \in [Batches -> Nat]
    BY DEF BackendInv, TypeOK
  <1>2. CASE Post(b)
    BY <1>1, <1>2, RoundsUntouched DEF Post, taskVars
  <1>3. CASE GiveUp(b) \/ Cut(b)
    BY <1>1, <1>3, RoundsUntouched DEF GiveUp, Cut, taskVars
  <1>4. CASE Respond(b)
    BY <1>1, <1>4, RoundsUntouched DEF Respond
  <1>5. QED BY <1>2, <1>3, <1>4

----------------------------------------------------------------------------
(* Batches given up *)

\* The batcher waits for a batch that is posted until it is answered, given up
\* or cut off; one that is given up has seen the timeout pass.
GivenUpLate(b) ==
    /\ call[b] = "open" => handler[b] # "returned"
    /\ call[b] = "late" => IF handler[b] = "none" THEN age[b] >= BatchTimeout
                                                 ELSE due[b] >= BatchTimeout

LateCalls == \A b \in Batches : GivenUpLate(b)

TimedInv == BackendInv /\ RoundsInv /\ LateCalls

\* A batch is given up at its timeout, or was due after it when it was read late.
LEMMA NextKeepsLateCalls ==
    ASSUME BackendInv, BackendInv', RoundsInv, LateCalls, [Next]_vars
    PROVE  LateCalls'
  <1> SUFFICES ASSUME NEW c \in Batches
               PROVE  GivenUpLate(c)'
    BY DEF LateCalls
  <1>1. /\ call \in [Batches -> {"idle", "open", "answered", "late", "cut"}]
        /\ handler \in [Batches -> {"none", "gather", "returned"}]
        /\ age \in [Batches -> Nat] /\ due \in [Batches -> Nat]
        /\ age[c] \in Nat /\ due[c] \in Nat
        /\ BatchTimeout \in Nat /\ Horizon \in Nat /\ Horizon > BatchTimeout
    BY TimesAssumption DEF BackendInv, TypeOK
  <1>2. /\ call[c] = "open" => handler[c] # "returned"
        /\ call[c] = "late" => IF handler[c] = "none" THEN age[c] >= BatchTimeout
                                                     ELSE due[c] >= BatchTimeout
        /\ handler[c] = "gather" => age[c] <= due[c]
    BY DEF LateCalls, GivenUpLate, RoundsInv, InTime
  <1>3. CASE Tick
    BY <1>1, <1>2, <1>3 DEF GivenUpLate, Tick, Aging, Least, clientVars
  <1>4. CASE TaskStep
    BY <1>2, <1>4 DEF GivenUpLate, TaskStep, Finish, clientVars
  <1>5. ASSUME NEW b \in Batches, Post(b)
        PROVE  GivenUpLate(c)'
    BY <1>1, <1>2, <1>5 DEF GivenUpLate, Post
  <1>6. ASSUME NEW b \in Batches, GiveUp(b) \/ Cut(b)
        PROVE  GivenUpLate(c)'
    BY <1>1, <1>2, <1>6 DEF GivenUpLate, GiveUp, Cut
  <1>7. ASSUME NEW b \in Batches, Infer(b)
        PROVE  GivenUpLate(c)'
    <2>1. /\ UNCHANGED <<call, age>> /\ handler[b] = "none"
          /\ handler' = [handler EXCEPT ![b] = "gather"]
          /\ \E d : due' = [due EXCEPT ![b] = d]
      BY <1>7 DEF Infer, clientVars
    <2>2. handler'[b] = "gather" /\ age'[b] \in Nat /\ due'[b] \in Nat /\ age'[b] <= due'[b]
      <3>1. RoundsInv'
        BY <1>7, InferRounds
      <3>2. handler'[b] = "gather"
        BY <2>1, <1>1
      <3>3. QED BY <3>1, <3>2 DEF RoundsInv, InTime, BackendInv, TypeOK
    <2>3. CASE c = b
      BY <2>1, <2>2, <2>3, <1>1, <1>2 DEF GivenUpLate
    <2>4. CASE c # b
      BY <2>1, <2>4, <1>1, <1>2 DEF GivenUpLate
    <2>5. QED BY <2>3, <2>4
  <1>8. ASSUME NEW b \in Batches, Respond(b)
        PROVE  GivenUpLate(c)'
    BY <1>1, <1>2, <1>8 DEF GivenUpLate, Respond, Gathered
  <1>9. CASE UNCHANGED vars
    BY <1>2, <1>9 DEF GivenUpLate, vars
  <1>10. QED BY <1>3, <1>4, <1>5, <1>6, <1>7, <1>8, <1>9 DEF Next

\* All of the timed invariant is kept.
LEMMA NextKeepsTimedInv == TimedInv /\ [Next]_vars => TimedInv'
  <1> SUFFICES ASSUME TimedInv, [Next]_vars PROVE TimedInv'
    OBVIOUS
  <1>1. BackendInv /\ RoundsInv /\ LateCalls /\ BackendInv'
    BY NextKeepsBackendInv DEF TimedInv
  <1>2. CASE Tick
    BY <1>1, <1>2, TickRounds, NextKeepsLateCalls DEF TimedInv
  <1>3. ASSUME NEW t \in DOMAIN running, NEW ok \in BOOLEAN, Finish(t, ok) PROVE RoundsInv'
    BY <1>1, <1>3, FinishRounds
  <1>4. ASSUME NEW b \in Batches, Infer(b) PROVE RoundsInv'
    BY <1>1, <1>4, InferRounds
  <1>5. ASSUME NEW b \in Batches, Post(b) \/ GiveUp(b) \/ Cut(b) \/ Respond(b)
        PROVE  RoundsInv'
    BY <1>1, <1>5, OthersRounds
  <1>6. CASE UNCHANGED vars
    <2>1. RoundsInv'
      BY <1>1, <1>6, RoundsUntouched DEF vars
    <2>2. QED BY <2>1, <1>1, NextKeepsLateCalls DEF TimedInv
  <1>7. RoundsInv'
    BY <1>1, <1>2, <1>3, <1>4, <1>5, <1>6 DEF Next, TaskStep, TimedInv
  <1>8. QED BY <1>1, <1>7, NextKeepsLateCalls DEF TimedInv

LEMMA InitTimedInv == Init => TimedInv
  BY InitBackendInv DEF Init, TimedInv, RoundsInv, LateCalls, GivenUpLate

----------------------------------------------------------------------------
(* The theorems *)

\* The queue of the semaphore and the running tasks hold each task of a gathering
\* handler once (main.py:82, 136-142).
THEOREM BackendInductive == Spec => []BackendInv
  BY InitBackendInv, NextKeepsBackendInv, PTL DEF Spec

\* Every variable keeps its type, the results that a batch is answered with too:
\* gather finds a result for each place (main.py:136-142).
THEOREM BackendTypeCorrect == Spec => []TypeOK
  <1>1. BackendInv => TypeOK
    BY DEF BackendInv
  <1>2. QED BY <1>1, BackendInductive, PTL

\* The semaphore keeps its permits, and no more tasks than it allows call Ollama
\* at once, for any concurrency and any batches (main.py:29-32, 82).
THEOREM SemaphoreIsExact == Spec => []PermitsAccounted
  <1>1. BackendInv => PermitsAccounted
    BY DEF BackendInv
  <1>2. QED BY <1>1, BackendInductive, PTL

\* No task is lost or left behind (main.py:136-142).
THEOREM EveryTaskAccounted == Spec => []TasksAccounted
  <1>1. BackendInv => TasksAccounted
    BY DEF BackendInv
  <1>2. QED BY <1>1, BackendInductive, PTL

\* A gathering batch has as many rounds of Ollama calls before it as its place in
\* the queue and the ages of the running calls ask for, and a call given up for
\* lateness was due after BACKEND_TIMEOUT_MS (main.py:24-32, 82, 140-141).
THEOREM TimedInductive == Spec => []TimedInv
  BY InitTimedInv, NextKeepsTimedInv, PTL DEF Spec

\* The bound on the service of a batch holds for any batches, any concurrency and
\* any timeout of Ollama: who comes later delays nobody (main.py:24-32, 82).
THEOREM ServiceIsBounded == Spec => []BoundedService
  <1>1. TimedInv => BoundedService
    BY DEF TimedInv, RoundsInv, InTime, BoundedService
  <1>2. QED BY <1>1, TimedInductive, PTL

\* A batch whose rounds end before the batcher's timeout is never given up for
\* lateness (main.py:24-28, 72-76, batcher.go:131-133).
THEOREM FittingBatchesAreAnswered == Spec => []FitsIsAnswered
  <1>1. TimedInv => FitsIsAnswered
    BY DEF TimedInv, LateCalls, GivenUpLate, FitsIsAnswered
  <1>2. QED BY <1>1, TimedInductive, PTL

\* Every step of the backend is one that the batcher relies on.
LEMMA StepInService ==
    ASSUME BackendInv, [Next]_vars
    PROVE  [Service!Next]_(Service!service)
  <1>0. call \in [Batches -> {"idle", "open", "answered", "late", "cut"}]
        /\ body \in [Batches -> Seq([of : Nat, ok : BOOLEAN])]
    BY DEF BackendInv, TypeOK
  <1>1. ASSUME UNCHANGED <<call, body>>
        PROVE  UNCHANGED Service!service
    BY <1>1 DEF Service!service, Outcome
  <1>2. CASE Tick \/ TaskStep \/ UNCHANGED vars
    BY <1>1, <1>2 DEF Tick, TaskStep, Finish, vars, clientVars
  <1>3. ASSUME NEW b \in Batches, Post(b) PROVE Service!Post(b)
    BY <1>0, <1>3 DEF Post, Service!Post, Outcome
  <1>4. ASSUME NEW b \in Batches, GiveUp(b) \/ Cut(b) PROVE Service!Fail(b)
    BY <1>0, <1>4 DEF GiveUp, Cut, Service!Fail, Outcome
  <1>5. ASSUME NEW b \in Batches, Infer(b) PROVE UNCHANGED Service!service
    BY <1>1, <1>5 DEF Infer, clientVars
  <1>6. ASSUME NEW b \in Batches, Respond(b)
        PROVE  Service!Answer(b) \/ UNCHANGED Service!service
    <2>1. CASE call[b] # "open"
      BY <2>1, <1>1, <1>6 DEF Respond
    <2>2. CASE call[b] = "open"
      <3>1. /\ call' = [call EXCEPT ![b] = "answered"]
            /\ body' = [body EXCEPT ![b] = InOrder(b)]
            /\ Gathered(b)
        BY <2>2, <1>6 DEF Respond
      <3>2. /\ InOrder(b) \in [1..Size[b] -> [of : Nat, ok : BOOLEAN]]
            /\ \A i \in 1..Size[b] : InOrder(b)[i].of = i
        BY <3>1, AnswerInOrder
      <3>3. InOrder(b) \in [1..Size[b] -> Service!Item(b)]
        <4>1. \A i \in 1..Size[b] : InOrder(b)[i] \in [of : 1..Size[b], ok : BOOLEAN]
          BY <3>2
        <4>2. QED BY <4>1, <3>2 DEF Service!Item
      <3>4. Outcome[b] = "open" /\ Outcome' = [Outcome EXCEPT ![b] = "answered"]
        BY <2>2, <3>1, <1>0 DEF Outcome
      <3>5. QED BY <3>1, <3>2, <3>3, <3>4 DEF Service!Answer
    <2>3. QED BY <2>1, <2>2
  <1>7. QED BY <1>2, <1>3, <1>4, <1>5, <1>6 DEF Next, Service!Next

\* The handler with its semaphore and its timeouts implements what the batcher
\* relies on: one result per prompt in the order of the payload, or one failure
\* (main.py:123-142).  The liveness of ImplementsService is left to TLC.
THEOREM BackendServes == Spec => Service!Spec
  <1>1. Init => Service!Init
    BY DEF Init, Service!Init, Outcome
  <1>2. BackendInv /\ [Next]_vars => [Service!Next]_(Service!service)
    BY StepInService
  <1>3. QED BY <1>1, <1>2, BackendInductive, PTL DEF Spec, Service!Spec
=============================================================================
