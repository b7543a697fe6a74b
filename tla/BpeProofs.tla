------------------------------ MODULE BpeProofs ------------------------------
(***************************************************************************)
(* Proofs about the byte-pair encoding of Bpe.tla for any text and any     *)
(* choice among the most frequent pairs.                                   *)
(*                                                                         *)
(* Apply parses a word from left to right and merges wherever it can, so   *)
(* the tokens it leaves for a run depend on the tokens of that run alone   *)
(* (SameParse).  Hence equal text is cut into equal tokens wherever it     *)
(* stands in the corpus (OneSpelling), and text that is spelt like a token *)
(* of the vocabulary is that one token (Whole): were it the merged pair    *)
(* again and still in two tokens, the pass would have merged them.  A pair *)
(* that stands in the words is two tokens, so its concatenation is new     *)
(* (NewToken).                                                             *)
(***************************************************************************)
EXTENDS Bpe, FiniteSetTheorems, SequenceTheorems, WellFoundedInduction, TLAPS

Token == Seq(STRING) \ {<<>>}
Pair  == Token \X Token

----------------------------------------------------------------------------
(* Induction and recursion over the natural numbers *)

\* Numbers are well founded.
LEMMA LeastElement ==
    ASSUME NEW S \in SUBSET Nat, S # {}
    PROVE  \E m \in S : \A n \in S : m <= n
  <1> DEFINE R == OpToRel(<, Nat)
  <1>1. IsWellFoundedOn(R, Nat)
    BY NatLessThanWellFounded
  <1>2. \A x, y \in Nat : x < y => <<x, y>> \in R
    BY DEF OpToRel
  <1> HIDE DEF R
  <1>3. PICK x \in S : \A y \in S : ~(<<y, x>> \in R)
    BY <1>1, WFMin
  <1>4. ASSUME NEW y \in S PROVE x <= y
    <2>1. x \in Nat /\ y \in Nat /\ ~(y < x)
      BY <1>2, <1>3
    <2>2. QED BY <2>1
  <1>5. QED BY <1>4

\* A set of numbers with 0 and with the successor of each of its members.
LEMMA Induct ==
    ASSUME NEW S \in SUBSET Nat, 0 \in S, \A n \in S : n + 1 \in S
    PROVE  S = Nat
  <1> SUFFICES ASSUME Nat \ S # {} PROVE FALSE
    OBVIOUS
  <1>1. PICK m \in Nat \ S : \A n \in Nat \ S : m <= n
    BY LeastElement
  <1>2. m - 1 \in S
    BY <1>1
  <1>3. QED BY <1>1, <1>2

\* The value at each place follows from the one before.
Chain(f, N, V, base, step) ==
    /\ f \in [0..N -> V] /\ f[0] = base
    /\ \A n \in 1..N : f[n] = step[n][f[n - 1]]

\* A function over 0..N that is built from its first value exists, by induction
\* on N.
LEMMA ChainStarts ==
    ASSUME NEW V, NEW base \in V, NEW step
    PROVE  \E f : Chain(f, 0, V, base, step)
  <1>1. Chain([i \in 0..0 |-> base], 0, V, base, step)
    BY DEF Chain
  <1>2. QED BY <1>1

LEMMA ChainGoesOn ==
    ASSUME NEW m \in Nat, NEW V, NEW base \in V, NEW step,
           step[m + 1] \in [V -> V], \E f : Chain(f, m, V, base, step)
    PROVE  \E f : Chain(f, m + 1, V, base, step)
  <1>1. PICK f : Chain(f, m, V, base, step)
    OBVIOUS
  <1>2. /\ f \in [0..m -> V] /\ f[0] = base
        /\ \A n \in 1..m : f[n] = step[n][f[n - 1]]
    BY <1>1 DEF Chain
  <1> DEFINE g == [i \in 0..(m + 1) |-> IF i <= m THEN f[i] ELSE step[m + 1][f[m]]]
  <1>3. g \in [0..(m + 1) -> V]
    <2>1. step[m + 1][f[m]] \in V
      BY <1>2
    <2>2. QED BY <2>1, <1>2
  <1>4. ASSUME NEW n \in 1..(m + 1) PROVE g[n] = step[n][g[n - 1]]
    <2>1. CASE n <= m
      <3>1. n \in 1..m /\ g[n] = f[n] /\ g[n - 1] = f[n - 1]
        BY <2>1
      <3>2. QED BY <3>1, <1>2
    <2>2. CASE n = m + 1
      <3>1. g[n] = step[m + 1][f[m]] /\ g[m] = f[m] /\ n - 1 = m
        BY <2>2
      <3>2. QED BY <2>2, <3>1
    <2>3. QED BY <2>1, <2>2
  <1>5. Chain(g, m + 1, V, base, step)
    BY <1>2, <1>3, <1>4 DEF Chain
  <1>6. QED BY <1>5

\* A definition by recursion over 0..N has a solution, whatever the step does at
\* each place: what CHOOSE takes in a recursive function is one.
LEMMA Recursion ==
    ASSUME NEW N \in Nat, NEW V, NEW base \in V, NEW step \in [1..N -> [V -> V]]
    PROVE  \E f : Chain(f, N, V, base, step)
  <1> DEFINE There(m) == \E f : Chain(f, m, V, base, step)
             S == {m \in Nat : m <= N => There(m)}
  <1>1. There(0)
    BY ChainStarts
  <1>2. ASSUME NEW m \in Nat, m + 1 <= N, There(m) PROVE There(m + 1)
    <2>1. step[m + 1] \in [V -> V]
      BY <1>2
    <2>2. QED BY <2>1, <1>2, ChainGoesOn
  <1> HIDE DEF There
  <1>3. 0 \in S /\ \A m \in S : m + 1 \in S
    <2>1. 0 \in S
      BY <1>1
    <2>2. ASSUME NEW m \in Nat, m \in S PROVE m + 1 \in S
      <3>1. CASE m + 1 <= N
        <4>1. There(m)
          BY <2>2, <3>1
        <4>2. QED BY <4>1, <3>1, <1>2
      <3>2. CASE ~(m + 1 <= N)
        BY <3>2
      <3>3. QED BY <3>1, <3>2
    <2>3. QED BY <2>1, <2>2
  <1>4. S = Nat
    <2>1. S \in SUBSET Nat
      OBVIOUS
    <2> HIDE DEF S
    <2>2. QED BY <2>1, <1>3, Induct
  <1>5. There(N)
    BY <1>4
  <1>6. QED BY <1>5 DEF There

\* Two functions that are built alike are equal as far as both go.
LEMMA ChainsAgree ==
    ASSUME NEW M \in Nat, NEW f, NEW g,
           f[0] = g[0],
           \A n \in 1..M : f[n - 1] = g[n - 1] => f[n] = g[n]
    PROVE  f[M] = g[M]
  <1> DEFINE S == {n \in Nat : n <= M => f[n] = g[n]}
  <1>1. 0 \in S
    OBVIOUS
  <1>2. ASSUME NEW n \in S PROVE n + 1 \in S
    <2>1. CASE n + 1 <= M
      <3>1. n + 1 \in 1..M /\ f[n] = g[n] /\ n + 1 - 1 = n
        BY <2>1
      <3>2. f[n + 1] = g[n + 1]
        BY <3>1
      <3>3. QED BY <3>2
    <2>2. QED BY <2>1
  <1>3. S = Nat
    <2>1. S \in SUBSET Nat
      OBVIOUS
    <2> HIDE DEF S
    <2>2. QED BY <2>1, <1>1, <1>2, Induct
  <1>4. QED BY <1>3

\* A function whose steps stay in a set stays in it.
LEMMA ChainTyped ==
    ASSUME NEW N \in Nat, NEW V, NEW f, f[0] \in V,
           \A n \in 1..N : f[n - 1] \in V => f[n] \in V
    PROVE  \A n \in 0..N : f[n] \in V
  <1> DEFINE S == {n \in Nat : n <= N => f[n] \in V}
  <1>1. 0 \in S
    OBVIOUS
  <1>2. ASSUME NEW n \in S PROVE n + 1 \in S
    <2>1. CASE n + 1 <= N
      <3>1. n + 1 \in 1..N /\ f[n] \in V /\ n + 1 - 1 = n
        BY <2>1
      <3>2. f[n + 1] \in V
        BY <3>1
      <3>3. QED BY <3>2
    <2>2. QED BY <2>1
  <1>3. S = Nat
    <2>1. S \in SUBSET Nat
      OBVIOUS
    <2> HIDE DEF S
    <2>2. QED BY <2>1, <1>1, <1>2, Induct
  <1>4. QED BY <1>3

\* A function that grows at every place.
LEMMA Growing ==
    ASSUME NEW N \in Nat, NEW f \in [0..N -> Int], \A n \in 1..N : f[n - 1] < f[n]
    PROVE  \A i, j \in 0..N : i <= j => f[i] + (j - i) <= f[j]
  <1> SUFFICES ASSUME NEW i \in 0..N
               PROVE  \A j \in 0..N : i <= j => f[i] + (j - i) <= f[j]
    OBVIOUS
  <1> DEFINE S == {d \in Nat : i + d <= N => f[i] + d <= f[i + d]}
  <1>1. 0 \in S
    OBVIOUS
  <1>2. ASSUME NEW d \in S PROVE d + 1 \in S
    <2>1. CASE i + (d + 1) <= N
      <3>1. i + d \in 0..N /\ i + d + 1 \in 1..N /\ f[i] + d <= f[i + d]
        BY <2>1
      <3>2. f[i + d] < f[i + d + 1] /\ f[i + d] \in Int /\ f[i + d + 1] \in Int /\ f[i] \in Int
        BY <3>1
      <3>3. i + (d + 1) = i + d + 1
        OBVIOUS
      <3>4. f[i] + (d + 1) <= f[i + (d + 1)]
        BY <3>1, <3>2, <3>3
      <3>5. QED BY <3>4
    <2>2. QED BY <2>1
  <1>3. S = Nat
    <2>1. S \in SUBSET Nat
      OBVIOUS
    <2> HIDE DEF S
    <2>2. QED BY <2>1, <1>1, <1>2, Induct
  <1>4. ASSUME NEW j \in 0..N, i <= j PROVE f[i] + (j - i) <= f[j]
    <2>0. j - i \in Nat
      BY <1>4
    <2>1. j - i \in S
      BY <2>0, <1>3
    <2>2. i + (j - i) = j
      OBVIOUS
    <2>3. QED BY <2>1, <2>2
  <1>5. QED BY <1>4

----------------------------------------------------------------------------
(* What the recursive functions of Bpe compute *)

\* A merged token is longer than the left one of its pair.
LEMMA MergedToken ==
    ASSUME NEW p \in Pair
    PROVE  /\ p[1] \in Token /\ p[2] \in Token
           /\ Merged(p) \in Token /\ Len(Merged(p)) = Len(p[1]) + Len(p[2])
           /\ \A x \in 1..(Len(p[1]) + Len(p[2])) :
                 Merged(p)[x] = IF x <= Len(p[1]) THEN p[1][x] ELSE p[2][x - Len(p[1])]
           /\ Len(p[1]) \in Nat \ {0} /\ Len(p[2]) \in Nat \ {0}
  <1>1. p[1] \in Token /\ p[2] \in Token
    BY DEF Pair
  <1>2. /\ p[1] \in Seq(STRING) /\ p[2] \in Seq(STRING)
        /\ Len(p[1]) \in Nat \ {0} /\ Len(p[2]) \in Nat \ {0}
    BY <1>1, EmptySeq DEF Token
  <1>3. /\ Merged(p) \in Seq(STRING) /\ Len(Merged(p)) = Len(p[1]) + Len(p[2])
        /\ \A x \in 1..(Len(p[1]) + Len(p[2])) :
              Merged(p)[x] = IF x <= Len(p[1]) THEN p[1][x] ELSE p[2][x - Len(p[1])]
    BY <1>2, ConcatProperties, ZenonT(60) DEF Merged
  <1>4. Merged(p) # <<>>
    <2> DEFINE a == Len(p[1])
               b == Len(p[2])
               c == Len(Merged(p))
    <2>1. c = a + b /\ a \in Nat \ {0} /\ b \in Nat \ {0}
      BY <1>2, <1>3
    <2> HIDE DEF a, b, c
    <2>2. c # 0
      BY <2>1
    <2>3. QED BY <2>2 DEF c
  <1>5. QED BY <1>1, <1>2, <1>3, <1>4 DEF Token

\* All but the last element.
LEMMA FrontProperties ==
    ASSUME NEW S, NEW s \in Seq(S), s # <<>>
    PROVE  /\ Front(s) \in Seq(S) /\ Len(Front(s)) = Len(s) - 1
           /\ \A i \in 1..(Len(s) - 1) : Front(s)[i] = s[i]
           /\ Last(s) = s[Len(s)] /\ Last(s) \in S
           /\ Len(s) \in Nat \ {0}
  <1>1. Len(s) \in Nat \ {0} /\ \A i \in 1..Len(s) : s[i] \in S
    BY EmptySeq, ElementOfSeq
  <1>2. PICK n : n = Len(s) - 1
    OBVIOUS
  <1>3. n \in Nat /\ Len(s) = n + 1 /\ n + 1 \in 1..Len(s)
    BY <1>1, <1>2
  <1>4. \A i \in 1..n : s[i] \in S
    BY <1>1, <1>3
  <1>5. /\ SubSeq(s, 1, n) \in Seq(S)
        /\ Len(SubSeq(s, 1, n)) = IF 1 <= n THEN n - 1 + 1 ELSE 0
        /\ \A i \in 1..(n - 1 + 1) : SubSeq(s, 1, n)[i] = s[1 + i - 1]
    BY <1>3, <1>4, SubSeqProperties
  <1>6. Len(SubSeq(s, 1, n)) = n
    BY <1>3, <1>5
  <1>7. n - 1 + 1 = n /\ \A i \in 1..n : 1 + i - 1 = i
    BY <1>3
  <1>8. \A i \in 1..n : SubSeq(s, 1, n)[i] = s[i]
    BY <1>5, <1>7
  <1>9. Front(s) = SubSeq(s, 1, n) /\ Last(s) = s[n + 1]
    BY <1>2, <1>3 DEF Front, Last
  <1>10. QED BY <1>1, <1>2, <1>3, <1>5, <1>6, <1>8, <1>9

\* A step of the pass.
LEMMA ExtendProperties ==
    ASSUME NEW d \in Seq(Token), NEW t \in Token, NEW p \in Pair
    PROVE  LET e == Extend(d, t, p)
           IN  /\ e \in Seq(Token) /\ Len(d) \in Nat
               /\ \/ /\ Len(d) > 0 /\ d[Len(d)] = p[1] /\ t = p[2]
                     /\ Len(e) = Len(d) /\ e[Len(d)] = Merged(p)
                     /\ \A i \in 1..(Len(d) - 1) : e[i] = d[i]
                  \/ /\ ~(Len(d) > 0 /\ d[Len(d)] = p[1] /\ t = p[2])
                     /\ Len(e) = Len(d) + 1 /\ e[Len(d) + 1] = t
                     /\ \A i \in 1..Len(d) : e[i] = d[i]
  <1>1. Len(d) \in Nat /\ (d # <<>> <=> Len(d) > 0)
    BY EmptySeq, LenProperties
  <1>2. CASE d # <<>> /\ Last(d) = p[1] /\ t = p[2]
    <2>1. /\ Front(d) \in Seq(Token) /\ Len(Front(d)) = Len(d) - 1
          /\ \A i \in 1..(Len(d) - 1) : Front(d)[i] = d[i]
          /\ d[Len(d)] = p[1] /\ Merged(p) \in Token
      BY <1>2, FrontProperties, MergedToken
    <2>2. Extend(d, t, p) = Append(Front(d), Merged(p))
      BY <1>2 DEF Extend
    <2>3. /\ Append(Front(d), Merged(p)) \in Seq(Token)
          /\ Len(Append(Front(d), Merged(p))) = Len(Front(d)) + 1
          /\ \A i \in 1..Len(Front(d)) : Append(Front(d), Merged(p))[i] = Front(d)[i]
          /\ Append(Front(d), Merged(p))[Len(Front(d)) + 1] = Merged(p)
      BY <2>1, AppendProperties
    <2>4. QED BY <1>1, <1>2, <2>1, <2>2, <2>3
  <1>3. CASE ~(d # <<>> /\ Last(d) = p[1] /\ t = p[2])
    <2>1. Extend(d, t, p) = Append(d, t)
      BY <1>3 DEF Extend
    <2>2. ~(Len(d) > 0 /\ d[Len(d)] = p[1] /\ t = p[2])
      BY <1>1, <1>3, FrontProperties
    <2>3. QED BY <1>1, <2>1, <2>2, AppendProperties
  <1>4. QED BY <1>2, <1>3

\* The pass over a word, token by token.
Pass(done, word, p) ==
    /\ done \in [0..Len(word) -> Seq(Token)] /\ done[0] = <<>>
    /\ \A n \in 1..Len(word) : done[n] = Extend(done[n - 1], word[n], p)

\* The recursive function in Apply is a pass over the word.
LEMMA ApplyRecursion ==
    ASSUME NEW word \in Seq(Token), NEW p \in Pair
    PROVE  \E done : Pass(done, word, p) /\ Apply(word, p) = done[Len(word)]
  <1> DEFINE N == Len(word)
             V == Seq(Token)
             step == [n \in 1..N |-> [d \in V |-> Extend(d, word[n], p)]]
             Done(f) == f = [n \in 0..N |-> IF n = 0 THEN <<>> ELSE Extend(f[n - 1], word[n], p)]
             done == CHOOSE f : Done(f)
  <1>1. N \in Nat /\ (\A n \in 1..N : word[n] \in Token) /\ <<>> \in V
    BY LenProperties, ElementOfSeq, EmptySeq
  <1>2. \A n \in 1..N, d \in V : Extend(d, word[n], p) \in V
    BY <1>1, ExtendProperties
  <1>3. \E f : Chain(f, N, V, <<>>, step)
    <2>1. N \in Nat /\ <<>> \in V /\ step \in [1..N -> [V -> V]]
      BY <1>1, <1>2
    <2> HIDE DEF step, N, V
    <2>2. QED BY <2>1, Recursion
  <1>4. PICK f \in [0..N -> V] : f[0] = <<>> /\ \A n \in 1..N : f[n] = step[n][f[n - 1]]
    BY <1>3 DEF Chain
  <1>5. \A n \in 1..N : f[n] = Extend(f[n - 1], word[n], p)
    <2>1. \A n \in 1..N : n - 1 \in 0..N
      BY <1>1
    <2>2. \A n \in 1..N : f[n - 1] \in V
      BY <2>1, <1>4
    <2>3. QED BY <2>2, <1>4
  <1>6. Done(f)
    BY <1>1, <1>4, <1>5
  <1>7. Done(done)
    BY <1>6
  <1> HIDE DEF done
  <1>8. /\ DOMAIN done = 0..N /\ done[0] = <<>>
        /\ \A n \in 1..N : done[n] = Extend(done[n - 1], word[n], p)
    BY <1>1, <1>7
  <1>9. \A n \in 0..N : done[n] \in V
    <2>1. done[0] \in V /\ \A n \in 1..N : done[n - 1] \in V => done[n] \in V
      BY <1>1, <1>2, <1>8
    <2> HIDE DEF N, V
    <2>2. QED BY <2>1, <1>1, ChainTyped
  <1>10. Pass(done, word, p)
    BY <1>7, <1>8, <1>9 DEF Pass
  <1>11. Apply(word, p) = done[N]
    BY DEF Apply, done
  <1>12. QED BY <1>10, <1>11

LEMMA ApplyType ==
    ASSUME NEW word \in Seq(Token), NEW p \in Pair
    PROVE  Apply(word, p) \in Seq(Token)
  <1>1. PICK done : Pass(done, word, p) /\ Apply(word, p) = done[Len(word)]
    BY ApplyRecursion
  <1>2. Len(word) \in 0..Len(word)
    BY LenProperties
  <1>3. QED BY <1>1, <1>2 DEF Pass

\* The merges applied to a word, one by one.
Replayed(at, order, word) ==
    /\ DOMAIN at = 0..Len(order) /\ at[0] = word
    /\ \A n \in 1..Len(order) : at[n] = Apply(at[n - 1], order[n])
    /\ \A n \in 0..Len(order) : at[n] \in Seq(Token)

\* The recursive function in Replay applies the merges one by one.
LEMMA ReplayRecursion ==
    ASSUME NEW order \in Seq(Pair), NEW word \in Seq(Token)
    PROVE  \E at : Replayed(at, order, word) /\ Replay(order, word) = at[Len(order)]
  <1> DEFINE N == Len(order)
             V == Seq(Token)
             step == [n \in 1..N |-> [d \in V |-> Apply(d, order[n])]]
             At(f) == f = [n \in 0..N |-> IF n = 0 THEN word ELSE Apply(f[n - 1], order[n])]
             at == CHOOSE f : At(f)
  <1>1. N \in Nat /\ (\A n \in 1..N : order[n] \in Pair) /\ word \in V
    BY LenProperties, ElementOfSeq
  <1>2. \A n \in 1..N, d \in V : Apply(d, order[n]) \in V
    BY <1>1, ApplyType
  <1>3. \E f : Chain(f, N, V, word, step)
    <2>1. N \in Nat /\ word \in V /\ step \in [1..N -> [V -> V]]
      BY <1>1, <1>2
    <2> HIDE DEF step, N, V
    <2>2. QED BY <2>1, Recursion
  <1>4. PICK f \in [0..N -> V] : f[0] = word /\ \A n \in 1..N : f[n] = step[n][f[n - 1]]
    BY <1>3 DEF Chain
  <1>5. \A n \in 1..N : f[n] = Apply(f[n - 1], order[n])
    <2>1. \A n \in 1..N : n - 1 \in 0..N
      BY <1>1
    <2>2. \A n \in 1..N : f[n - 1] \in V
      BY <2>1, <1>4
    <2>3. QED BY <2>2, <1>4
  <1>6. At(f)
    BY <1>1, <1>4, <1>5
  <1>7. At(at)
    BY <1>6
  <1> HIDE DEF at
  <1>8. /\ DOMAIN at = 0..N /\ at[0] = word
        /\ \A n \in 1..N : at[n] = Apply(at[n - 1], order[n])
    BY <1>1, <1>7
  <1>9. \A n \in 0..N : at[n] \in V
    <2>1. at[0] \in V /\ \A n \in 1..N : at[n - 1] \in V => at[n] \in V
      BY <1>1, <1>2, <1>8
    <2> HIDE DEF N, V
    <2>2. QED BY <2>1, <1>1, ChainTyped
  <1>10. Replayed(at, order, word)
    BY <1>8, <1>9 DEF Replayed
  <1>11. Replay(order, word) = at[N]
    BY DEF Replay, at
  <1>12. QED BY <1>10, <1>11

LEMMA ReplayType ==
    ASSUME NEW order \in Seq(Pair), NEW word \in Seq(Token)
    PROVE  Replay(order, word) \in Seq(Token) /\ (order = <<>> => Replay(order, word) = word)
  <1>1. PICK at : Replayed(at, order, word) /\ Replay(order, word) = at[Len(order)]
    BY ReplayRecursion
  <1>2. Len(order) \in 0..Len(order) /\ (order = <<>> => Len(order) = 0)
    BY LenProperties
  <1>3. QED BY <1>1, <1>2 DEF Replayed

\* To replay one merge more is to apply it to what the others leave.
LEMMA ReplayOneMore ==
    ASSUME NEW order \in Seq(Pair), NEW p \in Pair, NEW word \in Seq(Token)
    PROVE  Replay(Append(order, p), word) = Apply(Replay(order, word), p)
  <1> DEFINE more == Append(order, p)
             N == Len(order)
  <1>1. /\ more \in Seq(Pair) /\ Len(more) = N + 1 /\ N \in Nat
        /\ \A n \in 1..N : more[n] = order[n]
        /\ more[N + 1] = p
    BY AppendProperties, LenProperties
  <1> HIDE DEF more
  <1>2. PICK f : Replayed(f, order, word) /\ Replay(order, word) = f[N]
    BY ReplayRecursion
  <1>3. PICK g : Replayed(g, more, word) /\ Replay(more, word) = g[Len(more)]
    BY <1>1, ReplayRecursion
  <1>4. f[0] = g[0] /\ \A n \in 1..N : f[n - 1] = g[n - 1] => f[n] = g[n]
    <2>1. \A n \in 1..N : n \in 1..Len(more)
      BY <1>1
    <2>2. QED BY <2>1, <1>1, <1>2, <1>3 DEF Replayed
  <1>5. f[N] = g[N]
    <2> HIDE DEF N
    <2>1. QED BY <1>1, <1>4, ChainsAgree
  <1>6. g[N + 1] = Apply(g[N], p)
    <2>1. N + 1 \in 1..Len(more) /\ N + 1 - 1 = N
      BY <1>1
    <2>2. QED BY <2>1, <1>1, <1>3 DEF Replayed
  <1>7. QED BY <1>1, <1>2, <1>3, <1>5, <1>6 DEF more

----------------------------------------------------------------------------
(* The pass of Apply is greedy *)

\* The j-th token of out stands for the tokens of word after pos[j - 1] up to
\* pos[j]: for one that was left alone, and that does not begin the pair, or for
\* the two that were merged.
Alone(word, p, out, pos, j) ==
    /\ pos[j] = pos[j - 1] + 1 /\ out[j] = word[pos[j]]
    /\ ~(pos[j] < Len(word) /\ word[pos[j]] = p[1] /\ word[pos[j] + 1] = p[2])

Joined(word, p, out, pos, j) ==
    /\ pos[j] = pos[j - 1] + 2 /\ out[j] = Merged(p)
    /\ word[pos[j] - 1] = p[1] /\ word[pos[j]] = p[2]

Parse(word, p, out, pos) ==
    /\ pos \in [0..Len(out) -> 0..Len(word)]
    /\ pos[0] = 0 /\ pos[Len(out)] = Len(word)
    /\ \A j \in 1..Len(out) : Alone(word, p, out, pos, j) \/ Joined(word, p, out, pos, j)

\* The same of a part of the word, up to n: its last token may yet be merged.
ParseUpto(word, n, p, out, pos) ==
    /\ pos \in [0..Len(out) -> 0..n]
    /\ pos[0] = 0 /\ pos[Len(out)] = n
    /\ \A j \in 1..Len(out) :
          \/ Joined(word, p, out, pos, j)
          \/ Alone(word, p, out, pos, j)
          \/ j = Len(out) /\ pos[j] = pos[j - 1] + 1 /\ out[j] = word[pos[j]]

\* A step of the pass turns a parse of the word up to n into one up to n + 1.
LEMMA ParseGoesOn ==
    ASSUME NEW word \in Seq(Token), NEW p \in Pair, NEW n \in 0..(Len(word) - 1),
           NEW out \in Seq(Token), \E pos : ParseUpto(word, n, p, out, pos)
    PROVE  \E pos : ParseUpto(word, n + 1, p, Extend(out, word[n + 1], p), pos)
  <1> DEFINE t == word[n + 1]
             e == Extend(out, t, p)
             N == Len(out)
  <1>1. PICK pos : ParseUpto(word, n, p, out, pos)
    OBVIOUS
  <1>2. /\ pos \in [0..N -> 0..n] /\ pos[0] = 0 /\ pos[N] = n
        /\ n \in Nat /\ n + 1 \in 1..Len(word) /\ N \in Nat /\ Len(word) \in Nat
        /\ t \in Token
    BY <1>1, LenProperties, ElementOfSeq DEF ParseUpto
  <1>3. /\ e \in Seq(Token) /\ N \in Nat
        /\ \/ /\ N > 0 /\ out[N] = p[1] /\ t = p[2]
              /\ Len(e) = N /\ e[N] = Merged(p)
              /\ \A i \in 1..(N - 1) : e[i] = out[i]
           \/ /\ ~(N > 0 /\ out[N] = p[1] /\ t = p[2])
              /\ Len(e) = N + 1 /\ e[N + 1] = t
              /\ \A i \in 1..N : e[i] = out[i]
    BY <1>2, ExtendProperties, ZenonT(60)
  <1>4. \A j \in 1..N :
          \/ Joined(word, p, out, pos, j)
          \/ Alone(word, p, out, pos, j)
          \/ j = N /\ pos[j] = pos[j - 1] + 1 /\ out[j] = word[pos[j]]
    BY <1>1 DEF ParseUpto
  <1>5. \A j \in 0..N : pos[j] \in 0..n
    BY <1>2
  <1> HIDE DEF N, e, t
  <1>6. CASE N > 0 /\ out[N] = p[1] /\ t = p[2]
    <2>1. Len(e) = N /\ e[N] = Merged(p) /\ \A i \in 1..(N - 1) : e[i] = out[i]
      BY <1>3, <1>6
    <2>2. N \in 1..N /\ N - 1 \in 0..N
      BY <1>2, <1>6
    <2>3. out[N] # Merged(p)
      <3> DEFINE a == Len(p[1])
                 b == Len(p[2])
                 c == Len(Merged(p))
      <3>1. a \in Nat /\ b \in Nat \ {0} /\ c = a + b
        BY MergedToken
      <3> HIDE DEF a, b, c
      <3>2. a # c
        BY <3>1
      <3>3. QED BY <3>2, <1>6 DEF a, c
    <2>4. pos[N] = pos[N - 1] + 1 /\ out[N] = word[n]
      BY <2>2, <2>3, <1>2, <1>4 DEF Alone, Joined
    <2> DEFINE new == [j \in 0..N |-> IF j = N THEN n + 1 ELSE pos[j]]
    <2>5. \A j \in 0..(N - 1) : new[j] = pos[j]
      BY <1>2
    <2>6. new \in [0..N -> 0..(n + 1)] /\ new[0] = 0 /\ new[N] = n + 1
      BY <1>2, <1>6
    <2> HIDE DEF new
    <2>7. Joined(word, p, e, new, N)
      <3>1. new[N] = new[N - 1] + 2
        BY <2>2, <2>4, <2>5, <2>6, <1>2, <1>6
      <3>2. word[new[N] - 1] = p[1] /\ word[new[N]] = p[2]
        <4>1. new[N] = n + 1 /\ n + 1 - 1 = n /\ word[n] = p[1] /\ word[n + 1] = p[2]
          BY <2>4, <2>6, <1>2, <1>6 DEF t
        <4>2. QED BY <4>1
      <3>3. QED BY <3>1, <3>2, <2>1 DEF Joined
    <2>8. ASSUME NEW j \in 1..(N - 1)
          PROVE  Alone(word, p, e, new, j) \/ Joined(word, p, e, new, j)
      <3>1. /\ new[j] = pos[j] /\ new[j - 1] = pos[j - 1] /\ e[j] = out[j]
            /\ j \in 1..N /\ j # N
        BY <2>1, <2>5, <1>2
      <3>2. Alone(word, p, out, pos, j) \/ Joined(word, p, out, pos, j)
        BY <3>1, <1>4
      <3>3. QED BY <3>1, <3>2 DEF Alone, Joined
    <2>9. ParseUpto(word, n + 1, p, e, new)
      <3>1. \A j \in 1..N : j = N \/ j \in 1..(N - 1)
        BY <1>2
      <3>2. QED BY <3>1, <2>1, <2>6, <2>7, <2>8 DEF ParseUpto
    <2>10. QED BY <2>9 DEF e, t
  <1>7. CASE ~(N > 0 /\ out[N] = p[1] /\ t = p[2])
    <2>1. Len(e) = N + 1 /\ e[N + 1] = t /\ \A i \in 1..N : e[i] = out[i]
      BY <1>3, <1>7
    <2> DEFINE new == [j \in 0..(N + 1) |-> IF j = N + 1 THEN n + 1 ELSE pos[j]]
    <2>2. \A j \in 0..N : new[j] = pos[j]
      BY <1>2
    <2>3. new \in [0..(N + 1) -> 0..(n + 1)] /\ new[0] = 0 /\ new[N + 1] = n + 1
      BY <1>2
    <2> HIDE DEF new
    <2>4. new[N + 1] = new[N] + 1 /\ e[N + 1] = word[new[N + 1]]
      BY <2>1, <2>2, <2>3, <1>2 DEF t
    <2>5. ASSUME NEW j \in 1..N
          PROVE  Alone(word, p, e, new, j) \/ Joined(word, p, e, new, j)
      <3>1. new[j] = pos[j] /\ new[j - 1] = pos[j - 1] /\ e[j] = out[j]
        BY <2>1, <2>2, <1>2
      <3>2. CASE Alone(word, p, out, pos, j) \/ Joined(word, p, out, pos, j)
        BY <3>1, <3>2 DEF Alone, Joined
      <3>3. CASE j = N /\ pos[j] = pos[j - 1] + 1 /\ out[j] = word[pos[j]]
        <4>1. ~(out[N] = p[1] /\ t = p[2]) /\ pos[j] = n /\ out[N] = word[n]
          BY <3>3, <1>2, <1>7
        <4>2. ~(word[new[j]] = p[1] /\ word[new[j] + 1] = p[2])
          BY <4>1, <3>1 DEF t
        <4>3. Alone(word, p, e, new, j)
          BY <4>2, <3>1, <3>3 DEF Alone
        <4>4. QED BY <4>3
      <3>4. QED BY <3>2, <3>3, <1>4
    <2>6. ParseUpto(word, n + 1, p, e, new)
      <3>1. \A j \in 1..(N + 1) : j = N + 1 \/ j \in 1..N
        BY <1>2
      <3>2. N + 1 - 1 = N
        BY <1>2
      <3>3. ASSUME NEW j \in 1..(N + 1)
            PROVE  \/ Joined(word, p, e, new, j)
                   \/ Alone(word, p, e, new, j)
                   \/ j = N + 1 /\ new[j] = new[j - 1] + 1 /\ e[j] = word[new[j]]
        <4>1. CASE j = N + 1
          <5>1. new[j] = new[j - 1] + 1
            <6>1. j - 1 = N
              BY <4>1, <1>2
            <6>2. QED BY <6>1, <4>1, <2>4
          <5>2. e[j] = word[new[j]]
            BY <4>1, <2>4
          <5>3. QED BY <4>1, <5>1, <5>2
        <4>2. CASE j \in 1..N
          BY <4>2, <2>5
        <4>3. QED BY <3>1, <4>1, <4>2
      <3>4. QED BY <3>3, <2>1, <2>3 DEF ParseUpto
    <2>7. QED BY <2>6 DEF e, t
  <1>8. QED BY <1>6, <1>7

\* Apply leaves a greedy parse of its word from left to right.
LEMMA ApplyParses ==
    ASSUME NEW word \in Seq(Token), NEW p \in Pair
    PROVE  \E pos : Parse(word, p, Apply(word, p), pos)
  <1>1. PICK done : Pass(done, word, p) /\ Apply(word, p) = done[Len(word)]
    BY ApplyRecursion
  <1> DEFINE N == Len(word)
             Parsed(n) == \E pos : ParseUpto(word, n, p, done[n], pos)
             S == {n \in Nat : n <= N => Parsed(n)}
  <1>2. /\ N \in Nat /\ done[0] = <<>> /\ (\A n \in 0..N : done[n] \in Seq(Token))
        /\ \A n \in 1..N : done[n] = Extend(done[n - 1], word[n], p)
    BY <1>1, LenProperties DEF Pass
  <1>3. Parsed(0)
    <2>1. ParseUpto(word, 0, p, <<>>, [j \in 0..0 |-> 0])
      BY DEF ParseUpto
    <2>2. QED BY <2>1, <1>2
  <1>4. ASSUME NEW n \in Nat, n + 1 <= N, Parsed(n) PROVE Parsed(n + 1)
    <2>1. n \in 0..(N - 1) /\ n \in 0..N /\ n + 1 \in 1..N /\ n + 1 - 1 = n
      BY <1>2, <1>4
    <2>2. done[n + 1] = Extend(done[n], word[n + 1], p) /\ done[n] \in Seq(Token)
      BY <2>1, <1>2
    <2>3. \E pos : ParseUpto(word, n + 1, p, Extend(done[n], word[n + 1], p), pos)
      BY <2>1, <2>2, <1>4, ParseGoesOn
    <2>4. QED BY <2>2, <2>3
  <1> HIDE DEF Parsed
  <1>5. 0 \in S /\ \A n \in S : n + 1 \in S
    <2>1. 0 \in S
      BY <1>3
    <2>2. ASSUME NEW n \in S PROVE n + 1 \in S
      <3>1. CASE n + 1 <= N
        <4>1. Parsed(n)
          BY <3>1, <1>2
        <4>2. QED BY <4>1, <3>1, <1>4
      <3>2. QED BY <3>1
    <2>3. QED BY <2>1, <2>2
  <1>6. S = Nat
    <2>1. S \in SUBSET Nat
      OBVIOUS
    <2> HIDE DEF S
    <2>2. QED BY <2>1, <1>5, Induct
  <1>7. Parsed(N)
    BY <1>2, <1>6
  <1>8. PICK pos : ParseUpto(word, N, p, done[N], pos)
    BY <1>7 DEF Parsed
  <1>9. Parse(word, p, done[N], pos)
    <2>1. Len(done[N]) \in Nat
      BY <1>2, LenProperties
    <2>2. ASSUME NEW j \in 1..Len(done[N]),
                 j = Len(done[N]), pos[j] = pos[j - 1] + 1, done[N][j] = word[pos[j]]
          PROVE  Alone(word, p, done[N], pos, j)
      BY <2>2, <1>2, <1>8 DEF Alone, ParseUpto
    <2>3. QED BY <2>2, <1>8 DEF Parse, ParseUpto
  <1>10. QED BY <1>1, <1>9

Made(word, p, out, pos, j) == Alone(word, p, out, pos, j) \/ Joined(word, p, out, pos, j)

\* The token stands for the tokens of word after u up to u1.
Makes(word, p, token, u, u1) ==
    \/ /\ u1 = u + 1 /\ token = word[u1]
       /\ ~(u1 < Len(word) /\ word[u1] = p[1] /\ word[u1 + 1] = p[2])
    \/ /\ u1 = u + 2 /\ token = Merged(p)
       /\ word[u1 - 1] = p[1] /\ word[u1] = p[2]

\* The n tokens of w after u and those of x after v are the same.
Alike(w, u, x, v, n) == \A i \in 1..n : w[u + i] = x[v + i]

\* A step of two parses over the same n tokens makes the same token.
LEMMA SameStep ==
    ASSUME NEW p \in Pair, NEW w, NEW x, NEW s, NEW t,
           NEW u \in Nat, NEW u1 \in Nat, NEW v \in Nat, NEW v1 \in Nat, NEW n \in Nat,
           Makes(w, p, s, u, u1), Makes(x, p, t, v, v1), Alike(w, u, x, v, n),
           u1 <= u + n, v1 <= v + n,
           Len(w) \in Nat, Len(x) \in Nat, u + n <= Len(w), v + n <= Len(x)
    PROVE  u1 - u = v1 - v /\ s = t
  <1> DEFINE k == Len(w)
             l == Len(x)
  <1>1. k \in Nat /\ l \in Nat /\ u + n <= k /\ v + n <= l
    OBVIOUS
  <1>2. \/ u1 = u + 1 /\ s = w[u1] /\ ~(u1 < k /\ w[u1] = p[1] /\ w[u1 + 1] = p[2])
        \/ u1 = u + 2 /\ s = Merged(p) /\ w[u1 - 1] = p[1] /\ w[u1] = p[2]
    BY DEF Makes
  <1>3. \/ v1 = v + 1 /\ t = x[v1] /\ ~(v1 < l /\ x[v1] = p[1] /\ x[v1 + 1] = p[2])
        \/ v1 = v + 2 /\ t = Merged(p) /\ x[v1 - 1] = p[1] /\ x[v1] = p[2]
    BY DEF Makes
  <1>4. \A i \in 1..n : w[u + i] = x[v + i]
    BY DEF Alike
  <1> HIDE DEF k, l
  <1>5. n >= 1 /\ w[u + 1] = x[v + 1]
    <2>1. n >= 1
      BY <1>2
    <2>2. QED BY <2>1, <1>4
  <1>6. CASE u1 = u + 1 /\ v1 = v + 1
    BY <1>2, <1>3, <1>5, <1>6
  <1>7. CASE u1 = u + 2 /\ v1 = v + 2
    BY <1>2, <1>3, <1>7
  <1>8. ~(u1 = u + 2 /\ v1 = v + 1)
    <2>1. SUFFICES ASSUME u1 = u + 2, v1 = v + 1 PROVE FALSE
      OBVIOUS
    <2>2. n >= 2 /\ u1 - 1 = u + 1 /\ v1 < l /\ v1 + 1 = v + 2
      BY <2>1, <1>1
    <2>3. w[u + 1] = p[1] /\ w[u + 2] = p[2]
      BY <2>1, <2>2, <1>2
    <2>4. w[u + 2] = x[v + 2]
      BY <2>2, <1>4
    <2>5. QED BY <2>1, <2>2, <2>3, <2>4, <1>3, <1>5
  <1>9. ~(u1 = u + 1 /\ v1 = v + 2)
    <2>1. SUFFICES ASSUME u1 = u + 1, v1 = v + 2 PROVE FALSE
      OBVIOUS
    <2>2. n >= 2 /\ v1 - 1 = v + 1 /\ u1 < k /\ u1 + 1 = u + 2
      BY <2>1, <1>1
    <2>3. x[v + 1] = p[1] /\ x[v + 2] = p[2]
      BY <2>1, <2>2, <1>3
    <2>4. w[u + 2] = x[v + 2]
      BY <2>2, <1>4
    <2>5. QED BY <2>1, <2>2, <2>3, <2>4, <1>2, <1>5
  <1>10. QED BY <1>2, <1>3, <1>6, <1>7, <1>8, <1>9

\* The positions of a parse grow, so it is a map of runs of tokens to runs.
LEMMA ParseGrows ==
    ASSUME NEW word \in Seq(Token), NEW p, NEW out \in Seq(Token), NEW pos,
           Parse(word, p, out, pos)
    PROVE  /\ Len(word) \in Nat /\ Len(out) \in Nat /\ pos \in [0..Len(out) -> 0..Len(word)]
           /\ \A i, j \in 0..Len(out) : i <= j => pos[i] + (j - i) <= pos[j]
  <1> DEFINE N == Len(out)
             M == Len(word)
  <1>1. N \in Nat /\ M \in Nat /\ pos \in [0..N -> 0..M]
    BY LenProperties DEF Parse
  <1>2. \A j \in 1..N : pos[j] = pos[j - 1] + 1 \/ pos[j] = pos[j - 1] + 2
    BY DEF Parse, Alone, Joined
  <1> HIDE DEF N, M
  <1>3. ASSUME NEW j \in 1..N PROVE pos[j - 1] < pos[j]
    <2>1. j - 1 \in 0..N
      BY <1>1
    <2>2. pos[j - 1] \in Nat
      BY <2>1, <1>1
    <2>3. pos[j] = pos[j - 1] + 1 \/ pos[j] = pos[j - 1] + 2
      BY <1>2
    <2>4. QED BY <2>2, <2>3
  <1>4. pos \in [0..N -> Int]
    BY <1>1
  <1>5. \A i, j \in 0..N : i <= j => pos[i] + (j - i) <= pos[j]
    BY <1>1, <1>3, <1>4, Growing
  <1>6. QED BY <1>1, <1>5 DEF N, M

\* Two parses over the same tokens, from a token of each to a token of each,
\* make the same tokens.
LEMMA SameParse ==
    ASSUME NEW p \in Pair,
           NEW w1 \in Seq(Token), NEW o1 \in Seq(Token), NEW f, Parse(w1, p, o1, f),
           NEW w2 \in Seq(Token), NEW o2 \in Seq(Token), NEW g, Parse(w2, p, o2, g),
           NEW a \in 0..Len(o1), NEW b \in 0..Len(o1), a <= b,
           NEW c \in 0..Len(o2), NEW d \in 0..Len(o2), c <= d,
           f[b] - f[a] = g[d] - g[c], Alike(w1, f[a], w2, g[c], f[b] - f[a])
    PROVE  b - a = d - c /\ Alike(o1, a, o2, c, b - a)
  <1> DEFINE N == Len(o1)
             M == Len(o2)
             l1 == Len(w1)
             l2 == Len(w2)
             fa == f[a]
             fb == f[b]
             gc == g[c]
             gd == g[d]
             L == f[b] - f[a]
             Same(y) == /\ c + y <= d /\ f[a + y] - fa = g[c + y] - gc
                        /\ y > 0 => o1[a + y] = o2[c + y]
             S == {y \in Nat : a + y <= b => Same(y)}
  <1>1. /\ N \in Nat /\ l1 \in Nat
        /\ \A i \in 0..N : f[i] \in Nat /\ f[i] <= l1
    <2>1. N \in Nat /\ l1 \in Nat /\ f \in [0..N -> 0..l1]
      BY ParseGrows
    <2> HIDE DEF N, l1
    <2>2. QED BY <2>1
  <1>2. /\ M \in Nat /\ l2 \in Nat
        /\ \A i \in 0..M : g[i] \in Nat /\ g[i] <= l2
    <2>1. M \in Nat /\ l2 \in Nat /\ g \in [0..M -> 0..l2]
      BY ParseGrows
    <2> HIDE DEF M, l2
    <2>2. QED BY <2>1
  <1>f. \A i, j \in 0..N : i <= j => f[i] + (j - i) <= f[j]
    BY ParseGrows
  <1>g. \A i, j \in 0..M : i <= j => g[i] + (j - i) <= g[j]
    BY ParseGrows
  <1>3. /\ \A j \in 1..N : Alone(w1, p, o1, f, j) \/ Joined(w1, p, o1, f, j)
        /\ \A j \in 1..M : Alone(w2, p, o2, g, j) \/ Joined(w2, p, o2, g, j)
    BY DEF Parse
  <1>4. /\ a \in 0..N /\ b \in 0..N /\ c \in 0..M /\ d \in 0..M
        /\ a \in Nat /\ b \in Nat /\ c \in Nat /\ d \in Nat
        /\ a <= b /\ b <= N /\ c <= d /\ d <= M
    BY <1>1, <1>2
  <1>v. /\ fa \in Nat /\ fb \in Nat /\ gc \in Nat /\ gd \in Nat
        /\ fa <= l1 /\ fb <= l1 /\ gc <= l2 /\ gd <= l2
        /\ L = fb - fa /\ L = gd - gc
    BY <1>1, <1>2, <1>4
  <1>6. \A x \in 1..L : w1[fa + x] = w2[gc + x]
    BY DEF Alike
  <1>7. fa = f[a] /\ gc = g[c] /\ fb = f[b] /\ gd = g[d]
    OBVIOUS
  <1> HIDE DEF N, M, l1, l2, fa, gc, fb, gd, L
  <1>5. L \in Nat /\ fb = fa + L /\ gd = gc + L
    <2>1. fa + (b - a) <= fb /\ b - a \in Nat
      BY <1>f, <1>4, <1>7
    <2>2. QED BY <2>1, <1>v
  <1>8. ASSUME NEW y \in Nat, a + (y + 1) <= b, Same(y) PROVE Same(y + 1)
    <2> DEFINE u == f[a + y]
               v == g[c + y]
               u1 == f[a + y + 1]
               v1 == g[c + y + 1]
               n == fa + L - u
    <2>1. /\ a + y \in 0..N /\ a + y + 1 \in 0..N /\ a + y + 1 \in 1..N
          /\ a + y <= b /\ a + y + 1 <= b /\ a + y + 1 - 1 = a + y /\ a <= a + y
      BY <1>4, <1>8, <1>1
    <2>2. /\ u \in Nat /\ u1 \in Nat /\ u <= l1 /\ u1 <= l1
          /\ u + 1 <= u1 /\ u1 <= fb /\ fa <= u
      <3>1. u \in Nat /\ u1 \in Nat /\ u <= l1 /\ u1 <= l1
        BY <2>1, <1>1
      <3>2. u + (a + y + 1 - (a + y)) <= u1
        BY <2>1, <1>f, <1>4
      <3>3. u1 + (b - (a + y + 1)) <= fb /\ b - (a + y + 1) \in Nat
        BY <2>1, <1>f, <1>1, <1>4, <1>7
      <3>4. fa + (a + y - a) <= u /\ a + y - a \in Nat
        BY <2>1, <1>f, <1>1, <1>4, <1>7
      <3>5. a + y + 1 - (a + y) = 1
        BY <1>4
      <3> HIDE DEF u, u1
      <3>6. QED BY <3>1, <3>2, <3>3, <3>4, <3>5, <1>v
    <2>3. c + y <= d /\ u - fa = v - gc
      BY <1>8
    <2>4. c + y \in 0..M /\ v \in Nat /\ v <= l2
      <3>1. c + y \in 0..M
        BY <2>3, <1>2, <1>4
      <3>2. QED BY <3>1, <1>2
    <2>5. c + y # d
      <3>1. ASSUME c + y = d PROVE FALSE
        <4>1. v = gd
          BY <3>1, <1>7
        <4> HIDE DEF u, v, u1
        <4>2. QED BY <4>1, <2>2, <2>3, <2>4, <1>v
      <3>2. QED BY <3>1
    <2>6. /\ c + y + 1 \in 0..M /\ c + y + 1 \in 1..M /\ c + y + 1 <= d
          /\ c + y + 1 - 1 = c + y
      BY <2>3, <2>4, <2>5, <1>2, <1>4
    <2>7. v1 \in Nat /\ v1 <= gd
      <3>1. v1 \in Nat
        BY <2>6, <1>2
      <3>2. v1 + (d - (c + y + 1)) <= gd /\ d - (c + y + 1) \in Nat
        BY <2>6, <1>2, <1>g, <1>4, <1>7
      <3> HIDE DEF v1
      <3>3. QED BY <3>1, <3>2, <1>v
    <2>8. u1 - u = v1 - v /\ o1[a + y + 1] = o2[c + y + 1]
      <3>1. /\ Alone(w1, p, o1, f, a + y + 1) \/ Joined(w1, p, o1, f, a + y + 1)
            /\ Alone(w2, p, o2, g, c + y + 1) \/ Joined(w2, p, o2, g, c + y + 1)
        BY <2>1, <2>6, <1>3
      <3>2. f[a + y + 1 - 1] = u /\ g[c + y + 1 - 1] = v
        BY <2>1, <2>6
      <3>3. f[a + y + 1] = u1 /\ g[c + y + 1] = v1 /\ Len(w1) = l1 /\ Len(w2) = l2
        BY DEF l1, l2
      <3>n. n = fa + L - u
        OBVIOUS
      <3> HIDE DEF u, v, u1, v1, n
      <3>4. /\ n \in Nat /\ u1 <= u + n /\ v1 <= v + n
            /\ u + n = fb /\ v + n = gd
        BY <3>n, <2>2, <2>3, <2>4, <2>7, <1>v, <1>5
      <3>5. ASSUME NEW x \in 1..n PROVE w1[u + x] = w2[v + x]
        <4>1. PICK z : z = u - fa + x
          OBVIOUS
        <4>2. x \in Nat /\ x >= 1 /\ x <= n
          BY <3>4
        <4>3. z \in Nat /\ z >= 1 /\ z <= L /\ u + x = fa + z /\ v + x = gc + z
          BY <4>1, <4>2, <3>n, <2>2, <2>3, <2>4, <1>v, <1>5
        <4>4. z \in 1..L
          BY <4>3, <1>5
        <4>5. QED BY <4>3, <4>4, <1>6
      <3>6. PICK j, k, s, t : /\ j = a + y + 1 /\ k = c + y + 1
                              /\ s = o1[j] /\ t = o2[k]
        OBVIOUS
      <3>7. /\ f[j - 1] = u /\ g[k - 1] = v /\ f[j] = u1 /\ g[k] = v1
            /\ Made(w1, p, o1, f, j) /\ Made(w2, p, o2, g, k)
        BY <3>1, <3>2, <3>3, <3>6 DEF Made
      <3>8. Makes(w1, p, s, u, u1) /\ Makes(w2, p, t, v, v1)
        BY <3>6, <3>7 DEF Made, Makes, Alone, Joined
      <3>9. Alike(w1, u, w2, v, n)
        BY <3>5 DEF Alike
      <3>10. /\ Len(w1) \in Nat /\ Len(w2) \in Nat /\ u + n <= Len(w1) /\ v + n <= Len(w2)
        <4>1. l1 \in Nat /\ l2 \in Nat /\ u + n <= l1 /\ v + n <= l2
          BY <3>4, <1>1, <1>2, <1>v
        <4>2. QED BY <4>1 DEF l1, l2
      <3>11. u1 - u = v1 - v /\ s = t
        BY <3>4, <3>8, <3>9, <3>10, <2>2, <2>4, <2>7, SameStep
      <3>12. QED BY <3>6, <3>11
    <2>9. u1 - fa = v1 - gc
      <3> HIDE DEF u, v, u1, v1
      <3>1. u1 - u = v1 - v /\ u - fa = v - gc
        BY <2>3, <2>8
      <3>2. u \in Nat /\ u1 \in Nat /\ v \in Nat /\ v1 \in Nat /\ fa \in Nat /\ gc \in Nat
        BY <2>2, <2>4, <2>7, <1>v
      <3>3. QED BY <3>1, <3>2
    <2>10. a + (y + 1) = a + y + 1 /\ c + (y + 1) = c + y + 1
      BY <1>4
    <2>11. QED BY <2>6, <2>8, <2>9, <2>10
  <1>9. Same(0)
    <2>1. a + 0 = a /\ c + 0 = c
      BY <1>4
    <2>2. fa - fa = gc - gc
      BY <1>v
    <2>3. QED BY <2>1, <2>2, <1>7
  <1> HIDE DEF Same
  <1>10. 0 \in S /\ \A y \in S : y + 1 \in S
    <2>1. ASSUME NEW y \in S PROVE y + 1 \in S
      <3>1. CASE a + (y + 1) <= b
        <4>1. a + y <= b
          BY <3>1, <1>1, <1>4
        <4>2. QED BY <4>1, <3>1, <1>8
      <3>2. QED BY <3>1
    <2>2. QED BY <2>1, <1>9
  <1>11. S = Nat
    <2>1. S \in SUBSET Nat
      OBVIOUS
    <2> HIDE DEF S
    <2>2. QED BY <2>1, <1>10, Induct
  <1>12. \A y \in Nat : a + y <= b => Same(y)
    BY <1>11
  <1>13. b - a = d - c
    <2>1. b - a \in Nat /\ a + (b - a) = b
      BY <1>1, <1>4
    <2>2. Same(b - a)
      BY <2>1, <1>12
    <2> DEFINE e == c + (b - a)
    <2>e. e = c + (b - a)
      OBVIOUS
    <2>3. e <= d /\ g[e] - gc = fb - fa
      BY <2>1, <2>2, <1>7 DEF Same
    <2> HIDE DEF e
    <2>4. e \in Nat /\ e \in 0..M
      BY <2>e, <2>1, <2>3, <1>2, <1>4
    <2>5. g[e] + (d - e) <= gd /\ g[e] \in Nat
      BY <2>3, <2>4, <1>2, <1>g, <1>4, <1>7
    <2>6. g[e] = gd
      BY <2>3, <2>5, <1>v, SMTT(30)
    <2>7. d = e
      BY <2>3, <2>4, <2>5, <2>6, <1>4, <1>v
    <2>8. QED BY <2>1, <2>7, <2>e, <1>4
  <1>14. ASSUME NEW x \in 1..(b - a) PROVE o1[a + x] = o2[c + x]
    <2>1. x \in Nat /\ x > 0 /\ a + x <= b
      BY <1>1, <1>4
    <2>2. Same(x)
      BY <2>1, <1>12
    <2>3. QED BY <2>1, <2>2 DEF Same
  <1>15. QED BY <1>13, <1>14 DEF Alike

----------------------------------------------------------------------------
(* The vocabulary *)

\* The ids 0, 1, ... are each of one token.
Dense(vocab) ==
    /\ IsFiniteSet(DOMAIN vocab)
    /\ IsInjective(vocab)
    /\ Range(vocab) = 0..(Cardinality(DOMAIN vocab) - 1)

Vocabs == {v \in UNION {[D -> Nat] : D \in SUBSET Token} : Dense(v)}

\* The empty vocabulary.
LEMMA NoVocab ==
    ASSUME NEW v, DOMAIN v = {}
    PROVE  Dense(v)
  <1>1. IsFiniteSet({}) /\ Cardinality({}) = 0
    BY FS_EmptySet
  <1>2. 0..(0 - 1) = {}
    OBVIOUS
  <1>3. QED BY <1>1, <1>2 DEF Dense, IsInjective, Range

\* A new token gets the next id.
LEMMA InsertDense ==
    ASSUME NEW vocab, NEW token, Dense(vocab), token \notin DOMAIN vocab
    PROVE  LET v == Insert(vocab, token, Cardinality(DOMAIN vocab))
           IN  Dense(v) /\ DOMAIN v = DOMAIN vocab \cup {token}
  <1> DEFINE n == Cardinality(DOMAIN vocab)
             D == DOMAIN vocab
             v == Insert(vocab, token, n)
  <1>1. /\ IsFiniteSet(D) /\ n \in Nat
        /\ IsFiniteSet(D \cup {token}) /\ Cardinality(D \cup {token}) = n + 1
    BY FS_CardinalityType, FS_AddElement DEF Dense
  <1>2. /\ DOMAIN v = D \cup {token} /\ v[token] = n
        /\ \A t \in D : v[t] = vocab[t]
    BY DEF Insert
  <1>3. (\A t, u \in D : vocab[t] = vocab[u] => t = u) /\ Range(vocab) = 0..(n - 1)
    BY DEF Dense, IsInjective
  <1>4. \A t \in D : vocab[t] \in 0..(n - 1)
    BY <1>3 DEF Range
  <1> HIDE DEF n, v, D
  <1>5. \A t \in D : v[t] # n
    BY <1>1, <1>2, <1>4
  <1>6. IsInjective(v)
    BY <1>2, <1>3, <1>5 DEF IsInjective
  <1>7. Range(v) = 0..n
    <2>1. Range(v) = {v[t] : t \in D} \cup {n}
      BY <1>2 DEF Range
    <2>2. {v[t] : t \in D} = Range(vocab)
      BY <1>2 DEF Range, D
    <2>3. 0..n = 0..(n - 1) \cup {n}
      BY <1>1
    <2>4. QED BY <2>1, <2>2, <2>3, <1>3
  <1>8. n + 1 - 1 = n
    BY <1>1
  <1>9. QED BY <1>1, <1>2, <1>6, <1>7, <1>8 DEF Dense, D, n, v

LEMMA WithCharVocab ==
    ASSUME NEW v \in Vocabs, NEW ch \in Token
    PROVE  WithChar(v, ch) \in Vocabs /\ DOMAIN WithChar(v, ch) = DOMAIN v \cup {ch}
  <1>1. PICK D \in SUBSET Token : v \in [D -> Nat]
    BY DEF Vocabs
  <1>2. CASE ch \in D
    BY <1>1, <1>2 DEF WithChar
  <1>3. CASE ch \notin D
    <2>1. Dense(v)
      BY DEF Vocabs
    <2>2. Cardinality(D) \in Nat
      BY <1>1, <2>1, FS_CardinalityType DEF Dense
    <2>3. WithChar(v, ch) = Insert(v, ch, Cardinality(D))
      BY <1>1, <1>3 DEF WithChar
    <2>4. Dense(WithChar(v, ch)) /\ DOMAIN WithChar(v, ch) = D \cup {ch}
      <3>1. DOMAIN v = D /\ WithChar(v, ch) = Insert(v, ch, Cardinality(DOMAIN v))
        BY <1>1, <2>3
      <3>2. /\ Dense(Insert(v, ch, Cardinality(DOMAIN v)))
            /\ DOMAIN Insert(v, ch, Cardinality(DOMAIN v)) = DOMAIN v \cup {ch}
        <4>1. ch \notin DOMAIN v
          BY <1>3, <3>1
        <4>2. QED BY <4>1, <2>1, InsertDense
      <3>3. QED BY <3>1, <3>2
    <2>5. WithChar(v, ch) \in [D \cup {ch} -> Nat]
      BY <1>1, <2>2, <2>3 DEF Insert
    <2>6. D \cup {ch} \in SUBSET Token
      BY <1>1
    <2>7. WithChar(v, ch) \in UNION {[E -> Nat] : E \in SUBSET Token}
      BY <2>5, <2>6
    <2>8. QED BY <1>1, <2>4, <2>7 DEF Vocabs
  <1>4. QED BY <1>2, <1>3

\* The vocabulary of the characters has each of them and nothing else.
LEMMA CharVocabProperties ==
    ASSUME NEW chars \in Seq(Token)
    PROVE  CharVocab(chars) \in Vocabs /\ DOMAIN CharVocab(chars) = Range(chars)
  <1> DEFINE N == Len(chars)
             none == [t \in {} |-> 0]
             step == [n \in 1..N |-> [v \in Vocabs |-> WithChar(v, chars[n])]]
             Done(f) == f = [n \in 0..N |-> IF n = 0 THEN none ELSE WithChar(f[n - 1], chars[n])]
             vocab == CHOOSE f : Done(f)
  <1>1. N \in Nat /\ (\A n \in 1..N : chars[n] \in Token)
    BY LenProperties, ElementOfSeq
  <1>2. none \in Vocabs
    <2>1. none \in [{} -> Nat] /\ DOMAIN none = {}
      OBVIOUS
    <2>2. none \in UNION {[E -> Nat] : E \in SUBSET Token}
      BY <2>1
    <2> HIDE DEF none
    <2>3. QED BY <2>1, <2>2, NoVocab DEF Vocabs
  <1>3. \A n \in 1..N, v \in Vocabs : WithChar(v, chars[n]) \in Vocabs
    BY <1>1, WithCharVocab
  <1>4. \E f : Chain(f, N, Vocabs, none, step)
    <2>1. step \in [1..N -> [Vocabs -> Vocabs]]
      BY <1>3
    <2> HIDE DEF step, N, none
    <2>2. QED BY <2>1, <1>1, <1>2, Recursion
  <1> HIDE DEF none
  <1>5. PICK f \in [0..N -> Vocabs] : f[0] = none /\ \A n \in 1..N : f[n] = step[n][f[n - 1]]
    BY <1>4 DEF Chain
  <1>6. \A n \in 1..N : f[n] = WithChar(f[n - 1], chars[n])
    <2>1. \A n \in 1..N : n - 1 \in 0..N
      BY <1>1
    <2>2. \A n \in 1..N : f[n - 1] \in Vocabs
      BY <2>1, <1>5
    <2>3. QED BY <2>2, <1>5
  <1>7. Done(f)
    BY <1>1, <1>5, <1>6
  <1>8. Done(vocab)
    BY <1>7
  <1> HIDE DEF vocab
  <1>9. /\ vocab[0] = none
        /\ \A n \in 1..N : vocab[n] = WithChar(vocab[n - 1], chars[n])
    BY <1>1, <1>8
  <1>10. \A n \in 0..N : vocab[n] \in Vocabs
    <2>1. vocab[0] \in Vocabs /\ \A n \in 1..N : vocab[n - 1] \in Vocabs => vocab[n] \in Vocabs
      BY <1>2, <1>3, <1>9
    <2> HIDE DEF N
    <2>2. QED BY <2>1, <1>1, ChainTyped
  <1> DEFINE Has(n) == DOMAIN vocab[n] = {chars[i] : i \in 1..n}
             S == {n \in Nat : n <= N => Has(n)}
  <1>11. Has(0)
    BY <1>9 DEF none
  <1>12. ASSUME NEW n \in Nat, n + 1 <= N, Has(n) PROVE Has(n + 1)
    <2>1. n + 1 \in 1..N /\ n \in 0..N /\ n + 1 - 1 = n
      BY <1>1, <1>12
    <2>2. DOMAIN vocab[n + 1] = DOMAIN vocab[n] \cup {chars[n + 1]}
      <3>1. vocab[n + 1] = WithChar(vocab[n], chars[n + 1])
        BY <2>1, <1>9
      <3>2. QED BY <3>1, <2>1, <1>1, <1>10, WithCharVocab
    <2>3. 1..(n + 1) = 1..n \cup {n + 1}
      OBVIOUS
    <2>4. QED BY <2>2, <2>3, <1>12
  <1> HIDE DEF Has
  <1>13. S = Nat
    <2>1. S \in SUBSET Nat
      OBVIOUS
    <2>2. 0 \in S
      BY <1>11
    <2>3. ASSUME NEW n \in S PROVE n + 1 \in S
      <3>1. CASE n + 1 <= N
        <4>1. n <= N
          BY <3>1, <1>1
        <4>2. QED BY <4>1, <3>1, <1>12
      <3>2. QED BY <3>1
    <2> HIDE DEF S
    <2>4. QED BY <2>1, <2>2, <2>3, Induct
  <1>14. DOMAIN vocab[N] = {chars[i] : i \in 1..N} /\ vocab[N] \in Vocabs
    BY <1>1, <1>10, <1>13 DEF Has
  <1>15. CharVocab(chars) = vocab[N]
    BY DEF CharVocab, vocab, none
  <1>16. Range(chars) = {chars[i] : i \in 1..N}
    BY RangeEquality
  <1>17. QED BY <1>14, <1>15, <1>16

----------------------------------------------------------------------------
(* FlattenSeq *)

Flattened(f, seqs, S) ==
    /\ f[0] = <<>> /\ \A n \in 0..Len(seqs) : f[n] \in Seq(S)
    /\ \A n \in 1..Len(seqs) : f[n] = f[n - 1] \o seqs[n]

\* The recursive function in FlattenSeq appends one sequence after the other.
LEMMA FlattenRecursion ==
    ASSUME NEW S, NEW seqs \in Seq(Seq(S))
    PROVE  \E f : Flattened(f, seqs, S) /\ FlattenSeq(seqs) = f[Len(seqs)]
  <1> DEFINE N == Len(seqs)
             V == Seq(S)
             step == [n \in 1..N |-> [v \in V |-> v \o seqs[n]]]
             Done(f) == f = [i \in 1..N |-> IF i = 1 THEN seqs[i] ELSE f[i - 1] \o seqs[i]]
             flatten == CHOOSE f : Done(f)
             g == [n \in 0..N |-> IF n = 0 THEN <<>> ELSE flatten[n]]
  <1>1. N \in Nat /\ (\A n \in 1..N : seqs[n] \in V) /\ <<>> \in V
    BY LenProperties, ElementOfSeq, EmptySeq
  <1>2. \A n \in 1..N, v \in V : v \o seqs[n] \in V
    BY <1>1, ConcatProperties
  <1>3. \A n \in 1..N : <<>> \o seqs[n] = seqs[n]
    BY <1>1, ConcatEmptySeq
  <1>4. \E f : Chain(f, N, V, <<>>, step)
    <2>1. step \in [1..N -> [V -> V]]
      BY <1>2
    <2> HIDE DEF step, N, V
    <2>2. QED BY <2>1, <1>1, Recursion
  <1>5. PICK f \in [0..N -> V] : f[0] = <<>> /\ \A n \in 1..N : f[n] = step[n][f[n - 1]]
    BY <1>4 DEF Chain
  <1>6. \A n \in 1..N : f[n] = f[n - 1] \o seqs[n]
    <2>1. \A n \in 1..N : n - 1 \in 0..N
      BY <1>1
    <2>2. \A n \in 1..N : f[n - 1] \in V
      BY <2>1, <1>5
    <2>3. QED BY <2>2, <1>5
  <1> HIDE DEF step, V
  <1>7. Done([n \in 1..N |-> f[n]])
    <2> DEFINE h == [n \in 1..N |-> f[n]]
    <2>1. ASSUME NEW i \in 1..N PROVE f[i] = IF i = 1 THEN seqs[i] ELSE h[i - 1] \o seqs[i]
      <3>1. CASE i = 1
        <4>1. f[1] = f[0] \o seqs[1] /\ <<>> \o seqs[1] = seqs[1]
          <5>1. 1 \in 1..N /\ 1 - 1 = 0
            BY <3>1
          <5>2. f[1] = f[1 - 1] \o seqs[1]
            BY <5>1, <1>6
          <5>3. QED BY <5>1, <5>2, <1>3
        <4>2. QED BY <4>1, <3>1, <1>5
      <3>2. CASE i # 1
        <4>1. i - 1 \in 1..N
          BY <3>2, <1>1
        <4>2. QED BY <4>1, <3>2, <1>6
      <3>3. QED BY <3>1, <3>2
    <2>2. QED BY <2>1
  <1>8. Done(flatten)
    BY <1>7
  <1> HIDE DEF flatten
  <1>9. \A n \in 1..N : flatten[n] = IF n = 1 THEN seqs[n] ELSE flatten[n - 1] \o seqs[n]
    BY <1>8
  <1>10. g[0] = <<>>
    BY <1>1
  <1>11. ASSUME NEW n \in 1..N PROVE g[n] = g[n - 1] \o seqs[n]
    <2>1. g[n] = flatten[n] /\ n - 1 \in 0..N
      BY <1>1
    <2>2. CASE n = 1
      BY <2>1, <2>2, <1>3, <1>9, <1>10
    <2>3. CASE n # 1
      <3>1. g[n - 1] = flatten[n - 1]
        BY <2>1, <2>3
      <3>2. QED BY <3>1, <2>1, <2>3, <1>9
    <2>4. QED BY <2>2, <2>3
  <1> HIDE DEF g
  <1>12. \A n \in 0..N : g[n] \in V
    <2>1. g[0] \in V /\ \A n \in 1..N : g[n - 1] \in V => g[n] \in V
      BY <1>1, <1>2, <1>10, <1>11
    <2> HIDE DEF N
    <2>2. QED BY <2>1, <1>1, ChainTyped
  <1>13. Flattened(g, seqs, S)
    BY <1>10, <1>11, <1>12 DEF Flattened, V
  <1>14. FlattenSeq(seqs) = g[N]
    <2>1. CASE N = 0
      <3>1. seqs = <<>>
        BY <2>1, EmptySeq
      <3>2. QED BY <3>1, <2>1, <1>10 DEF FlattenSeq
    <2>2. CASE N # 0
      <3>1. FlattenSeq(seqs) = flatten[N]
        BY <2>2 DEF FlattenSeq, flatten
      <3>2. QED BY <3>1, <2>2, <1>1 DEF g
    <2>3. QED BY <2>1, <2>2
  <1>15. QED BY <1>13, <1>14

\* What is in a part is in the whole.
LEMMA FlattenProperties ==
    ASSUME NEW S, NEW seqs \in Seq(Seq(S))
    PROVE  /\ FlattenSeq(seqs) \in Seq(S)
           /\ \A k \in DOMAIN seqs : Range(seqs[k]) \subseteq Range(FlattenSeq(seqs))
  <1>1. PICK f : Flattened(f, seqs, S) /\ FlattenSeq(seqs) = f[Len(seqs)]
    BY FlattenRecursion
  <1> DEFINE N == Len(seqs)
             Holds(n) == \A k \in 1..n : Range(seqs[k]) \subseteq Range(f[n])
             Q == {n \in Nat : n <= N => Holds(n)}
  <1>2. N \in Nat /\ N \in 0..N /\ DOMAIN seqs = 1..N /\ \A n \in 1..N : seqs[n] \in Seq(S)
    BY LenProperties, ElementOfSeq
  <1>3. Holds(0)
    OBVIOUS
  <1>4. ASSUME NEW n \in Nat, n + 1 <= N, Holds(n) PROVE Holds(n + 1)
    <2>1. n + 1 \in 1..N /\ n \in 0..N /\ n + 1 - 1 = n
      BY <1>2, <1>4
    <2>2. f[n + 1] = f[n] \o seqs[n + 1] /\ f[n] \in Seq(S) /\ seqs[n + 1] \in Seq(S)
      <3>1. f[n + 1] = f[n] \o seqs[n + 1]
        <4>1. \A m \in 1..N : f[m] = f[m - 1] \o seqs[m]
          BY <1>1 DEF Flattened
        <4> HIDE DEF N
        <4>2. PICK m : m = n + 1
          OBVIOUS
        <4>3. m \in 1..N /\ m - 1 = n
          BY <4>2, <2>1
        <4>4. f[m] = f[m - 1] \o seqs[m]
          BY <4>1, <4>3
        <4>5. QED BY <4>2, <4>3, <4>4
      <3>2. f[n] \in Seq(S)
        BY <2>1, <1>1 DEF Flattened
      <3>3. QED BY <3>1, <3>2, <2>1, <1>2
    <2>3. Range(f[n + 1]) = Range(f[n]) \cup Range(seqs[n + 1])
      BY <2>2, RangeConcatenation
    <2>4. \A k \in 1..(n + 1) : k = n + 1 \/ k \in 1..n
      OBVIOUS
    <2>5. QED BY <2>3, <2>4, <1>4
  <1> HIDE DEF Holds
  <1>5. Q = Nat
    <2>1. Q \in SUBSET Nat
      OBVIOUS
    <2>2. 0 \in Q
      BY <1>3
    <2>3. ASSUME NEW n \in Q PROVE n + 1 \in Q
      <3>1. CASE n + 1 <= N
        <4>1. n <= N
          BY <3>1, <1>2
        <4>2. QED BY <4>1, <3>1, <1>4
      <3>2. QED BY <3>1
    <2> HIDE DEF Q
    <2>4. QED BY <2>1, <2>2, <2>3, Induct
  <1>6. Holds(N)
    BY <1>2, <1>5
  <1>7. QED BY <1>1, <1>2, <1>6 DEF Holds, Flattened

----------------------------------------------------------------------------
(* What the tokens of a word spell *)

\* The i-th token of the word spells the text after cut[i - 1] up to cut[i].
Cut(word, text, cut) ==
    /\ cut \in [0..Len(word) -> Nat]
    /\ \A i \in 1..Len(word) : /\ cut[i] = cut[i - 1] + Len(word[i])
                               /\ Alike(word[i], 0, text, cut[i - 1], Len(word[i]))

\* What is spelt alike in two words is cut into the same tokens.
OneSpelling(word, text, cut, word2, text2, cut2) ==
    \A a, b \in 0..Len(word), c, d \in 0..Len(word2) :
        (/\ a <= b /\ c <= d /\ cut[b] - cut[a] = cut2[d] - cut2[c]
         /\ Alike(text, cut[a], text2, cut2[c], cut[b] - cut[a]))
        => b - a = d - c /\ Alike(word, a, word2, c, b - a)

\* What is spelt like a token of the vocabulary is one token.
Whole(word, text, cut, tokens) ==
    \A a, b \in 0..Len(word), t \in tokens :
        (/\ a < b /\ cut[b] - cut[a] = Len(t)
         /\ Alike(t, 0, text, cut[a], Len(t)))
        => b = a + 1

Recut(cut, out, pos) == [j \in 0..Len(out) |-> cut[pos[j]]]

\* What spells the two tokens of a pair, one behind the other, spells the merged one.
LEMMA MergedSpelling ==
    ASSUME NEW p \in Pair, NEW text, NEW u \in Nat,
           Alike(p[1], 0, text, u, Len(p[1])),
           Alike(p[2], 0, text, u + Len(p[1]), Len(p[2]))
    PROVE  Alike(Merged(p), 0, text, u, Len(Merged(p)))
  <1> DEFINE a == Len(p[1])
             b == Len(p[2])
             m == Merged(p)
             l == Len(m)
  <1>1. /\ a \in Nat /\ b \in Nat /\ l = a + b
        /\ \A x \in 1..(a + b) : m[x] = IF x <= a THEN p[1][x] ELSE p[2][x - a]
    BY MergedToken
  <1>2. /\ \A i \in 1..a : p[1][0 + i] = text[u + i]
        /\ \A i \in 1..b : p[2][0 + i] = text[u + a + i]
    BY DEF Alike
  <1> HIDE DEF a, b, m, l
  <1>3. ASSUME NEW x \in 1..l PROVE m[0 + x] = text[u + x]
    <2>1. x \in Nat /\ x >= 1 /\ x <= a + b /\ x \in 1..(a + b)
      BY <1>1
    <2>2. 0 + x = x
      BY <2>1
    <2>3. CASE x <= a
      <3>1. x \in 1..a
        BY <2>1, <2>3, <1>1
      <3>2. p[1][0 + x] = text[u + x]
        BY <3>1, <1>2
      <3>3. m[x] = p[1][x]
        BY <2>1, <2>3, <1>1
      <3>4. QED BY <3>2, <3>3, <2>2
    <2>4. CASE ~(x <= a)
      <3>1. PICK y : y = x - a
        OBVIOUS
      <3>2. y \in 1..b /\ 0 + y = y /\ u + a + y = u + x
        BY <3>1, <2>1, <2>4, <1>1
      <3>3. p[2][0 + y] = text[u + a + y]
        BY <3>2, <1>2
      <3>4. m[x] = p[2][y]
        BY <3>1, <2>1, <2>4, <1>1
      <3>5. QED BY <3>2, <3>3, <3>4, <2>2
    <2>5. QED BY <2>3, <2>4
  <1>4. QED BY <1>3 DEF Alike, m, l

\* Where the pair stands its concatenation is spelt.
LEMMA PairSpelling ==
    ASSUME NEW word \in Seq(Token), NEW text, NEW cut, Cut(word, text, cut),
           NEW p \in Pair, NEW k \in Nat, k + 2 <= Len(word),
           word[k + 1] = p[1], word[k + 2] = p[2]
    PROVE  /\ cut[k] \in Nat /\ cut[k + 2] \in Nat
           /\ cut[k + 2] = cut[k] + Len(Merged(p))
           /\ Alike(Merged(p), 0, text, cut[k], Len(Merged(p)))
  <1> DEFINE a == Len(p[1])
             b == Len(p[2])
             l == Len(Merged(p))
             N == Len(word)
  <1>1. a \in Nat /\ b \in Nat /\ l = a + b /\ N \in Nat /\ k + 2 <= N
    BY MergedToken, LenProperties
  <1>2. /\ cut \in [0..N -> Nat]
        /\ \A i \in 1..N : /\ cut[i] = cut[i - 1] + Len(word[i])
                           /\ Alike(word[i], 0, text, cut[i - 1], Len(word[i]))
    BY DEF Cut
  <1> HIDE DEF N
  <1>3. PICK i, j : i = k + 1 /\ j = k + 2
    OBVIOUS
  <1>4. i \in 1..N /\ j \in 1..N /\ i - 1 = k /\ j - 1 = i /\ k \in 0..N /\ i \in 0..N /\ j \in 0..N
    BY <1>1, <1>3
  <1>5. word[i] = p[1] /\ word[j] = p[2]
    BY <1>3
  <1>6. /\ cut[i] = cut[k] + a /\ Alike(p[1], 0, text, cut[k], a)
        /\ cut[j] = cut[i] + b /\ Alike(p[2], 0, text, cut[i], b)
    BY <1>2, <1>4, <1>5
  <1>7. cut[k] \in Nat /\ cut[j] \in Nat
    BY <1>2, <1>4
  <1>8. Alike(Merged(p), 0, text, cut[k], l)
    BY <1>6, <1>7, MergedSpelling
  <1>9. cut[j] = cut[k] + l
    <2> HIDE DEF a, b, l
    <2>1. QED BY <1>1, <1>6, <1>7
  <1>10. QED BY <1>3, <1>7, <1>8, <1>9

\* A merge keeps what the tokens of a word spell.
LEMMA ParsedCut ==
    ASSUME NEW word \in Seq(Token), NEW text, NEW cut, Cut(word, text, cut),
           NEW p \in Pair, NEW out \in Seq(Token), NEW pos, Parse(word, p, out, pos)
    PROVE  Cut(out, text, Recut(cut, out, pos))
  <1> DEFINE N == Len(word)
             M == Len(out)
             new == Recut(cut, out, pos)
  <1>1. N \in Nat /\ M \in Nat /\ pos \in [0..M -> 0..N]
    BY ParseGrows
  <1>2. /\ cut \in [0..N -> Nat]
        /\ \A i \in 1..N : /\ cut[i] = cut[i - 1] + Len(word[i])
                           /\ Alike(word[i], 0, text, cut[i - 1], Len(word[i]))
    BY DEF Cut
  <1>3. \A j \in 1..M : Alone(word, p, out, pos, j) \/ Joined(word, p, out, pos, j)
    BY DEF Parse
  <1>4. \A j \in 0..M : new[j] = cut[pos[j]]
    BY DEF Recut
  <1>5. new \in [0..M -> Nat]
    BY <1>1, <1>2 DEF Recut
  <1> HIDE DEF new, N, M
  <1>6. ASSUME NEW j \in 1..M
        PROVE  /\ new[j] = new[j - 1] + Len(out[j])
               /\ Alike(out[j], 0, text, new[j - 1], Len(out[j]))
    <2> DEFINE q == pos[j]
               r == pos[j - 1]
    <2>1. j \in 0..M /\ j - 1 \in 0..M
      BY <1>1
    <2>2. new[j] = cut[q] /\ new[j - 1] = cut[r] /\ q \in 0..N /\ r \in 0..N
      BY <2>1, <1>1, <1>4
    <2> HIDE DEF q, r
    <2>3. CASE Alone(word, p, out, pos, j)
      <3>1. q = r + 1 /\ out[j] = word[q]
        BY <2>3 DEF Alone, q, r
      <3>2. q \in 1..N /\ q - 1 = r
        BY <3>1, <2>2, <1>1
      <3>3. QED BY <3>1, <3>2, <2>2, <1>2
    <2>4. CASE Joined(word, p, out, pos, j)
      <3>1. q = r + 2 /\ out[j] = Merged(p) /\ word[q - 1] = p[1] /\ word[q] = p[2]
        BY <2>4 DEF Joined, q, r
      <3>2. r \in Nat /\ q - 1 = r + 1 /\ r + 2 <= N
        BY <3>1, <2>2, <1>1
      <3>3. r + 2 <= Len(word) /\ word[r + 1] = p[1] /\ word[r + 2] = p[2]
        BY <3>1, <3>2 DEF N
      <3>4. /\ cut[r + 2] = cut[r] + Len(Merged(p))
            /\ Alike(Merged(p), 0, text, cut[r], Len(Merged(p)))
        BY <3>2, <3>3, PairSpelling
      <3>5. QED BY <3>1, <3>4, <2>2
    <2>5. QED BY <2>3, <2>4, <1>3
  <1>7. QED BY <1>5, <1>6 DEF Cut, M, new

\* A merge keeps that equal text is cut into equal tokens: the pass depends on the
\* tokens it reads alone.
LEMMA ParsedSpelling ==
    ASSUME NEW p \in Pair,
           NEW w1 \in Seq(Token), NEW o1 \in Seq(Token), NEW f, Parse(w1, p, o1, f),
           NEW w2 \in Seq(Token), NEW o2 \in Seq(Token), NEW g, Parse(w2, p, o2, g),
           NEW t1, NEW t2, NEW cut1, NEW cut2, OneSpelling(w1, t1, cut1, w2, t2, cut2)
    PROVE  OneSpelling(o1, t1, Recut(cut1, o1, f), o2, t2, Recut(cut2, o2, g))
  <1> DEFINE new1 == Recut(cut1, o1, f)
             new2 == Recut(cut2, o2, g)
  <1>1. SUFFICES ASSUME NEW a \in 0..Len(o1), NEW b \in 0..Len(o1),
                        NEW c \in 0..Len(o2), NEW d \in 0..Len(o2),
                        a <= b, c <= d, new1[b] - new1[a] = new2[d] - new2[c],
                        Alike(t1, new1[a], t2, new2[c], new1[b] - new1[a])
                 PROVE  b - a = d - c /\ Alike(o1, a, o2, c, b - a)
    <2> HIDE DEF new1, new2
    <2>1. QED BY DEF OneSpelling, new1, new2
  <1>2. /\ new1[a] = cut1[f[a]] /\ new1[b] = cut1[f[b]]
        /\ new2[c] = cut2[g[c]] /\ new2[d] = cut2[g[d]]
    BY DEF Recut
  <1> HIDE DEF new1, new2
  <1>3. /\ Len(w1) \in Nat /\ Len(o1) \in Nat /\ f \in [0..Len(o1) -> 0..Len(w1)]
        /\ f[a] + (b - a) <= f[b]
    BY <1>1, ParseGrows
  <1>4. /\ Len(w2) \in Nat /\ Len(o2) \in Nat /\ g \in [0..Len(o2) -> 0..Len(w2)]
        /\ g[c] + (d - c) <= g[d]
    BY <1>1, ParseGrows
  <1>5. /\ f[a] \in 0..Len(w1) /\ f[b] \in 0..Len(w1) /\ f[a] <= f[b]
        /\ g[c] \in 0..Len(w2) /\ g[d] \in 0..Len(w2) /\ g[c] <= g[d]
    <2>1. /\ f[a] \in 0..Len(w1) /\ f[b] \in 0..Len(w1)
          /\ g[c] \in 0..Len(w2) /\ g[d] \in 0..Len(w2)
      BY <1>3, <1>4
    <2> DEFINE fa == f[a]
               fb == f[b]
               gc == g[c]
               gd == g[d]
    <2>2. /\ fa \in Nat /\ fb \in Nat /\ gc \in Nat /\ gd \in Nat
          /\ a \in Nat /\ b \in Nat /\ c \in Nat /\ d \in Nat
          /\ fa + (b - a) <= fb /\ gc + (d - c) <= gd
      BY <2>1, <1>3, <1>4
    <2> HIDE DEF fa, fb, gc, gd
    <2>3. fa <= fb /\ gc <= gd
      BY <2>2, <1>1
    <2>4. QED BY <2>1, <2>3 DEF fa, fb, gc, gd
  <1>6. f[b] - f[a] = g[d] - g[c] /\ Alike(w1, f[a], w2, g[c], f[b] - f[a])
    BY <1>1, <1>2, <1>5 DEF OneSpelling
  <1>7. QED BY <1>1, <1>6, SameParse, ZenonT(60)

\* A pair that stands in a word makes a token that the vocabulary does not have.
LEMMA NewToken ==
    ASSUME NEW word \in Seq(Token), NEW text, NEW cut, Cut(word, text, cut),
           NEW tokens, Whole(word, text, cut, tokens),
           NEW p \in Pair, NEW k \in Nat, k + 2 <= Len(word),
           word[k + 1] = p[1], word[k + 2] = p[2]
    PROVE  Merged(p) \notin tokens
  <1> SUFFICES ASSUME Merged(p) \in tokens PROVE FALSE
    OBVIOUS
  <1> DEFINE N == Len(word)
             l == Len(Merged(p))
  <1>1. /\ cut[k] \in Nat /\ cut[k + 2] \in Nat /\ cut[k + 2] = cut[k] + l
        /\ Alike(Merged(p), 0, text, cut[k], l)
    BY PairSpelling
  <1>2. l \in Nat /\ N \in Nat
    BY MergedToken, LenProperties
  <1>3. PICK j : j = k + 2
    OBVIOUS
  <1>4. k \in 0..N /\ j \in 0..N /\ k < j /\ j # k + 1
    BY <1>2, <1>3
  <1>5. cut[j] - cut[k] = l
    <2> HIDE DEF l
    <2>1. QED BY <1>1, <1>2, <1>3
  <1>6. j = k + 1
    BY <1>1, <1>4, <1>5 DEF Whole
  <1>7. QED BY <1>4, <1>6

\* After the merge the tokens of the vocabulary, with the new one, are whole.
LEMMA ParsedWhole ==
    ASSUME NEW p \in Pair, NEW tokens,
           NEW word \in Seq(Token), NEW text, NEW cut, Whole(word, text, cut, tokens),
           Cut(word, text, cut),
           NEW out \in Seq(Token), NEW pos, Parse(word, p, out, pos),
           NEW w2 \in Seq(Token), NEW t2, NEW cut2, Cut(w2, t2, cut2),
           OneSpelling(word, text, cut, w2, t2, cut2),
           NEW k \in Nat, k + 2 <= Len(w2), w2[k + 1] = p[1], w2[k + 2] = p[2]
    PROVE  Whole(out, text, Recut(cut, out, pos), tokens \cup {Merged(p)})
  <1> DEFINE N == Len(word)
             M == Len(out)
             N2 == Len(w2)
             m == Merged(p)
             l == Len(m)
             new == Recut(cut, out, pos)
  <1>1. SUFFICES ASSUME NEW a \in 0..M, NEW b \in 0..M, NEW t \in tokens \cup {m},
                        a < b, new[b] - new[a] = Len(t),
                        Alike(t, 0, text, new[a], Len(t))
                 PROVE  b = a + 1
    <2> HIDE DEF new, m
    <2>1. QED BY DEF Whole, new, m
  <1>2. new[a] = cut[pos[a]] /\ new[b] = cut[pos[b]]
    BY DEF Recut
  <1>3. /\ N \in Nat /\ M \in Nat /\ pos \in [0..M -> 0..N]
        /\ \A i, j \in 0..M : i <= j => pos[i] + (j - i) <= pos[j]
    BY ParseGrows
  <1>4. \A j \in 1..M : Alone(word, p, out, pos, j) \/ Joined(word, p, out, pos, j)
    BY DEF Parse
  <1>5. N2 \in Nat /\ l \in Nat /\ a \in Nat /\ b \in Nat
    BY <1>3, MergedToken, LenProperties
  <1> DEFINE u == pos[a]
             v == pos[b]
  <1> HIDE DEF new, N, M, N2, u, v
  <1>6. u \in 0..N /\ v \in 0..N /\ u \in Nat /\ v \in Nat /\ u + (b - a) <= v
    <2>1. pos[a] \in 0..N /\ pos[b] \in 0..N
      BY <1>3
    <2>2. pos[a] + (b - a) <= pos[b]
      BY <1>1, <1>3, <1>5, SMTT(30)
    <2>3. QED BY <2>1, <2>2, <1>3 DEF u, v
  <1>7. u < v
    BY <1>1, <1>5, <1>6
  <1>8. cut[v] - cut[u] = Len(t) /\ Alike(t, 0, text, cut[u], Len(t))
    BY <1>1, <1>2 DEF u, v
  <1>9. CASE t \in tokens
    <2>1. v = u + 1
      BY <1>6, <1>7, <1>8, <1>9 DEF Whole, N
    <2>2. QED BY <2>1, <1>1, <1>5, <1>6
  <1>10. CASE t = m
    <2>1. /\ cut2[k] \in Nat /\ cut2[k + 2] \in Nat /\ cut2[k + 2] = cut2[k] + l
          /\ Alike(m, 0, t2, cut2[k], l)
      BY PairSpelling
    <2>2. PICK j : j = k + 2
      OBVIOUS
    <2>3. k \in 0..N2 /\ j \in 0..N2 /\ k <= j /\ j - k = 2
      BY <2>2, <1>5 DEF N2
    <2>4. cut2[j] - cut2[k] = l
      <3> HIDE DEF l
      <3>1. QED BY <2>1, <2>2, <1>5
    <2>5. cut[v] - cut[u] = l /\ Alike(m, 0, text, cut[u], l)
      BY <1>8, <1>10
    <2>6. Alike(text, cut[u], t2, cut2[k], cut[v] - cut[u])
      BY <2>1, <2>5 DEF Alike
    <2>7. v - u = j - k /\ Alike(word, u, w2, k, v - u)
      <3>1. u <= v /\ cut[v] - cut[u] = cut2[j] - cut2[k]
        BY <2>4, <2>5, <1>6, <1>7
      <3>2. QED BY <3>1, <2>3, <2>6, <1>6 DEF OneSpelling, N, N2
    <2>8. v = u + 2
      BY <2>3, <2>7, <1>6
    <2>9. word[u + 1] = p[1] /\ word[u + 2] = p[2]
      <3>1. v - u = 2
        BY <2>3, <2>7
      <3>2. 1 \in 1..(v - u) /\ 2 \in 1..(v - u)
        BY <3>1
      <3>3. QED BY <3>2, <2>7 DEF Alike
    <2>10. b # a + 2
      <3>1. SUFFICES ASSUME b = a + 2 PROVE FALSE
        OBVIOUS
      <3>2. PICK i : i = a + 1
        OBVIOUS
      <3>3. i \in 0..M /\ i \in 1..M /\ i - 1 = a /\ i <= b /\ b - i = 1
        BY <3>1, <3>2, <1>3, <1>5
      <3>4. pos[i] \in 0..N /\ pos[i] + (b - i) <= v
        BY <3>3, <1>3 DEF v
      <3>5. pos[i] = u + 1 \/ pos[i] = u + 2
        BY <3>3, <1>4 DEF Alone, Joined, u
      <3>6. pos[i] = u + 1
        BY <3>3, <3>4, <3>5, <2>8, <1>6
      <3>7. Alone(word, p, out, pos, i)
        <4>1. pos[i] # pos[i - 1] + 2
          BY <3>3, <3>6, <1>6, SMTT(30) DEF u
        <4>2. QED BY <4>1, <3>3, <1>4 DEF Joined
      <3>8. ~(u + 1 < N /\ word[u + 1] = p[1] /\ word[u + 1 + 1] = p[2])
        BY <3>6, <3>7 DEF Alone, N
      <3>9. u + 1 < N /\ u + 1 + 1 = u + 2
        BY <2>8, <1>6, <1>3
      <3>10. QED BY <3>8, <3>9, <2>9
    <2>11. a < b /\ u \in Nat /\ u + (b - a) <= v
      BY <1>1, <1>6
    <2>12. QED BY <2>8, <2>10, <2>11, <1>5
  <1>11. QED BY <1>9, <1>10

\* At first the tokens are single characters.
Chars == {<<c>> : c \in STRING}

LEMMA OneElement ==
    ASSUME NEW S, NEW c \in S
    PROVE  <<c>> \in Seq(S) /\ Len(<<c>>) = 1
  OBVIOUS

LEMMA FunctionIsSeq ==
    ASSUME NEW S, NEW n \in Nat, NEW s \in [1..n -> S]
    PROVE  s \in Seq(S) /\ Len(s) = n
  <1>1. s \in Seq(S)
    BY SeqDef
  <1>2. QED BY <1>1, LenProperties

LEMMA CharsAreTokens == Chars \subseteq Token /\ \A t \in Chars : Len(t) = 1
  <1>1. ASSUME NEW c \in STRING PROVE <<c>> \in Seq(STRING) /\ <<c>> # <<>> /\ Len(<<c>>) = 1
    <2>1. <<c>> \in Seq(STRING)
      BY <1>1, OneElement
    <2>2. Len(<<c>>) = 1
      BY <1>1, OneElement
    <2>3. <<c>> # <<>>
      BY <2>2, EmptySeq
    <2>4. QED BY <2>1, <2>2, <2>3
  <1>2. QED BY <1>1 DEF Chars, Token

\* The words as they are split at first.
LEMMA SplitWords ==
    ASSUME NEW text \in Seq(Seq(STRING))
    PROVE  /\ Split(text) \in Seq(Seq(Chars)) /\ DOMAIN Split(text) = DOMAIN text
           /\ \A k \in DOMAIN text :
                 /\ Split(text)[k] \in Seq(Token)
                 /\ Len(Split(text)[k]) = Len(text[k]) /\ Len(text[k]) \in Nat
                 /\ \A i \in 1..Len(text[k]) : Split(text)[k][i] = <<text[k][i]>>
  <1>1. DOMAIN text = 1..Len(text) /\ Len(text) \in Nat
    BY LenProperties
  <1>2. ASSUME NEW k \in DOMAIN text
        PROVE  /\ Split(text)[k] \in Seq(Chars) /\ Split(text)[k] \in Seq(Token)
               /\ Len(Split(text)[k]) = Len(text[k]) /\ Len(text[k]) \in Nat
               /\ \A i \in 1..Len(text[k]) : Split(text)[k][i] = <<text[k][i]>>
    <2> DEFINE N == Len(text[k])
               s == [i \in 1..N |-> <<text[k][i]>>]
    <2>1. text[k] \in Seq(STRING)
      BY <1>1, <1>2, ElementOfSeq
    <2>2. DOMAIN text[k] = 1..N /\ N \in Nat /\ \A i \in 1..N : text[k][i] \in STRING
      BY <2>1, LenProperties, ElementOfSeq
    <2>3. Split(text)[k] = s
      BY <1>2, <2>2 DEF Split
    <2>4. s \in [1..N -> Chars]
      BY <2>2 DEF Chars
    <2> HIDE DEF N
    <2> HIDE DEF s
    <2>5. s \in Seq(Chars) /\ Len(s) = N
      BY <2>2, <2>4, FunctionIsSeq
    <2>6. s \in Seq(Token)
      BY <2>5, CharsAreTokens, SeqMonotonic
    <2>7. \A i \in 1..N : s[i] = <<text[k][i]>>
      BY DEF s
    <2>8. QED BY <2>2, <2>3, <2>5, <2>6, <2>7 DEF N
  <1>3. DOMAIN Split(text) = DOMAIN text
    BY DEF Split
  <1>4. Split(text) \in [1..Len(text) -> Seq(Chars)]
    <2>1. Split(text) = [k \in 1..Len(text) |-> Split(text)[k]]
      BY <1>1 DEF Split
    <2>2. QED BY <2>1, <1>1, <1>2
  <1>5. Split(text) \in Seq(Seq(Chars))
    BY <1>1, <1>4, FunctionIsSeq
  <1>6. QED BY <1>2, <1>3, <1>5

----------------------------------------------------------------------------
(* The training *)

Spelt(text, words, tokens, cuts) ==
    /\ \A k \in DOMAIN text : /\ Cut(words[k], text[k], cuts[k])
                              /\ Whole(words[k], text[k], cuts[k], tokens)
    /\ \A k, l \in DOMAIN text :
          OneSpelling(words[k], text[k], cuts[k], words[l], text[l], cuts[l])

\* The words spell the text, and alike where the text is.
WellSpelt(text, words, tokens) == \E cuts : Spelt(text, words, tokens, cuts)

LongTokens(vocab) == {t \in DOMAIN vocab : Len(t) > 1}

\* What holds of a tokenizer at each turn of the training with a text.
Trained(text, tok) ==
    /\ DOMAIN tok.words = DOMAIN text
    /\ \A k \in DOMAIN text : /\ tok.words[k] \in Seq(Token)
                              /\ Range(tok.words[k]) \subseteq DOMAIN tok.vocab
                              /\ Replay(tok.order, Split(text)[k]) = tok.words[k]
    /\ tok.order \in Seq(Pair)
    /\ Dense(tok.vocab)
    /\ Cardinality(LongTokens(tok.vocab)) = Len(tok.order)
    /\ WellSpelt(text, tok.words, DOMAIN tok.vocab)

\* Single characters: a run of tokens is as long as its text.
LEMMA CharsSpelt ==
    ASSUME NEW text \in Seq(Seq(STRING)), NEW tokens \in SUBSET Chars
    PROVE  WellSpelt(text, Split(text), tokens)
  <1> DEFINE words == Split(text)
             cuts == [k \in DOMAIN text |-> [i \in 0..Len(text[k]) |-> i]]
  <1>1. \A k \in DOMAIN text :
           /\ Len(words[k]) = Len(text[k]) /\ Len(text[k]) \in Nat
           /\ \A i \in 1..Len(text[k]) : words[k][i] = <<text[k][i]>>
    BY SplitWords
  <1>2. \A k \in DOMAIN text : cuts[k] = [i \in 0..Len(text[k]) |-> i]
    OBVIOUS
  <1> HIDE DEF words, cuts
  <1>i. ASSUME NEW k \in DOMAIN text, NEW i \in 0..Len(text[k])
        PROVE  cuts[k][i] = i /\ i \in Nat /\ i <= Len(text[k])
    <2>1. cuts[k][i] = i
      BY <1>2
    <2>2. QED BY <2>1, <1>1
  <1>3. ASSUME NEW k \in DOMAIN text PROVE Cut(words[k], text[k], cuts[k])
    <2> DEFINE N == Len(text[k])
               cut == cuts[k]
    <2>1. /\ N \in Nat /\ cut = [i \in 0..N |-> i] /\ Len(words[k]) = N
          /\ \A i \in 1..N : words[k][i] = <<text[k][i]>>
      BY <1>1, <1>2
    <2> HIDE DEF N, cut
    <2>2. ASSUME NEW i \in 1..N
          PROVE  /\ cut[i] = cut[i - 1] + Len(words[k][i])
                 /\ Alike(words[k][i], 0, text[k], cut[i - 1], Len(words[k][i]))
      <3>1. /\ i \in 0..N /\ i - 1 \in 0..N /\ i = i - 1 + 1
            /\ cut[i] = i /\ cut[i - 1] = i - 1
        BY <2>1
      <3>2. words[k][i] = <<text[k][i]>> /\ Len(<<text[k][i]>>) = 1 /\ <<text[k][i]>>[1] = text[k][i]
        BY <2>1, OneElement
      <3>3. \A x \in 1..1 : words[k][i][0 + x] = text[k][i - 1 + x]
        <4>1. \A x \in 1..1 : x = 1 /\ 0 + x = 1 /\ i - 1 + x = i
          BY <3>1
        <4>2. QED BY <4>1, <3>2
      <3>4. QED BY <3>1, <3>2, <3>3 DEF Alike
    <2>3. cut \in [0..N -> Nat]
      BY <2>1
    <2>4. Cut(words[k], text[k], cut)
      BY <2>1, <2>2, <2>3 DEF Cut
    <2>5. QED BY <2>4 DEF cut
  <1>4. ASSUME NEW k \in DOMAIN text PROVE Whole(words[k], text[k], cuts[k], tokens)
    <2>1. ASSUME NEW a \in 0..Len(words[k]), NEW b \in 0..Len(words[k]), NEW t \in tokens,
                 cuts[k][b] - cuts[k][a] = Len(t)
          PROVE  b = a + 1
      <3>1. Len(t) = 1
        BY CharsAreTokens
      <3>2. cuts[k][b] = b /\ cuts[k][a] = a /\ a \in Nat /\ b \in Nat
        BY <1>1, <1>i
      <3>3. b - a = 1
        BY <3>1, <3>2, <2>1
      <3>4. QED BY <3>2, <3>3
    <2>2. QED BY <2>1 DEF Whole
  <1>5. ASSUME NEW k \in DOMAIN text, NEW l \in DOMAIN text
        PROVE  OneSpelling(words[k], text[k], cuts[k], words[l], text[l], cuts[l])
    <2> DEFINE N == Len(text[k])
               M == Len(text[l])
    <2>1. ASSUME NEW a \in 0..N, NEW b \in 0..N, NEW c \in 0..M, NEW d \in 0..M,
                 a <= b, c <= d, cuts[k][b] - cuts[k][a] = cuts[l][d] - cuts[l][c],
                 Alike(text[k], cuts[k][a], text[l], cuts[l][c], cuts[k][b] - cuts[k][a])
          PROVE  b - a = d - c /\ Alike(words[k], a, words[l], c, b - a)
      <3>1. /\ cuts[k][b] = b /\ cuts[k][a] = a /\ cuts[l][c] = c /\ cuts[l][d] = d
            /\ N \in Nat /\ M \in Nat /\ a \in Nat /\ b \in Nat /\ c \in Nat /\ d \in Nat
            /\ b <= N /\ d <= M
        BY <1>1, <1>i
      <3>2. b - a = d - c /\ Alike(text[k], a, text[l], c, b - a)
        BY <2>1, <3>1
      <3> HIDE DEF N, M
      <3>3. ASSUME NEW x \in 1..(b - a) PROVE words[k][a + x] = words[l][c + x]
        <4>1. a + x \in 1..N /\ c + x \in 1..M
          BY <3>1, <3>2, SMTT(30)
        <4>2. text[k][a + x] = text[l][c + x]
          BY <3>2 DEF Alike
        <4>3. words[k][a + x] = <<text[k][a + x]>> /\ words[l][c + x] = <<text[l][c + x]>>
          BY <4>1, <1>1 DEF N, M
        <4>4. QED BY <4>2, <4>3
      <3>4. QED BY <3>2, <3>3 DEF Alike
    <2>2. Len(words[k]) = N /\ Len(words[l]) = M
      BY <1>1
    <2>3. QED BY <2>1, <2>2 DEF OneSpelling
  <1>6. Spelt(text, words, tokens, cuts)
    BY <1>3, <1>4, <1>5 DEF Spelt
  <1>7. QED BY <1>6 DEF WellSpelt, words

\* The loop of train begins with a tokenizer for which Trained holds,
LEMMA NewTrainingIsTrained ==
    ASSUME NEW text \in Seq(Seq(STRING))
    PROVE  Trained(text, NewTraining(text))
  <1> DEFINE words == Split(text)
             chars == FlattenSeq(words)
             vocab == CharVocab(chars)
             tok == NewTraining(text)
  <1>1. tok.words = words /\ tok.vocab = vocab /\ tok.order = <<>>
    BY DEF NewTraining
  <1>2. /\ words \in Seq(Seq(Chars)) /\ DOMAIN words = DOMAIN text
        /\ \A k \in DOMAIN text : words[k] \in Seq(Token)
    BY SplitWords
  <1> HIDE DEF words, tok
  <1>3. chars \in Seq(Chars) /\ \A k \in DOMAIN words : Range(words[k]) \subseteq Range(chars)
    BY <1>2, FlattenProperties
  <1>4. chars \in Seq(Token) /\ Range(chars) \subseteq Chars
    BY <1>3, CharsAreTokens, SeqMonotonic, RangeOfSeq
  <1> HIDE DEF chars
  <1>5. vocab \in Vocabs /\ DOMAIN vocab = Range(chars)
    BY <1>4, CharVocabProperties
  <1> HIDE DEF vocab
  <1>6. Dense(vocab)
    BY <1>5 DEF Vocabs
  <1>7. LongTokens(vocab) = {}
    <2>1. \A t \in DOMAIN vocab : Len(t) = 1
      BY <1>4, <1>5, CharsAreTokens
    <2>2. ASSUME NEW t \in DOMAIN vocab PROVE ~(Len(t) > 1)
      <3> DEFINE l == Len(t)
      <3>1. l = 1
        BY <2>1
      <3> HIDE DEF l
      <3>2. ~(l > 1)
        BY <3>1
      <3>3. QED BY <3>2 DEF l
    <2>3. QED BY <2>2 DEF LongTokens
  <1>8. Cardinality(LongTokens(vocab)) = Len(<<>>)
    BY <1>7, FS_EmptySet, EmptySeq
  <1>9. <<>> \in Seq(Pair)
    BY EmptySeq
  <1>10. \A k \in DOMAIN text : Replay(<<>>, words[k]) = words[k]
    BY <1>2, <1>9, ReplayType
  <1>11. WellSpelt(text, words, DOMAIN vocab)
    BY <1>4, <1>5, CharsSpelt DEF words
  <1>12. Trained(text, tok)
    BY <1>1, <1>2, <1>3, <1>5, <1>6, <1>8, <1>9, <1>10, <1>11 DEF Trained, words
  <1>13. QED BY <1>12 DEF tok

\* A pair of the words stands in one of them.
LEMMA PairStands ==
    ASSUME NEW words, \A k \in DOMAIN words : words[k] \in Seq(Token),
           NEW best \in MostFrequent(words)
    PROVE  /\ best \in Pair
           /\ \E k \in DOMAIN words, n \in Nat :
                 /\ n + 2 <= Len(words[k])
                 /\ words[k][n + 1] = best[1] /\ words[k][n + 2] = best[2]
  <1>1. PICK s \in Spots(words) : best = PairAt(words, s)
    BY DEF MostFrequent, Pairs
  <1>k. PICK k \in DOMAIN words : s \in {<<k, i>> : i \in 1..(Len(words[k]) - 1)}
    BY DEF Spots
  <1>2. PICK i \in 1..(Len(words[k]) - 1) : s = <<k, i>>
    BY <1>k
  <1>3. best = <<words[k][i], words[k][i + 1]>>
    BY <1>1, <1>2 DEF PairAt
  <1> DEFINE N == Len(words[k])
  <1>4. N \in Nat /\ \A j \in 1..N : words[k][j] \in Token
    BY LenProperties, ElementOfSeq
  <1>5. i \in 1..N /\ i + 1 \in 1..N
    BY <1>4
  <1>6. best \in Pair
    BY <1>3, <1>4, <1>5 DEF Pair
  <1>7. PICK n : n = i - 1
    OBVIOUS
  <1>8. n \in Nat /\ n + 1 = i /\ n + 2 = i + 1 /\ n + 2 <= N
    BY <1>4, <1>5, <1>7
  <1>9. words[k][n + 1] = best[1] /\ words[k][n + 2] = best[2]
    BY <1>3, <1>8
  <1>10. QED BY <1>6, <1>8, <1>9

\* A pass makes no token but the merged one.
LEMMA ApplyRange ==
    ASSUME NEW word \in Seq(Token), NEW p \in Pair
    PROVE  Range(Apply(word, p)) \subseteq Range(word) \cup {Merged(p)}
  <1> DEFINE out == Apply(word, p)
             M == Len(out)
             N == Len(word)
  <1>1. out \in Seq(Token)
    BY ApplyType
  <1>2. PICK pos : Parse(word, p, out, pos)
    BY ApplyParses
  <1> HIDE DEF out
  <1>3. /\ N \in Nat /\ M \in Nat /\ pos \in [0..M -> 0..N]
        /\ \A i, j \in 0..M : i <= j => pos[i] + (j - i) <= pos[j]
    BY <1>1, <1>2, ParseGrows
  <1>4. \A j \in 1..M : Alone(word, p, out, pos, j) \/ Joined(word, p, out, pos, j)
    BY <1>2 DEF Parse
  <1> HIDE DEF N, M
  <1>5. ASSUME NEW j \in 1..M PROVE out[j] \in Range(word) \cup {Merged(p)}
    <2>1. CASE Alone(word, p, out, pos, j)
      <3>1. pos[j] = pos[j - 1] + 1 /\ out[j] = word[pos[j]]
        BY <2>1 DEF Alone
      <3>2. j \in 0..M /\ j - 1 \in 0..M
        BY <1>3
      <3>3. pos[j] \in 0..N /\ pos[j - 1] \in 0..N
        BY <3>2, <1>3
      <3>4. pos[j] \in 1..N
        BY <3>1, <3>3, <1>3
      <3>5. DOMAIN word = 1..N
        BY LenProperties DEF N
      <3>6. QED BY <3>1, <3>4, <3>5 DEF Range
    <2>2. CASE Joined(word, p, out, pos, j)
      BY <2>2 DEF Joined
    <2>3. QED BY <2>1, <2>2, <1>4
  <1>6. Range(out) = {out[j] : j \in 1..M}
    BY <1>1, RangeEquality DEF M
  <1>7. QED BY <1>5, <1>6 DEF out

\* The merge leaves the words cut as before, but for the joined tokens.
LEMMA LearnSpelt ==
    ASSUME NEW text, NEW words, DOMAIN words = DOMAIN text,
           \A k \in DOMAIN text : words[k] \in Seq(Token),
           NEW best \in MostFrequent(words), NEW tokens,
           WellSpelt(text, words, tokens),
           NEW after, \A k \in DOMAIN text : after[k] = Apply(words[k], best)
    PROVE  /\ Merged(best) \notin tokens
           /\ WellSpelt(text, after, tokens \cup {Merged(best)})
  <1>1. PICK cuts : Spelt(text, words, tokens, cuts)
    BY DEF WellSpelt
  <1>2. best \in Pair
    BY PairStands
  <1>3. PICK l \in DOMAIN words, n \in Nat :
           n + 2 <= Len(words[l]) /\ words[l][n + 1] = best[1] /\ words[l][n + 2] = best[2]
    BY PairStands
  <1>4. /\ l \in DOMAIN text /\ words[l] \in Seq(Token)
        /\ Cut(words[l], text[l], cuts[l]) /\ Whole(words[l], text[l], cuts[l], tokens)
    BY <1>1, <1>3 DEF Spelt
  <1>5. Merged(best) \notin tokens
    BY <1>2, <1>3, <1>4, NewToken
  <1> DEFINE out(k) == Apply(words[k], best)
             pos(k) == CHOOSE f : Parse(words[k], best, out(k), f)
             new == [k \in DOMAIN text |-> Recut(cuts[k], out(k), pos(k))]
  <1>6. ASSUME NEW k \in DOMAIN text
        PROVE  /\ out(k) \in Seq(Token) /\ Parse(words[k], best, out(k), pos(k))
               /\ words[k] \in Seq(Token)
               /\ Cut(words[k], text[k], cuts[k]) /\ Whole(words[k], text[k], cuts[k], tokens)
               /\ new[k] = Recut(cuts[k], out(k), pos(k)) /\ after[k] = out(k)
    <2>1. words[k] \in Seq(Token) /\ out(k) \in Seq(Token)
      BY <1>2, ApplyType
    <2>2. \E f : Parse(words[k], best, out(k), f)
      BY <1>2, <2>1, ApplyParses
    <2>3. Parse(words[k], best, out(k), pos(k))
      BY <2>2
    <2>4. QED BY <2>1, <2>3, <1>1 DEF Spelt
  <1> HIDE DEF out, pos, new
  <1>7. ASSUME NEW k \in DOMAIN text
        PROVE  /\ Cut(after[k], text[k], new[k])
               /\ Whole(after[k], text[k], new[k], tokens \cup {Merged(best)})
    <2>1. Cut(out(k), text[k], Recut(cuts[k], out(k), pos(k)))
      BY <1>2, <1>6, ParsedCut
    <2>2. OneSpelling(words[k], text[k], cuts[k], words[l], text[l], cuts[l])
      BY <1>1, <1>4 DEF Spelt
    <2>3. Whole(out(k), text[k], Recut(cuts[k], out(k), pos(k)), tokens \cup {Merged(best)})
      BY <2>2, <1>2, <1>3, <1>4, <1>6, ParsedWhole
    <2>4. QED BY <2>1, <2>3, <1>6
  <1>8. ASSUME NEW k \in DOMAIN text, NEW j \in DOMAIN text
        PROVE  OneSpelling(after[k], text[k], new[k], after[j], text[j], new[j])
    <2>1. OneSpelling(words[k], text[k], cuts[k], words[j], text[j], cuts[j])
      BY <1>1 DEF Spelt
    <2>2. OneSpelling(out(k), text[k], Recut(cuts[k], out(k), pos(k)),
                      out(j), text[j], Recut(cuts[j], out(j), pos(j)))
      BY <2>1, <1>2, <1>6, ParsedSpelling
    <2>3. QED BY <2>2, <1>6
  <1>9. Spelt(text, after, tokens \cup {Merged(best)}, new)
    BY <1>7, <1>8 DEF Spelt
  <1>10. QED BY <1>5, <1>9 DEF WellSpelt

\* and each of its turns keeps it, whichever of the most frequent pairs is taken.
LEMMA LearnKeepsTrained ==
    ASSUME NEW text \in Seq(Seq(STRING)), NEW tok, Trained(text, tok),
           NEW best \in MostFrequent(tok.words)
    PROVE  Trained(text, Learn(tok, best))
  <1> DEFINE words == tok.words
             vocab == tok.vocab
             order == tok.order
             m == Merged(best)
             after == [k \in DOMAIN words |-> Apply(words[k], best)]
             new == Insert(vocab, m, Cardinality(DOMAIN vocab))
             next == Learn(tok, best)
  <1>1. next.words = after /\ next.vocab = new /\ next.order = Append(order, best)
    BY DEF Learn
  <1>2. /\ DOMAIN words = DOMAIN text /\ order \in Seq(Pair) /\ Dense(vocab)
        /\ \A k \in DOMAIN text : /\ words[k] \in Seq(Token)
                                  /\ Range(words[k]) \subseteq DOMAIN vocab
                                  /\ Replay(order, Split(text)[k]) = words[k]
        /\ Cardinality(LongTokens(vocab)) = Len(order)
        /\ WellSpelt(text, words, DOMAIN vocab)
    BY DEF Trained
  <1>3. best \in MostFrequent(words)
    OBVIOUS
  <1> HIDE DEF words, vocab, order, next
  <1>4. best \in Pair
    BY <1>2, <1>3, PairStands
  <1>8. DOMAIN after = DOMAIN text /\ \A k \in DOMAIN text : after[k] = Apply(words[k], best)
    BY <1>2
  <1> HIDE DEF after
  <1>5. m \notin DOMAIN vocab /\ WellSpelt(text, after, DOMAIN vocab \cup {m})
    BY <1>2, <1>3, <1>8, LearnSpelt
  <1>6. Dense(new) /\ DOMAIN new = DOMAIN vocab \cup {m}
    BY <1>2, <1>5, InsertDense
  <1>7. /\ Append(order, best) \in Seq(Pair)
        /\ Len(Append(order, best)) = Len(order) + 1
    BY <1>2, <1>4, AppendProperties
  <1> HIDE DEF new
  <1>9. ASSUME NEW k \in DOMAIN text
        PROVE  /\ after[k] \in Seq(Token)
               /\ Range(after[k]) \subseteq DOMAIN new
               /\ Replay(Append(order, best), Split(text)[k]) = after[k]
    <2>1. after[k] \in Seq(Token)
      BY <1>2, <1>4, <1>8, ApplyType
    <2>2. Range(after[k]) \subseteq Range(words[k]) \cup {m}
      BY <1>2, <1>4, <1>8, ApplyRange
    <2>3. Split(text)[k] \in Seq(Token)
      BY SplitWords
    <2>4. Replay(Append(order, best), Split(text)[k]) = Apply(Replay(order, Split(text)[k]), best)
      BY <2>3, <1>2, <1>4, ReplayOneMore
    <2>5. QED BY <2>1, <2>2, <2>4, <1>2, <1>6, <1>8
  <1>10. Cardinality(LongTokens(new)) = Len(order) + 1
    <2> DEFINE L == LongTokens(vocab)
    <2>1. Len(m) > 1
      <3> DEFINE a == Len(best[1])
                 b == Len(best[2])
                 c == Len(m)
      <3>1. c = a + b /\ a \in Nat \ {0} /\ b \in Nat \ {0}
        BY <1>4, MergedToken
      <3> HIDE DEF a, b, c
      <3>2. c > 1
        BY <3>1
      <3>3. QED BY <3>2 DEF c
    <2>2. LongTokens(new) = L \cup {m}
      BY <2>1, <1>6 DEF LongTokens
    <2>3. m \notin L
      BY <1>5 DEF LongTokens
    <2>4. IsFiniteSet(L)
      <3>1. IsFiniteSet(DOMAIN vocab) /\ L \in SUBSET DOMAIN vocab
        BY <1>2 DEF Dense, LongTokens
      <3>2. QED BY <3>1, FS_Subset
    <2>5. Cardinality(L \cup {m}) = Cardinality(L) + 1
      BY <2>3, <2>4, FS_AddElement
    <2>6. QED BY <2>2, <2>5, <1>2
  <1>11. QED BY <1>1, <1>5, <1>6, <1>7, <1>8, <1>9, <1>10 DEF Trained, next
=============================================================================
