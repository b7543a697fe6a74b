--------------------------- MODULE TokenizerProofs ---------------------------
(***************************************************************************)
(* Proofs about Tokenizer.tla for any number of calls of Init and Validate, *)
(* any texts and any limits.  The first part is about who may replace the  *)
(* tokenizer, and when, and does not look into what a training learns; the *)
(* second is about that, from the lemmas of BpeProofs.                     *)
(***************************************************************************)
EXTENDS TokenizerProperties, BpeProofs

TypeOK ==
    /\ init \in [Inits -> {"new", "train", "probe", "ok", "error"}]
    /\ caller \in [Callers -> {"idle", "counting", "ok", "too long", "tokenizer failure"}]
    /\ prompt \in [Callers -> Prompts \cup {NoText}]
    /\ \A c \in Callers : caller[c] = "counting" => prompt[c] \in Prompts
    /\ trusted \in [Callers -> BOOLEAN]
    /\ \A x \in said : x[1] \in Prompts

\* What an Init that has succeeded stands for: a tokenizer is published, and all
\* that was said on the strength of it is what this tokenizer says.
Trust ==
    /\ \A i \in Inits : init[i] = "ok" => published # <<>>
    /\ \A c \in Callers : trusted[c] => published # <<>>
    /\ said # {} => published # <<>>
    /\ \A x \in said : x[2] = CountTokens(x[1])

TokenizerInv == TypeOK /\ Trust

----------------------------------------------------------------------------

LEMMA InitTokenizerInv == Init => TokenizerInv
  BY DEF Init, TokenizerInv, TypeOK, Trust

\* The steps that leave the published tokenizer and the callers alone.
LEMMA InitKeepsInv ==
    ASSUME TokenizerInv, NEW i \in Inits,
           InitFails(i) \/ TrainBegin(i) \/ TrainMerge(i) \/ TrainPanics(i) \/ Probe(i)
    PROVE  TokenizerInv'
  <1> USE DEF TokenizerInv, TypeOK, Trust, CountTokens, callerVars
  <1>1. CASE InitFails(i)
    BY <1>1 DEF InitFails
  <1>2. CASE TrainBegin(i)
    BY <1>2 DEF TrainBegin
  <1>3. CASE TrainMerge(i)
    BY <1>3 DEF TrainMerge
  <1>4. CASE TrainPanics(i)
    BY <1>4 DEF TrainPanics
  <1>5. CASE Probe(i)
    BY <1>5 DEF Probe
  <1> QED BY <1>1, <1>2, <1>3, <1>4, <1>5

\* The first training to come is published; nothing was said before it.
LEMMA PublishKeepsInv ==
    ASSUME TokenizerInv, NEW i \in Inits, Publish(i)
    PROVE  TokenizerInv'
  <1> USE DEF TokenizerInv
  <1>1. TypeOK'
    BY DEF Publish, TypeOK, callerVars
  <1>2. published' # <<>>
    BY DEF Publish
  <1>3. \A x \in said' : x[2] = CountTokens(x[1])'
    <2>1. CASE published = <<>>
      BY <2>1 DEF Publish, Trust, callerVars
    <2>2. CASE published # <<>>
      BY <2>2 DEF Publish, Trust, CountTokens, callerVars
    <2> QED BY <2>1, <2>2
  <1> QED BY <1>1, <1>2, <1>3 DEF Trust

LEMMA CallerKeepsInv ==
    ASSUME TokenizerInv, NEW c \in Callers, Call(c) \/ Count(c) \/ CountPanics(c)
    PROVE  TokenizerInv'
  <1> USE DEF TokenizerInv
  <1>1. CASE Call(c)
    BY <1>1 DEF Call, TypeOK, Trust, CountTokens, initVars
  <1>2. CASE CountPanics(c)
    BY <1>2 DEF CountPanics, Return, TypeOK, Trust, CountTokens, initVars
  <1>3. CASE Count(c)
    <2>1. TypeOK'
      <3>1. /\ init' = init
            /\ \E v \in {"too long", "ok"} : caller' = [caller EXCEPT ![c] = v]
            /\ prompt' = [prompt EXCEPT ![c] = NoText]
            /\ trusted' = [trusted EXCEPT ![c] = FALSE]
        BY <1>3 DEF Count, Return, initVars
      <3>2. \A x \in said' : x[1] \in Prompts
        <4>1. said' \subseteq said \cup {<<prompt[c], CountTokens(prompt[c])>>}
          BY <1>3 DEF Count
        <4>2. prompt[c] \in Prompts
          BY <1>3 DEF Count, TypeOK
        <4>3. ASSUME NEW x, x = <<prompt[c], CountTokens(prompt[c])>> PROVE x[1] \in Prompts
          BY <4>2, <4>3
        <4> QED BY <4>1, <4>3 DEF TypeOK
      <3>3. PICK v \in {"too long", "ok"} : caller' = [caller EXCEPT ![c] = v]
        BY <3>1
      <3>4. /\ caller' \in [Callers -> {"idle", "counting", "ok", "too long",
                                        "tokenizer failure"}]
            /\ trusted' \in [Callers -> BOOLEAN]
            /\ prompt' \in [Callers -> Prompts \cup {NoText}]
            /\ init' \in [Inits -> {"new", "train", "probe", "ok", "error"}]
        BY <3>1, <3>3 DEF TypeOK
      <3>5. \A d \in Callers : caller'[d] = "counting" => prompt'[d] \in Prompts
        BY <3>1, <3>3 DEF TypeOK
      <3> QED BY <3>2, <3>4, <3>5 DEF TypeOK
    <2>2. published' = published
      BY <1>3 DEF Count, Return
    <2>3. \A x \in said' : x[2] = CountTokens(x[1])
      <3>1. SUFFICES ASSUME NEW x \in said', x \notin said
                     PROVE  x[2] = CountTokens(x[1])
        BY DEF Trust
      <3>2. x = <<prompt[c], CountTokens(prompt[c])>>
        BY <1>3, <3>1 DEF Count
      <3> QED BY <3>2
    <2>4. \A x \in said' : x[2] = CountTokens(x[1])'
      BY <2>2, <2>3 DEF CountTokens
    <2>5. \A i \in Inits : init'[i] = "ok" => published' # <<>>
      BY <1>3, <2>2 DEF Count, Return, Trust, initVars
    <2>6. \A d \in Callers : trusted'[d] => published' # <<>>
      BY <1>3, <2>2 DEF Count, Return, Trust, TypeOK
    <2>7. said' # {} => published' # <<>>
      BY <1>3, <2>2 DEF Count, Trust
    <2> QED BY <2>1, <2>4, <2>5, <2>6, <2>7 DEF Trust
  <1> QED BY <1>1, <1>2, <1>3

LEMMA NextKeepsInv == TokenizerInv /\ [Next]_vars => TokenizerInv'
  <1> SUFFICES ASSUME TokenizerInv, [Next]_vars PROVE TokenizerInv'
    OBVIOUS
  <1>1. CASE UNCHANGED vars
    BY <1>1 DEF vars, TokenizerInv, TypeOK, Trust, CountTokens
  <1>2. ASSUME NEW i \in Inits, InitStep(i) PROVE TokenizerInv'
    BY <1>2, InitKeepsInv, PublishKeepsInv DEF InitStep, Train
  <1>3. ASSUME NEW c \in Callers, Call(c) \/ Count(c) \/ CountPanics(c)
        PROVE TokenizerInv'
    BY <1>3, CallerKeepsInv
  <1> QED BY <1>1, <1>2, <1>3 DEF Next

\* The invariant: every count that could trust an Init was made with the
\* tokenizer that is published (lib.rs:8-15, 45-64; tokenizer.go:30-52).
THEOREM TrustHolds == Spec => []TokenizerInv
  BY InitTokenizerInv, NextKeepsInv, PTL DEF Spec

\* After a successful Init the count of a prompt never changes.
THEOREM LimitsDoNotMove == Spec => []CountsAgree
  <1>1. TokenizerInv => CountsAgree
    BY DEF TokenizerInv, Trust, CountsAgree
  <1> QED BY <1>1, TrustHolds, PTL

\* OnceLock: a tokenizer that was published is never replaced, whatever is
\* trained later (lib.rs:48-52).
PublishedOnce == [][published # <<>> => published' = published]_vars

THEOREM WriteOnce == Spec => PublishedOnce
  <1>1. [Next]_vars => [published # <<>> => published' = published]_vars
    BY DEF Next, vars, InitStep, Train, InitFails, TrainBegin, TrainMerge, Publish,
           TrainPanics, Probe, Call, Count, CountPanics, Return
  <1> QED BY <1>1, PTL DEF Spec, PublishedOnce

----------------------------------------------------------------------------
(* What is learned *)

\* The three conjuncts of TokensDistinct, of one tokenizer.
DistinctIds(tok) ==
    /\ IsInjective(tok.vocab)
    /\ Range(tok.vocab) = 0..(Cardinality(DOMAIN tok.vocab) - 1)
    /\ Cardinality(LongTokens(tok.vocab)) = Len(tok.order)

\* A training under way is Trained with its corpus; one that is over has left a
\* tokenizer with distinct ids, or none.
LearningInv ==
    /\ DOMAIN init = Inits /\ DOMAIN training = Inits
    /\ corpus \in [Inits -> Corpora]
    /\ \A i \in Inits : IF init[i] = "train" THEN Trained(Words[corpus[i]], training[i])
                                             ELSE training[i] = Untrained
    /\ published = <<>> \/ \E tok : published = <<tok>> /\ DistinctIds(tok)

LEMMA TrainedIsDistinct ==
    ASSUME NEW text, NEW tok, Trained(text, tok)
    PROVE  DistinctIds(tok)
  BY DEF Trained, Dense, DistinctIds

LEMMA UntrainedIsDistinct == DistinctIds(Untrained)
  <1>1. /\ Untrained.vocab = <<>> /\ Untrained.order = <<>>
        /\ DOMAIN <<>> = {} /\ Len(<<>>) = 0
    BY EmptySeq DEF Untrained
  <1>2. Dense(<<>>) /\ LongTokens(<<>>) = {}
    BY <1>1, NoVocab DEF LongTokens
  <1>3. QED BY <1>1, <1>2, FS_EmptySet DEF DistinctIds, Dense

LEMMA CorpusWords ==
    ASSUME corpus \in [Inits -> Corpora], NEW i \in Inits
    PROVE  Words[corpus[i]] \in Seq(Seq(STRING))
  BY TextsAssumption

LEMMA InitLearningInv == Init => LearningInv
  BY DEF Init, LearningInv

LEMMA NextKeepsLearningInv == LearningInv /\ [Next]_vars => LearningInv'
  <1> SUFFICES ASSUME LearningInv, [Next]_vars PROVE LearningInv'
    OBVIOUS
  <1> USE DEF LearningInv
  <1>1. CASE UNCHANGED <<init, corpus, training, published>>
    BY <1>1
  <1>2. ASSUME NEW i \in Inits, InitFails(i) \/ Probe(i) PROVE LearningInv'
    BY <1>2 DEF InitFails, Probe
  <1>3. ASSUME NEW i \in Inits, TrainPanics(i) PROVE LearningInv'
    BY <1>3 DEF TrainPanics
  <1>4. ASSUME NEW i \in Inits, TrainBegin(i) PROVE LearningInv'
    <2>1. Trained(Words[corpus[i]], NewTraining(Words[corpus[i]]))
      BY CorpusWords, NewTrainingIsTrained
    <2>2. QED BY <1>4, <2>1 DEF TrainBegin
  <1>5. ASSUME NEW i \in Inits, TrainMerge(i) PROVE LearningInv'
    <2>1. PICK best \in MostFrequent(training[i].words) :
             training' = [training EXCEPT ![i] = Learn(training[i], best)]
      BY <1>5 DEF TrainMerge
    <2>2. Trained(Words[corpus[i]], training[i])
      BY <1>5 DEF TrainMerge
    <2>3. Trained(Words[corpus[i]], Learn(training[i], best))
      BY <2>2, CorpusWords, LearnKeepsTrained
    <2>4. QED BY <1>5, <2>1, <2>3 DEF TrainMerge
  <1>6. ASSUME NEW i \in Inits, Publish(i) PROVE LearningInv'
    <2>1. DistinctIds(training[i])
      BY <1>6, TrainedIsDistinct DEF Publish
    <2>2. published' = <<>> \/ \E tok : published' = <<tok>> /\ DistinctIds(tok)
      BY <1>6, <2>1 DEF Publish
    <2>3. QED BY <1>6, <2>2 DEF Publish
  <1>7. ASSUME NEW c \in Callers, Call(c) \/ Count(c) \/ CountPanics(c)
        PROVE  UNCHANGED <<init, corpus, training, published>>
    BY <1>7 DEF Call, Count, CountPanics, Return, initVars
  <1>8. CASE UNCHANGED vars
    BY <1>1, <1>8 DEF vars
  <1> QED BY <1>1, <1>2, <1>3, <1>4, <1>5, <1>6, <1>7, <1>8 DEF Next, InitStep, Train

\* The invariant: at each turn of a training the merges learned so far take the
\* corpus to the tokens it is left in, equal text is cut into equal tokens, and
\* what is spelt like a token of the vocabulary is that one token
\* (bpe_token.rs:45-100).
THEOREM TrainingInductive == Spec => []LearningInv
  BY InitLearningInv, NextKeepsLearningInv, PTL DEF Spec

\* No merge ever makes a token that is in the vocabulary already, whichever pair
\* each tie chose: ids are dense and distinct (bpe_token.rs:58-61, 78-86).
THEOREM TokensAreDistinct == Spec => []TokensDistinct
  <1>1. LearningInv => TokensDistinct
    <2> SUFFICES ASSUME LearningInv, NEW tok \in Tokenizers PROVE DistinctIds(tok)
      BY DEF TokensDistinct, DistinctIds, LongTokens
    <2>1. CASE tok \in {training[i] : i \in {j \in Inits : init[j] # "new"}}
      BY <2>1, TrainedIsDistinct, UntrainedIsDistinct DEF LearningInv
    <2>2. CASE tok \in Range(published)
      <3>1. published # <<>>
        BY <2>2, EmptySeq DEF Range
      <3>2. PICK t : published = <<t>> /\ DistinctIds(t)
        BY <3>1 DEF LearningInv
      <3>3. tok = t
        BY <2>2, <3>2 DEF Range
      <3>4. QED BY <3>2, <3>3
    <2>3. QED BY <2>1, <2>2 DEF Tokenizers
  <1>2. QED BY <1>1, TrainingInductive, PTL

\* The merges replay the training (bpe_token.rs:14-17, 102-116).
THEOREM TrainingIsReplayed == Spec => []ReplaysTraining
  <1>1. LearningInv => ReplaysTraining
    <2> SUFFICES ASSUME LearningInv, NEW i \in Inits, init[i] = "train",
                        NEW k \in DOMAIN Split(Words[corpus[i]])
                 PROVE  /\ Replay(training[i].order, Split(Words[corpus[i]])[k])
                              = training[i].words[k]
                        /\ Range(training[i].words[k]) \subseteq DOMAIN training[i].vocab
      BY DEF ReplaysTraining
    <2>1. Trained(Words[corpus[i]], training[i])
      BY DEF LearningInv
    <2>2. k \in DOMAIN Words[corpus[i]]
      BY DEF Split
    <2>3. QED BY <2>1, <2>2 DEF Trained
  <1>2. QED BY <1>1, TrainingInductive, PTL
=============================================================================
