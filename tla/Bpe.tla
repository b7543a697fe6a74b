--------------------------------- MODULE Bpe ---------------------------------
(***************************************************************************)
(* The byte-pair encoding of rust_ops/src/bpe_token.rs, one merge of the   *)
(* training at a time, and the encoding that replays the merges.           *)
(*                                                                         *)
(* A word is a sequence of characters and a token one too; the text of a   *)
(* training or an encoding is a sequence of words.  The map of merges is   *)
(* left out: a pair merges to its concatenation and to nothing else.       *)
(***************************************************************************)
EXTENDS Integers, SequencesExt

CONSTANT VocabSize
ASSUME VocabSizeAssumption == VocabSize \in Nat

\* Every character is a token at first.
Split(text) == [k \in DOMAIN text |-> [i \in DOMAIN text[k] |-> <<text[k][i]>>]]

\* HashMap::insert
Insert(vocab, token, id) ==
    [t \in DOMAIN vocab \cup {token} |-> IF t = token THEN id ELSE vocab[t]]

\* or_insert: a token that is there already keeps its id.
WithChar(vocab, ch) ==
    IF ch \in DOMAIN vocab THEN vocab ELSE Insert(vocab, ch, Cardinality(DOMAIN vocab))

CharVocab(chars) ==
    LET vocab[n \in 0..Len(chars)] ==
            IF n = 0 THEN [t \in {} |-> 0] ELSE WithChar(vocab[n - 1], chars[n])
    IN  vocab[Len(chars)]

\* train, up to its loop.
NewTraining(text) ==
    [words |-> Split(text), vocab |-> CharVocab(FlattenSeq(Split(text))), order |-> <<>>]

Spots(words) == UNION {{<<k, i>> : i \in 1..(Len(words[k]) - 1)} : k \in DOMAIN words}

PairAt(words, s) == <<words[s[1]][s[2]], words[s[1]][s[2] + 1]>>

Pairs(words) == {PairAt(words, s) : s \in Spots(words)}

\* pair_freq counts overlapping places too.
Freq(words, pair) == Cardinality({s \in Spots(words) : PairAt(words, s) = pair})

\* max_by_key over a hash map: any of the most frequent pairs.
MostFrequent(words) ==
    {p \in Pairs(words) : \A q \in Pairs(words) : Freq(words, q) <= Freq(words, p)}

Merged(pair) == pair[1] \o pair[2]

\* The next token of a word merges with the one before it, or not.
Extend(done, token, pair) ==
    IF done # <<>> /\ Last(done) = pair[1] /\ token = pair[2]
    THEN Append(Front(done), Merged(pair))
    ELSE Append(done, token)

\* One pass over a word, from left to right.
Apply(word, pair) ==
    LET done[n \in 0..Len(word)] ==
            IF n = 0 THEN <<>> ELSE Extend(done[n - 1], word[n], pair)
    IN  done[Len(word)]

\* Mutant of MergesLeft: the loop is not left when there is no pair.
MergesWanted(tok) == Cardinality(DOMAIN tok.vocab) < VocabSize

\* The condition of the loop and the break in it.
MergesLeft(tok) == Cardinality(DOMAIN tok.vocab) < VocabSize /\ Pairs(tok.words) # {}

\* Mutant of Learn: the id is taken after the token has been put in.
LearnLate(tok, best) ==
    [words |-> [k \in DOMAIN tok.words |-> Apply(tok.words[k], best)],
     order |-> Append(tok.order, best),
     vocab |-> Insert(tok.vocab, Merged(best), Cardinality(DOMAIN tok.vocab) + 1)]

\* One turn of the loop of train.
Learn(tok, best) ==
    [words |-> [k \in DOMAIN tok.words |-> Apply(tok.words[k], best)],
     order |-> Append(tok.order, best),
     vocab |-> Insert(tok.vocab, Merged(best), Cardinality(DOMAIN tok.vocab))]

\* Mutant of Replay: the merges are taken from the last to the first.
ReplayBackwards(order, word) ==
    LET at[n \in 0..Len(order)] ==
            IF n = 0 THEN word ELSE Apply(at[n - 1], order[Len(order) + 1 - n])
    IN  at[Len(order)]

Replay(order, word) ==
    LET at[n \in 0..Len(order)] ==
            IF n = 0 THEN word ELSE Apply(at[n - 1], order[n])
    IN  at[Len(order)]

\* encode; a token that is not in the vocabulary gets the id 0.
Encode(tok, text) ==
    LET tokens == FlattenSeq([k \in DOMAIN text |-> Replay(tok.order, Split(text)[k])])
    IN  [i \in DOMAIN tokens |->
            IF tokens[i] \in DOMAIN tok.vocab THEN tok.vocab[tokens[i]] ELSE 0]
=============================================================================
