------------------------- MODULE TokenizerProperties -------------------------
(* What token admission must guarantee, see Tokenizer.tla and Bpe.tla. *)
EXTENDS Tokenizer

\* Admission limits do not move: once an Init has succeeded every count of a
\* prompt is the same, made with one tokenizer and never with the fallback to
\* whitespace, however many trainings race or fail (lib.rs:8-11, 45-52;
\* tokenizer.go:30-34, 54-57).
CountsAgree == \A x, y \in said : x[1] = y[1] => x[2] = y[2]

Tokenizers == {training[i] : i \in {j \in Inits : init[j] # "new"}} \cup Range(published)

\* Ids are dense and never used twice: each merge makes a token that was not in
\* the vocabulary, although two pairs may well be spelt alike
\* (bpe_token.rs:58-61, 78-86).
TokensDistinct ==
    \A tok \in Tokenizers :
        /\ IsInjective(tok.vocab)
        /\ Range(tok.vocab) = 0..(Cardinality(DOMAIN tok.vocab) - 1)
        /\ Cardinality({t \in DOMAIN tok.vocab : Len(t) > 1}) = Len(tok.order)

\* Whatever pair each tie chose, the learned order of the merges takes the words
\* of the corpus to the tokens that the training left them in, and none of them
\* is unknown (bpe_token.rs:14-17, 102-116).
ReplaysTraining ==
    \A i \in Inits : init[i] = "train" =>
        LET tok == training[i]
            first == Split(Words[corpus[i]])
        IN  \A k \in DOMAIN first :
                /\ Replay(tok.order, first[k]) = tok.words[k]
                /\ Range(tok.words[k]) \subseteq DOMAIN tok.vocab

\* A call of Init returns: the training ends (bpe_token.rs:63-76).
InitReturns ==
    \A i \in Inits : init[i] = "train" ~> init[i] \in {"ok", "error"}
=============================================================================
