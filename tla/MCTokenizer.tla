----------------------------- MODULE MCTokenizer -----------------------------
(* A small instance of Tokenizer.tla for TLC. *)
EXTENDS TokenizerProperties

\* Two corpora whose pairs tie, one with a run of one letter, and one that runs
\* out of pairs before the vocabulary is full; a text with
\* a letter that neither has; one that is not UTF-8; and one that is blank.
MCTexts == {"runs", "ties", "other", "binary", "blank"}
MCWords ==
    [x \in MCTexts |->
        CASE x = "runs"  -> << <<"a", "a", "a", "b">>, <<"a", "b", "b">> >>
          [] x = "ties"  -> << <<"a", "b">>, <<"b", "a">> >>
          [] x = "other" -> << <<"a", "b", "a", "b", "d">> >>
          [] OTHER       -> <<>>]
=============================================================================
