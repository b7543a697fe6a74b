------------------------------ MODULE Tokenizer ------------------------------
(***************************************************************************)
(* Token counting in the sidecar: internal/tokenizer and the C interface   *)
(* of rust_ops/src/lib.rs.  Calls of Init train a tokenizer each and race  *)
(* to publish it in the process-wide OnceLock; calls of Validate count     *)
(* with whatever is published at that moment.  A panic in Rust is caught   *)
(* at the interface.                                                       *)
(***************************************************************************)
EXTENDS Bpe

CONSTANTS
    Texts,      \* corpora and prompts
    Words,      \* the words of each, as to_str().unwrap_or("") leaves them: none
                \* of a text that is not UTF-8
    Blank,      \* the texts that are empty for Go's TrimSpace
    Inits,      \* calls of Init
    Corpora,    \* the texts they may train with
    Callers,    \* goroutines that call Validate
    Prompts,    \* the texts they validate
    MaxInputTokens,
    NoText      \* no call is under way

ASSUME TextsAssumption ==
    /\ Words \in [Texts -> Seq(Seq(STRING))]
    /\ Blank \subseteq Texts /\ \A x \in Blank : Words[x] = <<>>
    /\ Corpora \subseteq Texts /\ Prompts \subseteq Texts
    /\ MaxInputTokens \in Nat /\ NoText \notin Texts

VARIABLES
    init,       \* where each call of Init is, and what it returned
    corpus,     \* the text that it trains with
    training,   \* the tokenizer that it trains
    published,  \* TOKENIZER: empty, or the tokenizer that was set
    caller,     \* what the last Validate of each goroutine returned, or that it counts
    prompt,     \* the text of the call under way
    trusted,    \* history: had an Init succeeded before that call?
    said        \* history: the counts of the calls that could trust one

initVars   == <<init, corpus, training>>
callerVars == <<caller, prompt, trusted, said>>
vars == <<init, corpus, training, published, caller, prompt, trusted, said>>

Untrained == [words |-> <<>>, vocab |-> <<>>, order |-> <<>>]

Init ==
    /\ init = [i \in Inits |-> "new"]
    /\ corpus \in [Inits -> Corpora]
    /\ training = [i \in Inits |-> Untrained]
    /\ published = <<>>
    /\ caller = [c \in Callers |-> "idle"]
    /\ prompt = [c \in Callers |-> NoText]
    /\ trusted = [c \in Callers |-> FALSE]
    /\ said = {}

----------------------------------------------------------------------------
(* Init and bpe_train *)

InitFails(i) ==
    /\ init[i] = "new" /\ corpus[i] \in Blank
    /\ init' = [init EXCEPT ![i] = "error"]
    /\ UNCHANGED <<corpus, training, published, callerVars>>

TrainBegin(i) ==
    /\ init[i] = "new" /\ corpus[i] \notin Blank
    /\ init' = [init EXCEPT ![i] = "train"]
    /\ training' = [training EXCEPT ![i] = NewTraining(Words[corpus[i]])]
    /\ UNCHANGED <<corpus, published, callerVars>>

TrainMerge(i) ==
    /\ init[i] = "train" /\ MergesLeft(training[i])
    /\ \E best \in MostFrequent(training[i].words) :
           training' = [training EXCEPT ![i] = Learn(@, best)]
    /\ UNCHANGED <<init, corpus, published, callerVars>>

\* Mutant of Publish: the last training wins.
PublishLast(i) ==
    /\ init[i] = "train" /\ ~MergesLeft(training[i])
    /\ published' = <<training[i]>>
    /\ init' = [init EXCEPT ![i] = "probe"]
    /\ training' = [training EXCEPT ![i] = Untrained]
    /\ UNCHANGED <<corpus, callerVars>>

\* TOKENIZER.set: the first training wins, later ones are discarded.
Publish(i) ==
    /\ init[i] = "train" /\ ~MergesLeft(training[i])
    /\ published' = IF published = <<>> THEN <<training[i]>> ELSE published
    /\ init' = [init EXCEPT ![i] = "probe"]
    /\ training' = [training EXCEPT ![i] = Untrained]
    /\ UNCHANGED <<corpus, callerVars>>

\* catch_ffi_panic in bpe_train: nothing is published and nothing reported.
TrainPanics(i) ==
    /\ init[i] = "train"
    /\ init' = [init EXCEPT ![i] = "probe"]
    /\ training' = [training EXCEPT ![i] = Untrained]
    /\ UNCHANGED <<corpus, published, callerVars>>

\* bpe_encode_len of the self-check: -1 without a tokenizer, or on a panic.
Probe(i) ==
    /\ init[i] = "probe"
    /\ \/ published # <<>> /\ init' = [init EXCEPT ![i] = "ok"]
       \/ init' = [init EXCEPT ![i] = "error"]
    /\ UNCHANGED <<corpus, training, published, callerVars>>

Train(i) == \/ TrainBegin(i) \/ TrainMerge(i) \/ Publish(i) \/ Probe(i)

InitStep(i) == InitFails(i) \/ Train(i) \/ TrainPanics(i)

----------------------------------------------------------------------------
(* Validate and bpe_count_tokens *)

Call(c) ==
    /\ caller[c] # "counting"
    /\ caller' = [caller EXCEPT ![c] = "counting"]
    /\ \E p \in Prompts : prompt' = [prompt EXCEPT ![c] = p]
    /\ trusted' = [trusted EXCEPT ![c] = \E i \in Inits : init[i] = "ok"]
    /\ UNCHANGED <<initVars, published, said>>

Return(c, verdict) ==
    /\ caller' = [caller EXCEPT ![c] = verdict]
    /\ prompt' = [prompt EXCEPT ![c] = NoText]
    /\ trusted' = [trusted EXCEPT ![c] = FALSE]
    /\ UNCHANGED <<initVars, published>>

\* Before a training is published the words are counted instead.
CountTokens(p) ==
    IF published = <<>> THEN Len(Words[p]) ELSE Len(Encode(published[1], Words[p]))

Count(c) ==
    /\ caller[c] = "counting"
    /\ LET n == CountTokens(prompt[c])
       IN  /\ Return(c, IF n > MaxInputTokens THEN "too long" ELSE "ok")
           /\ said' = IF trusted[c] THEN said \cup {<<prompt[c], n>>} ELSE said

\* A panic in bpe_count_tokens comes back as -1.
CountPanics(c) ==
    /\ caller[c] = "counting"
    /\ Return(c, "tokenizer failure")
    /\ UNCHANGED said

----------------------------------------------------------------------------

Next ==
    \/ \E i \in Inits : InitStep(i)
    \/ \E c \in Callers : Call(c) \/ Count(c) \/ CountPanics(c)

Spec == Init /\ [][Next]_vars

\* A call of Init goes on as long as it can; a panic is never owed.
FairSpec == Spec /\ \A i \in Inits : WF_vars(Train(i))
=============================================================================
