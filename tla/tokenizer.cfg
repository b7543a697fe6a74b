SPECIFICATION FairSpec
CONSTANTS
    VocabSize = 5
    Texts <- MCTexts
    Words <- MCWords
    Blank = {"blank"}
    NoText = NoText
    Inits = {i1, i2}
    Corpora = {"runs", "ties", "binary", "blank"}
    Callers = {c1}
    Prompts = {"runs", "other"}
    MaxInputTokens = 3
INVARIANTS CountsAgree TokensDistinct ReplaysTraining
PROPERTY InitReturns
