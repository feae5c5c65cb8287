\* Two workers, two queries and two libraries.
SPECIFICATION FairSpec
CONSTANTS
    Workers = {w1, w2}
    Queries <- MCQueries
    Words <- MCWords
    Lexicon <- MCLexicon
    MaxVersion = 2
    MaxLate = 1
INVARIANTS AnswersNeverGoBack OnlyUnknownWordsRace
PROPERTIES EveryTaskEnds
