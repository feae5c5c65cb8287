\* Two runs of createlib over three corpora, with the search engine started
\* at any time.
SPECIFICATION Spec
CONSTANTS
    Corpora <- MCCorpora
    Near <- MCNear
    MaxRuns = 2
INVARIANTS TypeOK ServesWholeLibrary InterruptedRunIsSafe PagesAreDistinct FoundPagesAreShown
\* Nothing has to run any more.
CHECK_DEADLOCK FALSE
