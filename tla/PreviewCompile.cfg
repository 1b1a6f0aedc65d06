SPECIFICATION FairSpec
CONSTANTS
    Texts = {a, b, c, d}
    NoText = NoText
    Kinds = {"typst", "latexPdf", "latexWeb", "latexPandoc"}
    SteadyKinds = {"typst", "latexPdf"}
    Failing = {b}
    Unloadable = {d}
    MaxCalls = 4
    MaxResets = 2
INVARIANTS
    MarksHold
    NewestShown
    LocalCompileKept
    
PROPERTIES
    NewestEventuallyShown
CHECK_DEADLOCK FALSE
