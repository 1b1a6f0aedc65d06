SPECIFICATION Spec
CONSTANTS
    Texts = {a, b, c}
    NoText = NoText
    Kinds = {"latexWeb"}
    SteadyKinds = {"latexWeb"}
    Failing = {}
    Unloadable = {}
    MaxCalls = 3
    MaxResets = 0
INVARIANT NewestShown
CHECK_DEADLOCK FALSE
