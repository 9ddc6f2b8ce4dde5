SPECIFICATION Spec

CONSTANTS
    Size = 4
    Kinds = {"a", "b"}
    Selectors <- PageSelectors
    Contexts <- PageContexts
    Singles <- PageSingles
    Engines <- PageEngines
    MaxQueries = 2
    MaxChanges = 1

INVARIANTS
    SelectionInv
    RightElements

\* The page may have nothing left to do.
CHECK_DEADLOCK FALSE
