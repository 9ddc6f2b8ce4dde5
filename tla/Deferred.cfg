SPECIFICATION Spec

CONSTANTS
    FreeLists = {l1}
    FreeFns = {1, 2}
    MaxOps = 4
    MaxDeferred = 3
    Roots = 2
    MaxAnswers = 2
    Options <- ListOptions

INVARIANTS
    DeferredInv
    HeardInOrder
    FirstAnswerDecides
    WhenWaits

PROPERTIES
    ImplementsPromises
    ThenSettles

\* The application may have nothing left to do.
CHECK_DEADLOCK FALSE
