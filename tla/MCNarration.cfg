CONSTANTS
    Triggers = {1}
    MaxThreshold = 1
    Evaluators = {e1}
    Narrators = {w1, w2}
    NoWorker = NoWorker
    MaxAttempts = 2
    MaxStalls = 1
    Texts = {x, y}
    NoText = NoText
SPECIFICATION FairSpec
INVARIANT TypeOK
PROPERTIES ImplementsLifecycle ReachedUnlessEdited NarrationSettles
