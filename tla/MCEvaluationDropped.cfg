CONSTANTS
    Triggers = {1}
    MaxThreshold = 1
    Evaluators = {e1}
    Narrators = {w1}
    NoWorker = NoWorker
    MaxAttempts = 3
    MaxStalls = 1
    Texts = {x}
    NoText = NoText
SPECIFICATION SpecQueueUp
PROPERTY EvaluationFollowsFigures
