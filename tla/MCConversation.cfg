\* Three messages of one conversation, one after the other or at the same time.
CONSTANTS
    Messages = {m1, m2, m3}
    NoMessage = NoMessage
    PremiseLimit = 2
SPECIFICATION Spec
SYMMETRY Symmetry
CONSTRAINT PremisesUntilOverlap
INVARIANTS
    TypeOK
    ForgottenStaysForgotten
    PremisesRemain
    ReplacedStaysReplaced
PROPERTIES
    OfferRunsOnce
CHECK_DEADLOCK FALSE
