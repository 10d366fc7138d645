CONSTANTS
    Insights = {1, 2}
    Texts = {x}
    NoText = NoText
    Users = {u, o}
    Members = {u}
    Titles = {1, 2}
    Conversations = {k1, k2}
    Calls = {c1, c2}
    NoUser = NoUser
    NoConversation = NoConversation
SPECIFICATION Spec
SYMMETRY Symmetry
INVARIANTS TypeOK ReadWasShown
PROPERTY PresentedOnce
CHECK_DEADLOCK FALSE
