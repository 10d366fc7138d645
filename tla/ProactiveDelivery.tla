-------------------------- MODULE ProactiveDelivery --------------------------
(***************************************************************************)
(* Presenting narrated insights: requests that look for what a user has    *)
(* not read, write it as messages into one of his conversations and mark   *)
(* it read, while insights are narrated, other requests of the same user   *)
(* do the same and conversations are deleted.                              *)
(*                                                                         *)
(* Where insights come from is InsightLifecycle, which ProactiveTriggers   *)
(* implements.  Every step is one statement or transaction of present.     *)
(***************************************************************************)
EXTENDS Naturals, FiniteSets, InsightLifecycle

CONSTANTS
    Users,          \* who asks: members of the tenant and operators who support it
    Members,
    Titles,         \* insights about titles of one kind, which share a message
    Conversations,  \* conversation ids of one user, used again once forgotten (bound)
    Calls,
    NoUser, NoConversation

\* The numbers stand for the order in which insights were detected; any order will do.
ASSUME DeliveryAssumption ==
    /\ Insights \subseteq Nat
    /\ Members \subseteq Users
    /\ Titles \subseteq Insights
    /\ NoUser \notin Users
    /\ NoConversation \notin Conversations

VARIABLES
    conversation,  \* each user's conversations
    found,         \* the insights findUserMessage finds in each of them
    read,          \* ai_insight_reads
    call,          \* what each request is doing
    shown,         \* history: insights some message has presented to each user
    disturbed      \* history: users whose requests overlapped or stopped half-way

vars == << insight, conversation, found, read, call, shown, disturbed >>

-----------------------------------------------------------------------------
(* Data *)

CallRow == [pc: {"idle", "conversation", "write", "link", "mark"},
            user: Users \cup {NoUser},
            conversation: Conversations \cup {NoConversation},
            eligible: SUBSET Insights, todo: SUBSET Insights, group: SUBSET Insights,
            pending: SUBSET Insights]
Idle == [pc |-> "idle", user |-> NoUser, conversation |-> NoConversation,
         eligible |-> {}, todo |-> {}, group |-> {}, pending |-> {}]

TypeOK ==
    /\ insight \in [Insights -> InsightRow]
    /\ conversation \in [Users -> SUBSET Conversations]
    /\ found \in [Users -> [Conversations -> SUBSET Insights]]
    /\ read \in [Users -> SUBSET Insights]
    /\ call \in [Calls -> CallRow]
    /\ shown \in [Users -> SUBSET Insights]
    /\ disturbed \subseteq Users
    /\ \A c \in Calls : call[c].pc # "idle" => call[c].user \in Users
    /\ \A u \in Users, k \in Conversations : k \notin conversation[u] => found[u][k] = {}

Init ==
    /\ InsightInit
    /\ conversation = [u \in Users |-> {}]
    /\ found = [u \in Users |-> [k \in Conversations |-> {}]]
    /\ read = [u \in Users |-> {}]
    /\ call = [c \in Calls |-> Idle]
    /\ shown = [u \in Users |-> {}]
    /\ disturbed = {}

-----------------------------------------------------------------------------
(* Helpers *)

At(c, pc) == call[c].pc = pc
U(c)      == call[c].user
Conv(c)   == call[c].conversation
Lowest(S) == CHOOSE i \in S : \A j \in S : i <= j

Found(u) == UNION {found[u][k] : k \in Conversations}
Unread(u) == {i \in Insights : (\E x \in Texts : insight[i] = Narrated(x)) /\ i \notin read[u]}

Exists(c) == Conv(c) \in conversation[U(c)]
Links(c, S) == found' = [found EXCEPT ![U(c)][Conv(c)] = @ \cup S]

\* The first of what is pending, with all other titles if it is one.
NextGroup(c) ==
    LET first == Lowest(call[c].pending) IN
    IF first \in Titles THEN call[c].pending \cap Titles ELSE {first}

-----------------------------------------------------------------------------
(* present *)

\* Nothing is eligible, or this is all that will be presented and marked read.
Present(c, u) ==
    /\ At(c, "idle")
    /\ Unread(u) # {}
    /\ call' = [call EXCEPT ![c] = [Idle EXCEPT !.pc = "conversation", !.user = u,
                                                !.eligible = Unread(u)]]
    /\ disturbed' = IF \E d \in Calls : U(d) = u THEN disturbed \cup {u} ELSE disturbed
    /\ UNCHANGED << insight, conversation, found, read, shown >>

\* The one the user is looking at, the latest one, or a new one if there was none when
\* the request looked: another request may have created its own since.
Taken(u) == conversation[u] \cup {Conv(d) : d \in {d \in Calls : U(d) = u}}
Alone(c) == \A d \in Calls \ {c} : U(d) # U(c)

ChooseConversation(c) ==
    LET u == U(c) IN
    /\ At(c, "conversation")
    /\ \E k \in Conversations :
          /\ \/ k \in conversation[u]
             \/ k \notin Taken(u) /\ (conversation[u] = {} \/ ~ Alone(c))
          /\ conversation' = [conversation EXCEPT ![u] = @ \cup {k}]
          /\ call' = [call EXCEPT ![c].pc = "write", ![c].conversation = k,
                                  ![c].todo = call[c].eligible]
    /\ UNCHANGED << insight, found, read, shown, disturbed >>

\* Mutant: what was presented before is not looked for.
LookNowhere(c) ==
    LET i == Lowest(call[c].todo) IN
    /\ At(c, "write")
    /\ call[c].todo # {}
    /\ call' = [call EXCEPT ![c].todo = @ \ {i}, ![c].pending = @ \cup {i}]
    /\ UNCHANGED << insight, conversation, found, read, shown, disturbed >>

\* findUserMessage, one insight after the other.
LookForMessage(c) ==
    LET i == Lowest(call[c].todo) IN
    /\ At(c, "write")
    /\ call[c].todo # {}
    /\ call' = [call EXCEPT ![c].todo = @ \ {i},
                            ![c].pending = IF i \in Found(U(c)) THEN @ ELSE @ \cup {i}]
    /\ UNCHANGED << insight, conversation, found, read, shown, disturbed >>

\* createMessage refers to the first insight of its group ...
CreateMessage(c) ==
    LET group == NextGroup(c) IN
    /\ At(c, "write")
    /\ call[c].todo = {}
    /\ call[c].pending # {}
    /\ Exists(c)
    /\ Links(c, {Lowest(group)})
    /\ shown' = [shown EXCEPT ![U(c)] = @ \cup group]
    /\ call' = [call EXCEPT ![c].pc = "link", ![c].group = group]
    /\ UNCHANGED << insight, conversation, read, disturbed >>

\* ... and linkMessageInsights adds the others.
LinkInsights(c) ==
    /\ At(c, "link")
    /\ Exists(c)
    /\ Links(c, call[c].group)
    /\ call' = [call EXCEPT ![c].pc = "write", ![c].group = {},
                            ![c].pending = @ \ call[c].group]
    /\ UNCHANGED << insight, conversation, read, shown, disturbed >>

Marking(c, S) == [Idle EXCEPT !.pc = "mark", !.user = U(c), !.todo = S]

\* Mutant: whatever is unread by now is marked.
WrittenMarkingAll(c) ==
    /\ At(c, "write")
    /\ call[c].todo = {} /\ call[c].pending = {}
    /\ call' = IF U(c) \in Members
                 THEN [call EXCEPT ![c] = Marking(c, call[c].eligible \cup Unread(U(c)))]
                 ELSE [call EXCEPT ![c] = Idle]
    /\ UNCHANGED << insight, conversation, found, read, shown, disturbed >>

\* An operator reads nothing in the client's place.
Written(c) ==
    /\ At(c, "write")
    /\ call[c].todo = {} /\ call[c].pending = {}
    /\ call' = IF U(c) \in Members
                 THEN [call EXCEPT ![c] = Marking(c, call[c].eligible)]
                 ELSE [call EXCEPT ![c] = Idle]
    /\ UNCHANGED << insight, conversation, found, read, shown, disturbed >>

\* markRead, one insight after the other; a second one changes nothing.
MarkRead(c) ==
    LET i == Lowest(call[c].todo) IN
    /\ At(c, "mark")
    /\ read' = [read EXCEPT ![U(c)] = @ \cup {i}]
    /\ call' = IF call[c].todo = {i} THEN [call EXCEPT ![c] = Idle]
                                     ELSE [call EXCEPT ![c].todo = @ \ {i}]
    /\ UNCHANGED << insight, conversation, found, shown, disturbed >>

\* A statement fails, also because the conversation is gone, or the process dies.  A
\* message of several insights may be left without its links.
Abandon(c) ==
    /\ ~ At(c, "idle")
    /\ call' = [call EXCEPT ![c] = Idle]
    /\ disturbed' = IF At(c, "link") THEN disturbed \cup {U(c)} ELSE disturbed
    /\ UNCHANGED << insight, conversation, found, read, shown >>

\* Mutant: messages stay when their conversation is deleted.
DeleteKeepingMessages(u, k) ==
    /\ k \in conversation[u]
    /\ conversation' = [conversation EXCEPT ![u] = @ \ {k}]
    /\ disturbed' = disturbed \cup {u}
    /\ UNCHANGED << insight, found, read, call, shown >>

\* The messages of a conversation and their links go with it.
DeleteConversation(u, k) ==
    /\ k \in conversation[u]
    /\ conversation' = [conversation EXCEPT ![u] = @ \ {k}]
    /\ found' = [found EXCEPT ![u][k] = {}]
    /\ disturbed' = disturbed \cup {u}
    /\ UNCHANGED << insight, read, call, shown >>

-----------------------------------------------------------------------------

PresentStep(c) ==
    \/ ChooseConversation(c) \/ LookForMessage(c) \/ CreateMessage(c)
    \/ LinkInsights(c) \/ Written(c) \/ MarkRead(c)

InsightStep == InsightNext /\ UNCHANGED << conversation, found, read, call, shown, disturbed >>

Next ==
    \/ InsightStep
    \/ \E c \in Calls : PresentStep(c) \/ Abandon(c) \/ \E u \in Users : Present(c, u)
    \/ \E u \in Users, k \in Conversations : DeleteConversation(u, k)

Spec == Init /\ [][Next]_vars

-----------------------------------------------------------------------------
(* What the delivery promises *)

\* Nobody's insight is read before a message has presented it to him, nor by an operator,
\* and messages present what is narrated: one narrated while a request is under way, after
\* the request looked for what is unread, stays unread.
ReadWasShown ==
    \A u \in Users :
        /\ read[u] \subseteq IF u \in Members THEN shown[u] ELSE {}
        /\ \A i \in shown[u] : \E x \in Texts : insight[i] = Narrated(x)

\* No insight is presented to a user twice, whatever was left unread by a request that
\* stopped, unless his requests overlapped, one stopped before it had linked its message,
\* or he deleted a conversation.
PresentedOnce ==
    [][\A c \in Calls :
          At(c, "write") /\ call'[c].pc = "link" /\ U(c) \notin disturbed
             => call'[c].group \cap shown[U(c)] = {}]_vars
=============================================================================
