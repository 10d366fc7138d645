------------------------ MODULE ProactiveDeliveryProofs ------------------------
(***************************************************************************)
(* What holds of ProactiveDelivery for any insights, users, conversations  *)
(* and calls.                                                              *)
(***************************************************************************)
EXTENDS ProactiveDelivery, WellFoundedInduction, TLAPS

-----------------------------------------------------------------------------
(* The inductive invariant *)

IsNarrated(i) == \E x \in Texts : insight[i] = Narrated(x)

\* What a request's data are at each of its steps ...
CallOK(row) ==
    /\ row \in CallRow
    /\ IF row.pc = "idle" THEN row.user = NoUser ELSE row.user \in Users
    /\ row.pc \in {"write", "link"} => row.conversation \in Conversations
    /\ row.pc \in {"conversation", "write", "link"} =>
          row.eligible # {} /\ row.todo \cup row.pending \subseteq row.eligible
    /\ row.pc = "conversation" => row.todo = {} /\ row.pending = {}
    /\ row.pc = "link" => row.group # {} /\ row.group \subseteq row.pending /\ row.todo = {}
    /\ row.pc # "link" => row.group = {}
    /\ row.pc = "mark" => row.user \in Members /\ row.todo # {}

\* ... and what they say of insights and messages: whatever is neither to be looked for
\* nor to be presented has been shown, and nothing else will be marked.
CallReads(row) ==
    /\ row.pc \in {"conversation", "write", "link"} => \A i \in row.eligible : IsNarrated(i)
    /\ row.pc \in {"write", "link"} =>
          row.eligible \subseteq row.todo \cup row.pending \cup shown[row.user]
    /\ row.pc = "link" => row.group \subseteq shown[row.user]
    /\ row.pc = "mark" => row.todo \subseteq shown[row.user]

StateTyped ==
    /\ insight \in [Insights -> InsightRow]
    /\ conversation \in [Users -> SUBSET Conversations]
    /\ found \in [Users -> [Conversations -> SUBSET Insights]]
    /\ read \in [Users -> SUBSET Insights]
    /\ shown \in [Users -> SUBSET Insights]
    /\ disturbed \subseteq Users

NothingWithout ==
    \A u \in Users, k \in Conversations : k \notin conversation[u] => found[u][k] = {}

CallsOK == call \in [Calls -> CallRow] /\ \A c \in Calls : CallOK(call[c])
CallsRead == \A c \in Calls : CallReads(call[c])

FoundWasShown == \A u \in Users, k \in Conversations : found[u][k] \subseteq shown[u]

ReadInvariant ==
    StateTyped /\ NothingWithout /\ CallsOK /\ CallsRead /\ FoundWasShown /\ ReadWasShown

\* A user's only request, as long as nothing has disturbed it, finds whatever was shown
\* before, and has not listed it for a message.
OneEach ==
    \A c, d \in Calls : U(c) \in Users \ disturbed /\ U(d) = U(c) => d = c
ShownIsFound ==
    \A u \in Users \ disturbed : \A i \in shown[u] :
        i \in Found(u) \/ \E c \in Calls : U(c) = u /\ i \in call[c].group
PendingIsNew ==
    \A c \in Calls : call[c].pc \in {"write", "link"} /\ U(c) \notin disturbed =>
        (call[c].pending \ call[c].group) \cap shown[U(c)] = {}

OnceInvariant == OneEach /\ ShownIsFound /\ PendingIsNew

-----------------------------------------------------------------------------
(* Data *)

LEMMA LeastNumber ==
    ASSUME NEW S, S \subseteq Nat, S # {}
    PROVE  \E n \in S : \A m \in S : n <= m
<1>1. PICK n \in S : \A m \in S : ~ (<< m, n >> \in OpToRel(<, Nat))
  BY WFMin, NatLessThanWellFounded, Zenon
<1>2. \A m \in S : m \in Nat /\ n \in Nat /\ ~ (m < n)
  BY <1>1 DEF OpToRel
<1> QED BY <1>2

LEMMA LowestIn ==
    ASSUME NEW S \in SUBSET Insights, S # {}
    PROVE  Lowest(S) \in S
BY LeastNumber, DeliveryAssumption DEF Lowest

LEMMA GroupIsPending ==
    ASSUME NEW c \in Calls, call[c].pending \in SUBSET Insights, call[c].pending # {}
    PROVE  NextGroup(c) # {} /\ NextGroup(c) \subseteq call[c].pending
BY LowestIn DEF NextGroup

LEMMA IdleOK == CallOK(Idle) /\ Idle.pc = "idle" /\ Idle.user = NoUser /\ Idle.group = {}
BY DeliveryAssumption DEF CallOK, Idle, CallRow

LEMMA OneCall ==
    ASSUME CallsOK, NEW c \in Calls, NEW row, CallOK(row), call' = [call EXCEPT ![c] = row]
    PROVE  CallsOK' /\ call'[c] = row /\ \A d \in Calls : d # c => call'[d] = call[d]
<1>1. row \in CallRow
  BY DEF CallOK
<1>2. /\ call' \in [Calls -> CallRow]
      /\ call'[c] = row /\ \A d \in Calls : d # c => call'[d] = call[d]
  BY <1>1 DEF CallsOK
<1> QED BY <1>2 DEF CallsOK, CallOK

\* Each step, as what it does to the row of its call.
StartRow(c, u) ==
    /\ call'[c].pc = "conversation" /\ call'[c].user = u
    /\ call'[c].eligible = Unread(u)
ChosenRow(c) ==
    /\ call'[c].pc = "write" /\ call'[c].user = U(c)
    /\ call'[c].eligible = call[c].eligible /\ call'[c].todo = call[c].eligible
    /\ call'[c].pending = {}
LookedRow(c, i) ==
    /\ call'[c].pc = "write" /\ call'[c].user = U(c)
    /\ call'[c].eligible = call[c].eligible /\ call'[c].todo = call[c].todo \ {i}
    /\ call'[c].pending = IF i \in Found(U(c)) THEN call[c].pending ELSE call[c].pending \cup {i}
CreatedRow(c) ==
    /\ call'[c].pc = "link" /\ call'[c].user = U(c)
    /\ call'[c].eligible = call[c].eligible /\ call'[c].todo = {}
    /\ call'[c].pending = call[c].pending /\ call'[c].group = NextGroup(c)
LinkedRow(c) ==
    /\ call'[c].pc = "write" /\ call'[c].user = U(c)
    /\ call'[c].eligible = call[c].eligible /\ call'[c].todo = {}
    /\ call'[c].pending = call[c].pending \ call[c].group /\ call'[c].group = {}
MarkingRow(c, S) ==
    /\ call'[c].pc = "mark" /\ call'[c].user = U(c) /\ U(c) \in Members
    /\ call'[c].todo = S /\ call'[c].group = {}

OnlyCall(c) == CallsOK' /\ \A d \in Calls : d # c => call'[d] = call[d]

LEMMA Stopping ==
    ASSUME CallsOK, NEW c \in Calls, call' = [call EXCEPT ![c] = Idle]
    PROVE  OnlyCall(c) /\ call'[c].pc = "idle" /\ call'[c].user = NoUser /\ call'[c].group = {}
BY IdleOK, OneCall DEF OnlyCall

LEMMA Starting ==
    ASSUME CallsOK, NEW c \in Calls, NEW u \in Users, Present(c, u)
    PROVE  OnlyCall(c) /\ StartRow(c, u) /\ At(c, "idle") /\ call'[c].group = {}
<1> DEFINE row == [Idle EXCEPT !.pc = "conversation", !.user = u, !.eligible = Unread(u)]
<1>1. Unread(u) \subseteq Insights /\ Unread(u) # {}
  BY DEF Present, Unread
<1>2. /\ row.pc = "conversation" /\ row.user = u /\ row.eligible = Unread(u)
      /\ row.todo = {} /\ row.pending = {} /\ row.group = {}
      /\ row \in CallRow
  BY <1>1 DEF Idle, CallRow
<1>3. call' = [call EXCEPT ![c] = row]
  BY DEF Present
<1> HIDE DEF row
<1>4. CallOK(row)
  BY <1>1, <1>2 DEF CallOK
<1> QED BY <1>2, <1>3, <1>4, OneCall DEF OnlyCall, StartRow, Present

LEMMA Choosing ==
    ASSUME CallsOK, NEW c \in Calls, ChooseConversation(c)
    PROVE  OnlyCall(c) /\ ChosenRow(c) /\ At(c, "conversation")
<1>0. At(c, "conversation") /\ call[c] \in CallRow /\ CallOK(call[c])
  BY DEF CallsOK, ChooseConversation
<1>1. PICK k \in Conversations :
         call' = [call EXCEPT ![c].pc = "write", ![c].conversation = k,
                              ![c].todo = call[c].eligible]
  BY DEF ChooseConversation
<1> DEFINE row == [call[c] EXCEPT !.pc = "write", !.conversation = k, !.todo = call[c].eligible]
<1>2. /\ row.pc = "write" /\ row.user = U(c) /\ row.eligible = call[c].eligible
      /\ row.todo = call[c].eligible /\ row.pending = call[c].pending
      /\ row.group = call[c].group /\ row.conversation = k
      /\ row \in CallRow
  BY <1>0 DEF CallRow, U
<1>3. call' = [call EXCEPT ![c] = row]
  BY <1>0, <1>1 DEF CallsOK
<1> HIDE DEF row
<1>4. CallOK(row)
  BY <1>0, <1>2 DEF CallOK, At, U
<1>5. call[c].pending = {}
  BY <1>0 DEF CallOK, At
<1> QED BY <1>0, <1>2, <1>3, <1>4, <1>5, OneCall DEF OnlyCall, ChosenRow

LEMMA Looking ==
    ASSUME CallsOK, NEW c \in Calls, LookForMessage(c)
    PROVE  /\ OnlyCall(c) /\ LookedRow(c, Lowest(call[c].todo)) /\ At(c, "write")
           /\ Lowest(call[c].todo) \in call[c].todo
<1> DEFINE i == Lowest(call[c].todo)
           pending == IF i \in Found(U(c)) THEN call[c].pending ELSE call[c].pending \cup {i}
           row == [call[c] EXCEPT !.todo = @ \ {i}, !.pending = pending]
<1>0. /\ At(c, "write") /\ call[c].todo # {}
      /\ call[c] \in CallRow /\ CallOK(call[c])
  BY DEF CallsOK, LookForMessage
<1>1. i \in call[c].todo
  <2>1. call[c].todo \in SUBSET Insights
    BY <1>0 DEF CallRow
  <2> QED BY <1>0, <2>1, LowestIn
<1>2. call' = [call EXCEPT ![c] = row]
  BY <1>0 DEF LookForMessage, CallsOK
<1> HIDE DEF i
<1>3. pending \subseteq call[c].pending \cup {i} /\ pending \subseteq Insights
  BY <1>0, <1>1 DEF CallRow
<1>4. pending = IF i \in Found(U(c)) THEN call[c].pending ELSE call[c].pending \cup {i}
  OBVIOUS
<1> HIDE DEF pending
<1>5. /\ row.pc = call[c].pc /\ row.user = U(c) /\ row.eligible = call[c].eligible
      /\ row.todo = call[c].todo \ {i} /\ row.pending = pending
      /\ row.group = call[c].group /\ row.conversation = call[c].conversation
      /\ row \in CallRow
  BY <1>0, <1>3 DEF CallRow, U
<1> HIDE DEF row
<1>6. CallOK(row)
  <2>1. /\ call[c].pc = "write" /\ U(c) \in Users /\ call[c].conversation \in Conversations
        /\ call[c].eligible # {} /\ call[c].group = {}
        /\ call[c].todo \subseteq call[c].eligible /\ call[c].pending \subseteq call[c].eligible
    BY <1>0 DEF CallOK, At, U
  <2>2. row.todo \cup row.pending \subseteq row.eligible
    BY <1>1, <1>3, <1>5, <2>1
  <2> QED BY <1>5, <2>1, <2>2 DEF CallOK
<1>7. OnlyCall(c) /\ call'[c] = row
  BY <1>2, <1>6, OneCall DEF OnlyCall
<1>8. LookedRow(c, i)
  BY <1>0, <1>4, <1>5, <1>7 DEF LookedRow, At
<1> QED BY <1>0, <1>1, <1>7, <1>8 DEF i

LEMMA Creating ==
    ASSUME CallsOK, NEW c \in Calls, CreateMessage(c)
    PROVE  /\ OnlyCall(c) /\ CreatedRow(c) /\ At(c, "write") /\ call[c].todo = {}
           /\ NextGroup(c) # {} /\ NextGroup(c) \subseteq call[c].pending
<1> DEFINE group == NextGroup(c)
           row == [call[c] EXCEPT !.pc = "link", !.group = group]
<1>0. /\ At(c, "write") /\ call[c].todo = {} /\ call[c].pending # {}
      /\ call[c] \in CallRow /\ CallOK(call[c])
  BY DEF CallsOK, CreateMessage
<1>1. group # {} /\ group \subseteq call[c].pending
  BY <1>0, GroupIsPending DEF CallRow
<1>2. call' = [call EXCEPT ![c] = row]
  BY <1>0 DEF CreateMessage, CallsOK
<1> HIDE DEF group
<1>3. /\ row.pc = "link" /\ row.user = U(c) /\ row.eligible = call[c].eligible
      /\ row.todo = {} /\ row.pending = call[c].pending
      /\ row.group = group /\ row.conversation = call[c].conversation
      /\ row \in CallRow
  BY <1>0, <1>1 DEF CallRow, U
<1> HIDE DEF row
<1>4. CallOK(row)
  BY <1>0, <1>1, <1>3 DEF CallOK, At, U
<1>5. OnlyCall(c) /\ call'[c] = row
  BY <1>2, <1>4, OneCall DEF OnlyCall
<1> QED BY <1>0, <1>1, <1>3, <1>5 DEF CreatedRow, group

LEMMA Linking ==
    ASSUME CallsOK, NEW c \in Calls, LinkInsights(c)
    PROVE  OnlyCall(c) /\ LinkedRow(c) /\ At(c, "link")
<1> DEFINE row == [call[c] EXCEPT !.pc = "write", !.group = {}, !.pending = @ \ call[c].group]
<1>0. At(c, "link") /\ call[c] \in CallRow /\ CallOK(call[c])
  BY DEF CallsOK, LinkInsights
<1>1. call' = [call EXCEPT ![c] = row]
  BY <1>0 DEF LinkInsights, CallsOK
<1>2. /\ row.pc = "write" /\ row.user = U(c) /\ row.eligible = call[c].eligible
      /\ row.todo = call[c].todo /\ row.pending = call[c].pending \ call[c].group
      /\ row.group = {} /\ row.conversation = call[c].conversation
      /\ row \in CallRow
  BY <1>0 DEF CallRow, U
<1>3. call[c].todo = {}
  BY <1>0 DEF CallOK, At
<1> HIDE DEF row
<1>4. CallOK(row)
  BY <1>0, <1>2 DEF CallOK, At, U
<1> QED BY <1>0, <1>1, <1>2, <1>3, <1>4, OneCall DEF OnlyCall, LinkedRow

LEMMA MarkingOK ==
    ASSUME NEW c \in Calls, U(c) \in Members, NEW S \in SUBSET Insights, S # {}
    PROVE  /\ CallOK(Marking(c, S))
           /\ Marking(c, S).pc = "mark" /\ Marking(c, S).user = U(c)
           /\ Marking(c, S).todo = S /\ Marking(c, S).group = {}
<1>1. /\ Marking(c, S).pc = "mark" /\ Marking(c, S).user = U(c)
      /\ Marking(c, S).todo = S /\ Marking(c, S).group = {}
      /\ Marking(c, S) \in CallRow
  BY DeliveryAssumption DEF Marking, Idle, CallRow
<1> QED BY <1>1, DeliveryAssumption DEF CallOK

LEMMA Writing ==
    ASSUME CallsOK, NEW c \in Calls, Written(c)
    PROVE  /\ OnlyCall(c) /\ At(c, "write") /\ call[c].todo = {} /\ call[c].pending = {}
           /\ MarkingRow(c, call[c].eligible) \/ call' = [call EXCEPT ![c] = Idle]
<1>0. /\ At(c, "write") /\ call[c].todo = {} /\ call[c].pending = {}
      /\ call[c] \in CallRow /\ CallOK(call[c])
  BY DEF CallsOK, Written
<1>1. CASE U(c) \in Members
  <2>1. call[c].eligible \in SUBSET Insights /\ call[c].eligible # {}
    BY <1>0 DEF CallRow, CallOK, At
  <2> DEFINE row == Marking(c, call[c].eligible)
  <2>2. call' = [call EXCEPT ![c] = row]
    BY <1>1 DEF Written
  <2>3. /\ CallOK(row) /\ row.pc = "mark" /\ row.user = U(c)
        /\ row.todo = call[c].eligible /\ row.group = {}
    BY <1>1, <2>1, MarkingOK
  <2> HIDE DEF row
  <2>4. OnlyCall(c) /\ call'[c] = row
    BY <2>2, <2>3, OneCall DEF OnlyCall
  <2> QED BY <1>0, <1>1, <2>3, <2>4 DEF MarkingRow
<1>2. CASE U(c) \notin Members
  BY <1>0, <1>2, Stopping DEF Written
<1> QED BY <1>1, <1>2

LEMMA MarkingRead ==
    ASSUME CallsOK, NEW c \in Calls, MarkRead(c)
    PROVE  /\ OnlyCall(c) /\ At(c, "mark") /\ U(c) \in Members
           /\ Lowest(call[c].todo) \in call[c].todo
           /\ MarkingRow(c, call[c].todo \ {Lowest(call[c].todo)})
              \/ call' = [call EXCEPT ![c] = Idle]
<1> DEFINE i == Lowest(call[c].todo)
           row == [call[c] EXCEPT !.todo = @ \ {i}]
<1>0. At(c, "mark") /\ call[c] \in CallRow /\ CallOK(call[c])
  BY DEF CallsOK, MarkRead
<1>1. U(c) \in Members /\ call[c].todo # {} /\ call[c].todo \in SUBSET Insights
      /\ call[c].group = {}
  BY <1>0 DEF CallOK, At, U, CallRow
<1>2. i \in call[c].todo
  BY <1>1, LowestIn
<1>3. CASE call[c].todo = {i}
  BY <1>0, <1>1, <1>2, <1>3, Stopping DEF MarkRead
<1>4. CASE call[c].todo # {i}
  <2>1. call' = [call EXCEPT ![c] = row]
    BY <1>0, <1>4 DEF MarkRead, CallsOK
  <2>2. call[c].todo \ {i} # {}
    BY <1>1, <1>4
  <2> HIDE DEF i
  <2>3. /\ row.pc = "mark" /\ row.user = U(c) /\ row.todo = call[c].todo \ {i}
        /\ row.group = call[c].group /\ row \in CallRow
    BY <1>0 DEF CallRow, U, At
  <2> HIDE DEF row
  <2>4. CallOK(row)
    BY <1>0, <1>1, <2>2, <2>3 DEF CallOK, At, U
  <2>5. OnlyCall(c) /\ MarkingRow(c, call[c].todo \ {i})
    BY <1>1, <2>1, <2>3, <2>4, OneCall DEF OnlyCall, MarkingRow
  <2> QED BY <1>0, <1>1, <1>2, <2>5 DEF i
<1> QED BY <1>3, <1>4

-----------------------------------------------------------------------------
(* Reading only what was shown *)

\* What was shown stays so, and what is narrated is final.
Monotone ==
    /\ \A u \in Users : shown[u] \subseteq shown'[u]
    /\ \A i \in Insights : IsNarrated(i) => IsNarrated(i)'

LEMMA OthersRead ==
    ASSUME CallsOK, CallsRead, Monotone, NEW c \in Calls, OnlyCall(c), CallReads(call[c])'
    PROVE  CallsRead'
<1> SUFFICES ASSUME NEW d \in Calls, d # c
             PROVE  CallReads(call[d])'
  BY DEF CallsRead
<1>1. call'[d] = call[d] /\ CallReads(call[d])
  BY DEF OnlyCall, CallsRead
<1>2. CallOK(call[d]) /\ call[d].eligible \subseteq Insights
  BY DEF CallsOK, CallRow
<1>3. call[d].pc # "idle" => shown[call[d].user] \subseteq shown'[call[d].user]
  BY <1>2 DEF CallOK, Monotone
<1>4. \A i \in call[d].eligible : IsNarrated(i) => IsNarrated(i)'
  BY <1>2 DEF Monotone
<1> QED BY <1>1, <1>3, <1>4 DEF CallReads

LEMMA NothingChanges ==
    ASSUME UNCHANGED << insight, shown >>
    PROVE  Monotone
BY DEF Monotone, IsNarrated

LinkStep(u, k, S) == found' = [found EXCEPT ![u][k] = @ \cup S]

LEMMA CallData ==
    ASSUME CallsOK, NEW c \in Calls, call[c].pc # "idle"
    PROVE  /\ U(c) \in Users
           /\ call[c].eligible \in SUBSET Insights /\ call[c].todo \in SUBSET Insights
           /\ call[c].pending \in SUBSET Insights /\ call[c].group \in SUBSET Insights
           /\ call[c].pc \in {"write", "link"} => Conv(c) \in Conversations
BY DEF CallsOK, CallOK, CallRow, U, Conv

LEMMA ReadByPresenting ==
    ASSUME ReadInvariant, NEW c \in Calls, NEW u \in Users, Present(c, u)
    PROVE  ReadInvariant'
<1> USE DEF ReadInvariant
<1>1. OnlyCall(c) /\ StartRow(c, u)
  BY Starting
<1>2. UNCHANGED << insight, conversation, found, read, shown >> /\ disturbed' \subseteq Users
  BY DEF Present, StateTyped
<1>3. CallReads(call[c])'
  BY <1>1, <1>2 DEF CallReads, StartRow, Unread, IsNarrated
<1>4. CallsRead'
  BY <1>1, <1>2, <1>3, NothingChanges, OthersRead
<1> QED BY <1>1, <1>2, <1>4 DEF StateTyped, NothingWithout, FoundWasShown, ReadWasShown, OnlyCall

LEMMA ReadByChoosing ==
    ASSUME ReadInvariant, NEW c \in Calls, ChooseConversation(c)
    PROVE  ReadInvariant'
<1> USE DEF ReadInvariant
<1>1. OnlyCall(c) /\ ChosenRow(c) /\ At(c, "conversation")
  BY Choosing
<1>2. UNCHANGED << insight, found, read, shown, disturbed >>
  BY DEF ChooseConversation
<1>3. CallReads(call[c])'
  BY <1>1, <1>2 DEF CallReads, ChosenRow, CallsRead, At, IsNarrated
<1>4. CallsRead'
  BY <1>1, <1>2, <1>3, NothingChanges, OthersRead
<1>5. U(c) \in Users
  BY <1>1, CallData DEF At
<1>6. PICK k \in Conversations : conversation' = [conversation EXCEPT ![U(c)] = @ \cup {k}]
  BY DEF ChooseConversation
<1>7. /\ conversation' \in [Users -> SUBSET Conversations]
      /\ \A u \in Users : conversation[u] \subseteq conversation'[u]
  BY <1>5, <1>6 DEF StateTyped
<1> QED BY <1>1, <1>2, <1>4, <1>7
        DEF StateTyped, NothingWithout, FoundWasShown, ReadWasShown, OnlyCall

LEMMA ReadByLooking ==
    ASSUME ReadInvariant, NEW c \in Calls, LookForMessage(c)
    PROVE  ReadInvariant'
<1> USE DEF ReadInvariant
<1> DEFINE i == Lowest(call[c].todo)
<1>1. OnlyCall(c) /\ LookedRow(c, i) /\ At(c, "write") /\ i \in call[c].todo
  BY Looking
<1>2. UNCHANGED << insight, conversation, found, read, shown, disturbed >>
  BY DEF LookForMessage
<1>3. U(c) \in Users
  BY <1>1, CallData DEF At
<1> HIDE DEF i
<1>4. i \in Found(U(c)) => i \in shown[U(c)]
  BY <1>3 DEF Found, FoundWasShown
<1>5. /\ \A j \in call[c].eligible : IsNarrated(j)
      /\ call[c].eligible \subseteq call[c].todo \cup call[c].pending \cup shown[U(c)]
  BY <1>1 DEF CallsRead, CallReads, At, U
<1>6. CallReads(call[c])'
  BY <1>1, <1>2, <1>4, <1>5 DEF CallReads, LookedRow, IsNarrated
<1>7. CallsRead'
  BY <1>1, <1>2, <1>6, NothingChanges, OthersRead
<1> QED BY <1>1, <1>2, <1>7 DEF StateTyped, NothingWithout, FoundWasShown, ReadWasShown, OnlyCall

\* Linking a message of this user: what it links was shown to him.
LEMMA LinkingKeeps ==
    ASSUME StateTyped, NothingWithout, FoundWasShown, NEW u \in Users, NEW k \in conversation[u],
           NEW S \in SUBSET Insights, LinkStep(u, k, S),
           S \subseteq shown'[u], \A v \in Users : shown[v] \subseteq shown'[v],
           UNCHANGED conversation
    PROVE  /\ found' \in [Users -> [Conversations -> SUBSET Insights]]
           /\ NothingWithout' /\ FoundWasShown'
<1>1. k \in Conversations
  BY DEF StateTyped
<1>2. /\ found' \in [Users -> [Conversations -> SUBSET Insights]]
      /\ \A v \in Users, l \in Conversations :
            found'[v][l] = IF v = u /\ l = k THEN found[u][k] \cup S ELSE found[v][l]
  BY <1>1 DEF StateTyped, LinkStep
<1>3. NothingWithout'
  BY <1>2 DEF NothingWithout
<1>4. FoundWasShown'
  BY <1>2 DEF FoundWasShown
<1> QED BY <1>2, <1>3, <1>4

LEMMA ReadByCreating ==
    ASSUME ReadInvariant, NEW c \in Calls, CreateMessage(c)
    PROVE  ReadInvariant'
<1> USE DEF ReadInvariant
<1> DEFINE group == NextGroup(c)
           S == {Lowest(group)}
<1>1. /\ OnlyCall(c) /\ CreatedRow(c) /\ At(c, "write") /\ call[c].todo = {}
      /\ group # {} /\ group \subseteq call[c].pending
  BY Creating
<1>2. /\ UNCHANGED << insight, conversation, read, disturbed >>
      /\ shown' = [shown EXCEPT ![U(c)] = @ \cup group]
      /\ LinkStep(U(c), Conv(c), S)
      /\ Conv(c) \in conversation[U(c)]
  BY DEF CreateMessage, Links, Exists, LinkStep
<1>3. /\ U(c) \in Users /\ call[c].pending \in SUBSET Insights
      /\ CallOK(call[c]) /\ call[c].pending \subseteq call[c].eligible
  BY <1>1, CallData DEF At, CallsOK, CallOK
<1>4. Lowest(group) \in group
  BY <1>1, <1>3, LowestIn
<1>5. S \subseteq group /\ S \in SUBSET Insights
  BY <1>1, <1>3, <1>4
<1>6. CreatedRow(c) => call'[c].group = group
  BY DEF CreatedRow
<1> HIDE DEF group, S
<1>7. /\ shown' \in [Users -> SUBSET Insights]
      /\ \A u \in Users : shown'[u] = IF u = U(c) THEN shown[u] \cup group ELSE shown[u]
  BY <1>1, <1>2, <1>3 DEF StateTyped
<1>8. \A i \in Insights : IsNarrated(i) => IsNarrated(i)'
  BY <1>2 DEF IsNarrated
<1>9. Monotone
  BY <1>7, <1>8 DEF Monotone
<1>10. /\ \A i \in call[c].eligible : IsNarrated(i)
       /\ call[c].eligible \subseteq call[c].todo \cup call[c].pending \cup shown[U(c)]
  BY <1>1 DEF CallsRead, CallReads, At, U
<1>11. CallReads(call[c])'
  <2>1. \A i \in call[c].eligible : IsNarrated(i)'
    BY <1>2, <1>10 DEF IsNarrated
  <2> QED BY <1>1, <1>3, <1>6, <1>7, <1>10, <2>1 DEF CallReads, CreatedRow
<1>12. CallsRead'
  BY <1>1, <1>9, <1>11, OthersRead
<1>13. /\ found' \in [Users -> [Conversations -> SUBSET Insights]]
       /\ NothingWithout' /\ FoundWasShown'
  BY <1>2, <1>3, <1>5, <1>7, LinkingKeeps
<1>14. ReadWasShown'
  <2>1. \A u \in Users : \A i \in shown'[u] : IsNarrated(i)
    BY <1>1, <1>3, <1>7, <1>10 DEF ReadWasShown, IsNarrated
  <2> QED BY <1>2, <1>7, <2>1 DEF ReadWasShown, IsNarrated
<1> QED BY <1>1, <1>2, <1>7, <1>12, <1>13, <1>14 DEF StateTyped, OnlyCall

LEMMA ReadByLinking ==
    ASSUME ReadInvariant, NEW c \in Calls, LinkInsights(c)
    PROVE  ReadInvariant'
<1> USE DEF ReadInvariant
<1>1. OnlyCall(c) /\ LinkedRow(c) /\ At(c, "link")
  BY Linking
<1>2. /\ UNCHANGED << insight, conversation, read, shown, disturbed >>
      /\ LinkStep(U(c), Conv(c), call[c].group)
      /\ Conv(c) \in conversation[U(c)]
  BY DEF LinkInsights, Links, Exists, LinkStep
<1>3. U(c) \in Users /\ call[c].group \in SUBSET Insights
  BY <1>1, CallData DEF At
<1>4. /\ \A i \in call[c].eligible : IsNarrated(i)
      /\ call[c].eligible \subseteq call[c].todo \cup call[c].pending \cup shown[U(c)]
      /\ call[c].group \subseteq shown[U(c)]
      /\ call[c].todo = {}
  BY <1>1 DEF CallsRead, CallReads, CallsOK, CallOK, At, U
<1>5. CallReads(call[c])'
  BY <1>1, <1>2, <1>4 DEF CallReads, LinkedRow, IsNarrated
<1>6. CallsRead'
  BY <1>1, <1>2, <1>5, NothingChanges, OthersRead
<1>7. /\ found' \in [Users -> [Conversations -> SUBSET Insights]]
      /\ NothingWithout' /\ FoundWasShown'
  BY <1>2, <1>3, <1>4, LinkingKeeps
<1> QED BY <1>1, <1>2, <1>6, <1>7 DEF StateTyped, ReadWasShown, OnlyCall

LEMMA ReadByStopping ==
    ASSUME ReadInvariant, NEW c \in Calls, call' = [call EXCEPT ![c] = Idle],
           UNCHANGED << insight, conversation, found, shown >>, StateTyped', ReadWasShown'
    PROVE  ReadInvariant'
<1> USE DEF ReadInvariant
<1>1. OnlyCall(c) /\ call'[c].pc = "idle"
  BY Stopping
<1>2. CallReads(call[c])'
  BY <1>1 DEF CallReads
<1>3. CallsRead'
  BY <1>1, <1>2, NothingChanges, OthersRead
<1> QED BY <1>1, <1>3 DEF NothingWithout, FoundWasShown, OnlyCall

LEMMA ReadByMarking ==
    ASSUME ReadInvariant, NEW c \in Calls, NEW S, OnlyCall(c), MarkingRow(c, S),
           S \subseteq shown[U(c)],
           UNCHANGED << insight, conversation, found, shown >>, StateTyped', ReadWasShown'
    PROVE  ReadInvariant'
<1> USE DEF ReadInvariant
<1>1. CallReads(call[c])'
  BY DEF CallReads, MarkingRow
<1>2. CallsRead'
  BY <1>1, NothingChanges, OthersRead
<1> QED BY <1>2 DEF NothingWithout, FoundWasShown, OnlyCall

LEMMA ReadByWriting ==
    ASSUME ReadInvariant, NEW c \in Calls, Written(c)
    PROVE  ReadInvariant'
<1>1. UNCHANGED << insight, conversation, found, read, shown, disturbed >>
  BY DEF Written
<1>2. StateTyped' /\ ReadWasShown'
  BY <1>1 DEF ReadInvariant, StateTyped, ReadWasShown
<1>3. CallsOK
  BY DEF ReadInvariant
<1>4. /\ OnlyCall(c) /\ At(c, "write") /\ call[c].todo = {} /\ call[c].pending = {}
      /\ MarkingRow(c, call[c].eligible) \/ call' = [call EXCEPT ![c] = Idle]
  BY <1>3, Writing
<1>5. call[c].eligible \subseteq shown[U(c)]
  BY <1>4 DEF ReadInvariant, CallsRead, CallReads, At, U
<1> QED BY <1>1, <1>2, <1>4, <1>5, ReadByMarking, ReadByStopping

LEMMA ReadByMarkRead ==
    ASSUME ReadInvariant, NEW c \in Calls, MarkRead(c)
    PROVE  ReadInvariant'
<1> DEFINE i == Lowest(call[c].todo)
<1>1. CallsOK /\ StateTyped
  BY DEF ReadInvariant
<1>2. /\ OnlyCall(c) /\ At(c, "mark") /\ U(c) \in Members /\ i \in call[c].todo
      /\ MarkingRow(c, call[c].todo \ {i}) \/ call' = [call EXCEPT ![c] = Idle]
  BY <1>1, MarkingRead
<1>3. /\ UNCHANGED << insight, conversation, found, shown, disturbed >>
      /\ read' = [read EXCEPT ![U(c)] = @ \cup {i}]
  BY DEF MarkRead
<1> HIDE DEF i
<1>4. U(c) \in Users /\ call[c].todo \subseteq Insights /\ call[c].todo \subseteq shown[U(c)]
  BY <1>1, <1>2, CallData DEF At, ReadInvariant, CallsRead, CallReads, U
<1>5. /\ read' \in [Users -> SUBSET Insights]
      /\ \A u \in Users : read'[u] = IF u = U(c) THEN read[u] \cup {i} ELSE read[u]
  BY <1>1, <1>2, <1>3, <1>4 DEF StateTyped
<1>6. StateTyped'
  BY <1>1, <1>3, <1>5 DEF StateTyped
<1>7. ReadWasShown'
  BY <1>2, <1>3, <1>4, <1>5 DEF ReadInvariant, ReadWasShown
<1>8. call[c].todo \ {i} \subseteq shown[U(c)]
  BY <1>4
<1> QED BY <1>2, <1>3, <1>6, <1>7, <1>8, ReadByMarking, ReadByStopping

LEMMA ReadByAbandoning ==
    ASSUME ReadInvariant, NEW c \in Calls, Abandon(c)
    PROVE  ReadInvariant'
<1>1. /\ UNCHANGED << insight, conversation, found, read, shown >>
      /\ call' = [call EXCEPT ![c] = Idle]
  BY DEF Abandon
<1>2. disturbed' \subseteq Users
  <2>1. CallsOK /\ disturbed \subseteq Users
    BY DEF ReadInvariant, StateTyped
  <2>2. U(c) \in Users
    BY <2>1, CallData DEF Abandon, At
  <2> QED BY <2>1, <2>2 DEF Abandon
<1>3. StateTyped' /\ ReadWasShown'
  BY <1>1, <1>2 DEF ReadInvariant, StateTyped, ReadWasShown
<1> QED BY <1>1, <1>3, ReadByStopping

LEMMA ReadByDeleting ==
    ASSUME ReadInvariant, NEW u \in Users, NEW k \in Conversations, DeleteConversation(u, k)
    PROVE  ReadInvariant'
<1> USE DEF ReadInvariant
<1>1. /\ UNCHANGED << insight, read, call, shown >>
      /\ conversation' = [conversation EXCEPT ![u] = @ \ {k}]
      /\ found' = [found EXCEPT ![u][k] = {}]
      /\ disturbed' = disturbed \cup {u}
  BY DEF DeleteConversation
<1>2. /\ conversation' \in [Users -> SUBSET Conversations]
      /\ \A v \in Users : conversation'[v] = IF v = u THEN conversation[v] \ {k} ELSE conversation[v]
  BY <1>1 DEF StateTyped
<1>3. /\ found' \in [Users -> [Conversations -> SUBSET Insights]]
      /\ \A v \in Users, l \in Conversations :
            found'[v][l] = IF v = u /\ l = k THEN {} ELSE found[v][l]
  BY <1>1 DEF StateTyped
<1>4. StateTyped'
  BY <1>1, <1>2, <1>3 DEF StateTyped
<1>5. NothingWithout' /\ FoundWasShown'
  BY <1>1, <1>2, <1>3 DEF NothingWithout, FoundWasShown
<1>6. CallsOK' /\ CallsRead' /\ ReadWasShown'
  BY <1>1 DEF CallsOK, CallsRead, CallReads, ReadWasShown, IsNarrated
<1> QED BY <1>4, <1>5, <1>6

LEMMA ReadByInsights ==
    ASSUME ReadInvariant, InsightStep
    PROVE  ReadInvariant'
<1> USE DEF ReadInvariant
<1>1. UNCHANGED << conversation, found, read, call, shown, disturbed >> /\ InsightNext
  BY DEF InsightStep
<1>2. ASSUME NEW i \in Insights, NEW row \in InsightRow, ~ IsNarrated(i),
             insight' = [insight EXCEPT ![i] = row]
      PROVE  insight' \in [Insights -> InsightRow] /\ Monotone
  BY <1>1, <1>2 DEF StateTyped, Monotone, IsNarrated
<1>3. \A i \in Insights : Eligible(i) \/ insight[i] = Undetected => ~ IsNarrated(i)
  <2>1. /\ Undetected.status = "none" /\ Awaiting.status = "AWAITING_NARRATION"
        /\ Failed.status = "NARRATION_FAILED" /\ \A x \in Texts : Narrated(x).status = "NARRATED"
    BY DEF Undetected, Awaiting, Failed, Narrated
  <2> QED BY <2>1 DEF Eligible, IsNarrated
<1>4. Awaiting \in InsightRow /\ Failed \in InsightRow /\ \A x \in Texts : Narrated(x) \in InsightRow
  BY DEF InsightRow
<1>5. insight' \in [Insights -> InsightRow] /\ Monotone
  <2>1. PICK i \in Insights : Detect(i) \/ Fail(i) \/ \E x \in Texts : Narrate(i, x)
    BY <1>1 DEF InsightNext
  <2> QED BY <1>2, <1>3, <1>4, <2>1 DEF Detect, Fail, Narrate
<1>6. StateTyped' /\ NothingWithout' /\ CallsOK' /\ FoundWasShown'
  BY <1>1, <1>5 DEF StateTyped, NothingWithout, CallsOK, FoundWasShown
<1>7. ReadWasShown'
  BY <1>1, <1>5 DEF ReadWasShown, Monotone, IsNarrated, StateTyped
<1>8. CallsRead'
  <2> SUFFICES ASSUME NEW c \in Calls
               PROVE  CallReads(call[c])'
    BY DEF CallsRead
  <2>1. CallReads(call[c]) /\ call[c].eligible \subseteq Insights
    BY DEF CallsRead, CallsOK, CallRow
  <2> QED BY <1>1, <1>5, <2>1 DEF CallReads, Monotone
<1> QED BY <1>6, <1>7, <1>8

LEMMA ReadPreserved == ReadInvariant /\ [Next]_vars => ReadInvariant'
<1> SUFFICES ASSUME ReadInvariant, [Next]_vars
             PROVE  ReadInvariant'
  OBVIOUS
<1>1. CASE UNCHANGED vars
  BY <1>1 DEF ReadInvariant, StateTyped, NothingWithout, CallsOK, CallsRead, CallReads,
              FoundWasShown, ReadWasShown, IsNarrated, vars
<1>2. CASE InsightStep
  BY <1>2, ReadByInsights
<1>3. ASSUME NEW c \in Calls, PresentStep(c)
      PROVE  ReadInvariant'
  BY <1>3, ReadByChoosing, ReadByLooking, ReadByCreating, ReadByLinking, ReadByWriting,
     ReadByMarkRead DEF PresentStep
<1>4. ASSUME NEW c \in Calls, Abandon(c) \/ \E u \in Users : Present(c, u)
      PROVE  ReadInvariant'
  BY <1>4, ReadByAbandoning, ReadByPresenting
<1>5. CASE \E u \in Users, k \in Conversations : DeleteConversation(u, k)
  BY <1>5, ReadByDeleting
<1> QED BY <1>1, <1>2, <1>3, <1>4, <1>5 DEF Next

LEMMA ReadInit == Init => ReadInvariant
<1> SUFFICES ASSUME Init
             PROVE  ReadInvariant
  OBVIOUS
<1>1. Undetected \in InsightRow
  BY DEF InsightRow
<1>2. StateTyped
  BY <1>1 DEF Init, InsightInit, StateTyped
<1>3. CallsOK /\ CallsRead
  BY IdleOK DEF Init, CallsOK, CallsRead, CallReads, CallOK
<1>4. NothingWithout /\ FoundWasShown /\ ReadWasShown
  BY DEF Init, NothingWithout, FoundWasShown, ReadWasShown
<1> QED BY <1>2, <1>3, <1>4 DEF ReadInvariant

LEMMA ReadIsTyped == ReadInvariant => TypeOK
BY DEF ReadInvariant, StateTyped, CallsOK, CallOK, NothingWithout, TypeOK

-----------------------------------------------------------------------------
(* Presenting once *)

\* A step of one request that shows and links nothing.
LEMMA QuietStep ==
    ASSUME ReadInvariant, OnceInvariant, NEW c \in Calls, OnlyCall(c),
           UNCHANGED << found, shown >>, disturbed \subseteq disturbed',
           call'[c].user \in {U(c), NoUser}, call[c].group = {} \/ U(c) \in disturbed',
           call'[c].pc \in {"write", "link"} /\ call'[c].user \notin disturbed' =>
              (call'[c].pending \ call'[c].group) \cap shown[call'[c].user] = {}
    PROVE  OnceInvariant'
<1> USE DEF OnceInvariant
<1>0. /\ \A d \in Calls : d # c => call'[d] = call[d]
      /\ NoUser \notin Users
  BY DeliveryAssumption DEF OnlyCall
<1>1. OneEach'
  BY <1>0 DEF OneEach, U
<1>2. ShownIsFound'
  <2> SUFFICES ASSUME NEW u \in Users \ disturbed', NEW i \in shown[u], i \notin Found(u)
               PROVE  \E d \in Calls : call'[d].user = u /\ i \in call'[d].group
    BY DEF ShownIsFound, Found, U
  <2>1. PICK d \in Calls : U(d) = u /\ i \in call[d].group
    BY DEF ShownIsFound
  <2>2. d # c
    BY <2>1
  <2> QED BY <1>0, <2>1, <2>2 DEF U
<1>3. PendingIsNew'
  BY <1>0 DEF PendingIsNew, U
<1> QED BY <1>1, <1>2, <1>3

LEMMA OnceByPresenting ==
    ASSUME ReadInvariant, OnceInvariant, NEW c \in Calls, NEW u \in Users, Present(c, u)
    PROVE  OnceInvariant'
<1> USE DEF OnceInvariant
<1>1. CallsOK
  BY DEF ReadInvariant
<1>2. OnlyCall(c) /\ StartRow(c, u) /\ At(c, "idle")
  BY <1>1, Starting
<1>3. /\ call[c].group = {} /\ \A d \in Calls : d # c => call'[d] = call[d]
      /\ call'[c].user = u /\ call'[c].pc = "conversation"
      /\ U(c) \notin Users
  BY <1>1, <1>2, DeliveryAssumption DEF OnlyCall, StartRow, At, CallsOK, CallOK, U
<1>4. /\ UNCHANGED << found, shown >> /\ disturbed \subseteq disturbed'
      /\ u \notin disturbed' => \A d \in Calls : U(d) # u
  BY DEF Present
<1>5. OneEach'
  BY <1>3, <1>4 DEF OneEach, U
<1>6. ShownIsFound'
  <2> SUFFICES ASSUME NEW v \in Users \ disturbed', NEW i \in shown[v], i \notin Found(v)
               PROVE  \E d \in Calls : call'[d].user = v /\ i \in call'[d].group
    BY <1>4 DEF ShownIsFound, Found, U
  <2>1. PICK d \in Calls : U(d) = v /\ i \in call[d].group
    BY <1>4 DEF ShownIsFound
  <2> QED BY <1>3, <2>1 DEF U
<1>7. PendingIsNew'
  BY <1>3, <1>4 DEF PendingIsNew, U
<1> QED BY <1>5, <1>6, <1>7

LEMMA OnceByChoosing ==
    ASSUME ReadInvariant, OnceInvariant, NEW c \in Calls, ChooseConversation(c)
    PROVE  OnceInvariant'
<1>1. CallsOK
  BY DEF ReadInvariant
<1>2. OnlyCall(c) /\ ChosenRow(c) /\ At(c, "conversation")
  BY <1>1, Choosing
<1>3. UNCHANGED << found, shown, disturbed >>
  BY DEF ChooseConversation
<1>4. call[c].group = {} /\ call'[c].user = U(c) /\ call'[c].pending = {}
  BY <1>1, <1>2 DEF CallsOK, CallOK, ChosenRow, At
<1> QED BY <1>2, <1>3, <1>4, QuietStep

\* What it does not find has not been shown: nothing of this user's waits for its links.
LEMMA OnceByLooking ==
    ASSUME ReadInvariant, OnceInvariant, NEW c \in Calls, LookForMessage(c)
    PROVE  OnceInvariant'
<1> DEFINE i == Lowest(call[c].todo)
<1>1. CallsOK
  BY DEF ReadInvariant
<1>2. OnlyCall(c) /\ LookedRow(c, i) /\ At(c, "write")
  BY <1>1, Looking
<1>3. UNCHANGED << found, shown, disturbed >>
  BY DEF LookForMessage
<1>4. call[c].group = {} /\ U(c) \in Users
  BY <1>1, <1>2, CallData DEF CallsOK, CallOK, At
<1> HIDE DEF i
<1>5. ASSUME U(c) \notin disturbed
      PROVE  call'[c].pending \cap shown[U(c)] = {}
  <2>1. call[c].pending \cap shown[U(c)] = {}
    BY <1>2, <1>4, <1>5 DEF OnceInvariant, PendingIsNew, At
  <2>2. i \notin Found(U(c)) => i \notin shown[U(c)]
    <3>1. \A d \in Calls : U(d) = U(c) => call[d].group = {}
      BY <1>4, <1>5 DEF OnceInvariant, OneEach
    <3> QED BY <1>4, <1>5, <3>1 DEF OnceInvariant, ShownIsFound
  <2> QED BY <1>2, <2>1, <2>2 DEF LookedRow
<1> QED BY <1>2, <1>3, <1>4, <1>5, QuietStep DEF LookedRow

LEMMA OnceByCreating ==
    ASSUME ReadInvariant, OnceInvariant, NEW c \in Calls, CreateMessage(c)
    PROVE  OnceInvariant'
<1> USE DEF OnceInvariant
<1> DEFINE group == NextGroup(c)
<1>1. CallsOK /\ StateTyped
  BY DEF ReadInvariant
<1>2. OnlyCall(c) /\ CreatedRow(c) /\ At(c, "write") /\ group \subseteq call[c].pending
  BY <1>1, Creating
<1>3. /\ \A d \in Calls : d # c => call'[d] = call[d]
      /\ call'[c].user = U(c) /\ call'[c].pending = call[c].pending /\ call'[c].group = group
      /\ call[c].group = {} /\ U(c) \in Users /\ group \subseteq Insights
  BY <1>1, <1>2, CallData DEF OnlyCall, CreatedRow, CallsOK, CallOK, At
<1>4. /\ UNCHANGED disturbed /\ shown' = [shown EXCEPT ![U(c)] = @ \cup group]
      /\ LinkStep(U(c), Conv(c), {Lowest(group)})
      /\ Conv(c) \in conversation[U(c)]
  BY DEF CreateMessage, Links, Exists, LinkStep
<1> HIDE DEF group
<1>5. \A u \in Users : shown'[u] = IF u = U(c) THEN shown[u] \cup group ELSE shown[u]
  BY <1>1, <1>3, <1>4 DEF StateTyped
<1>6. \A u \in Users : Found(u) \subseteq Found(u)'
  <2>1. \A u \in Users, k \in Conversations : found[u][k] \subseteq found'[u][k]
    BY <1>1, <1>3, <1>4 DEF StateTyped, LinkStep
  <2> QED BY <2>1 DEF Found
<1>7. OneEach'
  BY <1>3, <1>4 DEF OneEach, U
<1>8. ShownIsFound'
  <2> SUFFICES ASSUME NEW u \in Users \ disturbed, NEW i \in shown'[u], i \notin Found(u)'
               PROVE  \E d \in Calls : call'[d].user = u /\ i \in call'[d].group
    BY <1>4 DEF ShownIsFound, U
  <2>1. CASE u = U(c) /\ i \in group
    BY <1>3, <2>1
  <2>2. CASE i \in shown[u]
    <3>1. PICK d \in Calls : U(d) = u /\ i \in call[d].group
      BY <1>6, <2>2 DEF ShownIsFound
    <3>2. d # c
      BY <1>3, <3>1
    <3> QED BY <1>3, <3>1, <3>2 DEF U
  <2> QED BY <1>5, <2>1, <2>2
<1>9. PendingIsNew'
  <2> SUFFICES ASSUME NEW d \in Calls, call'[d].pc \in {"write", "link"},
                      call'[d].user \notin disturbed
               PROVE  (call'[d].pending \ call'[d].group) \cap shown'[call'[d].user] = {}
    BY <1>4 DEF PendingIsNew, U
  <2>1. CASE d = c
    <3>1. call[c].pending \cap shown[U(c)] = {}
      BY <1>2, <1>3, <2>1 DEF PendingIsNew, At
    <3> QED BY <1>3, <1>5, <2>1, <3>1
  <2>2. CASE d # c
    <3>1. call'[d] = call[d] /\ U(d) \in Users
      BY <1>1, <1>3, <2>2, CallData
    <3>2. U(d) # U(c)
      BY <1>3, <2>2, <3>1 DEF OneEach, U
    <3>3. shown'[U(d)] = shown[U(d)]
      BY <1>5, <3>1, <3>2
    <3> QED BY <3>1, <3>3 DEF PendingIsNew, U
  <2> QED BY <2>1, <2>2
<1> QED BY <1>7, <1>8, <1>9

LEMMA OnceByLinking ==
    ASSUME ReadInvariant, OnceInvariant, NEW c \in Calls, LinkInsights(c)
    PROVE  OnceInvariant'
<1> USE DEF OnceInvariant
<1>1. CallsOK /\ StateTyped
  BY DEF ReadInvariant
<1>2. OnlyCall(c) /\ LinkedRow(c) /\ At(c, "link")
  BY <1>1, Linking
<1>3. /\ \A d \in Calls : d # c => call'[d] = call[d]
      /\ call'[c].user = U(c) /\ call'[c].pending = call[c].pending \ call[c].group
      /\ call'[c].group = {} /\ U(c) \in Users /\ call[c].group \in SUBSET Insights
  BY <1>1, <1>2, CallData DEF OnlyCall, LinkedRow, At
<1>4. /\ UNCHANGED << shown, disturbed >>
      /\ LinkStep(U(c), Conv(c), call[c].group)
      /\ Conv(c) \in conversation[U(c)]
  BY DEF LinkInsights, Links, Exists, LinkStep
<1>5. Conv(c) \in Conversations
  BY <1>1, <1>3, <1>4 DEF StateTyped
<1>6. \A u \in Users, k \in Conversations :
         found'[u][k] = IF u = U(c) /\ k = Conv(c) THEN found[u][k] \cup call[c].group ELSE found[u][k]
  BY <1>1, <1>3, <1>4, <1>5 DEF StateTyped, LinkStep
<1>7. /\ \A u \in Users : Found(u) \subseteq Found(u)'
      /\ \A u \in Users : u = U(c) => call[c].group \subseteq Found(u)'
  <2>1. \A u \in Users, k \in Conversations : found[u][k] \subseteq found'[u][k]
    BY <1>6
  <2>2. \A u \in Users : u = U(c) => call[c].group \subseteq found'[u][Conv(c)]
    BY <1>5, <1>6
  <2> QED BY <1>5, <2>1, <2>2 DEF Found
<1>8. OneEach'
  BY <1>3, <1>4 DEF OneEach, U
<1>9. ShownIsFound'
  <2> SUFFICES ASSUME NEW u \in Users \ disturbed, NEW i \in shown[u], i \notin Found(u)'
               PROVE  \E d \in Calls : call'[d].user = u /\ i \in call'[d].group
    BY <1>4 DEF ShownIsFound, U
  <2>1. PICK d \in Calls : U(d) = u /\ i \in call[d].group
    BY <1>7 DEF ShownIsFound
  <2>2. d # c
    BY <1>7, <2>1, <1>3 DEF U
  <2> QED BY <1>3, <2>1, <2>2 DEF U
<1>10. PendingIsNew'
  BY <1>2, <1>3, <1>4 DEF PendingIsNew, U, At
<1> QED BY <1>8, <1>9, <1>10

LEMMA OnceByEnding ==
    ASSUME ReadInvariant, OnceInvariant, NEW c \in Calls, Written(c) \/ MarkRead(c) \/ Abandon(c)
    PROVE  OnceInvariant'
<1>1. CallsOK
  BY DEF ReadInvariant
<1>2. CASE Written(c)
  <2>1. /\ OnlyCall(c) /\ At(c, "write")
        /\ MarkingRow(c, call[c].eligible) \/ call' = [call EXCEPT ![c] = Idle]
    BY <1>1, <1>2, Writing
  <2>2. call'[c].user \in {U(c), NoUser} /\ call'[c].pc \in {"mark", "idle"}
    BY <1>1, <2>1, Stopping DEF MarkingRow
  <2>3. call[c].group = {} /\ UNCHANGED << found, shown, disturbed >>
    BY <1>1, <1>2, <2>1 DEF Written, CallsOK, CallOK, At
  <2> QED BY <2>1, <2>2, <2>3, QuietStep
<1>3. CASE MarkRead(c)
  <2>1. /\ OnlyCall(c) /\ At(c, "mark")
        /\ \/ MarkingRow(c, call[c].todo \ {Lowest(call[c].todo)})
           \/ call' = [call EXCEPT ![c] = Idle]
    BY <1>1, <1>3, MarkingRead
  <2>2. call'[c].user \in {U(c), NoUser} /\ call'[c].pc \in {"mark", "idle"}
    BY <1>1, <2>1, Stopping DEF MarkingRow
  <2>3. call[c].group = {} /\ UNCHANGED << found, shown, disturbed >>
    BY <1>1, <1>3, <2>1 DEF MarkRead, CallsOK, CallOK, At
  <2> QED BY <2>1, <2>2, <2>3, QuietStep
<1>4. CASE Abandon(c)
  <2>1. OnlyCall(c) /\ call'[c].user = NoUser /\ call'[c].pc = "idle"
    BY <1>1, <1>4, Stopping DEF Abandon
  <2>2. /\ UNCHANGED << found, shown >> /\ disturbed \subseteq disturbed'
        /\ call[c].group = {} \/ U(c) \in disturbed'
    BY <1>1, <1>4 DEF Abandon, CallsOK, CallOK, At
  <2> QED BY <2>1, <2>2, QuietStep
<1> QED BY <1>2, <1>3, <1>4

LEMMA OnceByDeleting ==
    ASSUME ReadInvariant, OnceInvariant, NEW u \in Users, NEW k \in Conversations,
           DeleteConversation(u, k)
    PROVE  OnceInvariant'
<1>1. /\ UNCHANGED << call, shown >> /\ disturbed' = disturbed \cup {u}
      /\ found' = [found EXCEPT ![u][k] = {}]
  BY DEF DeleteConversation
<1>2. \A v \in Users : v # u => Found(v)' = Found(v)
  BY <1>1 DEF ReadInvariant, StateTyped, Found
<1> QED BY <1>1, <1>2 DEF OnceInvariant, OneEach, ShownIsFound, PendingIsNew, U

LEMMA OncePreserved == ReadInvariant /\ OnceInvariant /\ [Next]_vars => OnceInvariant'
<1> SUFFICES ASSUME ReadInvariant, OnceInvariant, [Next]_vars
             PROVE  OnceInvariant'
  OBVIOUS
<1>1. CASE UNCHANGED vars \/ InsightStep
  BY <1>1 DEF OnceInvariant, OneEach, ShownIsFound, PendingIsNew, Found, U, InsightStep, vars
<1>2. ASSUME NEW c \in Calls, PresentStep(c)
      PROVE  OnceInvariant'
  BY <1>2, OnceByChoosing, OnceByLooking, OnceByCreating, OnceByLinking, OnceByEnding
     DEF PresentStep
<1>3. ASSUME NEW c \in Calls, Abandon(c) \/ \E u \in Users : Present(c, u)
      PROVE  OnceInvariant'
  BY <1>3, OnceByEnding, OnceByPresenting
<1>4. CASE \E u \in Users, k \in Conversations : DeleteConversation(u, k)
  BY <1>4, OnceByDeleting
<1> QED BY <1>1, <1>2, <1>3, <1>4 DEF Next

LEMMA OnceInit == Init => OnceInvariant
<1> SUFFICES ASSUME Init
             PROVE  OnceInvariant
  OBVIOUS
<1>1. \A c \in Calls : U(c) = NoUser /\ call[c].pc = "idle"
  BY IdleOK DEF Init, U
<1> QED BY <1>1, DeliveryAssumption
        DEF Init, OnceInvariant, OneEach, ShownIsFound, PendingIsNew

-----------------------------------------------------------------------------
(* The theorems *)

\* Type correctness: every request's data fit its step, and a deleted conversation has no
\* messages.
THEOREM TypeCorrect == Spec => []TypeOK
BY ReadInit, ReadPreserved, ReadIsTyped, PTL DEF Spec

\* Whatever is marked read was presented to its reader, and was narrated when it was.
THEOREM ReadInsightsWereShown == Spec => []ReadWasShown
<1>1. ReadInvariant => ReadWasShown
  BY DEF ReadInvariant
<1> QED BY <1>1, ReadInit, ReadPreserved, PTL DEF Spec

\* What a step that creates a message presents.
PresentsNew(c) ==
    At(c, "write") /\ call'[c].pc = "link" /\ U(c) \notin disturbed
      => call'[c].group \cap shown[U(c)] = {}

LEMMA StepsPresentNew ==
    ASSUME ReadInvariant, OnceInvariant, Next, NEW c \in Calls,
           At(c, "write"), call'[c].pc = "link", U(c) \notin disturbed
    PROVE  call'[c].group \cap shown[U(c)] = {}
<1>0. CallsOK
  BY DEF ReadInvariant
<1>1. CASE InsightStep \/ \E u \in Users, k \in Conversations : DeleteConversation(u, k)
  BY <1>1 DEF InsightStep, DeleteConversation, At
<1>2. ASSUME NEW d \in Calls, d # c,
             PresentStep(d) \/ Abandon(d) \/ \E u \in Users : Present(d, u)
      PROVE  FALSE
  <2>1. OnlyCall(d)
    BY <1>0, <1>2, Choosing, Looking, Creating, Linking, Writing, MarkingRead, Stopping, Starting
       DEF PresentStep, Abandon
  <2> QED BY <1>2, <2>1 DEF OnlyCall, At
<1>3. CASE CreateMessage(c)
  <2>1. CreatedRow(c) /\ NextGroup(c) \subseteq call[c].pending
    BY <1>0, <1>3, Creating
  <2>2. call[c].group = {} /\ (call[c].pending \ call[c].group) \cap shown[U(c)] = {}
    BY <1>0 DEF OnceInvariant, PendingIsNew, CallsOK, CallOK, At
  <2> QED BY <2>1, <2>2 DEF CreatedRow
<1>4. ASSUME \/ ChooseConversation(c) \/ LookForMessage(c) \/ LinkInsights(c) \/ Written(c)
             \/ MarkRead(c) \/ Abandon(c) \/ \E u \in Users : Present(c, u)
      PROVE  FALSE
  <2>1. CASE ChooseConversation(c) \/ LinkInsights(c) \/ MarkRead(c) \/ \E u \in Users : Present(c, u)
    BY <2>1 DEF ChooseConversation, LinkInsights, MarkRead, Present, At
  <2>2. CASE LookForMessage(c)
    BY <1>0, <2>2, Looking DEF LookedRow
  <2>3. CASE Written(c)
    BY <1>0, <2>3, Writing, Stopping DEF MarkingRow
  <2>4. CASE Abandon(c)
    BY <1>0, <2>4, Stopping DEF Abandon
  <2> QED BY <1>4, <2>1, <2>2, <2>3, <2>4
<1> QED BY <1>1, <1>2, <1>3, <1>4 DEF Next, PresentStep

\* A message presents nothing its reader has been shown, unless his requests overlapped,
\* one stopped before its links, or he deleted a conversation.
THEOREM InsightsPresentedOnce == Spec => PresentedOnce
<1>1. ReadInvariant /\ OnceInvariant /\ [Next]_vars => [\A c \in Calls : PresentsNew(c)]_vars
  BY StepsPresentNew DEF PresentsNew
<1>2. Spec => [][\A c \in Calls : PresentsNew(c)]_vars
  BY <1>1, ReadInit, ReadPreserved, OnceInit, OncePreserved, PTL DEF Spec
<1> QED BY <1>2 DEF PresentedOnce, PresentsNew
=============================================================================
