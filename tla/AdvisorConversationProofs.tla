----------------------- MODULE AdvisorConversationProofs -----------------------
(***************************************************************************)
(* As long as no two messages of the conversation are answered at once,    *)
(* the one that is has the offer and the query in hand as they are stored, *)
(* and both what is stored and what is in hand are faithful to what the    *)
(* user stated.  From this the properties follow for any number of         *)
(* messages and any limit of the premises.                                 *)
(***************************************************************************)
EXTENDS AdvisorConversation, SequenceTheorems, TLAPS

-----------------------------------------------------------------------------
(* Types *)

Fits(bag) == Coherent(bag) /\ Len(bag.premises) <= PremiseLimit

\* What a step may leave in the row of the one message it is about.
RowFits(m, row, status) ==
    /\ row \in MessageRow
    /\ Fits(row.bag)
    /\ row.pc \in {"resolve", "execute"} => row.bag.offer # NoMessage
    /\ row.pc = "generate" => status = "STARTED"
    /\ row.pc \in {"offer", "close"} => status \in {"none", "SUCCEEDED"}
    /\ row.pc \notin {"generate", "offer", "close", "done"} => status = "none"

LEMMA RowSuffices ==
    ASSUME TypeOK, NEW m \in Messages, NEW row, NEW status \in RunStatus,
           RowFits(m, row, status),
           message' = [message EXCEPT ![m] = row], run' = [run EXCEPT ![m] = status],
           context' \in Context, Fits(context'), stated' \in Seq(Statement),
           old' \subseteq Messages, ran' \in [Messages -> Nat],
           refused' \subseteq Messages, forgotten' \subseteq Messages, overlapped' \in BOOLEAN
    PROVE  TypeOK'
<1>1. message' \in [Messages -> MessageRow] /\ run' \in [Messages -> RunStatus]
  BY DEF TypeOK, RowFits
<1>2. ASSUME NEW n \in Messages
      PROVE  RowFits(n, message'[n], run'[n])
  <2>1. CASE n = m
    BY <2>1 DEF TypeOK, RowFits
  <2>2. CASE n # m
    BY <2>2 DEF TypeOK, RowFits, Fits
  <2> QED
    BY <2>1, <2>2
<1> QED
  BY <1>1, <1>2 DEF TypeOK, RowFits, Fits

LEMMA RowNow ==
    ASSUME TypeOK, NEW m \in Messages
    PROVE  RowFits(m, message[m], run[m]) /\ run[m] \in RunStatus
BY DEF TypeOK, RowFits, Fits

LEMMA GotoTyped ==
    ASSUME TypeOK, NEW m \in Messages, NEW pc \in Pcs, NEW status \in RunStatus,
           Goto(m, pc), run' = [run EXCEPT ![m] = status],
           RowFits(m, [message[m] EXCEPT !.pc = pc], status),
           UNCHANGED << context, old, refused, forgotten, stated, overlapped >>,
           ran' \in [Messages -> Nat]
    PROVE  TypeOK'
<1>1. message' = [message EXCEPT ![m] = [message[m] EXCEPT !.pc = pc]]
  BY DEF Goto, TypeOK
<1> QED
  BY <1>1, RowSuffices DEF TypeOK, Fits

LEMMA EmptyTyped == Empty \in Context /\ Fits(Empty)
<1>1. << >> \in Seq(Premise) /\ Len(<< >>) = 0
  OBVIOUS
<1> QED
  BY <1>1, ConversationAssumption DEF Empty, Context, Named, Fits, Coherent

LEMMA FinishTyped ==
    ASSUME TypeOK, NEW m \in Messages, NEW status \in RunStatus,
           Finish(m), run' = [run EXCEPT ![m] = status],
           UNCHANGED << context, old, refused, forgotten, stated, overlapped >>,
           ran' \in [Messages -> Nat]
    PROVE  TypeOK'
<1>1. RowFits(m, [Unsent EXCEPT !.pc = "done"], status)
  BY EmptyTyped DEF RowFits, Unsent, MessageRow, Pcs
<1> QED
  BY <1>1, RowSuffices DEF Finish, TypeOK, Fits

LEMMA PersistTyped ==
    ASSUME TypeOK, NEW m \in Messages, NEW pc \in Pcs, NEW bag \in Context, Fits(bag),
           PersistBag(m, bag, pc), UNCHANGED << run, old, ran, overlapped >>,
           stated' \in Seq(Statement),
           RowFits(m, [message[m] EXCEPT !.pc = pc, !.bag = bag], run[m]),
           refused' \subseteq Messages, forgotten' \subseteq Messages
    PROVE  TypeOK'
<1>1. message' = [message EXCEPT ![m] = [message[m] EXCEPT !.pc = pc, !.bag = bag]]
  BY DEF PersistBag, TypeOK
<1>2. run' = [run EXCEPT ![m] = run[m]] /\ run[m] \in RunStatus
  BY DEF TypeOK
<1>3. context' = bag
  BY DEF PersistBag
<1>4. ran' \in [Messages -> Nat] /\ old' \subseteq Messages /\ overlapped' \in BOOLEAN
  BY DEF TypeOK
<1> QED
  BY <1>1, <1>2, <1>3, <1>4, RowSuffices

-----------------------------------------------------------------------------
(* What a premise does to the list and to what was stated *)

LEMMA InForceIs ==
    ASSUME NEW x \in Premise, NEW b
    PROVE  x = InForce(b) <=> x.by = b /\ x.active = TRUE
BY DEF Premise, InForce

\* The list with a new premise: its last is the new one, and the others are those of before
\* but for the one that is replaced and for the oldest, if the list was full.
LEMMA WithPremiseIs ==
    ASSUME NEW list \in Seq(Premise), Len(list) <= PremiseLimit, NEW m \in Messages, NEW r,
           NEW new, new = WithPremise(list, m, r), NEW d, d = Len(list) + 1 - Len(new)
    PROVE  /\ new \in Seq(Premise) /\ Len(new) \in 1 .. PremiseLimit
           /\ d \in Nat /\ (d # 0 => Len(new) = PremiseLimit)
           /\ new[Len(new)] = InForce(m)
           /\ \A j \in 1 .. Len(new) - 1 :
                 /\ j + d \in 1 .. Len(list)
                 /\ new[j].by = list[j + d].by
                 /\ \A b : new[j] = InForce(b) <=> list[j + d] = InForce(b) /\ b # r
<1> DEFINE mark(x) == [x EXCEPT !.active = @ /\ x.by # r]
           marked  == [i \in DOMAIN list |-> mark(list[i])]
           long    == Append(marked, InForce(m))
<1>0. PremiseLimit \in Nat /\ PremiseLimit >= 1
  BY ConversationAssumption
<1>1. ASSUME NEW x \in Premise
      PROVE  /\ mark(x) \in Premise /\ mark(x).by = x.by
             /\ \A b : mark(x) = InForce(b) <=> x = InForce(b) /\ b # r
  <2>1. mark(x) \in Premise /\ mark(x).by = x.by /\ mark(x).active = (x.active /\ x.by # r)
    BY DEF Premise
  <2>2. x.active \in BOOLEAN
    BY DEF Premise
  <2>3. mark(x).active = TRUE <=> x.active = TRUE /\ x.by # r
    BY <2>1, <2>2, Zenon
  <2> HIDE DEF mark
  <2>4. ASSUME NEW b
        PROVE  mark(x) = InForce(b) <=> x = InForce(b) /\ b # r
    <3>1. mark(x) = InForce(b) <=> mark(x).by = b /\ mark(x).active = TRUE
      BY <2>1, InForceIs
    <3>2. x = InForce(b) <=> x.by = b /\ x.active = TRUE
      BY InForceIs
    <3> QED
      BY <2>1, <2>3, <3>1, <3>2
  <2> QED
    BY <2>1, <2>4
<1>2. \A i \in DOMAIN list : list[i] \in Premise
  OBVIOUS
<1> HIDE DEF mark
<1>3. marked \in Seq(Premise) /\ Len(marked) = Len(list)
      /\ \A i \in 1 .. Len(list) : marked[i] = mark(list[i])
  <2>1. \A i \in DOMAIN list : mark(list[i]) \in Premise
    BY <1>1, <1>2
  <2> QED
    BY <2>1
<1> HIDE DEF marked
<1>4. InForce(m) \in Premise
  BY DEF InForce, Premise
<1>5. long \in Seq(Premise) /\ Len(long) = Len(list) + 1 /\ long[Len(list) + 1] = InForce(m)
      /\ \A i \in 1 .. Len(list) : long[i] = mark(list[i])
  BY <1>3, <1>4
<1> HIDE DEF long
<1>6. new = LastOf(long)
  BY DEF WithPremise, long, marked, mark
<1>7. /\ new \in Seq(Premise) /\ Len(new) \in 1 .. PremiseLimit
      /\ d \in Nat /\ (d # 0 => Len(new) = PremiseLimit)
      /\ \A j \in 1 .. Len(new) : j + d \in 1 .. Len(long) /\ new[j] = long[j + d]
  <2>1. CASE Len(long) <= PremiseLimit
    BY <1>0, <1>5, <1>6, <2>1 DEF LastOf
  <2>2. CASE Len(long) > PremiseLimit
    <3>1. Len(list) = PremiseLimit /\ new = SubSeq(long, 2, Len(long))
      BY <1>0, <1>5, <1>6, <2>2 DEF LastOf
    <3>2. new \in Seq(Premise) /\ Len(new) = PremiseLimit /\ \A j \in 1 .. PremiseLimit : new[j] = long[j + 1]
      BY <1>0, <1>5, <3>1, SubSeqProperties
    <3>3. d = 1
      BY <1>0, <3>1, <3>2
    <3>4. ASSUME NEW j \in 1 .. Len(new)
          PROVE  j + d \in 1 .. Len(long) /\ new[j] = long[j + d]
      <4>1. j \in 1 .. PremiseLimit /\ j + d = j + 1
        BY <3>2, <3>3
      <4>2. j + 1 \in 1 .. Len(long)
        BY <1>0, <1>5, <3>1, <4>1
      <4> QED
        BY <3>2, <4>1, <4>2
    <3>5. new \in Seq(Premise) /\ Len(new) \in 1 .. PremiseLimit /\ d \in Nat
      BY <1>0, <3>2, <3>3
    <3> QED
      BY <3>2, <3>4, <3>5
  <2> QED
    BY <1>0, <1>5, <2>1, <2>2
<1>8. new[Len(new)] = InForce(m)
  BY <1>0, <1>5, <1>7
<1>9. ASSUME NEW j \in 1 .. Len(new) - 1
      PROVE  /\ j + d \in 1 .. Len(list) /\ list[j + d] \in Premise
             /\ new[j] = mark(list[j + d])
  <2>1. Len(list) \in Nat /\ Len(new) \in Nat /\ j \in 1 .. Len(new)
    BY <1>7
  <2>2. j + d \in 1 .. Len(list)
    BY <1>7, <2>1
  <2>3. list[j + d] \in Premise
    BY <1>2, <2>2
  <2>4. new[j] = long[j + d]
    BY <1>7, <2>1
  <2>5. long[j + d] = mark(list[j + d])
    BY <1>5, <2>2
  <2> QED
    BY <2>2, <2>3, <2>4, <2>5
<1> QED
  <2>1. ASSUME NEW j \in 1 .. Len(new) - 1
        PROVE  /\ j + d \in 1 .. Len(list)
               /\ new[j].by = list[j + d].by
               /\ \A b : new[j] = InForce(b) <=> list[j + d] = InForce(b) /\ b # r
    <3>1. mark(list[j + d]).by = list[j + d].by
      BY <1>1, <1>9
    <3>2. \A b : mark(list[j + d]) = InForce(b) <=> list[j + d] = InForce(b) /\ b # r
      BY <1>1, <1>9
    <3> QED
      BY <1>9, <3>1, <3>2
  <2> QED
    BY <1>7, <1>8, <2>1

LEMMA WithStatementIs ==
    ASSUME stated \in Seq(Statement), NEW m \in Messages, NEW r, NEW answered \in BOOLEAN,
           NEW s, s = WithStatement(m, r, answered)
    PROVE  /\ s \in Seq(Statement) /\ Len(s) = Len(stated) + 1
           /\ s[Len(s)].by = m /\ s[Len(s)].answered = answered /\ s[Len(s)].replaced = "no"
           /\ \A i \in 1 .. Len(stated) :
                 /\ s[i].by = stated[i].by /\ s[i].answered = stated[i].answered
                 /\ stated[i].by # r => s[i].replaced = stated[i].replaced
                 /\ stated[i].by = r => s[i].replaced = IF answered THEN "yes" ELSE "unsure"
<1> DEFINE word    == IF answered THEN "yes" ELSE "unsure"
           mark(x) == IF x.by = r THEN [x EXCEPT !.replaced = word] ELSE x
           marked  == [i \in DOMAIN stated |-> mark(stated[i])]
           last    == [by |-> m, answered |-> answered, replaced |-> "no"]
<1>1. ASSUME NEW x \in Statement
      PROVE  /\ mark(x) \in Statement /\ mark(x).by = x.by /\ mark(x).answered = x.answered
             /\ x.by # r => mark(x).replaced = x.replaced
             /\ x.by = r => mark(x).replaced = word
  BY DEF Statement
<1>2. s = Append(marked, last)
  BY DEF WithStatement
<1>3. last \in Statement /\ last.by = m /\ last.answered = answered /\ last.replaced = "no"
  BY DEF Statement
<1> HIDE DEF mark, last
<1>4. /\ marked \in Seq(Statement) /\ Len(marked) = Len(stated)
      /\ \A i \in 1 .. Len(stated) : marked[i] = mark(stated[i]) /\ stated[i] \in Statement
  <2>1. \A i \in DOMAIN stated : mark(stated[i]) \in Statement
    BY <1>1
  <2> QED
    BY <2>1
<1> HIDE DEF marked
<1>5. /\ s \in Seq(Statement) /\ Len(s) = Len(stated) + 1 /\ s[Len(s)] = last
      /\ \A i \in 1 .. Len(stated) : s[i] = mark(stated[i]) /\ stated[i] \in Statement
  BY <1>2, <1>3, <1>4
<1> HIDE DEF word
<1>6. \A i \in 1 .. Len(stated) :
        /\ s[i].by = stated[i].by /\ s[i].answered = stated[i].answered
        /\ stated[i].by # r => s[i].replaced = stated[i].replaced
        /\ stated[i].by = r => s[i].replaced = word
  BY <1>1, <1>5
<1> QED
  BY <1>3, <1>5, <1>6 DEF word

-----------------------------------------------------------------------------
LEMMA InitTyped == Init => TypeOK
<1> SUFFICES ASSUME Init PROVE TypeOK
  OBVIOUS
<1>1. Empty \in Context /\ Coherent(Empty) /\ Len(Empty.premises) <= PremiseLimit
  BY EmptyTyped DEF Fits
<1>2. Unsent \in MessageRow /\ Unsent.bag = Empty /\ Unsent.pc = "new"
  BY <1>1 DEF Unsent, MessageRow, Pcs
<1>3. /\ message \in [Messages -> MessageRow] /\ \A m \in Messages : message[m] = Unsent
      /\ run \in [Messages -> RunStatus] /\ \A m \in Messages : run[m] = "none"
      /\ ran \in [Messages -> Nat] /\ stated \in Seq(Statement)
  BY <1>2 DEF Init, RunStatus
<1> QED
  BY <1>1, <1>2, <1>3 DEF Init, TypeOK

LEMMA StepTyped ==
    ASSUME TypeOK, NEW m \in Messages, Step(m)
    PROVE  TypeOK'
<1> DEFINE row == message[m]
<1> USE ConversationAssumption
<1>1. /\ RowFits(m, row, run[m]) /\ run[m] \in RunStatus /\ run = [run EXCEPT ![m] = run[m]]
      /\ row.bag \in Context /\ row.pc \in Pcs /\ row.factual \in BOOLEAN
  BY RowNow DEF TypeOK, MessageRow
<1>2. \A pc \in Pcs : [row EXCEPT !.pc = pc] \in MessageRow /\ [row EXCEPT !.pc = pc].bag = row.bag
                          /\ [row EXCEPT !.pc = pc].pc = pc
  BY <1>1 DEF MessageRow, RowFits
<1>3. ran \in [Messages -> Nat] /\ refused \subseteq Messages /\ forgotten \subseteq Messages
      /\ stated \in Seq(Statement)
  BY DEF TypeOK
<1>4. CASE Ask(m)
  <2>1. PICK factual \in BOOLEAN :
          message' = [message EXCEPT ![m] = [pc |-> "gate", bag |-> context, factual |-> factual]]
    BY <1>4 DEF Ask
  <2>2. RowFits(m, [pc |-> "gate", bag |-> context, factual |-> factual], run[m])
    BY <1>1, <1>4 DEF RowFits, Fits, TypeOK, MessageRow, Pcs, Ask, At
  <2>3. /\ overlapped' \in BOOLEAN /\ context' \in Context /\ Fits(context')
        /\ stated' \in Seq(Statement) /\ old' \subseteq Messages /\ ran' \in [Messages -> Nat]
        /\ refused' \subseteq Messages /\ forgotten' \subseteq Messages
    BY <1>4 DEF Ask, TypeOK, Fits
  <2>4. run' = [run EXCEPT ![m] = run[m]] /\ run[m] \in RunStatus
    BY <1>1, <1>4 DEF Ask
  <2> QED
    BY <2>1, <2>2, <2>3, <2>4, RowSuffices
<1>5. CASE Blocked(m)
  <2>1. PICK s \in {"LIMIT_BLOCKED", "FAILED"} : run' = [run EXCEPT ![m] = s]
    BY <1>5 DEF Blocked
  <2> QED
    BY <1>3, <1>5, <2>1, FinishTyped DEF Blocked, RunStatus
<1>6. CASE NoOffer(m) \/ AskProvider(m) \/ Undecided(m) \/ Clarify(m) \/ KeepQuery(m)
           \/ NoPremise(m) \/ ReplyThenSave(m) \/ Compose(m) \/ NothingOffered(m)
  <2>1. PICK pc \in {"probe", "resolve", "close", "premise", "answer", "save", "offer"} :
          /\ Goto(m, pc)
          /\ pc = "resolve" => row.bag.offer # NoMessage
          /\ run[m] = "none" \/ (run[m] = "SUCCEEDED" /\ pc = "close")
    BY <1>1, <1>6 DEF NoOffer, AskProvider, Undecided, Clarify, KeepQuery, NoPremise,
       ReplyThenSave, Compose, NothingOffered, RowFits, Fits, At, Executable, Bag, Coherent
  <2>2. UNCHANGED << context, run, old, ran, refused, forgotten, stated, overlapped >>
    BY <1>6 DEF NoOffer, AskProvider, Undecided, Clarify, KeepQuery, NoPremise,
       ReplyThenSave, Compose, NothingOffered
  <2>3. pc \in Pcs /\ RowFits(m, [row EXCEPT !.pc = pc], run[m])
    BY <1>1, <1>2, <2>1 DEF RowFits, Pcs, MessageRow
  <2> QED
    BY <1>1, <1>3, <2>1, <2>2, <2>3, GotoTyped
<1>7. CASE Execute(m)
  <2>1. ran' \in [Messages -> Nat]
    BY <1>1, <1>3, <1>7 DEF Execute, At, Bag, RowFits, Context, Named
  <2> QED
    BY <1>1, <1>7, <2>1, FinishTyped DEF Execute
<1>8. CASE ReplyClosed(m) \/ Close(m) \/ RunFails(m) \/ Abandon(m)
  <2>1. PICK s \in RunStatus : run' = [run EXCEPT ![m] = s]
    BY <1>1, <1>8 DEF ReplyClosed, Close, RunFails, Abandon, RunStatus
  <2> QED
    BY <1>3, <1>8, <2>1, FinishTyped DEF ReplyClosed, Close, RunFails, Abandon
<1>9. CASE Generate(m)
  <2>1. RowFits(m, [row EXCEPT !.pc = "generate"], "STARTED")
    BY <1>1, <1>2 DEF RowFits, Pcs
  <2>2. "generate" \in Pcs /\ "STARTED" \in RunStatus
    BY DEF Pcs, RunStatus
  <2> QED
    BY <1>3, <1>9, <2>1, <2>2, GotoTyped DEF Generate
<1>10. CASE Generated(m)
  <2>1. RowFits(m, [row EXCEPT !.pc = "offer"], "SUCCEEDED")
    BY <1>1, <1>2 DEF RowFits, Pcs
  <2>2. "offer" \in Pcs /\ "SUCCEEDED" \in RunStatus
    BY DEF Pcs, RunStatus
  <2> QED
    BY <1>3, <1>10, <2>1, <2>2, GotoTyped DEF Generated
<1>11. CASE NotExecutable(m) \/ SetAside(m) \/ Reject(m) \/ Accept(m) \/ NewQuery(m)
            \/ SaveFamily(m) \/ SaveQuery(m) \/ Offer(m)
  <2>1. PICK bag \in Context, pc \in {"probe", "close", "execute", "premise"} :
          /\ PersistBag(m, bag, pc)
          /\ Fits(bag)
          /\ pc = "execute" => bag.offer # NoMessage
          /\ run[m] = "none" \/ (run[m] = "SUCCEEDED" /\ pc = "close")
    <3>1. CASE NotExecutable(m)
      BY <1>1, <3>1 DEF NotExecutable, RowFits, Fits, At, Bag, Coherent, Context, Without, Named
    <3>2. CASE SetAside(m) \/ Reject(m) \/ Accept(m)
      BY <1>1, <3>2 DEF SetAside, Reject, Accept, RowFits, Fits, At, Bag, Coherent, Context, Without,
         Named
    <3>3. CASE NewQuery(m) \/ SaveFamily(m)
      BY <1>1, <3>3 DEF NewQuery, SaveFamily, RowFits, Fits, At, Bag, Coherent, Context, Named
    <3>4. CASE SaveQuery(m)
      <4>1. PICK q \in {m, NoMessage, Bag(m).last} :
              PersistBag(m, [Bag(m) EXCEPT !.last = q], "close")
        BY <3>4 DEF SaveQuery
      <4>2. [Bag(m) EXCEPT !.last = q] \in Context /\ Fits([Bag(m) EXCEPT !.last = q])
        BY <1>1, <4>1 DEF RowFits, Fits, Bag, Coherent, Context, Named
      <4> QED
        BY <1>1, <3>4, <4>1, <4>2 DEF SaveQuery, RowFits, At
    <3>5. CASE Offer(m)
      BY <1>1, <3>5 DEF Offer, RowFits, Fits, At, Bag, Coherent, Context, Named
    <3> QED
      BY <1>11, <3>1, <3>2, <3>3, <3>4, <3>5
  <2>2. UNCHANGED << run, old, ran, stated, overlapped >>
    BY <1>11 DEF NotExecutable, SetAside, Reject, Accept, NewQuery, SaveFamily, SaveQuery, Offer
  <2>3. refused' \subseteq Messages /\ forgotten' \subseteq Messages
    <3>1. Bag(m).offer \in Messages \cup {NoMessage} /\ Bag(m).last \in Messages \cup {NoMessage}
      BY <1>1 DEF Bag, Context, Named
    <3> QED
      BY <1>3, <1>11, <3>1 DEF NotExecutable, SetAside, Reject, Accept, NewQuery, SaveFamily,
         SaveQuery, Offer, Refuse
  <2>4. pc \in Pcs /\ RowFits(m, [row EXCEPT !.pc = pc, !.bag = bag], run[m])
    BY <1>1, <2>1 DEF RowFits, Pcs, MessageRow
  <2> QED
    BY <1>3, <2>1, <2>2, <2>3, <2>4, PersistTyped
<1>12. CASE PremiseFound(m) \/ PremiseUnanswered(m)
  <2>1. PICK r \in Named, answered \in BOOLEAN :
          /\ context' = [Bag(m) EXCEPT !.premises = WithPremise(@, m, r)]
          /\ State(m, r, answered)
          /\ \/ PersistBag(m, [Bag(m) EXCEPT !.premises = WithPremise(@, m, r)], "answer")
             \/ Goto(m, "answer")
    <3>1. CASE PremiseFound(m)
      <4>1. PICK r \in Named : /\ PersistBag(m, [Bag(m) EXCEPT !.premises = WithPremise(@, m, r)], "answer")
                              /\ State(m, r, TRUE)
        BY <3>1 DEF PremiseFound, Replaceable, Named
      <4> QED
        BY <4>1 DEF PersistBag
    <3>2. CASE PremiseUnanswered(m)
      <4>1. PICK r \in Named : /\ PersistOnly(m, [Bag(m) EXCEPT !.premises = WithPremise(@, m, r)], "answer")
                              /\ State(m, r, FALSE)
        BY <3>2 DEF PremiseUnanswered, Replaceable, Named
      <4> QED
        BY <4>1 DEF PersistOnly
    <3> QED
      BY <1>12, <3>1, <3>2
  <2>2. Bag(m).premises \in Seq(Premise) /\ Len(Bag(m).premises) <= PremiseLimit
    BY <1>1 DEF Bag, RowFits, Fits, Context
  <2>3. /\ WithPremise(Bag(m).premises, m, r) \in Seq(Premise)
        /\ Len(WithPremise(Bag(m).premises, m, r)) <= PremiseLimit
    BY <2>2, WithPremiseIs
  <2>4. stated' \in Seq(Statement)
    <3>1. WithStatement(m, r, answered) \in Seq(Statement)
      BY <1>3, WithStatementIs
    <3> QED
      BY <1>3, <2>1, <3>1 DEF State
  <2>5. context' \in Context /\ Fits(context')
    BY <1>1, <2>1, <2>3 DEF Bag, RowFits, Fits, Context, Coherent
  <2>6. UNCHANGED << run, old, ran, refused, forgotten, overlapped >> /\ run[m] = "none"
    BY <1>1, <1>12 DEF PremiseFound, PremiseUnanswered, RowFits, At
  <2>7. PICK new \in {[row EXCEPT !.pc = "answer"], [row EXCEPT !.pc = "answer", !.bag = context']} :
          message' = [message EXCEPT ![m] = new]
    BY <2>1 DEF PersistBag, Goto, TypeOK
  <2>8. RowFits(m, new, run[m])
    BY <1>1, <2>5, <2>6 DEF RowFits, MessageRow, Pcs
  <2>9. /\ run' = [run EXCEPT ![m] = run[m]]
        /\ old' \subseteq Messages /\ ran' \in [Messages -> Nat] /\ overlapped' \in BOOLEAN
        /\ refused' \subseteq Messages /\ forgotten' \subseteq Messages
    BY <1>1, <2>6 DEF TypeOK
  <2> QED
    BY <1>1, <2>4, <2>5, <2>7, <2>8, <2>9, RowSuffices
<1> QED
  BY <1>4, <1>5, <1>6, <1>7, <1>8, <1>9, <1>10, <1>11, <1>12 DEF Step, Gate, Resolve, Answer

LEMMA NextTyped == TypeOK /\ [Next]_vars => TypeOK'
<1> SUFFICES ASSUME TypeOK, [Next]_vars PROVE TypeOK'
  OBVIOUS
<1>1. CASE \E m \in Messages : Step(m)
  BY <1>1, StepTyped
<1>2. CASE \E o \in Messages : Expire(o)
  BY <1>2 DEF TypeOK, Expire
<1>3. CASE UNCHANGED vars
  BY <1>3 DEF TypeOK, vars
<1> QED
  BY <1>1, <1>2, <1>3 DEF Next

\* The variables keep their types: in particular an offer is only resolved when there is
\* one, and a run is recorded exactly while and after the provider generates.
THEOREM TypeCorrect == Spec => []TypeOK
BY InitTyped, NextTyped, PTL DEF Spec

-----------------------------------------------------------------------------
(* The offer and the query in hand are the stored ones *)

Past(q) == message[q].pc \in {"close", "done"}

Agrees(bag, c) == bag.offer = c.offer /\ bag.status = c.status /\ bag.last = c.last

Alone   == \A m, n \in Messages : Active(m) /\ Active(n) => m = n
Current == \A m \in Messages : Active(m) => Agrees(Bag(m), context)

\* An offer and a query are named by a message that has nothing left to do but to end.
NamedPast ==
    /\ \A q \in {context.offer, context.last} \ {NoMessage} : Past(q)
    /\ \A q \in refused \cup forgotten : Past(q)
    /\ \A q \in Messages : ran[q] # 0 => Past(q)

OpenIsNew ==
    context.status = "PENDING" => ran[context.offer] = 0 /\ context.offer \notin refused

Deciding == \A m \in Messages : At(m, "resolve") => Bag(m).status = "PENDING"

Taken ==
    \A m \in Messages : At(m, "execute") =>
        Bag(m).status = "CONSUMED" /\ ran[Bag(m).offer] = 0 /\ Bag(m).offer \notin refused

Forgot == context.last \notin forgotten

InHand == Alone /\ Current /\ NamedPast /\ OpenIsNew /\ Deciding /\ Taken /\ Forgot

ConversationInvariant == ~ overlapped => InHand

\* A step of the one message under way: it is still the only one, has what is stored, and
\* nothing that was past is not.
LEMMA OneUnderWay ==
    ASSUME TypeOK, Alone, Current, NEW m \in Messages, Active(m), NEW row \in MessageRow,
           message' = [message EXCEPT ![m] = row], row.pc # "new",
           Past(m) => row.pc = "done", row.pc # "done" => Agrees(row.bag, context')
    PROVE  /\ Alone' /\ Current'
           /\ \A q \in Messages : Past(q) => Past(q)'
           /\ \A n \in Messages : n # m => ~ Active(n) /\ message'[n] = message[n]
           /\ message'[m] = row
<1>1. message'[m] = row /\ \A n \in Messages : n # m => message'[n] = message[n]
  BY DEF TypeOK
<1>2. \A n \in Messages : n # m => ~ Active(n)
  BY DEF Alone
<1>3. \A n \in Messages : Active(n)' => n = m
  BY <1>1, <1>2 DEF Active
<1>4. Current'
  BY <1>1, <1>3 DEF Current, Bag, Active
<1>5. \A q \in Messages : Past(q) => Past(q)'
  BY <1>1 DEF Past
<1> QED
  BY <1>1, <1>2, <1>3, <1>4, <1>5 DEF Alone

\* A step that writes at most premises, when the offer is resolved only if open.
LEMMA NothingWritten ==
    ASSUME TypeOK, InHand, NEW m \in Messages, Active(m), NEW row \in MessageRow,
           message' = [message EXCEPT ![m] = row], row.pc \notin {"new", "execute"},
           Past(m) => row.pc = "done", row.pc # "done" => Agrees(row.bag, Bag(m)),
           row.pc = "resolve" => Bag(m).status = "PENDING",
           Agrees(context', context), UNCHANGED << ran, refused, forgotten >>
    PROVE  InHand'
<1>1. Agrees(Bag(m), context) /\ (row.pc # "done" => Agrees(row.bag, context'))
  BY DEF InHand, Current, Agrees
<1>2. /\ Alone' /\ Current' /\ \A q \in Messages : Past(q) => Past(q)'
      /\ \A n \in Messages : n # m => ~ Active(n) /\ message'[n] = message[n]
      /\ message'[m] = row
  BY <1>1, OneUnderWay DEF InHand
<1>3. NamedPast'
  BY <1>2 DEF InHand, NamedPast, TypeOK, Context, Named, Agrees
<1>4. OpenIsNew' /\ Forgot'
  BY DEF InHand, OpenIsNew, Forgot, Agrees
<1>5. Deciding'
  BY <1>2 DEF Deciding, At, Bag, Active, Agrees
<1>6. Taken'
  BY <1>2 DEF Taken, At, Active
<1> QED
  BY <1>2, <1>3, <1>4, <1>5, <1>6 DEF InHand

\* A step that writes the context whole.
LEMMA ContextWritten ==
    ASSUME TypeOK, InHand, NEW m \in Messages, Active(m), NEW bag \in Context, NEW pc \in Pcs,
           PersistBag(m, bag, pc), pc \notin {"new", "resolve", "done"}, ~ Past(m),
           UNCHANGED ran,
           bag.offer \in {Bag(m).offer, NoMessage} \/ (bag.offer = m /\ pc = "close"),
           bag.last \in {Bag(m).last, NoMessage} \/ (bag.last = m /\ pc = "close"),
           bag.status = "PENDING" =>
               \/ bag.offer = m /\ bag.offer # Bag(m).offer
               \/ bag.offer = Bag(m).offer /\ bag.status = Bag(m).status /\ refused' = refused,
           pc = "execute" => /\ bag.status = "CONSUMED" /\ refused' = refused
                             /\ bag.offer = Bag(m).offer /\ Bag(m).status = "PENDING",
           refused' \subseteq refused \cup ({Bag(m).offer} \ {NoMessage}),
           forgotten' = forgotten \/ (/\ forgotten' = forgotten \cup {Bag(m).last}
                                     /\ Bag(m).last # NoMessage /\ bag.last = NoMessage)
    PROVE  InHand'
<1> DEFINE row == [message[m] EXCEPT !.pc = pc, !.bag = bag]
<1>1. /\ Agrees(Bag(m), context) /\ context' = bag /\ Agrees(bag, context')
      /\ context.offer \in Messages \cup {NoMessage} /\ context.last \in Messages \cup {NoMessage}
      /\ refused \subseteq Messages /\ forgotten \subseteq Messages
      /\ NoMessage \notin Messages
  BY ConversationAssumption DEF InHand, Current, PersistBag, TypeOK, Context, Named, Agrees
<1>2. /\ row \in MessageRow /\ row.pc = pc /\ row.bag = bag
      /\ message' = [message EXCEPT ![m] = row]
  <2>1. message[m] \in MessageRow /\ message \in [Messages -> MessageRow]
    BY DEF TypeOK
  <2>2. row \in MessageRow /\ row.pc = pc /\ row.bag = bag
    BY <2>1 DEF MessageRow
  <2>3. message' = [message EXCEPT ![m].pc = pc, ![m].bag = bag]
    BY DEF PersistBag
  <2> QED
    BY <2>1, <2>2, <2>3
<1>3. /\ Alone' /\ Current' /\ \A q \in Messages : Past(q) => Past(q)'
      /\ \A n \in Messages : n # m => ~ Active(n) /\ message'[n] = message[n]
      /\ message'[m] = row
  BY <1>1, <1>2, OneUnderWay DEF InHand
<1>4. pc = "close" => Past(m)'
  BY <1>2, <1>3 DEF Past
<1>5. /\ \A q \in {context.offer, context.last} \ {NoMessage} : Past(q)
      /\ \A q \in refused \cup forgotten : Past(q)
      /\ \A q \in Messages : ran[q] # 0 => Past(q)
  BY DEF InHand, NamedPast
<1>6. NamedPast'
  <2>1. \A q \in {bag.offer, bag.last} \ {NoMessage} : Past(q)'
    BY <1>1, <1>3, <1>4, <1>5 DEF Agrees
  <2>2. \A q \in refused' \cup forgotten' : Past(q)'
    BY <1>1, <1>3, <1>5 DEF Agrees
  <2>3. \A q \in Messages : ran'[q] # 0 => Past(q)'
    BY <1>3, <1>5
  <2> QED
    BY <1>1, <2>1, <2>2, <2>3 DEF NamedPast
<1>7. ran[m] = 0 /\ m \notin refused /\ m \notin forgotten /\ m # context.offer /\ m # context.last
  BY <1>1, <1>5
<1>8. OpenIsNew'
  BY <1>1, <1>7 DEF InHand, OpenIsNew, Agrees
<1>9. Forgot'
  BY <1>1, <1>7 DEF InHand, Forgot, Agrees
<1>10. Deciding'
  BY <1>2, <1>3 DEF Deciding, At, Active
<1>11. Taken'
  <2>1. SUFFICES ASSUME NEW n \in Messages, At(n, "execute")'
                 PROVE  (/\ Bag(n).status = "CONSUMED" /\ ran[Bag(n).offer] = 0
                         /\ Bag(n).offer \notin refused)'
    BY DEF Taken
  <2>2. n = m /\ pc = "execute"
    BY <1>2, <1>3, <2>1 DEF At, Active
  <2>3. Bag(n)' = bag
    BY <1>2, <1>3, <2>2 DEF Bag
  <2> QED
    BY <1>1, <2>2, <2>3 DEF InHand, OpenIsNew, Agrees
<1> QED
  BY <1>3, <1>6, <1>8, <1>9, <1>10, <1>11 DEF InHand

\* A message that arrives alone starts from what is stored.
LEMMA AskInHand ==
    ASSUME TypeOK, InHand, ~ overlapped', NEW m \in Messages, Ask(m)
    PROVE  InHand'
<1>1. \A n \in Messages : ~ Active(n)
  BY DEF Ask, TypeOK
<1>2. PICK row \in MessageRow : /\ message' = [message EXCEPT ![m] = row]
                              /\ row.pc = "gate" /\ row.bag = context
  <2>1. PICK factual \in BOOLEAN :
          message' = [message EXCEPT ![m] = [pc |-> "gate", bag |-> context, factual |-> factual]]
    BY DEF Ask
  <2>2. [pc |-> "gate", bag |-> context, factual |-> factual] \in MessageRow
    BY DEF TypeOK, MessageRow, Pcs
  <2> QED
    BY <2>1, <2>2
<1>3. message'[m] = row /\ \A n \in Messages : n # m => message'[n] = message[n]
  BY <1>2 DEF TypeOK
<1>4. UNCHANGED << context, ran, refused, forgotten >>
  BY DEF Ask
<1>5. \A n \in Messages : Active(n)' => n = m
  BY <1>1, <1>3 DEF Active
<1>6. Alone' /\ Current'
  BY <1>2, <1>3, <1>4, <1>5 DEF Alone, Current, Bag, Agrees
<1>7. \A q \in Messages : Past(q) => Past(q)'
  BY <1>3 DEF Past, Ask, At
<1>8. NamedPast'
  BY <1>4, <1>7 DEF InHand, NamedPast, TypeOK, Context, Named
<1>9. OpenIsNew' /\ Forgot'
  BY <1>4 DEF InHand, OpenIsNew, Forgot
<1>10. Deciding' /\ Taken'
  BY <1>2, <1>3, <1>5 DEF Deciding, Taken, At, Active
<1> QED
  BY <1>6, <1>8, <1>9, <1>10 DEF InHand

LEMMA BlockedInHand ==
    ASSUME TypeOK, InHand, NEW m \in Messages, Blocked(m)
    PROVE  InHand'
<1>1. /\ message'[m] = [Unsent EXCEPT !.pc = "done"]
      /\ \A n \in Messages : n # m => message'[n] = message[n]
      /\ UNCHANGED << context, ran, refused, forgotten >>
  BY DEF Blocked, Finish, TypeOK
<1>2. message'[m].pc = "done"
  BY <1>1 DEF Unsent
<1>3. Alone' /\ Current' /\ \A q \in Messages : Past(q) => Past(q)'
  BY <1>1, <1>2 DEF InHand, Alone, Current, Active, Bag, Past
<1>4. NamedPast'
  BY <1>1, <1>3 DEF InHand, NamedPast, TypeOK, Context, Named
<1>5. OpenIsNew' /\ Forgot'
  BY <1>1 DEF InHand, OpenIsNew, Forgot
<1>6. Deciding'
  BY <1>1, <1>2 DEF InHand, Deciding, At, Bag
<1>7. Taken'
  <2>1. SUFFICES ASSUME NEW n \in Messages, At(n, "execute")'
                 PROVE  (/\ Bag(n).status = "CONSUMED" /\ ran[Bag(n).offer] = 0
                         /\ Bag(n).offer \notin refused)'
    BY DEF Taken
  <2>2. n # m /\ At(n, "execute") /\ Bag(n)' = Bag(n)
    BY <1>1, <1>2, <2>1 DEF At, Bag
  <2> QED
    BY <1>1, <2>2 DEF InHand, Taken
<1> QED
  BY <1>3, <1>4, <1>5, <1>6, <1>7 DEF InHand

\* The offer of the message under way is carried out: it is consumed already.
LEMMA ExecuteInHand ==
    ASSUME TypeOK, InHand, NEW m \in Messages, Execute(m)
    PROVE  InHand'
<1> DEFINE row == [Unsent EXCEPT !.pc = "done"]
<1>1. row \in MessageRow /\ row.pc = "done"
  BY EmptyTyped DEF Unsent, MessageRow, Pcs
<1>2. /\ message' = [message EXCEPT ![m] = row] /\ Active(m)
      /\ UNCHANGED << context, refused, forgotten >>
      /\ ran' = [ran EXCEPT ![Bag(m).offer] = @ + 1]
      /\ Agrees(Bag(m), context) /\ Bag(m).status = "CONSUMED"
  BY DEF Execute, Finish, At, Active, InHand, Current, Taken
<1>3. /\ Alone' /\ Current' /\ \A q \in Messages : Past(q) => Past(q)'
      /\ \A n \in Messages : n # m => ~ Active(n) /\ message'[n] = message[n]
      /\ message'[m] = row
  BY <1>1, <1>2, OneUnderWay DEF InHand
<1>4. context.offer \in Messages /\ Past(context.offer)
  <2>1. context.offer # NoMessage /\ context.offer \in Messages \cup {NoMessage}
    BY <1>2 DEF Execute, At, Bag, TypeOK, Context, Named, Agrees
  <2> QED
    BY <2>1 DEF InHand, NamedPast
<1>5. NamedPast'
  <2>1. \A q \in Messages : ran'[q] # 0 => ran[q] # 0 \/ q = context.offer
    BY <1>2, <1>4 DEF TypeOK, Agrees
  <2> QED
    BY <1>2, <1>3, <1>4, <2>1 DEF InHand, NamedPast, TypeOK, Context, Named
<1>6. OpenIsNew' /\ Forgot'
  BY <1>2 DEF InHand, OpenIsNew, Forgot, Agrees
<1>7. Deciding' /\ Taken'
  BY <1>1, <1>3 DEF Deciding, Taken, At, Active
<1> QED
  BY <1>3, <1>5, <1>6, <1>7 DEF InHand

LEMMA StepInHand ==
    ASSUME TypeOK, InHand, ~ overlapped', NEW m \in Messages, Step(m)
    PROVE  InHand'
<1>1. CASE Ask(m)
  BY <1>1, AskInHand
<1>2. CASE Blocked(m)
  BY <1>2, BlockedInHand
<1>3. CASE Execute(m)
  BY <1>3, ExecuteInHand
<1> DEFINE row(pc) == [message[m] EXCEPT !.pc = pc]
           over    == [Unsent EXCEPT !.pc = "done"]
<1>4. message[m] \in MessageRow /\ Bag(m) \in Context /\ Bag(m) = message[m].bag
      /\ message[m].pc \in Pcs
  BY DEF TypeOK, MessageRow, Bag
<1>5. CASE \/ NoOffer(m) \/ AskProvider(m) \/ Undecided(m) \/ Clarify(m) \/ KeepQuery(m)
           \/ NoPremise(m) \/ ReplyThenSave(m) \/ Compose(m) \/ NothingOffered(m)
           \/ Generate(m) \/ Generated(m)
  <2>1. PICK pc \in Pcs \ {"new", "execute", "done"} :
          /\ Goto(m, pc) /\ (pc = "resolve" => Bag(m).status = "PENDING")
          /\ Active(m) /\ ~ Past(m)
    BY <1>5 DEF NoOffer, AskProvider, Undecided, Clarify, KeepQuery, NoPremise, ReplyThenSave,
       Compose, NothingOffered, Generate, Generated, At, Active, Past, Pcs, Executable
  <2>2. UNCHANGED << context, ran, refused, forgotten >>
    BY <1>5 DEF NoOffer, AskProvider, Undecided, Clarify, KeepQuery, NoPremise, ReplyThenSave,
       Compose, NothingOffered, Generate, Generated
  <2>3. /\ row(pc) \in MessageRow /\ row(pc).pc = pc /\ row(pc).bag = Bag(m)
        /\ message' = [message EXCEPT ![m] = row(pc)]
    BY <1>4, <2>1 DEF MessageRow, Goto, TypeOK
  <2> QED
    BY <2>1, <2>2, <2>3, NothingWritten DEF Agrees
<1>6. CASE ReplyClosed(m) \/ Close(m) \/ RunFails(m) \/ Abandon(m)
  <2>1. over \in MessageRow /\ over.pc = "done"
    BY EmptyTyped DEF Unsent, MessageRow, Pcs
  <2>2. Finish(m) /\ Active(m) /\ UNCHANGED << context, ran, refused, forgotten >>
    BY <1>6 DEF ReplyClosed, Close, RunFails, Abandon, At, Active
  <2> QED
    BY <2>1, <2>2, NothingWritten DEF Finish, Agrees
<1>7. CASE NotExecutable(m)
  <2>1. CASE Bag(m).status = "PENDING"
    <3>1. [Bag(m) EXCEPT !.status = "EXPIRED"] \in Context
      BY <1>4 DEF Context
    <3> QED
      BY <1>4, <1>7, <2>1, <3>1, ContextWritten DEF NotExecutable, At, Active, Past, Refuse, Pcs,
         Context
  <2>2. CASE Bag(m).status # "PENDING"
    <3>1. Without(Bag(m)) \in Context
      BY <1>4 DEF Context, Without, Named
    <3> QED
      BY <1>4, <1>7, <2>2, <3>1, ContextWritten DEF NotExecutable, At, Active, Past, Pcs, Without,
         Context
  <2> QED
    BY <2>1, <2>2
<1>8. CASE SetAside(m)
  <2>1. Without(Bag(m)) \in Context
    BY <1>4 DEF Context, Without, Named
  <2> QED
    BY <1>4, <1>8, <2>1, ContextWritten DEF SetAside, At, Active, Past, Refuse, Pcs, Without, Context
<1>9. CASE Reject(m)
  <2>1. [Bag(m) EXCEPT !.status = "REJECTED"] \in Context
    BY <1>4 DEF Context
  <2> QED
    BY <1>4, <1>9, <2>1, ContextWritten DEF Reject, At, Active, Past, Refuse, Pcs, Context
<1>10. CASE Accept(m)
  <2>1. [Bag(m) EXCEPT !.status = "CONSUMED"] \in Context
    BY <1>4 DEF Context
  <2>2. Bag(m).status = "PENDING"
    BY <1>10 DEF Accept, InHand, Deciding
  <2> QED
    BY <1>4, <1>10, <2>1, <2>2, ContextWritten DEF Accept, At, Active, Past, Pcs, Context
<1>11. CASE NewQuery(m)
  <2>1. [Bag(m) EXCEPT !.last = NoMessage] \in Context
    BY <1>4 DEF Context, Named
  <2> QED
    BY <1>4, <1>11, <2>1, ContextWritten DEF NewQuery, At, Active, Past, Pcs, Context
<1>12. CASE PremiseFound(m) \/ PremiseUnanswered(m)
  <2>1. PICK list : context' = [Bag(m) EXCEPT !.premises = list]
    BY <1>12 DEF PremiseFound, PremiseUnanswered, PersistBag, PersistOnly
  <2>2. PICK new \in {[row("answer") EXCEPT !.bag = context'], row("answer")} :
          message' = [message EXCEPT ![m] = new]
    BY <1>12 DEF PremiseFound, PremiseUnanswered, PersistBag, PersistOnly, Goto, TypeOK
  <2>3. Agrees(context', Bag(m)) /\ Agrees(Bag(m), context) /\ Active(m) /\ ~ Past(m)
    BY <1>4, <1>12, <2>1 DEF PremiseFound, PremiseUnanswered, At, Active, Past, Agrees, InHand,
       Current, Context
  <2>4. context' \in Context
    BY StepTyped DEF TypeOK
  <2>5. new \in MessageRow /\ new.pc = "answer" /\ Agrees(new.bag, Bag(m))
    BY <1>4, <2>2, <2>3, <2>4 DEF MessageRow, Agrees, Pcs
  <2>6. Agrees(context', context) /\ UNCHANGED << ran, refused, forgotten >>
    BY <1>12, <2>3 DEF PremiseFound, PremiseUnanswered, Agrees
  <2> QED
    BY <2>2, <2>3, <2>5, <2>6, NothingWritten
<1>13. CASE SaveFamily(m)
  BY <1>4, <1>13, ContextWritten DEF SaveFamily, At, Active, Past, Pcs
<1>14. CASE SaveQuery(m)
  <2>1. PICK q \in {m, NoMessage, Bag(m).last} :
          PersistBag(m, [Bag(m) EXCEPT !.last = q], "close")
    BY <1>14 DEF SaveQuery
  <2>2. [Bag(m) EXCEPT !.last = q] \in Context
    BY <1>4, <2>1 DEF Context, Named
  <2> QED
    BY <1>4, <1>14, <2>1, <2>2, ContextWritten DEF SaveQuery, At, Active, Past, Pcs, Context
<1>15. CASE Offer(m)
  <2>1. [Bag(m) EXCEPT !.offer = m, !.status = "PENDING"] \in Context
    BY <1>4 DEF Context, Named
  <2>2. Bag(m).offer # m
    BY <1>15, ConversationAssumption
       DEF Offer, At, InHand, Current, Active, NamedPast, Past, Agrees
  <2> QED
    BY <1>4, <1>15, <2>1, <2>2, ContextWritten DEF Offer, At, Active, Past, Refuse, Pcs, Context
<1> QED
  BY <1>1, <1>2, <1>3, <1>5, <1>6, <1>7, <1>8, <1>9, <1>10, <1>11, <1>12, <1>13, <1>14, <1>15
     DEF Step, Gate, Resolve, Answer

LEMMA OverlapStays == TypeOK /\ Next /\ overlapped => overlapped'
BY DEF Next, Step, Ask, Blocked, Gate, NoOffer, NotExecutable, AskProvider, Resolve, Undecided,
   SetAside, Reject, Clarify, Accept, Execute, NewQuery, KeepQuery, NoPremise, PremiseFound,
   PremiseUnanswered, Answer, ReplyClosed, SaveFamily, Close, ReplyThenSave, SaveQuery, Compose,
   Generate, Generated, NothingOffered, Offer, RunFails, Abandon, Expire

LEMMA InvariantStep ==
    TypeOK /\ ConversationInvariant /\ [Next]_vars => ConversationInvariant'
<1> SUFFICES ASSUME TypeOK, ConversationInvariant, [Next]_vars, ~ overlapped'
             PROVE  InHand'
  BY DEF ConversationInvariant
<1>1. CASE \E m \in Messages : Step(m)
  <2>1. PICK m \in Messages : Step(m)
    BY <1>1
  <2>2. ~ overlapped
    BY <1>1, OverlapStays DEF Next
  <2> QED
    BY <2>1, <2>2, StepInHand DEF ConversationInvariant
<1>2. CASE (\E o \in Messages : Expire(o)) \/ UNCHANGED vars
  <2>1. UNCHANGED << context, message, ran, refused, forgotten, overlapped >>
    BY <1>2 DEF Expire, vars
  <2> QED
    BY <2>1 DEF ConversationInvariant, InHand, Alone, Current, NamedPast, OpenIsNew, Deciding, Taken,
       Forgot, Active, Bag, Past, At
<1> QED
  BY <1>1, <1>2 DEF Next

LEMMA InvariantHolds == Spec => [](TypeOK /\ ConversationInvariant)
<1>1. Init => ConversationInvariant
  <2> SUFFICES ASSUME Init PROVE InHand
    BY DEF ConversationInvariant
  <2>1. \A m \in Messages : message[m].pc = "new" /\ ran[m] = 0
    BY DEF Init, Unsent
  <2> QED
    BY <2>1 DEF Init, InHand, Alone, Current, NamedPast, OpenIsNew, Deciding, Taken, Forgot, Active,
       At, Empty, Past
<1> QED
  BY <1>1, InitTyped, NextTyped, InvariantStep, PTL DEF Spec

-----------------------------------------------------------------------------
(* The premises are kept as they were stated *)

\* What is kept of the premises is true to what was stated.
Faithful(list, s) ==
    /\ \A i \in DOMAIN s, j \in DOMAIN list : list[j].by = s[i].by => Len(list) - j <= Len(s) - i
    /\ \A i \in DOMAIN s :
          s[i].answered /\ s[i].replaced = "no" /\ Len(s) - i < PremiseLimit =>
              \E j \in DOMAIN list : list[j] = InForce(s[i].by)
    /\ \A i \in DOMAIN s : s[i].replaced = "yes" =>
          \A j \in DOMAIN list : list[j] # InForce(s[i].by)

\* A list that is faithful stays so with a premise that is new to it; without it, if nobody
\* was told.
LEMMA StatedFaithfully ==
    ASSUME NEW list \in Seq(Premise), Len(list) <= PremiseLimit,
           stated \in Seq(Statement), Faithful(list, stated),
           NEW m \in Messages, \A j \in DOMAIN list : list[j].by # m,
           \A i \in DOMAIN stated : stated[i].by # m,
           NEW r, NEW answered \in BOOLEAN
    PROVE  /\ Faithful(WithPremise(list, m, r), WithStatement(m, r, answered))
           /\ ~ answered => Faithful(list, WithStatement(m, r, answered))
<1> DEFINE new == WithPremise(list, m, r)
           n   == Len(new)
           d   == Len(list) + 1 - n
           s   == WithStatement(m, r, answered)
           l   == Len(stated)
<1>1. /\ new \in Seq(Premise) /\ n \in 1 .. PremiseLimit /\ d \in Nat
      /\ d # 0 => n = PremiseLimit
      /\ new[n] = InForce(m)
      /\ \A j \in 1 .. n - 1 :
            /\ j + d \in 1 .. Len(list)
            /\ new[j].by = list[j + d].by
            /\ \A b : new[j] = InForce(b) <=> list[j + d] = InForce(b) /\ b # r
  BY WithPremiseIs
<1>2. s \in Seq(Statement) /\ Len(s) = l + 1 /\ l \in Nat /\ s[l + 1].by = m /\ s[l + 1].replaced = "no"
  <2>1. Len(s) = l + 1 /\ l \in Nat
    BY WithStatementIs
  <2> QED
    BY <2>1, WithStatementIs
<1>2a. \A i \in 1 .. l :
         /\ s[i].by = stated[i].by /\ s[i].answered = stated[i].answered
         /\ stated[i].by # r => s[i].replaced = stated[i].replaced
         /\ stated[i].by = r => s[i].replaced = IF answered THEN "yes" ELSE "unsure"
  BY WithStatementIs
<1>2b. \A i \in 1 .. l + 1 : i # l + 1 => i \in 1 .. l
  BY <1>2
<1>2c. s[l + 1].answered = answered
  BY <1>2, WithStatementIs
<1>2d. Len(s) = l + 1 /\ l \in Nat
  BY <1>2
<1>3. PremiseLimit \in Nat /\ Len(list) \in Nat /\ n \in Nat /\ n >= 1 /\ d = Len(list) + 1 - n
  BY <1>1, ConversationAssumption
<1>4. DOMAIN list = 1 .. Len(list) /\ DOMAIN new = 1 .. n /\ DOMAIN s = 1 .. l + 1 /\ DOMAIN stated = 1 .. l
  BY <1>1, <1>2, <1>2a, <1>2b
<1>5. InForce(m).by = m /\ \A b : InForce(b) = InForce(m) => b = m
  BY DEF InForce
<1> HIDE DEF new, n, d, s, l
<1>6. ASSUME NEW i \in 1 .. l + 1, NEW j \in 1 .. n, new[j].by = s[i].by
      PROVE  n - j <= l + 1 - i
  <2>1. CASE i = l + 1
    <3>1. j = n
      BY <1>1, <1>2, <1>2a, <1>2b, <1>3, <1>4, <1>6, <2>1
    <3> QED
      BY <1>2, <1>2a, <1>2b, <1>3, <2>1, <3>1
  <2>2. CASE i # l + 1
    <3>1. i \in 1 .. l /\ s[i].by = stated[i].by /\ stated[i].by # m
      BY <1>2, <1>2a, <1>2b, <1>4, <2>2
    <3>2. j # n
      BY <1>1, <1>5, <1>6, <3>1
    <3>3. j \in 1 .. n - 1 /\ j + d \in 1 .. Len(list)
      BY <1>1, <1>3, <3>2
    <3>4. list[j + d].by = stated[i].by
      BY <1>1, <1>6, <3>1, <3>3
    <3>5. Len(list) - (j + d) <= l - i
      BY <1>4, <3>1, <3>3, <3>4 DEF Faithful, l
    <3> QED
      BY <1>1, <1>2, <1>2a, <1>2b, <1>3, <3>5
  <2> QED
    BY <2>1, <2>2
<1>7. ASSUME NEW i \in 1 .. l, s[i].answered, s[i].replaced = "no", l + 1 - i < PremiseLimit
      PROVE  /\ stated[i].by # r
             /\ \E j \in 1 .. Len(list) : list[j] = InForce(s[i].by) /\ Len(list) - j <= l - i
  <2>1. stated[i].by # r /\ stated[i].answered /\ stated[i].replaced = "no" /\ s[i].by = stated[i].by
    BY <1>2, <1>2a, <1>2b, <1>7
  <2>2. Len(stated) - i < PremiseLimit /\ i \in DOMAIN stated
    BY <1>2, <1>2a, <1>2b, <1>3, <1>4, <1>7 DEF l
  <2>3. PICK j \in DOMAIN list : list[j] = InForce(stated[i].by)
    BY <2>1, <2>2 DEF Faithful
  <2>4. list[j].by = stated[i].by
    BY <2>3 DEF InForce
  <2>5. Len(list) - j <= l - i
    BY <2>2, <2>4 DEF Faithful, l
  <2> QED
    BY <1>4, <2>1, <2>3, <2>5
<1>8. ASSUME NEW i \in 1 .. l + 1, s[i].answered, s[i].replaced = "no", l + 1 - i < PremiseLimit
      PROVE  \E j \in 1 .. n : new[j] = InForce(s[i].by)
  <2>1. CASE i = l + 1
    BY <1>1, <1>2, <1>2a, <1>2b, <1>3, <2>1
  <2>2. CASE i # l + 1
    <3>1. i \in 1 .. l
      BY <1>2, <1>2a, <1>2b, <2>2
    <3>2. PICK j \in 1 .. Len(list) :
            list[j] = InForce(s[i].by) /\ Len(list) - j <= l - i
      BY <1>7, <1>8, <3>1
    <3>3. s[i].by # r
      BY <1>2, <1>2a, <1>2b, <1>7, <1>8, <3>1
    <3>4. PICK k \in 1 .. n - 1 : k + d = j
      <4>1. j - d \in 1 .. n - 1 /\ (j - d) + d = j
        BY <1>1, <1>2, <1>2a, <1>2b, <1>3, <1>8, <3>1, <3>2
      <4> QED
        BY <4>1
    <3>5. k \in 1 .. n /\ new[k] = InForce(s[i].by)
      <4>1. k \in 1 .. n
        BY <1>3, <3>4
      <4>2. list[k + d] = InForce(s[i].by)
        BY <3>2, <3>4
      <4>3. new[k] = InForce(s[i].by) <=> list[k + d] = InForce(s[i].by) /\ s[i].by # r
        BY <1>1, <3>4
      <4> QED
        BY <3>3, <4>1, <4>2, <4>3
    <3> QED
      BY <3>5
  <2> QED
    BY <2>1, <2>2
<1>9. ASSUME NEW i \in 1 .. l + 1, s[i].replaced = "yes", NEW j \in 1 .. n
      PROVE  new[j] # InForce(s[i].by)
  <2>0. i # l + 1
    BY <1>2, <1>2a, <1>2b, <1>9
  <2>1. i \in 1 .. l /\ s[i].by = stated[i].by /\ stated[i].by # m
    BY <1>2, <1>2a, <1>2b, <1>4, <2>0
  <2>2. CASE j = n
    BY <1>1, <1>5, <2>1, <2>2
  <2>3. CASE j # n
    <3>1. j \in 1 .. n - 1 /\ j + d \in DOMAIN list
      BY <1>1, <1>3, <1>4, <2>3
    <3>2. CASE stated[i].by = r
      BY <1>1, <2>1, <3>1, <3>2
    <3>3. CASE stated[i].by # r
      <4>1. stated[i].replaced = "yes" /\ i \in DOMAIN stated
        BY <1>2, <1>2a, <1>2b, <1>4, <1>9, <2>1, <3>3
      <4>2. list[j + d] # InForce(stated[i].by)
        BY <3>1, <4>1 DEF Faithful
      <4> QED
        BY <1>1, <2>1, <3>1, <4>2
    <3> QED
      BY <3>2, <3>3
  <2> QED
    BY <2>2, <2>3
<1>10. Faithful(new, s)
  <2>1. \A i \in DOMAIN s, j \in DOMAIN new : new[j].by = s[i].by => Len(new) - j <= Len(s) - i
    BY <1>2, <1>2a, <1>2b, <1>4, <1>6 DEF n
  <2>2. \A i \in DOMAIN s :
          s[i].answered /\ s[i].replaced = "no" /\ Len(s) - i < PremiseLimit =>
              \E j \in DOMAIN new : new[j] = InForce(s[i].by)
    <3> SUFFICES ASSUME NEW i \in DOMAIN s, s[i].answered, s[i].replaced = "no",
                        Len(s) - i < PremiseLimit
                 PROVE  \E j \in DOMAIN new : new[j] = InForce(s[i].by)
      OBVIOUS
    <3>1. i \in 1 .. l + 1
      BY <1>4
    <3>2. l + 1 - i < PremiseLimit
      BY <1>2d, <3>1
    <3>3. PICK j \in 1 .. n : new[j] = InForce(s[i].by)
      BY <1>8, <3>1, <3>2
    <3> QED
      BY <1>4, <3>3
  <2>3. \A i \in DOMAIN s : s[i].replaced = "yes" =>
          \A j \in DOMAIN new : new[j] # InForce(s[i].by)
    BY <1>4, <1>9
  <2> QED
    BY <2>1, <2>2, <2>3, Zenon DEF Faithful
<1>11. ASSUME ~ answered
       PROVE  Faithful(list, s)
  <2>1. ASSUME NEW i \in 1 .. l + 1, NEW j \in 1 .. Len(list), list[j].by = s[i].by
        PROVE  Len(list) - j <= l + 1 - i
    <3>1. i \in 1 .. l /\ i \in DOMAIN stated /\ list[j].by = stated[i].by
      BY <1>2, <1>2a, <1>2b, <1>4, <2>1
    <3>2. Len(list) - j <= l - i
      BY <1>4, <3>1 DEF Faithful, l
    <3> QED
      BY <1>2, <1>2a, <1>2b, <1>3, <3>2
  <2>2. ASSUME NEW i \in 1 .. l + 1, s[i].answered, s[i].replaced = "no", l + 1 - i < PremiseLimit
        PROVE  \E j \in 1 .. Len(list) : list[j] = InForce(s[i].by)
    <3>1. i # l + 1
      BY <1>11, <1>2c, <2>2, Zenon
    <3>2. i \in 1 .. l
      BY <1>2b, <3>1
    <3> QED
      BY <1>7, <2>2, <3>2
  <2>3. ASSUME NEW i \in 1 .. l + 1, s[i].replaced = "yes", NEW j \in 1 .. Len(list)
        PROVE  list[j] # InForce(s[i].by)
    <3>1. i \in 1 .. l /\ s[i].by = stated[i].by /\ stated[i].replaced = "yes"
      BY <1>2, <1>2a, <1>2b, <1>11, <2>3
    <3> QED
      BY <1>4, <3>1 DEF Faithful
  <2> QED
    <3>1. \A i \in DOMAIN s, j \in DOMAIN list : list[j].by = s[i].by => Len(list) - j <= Len(s) - i
      BY <1>2, <1>2a, <1>2b, <1>4, <2>1
    <3>2. \A i \in DOMAIN s :
            s[i].answered /\ s[i].replaced = "no" /\ Len(s) - i < PremiseLimit =>
                \E j \in DOMAIN list : list[j] = InForce(s[i].by)
      <4> SUFFICES ASSUME NEW i \in DOMAIN s, s[i].answered, s[i].replaced = "no",
                          Len(s) - i < PremiseLimit
                   PROVE  \E j \in DOMAIN list : list[j] = InForce(s[i].by)
        OBVIOUS
      <4>1. i \in 1 .. l + 1
        BY <1>4
      <4>2. l + 1 - i < PremiseLimit
        BY <1>2d, <4>1
      <4>3. PICK j \in 1 .. Len(list) : list[j] = InForce(s[i].by)
        BY <2>2, <4>1, <4>2
      <4> QED
        BY <1>4, <4>3
    <3>3. \A i \in DOMAIN s : s[i].replaced = "yes" =>
            \A j \in DOMAIN list : list[j] # InForce(s[i].by)
      BY <1>4, <2>3
    <3> QED
      BY <3>1, <3>2, <3>3, Zenon DEF Faithful
<1> QED
  BY <1>10, <1>11 DEF new, s

\* The message has been asked for its premise.
Heard(q) == message[q].pc \notin {"new", "gate", "resolve", "execute", "probe", "premise"}

HeardOnly(list) == \A j \in DOMAIN list : Heard(list[j].by)

PremisesHeld ==
    /\ \A list \in {stated, context.premises} : HeardOnly(list)
    /\ Faithful(context.premises, stated)
    /\ \A m \in Messages : Active(m) => /\ HeardOnly(Bag(m).premises)
                                       /\ Faithful(Bag(m).premises, stated)

PremisesInvariant == ~ overlapped => PremisesHeld

\* What a message does from here on, it does with its premise heard.
LEMMA HeardStays ==
    ASSUME TypeOK, Next, NEW q \in Messages, Heard(q)
    PROVE  Heard(q)'
<1>1. CASE \E o \in Messages : Expire(o)
  BY <1>1 DEF Expire, Heard
<1>2. CASE \E m \in Messages : Step(m)
  <2>1. PICK m \in Messages : Step(m)
    BY <1>2
  <2>2. \A n \in Messages : n # m => message'[n] = message[n]
    BY <2>1 DEF TypeOK, Step, Ask, Blocked, Gate, NoOffer, NotExecutable, AskProvider, Resolve,
       Undecided, SetAside, Reject, Clarify, Accept, Execute, NewQuery, KeepQuery, NoPremise,
       PremiseFound, PremiseUnanswered, Answer, ReplyClosed, SaveFamily, Close, ReplyThenSave,
       SaveQuery, Compose, Generate, Generated, NothingOffered, Offer, RunFails, Abandon,
       Goto, Finish, PersistBag, PersistOnly
  <2>3. CASE q # m
    BY <2>2, <2>3 DEF Heard
  <2>4. CASE q = m
    <3>1. \/ Answer(m) \/ NothingOffered(m) \/ Offer(m) \/ RunFails(m) \/ Abandon(m)
      BY <2>1, <2>4 DEF Heard, At, Step, Ask, Blocked, Gate, NoOffer, NotExecutable, AskProvider,
         Resolve, Undecided, SetAside, Reject, Clarify, Accept, Execute, NewQuery, KeepQuery,
         NoPremise, PremiseFound, PremiseUnanswered
    <3>2. \/ \E pc \in {"save", "close", "offer", "generate"} :
               Goto(m, pc) \/ \E bag : PersistBag(m, bag, pc)
          \/ Finish(m)
      <4>1. CASE SaveQuery(m)
        BY <4>1 DEF SaveQuery
      <4> QED
        BY <3>1, <4>1 DEF Answer, ReplyClosed, SaveFamily, Close, ReplyThenSave, Compose, Generate,
           Generated, NothingOffered, Offer, RunFails, Abandon
    <3>3. message \in [Messages -> MessageRow]
      BY DEF TypeOK
    <3>4. message'[m].pc \in {"save", "close", "offer", "generate", "done"}
      BY <3>2, <3>3 DEF Goto, Finish, Unsent, PersistBag, MessageRow
    <3> QED
      BY <2>4, <3>4 DEF Heard
  <2> QED
    BY <2>3, <2>4
<1> QED
  BY <1>1, <1>2 DEF Next

\* A step that states nothing writes and takes in hand only premises that were there.
LEMMA NothingStated ==
    ASSUME TypeOK, PremisesHeld, NEW m \in Messages, Step(m), ~ PremiseFound(m),
           ~ PremiseUnanswered(m)
    PROVE  /\ stated' = stated
           /\ \/ context'.premises = context.premises
              \/ Active(m) /\ context'.premises = Bag(m).premises
           /\ \A n \in Messages : Active(n)' =>
                 \/ Active(n) /\ Bag(n)'.premises = Bag(n).premises
                 \/ Bag(n)'.premises = context.premises
<1>1. stated' = stated
  BY DEF Step, Ask, Blocked, Gate, NoOffer, NotExecutable, AskProvider, Resolve, Undecided,
     SetAside, Reject, Clarify, Accept, Execute, NewQuery, KeepQuery, NoPremise, Answer,
     ReplyClosed, SaveFamily, Close, ReplyThenSave, SaveQuery, Compose, Generate, Generated,
     NothingOffered, Offer, RunFails, Abandon
<1>2. message[m] \in MessageRow /\ Bag(m) \in Context /\ message \in [Messages -> MessageRow]
  BY DEF TypeOK, MessageRow, Bag
<1>3. CASE Ask(m)
  BY <1>1, <1>2, <1>3 DEF Ask, Active, Bag
<1>4. CASE \/ NoOffer(m) \/ AskProvider(m) \/ Undecided(m) \/ Clarify(m) \/ KeepQuery(m)
           \/ NoPremise(m) \/ ReplyThenSave(m) \/ Compose(m) \/ NothingOffered(m)
           \/ Generate(m) \/ Generated(m)
  <2>1. context' = context /\ Active(m) /\ \E pc \in Pcs : Goto(m, pc)
    BY <1>4 DEF NoOffer, AskProvider, Undecided, Clarify, KeepQuery, NoPremise, ReplyThenSave,
       Compose, NothingOffered, Generate, Generated, At, Active, Pcs
  <2> QED
    BY <1>1, <1>2, <2>1 DEF Goto, Active, Bag, MessageRow
<1>5. CASE Blocked(m) \/ Execute(m) \/ ReplyClosed(m) \/ Close(m) \/ RunFails(m) \/ Abandon(m)
  <2>1. context' = context /\ Finish(m)
    BY <1>5 DEF Blocked, Execute, ReplyClosed, Close, RunFails, Abandon
  <2> QED
    BY <1>1, <1>2, <2>1 DEF Finish, Active, Bag, Unsent
<1>6. CASE NotExecutable(m) \/ SetAside(m) \/ Reject(m) \/ Accept(m) \/ NewQuery(m)
           \/ SaveFamily(m) \/ SaveQuery(m) \/ Offer(m)
  <2>1. Active(m)
    BY <1>6 DEF NotExecutable, SetAside, Reject, Accept, NewQuery, SaveFamily, SaveQuery, Offer, At,
       Active
  <2>2. PICK bag \in {context'}, pc \in Pcs : PersistBag(m, bag, pc) /\ bag.premises = Bag(m).premises
    <3>1. CASE NotExecutable(m) \/ SetAside(m)
      BY <1>2, <3>1 DEF NotExecutable, SetAside, Without, Context, Pcs, PersistBag
    <3>2. CASE Reject(m) \/ Accept(m) \/ NewQuery(m) \/ SaveFamily(m) \/ Offer(m)
      BY <1>2, <3>2 DEF Reject, Accept, NewQuery, SaveFamily, Offer, Context, Pcs, PersistBag
    <3>3. CASE SaveQuery(m)
      <4>1. PICK q : PersistBag(m, [Bag(m) EXCEPT !.last = q], "close")
        BY <3>3 DEF SaveQuery
      <4>2. [Bag(m) EXCEPT !.last = q].premises = Bag(m).premises /\ "close" \in Pcs
        BY <1>2 DEF Context, Pcs
      <4> QED
        BY <4>1, <4>2 DEF PersistBag
    <3> QED
      BY <1>6, <3>1, <3>2, <3>3
  <2>3. context' = bag /\ \A n \in Messages : n # m => message'[n] = message[n]
    BY <1>2, <2>2 DEF PersistBag
  <2>4. message'[m].bag = bag
    BY <1>2, <2>2 DEF PersistBag, MessageRow
  <2> QED
    BY <1>1, <2>1, <2>2, <2>3, <2>4 DEF Active, Bag
<1> QED
  BY <1>3, <1>4, <1>5, <1>6 DEF Step, Gate, Resolve, Answer

\* A premise is stated: nobody else has a copy.
LEMMA PremiseStated ==
    ASSUME TypeOK, Alone, PremisesHeld, ~ overlapped, \A q \in Messages : Heard(q) => Heard(q)',
           NEW m \in Messages, PremiseFound(m) \/ PremiseUnanswered(m)
    PROVE  PremisesHeld'
<1>1. PICK list \in Seq(Premise), bag \in Context, r \in Named, answered \in BOOLEAN :
        /\ list = Bag(m).premises
        /\ context' = bag /\ bag.premises = WithPremise(list, m, r)
        /\ State(m, r, answered)
        /\ \/ PersistBag(m, bag, "answer")
           \/ ~ answered /\ PersistOnly(m, bag, "answer")
  <2>1. PICK r \in Named, answered \in BOOLEAN :
          /\ State(m, r, answered)
          /\ \/ PersistBag(m, [Bag(m) EXCEPT !.premises = WithPremise(@, m, r)], "answer")
             \/ /\ ~ answered
                /\ PersistOnly(m, [Bag(m) EXCEPT !.premises = WithPremise(@, m, r)], "answer")
    <3>1. CASE PremiseFound(m)
      <4>1. PICK r \in Named : /\ PersistBag(m, [Bag(m) EXCEPT !.premises = WithPremise(@, m, r)], "answer")
                              /\ State(m, r, TRUE)
        BY <3>1 DEF PremiseFound, Replaceable, Named
      <4> QED
        BY <4>1
    <3>2. CASE PremiseUnanswered(m)
      <4>1. PICK r \in Named : /\ PersistOnly(m, [Bag(m) EXCEPT !.premises = WithPremise(@, m, r)], "answer")
                              /\ State(m, r, FALSE)
        BY <3>2 DEF PremiseUnanswered, Replaceable, Named
      <4> QED
        BY <4>1
    <3> QED
      BY <3>1, <3>2
  <2>2. context' = [Bag(m) EXCEPT !.premises = WithPremise(@, m, r)]
    BY <2>1 DEF PersistBag, PersistOnly
  <2>3. Bag(m) \in Context
    BY DEF TypeOK, MessageRow, Bag
  <2>4. context'.premises = WithPremise(Bag(m).premises, m, r) /\ Bag(m).premises \in Seq(Premise)
    BY <2>2, <2>3 DEF Context
  <2>5. context' \in Context
    BY StepTyped DEF TypeOK, Step
  <2> QED
    BY <2>1, <2>2, <2>4, <2>5
<1>2. /\ message'[m].pc = "answer"
      /\ message'[m].bag.premises \in {list, bag.premises}
      /\ answered => message'[m].bag.premises = bag.premises
      /\ \A n \in Messages : n # m => message'[n] = message[n]
  <2>1. message \in [Messages -> MessageRow] /\ message[m] \in MessageRow
    BY DEF TypeOK
  <2>2. CASE PersistBag(m, bag, "answer")
    BY <2>1, <2>2 DEF PersistBag, MessageRow
  <2>3. CASE ~ answered /\ PersistOnly(m, bag, "answer")
    BY <1>1, <2>1, <2>3 DEF PersistOnly, Goto, MessageRow, Bag
  <2> QED
    BY <1>1, <2>2, <2>3
<1>3. At(m, "premise") /\ Active(m) /\ ~ Heard(m)
  BY DEF PremiseFound, PremiseUnanswered, At, Active, Heard
<1>4. \A n \in Messages : Active(n)' => n = m
  BY <1>2, <1>3 DEF Alone, Active
<1>5. /\ list \in Seq(Premise) /\ Len(list) <= PremiseLimit /\ stated \in Seq(Statement)
      /\ HeardOnly(list) /\ HeardOnly(stated) /\ Faithful(list, stated)
  BY <1>1, <1>3 DEF TypeOK, MessageRow, Context, Bag, PremisesHeld
<1>6. /\ \A j \in DOMAIN list : list[j] \in Premise /\ list[j].by \in Messages
      /\ \A i \in DOMAIN stated : stated[i] \in Statement /\ stated[i].by \in Messages
  <2>1. \A j \in DOMAIN list : list[j] \in Premise
    BY <1>5
  <2>2. \A i \in DOMAIN stated : stated[i] \in Statement
    BY <1>5
  <2> QED
    BY <2>1, <2>2 DEF Premise, Statement
<1>7. /\ \A j \in DOMAIN list : list[j].by # m
      /\ \A i \in DOMAIN stated : stated[i].by # m
  BY <1>3, <1>5 DEF HeardOnly
<1>8. stated' = WithStatement(m, r, answered)
  BY <1>1 DEF State
<1>9. Faithful(bag.premises, stated') /\ (~ answered => Faithful(list, stated'))
  BY <1>1, <1>5, <1>7, <1>8, StatedFaithfully
<1>10. Heard(m)'
  BY <1>2 DEF Heard
<1>11. HeardOnly(list)'
  BY <1>5, <1>6 DEF HeardOnly
<1>12. HeardOnly(bag.premises)'
  <2> DEFINE new == WithPremise(list, m, r)
             d   == Len(list) + 1 - Len(new)
  <2>1. /\ new \in Seq(Premise) /\ Len(new) \in Nat /\ new[Len(new)] = InForce(m)
        /\ \A j \in 1 .. Len(new) - 1 : j + d \in 1 .. Len(list) /\ new[j].by = list[j + d].by
    <3>1. /\ new \in Seq(Premise) /\ new[Len(new)] = InForce(m)
          /\ \A j \in 1 .. Len(new) - 1 : j + d \in 1 .. Len(list) /\ new[j].by = list[j + d].by
      BY <1>5, WithPremiseIs
    <3> QED
      BY <3>1
  <2> HIDE DEF new, d
  <2>2. ASSUME NEW j \in DOMAIN new
        PROVE  Heard(new[j].by)'
    <3>1. CASE j = Len(new)
      BY <1>10, <2>1, <3>1 DEF InForce
    <3>2. CASE j # Len(new)
      <4>1. j + d \in DOMAIN list /\ new[j].by = list[j + d].by
        BY <1>5, <2>1, <3>2
      <4> QED
        BY <1>11, <4>1 DEF HeardOnly
    <3> QED
      BY <3>1, <3>2
  <2> QED
    BY <1>1, <2>2 DEF HeardOnly, new
<1>13. HeardOnly(stated)'
  <2>1. /\ stated' \in Seq(Statement) /\ Len(stated') = Len(stated) + 1
        /\ stated'[Len(stated')].by = m
        /\ \A i \in 1 .. Len(stated) : stated'[i].by = stated[i].by
    BY <1>5, <1>8, WithStatementIs
  <2>2. ASSUME NEW i \in DOMAIN stated'
        PROVE  Heard(stated[i].by)'
    <3>1. CASE i = Len(stated')
      BY <1>10, <2>1, <3>1
    <3>2. CASE i # Len(stated')
      <4>1. i \in DOMAIN stated /\ stated'[i].by = stated[i].by
        BY <1>5, <2>1, <3>2
      <4>2. PICK q \in Messages : q = stated[i].by /\ Heard(q)
        BY <1>5, <1>6, <4>1 DEF HeardOnly
      <4>3. Heard(q)'
        BY <4>2
      <4> QED
        BY <4>1, <4>2, <4>3
    <3> QED
      BY <3>1, <3>2
  <2> QED
    BY <2>2 DEF HeardOnly
<1>14. /\ HeardOnly(Bag(m).premises)' /\ Faithful(Bag(m).premises, stated)'
  <2>1. PICK kept : kept = message'[m].bag.premises
    OBVIOUS
  <2>2. kept = bag.premises \/ (~ answered /\ kept = list)
    BY <1>2, <2>1
  <2>3. HeardOnly(kept)' /\ Faithful(kept, stated')
    BY <1>9, <1>11, <1>12, <2>2
  <2> QED
    BY <2>1, <2>3 DEF Bag, HeardOnly
<1>15. HeardOnly(context.premises)' /\ Faithful(context.premises, stated)'
  BY <1>1, <1>9, <1>12 DEF HeardOnly
<1> QED
  BY <1>4, <1>13, <1>14, <1>15 DEF PremisesHeld

\* Whatever else a step does, the premises it leaves were there.
LEMMA PremisesKept ==
    ASSUME PremisesHeld, \A q \in Messages : Heard(q) => Heard(q)', TypeOK, stated' = stated,
           \/ context'.premises = context.premises
           \/ \E n \in Messages : Active(n) /\ context'.premises = Bag(n).premises,
           \A n \in Messages : Active(n)' =>
               \/ Active(n) /\ Bag(n)'.premises = Bag(n).premises
               \/ Bag(n)'.premises = context.premises
    PROVE  PremisesHeld'
<1>1. ASSUME NEW list \in Seq(Premise), HeardOnly(list)
      PROVE  HeardOnly(list)'
  <2>1. \A j \in DOMAIN list : list[j] \in Premise
    OBVIOUS
  <2> QED
    BY <1>1, <2>1 DEF HeardOnly, Premise
<1>2. HeardOnly(stated)'
  <2>1. ASSUME NEW i \in DOMAIN stated'
        PROVE  Heard(stated[i].by)'
    <3>1. PICK q \in Messages : q = stated[i].by /\ Heard(q)
      <4>1. i \in DOMAIN stated /\ stated[i] \in Statement
        BY DEF TypeOK
      <4> QED
        BY <4>1 DEF PremisesHeld, HeardOnly, Statement
    <3> QED
      BY <3>1
  <2> QED
    BY <2>1 DEF HeardOnly
<1>3. \A list : HeardOnly(list) /\ list \in Seq(Premise) /\ Faithful(list, stated) =>
          HeardOnly(list)' /\ Faithful(list, stated')
  BY <1>1
<1>4. context.premises \in Seq(Premise) /\ \A n \in Messages : Bag(n).premises \in Seq(Premise)
  BY DEF TypeOK, MessageRow, Context, Bag
<1>5. HeardOnly(context.premises)' /\ Faithful(context.premises, stated)'
  <2>1. PICK list : /\ list = context'.premises /\ list \in Seq(Premise)
                    /\ HeardOnly(list) /\ Faithful(list, stated)
    BY <1>4 DEF PremisesHeld
  <2> QED
    BY <1>3, <2>1 DEF HeardOnly
<1>6. ASSUME NEW n \in Messages, Active(n)'
      PROVE  HeardOnly(Bag(n).premises)' /\ Faithful(Bag(n).premises, stated)'
  <2>1. PICK list : /\ list = Bag(n)'.premises /\ list \in Seq(Premise)
                    /\ HeardOnly(list) /\ Faithful(list, stated)
    BY <1>4, <1>6 DEF PremisesHeld
  <2> QED
    BY <1>3, <2>1 DEF HeardOnly, Bag
<1> QED
  BY <1>2, <1>5, <1>6 DEF PremisesHeld

LEMMA PremisesStep ==
    TypeOK /\ ConversationInvariant /\ PremisesInvariant /\ [Next]_vars => PremisesInvariant'
<1> SUFFICES ASSUME TypeOK, ConversationInvariant, PremisesInvariant, [Next]_vars, ~ overlapped'
             PROVE  PremisesHeld'
  BY DEF PremisesInvariant
<1>1. CASE \E m \in Messages : Step(m)
  <2>1. PICK m \in Messages : Step(m)
    BY <1>1
  <2>2. ~ overlapped /\ PremisesHeld /\ Alone
    BY <1>1, OverlapStays DEF Next, PremisesInvariant, ConversationInvariant, InHand
  <2>3. \A q \in Messages : Heard(q) => Heard(q)'
    BY <1>1, HeardStays DEF Next
  <2>4. CASE PremiseFound(m) \/ PremiseUnanswered(m)
    BY <2>2, <2>3, <2>4, PremiseStated
  <2>5. CASE ~ PremiseFound(m) /\ ~ PremiseUnanswered(m)
    BY <2>1, <2>2, <2>3, <2>5, NothingStated, PremisesKept
  <2> QED
    BY <2>4, <2>5
<1>2. CASE (\E o \in Messages : Expire(o)) \/ UNCHANGED vars
  <2>1. UNCHANGED << context, message, stated, overlapped >>
    BY <1>2 DEF Expire, vars
  <2> QED
    BY <2>1 DEF PremisesInvariant, PremisesHeld, HeardOnly, Heard, Active, Bag
<1> QED
  BY <1>1, <1>2 DEF Next

LEMMA PremisesHold == Spec => []PremisesInvariant
<1>1. Init => PremisesInvariant
  BY DEF Init, PremisesInvariant, PremisesHeld, HeardOnly, Faithful, Active, Empty, Unsent
<1> QED
  BY <1>1, InvariantHolds, PremisesStep, PTL DEF Spec

-----------------------------------------------------------------------------
(* What follows *)

\* As long as no messages overlap, an offer is carried out at most once and never after it
\* was rejected, set aside, replaced or found expired.
THEOREM OffersRunOnce == Spec => OfferRunsOnce
<1>1. TypeOK /\ ConversationInvariant /\ [Next]_vars =>
        [\A o \in Messages :
            ran'[o] # ran[o] => overlapped \/ (ran[o] = 0 /\ o \notin refused)]_vars
  <2> SUFFICES ASSUME TypeOK, ConversationInvariant, Next, NEW o \in Messages, ran'[o] # ran[o],
                      ~ overlapped
               PROVE  ran[o] = 0 /\ o \notin refused
    BY DEF vars
  <2>1. PICK m \in Messages : Execute(m)
    BY DEF Next, Step, Ask, Blocked, Gate, NoOffer, NotExecutable, AskProvider, Resolve, Undecided,
       SetAside, Reject, Clarify, Accept, NewQuery, KeepQuery, NoPremise, PremiseFound,
       PremiseUnanswered, Answer, ReplyClosed, SaveFamily, Close, ReplyThenSave, SaveQuery, Compose,
       Generate, Generated, NothingOffered, Offer, RunFails, Abandon, Expire
  <2>2. o = Bag(m).offer
    BY <2>1 DEF Execute, TypeOK
  <2> QED
    BY <2>1, <2>2 DEF ConversationInvariant, InHand, Taken, Execute
<1> QED
  BY <1>1, InvariantHolds, PTL DEF Spec, OfferRunsOnce

\* As long as no messages overlap, a query an independent question put an end to does not
\* come back.
THEOREM ForgottenQueriesStay == Spec => []ForgottenStaysForgotten
<1>1. ConversationInvariant => ForgottenStaysForgotten
  BY DEF ConversationInvariant, InHand, Forgot, ForgottenStaysForgotten
<1> QED
  BY <1>1, InvariantHolds, PTL

\* As long as no messages overlap, a premise whose write was acknowledged stays in force until
\* it is replaced or as many have been stated after it as the list keeps.
THEOREM PremisesAreKept == Spec => []PremisesRemain
<1>1. PremisesInvariant => PremisesRemain
  BY DEF PremisesInvariant, PremisesHeld, Faithful, PremisesRemain
<1> QED
  BY <1>1, PremisesHold, PTL

\* As long as no messages overlap, a premise the user has replaced is not in force again.
THEOREM ReplacedPremisesStay == Spec => []ReplacedStaysReplaced
<1>1. PremisesInvariant => ReplacedStaysReplaced
  BY DEF PremisesInvariant, PremisesHeld, Faithful, ReplacedStaysReplaced
<1> QED
  BY <1>1, PremisesHold, PTL

=============================================================================
