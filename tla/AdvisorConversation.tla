-------------------------- MODULE AdvisorConversation --------------------------
(***************************************************************************)
(* The analytical context of one conversation with the advisor, while its  *)
(* messages are answered: the action a reply offered, which a later        *)
(* message may accept, the last query, which a follow-up continues, and    *)
(* the premises the user stated.                                           *)
(*                                                                         *)
(* execute reads the context once, with the conversation, and every change *)
(* writes the whole of it back; nothing keeps a second message from being  *)
(* answered at the same time.  Each call of a provider and each statement  *)
(* that matters to the others is a step.  Offers, queries and premises are *)
(* named by the message that brought them about.                           *)
(***************************************************************************)
EXTENDS Naturals, Sequences

CONSTANTS
    Messages,   \* messages the user sends
    NoMessage,
    PremiseLimit   \* premises a conversation keeps, replaced ones included: 8

ASSUME ConversationAssumption == NoMessage \notin Messages /\ PremiseLimit \in Nat \ {0}

VARIABLES
    context,     \* ai_conversations.analytical_context
    message,     \* what the request of each message is doing
    run,         \* the ai_runs row of each message
    old,         \* offers made more than 30 minutes ago
    ran,         \* history: how often each offer was carried out
    refused,     \* history: offers rejected, set aside, replaced, or found expired
    forgotten,   \* history: queries an independent question has put an end to
    stated,      \* history: the premises stated, in order, until messages overlap
    overlapped   \* history: two messages were answered at the same time

vars == << context, message, run, old, ran, refused, forgotten, stated, overlapped >>

-----------------------------------------------------------------------------
(* Data *)

Named == Messages \cup {NoMessage}

\* userAssumptions: a premise is ACTIVE until another replaces it, and stays in the list.
Premise == [by: Messages, active: BOOLEAN]
InForce(m) == [by |-> m, active |-> TRUE]

Context == [offer: Named, status: {"none", "PENDING", "CONSUMED", "REJECTED", "EXPIRED"},
            last: Named, premises: Seq(Premise)]
Empty == [offer |-> NoMessage, status |-> "none", last |-> NoMessage, premises |-> << >>]

Coherent(c) == c.status = "none" <=> c.offer = NoMessage

Pcs == {"new", "gate", "resolve", "execute", "probe", "premise", "answer",
        "save", "close", "generate", "offer", "done"}
MessageRow == [pc: Pcs, bag: Context, factual: BOOLEAN]
Unsent == [pc |-> "new", bag |-> Empty, factual |-> FALSE]

\* answered: the write of the premise was acknowledged; replaced: likewise.
Statement == [by: Messages, answered: BOOLEAN, replaced: {"no", "unsure", "yes"}]

\* FAILED stands for TIMEOUT too.
RunStatus == {"none", "STARTED", "SUCCEEDED", "FAILED", "LIMIT_BLOCKED"}

TypeOK ==
    /\ context \in Context
    /\ message \in [Messages -> MessageRow]
    /\ run \in [Messages -> RunStatus]
    /\ old \subseteq Messages
    /\ ran \in [Messages -> Nat]
    /\ refused \subseteq Messages
    /\ forgotten \subseteq Messages
    /\ stated \in Seq(Statement)
    /\ overlapped \in BOOLEAN
    /\ Coherent(context) /\ Len(context.premises) <= PremiseLimit
    /\ \A m \in Messages :
          /\ Coherent(message[m].bag) /\ Len(message[m].bag.premises) <= PremiseLimit
          /\ message[m].pc \in {"resolve", "execute"} => message[m].bag.offer # NoMessage
          /\ message[m].pc = "generate" => run[m] = "STARTED"
          /\ message[m].pc \in {"offer", "close"} => run[m] \in {"none", "SUCCEEDED"}
          /\ message[m].pc \notin {"generate", "offer", "close", "done"} => run[m] = "none"

Init ==
    /\ context = Empty
    /\ message = [m \in Messages |-> Unsent]
    /\ run = [m \in Messages |-> "none"]
    /\ old = {}
    /\ ran = [m \in Messages |-> 0]
    /\ refused = {}
    /\ forgotten = {}
    /\ stated = << >>
    /\ overlapped = FALSE

-----------------------------------------------------------------------------
(* Helpers *)

At(m, pc) == message[m].pc = pc
Bag(m)    == message[m].bag
Factual(m) == message[m].factual   \* not asked for an interpretation
Active(m) == message[m].pc \notin {"new", "done"}

Goto(m, pc) == message' = [message EXCEPT ![m].pc = pc]
Finish(m)   == message' = [message EXCEPT ![m] = [Unsent EXCEPT !.pc = "done"]]

\* The table is written and the copy in hand is not: its answer is lost, or a mutant.
PersistOnly(m, bag, pc) ==
    /\ context' = bag
    /\ Goto(m, pc)

\* persistBag: the whole context is written, whatever it has become meanwhile.
PersistBag(m, bag, pc) ==
    /\ context' = bag
    /\ message' = [message EXCEPT ![m].pc = pc, ![m].bag = bag]

Without(bag) == [bag EXCEPT !.offer = NoMessage, !.status = "none"]
Refuse(m)    == refused' = (refused \cup {Bag(m).offer}) \ {NoMessage}

\* Mutant: an offer that is over counts as open.
ExecutableUnlessOld(m) == Bag(m).offer \notin old
Executable(m) == Bag(m).status = "PENDING" /\ Bag(m).offer \notin old

-----------------------------------------------------------------------------
(* A message arrives *)

\* The conversation is read, then the limiter asked: over the limit, or without Redis,
\* only a run is recorded.
Ask(m) ==
    /\ At(m, "new")
    /\ \E factual \in BOOLEAN :
          message' = [message EXCEPT ![m] = [pc |-> "gate", bag |-> context, factual |-> factual]]
    /\ overlapped' = (overlapped \/ \E n \in Messages : Active(n))
    /\ UNCHANGED << context, run, old, ran, refused, forgotten, stated >>

Blocked(m) ==
    /\ At(m, "new")
    /\ Finish(m)
    /\ run' \in {[run EXCEPT ![m] = s] : s \in {"LIMIT_BLOCKED", "FAILED"}}
    /\ UNCHANGED << context, old, ran, refused, forgotten, stated, overlapped >>

-----------------------------------------------------------------------------
(* The offer of an earlier reply: tryHandlePendingAnalyticalAction *)

NoOffer(m) ==
    /\ At(m, "gate")
    /\ Bag(m).offer = NoMessage
    /\ Goto(m, "probe")
    /\ UNCHANGED << context, run, old, ran, refused, forgotten, stated, overlapped >>

\* One that expired is marked, one that is over is removed.
NotExecutable(m) ==
    /\ At(m, "gate")
    /\ Bag(m).offer # NoMessage
    /\ ~ Executable(m)
    /\ IF Bag(m).status = "PENDING"
         THEN PersistBag(m, [Bag(m) EXCEPT !.status = "EXPIRED"], "probe") /\ Refuse(m)
         ELSE PersistBag(m, Without(Bag(m)), "probe") /\ UNCHANGED refused
    /\ UNCHANGED << run, old, ran, forgotten, stated, overlapped >>

\* A provider is asked what the message means for the offer.
AskProvider(m) ==
    /\ At(m, "gate")
    /\ Executable(m)
    /\ Goto(m, "resolve")
    /\ UNCHANGED << context, run, old, ran, refused, forgotten, stated, overlapped >>

\* Its answer is no decision: the offer stays, the message is answered without it.
Undecided(m) ==
    /\ At(m, "resolve")
    /\ Goto(m, "probe")
    /\ UNCHANGED << context, run, old, ran, refused, forgotten, stated, overlapped >>

SetAside(m) ==
    /\ At(m, "resolve")
    /\ PersistBag(m, Without(Bag(m)), "probe")
    /\ Refuse(m)
    /\ UNCHANGED << run, old, ran, forgotten, stated, overlapped >>

Reject(m) ==
    /\ At(m, "resolve")
    /\ PersistBag(m, [Bag(m) EXCEPT !.status = "REJECTED"], "close")
    /\ Refuse(m)
    /\ UNCHANGED << run, old, ran, forgotten, stated, overlapped >>

\* Several alternatives and none chosen, or a change that cannot be made: the reply asks
\* again and the offer stays.
Clarify(m) ==
    /\ At(m, "resolve")
    /\ Goto(m, "close")
    /\ UNCHANGED << context, run, old, ran, refused, forgotten, stated, overlapped >>

\* Mutant: the offer is consumed only by what follows.
AcceptUnmarked(m) ==
    /\ At(m, "resolve")
    /\ Goto(m, "execute")
    /\ UNCHANGED << context, run, old, ran, refused, forgotten, stated, overlapped >>

\* Accepted as it is, changed, or one of its alternatives: consumed before it is carried
\* out, so that nothing carries it out again.
Accept(m) ==
    /\ At(m, "resolve")
    /\ PersistBag(m, [Bag(m) EXCEPT !.status = "CONSUMED"], "execute")
    /\ UNCHANGED << run, old, ran, refused, forgotten, stated, overlapped >>

\* The tools are called and the reply is written, by the provider or as a fallback.
Execute(m) ==
    /\ At(m, "execute")
    /\ ran' = [ran EXCEPT ![Bag(m).offer] = @ + 1]
    /\ Finish(m)
    /\ UNCHANGED << context, run, old, refused, forgotten, stated, overlapped >>

-----------------------------------------------------------------------------
(* The question itself *)

\* An independent question puts an end to the last query before anything is looked up,
\* so that its failure does not leave the old one to be continued.
NewQuery(m) ==
    /\ At(m, "probe")
    /\ Factual(m)
    /\ Bag(m).last # NoMessage
    /\ PersistBag(m, [Bag(m) EXCEPT !.last = NoMessage], "premise")
    /\ forgotten' = forgotten \cup {Bag(m).last}
    /\ UNCHANGED << run, old, ran, refused, stated, overlapped >>

\* There is none, the question follows it up, or it asks for an interpretation.
KeepQuery(m) ==
    /\ At(m, "probe")
    /\ Goto(m, "premise")
    /\ UNCHANGED << context, run, old, ran, refused, forgotten, stated, overlapped >>

\* A provider looks for a premise; none found, or the provider failing, changes nothing.
NoPremise(m) ==
    /\ At(m, "premise")
    /\ Goto(m, "answer")
    /\ UNCHANGED << context, run, old, ran, refused, forgotten, stated, overlapped >>

\* Mutant: what was stated first is kept.
FirstOf(list) == IF Len(list) <= PremiseLimit THEN list ELSE SubSeq(list, 1, PremiseLimit)

\* slice(-8): what was stated last is kept.
LastOf(list) ==
    IF Len(list) <= PremiseLimit THEN list
                                 ELSE SubSeq(list, Len(list) - PremiseLimit + 1, Len(list))

\* Mutant: the premise that is replaced stays in force.
WithPremiseBeside(list, m, r) == LastOf(Append(list, InForce(m)))

\* applyUserAssumptionToList: r is superseded and the new one appended.
WithPremise(list, m, r) ==
    LastOf(Append([i \in DOMAIN list |-> [list[i] EXCEPT !.active = @ /\ list[i].by # r]],
                  InForce(m)))

\* Which one it replaces is a choice, for any may be what the user corrects - the last one
\* in force - or the latest in force of its role, cadence and kind of value.
Replaceable(list) == {m \in Messages : \E i \in DOMAIN list : list[i] = InForce(m)}

\* What has been stated once m has stated a premise, in the place of r.
WithStatement(m, r, answered) ==
    LET replaced == IF answered THEN "yes" ELSE "unsure" IN
    Append([i \in DOMAIN stated |-> IF stated[i].by = r THEN [stated[i] EXCEPT !.replaced = replaced]
                                                       ELSE stated[i]],
           [by |-> m, answered |-> answered, replaced |-> "no"])

State(m, r, answered) ==
    stated' = IF overlapped THEN stated ELSE WithStatement(m, r, answered)

PremiseFound(m) ==
    /\ At(m, "premise")
    /\ \E r \in Replaceable(Bag(m).premises) \cup {NoMessage} :
          /\ PersistBag(m, [Bag(m) EXCEPT !.premises = WithPremise(@, m, r)], "answer")
          /\ State(m, r, TRUE)
    /\ UNCHANGED << run, old, ran, refused, forgotten, overlapped >>

\* The premise is written but the answer lost: the failure is caught, and the message goes
\* on with a copy that knows nothing of it.
PremiseUnanswered(m) ==
    /\ At(m, "premise")
    /\ \E r \in Replaceable(Bag(m).premises) \cup {NoMessage} :
          /\ PersistOnly(m, [Bag(m) EXCEPT !.premises = WithPremise(@, m, r)], "answer")
          /\ State(m, r, FALSE)
    /\ UNCHANGED << run, old, ran, refused, forgotten, overlapped >>

-----------------------------------------------------------------------------
(* The answers.  An interpretive question goes to the provider at once. *)

\* A closed reply that keeps nothing: what is not known, denied, or has to be asked again.
ReplyClosed(m) ==
    /\ At(m, "answer")
    /\ Factual(m)
    /\ Finish(m)
    /\ UNCHANGED << context, run, old, ran, refused, forgotten, stated, overlapped >>

\* The state of a family of questions is kept before the reply is written.
SaveFamily(m) ==
    /\ At(m, "answer")
    /\ Factual(m)
    /\ PersistBag(m, Bag(m), "close")
    /\ UNCHANGED << run, old, ran, refused, forgotten, stated, overlapped >>

\* What is left: the reply where it is not written yet, and the trail of the outcome.
Close(m) ==
    /\ At(m, "close")
    /\ Finish(m)
    /\ UNCHANGED << context, run, old, ran, refused, forgotten, stated, overlapped >>

\* The reply is written first, the query afterwards: a billing, the movements of a cost
\* centre, or the last query with what a follow-up changed.
ReplyThenSave(m) ==
    /\ At(m, "answer")
    /\ Factual(m)
    /\ Goto(m, "save")
    /\ UNCHANGED << context, run, old, ran, refused, forgotten, stated, overlapped >>

\* A window of months that is only partly known keeps no query; a query of movements
\* that cannot be kept leaves the last one.
SaveQuery(m) ==
    /\ At(m, "save")
    /\ \E q \in {m, NoMessage, Bag(m).last} :
          PersistBag(m, [Bag(m) EXCEPT !.last = q], "close")
    /\ UNCHANGED << run, old, ran, refused, forgotten, stated, overlapped >>

\* Composed from the facts without the provider.
Compose(m) ==
    /\ At(m, "answer")
    /\ Factual(m)
    /\ Goto(m, "offer")
    /\ UNCHANGED << context, run, old, ran, refused, forgotten, stated, overlapped >>

Generate(m) ==
    /\ At(m, "answer")
    /\ Goto(m, "generate")
    /\ run' = [run EXCEPT ![m] = "STARTED"]
    /\ UNCHANGED << context, old, ran, refused, forgotten, stated, overlapped >>

\* The reply is saved, then the run.
Generated(m) ==
    /\ At(m, "generate")
    /\ Goto(m, "offer")
    /\ run' = [run EXCEPT ![m] = "SUCCEEDED"]
    /\ UNCHANGED << context, old, ran, refused, forgotten, stated, overlapped >>

-----------------------------------------------------------------------------
(* The offer of this reply: maybePersistPendingOfferFromAssistant *)

NothingOffered(m) ==
    /\ At(m, "offer")
    /\ Goto(m, "close")
    /\ UNCHANGED << context, run, old, ran, refused, forgotten, stated, overlapped >>

Offer(m) ==
    /\ At(m, "offer")
    /\ PersistBag(m, [Bag(m) EXCEPT !.offer = m, !.status = "PENDING"], "close")
    /\ Refuse(m)
    /\ UNCHANGED << run, old, ran, forgotten, stated, overlapped >>

-----------------------------------------------------------------------------
(* Failures and time *)

\* Whatever fails once the run is there - the generation, but also the extraction of an
\* offer or the trail after it - is recorded as the run's failure and the request ends.
RunFails(m) ==
    /\ message[m].pc \in {"generate", "offer", "close"}
    /\ run[m] # "none"
    /\ Finish(m)
    /\ run' = [run EXCEPT ![m] = "FAILED"]
    /\ UNCHANGED << context, old, ran, refused, forgotten, stated, overlapped >>

\* The request fails or the process ends anywhere; what was written stays.
Abandon(m) ==
    /\ Active(m)
    /\ Finish(m)
    /\ UNCHANGED << context, run, old, ran, refused, forgotten, stated, overlapped >>

Expire(o) ==
    /\ o \in ({context.offer} \cup {Bag(m).offer : m \in Messages}) \ old
    /\ o # NoMessage
    /\ old' = old \cup {o}
    /\ UNCHANGED << context, message, run, ran, refused, forgotten, stated, overlapped >>

-----------------------------------------------------------------------------
Gate(m) == NoOffer(m) \/ NotExecutable(m) \/ AskProvider(m)

Resolve(m) == Undecided(m) \/ SetAside(m) \/ Reject(m) \/ Clarify(m) \/ Accept(m) \/ Execute(m)

Answer(m) ==
    \/ ReplyClosed(m) \/ SaveFamily(m) \/ ReplyThenSave(m) \/ SaveQuery(m)
    \/ Compose(m) \/ Generate(m) \/ Generated(m) \/ Close(m)

Step(m) ==
    \/ Ask(m) \/ Blocked(m) \/ Gate(m) \/ Resolve(m)
    \/ NewQuery(m) \/ KeepQuery(m) \/ NoPremise(m) \/ PremiseFound(m) \/ PremiseUnanswered(m)
    \/ Answer(m)
    \/ NothingOffered(m) \/ Offer(m) \/ RunFails(m) \/ Abandon(m)

Next ==
    \/ \E m \in Messages : Step(m)
    \/ \E o \in Messages : Expire(o)

Spec == Init /\ [][Next]_vars

-----------------------------------------------------------------------------
(* Properties *)

\* Unless messages overlap, an offer is carried out at most once, and never after it was
\* rejected, set aside, replaced by another or found to have expired: the context is
\* written back whole at every step, and a stale copy would bring the offer back.
OfferRunsOnce ==
    [][\A o \in Messages :
          ran'[o] # ran[o] => overlapped \/ (ran[o] = 0 /\ o \notin refused)]_vars

\* Unless messages overlap, a query an independent question put an end to does not come
\* back, neither for the failure of that question nor with what is saved after it.
ForgottenStaysForgotten == overlapped \/ context.last \notin forgotten

\* Unless messages overlap, a premise stays in force until another replaces it or as many
\* are stated as the list keeps: nothing written for another reason loses it.  The
\* exception is one whose write was not acknowledged, which the message itself overwrites.
PremisesRemain ==
    overlapped \/ \A i \in DOMAIN stated :
        /\ stated[i].answered /\ stated[i].replaced = "no"
        /\ Len(stated) - i < PremiseLimit
        => \E j \in DOMAIN context.premises : context.premises[j] = InForce(stated[i].by)

\* Unless messages overlap, a premise the user has replaced is not in force again: no
\* later write brings the old value back beside the new one, or in its place.
ReplacedStaysReplaced ==
    overlapped \/ \A i \in DOMAIN stated :
        stated[i].replaced = "yes" =>
            \A j \in DOMAIN context.premises : context.premises[j] # InForce(stated[i].by)
=============================================================================
