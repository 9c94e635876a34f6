---------------------------- MODULE Conversations ----------------------------
(***************************************************************************)
(* The messages of one customer of a page: webhook deliveries file them     *)
(* and answer them, with the flows first and the keyword rules after; the   *)
(* inbox opens the thread, hands the conversation to a person, deletes it.  *)
(* A delivery is retried by Facebook at will, and whatever is sent comes    *)
(* back as an echo.                                                         *)
(*                                                                         *)
(* A row of messages is unique by message id, and a transaction that        *)
(* inserts one waits for another that has: the insert and its commit are    *)
(* one step, after the reads.  Abstracted: texts, rules, quota and          *)
(* subscriber; of a conversation's columns, the order of last_message_at.   *)
(***************************************************************************)
EXTENDS Naturals, FiniteSets

CONSTANTS
    Texts,      \* messages of the customer
    Requests,   \* handlers of requests, of webhook deliveries and of the inbox
    MaxUpsets   \* bound: answers lost, handlers that die, commits that fail, conversations deleted

ASSUME MaxUpsetsAssumption == MaxUpsets \in Nat

In(t) == <<"in", t>>
Bot(t) == <<"bot", t>>
FlowOf(t) == <<"flow", t>>
Sendings == {"bot", "flow"} \X Texts
Mids == {"in"} \X Texts \cup Sendings

\* The conversation of Facebook, the one made up when its id is not to be
\* had, and the one of the page with itself, where echoes end up.
Ids == {"real", "synth", "page"}
Nowhere == "nowhere"

VARIABLES
    conv,       \* the row of a conversation: none, known, or named (fb_user_id is the customer's)
    paused,     \* bot_paused
    filed,      \* the conversation a message is stored in
    graph,      \* the messages Facebook has
    stage,      \* how far a handler is
    about,      \* the messages it is to file, or the text it is to answer
    to,         \* the conversation it is to file them in
    seen,       \* what it read of that: no row, a row, or a row deleted since
    answers,    \* history: answers sent to a text
    excused,    \* history: upsets that answer for one more
    quiet,      \* history: texts filed while the bot was paused, as it is since
    upsets

convRows == <<conv, paused, filed>>
convHands == <<stage, about, to, seen>>
convHistory == <<answers, excused, quiet>>
convVars == <<convRows, graph, convHands, convHistory, upsets>>

ConvTypeOK ==
    /\ conv \in [Ids -> {"none", "known", "named"}]
    /\ paused \in [Ids -> BOOLEAN]
    /\ filed \in [Mids -> Ids \cup {Nowhere}]
    /\ graph \subseteq Mids
    /\ stage \in [Requests -> {"idle", "looking", "storing", "opening", "writing", "stored",
                               "free", "flowing", "recording", "matching", "answered"}]
    /\ about \in [Requests -> SUBSET Mids]
    /\ to \in [Requests -> Ids]
    /\ seen \in [Requests -> {"nothing", "row", "gone"}]
    /\ answers \in [Texts -> Nat] /\ excused \in [Texts -> Nat]
    /\ quiet \subseteq Texts
    /\ upsets \in 0 .. MaxUpsets
    /\ \A m \in Mids : filed[m] \in Ids => conv[filed[m]] # "none"

\* Earlier messages have left either row of the customer; a made-up one has his name.
ConvInit ==
    /\ conv \in [Ids -> {"none", "known", "named"}]
    /\ conv["synth"] # "known" /\ conv["page"] = "none"
    /\ paused = [c \in Ids |-> FALSE]
    /\ filed = [m \in Mids |-> Nowhere]
    /\ graph = {In(t) : t \in Texts}
    /\ stage = [h \in Requests |-> "idle"]
    /\ about = [h \in Requests |-> {}]
    /\ to = [h \in Requests |-> "page"]
    /\ seen = [h \in Requests |-> "nothing"]
    /\ answers = [t \in Texts |-> 0] /\ excused = [t \in Texts |-> 0]
    /\ quiet = {}
    /\ upsets = 0

Upset == upsets < MaxUpsets /\ upsets' = upsets + 1

At(h, where) == stage[h] = where
GoTo(h, where) == stage' = [stage EXCEPT ![h] = where] /\ UNCHANGED <<about, to, seen>>
TakesUp(h, where, messages, c, row) ==
    /\ stage' = [stage EXCEPT ![h] = where]
    /\ about' = [about EXCEPT ![h] = messages]
    /\ to' = [to EXCEPT ![h] = c]
    /\ seen' = [seen EXCEPT ![h] = row]
Rest(h) == TakesUp(h, "idle", {}, "page", "nothing")

RowOf(c) == IF conv[c] = "none" THEN "nothing" ELSE "row"
Missing(messages) == {m \in messages : filed[m] = Nowhere}
Answering(h, t) == about[h] = {In(t)} /\ stage[h] \notin {"opening", "writing"}

-----------------------------------------------------------------------------
(* Filing: what is missing is read, then written; the index on the ids and   *)
(* the foreign key to the conversation refuse what has changed since.        *)

Deliver(h, t, c) ==
    /\ At(h, "idle")
    /\ c \in {"real", "synth"}
    /\ TakesUp(h, "looking", {In(t)}, c, "nothing")
    /\ UNCHANGED <<convRows, graph, convHistory, upsets>>

DeliverEcho(h, m) ==
    /\ At(h, "idle")
    /\ m \in Sendings \cap graph
    /\ TakesUp(h, "looking", {m}, "page", "nothing")
    /\ UNCHANGED <<convRows, graph, convHistory, upsets>>

LookUp(h) ==
    /\ At(h, "looking")
    /\ IF Missing(about[h]) = {}
       THEN Rest(h)
       ELSE TakesUp(h, "storing", Missing(about[h]), to[h], RowOf(to[h]))
    /\ UNCHANGED <<convRows, graph, convHistory, upsets>>

(* A conversation without a row is given one, or the one another delivery   *)
(* has just made.                                                            *)
Accepted(h) == Missing(about[h]) = about[h] /\ seen[h] # "gone"

Files(h) ==
    /\ filed' = [m \in Mids |-> IF m \in about[h] THEN to[h] ELSE filed[m]]
    /\ conv' = [conv EXCEPT ![to[h]] = IF At(h, "storing") THEN "named" ELSE @]
    /\ quiet' = IF paused[to[h]] THEN quiet \cup {t \in Texts : In(t) \in about[h]} ELSE quiet

(* handle_messaging_event answers what it has stored, and nothing else. *)
NextIfStored(h) == IF \E t \in Texts : Answering(h, t) THEN "stored" ELSE "idle"
AfterRefusalAnswers(h) == NextIfStored(h) \* mutant: a refused insert counts as stored (v4 5.13)
AfterRefusal(h) == "idle"

Then(h, where) == IF where = "idle" THEN Rest(h) ELSE GoTo(h, where)

Store(h) ==
    /\ stage[h] \in {"storing", "writing"}
    /\ IF Accepted(h)
       THEN Files(h) /\ Then(h, NextIfStored(h))
       ELSE UNCHANGED <<conv, filed, quiet>> /\ Then(h, AfterRefusal(h))
    /\ UNCHANGED <<paused, graph, answers, excused, upsets>>

(* The commit fails, or is made and reported as failed. *)
CommitFails(h) ==
    /\ stage[h] \in {"storing", "writing"} /\ Upset
    /\ \/ Accepted(h) /\ Files(h)
       \/ UNCHANGED <<conv, filed, quiet>>
    /\ Rest(h)
    /\ UNCHANGED <<paused, graph, answers, excused>>

-----------------------------------------------------------------------------
(* Answering *)

(* A redelivery after ten minutes is not answered, nor is a conversation in  *)
(* a person's hands; a probe that fails finds no pause.                      *)
ProbesReal(h) == paused["real"] \* mutant: the pause of the conversation Facebook knows
IsPaused(h) == paused[to[h]]

Probe(h) ==
    /\ At(h, "stored")
    /\ \/ Rest(h)
       \/ ~IsPaused(h) /\ GoTo(h, "free")
    /\ UNCHANGED <<convRows, graph, convHistory, upsets>>

ProbeFails(h, t) ==
    /\ At(h, "stored") /\ Answering(h, t) /\ Upset
    /\ excused' = [excused EXCEPT ![t] = @ + 1]
    /\ GoTo(h, "free")
    /\ UNCHANGED <<convRows, graph, answers, quiet>>

(* No flow takes the message, one takes it and says nothing, or one answers. *)
TryFlows(h, t) ==
    /\ At(h, "free") /\ Answering(h, t)
    /\ \/ GoTo(h, "matching") /\ UNCHANGED <<graph, answers>>
       \/ Rest(h) /\ UNCHANGED <<graph, answers>>
       \/ /\ TakesUp(h, "flowing", about[h], to[h], RowOf(to[h]))
          /\ graph' = graph \cup {FlowOf(t)}
          /\ answers' = [answers EXCEPT ![t] = @ + 1]
    /\ UNCHANGED <<convRows, excused, quiet, upsets>>

(* The flow looks whether the echo of its answer is filed already, *)
LookForFlowEcho(h, t) ==
    /\ At(h, "flowing") /\ Answering(h, t)
    /\ IF Missing({FlowOf(t)}) = {} THEN Rest(h) ELSE GoTo(h, "recording")
    /\ UNCHANGED <<convRows, graph, convHistory, upsets>>

(* and files it.  When the echo is faster, or the conversation is gone, or   *)
(* the commit fails, the run fails, and the keyword rules answer as well.    *)
RecordFlow(h, t) ==
    /\ At(h, "recording") /\ Answering(h, t)
    /\ IF filed[FlowOf(t)] = Nowhere /\ seen[h] = "row"
       THEN filed' = [filed EXCEPT ![FlowOf(t)] = to[h]] /\ Rest(h) /\ UNCHANGED excused
       ELSE excused' = [excused EXCEPT ![t] = @ + 1] /\ GoTo(h, "matching") /\ UNCHANGED filed
    /\ UNCHANGED <<conv, paused, graph, answers, quiet, upsets>>

RecordFlowFails(h, t) ==
    /\ At(h, "recording") /\ Answering(h, t) /\ Upset
    /\ excused' = [excused EXCEPT ![t] = @ + 1]
    /\ GoTo(h, "matching")
    /\ UNCHANGED <<convRows, graph, answers, quiet>>

(* process_single_message: no rule, or a rule whose answer is sent, once     *)
(* more after a timeout.                                                     *)
MatchRules(h, t) ==
    /\ At(h, "matching") /\ Answering(h, t)
    /\ \/ Rest(h) /\ UNCHANGED <<graph, answers>>
       \/ /\ GoTo(h, "answered")
          /\ graph' = graph \cup {Bot(t)}
          /\ answers' = [answers EXCEPT ![t] = @ + 1]
    /\ UNCHANGED <<convRows, excused, quiet, upsets>>

AnswerIsLost(h, t) ==
    /\ At(h, "matching") /\ Answering(h, t) /\ Upset
    /\ answers' = [answers EXCEPT ![t] = @ + 1]
    /\ excused' = [excused EXCEPT ![t] = @ + 1]
    /\ UNCHANGED <<convRows, graph, convHands, quiet>>

(* _persist_bot_reply: in the customer's newest conversation, if he has one. *)
FindConversation(h, t) ==
    /\ At(h, "answered") /\ Answering(h, t)
    /\ \/ \E c \in Ids :
            /\ conv[c] = "named"
            /\ IF Missing({Bot(t)}) = {} THEN Rest(h) ELSE TakesUp(h, "storing", {Bot(t)}, c, "row")
       \/ (\A c \in Ids : conv[c] # "named") /\ Rest(h)
    /\ UNCHANGED <<convRows, graph, convHistory, upsets>>

-----------------------------------------------------------------------------
(* The inbox *)

(* Facebook's thread is fetched when a conversation is opened, *)
OpenThread(k) ==
    /\ At(k, "idle")
    /\ TakesUp(k, "opening", graph, "real", "nothing")
    /\ UNCHANGED <<convRows, graph, convHistory, upsets>>

(* and what of it is missing is filed. *)
ReadThread(k) ==
    /\ At(k, "opening")
    /\ IF conv["real"] = "none" \/ Missing(about[k]) = {}
       THEN Rest(k)
       ELSE TakesUp(k, "writing", Missing(about[k]), "real", "row")
    /\ UNCHANGED <<convRows, graph, convHistory, upsets>>

(* The list of conversations, synchronised from Facebook's. *)
SyncList ==
    /\ conv["real"] = "none"
    /\ \E row \in {"known", "named"} : conv' = [conv EXCEPT !["real"] = row]
    /\ UNCHANGED <<paused, filed, graph, convHands, convHistory, upsets>>

SetPause(c) ==
    /\ conv[c] # "none"
    /\ paused' = [paused EXCEPT ![c] = ~@]
    /\ quiet' = IF paused[c] THEN {t \in quiet : filed[In(t)] # c} ELSE quiet
    /\ UNCHANGED <<conv, filed, graph, convHands, answers, excused, upsets>>

DeleteConversation(c) ==
    /\ conv[c] # "none" /\ Upset
    /\ conv' = [conv EXCEPT ![c] = "none"]
    /\ paused' = [paused EXCEPT ![c] = FALSE]
    /\ filed' = [m \in Mids |-> IF filed[m] = c THEN Nowhere ELSE filed[m]]
    /\ seen' = [h \in Requests |-> IF to[h] = c /\ seen[h] = "row" THEN "gone" ELSE seen[h]]
    /\ excused' = [t \in Texts |-> IF filed[In(t)] = c THEN excused[t] + 1 ELSE excused[t]]
    /\ quiet' = {t \in quiet : filed[In(t)] # c}
    /\ UNCHANGED <<graph, stage, about, to, answers>>

-----------------------------------------------------------------------------

HandlerDies(h) ==
    /\ ~At(h, "idle") /\ Upset
    /\ Rest(h)
    /\ UNCHANGED <<convRows, graph, convHistory>>

Answer(h, t) ==
    \/ ProbeFails(h, t) \/ TryFlows(h, t) \/ LookForFlowEcho(h, t) \/ RecordFlow(h, t) \/ RecordFlowFails(h, t)
    \/ MatchRules(h, t) \/ AnswerIsLost(h, t) \/ FindConversation(h, t)

ConvNext ==
    \/ \E h \in Requests :
        \/ \E m \in Mids : DeliverEcho(h, m)
        \/ \E t \in Texts : Answer(h, t) \/ \E c \in Ids : Deliver(h, t, c)
        \/ LookUp(h) \/ Probe(h)
        \/ OpenThread(h) \/ ReadThread(h)
        \/ Store(h) \/ CommitFails(h) \/ HandlerDies(h)
    \/ \E c \in Ids : (c # "page" /\ SetPause(c)) \/ DeleteConversation(c)
    \/ SyncList

ConvSpec == ConvInit /\ [][ConvNext]_convVars

-----------------------------------------------------------------------------

(* A text is answered once, however often and however concurrently it is     *)
(* delivered; once more only for an answer that was lost, a flow's answer    *)
(* that could not be recorded, or a text that was deleted.                   *)
AnsweredOnce == \A t \in Texts : answers[t] <= 1 + excused[t]

(* What was answered is in the inbox, unless it was deleted there. *)
AnsweredIsFiled == \A t \in Texts : answers[t] > 0 /\ filed[In(t)] = Nowhere => excused[t] > 0

(* While a conversation is in a person's hands, the bot does not answer what *)
(* is filed in it.                                                           *)
PausedIsQuiet == \A t \in quiet : answers[t] <= excused[t]

(* An answer of the keyword rules is in the inbox, filed by the handler that *)
(* sent it, by its echo or with the thread, whichever is first; but for the  *)
(* upsets, no order of the three loses it.                                   *)
RepliesAreFiled ==
    \A t \in Texts : Bot(t) \in graph /\ filed[Bot(t)] = Nowhere =>
        \/ upsets > 0
        \/ \E h \in Requests : Answering(h, t) /\ At(h, "answered")
        \/ \E h \in Requests : about[h] = {Bot(t)} /\ At(h, "storing")

ConversationsInv == ConvTypeOK /\ AnsweredOnce /\ AnsweredIsFiled /\ PausedIsQuiet /\ RepliesAreFiled
=============================================================================
