---------------------------- MODULE InboxScroll ----------------------------
(***************************************************************************)
(* Reading one thread of the inbox page: where the viewport stands, the    *)
(* pill that counts new messages while the operator reads history, and the *)
(* window of rendered bubbles.  The 5 s poll, the operator's own           *)
(* optimistic reply and the scroll timer all act on the same counters.     *)
(***************************************************************************)
EXTENDS Integers, FiniteSets

CONSTANTS Batch,        \* MESSAGE_WINDOW
          MaxMessages   \* bound: messages of the thread

ASSUME ScrollAssumption == Batch \in Nat \ {0} /\ MaxMessages \in Nat \ {0}

VARIABLES total,      \* server: messages of the thread
          persisted,  \* messages of the query's data without the optimistic row
          row,        \* 1 if the optimistic row is in the data
          replyOf,    \* the snapshot of the reply in flight, {} for none
          seen,       \* prevThreadRef: {} or one [count, real]
          place,      \* "tail" or "history": is the viewport near the bottom
          landing,    \* the timer of scrollToBottom runs
          pill,       \* newMessageCount
          rendered,   \* messageWindow
          unseen,     \* history: messages that came since the tail was on screen
          replied     \* history: a reply was sent since then

scrollVars == <<total, persisted, row, replyOf, seen, place, landing, pill,
                rendered, unseen, replied>>

ScrollTypeOK ==
    /\ total \in 0 .. MaxMessages /\ persisted \in 0 .. MaxMessages /\ row \in {0, 1}
    /\ replyOf \subseteq [persisted : 0 .. MaxMessages, row : {0}] /\ Cardinality(replyOf) <= 1
    /\ seen \subseteq [count : Nat, real : Nat] /\ Cardinality(seen) <= 1
    /\ place \in {"tail", "history"} /\ landing \in BOOLEAN /\ replied \in BOOLEAN
    /\ pill \in Nat /\ rendered \in {Batch * n : n \in 1 .. MaxMessages + 1} /\ unseen \in Nat

ScrollInit ==
    /\ total = 1 /\ persisted = 0 /\ row = 0 /\ replyOf = {} /\ seen = {}
    /\ place = "tail" /\ landing = FALSE /\ pill = 0 /\ rendered = Batch
    /\ unseen = 0 /\ replied = FALSE

Hidden == IF persisted + row > rendered THEN persisted + row - rendered ELSE 0

NewSince(real) == LET s == CHOOSE s \in seen : TRUE IN IF real > s.real THEN real - s.real ELSE 0
Grown(count) == \E s \in seen : count > s.count

\* The effect on messages: land, follow, or count what came in the pill.
ShowMessages(real, own) ==
    /\ persisted' = real /\ row' = own
    /\ IF real + own = 0 THEN UNCHANGED <<seen, landing, pill>>
       ELSE /\ seen' = {[count |-> real + own, real |-> real]}
            /\ landing' = (landing \/ seen = {} \/ (Grown(real + own) /\ place = "tail"))
            /\ pill' = IF seen = {} THEN 0
                       ELSE IF Grown(real + own) /\ place = "history" THEN pill + NewSince(real)
                       ELSE pill

\* The thread's messages arrive: the poll, or the fetch after a reply.
ThreadPolled ==
    /\ ShowMessages(total, 0)
    /\ unseen' = IF place = "history" /\ total > persisted THEN unseen + total - persisted ELSE unseen
    /\ UNCHANGED <<total, replyOf, place, rendered, replied>>

\* A failed fetch resets the ledger of the effect: the next data lands anew.
PollBroken ==
    /\ persisted > 0
    /\ seen' = {}
    /\ UNCHANGED <<total, persisted, row, replyOf, place, landing, pill, rendered, unseen, replied>>

MessageArrives ==
    /\ total < MaxMessages
    /\ total' = total + 1
    /\ UNCHANGED <<persisted, row, replyOf, seen, place, landing, pill, rendered, unseen, replied>>
-----------------------------------------------------------------------------
ReplyShown ==
    /\ replyOf = {} /\ row = 0 /\ total < MaxMessages
    /\ pill + unseen <= MaxMessages        \* bound: each rollback may count anew
    /\ replyOf' = {[persisted |-> persisted, row |-> row]}
    /\ ShowMessages(persisted, 1)
    /\ replied' = TRUE
    /\ UNCHANGED <<total, place, rendered, unseen>>

\* The server has the reply, and onSuccess scrolls to it.
ReplyLanded ==
    /\ replyOf # {} /\ total < MaxMessages
    /\ total' = total + 1 /\ replyOf' = {} /\ landing' = TRUE
    /\ UNCHANGED <<persisted, row, seen, place, pill, rendered, unseen, replied>>

\* The rollback to the snapshot, which may be older than the last poll.
ReplyRolledBack ==
    /\ \E s \in replyOf : ShowMessages(s.persisted, s.row)
    /\ replyOf' = {}
    /\ UNCHANGED <<total, place, rendered, unseen, replied>>
-----------------------------------------------------------------------------
AtTail == place' = "tail" /\ pill' = 0 /\ unseen' = 0 /\ replied' = (replyOf # {} \/ row = 1)

\* The scroll listener, once per frame.
ScrollUp ==
    /\ place = "tail" /\ persisted > 0
    /\ place' = "history"
    /\ UNCHANGED <<total, persisted, row, replyOf, seen, landing, pill, rendered, unseen, replied>>

ScrollDown ==
    /\ place = "history" /\ AtTail
    /\ UNCHANGED <<total, persisted, row, replyOf, seen, landing, rendered>>

\* The timer of scrollToBottom; the scroll it makes fires the listener.
Landed ==
    /\ landing /\ landing' = FALSE /\ AtTail
    /\ UNCHANGED <<total, persisted, row, replyOf, seen, rendered>>

JumpToLatest ==
    /\ pill > 0
    /\ pill' = 0 /\ landing' = TRUE
    /\ UNCHANGED <<total, persisted, row, replyOf, seen, place, rendered, unseen, replied>>

LoadOlder ==
    /\ Hidden > 0
    /\ rendered' = rendered + Batch
    /\ UNCHANGED <<total, persisted, row, replyOf, seen, place, landing, pill, unseen, replied>>

\* Another thread: nothing of this one rides along, its first data lands.
SwitchThread(n) ==
    /\ persisted > 0 /\ replyOf = {}
    /\ total' = n /\ persisted' = 0 /\ row' = 0 /\ seen' = {}
    /\ pill' = 0 /\ rendered' = Batch /\ unseen' = 0 /\ replied' = FALSE
    /\ UNCHANGED <<replyOf, place, landing>>

ScrollNext ==
    \/ ThreadPolled \/ PollBroken \/ MessageArrives
    \/ ReplyShown \/ ReplyLanded \/ ReplyRolledBack
    \/ ScrollUp \/ ScrollDown \/ Landed \/ JumpToLatest \/ LoadOlder
    \/ \E n \in 0 .. MaxMessages : SwitchThread(n)

ScrollSpec == ScrollInit /\ [][ScrollNext]_scrollVars

-----------------------------------------------------------------------------

\* While the operator reads history and has not replied, the pill counts
\* exactly the messages that came meanwhile: no poll is counted twice or
\* swallowed (page.tsx:528-533).
PillIsExact ==
    place = "history" /\ ~landing /\ ~replied /\ seen # {} => pill = unseen

\* The pill is exact, through polls, replies, rollbacks and changes of thread.
ScrollInv == ScrollTypeOK /\ PillIsExact
=============================================================================
