--------------------------- MODULE InboxOptimism ---------------------------
(***************************************************************************)
(* The bubbles of one conversation in the inbox page: the polled query,    *)
(* the optimistic row of a reply in flight and its rollback to a snapshot. *)
(* Threads do not share this state: one thread is enough.                  *)
(***************************************************************************)
EXTENDS Naturals, FiniteSets

CONSTANTS Replies,      \* reply ids, each sent at most once
          MaxOpens      \* bound: mounts of the page

ASSUME OptimismAssumption == MaxOpens \in Nat

VARIABLES opened,     \* mounts of the page so far
          threadOpen,       \* the thread is selected
          bubbles,    \* the query's data: {} or one [out, opt]
          bubblePoll,       \* what the fetch in flight read: {} or one [out, opt]
          verdict,    \* "polling", or "final" after a 404 or 400
          inFlight,   \* reply mutations in flight
          delivered,  \* server: replies of the thread
          failed,     \* replies the page reported as failed
          overlapped  \* history: a reply was sent while one of an earlier
                      \* mount was still under way

optimismVars == <<opened, threadOpen, bubbles, bubblePoll, verdict, inFlight, delivered,
                  failed, overlapped>>

View == [out : SUBSET Replies, opt : SUBSET Replies]

OptimismTypeOK ==
    /\ opened \in 0 .. MaxOpens /\ threadOpen \in BOOLEAN
    /\ \A q \in {bubbles, bubblePoll} : q \subseteq View /\ Cardinality(q) <= 1
    /\ verdict \in {"polling", "final"}
    /\ \A m \in inFlight : m.reply \in Replies /\ m.previous \subseteq View
    /\ delivered \subseteq Replies /\ failed \subseteq Replies /\ overlapped \in BOOLEAN

OptimismInit ==
    /\ opened = 0 /\ threadOpen = FALSE
    /\ bubbles = {} /\ bubblePoll = {} /\ verdict = "polling"
    /\ inFlight = {} /\ delivered = {} /\ failed = {} /\ overlapped = FALSE

ServerView == {[out |-> delivered, opt |-> {}]}

OpenBubbles ==
    /\ ~threadOpen /\ opened < MaxOpens
    /\ threadOpen' = TRUE /\ opened' = opened + 1
    /\ UNCHANGED <<bubbles, bubblePoll, verdict, inFlight, delivered, failed, overlapped>>

LeaveBubbles ==
    /\ threadOpen
    /\ threadOpen' = FALSE
    /\ UNCHANGED <<opened, bubbles, bubblePoll, verdict, inFlight, delivered, failed, overlapped>>

-----------------------------------------------------------------------------
PollUntilLoaded ==                                                   \* mutant
    /\ threadOpen /\ bubblePoll = {} /\ verdict = "polling" /\ bubbles = {}
    /\ bubblePoll' = ServerView
    /\ UNCHANGED <<opened, threadOpen, bubbles, verdict, inFlight, delivered, failed, overlapped>>

\* refetchInterval: 5 s, but not after a 404 or a 400.
PollBubbles ==
    /\ threadOpen /\ bubblePoll = {} /\ verdict = "polling"
    /\ bubblePoll' = ServerView
    /\ UNCHANGED <<opened, threadOpen, bubbles, verdict, inFlight, delivered, failed, overlapped>>

\* The refresh button of the error states.
RefreshBubbles ==
    /\ threadOpen /\ bubblePoll = {} /\ verdict = "final"
    /\ bubblePoll' = ServerView
    /\ UNCHANGED <<opened, threadOpen, bubbles, verdict, inFlight, delivered, failed, overlapped>>

LandBubbles ==
    /\ bubblePoll # {}
    /\ bubbles' = bubblePoll /\ bubblePoll' = {} /\ verdict' = "polling"
    /\ UNCHANGED <<opened, threadOpen, inFlight, delivered, failed, overlapped>>

\* 404 and 400 are final verdicts, every other failure is retried by the poll.
PollFails(v) ==
    /\ bubblePoll # {}
    /\ bubblePoll' = {} /\ verdict' = v
    /\ UNCHANGED <<opened, threadOpen, bubbles, inFlight, delivered, failed, overlapped>>
-----------------------------------------------------------------------------
\* isPending of this mount's mutation.
Replying == \E m \in inFlight : m.by = opened

WithRow(r) ==
    IF bubbles = {} THEN {[out |-> {}, opt |-> {r}]}
    ELSE {[b EXCEPT !.opt = @ \cup {r}] : b \in bubbles}

\* mutate and onMutate: the poll in flight is cancelled, the row appended.
Reply(r) ==
    /\ threadOpen /\ ~Replying
    /\ r \notin delivered \cup failed /\ \A m \in inFlight : m.reply # r
    /\ inFlight' = inFlight \cup
           {[reply |-> r, by |-> opened, previous |-> bubbles, at |-> "posted"]}
    /\ bubbles' = WithRow(r)
    /\ bubblePoll' = {}
    /\ overlapped' = (overlapped \/ inFlight # {})
    /\ UNCHANGED <<opened, threadOpen, verdict, delivered, failed>>

DeliverReply(m) ==
    /\ m.at = "posted"
    /\ inFlight' = (inFlight \ {m}) \cup {[m EXCEPT !.at = "stored"]}
    /\ delivered' = delivered \cup {m.reply}
    /\ UNCHANGED <<opened, threadOpen, bubbles, bubblePoll, verdict, failed, overlapped>>

\* onSuccess invalidates the thread: an observed query is fetched anew.
ReplySucceeds(m) ==
    /\ m.at = "stored"
    /\ inFlight' = inFlight \ {m}
    /\ bubblePoll' = IF threadOpen THEN ServerView ELSE bubblePoll
    /\ UNCHANGED <<opened, threadOpen, bubbles, verdict, delivered, failed, overlapped>>

RolledBack(m) ==
    IF m.previous # {} THEN m.previous
    ELSE {[b EXCEPT !.opt = {}] : b \in bubbles}
NotRolledBack(m) == bubbles                                          \* mutant
Restored(m) == RolledBack(m)

\* onError: refused, unreachable, or late.
ReplyFails(m) ==
    /\ m \in inFlight
    /\ inFlight' = inFlight \ {m}
    /\ failed' = failed \cup {m.reply}
    /\ bubbles' = Restored(m)
    /\ UNCHANGED <<opened, threadOpen, bubblePoll, verdict, delivered, overlapped>>

OptimismNext ==
    \/ OpenBubbles \/ LeaveBubbles
    \/ PollBubbles \/ RefreshBubbles \/ LandBubbles
    \/ \E v \in {"polling", "final"} : PollFails(v)
    \/ \E r \in Replies : Reply(r)
    \/ \E m \in inFlight : DeliverReply(m) \/ ReplySucceeds(m) \/ ReplyFails(m)

\* The timers of the queries run; a server that is up answers in the end.
OptimismSpec ==
    /\ OptimismInit /\ [][OptimismNext]_optimismVars
    /\ WF_optimismVars(PollBubbles) /\ SF_optimismVars(LandBubbles)

-----------------------------------------------------------------------------
Dead == {r \in Replies : \A m \in inFlight : m.reply # r}

\* An optimistic bubble whose request has ended does not stay for good in a
\* thread that is open and polled: the rollback, the refetch or the next poll
\* takes it away (page.tsx:738-741: the thread never lies about a reply).
OptimismEnds ==
    <>[](threadOpen /\ verdict = "polling") =>
        []<>(\A b \in bubbles : b.opt \cap Dead = {})

\* Across remounts of the page, polls and late failures, a bubble beyond the
\* server's rows is of a reply that is delivered or under way, and of none the
\* page reported as failed, not even until the next poll.  (A reply whose answer
\* was lost is reported as failed and may be delivered all the same.)  Not so
\* once two replies overlapped: the rollback of one restores what it saw of the
\* other.
BubblesAreBacked ==
    ~overlapped =>
        \A b \in bubbles : /\ b.opt \cap failed = {}
                           /\ b.opt \subseteq delivered \cup {m.reply : m \in inFlight}

\* No bubble claims a reply that failed or that nobody sent.
BubblesInv == OptimismTypeOK /\ BubblesAreBacked
=============================================================================
