----------------------------- MODULE InboxList -----------------------------
(***************************************************************************)
(* The conversation list of the inbox page: the debounced search, one      *)
(* cached list per search, the previous list as placeholder, the 8 s poll, *)
(* and the unread badge that opening a thread clears before the server     *)
(* knows.  The list of a search is reduced to the unread count of the one  *)
(* conversation it may show.                                               *)
(***************************************************************************)
EXTENDS Naturals, FiniteSets

CONSTANTS Terms,       \* settled and unsettled search texts, with the filter
          MaxUnread,   \* bound: customer messages that arrive
          MaxMarks  \* bound: times the thread is opened

ASSUME ListAssumption == MaxUnread \in Nat /\ MaxMarks \in Nat

VARIABLES search,      \* the text in the field
          debounced,   \* debouncedSearch
          lists,       \* lists[t]: the query's data, {} or one unread count
          answers,     \* answers[t]: what the fetch in flight read
          listShown,   \* the search whose list is on screen, {} for none
          unread,      \* server: unread customer messages of the conversation
          marking,     \* read marks on their way to the server
          marks     \* times the thread was opened

listVars == <<search, debounced, lists, answers, listShown, unread, marking, marks>>

ListTypeOK ==
    /\ search \in Terms /\ debounced \in Terms
    /\ \A f \in {lists, answers} : \A t \in Terms :
           f[t] \subseteq 0 .. MaxUnread /\ Cardinality(f[t]) <= 1
    /\ listShown \subseteq Terms
    /\ unread \in 0 .. MaxUnread /\ marking \in Nat /\ marks \in 0 .. MaxMarks

ListInit ==
    /\ search \in Terms /\ debounced = search
    /\ lists = [t \in Terms |-> {}] /\ answers = [t \in Terms |-> {}]
    /\ listShown = {}
    /\ unread = 0 /\ marking = 0 /\ marks = 0

TypeSearch(t) ==
    /\ t # search
    /\ search' = t
    /\ UNCHANGED <<debounced, lists, answers, listShown, unread, marking, marks>>

\* placeholderData: the last list with data stays until the new one is there.
Placeholder(t) == IF lists[t] # {} THEN {t} ELSE listShown

\* The timer of the effect on search.
SettleSearch ==
    /\ debounced # search
    /\ debounced' = search
    /\ listShown' = Placeholder(search)
    /\ UNCHANGED <<search, lists, answers, unread, marking, marks>>

\* The query of the settled search polls; one that is not observed does not.
FetchList ==
    /\ answers[debounced] = {}
    /\ answers' = [answers EXCEPT ![debounced] = {unread}]
    /\ UNCHANGED <<search, debounced, lists, listShown, unread, marking, marks>>

\* An answer goes to the list of the search it was asked for, whichever is
\* on screen by then.
LandList(t) ==
    /\ answers[t] # {}
    /\ lists' = [lists EXCEPT ![t] = answers[t]]
    /\ answers' = [answers EXCEPT ![t] = {}]
    /\ listShown' = IF t = debounced THEN {t} ELSE listShown
    /\ UNCHANGED <<search, debounced, unread, marking, marks>>

\* After the retry: the error state, or the list there is.
ListFails(t) ==
    /\ answers[t] # {}
    /\ answers' = [answers EXCEPT ![t] = {}]
    /\ UNCHANGED <<search, debounced, lists, listShown, unread, marking, marks>>

\* markRead: the badge of every cached list at once, the server later.
ClearBadges == [t \in Terms |-> IF lists[t] = {} THEN {} ELSE {0}]

\* What the conversation's row on screen shows, if the list has come.
ItemsOnScreen == UNION {lists[t] : t \in listShown}

OpenUnread ==
    /\ ItemsOnScreen # {}
    /\ marks < MaxMarks
    /\ marks' = marks + 1
    /\ lists' = ClearBadges
    /\ marking' = marking + 1
    /\ UNCHANGED <<search, debounced, answers, listShown, unread>>

\* The read mark is fire and forget: it arrives or it is lost.
ReadMarked(arrives) ==
    /\ marking > 0
    /\ marking' = marking - 1
    /\ unread' = IF arrives THEN 0 ELSE unread
    /\ UNCHANGED <<search, debounced, lists, answers, listShown, marks>>

CustomerMessage ==
    /\ unread < MaxUnread
    /\ unread' = unread + 1
    /\ UNCHANGED <<search, debounced, lists, answers, listShown, marking, marks>>

ListNext ==
    \/ \E t \in Terms : TypeSearch(t) \/ LandList(t) \/ ListFails(t)
    \/ SettleSearch \/ FetchList \/ OpenUnread \/ CustomerMessage
    \/ \E a \in BOOLEAN : ReadMarked(a)

\* The timers of the page run; a server that is up answers in the end.
ListSpec ==
    /\ ListInit /\ [][ListNext]_listVars
    /\ WF_listVars(SettleSearch) /\ WF_listVars(FetchList)
    /\ SF_listVars(\E t \in Terms : LandList(t))

-----------------------------------------------------------------------------

\* Whatever the order in which the answers to earlier searches arrive, the
\* list on screen is in the end the one of what stands in the search field.
SearchSettles ==
    \A t \in Terms : <>[](search = t) => <>[](listShown = {t})

\* A read mark that was lost or overtaken by a poll does not leave the badge
\* wrong: it reconciles with the server (page.tsx:461-464).
BadgeReconciles ==
    \A t \in Terms, n \in 0 .. MaxUnread :
        <>[](search = t /\ unread = n) => <>[](lists[t] = {n})

\* The list ends with what was searched for and what the server counts.
ListSettles == SearchSettles /\ BadgeReconciles
=============================================================================
