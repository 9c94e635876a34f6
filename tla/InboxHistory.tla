---------------------------- MODULE InboxHistory ----------------------------
(***************************************************************************)
(* The open thread of the inbox page as URL state.  The page keeps three   *)
(* things that have to agree: the browser's history entries (?c=<id>, with *)
(* the depth stamped on a pushed entry), the selected conversation of the  *)
(* component and its ledger of entries it pushed itself.  history.go() is  *)
(* a task of the browser: it moves the cursor later, and the page learns   *)
(* of it from a popstate event.                                            *)
(***************************************************************************)
EXTENDS Integers, Sequences

CONSTANTS Threads,      \* conversation ids
          NoThread,     \* the list view, or an entry without ?c=
          MaxEntries    \* bound: history entries of the page

ASSUME HistoryAssumption == NoThread \notin Threads /\ MaxEntries \in Nat \ {0}

VARIABLES entries,   \* history entries of this page, oldest first
          cursor,    \* the current entry
          shownId,   \* selectedId
          depth,     \* pushDepthRef
          going      \* steps back of the queued history.go(), 0 for none

historyVars == <<entries, cursor, shownId, depth, going>>

Unstamped == -1      \* an entry whose state carries no sbDepth

Entry(id, d) == [c |-> id, sbDepth |-> d]

HistoryTypeOK ==
    /\ entries \in Seq([c : Threads \cup {NoThread}, sbDepth : Unstamped .. MaxEntries])
    /\ cursor \in 1 .. Len(entries)
    /\ shownId \in Threads \cup {NoThread}
    /\ depth \in Nat
    /\ going \in Nat

\* A deep link, a refresh or a plain visit: the selection is seeded from ?c=.
HistoryInit ==
    \E id \in Threads \cup {NoThread} :
        /\ entries = <<Entry(id, Unstamped)>>
        /\ cursor = 1
        /\ shownId = id
        /\ depth = 0
        /\ going = 0

\* The depth a popstate handler takes from the entry it arrived at.
DepthAt(e) ==
    IF e.sbDepth # Unstamped THEN e.sbDepth
    ELSE IF e.c # NoThread /\ depth > 0 THEN depth - 1 ELSE 0

\* The listener of popstate, run with the traversal that caused it.
OnPopState(to) ==
    /\ cursor' = to
    /\ depth' = DepthAt(entries[to])
    /\ shownId' = entries[to].c

\* pushState drops the forward entries and stamps the new one.
OpenConversation(id) ==
    /\ cursor < MaxEntries
    /\ depth' = depth + 1
    /\ entries' = Append(SubSeq(entries, 1, cursor), Entry(id, depth + 1))
    /\ cursor' = cursor + 1
    /\ shownId' = id
    /\ UNCHANGED going

LedgerKept == depth                      \* mutant
LedgerAfterClose == 0

CloseThread ==
    /\ shownId # NoThread
    /\ going = 0         \* bound: one outstanding history.go()
    /\ shownId' = NoThread
    /\ depth' = LedgerAfterClose
    /\ \/ /\ depth > 0
          /\ going' = depth
          /\ UNCHANGED entries
       \/ /\ depth = 0
          /\ entries' = [entries EXCEPT ![cursor] = Entry(NoThread, Unstamped)]
          /\ UNCHANGED going
    /\ UNCHANGED cursor

\* The browser carries out the queued history.go().
Traverse ==
    /\ going > 0
    /\ going' = 0
    /\ OnPopState(cursor - going)
    /\ UNCHANGED entries

\* The operator's back and forward buttons, within the page's entries; the
\* browser carries out traversals one after the other.
BrowserMove(to) ==
    /\ going = 0
    /\ to \in 1 .. Len(entries)
    /\ to \in {cursor - 1, cursor + 1}
    /\ OnPopState(to)
    /\ UNCHANGED <<entries, going>>

\* A refresh keeps the entries and starts a new component.
Refresh ==
    /\ going = 0
    /\ shownId' = entries[cursor].c
    /\ depth' = 0
    /\ UNCHANGED <<entries, cursor, going>>

HistoryNext ==
    \/ \E id \in Threads : OpenConversation(id)
    \/ CloseThread
    \/ Traverse
    \/ \E to \in 1 .. MaxEntries : BrowserMove(to)
    \/ Refresh

HistorySpec == HistoryInit /\ [][HistoryNext]_historyVars

-----------------------------------------------------------------------------

\* The URL and the view never disagree once the browser has carried out
\* what was asked of it (the page's comment on selectedId, page.tsx:240-245).
UrlMatchesView ==
    going = 0 => shownId = entries[cursor].c

\* The back row of a thread never takes the operator out of the page: what
\* the ledger allows to go back, with what is already queued, stays within
\* the page's own entries, whatever mix of pushes, back, forward and refresh
\* preceded it.
BackRowStaysInPage ==
    depth + going < cursor

\* The page's ledger is true of the browser's history.
HistoryInv == HistoryTypeOK /\ UrlMatchesView /\ BackRowStaysInPage
=============================================================================
